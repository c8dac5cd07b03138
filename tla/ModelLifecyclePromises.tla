----------------------- MODULE ModelLifecyclePromises -----------------------
(***************************************************************************)
(* What the tables of DaemonState promise: a cancel reaches the chat in    *)
(* flight under its id, a model has one idle countdown at most, and the    *)
(* models in memory keep within the cap of their role, those being loaded  *)
(* included.  A load() that holds the gate is the only one that inserts;   *)
(* the model it evicts, the least recently used, makes the room it needs,  *)
(* and everybody else can only make more.                                  *)
(***************************************************************************)
EXTENDS ModelLifecycleLocks, FiniteSetTheorems, WellFoundedInduction

-----------------------------------------------------------------------------
(* The cancel table *)

\* Request r moves on; its entry is cleared if that is the end of it.
Proceeds(r) ==
    /\ UNCHANGED req
    /\ pc[r] \notin {"new", "done"} /\ pc'[r] \notin {"new", "announce"}
    /\ \A x \in Request \ {r} : pc'[x] = pc[x]
    /\ cancelTab' = IF pc'[r] = "done" THEN Cleared(r) ELSE cancelTab

\* The table has an entry for a request exactly if it is a chat in flight.
LEMMA EntryFacts ==
    ASSUME TypeOK, CancelReaches, NEW r \in Request
    PROVE  /\ InFlight(r) => Cleared(r) = [cancelTab EXCEPT ![req[r].id] = None]
           /\ ~InFlight(r) /\ (req[r].op = "chat" => req[r].id \in Id) => Cleared(r) = cancelTab
BY TaskFacts DEF CancelReaches, InFlight, Cleared, TypeOK

\* CancelReaches of the next state, entry by entry.
LEMMA TableNext ==
    ASSUME cancelTab' \in [Id -> Request \cup {None}],
           \A x \in Request : InFlight(x)' => cancelTab'[req'[x].id] = x,
           \A i \in Id, x \in Request : cancelTab'[i] = x => InFlight(x)' /\ req'[x].id = i
    PROVE  CancelReaches'
BY DEF CancelReaches, InFlight

\* The end of a request takes its entry along and no other.
LEMMA ProceedsCancel ==
    ASSUME TypeOK, Shape, CancelReaches, NEW r \in Request, Proceeds(r)
    PROVE  CancelReaches'
<1>1. \A x \in Request \ {r} : InFlight(x)' <=> InFlight(x)
  BY DEF InFlight, Proceeds
<1>2. InFlight(r)' <=> pc'[r] # "done" /\ InFlight(r)
  BY DEF InFlight, Proceeds
<1>3. \A x \in Request : InFlight(x) => req[x].id \in Id
  BY DEF Shape, RequestShape, InFlight
<1>4. CASE pc'[r] # "done" \/ ~InFlight(r)
  <2>1. cancelTab' = cancelTab
    <3>1. req[r].op = "chat" => InFlight(r)
      BY DEF InFlight, Proceeds
    <3>. QED BY <1>4, <3>1, EntryFacts DEF Proceeds
  <2>. QED BY <1>1, <1>2, <1>4, <2>1, TaskFacts DEF CancelReaches, TypeOK, Proceeds
<1>5. CASE pc'[r] = "done" /\ InFlight(r)
  <2>1. cancelTab' = [cancelTab EXCEPT ![req[r].id] = None]
    BY <1>5, EntryFacts DEF Proceeds
  <2>2. cancelTab \in [Id -> Request \cup {None}]
    BY DEF TypeOK
  <2>3. \A x \in Request : InFlight(x)' => cancelTab'[req[x].id] = x
    BY <1>1, <1>2, <1>3, <1>5, <2>1, <2>2 DEF CancelReaches
  <2>4. \A i \in Id, x \in Request : cancelTab'[i] = x => InFlight(x)' /\ req'[x].id = i
    <3>. SUFFICES ASSUME NEW i \in Id, NEW x \in Request, cancelTab'[i] = x
                  PROVE  InFlight(x)' /\ req'[x].id = i
      OBVIOUS
    <3>1. i # req[r].id /\ cancelTab[i] = x /\ UNCHANGED req
      BY <1>3, <1>5, <2>1, <2>2, TaskFacts DEF Proceeds
    <3>2. InFlight(x) /\ req[x].id = i
      BY <3>1, TaskFacts DEF CancelReaches
    <3>. QED BY <1>1, <3>1, <3>2
  <2>5. cancelTab' \in [Id -> Request \cup {None}]
    BY <2>1, <2>2
  <2>. QED BY <2>3, <2>4, <2>5, TableNext DEF Proceeds
<1>. QED BY <1>4, <1>5

\* Nothing changes for the table while the requests stay where they are.
LEMMA StayCancel ==
    ASSUME TypeOK, CancelReaches, UNCHANGED <<req, cancelTab>>,
           \A x \in Request : pc'[x] = pc[x]
    PROVE  CancelReaches'
BY TaskFacts DEF CancelReaches, InFlight, TypeOK

\* A request that arrives registers under a free id, or not at all.
LEMMA ArrivalCancel ==
    ASSUME TypeOK, CancelReaches, NEW r \in Request, Arrival(r)
    PROVE  CancelReaches'
<1>1. /\ pc[r] = "new" /\ ~InFlight(r)
      /\ \A x \in Request \ {r} : req'[x] = req[x] /\ pc'[x] = pc[x]
      /\ \/ UNCHANGED cancelTab /\ (req'[r].op # "chat" \/ pc'[r] = "done")
         \/ \E i \in Id : /\ cancelTab[i] = None /\ req'[r].id = i /\ req'[r].op = "chat"
                          /\ cancelTab' = [cancelTab EXCEPT ![i] = r]
                          /\ pc'[r] \in {"announce", "load"}
  BY TaskFacts DEF Arrival, ChatConflict, ChatUnknown, ChatAccepted, EmbedArrives,
     LoadArrives, UnloadArrives, CancelArrives, Arrives, Goto, TypeOK, stopVars, InFlight
<1>2. \A x \in Request \ {r} : InFlight(x)' <=> InFlight(x)
  BY <1>1 DEF InFlight
<1>3. \A i \in Id : cancelTab[i] # r
  BY <1>1, TaskFacts DEF CancelReaches
<1>4. CASE UNCHANGED cancelTab /\ (req'[r].op # "chat" \/ pc'[r] = "done")
  <2>1. ~InFlight(r)'
    BY <1>4 DEF InFlight
  <2>. QED BY <1>1, <1>2, <1>3, <1>4, <2>1 DEF CancelReaches, TypeOK
<1>5. ASSUME NEW i \in Id, cancelTab[i] = None, req'[r].id = i, req'[r].op = "chat",
             cancelTab' = [cancelTab EXCEPT ![i] = r], pc'[r] \in {"announce", "load"}
      PROVE  CancelReaches'
  <2>1. InFlight(r)' /\ cancelTab \in [Id -> Request \cup {None}]
    BY <1>5 DEF InFlight, TypeOK
  <2>2. \A x \in Request : InFlight(x)' => cancelTab'[req'[x].id] = x
    BY <1>1, <1>2, <1>5, <2>1, TaskFacts DEF CancelReaches
  <2>3. \A j \in Id, x \in Request : cancelTab'[j] = x => InFlight(x)' /\ req'[x].id = j
    BY <1>1, <1>2, <1>3, <1>5, <2>1, TaskFacts DEF CancelReaches
  <2>4. cancelTab' \in [Id -> Request \cup {None}]
    BY <1>5, <2>1
  <2>. QED BY <2>2, <2>3, <2>4, TableNext
<1>. QED BY <1>1, <1>4, <1>5


\* The steps of a request that is neither a chat that ends nor new.
Moves(r) == /\ UNCHANGED <<req, cancelTab>>
            /\ pc[r] \notin {"new", "done"} /\ pc'[r] \notin {"new", "announce"}
            /\ pc'[r] = "done" => req[r].op # "chat"
            /\ \A x \in Request \ {r} : pc'[x] = pc[x]

\* Moves and ends both are Proceeds.
LEMMA MovesProceed ==
    ASSUME TypeOK, NEW r \in Request, Moves(r)
    PROVE  Proceeds(r)
BY DEF Moves, Proceeds, Cleared

\* A handler on its way through load().
LEMMA LoadProceeds ==
    ASSUME TypeOK, Shape, NEW r \in Request,
           \/ LoadStart(r) \/ LoadWoken(r) \/ GateWoken(r) \/ LoadInserts(r)
    PROVE  Moves(r)
<1>1. AliasOf(r) \in Alias /\ pc[r] \in {"load", "lockWait", "gateWait", "backend"}
  BY WhereFacts DEF LoadPc, LoadStart, LoadWoken, GateWoken, LoadInserts
<1>2. ASSUME NEW lk, LoadMiss(r, lk) PROVE Moves(r)
  BY <1>1, <1>2, TaskFacts DEF LoadMiss, Moves, Goto, TypeOK, reqVars, stopVars
<1>3. ASSUME NEW lk, LoadHit(r, lk) PROVE Moves(r)
  <2>. DEFINE o == models[AliasOf(r)]
              to == AfterLoad(r, Abandon(lk, Stoppable(o)))
  <2>1. to \in RequestPc /\ to \notin {"new", "announce"}
        /\ (to = "done" => req[r].op = "load")
    BY DEF AfterLoad, RequestPc
  <2>2. /\ ScheduleIdle(o, "delay", r, to)
        /\ UNCHANGED <<req, cancelTab>>
    BY <1>3 DEF LoadHit, stopVars
  <2>3. o \in Request
    BY <1>1, <1>3 DEF LoadHit, TypeOK
  <2>. HIDE DEF to, o
  <2>4. pc'[r] = to /\ \A x \in Request \ {r} : pc'[x] = pc[x]
    BY <2>1, <2>2, <2>3, ScheduleIdleFacts
  <2>. QED BY <1>1, <2>1, <2>2, <2>4 DEF Moves
<1>4. CASE LoadInserts(r)
  <2>. DEFINE to == AfterLoad(r, Release(lock[AliasOf(r)]))
  <2>1. to \in RequestPc /\ to \notin {"new", "announce"}
        /\ (to = "done" => req[r].op = "load")
    BY DEF AfterLoad, RequestPc
  <2>2. ScheduleIdle(r, "delay", r, to) /\ UNCHANGED <<req, cancelTab>>
    BY <1>4 DEF LoadInserts, stopVars
  <2>. HIDE DEF to
  <2>3. pc'[r] = to /\ \A x \in Request \ {r} : pc'[x] = pc[x]
    BY <2>1, <2>2, ScheduleIdleFacts
  <2>. QED BY <1>1, <2>1, <2>2, <2>3 DEF Moves
<1>5. CASE GateWoken(r)
  BY <1>1, <1>5, TaskFacts DEF GateWoken, Moves, Goto, TypeOK, reqVars, stopVars
<1>6. CASE LoadStart(r)
  BY <1>1, <1>2, <1>3, <1>6, TaskFacts DEF LoadStart, Moves, Goto, TypeOK, reqVars, stopVars
<1>7. CASE LoadWoken(r)
  BY <1>2, <1>3, <1>7 DEF LoadWoken
<1>. QED BY <1>4, <1>5, <1>6, <1>7

\* A load() that fails ends its request.
LEMMA LoadFailsProceeds ==
    ASSUME TypeOK, NEW r \in Request, CapFull(r) \/ BackendLoadFails(r)
    PROVE  Proceeds(r)
BY TaskFacts DEF CapFull, BackendLoadFails, LoadAborts, Proceeds, Goto, TypeOK

\* What unload() does to requests: nothing to any but its caller.
LEMMA UnloadEntersMoves ==
    ASSUME TypeOK, Shape, NEW t \in Task, NEW v \in Alias, UnloadEnters(t, v)
    PROVE  /\ UNCHANGED <<req, cancelTab>>
           /\ \A x \in Request \ {t} : pc'[x] = pc[x]
           /\ t \in Request =>
                 /\ pc'[t] \in {"evict", "unloadWait", "unloading", "done"}
                 /\ pc'[t] = "done" => req[t].op = "unload"
<1>1. CASE UnloadReturns(t)
  <2>1. pc' = [pc EXCEPT ![t] = ReturnPc(t)]
    BY <1>1 DEF UnloadReturns, Goto
  <2>. QED BY <2>1, TaskFacts DEF UnloadEnters, stopVars, ReturnPc, TypeOK
<1>2. CASE UnloadBegins(t, v, Acquire(lock[v], t))
  <2>1. pc'[t] = "unloading" /\ \A x \in Request \ {t} : pc'[x] = pc[x]
    BY <1>2, UnloadBeginsFacts, LockTypes, TaskFacts
  <2>. QED BY <2>1 DEF UnloadEnters, stopVars
<1>3. CASE Goto(t, "unloadWait")
  BY <1>3, TaskFacts DEF UnloadEnters, stopVars, Goto, TypeOK
<1>. QED BY <1>1, <1>2, <1>3 DEF UnloadEnters

\* The second half of unload().
LEMMA UnloadLeavesMoves ==
    ASSUME TypeOK, Shape, NEW t \in Task, UnloadWoken(t) \/ UnloadDone(t)
    PROVE  /\ UNCHANGED <<req, cancelTab>> /\ pc[t] \in UnloadPc
           /\ \A x \in Request \ {t} : pc'[x] = pc[x]
           /\ t \in Request =>
                 /\ pc'[t] \in {"evict", "unloading", "done"}
                 /\ pc'[t] = "done" => req[t].op = "unload"
<1>1. UNCHANGED <<req, cancelTab>> /\ pc[t] \in UnloadPc
  BY DEF UnloadWoken, UnloadDone, stopVars, UnloadPc
<1>2. CASE UnloadReturns(t)
  <2>1. pc' = [pc EXCEPT ![t] = ReturnPc(t)]
    BY <1>2 DEF UnloadReturns, Goto
  <2>. QED BY <1>1, <2>1, TaskFacts DEF ReturnPc, TypeOK
<1>3. CASE UnloadWoken(t) /\ ~UnloadReturns(t)
  <2>1. VictimOf(t) \in Alias /\ VictimOf(t) \in Lock
    BY <1>1, VictimFacts, TaskFacts
  <2>2. UnloadBegins(t, VictimOf(t), Take(lock[VictimOf(t)], t)) /\ Woken(lock[VictimOf(t)], t)
    BY <1>3 DEF UnloadWoken
  <2>3. pc'[t] = "unloading" /\ \A x \in Request \ {t} : pc'[x] = pc[x]
    BY <2>1, <2>2, UnloadBeginsFacts, LockTypes, TaskFacts
  <2>. QED BY <1>1, <2>3
<1>. QED BY <1>2, <1>3 DEF UnloadDone

\* A handler that unloads, for its client or to make room.
LEMMA UnloadProceeds ==
    ASSUME TypeOK, Shape, NEW r \in Request,
           CapCheck(r) \/ EvictNext(r) \/ UnloadStart(r) \/ UnloadWoken(r)
           \/ UnloadDone(r)
    PROVE  Moves(r)
<1>1. ASSUME NEW vs \in SUBSET Alias, Evicts(r, vs), pc[r] \in {"check", "evict"}
      PROVE  Moves(r)
  <2>1. CASE vs = {}
    BY <1>1, <2>1, TaskFacts DEF Evicts, Moves, Goto, TypeOK, reqVars, stopVars
  <2>2. CASE \E v \in vs : UnloadEnters(r, v)
    BY <1>1, <2>2, UnloadEntersMoves, TaskFacts DEF Moves
  <2>. QED BY <1>1, <2>1, <2>2 DEF Evicts
<1>2. CASE CapCheck(r)
  <2>1. Victims(r) \in SUBSET Alias
    BY DEF Victims, Evictable, Resident
  <2>. QED BY <1>1, <1>2, <2>1 DEF CapCheck
<1>3. CASE EvictNext(r)
  BY <1>1, <1>3 DEF EvictNext, TypeOK
<1>4. CASE UnloadStart(r)
  <2>1. req[r].alias \in Alias /\ pc[r] = "unload" /\ UnloadEnters(r, req[r].alias)
    BY <1>4, WhereFacts DEF UnloadStart, Evicting, UnloadPc
  <2>. QED BY <2>1, UnloadEntersMoves, TaskFacts DEF Moves
<1>5. CASE UnloadWoken(r) \/ UnloadDone(r)
  BY <1>5, UnloadLeavesMoves, TaskFacts DEF Moves, UnloadPc
<1>. QED BY <1>2, <1>3, <1>4, <1>5

\* An unload() that fails ends its request.
LEMMA UnloadFailsProceeds ==
    ASSUME TypeOK, NEW r \in Request, UnloadFails(r)
    PROVE  Proceeds(r)
BY TaskFacts DEF UnloadFails, LoadAborts, Proceeds, Cleared, Goto, TypeOK, stopVars

\* A handler that announces a load, uses the model or ends.
LEMMA UseProceeds ==
    ASSUME TypeOK, Shape, ChatResolved, NEW r \in Request,
           \/ Announced(r) \/ AnnounceFails(r) \/ UseWoken(r) \/ UseStarts(r)
           \/ ChatErrs(r) \/ ChatStreamed(r) \/ ChatDropped(r) \/ ChatReplied(r)
           \/ EmbedEnds(r)
    PROVE  Proceeds(r)
<1>1. CASE Announced(r)
  <2>1. Moves(r)
    BY <1>1, TaskFacts DEF Announced, Moves, Goto, TypeOK, stopVars, ChatResolved, AliasOf
  <2>. QED BY <2>1, MovesProceed
<1>2. CASE AnnounceFails(r)
  BY <1>2, TaskFacts DEF AnnounceFails, Proceeds, Goto, TypeOK
<1>3. CASE UseWoken(r) \/ UseStarts(r) \/ ChatStreamed(r) \/ EmbedEnds(r)
  <2>1. Moves(r)
    BY <1>3, TaskFacts DEF UseWoken, UseStarts, ChatStreamed, EmbedEnds, Releases, Moves,
       Goto, TypeOK, stopVars, reqVars
  <2>. QED BY <2>1, MovesProceed
<1>4. CASE ChatDropped(r)
  BY <1>4, TaskFacts DEF ChatDropped, Releases, Proceeds, Goto, TypeOK
<1>5. CASE ChatErrs(r) \/ ChatReplied(r)
  <2>1. pc[r] \in UsePc /\ UNCHANGED req
    BY <1>5 DEF ChatErrs, ChatReplied, UsePc, reqVars
  <2>2. loaded[r] \in Request
    BY <2>1 DEF Shape, RequestShape, Object, UsePc
  <2>3. ScheduleIdle(loaded[r], req[r].keep, r, "done") /\ cancelTab' = Cleared(r)
    BY <1>5 DEF ChatErrs, ChatReplied, ChatEnds
  <2>4. pc'[r] = "done" /\ \A x \in Request \ {r} : pc'[x] = pc[x]
    BY <2>2, <2>3, ScheduleIdleFacts DEF RequestPc
  <2>. QED BY <2>1, <2>3, <2>4 DEF Proceeds, UsePc
<1>. QED BY <1>1, <1>2, <1>3, <1>4, <1>5

\* Idle tasks leave the handlers and the table alone.
LEMMA TickStays ==
    ASSUME TypeOK, Shape, NEW u \in Timer, Tick(u)
    PROVE  UNCHANGED <<req, cancelTab>> /\ \A x \in Request : pc'[x] = pc[x]
<1>1. CASE TimerDefers(u) \/ TimerSkips(u)
  BY <1>1, TaskFacts DEF TimerDefers, TimerSkips, Goto, TypeOK, reqVars, stopVars
<1>2. CASE TimerUnloads(u)
  <2>1. UnloadEnters(u, VictimOf(u)) /\ pc[u] # "free"
    BY <1>2 DEF TimerUnloads, VictimOf
  <2>2. VictimOf(u) \in Alias
    BY <2>1, VictimFacts, TaskFacts
  <2>. QED BY <2>1, <2>2, UnloadEntersMoves, TaskFacts
<1>3. CASE UnloadWoken(u) \/ UnloadDone(u)
  BY <1>3, UnloadLeavesMoves, TaskFacts
<1>. QED BY <1>1, <1>2, <1>3 DEF Tick

\* A chat is announced only if it was resolved.
LEMMA ResolvedKept ==
    ASSUME TypeOK, ChatResolved, NEW r \in Request, Arrival(r) \/ Proceeds(r)
    PROVE  ChatResolved'
<1>1. CASE Proceeds(r)
  BY <1>1 DEF ChatResolved, Proceeds, AliasOf
<1>2. CASE Arrival(r)
  <2>1. /\ \A x \in Request \ {r} : req'[x] = req[x] /\ pc'[x] = pc[x]
        /\ pc'[r] = "announce" /\ req'[r].op = "chat" =>
              req'[r].role \in RolesOf[req'[r].alias]
    BY <1>2, TaskFacts DEF Arrival, ChatConflict, ChatUnknown, ChatAccepted, EmbedArrives,
       LoadArrives, UnloadArrives, CancelArrives, Arrives, Goto, TypeOK
  <2>. QED BY <2>1 DEF ChatResolved, AliasOf
<1>. QED BY <1>1, <1>2

\* Every step keeps the cancel table right.
LEMMA NextCancel ==
    TypeOK /\ Shape /\ CancelReaches /\ ChatResolved /\ [Next]_vars
    => CancelReaches' /\ ChatResolved'
<1>. SUFFICES ASSUME TypeOK, Shape, CancelReaches, ChatResolved, [Next]_vars
              PROVE  CancelReaches' /\ ChatResolved'
  OBVIOUS
<1>1. CASE UNCHANGED <<req, cancelTab>> /\ \A x \in Request : pc'[x] = pc[x]
  BY <1>1, StayCancel DEF ChatResolved, AliasOf
<1>2. ASSUME NEW r \in Request, Proceeds(r) PROVE CancelReaches' /\ ChatResolved'
  BY <1>2, ProceedsCancel, ResolvedKept
<1>3. ASSUME NEW r \in Request, Arrival(r) PROVE CancelReaches' /\ ChatResolved'
  BY <1>3, ArrivalCancel, ResolvedKept
<1>4. ASSUME NEW r \in Request, Serve(r), ~WorkerExits(r)
      PROVE  CancelReaches' /\ ChatResolved'
  <2>1. Proceeds(r)
    BY <1>4, MovesProceed, LoadProceeds, LoadFailsProceeds, UnloadProceeds, UseProceeds
       DEF Serve
  <2>. QED BY <1>2, <2>1
<1>5. ASSUME NEW r \in Request, Mishap(r) PROVE CancelReaches' /\ ChatResolved'
  <2>1. Proceeds(r)
    BY <1>5, LoadFailsProceeds, UnloadFailsProceeds, UseProceeds DEF Mishap
  <2>. QED BY <1>2, <2>1
<1>6. ASSUME NEW r \in Request, WorkerExits(r) PROVE CancelReaches' /\ ChatResolved'
  BY <1>1, <1>6 DEF WorkerExits, reqVars, stopVars
<1>7. ASSUME NEW u \in Timer, Tick(u) PROVE CancelReaches' /\ ChatResolved'
  BY <1>1, <1>7, TickStays
<1>8. CASE UNCHANGED vars
  BY <1>1, <1>8 DEF vars
<1>. QED BY <1>3, <1>4, <1>5, <1>6, <1>7, <1>8 DEF Next, Terminated

\* Whatever happens, a cancel under an id sets the event of the chat in flight
\* under it, a second chat cannot take the entry over, and no chat that ended,
\* failed or lost its client leaves its entry behind to block the id.
THEOREM CancelsReach == Spec => []CancelReaches
<1>1. Init => CancelReaches /\ ChatResolved
  BY TaskFacts DEF Init, CancelReaches, ChatResolved, InFlight, NoReq
<1>. QED BY <1>1, NextCancel, ShapeInvariant, PTL DEF Spec

-----------------------------------------------------------------------------
(* The idle countdowns *)

\* The countdown of an object is the one that can be stopped.
LEMMA CountdownFacts ==
    ASSUME TypeOK, Shape, IdleOwn, NEW u \in Timer, CountsDown(u)
    PROVE  /\ timerOf[u] \in Request
           /\ Stoppable(timerOf[u]) = u
BY TaskFacts DEF IdleOwn, Shape, TimerShape, Object, CountsDown, Stoppable

\* A step that starts no countdown, and after which the ones that go on belong
\* to the objects they belonged to, and are known to them.
LEMMA OwnFrame ==
    ASSUME \A u \in Timer : CountsDown(u)' => idleTask'[timerOf'[u]] = u
    PROVE  IdleOwn'
BY DEF IdleOwn

\* A step of a handler that schedules nothing.
LEMMA OwnKept ==
    ASSUME IdleOwn, UNCHANGED <<idleTask, timerOf>>, \A u \in Timer : pc'[u] = pc[u]
    PROVE  IdleOwn'
BY DEF IdleOwn, CountsDown

\* schedule_idle_unload replaces the countdown of its object.
LEMMA ScheduleIdleOwn ==
    ASSUME TypeOK, Shape, IdleOwn, NEW o \in Request, NEW keep, NEW t \in Request,
           NEW to, ScheduleIdle(o, keep, t, to)
    PROVE  IdleOwn'
<1>. DEFINE old == Stoppable(o)
            new == NewTimer(o, keep)
<1>1. /\ pc' = [x \in Task |->
                   IF x = t THEN to
                   ELSE IF x = new THEN IF keep = "now" THEN "due" ELSE "asleep"
                   ELSE IF x = old THEN "free" ELSE pc[x]]
      /\ timerOf' = [u \in Timer |-> IF u = new THEN o
                                     ELSE IF u = old THEN None ELSE timerOf[u]]
      /\ idleTask' = [idleTask EXCEPT ![o] = new]
  BY DEF ScheduleIdle
<1>2. old = Stoppable(o)
  OBVIOUS
<1>. HIDE DEF old, new
<1>3. ASSUME NEW u \in Timer, CountsDown(u)' PROVE idleTask'[timerOf'[u]] = u
  <2>1. u \in Task /\ u # t
    BY TaskFacts
  <2>2. CASE u = new
    BY <1>1, <2>1, <2>2 DEF TypeOK
  <2>3. CASE u # new
    <3>1. u # old /\ pc'[u] = pc[u] /\ timerOf'[u] = timerOf[u]
      BY <1>1, <1>3, <2>1, <2>3 DEF CountsDown
    <3>2. CountsDown(u)
      BY <1>3, <3>1 DEF CountsDown
    <3>3. timerOf[u] # o /\ timerOf[u] \in Request /\ idleTask[timerOf[u]] = u
      BY <1>2, <3>1, <3>2, CountdownFacts DEF IdleOwn
    <3>. QED BY <1>1, <3>1, <3>3 DEF TypeOK
  <2>. QED BY <2>2, <2>3
<1>. QED BY <1>3, OwnFrame

\* A task that returns from unload() is no countdown any more.
LEMMA UnloadReturnsOwn ==
    ASSUME TypeOK, Shape, IdleOwn, NEW t \in Task, UnloadReturns(t)
    PROVE  IdleOwn'
<1>1. ASSUME NEW u \in Timer, CountsDown(u)' PROVE idleTask'[timerOf'[u]] = u
  <2>1. u # t /\ pc'[u] = pc[u] /\ timerOf'[u] = timerOf[u]
    BY <1>1, TaskFacts DEF UnloadReturns, Goto, ReturnPc, CountsDown, TypeOK
  <2>2. CountsDown(u)
    BY <1>1, <2>1 DEF CountsDown
  <2>3. timerOf[u] \in Request /\ idleTask[timerOf[u]] = u
    BY <2>2, CountdownFacts DEF IdleOwn
  <2>. QED BY <2>1, <2>3 DEF UnloadReturns
<1>. QED BY <1>1, OwnFrame

\* The start of backend.unload stops the countdown of the object it unloads.
LEMMA UnloadBeginsOwn ==
    ASSUME TypeOK, Shape, IdleOwn, NEW t \in Task, NEW v \in Alias, NEW lk,
           UnloadBegins(t, v, lk)
    PROVE  IdleOwn'
<1>. DEFINE o == models[v]
            old == IF Stoppable(o) = t THEN None ELSE Stoppable(o)
<1>1. /\ pc' = [x \in Task |-> IF x = t THEN "unloading"
                               ELSE IF x = old THEN "free" ELSE pc[x]]
      /\ timerOf' = [u \in Timer |-> IF u = old THEN None ELSE timerOf[u]]
      /\ idleTask' = [idleTask EXCEPT ![o] = None]
  BY DEF UnloadBegins
<1>2. old = IF Stoppable(o) = t THEN None ELSE Stoppable(o)
  OBVIOUS
<1>. HIDE DEF old, o
<1>3. ASSUME NEW u \in Timer, CountsDown(u)' PROVE idleTask'[timerOf'[u]] = u
  <2>1. u # t /\ u # old /\ pc'[u] = pc[u] /\ timerOf'[u] = timerOf[u]
    BY <1>1, <1>3, TaskFacts DEF CountsDown
  <2>2. CountsDown(u)
    BY <1>3, <2>1 DEF CountsDown
  <2>3. timerOf[u] # o /\ timerOf[u] \in Request /\ idleTask[timerOf[u]] = u
    BY <1>2, <2>1, <2>2, CountdownFacts DEF IdleOwn
  <2>. QED BY <1>1, <2>1, <2>3 DEF TypeOK
<1>. QED BY <1>3, OwnFrame

\* unload() up to its first suspension.
LEMMA UnloadEntersOwn ==
    ASSUME TypeOK, Shape, IdleOwn, NEW t \in Task, NEW v \in Alias, UnloadEnters(t, v),
           t \in Timer => CountsDown(t)
    PROVE  IdleOwn'
<1>1. CASE Goto(t, "unloadWait") /\ UNCHANGED idleVars
  <2>1. UNCHANGED <<idleTask, timerOf>> /\ \A u \in Timer : CountsDown(u)' => CountsDown(u)
    BY <1>1, TaskFacts DEF Goto, CountsDown, TypeOK, idleVars
  <2>. QED BY <2>1 DEF IdleOwn
<1>. QED BY <1>1, UnloadReturnsOwn, UnloadBeginsOwn DEF UnloadEnters

\* The second half of unload().
LEMMA UnloadLeavesOwn ==
    ASSUME TypeOK, Shape, IdleOwn, NEW t \in Task, UnloadWoken(t) \/ UnloadDone(t)
    PROVE  IdleOwn'
<1>1. VictimOf(t) \in Alias
  BY VictimFacts DEF UnloadWoken, UnloadDone, UnloadPc
<1>. QED BY <1>1, UnloadReturnsOwn, UnloadBeginsOwn DEF UnloadWoken, UnloadDone

\* A handler that loads.
LEMMA LoadOwn ==
    ASSUME TypeOK, Shape, IdleOwn, NEW r \in Request,
           LoadStart(r) \/ LoadWoken(r) \/ LoadInserts(r)
    PROVE  IdleOwn'
<1>1. AliasOf(r) \in Alias
  BY WhereFacts DEF LoadPc, LoadStart, LoadWoken, LoadInserts
<1>2. ASSUME NEW lk, LoadMiss(r, lk) PROVE IdleOwn'
  <2>1. UNCHANGED <<idleTask, timerOf>> /\ \A u \in Timer : pc'[u] = pc[u]
    BY <1>2, TaskFacts DEF LoadMiss, Goto, idleVars, TypeOK
  <2>. QED BY <2>1, OwnKept
<1>3. ASSUME NEW lk, LoadHit(r, lk) PROVE IdleOwn'
  <2>1. PICK to : ScheduleIdle(models[AliasOf(r)], "delay", r, to)
    BY <1>3 DEF LoadHit
  <2>2. models[AliasOf(r)] \in Request
    BY <1>1, <1>3 DEF LoadHit, TypeOK
  <2>. QED BY <2>1, <2>2, ScheduleIdleOwn
<1>4. CASE LoadInserts(r)
  <2>1. PICK to : ScheduleIdle(r, "delay", r, to)
    BY <1>4 DEF LoadInserts
  <2>. QED BY <2>1, ScheduleIdleOwn
<1>5. CASE Goto(r, "lockWait") /\ UNCHANGED idleVars
  <2>1. UNCHANGED <<idleTask, timerOf>> /\ \A u \in Timer : pc'[u] = pc[u]
    BY <1>5, TaskFacts DEF Goto, idleVars, TypeOK
  <2>. QED BY <2>1, OwnKept
<1>. QED BY <1>2, <1>3, <1>4, <1>5 DEF LoadStart, LoadWoken

\* A handler that unloads, for its client or to make room.
LEMMA UnloadOwn ==
    ASSUME TypeOK, Shape, IdleOwn, NEW r \in Request,
           CapCheck(r) \/ EvictNext(r) \/ UnloadStart(r)
    PROVE  IdleOwn'
<1>1. ASSUME NEW vs \in SUBSET Alias, Evicts(r, vs) PROVE IdleOwn'
  <2>1. CASE vs = {}
    <3>1. UNCHANGED <<idleTask, timerOf>> /\ \A u \in Timer : pc'[u] = pc[u]
      BY <1>1, <2>1, TaskFacts DEF Evicts, Goto, idleVars, TypeOK
    <3>. QED BY <3>1, OwnKept
  <2>2. CASE \E v \in vs : UnloadEnters(r, v)
    BY <1>1, <2>2, UnloadEntersOwn, TaskFacts
  <2>. QED BY <1>1, <2>1, <2>2 DEF Evicts
<1>2. CASE CapCheck(r)
  <2>1. Victims(r) \in SUBSET Alias
    BY DEF Victims, Evictable, Resident
  <2>. QED BY <1>1, <1>2, <2>1 DEF CapCheck
<1>3. CASE EvictNext(r)
  BY <1>1, <1>3 DEF EvictNext, TypeOK
<1>4. CASE UnloadStart(r)
  <2>1. req[r].alias \in Alias /\ UnloadEnters(r, req[r].alias)
    BY <1>4, WhereFacts DEF UnloadStart, Evicting, UnloadPc
  <2>. QED BY <2>1, UnloadEntersOwn, TaskFacts
<1>. QED BY <1>2, <1>3, <1>4

\* The end of a chat.
LEMMA ChatEndsOwn ==
    ASSUME TypeOK, Shape, IdleOwn, NEW r \in Request, ChatErrs(r) \/ ChatReplied(r)
    PROVE  IdleOwn'
<1>1. pc[r] \in UsePc
  BY DEF ChatErrs, ChatReplied, UsePc
<1>2. loaded[r] \in Request
  BY <1>1 DEF Shape, RequestShape, Object, UsePc
<1>3. ScheduleIdle(loaded[r], req[r].keep, r, "done")
  BY DEF ChatErrs, ChatReplied, ChatEnds
<1>. QED BY <1>2, <1>3, ScheduleIdleOwn

\* The steps of a handler that schedule nothing.
LEMMA OtherOwn ==
    ASSUME TypeOK, IdleOwn, NEW r \in Request,
           \/ Arrival(r) \/ Announced(r) \/ GateWoken(r) \/ CapFull(r) \/ UseWoken(r)
           \/ UseStarts(r) \/ ChatStreamed(r) \/ EmbedEnds(r) \/ WorkerExits(r) \/ Mishap(r)
    PROVE  IdleOwn'
<1>1. CASE Arrival(r)
  <2>1. UNCHANGED <<idleTask, timerOf>> /\ \A u \in Timer : pc'[u] = pc[u]
    BY <1>1, TaskFacts DEF Arrival, ChatConflict, ChatUnknown, ChatAccepted, EmbedArrives,
       LoadArrives, UnloadArrives, CancelArrives, Arrives, Goto, TypeOK, idleVars
  <2>. QED BY <2>1, OwnKept
<1>2. CASE Announced(r) \/ GateWoken(r) \/ CapFull(r) \/ UseWoken(r) \/ WorkerExits(r)
  <2>1. UNCHANGED <<idleTask, timerOf>> /\ \A u \in Timer : pc'[u] = pc[u]
    BY <1>2, TaskFacts DEF Announced, GateWoken, CapFull, LoadAborts, UseWoken,
       WorkerExits, Goto, TypeOK, idleVars
  <2>. QED BY <2>1, OwnKept
<1>3. CASE UseStarts(r) \/ ChatStreamed(r) \/ EmbedEnds(r)
  <2>1. UNCHANGED <<idleTask, timerOf>> /\ \A u \in Timer : pc'[u] = pc[u]
    BY <1>3, TaskFacts DEF UseStarts, ChatStreamed, EmbedEnds, Releases, Goto, TypeOK
  <2>. QED BY <2>1, OwnKept
<1>4. CASE Mishap(r)
  <2>1. UNCHANGED <<idleTask, timerOf>> /\ \A u \in Timer : pc'[u] = pc[u]
    BY <1>4, TaskFacts DEF Mishap, AnnounceFails, ChatDropped, BackendLoadFails,
       UnloadFails, LoadAborts, Releases, Goto, TypeOK, idleVars
  <2>. QED BY <2>1, OwnKept
<1>. QED BY <1>1, <1>2, <1>3, <1>4

\* A step of an idle task.
LEMMA TickOwn ==
    ASSUME TypeOK, Shape, IdleOwn, NEW u \in Timer, Tick(u)
    PROVE  IdleOwn'
<1>1. CASE TimerDefers(u)
  BY <1>1, OwnKept DEF TimerDefers
<1>2. CASE TimerSkips(u)
  <2>1. ASSUME NEW w \in Timer, CountsDown(w)' PROVE idleTask'[timerOf'[w]] = w
    <3>1. w # u /\ pc'[w] = pc[w] /\ timerOf'[w] = timerOf[w]
      BY <1>2, <2>1, TaskFacts DEF TimerSkips, Goto, TypeOK, CountsDown
    <3>2. CountsDown(w) /\ CountsDown(u)
      BY <1>2, <2>1, <3>1 DEF CountsDown, TimerSkips
    <3>3. timerOf[w] # timerOf[u] /\ timerOf[w] \in Request /\ idleTask[timerOf[w]] = w
      BY <3>1, <3>2, CountdownFacts DEF IdleOwn
    <3>. QED BY <1>2, <3>1, <3>3 DEF TimerSkips, TypeOK
  <2>. QED BY <2>1, OwnFrame
<1>3. CASE TimerUnloads(u)
  <2>1. UnloadEnters(u, VictimOf(u)) /\ CountsDown(u)
    BY <1>3 DEF TimerUnloads, VictimOf, CountsDown
  <2>2. VictimOf(u) \in Alias
    BY <2>1, VictimFacts, TaskFacts DEF CountsDown
  <2>. QED BY <2>1, <2>2, UnloadEntersOwn, TaskFacts
<1>4. CASE UnloadWoken(u) \/ UnloadDone(u)
  BY <1>4, UnloadLeavesOwn, TaskFacts
<1>. QED BY <1>1, <1>2, <1>3, <1>4 DEF Tick

\* Every step keeps the countdowns known to their objects.
LEMMA NextOwn == TypeOK /\ Shape /\ IdleOwn /\ [Next]_vars => IdleOwn'
<1>. SUFFICES ASSUME TypeOK, Shape, IdleOwn, [Next]_vars PROVE IdleOwn'
  OBVIOUS
<1>1. CASE UNCHANGED vars
  BY <1>1, OwnKept DEF vars
<1>2. ASSUME NEW r \in Request, Serve(r) PROVE IdleOwn'
  BY <1>2, LoadOwn, UnloadOwn, UnloadLeavesOwn, ChatEndsOwn, OtherOwn, TaskFacts DEF Serve
<1>. QED BY <1>1, <1>2, OtherOwn, TickOwn DEF Next, Terminated

\* However uses, evictions, unloads and countdowns interleave, an object has
\* at most one countdown that can still unload it: schedule_idle_unload always
\* finds the one it has to cancel.
THEOREM CountdownIsOne == Spec => []OneCountdown
<1>1. Init => IdleOwn
  BY TaskFacts DEF Init, IdleOwn, CountsDown, Task
<1>2. IdleOwn => OneCountdown
  BY DEF IdleOwn, OneCountdown, CountsDown
<1>. QED BY <1>1, <1>2, NextOwn, ShapeInvariant, PTL DEF Spec

-----------------------------------------------------------------------------
(* The order of last use *)

\* Among the models of a set, one was used before all the others.
LEMMA LeastRecentlyUsed ==
    ASSUME TypeOK, LruOrder, NEW E \in SUBSET Alias, E # {},
           \A a \in E : models[a] # None
    PROVE  \E v \in E : E \ since[v] = {v}
<1>. DEFINE size == [a \in E |-> Cardinality(E \ since[a])]
            T == {size[a] : a \in E}
<1>1. \A a \in E : IsFiniteSet(E \ since[a]) /\ size[a] \in Nat
  BY Assumptions, FS_Subset, FS_CardinalityType
<1>2. T \subseteq Nat /\ T # {}
  BY <1>1
<1>3. PICK x \in T : \A y \in T : ~ (<<y, x>> \in OpToRel(<, Nat))
  BY <1>2, NatLessThanWellFounded, WFMin
<1>4. \A y \in T : ~ (y < x)
  BY <1>2, <1>3 DEF OpToRel
<1>5. PICK v \in E : size[v] = x
  OBVIOUS
<1>6. v \in E \ since[v]
  BY DEF LruOrder
<1>7. ASSUME NEW b \in E \ since[v], b # v PROVE FALSE
  <2>1. v \in since[b]
    BY <1>7 DEF LruOrder
  <2>2. E \ since[b] \subseteq E \ since[v]
    BY <2>1 DEF LruOrder
  <2>3. v \notin E \ since[b]
    BY <2>1
  <2>4. size[b] <= size[v] /\ size[b] # size[v]
    BY <1>1, <1>6, <2>2, <2>3, FS_Subset
  <2>5. size[b] < size[v]
    BY <1>1, <2>4
  <2>. QED BY <1>4, <1>5, <2>5
<1>. QED BY <1>6, <1>7

\* The order, with every quantifier over the aliases.
LEMMA LruFacts ==
    ASSUME TypeOK
    PROVE  LruOrder <=>
              /\ \A x, y \in Alias : y \in since[x] =>
                    models[x] # None /\ models[y] # None /\ x # y
              /\ \A x, y \in Alias : x # y /\ models[x] # None /\ models[y] # None
                    => x \in since[y] \/ y \in since[x]
              /\ \A x, y, z \in Alias :
                    y \in since[x] /\ z \in since[y] => z \in since[x]
<1>1. \A x \in Alias : since[x] \in SUBSET Alias
  BY DEF TypeOK
<1>. QED BY <1>1 DEF LruOrder

\* The same of the next state.
LEMMA LruFactsNext ==
    ASSUME TypeOK',
           \A x, y \in Alias : y \in since'[x] =>
              models'[x] # None /\ models'[y] # None /\ x # y,
           \A x, y \in Alias : x # y /\ models'[x] # None /\ models'[y] # None
              => x \in since'[y] \/ y \in since'[x],
           \A x, y, z \in Alias :
              y \in since'[x] /\ z \in since'[y] => z \in since'[x]
    PROVE  LruOrder'
<1>1. \A x \in Alias : since'[x] \in SUBSET Alias
  BY DEF TypeOK
<1>. QED BY <1>1 DEF LruOrder

\* A use moves a resident model, or one that is just inserted, to the end.
LEMMA LruTouch ==
    ASSUME TypeOK, TypeOK', LruOrder, NEW a \in Alias, since' = Touched(a),
           models'[a] # None, \A b \in Alias \ {a} : models'[b] = models[b]
    PROVE  LruOrder'
<1>1. \A b \in Alias : since'[b] = IF b = a \/ models[b] = None THEN {}
                                                                ELSE since[b] \cup {a}
  BY DEF Touched
<1>2. \A x, y \in Alias : y \in since'[x] <=>
         x # a /\ models[x] # None /\ (y = a \/ y \in since[x])
  BY <1>1
<1>. QED BY <1>2, LruFacts, LruFactsNext

\* A model that is popped leaves the order.
LEMMA LruForget ==
    ASSUME TypeOK, TypeOK', LruOrder, NEW v \in Alias, since' = Forgotten(v),
           models'[v] = None, \A b \in Alias \ {v} : models'[b] = models[b]
    PROVE  LruOrder'
<1>1. \A b \in Alias : since'[b] = IF b = v THEN {} ELSE since[b] \ {v}
  BY DEF Forgotten
<1>2. \A x, y \in Alias : y \in since'[x] <=> x # v /\ y # v /\ y \in since[x]
  BY <1>1
<1>. QED BY <1>2, LruFacts, LruFactsNext

\* touch() of an object that may be resident or not.
LEMMA LruTouchObj ==
    ASSUME TypeOK, TypeOK', LruOrder, NEW o \in Request, AliasOf(o) \in Alias,
           since' = TouchedObj(o), UNCHANGED models
    PROVE  LruOrder'
<1>1. CASE models[AliasOf(o)] = o
  BY <1>1, LruTouch, TaskFacts DEF TouchedObj
<1>2. CASE models[AliasOf(o)] # o
  BY <1>2 DEF TouchedObj, LruOrder
<1>. QED BY <1>1, <1>2

-----------------------------------------------------------------------------
(* The invariant under a step of one task *)

\* Sets of aliases are finite, and a subset is no larger.
LEMMA Counting ==
    ASSUME NEW S \in SUBSET Alias, NEW T \in SUBSET S
    PROVE  /\ Cardinality(S) \in Nat /\ Cardinality(T) \in Nat
           /\ Cardinality(T) <= Cardinality(S)
           /\ \A a \in S : Cardinality(S \ {a}) = Cardinality(S) - 1
           /\ \A a : a \notin S => Cardinality(S \cup {a}) = Cardinality(S) + 1
<1>1. IsFiniteSet(S) /\ IsFiniteSet(T)
  <2>1. IsFiniteSet(Alias)
    BY Assumptions
  <2>. QED BY <2>1, FS_Subset
<1>2. Cardinality(S) \in Nat /\ Cardinality(T) \in Nat
  BY <1>1, FS_CardinalityType
<1>3. Cardinality(T) <= Cardinality(S)
  BY <1>1, FS_Subset
<1>4. \A a \in S : Cardinality(S \ {a}) = Cardinality(S) - 1
  BY <1>1, FS_RemoveElement
<1>5. \A a : a \notin S => Cardinality(S \cup {a}) = Cardinality(S) + 1
  BY <1>1, FS_AddElement
<1>. QED BY <1>2, <1>3, <1>4, <1>5

\* r may go on to load: its alias is not resident.
Misses(r) == pc[r] # "new" /\ AliasOf(r) \in Alias /\ models[AliasOf(r)] = None

\* Whoever makes room goes on evicting what it has not evicted yet.
GoesOn(r) == /\ Making(r)
             /\ \A a \in Leaving(r) : a \in Leaving(r)' \/ models'[a] = None

\* A step after which no alias holds a model it did not hold before.
LEMMA CapFrame ==
    ASSUME TypeOK, Shape, CapInv, LruOrder',
           \A r \in Request : pc[r] # "new" => req'[r] = req[r],
           \A a \in Alias : models'[a] \in {models[a], None},
           \A r \in Request : Loading(r)' =>
              Loading(r) \/ Misses(r),
           \A r \in Request : Making(r)' => GoesOn(r) \/ Room(r)'
    PROVE  CapInv'
<1>1. \A r \in Request : Loading(r) => pc[r] # "new"
  BY DEF Loading, Making, Evicting, UnloadPc
<1>2. ASSUME NEW role, NEW a PROVE Resident(role, a)' \subseteq Resident(role, a)
  <2>1. \A b \in Alias : models'[b] # None => models'[b] = models[b] /\ Object(models[b])
    BY DEF Shape, ModelShape
  <2>. QED BY <2>1 DEF Object, RoleOf, Resident
<1>3. \A role, a : Resident(role, a) \in SUBSET Alias
  BY DEF Resident
<1>4. LoadsAreMisses'
  <2>. SUFFICES ASSUME NEW r \in Request, Loading(r)' PROVE models'[AliasOf(r)'] = None
    BY DEF LoadsAreMisses
  <2>1. models[AliasOf(r)] = None /\ AliasOf(r)' = AliasOf(r)
    BY <1>1 DEF CapInv, LoadsAreMisses, AliasOf, Misses
  <2>2. AliasOf(r) \in Alias
    BY <1>1, WhereFacts DEF Loading, Making, LoadPc, Misses
  <2>. QED BY <2>1, <2>2
<1>5. RoomIsMade'
  <2>. SUFFICES ASSUME NEW r \in Request, Making(r)', GoesOn(r), Cap[RoleOf(r)'] > 0
                PROVE  Cardinality(Resident(RoleOf(r), AliasOf(r))' \ Leaving(r)')
                          < Cap[RoleOf(r)']
    BY DEF RoomIsMade, Room
  <2>. DEFINE S == Resident(RoleOf(r), AliasOf(r)) \ Leaving(r)
              T == Resident(RoleOf(r), AliasOf(r))' \ Leaving(r)'
  <2>1. AliasOf(r)' = AliasOf(r) /\ RoleOf(r)' = RoleOf(r) /\ RoleOf(r) \in Role
    BY <1>1, WhereFacts DEF AliasOf, RoleOf, GoesOn, Loading, Making, LoadPc
  <2>2. T \subseteq S
    BY <1>2, <2>1 DEF GoesOn, Resident
  <2>3. Cardinality(S) < Cap[RoleOf(r)]
    BY <2>1 DEF CapInv, RoomIsMade, Room, GoesOn
  <2>4. Cardinality(T) <= Cardinality(S) /\ Cardinality(S) \in Nat /\ Cardinality(T) \in Nat
    BY <1>3, <2>2, Counting
  <2>. QED BY <2>1, <2>3, <2>4, Assumptions
<1>6. ResidentsFit'
  <2>. SUFFICES ASSUME NEW role \in Role, Cap[role] > 0
                PROVE  Cardinality(Resident(role, None)') <= Cap[role]
    BY DEF ResidentsFit
  <2>1. /\ Cardinality(Resident(role, None)') <= Cardinality(Resident(role, None))
        /\ Cardinality(Resident(role, None)') \in Nat
        /\ Cardinality(Resident(role, None)) \in Nat
    BY <1>2, <1>3, Counting
  <2>. QED BY <2>1, Assumptions DEF CapInv, ResidentsFit
<1>. QED BY <1>4, <1>5, <1>6 DEF CapInv

\* The same for a step of t that leaves the other requests alone.
Alone(t) == \A x \in Request \ {t} :
    /\ pc'[x] = pc[x] /\ victim'[x] = victim[x] /\ todo'[x] = todo[x] /\ req'[x] = req[x]
LEMMA CapStep ==
    ASSUME TypeOK, Shape, CapInv, LruOrder', NEW t \in Task, Alone(t),
           \A a \in Alias : models'[a] \in {models[a], None},
           t \in Request => /\ pc[t] # "new" => req'[t] = req[t]
                            /\ Loading(t)' => Loading(t) \/ Misses(t)
                            /\ Making(t)' => GoesOn(t) \/ Room(t)'
    PROVE  CapInv'
<1>1. ASSUME NEW x \in Request \ {t}
      PROVE  /\ Loading(x)' = Loading(x) /\ Making(x)' = Making(x)
             /\ Leaving(x)' = Leaving(x) /\ req'[x] = req[x]
  BY DEF Alone, Loading, Making, Evicting, Leaving
<1>2. \A r \in Request : Loading(r)' =>
         Loading(r) \/ Misses(r)
  BY <1>1
<1>3. \A r \in Request : Making(r)' => GoesOn(r) \/ Room(r)'
  BY <1>1 DEF GoesOn
<1>4. \A r \in Request : pc[r] # "new" => req'[r] = req[r]
  BY <1>1
<1>. QED BY <1>2, <1>3, <1>4, CapFrame

\* A step after which t is in no part of load() that the cap is about.
LEMMA CapQuiet ==
    ASSUME TypeOK, Shape, CapInv, LruOrder', NEW t \in Task, Alone(t),
           \A a \in Alias : models'[a] \in {models[a], None},
           t \in Request => /\ pc[t] # "new" => req'[t] = req[t]
                            /\ ~Loading(t)'
    PROVE  CapInv'
BY CapStep DEF Loading

\* A step that touches nothing the cap is about.
LEMMA CapStutter ==
    ASSUME TypeOK, Shape, CapInv, UNCHANGED <<req, pc, models, since, victim, todo>>
    PROVE  CapInv'
<1>1. LruOrder'
  BY DEF CapInv, LruOrder
<1>2. \A r \in Request : Loading(r)' = Loading(r) /\ Making(r)' = Making(r)
                         /\ Leaving(r)' = Leaving(r)
  BY DEF Loading, Making, Evicting, Leaving
<1>. QED BY <1>1, <1>2, CapFrame DEF GoesOn

-----------------------------------------------------------------------------
(* The steps, one lemma per action *)

\* Requests that arrive or announce a load are outside of it.
LEMMA ArrivalCap ==
    ASSUME TypeOK, Shape, CapInv, NEW r \in Request,
           Arrival(r) \/ Announced(r) \/ AnnounceFails(r)
    PROVE  CapInv'
<1>1. /\ \E to \in {"done", "announce", "load", "unload"} : Goto(r, to)
      /\ UNCHANGED <<models, since, victim, todo>>
      /\ \A x \in Request \ {r} : req'[x] = req[x]
      /\ pc[r] # "new" => req'[r] = req[r]
  <2>1. CASE Announced(r) \/ AnnounceFails(r)
    BY <2>1 DEF Announced, AnnounceFails, modelVars
  <2>2. CASE Arrival(r)
    BY <2>2 DEF Arrival, ChatConflict, ChatUnknown, ChatAccepted, EmbedArrives, LoadArrives,
       UnloadArrives, CancelArrives, Arrives, modelVars, TypeOK
  <2>. QED BY <2>1, <2>2
<1>2. /\ pc'[r] \in {"done", "announce", "load", "unload"}
      /\ \A x \in Task \ {r} : pc'[x] = pc[x]
  BY <1>1, TaskFacts DEF Goto, TypeOK
<1>3. LruOrder'
  BY <1>1 DEF CapInv, LruOrder
<1>4. Alone(r) /\ ~Loading(r)'
  BY <1>1, <1>2, TaskFacts DEF Alone, Loading, Making, Evicting, UnloadPc
<1>. QED BY <1>1, <1>3, <1>4, CapQuiet, TaskFacts

\* A hit makes the model the most recently used one.
LEMMA LoadHitCap ==
    ASSUME TypeOK, Shape, CapInv, TypeOK', NEW r \in Request, pc[r] \in {"load", "lockWait"},
           NEW lkFree, LoadHit(r, lkFree)
    PROVE  CapInv'
<1>. DEFINE a == AliasOf(r)
            o == models[a]
            lk == Abandon(lkFree, Stoppable(o))
            to == AfterLoad(r, lk)
<1>1. a \in Alias /\ o \in Request /\ o # None
  BY WhereFacts DEF LoadHit, LoadPc, TypeOK
<1>2. /\ since' = Touched(a) /\ ScheduleIdle(o, "delay", r, to)
      /\ UNCHANGED <<req, models, victim, todo>>
  BY DEF LoadHit
<1>3. to \in {"done", "held", "useWait"}
  BY DEF AfterLoad
<1>. HIDE DEF to, o, lk
<1>4. pc'[r] = to /\ \A x \in Request \ {r} : pc'[x] = pc[x]
  BY <1>1, <1>2, <1>3, ScheduleIdleFacts DEF RequestPc
<1>5. Alone(r) /\ ~Loading(r)'
  BY <1>2, <1>3, <1>4 DEF Alone, Loading, Making, Evicting, UnloadPc
<1>6. models'[a] # None
  BY <1>1, <1>2 DEF o
<1>7. LruOrder'
  BY <1>1, <1>2, <1>6, LruTouch DEF CapInv
<1>. QED BY <1>2, <1>5, <1>7, CapQuiet, TaskFacts

\* load() up to its first suspension, and the arrival of the gate.
LEMMA LoadStartCap ==
    ASSUME TypeOK, Shape, CapInv, TypeOK', NEW r \in Request,
           LoadStart(r) \/ LoadWoken(r) \/ GateWoken(r)
    PROVE  CapInv'
<1>1. CASE pc[r] \in {"load", "lockWait"} /\ \E lk : LoadHit(r, lk)
  BY <1>1, LoadHitCap
<1>2. CASE /\ \E to \in {"lockWait", "gateWait", "check"} : Goto(r, to)
           /\ UNCHANGED <<req, models, since, victim, todo>>
           /\ pc'[r] = "lockWait" \/ Loading(r) \/ Misses(r)
  <2>1. /\ pc'[r] \in {"lockWait", "gateWait", "check"}
        /\ \A x \in Task \ {r} : pc'[x] = pc[x]
    BY <1>2, TaskFacts DEF Goto, TypeOK
  <2>2. Alone(r) /\ ~Making(r)' /\ (Loading(r)' => Loading(r) \/ Misses(r))
    BY <1>2, <2>1, TaskFacts DEF Alone, Loading, Making, Evicting, UnloadPc
  <2>3. LruOrder'
    BY <1>2 DEF CapInv, LruOrder
  <2>. QED BY <1>2, <2>2, <2>3, CapStep, TaskFacts
<1>3. ASSUME pc[r] \in {"load", "lockWait"}, NEW lk, LoadMiss(r, lk)
      PROVE  Misses(r) /\ UNCHANGED <<req, models, since, victim, todo>>
             /\ \E to \in {"lockWait", "gateWait", "check"} : Goto(r, to)
  BY <1>3, WhereFacts DEF LoadMiss, Misses, LoadPc, reqVars, modelVars
<1>4. CASE LoadStart(r)
  <2>1. CASE /\ ~Uncontended(lock[AliasOf(r)])
             /\ Goto(r, "lockWait") /\ UNCHANGED <<req, models, since, victim, todo>>
    <3>1. pc'[r] = "lockWait"
      BY <2>1, TaskFacts DEF Goto, TypeOK
    <3>. QED BY <1>2, <2>1, <3>1
  <2>. QED BY <1>1, <1>2, <1>3, <1>4, <2>1 DEF LoadStart, reqVars, modelVars
<1>5. CASE LoadWoken(r)
  BY <1>1, <1>2, <1>3, <1>5 DEF LoadWoken
<1>6. CASE GateWoken(r)
  BY <1>2, <1>6 DEF GateWoken, Loading, reqVars, modelVars
<1>. QED BY <1>4, <1>5, <1>6

\* What unload(v) does before it suspends, as far as the cap is concerned.
LEMMA UnloadEntersEffect ==
    ASSUME TypeOK, Shape, NEW t \in Task, NEW v \in Alias, UnloadEnters(t, v)
    PROVE  /\ UNCHANGED <<req, models, since>>
           /\ \A x \in Request \ {t} : pc'[x] = pc[x] /\ victim'[x] = victim[x]
           /\ t \in Request =>
                 \/ pc'[t] = ReturnPc(t) /\ models[v] = None
                 \/ pc'[t] \in UnloadPc /\ victim'[t] = v
<1>. UNCHANGED req
  BY DEF UnloadEnters
<1>1. CASE models[v] = None /\ UnloadReturns(t) /\ UNCHANGED modelVars
  <2>1. pc' = [pc EXCEPT ![t] = ReturnPc(t)]
        /\ \A x \in Request \ {t} : victim'[x] = victim[x]
    BY <1>1, UnloadReturnsFacts
  <2>. QED BY <1>1, <2>1, TaskFacts DEF modelVars, TypeOK
<1>2. CASE /\ Uncontended(lock[v])
           /\ UnloadBegins(t, v, Acquire(lock[v], t))
           /\ victim' = [x \in Request |-> IF x = t THEN v ELSE victim[x]]
  <2>1. Acquire(lock[v], t) \in LockType(Task)
    BY AcquireFacts, LockTypes, TaskFacts
  <2>2. pc'[t] = "unloading" /\ \A x \in Request \ {t} : pc'[x] = pc[x]
    BY <1>2, <2>1, UnloadBeginsFacts
  <2>. QED BY <1>2, <2>2 DEF UnloadEnters, UnloadBegins, UnloadPc
<1>3. CASE /\ Goto(t, "unloadWait") /\ UNCHANGED modelVars
           /\ victim' = [x \in Request |-> IF x = t THEN v ELSE victim[x]]
  BY <1>3, TaskFacts DEF UnloadEnters, modelVars, UnloadPc, Goto, TypeOK
<1>. QED BY <1>1, <1>2, <1>3 DEF UnloadEnters

\* A model.unload request or an idle task starts to unload.
LEMMA UnloadStartCap ==
    ASSUME TypeOK, Shape, CapInv, NEW t \in Task,
           (t \in Request /\ UnloadStart(t)) \/ (t \in Timer /\ TimerUnloads(t))
    PROVE  CapInv'
<1>1. VictimOf(t) \in Alias /\ UnloadEnters(t, VictimOf(t)) /\ UNCHANGED todo
  BY VictimFacts, TaskFacts DEF UnloadStart, TimerUnloads, VictimOf, Shape, RequestShape
<1>2. /\ UNCHANGED <<req, models, since>>
      /\ Alone(t)
  BY <1>1, UnloadEntersEffect DEF Alone
<1>3. t \in Request => ~Loading(t)'
  <2>. SUFFICES ASSUME t \in Request PROVE ~Loading(t)'
    OBVIOUS
  <2>1. req[t].op = "unload" /\ pc'[t] \in {"done"} \cup UnloadPc
    BY <1>1, UnloadEntersEffect, TaskFacts DEF UnloadStart, Shape, RequestShape, ReturnPc
  <2>. QED BY <1>2, <2>1 DEF Loading, Making, Evicting, UnloadPc
<1>4. LruOrder'
  BY <1>2 DEF CapInv, LruOrder
<1>. QED BY <1>2, <1>3, <1>4, CapQuiet

\* The next eviction, or the load, of a request whose victims vs make room.
LEMMA EvictsCap ==
    ASSUME TypeOK, Shape, CapInv, NEW r \in Request, pc[r] \in {"check", "evict"},
           NEW vs \in SUBSET Alias, Evicts(r, vs),
           Cap[RoleOf(r)] > 0 =>
              Cardinality(Resident(RoleOf(r), AliasOf(r)) \ vs) < Cap[RoleOf(r)]
    PROVE  CapInv'
<1>1. CASE vs = {}
  <2>1. /\ pc'[r] = "backend" /\ \A x \in Task \ {r} : pc'[x] = pc[x]
        /\ UNCHANGED <<req, models, since, victim, todo>>
    BY <1>1, TaskFacts DEF Evicts, Goto, TypeOK, reqVars, modelVars
  <2>2. Alone(r) /\ Loading(r)
    BY <2>1, TaskFacts DEF Alone, Loading, Making
  <2>3. Room(r)'
    BY <1>1, <2>1 DEF Room, Leaving, Resident, RoleOf, AliasOf
  <2>4. LruOrder'
    BY <2>1 DEF CapInv, LruOrder
  <2>. QED BY <2>1, <2>2, <2>3, <2>4, CapStep, TaskFacts
<1>2. CASE vs # {}
  <2>1. PICK v \in vs : todo' = [todo EXCEPT ![r] = vs \ {v}] /\ UnloadEnters(r, v)
    BY <1>2 DEF Evicts
  <2>2. /\ UNCHANGED <<req, models, since>> /\ Alone(r)
        /\ \/ pc'[r] = "evict" /\ models[v] = None
           \/ pc'[r] \in UnloadPc /\ victim'[r] = v
    <3>1. req[r].op # "unload" /\ r \notin Timer
      BY WhereFacts, TaskFacts DEF LoadPc
    <3>. QED BY <2>1, <3>1, UnloadEntersEffect, TaskFacts DEF Alone, ReturnPc, TypeOK
  <2>3. todo'[r] = vs \ {v}
    BY <2>1 DEF TypeOK
  <2>4. Resident(RoleOf(r), AliasOf(r))' \ Leaving(r)'
           = Resident(RoleOf(r), AliasOf(r)) \ vs
    BY <2>2, <2>3 DEF Leaving, Resident, RoleOf, AliasOf, UnloadPc
  <2>5. Room(r)'
    BY <2>2, <2>4 DEF Room, RoleOf
  <2>6. LruOrder'
    BY <2>2 DEF CapInv, LruOrder
  <2>7. Loading(r)
    BY DEF Loading, Making
  <2>. QED BY <2>2, <2>5, <2>6, <2>7, CapStep, TaskFacts
<1>. QED BY <1>1, <1>2

\* At most one model has to go, and the least recently used of the evictable
\* ones is a victim.
LEMMA VictimsMakeRoom ==
    ASSUME TypeOK, Shape, CapInv, NEW r \in Request, pc[r] = "check",
           Cap[RoleOf(r)] > 0, Capped(r) => Cardinality(Evictable(r)) >= Overflow(r)
    PROVE  Cardinality(Resident(RoleOf(r), AliasOf(r))
                          \ (IF Capped(r) THEN Victims(r) ELSE {})) < Cap[RoleOf(r)]
<1>. DEFINE R == Resident(RoleOf(r), AliasOf(r))
            E == Evictable(r)
            k == Cap[RoleOf(r)]
<1>1. RoleOf(r) \in Role /\ k \in Int
  BY WhereFacts, Assumptions DEF LoadPc
<1>2. R \in SUBSET Alias /\ E \in SUBSET R /\ \A a \in R : models[a] # None
  BY DEF Resident, Evictable
<1>3. Cardinality(R) \in Nat /\ Cardinality(E) \in Nat /\ Cardinality(R) <= k
  <2>1. R \subseteq Resident(RoleOf(r), None) /\ Resident(RoleOf(r), None) \in SUBSET Alias
    BY TaskFacts DEF Resident
  <2>2. Cardinality(Resident(RoleOf(r), None)) <= k
    BY <1>1 DEF CapInv, ResidentsFit
  <2>. QED BY <1>1, <1>2, <2>1, <2>2, Counting
<1>4. CASE ~Capped(r)
  <2>1. Cardinality(R) < k
    BY <1>1, <1>3, <1>4 DEF Capped, Overflow
  <2>2. R \ {} = R
    OBVIOUS
  <2>. QED BY <1>4, <2>1, <2>2
<1>5. CASE Capped(r)
  <2>1. Overflow(r) = 1
    BY <1>1, <1>3, <1>5 DEF Capped, Overflow
  <2>2. E # {}
    BY <1>5, <2>1, FS_EmptySet
  <2>3. PICK v \in E : E \ since[v] = {v}
    BY <1>2, <2>2, LeastRecentlyUsed DEF CapInv
  <2>4. v \in Victims(r)
    <3>1. Cardinality(E \ since[v]) = 1
      BY <2>3, FS_Singleton
    <3>. QED BY <2>1, <3>1 DEF Victims
  <2>5. Cardinality(R \ Victims(r)) <= Cardinality(R \ {v})
        /\ Cardinality(R \ Victims(r)) \in Nat /\ Cardinality(R \ {v}) = Cardinality(R) - 1
    BY <1>2, <2>4, Counting
  <2>. QED BY <1>1, <1>3, <1>5, <2>5
<1>. QED BY <1>4, <1>5

\* The cap check, and what follows an eviction.
LEMMA CapCheckCap ==
    ASSUME TypeOK, Shape, CapInv, NEW r \in Request, CapCheck(r) \/ EvictNext(r)
    PROVE  CapInv'
<1>1. CASE CapCheck(r)
  <2>. DEFINE vs == IF Capped(r) THEN Victims(r) ELSE {}
  <2>1. vs \in SUBSET Alias
    BY DEF Victims, Evictable, Resident
  <2>2. /\ pc[r] = "check" /\ Evicts(r, vs)
        /\ Capped(r) => Cardinality(Evictable(r)) >= Overflow(r)
    BY <1>1 DEF CapCheck
  <2>. QED BY <2>1, <2>2, VictimsMakeRoom, EvictsCap
<1>2. CASE EvictNext(r)
  <2>1. pc[r] = "evict" /\ Evicts(r, todo[r]) /\ todo[r] \in SUBSET Alias
    BY <1>2 DEF EvictNext, TypeOK
  <2>2. Leaving(r) = todo[r] /\ Room(r)
    BY <2>1 DEF Leaving, CapInv, RoomIsMade, Making
  <2>. QED BY <2>1, <2>2, EvictsCap DEF Room
<1>. QED BY <1>1, <1>2

\* A return from unload(v): v is not resident (any more), and an eviction that
\* is through is one victim less to go.
LEMMA UnloadReturnsCap ==
    ASSUME TypeOK, Shape, CapInv, NEW t \in Task, pc[t] \in UnloadPc,
           UnloadReturns(t), UNCHANGED <<req, todo>>, LruOrder',
           \A a \in Alias : models'[a] \in {models[a], None}, models'[VictimOf(t)] = None
    PROVE  CapInv'
<1>1. /\ pc' = [pc EXCEPT ![t] = ReturnPc(t)]
      /\ \A x \in Request \ {t} : victim'[x] = victim[x]
  BY UnloadReturnsFacts
<1>2. Alone(t) /\ pc'[t] = ReturnPc(t)
  BY <1>1, TaskFacts DEF Alone, TypeOK
<1>3. ASSUME t \in Request, Loading(t)' PROVE Loading(t) /\ GoesOn(t)
  <2>1. t \notin Timer /\ pc'[t] = "evict" /\ req[t].op # "unload"
    BY <1>2, <1>3, TaskFacts DEF ReturnPc, Loading, Making, Evicting, UnloadPc
  <2>2. Evicting(t) /\ VictimOf(t) = victim[t]
    BY <1>3, <2>1 DEF Evicting, VictimOf
  <2>3. Leaving(t)' = todo[t] /\ Leaving(t) = todo[t] \cup {victim[t]}
    BY <2>1 DEF Leaving, UnloadPc
  <2>. QED BY <2>2, <2>3 DEF GoesOn, Loading, Making
<1>. QED BY <1>2, <1>3, CapStep DEF Loading

\* unload() gets the alias lock, or backend.unload returns.
LEMMA UnloadEndsCap ==
    ASSUME TypeOK, Shape, CapInv, TypeOK', NEW t \in Task, UnloadWoken(t) \/ UnloadDone(t)
    PROVE  CapInv'
<1>. DEFINE v == VictimOf(t)
<1>1. pc[t] \in UnloadPc /\ v \in Alias /\ UNCHANGED <<req, todo>>
  BY VictimFacts DEF UnloadWoken, UnloadDone, UnloadPc
<1>2. CASE UnloadWoken(t) /\ models[v] = None /\ UnloadReturns(t) /\ UNCHANGED modelVars
  <2>1. LruOrder'
    BY <1>2 DEF CapInv, LruOrder, modelVars
  <2>. QED BY <1>1, <1>2, <2>1, UnloadReturnsCap DEF modelVars
<1>3. CASE UnloadWoken(t) /\ UnloadBegins(t, v, Take(lock[v], t)) /\ UNCHANGED victim
  <2>1. Take(lock[v], t) \in LockType(Task) /\ pc[t] = "unloadWait"
    BY <1>1, <1>3, WokenFacts, LockTypes, TaskFacts DEF UnloadWoken
  <2>2. /\ pc'[t] = "unloading" /\ \A x \in Request \ {t} : pc'[x] = pc[x]
        /\ UNCHANGED <<models, since, victim>>
    BY <1>1, <1>3, <2>1, UnloadBeginsFacts DEF UnloadBegins
  <2>3. Alone(t)
    BY <1>1, <2>2 DEF Alone
  <2>4. t \in Request => /\ Loading(t)' = Loading(t) /\ Making(t)' = Making(t)
                         /\ Leaving(t)' = Leaving(t)
    BY <1>1, <2>1, <2>2 DEF Loading, Making, Evicting, Leaving, UnloadPc
  <2>5. LruOrder'
    BY <2>2 DEF CapInv, LruOrder
  <2>. QED BY <1>1, <2>2, <2>3, <2>4, <2>5, CapStep DEF GoesOn
<1>4. CASE UnloadDone(t)
  <2>1. models' = [models EXCEPT ![v] = None] /\ since' = Forgotten(v) /\ UnloadReturns(t)
    BY <1>4 DEF UnloadDone
  <2>2. models'[v] = None /\ \A a \in Alias \ {v} : models'[a] = models[a]
    BY <1>1, <2>1 DEF TypeOK
  <2>3. LruOrder'
    BY <1>1, <2>1, <2>2, LruForget DEF CapInv
  <2>. QED BY <1>1, <2>1, <2>2, <2>3, UnloadReturnsCap
<1>. QED BY <1>2, <1>3, <1>4 DEF UnloadWoken

\* A load() refused by the cap, failed by the backend or by an eviction.
LEMMA FailsCap ==
    ASSUME TypeOK, Shape, CapInv, TypeOK', NEW r \in Request,
           CapFull(r) \/ BackendLoadFails(r) \/ UnloadFails(r)
    PROVE  CapInv'
<1>1. /\ Goto(r, "done") /\ UNCHANGED req
      /\ \A x \in Request \ {r} : victim'[x] = victim[x] /\ todo'[x] = todo[x]
  BY DEF CapFull, BackendLoadFails, UnloadFails, LoadAborts, TypeOK
<1>2. pc'[r] = "done" /\ \A x \in Task \ {r} : pc'[x] = pc[x]
  BY <1>1, TaskFacts DEF Goto, TypeOK
<1>3. Alone(r) /\ ~Loading(r)'
  BY <1>1, <1>2, TaskFacts DEF Alone, Loading, Making, Evicting, UnloadPc
<1>4. CASE UNCHANGED modelVars
  BY <1>1, <1>3, <1>4, CapQuiet, TaskFacts DEF CapInv, LruOrder, modelVars
<1>5. CASE UnloadFails(r)
  <2>. DEFINE v == VictimOf(r)
  <2>1. v \in Alias /\ models' = [models EXCEPT ![v] = None] /\ since' = Forgotten(v)
    BY <1>5, VictimFacts, TaskFacts DEF UnloadFails, UnloadPc
  <2>2. models'[v] = None /\ \A a \in Alias \ {v} : models'[a] = models[a]
    BY <2>1 DEF TypeOK
  <2>3. LruOrder'
    BY <2>1, <2>2, LruForget DEF CapInv
  <2>. QED BY <1>1, <1>3, <2>2, <2>3, CapQuiet, TaskFacts
<1>. QED BY <1>4, <1>5 DEF CapFull, BackendLoadFails

\* The generation moves its model to the end of the order, if it is resident.
LEMMA UseCap ==
    ASSUME TypeOK, Shape, CapInv, TypeOK', NEW r \in Request,
           UseWoken(r) \/ UseStarts(r) \/ ChatStreamed(r) \/ ChatDropped(r) \/ EmbedEnds(r)
           \/ ChatErrs(r) \/ ChatReplied(r)
    PROVE  CapInv'
<1>1. /\ pc[r] \in UsePc /\ since' \in {since, TouchedObj(loaded[r])}
      /\ UNCHANGED <<req, models, victim, todo>>
  BY DEF UseWoken, UseStarts, ChatStreamed, ChatDropped, EmbedEnds, ChatErrs, ChatReplied,
     UsePc, reqVars, modelVars
<1>2. loaded[r] \in Request /\ AliasOf(loaded[r]) \in Alias
  BY <1>1 DEF Shape, RequestShape, Object, UsePc
<1>3. LruOrder'
  BY <1>1, <1>2, LruTouchObj DEF CapInv, LruOrder
<1>4. pc'[r] \in {"held", "using", "ending", "done"} /\ \A x \in Request \ {r} : pc'[x] = pc[x]
  <2>1. CASE \E to \in {"held", "using", "ending", "done"} : Goto(r, to)
    BY <2>1, TaskFacts DEF Goto, TypeOK
  <2>2. CASE \E lk : ChatEnds(r, lk)
    <3>1. ScheduleIdle(loaded[r], req[r].keep, r, "done")
      BY <2>2 DEF ChatEnds
    <3>. QED BY <1>2, <3>1, ScheduleIdleFacts DEF RequestPc
  <2>. QED BY <2>1, <2>2
           DEF UseWoken, UseStarts, ChatStreamed, ChatDropped, EmbedEnds, ChatErrs,
               ChatReplied, Releases
<1>5. Alone(r) /\ ~Loading(r)'
  BY <1>1, <1>4 DEF Alone, Loading, Making, Evicting, UnloadPc
<1>. QED BY <1>1, <1>3, <1>5, CapQuiet, TaskFacts

\* The loaded model fits: its load() made the room and nobody took it since.
LEMMA LoadInsertsCap ==
    ASSUME TypeOK, Shape, LockDiscipline, CapInv, TypeOK', NEW r \in Request, LoadInserts(r)
    PROVE  CapInv'
<1>. DEFINE a == AliasOf(r)
            to == AfterLoad(r, Release(lock[a]))
<1>1. pc[r] = "backend" /\ a \in Alias /\ a \in Lock /\ Gate \in Lock /\ RoleOf(r) \in Role
  BY WhereFacts, TaskFacts DEF LoadInserts, LoadPc
<1>2. /\ models' = [models EXCEPT ![a] = r] /\ since' = Touched(a)
      /\ ScheduleIdle(r, "delay", r, to)
      /\ UNCHANGED <<req, victim, todo>>
  BY DEF LoadInserts
<1>3. to \in {"done", "held", "useWait"}
  BY DEF AfterLoad
<1>. HIDE DEF to
<1>4. pc'[r] = to /\ \A x \in Request \ {r} : pc'[x] = pc[x]
  BY <1>2, <1>3, ScheduleIdleFacts DEF RequestPc
<1>5. models'[a] = r /\ r # None /\ \A b \in Alias \ {a} : models'[b] = models[b]
  BY <1>1, <1>2, TaskFacts DEF TypeOK
<1>6. LruOrder'
  BY <1>1, <1>2, <1>5, LruTouch DEF CapInv
<1>7. ASSUME NEW x \in Request, Loading(x)'
      PROVE  x # r /\ Loading(x) /\ AliasOf(x)' = AliasOf(x) /\ AliasOf(x) \in Alias \ {a}
  <2>1. x # r
    BY <1>3, <1>4, <1>7 DEF Loading, Making, Evicting, UnloadPc
  <2>2. Loading(x)
    BY <1>2, <1>4, <1>7, <2>1 DEF Loading, Making, Evicting
  <2>3. AliasOf(x) \in Alias /\ AliasOf(x) \in Claims(x) /\ a \in Claims(r)
    BY <1>1, <2>2, WhereFacts DEF Loading, Making, LoadPc, Claims
  <2>4. AliasOf(x) # a
    BY <1>1, <2>1, <2>3, TaskFacts DEF LockDiscipline
  <2>. QED BY <1>2, <2>1, <2>2, <2>3, <2>4 DEF AliasOf
<1>8. LoadsAreMisses'
  BY <1>5, <1>7 DEF CapInv, LoadsAreMisses
<1>9. ASSUME NEW x \in Request, Making(x)' PROVE FALSE
  <2>1. x # r /\ Making(x)
    BY <1>2, <1>3, <1>4, <1>9 DEF Making, Evicting, UnloadPc
  <2>2. Gate \in Claims(x) /\ Gate \in Claims(r)
    BY <1>1, <2>1 DEF Making, Claims
  <2>. QED BY <1>1, <2>1, <2>2, TaskFacts DEF LockDiscipline
<1>10. RoomIsMade'
  BY <1>9 DEF RoomIsMade
<1>11. ResidentsFit'
  <2>. SUFFICES ASSUME NEW role \in Role, Cap[role] > 0
                PROVE  Cardinality(Resident(role, None)') <= Cap[role]
    BY DEF ResidentsFit
  <2>1. Cap[role] \in Int
    BY Assumptions
  <2>2. \A b \in Alias \ {a} : models'[b] # None =>
           models'[b] = models[b] /\ RoleOf(models[b])' = RoleOf(models[b])
    BY <1>2, <1>5 DEF RoleOf
  <2>3. CASE role = RoleOf(r)
    <3>1. Resident(role, None)' = Resident(role, a) \cup {a}
      BY <1>1, <1>2, <1>5, <2>2, <2>3, TaskFacts DEF Resident, RoleOf
    <3>2. Resident(role, a) \in SUBSET Alias /\ a \notin Resident(role, a)
      BY DEF Resident
    <3>3. Leaving(r) = {} /\ Room(r)
      BY <1>1 DEF CapInv, RoomIsMade, Making, Leaving
    <3>4. Cardinality(Resident(role, a)) < Cap[role]
      <4>1. Resident(role, a) \ {} = Resident(role, a)
        OBVIOUS
      <4>. QED BY <2>3, <3>3, <4>1 DEF Room
    <3>. QED BY <2>1, <3>1, <3>2, <3>4, Counting
  <2>4. CASE role # RoleOf(r)
    <3>1. models[a] = None
      BY <1>1 DEF CapInv, LoadsAreMisses, Loading, Making
    <3>2. Resident(role, None)' = Resident(role, None)
      BY <1>1, <1>2, <1>5, <2>2, <2>4, <3>1, TaskFacts DEF Resident, RoleOf
    <3>. QED BY <3>2 DEF CapInv, ResidentsFit
  <2>. QED BY <2>3, <2>4
<1>. QED BY <1>6, <1>8, <1>10, <1>11 DEF CapInv

\* Every step of the daemon keeps the invariant.
LEMMA NextCap ==
    TypeOK /\ Shape /\ LockDiscipline /\ CapInv /\ [Next]_vars /\ TypeOK' => CapInv'
<1>. SUFFICES ASSUME TypeOK, Shape, LockDiscipline, CapInv, [Next]_vars, TypeOK'
              PROVE  CapInv'
  OBVIOUS
<1>1. CASE UNCHANGED vars
  BY <1>1, CapStutter DEF vars
<1>2. ASSUME NEW r \in Request, Arrival(r) PROVE CapInv'
  BY <1>2, ArrivalCap
<1>3. ASSUME NEW r \in Request, Serve(r) PROVE CapInv'
  <2>1. CASE WorkerExits(r)
    BY <2>1, CapStutter DEF WorkerExits, reqVars, modelVars
  <2>. QED BY <1>3, <2>1, ArrivalCap, LoadStartCap, FailsCap, CapCheckCap, LoadInsertsCap,
              UnloadStartCap, UnloadEndsCap, UseCap, TaskFacts DEF Serve
<1>4. ASSUME NEW r \in Request, Mishap(r) PROVE CapInv'
  BY <1>4, ArrivalCap, FailsCap, UseCap DEF Mishap
<1>5. ASSUME NEW u \in Timer, Tick(u) PROVE CapInv'
  <2>1. CASE TimerDefers(u) \/ TimerSkips(u)
    <3>1. /\ UNCHANGED <<req, models, since, victim, todo>>
          /\ \A x \in Request : pc'[x] = pc[x]
      BY <2>1, TaskFacts DEF TimerDefers, TimerSkips, Goto, TypeOK, reqVars, modelVars
    <3>2. LruOrder'
      BY <3>1 DEF CapInv, LruOrder
    <3>. QED BY <3>1, <3>2, CapQuiet, TaskFacts DEF Alone
  <2>. QED BY <1>5, <2>1, UnloadStartCap, UnloadEndsCap, TaskFacts DEF Tick
<1>. QED BY <1>1, <1>2, <1>3, <1>4, <1>5 DEF Next, Terminated

\* At the start nothing is resident.
LEMMA InitCap == Init => CapInv
<1>. SUFFICES ASSUME Init PROVE CapInv
  OBVIOUS
<1>1. \A role, a : Resident(role, a) = {}
  BY DEF Init, Resident
<1>2. \A r \in Request : ~Loading(r)
  BY TaskFacts DEF Init, Loading, Making, Evicting, UnloadPc
<1>3. LruOrder
  BY DEF Init, LruOrder
<1>4. ResidentsFit
  BY <1>1, FS_EmptySet, Assumptions DEF ResidentsFit
<1>. QED BY <1>2, <1>3, <1>4 DEF CapInv, LoadsAreMisses, RoomIsMade, Loading

\* The cap of a role is never exceeded, not even while a load is in progress or
\* an unload has not returned: concurrent loads of DaemonState see each other.
THEOREM CapIsKept == Spec => []ResidentCap
<1>1. Spec => []CapInv
  <2>1. Spec => [](TypeOK /\ Shape)
    BY ShapeInvariant
  <2>2. Spec => []LockDiscipline
    BY LocksAreDisciplined
  <2>. QED BY <2>1, <2>2, InitCap, NextCap, PTL DEF Spec
<1>2. TypeOK /\ Shape /\ LockDiscipline /\ CapInv => ResidentCap
  <2>. SUFFICES ASSUME TypeOK, Shape, LockDiscipline, CapInv, NEW role \in Role, Cap[role] > 0
                PROVE  Cardinality(InMemory(role)) <= Cap[role]
    BY DEF ResidentCap
  <2>. DEFINE L == {x \in Request : pc[x] = "backend" /\ RoleOf(x) = role}
  <2>1. InMemory(role) = Resident(role, None) \cup {AliasOf(x) : x \in L}
    BY TaskFacts DEF InMemory, Resident
  <2>2. CASE L = {}
    <3>1. InMemory(role) = Resident(role, None)
      BY <2>1, <2>2
    <3>. QED BY <3>1 DEF CapInv, ResidentsFit
  <2>3. CASE L # {}
    <3>1. PICK r \in L : TRUE
      BY <2>3
    <3>2. L = {r}
      <4>1. \A x \in L : Gate \in Claims(x)
        BY RequestClaims DEF LoadLocks
      <4>. QED BY <3>1, <4>1, TaskFacts DEF LockDiscipline
    <3>3. AliasOf(r) \in Alias /\ models[AliasOf(r)] = None
      BY <3>1, WhereFacts DEF LoadPc, CapInv, LoadsAreMisses, Loading, Making
    <3>4. Resident(role, None) = Resident(role, AliasOf(r))
      BY <3>3, TaskFacts DEF Resident
    <3>5. InMemory(role) = Resident(role, AliasOf(r)) \cup {AliasOf(r)}
      BY <2>1, <3>2, <3>4
    <3>6. Resident(role, AliasOf(r)) \in SUBSET Alias
          /\ AliasOf(r) \notin Resident(role, AliasOf(r))
      BY DEF Resident
    <3>7. Cardinality(Resident(role, AliasOf(r))) < Cap[role]
      <4>1. Leaving(r) = {} /\ Room(r) /\ RoleOf(r) = role
        BY <3>1 DEF CapInv, RoomIsMade, Making, Leaving
      <4>2. Resident(role, AliasOf(r)) \ {} = Resident(role, AliasOf(r))
        OBVIOUS
      <4>. QED BY <4>1, <4>2 DEF Room
    <3>. QED BY <3>5, <3>6, <3>7, Counting, Assumptions
  <2>. QED BY <2>2, <2>3
<1>. QED BY <1>1, <1>2, ShapeInvariant, LocksAreDisciplined, PTL

=============================================================================
