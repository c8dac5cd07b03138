------------------------- MODULE ModelLifecycleLocks -------------------------
(***************************************************************************)
(* Type correctness of ModelLifecycle, with the shape of its state, and    *)
(* Spec => []LockDiscipline: the per-alias locks and the load gate are     *)
(* owned exactly by the task inside the critical section.  What the locks  *)
(* are for follows: one backend.load at a time, and a generation that      *)
(* shares its model with no other handler and no unload.                   *)
(***************************************************************************)
EXTENDS ModelLifecycleInv, SequenceTheorems, TLAPS

-----------------------------------------------------------------------------
(* What the operations of an asyncio.Lock do to its owner and its queue *)

\* RemoveAt stays within the element type.
LEMMA RemoveAtType ==
    ASSUME NEW S, NEW s \in Seq(S), NEW i \in 1..Len(s)
    PROVE  RemoveAt(s, i) \in Seq(S)
<1>1. SubSeq(s, 1, i-1) \in Seq(S)
  <2>1. \A j \in 1 .. i-1 : s[j] \in S
    OBVIOUS
  <2>. QED BY <2>1, SubSeqProperties
<1>2. SubSeq(s, i+1, Len(s)) \in Seq(S)
  <2>1. \A j \in i+1 .. Len(s) : s[j] \in S
    OBVIOUS
  <2>. QED BY <2>1, SubSeqProperties
<1>. QED BY <1>1, <1>2, ConcatProperties DEF RemoveAt

\* acquire() by t changes the owner only of a lock that is free and unawaited.
LEMMA AcquireFacts ==
    ASSUME NEW T, NEW lk \in LockType(T), NEW t \in T
    PROVE  /\ Acquire(lk, t) \in LockType(T)
           /\ Acquire(lk, t).owner = IF Uncontended(lk) THEN t ELSE lk.owner
BY DEF LockType, Acquire, Uncontended

\* release() frees the lock and leaves its queue alone.
LEMMA ReleaseFacts ==
    ASSUME NEW T, NEW lk \in LockType(T)
    PROVE  /\ Release(lk) \in LockType(T)
           /\ Release(lk).owner = None
           /\ Release(lk).queue = lk.queue
BY DEF LockType, Release

\* A woken waiter finds the lock free; it keeps the lock or lets it go.
LEMMA WokenFacts ==
    ASSUME NEW T, NEW lk \in LockType(T), NEW t \in T, Woken(lk, t)
    PROVE  /\ lk.owner = None
           /\ Take(lk, t) \in LockType(T) /\ Take(lk, t).owner = t
           /\ Pass(lk) \in LockType(T)    /\ Pass(lk).owner = None
<1>1. Tail(lk.queue) \in Seq(T)
  BY HeadTailProperties DEF LockType, Woken
<1>. QED BY <1>1 DEF LockType, Woken, Take, Pass

\* A waiter that gives up does not change the owner.
LEMMA AbandonFacts ==
    ASSUME NEW T, NEW lk \in LockType(T), NEW t
    PROVE  /\ Abandon(lk, t) \in LockType(T)
           /\ Abandon(lk, t).owner = lk.owner
<1>. DEFINE i == CHOOSE i \in DOMAIN lk.queue : lk.queue[i] = t
<1>1. CASE \E j \in DOMAIN lk.queue : lk.queue[j] = t
  <2>1. lk.queue \in Seq(T) /\ i \in 1 .. Len(lk.queue)
    BY <1>1 DEF LockType
  <2>2. RemoveAt(lk.queue, i) \in Seq(T)
    BY <2>1, RemoveAtType
  <2>. QED BY <1>1, <2>2 DEF Abandon, LockType
<1>2. CASE ~ \E j \in DOMAIN lk.queue : lk.queue[j] = t
  BY <1>2 DEF Abandon
<1>. QED BY <1>1, <1>2

-----------------------------------------------------------------------------
(* The operators the actions are built from *)

\* Requests and idle tasks are different tasks, and None is neither.
LEMMA TaskFacts ==
    /\ Request \cap Timer = {} /\ Request \subseteq Task /\ Timer \subseteq Task
    /\ None \notin Request /\ None \notin Timer /\ None \notin Alias
    /\ Gate \notin Alias /\ Gate \in Lock /\ Alias \subseteq Lock
BY Assumptions DEF Task, Lock

\* What is known of a request by where its handler is.
LEMMA WhereFacts ==
    ASSUME Shape, NEW r \in Request
    PROVE  /\ pc[r] \in LoadPc \cup UsePc \/ Evicting(r) =>
                 AliasOf(r) \in Alias /\ RoleOf(r) \in Role /\ req[r].op \in LoadOp
           /\ pc[r] \in LoadPc \cup UsePc => req[r].op # "unload"
           /\ pc[r] \in {"unload"} \cup UnloadPc /\ ~Evicting(r) =>
                 req[r].op = "unload" /\ req[r].alias \in Alias
BY DEF Shape, RequestShape, LoadPc, UsePc, UnloadPc, LoadOp, Evicting, AliasOf, RoleOf

\* The alias a task unloads.
LEMMA VictimFacts ==
    ASSUME TypeOK, Shape, NEW t \in Task,
           pc[t] \in {"unload"} \cup UnloadPc \/ (t \in Timer /\ pc[t] # "free")
    PROVE  VictimOf(t) \in Alias
<1>1. CASE t \in Timer
  BY <1>1, TaskFacts DEF Shape, TimerShape, Object, VictimOf, TypeOK, TimerPc, UnloadPc
<1>2. CASE t \in Request
  BY <1>2, TaskFacts, WhereFacts
     DEF Shape, RequestShape, Evicting, VictimOf, UnloadPc
<1>. QED BY <1>1, <1>2 DEF Task

\* Only an idle task that owns no lock can be stopped.
LEMMA StoppableFacts ==
    ASSUME TypeOK, NEW o \in Request
    PROVE  /\ Stoppable(o) \in Timer \cup {None}
           /\ Stoppable(o) # None =>
                 pc[Stoppable(o)] \in {"asleep", "due", "unloadWait"}
BY DEF Stoppable, TypeOK

\* What schedule_idle_unload does to the tasks.
LEMMA ScheduleIdleFacts ==
    ASSUME TypeOK, NEW o \in Request, NEW keep, NEW t \in Request,
           NEW to \in RequestPc, ScheduleIdle(o, keep, t, to)
    PROVE  /\ pc' \in [Task -> RequestPc \cup TimerPc]
           /\ pc'[t] = to
           /\ \A r \in Request \ {t} : pc'[r] = pc[r]
           /\ \A u \in Timer :
                 /\ pc'[u] \in TimerPc
                 /\ pc'[u] # pc[u] => pc[u] # "unloading" /\ pc'[u] # "unloading"
                 /\ pc[u] = "unloading" => timerOf'[u] = timerOf[u]
                 /\ pc'[u] # "free" =>
                       timerOf'[u] = o \/ (pc[u] # "free" /\ timerOf'[u] = timerOf[u])
           /\ timerOf' \in [Timer -> Request \cup {None}]
           /\ idleTask' \in [Request -> Timer \cup {None}]
           /\ fresh' \in [Request -> BOOLEAN]
<1>. DEFINE old == Stoppable(o)
            new == NewTimer(o, keep)
<1>1. /\ old \in Timer \cup {None}
      /\ old # None => pc[old] \in {"asleep", "due", "unloadWait"}
  BY StoppableFacts
<1>2. /\ new \in Timer \cup {None}
      /\ new # None => pc[new] \in {"free", "asleep", "due", "unloadWait"}
  BY <1>1 DEF ScheduleIdle, NewTimer, WithinTimers
<1>. HIDE DEF old, new
<1>3. /\ pc' = [x \in Task |->
                   IF x = t THEN to
                   ELSE IF x = new THEN IF keep = "now" THEN "due" ELSE "asleep"
                   ELSE IF x = old THEN "free" ELSE pc[x]]
      /\ timerOf' = [u \in Timer |-> IF u = new THEN o
                                     ELSE IF u = old THEN None ELSE timerOf[u]]
      /\ idleTask' = [idleTask EXCEPT ![o] = new]
      /\ fresh' = [fresh EXCEPT ![o] = FALSE]
  BY DEF ScheduleIdle, old, new
<1>. QED BY <1>1, <1>2, <1>3, TaskFacts DEF TypeOK, RequestPc, TimerPc, Task

\* What a return from unload() does to the tasks.
LEMMA UnloadReturnsFacts ==
    ASSUME TypeOK, NEW t \in Task, UnloadReturns(t)
    PROVE  /\ pc' = [pc EXCEPT ![t] = ReturnPc(t)]
           /\ ReturnPc(t) \in IF t \in Timer THEN {"free"} ELSE {"done", "evict"}
           /\ pc' \in [Task -> RequestPc \cup TimerPc]
           /\ \A r \in Request : pc'[r] \in RequestPc
           /\ \A u \in Timer : pc'[u] \in TimerPc
           /\ outcome' \in [Request -> Outcome \cup {None}]
           /\ timerOf' \in [Timer -> Request \cup {None}]
           /\ \A u \in Timer \ {t} : timerOf'[u] = timerOf[u]
           /\ idleTask' \in [Request -> Timer \cup {None}]
           /\ victim' \in [Request -> Alias \cup {None}]
           /\ \A x \in Request \ {t} : victim'[x] = victim[x]
<1>1. ReturnPc(t) \in IF t \in Timer THEN {"free"} ELSE {"done", "evict"}
  BY DEF ReturnPc
<1>. QED BY <1>1, TaskFacts
         DEF UnloadReturns, Goto, TypeOK, Outcome, RequestPc, TimerPc, Task

\* What the start of backend.unload does to the tasks.
LEMMA UnloadBeginsFacts ==
    ASSUME TypeOK, Shape, NEW t \in Task, NEW v \in Alias,
           NEW lk \in LockType(Task), UnloadBegins(t, v, lk)
    PROVE  /\ models[v] \in Request
           /\ pc' \in [Task -> RequestPc \cup TimerPc]
           /\ pc'[t] = "unloading"
           /\ \A r \in Request \ {t} : pc'[r] = pc[r]
           /\ \A u \in Timer :
                 /\ pc'[u] \in TimerPc
                 /\ u # t /\ pc'[u] # pc[u] => pc[u] # "unloading" /\ pc'[u] # "unloading"
                 /\ pc'[u] # "free" => timerOf'[u] = timerOf[u] /\ (u # t => pc[u] # "free")
           /\ timerOf' \in [Timer -> Request \cup {None}]
           /\ idleTask' \in [Request -> Timer \cup {None}]
           /\ handle' \in [Request -> {"live", "dead", None}]
           /\ lock' \in [Lock -> LockType(Task)]
           /\ lock'[v].owner = lk.owner
           /\ \A l \in Lock \ {v} : lock'[l] = lock[l]
<1>. DEFINE o == models[v]
            old == IF Stoppable(o) = t THEN None ELSE Stoppable(o)
<1>1. o \in Request
  BY DEF UnloadBegins, TypeOK
<1>2. /\ old \in Timer \cup {None}
      /\ old # None => pc[old] \in {"asleep", "due", "unloadWait"}
      /\ old # t
  BY <1>1, StoppableFacts, TaskFacts DEF Task
<1>3. /\ Abandon(lk, old) \in LockType(Task)
      /\ Abandon(lk, old).owner = lk.owner
  BY AbandonFacts
<1>. HIDE DEF o, old
<1>4. /\ lock' = [lock EXCEPT ![v] = Abandon(lk, old)]
      /\ pc' = [x \in Task |-> IF x = t THEN "unloading"
                               ELSE IF x = old THEN "free" ELSE pc[x]]
      /\ timerOf' = [u \in Timer |-> IF u = old THEN None ELSE timerOf[u]]
      /\ idleTask' = [idleTask EXCEPT ![o] = None]
      /\ handle' = [handle EXCEPT ![o] = "dead"]
  BY DEF UnloadBegins, o, old
<1>5. o = models[v]
  BY DEF o
<1>6. /\ pc' \in [Task -> RequestPc \cup TimerPc]
      /\ pc'[t] = "unloading"
      /\ \A r \in Request \ {t} : pc'[r] = pc[r]
      /\ \A u \in Timer :
            /\ pc'[u] \in TimerPc
            /\ u # t /\ pc'[u] # pc[u] => pc[u] # "unloading" /\ pc'[u] # "unloading"
            /\ pc'[u] # "free" => timerOf'[u] = timerOf[u] /\ (u # t => pc[u] # "free")
  BY <1>2, <1>4, TaskFacts DEF TypeOK, RequestPc, TimerPc, Task
<1>7. /\ timerOf' \in [Timer -> Request \cup {None}]
      /\ idleTask' \in [Request -> Timer \cup {None}]
      /\ handle' \in [Request -> {"live", "dead", None}]
  BY <1>1, <1>2, <1>4 DEF TypeOK
<1>8. /\ lock' \in [Lock -> LockType(Task)]
      /\ lock'[v].owner = lk.owner
      /\ \A l \in Lock \ {v} : lock'[l] = lock[l]
  BY <1>3, <1>4, TaskFacts DEF TypeOK
<1>. QED BY <1>1, <1>5, <1>6, <1>7, <1>8

\* The shape of the state after a step of task t: only what t did matters.
LEMMA ShapeFrame ==
    ASSUME Shape, NEW t \in Task, UNCHANGED req,
           \A x \in Request \ {t} :
              /\ pc'[x] = pc[x] /\ victim'[x] = victim[x]
              /\ todo'[x] = todo[x] /\ loaded'[x] = loaded[x],
           t \in Request => pc'[t] # "new" /\ RequestShape(t)',
           \A u \in Timer : pc'[u] # "free" => Object(timerOf'[u]),
           \A a \in Alias : models'[a] # None =>
              Object(models'[a]) /\ AliasOf(models'[a]) = a
    PROVE  Shape'
<1>1. \A o : Object(o) => Object(o)' /\ AliasOf(o)' = AliasOf(o)
  BY DEF Object, AliasOf, RoleOf
<1>2. \A x \in Request \ {t} : RequestShape(x)'
  BY <1>1 DEF Shape, RequestShape, Evicting, AliasOf
<1>3. \A u \in Timer : TimerShape(u)'
  BY <1>1 DEF TimerShape
<1>4. \A a \in Alias : ModelShape(a)'
  BY <1>1 DEF ModelShape
<1>. QED BY <1>2, <1>3, <1>4 DEF Shape

-----------------------------------------------------------------------------
(* The steps, one lemma per action *)

\* A request arrives; no task, lock or model is touched.
LEMMA ArrivesTypes ==
    ASSUME TypeOK, Shape, NEW r \in Request,
           NEW op \in Op, NEW a \in Alias \cup {None}, NEW role \in Role \cup {None},
           NEW i \in Id \cup {None}, NEW keep \in KeepAliveClass \cup {None},
           NEW to \in {"done", "announce", "load", "unload"},
           op # "cancel" => a \in Alias, op \in LoadOp => role \in Role,
           op = "chat" => i \in Id,
           to \in LoadPc => op \in LoadOp, to = "unload" => op = "unload",
           Arrives(r, op, a, role, i, keep), Goto(r, to),
           outcome' \in [Request -> Outcome \cup {None}],
           cancelTab' \in [Id -> Request \cup {None}], stop' \in SUBSET Request
    PROVE  TypeOK' /\ Shape'
<1>. DEFINE new == [op |-> op, alias |-> a, role |-> role, id |-> i, keep |-> keep]
<1>1. /\ pc[r] = "new"
      /\ pc' = [pc EXCEPT ![r] = to]
      /\ req' = [req EXCEPT ![r] = new]
      /\ UNCHANGED <<loaded, lock, models, since, handle, idleTask, fresh, timerOf,
                     victim, todo, worker>>
  BY DEF Arrives, Goto, modelVars, idleVars
<1>2. /\ pc'[r] = to /\ req'[r] = new
      /\ \A x \in Task \ {r} : pc'[x] = pc[x]
      /\ \A x \in Request \ {r} : req'[x] = req[x]
  BY <1>1, TaskFacts DEF TypeOK
<1>3. TypeOK'
  BY <1>1, TaskFacts DEF TypeOK, RequestPc, TimerPc
<1>4. \A o : Object(o) => Object(o)' /\ AliasOf(o)' = AliasOf(o)
  BY <1>1, <1>2, TaskFacts DEF Object, AliasOf, RoleOf
<1>5. RequestShape(r)'
  BY <1>2 DEF RequestShape, Evicting, LoadPc, UsePc, UnloadPc, LoadOp
<1>6. \A x \in Request \ {r} : RequestShape(x)'
  BY <1>1, <1>2, <1>4, TaskFacts DEF Shape, RequestShape, Evicting, AliasOf
<1>7. \A u \in Timer : TimerShape(u)'
  BY <1>1, <1>2, <1>4, TaskFacts DEF Shape, TimerShape
<1>8. \A b \in Alias : ModelShape(b)'
  BY <1>1, <1>4 DEF Shape, ModelShape
<1>. QED BY <1>3, <1>5, <1>6, <1>7, <1>8 DEF Shape

\* A request that arrives keeps types and shape, whatever it asks for.
LEMMA ArrivalTypes ==
    ASSUME TypeOK, Shape, NEW r \in Request, Arrival(r)
    PROVE  TypeOK' /\ Shape'
<1>. USE DEF Op, Role, LoadOp, LoadPc, Finish, Outcome, stopVars
<1>1. ASSUME NEW a \in Alias, NEW i \in Id, NEW k \in KeepAlive,
             ChatConflict(r, a, i, k) \/ ChatUnknown(r, a, i, k)
      PROVE  TypeOK' /\ Shape'
  <2>1. /\ Arrives(r, "chat", a, "chat", i, k) /\ Goto(r, "done")
        /\ outcome' \in [Request -> Outcome \cup {None}]
        /\ UNCHANGED stopVars
    BY <1>1 DEF ChatConflict, ChatUnknown, TypeOK
  <2>. QED BY <2>1, ArrivesTypes, Assumptions DEF TypeOK
<1>2. ASSUME NEW a \in Alias, NEW i \in Id, NEW k \in KeepAlive,
             ChatAccepted(r, a, i, k)
      PROVE  TypeOK' /\ Shape'
  <2>. DEFINE to == IF models[a] = None THEN "announce" ELSE "load"
  <2>1. /\ Arrives(r, "chat", a, "chat", i, k) /\ Goto(r, to)
        /\ cancelTab' \in [Id -> Request \cup {None}]
        /\ outcome' \in [Request -> Outcome \cup {None}]
        /\ stop' \in SUBSET Request
    BY <1>2 DEF ChatAccepted, TypeOK
  <2>2. to \in {"announce", "load"} /\ k \in KeepAliveClass
    BY Assumptions
  <2>. HIDE DEF to
  <2>. QED BY <2>1, <2>2, ArrivesTypes
<1>3. ASSUME NEW a \in Alias, EmbedArrives(r, a)
      PROVE  TypeOK' /\ Shape'
  <2>. DEFINE to == IF "embed" \in RolesOf[a] THEN "load" ELSE "done"
  <2>1. /\ Arrives(r, "embed", a, "embed", None, None) /\ Goto(r, to)
        /\ outcome' \in [Request -> Outcome \cup {None}]
        /\ UNCHANGED stopVars
    BY <1>3 DEF EmbedArrives, TypeOK
  <2>2. to \in {"done", "load"}
    OBVIOUS
  <2>. HIDE DEF to
  <2>. QED BY <2>1, <2>2, ArrivesTypes DEF TypeOK
<1>4. ASSUME NEW a \in Alias, UnloadArrives(r, a)
      PROVE  TypeOK' /\ Shape'
  BY <1>4, ArrivesTypes DEF UnloadArrives, TypeOK
<1>5. ASSUME NEW a \in Alias, NEW role \in Role, LoadArrives(r, a, role)
      PROVE  TypeOK' /\ Shape'
  BY <1>5, ArrivesTypes DEF LoadArrives, TypeOK
<1>6. ASSUME NEW i \in Id, CancelArrives(r, i)
      PROVE  TypeOK' /\ Shape'
  <2>1. /\ Arrives(r, "cancel", None, None, i, None) /\ Goto(r, "done")
        /\ outcome' \in [Request -> Outcome \cup {None}]
        /\ UNCHANGED cancelTab
    BY <1>6 DEF CancelArrives, TypeOK
  <2>2. stop' \in SUBSET Request
    <3>1. CASE cancelTab[i] = None
      BY <1>6, <3>1 DEF CancelArrives, TypeOK
    <3>2. CASE cancelTab[i] # None
      <4>1. cancelTab[i] \in Request /\ stop' = stop \cup {cancelTab[i]}
        BY <1>6, <3>2 DEF CancelArrives, TypeOK
      <4>. QED BY <4>1 DEF TypeOK
    <3>. QED BY <3>1, <3>2
  <2>. QED BY <2>1, <2>2, ArrivesTypes DEF TypeOK
<1>. QED BY <1>1, <1>2, <1>3, <1>4, <1>5, <1>6 DEF Arrival

\* A step of a request that moves only its own handler to a place where no
\* operation is excluded, and keeps or drops models.
LEMMA MoveTypes ==
    ASSUME TypeOK, Shape, NEW r \in Request, NEW to \in RequestPc, Goto(r, to),
           pc[r] # "new", to \notin {"new"} \cup UsePc \cup UnloadPc \cup {"unload", "evict"},
           to \in LoadPc => req[r].op \in LoadOp,
           UNCHANGED <<req, timerOf>>,
           \A x \in Request \ {r} : /\ victim'[x] = victim[x] /\ todo'[x] = todo[x]
                                    /\ loaded'[x] = loaded[x],
           \A a \in Alias : models'[a] \in {None, models[a]}
    PROVE  Shape'
<1>1. /\ pc'[r] = to
      /\ \A x \in Task \ {r} : pc'[x] = pc[x]
  BY TaskFacts DEF Goto, TypeOK
<1>2. RequestShape(r)'
  BY <1>1 DEF Shape, RequestShape, Evicting, UsePc, UnloadPc
<1>3. \A u \in Timer : pc'[u] # "free" => Object(timerOf'[u])
  BY <1>1, TaskFacts DEF Shape, TimerShape
<1>4. \A a \in Alias : models'[a] # None =>
         Object(models'[a]) /\ AliasOf(models'[a]) = a
  BY DEF Shape, ModelShape
<1>. QED BY <1>1, <1>2, <1>3, <1>4, ShapeFrame, TaskFacts

\* The loading event, written or not, keeps types and shape.
LEMMA AnnouncedTypes ==
    ASSUME TypeOK, Shape, NEW r \in Request, Announced(r) \/ AnnounceFails(r)
    PROVE  TypeOK' /\ Shape'
<1>. DEFINE to == IF Announced(r) /\ req[r].role \in RolesOf[req[r].alias]
                  THEN "load" ELSE "done"
<1>1. /\ pc[r] = "announce" /\ to \in {"load", "done"}
      /\ Goto(r, to)
      /\ outcome' \in [Request -> Outcome \cup {None}]
      /\ cancelTab' \in [Id -> Request \cup {None}]
      /\ UNCHANGED <<req, loaded, lock, models, since, handle, idleTask, fresh,
                     timerOf, stop, victim, todo, worker>>
  <2>1. CASE Announced(r)
    BY <2>1 DEF Announced, Finish, Outcome, TypeOK, modelVars, idleVars, stopVars
  <2>2. CASE ~Announced(r) /\ AnnounceFails(r)
    BY <2>2 DEF AnnounceFails, Finish, Outcome, TypeOK, modelVars, idleVars, Cleared
  <2>. QED BY <2>1, <2>2
<1>. HIDE DEF to
<1>2. TypeOK'
  BY <1>1, TaskFacts DEF TypeOK, Goto, RequestPc, TimerPc
<1>3. req[r].op \in LoadOp
  BY <1>1, WhereFacts DEF LoadPc
<1>. QED BY <1>1, <1>2, <1>3, MoveTypes DEF RequestPc, UsePc, UnloadPc
\* The lock operations of task t stay within the type of locks.
LEMMA LockTypes ==
    ASSUME TypeOK, NEW t \in Task, NEW l \in Lock
    PROVE  /\ lock[l] \in LockType(Task)
           /\ Acquire(lock[l], t) \in LockType(Task)
           /\ Release(lock[l]) \in LockType(Task)
           /\ Woken(lock[l], t) => /\ Take(lock[l], t) \in LockType(Task)
                                   /\ Pass(lock[l]) \in LockType(Task)
<1>1. lock[l] \in LockType(Task)
  BY DEF TypeOK
<1>. QED BY <1>1, AcquireFacts, ReleaseFacts, WokenFacts

\* load() of a resident alias keeps types and shape.
LEMMA LoadHitTypes ==
    ASSUME TypeOK, Shape, NEW r \in Request, NEW lkFree \in LockType(Task),
           pc[r] \in {"load", "lockWait"}, LoadHit(r, lkFree)
    PROVE  TypeOK' /\ Shape'
<1>. DEFINE a == AliasOf(r)
            o == models[a]
            lk == Abandon(lkFree, Stoppable(o))
            to == AfterLoad(r, lk)
<1>1. a \in Alias /\ RoleOf(r) \in Role /\ req[r].op \in LoadOp
  BY WhereFacts DEF LoadPc
<1>2. o \in Request /\ Object(o) /\ AliasOf(o) = a
  BY <1>1 DEF LoadHit, TypeOK, Shape, ModelShape
<1>3. lk \in LockType(Task) /\ Acquire(lk, r) \in LockType(Task)
  BY AbandonFacts, AcquireFacts, TaskFacts
<1>4. to \in RequestPc /\ to \in {"done", "held", "useWait"}
      /\ (to # "done" => req[r].op \in {"chat", "embed"})
  BY <1>1 DEF AfterLoad, LoadOp, RequestPc
<1>5. /\ ScheduleIdle(o, "delay", r, to)
      /\ lock' = [lock EXCEPT ![a] = IF req[r].op = "load" THEN lk ELSE Acquire(lk, r)]
      /\ loaded' = [loaded EXCEPT ![r] = IF req[r].op = "load" THEN None ELSE o]
      /\ outcome' = [outcome EXCEPT ![r] = IF req[r].op = "load" THEN "ok" ELSE @]
      /\ since' = Touched(a)
      /\ UNCHANGED <<req, models, handle, cancelTab, stop, victim, todo, worker>>
  BY DEF LoadHit, LoadReturns, stopVars
<1>. HIDE DEF to, lk, o, a
<1>6. /\ pc' \in [Task -> RequestPc \cup TimerPc]
      /\ pc'[r] = to
      /\ \A x \in Request \ {r} : pc'[x] = pc[x]
      /\ \A u \in Timer :
            /\ pc'[u] \in TimerPc
            /\ pc'[u] # "free" =>
                  timerOf'[u] = o \/ (pc[u] # "free" /\ timerOf'[u] = timerOf[u])
      /\ timerOf' \in [Timer -> Request \cup {None}]
      /\ idleTask' \in [Request -> Timer \cup {None}]
      /\ fresh' \in [Request -> BOOLEAN]
  BY <1>2, <1>4, <1>5, ScheduleIdleFacts
<1>7. TypeOK'
  <2>1. since' \in [Alias -> SUBSET Alias]
    BY <1>1, <1>5 DEF Touched, TypeOK
  <2>2. lock' \in [Lock -> LockType(Task)]
    BY <1>1, <1>3, <1>5 DEF TypeOK
  <2>3. outcome' \in [Request -> Outcome \cup {None}]
        /\ loaded' \in [Request -> Request \cup {None}]
    BY <1>2, <1>5 DEF TypeOK, Outcome
  <2>. QED BY <1>4, <1>5, <1>6, <2>1, <2>2, <2>3 DEF TypeOK
<1>8. RequestShape(r)'
  BY <1>1, <1>2, <1>4, <1>5, <1>6
     DEF Shape, RequestShape, Evicting, Object, AliasOf, RoleOf, TypeOK,
         LoadPc, UsePc, UnloadPc, a
<1>9. \A u \in Timer : pc'[u] # "free" => Object(timerOf'[u])
  BY <1>2, <1>6 DEF Shape, TimerShape
<1>10. \A b \in Alias : models'[b] # None => Object(models'[b]) /\ AliasOf(models'[b]) = b
  BY <1>5 DEF Shape, ModelShape
<1>. QED
  <2>. \A x \in Request \ {r} : loaded'[x] = loaded[x]
    BY <1>5 DEF TypeOK
  <2>. QED BY <1>4, <1>5, <1>6, <1>7, <1>8, <1>9, <1>10, ShapeFrame, TaskFacts

\* load() that goes on to the load gate keeps types and shape.
LEMMA LoadMissTypes ==
    ASSUME TypeOK, Shape, NEW r \in Request, NEW lkHeld \in LockType(Task),
           pc[r] \in {"load", "lockWait"}, LoadMiss(r, lkHeld)
    PROVE  TypeOK' /\ Shape'
<1>. DEFINE to == IF Uncontended(lock[Gate]) THEN "check" ELSE "gateWait"
<1>1. to \in RequestPc /\ to \in {"check", "gateWait"}
  BY DEF RequestPc
<1>2. /\ lock' = [lock EXCEPT ![AliasOf(r)] = lkHeld, ![Gate] = Acquire(@, r)]
      /\ Goto(r, to)
      /\ UNCHANGED <<req, loaded, outcome, models, since, handle, idleTask, fresh,
                     timerOf, cancelTab, stop, victim, todo, worker>>
  BY DEF LoadMiss, reqVars, modelVars, idleVars, stopVars
<1>. HIDE DEF to
<1>3. lock' \in [Lock -> LockType(Task)]
  BY <1>2, LockTypes, TaskFacts DEF TypeOK
<1>4. TypeOK'
  BY <1>1, <1>2, <1>3, TaskFacts DEF TypeOK, Goto
<1>5. req[r].op \in LoadOp
  BY WhereFacts DEF LoadPc
<1>. QED BY <1>1, <1>2, <1>4, <1>5, MoveTypes DEF UsePc, UnloadPc

\* load() up to its first suspension keeps types and shape.
LEMMA LoadStartTypes ==
    ASSUME TypeOK, Shape, NEW r \in Request, LoadStart(r)
    PROVE  TypeOK' /\ Shape'
<1>. DEFINE a == AliasOf(r)
<1>1. a \in Alias /\ a \in Lock /\ req[r].op \in LoadOp /\ pc[r] = "load"
  BY WhereFacts, TaskFacts DEF LoadStart, LoadPc
<1>2. CASE LoadHit(r, lock[a])
  BY <1>1, <1>2, LoadHitTypes, LockTypes, TaskFacts
<1>3. CASE LoadMiss(r, Acquire(lock[a], r))
  BY <1>1, <1>3, LoadMissTypes, LockTypes, TaskFacts
<1>4. CASE /\ lock' = [lock EXCEPT ![a] = Acquire(lock[a], r)]
           /\ Goto(r, "lockWait")
           /\ UNCHANGED <<req, loaded, outcome, models, since, handle, idleTask,
                          fresh, timerOf, cancelTab, stop, victim, todo, worker>>
  <2>1. lock' \in [Lock -> LockType(Task)]
    BY <1>1, <1>4, LockTypes, TaskFacts DEF TypeOK
  <2>2. TypeOK'
    BY <1>4, <2>1, TaskFacts DEF TypeOK, Goto, RequestPc
  <2>. QED BY <1>1, <1>4, <2>2, MoveTypes DEF UsePc, UnloadPc, RequestPc
<1>. QED BY <1>2, <1>3, <1>4 DEF LoadStart, reqVars, modelVars, idleVars, stopVars

\* load() that gets the alias lock keeps types and shape.
LEMMA LoadWokenTypes ==
    ASSUME TypeOK, Shape, NEW r \in Request, LoadWoken(r)
    PROVE  TypeOK' /\ Shape'
<1>1. /\ AliasOf(r) \in Lock /\ pc[r] = "lockWait" /\ Woken(lock[AliasOf(r)], r)
  BY WhereFacts, TaskFacts DEF LoadWoken, LoadPc
<1>2. CASE LoadHit(r, Pass(lock[AliasOf(r)]))
  BY <1>1, <1>2, LoadHitTypes, LockTypes, TaskFacts
<1>3. CASE LoadMiss(r, Take(lock[AliasOf(r)], r))
  BY <1>1, <1>3, LoadMissTypes, LockTypes, TaskFacts
<1>. QED BY <1>2, <1>3 DEF LoadWoken

\* load() that gets the load gate keeps types and shape.
LEMMA GateWokenTypes ==
    ASSUME TypeOK, Shape, NEW r \in Request, GateWoken(r)
    PROVE  TypeOK' /\ Shape'
<1>1. /\ pc[r] = "gateWait" /\ Goto(r, "check") /\ Woken(lock[Gate], r)
      /\ lock' = [lock EXCEPT ![Gate] = Take(@, r)]
      /\ UNCHANGED <<req, loaded, outcome, models, since, handle, idleTask, fresh,
                     timerOf, cancelTab, stop, victim, todo, worker>>
  BY DEF GateWoken, reqVars, modelVars, idleVars, stopVars
<1>2. lock' \in [Lock -> LockType(Task)]
  BY <1>1, LockTypes, TaskFacts DEF TypeOK
<1>3. TypeOK'
  BY <1>1, <1>2, TaskFacts DEF TypeOK, Goto, RequestPc
<1>4. req[r].op \in LoadOp
  BY <1>1, WhereFacts DEF LoadPc
<1>. QED BY <1>1, <1>3, <1>4, MoveTypes DEF UsePc, UnloadPc, RequestPc

\* A load() that ends with an exception, with or without a model it unloaded.
LEMMA LoadAbortsTypes ==
    ASSUME TypeOK, Shape, NEW r \in Request, NEW how \in Outcome, NEW extra,
           pc[r] # "new", LoadAborts(r, how, extra),
           models' \in [Alias -> Request \cup {None}],
           \A a \in Alias : models'[a] \in {None, models[a]},
           since' \in [Alias -> SUBSET Alias], UNCHANGED handle,
           victim' \in [Request -> Alias \cup {None}],
           todo' \in [Request -> SUBSET Alias],
           \A x \in Request \ {r} : victim'[x] = victim[x] /\ todo'[x] = todo[x]
    PROVE  TypeOK' /\ Shape'
<1>1. /\ Goto(r, "done")
      /\ outcome' = [outcome EXCEPT ![r] = how]
      /\ UNCHANGED <<req, loaded, idleTask, fresh, timerOf, stop, worker>>
  BY DEF LoadAborts, Finish, idleVars
<1>2. lock' \in [Lock -> LockType(Task)]
  BY LockTypes, TaskFacts DEF LoadAborts
<1>3. cancelTab' \in [Id -> Request \cup {None}]
  BY DEF LoadAborts, Cleared, TypeOK
<1>4. TypeOK'
  BY <1>1, <1>2, <1>3, TaskFacts DEF TypeOK, Goto, RequestPc
<1>. QED BY <1>1, <1>4, MoveTypes DEF UsePc, UnloadPc, LoadPc, RequestPc

\* A load() refused by the cap or failed by the backend keeps types and shape.
LEMMA LoadFailsTypes ==
    ASSUME TypeOK, Shape, NEW r \in Request, CapFull(r) \/ BackendLoadFails(r)
    PROVE  TypeOK' /\ Shape'
<1>1. /\ pc[r] \in {"check", "backend"}
      /\ \E how \in {"capacity", "error"} : LoadAborts(r, how, {})
      /\ UNCHANGED <<models, since, handle, victim, todo>>
  BY DEF CapFull, BackendLoadFails, modelVars
<1>. QED BY <1>1, LoadAbortsTypes DEF Outcome, TypeOK

\* The insertion of a loaded model keeps types and shape.
LEMMA LoadInsertsTypes ==
    ASSUME TypeOK, Shape, NEW r \in Request, LoadInserts(r)
    PROVE  TypeOK' /\ Shape'
<1>. DEFINE a == AliasOf(r)
            lk == Release(lock[a])
            to == AfterLoad(r, lk)
<1>1. a \in Alias /\ RoleOf(r) \in Role /\ req[r].op \in LoadOp /\ pc[r] = "backend"
  BY WhereFacts DEF LoadInserts, LoadPc
<1>2. lk \in LockType(Task) /\ Acquire(lk, r) \in LockType(Task)
  BY <1>1, LockTypes, AcquireFacts, TaskFacts
<1>3. to \in RequestPc /\ to \in {"done", "held", "useWait"}
      /\ (to # "done" => req[r].op \in {"chat", "embed"})
  BY <1>1 DEF AfterLoad, LoadOp, RequestPc
<1>4. /\ ScheduleIdle(r, "delay", r, to)
      /\ models' = [models EXCEPT ![a] = r]
      /\ handle' = [handle EXCEPT ![r] = "live"]
      /\ since' = Touched(a)
      /\ lock' = [lock EXCEPT ![a] = IF req[r].op = "load" THEN lk ELSE Acquire(lk, r),
                              ![Gate] = Release(@)]
      /\ loaded' = [loaded EXCEPT ![r] = IF req[r].op = "load" THEN None ELSE r]
      /\ outcome' = [outcome EXCEPT ![r] = IF req[r].op = "load" THEN "ok" ELSE @]
      /\ UNCHANGED <<req, cancelTab, stop, victim, todo, worker>>
  BY DEF LoadInserts, stopVars
<1>. HIDE DEF to, lk, a
<1>5. /\ pc' \in [Task -> RequestPc \cup TimerPc]
      /\ pc'[r] = to
      /\ \A x \in Request \ {r} : pc'[x] = pc[x]
      /\ \A u \in Timer :
            /\ pc'[u] \in TimerPc
            /\ pc'[u] # "free" =>
                  timerOf'[u] = r \/ (pc[u] # "free" /\ timerOf'[u] = timerOf[u])
      /\ timerOf' \in [Timer -> Request \cup {None}]
      /\ idleTask' \in [Request -> Timer \cup {None}]
      /\ fresh' \in [Request -> BOOLEAN]
  BY <1>3, <1>4, ScheduleIdleFacts
<1>6. Object(r) /\ AliasOf(r) = a
  BY <1>1 DEF Object, a
<1>7. TypeOK'
  <2>1. since' \in [Alias -> SUBSET Alias]
    BY <1>1, <1>4 DEF Touched, TypeOK
  <2>2. lock' \in [Lock -> LockType(Task)]
    BY <1>1, <1>2, <1>4, LockTypes, TaskFacts DEF TypeOK
  <2>3. /\ outcome' \in [Request -> Outcome \cup {None}]
        /\ loaded' \in [Request -> Request \cup {None}]
        /\ models' \in [Alias -> Request \cup {None}]
        /\ handle' \in [Request -> {"live", "dead", None}]
    BY <1>4 DEF TypeOK, Outcome
  <2>. QED BY <1>3, <1>4, <1>5, <2>1, <2>2, <2>3 DEF TypeOK
<1>8. RequestShape(r)'
  BY <1>1, <1>3, <1>4, <1>5, <1>6
     DEF Shape, RequestShape, Evicting, Object, AliasOf, RoleOf, TypeOK,
         LoadPc, UsePc, UnloadPc
<1>9. \A u \in Timer : pc'[u] # "free" => Object(timerOf'[u])
  BY <1>5, <1>6 DEF Shape, TimerShape
<1>10. \A b \in Alias : models'[b] # None => Object(models'[b]) /\ AliasOf(models'[b]) = b
  BY <1>4, <1>6 DEF Shape, ModelShape, TypeOK
<1>. QED
  <2>. \A x \in Request \ {r} : loaded'[x] = loaded[x]
    BY <1>4 DEF TypeOK
  <2>. QED BY <1>3, <1>4, <1>5, <1>7, <1>8, <1>9, <1>10, ShapeFrame, TaskFacts

\* The places from which unload(v) is called, and by whom.
UnloadCall(t, v) ==
    \/ t \in Timer /\ pc[t] # "free" /\ v = VictimOf(t)
    \/ t \in Request /\ req[t].op = "unload" /\ pc[t] # "new" /\ v = req[t].alias
    \/ /\ t \in Request /\ req[t].op \in LoadOp /\ pc[t] # "new"
       /\ v # AliasOf(t) /\ AliasOf(t) \notin todo'[t]

\* t enters or leaves unload(v): the rest of the state keeps its shape.
LEMMA UnloadFrame ==
    ASSUME TypeOK, Shape, NEW t \in Task, NEW v \in Alias, UnloadCall(t, v),
           UNCHANGED <<req, loaded>>,
           \A x \in Request \ {t} : /\ pc'[x] = pc[x] /\ victim'[x] = victim[x]
                                    /\ todo'[x] = todo[x],
           \A u \in Timer : pc'[u] # "free" => pc[u] # "free" /\ timerOf'[u] = timerOf[u],
           \A a \in Alias : models'[a] \in {None, models[a]},
           t \in Request => \/ pc'[t] = "done"
                            \/ pc'[t] = "evict" /\ req[t].op \in LoadOp
                            \/ /\ pc'[t] \in UnloadPc
                               /\ victim'[t] = v \/ req[t].op = "unload"
    PROVE  Shape'
<1>1. t \in Request => pc'[t] # "new" /\ RequestShape(t)'
  <2>. SUFFICES ASSUME t \in Request PROVE pc'[t] # "new" /\ RequestShape(t)'
    OBVIOUS
  <2>1. pc[t] # "new" /\ RequestShape(t)
    BY TaskFacts DEF Shape, UnloadCall
  <2>2. CASE pc'[t] = "done"
    BY <2>1, <2>2 DEF RequestShape, Evicting, LoadPc, UsePc, UnloadPc
  <2>3. CASE pc'[t] = "evict" /\ req[t].op \in LoadOp
    BY <2>1, <2>3, TaskFacts DEF UnloadCall, RequestShape, Evicting, LoadPc, UsePc, UnloadPc,
       LoadOp, AliasOf
  <2>4. CASE pc'[t] \in UnloadPc /\ (victim'[t] = v \/ req[t].op = "unload")
    BY <2>1, <2>4, TaskFacts DEF UnloadCall, RequestShape, Evicting, LoadPc, UsePc, UnloadPc,
       LoadOp, AliasOf
  <2>. QED BY <2>2, <2>3, <2>4
<1>2. \A u \in Timer : pc'[u] # "free" => Object(timerOf'[u])
  BY DEF Shape, TimerShape
<1>3. \A a \in Alias : models'[a] # None => Object(models'[a]) /\ AliasOf(models'[a]) = a
  BY DEF Shape, ModelShape
<1>. QED BY <1>1, <1>2, <1>3, ShapeFrame

\* The types of what unload() touches.
UnloadTypes ==
    /\ pc' \in [Task -> RequestPc \cup TimerPc]
    /\ \A r \in Request : pc'[r] \in RequestPc
    /\ \A u \in Timer : pc'[u] \in TimerPc
    /\ outcome' \in [Request -> Outcome \cup {None}]
    /\ lock' \in [Lock -> LockType(Task)]
    /\ models' \in [Alias -> Request \cup {None}]
    /\ since' \in [Alias -> SUBSET Alias]
    /\ handle' \in [Request -> {"live", "dead", None}]
    /\ idleTask' \in [Request -> Timer \cup {None}]
    /\ timerOf' \in [Timer -> Request \cup {None}]
    /\ fresh' \in [Request -> BOOLEAN]
    /\ victim' \in [Request -> Alias \cup {None}]

\* unload() up to its first suspension keeps types and shape.
LEMMA UnloadEntersTypes ==
    ASSUME TypeOK, Shape, NEW t \in Task, NEW v \in Alias, UnloadCall(t, v),
           UnloadEnters(t, v), todo' \in [Request -> SUBSET Alias],
           \A x \in Request \ {t} : todo'[x] = todo[x]
    PROVE  TypeOK' /\ Shape'
<1>. v \in Lock
  BY TaskFacts
<1>1. UNCHANGED <<req, loaded, cancelTab, stop, worker, models, since>>
  BY DEF UnloadEnters, stopVars, modelVars, UnloadBegins
<1>2. CASE UnloadReturns(t) /\ UNCHANGED <<lock, models, since, handle, fresh>>
  <2>1. UnloadTypes
    BY <1>2, UnloadReturnsFacts DEF UnloadTypes, TypeOK
  <2>2. t \in Request => \/ pc'[t] = "done"
                         \/ pc'[t] = "evict" /\ req[t].op \in LoadOp
    <3>1. pc'[t] = ReturnPc(t)
      BY <1>2, UnloadReturnsFacts DEF TypeOK
    <3>. QED BY <3>1, TaskFacts DEF ReturnPc, UnloadCall
  <2>3. /\ \A x \in Task \ {t} : pc'[x] = pc[x]
        /\ t \in Timer => pc'[t] = "free"
        /\ \A x \in Request \ {t} : victim'[x] = victim[x]
        /\ \A u \in Timer \ {t} : timerOf'[u] = timerOf[u]
    BY <1>2, UnloadReturnsFacts, TaskFacts DEF TypeOK
  <2>4. Shape'
    BY <1>1, <2>2, <2>3, UnloadFrame, TaskFacts
  <2>. QED BY <1>1, <2>1, <2>4 DEF UnloadTypes, TypeOK
<1>3. CASE /\ Uncontended(lock[v])
           /\ UnloadBegins(t, v, Acquire(lock[v], t))
           /\ victim' = [x \in Request |-> IF x = t THEN v ELSE victim[x]]
  <2>1. UnloadTypes
    <3>1. /\ pc' \in [Task -> RequestPc \cup TimerPc] /\ pc'[t] = "unloading"
          /\ \A x \in Request \ {t} : pc'[x] = pc[x]
          /\ \A u \in Timer : pc'[u] \in TimerPc
          /\ lock' \in [Lock -> LockType(Task)]
          /\ handle' \in [Request -> {"live", "dead", None}]
          /\ idleTask' \in [Request -> Timer \cup {None}]
          /\ timerOf' \in [Timer -> Request \cup {None}]
      BY <1>3, UnloadBeginsFacts, LockTypes
    <3>2. UNCHANGED <<outcome, fresh>>
      BY <1>3 DEF UnloadBegins
    <3>. QED BY <1>1, <1>3, <3>1, <3>2 DEF UnloadTypes, TypeOK, RequestPc
  <2>2. /\ pc'[t] = "unloading" /\ (t \in Request => victim'[t] = v)
        /\ \A x \in Request \ {t} : pc'[x] = pc[x] /\ victim'[x] = victim[x]
        /\ \A u \in Timer : pc'[u] # "free" => timerOf'[u] = timerOf[u] /\ pc[u] # "free"
    BY <1>3, UnloadBeginsFacts, LockTypes, TaskFacts DEF UnloadCall
  <2>. QED BY <1>1, <2>1, <2>2, UnloadFrame DEF UnloadTypes, TypeOK, UnloadPc
<1>4. CASE /\ lock' = [lock EXCEPT ![v] = Acquire(@, t)]
           /\ Goto(t, "unloadWait")
           /\ victim' = [x \in Request |-> IF x = t THEN v ELSE victim[x]]
           /\ UNCHANGED <<outcome, models, since, handle, idleTask, fresh, timerOf>>
  <2>1. lock' \in [Lock -> LockType(Task)]
    BY <1>4, LockTypes DEF TypeOK
  <2>2. UnloadTypes
    BY <1>4, <2>1, TaskFacts DEF UnloadTypes, TypeOK, Goto, RequestPc, TimerPc
  <2>3. /\ pc'[t] = "unloadWait" /\ (t \in Request => victim'[t] = v)
        /\ \A x \in Task \ {t} : pc'[x] = pc[x]
        /\ \A x \in Request \ {t} : victim'[x] = victim[x]
        /\ t \in Timer => pc[t] # "free"
    BY <1>4, TaskFacts DEF Goto, TypeOK, UnloadCall
  <2>4. Shape'
    BY <1>1, <1>4, <2>3, UnloadFrame, TaskFacts DEF UnloadPc
  <2>. QED BY <1>1, <2>2, <2>4 DEF UnloadTypes, TypeOK
<1>. QED BY <1>2, <1>3, <1>4 DEF UnloadEnters, modelVars, idleVars

\* A model.unload request that starts keeps types and shape.
LEMMA UnloadStartTypes ==
    ASSUME TypeOK, Shape, NEW r \in Request, UnloadStart(r)
    PROVE  TypeOK' /\ Shape'
<1>1. /\ UnloadEnters(r, req[r].alias) /\ UNCHANGED todo /\ pc[r] = "unload"
  BY DEF UnloadStart
<1>2. req[r].op = "unload" /\ req[r].alias \in Alias
  BY <1>1, WhereFacts DEF Evicting, UnloadPc
<1>. QED BY <1>1, <1>2, UnloadEntersTypes, TaskFacts DEF UnloadCall, TypeOK

\* Making room never names the alias that is being loaded.
LEMMA EvictsTypes ==
    ASSUME TypeOK, Shape, NEW r \in Request, pc[r] \in {"check", "evict"},
           NEW vs \in SUBSET Alias, AliasOf(r) \notin vs, Evicts(r, vs)
    PROVE  TypeOK' /\ Shape'
<1>1. req[r].op \in LoadOp
  BY WhereFacts DEF LoadPc
<1>2. CASE vs = {}
  <2>1. /\ Goto(r, "backend")
        /\ UNCHANGED <<req, loaded, outcome, lock, models, since, handle, idleTask, fresh,
                       timerOf, cancelTab, stop, victim, todo, worker>>
    BY <1>2 DEF Evicts, reqVars, modelVars, idleVars, stopVars
  <2>2. TypeOK'
    BY <2>1, TaskFacts DEF TypeOK, Goto, RequestPc
  <2>. QED BY <1>1, <2>1, <2>2, MoveTypes DEF UsePc, UnloadPc, RequestPc
<1>3. CASE vs # {}
  <2>1. PICK v \in vs : /\ todo' = [todo EXCEPT ![r] = vs \ {v}]
                        /\ UnloadEnters(r, v)
    BY <1>3 DEF Evicts
  <2>2. /\ todo' \in [Request -> SUBSET Alias] /\ AliasOf(r) \notin todo'[r]
        /\ \A x \in Request \ {r} : todo'[x] = todo[x]
    BY <2>1 DEF TypeOK
  <2>. QED BY <1>1, <2>1, <2>2, UnloadEntersTypes, TaskFacts DEF UnloadCall
<1>. QED BY <1>2, <1>3

\* The cap check and the evictions that follow keep types and shape.
LEMMA CapCheckTypes ==
    ASSUME TypeOK, Shape, NEW r \in Request, CapCheck(r) \/ EvictNext(r)
    PROVE  TypeOK' /\ Shape'
<1>1. CASE CapCheck(r)
  <2>. DEFINE vs == IF Capped(r) THEN Victims(r) ELSE {}
  <2>1. vs \in SUBSET Alias /\ AliasOf(r) \notin vs
    BY DEF Victims, Evictable, Resident
  <2>2. pc[r] = "check" /\ Evicts(r, vs)
    BY <1>1 DEF CapCheck
  <2>. QED BY <2>1, <2>2, EvictsTypes
<1>2. CASE EvictNext(r)
  <2>1. todo[r] \in SUBSET Alias /\ AliasOf(r) \notin todo[r]
    BY <1>2 DEF EvictNext, Shape, RequestShape, TypeOK
  <2>. QED BY <1>2, <2>1, EvictsTypes DEF EvictNext
<1>. QED BY <1>1, <1>2

\* unload() that gets the alias lock keeps types and shape.
LEMMA UnloadWokenTypes ==
    ASSUME TypeOK, Shape, NEW t \in Task, UnloadWoken(t)
    PROVE  TypeOK' /\ Shape'
<1>. DEFINE v == VictimOf(t)
<1>1. /\ pc[t] = "unloadWait" /\ Woken(lock[v], t)
      /\ UNCHANGED <<req, loaded, cancelTab, stop, todo, worker, models, since>>
  BY DEF UnloadWoken, stopVars, modelVars, UnloadBegins
<1>2. v \in Alias /\ v \in Lock
  BY <1>1, VictimFacts, TaskFacts DEF UnloadPc
<1>3. UnloadCall(t, v)
  <2>1. CASE t \in Timer
    BY <1>1, <2>1 DEF UnloadCall
  <2>2. CASE t \in Request
    BY <1>1, <2>2, TaskFacts
       DEF UnloadCall, Shape, RequestShape, VictimOf, UnloadPc, Evicting, LoadOp
  <2>. QED BY <2>1, <2>2 DEF Task
<1>4. CASE /\ models[v] = None
           /\ lock' = [lock EXCEPT ![v] = Pass(@)]
           /\ UnloadReturns(t)
           /\ UNCHANGED <<models, since, handle, fresh>>
  <2>1. lock' \in [Lock -> LockType(Task)]
    BY <1>1, <1>2, <1>4, LockTypes DEF TypeOK
  <2>2. UnloadTypes
    BY <1>4, <2>1, UnloadReturnsFacts DEF UnloadTypes, TypeOK
  <2>3. t \in Request => \/ pc'[t] = "done"
                         \/ pc'[t] = "evict" /\ req[t].op \in LoadOp
    <3>1. pc'[t] = ReturnPc(t)
      BY <1>4, UnloadReturnsFacts DEF TypeOK
    <3>. QED BY <1>3, <3>1, TaskFacts DEF ReturnPc, UnloadCall
  <2>4. /\ \A x \in Task \ {t} : pc'[x] = pc[x]
        /\ t \in Timer => pc'[t] = "free"
        /\ \A x \in Request \ {t} : victim'[x] = victim[x]
        /\ \A u \in Timer \ {t} : timerOf'[u] = timerOf[u]
    BY <1>4, UnloadReturnsFacts, TaskFacts DEF TypeOK
  <2>5. Shape'
    BY <1>1, <1>2, <1>3, <2>3, <2>4, UnloadFrame, TaskFacts
  <2>. QED BY <1>1, <2>2, <2>5 DEF UnloadTypes, TypeOK
<1>5. CASE UnloadBegins(t, v, Take(lock[v], t)) /\ UNCHANGED victim
  <2>1. UnloadTypes
    <3>1. /\ pc' \in [Task -> RequestPc \cup TimerPc] /\ pc'[t] = "unloading"
          /\ \A x \in Request \ {t} : pc'[x] = pc[x]
          /\ \A u \in Timer : pc'[u] \in TimerPc
          /\ lock' \in [Lock -> LockType(Task)]
          /\ handle' \in [Request -> {"live", "dead", None}]
          /\ idleTask' \in [Request -> Timer \cup {None}]
          /\ timerOf' \in [Timer -> Request \cup {None}]
      BY <1>1, <1>2, <1>5, UnloadBeginsFacts, LockTypes
    <3>2. UNCHANGED <<outcome, fresh>>
      BY <1>5 DEF UnloadBegins
    <3>. QED BY <1>1, <1>5, <3>1, <3>2 DEF UnloadTypes, TypeOK, RequestPc
  <2>2. /\ pc'[t] = "unloading"
        /\ \A x \in Request \ {t} : pc'[x] = pc[x] /\ victim'[x] = victim[x]
        /\ \A u \in Timer : pc'[u] # "free" => timerOf'[u] = timerOf[u] /\ pc[u] # "free"
    BY <1>1, <1>2, <1>5, UnloadBeginsFacts, LockTypes
  <2>3. t \in Request /\ req[t].op # "unload" => victim'[t] = v
    BY <1>5, TaskFacts DEF VictimOf
  <2>4. Shape'
    BY <1>1, <1>2, <1>3, <2>2, <2>3, UnloadFrame DEF UnloadPc
  <2>. QED BY <1>1, <2>1, <2>4 DEF UnloadTypes, TypeOK
<1>. QED BY <1>4, <1>5 DEF UnloadWoken, modelVars

\* unload() that pops the model keeps types and shape.
LEMMA UnloadDoneTypes ==
    ASSUME TypeOK, Shape, NEW t \in Task, UnloadDone(t)
    PROVE  TypeOK' /\ Shape'
<1>. DEFINE v == VictimOf(t)
<1>1. /\ pc[t] = "unloading" /\ UnloadReturns(t)
      /\ models' = [models EXCEPT ![v] = None]
      /\ since' = Forgotten(v)
      /\ lock' = [lock EXCEPT ![v] = Release(@)]
      /\ UNCHANGED <<req, loaded, cancelTab, stop, handle, fresh, todo, worker>>
  BY DEF UnloadDone, stopVars
<1>2. v \in Alias /\ v \in Lock
  BY <1>1, VictimFacts, TaskFacts DEF UnloadPc
<1>3. UnloadCall(t, v)
  <2>1. CASE t \in Timer
    BY <1>1, <2>1 DEF UnloadCall
  <2>2. CASE t \in Request
    BY <1>1, <2>2, TaskFacts
       DEF UnloadCall, Shape, RequestShape, VictimOf, UnloadPc, Evicting, LoadOp
  <2>. QED BY <2>1, <2>2 DEF Task
<1>4. UnloadTypes
  <2>1. lock' \in [Lock -> LockType(Task)]
    BY <1>1, <1>2, LockTypes DEF TypeOK
  <2>2. /\ models' \in [Alias -> Request \cup {None}]
        /\ since' \in [Alias -> SUBSET Alias]
    BY <1>1, <1>2 DEF TypeOK, Forgotten
  <2>. QED BY <1>1, <2>1, <2>2, UnloadReturnsFacts DEF UnloadTypes, TypeOK
<1>5. t \in Request => \/ pc'[t] = "done"
                       \/ pc'[t] = "evict" /\ req[t].op \in LoadOp
  <2>1. pc'[t] = ReturnPc(t)
    BY <1>1, UnloadReturnsFacts DEF TypeOK
  <2>. QED BY <1>3, <2>1, TaskFacts DEF ReturnPc, UnloadCall
<1>6. /\ \A x \in Task \ {t} : pc'[x] = pc[x]
      /\ t \in Timer => pc'[t] = "free"
      /\ \A x \in Request \ {t} : victim'[x] = victim[x]
      /\ \A u \in Timer \ {t} : timerOf'[u] = timerOf[u]
      /\ \A a \in Alias : models'[a] \in {None, models[a]}
  BY <1>1, <1>2, UnloadReturnsFacts, TaskFacts DEF TypeOK
<1>7. Shape'
  BY <1>1, <1>2, <1>3, <1>5, <1>6, UnloadFrame, TaskFacts
<1>. QED BY <1>1, <1>4, <1>7 DEF UnloadTypes, TypeOK

\* A backend.unload that raises keeps types and shape.
LEMMA UnloadFailsTypes ==
    ASSUME TypeOK, Shape, NEW r \in Request, UnloadFails(r)
    PROVE  TypeOK' /\ Shape'
<1>. DEFINE v == VictimOf(r)
<1>1. /\ pc[r] = "unloading"
      /\ models' = [models EXCEPT ![v] = None]
      /\ since' = Forgotten(v)
      /\ victim' = [victim EXCEPT ![r] = None]
      /\ todo' = [todo EXCEPT ![r] = {}]
      /\ UNCHANGED handle
  BY DEF UnloadFails
<1>2. v \in Alias /\ v \in Lock
  BY <1>1, VictimFacts, TaskFacts DEF UnloadPc
<1>3. /\ models' \in [Alias -> Request \cup {None}]
      /\ \A a \in Alias : models'[a] \in {None, models[a]}
      /\ since' \in [Alias -> SUBSET Alias]
      /\ victim' \in [Request -> Alias \cup {None}]
      /\ todo' \in [Request -> SUBSET Alias]
      /\ \A x \in Request \ {r} : victim'[x] = victim[x] /\ todo'[x] = todo[x]
  BY <1>1, <1>2 DEF TypeOK, Forgotten
<1>4. CASE LoadAborts(r, "error", {v})
  BY <1>1, <1>3, <1>4, LoadAbortsTypes DEF Outcome
<1>5. CASE /\ lock' = [lock EXCEPT ![v] = Release(@)]
           /\ Goto(r, "done") /\ Finish(r, "error")
           /\ UNCHANGED <<req, loaded, cancelTab, stop, idleTask, fresh, timerOf, worker>>
  <2>1. lock' \in [Lock -> LockType(Task)]
    BY <1>2, <1>5, LockTypes, TaskFacts DEF TypeOK
  <2>2. TypeOK'
    BY <1>1, <1>3, <1>5, <2>1, TaskFacts DEF TypeOK, Goto, Finish, Outcome, RequestPc
  <2>. QED BY <1>1, <1>3, <1>5, <2>2, MoveTypes DEF UsePc, UnloadPc, LoadPc, RequestPc
<1>. QED BY <1>4, <1>5 DEF UnloadFails, stopVars, idleVars
-----------------------------------------------------------------------------

\* The last use of a resident object is recorded within its types.
LEMMA TouchedTypes ==
    ASSUME TypeOK, NEW o \in Request, AliasOf(o) \in Alias
    PROVE  TouchedObj(o) \in [Alias -> SUBSET Alias]
BY DEF TouchedObj, Touched, TypeOK

\* A handler that gets loaded.lock and starts to generate keeps types and shape.
LEMMA UseTypes ==
    ASSUME TypeOK, Shape, NEW r \in Request, UseWoken(r) \/ UseStarts(r)
    PROVE  TypeOK' /\ Shape'
<1>1. /\ pc[r] \in {"useWait", "held"}
      /\ \E to \in {"held", "using"} : Goto(r, to)
      /\ UNCHANGED <<req, loaded, outcome, models, handle, idleTask, timerOf, cancelTab,
                     stop, victim, todo>>
  BY DEF UseWoken, UseStarts, reqVars, modelVars, idleVars, stopVars
<1>2. AliasOf(r) \in Alias /\ AliasOf(r) \in Lock
  BY <1>1, WhereFacts, TaskFacts DEF UsePc
<1>3. lock' \in [Lock -> LockType(Task)]
  <2>1. CASE UseWoken(r)
    BY <1>2, <2>1, LockTypes, TaskFacts DEF UseWoken, TypeOK
  <2>2. CASE UseStarts(r)
    BY <2>2 DEF UseStarts, TypeOK
  <2>. QED BY <2>1, <2>2
<1>4. /\ since' \in [Alias -> SUBSET Alias]
      /\ fresh' \in [Request -> BOOLEAN]
      /\ worker' \in SUBSET Request
  <2>1. TouchedObj(loaded[r]) \in [Alias -> SUBSET Alias] /\ loaded[r] \in Request
    BY <1>1, TouchedTypes DEF Shape, RequestShape, UsePc, Object
  <2>2. CASE UseWoken(r)
    BY <2>2 DEF UseWoken, modelVars, idleVars, TypeOK
  <2>3. CASE UseStarts(r)
    BY <2>1, <2>3 DEF UseStarts, TypeOK
  <2>. QED BY <2>2, <2>3
<1>5. PICK to \in {"held", "using"} : Goto(r, to)
  BY <1>1
<1>6. TypeOK'
  BY <1>1, <1>3, <1>4, <1>5, TaskFacts DEF TypeOK, Goto, RequestPc
<1>7. /\ pc'[r] = to /\ \A x \in Task \ {r} : pc'[x] = pc[x]
  BY <1>5, TaskFacts DEF Goto, TypeOK
<1>8. RequestShape(r)'
  BY <1>1, <1>7, TaskFacts DEF Shape, RequestShape, Evicting, Object, AliasOf, RoleOf,
     LoadPc, UsePc, UnloadPc
<1>9. Shape'
  BY <1>1, <1>7, <1>8, ShapeFrame, TaskFacts DEF Shape, TimerShape, ModelShape
<1>. QED BY <1>6, <1>9

\* The finally block of a chat keeps types and shape.
LEMMA ChatEndsTypes ==
    ASSUME TypeOK, Shape, NEW r \in Request, NEW lk \in LockType(Task),
           pc[r] \in UsePc, req[r].op = "chat", ChatEnds(r, lk),
           UNCHANGED <<req, loaded, models, handle, stop, victim, todo>>,
           outcome' \in [Request -> Outcome \cup {None}],
           since' \in [Alias -> SUBSET Alias], worker' \in SUBSET Request
    PROVE  TypeOK' /\ Shape'
<1>. DEFINE o == loaded[r]
<1>1. Object(o) /\ o \in Request /\ AliasOf(r) \in Alias
  BY WhereFacts DEF Shape, RequestShape, UsePc, Object
<1>2. Abandon(lk, Stoppable(o)) \in LockType(Task)
  BY AbandonFacts
<1>3. /\ lock' = [lock EXCEPT ![AliasOf(r)] = Abandon(lk, Stoppable(o))]
      /\ cancelTab' = Cleared(r)
      /\ ScheduleIdle(o, req[r].keep, r, "done")
  BY DEF ChatEnds
<1>. HIDE DEF o
<1>4. /\ pc' \in [Task -> RequestPc \cup TimerPc]
      /\ pc'[r] = "done"
      /\ \A x \in Request \ {r} : pc'[x] = pc[x]
      /\ \A u \in Timer :
            /\ pc'[u] \in TimerPc
            /\ pc'[u] # "free" =>
                  timerOf'[u] = o \/ (pc[u] # "free" /\ timerOf'[u] = timerOf[u])
      /\ timerOf' \in [Timer -> Request \cup {None}]
      /\ idleTask' \in [Request -> Timer \cup {None}]
      /\ fresh' \in [Request -> BOOLEAN]
  BY <1>1, <1>3, ScheduleIdleFacts DEF RequestPc
<1>5. TypeOK'
  <2>1. lock' \in [Lock -> LockType(Task)]
    BY <1>1, <1>2, <1>3, TaskFacts DEF TypeOK
  <2>2. cancelTab' \in [Id -> Request \cup {None}]
    BY <1>3 DEF Cleared, TypeOK
  <2>. QED BY <1>4, <2>1, <2>2 DEF TypeOK, RequestPc
<1>6. RequestShape(r)'
  BY <1>4 DEF Shape, RequestShape, Evicting, LoadPc, UsePc, UnloadPc
<1>7. \A u \in Timer : pc'[u] # "free" => Object(timerOf'[u])
  BY <1>1, <1>4 DEF Shape, TimerShape
<1>8. \A a \in Alias : models'[a] # None => Object(models'[a]) /\ AliasOf(models'[a]) = a
  BY DEF Shape, ModelShape
<1>. QED BY <1>4, <1>5, <1>6, <1>7, <1>8, ShapeFrame, TaskFacts

\* A chat that fails under loaded.lock keeps types and shape.
LEMMA ChatErrsTypes ==
    ASSUME TypeOK, Shape, NEW r \in Request, ChatErrs(r)
    PROVE  TypeOK' /\ Shape'
<1>1. pc[r] \in UsePc /\ req[r].op = "chat"
  BY DEF ChatErrs, UsePc
<1>2. AliasOf(r) \in Lock /\ loaded[r] \in Request /\ AliasOf(loaded[r]) \in Alias
  BY <1>1, WhereFacts, TaskFacts DEF Shape, RequestShape, Object, UsePc
<1>3. Release(lock[AliasOf(r)]) \in LockType(Task)
  BY <1>2, LockTypes, TaskFacts
<1>4. /\ ChatEnds(r, Release(lock[AliasOf(r)]))
      /\ UNCHANGED <<req, loaded, models, handle, stop, victim, todo>>
      /\ outcome' \in [Request -> Outcome \cup {None}]
      /\ worker' \in SUBSET Request
  BY DEF ChatErrs, Finish, Outcome, TypeOK
<1>5. since' \in [Alias -> SUBSET Alias]
  BY <1>2, TouchedTypes DEF ChatErrs, TypeOK
<1>. QED BY <1>1, <1>3, <1>4, <1>5, ChatEndsTypes

\* A chat whose last event is out keeps types and shape.
LEMMA ChatRepliedTypes ==
    ASSUME TypeOK, Shape, NEW r \in Request, ChatReplied(r)
    PROVE  TypeOK' /\ Shape'
<1>1. /\ pc[r] = "ending" /\ ChatEnds(r, lock[AliasOf(r)])
      /\ UNCHANGED <<req, loaded, outcome, models, since, handle, stop, victim, todo, worker>>
  BY DEF ChatReplied, reqVars, modelVars
<1>2. req[r].op = "chat" /\ AliasOf(r) \in Lock
  BY <1>1, WhereFacts, TaskFacts DEF Shape, RequestShape, UsePc
<1>3. lock[AliasOf(r)] \in LockType(Task)
  BY <1>2, LockTypes, TaskFacts
<1>. QED BY <1>1, <1>2, <1>3, ChatEndsTypes DEF UsePc, TypeOK

\* The handler gives up the model: to a reply that is still ahead, or for good.
LEMMA ReleasesTypes ==
    ASSUME TypeOK, Shape, NEW r \in Request, NEW to \in {"ending", "done"},
           NEW how \in Outcome, pc[r] \in {"held", "using"}, Releases(r, to, how),
           to = "ending" => req[r].op = "chat",
           UNCHANGED <<req, loaded, models, handle, idleTask, timerOf, victim, todo>>,
           cancelTab' \in [Id -> Request \cup {None}], stop' \in SUBSET Request,
           since' \in [Alias -> SUBSET Alias], fresh' \in [Request -> BOOLEAN],
           worker' \in SUBSET Request
    PROVE  TypeOK' /\ Shape'
<1>1. AliasOf(r) \in Lock
  BY WhereFacts, TaskFacts DEF UsePc
<1>2. /\ lock' = [lock EXCEPT ![AliasOf(r)] = Release(@)]
      /\ pc' = [pc EXCEPT ![r] = to]
      /\ outcome' = [outcome EXCEPT ![r] = how]
  BY DEF Releases, Goto, Finish
<1>3. lock' \in [Lock -> LockType(Task)]
  BY <1>1, <1>2, LockTypes, TaskFacts DEF TypeOK
<1>4. TypeOK'
  BY <1>2, <1>3, TaskFacts DEF TypeOK, RequestPc
<1>5. /\ pc'[r] = to /\ \A x \in Task \ {r} : pc'[x] = pc[x]
  BY <1>2, TaskFacts DEF TypeOK
<1>6. RequestShape(r)'
  BY <1>5, TaskFacts DEF Shape, RequestShape, Evicting, Object, AliasOf, RoleOf,
     LoadPc, UsePc, UnloadPc
<1>7. Shape'
  BY <1>5, <1>6, ShapeFrame, TaskFacts DEF Shape, TimerShape, ModelShape
<1>. QED BY <1>4, <1>7

\* The end of a generation, by itself, by a cancel, an error or a lost
\* client, keeps types and shape.
LEMMA UseEndsTypes ==
    ASSUME TypeOK, Shape, NEW r \in Request,
           ChatStreamed(r) \/ ChatDropped(r) \/ EmbedEnds(r)
    PROVE  TypeOK' /\ Shape'
<1>1. /\ pc[r] \in {"held", "using"}
      /\ loaded[r] \in Request /\ AliasOf(loaded[r]) \in Alias
  <2>1. pc[r] \in {"held", "using"}
    BY DEF ChatStreamed, ChatDropped, EmbedEnds
  <2>. QED BY <2>1 DEF Shape, RequestShape, Object, UsePc
<1>2. TouchedObj(loaded[r]) \in [Alias -> SUBSET Alias]
  BY <1>1, TouchedTypes
<1>3. /\ UNCHANGED <<req, loaded, models, handle, idleTask, timerOf, victim, todo>>
      /\ cancelTab' \in [Id -> Request \cup {None}]
      /\ stop' \in SUBSET Request
      /\ since' \in [Alias -> SUBSET Alias]
      /\ fresh' \in [Request -> BOOLEAN]
      /\ worker' \in SUBSET Request
  <2>1. CASE ChatStreamed(r)
    BY <1>2, <2>1 DEF ChatStreamed, stopVars, TypeOK
  <2>2. CASE ChatDropped(r)
    BY <1>2, <2>2 DEF ChatDropped, Cleared, TypeOK
  <2>3. CASE EmbedEnds(r)
    BY <1>2, <2>3 DEF EmbedEnds, stopVars, TypeOK
  <2>. QED BY <2>1, <2>2, <2>3
<1>4. \E to \in {"ending", "done"}, how \in Outcome :
         Releases(r, to, how) /\ (to = "ending" => req[r].op = "chat")
  BY DEF ChatStreamed, ChatDropped, EmbedEnds, Outcome
<1>. QED BY <1>1, <1>3, <1>4, ReleasesTypes

\* A generation thread that exits keeps types and shape.
LEMMA WorkerExitsTypes ==
    ASSUME TypeOK, Shape, NEW r \in Request, WorkerExits(r)
    PROVE  TypeOK' /\ Shape'
<1>1. /\ worker' = worker \ {r}
      /\ UNCHANGED <<req, pc, loaded, outcome, lock, models, since, cancelTab, stop,
                     handle, idleTask, fresh, victim, todo, timerOf>>
  BY DEF WorkerExits, reqVars, modelVars, idleVars, stopVars
<1>2. TypeOK'
  BY <1>1 DEF TypeOK
<1>3. Shape'
  BY <1>1 DEF Shape, RequestShape, TimerShape, ModelShape, Evicting, Object, AliasOf, RoleOf
<1>. QED BY <1>2, <1>3

-----------------------------------------------------------------------------
(* Idle tasks, and the specification *)

\* Every step of an idle task keeps types and shape.
LEMMA TickTypes ==
    ASSUME TypeOK, Shape, NEW u \in Timer, Tick(u)
    PROVE  TypeOK' /\ Shape'
<1>1. CASE TimerDefers(u)
  <2>1. /\ fresh' = [fresh EXCEPT ![timerOf[u]] = FALSE]
        /\ UNCHANGED <<req, pc, loaded, outcome, lock, models, since, cancelTab, stop,
                       handle, idleTask, victim, todo, timerOf, worker>>
    BY <1>1 DEF TimerDefers, reqVars, modelVars, stopVars
  <2>2. TypeOK'
    BY <2>1 DEF TypeOK
  <2>3. Shape'
    BY <2>1 DEF Shape, RequestShape, TimerShape, ModelShape, Evicting, Object, AliasOf, RoleOf
  <2>. QED BY <2>2, <2>3
<1>2. CASE TimerSkips(u)
  <2>1. /\ Goto(u, "free")
        /\ timerOf' = [timerOf EXCEPT ![u] = None]
        /\ idleTask' = [idleTask EXCEPT ![timerOf[u]] = None]
        /\ UNCHANGED <<req, loaded, outcome, lock, models, since, cancelTab, stop,
                       handle, fresh, victim, todo, worker>>
    BY <1>2 DEF TimerSkips, reqVars, modelVars, stopVars
  <2>2. TypeOK'
    BY <2>1, TaskFacts DEF TypeOK, Goto, TimerPc
  <2>3. \A x \in Task : pc'[x] = IF x = u THEN "free" ELSE pc[x]
    BY <2>1, TaskFacts DEF Goto, TypeOK
  <2>4. /\ \A r \in Request : RequestShape(r)'
        /\ \A v \in Timer : TimerShape(v)'
        /\ \A a \in Alias : ModelShape(a)'
    BY <2>1, <2>3, TaskFacts DEF Shape, RequestShape, TimerShape, ModelShape, Evicting,
       Object, AliasOf, RoleOf, TypeOK
  <2>. QED BY <2>2, <2>4 DEF Shape
<1>3. CASE TimerUnloads(u)
  <2>1. /\ pc[u] # "free" /\ UnloadEnters(u, VictimOf(u)) /\ UNCHANGED todo
    BY <1>3 DEF TimerUnloads, VictimOf
  <2>2. u \in Task /\ VictimOf(u) \in Alias
    BY <2>1, VictimFacts, TaskFacts
  <2>3. UnloadCall(u, VictimOf(u)) /\ todo' \in [Request -> SUBSET Alias]
    BY <2>1 DEF UnloadCall, TypeOK
  <2>. QED BY <2>1, <2>2, <2>3, UnloadEntersTypes
<1>. QED BY <1>1, <1>2, <1>3, UnloadWokenTypes, UnloadDoneTypes, TaskFacts DEF Tick

\* The state the daemon starts in has its types and its shape.
LEMMA InitTypes == Init => TypeOK /\ Shape
<1>. SUFFICES ASSUME Init PROVE TypeOK /\ Shape
  OBVIOUS
<1>1. TypeOK
  BY TaskFacts DEF Init, TypeOK, NoReq, RequestPc, TimerPc, Task, LockType, Unlocked
<1>2. Shape
  BY TaskFacts DEF Init, Shape, RequestShape, TimerShape, ModelShape, Evicting, UnloadPc
<1>. QED BY <1>1, <1>2

\* Every step of the daemon keeps the types and the shape of its state.
LEMMA NextTypes == TypeOK /\ Shape /\ [Next]_vars => TypeOK' /\ Shape'
<1>. SUFFICES ASSUME TypeOK, Shape, [Next]_vars PROVE TypeOK' /\ Shape'
  OBVIOUS
<1>1. CASE UNCHANGED vars
  <2>1. TypeOK'
    BY <1>1 DEF vars, TypeOK
  <2>2. Shape'
    BY <1>1 DEF vars, Shape, RequestShape, TimerShape, ModelShape, Evicting, Object,
       AliasOf, RoleOf
  <2>. QED BY <2>1, <2>2
<1>2. ASSUME NEW r \in Request, Arrival(r) PROVE TypeOK' /\ Shape'
  BY <1>2, ArrivalTypes
<1>3. ASSUME NEW r \in Request, Serve(r) PROVE TypeOK' /\ Shape'
  BY <1>3, AnnouncedTypes, LoadStartTypes, LoadWokenTypes, GateWokenTypes, LoadFailsTypes,
     CapCheckTypes, LoadInsertsTypes, UnloadStartTypes, UnloadWokenTypes, UnloadDoneTypes,
     UseTypes, ChatErrsTypes, UseEndsTypes, ChatRepliedTypes, WorkerExitsTypes, TaskFacts
     DEF Serve
<1>4. ASSUME NEW r \in Request, Mishap(r) PROVE TypeOK' /\ Shape'
  BY <1>4, AnnouncedTypes, UseEndsTypes, LoadFailsTypes, UnloadFailsTypes DEF Mishap
<1>5. ASSUME NEW u \in Timer, Tick(u) PROVE TypeOK' /\ Shape'
  BY <1>5, TickTypes
<1>. QED BY <1>1, <1>2, <1>3, <1>4, <1>5 DEF Next, Terminated

\* The state of the daemon always has its types, and the shape the lock and
\* residency arguments start from: a handler is only where its operation can
\* be, a load() never evicts the alias it loads, and idle tasks and residents
\* belong to objects that were created under their alias.
THEOREM ShapeInvariant == Spec => [](TypeOK /\ Shape)
<1>1. Init => TypeOK /\ Shape
  BY InitTypes
<1>2. TypeOK /\ Shape /\ [Next]_vars => (TypeOK /\ Shape)'
  BY NextTypes
<1>. QED BY <1>1, <1>2, PTL DEF Spec

\* Type correctness of the model lifecycle.
THEOREM TypeCorrectness == Spec => []TypeOK
BY ShapeInvariant, PTL

-----------------------------------------------------------------------------
(* The owners of the locks *)

\* The two locks a load() holds while it makes room and while it loads.
LoadLocks(t) == {AliasOf(t), Gate}

\* The locks of a request, by where its handler is.
LEMMA RequestClaims ==
    ASSUME NEW r \in Request
    PROVE  Claims(r) =
              IF pc[r] \in {"gateWait", "held", "using"} THEN {AliasOf(r)}
              ELSE IF pc[r] \in {"check", "evict", "backend"} THEN LoadLocks(r)
              ELSE (IF pc[r] \in UnloadPc /\ req[r].op # "unload"
                    THEN LoadLocks(r) ELSE {})
                   \cup (IF pc[r] = "unloading" THEN {VictimOf(r)} ELSE {})
BY DEF Claims, Evicting, UnloadPc, LoadLocks

\* The lock of an idle task.
LEMMA TimerClaims ==
    ASSUME TypeOK, NEW u \in Timer
    PROVE  Claims(u) = IF pc[u] = "unloading" THEN {VictimOf(u)} ELSE {}
BY TaskFacts DEF Claims, Evicting, TypeOK, TimerPc

\* A step of t that takes and releases locks as its claims come and go.
LEMMA LockFrame ==
    ASSUME LockDiscipline, NEW t \in Task,
           \A x \in Task \ {t} : Claims(x)' = Claims(x),
           \A l \in Lock : lock'[l].owner =
              IF l \in Claims(t)' THEN t
              ELSE IF l \in Claims(t) THEN None ELSE lock[l].owner,
           \A l \in Lock : l \in Claims(t)' => lock[l].owner \in {None, t}
    PROVE  LockDiscipline'
<1>. SUFFICES ASSUME NEW l \in Lock, NEW x \in Task
              PROVE  lock'[l].owner = x <=> l \in Claims(x)'
  BY DEF LockDiscipline
<1>1. lock[l].owner = x <=> l \in Claims(x)
  BY DEF LockDiscipline
<1>2. lock[l].owner = t <=> l \in Claims(t)
  BY DEF LockDiscipline
<1>3. None \notin Task
  BY TaskFacts DEF Task
<1>. QED BY <1>1, <1>2, <1>3

\* What a step of t must leave alone for the claims of the others to stay.
OthersKeep(t) ==
    /\ UNCHANGED req
    /\ \A x \in Request \ {t} : pc'[x] = pc[x] /\ victim'[x] = victim[x]
    /\ \A u \in Timer \ {t} :
          /\ pc'[u] = pc[u] \/ (pc[u] # "unloading" /\ pc'[u] # "unloading")
          /\ pc[u] = "unloading" => timerOf'[u] = timerOf[u]

\* The claims of the tasks that do not take the step.
LEMMA OthersClaims ==
    ASSUME TypeOK, TypeOK', NEW t \in Task, OthersKeep(t), NEW x \in Task \ {t}
    PROVE  Claims(x)' = Claims(x)
<1>1. CASE x \in Request
  BY <1>1, TaskFacts DEF OthersKeep, Claims, Evicting, VictimOf, AliasOf
<1>2. CASE x \in Timer
  BY <1>2, TaskFacts DEF OthersKeep, Claims, Evicting, VictimOf, AliasOf, TypeOK, TimerPc
<1>. QED BY <1>1, <1>2 DEF Task

\* LockFrame for a step whose effect on the other tasks is OthersKeep.
LEMMA LockStep ==
    ASSUME TypeOK, TypeOK', LockDiscipline, NEW t \in Task, OthersKeep(t),
           NEW before, NEW after, Claims(t) = before, Claims(t)' = after,
           \A l \in Lock : lock'[l].owner =
              IF l \in after THEN t
              ELSE IF l \in before THEN None ELSE lock[l].owner,
           \A l \in Lock : l \in after => l \in before \/ lock[l].owner = None
    PROVE  LockDiscipline'
<1>1. \A l \in Lock : l \in before => lock[l].owner = t
  BY DEF LockDiscipline
<1>. QED BY <1>1, OthersClaims, LockFrame

\* A step of t that neither takes nor releases a lock.
LEMMA LockStutter ==
    ASSUME TypeOK, TypeOK', LockDiscipline, NEW t \in Task, OthersKeep(t),
           Claims(t)' = Claims(t),
           \A l \in Lock : lock'[l].owner = lock[l].owner
    PROVE  LockDiscipline'
<1>1. \A l \in Lock : l \in Claims(t) => lock[l].owner = t
  BY DEF LockDiscipline
<1>. QED BY <1>1, LockStep

-----------------------------------------------------------------------------
(* The steps, one lemma per action *)

\* A request that arrives owns no lock and takes none.
LEMMA ArrivalLocks ==
    ASSUME TypeOK, Shape, LockDiscipline, TypeOK', Shape', NEW r \in Request, Arrival(r)
    PROVE  LockDiscipline'
<1>1. \E op, a, role, i, keep :
         /\ Arrives(r, op, a, role, i, keep)
         /\ \E to \in {"done", "announce", "load", "unload"} : Goto(r, to)
  BY DEF Arrival, ChatConflict, ChatUnknown, ChatAccepted, EmbedArrives, LoadArrives,
     UnloadArrives, CancelArrives
<1>2. PICK op, a, role, i, keep :
         /\ Arrives(r, op, a, role, i, keep)
         /\ \E to \in {"done", "announce", "load", "unload"} : Goto(r, to)
  BY <1>1
<1>3. /\ pc[r] = "new" /\ pc'[r] \in {"done", "announce", "load", "unload"}
      /\ \A x \in Task \ {r} : pc'[x] = pc[x]
      /\ \A x \in Request \ {r} : req'[x] = req[x]
      /\ UNCHANGED <<lock, timerOf, victim>>
  BY <1>2, TaskFacts DEF Arrives, Goto, TypeOK, idleVars
<1>4. Claims(r) = {} /\ Claims(r)' = {}
  BY <1>3, TaskFacts DEF Claims, Evicting, UnloadPc
<1>5. \A x \in Task \ {r} : Claims(x)' = Claims(x)
  <2>. SUFFICES ASSUME NEW x \in Task \ {r} PROVE Claims(x)' = Claims(x)
    OBVIOUS
  <2>1. CASE x \in Request
    BY <1>3, <2>1, TaskFacts DEF Claims, Evicting, VictimOf, AliasOf
  <2>2. CASE x \in Timer
    <3>1. pc[x] # "free" => pc[timerOf[x]] # "new" /\ timerOf[x] \in Request
      BY <2>2 DEF Shape, TimerShape, Object
    <3>. QED BY <1>3, <2>2, <3>1, TaskFacts
             DEF Claims, Evicting, VictimOf, AliasOf, TypeOK, TimerPc
  <2>. QED BY <2>1, <2>2 DEF Task
<1>. QED BY <1>3, <1>4, <1>5, LockFrame, TaskFacts

\* The announcement of a load happens outside of every lock.
LEMMA AnnouncedLocks ==
    ASSUME TypeOK, Shape, LockDiscipline, TypeOK', Shape', NEW r \in Request,
           Announced(r) \/ AnnounceFails(r)
    PROVE  LockDiscipline'
<1>1. /\ pc[r] = "announce" /\ \E to \in {"done", "load"} : Goto(r, to)
      /\ UNCHANGED <<req, lock, timerOf, victim>>
  BY DEF Announced, AnnounceFails, idleVars
<1>2. /\ pc'[r] \in {"done", "load"}
      /\ \A x \in Task \ {r} : pc'[x] = pc[x]
  BY <1>1, TaskFacts DEF Goto, TypeOK
<1>3. Claims(r) = {} /\ Claims(r)' = {}
  BY <1>1, <1>2 DEF Claims, Evicting, UnloadPc
<1>. QED BY <1>1, <1>2, <1>3, LockStutter, TaskFacts DEF OthersKeep

\* schedule_idle_unload stops no task that owns a lock.
LEMMA ScheduleIdleKeeps ==
    ASSUME TypeOK, NEW o \in Request, NEW keep, NEW t \in Request,
           NEW to \in RequestPc, ScheduleIdle(o, keep, t, to), UNCHANGED <<req, victim>>
    PROVE  pc'[t] = to /\ OthersKeep(t)
BY ScheduleIdleFacts DEF OthersKeep

\* A hit gives the alias lock back, or goes on with it as loaded.lock.
LEMMA LoadHitLocks ==
    ASSUME TypeOK, Shape, LockDiscipline, TypeOK', Shape', NEW r \in Request,
           pc[r] \in {"load", "lockWait"}, NEW lkFree \in LockType(Task),
           lkFree.owner = None, lock[AliasOf(r)].owner = None, LoadHit(r, lkFree)
    PROVE  LockDiscipline'
<1>. DEFINE a == AliasOf(r)
            o == models[a]
            lk == Abandon(lkFree, Stoppable(o))
            to == AfterLoad(r, lk)
<1>1. a \in Lock /\ o \in Request /\ req[r].op \in LoadOp
  BY WhereFacts, TaskFacts DEF LoadHit, LoadPc, TypeOK
<1>2. lk \in LockType(Task) /\ lk.owner = None
  BY AbandonFacts
<1>3. to \in RequestPc
  BY DEF AfterLoad, RequestPc
<1>4. /\ lock' = [lock EXCEPT ![a] = IF req[r].op = "load" THEN lk ELSE Acquire(lk, r)]
      /\ ScheduleIdle(o, "delay", r, to)
      /\ UNCHANGED <<req, victim>>
  BY DEF LoadHit, LoadReturns
<1>5. to = IF req[r].op = "load" THEN "done"
           ELSE IF Uncontended(lk) THEN "held" ELSE "useWait"
  BY DEF AfterLoad
<1>6. Acquire(lk, r).owner = IF Uncontended(lk) THEN r ELSE None
  BY <1>2, AcquireFacts, TaskFacts
<1>. HIDE DEF a, o, lk, to
<1>7. pc'[r] = to /\ OthersKeep(r)
  BY <1>1, <1>3, <1>4, ScheduleIdleKeeps
<1>8. Claims(r) = {}
  BY DEF Claims, Evicting, UnloadPc
<1>9. Claims(r)' = IF to = "held" THEN {a} ELSE {}
  BY <1>4, <1>5, <1>7 DEF Claims, Evicting, UnloadPc, AliasOf, a
<1>10. lock[a].owner = None
  BY DEF a
<1>11. \A l \in Lock : lock'[l].owner = IF l = a /\ to = "held" THEN r ELSE lock[l].owner
  BY <1>1, <1>2, <1>4, <1>5, <1>6, <1>10 DEF TypeOK
<1>. QED BY <1>7, <1>8, <1>9, <1>10, <1>11, LockStep, TaskFacts

\* A miss keeps the alias lock and takes the load gate if nobody is ahead.
LEMMA LoadMissLocks ==
    ASSUME TypeOK, Shape, LockDiscipline, TypeOK', Shape', NEW r \in Request,
           pc[r] \in {"load", "lockWait"}, NEW lkHeld \in LockType(Task),
           lkHeld.owner = r, lock[AliasOf(r)].owner = None, LoadMiss(r, lkHeld)
    PROVE  LockDiscipline'
<1>1. AliasOf(r) \in Lock /\ AliasOf(r) # Gate /\ Gate \in Lock
  BY WhereFacts, TaskFacts DEF LoadPc
<1>2. /\ lock' = [lock EXCEPT ![AliasOf(r)] = lkHeld, ![Gate] = Acquire(@, r)]
      /\ Goto(r, IF Uncontended(lock[Gate]) THEN "check" ELSE "gateWait")
      /\ UNCHANGED <<req, victim, timerOf>>
  BY DEF LoadMiss, reqVars, idleVars
<1>3. /\ pc'[r] = IF Uncontended(lock[Gate]) THEN "check" ELSE "gateWait"
      /\ \A x \in Task \ {r} : pc'[x] = pc[x]
  BY <1>2, TaskFacts DEF Goto, TypeOK
<1>4. OthersKeep(r)
  BY <1>2, <1>3, TaskFacts DEF OthersKeep
<1>5. Claims(r) = {}
  BY DEF Claims, Evicting, UnloadPc
<1>6. Claims(r)' = IF Uncontended(lock[Gate]) THEN {AliasOf(r), Gate} ELSE {AliasOf(r)}
  BY <1>2, <1>3 DEF Claims, Evicting, UnloadPc, AliasOf
<1>7. /\ Acquire(lock[Gate], r).owner = IF Uncontended(lock[Gate]) THEN r ELSE lock[Gate].owner
      /\ Uncontended(lock[Gate]) => lock[Gate].owner = None
  BY <1>1, AcquireFacts, LockTypes, TaskFacts DEF Uncontended
<1>8. \A l \in Lock : lock'[l].owner =
         IF l = AliasOf(r) \/ (l = Gate /\ Uncontended(lock[Gate])) THEN r ELSE lock[l].owner
  BY <1>1, <1>2, <1>7 DEF TypeOK
<1>. QED BY <1>1, <1>4, <1>5, <1>6, <1>7, <1>8, LockStep, TaskFacts

\* load() up to its first suspension.
LEMMA LoadStartLocks ==
    ASSUME TypeOK, Shape, LockDiscipline, TypeOK', Shape', NEW r \in Request,
           LoadStart(r) \/ LoadWoken(r)
    PROVE  LockDiscipline'
<1>. DEFINE lk == lock[AliasOf(r)]
<1>1. AliasOf(r) \in Lock /\ lk \in LockType(Task) /\ r \in Task
      /\ pc[r] \in {"load", "lockWait"}
  BY WhereFacts, TaskFacts, LockTypes DEF LoadStart, LoadWoken, LoadPc
<1>2. CASE Uncontended(lk) /\ LoadHit(r, lk)
  BY <1>1, <1>2, LoadHitLocks DEF Uncontended
<1>3. CASE Uncontended(lk) /\ LoadMiss(r, Acquire(lk, r))
  <2>1. Acquire(lk, r) \in LockType(Task) /\ Acquire(lk, r).owner = r
    BY <1>1, <1>3, AcquireFacts
  <2>. QED BY <1>1, <1>3, <2>1, LoadMissLocks DEF Uncontended
<1>4. CASE /\ pc[r] = "load" /\ ~Uncontended(lk)
           /\ lock' = [lock EXCEPT ![AliasOf(r)] = Acquire(lk, r)]
           /\ Goto(r, "lockWait")
           /\ UNCHANGED <<req, timerOf, victim>>
  <2>1. pc'[r] = "lockWait" /\ \A x \in Task \ {r} : pc'[x] = pc[x]
    BY <1>4, TaskFacts DEF Goto, TypeOK
  <2>2. Claims(r) = {} /\ Claims(r)' = {}
    BY <1>4, <2>1 DEF Claims, Evicting, UnloadPc
  <2>3. \A l \in Lock : lock'[l].owner = lock[l].owner
    BY <1>1, <1>4, AcquireFacts DEF TypeOK
  <2>. QED BY <1>4, <2>1, <2>2, <2>3, LockStutter, TaskFacts DEF OthersKeep
<1>5. CASE Woken(lk, r) /\ (LoadHit(r, Pass(lk)) \/ LoadMiss(r, Take(lk, r)))
  <2>1. /\ lk.owner = None
        /\ Take(lk, r) \in LockType(Task) /\ Take(lk, r).owner = r
        /\ Pass(lk) \in LockType(Task) /\ Pass(lk).owner = None
    BY <1>1, <1>5, WokenFacts
  <2>. QED BY <1>1, <1>5, <2>1, LoadHitLocks, LoadMissLocks
<1>. QED BY <1>2, <1>3, <1>4, <1>5 DEF LoadStart, LoadWoken, reqVars, idleVars

\* The load gate arrives.
LEMMA GateWokenLocks ==
    ASSUME TypeOK, Shape, LockDiscipline, TypeOK', Shape', NEW r \in Request, GateWoken(r)
    PROVE  LockDiscipline'
<1>1. /\ pc[r] = "gateWait" /\ Goto(r, "check") /\ Woken(lock[Gate], r)
      /\ lock' = [lock EXCEPT ![Gate] = Take(@, r)]
      /\ UNCHANGED <<req, victim, timerOf>>
  BY DEF GateWoken, reqVars, idleVars
<1>2. pc'[r] = "check" /\ \A x \in Task \ {r} : pc'[x] = pc[x]
  BY <1>1, TaskFacts DEF Goto, TypeOK
<1>3. lock[Gate].owner = None /\ Take(lock[Gate], r).owner = r
  BY <1>1, WokenFacts, LockTypes, TaskFacts
<1>4. Claims(r) = {AliasOf(r)} /\ Claims(r)' = {AliasOf(r), Gate}
  BY <1>1, <1>2 DEF Claims, Evicting, UnloadPc, AliasOf
<1>5. \A l \in Lock : lock'[l].owner = IF l = Gate THEN r ELSE lock[l].owner
  BY <1>1, <1>3 DEF TypeOK
<1>6. lock[AliasOf(r)].owner = r
  <2>1. AliasOf(r) \in Lock
    BY <1>1, WhereFacts, TaskFacts DEF LoadPc
  <2>. QED BY <1>4, <2>1, TaskFacts DEF LockDiscipline
<1>. QED BY <1>1, <1>2, <1>3, <1>4, <1>5, <1>6, LockStep, TaskFacts DEF OthersKeep

\* A load() that ends with an exception gives up every lock it has.
LEMMA LoadAbortsLocks ==
    ASSUME TypeOK, Shape, LockDiscipline, TypeOK', Shape', NEW r \in Request,
           NEW how, NEW extra, LoadAborts(r, how, extra),
           Claims(r) = LoadLocks(r) \cup extra,
           \A x \in Request \ {r} : victim'[x] = victim[x]
    PROVE  LockDiscipline'
<1>1. /\ \A l \in Lock : lock'[l] = IF l \in LoadLocks(r) \cup extra
                                    THEN Release(lock[l]) ELSE lock[l]
      /\ pc'[r] = "done" /\ \A x \in Task \ {r} : pc'[x] = pc[x]
      /\ UNCHANGED <<req, timerOf>>
  BY TaskFacts DEF LoadAborts, LoadLocks, Goto, TypeOK, idleVars
<1>2. Claims(r)' = {}
  BY <1>1 DEF Claims, Evicting, UnloadPc
<1>3. \A l \in Lock : Release(lock[l]).owner = None
  BY DEF Release, TypeOK, LockType
<1>4. OthersKeep(r)
  BY <1>1, TaskFacts DEF OthersKeep
<1>. QED BY <1>1, <1>2, <1>3, <1>4, LockStep, TaskFacts

\* A load() refused by the cap or failed by the backend.
LEMMA LoadFailsLocks ==
    ASSUME TypeOK, Shape, LockDiscipline, TypeOK', Shape', NEW r \in Request,
           CapFull(r) \/ BackendLoadFails(r)
    PROVE  LockDiscipline'
<1>1. /\ pc[r] \in {"check", "backend"}
      /\ \E how : LoadAborts(r, how, {})
      /\ UNCHANGED victim
  BY DEF CapFull, BackendLoadFails
<1>2. Claims(r) = LoadLocks(r) \cup {}
  BY <1>1, RequestClaims
<1>. QED BY <1>1, <1>2, LoadAbortsLocks

\* The loaded model is inserted; the gate is free, and so is the alias lock
\* unless the handler goes on with the model.
LEMMA LoadInsertsLocks ==
    ASSUME TypeOK, Shape, LockDiscipline, TypeOK', Shape', NEW r \in Request, LoadInserts(r)
    PROVE  LockDiscipline'
<1>. DEFINE a == AliasOf(r)
            lk == Release(lock[a])
            to == AfterLoad(r, lk)
<1>1. a \in Lock /\ Gate \in Lock /\ a # Gate /\ req[r].op \in LoadOp /\ pc[r] = "backend"
  BY WhereFacts, TaskFacts DEF LoadInserts, LoadPc
<1>2. /\ lk \in LockType(Task) /\ lk.owner = None
      /\ Release(lock[Gate]).owner = None
  <2>1. lock[a] \in LockType(Task) /\ lock[Gate] \in LockType(Task)
    BY <1>1 DEF TypeOK
  <2>. QED BY <2>1, ReleaseFacts
<1>3. to \in RequestPc
  BY DEF AfterLoad, RequestPc
<1>4. /\ lock' = [lock EXCEPT ![a] = IF req[r].op = "load" THEN lk ELSE Acquire(lk, r),
                              ![Gate] = Release(@)]
      /\ ScheduleIdle(r, "delay", r, to)
      /\ UNCHANGED <<req, victim>>
  BY DEF LoadInserts
<1>5. to = IF req[r].op = "load" THEN "done"
           ELSE IF Uncontended(lk) THEN "held" ELSE "useWait"
  BY DEF AfterLoad
<1>6. Acquire(lk, r).owner = IF Uncontended(lk) THEN r ELSE None
  BY <1>2, AcquireFacts, TaskFacts
<1>. HIDE DEF a, lk, to
<1>7. pc'[r] = to /\ OthersKeep(r)
  BY <1>3, <1>4, ScheduleIdleKeeps
<1>8. Claims(r) = {a, Gate}
  BY <1>1, RequestClaims DEF LoadLocks, a
<1>9. Claims(r)' = IF to = "held" THEN {a} ELSE {}
  BY <1>4, <1>5, <1>7 DEF Claims, Evicting, UnloadPc, AliasOf, a
<1>10. \A l \in Lock : lock'[l].owner = IF l = a /\ to = "held" THEN r
                                        ELSE IF l \in {a, Gate} THEN None ELSE lock[l].owner
  BY <1>1, <1>2, <1>4, <1>5, <1>6 DEF TypeOK
<1>. QED BY <1>7, <1>8, <1>9, <1>10, LockStep, TaskFacts

\* The locks a task keeps while it is in unload(): those of the load() it
\* makes room for.
Kept(t) == IF t \in Request /\ req[t].op # "unload" THEN LoadLocks(t) ELSE {}

\* A return from unload(v): v is free again if t owned it.
LEMMA UnloadReturnsLocks ==
    ASSUME TypeOK, Shape, LockDiscipline, TypeOK', Shape', NEW t \in Task, NEW v,
           UnloadReturns(t), UNCHANGED req,
           Claims(t) = Kept(t) \cup (IF pc[t] = "unloading" THEN {v} ELSE {}),
           pc[t] = "unloading" => v \notin Kept(t),
           \A l \in Lock : lock'[l].owner =
              IF l = v /\ pc[t] = "unloading" THEN None ELSE lock[l].owner
    PROVE  LockDiscipline'
<1>1. /\ pc'[t] = ReturnPc(t)
      /\ \A x \in Task \ {t} : pc'[x] = pc[x]
      /\ \A x \in Request \ {t} : victim'[x] = victim[x]
      /\ \A u \in Timer \ {t} : timerOf'[u] = timerOf[u]
  BY UnloadReturnsFacts, TaskFacts DEF TypeOK
<1>2. Claims(t)' = Kept(t)
  BY <1>1, TaskFacts DEF Claims, Evicting, UnloadPc, ReturnPc, Kept, LoadLocks, AliasOf, Task
<1>3. OthersKeep(t)
  BY <1>1, TaskFacts DEF OthersKeep
<1>4. \A l \in Lock : l \in Kept(t) => l \in Claims(t)
  OBVIOUS
<1>5. \A l \in Lock : l \in Claims(t) => lock[l].owner = t
  BY DEF LockDiscipline
<1>. QED BY <1>2, <1>3, <1>4, <1>5, LockStep

\* The start of backend.unload: t owns v, the idle task it stops owned nothing.
LEMMA UnloadBeginsLocks ==
    ASSUME TypeOK, Shape, LockDiscipline, TypeOK', Shape', NEW t \in Task, NEW v \in Alias,
           NEW lk \in LockType(Task), lk.owner = t, lock[v].owner = None,
           UnloadBegins(t, v, lk), UNCHANGED req, Claims(t) = Kept(t),
           \A x \in Request \ {t} : victim'[x] = victim[x],
           t \in Timer => pc[t] # "free" /\ v = VictimOf(t),
           t \in Request /\ req[t].op = "unload" => v = req[t].alias,
           t \in Request /\ req[t].op # "unload" => victim'[t] = v
    PROVE  LockDiscipline'
<1>1. /\ pc'[t] = "unloading"
      /\ \A x \in Request \ {t} : pc'[x] = pc[x]
      /\ \A u \in Timer :
            /\ u # t /\ pc'[u] # pc[u] => pc[u] # "unloading" /\ pc'[u] # "unloading"
            /\ pc'[u] # "free" => timerOf'[u] = timerOf[u]
      /\ lock'[v].owner = t
      /\ \A l \in Lock \ {v} : lock'[l] = lock[l]
  BY UnloadBeginsFacts
<1>2. Claims(t)' = Kept(t) \cup {v}
  <2>1. VictimOf(t)' = v
    BY <1>1, TaskFacts DEF VictimOf, AliasOf, Task
  <2>2. CASE t \in Timer
    BY <1>1, <2>1, <2>2, TaskFacts DEF Claims, Evicting, Kept
  <2>3. CASE t \in Request
    BY <1>1, <2>1, <2>3, TaskFacts DEF Claims, Evicting, UnloadPc, Kept, LoadLocks, AliasOf
  <2>. QED BY <2>2, <2>3 DEF Task
<1>3. OthersKeep(t)
  BY <1>1, TaskFacts DEF OthersKeep
<1>4. \A l \in Lock : l \in Kept(t) => lock[l].owner = t
  BY DEF LockDiscipline
<1>. QED BY <1>1, <1>2, <1>3, <1>4, LockStep

\* unload(v) up to its first suspension.
LEMMA UnloadEntersLocks ==
    ASSUME TypeOK, Shape, LockDiscipline, TypeOK', Shape', NEW t \in Task, NEW v \in Alias,
           UnloadCall(t, v), pc[t] # "unloading", Claims(t) = Kept(t), UnloadEnters(t, v)
    PROVE  LockDiscipline'
<1>. v \in Lock
  BY TaskFacts
<1>1. UNCHANGED req /\ lock[v] \in LockType(Task)
  BY LockTypes DEF UnloadEnters
<1>2. CASE UnloadReturns(t) /\ UNCHANGED lock
  BY <1>1, <1>2, UnloadReturnsLocks
<1>3. CASE /\ Uncontended(lock[v])
           /\ UnloadBegins(t, v, Acquire(lock[v], t))
           /\ victim' = [x \in Request |-> IF x = t THEN v ELSE victim[x]]
  <2>1. /\ lock[v].owner = None
        /\ Acquire(lock[v], t) \in LockType(Task) /\ Acquire(lock[v], t).owner = t
    BY <1>1, <1>3, AcquireFacts DEF Uncontended
  <2>. QED BY <1>1, <1>3, <2>1, UnloadBeginsLocks, TaskFacts DEF UnloadCall, LoadOp
<1>4. CASE /\ ~Uncontended(lock[v])
           /\ lock' = [lock EXCEPT ![v] = Acquire(@, t)]
           /\ Goto(t, "unloadWait")
           /\ victim' = [x \in Request |-> IF x = t THEN v ELSE victim[x]]
           /\ UNCHANGED timerOf
  <2>1. /\ pc'[t] = "unloadWait"
        /\ \A x \in Task \ {t} : pc'[x] = pc[x]
        /\ \A x \in Request \ {t} : victim'[x] = victim[x]
    BY <1>4, TaskFacts DEF Goto, TypeOK
  <2>2. \A l \in Lock : lock'[l].owner = lock[l].owner
    BY <1>1, <1>4, AcquireFacts DEF TypeOK
  <2>3. Claims(t)' = Kept(t)
    BY <1>1, <2>1, TaskFacts DEF Claims, Evicting, UnloadPc, Kept, LoadLocks, AliasOf, Task
  <2>. QED BY <1>1, <1>4, <2>1, <2>2, <2>3, LockStutter, TaskFacts DEF OthersKeep
<1>. QED BY <1>2, <1>3, <1>4 DEF UnloadEnters, idleVars

\* A model.unload request starts.
LEMMA UnloadStartLocks ==
    ASSUME TypeOK, Shape, LockDiscipline, TypeOK', Shape', NEW r \in Request, UnloadStart(r)
    PROVE  LockDiscipline'
<1>1. /\ UnloadEnters(r, req[r].alias) /\ pc[r] = "unload"
      /\ req[r].op = "unload" /\ req[r].alias \in Alias
  BY WhereFacts DEF Evicting, UnloadPc, UnloadStart
<1>2. Claims(r) = Kept(r)
  BY <1>1 DEF Claims, Evicting, UnloadPc, Kept
<1>. QED BY <1>1, <1>2, UnloadEntersLocks, TaskFacts DEF UnloadCall

\* The cap check and the evictions happen under both locks of the load().
LEMMA EvictsLocks ==
    ASSUME TypeOK, Shape, LockDiscipline, TypeOK', Shape', NEW r \in Request,
           pc[r] \in {"check", "evict"}, NEW vs \in SUBSET Alias, AliasOf(r) \notin vs,
           Evicts(r, vs)
    PROVE  LockDiscipline'
<1>1. /\ req[r].op \in LoadOp /\ Claims(r) = Kept(r)
  BY WhereFacts, RequestClaims DEF LoadPc, Kept
<1>2. CASE vs = {}
  <2>1. Goto(r, "backend") /\ UNCHANGED <<req, lock, timerOf, victim>>
    BY <1>2 DEF Evicts, reqVars, idleVars
  <2>2. pc'[r] = "backend" /\ \A x \in Task \ {r} : pc'[x] = pc[x]
    BY <2>1, TaskFacts DEF Goto, TypeOK
  <2>3. Claims(r)' = Claims(r)
    BY <2>1, <2>2 DEF Claims, Evicting, UnloadPc, AliasOf
  <2>. QED BY <2>1, <2>2, <2>3, LockStutter, TaskFacts DEF OthersKeep
<1>3. CASE vs # {}
  <2>1. PICK v \in vs : /\ todo' = [todo EXCEPT ![r] = vs \ {v}]
                        /\ UnloadEnters(r, v)
    BY <1>3 DEF Evicts
  <2>2. AliasOf(r) \notin todo'[r]
    BY <2>1 DEF TypeOK
  <2>. QED BY <1>1, <2>1, <2>2, UnloadEntersLocks, TaskFacts DEF UnloadCall
<1>. QED BY <1>2, <1>3

\* The cap check, and what follows an eviction.
LEMMA CapCheckLocks ==
    ASSUME TypeOK, Shape, LockDiscipline, TypeOK', Shape', NEW r \in Request,
           CapCheck(r) \/ EvictNext(r)
    PROVE  LockDiscipline'
<1>1. CASE CapCheck(r)
  <2>. DEFINE vs == IF Capped(r) THEN Victims(r) ELSE {}
  <2>1. vs \in SUBSET Alias /\ AliasOf(r) \notin vs
    BY DEF Victims, Evictable, Resident
  <2>2. pc[r] = "check" /\ Evicts(r, vs)
    BY <1>1 DEF CapCheck
  <2>. QED BY <2>1, <2>2, EvictsLocks
<1>2. CASE EvictNext(r)
  <2>1. todo[r] \in SUBSET Alias /\ AliasOf(r) \notin todo[r]
    BY <1>2 DEF EvictNext, Shape, RequestShape, TypeOK
  <2>. QED BY <1>2, <2>1, EvictsLocks DEF EvictNext
<1>. QED BY <1>1, <1>2

\* What holds of a task inside unload().
LEMMA InsideUnload ==
    ASSUME TypeOK, Shape, NEW t \in Task, pc[t] \in UnloadPc
    PROVE  /\ VictimOf(t) \in Alias /\ VictimOf(t) \in Lock
           /\ VictimOf(t) \notin Kept(t)
           /\ Claims(t) = Kept(t) \cup (IF pc[t] = "unloading" THEN {VictimOf(t)} ELSE {})
<1>1. VictimOf(t) \in Alias /\ VictimOf(t) \in Lock
  BY VictimFacts, TaskFacts
<1>2. CASE t \in Timer
  BY <1>1, <1>2, TimerClaims, TaskFacts DEF Kept
<1>3. CASE t \in Request
  BY <1>1, <1>3, RequestClaims, TaskFacts
     DEF Kept, LoadLocks, Shape, RequestShape, Evicting, VictimOf, UnloadPc
<1>. QED BY <1>1, <1>2, <1>3 DEF Task

\* unload() gets the alias lock.
LEMMA UnloadWokenLocks ==
    ASSUME TypeOK, Shape, LockDiscipline, TypeOK', Shape', NEW t \in Task, UnloadWoken(t)
    PROVE  LockDiscipline'
<1>. DEFINE v == VictimOf(t)
<1>1. pc[t] = "unloadWait" /\ Woken(lock[v], t) /\ UNCHANGED req
  BY DEF UnloadWoken
<1>2. /\ v \in Alias /\ v \in Lock /\ Claims(t) = Kept(t)
  BY <1>1, InsideUnload DEF UnloadPc
<1>3. /\ lock[v].owner = None
      /\ Take(lock[v], t) \in LockType(Task) /\ Take(lock[v], t).owner = t
      /\ Pass(lock[v]).owner = None
  BY <1>1, <1>2, WokenFacts, LockTypes
<1>4. CASE lock' = [lock EXCEPT ![v] = Pass(@)] /\ UnloadReturns(t)
  <2>1. \A l \in Lock : lock'[l].owner = lock[l].owner
    BY <1>2, <1>3, <1>4 DEF TypeOK
  <2>. QED BY <1>1, <1>2, <1>4, <2>1, UnloadReturnsLocks
<1>5. CASE UnloadBegins(t, v, Take(lock[v], t)) /\ UNCHANGED victim
  <2>1. /\ t \in Timer => pc[t] # "free"
        /\ t \in Request /\ req[t].op = "unload" => v = req[t].alias
        /\ t \in Request /\ req[t].op # "unload" => victim'[t] = v
    BY <1>1, <1>5, TaskFacts DEF VictimOf
  <2>. QED BY <1>1, <1>2, <1>3, <1>5, <2>1, UnloadBeginsLocks
<1>. QED BY <1>4, <1>5 DEF UnloadWoken

\* backend.unload returns.
LEMMA UnloadDoneLocks ==
    ASSUME TypeOK, Shape, LockDiscipline, TypeOK', Shape', NEW t \in Task, UnloadDone(t)
    PROVE  LockDiscipline'
<1>. DEFINE v == VictimOf(t)
<1>1. /\ pc[t] = "unloading" /\ UnloadReturns(t) /\ UNCHANGED req
      /\ lock' = [lock EXCEPT ![v] = Release(@)]
  BY DEF UnloadDone
<1>2. /\ v \in Lock /\ v \notin Kept(t) /\ Claims(t) = Kept(t) \cup {v}
  BY <1>1, InsideUnload DEF UnloadPc
<1>3. Release(lock[v]).owner = None
  BY <1>2, ReleaseFacts DEF TypeOK
<1>4. \A l \in Lock : lock'[l].owner = IF l = v THEN None ELSE lock[l].owner
  BY <1>1, <1>2, <1>3 DEF TypeOK
<1>. QED BY <1>1, <1>2, <1>4, UnloadReturnsLocks

\* backend.unload raises: every lock the task has is given up.
LEMMA UnloadFailsLocks ==
    ASSUME TypeOK, Shape, LockDiscipline, TypeOK', Shape', NEW r \in Request, UnloadFails(r)
    PROVE  LockDiscipline'
<1>. DEFINE v == VictimOf(r)
<1>1. /\ pc[r] = "unloading"
      /\ \A x \in Request \ {r} : victim'[x] = victim[x]
  BY DEF UnloadFails, TypeOK
<1>2. /\ v \in Lock /\ Claims(r) = Kept(r) \cup {v}
  BY <1>1, InsideUnload, TaskFacts DEF UnloadPc
<1>3. CASE req[r].op # "unload"
  <2>1. LoadAborts(r, "error", {v})
    BY <1>3 DEF UnloadFails
  <2>. QED BY <1>1, <1>2, <1>3, <2>1, LoadAbortsLocks DEF Kept
<1>4. CASE req[r].op = "unload"
  <2>1. /\ lock' = [lock EXCEPT ![v] = Release(@)]
        /\ Goto(r, "done") /\ UNCHANGED <<req, timerOf>>
    BY <1>4 DEF UnloadFails, idleVars
  <2>2. pc'[r] = "done" /\ \A x \in Task \ {r} : pc'[x] = pc[x]
    BY <2>1, TaskFacts DEF Goto, TypeOK
  <2>3. Claims(r) = {v} /\ Claims(r)' = {}
    BY <1>2, <1>4, <2>2 DEF Kept, Claims, Evicting, UnloadPc
  <2>4. Release(lock[v]).owner = None
    BY <1>2, ReleaseFacts DEF TypeOK
  <2>5. \A l \in Lock : lock'[l].owner = IF l = v THEN None ELSE lock[l].owner
    BY <1>2, <2>1, <2>4 DEF TypeOK
  <2>. QED BY <1>1, <2>1, <2>2, <2>3, <2>5, LockStep, TaskFacts DEF OthersKeep
<1>. QED BY <1>3, <1>4

\* A handler gets loaded.lock, starts to generate under it, and gives it up.
LEMMA UseLocks ==
    ASSUME TypeOK, Shape, LockDiscipline, TypeOK', Shape', NEW r \in Request,
           UseWoken(r) \/ UseStarts(r) \/ ChatStreamed(r) \/ ChatDropped(r) \/ EmbedEnds(r)
    PROVE  LockDiscipline'
<1>. DEFINE a == AliasOf(r)
<1>1. /\ pc[r] \in {"useWait", "held", "using"}
      /\ UNCHANGED <<req, timerOf, victim>>
  BY DEF UseWoken, UseStarts, ChatStreamed, ChatDropped, EmbedEnds, reqVars, idleVars
<1>2. a \in Lock /\ lock[a] \in LockType(Task)
  BY <1>1, WhereFacts, TaskFacts, LockTypes DEF UsePc
<1>3. /\ Release(lock[a]).owner = None
      /\ Woken(lock[a], r) => lock[a].owner = None /\ Take(lock[a], r).owner = r
  <2>1. Release(lock[a]).owner = None
    BY <1>2, ReleaseFacts
  <2>2. ASSUME Woken(lock[a], r) PROVE lock[a].owner = None /\ Take(lock[a], r).owner = r
    BY <1>2, <2>2, WokenFacts, TaskFacts
  <2>. QED BY <2>1, <2>2
<1>4. \E to \in {"held", "using", "ending", "done"} : Goto(r, to)
  BY DEF UseWoken, UseStarts, ChatStreamed, ChatDropped, EmbedEnds, Releases
<1>5. /\ Goto(r, pc'[r]) /\ pc'[r] \in {"held", "using", "ending", "done"}
      /\ \A x \in Task \ {r} : pc'[x] = pc[x]
  BY <1>4, TaskFacts DEF Goto, TypeOK
<1>6. Claims(r) = IF pc[r] = "useWait" THEN {} ELSE {a}
  BY <1>1 DEF Claims, Evicting, UnloadPc
<1>7. Claims(r)' = IF pc'[r] \in {"held", "using"} THEN {a} ELSE {}
  BY <1>1, <1>5 DEF Claims, Evicting, UnloadPc, AliasOf
<1>8. OthersKeep(r)
  BY <1>1, <1>5, TaskFacts DEF OthersKeep
<1>9. CASE UseWoken(r)
  <2>1. /\ pc[r] = "useWait" /\ Woken(lock[a], r) /\ pc'[r] = "held"
        /\ lock' = [lock EXCEPT ![a] = Take(@, r)]
    BY <1>9, TaskFacts DEF UseWoken, Goto, TypeOK
  <2>2. \A l \in Lock : lock'[l].owner = IF l = a THEN r ELSE lock[l].owner
    BY <1>2, <1>3, <2>1 DEF TypeOK
  <2>. QED BY <1>3, <1>6, <1>7, <1>8, <2>1, <2>2, LockStep, TaskFacts
<1>10. CASE UseStarts(r)
  <2>1. pc[r] = "held" /\ pc'[r] = "using" /\ UNCHANGED lock
    BY <1>10, TaskFacts DEF UseStarts, Goto, TypeOK
  <2>. QED BY <1>6, <1>7, <1>8, <2>1, LockStutter, TaskFacts
<1>11. CASE \E to \in {"ending", "done"} : \E how :
               Releases(r, to, how) /\ pc[r] # "useWait"
  <2>1. /\ pc'[r] \in {"ending", "done"} /\ pc[r] # "useWait"
        /\ lock' = [lock EXCEPT ![a] = Release(@)]
    BY <1>11, TaskFacts DEF Releases, Goto, TypeOK
  <2>2. \A l \in Lock : lock'[l].owner = IF l = a THEN None ELSE lock[l].owner
    BY <1>2, <1>3, <2>1 DEF TypeOK
  <2>. QED BY <1>6, <1>7, <1>8, <2>1, <2>2, LockStep, TaskFacts
<1>12. ChatStreamed(r) \/ ChatDropped(r) \/ EmbedEnds(r) =>
          \E to \in {"ending", "done"} : \E how :
             Releases(r, to, how) /\ pc[r] # "useWait"
  BY DEF ChatStreamed, ChatDropped, EmbedEnds
<1>. QED BY <1>9, <1>10, <1>11, <1>12

\* A chat ends: after an error it still owns loaded.lock and gives it up.
LEMMA ChatEndsLocks ==
    ASSUME TypeOK, Shape, LockDiscipline, TypeOK', Shape', NEW r \in Request,
           ChatErrs(r) \/ ChatReplied(r)
    PROVE  LockDiscipline'
<1>. DEFINE a == AliasOf(r)
            o == loaded[r]
            lk == IF pc[r] = "ending" THEN lock[a] ELSE Release(lock[a])
<1>1. /\ pc[r] \in {"held", "using", "ending"} /\ ChatEnds(r, lk)
      /\ UNCHANGED <<req, victim>>
  BY DEF ChatErrs, ChatReplied, reqVars
<1>2. a \in Lock /\ o \in Request
  BY <1>1, WhereFacts, TaskFacts DEF UsePc, TypeOK, Shape, RequestShape, Object
<1>3. /\ lk \in LockType(Task)
      /\ lk.owner = IF pc[r] = "ending" THEN lock[a].owner ELSE None
  <2>1. lock[a] \in LockType(Task)
    BY <1>2 DEF TypeOK
  <2>. QED BY <2>1, ReleaseFacts
<1>4. Abandon(lk, Stoppable(o)).owner = lk.owner
  BY <1>3, AbandonFacts
<1>5. /\ lock' = [lock EXCEPT ![a] = Abandon(lk, Stoppable(o))]
      /\ ScheduleIdle(o, req[r].keep, r, "done")
  BY <1>1 DEF ChatEnds
<1>. HIDE DEF lk, o, a
<1>6. pc'[r] = "done" /\ OthersKeep(r)
  BY <1>1, <1>2, <1>5, ScheduleIdleKeeps DEF RequestPc
<1>7. Claims(r) = IF pc[r] = "ending" THEN {} ELSE {a}
  BY <1>1, RequestClaims DEF UnloadPc, a
<1>8. Claims(r)' = {}
  BY <1>6 DEF Claims, Evicting, UnloadPc
<1>9. \A l \in Lock : lock'[l].owner = IF l = a /\ pc[r] # "ending" THEN None
                                       ELSE lock[l].owner
  BY <1>2, <1>3, <1>4, <1>5 DEF TypeOK
<1>. QED BY <1>6, <1>7, <1>8, <1>9, LockStep, TaskFacts

\* An idle task owns no lock before it unloads.
LEMMA TickLocks ==
    ASSUME TypeOK, Shape, LockDiscipline, TypeOK', Shape', NEW u \in Timer, Tick(u)
    PROVE  LockDiscipline'
<1>1. CASE TimerDefers(u) \/ TimerSkips(u)
  <2>1. /\ pc[u] = "asleep" /\ UNCHANGED <<req, lock, victim>>
        /\ pc'[u] \in {"asleep", "free"}
        /\ \A x \in Task \ {u} : pc'[x] = pc[x]
        /\ \A x \in Timer \ {u} : timerOf'[x] = timerOf[x]
    BY <1>1, TaskFacts DEF TimerDefers, TimerSkips, Goto, TypeOK, reqVars
  <2>2. Claims(u) = {} /\ Claims(u)' = {}
    BY <2>1, TaskFacts DEF Claims, Evicting
  <2>. QED BY <2>1, <2>2, LockStutter, TaskFacts DEF OthersKeep
<1>2. CASE TimerUnloads(u)
  <2>1. pc[u] \in {"asleep", "due"} /\ UnloadEnters(u, VictimOf(u))
    BY <1>2 DEF TimerUnloads, VictimOf
  <2>2. u \in Task /\ VictimOf(u) \in Alias /\ UnloadCall(u, VictimOf(u))
    BY <2>1, VictimFacts, TaskFacts DEF UnloadCall
  <2>3. Claims(u) = Kept(u)
    BY <2>1, TaskFacts DEF Claims, Evicting, Kept
  <2>. QED BY <2>1, <2>2, <2>3, UnloadEntersLocks
<1>. QED BY <1>1, <1>2, UnloadWokenLocks, UnloadDoneLocks, TaskFacts DEF Tick

\* Every step of the daemon keeps the lock discipline.
LEMMA NextLocks ==
    TypeOK /\ Shape /\ LockDiscipline /\ [Next]_vars /\ TypeOK' /\ Shape' => LockDiscipline'
<1>. SUFFICES ASSUME TypeOK, Shape, LockDiscipline, [Next]_vars, TypeOK', Shape'
              PROVE  LockDiscipline'
  OBVIOUS
<1>1. CASE UNCHANGED vars
  <2>1. \A t \in Task : Claims(t)' = Claims(t)
    BY <1>1 DEF vars, Claims, Evicting, VictimOf, AliasOf
  <2>. QED BY <1>1, <2>1 DEF vars, LockDiscipline
<1>2. ASSUME NEW r \in Request, Arrival(r) PROVE LockDiscipline'
  BY <1>2, ArrivalLocks
<1>3. ASSUME NEW r \in Request, Serve(r) PROVE LockDiscipline'
  <2>1. CASE WorkerExits(r)
    <3>1. UNCHANGED <<pc, lock, req, victim, timerOf>>
      BY <2>1 DEF WorkerExits, reqVars, idleVars
    <3>2. \A t \in Task : Claims(t)' = Claims(t)
      BY <3>1 DEF Claims, Evicting, VictimOf, AliasOf
    <3>. QED BY <3>1, <3>2 DEF LockDiscipline
  <2>. QED BY <1>3, <2>1, AnnouncedLocks, LoadStartLocks, GateWokenLocks, LoadFailsLocks,
              CapCheckLocks, LoadInsertsLocks, UnloadStartLocks, UnloadWokenLocks,
              UnloadDoneLocks, UseLocks, ChatEndsLocks, TaskFacts DEF Serve
<1>4. ASSUME NEW r \in Request, Mishap(r) PROVE LockDiscipline'
  BY <1>4, AnnouncedLocks, UseLocks, LoadFailsLocks, UnloadFailsLocks DEF Mishap
<1>5. ASSUME NEW u \in Timer, Tick(u) PROVE LockDiscipline'
  BY <1>5, TickLocks
<1>. QED BY <1>1, <1>2, <1>3, <1>4, <1>5 DEF Next, Terminated

\* At the start nobody is in a critical section and every lock is free.
LEMMA InitLocks == Init => LockDiscipline
<1>. SUFFICES ASSUME Init, NEW l \in Lock, NEW t \in Task
              PROVE  lock[l].owner = t <=> l \in Claims(t)
  BY DEF LockDiscipline
<1>1. pc[t] \in {"new", "free"} /\ lock[l].owner = None
  BY DEF Init, Unlocked
<1>. QED BY <1>1, TaskFacts DEF Claims, Evicting, UnloadPc, Task

\* The locks of DaemonState and its load gate are owned exactly by the tasks in
\* their critical sections, at every moment and on every path out of them.
THEOREM LocksAreDisciplined == Spec => []LockDiscipline
<1>1. Init => TypeOK /\ Shape /\ LockDiscipline
  BY InitTypes, InitLocks
<1>2. TypeOK /\ Shape /\ LockDiscipline /\ [Next]_vars => (TypeOK /\ Shape /\ LockDiscipline)'
  BY NextTypes, NextLocks
<1>. QED BY <1>1, <1>2, PTL DEF Spec

\* DaemonState never runs two backend loads at the same time: the load gate.
THEOREM LoadsAreSerial == Spec => []OneLoadAtATime
<1>1. LockDiscipline => OneLoadAtATime
  <2>. SUFFICES ASSUME LockDiscipline, NEW r \in Request, NEW q \in Request,
                       pc[r] = "backend", pc[q] = "backend"
                PROVE  r = q
    BY DEF OneLoadAtATime
  <2>1. Gate \in Claims(r) /\ Gate \in Claims(q)
    BY RequestClaims DEF LoadLocks
  <2>. QED BY <2>1, TaskFacts DEF LockDiscipline
<1>. QED BY <1>1, LocksAreDisciplined, PTL

\* While a handler generates with a model, no other handler does and no task is
\* inside backend.unload for its alias.
THEOREM GenerationIsExclusive == Spec => []GenerationExclusive
<1>1. TypeOK /\ Shape /\ LockDiscipline => GenerationExclusive
  <2>. SUFFICES ASSUME TypeOK, Shape, LockDiscipline, NEW r \in Request, InUse(r)
                PROVE  /\ \A q \in Request \ {r} : InUse(q) => AliasOf(q) # AliasOf(r)
                       /\ \A t \in Task : pc[t] = "unloading" => VictimOf(t) # AliasOf(r)
    BY DEF GenerationExclusive
  <2>1. AliasOf(r) \in Lock /\ Claims(r) = {AliasOf(r)}
    BY WhereFacts, RequestClaims, TaskFacts DEF InUse, UsePc
  <2>2. lock[AliasOf(r)].owner = r
    BY <2>1, TaskFacts DEF LockDiscipline
  <2>3. ASSUME NEW q \in Request \ {r}, InUse(q) PROVE AliasOf(q) # AliasOf(r)
    <3>1. Claims(q) = {AliasOf(q)}
      BY <2>3, RequestClaims DEF InUse
    <3>. QED BY <2>1, <2>2, <3>1, TaskFacts DEF LockDiscipline
  <2>4. ASSUME NEW t \in Task, pc[t] = "unloading" PROVE VictimOf(t) # AliasOf(r)
    <3>1. VictimOf(t) \in Claims(t)
      BY <2>4 DEF Claims
    <3>2. t # r
      BY <2>4 DEF InUse
    <3>. QED BY <2>1, <2>2, <3>1, <3>2 DEF LockDiscipline
  <2>. QED BY <2>3, <2>4
<1>. QED BY <1>1, ShapeInvariant, LocksAreDisciplined, PTL
=============================================================================
