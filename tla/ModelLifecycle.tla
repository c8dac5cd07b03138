--------------------------- MODULE ModelLifecycle ---------------------------
(***************************************************************************)
(* chirpd's model lifecycle: DaemonState (chirpd/state.py) driven by the   *)
(* request handlers of the Dispatcher (chirpd/dispatcher.py).              *)
(*                                                                         *)
(* chirpd is one asyncio event loop.  A task runs without interruption     *)
(* from one suspension to the next, so an action of this module is what a  *)
(* task does between two awaits that may suspend it.  An action sometimes  *)
(* ends earlier, while its task already owns the lock it works under; no   *)
(* other task can tell the difference.                                     *)
(*                                                                         *)
(* Tasks are the connection handlers (Request, one request each) and the   *)
(* idle-unload tasks (Timer).  A LoadedModel object is named after the     *)
(* request whose load() created it, so models[a] = r says that the object  *)
(* created by r is resident under alias a.                                 *)
(***************************************************************************)
EXTENDS AsyncLock, FiniteSets, Integers

CONSTANTS
    Request,       \* request handler tasks
    Timer,         \* idle-unload tasks that may exist at the same time
    Alias,         \* model identifiers clients name
    Id,            \* request ids clients choose
    RolesOf,       \* RolesOf[a]: the roles the registry resolves alias a for
    Cap,           \* _max_resident: resident models per role, <= 0 is no cap
    KeepAlive,     \* keep_alive classes clients send, see KeepAliveClass
    Ops,           \* operations clients send
    Disconnects    \* TRUE iff clients may drop a connection

Role == {"chat", "embed"}
Gate == "load_gate"
Task == Request \cup Timer
Lock == Alias \cup {Gate}

\* keep_alive: absent or positive (a delay), -1 (pin), 0 (unload at once)
KeepAliveClass == {"delay", "pin", "now"}
Op == {"chat", "embed", "load", "unload", "cancel"}
\* the final events of a request; "gone": nobody was there to read one
Outcome == {"ok", "cancelled", "error", "gone", "capacity", "conflict",
            "not_found"}

ASSUME Assumptions ==
    /\ Request \cap Timer = {} /\ Gate \notin Alias /\ IsFiniteSet(Alias)
    /\ None \notin Task \cup Alias \cup Id \cup KeepAliveClass \cup Outcome
    /\ RolesOf \in [Alias -> SUBSET Role]
    /\ Cap \in [Role -> Int]
    /\ KeepAlive \subseteq KeepAliveClass /\ Ops \subseteq Op
    /\ Disconnects \in BOOLEAN

VARIABLES
    \* the handlers
    req,        \* what each request asks for
    pc,         \* where each task is suspended
    loaded,     \* the LoadedModel a chat or embed handler works on
    outcome,    \* the final event of a request
    \* DaemonState
    lock,       \* _registry_locks and _load_gate
    models,     \* _models: alias to the resident LoadedModel
    since,      \* since[a]: aliases used later than a (the last_used order)
    cancelTab,  \* _cancellation_events: id to the request that registered
    stop,       \* requests whose should_stop event is set
    \* LoadedModel
    handle,     \* what the backend knows of the object's handle
    idleTask,   \* idle_unload_task
    fresh,      \* last_used is later than the start of idle_unload_task
    \* unload() frames, evictions, idle tasks, generation threads
    victim,     \* the alias a task is unloading
    todo,       \* the victims a load() has yet to evict
    timerOf,    \* the LoadedModel an idle task was created for
    worker      \* requests whose generation thread still runs

reqVars   == <<req, loaded, outcome>>
modelVars == <<models, since, handle>>
idleVars  == <<idleTask, fresh, timerOf>>
stopVars  == <<cancelTab, stop>>
vars == <<req, pc, loaded, outcome, lock, models, since, cancelTab, stop,
          handle, idleTask, fresh, victim, todo, timerOf, worker>>

NoReq == [op |-> None, alias |-> None, role |-> None, id |-> None,
          keep |-> None]

Init ==
    /\ req = [r \in Request |-> NoReq]
    /\ pc = [t \in Task |-> IF t \in Request THEN "new" ELSE "free"]
    /\ loaded = [r \in Request |-> None]
    /\ outcome = [r \in Request |-> None]
    /\ lock = [l \in Lock |-> Unlocked]
    /\ models = [a \in Alias |-> None]
    /\ since = [a \in Alias |-> {}]
    /\ cancelTab = [i \in Id |-> None]
    /\ stop = {}
    /\ handle = [r \in Request |-> None]
    /\ idleTask = [r \in Request |-> None]
    /\ fresh = [r \in Request |-> FALSE]
    /\ victim = [r \in Request |-> None]
    /\ todo = [r \in Request |-> {}]
    /\ timerOf = [u \in Timer |-> None]
    /\ worker = {}

-----------------------------------------------------------------------------
(* Helpers *)

AliasOf(o) == req[o].alias
RoleOf(o)  == req[o].role

\* resident models of a role other than the incoming alias
Resident(role, incoming) ==
    {a \in Alias \ {incoming} :
        models[a] # None /\ RoleOf(models[a]) = role}

\* last_used of a's model := now; of an object that is not resident: no effect
Touched(a) ==
    [b \in Alias |-> IF b = a \/ models[b] = None THEN {}
                                                  ELSE since[b] \cup {a}]
TouchedObj(o) == IF models[AliasOf(o)] = o THEN Touched(AliasOf(o)) ELSE since

Forgotten(a) == [b \in Alias |-> IF b = a THEN {} ELSE since[b] \ {a}]

\* MUTANT of Stoppable: only a sleeping task is cancelled
StoppableAsleep(o) ==
    IF idleTask[o] # None /\ pc[idleTask[o]] = "asleep" THEN idleTask[o] ELSE None

\* the idle task of o, if cancelling it still stops it (done: nothing to
\* stop; inside backend.unload: its finally block pops the model all the same)
Stoppable(o) ==
    LET u == idleTask[o] IN
    IF u # None /\ pc[u] \in {"asleep", "due", "unloadWait"} THEN u ELSE None

\* MUTANT of NewTimer: a running countdown is cancelled and not replaced
NewTimerNotReplaced(o, keep) ==
    IF RoleOf(o) # "chat" \/ keep = "pin" \/ Stoppable(o) # None THEN None
    ELSE CHOOSE u \in Timer : pc[u] = "free"

\* the task schedule_idle_unload creates; a cancelled task's name is reused
NewTimer(o, keep) ==
    IF RoleOf(o) # "chat" \/ keep = "pin" THEN None
    ELSE IF Stoppable(o) # None THEN Stoppable(o)
    ELSE CHOOSE u \in Timer : pc[u] = "free"

\* Timer bounds the idle tasks alive at the same time; the runs never meet the
\* bound (Answered would fail)
WithinTimers(o, keep) ==
    \/ RoleOf(o) # "chat" \/ keep = "pin" \/ Stoppable(o) # None
    \/ \E u \in Timer : pc[u] = "free"

\* schedule_idle_unload(o, keep) by task t, which then goes on at `to`.  The
\* caller takes the cancelled task out of the lock queue it may wait in.
ScheduleIdle(o, keep, t, to) ==
    LET old == Stoppable(o)
        new == NewTimer(o, keep) IN
    /\ WithinTimers(o, keep)
    /\ pc' = [x \in Task |->
                 IF x = t THEN to
                 ELSE IF x = new THEN IF keep = "now" THEN "due" ELSE "asleep"
                 ELSE IF x = old THEN "free" ELSE pc[x]]
    /\ timerOf' = [u \in Timer |-> IF u = new THEN o
                                   ELSE IF u = old THEN None ELSE timerOf[u]]
    /\ idleTask' = [idleTask EXCEPT ![o] = new]
    /\ fresh' = [fresh EXCEPT ![o] = FALSE]

\* MUTANT of Cleared: the finally block forgets the id
ClearedNever(r) == cancelTab

\* clear_cancellation: only the entry this request registered
Cleared(r) ==
    IF req[r].op = "chat" /\ cancelTab[req[r].id] = r
    THEN [cancelTab EXCEPT ![req[r].id] = None] ELSE cancelTab

Goto(t, to) == pc' = [pc EXCEPT ![t] = to]
Finish(r, how) == outcome' = [outcome EXCEPT ![r] = how]

-----------------------------------------------------------------------------
(* Requests arrive: Dispatcher.dispatch up to the first suspension *)

Arrives(r, op, a, role, i, keep) ==
    /\ pc[r] = "new" /\ op \in Ops
    /\ req' = [req EXCEPT ![r] = [op |-> op, alias |-> a, role |-> role,
                                  id |-> i, keep |-> keep]]
    /\ UNCHANGED <<loaded, lock, modelVars, idleVars, victim, todo, worker>>

\* chat under an id already in flight is refused before it does anything
ChatConflict(r, a, i, keep) ==
    /\ cancelTab[i] # None
    /\ Arrives(r, "chat", a, "chat", i, keep)
    /\ Goto(r, "done") /\ Finish(r, "conflict")
    /\ UNCHANGED stopVars

\* resolve() fails; the registration is undone in the same step
ChatUnknown(r, a, i, keep) ==
    /\ cancelTab[i] = None /\ "chat" \notin RolesOf[a]
    /\ Arrives(r, "chat", a, "chat", i, keep)
    /\ Goto(r, "done") /\ Finish(r, "not_found")
    /\ UNCHANGED stopVars

\* the id is registered; a model that is not resident is announced first
ChatAccepted(r, a, i, keep) ==
    /\ cancelTab[i] = None /\ "chat" \in RolesOf[a]
    /\ Arrives(r, "chat", a, "chat", i, keep)
    /\ cancelTab' = [cancelTab EXCEPT ![i] = r]
    /\ Goto(r, IF models[a] = None THEN "announce" ELSE "load")
    /\ UNCHANGED <<outcome, stop>>

EmbedArrives(r, a) ==
    /\ Arrives(r, "embed", a, "embed", None, None)
    /\ IF "embed" \in RolesOf[a]
       THEN Goto(r, "load") /\ UNCHANGED outcome
       ELSE Goto(r, "done") /\ Finish(r, "not_found")
    /\ UNCHANGED stopVars

\* model.load announces first and resolves afterwards, in load()
LoadArrives(r, a, role) ==
    /\ Arrives(r, "load", a, role, None, None)
    /\ Goto(r, "announce")
    /\ UNCHANGED <<outcome, stopVars>>

UnloadArrives(r, a) ==
    /\ Arrives(r, "unload", a, None, None, None)
    /\ Goto(r, "unload")
    /\ UNCHANGED <<outcome, stopVars>>

\* cancel sets the event registered under the id, if there is one
CancelArrives(r, i) ==
    /\ Arrives(r, "cancel", None, None, i, None)
    /\ Goto(r, "done")
    /\ IF cancelTab[i] = None
       THEN Finish(r, "not_found") /\ UNCHANGED stop
       ELSE Finish(r, "ok") /\ stop' = stop \cup {cancelTab[i]}
    /\ UNCHANGED cancelTab

\* the loading event is written, or the client is gone
Announced(r) ==
    /\ pc[r] = "announce"
    /\ IF req[r].role \in RolesOf[req[r].alias]
       THEN Goto(r, "load") /\ UNCHANGED outcome
       ELSE Goto(r, "done") /\ Finish(r, "not_found")
    /\ UNCHANGED <<req, loaded, lock, modelVars, idleVars, stopVars, victim,
                   todo, worker>>

AnnounceFails(r) ==
    /\ pc[r] = "announce" /\ Disconnects
    /\ Goto(r, "done") /\ Finish(r, "gone")
    /\ cancelTab' = Cleared(r)
    /\ UNCHANGED <<req, loaded, lock, modelVars, idleVars, stop, victim,
                   todo, worker>>

-----------------------------------------------------------------------------
(* DaemonState.load *)

\* load() found o resident under the lock, released the lock (lk) and returned;
\* a chat or embed handler asks for the same lock again in the same step
LoadReturns(r, o, lk) ==
    /\ lock' = [lock EXCEPT ![AliasOf(r)] =
                   IF req[r].op = "load" THEN lk ELSE Acquire(lk, r)]
    /\ loaded' = [loaded EXCEPT ![r] = IF req[r].op = "load" THEN None ELSE o]
    /\ outcome' = [outcome EXCEPT ![r] = IF req[r].op = "load" THEN "ok"
                                                               ELSE @]

\* MUTANT of AfterLoad: the handler goes on without waiting for loaded.lock
AfterLoadUnlocked(r, lk) == IF req[r].op = "load" THEN "done" ELSE "held"

AfterLoad(r, lk) ==
    CASE req[r].op = "load" -> "done"
      [] req[r].op # "load" /\ Uncontended(lk) -> "held"
      [] OTHER -> "useWait"

\* the alias is resident: touch, restart the idle countdown, return
LoadHit(r, lkFree) ==
    LET o  == models[AliasOf(r)]
        lk == Abandon(lkFree, Stoppable(o)) IN
    /\ o # None
    /\ LoadReturns(r, o, lk)
    /\ since' = Touched(AliasOf(r))
    /\ ScheduleIdle(o, "delay", r, AfterLoad(r, lk))
    /\ UNCHANGED <<req, models, handle, stopVars, victim, todo, worker>>

\* MUTANT of LoadMiss: no load gate
LoadMissUngated(r, lkHeld) ==
    /\ models[AliasOf(r)] = None
    /\ lock' = [lock EXCEPT ![AliasOf(r)] = lkHeld]
    /\ Goto(r, "check")
    /\ UNCHANGED <<reqVars, modelVars, idleVars, stopVars, victim, todo, worker>>

\* not resident: keep the alias lock and ask for the load gate.  (The second
\* look at _models under the gate finds what this one found: only the holder
\* of the alias lock inserts the alias.)
LoadMiss(r, lkHeld) ==
    /\ models[AliasOf(r)] = None
    /\ lock' = [lock EXCEPT ![AliasOf(r)] = lkHeld, ![Gate] = Acquire(@, r)]
    /\ Goto(r, IF Uncontended(lock[Gate]) THEN "check" ELSE "gateWait")
    /\ UNCHANGED <<reqVars, modelVars, idleVars, stopVars, victim, todo, worker>>

LoadStart(r) ==
    /\ pc[r] = "load"
    /\ LET lk == lock[AliasOf(r)] IN
       IF Uncontended(lk)
       THEN LoadHit(r, lk) \/ LoadMiss(r, Acquire(lk, r))
       ELSE /\ lock' = [lock EXCEPT ![AliasOf(r)] = Acquire(lk, r)]
            /\ Goto(r, "lockWait")
            /\ UNCHANGED <<reqVars, modelVars, idleVars, stopVars, victim,
                           todo, worker>>

LoadWoken(r) ==
    /\ pc[r] = "lockWait" /\ Woken(lock[AliasOf(r)], r)
    /\ LET lk == lock[AliasOf(r)] IN
       LoadHit(r, Pass(lk)) \/ LoadMiss(r, Take(lk, r))

GateWoken(r) ==
    /\ pc[r] = "gateWait" /\ Woken(lock[Gate], r)
    /\ lock' = [lock EXCEPT ![Gate] = Take(@, r)]
    /\ Goto(r, "check")
    /\ UNCHANGED <<reqVars, modelVars, idleVars, stopVars, victim, todo, worker>>

\* MUTANT of LoadAborts: the gate is not released on the way out
LoadAbortsGated(r, how, extra) ==
    /\ lock' = [l \in Lock |-> IF l \in {AliasOf(r)} \cup extra
                               THEN Release(lock[l]) ELSE lock[l]]
    /\ Goto(r, "done") /\ Finish(r, how)
    /\ cancelTab' = Cleared(r)
    /\ UNCHANGED <<req, loaded, stop, idleVars, worker>>

\* an exception leaves load(): both locks are released on the way out
LoadAborts(r, how, extra) ==
    /\ lock' = [l \in Lock |-> IF l \in {AliasOf(r), Gate} \cup extra
                               THEN Release(lock[l]) ELSE lock[l]]
    /\ Goto(r, "done") /\ Finish(r, how)
    /\ cancelTab' = Cleared(r)
    /\ UNCHANGED <<req, loaded, stop, idleVars, worker>>

\* MUTANT of Overflow: the incoming model is not counted
OverflowWithoutIncoming(r) ==
    Cardinality(Resident(RoleOf(r), AliasOf(r))) - Cap[RoleOf(r)]

\* _enforce_resident_cap
Overflow(r)  == Cardinality(Resident(RoleOf(r), AliasOf(r))) - Cap[RoleOf(r)] + 1
Evictable(r) == {a \in Resident(RoleOf(r), AliasOf(r)) : ~Locked(lock[a])}
Capped(r)    == Cap[RoleOf(r)] > 0 /\ Overflow(r) > 0

\* MUTANT of Victims: one too few
VictimsTooFew(r) ==
    {a \in Evictable(r) : Cardinality(Evictable(r) \ since[a]) < Overflow(r)}

\* the Overflow(r) least recently used of the evictable models
Victims(r) ==
    {a \in Evictable(r) : Cardinality(Evictable(r) \ since[a]) <= Overflow(r)}

CapFull(r) ==
    /\ pc[r] = "check" /\ Capped(r)
    /\ Cardinality(Evictable(r)) < Overflow(r)
    /\ LoadAborts(r, "capacity", {})
    /\ UNCHANGED <<modelVars, victim, todo>>

\* backend.load returns: insert, start the idle countdown, release both locks
LoadInserts(r) ==
    /\ pc[r] = "backend"
    /\ LET a == AliasOf(r)
           lk == Release(lock[a]) IN
       /\ models' = [models EXCEPT ![a] = r]
       /\ handle' = [handle EXCEPT ![r] = "live"]
       /\ since' = Touched(a)
       /\ lock' = [lock EXCEPT
                     ![a] = IF req[r].op = "load" THEN lk ELSE Acquire(lk, r),
                     ![Gate] = Release(@)]
       /\ loaded' = [loaded EXCEPT ![r] = IF req[r].op = "load" THEN None ELSE r]
       /\ outcome' = [outcome EXCEPT ![r] = IF req[r].op = "load" THEN "ok" ELSE @]
       /\ ScheduleIdle(r, "delay", r, AfterLoad(r, lk))
    /\ UNCHANGED <<req, stopVars, victim, todo, worker>>

BackendLoadFails(r) ==
    /\ pc[r] = "backend"
    /\ LoadAborts(r, "error", {})
    /\ UNCHANGED <<modelVars, victim, todo>>

-----------------------------------------------------------------------------
(* DaemonState.unload: by a model.unload handler, an eviction or an idle task *)

VictimOf(t) == IF t \in Timer THEN AliasOf(timerOf[t])
               ELSE IF req[t].op = "unload" THEN req[t].alias ELSE victim[t]

\* MUTANT of ReturnPc: an idle task goes on like a load()
ReturnPcAsLoad(t) ==
    IF t \in Request /\ req[t].op = "unload" THEN "done" ELSE "evict"

\* where the caller of unload() goes on
ReturnPc(t) == IF t \in Timer THEN "free"
               ELSE IF req[t].op = "unload" THEN "done" ELSE "evict"

UnloadReturns(t) ==
    /\ Goto(t, ReturnPc(t))
    /\ outcome' = [r \in Request |-> IF r = t /\ req[r].op = "unload"
                                     THEN "ok" ELSE outcome[r]]
    /\ timerOf' = [u \in Timer |-> IF u = t THEN None ELSE timerOf[u]]
    /\ idleTask' = [o \in Request |-> IF idleTask[o] = t THEN None
                                                         ELSE idleTask[o]]
    /\ victim' = [x \in Request |-> IF x = t THEN None ELSE victim[x]]

\* under the alias lock: cancel the resident's idle task (unless t is that
\* task), then backend.unload empties the handle and suspends
UnloadBegins(t, v, lkHeld) ==
    LET o   == models[v]
        old == IF Stoppable(o) = t THEN None ELSE Stoppable(o) IN
    /\ o # None
    /\ lock' = [lock EXCEPT ![v] = Abandon(lkHeld, old)]
    /\ pc' = [x \in Task |-> IF x = t THEN "unloading"
                             ELSE IF x = old THEN "free" ELSE pc[x]]
    /\ timerOf' = [u \in Timer |-> IF u = old THEN None ELSE timerOf[u]]
    /\ idleTask' = [idleTask EXCEPT ![o] = None]
    /\ handle' = [handle EXCEPT ![o] = "dead"]
    /\ UNCHANGED <<outcome, models, since, fresh>>

\* unload(v) up to its first suspension
UnloadEnters(t, v) ==
    /\ \/ /\ models[v] = None
          /\ UnloadReturns(t)
          /\ UNCHANGED <<lock, modelVars, fresh>>
       \/ /\ Uncontended(lock[v])
          /\ UnloadBegins(t, v, Acquire(lock[v], t))
          /\ victim' = [x \in Request |-> IF x = t THEN v ELSE victim[x]]
       \/ /\ models[v] # None /\ ~Uncontended(lock[v])
          /\ lock' = [lock EXCEPT ![v] = Acquire(@, t)]
          /\ Goto(t, "unloadWait")
          /\ victim' = [x \in Request |-> IF x = t THEN v ELSE victim[x]]
          /\ UNCHANGED <<outcome, modelVars, idleVars>>
    /\ UNCHANGED <<req, loaded, stopVars, worker>>

UnloadStart(r) ==
    /\ pc[r] = "unload"
    /\ UnloadEnters(r, req[r].alias)
    /\ UNCHANGED todo

\* unload the next of the victims vs (ResidentCap leaves at most one, so their
\* order does not matter); when they are all gone, backend.load starts
Evicts(r, vs) ==
    IF vs = {}
    THEN /\ Goto(r, "backend")
         /\ UNCHANGED <<reqVars, lock, modelVars, idleVars, stopVars, victim,
                        todo, worker>>
    ELSE \E v \in vs : /\ todo' = [todo EXCEPT ![r] = vs \ {v}]
                       /\ UnloadEnters(r, v)

\* the cap check; the first eviction begins in the same step
CapCheck(r) ==
    /\ pc[r] = "check"
    /\ Capped(r) => Cardinality(Evictable(r)) >= Overflow(r)
    /\ Evicts(r, IF Capped(r) THEN Victims(r) ELSE {})

EvictNext(r) == pc[r] = "evict" /\ Evicts(r, todo[r])

\* the alias lock arrives; the model may be gone by then
UnloadWoken(t) ==
    /\ pc[t] = "unloadWait"
    /\ LET v == VictimOf(t) IN
       /\ Woken(lock[v], t)
       /\ \/ /\ models[v] = None
             /\ lock' = [lock EXCEPT ![v] = Pass(@)]
             /\ UnloadReturns(t)
             /\ UNCHANGED <<modelVars, fresh>>
          \/ /\ UnloadBegins(t, v, Take(lock[v], t))
             /\ UNCHANGED victim
    /\ UNCHANGED <<req, loaded, stopVars, todo, worker>>

\* backend.unload returns: pop the model, release the lock
UnloadDone(t) ==
    /\ pc[t] = "unloading"
    /\ LET v == VictimOf(t) IN
       /\ models' = [models EXCEPT ![v] = None]
       /\ since' = Forgotten(v)
       /\ lock' = [lock EXCEPT ![v] = Release(@)]
    /\ UnloadReturns(t)
    /\ UNCHANGED <<req, loaded, stopVars, handle, fresh, todo, worker>>

\* backend.unload raises: the model is popped all the same and the exception
\* ends the caller (a load() that was making room gives up both its locks)
UnloadFails(r) ==
    /\ pc[r] = "unloading"
    /\ LET v == VictimOf(r) IN
       /\ models' = [models EXCEPT ![v] = None]
       /\ since' = Forgotten(v)
       /\ IF req[r].op = "unload"
          THEN /\ lock' = [lock EXCEPT ![v] = Release(@)]
               /\ Goto(r, "done") /\ Finish(r, "error")
               /\ UNCHANGED <<req, loaded, stopVars, idleVars, worker>>
          ELSE LoadAborts(r, "error", {v})
    /\ victim' = [victim EXCEPT ![r] = None]
    /\ todo' = [todo EXCEPT ![r] = {}]
    /\ UNCHANGED handle

-----------------------------------------------------------------------------
(* The generation, under loaded.lock *)

UseWoken(r) ==
    /\ pc[r] = "useWait" /\ Woken(lock[AliasOf(r)], r)
    /\ lock' = [lock EXCEPT ![AliasOf(r)] = Take(@, r)]
    /\ Goto(r, "held")
    /\ UNCHANGED <<reqVars, modelVars, idleVars, stopVars, victim, todo, worker>>

\* the backend finds its model and tokenizer (or processor) in the handle
Usable(r) == /\ handle[loaded[r]] = "live"
             /\ RoleOf(loaded[r]) = req[r].op

\* touch (chat only), then the generation thread starts
UseStarts(r) ==
    /\ pc[r] = "held" /\ Usable(r)
    /\ Goto(r, "using")
    /\ worker' = worker \cup {r}
    /\ IF req[r].op = "chat"
       THEN /\ since' = TouchedObj(loaded[r])
            /\ fresh' = [fresh EXCEPT ![loaded[r]] = TRUE]
       ELSE UNCHANGED <<since, fresh>>
    /\ UNCHANGED <<reqVars, lock, models, handle, idleTask, timerOf, stopVars,
                   victim, todo>>

\* release the lock with `to` still ahead of the handler
Releases(r, to, how) ==
    /\ lock' = [lock EXCEPT ![AliasOf(r)] = Release(@)]
    /\ Goto(r, to) /\ Finish(r, how)

\* _handle_chat ends: the finally block, in one step with what precedes it
ChatEnds(r, lk) ==
    LET o == loaded[r] IN
    /\ lock' = [lock EXCEPT ![AliasOf(r)] = Abandon(lk, Stoppable(o))]
    /\ cancelTab' = Cleared(r)
    /\ ScheduleIdle(o, req[r].keep, r, "done")

\* an error under the lock: the handler answers it and returns
ChatErrs(r) ==
    /\ req[r].op = "chat"
    /\ \/ pc[r] = "held" /\ ~Usable(r) /\ since' = TouchedObj(loaded[r])
       \/ pc[r] = "using" /\ UNCHANGED since
    /\ ChatEnds(r, Release(lock[AliasOf(r)]))
    /\ Finish(r, "error")
    /\ worker' = worker \ {r}
    /\ UNCHANGED <<req, loaded, models, handle, stop, victim, todo>>

\* the stream ends, on its own or because should_stop was seen; in the second
\* case the loop may break while the thread is still at its next token
ChatStreamed(r) ==
    /\ pc[r] = "using" /\ req[r].op = "chat"
    /\ \/ Releases(r, "ending", "ok") /\ worker' = worker \ {r}
       \/ /\ r \in stop
          /\ Releases(r, "ending", "cancelled")
          /\ worker' \in {worker, worker \ {r}}
    /\ since' = TouchedObj(loaded[r])
    /\ fresh' = [fresh EXCEPT ![loaded[r]] = TRUE]
    /\ UNCHANGED <<req, loaded, models, handle, idleTask, timerOf, stopVars,
                   victim, todo>>

\* the client is gone: should_stop is set, nothing is rescheduled
ChatDropped(r) ==
    /\ pc[r] = "using" /\ req[r].op = "chat" /\ Disconnects
    /\ Releases(r, "done", "gone")
    /\ stop' = stop \cup {r}
    /\ cancelTab' = Cleared(r)
    /\ since' = TouchedObj(loaded[r])
    /\ fresh' = [fresh EXCEPT ![loaded[r]] = TRUE]
    /\ UNCHANGED <<req, loaded, models, handle, idleTask, timerOf, victim, todo,
                   worker>>

\* the last event is out (or failed); the finally block
ChatReplied(r) ==
    /\ pc[r] = "ending"
    /\ ChatEnds(r, lock[AliasOf(r)])
    /\ UNCHANGED <<reqVars, modelVars, stop, victim, todo, worker>>

EmbedEnds(r) ==
    /\ req[r].op = "embed"
    /\ \/ /\ pc[r] = "using"
          /\ Releases(r, "done", "ok")
          /\ since' = TouchedObj(loaded[r])
          /\ fresh' = [fresh EXCEPT ![loaded[r]] = TRUE]
       \/ /\ pc[r] = "using" \/ (pc[r] = "held" /\ ~Usable(r))
          /\ Releases(r, "done", "error")
          /\ UNCHANGED <<since, fresh>>
    /\ worker' = worker \ {r}
    /\ UNCHANGED <<req, loaded, models, handle, idleTask, timerOf, stopVars,
                   victim, todo>>

\* a generation thread left behind by a break reaches its next token and stops
WorkerExits(r) ==
    /\ r \in worker /\ pc[r] # "using"
    /\ worker' = worker \ {r}
    /\ UNCHANGED <<reqVars, pc, lock, modelVars, idleVars, stopVars, victim, todo>>

-----------------------------------------------------------------------------
(* Idle tasks *)

\* the delay is over while the model is in flight: start over
TimerDefers(u) ==
    /\ pc[u] = "asleep"
    /\ Locked(lock[AliasOf(timerOf[u])])
    /\ fresh' = [fresh EXCEPT ![timerOf[u]] = FALSE]
    /\ UNCHANGED <<reqVars, pc, lock, modelVars, idleTask, timerOf, stopVars,
                   victim, todo, worker>>

\* the delay is over but the model was used since: the task just ends
TimerSkips(u) ==
    /\ pc[u] = "asleep"
    /\ ~Locked(lock[AliasOf(timerOf[u])]) /\ fresh[timerOf[u]]
    /\ Goto(u, "free")
    /\ timerOf' = [timerOf EXCEPT ![u] = None]
    /\ idleTask' = [idleTask EXCEPT ![timerOf[u]] = None]
    /\ UNCHANGED <<reqVars, lock, modelVars, fresh, stopVars, victim, todo, worker>>

\* the delay is over since the last use too (a late wake-up, if fresh), or
\* the task was created for an immediate unload: unload the ALIAS
TimerUnloads(u) ==
    /\ \/ pc[u] = "asleep" /\ ~Locked(lock[AliasOf(timerOf[u])])
       \/ pc[u] = "due"
    /\ UnloadEnters(u, AliasOf(timerOf[u]))
    /\ UNCHANGED todo

-----------------------------------------------------------------------------
(* Specification *)

Arrival(r) ==
    \/ \E a \in Alias, i \in Id, k \in KeepAlive :
          ChatConflict(r, a, i, k) \/ ChatUnknown(r, a, i, k) \/ ChatAccepted(r, a, i, k)
    \/ \E a \in Alias : EmbedArrives(r, a) \/ UnloadArrives(r, a)
    \/ \E a \in Alias, role \in Role : LoadArrives(r, a, role)
    \/ \E i \in Id : CancelArrives(r, i)

\* what the event loop owes a request: none of it waits for a client
Serve(r) ==
    \/ Announced(r) \/ LoadStart(r) \/ LoadWoken(r) \/ GateWoken(r)
    \/ CapFull(r) \/ CapCheck(r) \/ EvictNext(r) \/ LoadInserts(r)
    \/ UnloadStart(r) \/ UnloadWoken(r) \/ UnloadDone(r)
    \/ UseWoken(r) \/ UseStarts(r) \/ ChatErrs(r) \/ ChatStreamed(r) \/ ChatReplied(r)
    \/ EmbedEnds(r) \/ WorkerExits(r)

\* what may go wrong from outside
Mishap(r) == AnnounceFails(r) \/ ChatDropped(r) \/ BackendLoadFails(r) \/ UnloadFails(r)

Tick(u) ==
    TimerDefers(u) \/ TimerSkips(u) \/ TimerUnloads(u) \/ UnloadWoken(u) \/ UnloadDone(u)

\* every request is served and no idle task is left
Terminated ==
    /\ \A r \in Request : pc[r] = "done"
    /\ \A u \in Timer : pc[u] = "free"
    /\ worker = {}
    /\ UNCHANGED vars

Next ==
    \/ \E r \in Request : Arrival(r) \/ Serve(r) \/ Mishap(r)
    \/ \E u \in Timer : Tick(u)
    \/ Terminated

Spec == Init /\ [][Next]_vars

\* The event loop runs every ready task, backends return, and time passes.
FairSpec == Spec /\ (\A r \in Request : WF_vars(Serve(r)))
                 /\ (\A u \in Timer : WF_vars(Tick(u)))

-----------------------------------------------------------------------------
(* Properties *)

RequestPc == {"new", "announce", "load", "lockWait", "gateWait", "check",
              "evict", "backend", "useWait", "held", "using", "ending",
              "unload", "unloadWait", "unloading", "done"}
TimerPc == {"free", "asleep", "due", "unloadWait", "unloading"}

\* The types of all variables.
TypeOK ==
    /\ req \in [Request -> [op : Op \cup {None}, alias : Alias \cup {None},
                            role : Role \cup {None}, id : Id \cup {None},
                            keep : KeepAliveClass \cup {None}]]
    /\ pc \in [Task -> RequestPc \cup TimerPc]
    /\ \A r \in Request : pc[r] \in RequestPc
    /\ \A u \in Timer : pc[u] \in TimerPc
    /\ loaded \in [Request -> Request \cup {None}]
    /\ outcome \in [Request -> Outcome \cup {None}]
    /\ lock \in [Lock -> LockType(Task)]
    /\ models \in [Alias -> Request \cup {None}]
    /\ since \in [Alias -> SUBSET Alias]
    /\ cancelTab \in [Id -> Request \cup {None}]
    /\ stop \in SUBSET Request
    /\ handle \in [Request -> {"live", "dead", None}]
    /\ idleTask \in [Request -> Timer \cup {None}]
    /\ fresh \in [Request -> BOOLEAN]
    /\ victim \in [Request -> Alias \cup {None}]
    /\ todo \in [Request -> SUBSET Alias]
    /\ timerOf \in [Timer -> Request \cup {None}]
    /\ worker \in SUBSET Request

\* Models of a role that occupy memory: resident, being unloaded (popped only
\* after backend.unload) or being loaded by the backend right now.
InMemory(role) ==
    {a \in Alias : models[a] # None /\ RoleOf(models[a]) = role}
    \cup {AliasOf(r) : r \in {x \in Request : pc[x] = "backend" /\ RoleOf(x) = role}}

\* The resident cap holds at every moment, the loads in progress included: two
\* concurrent loads of different aliases never both pass the cap check.
ResidentCap ==
    \A role \in Role : Cap[role] > 0 => Cardinality(InMemory(role)) <= Cap[role]

\* backend.load never runs twice at the same time, whatever the roles.
OneLoadAtATime ==
    \A r, q \in Request : pc[r] = "backend" /\ pc[q] = "backend" => r = q

\* While a handler generates with a model, no other handler does and no task
\* is inside backend.unload for that alias.
InUse(r) == pc[r] \in {"held", "using"}
GenerationExclusive ==
    \A r \in Request : InUse(r) =>
        /\ \A q \in Request \ {r} : InUse(q) => AliasOf(q) # AliasOf(r)
        /\ \A t \in Task : pc[t] = "unloading" => VictimOf(t) # AliasOf(r)

\* Every chat that passed the duplicate check and has not ended is the one a
\* cancel of its id reaches; an id no chat is working under maps to nothing.
InFlight(r) == req[r].op = "chat" /\ pc[r] \notin {"new", "done"}
CancelReaches ==
    /\ \A r \in Request : InFlight(r) => cancelTab[req[r].id] = r
    /\ \A i \in Id : cancelTab[i] # None =>
          InFlight(cancelTab[i]) /\ req[cancelTab[i]].id = i

\* A model object has at most one idle task that can still unload it: an older
\* deadline never cuts a countdown short that a later use restarted.
OneCountdown ==
    \A u, v \in Timer :
        /\ pc[u] \in {"asleep", "due", "unloadWait"}
        /\ pc[v] \in {"asleep", "due", "unloadWait"}
        /\ timerOf[u] = timerOf[v]
        => u = v

\* FR6 (prd.md:456): "chirpd keeps embedding-role models resident indefinitely; the
\* idle-unload timer does not apply to embedding models": a resident embed model
\* leaves memory only by a model.unload request or for another load.  (The idle
\* task of a chat model names an alias; state.py:422, 431.)
EmbedPinned ==
    [][\A a \in Alias :
          models[a] # None /\ RoleOf(models[a]) = "embed" /\ models'[a] = None
          => \E r \in Request : pc[r] = "unloading" /\ VictimOf(r) = a]_vars

\* A resident chat model that nobody holds or awaits, and that no chat is about
\* to reschedule, has its idle countdown running, unless its last user pinned it
\* or some client dropped its connection.
Awaited(a) ==
    \/ ~Uncontended(lock[a])
    \/ \E r \in Request : pc[r] = "ending" /\ AliasOf(r) = a
CountdownRuns ==
    \/ \E r \in Request : outcome[r] = "gone" \/ req[r].keep = "pin"
    \/ \A a \in Alias :
           models[a] # None /\ RoleOf(models[a]) = "chat" /\ ~Awaited(a)
           => Stoppable(models[a]) # None

\* An idle task unloads the object it was created for, not a later one that
\* took its alias.
IdleUnloadsOwn ==
    \A u \in Timer : pc[u] = "unloading" => models[VictimOf(u)] = timerOf[u]

\* No generation thread works on a handle that another one works on or that
\* was unloaded.
ThreadsApart ==
    \A r \in worker : /\ handle[loaded[r]] = "live"
                      /\ \A q \in worker \ {r} : loaded[q] # loaded[r]

\* No set of tasks waits for locks that members of the set own.
LockAwaitedBy(t) ==
    IF pc[t] = "gateWait" THEN Gate
    ELSE IF pc[t] = "unloadWait" THEN VictimOf(t) ELSE AliasOf(t)
Waiting == {t \in Task : pc[t] \in {"lockWait", "gateWait", "useWait", "unloadWait"}}
NoLockCycle ==
    \A S \in SUBSET Waiting \ {{}} : \E t \in S : lock[LockAwaitedBy(t)].owner \notin S

\* Every request that arrives is answered.
Answered == \A r \in Request : pc[r] # "new" ~> pc[r] = "done"

\* A chat model that is not pinned does not stay resident for ever.
IdleModelsUnload == \A a \in Alias :
    (models[a] # None /\ RoleOf(models[a]) = "chat") ~> models[a] = None

-----------------------------------------------------------------------------
(* Refinement *)

Loader(a)   == {r \in Request : pc[r] = "backend" /\ AliasOf(r) = a}
Unloader(a) == {t \in Task : pc[t] = "unloading" /\ VictimOf(t) = a}

PhaseOf(a) ==
    IF Loader(a) # {} THEN "loading"
    ELSE IF models[a] = None THEN "absent"
    ELSE IF Unloader(a) # {} THEN "unloading" ELSE "resident"

KindOf(a) ==
    IF models[a] # None THEN RoleOf(models[a])
    ELSE IF Loader(a) # {} THEN RoleOf(CHOOSE r \in Loader(a) : TRUE)
    ELSE None

Residency == INSTANCE ModelResidency WITH
    phase <- [a \in Alias |-> PhaseOf(a)],
    kind  <- [a \in Alias |-> KindOf(a)],
    inUse <- {AliasOf(r) : r \in {x \in Request : InUse(x)}}

\* DaemonState and the dispatcher keep the promises of ModelResidency.
ImplementsResidency == Residency!Spec
=============================================================================
