-------------------------- MODULE ModelLifecycleInv --------------------------
(***************************************************************************)
(* The inductive invariant of ModelLifecycle, in named parts: what the     *)
(* safety properties rest on.  ModelLifecycleLocks and the modules after   *)
(* it prove it.                                                            *)
(***************************************************************************)
EXTENDS ModelLifecycle

LoadOp    == {"chat", "embed", "load"}
LoadPc    == {"announce", "load", "lockWait", "gateWait", "check", "evict",
              "backend"}
UsePc     == {"useWait", "held", "using", "ending"}
UnloadPc  == {"unloadWait", "unloading"}

\* t is a load() inside unload(): it is making room
Evicting(t) == /\ t \in Request
               /\ pc[t] \in UnloadPc
               /\ req[t].op # "unload"

\* o created a LoadedModel: its request is known and will not change
Object(o) == /\ o \in Request
             /\ pc[o] # "new"
             /\ AliasOf(o) \in Alias
             /\ RoleOf(o) \in Role

\* what a request asks for, once it has arrived, and which operation is where;
\* a load() never evicts the alias it loads
RequestShape(r) ==
    pc[r] # "new" =>
        /\ req[r].op \in Op
        /\ req[r].op # "cancel" => req[r].alias \in Alias
        /\ req[r].op \in LoadOp => req[r].role \in Role
        /\ req[r].op = "chat" => req[r].id \in Id
        /\ pc[r] \in LoadPc => req[r].op \in LoadOp
        /\ pc[r] \in UsePc => /\ req[r].op \in {"chat", "embed"}
                              /\ Object(loaded[r])
                              /\ AliasOf(loaded[r]) = AliasOf(r)
        /\ pc[r] = "ending" => req[r].op = "chat"
        /\ pc[r] = "unload" => req[r].op = "unload"
        /\ pc[r] \in UnloadPc => req[r].op \in LoadOp \cup {"unload"}
        /\ Evicting(r) => victim[r] \in Alias \ {AliasOf(r)}
        /\ Evicting(r) \/ pc[r] = "evict" => AliasOf(r) \notin todo[r]

\* an idle task belongs to an object, a resident model is one under its alias
TimerShape(u) == pc[u] # "free" => Object(timerOf[u])
ModelShape(a) == models[a] # None => /\ Object(models[a])
                                     /\ AliasOf(models[a]) = a

Shape == /\ \A r \in Request : RequestShape(r)
         /\ \A u \in Timer : TimerShape(u)
         /\ \A a \in Alias : ModelShape(a)

\* The locks under whose protection a task is.
Claims(t) ==
    (IF pc[t] \in {"gateWait", "check", "evict", "backend", "held", "using"}
        \/ Evicting(t) THEN {AliasOf(t)} ELSE {})
    \cup (IF pc[t] \in {"check", "evict", "backend"} \/ Evicting(t)
          THEN {Gate} ELSE {})
    \cup (IF pc[t] = "unloading" THEN {VictimOf(t)} ELSE {})

\* A lock is owned exactly by the task inside its critical section: nobody is
\* in one without the lock, and no path out of one, the failing ones included,
\* leaves the lock behind.
LockDiscipline ==
    \A l \in Lock, t \in Task : lock[l].owner = t <=> l \in Claims(t)

\* r is in the part of load() that finds the alias not resident; from the
\* cap check on it makes room for it.
Making(r)  == pc[r] \in {"evict", "backend"} \/ Evicting(r)
Loading(r) == pc[r] \in {"gateWait", "check"} \/ Making(r)

\* An alias that is being loaded is not resident.
LoadsAreMisses ==
    \A r \in Request : Loading(r) => models[AliasOf(r)] = None

\* since is the strict order of last use of the resident models.
LruOrder ==
    /\ \A a \in Alias : \A b \in since[a] :
          models[a] # None /\ models[b] # None /\ a # b
    /\ \A a, b \in Alias :
          a # b /\ models[a] # None /\ models[b] # None
          => a \in since[b] \/ b \in since[a]
    /\ \A a, b, c \in Alias :
          b \in since[a] /\ c \in since[b] => c \in since[a]

\* What a load() has yet to evict makes the room it needs.
Leaving(r) == IF pc[r] = "backend" THEN {}
              ELSE IF pc[r] = "evict" THEN todo[r] ELSE todo[r] \cup {victim[r]}
Room(r) ==
    Cap[RoleOf(r)] > 0 =>
        Cardinality(Resident(RoleOf(r), AliasOf(r)) \ Leaving(r)) < Cap[RoleOf(r)]
RoomIsMade == \A r \in Request : Making(r) => Room(r)

\* The resident models keep within the cap of their role.
ResidentsFit ==
    \A role \in Role : Cap[role] > 0 => Cardinality(Resident(role, None)) <= Cap[role]

\* The invariant behind the cap.
CapInv == LoadsAreMisses /\ LruOrder /\ RoomIsMade /\ ResidentsFit

\* A countdown that runs is the one its object knows of, and can cancel.
CountsDown(u) == pc[u] \in {"asleep", "due", "unloadWait"}
IdleOwn == \A u \in Timer : CountsDown(u) => idleTask[timerOf[u]] = u

\* A chat that is being announced was resolved when it arrived.
ChatResolved ==
    \A r \in Request : pc[r] = "announce" /\ req[r].op = "chat" =>
        req[r].role \in RolesOf[AliasOf(r)]
=============================================================================
