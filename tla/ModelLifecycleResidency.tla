----------------------- MODULE ModelLifecycleResidency -----------------------
(***************************************************************************)
(* How models stay and go: the daemon implements ModelResidency, and a     *)
(* chat model that nobody uses has its idle countdown running.             *)
(***************************************************************************)
EXTENDS ModelLifecyclePromises

-----------------------------------------------------------------------------
(* The refinement of ModelResidency *)

\* What task t does to the model of alias a: at most one task does anything.
Doing(t, a) ==
    IF t \in Request /\ pc[t] = "backend" /\ AliasOf(t) = a THEN "load"
    ELSE IF pc[t] = "unloading" /\ VictimOf(t) = a THEN "unload"
    ELSE IF t \in Request /\ InUse(t) /\ AliasOf(t) = a THEN "use" ELSE "nothing"

Used == {AliasOf(r) : r \in {x \in Request : InUse(x)}}

\* The lock of the alias sees to that.
Apart == \A a \in Alias : \A t \in Task : \A x \in Task \ {t} :
            Doing(t, a) # "nothing" => Doing(x, a) = "nothing"
LEMMA DoingApart == LockDiscipline => Apart
<1>. SUFFICES ASSUME LockDiscipline, NEW a \in Alias, NEW t \in Task, NEW x \in Task \ {t},
                     Doing(t, a) # "nothing"
              PROVE  Doing(x, a) = "nothing"
  BY DEF Apart
<1>1. \A y \in Task : Doing(y, a) # "nothing" => a \in Claims(y)
  BY DEF Doing, Claims, InUse
<1>2. a \in Lock
  BY TaskFacts
<1>. QED BY <1>1, <1>2 DEF LockDiscipline

\* An alias seen through the one task that may be at it.
SeenAs(t, a) ==
    /\ PhaseOf(a) = IF Doing(t, a) = "load" THEN "loading"
                    ELSE IF models[a] = None THEN "absent"
                    ELSE IF Doing(t, a) = "unload" THEN "unloading" ELSE "resident"
    /\ KindOf(a) = IF models[a] # None THEN RoleOf(models[a])
                   ELSE IF Doing(t, a) = "load" THEN RoleOf(t) ELSE None
    /\ a \in Used <=> Doing(t, a) = "use"
SeenThrough == \A t \in Task, a \in Alias :
    (\A x \in Task \ {t} : Doing(x, a) = "nothing") => SeenAs(t, a)

LEMMA ThroughOne == SeenThrough
<1>. SUFFICES ASSUME NEW t \in Task, NEW a \in Alias,
                     \A x \in Task \ {t} : Doing(x, a) = "nothing"
              PROVE  SeenAs(t, a)
  BY DEF SeenThrough
<1>1. Loader(a) = IF Doing(t, a) = "load" THEN {t} ELSE {}
  BY TaskFacts DEF Loader, Doing
<1>2. Unloader(a) = IF Doing(t, a) = "unload" THEN {t} ELSE {}
  BY TaskFacts DEF Unloader, Doing
<1>3. a \in Used <=> Doing(t, a) = "use"
  <2>1. ASSUME NEW x \in Request, InUse(x), AliasOf(x) = a PROVE Doing(x, a) = "use"
    BY <2>1 DEF Doing, InUse
  <2>2. Doing(t, a) = "use" => t \in Request /\ InUse(t) /\ AliasOf(t) = a
    BY DEF Doing
  <2>. QED BY <2>1, <2>2, TaskFacts DEF Used
<1>4. Doing(t, a) = "load" => RoleOf(CHOOSE x \in Loader(a) : TRUE) = RoleOf(t)
  BY <1>1
<1>. QED BY <1>1, <1>2, <1>3, <1>4 DEF PhaseOf, KindOf, SeenAs

\* A step of t leaves to the others what they do.
LEMMA OthersDo ==
    ASSUME TypeOK, TypeOK', NEW t \in Task, OthersKeep(t), NEW x \in Task \ {t}, NEW a
    PROVE  Doing(x, a)' = Doing(x, a)
BY TaskFacts DEF OthersKeep, Doing, VictimOf, InUse, AliasOf, Task

\* Where everybody does what it did, with the same model, nothing is seen.
LEMMA NotSeen ==
    ASSUME Shape, NEW a \in Alias, \A x \in Task : Doing(x, a)' = Doing(x, a),
           models'[a] = models[a], \A o \in Request : pc[o] # "new" => req'[o] = req[o]
    PROVE  /\ PhaseOf(a)' = PhaseOf(a) /\ KindOf(a)' = KindOf(a)
           /\ a \in Used' <=> a \in Used
<1>1. Loader(a)' = Loader(a)
  <2>1. Loader(a) = {x \in Request : Doing(x, a) = "load"}
    BY DEF Loader, Doing
  <2>2. Loader(a)' = {x \in Request : Doing(x, a)' = "load"}
    BY DEF Loader, Doing
  <2>. QED BY <2>1, <2>2, TaskFacts
<1>2. Unloader(a)' = Unloader(a)
  <2>1. Unloader(a) = {x \in Task : Doing(x, a) = "unload"}
    BY DEF Unloader, Doing
  <2>2. Unloader(a)' = {x \in Task : Doing(x, a)' = "unload"}
    BY DEF Unloader, Doing
  <2>. QED BY <2>1, <2>2
<1>3. a \in Used' <=> a \in Used
  <2>1. a \in Used <=> \E x \in Request : Doing(x, a) = "use"
    BY DEF Used, Doing, InUse
  <2>2. a \in Used' <=> \E x \in Request : Doing(x, a)' = "use"
    BY DEF Used, Doing, InUse
  <2>. QED BY <2>1, <2>2, TaskFacts
<1>4. PhaseOf(a)' = PhaseOf(a)
  BY <1>1, <1>2 DEF PhaseOf
<1>5. KindOf(a)' = KindOf(a)
  <2>1. models[a] # None => RoleOf(models[a])' = RoleOf(models[a]) /\ models'[a] = models[a]
    BY DEF Shape, ModelShape, Object, RoleOf
  <2>. DEFINE x == CHOOSE x \in Loader(a) : TRUE
  <2>2. Loader(a) # {} => req'[x] = req[x]
    <3>1. Loader(a) # {} => x \in Loader(a)
      OBVIOUS
    <3>. QED BY <3>1 DEF Loader
  <2>3. x' = x
    BY <1>1
  <2>. HIDE DEF x
  <2>4. KindOf(a) = IF models[a] # None THEN RoleOf(models[a])
                    ELSE IF Loader(a) # {} THEN req[x].role ELSE None
    BY DEF KindOf, RoleOf, x
  <2>5. KindOf(a)' = IF models'[a] # None THEN RoleOf(models[a])'
                     ELSE IF Loader(a) # {} THEN req'[x].role ELSE None
    BY <1>1, <2>3 DEF KindOf, RoleOf, x
  <2>. QED BY <2>1, <2>2, <2>4, <2>5
<1>. QED BY <1>3, <1>4, <1>5

-----------------------------------------------------------------------------
(* A step as a step of ModelResidency *)

\* Nothing is seen of a step anywhere but at alias a.
OnlyAt(a) == \A b \in Alias \ {a} : /\ PhaseOf(b)' = PhaseOf(b) /\ KindOf(b)' = KindOf(b)
                                    /\ b \in Used' <=> b \in Used

LEMMA UsedAliases == Shape => Used \subseteq Alias
BY WhereFacts DEF Used, InUse, UsePc

\* What is seen at a, one abstract action after the other.
LEMMA SeenBeginLoad ==
    ASSUME NEW a \in Alias, NEW role \in Role, OnlyAt(a), Used' = Used, a \notin Used,
           PhaseOf(a) = "absent", PhaseOf(a)' = "loading", KindOf(a)' = role,
           \A b \in Alias : PhaseOf(b) # "loading",
           Cap[role] > 0 =>
              Cardinality({b \in Alias : PhaseOf(b) # "absent" /\ KindOf(b) = role}) < Cap[role]
    PROVE  Residency!BeginLoad(a, role)
<1>. DEFINE M == {b \in Alias : [c \in Alias |-> PhaseOf(c)][b] # "absent"
                                /\ [c \in Alias |-> KindOf(c)][b] = role}
<1>1. M = {b \in Alias : PhaseOf(b) # "absent" /\ KindOf(b) = role}
  OBVIOUS
<1>2. Cap[role] > 0 => Residency!Cardinality(Residency!Memory(role)) < Cap[role]
  <2>1. Residency!Cardinality(M) = Cardinality(M)
    BY DEF Residency!Cardinality, Cardinality
  <2>2. Residency!Memory(role) = M
    BY DEF Residency!Memory
  <2>. QED BY <1>1, <2>1, <2>2
<1>3. [b \in Alias |-> PhaseOf(b)]' = [[b \in Alias |-> PhaseOf(b)] EXCEPT ![a] = "loading"]
  BY DEF OnlyAt
<1>4. [b \in Alias |-> KindOf(b)]' = [[b \in Alias |-> KindOf(b)] EXCEPT ![a] = role]
  BY DEF OnlyAt
<1>. QED BY <1>2, <1>3, <1>4 DEF Residency!BeginLoad, Used

LEMMA SeenEndLoad ==
    ASSUME NEW a \in Alias, OnlyAt(a), Used' \in {Used, Used \cup {a}},
           PhaseOf(a) = "loading", PhaseOf(a)' = "resident", KindOf(a)' = KindOf(a)
    PROVE  Residency!EndLoad(a)
<1>1. [b \in Alias |-> PhaseOf(b)]' = [[b \in Alias |-> PhaseOf(b)] EXCEPT ![a] = "resident"]
  BY DEF OnlyAt
<1>2. [b \in Alias |-> KindOf(b)]' = [b \in Alias |-> KindOf(b)]
  BY DEF OnlyAt
<1>. QED BY <1>1, <1>2 DEF Residency!EndLoad, Used

LEMMA SeenVanishes ==
    ASSUME NEW a \in Alias, OnlyAt(a), Used' = Used, PhaseOf(a) \in {"loading", "unloading"},
           PhaseOf(a)' = "absent", KindOf(a)' = None
    PROVE  Residency!FailLoad(a) \/ Residency!EndUnload(a)
<1>1. [b \in Alias |-> PhaseOf(b)]' = [[b \in Alias |-> PhaseOf(b)] EXCEPT ![a] = "absent"]
  BY DEF OnlyAt
<1>2. [b \in Alias |-> KindOf(b)]' = [[b \in Alias |-> KindOf(b)] EXCEPT ![a] = None]
  BY DEF OnlyAt
<1>. QED BY <1>1, <1>2 DEF Residency!FailLoad, Residency!EndUnload, Residency!Vanishes, Used

LEMMA SeenBeginUnload ==
    ASSUME NEW a \in Alias, OnlyAt(a), Used' = Used, a \notin Used,
           PhaseOf(a) = "resident", PhaseOf(a)' = "unloading", KindOf(a)' = KindOf(a)
    PROVE  Residency!BeginUnload(a)
<1>1. [b \in Alias |-> PhaseOf(b)]' = [[b \in Alias |-> PhaseOf(b)] EXCEPT ![a] = "unloading"]
  BY DEF OnlyAt
<1>2. [b \in Alias |-> KindOf(b)]' = [b \in Alias |-> KindOf(b)]
  BY DEF OnlyAt
<1>. QED BY <1>1, <1>2 DEF Residency!BeginUnload, Used

LEMMA SeenUse ==
    ASSUME NEW a \in Alias, OnlyAt(a), PhaseOf(a)' = PhaseOf(a), KindOf(a)' = KindOf(a),
           \/ PhaseOf(a) \in {"absent", "resident"} /\ a \notin Used /\ Used' = Used \cup {a}
           \/ a \in Used /\ Used' = Used \ {a}
    PROVE  Residency!BeginUse(a) \/ Residency!EndUse(a)
<1>1. [b \in Alias |-> PhaseOf(b)]' = [b \in Alias |-> PhaseOf(b)]
  BY DEF OnlyAt
<1>2. [b \in Alias |-> KindOf(b)]' = [b \in Alias |-> KindOf(b)]
  BY DEF OnlyAt
<1>. QED BY <1>1, <1>2 DEF Residency!BeginUse, Residency!EndUse, Used

LEMMA SeenNothing ==
    ASSUME Used' = Used, \A a \in Alias : PhaseOf(a)' = PhaseOf(a) /\ KindOf(a)' = KindOf(a)
    PROVE  UNCHANGED Residency!vars
BY DEF Residency!vars, Used

\* A step that changes nothing about any alias.
LEMMA HiddenMaps ==
    ASSUME Shape, Shape', \A a \in Alias, x \in Task : Doing(x, a)' = Doing(x, a),
           \A a \in Alias : models'[a] = models[a],
           \A o \in Request : pc[o] # "new" => req'[o] = req[o]
    PROVE  [Residency!Next]_(Residency!vars)
<1>1. \A a \in Alias : /\ PhaseOf(a)' = PhaseOf(a) /\ KindOf(a)' = KindOf(a)
                       /\ a \in Used' <=> a \in Used
  BY NotSeen
<1>2. Used \subseteq Alias /\ Used' \subseteq Alias
  <2>1. (Shape => Used \subseteq Alias)'
    BY UsedAliases, PTL
  <2>. QED BY <2>1, UsedAliases
<1>3. Used' = Used
  BY <1>1, <1>2
<1>. QED BY <1>1, <1>3, SeenNothing

\* t changes what it does to the model of alias a, and nothing else.
Changes(t, a) ==
    /\ OthersKeep(t)
    /\ \A b \in Alias \ {a} : Doing(t, b)' = Doing(t, b) /\ models'[b] = models[b]

\* What a step of t shows is what it changes at one alias.
LEMMA ChangeMaps ==
    ASSUME TypeOK, TypeOK', Shape, Shape', LockDiscipline, LockDiscipline', CapInv, CapInv',
           NEW t \in Task, NEW a \in Alias, Changes(t, a),
           \/ Doing(t, a)' = Doing(t, a) /\ models'[a] = models[a]
           \/ Doing(t, a) = "nothing" /\ Doing(t, a)' \in {"load", "use"} /\ models'[a] = models[a]
           \/ /\ Doing(t, a) = "nothing" /\ Doing(t, a)' = "unload"
              /\ models'[a] = models[a] /\ models[a] # None
           \/ Doing(t, a) \in {"load", "use"} /\ Doing(t, a)' = "nothing" /\ models'[a] = models[a]
           \/ Doing(t, a) = "load" /\ Doing(t, a)' \in {"nothing", "use"} /\ models'[a] = t
           \/ Doing(t, a) = "unload" /\ Doing(t, a)' = "nothing" /\ models'[a] = None
    PROVE  [Residency!Next]_(Residency!vars)
<1>0. \A b, x : x \in Task \ {t} => Doing(x, b)' = Doing(x, b)
  BY OthersDo DEF Changes
<1>1. OnlyAt(a)
  BY <1>0, NotSeen DEF OnlyAt, Changes, OthersKeep
<1>5. Used \subseteq Alias /\ Used' \subseteq Alias
  <2>1. (Shape => Used \subseteq Alias)'
    BY UsedAliases, PTL
  <2>. QED BY <2>1, UsedAliases
<1>2. CASE Doing(t, a)' = Doing(t, a) /\ models'[a] = models[a]
  <2>1. \A b \in Alias, x \in Task : Doing(x, b)' = Doing(x, b)
    BY <1>0, <1>2 DEF Changes
  <2>2. \A b \in Alias : models'[b] = models[b]
    BY <1>2 DEF Changes
  <2>. QED BY <2>1, <2>2, HiddenMaps DEF Changes, OthersKeep
<1>3. ASSUME Doing(t, a) # "nothing" \/ Doing(t, a)' # "nothing"
      PROVE  SeenAs(t, a) /\ SeenAs(t, a)'
  <2>1. \A x \in Task \ {t} : Doing(x, a)' = Doing(x, a)
    BY <1>0
  <2>2. Apart /\ SeenThrough
    BY DoingApart, ThroughOne
  <2>3. (LockDiscipline => Apart)' /\ SeenThrough'
    BY DoingApart, ThroughOne, PTL
  <2>4. \A x \in Task \ {t} : Doing(x, a) = "nothing" /\ Doing(x, a)' = "nothing"
    BY <1>3, <2>1, <2>2, <2>3 DEF Apart
  <2>. QED BY <2>2, <2>3, <2>4 DEF SeenThrough
<1>4. \A o : RoleOf(o)' = RoleOf(o)
  BY DEF Changes, OthersKeep, RoleOf
<1>6. ASSUME Doing(t, a) # Doing(t, a)'
      PROVE  /\ a \in Used <=> Doing(t, a) = "use"
             /\ Used' = IF Doing(t, a)' = "use" THEN Used \cup {a}
                        ELSE IF Doing(t, a) = "use" THEN Used \ {a} ELSE Used
  <2>1. \A b \in Alias \ {a} : b \in Used' <=> b \in Used
    BY <1>1 DEF OnlyAt
  <2>2. a \in Used' <=> Doing(t, a)' = "use"
    BY <1>3, <1>6 DEF SeenAs
  <2>3. a \in Used <=> Doing(t, a) = "use"
    BY <1>3, <1>6 DEF SeenAs
  <2>. QED BY <1>5, <2>1, <2>2, <2>3
<1>7. Doing(t, a) = "load" => models[a] = None
  BY DEF CapInv, LoadsAreMisses, Doing, Loading, Making
<1>8. CASE /\ Doing(t, a) = "nothing" /\ Doing(t, a)' = "load"
           /\ models'[a] = models[a]
  <2>. DEFINE role == RoleOf(t)
  <2>1. t \in Request /\ pc'[t] = "backend" /\ AliasOf(t)' = a
    BY <1>8 DEF Doing
  <2>2. AliasOf(t) = a /\ RoleOf(t)' = role
    BY <2>1 DEF Changes, OthersKeep, AliasOf, RoleOf
  <2>3. RoleOf(t)' \in Role
    BY <2>1 DEF Shape, RequestShape, LoadPc, RoleOf
  <2>4. models[a] = None /\ Making(t)' /\ Leaving(t)' = {}
    BY <1>8, <2>1 DEF CapInv, LoadsAreMisses, Loading, Making, Leaving
  <2>5. \A b \in Alias : PhaseOf(b) # "loading"
    <3>. SUFFICES ASSUME NEW b \in Alias, Loader(b) # {} PROVE FALSE
      BY DEF PhaseOf
    <3>1. PICK x \in Request : pc[x] = "backend" /\ AliasOf(x) = b
      BY DEF Loader
    <3>2. x # t
      BY <1>8, <2>1, <2>2, <3>1 DEF Doing
    <3>3. pc'[x] = "backend"
      BY <3>1, <3>2 DEF Changes, OthersKeep
    <3>4. Gate \in Claims(x)' /\ Gate \in Claims(t)'
      BY <2>1, <3>3 DEF Claims
    <3>. QED BY <2>1, <3>2, <3>4, TaskFacts DEF LockDiscipline
  <2>6. Cap[role] > 0 =>
           Cardinality({b \in Alias : PhaseOf(b) # "absent" /\ KindOf(b) = role}) < Cap[role]
    <3>1. {b \in Alias : PhaseOf(b) # "absent" /\ KindOf(b) = role} = Resident(role, a)
      <4>1. ASSUME NEW b \in Alias
            PROVE  PhaseOf(b) # "absent" /\ KindOf(b) = role
                   <=> models[b] # None /\ RoleOf(models[b]) = role
        BY <2>5 DEF PhaseOf, KindOf
      <4>. QED BY <2>4, <4>1 DEF Resident
    <3>2. Room(t)'
      BY <2>1, <2>4 DEF CapInv, RoomIsMade
    <3>3. Resident(role, a)' = Resident(role, a)
      <4>1. \A b \in Alias : models'[b] = models[b]
        BY <1>8 DEF Changes
      <4>. QED BY <1>4, <4>1 DEF Resident
    <3>4. Resident(role, a)' \ {} = Resident(role, a)
      BY <3>3
    <3>5. Cap[role] > 0 => Cardinality((Resident(RoleOf(t), AliasOf(t)) \ Leaving(t))') < Cap[role]
      BY <2>2, <3>2 DEF Room
    <3>6. (Resident(RoleOf(t), AliasOf(t)) \ Leaving(t))' = Resident(role, a)' \ {}
      BY <2>1, <2>2, <2>4 DEF Resident
    <3>. QED BY <3>1, <3>4, <3>5, <3>6
  <2>7. PhaseOf(a) = "absent" /\ PhaseOf(a)' = "loading" /\ KindOf(a)' = role
    BY <1>3, <1>8, <2>2, <2>4 DEF SeenAs
  <2>8. Used' = Used /\ a \notin Used
    BY <1>6, <1>8
  <2>9. Residency!BeginLoad(a, role)
    BY <1>1, <2>2, <2>3, <2>5, <2>6, <2>7, <2>8, SeenBeginLoad
  <2>. QED BY <2>2, <2>3, <2>9 DEF Residency!Next
<1>9. CASE Doing(t, a) \in {"nothing", "use"} /\ Doing(t, a)' \in {"nothing", "use"}
           /\ Doing(t, a) # Doing(t, a)' /\ models'[a] = models[a]
  <2>1. PhaseOf(a)' = PhaseOf(a) /\ KindOf(a)' = KindOf(a) /\ PhaseOf(a) \in {"absent", "resident"}
    BY <1>3, <1>4, <1>9 DEF SeenAs
  <2>2. Residency!BeginUse(a) \/ Residency!EndUse(a)
    BY <1>1, <1>6, <1>9, <2>1, SeenUse
  <2>. QED BY <2>2 DEF Residency!Next
<1>10. CASE /\ Doing(t, a) = "nothing" /\ Doing(t, a)' = "unload"
            /\ models'[a] = models[a] /\ models[a] # None
  <2>1. PhaseOf(a) = "resident" /\ PhaseOf(a)' = "unloading" /\ KindOf(a)' = KindOf(a)
    BY <1>3, <1>4, <1>10 DEF SeenAs
  <2>2. Residency!BeginUnload(a)
    BY <1>1, <1>6, <1>10, <2>1, SeenBeginUnload
  <2>. QED BY <2>2 DEF Residency!Next
<1>11. CASE Doing(t, a) = "load" /\ Doing(t, a)' = "nothing" /\ models'[a] = models[a]
  <2>1. PhaseOf(a) = "loading" /\ PhaseOf(a)' = "absent" /\ KindOf(a)' = None
    BY <1>3, <1>7, <1>11 DEF SeenAs
  <2>2. Residency!FailLoad(a) \/ Residency!EndUnload(a)
    BY <1>1, <1>6, <1>11, <2>1, SeenVanishes
  <2>. QED BY <2>2 DEF Residency!Next
<1>12. CASE Doing(t, a) = "load" /\ Doing(t, a)' \in {"nothing", "use"} /\ models'[a] = t
  <2>1. t \in Request /\ t # None
    BY <1>12, TaskFacts DEF Doing
  <2>2. PhaseOf(a) = "loading" /\ PhaseOf(a)' = "resident" /\ KindOf(a)' = KindOf(a)
    BY <1>3, <1>4, <1>7, <1>12, <2>1 DEF SeenAs
  <2>3. Residency!EndLoad(a)
    BY <1>1, <1>6, <1>12, <2>2, SeenEndLoad
  <2>. QED BY <2>3 DEF Residency!Next
<1>13. CASE Doing(t, a) = "unload" /\ Doing(t, a)' = "nothing" /\ models'[a] = None
  <2>1. PhaseOf(a)' = "absent" /\ KindOf(a)' = None /\ Used' = Used
    BY <1>3, <1>6, <1>13 DEF SeenAs
  <2>2. CASE models[a] = None
    <3>1. PhaseOf(a) = "absent" /\ KindOf(a) = None
      BY <1>3, <1>13, <2>2 DEF SeenAs
    <3>. QED BY <1>1, <2>1, <3>1, SeenNothing DEF OnlyAt
  <2>3. CASE models[a] # None
    <3>1. PhaseOf(a) = "unloading"
      BY <1>3, <1>13, <2>3 DEF SeenAs
    <3>2. Residency!FailLoad(a) \/ Residency!EndUnload(a)
      BY <1>1, <2>1, <3>1, SeenVanishes
    <3>. QED BY <3>2 DEF Residency!Next
  <2>. QED BY <2>2, <2>3
<1>. QED BY <1>2, <1>8, <1>9, <1>10, <1>11, <1>12, <1>13

-----------------------------------------------------------------------------
(* The steps, one lemma per group of actions *)

RefInv == TypeOK /\ Shape /\ LockDiscipline /\ CapInv
Mapped == [Residency!Next]_(Residency!vars)

\* ChangeMaps, for short.
Changed(t, a) ==
    \/ Doing(t, a)' = Doing(t, a) /\ models'[a] = models[a]
    \/ Doing(t, a) = "nothing" /\ Doing(t, a)' \in {"load", "use"} /\ models'[a] = models[a]
    \/ /\ Doing(t, a) = "nothing" /\ Doing(t, a)' = "unload"
       /\ models'[a] = models[a] /\ models[a] # None
    \/ Doing(t, a) \in {"load", "use"} /\ Doing(t, a)' = "nothing" /\ models'[a] = models[a]
    \/ Doing(t, a) = "load" /\ Doing(t, a)' \in {"nothing", "use"} /\ models'[a] = t
    \/ Doing(t, a) = "unload" /\ Doing(t, a)' = "nothing" /\ models'[a] = None
LEMMA OneMaps ==
    ASSUME RefInv, RefInv', NEW t \in Task, NEW a \in Alias, Changes(t, a), Changed(t, a)
    PROVE  Mapped
BY ChangeMaps DEF RefInv, Changed, Mapped

\* t does at the end what it did at the beginning.
LEMMA QuietMaps ==
    ASSUME RefInv, RefInv', NEW t \in Task, OthersKeep(t), UNCHANGED models,
           \A a \in Alias : Doing(t, a)' = Doing(t, a)
    PROVE  Mapped
<1>1. \A a \in Alias, x \in Task : Doing(x, a)' = Doing(x, a)
  BY OthersDo DEF RefInv
<1>. QED BY <1>1, HiddenMaps DEF RefInv, Mapped, OthersKeep

\* Where a task does nothing to any model.
Away == {"new", "announce", "load", "lockWait", "gateWait", "check", "evict", "useWait", "ending",
         "unload", "unloadWait", "done", "free", "asleep", "due"}
LEMMA AwayFacts ==
    /\ \A t \in Task, a \in Alias : pc[t] \in Away => Doing(t, a) = "nothing"
    /\ \A t \in Task, a \in Alias : pc'[t] \in Away => Doing(t, a)' = "nothing"
BY DEF Away, Doing, InUse

\* A step that sends one handler on its way.
LEMMA GotoKeeps ==
    ASSUME TypeOK, NEW t \in Task, NEW to, Goto(t, to), UNCHANGED req,
           \A x \in Request \ {t} : victim'[x] = victim[x],
           \A u \in Timer \ {t} : timerOf'[u] = timerOf[u]
    PROVE  OthersKeep(t) /\ pc'[t] = to
BY TaskFacts DEF Goto, OthersKeep, TypeOK

\* A request that arrives does nothing yet; whatever is in memory came before it.
LEMMA ArrivalMaps ==
    ASSUME RefInv, RefInv', NEW r \in Request, Arrival(r)
    PROVE  Mapped
<1>1. /\ pc[r] = "new" /\ pc'[r] \in {"done", "announce", "load", "unload"}
      /\ \A x \in Request \ {r} : req'[x] = req[x]
      /\ \A x \in Task \ {r} : pc'[x] = pc[x]
      /\ UNCHANGED <<models, victim, timerOf>>
  BY TaskFacts DEF Arrival, ChatConflict, ChatUnknown, ChatAccepted, EmbedArrives,
     LoadArrives, UnloadArrives, CancelArrives, Arrives, Goto, TypeOK, RefInv, modelVars, idleVars
<1>2. ASSUME NEW a \in Alias, NEW x \in Task PROVE Doing(x, a)' = Doing(x, a)
  <2>1. CASE x = r
    BY <1>1, <2>1, AwayFacts DEF Away
  <2>2. CASE x \in Request \ {r}
    BY <1>1, <2>2, TaskFacts DEF Doing, VictimOf, InUse, AliasOf
  <2>3. CASE x \in Timer
    <3>1. pc[x] = "unloading" => timerOf[x] \in Request \ {r}
      BY <1>1, <2>3 DEF RefInv, Shape, TimerShape, Object
    <3>. QED BY <1>1, <2>3, <3>1, TaskFacts DEF Doing, VictimOf, AliasOf
  <2>. QED BY <2>1, <2>2, <2>3 DEF Task
<1>. QED BY <1>1, <1>2, HiddenMaps DEF RefInv, Mapped

\* Handlers on their way to or from a model; the generation starts.
LEMMA WayMaps ==
    ASSUME RefInv, RefInv', NEW r \in Request,
           \/ Announced(r) \/ AnnounceFails(r) \/ GateWoken(r) \/ CapFull(r) \/ UseStarts(r)
           \/ WorkerExits(r)
           \/ \E lk : LoadMiss(r, lk) /\ pc[r] \in {"load", "lockWait"}
           \/ LoadStart(r) /\ Goto(r, "lockWait") /\ UNCHANGED <<req, models, idleVars, victim>>
    PROVE  Mapped
<1>1. CASE WorkerExits(r)
  <2>1. OthersKeep(r) /\ UNCHANGED models /\ \A a \in Alias : Doing(r, a)' = Doing(r, a)
    BY <1>1, TaskFacts
       DEF WorkerExits, OthersKeep, reqVars, modelVars, idleVars, Doing, VictimOf, InUse, AliasOf
  <2>. QED BY <2>1, QuietMaps, TaskFacts
<1>2. CASE UseStarts(r)
  <2>1. Goto(r, "using") /\ pc[r] = "held" /\ UNCHANGED <<req, models, victim, timerOf>>
    BY <1>2 DEF UseStarts, reqVars
  <2>2. OthersKeep(r) /\ pc'[r] = "using"
    BY <2>1, GotoKeeps, TaskFacts DEF RefInv
  <2>3. \A a \in Alias : Doing(r, a)' = Doing(r, a)
    BY <2>1, <2>2, TaskFacts DEF Doing, InUse, AliasOf
  <2>. QED BY <2>1, <2>2, <2>3, QuietMaps, TaskFacts
<1>3. CASE /\ pc[r] \in Away /\ \E to \in Away : Goto(r, to)
           /\ UNCHANGED <<req, models, victim, timerOf>>
  <2>1. OthersKeep(r) /\ pc'[r] \in Away
    BY <1>3, GotoKeeps, TaskFacts DEF RefInv
  <2>2. \A a \in Alias : Doing(r, a)' = Doing(r, a)
    BY <1>3, <2>1, AwayFacts, TaskFacts
  <2>. QED BY <1>3, <2>1, <2>2, QuietMaps, TaskFacts
<1>4. CASE Announced(r) \/ AnnounceFails(r) \/ GateWoken(r) \/ CapFull(r)
  BY <1>3, <1>4 DEF Announced, AnnounceFails, GateWoken, CapFull, LoadAborts, Away, reqVars,
     modelVars, idleVars
<1>5. CASE \E lk : LoadMiss(r, lk) /\ pc[r] \in {"load", "lockWait"}
  BY <1>3, <1>5 DEF LoadMiss, Away, reqVars, modelVars, idleVars
<1>6. CASE LoadStart(r) /\ Goto(r, "lockWait") /\ UNCHANGED <<req, models, idleVars, victim>>
  BY <1>3, <1>6 DEF LoadStart, Away, idleVars
<1>. QED BY <1>1, <1>2, <1>4, <1>5, <1>6

\* A handler that is not unloading is at its own alias only.
LEMMA HandlerDoes ==
    ASSUME NEW r \in Request, UNCHANGED req, NEW a, a = AliasOf(r),
           pc[r] # "unloading", pc'[r] # "unloading"
    PROVE  /\ \A b \in Alias \ {a} : Doing(r, b) = "nothing" /\ Doing(r, b)' = "nothing"
           /\ Doing(r, a) = IF pc[r] = "backend" THEN "load"
                            ELSE IF InUse(r) THEN "use" ELSE "nothing"
           /\ Doing(r, a)' = IF pc'[r] = "backend" THEN "load"
                             ELSE IF pc'[r] \in {"held", "using"} THEN "use" ELSE "nothing"
<1>1. AliasOf(r)' = AliasOf(r)
  BY DEF AliasOf
<1>. QED BY <1>1 DEF Doing, InUse

\* load() finds its model, and the handler may go on to use it.
LEMMA LoadHitMaps ==
    ASSUME RefInv, RefInv', NEW r \in Request, pc[r] \in {"load", "lockWait"},
           NEW lk, LoadHit(r, lk)
    PROVE  Mapped
<1>0. PICK a \in Alias : a = AliasOf(r)
  BY WhereFacts DEF LoadPc, RefInv
<1>. DEFINE o == models[a]
            to == AfterLoad(r, Abandon(lk, Stoppable(o)))
<1>1. a \in Alias /\ o \in Request
  BY <1>0 DEF LoadHit, TypeOK, RefInv
<1>2. ScheduleIdle(o, "delay", r, to) /\ UNCHANGED <<req, models, victim>>
  BY <1>0 DEF LoadHit
<1>3. to \in {"done", "held", "useWait"}
  BY DEF AfterLoad
<1>. HIDE DEF to, o
<1>4. pc'[r] = to /\ OthersKeep(r)
  BY <1>1, <1>2, <1>3, ScheduleIdleKeeps DEF RequestPc, RefInv
<1>5. Doing(r, a) = "nothing" /\ Doing(r, a)' \in {"nothing", "use"}
      /\ \A b \in Alias \ {a} : Doing(r, b)' = Doing(r, b)
  BY <1>0, <1>2, <1>3, <1>4, HandlerDoes DEF InUse
<1>6. Changes(r, a)
  BY <1>1, <1>2, <1>4, <1>5 DEF Changes
<1>7. Changed(r, a)
  BY <1>1, <1>2, <1>5 DEF Changed
<1>. QED BY <1>1, <1>6, <1>7, OneMaps, TaskFacts

LEMMA LoadStartMaps ==
    ASSUME RefInv, RefInv', NEW r \in Request, LoadStart(r) \/ LoadWoken(r)
    PROVE  Mapped
<1>1. CASE LoadStart(r)
  <2>1. /\ pc[r] = "load"
        /\ \/ Goto(r, "lockWait") /\ UNCHANGED <<req, models, idleVars, victim>>
           \/ \E lk : LoadHit(r, lk) \/ LoadMiss(r, lk)
    BY <1>1 DEF LoadStart, reqVars, modelVars
  <2>. QED BY <1>1, <2>1, LoadHitMaps, WayMaps
<1>2. CASE LoadWoken(r)
  <2>1. pc[r] = "lockWait" /\ \E lk : LoadHit(r, lk) \/ LoadMiss(r, lk)
    BY <1>2 DEF LoadWoken
  <2>. QED BY <2>1, LoadHitMaps, WayMaps
<1>. QED BY <1>1, <1>2

\* backend.load returns, or raises.
LEMMA LoadEndsMaps ==
    ASSUME RefInv, RefInv', NEW r \in Request, LoadInserts(r) \/ BackendLoadFails(r)
    PROVE  Mapped
<1>0. PICK a \in Alias : a = AliasOf(r)
  BY WhereFacts DEF LoadInserts, BackendLoadFails, LoadPc, RefInv
<1>1. pc[r] = "backend" /\ a \in Alias /\ UNCHANGED <<req, victim>>
  BY DEF LoadInserts, BackendLoadFails, LoadAborts, RefInv
<1>2. CASE LoadInserts(r)
  <2>. DEFINE to == AfterLoad(r, Release(lock[a]))
  <2>1. ScheduleIdle(r, "delay", r, to) /\ models' = [models EXCEPT ![a] = r]
    BY <1>0, <1>2 DEF LoadInserts
  <2>2. to \in {"done", "held", "useWait"}
    BY DEF AfterLoad
  <2>. HIDE DEF to
  <2>3. pc'[r] = to /\ OthersKeep(r)
    BY <1>1, <2>1, <2>2, ScheduleIdleKeeps DEF RequestPc, RefInv
  <2>4. Doing(r, a) = "load" /\ Doing(r, a)' \in {"nothing", "use"}
        /\ \A b \in Alias \ {a} : Doing(r, b)' = Doing(r, b)
    BY <1>0, <1>1, <2>2, <2>3, HandlerDoes
  <2>5. models'[a] = r /\ \A b \in Alias \ {a} : models'[b] = models[b]
    BY <1>1, <2>1 DEF TypeOK, RefInv
  <2>6. Changes(r, a)
    BY <1>1, <2>3, <2>4, <2>5 DEF Changes
  <2>7. Changed(r, a)
    BY <2>4, <2>5 DEF Changed
  <2>. QED BY <1>1, <2>6, <2>7, OneMaps, TaskFacts
<1>3. CASE BackendLoadFails(r)
  <2>1. OthersKeep(r) /\ pc'[r] = "done" /\ UNCHANGED models
    BY <1>1, <1>3, GotoKeeps, TaskFacts DEF BackendLoadFails, LoadAborts, idleVars, modelVars, RefInv
  <2>2. Doing(r, a) = "load" /\ Doing(r, a)' = "nothing"
        /\ \A b \in Alias \ {a} : Doing(r, b)' = Doing(r, b)
    BY <1>0, <1>1, <2>1, HandlerDoes
  <2>3. Changes(r, a)
    BY <1>1, <2>1, <2>2 DEF Changes
  <2>4. Changed(r, a)
    BY <2>1, <2>2 DEF Changed
  <2>. QED BY <1>1, <2>3, <2>4, OneMaps, TaskFacts
<1>. QED BY <1>2, <1>3

\* The generation gets its lock, and ends.
LEMMA UseMaps ==
    ASSUME RefInv, RefInv', NEW r \in Request,
           UseWoken(r) \/ ChatErrs(r) \/ ChatStreamed(r) \/ ChatDropped(r) \/ EmbedEnds(r)
           \/ ChatReplied(r)
    PROVE  Mapped
<1>1. pc[r] \in UsePc /\ UNCHANGED <<req, models, victim>>
  BY DEF UseWoken, ChatErrs, ChatStreamed, ChatDropped, EmbedEnds, ChatReplied, UsePc, reqVars,
     modelVars
<1>0. PICK a \in Alias : a = AliasOf(r)
  BY <1>1, WhereFacts DEF RefInv
<1>2. /\ OthersKeep(r) /\ pc'[r] \in {"held", "ending", "done"}
      /\ pc'[r] = "held" => ~InUse(r)
  <2>1. CASE UseWoken(r)
    <3>1. pc[r] = "useWait" /\ Goto(r, "held") /\ UNCHANGED timerOf
      BY <2>1 DEF UseWoken, idleVars
    <3>. QED BY <1>1, <3>1, GotoKeeps, TaskFacts DEF InUse, RefInv
  <2>2. CASE ChatStreamed(r) \/ ChatDropped(r) \/ EmbedEnds(r)
    <3>1. UNCHANGED timerOf /\ \E to \in {"ending", "done"} : Goto(r, to)
      BY <2>2 DEF ChatStreamed, ChatDropped, EmbedEnds, Releases
    <3>. QED BY <1>1, <3>1, GotoKeeps, TaskFacts DEF RefInv
  <2>3. CASE ChatErrs(r) \/ ChatReplied(r)
    <3>1. ScheduleIdle(loaded[r], req[r].keep, r, "done")
      BY <2>3 DEF ChatErrs, ChatReplied, ChatEnds
    <3>2. loaded[r] \in Request
      BY <1>1 DEF Shape, RequestShape, Object, UsePc, RefInv
    <3>. QED BY <1>1, <3>1, <3>2, ScheduleIdleKeeps DEF RequestPc, RefInv
  <2>. QED BY <2>1, <2>2, <2>3
<1>3. /\ \A b \in Alias \ {a} : Doing(r, b)' = Doing(r, b)
      /\ Doing(r, a) = (IF InUse(r) THEN "use" ELSE "nothing")
      /\ Doing(r, a)' = IF pc'[r] = "held" THEN "use" ELSE "nothing"
  BY <1>0, <1>1, <1>2, HandlerDoes DEF UsePc
<1>4. Changed(r, a)
  BY <1>1, <1>2, <1>3 DEF Changed
<1>5. Changes(r, a)
  BY <1>1, <1>2, <1>3 DEF Changes
<1>. QED BY <1>1, <1>4, <1>5, OneMaps, TaskFacts

\* unload(v): nothing to do, the model begins to leave, or its lock is awaited.
LEMMA UnloadEntersMaps ==
    ASSUME RefInv, RefInv', NEW t \in Task, NEW v \in Alias, UnloadCall(t, v),
           pc[t] \in Away, UnloadEnters(t, v)
    PROVE  Mapped
<1>1. UNCHANGED req /\ UNCHANGED models
  BY DEF UnloadEnters, UnloadBegins, modelVars
<1>2. CASE UnloadReturns(t) \/ (Goto(t, "unloadWait") /\ UNCHANGED idleVars
                                /\ \A x \in Request \ {t} : victim'[x] = victim[x])
  <2>1. OthersKeep(t) /\ pc'[t] \in Away
    <3>1. CASE UnloadReturns(t)
      <4>1. /\ Goto(t, ReturnPc(t)) /\ ReturnPc(t) \in Away
            /\ \A x \in Request \ {t} : victim'[x] = victim[x]
            /\ \A u \in Timer \ {t} : timerOf'[u] = timerOf[u]
        BY <3>1, UnloadReturnsFacts DEF UnloadReturns, ReturnPc, Away, RefInv
      <4>. QED BY <1>1, <4>1, GotoKeeps DEF RefInv
    <3>2. CASE ~UnloadReturns(t)
      BY <1>1, <1>2, <3>2, GotoKeeps DEF idleVars, Away, RefInv
    <3>. QED BY <3>1, <3>2
  <2>2. \A b \in Alias : Doing(t, b)' = Doing(t, b)
    BY <2>1, AwayFacts
  <2>. QED BY <1>1, <2>1, <2>2, QuietMaps
<1>3. CASE /\ UnloadBegins(t, v, Acquire(lock[v], t))
           /\ victim' = [x \in Request |-> IF x = t THEN v ELSE victim[x]]
  <2>1. Acquire(lock[v], t) \in LockType(Task)
    BY LockTypes, TaskFacts DEF RefInv
  <2>2. /\ models[v] # None /\ pc'[t] = "unloading"
        /\ OthersKeep(t) /\ (t \in Timer => timerOf'[t] = timerOf[t])
    BY <1>1, <1>3, <2>1, UnloadBeginsFacts, TaskFacts DEF OthersKeep, RefInv, UnloadBegins
  <2>3. VictimOf(t)' = v
    BY <1>1, <1>3, <2>2, TaskFacts DEF UnloadCall, VictimOf, AliasOf, Task, LoadOp
  <2>4. \A b \in Alias : Doing(t, b) = "nothing"
    BY AwayFacts
  <2>5. \A b \in Alias : Doing(t, b)' = IF b = v THEN "unload" ELSE "nothing"
    BY <2>2, <2>3 DEF Doing, InUse
  <2>6. Changes(t, v)
    BY <1>1, <2>2, <2>4, <2>5 DEF Changes
  <2>7. Changed(t, v)
    BY <1>1, <2>2, <2>4, <2>5 DEF Changed
  <2>. QED BY <2>6, <2>7, OneMaps
<1>4. UnloadEnters(t, v) =>
         \/ UnloadReturns(t)
         \/ /\ UnloadBegins(t, v, Acquire(lock[v], t))
            /\ victim' = [x \in Request |-> IF x = t THEN v ELSE victim[x]]
         \/ /\ Goto(t, "unloadWait") /\ UNCHANGED idleVars
            /\ \A x \in Request \ {t} : victim'[x] = victim[x]
  BY DEF UnloadEnters
<1>. QED BY <1>2, <1>3, <1>4

\* A model.unload request or an idle task starts to unload; a load() checks the
\* cap, evicts, and begins when nothing is left to evict.
LEMMA UnloadStartMaps ==
    ASSUME RefInv, RefInv', NEW t \in Task,
           (t \in Request /\ UnloadStart(t)) \/ (t \in Timer /\ TimerUnloads(t))
    PROVE  Mapped
<1>1. VictimOf(t) \in Alias /\ UnloadEnters(t, VictimOf(t)) /\ pc[t] \in Away
  BY VictimFacts, TaskFacts
     DEF UnloadStart, TimerUnloads, VictimOf, Shape, RequestShape, RefInv, Away
<1>2. UnloadCall(t, VictimOf(t))
  BY TaskFacts DEF UnloadStart, TimerUnloads, VictimOf, Shape, RequestShape, RefInv, UnloadCall
<1>. QED BY <1>1, <1>2, UnloadEntersMaps

LEMMA EvictsMaps ==
    ASSUME RefInv, RefInv', NEW r \in Request, CapCheck(r) \/ EvictNext(r)
    PROVE  Mapped
<1>0. PICK a \in Alias : a = AliasOf(r)
  BY WhereFacts DEF CapCheck, EvictNext, LoadPc, RefInv
<1>1. PICK vs \in SUBSET Alias : Evicts(r, vs) /\ a \notin vs
  <2>1. CASE CapCheck(r)
    <3>1. LET vs == IF Capped(r) THEN Victims(r) ELSE {} IN
          vs \in SUBSET Alias /\ a \notin vs /\ Evicts(r, vs)
      BY <1>0, <2>1 DEF CapCheck, Victims, Evictable, Resident
    <3>. QED BY <3>1
  <2>2. CASE EvictNext(r)
    BY <1>0, <2>2 DEF EvictNext, Evicting, RefInv, TypeOK, Shape, RequestShape
  <2>. QED BY <2>1, <2>2
<1>2. /\ pc[r] \in {"check", "evict"} /\ pc[r] \in Away
      /\ req[r].op \in LoadOp /\ req[r].op # "unload"
  BY WhereFacts DEF CapCheck, EvictNext, LoadPc, RefInv, Away
<1>3. CASE vs = {}
  <2>1. Goto(r, "backend") /\ UNCHANGED <<req, models, victim, timerOf>>
    BY <1>1, <1>3 DEF Evicts, reqVars, modelVars, idleVars
  <2>2. OthersKeep(r) /\ pc'[r] = "backend"
    BY <2>1, GotoKeeps, TaskFacts DEF RefInv
  <2>3. /\ Doing(r, a) = "nothing" /\ Doing(r, a)' = "load"
        /\ \A b \in Alias \ {a} : Doing(r, b)' = Doing(r, b)
    BY <1>0, <1>2, <2>1, <2>2, HandlerDoes DEF InUse
  <2>4. Changes(r, a)
    BY <2>1, <2>2, <2>3 DEF Changes
  <2>5. Changed(r, a)
    BY <2>1, <2>3 DEF Changed
  <2>. QED BY <1>2, <2>4, <2>5, OneMaps, TaskFacts
<1>4. CASE vs # {}
  <2>1. PICK v \in vs : todo' = [todo EXCEPT ![r] = vs \ {v}] /\ UnloadEnters(r, v)
    BY <1>1, <1>4 DEF Evicts
  <2>2. todo'[r] = vs \ {v}
    BY <2>1 DEF RefInv, TypeOK
  <2>3. UnloadCall(r, v)
    BY <1>0, <1>1, <1>2, <2>1, <2>2 DEF UnloadCall
  <2>. QED BY <1>1, <1>2, <2>1, <2>3, UnloadEntersMaps, TaskFacts
<1>. QED BY <1>3, <1>4

\* The lock of the victim arrives, and backend.unload returns or raises.
LEMMA UnloadWokenMaps ==
    ASSUME RefInv, RefInv', NEW t \in Task, UnloadWoken(t)
    PROVE  Mapped
<1>0. PICK v \in Alias : v = VictimOf(t)
  BY VictimFacts DEF UnloadWoken, UnloadPc, RefInv
<1>1. pc[t] = "unloadWait" /\ v \in Lock /\ UNCHANGED req /\ UNCHANGED models
  BY TaskFacts DEF UnloadWoken, UnloadBegins, modelVars
<1>2. CASE UnloadReturns(t)
  <2>1. /\ Goto(t, ReturnPc(t)) /\ ReturnPc(t) \in Away
        /\ \A x \in Request \ {t} : victim'[x] = victim[x]
        /\ \A u \in Timer \ {t} : timerOf'[u] = timerOf[u]
    BY <1>2, UnloadReturnsFacts DEF UnloadReturns, ReturnPc, Away, RefInv
  <2>2. OthersKeep(t) /\ pc'[t] \in Away
    BY <1>1, <2>1, GotoKeeps DEF RefInv
  <2>3. \A b \in Alias : Doing(t, b)' = Doing(t, b)
    BY <1>1, <2>2, AwayFacts DEF Away
  <2>. QED BY <1>1, <2>2, <2>3, QuietMaps
<1>3. CASE UnloadBegins(t, v, Take(lock[v], t)) /\ UNCHANGED victim
  <2>1. Take(lock[v], t) \in LockType(Task)
    BY <1>0, <1>1, LockTypes DEF RefInv, UnloadWoken
  <2>2. /\ models[v] # None /\ pc'[t] = "unloading"
        /\ OthersKeep(t) /\ (t \in Timer => timerOf'[t] = timerOf[t])
    BY <1>1, <1>3, <2>1, UnloadBeginsFacts, TaskFacts DEF OthersKeep, RefInv, UnloadBegins
  <2>3. VictimOf(t)' = v
    BY <1>0, <1>1, <1>3, <2>2, TaskFacts DEF VictimOf, AliasOf, Task
  <2>4. \A b \in Alias : Doing(t, b) = "nothing"
    BY <1>1, AwayFacts DEF Away
  <2>5. \A b \in Alias : Doing(t, b)' = IF b = v THEN "unload" ELSE "nothing"
    BY <2>2, <2>3 DEF Doing, InUse
  <2>6. Changes(t, v)
    BY <1>1, <2>2, <2>4, <2>5 DEF Changes
  <2>7. Doing(t, v) = "nothing" /\ Doing(t, v)' = "unload" /\ models'[v] = models[v]
    BY <1>1, <2>4, <2>5
  <2>8. Changed(t, v)
    BY <2>2, <2>7 DEF Changed
  <2>. QED BY <1>1, <2>6, <2>8, OneMaps
<1>. QED BY <1>0, <1>2, <1>3 DEF UnloadWoken

LEMMA UnloadEndsMaps ==
    ASSUME RefInv, RefInv', NEW t \in Task, UnloadDone(t) \/ (t \in Request /\ UnloadFails(t))
    PROVE  Mapped
<1>0. PICK v \in Alias : v = VictimOf(t)
  BY VictimFacts DEF UnloadDone, UnloadFails, UnloadPc, RefInv
<1>1. pc[t] = "unloading" /\ UNCHANGED req /\ models' = [models EXCEPT ![v] = None]
  BY <1>0 DEF UnloadDone, UnloadFails, LoadAborts
<1>2. models'[v] = None /\ \A b \in Alias \ {v} : models'[b] = models[b]
  BY <1>1 DEF RefInv, TypeOK
<1>3. OthersKeep(t) /\ pc'[t] \in Away
  <2>1. CASE UnloadDone(t)
    <3>1. /\ Goto(t, ReturnPc(t)) /\ ReturnPc(t) \in Away
          /\ \A x \in Request \ {t} : victim'[x] = victim[x]
          /\ \A u \in Timer \ {t} : timerOf'[u] = timerOf[u]
      BY <2>1, UnloadReturnsFacts DEF UnloadDone, UnloadReturns, ReturnPc, Away, RefInv
    <3>. QED BY <1>1, <3>1, GotoKeeps DEF RefInv
  <2>2. CASE t \in Request /\ UnloadFails(t)
    <3>1. /\ Goto(t, "done") /\ UNCHANGED timerOf
          /\ \A x \in Request \ {t} : victim'[x] = victim[x]
      BY <2>2 DEF UnloadFails, LoadAborts, idleVars, RefInv, TypeOK
    <3>. QED BY <1>1, <3>1, GotoKeeps DEF RefInv, Away
  <2>. QED BY <2>1, <2>2
<1>4. \A b \in Alias : Doing(t, b) = IF b = v THEN "unload" ELSE "nothing"
  BY <1>0, <1>1 DEF Doing, InUse
<1>5. \A b \in Alias : Doing(t, b)' = "nothing"
  BY <1>3, AwayFacts
<1>6. Changes(t, v)
  BY <1>1, <1>2, <1>3, <1>4, <1>5 DEF Changes
<1>7. Doing(t, v) = "unload" /\ Doing(t, v)' = "nothing"
  BY <1>1, <1>4, <1>5
<1>8. Changed(t, v)
  BY <1>2, <1>7 DEF Changed
<1>. QED BY <1>1, <1>6, <1>8, OneMaps

\* An idle task that looks and leaves the model alone.
LEMMA TimerLooksMaps ==
    ASSUME RefInv, RefInv', NEW u \in Timer, TimerDefers(u) \/ TimerSkips(u)
    PROVE  Mapped
<1>1. /\ UNCHANGED <<req, models, victim>> /\ pc[u] = "asleep"
      /\ \A w \in Timer \ {u} : timerOf'[w] = timerOf[w]
      /\ pc' = pc \/ Goto(u, "free")
  BY DEF TimerDefers, TimerSkips, reqVars, modelVars, RefInv, TypeOK
<1>2. OthersKeep(u) /\ pc'[u] \in Away
  <2>1. CASE Goto(u, "free")
    BY <1>1, <2>1, GotoKeeps, TaskFacts DEF RefInv, Away
  <2>2. CASE pc' = pc
    BY <1>1, <2>2 DEF OthersKeep, Away
  <2>. QED BY <1>1, <2>1, <2>2
<1>3. \A a \in Alias : Doing(u, a)' = Doing(u, a)
  BY <1>1, <1>2, AwayFacts, TaskFacts DEF Away
<1>. QED BY <1>1, <1>2, <1>3, QuietMaps, TaskFacts

\* Every step of the daemon is one of ModelResidency, or shows nothing.
LEMMA NextMaps == RefInv /\ RefInv' /\ [Next]_vars => [Residency!Next]_(Residency!vars)
<1>. SUFFICES ASSUME RefInv, RefInv', [Next]_vars PROVE Mapped
  BY DEF Mapped
<1>1. CASE UNCHANGED vars
  <2>1. \A a \in Alias, x \in Task : Doing(x, a)' = Doing(x, a)
    BY <1>1 DEF vars, Doing, InUse, VictimOf, AliasOf
  <2>. QED BY <1>1, <2>1, HiddenMaps DEF RefInv, vars, Mapped
<1>2. ASSUME NEW r \in Request, Serve(r) PROVE Mapped
  BY <1>2, WayMaps, LoadStartMaps, LoadEndsMaps, EvictsMaps, UnloadStartMaps, UnloadWokenMaps,
     UnloadEndsMaps, UseMaps, TaskFacts DEF Serve
<1>3. ASSUME NEW r \in Request, Mishap(r) PROVE Mapped
  BY <1>3, WayMaps, UseMaps, LoadEndsMaps, UnloadEndsMaps, TaskFacts DEF Mishap
<1>4. ASSUME NEW u \in Timer, Tick(u) PROVE Mapped
  BY <1>4, TimerLooksMaps, UnloadStartMaps, UnloadWokenMaps, UnloadEndsMaps, TaskFacts DEF Tick
<1>. QED BY <1>1, <1>2, <1>3, <1>4, ArrivalMaps DEF Next, Terminated

\* At the start nothing is in memory.
LEMMA InitMaps == Init => Residency!Init
<1>. SUFFICES ASSUME Init PROVE Residency!Init
  OBVIOUS
<1>1. \A r \in Request : pc[r] = "new"
  BY TaskFacts DEF Init
<1>2. \A a \in Alias : PhaseOf(a) = "absent" /\ KindOf(a) = None
  BY <1>1 DEF Init, PhaseOf, KindOf, Loader
<1>3. Used = {}
  BY <1>1 DEF Used, InUse
<1>. QED BY <1>2, <1>3 DEF Residency!Init, Used

\* DaemonState and the dispatcher keep what ModelResidency promises, whatever
\* requests, evictions, idle unloads and failures there are: a model is used by
\* one handler at a time and never while it comes or goes, loads follow one
\* another, and each of them finds room under the cap of its role.
THEOREM DaemonKeepsResidency == Spec => ImplementsResidency
<1>1. Spec => []RefInv
  <2>1. Spec => []CapInv
    BY ShapeInvariant, LocksAreDisciplined, InitCap, NextCap, PTL DEF Spec
  <2>. QED BY <2>1, ShapeInvariant, LocksAreDisciplined, PTL DEF RefInv
<1>. QED BY <1>1, InitMaps, NextMaps, PTL DEF Spec, ImplementsResidency, Residency!Spec

-----------------------------------------------------------------------------
(* The countdown that runs *)

\* An idle task that an object knows of is its own, and is alive.
TaskOwn == \A o \in Request : idleTask[o] # None =>
    timerOf[idleTask[o]] = o /\ pc[idleTask[o]] # "free"

\* Whoever dropped its connection is through, whoever pins has arrived; a model
\* is used for what it was loaded for.
Settled == \A r \in Request :
    /\ outcome[r] = "gone" => pc[r] = "done"
    /\ req[r].keep = "pin" => pc[r] # "new"
    /\ pc[r] = "using" => RoleOf(loaded[r]) = req[r].op

\* Nobody dropped its connection, nobody pinned a model.
Quiet == \A r \in Request : outcome[r] # "gone" /\ req[r].keep # "pin"

\* A chat model used since its countdown began is with a chat that has yet to
\* reschedule it.
Using(o) == \E r \in Request : pc[r] \in {"using", "ending"} /\ loaded[r] = o
FreshHeld == \A o \in Request : fresh[o] =>
    pc[o] # "new" /\ (RoleOf(o) = "chat" => Using(o))

\* A resident chat model counts down, is on its way out, or will be rescheduled.
Leaves(a) == \E t \in Task : pc[t] = "unloading" /\ VictimOf(t) = a
Ending(o) == \E r \in Request : pc[r] = "ending" /\ loaded[r] = o
Cared(a) == Stoppable(models[a]) # None \/ Leaves(a) \/ Ending(models[a])
Counted == \A a \in Alias : models[a] # None /\ RoleOf(models[a]) = "chat" => Cared(a)

CountInv == TaskOwn /\ Settled /\ (Quiet => FreshHeld /\ Counted)

\* What a countdown does not hold on to: who knows of which idle task.
LEMMA ScheduleTasks ==
    ASSUME TypeOK, TaskOwn, NEW o \in Request, NEW t \in Request, NEW keep, NEW to,
           ScheduleIdle(o, keep, t, to)
    PROVE  /\ TaskOwn'
           /\ \A x \in Request \ {o} : Stoppable(x)' = Stoppable(x)
           /\ RoleOf(o) = "chat" /\ keep # "pin" => Stoppable(o)' # None
           /\ ~fresh'[o] /\ \A x \in Request \ {o} : fresh'[x] = fresh[x]
<1>. DEFINE old == Stoppable(o)
            new == NewTimer(o, keep)
<1>1. /\ pc' = [x \in Task |->
                   IF x = t THEN to
                   ELSE IF x = new THEN IF keep = "now" THEN "due" ELSE "asleep"
                   ELSE IF x = old THEN "free" ELSE pc[x]]
      /\ timerOf' = [u \in Timer |-> IF u = new THEN o
                                     ELSE IF u = old THEN None ELSE timerOf[u]]
      /\ idleTask' = [idleTask EXCEPT ![o] = new]
      /\ fresh' = [fresh EXCEPT ![o] = FALSE]
      /\ WithinTimers(o, keep)
  BY DEF ScheduleIdle
<1>2. old \in Timer \cup {None} /\ (old # None => idleTask[o] = old)
  BY StoppableFacts DEF Stoppable
<1>3. /\ new \in Timer \cup {None}
      /\ new # None => new = old \/ pc[new] = "free"
      /\ RoleOf(o) = "chat" /\ keep # "pin" => new # None
  <2>1. CASE RoleOf(o) # "chat" \/ keep = "pin"
    BY <2>1, TaskFacts DEF NewTimer
  <2>2. CASE ~(RoleOf(o) # "chat" \/ keep = "pin") /\ old # None
    BY <1>2, <2>2 DEF NewTimer
  <2>3. CASE ~(RoleOf(o) # "chat" \/ keep = "pin") /\ old = None
    <3>1. \E u \in Timer : pc[u] = "free"
      BY <1>1, <2>3 DEF WithinTimers
    <3>2. new = CHOOSE u \in Timer : pc[u] = "free"
      BY <2>3 DEF NewTimer
    <3>. QED BY <2>3, <3>1, <3>2, TaskFacts
  <2>. QED BY <2>1, <2>2, <2>3
<1>. HIDE DEF old, new
<1>4. ASSUME NEW x \in Request \ {o}, idleTask[x] # None
      PROVE  /\ idleTask[x] \in Timer /\ idleTask[x] # new /\ idleTask[x] # old
             /\ idleTask'[x] = idleTask[x] /\ pc'[idleTask[x]] = pc[idleTask[x]]
             /\ timerOf'[idleTask[x]] = timerOf[idleTask[x]]
  <2>1. idleTask[x] \in Timer /\ idleTask'[x] = idleTask[x]
    BY <1>1, <1>4 DEF TypeOK
  <2>2. timerOf[idleTask[x]] = x /\ pc[idleTask[x]] # "free"
    BY <1>4 DEF TaskOwn
  <2>3. old # None => timerOf[old] = o
    BY <1>2, TaskFacts DEF TaskOwn
  <2>4. idleTask[x] # new /\ idleTask[x] # old
    BY <1>2, <1>3, <2>1, <2>2, <2>3, TaskFacts
  <2>. QED BY <1>1, <2>1, <2>4, TaskFacts
<1>5. idleTask'[o] = new /\ (new # None => timerOf'[new] = o /\ pc'[new] \in {"due", "asleep"})
  BY <1>1, <1>3, TaskFacts DEF TypeOK
<1>6. TaskOwn'
  <2>. SUFFICES ASSUME NEW x \in Request, idleTask'[x] # None
                PROVE  timerOf'[idleTask'[x]] = x /\ pc'[idleTask'[x]] # "free"
    BY DEF TaskOwn
  <2>1. CASE x = o
    BY <1>5, <2>1
  <2>2. CASE x # o
    <3>1. idleTask[x] # None
      BY <1>1, <2>2 DEF TypeOK
    <3>. QED BY <1>4, <2>2, <3>1 DEF TaskOwn
  <2>. QED BY <2>1, <2>2
<1>7. ASSUME NEW x \in Request \ {o} PROVE Stoppable(x)' = Stoppable(x)
  <2>1. CASE idleTask[x] = None
    <3>1. idleTask'[x] = None
      BY <1>1, <2>1 DEF TypeOK
    <3>. QED BY <2>1, <3>1 DEF Stoppable
  <2>2. CASE idleTask[x] # None
    BY <1>4, <2>2 DEF Stoppable
  <2>. QED BY <2>1, <2>2
<1>8. RoleOf(o) = "chat" /\ keep # "pin" => Stoppable(o)' # None
  BY <1>3, <1>5 DEF Stoppable
<1>9. ~fresh'[o] /\ \A x \in Request \ {o} : fresh'[x] = fresh[x]
  BY <1>1 DEF TypeOK
<1>. QED BY <1>6, <1>7, <1>8, <1>9

\* A step that leaves the idle tasks alone.
IdleKept == UNCHANGED idleTask /\ \A u \in Timer : pc'[u] = pc[u] /\ timerOf'[u] = timerOf[u]
LEMMA KeptTasks ==
    ASSUME TypeOK, TaskOwn, IdleKept
    PROVE  TaskOwn' /\ \A x \in Request : Stoppable(x)' = Stoppable(x)
BY DEF IdleKept, TaskOwn, Stoppable, TypeOK

\* A return from unload(): an idle task takes its object's entry along.
LEMMA ReturnTasks ==
    ASSUME TypeOK, TaskOwn, NEW t \in Task, UnloadReturns(t)
    PROVE  /\ TaskOwn'
           /\ \A x \in Request : idleTask[x] # t => Stoppable(x)' = Stoppable(x)
<1>1. /\ \A x \in Task \ {t} : pc'[x] = pc[x]
      /\ \A u \in Timer \ {t} : timerOf'[u] = timerOf[u]
      /\ \A x \in Request : idleTask'[x] = IF idleTask[x] = t THEN None ELSE idleTask[x]
  BY UnloadReturnsFacts DEF UnloadReturns, TypeOK
<1>2. ASSUME NEW x \in Request, idleTask[x] # t, idleTask[x] # None
      PROVE  /\ idleTask[x] \in Timer \ {t} /\ pc'[idleTask[x]] = pc[idleTask[x]]
             /\ timerOf'[idleTask[x]] = timerOf[idleTask[x]]
  BY <1>1, <1>2, TaskFacts DEF TypeOK
<1>3. TaskOwn'
  BY <1>1, <1>2 DEF TaskOwn
<1>4. ASSUME NEW x \in Request, idleTask[x] # t PROVE Stoppable(x)' = Stoppable(x)
  BY <1>1, <1>2, <1>4 DEF Stoppable
<1>. QED BY <1>3, <1>4

\* The start of backend.unload: the object of v loses its countdown.
LEMMA BeginTasks ==
    ASSUME TypeOK, Shape, TaskOwn, NEW t \in Task, NEW v \in Alias, NEW lk,
           UnloadBegins(t, v, lk), t \in Timer => pc[t] # "free"
    PROVE  /\ TaskOwn'
           /\ \A x \in Request : x # models[v] /\ idleTask[x] # t =>
                 Stoppable(x)' = Stoppable(x)
<1>. DEFINE o == models[v]
            old == IF Stoppable(o) = t THEN None ELSE Stoppable(o)
<1>1. /\ pc' = [x \in Task |-> IF x = t THEN "unloading"
                               ELSE IF x = old THEN "free" ELSE pc[x]]
      /\ timerOf' = [u \in Timer |-> IF u = old THEN None ELSE timerOf[u]]
      /\ idleTask' = [idleTask EXCEPT ![o] = None]
      /\ o \in Request
  BY DEF UnloadBegins, TypeOK
<1>2. old # None => timerOf[old] = o /\ old \in Timer
  <2>1. old # None => old = idleTask[o]
    BY DEF Stoppable
  <2>. QED BY <1>1, <2>1 DEF TaskOwn, TypeOK
<1>. HIDE DEF o, old
<1>3. ASSUME NEW x \in Request \ {o}, idleTask[x] # None
      PROVE  /\ idleTask[x] \in Timer /\ idleTask'[x] = idleTask[x]
             /\ timerOf[idleTask[x]] = x /\ pc[idleTask[x]] # "free"
             /\ timerOf'[idleTask[x]] = timerOf[idleTask[x]]
             /\ pc'[idleTask[x]] = IF idleTask[x] = t THEN "unloading" ELSE pc[idleTask[x]]
  <2>1. idleTask[x] \in Timer /\ timerOf[idleTask[x]] = x /\ pc[idleTask[x]] # "free"
    BY <1>3 DEF TaskOwn, TypeOK
  <2>2. idleTask[x] # old
    BY <1>2, <2>1, TaskFacts
  <2>. QED BY <1>1, <2>1, <2>2, TaskFacts DEF TypeOK
<1>4. TaskOwn'
  <2>. SUFFICES ASSUME NEW x \in Request, idleTask'[x] # None
                PROVE  timerOf'[idleTask'[x]] = x /\ pc'[idleTask'[x]] # "free"
    BY DEF TaskOwn
  <2>1. x # o /\ idleTask[x] # None
    BY <1>1 DEF TypeOK
  <2>. QED BY <1>3, <2>1
<1>5. ASSUME NEW x \in Request, x # o, idleTask[x] # t PROVE Stoppable(x)' = Stoppable(x)
  <2>1. CASE idleTask[x] = None
    <3>1. idleTask'[x] = None
      BY <1>1, <1>5, <2>1 DEF TypeOK
    <3>. QED BY <2>1, <3>1 DEF Stoppable
  <2>2. CASE idleTask[x] # None
    BY <1>3, <1>5, <2>2 DEF Stoppable
  <2>. QED BY <2>1, <2>2
<1>. QED BY <1>4, <1>5 DEF o

\* A waiting task is no less stoppable than a sleeping one.
LEMMA WaitTasks ==
    ASSUME TypeOK, TaskOwn, NEW t \in Task, Goto(t, "unloadWait"), UNCHANGED idleVars,
           t \in Timer => pc[t] \in {"asleep", "due"}
    PROVE  TaskOwn' /\ \A x \in Request : Stoppable(x)' = Stoppable(x)
<1>1. /\ \A x \in Task \ {t} : pc'[x] = pc[x]
      /\ pc'[t] = "unloadWait" /\ UNCHANGED <<idleTask, timerOf>>
  BY DEF Goto, TypeOK, idleVars
<1>2. TaskOwn'
  BY <1>1, TaskFacts DEF TaskOwn, TypeOK
<1>3. ASSUME NEW x \in Request PROVE Stoppable(x)' = Stoppable(x)
  <2>1. CASE idleTask[x] # None
    <3>1. idleTask[x] \in Timer /\ idleTask[x] \in Task
      BY <2>1, TaskFacts DEF TypeOK
    <3>. QED BY <1>1, <2>1, <3>1 DEF Stoppable
  <2>2. CASE idleTask[x] = None
    BY <1>1, <2>2 DEF Stoppable
  <2>. QED BY <2>1, <2>2
<1>. QED BY <1>2, <1>3

\* A step of t for the countdowns of the others.
CountKeeps(t) ==
    /\ OthersKeep(t)
    /\ \A x \in Request \ {t} : loaded'[x] = loaded[x] /\ outcome'[x] = outcome[x]
    /\ t \in Request =>
          /\ pc'[t] = "new" => pc[t] = "new"
          /\ outcome[t] = "gone" => outcome'[t] = "gone"
          /\ outcome'[t] = "gone" => pc'[t] = "done"
          /\ pc'[t] = "using" => RoleOf(loaded[t]) = req[t].op /\ loaded'[t] = loaded[t]

LEMMA SettledStep ==
    ASSUME Settled, NEW t \in Task, CountKeeps(t)
    PROVE  Settled' /\ (Quiet' => Quiet)
<1>1. \A o : RoleOf(o)' = RoleOf(o)
  BY DEF CountKeeps, OthersKeep, RoleOf
<1>. QED BY <1>1 DEF Settled, Quiet, CountKeeps, OthersKeep

\* What t may do that leaves the model of alias a without a countdown.
Loses(t, a) == \/ pc[t] = "unloading" /\ VictimOf(t) = a
               \/ pc[t] = "ending" /\ loaded[t] = models[a]
               \/ Stoppable(models[a]) # None /\ Stoppable(models[a])' = None

LEMMA CountStep ==
    ASSUME TypeOK, TypeOK', Counted, NEW t \in Task, CountKeeps(t),
           \A a \in Alias : models'[a] # None /\ RoleOf(models'[a]) = "chat" =>
              Cared(a)' \/ (models'[a] = models[a] /\ ~Loses(t, a))
    PROVE  Counted'
<1>. SUFFICES ASSUME NEW a \in Alias, models'[a] # None, RoleOf(models[a])' = "chat",
                     models'[a] = models[a], ~Loses(t, a)
              PROVE  Cared(a)'
  BY DEF Counted, CountKeeps, OthersKeep, RoleOf
<1>1. RoleOf(models[a]) = "chat" /\ models[a] # None
  BY DEF CountKeeps, OthersKeep, RoleOf
<1>2. CASE Stoppable(models[a]) # None
  BY <1>2 DEF Loses, Cared
<1>3. CASE Leaves(a)
  <2>1. PICK x \in Task : pc[x] = "unloading" /\ VictimOf(x) = a
    BY <1>3 DEF Leaves
  <2>2. x # t
    BY <2>1 DEF Loses
  <2>3. pc'[x] = "unloading" /\ VictimOf(x)' = a
    BY <2>1, <2>2, TaskFacts DEF CountKeeps, OthersKeep, VictimOf, AliasOf, Task
  <2>. QED BY <2>3 DEF Leaves, Cared
<1>4. CASE Ending(models[a])
  <2>1. PICK x \in Request : pc[x] = "ending" /\ loaded[x] = models[a]
    BY <1>4 DEF Ending
  <2>2. x # t
    BY <2>1 DEF Loses
  <2>3. pc'[x] = "ending" /\ loaded'[x] = models'[a]
    BY <2>1, <2>2 DEF CountKeeps, OthersKeep
  <2>. QED BY <2>3 DEF Ending, Cared
<1>. QED BY <1>1, <1>2, <1>3, <1>4 DEF Counted, Cared

\* Whose use makes an object fresh, and who may give up one that is.
LEMMA FreshStep ==
    ASSUME FreshHeld, NEW t \in Task, CountKeeps(t),
           \A o \in Request : fresh'[o] => fresh[o] \/ (pc[o] # "new" /\ Using(o)')
                                           \/ (pc[o] # "new" /\ RoleOf(o) # "chat"),
           \A o \in Request : pc[t] \in {"using", "ending"} /\ loaded[t] = o /\ fresh'[o] =>
              Using(o)' \/ RoleOf(o) # "chat"
    PROVE  FreshHeld'
<1>. SUFFICES ASSUME NEW o \in Request, fresh'[o]
              PROVE  pc'[o] # "new" /\ (RoleOf(o)' = "chat" => Using(o)')
  BY DEF FreshHeld
<1>1. RoleOf(o)' = RoleOf(o) /\ (pc[o] # "new" => pc'[o] # "new")
  BY DEF CountKeeps, OthersKeep, RoleOf
<1>2. CASE fresh[o] /\ RoleOf(o) = "chat"
  <2>1. PICK x \in Request : pc[x] \in {"using", "ending"} /\ loaded[x] = o
    BY <1>2 DEF FreshHeld, Using
  <2>2. CASE x = t
    BY <1>1, <1>2, <2>1, <2>2 DEF FreshHeld
  <2>3. CASE x # t
    <3>1. pc'[x] \in {"using", "ending"} /\ loaded'[x] = o
      BY <2>1, <2>3 DEF CountKeeps, OthersKeep
    <3>. QED BY <1>1, <1>2, <3>1 DEF FreshHeld, Using
  <2>. QED BY <2>2, <2>3
<1>3. CASE fresh[o] /\ RoleOf(o) # "chat"
  BY <1>1, <1>3 DEF FreshHeld
<1>4. CASE ~fresh[o]
  BY <1>1, <1>4
<1>. QED BY <1>2, <1>3, <1>4

\* A step that none of this sees.
LEMMA UnchangedCount ==
    ASSUME CountInv,
           UNCHANGED <<req, loaded, outcome, pc, models, idleTask, fresh, timerOf, victim>>
    PROVE  CountInv'
BY DEF CountInv, TaskOwn, Settled, Quiet, FreshHeld, Using, Counted, Cared, Leaves, Ending,
   Stoppable, RoleOf, AliasOf, VictimOf

FreshMoves(t) ==
    /\ \A o \in Request : fresh'[o] => fresh[o] \/ (pc[o] # "new" /\ Using(o)')
                                       \/ (pc[o] # "new" /\ RoleOf(o) # "chat")
    /\ \A o \in Request : pc[t] \in {"using", "ending"} /\ loaded[t] = o /\ fresh'[o] =>
          Using(o)' \/ RoleOf(o) # "chat"
CountMoves(t) ==
    \A a \in Alias : models'[a] # None /\ RoleOf(models'[a]) = "chat" =>
        Cared(a)' \/ (models'[a] = models[a] /\ ~Loses(t, a))

LEMMA CountFrame ==
    ASSUME RefInv, RefInv', CountInv, NEW t \in Task, CountKeeps(t), TaskOwn',
           Quiet /\ Quiet' /\ FreshHeld => FreshMoves(t) /\ CountMoves(t)
    PROVE  CountInv'
<1>1. Settled' /\ (Quiet' => Quiet)
  BY SettledStep DEF CountInv
<1>2. Quiet' => FreshHeld'
  BY <1>1, FreshStep DEF CountInv, FreshMoves
<1>3. Quiet' => Counted'
  BY <1>1, CountStep DEF CountInv, CountMoves, RefInv
<1>. QED BY <1>1, <1>2, <1>3 DEF CountInv

\* A step that neither starts nor stops a countdown nor ends a use.
LEMMA IdleCount ==
    ASSUME RefInv, RefInv', CountInv, NEW t \in Task, CountKeeps(t), IdleKept, UNCHANGED models,
           pc[t] \notin {"unloading", "ending"}, Quiet /\ Quiet' => FreshMoves(t)
    PROVE  CountInv'
<1>1. TaskOwn' /\ \A x \in Request : Stoppable(x)' = Stoppable(x)
  BY KeptTasks DEF CountInv, RefInv
<1>2. ASSUME NEW a \in Alias, models'[a] # None PROVE ~Loses(t, a)
  <2>1. PICK o \in Request : o = models[a]
    BY <1>2 DEF RefInv, TypeOK
  <2>2. Stoppable(models[a])' = Stoppable(o)'
    BY <2>1 DEF Stoppable
  <2>. QED BY <1>1, <2>1, <2>2 DEF Loses
<1>3. CountMoves(t)
  BY <1>2 DEF CountMoves
<1>. QED BY <1>1, <1>3, CountFrame

\* A handler on its way, not yet with a model or about to use it.
LEMMA WayCount ==
    ASSUME RefInv, RefInv', CountInv, NEW r \in Request,
           \/ Announced(r) \/ AnnounceFails(r) \/ GateWoken(r) \/ CapFull(r)
           \/ BackendLoadFails(r) \/ UseWoken(r) \/ WorkerExits(r)
           \/ \E lk : LoadMiss(r, lk) /\ pc[r] \in {"load", "lockWait"}
           \/ LoadStart(r) /\ Goto(r, "lockWait")
              /\ UNCHANGED <<req, loaded, outcome, models, idleVars, victim>>
    PROVE  CountInv'
<1>. DEFINE way == {"announce", "load", "lockWait", "gateWait", "check", "backend", "useWait"}
<1>1. CASE WorkerExits(r)
  <2>1. UNCHANGED <<req, loaded, outcome, pc, models, idleTask, fresh, timerOf, victim>>
    BY <1>1 DEF WorkerExits, reqVars, modelVars, idleVars
  <2>. QED BY <2>1, UnchangedCount
<1>2. CASE /\ pc[r] \in way /\ \E to \in way \cup {"held", "done"} : Goto(r, to)
           /\ \A x \in Request \ {r} : outcome'[x] = outcome[x]
           /\ outcome'[r] = "gone" => pc'[r] = "done"
           /\ UNCHANGED <<req, loaded, models, idleVars, victim>>
  <2>1. CountKeeps(r) /\ IdleKept
    <3>1. pc'[r] \in way \cup {"held", "done"} /\ \A x \in Task \ {r} : pc'[x] = pc[x]
      BY <1>2, TaskFacts DEF Goto, RefInv, TypeOK
    <3>2. OthersKeep(r)
      BY <1>2, <3>1, TaskFacts DEF OthersKeep, idleVars
    <3>3. outcome[r] # "gone"
      BY <1>2 DEF CountInv, Settled
    <3>. QED BY <1>2, <3>1, <3>2, <3>3, TaskFacts DEF CountKeeps, IdleKept, idleVars
  <2>2. FreshMoves(r)
    BY <1>2 DEF FreshMoves, idleVars
  <2>. QED BY <1>2, <2>1, <2>2, IdleCount, TaskFacts
<1>3. /\ outcome \in [Request -> Outcome \cup {None}] /\ pc \in [Task -> RequestPc \cup TimerPc]
      /\ outcome[r] = "gone" => pc[r] = "done"
  BY DEF RefInv, TypeOK, CountInv, Settled
<1>4. CASE Announced(r)
  BY <1>2, <1>3, <1>4, TaskFacts DEF Announced, Finish, Goto, modelVars
<1>5. CASE AnnounceFails(r)
  BY <1>2, <1>3, <1>5, TaskFacts DEF AnnounceFails, Finish, Goto, modelVars
<1>6. CASE CapFull(r) \/ BackendLoadFails(r)
  BY <1>2, <1>3, <1>6, TaskFacts DEF CapFull, BackendLoadFails, LoadAborts, Finish, Goto, modelVars
<1>7. CASE GateWoken(r) \/ UseWoken(r)
  BY <1>2, <1>3, <1>7 DEF GateWoken, UseWoken, reqVars, modelVars
<1>8. CASE \E lk : LoadMiss(r, lk) /\ pc[r] \in {"load", "lockWait"}
  BY <1>2, <1>3, <1>8 DEF LoadMiss, reqVars, modelVars
<1>9. CASE LoadStart(r) /\ Goto(r, "lockWait")
           /\ UNCHANGED <<req, loaded, outcome, models, idleVars, victim>>
  BY <1>2, <1>3, <1>9 DEF LoadStart
<1>. QED BY <1>1, <1>4, <1>5, <1>6, <1>7, <1>8, <1>9

\* The generation starts and ends: who makes an object fresh has it to reschedule.
LEMMA UseCount ==
    ASSUME RefInv, RefInv', CountInv, NEW r \in Request,
           UseStarts(r) \/ ChatStreamed(r) \/ ChatDropped(r) \/ EmbedEnds(r)
    PROVE  CountInv'
<1>1. /\ pc[r] \in {"held", "using"} /\ UNCHANGED <<req, loaded, models, idleTask, timerOf, victim>>
      /\ \E to \in {"using", "ending", "done"} : Goto(r, to)
      /\ \A x \in Request \ {r} : outcome'[x] = outcome[x]
      /\ outcome[r] # "gone" /\ (outcome'[r] = "gone" => pc'[r] = "done")
  <2>1. /\ outcome \in [Request -> Outcome \cup {None}] /\ pc \in [Task -> RequestPc \cup TimerPc]
        /\ outcome[r] = "gone" => pc[r] = "done"
    BY DEF RefInv, TypeOK, CountInv, Settled
  <2>2. CASE UseStarts(r)
    BY <2>1, <2>2 DEF UseStarts, reqVars
  <2>3. CASE ChatStreamed(r)
    BY <2>1, <2>3 DEF ChatStreamed, Releases, Finish
  <2>4. CASE ChatDropped(r)
    BY <2>1, <2>4, TaskFacts DEF ChatDropped, Releases, Finish, Goto
  <2>5. CASE EmbedEnds(r)
    BY <2>1, <2>5 DEF EmbedEnds, Releases, Finish
  <2>. QED BY <2>2, <2>3, <2>4, <2>5
<1>2. /\ \A x \in Task \ {r} : pc'[x] = pc[x]
      /\ pc'[r] \in {"using", "ending", "done"}
      /\ pc'[r] = "using" => UseStarts(r)
  BY <1>1, TaskFacts DEF Goto, RefInv, TypeOK, ChatStreamed, ChatDropped, EmbedEnds, Releases
<1>3. PICK o \in Request : /\ o = loaded[r] /\ pc[o] # "new"
                           /\ pc[r] = "using" => RoleOf(o) = req[r].op
  BY <1>1 DEF RefInv, Shape, RequestShape, Object, UsePc, CountInv, Settled
<1>4. pc'[r] = "using" => RoleOf(o) = req[r].op
  BY <1>2, <1>3 DEF UseStarts, Usable
<1>5. CountKeeps(r) /\ IdleKept
  <2>1. OthersKeep(r)
    BY <1>1, <1>2, TaskFacts DEF OthersKeep
  <2>. QED BY <1>1, <1>2, <1>3, <1>4, <2>1, TaskFacts DEF CountKeeps, IdleKept
<1>6. Quiet' => FreshMoves(r)
  <2>1. \A x \in Request : fresh'[x] => fresh[x] \/ (x = o /\ fresh' = [fresh EXCEPT ![o] = TRUE])
    BY <1>3 DEF UseStarts, ChatStreamed, ChatDropped, EmbedEnds, RefInv, TypeOK
  <2>2. pc'[r] \in {"using", "ending"} => Using(o)'
    BY <1>1, <1>3 DEF Using
  <2>3. CASE UseStarts(r) \/ ChatStreamed(r)
    <3>1. pc'[r] \in {"using", "ending"}
      BY <1>1, <1>2, <2>3 DEF UseStarts, ChatStreamed, Releases, Goto, RefInv, TypeOK
    <3>. QED BY <1>3, <2>1, <2>2, <3>1 DEF FreshMoves
  <2>4. CASE ChatDropped(r)
    <3>1. outcome'[r] = "gone"
      BY <2>4 DEF ChatDropped, Releases, Finish, RefInv, TypeOK
    <3>. QED BY <3>1 DEF Quiet
  <2>5. CASE EmbedEnds(r)
    <3>1. CASE pc[r] = "using"
      <4>1. RoleOf(o) # "chat"
        BY <1>3, <2>5, <3>1 DEF EmbedEnds
      <4>. QED BY <1>3, <2>1, <4>1 DEF FreshMoves
    <3>2. CASE pc[r] # "using"
      <4>1. fresh' = fresh
        BY <2>5, <3>2 DEF EmbedEnds
      <4>. QED BY <1>1, <3>2, <4>1 DEF FreshMoves
    <3>. QED BY <3>1, <3>2
  <2>. QED BY <2>3, <2>4, <2>5
<1>. QED BY <1>1, <1>5, <1>6, IdleCount, TaskFacts

\* A step that restarts the countdown of o: whatever else is resident is not o.
LEMMA ScheduleCount ==
    ASSUME RefInv, RefInv', CountInv, NEW r \in Request, CountKeeps(r),
           NEW o \in Request, NEW keep, NEW to, ScheduleIdle(o, keep, r, to),
           Quiet => keep # "pin", pc[r] # "unloading",
           pc[r] \in {"using", "ending"} => loaded[r] = o,
           \A a \in Alias : models'[a] # None => models'[a] = models[a] \/ models'[a] = o
    PROVE  CountInv'
<1>1. /\ TaskOwn'
      /\ \A x \in Request \ {o} : Stoppable(x)' = Stoppable(x)
      /\ RoleOf(o) = "chat" /\ keep # "pin" => Stoppable(o)' # None
      /\ ~fresh'[o] /\ \A x \in Request \ {o} : fresh'[x] = fresh[x]
  BY ScheduleTasks DEF RefInv, CountInv
<1>2. FreshMoves(r)
  BY <1>1 DEF FreshMoves
<1>3. ASSUME keep # "pin", NEW a \in Alias, models'[a] # None, RoleOf(models'[a]) = "chat"
      PROVE  Cared(a)' \/ (models'[a] = models[a] /\ ~Loses(r, a))
  <2>1. PICK x \in Request : x = models'[a]
    BY <1>3 DEF RefInv, TypeOK
  <2>2. Stoppable(models[a])' = Stoppable(x)'
    BY <2>1 DEF Stoppable
  <2>3. CASE x = o
    <3>1. Stoppable(models[a])' # None
      BY <1>1, <1>3, <2>1, <2>2, <2>3
    <3>. QED BY <3>1 DEF Cared
  <2>4. CASE x # o
    <3>1. models'[a] = models[a] /\ models[a] = x
      BY <1>3, <2>1, <2>4
    <3>2. Stoppable(models[a])' = Stoppable(models[a])
      BY <1>1, <2>2, <2>4, <3>1
    <3>. QED BY <2>4, <3>1, <3>2 DEF Loses
  <2>. QED BY <2>3, <2>4
<1>4. keep # "pin" => CountMoves(r)
  BY <1>3 DEF CountMoves
<1>. QED BY <1>1, <1>2, <1>4, CountFrame, TaskFacts

\* load() finds its model, or inserts the one it loaded.
LEMMA LoadCount ==
    ASSUME RefInv, RefInv', CountInv, NEW r \in Request, LoadStart(r) \/ LoadWoken(r) \/ LoadInserts(r)
    PROVE  CountInv'
<1>1. /\ pc[r] \in {"load", "lockWait", "backend"}
      /\ \A x \in Request : outcome[x] = "gone" => pc[x] = "done"
  BY DEF LoadStart, LoadWoken, LoadInserts, CountInv, Settled
<1>0. PICK a \in Alias : a = AliasOf(r)
  BY <1>1, WhereFacts DEF LoadPc, RefInv
<1>2. ASSUME NEW o \in Request, NEW lk, ScheduleIdle(o, "delay", r, AfterLoad(r, lk)),
             UNCHANGED <<req, victim>>, \E n : loaded' = [loaded EXCEPT ![r] = n],
             outcome' = [outcome EXCEPT ![r] = IF req[r].op = "load" THEN "ok" ELSE @],
             \A b \in Alias : models'[b] # None => models'[b] = models[b] \/ models'[b] = o
      PROVE  CountInv'
  <2>. DEFINE to == AfterLoad(r, lk)
  <2>1. to \in {"done", "held", "useWait"} /\ ScheduleIdle(o, "delay", r, to)
    BY <1>2 DEF AfterLoad
  <2>. HIDE DEF to
  <2>2. pc'[r] = to /\ OthersKeep(r)
    BY <1>2, <2>1, ScheduleIdleKeeps DEF RequestPc, RefInv
  <2>3. /\ \A x \in Request \ {r} : loaded'[x] = loaded[x] /\ outcome'[x] = outcome[x]
        /\ outcome'[r] \in {"ok", outcome[r]} /\ outcome[r] # "gone"
    BY <1>1, <1>2 DEF RefInv, TypeOK
  <2>4. CountKeeps(r)
    BY <2>1, <2>2, <2>3, TaskFacts DEF CountKeeps
  <2>. QED BY <1>1, <1>2, <2>1, <2>4, ScheduleCount
<1>3. ASSUME NEW lk, LoadHit(r, lk) PROVE CountInv'
  <2>1. /\ models[a] \in Request /\ UNCHANGED <<req, models, victim>>
        /\ ScheduleIdle(models[a], "delay", r, AfterLoad(r, Abandon(lk, Stoppable(models[a]))))
        /\ \E n : loaded' = [loaded EXCEPT ![r] = n]
        /\ outcome' = [outcome EXCEPT ![r] = IF req[r].op = "load" THEN "ok" ELSE @]
    BY <1>0, <1>3 DEF LoadHit, LoadReturns, RefInv, TypeOK
  <2>. QED BY <1>2, <2>1
<1>4. CASE LoadInserts(r)
  <2>1. /\ models' = [models EXCEPT ![a] = r] /\ UNCHANGED <<req, victim>>
        /\ ScheduleIdle(r, "delay", r, AfterLoad(r, Release(lock[a])))
        /\ \E n : loaded' = [loaded EXCEPT ![r] = n]
        /\ outcome' = [outcome EXCEPT ![r] = IF req[r].op = "load" THEN "ok" ELSE @]
    BY <1>0, <1>4 DEF LoadInserts
  <2>2. \A b \in Alias : models'[b] = models[b] \/ models'[b] = r
    BY <2>1 DEF RefInv, TypeOK
  <2>. QED BY <1>2, <2>1, <2>2
<1>5. CASE LoadWoken(r)
  <2>1. pc[r] = "lockWait" /\ \E lk : LoadHit(r, lk) \/ LoadMiss(r, lk)
    BY <1>5 DEF LoadWoken
  <2>. QED BY <1>3, <2>1, WayCount
<1>6. CASE LoadStart(r)
  <2>1. /\ pc[r] = "load"
        /\ \/ Goto(r, "lockWait") /\ UNCHANGED <<req, loaded, outcome, models, idleVars, victim>>
           \/ \E lk : LoadHit(r, lk) \/ LoadMiss(r, lk)
    BY <1>6 DEF LoadStart, reqVars, modelVars
  <2>. QED BY <1>3, <1>6, <2>1, WayCount
<1>. QED BY <1>4, <1>5, <1>6

\* A chat ends: the model counts down from here.
LEMMA ChatCount ==
    ASSUME RefInv, RefInv', CountInv, NEW r \in Request, ChatErrs(r) \/ ChatReplied(r)
    PROVE  CountInv'
<1>1. /\ pc[r] \in {"held", "using", "ending"} /\ UNCHANGED <<req, loaded, models, victim>>
      /\ ScheduleIdle(loaded[r], req[r].keep, r, "done")
      /\ \A x \in Request \ {r} : outcome'[x] = outcome[x]
      /\ outcome[r] # "gone" /\ outcome'[r] # "gone"
  BY DEF ChatErrs, ChatReplied, ChatEnds, Finish, reqVars, modelVars, RefInv, TypeOK, CountInv, Settled
<1>2. PICK o \in Request : o = loaded[r]
  BY <1>1 DEF RefInv, Shape, RequestShape, Object, UsePc
<1>3. pc'[r] = "done" /\ OthersKeep(r)
  BY <1>1, <1>2, ScheduleIdleKeeps DEF RequestPc, RefInv
<1>4. CountKeeps(r)
  BY <1>1, <1>3, TaskFacts DEF CountKeeps
<1>5. Quiet => req[r].keep # "pin"
  BY DEF Quiet
<1>. QED BY <1>1, <1>2, <1>4, <1>5, ScheduleCount

\* A return from unload(v): the idle task that returns belongs to the model of v,
\* which is gone.
LEMMA ReturnCount ==
    ASSUME RefInv, RefInv', CountInv, NEW t \in Task, NEW v \in Alias, UnloadReturns(t),
           UNCHANGED <<req, loaded, fresh>>,
           pc[t] \notin {"new", "done", "using", "ending"},
           t \in Timer \/ pc[t] = "unloading" => v = VictimOf(t),
           models'[v] = None, \A b \in Alias \ {v} : models'[b] = models[b]
    PROVE  CountInv'
<1>1. /\ pc'[t] = ReturnPc(t) /\ \A x \in Task \ {t} : pc'[x] = pc[x]
      /\ \A u \in Timer \ {t} : timerOf'[u] = timerOf[u]
      /\ \A x \in Request \ {t} : victim'[x] = victim[x] /\ outcome'[x] = outcome[x]
      /\ t \in Request => outcome'[t] \in {"ok", outcome[t]} /\ outcome[t] # "gone"
  BY UnloadReturnsFacts DEF UnloadReturns, RefInv, TypeOK, CountInv, Settled
<1>2. CountKeeps(t)
  <2>1. OthersKeep(t)
    BY <1>1, TaskFacts DEF OthersKeep
  <2>. QED BY <1>1, <2>1, TaskFacts DEF CountKeeps, ReturnPc
<1>3. /\ TaskOwn'
      /\ \A x \in Request : idleTask[x] # t => Stoppable(x)' = Stoppable(x)
  BY ReturnTasks DEF RefInv, CountInv
<1>4. FreshMoves(t)
  BY DEF FreshMoves
<1>5. ASSUME NEW a \in Alias, models'[a] # None
      PROVE  models'[a] = models[a] /\ ~Loses(t, a)
  <2>1. PICK x \in Request : x = models[a] /\ a # v /\ models'[a] = models[a]
    BY <1>5 DEF RefInv, TypeOK
  <2>2. AliasOf(x) = a
    BY <1>5, <2>1 DEF RefInv, Shape, ModelShape
  <2>3. idleTask[x] # t
    <3>. SUFFICES ASSUME idleTask[x] = t PROVE FALSE
      OBVIOUS
    <3>1. t \in Timer /\ t # None
      BY TaskFacts DEF RefInv, TypeOK, Task
    <3>2. timerOf[t] = x
      BY <3>1 DEF CountInv, TaskOwn
    <3>. QED BY <2>1, <2>2, <3>1, <3>2 DEF VictimOf
  <2>4. Stoppable(models[a])' = Stoppable(x)'
    BY <2>1 DEF Stoppable
  <2>. QED BY <1>3, <2>1, <2>3, <2>4 DEF Loses
<1>6. CountMoves(t)
  BY <1>5 DEF CountMoves
<1>. QED BY <1>2, <1>3, <1>4, <1>6, CountFrame

\* The start of backend.unload: the model of v is on its way out, the others
\* keep their countdowns.
LEMMA BeginCount ==
    ASSUME RefInv, RefInv', CountInv, NEW t \in Task, NEW v \in Alias,
           NEW lk \in LockType(Task), UnloadBegins(t, v, lk), UNCHANGED <<req, loaded>>,
           \A x \in Request \ {t} : victim'[x] = victim[x],
           pc[t] \notin {"new", "done", "using", "ending", "unloading"},
           t \in Timer => v = VictimOf(t) /\ pc[t] # "free", VictimOf(t)' = v
    PROVE  CountInv'
<1>1. /\ pc'[t] = "unloading" /\ OthersKeep(t)
      /\ UNCHANGED <<outcome, models, fresh>> /\ models[v] # None
  BY UnloadBeginsFacts, TaskFacts DEF OthersKeep, RefInv, UnloadBegins
<1>2. CountKeeps(t)
  BY <1>1, TaskFacts DEF CountKeeps, CountInv, Settled
<1>3. /\ TaskOwn'
      /\ \A x \in Request : x # models[v] /\ idleTask[x] # t => Stoppable(x)' = Stoppable(x)
  BY BeginTasks DEF RefInv, CountInv
<1>4. FreshMoves(t)
  BY <1>1 DEF FreshMoves
<1>5. ASSUME NEW a \in Alias, models'[a] # None
      PROVE  Cared(a)' \/ (models'[a] = models[a] /\ ~Loses(t, a))
  <2>1. CASE a = v
    BY <1>1, <2>1 DEF Cared, Leaves
  <2>2. CASE a # v
    <3>1. PICK x \in Request : x = models[a] /\ models'[a] = models[a]
      BY <1>1, <1>5 DEF RefInv, TypeOK
    <3>2. AliasOf(x) = a /\ x # models[v]
      BY <1>1, <1>5, <2>2, <3>1 DEF RefInv, Shape, ModelShape
    <3>3. idleTask[x] # t
      <4>. SUFFICES ASSUME idleTask[x] = t PROVE FALSE
        OBVIOUS
      <4>1. t \in Timer /\ t # None
        BY TaskFacts DEF RefInv, TypeOK, Task
      <4>2. timerOf[t] = x
        BY <4>1 DEF CountInv, TaskOwn
      <4>. QED BY <2>2, <3>2, <4>1, <4>2 DEF VictimOf
    <3>4. Stoppable(models[a])' = Stoppable(x)'
      BY <3>1 DEF Stoppable
    <3>. QED BY <1>3, <3>1, <3>2, <3>3, <3>4 DEF Loses
  <2>. QED BY <2>1, <2>2
<1>6. CountMoves(t)
  BY <1>5 DEF CountMoves
<1>. QED BY <1>2, <1>3, <1>4, <1>6, CountFrame

\* unload(v) up to its first suspension.
LEMMA EntersCount ==
    ASSUME RefInv, RefInv', CountInv, NEW t \in Task, NEW v \in Alias, UnloadCall(t, v),
           pc[t] \in {"unload", "check", "evict", "asleep", "due"}, UnloadEnters(t, v)
    PROVE  CountInv'
<1>1. UNCHANGED <<req, loaded>>
  BY DEF UnloadEnters
<1>2. CASE UnloadReturns(t) /\ models[v] = None /\ UNCHANGED <<modelVars, fresh>>
  <2>1. t \in Timer => v = VictimOf(t)
    BY TaskFacts DEF UnloadCall
  <2>2. models'[v] = None /\ \A b \in Alias \ {v} : models'[b] = models[b]
    BY <1>2 DEF modelVars
  <2>. QED BY <1>1, <1>2, <2>1, <2>2, ReturnCount
<1>3. CASE /\ UnloadBegins(t, v, Acquire(lock[v], t))
           /\ victim' = [x \in Request |-> IF x = t THEN v ELSE victim[x]]
  <2>1. Acquire(lock[v], t) \in LockType(Task)
    BY LockTypes, TaskFacts DEF RefInv
  <2>2. t \in Timer => timerOf'[t] = timerOf[t]
    BY <1>3, <2>1, UnloadBeginsFacts, TaskFacts DEF RefInv
  <2>3. VictimOf(t)' = v
    BY <1>1, <1>3, <2>2, TaskFacts DEF UnloadCall, VictimOf, AliasOf, Task, LoadOp
  <2>4. \A x \in Request \ {t} : victim'[x] = victim[x]
    BY <1>3
  <2>5. t \in Timer => v = VictimOf(t) /\ pc[t] # "free"
    BY TaskFacts DEF UnloadCall
  <2>. QED BY <1>1, <1>3, <2>1, <2>3, <2>4, <2>5, BeginCount
<1>4. CASE /\ Goto(t, "unloadWait") /\ UNCHANGED <<outcome, modelVars, idleVars>>
           /\ victim' = [x \in Request |-> IF x = t THEN v ELSE victim[x]]
  <2>1. pc'[t] = "unloadWait" /\ \A x \in Task \ {t} : pc'[x] = pc[x]
    BY <1>4 DEF Goto, RefInv, TypeOK
  <2>2. OthersKeep(t)
    BY <1>1, <1>4, <2>1, TaskFacts DEF OthersKeep, idleVars
  <2>3. CountKeeps(t)
    BY <1>1, <1>4, <2>1, <2>2, TaskFacts DEF CountKeeps, CountInv, Settled
  <2>4. TaskOwn' /\ \A x \in Request : Stoppable(x)' = Stoppable(x)
    <3>1. t \in Timer => pc[t] \in {"asleep", "due"}
      BY DEF RefInv, TypeOK, TimerPc
    <3>. QED BY <1>4, <3>1, WaitTasks DEF RefInv, CountInv
  <2>5. FreshMoves(t)
    BY <1>4 DEF FreshMoves, idleVars
  <2>6. ASSUME NEW a \in Alias, models'[a] # None PROVE models'[a] = models[a] /\ ~Loses(t, a)
    <3>1. PICK x \in Request : x = models[a] /\ models'[a] = models[a]
      BY <1>4, <2>6 DEF RefInv, TypeOK, modelVars
    <3>2. Stoppable(models[a])' = Stoppable(x)'
      BY <3>1 DEF Stoppable
    <3>. QED BY <2>4, <3>1, <3>2 DEF Loses
  <2>7. CountMoves(t)
    BY <2>6 DEF CountMoves
  <2>. QED BY <2>3, <2>4, <2>5, <2>7, CountFrame
<1>. QED BY <1>2, <1>3, <1>4 DEF UnloadEnters

\* unload() begins: for a request, for an idle task, for the victims of a load().
LEMMA UnloadStartCount ==
    ASSUME RefInv, RefInv', CountInv, NEW t \in Task,
           (t \in Request /\ UnloadStart(t)) \/ (t \in Timer /\ TimerUnloads(t))
    PROVE  CountInv'
<1>1. VictimOf(t) \in Alias /\ UnloadEnters(t, VictimOf(t)) /\ pc[t] \in {"unload", "asleep", "due"}
  BY VictimFacts, TaskFacts
     DEF UnloadStart, TimerUnloads, VictimOf, Shape, RequestShape, RefInv
<1>2. UnloadCall(t, VictimOf(t))
  BY TaskFacts DEF UnloadStart, TimerUnloads, VictimOf, Shape, RequestShape, RefInv, UnloadCall
<1>. QED BY <1>1, <1>2, EntersCount

LEMMA EvictsCount ==
    ASSUME RefInv, RefInv', CountInv, NEW r \in Request, CapCheck(r) \/ EvictNext(r)
    PROVE  CountInv'
<1>0. PICK a \in Alias : a = AliasOf(r)
  BY WhereFacts DEF CapCheck, EvictNext, LoadPc, RefInv
<1>1. PICK vs \in SUBSET Alias : Evicts(r, vs) /\ a \notin vs
  <2>1. CASE CapCheck(r)
    <3>1. LET vs == IF Capped(r) THEN Victims(r) ELSE {} IN
          vs \in SUBSET Alias /\ a \notin vs /\ Evicts(r, vs)
      BY <1>0, <2>1 DEF CapCheck, Victims, Evictable, Resident
    <3>. QED BY <3>1
  <2>2. CASE EvictNext(r)
    BY <1>0, <2>2 DEF EvictNext, Evicting, RefInv, TypeOK, Shape, RequestShape
  <2>. QED BY <2>1, <2>2
<1>2. pc[r] \in {"check", "evict"} /\ req[r].op \in LoadOp
  BY WhereFacts DEF CapCheck, EvictNext, LoadPc, RefInv
<1>3. CASE vs = {}
  <2>1. Goto(r, "backend") /\ UNCHANGED <<req, loaded, outcome, models, idleTask, fresh, timerOf, victim>>
    BY <1>1, <1>3 DEF Evicts, reqVars, modelVars, idleVars
  <2>2. pc'[r] = "backend" /\ \A x \in Task \ {r} : pc'[x] = pc[x]
    BY <2>1, TaskFacts DEF Goto, RefInv, TypeOK
  <2>3. OthersKeep(r)
    BY <2>1, <2>2, TaskFacts DEF OthersKeep
  <2>4. CountKeeps(r) /\ IdleKept
    BY <1>2, <2>1, <2>2, <2>3, TaskFacts DEF CountKeeps, IdleKept, CountInv, Settled
  <2>5. FreshMoves(r)
    BY <1>2, <2>1 DEF FreshMoves
  <2>. QED BY <1>2, <2>1, <2>4, <2>5, IdleCount, TaskFacts
<1>4. CASE vs # {}
  <2>1. PICK v \in vs : todo' = [todo EXCEPT ![r] = vs \ {v}] /\ UnloadEnters(r, v)
    BY <1>1, <1>4 DEF Evicts
  <2>2. todo'[r] = vs \ {v}
    BY <2>1 DEF RefInv, TypeOK
  <2>3. UnloadCall(r, v)
    BY <1>0, <1>1, <1>2, <2>1, <2>2 DEF UnloadCall
  <2>. QED BY <1>1, <1>2, <2>1, <2>3, EntersCount, TaskFacts
<1>. QED BY <1>3, <1>4

\* The lock of the model arrives; backend.unload returns, or raises.
LEMMA UnloadGoesCount ==
    ASSUME RefInv, RefInv', CountInv, NEW t \in Task,
           UnloadWoken(t) \/ UnloadDone(t) \/ (t \in Request /\ UnloadFails(t))
    PROVE  CountInv'
<1>0. PICK v \in Alias : v = VictimOf(t)
  BY VictimFacts DEF UnloadWoken, UnloadDone, UnloadFails, UnloadPc, RefInv
<1>1. pc[t] \in {"unloadWait", "unloading"} /\ UNCHANGED req /\ UNCHANGED loaded
  BY DEF UnloadWoken, UnloadDone, UnloadFails, LoadAborts
<1>2. CASE UnloadWoken(t) /\ UnloadReturns(t) /\ models[v] = None /\ UNCHANGED <<modelVars, fresh>>
  <2>1. models'[v] = None /\ \A b \in Alias \ {v} : models'[b] = models[b]
    BY <1>2 DEF modelVars
  <2>. QED BY <1>0, <1>1, <1>2, <2>1, ReturnCount
<1>3. CASE pc[t] = "unloadWait" /\ UnloadBegins(t, v, Take(lock[v], t)) /\ Woken(lock[v], t)
           /\ UNCHANGED victim
  <2>1. Take(lock[v], t) \in LockType(Task)
    BY <1>3, LockTypes, TaskFacts DEF RefInv
  <2>2. t \in Timer => timerOf'[t] = timerOf[t]
    BY <1>3, <2>1, UnloadBeginsFacts, TaskFacts DEF RefInv
  <2>3. VictimOf(t)' = v
    BY <1>0, <1>1, <1>3, <2>2, TaskFacts DEF VictimOf, AliasOf, Task
  <2>4. \A x \in Request \ {t} : victim'[x] = victim[x]
    BY <1>3
  <2>. QED BY <1>0, <1>1, <1>3, <2>1, <2>3, <2>4, BeginCount
<1>4. CASE UnloadDone(t)
  <2>1. UnloadReturns(t) /\ UNCHANGED fresh /\ models' = [models EXCEPT ![v] = None]
    BY <1>0, <1>4 DEF UnloadDone
  <2>2. models'[v] = None /\ \A b \in Alias \ {v} : models'[b] = models[b]
    BY <2>1 DEF RefInv, TypeOK
  <2>. QED BY <1>0, <1>1, <2>1, <2>2, ReturnCount
<1>5. CASE t \in Request /\ UnloadFails(t)
  <2>1. /\ pc[t] = "unloading" /\ Goto(t, "done") /\ outcome' = [outcome EXCEPT ![t] = "error"]
        /\ UNCHANGED <<req, loaded, idleTask, fresh, timerOf>>
        /\ models' = [models EXCEPT ![v] = None] /\ victim' = [victim EXCEPT ![t] = None]
    BY <1>0, <1>5 DEF UnloadFails, LoadAborts, Finish, idleVars
  <2>2. pc'[t] = "done" /\ \A x \in Task \ {t} : pc'[x] = pc[x]
    BY <2>1, TaskFacts DEF Goto, RefInv, TypeOK
  <2>3. OthersKeep(t)
    BY <2>1, <2>2, TaskFacts DEF OthersKeep, RefInv, TypeOK
  <2>4. CountKeeps(t) /\ IdleKept
    BY <2>1, <2>2, <2>3, TaskFacts DEF CountKeeps, IdleKept, RefInv, TypeOK, CountInv, Settled
  <2>5. FreshMoves(t)
    BY <2>1 DEF FreshMoves
  <2>6. TaskOwn' /\ \A x \in Request : Stoppable(x)' = Stoppable(x)
    BY <2>4, KeptTasks DEF CountInv, RefInv
  <2>7. ASSUME NEW a \in Alias, models'[a] # None PROVE models'[a] = models[a] /\ ~Loses(t, a)
    <3>1. a # v /\ models'[a] = models[a]
      BY <2>1, <2>7 DEF RefInv, TypeOK
    <3>2. PICK x \in Request : x = models[a]
      BY <2>7, <3>1 DEF RefInv, TypeOK
    <3>3. Stoppable(models[a])' = Stoppable(x)'
      BY <3>1, <3>2 DEF Stoppable
    <3>. QED BY <1>0, <2>1, <2>6, <3>1, <3>2, <3>3 DEF Loses
  <2>8. CountMoves(t)
    BY <2>7 DEF CountMoves
  <2>. QED BY <2>4, <2>5, <2>6, <2>8, CountFrame
<1>. QED BY <1>0, <1>2, <1>3, <1>4, <1>5 DEF UnloadWoken

\* The delay is over: an idle task that finds its model used starts over, or
\* ends when a chat is about to reschedule it.
LEMMA TimerCount ==
    ASSUME RefInv, RefInv', CountInv, NEW u \in Timer, TimerDefers(u) \/ TimerSkips(u)
    PROVE  CountInv'
<1>1. /\ pc[u] = "asleep" /\ UNCHANGED <<req, loaded, outcome, models, victim>>
      /\ u \in Task
  BY TaskFacts DEF TimerDefers, TimerSkips, reqVars, modelVars
<1>2. \A x \in Request : fresh'[x] => fresh[x]
  BY DEF TimerDefers, TimerSkips, RefInv, TypeOK
<1>3. FreshMoves(u)
  BY <1>1, <1>2 DEF FreshMoves
<1>4. CASE TimerDefers(u)
  <2>1. CountKeeps(u) /\ IdleKept
    BY <1>1, <1>4, TaskFacts DEF TimerDefers, CountKeeps, OthersKeep, IdleKept
  <2>. QED BY <1>1, <1>3, <2>1, IdleCount
<1>5. CASE TimerSkips(u)
  <2>1. PICK o \in Request : o = timerOf[u]
    BY <1>1 DEF RefInv, Shape, TimerShape, Object
  <2>2. /\ Goto(u, "free") /\ timerOf' = [timerOf EXCEPT ![u] = None]
        /\ idleTask' = [idleTask EXCEPT ![o] = None] /\ fresh[o]
        /\ ~Locked(lock[AliasOf(o)])
    BY <1>5, <2>1 DEF TimerSkips
  <2>3. /\ pc'[u] = "free" /\ \A x \in Task \ {u} : pc'[x] = pc[x]
        /\ \A x \in Timer \ {u} : timerOf'[x] = timerOf[x]
        /\ \A x \in Request : idleTask'[x] = IF x = o THEN None ELSE idleTask[x]
    BY <1>1, <2>2 DEF Goto, RefInv, TypeOK
  <2>4. CountKeeps(u)
    <3>1. OthersKeep(u)
      BY <1>1, <2>3, TaskFacts DEF OthersKeep
    <3>. QED BY <1>1, <3>1, TaskFacts DEF CountKeeps
  <2>5. ASSUME NEW x \in Request \ {o}, idleTask[x] # None
        PROVE  /\ idleTask[x] \in Timer \ {u} /\ idleTask[x] \in Task
               /\ timerOf[idleTask[x]] = x /\ pc[idleTask[x]] # "free"
    BY <2>1, <2>5, TaskFacts DEF RefInv, TypeOK, CountInv, TaskOwn
  <2>6. TaskOwn'
    BY <2>3, <2>5 DEF TaskOwn
  <2>7. ASSUME NEW x \in Request \ {o} PROVE Stoppable(x)' = Stoppable(x)
    BY <2>3, <2>5 DEF Stoppable
  <2>8. FreshHeld /\ RoleOf(o) = "chat" => Ending(o)
    <3>. SUFFICES ASSUME FreshHeld, RoleOf(o) = "chat" PROVE Ending(o)
      OBVIOUS
    <3>1. PICK r \in Request : pc[r] \in {"using", "ending"} /\ loaded[r] = o
      BY <2>2 DEF FreshHeld, Using
    <3>2. AliasOf(o) = AliasOf(r) /\ AliasOf(r) \in Lock
      BY <3>1, WhereFacts, TaskFacts DEF RefInv, Shape, RequestShape, UsePc
    <3>3. pc[r] # "using"
      <4>. SUFFICES ASSUME pc[r] = "using" PROVE FALSE
        OBVIOUS
      <4>1. AliasOf(r) \in Claims(r)
        BY DEF Claims
      <4>2. lock[AliasOf(r)].owner = r
        BY <3>2, <4>1, TaskFacts DEF RefInv, LockDiscipline
      <4>. QED BY <2>2, <3>2, <4>2, TaskFacts DEF Locked
    <3>. QED BY <3>1, <3>3 DEF Ending
  <2>9. ASSUME FreshHeld, NEW a \in Alias, models'[a] # None, RoleOf(models'[a]) = "chat"
        PROVE  Cared(a)' \/ (models'[a] = models[a] /\ ~Loses(u, a))
    <3>1. PICK x \in Request : x = models[a] /\ x = models'[a]
      BY <1>1, <2>9 DEF RefInv, TypeOK
    <3>2. CASE x = o
      <4>1. PICK r \in Request : pc[r] = "ending" /\ loaded[r] = o
        BY <2>8, <2>9, <3>1, <3>2 DEF Ending
      <4>2. pc'[r] = "ending" /\ loaded'[r] = models'[a]
        BY <1>1, <2>3, <3>1, <3>2, <4>1, TaskFacts
      <4>. QED BY <4>2 DEF Cared, Ending
    <3>3. CASE x # o
      <4>1. Stoppable(models[a])' = Stoppable(x)'
        BY <3>1 DEF Stoppable
      <4>. QED BY <1>1, <2>7, <3>1, <3>3, <4>1 DEF Loses
    <3>. QED BY <3>2, <3>3
  <2>10. FreshHeld => CountMoves(u)
    BY <2>9 DEF CountMoves
  <2>. QED BY <1>1, <1>3, <2>4, <2>6, <2>10, CountFrame
<1>. QED BY <1>4, <1>5

\* A request arrives: no object is named after it yet.
LEMMA ArrivalCount ==
    ASSUME RefInv, RefInv', CountInv, NEW r \in Request, Arrival(r)
    PROVE  CountInv'
<1>1. /\ pc[r] = "new" /\ pc'[r] \in {"done", "announce", "load", "unload"}
      /\ \A x \in Request \ {r} : req'[x] = req[x] /\ outcome'[x] = outcome[x]
      /\ outcome[r] # "gone" /\ outcome'[r] # "gone" /\ req[r].keep # "pin"
      /\ \A x \in Task \ {r} : pc'[x] = pc[x]
      /\ UNCHANGED <<loaded, models, idleTask, fresh, timerOf, victim>>
  <2>1. /\ pc[r] = "new" => outcome[r] # "gone" /\ req[r].keep # "pin"
        /\ outcome \in [Request -> Outcome \cup {None}]
        /\ pc \in [Task -> RequestPc \cup TimerPc]
        /\ req \in [Request -> [op : Op \cup {None}, alias : Alias \cup {None},
                            role : Role \cup {None}, id : Id \cup {None},
                            keep : KeepAliveClass \cup {None}]]
    BY DEF CountInv, Settled, RefInv, TypeOK
  <2>. QED BY <2>1, TaskFacts DEF Arrival, ChatConflict, ChatUnknown, ChatAccepted, EmbedArrives,
       LoadArrives, UnloadArrives, CancelArrives, Arrives, Goto, Finish, modelVars, idleVars
<1>2. \A x \in Request \ {r} : RoleOf(x)' = RoleOf(x) /\ AliasOf(x)' = AliasOf(x)
  BY <1>1 DEF RoleOf, AliasOf
<1>3. TaskOwn' /\ \A x \in Request : Stoppable(x)' = Stoppable(x)
  <2>1. IdleKept
    BY <1>1, TaskFacts DEF IdleKept
  <2>. QED BY <2>1, KeptTasks DEF CountInv, RefInv
<1>4. \A x \in Request : pc[x] = "using" => loaded[x] \in Request \ {r}
  BY <1>1 DEF RefInv, Shape, RequestShape, Object, UsePc
<1>5. Settled'
  <2>. SUFFICES ASSUME NEW x \in Request
                PROVE  /\ outcome'[x] = "gone" => pc'[x] = "done"
                       /\ req'[x].keep = "pin" => pc'[x] # "new"
                       /\ pc'[x] = "using" => RoleOf(loaded[x])' = req'[x].op
    BY DEF Settled
  <2>1. CASE x = r
    BY <1>1, <2>1
  <2>2. CASE x # r
    <3>1. pc[x] = "using" => \E y \in Request \ {r} : y = loaded[x] /\ loaded'[x] = y
      BY <1>1, <1>4
    <3>2. pc[x] = "using" => RoleOf(loaded[x])' = RoleOf(loaded[x])
      BY <1>1, <3>1 DEF RoleOf
    <3>. QED BY <1>1, <2>2, <3>2, TaskFacts DEF CountInv, Settled
  <2>. QED BY <2>1, <2>2
<1>6. Quiet' => Quiet
  BY <1>1 DEF Quiet
<1>7. ASSUME FreshHeld PROVE FreshHeld'
  <2>. SUFFICES ASSUME NEW o \in Request, fresh[o]
                PROVE  pc'[o] # "new" /\ (RoleOf(o)' = "chat" => Using(o)')
    BY <1>1 DEF FreshHeld
  <2>1. pc[o] # "new" /\ o # r
    BY <1>1, <1>7 DEF FreshHeld
  <2>2. Using(o) => Using(o)'
    BY <1>1, TaskFacts DEF Using
  <2>. QED BY <1>1, <1>2, <1>7, <2>1, <2>2, TaskFacts DEF FreshHeld
<1>8. ASSUME Counted PROVE Counted'
  <2>. SUFFICES ASSUME NEW a \in Alias, models[a] # None, RoleOf(models[a])' = "chat"
                PROVE  Cared(a)'
    BY <1>1 DEF Counted
  <2>1. PICK x \in Request : x = models[a] /\ x # r
    BY <1>1 DEF RefInv, Shape, ModelShape, Object
  <2>2. RoleOf(models[a])' = RoleOf(x)
    BY <1>1, <2>1 DEF RoleOf
  <2>3. Cared(a)
    BY <1>8, <2>1, <2>2 DEF Counted
  <2>4. Stoppable(models[a])' = Stoppable(models[a])
    <3>1. Stoppable(models[a])' = Stoppable(x)'
      BY <1>1, <2>1 DEF Stoppable
    <3>. QED BY <1>3, <2>1, <3>1
  <2>5. CASE Leaves(a)
    <3>1. PICK t \in Task : pc[t] = "unloading" /\ VictimOf(t) = a
      BY <2>5 DEF Leaves
    <3>2. t # r /\ (t \in Timer => timerOf[t] \in Request \ {r})
      BY <1>1, <3>1 DEF RefInv, Shape, TimerShape, Object
    <3>3. pc'[t] = "unloading" /\ VictimOf(t)' = a
      BY <1>1, <3>1, <3>2, TaskFacts DEF VictimOf, AliasOf, Task
    <3>. QED BY <3>3 DEF Cared, Leaves
  <2>6. CASE Ending(models[a])
    <3>1. PICK y \in Request : pc[y] = "ending" /\ loaded[y] = models[a]
      BY <2>6 DEF Ending
    <3>2. pc'[y] = "ending" /\ loaded'[y] = models'[a]
      BY <1>1, <3>1, TaskFacts
    <3>. QED BY <3>2 DEF Cared, Ending
  <2>. QED BY <2>3, <2>4, <2>5, <2>6 DEF Cared
<1>. QED BY <1>3, <1>5, <1>6, <1>7, <1>8 DEF CountInv

LEMMA NextCount == RefInv /\ RefInv' /\ CountInv /\ [Next]_vars => CountInv'
<1>. SUFFICES ASSUME RefInv, RefInv', CountInv, [Next]_vars PROVE CountInv'
  OBVIOUS
<1>1. CASE UNCHANGED vars
  BY <1>1, UnchangedCount DEF vars
<1>2. ASSUME NEW r \in Request, Serve(r) PROVE CountInv'
  BY <1>2, WayCount, LoadCount, EvictsCount, UnloadStartCount, UnloadGoesCount, UseCount,
     ChatCount, TaskFacts DEF Serve
<1>3. ASSUME NEW r \in Request, Mishap(r) PROVE CountInv'
  BY <1>3, WayCount, UseCount, UnloadGoesCount, TaskFacts DEF Mishap
<1>4. ASSUME NEW u \in Timer, Tick(u) PROVE CountInv'
  BY <1>4, TimerCount, UnloadStartCount, UnloadGoesCount, TaskFacts DEF Tick
<1>. QED BY <1>1, <1>2, <1>3, <1>4, ArrivalCount DEF Next, Terminated

LEMMA InitCount == Init => CountInv
<1>. SUFFICES ASSUME Init PROVE CountInv
  OBVIOUS
<1>1. \A r \in Request : /\ pc[r] = "new" /\ outcome[r] = None /\ req[r].keep = None
                         /\ idleTask[r] = None /\ ~fresh[r]
  BY TaskFacts DEF Init, NoReq
<1>2. \A a \in Alias : models[a] = None
  BY DEF Init
<1>3. None # "gone" /\ None # "pin"
  BY Assumptions DEF Outcome, KeepAliveClass
<1>4. "new" # "using"
  OBVIOUS
<1>. QED BY <1>1, <1>2, <1>3, <1>4 DEF CountInv, TaskOwn, Settled, FreshHeld, Counted

\* A chat model that nobody uses or awaits is never resident for good: as long
\* as no client drops its connection or pins a model, its countdown runs,
\* whatever cancels, evictions, failures and late wake-ups there were.
THEOREM CountdownsRun == Spec => []CountdownRuns
<1>1. Spec => []RefInv
  <2>1. Spec => []CapInv
    BY ShapeInvariant, LocksAreDisciplined, InitCap, NextCap, PTL DEF Spec
  <2>. QED BY <2>1, ShapeInvariant, LocksAreDisciplined, PTL DEF RefInv
<1>2. RefInv /\ CountInv => CountdownRuns
  <2>. SUFFICES ASSUME RefInv, CountInv, Quiet, NEW a \in Alias, models[a] # None,
                       RoleOf(models[a]) = "chat", ~Awaited(a)
                PROVE  Stoppable(models[a]) # None
    BY DEF CountdownRuns, Quiet
  <2>1. Cared(a)
    BY DEF CountInv, Counted
  <2>2. ~Leaves(a)
    <3>. SUFFICES ASSUME NEW t \in Task, pc[t] = "unloading", VictimOf(t) = a PROVE FALSE
      BY DEF Leaves
    <3>1. a \in Claims(t) /\ a \in Lock
      BY TaskFacts DEF Claims
    <3>2. lock[a].owner = t /\ t # None
      BY <3>1, TaskFacts DEF RefInv, LockDiscipline, Task
    <3>. QED BY <3>2 DEF Awaited, Uncontended
  <2>3. ~Ending(models[a])
    <3>. SUFFICES ASSUME NEW r \in Request, pc[r] = "ending", loaded[r] = models[a] PROVE FALSE
      BY DEF Ending
    <3>1. AliasOf(r) = a
      BY DEF RefInv, Shape, RequestShape, ModelShape, UsePc
    <3>. QED BY <3>1 DEF Awaited
  <2>. QED BY <2>1, <2>2, <2>3 DEF Cared
<1>. QED BY <1>1, <1>2, InitCount, NextCount, PTL DEF Spec

=============================================================================
