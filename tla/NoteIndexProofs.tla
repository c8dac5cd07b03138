-------------------------- MODULE NoteIndexProofs --------------------------
(***************************************************************************)
(* For every set of notes, commands and embed models: what the manifest    *)
(* takes for up to date is indexed, by one model, and a force rebuild that *)
(* does not finish leaves the index it found.                              *)
(*                                                                         *)
(* The stores are written one after the other, and notes are written and   *)
(* deleted meanwhile.  IndexInv says at each place where a command can be  *)
(* what the stores hold already (Undisturbed for the vectors, Findable for *)
(* bm25.json), and what a force rebuild has collected so far (Rebuilding), *)
(* that makes good whatever went before.  It needs that a stamp is never   *)
(* given twice: a note written under a command is not what anybody has     *)
(* recorded of it.                                                         *)
(***************************************************************************)
EXTENDS NotesLibrary, TLAPS

\* Where a command can be, and what its record holds.
Places == {"idle", "prune", "files", "embed", "promote", "rename", "print", "load", "save",
           "lex", "stamp"}
JobType == [op : Ops, pc : Places,
            man : [Notes -> Stamp], scan : [Notes -> Stamp], todo : SUBSET Notes,
            note : Notes \cup {"none"}, got : Stamp]

\* Where a command is says what it is; stamps it holds were given.
Shaped(j) ==
    /\ j.op = "none" <=> j.pc = "idle"
    /\ j.pc = "prune" => j.op = "build"
    /\ j.pc \in {"files", "embed"} => j.op \in {"build", "force", "generated", "edited"}
    /\ j.pc \in {"promote", "rename", "print"} => j.op = "force"
    /\ j.pc = "load" => j.op \in {"generated", "edited", "remove"}
    /\ j.pc = "stamp" => j.op \in {"build", "generated"}
    /\ j.pc \in {"embed", "load"} => j.note \in Notes
    /\ j.pc \in {"save", "lex"} /\ j.op \in {"generated", "edited", "remove"} =>
        j.note \in Notes
    /\ j.got <= clock
    /\ \A n \in Notes : j.man[n] <= clock /\ j.scan[n] <= clock

\* The variables, with what their values are to one another.
IndexTypes ==
    /\ disk \in [Notes -> Stamp] /\ vec \in [Notes -> Stamp] /\ temp \in [Notes -> Stamp]
    /\ manifest \in [Notes -> Stamp] /\ lex \in [Notes -> Stamp]
    /\ short \subseteq 1 .. MaxStamp /\ clock \in Stamp
    /\ semantic \in BOOLEAN /\ calm \in BOOLEAN /\ listed \in BOOLEAN /\ clean \in BOOLEAN
    /\ alias \in Aliases /\ print \in Aliases \cup {"none"}
    /\ by \in [Notes -> Aliases \cup {"none"}]
    /\ owner \in Procs \cup {"none"} /\ luck \in 0 .. Mishaps
    /\ job \in [Procs -> JobType]
    /\ \A p \in Procs : Shaped(job[p])
    /\ \A n \in Notes : manifest[n] <= clock /\ disk[n] <= clock

\* Without a mishap one command is at work at a time.
Alone ==
    calm \/ listed \/ clean =>
        \A p, q \in Procs : job[p].op # "none" /\ job[q].op # "none" => p = q

\* A store has of a note what a manifest takes for up to date.
Held(n, man, stored) == man[n] = disk[n] /\ disk[n] # 0 => stored[n] = disk[n]

\* All vectors are by one model, the one of the fingerprint.
SameModel(e) == \A n \in Notes : vec[n] # 0 => by[n] = e
Marked == semantic => print # "none" /\ SameModel(print)

\* The vectors are there of what the manifest has.
Resting == Marked /\ \A n \in Notes : semantic => Held(n, manifest, vec)

\* A note a build has still to index: no manifest takes it for up to date.
Due(n, man) == disk[n] = 0 \/ (manifest[n] # disk[n] /\ man[n] # disk[n])

\* What `chirp index` has done so far is done in its own manifest.
Building(j) ==
    /\ \A n \in Notes :
        /\ j.pc \in {"prune", "files", "embed"} /\ semantic => Held(n, j.man, vec)
        /\ j.pc \in {"prune", "files", "embed"} /\ n \in j.todo => Due(n, j.man)
        /\ j.pc = "prune" /\ j.scan[n] = 0 /\ j.man[n] # 0 => Due(n, j.man)
    /\ j.pc = "embed" =>
        /\ j.note \notin j.todo /\ Due(j.note, j.man)
        /\ j.scan[j.note] = disk[j.note] /\ disk[j.note] # 0 => j.got = disk[j.note]
        /\ semantic => vec[j.note] = 0

\* add_note has read its note as it is.
AddingOne(j) ==
    /\ j.pc \in {"embed", "load"} => disk[j.note] \in {j.got, 0}
    /\ j.pc = "embed" /\ semantic => vec[j.note] = 0
    /\ j.pc = "load" /\ semantic => vec[j.note] = j.got

\* A note whose vectors add_note is replacing.
Loose(n, j) == j.op \in {"generated", "edited"} /\ j.pc = "embed" /\ n = j.note
\* A force rebuild that has dropped the collection and not yet saved its manifest.
Replacing(j) == semantic /\ j.op = "force" /\ j.pc \in {"rename", "print", "save"}

\* The vectors, with a command at work and nothing that has hurt them.
Undisturbed(j) ==
    /\ j.op = "force" => clean
    /\ ~Replacing(j) => Marked
    /\ \A n \in Notes : semantic /\ ~Replacing(j) /\ ~Loose(n, j) => Held(n, manifest, vec)
    /\ j.op \in {"build", "generated", "edited"} /\ semantic => print = alias
    /\ \A n \in Notes : j.op # "force" /\ j.pc = "save" /\ semantic => Held(n, j.man, vec)
    /\ j.op = "build" => Building(j)
    /\ j.op \in {"generated", "edited"} => AddingOne(j)

\* bm25.json, with a command at work and nothing that has hurt it.  One that saved
\* its manifest is about to write it, `generated` for one note only.
Listing == \A n \in Notes : Held(n, manifest, lex)
Chunked(n, man) == man[n] = disk[n] /\ disk[n] # 0 => HasChunks(disk[n])
Findable(j) ==
    /\ j.pc # "lex" => Listing
    /\ j.op = "generated" =>
        /\ j.pc \in {"embed", "load"} => HasChunks(j.got) /\ disk[j.note] \in {j.got, 0}
        /\ j.pc = "save" => Chunked(j.note, j.man)
        /\ j.pc = "lex" => Chunked(j.note, manifest)
        /\ \A n \in Notes \ {j.note} :
            /\ j.pc = "save" => Held(n, j.man, lex)
            /\ j.pc = "lex" => Held(n, manifest, lex)

\* A force rebuild that nothing happened to but a file that was not embedded.
Rebuilding(p) ==
    LET j == job[p] IN
    /\ j.pc \in {"files", "embed"} =>
        /\ semantic => owner = p
        /\ \A n \in Notes :
            /\ n \in j.todo => j.man[n] = 0
            /\ semantic => Held(n, j.man, temp)
    /\ j.pc = "embed" =>
        /\ j.note \notin j.todo /\ j.man[j.note] = 0
        /\ j.scan[j.note] = disk[j.note] /\ disk[j.note] # 0 => j.got = disk[j.note]
    /\ j.pc \in {"promote", "rename"} =>
        semantic /\ owner = p /\ \A n \in Notes : Held(n, j.man, temp)
    /\ j.pc = "print" => semantic
    /\ j.pc \in {"print", "save"} /\ semantic =>
        SameModel(alias) /\ \A n \in Notes : Held(n, j.man, vec)
    /\ j.pc = "save" /\ semantic => print = alias

CalmOk ==
    calm => /\ Active = {} => Resting
            /\ \A p \in Active : Undisturbed(job[p])
ListedOk ==
    listed => /\ Active = {} => Listing
              /\ \A p \in Active : Findable(job[p])
CleanOk == clean => \A p \in Procs : job[p].op = "force" => Rebuilding(p)

IndexInv == IndexTypes /\ Alone /\ CalmOk /\ ListedOk /\ CleanOk

-----------------------------------------------------------------------------
(* What the steps do to a command's record *)

\* Only p moves.
Moves(p) ==
    /\ job' \in [Procs -> JobType]
    /\ \A q \in Procs \ {p} : job'[q] = job[q]

\* A command that does nothing holds nothing.
LEMMA IdleFacts ==
    /\ Idle \in JobType /\ Nothing \in [Notes -> Stamp] /\ 0 \in Stamp
    /\ Idle.op = "none" /\ Idle.pc = "idle" /\ Idle.man = Nothing /\ Idle.scan = Nothing
    /\ Idle.todo = {} /\ Idle.note = "none" /\ Idle.got = 0
    /\ \A n \in Notes : Nothing[n] = 0
BY IndexAssumption DEF Idle, JobType, Nothing, Stamp, Ops, Places

\* A command goes to its next place with what it has.
LEMMA ContinueFacts ==
    ASSUME job \in [Procs -> JobType], NEW p \in Procs, NEW pc \in Places, Continue(p, pc)
    PROVE  /\ Moves(p) /\ job'[p].pc = pc /\ job'[p].op = job[p].op
           /\ job'[p].man = job[p].man /\ job'[p].scan = job[p].scan
           /\ job'[p].todo = job[p].todo /\ job'[p].note = job[p].note
           /\ job'[p].got = job[p].got
BY DEF Continue, Moves, JobType

\* A command ends.
LEMMA FinishFacts ==
    ASSUME job \in [Procs -> JobType], NEW p \in Procs, Finish(p)
    PROVE  Moves(p) /\ job'[p] = Idle
BY IdleFacts DEF Finish, Moves

\* A command begins with the record it is given.
LEMMA StartFacts ==
    ASSUME job \in [Procs -> JobType], NEW p \in Procs, NEW pc \in Places, NEW new \in JobType,
           Start(p, pc, new)
    PROVE  /\ Moves(p) /\ job[p].op = "none" /\ job'[p].pc = pc /\ job'[p].op = new.op
           /\ job'[p].man = new.man /\ job'[p].scan = new.scan
           /\ job'[p].todo = new.todo /\ job'[p].note = new.note
           /\ job'[p].got = new.got
BY DEF Start, Moves, JobType

\* The record of a command that moves is as it should be: so are all of them.
LEMMA ShapesStay ==
    ASSUME IndexTypes, NEW p \in Procs, Moves(p), clock' = clock, Shaped(job[p])'
    PROVE  \A q \in Procs : Shaped(job[q])'
BY DEF IndexTypes, Moves, Shaped

\* A command changes its record.
LEMMA RecordFacts ==
    ASSUME job \in [Procs -> JobType], NEW p \in Procs, NEW x \in JobType,
           job' = [job EXCEPT ![p] = x]
    PROVE  Moves(p) /\ job'[p] = x
BY DEF Moves

-----------------------------------------------------------------------------
(* What has to be shown of a step *)

\* A command begins, goes on or ends: what to show of its own record.
LEMMA OneWorks ==
    ASSUME IndexInv, NEW p \in Procs, Moves(p), IndexTypes',
           calm' \/ listed' \/ clean' => \A q \in Procs \ {p} : job[q].op = "none",
           calm' => Undisturbed(job[p])',
           listed' => Findable(job[p])',
           clean' /\ job'[p].op = "force" => Rebuilding(p)'
    PROVE  IndexInv'
<1>1. \A q \in Procs \ {p} : job'[q] = job[q]
    BY DEF Moves
<1>2. calm' \/ listed' \/ clean' => \A q \in Procs \ {p} : job'[q].op = "none"
    BY <1>1
<1>3. Alone'
    BY <1>2 DEF Alone
<1>4. job'[p].op = "none" => job'[p].pc = "idle"
    BY DEF IndexTypes, Shaped
<1>5. calm' /\ job'[p].op = "none" => Resting'
    BY <1>4 DEF Undisturbed, Resting, Replacing, Loose
<1>6. listed' /\ job'[p].op = "none" => Listing'
    BY <1>4 DEF Findable
<1>7. CalmOk'
    BY <1>2, <1>5 DEF CalmOk, Active
<1>8. ListedOk'
    BY <1>2, <1>6 DEF ListedOk, Active
<1>9. CleanOk'
    BY <1>2 DEF CleanOk
<1> QED
    BY <1>3, <1>7, <1>8, <1>9 DEF IndexInv

\* A command that is done.
LEMMA DoneFacts ==
    ASSUME NEW p \in Procs, job'[p] = Idle
    PROVE  /\ Resting' => Undisturbed(job[p])'
           /\ Listing' => Findable(job[p])'
           /\ job'[p].op = "none"
<1>1. job'[p].op = "none" /\ job'[p].pc = "idle"
    BY IdleFacts
<1> QED
    BY <1>1 DEF Undisturbed, Resting, Findable, Replacing, Loose

\* Around the commands.
LEMMA AroundKeeps ==
    ASSUME IndexInv, UNCHANGED job, IndexTypes',
           calm' => calm /\ Active = {} /\ Resting',
           listed' => /\ listed /\ (Active = {} => Listing')
                      /\ \A p \in Active : Findable(job[p])',
           clean' => clean /\ Active = {}
    PROVE  IndexInv'
<1>1. Alone' /\ CleanOk'
    BY DEF IndexInv, Alone, CleanOk, Active
<1>2. CalmOk' /\ ListedOk'
    BY DEF CalmOk, ListedOk, Active
<1> QED
    BY <1>1, <1>2 DEF IndexInv

\* After a mishap nothing is promised.
LEMMA MishapKeeps ==
    ASSUME IndexTypes', ~calm', ~listed', ~clean'
    PROVE  IndexInv'
BY DEF IndexInv, Alone, CalmOk, ListedOk, CleanOk

\* After a mishap nothing is promised; without one the promises stay.
LEMMA MishapTypes ==
    ASSUME IndexTypes, NEW m \in BOOLEAN, Unless(m)
    PROVE  /\ luck' \in 0 .. Mishaps
           /\ calm' \in BOOLEAN /\ listed' \in BOOLEAN /\ clean' \in BOOLEAN
           /\ m => ~calm' /\ ~listed' /\ ~clean'
           /\ ~m => UNCHANGED <<luck, calm, listed, clean>>
<1>1. CASE m
  <2>1. luck > 0 /\ luck' = luck - 1 /\ calm' = FALSE /\ listed' = FALSE /\ clean' = FALSE
      BY <1>1 DEF Unless, Mishap
  <2>2. luck' \in 0 .. Mishaps
      BY <2>1, IndexAssumption DEF IndexTypes
  <2> QED
      BY <1>1, <2>1, <2>2
<1>2. CASE ~m
    BY <1>2 DEF Unless, historyVars, IndexTypes
<1> QED
    BY <1>1, <1>2

\* What a failure may hurt is not promised any more.
LEMMA FailTypes ==
    ASSUME IndexTypes, NEW v \in BOOLEAN, NEW w \in BOOLEAN, Fails(v, w)
    PROVE  /\ luck' \in 0 .. Mishaps /\ calm' \in BOOLEAN /\ listed' \in BOOLEAN
           /\ calm' => calm /\ ~v
           /\ listed' => listed /\ ~w
<1>1. luck > 0 /\ luck' = luck - 1 /\ calm' = (calm /\ ~v) /\ listed' = (listed /\ ~w)
    BY DEF Fails
<1>2. luck' \in 0 .. Mishaps
    BY <1>1, IndexAssumption DEF IndexTypes
<1>3. calm' \in BOOLEAN /\ listed' \in BOOLEAN
    BY <1>1
<1>4. (calm' => calm /\ ~v) /\ (listed' => listed /\ ~w)
    BY <1>1
<1> QED
    BY <1>2, <1>3, <1>4

\* What the command at work relies on before its step.
LEMMA WorkFacts ==
    ASSUME IndexInv, NEW p \in Procs, job[p].pc # "idle"
    PROVE  /\ IndexTypes /\ job[p] \in JobType /\ Shaped(job[p]) /\ job[p].op # "none"
           /\ calm => Undisturbed(job[p])
           /\ listed => Findable(job[p])
           /\ clean /\ job[p].op = "force" => Rebuilding(p)
           /\ calm /\ job[p].op = "force" => clean
           /\ calm \/ listed \/ clean => \A q \in Procs \ {p} : job[q].op = "none"
<1>1. IndexTypes /\ job[p] \in JobType /\ Shaped(job[p]) /\ job[p].op # "none"
    BY DEF IndexInv, IndexTypes, Shaped
<1>2. /\ calm => Undisturbed(job[p])
      /\ listed => Findable(job[p])
      /\ clean /\ job[p].op = "force" => Rebuilding(p)
    BY <1>1 DEF IndexInv, CalmOk, ListedOk, CleanOk, Active
<1>3. calm /\ job[p].op = "force" => clean
    BY <1>2 DEF Undisturbed
<1>4. calm \/ listed \/ clean => \A q \in Procs \ {p} : job[q].op = "none"
    BY <1>1 DEF IndexInv, Alone
<1> QED
    BY <1>1, <1>2, <1>3, <1>4

\* A step away from the manifest and bm25.json, of a command that is not adding one
\* note to them.
LEMMA ListingKept ==
    ASSUME NEW p \in Procs, UNCHANGED <<disk, manifest, lex>>, Findable(job[p]),
           job[p].pc # "lex", job'[p].pc # "lex",
           job'[p].op # "generated" \/ job'[p].pc \notin {"embed", "load", "save"}
    PROVE  Listing' /\ Findable(job[p])'
BY DEF Findable, Listing, Held

-----------------------------------------------------------------------------
(* The notes and the settings *)

\* A note gets a stamp nobody has recorded, or none: what was taken for up to date and
\* still is, is what it was.
LEMMA NotesChange ==
    ASSUME IndexInv, NEW n \in Notes, IndexTypes',
           UNCHANGED <<semantic, alias, vec, by, print, temp, owner, manifest, lex, job,
                       luck, calm, listed, clean>>,
           \A m \in Notes \ {n} : disk'[m] = disk[m],
           disk'[n] = 0 \/ (clock < disk'[n] /\ ~InHand(n)),
           \A s \in Stamp : s <= clock => (s \in short' <=> s \in short)
    PROVE  IndexInv'
<1>1. /\ IndexTypes
      /\ \A p \in Procs : job[p] \in JobType /\ Shaped(job[p])
    BY DEF IndexInv, IndexTypes
<1>2. clock \in Nat /\ \A m \in Notes : disk'[m] \in Nat /\ disk[m] \in Nat
    BY <1>1, IndexAssumption DEF IndexTypes, Stamp
<1>3. \A m \in Notes : disk'[m] # 0 /\ disk'[m] <= clock => disk'[m] = disk[m]
    BY <1>2
<1>4. \A m \in Notes : manifest[m] <= clock
    BY <1>1 DEF IndexTypes
<1>5. \A m \in Notes : Held(m, manifest, vec) => Held(m, manifest, vec)'
    BY <1>3, <1>4 DEF Held
<1>6. Listing => Listing'
    BY <1>3, <1>4 DEF Listing, Held
<1>7. Marked => Marked'
    BY DEF Marked, SameModel
<1>8. Resting => Resting'
    BY <1>5, <1>7 DEF Resting
<1>9. ASSUME NEW p \in Procs, Undisturbed(job[p]) PROVE Undisturbed(job[p])'
  <2>1. \A m \in Notes : job[p].man[m] <= clock /\ job[p].scan[m] <= clock
      BY <1>1 DEF Shaped
  <2>2. /\ job[p].op = "force" => clean'
        /\ ~Replacing(job[p])' => Marked'
        /\ job[p].op \in {"build", "generated", "edited"} /\ semantic' => print' = alias'
      BY <1>7, <1>9 DEF Undisturbed, Replacing
  <2>3. \A m \in Notes : semantic' /\ ~Replacing(job[p])' /\ ~Loose(m, job[p])' =>
            Held(m, manifest, vec)'
      BY <1>5, <1>9 DEF Undisturbed, Replacing, Loose
  <2>4. \A m \in Notes : Held(m, job[p].man, vec) => Held(m, job[p].man, vec)'
      BY <1>3, <2>1 DEF Held
  <2>5. \A m \in Notes : job[p].op # "force" /\ job[p].pc = "save" /\ semantic' =>
            Held(m, job[p].man, vec)'
      BY <1>9, <2>4 DEF Undisturbed
  <2>6. ASSUME job[p].op = "build" PROVE Building(job[p])'
    <3>1. Building(job[p])
        BY <1>9, <2>6 DEF Undisturbed
    <3>2. \A m \in Notes : Due(m, job[p].man) => Due(m, job[p].man)'
        BY <1>2, <1>3, <1>4, <2>1 DEF Due
    <3>3. job[p].pc = "embed" => job[p].note \in Notes
        BY <1>1 DEF Shaped
    <3>4. \A m \in Notes :
            /\ job[p].pc \in {"prune", "files", "embed"} /\ semantic' =>
                 Held(m, job[p].man, vec)'
            /\ job[p].pc \in {"prune", "files", "embed"} /\ m \in job[p].todo =>
                 Due(m, job[p].man)'
            /\ job[p].pc = "prune" /\ job[p].scan[m] = 0 /\ job[p].man[m] # 0 =>
                 Due(m, job[p].man)'
        BY <2>4, <3>1, <3>2 DEF Building
    <3>5. job[p].pc = "embed" =>
            /\ job[p].note \notin job[p].todo /\ Due(job[p].note, job[p].man)'
            /\ semantic' => vec'[job[p].note] = 0
        BY <3>1, <3>2, <3>3 DEF Building
    <3>6. job[p].pc = "embed" /\ job[p].scan[job[p].note] = disk'[job[p].note]
            /\ disk'[job[p].note] # 0 => job[p].got = disk'[job[p].note]
        BY <1>3, <2>1, <3>1, <3>3 DEF Building
    <3> QED
        BY <3>4, <3>5, <3>6 DEF Building
  <2>7. ASSUME job[p].op \in {"generated", "edited"} PROVE AddingOne(job[p])'
    <3>1. AddingOne(job[p])
        BY <1>9, <2>7 DEF Undisturbed
    <3>2. job[p].pc \in {"embed", "load"} => disk'[job[p].note] \in {disk[job[p].note], 0}
        BY <2>7, <1>1 DEF InHand, Shaped
    <3> QED
        BY <3>1, <3>2 DEF AddingOne
  <2> QED
      BY <2>2, <2>3, <2>5, <2>6, <2>7 DEF Undisturbed
<1>10. ASSUME NEW p \in Procs, Findable(job[p]) PROVE Findable(job[p])'
  <2>1. \A m \in Notes : job[p].man[m] <= clock
      BY <1>1 DEF Shaped
  <2>2. \A m \in Notes : /\ Held(m, job[p].man, lex) => Held(m, job[p].man, lex)'
                         /\ Held(m, manifest, lex) => Held(m, manifest, lex)'
      BY <1>3, <1>4, <2>1 DEF Held
  <2>3. job[p].got \in Stamp /\ job[p].got <= clock
      BY <1>1 DEF JobType, Shaped
  <2>4. HasChunks(job[p].got) => HasChunks(job[p].got)'
      BY <2>3 DEF HasChunks
  <2>5. \A m \in Notes : /\ Chunked(m, job[p].man) => Chunked(m, job[p].man)'
                         /\ Chunked(m, manifest) => Chunked(m, manifest)'
    <3>1. \A m \in Notes : disk[m] \in Stamp /\ disk[m] <= clock
        BY <1>1 DEF IndexTypes
    <3> QED
        BY <1>3, <1>4, <2>1, <3>1 DEF Chunked, HasChunks
  <2>6. job[p].op = "generated" /\ job[p].pc \in {"embed", "load"} =>
            disk'[job[p].note] \in {disk[job[p].note], 0}
      BY <1>1 DEF InHand, Shaped
  <2>7. job[p].op = "generated" /\ job[p].pc \in {"save", "lex"} => job[p].note \in Notes
      BY <1>1 DEF Shaped
  <2>8. job[p].op = "generated" =>
          /\ job[p].pc \in {"embed", "load"} =>
               HasChunks(job[p].got)' /\ disk'[job[p].note] \in {job[p].got, 0}
          /\ job[p].pc = "save" => Chunked(job[p].note, job[p].man)'
          /\ job[p].pc = "lex" => Chunked(job[p].note, manifest)'
      BY <1>10, <2>4, <2>5, <2>6, <2>7 DEF Findable
  <2> QED
      BY <1>6, <1>10, <2>2, <2>8 DEF Findable
<1>11. ASSUME NEW p \in Procs, job[p].op = "force", Rebuilding(p) PROVE Rebuilding(p)'
  <2>1. \A m \in Notes : job[p].man[m] <= clock /\ job[p].scan[m] <= clock
      BY <1>1 DEF Shaped
  <2>2. \A m \in Notes : /\ Held(m, job[p].man, vec) => Held(m, job[p].man, vec)'
                         /\ Held(m, job[p].man, temp) => Held(m, job[p].man, temp)'
      BY <1>3, <2>1 DEF Held
  <2>3. SameModel(alias) => SameModel(alias)'
      BY DEF SameModel
  <2>4. job[p].pc = "embed" => job[p].note \in Notes
      BY <1>1 DEF Shaped
  <2>5. job[p].pc = "embed" /\ job[p].scan[job[p].note] = disk'[job[p].note]
          /\ disk'[job[p].note] # 0 => job[p].got = disk'[job[p].note]
      BY <1>3, <1>11, <2>1, <2>4 DEF Rebuilding
  <2> QED
      BY <1>11, <2>2, <2>3, <2>5 DEF Rebuilding
<1>12. Alone' /\ CalmOk' /\ ListedOk' /\ CleanOk'
  <2>1. Alone'
      BY DEF IndexInv, Alone
  <2>2. CalmOk'
      BY <1>8, <1>9 DEF IndexInv, CalmOk, Active
  <2>3. ListedOk'
      BY <1>6, <1>10 DEF IndexInv, ListedOk, Active
  <2>4. CleanOk'
      BY <1>11 DEF IndexInv, CleanOk
  <2> QED
      BY <2>1, <2>2, <2>3, <2>4
<1> QED
    BY <1>12 DEF IndexInv

\* A note is written: its stamp is new, so nobody has recorded it.
LEMMA WriteKeeps ==
    ASSUME IndexInv, NEW n \in Notes, NEW tooShort \in BOOLEAN, WriteNote(n, tooShort)
    PROVE  IndexInv'
<1>0. InHand(n) \in BOOLEAN
    BY DEF InHand
<1>1. /\ clock < MaxStamp /\ clock' = clock + 1 /\ disk' = [disk EXCEPT ![n] = clock']
      /\ short' = IF tooShort THEN short \cup {clock'} ELSE short
      /\ Unless(InHand(n))
      /\ UNCHANGED <<semantic, alias, vec, by, print, temp, owner, manifest, lex, job>>
    BY DEF WriteNote, vecVars, tempVars
<1>2. IndexTypes
    BY DEF IndexInv
<1>3. /\ luck' \in 0 .. Mishaps
      /\ calm' \in BOOLEAN /\ listed' \in BOOLEAN /\ clean' \in BOOLEAN
      /\ InHand(n) => ~calm' /\ ~listed' /\ ~clean'
      /\ ~InHand(n) => UNCHANGED <<luck, calm, listed, clean>>
    BY <1>0, <1>1, <1>2, MishapTypes
<1>4. clock \in Nat /\ clock' \in Stamp /\ short' \subseteq 1 .. MaxStamp
    BY <1>1, <1>2, IndexAssumption DEF IndexTypes, Stamp
<1>5. /\ disk' \in [Notes -> Stamp] /\ disk'[n] = clock'
      /\ \A m \in Notes \ {n} : disk'[m] = disk[m]
    BY <1>1, <1>2, <1>4 DEF IndexTypes
<1>6. \A m \in Notes : manifest[m] \in Nat /\ disk[m] \in Nat
    BY <1>2, IndexAssumption DEF IndexTypes, Stamp
<1>7. \A m \in Notes : manifest[m] <= clock' /\ disk'[m] <= clock'
    BY <1>1, <1>2, <1>4, <1>5, <1>6 DEF IndexTypes
<1>8. \A q \in Procs : Shaped(job[q])'
  <2>1. ASSUME NEW q \in Procs PROVE Shaped(job[q])'
    <3>1. job[q] \in JobType /\ Shaped(job[q])
        BY <1>2 DEF IndexTypes
    <3>2. /\ job[q].got \in Nat
          /\ \A m \in Notes : job[q].man[m] \in Nat /\ job[q].scan[m] \in Nat
        BY <3>1, IndexAssumption DEF JobType, Stamp
    <3> QED
        BY <1>1, <1>4, <3>1, <3>2 DEF Shaped
  <2> QED
      BY <2>1
<1>9. IndexTypes'
    BY <1>1, <1>2, <1>3, <1>4, <1>5, <1>7, <1>8 DEF IndexTypes
<1>10. CASE ~InHand(n)
  <2>1. clock < disk'[n] /\ ~InHand(n)
      BY <1>1, <1>4, <1>5, <1>10
  <2>2. \A s \in Stamp : s <= clock => (s \in short' <=> s \in short)
    <3>1. \A s \in Stamp : s <= clock => s # clock'
        BY <1>1, <1>4 DEF Stamp
    <3> QED
        BY <1>1, <3>1
  <2> QED
      BY <1>1, <1>3, <1>5, <1>9, <1>10, <2>1, <2>2, NotesChange
<1> QED
    BY <1>3, <1>9, <1>10, MishapKeeps

\* A note is deleted.
LEMMA DeletionKeeps ==
    ASSUME IndexInv, NEW n \in Notes, DeleteNote(n)
    PROVE  IndexInv'
<1>1. /\ disk' = [disk EXCEPT ![n] = 0]
      /\ UNCHANGED <<short, clock, semantic, alias, vec, by, print, temp, owner, manifest,
                     lex, job, luck, calm, listed, clean>>
    BY DEF DeleteNote, vecVars, tempVars, historyVars
<1>2. IndexTypes
    BY DEF IndexInv
<1>3. /\ disk' \in [Notes -> Stamp] /\ disk'[n] = 0
      /\ \A m \in Notes \ {n} : disk'[m] = disk[m]
    BY <1>1, <1>2, IdleFacts DEF IndexTypes
<1>4. clock \in Nat
    BY <1>2, IndexAssumption DEF IndexTypes, Stamp
<1>5. \A q \in Procs : Shaped(job[q])'
    BY <1>1, <1>2 DEF IndexTypes, Shaped
<1>6. IndexTypes'
    BY <1>1, <1>2, <1>3, <1>4, <1>5 DEF IndexTypes
<1> QED
    BY <1>1, <1>3, <1>6, NotesChange

\* Another embed model is the default.
LEMMA SwitchKeeps ==
    ASSUME IndexInv, SwitchModel
    PROVE  IndexInv'
<1>1. /\ alias' \in Aliases /\ luck > 0 /\ luck' = luck - 1
      /\ calm' = (calm /\ Active = {}) /\ clean' = FALSE
      /\ UNCHANGED <<disk, short, clock, semantic, vec, by, print, temp, owner, manifest,
                     lex, job, listed>>
    BY DEF SwitchModel, vecVars, tempVars, diskVars
<1>2. IndexTypes
    BY DEF IndexInv
<1>3. luck' \in 0 .. Mishaps /\ calm' \in BOOLEAN
    BY <1>1, <1>2, IndexAssumption DEF IndexTypes
<1>4. \A q \in Procs : Shaped(job[q])'
    BY <1>1, <1>2 DEF IndexTypes, Shaped
<1>5. IndexTypes'
    BY <1>1, <1>2, <1>3, <1>4 DEF IndexTypes
<1>6. calm' => calm /\ Active = {} /\ Resting'
    BY <1>1 DEF IndexInv, CalmOk, Resting, Marked, SameModel, Held
<1>7. listed' => /\ listed /\ (Active = {} => Listing')
                 /\ \A p \in Active : Findable(job[p])'
  <2>1. \A p \in Procs : Findable(job[p]) => Findable(job[p])'
      BY <1>1 DEF Findable, Listing, Held, Chunked, HasChunks
  <2>2. Listing => Listing'
      BY <1>1 DEF Listing, Held
  <2> QED
      BY <1>1, <2>1, <2>2 DEF IndexInv, ListedOk, Active
<1> QED
    BY <1>1, <1>5, <1>6, <1>7, AroundKeeps

\* Semantic search is switched off, with or without a purge.
LEMMA DisableKeeps ==
    ASSUME IndexInv, DisableSemantic
    PROVE  IndexInv'
<1>1. /\ semantic' = FALSE /\ Unless(Active # {})
      /\ UNCHANGED <<disk, short, clock, alias, manifest, lex, job>>
      /\ \/ UNCHANGED <<vec, by, print, temp, owner>>
         \/ /\ vec' = Nothing /\ by' = [n \in Notes |-> "none"] /\ print' = "none"
            /\ temp' = Nothing /\ owner' = "none"
    BY DEF DisableSemantic, vecVars, tempVars, diskVars
<1>2. IndexTypes
    BY DEF IndexInv
<1>3. /\ luck' \in 0 .. Mishaps
      /\ calm' \in BOOLEAN /\ listed' \in BOOLEAN /\ clean' \in BOOLEAN
      /\ Active # {} => ~calm' /\ ~listed' /\ ~clean'
      /\ Active = {} => UNCHANGED <<luck, calm, listed, clean>>
    BY <1>1, <1>2, MishapTypes
<1>4. \A q \in Procs : Shaped(job[q])'
    BY <1>1, <1>2 DEF IndexTypes, Shaped
<1>5. /\ vec' \in [Notes -> Stamp] /\ temp' \in [Notes -> Stamp]
      /\ by' \in [Notes -> Aliases \cup {"none"}] /\ print' \in Aliases \cup {"none"}
      /\ owner' \in Procs \cup {"none"}
    BY <1>1, <1>2, IdleFacts DEF IndexTypes
<1>6. IndexTypes'
    BY <1>1, <1>2, <1>3, <1>4, <1>5 DEF IndexTypes
<1>7. CASE Active = {}
  <2>1. calm' => calm /\ Active = {} /\ Resting'
      BY <1>1, <1>3, <1>7 DEF Resting, Marked
  <2>2. listed' => listed /\ Listing'
    <3>1. listed => Listing
        BY <1>7 DEF IndexInv, ListedOk
    <3>2. Listing => Listing'
        BY <1>1 DEF Listing, Held
    <3> QED
        BY <1>3, <1>7, <3>1, <3>2
  <2> QED
      BY <1>1, <1>3, <1>6, <1>7, <2>1, <2>2, AroundKeeps
<1> QED
    BY <1>3, <1>6, <1>7, MishapKeeps

-----------------------------------------------------------------------------
(* A command begins *)

\* chirp index
LEMMA BuildBegins ==
    ASSUME IndexInv, NEW p \in Procs, StartBuild(p)
    PROVE  IndexInv'
<1> DEFINE new == [Idle EXCEPT !.op = "build", !.man = manifest, !.scan = disk,
                               !.todo = {n \in Notes : Changed(n, manifest)}]
<1>1. /\ semantic => GuardPasses
      /\ Start(p, "prune", new) /\ Unless(Active # {})
      /\ UNCHANGED <<disk, short, clock, semantic, alias, vec, by, print, temp, owner,
                     manifest, lex>>
    BY DEF StartBuild, vecVars, tempVars, diskVars
<1>2. IndexTypes
    BY DEF IndexInv
<1>3. /\ new \in JobType /\ new.op = "build" /\ new.man = manifest /\ new.scan = disk
      /\ new.todo = {n \in Notes : Changed(n, manifest)} /\ new.note = "none" /\ new.got = 0
    BY <1>2, IdleFacts DEF IndexTypes, JobType, Ops
<1> HIDE DEF new
<1>4. /\ Moves(p) /\ job'[p].pc = "prune" /\ job'[p].op = "build" /\ job[p].op = "none"
      /\ job'[p].man = manifest /\ job'[p].scan = disk /\ job'[p].got = 0
      /\ job'[p].todo = {n \in Notes : Changed(n, manifest)}
    BY <1>1, <1>2, <1>3, StartFacts DEF IndexTypes, Places
<1>5. /\ luck' \in 0 .. Mishaps
      /\ calm' \in BOOLEAN /\ listed' \in BOOLEAN /\ clean' \in BOOLEAN
      /\ Active # {} => ~calm' /\ ~listed' /\ ~clean'
      /\ Active = {} => UNCHANGED <<luck, calm, listed, clean>>
    BY <1>1, <1>2, MishapTypes
<1>6. Shaped(job[p])'
    BY <1>1, <1>2, <1>4, IndexAssumption DEF IndexTypes, Shaped, Stamp
<1>7. IndexTypes'
    BY <1>1, <1>2, <1>4, <1>5, <1>6, ShapesStay DEF IndexTypes, Moves
<1>8. ASSUME calm' PROVE Undisturbed(job[p])'
  <2>1. Active = {} /\ Resting
      BY <1>5, <1>8 DEF IndexInv, CalmOk
  <2>2. Marked' /\ (semantic' => print' = alias')
      BY <1>1, <2>1 DEF Resting, Marked, SameModel, GuardPasses
  <2>3. Building(job[p])'
      BY <1>1, <1>4, <2>1 DEF Building, Resting, Held, Due, Changed
  <2>4. \A n \in Notes : semantic' => Held(n, manifest, vec)'
      BY <1>1, <2>1 DEF Resting, Held
  <2> QED
      BY <1>4, <2>2, <2>3, <2>4 DEF Undisturbed
<1>9. listed' => Findable(job[p])'
  <2>1. listed' => Listing
      BY <1>5 DEF IndexInv, ListedOk
  <2> QED
      BY <1>1, <1>4, <2>1 DEF Findable, Listing, Held
<1>10. calm' \/ listed' \/ clean' => \A q \in Procs \ {p} : job[q].op = "none"
    BY <1>5 DEF Active
<1> QED
    BY <1>4, <1>7, <1>8, <1>9, <1>10, OneWorks

\* chirp index --force: the temp collection is empty, everything is to do.
LEMMA ForceBegins ==
    ASSUME IndexInv, NEW p \in Procs, NEW enable \in BOOLEAN, StartForce(p, enable)
    PROVE  IndexInv'
<1> DEFINE new == [Idle EXCEPT !.op = "force", !.scan = disk,
                               !.todo = {n \in Notes : disk[n] # 0}]
<1>1. /\ enable => ~semantic
      /\ semantic' = (semantic \/ enable)
      /\ Start(p, "files", new)
      /\ IF semantic' THEN temp' = Nothing /\ owner' = p ELSE UNCHANGED tempVars
      /\ IF Active # {} THEN Mishap
         ELSE calm' = (calm /\ ~enable) /\ clean' = TRUE /\ UNCHANGED <<luck, listed>>
      /\ UNCHANGED <<disk, short, clock, alias, vec, by, print, manifest, lex>>
    BY DEF StartForce, vecVars, diskVars
<1>2. IndexTypes
    BY DEF IndexInv
<1>3. /\ new \in JobType /\ new.op = "force" /\ new.man = Nothing /\ new.scan = disk
      /\ new.todo = {n \in Notes : disk[n] # 0} /\ new.note = "none" /\ new.got = 0
    BY <1>2, IdleFacts DEF IndexTypes, JobType, Ops
<1> HIDE DEF new
<1>4. /\ Moves(p) /\ job'[p].pc = "files" /\ job'[p].op = "force" /\ job[p].op = "none"
      /\ job'[p].man = Nothing /\ job'[p].scan = disk /\ job'[p].got = 0
      /\ job'[p].todo = {n \in Notes : disk[n] # 0}
    BY <1>1, <1>2, <1>3, StartFacts DEF IndexTypes, Places
<1>5. /\ luck' \in 0 .. Mishaps
      /\ calm' \in BOOLEAN /\ listed' \in BOOLEAN /\ clean' \in BOOLEAN
      /\ Active # {} => ~calm' /\ ~listed' /\ ~clean'
      /\ Active = {} => clean' /\ (calm' => calm /\ ~enable) /\ listed' = listed
  <2>1. CASE Active # {}
      BY <1>1, <1>2, <2>1, MishapTypes DEF Unless
  <2>2. CASE Active = {}
    <3>1. calm' = (calm /\ ~enable) /\ clean' = TRUE /\ luck' = luck /\ listed' = listed
        BY <1>1, <2>2
    <3>2. luck' \in 0 .. Mishaps /\ calm \in BOOLEAN /\ listed' \in BOOLEAN
        BY <1>2, <3>1 DEF IndexTypes
    <3> QED
        BY <2>2, <3>1, <3>2
  <2> QED
      BY <2>1, <2>2
<1>6. Shaped(job[p])'
    BY <1>1, <1>2, <1>4, IdleFacts, IndexAssumption DEF IndexTypes, Shaped, Stamp
<1>7. temp' \in [Notes -> Stamp] /\ owner' \in Procs \cup {"none"} /\ semantic' \in BOOLEAN
    BY <1>1, <1>2, IdleFacts DEF IndexTypes, tempVars
<1>8. IndexTypes'
    BY <1>1, <1>2, <1>4, <1>5, <1>6, <1>7, ShapesStay DEF IndexTypes, Moves
<1>9. ASSUME calm' PROVE Undisturbed(job[p])'
  <2>1. Resting /\ clean' /\ ~enable
      BY <1>5, <1>9 DEF IndexInv, CalmOk
  <2>2. semantic' => semantic
      BY <1>1, <2>1
  <2>3. Marked' /\ \A n \in Notes : semantic' => Held(n, manifest, vec)'
      BY <1>1, <2>1, <2>2 DEF Resting, Marked, SameModel, Held
  <2> QED
      BY <1>4, <2>1, <2>3 DEF Undisturbed
<1>10. Rebuilding(p)'
  <2>1. \A n \in Notes : job'[p].man[n] = 0 /\ Held(n, job[p].man, temp)'
      BY <1>1, <1>4, IdleFacts DEF Held
  <2>2. semantic' => owner' = p
      BY <1>1
  <2> QED
      BY <1>4, <2>1, <2>2 DEF Rebuilding
<1>11. listed' => Findable(job[p])'
  <2>1. listed' => Listing
      BY <1>5 DEF IndexInv, ListedOk
  <2> QED
      BY <1>1, <1>4, <2>1 DEF Findable, Listing, Held
<1>12. calm' \/ listed' \/ clean' => \A q \in Procs \ {p} : job[q].op = "none"
    BY <1>5 DEF Active
<1> QED
    BY <1>4, <1>8, <1>9, <1>10, <1>11, <1>12, OneWorks

\* add_note
LEMMA AddBegins ==
    ASSUME IndexInv, NEW p \in Procs, NEW n \in Notes, NEW op \in {"generated", "edited"},
           StartAdd(p, n, op)
    PROVE  IndexInv'
<1> DEFINE new == [Idle EXCEPT !.op = op, !.todo = {n}]
           unguarded == Active # {} \/ (semantic /\ ~GuardPasses)
<1>1. /\ (op = "generated" /\ semantic) => GuardPasses
      /\ Start(p, "files", new)
      /\ Unless(unguarded)
      /\ UNCHANGED <<disk, short, clock, semantic, alias, vec, by, print, temp, owner,
                     manifest, lex>>
    BY DEF StartAdd, vecVars, tempVars, diskVars
<1>2. IndexTypes
    BY DEF IndexInv
<1>3. /\ new \in JobType /\ new.op = op /\ new.man = Nothing /\ new.scan = Nothing
      /\ new.todo = {n} /\ new.got = 0
    BY <1>2, IdleFacts DEF IndexTypes, JobType, Ops
<1> HIDE DEF new
<1>4. /\ Moves(p) /\ job'[p].pc = "files" /\ job'[p].op = op /\ job[p].op = "none"
      /\ job'[p].man = Nothing /\ job'[p].scan = Nothing /\ job'[p].got = 0
    BY <1>1, <1>2, <1>3, StartFacts DEF IndexTypes, Places
<1>5. /\ luck' \in 0 .. Mishaps
      /\ calm' \in BOOLEAN /\ listed' \in BOOLEAN /\ clean' \in BOOLEAN
      /\ unguarded => ~calm' /\ ~listed' /\ ~clean'
      /\ ~unguarded => UNCHANGED <<luck, calm, listed, clean>>
    BY <1>1, <1>2, MishapTypes
<1>6. Shaped(job[p])'
    BY <1>1, <1>2, <1>4, IdleFacts, IndexAssumption DEF IndexTypes, Shaped, Stamp
<1>7. IndexTypes'
    BY <1>1, <1>2, <1>4, <1>5, <1>6, ShapesStay DEF IndexTypes, Moves
<1>8. ASSUME calm' PROVE Undisturbed(job[p])'
  <2>1. Active = {} /\ Resting /\ (semantic => GuardPasses)
      BY <1>5, <1>8 DEF IndexInv, CalmOk
  <2>2. Marked' /\ (semantic' => print' = alias')
      BY <1>1, <2>1 DEF Resting, Marked, SameModel, GuardPasses
  <2>3. AddingOne(job[p])'
      BY <1>4 DEF AddingOne
  <2>4. \A m \in Notes : semantic' => Held(m, manifest, vec)'
      BY <1>1, <2>1 DEF Resting, Held
  <2> QED
      BY <1>4, <2>2, <2>3, <2>4 DEF Undisturbed
<1>9. listed' => Findable(job[p])'
  <2>1. listed' => Listing
      BY <1>5 DEF IndexInv, ListedOk
  <2> QED
      BY <1>1, <1>4, <2>1 DEF Findable, Listing, Held
<1>10. calm' \/ listed' \/ clean' => \A q \in Procs \ {p} : job[q].op = "none"
    BY <1>5 DEF Active
<1>11. job'[p].op # "force"
    BY <1>4
<1> QED
    BY <1>4, <1>7, <1>8, <1>9, <1>10, <1>11, OneWorks

\* remove_note: the vectors go first, or stay when Chroma fails.
LEMMA RemoveBegins ==
    ASSUME IndexInv, NEW p \in Procs, NEW n \in Notes, NEW fails \in BOOLEAN,
           StartRemove(p, n, fails)
    PROVE  IndexInv'
<1> DEFINE new == [Idle EXCEPT !.op = "remove", !.note = n]
<1>1. /\ disk[n] = 0 /\ Start(p, "load", new)
      /\ vec' = IF semantic /\ ~fails THEN [vec EXCEPT ![n] = 0] ELSE vec
      /\ IF Active # {} THEN Mishap
         ELSE IF fails THEN semantic /\ Fails(FALSE, FALSE) /\ UNCHANGED clean
         ELSE UNCHANGED historyVars
      /\ UNCHANGED <<disk, short, clock, semantic, alias, by, print, temp, owner,
                     manifest, lex>>
    BY DEF StartRemove, tempVars, diskVars
<1>2. IndexTypes
    BY DEF IndexInv
<1>3. /\ new \in JobType /\ new.op = "remove" /\ new.man = Nothing /\ new.scan = Nothing
      /\ new.note = n /\ new.got = 0
    BY <1>2, IdleFacts DEF IndexTypes, JobType, Ops
<1> HIDE DEF new
<1>4. /\ Moves(p) /\ job'[p].pc = "load" /\ job'[p].op = "remove" /\ job[p].op = "none"
      /\ job'[p].man = Nothing /\ job'[p].scan = Nothing /\ job'[p].note = n
      /\ job'[p].got = 0
    BY <1>1, <1>2, <1>3, StartFacts DEF IndexTypes, Places
<1>5. /\ luck' \in 0 .. Mishaps
      /\ calm' \in BOOLEAN /\ listed' \in BOOLEAN /\ clean' \in BOOLEAN
      /\ Active # {} => ~calm' /\ ~listed' /\ ~clean'
      /\ (calm' => calm) /\ (listed' => listed)
  <2>1. CASE Active # {}
      BY <1>1, <1>2, <2>1, MishapTypes DEF Unless
  <2>2. CASE Active = {} /\ fails
    <3>1. Fails(FALSE, FALSE) /\ clean' = clean
        BY <1>1, <2>2
    <3> QED
        BY <1>2, <2>2, <3>1, FailTypes DEF IndexTypes
  <2>3. CASE Active = {} /\ ~fails
      BY <1>1, <1>2, <2>3 DEF historyVars, IndexTypes
  <2> QED
      BY <2>1, <2>2, <2>3
<1>6. Shaped(job[p])'
    BY <1>1, <1>2, <1>4, IdleFacts, IndexAssumption DEF IndexTypes, Shaped, Stamp
<1>7. /\ vec' \in [Notes -> Stamp] /\ \A m \in Notes : vec'[m] # 0 => vec'[m] = vec[m]
      /\ \A m \in Notes \ {n} : vec'[m] = vec[m]
    BY <1>1, <1>2, IdleFacts DEF IndexTypes
<1>8. IndexTypes'
    BY <1>1, <1>2, <1>4, <1>5, <1>6, <1>7, ShapesStay DEF IndexTypes, Moves
<1>9. ASSUME calm' PROVE Undisturbed(job[p])'
  <2>1. Active = {} /\ Resting
      BY <1>5, <1>9 DEF IndexInv, CalmOk
  <2>2. Marked'
      BY <1>1, <1>7, <2>1 DEF Resting, Marked, SameModel
  <2>3. \A m \in Notes : semantic' => Held(m, manifest, vec)'
      BY <1>1, <1>7, <2>1 DEF Resting, Held
  <2> QED
      BY <1>4, <2>2, <2>3 DEF Undisturbed
<1>10. listed' => Findable(job[p])'
  <2>1. listed' => Listing
      BY <1>5 DEF IndexInv, ListedOk
  <2> QED
      BY <1>1, <1>4, <2>1 DEF Findable, Listing, Held
<1>11. calm' \/ listed' \/ clean' => \A q \in Procs \ {p} : job[q].op = "none"
    BY <1>5 DEF Active
<1>12. job'[p].op # "force"
    BY <1>4
<1> QED
    BY <1>4, <1>8, <1>9, <1>10, <1>11, <1>12, OneWorks

-----------------------------------------------------------------------------
(* A command goes on *)

\* Vectors and entries of the notes that are gone are dropped, some vectors kept.
LEMMA PrunesKeeps ==
    ASSUME IndexInv, NEW p \in Procs, NEW kept \in SUBSET Notes, Prunes(p, kept)
    PROVE  IndexInv'
<1> DEFINE gone == {n \in Notes : job[p].man[n] # 0 /\ job[p].scan[n] = 0}
           man == [n \in Notes |-> IF n \in gone THEN 0 ELSE job[p].man[n]]
<1>1. /\ job[p].pc = "prune" /\ job' = [job EXCEPT ![p].pc = "files", ![p].man = man]
      /\ IF kept = {} THEN UNCHANGED historyVars
         ELSE semantic /\ Fails(FALSE, FALSE) /\ UNCHANGED clean
      /\ vec' = IF semantic THEN [n \in Notes |-> IF n \in gone \ kept THEN 0 ELSE vec[n]]
                            ELSE vec
      /\ UNCHANGED <<disk, short, clock, semantic, alias, by, print, temp, owner,
                     manifest, lex>>
    BY DEF Prunes, tempVars, diskVars
<1>2. /\ IndexTypes /\ job[p] \in JobType /\ Shaped(job[p]) /\ job[p].op = "build"
      /\ calm => Undisturbed(job[p])
      /\ listed => Findable(job[p])
      /\ calm \/ listed \/ clean => \A q \in Procs \ {p} : job[q].op = "none"
    BY <1>1, WorkFacts DEF Shaped
<1>3. man \in [Notes -> Stamp]
    BY <1>2, IdleFacts DEF JobType
<1>4. /\ Moves(p) /\ job'[p].pc = "files" /\ job'[p].op = "build" /\ job'[p].man = man
      /\ job'[p].scan = job[p].scan /\ job'[p].todo = job[p].todo
      /\ job'[p].got = job[p].got
    BY <1>1, <1>2, <1>3 DEF IndexTypes, JobType, Moves, Places
<1>5. vec' \in [Notes -> Stamp] /\ \A n \in Notes : vec'[n] # 0 => vec'[n] = vec[n]
    BY <1>1, <1>2, IdleFacts DEF IndexTypes
<1>6. Shaped(job[p])'
    BY <1>1, <1>2, <1>4, IndexAssumption DEF IndexTypes, Shaped, Stamp
<1>7. /\ luck' \in 0 .. Mishaps
      /\ calm' \in BOOLEAN /\ listed' \in BOOLEAN /\ clean' \in BOOLEAN
      /\ (calm' => calm) /\ (listed' => listed) /\ clean' = clean
  <2>1. CASE kept = {}
      BY <1>1, <1>2, <2>1 DEF historyVars, IndexTypes
  <2>2. CASE kept # {}
    <3>1. Fails(FALSE, FALSE) /\ clean' = clean
        BY <1>1, <2>2
    <3> QED
        BY <1>2, <3>1, FailTypes DEF IndexTypes
  <2> QED
      BY <2>1, <2>2
<1>8. IndexTypes'
    BY <1>1, <1>2, <1>4, <1>5, <1>6, <1>7, ShapesStay DEF IndexTypes, Moves
<1>9. ASSUME calm' PROVE Undisturbed(job[p])'
  <2>1. /\ Undisturbed(job[p]) /\ Marked /\ Building(job[p]) /\ (semantic => print = alias)
        /\ \A n \in Notes : semantic => Held(n, manifest, vec)
      BY <1>1, <1>2, <1>7, <1>9 DEF Undisturbed, Replacing, Loose
  <2>2. Marked'
      BY <1>1, <1>5, <2>1 DEF Marked, SameModel
  <2>3. ASSUME NEW n \in Notes
        PROVE  /\ semantic' => Held(n, job[p].man, vec)' /\ Held(n, manifest, vec)'
               /\ n \in job[p].todo => Due(n, job[p].man)'
    <3>1. CASE n \in gone
      <4>1. Due(n, job[p].man) /\ man[n] = 0
          BY <1>1, <2>1, <3>1 DEF Building
      <4> QED
          BY <1>1, <1>4, <4>1 DEF Due, Held
    <3>2. CASE n \notin gone
      <4>1. man[n] = job[p].man[n] /\ (semantic => vec'[n] = vec[n])
          BY <1>1, <1>2, <3>2 DEF IndexTypes
      <4>2. /\ semantic => Held(n, job[p].man, vec) /\ Held(n, manifest, vec)
            /\ n \in job[p].todo => Due(n, job[p].man)
          BY <1>1, <2>1 DEF Building
      <4> QED
          BY <1>1, <1>4, <4>1, <4>2 DEF Due, Held
    <3> QED
        BY <3>1, <3>2
  <2>4. Building(job[p])'
      BY <1>4, <2>3 DEF Building
  <2> QED
      BY <1>1, <1>4, <2>1, <2>2, <2>3, <2>4 DEF Undisturbed
<1>10. listed' => Findable(job[p])'
    BY <1>1, <1>2, <1>4, <1>7, ListingKept
<1>11. job'[p].op # "force"
    BY <1>4
<1> QED
    BY <1>2, <1>4, <1>7, <1>8, <1>9, <1>10, <1>11, OneWorks

\* A file without a chunk.
LEMMA NoChunksKeeps ==
    ASSUME IndexInv, NEW p \in Procs, NEW n \in Notes, NoChunks(p, n)
    PROVE  IndexInv'
<1>1. /\ job[p].pc = "files" /\ n \in job[p].todo /\ ~HasChunks(disk[n])
      /\ IF Adding(p) THEN Finish(p)
         ELSE job' = [job EXCEPT ![p].todo = @ \ {n}, ![p].man = [@ EXCEPT ![n] = 0]]
      /\ UNCHANGED <<disk, short, clock, semantic, alias, vec, by, print, temp, owner,
                     manifest, lex, luck, calm, listed, clean>>
    BY DEF NoChunks, vecVars, tempVars, diskVars, historyVars
<1>2. /\ IndexTypes /\ job[p] \in JobType /\ Shaped(job[p]) /\ job[p].op # "none"
      /\ calm => Undisturbed(job[p])
      /\ listed => Findable(job[p])
      /\ clean /\ job[p].op = "force" => Rebuilding(p)
      /\ calm \/ listed \/ clean => \A q \in Procs \ {p} : job[q].op = "none"
    BY <1>1, WorkFacts
<1>3. calm => Marked /\ \A m \in Notes : semantic => Held(m, manifest, vec)
    BY <1>1, <1>2 DEF Undisturbed, Replacing, Loose
<1>4. calm' => Marked' /\ \A m \in Notes : semantic' => Held(m, manifest, vec)'
    BY <1>1, <1>3 DEF Marked, SameModel, Held
<1>5. CASE Adding(p)
  <2>1. Moves(p) /\ job'[p] = Idle
      BY <1>1, <1>2, <1>5, FinishFacts DEF IndexTypes
  <2>2. Shaped(job[p])'
      BY <1>1, <1>2, <2>1, IdleFacts, IndexAssumption DEF IndexTypes, Shaped, Stamp
  <2>3. IndexTypes'
      BY <1>1, <1>2, <2>1, <2>2, ShapesStay DEF IndexTypes, Moves
  <2>4. calm' => Undisturbed(job[p])'
      BY <1>4, <2>1, DoneFacts DEF Resting
  <2>5. listed' => Findable(job[p])'
    <3>1. listed' => Listing'
        BY <1>1, <1>2 DEF Findable, Listing, Held
    <3> QED
        BY <2>1, <3>1, DoneFacts
  <2> QED
      BY <1>1, <1>2, <2>1, <2>3, <2>4, <2>5, IdleFacts, OneWorks
<1>6. CASE ~Adding(p)
  <2> DEFINE x == [job[p] EXCEPT !.todo = @ \ {n}, !.man = [@ EXCEPT ![n] = 0]]
  <2>a. job' = [job EXCEPT ![p] = x]
      BY <1>1, <1>2, <1>6 DEF IndexTypes
  <2>b. x \in JobType
      BY <1>2, IdleFacts DEF JobType
  <2>1. /\ Moves(p) /\ job'[p].op = job[p].op /\ job'[p].pc = "files"
        /\ job'[p].todo = job[p].todo \ {n} /\ job'[p].man = [job[p].man EXCEPT ![n] = 0]
        /\ job'[p].scan = job[p].scan /\ job'[p].note = job[p].note
        /\ job'[p].got = job[p].got
      BY <1>1, <1>2, <2>a, <2>b DEF IndexTypes, JobType, Moves
  <2>2. /\ job'[p].man[n] = 0 /\ \A m \in Notes \ {n} : job'[p].man[m] = job[p].man[m]
        /\ job[p].op \in {"build", "force"}
      BY <1>1, <1>2, <1>6, <2>1 DEF JobType, Adding, Shaped
  <2>3. Shaped(job[p])'
      BY <1>1, <1>2, <2>1, <2>2, IndexAssumption DEF IndexTypes, Shaped, Stamp
  <2>4. IndexTypes'
      BY <1>1, <1>2, <2>1, <2>3, ShapesStay DEF IndexTypes, Moves
  <2>5. ASSUME calm' PROVE Undisturbed(job[p])'
    <3>1. Undisturbed(job[p]) /\ calm
        BY <1>1, <1>2, <2>5
    <3>2. ASSUME job[p].op = "build" PROVE Building(job[p])'
      <4>1. Building(job[p])
          BY <3>1, <3>2 DEF Undisturbed
      <4>2. \A m \in Notes : semantic' => Held(m, job[p].man, vec)'
          BY <1>1, <2>2, <4>1 DEF Building, Held
      <4>3. \A m \in Notes : m \in job'[p].todo => Due(m, job[p].man)'
          BY <1>1, <2>1, <2>2, <4>1 DEF Building, Due
      <4> QED
          BY <2>1, <4>2, <4>3 DEF Building
    <3> QED
        BY <1>1, <1>4, <2>1, <2>2, <2>5, <3>1, <3>2 DEF Undisturbed
  <2>6. ASSUME clean', job[p].op = "force" PROVE Rebuilding(p)'
    <3>1. clean /\ Rebuilding(p)
        BY <1>1, <1>2, <2>6
    <3>2. ASSUME NEW m \in Notes
          PROVE  /\ m \in job'[p].todo => job'[p].man[m] = 0
                 /\ semantic' => Held(m, job[p].man, temp)'
        BY <1>1, <2>1, <2>2, <3>1 DEF Rebuilding, Held
    <3> QED
        BY <1>1, <2>1, <3>1, <3>2 DEF Rebuilding
  <2>7. listed' => Findable(job[p])'
    <3>1. job[p].pc # "lex" /\ job'[p].pc # "lex" /\ job'[p].op # "generated"
        BY <1>1, <2>1, <2>2
    <3> QED
        BY <1>1, <1>2, <3>1, ListingKept
  <2> QED
      BY <1>1, <1>2, <2>1, <2>4, <2>5, <2>6, <2>7, OneWorks
<1> QED
    BY <1>5, <1>6

\* A file is read.
LEMMA TakesFacts ==
    ASSUME IndexTypes, NEW p \in Procs, NEW n \in Notes, Takes(p, n), clock' = clock
    PROVE  /\ job[p].pc = "files" /\ n \in job[p].todo /\ HasChunks(disk[n])
           /\ Moves(p) /\ Shaped(job[p])'
           /\ job'[p].op = job[p].op /\ job'[p].pc = "embed"
           /\ job'[p].todo = job[p].todo \ {n}
           /\ job'[p].man = job[p].man /\ job'[p].scan = job[p].scan
           /\ job'[p].note = n /\ job'[p].got = disk[n]
<1> DEFINE x == [job[p] EXCEPT !.todo = @ \ {n}, !.note = n, !.got = disk[n], !.pc = "embed"]
<1>1. /\ job[p].pc = "files" /\ n \in job[p].todo /\ HasChunks(disk[n])
      /\ job' = [job EXCEPT ![p].todo = @ \ {n}, ![p].note = n, ![p].got = disk[n],
                            ![p].pc = "embed"]
    BY DEF Takes
<1>2. job[p] \in JobType /\ Shaped(job[p]) /\ disk[n] <= clock
    BY DEF IndexTypes
<1>3. job' = [job EXCEPT ![p] = x]
    BY <1>1 DEF IndexTypes
<1>4. x \in JobType
    BY <1>2 DEF JobType, IndexTypes, Places
<1>5. Moves(p) /\ job'[p] = x
    BY <1>3, <1>4, RecordFacts DEF IndexTypes
<1>6. /\ job'[p].op = job[p].op /\ job'[p].pc = "embed" /\ job'[p].todo = job[p].todo \ {n}
      /\ job'[p].man = job[p].man /\ job'[p].scan = job[p].scan
      /\ job'[p].note = n /\ job'[p].got = disk[n]
    BY <1>2, <1>5 DEF JobType
<1>7. Shaped(job[p])'
    BY <1>1, <1>2, <1>6 DEF Shaped
<1> QED
    BY <1>1, <1>5, <1>6, <1>7

\* A file is read and its old vectors are dropped.
LEMMA ReadsNoteKeeps ==
    ASSUME IndexInv, NEW p \in Procs, NEW n \in Notes, ReadsNote(p, n)
    PROVE  IndexInv'
<1>1. /\ Takes(p, n) /\ job[p].pc = "files"
      /\ IF job[p].op = "force"
         THEN UNCHANGED vec /\ temp' = IF owner = p THEN [temp EXCEPT ![n] = 0] ELSE temp
         ELSE UNCHANGED temp /\ vec' = IF semantic THEN [vec EXCEPT ![n] = 0] ELSE vec
      /\ UNCHANGED <<disk, short, clock, semantic, alias, by, print, owner, manifest, lex,
                     luck, calm, listed, clean>>
    BY DEF ReadsNote, Takes, diskVars, historyVars
<1>2. /\ IndexTypes /\ job[p] \in JobType /\ Shaped(job[p]) /\ job[p].op # "none"
      /\ calm => Undisturbed(job[p])
      /\ listed => Findable(job[p])
      /\ clean /\ job[p].op = "force" => Rebuilding(p)
      /\ calm \/ listed \/ clean => \A q \in Procs \ {p} : job[q].op = "none"
    BY <1>1, WorkFacts
<1>3. /\ n \in job[p].todo /\ HasChunks(disk[n])
      /\ Moves(p) /\ Shaped(job[p])'
      /\ job'[p].op = job[p].op /\ job'[p].pc = "embed" /\ job'[p].todo = job[p].todo \ {n}
      /\ job'[p].man = job[p].man /\ job'[p].scan = job[p].scan
      /\ job'[p].note = n /\ job'[p].got = disk[n]
    BY <1>1, <1>2, TakesFacts
<1>4. /\ vec' \in [Notes -> Stamp] /\ temp' \in [Notes -> Stamp]
      /\ \A m \in Notes \ {n} : vec'[m] = vec[m] /\ temp'[m] = temp[m]
      /\ vec'[n] # 0 => vec'[n] = vec[n]
      /\ job[p].op # "force" /\ semantic => vec'[n] = 0
      /\ job[p].op = "force" => vec' = vec
    BY <1>1, <1>2, IdleFacts DEF IndexTypes
<1>5. IndexTypes'
    BY <1>1, <1>2, <1>3, <1>4, ShapesStay DEF IndexTypes, Moves
<1>6. ASSUME calm' PROVE Undisturbed(job[p])'
  <2>1. /\ Undisturbed(job[p]) /\ Marked
        /\ \A m \in Notes : semantic => Held(m, manifest, vec)
      BY <1>1, <1>2, <1>6 DEF Undisturbed, Replacing, Loose
  <2>2. Marked'
      BY <1>1, <1>2, <1>4, <2>1 DEF Marked, SameModel
  <2>3. /\ job[p].op = "force" => clean'
        /\ job[p].op \in {"build", "generated", "edited"} /\ semantic' => print' = alias'
      BY <1>1, <2>1 DEF Undisturbed
  <2>4. ASSUME NEW m \in Notes, semantic', ~Loose(m, job[p])' PROVE Held(m, manifest, vec)'
    <3>1. CASE m # n \/ job[p].op = "force"
        BY <1>1, <1>4, <2>1, <2>4, <3>1 DEF Held
    <3>2. CASE m = n /\ job[p].op = "build"
      <4>1. Due(n, job[p].man)
          BY <1>1, <1>3, <2>1, <3>2 DEF Undisturbed, Building
      <4> QED
          BY <1>1, <3>2, <4>1 DEF Due, Held
    <3>3. CASE m = n /\ job[p].op \in {"generated", "edited"}
        BY <1>3, <2>4, <3>3 DEF Loose
    <3> QED
        BY <1>1, <1>2, <3>1, <3>2, <3>3 DEF Shaped
  <2>5. ASSUME job[p].op = "build" PROVE Building(job[p])'
    <3>1. Building(job[p])
        BY <2>1, <2>5 DEF Undisturbed
    <3>2. \A m \in Notes : m \in job[p].todo => Due(m, job[p].man)'
        BY <1>1, <1>3, <3>1 DEF Building, Due
    <3>3. \A m \in Notes : semantic' => Held(m, job[p].man, vec)'
      <4>1. Due(n, job[p].man)
          BY <1>1, <1>3, <3>1 DEF Building
      <4>2. \A m \in Notes : semantic => Held(m, job[p].man, vec)
          BY <1>1, <3>1 DEF Building
      <4> QED
          BY <1>1, <1>3, <1>4, <4>1, <4>2 DEF Due, Held
    <3> QED
        BY <1>1, <1>3, <1>4, <2>5, <3>2, <3>3 DEF Building
  <2>6. ASSUME job[p].op \in {"generated", "edited"} PROVE AddingOne(job[p])'
      BY <1>1, <1>3, <1>4, <2>6 DEF AddingOne
  <2> QED
      BY <1>3, <2>2, <2>3, <2>4, <2>5, <2>6 DEF Undisturbed
<1>7. ASSUME clean', job[p].op = "force" PROVE Rebuilding(p)'
  <2>1. clean /\ Rebuilding(p)
      BY <1>1, <1>2, <1>7
  <2>2. ASSUME NEW m \in Notes
        PROVE  /\ m \in job[p].todo => job'[p].man[m] = 0
               /\ semantic' => Held(m, job[p].man, temp)'
    <3>1. /\ m \in job[p].todo => job[p].man[m] = 0
          /\ semantic => Held(m, job[p].man, temp)
          /\ job[p].man[n] = 0
        BY <1>1, <1>3, <2>1 DEF Rebuilding
    <3> QED
        BY <1>1, <1>3, <1>4, <3>1 DEF Held
  <2> QED
      BY <1>1, <1>3, <2>1, <2>2 DEF Rebuilding
<1>8. ASSUME listed' PROVE Findable(job[p])'
  <2>1. Listing'
      BY <1>1, <1>2, <1>8 DEF Findable, Listing, Held
  <2>2. HasChunks(disk[n])'
      BY <1>1, <1>3 DEF HasChunks
  <2> QED
      BY <1>1, <1>3, <2>1, <2>2 DEF Findable
<1> QED
    BY <1>1, <1>2, <1>3, <1>5, <1>6, <1>7, <1>8, OneWorks

\* A file is read, and its old vectors stay.
LEMMA ReadsOnlyKeeps ==
    ASSUME IndexInv, NEW p \in Procs, NEW n \in Notes, ReadsOnly(p, n)
    PROVE  IndexInv'
<1>1. /\ Takes(p, n) /\ job[p].pc = "files" /\ job[p].op # "force" /\ Fails(TRUE, FALSE)
      /\ UNCHANGED <<disk, short, clock, semantic, alias, vec, by, print, temp, owner,
                     manifest, lex, clean>>
    BY DEF ReadsOnly, Takes, diskVars, vecVars, tempVars
<1>2. /\ IndexTypes /\ job[p].op # "none"
      /\ listed => Findable(job[p])
      /\ calm \/ listed \/ clean => \A q \in Procs \ {p} : job[q].op = "none"
    BY <1>1, WorkFacts
<1>3. /\ HasChunks(disk[n]) /\ Moves(p) /\ Shaped(job[p])'
      /\ job'[p].op = job[p].op /\ job'[p].pc = "embed"
      /\ job'[p].note = n /\ job'[p].got = disk[n]
    BY <1>1, <1>2, TakesFacts
<1>4. /\ luck' \in 0 .. Mishaps /\ calm' \in BOOLEAN /\ listed' \in BOOLEAN
      /\ ~calm' /\ (listed' => listed)
    BY <1>1, <1>2, FailTypes
<1>5. IndexTypes'
    BY <1>1, <1>2, <1>3, <1>4, ShapesStay DEF IndexTypes, Moves
<1>6. ASSUME listed' PROVE Findable(job[p])'
  <2>1. Listing'
      BY <1>1, <1>2, <1>4, <1>6 DEF Findable, Listing, Held
  <2>2. HasChunks(disk[n])'
      BY <1>1, <1>3 DEF HasChunks
  <2> QED
      BY <1>1, <1>3, <2>1, <2>2 DEF Findable
<1> QED
    BY <1>1, <1>2, <1>3, <1>4, <1>5, <1>6, OneWorks

\* What becomes of a command when its file was embedded, or was not.
LEMMA IndexedFacts ==
    ASSUME IndexTypes, NEW p \in Procs, job[p].pc = "embed", NEW stored \in BOOLEAN,
           Indexed(p, stored), clock' = clock
    PROVE  /\ Moves(p) /\ Shaped(job[p])'
           /\ Adding(p) /\ ~stored => job'[p] = Idle
           /\ Adding(p) /\ stored => job'[p].pc = "load"
           /\ ~Adding(p) \/ stored => /\ job'[p].op = job[p].op /\ job'[p].scan = job[p].scan
                                      /\ job'[p].todo = job[p].todo
                                      /\ job'[p].note = job[p].note
                                      /\ job'[p].got = job[p].got
           /\ ~Adding(p) =>
                /\ job'[p].pc = "files"
                /\ job'[p].man[job[p].note] = IF stored THEN job[p].scan[job[p].note] ELSE 0
                /\ \A m \in Notes \ {job[p].note} : job'[p].man[m] = job[p].man[m]
<1> DEFINE n == job[p].note
<1>1. /\ job[p] \in JobType /\ Shaped(job[p]) /\ n \in Notes
      /\ job[p].op \in {"build", "force", "generated", "edited"}
    BY DEF IndexTypes, Shaped
<1>2. CASE Adding(p) /\ stored
  <2>1. Continue(p, "load")
      BY <1>2 DEF Indexed
  <2>2. /\ Moves(p) /\ job'[p].pc = "load" /\ job'[p].op = job[p].op
        /\ job'[p].man = job[p].man /\ job'[p].scan = job[p].scan
        /\ job'[p].todo = job[p].todo /\ job'[p].note = job[p].note
        /\ job'[p].got = job[p].got
      BY <2>1, ContinueFacts DEF IndexTypes, Places
  <2>3. Shaped(job[p])'
      BY <1>1, <1>2, <2>2 DEF IndexTypes, Shaped, Adding
  <2> QED
      BY <1>2, <2>2, <2>3
<1>3. CASE Adding(p) /\ ~stored
  <2>1. Moves(p) /\ job'[p] = Idle
      BY <1>3, FinishFacts DEF Indexed, IndexTypes
  <2>2. Shaped(job[p])'
      BY <1>1, <2>1, IdleFacts, IndexAssumption DEF IndexTypes, Shaped, Stamp
  <2> QED
      BY <1>3, <2>1, <2>2
<1>4. CASE ~Adding(p)
  <2> DEFINE kept == IF stored THEN job[p].scan[n] ELSE 0
             x == [job[p] EXCEPT !.pc = "files", !.man = [@ EXCEPT ![n] = kept]]
  <2>1. job' = [job EXCEPT ![p] = x]
      BY <1>1, <1>4 DEF Indexed, IndexTypes
  <2>2. kept \in Stamp
      BY <1>1, IdleFacts DEF JobType
  <2> HIDE DEF kept
  <2>3. x \in JobType
      BY <1>1, <2>2 DEF JobType, Places
  <2>4. Moves(p) /\ job'[p] = x
      BY <2>1, <2>3, RecordFacts DEF IndexTypes
  <2>5. /\ job'[p].op = job[p].op /\ job'[p].scan = job[p].scan /\ job'[p].pc = "files"
        /\ job'[p].todo = job[p].todo /\ job'[p].note = n /\ job'[p].got = job[p].got
        /\ job'[p].man[n] = kept /\ \A m \in Notes \ {n} : job'[p].man[m] = job[p].man[m]
      BY <1>1, <2>4 DEF JobType
  <2>6. kept <= clock
    <3>1. job[p].scan[n] <= clock /\ 0 <= clock
        BY <1>1, IndexAssumption DEF Shaped, IndexTypes, Stamp
    <3> QED
        BY <3>1 DEF kept
  <2>7. Shaped(job[p])'
      BY <1>1, <1>4, <2>5, <2>6 DEF Shaped, Adding
  <2> QED
      BY <1>4, <2>4, <2>5, <2>7 DEF kept
<1> QED
    BY <1>2, <1>3, <1>4

\* A file is embedded: its vectors are those of what was read.
LEMMA EmbeddedKeeps ==
    ASSUME IndexInv, NEW p \in Procs, Embedded(p)
    PROVE  IndexInv'
<1>0. PICK n \in Notes : n = job[p].note
  <2>1. job[p].pc # "idle" /\ job[p].pc = "embed"
      BY DEF Embedded
  <2> QED
      BY <2>1, WorkFacts DEF Shaped
<1> DEFINE force == job[p].op = "force"
           stored == ~semantic \/ ~force \/ owner = p
<1>1. /\ job[p].pc = "embed" /\ Indexed(p, stored)
      /\ IF semantic /\ stored
         THEN IF force THEN temp' = [temp EXCEPT ![n] = job[p].got] /\ UNCHANGED <<vec, by>>
              ELSE /\ UNCHANGED temp
                   /\ IF vec[n] # 0 THEN UNCHANGED <<vec, by>>
                      ELSE /\ vec' = [vec EXCEPT ![n] = job[p].got]
                           /\ by' = [by EXCEPT ![n] = alias]
         ELSE UNCHANGED <<vec, by, temp>>
      /\ UNCHANGED <<disk, short, clock, semantic, alias, print, owner, manifest, lex,
                     luck, calm, listed, clean>>
    BY <1>0 DEF Embedded, diskVars, historyVars
<1>2. /\ IndexTypes /\ job[p] \in JobType /\ Shaped(job[p]) /\ job[p].op # "none"
      /\ calm => Undisturbed(job[p])
      /\ listed => Findable(job[p])
      /\ clean /\ job[p].op = "force" => Rebuilding(p)
      /\ calm /\ job[p].op = "force" => clean
      /\ calm \/ listed \/ clean => \A q \in Procs \ {p} : job[q].op = "none"
    BY <1>1, WorkFacts
<1>3. stored \in BOOLEAN
    OBVIOUS
<1>4. /\ Moves(p) /\ Shaped(job[p])'
      /\ Adding(p) /\ ~stored => job'[p] = Idle
      /\ Adding(p) /\ stored => job'[p].pc = "load"
      /\ ~Adding(p) \/ stored => /\ job'[p].op = job[p].op /\ job'[p].scan = job[p].scan
                                 /\ job'[p].todo = job[p].todo
                                 /\ job'[p].note = n /\ job'[p].got = job[p].got
      /\ ~Adding(p) => /\ job'[p].pc = "files"
                       /\ job'[p].man[n] = IF stored THEN job[p].scan[n] ELSE 0
                       /\ \A m \in Notes \ {n} : job'[p].man[m] = job[p].man[m]
  <2> HIDE DEF stored
  <2> QED
      BY <1>0, <1>1, <1>2, <1>3, IndexedFacts
<1>5. /\ vec' \in [Notes -> Stamp] /\ temp' \in [Notes -> Stamp]
      /\ by' \in [Notes -> Aliases \cup {"none"}]
      /\ \A m \in Notes \ {n} : vec'[m] = vec[m] /\ temp'[m] = temp[m] /\ by'[m] = by[m]
      /\ semantic /\ ~force /\ vec[n] = 0 => vec'[n] = job[p].got /\ by'[n] = alias
      /\ semantic /\ force /\ stored => temp'[n] = job[p].got
      /\ force => UNCHANGED <<vec, by>>
      /\ ~semantic => UNCHANGED <<vec, by>>
  <2>1. job[p].got \in Stamp /\ alias \in Aliases
      BY <1>2 DEF IndexTypes, JobType
  <2>2. CASE semantic /\ stored /\ force
      BY <1>1, <1>2, <2>1, <2>2 DEF IndexTypes
  <2>3. CASE semantic /\ ~force /\ vec[n] = 0
      BY <1>1, <1>2, <2>1, <2>3 DEF IndexTypes
  <2>4. CASE semantic /\ ~force /\ vec[n] # 0
      BY <1>1, <1>2, <2>1, <2>4 DEF IndexTypes
  <2>5. CASE ~(semantic /\ stored)
      BY <1>1, <1>2, <2>1, <2>5 DEF IndexTypes
  <2> QED
      BY <2>2, <2>3, <2>4, <2>5
<1>6. IndexTypes'
    BY <1>1, <1>2, <1>4, <1>5, ShapesStay DEF IndexTypes, Moves
<1>7. ASSUME calm', ~force PROVE Undisturbed(job[p])'
  <2>1. Undisturbed(job[p]) /\ stored
      BY <1>1, <1>2, <1>7
  <2>2. job[p].op \in {"build", "generated", "edited"} /\ job'[p].op = job[p].op
      BY <1>1, <1>2, <1>4, <1>7, <2>1 DEF Shaped
  <2>3. /\ Marked /\ (semantic => print = alias)
        /\ \A m \in Notes : semantic /\ ~Loose(m, job[p]) => Held(m, manifest, vec)
      BY <1>7, <2>1, <2>2 DEF Undisturbed, Replacing
  <2>4. semantic => vec[n] = 0
      BY <1>0, <1>1, <2>1, <2>2 DEF Undisturbed, Building, AddingOne
  <2>5. Marked' /\ (semantic' => print' = alias')
    <3>1. semantic => \A m \in Notes : vec'[m] # 0 => by'[m] = print
        BY <1>2, <1>5, <1>7, <2>3, <2>4 DEF Marked, SameModel
    <3> QED
        BY <1>1, <2>3, <3>1 DEF Marked, SameModel
  <2>6. CASE job[p].op = "build"
    <3>1. Building(job[p])
        BY <2>1, <2>6 DEF Undisturbed
    <3>2. /\ n \notin job[p].todo /\ Due(n, job[p].man)
          /\ job[p].scan[n] = disk[n] /\ disk[n] # 0 => job[p].got = disk[n]
          /\ \A m \in Notes : /\ semantic => Held(m, job[p].man, vec)
                              /\ m \in job[p].todo => Due(m, job[p].man)
        BY <1>0, <1>1, <3>1 DEF Building
    <3>3. /\ job'[p].pc = "files" /\ job'[p].man[n] = job[p].scan[n]
          /\ \A m \in Notes \ {n} : job'[p].man[m] = job[p].man[m]
        BY <1>4, <2>1, <2>6 DEF Adding
    <3>4. semantic' => Held(n, job[p].man, vec)'
        BY <1>1, <1>5, <1>7, <2>4, <3>2, <3>3 DEF Held
    <3>5. \A m \in Notes \ {n} : semantic' => Held(m, job[p].man, vec)'
        BY <1>1, <1>5, <3>2, <3>3 DEF Held
    <3>6. \A m \in Notes : m \in job'[p].todo => Due(m, job[p].man)'
        BY <1>1, <1>4, <2>1, <3>2, <3>3 DEF Due
    <3>7. Building(job[p])'
        BY <3>3, <3>4, <3>5, <3>6 DEF Building
    <3>8. \A m \in Notes : semantic' => Held(m, manifest, vec)'
      <4>1. semantic' => Held(n, manifest, vec)'
          BY <1>1, <3>2 DEF Due, Held
      <4>2. \A m \in Notes \ {n} : semantic' => Held(m, manifest, vec)'
          BY <1>1, <1>5, <2>3, <2>6 DEF Held, Loose
      <4> QED
          BY <4>1, <4>2
    <3> QED
        BY <2>2, <2>5, <2>6, <3>3, <3>7, <3>8 DEF Undisturbed
  <2>7. CASE job[p].op \in {"generated", "edited"}
    <3>1. AddingOne(job[p])
        BY <2>1, <2>7 DEF Undisturbed
    <3>2. disk[n] \in {job[p].got, 0}
        BY <1>0, <1>1, <3>1 DEF AddingOne
    <3>3. job'[p].pc = "load" /\ job'[p].note = n /\ job'[p].got = job[p].got
        BY <1>4, <2>1, <2>7 DEF Adding
    <3>4. \A m \in Notes : semantic' => Held(m, manifest, vec)'
      <4>1. semantic' => Held(n, manifest, vec)'
          BY <1>1, <1>5, <1>7, <2>4, <3>2 DEF Held
      <4>2. \A m \in Notes \ {n} : semantic' => Held(m, manifest, vec)'
          BY <1>0, <1>1, <1>5, <2>3 DEF Held, Loose
      <4> QED
          BY <4>1, <4>2
    <3>5. AddingOne(job[p])'
        BY <1>1, <1>5, <1>7, <2>4, <3>2, <3>3 DEF AddingOne
    <3> QED
        BY <2>2, <2>5, <2>7, <3>3, <3>4, <3>5 DEF Undisturbed
  <2> QED
      BY <2>2, <2>6, <2>7
<1>8. ASSUME clean', force PROVE Rebuilding(p)'
  <2>1. clean /\ Rebuilding(p) /\ ~Adding(p)
      BY <1>1, <1>2, <1>8 DEF Adding
  <2>2. /\ stored /\ n \notin job[p].todo /\ (semantic => owner = p)
        /\ job[p].scan[n] = disk[n] /\ disk[n] # 0 => job[p].got = disk[n]
        /\ \A m \in Notes : /\ m \in job[p].todo => job[p].man[m] = 0
                            /\ semantic => Held(m, job[p].man, temp)
      BY <1>0, <1>1, <2>1 DEF Rebuilding
  <2>3. /\ job'[p].pc = "files" /\ job'[p].man[n] = job[p].scan[n]
        /\ \A m \in Notes \ {n} : job'[p].man[m] = job[p].man[m]
        /\ job'[p].todo = job[p].todo
      BY <1>4, <2>1, <2>2
  <2>4. semantic' => Held(n, job[p].man, temp)'
      BY <1>1, <1>5, <1>8, <2>2, <2>3 DEF Held
  <2>5. \A m \in Notes \ {n} : semantic' => Held(m, job[p].man, temp)'
      BY <1>1, <1>5, <2>2, <2>3 DEF Held
  <2>6. \A m \in Notes : m \in job'[p].todo => job'[p].man[m] = 0
      BY <2>2, <2>3
  <2> QED
      BY <1>1, <2>2, <2>3, <2>4, <2>5, <2>6 DEF Rebuilding
<1>9. ASSUME calm', force PROVE Undisturbed(job[p])'
  <2>1. Undisturbed(job[p]) /\ clean' /\ job'[p].op = "force" /\ job'[p].pc = "files"
      BY <1>1, <1>2, <1>4, <1>9 DEF Adding
  <2>2. Marked /\ \A m \in Notes : semantic => Held(m, manifest, vec)
      BY <1>1, <1>9, <2>1 DEF Undisturbed, Replacing, Loose
  <2>3. Marked' /\ \A m \in Notes : semantic' => Held(m, manifest, vec)'
      BY <1>1, <1>5, <1>9, <2>2 DEF Marked, SameModel, Held
  <2> QED
      BY <2>1, <2>3 DEF Undisturbed
<1>10. ASSUME listed' PROVE Findable(job[p])'
  <2>1. Findable(job[p]) /\ Listing'
      BY <1>1, <1>2, <1>10 DEF Findable, Listing, Held
  <2>2. CASE Adding(p) /\ ~stored
      BY <1>4, <2>1, <2>2, DoneFacts
  <2>3. CASE Adding(p) /\ stored
    <3>1. /\ job'[p].pc = "load" /\ job'[p].op = job[p].op
          /\ job'[p].note = n /\ job'[p].got = job[p].got
        BY <1>4, <2>3
    <3>2. job[p].op = "generated" => HasChunks(job[p].got) /\ disk[n] \in {job[p].got, 0}
        BY <1>0, <1>1, <2>1 DEF Findable
    <3>3. job[p].op = "generated" => HasChunks(job[p].got)' /\ disk'[n] \in {job'[p].got, 0}
        BY <1>1, <3>1, <3>2 DEF HasChunks
    <3> QED
        BY <2>1, <3>1, <3>3 DEF Findable
  <2>4. CASE ~Adding(p)
    <3>1. job'[p].pc = "files"
        BY <1>4, <2>4
    <3> QED
        BY <2>1, <3>1 DEF Findable
  <2> QED
      BY <2>2, <2>3, <2>4
<1>11. job[p].op = "force" <=> job'[p].op = "force"
    BY <1>4, IdleFacts DEF Adding
<1> QED
    BY <1>1, <1>2, <1>4, <1>6, <1>7, <1>8, <1>9, <1>10, <1>11, OneWorks

\* A file is not embedded, and goes unrecorded.
LEMMA EmbedFailsKeeps ==
    ASSUME IndexInv, NEW p \in Procs, EmbedFails(p)
    PROVE  IndexInv'
<1>0. PICK n \in Notes : n = job[p].note
  <2>1. job[p].pc # "idle" /\ job[p].pc = "embed"
      BY DEF EmbedFails
  <2> QED
      BY <2>1, WorkFacts DEF Shaped
<1> DEFINE undone == job[p].op # "force" /\ manifest[n] = job[p].got
<1>1. /\ job[p].pc = "embed" /\ Indexed(p, FALSE) /\ semantic /\ Fails(undone, FALSE)
      /\ UNCHANGED <<disk, short, clock, semantic, alias, vec, by, print, temp, owner,
                     manifest, lex, clean>>
    BY <1>0 DEF EmbedFails, diskVars, vecVars, tempVars
<1>2. /\ IndexTypes /\ job[p] \in JobType /\ Shaped(job[p]) /\ job[p].op # "none"
      /\ calm => Undisturbed(job[p])
      /\ listed => Findable(job[p])
      /\ clean /\ job[p].op = "force" => Rebuilding(p)
      /\ calm \/ listed \/ clean => \A q \in Procs \ {p} : job[q].op = "none"
    BY <1>1, WorkFacts
<1>3. /\ luck' \in 0 .. Mishaps /\ calm' \in BOOLEAN /\ listed' \in BOOLEAN
      /\ (calm' => calm /\ ~undone) /\ (listed' => listed)
  <2>1. undone \in BOOLEAN /\ FALSE \in BOOLEAN
      OBVIOUS
  <2> HIDE DEF undone
  <2> QED
      BY <1>1, <1>2, <2>1, FailTypes
<1>4. /\ Moves(p) /\ Shaped(job[p])'
      /\ Adding(p) => job'[p] = Idle
      /\ ~Adding(p) => /\ job'[p].op = job[p].op /\ job'[p].scan = job[p].scan
                       /\ job'[p].todo = job[p].todo
                       /\ job'[p].pc = "files" /\ job'[p].man[n] = 0
                       /\ \A m \in Notes \ {n} : job'[p].man[m] = job[p].man[m]
  <2>1. FALSE \in BOOLEAN
      OBVIOUS
  <2> QED
      BY <1>0, <1>1, <1>2, <2>1, IndexedFacts
<1>5. IndexTypes'
    BY <1>1, <1>2, <1>3, <1>4, ShapesStay DEF IndexTypes, Moves
<1>6. ASSUME calm'
      PROVE  /\ Marked' /\ \A m \in Notes : semantic' => Held(m, manifest, vec)'
             /\ Undisturbed(job[p]) /\ print' = print
  <2>1. /\ Undisturbed(job[p]) /\ Marked
        /\ \A m \in Notes : semantic /\ ~Loose(m, job[p]) => Held(m, manifest, vec)
      BY <1>1, <1>2, <1>3, <1>6 DEF Undisturbed, Replacing
  <2>2. Held(n, manifest, vec)
    <3>1. CASE Adding(p)
      <4>1. disk[n] \in {job[p].got, 0} /\ manifest[n] # job[p].got
          BY <1>0, <1>1, <1>3, <1>6, <2>1, <3>1 DEF Undisturbed, AddingOne, Adding
      <4> QED
          BY <4>1 DEF Held
    <3>2. CASE ~Adding(p)
        BY <1>1, <2>1, <3>2 DEF Loose, Adding
    <3> QED
        BY <3>1, <3>2
  <2>3. \A m \in Notes : semantic => Held(m, manifest, vec)
      BY <1>0, <2>1, <2>2 DEF Loose
  <2> QED
      BY <1>1, <2>1, <2>3 DEF Marked, SameModel, Held
<1>7. CASE Adding(p)
  <2>1. calm' => Undisturbed(job[p])'
      BY <1>4, <1>6, <1>7, DoneFacts DEF Resting
  <2>2. listed' => Findable(job[p])'
    <3>1. listed' => Listing'
        BY <1>1, <1>2, <1>3 DEF Findable, Listing, Held
    <3> QED
        BY <1>4, <1>7, <3>1, DoneFacts
  <2> QED
      BY <1>1, <1>2, <1>3, <1>4, <1>5, <1>7, <2>1, <2>2, IdleFacts, OneWorks
<1>8. CASE ~Adding(p)
  <2>1. job[p].op \in {"build", "force"} /\ job'[p].op = job[p].op /\ job'[p].pc = "files"
      BY <1>1, <1>2, <1>4, <1>8 DEF Shaped, Adding
  <2>2. ASSUME calm' PROVE Undisturbed(job[p])'
    <3>1. ASSUME job[p].op = "build" PROVE Building(job[p])' /\ (semantic' => print' = alias')
      <4>1. Building(job[p]) /\ (semantic => print = alias)
          BY <1>6, <2>2, <3>1 DEF Undisturbed
      <4>2. /\ n \notin job[p].todo
            /\ \A m \in Notes : /\ semantic => Held(m, job[p].man, vec)
                                /\ m \in job[p].todo => Due(m, job[p].man)
          BY <1>0, <1>1, <4>1 DEF Building
      <4>3. \A m \in Notes : semantic' => Held(m, job[p].man, vec)'
          BY <1>1, <1>4, <1>8, <4>2 DEF Held
      <4>4. \A m \in Notes : m \in job'[p].todo => Due(m, job[p].man)'
          BY <1>1, <1>4, <1>8, <4>2 DEF Due
      <4> QED
          BY <1>1, <2>1, <4>1, <4>3, <4>4 DEF Building
    <3>2. job[p].op = "force" => clean'
        BY <1>1, <1>6, <2>2 DEF Undisturbed
    <3> QED
        BY <1>6, <2>1, <2>2, <3>1, <3>2 DEF Undisturbed
  <2>3. ASSUME clean', job[p].op = "force" PROVE Rebuilding(p)'
    <3>1. Rebuilding(p)
        BY <1>1, <1>2, <2>3
    <3>2. /\ n \notin job[p].todo /\ (semantic => owner = p)
          /\ \A m \in Notes : /\ m \in job[p].todo => job[p].man[m] = 0
                              /\ semantic => Held(m, job[p].man, temp)
        BY <1>0, <1>1, <3>1 DEF Rebuilding
    <3>3. \A m \in Notes : /\ m \in job'[p].todo => job'[p].man[m] = 0
                           /\ semantic' => Held(m, job[p].man, temp)'
        BY <1>1, <1>4, <1>8, <3>2 DEF Held
    <3> QED
        BY <1>1, <2>1, <3>2, <3>3 DEF Rebuilding
  <2>4. listed' => Findable(job[p])'
    <3>1. job[p].pc # "lex" /\ job'[p].pc # "lex" /\ job'[p].op # "generated"
        BY <1>1, <2>1
    <3> QED
        BY <1>1, <1>2, <1>3, <3>1, ListingKept
  <2> QED
      BY <1>1, <1>2, <1>3, <1>4, <1>5, <2>1, <2>2, <2>3, <2>4, OneWorks
<1> QED
    BY <1>7, <1>8

\* The last file is done.
LEMMA FilesDoneKeeps ==
    ASSUME IndexInv, NEW p \in Procs, FilesDone(p)
    PROVE  IndexInv'
<1> DEFINE next == IF job[p].op = "force" /\ semantic THEN "promote" ELSE "save"
<1>1. /\ job[p].pc = "files" /\ job[p].todo = {} /\ ~Adding(p) /\ Continue(p, next)
      /\ UNCHANGED <<disk, short, clock, semantic, alias, vec, by, print, temp, owner,
                     manifest, lex, luck, calm, listed, clean>>
    BY DEF FilesDone, diskVars, vecVars, tempVars, historyVars
<1>2. /\ IndexTypes /\ job[p] \in JobType /\ Shaped(job[p])
      /\ job[p].op \in {"build", "force"}
      /\ calm => Undisturbed(job[p])
      /\ listed => Findable(job[p])
      /\ clean /\ job[p].op = "force" => Rebuilding(p)
      /\ calm \/ listed \/ clean => \A q \in Procs \ {p} : job[q].op = "none"
    BY <1>1, WorkFacts DEF Shaped, Adding
<1>3. next \in Places /\ next \notin {"lex", "prune", "files", "embed"}
    BY DEF Places
<1>4. /\ Moves(p) /\ job'[p].pc = next /\ job'[p].op = job[p].op
      /\ job'[p].man = job[p].man /\ job'[p].scan = job[p].scan
      /\ job'[p].got = job[p].got
  <2> HIDE DEF next
  <2> QED
      BY <1>1, <1>2, <1>3, ContinueFacts DEF IndexTypes
<1>5. Shaped(job[p])'
    BY <1>1, <1>2, <1>4 DEF IndexTypes, Shaped
<1>6. IndexTypes'
    BY <1>1, <1>2, <1>4, <1>5, ShapesStay DEF IndexTypes, Moves
<1>7. ASSUME calm' PROVE Undisturbed(job[p])'
  <2>1. /\ Undisturbed(job[p]) /\ Marked
        /\ \A n \in Notes : semantic => Held(n, manifest, vec)
      BY <1>1, <1>2, <1>7 DEF Undisturbed, Replacing, Loose
  <2>2. Marked' /\ \A n \in Notes : semantic' => Held(n, manifest, vec)'
      BY <1>1, <2>1 DEF Marked, SameModel, Held
  <2>3. CASE job[p].op = "build"
    <3>1. Building(job[p]) /\ (semantic => print = alias)
        BY <2>1, <2>3 DEF Undisturbed
    <3>2. job'[p].pc = "save" /\ \A n \in Notes : semantic' => Held(n, job[p].man, vec)'
        BY <1>1, <1>4, <2>3, <3>1 DEF Building, Held
    <3>3. Building(job[p])'
        BY <3>2 DEF Building
    <3> QED
        BY <1>1, <1>4, <2>2, <2>3, <3>1, <3>2, <3>3 DEF Undisturbed
  <2>4. CASE job[p].op = "force"
      BY <1>1, <1>4, <2>1, <2>2, <2>4 DEF Undisturbed
  <2> QED
      BY <1>2, <2>3, <2>4
<1>8. ASSUME clean', job[p].op = "force" PROVE Rebuilding(p)'
  <2>1. Rebuilding(p)
      BY <1>1, <1>2, <1>8
  <2>2. /\ semantic => owner = p
        /\ \A n \in Notes : semantic => Held(n, job[p].man, temp)
      BY <1>1, <2>1 DEF Rebuilding
  <2>3. semantic' => owner' = p /\ \A n \in Notes : Held(n, job[p].man, temp)'
      BY <1>1, <1>4, <2>2 DEF Held
  <2> QED
      BY <1>1, <1>4, <1>8, <2>3 DEF Rebuilding
<1>9. listed' => Findable(job[p])'
  <2>1. job[p].pc # "lex" /\ job'[p].pc # "lex" /\ job'[p].op # "generated"
      BY <1>1, <1>2, <1>3, <1>4
  <2> QED
      BY <1>1, <1>2, <2>1, ListingKept
<1> QED
    BY <1>1, <1>2, <1>4, <1>6, <1>7, <1>8, <1>9, OneWorks

-----------------------------------------------------------------------------
(* The promotion *)

\* The live collection goes ...
LEMMA DeletesLiveKeeps ==
    ASSUME IndexInv, NEW p \in Procs, DeletesLive(p)
    PROVE  IndexInv'
<1>1. /\ job[p].pc = "promote" /\ Continue(p, "rename")
      /\ vec' = Nothing /\ by' = [n \in Notes |-> "none"] /\ print' = "none"
      /\ UNCHANGED <<disk, short, clock, semantic, alias, temp, owner, manifest, lex,
                     luck, calm, listed, clean>>
    BY DEF DeletesLive, diskVars, tempVars, historyVars
<1>2. /\ IndexTypes /\ job[p] \in JobType /\ Shaped(job[p]) /\ job[p].op = "force"
      /\ listed => Findable(job[p])
      /\ clean => Rebuilding(p)
      /\ calm => clean
      /\ calm \/ listed \/ clean => \A q \in Procs \ {p} : job[q].op = "none"
    BY <1>1, WorkFacts DEF Shaped
<1>3. /\ Moves(p) /\ job'[p].pc = "rename" /\ job'[p].op = "force" /\ job'[p].man = job[p].man
      /\ job'[p].scan = job[p].scan /\ job'[p].got = job[p].got
    BY <1>1, <1>2, ContinueFacts DEF IndexTypes, Places
<1>4. Shaped(job[p])'
    BY <1>1, <1>2, <1>3 DEF IndexTypes, Shaped
<1>5. IndexTypes'
    BY <1>1, <1>2, <1>3, <1>4, ShapesStay, IdleFacts DEF IndexTypes, Moves
<1>6. ASSUME clean' PROVE Rebuilding(p)' /\ semantic
  <2>1. semantic /\ owner = p /\ \A n \in Notes : Held(n, job[p].man, temp)
      BY <1>1, <1>2, <1>6 DEF Rebuilding
  <2>2. \A n \in Notes : Held(n, job[p].man, temp)'
      BY <1>1, <1>3, <2>1 DEF Held
  <2> QED
      BY <1>1, <1>3, <2>1, <2>2 DEF Rebuilding
<1>7. ASSUME calm' PROVE Undisturbed(job[p])'
    BY <1>1, <1>2, <1>3, <1>6, <1>7 DEF Undisturbed, Replacing
<1>8. listed' => Findable(job[p])'
  <2>1. job[p].pc # "lex" /\ job'[p].pc # "lex" /\ job'[p].op # "generated"
      BY <1>1, <1>3
  <2> QED
      BY <1>1, <1>2, <2>1, ListingKept
<1> QED
    BY <1>1, <1>2, <1>3, <1>5, <1>6, <1>7, <1>8, OneWorks

\* ... and the temp collection takes its place, if it is still there ...
LEMMA RenamesTempKeeps ==
    ASSUME IndexInv, NEW p \in Procs, RenamesTemp(p)
    PROVE  IndexInv'
<1>1. /\ job[p].pc = "rename"
      /\ IF owner = p
         THEN /\ vec' = temp
              /\ by' = [n \in Notes |-> IF temp[n] = 0 THEN "none" ELSE alias]
              /\ Continue(p, "print")
         ELSE UNCHANGED <<vec, by>> /\ Finish(p)
      /\ temp' = Nothing /\ owner' = "none"
      /\ UNCHANGED <<disk, short, clock, semantic, alias, print, manifest, lex, luck,
                     calm, listed, clean>>
    BY DEF RenamesTemp, diskVars, historyVars
<1>2. /\ IndexTypes /\ job[p] \in JobType /\ Shaped(job[p]) /\ job[p].op = "force"
      /\ listed => Findable(job[p])
      /\ clean => Rebuilding(p)
      /\ calm => clean
      /\ calm \/ listed \/ clean => \A q \in Procs \ {p} : job[q].op = "none"
    BY <1>1, WorkFacts DEF Shaped
<1>3. CASE owner = p
  <2>1. /\ Moves(p) /\ job'[p].pc = "print" /\ job'[p].op = "force"
        /\ job'[p].man = job[p].man /\ job'[p].scan = job[p].scan
        /\ job'[p].got = job[p].got
      BY <1>1, <1>2, <1>3, ContinueFacts DEF IndexTypes, Places
  <2>2. vec' \in [Notes -> Stamp] /\ by' \in [Notes -> Aliases \cup {"none"}]
      BY <1>1, <1>2, <1>3 DEF IndexTypes
  <2>3. Shaped(job[p])'
      BY <1>1, <1>2, <2>1 DEF IndexTypes, Shaped
  <2>4. IndexTypes'
      BY <1>1, <1>2, <2>1, <2>2, <2>3, ShapesStay, IdleFacts DEF IndexTypes, Moves
  <2>5. ASSUME clean' PROVE Rebuilding(p)' /\ semantic
    <3>1. semantic /\ \A n \in Notes : Held(n, job[p].man, temp)
        BY <1>1, <1>2, <2>5 DEF Rebuilding
    <3>2. \A n \in Notes : Held(n, job[p].man, vec)'
        BY <1>1, <1>3, <2>1, <3>1 DEF Held
    <3>3. SameModel(alias)'
        BY <1>1, <1>3 DEF SameModel
    <3> QED
        BY <1>1, <2>1, <3>1, <3>2, <3>3 DEF Rebuilding
  <2>6. ASSUME calm' PROVE Undisturbed(job[p])'
      BY <1>1, <1>2, <2>1, <2>5, <2>6 DEF Undisturbed, Replacing
  <2>7. listed' => Findable(job[p])'
    <3>1. job[p].pc # "lex" /\ job'[p].pc # "lex" /\ job'[p].op # "generated"
        BY <1>1, <2>1
    <3> QED
        BY <1>1, <1>2, <3>1, ListingKept
  <2> QED
      BY <1>1, <1>2, <2>1, <2>4, <2>5, <2>6, <2>7, OneWorks
<1>4. CASE owner # p
  <2>1. Moves(p) /\ job'[p] = Idle /\ UNCHANGED <<vec, by>>
      BY <1>1, <1>2, <1>4, FinishFacts DEF IndexTypes
  <2>2. Shaped(job[p])'
      BY <1>1, <1>2, <2>1, IdleFacts, IndexAssumption DEF IndexTypes, Shaped, Stamp
  <2>3. IndexTypes'
      BY <1>1, <1>2, <2>1, <2>2, ShapesStay, IdleFacts DEF IndexTypes, Moves
  <2>4. ~clean' /\ ~calm'
    <3>1. ~clean
        BY <1>1, <1>2, <1>4 DEF Rebuilding
    <3>2. clean' = clean /\ calm' = calm
        BY <1>1
    <3> QED
        BY <1>2, <3>1, <3>2
  <2>5. listed' => Findable(job[p])'
    <3>1. listed' => Listing'
        BY <1>1, <1>2 DEF Findable, Listing, Held
    <3> QED
        BY <2>1, <3>1, DoneFacts
  <2> QED
      BY <1>1, <1>2, <2>1, <2>3, <2>4, <2>5, OneWorks
<1> QED
    BY <1>3, <1>4

\* ... and gets its fingerprint.
LEMMA WritesPrintKeeps ==
    ASSUME IndexInv, NEW p \in Procs, WritesPrint(p)
    PROVE  IndexInv'
<1>1. /\ job[p].pc = "print" /\ print' = alias /\ Continue(p, "save")
      /\ UNCHANGED <<disk, short, clock, semantic, alias, vec, by, temp, owner, manifest,
                     lex, luck, calm, listed, clean>>
    BY DEF WritesPrint, diskVars, tempVars, historyVars
<1>2. /\ IndexTypes /\ job[p] \in JobType /\ Shaped(job[p]) /\ job[p].op = "force"
      /\ listed => Findable(job[p])
      /\ clean => Rebuilding(p)
      /\ calm => clean
      /\ calm \/ listed \/ clean => \A q \in Procs \ {p} : job[q].op = "none"
    BY <1>1, WorkFacts DEF Shaped
<1>3. /\ Moves(p) /\ job'[p].pc = "save" /\ job'[p].op = "force" /\ job'[p].man = job[p].man
      /\ job'[p].scan = job[p].scan /\ job'[p].got = job[p].got
    BY <1>1, <1>2, ContinueFacts DEF IndexTypes, Places
<1>4. Shaped(job[p])'
    BY <1>1, <1>2, <1>3 DEF IndexTypes, Shaped
<1>5. IndexTypes'
    BY <1>1, <1>2, <1>3, <1>4, ShapesStay DEF IndexTypes, Moves
<1>6. ASSUME clean' PROVE Rebuilding(p)' /\ semantic
  <2>1. semantic /\ SameModel(alias) /\ \A n \in Notes : Held(n, job[p].man, vec)
      BY <1>1, <1>2, <1>6 DEF Rebuilding
  <2>2. SameModel(alias)' /\ \A n \in Notes : Held(n, job[p].man, vec)'
      BY <1>1, <1>3, <2>1 DEF Held, SameModel
  <2> QED
      BY <1>1, <1>3, <2>1, <2>2 DEF Rebuilding
<1>7. ASSUME calm' PROVE Undisturbed(job[p])'
    BY <1>1, <1>2, <1>3, <1>6, <1>7 DEF Undisturbed, Replacing
<1>8. listed' => Findable(job[p])'
  <2>1. job[p].pc # "lex" /\ job'[p].pc # "lex" /\ job'[p].op # "generated"
      BY <1>1, <1>3
  <2> QED
      BY <1>1, <1>2, <2>1, ListingKept
<1> QED
    BY <1>1, <1>2, <1>3, <1>5, <1>6, <1>7, <1>8, OneWorks

-----------------------------------------------------------------------------
(* The manifest and bm25.json *)

\* add_note and remove_note read the manifest.
LEMMA LoadsManifestKeeps ==
    ASSUME IndexInv, NEW p \in Procs, LoadsManifest(p)
    PROVE  IndexInv'
<1>0. PICK n \in Notes : n = job[p].note
  <2>1. job[p].pc # "idle" /\ job[p].pc = "load"
      BY DEF LoadsManifest
  <2> QED
      BY <2>1, WorkFacts DEF Shaped
<1> DEFINE found == IF job[p].op = "remove" THEN 0
                    ELSE IF disk[n] # 0 THEN disk[n] ELSE manifest[n]
           man == [manifest EXCEPT ![n] = found]
<1>1. /\ job[p].pc = "load"
      /\ job' = [job EXCEPT ![p].pc = "save", ![p].man = man]
      /\ UNCHANGED <<disk, short, clock, semantic, alias, vec, by, print, temp, owner,
                     manifest, lex, luck, calm, listed, clean>>
    BY <1>0 DEF LoadsManifest, diskVars, vecVars, tempVars, historyVars
<1>2. /\ IndexTypes /\ job[p] \in JobType /\ Shaped(job[p])
      /\ job[p].op \in {"generated", "edited", "remove"}
      /\ calm => Undisturbed(job[p])
      /\ listed => Findable(job[p])
      /\ calm \/ listed \/ clean => \A q \in Procs \ {p} : job[q].op = "none"
    BY <1>1, WorkFacts DEF Shaped
<1>3. found \in Stamp /\ found <= clock
  <2>1. disk[n] \in Stamp /\ manifest[n] \in Stamp /\ 0 \in Stamp
      BY <1>2, IdleFacts DEF IndexTypes
  <2>2. disk[n] <= clock /\ manifest[n] <= clock /\ 0 <= clock
      BY <1>2, IndexAssumption DEF IndexTypes, Stamp
  <2> QED
      BY <2>1, <2>2
<1>4. /\ job[p].op = "remove" => found = 0
      /\ job[p].op # "remove" /\ disk[n] # 0 => found = disk[n]
    OBVIOUS
<1> HIDE DEF found
<1>5. /\ man \in [Notes -> Stamp] /\ man[n] = found
      /\ \A m \in Notes \ {n} : man[m] = manifest[m]
    BY <1>2, <1>3 DEF IndexTypes
<1> HIDE DEF man
<1>6. /\ Moves(p) /\ job'[p].pc = "save" /\ job'[p].op = job[p].op /\ job'[p].man = man
      /\ job'[p].scan = job[p].scan /\ job'[p].note = n /\ job'[p].got = job[p].got
    BY <1>0, <1>1, <1>2, <1>5 DEF IndexTypes, JobType, Moves, Places
<1>7. Shaped(job[p])'
  <2>1. \A m \in Notes : man[m] <= clock /\ job[p].scan[m] <= clock
      BY <1>2, <1>3, <1>5 DEF IndexTypes, Shaped
  <2> QED
      BY <1>1, <1>2, <1>6, <2>1 DEF Shaped
<1>8. IndexTypes'
    BY <1>1, <1>2, <1>6, <1>7, ShapesStay DEF IndexTypes, Moves
<1>9. ASSUME calm' PROVE Undisturbed(job[p])'
  <2>1. /\ Undisturbed(job[p]) /\ Marked
        /\ \A m \in Notes : semantic => Held(m, manifest, vec)
      BY <1>1, <1>2, <1>9 DEF Undisturbed, Replacing, Loose
  <2>2. Marked' /\ \A m \in Notes : semantic' => Held(m, manifest, vec)'
      BY <1>1, <2>1 DEF Marked, SameModel, Held
  <2>3. semantic' => Held(n, job[p].man, vec)'
    <3>1. CASE job[p].op = "remove"
        BY <1>1, <1>4, <1>5, <1>6, <3>1 DEF Held
    <3>2. CASE job[p].op \in {"generated", "edited"}
      <4>1. disk[n] \in {job[p].got, 0} /\ (semantic => vec[n] = job[p].got)
          BY <1>0, <1>1, <2>1, <3>2 DEF Undisturbed, AddingOne
      <4> QED
          BY <1>1, <1>6, <4>1 DEF Held
    <3> QED
        BY <1>2, <3>1, <3>2
  <2>4. \A m \in Notes \ {n} : semantic' => Held(m, job[p].man, vec)'
      BY <1>1, <1>5, <1>6, <2>1 DEF Held
  <2>5. job[p].op \in {"generated", "edited"} =>
            AddingOne(job[p])' /\ (semantic' => print' = alias')
      BY <1>1, <1>6, <2>1 DEF AddingOne, Undisturbed
  <2> QED
      BY <1>2, <1>6, <2>2, <2>3, <2>4, <2>5 DEF Undisturbed
<1>10. ASSUME listed' PROVE Findable(job[p])'
  <2>1. Findable(job[p]) /\ Listing
      BY <1>1, <1>2, <1>10 DEF Findable
  <2>2. Listing'
      BY <1>1, <2>1 DEF Listing, Held
  <2>3. ASSUME job[p].op = "generated" PROVE Chunked(n, job[p].man)'
    <3>1. HasChunks(job[p].got) /\ disk[n] \in {job[p].got, 0}
        BY <1>0, <1>1, <2>1, <2>3 DEF Findable
    <3> QED
        BY <1>1, <3>1 DEF Chunked, HasChunks
  <2>4. \A m \in Notes \ {n} : Held(m, job[p].man, lex)'
      BY <1>1, <1>5, <1>6, <2>1 DEF Listing, Held
  <2> QED
      BY <1>6, <2>2, <2>3, <2>4 DEF Findable
<1>11. job'[p].op # "force"
    BY <1>2, <1>6
<1> QED
    BY <1>1, <1>2, <1>6, <1>8, <1>9, <1>10, <1>11, OneWorks

\* manifest.json is written; a force rebuild has made good what went before.
LEMMA SavesManifestKeeps ==
    ASSUME IndexInv, NEW p \in Procs, SavesManifest(p)
    PROVE  IndexInv'
<1>1. /\ job[p].pc = "save" /\ manifest' = job[p].man /\ Continue(p, "lex")
      /\ calm' = (calm \/ (job[p].op = "force" /\ clean))
      /\ UNCHANGED <<disk, short, clock, semantic, alias, vec, by, print, temp, owner,
                     lex, luck, listed, clean>>
    BY DEF SavesManifest, diskVars, vecVars, tempVars
<1>2. /\ IndexTypes /\ job[p] \in JobType /\ Shaped(job[p]) /\ job[p].op # "none"
      /\ job[p].op \in Ops
      /\ calm => Undisturbed(job[p])
      /\ listed => Findable(job[p])
      /\ clean /\ job[p].op = "force" => Rebuilding(p)
      /\ calm /\ job[p].op = "force" => clean
      /\ calm \/ listed \/ clean => \A q \in Procs \ {p} : job[q].op = "none"
    BY <1>1, WorkFacts DEF JobType
<1>3. /\ Moves(p) /\ job'[p].pc = "lex" /\ job'[p].op = job[p].op
      /\ job'[p].man = job[p].man /\ job'[p].scan = job[p].scan /\ job'[p].note = job[p].note
      /\ job'[p].got = job[p].got
    BY <1>1, <1>2, ContinueFacts DEF IndexTypes, Places
<1>4. Shaped(job[p])'
    BY <1>1, <1>2, <1>3 DEF IndexTypes, Shaped
<1>5. /\ manifest' \in [Notes -> Stamp] /\ calm' \in BOOLEAN
      /\ \A n \in Notes : manifest'[n] <= clock'
  <2>1. /\ manifest' \in [Notes -> Stamp]
        /\ \A n \in Notes : manifest'[n] <= clock'
      BY <1>1, <1>2 DEF JobType, Shaped
  <2>2. calm' \in BOOLEAN
      BY <1>1
  <2> QED
      BY <2>1, <2>2
<1>6. IndexTypes'
    BY <1>1, <1>2, <1>3, <1>4, <1>5, ShapesStay DEF IndexTypes, Moves
<1>7. ASSUME calm', job[p].op # "force" PROVE Undisturbed(job[p])'
  <2>1. Undisturbed(job[p]) /\ Marked /\ \A n \in Notes : semantic => Held(n, job[p].man, vec)
      BY <1>1, <1>2, <1>7 DEF Undisturbed, Replacing
  <2>2. Marked' /\ \A n \in Notes : semantic' => Held(n, manifest, vec)'
      BY <1>1, <2>1 DEF Marked, SameModel, Held
  <2>3. Building(job[p])' /\ AddingOne(job[p])'
      BY <1>3 DEF Building, AddingOne
  <2>4. job[p].op \in {"build", "generated", "edited"} /\ semantic' => print' = alias'
      BY <1>1, <2>1 DEF Undisturbed
  <2> QED
      BY <1>3, <1>7, <2>2, <2>3, <2>4 DEF Undisturbed
<1>8. ASSUME calm', job[p].op = "force" PROVE Undisturbed(job[p])'
  <2>1. clean /\ Rebuilding(p)
      BY <1>1, <1>2, <1>8
  <2>2. semantic => /\ SameModel(alias) /\ print = alias
                    /\ \A n \in Notes : Held(n, job[p].man, vec)
      BY <1>1, <2>1 DEF Rebuilding
  <2>3. alias # "none"
      BY <1>2, IndexAssumption DEF IndexTypes
  <2>4. Marked' /\ \A n \in Notes : semantic' => Held(n, manifest, vec)'
      BY <1>1, <2>2, <2>3 DEF Marked, SameModel, Held
  <2> QED
      BY <1>1, <1>3, <1>8, <2>1, <2>4 DEF Undisturbed
<1>9. Rebuilding(p)'
    BY <1>3 DEF Rebuilding
<1>10. ASSUME listed' PROVE Findable(job[p])'
  <2>1. Findable(job[p]) /\ Listing
      BY <1>1, <1>2, <1>10 DEF Findable
  <2>2. ASSUME job[p].op = "generated"
        PROVE  /\ Chunked(job[p].note, manifest)'
               /\ \A n \in Notes \ {job[p].note} : Held(n, manifest, lex)'
    <3>1. /\ Chunked(job[p].note, job[p].man)
          /\ \A n \in Notes \ {job[p].note} : Held(n, job[p].man, lex)
        BY <1>1, <2>1, <2>2 DEF Findable
    <3> QED
        BY <1>1, <1>3, <3>1 DEF Chunked, Held, HasChunks
  <2> QED
      BY <1>3, <2>2 DEF Findable
<1>11. calm' \/ listed' \/ clean' => calm \/ listed \/ clean
    BY <1>1
<1> QED
    BY <1>1, <1>2, <1>3, <1>6, <1>7, <1>8, <1>9, <1>10, <1>11, OneWorks

\* After bm25.json a command stamps the fingerprint, or is done.
LEMMA AfterLexFacts ==
    ASSUME IndexTypes, NEW p \in Procs, job[p].pc = "lex", AfterLex(p), clock' = clock
    PROVE  /\ Moves(p) /\ Shaped(job[p])'
           /\ IF semantic /\ job[p].op \in {"build", "generated"}
              THEN job'[p].pc = "stamp" /\ job'[p].op = job[p].op
              ELSE job'[p] = Idle
<1>1. job[p] \in JobType /\ Shaped(job[p])
    BY DEF IndexTypes
<1>2. CASE semantic /\ job[p].op \in {"build", "generated"}
  <2>1. /\ Moves(p) /\ job'[p].pc = "stamp" /\ job'[p].op = job[p].op
        /\ job'[p].man = job[p].man /\ job'[p].scan = job[p].scan
        /\ job'[p].got = job[p].got
      BY <1>2, ContinueFacts DEF AfterLex, IndexTypes, Places
  <2>2. Shaped(job[p])'
      BY <1>1, <1>2, <2>1 DEF Shaped
  <2> QED
      BY <1>2, <2>1, <2>2
<1>3. CASE ~(semantic /\ job[p].op \in {"build", "generated"})
  <2>1. Moves(p) /\ job'[p] = Idle
      BY <1>3, FinishFacts DEF AfterLex, IndexTypes
  <2>2. Shaped(job[p])'
      BY <2>1, IdleFacts, IndexAssumption DEF IndexTypes, Shaped, Stamp
  <2> QED
      BY <1>3, <2>1, <2>2
<1> QED
    BY <1>2, <1>3

\* The command after its last store: of the vectors nothing changed.
LEMMA AfterLexKeeps ==
    ASSUME IndexInv, NEW p \in Procs, job[p].pc = "lex", AfterLex(p), IndexTypes',
           UNCHANGED <<disk, short, clock, semantic, alias, vec, by, print, manifest>>,
           calm' => calm, clean' = clean,
           listed' => Listing' /\ (listed \/ Active = {p})
    PROVE  IndexInv'
<1>1. /\ IndexTypes /\ Shaped(job[p]) /\ job[p].op # "none"
      /\ calm => Undisturbed(job[p])
      /\ calm \/ listed \/ clean => \A q \in Procs \ {p} : job[q].op = "none"
    BY WorkFacts
<1>2. /\ Moves(p)
      /\ IF semantic /\ job[p].op \in {"build", "generated"}
         THEN job'[p].pc = "stamp" /\ job'[p].op = job[p].op
         ELSE job'[p] = Idle
    BY <1>1, AfterLexFacts
<1>3. ASSUME calm'
      PROVE  /\ Resting'
             /\ job[p].op \in {"build", "generated"} /\ semantic' => print' = alias'
  <2>1. /\ Undisturbed(job[p]) /\ Marked
        /\ \A n \in Notes : semantic => Held(n, manifest, vec)
      BY <1>1, <1>3 DEF Undisturbed, Replacing, Loose
  <2>2. Marked' /\ \A n \in Notes : semantic' => Held(n, manifest, vec)'
      BY <2>1 DEF Marked, SameModel, Held
  <2> QED
      BY <2>1, <2>2 DEF Resting, Undisturbed
<1>4. listed' => \A q \in Procs \ {p} : job[q].op = "none"
    BY <1>1 DEF Active
<1>5. CASE semantic /\ job[p].op \in {"build", "generated"}
  <2>1. job'[p].pc = "stamp" /\ job'[p].op \in {"build", "generated"}
      BY <1>2, <1>5
  <2>2. Building(job[p])' /\ AddingOne(job[p])'
      BY <2>1 DEF Building, AddingOne
  <2>3. calm' => Undisturbed(job[p])'
      BY <1>2, <1>3, <1>5, <2>1, <2>2 DEF Undisturbed, Resting
  <2>4. listed' => Findable(job[p])'
      BY <2>1 DEF Findable
  <2>5. job'[p].op # "force"
      BY <2>1
  <2> QED
      BY <1>1, <1>2, <1>4, <2>3, <2>4, <2>5, OneWorks
<1>6. CASE ~(semantic /\ job[p].op \in {"build", "generated"})
  <2>1. job'[p] = Idle
      BY <1>2, <1>6
  <2>2. /\ calm' => Undisturbed(job[p])'
        /\ listed' => Findable(job[p])'
        /\ job'[p].op # "force"
      BY <1>3, <2>1, DoneFacts
  <2> QED
      BY <1>1, <1>2, <1>4, <2>2, OneWorks
<1> QED
    BY <1>5, <1>6

\* bm25.json is written anew.
LEMMA RebuildsLexKeeps ==
    ASSUME IndexInv, NEW p \in Procs, RebuildsLex(p)
    PROVE  IndexInv'
<1>1. /\ job[p].pc = "lex" /\ lex' = Rewritten
      /\ listed' = (~NoChunkLeft /\ Active = {p})
      /\ AfterLex(p)
      /\ UNCHANGED <<disk, short, clock, semantic, alias, vec, by, print, temp, owner,
                     manifest, luck, calm, clean>>
    BY DEF RebuildsLex, diskVars, vecVars, tempVars
<1>2. IndexTypes
    BY DEF IndexInv
<1>3. Moves(p) /\ Shaped(job[p])'
    BY <1>1, <1>2, AfterLexFacts
<1>4. lex' \in [Notes -> Stamp] /\ listed' \in BOOLEAN
  <2>1. lex' \in [Notes -> Stamp]
      BY <1>1, <1>2 DEF IndexTypes, Rewritten
  <2>2. listed' \in BOOLEAN
      BY <1>1
  <2> QED
      BY <2>1, <2>2
<1>5. IndexTypes'
    BY <1>1, <1>2, <1>3, <1>4, ShapesStay DEF IndexTypes, Moves
<1>6. listed' => Listing'
    BY <1>1 DEF Listing, Held, Rewritten
<1> QED
    BY <1>1, <1>5, <1>6, AfterLexKeeps

\* bm25.json gets the chunks of one note.
LEMMA AppendsLexKeeps ==
    ASSUME IndexInv, NEW p \in Procs, AppendsLex(p)
    PROVE  IndexInv'
<1>0. PICK n \in Notes : n = job[p].note
  <2>1. job[p].pc = "lex" /\ job[p].op = "generated"
      BY DEF AppendsLex
  <2> QED
      BY <2>1, WorkFacts DEF Shaped
<1>1. /\ job[p].pc = "lex" /\ job[p].op = "generated" /\ lex' = Appended(n) /\ AfterLex(p)
      /\ UNCHANGED <<disk, short, clock, semantic, alias, vec, by, print, temp, owner,
                     manifest, luck, calm, listed, clean>>
    BY <1>0 DEF AppendsLex, diskVars, vecVars, tempVars, historyVars
<1>2. IndexTypes /\ (listed => Findable(job[p]))
    BY <1>1, WorkFacts
<1>3. Moves(p) /\ Shaped(job[p])'
    BY <1>1, <1>2, AfterLexFacts
<1>4. /\ lex' \in [Notes -> Stamp] /\ \A m \in Notes \ {n} : lex'[m] = lex[m]
      /\ HasChunks(disk[n]) => lex'[n] = disk[n]
    BY <1>1, <1>2 DEF IndexTypes, Appended
<1>5. IndexTypes'
    BY <1>1, <1>2, <1>3, <1>4, ShapesStay DEF IndexTypes, Moves
<1>6. ASSUME listed' PROVE Listing'
  <2>1. Chunked(n, manifest) /\ \A m \in Notes \ {n} : Held(m, manifest, lex)
      BY <1>0, <1>1, <1>2, <1>6 DEF Findable
  <2> QED
      BY <1>1, <1>4, <2>1 DEF Chunked, Listing, Held
<1> QED
    BY <1>1, <1>5, <1>6, AfterLexKeeps

\* bm25.json is not written.
LEMMA LexFailsKeeps ==
    ASSUME IndexInv, NEW p \in Procs, LexFails(p)
    PROVE  IndexInv'
<1>1. /\ job[p].pc = "lex" /\ Fails(FALSE, TRUE) /\ AfterLex(p)
      /\ UNCHANGED <<disk, short, clock, semantic, alias, vec, by, print, temp, owner,
                     manifest, lex, clean>>
    BY DEF LexFails, diskVars, vecVars, tempVars
<1>2. IndexTypes
    BY DEF IndexInv
<1>3. Moves(p) /\ Shaped(job[p])'
    BY <1>1, <1>2, AfterLexFacts
<1>4. /\ luck' \in 0 .. Mishaps /\ calm' \in BOOLEAN /\ listed' \in BOOLEAN
      /\ (calm' => calm) /\ ~listed'
    BY <1>1, <1>2, FailTypes
<1>5. IndexTypes'
    BY <1>1, <1>2, <1>3, <1>4, ShapesStay DEF IndexTypes, Moves
<1> QED
    BY <1>1, <1>4, <1>5, AfterLexKeeps

\* The fingerprint is there already when there are vectors.
LEMMA StampsKeeps ==
    ASSUME IndexInv, NEW p \in Procs, StampsIfMissing(p)
    PROVE  IndexInv'
<1>1. /\ job[p].pc = "stamp" /\ Finish(p)
      /\ print' = IF print = "none" /\ \E n \in Notes : vec[n] # 0 THEN alias ELSE print
      /\ UNCHANGED <<disk, short, clock, semantic, alias, vec, by, temp, owner, manifest,
                     lex, luck, calm, listed, clean>>
    BY DEF StampsIfMissing, diskVars, tempVars, historyVars
<1>2. /\ IndexTypes /\ job[p] \in JobType /\ Shaped(job[p]) /\ job[p].op # "none"
      /\ job[p].op \in {"build", "generated"}
      /\ calm => Undisturbed(job[p])
      /\ listed => Findable(job[p])
      /\ calm \/ listed \/ clean => \A q \in Procs \ {p} : job[q].op = "none"
    BY <1>1, WorkFacts DEF Shaped
<1>3. Moves(p) /\ job'[p] = Idle
    BY <1>1, <1>2, FinishFacts DEF IndexTypes
<1>4. Shaped(job[p])'
    BY <1>1, <1>2, <1>3, IdleFacts, IndexAssumption DEF IndexTypes, Shaped, Stamp
<1>5. print' \in Aliases \cup {"none"}
    BY <1>1, <1>2 DEF IndexTypes
<1>6. IndexTypes'
    BY <1>1, <1>2, <1>3, <1>4, <1>5, ShapesStay DEF IndexTypes, Moves
<1>7. ASSUME calm' PROVE Resting'
  <2>1. Marked /\ \A n \in Notes : semantic => Held(n, manifest, vec)
      BY <1>1, <1>2, <1>7 DEF Undisturbed, Replacing, Loose
  <2>2. Marked'
      BY <1>1, <2>1 DEF Marked, SameModel
  <2>3. \A n \in Notes : semantic' => Held(n, manifest, vec)'
      BY <1>1, <2>1 DEF Held
  <2> QED
      BY <2>2, <2>3 DEF Resting
<1>8. listed' => Listing'
    BY <1>1, <1>2 DEF Findable, Listing, Held
<1>9. /\ calm' => Undisturbed(job[p])'
      /\ listed' => Findable(job[p])'
      /\ job'[p].op # "force"
    BY <1>3, <1>7, <1>8, DoneFacts
<1> QED
    BY <1>1, <1>2, <1>3, <1>6, <1>9, OneWorks

\* A command is killed.
LEMMA KilledKeeps ==
    ASSUME IndexInv, NEW p \in Procs, Killed(p)
    PROVE  IndexInv'
<1> DEFINE v == HalfVectors(job[p])
           w == job[p].pc = "lex"
<1>1. /\ job[p].op # "none" /\ Finish(p) /\ Fails(v, w) /\ clean' = FALSE
      /\ UNCHANGED <<disk, short, clock, semantic, alias, vec, by, print, temp, owner,
                     manifest, lex>>
    BY DEF Killed, diskVars, vecVars, tempVars
<1>2. /\ IndexTypes /\ Shaped(job[p]) /\ job[p].op \in Ops
      /\ calm => Undisturbed(job[p])
      /\ listed => Findable(job[p])
      /\ calm \/ listed \/ clean => \A q \in Procs \ {p} : job[q].op = "none"
  <2>1. job[p].pc # "idle"
      BY <1>1 DEF IndexInv, IndexTypes, Shaped
  <2> QED
      BY <2>1, WorkFacts DEF JobType
<1>3. Moves(p) /\ job'[p] = Idle
    BY <1>1, <1>2, FinishFacts DEF IndexTypes
<1>4. Shaped(job[p])'
    BY <1>1, <1>2, <1>3, IdleFacts, IndexAssumption DEF IndexTypes, Shaped, Stamp
<1>5. /\ luck' \in 0 .. Mishaps /\ calm' \in BOOLEAN /\ listed' \in BOOLEAN
      /\ (calm' => calm /\ ~v) /\ (listed' => listed /\ ~w)
  <2>1. v \in BOOLEAN /\ w \in BOOLEAN
      BY DEF HalfVectors
  <2> HIDE DEF v, w
  <2> QED
      BY <1>1, <1>2, <2>1, FailTypes
<1>6. IndexTypes'
    BY <1>1, <1>2, <1>3, <1>4, <1>5, ShapesStay DEF IndexTypes, Moves
<1>7. ASSUME calm' PROVE Resting'
  <2>1. Undisturbed(job[p]) /\ ~HalfVectors(job[p])
      BY <1>2, <1>5, <1>7
  <2>2. ~Replacing(job[p]) /\ Marked
      BY <2>1 DEF Undisturbed, Replacing, HalfVectors
  <2>3. ASSUME NEW n \in Notes, semantic PROVE Held(n, manifest, vec)
    <3>1. CASE Loose(n, job[p])
      <4>1. manifest[n] # job[p].got /\ disk[n] \in {job[p].got, 0}
          BY <2>1, <2>3, <3>1 DEF Loose, HalfVectors, Undisturbed, AddingOne
      <4> QED
          BY <4>1 DEF Held
    <3>2. CASE ~Loose(n, job[p])
        BY <2>1, <2>2, <2>3, <3>2 DEF Undisturbed
    <3> QED
        BY <3>1, <3>2
  <2>4. Marked' /\ \A n \in Notes : semantic' => Held(n, manifest, vec)'
      BY <1>1, <2>2, <2>3 DEF Marked, SameModel, Held
  <2> QED
      BY <2>4 DEF Resting
<1>8. listed' => Listing'
    BY <1>1, <1>2, <1>5 DEF Findable, Listing, Held
<1>9. /\ calm' => Undisturbed(job[p])'
      /\ listed' => Findable(job[p])'
      /\ job'[p].op # "force"
    BY <1>3, <1>7, <1>8, DoneFacts
<1>10. ~clean'
    BY <1>1
<1> QED
    BY <1>2, <1>3, <1>5, <1>6, <1>9, <1>10, OneWorks

-----------------------------------------------------------------------------
(* Every step *)

\* An empty index, without semantic search, is up to date.
LEMMA IndexInvInit == IndexInit => IndexInv
<1> SUFFICES ASSUME IndexInit PROVE IndexInv
    OBVIOUS
<1>1. /\ disk = Nothing /\ vec = Nothing /\ temp = Nothing
      /\ manifest = Nothing /\ lex = Nothing
      /\ short = {} /\ clock = 0 /\ semantic \in BOOLEAN /\ alias \in Aliases
      /\ by = [n \in Notes |-> "none"] /\ print = "none" /\ owner = "none"
      /\ job = [p \in Procs |-> Idle]
      /\ luck = Mishaps /\ calm = ~semantic /\ listed = TRUE /\ clean = FALSE
    BY DEF IndexInit
<1>2. \A p \in Procs : job[p] = Idle /\ job[p].op = "none"
    BY <1>1, IdleFacts
<1>3. \A p \in Procs : Shaped(job[p])
    BY <1>1, <1>2, IdleFacts, IndexAssumption DEF Shaped
<1>4. clock \in Stamp /\ luck \in 0 .. Mishaps
    BY <1>1, IndexAssumption DEF Stamp
<1>5. calm \in BOOLEAN
    BY <1>1
<1>6. \A n \in Notes : manifest[n] <= clock /\ disk[n] <= clock
    BY <1>1, IdleFacts, IndexAssumption
<1>7. job \in [Procs -> JobType]
    BY <1>1, IdleFacts
<1>8. IndexTypes
    BY <1>1, <1>3, <1>4, <1>5, <1>6, <1>7, IdleFacts DEF IndexTypes
<1>9. (calm => Resting) /\ Listing
  <2>1. ASSUME calm PROVE ~semantic
      BY <1>1, <2>1
  <2>2. Listing
      BY <1>1, IdleFacts DEF Listing, Held
  <2> QED
      BY <2>1, <2>2 DEF Resting, Marked
<1>10. Alone /\ CleanOk
    BY <1>1, <1>2 DEF Alone, CleanOk
<1>11. CalmOk /\ ListedOk
    BY <1>2, <1>9 DEF CalmOk, ListedOk, Active
<1> QED
    BY <1>8, <1>10, <1>11 DEF IndexInv

\* A step of a command that is at work.
LEMMA CommandKeeps ==
    ASSUME IndexInv, NEW p \in Procs, CommandStep(p)
    PROVE  IndexInv'
<1>1. ASSUME NEW n \in Notes, NoChunks(p, n) \/ ReadsNote(p, n) \/ ReadsOnly(p, n)
      PROVE  IndexInv'
    BY <1>1, NoChunksKeeps, ReadsNoteKeeps, ReadsOnlyKeeps
<1>2. ASSUME NEW kept \in SUBSET Notes, Prunes(p, kept) PROVE IndexInv'
    BY <1>2, PrunesKeeps
<1>3. CASE Embedded(p) \/ FilesDone(p)
    BY <1>3, EmbeddedKeeps, FilesDoneKeeps
<1>4. CASE DeletesLive(p) \/ RenamesTemp(p) \/ WritesPrint(p)
    BY <1>4, DeletesLiveKeeps, RenamesTempKeeps, WritesPrintKeeps
<1>5. CASE LoadsManifest(p) \/ SavesManifest(p)
    BY <1>5, LoadsManifestKeeps, SavesManifestKeeps
<1>6. CASE RebuildsLex(p) \/ AppendsLex(p) \/ LexFails(p) \/ StampsIfMissing(p)
    BY <1>6, RebuildsLexKeeps, AppendsLexKeeps, LexFailsKeeps, StampsKeeps
<1> QED
    BY <1>1, <1>2, <1>3, <1>4, <1>5, <1>6 DEF CommandStep

\* Every step of every command keeps the invariant.
LEMMA IndexInvNext == IndexInv /\ [IndexNext]_indexVars => IndexInv'
<1> SUFFICES ASSUME IndexInv, [IndexNext]_indexVars PROVE IndexInv'
    OBVIOUS
<1>1. ASSUME NEW n \in Notes, NEW tooShort \in BOOLEAN, WriteNote(n, tooShort) PROVE IndexInv'
    BY <1>1, WriteKeeps
<1>2. ASSUME NEW n \in Notes, DeleteNote(n) PROVE IndexInv'
    BY <1>2, DeletionKeeps
<1>3. CASE SwitchModel \/ DisableSemantic
    BY <1>3, SwitchKeeps, DisableKeeps
<1>4. ASSUME NEW p \in Procs, StartBuild(p) PROVE IndexInv'
    BY <1>4, BuildBegins
<1>5. ASSUME NEW p \in Procs, NEW enable \in BOOLEAN, StartForce(p, enable) PROVE IndexInv'
    BY <1>5, ForceBegins
<1>6. ASSUME NEW p \in Procs, NEW n \in Notes, NEW op \in {"generated", "edited"},
             StartAdd(p, n, op)
      PROVE  IndexInv'
    BY <1>6, AddBegins
<1>7. ASSUME NEW p \in Procs, NEW n \in Notes, NEW fails \in BOOLEAN, StartRemove(p, n, fails)
      PROVE  IndexInv'
    BY <1>7, RemoveBegins
<1>8. ASSUME NEW p \in Procs, CommandStep(p) \/ EmbedFails(p) \/ Killed(p) PROVE IndexInv'
    BY <1>8, CommandKeeps, EmbedFailsKeeps, KilledKeeps
<1>9. CASE UNCHANGED indexVars
  <2>1. UNCHANGED <<disk, short, clock, semantic, alias, vec, by, print, temp, owner,
                    manifest, lex, job, luck, calm, listed, clean>>
      BY <1>9 DEF indexVars, diskVars, vecVars, tempVars, historyVars
  <2>2. IndexTypes'
      BY <2>1 DEF IndexInv, IndexTypes, Shaped
  <2>3. Alone'
      BY <2>1 DEF IndexInv, Alone
  <2>4. CalmOk'
    <3>1. \A p \in Procs : Undisturbed(job[p]) => Undisturbed(job[p])'
        BY <2>1 DEF Undisturbed, Replacing, Loose, Marked, SameModel, Building, AddingOne,
           Held, Due
    <3>2. Resting => Resting'
        BY <2>1 DEF Resting, Marked, SameModel, Held
    <3> QED
        BY <2>1, <3>1, <3>2 DEF IndexInv, CalmOk, Active
  <2>5. ListedOk'
    <3>1. \A p \in Procs : Findable(job[p]) => Findable(job[p])'
        BY <2>1 DEF Findable, Listing, Held, Chunked, HasChunks
    <3>2. Listing => Listing'
        BY <2>1 DEF Listing, Held
    <3> QED
        BY <2>1, <3>1, <3>2 DEF IndexInv, ListedOk, Active
  <2>6. CleanOk'
    <3>1. \A p \in Procs : Rebuilding(p) => Rebuilding(p)'
        BY <2>1 DEF Rebuilding, SameModel, Held
    <3> QED
        BY <2>1, <3>1 DEF IndexInv, CleanOk
  <2> QED
      BY <2>2, <2>3, <2>4, <2>5, <2>6 DEF IndexInv
<1> QED
    BY <1>1, <1>2, <1>3, <1>4, <1>5, <1>6, <1>7, <1>8, <1>9 DEF IndexNext

\* The invariant holds of the library.
LEMMA IndexInvHolds == Spec => []IndexInv
<1>1. Init => IndexInv
    BY IndexInvInit DEF Init
<1>2. IndexInv /\ [Next]_vars => IndexInv'
  <2>1. [Next]_vars => [IndexNext]_indexVars
      BY DEF Next, vars, indexVars
  <2> QED
      BY <2>1, IndexInvNext
<1> QED
    BY <1>1, <1>2, PTL DEF Spec

\* What the manifest takes for up to date is indexed as it is on disk, of any number of
\* notes and commands, through kills, failed embeddings and removals, and notes written
\* under a command (notes_chat/index.py, build_index, add_note, remove_note,
\* _force_rebuild): in bm25.json unless two commands met, settings changed under one,
\* a write of bm25.json failed or was cut off, or add_note's note was written in its
\* hands, since it was last rewritten; in the collection since a force rebuild saved
\* its manifest, except for what UpToDateIsIndexed lists.
THEOREM UpToDateStaysIndexed == Spec => []UpToDateIsIndexed
<1>1. IndexInv => UpToDateIsIndexed
    BY DEF IndexInv, CalmOk, ListedOk, Resting, Listing, Held, UpToDateIsIndexed
<1> QED
    BY <1>1, IndexInvHolds, PTL

\* The commands that compare the fingerprint never mix the vectors of two embed models,
\* however often the default is switched between commands and whatever was killed
\* (notes_chat/index.py, _ensure_embed_fingerprint).  Not so an add_note after an edit
\* or in `chirp transcribe`, which does not compare it: calm is FALSE after one under
\* another model, as after everything else UpToDateIsIndexed lists.
THEOREM OneModelStays == Spec => []OneModel
<1>1. IndexInv => OneModel
    BY DEF IndexInv, CalmOk, Resting, Marked, SameModel, OneModel
<1> QED
    BY <1>1, IndexInvHolds, PTL

\* A step that brings a force rebuild on, short of its promotion.
LEMMA ForceTouchesNothing ==
    ASSUME IndexInv, [IndexNext]_indexVars, NEW p \in Procs,
           job'[p].op = "force", job'[p].pc \in {"files", "embed"}, job'[p] # job[p]
    PROVE  UNCHANGED <<vec, manifest, lex>>
<1>1. IndexTypes /\ \A q \in Procs : job[q] \in JobType /\ Shaped(job[q])
    BY DEF IndexInv, IndexTypes
<1>2. job' # job
    OBVIOUS
<1>3. ASSUME NEW n \in Notes, NEW tooShort \in BOOLEAN, WriteNote(n, tooShort) \/ DeleteNote(n)
      PROVE  FALSE
    BY <1>2, <1>3 DEF WriteNote, DeleteNote
<1>4. CASE SwitchModel \/ DisableSemantic \/ UNCHANGED indexVars
    BY <1>2, <1>4 DEF SwitchModel, DisableSemantic, indexVars
<1>5. ASSUME NEW q \in Procs, NEW enable \in BOOLEAN,
             \/ StartForce(q, enable) \/ StartBuild(q) \/ EmbedFails(q) \/ Killed(q)
             \/ FilesDone(q) \/ LoadsManifest(q)
      PROVE  UNCHANGED <<vec, manifest, lex>>
    BY <1>5 DEF StartForce, StartBuild, EmbedFails, Killed, FilesDone, LoadsManifest, vecVars
<1>6. ASSUME NEW q \in Procs, NEW n \in Notes, NEW op \in {"generated", "edited"},
             NoChunks(q, n) \/ StartAdd(q, n, op)
      PROVE  UNCHANGED <<vec, manifest, lex>>
    BY <1>6 DEF NoChunks, StartAdd, vecVars
<1>7. ASSUME NEW q \in Procs, Moves(q),
             job'[q].op # "force" \/ job'[q].pc \notin {"files", "embed"}
      PROVE  FALSE
    BY <1>7 DEF Moves
<1>8. ASSUME NEW q \in Procs, NEW n \in Notes, NEW fails \in BOOLEAN, StartRemove(q, n, fails)
      PROVE  FALSE
  <2> DEFINE new == [Idle EXCEPT !.op = "remove", !.note = n]
  <2>1. Start(q, "load", new)
      BY <1>8 DEF StartRemove
  <2>2. new \in JobType
      BY IdleFacts DEF JobType, Ops
  <2> HIDE DEF new
  <2>3. Moves(q) /\ job'[q].pc = "load"
      BY <1>1, <2>1, <2>2, StartFacts DEF IndexTypes, Places
  <2> QED
      BY <1>7, <2>3
<1>9. ASSUME NEW q \in Procs, NEW n \in Notes, ReadsNote(q, n) \/ ReadsOnly(q, n)
      PROVE  UNCHANGED <<vec, manifest, lex>>
  <2>1. CASE job[q].op = "force"
      BY <1>9, <2>1 DEF ReadsNote, ReadsOnly
  <2>2. CASE job[q].op # "force"
    <3>1. Takes(q, n) /\ clock' = clock
        BY <1>9 DEF ReadsNote, ReadsOnly, diskVars
    <3>2. Moves(q) /\ job'[q].op = job[q].op
        BY <1>1, <3>1, TakesFacts
    <3> QED
        BY <1>7, <2>2, <3>2
  <2> QED
      BY <2>1, <2>2
<1>10. ASSUME NEW q \in Procs, NEW kept \in SUBSET Notes, Prunes(q, kept) PROVE FALSE
  <2>1. job[q].pc = "prune" /\ job[q].op = "build"
      BY <1>1, <1>10 DEF Prunes, Shaped
  <2> DEFINE gone == {m \in Notes : job[q].man[m] # 0 /\ job[q].scan[m] = 0}
             man == [n \in Notes |-> IF n \in gone THEN 0 ELSE job[q].man[n]]
  <2>2. job' = [job EXCEPT ![q].pc = "files", ![q].man = man]
      BY <1>10 DEF Prunes
  <2>3. man \in [Notes -> Stamp]
      BY <1>1, IdleFacts DEF JobType
  <2> HIDE DEF man
  <2>4. Moves(q) /\ job'[q].op = "build"
      BY <1>1, <2>1, <2>2, <2>3 DEF IndexTypes, JobType, Moves, Places
  <2> QED
      BY <1>7, <2>4
<1>11. ASSUME NEW q \in Procs, Embedded(q) PROVE UNCHANGED <<vec, manifest, lex>>
  <2>1. CASE job[q].op = "force"
      BY <1>11, <2>1 DEF Embedded
  <2>2. CASE job[q].op # "force"
    <3>1. job[q].pc = "embed" /\ Indexed(q, TRUE) /\ clock' = clock
        BY <1>11, <2>2 DEF Embedded, diskVars
    <3>2. Moves(q) /\ job'[q].op = job[q].op
        BY <1>1, <3>1, IndexedFacts
    <3> QED
        BY <1>7, <2>2, <3>2
  <2> QED
      BY <2>1, <2>2
<1>12. ASSUME NEW q \in Procs, NEW pc \in Places, Continue(q, pc), pc \notin {"files", "embed"}
       PROVE  FALSE
  <2>1. Moves(q) /\ job'[q].pc = pc
      BY <1>1, <1>12, ContinueFacts DEF IndexTypes
  <2> QED
      BY <1>7, <1>12, <2>1
<1>13. ASSUME NEW q \in Procs, Finish(q) PROVE FALSE
  <2>1. Moves(q) /\ job'[q].op = "none"
      BY <1>1, <1>13, FinishFacts, IdleFacts DEF IndexTypes
  <2> QED
      BY <1>7, <2>1
<1>14. ASSUME NEW q \in Procs,
              \/ DeletesLive(q) \/ RenamesTemp(q) \/ WritesPrint(q) \/ SavesManifest(q)
              \/ RebuildsLex(q) \/ AppendsLex(q) \/ LexFails(q) \/ StampsIfMissing(q)
       PROVE  FALSE
  <2>1. \/ Continue(q, "rename") \/ Continue(q, "print") \/ Continue(q, "save")
        \/ Continue(q, "lex") \/ Continue(q, "stamp") \/ Finish(q)
      BY <1>14 DEF DeletesLive, RenamesTemp, WritesPrint, SavesManifest, RebuildsLex,
         AppendsLex, LexFails, StampsIfMissing, AfterLex
  <2> QED
      BY <1>12, <1>13, <2>1 DEF Places
<1> QED
    BY <1>3, <1>4, <1>5, <1>6, <1>8, <1>9, <1>10, <1>11, <1>14 DEF IndexNext, CommandStep

\* A force rebuild touches nothing a question is answered from before its last file is
\* done, of any number of notes and beside any other commands: killed until then, it
\* leaves the prior index (notes_chat/index.py, _force_rebuild).
THEOREM PriorIndexSurvives == Spec => PriorSurvives
<1>1. IndexInv /\ [Next]_vars =>
        [\A p \in Procs :
           job'[p].op = "force" /\ job'[p].pc \in {"files", "embed"} /\ job'[p] # job[p] =>
               UNCHANGED <<vec, manifest, lex>>]_indexVars
  <2>1. [Next]_vars => [IndexNext]_indexVars
      BY DEF Next, vars, indexVars
  <2> QED
      BY <2>1, ForceTouchesNothing
<1> QED
    BY <1>1, IndexInvHolds, PTL DEF Spec, PriorSurvives
=============================================================================
