------------------------- MODULE NotesLibraryProofs -------------------------
(***************************************************************************)
(* For every set of directories, commands and sessions: what the commands  *)
(* that fill a note's directory leave there and report of it (PipeInv),    *)
(* and how new the context of an answer is (FreshInv).                     *)
(*                                                                         *)
(* Two commands that have a directory at hand may do what they like to it, *)
(* it is in `raced` then; of the others PipeInv says, for each place where *)
(* a command can be, what it holds in memory and what the disk holds.      *)
(***************************************************************************)
EXTENDS NoteIndexProofs, Sequences, SequenceTheorems, FiniteSetTheorems,
        WellFoundedInduction, TLAPS

USE LibraryAssumption

-----------------------------------------------------------------------------
(* The notes' directories *)

WorkFields == {"op", "pc", "queue", "had", "note", "meta", "set", "text", "ok", "skipped",
               "failed", "taken", "saving"}
DirFields == {"dir", "audio", "script", "notes", "meta"}
Metas == [tags : BOOLEAN, template : BOOLEAN]

HasText(d) == store[d].script \notin {"none", "empty"}

\* A directory nobody shares has no transcript of part of a recording, and no
\* notes without a transcript; a recording that grows has its recorder.
DirOk(d) ==
    /\ DOMAIN store[d] = DirFields
    /\ store[d].script \in Pipeline!Scripts /\ store[d].meta \in Metas
    /\ d \notin torn => store[d].meta = wish[d]
    /\ ~store[d].dir => store[d] = Pipeline!NoDir
    /\ store[d].script = "part" => d \in raced
    /\ d \notin raced /\ store[d].notes # "none" => HasText(d)
    /\ store[d].audio = "growing" =>
        \E q \in Writers : work[q].pc = "recording" /\ work[q].note = d

\* Where a command is says what it is and which directory it has.
Placed(w) ==
    /\ DOMAIN w = WorkFields
    /\ w.meta \in Metas /\ w.set \in Metas /\ w.text \in Pipeline!Scripts
    /\ w.queue \subseteq Dirs /\ w.taken \subseteq Dirs /\ w.saving \in BOOLEAN
    /\ w.saving => w.pc \in {"read", "merge"} /\ w.op \in {"transcribe", "force"}
    /\ w.pc # "idle" => w.note \in Dirs
    /\ w.pc \in {"load", "whisper", "heard", "index"} => w.op \in {"transcribe", "force"}
    /\ w.pc \in {"load", "whisper", "heard"} => w.note \in w.queue
    /\ w.pc \in {"generate", "llm"} => w.op \in {"transcribe", "force", "regen"}
    /\ w.pc = "confirm" => w.op = "delete"
    /\ w.pc = "editing" => w.op = "edit"
    /\ w.pc = "recording" => w.op = "record"
    /\ w.pc \in {"read", "merge"} => w.op \in {"record", "tag", "transcribe", "force", "regen"}
    /\ w.pc = "next" => w.op \in {"transcribe", "force", "regen"}

\* What a command holds in memory of a directory nobody else had at hand is so.
Current(w) ==
    /\ w.pc = "heard" /\ w.text = "part" => w.note \in raced
    /\ w.pc = "heard" /\ w.note \notin raced => ~HasText(w.note)
    /\ w.pc = "llm" /\ w.note \notin raced =>
        w.text = store[w.note].script /\ w.text \notin {"none", "empty", "short"}
    /\ w.pc = "editing" /\ w.note \notin raced => store[w.note].notes # "none"
    /\ w.pc = "merge" /\ w.note \notin torn => w.meta = wish[w.note]

\* Of the directories a batch has before it, it remembers those that had a transcript.
Queued(w) ==
    w.op \in {"transcribe", "force"} =>
        \A d \in w.queue \ raced :
            (d # w.note \/ w.pc \in {"load", "whisper", "heard"}) /\ HasText(d) => d \in w.had

Done(w) == w.ok \cup w.skipped \cup w.failed

\* What a batch has to report of the directories behind it; the one at hand is behind
\* it as soon as it goes on to the next.
Reported(w) ==
    w.op \in {"transcribe", "force"} =>
        /\ w.pc \in {"read", "merge", "index"} /\ w.note \notin raced =>
            store[w.note].notes = store[w.note].script
        /\ \A d \in w.ok \ raced : store[d].notes = store[d].script
        /\ \A d \in w.skipped \ raced : store[d].script \in {"empty", "short"}
        /\ w.taken = w.queue \cup Done(w)
        /\ w.ok \cap w.skipped = {} /\ w.failed \cap (w.ok \cup w.skipped) = {}
        /\ IF w.pc = "report" THEN w.queue = {} ELSE w.note \in w.queue
        /\ w.queue \cap Done(w) = IF w.pc = "next" THEN {w.note} ELSE {}
        /\ w.ok \cup w.skipped \subseteq Dirs

Fine(w) == Placed(w) /\ Current(w) /\ Queued(w) /\ Reported(w)

PipeInv ==
    /\ DOMAIN store = Dirs /\ DOMAIN work = Writers /\ wish \in [Dirs -> Metas]
    /\ \A d \in Dirs : DirOk(d)
    /\ \A p \in Writers : Fine(work[p])
    /\ \A p, q \in Writers : p # q =>
        Pipeline!AtHand(work[p]) \cap Pipeline!AtHand(work[q]) \subseteq raced

\* A step of one command, at a directory that it has at hand before or after.
LEMMA OneWriter ==
    ASSUME PipeInv, NEW p \in Writers, NEW x, Pipeline!Goes(p, x), NEW e,
           e \in Dirs => e \in Pipeline!AtHand(work[p]) \cup Pipeline!AtHand(x),
           DOMAIN store' = Dirs, wish' \in [Dirs -> Metas],
           \A d \in Dirs \ {e} :
               store'[d] = store[d] /\ wish'[d] = wish[d] /\ (d \in torn' <=> d \in torn),
           Pipeline!Merging(p, e) /\ e \notin torn' => e \notin torn /\ wish'[e] = wish[e],
           work[p].pc = "recording" => store'[work[p].note].audio # "growing",
           e \in Dirs => DirOk(e)', Fine(work[p])'
    PROVE  PipeInv'
<1>1. /\ DOMAIN work' = Writers /\ work'[p] = x /\ \A q \in Writers \ {p} : work'[q] = work[q]
      /\ raced \subseteq raced'
    BY DEF PipeInv, Pipeline!Goes
<1>2. ASSUME NEW q \in Writers \ {p},
             NEW d \in Pipeline!AtHand(x) \cap Pipeline!AtHand(work[q])
      PROVE  d \in raced'
    BY DEF Pipeline!Goes
<1>3. ASSUME NEW q \in Writers \ {p}, NEW d \in Dirs, d \in Pipeline!AtHand(work[q]),
             d \notin raced'
      PROVE  store'[d] = store[d]
    BY <1>1, <1>2, <1>3 DEF PipeInv
<1>4. \A q, r \in Writers : q # r =>
        Pipeline!AtHand(work'[q]) \cap Pipeline!AtHand(work'[r]) \subseteq raced'
    BY <1>1, <1>2 DEF PipeInv
<1>5. ASSUME NEW d \in Dirs \ {e} PROVE DirOk(d)'
  <2>1. DirOk(d) /\ store'[d] = store[d] /\ wish'[d] = wish[d] /\ (d \in torn' <=> d \in torn)
      BY DEF PipeInv
  <2>2. store[d].audio = "growing"
          => \E q \in Writers : work'[q].pc = "recording" /\ work'[q].note = d
      BY <1>1, <2>1 DEF DirOk
  <2> QED
      BY <1>1, <2>1, <2>2 DEF DirOk, HasText
<1>6. ASSUME NEW q \in Writers \ {p} PROVE Fine(work[q])'
  <2>1. Fine(work[q]) /\ work'[q] = work[q]
      BY <1>1 DEF PipeInv
  <2>2. Placed(work[q])'
      BY <2>1 DEF Fine, Placed
  <2>3. work[q].note \in Dirs => work[q].note \in Pipeline!AtHand(work[q])
      BY DEF Pipeline!AtHand
  <2>4. work[q].pc # "idle" =>
          /\ work[q].note \in Dirs
          /\ work[q].note \notin raced' => store'[work[q].note] = store[work[q].note]
      BY <1>3, <2>1, <2>3 DEF Fine, Placed
  <2>5. ASSUME work[q].pc = "merge", work[q].note \notin torn'
        PROVE  work[q].meta = wish'[work[q].note]
    <3>1. Pipeline!Merging(p, work[q].note)
        BY <2>5 DEF Pipeline!Merging, Pipeline!At
    <3>2. work[q].note \notin torn /\ wish'[work[q].note] = wish[work[q].note]
        BY <2>4, <2>5, <3>1
    <3> QED
        BY <2>1, <2>5, <3>2 DEF Fine, Current
  <2>6. Current(work[q])'
      BY <1>1, <2>1, <2>4, <2>5 DEF Fine, Current, HasText
  <2>7. work[q].queue \cup work[q].ok \cup work[q].skipped \subseteq Pipeline!AtHand(work[q])
      BY DEF Pipeline!AtHand
  <2>8. \A d \in (work[q].queue \cup {work[q].note}) \ raced' :
      d \in Dirs => d \notin raced /\ store'[d] = store[d]
      BY <1>1, <1>3, <2>3, <2>7
  <2>9. Queued(work[q])'
      BY <2>1, <2>8 DEF Fine, Placed, Queued, HasText
  <2>10. work[q].op \in {"transcribe", "force"} =>
          \A d \in (work[q].ok \cup work[q].skipped) \ raced' :
              d \notin raced /\ store'[d] = store[d]
    <3>1. ASSUME work[q].op \in {"transcribe", "force"},
                 NEW d \in (work[q].ok \cup work[q].skipped) \ raced'
          PROVE  d \notin raced /\ store'[d] = store[d]
      <4>1. d \notin raced /\ d \in Pipeline!AtHand(work[q])
          BY <1>1, <2>7
      <4>2. d \in Dirs
          BY <2>1, <3>1, <4>1 DEF Fine, Reported, Done
      <4> QED
          BY <1>3, <4>1, <4>2
    <3> QED
        BY <3>1
  <2>11. Reported(work[q])'
      BY <1>1, <2>1, <2>4, <2>10 DEF Fine, Reported, Done
  <2> QED
      BY <2>2, <2>6, <2>9, <2>11 DEF Fine
<1> QED
    BY <1>1, <1>4, <1>5, <1>6 DEF PipeInv, Pipeline!AtHand

\* A step that leaves the directories as they are.
LEMMA MovesOn ==
    ASSUME PipeInv, NEW p \in Writers, NEW x, Pipeline!Goes(p, x),
           UNCHANGED <<store, wish, torn>>, work[p].pc # "recording", Fine(work[p])'
    PROVE  PipeInv'
<1>1. 0 \notin Dirs /\ DOMAIN store = Dirs /\ wish \in [Dirs -> Metas]
    BY DEF PipeInv
<1> QED
    BY <1>1, OneWriter

\* What a step of a command does to its own record.
LEMMA GoesFacts ==
    ASSUME PipeInv, NEW p \in Writers, NEW x, Pipeline!Goes(p, x)
    PROVE  work'[p] = x /\ raced \subseteq raced' /\ Fine(work[p])
BY DEF PipeInv, Pipeline!Goes

\* A command that has ended holds nothing.
LEMMA RestFine == Fine(Pipeline!AtRest)
BY DEF Fine, Placed, Current, Queued, Reported, Done, Pipeline!AtRest, Pipeline!Plain, WorkFields,
       Metas, Pipeline!Scripts

\* A command ends and leaves the directories as they are.
LEMMA Rests ==
    ASSUME PipeInv, NEW p \in Writers, Pipeline!Goes(p, Pipeline!AtRest),
           UNCHANGED <<store, wish, torn>>, work[p].pc # "recording"
    PROVE  PipeInv'
<1>1. Fine(Pipeline!AtRest)'
    BY DEF Fine, Placed, Current, Queued, Reported, Done, Pipeline!AtRest, Pipeline!Plain,
       WorkFields, Metas, Pipeline!Scripts
<1> QED
    BY <1>1, GoesFacts, MovesOn

\* The note at hand is given up, the batch goes on.
LEMMA FailsKeeps ==
    ASSUME PipeInv, NEW p \in Writers, Pipeline!Fails(p), UNCHANGED <<store, wish, torn>>,
           \/ work[p].pc \in {"load", "whisper", "heard", "generate", "llm", "index"}
           \/ work[p].pc = "merge" /\ Pipeline!Batch(p)
    PROVE  PipeInv'
<1> DEFINE w == work[p]
           x == [w EXCEPT !.pc = "next", !.failed = @ \cup {w.note}, !.saving = FALSE]
<1>1. Pipeline!Goes(p, x)
    BY DEF Pipeline!Fails
<1>2. work'[p] = x /\ raced \subseteq raced' /\ Fine(w)
    BY <1>1, GoesFacts
<1>3. /\ DOMAIN x = WorkFields /\ x.pc = "next" /\ x.failed = w.failed \cup {w.note}
      /\ x.op = w.op /\ x.queue = w.queue /\ x.had = w.had /\ x.note = w.note
      /\ x.meta = w.meta /\ x.set = w.set /\ x.text = w.text /\ x.ok = w.ok
      /\ x.skipped = w.skipped /\ x.taken = w.taken /\ x.saving = FALSE
    BY <1>2 DEF Fine, Placed, WorkFields
<1> HIDE DEF x
<1>4. Placed(work[p])' /\ Current(work[p])'
    BY <1>2, <1>3 DEF Fine, Placed, Current, Pipeline!Batch
<1>5. Queued(work[p])'
    BY <1>2, <1>3 DEF Fine, Placed, Queued, HasText
<1>6. Reported(work[p])'
    BY <1>2, <1>3 DEF Fine, Placed, Reported, Done
<1> QED
    BY <1>1, <1>4, <1>5, <1>6, MovesOn DEF Fine

\* The audio is there.
LEMMA WhisperKeeps ==
    ASSUME PipeInv, NEW p \in Writers, Pipeline!LoadsAudio(p), work[p].pc = "load",
           store[work[p].note].audio # "none"
    PROVE  PipeInv'
<1> DEFINE w == work[p]
           x == [w EXCEPT !.pc = "whisper"]
<1>1. Pipeline!Goes(p, x) /\ UNCHANGED <<store, wish, torn>> /\ w.pc # "recording"
    BY DEF Pipeline!LoadsAudio, Pipeline!To, Pipeline!At
<1>2. work'[p] = x /\ raced \subseteq raced' /\ Fine(w)
    BY <1>1, GoesFacts
<1>3. /\ DOMAIN x = WorkFields /\ x.op = w.op /\ x.pc = "whisper" /\ x.queue = w.queue
      /\ x.had = w.had /\ x.note = w.note /\ x.meta = w.meta /\ x.set = w.set
      /\ x.text = w.text /\ x.ok = w.ok /\ x.skipped = w.skipped
      /\ x.failed = w.failed /\ x.taken = w.taken /\ x.saving = w.saving
    BY <1>2 DEF Fine, Placed, WorkFields
<1>4. w.pc = "load"
    OBVIOUS
<1> HIDE DEF x
<1>5. Placed(work[p])' /\ Current(work[p])'
    BY <1>1, <1>2, <1>3, <1>4 DEF Fine, Placed, Current, HasText
<1>6. Queued(work[p])'
    BY <1>1, <1>2, <1>3, <1>4 DEF Fine, Placed, Queued, HasText
<1>7. Reported(work[p])'
    BY <1>1, <1>2, <1>3, <1>4 DEF Fine, Placed, Reported, Done
<1> QED
    BY <1>1, <1>5, <1>6, <1>7, MovesOn DEF Fine

\* The transcript there is serves.
LEMMA ResumeKeeps ==
    ASSUME PipeInv, NEW p \in Writers, Pipeline!ResumesTranscript(p)
    PROVE  PipeInv'
<1> DEFINE w == work[p]
           x == [w EXCEPT !.pc = "generate"]
<1>1. Pipeline!Goes(p, x) /\ UNCHANGED <<store, wish, torn>> /\ w.pc # "recording"
    BY DEF Pipeline!ResumesTranscript, Pipeline!To, Pipeline!At
<1>2. work'[p] = x /\ raced \subseteq raced' /\ Fine(w)
    BY <1>1, GoesFacts
<1>3. /\ DOMAIN x = WorkFields /\ x.op = w.op /\ x.pc = "generate"
      /\ x.queue = w.queue /\ x.had = w.had /\ x.note = w.note /\ x.meta = w.meta
      /\ x.set = w.set /\ x.text = w.text /\ x.ok = w.ok /\ x.skipped = w.skipped
      /\ x.failed = w.failed /\ x.taken = w.taken /\ x.saving = w.saving
    BY <1>2 DEF Fine, Placed, WorkFields
<1>4. w.pc = "whisper"
    BY DEF Pipeline!ResumesTranscript, Pipeline!At
<1> HIDE DEF x
<1>5. Placed(work[p])' /\ Current(work[p])'
    BY <1>1, <1>2, <1>3, <1>4 DEF Fine, Placed, Current, HasText
<1>6. Queued(work[p])'
    BY <1>1, <1>2, <1>3, <1>4 DEF Fine, Placed, Queued, HasText
<1>7. Reported(work[p])'
    BY <1>1, <1>2, <1>3, <1>4 DEF Fine, Placed, Reported, Done
<1> QED
    BY <1>1, <1>5, <1>6, <1>7, MovesOn DEF Fine

\* meta.toml is read as it is.
LEMMA ReadsKeeps ==
    ASSUME PipeInv, NEW p \in Writers, Pipeline!ReadsMeta(p)
    PROVE  PipeInv'
<1> DEFINE w == work[p]
           x == [w EXCEPT !.pc = "merge", !.meta = store[w.note].meta]
<1>1. Pipeline!Goes(p, x) /\ UNCHANGED <<store, wish, torn>> /\ w.pc # "recording"
    BY DEF Pipeline!ReadsMeta, Pipeline!At
<1>2. work'[p] = x /\ raced \subseteq raced' /\ Fine(w)
    BY <1>1, GoesFacts
<1>3. /\ DOMAIN x = WorkFields /\ x.op = w.op /\ x.pc = "merge" /\ x.queue = w.queue
      /\ x.had = w.had /\ x.note = w.note /\ x.meta = store[w.note].meta
      /\ x.set = w.set /\ x.text = w.text /\ x.ok = w.ok /\ x.skipped = w.skipped
      /\ x.failed = w.failed /\ x.taken = w.taken /\ x.saving = w.saving
    BY <1>2 DEF Fine, Placed, WorkFields
<1>4. w.pc = "read" /\ DirOk(w.note)
    BY <1>2 DEF Pipeline!ReadsMeta, Pipeline!At, PipeInv, Fine, Placed
<1> HIDE DEF x
<1>5. Placed(work[p])' /\ Current(work[p])'
    BY <1>1, <1>2, <1>3, <1>4 DEF Fine, Placed, Current, HasText, DirOk
<1>6. Queued(work[p])'
    BY <1>1, <1>2, <1>3, <1>4 DEF Fine, Placed, Queued, HasText
<1>7. Reported(work[p])'
    BY <1>1, <1>2, <1>3, <1>4 DEF Fine, Placed, Reported, Done
<1> QED
    BY <1>1, <1>5, <1>6, <1>7, MovesOn DEF Fine

\* The note is indexed, and goes on to the stage that saves.
LEMMA IndexKeeps ==
    ASSUME PipeInv, NEW p \in Writers, Pipeline!IndexesNote(p), ~Pipeline!Fails(p)
    PROVE  PipeInv'
<1> DEFINE w == work[p]
           x == [w EXCEPT !.pc = "read", !.saving = TRUE]
<1>1. Pipeline!Goes(p, x) /\ UNCHANGED <<store, wish, torn>> /\ w.pc # "recording"
    BY DEF Pipeline!IndexesNote, Pipeline!At
<1>2. work'[p] = x /\ raced \subseteq raced' /\ Fine(w)
    BY <1>1, GoesFacts
<1>3. /\ DOMAIN x = WorkFields /\ x.op = w.op /\ x.pc = "read" /\ x.queue = w.queue
      /\ x.had = w.had /\ x.note = w.note /\ x.meta = w.meta /\ x.set = w.set
      /\ x.text = w.text /\ x.ok = w.ok /\ x.skipped = w.skipped
      /\ x.failed = w.failed /\ x.taken = w.taken /\ x.saving = TRUE
    BY <1>2 DEF Fine, Placed, WorkFields
<1>4. w.pc = "index"
    BY DEF Pipeline!IndexesNote, Pipeline!At
<1> HIDE DEF x
<1>5. Placed(work[p])' /\ Current(work[p])'
    BY <1>1, <1>2, <1>3, <1>4 DEF Fine, Placed, Current, HasText
<1>6. Queued(work[p])'
    BY <1>1, <1>2, <1>3, <1>4 DEF Fine, Placed, Queued, HasText
<1>7. Reported(work[p])'
    BY <1>1, <1>2, <1>3, <1>4 DEF Fine, Placed, Reported, Done
<1> QED
    BY <1>1, <1>5, <1>6, <1>7, MovesOn DEF Fine

\* NotesPipeline counts as we do.
LEMMA SameCardinality == ASSUME NEW S PROVE Pipeline!Cardinality(S) = Cardinality(S)
BY Zenon DEF Cardinality, Pipeline!Cardinality

\* The meta.toml of a new directory.
LEMMA PlainFacts ==
    /\ Pipeline!Plain \in Metas
    /\ \A b \in BOOLEAN : /\ [Pipeline!Plain EXCEPT !.tags = b] \in Metas
                         /\ [Pipeline!Plain EXCEPT !.template = b] \in Metas
BY DEF Pipeline!Plain, Metas

\* A set of directories has an oldest one.
LEMMA OldestIn ==
    ASSUME NEW S \in SUBSET Dirs, S # {}
    PROVE  Pipeline!Oldest(S) \in S /\ \A d \in S : Pipeline!Oldest(S) <= d
<1>1. S \subseteq Nat
    OBVIOUS
<1>2. PICK d \in S : \A e \in S : ~ (<<e, d>> \in OpToRel(<, Nat))
    BY <1>1, NatLessThanWellFounded, WFMin
<1>3. ASSUME NEW e \in S PROVE ~(e < d)
    BY <1>1, <1>2 DEF OpToRel
<1>4. \A e \in S : d <= e
    BY <1>1, <1>3
<1> QED
    BY <1>4 DEF Pipeline!Oldest

\* A batch takes its next note, or comes to its report.
LEMMA NextKeeps ==
    ASSUME PipeInv, NEW p \in Writers, Pipeline!TakesNext(p)
    PROVE  PipeInv'
<1> DEFINE w == work[p]
           rest == w.queue \ {w.note}
           x == IF rest = {} THEN [w EXCEPT !.pc = "report", !.queue = {}, !.had = {}]
                ELSE [w EXCEPT !.queue = rest, !.note = Pipeline!Oldest(rest),
                          !.had = @ \ {w.note},
                          !.pc = IF Pipeline!Batch(p) THEN "load" ELSE "generate"]
<1>1. Pipeline!Goes(p, x) /\ UNCHANGED <<store, wish, torn>> /\ w.pc = "next"
    BY DEF Pipeline!TakesNext, Pipeline!At
<1>2. work'[p] = x /\ raced \subseteq raced' /\ Fine(w)
    BY <1>1, GoesFacts
<1>3. CASE rest = {}
  <2>1. /\ DOMAIN x = WorkFields /\ x.op = w.op /\ x.pc = "report" /\ x.queue = {}
        /\ x.had = {} /\ x.note = w.note /\ x.meta = w.meta /\ x.set = w.set
        /\ x.text = w.text /\ x.ok = w.ok /\ x.skipped = w.skipped
        /\ x.failed = w.failed /\ x.taken = w.taken /\ x.saving = w.saving
      BY <1>2, <1>3 DEF Fine, Placed, WorkFields
  <2> HIDE DEF x
  <2>2. Placed(work[p])' /\ Current(work[p])'
      BY <1>1, <1>2, <2>1 DEF Fine, Placed, Current
  <2>3. Queued(work[p])' /\ Reported(work[p])'
      BY <1>1, <1>2, <1>3, <2>1 DEF Fine, Queued, Reported, Done
  <2> QED
      BY <1>1, <2>2, <2>3, MovesOn DEF Fine
<1>4. CASE rest # {}
  <2>1. /\ DOMAIN x = WorkFields /\ x.op = w.op
        /\ x.pc = (IF Pipeline!Batch(p) THEN "load" ELSE "generate") /\ x.queue = rest
        /\ x.had = w.had \ {w.note} /\ x.note = Pipeline!Oldest(rest) /\ x.meta = w.meta
        /\ x.set = w.set /\ x.text = w.text /\ x.ok = w.ok /\ x.skipped = w.skipped
        /\ x.failed = w.failed /\ x.taken = w.taken /\ x.saving = w.saving
      BY <1>2, <1>4 DEF Fine, Placed, WorkFields
  <2> HIDE DEF x
  <2>2. Pipeline!Oldest(rest) \in rest /\ rest \subseteq Dirs
      BY <1>2, <1>4, OldestIn DEF Fine, Placed
  <2>3. Placed(work[p])' /\ Current(work[p])'
      BY <1>1, <1>2, <2>1, <2>2 DEF Fine, Placed, Current, Pipeline!Batch
  <2>4. Queued(work[p])'
      BY <1>1, <1>2, <2>1, <2>2 DEF Fine, Queued, HasText
  <2>5. Reported(work[p])'
      BY <1>1, <1>2, <2>1, <2>2 DEF Fine, Reported, Done, Pipeline!Batch
  <2> QED
      BY <1>1, <2>3, <2>4, <2>5, MovesOn DEF Fine
<1> QED
    BY <1>3, <1>4

\* The transcript is too short.
LEMMA SkipKeeps ==
    ASSUME PipeInv, NEW p \in Writers, Pipeline!BeginsNotes(p),
           store[work[p].note].script \in {"empty", "short"}
    PROVE  PipeInv'
<1> DEFINE w == work[p]
           x == [w EXCEPT !.pc = "next", !.skipped = @ \cup {w.note}]
<1>1. Pipeline!Goes(p, x) /\ UNCHANGED <<store, wish, torn>> /\ w.pc # "recording"
    BY DEF Pipeline!BeginsNotes, Pipeline!At
<1>2. work'[p] = x /\ raced \subseteq raced' /\ Fine(w)
    BY <1>1, GoesFacts
<1>3. /\ DOMAIN x = WorkFields /\ x.op = w.op /\ x.pc = "next" /\ x.queue = w.queue
      /\ x.had = w.had /\ x.note = w.note /\ x.meta = w.meta /\ x.set = w.set
      /\ x.text = w.text /\ x.ok = w.ok /\ x.skipped = w.skipped \cup {w.note}
      /\ x.failed = w.failed /\ x.taken = w.taken /\ x.saving = w.saving
    BY <1>2 DEF Fine, Placed, WorkFields
<1>4. w.pc = "generate"
    BY DEF Pipeline!BeginsNotes, Pipeline!At
<1> HIDE DEF x
<1>5. Placed(work[p])' /\ Current(work[p])'
    BY <1>1, <1>2, <1>3, <1>4 DEF Fine, Placed, Current, HasText
<1>6. Queued(work[p])'
    BY <1>1, <1>2, <1>3, <1>4 DEF Fine, Placed, Queued, HasText
<1>7. Reported(work[p])'
    BY <1>1, <1>2, <1>3, <1>4 DEF Fine, Placed, Reported, Done
<1> QED
    BY <1>1, <1>5, <1>6, <1>7, MovesOn DEF Fine

\* The transcript is read for the model.
LEMMA BeginKeeps ==
    ASSUME PipeInv, NEW p \in Writers, Pipeline!BeginsNotes(p),
           store[work[p].note].script \notin {"none", "empty", "short"}
    PROVE  PipeInv'
<1> DEFINE w == work[p]
           x == [w EXCEPT !.pc = "llm", !.text = store[w.note].script]
<1>1. Pipeline!Goes(p, x) /\ UNCHANGED <<store, wish, torn>> /\ w.pc # "recording"
    BY DEF Pipeline!BeginsNotes, Pipeline!At
<1>2. work'[p] = x /\ raced \subseteq raced' /\ Fine(w)
    BY <1>1, GoesFacts
<1>3. /\ DOMAIN x = WorkFields /\ x.op = w.op /\ x.pc = "llm" /\ x.queue = w.queue
      /\ x.had = w.had /\ x.note = w.note /\ x.meta = w.meta /\ x.set = w.set
      /\ x.text = store[w.note].script /\ x.ok = w.ok /\ x.skipped = w.skipped
      /\ x.failed = w.failed /\ x.taken = w.taken /\ x.saving = w.saving
    BY <1>2 DEF Fine, Placed, WorkFields
<1>4. w.pc = "generate" /\ store[w.note].script \in Pipeline!Scripts
    BY <1>2 DEF Pipeline!BeginsNotes, Pipeline!At, PipeInv, Fine, Placed, DirOk
<1> HIDE DEF x
<1>5. Placed(work[p])' /\ Current(work[p])'
    BY <1>1, <1>2, <1>3, <1>4 DEF Fine, Placed, Current, HasText
<1>6. Queued(work[p])'
    BY <1>1, <1>2, <1>3, <1>4 DEF Fine, Placed, Queued, HasText
<1>7. Reported(work[p])'
    BY <1>1, <1>2, <1>3, <1>4 DEF Fine, Placed, Reported, Done
<1> QED
    BY <1>1, <1>5, <1>6, <1>7, MovesOn DEF Fine

\* Only part of a recording is heard while somebody records.
LEMMA HearsKeeps ==
    ASSUME PipeInv, NEW p \in Writers, NEW result \in Pipeline!Scripts \ {"none"},
           store[work[p].note].audio # "none",
           Pipeline!HearsAudio(p, result)
    PROVE  PipeInv'
<1> DEFINE w == work[p]
           x == [w EXCEPT !.pc = "heard", !.text = result]
<1>1. Pipeline!Goes(p, x) /\ UNCHANGED <<store, wish, torn>> /\ w.pc # "recording"
    BY DEF Pipeline!HearsAudio, Pipeline!At
<1>2. work'[p] = x /\ raced \subseteq raced' /\ Fine(w)
    BY <1>1, GoesFacts
<1>3. /\ DOMAIN x = WorkFields /\ x.op = w.op /\ x.pc = "heard" /\ x.queue = w.queue
      /\ x.had = w.had /\ x.note = w.note /\ x.meta = w.meta /\ x.set = w.set
      /\ x.text = result /\ x.ok = w.ok /\ x.skipped = w.skipped
      /\ x.failed = w.failed /\ x.taken = w.taken /\ x.saving = w.saving
    BY <1>2 DEF Fine, Placed, WorkFields
<1>4. w.pc = "whisper" /\ ~Pipeline!Resumable(p)
    BY DEF Pipeline!HearsAudio, Pipeline!At
<1> HIDE DEF x
<1>8. result = "part" => w.note \in raced'
  <2>1. SUFFICES ASSUME result = "part" PROVE w.note \in raced'
      OBVIOUS
  <2>2. w.note \in Dirs /\ DirOk(w.note) /\ store[w.note].audio = "growing"
      BY <1>2, <1>4, <2>1 DEF Pipeline!HearsAudio, PipeInv, Fine, Placed
  <2>3. PICK q \in Writers : work[q].pc = "recording" /\ work[q].note = w.note
      BY <2>2 DEF DirOk
  <2>4. q # p /\ w.note # 0
      BY <1>4, <2>2, <2>3
  <2>5. w.note \in Pipeline!AtHand(x) /\ w.note \in Pipeline!AtHand(work[q])
      BY <1>3, <2>3, <2>4 DEF Pipeline!AtHand
  <2> QED
      BY <1>1, <2>2, <2>4, <2>5 DEF Pipeline!Goes
<1>5. Placed(work[p])' /\ Current(work[p])'
    BY <1>1, <1>2, <1>3, <1>4, <1>8
       DEF Fine, Placed, Current, Queued, HasText, Pipeline!Resumable, Pipeline!HasTranscript
<1>6. Queued(work[p])'
    BY <1>1, <1>2, <1>3, <1>4 DEF Fine, Placed, Queued, HasText
<1>7. Reported(work[p])'
    BY <1>1, <1>2, <1>3, <1>4 DEF Fine, Placed, Reported, Done
<1> QED
    BY <1>1, <1>5, <1>6, <1>7, MovesOn DEF Fine

\* A tag is set.
LEMMA TagKeeps ==
    ASSUME PipeInv, NEW p \in Writers, NEW d \in Dirs, Pipeline!TagsNote(p, d)
    PROVE  PipeInv'
<1> DEFINE x == [Pipeline!AtRest EXCEPT !.op = "tag", !.pc = "read", !.note = d,
                                   !.set.tags = ~store[d].meta.tags]
<1>1. Pipeline!Goes(p, x) /\ UNCHANGED <<store, wish, torn>> /\ work[p].pc = "idle"
    BY DEF Pipeline!TagsNote, Pipeline!Begins, Pipeline!At
<1>2. work'[p] = x /\ raced \subseteq raced'
    BY <1>1, GoesFacts
<1>3. /\ DOMAIN x = WorkFields /\ x.op = "tag" /\ x.pc = "read" /\ x.queue = {}
      /\ x.had = {} /\ x.note = d /\ x.meta = Pipeline!Plain
      /\ x.set = [Pipeline!Plain EXCEPT !.tags = ~store[d].meta.tags]
      /\ x.text = "none" /\ x.ok = {} /\ x.skipped = {} /\ x.failed = {}
      /\ x.taken = {} /\ x.saving = FALSE
    BY DEF Pipeline!AtRest, Pipeline!Plain, WorkFields
<1>4. store[d].meta.tags \in BOOLEAN
    BY DEF PipeInv, DirOk, Metas
<1> HIDE DEF x
<1>5. Placed(work[p])' /\ Current(work[p])'
    BY <1>1, <1>2, <1>3, <1>4, PlainFacts
       DEF Placed, Current, HasText, Pipeline!Scripts
<1>6. Queued(work[p])'
    BY <1>1, <1>2, <1>3, <1>4 DEF Queued, HasText
<1>7. Reported(work[p])'
    BY <1>1, <1>2, <1>3, <1>4 DEF Reported, Done
<1> QED
    BY <1>1, <1>5, <1>6, <1>7, MovesOn DEF Fine

\* The editor opens on notes there are.
LEMMA EditorKeeps ==
    ASSUME PipeInv, NEW p \in Writers, NEW d \in Dirs, Pipeline!OpensEditor(p, d)
    PROVE  PipeInv'
<1> DEFINE x == [Pipeline!AtRest EXCEPT !.op = "edit", !.pc = "editing", !.note = d]
<1>1. Pipeline!Goes(p, x) /\ UNCHANGED <<store, wish, torn>> /\ work[p].pc = "idle"
    BY DEF Pipeline!OpensEditor, Pipeline!Begins, Pipeline!At
<1>2. work'[p] = x /\ raced \subseteq raced'
    BY <1>1, GoesFacts
<1>3. /\ DOMAIN x = WorkFields /\ x.op = "edit" /\ x.pc = "editing" /\ x.queue = {}
      /\ x.had = {} /\ x.note = d /\ x.meta = Pipeline!Plain /\ x.set = Pipeline!Plain
      /\ x.text = "none" /\ x.ok = {} /\ x.skipped = {} /\ x.failed = {}
      /\ x.taken = {} /\ x.saving = FALSE
    BY DEF Pipeline!AtRest, Pipeline!Plain, WorkFields
<1>4. store[d].notes # "none"
    BY DEF Pipeline!OpensEditor
<1> HIDE DEF x
<1>5. Placed(work[p])' /\ Current(work[p])'
    BY <1>1, <1>2, <1>3, <1>4, PlainFacts
       DEF Placed, Current, HasText, Pipeline!Scripts
<1>6. Queued(work[p])'
    BY <1>1, <1>2, <1>3, <1>4 DEF Queued, HasText
<1>7. Reported(work[p])'
    BY <1>1, <1>2, <1>3, <1>4 DEF Reported, Done
<1> QED
    BY <1>1, <1>5, <1>6, <1>7, MovesOn DEF Fine

\* A delete asks first.
LEMMA AsksKeeps ==
    ASSUME PipeInv, NEW p \in Writers, NEW d \in Dirs, Pipeline!AsksDelete(p, d)
    PROVE  PipeInv'
<1> DEFINE x == [Pipeline!AtRest EXCEPT !.op = "delete", !.pc = "confirm", !.note = d]
<1>1. Pipeline!Goes(p, x) /\ UNCHANGED <<store, wish, torn>> /\ work[p].pc = "idle"
    BY DEF Pipeline!AsksDelete, Pipeline!Begins, Pipeline!At
<1>2. work'[p] = x /\ raced \subseteq raced'
    BY <1>1, GoesFacts
<1>3. /\ DOMAIN x = WorkFields /\ x.op = "delete" /\ x.pc = "confirm" /\ x.queue = {}
      /\ x.had = {} /\ x.note = d /\ x.meta = Pipeline!Plain /\ x.set = Pipeline!Plain
      /\ x.text = "none" /\ x.ok = {} /\ x.skipped = {} /\ x.failed = {}
      /\ x.taken = {} /\ x.saving = FALSE
    BY DEF Pipeline!AtRest, Pipeline!Plain, WorkFields
<1>4. d \in Dirs
    OBVIOUS
<1> HIDE DEF x
<1>5. Placed(work[p])' /\ Current(work[p])'
    BY <1>1, <1>2, <1>3, <1>4, PlainFacts
       DEF Placed, Current, HasText, Pipeline!Scripts
<1>6. Queued(work[p])'
    BY <1>1, <1>2, <1>3, <1>4 DEF Queued, HasText
<1>7. Reported(work[p])'
    BY <1>1, <1>2, <1>3, <1>4 DEF Reported, Done
<1> QED
    BY <1>1, <1>5, <1>6, <1>7, MovesOn DEF Fine

\* --regen of one note, with a template or without.
LEMMA RegenOneKeeps ==
    ASSUME PipeInv, NEW p \in Writers, NEW d \in Dirs, NEW template \in BOOLEAN,
           Pipeline!RegensOne(p, d, template)
    PROVE  PipeInv'
<1> DEFINE x == [Pipeline!AtRest EXCEPT !.op = "regen", !.queue = {d}, !.note = d,
                                   !.set.template = template,
                                   !.pc = IF template THEN "read" ELSE "generate"]
<1>1. Pipeline!Goes(p, x) /\ UNCHANGED <<store, wish, torn>> /\ work[p].pc = "idle"
    BY DEF Pipeline!RegensOne, Pipeline!Begins, Pipeline!At
<1>2. work'[p] = x /\ raced \subseteq raced'
    BY <1>1, GoesFacts
<1>3. /\ DOMAIN x = WorkFields /\ x.op = "regen"
      /\ x.pc = (IF template THEN "read" ELSE "generate") /\ x.queue = {d}
      /\ x.had = {} /\ x.note = d /\ x.meta = Pipeline!Plain
      /\ x.set = [Pipeline!Plain EXCEPT !.template = template] /\ x.text = "none"
      /\ x.ok = {} /\ x.skipped = {} /\ x.failed = {}
      /\ x.taken = {} /\ x.saving = FALSE
    BY DEF Pipeline!AtRest, Pipeline!Plain, WorkFields
<1>4. d \in Dirs
    OBVIOUS
<1> HIDE DEF x
<1>5. Placed(work[p])' /\ Current(work[p])'
    BY <1>1, <1>2, <1>3, <1>4, PlainFacts
       DEF Placed, Current, HasText, Pipeline!Scripts
<1>6. Queued(work[p])'
    BY <1>1, <1>2, <1>3, <1>4 DEF Queued, HasText
<1>7. Reported(work[p])'
    BY <1>1, <1>2, <1>3, <1>4 DEF Reported, Done
<1> QED
    BY <1>1, <1>5, <1>6, <1>7, MovesOn DEF Fine

\* --regen of every note with a transcript.
LEMMA RegenKeeps ==
    ASSUME PipeInv, NEW p \in Writers, Pipeline!StartsRegen(p)
    PROVE  PipeInv'
<1> DEFINE queue == {d \in Pipeline!Listed : store[d].script # "none"}
           x == [Pipeline!AtRest EXCEPT !.op = "regen", !.pc = "generate", !.queue = queue,
                                   !.note = Pipeline!Oldest(queue)]
<1>1. Pipeline!Goes(p, x) /\ UNCHANGED <<store, wish, torn>> /\ work[p].pc = "idle"
    BY DEF Pipeline!StartsRegen, Pipeline!Begins, Pipeline!At
<1>2. work'[p] = x /\ raced \subseteq raced'
    BY <1>1, GoesFacts
<1>3. /\ DOMAIN x = WorkFields /\ x.op = "regen" /\ x.pc = "generate"
      /\ x.queue = queue /\ x.had = {} /\ x.note = Pipeline!Oldest(queue)
      /\ x.meta = Pipeline!Plain /\ x.set = Pipeline!Plain /\ x.text = "none"
      /\ x.ok = {} /\ x.skipped = {} /\ x.failed = {}
      /\ x.taken = {} /\ x.saving = FALSE
    BY DEF Pipeline!AtRest, Pipeline!Plain, WorkFields
<1>4. queue \subseteq Dirs /\ Pipeline!Oldest(queue) \in queue
    BY OldestIn DEF Pipeline!StartsRegen, Pipeline!Listed
<1> HIDE DEF x, queue
<1>5. Placed(work[p])' /\ Current(work[p])'
    BY <1>1, <1>2, <1>3, <1>4, PlainFacts
       DEF Placed, Current, HasText, Pipeline!Scripts
<1>6. Queued(work[p])'
    BY <1>1, <1>2, <1>3, <1>4 DEF Queued, HasText
<1>7. Reported(work[p])'
    BY <1>1, <1>2, <1>3, <1>4 DEF Reported, Done
<1> QED
    BY <1>1, <1>5, <1>6, <1>7, MovesOn DEF Fine

\* The notes that wait are queued, those that are done are not.
LEMMA QueueKeeps ==
    ASSUME PipeInv, NEW p \in Writers, NEW forced \in BOOLEAN,
           NEW n \in 1 .. Pipeline!Cardinality(Dirs),
           Pipeline!StartsTranscribe(p, forced, n)
    PROVE  PipeInv'
<1> DEFINE found == Pipeline!SelectQueue(forced)
           queue == {d \in found : Pipeline!Cardinality({e \in found : e <= d}) <= n}
           x == [Pipeline!AtRest EXCEPT !.op = IF forced THEN "force" ELSE "transcribe",
                    !.pc = "load", !.queue = queue, !.taken = queue,
                    !.note = Pipeline!Oldest(queue),
                    !.had = {d \in queue : store[d].script # "none"}]
<1>1. Pipeline!Goes(p, x) /\ UNCHANGED <<store, wish, torn>> /\ work[p].pc = "idle"
  <2>1. Pipeline!Goes(p, x)
      BY Zenon DEF Pipeline!StartsTranscribe, Pipeline!Begins
  <2> HIDE DEF x, queue
  <2> QED
      BY <2>1 DEF Pipeline!StartsTranscribe, Pipeline!Begins, Pipeline!At
<1>2. work'[p] = x /\ raced \subseteq raced'
    BY <1>1, GoesFacts
<1>3. /\ DOMAIN x = WorkFields /\ x.op = (IF forced THEN "force" ELSE "transcribe")
      /\ x.pc = "load" /\ x.queue = queue
      /\ x.had = {d \in queue : store[d].script # "none"}
      /\ x.note = Pipeline!Oldest(queue) /\ x.meta = Pipeline!Plain
      /\ x.set = Pipeline!Plain /\ x.text = "none" /\ x.ok = {} /\ x.skipped = {}
      /\ x.failed = {}
      /\ x.taken = queue /\ x.saving = FALSE
    BY DEF Pipeline!AtRest, Pipeline!Plain, WorkFields
<1>4. queue \subseteq Dirs /\ Pipeline!Oldest(queue) \in queue
  <2>1. found # {} /\ found \subseteq Dirs /\ found \subseteq Nat
      BY DEF Pipeline!StartsTranscribe, Pipeline!SelectQueue, Pipeline!Listed
  <2>2. Pipeline!Oldest(found) \in found /\ \A d \in found : Pipeline!Oldest(found) <= d
      BY <2>1, OldestIn
  <2>3. {e \in found : e <= Pipeline!Oldest(found)} = {Pipeline!Oldest(found)}
    <3> HIDE DEF found
    <3>1. ASSUME NEW e \in found, e <= Pipeline!Oldest(found) PROVE e = Pipeline!Oldest(found)
      <4>1. Pipeline!Oldest(found) \in Nat /\ e \in Nat
          BY <2>1, <2>2
      <4>2. Pipeline!Oldest(found) <= e
          BY <2>2
      <4> QED
          BY <3>1, <4>1, <4>2
    <3> QED
        BY <2>1, <2>2, <3>1
  <2>4. Pipeline!Oldest(found) \in queue
    <3>1. Pipeline!Cardinality({Pipeline!Oldest(found)}) = 1
        BY FS_Singleton, SameCardinality
    <3>2. 1 <= n
        OBVIOUS
    <3> HIDE DEF found
    <3> QED
        BY <2>2, <2>3, <3>1, <3>2
  <2> QED
      BY <2>1, <2>4, OldestIn
<1> HIDE DEF x, queue
<1>5. Placed(work[p])' /\ Current(work[p])'
    BY <1>1, <1>2, <1>3, <1>4, PlainFacts
       DEF Placed, Current, HasText, Pipeline!Scripts
<1>6. Queued(work[p])'
    BY <1>1, <1>2, <1>3, <1>4 DEF Queued, HasText
<1>7. Reported(work[p])'
    BY <1>1, <1>2, <1>3, <1>4 DEF Reported, Done
<1> QED
    BY <1>1, <1>5, <1>6, <1>7, MovesOn DEF Fine

\* The directory at hand changes, and the command goes on.
LEMMA WritesHere ==
    ASSUME PipeInv, NEW p \in Writers, NEW x, Pipeline!Goes(p, x),
           NEW d \in Dirs, work[p].note = d, DOMAIN store' = Dirs,
           \A e \in Dirs \ {d} : store'[e] = store[e],
           UNCHANGED <<wish, torn>>,
           work[p].pc = "recording" => store'[d].audio # "growing",
           DirOk(d)', Fine(work[p])'
    PROVE  PipeInv'
<1>1. d \in Pipeline!AtHand(work[p]) /\ wish' \in [Dirs -> Metas]
    BY DEF Pipeline!AtHand, PipeInv
<1> QED
    BY <1>1, OneWriter

\* `chirp record` makes a directory.
LEMMA RecordKeeps ==
    ASSUME PipeInv, NEW p \in Writers, NEW d \in Dirs, Pipeline!StartsRecording(p, d)
    PROVE  PipeInv'
<1> DEFINE x == [Pipeline!AtRest EXCEPT !.op = "record", !.pc = "recording", !.note = d]
<1>1. /\ Pipeline!Goes(p, x) /\ UNCHANGED <<wish, torn>> /\ work[p].pc = "idle"
      /\ store' = [store EXCEPT ![d] = Pipeline!Recording] /\ ~store[d].dir
    BY DEF Pipeline!StartsRecording, Pipeline!Begins, Pipeline!At
<1>2. work'[p] = x /\ raced \subseteq raced'
    BY <1>1, GoesFacts
<1>3. /\ DOMAIN x = WorkFields /\ x.op = "record" /\ x.pc = "recording"
      /\ x.queue = {} /\ x.had = {} /\ x.note = d /\ x.meta = Pipeline!Plain
      /\ x.set = Pipeline!Plain /\ x.text = "none" /\ x.ok = {} /\ x.skipped = {}
      /\ x.failed = {}
      /\ x.taken = {} /\ x.saving = FALSE
    BY DEF Pipeline!AtRest, Pipeline!Plain, WorkFields
<1> HIDE DEF x
<1>4. Fine(work[p])'
    BY <1>2, <1>3, PlainFacts
       DEF Fine, Placed, Current, Queued, Reported, Done, Pipeline!Scripts
<1>5. /\ DOMAIN store' = Dirs /\ store'[d] = Pipeline!Recording
      /\ \A e \in Dirs \ {d} : store'[e] = store[e]
    BY <1>1 DEF PipeInv
<1>6. d \notin torn => wish[d] = Pipeline!Plain
    BY <1>1 DEF PipeInv, DirOk, Pipeline!NoDir
<1>7. DirOk(d)'
  <2>1. /\ DOMAIN Pipeline!Recording = DirFields /\ Pipeline!Recording.dir = TRUE
        /\ Pipeline!Recording.script = "none" /\ Pipeline!Recording.notes = "none"
        /\ Pipeline!Recording.meta = Pipeline!Plain
      BY DEF Pipeline!Recording, Pipeline!NoDir, DirFields
  <2>2. \E q \in Writers : work'[q].pc = "recording" /\ work'[q].note = d
      BY <1>2, <1>3
  <2>3. d \notin torn' => Pipeline!Plain = wish'[d]
      BY <1>1, <1>6
  <2> QED
      BY <1>5, <2>1, <2>2, <2>3, PlainFacts DEF DirOk, HasText, Pipeline!Scripts
<1>8. d \in Pipeline!AtHand(x)
    BY <1>3 DEF Pipeline!AtHand
<1>9. wish' \in [Dirs -> Metas] /\ (d \notin torn' => d \notin torn /\ wish'[d] = wish[d])
    BY <1>1 DEF PipeInv
<1> QED
  <2>1. \A e \in Dirs \ {d} :
            store'[e] = store[e] /\ wish'[e] = wish[e] /\ (e \in torn' <=> e \in torn)
      BY <1>1, <1>5
  <2>2. work[p].pc # "recording"
      BY <1>1
  <2>3. Pipeline!Goes(p, x) /\ DOMAIN store' = Dirs /\ wish' \in [Dirs -> Metas]
      BY <1>1, <1>5, <1>9
  <2> QED
      BY <1>4, <1>7, <1>8, <1>9, <2>1, <2>2, <2>3, OneWriter

\* A recording ends, stopped or cut off.
LEMMA StopKeeps ==
    ASSUME PipeInv, NEW p \in Writers, work[p].pc = "recording",
           NEW x, Pipeline!Goes(p, x), Fine(work[p])', UNCHANGED <<wish, torn>>,
           store' = [store EXCEPT ![work[p].note].audio = IF @ = "none" THEN @ ELSE "whole"]
    PROVE  PipeInv'
<1>0. PICK d \in Dirs : d = work[p].note
    BY DEF PipeInv, Fine, Placed
<1>1. DirOk(d) /\ DOMAIN store = Dirs
    BY DEF PipeInv
<1>2. /\ DOMAIN store' = Dirs /\ \A e \in Dirs \ {d} : store'[e] = store[e]
      /\ DOMAIN store'[d] = DirFields /\ store'[d].audio \in {"none", "whole"}
      /\ store'[d].dir = store[d].dir /\ store'[d].script = store[d].script
      /\ store'[d].notes = store[d].notes /\ store'[d].meta = store[d].meta
    BY <1>0, <1>1 DEF DirOk, DirFields
<1>3. ~store[d].dir => store'[d] = Pipeline!NoDir
  <2>1. SUFFICES ASSUME ~store[d].dir PROVE store'[d] = Pipeline!NoDir
      OBVIOUS
  <2>2. store[d] = Pipeline!NoDir /\ store[d].audio = "none"
      BY <1>1, <2>1 DEF DirOk, Pipeline!NoDir
  <2>3. store'[d] = [Pipeline!NoDir EXCEPT !.audio = "none"]
      BY <1>0, <1>1, <2>2
  <2> QED
      BY <2>3 DEF Pipeline!NoDir
<1>4. raced \subseteq raced'
    BY GoesFacts
<1>5. /\ store[d].script \in Pipeline!Scripts /\ store[d].meta \in Metas
      /\ d \notin torn' => store[d].meta = wish'[d]
      /\ store[d].script = "part" => d \in raced'
      /\ d \notin raced' /\ store[d].notes # "none" => HasText(d)
    BY <1>1, <1>4 DEF DirOk
<1>6. DirOk(d)'
    BY <1>2, <1>3, <1>5 DEF DirOk, HasText
<1> QED
    BY <1>0, <1>1, <1>2, <1>6, WritesHere

\* A recording is stopped.
LEMMA StopsKeeps ==
    ASSUME PipeInv, NEW p \in Writers, Pipeline!StopsRecording(p)
    PROVE  PipeInv'
<1> DEFINE w == work[p]
           x == [w EXCEPT !.pc = "read"]
<1>1. Pipeline!Goes(p, x) /\ UNCHANGED <<wish, torn>> /\ w.pc = "recording"
    BY DEF Pipeline!StopsRecording, Pipeline!To, Pipeline!At
<1>2. work'[p] = x /\ raced \subseteq raced' /\ Fine(w)
    BY <1>1, GoesFacts
<1>3. /\ DOMAIN x = WorkFields /\ x.op = w.op /\ x.pc = "read" /\ x.queue = w.queue
      /\ x.had = w.had /\ x.note = w.note /\ x.meta = w.meta /\ x.set = w.set
      /\ x.text = w.text /\ x.ok = w.ok /\ x.skipped = w.skipped
      /\ x.failed = w.failed /\ x.taken = w.taken /\ x.saving = w.saving
    BY <1>2 DEF Fine, Placed, WorkFields
<1> HIDE DEF x
<1>4. Fine(work[p])'
    BY <1>1, <1>2, <1>3 DEF Fine, Placed, Current, Queued, Reported, Done
<1> QED
    BY <1>1, <1>4, StopKeeps DEF Pipeline!StopsRecording

\* A command is killed.
LEMMA DeadKeeps ==
    ASSUME PipeInv, NEW p \in Writers, Pipeline!StopsDead(p)
    PROVE  PipeInv'
<1>1. Pipeline!Goes(p, Pipeline!AtRest) /\ UNCHANGED <<wish, torn>>
    BY DEF Pipeline!StopsDead
<1>2. Fine(Pipeline!AtRest)'
    BY DEF Fine, Placed, Current, Queued, Reported, Done, Pipeline!AtRest, Pipeline!Plain,
       WorkFields, Metas, Pipeline!Scripts
<1>3. CASE work[p].pc = "recording"
    BY <1>1, <1>2, <1>3, GoesFacts, StopKeeps DEF Pipeline!StopsDead, Pipeline!At
<1>4. CASE work[p].pc # "recording"
    BY <1>1, <1>4, Rests DEF Pipeline!StopsDead, Pipeline!At
<1> QED
    BY <1>3, <1>4

\* The transcript is written where there was none.
LEMMA TranscriptKeeps ==
    ASSUME PipeInv, NEW p \in Writers, Pipeline!WritesTranscript(p), store[work[p].note].dir
    PROVE  PipeInv'
<1> DEFINE w == work[p]
           x == [w EXCEPT !.pc = "generate"]
<1>0. PICK d \in Dirs : d = w.note
    BY DEF PipeInv, Fine, Placed, Pipeline!WritesTranscript, Pipeline!At
<1>1. /\ Pipeline!Goes(p, x) /\ UNCHANGED <<wish, torn>>
      /\ store' = [store EXCEPT ![d].script = w.text]
    BY <1>0 DEF Pipeline!WritesTranscript, Pipeline!To
<1>2. work'[p] = x /\ raced \subseteq raced' /\ Fine(w) /\ DirOk(d) /\ DOMAIN store = Dirs
    BY <1>1, GoesFacts DEF PipeInv
<1>3. /\ DOMAIN x = WorkFields /\ x.op = w.op /\ x.pc = "generate"
      /\ x.queue = w.queue /\ x.had = w.had /\ x.note = w.note /\ x.meta = w.meta
      /\ x.set = w.set /\ x.text = w.text /\ x.ok = w.ok /\ x.skipped = w.skipped
      /\ x.failed = w.failed /\ x.taken = w.taken /\ x.saving = w.saving
    BY <1>2 DEF Fine, Placed, WorkFields
<1>4. w.pc = "heard" /\ store[d].dir /\ w.text \in Pipeline!Scripts
    BY <1>0, <1>2 DEF Pipeline!WritesTranscript, Pipeline!At, Fine, Placed
<1> HIDE DEF x
<1>5. /\ DOMAIN store' = Dirs /\ \A e \in Dirs \ {d} : store'[e] = store[e]
      /\ DOMAIN store'[d] = DirFields
      /\ store'[d].audio = store[d].audio /\ store'[d].dir = store[d].dir
      /\ store'[d].meta = store[d].meta
      /\ store'[d].script = w.text /\ store'[d].notes = store[d].notes
    BY <1>1, <1>2 DEF DirOk, DirFields
<1>6. (\E q \in Writers : work[q].pc = "recording" /\ work[q].note = d)
        => \E q \in Writers : work'[q].pc = "recording" /\ work'[q].note = d
    BY <1>1, <1>4 DEF PipeInv, Pipeline!Goes
<1>7. DirOk(d)'
    BY <1>0, <1>1, <1>2, <1>4, <1>5, <1>6 DEF DirOk, HasText, Fine, Current
<1>8. Placed(work[p])' /\ Current(work[p])'
    BY <1>2, <1>3, <1>4, <1>5 DEF Fine, Placed, Current, HasText
<1>9. Queued(work[p])'
    BY <1>0, <1>2, <1>3, <1>4, <1>5
       DEF Fine, Placed, Current, Queued, HasText, Pipeline!Scripts
<1>10. Reported(work[p])'
  <2>1. w.op \in {"transcribe", "force"} =>
          d \notin w.ok \cup w.skipped /\ \A e \in w.ok \cup w.skipped : store'[e] = store[e]
      BY <1>0, <1>2, <1>4, <1>5 DEF Fine, Reported, Done
  <2>2. d \notin raced /\ w.pc = "llm" => w.text = store[d].script
      BY <1>0, <1>2 DEF Fine, Current
  <2> QED
      BY <1>0, <1>2, <1>3, <1>4, <1>5, <2>1, <2>2 DEF Fine, Reported, Done
<1> QED
    BY <1>0, <1>1, <1>4, <1>5, <1>7, <1>8, <1>9, <1>10, WritesHere DEF Fine

\* Notes are written of the transcript that was read.
LEMMA NotesKeep ==
    ASSUME PipeInv, NEW p \in Writers, Pipeline!WritesNotes(p), store[work[p].note].dir
    PROVE  PipeInv'
<1> DEFINE w == work[p]
           x == [w EXCEPT !.pc = "read"]
<1>0. PICK d \in Dirs : d = w.note
    BY DEF PipeInv, Fine, Placed, Pipeline!WritesNotes, Pipeline!At
<1>1. /\ Pipeline!Goes(p, x) /\ UNCHANGED <<wish, torn>>
      /\ store' = [store EXCEPT ![d].notes = w.text]
    BY <1>0 DEF Pipeline!WritesNotes, Pipeline!To
<1>2. work'[p] = x /\ raced \subseteq raced' /\ Fine(w) /\ DirOk(d) /\ DOMAIN store = Dirs
    BY <1>1, GoesFacts DEF PipeInv
<1>3. /\ DOMAIN x = WorkFields /\ x.op = w.op /\ x.pc = "read" /\ x.queue = w.queue
      /\ x.had = w.had /\ x.note = w.note /\ x.meta = w.meta /\ x.set = w.set
      /\ x.text = w.text /\ x.ok = w.ok /\ x.skipped = w.skipped
      /\ x.failed = w.failed /\ x.taken = w.taken /\ x.saving = w.saving
    BY <1>2 DEF Fine, Placed, WorkFields
<1>4. w.pc = "llm" /\ store[d].dir /\ w.text \in Pipeline!Scripts
    BY <1>0, <1>2 DEF Pipeline!WritesNotes, Pipeline!At, Fine, Placed
<1> HIDE DEF x
<1>5. /\ DOMAIN store' = Dirs /\ \A e \in Dirs \ {d} : store'[e] = store[e]
      /\ DOMAIN store'[d] = DirFields
      /\ store'[d].audio = store[d].audio /\ store'[d].dir = store[d].dir
      /\ store'[d].meta = store[d].meta
      /\ store'[d].notes = w.text /\ store'[d].script = store[d].script
    BY <1>1, <1>2 DEF DirOk, DirFields
<1>6. (\E q \in Writers : work[q].pc = "recording" /\ work[q].note = d)
        => \E q \in Writers : work'[q].pc = "recording" /\ work'[q].note = d
    BY <1>1, <1>4 DEF PipeInv, Pipeline!Goes
<1>7. DirOk(d)'
    BY <1>0, <1>1, <1>2, <1>4, <1>5, <1>6 DEF DirOk, HasText, Fine, Current
<1>8. Placed(work[p])' /\ Current(work[p])'
    BY <1>2, <1>3, <1>4, <1>5 DEF Fine, Placed, Current, HasText
<1>9. Queued(work[p])'
    BY <1>0, <1>2, <1>3, <1>4, <1>5
       DEF Fine, Placed, Current, Queued, HasText, Pipeline!Scripts
<1>10. Reported(work[p])'
  <2>1. w.op \in {"transcribe", "force"} =>
          d \notin w.ok \cup w.skipped /\ \A e \in w.ok \cup w.skipped : store'[e] = store[e]
      BY <1>0, <1>2, <1>4, <1>5 DEF Fine, Reported, Done
  <2>2. d \notin raced /\ w.pc = "llm" => w.text = store[d].script
      BY <1>0, <1>2 DEF Fine, Current
  <2> QED
      BY <1>0, <1>2, <1>3, <1>4, <1>5, <2>1, <2>2 DEF Fine, Reported, Done
<1> QED
    BY <1>0, <1>1, <1>4, <1>5, <1>7, <1>8, <1>9, <1>10, WritesHere DEF Fine

\* The editor is left, with or without a change.
LEMMA EditorLeaves ==
    ASSUME PipeInv, NEW p \in Writers, Pipeline!LeavesEditor(p)
    PROVE  PipeInv'
<1>1. /\ Pipeline!Goes(p, Pipeline!AtRest) /\ UNCHANGED <<wish, torn>>
      /\ work[p].pc = "editing"
    BY DEF Pipeline!LeavesEditor, Pipeline!At
<1>2. CASE UNCHANGED store
    BY <1>1, <1>2, Rests
<1>3. ASSUME store[work[p].note].dir, NEW edited \in {"mine", "empty"},
             store' = [store EXCEPT ![work[p].note].notes = edited]
      PROVE  PipeInv'
  <2>1. PICK d \in Dirs : d = work[p].note
      BY <1>1 DEF PipeInv, Fine, Placed
  <2>2. Fine(Pipeline!AtRest)'
      BY DEF Fine, Placed, Current, Queued, Reported, Done, Pipeline!AtRest, Pipeline!Plain,
         WorkFields, Metas, Pipeline!Scripts
  <2>3. /\ work'[p] = Pipeline!AtRest /\ raced \subseteq raced' /\ Fine(work[p]) /\ DirOk(d)
        /\ DOMAIN store = Dirs
      BY <1>1, GoesFacts DEF PipeInv
  <2>4. /\ DOMAIN store' = Dirs /\ \A e \in Dirs \ {d} : store'[e] = store[e]
        /\ DOMAIN store'[d] = DirFields /\ store'[d].audio = store[d].audio
        /\ store'[d].dir = store[d].dir /\ store'[d].meta = store[d].meta
        /\ store'[d].script = store[d].script
      BY <1>3, <2>1, <2>3 DEF DirOk, DirFields
  <2>5. d \notin raced => HasText(d)
      BY <1>1, <2>1, <2>3 DEF Fine, Current, DirOk
  <2>6. (\E q \in Writers : work[q].pc = "recording" /\ work[q].note = d)
          => \E q \in Writers : work'[q].pc = "recording" /\ work'[q].note = d
      BY <1>1 DEF PipeInv, Pipeline!Goes
  <2>7. DirOk(d)'
      BY <1>1, <1>3, <2>1, <2>3, <2>4, <2>5, <2>6 DEF DirOk, HasText
  <2> QED
      BY <1>1, <2>1, <2>2, <2>3, <2>4, <2>7, WritesHere
<1> QED
    BY <1>1, <1>2, <1>3 DEF Pipeline!LeavesEditor

\* The directory is removed, or the user declines.
LEMMA DeleteKeeps ==
    ASSUME PipeInv, NEW p \in Writers, Pipeline!Deletes(p)
    PROVE  PipeInv'
<1>1. Pipeline!Goes(p, Pipeline!AtRest) /\ work[p].pc = "confirm"
    BY DEF Pipeline!Deletes, Pipeline!At
<1>2. CASE UNCHANGED <<store, wish, torn>>
    BY <1>1, <1>2, Rests
<1>3. CASE ~ UNCHANGED <<store, wish, torn>>
  <2>1. PICK d \in Dirs : d = work[p].note
      BY <1>1 DEF PipeInv, Fine, Placed
  <2>2. Fine(Pipeline!AtRest)'
      BY DEF Fine, Placed, Current, Queued, Reported, Done, Pipeline!AtRest, Pipeline!Plain,
         WorkFields, Metas, Pipeline!Scripts
  <2>3. work'[p] = Pipeline!AtRest /\ DOMAIN store = Dirs /\ wish \in [Dirs -> Metas]
      BY <1>1, GoesFacts DEF PipeInv
  <2>4. /\ store' = [store EXCEPT ![d] = Pipeline!NoDir]
        /\ wish' = [wish EXCEPT ![d] = Pipeline!Plain]
        /\ torn' = IF Pipeline!Merging(p, d) THEN torn \cup {d} ELSE torn \ {d}
      BY <1>3, <2>1 DEF Pipeline!Deletes
  <2>5. /\ DOMAIN store' = Dirs /\ store'[d] = Pipeline!NoDir /\ wish'[d] = Pipeline!Plain
        /\ \A e \in Dirs \ {d} :
                store'[e] = store[e] /\ wish'[e] = wish[e] /\ (e \in torn' <=> e \in torn)
        /\ wish' \in [Dirs -> Metas] /\ (Pipeline!Merging(p, d) => d \in torn')
      BY <2>3, <2>4, PlainFacts
  <2>6. DirOk(d)'
    <3>1. /\ DOMAIN Pipeline!NoDir = DirFields /\ Pipeline!NoDir.script = "none"
          /\ Pipeline!NoDir.notes = "none" /\ Pipeline!NoDir.audio = "none"
          /\ Pipeline!NoDir.meta = Pipeline!Plain
        BY DEF Pipeline!NoDir, DirFields
    <3> QED
        BY <2>5, <3>1, PlainFacts DEF DirOk, HasText, Pipeline!Scripts
  <2>7. d \in Pipeline!AtHand(work[p])
      BY <2>1 DEF Pipeline!AtHand
  <2> QED
      BY <1>1, <2>2, <2>3, <2>5, <2>6, <2>7, OneWriter
<1> QED
    BY <1>2, <1>3

\* Where a command goes on after meta.toml; a batch that was in its last stage has
\* done the note.
LEMMA AfterMergeFacts ==
    ASSUME NEW w, Placed(w), w.pc = "merge", NEW x, x = Pipeline!AfterMerge(w),
           x # Pipeline!AtRest
    PROVE  /\ DOMAIN x = WorkFields /\ x.op = w.op /\ x.queue = w.queue /\ x.had = w.had
           /\ x.note = w.note /\ x.skipped = w.skipped /\ x.failed = w.failed
           /\ x.taken = w.taken /\ x.saving = FALSE
           /\ x.meta \in Metas /\ x.set \in Metas /\ x.text \in Pipeline!Scripts
           /\ \/ x.op = "regen" /\ x.pc \in {"generate", "next"} /\ x.ok = w.ok
              \/ w.op \in {"transcribe", "force"} /\ x.pc = "index" /\ x.ok = w.ok
              \/ w.op \in {"transcribe", "force"} /\ x.pc = "next" /\ x.ok = w.ok \cup {w.note}
<1> DEFINE to(pc) == [w EXCEPT !.pc = pc, !.meta = Pipeline!Plain, !.text = "none",
                              !.saving = FALSE]
<1>10. w.op \in {"record", "tag", "regen"} => ~w.saving
    BY DEF Placed
<1>1. w.op \in {"record", "tag"} => x = Pipeline!AtRest
    BY <1>10 DEF Pipeline!AfterMerge
<1>6. ASSUME w.op \notin {"record", "tag", "regen"}, w.saving
      PROVE  x = [[w EXCEPT !.pc = "next", !.meta = Pipeline!Plain, !.text = "none",
                           !.saving = FALSE] EXCEPT !.ok = @ \cup {w.note}]
    BY <1>6 DEF Pipeline!AfterMerge
<1>7. ASSUME w.op = "regen", w.set.template
      PROVE  x = [w EXCEPT !.pc = "generate", !.set.template = FALSE]
    BY <1>7, <1>10 DEF Pipeline!AfterMerge
<1>8. ASSUME w.op = "regen", ~w.set.template PROVE x = to("next")
    BY <1>8, <1>10 DEF Pipeline!AfterMerge
<1>9. ASSUME w.op \notin {"record", "tag", "regen"}, ~w.saving PROVE x = to("index")
    BY <1>9 DEF Pipeline!AfterMerge
<1>2. CASE w.op = "regen" /\ w.set.template
  <2>1. x = [w EXCEPT !.pc = "generate", !.set = [@ EXCEPT !.template = FALSE]]
      BY <1>2, <1>7
  <2>2. [w.set EXCEPT !.template = FALSE] \in Metas /\ w.saving = FALSE
      BY <1>2 DEF Placed, Metas
  <2> QED
      BY <1>2, <2>1, <2>2 DEF Placed, WorkFields
<1>3. CASE w.op = "regen" /\ ~w.set.template
  <2>1. x = [w EXCEPT !.pc = "next", !.meta = Pipeline!Plain, !.text = "none",
                      !.saving = FALSE]
      BY <1>3, <1>8
  <2> QED
      BY <1>3, <2>1, PlainFacts DEF Placed, WorkFields, Pipeline!Scripts
<1>4. CASE w.op \notin {"record", "tag", "regen"} /\ ~w.saving
  <2>1. x = [w EXCEPT !.pc = "index", !.meta = Pipeline!Plain, !.text = "none",
                      !.saving = FALSE]
      BY <1>4, <1>9
  <2> QED
      BY <1>4, <2>1, PlainFacts DEF Placed, WorkFields, Pipeline!Scripts
<1>5. CASE w.op \notin {"record", "tag", "regen"} /\ w.saving
  <2>1. x = [w EXCEPT !.pc = "next", !.meta = Pipeline!Plain, !.text = "none",
                      !.saving = FALSE, !.ok = @ \cup {w.note}]
      BY <1>5, <1>6 DEF Placed, WorkFields
  <2> QED
      BY <1>5, <2>1, PlainFacts DEF Placed, WorkFields, Pipeline!Scripts
<1> QED
    BY <1>1, <1>2, <1>3, <1>4, <1>5

\* What is merged is what the user wants, if it was read and nobody wrote since.
LEMMA MergedFacts ==
    ASSUME NEW w, Placed(w), w.pc = "merge", NEW old \in Metas, NEW new,
           new = [tags |-> IF w.op = "tag" THEN w.set.tags ELSE old.tags,
                  template |-> old.template \/ (w.op = "regen" /\ w.set.template)]
    PROVE  /\ new \in Metas /\ Pipeline!Merged(w) \in Metas
           /\ w.meta = old => Pipeline!Merged(w) = new
<1>1. CASE w.op = "tag"
    BY <1>1 DEF Placed, Metas, Pipeline!Merged
<1>2. CASE w.op = "regen" /\ w.set.template
    BY <1>2 DEF Placed, Metas, Pipeline!Merged
<1>3. CASE w.op # "tag" /\ ~(w.op = "regen" /\ w.set.template)
    BY <1>3 DEF Placed, Metas, Pipeline!Merged
<1> QED
    BY <1>1, <1>2, <1>3

\* meta.toml is written back.
LEMMA MetaKeeps ==
    ASSUME PipeInv, NEW p \in Writers, Pipeline!WritesMeta(p)
    PROVE  PipeInv'
<1> DEFINE w == work[p]
           x == Pipeline!AfterMerge(w)
<1>0. PICK d \in Dirs : d = w.note
    BY DEF PipeInv, Fine, Placed, Pipeline!WritesMeta, Pipeline!At
<1> DEFINE new == [tags |-> IF w.op = "tag" THEN w.set.tags ELSE wish[d].tags,
                   template |-> wish[d].template \/ (w.op = "regen" /\ w.set.template)]
<1>1. /\ Pipeline!Goes(p, x) /\ w.pc = "merge"
      /\ store' = [store EXCEPT ![d].dir = TRUE, ![d].meta = Pipeline!Merged(w)]
      /\ wish' = [wish EXCEPT ![d] = new]
      /\ torn' = IF Pipeline!Merging(p, d) THEN torn \cup {d} ELSE torn
    BY <1>0 DEF Pipeline!WritesMeta, Pipeline!At
<1>2. /\ work'[p] = x /\ raced \subseteq raced' /\ Fine(w) /\ DirOk(d) /\ DOMAIN store = Dirs
      /\ wish \in [Dirs -> Metas] /\ Placed(w)
    BY <1>1, GoesFacts DEF PipeInv, Fine
<1>3. /\ new \in Metas /\ Pipeline!Merged(w) \in Metas
      /\ w.meta = wish[d] => Pipeline!Merged(w) = new
    BY <1>1, <1>2, MergedFacts
<1> HIDE DEF new
<1>4. /\ DOMAIN store' = Dirs /\ \A e \in Dirs \ {d} : store'[e] = store[e]
      /\ DOMAIN store'[d] = DirFields /\ store'[d].dir = TRUE
      /\ store'[d].meta = Pipeline!Merged(w) /\ store'[d].audio = store[d].audio
      /\ store'[d].script = store[d].script /\ store'[d].notes = store[d].notes
    BY <1>1, <1>2 DEF DirOk, DirFields
<1>5. /\ wish' \in [Dirs -> Metas] /\ wish'[d] = new
      /\ \A e \in Dirs \ {d} : wish'[e] = wish[e] /\ (e \in torn' <=> e \in torn)
      /\ Pipeline!Merging(p, d) => d \in torn'
      /\ d \notin torn' => d \notin torn
    BY <1>1, <1>2, <1>3
<1>6. d \notin torn' => store'[d].meta = wish'[d]
    BY <1>0, <1>1, <1>2, <1>3, <1>4, <1>5 DEF Fine, Current
<1>7. (\E q \in Writers : work[q].pc = "recording" /\ work[q].note = d)
        => \E q \in Writers : work'[q].pc = "recording" /\ work'[q].note = d
    BY <1>1 DEF PipeInv, Pipeline!Goes
<1>8. DirOk(d)'
    BY <1>2, <1>3, <1>4, <1>6, <1>7 DEF DirOk, HasText
<1>9. Fine(work[p])'
  <2>1. CASE x = Pipeline!AtRest
    <3>1. Fine(Pipeline!AtRest)'
        BY DEF Fine, Placed, Current, Queued, Reported, Done, Pipeline!AtRest, Pipeline!Plain,
           WorkFields, Metas, Pipeline!Scripts
    <3> QED
        BY <1>2, <2>1, <3>1
  <2>2. CASE x # Pipeline!AtRest
    <3>1. /\ DOMAIN x = WorkFields /\ x.op = w.op /\ x.queue = w.queue /\ x.had = w.had
          /\ x.note = w.note /\ x.skipped = w.skipped /\ x.failed = w.failed
          /\ x.taken = w.taken /\ x.saving = FALSE
          /\ x.meta \in Metas /\ x.set \in Metas /\ x.text \in Pipeline!Scripts
          /\ \/ x.op = "regen" /\ x.pc \in {"generate", "next"} /\ x.ok = w.ok
             \/ w.op \in {"transcribe", "force"} /\ x.pc = "index" /\ x.ok = w.ok
             \/ w.op \in {"transcribe", "force"} /\ x.pc = "next" /\ x.ok = w.ok \cup {w.note}
        BY <1>1, <1>2, <2>2, AfterMergeFacts
    <3> HIDE DEF x
    <3>2. Placed(work[p])' /\ Current(work[p])'
        BY <1>0, <1>1, <1>2, <3>1 DEF Fine, Placed, Current
    <3>3. \A e \in Dirs : /\ store'[e].notes = store[e].notes
                          /\ store'[e].script = store[e].script
        BY <1>4
    <3>4. Queued(work[p])'
        BY <1>1, <1>2, <3>1, <3>3 DEF Fine, Placed, Queued, HasText
    <3>5. Reported(work[p])'
      <4>1. CASE x.op = "regen"
          BY <1>2, <3>1, <4>1 DEF Reported
      <4>2. CASE w.op \in {"transcribe", "force"} /\ x.pc = "index" /\ x.ok = w.ok
          BY <1>0, <1>1, <1>2, <3>1, <3>3, <4>2 DEF Fine, Placed, Reported, Done
      <4>3. CASE /\ w.op \in {"transcribe", "force"} /\ x.pc = "next"
                 /\ x.ok = w.ok \cup {w.note}
          BY <1>0, <1>1, <1>2, <3>1, <3>3, <4>3 DEF Fine, Placed, Reported, Done
      <4> QED
          BY <3>1, <4>1, <4>2, <4>3
    <3> QED
        BY <3>2, <3>4, <3>5 DEF Fine
  <2> QED
      BY <2>1, <2>2
<1>10. d \in Pipeline!AtHand(w)
    BY <1>0 DEF Pipeline!AtHand
<1> HIDE DEF x
<1> QED
  <2>1. \A e \in Dirs \ {d} :
            store'[e] = store[e] /\ wish'[e] = wish[e] /\ (e \in torn' <=> e \in torn)
      BY <1>4, <1>5
  <2>2. work[p].pc # "recording" /\ Pipeline!Goes(p, x) /\ d \in Pipeline!AtHand(work[p])
      BY <1>1, <1>10
  <2>3. DOMAIN store' = Dirs /\ wish' \in [Dirs -> Metas]
      BY <1>4, <1>5
  <2>4. Pipeline!Merging(p, d) /\ d \notin torn' => d \notin torn /\ wish'[d] = wish[d]
      BY <1>5
  <2> QED
      BY <1>8, <1>9, <2>1, <2>2, <2>3, <2>4, OneWriter

\* Recordings wait, or have their notes.
LEMMA PipeInvInit == Pipeline!PipelineInit => PipeInv
<1> SUFFICES ASSUME Pipeline!PipelineInit PROVE PipeInv
    OBVIOUS
<1>1. /\ \A p \in Writers : work[p] = Pipeline!AtRest
      /\ DOMAIN work = Writers /\ DOMAIN store = Dirs
      /\ \A d \in Dirs : wish[d] = Pipeline!Plain
      /\ wish \in [Dirs -> Metas]
    BY PlainFacts DEF Pipeline!PipelineInit
<1>2. ASSUME NEW d \in Dirs PROVE DirOk(d)
  <2>1. store[d] \in {Pipeline!NoDir, Pipeline!Recorded, Pipeline!Noted}
      BY DEF Pipeline!PipelineInit
  <2>2. ASSUME NEW s \in {Pipeline!NoDir, Pipeline!Recorded, Pipeline!Noted}
        PROVE  /\ DOMAIN s = DirFields /\ s.script \in {"none", "whole"}
               /\ s.meta = Pipeline!Plain /\ (~s.dir => s = Pipeline!NoDir)
               /\ (s.notes # "none" => s.script = "whole") /\ s.audio # "growing"
    <3> DEFINE none == Pipeline!NoDir
               recorded == Pipeline!Recorded
    <3>1. /\ DOMAIN none = DirFields /\ none.script = "none" /\ none.meta = Pipeline!Plain
          /\ none.notes = "none" /\ none.audio = "none"
        BY DEF Pipeline!NoDir, DirFields
    <3>2. /\ DOMAIN recorded = DirFields /\ recorded.script = "none" /\ recorded.dir = TRUE
          /\ recorded.meta = Pipeline!Plain /\ recorded.notes = "none"
          /\ recorded.audio = "whole"
        BY DEF Pipeline!Recorded, Pipeline!Recording, Pipeline!NoDir, DirFields
    <3>3. Pipeline!Noted = [recorded EXCEPT !.script = "whole", !.notes = "whole"]
        BY DEF Pipeline!Noted
    <3> HIDE DEF recorded
    <3>4. /\ DOMAIN Pipeline!Noted = DirFields /\ Pipeline!Noted.script = "whole"
          /\ Pipeline!Noted.meta = Pipeline!Plain /\ Pipeline!Noted.audio = "whole"
          /\ Pipeline!Noted.dir = TRUE
        BY <3>2, <3>3 DEF DirFields
    <3> HIDE DEF none
    <3> QED
        BY <3>1, <3>2, <3>4 DEF none, recorded
  <2> QED
      BY <1>1, <2>1, <2>2, PlainFacts DEF DirOk, HasText, Pipeline!Scripts
<1>3. ASSUME NEW p \in Writers PROVE Fine(work[p])
    BY <1>1, RestFine
<1>4. Pipeline!AtHand(Pipeline!AtRest) = {}
    BY DEF Pipeline!AtHand, Pipeline!AtRest
<1> QED
    BY <1>1, <1>2, <1>3, <1>4 DEF PipeInv

\* Every step of every command keeps the invariant.
LEMMA PipeInvNext == PipeInv /\ [Pipeline!PipelineNext]_pipelineVars => PipeInv'
<1> SUFFICES ASSUME PipeInv, [Pipeline!PipelineNext]_pipelineVars PROVE PipeInv'
    OBVIOUS
<1>1. CASE UNCHANGED pipelineVars
    BY <1>1 DEF pipelineVars, PipeInv, DirOk, HasText, Fine, Placed, Current, Queued,
       Reported, Done
<1>2. ASSUME NEW p \in Writers,
             \/ Pipeline!StopsRecording(p) \/ Pipeline!ReadsMeta(p) \/ Pipeline!WritesMeta(p)
             \/ Pipeline!ResumesTranscript(p) \/ Pipeline!TakesNext(p)
             \/ Pipeline!StartsRegen(p) \/ Pipeline!LeavesEditor(p) \/ Pipeline!Deletes(p)
             \/ Pipeline!StopsDead(p)
      PROVE  PipeInv'
    BY <1>2, StopsKeeps, ReadsKeeps, MetaKeeps, ResumeKeeps, NextKeeps, RegenKeeps,
       EditorLeaves, DeleteKeeps, DeadKeeps
<1>3. ASSUME NEW p \in Writers, Pipeline!LoadsAudio(p) PROVE PipeInv'
    BY <1>3, FailsKeeps, WhisperKeeps DEF Pipeline!LoadsAudio, Pipeline!At
<1>4. ASSUME NEW p \in Writers, Pipeline!StageFails(p) PROVE PipeInv'
    BY <1>4, FailsKeeps DEF Pipeline!StageFails, Pipeline!At
<1>5. ASSUME NEW p \in Writers, Pipeline!BeginsNotes(p) PROVE PipeInv'
  <2>1. CASE store[work[p].note].script = "none" /\ Pipeline!Batch(p)
    <3> DEFINE w == work[p]
               x == [w EXCEPT !.pc = "next", !.failed = @ \cup {w.note}, !.saving = FALSE]
    <3>2. DOMAIN w = WorkFields /\ w.pc = "generate" /\ w.saving = FALSE
        BY <1>5 DEF Pipeline!BeginsNotes, Pipeline!At, PipeInv, Fine, Placed
    <3>3. x = [w EXCEPT !.pc = "next", !.failed = @ \cup {w.note}]
        BY <3>2 DEF WorkFields
    <3>4. /\ Pipeline!Goes(p, [w EXCEPT !.pc = "next", !.failed = @ \cup {w.note}])
          /\ UNCHANGED <<store, wish, torn>>
        BY <1>5, <2>1 DEF Pipeline!BeginsNotes
    <3>1. Pipeline!Fails(p) /\ UNCHANGED <<store, wish, torn>> /\ work[p].pc = "generate"
        BY <3>2, <3>3, <3>4 DEF Pipeline!Fails
    <3> QED
        BY <3>1, FailsKeeps
  <2>2. CASE store[work[p].note].script = "none" /\ ~Pipeline!Batch(p)
    <3>1. /\ Pipeline!Goes(p, Pipeline!AtRest) /\ UNCHANGED <<store, wish, torn>>
          /\ work[p].pc = "generate"
        BY <1>5, <2>2 DEF Pipeline!BeginsNotes, Pipeline!At
    <3> QED
        BY <3>1, Rests
  <2> QED
      BY <1>5, <2>1, <2>2, SkipKeeps, BeginKeeps
<1>6. ASSUME NEW p \in Writers, NEW result \in Pipeline!Scripts \ {"none"},
             Pipeline!HearsAudio(p, result)
      PROVE  PipeInv'
    BY <1>6, FailsKeeps, HearsKeeps DEF Pipeline!HearsAudio, Pipeline!At
<1>7. ASSUME NEW p \in Writers, Pipeline!WritesTranscript(p) PROVE PipeInv'
    BY <1>7, FailsKeeps, TranscriptKeeps DEF Pipeline!WritesTranscript, Pipeline!At
<1>8. ASSUME NEW p \in Writers, Pipeline!WritesNotes(p) PROVE PipeInv'
    BY <1>8, FailsKeeps, Rests, NotesKeep DEF Pipeline!WritesNotes, Pipeline!At
<1>9. ASSUME NEW p \in Writers, Pipeline!IndexesNote(p) PROVE PipeInv'
  <2>1. CASE Pipeline!Fails(p)
      BY <1>9, <2>1, FailsKeeps DEF Pipeline!IndexesNote, Pipeline!At
  <2>2. CASE ~Pipeline!Fails(p)
      BY <1>9, <2>2, IndexKeeps
  <2> QED
      BY <2>1, <2>2
<1>10. ASSUME NEW p \in Writers, Pipeline!Reports(p) PROVE PipeInv'
    BY <1>10, Rests DEF Pipeline!Reports, Pipeline!At
<1>11. ASSUME NEW p \in Writers, NEW forced \in BOOLEAN,
              NEW n \in 1 .. Pipeline!Cardinality(Dirs), Pipeline!StartsTranscribe(p, forced, n)
       PROVE  PipeInv'
    BY <1>11, QueueKeeps
<1>12. ASSUME NEW p \in Writers, NEW d \in Dirs,
              \/ Pipeline!StartsRecording(p, d) \/ Pipeline!TagsNote(p, d)
              \/ Pipeline!OpensEditor(p, d) \/ Pipeline!AsksDelete(p, d)
              \/ \E template \in BOOLEAN : Pipeline!RegensOne(p, d, template)
       PROVE  PipeInv'
    BY <1>12, RecordKeeps, TagKeeps, EditorKeeps, AsksKeeps, RegenOneKeeps
<1> QED
    BY <1>1, <1>2, <1>3, <1>4, <1>5, <1>6, <1>7, <1>8, <1>9, <1>10, <1>11, <1>12
       DEF Pipeline!PipelineNext

\* The invariant holds of the library.
LEMMA PipeInvHolds == Spec => []PipeInv
<1>1. Init => PipeInv
    BY PipeInvInit DEF Init
<1>2. PipeInv /\ [Next]_vars => PipeInv'
  <2>1. [Next]_vars => [Pipeline!PipelineNext]_pipelineVars
      BY DEF Next, vars, pipelineVars
  <2> QED
      BY <2>1, PipeInvNext
<1> QED
    BY <1>1, <1>2, PTL DEF Spec

\* What `chirp transcribe` reports when it ends is so, of any number of notes: each
\* note of its queue is counted once, and what it says of one that no other command
\* had at hand is true (transcriber/batch_processor.py, run_queue).
THEOREM ReportsStayTrue == Spec => []ReportIsTrue
<1>1. PipeInv => ReportIsTrue
    BY DEF PipeInv, Fine, Reported, Done, ReportIsTrue, Pipeline!ReportIsTrue, Pipeline!At,
       Pipeline!Batch
<1> QED
    BY <1>1, PipeInvHolds, PTL

\* A note that is taken for done has the transcript of its whole recording, whatever
\* was killed on the way (notes/note_generator.py, _is_complete).
THEOREM CompleteStaysWhole == Spec => []CompleteIsWhole
<1>1. PipeInv => CompleteIsWhole
    BY DEF PipeInv, DirOk, CompleteIsWhole, Pipeline!CompleteIsWhole, Pipeline!IsComplete,
       Pipeline!HasTranscript, Pipeline!Scripts
<1> QED
    BY <1>1, PipeInvHolds, PTL

\* Tags and templates outlive the commands that rewrite meta.toml hours after they
\* began (utils/file_utils.py, merge_note_meta).
THEOREM WishesStay == Spec => []WishesKept
<1>1. PipeInv => WishesKept
    BY DEF PipeInv, DirOk, WishesKept, Pipeline!WishesKept
<1> QED
    BY <1>1, PipeInvHolds, PTL

-----------------------------------------------------------------------------
(* The questions *)

ChatFields == {"pc", "fresh", "q", "asked", "ground", "over", "armed", "once"}

\* What a session that asks knows of the index; seen says that the index lacked
\* nothing when the session recorded it as fresh.
Informed(c, seen) ==
    /\ DOMAIN c = ChatFields
    /\ c.fresh \in 0 .. MaxEdits + 1 /\ c.asked \in 0 .. corpus /\ c.ground \in 0 .. corpus
    /\ seen =>
        /\ c.fresh <= MaxEdits => c.fresh <= indexed
        /\ c.pc = "search" => c.asked <= indexed
        /\ c.pc \in {"lookup", "stream", "store"} => c.asked <= c.ground

FreshInv ==
    /\ corpus \in 0 .. MaxEdits /\ known \in 0 .. corpus /\ indexed \in 0 .. corpus
    /\ DOMAIN chat = Sessions
    /\ \A s \in Sessions : Informed(chat[s], s \notin missed)

\* One session goes on, the others know what they knew.
LEMMA OneSession ==
    ASSUME FreshInv, NEW s \in Sessions,
           corpus' = corpus, known' \in 0 .. corpus, indexed' \in indexed .. corpus,
           DOMAIN chat' = Sessions, \A r \in Sessions \ {s} : chat'[r] = chat[r],
           \A r \in Sessions \ {s} : r \in missed' <=> r \in missed,
           Informed(chat[s], s \notin missed)'
    PROVE  FreshInv'
<1>1. ASSUME NEW r \in Sessions PROVE Informed(chat[r], r \notin missed)'
  <2>1. CASE r = s
      BY <2>1
  <2>2. CASE r # s
      BY <2>2 DEF FreshInv, Informed
  <2> QED
      BY <2>1, <2>2
<1> QED
  BY <1>1 DEF FreshInv

\* The answer is there, or none is to be had: the session is back at its prompt.
LEMMA AnsweredKeeps ==
    ASSUME FreshInv, NEW s \in Sessions, Ask!Answered(s),
           UNCHANGED <<corpus, known, indexed, missed>>
    PROVE  FreshInv'
<1>1. /\ DOMAIN chat' = Sessions /\ \A r \in Sessions \ {s} : chat'[r] = chat[r]
      /\ DOMAIN chat'[s] = ChatFields /\ chat'[s].pc = "prompt" /\ chat'[s].asked = 0
      /\ chat'[s].ground = 0 /\ chat'[s].fresh \in {MaxEdits + 1, chat[s].fresh}
    BY DEF FreshInv, Ask!Answered, Ask!Prompt, ChatFields
<1> QED
    BY <1>1, OneSession DEF FreshInv, Informed

\* A session that only moves on.
LEMMA StepKeeps ==
    ASSUME FreshInv, NEW s \in Sessions,
           chat[s].pc \in {"lookup", "stream", "store", "count", "prompt"},
           NEW to \in {"stream", "store", "count", "gone"},
           chat' = [chat EXCEPT ![s].pc = to],
           to \in {"stream", "store"} => chat[s].pc \in {"lookup", "stream"},
           UNCHANGED <<corpus, known, indexed, missed>>
    PROVE  FreshInv'
<1>1. /\ DOMAIN chat' = Sessions /\ \A r \in Sessions \ {s} : chat'[r] = chat[r]
      /\ DOMAIN chat'[s] = ChatFields /\ chat'[s].pc = to /\ chat'[s].asked = chat[s].asked
      /\ chat'[s].ground = chat[s].ground /\ chat'[s].fresh = chat[s].fresh
    BY DEF FreshInv, Informed, ChatFields
<1> QED
    BY <1>1, OneSession DEF FreshInv, Informed

\* At the prompt.
LEMMA PromptKeeps ==
    ASSUME FreshInv, NEW s \in Sessions,
           \/ \E q \in Questions : Ask!Asks(s, q) \/ Ask!AsksOnce(s, q)
           \/ Ask!Leaves(s) \/ Ask!PressesCtrlC(s) \/ Ask!HidesHint(s)
    PROVE  FreshInv'
<1>1. UNCHANGED <<corpus, known, indexed, missed>>
    BY DEF Ask!Asks, Ask!AsksOnce, Ask!Leaves, Ask!PressesCtrlC, Ask!HidesHint
<1>2. DOMAIN chat = Sessions /\ DOMAIN chat[s] = ChatFields /\ Informed(chat[s], s \notin missed)
    BY DEF FreshInv, Informed
<1>3. ASSUME /\ DOMAIN chat' = Sessions /\ \A r \in Sessions \ {s} : chat'[r] = chat[r]
             /\ DOMAIN chat'[s] = ChatFields /\ chat'[s].pc \in {"prompt", "gone", "fresh"}
             /\ chat'[s].asked \in {chat[s].asked, corpus}
             /\ chat'[s].ground = chat[s].ground /\ chat'[s].fresh = chat[s].fresh
      PROVE  FreshInv'
    BY <1>1, <1>2, <1>3, OneSession DEF FreshInv, Informed
<1>4. ASSUME NEW q \in Questions, Ask!Asks(s, q) PROVE FreshInv'
    BY <1>2, <1>3, <1>4 DEF Ask!Asks, ChatFields
<1>5. ASSUME NEW q \in Questions, Ask!AsksOnce(s, q) PROVE FreshInv'
    BY <1>2, <1>3, <1>5 DEF Ask!AsksOnce, ChatFields
<1>6. CASE Ask!Leaves(s)
    BY <1>2, <1>3, <1>6 DEF Ask!Leaves, ChatFields
<1>7. CASE Ask!PressesCtrlC(s) \/ Ask!HidesHint(s)
    BY <1>2, <1>3, <1>7 DEF Ask!PressesCtrlC, Ask!HidesHint, ChatFields
<1> QED
    BY <1>4, <1>5, <1>6, <1>7

\* From the question to the search.
LEMMA RetrieveKeeps ==
    ASSUME FreshInv, NEW s \in Sessions,
           \/ Ask!FindsFresh(s) \/ Ask!BuildsIndex(s) \/ Ask!RecordsFreshness(s)
           \/ Ask!Searches(s)
    PROVE  FreshInv'
<1>1. /\ corpus' = corpus /\ known' \in 0 .. corpus /\ indexed' \in indexed .. corpus
      /\ \A r \in Sessions \ {s} : r \in missed' <=> r \in missed
    BY DEF FreshInv, Ask!FindsFresh, Ask!BuildsIndex, Ask!Built, Ask!RecordsFreshness, Ask!Searches
<1>2. Informed(chat[s], s \notin missed) /\ DOMAIN chat = Sessions
    BY DEF FreshInv
<1>3. CASE Ask!FindsFresh(s)
  <2>1. /\ DOMAIN chat' = Sessions /\ \A r \in Sessions \ {s} : chat'[r] = chat[r]
        /\ DOMAIN chat'[s] = ChatFields /\ chat'[s].pc = "search"
        /\ chat'[s].asked = chat[s].asked
        /\ chat'[s].ground = chat[s].ground /\ chat'[s].fresh = chat[s].fresh
      BY <1>2, <1>3 DEF Informed, ChatFields, Ask!FindsFresh, Ask!Step
  <2>2. Informed(chat[s], s \notin missed)'
      BY <1>2, <1>3, <2>1 DEF FreshInv, Informed, Ask!FindsFresh, Ask!IndexIsFresh
  <2> QED
      BY <1>1, <2>1, <2>2, OneSession
<1>4. CASE Ask!BuildsIndex(s)
  <2>1. /\ DOMAIN chat' = Sessions /\ \A r \in Sessions \ {s} : chat'[r] = chat[r]
        /\ DOMAIN chat'[s] = ChatFields /\ chat'[s].pc = "record"
        /\ chat'[s].asked = chat[s].asked
        /\ chat'[s].ground = chat[s].ground /\ chat'[s].fresh = chat[s].fresh
      BY <1>2, <1>4 DEF Informed, ChatFields, Ask!BuildsIndex, Ask!Step
  <2>2. Informed(chat[s], s \notin missed)'
      BY <1>2, <1>4, <2>1 DEF FreshInv, Informed, Ask!BuildsIndex, Ask!Built
  <2> QED
      BY <1>1, <2>1, <2>2, OneSession
<1>5. CASE Ask!RecordsFreshness(s)
  <2>1. /\ DOMAIN chat' = Sessions /\ \A r \in Sessions \ {s} : chat'[r] = chat[r]
        /\ DOMAIN chat'[s] = ChatFields /\ chat'[s].pc = "search"
        /\ chat'[s].asked = chat[s].asked
        /\ chat'[s].ground = chat[s].ground /\ chat'[s].fresh = corpus
      BY <1>2, <1>5 DEF Informed, ChatFields, Ask!RecordsFreshness
  <2>2. Informed(chat[s], s \notin missed)'
      BY <1>2, <1>5, <2>1 DEF FreshInv, Informed, Ask!RecordsFreshness
  <2> QED
      BY <1>1, <2>1, <2>2, OneSession
<1>6. CASE Ask!Searches(s)
  <2>1. /\ DOMAIN chat' = Sessions /\ \A r \in Sessions \ {s} : chat'[r] = chat[r]
        /\ DOMAIN chat'[s] = ChatFields /\ chat'[s].pc = "lookup"
        /\ chat'[s].asked = chat[s].asked
        /\ chat'[s].ground = indexed /\ chat'[s].fresh = chat[s].fresh
      BY <1>2, <1>6 DEF Informed, ChatFields, Ask!Searches
  <2>2. Informed(chat[s], s \notin missed)'
      BY <1>2, <1>6, <2>1 DEF FreshInv, Informed, Ask!Searches
  <2> QED
      BY <1>1, <2>1, <2>2, OneSession
<1> QED
    BY <1>3, <1>4, <1>5, <1>6

\* From the search to the answer.
LEMMA AnswerKeeps ==
    ASSUME FreshInv, NEW s \in Sessions,
           \/ Ask!FindsNothing(s) \/ Ask!HitsCache(s) \/ Ask!FindsExpired(s)
           \/ Ask!MissesCache(s) \/ Ask!StreamEnds(s) \/ Ask!StreamFails(s)
           \/ Ask!StoresAnswer(s) \/ Ask!CountsFiles(s) \/ Ask!EvictsOldest(s)
    PROVE  FreshInv'
<1>1. UNCHANGED <<corpus, known, indexed, missed>>
    BY DEF Ask!FindsNothing, Ask!HitsCache, Ask!FindsExpired, Ask!MissesCache,
       Ask!StreamEnds, Ask!StreamFails, Ask!StoresAnswer, Ask!CountsFiles, Ask!EvictsOldest
<1>2. CASE Ask!Answered(s)
    BY <1>1, <1>2, AnsweredKeeps
<1>3. CASE Ask!FindsExpired(s) \/ Ask!MissesCache(s)
    BY <1>1, <1>3, StepKeeps DEF Ask!FindsExpired, Ask!MissesCache, Ask!Step
<1>4. CASE Ask!StreamEnds(s) \/ Ask!StoresAnswer(s)
    BY <1>1, <1>4, StepKeeps DEF Ask!StreamEnds, Ask!StoresAnswer, Ask!Step
<1>5. CASE chat[s].pc = "count"
           /\ chat' = [chat EXCEPT ![s].pc = "evict", ![s].over = Len(cache) - CacheMax]
  <2>1. /\ DOMAIN chat' = Sessions /\ \A r \in Sessions \ {s} : chat'[r] = chat[r]
        /\ DOMAIN chat'[s] = ChatFields /\ chat'[s].pc = "evict"
        /\ chat'[s].asked = chat[s].asked
        /\ chat'[s].ground = chat[s].ground /\ chat'[s].fresh = chat[s].fresh
      BY <1>5 DEF FreshInv, Informed, ChatFields
  <2> QED
      BY <1>1, <2>1, OneSession DEF FreshInv, Informed
<1> QED
    BY <1>2, <1>3, <1>4, <1>5
       DEF Ask!FindsNothing, Ask!HitsCache, Ask!StreamFails, Ask!CountsFiles, Ask!EvictsOldest

\* Every step of every session keeps the invariant.
LEMMA FreshInvNext == FreshInv /\ [Ask!AskNext]_askVars => FreshInv'
<1> SUFFICES ASSUME FreshInv, [Ask!AskNext]_askVars PROVE FreshInv'
    OBVIOUS
<1>1. CASE Ask!EditNote
    BY <1>1 DEF FreshInv, Ask!EditNote, Informed
<1>3. CASE Ask!IndexedElsewhere
    BY <1>3 DEF FreshInv, Ask!IndexedElsewhere, Ask!Built, Informed
<1>2. CASE Ask!SwitchChat \/ Ask!ClearsCache \/ UNCHANGED askVars
    BY <1>2 DEF FreshInv, Ask!SwitchChat, Ask!ClearsCache, askVars, Informed
<1> QED
    BY <1>1, <1>2, <1>3, PromptKeeps, RetrieveKeeps, AnswerKeeps DEF Ask!AskNext

\* However many sessions ask while notes are edited, an answer's context is as new
\* as the notes were when the question was asked, in the sessions that did not record
\* as fresh an index that lacked a note (retrieval.py, retrieve_context).
THEOREM ContextStaysFresh == Spec => []ContextIsFresh
<1>1. Init => FreshInv
    BY DEF Init, Ask!AskInit, Ask!Prompt, FreshInv, Informed, ChatFields
<1>2. FreshInv /\ [Next]_vars => FreshInv'
  <2>1. [Next]_vars => [Ask!AskNext]_askVars
    BY DEF Next, vars, askVars
  <2> QED
    BY <2>1, FreshInvNext
<1>3. FreshInv => ContextIsFresh
    BY DEF FreshInv, Informed, ContextIsFresh, Ask!ContextIsFresh
<1> QED
    BY <1>1, <1>2, <1>3, PTL DEF Spec
-----------------------------------------------------------------------------
(* The types of the directories *)

Works == {"none", "record", "transcribe", "force", "regen", "tag", "edit", "delete"}

\* A directory; the notes in it are of a transcript, or the user's.
DirTyped(r) ==
    /\ r.dir \in BOOLEAN /\ r.audio \in {"none", "growing", "whole"}
    /\ r.notes \in {"none", "empty", "part", "whole", "mine"}

\* A command; one that waits for the language model has a transcript worth it.
WorkTyped(w) ==
    /\ w.op \in Works /\ w.pc \in Pipeline!Steps
    /\ w.had \subseteq Dirs /\ w.ok \subseteq Dirs /\ w.skipped \subseteq Dirs
    /\ w.failed \subseteq Dirs
    /\ w.pc = "idle" => w.note = 0
    /\ w.pc = "llm" => w.text \in {"part", "whole"}

PipeTypes ==
    /\ \A d \in Dirs : DirTyped(store[d])
    /\ \A p \in Writers : WorkTyped(work[p])
    /\ raced \subseteq Dirs /\ torn \subseteq Dirs
    /\ commands \in 0 .. Commands /\ setbacks \in 0 .. Setbacks

\* A command goes on.
LEMMA WorkMoves ==
    ASSUME PipeInv, PipeInv', PipeTypes, NEW p \in Writers, NEW w, WorkTyped(w),
           Pipeline!Goes(p, w), \A d \in Dirs : DirTyped(store'[d]), torn' \subseteq Dirs,
           commands' \in 0 .. Commands, setbacks' \in 0 .. Setbacks
    PROVE  PipeTypes'
<1>1. work'[p] = w /\ \A q \in Writers \ {p} : work'[q] = work[q]
    BY DEF Pipeline!Goes, PipeInv
<1>2. w.queue \subseteq Dirs /\ (w.pc # "idle" => w.note \in Dirs)
    BY <1>1 DEF PipeInv, Fine, Placed
<1>3. Pipeline!AtHand(w) \subseteq Dirs
    BY <1>2 DEF WorkTyped, Pipeline!AtHand
<1>4. raced' \subseteq Dirs
    BY <1>3 DEF PipeTypes, Pipeline!Goes
<1>5. ASSUME NEW q \in Writers PROVE WorkTyped(work'[q])
    BY <1>1 DEF PipeTypes
<1> QED
    BY <1>4, <1>5 DEF PipeTypes

LEMMA StoreStays ==
    ASSUME PipeTypes, store' = store
    PROVE  \A d \in Dirs : DirTyped(store'[d])
BY DEF PipeTypes

LEMMA RestTyped == WorkTyped(Pipeline!AtRest)
BY DEF WorkTyped, Works, Pipeline!AtRest, Pipeline!Steps

\* To another place.
LEMMA PlaceTyped ==
    ASSUME PipeInv, PipeTypes, NEW p \in Writers, work[p].pc # "idle",
           NEW pc \in Pipeline!Steps \ {"idle", "llm"}
    PROVE  WorkTyped([work[p] EXCEPT !.pc = pc])
BY DEF PipeInv, Fine, Placed, PipeTypes, WorkTyped, WorkFields

LEMMA FailTyped ==
    ASSUME PipeInv, PipeTypes, NEW p \in Writers, work[p].pc # "idle"
    PROVE  WorkTyped([work[p] EXCEPT !.pc = "next", !.failed = @ \cup {work[p].note},
                                  !.saving = FALSE])
<1>1. work[p].note \in Dirs /\ WorkTyped(work[p]) /\ DOMAIN work[p] = WorkFields
    BY DEF PipeInv, Fine, Placed, PipeTypes
<1> QED
    BY <1>1 DEF WorkTyped, WorkFields, Pipeline!Steps

\* A command begins, on what waits or on one directory.
LEMMA BeginTyped ==
    ASSUME PipeInv, PipeInv', PipeTypes, NEW p \in Writers, NEW w, WorkTyped(w),
           Pipeline!Begins(p, w), \A d \in Dirs : DirTyped(store'[d]),
           UNCHANGED <<torn, setbacks>>
    PROVE  PipeTypes'
<1>1. commands \in 0 .. Commands /\ commands > 0 /\ commands' = commands - 1
    BY DEF Pipeline!Begins, PipeTypes
<1>2. commands' \in 0 .. Commands
    BY <1>1
<1> QED
    BY <1>2, WorkMoves DEF Pipeline!Begins, PipeTypes

\* The steps that only move a command on, or fail it.
LEMMA PlainSteps ==
    ASSUME PipeInv, PipeInv', PipeTypes, NEW p \in Writers,
           \/ Pipeline!ReadsMeta(p) \/ Pipeline!LoadsAudio(p) \/ Pipeline!ResumesTranscript(p)
           \/ Pipeline!IndexesNote(p) \/ Pipeline!Reports(p) \/ Pipeline!TakesNext(p)
           \/ \E result \in Pipeline!Scripts \ {"none"} : Pipeline!HearsAudio(p, result)
    PROVE  PipeTypes'
<1>1. UNCHANGED <<store, torn, commands, setbacks>> /\ work[p].pc # "idle"
    BY DEF Pipeline!ReadsMeta, Pipeline!LoadsAudio, Pipeline!ResumesTranscript,
       Pipeline!IndexesNote, Pipeline!Reports, Pipeline!TakesNext, Pipeline!HearsAudio, Pipeline!At
<1>2. work[p].note \in Dirs /\ WorkTyped(work[p]) /\ DOMAIN work[p] = WorkFields
    BY <1>1 DEF PipeInv, Fine, Placed, PipeTypes
<1>3. ASSUME NEW w, WorkTyped(w), Pipeline!Goes(p, w) PROVE PipeTypes'
    BY <1>1, <1>3, StoreStays, WorkMoves DEF PipeTypes
<1>4. ASSUME NEW pc \in Pipeline!Steps \ {"idle", "llm"}, Pipeline!To(p, pc) PROVE PipeTypes'
    BY <1>1, <1>3, <1>4, PlaceTyped DEF Pipeline!To
<1>5. ASSUME Pipeline!Fails(p) PROVE PipeTypes'
    BY <1>1, <1>3, <1>5, FailTyped DEF Pipeline!Fails
<1>6. CASE Pipeline!ReadsMeta(p)
  <2>1. WorkTyped([work[p] EXCEPT !.pc = "merge", !.meta = store[work[p].note].meta])
      BY <1>2 DEF WorkTyped, WorkFields, Pipeline!Steps
  <2> QED
      BY <1>3, <1>6, <2>1 DEF Pipeline!ReadsMeta
<1>7. CASE Pipeline!LoadsAudio(p) \/ Pipeline!ResumesTranscript(p)
    BY <1>4, <1>5, <1>7 DEF Pipeline!LoadsAudio, Pipeline!ResumesTranscript, Pipeline!Steps
<1>8. CASE Pipeline!IndexesNote(p)
  <2>1. WorkTyped([work[p] EXCEPT !.pc = "read", !.saving = TRUE])
      BY <1>2 DEF WorkTyped, WorkFields, Pipeline!Steps
  <2> QED
      BY <1>3, <1>5, <1>8, <2>1 DEF Pipeline!IndexesNote
<1>9. CASE Pipeline!Reports(p)
    BY <1>3, <1>9, RestTyped DEF Pipeline!Reports
<1>10. CASE Pipeline!TakesNext(p)
  <2>1. WorkTyped([work[p] EXCEPT !.pc = "report", !.queue = {}, !.had = {}])
      BY <1>2 DEF WorkTyped, WorkFields, Pipeline!Steps
  <2>2. ASSUME NEW rest, NEW next, NEW pc \in {"load", "generate"}
        PROVE  WorkTyped([work[p] EXCEPT !.queue = rest, !.note = next,
                             !.had = @ \ {work[p].note}, !.pc = pc])
      BY <1>2 DEF WorkTyped, WorkFields, Pipeline!Steps
  <2> QED
      BY <1>3, <1>10, <2>1, <2>2 DEF Pipeline!TakesNext
<1>11. ASSUME NEW result \in Pipeline!Scripts \ {"none"}, Pipeline!HearsAudio(p, result)
       PROVE  PipeTypes'
  <2>1. WorkTyped([work[p] EXCEPT !.pc = "heard", !.text = result])
      BY <1>2 DEF WorkTyped, WorkFields, Pipeline!Steps
  <2> QED
      BY <1>3, <1>5, <1>11, <2>1 DEF Pipeline!HearsAudio
<1> QED
    BY <1>6, <1>7, <1>8, <1>9, <1>10, <1>11

\* A stage fails, or the process is killed.
LEMMA SetbackSteps ==
    ASSUME PipeInv, PipeInv', PipeTypes, NEW p \in Writers,
           Pipeline!StageFails(p) \/ Pipeline!StopsDead(p)
    PROVE  PipeTypes'
<1>1. setbacks' \in 0 .. Setbacks
    BY DEF PipeTypes, Pipeline!StageFails, Pipeline!StopsDead, Pipeline!Setback
<1>2. UNCHANGED <<torn, commands>>
    BY DEF Pipeline!StageFails, Pipeline!StopsDead
<1>3. CASE Pipeline!StageFails(p)
    BY <1>1, <1>2, <1>3, StoreStays, FailTyped, WorkMoves
       DEF PipeTypes, Pipeline!StageFails, Pipeline!Fails, Pipeline!At
<1>4. CASE Pipeline!StopsDead(p)
  <2>1. \A d \in Dirs : DirTyped(store'[d])
      BY <1>4 DEF PipeTypes, PipeInv, DirOk, DirTyped, DirFields, Pipeline!StopsDead
  <2> QED
      BY <1>1, <1>2, <1>4, <2>1, RestTyped, WorkMoves DEF PipeTypes, Pipeline!StopsDead
<1> QED
    BY <1>3, <1>4

\* The transcript and the notes.
LEMMA TextSteps ==
    ASSUME PipeInv, PipeInv', PipeTypes, NEW p \in Writers,
           \/ Pipeline!WritesTranscript(p) \/ Pipeline!BeginsNotes(p) \/ Pipeline!WritesNotes(p)
    PROVE  PipeTypes'
<1>1. UNCHANGED <<torn, commands, setbacks>> /\ work[p].pc # "idle"
    BY DEF Pipeline!WritesTranscript, Pipeline!BeginsNotes, Pipeline!WritesNotes, Pipeline!At
<1>2. work[p].note \in Dirs /\ WorkTyped(work[p]) /\ DOMAIN work[p] = WorkFields
    BY <1>1 DEF PipeInv, Fine, Placed, PipeTypes
<1>3. ASSUME NEW w, WorkTyped(w), Pipeline!Goes(p, w), \A d \in Dirs : DirTyped(store'[d])
      PROVE  PipeTypes'
    BY <1>1, <1>3, WorkMoves DEF PipeTypes
<1>4. ASSUME NEW pc \in Pipeline!Steps \ {"idle", "llm"}, Pipeline!To(p, pc),
             \A d \in Dirs : DirTyped(store'[d])
      PROVE  PipeTypes'
    BY <1>1, <1>3, <1>4, PlaceTyped DEF Pipeline!To
<1>5. ASSUME Pipeline!Fails(p), store' = store PROVE PipeTypes'
    BY <1>1, <1>3, <1>5, StoreStays, FailTyped DEF Pipeline!Fails
<1>6. CASE Pipeline!WritesTranscript(p)
  <2>1. ASSUME store' = [store EXCEPT ![work[p].note].script = work[p].text]
        PROVE  \A d \in Dirs : DirTyped(store'[d])
      BY <2>1 DEF PipeTypes, PipeInv, DirOk, DirTyped, DirFields
  <2> QED
      BY <1>4, <1>5, <1>6, <2>1 DEF Pipeline!WritesTranscript, Pipeline!Steps
<1>7. CASE Pipeline!WritesNotes(p)
  <2>1. work[p].text \in {"part", "whole"}
      BY <1>2, <1>7 DEF WorkTyped, Pipeline!WritesNotes, Pipeline!At
  <2>2. ASSUME store' = [store EXCEPT ![work[p].note].notes = work[p].text]
        PROVE  \A d \in Dirs : DirTyped(store'[d])
      BY <2>1, <2>2 DEF PipeTypes, PipeInv, DirOk, DirTyped, DirFields
  <2> QED
      BY <1>3, <1>4, <1>5, <1>7, <2>2, StoreStays, RestTyped
         DEF Pipeline!WritesNotes, Pipeline!Steps
<1>8. CASE Pipeline!BeginsNotes(p)
  <2> DEFINE d == work[p].note
             next == [work[p] EXCEPT !.pc = "next"]
  <2>1. store' = store /\ store[d].script \in Pipeline!Scripts
      BY <1>2, <1>8 DEF Pipeline!BeginsNotes, PipeInv, DirOk
  <2>2. /\ WorkTyped([next EXCEPT !.failed = @ \cup {d}])
        /\ WorkTyped([next EXCEPT !.skipped = @ \cup {d}])
      BY <1>2 DEF WorkTyped, WorkFields, Pipeline!Steps
  <2>3. ASSUME store[d].script \notin {"none", "empty", "short"}
        PROVE  WorkTyped([work[p] EXCEPT !.pc = "llm", !.text = store[d].script])
      BY <1>2, <2>1, <2>3 DEF WorkTyped, WorkFields, Pipeline!Steps, Pipeline!Scripts
  <2>4. \/ Pipeline!Goes(p, [next EXCEPT !.failed = @ \cup {d}])
        \/ Pipeline!Goes(p, Pipeline!AtRest)
        \/ Pipeline!Goes(p, [next EXCEPT !.skipped = @ \cup {d}])
        \/ /\ store[d].script \notin {"none", "empty", "short"}
           /\ Pipeline!Goes(p, [work[p] EXCEPT !.pc = "llm", !.text = store[d].script])
      BY <1>8 DEF Pipeline!BeginsNotes
  <2> QED
      BY <1>3, <2>1, <2>2, <2>3, <2>4, StoreStays, RestTyped
<1> QED
    BY <1>6, <1>7, <1>8

\* meta.toml, the recorder and the editor.
LEMMA MetaSteps ==
    ASSUME PipeInv, PipeInv', PipeTypes, NEW p \in Writers,
           \/ Pipeline!WritesMeta(p) \/ Pipeline!StopsRecording(p) \/ Pipeline!LeavesEditor(p)
           \/ Pipeline!Deletes(p)
    PROVE  PipeTypes'
<1>1. UNCHANGED <<commands, setbacks>> /\ work[p].pc # "idle"
    BY DEF Pipeline!WritesMeta, Pipeline!StopsRecording, Pipeline!LeavesEditor,
       Pipeline!Deletes, Pipeline!At
<1>2. work[p].note \in Dirs /\ WorkTyped(work[p]) /\ DOMAIN work[p] = WorkFields
      /\ work[p].set \in Metas
    BY <1>1 DEF PipeInv, Fine, Placed, PipeTypes
<1>3. torn' \subseteq Dirs
    BY <1>2 DEF PipeTypes, Pipeline!WritesMeta, Pipeline!StopsRecording,
       Pipeline!LeavesEditor, Pipeline!Deletes
<1>4. ASSUME NEW w, WorkTyped(w), Pipeline!Goes(p, w), \A d \in Dirs : DirTyped(store'[d])
      PROVE  PipeTypes'
    BY <1>1, <1>3, <1>4, WorkMoves DEF PipeTypes
<1>5. CASE Pipeline!WritesMeta(p)
  <2>1. \A d \in Dirs : DirTyped(store'[d])
    <3> DEFINE n == work[p].note
    <3>1. store' = [store EXCEPT ![n].dir = TRUE, ![n].meta = Pipeline!Merged(work[p])]
        BY <1>5 DEF Pipeline!WritesMeta
    <3>2. DOMAIN store = Dirs /\ n \in Dirs /\ DOMAIN store[n] = DirFields
        BY <1>2 DEF PipeInv, DirOk
    <3>3. store'[n].dir = TRUE /\ \A d \in Dirs \ {n} : store'[d] = store[d]
        BY <3>1, <3>2 DEF DirFields
    <3>4. store'[n].audio = store[n].audio /\ store'[n].notes = store[n].notes
        BY <3>1, <3>2 DEF DirFields
    <3> QED
        BY <3>2, <3>3, <3>4 DEF PipeTypes, DirTyped
  <2>2. WorkTyped(Pipeline!AfterMerge(work[p]))
    <3>1. ASSUME NEW pc \in {"next", "index"}
          PROVE  WorkTyped([work[p] EXCEPT !.pc = pc, !.meta = Pipeline!Plain, !.text = "none",
                                           !.saving = FALSE])
        BY <1>2 DEF WorkTyped, WorkFields, Pipeline!Steps
    <3>2. WorkTyped([work[p] EXCEPT !.pc = "generate", !.set.template = FALSE])
        BY <1>2 DEF WorkTyped, WorkFields, Pipeline!Steps
    <3>3. WorkTyped([[work[p] EXCEPT !.pc = "next", !.meta = Pipeline!Plain, !.text = "none",
                                     !.saving = FALSE] EXCEPT !.ok = @ \cup {work[p].note}])
        BY <1>2 DEF WorkTyped, WorkFields, Pipeline!Steps
    <3> QED
        BY <3>1, <3>2, <3>3, RestTyped DEF Pipeline!AfterMerge
  <2> QED
      BY <1>4, <1>5, <2>1, <2>2 DEF Pipeline!WritesMeta
<1>6. CASE Pipeline!StopsRecording(p)
  <2>1. \A d \in Dirs : DirTyped(store'[d])
      BY <1>6 DEF PipeTypes, PipeInv, DirOk, DirTyped, DirFields, Pipeline!StopsRecording
  <2> QED
      BY <1>1, <1>4, <1>6, <2>1, PlaceTyped
         DEF Pipeline!StopsRecording, Pipeline!To, Pipeline!Steps
<1>7. CASE Pipeline!LeavesEditor(p)
  <2>1. \A d \in Dirs : DirTyped(store'[d])
      BY <1>7 DEF PipeTypes, PipeInv, DirOk, DirTyped, DirFields, Pipeline!LeavesEditor
  <2> QED
      BY <1>4, <1>7, <2>1, RestTyped DEF Pipeline!LeavesEditor
<1>8. CASE Pipeline!Deletes(p)
  <2>1. DirTyped(Pipeline!NoDir)
      BY DEF DirTyped, Pipeline!NoDir
  <2>2. \A d \in Dirs : DirTyped(store'[d])
      BY <1>8, <2>1 DEF PipeTypes, PipeInv, Pipeline!Deletes
  <2> QED
      BY <1>4, <1>8, <2>2, RestTyped DEF Pipeline!Deletes
<1> QED
    BY <1>5, <1>6, <1>7, <1>8

\* A command that begins is of its type.
LEMMA BeginSteps ==
    ASSUME PipeInv, PipeInv', PipeTypes, NEW p \in Writers, NEW d \in Dirs,
           \/ Pipeline!StartsRecording(p, d) \/ Pipeline!TagsNote(p, d)
           \/ Pipeline!OpensEditor(p, d) \/ Pipeline!AsksDelete(p, d)
           \/ \E template \in BOOLEAN : Pipeline!RegensOne(p, d, template)
    PROVE  PipeTypes'
<1>1. UNCHANGED <<torn, setbacks>>
    BY DEF Pipeline!StartsRecording, Pipeline!TagsNote, Pipeline!OpensEditor,
       Pipeline!AsksDelete, Pipeline!RegensOne
<1>2. ASSUME NEW w, WorkTyped(w), Pipeline!Begins(p, w), \A e \in Dirs : DirTyped(store'[e])
      PROVE  PipeTypes'
    BY <1>1, <1>2, BeginTyped
<1>3. CASE Pipeline!StartsRecording(p, d)
  <2>1. DirTyped(Pipeline!Recording)
      BY DEF DirTyped, Pipeline!Recording, Pipeline!NoDir
  <2>2. \A e \in Dirs : DirTyped(store'[e])
      BY <1>3, <2>1 DEF PipeTypes, PipeInv, Pipeline!StartsRecording
  <2>3. WorkTyped([Pipeline!AtRest EXCEPT !.op = "record", !.pc = "recording", !.note = d])
      BY DEF WorkTyped, Works, Pipeline!AtRest, Pipeline!Steps
  <2> QED
      BY <1>2, <1>3, <2>2, <2>3 DEF Pipeline!StartsRecording
<1>4. CASE Pipeline!TagsNote(p, d)
  <2>1. WorkTyped([Pipeline!AtRest EXCEPT !.op = "tag", !.pc = "read", !.note = d,
                                          !.set.tags = ~store[d].meta.tags])
      BY DEF WorkTyped, Works, Pipeline!AtRest, Pipeline!Steps
  <2> QED
      BY <1>2, <1>4, <2>1, StoreStays DEF Pipeline!TagsNote
<1>5. CASE Pipeline!OpensEditor(p, d) \/ Pipeline!AsksDelete(p, d)
  <2>1. /\ WorkTyped([Pipeline!AtRest EXCEPT !.op = "edit", !.pc = "editing", !.note = d])
        /\ WorkTyped([Pipeline!AtRest EXCEPT !.op = "delete", !.pc = "confirm", !.note = d])
      BY DEF WorkTyped, Works, Pipeline!AtRest, Pipeline!Steps
  <2> QED
      BY <1>2, <1>5, <2>1, StoreStays DEF Pipeline!OpensEditor, Pipeline!AsksDelete
<1>6. ASSUME NEW template \in BOOLEAN, Pipeline!RegensOne(p, d, template) PROVE PipeTypes'
  <2>1. ASSUME NEW pc \in {"read", "generate"}
        PROVE  WorkTyped([Pipeline!AtRest EXCEPT !.op = "regen", !.queue = {d}, !.note = d,
                              !.set.template = template, !.pc = pc])
      BY DEF WorkTyped, Works, Pipeline!AtRest, Pipeline!Steps
  <2> QED
      BY <1>2, <1>6, <2>1, StoreStays DEF Pipeline!RegensOne
<1> QED
    BY <1>3, <1>4, <1>5, <1>6

\* A command that takes all that waits.
LEMMA QueueSteps ==
    ASSUME PipeInv, PipeInv', PipeTypes, NEW p \in Writers,
           \/ Pipeline!StartsRegen(p)
           \/ \E forced \in BOOLEAN, n \in 1 .. Pipeline!Cardinality(Dirs) :
                  Pipeline!StartsTranscribe(p, forced, n)
    PROVE  PipeTypes'
<1>1. ASSUME NEW w, WorkTyped(w), Pipeline!Begins(p, w), UNCHANGED <<store, torn, setbacks>>
      PROVE  PipeTypes'
    BY <1>1, StoreStays, BeginTyped
<1>2. CASE Pipeline!StartsRegen(p)
  <2>1. ASSUME NEW queue, NEW n
        PROVE  WorkTyped([Pipeline!AtRest EXCEPT !.op = "regen", !.pc = "generate",
                                                 !.queue = queue, !.note = n])
      BY DEF WorkTyped, Works, Pipeline!AtRest, Pipeline!Steps
  <2> QED
      BY <1>1, <1>2, <2>1 DEF Pipeline!StartsRegen
<1>3. ASSUME NEW forced \in BOOLEAN, NEW n, Pipeline!StartsTranscribe(p, forced, n)
      PROVE  PipeTypes'
  <2>1. ASSUME NEW queue, NEW had \in SUBSET Dirs, NEW first, NEW op \in {"force", "transcribe"}
        PROVE  WorkTyped([Pipeline!AtRest EXCEPT !.op = op, !.pc = "load", !.queue = queue,
                                                 !.taken = queue, !.note = first,
                                                 !.had = had])
      BY DEF WorkTyped, Works, Pipeline!AtRest, Pipeline!Steps
  <2>2. ASSUME NEW queue, queue \subseteq Pipeline!SelectQueue(forced)
        PROVE  {d \in queue : store[d].script # "none"} \in SUBSET Dirs
      BY <2>2 DEF Pipeline!SelectQueue, Pipeline!Listed
  <2> QED
      BY <1>1, <1>3, <2>1, <2>2 DEF Pipeline!StartsTranscribe
<1> QED
    BY <1>2, <1>3

LEMMA PipeTypesNext ==
    ASSUME PipeInv, PipeTypes, [Pipeline!PipelineNext]_pipelineVars
    PROVE  PipeTypes'
<1>1. PipeInv'
    BY PipeInvNext
<1>2. CASE UNCHANGED pipelineVars
    BY <1>2 DEF PipeTypes, pipelineVars
<1>3. CASE Pipeline!PipelineNext
    BY <1>1, <1>3, PlainSteps, SetbackSteps, TextSteps, MetaSteps, BeginSteps, QueueSteps
       DEF Pipeline!PipelineNext
<1> QED
    BY <1>2, <1>3

LEMMA PipeTypesInit == Pipeline!PipelineInit => PipeTypes
<1> SUFFICES ASSUME Pipeline!PipelineInit PROVE PipeTypes
    OBVIOUS
<1>1. DirTyped(Pipeline!NoDir) /\ DirTyped(Pipeline!Recorded) /\ DirTyped(Pipeline!Noted)
    BY DEF DirTyped, Pipeline!NoDir, Pipeline!Noted, Pipeline!Recorded, Pipeline!Recording
<1>2. \A d \in Dirs : DirTyped(store[d])
    BY <1>1 DEF Pipeline!PipelineInit
<1> QED
    BY <1>2, RestTyped DEF Pipeline!PipelineInit, PipeTypes

LEMMA PipeTypesOK == ASSUME PipeInv, PipeTypes PROVE Pipeline!PipelineTypeOK
<1>1. ASSUME NEW d \in Dirs
      PROVE  /\ store[d].dir \in BOOLEAN
             /\ store[d].audio \in {"none", "growing", "whole"}
             /\ store[d].script \in Pipeline!Scripts
             /\ store[d].notes \in {"none", "empty", "part", "whole", "mine"}
             /\ {store[d].meta, wish[d]} \subseteq [tags : BOOLEAN, template : BOOLEAN]
    BY DEF PipeInv, PipeTypes, DirOk, DirTyped, Metas
<1>2. ASSUME NEW p \in Writers
      PROVE  /\ work[p].op \in Works /\ work[p].pc \in Pipeline!Steps
             /\ work[p].text \in Pipeline!Scripts /\ work[p].note \in Dirs \cup {0}
             /\ work[p].queue \cup work[p].had \cup work[p].ok \cup work[p].skipped
                   \cup work[p].failed \cup work[p].taken \subseteq Dirs
             /\ work[p].saving \in BOOLEAN
    BY DEF PipeInv, PipeTypes, Fine, Placed, WorkTyped
<1> QED
    BY <1>1, <1>2 DEF Pipeline!PipelineTypeOK, PipeTypes, Works

-----------------------------------------------------------------------------
(* The chats and the cache of answers *)

\* A session with a question.
ChatTyped(c) ==
    /\ c.pc \in {"prompt", "fresh", "record", "search", "lookup", "stream", "store", "count",
                 "evict", "gone"}
    /\ c.q \in Questions \cup {"none"} /\ (c.pc \notin {"prompt", "gone"} => c.q \in Questions)
    /\ c.armed \in BOOLEAN /\ c.once \in BOOLEAN /\ c.over \in Nat

\* Of what is too much somebody has yet to count the files, or has counted so many
\* that what is left will do.
Evictor(c, n) == c.pc = "count" \/ (c.pc = "evict" /\ n <= c.over + CacheMax)

ChatInv ==
    /\ model \in Models /\ cache \in Seq(Ask!Entry) /\ missed \subseteq Sessions
    /\ \A s \in Sessions : ChatTyped(chat[s])
    /\ Len(cache) > CacheMax => \E s \in Sessions : Evictor(chat[s], Len(cache))

\* A session goes on; the cache does not grow, or by what this session will count.
LEMMA ChatMoves ==
    ASSUME FreshInv, ChatInv, NEW s \in Sessions, NEW c, ChatTyped(c),
           chat' = [chat EXCEPT ![s] = c], model' \in Models, missed' \subseteq Sessions,
           cache' \in Seq(Ask!Entry),
           \/ Len(cache') <= CacheMax \/ c.pc = "count"
           \/ Len(cache') <= Len(cache) /\ ~Evictor(chat[s], Len(cache))
           \/ Len(cache') <= Len(cache) /\ Evictor(c, Len(cache'))
    PROVE  ChatInv'
<1>1. chat'[s] = c /\ \A r \in Sessions \ {s} : chat'[r] = chat[r]
    BY DEF FreshInv
<1>2. \A r \in Sessions : ChatTyped(chat'[r])
    BY <1>1 DEF ChatInv
<1>3. Len(cache) \in Nat /\ Len(cache') \in Nat /\ \A r \in Sessions : chat[r].over \in Nat
    BY LenProperties DEF ChatInv, ChatTyped
<1>4. ASSUME Len(cache') > CacheMax PROVE \E r \in Sessions : Evictor(chat'[r], Len(cache'))
  <2>1. CASE c.pc = "count" \/ Evictor(c, Len(cache'))
      BY <1>1, <2>1 DEF Evictor
  <2>2. CASE Len(cache') <= Len(cache) /\ ~Evictor(chat[s], Len(cache))
    <3>1. Len(cache) > CacheMax
        BY <1>3, <1>4, <2>2
    <3>2. PICK r \in Sessions : Evictor(chat[r], Len(cache))
        BY <3>1 DEF ChatInv
    <3>3. r # s /\ chat'[r] = chat[r]
        BY <1>1, <2>2, <3>2
    <3>4. Evictor(chat[r], Len(cache'))
        BY <1>3, <2>2, <3>2 DEF Evictor
    <3> QED
        BY <3>3, <3>4
  <2> QED
      BY <1>3, <1>4, <2>1, <2>2
<1> QED
    BY <1>2, <1>4 DEF ChatInv

\* The cache less one of its files.
LEMMA OneLess ==
    ASSUME cache \in Seq(Ask!Entry), NEW i \in 1 .. Len(cache)
    PROVE  /\ Ask!RemoveAt(cache, i) \in Seq(Ask!Entry)
           /\ Len(Ask!RemoveAt(cache, i)) = Len(cache) - 1
<1>1. Len(cache) \in Nat /\ \A j \in 1 .. Len(cache) : cache[j] \in Ask!Entry
    BY LenProperties, ElementOfSeq
<1>2. SubSeq(cache, 1, i - 1) \in Seq(Ask!Entry) /\ Len(SubSeq(cache, 1, i - 1)) = i - 1
    BY <1>1, SubSeqProperties
<1>3. /\ SubSeq(cache, i + 1, Len(cache)) \in Seq(Ask!Entry)
      /\ Len(SubSeq(cache, i + 1, Len(cache))) = Len(cache) - i
    BY <1>1, SubSeqProperties
<1>4. PICK front \in Seq(Ask!Entry) : front = SubSeq(cache, 1, i - 1) /\ Len(front) = i - 1
    BY <1>2
<1>5. PICK back \in Seq(Ask!Entry) :
          back = SubSeq(cache, i + 1, Len(cache)) /\ Len(back) = Len(cache) - i
    BY <1>3
<1>6. front \o back \in Seq(Ask!Entry) /\ Len(front \o back) = Len(front) + Len(back)
    BY ConcatProperties
<1>7. Ask!RemoveAt(cache, i) = front \o back
    BY <1>4, <1>5 DEF Ask!RemoveAt
<1>8. Len(front) + Len(back) = Len(cache) - 1
  <2>1. ASSUME NEW n \in Nat, NEW k \in 1 .. n PROVE (k - 1) + (n - k) = n - 1
      OBVIOUS
  <2>2. (i - 1) + (Len(cache) - i) = Len(cache) - 1
      BY <1>1, <2>1
  <2>3. Len(front) = i - 1
      BY <1>4
  <2>4. Len(back) = Len(cache) - i
      BY <1>5
  <2> QED
      BY <2>2, <2>3, <2>4, Zenon
<1> QED
    BY <1>6, <1>7, <1>8

\* Back at the prompt, where nobody counts.
LEMMA AnsweredTyped ==
    ASSUME FreshInv, ChatInv, NEW s \in Sessions, Ask!Answered(s)
    PROVE  \E c : ChatTyped(c) /\ c.pc = "prompt" /\ chat' = [chat EXCEPT ![s] = c]
<1>1. PICK f : chat' = [chat EXCEPT ![s] = [Ask!Prompt EXCEPT !.fresh = f]]
    BY DEF Ask!Answered
<1>2. ChatTyped([Ask!Prompt EXCEPT !.fresh = f]) /\ [Ask!Prompt EXCEPT !.fresh = f].pc = "prompt"
    BY DEF Ask!Prompt, ChatTyped
<1> QED
    BY <1>1, <1>2

\* A session that moves on keeps its question.
LEMMA MoveTyped ==
    ASSUME FreshInv, ChatInv, NEW s \in Sessions, chat[s].pc \notin {"prompt", "gone"},
           NEW to \in {"record", "search", "lookup", "stream", "store", "count", "evict"}
    PROVE  /\ ChatTyped([chat[s] EXCEPT !.pc = to]) /\ [chat[s] EXCEPT !.pc = to].pc = to
BY DEF FreshInv, Informed, ChatFields, ChatInv, ChatTyped

\* The steps that leave the cache alone.
LEMMA ChatSteps ==
    ASSUME FreshInv, ChatInv, NEW s \in Sessions,
           \/ \E q \in Questions : Ask!Asks(s, q) \/ Ask!AsksOnce(s, q)
           \/ Ask!Leaves(s) \/ Ask!PressesCtrlC(s) \/ Ask!HidesHint(s)
           \/ Ask!FindsFresh(s) \/ Ask!BuildsIndex(s) \/ Ask!RecordsFreshness(s)
           \/ Ask!Searches(s) \/ Ask!FindsNothing(s) \/ Ask!HitsCache(s)
           \/ Ask!MissesCache(s) \/ Ask!StreamEnds(s) \/ Ask!StreamFails(s)
    PROVE  ChatInv'
<1>1. cache' = cache /\ model' = model /\ missed' \subseteq Sessions
    BY DEF ChatInv, Ask!Asks, Ask!AsksOnce, Ask!Leaves, Ask!PressesCtrlC, Ask!HidesHint,
       Ask!FindsFresh, Ask!BuildsIndex, Ask!RecordsFreshness, Ask!Searches, Ask!FindsNothing,
       Ask!HitsCache, Ask!MissesCache, Ask!StreamEnds, Ask!StreamFails
<1>2. chat[s].pc \notin {"count", "evict"} /\ ChatTyped(chat[s]) /\ DOMAIN chat[s] = ChatFields
  <2>1. ChatTyped(chat[s]) /\ DOMAIN chat[s] = ChatFields
      BY DEF FreshInv, Informed, ChatInv
  <2>2. Ask!Prompt.pc = "prompt"
      BY DEF Ask!Prompt
  <2>3. CASE \E q \in Questions : Ask!Asks(s, q) \/ Ask!AsksOnce(s, q)
      BY <2>1, <2>2, <2>3 DEF Ask!Asks, Ask!AsksOnce
  <2>4. CASE Ask!Leaves(s) \/ Ask!PressesCtrlC(s) \/ Ask!HidesHint(s) \/ Ask!FindsFresh(s)
             \/ Ask!BuildsIndex(s) \/ Ask!RecordsFreshness(s) \/ Ask!Searches(s)
      BY <2>1, <2>4 DEF Ask!Leaves, Ask!PressesCtrlC, Ask!HidesHint, Ask!FindsFresh,
         Ask!BuildsIndex, Ask!RecordsFreshness, Ask!Searches, Ask!Step
  <2>5. CASE Ask!FindsNothing(s) \/ Ask!HitsCache(s) \/ Ask!MissesCache(s)
             \/ Ask!StreamEnds(s) \/ Ask!StreamFails(s)
      BY <2>1, <2>5 DEF Ask!FindsNothing, Ask!HitsCache, Ask!MissesCache, Ask!StreamEnds,
         Ask!StreamFails, Ask!Step
  <2> QED
      BY <2>1, <2>3, <2>4, <2>5
<1>3. Len(cache') <= Len(cache) /\ ~Evictor(chat[s], Len(cache)) /\ model' \in Models
      /\ cache' \in Seq(Ask!Entry)
    BY <1>1, <1>2, LenProperties DEF ChatInv, Evictor
<1>4. ASSUME NEW c, ChatTyped(c), chat' = [chat EXCEPT ![s] = c] PROVE ChatInv'
    BY <1>1, <1>3, <1>4, ChatMoves
<1>5. CASE Ask!Answered(s)
    BY <1>4, <1>5, AnsweredTyped
<1>6. ASSUME NEW q \in Questions, Ask!Asks(s, q) PROVE ChatInv'
  <2>1. ChatTyped([chat[s] EXCEPT !.pc = "fresh", !.q = q, !.asked = corpus, !.armed = FALSE])
      BY <1>2 DEF ChatTyped, ChatFields
  <2> QED
      BY <1>4, <1>6, <2>1 DEF Ask!Asks
<1>7. ASSUME NEW q \in Questions, Ask!AsksOnce(s, q) PROVE ChatInv'
  <2>1. ChatTyped([chat[s] EXCEPT !.pc = "fresh", !.q = q, !.asked = corpus, !.once = TRUE])
      BY <1>2 DEF ChatTyped, ChatFields
  <2> QED
      BY <1>4, <1>7, <2>1 DEF Ask!AsksOnce
<1>8. CASE Ask!Leaves(s)
  <2>1. ChatTyped([chat[s] EXCEPT !.pc = "gone"])
      BY <1>2 DEF ChatTyped, ChatFields
  <2> QED
      BY <1>4, <1>8, <2>1 DEF Ask!Leaves
<1>9. CASE Ask!PressesCtrlC(s) \/ Ask!HidesHint(s)
  <2>1. ASSUME NEW b \in BOOLEAN PROVE ChatTyped([chat[s] EXCEPT !.armed = b])
      BY <1>2 DEF ChatTyped, ChatFields
  <2> QED
      BY <1>4, <1>9, <2>1 DEF Ask!PressesCtrlC, Ask!HidesHint
<1>10. CASE Ask!FindsFresh(s) \/ Ask!BuildsIndex(s) \/ Ask!MissesCache(s) \/ Ask!StreamEnds(s)
    BY <1>4, <1>10, MoveTyped DEF Ask!FindsFresh, Ask!BuildsIndex, Ask!MissesCache,
       Ask!StreamEnds, Ask!Step
<1>11. CASE Ask!RecordsFreshness(s)
  <2>1. ChatTyped([chat[s] EXCEPT !.pc = "search", !.fresh = corpus])
      BY <1>2, <1>11 DEF ChatTyped, ChatFields, Ask!RecordsFreshness
  <2> QED
      BY <1>4, <1>11, <2>1 DEF Ask!RecordsFreshness
<1>12. CASE Ask!Searches(s)
  <2>1. ChatTyped([chat[s] EXCEPT !.pc = "lookup", !.ground = indexed])
      BY <1>2, <1>12 DEF ChatTyped, ChatFields, Ask!Searches
  <2> QED
      BY <1>4, <1>12, <2>1 DEF Ask!Searches
<1> QED
    BY <1>5, <1>6, <1>7, <1>8, <1>9, <1>10, <1>11, <1>12
       DEF Ask!FindsNothing, Ask!HitsCache, Ask!StreamFails

\* The steps that write and clear the cache.
LEMMA CacheSteps ==
    ASSUME FreshInv, ChatInv, NEW s \in Sessions,
           Ask!FindsExpired(s) \/ Ask!StoresAnswer(s) \/ Ask!CountsFiles(s) \/ Ask!EvictsOldest(s)
    PROVE  ChatInv'
<1>1. model' \in Models /\ missed' \subseteq Sessions
    BY DEF ChatInv, Ask!FindsExpired, Ask!StoresAnswer, Ask!CountsFiles, Ask!EvictsOldest
<1>2. ChatTyped(chat[s]) /\ DOMAIN chat[s] = ChatFields /\ cache \in Seq(Ask!Entry)
      /\ Len(cache) \in Nat
    BY LenProperties DEF FreshInv, Informed, ChatInv
<1>3. CASE Ask!FindsExpired(s)
  <2>1. PICK i \in 1 .. Len(cache) : cache' = Ask!RemoveAt(cache, i)
      BY <1>3 DEF Ask!FindsExpired, Ask!Keyed
  <2>2. cache' \in Seq(Ask!Entry) /\ Len(cache') = Len(cache) - 1
      BY <1>2, <2>1, OneLess
  <2>3. Len(cache') <= Len(cache) /\ ~Evictor(chat[s], Len(cache))
      BY <1>2, <1>3, <2>2 DEF Evictor, Ask!FindsExpired, Ask!Step
  <2>4. /\ ChatTyped([chat[s] EXCEPT !.pc = "stream"])
        /\ chat' = [chat EXCEPT ![s] = [chat[s] EXCEPT !.pc = "stream"]]
      BY <1>3, MoveTyped DEF Ask!FindsExpired, Ask!Step
  <2> QED
      BY <1>1, <2>2, <2>3, <2>4, ChatMoves
<1>4. CASE Ask!StoresAnswer(s)
  <2> DEFINE file == [q |-> chat[s].q, m |-> model]
  <2>1. file \in Ask!Entry
      BY <1>2, <1>4 DEF ChatInv, ChatTyped, Ask!Entry, Ask!StoresAnswer, Ask!Step
  <2>2. PICK rest \in Seq(Ask!Entry) : cache' = Append(rest, file)
    <3>1. ASSUME NEW i \in Ask!Keyed(chat[s].q) PROVE Ask!RemoveAt(cache, i) \in Seq(Ask!Entry)
        BY <1>2, OneLess DEF Ask!Keyed
    <3> QED
        BY <1>2, <1>4, <3>1 DEF Ask!StoresAnswer
  <2>3. cache' \in Seq(Ask!Entry)
      BY <2>1, <2>2, AppendProperties
  <2>4. /\ ChatTyped([chat[s] EXCEPT !.pc = "count"])
        /\ [chat[s] EXCEPT !.pc = "count"].pc = "count"
        /\ chat' = [chat EXCEPT ![s] = [chat[s] EXCEPT !.pc = "count"]]
      BY <1>4, MoveTyped DEF Ask!StoresAnswer, Ask!Step
  <2> QED
      BY <1>1, <2>3, <2>4, ChatMoves
<1>5. CASE Ask!CountsFiles(s)
  <2>1. cache' = cache /\ chat[s].pc = "count"
      BY <1>5 DEF Ask!CountsFiles
  <2>2. CASE Len(cache) <= CacheMax
    <3>1. PICK c : ChatTyped(c) /\ chat' = [chat EXCEPT ![s] = c]
        BY <1>5, <2>2, AnsweredTyped DEF Ask!CountsFiles
    <3> QED
        BY <1>1, <1>2, <2>1, <2>2, <3>1, ChatMoves
  <2>3. CASE ~(Len(cache) <= CacheMax)
    <3> DEFINE c == [chat[s] EXCEPT !.pc = "evict", !.over = Len(cache) - CacheMax]
    <3>1. chat' = [chat EXCEPT ![s] = c]
        BY <1>5, <2>3 DEF Ask!CountsFiles
    <3>2. c.pc = "evict" /\ c.over = Len(cache) - CacheMax
        BY <1>2 DEF ChatFields
    <3>3. c.over \in Nat /\ Len(cache) <= c.over + CacheMax
        BY <1>2, <2>3, <3>2
    <3>4. ChatTyped(c)
      <4>1. c.q = chat[s].q /\ c.armed = chat[s].armed /\ c.once = chat[s].once
          BY <1>2 DEF ChatFields
      <4> QED
          BY <1>2, <2>1, <3>2, <3>3, <4>1 DEF ChatTyped
    <3>5. Evictor(c, Len(cache'))
        BY <2>1, <3>2, <3>3 DEF Evictor
    <3>6. Len(cache') <= Len(cache) /\ cache' \in Seq(Ask!Entry)
        BY <1>2, <2>1
    <3> HIDE DEF c
    <3> QED
        BY <1>1, <3>1, <3>4, <3>5, <3>6, ChatMoves
  <2> QED
      BY <2>2, <2>3
<1>6. CASE Ask!EvictsOldest(s)
  <2>1. PICK c : ChatTyped(c) /\ chat' = [chat EXCEPT ![s] = c]
      BY <1>6, AnsweredTyped DEF Ask!EvictsOldest
  <2>2. PICK over \in Nat : over = chat[s].over
      BY <1>2 DEF ChatTyped
  <2>3. cache' = SubSeq(cache, over + 1, Len(cache)) /\ chat[s].pc = "evict"
      BY <1>6, <2>2 DEF Ask!EvictsOldest
  <2>4. \A j \in over + 1 .. Len(cache) : cache[j] \in Ask!Entry
    <3>1. \A j \in 1 .. Len(cache) : cache[j] \in Ask!Entry
        BY <1>2, ElementOfSeq
    <3> QED
        BY <1>2, <3>1
  <2>5. /\ cache' \in Seq(Ask!Entry)
        /\ Len(cache') = IF over + 1 <= Len(cache) THEN Len(cache) - (over + 1) + 1 ELSE 0
    <3>1. over + 1 \in Int /\ Len(cache) \in Int
        BY <1>2
    <3> QED
        BY <2>3, <2>4, <3>1, SubSeqProperties
  <2>6. Len(cache') <= Len(cache) /\ (Len(cache) <= over + CacheMax => Len(cache') <= CacheMax)
      BY <1>2, <2>5
  <2>7. Len(cache') <= CacheMax \/ ~Evictor(chat[s], Len(cache))
      BY <2>2, <2>3, <2>6 DEF Evictor
  <2> QED
      BY <1>1, <2>1, <2>5, <2>6, <2>7, ChatMoves
<1> QED
    BY <1>3, <1>4, <1>5, <1>6

LEMMA ChatInvNext ==
    ASSUME FreshInv, ChatInv, [Ask!AskNext]_askVars
    PROVE  ChatInv'
<1>1. CASE Ask!EditNote \/ Ask!SwitchChat \/ Ask!IndexedElsewhere \/ UNCHANGED askVars
    BY <1>1 DEF ChatInv, Ask!EditNote, Ask!IndexedElsewhere, Ask!SwitchChat, askVars
<1>2. CASE Ask!ClearsCache
  <2>1. cache' \in Seq(Ask!Entry) /\ Len(cache') = 0
      BY <1>2 DEF Ask!ClearsCache
  <2> QED
      BY <1>2, <2>1 DEF ChatInv, Ask!ClearsCache
<1> QED
    BY <1>1, <1>2, ChatSteps, CacheSteps DEF Ask!AskNext

LEMMA ChatInvInit == Ask!AskInit => ChatInv
<1> SUFFICES ASSUME Ask!AskInit PROVE ChatInv
    OBVIOUS
<1>1. model \in Models /\ cache = <<>> /\ missed = {}
    BY DEF Ask!AskInit
<1>2. cache \in Seq(Ask!Entry) /\ Len(cache) = 0
    BY <1>1
<1>3. ChatTyped(Ask!Prompt)
    BY DEF ChatTyped, Ask!Prompt
<1>4. \A s \in Sessions : ChatTyped(chat[s])
    BY <1>3 DEF Ask!AskInit
<1>5. ~(Len(cache) > CacheMax)
    BY <1>2
<1> QED
    BY <1>1, <1>2, <1>4, <1>5 DEF ChatInv

LEMMA ChatTypesOK ==
    ASSUME FreshInv, ChatInv
    PROVE  Ask!ChatTypeOK /\ Ask!CacheBounded
<1>1. ASSUME NEW s \in Sessions
      PROVE  /\ {chat[s].asked, chat[s].ground} \subseteq 0 .. MaxEdits
             /\ {chat[s].armed, chat[s].once} \subseteq BOOLEAN
    BY DEF FreshInv, Informed, ChatInv, ChatTyped
<1>2. {corpus, known, indexed} \subseteq 0 .. MaxEdits
    BY DEF FreshInv
<1>3. Ask!CacheBounded
  <2>1. Len(cache) \in Nat
      BY LenProperties DEF ChatInv
  <2> QED
      BY <2>1 DEF ChatInv, Evictor, Ask!CacheBounded
<1> QED
    BY <1>1, <1>2, <1>3 DEF ChatInv, ChatTyped, Ask!ChatTypeOK

-----------------------------------------------------------------------------
\* The directories, the stores and the chats are of their types, and the cache of
\* answers is within its limit whenever nobody is storing one, however many processes
\* count its files and remove the oldest at the same time
\* (index.py, batch_processor.py, cache.py, _evict_if_needed).
THEOREM LibraryTypes == Spec => []TypeOK
<1> DEFINE Inv == FreshInv /\ ChatInv /\ PipeTypes
<1>1. Init => Inv
  <2>1. Init => FreshInv
      BY DEF Init, Ask!AskInit, Ask!Prompt, FreshInv, Informed, ChatFields
  <2> QED
      BY <2>1, ChatInvInit, PipeTypesInit DEF Init
<1>2. PipeInv /\ Inv /\ [Next]_vars => Inv'
  <2>1. [Next]_vars => [Ask!AskNext]_askVars /\ [Pipeline!PipelineNext]_pipelineVars
      BY DEF Next, vars, askVars, pipelineVars
  <2> QED
      BY <2>1, FreshInvNext, ChatInvNext, PipeTypesNext
<1>3. IndexInv => IndexTypeOK
    BY DEF IndexInv, IndexTypes, JobType, IndexTypeOK, Places
<1>4. PipeInv /\ IndexInv /\ Inv => TypeOK
    BY <1>3, PipeTypesOK, ChatTypesOK DEF TypeOK
<1> HIDE DEF Inv
<1> QED
    BY <1>1, <1>2, <1>4, PipeInvHolds, IndexInvHolds, PTL DEF Spec
=============================================================================
