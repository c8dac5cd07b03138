---------------------------- MODULE NotesPipeline ----------------------------
(***************************************************************************)
(* The directory of a note (audio.wav, transcript.txt, notes.md, meta.toml)*)
(* and the commands that work on it, each a process of its own and none    *)
(* with a lock: `chirp record`, `transcribe` (transcriber/                 *)
(* batch_processor.py), `transcribe --regen`, `notes tag`, `notes edit`    *)
(* and `notes delete` (chirp/cli.py, notes/note_generator.py,              *)
(* utils/file_utils.py).  Any of them may be killed.                       *)
(*                                                                         *)
(* A transcript is what it was made of: a recording still growing ("part") *)
(* or a whole one; "short" is one under MIN_TRANSCRIPT_CHARS.  Notes are   *)
(* the transcript they were made of, or when edited by hand "mine", or     *)
(* "empty" when nothing was left of them.                                  *)
(***************************************************************************)
EXTENDS Naturals, FiniteSets

CONSTANTS Dirs,       \* note directories, in the order of their created_at
          Writers,    \* commands at work at a time
          Commands,   \* how many commands are run
          Setbacks    \* how often a stage fails or a command is killed

VARIABLES
    store,     \* what each directory holds
    work,      \* what each process is doing
    wish,      \* history: the tags and the template the user last set
    raced,     \* history: directories two commands had at hand at a time
    torn,      \* history: directories whose meta.toml changed under a merge
    commands, setbacks   \* commands and setbacks that may still come

pipelineVars == <<store, work, wish, raced, torn, commands, setbacks>>

Plain == [tags |-> FALSE, template |-> FALSE]
NoDir == [dir |-> FALSE, audio |-> "none", script |-> "none", notes |-> "none", meta |-> Plain]

\* had: NoteRecords that had a transcript, keeps: what to do after the merge,
\* meta: meta.toml as read, set: the value to merge into it, text: the transcript
\* in memory, taken: the queue as it was selected, saving: in the last stage.
AtRest == [op |-> "none", pc |-> "idle", queue |-> {}, had |-> {}, note |-> 0,
           meta |-> Plain, set |-> Plain, text |-> "none", ok |-> {}, skipped |-> {}, failed |-> {},
           taken |-> {}, saving |-> FALSE]

Scripts == {"none", "empty", "short", "part", "whole"}
Steps == {"idle", "recording", "load", "whisper", "heard", "generate", "llm", "index", "read",
          "merge", "next", "report", "editing", "confirm"}

PipelineTypeOK ==
    /\ \A d \in Dirs :
        /\ store[d].dir \in BOOLEAN
        /\ store[d].audio \in {"none", "growing", "whole"}
        /\ store[d].script \in Scripts
        /\ store[d].notes \in {"none", "empty", "part", "whole", "mine"}
        /\ {store[d].meta, wish[d]} \subseteq [tags : BOOLEAN, template : BOOLEAN]
    /\ raced \subseteq Dirs /\ torn \subseteq Dirs
    /\ commands \in 0 .. Commands /\ setbacks \in 0 .. Setbacks
    /\ \A p \in Writers :
        /\ work[p].op \in {"none", "record", "transcribe", "force", "regen", "tag", "edit",
                           "delete"}
        /\ work[p].pc \in Steps /\ work[p].text \in Scripts
        /\ work[p].note \in Dirs \cup {0}
        /\ work[p].queue \cup work[p].had \cup work[p].ok \cup work[p].skipped
              \cup work[p].failed \cup work[p].taken \subseteq Dirs
        /\ work[p].saving \in BOOLEAN

Recording == [NoDir EXCEPT !.dir = TRUE, !.audio = "growing"]
Recorded == [Recording EXCEPT !.audio = "whole"]

Noted == [Recorded EXCEPT !.script = "whole", !.notes = "whole"]

\* Some recordings are waiting, some have their notes.
PipelineInit ==
    /\ store \in [Dirs -> {NoDir, Recorded, Noted}]
    /\ work = [p \in Writers |-> AtRest]
    /\ wish = [d \in Dirs |-> Plain]
    /\ raced = {} /\ torn = {}
    /\ commands = Commands /\ setbacks = Setbacks

(***************************************************************************)
(* list_notes and what is read off a NoteRecord                            *)
(***************************************************************************)
HasTranscript(d) == store[d].script \notin {"none", "empty"}
IsComplete(d) == HasTranscript(d) /\ store[d].notes \notin {"none", "empty"}
Listed == {d \in Dirs : store[d].dir}

SelectQueue(forced) == {d \in Listed : store[d].audio # "none" /\ (forced \/ ~IsComplete(d))}

Oldest(ds) == CHOOSE d \in ds : \A e \in ds : d <= e

\* The directories a process has at hand, or is still to report of.
AtHand(w) == w.queue \cup ({w.note} \ {0}) \cup w.ok \cup w.skipped \cup w.failed

Goes(p, changes) ==
    /\ work' = [work EXCEPT ![p] = changes]
    /\ raced' = raced \cup {d \in AtHand(changes) :
                               \E q \in Writers \ {p} : d \in AtHand(work[q])}
At(p, pc) == work[p].pc = pc
Begins(p, new) ==
    /\ At(p, "idle") /\ commands > 0 /\ commands' = commands - 1
    /\ Goes(p, new)
To(p, pc) == Goes(p, [work[p] EXCEPT !.pc = pc])
Merging(p, d) == \E q \in Writers \ {p} : At(q, "merge") /\ work[q].note = d
Setback == setbacks > 0 /\ setbacks' = setbacks - 1

(***************************************************************************)
(* chirp record                                                            *)
(***************************************************************************)
StartsRecording(p, d) ==
    /\ ~store[d].dir
    /\ Begins(p, [AtRest EXCEPT !.op = "record", !.pc = "recording", !.note = d])
    /\ store' = [store EXCEPT ![d] = Recording]
    /\ UNCHANGED <<wish, torn, setbacks>>

\* The WAV file is closed; then the duration goes into meta.toml.
StopsRecording(p) ==
    /\ At(p, "recording")
    /\ store' = [store EXCEPT ![work[p].note].audio = IF @ = "none" THEN @ ELSE "whole"]
    /\ To(p, "read")
    /\ UNCHANGED <<wish, torn, commands, setbacks>>

(***************************************************************************)
(* merge_note_meta, _update_meta_duration, _stage_save: meta.toml is read, *)
(* a few keys are changed and all of it is written back.                   *)
(***************************************************************************)
\* MUTANT of ReadsMeta: what the command read when it began
ReadsNothing(p) ==
    /\ At(p, "read")
    /\ Goes(p, [work[p] EXCEPT !.pc = "merge"])
    /\ UNCHANGED <<store, wish, torn, commands, setbacks>>

ReadsMeta(p) ==
    /\ At(p, "read")
    /\ Goes(p, [work[p] EXCEPT !.pc = "merge", !.meta = store[work[p].note].meta])
    /\ UNCHANGED <<store, wish, torn, commands, setbacks>>

\* Tags and templates are set, everything else is merged as it was read.
Merged(w) ==
    CASE w.op = "tag" -> [w.meta EXCEPT !.tags = w.set.tags]
      [] w.op = "regen" /\ w.set.template -> [w.meta EXCEPT !.template = TRUE]
      [] OTHER -> w.meta

AfterMerge(w) ==
    LET to(pc) == [w EXCEPT !.pc = pc, !.meta = Plain, !.text = "none", !.saving = FALSE]
    IN  CASE w.op \in {"record", "tag"} -> AtRest
          [] w.op = "regen" /\ w.set.template ->
                [w EXCEPT !.pc = "generate", !.set.template = FALSE]
          [] w.op = "regen" /\ ~w.set.template -> to("next")
          [] w.saving -> [to("next") EXCEPT !.ok = @ \cup {w.note}]
          [] OTHER -> to("index")

\* The directory is made again if it is gone.
WritesMeta(p) ==
    LET w == work[p]  d == w.note
    IN  /\ At(p, "merge")
        /\ store' = [store EXCEPT ![d].dir = TRUE, ![d].meta = Merged(w)]
        /\ wish' = [wish EXCEPT ![d] = [tags |-> IF w.op = "tag" THEN w.set.tags ELSE @.tags,
                       template |-> @.template \/ (w.op = "regen" /\ w.set.template)]]
        /\ torn' = IF Merging(p, d) THEN torn \cup {d} ELSE torn
        /\ Goes(p, AfterMerge(w))
        /\ UNCHANGED <<commands, setbacks>>

(***************************************************************************)
(* chirp transcribe: BatchProcessor                                        *)
(***************************************************************************)
\* All that is waiting, or the n oldest.
StartsTranscribe(p, forced, n) ==
    LET found == SelectQueue(forced)
        queue == {d \in found : Cardinality({e \in found : e <= d}) <= n}
    IN  /\ found # {}
        /\ Begins(p, [AtRest EXCEPT !.op = IF forced THEN "force" ELSE "transcribe",
                    !.pc = "load", !.queue = queue, !.taken = queue, !.note = Oldest(queue),
                    !.had = {d \in queue : store[d].script # "none"}])
        /\ UNCHANGED <<store, wish, torn, setbacks>>

Batch(p) == work[p].op \in {"transcribe", "force"}
Fails(p) ==
    Goes(p, [work[p] EXCEPT !.pc = "next", !.failed = @ \cup {work[p].note}, !.saving = FALSE])

LoadsAudio(p) ==
    /\ At(p, "load")
    /\ IF store[work[p].note].audio = "none" THEN Fails(p) ELSE To(p, "whisper")
    /\ UNCHANGED <<store, wish, torn, commands, setbacks>>

Resumable(p) == work[p].note \in work[p].had /\ HasTranscript(work[p].note)

\* "resumed": also with --force
ResumesTranscript(p) ==
    /\ At(p, "whisper") /\ Resumable(p)
    /\ To(p, "generate")
    /\ UNCHANGED <<store, wish, torn, commands, setbacks>>

\* Whisper reads the audio there is; minutes later the text is written.
HearsAudio(p, result) ==
    LET audio == store[work[p].note].audio
    IN  /\ At(p, "whisper") /\ ~Resumable(p)
        /\ result = "whole" => audio # "growing"
        /\ result = "part" => audio = "growing"
        /\ IF audio = "none" THEN Fails(p)
           ELSE Goes(p, [work[p] EXCEPT !.pc = "heard", !.text = result])
        /\ UNCHANGED <<store, wish, torn, commands, setbacks>>

\* MUTANT of WritesTranscript: the text is written as it comes, and may stop halfway
WritesInPlace(p) ==
    LET d == work[p].note
    IN  /\ At(p, "heard")
        /\ \/ store' = [store EXCEPT ![d].script = work[p].text] /\ To(p, "generate")
           \/ store' = [store EXCEPT ![d].script = "part"] /\ Goes(p, AtRest)
        /\ UNCHANGED <<wish, torn, commands, setbacks>>

WritesTranscript(p) ==
    LET d == work[p].note
    IN  /\ At(p, "heard")
        /\ IF store[d].dir
           THEN store' = [store EXCEPT ![d].script = work[p].text] /\ To(p, "generate")
           ELSE UNCHANGED store /\ Fails(p)
        /\ UNCHANGED <<wish, torn, commands, setbacks>>

\* Whisper, the language model (an error or unparsable output) or chirpd fails, or
\* a file cannot be written; for meta.toml that ends the other commands (StopsDead).
StageFails(p) ==
    /\ work[p].pc \in {"heard", "llm", "index"} \/ (At(p, "merge") /\ Batch(p))
    /\ Fails(p)
    /\ Setback
    /\ UNCHANGED <<store, wish, torn, commands>>

\* MUTANT of BeginsNotes: a short transcript is not left alone
BeginsAnyway(p) ==
    /\ At(p, "generate") /\ store[work[p].note].script # "none"
    /\ Goes(p, [work[p] EXCEPT !.pc = "llm", !.text = store[work[p].note].script])
    /\ UNCHANGED <<store, wish, torn, commands, setbacks>>

\* NoteGenerator: a transcript that is gone is a failure of the stage, but the
\* end of a --regen; a short one is skipped and keeps the notes there are.
BeginsNotes(p) ==
    LET d == work[p].note
        next == [work[p] EXCEPT !.pc = "next"]
    IN  /\ At(p, "generate")
        /\ Goes(p, CASE store[d].script = "none" ->
                            IF Batch(p) THEN [next EXCEPT !.failed = @ \cup {d}] ELSE AtRest
                     [] store[d].script \in {"empty", "short"} ->
                            [next EXCEPT !.skipped = @ \cup {d}]
                     [] OTHER -> [work[p] EXCEPT !.pc = "llm", !.text = store[d].script])
        /\ UNCHANGED <<store, wish, torn, commands, setbacks>>

\* MUTANT of WritesNotes: notes that are there are kept
KeepsNotes(p) ==
    LET d == work[p].note
    IN  /\ At(p, "llm")
        /\ store' = [store EXCEPT ![d].notes = IF @ # "none" THEN @ ELSE work[p].text]
        /\ To(p, "read")
        /\ UNCHANGED <<wish, torn, commands, setbacks>>

\* The notes of the transcript that was read; then meta.toml is updated.
WritesNotes(p) ==
    LET d == work[p].note
    IN  /\ At(p, "llm")
        /\ IF store[d].dir
           THEN store' = [store EXCEPT ![d].notes = work[p].text] /\ To(p, "read")
           ELSE UNCHANGED store /\ IF Batch(p) THEN Fails(p) ELSE Goes(p, AtRest)
        /\ UNCHANGED <<wish, torn, commands, setbacks>>

\* auto_index is off, or notes that are there and not empty are indexed (see
\* NoteIndex); then the stage that saves.
IndexesNote(p) ==
    /\ At(p, "index")
    /\ \/ Goes(p, [work[p] EXCEPT !.pc = "read", !.saving = TRUE])
       \/ store[work[p].note].notes \in {"none", "empty"} /\ Fails(p)
    /\ UNCHANGED <<store, wish, torn, commands, setbacks>>

\* A failure in one record does not abort the batch.
TakesNext(p) ==
    LET rest == work[p].queue \ {work[p].note}
    IN  /\ At(p, "next")
        /\ Goes(p, IF rest = {} THEN [work[p] EXCEPT !.pc = "report", !.queue = {}, !.had = {}]
                   ELSE [work[p] EXCEPT !.queue = rest, !.note = Oldest(rest),
                             !.had = @ \ {work[p].note},
                             !.pc = IF Batch(p) THEN "load" ELSE "generate"])
        /\ UNCHANGED <<store, wish, torn, commands, setbacks>>

Reports(p) ==
    /\ At(p, "report")
    /\ Goes(p, AtRest)
    /\ UNCHANGED <<store, wish, torn, commands, setbacks>>

(***************************************************************************)
(* chirp transcribe --regen, with --note and --template                    *)
(***************************************************************************)
StartsRegen(p) ==
    LET queue == {d \in Listed : store[d].script # "none"}
    IN  /\ queue # {}
        /\ Begins(p, [AtRest EXCEPT !.op = "regen", !.pc = "generate", !.queue = queue,
                                  !.note = Oldest(queue)])
        /\ UNCHANGED <<store, wish, torn, setbacks>>

RegensOne(p, d, template) ==
    /\ store[d].script # "none"
    /\ Begins(p, [AtRest EXCEPT !.op = "regen", !.queue = {d}, !.note = d,
                              !.set.template = template,
                              !.pc = IF template THEN "read" ELSE "generate"])
    /\ UNCHANGED <<store, wish, torn, setbacks>>

(***************************************************************************)
(* chirp notes tag, edit, delete                                           *)
(***************************************************************************)
TagsNote(p, d) ==
    /\ store[d].dir
    /\ Begins(p, [AtRest EXCEPT !.op = "tag", !.pc = "read", !.note = d,
                              !.set.tags = ~store[d].meta.tags])
    /\ UNCHANGED <<store, wish, torn, setbacks>>

OpensEditor(p, d) ==
    /\ store[d].notes # "none"
    /\ Begins(p, [AtRest EXCEPT !.op = "edit", !.pc = "editing", !.note = d])
    /\ UNCHANGED <<store, wish, torn, setbacks>>

\* :wq, also of nothing, or :q! and Ctrl-C, or the directory has gone.
LeavesEditor(p) ==
    LET d == work[p].note
    IN  /\ At(p, "editing")
        /\ \/ UNCHANGED store
           \/ store[d].dir /\ \E edited \in {"mine", "empty"} :
                                   store' = [store EXCEPT ![d].notes = edited]
        /\ Goes(p, AtRest)
        /\ UNCHANGED <<wish, torn, commands, setbacks>>

AsksDelete(p, d) ==
    /\ store[d].notes # "none"
    /\ Begins(p, [AtRest EXCEPT !.op = "delete", !.pc = "confirm", !.note = d])
    /\ UNCHANGED <<store, wish, torn, setbacks>>

\* rmtree, or the user declines.
Deletes(p) ==
    LET d == work[p].note
    IN  /\ At(p, "confirm")
        /\ \/ UNCHANGED <<store, wish, torn>>
           \/ /\ store' = [store EXCEPT ![d] = NoDir]
              /\ wish' = [wish EXCEPT ![d] = Plain]
              /\ torn' = IF Merging(p, d) THEN torn \cup {d} ELSE torn \ {d}
        /\ Goes(p, AtRest)
        /\ UNCHANGED <<commands, setbacks>>

\* A recording that is cut off is what it is; every file is written atomically.
StopsDead(p) ==
    /\ work[p].op # "none"
    /\ store' = IF At(p, "recording")
                THEN [store EXCEPT ![work[p].note].audio = IF @ = "none" THEN @ ELSE "whole"]
                ELSE store
    /\ Goes(p, AtRest)
    /\ Setback
    /\ UNCHANGED <<wish, torn, commands>>

PipelineNext ==
    \E p \in Writers :
        \/ StopsRecording(p) \/ ReadsMeta(p) \/ WritesMeta(p)
        \/ LoadsAudio(p) \/ ResumesTranscript(p) \/ StageFails(p) \/ BeginsNotes(p)
        \/ (\E result \in Scripts \ {"none"} : HearsAudio(p, result)) \/ WritesTranscript(p)
        \/ WritesNotes(p) \/ IndexesNote(p) \/ TakesNext(p) \/ Reports(p)
        \/ StartsRegen(p) \/ LeavesEditor(p) \/ Deletes(p) \/ StopsDead(p)
        \/ \E forced \in BOOLEAN, n \in 1 .. Cardinality(Dirs) : StartsTranscribe(p, forced, n)
        \/ \E d \in Dirs :
            \/ StartsRecording(p, d) \/ TagsNote(p, d) \/ OpensEditor(p, d) \/ AsksDelete(p, d)
            \/ \E template \in BOOLEAN : RegensOne(p, d, template)

(***************************************************************************)
(* Properties                                                              *)
(***************************************************************************)

\* What the batch reports is so (run_queue): of the queue as it was selected every
\* note is counted, and in one way, whichever stages failed and for whichever notes;
\* one that is "ok" has notes of the transcript it has, one that is "skipped" has
\* too short a transcript - these two unless another command had the note at hand.
ReportIsTrue ==
    \A p \in Writers : At(p, "report") /\ Batch(p) =>
        LET w == work[p]
        IN  /\ w.ok \cup w.skipped \cup w.failed = w.taken
            /\ w.ok \cap w.skipped = {} /\ w.failed \cap (w.ok \cup w.skipped) = {}
            /\ \A d \in w.ok \ raced : store[d].notes = store[d].script
            /\ \A d \in w.skipped \ raced : store[d].script \in {"empty", "short"}

\* The queue takes a note for done once it has a transcript and notes; then the
\* transcript is of the whole recording, whatever was killed on the way - unless
\* `chirp transcribe` was run while it was recorded (_is_complete).
CompleteIsWhole ==
    \A d \in Dirs \ raced :
        store[d].audio = "whole" /\ IsComplete(d) => store[d].script \in {"whole", "short"}

\* The tags and the template a user has set stay, through every command that
\* rewrites meta.toml, hours after it began, as long as no two of them had read
\* it at the same time (merge_note_meta, _stage_save).
WishesKept == \A d \in Dirs \ torn : store[d].dir => store[d].meta = wish[d]

\* "Re-run all stages on already-transcribed notes." (chirp/cli.py:701): with --force
\* no stage makes do with what an earlier run has left.
RerunsAll == \A p \in Writers : ResumesTranscript(p) => work[p].op # "force"

\* "pass --force to re-run completed notes" (batch_processor.py:222-223): a plain
\* `chirp transcribe` writes no notes over those of a complete note edited by hand.
KeepsEdits ==
    \A p \in Writers : WritesNotes(p) /\ work[p].op = "transcribe" =>
        ~(IsComplete(work[p].note) /\ store[work[p].note].notes = "mine")

\* "so the user can retry from that point" (story 1.4, AC-10): a note that failed is
\* in the queue of the next `chirp transcribe`, as long as it has a recording.
FailedIsRequeued ==
    \A p \in Writers : At(p, "report") /\ Batch(p) =>
        \A d \in work[p].failed \ raced :
            store[d].dir /\ store[d].audio # "none" => d \in SelectQueue(FALSE)
=============================================================================
