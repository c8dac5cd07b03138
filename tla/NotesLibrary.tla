----------------------------- MODULE NotesLibrary -----------------------------
(***************************************************************************)
(* What the commands share on disk, and no lock guards: the directories of *)
(* the notes (NotesPipeline), the three stores of the index (NoteIndex),   *)
(* and the answer cache with the chats over it (AskNotes).  A behaviour is *)
(* about one of them, chosen at the start: each module has the others as   *)
(* the steps of its environment.                                           *)
(***************************************************************************)
EXTENDS NoteIndex

CONSTANTS
    Dirs, Writers, Commands, Setbacks,
    Sessions, Questions, Models, MaxEdits, CacheMax

ASSUME LibraryAssumption ==
    /\ Dirs \subseteq Nat \ {0} /\ {Commands, Setbacks} \subseteq Nat
    /\ CacheMax \in Nat \ {0} /\ MaxEdits \in Nat /\ Models # {}

VARIABLES
    part,   \* what the behaviour is about
    store, work, wish, raced, torn, commands, setbacks,
    corpus, known, indexed, model, cache, chat, missed

Pipeline == INSTANCE NotesPipeline
Ask == INSTANCE AskNotes

pipelineVars == <<store, work, wish, raced, torn, commands, setbacks>>
askVars == <<corpus, known, indexed, model, cache, chat, missed>>
vars == <<part, indexVars, pipelineVars, askVars>>

\* The parts that do not run are in one state each.
Init ==
    /\ part \in {"index", "pipeline", "ask"}
    /\ part # "index" => semantic = FALSE
    /\ part # "pipeline" => store = [d \in Dirs |-> Pipeline!NoDir]
    /\ IndexInit /\ Pipeline!PipelineInit /\ Ask!AskInit

Next ==
    \/ /\ part = "index" /\ IndexNext
       /\ UNCHANGED <<part, pipelineVars, askVars>>
    \/ /\ part = "pipeline" /\ Pipeline!PipelineNext
       /\ UNCHANGED <<part, indexVars, askVars>>
    \/ /\ part = "ask" /\ Ask!AskNext
       /\ UNCHANGED <<part, indexVars, pipelineVars>>

Spec == Init /\ [][Next]_vars

\* The types of the three parts: the directories, the stores, the chats, with the
\* limit of their answer cache (index.py, batch_processor.py, cache.py).
TypeOK == IndexTypeOK /\ Pipeline!PipelineTypeOK /\ Ask!ChatTypeOK /\ Ask!CacheBounded

\* What a finished `chirp transcribe` reports of a note is so, see NotesPipeline.
ReportIsTrue == Pipeline!ReportIsTrue

\* A note that is taken for done has the transcript of its whole recording,
\* whatever was killed (_is_complete), see NotesPipeline.
CompleteIsWhole == Pipeline!CompleteIsWhole

\* Tags and templates outlive the commands that rewrite meta.toml
\* (merge_note_meta), see NotesPipeline.
WishesKept == Pipeline!WishesKept

\* An answer's context is as new as the notes were when the question was asked
\* (retrieve_context), see AskNotes.
ContextIsFresh == Ask!ContextIsFresh

\* A build of the index is skipped only when it would have been wasted
\* (_index_is_fresh), see AskNotes.
SkippedIsWasted == [][Ask!SkipsWasted]_vars

\* --force transcribes anew (_stage_transcribe), see NotesPipeline.
ForceReruns == [][Pipeline!RerunsAll]_vars

\* Only --force replaces the notes of a complete note (_select_queue), see
\* NotesPipeline.
CompleteNeedsForce == [][Pipeline!KeepsEdits]_vars

\* A note that failed is taken up by the next run (_is_complete), see NotesPipeline.
FailedIsRequeued == Pipeline!FailedIsRequeued
=============================================================================
