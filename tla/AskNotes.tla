------------------------------ MODULE AskNotes ------------------------------
(***************************************************************************)
(* `chirp ask`: a chat session or a single question (notes_chat/cli.py,    *)
(* interactive.py, prompting.py), the check that the index is fresh before *)
(* it is searched (retrieval.py), and the cache of answers that all of     *)
(* them share (cache.py).  Notes are edited and the default model is       *)
(* switched meanwhile.                                                     *)
(*                                                                         *)
(* The corpus is its version; the index has one as well.  The chunk ids a  *)
(* question retrieves do not change when a note is edited in place, so the *)
(* key of an answer is its question and the chat model.                    *)
(***************************************************************************)
EXTENDS Naturals, Sequences, SequencesExt

CONSTANTS Sessions, Questions, Models,
          MaxEdits,   \* how often a note is edited
          CacheMax    \* CACHE_MAX_ENTRIES

VARIABLES
    corpus,   \* version of the notes on disk
    known,    \* version of the notes the manifest says is indexed
    indexed,  \* version of the notes that a search finds
    model,    \* the chat model that is the default
    cache,    \* files of the cache directory, oldest first
    chat,     \* per session, see ChatTypeOK
    missed    \* history: sessions that recorded as fresh an index that lacks a note

askVars == <<corpus, known, indexed, model, cache, chat, missed>>

Prompt == [pc |-> "prompt", fresh |-> MaxEdits + 1, q |-> "none", asked |-> 0,
           ground |-> 0, over |-> 0, armed |-> FALSE, once |-> FALSE]

Entry == [q : Questions, m : Models]

ChatTypeOK ==
    /\ {corpus, known, indexed} \subseteq 0 .. MaxEdits
    /\ model \in Models
    /\ cache \in Seq(Entry)
    /\ missed \subseteq Sessions
    /\ \A s \in Sessions :
        /\ chat[s].pc \in {"prompt", "fresh", "record", "search", "lookup", "stream",
                           "store", "count", "evict", "gone"}
        /\ chat[s].q \in Questions \cup {"none"}
        /\ {chat[s].asked, chat[s].ground} \subseteq 0 .. MaxEdits
        /\ {chat[s].armed, chat[s].once} \subseteq BOOLEAN

AskInit ==
    /\ corpus = 0 /\ known = 0 /\ indexed = 0 /\ model \in Models
    /\ cache = <<>> /\ missed = {}
    /\ chat = [s \in Sessions |-> Prompt]

Step(s, from, to) == chat[s].pc = from /\ chat' = [chat EXCEPT ![s].pc = to]
\* Back at the prompt; what was recorded of the index stays for the process.
Answered(s) ==
    chat' = [chat EXCEPT ![s] = [Prompt EXCEPT !.fresh = IF chat[s].once THEN @ ELSE chat[s].fresh]]

EditNote ==
    /\ corpus < MaxEdits
    /\ corpus' = corpus + 1
    /\ UNCHANGED <<known, indexed, model, cache, chat, missed>>

SwitchChat ==
    /\ model' \in Models \ {model}
    /\ UNCHANGED <<corpus, known, indexed, cache, chat, missed>>

(***************************************************************************)
(* The prompt                                                              *)
(***************************************************************************)
Asks(s, q) ==
    /\ chat[s].pc = "prompt"
    /\ chat' = [chat EXCEPT ![s].pc = "fresh", ![s].q = q, ![s].asked = corpus,
                            ![s].armed = FALSE]
    /\ UNCHANGED <<corpus, known, indexed, model, cache, missed>>

\* chirp ask with a question, a process of its own.
AsksOnce(s, q) ==
    /\ chat[s] = Prompt
    /\ chat' = [chat EXCEPT ![s].pc = "fresh", ![s].q = q, ![s].asked = corpus,
                            ![s].once = TRUE]
    /\ UNCHANGED <<corpus, known, indexed, model, cache, missed>>

\* A second Ctrl-C before the hint is cleared, /exit or Ctrl-D.
Leaves(s) ==
    /\ chat[s].pc = "prompt"
    /\ chat' = [chat EXCEPT ![s].pc = "gone"]
    /\ UNCHANGED <<corpus, known, indexed, model, cache, missed>>

PressesCtrlC(s) ==
    /\ chat[s].pc = "prompt" /\ ~chat[s].armed
    /\ chat' = [chat EXCEPT ![s].armed = TRUE]
    /\ UNCHANGED <<corpus, known, indexed, model, cache, missed>>

HidesHint(s) ==
    /\ chat[s].pc = "prompt" /\ chat[s].armed
    /\ chat' = [chat EXCEPT ![s].armed = FALSE]
    /\ UNCHANGED <<corpus, known, indexed, model, cache, missed>>

(***************************************************************************)
(* retrieve_context                                                        *)
(***************************************************************************)
\* MUTANT of IndexIsFresh: a corpus once recorded is taken as unchanged
RecordedOnce(s) == chat[s].fresh <= MaxEdits

IndexIsFresh(s) == chat[s].fresh = corpus

FindsFresh(s) ==
    /\ IndexIsFresh(s)
    /\ Step(s, "fresh", "search")
    /\ UNCHANGED <<corpus, known, indexed, model, cache, missed>>

\* build_index looks at what the manifest lacks, and is a success also when a note
\* was not indexed (it stays out of the manifest), or bm25.json not written (the
\* manifest is saved by then).
Built ==
    \/ known' = corpus /\ indexed' = corpus
    \/ known' = corpus /\ UNCHANGED indexed
    \/ UNCHANGED <<known, indexed>>

BuildsIndex(s) ==
    /\ ~IndexIsFresh(s)
    /\ Step(s, "fresh", "record")
    /\ IF known = corpus THEN UNCHANGED <<known, indexed>> ELSE Built
    /\ UNCHANGED <<corpus, model, cache, missed>>

\* The signature is taken again after the build.
RecordsFreshness(s) ==
    /\ chat[s].pc = "record"
    /\ chat' = [chat EXCEPT ![s].pc = "search", ![s].fresh = corpus]
    /\ missed' = IF indexed = corpus THEN missed \ {s} ELSE missed \cup {s}
    /\ UNCHANGED <<corpus, known, indexed, model, cache>>

Searches(s) ==
    /\ chat[s].pc = "search"
    /\ chat' = [chat EXCEPT ![s].pc = "lookup", ![s].ground = indexed]
    /\ UNCHANGED <<corpus, known, indexed, model, cache, missed>>

\* No manifest, no hit, an empty context, a note that matches no tag.
FindsNothing(s) ==
    /\ chat[s].pc \in {"fresh", "search"}
    /\ Answered(s)
    /\ UNCHANGED <<corpus, known, indexed, model, cache, missed>>

(***************************************************************************)
(* The cache and the answer                                                *)
(***************************************************************************)
Keyed(q) == {i \in 1 .. Len(cache) : cache[i].q = q /\ cache[i].m = model}

HitsCache(s) ==
    /\ chat[s].pc = "lookup" /\ Keyed(chat[s].q) # {}
    /\ Answered(s)
    /\ UNCHANGED <<corpus, known, indexed, model, cache, missed>>

\* Older than CACHE_TTL_SECONDS: the file is removed.
FindsExpired(s) ==
    /\ \E i \in Keyed(chat[s].q) : cache' = RemoveAt(cache, i)
    /\ Step(s, "lookup", "stream")
    /\ UNCHANGED <<corpus, known, indexed, model, missed>>

MissesCache(s) ==
    /\ chat[s].pc = "lookup" /\ Keyed(chat[s].q) = {}
    /\ chat' = [chat EXCEPT ![s].pc = "stream"]
    /\ UNCHANGED <<corpus, known, indexed, model, cache, missed>>

StreamEnds(s) ==
    /\ Step(s, "stream", "store")
    /\ UNCHANGED <<corpus, known, indexed, model, cache, missed>>

\* An LLMError, an empty stream or Ctrl-C: nothing is cached.
StreamFails(s) ==
    /\ chat[s].pc = "stream"
    /\ Answered(s)
    /\ UNCHANGED <<corpus, known, indexed, model, cache, missed>>

\* The key is made again, of the model that is the default now; a file of that
\* key is replaced.
StoresAnswer(s) ==
    LET file == [q |-> chat[s].q, m |-> model]
    IN  /\ Step(s, "store", "count")
        /\ \/ Keyed(file.q) = {} /\ cache' = Append(cache, file)
           \/ \E i \in Keyed(file.q) : cache' = Append(RemoveAt(cache, i), file)
        /\ UNCHANGED <<corpus, known, indexed, model, missed>>

\* _evict_if_needed counts the files first and lists them again to sort them.
CountsFiles(s) ==
    /\ chat[s].pc = "count"
    /\ IF Len(cache) <= CacheMax THEN Answered(s)
       ELSE chat' = [chat EXCEPT ![s].pc = "evict", ![s].over = Len(cache) - CacheMax]
    /\ UNCHANGED <<corpus, known, indexed, model, cache, missed>>

EvictsOldest(s) ==
    /\ chat[s].pc = "evict"
    /\ cache' = SubSeq(cache, chat[s].over + 1, Len(cache))
    /\ Answered(s)
    /\ UNCHANGED <<corpus, known, indexed, model, missed>>

\* chirp index --force removes the cached answers and then does as IndexedElsewhere.
ClearsCache ==
    /\ cache # <<>>
    /\ cache' = <<>>
    /\ UNCHANGED <<corpus, known, indexed, model, chat, missed>>

IndexedElsewhere ==
    /\ known # corpus \/ indexed # corpus
    /\ Built
    /\ UNCHANGED <<corpus, model, cache, chat, missed>>

AskNext ==
    \/ EditNote \/ IndexedElsewhere \/ SwitchChat \/ ClearsCache
    \/ \E s \in Sessions :
        \/ (\E q \in Questions : Asks(s, q) \/ AsksOnce(s, q)) \/ Leaves(s) \/ PressesCtrlC(s) \/ HidesHint(s)
        \/ FindsFresh(s) \/ BuildsIndex(s) \/ RecordsFreshness(s) \/ Searches(s)
        \/ FindsNothing(s)
        \/ HitsCache(s) \/ FindsExpired(s) \/ MissesCache(s)
        \/ StreamEnds(s) \/ StreamFails(s)
        \/ StoresAnswer(s) \/ CountsFiles(s) \/ EvictsOldest(s)

(***************************************************************************)
(* Properties                                                              *)
(***************************************************************************)

\* The context of an answer is at least as new as the notes were when the question
\* was asked, also when the index was not looked at again because its notes had not
\* changed.  Sessions are left out while the index lacked a note when they last
\* recorded it as fresh: one that changed between the build and the signature, or
\* that failed to be embedded, or for which bm25.json was not written
\* (retrieve_context; see SkipsWasted).
ContextIsFresh ==
    \A s \in Sessions :
        chat[s].pc \in {"lookup", "stream", "store"} /\ s \notin missed =>
            chat[s].ground >= chat[s].asked

\* When nobody is storing an answer the cache is within its limit, however
\* the writers of several processes counted and removed (_evict_if_needed).
CacheBounded ==
    (\A s \in Sessions : chat[s].pc \notin {"count", "evict"}) => Len(cache) <= CacheMax

\* "skipping a wasted per-query build_index on an unchanged corpus"
\* (retrieval.py:57-58): a build that is skipped would have found nothing to do.
SkipsWasted == \A s \in Sessions : FindsFresh(s) => known = corpus
=============================================================================
