------------------------------ MODULE NoteIndex ------------------------------
(***************************************************************************)
(* IndexManager (notes_chat/index.py, bm25.py): the three stores that say  *)
(* what `chirp ask` finds - the vectors in Chroma, the manifest of what    *)
(* has been indexed, and bm25.json - and the commands that write them one  *)
(* after the other, without a lock: `chirp index`, `chirp index --force`,  *)
(* the auto-index after a note was generated or edited, and the deletion   *)
(* of a note.  Every command is a process that may be killed anywhere.     *)
(*                                                                         *)
(* A notes.md is its stamp (mtime and size): every write gives a new one.  *)
(* What is stored of a note is the stamp it was read at, 0 for nothing.    *)
(***************************************************************************)
EXTENDS Naturals, FiniteSets

CONSTANTS Notes,     \* the notes' directories
          Procs,     \* commands at work at a time
          MaxStamp,  \* how often a notes.md is written
          Mishaps,   \* how often something unwanted happens, see Mishap
          Aliases    \* embed models that may be the default

ASSUME IndexAssumption == {MaxStamp, Mishaps} \subseteq Nat /\ Aliases # {} /\ "none" \notin Aliases

VARIABLES
    disk,      \* stamp of the notes.md of a note, 0 when it is not there
    short,     \* stamps of notes too short for a single chunk
    clock,     \* the last stamp given
    semantic,  \* settings.notes_chat.semantic_enabled
    alias,     \* default_embed in the registry
    vec, by,   \* collection "notes": what it holds of a note, and by which model
    print,     \* the embed fingerprint in its metadata, "none" without one
    temp,      \* collection "notes_rebuild": what it holds of a note
    owner,     \* the process whose temp collection it is, "none"
    manifest,  \* manifest.json
    lex,       \* bm25.json
    job,       \* what each process is doing
    luck,      \* mishaps and failures that may still happen
    calm,      \* history: nothing has hurt the vectors since a force rebuild
    listed,    \* history: nothing has hurt bm25.json since it was rewritten
    clean      \* history: no mishap since the force rebuild at work began

diskVars == <<disk, short, clock>>
vecVars == <<vec, by, print>>
tempVars == <<temp, owner>>
historyVars == <<luck, calm, listed, clean>>
indexVars == <<diskVars, semantic, alias, vecVars, tempVars, manifest, lex, job,
               historyVars>>

Stamp == 0 .. MaxStamp
Nothing == [n \in Notes |-> 0]
Ops == {"none", "build", "force", "generated", "edited", "remove"}

\* man: the manifest in memory, scan: _scan_notes_files, todo: files to add,
\* note: the file at work, got: what was read of it.
Idle == [op |-> "none", pc |-> "idle", man |-> Nothing, scan |-> Nothing, todo |-> {},
         note |-> "none", got |-> 0]

IndexTypeOK ==
    /\ {disk, vec, temp, manifest, lex} \subseteq [Notes -> Stamp]
    /\ short \subseteq 1 .. MaxStamp /\ clock \in Stamp
    /\ {semantic, calm, listed, clean} \subseteq BOOLEAN
    /\ alias \in Aliases /\ print \in Aliases \cup {"none"}
    /\ by \in [Notes -> Aliases \cup {"none"}]
    /\ owner \in Procs \cup {"none"} /\ luck \in 0 .. Mishaps
    /\ \A p \in Procs :
        /\ job[p].op \in Ops
        /\ job[p].pc \in {"idle", "prune", "files", "embed", "promote", "rename",
                          "print", "load", "save", "lex", "stamp"}
        /\ {job[p].man, job[p].scan} \subseteq [Notes -> Stamp]
        /\ job[p].todo \subseteq Notes
        /\ job[p].note \in Notes \cup {"none"} /\ job[p].got \in Stamp

IndexInit ==
    /\ disk = Nothing /\ short = {} /\ clock = 0
    /\ semantic \in BOOLEAN /\ alias \in Aliases
    /\ vec = Nothing /\ by = [n \in Notes |-> "none"] /\ print = "none"
    /\ temp = Nothing /\ owner = "none"
    /\ manifest = Nothing /\ lex = Nothing
    /\ job = [p \in Procs |-> Idle]
    /\ luck = Mishaps /\ calm = ~semantic /\ listed = TRUE /\ clean = FALSE

Active == {p \in Procs : job[p].op # "none"}

\* _chunks_for_file gives at least one chunk.
HasChunks(stamp) == stamp # 0 /\ stamp \notin short

Continue(p, pc) == job' = [job EXCEPT ![p].pc = pc]
Finish(p) == job' = [job EXCEPT ![p] = Idle]

\* Two commands meet, or the settings change under one: nothing is promised of
\* the stores after it, until they are rebuilt.
Mishap ==
    /\ luck > 0 /\ luck' = luck - 1
    /\ calm' = FALSE /\ listed' = FALSE /\ clean' = FALSE
Unless(mishap) == IF mishap THEN Mishap ELSE UNCHANGED historyVars

\* A step of a command fails, and the command goes on: what that may hurt.
Fails(vectors, words) ==
    /\ luck > 0 /\ luck' = luck - 1
    /\ calm' = (calm /\ ~vectors) /\ listed' = (listed /\ ~words)

Start(p, pc, new) ==
    /\ job[p].op = "none"
    /\ job' = [job EXCEPT ![p] = [new EXCEPT !.pc = pc]]

(***************************************************************************)
(* Around the commands: notes are written and deleted, settings changed.   *)
(***************************************************************************)
\* add_note has read the note, and takes its stamp only when it has embedded it.
InHand(n) ==
    \E p \in Procs : job[p].op \in {"generated", "edited"} /\ job[p].pc \in {"embed", "load"}
                      /\ job[p].note = n

WriteNote(n, tooShort) ==
    /\ clock < MaxStamp
    /\ clock' = clock + 1 /\ disk' = [disk EXCEPT ![n] = clock']
    /\ short' = IF tooShort THEN short \cup {clock'} ELSE short
    /\ Unless(InHand(n))
    /\ UNCHANGED <<semantic, alias, vecVars, tempVars, manifest, lex, job>>

DeleteNote(n) ==
    /\ disk[n] # 0
    /\ disk' = [disk EXCEPT ![n] = 0]
    /\ UNCHANGED <<short, clock, semantic, alias, vecVars, tempVars, manifest, lex, job,
                   historyVars>>

SwitchModel ==
    /\ alias' \in Aliases \ {alias}
    /\ luck > 0 /\ luck' = luck - 1
    /\ calm' = (calm /\ Active = {}) /\ clean' = FALSE
    /\ UNCHANGED <<diskVars, semantic, vecVars, tempVars, manifest, lex, job, listed>>

\* config --no-semantic, with or without --purge.
DisableSemantic ==
    /\ semantic
    /\ semantic' = FALSE
    /\ \/ UNCHANGED <<vecVars, tempVars>>
       \/ /\ Active = {}
          /\ vec' = Nothing /\ by' = [n \in Notes |-> "none"] /\ print' = "none"
          /\ temp' = Nothing /\ owner' = "none"
    /\ Unless(Active # {})
    /\ UNCHANGED <<diskVars, alias, manifest, lex, job>>

(***************************************************************************)
(* _scan_notes_files and _ensure_embed_fingerprint                         *)
(***************************************************************************)
\* MUTANT of GuardPasses: the fingerprint is not compared
GuardTrusts == alias \in Aliases

GuardPasses == print \in {"none", alias}

Changed(n, man) == disk[n] # 0 /\ man[n] # disk[n]
Removed(man) == {n \in Notes : man[n] # 0 /\ disk[n] = 0}

StartBuild(p) ==
    /\ semantic => GuardPasses
    /\ \/ Removed(manifest) # {}
       \/ \E n \in Notes : Changed(n, manifest)
    /\ Start(p, "prune", [Idle EXCEPT !.op = "build", !.man = manifest, !.scan = disk,
                                      !.todo = {n \in Notes : Changed(n, manifest)}])
    /\ Unless(Active # {})
    /\ UNCHANGED <<diskVars, semantic, alias, vecVars, tempVars, manifest, lex>>

\* _remove_from_index goes on when Chroma fails: those vectors stay.
Prunes(p, kept) ==
    LET gone == {n \in Notes : job[p].man[n] # 0 /\ job[p].scan[n] = 0}
    IN  /\ job[p].pc = "prune" /\ kept \subseteq gone
        /\ IF kept = {} THEN UNCHANGED historyVars
           ELSE semantic /\ Fails(FALSE, FALSE) /\ UNCHANGED clean
        /\ vec' = IF semantic THEN [n \in Notes |-> IF n \in gone \ kept THEN 0 ELSE vec[n]]
                              ELSE vec
        /\ job' = [job EXCEPT ![p].pc = "files",
                              ![p].man = [n \in Notes |-> IF n \in gone THEN 0 ELSE @[n]]]
        /\ UNCHANGED <<diskVars, semantic, alias, by, print, tempVars, manifest, lex>>

\* MUTANT of StartForce: the live collection is emptied up front
StartForceInPlace(p, enable) ==
    /\ enable => ~semantic
    /\ semantic' = (semantic \/ enable)
    /\ Start(p, "files", [Idle EXCEPT !.op = "force", !.scan = disk,
                                      !.todo = {n \in Notes : disk[n] # 0}])
    /\ IF semantic' THEN temp' = Nothing /\ owner' = p ELSE UNCHANGED tempVars
    /\ vec' = IF semantic' THEN Nothing ELSE vec
    /\ IF Active # {} THEN Mishap
       ELSE calm' = (calm /\ ~enable) /\ clean' = TRUE /\ UNCHANGED <<luck, listed>>
    /\ UNCHANGED <<diskVars, alias, by, print, manifest, lex>>

\* --force; config --semantic sets the flag first and does the same.
StartForce(p, enable) ==
    /\ enable => ~semantic
    /\ semantic' = (semantic \/ enable)
    /\ Start(p, "files", [Idle EXCEPT !.op = "force", !.scan = disk,
                                      !.todo = {n \in Notes : disk[n] # 0}])
    /\ IF semantic' THEN temp' = Nothing /\ owner' = p ELSE UNCHANGED tempVars
    /\ IF Active # {} THEN Mishap
       ELSE calm' = (calm /\ ~enable) /\ clean' = TRUE /\ UNCHANGED <<luck, listed>>
    /\ UNCHANGED <<diskVars, alias, vecVars, manifest, lex>>

\* add_note by the note generator (guarded); after an edit, and the index stage
\* of `chirp transcribe`, are not.
StartAdd(p, n, op) ==
    /\ disk[n] # 0
    /\ (op = "generated" /\ semantic) => GuardPasses
    /\ Start(p, "files", [Idle EXCEPT !.op = op, !.todo = {n}])
    /\ Unless(Active # {} \/ (semantic /\ ~GuardPasses))
    /\ UNCHANGED <<diskVars, semantic, alias, vecVars, tempVars, manifest, lex>>

StartRemove(p, n, fails) ==
    /\ disk[n] = 0
    /\ Start(p, "load", [Idle EXCEPT !.op = "remove", !.note = n])
    /\ vec' = IF semantic /\ ~fails THEN [vec EXCEPT ![n] = 0] ELSE vec
    /\ IF Active # {} THEN Mishap
       ELSE IF fails THEN semantic /\ Fails(FALSE, FALSE) /\ UNCHANGED clean
       ELSE UNCHANGED historyVars
    /\ UNCHANGED <<diskVars, semantic, alias, by, print, tempVars, manifest, lex>>

(***************************************************************************)
(* _add_to_index: read and chunk, drop the old vectors, embed, add.        *)
(***************************************************************************)
Adding(p) == job[p].op \in {"generated", "edited"}

\* The file is gone or too short.  Its old vectors stay where they are.
NoChunks(p, n) ==
    /\ job[p].pc = "files" /\ n \in job[p].todo /\ ~HasChunks(disk[n])
    /\ IF Adding(p) THEN Finish(p)
       ELSE job' = [job EXCEPT ![p].todo = @ \ {n}, ![p].man = [@ EXCEPT ![n] = 0]]
    /\ UNCHANGED <<diskVars, semantic, alias, vecVars, tempVars, manifest, lex, historyVars>>

Takes(p, n) ==
    /\ job[p].pc = "files" /\ n \in job[p].todo /\ HasChunks(disk[n])
    /\ job' = [job EXCEPT ![p].todo = @ \ {n}, ![p].note = n, ![p].got = disk[n],
                          ![p].pc = "embed"]

ReadsNote(p, n) ==
    /\ Takes(p, n)
    /\ IF job[p].op = "force"
       THEN UNCHANGED vec /\ temp' = IF owner = p THEN [temp EXCEPT ![n] = 0] ELSE temp
       ELSE UNCHANGED temp /\ vec' = IF semantic THEN [vec EXCEPT ![n] = 0] ELSE vec
    /\ UNCHANGED <<diskVars, semantic, alias, by, print, owner, manifest, lex, historyVars>>

\* The old vectors could not be removed, and will be kept.
ReadsOnly(p, n) ==
    /\ Takes(p, n)
    /\ job[p].op # "force" /\ semantic /\ vec[n] # 0
    /\ Fails(TRUE, FALSE)
    /\ UNCHANGED <<diskVars, semantic, alias, vecVars, tempVars, manifest, lex, clean>>

\* MUTANT of Indexed: a file that was read counts as indexed
IndexedAnyway(p, stored) ==
    LET n == job[p].note
    IN  IF Adding(p) THEN Continue(p, "load")
        ELSE job' = [job EXCEPT ![p].pc = "files",
                                ![p].man = [@ EXCEPT ![n] = job[p].scan[n]]]

\* Only files that were indexed are recorded; add_note gives up otherwise.
Indexed(p, stored) ==
    LET n == job[p].note
    IN  IF Adding(p) THEN IF stored THEN Continue(p, "load") ELSE Finish(p)
        ELSE job' = [job EXCEPT ![p].pc = "files",
                                ![p].man = [@ EXCEPT ![n] = IF stored THEN job[p].scan[n]
                                                                     ELSE 0]]

\* collection.add keeps what it has under an id.
Embedded(p) ==
    LET n == job[p].note
        force == job[p].op = "force"
        stored == ~semantic \/ ~force \/ owner = p
    IN  /\ job[p].pc = "embed"
        /\ Indexed(p, stored)
        /\ IF semantic /\ stored
           THEN IF force THEN temp' = [temp EXCEPT ![n] = job[p].got] /\ UNCHANGED <<vec, by>>
                ELSE /\ UNCHANGED temp
                     /\ IF vec[n] # 0 THEN UNCHANGED <<vec, by>>
                        ELSE /\ vec' = [vec EXCEPT ![n] = job[p].got]
                             /\ by' = [by EXCEPT ![n] = alias]
           ELSE UNCHANGED <<vec, by, temp>>
        /\ UNCHANGED <<diskVars, semantic, alias, print, owner, manifest, lex, historyVars>>

\* chirpd does not embed: the old vectors are gone by then.
EmbedFails(p) ==
    /\ semantic /\ job[p].pc = "embed"
    /\ Indexed(p, FALSE)
    /\ Fails(job[p].op # "force" /\ manifest[job[p].note] = job[p].got, FALSE)
    /\ UNCHANGED <<diskVars, semantic, alias, vecVars, tempVars, manifest, lex, clean>>

FilesDone(p) ==
    /\ job[p].pc = "files" /\ job[p].todo = {} /\ ~Adding(p)
    /\ Continue(p, IF job[p].op = "force" /\ semantic THEN "promote" ELSE "save")
    /\ UNCHANGED <<diskVars, semantic, alias, vecVars, tempVars, manifest, lex, historyVars>>

(***************************************************************************)
(* _promote_temp_collection and _write_fingerprint_metadata                *)
(***************************************************************************)
DeletesLive(p) ==
    /\ job[p].pc = "promote"
    /\ vec' = Nothing /\ by' = [n \in Notes |-> "none"] /\ print' = "none"
    /\ Continue(p, "rename")
    /\ UNCHANGED <<diskVars, semantic, alias, tempVars, manifest, lex, historyVars>>

RenamesTemp(p) ==
    /\ job[p].pc = "rename"
    /\ IF owner = p
       THEN /\ vec' = temp
            /\ by' = [n \in Notes |-> IF temp[n] = 0 THEN "none" ELSE alias]
            /\ Continue(p, "print")
       ELSE UNCHANGED <<vec, by>> /\ Finish(p)
    /\ temp' = Nothing /\ owner' = "none"
    /\ UNCHANGED <<diskVars, semantic, alias, print, manifest, lex, historyVars>>

WritesPrint(p) ==
    /\ job[p].pc = "print"
    /\ print' = alias
    /\ Continue(p, "save")
    /\ UNCHANGED <<diskVars, semantic, alias, vec, by, tempVars, manifest, lex, historyVars>>

(***************************************************************************)
(* The manifest, then bm25.json                                            *)
(***************************************************************************)
\* add_note and remove_note read the manifest only now.
LoadsManifest(p) ==
    LET n == job[p].note
    IN  /\ job[p].pc = "load"
        /\ job' = [job EXCEPT ![p].pc = "save",
              ![p].man = [manifest EXCEPT ![n] = IF job[p].op = "remove" THEN 0
                                                 ELSE IF disk[n] # 0 THEN disk[n] ELSE @]]
        /\ UNCHANGED <<diskVars, semantic, alias, vecVars, tempVars, manifest, lex,
                       historyVars>>

SavesManifest(p) ==
    /\ job[p].pc = "save"
    /\ manifest' = job[p].man
    /\ calm' = (calm \/ (job[p].op = "force" /\ clean))
    /\ Continue(p, "lex")
    /\ UNCHANGED <<diskVars, semantic, alias, vecVars, tempVars, lex, luck, listed, clean>>

AfterLex(p) ==
    IF semantic /\ job[p].op \in {"build", "generated"} THEN Continue(p, "stamp")
                                                         ELSE Finish(p)

\* rebuild_bm25_index: without a chunk the file is left as it is.
NoChunkLeft == \A n \in Notes : ~HasChunks(disk[n])
Rewritten == IF NoChunkLeft THEN lex ELSE disk

\* append_bm25_index: this note's entries are replaced, the ghosts of it dropped.
Appended(n) == IF HasChunks(disk[n]) THEN [lex EXCEPT ![n] = disk[n]] ELSE lex

\* _rebuild_bm25 reads every note again.
RebuildsLex(p) ==
    /\ job[p].pc = "lex" /\ job[p].op # "generated"
    /\ lex' = Rewritten
    /\ listed' = (~NoChunkLeft /\ Active = {p})
    /\ AfterLex(p)
    /\ UNCHANGED <<diskVars, semantic, alias, vecVars, tempVars, manifest, luck, calm, clean>>

AppendsLex(p) ==
    /\ job[p].pc = "lex" /\ job[p].op = "generated"
    /\ lex' = Appended(job[p].note)
    /\ AfterLex(p)
    /\ UNCHANGED <<diskVars, semantic, alias, vecVars, tempVars, manifest, historyVars>>

\* A note that cannot be read, a full disk: one failure and the file stays as it
\* is, for all notes; the command succeeds.
LexFails(p) ==
    /\ job[p].pc = "lex"
    /\ Fails(FALSE, TRUE)
    /\ AfterLex(p)
    /\ UNCHANGED <<diskVars, semantic, alias, vecVars, tempVars, manifest, lex, clean>>

StampsIfMissing(p) ==
    /\ job[p].pc = "stamp"
    /\ print' = IF print = "none" /\ \E n \in Notes : vec[n] # 0 THEN alias ELSE print
    /\ Finish(p)
    /\ UNCHANGED <<diskVars, semantic, alias, vec, by, tempVars, manifest, lex, historyVars>>

\* Half done: the live collection is replaced but not its manifest, the vectors
\* are gone of a note that is not to be embedded again, bm25.json is not written.
HalfVectors(j) ==
    /\ semantic
    /\ \/ j.op = "force" /\ j.pc \in {"rename", "print", "save"}
       \/ j.op \in {"generated", "edited"} /\ j.pc = "embed" /\ manifest[j.note] = j.got

\* Ctrl-C, kill, power: what is in the stores stays as it is.
Killed(p) ==
    /\ job[p].op # "none"
    /\ Finish(p)
    /\ Fails(HalfVectors(job[p]), job[p].pc = "lex") /\ clean' = FALSE
    /\ UNCHANGED <<diskVars, semantic, alias, vecVars, tempVars, manifest, lex>>

CommandStep(p) ==
    \/ (\E kept \in SUBSET Notes : Prunes(p, kept)) \/ Embedded(p) \/ FilesDone(p)
    \/ \E n \in Notes : NoChunks(p, n) \/ ReadsNote(p, n) \/ ReadsOnly(p, n)
    \/ DeletesLive(p) \/ RenamesTemp(p) \/ WritesPrint(p)
    \/ LoadsManifest(p) \/ SavesManifest(p) \/ RebuildsLex(p) \/ AppendsLex(p)
    \/ LexFails(p) \/ StampsIfMissing(p)

IndexNext ==
    \/ \E n \in Notes, tooShort \in BOOLEAN : WriteNote(n, tooShort)
    \/ \E n \in Notes : DeleteNote(n)
    \/ SwitchModel \/ DisableSemantic
    \/ \E p \in Procs :
        \/ StartBuild(p) \/ (\E enable \in BOOLEAN : StartForce(p, enable))
        \/ \E n \in Notes :
            \/ \E op \in {"generated", "edited"} : StartAdd(p, n, op)
            \/ \E fails \in BOOLEAN : StartRemove(p, n, fails)
        \/ CommandStep(p) \/ EmbedFails(p) \/ Killed(p)

(***************************************************************************)
(* Properties                                                              *)
(***************************************************************************)

\* `chirp index` never looks again at a note whose stamp is in the manifest, so
\* such a note had better be in bm25.json, and with semantic search in the
\* collection, as it is on disk - also when commands were killed, embeddings and
\* removals failed, or notes were written and deleted while a command was at
\* work (build_index, _force_rebuild, add_note, remove_note).
\* bm25.json: since it was last rewritten with at least one chunk (every command
\* but a new note's), except when two commands met, settings changed under one, a
\* write of bm25.json failed or was cut off, or add_note's note was written
\* between being read and being stamped.
\* The vectors: since a force rebuild saved its manifest (or semantic search was
\* never on), except when two commands met, settings or the default model changed
\* under one, add_note's note was written as above, an add_note for a note with
\* its stamp in the manifest failed or was killed before its vectors were added,
\* old vectors could not be removed, an unguarded add_note ran under another model,
\* or a force rebuild was killed between dropping the collection and the manifest.
UpToDateIsIndexed ==
    Active = {} =>
        \A n \in Notes : manifest[n] = disk[n] /\ disk[n] # 0 =>
            /\ listed => lex[n] = disk[n]
            /\ calm /\ semantic => vec[n] = disk[n]

\* While nothing has hurt the vectors, as said of them above, all are by the model
\* the collection's fingerprint names, however the default is switched between
\* commands: the guarded ones refuse to add to them (_ensure_embed_fingerprint).
\* An add_note after an edit, or in `chirp transcribe`, is not guarded: under
\* another default model it does mix them, and the property excludes it.
OneModel ==
    calm /\ Active = {} /\ semantic /\ print # "none" =>
        \A n \in Notes : vec[n] # 0 => by[n] = print

\* A force rebuild touches nothing a question is answered from before its last
\* file is done (_force_rebuild): killed until then, it leaves the prior index.
PriorSurvives ==
    [][\A p \in Procs :
        job'[p].op = "force" /\ job'[p].pc \in {"files", "embed"} /\ job'[p] # job[p] =>
            UNCHANGED <<vec, manifest, lex>>]_indexVars

\* "An interruption (Ctrl-C, embed failure mid-run) therefore leaves the previous
\* collection, manifest, and bm25.json intact" (index.py, _force_rebuild): the old
\* collection is not deleted for one that lacks a note chirpd did not embed.
FailureKeepsPrior ==
    [][\A p \in Procs :
        job[p].pc = "promote" /\ job'[p].pc = "rename" =>
            \A n \in Notes : HasChunks(disk[n]) /\ vec[n] = disk[n] => temp[n] # 0]_indexVars

\* "A file that fails to embed is absent from the manifest and retried"
\* (tests/test_index_manifest.py): add_note for a note the manifest has as it is.
FailedIsRetried ==
    [][\A p \in Procs : job[p].op # "force" /\ EmbedFails(p) =>
        manifest[job[p].note] # disk[job[p].note]]_indexVars
=============================================================================
