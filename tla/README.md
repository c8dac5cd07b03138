# A TLA+ verification of chirp

chirp records meetings on a Mac, transcribes them, writes notes and answers
questions about them, with models that run on the machine.  The models live in
a daemon, `chirpd`, that all the commands talk to over a Unix socket.  This
directory holds TLA+ modules of the program, TLC configurations that check
them, and theorems proved with TLAPS.

```
tlc -workers 2 -config MCCore.cfg MCModelLifecycle   # one run
tlapm ModelLifecycleLocks.tla                        # one module's proofs
```

## The system

| component | source | state it keeps | operations | talks to |
|---|---|---|---|---|
| model lifecycle | `chirpd/state.py` | resident models, their `last_used`, handle, lock and idle task; alias locks; load gate; cancel table | load, unload, resident cap and eviction, idle countdown, register/clear/get cancellation | backend, registry |
| dispatcher | `chirpd/dispatcher.py` | none of its own | chat, embed, cancel, model.load, model.unload, status, health, model.list | lifecycle, backend, the connection |
| backend | `chirpd/backend.py` | the MLX model behind a handle; one thread and one token queue per generation | load, unload, stream_generate, embed | MLX |
| server, process | `chirpd/server.py`, `lifecycle.py`, `__main__.py` | socket file, pid file under flock, shutdown event | bind, accept, hello, version mismatch, signals | dispatcher, client |
| LLM client | `llm/client.py` | a connection per call | connect, spawn the daemon, hello, retry once, cancel | server |
| registry | `llm/registry.py`, `llm/cli/models.py`, `chirp/init_flow.py` | `models.toml`, downloaded weights | add, pull, remove, set default, set up, resolve | lifecycle reads it on every resolve |
| daemon CLI, launch agent | `llm/cli/daemon.py`, `chirpd/launchd.py`, `logging_setup.py` | pid file, plist, `chirpd.log` | start, stop, restart, status, logs, enable, disable | process, launchd |
| capture helper | `audio_capture/__init__.py`, `swift/*.swift` | a child process and the pipe it writes frames to | start, frames, stop | recorders |
| live capture | `recorder/live_*.py`, `vad_chunker.py` | frame and chunk queues, stop event, WAV file, transcript | capture, mix, chunk, transcribe, render, stop | capture helper, Whisper |
| audio recorder | `recorder/audio_recorder.py`, `meeting_monitor.py` | recording thread, WAV file | record, stop, watch a meeting | devices |
| audio mixer | `recorder/audio_mixer.py` | a sample buffer per source | feed, mix, flush | live capture, recorder |
| note index | `notes_chat/index.py`, `bm25.py`, `cache.py` | manifest, vectors, BM25 index, answer cache | build, add a note, remove, query | embed requests |
| notes chat | `notes_chat/*.py` | conversation | retrieve, prompt, answer | note index, client |
| notes | `notes/*.py` | note files | generate, edit, template | client |
| transcription | `transcriber/*.py`, `utils/file_utils.py` | note directories and their metadata | batch, resume, merge `meta.toml` | Whisper, notes, index |
| chirp CLI, setup wizard | `chirp/cli.py`, `chirp/init_flow.py` | settings | the commands that call all of these | everything above |

The hard part of the daemon is concurrency.  It is one asyncio event loop in
which every connection handler and every idle task runs between suspensions,
with generation threads beside it; loads take many seconds; clients drop
connections and cancel.  The hard part of the recorders is bounded queues
between threads and the order in which they stop; of the index and of the
transcriber, crashes between two writes and two processes that rewrite one
file; of the client and server, a daemon that leaves while another arrives.
`PROJECT.json` lists these hazards with their lines.

## The modules

| module | what it is |
|---|---|
| `AsyncLock` | `asyncio.Lock` as an owner and a FIFO queue |
| `ModelLifecycle` | `DaemonState` driven by the dispatcher's handlers: the detailed specification, its properties |
| `ModelResidency` | what the daemon promises of the models in memory: the abstract specification |
| `ModelLifecycleInv` | the parts of the inductive invariant |
| `DaemonProcess` | `chirpd` as processes: flock, socket file, handlers, signals, exits, in any environment |
| `DaemonService` | what the single-instance rule promises: the abstract specification |
| `ClientConnect` | `LLMClient._request` in place of that environment; extends `DaemonProcess` |
| `CaptureHelper` | the macOS helper, its pipe, signals and exit codes; the mixer's hold and the WAV file |
| `AudioRecorder` | `chirp record`: main thread, capture worker, monitor, keys and signals |
| `LiveCapture` | `chirp record --live`: mixer thread, chunker, transcriber, their queues |
| `StereoMixer` | `StereoToMonoMixer`: what becomes of every sample |
| `RecordCommand` | the record command over these four |
| `NoteIndex` | `IndexManager`: collection, manifest and `bm25.json`, the commands that write them |
| `NotesPipeline` | the directory of a note and the commands that fill it |
| `AskNotes` | `chirp ask`: freshness, search, the cache of answers |
| `NotesLibrary` | what commands share on disk, over these three |
| `DaemonCommands` | `chirp daemon start/stop/restart/status/enable/disable` against launchd |
| `ModelRegistry` | `models.toml` and the commands that rewrite it |
| `LogFollow` | the rotating log and the command that follows it |
| `ControlCommands` | the commands that look after chirp itself, over these three |
| `MCModelLifecycle`, `MCDaemonProcess`, `MCClientConnect`, `MCNotesLibrary`, `MCControlCommands` | instances for TLC |
| `ModelLifecycleLocks`, `ModelLifecyclePromises`, `ModelLifecycleResidency`, `ClientConnectProofs`, `RecordCommandProofs`, `NoteIndexProofs`, `NotesLibraryProofs`, `ControlCommandsProofs` | lemmas and theorems |

`RecordCommand`, `NotesLibrary` and `ControlCommands` compose parts that share
no state, or share it only in ways a part already has as steps of its
environment (`NotesPipeline` indexes a note; to `NoteIndex` that is a note that
appears and an `add_note` that may run at any moment).  So each of their
behaviours is about one part, chosen in `Init`, and the others stay in one
initial state: the product of unrelated states would show nothing more.

### ModelLifecycle

A task is a connection handler (`Request`; a handler serves one request here)
or an idle-unload task (`Timer`).  asyncio runs a task without interruption
from one suspension to the next, so an action is what a task does between two
awaits that may suspend it: `await` on an uncontended lock does not suspend and
is part of the action, `await backend.load(...)` is the boundary between
`CapCheck` and `LoadInserts`.  `pc` says at which suspension a task is:

| `pc` | the task awaits |
|---|---|
| `announce` | the write of the `loading` event (dispatcher.py:212, 338) |
| `load` | nothing: it is about to call `state.load` |
| `lockWait`, `gateWait` | the alias lock, then the load gate (state.py:155, 170) |
| `check`, `evict` | nothing: before `_enforce_resident_cap`, between two evictions |
| `backend` | `backend.load` |
| `unload`, `unloadWait`, `unloading` | nothing, the victim's lock (state.py:204), `backend.unload` |
| `useWait` | `loaded.lock` (dispatcher.py:354, 509) |
| `held`, `using` | nothing, the next token or the vectors |
| `ending` | the write of the last event |
| `asleep`, `due` | (idle task) its sleep; its first step |

A few actions end earlier than the code suspends, at a point where the task
already owns the lock it works under; no other task can then tell the
difference.  `UnloadBegins` is the other way round: `_cancel_idle_task` awaits
the task it cancelled, but under the alias lock, and that task does nothing
more.  When `unload` is called by the idle task itself, it cancels and awaits
itself, and the `CancelledError` is caught (state.py:433-436).

A `LoadedModel` object is named after the request whose `load()` created it, so
`models[a] = r` distinguishes two models that were resident under one alias at
different times.  `since[a]` is the set of resident aliases used after `a`: the
order of `last_used` without clock values.  `fresh[o]` says that `o` was used
after its idle task started to sleep, which is when the task's guard
(state.py:420) may skip.  A handle is `live` or `dead`, and `Usable` is what the
backend finds when it looks for its model in it.  A cancelled idle task's name
is used again by the task that replaces it; `Timer` bounds the number of idle
tasks alive at the same time, and no run reaches the bound (`Answered` and the
deadlock check would fail if one did).

`Serve(r)` is what the event loop owes a handler, `Tick(u)` what it owes an
idle task, `Mishap(r)` what fails from outside: a dropped connection, a backend
that raises, in `load` or in `unload`.

Not in the model: the validation of malformed envelopes, which answers before
any state changes; `status`, `health` and `model.list`, which read; token
counts; `hello`.  The second residency check under the gate (state.py:171-176)
never finds a model, since only the owner of the alias lock inserts the alias.

### ModelResidency

An alias is absent, loading, resident or unloading; it is used by one handler
at a time and never while it is loaded or unloaded; loads follow one another;
a load begins only if the models in memory, those still being unloaded
included, leave room for it.  `ImplementsResidency` maps the lifecycle to it:
`phase[a]` is read off the task inside `backend.load` or `backend.unload`,
`inUse` is the aliases of the handlers in `held` or `using`.

### DaemonProcess

Several processes may run `chirpd` at once.  `dpc` says where each is:

| `dpc` | the process |
|---|---|
| `boot` | has started and does not hold the flock (before `__main__.py:55`) |
| `setup` | is in `main()` under the flock, before the socket is bound |
| `bound` | listens, but `serve()` is not yet in its wait (server.py:46-56) |
| `serving` | is in that wait; handlers run |
| `closing` | has closed the listening socket, the file is still there (server.py:69, 73-78) |
| `leaving` | `serve()` has returned; `asyncio.run()` cancels handlers and joins threads |
| `dead` | has exited; its flock is free |

`sock` is the process that bound the file at the path, so a stale file is one
whose process is dead.  `Binds` removes it and binds in one step, because
nothing suspends between server.py:38 and the bind; a client that connects in
between fails as it does before or after.  A connection is named after its
client and carries the line the daemon has yet to read (`hello`, `asked`);
connecting and sending the hello are one step, since the daemon does nothing for
a connection without a line.  For the same reason the client's probes
(`connect` and close) have no effect.  `Dispatch` may start a thread or not:
some operations do.  A cancelled chat is answered while its thread goes on, so
`Answer` does not wait for the thread.  What the requests do to models is
`ModelLifecycle`'s subject.

`Server.wait_closed()` waits for the open connections since Python 3.12 and
did not before; `WaitsForHandlers` says which.  A signal during that wait
cancels `serve()` and skips the unlink (`TermClosing`).  `asyncio.run()` joins
the worker threads before `main()` leaves the `with` block that holds the
flock (`Exits`), which is what keeps two daemons from computing side by side.

`Environment` starts, signals, kills and connects at any moment.  A process
name is used again after its process died and its socket file is gone.

Not in the model: lines that do not parse (they are answered and change
nothing), file modes and umask, the 300 s after which Python 3.12 gives up
joining threads, Python 3.13's removal of the socket file by asyncio itself.

### DaemonService

At most one daemon is in charge; requests begin only under it; it hands over
when none of its requests is in hand and none of its threads runs, or dies with
all of them.  `ImplementsService` maps the flock to `owner`, the connections
whose request is being handled to `working`, the threads to `busy`.

### ClientConnect

Each client is a process that makes one call.  `cpc` names the place in
`_request` where it waits:

| `cpc` | the call |
|---|---|
| `idle`, `done` | has not started; has returned or raised `outcome` |
| `open`, `reopen` | is about to connect: for the first time, after a probe that succeeded |
| `spawn`, `poll` | is about to start `chirpd`; probes until its deadline |
| `reap` | has sent its child SIGTERM and gives it a second |
| `hello`, `request` | waits for the answer to its hello, to its request |
| `drain`, `close` | waits in `drain()` or `wait_closed()` until the daemon reads more of its request |
| `gone` | waits for the old daemon's socket to disappear |

The request of a client in `Large` may be more than the socket takes at once
(`SaysPart`): then `drain()` may wait, and the line is complete only when the
daemon has read on (`Reads`).  Neither `drain()` (client.py:609) nor the
`wait_closed()` of the `finally` block (428, 683) has a deadline, so a call that
gives up with a part of its request unread (`Unsent`) goes on waiting in `close`.
A hello is small enough for any buffer.

`ver`, `cver` and `installed` are protocol versions: of a daemon's code, of a
client's, and of the `chirpd` on PATH.  `Upgrade` may happen under both.

Time is in two constants.  With `Impatient` a deadline may pass whenever
something is awaited, as slow machines make it.  Without it a deadline passes
only when waiting is in vain: `poll` if no process is left that will listen
(`Hopeless`), `gone` if the daemon that listens is not about to leave, an event
never.  What goes wrong without it is therefore not a matter of a deadline that
is too short.  `Mishaps` allows daemons to be killed, to fail in their setup,
and `Popen` to raise.

Not in the model: what an operation does with its events, the synchronous
wrappers, the cancel a client sends on Ctrl-C, `retry_on_version_mismatch=False`,
a mismatch after the hello (the daemon never sends one), a process id that is
used again while somebody still refers to it.

### CaptureHelper

What `AudioRecorder` and `LiveCapture` have in common: the Swift helper, the
pipe it writes frames to, and the mixer's hold between the pipe and the WAV file.
A frame is its number, so that the order and the completeness of what is saved
can be stated.  `hp` is where the helper is:

| `hp` | the helper |
|---|---|
| `starting` | has been launched and has not printed `capture: started` |
| `idle`, `writing` | waits for sound; is inside `writeFrame`, perhaps blocked by a full pipe |
| `exited` | is gone, with `code` `ok`, `fail` or `killed` |

`SIGTERM` makes it exit with 0 also in the middle of a write: then `torn` is
set, and the reader finds a partial frame, for which `frames()` raises.  A helper
that does not exit in time is killed (`SignalEscalates`).  `held` is what the
mixer has been fed and has not given back: a drain gives back any number of
frames (`Drain`), what it does with samples is `StereoMixer`'s subject.  The
launcher and the process it disclaims are one process here.

### AudioRecorder

`rpc` is where `start_recording` is:

| `rpc` | the main thread |
|---|---|
| `idle`, `done` | before the command; after it, with `outcome` |
| `entering`, `failing` | is in `AudioCapture.__enter__`; waits for the helper it gave up |
| `opening` | has the helper, and neither WAV file nor threads |
| `recording` | is in its loop |
| `exiting`, `joining` | waits for the helper; for the worker, with a deadline |
| `checking` | looks at the error and the frames, then at the discard flag |

The capture worker reads frames until the flag is cleared or the stream ends;
keys, the timer and `SIGTERM` clear the flag, the monitor only warns.  `CtrlC`
sets `intr` in any phase and reaches the helper as well, since both are in the
terminal's process group; what then happens depends on the phase
(`EnterFailed`, `OpenFails`, `LoopEnds`, `CleanupInterrupted`).  Between
`__enter__` and the second `try` (audio_recorder.py:125-134) there is no handler:
`OpenInterrupted` leaves the directory, and the exit of the process stops the helper.
What describes a finished recording may fail to be written (`DescribeFails`).  With `Slow` a
join may end by its deadline while the worker still writes.

### LiveCapture

`lpc` is where `LiveTranscriptionSession.run` is: `entering`, `failing` and
`wiring` as above, `waiting` for the end, then the four waits of
`_stop_pipeline` (`mixer`, `helper`, `chunker`, `scribe`), `checking`, `saving` (the
move of the WAV file) and `describing` (metadata and transcript).  Ctrl-C and a
failing disk (`SaveFails`) may come in each of the last three.

The mixer thread goes through `run`, `drain`, `flush` and `done`.  Its join has a
deadline; when that passes, `late` is set, and the stream is closed under the
thread.  It may then find the file gone and skip the write, which loses what it
held, or write to a closed file and die (`MixerPublishes`, `MixerCrashes`,
live_audio.py:207-211 and 265-271).  The mixer thread writes the WAV file first and publishes to
`frames`, which drops what does not fit; the chunker moves frames to `chunks`,
which drops as well; the transcriber moves chunks to `buffer` and, as Whisper
returns segments, stamps lines of `text` with them.  A segment that ends in the
buffer prunes it; one that ends past it, by up to `Overrun` frames, is emitted and
prunes nothing (live_transcriber.py:213-224).  What stays is heard again, and
`said` (`_last_emitted_end`) is what keeps it from being emitted again.  What silero
takes for speech, and how much of the buffer Whisper's segments cover, is arbitrary.
Three things about words are left out: silence between two segments counts with
the line before it; a segment that begins up to 30 % before `said` is emitted whole,
so words may be repeated; and what `said` passes beyond the buffer is
skipped when it is heard.  `debug` replaces the chunker by
the direct forwarder of `--debug-live`.  `WhisperRaises` tells the guarded pass
from the two that are not: those kill the thread.  Event and level queues feed
the screen and are left out.

### StereoMixer

Time is counted in samples, and a sample is known by its source and its time, so
that "in order", "twice" and "left behind" have a meaning without sample values.
`Feeds` drops what precedes a pause and the oldest above the cap; `drain` is
followed decision by decision: align (`Aligns`), pair (`Pairs`), pad a stalled
source (`Pads`), return (`Drained`).  `fed`, `mixed` and `lost` count per source,
`out` is the last sample that went into a frame.

### RecordCommand

The command runs one of the recorders over the helper; its other threads are
daemon threads and end with it, so nothing moves after `done`.  The mixer runs in
behaviours of its own, since the recorders only need that a drain gives back a
prefix of what was fed, which is what `MixedOnce` shows of it.

### NoteIndex

A `notes.md` is the stamp (mtime and size) it was last written with; `vec`,
`manifest` and `lex` hold, per note, the stamp of what the collection, the
manifest and `bm25.json` were made from.  A command is a process in `job`, and
its `pc` names the write it is about to do:

| `pc` | the next step |
|---|---|
| `prune`, `files`, `embed` | drop what is gone; read the next file and drop its old vectors; embed and add |
| `promote`, `rename`, `print` | (force) delete the live collection, rename the temporary one, write the fingerprint |
| `load`, `save`, `lex`, `stamp` | read the manifest again (`add_note`, `remove_note`); write it; write `bm25.json`; stamp a collection without fingerprint |

`by` is the model a note's vectors were made with, `owner` the process whose
temporary collection it is: a second rebuild takes it away from the first.
Many failures are swallowed by the code, and the command goes on and reports
success: a removal from the collection (index.py:503-513), the whole rebuild of
`bm25.json` when one note cannot be read (684-699), its append (727-728).  `Fails`
and `LexFails` are these, and draw on `luck` with the kills and the failed
embeddings.  `Mishap` is what the stores do not promise to survive without anything
failing: two commands that meet, a setting or a model that changes under a command.

Two history variables say whether the stores may be relied upon.  `listed`: nothing
has hurt `bm25.json` since it was last rewritten as a whole.  `calm`: nothing has hurt
the collection since a force rebuild saved its manifest.  What hurts each is named
in the comment of `UpToDateIsIndexed`; `HalfVectors` is the part of it that depends on
where a command was killed.  `clean` says that there was no mishap during the force
rebuild at work.  What a kill or a failure leaves that a later build makes good again
does not touch them.

### NotesPipeline

`store[d]` is what a directory holds: how far its recording is, what its
transcript and its notes were made of, its tags and template.  `work[p]` is what
a process does, at the step `pc`; steps that take minutes (`whisper`, `heard`,
`llm`) read before and write after.  `queue` and `had` are what `select_queue`
found when the command began, and may be stale when a note's turn comes; `taken`
is the queue as it was then.  `IsComplete` asks, as `_has_notes` does, for a file that
is not empty, so notes that a user has emptied are regenerated.  A stage that
fails moves its note to `failed`, also one that had passed its index stage: the last
stage (`saving`) writes `meta.toml` and may fail as well.
Directories two processes had at hand at a time are remembered in `raced`,
those whose `meta.toml` was rewritten under a merge in `torn`.

### AskNotes

A question goes through `fresh` (is the index as new as the notes?), `record`
(note the signature of what was built), `search`, `lookup` in the cache,
`stream`, `store`, `count` and `evict`.  Versions stand for the notes: `corpus`
on disk, `known` in the manifest, `indexed` in what a search finds, `asked` when the
question was put, `ground` of the context found.  A build reports success with notes
left out that could not be embedded (index.py:131-148), and with `bm25.json` not
written (`Built`); other commands index as well (`IndexedElsewhere`).  `missed`
remembers the sessions that recorded as fresh an index that lacks a note: one that
changed between the build and the signature recorded for it (retrieval.py:85), or
one that the build left out.

### NotesLibrary

These three, with the properties of `NoteIndex` and its own names for those of
the other two.

### DaemonCommands

A daemon is what `DaemonProcess` promises of one, seen from outside: `starting`,
`up`, `told` (a `SIGTERM` is pending), `closing` (the socket is gone, the lock is
not), `dead`.  launchd has an agent (`loaded`) whose process is `agent`, and starts one
over when it exits non-zero (`crashed`).  A command is in `cmd`: `ask`, `term`,
`vacate`, `overdue` are `_attempt_stop`; `probe`, `spawn`, `await`, `confirm` are
`_attempt_start`; `check`, `write`, `place`, `unload`, `load`, `verify`, `remove`,
`unlink`, `absent` are `launchd.py`.  Two writers of the plist share the name of its
temporary file, so the slower one's replace may find it gone (`gone`); an unload may
report success while the agent stays.  Every look at the daemon is a step of its
own, and other commands, lazy spawns, crashes and launchd come in between.

### ModelRegistry

Every command reads `models.toml` (`read`), makes its copy of it, and replaces the
file by way of a temporary one (`open`, `fill`, `replace`).  `pull` reads before
its download, the others after.  `validate`, `gate`, `toggle`, `download` come
before the read, `rmtree` and `warm` after the write.  A writer that fails removes
its temporary file, unless that fails too.

### LogFollow

A file is its inode, and an inode nobody refers to may be given to a new file.
Each process that logs has a rotating handler of its own on the same name:
`RollsOver`, `Renames`, `Reopens` are the steps of one rotation, and two of them
may interleave.  The follower opens, stats, reads to the end, compares the inode of
the name and reopens.

### ControlCommands

These three.

## The runs

| run | instance | checks |
|---|---|---|
| `core` | 3 clients, 2 ids, 2 chat models, cap 1; chat (idle unload after a delay or at once), unload, cancel, disconnects | `TypeOK`, `LockDiscipline`, `GenerationExclusive`, `CancelReaches`, `OneCountdown`, `CountdownRuns` |
| `roles` | 3 clients, a chat and 2 embed models, cap 1 each; chat (delay or pinned), embed, model.load of either role, unload | `ResidentCap`, `OneLoadAtATime`, `ImplementsResidency` |
| `live` | 3 clients, a chat and an embed model, no cap; fair | `Answered`, `IdleModelsUnload` |
| `owner` | 3 processes, 2 connections, 2 versions, any environment, handlers awaited on close | `DaemonTypeOK`, `SocketIsOwn`, `WorkUnderLock`, `ImplementsService` |
| `calls` | 2 impatient clients, one with a large request and one that never spawns, 3 processes, 2 versions, mishaps; only the clients are fair | `ClientTypeOK`, `CallEnds`, `AtMostOnce`, `ImplementsDaemon` |
| `patient` | 2 patient clients, one with a large request, 3 processes, 2 versions, handlers awaited on close; fair | `LazySpawnWorks`, `MismatchVacates` |
| `record` | `chirp record`, plain and `--live`, 2 frames through a pipe and queues of one, late joins, segments that end a frame past the buffer; the mixer with frames of 2 samples over 6 | `TypeOK`, `RecordingSettled`, `PipelineInOrder`, `MixedOnce` |
| `stops` | the same commands with joins that end by their threads and segments that end in the buffer; every thread fair | `StopEnds` |
| `library` | 2 processes at a time; index: a note, 2 stamps, 2 embed models, 1 mishap; pipeline: 2 directories, 2 commands, 1 setback; ask: 2 sessions, 2 questions, 2 models, 1 edit, a cache of 1 | `TypeOK`, `UpToDateIsIndexed`, `OneModel`, `PriorSurvives`, `ReportIsTrue`, `CompleteIsWhole`, `WishesKept`, `ContextIsFresh` |
| `control` | 2 commands; 3 daemons, 1 mishap; 2 models, 1 failure; 5 inodes | `TypeOK`, `ReportsAreTrue`, `RegistryIsWhole`, `RotationIsNoticed` |
| `lock_cycle`, `failed_rebuild` | see "What the code does not keep" | `NoLockCycle`, `FailureKeepsPrior`: violated |

**Safety.**  `ResidentCap` counts what occupies memory (resident, being
unloaded, being loaded), so it fails if two loads ever pass the cap check
together.  `GenerationExclusive` is that a handler has its model to itself and
nobody unloads it meanwhile.  `LockDiscipline` says which task owns which lock
at every moment, and so that no error path keeps one.  `CancelReaches` is that
a cancel of an id reaches the chat in flight under it, and that no finished
chat stays registered.  `OneCountdown`: a use always replaces the deadline of an
earlier one.  `CountdownRuns`: no chat model is forgotten by the idle timer.

**Liveness.**  `FairSpec` has weak fairness of `Serve(r)` and `Tick(u)`: the
event loop runs every task that is ready, a sleep ends, a backend call and a
generation end.  Nothing is assumed of clients or of failures.  Weak fairness
suffices because a task that may run stays able to run until it does: locks are
handed over in FIFO order.  `Answered` is checked without a cap, since under a
cap the eviction cycle below refutes it.

**Processes and calls.**  `SocketIsOwn` and `WorkUnderLock` are what the flock is
for: nobody unlinks or replaces the socket file of a daemon that still needs it,
and no two processes have requests or threads at once, although the file is
removed and the flock released at different moments and any of it may be cut
short by a signal.  `AtMostOnce`: a request that a daemon has begun is never sent
again, on whatever path the call fails.  `CallEnds`: no wait of a call is
unbounded, even if every daemon hangs, with one exception: a daemon that for ever
leaves the rest of a large request unread keeps its client waiting (`MCWedged.cfg`
below).  `CallSpec` assumes fairness of the clients' steps alone.  `LazySpawnWorks`: the losers of the race for the flock
exit, and their clients are served by the winner.  `MismatchVacates` needs the
daemons to run too (`FairSpec`): threads end, and closed connections are noticed.

**Recording** (`record`, `stops`).  `RecordingSettled`, of a plain recording: what is
reported as saved is a closed file with at least one frame, in the order they were
heard and none twice, in a note that is there.  Of a live one: it is the beginning of
what the helper sent, without a hole; if the mixer thread was joined in time,
nothing broke and all it had read is there, but for the frame at which it noticed the
stop.  If the join timed out, the end may be missing, and the code only logs it.
However else a command ends, by an error, a Ctrl-C at any point or a failing disk,
what was heard is in the note or in the temporary file, unless the capture itself
broke or the user discarded it; and no helper outlives the plain command.
`PipelineInOrder`: whatever the two queues drop, no frame is in two places of the
pipeline, and buffer, chunks, voiced frames and frame queue, read in this order,
ascend.  A frame that stays in the buffer after a line was stamped with it is heard
again: the second half of the property is that what is beyond `said` continues the
transcript, so that its lines reach each frame once.  `MixedOnce`: a sample is mixed
once or dropped once.  `StopEnds` (run `stops`) is liveness: once told to stop, plain
or live, by key, signal, timer or failure, the command ends; neither a full pipe nor
a full queue nor a thread that has died keeps a join waiting.  Its fairness is that
every thread is scheduled, that Whisper returns, and that a signalled helper exits; no
user, timer or failure is made to happen, and no join ends by its deadline while
its thread is at work, which would only make it easier.

**Notes** (`library`).  `UpToDateIsIndexed`: what the manifest takes for up to date is
in `bm25.json`, and with semantic search in the collection, at that stamp: kills
between any two writes, failed embeddings and removals, and notes written and deleted
under a build notwithstanding.  For `bm25.json` it holds from its last complete
rewrite on (`listed`), for the vectors from the last force rebuild on (`calm`), and
both leave out what the code does not survive: two commands that meet, settings
that change under one, an edit between an `add_note`'s reading and stamping; for
`bm25.json` a swallowed or cut-off write, for the vectors those of the failures that
the comment of the property lists one by one.  `OneModel`: as long as `calm` holds
the vectors of the collection are all by the model its fingerprint names, however
the default is switched between commands.  The `add_note` after an edit and in a batch
is not guarded, does mix models, and is left out.  `PriorSurvives` has no condition:
until its last file is done, a force rebuild has touched nothing that answers are made
from (a kill between the delete and the rename after that does lose the collection).

`ReportIsTrue`: every note of the queue as it was selected is counted, in one way,
whichever stages failed; one that is `ok` has notes of the transcript it has, one that is
`skipped` a transcript that is too short.  `CompleteIsWhole`: a note taken for done has
the transcript of its whole recording, whatever was killed, unless it was transcribed
while it was recorded.  Both are silent about directories that two commands had at
hand at a time (`raced`), but for the counting.  `WishesKept` (tags and templates outlive
the commands that rewrite `meta.toml` hours after they read the note) excludes only
those two merges overlapped on (`torn`).  `ContextIsFresh`: the context of an answer is at
least as new as the notes when the question was asked; it excludes sessions in
`missed`.  `TypeOK` includes the limit of the answer cache.

**Commands** (`control`).  `ReportsAreTrue`: a daemon reported as stopped or replaced
does not listen afterwards, a restart leaves another daemon than it found, and
launchd keeps an agent without a plist only if a command has said that it
failed.  `RegistryIsWhole`: whoever writes, fails or is killed, `models.toml` is a
whole registry whose defaults are registered, and only a killed or failed writer
leaves its temporary file.  `RotationIsNoticed`: the inode the follower remembers is never
that of a file it does not hold, so that the next comparison sees the rotation.

**Bounds.**  One handler serves one request; three suffice for an owner, a
waiter and an evictor.  Two aliases under a cap of one make every load evict,
two embed models beside a chat model let the roles' caps meet.  Larger caps and
more clients are the proofs' part (`CapIsKept`).  Requests, aliases and ids are
interchangeable and reduced by symmetry where no liveness is checked (in
`roles`, where aliases differ, only the requests).  `lock_cycle` and the
configurations beside it switch the deadlock check off: the lock cycle may stop
them first.

Three processes are one that leaves, one that arrives and one that loses the
lock, or, in `patient`, a child for each client and the dead owner of a stale
socket.
Two versions are an old and a new one; a client that is newer and one that is
older both occur, since the upgrade may happen before or after either starts.  A
call retries once, so one call of a client reaches every branch.

In `record`, two frames through a pipe and queues of one already meet every limit:
the helper blocks, each queue drops, the mixer holds a frame back, a chunk is
emitted after the transcriber left, a late mixer meets a closed file, and a segment
reaches past the buffer.  The last two multiply the states by five, and the
temporal check walks each several times, so `stops` does without them.  The mixer's gap (3) is longer than a frame
(2), the buffer (4) is overrun within the horizon (6), and a source can start
late, pause and end early.  In `library`, two processes are a command and the one
it meets, and after one mishap a rebuild still has room to make things good; a
second stamp is an edit.  The index has one note, since what is stored of a note
depends on no other; that a failure of one leaves or takes the others (`bm25.json`
fails as a whole) is the proofs' part, and a run with two (`Notes = {n1, n2}`: 3.3
million states, over four minutes) finds nothing else.  A second directory is a batch that goes on after a
failure, a second question what evicts the first.  `EmbedFails`, kills and races
all draw on the same mishap, so their combinations are not explored, only each with
every interleaving.  In `control`, three daemons are the one that is left, the one a
command spawned and one that launchd or a client spawned beside it (a run with
four found nothing else); of five inodes one is always free for a new file, since
nothing has the name then, and the backup, the follower and two writers hold
four at most.
`CHECK_DEADLOCK FALSE` in these runs and in the violations beside them:
commands end, and mishaps and edits are used up.

**Mutants.**  `PROJECT.json` names for each property a variant of a definition
(marked `MUTANT` in the module) that breaks it: a load without the gate, an
error path that keeps the gate, a full pipe that
does not block, a file that was only read taken for indexed, a merge that forgets
what was read, a stop that does not wait for the socket, and so on.

### What the code does not keep

Two runs are expected to end in a violation: each states what a comment says
of the code, and shows a behaviour that breaks it.

* `lock_cycle` — state.py:71-73 calls the order of locks free of cycles.  An
  eviction waits for its victim's lock with the gate and the loader's own lock
  held.  The victim was not locked when it was chosen, but with two victims or
  a woken waiter it can be by the time it is asked for, by a task that itself
  waits for the gate or for the first loader's lock.  All of them then wait for
  ever, and so does every later load.
* `failed_rebuild` — index.py:204-206 says that an embed failure during a force
  rebuild leaves the previous collection intact.  A note that cannot be embedded
  is skipped, the temporary collection is promoted without it, and the live one is
  deleted.  `chirp config --semantic` then announces that `chirp ask` will
  retry on demand (cli.py:1690), which an incremental build does not do for
  a note its manifest takes for up to date.

Thirteen more configurations stay beside the runs and can be checked by hand
(`tlc -config MCThreads.cfg MCModelLifecycle` and so on); each ends in a
violation.  Eight are of something a comment, a test, a help text or a planning
document says:

* `MCMisaligned.cfg` (`StereoMixer`) — audio_mixer.py:142-143 says that samples of the
  leading side are dropped so that both start at the same instant.  The side that is
  dropped from is the one whose head is later; the offset grows instead of closing.
* `MCPinned.cfg` (`MCModelLifecycle`) — embed models stay resident (PRD FR6).  A name
  `org/repo` resolves for either role (registry.py:164-165): a chat starts an idle task
  for it, the model is unloaded on request while the task waits, loaded again to
  embed, and the task unloads what its alias holds by then (state.py:422).
* `MCWedged.cfg` (`MCClientConnect`) — a daemon that completes the hello and then emits
  nothing must not hang its client (tests/llm/test_client.py:484).  If it does not
  read either, and the request is larger than the buffers in between, `drain()` and
  `wait_closed()` wait for ever.
* `MCLostVectors.cfg` (`MCNotesLibrary`) — a file that fails to embed is absent from the
  manifest and retried (tests/test_index_manifest.py:263).  `add_note` drops the old
  vectors before it embeds (index.py:479), and when that fails leaves the manifest
  alone, which may have the note as it is: `chirp transcribe` indexes again what the
  note generator has just indexed.
* `MCSkippedBuild.cfg` (`MCNotesLibrary`) — only a wasted build is skipped
  (retrieval.py:57-58).  The signature is taken after the build and whatever the build
  left out, so a note that was edited meanwhile or failed to embed counts as indexed.
* `MCForceResumes.cfg` (`MCNotesLibrary`) — `--force` re-runs all stages (cli.py:701).  It
  only widens the queue: a transcript that is there is resumed
  (batch_processor.py:321), one made while the recording still grew included.
* `MCEditsReplaced.cfg` (`MCNotesLibrary`) — completed notes are re-run only with `--force`
  (batch_processor.py:222-223).  The queue is selected once; a note that another command
  completed and its user edited since is generated over (353).
* `MCNotRequeued.cfg` (`MCNotesLibrary`) — a note that failed at a stage can be retried
  from there (story 1.4).  One that failed at its index or save stage has transcript
  and notes, and no later queue takes it up.

Five are of promises nobody wrote down in that form:

* `MCOwnModel.cfg` (`MCModelLifecycle`) — an idle task re-armed for an object that was
  evicted meanwhile unloads by alias, and takes down the model loaded since.
* `MCThreads.cfg` (`MCModelLifecycle`) — a cancelled chat gives up the model lock while its
  generation thread is still at work; the next chat generates on the same model
  beside it.
* `MCDropped.cfg` (`MCModelLifecycle`) — a dropped connection schedules no countdown; if the
  one armed by `load()` has ended by its skip, the model stays (PRD FR5).
* `MCRetry.cfg` (`MCClientConnect`) — the old daemon stops accepting before it gives the flock back,
  and joins its threads in between.  A client that waits for the first spawns a
  daemon that finds the second still held and exits with 0; the client polls
  until its deadline for a daemon nobody starts (PRD FR14).
* `MCPrevious.cfg` (`MCClientConnect`) — `_wait_for_socket_gone` takes any daemon that accepts for the
  old one.  If another client has spawned the new daemon between two of its
  probes, it waits for that one to leave, and the call fails (PRD FR14).

Met while modelling, without a configuration of its own:

* Daemon.  An eviction can take the model `load()` has just returned to a handler
  that queues for its lock again, because `locked()` is false until the handler
  is woken (state.py:241); a client retries only a version mismatch, not a broken pipe
  (PRD FR20), which is what makes `AtMostOnce` hold; after its last probe a client
  terminates its child without another look, though the child may serve others
  by then (client.py:541); any mismatch stops the daemon, also when it is the
  client that is outdated (server.py:256), and cuts the requests of all others.
* Daemon commands.  A connection lost while the daemon closes is not what
  `_probe_running` expects, and ends the command with a traceback
  (daemon.py:700).  `status` merges the answers of two connections, which may be
  two daemons.  The `SIGKILL` of a stop makes launchd start the daemon over.  A
  failed load leaves a plist, and every later `enable` says it is installed
  until `--force`.  Of two `disable`, the slower one fails at the unlink.
* Logs.  Lines written between the follower's last read and a rotation are not
  shown; a first open that races a rename ends the command.
* Registry.  Two commands at once lose an update; `pull` writes back what it read
  before its download.  A model that is given another role stays the default of
  its former one.
* Recording.  A stop can destroy the recording: `SIGTERM` in the middle of a write
  leaves a truncated frame, the reader raises, and the directory is removed
  (audio_recorder.py:190, live_session.py:169).  A Ctrl-C in `__enter__` leaves the
  note's directory.  The monitor's popup says that the recording stopped, and
  nothing stops (meeting_monitor.py:58-67).
* Live recording.  The transcriber may leave before the chunker emits its last
  chunk; an exception in its idle or final pass kills it; frames in the queue at
  the stop are never chunked; a mixer that is joined too late may lose the end of the
  recording, and the command reports success; a second Ctrl-C during
  `_stop_pipeline` leaves the recording in its temporary file only, as does a missing
  silero; a `save_recording` that fails leaves an empty note directory.
* Index.  A note that shrinks below a chunk leaves its vectors; the `add_note`
  after an edit, and of the batch's index stage, compares no fingerprint and mixes
  the vectors of two models; a kill between manifest and `bm25.json`, or one note that
  cannot be decoded, leaves notes "up to date" and unfindable until the next complete
  rewrite; `add_note` takes the signature after it has read the content; an emptied
  corpus leaves its `bm25.json`.
* Ask.  A cached answer is found by question, chunk ids and model, none of which
  changes when a note is edited in place (cache.py:113); an answer is stored
  under the model that is the default when it ends.
* Transcription.  Transcribing a recording that still grows leaves a part that is taken
  for the whole; notes that were emptied by hand are generated again;
  `merge_note_meta` makes a deleted directory again.

## The proofs

What TLC checks on small instances is proved for every set of requests, idle
tasks, aliases and ids, every registry and every cap, from `Assumptions` alone:
tasks and lock names are distinct, aliases are finitely many, caps are integers
per role, and `None` is none of the values it stands in for.

* `ModelLifecycleLocks`: first what acquiring, releasing, waking and leaving do
  to a lock; then `ShapeInvariant` and `TypeCorrectness`.  Types alone
  are not inductive: that a handler indexes `models` with an alias, or `lock`
  with the alias of its idle task's object, rests on which operation can be at
  which suspension.  `Shape` says so.  Then `LocksAreDisciplined`, and from it
  `LoadsAreSerial` and `GenerationIsExclusive`.  `Claims(t)` is the set of locks whose protection the
  suspension of `t` implies; `LockDiscipline` says that lock `l` is owned by `t`
  exactly if `t` claims it.  It is inductive with types and shape.  The two
  exclusion properties follow from it: two tasks that claimed the same lock
  would both be its owner.

* `ModelLifecyclePromises`: `CancelsReach`, `CountdownIsOne` and `CapIsKept`.  The
  first is inductive once it is known that a chat is announced only after it was
  resolved (`ChatResolved`): otherwise the refusal after the announcement, which
  clears nothing, would leave an entry behind.  The second follows from
  `IdleOwn`: a task that counts down is the `idle_unload_task` of its object, so
  what `schedule_idle_unload` cancels is always the only one there is.  The cap
  has three parts, `CapInv`.
  Between its cap check and its insertion a load owns the gate, and only the
  owner of the gate inserts, so nothing is added behind the check's back
  (`LoadsAreMisses`).  `since` is a strict order of the residents (`LruOrder`),
  so the least recently used of the evictable models exists, which takes a
  minimum of a finite strict order, and `Victims(r)` holds as many models as the
  load is over the cap.  What the load has yet to evict makes the room it needs,
  whoever else unloads meanwhile (`RoomIsMade`).

* `ModelLifecycleResidency`: `DaemonKeepsResidency` and `CountdownsRun`.
  The first is the refinement of `ModelResidency`.  `Doing(t, a)` is what task `t` does to
  the model of alias `a`; since whoever does anything to it claims its lock, at most one
  task does (`Apart`), so a step that changes what one task does changes the abstract
  activity of one alias by one step, and `CapInv` gives a load the room it begins in.
  The second needs to know who will look after a chat model that no countdown runs
  for: somebody is unloading it, or the chat that used it has yet to reschedule it
  (`Cared`), and a model whose `last_used` outran its countdown is with such a chat
  (`FreshHeld`), so the idle task that finds it used and skips leaves nothing behind.

* `ClientConnectProofs`, the daemon: from `DaemonAssumptions`, for every set of processes,
  clients and versions.  `SocketIsOwn` is not inductive: that nobody else binds
  or unlinks rests on the flock.  `LockOwner` says that the flock is held exactly
  by the process between `setup` and `leaving`; with it two processes cannot
  both be at a place where the file is touched.  `ConnectionsServed` and
  `ThreadsJoined` place handlers and threads in such a process, and
  `WorkStaysUnderLock` follows.  `OneDaemonServes` proves the refinement of
  `DaemonService`: the only step that is not plainly one of the abstract ones is
  the release of the flock, which is `Retires` because the invariant leaves no
  request and no thread to a process that exits.
* `ClientConnectProofs`, the calls: `ClientsAreEnvironment`, each step of a call is one that
  `DaemonProcess` allows or leaves the daemons alone (it needs the types: a call
  that reaps has a child to signal).  So the theorems about `DaemonSpec` hold of
  the system with its real clients, as `CallsWorkUnderLock` spells out.
  `BegunOnce` proves `AtMostOnce`: a request is with the daemon only while its
  call waits in `request` or has ended (`RequestKnown`), and from there no step
  leads back (`Past`).  A large request begins only when its line is complete.  `LazySpawnAnswers` proves `LazySpawnWorks` for any number of
  callers and processes under the settings of run `patient`: `~Impatient`, `~Mishaps`,
  `NoSpawn = {}`.  They are what the promise is about: a caller that does not spawn, a
  deadline that passes or a daemon that is killed ends a call without an answer.
  `OneVersion` alone is not inductive, for versions that differ once leave daemons on
  their way out.  `LazyInv` says that, as long as no client met another version
  (`Mixed` is stable), every process that runs is coming up or serves and none was told
  to stop (`Underway`): so no answer is cut, and whoever polls polls for somebody.

* `ControlCommandsProofs`, the registry: `RegistryStaysWhole`, and `CommandsKeepRegistry`
  for the composition, from `RegistryAssumptions` (a torn file is no registry).  That
  the file is whole rests on what each process holds (`Fine`): a copy it may
  write is a good registry, since every edit keeps defaults registered
  (`AddedFacts`, `RemovedFacts` and the like), and the temporary file that
  replaces the registry is that copy, complete, since no other process has its
  name.
* `ControlCommandsProofs`, the daemon commands: `ReportsHoldAlways`, from
  `ControlAssumptions` (the words for an outcome are no pids).  A command reports
  long after it looked, so `ControlInv` says what may be relied on in between: a
  pid that was found never starts again, once a stop saw the socket free its
  process is closing or dead (`Knows`), and an agent that is loaded without
  its plist has a command to blame (`Blamed`).
* `ControlCommandsProofs`, the types: `CommandTypes`, which needs `JobAssumptions` as well
  (commands run the jobs there are, processes are finitely many).  At most one process
  is past the flock, whoever is spawned, restarted or killed besides; this is inductive
  because only a process that finds the flock free comes up, and one that runs `old`
  code holds it (`LockInv`).
* `ControlCommandsProofs`, the log: `RotationIsAlwaysNoticed`.  The inode that the
  follower compares with is that of the file it holds (`LogInv`), and an inode is
  not used again while a file is held open, so a rotation between two looks cannot
  go unseen.
* `NoteIndexProofs`: `UpToDateStaysIndexed`, `OneModelStays` and `PriorIndexSurvives`
  (the properties `UpToDateIsIndexed`, `OneModel` and `PriorSurvives`).  A command writes
  the collection, the manifest and `bm25.json` one after the other, so while it works
  no two of them agree, and what the properties say of an idle index is not inductive.
  `IndexInv` says, of each place where a command can be, what agrees already: for the vectors, as
  long as `calm` holds, by the manifest in memory and by the one on disk (`Building`, `AddingOne`,
  together `Undisturbed`, in `CalmOk`), for `bm25.json` as long as `listed` does (`Findable`, in
  `ListedOk`).  A kill or a swallowed failure that clears neither variable has to leave the stores
  as the property wants them, and a note that is yet to be indexed is one no manifest takes for
  up to date (`Due`).  That only one command writes (`Alone`) is what the three histories promise.
  `Rebuilding` (`CleanOk`) says what a force rebuild has collected, for it is the one command that
  makes the vectors good whatever went before.
* `NotesLibraryProofs`: from `LibraryAssumption` (directories are ordered),
  `ReportsStayTrue`, `CompleteStaysWhole` and `WishesStay`.  Their
  invariant `PipeInv` says of each place a command can be what it holds in memory
  of its directory (`Current`), of the directories before it (`Queued`) and behind it
  (`Reported`).  All of it is qualified by `raced` and `torn`, and that a
  directory outside `raced` is at hand of one command at most is the last conjunct:
  from it a step of one command leaves the others' facts alone (`OneWriter`), so that
  each action has to be checked for its own command and directory only.
  `ContextStaysFresh` has `FreshInv`: between a question and its search a session
  knows how much of the corpus the index holds, unless it is in `missed`.  `LibraryTypes` takes the index's part
  from `NoteIndexProofs`; its part that is not about types is `CacheBounded`.  Several
  processes count and evict each by what it counted, so the cache can be over its limit
  with nobody due to count: then somebody has counted enough to remove what is too much,
  or is about to count (`Evictor`, in `ChatInv`).
* `RecordCommandProofs`, the mixer: `SamplesMixedOnce`, and `CommandMixesOnce` for the
  composition, from `MixerAssumptions` (a frame and a buffer hold something).
  `MixedOnce` alone is not inductive: a frame takes the first samples of a buffer, and
  that these come after what was mixed before needs that what is buffered is one
  stretch that ends where the source was last seen (`Contiguous`).
* `RecordCommandProofs`, the line of frames: `PipelineStaysInOrder`, `RecordingsSettle` and
  `RecordTypes`, with `CaptureAssumption` and `CommandAssumption` (pipe and queues have
  room).  What is in the pipe and the mixer reaches the queue later, so the order has to
  be known of it too.  `FrameInv` has a frame `e` such that buffer, chunks, the
  chunker's frames and the queue rise up to `e`, the transcript with the buffer
  (`Transcribed`), and the file rises up to `e` with the mixer and the pipe after it
  (`Recorded`); queues keep their bounds.  `TextInv` puts what the buffer holds beyond
  `said` after all that the transcript has reached.
  For `RecordingSettled` a file in order is not enough: of a live recording none may
  be missing.  Until its file is closed, file, mixer and pipe together are all that
  was sent (`LiveFile`); after a late join they are its beginning still, since the
  thread only drops what it holds once the file is closed.  Each place of the session
  says whether there is a directory, a temporary file and a mixer (`LiveResult`);
  `PlainInv` says the same of the plain command, its flag and its worker thread.

Only model-checked, because liveness and fairness are out of the prover's reach:
`Answered` and `IdleModelsUnload` of run `live`, `CallEnds`, `MismatchVacates` and
`StopEnds`.  Every invariant, every action property and each refinement that a
passing run checks has a theorem, `LazySpawnWorks` under the hypotheses given above.
The histories that some properties are qualified by (`listed`, `calm`, `raced`, `torn`,
`missed`) qualify their theorems in the same way.

## Plan

1. `ModelLifecycle` with its abstract specification, and the proofs of its
   exclusion, cap, cancel and countdown properties and of the refinement (done).
2. `DaemonProcess` with `ClientConnect`, `DaemonService`, and their proofs,
   `LazySpawnWorks` as an invariant of the race among them (done).
3. The recorders over the helper, the mixer, and the proofs of their types, of the
   order of the frames and of how a recording settles (done).
4. The index, the notes' directories and the questions, with their proofs (done).
5. The daemon commands, the registry and the log, with their proofs (done).
6. `BackendStream`: producer thread, token queue, break and cancel (backend.py:216); a
   reported end means that every token was delivered.

## Not modelled

* `BackendStream` is left to do; `ModelLifecycle` has its thread and its end only.
* Client operations beyond `_request`: they turn events into values.
* The note editor's screen, the live dashboard, the wizard's screens, tables and
  prompts: terminal I/O that keeps nothing.  The steps of the wizard that
  change state are in `ModelRegistry` and `DaemonCommands`.
* Ranking and time ranges of retrieval, chunking, prompts and templates,
  resampling, decoding and compression: they compute text or numbers from their
  inputs, and tests reach them.
* The protocol module encodes and validates one line and is stateless; settings are
  one file, whose one flag that matters to others is in two modules.
* The permission probes, the device list and the popups read or show, and keep
  nothing; scripts and tests are no part of the running program.
