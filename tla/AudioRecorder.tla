---------------------------- MODULE AudioRecorder ----------------------------
(***************************************************************************)
(* `chirp record`: AudioRecorder.start_recording in the main thread, its   *)
(* capture worker, the duration timer, the meeting monitor, and what the   *)
(* record command does with keys, signals and the result.                  *)
(***************************************************************************)
EXTENDS CaptureHelper

CONSTANTS Slow,     \* a join may time out although its thread is at work
          Mishaps   \* the disk may refuse a write

VARIABLES
    rpc,      \* where the main thread is, see RecordTypeOK
    flag,     \* _is_recording_event
    paused,   \* _paused_event
    discard,  \* the user pressed x
    worker,   \* the capture worker: "off", "run", "done"
    monitor,  \* the meeting monitor: "off", "watching", "warned"
    err,      \* _capture_error is set
    intr,     \* a Ctrl-C the main thread has yet to notice
    note,     \* the note's directory: "none", "dir", "meta", "audio", "saved"
    outcome   \* "none", "ok", "error", "discarded", "interrupted"

recorderVars == <<rpc, flag, paused, discard, worker, monitor>>
commandVars == <<err, intr, note, outcome>>
recordVars == <<helperVars, soundVars, recorderVars, commandVars>>

CommandInit == err = FALSE /\ intr = FALSE /\ note = "none" /\ outcome = "none"

RecorderInit ==
    /\ rpc = "idle" /\ worker = "off" /\ monitor = "off"
    /\ flag = FALSE /\ paused = FALSE /\ discard = FALSE

RecordTypeOK ==
    /\ rpc \in {"idle", "entering", "failing", "opening", "recording", "exiting",
                "joining", "checking", "done"}
    /\ worker \in {"off", "run", "done"}
    /\ monitor \in {"off", "watching", "warned"}
    /\ {flag, paused, discard, err, intr} \subseteq BOOLEAN
    /\ note \in {"none", "dir", "meta", "audio", "saved"}
    /\ outcome \in {"none", "ok", "error", "discarded", "interrupted"}

Returns(result, left) ==
    /\ rpc' = "done" /\ outcome' = result /\ note' = left

(***************************************************************************)
(* Starting: the directory, the helper, the WAV file, the threads.         *)
(***************************************************************************)
RecordStarts ==
    /\ rpc = "idle"
    /\ rpc' = "entering" /\ note' = "dir" /\ flag' = TRUE
    /\ Launch
    /\ UNCHANGED <<soundVars, paused, discard, worker, monitor, err, intr, outcome>>

\* __enter__ has read "capture: started".
RecordEnters ==
    /\ rpc = "entering" /\ started /\ ~intr
    /\ rpc' = "opening"
    /\ UNCHANGED <<helperVars, soundVars, flag, paused, discard, worker, monitor,
                   commandVars>>

\* An error line, a timeout or Ctrl-C: the helper is stopped and waited for.
EnterFails ==
    /\ rpc = "entering" /\ (intr \/ ~started)
    /\ rpc' = "failing"
    /\ Terminate
    /\ UNCHANGED <<soundVars, flag, paused, discard, worker, monitor, commandVars>>

\* `except Exception` does not see a KeyboardInterrupt.
EnterFailed ==
    /\ rpc = "failing" /\ hp = "exited"
    /\ IF intr THEN Returns("interrupted", note) /\ UNCHANGED flag
               ELSE Returns("error", "none") /\ flag' = FALSE
    /\ UNCHANGED <<helperVars, soundVars, paused, discard, worker, monitor, err, intr>>

RecordOpens ==
    /\ rpc = "opening" /\ ~intr
    /\ rpc' = "recording" /\ note' = "meta" /\ wavOpen' = TRUE
    /\ worker' = "run" /\ monitor' = "watching"
    /\ UNCHANGED <<helperVars, held, wav, flag, paused, discard, err, intr, outcome>>

\* wave.open, the metadata or a thread fails, or Ctrl-C before the loop.
OpenFails ==
    /\ rpc = "opening" /\ (intr \/ Mishaps)
    /\ rpc' = "exiting" /\ intr' = FALSE
    /\ IF intr THEN UNCHANGED <<note, outcome>> ELSE note' = "none" /\ outcome' = "error"
    /\ Terminate
    /\ UNCHANGED <<soundVars, flag, paused, discard, worker, monitor, err>>

\* Ctrl-C after __enter__, where only Exception is caught: the exit of the
\* process stops the helper (_atexit_cleanup).
OpenInterrupted ==
    /\ rpc = "opening" /\ intr
    /\ Returns("interrupted", note)
    /\ Terminate
    /\ UNCHANGED <<soundVars, flag, paused, discard, worker, monitor, err, intr>>

(***************************************************************************)
(* The loop, and everyone who ends it.                                     *)
(***************************************************************************)
CanStop == rpc = "recording" /\ flag

\* q, Esc, SIGTERM, the duration timer: _is_recording_event.clear().
StopRequested ==
    /\ CanStop
    /\ flag' = FALSE
    /\ UNCHANGED <<helperVars, soundVars, rpc, paused, discard, worker, monitor,
                   commandVars>>

KeyDiscards ==
    /\ CanStop
    /\ flag' = FALSE /\ discard' = TRUE
    /\ UNCHANGED <<helperVars, soundVars, rpc, paused, worker, monitor, commandVars>>

KeyPauses ==
    /\ CanStop
    /\ paused' = ~paused
    /\ UNCHANGED <<helperVars, soundVars, rpc, flag, discard, worker, monitor,
                   commandVars>>

\* The terminal sends SIGINT to the helper too, which is in the same group.
CtrlC ==
    /\ rpc \notin {"idle", "failing", "done"} /\ ~intr
    /\ intr' = TRUE
    /\ Terminate
    /\ UNCHANGED <<soundVars, recorderVars, err, note, outcome>>

\* The monitor's popup says that the recording stopped; its thread ends.
MonitorWarns ==
    /\ monitor = "watching"
    /\ monitor' = "warned"
    /\ UNCHANGED <<helperVars, soundVars, rpc, flag, paused, discard, worker, commandVars>>

LoopEnds ==
    /\ rpc = "recording" /\ (intr \/ ~flag)
    /\ rpc' = "exiting" /\ flag' = FALSE /\ intr' = FALSE
    /\ Terminate
    /\ UNCHANGED <<soundVars, paused, discard, worker, monitor, err, note, outcome>>

(***************************************************************************)
(* The capture worker.                                                     *)
(***************************************************************************)
WorkerFrame ==
    /\ worker = "run" /\ flag /\ ReadFrame
    /\ \E n \in 0 .. Len(held) + 1 : Drain(<<Head(pipe)>>, n, ~paused)
    /\ UNCHANGED <<recorderVars, commandVars>>

\* Written after wave_file.close(): wave raises, and so does the worker.
FlushesOrCrashes(broken) ==
    LET crash == broken \/ (held # <<>> /\ ~paused /\ ~wavOpen)
    IN  /\ IF crash THEN UNCHANGED soundVars ELSE Flush(~paused)
        /\ err' = (err \/ crash \/ (EndOfStream /\ flag))
        /\ worker' = "done" /\ flag' = FALSE

\* A frame arrives after the stop: it is not fed, what is held is flushed.
WorkerBreaks ==
    /\ worker = "run" /\ ~flag /\ ReadFrame
    /\ FlushesOrCrashes(FALSE)
    /\ UNCHANGED <<rpc, paused, discard, monitor, intr, note, outcome>>

WorkerSeesEnd ==
    /\ worker = "run" /\ EndOfStream
    /\ FlushesOrCrashes(StreamBroken)
    /\ UNCHANGED <<helperVars, rpc, paused, discard, monitor, intr, note, outcome>>

(***************************************************************************)
(* _cleanup_recording, then the result.                                    *)
(***************************************************************************)
HelperGone ==
    /\ rpc = "exiting" /\ hp = "exited" /\ ~intr
    /\ rpc' = "joining"
    /\ UNCHANGED <<helperVars, soundVars, flag, paused, discard, worker, monitor,
                   commandVars>>

WorkerJoined ==
    /\ rpc = "joining" /\ ~intr
    /\ Slow \/ worker # "run"
    /\ rpc' = "checking" /\ wavOpen' = FALSE
    /\ monitor' = "off" /\ flag' = FALSE
    /\ UNCHANGED <<helperVars, held, wav, paused, discard, worker, commandVars>>

\* A second Ctrl-C leaves the finally block, or what follows it, where it is.
CleanupInterrupted ==
    /\ rpc \in {"exiting", "joining", "checking"} /\ intr
    /\ Returns("interrupted", note)
    /\ Terminate
    /\ UNCHANGED <<soundVars, flag, paused, discard, worker, monitor, err, intr>>

\* MUTANT of RecordReturns: what was written counts, whatever ended it
RecordReturnsWhatThereIs ==
    /\ rpc = "checking" /\ ~intr
    /\ IF wav = <<>> THEN Returns("error", "none")
       ELSE IF discard THEN Returns("discarded", "none")
       ELSE Returns("ok", "saved")
    /\ UNCHANGED <<helperVars, soundVars, flag, paused, discard, worker, monitor,
                   err, intr>>

RecordReturns ==
    /\ rpc = "checking" /\ ~intr
    /\ IF outcome = "error" \/ err \/ wav = <<>> THEN Returns("error", "none")
       ELSE IF discard THEN Returns("discarded", "none")
       ELSE Returns("ok", "saved")
    /\ UNCHANGED <<helperVars, soundVars, flag, paused, discard, worker, monitor,
                   err, intr>>

\* The duration or the template cannot be written: the note stays.
DescribeFails ==
    /\ rpc = "checking" /\ ~intr /\ Mishaps
    /\ outcome = "none" /\ ~err /\ wav # <<>>
    /\ Returns("error", note)
    /\ UNCHANGED <<helperVars, soundVars, flag, paused, discard, worker, monitor,
                   err, intr>>

RecorderWorks ==
    \/ RecordEnters \/ EnterFailed \/ RecordOpens \/ LoopEnds
    \/ HelperGone \/ WorkerJoined \/ CleanupInterrupted \/ RecordReturns
    \/ OpenInterrupted
WorkerWorks == WorkerFrame \/ WorkerBreaks \/ WorkerSeesEnd

HelperAlone == HelperStep /\ UNCHANGED <<soundVars, recorderVars, commandVars>>
HelperWorksAlone == HelperWorks /\ UNCHANGED <<soundVars, recorderVars, commandVars>>

RecordNext ==
    \/ RecordStarts \/ RecorderWorks \/ WorkerWorks \/ EnterFails \/ OpenFails \/ DescribeFails
    \/ StopRequested \/ KeyDiscards \/ KeyPauses \/ CtrlC \/ MonitorWarns
    \/ HelperAlone

(***************************************************************************)
(* Properties                                                              *)
(***************************************************************************)

\* A recording that is reported as saved is a closed file with at least one
\* frame, in order and none twice, and nothing broke on the way.  One that failed
\* or was discarded leaves no directory, unless only its description failed.  No
\* helper outlives any of these.  Whatever was heard is in the note, unless the
\* capture broke or the user discarded it: so also after a Ctrl-C.
RecordingSettled ==
    rpc = "done" =>
        /\ outcome \in {"ok", "error", "discarded"} => hp = "exited" /\ ~flag /\ ~wavOpen
        /\ outcome = "ok" => /\ note = "saved" /\ wav # <<>> /\ ~err
                             /\ \A i \in 2 .. Len(wav) : wav[i - 1] < wav[i]
        /\ outcome \in {"error", "discarded"} => note = "none" \/ (wav # <<>> /\ ~err)
        /\ wav # <<>> /\ note = "none" => err \/ outcome = "discarded"
=============================================================================
