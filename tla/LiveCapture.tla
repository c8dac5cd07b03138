----------------------------- MODULE LiveCapture -----------------------------
(***************************************************************************)
(* `chirp record --live`: LiveTranscriptionSession.run in the main thread, *)
(* the mixer thread of LiveAudioStream, the VAD chunker (in debug mode the *)
(* direct forwarder), the live transcriber, and the queues between them.   *)
(* The event and level queues feed the screen only and are left out.       *)
(***************************************************************************)
EXTENDS CaptureHelper

CONSTANTS Slow,        \* a join may time out although its thread is at work
          Mishaps,     \* Whisper and the disk may fail, silero may be missing
          FrameRoom,   \* frame_queue's maxsize
          ChunkRoom,   \* chunk_queue's maxsize
          Overrun      \* how many frames past the buffer a segment may end

VARIABLES
    lpc,       \* where the main thread is, see LiveTypeOK
    stop,      \* stop_event
    debug,     \* --debug-live
    mixer,     \* the mixer thread: "off", "run", "drain", "flush", "done"
    late,      \* the join of the mixer timed out ("capture_error may be stale")
    frames,    \* frame_queue
    lostF,     \* dropped_frames
    chunker,   \* "off", "check", "get", "done"
    voiced,    \* _voiced_frames, or the forwarder's audio_buffer
    chunks,    \* chunk_queue
    lostC,     \* dropped_chunks
    scribe,    \* the transcriber: "off", "get", "chunk", "idle", "final", "done", "dead"
    overdue,   \* an interval has passed since it last transcribed
    buffer,    \* frames in _pcm_buffer
    said,      \* how far into the buffer, or past it, _last_emitted_end is
    text,      \* frames the transcript's lines are stamped with, in its order
    temp,      \* the temporary WAV file exists
    err, intr, note, outcome

mainVars == <<lpc, debug, late>>
chunkerVars == <<chunker, voiced>>
scribeVars == <<scribe, overdue, buffer, said, text>>
lossVars == <<lostF, lostC>>
liveVars == <<lpc, stop, debug, mixer, late, frames, lossVars, chunkerVars, chunks,
              scribeVars, temp>>
commandVars == <<err, intr, note, outcome>>
sessionVars == <<helperVars, soundVars, liveVars, commandVars>>

LiveInit ==
    /\ lpc = "idle" /\ stop = FALSE /\ debug \in BOOLEAN
    /\ mixer = "off" /\ late = FALSE /\ frames = <<>> /\ lostF = 0
    /\ chunker = "off" /\ voiced = <<>> /\ chunks = <<>> /\ lostC = 0
    /\ scribe = "off" /\ overdue = FALSE /\ buffer = <<>> /\ said = 0
    /\ text = <<>>
    /\ temp = FALSE

LiveTypeOK ==
    /\ lpc \in {"idle", "entering", "failing", "wiring", "waiting", "mixer", "helper",
                "chunker", "scribe", "checking", "saving", "describing", "done"}
    /\ mixer \in {"off", "run", "drain", "flush", "done"}
    /\ chunker \in {"off", "check", "get", "done"}
    /\ scribe \in {"off", "get", "chunk", "idle", "final", "done", "dead"}
    /\ {stop, debug, late, overdue, temp, err, intr} \subseteq BOOLEAN
    /\ said \in Nat
    /\ {lostF, lostC} \subseteq 0 .. MaxFrames
    /\ Len(frames) <= FrameRoom /\ Len(chunks) <= ChunkRoom
    /\ \A s \in {frames, voiced, buffer, text} : s \in Seq(1 .. MaxFrames)
    /\ chunks \in Seq(Seq(1 .. MaxFrames))

Returns(result, left) == lpc' = "done" /\ outcome' = result /\ note' = left

(***************************************************************************)
(* LiveAudioStream.start and the rest of the start of run().               *)
(***************************************************************************)
SessionStarts ==
    /\ lpc = "idle"
    /\ lpc' = "entering" /\ temp' = TRUE /\ wavOpen' = TRUE
    /\ Launch
    /\ UNCHANGED <<held, wav, stop, debug, late, mixer, frames, lossVars, chunkerVars, chunks,
                   scribeVars, commandVars>>

StreamStarts ==
    /\ lpc = "entering" /\ started /\ ~intr
    /\ lpc' = "wiring" /\ mixer' = "run"
    /\ UNCHANGED <<helperVars, soundVars, stop, debug, late, frames, lossVars, chunkerVars,
                   chunks, scribeVars, temp, commandVars>>

StreamFails ==
    /\ lpc = "entering" /\ (intr \/ ~started)
    /\ lpc' = "failing"
    /\ Terminate
    /\ UNCHANGED <<soundVars, stop, debug, late, mixer, frames, lossVars, chunkerVars, chunks,
                   scribeVars, temp, commandVars>>

StreamFailed ==
    /\ lpc = "failing" /\ hp = "exited"
    /\ Returns(IF intr THEN "interrupted" ELSE "error", note)
    /\ temp' = FALSE /\ wavOpen' = FALSE
    /\ UNCHANGED <<helperVars, held, wav, stop, debug, late, mixer, frames, lossVars,
                   chunkerVars, chunks, scribeVars, err, intr>>

ThreadsStart ==
    /\ lpc = "wiring" /\ ~intr
    /\ lpc' = "waiting" /\ chunker' = "check" /\ scribe' = "get"
    /\ UNCHANGED <<helperVars, soundVars, stop, debug, late, mixer, frames, lossVars, voiced,
                   chunks, overdue, buffer, said, text, temp, commandVars>>

\* silero-vad is missing, or Ctrl-C: run() is left with the stream open, and
\* only the exit of the process stops the helper (_atexit_cleanup).
WiringFails ==
    /\ lpc = "wiring" /\ (intr \/ (Mishaps /\ ~debug))
    /\ Returns(IF intr THEN "interrupted" ELSE "error", note)
    /\ mixer' = "done"
    /\ Terminate
    /\ UNCHANGED <<soundVars, stop, debug, late, frames, lossVars, chunkerVars, chunks,
                   scribeVars, temp, err, intr>>

(***************************************************************************)
(* The mixer thread: WAV first, then the queue, which may be full.         *)
(***************************************************************************)
Publish(seq) ==
    LET n == IF Len(seq) < FrameRoom - Len(frames) THEN Len(seq)
             ELSE FrameRoom - Len(frames)
    IN  /\ frames' = frames \o SubSeq(seq, 1, n)
        /\ lostF' = lostF + (Len(seq) - n)

MixerFrame ==
    /\ mixer = "run" /\ ~stop /\ ReadFrame
    /\ held' = Append(held, Head(pipe)) /\ mixer' = "drain"
    /\ UNCHANGED <<wav, wavOpen, mainVars, stop, frames, lossVars, chunkerVars, chunks,
                   scribeVars, temp, commandVars>>

\* _publish_mixed_frame: a closed file is skipped once _wave is None.
MixerPublishes ==
    /\ mixer \in {"drain", "flush"} /\ held # <<>>
    /\ Drain(<<>>, 1, wavOpen) /\ Publish(SubSeq(held, 1, 1))
    /\ UNCHANGED <<helperVars, mainVars, stop, mixer, lostC, chunkerVars, chunks,
                   scribeVars, temp, commandVars>>

\* drain() has given back all that is complete.
MixerWaits ==
    /\ mixer = "drain"
    /\ mixer' = "run"
    /\ UNCHANGED <<helperVars, soundVars, mainVars, stop, frames, lossVars, chunkerVars,
                   chunks, scribeVars, temp, commandVars>>

\* The stop is seen at the next frame, which is dropped; then flush().
MixerBreaks ==
    /\ mixer = "run" /\ stop /\ ReadFrame
    /\ mixer' = "flush"
    /\ UNCHANGED <<soundVars, mainVars, stop, frames, lossVars, chunkerVars, chunks,
                   scribeVars, temp, commandVars>>

MixerSeesEnd ==
    /\ mixer = "run" /\ EndOfStream /\ ~StreamBroken
    /\ mixer' = "flush"
    /\ UNCHANGED <<helperVars, soundVars, mainVars, stop, frames, lossVars, chunkerVars,
                   chunks, scribeVars, temp, commandVars>>

\* frames() raises, or the file is closed between the test and the write.
MixerCrashes ==
    /\ \/ mixer = "run" /\ EndOfStream /\ StreamBroken
       \/ mixer \in {"drain", "flush"} /\ held # <<>> /\ ~wavOpen
    /\ mixer' = "done" /\ stop' = TRUE /\ err' = TRUE
    /\ UNCHANGED <<helperVars, soundVars, mainVars, frames, lossVars, chunkerVars, chunks,
                   scribeVars, temp, intr, note, outcome>>

\* EOF before the stop is an error too.
MixerEnds ==
    /\ mixer = "flush" /\ held = <<>>
    /\ mixer' = "done" /\ stop' = TRUE
    /\ err' = (err \/ ~stop)
    /\ UNCHANGED <<helperVars, soundVars, mainVars, frames, lossVars, chunkerVars, chunks,
                   scribeVars, temp, intr, note, outcome>>

(***************************************************************************)
(* The chunker.  What silero calls speech is arbitrary.                    *)
(***************************************************************************)
\* put_nowait; the forwarder counts nothing.
Emit(chunk) ==
    IF Len(chunks) < ChunkRoom
    THEN chunks' = Append(chunks, chunk) /\ UNCHANGED lostC
    ELSE UNCHANGED chunks /\ lostC' = IF debug THEN lostC ELSE lostC + 1

ChunkerContinues ==
    /\ chunker = "check" /\ ~stop
    /\ chunker' = "get"
    /\ UNCHANGED <<helperVars, soundVars, mainVars, stop, mixer, frames, lossVars, voiced,
                   chunks, scribeVars, temp, commandVars>>

ChunkerTimesOut ==
    /\ chunker = "get" /\ frames = <<>>
    /\ chunker' = "check"
    /\ UNCHANGED <<helperVars, soundVars, mainVars, stop, mixer, frames, lossVars, voiced,
                   chunks, scribeVars, temp, commandVars>>

\* MUTANT of ChunkerFrame: what was emitted stays in the buffer
ChunkerFrameKept ==
    /\ chunker = "get" /\ frames # <<>>
    /\ chunker' = "check" /\ frames' = Tail(frames)
    /\ voiced' = Append(voiced, Head(frames))
    /\ Emit(voiced') \/ UNCHANGED <<chunks, lostC>>
    /\ UNCHANGED <<helperVars, soundVars, mainVars, stop, mixer, lostF, scribeVars, temp,
                   commandVars>>

\* A frame is silence, is added to the speech, or completes a chunk.
ChunkerFrame ==
    /\ chunker = "get" /\ frames # <<>>
    /\ chunker' = "check" /\ frames' = Tail(frames)
    /\ \/ ~debug /\ voiced = <<>> /\ UNCHANGED <<voiced, chunks, lostC>>
       \/ voiced' = Append(voiced, Head(frames)) /\ UNCHANGED <<chunks, lostC>>
       \/ voiced' = <<>> /\ Emit(Append(voiced, Head(frames)))
    /\ UNCHANGED <<helperVars, soundVars, mainVars, stop, mixer, lostF, scribeVars, temp,
                   commandVars>>

ChunkerStops ==
    /\ chunker = "check" /\ stop
    /\ chunker' = "done" /\ voiced' = <<>>
    /\ IF voiced = <<>> THEN UNCHANGED <<chunks, lostC>> ELSE Emit(voiced)
    /\ UNCHANGED <<helperVars, soundVars, mainVars, stop, mixer, frames, lostF, scribeVars,
                   temp, commandVars>>

ChunkerStep == ChunkerContinues \/ ChunkerTimesOut \/ ChunkerFrame \/ ChunkerStops

(***************************************************************************)
(* The transcriber.                                                        *)
(***************************************************************************)
TakesChunk ==
    /\ scribe = "get" /\ chunks # <<>>
    /\ chunks' = Tail(chunks) /\ buffer' = buffer \o Head(chunks)
    /\ \E due \in BOOLEAN :
        /\ overdue' = (overdue \/ due)
        /\ scribe' = IF overdue' THEN "chunk" ELSE "get"
    /\ UNCHANGED <<helperVars, soundVars, mainVars, stop, mixer, frames, lossVars,
                   chunkerVars, said, text, temp, commandVars>>

\* MUTANT of FindsNothing: the stop is only looked at with an empty buffer
FindsNothingDue ==
    /\ scribe = "get" /\ chunks = <<>>
    /\ IF buffer = <<>> THEN stop ELSE overdue
    /\ scribe' = IF buffer = <<>> THEN "done" ELSE IF stop THEN "final" ELSE "idle"
    /\ UNCHANGED <<helperVars, soundVars, mainVars, stop, mixer, frames, lossVars,
                   chunkerVars, chunks, overdue, buffer, said, text, temp, commandVars>>

\* queue.Empty: the loop ends after the stop, else an overdue buffer is tried.
FindsNothing ==
    /\ scribe = "get" /\ chunks = <<>>
    /\ stop \/ (overdue /\ buffer # <<>>)
    /\ scribe' = IF ~stop THEN "idle" ELSE IF buffer # <<>> THEN "final" ELSE "done"
    /\ UNCHANGED <<helperVars, soundVars, mainVars, stop, mixer, frames, lossVars,
                   chunkerVars, chunks, overdue, buffer, said, text, temp, commandVars>>

AfterPass == IF scribe = "final" THEN "done" ELSE "get"

\* Only the pass for a new chunk is guarded.
AfterError == IF scribe = "chunk" THEN "get" ELSE "dead"

Furthest(m, n) == IF m > n THEN m ELSE n
Nearest(m, n) == IF m < n THEN m ELSE n

\* The latest segment ends at `last`, which is past the buffer when Whisper timed
\* its padding; the last line kept ends at `line`.  A line that begins before
\* what is said is stamped from there, or dropped.  Only an end within the
\* buffer prunes it.
Transcribes(last, line) ==
    LET reached == Furthest(said, line)
        pruned == IF last <= Len(buffer) THEN last ELSE 0
    IN  /\ text' = text \o SubSeq(buffer, said + 1, Nearest(line, Len(buffer)))
        /\ buffer' = SubSeq(buffer, pruned + 1, Len(buffer))
        /\ said' = IF reached > pruned THEN reached - pruned ELSE 0

\* Without segments the whole buffer goes, unless silence was left out of it:
\* the chunks' clock is then past its end.
HearsNothing ==
    \/ UNCHANGED <<buffer, said, text>>
    \/ /\ buffer' = <<>> /\ UNCHANGED text
       /\ said' = IF said > Len(buffer) THEN said - Len(buffer) ELSE 0

\* In debug mode the files written last may fail: what was transcribed stays.
WhisperReturns ==
    /\ scribe \in {"chunk", "idle", "final"}
    /\ scribe' = AfterPass \/ (Mishaps /\ debug /\ scribe' = AfterError)
    /\ overdue' = FALSE
    /\ \/ \E last \in 1 .. Len(buffer) + Overrun :
            \E line \in 0 .. last : Transcribes(last, line)
       \/ HearsNothing
    /\ UNCHANGED <<helperVars, soundVars, mainVars, stop, mixer, frames, lossVars,
                   chunkerVars, chunks, temp, commandVars>>

WhisperRaises ==
    /\ Mishaps /\ scribe \in {"chunk", "idle", "final"}
    /\ scribe' = AfterError
    /\ UNCHANGED <<helperVars, soundVars, mainVars, stop, mixer, frames, lossVars,
                   chunkerVars, chunks, overdue, buffer, said, text, temp, commandVars>>

ScribeWorks == TakesChunk \/ FindsNothing \/ WhisperReturns

(***************************************************************************)
(* The end: duration, Ctrl-C or a failed stream, then _stop_pipeline.      *)
(***************************************************************************)
DurationReached ==
    /\ lpc = "waiting" /\ ~stop
    /\ stop' = TRUE
    /\ UNCHANGED <<helperVars, soundVars, mainVars, mixer, frames, lossVars, chunkerVars,
                   chunks, scribeVars, temp, commandVars>>

CtrlC ==
    /\ lpc \notin {"idle", "failing", "done"} /\ ~intr
    /\ intr' = TRUE
    /\ Terminate
    /\ UNCHANGED <<soundVars, liveVars, err, note, outcome>>

WaitEnds ==
    /\ lpc = "waiting" /\ (stop \/ intr)
    /\ lpc' = "mixer" /\ stop' = TRUE /\ intr' = FALSE
    /\ Terminate
    /\ UNCHANGED <<soundVars, debug, late, mixer, frames, lossVars, chunkerVars, chunks,
                   scribeVars, temp, err, note, outcome>>

Joined(at, over, next) ==
    /\ lpc = at /\ ~intr /\ over
    /\ lpc' = next
    /\ UNCHANGED <<helperVars, held, wav, stop, debug, mixer, frames, lossVars, chunkerVars,
                   chunks, scribeVars, temp, commandVars>>

MixerJoined ==
    /\ Joined("mixer", Slow \/ mixer = "done", "helper") /\ UNCHANGED wavOpen
    /\ late' = (mixer # "done")
StreamStopped == Joined("helper", hp = "exited", "chunker") /\ wavOpen' = FALSE /\ UNCHANGED late
ChunkerJoined ==
    /\ Joined("chunker", debug \/ Slow \/ chunker = "done", "scribe")
    /\ UNCHANGED <<wavOpen, late>>
ScribeJoined ==
    /\ Joined("scribe", scribe \in {"done", "dead"}, "checking")
    /\ UNCHANGED <<wavOpen, late>>

\* A second Ctrl-C leaves the finally block, and one while the files are looked
\* after leaves them as they are.
StopInterrupted ==
    /\ lpc \in {"mixer", "helper", "chunker", "scribe", "checking", "saving", "describing"}
    /\ intr
    /\ Returns("interrupted", note)
    /\ Terminate
    /\ UNCHANGED <<soundVars, stop, debug, late, mixer, frames, lossVars, chunkerVars, chunks,
                   scribeVars, temp, err, intr>>

\* The directory is made before capture_error is looked at, and removed again.
ChecksCapture ==
    /\ lpc = "checking" /\ ~intr
    /\ IF err THEN Returns("error", "none") /\ temp' = FALSE
              ELSE lpc' = "saving" /\ note' = "dir" /\ UNCHANGED <<outcome, temp>>
    /\ UNCHANGED <<helperVars, soundVars, stop, debug, late, mixer, frames, lossVars,
                   chunkerVars, chunks, scribeVars, err, intr>>

MovesAudio ==
    /\ lpc = "saving" /\ ~intr
    /\ lpc' = "describing" /\ note' = "audio" /\ temp' = FALSE
    /\ UNCHANGED <<helperVars, soundVars, stop, debug, late, mixer, frames, lossVars,
                   chunkerVars, chunks, scribeVars, err, intr, outcome>>

\* The metadata, the transcript and the template are written.
SaveSucceeds ==
    /\ lpc = "describing" /\ ~intr
    /\ Returns("ok", "saved")
    /\ UNCHANGED <<helperVars, soundVars, stop, debug, late, mixer, frames, lossVars,
                   chunkerVars, chunks, scribeVars, temp, err, intr>>

\* No directory, no move, or a file beside the audio cannot be written: nothing
\* is undone.
SaveFails ==
    /\ lpc \in {"checking", "saving", "describing"} /\ Mishaps /\ ~intr
    /\ Returns("error", note)
    /\ UNCHANGED <<helperVars, soundVars, stop, debug, late, mixer, frames, lossVars,
                   chunkerVars, chunks, scribeVars, temp, err, intr>>

SessionWorks ==
    \/ StreamStarts \/ StreamFailed \/ ThreadsStart \/ WaitEnds
    \/ MixerJoined \/ StreamStopped \/ ChunkerJoined \/ ScribeJoined
    \/ StopInterrupted \/ ChecksCapture \/ MovesAudio \/ SaveSucceeds
MixerWorks ==
    \/ MixerFrame \/ MixerPublishes \/ MixerWaits \/ MixerBreaks \/ MixerSeesEnd
    \/ MixerCrashes \/ MixerEnds

HelperAlone == HelperStep /\ UNCHANGED <<soundVars, liveVars, commandVars>>
HelperWorksAlone == HelperWorks /\ UNCHANGED <<soundVars, liveVars, commandVars>>

LiveNext ==
    \/ SessionStarts \/ SessionWorks \/ MixerWorks \/ ChunkerStep
    \/ ScribeWorks \/ WhisperRaises
    \/ StreamFails \/ WiringFails \/ DurationReached \/ CtrlC \/ SaveFails
    \/ HelperAlone

(***************************************************************************)
(* Properties                                                              *)
(***************************************************************************)

\* A live recording that is reported as saved is the beginning of what the
\* helper sent, without a hole, in the note, with its file closed.  If the mixer
\* thread was joined in time nothing broke and all that it had read is there,
\* except the frame at which it noticed the stop; if not, the end may be missing
\* ("may be stale").  However else the session ends, what was heard is still
\* in the note or in the temporary file, unless the capture itself broke, and
\* a directory is left without audio only when the temporary file is there.
SessionSettled ==
    lpc = "done" =>
        /\ outcome = "ok" =>
            /\ note = "saved" /\ ~temp /\ ~wavOpen
            /\ wav = [i \in 1 .. Len(wav) |-> i]
            /\ ~late => /\ mixer = "done" /\ ~err /\ held = <<>>
                        /\ made <= Len(wav) + Len(pipe) + 1
        /\ outcome # "ok" =>
            /\ wav # <<>> => temp \/ note = "audio" \/ (err /\ note = "none")
            /\ note \in {"none", "audio"} \/ temp

InLine(line) ==
    \A i, j \in 1 .. Len(line) :
        \A k \in 1 .. Len(line[i]), l \in 1 .. Len(line[j]) :
            /\ line[i][k] \in 1 .. made
            /\ i < j \/ (i = j /\ k < l) => line[i][k] < line[j][l]

\* No frame is in two places of the pipeline or out of order in it, and the
\* transcript reaches each frame once: one that stays in the buffer although a
\* line is stamped with it is heard by Whisper again, but `said` keeps every
\* later line behind it.
PipelineInOrder ==
    LET ahead == chunks \o <<voiced, frames>>
    IN  /\ InLine(<<buffer>> \o ahead)
        /\ InLine(<<text, SubSeq(buffer, said + 1, Len(buffer))>> \o ahead)
=============================================================================
