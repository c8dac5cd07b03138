---------------------------- MODULE RecordCommand ----------------------------
(***************************************************************************)
(* The record command (cli.py): it records with AudioRecorder, or with     *)
(* --live through LiveTranscriptionSession, both over the same helper and  *)
(* the same WAV file.  What the mixer does with the samples is followed by  *)
(* itself, in behaviours of its own.                                       *)
(***************************************************************************)
EXTENDS CaptureHelper, StereoMixer

CONSTANTS Slow, Mishaps, FrameRoom, ChunkRoom, Overrun

ASSUME CommandAssumption ==
    {FrameRoom, ChunkRoom} \subseteq Nat \ {0} /\ Overrun \in Nat /\ Slow \in BOOLEAN

VARIABLES
    about,    \* "command" or "mixer"
    live,     \* --live was given
    rpc, flag, paused, discard, worker, monitor,
    lpc, stop, debug, mixer, late, frames, lostF, chunker, voiced, chunks, lostC,
    scribe, overdue, buffer, said, text, temp,
    err, intr, note, outcome

Recorder == INSTANCE AudioRecorder
Session == INSTANCE LiveCapture

recorderVars == <<rpc, flag, paused, discard, worker, monitor>>
liveVars == <<lpc, stop, debug, mixer, late, frames, lostF, chunker, voiced, chunks,
              lostC, scribe, overdue, buffer, said, text, temp>>
commandVars == <<live, helperVars, soundVars, recorderVars, liveVars, err, intr, note, outcome>>
vars == <<about, commandVars, mixerVars>>

Init ==
    /\ about \in {"command", "mixer"}
    /\ live \in IF about = "command" THEN BOOLEAN ELSE {FALSE}
    /\ MixerInit
    /\ HelperInit /\ SoundInit
    /\ Recorder!RecorderInit /\ Session!LiveInit /\ Recorder!CommandInit
    /\ about = "mixer" => debug = FALSE

\* The other threads are daemons: they end with the command.
Plain(A) ==
    /\ about = "command" /\ ~live /\ rpc # "done"
    /\ A /\ UNCHANGED <<about, live, liveVars, mixerVars>>
Live(A) ==
    /\ about = "command" /\ live /\ lpc # "done"
    /\ A /\ UNCHANGED <<about, live, recorderVars, mixerVars>>
Mixes(A) == about = "mixer" /\ A /\ UNCHANGED <<about, commandVars>>

Next == Plain(Recorder!RecordNext) \/ Live(Session!LiveNext) \/ Mixes(MixerNext)

\* Every thread is scheduled, Whisper and a signalled helper return; nothing
\* makes a user, a timer or a failure happen.
Fairness ==
    /\ WF_vars(Plain(Recorder!RecorderWorks))
    /\ WF_vars(Plain(Recorder!WorkerWorks))
    /\ WF_vars(Plain(Recorder!HelperWorksAlone))
    /\ WF_vars(Live(Session!SessionWorks))
    /\ WF_vars(Live(Session!MixerWorks))
    /\ WF_vars(Live(Session!ChunkerStep))
    /\ WF_vars(Live(Session!ScribeWorks))
    /\ WF_vars(Live(Session!HelperWorksAlone))

Spec == Init /\ [][Next]_vars /\ Fairness

\* The commands, the threads, the pipe, the queues and the mixer's buffers stay
\* within what the code gives them (audio_recorder.py, live_session.py).
TypeOK ==
    /\ about \in {"command", "mixer"} /\ live \in BOOLEAN
    /\ HelperTypeOK /\ Recorder!RecordTypeOK /\ Session!LiveTypeOK /\ MixerTypeOK

\* A recording reported as saved is a closed file in a note that is there; a plain
\* one has at least one frame, in order and none twice, and a live one is the
\* beginning of what the helper sent without a hole, to its end if the mixer was
\* joined in time.  However else it ends (an error, Ctrl-C at any point, a failing
\* disk), what was heard is in the note or in the temporary file unless the capture
\* broke or the user discarded it, and no helper outlives the plain command
\* (audio_recorder.py:113-300, live_session.py:60-260, live_audio.py:173-300).
RecordingSettled == Recorder!RecordingSettled /\ Session!SessionSettled

\* From the frame queue through the chunker, the chunk queue and the transcriber the
\* frames stay in the order they were heard, none is in two places, and the
\* transcript's lines reach each frame once, although a frame that stays in the
\* buffer after a line was stamped with it is transcribed again
\* (live_audio.py:173-235, vad_chunker.py:100-190, live_transcriber.py:114-226).
PipelineInOrder == Session!PipelineInOrder

\* However it is ended (a key, a signal, the timer, a failed helper), and
\* whatever the threads, the pipe and the queues are doing then, a recording
\* that has been told to stop comes to its end
\* (audio_recorder.py:187-300, live_session.py:140-260).
StopEnds ==
    /\ (rpc = "recording" /\ (intr \/ ~flag)) ~> (rpc = "done")
    /\ (lpc = "waiting" /\ (intr \/ stop)) ~> (lpc = "done")
=============================================================================
