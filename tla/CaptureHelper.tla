---------------------------- MODULE CaptureHelper ----------------------------
(***************************************************************************)
(* The macOS capture helper and the pipe AudioCapture reads it through     *)
(* (audio_capture/__init__.py, swift/capture_audio.swift), with the mixer  *)
(* that stands between the pipe and the WAV file.                          *)
(*                                                                         *)
(* A frame is its number: 1 is the first one the helper sends.  The        *)
(* launcher and the process it disclaims are one process here: the         *)
(* launcher forwards signals and exits as its child does.                  *)
(***************************************************************************)
EXTENDS Naturals, Sequences, SequencesExt

CONSTANTS MaxFrames,  \* how many frames the helper sends at most
          PipeSize    \* how many frames the pipe holds

ASSUME CaptureAssumption == MaxFrames \in Nat /\ PipeSize \in Nat \ {0}

VARIABLES
    hp,       \* the helper: "none", "starting", "idle", "writing", "exited"
    started,  \* it has printed "capture: started"
    sig,      \* it has been sent SIGTERM or SIGINT
    code,     \* how it exited: "ok" (0), "fail" (1), "killed" (by SIGKILL)
    pipe,     \* frames written and not yet read
    torn,     \* the last frame in the pipe is only partly there
    made,     \* frames written so far
    held,     \* frames fed to the mixer and not yet drained from it
    wav,      \* frames written to the WAV file
    wavOpen   \* the WAV file is open

helperVars == <<hp, started, sig, code, pipe, torn, made>>
soundVars == <<held, wav, wavOpen>>

HelperInit ==
    /\ hp = "none" /\ code = "ok"
    /\ started = FALSE /\ sig = FALSE /\ torn = FALSE
    /\ pipe = <<>> /\ made = 0

SoundInit == held = <<>> /\ wav = <<>> /\ wavOpen = FALSE

HelperTypeOK ==
    /\ hp \in {"none", "starting", "idle", "writing", "exited"}
    /\ code \in {"ok", "fail", "killed"}
    /\ {started, sig, torn, wavOpen} \subseteq BOOLEAN
    /\ made \in 0 .. MaxFrames
    /\ \A s \in {pipe, held, wav} : s \in Seq(1 .. MaxFrames)
    /\ Len(pipe) <= PipeSize

Running == hp \in {"starting", "idle", "writing"}

(***************************************************************************)
(* The helper's own steps.  writeFrame looks at `stopped` only before the  *)
(* header, and exit() does not wait for a write in progress.               *)
(***************************************************************************)
HelperStarts ==
    /\ hp = "starting" /\ ~sig
    /\ hp' = "idle" /\ started' = TRUE
    /\ UNCHANGED <<sig, code, pipe, torn, made>>

WriteBegins ==
    /\ hp = "idle" /\ ~sig /\ made < MaxFrames
    /\ hp' = "writing"
    /\ UNCHANGED <<started, sig, code, pipe, torn, made>>

\* MUTANT of WriteEnds: a full pipe does not block the helper
WriteEndsAnyway ==
    /\ hp = "writing"
    /\ hp' = "idle" /\ made' = made + 1
    /\ pipe' = Append(pipe, made + 1)
    /\ UNCHANGED <<started, sig, code, torn>>

WriteEnds ==
    /\ hp = "writing" /\ Len(pipe) < PipeSize
    /\ hp' = "idle" /\ made' = made + 1
    /\ pipe' = Append(pipe, made + 1)
    /\ UNCHANGED <<started, sig, code, torn>>

ExitsWith(c) ==
    /\ hp' = "exited" /\ code' = c
    /\ torn' = (hp = "writing")
    /\ UNCHANGED <<started, sig, pipe, made>>

SignalStops == Running /\ sig /\ ExitsWith("ok")

SignalEscalates == Running /\ sig /\ ExitsWith("killed")

HelperFails == Running /\ ExitsWith("fail")

HelperWorks == HelperStarts \/ WriteBegins \/ WriteEnds \/ SignalStops

HelperStep == HelperWorks \/ SignalEscalates \/ HelperFails

(***************************************************************************)
(* What the parent does with it: Popen, Popen.terminate, frames().         *)
(***************************************************************************)
Launch == hp' = "starting" /\ UNCHANGED <<started, sig, code, pipe, torn, made>>

Terminate ==
    sig' = (sig \/ Running) /\ UNCHANGED <<hp, started, code, pipe, torn, made>>

ReadFrame ==
    /\ pipe # <<>>
    /\ pipe' = Tail(pipe)
    /\ UNCHANGED <<hp, started, sig, code, torn, made>>

EndOfStream == pipe = <<>> /\ hp = "exited"

\* AudioCaptureCorrupt for a partial frame, AudioCaptureCrashed for an exit code.
StreamBroken == torn \/ code # "ok"

(***************************************************************************)
(* feed and drain: the mixer gives back the first n of the frames it holds.*)
(* `keeps` says whether what comes out is written or skipped (a pause).    *)
(***************************************************************************)
Drain(fed, n, keeps) ==
    /\ held' = SubSeq(held \o fed, n + 1, Len(held \o fed))
    /\ wav' = IF keeps THEN wav \o SubSeq(held \o fed, 1, n) ELSE wav
    /\ UNCHANGED wavOpen

Flush(keeps) == Drain(<<>>, Len(held), keeps)

=============================================================================
