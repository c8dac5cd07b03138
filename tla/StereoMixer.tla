----------------------------- MODULE StereoMixer -----------------------------
(***************************************************************************)
(* StereoToMonoMixer (audio_mixer.py): two sources deliver samples in      *)
(* chunks of any size, each with the time of its first sample; the mixer   *)
(* buffers them and makes mono frames, pairing the sources when both have  *)
(* a frame, padding the one that has stalled.  Time is counted in samples, *)
(* and a sample is known by its source and its time; a jitter below        *)
(* _CONTIGUITY_TOLERANCE_US is less than one unit.                         *)
(***************************************************************************)
EXTENDS Integers

CONSTANTS
    Frame,      \* _frame_samples
    Gap,        \* _gap_us
    Horizon,    \* the recording ends here
    MaxChunk,   \* the largest chunk
    Room,       \* frames a buffer holds (8)
    Absent      \* no time

ASSUME MixerAssumptions ==
    /\ {Frame, Room} \subseteq Nat \ {0} /\ {Gap, Horizon, MaxChunk} \subseteq Nat
    /\ Absent \notin Int

VARIABLES
    step,       \* "feed", "drain", "pair" (within drain, aligned), "flush", "end"
    size,       \* samples in _buffers
    head,       \* _head_ts
    end,        \* _last_seen_end
    fed, mixed, lost,   \* samples delivered, put into a frame, dropped
    out         \* the time of the last sample put into a frame

mixerVars == <<step, size, head, end, fed, mixed, lost, out>>

Source == {"system", "microphone"}
Other(s) == CHOOSE o \in Source : o # s

Cap == Room * Frame
Half == Frame \div 2
Least(a, b) == IF a < b THEN a ELSE b
Distance(a, b) == IF a < b THEN b - a ELSE a - b

MixerInit ==
    /\ step = "feed"
    /\ size = [s \in Source |-> 0]
    /\ head = [s \in Source |-> Absent] /\ end = head
    /\ fed = size /\ mixed = size /\ lost = size
    /\ out = [s \in Source |-> -1]

\* A source delivers its samples in order, with pauses.  What is buffered before
\* a pause is dropped, and the oldest above the cap.
Feeds(s) ==
    /\ step = "feed"
    /\ \E n \in 1 .. MaxChunk, t \in 0 .. Horizon :
        LET broken == end[s] # Absent /\ t > end[s]
            kept == IF broken THEN 0 ELSE size[s]
            start == IF broken \/ head[s] = Absent THEN t ELSE head[s]
            excess == IF kept + n > Cap THEN kept + n - Cap ELSE 0
        IN /\ end[s] # Absent => t >= end[s]
           /\ t + n <= Horizon
           /\ size' = [size EXCEPT ![s] = kept + n - excess]
           /\ head' = [head EXCEPT ![s] = start + excess]
           /\ end' = [end EXCEPT ![s] = t + n]
           /\ fed' = [fed EXCEPT ![s] = @ + n]
           /\ lost' = [lost EXCEPT ![s] = @ + (size[s] - kept) + excess]
    /\ step' = "drain"
    /\ UNCHANGED <<mixed, out>>

-----------------------------------------------------------------------------
(* drain *)

Ready(s) == size[s] >= Frame
Paired == \A s \in Source : Ready(s)
Offset == Distance(head["system"], head["microphone"])
Misaligned == Paired /\ Half <= Offset /\ Offset <= Gap

\* The side the code takes for the leading one: its head is the later.
Leading == IF head["system"] > head["microphone"] THEN "system" ELSE "microphone"

\* _drop_leading_samples; below a frame, drain returns.
Aligns ==
    /\ step = "drain" /\ Misaligned
    /\ LET drop == Least(Offset, Frame - 1) IN
        /\ size' = [size EXCEPT ![Leading] = @ - drop]
        /\ head' = [head EXCEPT ![Leading] = @ + drop]
        /\ lost' = [lost EXCEPT ![Leading] = @ + drop]
    /\ step' = IF size'[Leading] < Frame THEN "feed" ELSE "pair"
    /\ UNCHANGED <<end, fed, mixed, out>>

\* MUTANT of Emits: the partial buffer of a stalled source is padded and kept
EmitsKeeping ==
    LET taken == [s \in Source |-> Least(size[s], Frame)] IN
    /\ size' = [s \in Source |-> IF Ready(s) THEN size[s] - Frame ELSE size[s]]
    /\ head' = [s \in Source |-> IF size'[s] = 0 THEN Absent
                                 ELSE IF Ready(s) THEN head[s] + Frame ELSE head[s]]
    /\ mixed' = [s \in Source |-> mixed[s] + taken[s]]
    /\ out' = [s \in Source |-> IF taken[s] = 0 THEN out[s] ELSE head[s] + taken[s] - 1]
    /\ UNCHANGED <<end, fed, lost>>

\* Of each source, its next samples (a frame, or what there is) go into a frame.
Emits ==
    LET taken == [s \in Source |-> Least(size[s], Frame)] IN
    /\ size' = [s \in Source |-> size[s] - taken[s]]
    /\ head' = [s \in Source |-> IF size'[s] = 0 THEN Absent ELSE head[s] + Frame]
    /\ mixed' = [s \in Source |-> mixed[s] + taken[s]]
    /\ out' = [s \in Source |-> IF taken[s] = 0 THEN out[s] ELSE head[s] + taken[s] - 1]
    /\ UNCHANGED <<end, fed, lost>>

Pairs ==
    /\ step = "pair" \/ (step = "drain" /\ Paired /\ ~Misaligned)
    /\ Emits
    /\ step' = "drain"

\* _is_stalled
Stalled(lagging) ==
    LET leading == Other(lagging) IN
    /\ ~Ready(lagging) /\ head[leading] # Absent
    /\ head[leading] + size[leading]
        - (IF end[lagging] = Absent THEN 0 ELSE end[lagging]) > Gap

\* _pad_lagging_to_frame
Pads(s) ==
    /\ step = "drain" /\ Ready(s) /\ Stalled(Other(s))
    /\ Emits
    /\ step' = "drain"

Drained ==
    /\ step = "drain" /\ ~Paired
    /\ \A s \in Source : ~(Ready(s) /\ Stalled(Other(s)))
    /\ step' = "feed"
    /\ UNCHANGED <<size, head, end, fed, mixed, lost, out>>

-----------------------------------------------------------------------------
(* flush, at the end of the recording *)

Ends ==
    /\ step = "feed"
    /\ step' = "flush"
    /\ UNCHANGED <<size, head, end, fed, mixed, lost, out>>

Flushes ==
    /\ step = "flush"
    /\ IF \A s \in Source : size[s] = 0
       THEN step' = "end" /\ UNCHANGED <<size, head, end, fed, mixed, lost, out>>
       ELSE step' = step /\ Emits

MixerNext ==
    \/ \E s \in Source : Feeds(s) \/ Pads(s)
    \/ Aligns \/ Pairs \/ Drained \/ Ends \/ Flushes

MixerSpec == MixerInit /\ [][MixerNext]_mixerVars
-----------------------------------------------------------------------------
MixerTypeOK ==
    /\ step \in {"feed", "drain", "pair", "flush", "end"}
    /\ \A s \in Source :
        /\ size[s] \in 0 .. Cap
        /\ {head[s], end[s]} \subseteq (0 .. Horizon) \cup {Absent}
        /\ (head[s] = Absent) <=> (size[s] = 0)

\* However the sources start, pause, stall and resume: a sample is put into a
\* frame once or dropped once, in the order of time, and none is left behind at
\* the end (feed, drain, flush; audio_mixer.py:79-281).
MixedOnce ==
    \A s \in Source :
        /\ fed[s] = mixed[s] + lost[s] + size[s]
        /\ head[s] # Absent => head[s] > out[s]
        /\ step = "end" => size[s] = 0

\* "Drop samples from the leading side so both sources start at the same instant
\* before mixing" (audio_mixer.py:142-143): a drop brings the heads together.
AlignmentHelps == [][Aligns => Offset' < Offset]_mixerVars
=============================================================================
