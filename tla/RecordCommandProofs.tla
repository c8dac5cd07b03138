------------------------ MODULE RecordCommandProofs ------------------------
(***************************************************************************)
(* For every frame size, gap, buffer and chunk size, and however long the  *)
(* recording: the mixer neither duplicates nor reorders nor leaves behind  *)
(* a sample.  For every pipe and queue: the frames stay in order from the  *)
(* helper to the transcript and to the file, and what a recording reports  *)
(* is what it left.                                                        *)
(***************************************************************************)
EXTENDS RecordCommand, SequenceTheorems, TLAPS

\* A number per source.
Counts == [Source -> Nat]
Times == [Source -> Int \cup {Absent}]

MixerTypes ==
    /\ {size, fed, mixed, lost} \subseteq Counts
    /\ {head, end} \subseteq Times
    /\ out \in [Source -> Int]

\* What is buffered of a source is the stretch that ends where it was last seen,
\* and everything put into a frame lies before it.
Contiguous(s) ==
    /\ fed[s] = mixed[s] + lost[s] + size[s]
    /\ head[s] = Absent <=> size[s] = 0
    /\ end[s] = Absent => size[s] = 0 /\ out[s] = -1
    /\ head[s] # Absent => end[s] # Absent /\ head[s] + size[s] = end[s] /\ head[s] > out[s]
    /\ end[s] # Absent => end[s] > out[s]

MixerInv ==
    /\ MixerTypes
    /\ \A s \in Source : Contiguous(s)
    /\ step = "end" => \A s \in Source : size[s] = 0

USE MixerAssumptions
-----------------------------------------------------------------------------
\* A buffer holds at least one sample.
LEMMA CapPositive == Cap \in Nat /\ Cap >= 1
<1>1. \A m, n \in Nat \ {0} : m * n \in Nat /\ m * n >= 1
    OBVIOUS
<1> QED
    BY <1>1 DEF Cap

\* What a frame takes from a buffer comes off its front.
LEMMA EmitsFacts ==
    ASSUME MixerInv, Emits
    PROVE  MixerTypes' /\ \A s \in Source : Contiguous(s)'
<1> DEFINE taken == [s \in Source |-> Least(size[s], Frame)]
<1>1. ASSUME NEW s \in Source
      PROVE  /\ taken[s] \in Nat /\ taken[s] <= size[s] /\ size[s] \in Nat
             /\ size[s] - taken[s] # 0 => taken[s] = Frame
    BY DEF Least, MixerInv, MixerTypes, Counts
<1>2. /\ size' = [s \in Source |-> size[s] - taken[s]]
      /\ head' = [s \in Source |-> IF size'[s] = 0 THEN Absent ELSE head[s] + Frame]
      /\ mixed' = [s \in Source |-> mixed[s] + taken[s]]
      /\ out' = [s \in Source |-> IF taken[s] = 0 THEN out[s] ELSE head[s] + taken[s] - 1]
      /\ UNCHANGED <<end, fed, lost>>
    BY DEF Emits
<1> HIDE DEF taken
<1>3. ASSUME NEW s \in Source
      PROVE  /\ size'[s] \in Nat /\ mixed'[s] \in Nat /\ out'[s] \in Int
             /\ head'[s] \in Int \cup {Absent} /\ Contiguous(s)'
    BY <1>1, <1>2 DEF MixerInv, MixerTypes, Counts, Times, Contiguous
<1>4. MixerTypes'
    BY <1>2, <1>3 DEF MixerInv, MixerTypes, Counts, Times
<1> QED
    BY <1>3, <1>4

LEMMA FeedsKeeps ==
    ASSUME MixerInv, NEW s \in Source, Feeds(s)
    PROVE  MixerInv'
<1>1. PICK n \in 1 .. MaxChunk, t \in 0 .. Horizon :
        LET broken == end[s] # Absent /\ t > end[s]
            kept == IF broken THEN 0 ELSE size[s]
            start == IF broken \/ head[s] = Absent THEN t ELSE head[s]
            excess == IF kept + n > Cap THEN kept + n - Cap ELSE 0
        IN /\ end[s] # Absent => t >= end[s]
           /\ t + n <= Horizon
           /\ size' = [size EXCEPT ![s] = kept + n - excess]
           /\ head' = [head EXCEPT ![s] = start + excess]
           /\ end' = [end EXCEPT ![s] = t + n]
           /\ fed' = [fed EXCEPT ![s] = @ + n]
           /\ lost' = [lost EXCEPT ![s] = @ + (size[s] - kept) + excess]
    BY DEF Feeds
<1> DEFINE broken == end[s] # Absent /\ t > end[s]
           kept == IF broken THEN 0 ELSE size[s]
           start == IF broken \/ head[s] = Absent THEN t ELSE head[s]
           excess == IF kept + n > Cap THEN kept + n - Cap ELSE 0
<1>2. /\ end[s] # Absent => t >= end[s]
      /\ size' = [size EXCEPT ![s] = kept + n - excess]
      /\ head' = [head EXCEPT ![s] = start + excess]
      /\ end' = [end EXCEPT ![s] = t + n]
      /\ fed' = [fed EXCEPT ![s] = @ + n]
      /\ lost' = [lost EXCEPT ![s] = @ + (size[s] - kept) + excess]
      /\ UNCHANGED <<mixed, out>> /\ step' = "drain"
    BY <1>1 DEF Feeds
<1>3. /\ n \in Nat /\ n >= 1 /\ t \in Nat /\ size[s] \in Nat
      /\ head[s] \in Int \cup {Absent} /\ end[s] \in Int \cup {Absent} /\ out[s] \in Int
      /\ fed[s] \in Nat /\ mixed[s] \in Nat /\ lost[s] \in Nat /\ Contiguous(s)
    BY DEF MixerInv, MixerTypes, Counts, Times
<1>4. /\ kept \in Nat /\ kept <= size[s] /\ start \in Int
      /\ start > out[s] /\ start + kept = t
    BY <1>2, <1>3 DEF Contiguous
<1>5. /\ excess \in Nat /\ kept + n - excess \in Nat /\ kept + n - excess >= 1
    BY <1>3, <1>4, CapPositive
<1> HIDE DEF broken, kept, start, excess
<1>6. MixerTypes'
    BY <1>2, <1>3, <1>4, <1>5 DEF MixerInv, MixerTypes, Counts, Times
<1>a. /\ size'[s] = kept + n - excess /\ head'[s] = start + excess /\ end'[s] = t + n
      /\ fed'[s] = fed[s] + n /\ lost'[s] = lost[s] + (size[s] - kept) + excess
      /\ mixed'[s] = mixed[s] /\ out'[s] = out[s]
    BY <1>2 DEF MixerInv, MixerTypes, Counts, Times
<1>b. start + excess \in Int /\ t + n \in Int
    BY <1>3, <1>4, <1>5
<1>c. head'[s] # Absent /\ end'[s] # Absent
    BY <1>a, <1>b
<1>7. Contiguous(s)'
    BY <1>a, <1>c, <1>3, <1>4, <1>5 DEF Contiguous
<1>8. ASSUME NEW o \in Source, o # s PROVE Contiguous(o)'
    BY <1>2, <1>8 DEF MixerInv, MixerTypes, Counts, Times, Contiguous
<1> QED
    BY <1>2, <1>6, <1>7, <1>8 DEF MixerInv

LEMMA AlignsKeeps ==
    ASSUME MixerInv, Aligns
    PROVE  MixerInv'
<1> DEFINE drop == Least(Offset, Frame - 1)
<1>1. /\ size' = [size EXCEPT ![Leading] = @ - drop]
      /\ head' = [head EXCEPT ![Leading] = @ + drop]
      /\ lost' = [lost EXCEPT ![Leading] = @ + drop]
      /\ UNCHANGED <<end, fed, mixed, out>> /\ step' # "end"
    BY DEF Aligns
<1>2. Leading \in Source
    BY DEF Leading, Source
<1>3. \A s \in Source : size[s] \in Nat /\ size[s] >= Frame /\ head[s] \in Int
    BY DEF Aligns, Misaligned, Paired, Ready, MixerInv, MixerTypes, Counts, Times, Contiguous
<1>4. Offset \in Nat
    BY <1>3 DEF Offset, Distance, Source
<1>5. drop \in Nat /\ drop < Frame
    BY <1>4 DEF Least
<1> HIDE DEF drop
<1>6. MixerTypes'
    BY <1>1, <1>2, <1>3, <1>5 DEF MixerInv, MixerTypes, Counts, Times
<1>7. ASSUME NEW o \in Source PROVE Contiguous(o)'
  <2>1. CASE o = Leading
    BY <1>1, <1>2, <1>3, <1>5, <2>1 DEF MixerInv, MixerTypes, Counts, Times, Contiguous
  <2>2. CASE o # Leading
    BY <1>1, <2>2 DEF MixerInv, MixerTypes, Counts, Times, Contiguous
  <2> QED
    BY <2>1, <2>2
<1> QED
    BY <1>1, <1>6, <1>7 DEF MixerInv

LEMMA EmittingKeeps ==
    ASSUME MixerInv, NEW s \in Source, Pads(s) \/ Pairs \/ Flushes
    PROVE  MixerInv'
<1>1. CASE Emits /\ step' # "end"
    BY <1>1, EmitsFacts DEF MixerInv
<1>2. CASE /\ \A o \in Source : size[o] = 0
           /\ UNCHANGED <<size, head, end, fed, mixed, lost, out>>
    BY <1>2 DEF MixerInv, MixerTypes, Contiguous
<1> QED
    BY <1>1, <1>2 DEF Pads, Pairs, Flushes

-----------------------------------------------------------------------------
LEMMA MixerInvInit == MixerInit => MixerInv
BY DEF MixerInit, MixerInv, MixerTypes, Counts, Times, Contiguous

LEMMA MixerInvNext == MixerInv /\ [MixerNext]_mixerVars => MixerInv'
<1> SUFFICES ASSUME MixerInv, [MixerNext]_mixerVars PROVE MixerInv'
    OBVIOUS
<1>1. CASE Drained \/ Ends
    BY <1>1 DEF Drained, Ends, MixerInv, MixerTypes, Contiguous
<1>2. CASE UNCHANGED mixerVars
    BY <1>2 DEF mixerVars, MixerInv, MixerTypes, Contiguous
<1>3. CASE Pairs \/ Flushes
  <2>1. "system" \in Source
    BY DEF Source
  <2> QED
    BY <1>3, <2>1, EmittingKeeps
<1> QED
    BY <1>1, <1>2, <1>3, FeedsKeeps, AlignsKeeps, EmittingKeeps DEF MixerNext

LEMMA MixerInvMixed == MixerInv => MixedOnce
BY DEF MixerInv, MixedOnce, Contiguous

\* Every sample is mixed once or dropped once, in the order of time, and none is
\* left at the end (feed, drain, flush; audio_mixer.py:79-281).
THEOREM SamplesMixedOnce == MixerSpec => []MixedOnce
BY MixerInvInit, MixerInvNext, MixerInvMixed, PTL DEF MixerSpec

\* The same within the record command, as the runs check it.
THEOREM CommandMixesOnce == Spec => []MixedOnce
<1>1. Init => MixerInv
    BY MixerInvInit DEF Init
<1>2. MixerInv /\ [Next]_vars => MixerInv'
  <2>1. [Next]_vars => [MixerNext]_mixerVars
    BY DEF Next, Plain, Live, Mixes, vars, mixerVars
  <2> QED
    BY <2>1, MixerInvNext
<1> QED
    BY <1>1, <1>2, MixerInvMixed, PTL DEF Spec

-----------------------------------------------------------------------------
(* The types of the mixer *)

\* A buffer holds Room frames at most, of samples of the recording.
Bounded(s) ==
    /\ size[s] <= Cap
    /\ head[s] # Absent => head[s] >= 0
    /\ end[s] # Absent => end[s] >= 0 /\ end[s] <= Horizon

MixerBounds ==
    /\ step \in {"feed", "drain", "pair", "flush", "end"}
    /\ \A s \in Source : Bounded(s)

LEMMA EmitsBounds ==
    ASSUME MixerInv, MixerBounds, Emits
    PROVE  \A s \in Source : Bounded(s)'
<1> SUFFICES ASSUME NEW s \in Source PROVE Bounded(s)'
    OBVIOUS
<1>1. /\ size'[s] = size[s] - Least(size[s], Frame)
      /\ head'[s] = IF size'[s] = 0 THEN Absent ELSE head[s] + Frame
      /\ UNCHANGED end
    BY DEF Emits
<1>2. size[s] \in Nat /\ Least(size[s], Frame) \in Nat /\ Least(size[s], Frame) <= size[s]
    BY DEF Least, MixerInv, MixerTypes, Counts
<1>3. size'[s] # 0 => head[s] \in Int /\ head[s] >= 0
    BY <1>1, <1>2 DEF MixerInv, MixerTypes, Times, Contiguous, MixerBounds, Bounded
<1>4. Cap \in Nat
    BY CapPositive
<1> QED
    BY <1>1, <1>2, <1>3, <1>4 DEF MixerBounds, Bounded

LEMMA FeedsBounds ==
    ASSUME MixerInv, MixerBounds, NEW s \in Source, Feeds(s)
    PROVE  MixerBounds'
<1>1. PICK n \in 1 .. MaxChunk, t \in 0 .. Horizon :
        LET broken == end[s] # Absent /\ t > end[s]
            kept == IF broken THEN 0 ELSE size[s]
            start == IF broken \/ head[s] = Absent THEN t ELSE head[s]
            excess == IF kept + n > Cap THEN kept + n - Cap ELSE 0
        IN  /\ t + n <= Horizon
            /\ size' = [size EXCEPT ![s] = kept + n - excess]
            /\ head' = [head EXCEPT ![s] = start + excess]
            /\ end' = [end EXCEPT ![s] = t + n]
    BY DEF Feeds
<1>2. n \in Nat /\ t \in Nat /\ Cap \in Nat /\ t + n \in Nat
    BY CapPositive
<1> DEFINE broken == end[s] # Absent /\ t > end[s]
           kept == IF broken THEN 0 ELSE size[s]
           start == IF broken \/ head[s] = Absent THEN t ELSE head[s]
           excess == IF kept + n > Cap THEN kept + n - Cap ELSE 0
<1>3. kept \in Nat /\ start \in Nat
    BY <1>2 DEF MixerInv, MixerTypes, Counts, Times, MixerBounds, Bounded
<1>4. /\ size' = [size EXCEPT ![s] = kept + n - excess]
      /\ head' = [head EXCEPT ![s] = start + excess]
      /\ end' = [end EXCEPT ![s] = t + n]
      /\ t + n <= Horizon
    BY <1>1
<1> HIDE DEF kept, start
<1>5. excess \in Nat /\ kept + n - excess <= Cap
    BY <1>2, <1>3
<1> HIDE DEF excess
<1>6. Bounded(s)'
  <2>1. size'[s] = kept + n - excess /\ head'[s] = start + excess /\ end'[s] = t + n
    BY <1>4 DEF MixerInv, MixerTypes, Counts, Times
  <2> QED
    BY <1>2, <1>3, <1>4, <1>5, <2>1 DEF Bounded
<1>7. ASSUME NEW o \in Source, o # s PROVE Bounded(o)'
    BY <1>4, <1>7 DEF MixerBounds, Bounded, MixerInv, MixerTypes, Counts, Times
<1> QED
    BY <1>6, <1>7 DEF Feeds, MixerBounds

LEMMA AlignsBounds ==
    ASSUME MixerInv, MixerBounds, Aligns
    PROVE  MixerBounds'
<1> DEFINE drop == Least(Offset, Frame - 1)
<1>1. /\ size' = [size EXCEPT ![Leading] = @ - drop]
      /\ head' = [head EXCEPT ![Leading] = @ + drop]
      /\ UNCHANGED end /\ step' \in {"feed", "pair"}
    BY DEF Aligns
<1>2. \A s \in Source : size[s] \in Nat /\ size[s] >= Frame /\ head[s] \in Int
    BY DEF Aligns, Misaligned, Paired, Ready, MixerInv, MixerTypes, Counts, Times, Contiguous
<1>3. Offset \in Nat
    BY <1>2 DEF Offset, Distance, Source
<1>4. drop \in Nat /\ drop < Frame
    BY <1>3 DEF Least
<1>5. Cap \in Nat /\ Leading \in Source
    BY CapPositive DEF Leading, Source
<1> HIDE DEF drop
<1>6. ASSUME NEW o \in Source PROVE Bounded(o)'
  <2>1. head[o] # Absent
    BY <1>2
  <2>2. /\ size'[o] = IF o = Leading THEN size[o] - drop ELSE size[o]
        /\ head'[o] = IF o = Leading THEN head[o] + drop ELSE head[o]
    BY <1>1, <1>5 DEF MixerInv, MixerTypes, Counts, Times
  <2> QED
    BY <1>1, <1>2, <1>4, <1>5, <2>1, <2>2 DEF MixerBounds, Bounded
<1> QED
    BY <1>1, <1>6 DEF MixerBounds

LEMMA BoundsInit == MixerInit => MixerBounds
BY CapPositive DEF MixerInit, MixerBounds, Bounded

LEMMA BoundsNext == MixerInv /\ MixerBounds /\ [MixerNext]_mixerVars => MixerBounds'
<1> SUFFICES ASSUME MixerInv, MixerBounds, [MixerNext]_mixerVars PROVE MixerBounds'
    OBVIOUS
<1>1. CASE UNCHANGED <<size, head, end>> /\ step' \in {"feed", "drain", "pair", "flush", "end"}
    BY <1>1 DEF MixerBounds, Bounded
<1>2. CASE Emits /\ step' \in {"feed", "drain", "pair", "flush", "end"}
    BY <1>2, EmitsBounds DEF MixerBounds
<1>3. ASSUME NEW s \in Source, Pads(s) PROVE MixerBounds'
    BY <1>2, <1>3 DEF Pads
<1>4. CASE Pairs \/ Drained \/ Ends \/ Flushes
    BY <1>1, <1>2, <1>4 DEF Pairs, Drained, Ends, Flushes, MixerBounds
<1>5. CASE UNCHANGED mixerVars
    BY <1>1, <1>5 DEF mixerVars, MixerBounds
<1> QED
    BY <1>3, <1>4, <1>5, FeedsBounds, AlignsBounds DEF MixerNext

LEMMA BoundsTypes == MixerInv /\ MixerBounds => MixerTypeOK
<1> SUFFICES ASSUME MixerInv, MixerBounds, NEW s \in Source
             PROVE  /\ size[s] \in 0 .. Cap
                    /\ {head[s], end[s]} \subseteq (0 .. Horizon) \cup {Absent}
                    /\ (head[s] = Absent) <=> (size[s] = 0)
    BY DEF MixerTypeOK, MixerBounds
<1>1. Contiguous(s) /\ Bounded(s) /\ size[s] \in Nat /\ Cap \in Nat
    BY CapPositive DEF MixerInv, MixerTypes, Counts, MixerBounds
<1>2. head[s] \in Int \cup {Absent} /\ end[s] \in Int \cup {Absent}
    BY DEF MixerInv, MixerTypes, Times
<1>3. end[s] \in (0 .. Horizon) \cup {Absent}
    BY <1>1, <1>2 DEF Bounded
<1>4. head[s] \in (0 .. Horizon) \cup {Absent}
    BY <1>1, <1>2 DEF Bounded, Contiguous
<1> QED
    BY <1>1, <1>3, <1>4 DEF Bounded, Contiguous

HIDE MixerAssumptions

-----------------------------------------------------------------------------
(* Frames in order *)

\* The frames of s rise from above lo to hi at most.
Within(s, lo, hi) ==
    /\ s \in Seq(Nat)
    /\ lo <= hi
    /\ \A i \in 1 .. Len(s) : lo < s[i] /\ s[i] <= hi
    /\ \A i, j \in 1 .. Len(s) : i < j => s[i] < s[j]

\* So do those of the chunks in cs.
AllWithin(cs, lo, hi) ==
    /\ cs \in Seq(Seq(Nat))
    /\ lo <= hi
    /\ \A k \in 1 .. Len(cs) : Within(cs[k], lo, hi)
    /\ \A k, l \in 1 .. Len(cs) : k < l =>
        \A i \in 1 .. Len(cs[k]), j \in 1 .. Len(cs[l]) : cs[k][i] < cs[l][j]

LEMMA WithinNone ==
    ASSUME NEW lo \in Nat, NEW hi \in Nat, lo <= hi
    PROVE  Within(<<>>, lo, hi) /\ AllWithin(<<>>, lo, hi)
<1>1. Len(<<>>) = 0 /\ <<>> \in Seq(Nat) /\ <<>> \in Seq(Seq(Nat))
    BY EmptySeq
<1> QED
    BY <1>1 DEF Within, AllWithin

LEMMA WithinOne ==
    ASSUME NEW lo \in Nat, NEW hi \in Nat, NEW f \in Nat, lo < f, f <= hi
    PROVE  Within(<<f>>, lo, hi)
BY DEF Within

LEMMA WithinMore ==
    ASSUME NEW lo \in Nat, NEW hi \in Nat, NEW a \in Nat, NEW b \in Nat, a <= lo, hi <= b, NEW s
    PROVE  /\ Within(s, lo, hi) => Within(s, a, b)
           /\ AllWithin(s, lo, hi) => AllWithin(s, a, b)
<1>1. ASSUME NEW t, Within(t, lo, hi) PROVE Within(t, a, b)
    <2>1. \A i \in 1 .. Len(t) : t[i] \in Nat
        BY <1>1, ElementOfSeq DEF Within
    <2> QED
        BY <1>1, <2>1 DEF Within
<1>2. ASSUME AllWithin(s, lo, hi) PROVE AllWithin(s, a, b)
    <2>1. s \in Seq(Seq(Nat)) /\ a <= b
        BY <1>2 DEF AllWithin
    <2>2. \A k \in 1 .. Len(s) : Within(s[k], a, b)
        BY <1>1, <1>2 DEF AllWithin
    <2>3. \A k, l \in 1 .. Len(s) : k < l =>
            \A i \in 1 .. Len(s[k]), j \in 1 .. Len(s[l]) : s[k][i] < s[l][j]
        BY <1>2 DEF AllWithin
    <2> QED
        BY <2>1, <2>2, <2>3 DEF AllWithin
<1> QED
    BY <1>1, <1>2

LEMMA WithinJoin ==
    ASSUME NEW lo \in Nat, NEW mid \in Nat, NEW hi \in Nat, NEW s, NEW t,
           Within(s, lo, mid), Within(t, mid, hi)
    PROVE  Within(s \o t, lo, hi)
<1>1. /\ s \in Seq(Nat) /\ t \in Seq(Nat) /\ Len(s) \in Nat /\ Len(t) \in Nat
      /\ \A i \in 1 .. Len(s) : s[i] \in Nat
      /\ \A i \in 1 .. Len(t) : t[i] \in Nat
    BY ElementOfSeq, LenProperties DEF Within
<1>2. /\ s \o t \in Seq(Nat)
      /\ Len(s \o t) = Len(s) + Len(t)
      /\ \A i \in 1 .. Len(s) + Len(t) : (s \o t)[i] = IF i <= Len(s) THEN s[i] ELSE t[i - Len(s)]
    BY <1>1, ConcatProperties
<1> DEFINE u == s \o t
<1>3. /\ lo <= mid /\ mid <= hi
      /\ \A i \in 1 .. Len(s) : lo < s[i] /\ s[i] <= mid
      /\ \A i \in 1 .. Len(t) : mid < t[i] /\ t[i] <= hi
      /\ \A i, j \in 1 .. Len(s) : i < j => s[i] < s[j]
      /\ \A i, j \in 1 .. Len(t) : i < j => t[i] < t[j]
    BY DEF Within
<1>4. /\ Len(u) = Len(s) + Len(t)
      /\ \A i \in 1 .. Len(u) :
            /\ i <= Len(s) => u[i] = s[i] /\ i \in 1 .. Len(s)
            /\ Len(s) < i => u[i] = t[i - Len(s)] /\ i - Len(s) \in 1 .. Len(t)
    BY <1>1, <1>2
<1> HIDE DEF u
<1>5. \A i \in 1 .. Len(u) : lo < u[i] /\ u[i] <= hi
    <2> SUFFICES ASSUME NEW i \in 1 .. Len(u) PROVE lo < u[i] /\ u[i] <= hi
        OBVIOUS
    <2>1. CASE i <= Len(s)
        BY <1>1, <1>3, <1>4, <2>1
    <2>2. CASE Len(s) < i
        <3>1. u[i] = t[i - Len(s)] /\ i - Len(s) \in 1 .. Len(t)
            BY <1>4, <2>2
        <3>2. mid < u[i] /\ u[i] <= hi /\ u[i] \in Nat
            BY <1>1, <1>3, <3>1
        <3> QED
            BY <1>3, <3>2
    <2> QED
        BY <1>1, <1>4, <2>1, <2>2
<1>6. \A i, j \in 1 .. Len(u) : i < j => u[i] < u[j]
    <2> SUFFICES ASSUME NEW i \in 1 .. Len(u), NEW j \in 1 .. Len(u), i < j PROVE u[i] < u[j]
        OBVIOUS
    <2>1. CASE j <= Len(s)
        <3>1. i <= Len(s)
            BY <1>1, <1>4, <2>1
        <3> QED
            BY <1>3, <1>4, <2>1, <3>1
    <2>2. CASE i <= Len(s) /\ Len(s) < j
        <3>1. u[i] \in Nat /\ u[j] \in Nat /\ u[i] <= mid /\ mid < u[j]
            BY <1>1, <1>3, <1>4, <2>2
        <3> QED
            BY <3>1
    <2>3. CASE Len(s) < i
        <3>1. Len(s) < j /\ i - Len(s) < j - Len(s)
            BY <1>1, <1>4, <2>3
        <3>2. /\ i - Len(s) \in 1 .. Len(t) /\ j - Len(s) \in 1 .. Len(t)
              /\ u[i] = t[i - Len(s)] /\ u[j] = t[j - Len(s)]
            BY <1>4, <2>3, <3>1
        <3> QED
            BY <1>3, <3>1, <3>2
    <2> QED
        BY <1>1, <1>4, <2>1, <2>2, <2>3
<1>7. lo <= hi
    BY <1>3
<1> QED
    BY <1>2, <1>5, <1>6, <1>7 DEF Within, u

\* Cutting s after its first n frames.
LEMMA WithinSplit ==
    ASSUME NEW lo \in Nat, NEW hi \in Nat, NEW s, Within(s, lo, hi), NEW n \in 0 .. Len(s)
    PROVE  /\ SubSeq(s, 1, n) \in Seq(Nat) /\ SubSeq(s, n + 1, Len(s)) \in Seq(Nat)
           /\ Len(SubSeq(s, 1, n)) = n /\ Len(SubSeq(s, n + 1, Len(s))) = Len(s) - n
           /\ \E mid \in Nat : /\ Within(SubSeq(s, 1, n), lo, mid)
                               /\ Within(SubSeq(s, n + 1, Len(s)), mid, hi)
<1>1. /\ s \in Seq(Nat) /\ Len(s) \in Nat /\ n \in Nat
      /\ \A i \in 1 .. Len(s) : s[i] \in Nat
    BY ElementOfSeq, LenProperties DEF Within
<1> DEFINE p == SubSeq(s, 1, n)
           q == SubSeq(s, n + 1, Len(s))
<1>2. p \in Seq(Nat) /\ Len(p) = n /\ \A i \in 1 .. n : p[i] = s[i]
    BY <1>1, SubSeqProperties
<1>3. q \in Seq(Nat) /\ Len(q) = Len(s) - n /\ \A i \in 1 .. Len(s) - n : q[i] = s[n + i]
    BY <1>1, SubSeqProperties
<1> HIDE DEF p, q
<1>4. PICK mid \in Nat : mid = IF n = 0 THEN lo ELSE s[n]
    BY <1>1
<1>5. /\ lo <= hi
      /\ \A i \in 1 .. Len(s) : lo < s[i] /\ s[i] <= hi
      /\ \A i, j \in 1 .. Len(s) : i < j => s[i] < s[j]
    BY DEF Within
<1>6. lo <= mid /\ mid <= hi
    BY <1>1, <1>4, <1>5
<1>7. ASSUME NEW i \in 1 .. Len(s) PROVE IF i <= n THEN s[i] <= mid ELSE mid < s[i]
    BY <1>1, <1>4, <1>5
<1>8. Within(p, lo, mid)
    <2>1. \A i \in 1 .. n : i \in 1 .. Len(s) /\ i <= n
        BY <1>1
    <2>2. \A i \in 1 .. n : lo < p[i] /\ p[i] <= mid
        BY <1>2, <1>5, <1>7, <2>1
    <2>3. \A i, j \in 1 .. n : i < j => p[i] < p[j]
        BY <1>2, <1>5, <2>1
    <2> QED
        BY <1>2, <1>6, <2>2, <2>3 DEF Within
<1>9. Within(q, mid, hi)
    <2>1. \A i \in 1 .. Len(s) - n : mid < q[i] /\ q[i] <= hi
        <3> SUFFICES ASSUME NEW i \in 1 .. Len(s) - n PROVE mid < q[i] /\ q[i] <= hi
            OBVIOUS
        <3>1. q[i] = s[n + i] /\ n + i \in 1 .. Len(s) /\ ~(n + i <= n)
            BY <1>1, <1>3
        <3> QED
            BY <1>1, <1>5, <1>7, <3>1
    <2>2. \A i, j \in 1 .. Len(s) - n : i < j => q[i] < q[j]
        <3> SUFFICES ASSUME NEW i \in 1 .. Len(s) - n, NEW j \in 1 .. Len(s) - n, i < j
                     PROVE  q[i] < q[j]
            OBVIOUS
        <3>1. n + i \in 1 .. Len(s) /\ n + j \in 1 .. Len(s) /\ n + i < n + j
            BY <1>1
        <3> QED
            BY <1>3, <1>5, <3>1
    <2> QED
        BY <1>3, <1>6, <2>1, <2>2 DEF Within
<1> QED
    BY <1>2, <1>3, <1>8, <1>9 DEF p, q

LEMMA WithinHead ==
    ASSUME NEW lo \in Nat, NEW hi \in Nat, NEW s, Within(s, lo, hi), s # <<>>
    PROVE  /\ Head(s) \in Nat /\ lo < Head(s) /\ Head(s) <= hi
           /\ Within(Tail(s), Head(s), hi) /\ Len(Tail(s)) = Len(s) - 1
<1>1. /\ s \in Seq(Nat) /\ Len(s) \in Nat \ {0}
      /\ \A i \in 1 .. Len(s) : s[i] \in Nat
    BY ElementOfSeq, LenProperties, EmptySeq DEF Within
<1>2. Head(s) = s[1]
    OBVIOUS
<1>3. /\ Tail(s) \in Seq(Nat) /\ Len(Tail(s)) = Len(s) - 1
      /\ \A i \in 1 .. Len(s) - 1 : Tail(s)[i] = s[i + 1]
    BY <1>1, HeadTailProperties
<1> QED
    BY <1>1, <1>2, <1>3 DEF Within

\* A chunk is appended, and taken.
LEMMA ChunkAppended ==
    ASSUME NEW lo \in Nat, NEW mid \in Nat, NEW hi \in Nat, NEW cs, NEW t,
           AllWithin(cs, lo, mid), Within(t, mid, hi)
    PROVE  AllWithin(Append(cs, t), lo, hi)
<1>1. cs \in Seq(Seq(Nat)) /\ t \in Seq(Nat) /\ Len(cs) \in Nat
    BY LenProperties DEF AllWithin, Within
<1>2. /\ Append(cs, t) \in Seq(Seq(Nat)) /\ Len(Append(cs, t)) = Len(cs) + 1
      /\ \A i \in 1 .. Len(cs) : Append(cs, t)[i] = cs[i]
      /\ Append(cs, t)[Len(cs) + 1] = t
    BY <1>1, AppendProperties
<1>3. mid <= hi /\ lo <= mid
    BY DEF AllWithin, Within
<1>4. Within(t, lo, hi) /\ \A k \in 1 .. Len(cs) : Within(cs[k], lo, hi)
    <2>1. lo <= lo /\ hi <= hi
        OBVIOUS
    <2>2. Within(t, lo, hi)
        BY <1>3, <2>1, WithinMore
    <2>3. \A k \in 1 .. Len(cs) : Within(cs[k], lo, mid)
        BY DEF AllWithin
    <2>4. \A k \in 1 .. Len(cs) : Within(cs[k], lo, hi)
        BY <1>3, <2>1, <2>3, WithinMore
    <2> QED
        BY <2>2, <2>4
<1>5. \A k \in 1 .. Len(cs) : \A i \in 1 .. Len(cs[k]), j \in 1 .. Len(t) : cs[k][i] < t[j]
    <2> SUFFICES ASSUME NEW k \in 1 .. Len(cs), NEW i \in 1 .. Len(cs[k]), NEW j \in 1 .. Len(t)
                 PROVE  cs[k][i] < t[j]
        OBVIOUS
    <2>1. cs[k] \in Seq(Nat) /\ cs[k][i] <= mid
        BY DEF AllWithin, Within
    <2>2. mid < t[j]
        BY DEF Within
    <2>3. cs[k][i] \in Nat /\ t[j] \in Nat
        BY <1>1, <2>1, ElementOfSeq
    <2> QED
        BY <2>1, <2>2, <2>3
<1>6. \A k \in 1 .. Len(cs) + 1 : Within(Append(cs, t)[k], lo, hi)
    BY <1>1, <1>2, <1>4
<1>7. \A k, l \in 1 .. Len(cs) + 1 : k < l =>
        \A i \in 1 .. Len(Append(cs, t)[k]), j \in 1 .. Len(Append(cs, t)[l]) :
            Append(cs, t)[k][i] < Append(cs, t)[l][j]
    <2> SUFFICES ASSUME NEW k \in 1 .. Len(cs) + 1, NEW l \in 1 .. Len(cs) + 1, k < l
                 PROVE  \A i \in 1 .. Len(Append(cs, t)[k]), j \in 1 .. Len(Append(cs, t)[l]) :
                            Append(cs, t)[k][i] < Append(cs, t)[l][j]
        OBVIOUS
    <2>1. k \in 1 .. Len(cs) /\ Append(cs, t)[k] = cs[k]
        BY <1>1, <1>2
    <2>2. CASE l \in 1 .. Len(cs)
        <3>1. Append(cs, t)[l] = cs[l]
            BY <1>2, <2>2
        <3>2. \A i \in 1 .. Len(cs[k]), j \in 1 .. Len(cs[l]) : cs[k][i] < cs[l][j]
            BY <2>1, <2>2 DEF AllWithin
        <3> QED
            BY <2>1, <3>1, <3>2
    <2>3. CASE l = Len(cs) + 1
        <3>1. Append(cs, t)[l] = t
            BY <1>2, <2>3
        <3> QED
            BY <1>5, <2>1, <3>1
    <2>4. l \in 1 .. Len(cs) \/ l = Len(cs) + 1
        <3>1. PICK n \in Nat : n = Len(cs)
            BY <1>1
        <3>2. \A x \in 1 .. n + 1 : x \in 1 .. n \/ x = n + 1
            OBVIOUS
        <3> QED
            BY <3>1, <3>2
    <2> QED
        BY <2>2, <2>3, <2>4
<1> QED
    BY <1>2, <1>3, <1>6, <1>7 DEF AllWithin

LEMMA ChunkTaken ==
    ASSUME NEW lo \in Nat, NEW hi \in Nat, NEW cs, AllWithin(cs, lo, hi), cs # <<>>
    PROVE  /\ Len(Tail(cs)) = Len(cs) - 1
           /\ \E mid \in Nat : Within(Head(cs), lo, mid) /\ AllWithin(Tail(cs), mid, hi)
<1>1. cs \in Seq(Seq(Nat)) /\ Len(cs) \in Nat \ {0}
    BY LenProperties, EmptySeq DEF AllWithin
<1>2. /\ Tail(cs) \in Seq(Seq(Nat)) /\ Len(Tail(cs)) = Len(cs) - 1
      /\ \A k \in 1 .. Len(cs) - 1 : Tail(cs)[k] = cs[k + 1]
    BY <1>1, HeadTailProperties
<1>3. Head(cs) = cs[1] /\ 1 \in 1 .. Len(cs)
    BY <1>1
<1>4. PICK h : h = Head(cs)
    OBVIOUS
<1>5. /\ Within(h, lo, hi) /\ h \in Seq(Nat) /\ Len(h) \in Nat
      /\ \A i \in 1 .. Len(h) : h[i] \in Nat
    BY <1>3, <1>4, ElementOfSeq, LenProperties DEF AllWithin, Within
<1>6. PICK mid \in Nat : mid = IF Len(h) = 0 THEN lo ELSE h[Len(h)]
    BY <1>5
<1>7. Within(h, lo, mid) /\ mid <= hi
    BY <1>5, <1>6 DEF Within
<1>8. \A k \in 1 .. Len(cs) - 1 : Within(cs[k + 1], mid, hi)
    <2> SUFFICES ASSUME NEW k \in 1 .. Len(cs) - 1 PROVE Within(cs[k + 1], mid, hi)
        OBVIOUS
    <2>1. Within(cs[k + 1], lo, hi) /\ k + 1 \in 1 .. Len(cs) /\ 1 < k + 1
        BY <1>1 DEF AllWithin
    <2>2. \A j \in 1 .. Len(cs[k + 1]) : mid < cs[k + 1][j]
        <3>1. \A i \in 1 .. Len(h), j \in 1 .. Len(cs[k + 1]) : h[i] < cs[k + 1][j]
            BY <1>3, <1>4, <2>1 DEF AllWithin
        <3>2. \A j \in 1 .. Len(cs[k + 1]) : lo < cs[k + 1][j]
            BY <2>1 DEF Within
        <3>3. CASE Len(h) = 0
            BY <1>6, <3>2, <3>3
        <3>4. CASE Len(h) # 0
            <4>1. Len(h) \in 1 .. Len(h) /\ mid = h[Len(h)]
                BY <1>5, <1>6, <3>4
            <4> QED
                BY <3>1, <4>1
        <3> QED
            BY <3>3, <3>4
    <2> QED
        BY <1>7, <2>1, <2>2 DEF Within
<1>9. \A k, l \in 1 .. Len(cs) - 1 : k < l =>
        \A i \in 1 .. Len(cs[k + 1]), j \in 1 .. Len(cs[l + 1]) : cs[k + 1][i] < cs[l + 1][j]
    BY <1>1 DEF AllWithin
<1>10. AllWithin(Tail(cs), mid, hi)
    BY <1>2, <1>7, <1>8, <1>9 DEF AllWithin
<1> QED
    BY <1>2, <1>4, <1>7, <1>10
-----------------------------------------------------------------------------
(* The frames of a recording *)

\* What is in the pipeline up to frame e: transcribed, on its way to be, queued.
Transcribed(e) ==
    \E b, c, d \in Nat :
        /\ Within(text, 0, b) /\ Within(buffer, 0, b) /\ AllWithin(chunks, b, c)
        /\ Within(voiced, c, d) /\ Within(frames, d, e)

\* What the buffer holds past `said` is later than what the transcript reached.
TextInv ==
    /\ said \in Nat
    /\ \A i \in 1 .. Len(text), j \in 1 .. Len(buffer) : said < j => text[i] < buffer[j]

\* What is in the file, of the frames up to e; the rest is in the mixer or the pipe.
Recorded(e) ==
    \E g \in Nat :
        Within(wav, 0, e) /\ Within(held, e, g) /\ Within(pipe, g, made)

\* Every frame made is in one place of the line or lost, and no queue overflows.
FrameInv ==
    /\ made \in 0 .. MaxFrames /\ (hp = "writing" => made < MaxFrames)
    /\ lostF \in Nat /\ lostC \in Nat
    /\ Len(pipe) <= PipeSize /\ Len(frames) <= FrameRoom /\ Len(chunks) <= ChunkRoom
    /\ lostF + lostC + Len(voiced) + Len(frames) + Len(held) + Len(pipe) <= made
    /\ \E e \in Nat : Transcribed(e) /\ Recorded(e)

LEMMA FrameTypes ==
    ASSUME FrameInv
    PROVE  /\ made \in Nat /\ MaxFrames \in Nat /\ PipeSize \in Nat /\ FrameRoom \in Nat /\ ChunkRoom \in Nat
           /\ \A s \in {text, buffer, voiced, frames, held, pipe, wav} : s \in Seq(Nat)
           /\ chunks \in Seq(Seq(Nat)) /\ Len(chunks) \in Nat
           /\ Len(buffer) \in Nat /\ Len(voiced) \in Nat /\ Len(frames) \in Nat /\ Len(held) \in Nat
           /\ Len(pipe) \in Nat /\ Len(wav) \in Nat
<1>1. /\ made \in Nat /\ MaxFrames \in Nat /\ PipeSize \in Nat /\ FrameRoom \in Nat /\ ChunkRoom \in Nat
    BY CaptureAssumption, CommandAssumption DEF FrameInv
<1>2. PICK e \in Nat : Transcribed(e) /\ Recorded(e)
    BY DEF FrameInv
<1>3. /\ text \in Seq(Nat) /\ buffer \in Seq(Nat) /\ voiced \in Seq(Nat) /\ frames \in Seq(Nat)
      /\ chunks \in Seq(Seq(Nat))
    BY <1>2 DEF Transcribed, Within, AllWithin
<1>4. held \in Seq(Nat) /\ pipe \in Seq(Nat) /\ wav \in Seq(Nat)
    BY <1>2 DEF Recorded, Within
<1>5. Len(chunks) \in Nat
    BY <1>3, LenProperties
<1> QED
    BY <1>1, <1>3, <1>4, <1>5, LenProperties

\* Later frames may come.
LEMMA LineGrows ==
    ASSUME NEW e \in Nat, NEW f \in Nat, e <= f, Transcribed(e)
    PROVE  Transcribed(f)
<1>1. PICK b, c, d \in Nat :
        /\ Within(text, 0, b) /\ Within(buffer, 0, b) /\ AllWithin(chunks, b, c)
        /\ Within(voiced, c, d) /\ Within(frames, d, e)
    BY DEF Transcribed
<1>2. Within(frames, d, f)
    BY <1>1, WithinMore
<1> QED
    BY <1>1, <1>2 DEF Transcribed

LEMMA Balance ==
    ASSUME NEW x \in Nat, NEW y \in Nat, NEW z \in Nat, NEW v \in Nat, NEW w \in Nat, NEW u \in Nat,
           NEW l \in Nat, NEW m \in Nat, NEW o \in Nat, NEW p \in Nat, NEW k \in Nat, NEW n \in Nat,
           l + m + v + z + w + u <= o, p + k <= l + n, x + y <= w + u, n <= x
    PROVE  p + m + v + (z + k) + (x - n) + y <= o
OBVIOUS

\* pulled goes from the pipe to the mixer, the first n frames of the mixer to the
\* file (or nowhere), the first k of those to the frame queue.
LEMMA Drains ==
    ASSUME FrameInv, NEW pulled \in {<<>>, <<Head(pipe)>>}, NEW keeps,
           \/ pulled = <<>> /\ pipe' = pipe
           \/ pipe # <<>> /\ pipe' = Tail(pipe),
           NEW n \in 0 .. Len(held \o pulled), NEW k \in 0 .. n,
           Drain(pulled, n, keeps),
           \/ frames' = frames \o SubSeq(SubSeq(held \o pulled, 1, n), 1, k)
           \/ frames' = frames /\ k = 0,
           lostF' \in Nat, lostF' + k <= lostF + n, Len(frames') <= FrameRoom,
           UNCHANGED <<hp, made, lostC, voiced, chunks, buffer, text>>
    PROVE  FrameInv'
<1>0. /\ made \in Nat /\ Len(held) \in Nat /\ Len(pipe) \in Nat /\ Len(frames) \in Nat
      /\ Len(voiced) \in Nat /\ held \in Seq(Nat) /\ pipe \in Seq(Nat) /\ frames \in Seq(Nat)
    BY FrameTypes
<1>1. PICK e \in Nat : Transcribed(e) /\ Recorded(e)
    BY DEF FrameInv
<1>2. PICK g \in Nat : Within(wav, 0, e) /\ Within(held, e, g) /\ Within(pipe, g, made)
    BY <1>1 DEF Recorded
<1>3. PICK all : all = held \o pulled
    OBVIOUS
<1>4. \E h \in Nat : /\ Within(all, e, h) /\ Within(pipe', h, made)
                     /\ Len(all) \in Nat /\ Len(pipe') \in Nat /\ Len(pipe') <= Len(pipe)
                     /\ Len(all) + Len(pipe') <= Len(held) + Len(pipe)
    <2>1. CASE pulled = <<>>
        <3>1. all = held
            BY <1>0, <1>3, <2>1, ConcatEmptySeq
        <3>2. CASE pipe' = pipe
            BY <1>0, <1>2, <3>1, <3>2
        <3>3. CASE pipe # <<>> /\ pipe' = Tail(pipe)
            <4>1. PICK f \in Nat : /\ f = Head(pipe) /\ g < f /\ f <= made
                                   /\ Within(pipe', f, made) /\ Len(pipe') = Len(pipe) - 1
                BY <1>0, <1>2, <3>3, WithinHead
            <4>2. Within(pipe', g, made)
                <5>1. g <= f /\ made <= made
                    BY <1>0, <4>1
                <5> QED
                    BY <1>0, <4>1, <5>1, WithinMore
            <4>3. Len(pipe') \in Nat
                BY <4>1, LenProperties DEF Within
            <4>4. Len(pipe') <= Len(pipe) /\ Len(all) + Len(pipe') <= Len(held) + Len(pipe)
                <5>1. Len(pipe') = Len(pipe) - 1 /\ Len(all) = Len(held)
                    BY <3>1, <4>1
                <5>2. Len(pipe) \in Nat /\ Len(held) \in Nat
                    BY <1>0
                <5> QED
                    BY <5>1, <5>2
            <4> QED
                BY <1>0, <1>2, <3>1, <4>2, <4>3, <4>4
        <3> QED
            BY <3>2, <3>3
    <2>2. CASE pulled # <<>>
        <3>1. pipe # <<>> /\ pipe' = Tail(pipe) /\ pulled = <<Head(pipe)>>
            BY <2>2
        <3>2. PICK f \in Nat : /\ f = Head(pipe) /\ g < f /\ f <= made
                               /\ Within(pipe', f, made) /\ Len(pipe') = Len(pipe) - 1
            BY <1>0, <1>2, <3>1, WithinHead
        <3>3. Within(pulled, g, f)
            BY <3>1, <3>2, WithinOne
        <3>4. Within(all, e, f)
            BY <1>2, <1>3, <3>2, <3>3, WithinJoin
        <3>5. pulled \in Seq(Nat)
            BY <3>3 DEF Within
        <3>a. Len(pulled) = 1
            BY <3>1
        <3>6. Len(all) = Len(held) + 1
            <4>1. Len(held \o pulled) = Len(held) + Len(pulled)
                BY <1>0, <3>5, ConcatProperties
            <4> QED
                BY <1>3, <3>a, <4>1
        <3>7. Len(pipe') \in Nat
            BY <3>2, LenProperties DEF Within
        <3>8. /\ Len(pipe') <= Len(pipe) /\ Len(all) + Len(pipe') <= Len(held) + Len(pipe)
              /\ Len(all) \in Nat
            <4>1. Len(pipe') = Len(pipe) - 1
                BY <3>2
            <4>2. \A x, y \in Nat : y - 1 <= y /\ x + 1 \in Nat /\ (x + 1) + (y - 1) <= x + y
                OBVIOUS
            <4> QED
                BY <1>0, <3>6, <4>1, <4>2
        <3> QED
            BY <3>2, <3>4, <3>7, <3>8
    <2> QED
        BY <2>1, <2>2
<1>5. PICK h \in Nat : /\ Within(all, e, h) /\ Within(pipe', h, made)
                       /\ Len(all) \in Nat /\ Len(pipe') \in Nat /\ Len(pipe') <= Len(pipe)
                       /\ Len(all) + Len(pipe') <= Len(held) + Len(pipe)
    BY <1>4
<1>6. PICK part, rest : part = SubSeq(all, 1, n) /\ rest = SubSeq(all, n + 1, Len(all))
    OBVIOUS
<1>7. n \in 0 .. Len(all) /\ n \in Nat /\ k \in Nat /\ k <= n
    BY <1>3, <1>5
<1>8. PICK mid \in Nat : /\ Within(part, e, mid) /\ Within(rest, mid, h)
                         /\ Len(part) = n /\ Len(rest) = Len(all) - n
    BY <1>5, <1>6, <1>7, WithinSplit
<1>9. held' = rest /\ wav' \in {wav, wav \o part}
    BY <1>3, <1>6 DEF Drain
<1>10. e <= mid
    BY <1>8 DEF Within
<1>11. Recorded(mid)'
    <2>1. Within(wav', 0, mid)
        <3>1. CASE wav' = wav
            BY <1>2, <1>10, <3>1, WithinMore
        <3>2. CASE wav' = wav \o part
            BY <1>2, <1>8, <3>2, WithinJoin
        <3> QED
            BY <1>9, <3>1, <3>2
    <2> QED
        BY <1>5, <1>8, <1>9, <2>1 DEF Recorded
<1>12. Transcribed(mid)' /\ Len(frames') = Len(frames) + k
    <2>1. PICK b, c, d \in Nat :
            /\ Within(text, 0, b) /\ Within(buffer, 0, b) /\ AllWithin(chunks, b, c)
            /\ Within(voiced, c, d) /\ Within(frames, d, e)
        BY <1>1 DEF Transcribed
    <2>2. Within(frames', d, mid) /\ Len(frames') = Len(frames) + k
        <3>1. CASE frames' = frames /\ k = 0
            <4>1. Within(frames, d, mid)
                BY <1>10, <2>1, WithinMore
            <4> QED
                BY <1>0, <3>1, <4>1
        <3>2. CASE frames' = frames \o SubSeq(part, 1, k)
            <4>1. PICK q : q = SubSeq(part, 1, k)
                OBVIOUS
            <4>a. k \in 0 .. Len(part)
                BY <1>7, <1>8
            <4>b. /\ Len(SubSeq(part, 1, k)) = k
                  /\ \E m \in Nat : /\ Within(SubSeq(part, 1, k), e, m)
                                    /\ Within(SubSeq(part, k + 1, Len(part)), m, mid)
                <5>1. Within(part, e, mid)
                    BY <1>8
                <5> QED
                    BY <5>1, <4>a, WithinSplit
            <4>2. PICK m \in Nat : /\ Within(q, e, m) /\ Within(SubSeq(part, k + 1, Len(part)), m, mid)
                                   /\ Len(q) = k
                BY <4>1, <4>b
            <4>3. m <= mid
                BY <4>2 DEF Within
            <4>4. Within(frames \o q, d, m)
                BY <2>1, <4>2, WithinJoin
            <4>5. Within(frames \o q, d, mid)
                BY <4>3, <4>4, WithinMore
            <4>c. q \in Seq(Nat)
                BY <4>2 DEF Within
            <4>6. Len(frames \o q) = Len(frames) + Len(q)
                BY <1>0, <4>c, ConcatProperties
            <4> QED
                BY <3>2, <4>1, <4>2, <4>5, <4>6
        <3>3. \/ frames' = frames \o SubSeq(part, 1, k)
              \/ frames' = frames /\ k = 0
            BY <1>3, <1>6
        <3> QED
            BY <3>1, <3>2, <3>3
    <2> QED
        BY <2>1, <2>2 DEF Transcribed
<1>13. lostF' + lostC' + Len(voiced') + Len(frames') + Len(held') + Len(pipe') <= made'
    <2>1. /\ lostF \in Nat /\ lostC \in Nat
          /\ lostF + lostC + Len(voiced) + Len(frames) + Len(held) + Len(pipe) <= made
        BY DEF FrameInv
    <2>2. /\ UNCHANGED <<lostC, voiced, made>>
          /\ Len(held') = Len(all) - n
          /\ Len(frames') = Len(frames) + k
          /\ Len(all) + Len(pipe') <= Len(held) + Len(pipe)
        BY <1>5, <1>8, <1>9, <1>12
    <2>4. n <= Len(all) /\ lostF' \in Nat /\ lostF' + k <= lostF + n
        BY <1>7
    <2>5. lostF' + lostC + Len(voiced) + (Len(frames) + k) + (Len(all) - n) + Len(pipe') <= made
        BY <1>0, <1>5, <1>7, <2>1, <2>2, <2>4, Balance
    <2> QED
        BY <2>2, <2>5
<1>14. Len(pipe') <= PipeSize
    <2>1. Len(pipe) <= PipeSize /\ PipeSize \in Nat
        BY FrameTypes DEF FrameInv
    <2> QED
        BY <1>0, <1>5, <2>1
<1>15. /\ (made \in 0 .. MaxFrames)' /\ (hp = "writing" => made < MaxFrames)'
       /\ lostC' \in Nat /\ Len(chunks') <= ChunkRoom
    BY DEF FrameInv
<1> QED
    BY <1>11, <1>12, <1>13, <1>14, <1>15 DEF FrameInv

\* The frames where they are; only a helper that was writing may write.
lineVars == <<made, pipe, held, wav, frames, lostF, lostC, voiced, chunks, buffer, text>>

LEMMA LineStays ==
    ASSUME FrameInv, UNCHANGED lineVars, hp' = "writing" => hp = "writing"
    PROVE  FrameInv'
<1>1. \A e \in Nat : Transcribed(e) /\ Recorded(e) => Transcribed(e)' /\ Recorded(e)'
    BY DEF lineVars, Transcribed, Recorded
<1>2. \E e \in Nat : Transcribed(e)' /\ Recorded(e)'
    BY <1>1 DEF FrameInv
<1> QED
    BY <1>2 DEF FrameInv, lineVars

\* What the helper does to the pipe.
LEMMA HelperKeepsLine ==
    ASSUME FrameInv, HelperStep,
           UNCHANGED <<held, wav, frames, lostF, lostC, voiced, chunks, buffer, text>>
    PROVE  FrameInv'
<1>1. CASE WriteBegins
    <2>1. UNCHANGED lineVars /\ made < MaxFrames
        BY <1>1 DEF WriteBegins, lineVars
    <2>2. \A e \in Nat : Transcribed(e) /\ Recorded(e) => Transcribed(e)' /\ Recorded(e)'
        BY <2>1 DEF lineVars, Transcribed, Recorded
    <2>3. \E e \in Nat : Transcribed(e)' /\ Recorded(e)'
        BY <2>2 DEF FrameInv
    <2> QED
        BY <2>1, <2>3 DEF FrameInv, lineVars
<1>2. CASE WriteEnds
    <2>0. /\ made \in Nat /\ made < MaxFrames /\ MaxFrames \in Nat /\ pipe \in Seq(Nat)
          /\ Len(pipe) \in Nat /\ Len(pipe) < PipeSize /\ PipeSize \in Nat
        BY <1>2, FrameTypes DEF FrameInv, WriteEnds
    <2>1. PICK e \in Nat : Transcribed(e) /\ Recorded(e)
        BY DEF FrameInv
    <2>2. PICK g \in Nat : Within(wav, 0, e) /\ Within(held, e, g) /\ Within(pipe, g, made)
        BY <2>1 DEF Recorded
    <2>3. made' = made + 1 /\ hp' = "idle" /\ pipe' = pipe \o <<made + 1>>
        BY <1>2, <2>0, AppendIsConcat DEF WriteEnds
    <2>4. PICK m \in Nat : m = made + 1
        BY <2>0
    <2>5. Within(<<m>>, made, m)
        BY <2>0, <2>4, WithinOne
    <2>6. Within(pipe', g, m)
        BY <2>0, <2>2, <2>3, <2>4, <2>5, WithinJoin
    <2>7. Recorded(e)' /\ Transcribed(e)'
        BY <2>1, <2>2, <2>3, <2>4, <2>6 DEF Recorded, Transcribed
    <2>8. Len(pipe') = Len(pipe) + 1
        BY <1>2, <2>0, AppendProperties DEF WriteEnds
    <2>9. lostF' + lostC' + Len(voiced') + Len(frames') + Len(held') + Len(pipe') <= made'
        <3>1. lostF + lostC + Len(voiced) + Len(frames) + Len(held) + Len(pipe) <= made
            BY DEF FrameInv
        <3>2. /\ lostF \in Nat /\ lostC \in Nat /\ Len(voiced) \in Nat /\ Len(frames) \in Nat
              /\ Len(held) \in Nat
            BY FrameTypes DEF FrameInv
        <3>3. lostF + lostC + Len(voiced) + Len(frames) + Len(held) + (Len(pipe) + 1) <= made + 1
            BY <2>0, <3>1, <3>2
        <3> QED
            BY <2>3, <2>8, <3>3
    <2>10. made' \in 0 .. MaxFrames /\ Len(pipe') <= PipeSize
        BY <2>0, <2>3, <2>8
    <2> QED
        BY <2>3, <2>7, <2>9, <2>10 DEF FrameInv
<1>3. CASE HelperStep /\ ~WriteBegins /\ ~WriteEnds
    <2>1. UNCHANGED lineVars /\ hp' # "writing"
        BY <1>3 DEF HelperStep, HelperWorks, HelperStarts, SignalStops, SignalEscalates, HelperFails,
                    ExitsWith, lineVars
    <2> QED
        BY <2>1, LineStays
<1> QED
    BY <1>1, <1>2, <1>3

-----------------------------------------------------------------------------
(* Chunker and transcriber *)

LEMMA EmitsChunk ==
    ASSUME NEW b \in Nat, NEW c \in Nat, NEW d \in Nat, NEW chunk,
           AllWithin(chunks, b, c), Within(chunk, c, d), Session!Emit(chunk),
           Len(chunks) <= ChunkRoom, lostC \in Nat
    PROVE  /\ AllWithin(chunks', b, d) /\ Len(chunks') <= ChunkRoom
           /\ lostC' \in Nat /\ lostC' <= lostC + 1
<1>1. Len(chunks) \in Nat /\ ChunkRoom \in Nat /\ c <= d
    BY CommandAssumption, LenProperties DEF AllWithin, Within
<1>2. CASE Len(chunks) < ChunkRoom
    <2>1. chunks' = Append(chunks, chunk) /\ lostC' = lostC
        BY <1>2 DEF Session!Emit
    <2>2. AllWithin(chunks', b, d)
        BY <2>1, ChunkAppended
    <2>3. Len(chunks') = Len(chunks) + 1
        BY <2>1, AppendProperties DEF AllWithin, Within
    <2> QED
        BY <1>1, <1>2, <2>1, <2>2, <2>3
<1>3. CASE ~(Len(chunks) < ChunkRoom)
    <2>1. chunks' = chunks /\ lostC' \in {lostC, lostC + 1}
        BY <1>3 DEF Session!Emit
    <2>2. AllWithin(chunks, b, d)
        BY <1>1, WithinMore
    <2> QED
        BY <2>1, <2>2
<1> QED
    BY <1>2, <1>3

LEMMA Moved ==
    ASSUME NEW l \in Nat, NEW x \in Nat, NEW y \in Nat, NEW z \in Nat, NEW w \in Nat, NEW u \in Nat,
           NEW o \in Nat, NEW p \in Nat, NEW q \in Nat, NEW r \in Nat,
           l + x + y + z + w + u <= o, p + q + r <= x + y + z
    PROVE  l + p + q + r + w + u <= o
OBVIOUS

\* What the chunker and the transcriber leave alone.
LEMMA QueueSteps ==
    ASSUME FrameInv, NEW e \in Nat, Transcribed(e)', Recorded(e), lostC' \in Nat,
           Len(frames') <= FrameRoom, Len(chunks') <= ChunkRoom,
           lostC' + Len(voiced') + Len(frames') <= lostC + Len(voiced) + Len(frames),
           Len(voiced') \in Nat, Len(frames') \in Nat,
           UNCHANGED <<helperVars, soundVars, lostF>>
    PROVE  FrameInv'
<1>1. /\ UNCHANGED <<hp, made, pipe, held, wav, lostF>>
    BY DEF helperVars, soundVars
<1>2. Recorded(e)'
    BY <1>1 DEF Recorded
<1>3. lostF' + lostC' + Len(voiced') + Len(frames') + Len(held') + Len(pipe') <= made'
    <2>1. lostF + lostC + Len(voiced) + Len(frames) + Len(held) + Len(pipe) <= made
        BY DEF FrameInv
    <2>2. /\ lostF \in Nat /\ lostC \in Nat /\ Len(voiced) \in Nat /\ Len(frames) \in Nat
          /\ Len(held) \in Nat /\ Len(pipe) \in Nat /\ made \in Nat
        BY FrameTypes DEF FrameInv
    <2>3. lostF + lostC' + Len(voiced') + Len(frames') + Len(held) + Len(pipe) <= made
        BY <2>1, <2>2, Moved
    <2> QED
        BY <1>1, <2>3
<1> QED
    BY <1>1, <1>2, <1>3 DEF FrameInv

LEMMA ChunkerFrameKeeps ==
    ASSUME FrameInv, Session!ChunkerFrame
    PROVE  FrameInv'
<1>0. /\ voiced \in Seq(Nat) /\ Len(voiced) \in Nat /\ Len(frames) \in Nat /\ lostC \in Nat
      /\ Len(frames) <= FrameRoom /\ FrameRoom \in Nat /\ Len(chunks) <= ChunkRoom
    BY FrameTypes DEF FrameInv
<1>1. /\ frames # <<>> /\ frames' = Tail(frames)
      /\ UNCHANGED <<buffer, text, lostF>> /\ UNCHANGED <<helperVars, soundVars>>
    BY DEF Session!ChunkerFrame, Session!scribeVars, Session!helperVars, Session!soundVars,
           helperVars, soundVars
<1>2. PICK e \in Nat : Transcribed(e) /\ Recorded(e)
    BY DEF FrameInv
<1>3. PICK b, c, d \in Nat :
        /\ Within(text, 0, b) /\ Within(buffer, 0, b) /\ AllWithin(chunks, b, c)
        /\ Within(voiced, c, d) /\ Within(frames, d, e)
    BY <1>2 DEF Transcribed
<1>4. PICK f \in Nat : /\ f = Head(frames) /\ d < f /\ f <= e
                       /\ Within(frames', f, e) /\ Len(frames') = Len(frames) - 1
    BY <1>1, <1>3, WithinHead
<1>a. PICK more : more = Append(voiced, f)
    OBVIOUS
<1>5. Within(more, c, f) /\ Len(more) = Len(voiced) + 1
    <2>1. Within(<<f>>, d, f)
        BY <1>4, WithinOne
    <2>2. more = voiced \o <<f>>
        BY <1>0, <1>a, AppendIsConcat
    <2>3. Within(more, c, f)
        BY <1>3, <2>1, <2>2, WithinJoin
    <2> QED
        BY <1>0, <1>a, <2>3, AppendProperties
<1>6. Len(frames') \in Nat /\ Len(frames') <= FrameRoom
    BY <1>0, <1>4, LenProperties DEF Within
<1>7. CASE voiced = <<>> /\ UNCHANGED <<voiced, chunks, lostC>>
    <2>1. d <= f /\ c <= c
        BY <1>4
    <2>2. Within(voiced, c, f)
        BY <1>3, <2>1, WithinMore
    <2>3. Transcribed(e)'
        BY <1>1, <1>3, <1>4, <1>7, <2>2 DEF Transcribed
    <2>4. lostC' + Len(voiced') + Len(frames') <= lostC + Len(voiced) + Len(frames)
        BY <1>0, <1>4, <1>7
    <2> QED
        BY <1>0, <1>1, <1>2, <1>6, <1>7, <2>3, <2>4, QueueSteps
<1>8. CASE voiced' = Append(voiced, Head(frames)) /\ UNCHANGED <<chunks, lostC>>
    <2>1. voiced' = more
        BY <1>4, <1>8, <1>a
    <2>3. Transcribed(e)'
        BY <1>1, <1>3, <1>4, <1>5, <1>8, <2>1 DEF Transcribed
    <2>4. /\ lostC' + Len(voiced') + Len(frames') <= lostC + Len(voiced) + Len(frames)
          /\ Len(voiced') \in Nat
        BY <1>0, <1>4, <1>5, <1>8, <2>1
    <2> QED
        BY <1>0, <1>1, <1>2, <1>6, <1>8, <2>3, <2>4, QueueSteps
<1>9. CASE voiced' = <<>> /\ Session!Emit(Append(voiced, Head(frames)))
    <2>1. voiced' = <<>> /\ Session!Emit(more)
        BY <1>4, <1>9, <1>a
    <2>2. /\ AllWithin(chunks', b, f) /\ Len(chunks') <= ChunkRoom
          /\ lostC' \in Nat /\ lostC' <= lostC + 1
        BY <1>0, <1>3, <1>5, <2>1, EmitsChunk
    <2>3. Within(voiced', f, f) /\ Len(voiced') = 0
        BY <2>1, WithinNone
    <2>4. Transcribed(e)'
        BY <1>1, <1>3, <1>4, <2>2, <2>3 DEF Transcribed
    <2>5. lostC' + Len(voiced') + Len(frames') <= lostC + Len(voiced) + Len(frames)
        BY <1>0, <1>4, <2>2, <2>3
    <2>6. Len(voiced') \in Nat
        BY <2>3
    <2> QED
        BY <1>1, <1>2, <1>6, <2>2, <2>4, <2>5, <2>6, QueueSteps
<1> QED
    BY <1>7, <1>8, <1>9 DEF Session!ChunkerFrame

LEMMA ChunkerStopsKeeps ==
    ASSUME FrameInv, Session!ChunkerStops
    PROVE  FrameInv'
<1>0. /\ Len(voiced) \in Nat /\ Len(frames) \in Nat /\ lostC \in Nat
      /\ Len(frames) <= FrameRoom /\ FrameRoom \in Nat /\ Len(chunks) <= ChunkRoom
      /\ voiced \in Seq(Nat)
    BY FrameTypes DEF FrameInv
<1>1. /\ voiced' = <<>> /\ UNCHANGED <<frames, buffer, text, lostF>>
      /\ UNCHANGED <<helperVars, soundVars>>
    BY DEF Session!ChunkerStops, Session!scribeVars, Session!helperVars, Session!soundVars,
           helperVars, soundVars
<1>2. PICK e \in Nat : Transcribed(e) /\ Recorded(e)
    BY DEF FrameInv
<1>3. PICK b, c, d \in Nat :
        /\ Within(text, 0, b) /\ Within(buffer, 0, b) /\ AllWithin(chunks, b, c)
        /\ Within(voiced, c, d) /\ Within(frames, d, e)
    BY <1>2 DEF Transcribed
<1>4. Within(voiced', d, d) /\ Len(voiced') = 0 /\ Len(voiced') \in Nat
    BY <1>1, WithinNone
<1>5. /\ AllWithin(chunks', b, d) /\ Len(chunks') <= ChunkRoom
      /\ lostC' \in Nat /\ lostC' <= lostC + Len(voiced)
    <2>1. CASE voiced = <<>>
        <3>1. UNCHANGED <<chunks, lostC>>
            BY <2>1 DEF Session!ChunkerStops
        <3>2. c <= d /\ b <= b
            BY <1>3 DEF Within
        <3>3. AllWithin(chunks, b, d)
            BY <1>3, <3>2, WithinMore
        <3> QED
            BY <1>0, <3>1, <3>3
    <2>2. CASE voiced # <<>>
        <3>1. Session!Emit(voiced)
            BY <2>2 DEF Session!ChunkerStops
        <3>2. /\ AllWithin(chunks', b, d) /\ Len(chunks') <= ChunkRoom
              /\ lostC' \in Nat /\ lostC' <= lostC + 1
            BY <1>0, <1>3, <3>1, EmitsChunk
        <3>3. Len(voiced) >= 1
            BY <1>0, <2>2, EmptySeq
        <3> QED
            BY <1>0, <3>2, <3>3
    <2> QED
        BY <2>1, <2>2
<1>6. Transcribed(e)'
    BY <1>1, <1>3, <1>4, <1>5 DEF Transcribed
<1>7. lostC' + Len(voiced') + Len(frames') <= lostC + Len(voiced) + Len(frames)
    BY <1>0, <1>1, <1>4, <1>5
<1> QED
    BY <1>0, <1>1, <1>2, <1>4, <1>5, <1>6, <1>7, QueueSteps

\* The part of s after m and up to n.
LEMMA Segment ==
    ASSUME NEW s \in Seq(Nat), NEW m \in Nat, NEW n \in Nat, n <= Len(s)
    PROVE  \E q \in Nat :
            /\ SubSeq(s, m + 1, n) \in Seq(Nat) /\ Len(SubSeq(s, m + 1, n)) = q
            /\ q = (IF m + 1 <= n THEN n - m ELSE 0)
            /\ \A k \in 1 .. q :
                SubSeq(s, m + 1, n)[k] = s[m + k] /\ m + k \in 1 .. Len(s) /\ m + k <= n
<1>0. Len(s) \in Nat /\ \A i \in 1 .. Len(s) : s[i] \in Nat
    BY LenProperties, ElementOfSeq
<1>a. PICK lo \in Int : lo = m + 1
    OBVIOUS
<1>b. PICK t : t = SubSeq(s, m + 1, n)
    OBVIOUS
<1>1. lo = m + 1 /\ t = SubSeq(s, lo, n)
    BY <1>a, <1>b
<1>2. \A i \in lo .. n : s[i] \in Nat
    <2>1. \A i \in lo .. n : i \in 1 .. Len(s)
        BY <1>0, <1>1
    <2> QED
        BY <1>0, <2>1
<1>3. /\ t \in Seq(Nat) /\ Len(t) = (IF lo <= n THEN n - lo + 1 ELSE 0)
      /\ \A i \in 1 .. n - lo + 1 : t[i] = s[lo + i - 1]
    BY <1>1, <1>2, SubSeqProperties
<1>4. CASE m + 1 <= n
    <2>1. PICK q \in Nat : q = n - m
        BY <1>4
    <2>2. Len(t) = q /\ q = n - lo + 1
        BY <1>1, <1>3, <1>4, <2>1
    <2>3. ASSUME NEW k \in 1 .. q
          PROVE  t[k] = s[m + k] /\ m + k \in 1 .. Len(s) /\ m + k <= n
        <3>1. k \in 1 .. n - lo + 1 /\ lo + k - 1 = m + k
            BY <1>1, <2>2
        <3>2. m + k \in 1 .. Len(s) /\ m + k <= n
            BY <1>0, <2>1
        <3> QED
            BY <1>3, <3>1, <3>2
    <2> QED
        BY <1>1, <1>3, <1>4, <2>1, <2>2, <2>3
<1>5. CASE ~(m + 1 <= n)
    BY <1>1, <1>3, <1>5
<1> QED
    BY <1>4, <1>5

\* Whisper's lines move `said`, or the beginning of the buffer, forward.
LEMMA LinesKept ==
    ASSUME NEW b \in Nat, NEW last \in Nat, NEW line \in Nat, TextInv,
           Within(text, 0, b), Within(buffer, 0, b), Session!Transcribes(last, line)
    PROVE  Within(text', 0, b) /\ Within(buffer', 0, b) /\ TextInv'
<1>1. PICK len \in Nat, tl \in Nat : len = Len(buffer) /\ tl = Len(text)
    BY LenProperties DEF Within
<1>2. /\ text \in Seq(Nat) /\ \A i \in 1 .. tl : text[i] \in Nat /\ 0 < text[i] /\ text[i] <= b
      /\ \A i, j \in 1 .. tl : i < j => text[i] < text[j]
    BY <1>1, ElementOfSeq DEF Within
<1>3. /\ \A i \in 1 .. len : buffer[i] \in Nat /\ 0 < buffer[i] /\ buffer[i] <= b
      /\ \A i, j \in 1 .. len : i < j => buffer[i] < buffer[j]
    BY <1>1, ElementOfSeq DEF Within
<1>4. /\ said \in Nat
      /\ \A i \in 1 .. tl, j \in 1 .. len : said < j => text[i] < buffer[j]
    BY <1>1 DEF TextInv
<1>5. PICK near \in Nat : near = Session!Nearest(line, len) /\ near <= len /\ near <= line
    BY DEF Session!Nearest
<1>6. PICK r \in Nat : r = Session!Furthest(said, line) /\ said <= r /\ line <= r
    BY <1>4 DEF Session!Furthest
<1>7. PICK p \in Nat : p = (IF last <= len THEN last ELSE 0) /\ p <= len
    OBVIOUS
<1>8. PICK new : new = SubSeq(buffer, said + 1, near)
    OBVIOUS
<1>9. PICK old : old = SubSeq(buffer, p + 1, len)
    OBVIOUS
<1>10. text' = text \o new /\ buffer' = old /\ said' = IF r > p THEN r - p ELSE 0
    BY <1>1, <1>5, <1>6, <1>7, <1>8, <1>9 DEF Session!Transcribes
<1>11. PICK nl \in Nat : /\ new \in Seq(Nat) /\ Len(new) = nl
                         /\ \A k \in 1 .. nl : new[k] = buffer[said + k] /\ said + k \in 1 .. len /\ said + k <= r
    <2>1. buffer \in Seq(Nat) /\ near <= Len(buffer)
        BY <1>1, <1>5 DEF Within
    <2>a. said \in Nat /\ near \in Nat
        BY <1>4
    <2>b. PICK q \in Nat :
            /\ SubSeq(buffer, said + 1, near) \in Seq(Nat) /\ Len(SubSeq(buffer, said + 1, near)) = q
            /\ q = (IF said + 1 <= near THEN near - said ELSE 0)
            /\ \A k \in 1 .. q : /\ SubSeq(buffer, said + 1, near)[k] = buffer[said + k]
                               /\ said + k \in 1 .. Len(buffer) /\ said + k <= near
        BY <2>1, <2>a, Segment
    <2>2. /\ new \in Seq(Nat) /\ Len(new) = q
          /\ \A k \in 1 .. q : new[k] = buffer[said + k] /\ said + k \in 1 .. Len(buffer) /\ said + k <= near
        BY <1>8, <2>b
    <2>3. \A k \in 1 .. q : said + k <= r
        BY <1>4, <1>5, <1>6, <2>2
    <2> QED
        BY <1>1, <2>2, <2>3
<1>12. /\ old \in Seq(Nat) /\ Len(old) = len - p
       /\ \A k \in 1 .. len - p : old[k] = buffer[p + k] /\ p + k \in 1 .. len
    <2>1. buffer \in Seq(Nat) /\ len <= Len(buffer)
        BY <1>1 DEF Within
    <2>b. PICK q \in Nat :
            /\ SubSeq(buffer, p + 1, len) \in Seq(Nat) /\ Len(SubSeq(buffer, p + 1, len)) = q
            /\ q = (IF p + 1 <= len THEN len - p ELSE 0)
            /\ \A k \in 1 .. q : /\ SubSeq(buffer, p + 1, len)[k] = buffer[p + k]
                               /\ p + k \in 1 .. Len(buffer) /\ p + k <= len
        BY <2>1, Segment
    <2>2. /\ old \in Seq(Nat) /\ Len(old) = q /\ q = (IF p + 1 <= len THEN len - p ELSE 0)
          /\ \A k \in 1 .. q : old[k] = buffer[p + k] /\ p + k \in 1 .. Len(buffer)
        BY <1>9, <2>b
    <2>3. q = len - p
        BY <1>7, <2>2
    <2> QED
        BY <1>1, <2>2, <2>3
<1>13. /\ text' \in Seq(Nat) /\ Len(text') = tl + nl
       /\ \A i \in 1 .. tl + nl : text'[i] = IF i <= tl THEN text[i] ELSE new[i - tl]
    <2>1. text' = text \o new /\ text \in Seq(Nat) /\ Len(text) = tl
        BY <1>1, <1>2, <1>10
    <2>2. new \in Seq(Nat) /\ Len(new) = nl
        BY <1>11
    <2> QED
        BY <2>1, <2>2, ConcatProperties
<1>14. Within(buffer', 0, b)
    <2>1. \A k \in 1 .. len - p : 0 < old[k] /\ old[k] <= b
        BY <1>3, <1>12
    <2>2. ASSUME NEW i \in 1 .. len - p, NEW j \in 1 .. len - p, i < j PROVE old[i] < old[j]
        <3>0. p + i \in 1 .. len /\ p + j \in 1 .. len
            BY <1>12
        <3>1. p + i \in 1 .. len /\ p + j \in 1 .. len /\ p + i < p + j
            BY <1>7, <2>2, <3>0
        <3> QED
            BY <1>3, <1>12, <3>1
    <2> QED
        BY <1>10, <1>12, <2>1, <2>2 DEF Within
\* A frame of the transcript that is new comes from the buffer, up to r.
<1>15. ASSUME NEW i \in 1 .. tl + nl
       PROVE  \/ i \in 1 .. tl /\ text'[i] = text[i]
              \/ \E k \in 1 .. nl : i = tl + k /\ text'[i] = new[k]
    <2>1. CASE i <= tl
        BY <1>13, <2>1
    <2>2. CASE ~(i <= tl)
        <3>1. i - tl \in 1 .. nl /\ i = tl + (i - tl)
            BY <2>2
        <3> QED
            BY <1>13, <2>2, <3>1
    <2> QED
        BY <2>1, <2>2
<1>16. Within(text', 0, b)
    <2>1. ASSUME NEW i \in 1 .. tl + nl PROVE 0 < text'[i] /\ text'[i] <= b
        <3>1. CASE i \in 1 .. tl /\ text'[i] = text[i]
            BY <1>2, <3>1
        <3>2. ASSUME NEW k \in 1 .. nl, text'[i] = new[k] PROVE 0 < text'[i] /\ text'[i] <= b
            <4>1. new[k] = buffer[said + k] /\ said + k \in 1 .. len
                BY <1>11
            <4> QED
                BY <1>3, <3>2, <4>1
        <3> QED
            BY <1>15, <3>1, <3>2
    <2>2. ASSUME NEW i \in 1 .. tl + nl, NEW j \in 1 .. tl + nl, i < j PROVE text'[i] < text'[j]
        <3>1. CASE j \in 1 .. tl /\ text'[j] = text[j]
            <4>1. i \in 1 .. tl /\ text'[i] = text[i]
                <5>1. i <= tl /\ i \in 1 .. tl
                    BY <2>2, <3>1
                <5> QED
                    BY <1>13, <5>1
            <4> QED
                BY <1>2, <2>2, <3>1, <4>1
        <3>2. ASSUME NEW k \in 1 .. nl, j = tl + k, text'[j] = new[k] PROVE text'[i] < text'[j]
            <4>1. CASE i \in 1 .. tl /\ text'[i] = text[i]
                <5>1. said < said + k /\ said + k \in 1 .. len
                    BY <1>4, <1>11
                <5> QED
                    BY <1>4, <1>11, <3>2, <4>1, <5>1
            <4>2. ASSUME NEW h \in 1 .. nl, i = tl + h, text'[i] = new[h] PROVE text'[i] < text'[j]
                <5>1. h < k
                    BY <2>2, <3>2, <4>2
                <5>2. said + h < said + k /\ said + h \in 1 .. len /\ said + k \in 1 .. len
                    BY <1>4, <1>11, <5>1
                <5> QED
                    BY <1>3, <1>11, <3>2, <4>2, <5>2
            <4> QED
                BY <1>15, <4>1, <4>2
        <3> QED
            BY <1>15, <3>1, <3>2
    <2> QED
        BY <1>13, <2>1, <2>2 DEF Within
<1>17. TextInv'
    <2>1. said' \in Nat /\ r <= p + said'
        BY <1>10
    <2>2. ASSUME NEW i \in 1 .. tl + nl, NEW j \in 1 .. len - p, said' < j PROVE text'[i] < buffer'[j]
        <3>1. buffer'[j] = buffer[p + j] /\ p + j \in 1 .. len
            BY <1>10, <1>12
        <3>2. r < p + j /\ said < p + j
            BY <1>4, <1>6, <1>7, <2>1, <2>2
        <3>3. CASE i \in 1 .. tl /\ text'[i] = text[i]
            BY <1>4, <3>1, <3>2, <3>3
        <3>4. ASSUME NEW k \in 1 .. nl, text'[i] = new[k] PROVE text'[i] < buffer'[j]
            <4>1. said + k \in 1 .. len /\ said + k < p + j /\ new[k] = buffer[said + k]
                BY <1>4, <1>6, <1>7, <1>11, <3>2
            <4> QED
                BY <1>3, <3>1, <3>4, <4>1
        <3> QED
            BY <1>15, <3>3, <3>4
    <2> QED
        BY <1>10, <1>12, <1>13, <2>1, <2>2 DEF TextInv
<1> QED
    BY <1>14, <1>16, <1>17

\* A chunk is put behind what is in the buffer.
LEMMA BufferGrows ==
    ASSUME NEW b \in Nat, NEW mid \in Nat, NEW chunk, TextInv, Within(text, 0, b), Within(buffer, 0, b),
           Within(chunk, b, mid), buffer' = buffer \o chunk, UNCHANGED <<text, said>>
    PROVE  Within(text', 0, mid) /\ Within(buffer', 0, mid) /\ TextInv'
<1>1. b <= mid /\ 0 <= 0
    BY DEF Within
<1>2. Within(text', 0, mid) /\ Within(buffer', 0, mid)
    BY <1>1, WithinMore, WithinJoin
<1>3. TextInv'
    <2>1. PICK len \in Nat, cl \in Nat : len = Len(buffer) /\ cl = Len(chunk)
        BY LenProperties DEF Within
    <2>2. buffer \in Seq(Nat) /\ chunk \in Seq(Nat) /\ text \in Seq(Nat)
        BY DEF Within
    <2>3. /\ Len(buffer') = len + cl
          /\ \A i \in 1 .. len + cl : buffer'[i] = IF i <= len THEN buffer[i] ELSE chunk[i - len]
        BY <2>1, <2>2, ConcatProperties
    <2>4. ASSUME NEW i \in 1 .. Len(text), NEW j \in 1 .. len + cl, said < j
          PROVE  text[i] < buffer'[j]
        <3>1. CASE j <= len
            BY <2>1, <2>3, <2>4, <3>1 DEF TextInv
        <3>2. CASE ~(j <= len)
            <4>1. j - len \in 1 .. cl
                BY <3>2
            <4>2. chunk[j - len] \in Nat /\ b < chunk[j - len]
                BY <2>1, <2>2, <4>1, ElementOfSeq DEF Within
            <4>3. text[i] \in Nat /\ text[i] <= b
                BY <2>2, ElementOfSeq DEF Within
            <4> QED
                BY <2>3, <3>2, <4>2, <4>3
        <3> QED
            BY <3>1, <3>2
    <2> QED
        BY <2>3, <2>4 DEF TextInv
<1> QED
    BY <1>2, <1>3

LEMMA ScribeKeeps ==
    ASSUME FrameInv, TextInv, Session!TakesChunk \/ Session!WhisperReturns
    PROVE  FrameInv' /\ TextInv'
<1>0. /\ Len(voiced) \in Nat /\ Len(frames) \in Nat /\ lostC \in Nat /\ Len(chunks) \in Nat
      /\ Len(frames) <= FrameRoom /\ ChunkRoom \in Nat /\ Len(chunks) <= ChunkRoom
    BY FrameTypes DEF FrameInv
<1>1. /\ UNCHANGED <<voiced, frames, lostF, lostC>> /\ UNCHANGED <<helperVars, soundVars>>
    BY DEF Session!TakesChunk, Session!WhisperReturns, Session!chunkerVars, Session!lossVars,
           Session!helperVars, Session!soundVars, helperVars, soundVars
<1>2. PICK e \in Nat : Transcribed(e) /\ Recorded(e)
    BY DEF FrameInv
<1>3. PICK b, c, d \in Nat :
        /\ Within(text, 0, b) /\ Within(buffer, 0, b) /\ AllWithin(chunks, b, c)
        /\ Within(voiced, c, d) /\ Within(frames, d, e)
    BY <1>2 DEF Transcribed
<1>4. Transcribed(e)' /\ Len(chunks') <= ChunkRoom /\ TextInv'
    <2>1. CASE Session!TakesChunk
        <3>1. /\ chunks # <<>> /\ chunks' = Tail(chunks) /\ buffer' = buffer \o Head(chunks)
              /\ UNCHANGED <<text, said>>
            BY <2>1 DEF Session!TakesChunk
        <3>2. Len(Tail(chunks)) = Len(chunks) - 1
            BY <1>3, <3>1, ChunkTaken
        <3>3. PICK mid \in Nat : Within(Head(chunks), b, mid) /\ AllWithin(chunks', mid, c)
            BY <1>3, <3>1, ChunkTaken
        <3>4. Within(text', 0, mid) /\ Within(buffer', 0, mid) /\ TextInv'
            BY <1>3, <3>1, <3>3, BufferGrows
        <3>5. Transcribed(e)'
            BY <1>1, <1>3, <3>1, <3>3, <3>4 DEF Transcribed
        <3> QED
            BY <1>0, <3>1, <3>2, <3>4, <3>5
    <2>2. CASE Session!WhisperReturns
        <3>1. chunks' = chunks
            BY <2>2 DEF Session!WhisperReturns
        <3>2. Within(text', 0, b) /\ Within(buffer', 0, b) /\ TextInv'
            <4>1. CASE UNCHANGED <<buffer, said, text>>
                BY <1>3, <4>1 DEF TextInv
            <4>2. CASE /\ buffer' = <<>> /\ UNCHANGED text
                       /\ said' = IF said > Len(buffer) THEN said - Len(buffer) ELSE 0
                <5>1. Within(<<>>, 0, b) /\ Len(<<>>) = 0
                    BY WithinNone
                <5>2. said' \in Nat
                    <6>1. Len(buffer) \in Nat /\ said \in Nat
                        BY FrameTypes DEF TextInv
                    <6> QED
                        BY <4>2, <6>1
                <5> QED
                    BY <1>3, <4>2, <5>1, <5>2 DEF TextInv
            <4>3. CASE \E last \in 1 .. Len(buffer) + Overrun :
                        \E line \in 0 .. last : Session!Transcribes(last, line)
                <5>1. Len(buffer) \in Nat /\ Overrun \in Nat
                    BY FrameTypes, CommandAssumption
                <5>2. PICK last \in Nat, line \in Nat : Session!Transcribes(last, line)
                    BY <4>3, <5>1
                <5> QED
                    BY <1>3, <5>2, LinesKept
            <4> QED
                BY <2>2, <4>1, <4>2, <4>3 DEF Session!WhisperReturns, Session!HearsNothing
        <3>3. Transcribed(e)'
            BY <1>1, <1>3, <3>1, <3>2 DEF Transcribed
        <3> QED
            BY <1>0, <3>1, <3>2, <3>3
    <2> QED
        BY <2>1, <2>2
<1>5. lostC' + Len(voiced') + Len(frames') <= lostC + Len(voiced) + Len(frames)
    BY <1>0, <1>1
<1> QED
    BY <1>0, <1>1, <1>2, <1>4, <1>5, QueueSteps

-----------------------------------------------------------------------------
(* Mixer thread and capture worker *)

\* What may be in the mixer once pulled was fed.
LEMMA Feeding ==
    ASSUME FrameInv, NEW pulled, pulled = <<>> \/ (pipe # <<>> /\ pulled = <<Head(pipe)>>)
    PROVE  /\ held \o pulled \in Seq(Nat)
           /\ pulled = <<>> => held \o pulled = held /\ Len(held \o pulled) = Len(held)
           /\ pulled # <<>> => /\ Len(held \o pulled) = Len(held) + 1
                            /\ held \o pulled = Append(held, Head(pipe))
<1>1. held \in Seq(Nat) /\ pipe \in Seq(Nat) /\ Len(held) \in Nat
    BY FrameTypes
<1>2. CASE pulled = <<>>
    BY <1>1, <1>2, ConcatEmptySeq
<1>3. CASE pipe # <<>> /\ pulled = <<Head(pipe)>>
    <2>1. Head(pipe) \in Nat
        BY <1>1, <1>3, HeadTailProperties
    <2>2. held \o pulled = Append(held, Head(pipe))
        BY <1>1, <1>3, <2>1, AppendIsConcat
    <2>3. Append(held, Head(pipe)) \in Seq(Nat) /\ Len(Append(held, Head(pipe))) = Len(held) + 1
        BY <1>1, <2>1, AppendProperties
    <2>4. pulled # <<>>
        BY <1>3
    <2> QED
        BY <2>2, <2>3, <2>4
<1> QED
    BY <1>2, <1>3

LEMMA Publishes ==
    ASSUME FrameInv, NEW seq \in Seq(Nat), Session!Publish(seq)
    PROVE  \E k \in 0 .. Len(seq) :
              /\ frames' = frames \o SubSeq(seq, 1, k)
              /\ lostF' \in Nat /\ lostF' + k <= lostF + Len(seq)
              /\ Len(frames') <= FrameRoom
<1>1. /\ Len(seq) \in Nat /\ Len(frames) \in Nat /\ FrameRoom \in Nat /\ Len(frames) <= FrameRoom
      /\ lostF \in Nat /\ frames \in Seq(Nat)
    BY FrameTypes, LenProperties DEF FrameInv
<1>2. PICK k : k = IF Len(seq) < FrameRoom - Len(frames) THEN Len(seq) ELSE FrameRoom - Len(frames)
    OBVIOUS
<1>3. k \in Nat /\ k <= Len(seq) /\ Len(frames) + k <= FrameRoom
    BY <1>1, <1>2
<1>4. frames' = frames \o SubSeq(seq, 1, k) /\ lostF' = lostF + (Len(seq) - k)
    BY <1>2 DEF Session!Publish
<1>5. SubSeq(seq, 1, k) \in Seq(Nat) /\ Len(SubSeq(seq, 1, k)) = k
    <2>1. \A i \in 1 .. k : seq[i] \in Nat
        BY <1>1, <1>3, ElementOfSeq
    <2>2. k \in Int /\ 1 \in Int
        BY <1>3
    <2>3. SubSeq(seq, 1, k) \in Seq(Nat) /\ Len(SubSeq(seq, 1, k)) = IF 1 <= k THEN k - 1 + 1 ELSE 0
        BY <2>1, <2>2, SubSeqProperties
    <2> QED
        BY <1>3, <2>3
<1>6. Len(frames') = Len(frames) + k
    BY <1>1, <1>4, <1>5, ConcatProperties
<1>7. lostF' \in Nat /\ lostF' + k <= lostF + Len(seq) /\ Len(frames') <= FrameRoom
    BY <1>1, <1>3, <1>4, <1>6
<1>8. k \in 0 .. Len(seq)
    BY <1>1, <1>3
<1> QED
    BY <1>4, <1>7, <1>8

LEMMA DrainPublished ==
    ASSUME FrameInv, NEW pulled, NEW keeps, NEW n \in Nat,
           pulled = <<>> \/ (pipe # <<>> /\ pulled = <<Head(pipe)>>),
           \/ pulled = <<>> /\ pipe' = pipe
           \/ pipe # <<>> /\ pipe' = Tail(pipe),
           n <= Len(held \o pulled),
           Drain(pulled, n, keeps), Session!Publish(SubSeq(held \o pulled, 1, n)),
           UNCHANGED <<hp, made, lostC, voiced, chunks, buffer, text>>
    PROVE  FrameInv'
<1>1. PICK all : all = held \o pulled
    OBVIOUS
<1>2. all \in Seq(Nat) /\ Len(all) \in Nat
    BY <1>1, Feeding, LenProperties
<1>3. PICK seq : seq = SubSeq(all, 1, n)
    OBVIOUS
<1>4. seq \in Seq(Nat) /\ Len(seq) = n
    <2>a. \A i \in 1 .. n : i \in 1 .. Len(all)
        BY <1>1, <1>2
    <2>1. \A i \in 1 .. n : all[i] \in Nat
        BY <1>2, <2>a, ElementOfSeq
    <2>2. seq \in Seq(Nat) /\ Len(seq) = IF 1 <= n THEN n - 1 + 1 ELSE 0
        BY <1>3, <2>1, SubSeqProperties
    <2> QED
        BY <2>2
<1>5. PICK k \in 0 .. n : /\ frames' = frames \o SubSeq(seq, 1, k)
                          /\ lostF' \in Nat /\ lostF' + k <= lostF + n
                          /\ Len(frames') <= FrameRoom
    <2>1. Session!Publish(seq)
        BY <1>1, <1>3
    <2> QED
        BY <1>4, <2>1, Publishes
<1>6. n \in 0 .. Len(held \o pulled)
    BY <1>1, <1>2
<1>7. frames' = frames \o SubSeq(SubSeq(held \o pulled, 1, n), 1, k)
    BY <1>1, <1>3, <1>5
<1>8. pulled \in {<<>>, <<Head(pipe)>>}
    OBVIOUS
<1> QED
    BY <1>5, <1>6, <1>7, <1>8, Drains

\* Nothing is published.
LEMMA DrainKept ==
    ASSUME FrameInv, NEW pulled, NEW keeps, NEW n \in Nat,
           pulled = <<>> \/ (pipe # <<>> /\ pulled = <<Head(pipe)>>),
           \/ pulled = <<>> /\ pipe' = pipe
           \/ pipe # <<>> /\ pipe' = Tail(pipe),
           n <= Len(held \o pulled), Drain(pulled, n, keeps),
           UNCHANGED <<hp, made, frames, lostF, lostC, voiced, chunks, buffer, text>>
    PROVE  FrameInv'
<1>1. n \in 0 .. Len(held \o pulled) /\ 0 \in 0 .. n
    BY Feeding, LenProperties
<1>2. pulled \in {<<>>, <<Head(pipe)>>}
    OBVIOUS
<1>3. lostF' \in Nat /\ lostF' + 0 <= lostF + n /\ Len(frames') <= FrameRoom
    BY DEF FrameInv
<1>4. PICK k \in 0 .. n : k = 0
    BY <1>1
<1> QED
    BY <1>1, <1>2, <1>3, <1>4, Drains

LEMMA MixerKeepsLine ==
    ASSUME FrameInv, Session!MixerWorks
    PROVE  FrameInv'
<1>0. held \in Seq(Nat) /\ Len(held) \in Nat
    BY FrameTypes
<1>1. CASE Session!MixerFrame
    <2>1. /\ pipe # <<>> /\ pipe' = Tail(pipe) /\ held' = Append(held, Head(pipe))
          /\ UNCHANGED <<hp, made, wav, wavOpen, frames, lostF, lostC, voiced, chunks, buffer, text>>
        BY <1>1 DEF Session!MixerFrame, Session!ReadFrame, Session!chunkerVars, Session!scribeVars,
           Session!lossVars
    <2>2. PICK pulled : pulled = <<Head(pipe)>>
        OBVIOUS
    <2>a. pulled # <<>>
        BY <2>2
    <2>3. held \o pulled = held' /\ held \o pulled \in Seq(Nat) /\ Len(held \o pulled) \in Nat
        BY <2>1, <2>2, <2>a, Feeding, LenProperties
    <2>4. SubSeq(held \o pulled, 0 + 1, Len(held \o pulled)) = held'
        BY <2>3, SubSeqFull
    <2>5. Drain(pulled, 0, FALSE)
        BY <2>1, <2>4 DEF Drain
    <2>6. 0 \in Nat /\ 0 <= Len(held \o pulled)
        BY <2>3
    <2> QED
        BY <2>1, <2>2, <2>5, <2>6, DrainKept
<1>2. CASE Session!MixerPublishes
    <2>1. /\ held # <<>> /\ pipe' = pipe /\ Session!Publish(SubSeq(held, 1, 1))
          /\ UNCHANGED <<hp, made, lostC, voiced, chunks, buffer, text>>
        BY <1>2 DEF Session!MixerPublishes, Session!helperVars, Session!chunkerVars, Session!scribeVars
    <2>2. PICK none : none = <<>>
        OBVIOUS
    <2>3. Drain(none, 1, wavOpen)
        BY <1>2, <2>2 DEF Session!MixerPublishes, Session!Drain, Drain
    <2>4. held \o none = held /\ Len(held \o none) = Len(held)
        BY <2>2, Feeding
    <2>5. 1 <= Len(held \o none) /\ 1 \in Nat
        BY <1>0, <2>1, <2>4, EmptySeq
    <2>6. Session!Publish(SubSeq(held \o none, 1, 1))
        BY <2>1, <2>4
    <2> QED
        BY <2>1, <2>2, <2>3, <2>5, <2>6, DrainPublished
<1>3. CASE Session!MixerBreaks
    <2>1. /\ pipe # <<>> /\ pipe' = Tail(pipe)
          /\ UNCHANGED <<hp, made, wav, wavOpen, held, frames, lostF, lostC, voiced, chunks, buffer, text>>
        BY <1>3 DEF Session!MixerBreaks, Session!ReadFrame, Session!chunkerVars, Session!scribeVars,
           Session!soundVars, Session!lossVars
    <2>2. PICK none : none = <<>>
        OBVIOUS
    <2>3. held \o none = held /\ Len(held \o none) = Len(held)
        BY <2>2, Feeding
    <2>4. SubSeq(held, 1, Len(held)) = held
        BY <1>0, SubSeqFull
    <2>5. Drain(none, 0, FALSE)
        BY <2>1, <2>3, <2>4 DEF Drain
    <2>6. 0 \in Nat /\ 0 <= Len(held \o none)
        BY <1>0, <2>3
    <2> QED
        BY <2>1, <2>2, <2>5, <2>6, DrainKept
<1>4. CASE Session!MixerWaits \/ Session!MixerSeesEnd \/ Session!MixerCrashes \/ Session!MixerEnds
    <2>1. UNCHANGED lineVars /\ UNCHANGED hp
        BY <1>4 DEF Session!MixerWaits, Session!MixerSeesEnd, Session!MixerCrashes, Session!MixerEnds,
           lineVars, Session!helperVars, Session!soundVars, Session!lossVars, Session!chunkerVars,
           Session!scribeVars
    <2> QED
        BY <2>1, LineStays
<1> QED
    BY <1>1, <1>2, <1>3, <1>4 DEF Session!MixerWorks

LEMMA WorkerKeepsLine ==
    ASSUME FrameInv, Recorder!WorkerWorks,
           UNCHANGED <<frames, lostF, lostC, voiced, chunks, buffer, text>>
    PROVE  FrameInv'
<1>1. CASE Recorder!WorkerFrame
    <2>1. pipe # <<>> /\ pipe' = Tail(pipe) /\ UNCHANGED <<hp, made>>
        BY <1>1 DEF Recorder!WorkerFrame, Recorder!ReadFrame
    <2>2. PICK n \in 0 .. Len(held) + 1 : Recorder!Drain(<<Head(pipe)>>, n, ~paused)
        BY <1>1 DEF Recorder!WorkerFrame
    <2>3. PICK pulled, keeps : pulled = <<Head(pipe)>> /\ keeps = ~paused
        OBVIOUS
    <2>a. pulled # <<>>
        BY <2>3
    <2>4. Len(held \o pulled) = Len(held) + 1 /\ Len(held) \in Nat
        BY <2>1, <2>3, <2>a, Feeding, FrameTypes
    <2>5. Drain(pulled, n, keeps)
        BY <2>2, <2>3 DEF Recorder!Drain, Drain
    <2>7. n \in Nat /\ n <= Len(held \o pulled)
        BY <2>4
    <2> QED
        BY <2>1, <2>3, <2>5, <2>7, DrainKept
<1>2. ASSUME NEW broken, Recorder!FlushesOrCrashes(broken), UNCHANGED <<hp, made>>,
             pipe' = pipe \/ (pipe # <<>> /\ pipe' = Tail(pipe))
      PROVE  FrameInv'
    <2>1. /\ held \o <<>> = held /\ Len(held) \in Nat /\ held \in Seq(Nat)
        BY FrameTypes, Feeding
    <2>2. PICK none : none = <<>>
        OBVIOUS
    <2>3. CASE UNCHANGED Recorder!soundVars
        <3>1. SubSeq(held, 1, Len(held)) = held
            BY <2>1, SubSeqFull
        <3>2. Drain(none, 0, FALSE)
            BY <2>1, <2>2, <2>3, <3>1 DEF Recorder!soundVars, Drain
        <3>3. 0 \in Nat /\ 0 <= Len(held \o none)
            BY <2>1, <2>2
        <3> QED
            BY <1>2, <2>2, <3>2, <3>3, DrainKept
    <2>4. CASE Recorder!Flush(~paused)
        <3>1. PICK keeps : keeps = ~paused
            OBVIOUS
        <3>2. Drain(none, Len(held), keeps)
            BY <2>2, <2>4, <3>1 DEF Recorder!Flush, Recorder!Drain, Drain
        <3>3. Len(held) <= Len(held \o none)
            BY <2>1, <2>2
        <3> QED
            BY <1>2, <2>1, <2>2, <3>2, <3>3, DrainKept
    <2> QED
        BY <1>2, <2>3, <2>4 DEF Recorder!FlushesOrCrashes
<1>3. CASE Recorder!WorkerBreaks
    <2>1. Recorder!FlushesOrCrashes(FALSE)
        BY <1>3 DEF Recorder!WorkerBreaks
    <2>2. pipe # <<>> /\ pipe' = Tail(pipe) /\ UNCHANGED <<hp, made>>
        BY <1>3 DEF Recorder!WorkerBreaks, Recorder!ReadFrame
    <2> QED
        BY <1>2, <2>1, <2>2
<1>4. CASE Recorder!WorkerSeesEnd
    <2>1. Recorder!FlushesOrCrashes(Recorder!StreamBroken)
        BY <1>4 DEF Recorder!WorkerSeesEnd
    <2>2. pipe' = pipe /\ UNCHANGED <<hp, made>>
        BY <1>4 DEF Recorder!WorkerSeesEnd, Recorder!helperVars
    <2> QED
        BY <1>2, <2>1, <2>2
<1> QED
    BY <1>1, <1>3, <1>4 DEF Recorder!WorkerWorks

-----------------------------------------------------------------------------
(* The line in the record command *)

\* The helper is the same for both commands.
LEMMA SameHelper ==
    /\ Session!HelperStep <=> HelperStep
    /\ Recorder!HelperStep <=> HelperStep
    /\ Session!Running <=> Running
    /\ Recorder!Running <=> Running
BY DEF Session!HelperStep, Session!HelperWorks, Session!HelperStarts, Session!WriteBegins,
       Session!WriteEnds, Session!SignalStops, Session!SignalEscalates, Session!HelperFails,
       Session!ExitsWith, Session!Running,
       Recorder!HelperStep, Recorder!HelperWorks, Recorder!HelperStarts, Recorder!WriteBegins,
       Recorder!WriteEnds, Recorder!SignalStops, Recorder!SignalEscalates, Recorder!HelperFails,
       Recorder!ExitsWith, Recorder!Running,
       HelperStep, HelperWorks, HelperStarts, WriteBegins, WriteEnds, SignalStops, SignalEscalates,
       HelperFails, ExitsWith, Running

\* No frame moves.
Quiet == UNCHANGED lineVars /\ (hp' = "writing" => hp = "writing")

LEMMA SessionQuiet ==
    ASSUME \/ Session!SessionStarts \/ Session!SessionWorks \/ Session!ChunkerContinues
           \/ Session!ChunkerTimesOut \/ Session!FindsNothing \/ Session!WhisperRaises
           \/ Session!StreamFails \/ Session!WiringFails \/ Session!DurationReached \/ Session!CtrlC
           \/ Session!SaveFails
    PROVE  Quiet /\ UNCHANGED <<buffer, said, text>>
<1> USE DEF Quiet, lineVars, Session!helperVars, Session!soundVars, Session!lossVars,
            Session!chunkerVars, Session!scribeVars, Session!commandVars, Session!mainVars
<1>1. CASE Session!SessionStarts \/ Session!StreamFails \/ Session!WiringFails
    BY <1>1 DEF Session!SessionStarts, Session!StreamFails, Session!WiringFails, Session!Launch,
                Session!Terminate
<1>2. CASE Session!CtrlC \/ Session!DurationReached \/ Session!SaveFails
    BY <1>2 DEF Session!CtrlC, Session!DurationReached, Session!SaveFails, Session!liveVars,
                Session!Terminate
<1>3. CASE Session!ChunkerContinues \/ Session!ChunkerTimesOut \/ Session!FindsNothing
           \/ Session!WhisperRaises
    BY <1>3 DEF Session!ChunkerContinues, Session!ChunkerTimesOut, Session!FindsNothing,
                Session!WhisperRaises
<1>4. CASE Session!StreamStarts \/ Session!StreamFailed \/ Session!ThreadsStart \/ Session!WaitEnds
    BY <1>4 DEF Session!StreamStarts, Session!StreamFailed, Session!ThreadsStart, Session!WaitEnds,
                Session!Terminate
<1>5. CASE Session!MixerJoined \/ Session!StreamStopped \/ Session!ChunkerJoined
           \/ Session!ScribeJoined
    BY <1>5 DEF Session!MixerJoined, Session!StreamStopped, Session!ChunkerJoined,
                Session!ScribeJoined, Session!Joined
<1>6. CASE Session!StopInterrupted \/ Session!ChecksCapture \/ Session!MovesAudio
           \/ Session!SaveSucceeds
    BY <1>6 DEF Session!StopInterrupted, Session!ChecksCapture, Session!MovesAudio, Session!SaveSucceeds,
                Session!Terminate
<1> QED
    BY <1>1, <1>2, <1>3, <1>4, <1>5, <1>6 DEF Session!SessionWorks

LEMMA RecorderQuiet ==
    ASSUME \/ Recorder!RecordStarts \/ Recorder!RecorderWorks \/ Recorder!EnterFails
           \/ Recorder!OpenFails \/ Recorder!StopRequested \/ Recorder!KeyDiscards
           \/ Recorder!KeyPauses \/ Recorder!CtrlC \/ Recorder!MonitorWarns \/ Recorder!DescribeFails,
           UNCHANGED liveVars
    PROVE  Quiet
<1>0. UNCHANGED <<frames, lostF, lostC, voiced, chunks, buffer, text>>
    BY DEF liveVars
<1> USE DEF Quiet, lineVars, Recorder!helperVars, Recorder!soundVars
<1>1. CASE Recorder!RecordStarts \/ Recorder!EnterFails \/ Recorder!OpenFails \/ Recorder!CtrlC
    BY <1>0, <1>1 DEF Recorder!RecordStarts, Recorder!EnterFails, Recorder!OpenFails, Recorder!CtrlC,
                Recorder!Launch, Recorder!Terminate
<1>2. CASE Recorder!StopRequested \/ Recorder!KeyDiscards \/ Recorder!KeyPauses \/ Recorder!MonitorWarns
    BY <1>0, <1>2 DEF Recorder!StopRequested, Recorder!KeyDiscards, Recorder!KeyPauses,
                Recorder!MonitorWarns
<1>3. CASE Recorder!RecordEnters \/ Recorder!EnterFailed \/ Recorder!RecordOpens \/ Recorder!LoopEnds
    BY <1>0, <1>3 DEF Recorder!RecordEnters, Recorder!EnterFailed, Recorder!RecordOpens,
                Recorder!LoopEnds, Recorder!Terminate
<1>4. CASE Recorder!HelperGone \/ Recorder!WorkerJoined \/ Recorder!CleanupInterrupted
           \/ Recorder!RecordReturns \/ Recorder!OpenInterrupted \/ Recorder!DescribeFails
    BY <1>0, <1>4 DEF Recorder!HelperGone, Recorder!WorkerJoined, Recorder!CleanupInterrupted,
                Recorder!RecordReturns, Recorder!OpenInterrupted, Recorder!DescribeFails,
                Recorder!Terminate
<1> QED
    BY <1>1, <1>2, <1>3, <1>4 DEF Recorder!RecorderWorks

LEMMA FrameInvInit == Init => FrameInv
<1> SUFFICES ASSUME Init PROVE FrameInv
    OBVIOUS
<1>1. /\ pipe = <<>> /\ made = 0 /\ held = <<>> /\ wav = <<>> /\ frames = <<>> /\ lostF = 0
      /\ voiced = <<>> /\ chunks = <<>> /\ lostC = 0 /\ buffer = <<>> /\ text = <<>> /\ hp = "none"
    BY DEF Init, HelperInit, SoundInit, Session!LiveInit
<1>2. Within(<<>>, 0, 0) /\ AllWithin(<<>>, 0, 0)
    BY WithinNone
<1>3. Transcribed(0)
    BY <1>1, <1>2 DEF Transcribed
<1>4. Recorded(0)
    BY <1>1, <1>2 DEF Recorded
<1>5. \E e \in Nat : Transcribed(e) /\ Recorded(e)
    BY <1>3, <1>4
<1>6. Len(<<>>) = 0
    OBVIOUS
<1>7. made \in 0 .. MaxFrames /\ PipeSize \in Nat /\ FrameRoom \in Nat /\ ChunkRoom \in Nat
    BY <1>1, CaptureAssumption, CommandAssumption
<1> QED
    BY <1>1, <1>5, <1>6, <1>7 DEF FrameInv

LEMMA FrameInvNext == FrameInv /\ TextInv /\ [Next]_vars => FrameInv'
<1> SUFFICES ASSUME FrameInv, TextInv, [Next]_vars PROVE FrameInv'
    OBVIOUS
<1>1. CASE Plain(Recorder!RecordNext)
    <2>0. UNCHANGED liveVars /\ Recorder!RecordNext
        BY <1>1 DEF Plain
    <2>1. UNCHANGED <<frames, lostF, lostC, voiced, chunks, buffer, text>>
        BY <2>0 DEF liveVars
    <2>2. CASE Recorder!WorkerWorks
        BY <2>1, <2>2, WorkerKeepsLine
    <2>3. CASE Recorder!HelperAlone
        <3>1. HelperStep /\ UNCHANGED <<held, wav>>
            BY <2>3, SameHelper DEF Recorder!HelperAlone, Recorder!soundVars
        <3> QED
            BY <2>1, <3>1, HelperKeepsLine
    <2>4. CASE ~Recorder!WorkerWorks /\ ~Recorder!HelperAlone
        <3>1. Quiet
            BY <2>0, <2>4, RecorderQuiet DEF Recorder!RecordNext
        <3> QED
            BY <3>1, LineStays DEF Quiet
    <2> QED
        BY <2>2, <2>3, <2>4
<1>2. CASE Live(Session!LiveNext)
    <2>0. Session!LiveNext
        BY <1>2 DEF Live
    <2>1. CASE Session!MixerWorks
        BY <2>1, MixerKeepsLine
    <2>2. CASE Session!ChunkerFrame
        BY <2>2, ChunkerFrameKeeps
    <2>3. CASE Session!ChunkerStops
        BY <2>3, ChunkerStopsKeeps
    <2>4. CASE Session!TakesChunk \/ Session!WhisperReturns
        BY <2>4, ScribeKeeps
    <2>5. CASE Session!HelperAlone
        <3>1. /\ HelperStep
              /\ UNCHANGED <<held, wav, frames, lostF, lostC, voiced, chunks, buffer, text>>
            BY <2>5, SameHelper DEF Session!HelperAlone, Session!soundVars, Session!liveVars,
               Session!lossVars, Session!chunkerVars, Session!scribeVars
        <3> QED
            BY <3>1, HelperKeepsLine
    <2>6. CASE \/ Session!SessionStarts \/ Session!SessionWorks \/ Session!ChunkerContinues
               \/ Session!ChunkerTimesOut \/ Session!FindsNothing \/ Session!WhisperRaises
               \/ Session!StreamFails \/ Session!WiringFails \/ Session!DurationReached \/ Session!CtrlC
               \/ Session!SaveFails
        <3>1. Quiet
            BY <2>6, SessionQuiet
        <3> QED
            BY <3>1, LineStays DEF Quiet
    <2> QED
        BY <2>0, <2>1, <2>2, <2>3, <2>4, <2>5, <2>6
            DEF Session!LiveNext, Session!ChunkerStep, Session!ScribeWorks
<1>3. CASE Mixes(MixerNext) \/ UNCHANGED vars
    <2>1. UNCHANGED commandVars
        BY <1>3 DEF Mixes, vars
    <2>2. Quiet
        BY <2>1 DEF commandVars, helperVars, soundVars, liveVars, Quiet, lineVars
    <2> QED
        BY <2>2, LineStays DEF Quiet
<1> QED
    BY <1>1, <1>2, <1>3 DEF Next

LEMMA TextInvInit == Init => TextInv
<1>1. Init => said = 0 /\ text = <<>>
    BY DEF Init, Session!LiveInit
<1>2. Len(<<>>) = 0
    OBVIOUS
<1> QED
    BY <1>1, <1>2 DEF TextInv

\* Only the transcriber touches its buffer.
LEMMA TextInvNext == FrameInv /\ TextInv /\ [Next]_vars => TextInv'
<1> SUFFICES ASSUME FrameInv, TextInv, [Next]_vars PROVE TextInv'
    OBVIOUS
<1>1. ASSUME UNCHANGED <<buffer, said, text>> PROVE TextInv'
    BY <1>1 DEF TextInv
<1>2. CASE Plain(Recorder!RecordNext) \/ Mixes(MixerNext) \/ UNCHANGED vars
    BY <1>1, <1>2 DEF Plain, Mixes, vars, commandVars, liveVars
<1>3. CASE Live(Session!LiveNext)
    <2>0. Session!LiveNext
        BY <1>3 DEF Live
    <2>1. CASE Session!MixerWorks \/ Session!ChunkerStep \/ Session!HelperAlone
        BY <1>1, <2>1 DEF Session!MixerWorks, Session!MixerFrame, Session!MixerPublishes,
           Session!MixerWaits, Session!MixerBreaks, Session!MixerSeesEnd, Session!MixerCrashes,
           Session!MixerEnds, Session!ChunkerStep, Session!ChunkerContinues, Session!ChunkerTimesOut,
           Session!ChunkerFrame, Session!ChunkerStops, Session!HelperAlone, Session!liveVars,
           Session!scribeVars
    <2>2. CASE Session!TakesChunk \/ Session!WhisperReturns
        BY <2>2, ScribeKeeps
    <2>3. CASE \/ Session!SessionStarts \/ Session!SessionWorks \/ Session!FindsNothing
               \/ Session!WhisperRaises \/ Session!StreamFails \/ Session!WiringFails
               \/ Session!DurationReached \/ Session!CtrlC \/ Session!SaveFails
        BY <1>1, <2>3, SessionQuiet
    <2> QED
        BY <2>0, <2>1, <2>2, <2>3 DEF Session!LiveNext, Session!ScribeWorks
<1> QED
    BY <1>2, <1>3 DEF Next

\* A rising sequence is put before a rising line.
LEMMA LinePrepended ==
    ASSUME NEW lo \in Nat, NEW mid \in Nat, NEW hi \in Nat, NEW s, NEW cs,
           Within(s, lo, mid), AllWithin(cs, mid, hi)
    PROVE  AllWithin(<<s>> \o cs, lo, hi)
<1>1. PICK n \in Nat : n = Len(cs)
    BY LenProperties DEF AllWithin
<1>2. /\ s \in Seq(Nat) /\ cs \in Seq(Seq(Nat)) /\ <<s>> \in Seq(Seq(Nat)) /\ Len(<<s>>) = 1
      /\ lo <= mid /\ mid <= hi
    BY DEF AllWithin, Within
<1>3. PICK line : line = <<s>> \o cs
    OBVIOUS
<1>4. /\ line \in Seq(Seq(Nat)) /\ Len(line) = n + 1
      /\ line[1] = s /\ \A k \in 1 .. n : line[k + 1] = cs[k]
    <2>1. /\ line \in Seq(Seq(Nat)) /\ Len(line) = 1 + n
          /\ \A i \in 1 .. 1 + n : line[i] = IF i <= 1 THEN <<s>>[i] ELSE cs[i - 1]
        BY <1>1, <1>2, <1>3, ConcatProperties
    <2>2. line[1] = s
        BY <2>1
    <2>3. ASSUME NEW k \in 1 .. n PROVE line[k + 1] = cs[k]
        <3>1. k + 1 \in 1 .. 1 + n /\ ~(k + 1 <= 1) /\ k + 1 - 1 = k
            OBVIOUS
        <3> QED
            BY <2>1, <3>1
    <2> QED
        BY <2>1, <2>2, <2>3
<1>5. \A k \in 1 .. n + 1 : k = 1 \/ \E m \in 1 .. n : k = m + 1
    <2>1. ASSUME NEW k \in 1 .. n + 1, k # 1 PROVE k - 1 \in 1 .. n /\ k = (k - 1) + 1
        BY <2>1
    <2> QED
        BY <2>1
<1>6. Within(s, lo, hi)
    <2>1. lo <= lo /\ mid <= hi
        BY <1>2
    <2> QED
        BY <2>1, WithinMore
<1>7. \A k \in 1 .. n : Within(cs[k], mid, hi) /\ Within(cs[k], lo, hi)
    <2>1. \A k \in 1 .. n : Within(cs[k], mid, hi)
        BY <1>1 DEF AllWithin
    <2>2. lo <= mid /\ hi <= hi
        BY <1>2
    <2> QED
        BY <2>1, <2>2, WithinMore
<1>8. \A k \in 1 .. n + 1 : Within(line[k], lo, hi)
    BY <1>4, <1>5, <1>6, <1>7
<1>9. ASSUME NEW k \in 1 .. n + 1, NEW l \in 1 .. n + 1, k < l,
             NEW i \in 1 .. Len(line[k]), NEW j \in 1 .. Len(line[l])
      PROVE  line[k][i] < line[l][j]
    <2>1. PICK m \in 1 .. n : l = m + 1
        BY <1>5, <1>9
    <2>2. line[l] = cs[m]
        BY <1>4, <2>1
    <2>3. CASE k = 1
        <3>1. line[k] = s /\ s[i] \in Nat /\ s[i] <= mid
            BY <1>2, <1>4, <1>9, <2>3, ElementOfSeq DEF Within
        <3>2. cs[m] \in Seq(Nat) /\ mid < cs[m][j]
            BY <1>7, <1>9, <2>2 DEF Within
        <3>3. cs[m][j] \in Nat
            BY <1>9, <2>2, <3>2, ElementOfSeq
        <3>4. s[i] < cs[m][j]
            BY <3>1, <3>2, <3>3
        <3> QED
            BY <2>2, <3>1, <3>4
    <2>4. ASSUME NEW o \in 1 .. n, k = o + 1 PROVE line[k][i] < line[l][j]
        <3>1. line[k] = cs[o] /\ o < m
            BY <1>4, <1>9, <2>1, <2>4
        <3>2. \A x \in 1 .. Len(cs[o]), y \in 1 .. Len(cs[m]) : cs[o][x] < cs[m][y]
            <4>1. \A g, h \in 1 .. Len(cs) : g < h =>
                    \A x \in 1 .. Len(cs[g]), y \in 1 .. Len(cs[h]) : cs[g][x] < cs[h][y]
                BY DEF AllWithin
            <4>2. o \in 1 .. Len(cs) /\ m \in 1 .. Len(cs) /\ o < m
                BY <1>1, <3>1
            <4> QED
                BY <4>1, <4>2
        <3>3. i \in 1 .. Len(cs[o]) /\ j \in 1 .. Len(cs[m])
            BY <2>2, <3>1
        <3>4. cs[o][i] < cs[m][j]
            BY <3>2, <3>3
        <3> QED
            BY <2>2, <3>1, <3>4
    <2> QED
        BY <1>5, <2>3, <2>4
<1>10. AllWithin(line, lo, hi)
    <2>1. \A k \in 1 .. Len(line) : Within(line[k], lo, hi)
        BY <1>4, <1>8
    <2>2. \A k, l \in 1 .. Len(line) : k < l =>
            \A i \in 1 .. Len(line[k]), j \in 1 .. Len(line[l]) : line[k][i] < line[l][j]
        BY <1>4, <1>9
    <2>3. line \in Seq(Seq(Nat)) /\ lo <= hi
        BY <1>2, <1>4
    <2> QED
        BY <2>1, <2>2, <2>3 DEF AllWithin
<1> QED
    BY <1>3, <1>10

LEMMA LineRises ==
    ASSUME NEW e \in Nat, NEW line, AllWithin(line, 0, e), made \in Nat, e <= made
    PROVE  Session!InLine(line)
<1>1. line \in Seq(Seq(Nat)) /\ \A k \in 1 .. Len(line) : Within(line[k], 0, e)
    BY DEF AllWithin
<1>2. ASSUME NEW i \in 1 .. Len(line), NEW k \in 1 .. Len(line[i]) PROVE line[i][k] \in 1 .. made
    <2>1. line[i] \in Seq(Nat) /\ 0 < line[i][k] /\ line[i][k] <= e
        BY <1>1 DEF Within
    <2>2. line[i][k] \in Nat
        BY <2>1, ElementOfSeq
    <2> QED
        BY <2>1, <2>2
<1>3. ASSUME NEW i \in 1 .. Len(line), NEW j \in 1 .. Len(line),
             NEW k \in 1 .. Len(line[i]), NEW l \in 1 .. Len(line[j]),
             i < j \/ (i = j /\ k < l)
      PROVE  line[i][k] < line[j][l]
    <2>1. CASE i < j
        BY <2>1 DEF AllWithin
    <2>2. CASE i = j /\ k < l
        BY <1>1, <2>2 DEF Within
    <2> QED
        BY <1>3, <2>1, <2>2
<1> QED
    BY <1>2, <1>3 DEF Session!InLine

LEMMA LineInOrder == FrameInv /\ TextInv => PipelineInOrder
<1> SUFFICES ASSUME FrameInv, TextInv PROVE Session!PipelineInOrder
    BY DEF PipelineInOrder
<1>1. PICK e \in Nat : Transcribed(e) /\ Recorded(e)
    BY DEF FrameInv
<1>2. PICK b, c, d \in Nat :
        /\ Within(text, 0, b) /\ Within(buffer, 0, b) /\ AllWithin(chunks, b, c)
        /\ Within(voiced, c, d) /\ Within(frames, d, e)
    BY <1>1 DEF Transcribed
<1>3. e <= made /\ made \in Nat
    BY <1>1, FrameTypes DEF Recorded, Within
<1>4. PICK ahead : ahead = chunks \o <<voiced, frames>>
    OBVIOUS
<1>5. AllWithin(ahead, b, e)
    <2>1. AllWithin(Append(chunks, voiced), b, d)
        BY <1>2, ChunkAppended
    <2>2. AllWithin(Append(Append(chunks, voiced), frames), b, e)
        BY <1>2, <2>1, ChunkAppended
    <2>3. Append(Append(chunks, voiced), frames) = ahead
        BY <1>2, <1>4 DEF AllWithin, Within
    <2> QED
        BY <2>2, <2>3
<1>6. Session!InLine(<<buffer>> \o ahead)
    <2>1. AllWithin(<<buffer>> \o ahead, 0, e)
        BY <1>2, <1>5, LinePrepended
    <2> QED
        BY <1>3, <2>1, LineRises
<1>7. PICK rest : rest = SubSeq(buffer, said + 1, Len(buffer))
    OBVIOUS
<1>8. PICK len \in Nat, tl \in Nat : len = Len(buffer) /\ tl = Len(text)
    BY FrameTypes, LenProperties
<1>9. /\ said \in Nat /\ text \in Seq(Nat) /\ buffer \in Seq(Nat)
      /\ \A i \in 1 .. tl, j \in 1 .. len : said < j => text[i] < buffer[j]
    BY <1>8, FrameTypes DEF TextInv
<1>10. PICK rl \in Nat : /\ rest \in Seq(Nat) /\ Len(rest) = rl
                         /\ \A k \in 1 .. rl : rest[k] = buffer[said + k] /\ said + k \in 1 .. len
    <2>1. said \in Nat /\ buffer \in Seq(Nat) /\ len <= Len(buffer)
        BY <1>8, <1>9
    <2>2. PICK q \in Nat :
            /\ SubSeq(buffer, said + 1, len) \in Seq(Nat) /\ Len(SubSeq(buffer, said + 1, len)) = q
            /\ q = (IF said + 1 <= len THEN len - said ELSE 0)
            /\ \A k \in 1 .. q : /\ SubSeq(buffer, said + 1, len)[k] = buffer[said + k]
                               /\ said + k \in 1 .. Len(buffer) /\ said + k <= len
        BY <2>1, Segment
    <2> QED
        BY <1>7, <1>8, <2>2
<1>11. Within(text, 0, b) /\ \E m \in Nat : Within(text, 0, m) /\ Within(rest, m, b)
    <2>1. PICK m \in Nat : m = IF tl = 0 THEN 0 ELSE text[tl]
        BY <1>8, <1>9, ElementOfSeq
    <2>2. \A i \in 1 .. tl : text[i] \in Nat
        BY <1>8, <1>9, ElementOfSeq
    <2>3. m <= b /\ \A i \in 1 .. tl : text[i] <= m
        <3>1. CASE tl = 0
            BY <2>1, <3>1
        <3>2. CASE tl # 0
            <4>1. tl \in 1 .. tl /\ m = text[tl]
                BY <2>1, <3>2
            <4>2. text[tl] <= b /\ \A i \in 1 .. tl : i < tl => text[i] < text[tl]
                BY <1>2, <1>8, <4>1 DEF Within
            <4>3. \A i \in 1 .. tl : i < tl \/ i = tl
                OBVIOUS
            <4> QED
                BY <2>2, <4>1, <4>2, <4>3
        <3> QED
            BY <3>1, <3>2
    <2>4. Within(text, 0, m)
        BY <1>2, <1>8, <2>3 DEF Within
    <2>5. \A k \in 1 .. rl : m < rest[k] /\ rest[k] <= b
        <3>1. \A j \in 1 .. len : 0 < buffer[j] /\ buffer[j] <= b
            BY <1>2, <1>8 DEF Within
        <3>2. ASSUME NEW k \in 1 .. rl PROVE m < rest[k]
            <4>1. said < said + k /\ said + k \in 1 .. len /\ rest[k] = buffer[said + k]
                BY <1>9, <1>10
            <4>2. CASE tl = 0
                BY <2>1, <3>1, <4>1, <4>2
            <4>3. CASE tl # 0
                BY <1>9, <2>1, <4>1, <4>3
            <4> QED
                BY <4>2, <4>3
        <3> QED
            BY <1>10, <3>1, <3>2
    <2>6. ASSUME NEW i \in 1 .. rl, NEW j \in 1 .. rl, i < j PROVE rest[i] < rest[j]
        <3>1. said + i < said + j /\ said + i \in 1 .. len /\ said + j \in 1 .. len
            BY <1>9, <1>10, <2>6
        <3> QED
            BY <1>2, <1>8, <1>10, <3>1 DEF Within
    <2>7. Within(rest, m, b)
        BY <1>10, <2>3, <2>5, <2>6 DEF Within
    <2> QED
        BY <1>2, <2>4, <2>7
<1>12. Session!InLine(<<text, rest>> \o ahead)
    <2>1. PICK m \in Nat : Within(text, 0, m) /\ Within(rest, m, b)
        BY <1>11
    <2>2. AllWithin(<<rest>> \o ahead, m, e)
        BY <1>2, <1>5, <2>1, LinePrepended
    <2>3. AllWithin(<<text>> \o (<<rest>> \o ahead), 0, e)
        BY <2>1, <2>2, LinePrepended
    <2>4. <<text>> \o (<<rest>> \o ahead) = <<text, rest>> \o ahead
        <3>1. <<text>> \in Seq(Seq(Nat)) /\ <<rest>> \in Seq(Seq(Nat)) /\ ahead \in Seq(Seq(Nat))
            BY <1>5, <1>9, <1>10 DEF AllWithin
        <3>2. <<text>> \o <<rest>> = <<text, rest>>
            <4>1. PICK one, two : one = <<text>> \o <<rest>> /\ two = <<text, rest>>
                OBVIOUS
            <4>2. two \in Seq(Seq(Nat)) /\ Len(two) = 2 /\ two[1] = text /\ two[2] = rest
                BY <1>9, <1>10, <4>1
            <4>3. /\ one \in Seq(Seq(Nat)) /\ Len(one) = 1 + 1
                  /\ \A i \in 1 .. 1 + 1 : one[i] = IF i <= 1 THEN <<text>>[i] ELSE <<rest>>[i - 1]
                <5>1. Len(<<text>>) = 1 /\ Len(<<rest>>) = 1
                    OBVIOUS
                <5> QED
                    BY <3>1, <4>1, <5>1, ConcatProperties
            <4>4. Len(one) = 2 /\ one[1] = text /\ one[2] = rest
                BY <4>3
            <4>5. \A i \in 1 .. Len(one) : one[i] = two[i]
                BY <4>2, <4>4
            <4> QED
                BY <4>1, <4>2, <4>3, <4>4, <4>5, SeqEqual
        <3> QED
            BY <3>1, <3>2, ConcatAssociative
    <2> QED
        BY <1>3, <2>3, <2>4, LineRises
<1> QED
    BY <1>4, <1>6, <1>7, <1>12 DEF Session!PipelineInOrder

\* From the frame queue through the chunker, the chunk queue and the transcriber the
\* frames stay in the order they were heard, none is in two places, and the
\* transcript's lines reach each frame once, although a frame that stays in the
\* buffer after a line was stamped with it is transcribed again
\* (live_audio.py:173-235, vad_chunker.py:100-190, live_transcriber.py:114-226).
THEOREM PipelineStaysInOrder == Spec => []PipelineInOrder
BY FrameInvInit, FrameInvNext, TextInvInit, TextInvNext, LineInOrder, PTL DEF Spec

-----------------------------------------------------------------------------
(* Types *)

HelperTypes ==
    /\ hp \in {"none", "starting", "idle", "writing", "exited"}
    /\ code \in {"ok", "fail", "killed"}
    /\ started \in BOOLEAN /\ sig \in BOOLEAN /\ torn \in BOOLEAN

\* What both commands use.
SharedTypes ==
    /\ wavOpen \in BOOLEAN /\ err \in BOOLEAN /\ intr \in BOOLEAN
    /\ note \in {"none", "dir", "meta", "audio", "saved"}
    /\ outcome \in {"none", "ok", "error", "discarded", "interrupted"}

RecorderTypes ==
    /\ rpc \in {"idle", "entering", "failing", "opening", "recording", "exiting",
                "joining", "checking", "done"}
    /\ worker \in {"off", "run", "done"}
    /\ monitor \in {"off", "watching", "warned"}
    /\ flag \in BOOLEAN /\ paused \in BOOLEAN /\ discard \in BOOLEAN

SessionTypes ==
    /\ lpc \in {"idle", "entering", "failing", "wiring", "waiting", "mixer", "helper",
                "chunker", "scribe", "checking", "saving", "describing", "done"}
    /\ mixer \in {"off", "run", "drain", "flush", "done"} /\ late \in BOOLEAN
    /\ chunker \in {"off", "check", "get", "done"}
    /\ scribe \in {"off", "get", "chunk", "idle", "final", "done", "dead"}
    /\ stop \in BOOLEAN /\ debug \in BOOLEAN /\ overdue \in BOOLEAN /\ temp \in BOOLEAN

ControlTypes ==
    /\ about \in {"command", "mixer"} /\ live \in BOOLEAN
    /\ HelperTypes /\ SharedTypes /\ RecorderTypes /\ SessionTypes

LEMMA HelperTypesKept ==
    ASSUME HelperTypes,
           \/ HelperStep \/ Launch \/ Terminate
           \/ UNCHANGED <<hp, started, sig, code, torn>>
    PROVE  HelperTypes'
<1>1. CASE HelperStarts \/ WriteBegins \/ WriteEnds
    BY <1>1 DEF HelperTypes, HelperStarts, WriteBegins, WriteEnds
<1>2. ASSUME NEW c \in {"ok", "fail", "killed"}, ExitsWith(c) PROVE HelperTypes'
    <2>1. torn' \in BOOLEAN
        <3>1. torn' = (hp = "writing")
            BY <1>2 DEF ExitsWith
        <3> QED
            BY <3>1, Zenon
    <2> QED
        BY <1>2, <2>1 DEF HelperTypes, ExitsWith
<1>3. CASE Launch
    BY <1>3 DEF HelperTypes, Launch
<1>4. CASE Terminate
    <2>1. sig' \in BOOLEAN
        <3>1. sig' = (sig \/ Running)
            BY <1>4 DEF Terminate
        <3> QED
            BY <3>1, Zenon
    <2> QED
        BY <1>4, <2>1 DEF HelperTypes, Terminate
<1>5. CASE UNCHANGED <<hp, started, sig, code, torn>>
    BY <1>5 DEF HelperTypes
<1> QED
    BY <1>1, <1>2, <1>3, <1>4, <1>5 DEF HelperStep, HelperWorks, SignalStops, SignalEscalates, HelperFails

LEMMA RecorderTypesKept ==
    ASSUME HelperTypes, SharedTypes, RecorderTypes, Recorder!RecordNext
    PROVE  HelperTypes' /\ SharedTypes' /\ RecorderTypes'
<1>a. HelperTypes'
    <2>1. \/ HelperStep \/ Launch \/ Terminate
          \/ UNCHANGED <<hp, started, sig, code, torn>>
        <3>1. CASE Recorder!RecordStarts \/ Recorder!EnterFails \/ Recorder!OpenFails \/ Recorder!CtrlC
                   \/ Recorder!LoopEnds \/ Recorder!CleanupInterrupted \/ Recorder!OpenInterrupted
            BY <3>1, SameHelper DEF Recorder!RecordStarts, Recorder!EnterFails, Recorder!OpenFails,
               Recorder!CtrlC, Recorder!LoopEnds, Recorder!CleanupInterrupted,
               Recorder!OpenInterrupted, Recorder!Launch, Recorder!Terminate, Launch, Terminate
        <3>2. CASE Recorder!StopRequested \/ Recorder!KeyDiscards \/ Recorder!KeyPauses
                   \/ Recorder!MonitorWarns \/ Recorder!RecordEnters \/ Recorder!EnterFailed
                   \/ Recorder!RecordOpens \/ Recorder!HelperGone \/ Recorder!WorkerJoined
                   \/ Recorder!RecordReturns \/ Recorder!DescribeFails
            BY <3>2 DEF Recorder!StopRequested, Recorder!KeyDiscards, Recorder!KeyPauses,
               Recorder!MonitorWarns, Recorder!RecordEnters, Recorder!EnterFailed, Recorder!RecordOpens,
               Recorder!HelperGone, Recorder!WorkerJoined, Recorder!RecordReturns,
               Recorder!DescribeFails, Recorder!helperVars
        <3>3. CASE Recorder!WorkerWorks
            BY <3>3 DEF Recorder!WorkerWorks, Recorder!WorkerFrame, Recorder!WorkerBreaks,
               Recorder!WorkerSeesEnd, Recorder!ReadFrame, Recorder!helperVars
        <3>4. CASE Recorder!HelperAlone
            BY <3>4, SameHelper DEF Recorder!HelperAlone
        <3> QED
            BY <3>1, <3>2, <3>3, <3>4 DEF Recorder!RecordNext, Recorder!RecorderWorks
    <2> QED
        BY <2>1, HelperTypesKept
<1>b. SharedTypes' /\ RecorderTypes'
    <2> USE DEF SharedTypes, RecorderTypes, Recorder!soundVars, Recorder!recorderVars,
                Recorder!commandVars
    <2>1. CASE Recorder!RecordStarts \/ Recorder!EnterFails \/ Recorder!CtrlC \/ Recorder!LoopEnds
        <3>1. CASE Recorder!RecordStarts
            <4>1. SharedTypes'
                BY <3>1 DEF Recorder!RecordStarts
            <4>2. RecorderTypes'
                BY <3>1 DEF Recorder!RecordStarts
            <4> QED
                BY <4>1, <4>2
        <3>2. CASE Recorder!EnterFails
            <4>1. SharedTypes'
                BY <3>2 DEF Recorder!EnterFails
            <4>2. RecorderTypes'
                BY <3>2 DEF Recorder!EnterFails
            <4> QED
                BY <4>1, <4>2
        <3>3. CASE Recorder!CtrlC
            <4>1. SharedTypes'
                BY <3>3 DEF Recorder!CtrlC
            <4>2. RecorderTypes'
                BY <3>3 DEF Recorder!CtrlC
            <4> QED
                BY <4>1, <4>2
        <3>4. CASE Recorder!LoopEnds
            <4>1. SharedTypes'
                BY <3>4 DEF Recorder!LoopEnds
            <4>2. RecorderTypes'
                BY <3>4 DEF Recorder!LoopEnds
            <4> QED
                BY <4>1, <4>2
        <3> QED
            BY <2>1, <3>1, <3>2, <3>3, <3>4
    <2>2. CASE Recorder!OpenFails \/ Recorder!CleanupInterrupted \/ Recorder!EnterFailed
               \/ Recorder!OpenInterrupted \/ Recorder!DescribeFails
        <3>1. CASE Recorder!OpenFails
            <4>1. SharedTypes'
                BY <3>1 DEF Recorder!OpenFails, Recorder!Returns
            <4>2. RecorderTypes'
                BY <3>1 DEF Recorder!OpenFails, Recorder!Returns
            <4> QED
                BY <4>1, <4>2
        <3>2. CASE Recorder!CleanupInterrupted
            <4>1. SharedTypes'
                BY <3>2 DEF Recorder!CleanupInterrupted, Recorder!Returns
            <4>2. RecorderTypes'
                BY <3>2 DEF Recorder!CleanupInterrupted, Recorder!Returns
            <4> QED
                BY <4>1, <4>2
        <3>3. CASE Recorder!EnterFailed
            <4>1. SharedTypes'
                BY <3>3 DEF Recorder!EnterFailed, Recorder!Returns
            <4>2. RecorderTypes'
                BY <3>3 DEF Recorder!EnterFailed, Recorder!Returns
            <4> QED
                BY <4>1, <4>2
        <3>4. CASE Recorder!OpenInterrupted
            <4>1. SharedTypes'
                BY <3>4 DEF Recorder!OpenInterrupted, Recorder!Returns
            <4>2. RecorderTypes'
                BY <3>4 DEF Recorder!OpenInterrupted, Recorder!Returns
            <4> QED
                BY <4>1, <4>2
        <3>5. CASE Recorder!DescribeFails
            <4>1. SharedTypes'
                BY <3>5 DEF Recorder!DescribeFails, Recorder!Returns
            <4>2. RecorderTypes'
                BY <3>5 DEF Recorder!DescribeFails, Recorder!Returns
            <4> QED
                BY <4>1, <4>2
        <3> QED
            BY <2>2, <3>1, <3>2, <3>3, <3>4, <3>5
    <2>3. CASE Recorder!StopRequested \/ Recorder!KeyDiscards \/ Recorder!MonitorWarns
               \/ Recorder!RecordEnters
        <3>1. CASE Recorder!StopRequested
            <4>1. SharedTypes'
                BY <3>1 DEF Recorder!StopRequested
            <4>2. RecorderTypes'
                BY <3>1 DEF Recorder!StopRequested
            <4> QED
                BY <4>1, <4>2
        <3>2. CASE Recorder!KeyDiscards
            <4>1. SharedTypes'
                BY <3>2 DEF Recorder!KeyDiscards
            <4>2. RecorderTypes'
                BY <3>2 DEF Recorder!KeyDiscards
            <4> QED
                BY <4>1, <4>2
        <3>3. CASE Recorder!MonitorWarns
            <4>1. SharedTypes'
                BY <3>3 DEF Recorder!MonitorWarns
            <4>2. RecorderTypes'
                BY <3>3 DEF Recorder!MonitorWarns
            <4> QED
                BY <4>1, <4>2
        <3>4. CASE Recorder!RecordEnters
            <4>1. SharedTypes'
                BY <3>4 DEF Recorder!RecordEnters
            <4>2. RecorderTypes'
                BY <3>4 DEF Recorder!RecordEnters
            <4> QED
                BY <4>1, <4>2
        <3> QED
            BY <2>3, <3>1, <3>2, <3>3, <3>4
    <2>4. CASE Recorder!KeyPauses
        <3>1. paused' = ~paused
            BY <2>4 DEF Recorder!KeyPauses
        <3>2. paused' \in BOOLEAN
            BY <3>1, Zenon
        <3> QED
            BY <2>4, <3>2 DEF Recorder!KeyPauses
    <2>5. CASE Recorder!RecordOpens \/ Recorder!HelperGone \/ Recorder!WorkerJoined
               \/ Recorder!RecordReturns
        <3>1. CASE Recorder!RecordOpens
            <4>1. SharedTypes'
                BY <3>1 DEF Recorder!RecordOpens, Recorder!Returns
            <4>2. RecorderTypes'
                BY <3>1 DEF Recorder!RecordOpens, Recorder!Returns
            <4> QED
                BY <4>1, <4>2
        <3>2. CASE Recorder!HelperGone
            <4>1. SharedTypes'
                BY <3>2 DEF Recorder!HelperGone, Recorder!Returns
            <4>2. RecorderTypes'
                BY <3>2 DEF Recorder!HelperGone, Recorder!Returns
            <4> QED
                BY <4>1, <4>2
        <3>3. CASE Recorder!WorkerJoined
            <4>1. SharedTypes'
                BY <3>3 DEF Recorder!WorkerJoined, Recorder!Returns
            <4>2. RecorderTypes'
                BY <3>3 DEF Recorder!WorkerJoined, Recorder!Returns
            <4> QED
                BY <4>1, <4>2
        <3>4. CASE Recorder!RecordReturns
            <4>1. SharedTypes'
                BY <3>4 DEF Recorder!RecordReturns, Recorder!Returns
            <4>2. RecorderTypes'
                BY <3>4 DEF Recorder!RecordReturns, Recorder!Returns
            <4> QED
                BY <4>1, <4>2
        <3> QED
            BY <2>5, <3>1, <3>2, <3>3, <3>4
    <2>6. CASE Recorder!WorkerFrame
        <3>1. SharedTypes'
            BY <2>6 DEF Recorder!WorkerFrame, Recorder!Drain
        <3>2. RecorderTypes'
            BY <2>6 DEF Recorder!WorkerFrame, Recorder!Drain
        <3> QED
            BY <3>1, <3>2
    <2>7. ASSUME NEW broken, Recorder!FlushesOrCrashes(broken),
                 UNCHANGED <<rpc, paused, discard, monitor, intr, note, outcome>>
          PROVE  SharedTypes' /\ RecorderTypes'
        <3>1. err' \in BOOLEAN
            <4>1. PICK crash : err' = (err \/ crash \/ (Recorder!EndOfStream /\ flag))
                BY <2>7 DEF Recorder!FlushesOrCrashes
            <4> QED
                BY <4>1, Zenon
        <3>2. UNCHANGED wavOpen /\ worker' = "done" /\ flag' = FALSE
            BY <2>7 DEF Recorder!FlushesOrCrashes, Recorder!Flush, Recorder!Drain
        <3>3. SharedTypes'
            BY <2>7, <3>1, <3>2
        <3>4. RecorderTypes'
            BY <2>7, <3>2
        <3> QED
            BY <3>3, <3>4
    <2>8. CASE Recorder!WorkerBreaks \/ Recorder!WorkerSeesEnd
        <3>1. CASE Recorder!WorkerBreaks
            <4>1. SharedTypes'
                BY <2>7, <3>1 DEF Recorder!WorkerBreaks
            <4>2. RecorderTypes'
                BY <2>7, <3>1 DEF Recorder!WorkerBreaks
            <4> QED
                BY <4>1, <4>2
        <3>2. CASE Recorder!WorkerSeesEnd
            <4>1. SharedTypes'
                BY <2>7, <3>2 DEF Recorder!WorkerSeesEnd
            <4>2. RecorderTypes'
                BY <2>7, <3>2 DEF Recorder!WorkerSeesEnd
            <4> QED
                BY <4>1, <4>2
        <3> QED
            BY <2>8, <3>1, <3>2
    <2>9. CASE Recorder!HelperAlone
        <3>1. SharedTypes'
            BY <2>9 DEF Recorder!HelperAlone
        <3>2. RecorderTypes'
            BY <2>9 DEF Recorder!HelperAlone
        <3> QED
            BY <3>1, <3>2
    <2> QED
        BY <2>1, <2>2, <2>3, <2>4, <2>5, <2>6, <2>8, <2>9
            DEF Recorder!RecordNext, Recorder!RecorderWorks, Recorder!WorkerWorks
<1> QED
    BY <1>a, <1>b

LEMMA SessionTypesKept ==
    ASSUME HelperTypes, SharedTypes, SessionTypes, Session!LiveNext
    PROVE  HelperTypes' /\ SharedTypes' /\ SessionTypes'
<1>a. HelperTypes'
    <2>1. \/ HelperStep \/ Launch \/ Terminate
          \/ UNCHANGED <<hp, started, sig, code, torn>>
        <3> USE DEF Session!helperVars
        <3>1. CASE Session!SessionStarts \/ Session!StreamFails \/ Session!WiringFails \/ Session!CtrlC
                   \/ Session!WaitEnds \/ Session!StopInterrupted
            BY <3>1, SameHelper DEF Session!SessionStarts, Session!StreamFails, Session!WiringFails,
               Session!CtrlC, Session!WaitEnds, Session!StopInterrupted, Session!Launch,
               Session!Terminate, Launch, Terminate
        <3>2. CASE Session!StreamStarts \/ Session!StreamFailed \/ Session!ThreadsStart
                   \/ Session!MixerJoined \/ Session!StreamStopped \/ Session!ChunkerJoined
                   \/ Session!ScribeJoined \/ Session!ChecksCapture \/ Session!MovesAudio
                   \/ Session!SaveSucceeds \/ Session!DurationReached \/ Session!SaveFails
            BY <3>2 DEF Session!StreamStarts, Session!StreamFailed, Session!ThreadsStart,
               Session!MixerJoined, Session!StreamStopped, Session!ChunkerJoined,
               Session!ScribeJoined, Session!Joined, Session!ChecksCapture, Session!MovesAudio,
               Session!SaveSucceeds, Session!DurationReached, Session!SaveFails
        <3>3. CASE Session!MixerWorks
            BY <3>3 DEF Session!MixerWorks, Session!MixerFrame, Session!MixerPublishes,
               Session!MixerWaits, Session!MixerBreaks, Session!MixerSeesEnd, Session!MixerCrashes,
               Session!MixerEnds, Session!ReadFrame
        <3>4. CASE Session!ChunkerStep \/ Session!ScribeWorks \/ Session!WhisperRaises
            BY <3>4 DEF Session!ChunkerStep, Session!ChunkerContinues, Session!ChunkerTimesOut,
               Session!ChunkerFrame, Session!ChunkerStops, Session!ScribeWorks, Session!TakesChunk,
               Session!FindsNothing, Session!WhisperReturns, Session!WhisperRaises
        <3>5. CASE Session!HelperAlone
            BY <3>5, SameHelper DEF Session!HelperAlone
        <3> QED
            BY <3>1, <3>2, <3>3, <3>4, <3>5 DEF Session!LiveNext, Session!SessionWorks
    <2> QED
        BY <2>1, HelperTypesKept
<1>b. SharedTypes' /\ SessionTypes'
    <2> USE DEF SharedTypes, SessionTypes, Session!soundVars, Session!mainVars, Session!chunkerVars,
                Session!scribeVars, Session!commandVars
    <2>1. CASE Session!SessionStarts \/ Session!StreamFails \/ Session!WiringFails \/ Session!WaitEnds
               \/ Session!StopInterrupted
        <3>1. CASE Session!SessionStarts
            <4>1. SharedTypes'
                BY <3>1 DEF Session!SessionStarts, Session!Returns
            <4>2. SessionTypes'
                BY <3>1 DEF Session!SessionStarts, Session!Returns
            <4> QED
                BY <4>1, <4>2
        <3>2. CASE Session!StreamFails
            <4>1. SharedTypes'
                BY <3>2 DEF Session!StreamFails, Session!Returns
            <4>2. SessionTypes'
                BY <3>2 DEF Session!StreamFails, Session!Returns
            <4> QED
                BY <4>1, <4>2
        <3>3. CASE Session!WiringFails
            <4>1. SharedTypes'
                BY <3>3 DEF Session!WiringFails, Session!Returns
            <4>2. SessionTypes'
                BY <3>3 DEF Session!WiringFails, Session!Returns
            <4> QED
                BY <4>1, <4>2
        <3>4. CASE Session!WaitEnds
            <4>1. SharedTypes'
                BY <3>4 DEF Session!WaitEnds, Session!Returns
            <4>2. SessionTypes'
                BY <3>4 DEF Session!WaitEnds, Session!Returns
            <4> QED
                BY <4>1, <4>2
        <3>5. CASE Session!StopInterrupted
            <4>1. SharedTypes'
                BY <3>5 DEF Session!StopInterrupted, Session!Returns
            <4>2. SessionTypes'
                BY <3>5 DEF Session!StopInterrupted, Session!Returns
            <4> QED
                BY <4>1, <4>2
        <3> QED
            BY <2>1, <3>1, <3>2, <3>3, <3>4, <3>5
    <2>2. CASE Session!CtrlC \/ Session!DurationReached
        <3>1. CASE Session!CtrlC
            <4>1. SharedTypes'
                BY <3>1 DEF Session!CtrlC, Session!liveVars
            <4>2. SessionTypes'
                BY <3>1 DEF Session!CtrlC, Session!liveVars
            <4> QED
                BY <4>1, <4>2
        <3>2. CASE Session!DurationReached
            <4>1. SharedTypes'
                BY <3>2 DEF Session!DurationReached
            <4>2. SessionTypes'
                BY <3>2 DEF Session!DurationReached
            <4> QED
                BY <4>1, <4>2
        <3> QED
            BY <2>2, <3>1, <3>2
    <2>3. CASE Session!StreamStarts \/ Session!StreamFailed \/ Session!ThreadsStart
        <3>1. CASE Session!StreamStarts
            <4>1. SharedTypes'
                BY <3>1 DEF Session!StreamStarts, Session!Returns
            <4>2. SessionTypes'
                BY <3>1 DEF Session!StreamStarts, Session!Returns
            <4> QED
                BY <4>1, <4>2
        <3>2. CASE Session!StreamFailed
            <4>1. SharedTypes'
                BY <3>2 DEF Session!StreamFailed, Session!Returns
            <4>2. SessionTypes'
                BY <3>2 DEF Session!StreamFailed, Session!Returns
            <4> QED
                BY <4>1, <4>2
        <3>3. CASE Session!ThreadsStart
            <4>1. SharedTypes'
                BY <3>3 DEF Session!ThreadsStart, Session!Returns
            <4>2. SessionTypes'
                BY <3>3 DEF Session!ThreadsStart, Session!Returns
            <4> QED
                BY <4>1, <4>2
        <3> QED
            BY <2>3, <3>1, <3>2, <3>3
    <2>4. CASE Session!MixerJoined \/ Session!StreamStopped \/ Session!ChunkerJoined
               \/ Session!ScribeJoined
        <3>1. /\ lpc' \in {"helper", "chunker", "scribe", "checking"}
              /\ UNCHANGED wavOpen \/ wavOpen' = FALSE
              /\ UNCHANGED late \/ late' = (mixer # "done")
              /\ UNCHANGED <<stop, debug, mixer, chunker, scribe, overdue, temp, err, intr, note, outcome>>
            BY <2>4 DEF Session!MixerJoined, Session!StreamStopped, Session!ChunkerJoined,
               Session!ScribeJoined, Session!Joined
        <3>2. wavOpen \in BOOLEAN /\ late \in BOOLEAN
            OBVIOUS
        <3>3. wavOpen' \in BOOLEAN
            <4>1. CASE UNCHANGED wavOpen
                BY <3>2, <4>1, Zenon
            <4>2. CASE wavOpen' = FALSE
                BY <4>2, Zenon
            <4> QED
                BY <3>1, <4>1, <4>2
        <3>4. late' \in BOOLEAN
            <4>1. CASE UNCHANGED late
                BY <3>2, <4>1, Zenon
            <4>2. CASE late' = (mixer # "done")
                BY <4>2, Zenon
            <4> QED
                BY <3>1, <4>1, <4>2
        <3>5. SharedTypes'
            BY <3>1, <3>3
        <3>6. SessionTypes'
            BY <3>1, <3>4
        <3> QED
            BY <3>5, <3>6
    <2>5. CASE Session!ChecksCapture \/ Session!MovesAudio \/ Session!SaveSucceeds \/ Session!SaveFails
        <3>1. CASE Session!ChecksCapture
            <4>1. SharedTypes'
                BY <3>1 DEF Session!ChecksCapture, Session!Returns
            <4>2. SessionTypes'
                <5>1. temp' = FALSE \/ temp' = temp
                    BY <3>1 DEF Session!ChecksCapture
                <5>2. temp' \in BOOLEAN
                    BY <5>1, Zenon DEF SessionTypes
                <5>3. /\ lpc' \in {"saving", "done"}
                      /\ UNCHANGED <<stop, debug, late, mixer, chunker, scribe, overdue>>
                    BY <3>1 DEF Session!ChecksCapture, Session!Returns
                <5> QED
                    BY <5>2, <5>3
            <4> QED
                BY <4>1, <4>2
        <3>2. CASE Session!SaveSucceeds
            <4>1. SharedTypes'
                BY <3>2 DEF Session!SaveSucceeds, Session!Returns
            <4>2. SessionTypes'
                BY <3>2 DEF Session!SaveSucceeds, Session!Returns
            <4> QED
                BY <4>1, <4>2
        <3>3. CASE Session!SaveFails
            <4>1. SharedTypes'
                BY <3>3 DEF Session!SaveFails, Session!Returns
            <4>2. SessionTypes'
                BY <3>3 DEF Session!SaveFails, Session!Returns
            <4> QED
                BY <4>1, <4>2
        <3>4. CASE Session!MovesAudio
            <4>1. SharedTypes'
                BY <3>4 DEF Session!MovesAudio
            <4>2. SessionTypes'
                BY <3>4 DEF Session!MovesAudio
            <4> QED
                BY <4>1, <4>2
        <3> QED
            BY <2>5, <3>1, <3>2, <3>3, <3>4
    <2>6. CASE Session!MixerFrame \/ Session!MixerPublishes \/ Session!MixerWaits
               \/ Session!MixerBreaks \/ Session!MixerSeesEnd
        <3>1. /\ UNCHANGED <<wavOpen, lpc, debug, late, stop, chunker, scribe, overdue, temp>>
              /\ UNCHANGED <<err, intr, note, outcome>>
              /\ mixer' \in {"drain", "run", "flush"} \/ UNCHANGED mixer
            BY <2>6 DEF Session!MixerFrame, Session!MixerPublishes, Session!MixerWaits,
               Session!MixerBreaks, Session!MixerSeesEnd, Session!Drain
        <3>2. SharedTypes'
            BY <3>1
        <3>3. SessionTypes'
            BY <3>1
        <3> QED
            BY <3>2, <3>3
    <2>7. CASE Session!MixerCrashes \/ Session!MixerEnds
        <3>1. /\ UNCHANGED <<wavOpen, lpc, debug, late, chunker, scribe, overdue, temp>>
              /\ UNCHANGED <<intr, note, outcome>> /\ mixer' = "done" /\ stop' = TRUE
              /\ err' = TRUE \/ err' = (err \/ ~stop)
            BY <2>7 DEF Session!MixerCrashes, Session!MixerEnds
        <3>2. err' \in BOOLEAN
            <4>1. CASE err' = TRUE
                BY <4>1, Zenon
            <4>2. CASE err' = (err \/ ~stop)
                BY <4>2, Zenon
            <4> QED
                BY <3>1, <4>1, <4>2
        <3>3. SharedTypes'
            BY <3>1, <3>2
        <3>4. SessionTypes'
            BY <3>1
        <3> QED
            BY <3>3, <3>4
    <2>8. CASE Session!ChunkerStep
        <3>1. SharedTypes'
            BY <2>8 DEF Session!ChunkerStep, Session!ChunkerContinues, Session!ChunkerTimesOut,
               Session!ChunkerFrame, Session!ChunkerStops
        <3>2. SessionTypes'
            BY <2>8 DEF Session!ChunkerStep, Session!ChunkerContinues, Session!ChunkerTimesOut,
               Session!ChunkerFrame, Session!ChunkerStops
        <3> QED
            BY <3>1, <3>2
    <2>9. CASE Session!TakesChunk
        <3>1. PICK due \in BOOLEAN : /\ overdue' = (overdue \/ due)
                                     /\ scribe' = IF overdue' THEN "chunk" ELSE "get"
            BY <2>9 DEF Session!TakesChunk
        <3>2. overdue' \in BOOLEAN
            BY <3>1, Zenon
        <3>3. scribe' \in {"chunk", "get"}
            BY <3>1
        <3> QED
            BY <2>9, <3>2, <3>3 DEF Session!TakesChunk
    <2>10. CASE Session!FindsNothing \/ Session!WhisperReturns \/ Session!WhisperRaises
        <3>1. /\ scribe' \in {"idle", "final", "done", "get", "dead"}
              /\ UNCHANGED overdue \/ overdue' = FALSE
            BY <2>10 DEF Session!FindsNothing, Session!WhisperReturns, Session!WhisperRaises,
               Session!AfterPass, Session!AfterError
        <3>2. /\ UNCHANGED <<wavOpen, stop, debug, late, mixer, chunker, lpc, temp>>
              /\ UNCHANGED <<err, intr, note, outcome>>
            BY <2>10 DEF Session!FindsNothing, Session!WhisperReturns, Session!WhisperRaises
        <3>0. overdue \in BOOLEAN
            OBVIOUS
        <3>3. overdue' \in BOOLEAN
            <4>1. CASE UNCHANGED overdue
                BY <3>0, <4>1, Zenon
            <4>2. CASE overdue' = FALSE
                BY <4>2, Zenon
            <4> QED
                BY <3>1, <4>1, <4>2
        <3> QED
            BY <3>1, <3>2, <3>3
    <2>11. CASE Session!HelperAlone
        <3>1. SharedTypes'
            BY <2>11 DEF Session!HelperAlone, Session!liveVars
        <3>2. SessionTypes'
            BY <2>11 DEF Session!HelperAlone, Session!liveVars
        <3> QED
            BY <3>1, <3>2
    <2> QED
        BY <2>1, <2>2, <2>3, <2>4, <2>5, <2>6, <2>7, <2>8, <2>9, <2>10, <2>11
            DEF Session!LiveNext, Session!SessionWorks, Session!MixerWorks, Session!ScribeWorks
<1> QED
    BY <1>a, <1>b

LEMMA ControlTypesInit == Init => ControlTypes
BY DEF Init, HelperInit, SoundInit, Recorder!RecorderInit, Recorder!CommandInit, Session!LiveInit,
       ControlTypes, HelperTypes, SharedTypes, RecorderTypes, SessionTypes

LEMMA ControlTypesNext == ControlTypes /\ [Next]_vars => ControlTypes'
<1> SUFFICES ASSUME ControlTypes, [Next]_vars PROVE ControlTypes'
    OBVIOUS
<1>1. CASE Plain(Recorder!RecordNext)
    <2>1. HelperTypes' /\ SharedTypes' /\ RecorderTypes'
        BY <1>1, RecorderTypesKept DEF ControlTypes, Plain
    <2>2. UNCHANGED <<about, live, liveVars>>
        BY <1>1 DEF Plain
    <2> QED
        BY <2>1, <2>2 DEF ControlTypes, SessionTypes, liveVars
<1>2. CASE Live(Session!LiveNext)
    <2>1. HelperTypes' /\ SharedTypes' /\ SessionTypes'
        BY <1>2, SessionTypesKept DEF ControlTypes, Live
    <2>2. UNCHANGED <<about, live, recorderVars>>
        BY <1>2 DEF Live
    <2> QED
        BY <2>1, <2>2 DEF ControlTypes, RecorderTypes, recorderVars
<1>3. CASE Mixes(MixerNext) \/ UNCHANGED vars
    BY <1>3 DEF Mixes, vars, commandVars, helperVars, soundVars, recorderVars, liveVars,
       ControlTypes, HelperTypes, SharedTypes, RecorderTypes, SessionTypes
<1> QED
    BY <1>1, <1>2, <1>3 DEF Next

-----------------------------------------------------------------------------
(* Every type *)

LEMMA InRange ==
    ASSUME NEW m \in Nat, NEW s \in Seq(Nat), \A i \in 1 .. Len(s) : 1 <= s[i] /\ s[i] <= m
    PROVE  s \in Seq(1 .. m)
<1>1. Len(s) \in Nat /\ s \in [1 .. Len(s) -> Nat]
    BY LenProperties
<1>2. \A i \in 1 .. Len(s) : s[i] \in 1 .. m
    BY <1>1
<1>3. PICK T : T = 1 .. m
    OBVIOUS
<1>4. s \in [1 .. Len(s) -> T]
    BY <1>1, <1>2, <1>3
<1>5. s \in Seq(T)
    <2>1. Len(s) \in Nat
        BY <1>1
    <2>2. PICK n : n = Len(s)
        OBVIOUS
    <2>3. n \in Nat /\ s \in [1 .. n -> T]
        BY <1>4, <2>1, <2>2
    <2>4. [1 .. n -> T] \in {[1 .. k -> T] : k \in Nat}
        BY <2>3
    <2>5. s \in UNION {[1 .. k -> T] : k \in Nat}
        BY <2>3, <2>4
    <2>6. Seq(T) = UNION {[1 .. k -> T] : k \in Nat}
        BY SeqDef
    <2> QED
        BY <2>5, <2>6
<1> QED
    BY <1>3, <1>5

LEMMA WithinRange ==
    ASSUME NEW m \in Nat, NEW lo \in Nat, NEW hi \in Nat, hi <= m, NEW s, Within(s, lo, hi)
    PROVE  s \in Seq(1 .. m)
<1>1. s \in Seq(Nat) /\ \A i \in 1 .. Len(s) : s[i] \in Nat
    BY ElementOfSeq DEF Within
<1>2. \A i \in 1 .. Len(s) : 1 <= s[i] /\ s[i] <= m
    BY <1>1 DEF Within
<1> QED
    BY <1>1, <1>2, InRange

LEMMA LineTypes ==
    ASSUME FrameInv
    PROVE  /\ \A s \in {pipe, held, wav, frames, voiced, buffer, text} : s \in Seq(1 .. MaxFrames)
           /\ chunks \in Seq(Seq(1 .. MaxFrames))
           /\ lostF \in 0 .. MaxFrames /\ lostC \in 0 .. MaxFrames
<1>0. MaxFrames \in Nat /\ made \in Nat /\ made <= MaxFrames
    BY FrameTypes DEF FrameInv
<1>1. PICK e \in Nat : Transcribed(e) /\ Recorded(e)
    BY DEF FrameInv
<1>2. PICK b, c, d \in Nat :
        /\ Within(text, 0, b) /\ Within(buffer, 0, b) /\ AllWithin(chunks, b, c)
        /\ Within(voiced, c, d) /\ Within(frames, d, e)
    BY <1>1 DEF Transcribed
<1>3. PICK g \in Nat : Within(wav, 0, e) /\ Within(held, e, g) /\ Within(pipe, g, made)
    BY <1>1 DEF Recorded
<1>4. b <= c /\ c <= d /\ d <= e /\ e <= g /\ g <= made
    BY <1>2, <1>3 DEF Within, AllWithin
<1>5. /\ b <= MaxFrames /\ c <= MaxFrames /\ d <= MaxFrames /\ e <= MaxFrames
      /\ g <= MaxFrames
    BY <1>0, <1>4
<1>6. /\ text \in Seq(1 .. MaxFrames) /\ buffer \in Seq(1 .. MaxFrames)
      /\ voiced \in Seq(1 .. MaxFrames) /\ frames \in Seq(1 .. MaxFrames)
    BY <1>0, <1>2, <1>5, WithinRange
<1>7. wav \in Seq(1 .. MaxFrames) /\ held \in Seq(1 .. MaxFrames) /\ pipe \in Seq(1 .. MaxFrames)
    BY <1>0, <1>3, <1>5, WithinRange
<1>8. chunks \in Seq(Seq(1 .. MaxFrames))
    <2>1. Len(chunks) \in Nat /\ chunks \in [1 .. Len(chunks) -> Seq(Nat)]
        BY <1>2, LenProperties DEF AllWithin
    <2>2. \A k \in 1 .. Len(chunks) : Within(chunks[k], b, c)
        BY <1>2 DEF AllWithin
    <2>3. \A k \in 1 .. Len(chunks) : chunks[k] \in Seq(1 .. MaxFrames)
        BY <1>0, <1>5, <2>2, WithinRange
    <2>4. chunks \in [1 .. Len(chunks) -> Seq(1 .. MaxFrames)]
        BY <2>1, <2>3
    <2> QED
        BY <2>1, <2>4, SeqDef
<1>9. lostF \in 0 .. MaxFrames /\ lostC \in 0 .. MaxFrames
    <2>1. /\ lostF \in Nat /\ lostC \in Nat /\ Len(voiced) \in Nat /\ Len(frames) \in Nat
          /\ Len(held) \in Nat /\ Len(pipe) \in Nat
        BY FrameTypes DEF FrameInv
    <2>2. lostF + lostC + Len(voiced) + Len(frames) + Len(held) + Len(pipe) <= made
        BY DEF FrameInv
    <2>3. lostF <= made /\ lostC <= made
        BY <1>0, <2>1, <2>2
    <2> QED
        BY <1>0, <2>1, <2>3
<1> QED
    BY <1>6, <1>7, <1>8, <1>9

LEMMA AllTypes ==
    ASSUME ControlTypes, FrameInv, TextInv, MixerInv, MixerBounds
    PROVE  TypeOK
<1>0. made \in 0 .. MaxFrames /\ Len(pipe) <= PipeSize /\ Len(frames) <= FrameRoom /\ Len(chunks) <= ChunkRoom
    BY DEF FrameInv
<1>1. HelperTypeOK
    <2>1. {started, sig, torn, wavOpen} \subseteq BOOLEAN
        BY Zenon DEF ControlTypes, HelperTypes, SharedTypes
    <2> QED
        BY <1>0, <2>1, LineTypes DEF HelperTypeOK, ControlTypes, HelperTypes
<1>2. Recorder!RecordTypeOK
    <2>1. {flag, paused, discard, err, intr} \subseteq BOOLEAN
        BY Zenon DEF ControlTypes, RecorderTypes, SharedTypes
    <2> QED
        BY <2>1 DEF Recorder!RecordTypeOK, ControlTypes, RecorderTypes, SharedTypes
<1>3. Session!LiveTypeOK
    <2>1. {stop, debug, late, overdue, temp, err, intr} \subseteq BOOLEAN
        BY Zenon DEF ControlTypes, SessionTypes, SharedTypes
    <2>2. said \in Nat
        BY DEF TextInv
    <2> QED
        BY <1>0, <2>1, <2>2, LineTypes DEF Session!LiveTypeOK, ControlTypes, SessionTypes
<1>4. MixerTypeOK
    BY BoundsTypes
<1> QED
    BY <1>1, <1>2, <1>3, <1>4 DEF TypeOK, ControlTypes

\* The commands, the threads, the pipe, the queues and the mixer's buffers stay
\* within what the code gives them (audio_recorder.py, live_session.py).
THEOREM RecordTypes == Spec => []TypeOK
<1>1. Init => MixerInv /\ MixerBounds
    BY MixerInvInit, BoundsInit DEF Init
<1>2. MixerInv /\ MixerBounds /\ [Next]_vars => MixerInv' /\ MixerBounds'
    <2>1. [Next]_vars => [MixerNext]_mixerVars
        BY DEF Next, Plain, Live, Mixes, vars, mixerVars
    <2> QED
        BY <2>1, MixerInvNext, BoundsNext
<1> QED
    BY <1>1, <1>2, ControlTypesInit, ControlTypesNext, FrameInvInit, FrameInvNext, TextInvInit,
       TextInvNext, AllTypes, PTL DEF Spec

-----------------------------------------------------------------------------
(* How the commands end *)

\* The plain command: what it leaves behind is settled before it checks it.
PlainInv ==
    /\ live => rpc = "idle"
    /\ ~live /\ rpc # "done" => outcome \in {"none", "error"}
    /\ ~live /\ rpc \in {"idle", "entering", "failing"} => ~wavOpen
    /\ rpc \in {"joining", "checking"} => hp = "exited"
    /\ rpc = "checking" => ~flag /\ ~wavOpen
    /\ rpc \in {"idle", "entering", "failing", "opening"} => worker = "off" /\ (live \/ outcome = "none")
    /\ ~live /\ worker = "off" => wav = <<>>
    /\ worker # "off" /\ rpc # "done" => note # "none" /\ outcome = "none"
    /\ rpc = "done" =>
        /\ outcome \in {"ok", "error", "discarded"} => hp = "exited" /\ ~flag /\ ~wavOpen
        /\ outcome = "ok" => note = "saved" /\ wav # <<>> /\ ~err
        /\ outcome \in {"error", "discarded"} => note = "none" \/ (wav # <<>> /\ ~err)
        /\ wav # <<>> /\ note = "none" => err \/ outcome = "discarded"

\* The frames of s are those from n + 1 on.
From(s, n) == \A i \in 1 .. Len(s) : s[i] = n + i

\* While the file can be written, nothing that was sent is missing in file, mixer
\* and pipe; at most the frame at which the mixer noticed the stop once it flushes.
Whole ==
    /\ From(held, Len(wav)) /\ From(pipe, Len(wav) + Len(held))
    /\ made = Len(wav) + Len(held) + Len(pipe)

AlmostWhole == From(held, Len(wav)) /\ made <= Len(wav) + Len(held) + Len(pipe) + 1

Writable == wavOpen \/ lpc = "idle"

\* A mixer that ended well and in time has written what it held.
EndedWell == mixer = "done" /\ ~err /\ ~late /\ (lpc # "done" \/ outcome = "ok")

LiveFile ==
    live =>
        /\ From(wav, 0)
        /\ Writable /\ mixer \in {"off", "run", "drain"} => Whole
        /\ Writable /\ mixer = "flush" => AlmostWhole
        /\ EndedWell => held = <<>> /\ made <= Len(wav) + Len(pipe) + 1

Stopped == {"chunker", "scribe", "checking", "saving", "describing"}

\* The file is closed under the mixer only when it was not joined in time.
LiveMixer ==
    /\ lpc = "entering" => wavOpen
    /\ lpc \in {"idle", "entering", "failing"} => mixer = "off"
    /\ lpc \in {"idle", "entering", "failing", "wiring", "waiting", "mixer"} => ~late
    /\ live /\ mixer = "off" => wav = <<>>
    /\ mixer \in {"run", "drain", "flush"} => wavOpen \/ late
    /\ lpc \in Stopped \cup {"helper"} => mixer = "done" \/ late
    /\ lpc \in Stopped => ~wavOpen
    /\ lpc \in {"saving", "describing"} => late \/ ~err

\* It leaves a note or the temporary file.
LiveResult ==
    /\ ~live => lpc = "idle"
    /\ live /\ lpc # "done" =>
        /\ outcome = "none"
        /\ note = IF lpc = "saving" THEN "dir" ELSE IF lpc = "describing" THEN "audio" ELSE "none"
        /\ lpc \notin {"idle", "describing"} => temp
        /\ lpc = "describing" => ~temp
    /\ lpc = "done" =>
        /\ outcome # "none"
        /\ outcome = "ok" =>
            note = "saved" /\ ~temp /\ ~wavOpen /\ (late \/ (mixer = "done" /\ ~err))
        /\ outcome # "ok" =>
            /\ wav # <<>> => temp \/ note = "audio" \/ (err /\ note = "none")
            /\ note \in {"none", "audio"} \/ temp

LEMMA FromJoin ==
    ASSUME NEW n \in Nat, NEW s \in Seq(Nat), NEW t \in Seq(Nat), From(s, n), From(t, n + Len(s))
    PROVE  From(s \o t, n) /\ Len(s \o t) = Len(s) + Len(t)
<1>1. Len(s) \in Nat /\ Len(t) \in Nat
    BY LenProperties
<1>2. /\ Len(s \o t) = Len(s) + Len(t)
      /\ \A i \in 1 .. Len(s) + Len(t) : (s \o t)[i] = IF i <= Len(s) THEN s[i] ELSE t[i - Len(s)]
    BY ConcatProperties
<1>3. ASSUME NEW i \in 1 .. Len(s) + Len(t) PROVE (s \o t)[i] = n + i
    <2>1. CASE i <= Len(s)
        <3>1. i \in 1 .. Len(s)
            BY <1>1, <2>1
        <3> QED
            BY <1>2, <2>1, <3>1 DEF From
    <2>2. CASE ~(i <= Len(s))
        <3>1. i - Len(s) \in 1 .. Len(t)
            BY <1>1, <2>2
        <3>2. t[i - Len(s)] = (n + Len(s)) + (i - Len(s))
            BY <3>1 DEF From
        <3> QED
            BY <1>1, <1>2, <2>2, <3>2
    <2> QED
        BY <2>1, <2>2
<1> QED
    BY <1>2, <1>3 DEF From

LEMMA FromSplit ==
    ASSUME NEW n \in Nat, NEW s \in Seq(Nat), From(s, n), NEW k \in 0 .. Len(s)
    PROVE  /\ SubSeq(s, 1, k) \in Seq(Nat) /\ SubSeq(s, k + 1, Len(s)) \in Seq(Nat)
           /\ From(SubSeq(s, 1, k), n) /\ From(SubSeq(s, k + 1, Len(s)), n + k)
           /\ Len(SubSeq(s, 1, k)) = k /\ Len(SubSeq(s, k + 1, Len(s))) = Len(s) - k
<1>1. Len(s) \in Nat /\ k \in Nat /\ k <= Len(s) /\ \A i \in 1 .. Len(s) : s[i] \in Nat
    BY ElementOfSeq, LenProperties
<1> DEFINE p == SubSeq(s, 1, k)
           q == SubSeq(s, k + 1, Len(s))
<1>2. p \in Seq(Nat) /\ Len(p) = k /\ \A i \in 1 .. k : p[i] = s[i]
    BY <1>1, SubSeqProperties
<1>3. q \in Seq(Nat) /\ Len(q) = Len(s) - k /\ \A i \in 1 .. Len(s) - k : q[i] = s[k + i]
    BY <1>1, SubSeqProperties
<1> HIDE DEF p, q
<1>4. From(p, n)
    <2>1. \A i \in 1 .. k : i \in 1 .. Len(s)
        BY <1>1
    <2>2. \A i \in 1 .. k : p[i] = n + i
        BY <1>2, <2>1 DEF From
    <2> QED
        BY <1>2, <2>2 DEF From
<1>5. From(q, n + k)
    <2>1. ASSUME NEW i \in 1 .. Len(s) - k PROVE q[i] = (n + k) + i
        <3>1. k + i \in 1 .. Len(s)
            BY <1>1
        <3>2. s[k + i] = n + (k + i)
            BY <3>1 DEF From
        <3> QED
            BY <1>1, <1>3, <3>2
    <2> QED
        BY <1>3, <2>1 DEF From
<1> QED
    BY <1>2, <1>3, <1>4, <1>5 DEF p, q

LEMMA FromHead ==
    ASSUME NEW n \in Nat, NEW s \in Seq(Nat), From(s, n), s # <<>>
    PROVE  /\ Head(s) = n + 1 /\ From(Tail(s), n + 1)
           /\ Tail(s) \in Seq(Nat) /\ Len(Tail(s)) = Len(s) - 1 /\ Len(s) \in Nat \ {0}
<1>1. Len(s) \in Nat \ {0}
    BY EmptySeq
<1>2. Head(s) = s[1] /\ 1 \in 1 .. Len(s)
    BY <1>1
<1>3. /\ Tail(s) \in Seq(Nat) /\ Len(Tail(s)) = Len(s) - 1
      /\ \A i \in 1 .. Len(s) - 1 : Tail(s)[i] = s[i + 1]
    BY <1>1, HeadTailProperties
<1>4. ASSUME NEW i \in 1 .. Len(s) - 1 PROVE Tail(s)[i] = (n + 1) + i
    <2>1. i + 1 \in 1 .. Len(s)
        BY <1>1
    <2>2. s[i + 1] = n + (i + 1)
        BY <2>1 DEF From
    <2> QED
        BY <1>3, <2>2
<1> QED
    BY <1>1, <1>2, <1>3, <1>4 DEF From

LEMMA FromNone == ASSUME NEW n PROVE From(<<>>, n)
<1>1. Len(<<>>) = 0
    OBVIOUS
<1> QED
    BY <1>1 DEF From

-----------------------------------------------------------------------------
(* The plain command *)

LEMMA PlainKeeps ==
    ASSUME PlainInv, ControlTypes, ~live, rpc # "done", Recorder!RecordNext, UNCHANGED live
    PROVE  PlainInv'
<1>0. /\ outcome \in {"none", "error"}
      /\ rpc \in {"idle", "entering", "failing"} => ~wavOpen
      /\ rpc \in {"joining", "checking"} => hp = "exited"
      /\ rpc = "checking" => ~flag /\ ~wavOpen
      /\ rpc \in {"idle", "entering", "failing", "opening"} => worker = "off" /\ outcome = "none"
      /\ worker = "off" => wav = <<>>
      /\ worker # "off" => note # "none" /\ outcome = "none"
    BY DEF PlainInv
<1>1. CASE Recorder!RecordStarts \/ Recorder!EnterFails \/ Recorder!LoopEnds
    <2>1. CASE Recorder!RecordStarts
        BY <1>0, <2>1 DEF PlainInv, Recorder!RecordStarts, Recorder!soundVars, Recorder!Launch
    <2>2. CASE Recorder!EnterFails
        BY <1>0, <2>2 DEF PlainInv, Recorder!EnterFails, Recorder!soundVars, Recorder!Terminate,
           Recorder!commandVars
    <2>3. CASE Recorder!LoopEnds
        BY <1>0, <2>3 DEF PlainInv, Recorder!LoopEnds, Recorder!soundVars, Recorder!Terminate
    <2> QED
        BY <1>1, <2>1, <2>2, <2>3
<1>2. CASE Recorder!RecordEnters \/ Recorder!RecordOpens \/ Recorder!HelperGone
    <2>1. CASE Recorder!RecordEnters
        BY <1>0, <2>1 DEF PlainInv, Recorder!RecordEnters, Recorder!soundVars, Recorder!helperVars,
           Recorder!commandVars
    <2>2. CASE Recorder!RecordOpens
        BY <1>0, <2>2 DEF PlainInv, Recorder!RecordOpens, Recorder!helperVars
    <2>3. CASE Recorder!HelperGone
        BY <1>0, <2>3 DEF PlainInv, Recorder!HelperGone, Recorder!soundVars, Recorder!helperVars,
           Recorder!commandVars
    <2> QED
        BY <1>2, <2>1, <2>2, <2>3
<1>3. CASE Recorder!OpenFails \/ Recorder!OpenInterrupted
    BY <1>0, <1>3 DEF PlainInv, Recorder!OpenFails, Recorder!OpenInterrupted, Recorder!Returns,
       Recorder!Terminate, Recorder!soundVars
<1>4. CASE Recorder!EnterFailed
    BY <1>0, <1>4 DEF PlainInv, Recorder!EnterFailed, Recorder!Returns, Recorder!helperVars,
       Recorder!soundVars
<1>5. CASE Recorder!WorkerJoined
    BY <1>0, <1>5 DEF PlainInv, Recorder!WorkerJoined, Recorder!helperVars, Recorder!commandVars
<1>6. CASE Recorder!CleanupInterrupted
    BY <1>0, <1>6 DEF PlainInv, Recorder!CleanupInterrupted, Recorder!Returns, Recorder!soundVars
<1>7. CASE Recorder!RecordReturns \/ Recorder!DescribeFails
    BY <1>0, <1>7 DEF PlainInv, Recorder!RecordReturns, Recorder!DescribeFails, Recorder!Returns,
       Recorder!helperVars, Recorder!soundVars
<1>8. CASE Recorder!StopRequested \/ Recorder!KeyDiscards \/ Recorder!KeyPauses
    BY <1>0, <1>8 DEF PlainInv, Recorder!StopRequested, Recorder!KeyDiscards, Recorder!KeyPauses,
       Recorder!CanStop, Recorder!helperVars, Recorder!soundVars, Recorder!commandVars
<1>9. CASE Recorder!CtrlC \/ Recorder!MonitorWarns
    BY <1>0, <1>9 DEF PlainInv, Recorder!CtrlC, Recorder!MonitorWarns, Recorder!Terminate,
       Recorder!helperVars, Recorder!soundVars, Recorder!commandVars, Recorder!recorderVars
<1>10. CASE Recorder!WorkerWorks
    <2>1. /\ UNCHANGED <<hp, rpc, wavOpen, note, outcome>> /\ (UNCHANGED flag \/ flag' = FALSE)
          /\ worker = "run" /\ worker' # "off"
        BY <1>10 DEF Recorder!WorkerWorks, Recorder!WorkerFrame, Recorder!WorkerBreaks,
           Recorder!WorkerSeesEnd, Recorder!FlushesOrCrashes, Recorder!Flush, Recorder!Drain,
           Recorder!ReadFrame, Recorder!helperVars, Recorder!soundVars, Recorder!recorderVars,
           Recorder!commandVars
    <2> QED
        BY <1>0, <2>1 DEF PlainInv
<1>11. CASE Recorder!HelperAlone
    <2>1. UNCHANGED <<rpc, flag, wav, wavOpen, worker, note, outcome>>
        BY <1>11 DEF Recorder!HelperAlone, Recorder!soundVars, Recorder!recorderVars, Recorder!commandVars
    <2>2. hp # "exited"
        BY <1>11, SameHelper DEF Recorder!HelperAlone, HelperStep, HelperWorks, HelperStarts, WriteBegins,
           WriteEnds, SignalStops, SignalEscalates, HelperFails, Running
    <2> QED
        BY <1>0, <2>1, <2>2 DEF PlainInv
<1> QED
    BY <1>1, <1>2, <1>3, <1>4, <1>5, <1>6, <1>7, <1>8, <1>9, <1>10, <1>11
        DEF Recorder!RecordNext, Recorder!RecorderWorks

LEMMA PlainInvInit == Init => PlainInv
BY DEF Init, SoundInit, Recorder!RecorderInit, Recorder!CommandInit, PlainInv

LEMMA PlainInvNext == PlainInv /\ ControlTypes /\ [Next]_vars => PlainInv'
<1> SUFFICES ASSUME PlainInv, ControlTypes, [Next]_vars PROVE PlainInv'
    OBVIOUS
<1>1. CASE Plain(Recorder!RecordNext)
    BY <1>1, PlainKeeps DEF Plain
<1>2. CASE Live(Session!LiveNext)
    BY <1>2 DEF Live, recorderVars, PlainInv
<1>3. CASE Mixes(MixerNext) \/ UNCHANGED vars
    BY <1>3 DEF Mixes, vars, commandVars, helperVars, soundVars, recorderVars, PlainInv
<1> QED
    BY <1>1, <1>2, <1>3 DEF Next

-----------------------------------------------------------------------------
(* The live session *)

LEMMA WholeAlmost == FrameInv /\ Whole => AlmostWhole
<1> SUFFICES ASSUME FrameInv, Whole PROVE AlmostWhole
    OBVIOUS
<1>1. Len(wav) \in Nat /\ Len(held) \in Nat /\ Len(pipe) \in Nat
    BY FrameTypes
<1>2. made <= Len(wav) + Len(held) + Len(pipe) + 1
    BY <1>1 DEF Whole
<1> QED
    BY <1>2 DEF Whole, AlmostWhole

LEMMA FileStays ==
    ASSUME FrameInv, LiveFile, UNCHANGED <<live, wav, held, pipe, made>>,
           Writable' => Writable,
           mixer' \in {"off", "run", "drain"} => mixer \in {"off", "run", "drain"},
           mixer' = "flush" => mixer \in {"run", "flush"},
           EndedWell' => EndedWell
    PROVE  LiveFile'
<1>1. (Whole => Whole') /\ (AlmostWhole => AlmostWhole') /\ (From(wav, 0) => From(wav, 0)')
    BY DEF Whole, AlmostWhole, From
<1>2. live /\ EndedWell' => held' = <<>> /\ made' <= Len(wav') + Len(pipe') + 1
    BY DEF LiveFile
<1>3. live /\ Writable' /\ mixer' \in {"off", "run", "drain"} => Whole'
    BY <1>1 DEF LiveFile
<1>4. live /\ Writable' /\ mixer' = "flush" => AlmostWhole'
    BY <1>1, WholeAlmost DEF LiveFile
<1> QED
    BY <1>1, <1>2, <1>3, <1>4 DEF LiveFile

\* The helper sends one more frame.
LEMMA FrameSent ==
    ASSUME FrameInv, NEW n \in Nat, From(pipe, n), made = n + Len(pipe)
    PROVE  From(Append(pipe, made + 1), n) /\ Len(Append(pipe, made + 1)) = Len(pipe) + 1
<1>0. pipe \in Seq(Nat) /\ Len(pipe) \in Nat /\ made \in Nat
    BY FrameTypes
<1>1. PICK t : t = <<made + 1>>
    OBVIOUS
<1>2. t \in Seq(Nat) /\ Len(t) = 1 /\ t[1] = made + 1
    BY <1>0, <1>1
<1>3. From(t, n + Len(pipe))
    BY <1>0, <1>2 DEF From
<1>4. From(pipe \o t, n)
    BY <1>0, <1>2, <1>3, FromJoin
<1>5. Append(pipe, made + 1) = pipe \o t
    BY <1>0, <1>1, AppendIsConcat
<1>6. Len(Append(pipe, made + 1)) = Len(pipe) + 1
    BY <1>0, AppendProperties
<1> QED
    BY <1>4, <1>5, <1>6

LEMMA HelperKeepsFile ==
    ASSUME FrameInv, LiveFile, HelperStep,
           UNCHANGED <<live, wav, held, mixer, late, wavOpen, lpc, err, outcome>>
    PROVE  LiveFile'
<1>1. CASE WriteEnds
    <2>0. Len(wav) \in Nat /\ Len(held) \in Nat /\ Len(pipe) \in Nat /\ made \in Nat /\ pipe \in Seq(Nat)
        BY FrameTypes
    <2>1. made' = made + 1 /\ pipe' = Append(pipe, made + 1) /\ Len(pipe') = Len(pipe) + 1
        BY <1>1, <2>0, AppendProperties DEF WriteEnds
    <2>2. live => From(wav', 0)
        BY DEF LiveFile
    <2>3. Whole => Whole'
        <3>1. SUFFICES ASSUME Whole PROVE Whole'
            OBVIOUS
        <3>2. PICK n \in Nat : n = Len(wav) + Len(held)
            BY <2>0
        <3>3. From(pipe, n) /\ made = n + Len(pipe)
            BY <3>1, <3>2 DEF Whole
        <3>4. From(pipe', n)
            BY <2>1, <3>3, FrameSent
        <3>5. made' = Len(wav') + Len(held') + Len(pipe')
            BY <2>0, <2>1, <3>2, <3>3
        <3>6. From(held', Len(wav'))
            BY <3>1 DEF Whole
        <3>7. From(pipe', Len(wav') + Len(held'))
            BY <3>2, <3>4
        <3> QED
            BY <3>5, <3>6, <3>7 DEF Whole
    <2>4. AlmostWhole => AlmostWhole'
        <3>1. made <= Len(wav) + Len(held) + Len(pipe) + 1
                => made' <= Len(wav') + Len(held') + Len(pipe') + 1
            BY <2>0, <2>1
        <3>2. From(held, Len(wav)) => From(held', Len(wav'))
            OBVIOUS
        <3> QED
            BY <3>1, <3>2 DEF AlmostWhole
    <2>5. live /\ EndedWell' => held' = <<>> /\ made' <= Len(wav') + Len(pipe') + 1
        <3>1. made <= Len(wav) + Len(pipe) + 1 => made' <= Len(wav') + Len(pipe') + 1
            BY <2>0, <2>1
        <3>2. EndedWell' => EndedWell
            BY DEF EndedWell
        <3> QED
            BY <3>1, <3>2 DEF LiveFile
    <2> QED
        BY <2>2, <2>3, <2>4, <2>5 DEF LiveFile, Writable
<1>2. CASE ~WriteEnds
    <2>1. UNCHANGED <<pipe, made>>
        BY <1>2 DEF HelperStep, HelperWorks, HelperStarts, WriteBegins, SignalStops, SignalEscalates,
                    HelperFails, ExitsWith
    <2> QED
        BY <2>1, FileStays DEF Writable, EndedWell
<1> QED
    BY <1>1, <1>2

\* The first frame held is written.
LEMMA FileWritten ==
    ASSUME FrameInv, From(wav, 0), From(held, Len(wav)), held # <<>>,
           wav' = wav \o SubSeq(held, 1, 1), held' = SubSeq(held, 1 + 1, Len(held))
    PROVE  /\ From(wav', 0) /\ From(held', Len(wav'))
           /\ Len(wav') = Len(wav) + 1 /\ Len(held') = Len(held) - 1
<1>0. wav \in Seq(Nat) /\ held \in Seq(Nat) /\ Len(wav) \in Nat /\ Len(held) \in Nat \ {0}
    BY FrameTypes, EmptySeq
<1>a. 1 \in 0 .. Len(held)
    BY <1>0
<1>1. PICK w \in Nat, one \in 0 .. Len(held) : w = Len(wav) /\ one = 1
    BY <1>0, <1>a
<1>2. PICK part, rest : part = SubSeq(held, 1, one) /\ rest = SubSeq(held, one + 1, Len(held))
    OBVIOUS
<1>b. From(held, w) /\ held \in Seq(Nat)
    BY <1>0, <1>1
<1>c. /\ SubSeq(held, 1, one) \in Seq(Nat) /\ From(SubSeq(held, 1, one), w)
      /\ From(SubSeq(held, one + 1, Len(held)), w + one)
      /\ Len(SubSeq(held, 1, one)) = one /\ Len(SubSeq(held, one + 1, Len(held))) = Len(held) - one
    BY <1>b, FromSplit
<1>3. /\ part \in Seq(Nat) /\ From(part, w) /\ From(rest, w + one)
      /\ Len(part) = one /\ Len(rest) = Len(held) - one
    BY <1>2, <1>c
<1>4. PICK z \in Nat : z = 0
    OBVIOUS
<1>5. From(wav, z) /\ From(part, z + Len(wav))
    BY <1>0, <1>1, <1>3, <1>4
<1>6. From(wav \o part, z) /\ Len(wav \o part) = Len(wav) + Len(part)
    BY <1>0, <1>3, <1>5, FromJoin
<1>7. wav' = wav \o part /\ held' = rest
    BY <1>1, <1>2
<1>8. From(wav', 0) /\ Len(wav') = w + 1
    BY <1>1, <1>3, <1>4, <1>6, <1>7
<1>9. From(held', Len(wav')) /\ Len(held') = Len(held) - 1
    BY <1>1, <1>3, <1>7, <1>8
<1> QED
    BY <1>1, <1>8, <1>9

\* A frame is read and fed to the mixer.
LEMMA FileFed ==
    ASSUME FrameInv, Whole, pipe # <<>>, pipe' = Tail(pipe), held' = Append(held, Head(pipe)),
           UNCHANGED <<wav, made>>
    PROVE  Whole'
<1>0. /\ held \in Seq(Nat) /\ pipe \in Seq(Nat)
      /\ Len(wav) \in Nat /\ Len(held) \in Nat /\ Len(pipe) \in Nat
    BY FrameTypes
<1>1. PICK w \in Nat, m \in Nat : w = Len(wav) /\ m = w + Len(held)
    BY <1>0
<1>2. From(held, w) /\ From(pipe, m) /\ made = m + Len(pipe)
    BY <1>1 DEF Whole
<1>3. /\ Head(pipe) = m + 1 /\ From(pipe', m + 1)
      /\ Len(pipe') = Len(pipe) - 1 /\ Len(pipe) \in Nat \ {0}
    BY <1>0, <1>2, FromHead
<1>4. PICK t : t = <<Head(pipe)>>
    OBVIOUS
<1>5. t \in Seq(Nat) /\ Len(t) = 1 /\ t[1] = m + 1
    BY <1>3, <1>4
<1>6. From(t, w + Len(held))
    BY <1>0, <1>1, <1>5 DEF From
<1>7. From(held \o t, w) /\ Len(held \o t) = Len(held) + 1
    <2>1. From(held \o t, w) /\ Len(held \o t) = Len(held) + Len(t)
        BY <1>0, <1>2, <1>5, <1>6, FromJoin
    <2> QED
        BY <1>5, <2>1
<1>8. held' = held \o t
    BY <1>0, <1>3, <1>4, AppendIsConcat
<1>9. From(held', Len(wav')) /\ Len(wav') + Len(held') = m + 1
    <2>1. Len(wav') = w /\ From(held', w)
        BY <1>1, <1>7, <1>8
    <2>2. Len(held') = Len(held) + 1
        BY <1>7, <1>8
    <2>3. w + (Len(held) + 1) = m + 1
        BY <1>0, <1>1
    <2> QED
        BY <2>1, <2>2, <2>3
<1>10. made' = Len(wav') + Len(held') + Len(pipe')
    <2>1. made' = m + Len(pipe) /\ Len(pipe') = Len(pipe) - 1
        BY <1>2, <1>3
    <2>2. m + Len(pipe) = (m + 1) + (Len(pipe) - 1)
        BY <1>0
    <2> QED
        BY <1>9, <2>1, <2>2
<1> QED
    BY <1>3, <1>9, <1>10 DEF Whole

LEMMA MixerKeepsFile ==
    ASSUME FrameInv, LiveFile, LiveMixer, live, lpc # "done", Session!MixerWorks, UNCHANGED live
    PROVE  LiveFile'
<1>0. /\ lpc # "idle" /\ UNCHANGED <<lpc, late, made, wavOpen>> /\ From(wav, 0)
      /\ Len(wav) \in Nat /\ Len(held) \in Nat /\ Len(pipe) \in Nat /\ made \in Nat
    <2>1. lpc # "idle" /\ From(wav, 0)
        BY DEF LiveFile, LiveMixer, Session!MixerWorks, Session!MixerFrame, Session!MixerPublishes,
           Session!MixerWaits, Session!MixerBreaks, Session!MixerSeesEnd, Session!MixerCrashes,
           Session!MixerEnds
    <2>2. UNCHANGED <<lpc, late, made, wavOpen>>
        BY DEF Session!MixerWorks, Session!MixerFrame, Session!MixerPublishes, Session!MixerWaits,
           Session!MixerBreaks, Session!MixerSeesEnd, Session!MixerCrashes, Session!MixerEnds,
           Session!ReadFrame, Session!Drain, Session!mainVars, Session!helperVars, Session!soundVars
    <2> QED
        BY <2>1, <2>2, FrameTypes
<1>1. CASE Session!MixerFrame
    <2>1. /\ pipe # <<>> /\ pipe' = Tail(pipe) /\ held' = Append(held, Head(pipe)) /\ UNCHANGED wav
          /\ mixer = "run" /\ mixer' = "drain"
        BY <1>1 DEF Session!MixerFrame, Session!ReadFrame
    <2>2. Writable' => Whole
        BY <1>0, <2>1 DEF LiveFile, Writable
    <2>3. Writable' => Whole'
        BY <1>0, <2>1, <2>2, FileFed
    <2>4. From(wav', 0) /\ ~EndedWell'
        BY <1>0, <2>1 DEF EndedWell
    <2> QED
        BY <2>1, <2>3, <2>4 DEF LiveFile
<1>2. CASE Session!MixerPublishes
    <2>1. /\ held # <<>> /\ Session!Drain(<<>>, 1, wavOpen)
          /\ UNCHANGED <<pipe, mixer>> /\ mixer \in {"drain", "flush"}
        BY <1>2 DEF Session!MixerPublishes, Session!helperVars
    <2>2. held \o <<>> = held
        BY FrameTypes, ConcatEmptySeq
    <2>3. CASE wavOpen
        <3>0. wav' = wav \o SubSeq(held, 1, 1) /\ held' = SubSeq(held, 1 + 1, Len(held))
            BY <2>1, <2>2, <2>3 DEF Session!Drain
        <3>1. Whole \/ AlmostWhole
            BY <2>1, <2>3 DEF LiveFile, Writable
        <3>2. From(held, Len(wav))
            BY <3>1 DEF Whole, AlmostWhole
        <3>3. /\ From(wav', 0) /\ From(held', Len(wav'))
              /\ Len(wav') = Len(wav) + 1 /\ Len(held') = Len(held) - 1
            BY <1>0, <2>1, <3>0, <3>2, FileWritten
        <3>4. Len(wav') + Len(held') = Len(wav) + Len(held)
            BY <1>0, <3>3
        <3>5. Whole => Whole'
            BY <1>0, <2>1, <3>3, <3>4 DEF Whole
        <3>6. AlmostWhole => AlmostWhole'
            BY <1>0, <2>1, <3>3, <3>4 DEF AlmostWhole
        <3> QED
            BY <1>0, <2>1, <3>3, <3>5, <3>6 DEF LiveFile, EndedWell, Writable
    <2>4. CASE ~wavOpen
        <3>1. wav' = wav
            BY <2>1, <2>4 DEF Session!Drain
        <3> QED
            BY <1>0, <2>1, <2>4, <3>1 DEF LiveFile, EndedWell, Writable
    <2> QED
        BY <2>3, <2>4
<1>3. CASE Session!MixerBreaks
    <2>1. /\ pipe # <<>> /\ pipe' = Tail(pipe) /\ UNCHANGED <<held, wav>>
          /\ mixer = "run" /\ mixer' = "flush"
        BY <1>3 DEF Session!MixerBreaks, Session!ReadFrame, Session!soundVars
    <2>2. Len(pipe') = Len(pipe) - 1 /\ Len(pipe) >= 1
        BY <2>1, FrameTypes, EmptySeq, HeadTailProperties
    <2>3. Writable' => Whole
        BY <1>0, <2>1 DEF LiveFile, Writable
    <2>4. Whole => AlmostWhole'
        <3>1. made = Len(wav) + Len(held) + Len(pipe) => made' <= Len(wav') + Len(held') + Len(pipe') + 1
            BY <1>0, <2>1, <2>2
        <3> QED
            BY <2>1, <3>1 DEF Whole, AlmostWhole
    <2> QED
        BY <1>0, <2>1, <2>3, <2>4 DEF LiveFile, EndedWell
<1>4. CASE Session!MixerWaits \/ Session!MixerSeesEnd \/ Session!MixerCrashes
    <2>1. /\ UNCHANGED <<live, wav, held, pipe, made>>
          /\ mixer' \in {"off", "run", "drain"} => mixer \in {"off", "run", "drain"}
          /\ mixer' = "flush" => mixer \in {"run", "flush"}
          /\ mixer' \in {"run", "flush"} \/ err' = TRUE
        BY <1>4 DEF Session!MixerWaits, Session!MixerSeesEnd, Session!MixerCrashes,
           Session!helperVars, Session!soundVars
    <2>2. Writable' => Writable
        BY <1>0 DEF Writable
    <2>3. ~EndedWell'
        BY <2>1 DEF EndedWell
    <2> QED
        BY <2>1, <2>2, <2>3, FileStays
<1>5. CASE Session!MixerEnds
    <2>1. /\ UNCHANGED <<wav, held, pipe>> /\ mixer = "flush" /\ mixer' = "done" /\ held = <<>>
        BY <1>5 DEF Session!MixerEnds, Session!helperVars, Session!soundVars
    <2>2. ~late' => AlmostWhole
        BY <1>0, <2>1 DEF LiveFile, LiveMixer, Writable
    <2>3. Len(held) = 0
        BY <2>1
    <2>4. ~late' => made' <= Len(wav') + Len(pipe') + 1
        BY <1>0, <2>1, <2>2, <2>3 DEF AlmostWhole
    <2> QED
        BY <1>0, <2>1, <2>4 DEF LiveFile, EndedWell
<1> QED
    BY <1>1, <1>2, <1>3, <1>4, <1>5 DEF Session!MixerWorks

LEMMA SessionKeepsFile ==
    ASSUME FrameInv, LiveFile, LiveMixer, live, lpc # "done", Session!LiveNext, UNCHANGED live
    PROVE  LiveFile'
<1>1. CASE Session!MixerWorks
    BY <1>1, MixerKeepsFile
<1>2. CASE Session!HelperAlone
    <2>1. HelperStep /\ UNCHANGED <<wav, held, mixer, late, wavOpen, lpc, err, outcome>>
        BY <1>2, SameHelper DEF Session!HelperAlone, Session!soundVars, Session!liveVars,
           Session!commandVars
    <2> QED
        BY <2>1, HelperKeepsFile
<1>3. CASE Session!ChunkerStep \/ Session!ScribeWorks \/ Session!WhisperRaises
    <2>1. UNCHANGED <<wav, held, pipe, made, mixer, late, wavOpen, lpc, err, outcome>>
        BY <1>3 DEF Session!ChunkerStep, Session!ChunkerContinues, Session!ChunkerTimesOut,
           Session!ChunkerFrame, Session!ChunkerStops, Session!ScribeWorks, Session!TakesChunk,
           Session!FindsNothing, Session!WhisperReturns, Session!WhisperRaises,
           Session!helperVars, Session!soundVars, Session!mainVars, Session!commandVars
    <2> QED
        BY <2>1, FileStays DEF Writable, EndedWell
<1>4. CASE \/ Session!SessionStarts \/ Session!SessionWorks \/ Session!StreamFails
           \/ Session!WiringFails \/ Session!DurationReached \/ Session!CtrlC \/ Session!SaveFails
    <2>1. UNCHANGED <<wav, held, pipe, made>>
        BY <1>4, SessionQuiet DEF Quiet, lineVars
    <2>2. /\ mixer' \in {"off", "run", "drain"} => mixer \in {"off", "run", "drain"}
          /\ mixer' = "flush" => mixer \in {"run", "flush"}
        BY <1>4 DEF Session!SessionStarts, Session!SessionWorks, Session!StreamFails,
           Session!WiringFails, Session!DurationReached, Session!CtrlC, Session!SaveFails,
           Session!StreamStarts, Session!StreamFailed, Session!ThreadsStart, Session!WaitEnds,
           Session!MixerJoined, Session!StreamStopped, Session!ChunkerJoined, Session!ScribeJoined,
           Session!Joined, Session!StopInterrupted, Session!ChecksCapture, Session!MovesAudio,
           Session!SaveSucceeds, Session!liveVars, Session!mainVars, LiveMixer
    <2>3. Writable' => Writable
        <3>1. CASE Session!SessionStarts
            BY <3>1 DEF Session!SessionStarts, Writable
        <3>2. CASE ~Session!SessionStarts
            <4>1. (UNCHANGED wavOpen \/ wavOpen' = FALSE) /\ (UNCHANGED lpc \/ lpc' # "idle")
                BY <1>4, <3>2 DEF Session!SessionWorks, Session!StreamFails,
                   Session!WiringFails, Session!DurationReached, Session!CtrlC, Session!SaveFails,
                   Session!StreamStarts, Session!StreamFailed, Session!ThreadsStart, Session!WaitEnds,
                   Session!MixerJoined, Session!StreamStopped, Session!ChunkerJoined,
                   Session!ScribeJoined, Session!Joined, Session!StopInterrupted,
                   Session!ChecksCapture, Session!MovesAudio, Session!SaveSucceeds,
                   Session!Returns, Session!liveVars, Session!soundVars, Session!mainVars
            <4> QED
                BY <4>1 DEF Writable
        <3> QED
            BY <3>1, <3>2
    <2>4. EndedWell' => EndedWell
        <3>1. CASE Session!WiringFails
            <4>1. lpc' = "done" /\ outcome' \in {"interrupted", "error"}
                BY <3>1 DEF Session!WiringFails, Session!Returns
            <4> QED
                BY <4>1 DEF EndedWell
        <3>2. CASE Session!MixerJoined
            <4>1. late' = (mixer # "done") /\ UNCHANGED <<mixer, err>> /\ lpc = "mixer"
                BY <3>2 DEF Session!MixerJoined, Session!Joined, Session!commandVars
            <4>2. ~late
                BY <4>1 DEF LiveMixer
            <4> QED
                BY <4>1, <4>2 DEF EndedWell
        <3>3. CASE ~Session!WiringFails /\ ~Session!MixerJoined
            <4>1. UNCHANGED <<late, err>> /\ (UNCHANGED mixer \/ mixer' = "run")
                BY <1>4, <3>3 DEF Session!SessionStarts, Session!SessionWorks, Session!StreamFails,
                   Session!DurationReached, Session!CtrlC, Session!SaveFails,
                   Session!StreamStarts, Session!StreamFailed, Session!ThreadsStart, Session!WaitEnds,
                   Session!StreamStopped, Session!ChunkerJoined, Session!ScribeJoined,
                   Session!Joined, Session!StopInterrupted, Session!ChecksCapture,
                   Session!MovesAudio, Session!SaveSucceeds, Session!liveVars, Session!mainVars,
                   Session!commandVars
            <4> QED
                BY <4>1 DEF EndedWell
        <3> QED
            BY <3>1, <3>2, <3>3
    <2> QED
        BY <2>1, <2>2, <2>3, <2>4, FileStays
<1> QED
    BY <1>1, <1>2, <1>3, <1>4 DEF Session!LiveNext

LEMMA SessionKeepsMixer ==
    ASSUME LiveMixer, live, lpc # "done", Session!LiveNext, UNCHANGED live
    PROVE  LiveMixer'
<1> USE DEF Stopped, LiveMixer, Session!soundVars, Session!mainVars, Session!commandVars
<1>1. CASE Session!SessionStarts \/ Session!StreamFails \/ Session!StreamStarts
    <2>1. CASE Session!SessionStarts
        BY <2>1 DEF Session!SessionStarts
    <2>2. CASE Session!StreamFails
        BY <2>2 DEF Session!StreamFails
    <2>3. CASE Session!StreamStarts
        <3>1. /\ lpc = "entering" /\ lpc' = "wiring" /\ mixer' = "run"
              /\ UNCHANGED <<late, wavOpen, err>> /\ mixer = "off" /\ ~late /\ wavOpen
            BY <2>3 DEF Session!StreamStarts
        <3> QED
            BY <3>1
    <2> QED
        BY <1>1, <2>1, <2>2, <2>3
<1>2. CASE Session!StreamFailed
    BY <1>2 DEF Session!StreamFailed, Session!Returns
<1>3. CASE Session!ThreadsStart
    BY <1>3 DEF Session!ThreadsStart
<1>4. CASE Session!WiringFails
    BY <1>4 DEF Session!WiringFails, Session!Returns
<1>5. CASE Session!WaitEnds
    BY <1>5 DEF Session!WaitEnds
<1>6. CASE Session!DurationReached
    BY <1>6 DEF Session!DurationReached
<1>7. CASE Session!CtrlC
    BY <1>7 DEF Session!CtrlC, Session!liveVars
<1>8. CASE Session!MixerJoined
    BY <1>8 DEF Session!MixerJoined, Session!Joined
<1>9. CASE Session!StreamStopped
    BY <1>9 DEF Session!StreamStopped, Session!Joined
<1>10. CASE Session!ChunkerJoined \/ Session!ScribeJoined
    BY <1>10 DEF Session!ChunkerJoined, Session!ScribeJoined, Session!Joined
<1>11. CASE Session!StopInterrupted \/ Session!SaveFails
    BY <1>11 DEF Session!StopInterrupted, Session!SaveFails, Session!Returns
<1>12. CASE Session!ChecksCapture
    BY <1>12 DEF Session!ChecksCapture, Session!Returns
<1>13. CASE Session!MovesAudio \/ Session!SaveSucceeds
    BY <1>13 DEF Session!MovesAudio, Session!SaveSucceeds, Session!Returns
<1>14. CASE Session!MixerWorks
    <2>1. /\ UNCHANGED <<lpc, late, wavOpen>> /\ mixer \in {"run", "drain", "flush"}
          /\ mixer' \in {"run", "drain", "flush", "done"} /\ (UNCHANGED err \/ mixer' = "done")
        BY <1>14 DEF Session!MixerWorks, Session!MixerFrame, Session!MixerPublishes,
           Session!MixerWaits, Session!MixerBreaks, Session!MixerSeesEnd, Session!MixerCrashes,
           Session!MixerEnds, Session!Drain
    <2> QED
        BY <2>1
<1>15. CASE Session!ChunkerStep \/ Session!ScribeWorks \/ Session!WhisperRaises
    <2>1. UNCHANGED <<wav, wavOpen, mixer, lpc, late, err>>
        BY <1>15 DEF Session!ChunkerStep, Session!ChunkerContinues, Session!ChunkerTimesOut,
           Session!ChunkerFrame, Session!ChunkerStops, Session!ScribeWorks, Session!TakesChunk,
           Session!FindsNothing, Session!WhisperReturns, Session!WhisperRaises
    <2> QED
        BY <2>1
<1>16. CASE Session!HelperAlone
    BY <1>16 DEF Session!HelperAlone, Session!liveVars
<1> QED
    BY <1>1, <1>2, <1>3, <1>4, <1>5, <1>6, <1>7, <1>8, <1>9, <1>10, <1>11, <1>12, <1>13, <1>14, <1>15,
       <1>16 DEF Session!LiveNext, Session!SessionWorks

LEMMA SessionKeepsResult ==
    ASSUME LiveMixer, LiveResult, live, lpc # "done", Session!LiveNext, UNCHANGED live
    PROVE  LiveResult'
<1>0. /\ outcome = "none"
      /\ note = IF lpc = "saving" THEN "dir" ELSE IF lpc = "describing" THEN "audio" ELSE "none"
      /\ lpc \notin {"idle", "describing"} => temp
      /\ lpc = "describing" => ~temp
    BY DEF LiveResult
<1> USE DEF LiveResult, Session!commandVars
<1>1. CASE Session!SessionStarts \/ Session!StreamFails \/ Session!StreamStarts
    BY <1>0, <1>1 DEF Session!SessionStarts, Session!StreamFails, Session!StreamStarts
<1>2. CASE Session!StreamFailed
    <2>1. wav = <<>> /\ UNCHANGED wav
        BY <1>2 DEF LiveMixer, Session!StreamFailed
    <2> QED
        BY <1>0, <1>2, <2>1 DEF Session!StreamFailed, Session!Returns
<1>3. CASE Session!ThreadsStart
    BY <1>0, <1>3 DEF Session!ThreadsStart
<1>4. CASE Session!WiringFails
    BY <1>0, <1>4 DEF Session!WiringFails, Session!Returns
<1>5. CASE Session!WaitEnds \/ Session!DurationReached
    BY <1>0, <1>5 DEF Session!WaitEnds, Session!DurationReached, Session!mainVars
<1>6. CASE Session!CtrlC
    BY <1>0, <1>6 DEF Session!CtrlC, Session!liveVars
<1>7. CASE Session!MixerJoined \/ Session!StreamStopped \/ Session!ChunkerJoined
           \/ Session!ScribeJoined
    <2>1. /\ lpc \in {"mixer", "helper", "chunker", "scribe"}
          /\ lpc' \in {"helper", "chunker", "scribe", "checking"}
          /\ UNCHANGED <<temp, note, outcome>>
        BY <1>7 DEF Session!MixerJoined, Session!StreamStopped, Session!ChunkerJoined,
           Session!ScribeJoined, Session!Joined
    <2> QED
        BY <1>0, <2>1
<1>8. CASE Session!StopInterrupted \/ Session!SaveFails
    BY <1>0, <1>8 DEF Session!StopInterrupted, Session!SaveFails, Session!Returns
<1>9. CASE Session!ChecksCapture
    BY <1>0, <1>9 DEF Session!ChecksCapture, Session!Returns
<1>10. CASE Session!MovesAudio
    BY <1>0, <1>10 DEF Session!MovesAudio
<1>11. CASE Session!SaveSucceeds
    <2>1. ~wavOpen /\ (late \/ (mixer = "done" /\ ~err))
        BY <1>11 DEF LiveMixer, Stopped, Session!SaveSucceeds
    <2> QED
        BY <1>0, <1>11, <2>1 DEF Session!SaveSucceeds, Session!Returns, Session!soundVars
<1>12. CASE Session!MixerWorks
    <2>1. UNCHANGED <<lpc, temp, note, outcome>>
        BY <1>12 DEF Session!MixerWorks, Session!MixerFrame, Session!MixerPublishes,
           Session!MixerWaits, Session!MixerBreaks, Session!MixerSeesEnd, Session!MixerCrashes,
           Session!MixerEnds, Session!mainVars
    <2> QED
        BY <1>0, <2>1
<1>13. CASE Session!ChunkerStep \/ Session!ScribeWorks \/ Session!WhisperRaises
    <2>1. UNCHANGED <<lpc, temp, note, outcome>>
        BY <1>13 DEF Session!ChunkerStep, Session!ChunkerContinues, Session!ChunkerTimesOut,
           Session!ChunkerFrame, Session!ChunkerStops, Session!ScribeWorks, Session!TakesChunk,
           Session!FindsNothing, Session!WhisperReturns, Session!WhisperRaises, Session!mainVars
    <2> QED
        BY <1>0, <2>1
<1>14. CASE Session!HelperAlone
    BY <1>0, <1>14 DEF Session!HelperAlone, Session!liveVars
<1> QED
    BY <1>1, <1>2, <1>3, <1>4, <1>5, <1>6, <1>7, <1>8, <1>9, <1>10, <1>11, <1>12, <1>13, <1>14
        DEF Session!LiveNext, Session!SessionWorks

LEMMA LiveInvInit == Init => LiveFile /\ LiveMixer /\ LiveResult
<1> SUFFICES ASSUME Init PROVE LiveFile /\ LiveMixer /\ LiveResult
    OBVIOUS
<1>1. /\ wav = <<>> /\ held = <<>> /\ pipe = <<>> /\ made = 0 /\ lpc = "idle" /\ mixer = "off"
      /\ note = "none" /\ outcome = "none" /\ late = FALSE
    BY DEF Init, HelperInit, SoundInit, Session!LiveInit, Recorder!CommandInit
<1>2. Len(<<>>) = 0 /\ \A n : From(<<>>, n)
    BY FromNone
<1>3. LiveFile
    BY <1>1, <1>2 DEF LiveFile, Whole, EndedWell
<1>4. LiveMixer
    BY <1>1 DEF LiveMixer, Stopped
<1> QED
    BY <1>1, <1>3, <1>4 DEF LiveResult

LEMMA LiveInvNext ==
    FrameInv /\ LiveFile /\ LiveMixer /\ LiveResult /\ [Next]_vars => LiveFile' /\ LiveMixer' /\ LiveResult'
<1> SUFFICES ASSUME FrameInv, LiveFile, LiveMixer, LiveResult, [Next]_vars
             PROVE  LiveFile' /\ LiveMixer' /\ LiveResult'
    OBVIOUS
<1>1. CASE Live(Session!LiveNext)
    BY <1>1, SessionKeepsFile, SessionKeepsMixer, SessionKeepsResult DEF Live
<1>2. CASE Plain(Recorder!RecordNext)
    <2>1. ~live /\ UNCHANGED <<live, lpc, mixer, late>>
        BY <1>2 DEF Plain, liveVars
    <2>2. lpc = "idle"
        BY <2>1 DEF LiveResult
    <2>3. LiveMixer'
        BY <2>1, <2>2 DEF LiveMixer, Stopped
    <2> QED
        BY <2>1, <2>2, <2>3 DEF LiveFile, LiveResult
<1>3. CASE Mixes(MixerNext) \/ UNCHANGED vars
    <2>1. /\ UNCHANGED <<live, lpc, mixer, late, wav, held, pipe, made, wavOpen, note, outcome>>
          /\ UNCHANGED <<err, temp>>
        BY <1>3 DEF Mixes, vars, commandVars, helperVars, soundVars, liveVars
    <2>2. LiveFile'
        BY <2>1, FileStays DEF Writable, EndedWell
    <2>3. LiveMixer'
        BY <2>1 DEF LiveMixer, Stopped
    <2> QED
        BY <2>1, <2>2, <2>3 DEF LiveResult
<1> QED
    BY <1>1, <1>2, <1>3 DEF Next

LEMMA Settled == FrameInv /\ PlainInv /\ LiveFile /\ LiveResult => RecordingSettled
<1> SUFFICES ASSUME FrameInv, PlainInv, LiveFile, LiveResult
             PROVE  Recorder!RecordingSettled /\ Session!SessionSettled
    BY DEF RecordingSettled
<1>1. wav \in Seq(Nat) /\ Len(wav) \in Nat /\ \A i, j \in 1 .. Len(wav) : i < j => wav[i] < wav[j]
    <2>1. PICK e \in Nat : Recorded(e)
        BY DEF FrameInv
    <2> QED
        BY <2>1, FrameTypes DEF Recorded, Within
<1>2. \A i \in 2 .. Len(wav) : wav[i - 1] < wav[i]
    <2>1. \A i \in 2 .. Len(wav) : i - 1 \in 1 .. Len(wav) /\ i \in 1 .. Len(wav) /\ i - 1 < i
        BY <1>1
    <2> QED
        BY <1>1, <2>1
<1>3. Recorder!RecordingSettled
    BY <1>2 DEF PlainInv, Recorder!RecordingSettled
<1>4. Session!SessionSettled
    <2>1. SUFFICES ASSUME lpc = "done"
                   PROVE  /\ outcome = "ok" => /\ note = "saved" /\ ~temp /\ ~wavOpen
                                               /\ wav = [i \in 1 .. Len(wav) |-> i]
                                               /\ ~late => /\ mixer = "done" /\ ~err /\ held = <<>>
                                                           /\ made <= Len(wav) + Len(pipe) + 1
                          /\ outcome # "ok" =>
                                /\ wav # <<>> => temp \/ note = "audio" \/ (err /\ note = "none")
                                /\ note \in {"none", "audio"} \/ temp
        BY DEF Session!SessionSettled
    <2>2. live /\ From(wav, 0)
        BY <2>1 DEF LiveResult, LiveFile
    <2>3. wav = [i \in 1 .. Len(wav) |-> i]
        <3>1. wav \in [1 .. Len(wav) -> Nat]
            BY <1>1, LenProperties
        <3>2. \A i \in 1 .. Len(wav) : wav[i] = i
            BY <1>1, <2>2 DEF From
        <3> QED
            BY <3>1, <3>2
    <2>4. outcome = "ok" /\ ~late =>
            mixer = "done" /\ ~err /\ held = <<>> /\ made <= Len(wav) + Len(pipe) + 1
        BY <2>1, <2>2 DEF LiveFile, LiveResult, EndedWell
    <2> QED
        BY <2>1, <2>3, <2>4 DEF LiveResult
<1> QED
    BY <1>3, <1>4

\* A recording reported as saved is a closed file in a note that is there; a plain
\* one has at least one frame, in order and none twice, and a live one is the
\* beginning of what the helper sent without a hole, to its end if the mixer was
\* joined in time.  However else it ends (an error, Ctrl-C at any point, a failing
\* disk), what was heard is in the note or in the temporary file unless the capture
\* broke or the user discarded it, and no helper outlives the plain command
\* (audio_recorder.py:113-300, live_session.py:60-260, live_audio.py:173-300).
THEOREM RecordingsSettle == Spec => []RecordingSettled
BY ControlTypesInit, ControlTypesNext, FrameInvInit, FrameInvNext, TextInvInit, TextInvNext,
   PlainInvInit, PlainInvNext, LiveInvInit, LiveInvNext, Settled, PTL DEF Spec
=============================================================================
