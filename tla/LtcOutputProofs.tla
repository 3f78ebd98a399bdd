--------------------------- MODULE LtcOutputProofs ---------------------------
(***************************************************************************)
(* Theorems about the signal that is put out, from its samples             *)
(* (SampleClock) through the queue to the device (SignalRing) to the       *)
(* engine, the scheduler thread and their recoveries (LtcTransport), for   *)
(* every rate, every size of the queue and any number of outputs, threads, *)
(* starts, resets and stalls.                                              *)
(***************************************************************************)
EXTENDS SampleClock, SignalRing, LtcTransport, SequenceTheorems, TLAPS

-----------------------------------------------------------------------------
(* The samples of a frame (SampleClock).                                   *)

\* Nothing of the time that has passed is lost but what the prefill has not
\* carried over.
ClockInv ==
    /\ frames \in Nat /\ samples \in Nat /\ acc \in 0 .. Den - 1
    /\ frames * Num = samples * Den + acc + FirstFrames * Fraction

\* The whole part and what is left over make up the length of a frame.
LEMMA DivisionFacts ==
    /\ Base \in Nat /\ Fraction \in 0 .. Den - 1 /\ Num = Base * Den + Fraction
  BY ClockAssumption DEF Base, Fraction

\* What is carried over stays below a sample, and nothing of it is lost.
LEMMA CountFacts ==
    ASSUME NEW a \in 0 .. Den - 1
    PROVE  LET c == ComputeFrameSampleCount(a)
           IN  /\ c.samples \in Nat /\ c.acc \in 0 .. Den - 1
               /\ c.samples * Den + c.acc = Num + a
<1>1. CASE a + Fraction >= Den
  <2>1. (Base + 1) * Den = Base * Den + Den
    BY DivisionFacts, ClockAssumption
  <2> QED BY <1>1, <2>1, DivisionFacts, ClockAssumption DEF ComputeFrameSampleCount
<1>2. CASE ~(a + Fraction >= Den)
  BY <1>2, DivisionFacts, ClockAssumption DEF ComputeFrameSampleCount
<1> QED BY <1>1, <1>2

\* No frame rate and no sample rate makes the signal drift against its
\* clock: samples, leftovers and what the prefill did not carry add up.
THEOREM NeverDrifts == ClockSpec => []NoDrift
<1>1. ClockInit => ClockInv
  <2> SUFFICES ASSUME ClockInit PROVE ClockInv
    OBVIOUS
  <2>1. FirstFrames * Num = FirstFrames * Base * Den + FirstFrames * Fraction
    BY DivisionFacts, ClockAssumption
  <2>2. FirstFrames * Base \in Nat
    BY DivisionFacts, ClockAssumption
  <2> QED BY <2>1, <2>2, ClockAssumption DEF ClockInit, ClockInv
<1>2. ClockInv /\ [NextFrame]_clockVars => ClockInv'
  <2> SUFFICES ASSUME ClockInv, [NextFrame]_clockVars PROVE ClockInv'
    OBVIOUS
  <2>1. CASE NextFrame
    <3> DEFINE c == ComputeFrameSampleCount(acc)
    <3>1. c.samples \in Nat /\ c.acc \in 0 .. Den - 1 /\ c.samples * Den + c.acc = Num + acc
      BY CountFacts DEF ClockInv
    <3>2. frames' = frames + 1 /\ samples' = samples + c.samples /\ acc' = c.acc
      BY <2>1 DEF NextFrame
    <3> HIDE DEF c
    <3>3. (frames + 1) * Num = frames * Num + Num
      BY ClockAssumption DEF ClockInv
    <3>4. (samples + c.samples) * Den = samples * Den + c.samples * Den
      BY <3>1, ClockAssumption DEF ClockInv
    <3>5. /\ frames * Num \in Nat /\ samples * Den \in Nat /\ c.samples * Den \in Nat
          /\ FirstFrames * Fraction \in Nat
      BY <3>1, DivisionFacts, ClockAssumption DEF ClockInv
    <3> QED BY <3>1, <3>2, <3>3, <3>4, <3>5, ClockAssumption DEF ClockInv
  <2>2. CASE UNCHANGED clockVars
    BY <2>2 DEF ClockInv, clockVars
  <2> QED BY <2>1, <2>2
<1>3. ClockInv => NoDrift
  <2> SUFFICES ASSUME ClockInv PROVE NoDrift
    OBVIOUS
  <2>1. FirstFrames * Fraction <= FirstFrames * Den /\ 0 <= FirstFrames * Fraction
    BY DivisionFacts, ClockAssumption
  <2>2. (FirstFrames + 1) * Den = FirstFrames * Den + Den
    BY ClockAssumption
  <2>3. /\ frames * Num \in Nat /\ samples * Den \in Nat /\ FirstFrames * Den \in Nat
        /\ FirstFrames * Fraction \in Nat
    BY DivisionFacts, ClockAssumption DEF ClockInv
  <2> QED BY <2>1, <2>2, <2>3, ClockAssumption DEF ClockInv, NoDrift
<1> QED BY <1>1, <1>2, <1>3, PTL DEF ClockSpec

-----------------------------------------------------------------------------
(* The queue (SignalRing).                                                 *)

FrameSet == [epoch : Nat, tc : Nat]

-----------------------------------------------------------------------------
(* The ring buffer.                                                        *)

\* What push_slice does to a queue: all that fits, in order, after what is
\* there.
LEMMA PushedQueue ==
    ASSUME NEW queue \in Seq(Sample), Len(queue) <= Capacity, NEW frame \in FrameSet
    PROVE  LET q == Pushed(queue, frame)
               n == Len(queue)
           IN  /\ q \in Seq(Sample) /\ n \in Nat
               /\ Len(q) = IF n + Parts > Capacity THEN Capacity ELSE n + Parts
               /\ \A i \in 1 .. n : q[i] = queue[i]
               /\ \A i \in n + 1 .. Len(q) : q[i] = [frame |-> frame, part |-> i - n]
<1> DEFINE n == Len(queue)
           m == IF n + Parts > Capacity THEN Capacity ELSE n + Parts
           all == queue \o Samples(frame)
<1>1. n \in Nat /\ Parts \in Nat \ {0} /\ Capacity \in Nat
  BY LenProperties, RingAssumption
<1>2. /\ Samples(frame) \in Seq(Sample) /\ Len(Samples(frame)) = Parts
      /\ \A i \in 1 .. Parts : Samples(frame)[i] = [frame |-> frame, part |-> i]
  <2>1. Samples(frame) \in [1 .. Parts -> Sample]
    BY <1>1 DEF Samples, Sample, FrameSet
  <2>2. Samples(frame) \in Seq(Sample)
    BY <1>1, <2>1, SeqDef
  <2>3. 1 .. Len(Samples(frame)) = 1 .. Parts /\ Len(Samples(frame)) \in Nat
    BY <2>1, <2>2, LenProperties
  <2> QED
    BY <1>1, <2>2, <2>3 DEF Samples
<1>3. /\ all \in Seq(Sample) /\ Len(all) = n + Parts
      /\ \A i \in 1 .. n + Parts : all[i] = IF i <= n THEN queue[i] ELSE Samples(frame)[i - n]
  BY <1>1, <1>2, ConcatProperties
<1>4. m \in 0 .. n + Parts /\ n <= m
  BY <1>1
<1>5. Pushed(queue, frame) = SubSeq(all, 1, m)
  BY DEF Pushed
<1> HIDE DEF all, m
<1>6. /\ SubSeq(all, 1, m) \in Seq(Sample) /\ Len(SubSeq(all, 1, m)) = m
      /\ \A i \in 1 .. m : SubSeq(all, 1, m)[i] = all[i]
  BY <1>1, <1>3, <1>4, SubSeqProperties
<1>7. ASSUME NEW i \in n + 1 .. m PROVE all[i] = [frame |-> frame, part |-> i - n]
  <2>1. i - n \in 1 .. Parts /\ i \in 1 .. n + Parts /\ ~(i <= n)
    BY <1>1, <1>4
  <2>2. all[i] = Samples(frame)[i - n]
    BY <1>3, <2>1
  <2> QED
    BY <1>2, <2>1, <2>2
<1>8. \A i \in 1 .. n : all[i] = queue[i]
  BY <1>1, <1>3
<1> QED
  BY <1>1, <1>4, <1>5, <1>6, <1>7, <1>8 DEF m

LEMMA ProductStep ==
    ASSUME NEW x \in Int
    PROVE  /\ Parts * (x + 1) = Parts * x + Parts /\ Parts * (x - 1) = Parts * x - Parts
           /\ Parts * x \in Int /\ (x >= 0 => Parts * x >= 0)
BY RingAssumption
-----------------------------------------------------------------------------
(* The delay.  Every frame the scheduler owes, or start_ltc has not put in *)
(* yet, is allowed for as one that will be in the queue.                    *)

Remaining == IF stage = "prefill" THEN shown + RingPrefill - tc ELSE 0
Owed == framesDue + Remaining - (IF stage = "advance" THEN 1 ELSE 0)

TypeInv ==
    /\ RingTypeOK
    /\ shown \in Nat /\ allowance \in Int
    /\ stage = "push" => hand \in FrameSet
    /\ heard \in Sample \cup {Nothing}
    /\ stage = "prefill" => tc < shown + RingPrefill
    /\ stage \in {"push", "advance"} => framesDue >= 1

QueueInv == Started => Len(ring) + Parts * Owed <= allowance

DelayInv == TypeInv /\ QueueInv

LEMMA TypeFacts ==
    ASSUME TypeInv
    PROVE  /\ Parts \in Nat \ {0} /\ Capacity \in Nat /\ RingPrefill \in Nat
           /\ Len(ring) \in Nat /\ tc \in Nat /\ epoch \in Nat /\ framesDue \in Nat
           /\ allowance \in Int /\ shown \in Nat
           /\ Frame(tc) \in FrameSet
           /\ Owed \in Nat /\ Parts * Owed \in Nat
<1>1. /\ Parts \in Nat \ {0} /\ Capacity \in Nat /\ RingPrefill \in Nat
      /\ Len(ring) \in Nat /\ tc \in Nat /\ epoch \in Nat /\ framesDue \in Nat
      /\ allowance \in Int /\ shown \in Nat
  BY RingAssumption, LenProperties DEF TypeInv, RingTypeOK
<1>2. Owed \in Nat
  BY <1>1 DEF Owed, Remaining, TypeInv
<1>3. Parts * Owed \in Nat
  BY <1>1, <1>2, ProductStep
<1> QED
  BY <1>1, <1>2, <1>3 DEF Frame, FrameSet

LEMMA DelayInit == RingInit => DelayInv
<1> SUFFICES ASSUME RingInit PROVE DelayInv
  OBVIOUS
<1>1. ring = <<>> /\ ring \in Seq(Sample) /\ Len(ring) = 0
  BY EmptySeq DEF RingInit
<1>2. RingTypeOK
  BY <1>1, RingAssumption DEF RingInit, RingTypeOK
<1> QED
  BY <1>2 DEF RingInit, DelayInv, TypeInv, QueueInv, Started

\* A frame that is put in makes the queue longer by its length at most.
LEMMA PushKeepsType ==
    ASSUME TypeInv, NEW frame \in FrameSet, ring' = Pushed(ring, frame)
    PROVE  ring' \in Seq(Sample) /\ Len(ring') <= Capacity /\ Len(ring') \in Nat
           /\ Len(ring') <= Len(ring) + Parts
BY PushedQueue, TypeFacts DEF TypeInv, RingTypeOK

LEMMA DelayNext == DelayInv /\ [RingNext]_ringVars => DelayInv'
<1> SUFFICES ASSUME DelayInv, [RingNext]_ringVars PROVE DelayInv'
  OBVIOUS
<1>1. /\ Parts \in Nat \ {0} /\ Capacity \in Nat /\ RingPrefill \in Nat
      /\ Len(ring) \in Nat /\ tc \in Nat /\ epoch \in Nat /\ framesDue \in Nat
      /\ allowance \in Int /\ shown \in Nat
      /\ Frame(tc) \in FrameSet /\ Owed \in Nat
  BY TypeFacts DEF DelayInv
<1>0. Parts * Owed \in Nat
  BY TypeFacts DEF DelayInv
<1>2. CASE ReadFrame
  <2>1. TypeInv'
    BY <1>1, <1>2 DEF ReadFrame, DelayInv, TypeInv, RingTypeOK, frameVars, deviceVars, clapVars
  <2>2. Owed' = Owed
    BY <1>1, <1>2 DEF ReadFrame, Owed, Remaining, clapVars
  <2> QED
    BY <1>2, <2>1, <2>2 DEF ReadFrame, DelayInv, QueueInv, Started, frameVars
<1>3. CASE PushSamples
  <2>1. /\ hand \in FrameSet /\ ring' = Pushed(ring, hand) /\ framesDue >= 1
    BY <1>3 DEF PushSamples, DelayInv, TypeInv
  <2>2. TypeInv'
    BY <1>3, <2>1, PushKeepsType DEF PushSamples, DelayInv, TypeInv, RingTypeOK, deviceVars, clapVars
  <2>3. Owed' = Owed - 1
    BY <1>1, <1>3 DEF PushSamples, Owed, Remaining
  <2>4. Parts * Owed' = Parts * Owed - Parts
    BY <1>1, <2>3, ProductStep
  <2>5. Len(ring') \in Nat /\ Len(ring') <= Len(ring) + Parts
    BY <2>1, PushKeepsType DEF DelayInv
  <2>6. Len(ring) + Parts * Owed <= allowance /\ allowance' = allowance
    BY <1>3 DEF PushSamples, DelayInv, QueueInv, Started
  <2>7. Len(ring') + Parts * Owed' <= allowance'
    BY <1>0, <1>1, <2>4, <2>5, <2>6
  <2> QED
    BY <2>2, <2>7 DEF DelayInv, QueueInv
<1>4. CASE Advance
  <2>1. TypeInv'
    BY <1>1, <1>4 DEF Advance, DelayInv, TypeInv, RingTypeOK, frameVars, deviceVars, clapVars
  <2>2. Owed' = Owed
    BY <1>1, <1>4 DEF Advance, Owed, Remaining, clapVars
  <2> QED
    BY <1>4, <2>1, <2>2 DEF Advance, DelayInv, QueueInv, Started, frameVars
<1>5. CASE StartRing
  <2>1. PICK start \in RingStarts : tc' = start - 1 /\ shown' = start
    BY <1>5 DEF StartRing
  <2>2. start \in Nat \ {0}
    BY RingAssumption
  <2>3. /\ ring' = ring /\ framesDue' = 1 /\ stage' = "prefill" /\ epoch' = epoch + 1
        /\ epoch < MaxEpochs
        /\ allowance' = Len(ring) + Parts * (RingPrefill + 2)
        /\ UNCHANGED <<behind, heard, gap>>
    BY <1>5 DEF StartRing, frameVars, deviceVars
  <2>4. epoch' \in 0 .. MaxEpochs
    BY <1>1, <2>3, RingAssumption
  <2>5. Owed' = RingPrefill + 2 /\ Parts * (RingPrefill + 2) \in Int
    BY <1>1, <2>1, <2>2, <2>3, ProductStep DEF Owed, Remaining
  <2>6. TypeInv'
    BY <1>1, <2>1, <2>2, <2>3, <2>4, <2>5 DEF DelayInv, TypeInv, RingTypeOK
  <2>7. Len(ring') + Parts * Owed' <= allowance'
    BY <1>1, <2>3, <2>5
  <2> QED
    BY <2>6, <2>7 DEF DelayInv, QueueInv
<1>6. CASE PrefillFrame
  <2>1. /\ ring' = Pushed(ring, Frame(tc)) /\ tc' = tc + 1 /\ stage = "prefill"
        /\ stage' = IF tc' = shown + RingPrefill THEN "wait" ELSE "prefill"
        /\ UNCHANGED <<epoch, framesDue, behind, heard, gap, shown, allowance>>
    BY <1>6 DEF PrefillFrame, deviceVars, clapVars
  <2>2. tc < shown + RingPrefill
    BY <2>1 DEF DelayInv, TypeInv
  <2>3. TypeInv'
    BY <1>1, <2>1, <2>2, PushKeepsType DEF DelayInv, TypeInv, RingTypeOK
  <2>4. Owed' = Owed - 1
    BY <1>1, <2>1 DEF Owed, Remaining
  <2>5. Parts * Owed' = Parts * Owed - Parts
    BY <1>1, <2>4, ProductStep
  <2>6. Len(ring') \in Nat /\ Len(ring') <= Len(ring) + Parts
    BY <1>1, <2>1, PushKeepsType DEF DelayInv
  <2>7. Len(ring) + Parts * Owed <= allowance
    BY <2>1 DEF DelayInv, QueueInv, Started
  <2>8. Len(ring') + Parts * Owed' <= allowance'
    BY <1>0, <1>1, <2>1, <2>5, <2>6, <2>7
  <2> QED
    BY <2>3, <2>8 DEF DelayInv, QueueInv
<1>7. CASE ResetLtc
  <2>1. /\ tc' \in RingStarts /\ shown' = tc' /\ Streaming /\ epoch < MaxEpochs
        /\ epoch' = epoch + 1 /\ framesDue' = 1 /\ allowance' = allowance + Parts
        /\ UNCHANGED <<ring, stage, hand, behind, heard, gap>>
    BY <1>7 DEF ResetLtc, frameVars, deviceVars
  <2>2. tc' \in Nat /\ epoch' \in 0 .. MaxEpochs
    BY <1>1, <2>1, RingAssumption
  <2>3. TypeInv'
    <3>1. RingTypeOK'
      BY <1>1, <2>1, <2>2 DEF DelayInv, TypeInv, RingTypeOK
    <3>2. shown' \in Nat /\ stage' # "prefill"
      BY <2>1, <2>2 DEF Streaming
    <3>3. allowance' \in Int
      BY <1>1, <2>1
    <3> QED
      BY <2>1, <3>1, <3>2, <3>3 DEF DelayInv, TypeInv
  <2>4. Owed' \in {0, 1} /\ (Owed' = 0 => Owed >= 0)
    BY <1>1, <2>1 DEF Owed, Remaining, Streaming
  <2>5. Parts * 0 = 0 /\ Parts * 1 = Parts
    BY <1>1
  <2>6. Parts * Owed' <= Parts * Owed + Parts /\ Parts * Owed' \in Int
    <3>1. CASE Owed' = 0
      BY <1>0, <1>1, <2>5, <3>1
    <3>2. CASE Owed' = 1
      BY <1>0, <1>1, <2>5, <3>2
    <3> QED
      BY <2>4, <3>1, <3>2
  <2>7. Len(ring) + Parts * Owed <= allowance
    BY <2>1 DEF DelayInv, QueueInv, Started, Streaming
  <2>8. Len(ring') + Parts * Owed' <= allowance'
    BY <1>0, <1>1, <2>1, <2>6, <2>7
  <2> QED
    BY <2>3, <2>8 DEF DelayInv, QueueInv
<1>8. CASE StopRing
  BY <1>1, <1>8 DEF StopRing, DelayInv, TypeInv, RingTypeOK, QueueInv, Started,
                    frameVars, deviceVars
<1>9. CASE Show \/ Clap
  <2>1. /\ shown' \in Nat /\ stage # "prefill"
        /\ UNCHANGED <<frameVars, makingVars, deviceVars, allowance>>
    BY <1>1, <1>9 DEF Show, Clap, Streaming
  <2>2. Owed' = Owed
    BY <2>1 DEF Owed, Remaining, makingVars
  <2> QED
    BY <1>1, <2>1, <2>2 DEF DelayInv, TypeInv, RingTypeOK, QueueInv, Started,
                            frameVars, makingVars, deviceVars
<1>10. CASE Tick
  <2>1. /\ behind' = behind + Parts /\ behind + Parts <= MaxBehind
        /\ \/ Started /\ framesDue' = framesDue + 1 /\ allowance' = allowance + Parts
           \/ ~Started /\ UNCHANGED <<framesDue, allowance>>
        /\ UNCHANGED <<ring, tc, epoch, stage, hand, heard, gap, shown>>
    BY <1>10 DEF Tick, frameVars, clapVars
  <2>2. behind' \in -MaxAhead .. MaxBehind
    BY <1>1, <2>1, RingAssumption DEF DelayInv, TypeInv, RingTypeOK
  <2>3. TypeInv'
    BY <1>1, <2>1, <2>2 DEF DelayInv, TypeInv, RingTypeOK
  <2>4. CASE Started
    <3>1. Owed' = Owed + 1 /\ allowance' = allowance + Parts
      BY <1>1, <2>1, <2>4 DEF Owed, Remaining
    <3>2. Parts * Owed' = Parts * Owed + Parts
      BY <1>1, <3>1, ProductStep
    <3>3. Len(ring) + Parts * Owed <= allowance
      BY <2>4 DEF DelayInv, QueueInv
    <3>4. Len(ring') + Parts * Owed' <= allowance'
      BY <1>0, <1>1, <2>1, <3>1, <3>2, <3>3
    <3> QED
      BY <2>3, <3>4 DEF DelayInv, QueueInv
  <2>5. CASE ~Started
    BY <2>1, <2>3, <2>5 DEF DelayInv, QueueInv, Started
  <2> QED
    BY <2>4, <2>5
<1>11. CASE Callback
  <2>1. /\ behind' = behind - 1 /\ behind > -MaxAhead
        /\ UNCHANGED <<tc, epoch, framesDue, stage, hand, shown>>
        /\ \/ /\ ring # <<>> /\ heard' = Head(ring) /\ ring' = Tail(ring) /\ gap' = FALSE
              /\ allowance' = IF Started THEN allowance - 1 ELSE allowance
           \/ gap' = TRUE /\ UNCHANGED <<heard, ring, allowance>>
    BY <1>11 DEF Callback, makingVars
  <2>2. behind' \in -MaxAhead .. MaxBehind
    BY <1>1, <2>1, RingAssumption DEF DelayInv, TypeInv, RingTypeOK
  <2>3. Owed' = Owed
    BY <2>1 DEF Owed, Remaining
  <2>4. ring # <<>> => /\ Head(ring) \in Sample /\ Tail(ring) \in Seq(Sample)
                       /\ Len(Tail(ring)) = Len(ring) - 1
    BY HeadTailProperties DEF DelayInv, TypeInv, RingTypeOK
  <2>5. TypeInv'
    <3>1. RingTypeOK'
      <4>1. ring' \in Seq(Sample) /\ Len(ring') <= Capacity
        BY <1>1, <2>1, <2>4 DEF DelayInv, TypeInv, RingTypeOK
      <4> QED
        BY <2>1, <2>2, <4>1 DEF DelayInv, TypeInv, RingTypeOK
    <3> QED
      BY <1>1, <2>1, <2>4, <3>1 DEF DelayInv, TypeInv
  <2>6. Started => Len(ring) + Parts * Owed <= allowance
    BY DEF DelayInv, QueueInv
  <2>7. Started' => Len(ring') + Parts * Owed' <= allowance'
    BY <1>0, <1>1, <2>1, <2>3, <2>4, <2>6 DEF Started
  <2> QED
    BY <2>5, <2>7 DEF DelayInv, QueueInv
<1>12. CASE UNCHANGED ringVars
  <2>1. UNCHANGED <<ring, tc, epoch, framesDue, stage, hand, behind, heard, gap, shown, allowance>>
    BY <1>12 DEF ringVars, frameVars, makingVars, deviceVars, clapVars
  <2>2. Owed' = Owed
    BY <2>1 DEF Owed, Remaining
  <2> QED
    BY <2>1, <2>2 DEF DelayInv, TypeInv, RingTypeOK, QueueInv, Started
<1> QED
  BY <1>2, <1>3, <1>4, <1>5, <1>6, <1>7, <1>8, <1>9, <1>10, <1>11, <1>12
     DEF RingNext, RingScheduler

\* The variables of SignalRing keep their types, for any capacity and length
\* of frames; the queue is never longer than the ring buffer.
THEOREM RingTypeInvariant == RingSpec => []RingTypeOK
<1>1. DelayInv => RingTypeOK
  BY DEF DelayInv, TypeInv
<1> QED
  BY <1>1, DelayInit, DelayNext, PTL DEF RingSpec

\* The delay of the signal is accounted for by the prefill, the rest of the
\* session before, the resets and the lead of the clock, through any stalls,
\* restarts and resets (start_ltc, push_frame and the scheduler thread of
\* audio_output.rs).
THEOREM QueueAlwaysAccounted == RingSpec => []QueueIsAccounted
<1>1. DelayInv => QueueIsAccounted
  <2> SUFFICES ASSUME DelayInv, Streaming PROVE QueueIsAccounted
    BY DEF QueueIsAccounted
  <2>1. Owed = framesDue - (IF stage = "advance" THEN 1 ELSE 0)
    BY TypeFacts DEF Owed, Remaining, Streaming, DelayInv
  <2>2. Started
    BY DEF Started, Streaming
  <2> QED
    BY <2>1, <2>2 DEF DelayInv, QueueInv, QueueIsAccounted
<1> QED
  BY <1>1, DelayInit, DelayNext, PTL DEF RingSpec

-----------------------------------------------------------------------------
(* What is heard.  The sample heard last and the queue after it are one    *)
(* line of samples, in which each follows from the one before; the frame   *)
(* to be made next follows from the last of them.  c and l are the frames  *)
(* cut and lost.                                                           *)

Whole(c, a) == a.part = Parts \/ a.frame \in c

Follows(l, f, g) ==
    \/ g.epoch > f.epoch
    \/ g.epoch = f.epoch /\ g.tc > f.tc /\ \A n \in f.tc + 1 .. g.tc - 1 : [f EXCEPT !.tc = n] \in l

Succeeds(c, l, a, b) ==
    \/ b = [a EXCEPT !.part = @ + 1]
    \/ b.part = 1 /\ Whole(c, a) /\ Follows(l, a.frame, b.frame)

LineInv ==
    /\ \A i \in 1 .. Len(ring) - 1 : Succeeds(cut, lost, ring[i], ring[i + 1])
    /\ ring # <<>> => Whole(cut, ring[Len(ring)])
    /\ ring # <<>> /\ heard # Nothing => Succeeds(cut, lost, heard, ring[1])
    /\ ring # <<>> /\ gap => ring[1].part = 1
    /\ heard # Nothing /\ (gap \/ ring = <<>>) => Whole(cut, heard)
    /\ heard = Nothing => gap

\* The last frame of the line, if there is one, comes before g.
EndsBefore(l, g) ==
    /\ ring # <<>> => Follows(l, ring[Len(ring)].frame, g)
    /\ ring = <<>> /\ heard # Nothing => Follows(l, heard.frame, g)

\* What the last frame of the line tells of the frames to come.
MakingInv ==
    /\ ring # <<>> => ring[Len(ring)].frame.epoch <= epoch
    /\ ring = <<>> /\ heard # Nothing => heard.frame.epoch <= epoch
    /\ stage \in {"prefill", "wait"} => EndsBefore(lost, Frame(tc))
    /\ stage = "push" => /\ EndsBefore(lost, hand)
                         /\ hand.epoch < epoch \/ hand = Frame(tc)
    /\ stage = "advance" => EndsBefore(lost, Frame(tc + 1))

HeardInv == DelayInv /\ LineInv /\ MakingInv

LEMMA FollowsOn ==
    ASSUME NEW l, NEW f \in FrameSet, NEW g \in FrameSet, NEW h \in FrameSet,
           Follows(l, f, g), Follows(l, g, h), g \in l
    PROVE  Follows(l, f, h)
<1>1. /\ f.epoch \in Nat /\ g.epoch \in Nat /\ h.epoch \in Nat
      /\ f.tc \in Nat /\ g.tc \in Nat /\ h.tc \in Nat
  BY DEF FrameSet
<1>2. CASE g.epoch = f.epoch /\ h.epoch = g.epoch
  <2>1. g.tc > f.tc /\ h.tc > g.tc
    BY <1>1, <1>2 DEF Follows
  <2>2. ASSUME NEW n \in f.tc + 1 .. h.tc - 1 PROVE [f EXCEPT !.tc = n] \in l
    <3>1. CASE n < g.tc
      <4>1. n \in f.tc + 1 .. g.tc - 1
        BY <1>1, <3>1
      <4> QED
        BY <1>1, <1>2, <4>1 DEF Follows
    <3>2. CASE n = g.tc
      <4>1. [f EXCEPT !.tc = n] = g
        BY <1>2, <3>2 DEF FrameSet
      <4> QED
        BY <4>1
    <3>3. CASE n > g.tc
      <4>1. n \in g.tc + 1 .. h.tc - 1
        BY <1>1, <3>3
      <4>2. [g EXCEPT !.tc = n] \in l
        BY <1>1, <1>2, <4>1 DEF Follows
      <4>3. [f EXCEPT !.tc = n] = [g EXCEPT !.tc = n]
        BY <1>2 DEF FrameSet
      <4> QED
        BY <4>2, <4>3
    <3> QED
      BY <1>1, <3>1, <3>2, <3>3
  <2> QED
    BY <1>1, <1>2, <2>1, <2>2 DEF Follows
<1>3. CASE ~(g.epoch = f.epoch /\ h.epoch = g.epoch)
  BY <1>1, <1>3 DEF Follows
<1> QED
  BY <1>2, <1>3

\* Frames that are cut or lost stay so.
LEMMA MoreCutOrLost ==
    ASSUME NEW c, NEW l, NEW d, NEW m, c \subseteq d, l \subseteq m
    PROVE  /\ \A a : Whole(c, a) => Whole(d, a)
           /\ \A f, g : Follows(l, f, g) => Follows(m, f, g)
           /\ \A a, b : Succeeds(c, l, a, b) => Succeeds(d, m, a, b)
BY DEF Whole, Follows, Succeeds

\* A frame that is put in goes on the line, which then ends with it, unless
\* nothing of it fits.
LEMMA PushKeepsLine ==
    ASSUME TypeInv, LineInv, NEW frame \in FrameSet, EndsBefore(lost, frame),
           ring' = Pushed(ring, frame), Note(ring, frame), UNCHANGED <<heard, gap>>
    PROVE  /\ LineInv'
           /\ lost \subseteq lost'
           /\ \/ /\ frame \in lost' /\ Len(ring') = Len(ring)
                 /\ ring # <<>> => ring'[Len(ring')] = ring[Len(ring)]
                 /\ ring = <<>> <=> ring' = <<>>
              \/ ring' # <<>> /\ ring'[Len(ring')].frame = frame
<1> DEFINE n == Len(ring)
           m == Len(ring')
<1>1. /\ Parts \in Nat \ {0} /\ Capacity \in Nat /\ ring \in Seq(Sample) /\ n \in Nat
      /\ n <= Capacity
  BY TypeFacts DEF TypeInv, RingTypeOK
<1>2. /\ ring' \in Seq(Sample)
      /\ m = IF n + Parts > Capacity THEN Capacity ELSE n + Parts
      /\ \A i \in 1 .. n : ring'[i] = ring[i]
      /\ \A i \in n + 1 .. m : ring'[i] = [frame |-> frame, part |-> i - n]
  BY <1>1, PushedQueue
<1>3. m \in Nat /\ n <= m /\ m <= n + Parts
  BY <1>1, <1>2
<1>4. /\ ring = <<>> <=> n = 0
      /\ ring' = <<>> <=> m = 0
  BY <1>1, <1>2, EmptySeq
<1>5. cut \subseteq cut' /\ lost \subseteq lost'
  BY DEF Note
<1>6. n < m /\ m - n < Parts => frame \in cut'
  <2> SUFFICES ASSUME n < m, m - n < Parts PROVE frame \in cut'
    OBVIOUS
  <2>1. m = Capacity
    BY <1>1, <1>2
  <2>2. Room(ring) \in 1 .. Parts - 1
    BY <1>1, <2>1 DEF Room
  <2> QED
    BY <2>2 DEF Note
<1>7. n = m => frame \in lost'
  <2> SUFFICES ASSUME n = m PROVE frame \in lost'
    OBVIOUS
  <2>1. Room(ring) = 0
    BY <1>1, <1>2 DEF Room
  <2> QED
    BY <2>1 DEF Note
<1> HIDE DEF n, m
<1>8. n < m => m \in n + 1 .. m /\ ring'[m] = [frame |-> frame, part |-> m - n] /\ Whole(cut', ring'[m])
  <2> SUFFICES ASSUME n < m
               PROVE  m \in n + 1 .. m /\ ring'[m] = [frame |-> frame, part |-> m - n] /\ Whole(cut', ring'[m])
    OBVIOUS
  <2>1. m \in n + 1 .. m
    BY <1>1, <1>3
  <2>2. ring'[m] = [frame |-> frame, part |-> m - n]
    BY <1>2, <2>1
  <2>3. m - n = Parts \/ m - n < Parts
    BY <1>1, <1>3
  <2> QED
    BY <1>6, <2>1, <2>2, <2>3 DEF Whole
<1>9. n > 0 => n \in 1 .. n /\ ring'[n] = ring[n] /\ 1 \in 1 .. n /\ ring'[1] = ring[1]
  BY <1>1, <1>2
<1>10. n < m => n + 1 \in n + 1 .. m /\ ring'[n + 1].part = 1 /\ ring'[n + 1].frame = frame
  <2> SUFFICES ASSUME n < m PROVE n + 1 \in n + 1 .. m /\ ring'[n + 1].part = 1 /\ ring'[n + 1].frame = frame
    OBVIOUS
  <2>1. n + 1 \in n + 1 .. m /\ (n + 1) - n = 1
    BY <1>1, <1>3
  <2>2. ring'[n + 1] = [frame |-> frame, part |-> (n + 1) - n]
    BY <1>2, <2>1
  <2> QED
    BY <2>1, <2>2
<1>11. /\ n > 0 => Whole(cut', ring[n]) /\ Follows(lost', ring[n].frame, frame)
       /\ n = 0 /\ heard # Nothing => Whole(cut', heard) /\ Follows(lost', heard.frame, frame)
  <2>1. /\ n > 0 => Whole(cut, ring[n]) /\ Follows(lost, ring[n].frame, frame)
        /\ n = 0 /\ heard # Nothing => Whole(cut, heard) /\ Follows(lost, heard.frame, frame)
    BY <1>1, <1>4 DEF LineInv, EndsBefore, n
  <2> QED
    BY <1>5, <2>1, MoreCutOrLost
<1>12. ASSUME NEW i \in 1 .. m - 1 PROVE Succeeds(cut', lost', ring'[i], ring'[i + 1])
  <2>1. CASE i < n
    <3>1. i \in 1 .. n /\ i + 1 \in 1 .. n /\ i \in 1 .. n - 1
      BY <1>1, <2>1
    <3>2. Succeeds(cut, lost, ring[i], ring[i + 1])
      BY <3>1 DEF LineInv, n
    <3>3. Succeeds(cut', lost', ring[i], ring[i + 1])
      BY <1>5, <3>2, MoreCutOrLost
    <3> QED
      BY <1>2, <3>1, <3>3
  <2>2. CASE i = n
    BY <1>1, <1>3, <1>9, <1>10, <1>11, <2>2 DEF Succeeds
  <2>3. CASE i > n
    <3>1. i \in n + 1 .. m /\ i + 1 \in n + 1 .. m /\ (i + 1) - n = (i - n) + 1
      BY <1>1, <1>3, <2>3
    <3>2. ring'[i] = [frame |-> frame, part |-> i - n] /\ ring'[i + 1] = [frame |-> frame, part |-> (i - n) + 1]
      BY <1>2, <3>1
    <3> QED
      BY <3>2 DEF Succeeds
  <2> QED
    BY <1>1, <1>3, <2>1, <2>2, <2>3
<1>13. ring' # <<>> => Whole(cut', ring'[m])
  BY <1>1, <1>3, <1>4, <1>8, <1>9, <1>11
<1>14. ring' # <<>> /\ heard # Nothing => Succeeds(cut', lost', heard, ring'[1])
  <2>1. CASE n > 0
    <3>1. heard # Nothing => Succeeds(cut, lost, heard, ring[1])
      BY <1>1, <1>4, <2>1 DEF LineInv
    <3>2. heard # Nothing => Succeeds(cut', lost', heard, ring[1])
      BY <1>5, <3>1, MoreCutOrLost
    <3> QED
      BY <1>9, <2>1, <3>2
  <2>2. CASE n = 0
    BY <1>1, <1>3, <1>4, <1>10, <1>11, <2>2 DEF Succeeds
  <2> QED
    BY <1>1, <2>1, <2>2
<1>15. ring' # <<>> /\ gap => ring'[1].part = 1
  <2>1. CASE n > 0
    BY <1>1, <1>4, <1>9, <2>1 DEF LineInv
  <2>2. CASE n = 0
    BY <1>1, <1>3, <1>4, <1>10, <2>2
  <2> QED
    BY <1>1, <2>1, <2>2
<1>16. heard # Nothing /\ (gap \/ ring' = <<>>) => Whole(cut', heard)
  <2>1. ring' = <<>> => ring = <<>>
    BY <1>1, <1>3, <1>4
  <2>2. heard # Nothing /\ (gap \/ ring' = <<>>) => Whole(cut, heard)
    BY <2>1 DEF LineInv
  <2> QED
    BY <1>5, <2>2, MoreCutOrLost
<1>17. heard = Nothing => gap
  BY DEF LineInv
<1>18. LineInv'
  BY <1>12, <1>13, <1>14, <1>15, <1>16, <1>17 DEF LineInv, m
<1>19. CASE n = m
  BY <1>1, <1>4, <1>5, <1>7, <1>9, <1>18, <1>19 DEF n, m
<1>20. CASE n < m
  BY <1>1, <1>4, <1>5, <1>8, <1>18, <1>20 DEF n, m
<1> QED
  BY <1>1, <1>3, <1>19, <1>20

\* After it, what comes after the frame comes after the line.
LEMMA PushEndsBefore ==
    ASSUME TypeInv, LineInv, NEW frame \in FrameSet, EndsBefore(lost, frame),
           ring' = Pushed(ring, frame), Note(ring, frame), UNCHANGED <<heard, gap>>,
           NEW g \in FrameSet, Follows(lost', frame, g)
    PROVE  EndsBefore(lost, g)'
<1>1. /\ lost \subseteq lost'
      /\ \/ /\ frame \in lost' /\ Len(ring') = Len(ring)
            /\ ring # <<>> => ring'[Len(ring')] = ring[Len(ring)]
            /\ ring = <<>> <=> ring' = <<>>
         \/ ring' # <<>> /\ ring'[Len(ring')].frame = frame
  BY PushKeepsLine
<1>2. CASE ring' # <<>> /\ ring'[Len(ring')].frame = frame
  BY <1>2 DEF EndsBefore
<1>3. CASE /\ frame \in lost' /\ Len(ring') = Len(ring)
           /\ ring # <<>> => ring'[Len(ring')] = ring[Len(ring)]
           /\ ring = <<>> <=> ring' = <<>>
  <2>1. ring # <<>> => /\ ring[Len(ring)].frame \in FrameSet
                       /\ Follows(lost', ring[Len(ring)].frame, frame)
    <3> SUFFICES ASSUME ring # <<>>
                 PROVE  /\ ring[Len(ring)].frame \in FrameSet
                        /\ Follows(lost', ring[Len(ring)].frame, frame)
      OBVIOUS
    <3>1. ring[Len(ring)] \in Sample
      <4>1. ring \in Seq(Sample) /\ Len(ring) \in 1 .. Len(ring)
        BY EmptySeq, TypeFacts DEF TypeInv, RingTypeOK
      <4> QED
        BY <4>1, ElementOfSeq
    <3>2. Follows(lost, ring[Len(ring)].frame, frame)
      BY DEF EndsBefore
    <3> QED
      BY <1>1, <3>1, <3>2, MoreCutOrLost DEF Sample, FrameSet
  <2>2. ring = <<>> /\ heard # Nothing => heard.frame \in FrameSet /\ Follows(lost', heard.frame, frame)
    <3> SUFFICES ASSUME ring = <<>>, heard # Nothing
                 PROVE  heard.frame \in FrameSet /\ Follows(lost', heard.frame, frame)
      OBVIOUS
    <3>1. Follows(lost, heard.frame, frame)
      BY DEF EndsBefore
    <3> QED
      BY <1>1, <3>1, MoreCutOrLost DEF TypeInv, Sample, FrameSet
  <2>3. ring # <<>> => Follows(lost', ring[Len(ring)].frame, g)
    BY <1>3, <2>1, FollowsOn
  <2>4. ring = <<>> /\ heard # Nothing => Follows(lost', heard.frame, g)
    BY <1>3, <2>2, FollowsOn
  <2> QED
    BY <1>3, <2>3, <2>4 DEF EndsBefore
<1> QED
  BY <1>1, <1>2, <1>3

LEMMA HeardInit == RingInit => HeardInv
<1> SUFFICES ASSUME RingInit PROVE HeardInv
  OBVIOUS
<1>1. LineInv
  BY EmptySeq DEF RingInit, LineInv
<1>2. MakingInv
  BY DEF RingInit, MakingInv
<1> QED
  BY <1>1, <1>2, DelayInit DEF HeardInv

\* An action that leaves the line alone leaves LineInv alone.
LEMMA LineStutter ==
    ASSUME LineInv, UNCHANGED <<ring, cut, lost, heard, gap>> PROVE LineInv'
BY DEF LineInv

\* A sample on the line comes from a frame that was made.
LEMMA LineFacts ==
    ASSUME TypeInv
    PROVE  /\ ring # <<>> => /\ ring[Len(ring)] \in Sample /\ ring[Len(ring)].frame \in FrameSet
                             /\ ring[1] \in Sample
           /\ heard # Nothing => heard \in Sample /\ heard.frame \in FrameSet
<1>1. ring # <<>> => Len(ring) \in 1 .. Len(ring) /\ 1 \in 1 .. Len(ring)
  BY EmptySeq, TypeFacts DEF TypeInv, RingTypeOK
<1>2. ring # <<>> => ring[Len(ring)] \in Sample /\ ring[1] \in Sample
  BY <1>1, ElementOfSeq DEF TypeInv, RingTypeOK
<1> QED
  BY <1>2 DEF TypeInv, Sample, FrameSet

LEMMA HeardNext == HeardInv /\ [RingNext]_ringVars => HeardInv'
<1> SUFFICES ASSUME HeardInv, [RingNext]_ringVars PROVE HeardInv'
  OBVIOUS
<1>1. TypeInv /\ DelayInv'
  BY DelayNext DEF HeardInv, DelayInv
<1>2. /\ tc \in Nat /\ epoch \in Nat /\ Frame(tc) \in FrameSet /\ Len(ring) \in Nat
      /\ Parts \in Nat \ {0} /\ Capacity \in Nat
  BY <1>1, TypeFacts
<1>3. tc + 1 \in Nat /\ Frame(tc + 1) \in FrameSet
  BY <1>2 DEF Frame, FrameSet
<1>4. CASE ReadFrame
  <2>1. /\ UNCHANGED <<ring, cut, lost, heard, gap, tc, epoch>> /\ stage = "wait" /\ stage' = "push"
        /\ hand' = Frame(tc)
    BY <1>4 DEF ReadFrame, frameVars, deviceVars
  <2>2. LineInv'
    BY <2>1, LineStutter DEF HeardInv
  <2>3. MakingInv'
    BY <2>1 DEF HeardInv, MakingInv, EndsBefore, Frame
  <2> QED
    BY <1>1, <2>2, <2>3 DEF HeardInv
<1>5. CASE PushSamples
  <2>1. /\ UNCHANGED <<heard, gap, tc, epoch>> /\ stage = "push" /\ stage' = "advance"
        /\ ring' = Pushed(ring, hand) /\ Note(ring, hand)
        /\ hand \in FrameSet
    BY <1>1, <1>5 DEF PushSamples, deviceVars, TypeInv
  <2>2. EndsBefore(lost, hand) /\ (hand.epoch < epoch \/ hand = Frame(tc)) /\ LineInv
    BY <2>1 DEF HeardInv, MakingInv
  <2>3. LineInv'
    BY <1>1, <2>1, <2>2, PushKeepsLine
  <2>4. Follows(lost', hand, Frame(tc + 1))
    BY <1>2, <2>1, <2>2 DEF Follows, Frame, FrameSet
  <2>5. EndsBefore(lost, Frame(tc + 1))'
    <3>1. \A g \in FrameSet : Follows(lost', hand, g) => EndsBefore(lost, g)'
      BY <1>1, <2>1, <2>2, PushEndsBefore
    <3>2. Frame(tc + 1)' = Frame(tc + 1)
      BY <2>1 DEF Frame
    <3> QED
      BY <1>3, <2>4, <3>1, <3>2 DEF EndsBefore
  <2>6. /\ ring' # <<>> => ring'[Len(ring')].frame.epoch <= epoch'
        /\ ring' = <<>> /\ heard' # Nothing => heard'.frame.epoch <= epoch'
    <3>1. hand.epoch <= epoch
      BY <1>2, <2>1, <2>2 DEF Frame, FrameSet
    <3> QED
      BY <1>1, <1>2, <2>1, <2>2, <3>1, PushKeepsLine DEF HeardInv, MakingInv
  <2>7. MakingInv'
    BY <2>1, <2>5, <2>6 DEF MakingInv
  <2> QED
    BY <1>1, <2>3, <2>7 DEF HeardInv
<1>6. CASE Advance
  <2>1. /\ UNCHANGED <<ring, cut, lost, heard, gap, epoch>> /\ stage = "advance" /\ stage' = "wait"
        /\ tc' = tc + 1
    BY <1>6 DEF Advance, frameVars, deviceVars
  <2>2. LineInv'
    BY <2>1, LineStutter DEF HeardInv
  <2>3. MakingInv'
    BY <2>1 DEF HeardInv, MakingInv, EndsBefore, Frame
  <2> QED
    BY <1>1, <2>2, <2>3 DEF HeardInv
<1>7. CASE StartRing \/ ResetLtc
  <2>1. /\ UNCHANGED <<ring, cut, lost, heard, gap>> /\ epoch' = epoch + 1
        /\ stage = "push" <=> stage' = "push"
        /\ stage = "push" => hand' = hand
    BY <1>7 DEF StartRing, ResetLtc, frameVars, deviceVars, Started, Streaming
  <2>2. LineInv'
    BY <2>1, LineStutter DEF HeardInv
  <2>3. /\ ring # <<>> => ring[Len(ring)].frame.epoch < epoch' /\ ring[Len(ring)].frame.epoch \in Nat
        /\ ring = <<>> /\ heard # Nothing => heard.frame.epoch < epoch' /\ heard.frame.epoch \in Nat
    BY <1>1, <1>2, <2>1, LineFacts DEF HeardInv, MakingInv, FrameSet
  <2>4. \A g \in FrameSet : g.epoch = epoch' => EndsBefore(lost, g)'
    BY <2>1, <2>3 DEF EndsBefore, Follows
  <2>5. tc' \in Nat /\ tc' + 1 \in Nat /\ epoch' \in Nat
    <3>1. tc' \in Nat /\ epoch' \in 0 .. MaxEpochs
      BY <1>1 DEF DelayInv, TypeInv, RingTypeOK
    <3>2. \A n \in Nat : n + 1 \in Nat
      OBVIOUS
    <3>3. MaxEpochs \in Nat
      BY RingAssumption
    <3>4. tc' \in Nat /\ tc' + 1 \in Nat
      BY <3>1, <3>2
    <3>5. epoch' \in Nat
      BY <3>1, <3>3
    <3> QED
      BY <3>4, <3>5
  <2>6. EndsBefore(lost, Frame(tc))' /\ EndsBefore(lost, Frame(tc + 1))'
    <3>1. /\ [epoch |-> epoch', tc |-> tc'] \in FrameSet
          /\ [epoch |-> epoch', tc |-> tc' + 1] \in FrameSet
      BY <2>5 DEF FrameSet
    <3> QED
      BY <2>1, <2>3, <3>1 DEF EndsBefore, Frame, Follows
  <2>7. stage' = "push" => EndsBefore(lost, hand)' /\ hand'.epoch < epoch'
    <3> SUFFICES ASSUME stage' = "push" PROVE EndsBefore(lost, hand)' /\ hand'.epoch < epoch'
      OBVIOUS
    <3>1. hand' = hand /\ hand \in FrameSet /\ EndsBefore(lost, hand) /\ (hand.epoch < epoch \/ hand = Frame(tc))
      BY <1>1, <2>1 DEF HeardInv, MakingInv, TypeInv
    <3>2. hand.epoch < epoch'
      BY <1>2, <2>1, <3>1 DEF FrameSet, Frame
    <3> QED
      BY <2>1, <3>1, <3>2 DEF EndsBefore
  <2>8. MakingInv'
    <3>1. /\ ring' # <<>> => ring'[Len(ring')].frame.epoch <= epoch'
          /\ ring' = <<>> /\ heard' # Nothing => heard'.frame.epoch <= epoch'
      BY <1>2, <2>1, <2>3
    <3> QED
      BY <2>6, <2>7, <3>1 DEF MakingInv
  <2> QED
    BY <1>1, <2>2, <2>8 DEF HeardInv
<1>8. CASE PrefillFrame
  <2>1. /\ UNCHANGED <<heard, gap, epoch>> /\ stage = "prefill" /\ stage' \in {"prefill", "wait"}
        /\ tc' = tc + 1 /\ ring' = Pushed(ring, Frame(tc)) /\ Note(ring, Frame(tc))
    BY <1>8 DEF PrefillFrame, deviceVars
  <2>2. EndsBefore(lost, Frame(tc)) /\ LineInv
    BY <2>1 DEF HeardInv, MakingInv
  <2>3. LineInv'
    BY <1>1, <1>2, <2>1, <2>2, PushKeepsLine
  <2>4. Follows(lost', Frame(tc), Frame(tc + 1))
    BY <1>2 DEF Follows, Frame
  <2>5. EndsBefore(lost, Frame(tc))'
    <3>1. \A g \in FrameSet : Follows(lost', Frame(tc), g) => EndsBefore(lost, g)'
      BY <1>1, <1>2, <2>1, <2>2, PushEndsBefore
    <3>2. Frame(tc)' = Frame(tc + 1)
      BY <2>1 DEF Frame
    <3> QED
      BY <1>3, <2>4, <3>1, <3>2 DEF EndsBefore
  <2>6. /\ ring' # <<>> => ring'[Len(ring')].frame.epoch <= epoch'
        /\ ring' = <<>> /\ heard' # Nothing => heard'.frame.epoch <= epoch'
    <3>1. Frame(tc).epoch = epoch
      BY DEF Frame
    <3> QED
      BY <1>1, <1>2, <2>1, <2>2, <3>1, PushKeepsLine DEF HeardInv, MakingInv
  <2>7. MakingInv'
    BY <2>1, <2>5, <2>6 DEF MakingInv
  <2> QED
    BY <1>1, <2>3, <2>7 DEF HeardInv
<1>9. CASE StopRing
  <2>1. /\ UNCHANGED <<ring, cut, lost, heard, gap, epoch>> /\ stage' = "exited"
    BY <1>9 DEF StopRing, frameVars, deviceVars
  <2>2. LineInv'
    BY <2>1, LineStutter DEF HeardInv
  <2>3. MakingInv'
    BY <2>1 DEF HeardInv, MakingInv
  <2> QED
    BY <1>1, <2>2, <2>3 DEF HeardInv
<1>10. CASE Show \/ Clap \/ Tick \/ UNCHANGED ringVars
  <2>1. UNCHANGED <<ring, cut, lost, heard, gap, epoch, tc, stage, hand>>
    BY <1>10 DEF Show, Clap, Tick, ringVars, frameVars, makingVars, deviceVars
  <2>2. LineInv'
    BY <2>1, LineStutter DEF HeardInv
  <2>3. MakingInv'
    BY <2>1 DEF HeardInv, MakingInv, EndsBefore, Frame
  <2> QED
    BY <1>1, <2>2, <2>3 DEF HeardInv
<1>11. CASE Callback
  <2>1. UNCHANGED <<cut, lost, epoch, tc, stage, hand>>
    BY <1>11 DEF Callback, makingVars
  <2>2. CASE ring = <<>>
    <3>1. gap' = TRUE /\ UNCHANGED <<heard, ring>>
      BY <1>11, <2>2 DEF Callback
    <3>2. LineInv'
      BY <2>1, <2>2, <3>1 DEF HeardInv, LineInv
    <3>3. MakingInv'
      BY <2>1, <3>1 DEF HeardInv, MakingInv, EndsBefore, Frame
    <3> QED
      BY <1>1, <3>2, <3>3 DEF HeardInv
  <2>3. CASE ring # <<>>
    <3>1. heard' = ring[1] /\ ring' = Tail(ring) /\ gap' = FALSE
      BY <1>11, <2>3 DEF Callback
    <3>2. /\ Len(ring') = Len(ring) - 1 /\ Len(ring) >= 1 /\ ring' \in Seq(Sample)
          /\ \A i \in 1 .. Len(ring) - 1 : ring'[i] = ring[i + 1]
      <4>1. ring \in Seq(Sample)
        BY <1>1 DEF TypeInv, RingTypeOK
      <4> QED
        BY <1>2, <2>3, <3>1, <4>1, HeadTailProperties, EmptySeq
    <3>3. ring' = <<>> <=> Len(ring) = 1
      BY <1>2, <3>2, EmptySeq
    <3>4. heard' # Nothing
      BY <1>1, <2>3, <3>1, LineFacts, NothingAssumption, RingAssumption DEF Sample
    <3>5. ring' # <<>> => /\ ring'[1] = ring[2] /\ 1 \in 1 .. Len(ring) - 1
                          /\ ring'[Len(ring')] = ring[Len(ring)]
      <4> SUFFICES ASSUME ring' # <<>>
                   PROVE  /\ ring'[1] = ring[2] /\ 1 \in 1 .. Len(ring) - 1
                          /\ ring'[Len(ring')] = ring[Len(ring)]
        OBVIOUS
      <4>1. 1 \in 1 .. Len(ring) - 1 /\ Len(ring') \in 1 .. Len(ring) - 1 /\ 1 + 1 = 2
            /\ Len(ring') + 1 = Len(ring)
        BY <1>2, <3>2, <3>3
      <4> QED
        BY <3>2, <4>1
    <3>6. LineInv'
      <4>1. ASSUME NEW i \in 1 .. Len(ring') - 1 PROVE Succeeds(cut, lost, ring'[i], ring'[i + 1])
        <5>1. i \in 1 .. Len(ring) - 1 /\ i + 1 \in 1 .. Len(ring) - 1
          BY <1>2, <3>2
        <5> QED
          BY <3>2, <5>1 DEF HeardInv, LineInv
      <4>2. ring' # <<>> => Whole(cut, ring'[Len(ring')])
        BY <2>3, <3>5 DEF HeardInv, LineInv
      <4>3. ring' # <<>> => Succeeds(cut, lost, heard', ring'[1])
        BY <3>1, <3>5 DEF HeardInv, LineInv
      <4>4. ring' = <<>> => Whole(cut, heard')
        BY <2>3, <3>1, <3>3 DEF HeardInv, LineInv
      <4> QED
        BY <2>1, <3>1, <3>4, <4>1, <4>2, <4>3, <4>4 DEF LineInv
    <3>7. /\ ring' # <<>> => ring'[Len(ring')] = ring[Len(ring)]
          /\ ring' = <<>> => heard' = ring[Len(ring)]
      BY <3>1, <3>3, <3>5
    <3>8. MakingInv'
      BY <2>1, <2>3, <3>7 DEF HeardInv, MakingInv, EndsBefore, Frame
    <3> QED
      BY <1>1, <3>6, <3>8 DEF HeardInv
  <2> QED
    BY <2>2, <2>3
<1> QED
  BY <1>4, <1>5, <1>6, <1>7, <1>8, <1>9, <1>10, <1>11 DEF RingNext, RingScheduler

\* What is heard next comes from the line.
LEMMA HeardStep ==
    ASSUME HeardInv, [RingNext]_ringVars
    PROVE  /\ heard' # heard =>
                /\ ring # <<>> /\ heard' = ring[1] /\ ring[1] \in Sample
                /\ ~gap'
           /\ gap' /\ ~gap => ring = <<>> /\ heard # Nothing
<1>1. TypeInv
  BY DEF HeardInv, DelayInv
<1>2. CASE Callback
  BY <1>1, <1>2, LineFacts DEF Callback, HeardInv, LineInv
<1>3. CASE UNCHANGED <<heard, gap>>
  BY <1>3, <1>1 DEF TypeInv, RingTypeOK
<1> QED
  BY <1>2, <1>3 DEF RingNext, RingScheduler, ReadFrame, PushSamples, Advance, StartRing, PrefillFrame,
     ResetLtc, StopRing, Show, Clap, Tick, ringVars, deviceVars

\* The device plays the frames from their beginning, whole, once and in
\* order; what is missing was dropped because the ring buffer was full
\* (push_slice, the callback of the stream).
THEOREM HeardIsAsMade == RingSpec => HeardAsMade
<1>1. HeardInv /\ [RingNext]_ringVars =>
        [/\ heard' # heard =>
              \/ heard'.part = 1 /\ (heard # Nothing => EndsWhole(heard))
              \/ heard # Nothing /\ ~gap /\ heard' = [heard EXCEPT !.part = @ + 1]
         /\ gap' /\ ~gap => EndsWhole(heard)]_ringVars
  <2> SUFFICES ASSUME HeardInv, [RingNext]_ringVars
               PROVE  /\ heard' # heard =>
                           \/ heard'.part = 1 /\ (heard # Nothing => EndsWhole(heard))
                           \/ heard # Nothing /\ ~gap /\ heard' = [heard EXCEPT !.part = @ + 1]
                      /\ gap' /\ ~gap => EndsWhole(heard)
    OBVIOUS
  <2>1. TypeInv /\ LineInv
    BY DEF HeardInv, DelayInv
  <2>2. gap' /\ ~gap => EndsWhole(heard)
    BY <2>1, HeardStep DEF LineInv, Whole, EndsWhole
  <2>3. ASSUME heard' # heard
        PROVE  \/ heard'.part = 1 /\ (heard # Nothing => EndsWhole(heard))
               \/ heard # Nothing /\ ~gap /\ heard' = [heard EXCEPT !.part = @ + 1]
    <3>1. ring # <<>> /\ heard' = ring[1]
      BY <2>3, HeardStep
    <3>2. CASE heard = Nothing
      BY <2>1, <3>1, <3>2 DEF LineInv
    <3>3. CASE heard # Nothing /\ gap
      BY <2>1, <3>1, <3>3 DEF LineInv, Whole, EndsWhole
    <3>4. CASE heard # Nothing /\ ~gap
      BY <2>1, <3>1, <3>4 DEF LineInv, Succeeds, Whole, EndsWhole
    <3> QED
      BY <2>1, <3>2, <3>3, <3>4 DEF TypeInv, RingTypeOK
  <2> QED
    BY <2>2, <2>3
<1>2. HeardInv /\ [RingNext]_ringVars =>
        [heard' # heard /\ heard # Nothing /\ heard'.frame # heard.frame =>
           LET f == heard.frame
               g == heard'.frame
           IN  \/ g.epoch > f.epoch
               \/ /\ g.epoch = f.epoch /\ g.tc > f.tc
                  /\ \A n \in f.tc + 1 .. g.tc - 1 : [f EXCEPT !.tc = n] \in lost]_ringVars
  <2> SUFFICES ASSUME HeardInv, [RingNext]_ringVars,
                      heard' # heard, heard # Nothing, heard'.frame # heard.frame
               PROVE  Follows(lost, heard.frame, heard'.frame)
    BY DEF Follows
  <2>1. ring # <<>> /\ heard' = ring[1]
    BY HeardStep
  <2>2. Succeeds(cut, lost, heard, ring[1])
    BY <2>1 DEF HeardInv, LineInv
  <2>3. heard \in Sample
    BY DEF HeardInv, DelayInv, TypeInv
  <2>4. ring[1] # [heard EXCEPT !.part = @ + 1]
    BY <2>1, <2>3 DEF Sample
  <2> QED
    BY <2>1, <2>2, <2>4 DEF Succeeds
<1> QED
  BY <1>1, <1>2, HeardInit, HeardNext, PTL DEF RingSpec, HeardAsMade, HeardInFrames, HeardInOrder

-----------------------------------------------------------------------------
(* Engine, scheduler and recovery (LtcTransport).                          *)

StepName == {"stop_ltc", "stop_output", "release", "stopped", "closed", "init",
             "start", "restart", "quit"}
EventName == {"StreamDead", "RecoveryNeeded"}

Before == {<<"stop_ltc", "stopped">>, <<"stop_ltc", "stop_output">>,
           <<"release", "stopped">>, <<"release", "stop_output">>,
           <<"release", "closed">>, <<"release", "quit">>,
           <<"stopped", "stop_output">>, <<"stop_output", "closed">>, <<"stop_output", "quit">>,
           <<"closed", "init">>, <<"init", "start">>, <<"init", "restart">>}

Legal(t) ==
    /\ t \in Seq(StepName)
    /\ \A i \in 1 .. Len(t) - 1 : <<t[i], t[i + 1]>> \in Before
    /\ t # <<>> => t[Len(t)] \in {"stopped", "init", "start", "restart", "quit"}

Has(t, x) == \E i \in 1 .. Len(t) : t[i] = x

First(x) == todo # <<>> /\ Head(todo) = x

\* Whoever was playing will be said to play no more.
Closing == Has(todo, "stopped") \/ Has(todo, "closed") \/ Has(todo, "quit")

BasicInv ==
    /\ output \in Output \cup {Nobody} /\ opened \in Nat
    /\ spawned \in Nat
    /\ ltc \in [Output -> [running : BOOLEAN, tc : Timecode, scheduler : Scheduler \cup {Nobody}]]
    /\ at \in [Scheduler -> {"unborn", "top", "lock", "frame", "update", "exited"}]
    /\ out_of \in [Scheduler -> Output \cup {Nobody}]
    /\ stop_signal \in [Scheduler -> BOOLEAN]
    /\ tc_of = [s \in Scheduler |-> tc_of[s]]
    /\ joining \in Scheduler \cup {Nobody}
    /\ recovery_attempts \in Nat
    /\ events \in Seq(EventName) /\ inbox \in Seq(EventName)
    /\ \A s \in Scheduler : s > spawned => at[s] = "unborn" /\ ~stop_signal[s]
    /\ \A o \in Output : ltc[o].scheduler <= spawned
    /\ Legal(todo)
    /\ joining # Nobody => First("release") /\ stop_signal[joining]
    /\ pc = "commands" => inbox = <<>>
    /\ pc = "stopped" => todo = <<>>

\* The commands of the user.
WantedInv ==
    /\ is_playing => wanted \/ Has(todo, "stopped")
    /\ Has(todo, "start") => wanted
    /\ Has(todo, "restart") /\ was_playing => wanted
    /\ First("init") \/ First("start") \/ First("restart") => ~is_playing \/ wanted

\* The output was taken to be stopped.
Gone ==
    \/ First("closed") \/ First("quit")
    \/ First("release") /\ Tail(todo) # <<>> /\ Head(Tail(todo)) \in {"closed", "quit"}

DeviceInv ==
    /\ is_playing => audio_initialized
    /\ wake_lock => is_playing
    /\ output # Nobody => audio_initialized
    /\ output = Nobody /\ audio_initialized => Gone \/ pc = "stopped"
    /\ Gone => output = Nobody
    /\ First("start") \/ First("restart") => output # Nobody
    /\ First("init") \/ First("start") \/ First("restart") => ~is_playing
    /\ First("stopped") \/ First("closed") => ~wake_lock
    /\ recovery_attempts > 0 /\ pc # "stopped" => ~audio_initialized \/ Has(todo, "closed")

Working(s) ==
    /\ joining = Nobody /\ is_playing
    /\ output # Nobody /\ out_of[s] = output /\ ltc[output].scheduler = s /\ ~stop_signal[s]

ThreadInv ==
    /\ \A s \in Scheduler : Alive(s) => (joining = s \/ Working(s)) /\ out_of[s] # Nobody
    /\ First("release") \/ First("stopped") \/ First("closed") \/ First("quit") =>
         \A s \in Scheduler : Alive(s) => joining = s
    /\ is_playing /\ pc # "stopped" =>
         \/ Closing
         \/ Waiting("StreamDead")
         \/ \E s \in Scheduler : Alive(s) /\ Working(s)

OnTime(n) == n = due \/ (was_reset /\ n = SuccTimecode(due))

TimeInv ==
    /\ due \in Timecode
    /\ \A s \in Scheduler : Alive(s) /\ out_of[s] = output =>
         LET n == ltc[output].tc
         IN  /\ at[s] \in {"top", "lock"} => OnTime(n)
             /\ at[s] = "frame" => IF old_frame THEN was_reset /\ n = due ELSE OnTime(n) /\ tc_of[s] = n
             /\ at[s] = "update" => OnTime(SuccTimecode(n))

-----------------------------------------------------------------------------
(* What is left to do.                                                      *)

LEMMA LegalTail ==
    ASSUME NEW t, Legal(t), t # <<>>
    PROVE  /\ Legal(Tail(t))
           /\ Tail(t) # <<>> => <<Head(t), Head(Tail(t))>> \in Before
           /\ \A x : Has(Tail(t), x) => Has(t, x)
           /\ \A x : Has(t, x) => x = Head(t) \/ Has(Tail(t), x)
           /\ Has(t, Head(t))
           /\ Tail(t) = <<>> => Head(t) \in {"stopped", "init", "start", "restart", "quit"}
<1> DEFINE q == Tail(t)
<1>1. /\ t \in Seq(StepName) /\ Len(t) \in Nat /\ Len(t) >= 1 /\ q \in Seq(StepName)
      /\ Len(q) = Len(t) - 1 /\ Head(t) = t[1]
      /\ \A i \in 1 .. Len(q) : q[i] = t[i + 1]
  BY HeadTailProperties, EmptySeq, LenProperties DEF Legal
<1>2. q = <<>> <=> Len(t) = 1
  <2> HIDE DEF q
  <2>1. q = <<>> <=> Len(q) = 0
    BY <1>1, EmptySeq
  <2> QED
    BY <1>1, <2>1
<1>3. q # <<>> => Head(q) = t[2] /\ 1 \in 1 .. Len(t) - 1
  <2> SUFFICES ASSUME q # <<>> PROVE Head(q) = t[2] /\ 1 \in 1 .. Len(t) - 1
    OBVIOUS
  <2>1. 1 \in 1 .. Len(q) /\ 1 + 1 = 2 /\ 1 \in 1 .. Len(t) - 1
    BY <1>1, <1>2
  <2>2. Head(q) = q[1]
    BY <1>1, HeadTailProperties
  <2> QED
    BY <1>1, <2>1, <2>2
<1> HIDE DEF q
<1>4. ASSUME NEW i \in 1 .. Len(q) - 1 PROVE <<q[i], q[i + 1]>> \in Before
  <2>1. i \in 1 .. Len(q) /\ i + 1 \in 1 .. Len(q) /\ i + 1 \in 1 .. Len(t) - 1
    BY <1>1
  <2> QED
    BY <1>1, <2>1 DEF Legal
<1>5. q # <<>> => q[Len(q)] \in {"stopped", "init", "start", "restart", "quit"}
  <2> SUFFICES ASSUME q # <<>> PROVE q[Len(q)] = t[Len(t)]
    BY DEF Legal
  <2>1. Len(q) \in 1 .. Len(q) /\ Len(q) + 1 = Len(t)
    BY <1>1, <1>2
  <2> QED
    BY <1>1, <2>1
<1>6. q # <<>> => <<Head(t), Head(q)>> \in Before
  <2> SUFFICES ASSUME q # <<>> PROVE <<t[1], t[2]>> \in Before
    BY <1>1, <1>3
  <2>1. 1 \in 1 .. Len(t) - 1 /\ 1 + 1 = 2
    BY <1>3
  <2> QED
    BY <2>1 DEF Legal
<1>7. ASSUME NEW x, Has(q, x) PROVE Has(t, x)
  <2>1. PICK i \in 1 .. Len(q) : q[i] = x
    BY <1>7 DEF Has
  <2>2. i + 1 \in 1 .. Len(t) /\ t[i + 1] = x
    BY <1>1, <2>1
  <2> QED
    BY <2>2 DEF Has
<1>8. ASSUME NEW x, Has(t, x) PROVE x = Head(t) \/ Has(q, x)
  <2>1. PICK i \in 1 .. Len(t) : t[i] = x
    BY <1>8 DEF Has
  <2>2. CASE i = 1
    BY <1>1, <2>1, <2>2
  <2>3. CASE i # 1
    <3>1. i - 1 \in 1 .. Len(q) /\ (i - 1) + 1 = i
      BY <1>1, <2>3
    <3>2. q[i - 1] = x
      BY <1>1, <2>1, <3>1
    <3> QED
      BY <3>1, <3>2 DEF Has
  <2> QED
    BY <2>2, <2>3
<1>9. Has(t, Head(t))
  <2>1. 1 \in 1 .. Len(t)
    BY <1>1
  <2> QED
    BY <1>1, <2>1 DEF Has
<1>10. q = <<>> => Head(t) \in {"stopped", "init", "start", "restart", "quit"}
  BY <1>1, <1>2 DEF Legal
<1> QED
  BY <1>1, <1>4, <1>5, <1>6, <1>7, <1>8, <1>9, <1>10 DEF Legal, q

LEMMA LegalFirst ==
    ASSUME NEW x \in StepName, NEW q, Legal(q),
           q # <<>> => <<x, Head(q)>> \in Before,
           q = <<>> => x \in {"stopped", "init", "start", "restart", "quit"}
    PROVE  LET t == <<x>> \o q
           IN  /\ Legal(t) /\ t # <<>> /\ Head(t) = x /\ Tail(t) = q
               /\ \A y : Has(t, y) <=> y = x \/ Has(q, y)
<1> DEFINE t == <<x>> \o q
<1>1. q \in Seq(StepName) /\ Len(q) \in Nat /\ <<x>> \in Seq(StepName) /\ Len(<<x>>) = 1
      /\ <<x>>[1] = x
  BY LenProperties DEF Legal
<1>2. /\ t \in Seq(StepName) /\ Len(t) = Len(q) + 1
      /\ \A i \in 1 .. Len(q) + 1 : t[i] = IF i <= 1 THEN <<x>>[i] ELSE q[i - 1]
  <2>1. /\ t \in Seq(StepName) /\ Len(t) = 1 + Len(q)
        /\ \A i \in 1 .. 1 + Len(q) : t[i] = IF i <= 1 THEN <<x>>[i] ELSE q[i - 1]
    BY <1>1, ConcatProperties
  <2>2. 1 + Len(q) = Len(q) + 1
    BY <1>1
  <2> QED
    BY <2>1, <2>2
<1> HIDE DEF t
<1>3. t[1] = x /\ \A i \in 1 .. Len(q) : t[i + 1] = q[i]
  <2>1. t[1] = x
    BY <1>1, <1>2
  <2>2. ASSUME NEW i \in 1 .. Len(q) PROVE t[i + 1] = q[i]
    <3>1. i + 1 \in 1 .. Len(q) + 1 /\ ~(i + 1 <= 1) /\ (i + 1) - 1 = i
      BY <1>1
    <3> QED
      BY <1>2, <3>1
  <2> QED
    BY <2>1, <2>2
<1>4. t # <<>> /\ Head(t) = x
  BY <1>1, <1>2, <1>3, EmptySeq, HeadTailProperties
<1>5. Tail(t) = q
  <2>1. /\ Tail(t) \in Seq(StepName) /\ Len(Tail(t)) = Len(q)
        /\ \A i \in 1 .. Len(q) : Tail(t)[i] = t[i + 1]
    BY <1>1, <1>2, <1>4, HeadTailProperties
  <2> QED
    BY <1>1, <1>3, <2>1, SeqEqual
<1>6. ASSUME NEW i \in 1 .. Len(t) - 1 PROVE <<t[i], t[i + 1]>> \in Before
  <2>1. CASE i = 1
    <3>1. q # <<>> /\ 1 \in 1 .. Len(q)
      BY <1>1, <1>2, EmptySeq
    <3>2. Head(q) = q[1]
      BY <1>1, <3>1, HeadTailProperties
    <3>3. t[1 + 1] = q[1]
      BY <1>3, <3>1
    <3> QED
      BY <1>3, <2>1, <3>1, <3>2, <3>3
  <2>2. CASE i # 1
    <3>1. i - 1 \in 1 .. Len(q) - 1 /\ i - 1 \in 1 .. Len(q) /\ i \in 1 .. Len(q) /\ (i - 1) + 1 = i
      BY <1>1, <1>2, <2>2
    <3>2. t[i] = q[i - 1] /\ t[i + 1] = q[i]
      BY <1>3, <3>1
    <3>3. <<q[i - 1], q[(i - 1) + 1]>> \in Before
      BY <3>1 DEF Legal
    <3> QED
      BY <3>1, <3>2, <3>3
  <2> QED
    BY <2>1, <2>2
<1>7. t[Len(t)] \in {"stopped", "init", "start", "restart", "quit"}
  <2>1. CASE q = <<>>
    BY <1>2, <1>3, <2>1, EmptySeq
  <2>2. CASE q # <<>>
    <3>1. Len(q) \in 1 .. Len(q)
      BY <1>1, <2>2, EmptySeq
    <3> QED
      BY <1>2, <1>3, <2>2, <3>1 DEF Legal
  <2> QED
    BY <2>1, <2>2
<1>8. ASSUME NEW y PROVE Has(t, y) <=> y = x \/ Has(q, y)
  <2>1. Legal(t)
    BY <1>2, <1>6, <1>7 DEF Legal
  <2>2. Has(t, y) => y = x \/ Has(q, y)
    BY <1>4, <1>5, <2>1, LegalTail
  <2>3. Has(q, y) => Has(t, y)
    BY <1>4, <1>5, <2>1, LegalTail
  <2>4. y = x => Has(t, y)
    BY <1>4, <2>1, LegalTail
  <2> QED
    BY <2>2, <2>3, <2>4
<1> QED
  BY <1>2, <1>4, <1>5, <1>6, <1>7, <1>8 DEF Legal, t

LEMMA LegalEmpty == Legal(<<>>) /\ \A x : ~Has(<<>>, x)
BY EmptySeq DEF Legal, Has

\* Every command and every recovery leaves such a sequence to do.
LEMMA LegalPlans ==
    /\ Legal(<<"init", "start">>) /\ Legal(<<"stop_ltc", "stopped">>)
    /\ Legal(<<"stop_ltc", "stopped", "stop_output", "closed", "init">>)
    /\ Legal(<<"stop_output", "closed", "init">>) /\ Legal(<<"init">>)
    /\ Legal(<<"stop_ltc", "stop_output", "quit">>) /\ Legal(Recovery)
    /\ \A x : Has(<<"init", "start">>, x) <=> x \in {"init", "start"}
    /\ \A x : Has(<<"stop_ltc", "stopped">>, x) <=> x \in {"stop_ltc", "stopped"}
    /\ \A x : Has(<<"stop_ltc", "stopped", "stop_output", "closed", "init">>, x)
                 <=> x \in {"stop_ltc", "stopped", "stop_output", "closed", "init"}
    /\ \A x : Has(<<"stop_output", "closed", "init">>, x) <=> x \in {"stop_output", "closed", "init"}
    /\ \A x : Has(<<"init">>, x) <=> x = "init"
    /\ \A x : Has(<<"stop_ltc", "stop_output", "quit">>, x) <=> x \in {"stop_ltc", "stop_output", "quit"}
    /\ \A x : Has(Recovery, x) <=> x \in {"stop_ltc", "stop_output", "closed", "init", "restart"}
<1>1. Legal(<<"init", "start">>)
  <2> DEFINE t == <<"init", "start">>
  <2>1. t \in Seq(StepName) /\ Len(t) = 2 /\ t[2] = "start"
    BY DEF StepName
  <2>2. <<t[1], t[2]>> \in Before
    BY DEF Before
  <2> HIDE DEF t
  <2>3. \A i \in 1 .. Len(t) - 1 : <<t[i], t[i + 1]>> \in Before
    <3> SUFFICES ASSUME NEW i \in 1 .. 1 PROVE <<t[i], t[i + 1]>> \in Before
      BY <2>1
    <3>1. (i = 1 /\ i + 1 = 2)
      OBVIOUS
    <3> QED
      BY <2>2, <3>1
  <2>4. Legal(t)
    BY <2>1, <2>3 DEF Legal
  <2> QED
    BY <2>4 DEF t
<1>2. Legal(<<"stop_ltc", "stopped">>)
  <2> DEFINE t == <<"stop_ltc", "stopped">>
  <2>1. t \in Seq(StepName) /\ Len(t) = 2 /\ t[2] = "stopped"
    BY DEF StepName
  <2>2. <<t[1], t[2]>> \in Before
    BY DEF Before
  <2> HIDE DEF t
  <2>3. \A i \in 1 .. Len(t) - 1 : <<t[i], t[i + 1]>> \in Before
    <3> SUFFICES ASSUME NEW i \in 1 .. 1 PROVE <<t[i], t[i + 1]>> \in Before
      BY <2>1
    <3>1. (i = 1 /\ i + 1 = 2)
      OBVIOUS
    <3> QED
      BY <2>2, <3>1
  <2>4. Legal(t)
    BY <2>1, <2>3 DEF Legal
  <2> QED
    BY <2>4 DEF t
<1>3. Legal(<<"init">>)
  <2> DEFINE t == <<"init">>
  <2>1. t \in Seq(StepName) /\ Len(t) = 1 /\ t[1] = "init"
    BY DEF StepName
  <2>2. 1 .. Len(t) - 1 = {}
    BY <2>1
  <2> HIDE DEF t
  <2>3. \A i \in 1 .. Len(t) - 1 : <<t[i], t[i + 1]>> \in Before
    BY <2>2
  <2>4. Legal(t)
    BY <2>1, <2>3 DEF Legal
  <2> QED
    BY <2>4 DEF t
<1>4. Legal(<<"stop_ltc", "stopped", "stop_output", "closed", "init">>)
  <2> DEFINE t == <<"stop_ltc", "stopped", "stop_output", "closed", "init">>
  <2>1. t \in Seq(StepName) /\ Len(t) = 5 /\ t[5] = "init"
    BY DEF StepName
  <2>2. <<t[1], t[2]>> \in Before /\ <<t[2], t[3]>> \in Before /\ <<t[3], t[4]>> \in Before /\ <<t[4], t[5]>> \in Before
    BY DEF Before
  <2> HIDE DEF t
  <2>3. \A i \in 1 .. Len(t) - 1 : <<t[i], t[i + 1]>> \in Before
    <3> SUFFICES ASSUME NEW i \in 1 .. 4 PROVE <<t[i], t[i + 1]>> \in Before
      BY <2>1
    <3>1. (i = 1 /\ i + 1 = 2) \/ (i = 2 /\ i + 1 = 3) \/ (i = 3 /\ i + 1 = 4) \/ (i = 4 /\ i + 1 = 5)
      OBVIOUS
    <3> QED
      BY <2>2, <3>1
  <2>4. Legal(t)
    BY <2>1, <2>3 DEF Legal
  <2> QED
    BY <2>4 DEF t
<1>5. Legal(<<"stop_output", "closed", "init">>)
  <2> DEFINE t == <<"stop_output", "closed", "init">>
  <2>1. t \in Seq(StepName) /\ Len(t) = 3 /\ t[3] = "init"
    BY DEF StepName
  <2>2. <<t[1], t[2]>> \in Before /\ <<t[2], t[3]>> \in Before
    BY DEF Before
  <2> HIDE DEF t
  <2>3. \A i \in 1 .. Len(t) - 1 : <<t[i], t[i + 1]>> \in Before
    <3> SUFFICES ASSUME NEW i \in 1 .. 2 PROVE <<t[i], t[i + 1]>> \in Before
      BY <2>1
    <3>1. (i = 1 /\ i + 1 = 2) \/ (i = 2 /\ i + 1 = 3)
      OBVIOUS
    <3> QED
      BY <2>2, <3>1
  <2>4. Legal(t)
    BY <2>1, <2>3 DEF Legal
  <2> QED
    BY <2>4 DEF t
<1>6. Legal(<<"stop_ltc", "stop_output", "quit">>)
  <2> DEFINE t == <<"stop_ltc", "stop_output", "quit">>
  <2>1. t \in Seq(StepName) /\ Len(t) = 3 /\ t[3] = "quit"
    BY DEF StepName
  <2>2. <<t[1], t[2]>> \in Before /\ <<t[2], t[3]>> \in Before
    BY DEF Before
  <2> HIDE DEF t
  <2>3. \A i \in 1 .. Len(t) - 1 : <<t[i], t[i + 1]>> \in Before
    <3> SUFFICES ASSUME NEW i \in 1 .. 2 PROVE <<t[i], t[i + 1]>> \in Before
      BY <2>1
    <3>1. (i = 1 /\ i + 1 = 2) \/ (i = 2 /\ i + 1 = 3)
      OBVIOUS
    <3> QED
      BY <2>2, <3>1
  <2>4. Legal(t)
    BY <2>1, <2>3 DEF Legal
  <2> QED
    BY <2>4 DEF t
<1>7. Legal(Recovery)
  <2> DEFINE t == <<"stop_ltc", "stop_output", "closed", "init", "restart">>
  <2>1. t \in Seq(StepName) /\ Len(t) = 5 /\ t[5] = "restart"
    BY DEF StepName
  <2>2. <<t[1], t[2]>> \in Before /\ <<t[2], t[3]>> \in Before /\ <<t[3], t[4]>> \in Before /\ <<t[4], t[5]>> \in Before
    BY DEF Before
  <2> HIDE DEF t
  <2>3. \A i \in 1 .. Len(t) - 1 : <<t[i], t[i + 1]>> \in Before
    <3> SUFFICES ASSUME NEW i \in 1 .. 4 PROVE <<t[i], t[i + 1]>> \in Before
      BY <2>1
    <3>1. (i = 1 /\ i + 1 = 2) \/ (i = 2 /\ i + 1 = 3) \/ (i = 3 /\ i + 1 = 4) \/ (i = 4 /\ i + 1 = 5)
      OBVIOUS
    <3> QED
      BY <2>2, <3>1
  <2>4. Legal(t)
    BY <2>1, <2>3 DEF Legal
  <2> QED
    BY <2>4 DEF t, Recovery
<1>8. /\ \A x : Has(<<"init", "start">>, x) <=> x \in {"init", "start"}
      /\ \A x : Has(<<"stop_ltc", "stopped">>, x) <=> x \in {"stop_ltc", "stopped"}
      /\ \A x : Has(<<"init">>, x) <=> x = "init"
  BY DEF Has
<1>9. \A x : Has(<<"stop_ltc", "stopped", "stop_output", "closed", "init">>, x)
                 <=> x \in {"stop_ltc", "stopped", "stop_output", "closed", "init"}
  BY DEF Has
<1>10. /\ \A x : Has(<<"stop_output", "closed", "init">>, x) <=> x \in {"stop_output", "closed", "init"}
      /\ \A x : Has(<<"stop_ltc", "stop_output", "quit">>, x) <=> x \in {"stop_ltc", "stop_output", "quit"}
  BY DEF Has
<1>11. \A x : Has(Recovery, x) <=> x \in {"stop_ltc", "stop_output", "closed", "init", "restart"}
  BY DEF Has, Recovery
<1> QED
  BY <1>1, <1>2, <1>3, <1>4, <1>5, <1>6, <1>7, <1>8, <1>9, <1>10, <1>11

-----------------------------------------------------------------------------
(* The state of the threads.                                               *)

LEMMA TimecodeFacts ==
    /\ 0 \in Timecode /\ StartTimecode \subseteq Timecode
    /\ \A from \in Timecode : (from + Prefill) % Day \in Timecode /\ SuccTimecode(from) \in Timecode
<1>1. Day \in Nat \ {0} /\ Prefill \in Nat /\ StartTimecode \subseteq 0 .. Day - 1
  BY TransportAssumption
<1>2. \A n \in Nat : n % Day \in 0 .. Day - 1
  BY <1>1
<1>3. ASSUME NEW from \in Timecode
      PROVE  (from + Prefill) % Day \in Timecode /\ SuccTimecode(from) \in Timecode
  <2>1. from + Prefill \in Nat /\ from + 1 \in Nat
    BY <1>1 DEF Timecode
  <2> QED
    BY <1>2, <2>1 DEF Timecode, SuccTimecode
<1> QED
  BY <1>1, <1>3 DEF Timecode

LEMMA BoundFacts ==
    /\ Output = 1 .. MaxOutputs /\ Scheduler = 1 .. MaxSchedulers
    /\ MaxOutputs \in Nat /\ MaxSchedulers \in Nat /\ Nobody = 0
BY TransportAssumption DEF Output, Scheduler, Nobody

LEMMA BasicInit == TransportInit => BasicInv
<1> SUFFICES ASSUME TransportInit PROVE BasicInv
  OBVIOUS
<1>1. events \in Seq(EventName) /\ inbox \in Seq(EventName)
  BY EmptySeq DEF TransportInit
<1>2. ltc \in [Output -> [running : BOOLEAN, tc : Timecode, scheduler : Scheduler \cup {Nobody}]]
  BY TimecodeFacts DEF TransportInit
<1>3. tc_of = [s \in Scheduler |-> tc_of[s]]
  BY DEF TransportInit
<1> QED
  BY <1>1, <1>2, <1>3, LegalEmpty DEF TransportInit, BasicInv, Nobody

\* What the engine does next is dropped, or waits for a scheduler.
LEMMA DoingNext ==
    ASSUME BasicInv, NEW x, Doing(x)
    PROVE  /\ First(x) /\ joining = Nobody /\ Legal(todo) /\ todo # <<>> /\ pc # "stopped"
           /\ Legal(Tail(todo))
           /\ \A y : Has(Tail(todo), y) => Has(todo, y)
           /\ \A y : Has(todo, y) => y = x \/ Has(Tail(todo), y)
           /\ Has(todo, x)
           /\ x \in {"start", "restart", "quit"} => Tail(todo) = <<>>
           /\ Tail(todo) # <<>> => <<x, Head(Tail(todo))>> \in Before
           /\ Tail(todo) = <<>> => x \in {"stopped", "init", "start", "restart", "quit"}
<1>1. todo # <<>> /\ Legal(todo) /\ Head(todo) = x /\ joining = Nobody /\ pc # "stopped"
  BY DEF Doing, BasicInv
<1>2. x \in {"start", "restart", "quit"} => \A y : <<x, y>> \notin Before
  BY DEF Before
<1> QED
  BY <1>1, <1>2, LegalTail DEF First

LEMMA ReleaseNext ==
    ASSUME BasicInv, NEW x \in {"stop_ltc", "stop_output"}, Doing(x),
           todo' = <<"release">> \o Tail(todo)
    PROVE  /\ Legal(todo') /\ First("release")' /\ Tail(todo') = Tail(todo) /\ Tail(todo) # <<>>
           /\ Head(Tail(todo)) \in {"closed", "quit"} <=> x = "stop_output"
           /\ \A y : Has(todo', y) <=> y = "release" \/ Has(Tail(todo), y)
           /\ Has(todo', "stopped") \/ Has(todo', "closed") \/ Has(todo', "quit")
<1> DEFINE q == Tail(todo)
<1>1. /\ Legal(q) /\ q # <<>> /\ <<x, Head(q)>> \in Before
  BY DoingNext
<1>2. <<"release", Head(q)>> \in Before /\ "release" \in StepName
  BY <1>1 DEF Before, StepName
<1>3. /\ Legal(todo') /\ todo' # <<>> /\ Head(todo') = "release" /\ Tail(todo') = q
      /\ \A y : Has(todo', y) <=> y = "release" \/ Has(q, y)
  BY <1>1, <1>2, LegalFirst
<1>4. /\ Has(q, Head(q)) /\ Legal(Tail(q))
      /\ Tail(q) # <<>> => <<Head(q), Head(Tail(q))>> \in Before
      /\ \A y : Has(Tail(q), y) => Has(q, y)
      /\ Tail(q) = <<>> => Head(q) \in {"stopped", "init", "start", "restart", "quit"}
  BY <1>1, LegalTail
<1>5. Head(q) \in {"closed", "quit"} <=> x = "stop_output"
  BY <1>1 DEF Before
<1>6. Head(q) \in {"stopped", "closed", "quit", "stop_output"}
  BY <1>1 DEF Before
<1>7. Head(q) = "stop_output" => Tail(q) # <<>> /\ Head(Tail(q)) \in {"closed", "quit"}
  BY <1>4 DEF Before
<1>8. Head(q) = "stop_output" => Has(q, Head(Tail(q)))
  BY <1>4, <1>7, LegalTail
<1>9. Has(q, "stopped") \/ Has(q, "closed") \/ Has(q, "quit")
  BY <1>4, <1>6, <1>7, <1>8
<1> QED
  BY <1>1, <1>3, <1>5, <1>9 DEF First

LEMMA StartType ==
    ASSUME BasicInv, NEW from \in StartTimecode, StartStream(from)
    PROVE  /\ spawned' \in Nat /\ spawned' = spawned + 1 /\ spawned + 1 \in Scheduler
           /\ ltc' \in [Output -> [running : BOOLEAN, tc : Timecode, scheduler : Scheduler \cup {Nobody}]]
           /\ at' \in [Scheduler -> {"unborn", "top", "lock", "frame", "update", "exited"}]
           /\ out_of' \in [Scheduler -> Output \cup {Nobody}]
           /\ UNCHANGED <<stop_signal, tc_of>>
           /\ \A s \in Scheduler : s > spawned' => at'[s] = "unborn" /\ ~stop_signal'[s]
           /\ \A o \in Output : ltc'[o].scheduler <= spawned'
<1>1. spawned + 1 \in Scheduler /\ spawned' = spawned + 1 /\ spawned' \in Nat
  BY BoundFacts DEF StartStream, BasicInv
<1>2. (from + Prefill) % Day \in Timecode
  BY TimecodeFacts
<1>3. ltc' \in [Output -> [running : BOOLEAN, tc : Timecode, scheduler : Scheduler \cup {Nobody}]]
  BY <1>1, <1>2 DEF StartStream, BasicInv
<1>4. ASSUME NEW o \in Output PROVE ltc'[o].scheduler <= spawned'
  <2>1. ltc[o].scheduler \in Scheduler \cup {Nobody} /\ ltc[o].scheduler <= spawned
    BY DEF BasicInv
  <2>2. ltc'[o].scheduler \in {ltc[o].scheduler, spawned + 1}
    BY DEF StartStream, BasicInv
  <2> QED
    BY <1>1, <2>1, <2>2, BoundFacts DEF BasicInv
<1>5. /\ at' \in [Scheduler -> {"unborn", "top", "lock", "frame", "update", "exited"}]
      /\ out_of' \in [Scheduler -> Output \cup {Nobody}]
      /\ UNCHANGED <<stop_signal, tc_of>>
  BY <1>1 DEF StartStream, BasicInv
<1>6. ASSUME NEW s \in Scheduler, s > spawned' PROVE at'[s] = "unborn" /\ ~stop_signal'[s]
  <2>1. s > spawned /\ s # spawned + 1
    BY <1>1, <1>6, BoundFacts DEF BasicInv
  <2> QED
    BY <1>1, <2>1 DEF StartStream, BasicInv
<1> QED
  BY <1>1, <1>3, <1>4, <1>5, <1>6

LEMMA StartFailsType ==
    ASSUME BasicInv, NEW from \in StartTimecode, StartFails(from)
    PROVE  /\ ltc' \in [Output -> [running : BOOLEAN, tc : Timecode, scheduler : Scheduler \cup {Nobody}]]
           /\ \A o \in Output : ltc'[o].scheduler <= spawned
<1>1. (from + Prefill) % Day \in Timecode
  BY TimecodeFacts
<1>2. ltc' \in [Output -> [running : BOOLEAN, tc : Timecode, scheduler : Scheduler \cup {Nobody}]]
  BY <1>1 DEF StartFails, BasicInv
<1>3. ASSUME NEW o \in Output PROVE ltc'[o].scheduler <= spawned
  <2>1. ltc'[o].scheduler = ltc[o].scheduler \/ ltc'[o].scheduler = 0
    BY BoundFacts DEF StartFails, BasicInv
  <2> QED
    BY <2>1 DEF BasicInv
<1> QED
  BY <1>2, <1>3

LEMMA StopType ==
    ASSUME BasicInv, StopScheduler, joining = Nobody
    PROVE  /\ ltc' \in [Output -> [running : BOOLEAN, tc : Timecode, scheduler : Scheduler \cup {Nobody}]]
           /\ \A o \in Output : ltc'[o].scheduler <= spawned
           /\ stop_signal' \in [Scheduler -> BOOLEAN]
           /\ \A s \in Scheduler : s > spawned => ~stop_signal'[s]
           /\ joining' \in Scheduler \cup {Nobody}
           /\ joining' # Nobody => stop_signal'[joining']
           /\ output # Nobody => joining' = ltc[output].scheduler
<1>1. CASE output = Nobody
  BY <1>1 DEF StopScheduler, BasicInv
<1>2. CASE output # Nobody
  <2> DEFINE s == ltc[output].scheduler
  <2>1. output \in Output /\ s \in Scheduler \cup {Nobody} /\ s <= spawned
    BY <1>2 DEF BasicInv
  <2>2. /\ ltc' = [ltc EXCEPT ![output] = [running |-> FALSE, tc |-> ltc[output].tc, scheduler |-> Nobody]]
        /\ stop_signal' = [t \in Scheduler |-> stop_signal[t] \/ t = s]
        /\ joining' = s
    BY <1>2 DEF StopScheduler
  <2> HIDE DEF s
  <2> DEFINE r == [running |-> FALSE, tc |-> ltc[output].tc, scheduler |-> Nobody]
  <2>8. /\ ltc[output] \in [running : BOOLEAN, tc : Timecode, scheduler : Scheduler \cup {Nobody}]
        /\ ltc = [o \in Output |-> ltc[o]]
    BY <2>1 DEF BasicInv
  <2>9. ltc' = [o \in Output |-> IF o = output THEN r ELSE ltc[o]]
    <3>2. ltc' = [ltc EXCEPT ![output] = r]
      BY <2>2
    <3> HIDE DEF r
    <3> QED
      BY <2>1, <2>8, <3>2
  <2>3. ltc' \in [Output -> [running : BOOLEAN, tc : Timecode, scheduler : Scheduler \cup {Nobody}]]
    <3>1. r \in [running : BOOLEAN, tc : Timecode, scheduler : Scheduler \cup {Nobody}]
      BY <2>8
    <3> HIDE DEF r
    <3> QED
      BY <2>9, <3>1 DEF BasicInv
  <2>5. ASSUME NEW o \in Output PROVE ltc'[o].scheduler <= spawned
    <3>1. ltc'[o].scheduler = ltc[o].scheduler \/ ltc'[o].scheduler = 0
      BY <2>9, BoundFacts
    <3> QED
      BY <3>1 DEF BasicInv
  <2>6. stop_signal' \in [Scheduler -> BOOLEAN]
    BY <2>2
  <2>7. ASSUME NEW t \in Scheduler, t > spawned PROVE ~stop_signal'[t]
    <3>1. t # s
      BY <2>1, <2>7, BoundFacts DEF BasicInv
    <3> QED
      BY <2>2, <2>7, <3>1 DEF BasicInv
  <2> QED
    BY <2>1, <2>2, <2>3, <2>5, <2>6, <2>7 DEF s
<1> QED
  BY <1>1, <1>2

\* A step of a scheduler.
LEMMA BasicScheduler ==
    ASSUME BasicInv, NEW s \in Scheduler, SchedulerStep(s)
    PROVE  /\ BasicInv'
           /\ UNCHANGED <<output, opened, spawned, out_of, stop_signal, joining, todo, inbox, pc,
                          is_playing, audio_initialized, recovery_attempts, was_playing, wake_lock,
                          wanted, was_reset>>
           /\ \A t \in Scheduler : t # s => at'[t] = at[t] /\ tc_of'[t] = tc_of[t]
           /\ \A o \in Output : ltc'[o].scheduler = ltc[o].scheduler
           /\ Alive(s) /\ s <= spawned
<1> DEFINE places == {"unborn", "top", "lock", "frame", "update", "exited"}
           LtcType == [Output -> [running : BOOLEAN, tc : Timecode, scheduler : Scheduler \cup {Nobody}]]
<1>1. /\ UNCHANGED <<output, opened, spawned, out_of, stop_signal, joining, todo, inbox, pc,
                      is_playing, audio_initialized, recovery_attempts, was_playing, wake_lock,
                      wanted, was_reset>>
      /\ at[s] \in {"top", "lock", "frame", "update"}
      /\ \E p \in places : at' = [at EXCEPT ![s] = p]
  BY DEF SchedulerStep, CheckStop, ReadState, PushFrame, Recover, Die, AdvanceState,
         outVars, engineVars, stateVars, historyVars
<1>2. Alive(s) /\ s <= spawned
  <2>1. Alive(s)
    BY <1>1 DEF Alive
  <2>2. ~(s > spawned)
    BY <1>1 DEF BasicInv
  <2> QED
    BY <2>1, <2>2, BoundFacts DEF BasicInv
<1>3. at' \in [Scheduler -> places] /\ \A t \in Scheduler : t # s => at'[t] = at[t]
  BY <1>1 DEF BasicInv
<1>4. tc_of' = [t \in Scheduler |-> tc_of'[t]] /\ \A t \in Scheduler : t # s => tc_of'[t] = tc_of[t]
  <2>1. UNCHANGED tc_of \/ \E n : tc_of' = [tc_of EXCEPT ![s] = n]
    BY DEF SchedulerStep, CheckStop, ReadState, PushFrame, Recover, Die, AdvanceState
  <2> QED
    BY <2>1 DEF BasicInv
<1>5. ltc' \in LtcType /\ \A o \in Output : ltc'[o].scheduler = ltc[o].scheduler
  <2>1. CASE AdvanceState(s)
    <3>1. ltc' = [ltc EXCEPT ![out_of[s]].tc = SuccTimecode(@)]
      BY <2>1 DEF AdvanceState
    <3>2. CASE out_of[s] \in Output
      <4>1. SuccTimecode(ltc[out_of[s]].tc) \in Timecode
        BY <3>2, TimecodeFacts DEF BasicInv
      <4>2. PICK n \in Timecode : ltc' = [ltc EXCEPT ![out_of[s]].tc = n]
        BY <3>1, <4>1
      <4> QED
        BY <3>2, <4>2 DEF BasicInv
    <3>3. CASE out_of[s] \notin Output
      BY <3>1, <3>3 DEF BasicInv
    <3> QED
      BY <3>2, <3>3
  <2>2. CASE UNCHANGED ltc
    BY <2>2 DEF BasicInv
  <2> QED
    BY <2>1, <2>2 DEF SchedulerStep, CheckStop, ReadState, PushFrame, Recover, Die, outVars
<1>6. events' \in Seq(EventName)
  <2>1. UNCHANGED events \/ \E e \in EventName : events' = Append(events, e)
    BY DEF SchedulerStep, CheckStop, ReadState, PushFrame, Recover, Die, AdvanceState, EventName
  <2>2. CASE UNCHANGED events
    BY <2>2 DEF BasicInv
  <2>3. ASSUME NEW e \in EventName, events' = Append(events, e) PROVE events' \in Seq(EventName)
    BY <2>3, AppendProperties DEF BasicInv
  <2> QED
    BY <2>1, <2>2, <2>3
<1>7. \A t \in Scheduler : t > spawned => at'[t] = "unborn" /\ ~stop_signal[t]
  BY <1>2, <1>3, BoundFacts DEF BasicInv
<1>8. BasicInv'
  BY <1>1, <1>3, <1>4, <1>5, <1>6, <1>7 DEF BasicInv, First
<1> QED
  BY <1>1, <1>2, <1>3, <1>4, <1>5, <1>8

LEMMA BasicNext == BasicInv /\ [TransportNext]_transportVars => BasicInv'
<1> SUFFICES ASSUME BasicInv, [TransportNext]_transportVars PROVE BasicInv'
  OBVIOUS
<1> USE DEF Nobody
<1>1. ASSUME NEW s \in Scheduler, SchedulerStep(s) PROVE BasicInv'
  BY <1>1, BasicScheduler
<1>2. CASE DoStopLtc \/ DoStopOutput
  <2>1. PICK x \in {"stop_ltc", "stop_output"} : Doing(x)
    BY <1>2 DEF DoStopLtc, DoStopOutput
  <2>2. /\ StopScheduler /\ todo' = <<"release">> \o Tail(todo) /\ joining = Nobody
        /\ output' \in {output, Nobody}
        /\ UNCHANGED <<opened, spawned, at, out_of, tc_of, events, inbox, pc, recovery_attempts>>
    BY <1>2, <2>1 DEF DoStopLtc, DoStopOutput, stateVars, Doing
  <2>3. Legal(todo') /\ First("release")' /\ pc # "stopped"
    BY <2>1, <2>2, DoingNext, ReleaseNext
  <2> QED
    BY <2>2, <2>3, StopType DEF BasicInv
<1>3. CASE JoinReturns
  BY <1>3 DEF JoinReturns, BasicInv, outVars, threadVars, stateVars, First
<1>4. CASE DoRelease \/ DoStopped \/ DoClosed
  <2>1. PICK x : Doing(x) /\ todo' = Tail(todo)
    BY <1>4 DEF DoRelease, DoStopped, DoClosed
  <2>2. UNCHANGED <<outVars, threadVars, events, pc, inbox, joining, recovery_attempts>>
    BY <1>4 DEF DoRelease, DoStopped, DoClosed
  <2> QED
    BY <2>1, <2>2, DoingNext DEF BasicInv, outVars, threadVars
<1>5. CASE DoInit
  <2>1. /\ Doing("init") /\ todo' \in {Tail(todo), <<>>}
        /\ UNCHANGED <<ltc, threadVars, events, pc, inbox, joining>>
        /\ \/ UNCHANGED <<output, opened, recovery_attempts>>
           \/ /\ opened < MaxOutputs /\ opened' = opened + 1 /\ output' = opened + 1
              /\ recovery_attempts' = 0
    BY <1>5 DEF DoInit
  <2>2. Legal(todo') /\ joining = Nobody /\ pc # "stopped"
    BY <2>1, DoingNext, LegalEmpty
  <2>3. output' \in Output \cup {Nobody} /\ opened' \in Nat /\ recovery_attempts' \in Nat
    BY <2>1, BoundFacts DEF BasicInv
  <2> QED
    BY <2>1, <2>2, <2>3 DEF BasicInv, threadVars
<1>6. CASE DoStart \/ DoRestart
  <2>1. PICK x \in {"start", "restart"} : Doing(x)
    BY <1>6 DEF DoStart, DoRestart
  <2>2. /\ todo' = Tail(todo) /\ UNCHANGED <<events, pc, inbox, joining, recovery_attempts, output, opened>>
        /\ \/ \E from \in StartTimecode : StartStream(from) \/ StartFails(from)
           \/ UNCHANGED <<ltc, threadVars>>
    BY <1>6 DEF DoStart, DoRestart, start_ltc, outVars
  <2>3. Legal(todo') /\ joining = Nobody /\ pc # "stopped"
    BY <2>1, <2>2, DoingNext
  <2>4. ASSUME NEW from \in StartTimecode, StartStream(from) PROVE BasicInv'
    BY <2>2, <2>3, <2>4, StartType DEF BasicInv
  <2>5. ASSUME NEW from \in StartTimecode, StartFails(from) PROVE BasicInv'
    <3>1. UNCHANGED threadVars
      BY <2>5 DEF StartFails
    <3> QED
      BY <2>2, <2>3, <2>5, <3>1, StartFailsType DEF BasicInv, threadVars
  <2>6. CASE UNCHANGED <<ltc, threadVars>>
    BY <2>2, <2>3, <2>6 DEF BasicInv, threadVars
  <2> QED
    BY <2>2, <2>4, <2>5, <2>6
<1>7. CASE DoQuit
  BY <1>7, LegalEmpty, DoingNext DEF DoQuit, BasicInv, outVars, threadVars, stateVars
<1>8. CASE StartLtc \/ StopLtc \/ SetDevice \/ InitAudio \/ Shutdown
  <2>1. /\ Legal(todo') /\ joining = Nobody /\ pc = "commands"
        /\ UNCHANGED <<outVars, threadVars, events, pc, inbox, joining, stateVars>>
    BY <1>8, LegalPlans DEF StartLtc, StopLtc, SetDevice, InitAudio, Shutdown, Command, Idle
  <2> QED
    BY <2>1 DEF BasicInv, outVars, threadVars, stateVars
<1>9. CASE Reset
  <2>1. PICK from \in StartTimecode : ltc' = [ltc EXCEPT ![output].tc = from]
    BY <1>9 DEF Reset
  <2>2. /\ output # Nobody /\ joining = Nobody
        /\ UNCHANGED <<output, opened, threadVars, events, engineVars, stateVars>>
    BY <1>9 DEF Reset, Idle
  <2>3. output \in Output /\ from \in Timecode
    BY <2>2, TimecodeFacts DEF BasicInv
  <2>4. /\ ltc' \in [Output -> [running : BOOLEAN, tc : Timecode, scheduler : Scheduler \cup {Nobody}]]
        /\ \A o \in Output : ltc'[o].scheduler = ltc[o].scheduler
    BY <2>1, <2>3 DEF BasicInv
  <2> QED
    BY <2>2, <2>4 DEF BasicInv, threadVars, engineVars, stateVars, First
<1>10. CASE DrainEvents
  <2>1. events' = <<>> /\ inbox' = events /\ pc' = "events" /\ joining = Nobody
        /\ UNCHANGED <<outVars, threadVars, todo, joining, stateVars>>
    BY <1>10 DEF DrainEvents, Idle
  <2>2. events' \in Seq(EventName)
    BY <2>1, EmptySeq
  <2> QED
    BY <2>1, <2>2 DEF BasicInv, outVars, threadVars, stateVars
<1>11. CASE HandleEvent
  <2>1. /\ inbox # <<>> /\ inbox' = Tail(inbox) /\ pc = "events" /\ joining = Nobody
        /\ UNCHANGED <<outVars, threadVars, events, pc, joining>>
        /\ todo' \in {Recovery, todo} /\ recovery_attempts' \in {recovery_attempts, recovery_attempts + 1}
    BY <1>11 DEF HandleEvent, Idle
  <2>2. inbox' \in Seq(EventName)
    BY <2>1, HeadTailProperties DEF BasicInv
  <2>3. Legal(todo')
    BY <2>1, LegalPlans DEF BasicInv
  <2>4. recovery_attempts' \in Nat
    BY <2>1 DEF BasicInv
  <2> QED
    BY <2>1, <2>2, <2>3, <2>4 DEF BasicInv, outVars, threadVars
<1>12. CASE EndTick
  BY <1>12 DEF EndTick, BasicInv, outVars, threadVars, stateVars, First
<1>13. CASE UNCHANGED transportVars
  BY <1>13 DEF transportVars, BasicInv, outVars, threadVars, engineVars, stateVars, First
<1> QED
  BY <1>1, <1>2, <1>3, <1>4, <1>5, <1>6, <1>7, <1>8, <1>9, <1>10, <1>11, <1>12, <1>13
     DEF TransportNext, TransportCommand, EngineStep, Step

-----------------------------------------------------------------------------
(* Nothing plays against the user's will.                                  *)

LEMMA WantedInit == TransportInit => WantedInv
BY LegalEmpty DEF TransportInit, WantedInv, First

LEMMA WantedNext == BasicInv /\ WantedInv /\ [TransportNext]_transportVars => WantedInv'
<1> SUFFICES ASSUME BasicInv, WantedInv, [TransportNext]_transportVars PROVE WantedInv'
  OBVIOUS
<1>1. ASSUME NEW s \in Scheduler, SchedulerStep(s) PROVE WantedInv'
  BY <1>1, BasicScheduler DEF WantedInv, First
<1>2. CASE DoStopLtc \/ DoStopOutput
  <2>1. PICK x \in {"stop_ltc", "stop_output"} : Doing(x)
    BY <1>2 DEF DoStopLtc, DoStopOutput
  <2>2. /\ todo' = <<"release">> \o Tail(todo)
        /\ UNCHANGED <<is_playing, was_playing, wanted>>
    BY <1>2, <2>1 DEF DoStopLtc, DoStopOutput, stateVars, historyVars, Doing
  <2>3. First("release")' /\ \A y : Has(todo', y) <=> y = "release" \/ Has(Tail(todo), y)
    BY <2>1, <2>2, ReleaseNext
  <2>4. /\ \A y : Has(Tail(todo), y) => Has(todo, y)
        /\ \A y : Has(todo, y) => y = x \/ Has(Tail(todo), y)
    BY <2>1, DoingNext
  <2> QED
    BY <2>1, <2>2, <2>3, <2>4 DEF WantedInv, First
<1>3. CASE JoinReturns \/ DrainEvents \/ EndTick \/ Reset \/ UNCHANGED transportVars
  <2>1. UNCHANGED <<is_playing, was_playing, wanted, todo>>
    BY <1>3 DEF JoinReturns, DrainEvents, EndTick, Reset, stateVars, historyVars, engineVars,
                transportVars
  <2> QED
    BY <2>1 DEF WantedInv, First
<1>4. CASE DoRelease \/ DoStopped \/ DoClosed
  <2>1. PICK x \in {"release", "stopped", "closed"} : Doing(x) /\ todo' = Tail(todo)
    BY <1>4 DEF DoRelease, DoStopped, DoClosed
  <2>2. /\ UNCHANGED <<was_playing, wanted>>
        /\ x = "release" => is_playing' = is_playing
        /\ x # "release" => is_playing' = FALSE
    BY <1>4, <2>1 DEF DoRelease, DoStopped, DoClosed, stateVars, historyVars, Doing
  <2>3. /\ \A y : Has(Tail(todo), y) => Has(todo, y)
        /\ \A y : Has(todo, y) => y = x \/ Has(Tail(todo), y)
        /\ Tail(todo) # <<>> => <<x, Head(Tail(todo))>> \in Before
    BY <2>1, DoingNext
  <2>4. x = "release" => ~First("init")' /\ ~First("start")' /\ ~First("restart")'
    BY <2>1, <2>3 DEF Before, First
  <2> QED
    BY <2>1, <2>2, <2>3, <2>4 DEF WantedInv
<1>5. CASE DoInit
  <2>1. /\ Doing("init") /\ todo' \in {Tail(todo), <<>>} /\ UNCHANGED <<is_playing, was_playing, wanted>>
    BY <1>5 DEF DoInit, historyVars
  <2>2. First("init") /\ \A y : Has(todo', y) => Has(todo, y)
    BY <2>1, DoingNext, LegalEmpty
  <2> QED
    BY <2>1, <2>2 DEF WantedInv
<1>6. CASE DoStart \/ DoRestart
  <2>1. PICK x \in {"start", "restart"} : Doing(x)
    BY <1>6 DEF DoStart, DoRestart
  <2>2. /\ todo' = <<>> /\ UNCHANGED <<was_playing, wanted>>
        /\ is_playing' = is_playing \/ x = "start" \/ was_playing
    <3>1. todo' = Tail(todo)
      BY <1>6 DEF DoStart, DoRestart
    <3> QED
      BY <1>6, <2>1, <3>1, DoingNext DEF DoStart, DoRestart, start_ltc, Doing
  <2>3. Has(todo, x) /\ First(x)
    BY <2>1, DoingNext
  <2>4. wanted \/ ~is_playing'
    BY <2>1, <2>2, <2>3 DEF WantedInv
  <2> QED
    BY <2>2, <2>4, LegalEmpty DEF WantedInv, First
<1>7. CASE DoQuit
  <2>1. Doing("quit") /\ todo' = <<>> /\ UNCHANGED <<is_playing, was_playing, wanted>>
    BY <1>7 DEF DoQuit, stateVars, historyVars
  <2>2. First("quit") /\ \A y : Has(todo, y) => y = "quit"
    BY <2>1, DoingNext, LegalEmpty
  <2> QED
    BY <2>1, <2>2, LegalEmpty DEF WantedInv, First
<1>8. CASE StartLtc \/ StopLtc \/ SetDevice \/ InitAudio \/ Shutdown
  <2>1. /\ todo = <<>> /\ UNCHANGED stateVars
        /\ \A y : ~Has(todo, y)
    BY <1>8, LegalEmpty DEF StartLtc, StopLtc, SetDevice, InitAudio, Shutdown, Command, Idle
  <2>2. CASE StartLtc
    <3>1. wanted' = TRUE
      BY <2>2 DEF StartLtc
    <3> QED
      BY <3>1 DEF WantedInv
  <2>3. CASE StopLtc
    <3>1. todo' = <<"stop_ltc", "stopped">>
      BY <2>3 DEF StopLtc, Command
    <3>2. Head(todo') = "stop_ltc"
      BY <3>1
    <3> QED
      BY <3>1, <3>2, LegalPlans DEF WantedInv, First
  <2>4. CASE SetDevice \/ InitAudio \/ Shutdown
    <3>1. /\ wanted' = wanted
          /\ todo' \in {<<"stop_ltc", "stopped", "stop_output", "closed", "init">>,
                         <<"stop_output", "closed", "init">>, <<"init">>,
                         <<"stop_ltc", "stop_output", "quit">>}
      BY <2>4 DEF SetDevice, InitAudio, Shutdown, Command
    <3>2. ~Has(todo', "start") /\ ~Has(todo', "restart")
      BY <3>1, LegalPlans
    <3>3. is_playing => wanted
      BY <2>1 DEF WantedInv
    <3> QED
      BY <2>1, <3>1, <3>2, <3>3 DEF WantedInv, stateVars
  <2> QED
    BY <1>8, <2>2, <2>3, <2>4
<1>9. CASE HandleEvent
  <2>1. /\ todo = <<>> /\ UNCHANGED wanted
        /\ \/ todo' = Recovery /\ was_playing' = is_playing /\ is_playing' = is_playing
           \/ todo' = todo /\ was_playing' = was_playing /\ is_playing' = FALSE
    BY <1>9 DEF HandleEvent, Idle, historyVars
  <2>2. is_playing => wanted
    BY <2>1, LegalEmpty DEF WantedInv
  <2>3. CASE todo' = Recovery /\ was_playing' = is_playing /\ is_playing' = is_playing
    BY <2>1, <2>2, <2>3, LegalPlans DEF WantedInv
  <2>4. CASE todo' = todo /\ is_playing' = FALSE
    BY <2>1, <2>4, LegalEmpty DEF WantedInv, First
  <2> QED
    BY <2>1, <2>3, <2>4
<1> QED
  BY <1>1, <1>2, <1>3, <1>4, <1>5, <1>6, <1>7, <1>8, <1>9
     DEF TransportNext, TransportCommand, EngineStep, Step

\* Between commands the engine plays only if the user has started it after
\* the last stop: no recovery, no failed start and no event of a dead thread
\* puts the timecode out again (stop_ltc, attempt_recovery, handle_event).
THEOREM StoppedByTheUser == TransportSpec => []StoppedStaysStopped
<1>1. BasicInv /\ WantedInv => StoppedStaysStopped
  BY LegalEmpty DEF WantedInv, StoppedStaysStopped, Idle
<1> QED
  BY <1>1, BasicInit, BasicNext, WantedInit, WantedNext, PTL DEF TransportSpec

-----------------------------------------------------------------------------
(* The flags of the engine.                                                *)

LEMMA DeviceInit == TransportInit => DeviceInv
BY LegalEmpty DEF TransportInit, DeviceInv, Gone, First

LEMMA DeviceNext ==
    ASSUME GuiWaits, BasicInv, DeviceInv, [TransportNext]_transportVars PROVE DeviceInv'
<1> DEFINE flags == <<output, todo, pc, is_playing, audio_initialized, wake_lock, recovery_attempts>>
<1>1. ASSUME UNCHANGED flags PROVE DeviceInv'
  BY <1>1 DEF DeviceInv, Gone, First
<1>2. CASE DoStopLtc \/ DoStopOutput
  <2>1. PICK x \in {"stop_ltc", "stop_output"} : Doing(x)
    BY <1>2 DEF DoStopLtc, DoStopOutput
  <2>2. /\ todo' = <<"release">> \o Tail(todo)
        /\ UNCHANGED <<pc, is_playing, audio_initialized, wake_lock, recovery_attempts>>
        /\ x = "stop_ltc" => output' = output
        /\ x = "stop_output" => output' = Nobody
    BY <1>2, <2>1 DEF DoStopLtc, DoStopOutput, stateVars, Doing
  <2>3. /\ First("release")' /\ \A y : Has(todo', y) <=> y = "release" \/ Has(Tail(todo), y)
        /\ Tail(todo') = Tail(todo) /\ Tail(todo) # <<>>
        /\ Head(Tail(todo)) \in {"closed", "quit"} <=> x = "stop_output"
    BY <2>1, <2>2, ReleaseNext
  <2>4. /\ \A y : Has(todo, y) => y = x \/ Has(Tail(todo), y)
        /\ First(x)
    BY <2>1, DoingNext
  <2>5. x = "stop_ltc" => output # Nobody \/ ~audio_initialized \/ pc = "stopped"
    BY <2>4 DEF DeviceInv, Gone, First
  <2> QED
    BY <2>1, <2>2, <2>3, <2>4, <2>5 DEF DeviceInv, Gone, First
<1>3. CASE DoRelease
  <2>1. /\ Doing("release") /\ todo' = Tail(todo) /\ wake_lock' = FALSE
        /\ UNCHANGED <<output, pc, is_playing, audio_initialized, recovery_attempts>>
    BY <1>3 DEF DoRelease, outVars
  <2>2. /\ First("release") /\ \A y : Has(todo, y) => y = "release" \/ Has(todo', y)
        /\ todo' # <<>> => Head(todo') \in {"stopped", "stop_output", "closed", "quit"}
    BY <2>1, DoingNext DEF Before
  <2> QED
    BY <2>1, <2>2 DEF DeviceInv, Gone, First
<1>4. CASE DoStopped
  <2>1. /\ Doing("stopped") /\ todo' = Tail(todo) /\ is_playing' = FALSE
        /\ UNCHANGED <<output, pc, audio_initialized, wake_lock, recovery_attempts>>
    BY <1>4 DEF DoStopped, outVars
  <2>2. /\ First("stopped") /\ \A y : Has(todo, y) => y = "stopped" \/ Has(todo', y)
        /\ todo' # <<>> => Head(todo') = "stop_output"
    BY <2>1, DoingNext DEF Before
  <2> QED
    BY <2>1, <2>2 DEF DeviceInv, Gone, First
<1>5. CASE DoClosed
  <2>1. /\ Doing("closed") /\ todo' = Tail(todo) /\ is_playing' = FALSE
        /\ audio_initialized' = FALSE
        /\ UNCHANGED <<output, pc, wake_lock, recovery_attempts>>
    BY <1>5 DEF DoClosed, outVars
  <2>2. /\ First("closed")
        /\ todo' # <<>> => Head(todo') = "init"
    BY <2>1, DoingNext DEF Before
  <2>3. output = Nobody
    BY <2>2 DEF DeviceInv, Gone
  <2> QED
    BY <2>1, <2>2, <2>3 DEF DeviceInv, Gone, First
<1>6. CASE DoInit
  <2>1. /\ Doing("init") /\ UNCHANGED <<pc, is_playing, wake_lock>>
        /\ \/ /\ audio_initialized /\ todo' = Tail(todo)
              /\ UNCHANGED <<output, audio_initialized, recovery_attempts>>
           \/ /\ opened < MaxOutputs /\ output' = opened + 1
              /\ audio_initialized' = TRUE /\ recovery_attempts' = 0 /\ todo' = Tail(todo)
           \/ /\ ~audio_initialized /\ todo' = <<>>
              /\ UNCHANGED <<output, audio_initialized, recovery_attempts>>
    BY <1>6 DEF DoInit
  <2>2. /\ First("init") /\ \A y : Has(todo, y) => y = "init" \/ Has(Tail(todo), y)
        /\ Tail(todo) # <<>> => Head(Tail(todo)) \in {"start", "restart"}
    BY <2>1, DoingNext DEF Before
  <2>3. ~is_playing /\ ~wake_lock
    BY <2>2 DEF DeviceInv
  <2>4. CASE audio_initialized /\ todo' = Tail(todo) /\ UNCHANGED <<output, audio_initialized, recovery_attempts>>
    <3>3. output # Nobody
      BY <2>2, <2>4 DEF DeviceInv, Gone, First, BasicInv
    <3> QED
      BY <2>1, <2>2, <2>3, <2>4, <3>3 DEF DeviceInv, Gone, First
  <2>5. CASE /\ opened < MaxOutputs /\ output' = opened + 1
             /\ audio_initialized' = TRUE /\ recovery_attempts' = 0 /\ todo' = Tail(todo)
    <3>1. output' # Nobody /\ ~(recovery_attempts' > 0)
      BY <2>5 DEF BasicInv, Nobody
    <3> QED
      BY <2>1, <2>2, <2>3, <2>5, <3>1 DEF DeviceInv, Gone, First
  <2>6. CASE ~audio_initialized /\ todo' = <<>> /\ UNCHANGED <<output, audio_initialized, recovery_attempts>>
    BY <2>1, <2>3, <2>6 DEF DeviceInv, Gone, First
  <2> QED
    BY <2>1, <2>4, <2>5, <2>6
<1>7. CASE DoStart \/ DoRestart
  <2>1. PICK x \in {"start", "restart"} : Doing(x)
    BY <1>7 DEF DoStart, DoRestart
  <2>2. /\ todo' = <<>> /\ UNCHANGED <<output, audio_initialized, pc, recovery_attempts>>
        /\ \/ is_playing' = TRUE /\ wake_lock' = TRUE
           \/ UNCHANGED <<is_playing, wake_lock>>
    <3>1. todo' = Tail(todo)
      BY <1>7 DEF DoStart, DoRestart
    <3> QED
      BY <1>7, <2>1, <3>1, DoingNext DEF DoStart, DoRestart, start_ltc, StartStream, StartFails, outVars
  <2>3. First(x) /\ \A y : Has(todo, y) => y = x
    BY <2>1, DoingNext, LegalEmpty, <2>2
  <2>4. output # Nobody /\ audio_initialized
    BY <2>1, <2>3 DEF DeviceInv
  <2>5. recovery_attempts > 0 => pc = "stopped"
    BY <2>1, <2>3, <2>4 DEF DeviceInv
  <2> QED
    BY <2>2, <2>4, <2>5 DEF DeviceInv, Gone, First
<1>8. CASE DoQuit
  <2>1. Doing("quit") /\ todo' = <<>> /\ pc' = "stopped"
        /\ UNCHANGED <<output, is_playing, audio_initialized, wake_lock, recovery_attempts>>
    BY <1>8 DEF DoQuit, stateVars, outVars
  <2> QED
    BY <2>1 DEF DeviceInv, Gone, First
<1>9. CASE StartLtc \/ StopLtc \/ SetDevice \/ InitAudio \/ Shutdown
  <2>1. /\ todo = <<>> /\ UNCHANGED <<output, pc, is_playing, audio_initialized, wake_lock, recovery_attempts>>
        /\ \A y : ~Has(todo, y) /\ pc = "commands"
    BY <1>9, LegalEmpty DEF StartLtc, StopLtc, SetDevice, InitAudio, Shutdown, Command, Idle, outVars, stateVars
  <2>2. /\ todo' \in {<<"init", "start">>, <<"init">>, <<"stop_ltc", "stopped">>,
                       <<"stop_ltc", "stopped", "stop_output", "closed", "init">>,
                       <<"stop_output", "closed", "init">>, <<"stop_ltc", "stop_output", "quit">>}
        /\ todo' \in {<<"init", "start">>, <<"init">>} => ~is_playing
    BY <1>9 DEF StartLtc, StopLtc, SetDevice, InitAudio, Shutdown, Command, DeviceInv
  <2>3. /\ First("init")' => ~is_playing
        /\ ~First("start")' /\ ~First("restart")' /\ ~First("stopped")' /\ ~Gone'
        /\ ~First("closed")'
    <3>1. Head(todo') \in {"init", "stop_ltc", "stop_output"} /\ (Head(todo') = "init" => ~is_playing)
      BY <2>2
    <3> QED
      BY <3>1 DEF First, Gone
  <2>4. output # Nobody <=> audio_initialized
    BY <2>1 DEF DeviceInv, Gone, First
  <2>5. recovery_attempts > 0 => ~audio_initialized
    BY <2>1 DEF DeviceInv
  <2> QED
    BY <2>1, <2>3, <2>4, <2>5 DEF DeviceInv
<1>10. CASE HandleEvent
  <2>1. /\ todo = <<>> /\ pc = "events" /\ \A y : ~Has(todo, y)
        /\ UNCHANGED <<output, pc, audio_initialized, wake_lock>>
        /\ \/ todo' = Recovery /\ is_playing' = is_playing
           \/ /\ todo' = todo /\ is_playing' = FALSE /\ recovery_attempts' = recovery_attempts
              /\ recovery_attempts >= MAX_RECOVERY_ATTEMPTS
    BY <1>10, LegalEmpty DEF HandleEvent, Idle, outVars
  <2>2. output # Nobody <=> audio_initialized
    BY <2>1 DEF DeviceInv, Gone, First
  <2>3. CASE todo' = Recovery /\ is_playing' = is_playing
    <3>1. Has(todo', "closed") /\ First("stop_ltc")'
      BY <2>3, LegalPlans DEF First, Recovery
    <3> QED
      BY <2>1, <2>2, <2>3, <3>1 DEF DeviceInv, Gone, First
  <2>4. CASE /\ todo' = todo /\ is_playing' = FALSE /\ recovery_attempts' = recovery_attempts
             /\ recovery_attempts >= MAX_RECOVERY_ATTEMPTS
    <3>1. recovery_attempts > 0
      BY <2>4, TransportAssumption DEF BasicInv
    <3>2. ~audio_initialized
      BY <2>1, <3>1 DEF DeviceInv
    <3> QED
      BY <2>1, <2>2, <2>4, <3>2 DEF DeviceInv, Gone, First
  <2> QED
    BY <2>1, <2>3, <2>4
<1>11. CASE DrainEvents \/ EndTick
  <2>1. /\ UNCHANGED <<output, todo, is_playing, audio_initialized, wake_lock, recovery_attempts>>
        /\ pc # "stopped"
    BY <1>11 DEF DrainEvents, EndTick, outVars, stateVars
  <2> QED
    BY <2>1 DEF DeviceInv, Gone, First
<1>12. CASE JoinReturns \/ Reset \/ UNCHANGED transportVars
  BY <1>1, <1>12 DEF JoinReturns, Reset, outVars, stateVars, engineVars, transportVars
<1>13. ASSUME NEW s \in Scheduler, SchedulerStep(s) PROVE DeviceInv'
  BY <1>1, <1>13, BasicScheduler
<1> QED
  BY <1>2, <1>3, <1>4, <1>5, <1>6, <1>7, <1>8, <1>9, <1>10, <1>11, <1>12, <1>13
     DEF TransportNext, TransportCommand, EngineStep, Step

-----------------------------------------------------------------------------
(* The one scheduler that works.                                           *)

\* What waits was drained or not.
LEMMA ConcatHas ==
    ASSUME NEW p \in Seq(EventName), NEW q \in Seq(EventName), NEW e
    PROVE  (\E i \in 1 .. Len(p \o q) : (p \o q)[i] = e) <=> Has(p, e) \/ Has(q, e)
<1> DEFINE both == p \o q
           m == Len(p)
           n == Len(q)
<1>1. m \in Nat /\ n \in Nat
  BY LenProperties
<1>2. /\ Len(both) = m + n
      /\ \A i \in 1 .. m + n : both[i] = IF i <= m THEN p[i] ELSE q[i - m]
  BY ConcatProperties
<1> HIDE DEF both
<1>3. ASSUME NEW i \in 1 .. m + n, both[i] = e PROVE Has(p, e) \/ Has(q, e)
  <2>1. CASE i <= m
    BY <1>1, <1>2, <1>3, <2>1 DEF Has
  <2>2. CASE ~(i <= m)
    <3>1. i - m \in 1 .. n /\ q[i - m] = e
      BY <1>1, <1>2, <1>3, <2>2
    <3> QED
      BY <3>1 DEF Has
  <2> QED
    BY <2>1, <2>2
<1>4. ASSUME NEW i \in 1 .. m, p[i] = e PROVE \E j \in 1 .. m + n : both[j] = e
  BY <1>1, <1>2, <1>4
<1>5. ASSUME NEW i \in 1 .. n, q[i] = e PROVE \E j \in 1 .. m + n : both[j] = e
  <2>1. m + i \in 1 .. m + n /\ ~(m + i <= m) /\ (m + i) - m = i
    BY <1>1
  <2>2. both[m + i] = e
    BY <1>2, <1>5, <2>1
  <2> QED
    BY <2>1, <2>2
<1> QED
  BY <1>2, <1>3, <1>4, <1>5 DEF Has, both

LEMMA WaitingHas ==
    /\ BasicInv => \A e : Waiting(e) <=> Has(inbox, e) \/ Has(events, e)
    /\ BasicInv' => \A e : Waiting(e)' <=> Has(inbox', e) \/ Has(events', e)
<1>1. ASSUME BasicInv PROVE \A e : Waiting(e) <=> Has(inbox, e) \/ Has(events, e)
  <2>1. inbox \in Seq(EventName) /\ events \in Seq(EventName)
    BY <1>1 DEF BasicInv
  <2> QED
    BY <2>1, ConcatHas DEF Waiting
<1>2. ASSUME BasicInv' PROVE \A e : Waiting(e)' <=> Has(inbox', e) \/ Has(events', e)
  <2>1. inbox' \in Seq(EventName) /\ events' \in Seq(EventName)
    BY <1>2 DEF BasicInv
  <2> QED
    BY <2>1, ConcatHas DEF Waiting
<1> QED
  BY <1>1, <1>2

LEMMA HasAppended ==
    ASSUME NEW q \in Seq(EventName), NEW x \in EventName, NEW e
    PROVE  Has(Append(q, x), e) <=> Has(q, e) \/ e = x
<1>1. /\ Len(q) \in Nat /\ Len(Append(q, x)) = Len(q) + 1
      /\ \A i \in 1 .. Len(q) : Append(q, x)[i] = q[i]
      /\ Append(q, x)[Len(q) + 1] = x
  BY AppendProperties, LenProperties
<1> QED
  BY <1>1 DEF Has

LEMMA ThreadInit == TransportInit => ThreadInv
BY LegalEmpty DEF TransportInit, ThreadInv, First, Alive

LEMMA NobodyWorks == \A s \in Scheduler : s # Nobody
BY BoundFacts

LEMMA ThreadScheduler ==
    ASSUME BasicInv, ThreadInv, NEW s \in Scheduler, SchedulerStep(s)
    PROVE  ThreadInv'
<1>1. /\ BasicInv'
      /\ UNCHANGED <<output, out_of, stop_signal, joining, todo, inbox, pc, is_playing>>
      /\ \A t \in Scheduler : t # s => at'[t] = at[t]
      /\ \A o \in Output : ltc'[o].scheduler = ltc[o].scheduler
      /\ Alive(s)
  BY BasicScheduler
<1>2. \A t \in Scheduler : Alive(t)' => Alive(t)
  BY <1>1 DEF Alive
<1>3. \A t \in Scheduler : Working(t) => Working(t)'
  BY <1>1 DEF Working, BasicInv
<1>4. Waiting("StreamDead") => Waiting("StreamDead")'
  <2> SUFFICES ASSUME Has(events, "StreamDead") PROVE Has(events', "StreamDead")
    <3>1. \A e : Waiting(e) <=> Has(inbox, e) \/ Has(events, e)
      BY WaitingHas
    <3>2. \A e : Waiting(e)' <=> Has(inbox', e) \/ Has(events', e)
      BY <1>1, WaitingHas
    <3> QED
      BY <1>1, <3>1, <3>2
  <2>1. UNCHANGED events \/ \E e \in EventName : events' = Append(events, e)
    BY DEF SchedulerStep, CheckStop, ReadState, PushFrame, Recover, Die, AdvanceState, EventName
  <2>2. \A e \in EventName : Has(Append(events, e), "StreamDead")
    BY HasAppended DEF BasicInv
  <2> QED
    BY <2>1, <2>2
<1>5. ASSUME Working(s), ~Alive(s)' PROVE Waiting("StreamDead")'
  <2>1. at'[s] \notin {"top", "lock", "frame", "update"} /\ ~stop_signal[s] /\ at \in [Scheduler -> {"unborn", "top", "lock", "frame", "update", "exited"}]
    BY <1>5 DEF Alive, Working, BasicInv
  <2>2. Die(s)
    BY <2>1 DEF SchedulerStep, CheckStop, ReadState, PushFrame, Recover, AdvanceState
  <2>3. Has(events', "StreamDead")
    BY <2>2, HasAppended DEF Die, BasicInv, EventName
  <2>4. \A e : Waiting(e)' <=> Has(inbox', e) \/ Has(events', e)
    BY <1>1, WaitingHas
  <2> QED
    BY <2>3, <2>4
<1>6. ASSUME NEW t \in Scheduler, Alive(t), Working(t) PROVE Waiting("StreamDead")' \/ (Alive(t)' /\ Working(t)')
  <2>1. CASE t = s
    BY <1>3, <1>5, <1>6, <2>1
  <2>2. CASE t # s
    BY <1>1, <1>3, <1>6, <2>2 DEF Alive
  <2> QED
    BY <2>1, <2>2
<1>7. Closing' = Closing
  BY <1>1 DEF Closing
<1>8. is_playing' /\ pc' # "stopped" =>
         \/ Closing'
         \/ Waiting("StreamDead")'
         \/ \E t \in Scheduler : Alive(t)' /\ Working(t)'
  BY <1>1, <1>4, <1>6, <1>7 DEF ThreadInv
<1> QED
  BY <1>1, <1>2, <1>3, <1>8 DEF ThreadInv, First

LEMMA ThreadNext ==
    ASSUME GuiWaits, BasicInv, DeviceInv, ThreadInv, [TransportNext]_transportVars
    PROVE  ThreadInv'
<1>1. BasicInv' /\ DeviceInv'
  BY BasicNext, DeviceNext
<1>2. \A s \in Scheduler : s # Nobody
  BY BoundFacts
<1>3. ASSUME joining = Nobody, First("release") \/ First("stopped") \/ First("closed") \/ First("quit") \/ ~is_playing,
             NEW s \in Scheduler
      PROVE  ~Alive(s)
  BY <1>2, <1>3 DEF ThreadInv, Working
<1>4. CASE DoStopLtc \/ DoStopOutput
  <2>1. PICK x \in {"stop_ltc", "stop_output"} : Doing(x)
    BY <1>4 DEF DoStopLtc, DoStopOutput
  <2>2. /\ StopScheduler /\ todo' = <<"release">> \o Tail(todo) /\ joining = Nobody
        /\ UNCHANGED <<at, out_of>>
    BY <1>4, <2>1 DEF DoStopLtc, DoStopOutput, Doing
  <2>3. Closing'
    BY <2>1, <2>2, ReleaseNext DEF Closing
  <2>4. ASSUME NEW s \in Scheduler, Alive(s)' PROVE joining' = s /\ out_of'[s] # Nobody
    <3>1. Alive(s)
      BY <2>2, <2>4 DEF Alive
    <3>2. Working(s) /\ out_of[s] # Nobody
      BY <1>2, <2>2, <3>1 DEF ThreadInv
    <3> QED
      BY <2>2, <3>2, StopType DEF Working
  <2> QED
    BY <2>3, <2>4 DEF ThreadInv
<1>5. CASE JoinReturns
  <2>1. /\ joining # Nobody /\ at[joining] = "exited" /\ joining' = Nobody
        /\ UNCHANGED <<at, todo, inbox, events, is_playing, pc>>
    BY <1>5 DEF JoinReturns, threadVars, stateVars
  <2>2. First("release")
    BY <2>1 DEF BasicInv
  <2>3. \A s \in Scheduler : ~Alive(s)
    BY <2>1, <2>2 DEF ThreadInv, Alive
  <2>4. \A s \in Scheduler : ~Alive(s)'
    BY <2>1, <2>3 DEF Alive
  <2>5. Closing' = Closing /\ Waiting("StreamDead")' = Waiting("StreamDead")
    BY <2>1 DEF Closing, Waiting
  <2> QED
    BY <2>1, <2>3, <2>4, <2>5 DEF ThreadInv
<1>6. CASE DoRelease
  <2>1. /\ Doing("release") /\ todo' = Tail(todo)
        /\ UNCHANGED <<at, out_of, inbox, events, is_playing, pc, joining>>
    BY <1>6 DEF DoRelease, threadVars
  <2>2. /\ First("release") /\ joining = Nobody
        /\ \A y : Has(todo, y) => y = "release" \/ Has(todo', y)
    BY <2>1, DoingNext
  <2>3. \A s \in Scheduler : ~Alive(s) /\ ~Alive(s)'
    BY <1>3, <2>1, <2>2 DEF Alive
  <2>4. Closing => Closing'
    BY <2>2 DEF Closing
  <2>5. Waiting("StreamDead")' = Waiting("StreamDead")
    BY <2>1 DEF Waiting
  <2> QED
    BY <2>1, <2>3, <2>4, <2>5 DEF ThreadInv
<1>7. CASE DoStopped \/ DoClosed
  <2>1. PICK x \in {"stopped", "closed"} : Doing(x)
    BY <1>7 DEF DoStopped, DoClosed
  <2>2. is_playing' = FALSE /\ UNCHANGED at
    BY <1>7 DEF DoStopped, DoClosed, threadVars
  <2>3. First(x) /\ joining = Nobody
    BY <2>1, DoingNext
  <2>4. \A s \in Scheduler : ~Alive(s)'
    BY <1>3, <2>1, <2>2, <2>3 DEF Alive
  <2> QED
    BY <2>2, <2>4 DEF ThreadInv
<1>8. CASE DoInit
  <2>1. Doing("init") /\ UNCHANGED <<at, is_playing>>
    BY <1>8 DEF DoInit, threadVars
  <2>2. ~is_playing /\ joining = Nobody
    BY <2>1, DoingNext DEF DeviceInv
  <2>3. \A s \in Scheduler : ~Alive(s)'
    BY <1>3, <2>1, <2>2 DEF Alive
  <2> QED
    BY <2>1, <2>2, <2>3 DEF ThreadInv
<1>9. CASE DoStart \/ DoRestart
  <2>1. PICK x \in {"start", "restart"} : Doing(x)
    BY <1>9 DEF DoStart, DoRestart
  <2>2. /\ todo' = Tail(todo) /\ UNCHANGED <<pc, joining, output>>
        /\ \/ \E from \in StartTimecode : StartStream(from)
           \/ UNCHANGED <<at, is_playing>>
    BY <1>9 DEF DoStart, DoRestart, start_ltc, StartFails, threadVars, outVars
  <2>3. First(x) /\ joining = Nobody /\ todo' = <<>>
    BY <2>1, <2>2, DoingNext
  <2>4. ~is_playing /\ output # Nobody
    BY <2>1, <2>3 DEF DeviceInv
  <2>5. \A s \in Scheduler : ~Alive(s)
    BY <1>3, <2>3, <2>4
  <2>6. CASE UNCHANGED <<at, is_playing>>
    BY <2>4, <2>5, <2>6 DEF ThreadInv, Alive
  <2>7. ASSUME NEW from \in StartTimecode, StartStream(from) PROVE ThreadInv'
    <3>0. PICK n \in Scheduler : n = spawned + 1
      BY <2>7, StartType
    <3>1. n > spawned
      BY <3>0 DEF BasicInv
    <3>2. /\ is_playing' = TRUE /\ at' = [at EXCEPT ![n] = "top"]
          /\ out_of' = [out_of EXCEPT ![n] = output]
          /\ ltc' = [ltc EXCEPT ![output] =
                        [running |-> TRUE, tc |-> (from + Prefill) % Day, scheduler |-> n]]
          /\ stop_signal' = stop_signal
      BY <2>7, <3>0 DEF StartStream
    <3>3. at'[n] = "top" /\ out_of'[n] = output /\ ltc'[output].scheduler = n /\ ~stop_signal'[n]
      BY <2>4, <3>1, <3>2 DEF BasicInv
    <3>4. Alive(n)' /\ Working(n)'
      <4>1. joining' = Nobody /\ output' = output /\ is_playing'
        BY <2>2, <2>3, <3>2
      <4>2. Working(n)'
        BY <2>4, <3>3, <4>1 DEF Working
      <4>3. Alive(n)'
        BY <3>3 DEF Alive
      <4> QED
        BY <4>2, <4>3
    <3>5. \A s \in Scheduler : Alive(s)' => s = n
      BY <2>5, <3>1, <3>2 DEF Alive, BasicInv
    <3>6. out_of'[n] # Nobody
      BY <2>4, <3>3
    <3>7. \A y : ~First(y)'
      BY <2>3 DEF First
    <3>8. \A s \in Scheduler : Alive(s)' => (joining' = s \/ Working(s)') /\ out_of'[s] # Nobody
      BY <3>4, <3>5, <3>6
    <3>9. \E s \in Scheduler : Alive(s)' /\ Working(s)'
      BY <3>1, <3>4
    <3> QED
      BY <3>7, <3>8, <3>9 DEF ThreadInv
  <2> QED
    BY <2>2, <2>6, <2>7
<1>10. CASE DoQuit
  <2>1. Doing("quit") /\ UNCHANGED at /\ pc' = "stopped"
    BY <1>10 DEF DoQuit, threadVars
  <2>2. First("quit") /\ joining = Nobody
    BY <2>1, DoingNext
  <2>3. \A s \in Scheduler : ~Alive(s)'
    BY <1>3, <2>1, <2>2 DEF Alive
  <2> QED
    BY <2>1, <2>3 DEF ThreadInv
<1>11. CASE StartLtc \/ StopLtc \/ SetDevice \/ InitAudio \/ Shutdown
  <2>1. /\ todo = <<>> /\ UNCHANGED <<output, ltc, at, out_of, stop_signal, joining, is_playing, events, inbox>>
        /\ pc = "commands"
    BY <1>11 DEF StartLtc, StopLtc, SetDevice, InitAudio, Shutdown, Command, Idle, outVars, threadVars, stateVars
  <2>2. /\ todo' \in {<<"init", "start">>, <<"init">>, <<"stop_ltc", "stopped">>,
                       <<"stop_ltc", "stopped", "stop_output", "closed", "init">>,
                       <<"stop_output", "closed", "init">>, <<"stop_ltc", "stop_output", "quit">>}
    BY <1>11 DEF StartLtc, StopLtc, SetDevice, InitAudio, Shutdown, Command
  <2>3. ~First("release")' /\ ~First("stopped")' /\ ~First("closed")' /\ ~First("quit")'
    <3>1. Head(todo') \in {"init", "stop_ltc", "stop_output"}
      BY <2>2
    <3> QED
      BY <3>1 DEF First
  <2>4. ~Closing
    BY <2>1, LegalEmpty DEF Closing
  <2>5. /\ Waiting("StreamDead")' = Waiting("StreamDead")
        /\ \A s \in Scheduler : Alive(s)' = Alive(s) /\ Working(s)' = Working(s)
    BY <2>1 DEF Waiting, Alive, Working
  <2> QED
    BY <2>1, <2>3, <2>4, <2>5 DEF ThreadInv
<1>12. CASE Reset
  <2>1. PICK from \in StartTimecode : ltc' = [ltc EXCEPT ![output].tc = from]
    BY <1>12 DEF Reset
  <2>2. UNCHANGED <<output, at, out_of, stop_signal, joining, todo, inbox, events, is_playing, pc>>
    BY <1>12 DEF Reset, threadVars, engineVars, stateVars
  <2>3. \A o \in Output : ltc'[o].scheduler = ltc[o].scheduler
    BY <2>1 DEF BasicInv
  <2>4. \A s \in Scheduler : Alive(s)' = Alive(s) /\ (Working(s) => Working(s)')
    BY <2>2, <2>3 DEF Alive, Working, BasicInv
  <2>5. Closing' = Closing /\ Waiting("StreamDead")' = Waiting("StreamDead")
    BY <2>2 DEF Closing, Waiting
  <2> QED
    BY <2>2, <2>4, <2>5 DEF ThreadInv, First
<1>13. CASE DrainEvents \/ EndTick \/ UNCHANGED transportVars
  <2>1. /\ UNCHANGED <<output, ltc, at, out_of, stop_signal, joining, todo, is_playing>>
        /\ pc' = "stopped" <=> pc = "stopped"
    BY <1>13 DEF DrainEvents, EndTick, Idle, transportVars, outVars, threadVars, engineVars, stateVars
  <2>2. Waiting("StreamDead") => Waiting("StreamDead")'
    <3>1. CASE DrainEvents
      <4>1. inbox = <<>> /\ inbox' = events
        BY <3>1 DEF DrainEvents, BasicInv
      <4>2. \A e : Waiting(e) <=> Has(inbox, e) \/ Has(events, e)
        BY WaitingHas
      <4>3. \A e : Waiting(e)' <=> Has(inbox', e) \/ Has(events', e)
        BY <1>1, WaitingHas
      <4> QED
        BY <4>1, <4>2, <4>3, LegalEmpty
    <3>2. CASE UNCHANGED <<inbox, events>>
      BY <3>2 DEF Waiting
    <3> QED
      BY <1>13, <3>1, <3>2 DEF EndTick, transportVars, engineVars
  <2>3. \A s \in Scheduler : Alive(s)' = Alive(s) /\ Working(s)' = Working(s)
    BY <2>1 DEF Alive, Working
  <2>4. Closing' = Closing
    BY <2>1 DEF Closing
  <2> QED
    BY <2>1, <2>2, <2>3, <2>4 DEF ThreadInv, First
<1>14. CASE HandleEvent
  <2>1. /\ todo = <<>> /\ joining = Nobody /\ UNCHANGED <<output, ltc, at, out_of, stop_signal, joining>>
        /\ \/ todo' = Recovery /\ is_playing' = is_playing
           \/ /\ todo' = todo /\ is_playing' = FALSE /\ recovery_attempts >= MAX_RECOVERY_ATTEMPTS
    BY <1>14 DEF HandleEvent, Idle, outVars, threadVars
  <2>2. CASE todo' = Recovery /\ is_playing' = is_playing
    <3>1. Closing'
      BY <2>2, LegalPlans DEF Closing
    <3>2. ~First("release")' /\ ~First("stopped")' /\ ~First("closed")' /\ ~First("quit")'
      BY <2>2 DEF First, Recovery
    <3>3. \A s \in Scheduler : Alive(s)' = Alive(s) /\ Working(s)' = Working(s)
      BY <2>1, <2>2 DEF Alive, Working
    <3> QED
      BY <2>1, <3>1, <3>2, <3>3 DEF ThreadInv
  <2>3. CASE todo' = todo /\ is_playing' = FALSE /\ recovery_attempts >= MAX_RECOVERY_ATTEMPTS
    <3>1. recovery_attempts > 0
      BY <2>3, TransportAssumption DEF BasicInv
    <3>2. ~is_playing
      <4>1. ~Has(todo, "closed") /\ pc # "stopped"
        BY <1>14, <2>1, LegalEmpty DEF HandleEvent
      <4> QED
        BY <3>1, <4>1 DEF DeviceInv
    <3>3. \A s \in Scheduler : ~Alive(s)'
      BY <1>3, <2>1, <3>2 DEF Alive
    <3> QED
      BY <2>3, <3>3 DEF ThreadInv
  <2> QED
    BY <2>1, <2>2, <2>3
<1>15. ASSUME NEW s \in Scheduler, SchedulerStep(s) PROVE ThreadInv'
  BY <1>15, ThreadScheduler
<1> QED
  BY <1>4, <1>5, <1>6, <1>7, <1>8, <1>9, <1>10, <1>11, <1>12, <1>13, <1>14, <1>15
     DEF TransportNext, TransportCommand, EngineStep, Step

AgreeInv == BasicInv /\ DeviceInv /\ ThreadInv

\* Between commands, while the engine says that it plays a thread feeds the
\* open output or the news of its death is on its way, and otherwise no
\* thread is left and the system may sleep; for any number of outputs,
\* threads and recoveries, if Start is only pressed while nothing plays
\* (start_ltc, stop_ltc, attempt_recovery, the watchdog).
THEOREM PlayingAlwaysAgrees == GuiWaits => (TransportSpec => []PlayingAgrees)
<1> SUFFICES ASSUME GuiWaits PROVE TransportSpec => []PlayingAgrees
  OBVIOUS
<1>1. TransportInit => AgreeInv
  BY BasicInit, DeviceInit, ThreadInit DEF AgreeInv
<1>2. AgreeInv /\ [TransportNext]_transportVars => AgreeInv'
  BY BasicNext, DeviceNext, ThreadNext DEF AgreeInv
<1>3. AgreeInv => PlayingAgrees
  <2> SUFFICES ASSUME AgreeInv, Idle PROVE PlayingAgrees
    BY DEF PlayingAgrees, PlayingIsDriven, SilentWhenStopped
  <2>1. ~Closing
    BY LegalEmpty DEF Idle, Closing
  <2>2. PlayingIsDriven
    BY <2>1 DEF AgreeInv, ThreadInv, Idle, PlayingIsDriven, Working
  <2>3. SilentWhenStopped
    BY NobodyWorks DEF AgreeInv, ThreadInv, DeviceInv, Idle, SilentWhenStopped, Working
  <2> QED
    BY <2>2, <2>3 DEF PlayingAgrees
<1> QED
  BY <1>1, <1>2, <1>3, PTL DEF TransportSpec

-----------------------------------------------------------------------------
(* The timecode of the frame in hand.                                       *)

LEMMA OneAlive ==
    ASSUME BasicInv, ThreadInv, NEW s \in Scheduler, NEW t \in Scheduler, Alive(s), Alive(t)
    PROVE  s = t
<1>1. CASE joining = Nobody
  BY <1>1, NobodyWorks DEF ThreadInv, Working
<1>2. CASE joining # Nobody
  BY <1>2 DEF ThreadInv, BasicInv
<1> QED
  BY <1>1, <1>2

LEMMA TimeInit == TransportInit => TimeInv
BY TimecodeFacts DEF TransportInit, TimeInv, Alive

\* Nothing that counts has changed.
LEMMA TimeSame ==
    ASSUME BasicInv, TimeInv, UNCHANGED <<at, out_of, tc_of, due, was_reset, old_frame>>,
           output' = output \/ output' = Nobody,
           \A s \in Scheduler : Alive(s) => out_of[s] # Nobody,
           \A o \in Output : ltc'[o].tc = ltc[o].tc
    PROVE  TimeInv'
<1>1. ASSUME NEW s \in Scheduler, Alive(s)', out_of'[s] = output'
      PROVE  Alive(s) /\ out_of[s] = output /\ output' = output /\ ltc'[output].tc = ltc[output].tc
  <2>1. Alive(s) /\ out_of[s] = output'
    BY <1>1 DEF Alive
  <2> QED
    BY <2>1 DEF BasicInv
<1>2. \A n : OnTime(n)' = OnTime(n)
  BY DEF OnTime
<1> QED
  BY <1>1, <1>2 DEF TimeInv, OnTime

LEMMA TimeScheduler ==
    ASSUME BasicInv, ThreadInv, TimeInv, NEW s \in Scheduler, SchedulerStep(s)
    PROVE  TimeInv'
<1>1. /\ UNCHANGED <<output, out_of, was_reset>>
      /\ \A t \in Scheduler : t # s => at'[t] = at[t]
      /\ Alive(s)
  <2>1. UNCHANGED was_reset
    BY DEF SchedulerStep, CheckStop, ReadState, PushFrame, Recover, Die, AdvanceState, historyVars
  <2> QED
    BY <2>1, BasicScheduler
<1>2. \A t \in Scheduler : Alive(t)' => t = s
  BY <1>1, OneAlive DEF Alive
<1> DEFINE n == ltc[output].tc
<1>3. CASE out_of[s] # output
  <2>1. due' \in Timecode
    BY TimecodeFacts DEF TimeInv, SchedulerStep, CheckStop, ReadState, PushFrame, Recover, Die, AdvanceState, historyVars
  <2> QED
    BY <1>1, <1>2, <1>3, <2>1 DEF TimeInv
<1>4. CASE out_of[s] = output
  <2>0. /\ output \in Output /\ at \in [Scheduler -> {"unborn", "top", "lock", "frame", "update", "exited"}]
        /\ tc_of = [t \in Scheduler |-> tc_of[t]] /\ due \in Timecode
    BY <1>1, <1>4 DEF ThreadInv, BasicInv, TimeInv
  <2>1. CASE CheckStop(s)
    <3>1. at[s] = "top" /\ at'[s] \in {"lock", "exited"} /\ UNCHANGED <<ltc, tc_of, due, was_reset, old_frame>>
      BY <2>0, <2>1 DEF CheckStop, outVars, historyVars
    <3>2. OnTime(n)
      BY <1>1, <1>4, <3>1 DEF TimeInv
    <3> QED
      BY <1>1, <1>2, <2>0, <3>1, <3>2 DEF TimeInv, OnTime
  <2>2. CASE ReadState(s)
    <3>1. /\ at[s] = "lock" /\ UNCHANGED <<ltc, due, was_reset>>
          /\ \/ at'[s] = "top"
             \/ at'[s] = "frame" /\ tc_of'[s] = n /\ old_frame' = FALSE
      BY <1>4, <2>0, <2>2 DEF ReadState, outVars, historyVars
    <3>2. OnTime(n)
      BY <1>1, <1>4, <3>1 DEF TimeInv
    <3> QED
      BY <1>1, <1>2, <2>0, <3>1, <3>2 DEF TimeInv, OnTime
  <2>3. CASE PushFrame(s)
    <3>1. /\ at[s] = "frame" /\ at'[s] = "update" /\ UNCHANGED <<ltc, was_reset>>
          /\ due' = IF old_frame THEN due ELSE SuccTimecode(due)
      BY <2>0, <2>3 DEF PushFrame, outVars, historyVars
    <3>2. IF old_frame THEN was_reset /\ n = due ELSE OnTime(n)
      BY <1>1, <1>4, <3>1 DEF TimeInv
    <3>3. SuccTimecode(n) = due' \/ (was_reset /\ SuccTimecode(n) = SuccTimecode(due'))
      BY <3>1, <3>2 DEF OnTime
    <3>4. due' \in Timecode
      BY <2>0, <3>1, TimecodeFacts
    <3> QED
      BY <1>1, <1>2, <3>1, <3>3, <3>4 DEF TimeInv, OnTime
  <2>4. CASE Recover(s)
    <3>1. at[s] = "frame" /\ at'[s] = "top" /\ UNCHANGED <<ltc, due, was_reset>>
      BY <2>0, <2>4 DEF Recover, outVars, historyVars
    <3>2. OnTime(n)
      BY <1>1, <1>4, <3>1 DEF TimeInv, OnTime
    <3> QED
      BY <1>1, <1>2, <2>0, <3>1, <3>2 DEF TimeInv, OnTime
  <2>5. CASE Die(s)
    <3>1. at'[s] = "exited" /\ UNCHANGED due
      BY <2>0, <2>5 DEF Die, historyVars
    <3> QED
      BY <1>2, <2>0, <3>1 DEF TimeInv, Alive
  <2>6. CASE AdvanceState(s)
    <3>1. /\ at[s] = "update" /\ at'[s] = "top" /\ UNCHANGED <<due, was_reset>>
          /\ ltc'[output].tc = SuccTimecode(n)
      BY <1>4, <2>0, <2>6 DEF AdvanceState, historyVars, BasicInv
    <3>2. OnTime(SuccTimecode(n))
      BY <1>1, <1>4, <3>1 DEF TimeInv
    <3> QED
      BY <1>1, <1>2, <2>0, <3>1, <3>2 DEF TimeInv, OnTime
  <2> QED
    BY <2>1, <2>2, <2>3, <2>4, <2>5, <2>6 DEF SchedulerStep
<1> QED
  BY <1>3, <1>4

LEMMA TimeNext ==
    ASSUME AgreeInv, TimeInv, [TransportNext]_transportVars
    PROVE  TimeInv'
<1>1. BasicInv /\ DeviceInv /\ ThreadInv
  BY DEF AgreeInv
<1>2. \A s \in Scheduler : Alive(s) => out_of[s] # Nobody
  BY <1>1 DEF ThreadInv
<1>3. CASE DoStopLtc \/ DoStopOutput
  <2>1. /\ UNCHANGED <<at, out_of, tc_of, due, was_reset, old_frame>> /\ StopScheduler
        /\ output' = output \/ output' = Nobody
    BY <1>3 DEF DoStopLtc, DoStopOutput, historyVars
  <2>2. \A o \in Output : ltc'[o].tc = ltc[o].tc
    BY <1>1, <2>1 DEF StopScheduler, BasicInv
  <2> QED
    BY <1>1, <1>2, <2>1, <2>2, TimeSame
<1>4. CASE \/ JoinReturns \/ DoRelease \/ DoStopped \/ DoClosed \/ DoQuit
           \/ StartLtc \/ StopLtc \/ SetDevice \/ InitAudio \/ Shutdown
           \/ DrainEvents \/ HandleEvent \/ EndTick \/ UNCHANGED transportVars
  <2>1. UNCHANGED <<at, out_of, tc_of, due, was_reset, old_frame, output, ltc>>
    BY <1>4 DEF JoinReturns, DoRelease, DoStopped, DoClosed, DoQuit, StartLtc, StopLtc, SetDevice,
                InitAudio, Shutdown, Command, DrainEvents, HandleEvent, EndTick,
                transportVars, outVars, threadVars, historyVars
  <2> QED
    BY <1>1, <1>2, <2>1, TimeSame
<1>5. ASSUME ~is_playing, joining = Nobody PROVE \A s \in Scheduler : ~Alive(s)
  BY <1>1, <1>5, NobodyWorks DEF ThreadInv, Working
<1>6. CASE DoInit
  <2>1. Doing("init") /\ UNCHANGED <<at, due>>
    BY <1>6 DEF DoInit, threadVars, historyVars
  <2>2. \A s \in Scheduler : ~Alive(s)'
    BY <1>1, <1>5, <2>1, DoingNext DEF DeviceInv, Alive
  <2> QED
    BY <2>1, <2>2 DEF TimeInv
<1>7. CASE DoStart \/ DoRestart
  <2>1. PICK x \in {"start", "restart"} : Doing(x)
    BY <1>7 DEF DoStart, DoRestart
  <2>2. /\ UNCHANGED output
        /\ \/ \E from \in StartTimecode : StartStream(from)
           \/ UNCHANGED <<at, due>>
    BY <1>7 DEF DoStart, DoRestart, start_ltc, StartFails, threadVars, outVars
  <2>3. ~is_playing /\ output # Nobody /\ joining = Nobody
    BY <1>1, <2>1, DoingNext DEF DeviceInv
  <2>4. \A s \in Scheduler : ~Alive(s)
    BY <1>5, <2>3
  <2>5. CASE UNCHANGED <<at, due>>
    BY <2>4, <2>5 DEF TimeInv, Alive
  <2>6. ASSUME NEW from \in StartTimecode, StartStream(from) PROVE TimeInv'
    <3>1. PICK n \in Scheduler : n = spawned + 1
      BY <1>1, <2>6, StartType
    <3>2. due' = (from + Prefill) % Day /\ due' \in Timecode
      BY <2>6, TimecodeFacts DEF StartStream
    <3>3. /\ at' = [at EXCEPT ![n] = "top"]
          /\ ltc' = [ltc EXCEPT ![output] = [running |-> TRUE, tc |-> due', scheduler |-> n]]
      BY <2>6, <3>1, <3>2 DEF StartStream
    <3>4. at'[n] = "top" /\ ltc'[output].tc = due'
      BY <1>1, <2>3, <3>3 DEF BasicInv
    <3>5. \A s \in Scheduler : Alive(s)' => s = n
      BY <1>1, <2>4, <3>3 DEF Alive, BasicInv
    <3> QED
      BY <2>2, <3>2, <3>4, <3>5 DEF TimeInv, OnTime
  <2> QED
    BY <2>2, <2>5, <2>6
<1>8. CASE Reset
  <2>1. PICK from \in StartTimecode : ltc' = [ltc EXCEPT ![output].tc = from] /\ due' = from
    BY <1>8 DEF Reset
  <2>2. /\ UNCHANGED <<output, at, out_of, tc_of>> /\ output # Nobody /\ was_reset' = TRUE
        /\ old_frame' = \E s \in Scheduler : out_of[s] = output /\ at[s] = "frame"
    BY <1>8 DEF Reset, threadVars
  <2>3. ltc'[output].tc = from /\ from \in Timecode
    BY <1>1, <2>1, <2>2, TimecodeFacts DEF BasicInv
  <2> QED
    BY <2>1, <2>2, <2>3 DEF TimeInv, OnTime
<1>9. ASSUME NEW s \in Scheduler, SchedulerStep(s) PROVE TimeInv'
  BY <1>1, <1>9, TimeScheduler
<1> QED
  BY <1>3, <1>4, <1>6, <1>7, <1>8, <1>9 DEF TransportNext, TransportCommand, EngineStep, Step

\* The frame a thread has in hand carries the timecode that is due, or the
\* next one after a reset, through stalls, recoveries and changes of the
\* device, under the same proviso (ltc_scheduler_thread, reset_ltc,
\* attempt_recovery).
THEOREM TimecodeAlwaysOnTime == GuiWaits => (TransportSpec => []TimecodeOnTime)
<1> SUFFICES ASSUME GuiWaits PROVE TransportSpec => []TimecodeOnTime
  OBVIOUS
<1>1. TransportInit => AgreeInv /\ TimeInv
  BY BasicInit, DeviceInit, ThreadInit, TimeInit DEF AgreeInv
<1>2. AgreeInv /\ TimeInv /\ [TransportNext]_transportVars => AgreeInv' /\ TimeInv'
  BY BasicNext, DeviceNext, ThreadNext, TimeNext DEF AgreeInv
<1>3. TimeInv => TimecodeOnTime
  BY DEF TimeInv, TimecodeOnTime, Alive, OnTime
<1> QED
  BY <1>1, <1>2, <1>3, PTL DEF TransportSpec
=============================================================================
