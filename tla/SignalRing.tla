----------------------------- MODULE SignalRing -----------------------------
(***************************************************************************)
(* The queue between the timecode that is generated and the timecode that  *)
(* is heard (audio-core/src/audio_output.rs).  start_ltc puts a lead-in    *)
(* and the first frames into a ring buffer, a scheduler adds one frame     *)
(* each time one is due by the clock of the system, and the callback of    *)
(* the device takes samples out at the pace of the device, also while      *)
(* start_ltc fills the buffer again.  A frame that does not fit goes in as *)
(* far as it fits.                                                         *)
(*                                                                         *)
(* A sample is one of the Parts of a frame.  What the watchdog does when   *)
(* the device stands still, and who holds which mutex when, is in          *)
(* LtcTransport.                                                           *)
(***************************************************************************)
EXTENDS Integers, SequencesExt

CONSTANTS
    Parts,        \* of a frame
    Capacity,     \* LTC_RING_CAPACITY
    RingPrefill,  \* frames start_ltc encodes
    RingStarts,   \* timecodes the user starts from or resets to
    Nothing,
    MaxEpochs,    \* bound on the starts and resets
    MaxFrame,     \* bound on the timecodes
    MaxLate,      \* how many frames the scheduler may owe
    MaxAhead, MaxBehind   \* how far the device may be from the clock

ASSUME RingAssumption ==
    /\ Parts \in Nat \ {0} /\ Capacity \in Nat /\ RingPrefill \in Nat
    /\ RingStarts \subseteq Nat \ {0} /\ MaxBehind >= Parts
    /\ {MaxAhead, MaxBehind, MaxEpochs, MaxFrame, MaxLate} \subseteq Nat

ASSUME NothingAssumption == Nothing \notin [frame : [epoch : Nat, tc : Nat], part : Nat]

VARIABLES
    ring,       \* samples in the queue
    tc,         \* LtcStreamState.tc, the frame to be generated next
    epoch,      \* how often it was set by a start or a reset
    framesDue,  \* frames whose next_frame_time has come
    stage,      \* start_ltc: "prefill"; its scheduler: "wait", "push", "advance"
    hand,       \* the frame it has read
    behind,     \* samples the device has fallen behind the clock
    shown,      \* current_timecode of the engine
    clap,       \* of a beep that is not heard yet, the frame that was logged
    \* history
    heard,      \* the sample heard last
    gap,        \* whether there is silence since
    cut, lost,  \* frames of which a part, or all, did not fit
    allowance   \* samples the queue and the frames that are due may amount to

deviceVars == <<behind, heard, gap>>
frameVars == <<ring, cut, lost>>
makingVars == <<tc, epoch, framesDue, stage, hand>>
clapVars == <<shown, clap>>
ringVars == <<frameVars, makingVars, deviceVars, clapVars, allowance>>

Frame(n) == [epoch |-> epoch, tc |-> n]
Samples(frame) == [i \in 1 .. Parts |-> [frame |-> frame, part |-> i]]

\* Between start_ltc and stop_ltc, and once start_ltc has filled the buffer.
Started == stage # "exited"
Streaming == stage \in {"wait", "push", "advance"}

RingInit ==
    /\ ring = <<>> /\ tc = 0 /\ epoch = 0 /\ framesDue = 0 /\ stage = "exited" /\ hand = Nothing
    /\ behind = 0 /\ shown = 0 /\ clap = Nothing
    /\ heard = Nothing /\ gap = TRUE /\ cut = {} /\ lost = {}
    /\ allowance = 0

-----------------------------------------------------------------------------
(* Slips a change to the code could make, for the mutation entries of      *)
(* PROJECT.json; nothing below uses them.                                  *)

\* The newest samples are kept instead of the oldest.
PushedOver(queue, frame) ==
    LET all == queue \o Samples(frame)
    IN  SubSeq(all, 1 + (IF Len(all) > Capacity THEN Len(all) - Capacity ELSE 0), Len(all))

\* next_frame_time is left as it is.
AdvanceAtOnce ==
    /\ stage = "advance" /\ stage' = "wait" /\ hand' = Nothing
    /\ tc' = tc + 1 /\ framesDue' = framesDue
    /\ UNCHANGED <<frameVars, epoch, deviceVars, clapVars, allowance>>

-----------------------------------------------------------------------------
(* The ring buffer.                                                        *)

\* push_slice: all of a frame that fits, at once.
Pushed(queue, frame) ==
    SubSeq(queue \o Samples(frame), 1,
           IF Len(queue) + Parts > Capacity THEN Capacity ELSE Len(queue) + Parts)

Room(queue) == Capacity - Len(queue)

Note(queue, frame) ==
    /\ cut' = IF Room(queue) \in 1 .. Parts - 1 THEN cut \cup {frame} ELSE cut
    /\ lost' = IF Room(queue) = 0 THEN lost \cup {frame} ELSE lost

-----------------------------------------------------------------------------
(* The scheduler thread.                                                   *)

ReadFrame ==
    /\ stage = "wait" /\ framesDue > 0 /\ tc < MaxFrame
    /\ hand' = Frame(tc) /\ stage' = "push"
    /\ UNCHANGED <<frameVars, tc, epoch, framesDue, deviceVars, clapVars, allowance>>

\* generate_and_push_frame
PushSamples ==
    /\ stage = "push" /\ stage' = "advance"
    /\ ring' = Pushed(ring, hand) /\ Note(ring, hand)
    /\ UNCHANGED <<tc, epoch, framesDue, hand, deviceVars, clapVars, allowance>>

\* The clock of the frames goes on from where it was, or from a reset.
Advance ==
    /\ stage = "advance" /\ stage' = "wait" /\ hand' = Nothing
    /\ tc' = tc + 1 /\ framesDue' = framesDue - 1
    /\ UNCHANGED <<frameVars, epoch, deviceVars, clapVars, allowance>>

-----------------------------------------------------------------------------
(* The engine.                                                             *)

\* start_ltc; the ring is not emptied.  The interfaces offer it when nothing
\* is streamed.
StartRing ==
    /\ ~Started /\ epoch < MaxEpochs
    /\ \E start \in RingStarts : tc' = start - 1 /\ shown' = start
    /\ epoch' = epoch + 1 /\ framesDue' = 1 /\ stage' = "prefill" /\ hand' = Nothing
    /\ allowance' = Len(ring) + Parts * (RingPrefill + 2)
    /\ UNCHANGED <<frameVars, deviceVars, clap>>

\* It encodes a lead-in, which has the length of a frame and stands for the
\* one before, and RingPrefill frames; then it starts the scheduler.
PrefillFrame ==
    /\ stage = "prefill"
    /\ ring' = Pushed(ring, Frame(tc)) /\ Note(ring, Frame(tc))
    /\ tc' = tc + 1
    /\ stage' = IF tc' = shown + RingPrefill THEN "wait" ELSE "prefill"
    /\ UNCHANGED <<epoch, framesDue, hand, deviceVars, clapVars, allowance>>

\* reset_ltc: the next frame is due now.
ResetLtc ==
    /\ Streaming /\ epoch < MaxEpochs
    /\ tc' \in RingStarts /\ shown' = tc'
    /\ epoch' = epoch + 1 /\ framesDue' = 1 /\ allowance' = allowance + Parts
    /\ UNCHANGED <<frameVars, stage, hand, deviceVars, clap>>

\* stop_ltc returns when the scheduler has exited; the device plays on.
StopRing ==
    /\ stage = "wait" /\ stage' = "exited"
    /\ framesDue' = 0 /\ shown' = 0 /\ allowance' = 0
    /\ UNCHANGED <<frameVars, tc, epoch, hand, deviceVars, clap>>

\* The tick of the engine, while it plays.
Show ==
    /\ Streaming /\ shown' = tc /\ shown # tc
    /\ UNCHANGED <<frameVars, makingVars, deviceVars, clap, allowance>>

\* cmd_clap: the beep has a ring buffer of its own, which is empty.  A beep
\* while nothing is streamed marks nothing.
Clap ==
    /\ Streaming /\ clap = Nothing /\ clap' = Frame(shown)
    /\ UNCHANGED <<frameVars, makingVars, deviceVars, shown, allowance>>

-----------------------------------------------------------------------------
(* The clock and the device.                                               *)

\* The time of a frame passes.
Tick ==
    /\ behind + Parts <= MaxBehind /\ behind' = behind + Parts
    /\ IF Started
       THEN framesDue < MaxLate /\ framesDue' = framesDue + 1 /\ allowance' = allowance + Parts
       ELSE UNCHANGED <<framesDue, allowance>>
    /\ UNCHANGED <<frameVars, tc, epoch, stage, hand, heard, gap, clapVars>>

\* The callback of the device, for one sample; silence if there is none.  A
\* beep begins with the next sample.
Callback ==
    /\ behind > -MaxAhead /\ behind' = behind - 1
    /\ IF ring # <<>>
       THEN /\ heard' = Head(ring) /\ ring' = Tail(ring) /\ gap' = FALSE
            /\ allowance' = IF Started THEN allowance - 1 ELSE allowance
       ELSE /\ gap' = TRUE /\ UNCHANGED <<heard, ring, allowance>>
    /\ clap' = Nothing
    /\ UNCHANGED <<cut, lost, shown, makingVars>>

RingScheduler == ReadFrame \/ PushSamples \/ Advance

RingNext ==
    \/ RingScheduler \/ StartRing \/ PrefillFrame \/ ResetLtc \/ StopRing \/ Show \/ Clap \/ Tick \/ Callback

\* Time passes and the device keeps playing.
RingSpec == RingInit /\ [][RingNext]_ringVars /\ WF_ringVars(Tick) /\ WF_ringVars(Callback)

-----------------------------------------------------------------------------
Sample == [frame : [epoch : Nat, tc : Nat], part : 1 .. Parts]

RingTypeOK ==
    /\ ring \in Seq(Sample) /\ Len(ring) <= Capacity /\ tc \in Nat /\ epoch \in 0 .. MaxEpochs /\ framesDue \in Nat
    /\ stage \in {"prefill", "wait", "push", "advance", "exited"}
    /\ behind \in -MaxAhead .. MaxBehind /\ gap \in BOOLEAN

EndsWhole(sample) == sample.part = Parts \/ sample.frame \in cut

\* Frames are heard from their beginning and without a pause inside: what
\* did not fit is missing at the end of a frame, and silence falls between
\* frames.
HeardInFrames ==
    [][/\ heard' # heard =>
            \/ heard'.part = 1 /\ (heard # Nothing => EndsWhole(heard))
            \/ heard # Nothing /\ ~gap /\ heard' = [heard EXCEPT !.part = @ + 1]
       /\ gap' /\ ~gap => EndsWhole(heard)]_ringVars

\* A frame is heard once, after the one before it; one that is missing was
\* dropped because the ring was full.
HeardInOrder ==
    [][heard' # heard /\ heard # Nothing /\ heard'.frame # heard.frame =>
         LET f == heard.frame
             g == heard'.frame
         IN  \/ g.epoch > f.epoch
             \/ /\ g.epoch = f.epoch /\ g.tc > f.tc
                /\ \A n \in f.tc + 1 .. g.tc - 1 : [f EXCEPT !.tc = n] \in lost]_ringVars

\* What is heard is what was made.
HeardAsMade == HeardInFrames /\ HeardInOrder

\* The queue, and with it the delay of the signal, is never longer than what
\* was left of the session before, the prefill and a frame for every reset
\* make it, plus what the clock is ahead of the samples the device has taken.
QueueIsAccounted ==
    Streaming =>
      Len(ring) + Parts * (framesDue - (IF stage = "advance" THEN 1 ELSE 0))
        <= allowance

\* A stream that is stopped falls silent, or is started again.
FallsSilent == ~Started ~> (Started \/ (gap /\ ring = <<>>))

-----------------------------------------------------------------------------
(* What a document says and the code does not keep (README, section 5).    *)

\* README.org: "the beep and flash mark the exact timecode, which is logged".
\* The logged timecode is that of the frame heard with the beep, or the next.
ClapIsExact ==
    [][clap # Nothing /\ clap' = Nothing /\ ~gap' /\ heard'.frame.epoch = clap.epoch
         => clap.tc <= heard'.frame.tc + 1]_ringVars
=============================================================================
