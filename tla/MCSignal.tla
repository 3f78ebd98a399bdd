------------------------------ MODULE MCSignal ------------------------------
(* The signal, for TLC: the samples of its frames (SampleClock), its way   *)
(* through the queue to the device (SignalRing), and from a recording back *)
(* to timecodes (MCLtcFrames).  A behaviour is about one of the three,     *)
(* with the others at rest.                                                *)
EXTENDS MCLtcFrames, SampleClock, SignalRing

VARIABLE subject

signalVars == <<subject, vars, clockVars, ringVars>>

FramesAtRest ==
    /\ recording = Recorded(At(23, 59, 59, 20), "whole", <<4>>, {})
    /\ nextInterval = 1 /\ bits = <<>> /\ done = FALSE /\ found = <<>>

SignalInit ==
    \/ subject = "frames" /\ Init /\ ClockInit /\ RingInit
    \/ subject \in {"clock", "ring"} /\ FramesAtRest /\ ClockInit /\ RingInit

OnFrames(action) == subject = "frames" /\ action /\ UNCHANGED <<subject, clockVars, ringVars>>
OnClock(action) == subject = "clock" /\ action /\ UNCHANGED <<subject, vars, ringVars>>
OnRing(action) == subject = "ring" /\ action /\ UNCHANGED <<subject, vars, clockVars>>

SignalNext == OnFrames(Next) \/ OnClock(NextFrame) \/ OnRing(RingNext)

SignalSpec == SignalInit /\ [][SignalNext]_signalVars
=============================================================================
