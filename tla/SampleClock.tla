----------------------------- MODULE SampleClock ----------------------------
(***************************************************************************)
(* How many samples each frame of the signal gets.  A frame lasts Num/Den  *)
(* samples, seldom a whole number; what is left over is carried to the     *)
(* next frame (compute_frame_sample_count in audio-core/src/               *)
(* ltc_encoder.rs), by the scheduler of the live signal                    *)
(* (audio_output.rs) and by the writer of files (gui-engine/src/cli.rs).   *)
(* The frames encoded before the scheduler runs carry nothing over.        *)
(*                                                                         *)
(* The code counts in floating point; its rounding is left out.            *)
(***************************************************************************)
EXTENDS Integers

CONSTANTS
    Num, Den,   \* sample_rate / fps
    FirstFrames,\* frames encoded by start_ltc; none in a file
    MaxEncoded  \* bound on the frames

ASSUME ClockAssumption ==
    /\ Num \in Nat /\ Den \in Nat \ {0} /\ FirstFrames \in Nat /\ MaxEncoded \in Nat

VARIABLES
    frames,     \* encoded so far
    samples,    \* in them
    acc         \* samples_accumulator, in parts of a sample

clockVars == <<frames, samples, acc>>

Base == Num \div Den
Fraction == Num - Base * Den

\* A slip a change to the code could make, for the mutation entries of
\* PROJECT.json: each frame is rounded for itself.
RoundedCount(a) ==
    [samples |-> IF 2 * Fraction >= Den THEN Base + 1 ELSE Base, acc |-> a]

\* compute_frame_sample_count
ComputeFrameSampleCount(a) ==
    IF a + Fraction >= Den
    THEN [samples |-> Base + 1, acc |-> a + Fraction - Den]
    ELSE [samples |-> Base, acc |-> a + Fraction]

ClockInit == frames = FirstFrames /\ samples = FirstFrames * Base /\ acc = 0

\* The accumulator is kept when the frame has been sent; a frame that the
\* watchdog holds back is computed again from the same one.
NextFrame ==
    /\ frames < MaxEncoded
    /\ frames' = frames + 1
    /\ samples' = samples + ComputeFrameSampleCount(acc).samples
    /\ acc' = ComputeFrameSampleCount(acc).acc

ClockSpec == ClockInit /\ [][NextFrame]_clockVars

-----------------------------------------------------------------------------
\* However long the signal, it ends less than FirstFrames + 1 samples before the
\* time its frames should take, and never after it.
NoDrift ==
    /\ samples * Den <= frames * Num
    /\ frames * Num < samples * Den + (FirstFrames + 1) * Den
=============================================================================
