------------------------------- MODULE Timecode -------------------------------
(***************************************************************************)
(* Arithmetic on the numbers of frames, "hours:minutes:seconds:frames"     *)
(* (audio-core/src/ltc_encoder.rs, ltc_decoder.rs, ltc_integrity.rs and    *)
(* gui-engine/src/converter/timecode.rs).  With drop-frame counting the    *)
(* first Dropped numbers of a minute are left out, except in every         *)
(* KeepEvery-th minute.  The code has 60, 60, 24, 2 and 10 here, and the   *)
(* rate rounded up for MaxFrames.                                          *)
(***************************************************************************)
EXTENDS Integers

CONSTANTS
    MaxFrames,  \* numbers in a second
    Seconds,    \* seconds in a minute
    Minutes,    \* minutes in an hour
    Hours,      \* hours in a day
    Dropped,    \* numbers left out at the start of a minute
    KeepEvery   \* a minute that is a multiple of this has all its numbers

ASSUME TimecodeAssumption ==
    /\ MaxFrames \in Nat /\ Dropped \in Nat \ {0} /\ MaxFrames > Dropped
    /\ Seconds \in Nat \ {0, 1} /\ Minutes \in Nat \ {0, 1} /\ Hours \in Nat \ {0}
    /\ KeepEvery \in Nat \ {0}

\* What the fields of a decoded frame can hold.
Timecodes == [hours : Nat, minutes : Nat, seconds : Nat, frames : Nat]

At(h, m, s, f) == [hours |-> h, minutes |-> m, seconds |-> s, frames |-> f]

\* bcd_value_valid: each field is in its range.
Valid(t) ==
    /\ t.frames < MaxFrames /\ t.seconds < Seconds
    /\ t.minutes < Minutes /\ t.hours < Hours

Drops(t, df) == df /\ t.minutes % KeepEvery # 0

\* The numbers that are counted.
Exists(t, df) ==
    Valid(t) /\ (Drops(t, df) /\ t.seconds = 0 => t.frames >= Dropped)

NextMinute(t) ==
    IF t.minutes + 1 < Minutes THEN At(t.hours, t.minutes + 1, 0, 0)
    ELSE At(IF t.hours + 1 < Hours THEN t.hours + 1 ELSE 0, 0, 0, 0)

\* increment_timecode.
Increment(t, df) ==
    IF t.frames + 1 < MaxFrames
    THEN At(t.hours, t.minutes, t.seconds, t.frames + 1)
    ELSE IF t.seconds + 1 < Seconds
    THEN At(t.hours, t.minutes, t.seconds + 1, 0)
    ELSE LET next == NextMinute(t)
         IN  At(next.hours, next.minutes, 0, IF Drops(next, df) THEN Dropped ELSE 0)

\* The last number of the minute before.
EndOfMinuteBefore(t) ==
    LET last(h, m) == At(h, m, Seconds - 1, MaxFrames - 1)
    IN  IF t.minutes > 0 THEN last(t.hours, t.minutes - 1)
        ELSE last(IF t.hours = 0 THEN Hours - 1 ELSE t.hours - 1, Minutes - 1)

\* Back by one, as if no number were left out.
Back(t) ==
    IF t.frames > 0 THEN At(t.hours, t.minutes, t.seconds, t.frames - 1)
    ELSE IF t.seconds > 0
    THEN At(t.hours, t.minutes, t.seconds - 1, MaxFrames - 1)
    ELSE EndOfMinuteBefore(t)

\* decrement_timecode_frame of the converter: only from a number that is left
\* out does it go to the minute before.
DecrementFrame(t, df) ==
    IF Drops(t, df) /\ t.seconds = 0 /\ t.frames < Dropped
    THEN EndOfMinuteBefore(t)
    ELSE Back(t)

\* decrement_timecode of the decoder: the nearest of the four numbers before
\* that leads to t, or the value none.
Decrement(t, df, none) ==
    LET cand[n \in 1 .. 4] == Back(IF n = 1 THEN t ELSE cand[n - 1])
        hits == {n \in 1 .. 4 : Increment(cand[n], df) = t}
    IN  IF hits = {} THEN none
        ELSE cand[CHOOSE n \in hits : \A m \in hits : n <= m]
=============================================================================
