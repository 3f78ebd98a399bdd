------------------------ MODULE DecodedTimecodesProofs ------------------------
(***************************************************************************)
(* Theorems about Timecode and DecodedTimecodes, for every rate, every     *)
(* length of a file and every way to misread it: the arithmetic counts the *)
(* frames of a day; the passes keep the frames in the order of the file    *)
(* and, once the values have been validated, in range, and so is the start *)
(* of the file; a repair is right; and the frame the stream begins with    *)
(* and the start of the file are the true ones.                            *)
(***************************************************************************)
EXTENDS DecodedTimecodes, SequenceTheorems, FiniteSetTheorems, WellFoundedInduction,
        TLAPS

-----------------------------------------------------------------------------
(* The arithmetic.                                                         *)

LEMMA NextMinuteInRange ==
    ASSUME NEW tc \in Timecodes
    PROVE  /\ NextMinute(tc) \in Timecodes
           /\ NextMinute(tc).seconds = 0 /\ NextMinute(tc).frames = 0
           /\ Valid(tc) => Valid(NextMinute(tc))
  BY TimecodeAssumption DEF NextMinute, At, Timecodes, Valid

\* increment_timecode keeps a timecode in range, ...
LEMMA IncrementInRange ==
    ASSUME NEW tc \in Timecodes, NEW df \in BOOLEAN
    PROVE  /\ Increment(tc, df) \in Timecodes
           /\ Valid(tc) => Valid(Increment(tc, df))
  <1> DEFINE next == NextMinute(tc)
             first == IF Drops(next, df) THEN Dropped ELSE 0
  <1>1. /\ next \in Timecodes /\ (Valid(tc) => Valid(next))
      BY NextMinuteInRange
  <1>2. first \in Nat /\ first < MaxFrames /\ 0 < MaxFrames /\ 0 < Seconds
      BY TimecodeAssumption
  <1>3. /\ tc.hours \in Nat /\ tc.minutes \in Nat /\ tc.seconds \in Nat /\ tc.frames \in Nat
        /\ next.hours \in Nat /\ next.minutes \in Nat
      BY <1>1 DEF Timecodes
  <1> HIDE DEF next, first
  <1>4. CASE tc.frames + 1 < MaxFrames
    <2>1. Increment(tc, df) = At(tc.hours, tc.minutes, tc.seconds, tc.frames + 1)
        BY <1>4 DEF Increment
    <2> QED
        BY <1>3, <1>4, <2>1 DEF At, Timecodes, Valid
  <1>5. CASE ~(tc.frames + 1 < MaxFrames) /\ tc.seconds + 1 < Seconds
    <2>1. Increment(tc, df) = At(tc.hours, tc.minutes, tc.seconds + 1, 0)
        BY <1>5 DEF Increment
    <2> QED
        BY <1>2, <1>3, <1>5, <2>1 DEF At, Timecodes, Valid
  <1>6. CASE ~(tc.frames + 1 < MaxFrames) /\ ~(tc.seconds + 1 < Seconds)
    <2>1. Increment(tc, df) = At(next.hours, next.minutes, 0, first)
        BY <1>6 DEF Increment, next, first
    <2> QED
        BY <1>1, <1>2, <1>3, <2>1 DEF At, Timecodes, Valid
  <1> QED
      BY <1>4, <1>5, <1>6

\* ... and leads to no number that is left out.
THEOREM IncrementExists ==
    ASSUME NEW tc \in Timecodes, NEW df \in BOOLEAN, Exists(tc, df)
    PROVE  Exists(Increment(tc, df), df)
  <1> DEFINE next == NextMinute(tc)
             first == IF Drops(next, df) THEN Dropped ELSE 0
  <1>1. Valid(Increment(tc, df))
      BY IncrementInRange DEF Exists
  <1>2. /\ tc.hours \in Nat /\ tc.minutes \in Nat /\ tc.seconds \in Nat /\ tc.frames \in Nat
        /\ next.hours \in Nat /\ next.minutes \in Nat /\ first \in Nat
        /\ Drops(next, df) => first = Dropped
        /\ Dropped \in Nat
      BY NextMinuteInRange, TimecodeAssumption DEF Timecodes
  <1> HIDE DEF next, first
  <1>3. CASE tc.frames + 1 < MaxFrames
    <2>1. Increment(tc, df) = At(tc.hours, tc.minutes, tc.seconds, tc.frames + 1)
        BY <1>3 DEF Increment
    <2> QED
        BY <1>1, <1>2, <2>1 DEF At, Timecodes, Exists, Drops
  <1>4. CASE ~(tc.frames + 1 < MaxFrames) /\ tc.seconds + 1 < Seconds
    <2>1. Increment(tc, df) = At(tc.hours, tc.minutes, tc.seconds + 1, 0)
        BY <1>4 DEF Increment
    <2>2. Increment(tc, df).seconds # 0
        BY <1>2, <2>1 DEF At
    <2> QED
        BY <1>1, <2>2 DEF Exists
  <1>5. CASE ~(tc.frames + 1 < MaxFrames) /\ ~(tc.seconds + 1 < Seconds)
    <2>1. Increment(tc, df) = At(next.hours, next.minutes, 0, first)
        BY <1>5 DEF Increment, next, first
    <2> QED
        BY <1>1, <1>2, <2>1 DEF At, Timecodes, Exists, Drops
  <1> QED
      BY <1>3, <1>4, <1>5

LEMMA EndOfMinuteBeforeInRange ==
    ASSUME NEW tc \in Timecodes
    PROVE  /\ EndOfMinuteBefore(tc) \in Timecodes
           /\ Valid(tc) => Valid(EndOfMinuteBefore(tc))
  BY TimecodeAssumption DEF EndOfMinuteBefore, At, Timecodes, Valid

LEMMA DecrementInRange ==
    ASSUME NEW tc \in Timecodes, NEW df \in BOOLEAN
    PROVE  /\ DecrementFrame(tc, df) \in Timecodes
           /\ Valid(tc) => Valid(DecrementFrame(tc, df))
  <1>1. /\ tc.hours \in Nat /\ tc.minutes \in Nat /\ tc.seconds \in Nat /\ tc.frames \in Nat
        /\ MaxFrames - 1 \in Nat
      BY TimecodeAssumption DEF Timecodes
  <1>2. /\ Back(tc) \in Timecodes
        /\ Valid(tc) => Valid(Back(tc))
    <2>1. CASE tc.frames > 0
        BY <1>1, <2>1, TimecodeAssumption DEF At, Timecodes, Back, Valid
    <2>2. CASE ~(tc.frames > 0) /\ tc.seconds > 0
        BY <1>1, <2>2, TimecodeAssumption DEF At, Timecodes, Back, Valid
    <2>3. CASE ~(tc.frames > 0) /\ ~(tc.seconds > 0)
        BY <2>3, EndOfMinuteBeforeInRange DEF Back
    <2> QED
        BY <2>1, <2>2, <2>3
  <1> QED
      BY <1>2, EndOfMinuteBeforeInRange DEF DecrementFrame

\* Without numbers left out, the converter's step back undoes the encoder's
\* step forward, over the end of every second, minute, hour and day.
LEMMA BackUndoesPlainly ==
    ASSUME NEW tc \in Timecodes, Valid(tc)
    PROVE  DecrementFrame(Increment(tc, FALSE), FALSE) = tc
  <1>1. \A t : DecrementFrame(t, FALSE) = Back(t)
      BY DEF DecrementFrame, Drops
  <1>2. /\ tc.hours \in Nat /\ tc.minutes \in Nat /\ tc.seconds \in Nat /\ tc.frames \in Nat
        /\ tc.frames < MaxFrames /\ tc.seconds < Seconds
        /\ MaxFrames \in Nat /\ Seconds \in Nat
        /\ tc = At(tc.hours, tc.minutes, tc.seconds, tc.frames)
      BY TimecodeAssumption DEF Timecodes, Valid, At
  <1>3. CASE tc.frames + 1 < MaxFrames
    <2> DEFINE up == At(tc.hours, tc.minutes, tc.seconds, tc.frames + 1)
    <2>1. Increment(tc, FALSE) = up
        BY <1>3 DEF Increment
    <2>2. /\ up.hours = tc.hours /\ up.minutes = tc.minutes
          /\ up.seconds = tc.seconds /\ up.frames = tc.frames + 1
        BY DEF At
    <2> HIDE DEF up
    <2>3. Back(up) = At(tc.hours, tc.minutes, tc.seconds, up.frames - 1)
        BY <1>2, <2>2 DEF Back
    <2>4. up.frames - 1 = tc.frames
        BY <1>2, <2>2
    <2>5. DecrementFrame(up, FALSE) = tc
        BY <1>1, <1>2, <2>3, <2>4, Zenon
    <2> QED
        BY <2>1, <2>5
  <1>4. CASE ~(tc.frames + 1 < MaxFrames) /\ tc.seconds + 1 < Seconds
    <2> DEFINE up == At(tc.hours, tc.minutes, tc.seconds + 1, 0)
    <2>1. Increment(tc, FALSE) = up
        BY <1>4 DEF Increment
    <2>2. tc.frames = MaxFrames - 1
        BY <1>2, <1>4
    <2>3. /\ up.hours = tc.hours /\ up.minutes = tc.minutes
          /\ up.seconds = tc.seconds + 1 /\ up.frames = 0
        BY DEF At
    <2> HIDE DEF up
    <2>4. Back(up) = At(tc.hours, tc.minutes, up.seconds - 1, MaxFrames - 1)
        BY <1>2, <2>3 DEF Back
    <2>5. up.seconds - 1 = tc.seconds
        BY <1>2, <2>3
    <2>6. DecrementFrame(up, FALSE) = tc
        BY <1>1, <1>2, <2>2, <2>4, <2>5, Zenon
    <2> QED
        BY <2>1, <2>6
  <1>5. CASE ~(tc.frames + 1 < MaxFrames) /\ ~(tc.seconds + 1 < Seconds)
    <2>1. NextMinute(tc).frames = 0 /\ NextMinute(tc).seconds = 0
        BY NextMinuteInRange
    <2>2. Increment(tc, FALSE) = NextMinute(tc)
      <3>1. Increment(tc, FALSE) = At(NextMinute(tc).hours, NextMinute(tc).minutes, 0, 0)
          BY <1>5 DEF Increment, Drops
      <3> QED
          BY <3>1, <2>1, NextMinuteInRange DEF At, Timecodes
    <2>3. tc.frames = MaxFrames - 1 /\ tc.seconds = Seconds - 1
        BY <1>2, <1>5
    <2>4. Back(NextMinute(tc)) = EndOfMinuteBefore(NextMinute(tc))
        BY <2>1 DEF Back
    <2>5. EndOfMinuteBefore(NextMinute(tc)) =
              At(tc.hours, tc.minutes, Seconds - 1, MaxFrames - 1)
        BY TimecodeAssumption DEF EndOfMinuteBefore, NextMinute, At, Valid, Timecodes
    <2> QED
        BY <1>1, <1>2, <2>2, <2>3, <2>4, <2>5
  <1> QED
      BY <1>3, <1>4, <1>5

\* The first number of a minute that leaves numbers out.
FirstCounted(t, df) == Drops(t, df) /\ t.seconds = 0 /\ t.frames = Dropped

\* From a number that is counted, the converter's step back
\* (decrement_timecode_frame) undoes the encoder's step forward
\* (increment_timecode), except from the first number of a minute that
\* leaves numbers out, where it never does: it goes to one of those.
THEOREM BackUndoesForward ==
    ASSUME NEW tc \in Timecodes, NEW df \in BOOLEAN, Exists(tc, df)
    PROVE  DecrementFrame(Increment(tc, df), df) = tc <=> ~FirstCounted(Increment(tc, df), df)
  <1> DEFINE next == NextMinute(tc)
             up == Increment(tc, df)
  <1>1. up \in Timecodes /\ Exists(up, df)
      BY IncrementInRange, IncrementExists
  <1>2. Valid(tc)
      BY DEF Exists
  <1>3. DecrementFrame(up, df) = Back(up)
    <2> HIDE DEF up
    <2>1. up.frames \in Nat /\ Dropped \in Nat
        BY <1>1, TimecodeAssumption DEF Timecodes
    <2> QED
        BY <1>1, <2>1 DEF Exists, DecrementFrame
  <1>4. ASSUME FirstCounted(up, df)
        PROVE  Back(up) # tc
    <2> HIDE DEF up
    <2>1. up.frames > 0 /\ up.frames - 1 = Dropped - 1 /\ up.seconds = 0 /\ Drops(up, df)
        BY <1>4, TimecodeAssumption DEF FirstCounted
    <2>2. Back(up) = At(up.hours, up.minutes, 0, Dropped - 1)
        BY <2>1 DEF Back
    <2>3. Drops(Back(up), df) /\ Back(up).seconds = 0 /\ Back(up).frames = Dropped - 1
        BY <2>1, <2>2 DEF At, Drops
    <2>4. ~(Dropped - 1 >= Dropped)
        BY TimecodeAssumption
    <2>5. ~Exists(Back(up), df)
        BY <2>3, <2>4 DEF Exists
    <2> QED
        BY <2>5
  <1>5. ASSUME ~FirstCounted(up, df)
        PROVE  up = Increment(tc, FALSE)
    <2>1. CASE tc.frames + 1 < MaxFrames \/ tc.seconds + 1 < Seconds
        BY <2>1 DEF Increment
    <2>2. CASE ~(tc.frames + 1 < MaxFrames) /\ ~(tc.seconds + 1 < Seconds)
      <3>1. up = At(next.hours, next.minutes, 0, IF Drops(next, df) THEN Dropped ELSE 0)
          BY <2>2 DEF Increment
      <3>2. ~Drops(next, df)
        <4>1. CASE Drops(next, df)
          <5>1. up = At(next.hours, next.minutes, 0, Dropped)
              BY <3>1, <4>1
          <5>2. up.minutes = next.minutes /\ up.seconds = 0 /\ up.frames = Dropped
              BY <5>1 DEF At
          <5> QED
              BY <1>5, <4>1, <5>2 DEF FirstCounted, Drops
        <4> QED
            BY <4>1
      <3>3. Increment(tc, FALSE) = At(next.hours, next.minutes, 0, 0)
          BY <2>2 DEF Increment, Drops
      <3> QED
          BY <3>1, <3>2, <3>3
    <2> QED
        BY <2>1, <2>2
  <1>6. ASSUME ~FirstCounted(up, df)
        PROVE  Back(up) = tc
    <2>1. DecrementFrame(Increment(tc, FALSE), FALSE) = Back(Increment(tc, FALSE))
        BY DEF DecrementFrame, Drops
    <2> QED
        BY <1>2, <1>5, <1>6, <2>1, BackUndoesPlainly
  <1> QED
      BY <1>3, <1>4, <1>6

-----------------------------------------------------------------------------
(* Counting.                                                               *)

\* A set of numbers has a least one.
LEMMA LeastNumber ==
    ASSUME NEW T, T \subseteq Nat, T # {}
    PROVE  \E n \in T : \A m \in T : n <= m
  <1> DEFINE less == {p \in Nat \X Nat : p[1] < p[2]}
  <1>1. IsWellFoundedOn(less, Nat)
      BY NatLessThanWellFounded DEF OpToRel
  <1>2. PICK n \in T : \A m \in T : ~(<<m, n>> \in less)
      BY <1>1, WFMin
  <1>3. ASSUME NEW m \in T PROVE n <= m
    <2>1. m \in Nat /\ n \in Nat
        OBVIOUS
    <2>2. m < n => <<m, n>> \in less
        BY <2>1
    <2> QED
        BY <1>2, <2>1, <2>2
  <1> QED
      BY <1>3

\* A set that has 0, and with a number the next one, has all up to n.
LEMMA Counting ==
    ASSUME NEW n \in Nat, NEW S, 0 \in S, \A k \in 1 .. n : k - 1 \in S => k \in S
    PROVE  0 .. n \subseteq S
  <1> SUFFICES ASSUME (0 .. n) \ S # {} PROVE FALSE
      OBVIOUS
  <1>1. PICK k \in (0 .. n) \ S : \A m \in (0 .. n) \ S : k <= m
    <2>1. (0 .. n) \ S \subseteq Nat
        OBVIOUS
    <2> QED
        BY <2>1, LeastNumber
  <1>2. k # 0 /\ k - 1 \in 0 .. n /\ ~(k <= k - 1)
      BY <1>1
  <1>3. k - 1 \in S
      BY <1>1, <1>2
  <1> QED
      BY <1>1, <1>2, <1>3

LEMMA Times ==
    ASSUME NEW a \in Nat, NEW b \in Nat, NEW n \in Nat
    PROVE  /\ a * n \in Nat /\ b * n \in Nat
           /\ (a + 1) * n = a * n + n
           /\ a < b => b * n >= a * n + n
  <1>1. a * n \in Nat /\ b * n \in Nat /\ (a + 1) * n = a * n + n
      OBVIOUS
  <1>2. ASSUME a < b PROVE b * n >= a * n + n
    <2>1. PICK d \in Nat : b = a + 1 + d
      <3>1. b - (a + 1) \in Nat /\ b = a + 1 + (b - (a + 1))
          BY <1>2
      <3> QED
          BY <3>1
    <2>2. (a + 1 + d) * n = a * n + n + d * n /\ d * n \in Nat
        OBVIOUS
    <2> QED
        BY <1>1, <2>1, <2>2
  <1> QED
      BY <1>1, <1>2

\* A multiple of n and what is left below n.
LEMMA Rest ==
    ASSUME NEW a \in Nat, NEW b \in Nat, NEW n \in Nat, NEW r \in Nat, NEW s \in Nat,
           r < n, s < n, a * n + r = b * n + s
    PROVE  a = b /\ r = s
  <1>1. a * n \in Nat /\ b * n \in Nat
      BY Times
  <1>2. (a < b => b * n >= a * n + n) /\ (b < a => a * n >= b * n + n)
      BY Times
  <1>3. a = b
      BY <1>1, <1>2
  <1> QED
      BY <1>1, <1>3

-----------------------------------------------------------------------------
(* The numbers of a day, counted.                                          *)

MinuteFrames == Seconds * MaxFrames

\* The numbers left out at the start of minute m, and the minutes before it
\* that leave some out.
LeftOut(m, df) == IF df /\ m % KeepEvery # 0 THEN Dropped ELSE 0
Leaving(m, df) == {j \in 0 .. m - 1 : df /\ j % KeepEvery # 0}

\* How many frames of an hour come before minute m.
MinuteStart(m, df) == m * MinuteFrames - Cardinality(Leaving(m, df)) * Dropped

HourLen(df) == MinuteStart(Minutes, df)
DayLen(df) == Hours * HourLen(df)

\* How many frames of the hour, and of the day, come before tc.
InMinute(tc, df) == tc.seconds * MaxFrames + tc.frames - LeftOut(tc.minutes, df)
InHour(tc, df) == MinuteStart(tc.minutes, df) + InMinute(tc, df)
Number(tc, df) == tc.hours * HourLen(df) + InHour(tc, df)

LEMMA MinuteFacts ==
    /\ MinuteFrames \in Nat /\ MinuteFrames >= 2 * MaxFrames
    /\ \A m \in Nat, df \in BOOLEAN :
           LeftOut(m, df) \in Nat /\ LeftOut(m, df) < MaxFrames
    /\ \A df \in BOOLEAN : LeftOut(0, df) = 0
  <1> USE TimecodeAssumption
  <1>1. MinuteFrames \in Nat /\ MinuteFrames >= 2 * MaxFrames
      BY DEF MinuteFrames
  <1>2. 0 % KeepEvery = 0
    <2> DEFINE q == 0 \div KeepEvery
               r == 0 % KeepEvery
    <2>1. q \in Int /\ r \in 0 .. KeepEvery - 1 /\ KeepEvery * q + r = 0
        OBVIOUS
    <2> HIDE DEF q, r
    <2>2. (q >= 1 => KeepEvery * q >= KeepEvery) /\ (q <= -1 => KeepEvery * q <= -KeepEvery)
        BY <2>1
    <2>3. q = 0
        BY <2>1, <2>2
    <2>4. r = 0
        BY <2>1, <2>3
    <2> QED
        BY <2>4 DEF r
  <1> QED
      BY <1>1, <1>2 DEF LeftOut

LEMMA MinuteStep ==
    ASSUME NEW m \in Nat, NEW df \in BOOLEAN
    PROVE  /\ MinuteStart(0, df) = 0
           /\ MinuteStart(m, df) \in Int
           /\ MinuteStart(m + 1, df) = MinuteStart(m, df) + MinuteFrames - LeftOut(m, df)
  <1> USE TimecodeAssumption
  <1> DEFINE c == Cardinality(Leaving(m, df))
             d == Cardinality(Leaving(m + 1, df))
  <1>1. IsFiniteSet(Leaving(m, df)) /\ c \in Nat
    <2>1. IsFiniteSet(0 .. m - 1) /\ Leaving(m, df) \in SUBSET (0 .. m - 1)
        BY FS_Interval DEF Leaving
    <2> QED
        BY <2>1, FS_Subset, FS_CardinalityType
  <1>2. /\ df /\ m % KeepEvery # 0 => d = c + 1
        /\ ~(df /\ m % KeepEvery # 0) => d = c
    <2>1. CASE df /\ m % KeepEvery # 0
      <3>1. Leaving(m + 1, df) = Leaving(m, df) \cup {m} /\ m \notin Leaving(m, df)
          BY <2>1 DEF Leaving
      <3>2. Cardinality(Leaving(m, df) \cup {m}) = Cardinality(Leaving(m, df)) + 1
          BY <1>1, <3>1, FS_AddElement, Zenon
      <3> QED
          BY <2>1, <3>1, <3>2
    <2>2. CASE ~(df /\ m % KeepEvery # 0)
      <3>1. Leaving(m + 1, df) = Leaving(m, df)
          BY <2>2 DEF Leaving
      <3> QED
          BY <2>2, <3>1
    <2> QED
        BY <2>1, <2>2
  <1>3. Cardinality(Leaving(0, df)) = 0
    <2>1. Leaving(0, df) = {}
        BY DEF Leaving
    <2> QED
        BY <2>1, FS_EmptySet
  <1>4. (m + 1) * MinuteFrames = m * MinuteFrames + MinuteFrames /\ m * MinuteFrames \in Nat
      BY MinuteFacts
  <1>5. (c + 1) * Dropped = c * Dropped + Dropped /\ c * Dropped \in Nat
      BY <1>1
  <1>6. /\ MinuteStart(m, df) = m * MinuteFrames - c * Dropped
        /\ MinuteStart(m + 1, df) = (m + 1) * MinuteFrames - d * Dropped
        /\ MinuteStart(0, df) = 0 * MinuteFrames - Cardinality(Leaving(0, df)) * Dropped
      BY DEF MinuteStart
  <1> HIDE DEF c, d
  <1>7. MinuteStart(0, df) = 0
      BY <1>3, <1>6, MinuteFacts
  <1>8. CASE df /\ m % KeepEvery # 0
    <2>1. d * Dropped = c * Dropped + Dropped /\ LeftOut(m, df) = Dropped
        BY <1>2, <1>5, <1>8 DEF LeftOut
    <2> QED
        BY <1>4, <1>5, <1>6, <1>7, <2>1, MinuteFacts
  <1>9. CASE ~(df /\ m % KeepEvery # 0)
    <2>1. d * Dropped = c * Dropped /\ LeftOut(m, df) = 0
        BY <1>2, <1>9 DEF LeftOut
    <2> QED
        BY <1>4, <1>5, <1>6, <1>7, <2>1, MinuteFacts
  <1> QED
      BY <1>8, <1>9

\* A minute has frames, and a later one begins after it.
LEMMA MinutesAscend ==
    ASSUME NEW m \in Nat, NEW n \in Nat, m < n, NEW df \in BOOLEAN
    PROVE  /\ MinuteStart(m, df) \in Nat
           /\ MinuteStart(n, df) >= MinuteStart(m, df) + MinuteFrames - LeftOut(m, df)
  <1> USE TimecodeAssumption, MinuteFacts
  <1>1. \A k \in Nat : /\ MinuteStart(k, df) \in Int
                       /\ MinuteStart(k + 1, df) >= MinuteStart(k, df)
                       /\ MinuteStart(0, df) = 0
    <2> SUFFICES ASSUME NEW k \in Nat
                 PROVE  /\ MinuteStart(k, df) \in Int
                        /\ MinuteStart(k + 1, df) >= MinuteStart(k, df)
                        /\ MinuteStart(0, df) = 0
        OBVIOUS
    <2>1. LeftOut(k, df) \in Nat /\ LeftOut(k, df) < MaxFrames
        OBVIOUS
    <2> QED
        BY <2>1, MinuteStep
  <1>2. ASSUME NEW k \in Nat, NEW e \in Nat
        PROVE  MinuteStart(k + e, df) >= MinuteStart(k, df)
    <2> DEFINE S == {j \in 0 .. e : MinuteStart(k + j, df) >= MinuteStart(k, df)}
    <2>1. 0 \in S
        BY <1>1
    <2>2. ASSUME NEW j \in 1 .. e, j - 1 \in S PROVE j \in S
      <3>1. MinuteStart(k + (j - 1), df) >= MinuteStart(k, df)
          BY <2>2
      <3>2. k + (j - 1) \in Nat /\ k + (j - 1) + 1 = k + j
          OBVIOUS
      <3>3. MinuteStart(k + j, df) >= MinuteStart(k + (j - 1), df)
          BY <1>1, <3>2
      <3>4. /\ MinuteStart(k + j, df) \in Int /\ MinuteStart(k + (j - 1), df) \in Int
            /\ MinuteStart(k, df) \in Int
          BY <1>1, <3>2
      <3> QED
          BY <3>1, <3>3, <3>4
    <2> HIDE DEF S
    <2>3. 0 .. e \subseteq S
        BY <2>1, <2>2, Counting
    <2>4. e \in S
        BY <2>3
    <2> QED
        BY <2>4 DEF S
  <1>3. MinuteStart(m, df) \in Nat
    <2>1. MinuteStart(0 + m, df) >= MinuteStart(0, df)
        BY <1>2
    <2> QED
        BY <1>1, <2>1
  <1>4. MinuteStart(n, df) >= MinuteStart(m + 1, df)
    <2> DEFINE k == m + 1
               e == n - (m + 1)
    <2>1. k \in Nat /\ e \in Nat /\ k + e = n
        OBVIOUS
    <2> HIDE DEF k, e
    <2>2. MinuteStart(k + e, df) >= MinuteStart(k, df)
        BY <1>2, <2>1
    <2> QED
        BY <2>1, <2>2 DEF k
  <1> QED
      BY <1>3, <1>4, MinuteStep

LEMMA HourFacts ==
    ASSUME NEW df \in BOOLEAN
    PROVE  /\ HourLen(df) \in Nat /\ HourLen(df) >= 6
           /\ DayLen(df) \in Nat /\ DayLen(df) >= HourLen(df)
           /\ Hours # 1 => DayLen(df) >= 2 * HourLen(df)
           /\ Hours = 1 => DayLen(df) = HourLen(df)
           /\ DayLen(df) = (Hours - 1) * HourLen(df) + HourLen(df)
           /\ (Hours - 1) * HourLen(df) \in Nat
  <1> USE TimecodeAssumption, MinuteFacts
  <1> DEFINE L == HourLen(df)
  <1>1. L \in Nat /\ L >= 6
    <2>1. MinuteStart(1, df) = MinuteFrames
        BY MinuteStep
    <2>2. MinuteStart(Minutes, df) >= MinuteStart(1, df) + MinuteFrames - LeftOut(1, df)
        BY MinutesAscend
    <2>3. MinuteStart(Minutes, df) \in Nat
      <3>1. Minutes \in Nat /\ Minutes + 1 \in Nat /\ Minutes < Minutes + 1
          OBVIOUS
      <3> QED
          BY <3>1, MinutesAscend
    <2>4. LeftOut(1, df) \in Nat /\ LeftOut(1, df) < MaxFrames /\ MaxFrames >= 2
        OBVIOUS
    <2> QED
        BY <2>1, <2>2, <2>3, <2>4 DEF HourLen
  <1> HIDE DEF L
  <1>2. Hours * L \in Nat /\ Hours * L >= L
      BY <1>1
  <1>3. Hours # 1 => Hours * L >= 2 * L
      BY <1>1
  <1>4. Hours * L = (Hours - 1) * L + L /\ (Hours - 1) * L \in Nat
      BY <1>1
  <1>5. Hours = 1 => Hours * L = L
      BY <1>1
  <1> QED
      BY <1>1, <1>2, <1>3, <1>4, <1>5 DEF DayLen, L

\* A number that is counted lies within its minute, and its minute within the
\* hour.
LEMMA InHourRange ==
    ASSUME NEW tc \in Timecodes, NEW df \in BOOLEAN, Exists(tc, df)
    PROVE  /\ InMinute(tc, df) \in Nat
           /\ InMinute(tc, df) < MinuteFrames - LeftOut(tc.minutes, df)
           /\ MinuteStart(tc.minutes, df) \in Nat
           /\ InHour(tc, df) \in Nat
           /\ InHour(tc, df) < MinuteStart(tc.minutes + 1, df)
           /\ InHour(tc, df) < HourLen(df)
  <1> USE TimecodeAssumption
  <1>1. /\ tc.minutes \in Nat /\ tc.seconds \in Nat /\ tc.frames \in Nat
        /\ tc.minutes < Minutes /\ tc.seconds < Seconds /\ tc.frames < MaxFrames
        /\ LeftOut(tc.minutes, df) # 0 /\ tc.seconds = 0 => tc.frames >= LeftOut(tc.minutes, df)
        /\ LeftOut(tc.minutes, df) \in Nat /\ LeftOut(tc.minutes, df) < MaxFrames
      BY MinuteFacts DEF Timecodes, Exists, Valid, Drops, LeftOut
  <1>2. /\ tc.seconds * MaxFrames \in Nat
        /\ tc.seconds # 0 => tc.seconds * MaxFrames >= MaxFrames
        /\ tc.seconds * MaxFrames <= MinuteFrames - MaxFrames
    <2>1. tc.seconds * MaxFrames \in Nat
        BY <1>1
    <2>2. tc.seconds # 0 => tc.seconds * MaxFrames >= MaxFrames
        BY <1>1
    <2>3. Seconds * MaxFrames >= tc.seconds * MaxFrames + MaxFrames
        BY <1>1, Times
    <2> QED
        BY <2>1, <2>2, <2>3, <1>1 DEF MinuteFrames
  <1>3. InMinute(tc, df) \in Nat /\ InMinute(tc, df) < MinuteFrames - LeftOut(tc.minutes, df)
      BY <1>1, <1>2, MinuteFacts DEF InMinute
  <1>4. /\ MinuteStart(tc.minutes, df) \in Nat
        /\ HourLen(df) >= MinuteStart(tc.minutes, df) + MinuteFrames - LeftOut(tc.minutes, df)
      BY <1>1, MinutesAscend DEF HourLen
  <1>5. MinuteStart(tc.minutes + 1, df)
            = MinuteStart(tc.minutes, df) + MinuteFrames - LeftOut(tc.minutes, df)
      BY <1>1, MinuteStep
  <1> QED
      BY <1>1, <1>3, <1>4, <1>5, HourFacts, MinuteFacts DEF InHour

LEMMA NumberRange ==
    ASSUME NEW tc \in Timecodes, NEW df \in BOOLEAN, Exists(tc, df)
    PROVE  Number(tc, df) \in 0 .. DayLen(df) - 1
  <1> USE TimecodeAssumption
  <1> DEFINE L == HourLen(df)
  <1>1. InHour(tc, df) \in Nat /\ InHour(tc, df) < L /\ L \in Nat
      BY InHourRange, HourFacts
  <1>2. tc.hours \in Nat /\ tc.hours < Hours
      BY DEF Timecodes, Exists, Valid
  <1>3. DayLen(df) = Hours * L
      BY DEF DayLen
  <1>4. Number(tc, df) = tc.hours * L + InHour(tc, df)
      BY DEF Number
  <1> HIDE DEF L
  <1>5. tc.hours * L \in Nat /\ Hours * L >= tc.hours * L + L /\ Hours * L \in Nat
      BY <1>1, <1>2, Times
  <1> QED
      BY <1>1, <1>3, <1>4, <1>5

\* After a number of the day comes the next one, and after the last the first.
Ahead(n, by, df) == IF n + by < DayLen(df) THEN n + by ELSE n + by - DayLen(df)

\* increment_timecode counts: over the end of every second, minute, hour and
\* day, and over the numbers that are left out.
THEOREM IncrementCounts ==
    ASSUME NEW tc \in Timecodes, NEW df \in BOOLEAN, Exists(tc, df)
    PROVE  Number(Increment(tc, df), df) = Ahead(Number(tc, df), 1, df)
  <1> USE TimecodeAssumption
  <1> DEFINE L == HourLen(df)
             up == Increment(tc, df)
             next == NextMinute(tc)
  <1>1. /\ tc.hours \in Nat /\ tc.minutes \in Nat /\ tc.seconds \in Nat /\ tc.frames \in Nat
        /\ tc.hours < Hours /\ tc.minutes < Minutes
        /\ tc.seconds < Seconds /\ tc.frames < MaxFrames
      BY DEF Timecodes, Exists, Valid
  <1>2. /\ InMinute(tc, df) \in Nat /\ InHour(tc, df) \in Nat /\ InHour(tc, df) < L
        /\ MinuteStart(tc.minutes, df) \in Nat /\ L \in Nat
        /\ LeftOut(tc.minutes, df) \in Nat
      BY <1>1, InHourRange, HourFacts, MinuteFacts
  <1>3. Number(tc, df) \in Nat /\ Number(tc, df) < DayLen(df) /\ DayLen(df) \in Nat
      BY NumberRange, HourFacts
  <1>4. up \in Timecodes /\ Exists(up, df) /\ Number(up, df) < DayLen(df) /\ Number(up, df) \in Nat
      BY IncrementInRange, IncrementExists, NumberRange, HourFacts
  <1>5. tc.seconds * MaxFrames \in Nat /\ tc.hours * L \in Nat
      BY <1>1, <1>2
  <1>6. CASE tc.frames + 1 < MaxFrames
    <2>1. up = At(tc.hours, tc.minutes, tc.seconds, tc.frames + 1)
        BY <1>6 DEF Increment
    <2>2. Number(up, df) = Number(tc, df) + 1
        BY <1>1, <1>2, <1>5, <2>1 DEF At, Number, InHour, InMinute
    <2> QED
        BY <1>3, <1>4, <2>2 DEF Ahead
  <1>7. CASE ~(tc.frames + 1 < MaxFrames) /\ tc.seconds + 1 < Seconds
    <2>1. up = At(tc.hours, tc.minutes, tc.seconds + 1, 0)
        BY <1>7 DEF Increment
    <2>2. /\ tc.frames = MaxFrames - 1
          /\ (tc.seconds + 1) * MaxFrames = tc.seconds * MaxFrames + MaxFrames
        BY <1>1, <1>7, Times
    <2>3. /\ up.hours = tc.hours /\ up.minutes = tc.minutes
          /\ up.seconds = tc.seconds + 1 /\ up.frames = 0
        BY <2>1 DEF At
    <2>4. InMinute(up, df) = InMinute(tc, df) + 1
        BY <1>1, <1>2, <1>5, <2>2, <2>3 DEF InMinute
    <2>5. Number(up, df) = Number(tc, df) + 1
        BY <1>2, <1>5, <2>3, <2>4 DEF Number, InHour
    <2> QED
        BY <1>3, <1>4, <2>5 DEF Ahead
  <1>8. CASE ~(tc.frames + 1 < MaxFrames) /\ ~(tc.seconds + 1 < Seconds)
    <2>1. up = At(next.hours, next.minutes, 0, LeftOut(next.minutes, df))
        BY <1>8 DEF Increment, Drops, LeftOut
    <2>2. InHour(tc, df) + 1 = MinuteStart(tc.minutes + 1, df)
      <3>1. tc.frames = MaxFrames - 1 /\ tc.seconds = Seconds - 1
          BY <1>1, <1>8
      <3>2. (Seconds - 1) * MaxFrames = MinuteFrames - MaxFrames
          BY DEF MinuteFrames
      <3>3. MinuteStart(tc.minutes + 1, df)
                = MinuteStart(tc.minutes, df) + MinuteFrames - LeftOut(tc.minutes, df)
          BY <1>1, MinuteStep
      <3> QED
          BY <1>1, <1>2, <3>1, <3>2, <3>3, MinuteFacts DEF InHour, InMinute
    <2>3. /\ next.hours \in Nat /\ next.minutes \in Nat
          /\ MinuteStart(next.minutes, df) \in Int /\ LeftOut(next.minutes, df) \in Nat
        BY <1>1, NextMinuteInRange, MinuteStep, MinuteFacts DEF Timecodes
    <2>4. InHour(up, df) = MinuteStart(next.minutes, df)
        BY <2>1, <2>3 DEF InHour, InMinute, At
    <2>5. Number(up, df) = next.hours * L + MinuteStart(next.minutes, df)
        BY <2>1, <2>4 DEF Number, At
    <2>6. Number(tc, df) = tc.hours * L + InHour(tc, df)
        BY DEF Number
    <2>7. CASE tc.minutes + 1 < Minutes
      <3>1. next.hours = tc.hours /\ next.minutes = tc.minutes + 1
          BY <2>7 DEF NextMinute, At
      <3>2. Number(up, df) = Number(tc, df) + 1
          BY <1>2, <1>5, <2>2, <2>5, <2>6, <3>1
      <3> QED
          BY <1>3, <1>4, <3>2 DEF Ahead
    <2>8. CASE ~(tc.minutes + 1 < Minutes)
      <3>1. tc.minutes + 1 = Minutes /\ next.minutes = 0
            /\ next.hours = IF tc.hours + 1 < Hours THEN tc.hours + 1 ELSE 0
          BY <1>1, <2>8 DEF NextMinute, At
      <3>2. InHour(tc, df) + 1 = L /\ MinuteStart(0, df) = 0
          BY <2>2, <3>1, MinuteStep DEF HourLen
      <3>3. (tc.hours + 1) * L = tc.hours * L + L
          BY <1>1, <1>2
      <3>4. CASE tc.hours + 1 < Hours
        <4>1. Number(up, df) = Number(tc, df) + 1
            BY <1>2, <1>5, <2>5, <2>6, <3>1, <3>2, <3>3, <3>4
        <4> QED
            BY <1>3, <1>4, <4>1 DEF Ahead
      <3>5. CASE ~(tc.hours + 1 < Hours)
        <4>1. tc.hours + 1 = Hours
            BY <1>1, <3>5
        <4>2. Number(tc, df) + 1 = DayLen(df)
            BY <1>2, <1>5, <2>6, <3>2, <3>3, <4>1 DEF DayLen
        <4>3. Number(up, df) = 0
            BY <1>2, <2>5, <3>1, <3>2, <3>5
        <4> QED
            BY <1>3, <4>2, <4>3 DEF Ahead
      <3> QED
          BY <3>4, <3>5
    <2> QED
        BY <2>7, <2>8
  <1> QED
      BY <1>6, <1>7, <1>8

\* No two timecodes have the same number.
THEOREM NumbersTell ==
    ASSUME NEW tc \in Timecodes, NEW u \in Timecodes, NEW df \in BOOLEAN,
           Exists(tc, df), Exists(u, df), Number(tc, df) = Number(u, df)
    PROVE  tc = u
  <1> USE TimecodeAssumption
  <1> DEFINE L == HourLen(df)
  <1>1. /\ tc.hours \in Nat /\ tc.minutes \in Nat /\ tc.seconds \in Nat /\ tc.frames \in Nat
        /\ u.hours \in Nat /\ u.minutes \in Nat /\ u.seconds \in Nat /\ u.frames \in Nat
        /\ tc.frames < MaxFrames /\ u.frames < MaxFrames /\ MaxFrames \in Nat
      BY DEF Timecodes, Exists, Valid
  <1>2. /\ InHour(tc, df) \in Nat /\ InHour(tc, df) < L
        /\ InHour(u, df) \in Nat /\ InHour(u, df) < L
        /\ L \in Nat
      BY InHourRange, HourFacts
  <1>3. tc.hours = u.hours /\ InHour(tc, df) = InHour(u, df)
    <2>1. tc.hours * L + InHour(tc, df) = u.hours * L + InHour(u, df)
        BY DEF Number
    <2> HIDE DEF L
    <2> QED
        BY <1>1, <1>2, <2>1, Rest
  <1>4. tc.minutes = u.minutes
    <2>1. /\ InMinute(tc, df) \in Nat /\ InMinute(u, df) \in Nat
          /\ MinuteStart(tc.minutes, df) \in Nat /\ MinuteStart(u.minutes, df) \in Nat
          /\ InHour(tc, df) = MinuteStart(tc.minutes, df) + InMinute(tc, df)
          /\ InHour(u, df) = MinuteStart(u.minutes, df) + InMinute(u, df)
          /\ InMinute(tc, df) < MinuteFrames - LeftOut(tc.minutes, df)
          /\ InMinute(u, df) < MinuteFrames - LeftOut(u.minutes, df)
        BY InHourRange DEF InHour
    <2>2. LeftOut(tc.minutes, df) \in Nat /\ LeftOut(u.minutes, df) \in Nat /\ MinuteFrames \in Nat
        BY <1>1, MinuteFacts
    <2>3. ~(tc.minutes < u.minutes)
      <3> SUFFICES ASSUME tc.minutes < u.minutes PROVE FALSE
          OBVIOUS
      <3>1. MinuteStart(u.minutes, df)
                >= MinuteStart(tc.minutes, df) + MinuteFrames - LeftOut(tc.minutes, df)
          BY <1>1, MinutesAscend
      <3>2. InHour(u, df) >= MinuteStart(u.minutes, df)
          BY <2>1
      <3>3. InHour(tc, df) < MinuteStart(u.minutes, df)
          BY <2>1, <2>2, <3>1
      <3> QED
          BY <1>2, <1>3, <2>1, <3>2, <3>3
    <2>4. ~(u.minutes < tc.minutes)
      <3> SUFFICES ASSUME u.minutes < tc.minutes PROVE FALSE
          OBVIOUS
      <3>1. MinuteStart(tc.minutes, df)
                >= MinuteStart(u.minutes, df) + MinuteFrames - LeftOut(u.minutes, df)
          BY <1>1, MinutesAscend
      <3>2. InHour(tc, df) >= MinuteStart(tc.minutes, df)
          BY <2>1
      <3>3. InHour(u, df) < MinuteStart(tc.minutes, df)
          BY <2>1, <2>2, <3>1
      <3> QED
          BY <1>2, <1>3, <2>1, <3>2, <3>3
    <2> QED
        BY <1>1, <2>3, <2>4
  <1>5. tc.seconds = u.seconds /\ tc.frames = u.frames
    <2>1. LeftOut(tc.minutes, df) \in Nat /\ MinuteStart(tc.minutes, df) \in Nat
        BY <1>1, MinuteFacts, InHourRange
    <2>2. tc.seconds * MaxFrames \in Nat /\ u.seconds * MaxFrames \in Nat
        BY <1>1
    <2>3. tc.seconds * MaxFrames + tc.frames = u.seconds * MaxFrames + u.frames
        BY <1>1, <1>3, <1>4, <2>1, <2>2 DEF InHour, InMinute
    <2> DEFINE a == tc.seconds
               b == u.seconds
               r == tc.frames
               q == u.frames
    <2>4. /\ a \in Nat /\ b \in Nat /\ r \in Nat /\ q \in Nat /\ MaxFrames \in Nat
          /\ r < MaxFrames /\ q < MaxFrames /\ a * MaxFrames + r = b * MaxFrames + q
        BY <1>1, <2>3
    <2> HIDE DEF a, b, r, q
    <2>5. a = b /\ r = q
        BY <2>4, Rest
    <2> QED
        BY <2>5 DEF a, b, r, q
  <1> QED
      BY <1>3, <1>4, <1>5 DEF Timecodes

\* A timecode of the hour after is an hour ahead.
LEMMA HourAhead ==
    ASSUME NEW tc \in Timecodes, NEW df \in BOOLEAN, Exists(tc, df)
    PROVE  LET foreign == [tc EXCEPT !.hours = (@ + 1) % Hours]
           IN  /\ foreign \in Timecodes /\ Exists(foreign, df)
               /\ Number(foreign, df) = Ahead(Number(tc, df), HourLen(df), df)
               /\ Hours = 1 => foreign = tc
  <1> USE TimecodeAssumption
  <1> DEFINE L == HourLen(df)
             foreign == [tc EXCEPT !.hours = (@ + 1) % Hours]
  <1>1. tc.hours \in Nat /\ tc.hours < Hours
      BY DEF Timecodes, Exists, Valid
  <1>2. (tc.hours + 1) % Hours = IF tc.hours + 1 < Hours THEN tc.hours + 1 ELSE 0
    <2> DEFINE q == (tc.hours + 1) \div Hours
               r == (tc.hours + 1) % Hours
    <2>1. q \in Int /\ r \in 0 .. Hours - 1 /\ Hours * q + r = tc.hours + 1
        BY <1>1
    <2> HIDE DEF q, r
    <2>2. /\ q >= 2 => Hours * q >= 2 * Hours
          /\ q = 1 => Hours * q = Hours
          /\ q = 0 => Hours * q = 0
          /\ q <= -1 => Hours * q <= -Hours
        BY <2>1
    <2>3. r = IF tc.hours + 1 < Hours THEN tc.hours + 1 ELSE 0
        BY <1>1, <2>1, <2>2
    <2> QED
        BY <2>3 DEF r
  <1>3. /\ foreign.hours = IF tc.hours + 1 < Hours THEN tc.hours + 1 ELSE 0
        /\ foreign.minutes = tc.minutes /\ foreign.seconds = tc.seconds
        /\ foreign.frames = tc.frames
      BY <1>2 DEF Timecodes
  <1>4. foreign \in Timecodes
      BY <1>1, <1>2 DEF Timecodes
  <1>5. Hours = 1 => foreign = tc
    <2>1. Hours = 1 => tc.hours = 0 /\ foreign.hours = 0
        BY <1>1, <1>3
    <2> QED
        BY <1>3, <1>4, <2>1 DEF Timecodes
  <1> HIDE DEF foreign
  <1>6. Exists(foreign, df)
      BY <1>1, <1>3 DEF Exists, Valid, Drops
  <1>7. InHour(foreign, df) = InHour(tc, df)
      BY <1>3 DEF InHour, InMinute
  <1>8. /\ Number(foreign, df) = foreign.hours * L + InHour(tc, df)
        /\ Number(tc, df) = tc.hours * L + InHour(tc, df)
      BY <1>7 DEF Number
  <1>9. /\ L \in Nat /\ InHour(tc, df) \in Nat /\ InHour(tc, df) < L
        /\ DayLen(df) \in Nat /\ DayLen(df) = Hours * L
      BY InHourRange, HourFacts DEF DayLen
  <1>10. /\ Number(foreign, df) < DayLen(df) /\ Number(foreign, df) \in Nat
         /\ Number(tc, df) \in Nat
      BY <1>4, <1>6, <1>9, NumberRange
  <1> HIDE DEF L
  <1>11. (tc.hours + 1) * L = tc.hours * L + L /\ tc.hours * L \in Nat
      BY <1>1, <1>9
  <1>12. Number(foreign, df) = Ahead(Number(tc, df), L, df)
    <2>1. CASE tc.hours + 1 < Hours
      <3>1. Number(foreign, df) = Number(tc, df) + L
          BY <1>3, <1>8, <1>9, <1>11, <2>1
      <3> QED
          BY <1>10, <3>1 DEF Ahead
    <2>2. CASE ~(tc.hours + 1 < Hours)
      <3>1. tc.hours + 1 = Hours
          BY <1>1, <2>2
      <3>2. Number(tc, df) + L = DayLen(df) + InHour(tc, df)
          BY <1>8, <1>9, <1>11, <3>1
      <3>3. Number(foreign, df) = InHour(tc, df)
          BY <1>3, <1>8, <1>9, <2>2
      <3> QED
          BY <1>9, <1>10, <3>2, <3>3 DEF Ahead
    <2> QED
        BY <2>1, <2>2
  <1> QED
      BY <1>4, <1>5, <1>6, <1>12 DEF foreign, L

-----------------------------------------------------------------------------
(* The inductive invariant.                                                *)

FrameSet == [timecode : Timecodes, secs : Positions]

AllInRange(s) == \A i \in 1 .. Len(s) : Valid(s[i].timecode)

InOrder(s) == \A i, j \in 1 .. Len(s) : i < j => s[i].secs < s[j].secs

\* What each pass has brought about, and what it counts on.
PassInv ==
    /\ pc = "read" =>
           /\ pos \in 0 .. FileLen /\ kept = <<>>
           /\ \A i \in 1 .. Len(timecodes) : timecodes[i].secs < pos
    /\ pc = "backfill" => timecodes # <<>> /\ kept = <<>>
    /\ pc = "bcd" =>
           /\ pos >= 1
           /\ \A k \in 1 .. Len(kept), i \in 1 .. Len(timecodes) :
                  i >= pos => kept[k].secs < timecodes[i].secs
    /\ pc = "outliers" => pos >= 2
    /\ pc \notin {"read", "backfill", "bcd"} => AllInRange(timecodes)
    /\ AllInRange(kept)
    /\ InOrder(timecodes) /\ InOrder(kept)
    /\ pc = "shift" => start # None
    /\ start # None => Valid(start)

IInv == TimecodesTypeOK /\ PassInv

\* The frames after a step, and a part of them.
LEMMA PartKeeps ==
    ASSUME NEW s \in Seq(FrameSet), NEW m \in Nat \ {0}, NEW n \in Nat, n <= Len(s)
    PROVE  /\ SubSeq(s, m, n) \in Seq(FrameSet)
           /\ AllInRange(s) => AllInRange(SubSeq(s, m, n))
           /\ InOrder(s) => InOrder(SubSeq(s, m, n))
  <1>1. Len(s) \in Nat /\ \A i \in m .. n : s[i] \in FrameSet
    <2>1. Len(s) \in Nat
        BY LenProperties
    <2>2. \A i \in m .. n : i \in 1 .. Len(s)
        BY <2>1
    <2> QED
        BY <2>1, <2>2, ElementOfSeq, Zenon
  <1>2. /\ SubSeq(s, m, n) \in Seq(FrameSet)
        /\ Len(SubSeq(s, m, n)) = IF m <= n THEN n - m + 1 ELSE 0
        /\ \A i \in 1 .. n - m + 1 : SubSeq(s, m, n)[i] = s[m + i - 1]
      BY <1>1, SubSeqProperties
  <1>3. \A i \in 1 .. Len(SubSeq(s, m, n)) :
            m + i - 1 \in 1 .. Len(s) /\ SubSeq(s, m, n)[i] = s[m + i - 1]
      BY <1>1, <1>2
  <1>4. AllInRange(s) => AllInRange(SubSeq(s, m, n))
      BY <1>3 DEF AllInRange
  <1>5. InOrder(s) => InOrder(SubSeq(s, m, n))
    <2> SUFFICES ASSUME InOrder(s),
                        NEW i \in 1 .. Len(SubSeq(s, m, n)),
                        NEW j \in 1 .. Len(SubSeq(s, m, n)), i < j
                 PROVE  SubSeq(s, m, n)[i].secs < SubSeq(s, m, n)[j].secs
        BY DEF InOrder
    <2>1. m + i - 1 < m + j - 1 /\ m + i - 1 \in 1 .. Len(s) /\ m + j - 1 \in 1 .. Len(s)
        BY <1>3
    <2> QED
        BY <1>3, <2>1 DEF InOrder
  <1> QED
      BY <1>2, <1>4, <1>5

LEMMA InitInv == Init => IInv
  <1> SUFFICES ASSUME Init PROVE IInv
      OBVIOUS
  <1> USE FileAssumption
  <1>1. <<>> \in Seq(FrameSet) /\ Len(<<>>) = 0
      BY EmptySeq
  <1>2. truth \in [Positions -> Timecodes] /\ signal \in [Positions -> Timecodes \cup {None}]
      BY DEF Init
  <1>3. dropFrame \in BOOLEAN
      BY DEF Init
  <1>4. TimecodesTypeOK
      BY <1>1, <1>2, <1>3 DEF Init, TimecodesTypeOK, FrameSet
  <1>5. PassInv
      BY <1>1 DEF Init, PassInv, AllInRange, InOrder
  <1> QED
      BY <1>4, <1>5 DEF IInv

\* The parts of the type invariant that no pass after the reading touches.
LEMMA TypeKept ==
    ASSUME IInv, UNCHANGED fileVars,
           pc' \in {"read", "backfill", "bcd", "outliers", "tail", "head", "coherent",
                    "start", "shift", "done"},
           pos' \in Nat, timecodes' \in Seq(FrameSet), kept' \in Seq(FrameSet),
           firstSecs' \in Nat, start' \in Timecodes \cup {None}
    PROVE  TimecodesTypeOK'
  <1>1. dropFrame' = dropFrame /\ truth' = truth /\ signal' = signal
      BY DEF fileVars
  <1>2. dropFrame' \in BOOLEAN
      BY <1>1 DEF IInv, TimecodesTypeOK
  <1> QED
      BY <1>1, <1>2 DEF IInv, TimecodesTypeOK, FrameSet

\* What the types say of the frames.
LEMMA FrameTypes ==
    ASSUME IInv
    PROVE  /\ timecodes \in Seq(FrameSet) /\ kept \in Seq(FrameSet)
           /\ Len(timecodes) \in Nat /\ Len(kept) \in Nat
           /\ \A i \in 1 .. Len(timecodes) :
                  timecodes[i].timecode \in Timecodes /\ timecodes[i].secs \in Positions
           /\ \A i \in 1 .. Len(kept) :
                  kept[i].timecode \in Timecodes /\ kept[i].secs \in Positions
           /\ \A tc \in Timecodes : /\ Successor(tc) \in Timecodes
                                    /\ Valid(tc) => Valid(Successor(tc))
           /\ Positions \subseteq Nat
  <1>1. timecodes \in Seq(FrameSet) /\ kept \in Seq(FrameSet) /\ dropFrame \in BOOLEAN
      BY DEF IInv, TimecodesTypeOK, FrameSet
  <1>2. Len(timecodes) \in Nat /\ Len(kept) \in Nat
      BY <1>1, LenProperties
  <1>3. /\ \A i \in 1 .. Len(timecodes) : timecodes[i] \in FrameSet
        /\ \A i \in 1 .. Len(kept) : kept[i] \in FrameSet
      BY <1>1, ElementOfSeq, Zenon
  <1>4. \A f \in FrameSet : f.timecode \in Timecodes /\ f.secs \in Positions
      BY DEF FrameSet
  <1>5. \A tc \in Timecodes : /\ Successor(tc) \in Timecodes
                              /\ Valid(tc) => Valid(Successor(tc))
      BY <1>1, IncrementInRange DEF Successor
  <1>6. Positions \subseteq Nat
      BY FileAssumption DEF Positions
  <1> QED
      BY <1>1, <1>2, <1>3, <1>4, <1>5, <1>6

LEMMA ReadFrameStep ==
    ASSUME IInv, ReadFrame
    PROVE  IInv'
  <1> USE FileAssumption
  <1>1. TimecodesTypeOK /\ PassInv
      BY DEF IInv
  <1>2. /\ pc = "read" /\ pos < FileLen /\ pos' = pos + 1
        /\ UNCHANGED <<dropFrame, gap, pc, kept, firstSecs, start>>
        /\ truth' = [truth EXCEPT ![pos] = TrueAt(pos)]
      BY DEF ReadFrame
  <1>3. PICK tc \in Readings(TrueAt(pos)) :
            /\ signal' = [signal EXCEPT ![pos] = tc]
            /\ timecodes' = IF pos < LockAfter \/ tc = None THEN timecodes
                            ELSE Append(timecodes, [timecode |-> tc, secs |-> pos])
      BY DEF ReadFrame
  <1>4. pos \in Positions /\ pos \in Nat
      BY <1>1, <1>2 DEF PassInv, Positions
  <1>5. TrueAt(pos) \in Timecodes
    <2>1. pos # 0 => pos - 1 \in Positions
        BY <1>4 DEF Positions
    <2>2. 0 \in Positions
        BY DEF Positions
    <2> QED
        BY <1>1, <2>1, <2>2, FrameTypes DEF TrueAt, TimecodesTypeOK
  <1>6. tc \in Timecodes \cup {None}
    <2>1. Garbage \in Timecodes
        BY TimecodeAssumption DEF Garbage, At, Timecodes
    <2>2. Successor(TrueAt(pos)) \in Timecodes
        BY <1>5, FrameTypes
    <2>3. [TrueAt(pos) EXCEPT !.hours = (TrueAt(pos).hours + 1) % Hours] \in Timecodes
        BY <1>5, TimecodeAssumption DEF Timecodes
    <2>4. \A how \in {"garbage", "echo", "foreign"} : Misread(TrueAt(pos), how) \in Timecodes
        BY <2>1, <2>2, <2>3 DEF Misread
    <2> QED
        BY <1>3, <1>5, <2>4 DEF Readings
  <1>7. /\ truth' \in [Positions -> Timecodes]
        /\ signal' \in [Positions -> Timecodes \cup {None}]
      BY <1>1, <1>2, <1>3, <1>5, <1>6 DEF TimecodesTypeOK
  <1> DEFINE new == [timecode |-> tc, secs |-> pos]
  <1>8. /\ timecodes' \in Seq(FrameSet)
        /\ \A i \in 1 .. Len(timecodes') : timecodes'[i].secs < pos + 1
        /\ InOrder(timecodes')
    <2>1. CASE pos < LockAfter \/ tc = None
      <3>1. timecodes' = timecodes
          BY <2>1, <1>3
      <3>2. \A i \in 1 .. Len(timecodes) : timecodes[i].secs < pos /\ timecodes[i].secs \in Nat
          BY <1>1, <1>2, FrameTypes DEF PassInv
      <3>3. \A i \in 1 .. Len(timecodes) : timecodes[i].secs < pos + 1
          BY <1>4, <3>2
      <3>4. InOrder(timecodes) /\ timecodes \in Seq(FrameSet)
          BY <1>1, FrameTypes DEF PassInv
      <3> QED
          BY <3>1, <3>3, <3>4
    <2>2. CASE ~(pos < LockAfter \/ tc = None)
      <3>1. new \in FrameSet /\ timecodes' = Append(timecodes, new)
          BY <2>2, <1>3, <1>4, <1>6 DEF FrameSet
      <3>2. timecodes \in Seq(FrameSet) /\ Len(timecodes) \in Nat
          BY FrameTypes
      <3>3. /\ timecodes' \in Seq(FrameSet)
            /\ Len(timecodes') = Len(timecodes) + 1
            /\ \A i \in 1 .. Len(timecodes) : timecodes'[i] = timecodes[i]
            /\ timecodes'[Len(timecodes) + 1] = new
          BY <3>1, <3>2, AppendProperties
      <3>4. \A i \in 1 .. Len(timecodes) : timecodes[i].secs < pos /\ timecodes[i].secs \in Nat
          BY <1>1, <1>2, FrameTypes DEF PassInv
      <3>5. new.secs = pos
          OBVIOUS
      <3>6. \A i \in 1 .. Len(timecodes') : timecodes'[i].secs < pos + 1
          BY <3>2, <3>3, <3>4, <3>5, <1>4
      <3>7. InOrder(timecodes')
        <4>1. \A i, j \in 1 .. Len(timecodes) : i < j => timecodes[i].secs < timecodes[j].secs
            BY <1>1 DEF PassInv, InOrder
        <4> SUFFICES ASSUME NEW i \in 1 .. Len(timecodes'), NEW j \in 1 .. Len(timecodes'),
                            i < j
                     PROVE  timecodes'[i].secs < timecodes'[j].secs
            BY DEF InOrder
        <4>2. i \in 1 .. Len(timecodes) /\ (j \in 1 .. Len(timecodes) \/ j = Len(timecodes) + 1)
            BY <3>2, <3>3
        <4> QED
            BY <3>3, <3>4, <3>5, <4>1, <4>2
      <3> QED
          BY <3>3, <3>6, <3>7
    <2> QED
        BY <2>1, <2>2
  <1>9. TimecodesTypeOK'
    <2>1. dropFrame' \in BOOLEAN
        BY <1>1, <1>2 DEF TimecodesTypeOK
    <2>2. pos' \in Nat
        BY <1>2, <1>4
    <2> QED
        BY <1>1, <1>2, <1>7, <1>8, <2>1, <2>2 DEF TimecodesTypeOK, FrameSet
  <1>10. PassInv'
    <2>1. pos' \in 0 .. FileLen
        BY <1>2, <1>4
    <2> QED
        BY <1>1, <1>2, <1>8, <2>1 DEF PassInv
  <1> QED
      BY <1>9, <1>10 DEF IInv

LEMMA ReadEndsStep ==
    ASSUME IInv, ReadEnds
    PROVE  IInv'
  <1>1. /\ pc = "read" /\ UNCHANGED <<fileVars, timecodes, kept, firstSecs, start>>
        /\ pc' = (IF timecodes = <<>> THEN "done" ELSE "backfill")
        /\ pos' \in Nat
      BY DEF ReadEnds, Pass
  <1>2. TimecodesTypeOK'
      BY <1>1, TypeKept, FrameTypes DEF IInv, TimecodesTypeOK
  <1>3. Len(<<>>) = 0
      BY EmptySeq
  <1>4. PassInv'
      BY <1>1, <1>3 DEF IInv, PassInv, AllInRange
  <1> QED
      BY <1>2, <1>4 DEF IInv

LEMMA BackfillStep ==
    ASSUME IInv, Backfill
    PROVE  IInv'
  <1> DEFINE p == timecodes[1].secs - 1
  <1>1. /\ pc = "backfill" /\ UNCHANGED <<fileVars, pc, pos, kept, firstSecs, start>>
        /\ p >= 0 /\ signal[p] # None
        /\ timecodes' = <<Frame(p)>> \o timecodes
      BY DEF Backfill, Precedes
  <1>2. /\ timecodes \in Seq(FrameSet) /\ Len(timecodes) \in Nat \ {0}
        /\ InOrder(timecodes)
      BY <1>1, FrameTypes, EmptySeq DEF IInv, PassInv
  <1>3. timecodes[1].secs \in Positions /\ timecodes[1].secs \in Nat
      BY <1>2, FrameTypes
  <1>4. p \in Positions
      BY <1>1, <1>3, FileAssumption DEF Positions
  <1>5. Frame(p) \in FrameSet /\ Frame(p).secs = p
      BY <1>1, <1>4 DEF Frame, FrameSet, IInv, TimecodesTypeOK
  <1> HIDE DEF p
  <1>6. /\ <<Frame(p)>> \in Seq(FrameSet) /\ Len(<<Frame(p)>>) = 1
        /\ <<Frame(p)>>[1] = Frame(p)
      BY <1>5
  <1>7. /\ timecodes' \in Seq(FrameSet)
        /\ Len(timecodes') = 1 + Len(timecodes)
        /\ \A i \in 1 .. 1 + Len(timecodes) : timecodes'[i] =
               IF i <= 1 THEN Frame(p) ELSE timecodes[i - 1]
    <2>1. /\ <<Frame(p)>> \o timecodes \in Seq(FrameSet)
          /\ Len(<<Frame(p)>> \o timecodes) = Len(<<Frame(p)>>) + Len(timecodes)
          /\ \A i \in 1 .. Len(<<Frame(p)>>) + Len(timecodes) : (<<Frame(p)>> \o timecodes)[i] =
                 IF i <= Len(<<Frame(p)>>) THEN <<Frame(p)>>[i]
                 ELSE timecodes[i - Len(<<Frame(p)>>)]
        BY <1>2, <1>6, ConcatProperties
    <2>2. \A i \in 1 .. 1 + Len(timecodes) : i <= 1 => i = 1
        BY <1>2
    <2> QED
        BY <1>1, <1>6, <2>1, <2>2
  <1>8. \A i \in 1 .. Len(timecodes) : p < timecodes[i].secs
    <2>1. \A i \in 1 .. Len(timecodes) :
              timecodes[i].secs \in Nat /\ (i = 1 \/ timecodes[1].secs < timecodes[i].secs)
        BY <1>2, FrameTypes DEF InOrder
    <2> QED
        BY <1>3, <2>1 DEF p
  <1>9. InOrder(timecodes')
    <2> SUFFICES ASSUME NEW i \in 1 .. Len(timecodes'), NEW j \in 1 .. Len(timecodes'), i < j
                 PROVE  timecodes'[i].secs < timecodes'[j].secs
        BY DEF InOrder
    <2>1. j - 1 \in 1 .. Len(timecodes) /\ timecodes'[j] = timecodes[j - 1]
        BY <1>2, <1>7
    <2>2. CASE i = 1
        BY <2>1, <2>2, <1>5, <1>7, <1>8
    <2>3. CASE i # 1
      <3>1. i - 1 \in 1 .. Len(timecodes) /\ timecodes'[i] = timecodes[i - 1] /\ i - 1 < j - 1
          BY <2>3, <1>2, <1>7
      <3> QED
          BY <3>1, <2>1, <1>2 DEF InOrder
    <2> QED
        BY <2>2, <2>3
  <1>10. timecodes' # <<>>
      BY <1>2, <1>7, EmptySeq
  <1>11. TimecodesTypeOK'
      BY <1>1, <1>7, TypeKept, FrameTypes DEF IInv, TimecodesTypeOK
  <1>12. PassInv'
      BY <1>1, <1>9, <1>10 DEF IInv, PassInv
  <1> QED
      BY <1>11, <1>12 DEF IInv

LEMMA BackfillEndsStep ==
    ASSUME IInv, BackfillEnds
    PROVE  IInv'
  <1>1. /\ pc = "backfill" /\ UNCHANGED <<fileVars, timecodes, kept, start>>
        /\ firstSecs' = timecodes[1].secs
        /\ pc' = "bcd" /\ pos' = 1
      BY DEF BackfillEnds, Pass
  <1>2. timecodes # <<>> /\ kept = <<>> /\ Len(<<>>) = 0
      BY <1>1, EmptySeq DEF IInv, PassInv
  <1>3. firstSecs' \in Nat
    <2>1. Len(timecodes) \in Nat \ {0}
        BY <1>2, FrameTypes, EmptySeq
    <2> QED
        BY <1>1, <2>1, FrameTypes
  <1>4. TimecodesTypeOK'
      BY <1>1, <1>3, TypeKept, FrameTypes DEF IInv, TimecodesTypeOK
  <1>5. PassInv'
      BY <1>1, <1>2 DEF IInv, PassInv, AllInRange
  <1> QED
      BY <1>4, <1>5 DEF IInv

LEMMA ValidateFrameStep ==
    ASSUME IInv, ValidateFrame
    PROVE  IInv'
  <1> DEFINE f == timecodes[pos]
             bridge == [f EXCEPT !.timecode = Successor(kept[Len(kept)].timecode)]
  <1>1. /\ pc = "bcd" /\ pos <= Len(timecodes) /\ pos' = pos + 1
        /\ UNCHANGED <<fileVars, pc, timecodes, firstSecs, start>>
        /\ \/ kept' = kept
           \/ Valid(f.timecode) /\ kept' = Append(kept, f)
           \/ kept # <<>> /\ kept' = Append(kept, bridge)
      BY DEF ValidateFrame, Keep, Bridged
  <1>2. /\ pos >= 1 /\ pos \in Nat
        /\ AllInRange(kept) /\ InOrder(kept) /\ InOrder(timecodes)
        /\ \A k \in 1 .. Len(kept), i \in 1 .. Len(timecodes) :
               i >= pos => kept[k].secs < timecodes[i].secs
        /\ start # None => Valid(start)
      BY <1>1 DEF IInv, PassInv, TimecodesTypeOK
  <1>3. /\ timecodes \in Seq(FrameSet) /\ kept \in Seq(FrameSet)
        /\ Len(timecodes) \in Nat /\ Len(kept) \in Nat
        /\ pos \in 1 .. Len(timecodes)
        /\ \A i \in 1 .. Len(timecodes) : timecodes[i].secs \in Nat
        /\ \A k \in 1 .. Len(kept) : kept[k].secs \in Nat
      BY <1>1, <1>2, FrameTypes
  <1>4. f \in FrameSet
      BY <1>3, ElementOfSeq, Zenon
  <1> HIDE DEF f
  <1>5. kept # <<>> => /\ bridge \in FrameSet /\ bridge.secs = f.secs
                       /\ Valid(bridge.timecode)
    <2> SUFFICES ASSUME kept # <<>>
                 PROVE  bridge \in FrameSet /\ bridge.secs = f.secs /\ Valid(bridge.timecode)
        OBVIOUS
    <2>1. Len(kept) \in 1 .. Len(kept)
        BY <1>3, EmptySeq
    <2>2. kept[Len(kept)].timecode \in Timecodes /\ Valid(kept[Len(kept)].timecode)
        BY <1>2, <2>1, FrameTypes DEF AllInRange
    <2>3. /\ Successor(kept[Len(kept)].timecode) \in Timecodes
          /\ Valid(Successor(kept[Len(kept)].timecode))
        BY <2>2, FrameTypes
    <2> QED
        BY <1>4, <2>3 DEF FrameSet
  <1> HIDE DEF bridge
  <1>6. ASSUME NEW new \in FrameSet, new.secs = f.secs, Valid(new.timecode),
               kept' = Append(kept, new)
        PROVE  /\ kept' \in Seq(FrameSet) /\ AllInRange(kept') /\ InOrder(kept')
               /\ \A k \in 1 .. Len(kept'), i \in 1 .. Len(timecodes) :
                      i >= pos + 1 => kept'[k].secs < timecodes[i].secs
    <2>1. /\ kept' \in Seq(FrameSet)
          /\ Len(kept') = Len(kept) + 1
          /\ \A k \in 1 .. Len(kept) : kept'[k] = kept[k]
          /\ kept'[Len(kept) + 1] = new
        BY <1>3, <1>6, AppendProperties
    <2>2. \A k \in 1 .. Len(kept') : k \in 1 .. Len(kept) \/ k = Len(kept) + 1
        BY <1>3, <2>1
    <2>3. AllInRange(kept')
        BY <1>2, <1>6, <2>1, <2>2 DEF AllInRange
    <2>4. \A k \in 1 .. Len(kept) : kept[k].secs < new.secs
        BY <1>2, <1>3, <1>6 DEF f
    <2>5. InOrder(kept')
      <3> SUFFICES ASSUME NEW i \in 1 .. Len(kept'), NEW j \in 1 .. Len(kept'), i < j
                   PROVE  kept'[i].secs < kept'[j].secs
          BY DEF InOrder
      <3>1. i \in 1 .. Len(kept)
          BY <1>3, <2>1
      <3> QED
          BY <1>2, <2>1, <2>2, <2>4, <3>1 DEF InOrder
    <2>6. \A i \in 1 .. Len(timecodes) : i >= pos + 1 => new.secs < timecodes[i].secs
        BY <1>2, <1>3, <1>6 DEF InOrder, f
    <2>7. \A k \in 1 .. Len(kept), i \in 1 .. Len(timecodes) :
              i >= pos + 1 => kept[k].secs < timecodes[i].secs
        BY <1>2, <1>3
    <2> QED
        BY <2>1, <2>2, <2>3, <2>5, <2>6, <2>7
  <1>7. /\ kept' \in Seq(FrameSet) /\ AllInRange(kept') /\ InOrder(kept')
        /\ \A k \in 1 .. Len(kept'), i \in 1 .. Len(timecodes) :
               i >= pos + 1 => kept'[k].secs < timecodes[i].secs
    <2>1. CASE kept' = kept
        BY <2>1, <1>2, <1>3
    <2>2. CASE Valid(f.timecode) /\ kept' = Append(kept, f)
        BY <2>2, <1>4, <1>6
    <2>3. CASE kept # <<>> /\ kept' = Append(kept, bridge)
        BY <2>3, <1>5, <1>6
    <2> QED
        BY <1>1, <2>1, <2>2, <2>3
  <1>8. TimecodesTypeOK'
    <2>1. pos' \in Nat
        BY <1>1, <1>2
    <2> QED
        BY <1>1, <1>3, <1>7, <2>1, TypeKept DEF IInv, TimecodesTypeOK
  <1>9. PassInv'
    <2>1. pos' >= 1 /\ pos' = pos + 1
        BY <1>1, <1>2
    <2> QED
        BY <1>1, <1>2, <1>7, <2>1 DEF PassInv
  <1> QED
      BY <1>8, <1>9 DEF IInv

LEMMA ValidateEndsStep ==
    ASSUME IInv, ValidateEnds
    PROVE  IInv'
  <1>1. /\ pc = "bcd" /\ UNCHANGED <<fileVars, kept, firstSecs, start>>
        /\ timecodes' = kept
        /\ pc' \in {"coherent", "outliers"} /\ pos' \in Nat
        /\ pc' = "outliers" => pos' = 2
      BY DEF ValidateEnds, Pass
  <1>2. TimecodesTypeOK'
      BY <1>1, TypeKept, FrameTypes DEF IInv, TimecodesTypeOK
  <1>3. PassInv'
      BY <1>1 DEF IInv, PassInv
  <1> QED
      BY <1>2, <1>3 DEF IInv

LEMMA RepairFrameStep ==
    ASSUME IInv, RepairFrame
    PROVE  IInv'
  <1> DEFINE new == [timecodes[pos] EXCEPT !.timecode = Successor(timecodes[pos - 1].timecode)]
  <1>1. /\ pc = "outliers" /\ pos < Len(timecodes) /\ pos' = pos + 1
        /\ UNCHANGED <<fileVars, pc, kept, firstSecs, start>>
        /\ \/ timecodes' = timecodes
           \/ timecodes' = [timecodes EXCEPT ![pos] = new]
      BY DEF RepairFrame
  <1>2. /\ pos >= 2 /\ pos \in Nat
        /\ AllInRange(timecodes) /\ InOrder(timecodes)
        /\ start # None => Valid(start)
      BY <1>1 DEF IInv, PassInv, TimecodesTypeOK
  <1>3. /\ timecodes \in Seq(FrameSet) /\ Len(timecodes) \in Nat
        /\ pos \in 1 .. Len(timecodes) /\ pos - 1 \in 1 .. Len(timecodes)
      BY <1>1, <1>2, FrameTypes
  <1>4. timecodes[pos] \in FrameSet
      BY <1>3, ElementOfSeq, Zenon
  <1>5. /\ Successor(timecodes[pos - 1].timecode) \in Timecodes
        /\ Valid(Successor(timecodes[pos - 1].timecode))
      BY <1>2, <1>3, FrameTypes DEF AllInRange
  <1>6. new \in FrameSet /\ new.secs = timecodes[pos].secs /\ Valid(new.timecode)
      BY <1>4, <1>5 DEF FrameSet
  <1> HIDE DEF new
  <1>7. timecodes' \in Seq(FrameSet) /\ AllInRange(timecodes') /\ InOrder(timecodes')
    <2>1. CASE timecodes' = timecodes
        BY <2>1, <1>2, <1>3
    <2>2. CASE timecodes' = [timecodes EXCEPT ![pos] = new]
      <3>1. /\ timecodes' \in Seq(FrameSet) /\ Len(timecodes') = Len(timecodes)
            /\ \A j \in 1 .. Len(timecodes) :
                   timecodes'[j] = IF j = pos THEN new ELSE timecodes[j]
          BY <2>2, <1>3, <1>6, ExceptSeq
      <3>2. AllInRange(timecodes')
          BY <3>1, <1>2, <1>6 DEF AllInRange
      <3>3. \A j \in 1 .. Len(timecodes) : timecodes'[j].secs = timecodes[j].secs
          BY <3>1, <1>6
      <3>4. InOrder(timecodes')
          BY <3>1, <3>3, <1>2 DEF InOrder
      <3> QED
          BY <3>1, <3>2, <3>4
    <2> QED
        BY <1>1, <2>1, <2>2
  <1>8. pos' \in Nat /\ pos' >= 2
      BY <1>1, <1>2
  <1>9. TimecodesTypeOK'
      BY <1>1, <1>7, <1>8, TypeKept, FrameTypes DEF IInv, TimecodesTypeOK
  <1>10. PassInv'
      BY <1>1, <1>7, <1>8 DEF IInv, PassInv
  <1> QED
      BY <1>9, <1>10 DEF IInv

LEMMA RepairEndsStep ==
    ASSUME IInv, RepairEnds
    PROVE  IInv'
  <1>1. /\ pc = "outliers" /\ UNCHANGED <<fileVars, timecodes, kept, firstSecs, start>>
        /\ pc' = "tail" /\ pos' = 1
      BY DEF RepairEnds, Pass
  <1>2. TimecodesTypeOK'
      BY <1>1, TypeKept, FrameTypes DEF IInv, TimecodesTypeOK
  <1>3. PassInv'
      BY <1>1 DEF IInv, PassInv
  <1> QED
      BY <1>2, <1>3 DEF IInv

\* The passes that only leave frames out.
LEMMA PartStep ==
    ASSUME IInv, pc \in {"tail", "head", "coherent"},
           UNCHANGED <<fileVars, kept, start>>, firstSecs' \in Nat,
           pc' \in {"tail", "head", "coherent", "start"}, pos' \in Nat,
           \/ timecodes' = timecodes
           \/ \E m \in Nat \ {0}, n \in Nat :
                  n <= Len(timecodes) /\ timecodes' = SubSeq(timecodes, m, n)
    PROVE  IInv'
  <1>1. timecodes \in Seq(FrameSet) /\ AllInRange(timecodes) /\ InOrder(timecodes)
      BY FrameTypes DEF IInv, PassInv
  <1>2. timecodes' \in Seq(FrameSet) /\ AllInRange(timecodes') /\ InOrder(timecodes')
    <2>1. CASE timecodes' = timecodes
        BY <1>1, <2>1
    <2>2. ASSUME NEW m \in Nat \ {0}, NEW n \in Nat, n <= Len(timecodes),
                 timecodes' = SubSeq(timecodes, m, n)
          PROVE  timecodes' \in Seq(FrameSet) /\ AllInRange(timecodes') /\ InOrder(timecodes')
        BY <1>1, <2>2, PartKeeps
    <2> QED
        BY <2>1, <2>2
  <1>3. TimecodesTypeOK'
      BY <1>2, TypeKept, FrameTypes DEF IInv, TimecodesTypeOK
  <1>4. PassInv'
      BY <1>2 DEF IInv, PassInv
  <1> QED
      BY <1>3, <1>4 DEF IInv

LEMMA DropLastStep ==
    ASSUME IInv, DropLast
    PROVE  IInv'
  <1>1. /\ pc = "tail" /\ UNCHANGED <<fileVars, kept, firstSecs, start>>
        /\ \/ /\ Len(timecodes) >= 2 /\ timecodes' = SubSeq(timecodes, 1, Len(timecodes) - 1)
              /\ UNCHANGED <<pc, pos>>
           \/ pc' = "head" /\ pos' = 1 /\ timecodes' = timecodes
      BY DEF DropLast, Pass
  <1>2. firstSecs' \in Nat /\ pos \in Nat /\ Len(timecodes) \in Nat
      BY <1>1, FrameTypes DEF IInv, TimecodesTypeOK
  <1>3. \/ timecodes' = timecodes
        \/ \E m \in Nat \ {0}, n \in Nat :
               n <= Len(timecodes) /\ timecodes' = SubSeq(timecodes, m, n)
    <2>1. CASE Len(timecodes) >= 2 /\ timecodes' = SubSeq(timecodes, 1, Len(timecodes) - 1)
      <3>1. /\ 1 \in Nat \ {0} /\ Len(timecodes) - 1 \in Nat
            /\ Len(timecodes) - 1 <= Len(timecodes)
          BY <1>2, <2>1
      <3> QED
          BY <2>1, <3>1
    <2> QED
        BY <1>1, <2>1
  <1>4. pc' \in {"tail", "head", "coherent", "start"} /\ pos' \in Nat
      BY <1>1, <1>2
  <1> QED
      BY <1>1, <1>2, <1>3, <1>4, PartStep

LEMMA DropFirstStep ==
    ASSUME IInv, DropFirst
    PROVE  IInv'
  <1>1. /\ pc = "head" /\ UNCHANGED <<fileVars, kept, firstSecs, start>>
        /\ \/ /\ Len(timecodes) >= 2 /\ timecodes' = Tail(timecodes)
              /\ UNCHANGED <<pc, pos>>
           \/ pc' = "coherent" /\ pos' = 1 /\ timecodes' = timecodes
      BY DEF DropFirst, Pass
  <1>2. /\ firstSecs' \in Nat /\ pos \in Nat
        /\ timecodes \in Seq(FrameSet) /\ Len(timecodes) \in Nat
      BY <1>1, FrameTypes DEF IInv, TimecodesTypeOK
  <1>3. Len(timecodes) >= 2 => Tail(timecodes) = SubSeq(timecodes, 2, Len(timecodes))
      BY <1>2, TailIsSubSeq, EmptySeq
  <1>4. \/ timecodes' = timecodes
        \/ \E m \in Nat \ {0}, n \in Nat :
               n <= Len(timecodes) /\ timecodes' = SubSeq(timecodes, m, n)
    <2>1. CASE Len(timecodes) >= 2 /\ timecodes' = Tail(timecodes)
      <3>1. 2 \in Nat \ {0} /\ timecodes' = SubSeq(timecodes, 2, Len(timecodes))
          BY <1>3, <2>1
      <3>2. Len(timecodes) \in Nat /\ Len(timecodes) <= Len(timecodes)
          BY <1>2
      <3> QED
          BY <3>1, <3>2, Zenon
    <2> QED
        BY <1>1, <2>1
  <1>5. pc' \in {"tail", "head", "coherent", "start"} /\ pos' \in Nat
      BY <1>1, <1>2
  <1> QED
      BY <1>1, <1>2, <1>4, <1>5, PartStep

LEMMA TrimStep ==
    ASSUME IInv, Trim
    PROVE  IInv'
  <1>1. /\ pc = "coherent" /\ UNCHANGED <<fileVars, kept, start>>
        /\ pc' = "start" /\ pos' = 1
        /\ \/ \E i \in 2 .. Len(timecodes) :
                  /\ timecodes' = SubSeq(timecodes, i, Len(timecodes))
                  /\ firstSecs' = timecodes[i].secs
           \/ UNCHANGED <<timecodes, firstSecs>>
      BY DEF Trim, Pass, Anchor
  <1>2. /\ firstSecs \in Nat /\ Len(timecodes) \in Nat
        /\ \A i \in 1 .. Len(timecodes) : timecodes[i].secs \in Nat
      BY FrameTypes DEF IInv, TimecodesTypeOK
  <1>3. firstSecs' \in Nat
      BY <1>1, <1>2
  <1>4. \/ timecodes' = timecodes
        \/ \E m \in Nat \ {0}, n \in Nat :
               n <= Len(timecodes) /\ timecodes' = SubSeq(timecodes, m, n)
    <2>1. \A i \in 2 .. Len(timecodes) : i \in Nat \ {0}
        BY <1>2
    <2>2. Len(timecodes) \in Nat /\ Len(timecodes) <= Len(timecodes)
        BY <1>2
    <2>3. ASSUME NEW i \in 2 .. Len(timecodes),
                 timecodes' = SubSeq(timecodes, i, Len(timecodes))
          PROVE  \E m \in Nat \ {0}, n \in Nat :
                     n <= Len(timecodes) /\ timecodes' = SubSeq(timecodes, m, n)
        BY <2>1, <2>2, <2>3, Zenon
    <2> QED
        BY <1>1, <2>3
  <1>5. pc' \in {"tail", "head", "coherent", "start"} /\ pos' \in Nat
      BY <1>1
  <1> QED
      BY <1>1, <1>3, <1>4, <1>5, PartStep

LEMMA ReadStartStep ==
    ASSUME IInv, ReadStart
    PROVE  IInv'
  <1>1. /\ pc = "start" /\ UNCHANGED <<fileVars, timecodes, kept, firstSecs>>
        /\ \/ pc' = "done" /\ pos' = 1 /\ start' = start
           \/ /\ timecodes # <<>> /\ pc' = "shift" /\ start' = timecodes[1].timecode
              /\ pos' = IF firstSecs > 0 THEN firstSecs ELSE timecodes[1].secs
      BY DEF ReadStart, Pass, Offset
  <1>2. /\ firstSecs \in Nat /\ start \in Timecodes \cup {None}
        /\ start # None => Valid(start)
        /\ AllInRange(timecodes)
      BY <1>1 DEF IInv, TimecodesTypeOK, PassInv
  <1>3. timecodes # <<>> => 1 \in 1 .. Len(timecodes)
      BY FrameTypes, EmptySeq
  <1>4. timecodes # <<>> => /\ timecodes[1].timecode \in Timecodes
                            /\ timecodes[1].secs \in Nat
                            /\ Valid(timecodes[1].timecode)
      BY <1>2, <1>3, FrameTypes DEF AllInRange
  <1>5. /\ pos' \in Nat /\ start' \in Timecodes \cup {None}
        /\ start' # None => Valid(start')
        /\ pc' = "shift" => start' # None
        /\ pc' \in {"shift", "done"}
      BY <1>1, <1>2, <1>4, FileAssumption
  <1>6. TimecodesTypeOK'
      BY <1>1, <1>5, TypeKept, FrameTypes DEF IInv, TimecodesTypeOK
  <1>7. PassInv'
      BY <1>1, <1>5 DEF IInv, PassInv
  <1> QED
      BY <1>6, <1>7 DEF IInv

LEMMA ShiftFrameStep ==
    ASSUME IInv, ShiftFrame
    PROVE  IInv'
  <1>1. /\ pc = "shift" /\ pos > 0 /\ pos' = pos - 1
        /\ start' = DecrementFrame(start, dropFrame)
        /\ UNCHANGED <<fileVars, pc, timecodes, kept, firstSecs>>
      BY DEF ShiftFrame
  <1>2. start \in Timecodes /\ Valid(start) /\ dropFrame \in BOOLEAN /\ pos \in Nat
      BY <1>1 DEF IInv, TimecodesTypeOK, PassInv
  <1>3. start' \in Timecodes /\ Valid(start')
      BY <1>1, <1>2, DecrementInRange
  <1>4. pos' \in Nat
      BY <1>1, <1>2
  <1>5. TimecodesTypeOK'
      BY <1>1, <1>3, <1>4, TypeKept, FrameTypes DEF IInv, TimecodesTypeOK
  <1>6. PassInv'
      BY <1>1, <1>3, FileAssumption DEF IInv, PassInv
  <1> QED
      BY <1>5, <1>6 DEF IInv

LEMMA ShiftEndsStep ==
    ASSUME IInv, ShiftEnds
    PROVE  IInv'
  <1>1. /\ pc = "shift" /\ UNCHANGED <<fileVars, timecodes, kept, firstSecs, start>>
        /\ pc' = "done" /\ pos' = 1
      BY DEF ShiftEnds, Pass
  <1>2. TimecodesTypeOK'
      BY <1>1, TypeKept, FrameTypes DEF IInv, TimecodesTypeOK
  <1>3. PassInv'
      BY <1>1 DEF IInv, PassInv
  <1> QED
      BY <1>2, <1>3 DEF IInv

LEMMA NextInv == IInv /\ [Next]_vars => IInv'
  <1> SUFFICES ASSUME IInv, [Next]_vars PROVE IInv'
      OBVIOUS
  <1>1. CASE Next
    <2> QED
        BY <1>1, ReadFrameStep, ReadEndsStep, BackfillStep, BackfillEndsStep,
           ValidateFrameStep, ValidateEndsStep, RepairFrameStep, RepairEndsStep,
           DropLastStep, DropFirstStep, TrimStep, ReadStartStep, ShiftFrameStep,
           ShiftEndsStep DEF Next
  <1>2. CASE UNCHANGED vars
    <2>1. UNCHANGED <<fileVars, pc, pos, timecodes, kept, firstSecs, start>>
        BY <1>2 DEF vars
    <2>2. TimecodesTypeOK'
        BY <2>1, TypeKept, FrameTypes DEF IInv, TimecodesTypeOK
    <2>3. PassInv'
        BY <2>1 DEF IInv, PassInv
    <2> QED
        BY <2>2, <2>3 DEF IInv
  <1> QED
      BY <1>1, <1>2

LEMMA Invariant == Spec => []IInv
  BY InitInv, NextInv, PTL DEF Spec

-----------------------------------------------------------------------------
\* Every variable keeps its type, through all the passes over the frames.
THEOREM TimecodeTypes == Spec => []TimecodesTypeOK
  <1>1. IInv => TimecodesTypeOK
      BY DEF IInv
  <1> QED
      BY <1>1, Invariant, PTL

\* Filling in, repairing, dropping and trimming never put two frames out of
\* the order they have in the file, nor keep two of one position.
THEOREM OrderIsKept == Spec => []Ascending
  <1>1. IInv => Ascending
    <2> SUFFICES ASSUME IInv PROVE Ascending
        OBVIOUS
    <2>1. timecodes \in Seq(FrameSet) /\ InOrder(timecodes)
        BY FrameTypes DEF IInv, PassInv
    <2>2. DOMAIN timecodes = 1 .. Len(timecodes)
        BY <2>1, LenProperties
    <2> QED
        BY <2>1, <2>2 DEF Ascending, InOrder
  <1> QED
      BY <1>1, Invariant, PTL

\* Past validate_bcd every timecode is in range, and so is the one of the
\* start of the file, however far it is taken back.
THEOREM StartInRange == Spec => []InRange
  <1>1. IInv => InRange
    <2> SUFFICES ASSUME IInv PROVE InRange
        OBVIOUS
    <2>1. /\ timecodes \in Seq(FrameSet)
          /\ pc \notin {"read", "backfill", "bcd"} => AllInRange(timecodes)
          /\ start # None => Valid(start)
        BY FrameTypes DEF IInv, PassInv
    <2>2. DOMAIN timecodes = 1 .. Len(timecodes)
        BY <2>1, LenProperties
    <2> QED
        BY <2>1, <2>2 DEF InRange, Frames, AllInRange
  <1> QED
      BY <1>1, Invariant, PTL

-----------------------------------------------------------------------------
(* What was recorded and what is read.                                     *)

\* How far the file has been read.
ReadUpTo == IF pc = "read" THEN pos ELSE FileLen

Foreign(tc) == [tc EXCEPT !.hours = (@ + 1) % Hours]

\* Each position holds the frame after the one before it, and is read right,
\* not at all, or misread in one of the three ways.
FileInv ==
    /\ \A p \in Positions : Exists(truth[p], dropFrame)
    /\ \A p \in Positions : p > 0 /\ p < ReadUpTo => truth[p] = Successor(truth[p - 1])
    /\ \A p \in Positions :
           signal[p] \in {None, truth[p], Garbage, Successor(truth[p]), Foreign(truth[p])}

\* No dropout is an hour long: of as many frames as an hour has, one is read,
\* and in range.
ShortDropouts ==
    \A p \in Positions : p + HourLen(dropFrame) - 1 \in Positions =>
        \E q \in p .. p + HourLen(dropFrame) - 1 : signal[q] # None /\ Valid(signal[q])

LEMMA FileTypes ==
    ASSUME IInv
    PROVE  /\ dropFrame \in BOOLEAN
           /\ \A p \in Positions : truth[p] \in Timecodes /\ signal[p] \in Timecodes \cup {None}
  BY DEF IInv, TimecodesTypeOK

LEMMA ReadFrameFile ==
    ASSUME IInv, FileInv, ReadFrame
    PROVE  FileInv'
  <1> USE FileAssumption
  <1>1. /\ TimecodesTypeOK /\ dropFrame \in BOOLEAN
        /\ pc = "read" /\ pos \in Positions /\ pos \in Nat
      BY DEF IInv, PassInv, TimecodesTypeOK, ReadFrame, Positions
  <1>2. PICK tc \in Readings(TrueAt(pos)) : signal' = [signal EXCEPT ![pos] = tc]
      BY DEF ReadFrame
  <1>3. /\ truth' = [truth EXCEPT ![pos] = TrueAt(pos)]
        /\ pos' = pos + 1 /\ UNCHANGED <<dropFrame, pc>>
      BY DEF ReadFrame
  <1>4. TrueAt(pos) \in Timecodes /\ Exists(TrueAt(pos), dropFrame)
    <2>1. CASE pos = 0
        BY <2>1, <1>1, FileTypes DEF TrueAt, FileInv
    <2>2. CASE pos # 0
      <3>1. pos - 1 \in Positions
          BY <2>2, <1>1 DEF Positions
      <3>2. truth[pos - 1] \in Timecodes /\ Exists(truth[pos - 1], dropFrame)
          BY <3>1, FileTypes DEF FileInv
      <3> QED
          BY <2>2, <3>2, <1>1, IncrementInRange, IncrementExists DEF TrueAt, Successor
    <2> QED
        BY <2>1, <2>2
  <1>5. \A t : Successor(t)' = Successor(t)
      BY <1>3 DEF Successor
  <1>6. tc \in {None, TrueAt(pos), Garbage, Successor(TrueAt(pos)), Foreign(TrueAt(pos))}
      BY <1>2 DEF Readings, Misread, Foreign
  <1>7. \A p \in Positions :
            /\ truth'[p] = IF p = pos THEN TrueAt(pos) ELSE truth[p]
            /\ signal'[p] = IF p = pos THEN tc ELSE signal[p]
      BY <1>1, <1>2, <1>3 DEF TimecodesTypeOK
  <1>8. ASSUME NEW p \in Positions PROVE Exists(truth'[p], dropFrame')
      BY <1>3, <1>4, <1>7 DEF FileInv
  <1>9. ASSUME NEW p \in Positions, p > 0, p < pos + 1
        PROVE  truth'[p] = Successor(truth'[p - 1])
    <2>1. p - 1 \in Positions /\ p - 1 # pos /\ (p = pos \/ p < pos) /\ (p = pos => pos # 0)
        BY <1>9, <1>1 DEF Positions
    <2>2. truth'[p - 1] = truth[p - 1]
        BY <1>7, <2>1
    <2>3. p = pos => truth'[p] = Successor(truth[p - 1])
        BY <1>7, <2>1 DEF TrueAt
    <2>4. p < pos => truth'[p] = Successor(truth[p - 1])
        BY <1>1, <1>7, <1>9 DEF FileInv, ReadUpTo, Positions
    <2> QED
        BY <2>1, <2>2, <2>3, <2>4
  <1>10. ASSUME NEW p \in Positions
         PROVE  signal'[p] \in {None, truth'[p], Garbage, Successor(truth'[p]), Foreign(truth'[p])}
    <2>1. CASE p = pos
        BY <2>1, <1>6, <1>7
    <2>2. CASE p # pos
      <3>1. truth'[p] = truth[p] /\ signal'[p] = signal[p]
          BY <2>2, <1>7
      <3> QED
          BY <3>1 DEF FileInv
    <2> QED
        BY <2>1, <2>2
  <1>11. ReadUpTo' = pos + 1
      BY <1>1, <1>3 DEF ReadUpTo
  <1>12. dropFrame' = dropFrame /\ \A t : Foreign(t)' = Foreign(t)
      BY <1>3 DEF Foreign
  <1> DEFINE After(t) == Increment(t, dropFrame)
  <1>13. \A t : After(t) = Successor(t)
      BY DEF Successor
  <1> HIDE DEF After
  <1>14. /\ \A p \in Positions : Exists(truth'[p], dropFrame')
         /\ \A p \in Positions : p > 0 /\ p < ReadUpTo' => truth'[p] = After(truth'[p - 1])
         /\ \A p \in Positions :
                signal'[p] \in {None, truth'[p], Garbage, After(truth'[p]), Foreign(truth'[p])}
      BY <1>8, <1>9, <1>10, <1>11, <1>13
  <1> QED
      BY <1>12, <1>14 DEF FileInv, Successor, Foreign, After

LEMMA FileNext == IInv /\ FileInv /\ [Next]_vars => FileInv'
  <1> SUFFICES ASSUME IInv, FileInv, [Next]_vars PROVE FileInv'
      OBVIOUS
  <1>1. CASE ReadFrame
      BY <1>1, ReadFrameFile
  <1>2. CASE ~ReadFrame
    <2>1. UNCHANGED fileVars
        BY <1>2 DEF Next, ReadEnds, Backfill, BackfillEnds, ValidateFrame, ValidateEnds,
             RepairFrame, RepairEnds, DropLast, DropFirst, Trim, ReadStart, ShiftFrame,
             ShiftEnds, vars
    <2>2. ReadUpTo' = ReadUpTo
      <3>1. CASE ReadEnds
        <4>1. pc = "read" /\ pos >= FileLen /\ pc' \in {"done", "backfill"}
            BY <3>1 DEF ReadEnds, Pass
        <4>2. pos = FileLen
            BY <4>1, FileAssumption DEF IInv, PassInv
        <4> QED
            BY <4>1, <4>2 DEF ReadUpTo
      <3>2. CASE UNCHANGED vars
          BY <3>2 DEF vars, ReadUpTo
      <3>3. CASE ~ReadEnds /\ ~UNCHANGED vars
        <4>1. pc # "read" /\ pc' # "read"
            BY <1>2, <3>3 DEF Next, Backfill, BackfillEnds, ValidateFrame, ValidateEnds,
             RepairFrame, RepairEnds, DropLast, DropFirst, Trim, ReadStart, ShiftFrame,
             ShiftEnds, Pass
        <4> QED
            BY <4>1 DEF ReadUpTo
      <3> QED
          BY <3>1, <3>2, <3>3
    <2>3. \A t : Successor(t)' = Successor(t)
        BY <2>1 DEF Successor, fileVars
    <2> QED
        BY <2>1, <2>2, <2>3 DEF FileInv, fileVars
  <1> QED
      BY <1>1, <1>2

\* Further on by a number of frames: the count of the day goes on as well.
LEMMA CountGoesOn ==
    ASSUME IInv, FileInv, pc # "read", NEW a \in Positions, NEW d \in Nat,
           a + d \in Positions, d <= DayLen(dropFrame)
    PROVE  Number(truth[a + d], dropFrame) = Ahead(Number(truth[a], dropFrame), d, dropFrame)
  <1> USE FileAssumption
  <1> DEFINE n == Number(truth[a], dropFrame)
             D == DayLen(dropFrame)
             S == {k \in 0 .. d : Number(truth[a + k], dropFrame) = Ahead(n, k, dropFrame)}
  <1>1. dropFrame \in BOOLEAN /\ n \in 0 .. D - 1 /\ D \in Nat
      BY FileTypes, NumberRange, HourFacts DEF FileInv
  <1>2. 0 \in S
    <2>1. truth[a + 0] = truth[a]
        BY DEF Positions
    <2>2. Ahead(n, 0, dropFrame) = n
        BY <1>1 DEF Ahead
    <2> QED
        BY <2>1, <2>2
  <1>3. ASSUME NEW k \in 1 .. d, k - 1 \in S PROVE k \in S
    <2> DEFINE p == a + (k - 1)
    <2>1. p \in Positions /\ a + k \in Positions /\ a + k > 0 /\ (a + k) - 1 = p /\ a + k < FileLen
        BY DEF Positions
    <2> HIDE DEF p
    <2>2. truth[a + k] = Successor(truth[p])
        BY <2>1 DEF FileInv, ReadUpTo
    <2>3. truth[p] \in Timecodes /\ Exists(truth[p], dropFrame)
        BY <2>1, FileTypes DEF FileInv
    <2>4. Number(truth[a + k], dropFrame) = Ahead(Number(truth[p], dropFrame), 1, dropFrame)
        BY <1>1, <2>2, <2>3, IncrementCounts DEF Successor
    <2>5. Number(truth[p], dropFrame) = Ahead(n, k - 1, dropFrame)
        BY <1>3 DEF p
    <2> HIDE DEF n, D
    <2>6. Ahead(Ahead(n, k - 1, dropFrame), 1, dropFrame) = Ahead(n, k, dropFrame)
        BY <1>1 DEF Ahead, D
    <2> QED
        BY <2>4, <2>5, <2>6
  <1> HIDE DEF S
  <1>4. 0 .. d \subseteq S
      BY <1>2, <1>3, Counting
  <1>5. d \in S
      BY <1>4
  <1> QED
      BY <1>5 DEF S

\* What is in range at a position is right, or of the hour after.
LEMMA ReadingIs ==
    ASSUME IInv, FileInv, Unrelated, NEW p \in Positions, NEW x \in Timecodes, Valid(x),
           x \in {signal[p], truth[p]}
    PROVE  \/ x = truth[p]
           \/ x = signal[p] /\ Wrong(p) /\ Hours # 1 /\ x = Foreign(truth[p])
  <1> SUFFICES ASSUME x # truth[p]
               PROVE  x = signal[p] /\ Wrong(p) /\ Hours # 1 /\ x = Foreign(truth[p])
      OBVIOUS
  <1>1. x = signal[p] /\ Wrong(p)
      BY FileAssumption DEF Wrong
  <1>2. signal[p] # Successor(truth[p])
      BY <1>1 DEF Unrelated
  <1>3. ~Valid(Garbage)
      BY TimecodeAssumption DEF Garbage, At, Valid
  <1>4. x = Foreign(truth[p])
      BY <1>1, <1>2, <1>3, FileAssumption DEF FileInv
  <1>5. Hours = 1 => Foreign(truth[p]) = truth[p]
      BY FileTypes, HourAhead DEF FileInv, Foreign
  <1> QED
      BY <1>1, <1>4, <1>5

\* The counts of two frames, each of its own hour or the one after, that are
\* one or two apart.
LEMMA Counts ==
    ASSUME NEW df \in BOOLEAN, NEW n \in 0 .. DayLen(df) - 1, NEW d \in Nat,
           d >= 2, d <= HourLen(df),
           NEW x, NEW y, NEW m,
           m = Ahead(n, d, df),
           x = n \/ (Hours # 1 /\ x = Ahead(n, HourLen(df), df)),
           y = m \/ (Hours # 1 /\ y = Ahead(m, HourLen(df), df)),
           y = Ahead(x, 1, df) \/ y = Ahead(Ahead(x, 1, df), 1, df)
    PROVE  /\ d = 2
           /\ x # n => y # m /\ y = Ahead(Ahead(x, 1, df), 1, df)
  <1> DEFINE L == HourLen(df)
             D == DayLen(df)
  <1>1. L \in Nat /\ L >= 6 /\ D \in Nat /\ D >= L /\ (Hours # 1 => D >= 2 * L)
      BY HourFacts
  <1>2. \A a, b \in Nat : Ahead(a, b, df) = IF a + b < D THEN a + b ELSE a + b - D
      BY DEF Ahead
  <1>3. n \in Nat /\ n < D /\ d <= L
      BY <1>1
  <1>4. /\ x = n \/ (Hours # 1 /\ x = Ahead(n, L, df))
        /\ y = m \/ (Hours # 1 /\ y = Ahead(m, L, df))
      OBVIOUS
  <1> HIDE DEF L, D
  <1>5. m = (IF n + d < D THEN n + d ELSE n + d - D) /\ m \in Nat /\ m < D
      BY <1>1, <1>2, <1>3
  <1>6. /\ x = n \/ (Hours # 1 /\ x = IF n + L < D THEN n + L ELSE n + L - D)
        /\ y = m \/ (Hours # 1 /\ y = IF m + L < D THEN m + L ELSE m + L - D)
      BY <1>1, <1>2, <1>3, <1>4, <1>5
  <1>7. x \in Nat /\ x < D
      BY <1>1, <1>3, <1>6
  <1> DEFINE x1 == IF x + 1 < D THEN x + 1 ELSE x + 1 - D
             x2 == IF x1 + 1 < D THEN x1 + 1 ELSE x1 + 1 - D
  <1>8. x1 \in Nat /\ Ahead(x, 1, df) = x1
    <2>1. Ahead(x, 1, df) = x1
        BY <1>2, <1>7
    <2>2. x1 \in Nat
        BY <1>1, <1>7
    <2> QED
        BY <2>1, <2>2
  <1>9. Ahead(x1, 1, df) = x2
      BY <1>2, <1>8
  <1>10. y = x1 \/ y = x2
      BY <1>8, <1>9, Zenon
  <1>11. (x # n \/ y # m) => D >= 2 * L
      BY <1>1, <1>4
  <1>12. d = 2 /\ (x # n => y # m /\ y = x2)
    <2>1. CASE x = n /\ y = m
        BY <1>1, <1>3, <1>5, <1>10, <2>1
    <2>2. CASE x = n /\ y # m
        BY <1>1, <1>3, <1>5, <1>6, <1>10, <1>11, <2>2
    <2>3. CASE x # n /\ y = m
        BY <1>1, <1>3, <1>5, <1>6, <1>10, <1>11, <2>3
    <2>4. CASE x # n /\ y # m
        BY <1>1, <1>3, <1>5, <1>6, <1>10, <1>11, <2>4
    <2> QED
        BY <2>1, <2>2, <2>3, <2>4
  <1> QED
      BY <1>8, <1>9, <1>12, Zenon

\* Two frames that follow each other, with or without room for one between
\* them, though they are not neighbours: they are right, and have a frame
\* between them.
LEMMA Sandwich ==
    ASSUME IInv, FileInv, pc # "read", Unrelated,
           NEW a \in Positions, NEW b \in Positions, b - a >= 2, b - a <= HourLen(dropFrame),
           NEW x \in Timecodes, Valid(x), x \in {signal[a], truth[a]},
           NEW y \in Timecodes, Valid(y), y \in {signal[b], truth[b]},
           y \in {Successor(x), Successor(Successor(x))}
    PROVE  b = a + 2 /\ x = truth[a]
  <1> USE FileAssumption
  <1> DEFINE N(t) == Number(t, dropFrame)
             d == b - a
  <1>1. /\ dropFrame \in BOOLEAN /\ d \in Nat /\ a + d = b
        /\ truth[a] \in Timecodes /\ Exists(truth[a], dropFrame)
        /\ truth[b] \in Timecodes /\ Exists(truth[b], dropFrame)
      BY FileTypes DEF FileInv, Positions
  <1>2. N(truth[a]) \in 0 .. DayLen(dropFrame) - 1
      BY <1>1, NumberRange
  <1>3. N(truth[b]) = Ahead(N(truth[a]), d, dropFrame)
    <2>1. d <= DayLen(dropFrame)
        BY <1>1, HourFacts
    <2> QED
        BY <1>1, <2>1, CountGoesOn
  <1>4. /\ x = truth[a] \/ (x = signal[a] /\ Wrong(a) /\ Hours # 1 /\ x = Foreign(truth[a]))
        /\ y = truth[b] \/ (y = signal[b] /\ Wrong(b) /\ Hours # 1 /\ y = Foreign(truth[b]))
    <2>1. x = truth[a] \/ (x = signal[a] /\ Wrong(a) /\ Hours # 1 /\ x = Foreign(truth[a]))
        BY ReadingIs
    <2>2. y = truth[b] \/ (y = signal[b] /\ Wrong(b) /\ Hours # 1 /\ y = Foreign(truth[b]))
        BY ReadingIs
    <2> QED
        BY <2>1, <2>2
  <1>5. \A t \in Timecodes : Exists(t, dropFrame) =>
            /\ Exists(Foreign(t), dropFrame)
            /\ N(Foreign(t)) = Ahead(N(t), HourLen(dropFrame), dropFrame)
      BY <1>1, HourAhead DEF Foreign
  <1>6. Exists(x, dropFrame) /\ Exists(y, dropFrame)
      BY <1>1, <1>4, <1>5
  <1>7. \A t \in Timecodes : Exists(t, dropFrame) =>
            /\ Successor(t) \in Timecodes /\ Exists(Successor(t), dropFrame)
            /\ N(Successor(t)) = Ahead(N(t), 1, dropFrame)
      BY <1>1, IncrementInRange, IncrementExists, IncrementCounts DEF Successor
  <1>8. /\ \/ N(x) = N(truth[a])
           \/ Hours # 1 /\ N(x) = Ahead(N(truth[a]), HourLen(dropFrame), dropFrame)
        /\ \/ N(y) = N(truth[b])
           \/ Hours # 1 /\ N(y) = Ahead(N(truth[b]), HourLen(dropFrame), dropFrame)
      BY <1>1, <1>4, <1>5
  <1>9. /\ N(Successor(x)) = Ahead(N(x), 1, dropFrame)
        /\ N(Successor(Successor(x))) = Ahead(Ahead(N(x), 1, dropFrame), 1, dropFrame)
      BY <1>6, <1>7
  <1>10. \/ N(y) = Ahead(N(x), 1, dropFrame)
         \/ N(y) = Ahead(Ahead(N(x), 1, dropFrame), 1, dropFrame)
      BY <1>9
  <1> HIDE DEF d
  <1>11. /\ d = 2
         /\ N(x) # N(truth[a]) =>
                N(y) # N(truth[b]) /\ N(y) = Ahead(Ahead(N(x), 1, dropFrame), 1, dropFrame)
    <2>1. d >= 2 /\ d <= HourLen(dropFrame)
        BY DEF d
    <2> HIDE DEF N
    <2> QED
        BY <1>1, <1>2, <1>3, <1>8, <1>10, <2>1, Counts
  <1>12. b = a + 2
      BY <1>1, <1>11
  <1>13. ASSUME x # truth[a] PROVE FALSE
    <2>1. N(x) # N(truth[a])
        BY <1>1, <1>6, <1>13, NumbersTell
    <2>2. y # truth[b] /\ N(y) = N(Successor(Successor(x)))
        BY <1>9, <1>11, <2>1
    <2>3. y = Successor(Successor(x))
        BY <1>1, <1>6, <1>7, <2>2, NumbersTell
    <2>4. x = signal[a] /\ Wrong(a) /\ y = signal[b] /\ Wrong(b)
        BY <1>4, <1>13, <2>2
    <2> QED
        BY <1>12, <2>3, <2>4 DEF Unrelated
  <1> QED
      BY <1>12, <1>13

-----------------------------------------------------------------------------
(* The frames through the passes.                                          *)

AsRead(f) == f.timecode = signal[f.secs]

\* As it was read, or right.
Own(f) == AsRead(f) \/ Right(f)

HasFrame(q) == \E i \in 1 .. Len(timecodes) : timecodes[i].secs = q

\* What the passes can tell apart.
Sane == Unrelated /\ ShortDropouts

FramesInv ==
    /\ pc \in {"read", "backfill", "bcd"} =>
           \A i \in 1 .. Len(timecodes) : AsRead(timecodes[i])
    /\ pc = "read" =>
           /\ \A i \in 1 .. Len(timecodes) : timecodes[i].secs >= LockAfter
           /\ \A q \in Positions : LockAfter <= q /\ q < pos /\ signal[q] # None => HasFrame(q)
    /\ pc \in {"backfill", "bcd"} =>
           \A q \in Positions : timecodes[1].secs <= q /\ signal[q] # None => HasFrame(q)
    /\ pc = "bcd" =>
           /\ Len(timecodes) >= 1
           /\ \A k \in 1 .. Len(kept) : timecodes[1].secs <= kept[k].secs
           /\ \A i \in 1 .. Len(timecodes) : i < pos /\ Valid(timecodes[i].timecode) =>
                  kept # <<>> /\ timecodes[i].secs <= kept[Len(kept)].secs
    /\ Sane => \A k \in 1 .. Len(kept) : Own(kept[k])
    /\ Sane /\ pc \notin {"read", "backfill", "bcd"} =>
           \A i \in 1 .. Len(timecodes) : Own(timecodes[i])

\* After the file has been read the recording and the signal stay.
LEMMA FileStays ==
    ASSUME UNCHANGED fileVars
    PROVE  /\ Sane' <=> Sane
           /\ CleanHead' <=> CleanHead
           /\ signal' = signal /\ truth' = truth /\ dropFrame' = dropFrame
           /\ \A f : /\ AsRead(f)' <=> AsRead(f)
                     /\ Right(f)' <=> Right(f)
                     /\ Own(f)' <=> Own(f)
  <1>1. signal' = signal /\ truth' = truth /\ dropFrame' = dropFrame
      BY DEF fileVars
  <1>2. \A t : Successor(t)' = Successor(t)
      BY <1>1 DEF Successor
  <1>3. \A p : Wrong(p)' <=> Wrong(p)
      BY <1>1 DEF Wrong
  <1>4. Unrelated' <=> Unrelated
      BY <1>1, <1>2, <1>3 DEF Unrelated
  <1>5. ShortDropouts' <=> ShortDropouts
      BY <1>1 DEF ShortDropouts
  <1>6. CleanHead' <=> CleanHead
      BY <1>1 DEF CleanHead
  <1> QED
      BY <1>1, <1>4, <1>5, <1>6 DEF Sane, AsRead, Right, Own

\* A frame that is put between two others, one or two counts apart, is right.
LEMMA RepairedIsRight ==
    ASSUME IInv, FileInv, pc # "read", Unrelated,
           NEW f \in FrameSet, NEW g \in FrameSet, NEW h \in FrameSet,
           f.secs < g.secs, g.secs < h.secs, h.secs - f.secs <= HourLen(dropFrame),
           Own(f), Own(h), Valid(f.timecode), Valid(h.timecode),
           h.timecode \in {Successor(f.timecode), Successor(Successor(f.timecode))}
    PROVE  /\ Right(f) /\ g.secs = f.secs + 1
           /\ Successor(f.timecode) = truth[g.secs]
  <1> USE FileAssumption
  <1> DEFINE a == f.secs
             b == h.secs
             x == f.timecode
             y == h.timecode
  <1>1. /\ a \in Positions /\ b \in Positions /\ g.secs \in Positions
        /\ x \in Timecodes /\ y \in Timecodes
      BY DEF FrameSet
  <1>2. /\ Valid(x) /\ Valid(y) /\ y \in {Successor(x), Successor(Successor(x))}
        /\ x \in {signal[a], truth[a]} /\ y \in {signal[b], truth[b]}
      BY DEF Own, AsRead, Right
  <1>3. b - a >= 2 /\ b - a <= HourLen(dropFrame) /\ a < g.secs /\ g.secs < b
      BY <1>1 DEF Positions
  <1> HIDE DEF a, b, x, y
  <1>4. b = a + 2 /\ x = truth[a]
      BY <1>1, <1>2, <1>3, Sandwich
  <1>5. g.secs = a + 1 /\ g.secs > 0 /\ g.secs - 1 = a /\ g.secs < FileLen
      BY <1>1, <1>3, <1>4 DEF Positions
  <1>6. truth[g.secs] = Successor(truth[g.secs - 1])
      BY <1>1, <1>5 DEF FileInv, ReadUpTo
  <1>7. truth[g.secs] = Successor(truth[a])
      BY <1>5, <1>6
  <1> QED
      BY <1>4, <1>5, <1>7 DEF Right, a, x

LEMMA FrameOf ==
    ASSUME IInv
    PROVE  /\ \A i \in 1 .. Len(timecodes) : timecodes[i] \in FrameSet
           /\ \A i \in 1 .. Len(kept) : kept[i] \in FrameSet
  BY FrameTypes, ElementOfSeq, Zenon

LEMMA FramesRead ==
    ASSUME IInv, FramesInv, ReadFrame
    PROVE  FramesInv'
  <1> USE FileAssumption
  <1>1. /\ pc = "read" /\ pos < FileLen /\ pos' = pos + 1
        /\ pc' = pc /\ kept' = kept /\ kept = <<>>
        /\ pos \in Positions /\ pos \in Nat
      BY DEF ReadFrame, IInv, PassInv, TimecodesTypeOK, Positions
  <1>2. PICK tc \in Readings(TrueAt(pos)) :
            /\ signal' = [signal EXCEPT ![pos] = tc]
            /\ timecodes' = IF pos < LockAfter \/ tc = None THEN timecodes
                            ELSE Append(timecodes, [timecode |-> tc, secs |-> pos])
      BY DEF ReadFrame
  <1>3. \A q \in Positions : signal'[q] = IF q = pos THEN tc ELSE signal[q]
      BY <1>1, <1>2 DEF IInv, TimecodesTypeOK
  <1>4. /\ timecodes \in Seq(FrameSet) /\ Len(timecodes) \in Nat
        /\ timecodes' \in Seq(FrameSet)
        /\ \A i \in 1 .. Len(timecodes) :
               /\ timecodes[i].secs \in Positions /\ timecodes[i].secs < pos
               /\ timecodes[i].secs >= LockAfter /\ AsRead(timecodes[i])
      BY <1>1, FrameTypes, ReadFrameStep DEF IInv, PassInv, FramesInv, TimecodesTypeOK, FrameSet
  <1>5. \A i \in 1 .. Len(timecodes) : timecodes[i].timecode = signal'[timecodes[i].secs]
    <2> SUFFICES ASSUME NEW i \in 1 .. Len(timecodes)
                 PROVE  timecodes[i].timecode = signal'[timecodes[i].secs]
        OBVIOUS
    <2>1. \A q \in Positions : q < pos => q # pos
        BY <1>1 DEF Positions
    <2>2. \A q \in Positions : q < pos => signal'[q] = signal[q]
        BY <1>3, <2>1
    <2>3. /\ timecodes[i].secs \in Positions /\ timecodes[i].secs < pos
          /\ timecodes[i].timecode = signal[timecodes[i].secs]
        BY <1>4 DEF AsRead
    <2> QED
        BY <2>2, <2>3
  <1>6. /\ \A i \in 1 .. Len(timecodes') :
               /\ timecodes'[i].timecode = signal'[timecodes'[i].secs]
               /\ timecodes'[i].secs >= LockAfter
        /\ \A q \in Positions : LockAfter <= q /\ q < pos + 1 /\ signal'[q] # None =>
               \E i \in 1 .. Len(timecodes') : timecodes'[i].secs = q
    <2>1. \A q \in Positions : LockAfter <= q /\ q < pos /\ signal[q] # None =>
              \E i \in 1 .. Len(timecodes) : timecodes[i].secs = q
        BY <1>1 DEF FramesInv, HasFrame
    <2>2. CASE pos < LockAfter \/ tc = None
      <3>1. timecodes' = timecodes
          BY <1>2, <2>2
      <3>2. \A q \in Positions : LockAfter <= q /\ q < pos + 1 /\ signal'[q] # None =>
                q < pos /\ signal[q] # None
          BY <1>1, <1>3, <2>2 DEF Positions
      <3> QED
          BY <1>4, <1>5, <2>1, <3>1, <3>2
    <2>3. CASE ~(pos < LockAfter \/ tc = None)
      <3> DEFINE new == [timecode |-> tc, secs |-> pos]
      <3>1. timecodes' = Append(timecodes, new)
          BY <1>2, <2>3
      <3>2. new.timecode = tc /\ new.secs = pos /\ signal'[pos] = tc /\ pos >= LockAfter
          BY <1>1, <1>3, <2>3
      <3>3. new \in FrameSet
        <4>1. tc \in Timecodes \cup {None}
            BY <1>1, <1>3, ReadFrameStep DEF IInv, TimecodesTypeOK
        <4> QED
            BY <1>1, <2>3, <4>1 DEF FrameSet
      <3> HIDE DEF new
      <3>4. /\ Len(timecodes') = Len(timecodes) + 1
            /\ \A i \in 1 .. Len(timecodes) : timecodes'[i] = timecodes[i]
            /\ timecodes'[Len(timecodes) + 1] = new
          BY <1>4, <3>1, <3>3, AppendProperties
      <3>5. \A i \in 1 .. Len(timecodes') : i \in 1 .. Len(timecodes) \/ i = Len(timecodes) + 1
          BY <1>4, <3>4
      <3>6. \A i \in 1 .. Len(timecodes') :
               /\ timecodes'[i].timecode = signal'[timecodes'[i].secs]
               /\ timecodes'[i].secs >= LockAfter
          BY <1>4, <1>5, <3>2, <3>4, <3>5
      <3>7. ASSUME NEW q \in Positions, LockAfter <= q, q < pos + 1, signal'[q] # None
            PROVE  \E i \in 1 .. Len(timecodes') : timecodes'[i].secs = q
        <4>1. CASE q = pos
          <5>1. Len(timecodes) + 1 \in 1 .. Len(timecodes')
              BY <1>4, <3>4
          <5> QED
              BY <3>2, <3>4, <4>1, <5>1
        <4>2. CASE q # pos
          <5>1. q < pos /\ signal[q] # None
              BY <1>1, <1>3, <3>7, <4>2 DEF Positions
          <5>2. PICK i \in 1 .. Len(timecodes) : timecodes[i].secs = q
              BY <2>1, <3>7, <5>1
          <5>3. i \in 1 .. Len(timecodes')
              BY <1>4, <3>4
          <5> QED
              BY <3>4, <5>2, <5>3
        <4> QED
            BY <4>1, <4>2
      <3> QED
          BY <3>6, <3>7
    <2> QED
        BY <2>2, <2>3
  <1>7. Len(kept') = 0
      BY <1>1, EmptySeq
  <1> QED
      BY <1>1, <1>6, <1>7 DEF FramesInv, AsRead, HasFrame

LEMMA FramesReadEnds ==
    ASSUME IInv, FramesInv, ReadEnds
    PROVE  FramesInv'
  <1> USE FileAssumption
  <1>1. /\ pc = "read" /\ pos >= FileLen
        /\ pc' = (IF timecodes = <<>> THEN "done" ELSE "backfill")
        /\ UNCHANGED <<fileVars, timecodes, kept>>
        /\ kept = <<>> /\ pos = FileLen
      BY DEF ReadEnds, Pass, IInv, PassInv
  <1>2. Len(<<>>) = 0
      BY EmptySeq
  <1>3. timecodes # <<>> => timecodes[1].secs >= LockAfter /\ timecodes[1].secs \in Positions
    <2>1. timecodes # <<>> => 1 \in 1 .. Len(timecodes)
        BY FrameTypes, EmptySeq
    <2> QED
        BY <1>1, <2>1, FrameTypes DEF FramesInv
  <1>4. timecodes # <<>> => \A q \in Positions :
            timecodes[1].secs <= q /\ signal[q] # None => HasFrame(q)
    <2>1. \A q \in Positions : q < pos /\ q \in Nat
        BY <1>1 DEF Positions
    <2>2. timecodes # <<>> => \A q \in Positions : timecodes[1].secs <= q => LockAfter <= q
        BY <1>3, <2>1 DEF Positions
    <2> QED
        BY <1>1, <2>1, <2>2 DEF FramesInv
  <1> QED
      BY <1>1, <1>2, <1>4, FileStays DEF FramesInv, HasFrame

LEMMA FramesBackfill ==
    ASSUME IInv, FramesInv, Backfill
    PROVE  FramesInv'
  <1> USE FileAssumption
  <1> DEFINE p == timecodes[1].secs - 1
  <1>1. /\ pc = "backfill" /\ UNCHANGED <<fileVars, pc, kept>>
        /\ p >= 0 /\ kept = <<>>
        /\ timecodes' = <<Frame(p)>> \o timecodes
        /\ timecodes # <<>> /\ timecodes \in Seq(FrameSet) /\ Len(timecodes) \in Nat
        /\ signal[p] # None
      BY FrameTypes DEF Backfill, Precedes, IInv, PassInv
  <1>2. 1 \in 1 .. Len(timecodes)
      BY <1>1, EmptySeq
  <1>3. p \in Positions /\ timecodes[1].secs = p + 1
      BY <1>1, <1>2, FrameTypes DEF Positions
  <1> HIDE DEF p
  <1>4. Frame(p) \in FrameSet /\ Frame(p).secs = p /\ AsRead(Frame(p))
      BY <1>1, <1>3, FileTypes DEF Frame, FrameSet, AsRead
  <1>5. /\ Len(timecodes') = 1 + Len(timecodes)
        /\ timecodes'[1] = Frame(p)
        /\ \A i \in 1 .. Len(timecodes) : timecodes'[i + 1] = timecodes[i]
    <2>1. /\ <<Frame(p)>> \in Seq(FrameSet) /\ Len(<<Frame(p)>>) = 1
          /\ <<Frame(p)>>[1] = Frame(p)
        BY <1>4
    <2>2. /\ Len(<<Frame(p)>> \o timecodes) = Len(<<Frame(p)>>) + Len(timecodes)
          /\ \A i \in 1 .. Len(<<Frame(p)>>) + Len(timecodes) : (<<Frame(p)>> \o timecodes)[i] =
                 IF i <= Len(<<Frame(p)>>) THEN <<Frame(p)>>[i]
                 ELSE timecodes[i - Len(<<Frame(p)>>)]
        BY <1>1, <2>1, ConcatProperties
    <2>3. \A i \in 1 .. Len(timecodes) : i + 1 \in 1 .. 1 + Len(timecodes) /\ i + 1 - 1 = i
                                          /\ ~(i + 1 <= 1)
        BY <1>1
    <2>4. 1 \in 1 .. 1 + Len(timecodes)
        BY <1>1
    <2> QED
        BY <1>1, <2>1, <2>2, <2>3, <2>4
  <1>6. \A i \in 1 .. Len(timecodes') : AsRead(timecodes'[i])
    <2> SUFFICES ASSUME NEW i \in 1 .. Len(timecodes') PROVE AsRead(timecodes'[i])
        OBVIOUS
    <2>1. CASE i = 1
        BY <1>4, <1>5, <2>1
    <2>2. CASE i # 1
      <3>1. i - 1 \in 1 .. Len(timecodes) /\ (i - 1) + 1 = i
          BY <1>1, <1>5, <2>2
      <3>2. timecodes'[i] = timecodes[i - 1]
          BY <1>5, <3>1
      <3> QED
          BY <1>1, <3>1, <3>2 DEF FramesInv
    <2> QED
        BY <2>1, <2>2
  <1>7. ASSUME NEW q \in Positions, timecodes'[1].secs <= q, signal[q] # None
        PROVE  \E i \in 1 .. Len(timecodes') : timecodes'[i].secs = q
    <2>1. CASE q = p
      <3>1. 1 \in 1 .. Len(timecodes')
          BY <1>1, <1>5
      <3> QED
          BY <1>4, <1>5, <2>1, <3>1
    <2>2. CASE q # p
      <3>1. timecodes[1].secs <= q
          BY <1>3, <1>4, <1>5, <1>7, <2>2 DEF Positions
      <3>2. PICK i \in 1 .. Len(timecodes) : timecodes[i].secs = q
          BY <1>1, <1>7, <3>1 DEF FramesInv, HasFrame
      <3>3. i + 1 \in 1 .. Len(timecodes')
          BY <1>1, <1>5
      <3> QED
          BY <1>5, <3>2, <3>3
    <2> QED
        BY <2>1, <2>2
  <1>8. Len(kept) = 0
      BY <1>1, EmptySeq
  <1> QED
      BY <1>1, <1>6, <1>7, <1>8, FileStays DEF FramesInv, HasFrame

LEMMA FramesBackfillEnds ==
    ASSUME IInv, FramesInv, BackfillEnds
    PROVE  FramesInv'
  <1>1. /\ pc = "backfill" /\ UNCHANGED <<fileVars, timecodes, kept>>
        /\ pc' = "bcd" /\ pos' = 1 /\ kept = <<>> /\ timecodes # <<>>
      BY DEF BackfillEnds, Pass, IInv, PassInv
  <1>2. Len(kept) = 0 /\ Len(timecodes) >= 1
      BY <1>1, EmptySeq, FrameTypes
  <1>3. \A i \in 1 .. Len(timecodes) : ~(i < 1)
      BY FrameTypes
  <1> QED
      BY <1>1, <1>2, <1>3, FileStays DEF FramesInv, HasFrame

\* Between the last frame kept and the frame after a misread one there is no
\* dropout of an hour.
LEMMA BridgeIsRight ==
    ASSUME IInv, FileInv, FramesInv, Sane, pc = "bcd", pos <= Len(timecodes), Bridged(pos),
           ~Valid(timecodes[pos].timecode)
    PROVE  Successor(kept[Len(kept)].timecode) = truth[timecodes[pos].secs]
  <1> USE FileAssumption
  <1> DEFINE f == kept[Len(kept)]
             g == timecodes[pos]
             h == timecodes[pos + 1]
             L == HourLen(dropFrame)
  <1>1. /\ pos \in 1 .. Len(timecodes) /\ pos + 1 \in 1 .. Len(timecodes) /\ pos \in Nat
        /\ Len(kept) \in 1 .. Len(kept) /\ Len(kept) \in Nat /\ Len(timecodes) \in Nat
        /\ kept # <<>>
      BY FrameTypes, EmptySeq DEF Bridged, IInv, PassInv, TimecodesTypeOK
  <1>2. f \in FrameSet /\ g \in FrameSet /\ h \in FrameSet
      BY <1>1, FrameOf
  <1>3. f.secs < g.secs /\ g.secs < h.secs
      BY <1>1 DEF IInv, PassInv, InOrder
  <1>4. /\ Valid(f.timecode) /\ Valid(h.timecode)
        /\ h.timecode = Successor(Successor(f.timecode))
      BY DEF Bridged
  <1>5. Own(f) /\ AsRead(g) /\ AsRead(h)
      BY <1>1 DEF FramesInv
  <1>6. /\ f.secs \in Positions /\ h.secs \in Positions
        /\ f.secs \in Nat /\ h.secs \in Nat /\ h.secs < FileLen
        /\ L \in Nat /\ L >= 6
      BY <1>2, FileTypes, HourFacts DEF FrameSet, Positions
  <1>7. timecodes[1].secs \in Nat /\ timecodes[1].secs <= f.secs
    <2>1. 1 \in 1 .. Len(timecodes)
        BY <1>1
    <2> QED
        BY <1>1, <2>1, FrameTypes DEF FramesInv
  <1>8. ASSUME NEW q \in Positions, f.secs < q, q < h.secs, signal[q] # None, Valid(signal[q])
        PROVE  FALSE
    <2>1. timecodes[1].secs <= q
        BY <1>6, <1>7, <1>8 DEF Positions
    <2>2. PICK j \in 1 .. Len(timecodes) : timecodes[j].secs = q
        BY <1>8, <2>1 DEF FramesInv, HasFrame
    <2>3. timecodes[j].timecode = signal[q]
        BY <2>2 DEF FramesInv, AsRead
    <2>4. ~(j > pos + 1) /\ j # pos + 1
        BY <1>1, <1>6, <1>8, <2>2 DEF IInv, PassInv, InOrder, Positions
    <2>5. j # pos
        BY <1>8, <2>3
    <2>6. j < pos
        BY <1>1, <2>4, <2>5
    <2>7. timecodes[j].secs <= f.secs
        BY <1>8, <2>3, <2>6 DEF FramesInv
    <2> QED
        BY <1>6, <1>8, <2>2, <2>7 DEF Positions
  <1> HIDE DEF f, h, L
  <1>9. h.secs - f.secs <= L
    <2> SUFFICES ASSUME h.secs - f.secs > L PROVE FALSE
        BY <1>6
    <2> DEFINE p == f.secs + 1
    <2>1. p \in Positions /\ p + L - 1 \in Positions
        BY <1>6 DEF Positions
    <2>2. PICK q \in p .. p + L - 1 : signal[q] # None /\ Valid(signal[q])
        BY <2>1 DEF Sane, ShortDropouts, L
    <2>3. q \in Positions /\ f.secs < q /\ q < h.secs
        BY <1>6, <2>1 DEF Positions
    <2> QED
        BY <1>8, <2>2, <2>3
  <1> HIDE DEF g
  <1>10. Successor(f.timecode) = truth[g.secs]
    <2>1. Unrelated /\ pc # "read"
        BY DEF Sane
    <2>2. Own(h) /\ h.secs - f.secs <= HourLen(dropFrame)
        BY <1>5, <1>9 DEF Own, L
    <2>3. h.timecode \in {Successor(f.timecode), Successor(Successor(f.timecode))}
        BY <1>4
    <2> QED
        BY <1>2, <1>3, <1>4, <1>5, <2>1, <2>2, <2>3, RepairedIsRight
  <1> QED
      BY <1>10 DEF f, g

LEMMA FramesValidate ==
    ASSUME IInv, FileInv, FramesInv, ValidateFrame
    PROVE  FramesInv'
  <1> USE FileAssumption
  <1> DEFINE f == timecodes[pos]
             bridge == [f EXCEPT !.timecode = Successor(kept[Len(kept)].timecode)]
  <1>1. /\ pc = "bcd" /\ pos <= Len(timecodes) /\ pos' = pos + 1 /\ pc' = pc
        /\ UNCHANGED <<fileVars, timecodes>>
        /\ \/ Valid(f.timecode) /\ kept' = Append(kept, f)
           \/ ~Valid(f.timecode) /\ Bridged(pos) /\ kept' = Append(kept, bridge)
           \/ ~Valid(f.timecode) /\ kept' = kept
      BY DEF ValidateFrame, Keep
  <1>2. /\ pos \in 1 .. Len(timecodes) /\ pos \in Nat /\ Len(timecodes) \in Nat
        /\ kept \in Seq(FrameSet) /\ Len(kept) \in Nat
      BY <1>1, FrameTypes DEF IInv, PassInv, TimecodesTypeOK
  <1>3. f \in FrameSet /\ AsRead(f) /\ f.secs \in Nat /\ f.secs \in Positions
      BY <1>1, <1>2, FrameOf, FrameTypes DEF FramesInv
  <1>4. Len(kept) >= 1 =>
            /\ bridge \in FrameSet /\ bridge.secs = f.secs
            /\ bridge.timecode = Successor(kept[Len(kept)].timecode)
    <2> SUFFICES ASSUME Len(kept) >= 1
                 PROVE  /\ bridge \in FrameSet /\ bridge.secs = f.secs
                        /\ bridge.timecode = Successor(kept[Len(kept)].timecode)
        OBVIOUS
    <2>1. Len(kept) \in 1 .. Len(kept)
        BY <1>2
    <2>2. Successor(kept[Len(kept)].timecode) \in Timecodes
        BY <2>1, FrameTypes
    <2> QED
        BY <1>3, <2>2 DEF FrameSet
  <1>5. timecodes[1].secs <= f.secs
    <2>1. 1 \in 1 .. Len(timecodes) /\ (pos = 1 \/ 1 < pos) /\ timecodes[1].secs \in Nat
        BY <1>2, FrameTypes
    <2> QED
        BY <1>2, <1>3, <2>1 DEF IInv, PassInv, InOrder
  <1> HIDE DEF bridge
  <1>6. \A i \in 1 .. Len(timecodes) : i < pos + 1 => timecodes[i].secs <= f.secs
    <2> SUFFICES ASSUME NEW i \in 1 .. Len(timecodes), i < pos + 1
                 PROVE  timecodes[i].secs <= f.secs
        OBVIOUS
    <2>1. i < pos \/ i = pos
        BY <1>2
    <2>2. timecodes[i].secs \in Nat
        BY FrameTypes
    <2> QED
        BY <1>2, <1>3, <2>1, <2>2 DEF IInv, PassInv, InOrder
  <1> HIDE DEF f
  <1>7. ASSUME NEW new \in FrameSet, new.secs = f.secs, Sane => Own(new),
               kept' = Append(kept, new)
        PROVE  FramesInv'
    <2>1. /\ Len(kept') = Len(kept) + 1 /\ kept' # <<>>
          /\ \A k \in 1 .. Len(kept) : kept'[k] = kept[k]
          /\ kept'[Len(kept) + 1] = new
        BY <1>2, <1>7, AppendProperties
    <2>2. \A k \in 1 .. Len(kept') : k \in 1 .. Len(kept) \/ k = Len(kept) + 1
        BY <1>2, <2>1
    <2>3. \A k \in 1 .. Len(kept') : timecodes[1].secs <= kept'[k].secs
        BY <1>1, <1>5, <1>7, <2>1, <2>2 DEF FramesInv
    <2>4. Sane => \A k \in 1 .. Len(kept') : Own(kept'[k])
        BY <1>7, <2>1, <2>2 DEF FramesInv
    <2>5. \A i \in 1 .. Len(timecodes) : i < pos + 1 =>
              timecodes[i].secs <= kept'[Len(kept')].secs
        BY <1>6, <1>7, <2>1
    <2> QED
        BY <1>1, <2>1, <2>3, <2>4, <2>5, FileStays DEF FramesInv, HasFrame
  <1>8. CASE Valid(f.timecode) /\ kept' = Append(kept, f)
    <2>1. Own(f)
        BY <1>3 DEF Own
    <2> QED
        BY <1>3, <1>7, <1>8, <2>1
  <1>9. CASE ~Valid(f.timecode) /\ Bridged(pos) /\ kept' = Append(kept, bridge)
    <2>1. Len(kept) >= 1
        BY <1>2, <1>9, EmptySeq DEF Bridged
    <2>2. Sane => Successor(kept[Len(kept)].timecode) = truth[f.secs]
        BY <1>1, <1>9, BridgeIsRight DEF f
    <2>3. Sane => Own(bridge)
        BY <1>4, <2>1, <2>2 DEF Own, Right
    <2> QED
        BY <1>4, <1>7, <1>9, <2>1, <2>3
  <1>10. CASE ~Valid(f.timecode) /\ kept' = kept
    <2>1. \A i \in 1 .. Len(timecodes) : i < pos + 1 /\ Valid(timecodes[i].timecode) => i < pos
        BY <1>2, <1>10 DEF f
    <2> QED
        BY <1>1, <1>10, <2>1, FileStays DEF FramesInv, HasFrame
  <1> QED
      BY <1>1, <1>8, <1>9, <1>10 DEF f, bridge

LEMMA FramesValidateEnds ==
    ASSUME IInv, FramesInv, ValidateEnds
    PROVE  FramesInv'
  <1>1. /\ pc = "bcd" /\ UNCHANGED <<fileVars, kept>> /\ timecodes' = kept
        /\ pc' \in {"coherent", "outliers"}
      BY DEF ValidateEnds, Pass
  <1> QED
      BY <1>1, FileStays DEF FramesInv

LEMMA ShortGap ==
    ASSUME NEW n \in Nat, NEW m \in Nat, ~(m - n - 1 > 2)
    PROVE  m - n <= 3
  OBVIOUS

LEMMA ShortGaps ==
    ASSUME NEW n \in Nat, NEW m \in Nat, NEW k \in Nat, m - n <= 3, k - m <= 3,
           NEW len \in Nat, len >= 6
    PROVE  k - n <= len
  OBVIOUS

\* A repair between two neighbours is right.
LEMMA OutlierIsRight ==
    ASSUME IInv, FileInv, FramesInv, Sane, pc = "outliers", pos < Len(timecodes), Outlier(pos)
    PROVE  Successor(timecodes[pos - 1].timecode) = truth[timecodes[pos].secs]
  <1> DEFINE f == timecodes[pos - 1]
             g == timecodes[pos]
             h == timecodes[pos + 1]
  <1>1. /\ pos >= 2 /\ pos \in Nat /\ AllInRange(timecodes) /\ InOrder(timecodes)
      BY DEF IInv, PassInv, TimecodesTypeOK
  <1>2. /\ pos - 1 \in 1 .. Len(timecodes) /\ pos \in 1 .. Len(timecodes)
        /\ pos + 1 \in 1 .. Len(timecodes) /\ Len(timecodes) \in Nat
      BY <1>1, FrameTypes
  <1>3. f \in FrameSet /\ g \in FrameSet /\ h \in FrameSet
      BY <1>2, FrameOf
  <1>4. /\ f.secs < g.secs /\ g.secs < h.secs
        /\ Valid(f.timecode) /\ Valid(h.timecode)
      BY <1>1, <1>2 DEF AllInRange, InOrder
  <1>5. f.secs \in Nat /\ g.secs \in Nat /\ h.secs \in Nat
      BY <1>2, FrameTypes
  <1>6. h.timecode \in {Successor(f.timecode), Successor(Successor(f.timecode))}
      BY DEF Outlier
  <1>7. g.secs - f.secs <= 3 /\ h.secs - g.secs <= 3
    <2>1. ~Break(pos) /\ ~Break(pos + 1) /\ (pos + 1) - 1 = pos
        BY <1>1 DEF Outlier
    <2>2. ~(g.secs - f.secs - 1 > 2)
        BY <2>1 DEF Break
    <2>3. ~(h.secs - g.secs - 1 > 2)
        BY <2>1 DEF Break
    <2>4. g.secs - f.secs <= 3
        BY <1>5, <2>2, ShortGap
    <2>5. h.secs - g.secs <= 3
        BY <1>5, <2>3, ShortGap
    <2> QED
        BY <2>4, <2>5
  <1>8. h.secs - f.secs <= HourLen(dropFrame)
    <2>1. HourLen(dropFrame) \in Nat /\ HourLen(dropFrame) >= 6
        BY FileTypes, HourFacts
    <2> HIDE DEF f, g, h
    <2> QED
        BY <1>5, <1>7, <2>1, ShortGaps
  <1>9. Own(f) /\ Own(h)
      BY <1>2 DEF FramesInv
  <1> HIDE DEF f, g, h
  <1>10. Successor(f.timecode) = truth[g.secs]
      BY <1>3, <1>4, <1>6, <1>8, <1>9, RepairedIsRight DEF Sane
  <1> QED
      BY <1>10 DEF f, g

LEMMA FramesRepair ==
    ASSUME IInv, FileInv, FramesInv, RepairFrame
    PROVE  FramesInv'
  <1> DEFINE g == timecodes[pos]
             next == Successor(timecodes[pos - 1].timecode)
             new == [g EXCEPT !.timecode = next]
  <1>1. /\ pc = "outliers" /\ pos < Len(timecodes) /\ pc' = pc
        /\ UNCHANGED <<fileVars, kept>>
        /\ \/ timecodes' = timecodes
           \/ Outlier(pos) /\ timecodes' = [timecodes EXCEPT ![pos] = new]
      BY DEF RepairFrame
  <1>2. /\ timecodes \in Seq(FrameSet) /\ Len(timecodes) \in Nat
        /\ pos - 1 \in 1 .. Len(timecodes) /\ pos \in 1 .. Len(timecodes)
    <2>1. pos >= 2 /\ pos \in Nat
        BY <1>1 DEF IInv, PassInv, TimecodesTypeOK
    <2> QED
        BY <1>1, <2>1, FrameTypes
  <1>3. CASE timecodes' = timecodes
      BY <1>1, <1>3, FileStays DEF FramesInv
  <1>4. CASE Outlier(pos) /\ timecodes' = [timecodes EXCEPT ![pos] = new]
    <2>1. g \in FrameSet /\ next \in Timecodes
        BY <1>2, FrameOf, FrameTypes
    <2>2. Sane => next = truth[g.secs]
        BY <1>1, <1>4, OutlierIsRight
    <2> HIDE DEF g, next
    <2>3. new \in FrameSet /\ new.secs = g.secs /\ new.timecode = next
        BY <2>1 DEF FrameSet
    <2> HIDE DEF new
    <2>4. Sane => Own(new)
        BY <2>2, <2>3 DEF Own, Right
    <2>5. /\ Len(timecodes') = Len(timecodes)
          /\ \A j \in 1 .. Len(timecodes) :
                 timecodes'[j] = IF j = pos THEN new ELSE timecodes[j]
        BY <1>2, <1>4, <2>3, ExceptSeq
    <2>6. Sane => \A j \in 1 .. Len(timecodes') : Own(timecodes'[j])
        BY <1>1, <2>4, <2>5 DEF FramesInv
    <2> QED
        BY <1>1, <2>6, FileStays DEF FramesInv
  <1> QED
      BY <1>1, <1>3, <1>4

\* The passes that only leave frames out, or touch none.
LEMMA FramesPart ==
    ASSUME IInv, FramesInv, UNCHANGED <<fileVars, kept>>,
           pc \notin {"read", "backfill", "bcd"}, pc' \notin {"read", "backfill", "bcd"},
           \/ timecodes' = timecodes
           \/ \E m \in Nat \ {0}, n \in Nat :
                  n <= Len(timecodes) /\ timecodes' = SubSeq(timecodes, m, n)
    PROVE  FramesInv'
  <1>1. CASE timecodes' = timecodes
      BY <1>1, FileStays DEF FramesInv
  <1>2. ASSUME NEW m \in Nat \ {0}, NEW n \in Nat, n <= Len(timecodes),
               timecodes' = SubSeq(timecodes, m, n)
        PROVE  FramesInv'
    <2>1. \A i \in m .. n : i \in 1 .. Len(timecodes) /\ timecodes[i] \in FrameSet
      <3>1. Len(timecodes) \in Nat
          BY FrameTypes
      <3>2. \A i \in m .. n : i \in 1 .. Len(timecodes)
          BY <1>2, <3>1
      <3> QED
          BY <3>2, FrameOf
    <2>2. /\ Len(timecodes') = (IF m <= n THEN n - m + 1 ELSE 0)
          /\ \A i \in 1 .. n - m + 1 : timecodes'[i] = timecodes[m + i - 1]
        BY <1>2, <2>1, SubSeqProperties
    <2>3. \A i \in 1 .. Len(timecodes') : i \in 1 .. n - m + 1 /\ m + i - 1 \in m .. n
        BY <1>2, <2>2
    <2>4. Sane => \A i \in 1 .. Len(timecodes') : Own(timecodes'[i])
        BY <2>1, <2>2, <2>3 DEF FramesInv
    <2> QED
        BY <2>4, FileStays DEF FramesInv
  <1> QED
      BY <1>1, <1>2

LEMMA PartIsLeft ==
    ASSUME IInv, DropLast \/ DropFirst \/ Trim
    PROVE  \/ timecodes' = timecodes
           \/ \E m \in Nat \ {0}, n \in Nat :
                  n <= Len(timecodes) /\ timecodes' = SubSeq(timecodes, m, n)
  <1> DEFINE n == Len(timecodes)
  <1>1. n \in Nat /\ timecodes \in Seq(FrameSet)
      BY FrameTypes
  <1>2. CASE DropLast
    <2>1. n >= 2 => n - 1 \in Nat /\ n - 1 <= n /\ 1 \in Nat \ {0}
        BY <1>1
    <2>2. timecodes' = timecodes \/ (n >= 2 /\ timecodes' = SubSeq(timecodes, 1, n - 1))
        BY <1>2 DEF DropLast
    <2> QED
        BY <2>1, <2>2
  <1>3. CASE DropFirst
    <2>1. timecodes' = timecodes \/ (n >= 2 /\ timecodes' = Tail(timecodes))
        BY <1>3 DEF DropFirst
    <2>2. n >= 2 => Tail(timecodes) = SubSeq(timecodes, 2, n)
        BY <1>1, TailIsSubSeq, EmptySeq
    <2>3. n <= n /\ 2 \in Nat \ {0}
        BY <1>1
    <2> QED
        BY <1>1, <2>1, <2>2, <2>3
  <1>4. CASE Trim
    <2>1. \/ timecodes' = timecodes
          \/ \E i \in 2 .. n : timecodes' = SubSeq(timecodes, i, n)
        BY <1>4 DEF Trim
    <2>2. n <= n /\ \A i \in 2 .. n : i \in Nat \ {0}
        BY <1>1
    <2> HIDE DEF n
    <2>3. timecodes' = timecodes \/ \E i \in Nat \ {0} : timecodes' = SubSeq(timecodes, i, n)
        BY <2>1, <2>2
    <2> QED
        BY <1>1, <2>2, <2>3 DEF n
  <1> QED
      BY <1>2, <1>3, <1>4

LEMMA FramesNext == IInv /\ FileInv /\ FramesInv /\ [Next]_vars => FramesInv'
  <1> SUFFICES ASSUME IInv, FileInv, FramesInv, [Next]_vars PROVE FramesInv'
      OBVIOUS
  <1>1. CASE ReadFrame \/ ReadEnds \/ Backfill \/ BackfillEnds
      BY <1>1, FramesRead, FramesReadEnds, FramesBackfill, FramesBackfillEnds
  <1>2. CASE ValidateFrame \/ ValidateEnds \/ RepairFrame
      BY <1>2, FramesValidate, FramesValidateEnds, FramesRepair
  <1>3. CASE DropLast \/ DropFirst \/ Trim
    <2>1. /\ UNCHANGED <<fileVars, kept>>
          /\ pc \notin {"read", "backfill", "bcd"} /\ pc' \notin {"read", "backfill", "bcd"}
        BY <1>3 DEF DropLast, DropFirst, Trim, Pass
    <2> QED
        BY <1>3, <2>1, PartIsLeft, FramesPart
  <1>4. CASE RepairEnds \/ ReadStart \/ ShiftFrame \/ ShiftEnds
    <2>1. /\ UNCHANGED <<fileVars, kept, timecodes>>
          /\ pc \notin {"read", "backfill", "bcd"} /\ pc' \notin {"read", "backfill", "bcd"}
        BY <1>4 DEF RepairEnds, ReadStart, ShiftFrame, ShiftEnds, Pass
    <2> QED
        BY <2>1, FramesPart
  <1>5. CASE UNCHANGED vars
      BY <1>5, FileStays DEF vars, FramesInv, HasFrame
  <1> QED
      BY <1>1, <1>2, <1>3, <1>4, <1>5 DEF Next

LEMMA FramesInit == Init => FileInv /\ FramesInv
  <1> SUFFICES ASSUME Init PROVE FileInv /\ FramesInv
      OBVIOUS
  <1> USE FileAssumption
  <1>1. /\ pc = "read" /\ pos = 0 /\ timecodes = <<>> /\ kept = <<>>
        /\ \A p \in Positions : Exists(truth[p], dropFrame) /\ signal[p] = None
      BY DEF Init
  <1>2. Len(<<>>) = 0
      BY EmptySeq
  <1>3. \A p \in Positions : ~(p < 0)
      BY DEF Positions
  <1> QED
      BY <1>1, <1>2, <1>3 DEF FileInv, FramesInv, ReadUpTo

LEMMA FramesInvariant == Spec => [](FileInv /\ FramesInv)
  <1>1. IInv /\ FileInv /\ FramesInv /\ [Next]_vars => (FileInv /\ FramesInv)'
      BY FileNext, FramesNext
  <1> QED
      BY <1>1, FramesInit, Invariant, PTL DEF Spec

\* A repair is right, for files of every length, however long their dropouts
\* are, as long as they are shorter than an hour.
THEOREM RepairAlwaysRight == Spec => [](ShortDropouts => RepairIsRight)
  <1>1. IInv /\ FramesInv => (ShortDropouts => RepairIsRight)
    <2> SUFFICES ASSUME IInv, FramesInv, ShortDropouts, Unrelated,
                        NEW f \in Frames, f.timecode # signal[f.secs]
                 PROVE  Right(f)
        BY DEF RepairIsRight
    <2>1. DOMAIN timecodes = 1 .. Len(timecodes)
        BY FrameTypes, LenProperties
    <2>2. PICK i \in 1 .. Len(timecodes) : f = timecodes[i]
        BY <2>1 DEF Frames
    <2>3. Own(f)
      <3>1. CASE pc \in {"read", "backfill", "bcd"}
          BY <2>2, <3>1 DEF FramesInv, Own
      <3>2. CASE pc \notin {"read", "backfill", "bcd"}
          BY <2>2, <3>2 DEF FramesInv, Sane
      <3> QED
          BY <3>1, <3>2
    <2> QED
        BY <2>3 DEF Own, AsRead
  <1> QED
      BY <1>1, FramesInvariant, Invariant, PTL

-----------------------------------------------------------------------------
(* The start of the file.                                                  *)

\* The first two frames are right and next to each other.
RightHead ==
    /\ Len(timecodes) >= 1 /\ Right(timecodes[1])
    /\ Len(timecodes) >= 2 =>
           Right(timecodes[2]) /\ timecodes[2].secs = timecodes[1].secs + 1

StartInv ==
    /\ pc \notin {"shift", "done"} => start = None
    /\ CleanHead =>
           /\ pc = "backfill" => timecodes[1].secs <= LockAfter
           /\ pc \in {"bcd", "outliers", "tail", "head", "coherent"} =>
                  RightHead /\ firstSecs = timecodes[1].secs
           /\ pc = "bcd" =>
                  /\ pos = 1 => kept = <<>>
                  /\ pos = 2 => Len(kept) = 1
                  /\ pos >= 2 => kept[1] = timecodes[1]
                  /\ pos >= 3 => Len(timecodes) >= 2 /\ Len(kept) >= 2 /\ kept[2] = timecodes[2]
           /\ Sane =>
                  /\ pc \in {"start", "shift", "done"} /\ timecodes # <<>> =>
                         Right(timecodes[1]) /\ firstSecs = timecodes[1].secs
                  /\ pc \in {"shift", "done"} /\ start # None => timecodes # <<>>
                  /\ pc = "shift" /\ NoneLeftOut =>
                         pos <= timecodes[1].secs /\ start = truth[pos]
                  /\ pc = "done" /\ start # None /\ NoneLeftOut => start = truth[0]

\* Back from the number after is the number itself, unless one that is left
\* out lies between.
LEMMA BackFromNext ==
    ASSUME NEW tc \in Timecodes, NEW df \in BOOLEAN, Exists(tc, df),
           Exists(Back(Increment(tc, df)), df)
    PROVE  DecrementFrame(Increment(tc, df), df) = tc
  <1> DEFINE up == Increment(tc, df)
             next == NextMinute(tc)
  <1>1. /\ up \in Timecodes /\ Exists(up, df) /\ Valid(tc)
        /\ next.hours \in Nat /\ next.minutes \in Nat
      BY IncrementInRange, IncrementExists, NextMinuteInRange DEF Exists, Timecodes
  <1>2. DecrementFrame(up, df) = Back(up)
    <2>1. up.frames \in Nat /\ Dropped \in Nat
        BY <1>1, TimecodeAssumption DEF Timecodes
    <2>2. ~(Drops(up, df) /\ up.seconds = 0 /\ up.frames < Dropped)
        BY <1>1, <2>1 DEF Exists
    <2> HIDE DEF up
    <2> QED
        BY <2>2 DEF DecrementFrame
  <1>3. up = Increment(tc, FALSE)
    <2>1. CASE tc.frames + 1 < MaxFrames \/ tc.seconds + 1 < Seconds
        BY <2>1 DEF Increment
    <2>2. CASE ~(tc.frames + 1 < MaxFrames) /\ ~(tc.seconds + 1 < Seconds)
      <3> DEFINE first(drops) == IF Drops(next, drops) THEN Dropped ELSE 0
      <3>1. \A drops : Increment(tc, drops) = At(next.hours, next.minutes, 0, first(drops))
          BY <2>2 DEF Increment
      <3>2. ~Drops(next, FALSE)
          BY DEF Drops
      <3>3. CASE Drops(next, df)
        <4>1. up = At(next.hours, next.minutes, 0, Dropped)
            BY <3>1, <3>3
        <4>2. /\ up.hours = next.hours /\ up.minutes = next.minutes
              /\ up.seconds = 0 /\ up.frames = Dropped
            BY <4>1 DEF At
        <4> HIDE DEF up
        <4>3. Back(up) = At(next.hours, next.minutes, 0, Dropped - 1)
            BY <4>2, TimecodeAssumption DEF Back
        <4>4. /\ Back(up).seconds = 0 /\ Back(up).frames = Dropped - 1
              /\ Drops(Back(up), df)
            BY <3>3, <4>3 DEF At, Drops
        <4>5. ~(Dropped - 1 >= Dropped)
            BY TimecodeAssumption
        <4>6. Exists(Back(up), df)
            BY DEF up
        <4>7. Back(up).frames >= Dropped
            BY <4>4, <4>6 DEF Exists
        <4> QED
            BY <4>4, <4>5, <4>7
      <3>4. CASE ~Drops(next, df)
          BY <3>1, <3>2, <3>4
      <3> QED
          BY <3>3, <3>4
    <2> QED
        BY <2>1, <2>2
  <1>4. DecrementFrame(Increment(tc, FALSE), FALSE) = tc
      BY <1>1, BackUndoesPlainly
  <1>5. \A t : DecrementFrame(t, FALSE) = Back(t)
      BY DEF DecrementFrame, Drops
  <1> HIDE DEF up
  <1> QED
      BY <1>2, <1>3, <1>4, <1>5 DEF up

\* The second of two frames that are right follows the first.
LEMMA HeadFollows ==
    ASSUME IInv, FileInv, pc # "read", RightHead
    PROVE  /\ 1 \in 1 .. Len(timecodes) /\ Valid(timecodes[1].timecode)
           /\ Len(timecodes) >= 2 =>
                  /\ 2 \in 1 .. Len(timecodes) /\ Valid(timecodes[2].timecode)
                  /\ timecodes[2].timecode = Successor(timecodes[1].timecode)
  <1> USE FileAssumption
  <1>1. Len(timecodes) \in Nat /\ 1 \in 1 .. Len(timecodes)
      BY FrameTypes DEF RightHead
  <1>2. Valid(timecodes[1].timecode)
      BY <1>1, FrameTypes DEF FileInv, RightHead, Right, Exists
  <1>3. ASSUME Len(timecodes) >= 2
        PROVE  /\ 2 \in 1 .. Len(timecodes) /\ Valid(timecodes[2].timecode)
               /\ timecodes[2].timecode = Successor(timecodes[1].timecode)
    <2> DEFINE a == timecodes[1].secs
               b == timecodes[2].secs
    <2>1. 2 \in 1 .. Len(timecodes)
        BY <1>1, <1>3
    <2>2. /\ a \in Positions /\ b \in Positions /\ b = a + 1
          /\ timecodes[1].timecode = truth[a] /\ timecodes[2].timecode = truth[b]
        BY <1>1, <1>3, <2>1, FrameTypes DEF RightHead, Right
    <2> HIDE DEF a, b
    <2>3. b > 0 /\ b - 1 = a /\ b < FileLen
        BY <2>2 DEF Positions
    <2>4. truth[b] = Successor(truth[b - 1]) /\ Exists(truth[b], dropFrame)
        BY <2>2, <2>3 DEF FileInv, ReadUpTo
    <2> QED
        BY <2>1, <2>2, <2>3, <2>4 DEF Exists
  <1> QED
      BY <1>1, <1>2, <1>3

\* Where the signal begins, if it is clean.
LEMMA CleanFrom ==
    ASSUME IInv, CleanHead
    PROVE  \E p \in 0 .. LockAfter :
               /\ \A q \in Positions : q < p => signal[q] = None
               /\ \A q \in Positions : p <= q /\ q <= LockAfter + 1 =>
                      signal[q] = truth[q] /\ signal[q] # None
  <1> USE FileAssumption
  <1>1. PICK p \in 0 .. LockAfter :
            /\ \A q \in 0 .. p - 1 : signal[q] = None
            /\ \A q \in p .. LockAfter + 1 : signal[q] = truth[q]
      BY DEF CleanHead
  <1>2. \A q \in Positions : q \in Nat /\ truth[q] \in Timecodes
      BY FileTypes DEF Positions
  <1>3. \A q \in Positions : q < p => signal[q] = None
      BY <1>1, <1>2
  <1>4. \A q \in Positions : p <= q /\ q <= LockAfter + 1 => signal[q] = truth[q] /\ signal[q] # None
      BY <1>1, <1>2
  <1> QED
      BY <1>3, <1>4

LEMMA FirstAtLock ==
    ASSUME IInv, FramesInv, pc = "read", pos = FileLen, CleanHead, timecodes # <<>>
    PROVE  timecodes[1].secs <= LockAfter
  <1> USE FileAssumption
  <1>1. Len(timecodes) \in Nat /\ 1 \in 1 .. Len(timecodes)
      BY FrameTypes, EmptySeq
  <1>2. timecodes[1].secs \in Positions /\ timecodes[1].secs >= LockAfter
      BY <1>1, FrameTypes DEF FramesInv
  <1>3. LockAfter \in Positions /\ LockAfter < pos /\ LockAfter <= LockAfter + 1
      BY <1>2 DEF Positions
  <1>4. signal[LockAfter] # None
    <2>1. PICK p \in 0 .. LockAfter :
              \A q \in Positions : p <= q /\ q <= LockAfter + 1 => signal[q] # None
        BY CleanFrom
    <2> QED
        BY <1>3, <2>1
  <1>5. PICK i \in 1 .. Len(timecodes) : timecodes[i].secs = LockAfter
      BY <1>3, <1>4 DEF FramesInv, HasFrame
  <1>6. i = 1 \/ timecodes[1].secs < timecodes[i].secs
      BY <1>1, <1>5 DEF IInv, PassInv, InOrder
  <1> QED
      BY <1>2, <1>5, <1>6 DEF Positions

LEMMA HeadIsRight ==
    ASSUME IInv, FramesInv, pc = "backfill", CleanHead, timecodes[1].secs <= LockAfter
    PROVE  RightHead
  <1> USE FileAssumption
  <1> DEFINE a == timecodes[1].secs
  <1>1. /\ timecodes # <<>> /\ Len(timecodes) \in Nat /\ 1 \in 1 .. Len(timecodes)
      BY FrameTypes, EmptySeq DEF IInv, PassInv
  <1>2. /\ a \in Positions /\ a \in Nat /\ signal[a] # None
        /\ timecodes[1].timecode = signal[a]
      BY <1>1, FrameTypes DEF FramesInv, AsRead
  <1>3. PICK p \in 0 .. LockAfter :
            /\ \A q \in Positions : q < p => signal[q] = None
            /\ \A q \in Positions : p <= q /\ q <= LockAfter + 1 =>
                   signal[q] = truth[q] /\ signal[q] # None
      BY CleanFrom
  <1>4. a <= LockAfter /\ p <= a
      BY <1>2, <1>3
  <1> HIDE DEF a
  <1>5. signal[a] = truth[a]
      BY <1>2, <1>3, <1>4
  <1>6. Right(timecodes[1])
      BY <1>2, <1>5 DEF Right, a
  <1>7. ASSUME Len(timecodes) >= 2
        PROVE  Right(timecodes[2]) /\ timecodes[2].secs = timecodes[1].secs + 1
    <2>1. 2 \in 1 .. Len(timecodes)
        BY <1>1, <1>7
    <2>2. a < timecodes[2].secs /\ timecodes[2].secs \in Positions
        BY <1>1, <2>1, FrameTypes DEF IInv, PassInv, InOrder, a
    <2>3. a + 1 \in Positions /\ p <= a + 1 /\ a + 1 <= LockAfter + 1 /\ a <= a + 1
        BY <1>2, <1>4, <2>2 DEF Positions
    <2>4. signal[a + 1] = truth[a + 1] /\ signal[a + 1] # None
        BY <1>3, <2>3
    <2>5. PICK i \in 1 .. Len(timecodes) : timecodes[i].secs = a + 1
        BY <2>3, <2>4 DEF FramesInv, HasFrame, a
    <2>6. i # 1
        BY <1>2, <2>5 DEF a
    <2>7. i = 2 \/ timecodes[2].secs < timecodes[i].secs
        BY <2>1, <2>5, <2>6 DEF IInv, PassInv, InOrder
    <2>8. timecodes[2].secs = a + 1
        BY <1>2, <2>2, <2>5, <2>7 DEF Positions
    <2>9. timecodes[2].timecode = signal[timecodes[2].secs]
        BY <2>1 DEF FramesInv, AsRead
    <2> QED
        BY <2>4, <2>8, <2>9 DEF Right, a
  <1> QED
      BY <1>1, <1>6, <1>7 DEF RightHead

LEMMA StartRead ==
    ASSUME IInv, FramesInv, StartInv,
           ReadFrame \/ ReadEnds \/ Backfill \/ BackfillEnds
    PROVE  StartInv'
  <1> USE FileAssumption
  <1>1. pc \in {"read", "backfill"} /\ start = None /\ start' = None
      BY DEF ReadFrame, ReadEnds, Backfill, BackfillEnds, StartInv
  <1>2. CASE ReadFrame
      BY <1>1, <1>2 DEF ReadFrame, StartInv
  <1>3. CASE ReadEnds
    <2>1. /\ pc = "read" /\ pos = FileLen /\ UNCHANGED <<fileVars, timecodes>>
          /\ pc' = (IF timecodes = <<>> THEN "done" ELSE "backfill")
        BY <1>3 DEF ReadEnds, Pass, IInv, PassInv
    <2>2. CleanHead /\ timecodes # <<>> => timecodes[1].secs <= LockAfter
        BY <2>1, FirstAtLock
    <2> QED
        BY <1>1, <2>1, <2>2, FileStays DEF StartInv
  <1>4. CASE Backfill
    <2> DEFINE p == timecodes[1].secs - 1
    <2>1. /\ pc = "backfill" /\ UNCHANGED <<fileVars, pc>>
          /\ timecodes' = <<Frame(p)>> \o timecodes
          /\ timecodes # <<>> /\ timecodes \in Seq(FrameSet) /\ Len(timecodes) \in Nat
        BY <1>4, FrameTypes DEF Backfill, IInv, PassInv
    <2>2. timecodes[1].secs \in Nat
        BY <2>1, FrameTypes, EmptySeq
    <2>3. timecodes'[1] = Frame(p)
      <3>1. timecodes'[1] = <<Frame(p)>>[1]
        <4>1. timecodes' \in Seq(FrameSet)
            BY <1>4, BackfillStep DEF IInv, TimecodesTypeOK, FrameSet
        <4> QED
            BY <2>1
      <3> QED
          BY <3>1
    <2>4. timecodes'[1].secs = p
        BY <2>3 DEF Frame
    <2>5. CleanHead => timecodes'[1].secs <= LockAfter
        BY <2>1, <2>2, <2>4 DEF StartInv
    <2> QED
        BY <1>1, <2>1, <2>5, FileStays DEF StartInv
  <1>5. CASE BackfillEnds
    <2>1. /\ pc = "backfill" /\ UNCHANGED <<fileVars, timecodes, kept>>
          /\ firstSecs' = timecodes[1].secs /\ pc' = "bcd" /\ pos' = 1 /\ kept = <<>>
        BY <1>5 DEF BackfillEnds, Pass, IInv, PassInv
    <2>2. CleanHead => RightHead
        BY <2>1, HeadIsRight DEF StartInv
    <2>3. RightHead' <=> RightHead
        BY <2>1, FileStays DEF RightHead
    <2> QED
        BY <1>1, <2>1, <2>2, <2>3, FileStays DEF StartInv
  <1> QED
      BY <1>2, <1>3, <1>4, <1>5

LEMMA StartValidate ==
    ASSUME IInv, FileInv, StartInv, ValidateFrame
    PROVE  StartInv'
  <1>1. /\ pc = "bcd" /\ pos <= Len(timecodes) /\ pos' = pos + 1 /\ pc' = pc
        /\ UNCHANGED <<fileVars, timecodes, firstSecs, start>>
        /\ Valid(timecodes[pos].timecode) => kept' = Append(kept, timecodes[pos])
        /\ kept' # kept => \E f : kept' = Append(kept, f)
      BY DEF ValidateFrame, Keep
  <1>2. /\ pos \in 1 .. Len(timecodes) /\ pos \in Nat /\ Len(timecodes) \in Nat
        /\ kept \in Seq(FrameSet) /\ Len(kept) \in Nat /\ kept' \in Seq(FrameSet)
      BY <1>1, FrameTypes, ValidateFrameStep DEF IInv, PassInv, TimecodesTypeOK, FrameSet
  <1>3. /\ Len(kept') >= Len(kept)
        /\ \A k \in 1 .. Len(kept) : kept'[k] = kept[k]
        /\ kept' = Append(kept, timecodes[pos]) =>
               Len(kept') = Len(kept) + 1 /\ kept'[Len(kept) + 1] = timecodes[pos]
    <2>1. \A f : Append(kept, f) \in Seq(FrameSet) =>
              /\ Len(Append(kept, f)) = Len(kept) + 1
              /\ \A k \in 1 .. Len(kept) : Append(kept, f)[k] = kept[k]
              /\ Append(kept, f)[Len(kept) + 1] = f
        BY <1>2
    <2>2. CASE kept' = kept
      <3>1. kept' = Append(kept, timecodes[pos]) => FALSE
          BY <1>2, <2>1, <2>2
      <3> QED
          BY <1>2, <2>2, <3>1
    <2>3. CASE kept' # kept
      <3>1. PICK f : kept' = Append(kept, f)
          BY <1>1, <2>3
      <3> QED
          BY <1>2, <2>1, <3>1
    <2> QED
        BY <2>2, <2>3
  <1>4. ASSUME CleanHead
        PROVE  /\ RightHead /\ firstSecs = timecodes[1].secs
               /\ pos + 1 = 2 => Len(kept') = 1
               /\ kept'[1] = timecodes[1]
               /\ pos + 1 >= 3 => Len(timecodes) >= 2 /\ Len(kept') >= 2 /\ kept'[2] = timecodes[2]
    <2>1. /\ RightHead /\ firstSecs = timecodes[1].secs
          /\ pos = 1 => kept = <<>>
          /\ pos = 2 => Len(kept) = 1
          /\ pos >= 2 => kept[1] = timecodes[1]
          /\ pos >= 3 => Len(timecodes) >= 2 /\ Len(kept) >= 2 /\ kept[2] = timecodes[2]
        BY <1>1, <1>4 DEF StartInv
    <2>2. /\ Valid(timecodes[1].timecode)
          /\ Len(timecodes) >= 2 => Valid(timecodes[2].timecode)
        BY <1>1, <2>1, HeadFollows
    <2>3. CASE pos = 1
        BY <1>1, <1>3, <2>1, <2>2, <2>3, EmptySeq
    <2>4. CASE pos = 2
      <3>1. Len(timecodes) >= 2 /\ Len(kept) = 1
          BY <1>2, <2>1, <2>4
      <3>2. kept' = Append(kept, timecodes[pos])
          BY <1>1, <2>2, <2>4, <3>1
      <3>3. /\ Len(kept') = 1 + 1 /\ kept'[1 + 1] = timecodes[2]
            /\ kept'[1] = kept[1]
          BY <1>3, <2>4, <3>1, <3>2
      <3> QED
          BY <2>1, <2>4, <3>1, <3>3
    <2>5. CASE pos >= 3
        BY <1>2, <1>3, <2>1, <2>5
    <2> QED
        BY <1>2, <2>1, <2>3, <2>4, <2>5
  <1>5. RightHead' <=> RightHead
      BY <1>1, FileStays DEF RightHead
  <1>6. start' = None
      BY <1>1 DEF StartInv
  <1>7. pos' # 1 /\ pos' \in Nat
      BY <1>1, <1>2
  <1> QED
      BY <1>1, <1>4, <1>5, <1>6, <1>7, FileStays DEF StartInv

\* The passes over the values keep the first two frames as they are, if they
\* are right.
LEMMA HeadKept ==
    ASSUME IInv, StartInv, UNCHANGED <<fileVars, firstSecs, start>>,
           pc \in {"bcd", "outliers", "tail", "head"},
           pc' \in {"outliers", "tail", "head", "coherent"},
           CleanHead =>
               /\ Len(timecodes') \in Nat \ {0} /\ timecodes'[1] = timecodes[1]
               /\ Len(timecodes') >= 2 => Len(timecodes) >= 2 /\ timecodes'[2] = timecodes[2]
    PROVE  StartInv'
  <1>1. start' = None
      BY DEF StartInv
  <1>2. ASSUME CleanHead PROVE RightHead' /\ firstSecs' = timecodes'[1].secs
    <2>1. RightHead /\ firstSecs = timecodes[1].secs
        BY <1>2 DEF StartInv
    <2>2. /\ Len(timecodes') >= 1 /\ timecodes'[1] = timecodes[1]
          /\ Len(timecodes') >= 2 => Len(timecodes) >= 2 /\ timecodes'[2] = timecodes[2]
        BY <1>2
    <2>3. truth' = truth
        BY DEF fileVars
    <2> QED
        BY <2>1, <2>2, <2>3 DEF RightHead, Right
  <1> QED
      BY <1>1, <1>2, FileStays DEF StartInv

LEMMA StartPasses ==
    ASSUME IInv, FileInv, StartInv,
           ValidateEnds \/ RepairFrame \/ RepairEnds \/ DropLast \/ DropFirst
    PROVE  StartInv'
  <1>1. /\ UNCHANGED <<fileVars, firstSecs, start>>
        /\ pc \in {"bcd", "outliers", "tail", "head"}
        /\ pc' \in {"outliers", "tail", "head", "coherent"}
      BY DEF ValidateEnds, RepairFrame, RepairEnds, DropLast, DropFirst, Pass
  <1>2. /\ timecodes \in Seq(FrameSet) /\ Len(timecodes) \in Nat
        /\ pos \in Nat /\ Len(kept) \in Nat
      BY FrameTypes DEF IInv, TimecodesTypeOK
  <1>3. ASSUME CleanHead
        PROVE  /\ Len(timecodes') \in Nat \ {0} /\ timecodes'[1] = timecodes[1]
               /\ Len(timecodes') >= 2 => Len(timecodes) >= 2 /\ timecodes'[2] = timecodes[2]
    <2>1. RightHead
        BY <1>1, <1>3 DEF StartInv
    <2>2. /\ 1 \in 1 .. Len(timecodes)
          /\ Len(timecodes) >= 2 => Follows(2)
      <3>1. pc # "read" /\ 2 - 1 = 1
          BY <1>1
      <3> QED
          BY <2>1, <3>1, HeadFollows DEF Follows
    <2>3. CASE timecodes' = timecodes
        BY <1>2, <2>2, <2>3
    <2>4. CASE ValidateEnds
      <3>1. timecodes' = kept /\ pc = "bcd" /\ pos > Len(timecodes)
          BY <2>4 DEF ValidateEnds
      <3>2. /\ pos = 2 => Len(kept) = 1
            /\ kept[1] = timecodes[1]
            /\ pos >= 3 => Len(timecodes) >= 2 /\ Len(kept) >= 2 /\ kept[2] = timecodes[2]
          BY <1>2, <1>3, <2>2, <3>1 DEF StartInv
      <3>3. pos = 2 \/ pos >= 3
          BY <1>2, <2>2, <3>1
      <3> QED
          BY <1>2, <3>1, <3>2, <3>3
    <2>5. CASE RepairFrame /\ timecodes' # timecodes
      <3> DEFINE new == [timecodes[pos] EXCEPT !.timecode = Successor(timecodes[pos - 1].timecode)]
      <3>1. /\ pc = "outliers" /\ pos < Len(timecodes) /\ Outlier(pos)
            /\ timecodes' = [timecodes EXCEPT ![pos] = new]
          BY <2>5 DEF RepairFrame
      <3>2. pos >= 2
          BY <3>1 DEF IInv, PassInv
      <3>3. pos # 2
          BY <1>2, <2>2, <3>1 DEF Outlier, Follows
      <3>4. DOMAIN timecodes = 1 .. Len(timecodes)
          BY <1>2, LenProperties
      <3>5. timecodes' \in Seq(FrameSet) /\ DOMAIN timecodes' = DOMAIN timecodes
          BY <2>5, <3>1, RepairFrameStep DEF IInv, TimecodesTypeOK, FrameSet
      <3>6. Len(timecodes') = Len(timecodes)
          BY <1>2, <3>4, <3>5, LenProperties
      <3>7. 2 \in 1 .. Len(timecodes) /\ pos # 1
          BY <1>2, <3>1, <3>2
      <3> HIDE DEF new
      <3>8. timecodes'[1] = timecodes[1] /\ timecodes'[2] = timecodes[2]
          BY <2>2, <3>1, <3>3, <3>4, <3>7
      <3> QED
          BY <1>2, <2>2, <3>6, <3>7, <3>8
    <2>6. CASE DropLast /\ timecodes' # timecodes
      <3>1. /\ Len(timecodes) >= 2 /\ ~Follows(Len(timecodes))
            /\ timecodes' = SubSeq(timecodes, 1, Len(timecodes) - 1)
          BY <2>6 DEF DropLast
      <3>2. Len(timecodes) >= 3
          BY <1>2, <2>2, <3>1
      <3> DEFINE n == Len(timecodes) - 1
      <3>3. n \in Nat /\ n >= 2
          BY <1>2, <3>2
      <3>4. \A i \in 1 .. n : timecodes[i] \in FrameSet
          BY <1>2, FrameOf
      <3> HIDE DEF n
      <3>5. /\ Len(SubSeq(timecodes, 1, n)) = (IF 1 <= n THEN n - 1 + 1 ELSE 0)
            /\ \A i \in 1 .. n - 1 + 1 : SubSeq(timecodes, 1, n)[i] = timecodes[1 + i - 1]
          BY <3>3, <3>4, SubSeqProperties
      <3>6. timecodes' = SubSeq(timecodes, 1, n)
          BY <3>1 DEF n
      <3>7. 1 \in 1 .. n - 1 + 1 /\ 2 \in 1 .. n - 1 + 1 /\ 1 + 1 - 1 = 1 /\ 1 + 2 - 1 = 2
          BY <3>3
      <3>8. timecodes'[1] = timecodes[1] /\ timecodes'[2] = timecodes[2] /\ Len(timecodes') = n
          BY <3>3, <3>5, <3>6, <3>7
      <3> QED
          BY <1>2, <3>2, <3>3, <3>8
    <2>7. RepairEnds \/ DropFirst => timecodes' = timecodes
        BY <2>2 DEF RepairEnds, DropFirst
    <2> QED
        BY <2>3, <2>4, <2>5, <2>6, <2>7
  <1> QED
      BY <1>1, <1>3, HeadKept

\* Where frames follow each other for two seconds, the first one is right.
LEMMA CoherentIsRight ==
    ASSUME IInv, FileInv, FramesInv, Sane, pc = "coherent",
           NEW i \in 1 .. Len(timecodes), CoherentFrom(i)
    PROVE  Right(timecodes[i])
  <1> DEFINE f == timecodes[i]
             g == timecodes[i + 1]
             h == timecodes[i + 2]
  <1>1. MinRun \in Nat /\ MinRun >= 4 /\ Len(timecodes) \in Nat
      BY FrameTypes, TimecodeAssumption DEF MinRun
  <1>2. /\ i + 1 \in 1 .. Len(timecodes) /\ i + 2 \in 1 .. Len(timecodes)
        /\ i \in i .. i + MinRun - 1 /\ i + 2 \in i .. i + MinRun - 1
        /\ i + 1 \in i + 1 .. i + MinRun - 1 /\ i + 2 \in i + 1 .. i + MinRun - 1
        /\ (i + 1) - 1 = i /\ (i + 2) - 1 = i + 1
      BY <1>1 DEF CoherentFrom
  <1>3. /\ Valid(f.timecode) /\ Valid(h.timecode)
        /\ g.timecode = Successor(f.timecode) /\ g.secs - f.secs = 1
        /\ h.timecode = Successor(g.timecode) /\ h.secs - g.secs = 1
      BY <1>2 DEF CoherentFrom, Follows
  <1>4. f \in FrameSet /\ g \in FrameSet /\ h \in FrameSet
      BY <1>2, FrameOf
  <1>5. Own(f) /\ Own(h)
      BY <1>2 DEF FramesInv
  <1>6. f.secs \in Nat /\ g.secs \in Nat /\ h.secs \in Nat
      BY <1>4, FrameTypes DEF FrameSet
  <1> HIDE DEF f, g, h
  <1>7. f.secs < g.secs /\ g.secs < h.secs /\ h.secs - f.secs <= HourLen(dropFrame)
    <2>1. HourLen(dropFrame) \in Nat /\ HourLen(dropFrame) >= 6
        BY FileTypes, HourFacts
    <2>2. f.secs < g.secs /\ g.secs < h.secs /\ h.secs - f.secs <= 6
        BY <1>3, <1>6
    <2> QED
        BY <1>6, <2>1, <2>2
  <1>8. h.timecode \in {Successor(f.timecode), Successor(Successor(f.timecode))}
      BY <1>3
  <1>9. Right(f)
      BY <1>3, <1>4, <1>5, <1>7, <1>8, RepairedIsRight DEF Sane
  <1> QED
      BY <1>9 DEF f

\* What is left after a trim.
LEMMA Trimmed ==
    ASSUME IInv, Trim
    PROVE  /\ pc = "coherent" /\ pc' = "start" /\ UNCHANGED <<fileVars, start>>
           /\ \/ /\ ~\E i \in 2 .. Len(timecodes) : FirstCoherent(i)
                 /\ UNCHANGED <<timecodes, firstSecs>>
              \/ \E i \in 2 .. Len(timecodes) :
                     /\ CoherentFrom(i) /\ Len(timecodes') >= 1
                     /\ timecodes'[1] = timecodes[i] /\ firstSecs' = timecodes[i].secs
  <1> DEFINE n == Len(timecodes)
  <1>1. n \in Nat
      BY FrameTypes
  <1>2. ASSUME NEW i \in 2 .. n, timecodes' = SubSeq(timecodes, i, n)
        PROVE  Len(timecodes') >= 1 /\ timecodes'[1] = timecodes[i]
    <2>1. \A j \in i .. n : timecodes[j] \in FrameSet
        BY <1>1, FrameOf
    <2>2. /\ \A j \in 1 .. n - i + 1 : SubSeq(timecodes, i, n)[j] = timecodes[i + j - 1]
          /\ Len(SubSeq(timecodes, i, n)) = IF i <= n THEN n - i + 1 ELSE 0
        BY <1>1, <2>1, SubSeqProperties
    <2>3. 1 \in 1 .. n - i + 1 /\ i + 1 - 1 = i /\ i <= n /\ n - i + 1 >= 1
        BY <1>1
    <2> HIDE DEF n
    <2> QED
        BY <1>2, <2>2, <2>3
  <1> QED
      BY <1>2 DEF Trim, Pass, Anchor, FirstCoherent

LEMMA StartTrim ==
    ASSUME IInv, FileInv, FramesInv, StartInv, Trim
    PROVE  StartInv'
  <1>1. start' = None /\ truth' = truth
      BY Trimmed DEF StartInv, fileVars
  <1>2. ASSUME CleanHead, Sane
        PROVE  Right(timecodes[1])' /\ firstSecs' = timecodes'[1].secs
    <2>1. CASE UNCHANGED <<timecodes, firstSecs>>
        BY <1>1, <1>2, <2>1, Trimmed DEF StartInv, RightHead, Right
    <2>2. ASSUME NEW i \in 2 .. Len(timecodes), CoherentFrom(i),
                 timecodes'[1] = timecodes[i], firstSecs' = timecodes[i].secs
          PROVE  Right(timecodes[1])' /\ firstSecs' = timecodes'[1].secs
      <3>1. i \in 1 .. Len(timecodes)
          BY FrameTypes
      <3>2. Right(timecodes[i])
          BY <1>2, <2>2, <3>1, Trimmed, CoherentIsRight
      <3> QED
          BY <1>1, <2>2, <3>2 DEF Right
    <2> QED
        BY <2>1, <2>2, Trimmed
  <1> QED
      BY <1>1, <1>2, Trimmed, FileStays DEF StartInv

LEMMA StartReadStart ==
    ASSUME IInv, StartInv, ReadStart
    PROVE  StartInv'
  <1>1. /\ pc = "start" /\ start = None /\ UNCHANGED <<fileVars, timecodes, firstSecs>>
        /\ \/ timecodes = <<>> /\ pc' = "done" /\ start' = None
           \/ /\ timecodes # <<>> /\ pc' = "shift" /\ pos' = Offset
              /\ start' = timecodes[1].timecode
      BY DEF ReadStart, Pass, StartInv
  <1>2. CASE pc' = "done"
      BY <1>1, <1>2, FileStays DEF StartInv
  <1>3. CASE pc' = "shift"
    <2>1. timecodes[1].secs \in Nat
        BY <1>1, <1>3, FrameTypes, EmptySeq
    <2>2. CleanHead /\ Sane =>
              /\ Right(timecodes[1]) /\ firstSecs = timecodes[1].secs
              /\ pos' = timecodes[1].secs /\ start' = truth[timecodes[1].secs]
        BY <1>1, <1>3 DEF StartInv, Offset, Right
    <2>3. truth' = truth
        BY <1>1 DEF fileVars
    <2> QED
        BY <1>1, <1>3, <2>1, <2>2, <2>3, FileStays DEF StartInv
  <1> QED
      BY <1>1, <1>2, <1>3

LEMMA StartShift ==
    ASSUME IInv, FileInv, StartInv, ShiftFrame \/ ShiftEnds
    PROVE  StartInv'
  <1> USE FileAssumption
  <1>1. /\ pc = "shift" /\ pos \in Nat /\ UNCHANGED <<fileVars, timecodes, firstSecs>>
        /\ \/ pos > 0 /\ pc' = pc /\ pos' = pos - 1 /\ start' = DecrementFrame(start, dropFrame)
           \/ pos = 0 /\ pc' = "done" /\ start' = start
        /\ start # None
      BY DEF ShiftFrame, ShiftEnds, Pass, IInv, PassInv, TimecodesTypeOK
  <1>2. truth' = truth /\ dropFrame' = dropFrame
      BY <1>1 DEF fileVars
  <1>3. NoneLeftOut' <=> NoneLeftOut
      BY <1>1, <1>2 DEF NoneLeftOut
  <1>4. ASSUME CleanHead, Sane
        PROVE  /\ timecodes # <<>> /\ Right(timecodes[1]) /\ firstSecs = timecodes[1].secs
               /\ NoneLeftOut => pos <= timecodes[1].secs /\ start = truth[pos]
      BY <1>1, <1>4 DEF StartInv
  <1>5. ASSUME CleanHead, Sane, NoneLeftOut, pos > 0
        PROVE  pos - 1 <= timecodes[1].secs /\ DecrementFrame(start, dropFrame) = truth[pos - 1]
    <2>1. timecodes[1].secs \in Positions /\ timecodes[1].secs \in Nat
        BY <1>4, <1>5, FrameTypes, EmptySeq
    <2>2. pos \in 1 .. timecodes[1].secs
        BY <1>1, <1>4, <1>5, <2>1
    <2>3. pos \in Positions /\ pos - 1 \in Positions /\ pos < FileLen
        BY <1>1, <1>5, <2>1, <2>2 DEF Positions
    <2>4. /\ truth[pos] = Increment(truth[pos - 1], dropFrame)
          /\ truth[pos - 1] \in Timecodes /\ Exists(truth[pos - 1], dropFrame)
          /\ dropFrame \in BOOLEAN
        BY <1>1, <1>5, <2>3, FileTypes DEF FileInv, ReadUpTo, Successor
    <2>5. Exists(Back(truth[pos]), dropFrame)
        BY <1>5, <2>2 DEF NoneLeftOut
    <2>6. DecrementFrame(truth[pos], dropFrame) = truth[pos - 1]
        BY <2>4, <2>5, BackFromNext
    <2> QED
        BY <1>1, <1>4, <1>5, <2>1, <2>2, <2>6
  <1>6. Right(timecodes[1])' <=> Right(timecodes[1])
      BY <1>1, <1>2 DEF Right
  <1>7. CASE pos > 0 /\ pc' = pc /\ pos' = pos - 1 /\ start' = DecrementFrame(start, dropFrame)
      BY <1>1, <1>2, <1>3, <1>4, <1>5, <1>6, <1>7, FileStays DEF StartInv
  <1>8. CASE pos = 0 /\ pc' = "done" /\ start' = start
      BY <1>1, <1>2, <1>3, <1>4, <1>6, <1>8, FileStays DEF StartInv
  <1> QED
      BY <1>1, <1>7, <1>8

LEMMA StartNext == IInv /\ FileInv /\ FramesInv /\ StartInv /\ [Next]_vars => StartInv'
  <1> SUFFICES ASSUME IInv, FileInv, FramesInv, StartInv, [Next]_vars PROVE StartInv'
      OBVIOUS
  <1>1. CASE UNCHANGED vars
    <2>1. /\ UNCHANGED <<fileVars, pc, pos, timecodes, kept, firstSecs, start>>
          /\ truth' = truth /\ dropFrame' = dropFrame
        BY <1>1 DEF vars, fileVars
    <2>2. (RightHead' <=> RightHead) /\ (NoneLeftOut' <=> NoneLeftOut)
        BY <2>1 DEF RightHead, NoneLeftOut, Right
    <2> QED
        BY <2>1, <2>2, FileStays DEF StartInv
  <1> QED
      BY <1>1, StartRead, StartValidate, StartPasses, StartTrim, StartReadStart, StartShift
         DEF Next

LEMMA StartInvariant == Spec => []StartInv
  <1>1. Init => StartInv
      BY DEF Init, StartInv
  <1> QED
      BY <1>1, StartNext, FramesInvariant, Invariant, PTL DEF Spec

\* The start of the file is the true one, for files of every length.
THEOREM StartAlwaysTrue == Spec => [](ShortDropouts => StartIsTrue)
  <1>1. StartInv => (ShortDropouts => StartIsTrue)
      BY DEF StartInv, StartIsTrue, Sane
  <1> QED
      BY <1>1, StartInvariant, PTL

-----------------------------------------------------------------------------
(* Two seconds without a fault.                                            *)

Faultless(p) ==
    p \in LockAfter .. FileLen - MinRun /\ \A q \in p .. p + MinRun - 1 : signal[q] = truth[q]

\* Those two seconds are among the frames.
HasRun(s, p) ==
    \A q \in p .. p + MinRun - 1 :
        \E i \in 1 .. Len(s) : s[i].secs = q /\ s[i].timecode = truth[q]

RunInv ==
    \A p \in Positions : Faultless(p) =>
        /\ pc \in {"backfill", "bcd"} => timecodes[1].secs <= p
        /\ pc = "bcd" =>
               \A q \in p .. p + MinRun - 1 :
                   \/ \E k \in 1 .. Len(kept) : kept[k].secs = q /\ kept[k].timecode = truth[q]
                   \/ \E i \in 1 .. Len(timecodes) : i >= pos /\ timecodes[i].secs = q
        /\ Sane =>
               /\ pc \in {"outliers", "tail", "head", "coherent"} => HasRun(timecodes, p)
               /\ pc \in {"start", "shift", "done"} =>
                      timecodes # <<>> /\ Right(timecodes[1])

LEMMA FaultlessFacts ==
    ASSUME IInv, NEW p \in Positions, Faultless(p)
    PROVE  /\ MinRun \in Nat /\ MinRun >= 4 /\ p \in Nat /\ LockAfter <= p
           /\ p \in p .. p + MinRun - 1
           /\ \A q \in p .. p + MinRun - 1 :
                  /\ q \in Positions /\ q \in Nat /\ signal[q] = truth[q] /\ signal[q] # None
  <1> USE FileAssumption
  <1>1. MinRun \in Nat /\ MinRun >= 4
      BY TimecodeAssumption DEF MinRun
  <1>2. p \in Nat /\ LockAfter <= p /\ p <= FileLen - MinRun
      BY DEF Faultless, Positions
  <1>3. \A q \in p .. p + MinRun - 1 : q \in Positions /\ q \in Nat
      BY <1>1, <1>2 DEF Positions
  <1>4. \A q \in p .. p + MinRun - 1 : signal[q] = truth[q]
      BY DEF Faultless
  <1> QED
      BY <1>1, <1>2, <1>3, <1>4, FileTypes

\* Two frames of the run that follow each other in the file do so among the
\* frames.
LEMMA RunNeighbours ==
    ASSUME IInv, NEW i \in 1 .. Len(timecodes), NEW j \in 1 .. Len(timecodes),
           timecodes[j].secs = timecodes[i].secs + 1
    PROVE  j = i + 1
  <1>1. InOrder(timecodes) /\ Len(timecodes) \in Nat
      BY FrameTypes DEF IInv, PassInv
  <1>2. \A k \in 1 .. Len(timecodes) : timecodes[k].secs \in Nat
      BY FrameTypes
  <1>3. i < j
    <2>1. i = j \/ j < i \/ i < j
        BY <1>1
    <2> QED
        BY <1>1, <1>2, <2>1 DEF InOrder
  <1>4. ~(i + 1 < j)
    <2> SUFFICES ASSUME i + 1 < j PROVE FALSE
        OBVIOUS
    <2>1. i + 1 \in 1 .. Len(timecodes) /\ i < i + 1
        BY <1>1
    <2> QED
        BY <1>1, <1>2, <2>1 DEF InOrder
  <1> QED
      BY <1>1, <1>3, <1>4

LEMMA RunFollows ==
    ASSUME IInv, FileInv, pc # "read", NEW p \in Positions, Faultless(p), HasRun(timecodes, p),
           NEW q \in p + 1 .. p + MinRun - 1,
           NEW j \in 1 .. Len(timecodes), timecodes[j].secs = q
    PROVE  /\ j - 1 \in 1 .. Len(timecodes)
           /\ timecodes[j - 1].secs = q - 1 /\ timecodes[j - 1].timecode = truth[q - 1]
           /\ timecodes[j].timecode = truth[q] /\ Follows(j)
  <1> USE FileAssumption
  <1>1. /\ MinRun \in Nat /\ p \in Nat /\ InOrder(timecodes) /\ Len(timecodes) \in Nat
        /\ q \in Nat
      BY FaultlessFacts, FrameTypes DEF IInv, PassInv
  <1>2. q \in p .. p + MinRun - 1 /\ q - 1 \in p .. p + MinRun - 1
      BY <1>1
  <1>3. PICK i \in 1 .. Len(timecodes) :
            timecodes[i].secs = q - 1 /\ timecodes[i].timecode = truth[q - 1]
      BY <1>2 DEF HasRun
  <1>4. PICK k \in 1 .. Len(timecodes) :
            timecodes[k].secs = q /\ timecodes[k].timecode = truth[q]
      BY <1>2 DEF HasRun
  <1>5. timecodes[j].secs = timecodes[i].secs + 1 /\ timecodes[k].secs = timecodes[i].secs + 1
      BY <1>1, <1>3, <1>4
  <1>6. j = i + 1 /\ k = i + 1
      BY <1>5, RunNeighbours
  <1>7. truth[q] = Successor(truth[q - 1])
    <2>1. q \in Positions /\ q > 0 /\ q < FileLen
        BY <1>1, <1>2, FaultlessFacts DEF Positions
    <2> QED
        BY <2>1 DEF FileInv, ReadUpTo
  <1>8. j - 1 = i
      BY <1>1, <1>6
  <1> QED
      BY <1>3, <1>4, <1>6, <1>7, <1>8 DEF Follows

LEMMA FaultlessStays ==
    ASSUME UNCHANGED fileVars
    PROVE  /\ \A p : Faultless(p)' <=> Faultless(p)
           /\ \A p : HasRun(timecodes, p)' <=>
                     \A q \in p .. p + MinRun - 1 :
                         \E i \in 1 .. Len(timecodes') :
                             timecodes'[i].secs = q /\ timecodes'[i].timecode = truth[q]
  BY DEF fileVars, Faultless, HasRun

LEMMA RunRead ==
    ASSUME IInv, FramesInv, RunInv, ReadEnds \/ Backfill \/ BackfillEnds
    PROVE  RunInv'
  <1> USE FileAssumption
  <1>1. UNCHANGED fileVars /\ pc \in {"read", "backfill"}
      BY DEF ReadEnds, Backfill, BackfillEnds
  <1> SUFFICES ASSUME NEW p \in Positions, Faultless(p)
               PROVE  /\ pc' \in {"backfill", "bcd"} => timecodes'[1].secs <= p
                      /\ pc' = "bcd" =>
                             \A q \in p .. p + MinRun - 1 :
                                 \E i \in 1 .. Len(timecodes') :
                                     i >= pos' /\ timecodes'[i].secs = q
                      /\ pc' \in {"backfill", "bcd"}
    BY <1>1, FaultlessStays DEF RunInv
  <1>2. CASE ReadEnds
    <2>1. /\ pc = "read" /\ pos = FileLen /\ timecodes' = timecodes
          /\ pc' = (IF timecodes = <<>> THEN "done" ELSE "backfill")
        BY <1>2 DEF ReadEnds, Pass, IInv, PassInv
    <2>2. PICK i \in 1 .. Len(timecodes) : timecodes[i].secs = p
      <3>1. p \in Positions /\ LockAfter <= p /\ p < pos /\ signal[p] # None
          BY <2>1, FaultlessFacts DEF Positions
      <3> QED
          BY <2>1, <3>1 DEF FramesInv, HasFrame
    <2>3. Len(timecodes) \in Nat /\ 1 \in 1 .. Len(timecodes) /\ timecodes # <<>>
        BY <2>2, FrameTypes, EmptySeq
    <2>4. i = 1 \/ timecodes[1].secs < timecodes[i].secs
        BY <2>2, <2>3 DEF IInv, PassInv, InOrder
    <2>5. timecodes[1].secs \in Nat /\ p \in Nat
        BY <2>3, FrameTypes DEF Positions
    <2> QED
        BY <2>1, <2>2, <2>3, <2>4, <2>5
  <1>3. CASE Backfill
    <2> DEFINE b == timecodes[1].secs - 1
    <2>1. /\ pc = "backfill" /\ pc' = pc
          /\ timecodes' = <<Frame(b)>> \o timecodes
          /\ timecodes # <<>> /\ timecodes \in Seq(FrameSet) /\ Len(timecodes) \in Nat
        BY <1>3, FrameTypes DEF Backfill, IInv, PassInv
    <2>2. timecodes[1].secs \in Nat /\ timecodes[1].secs <= p /\ p \in Nat
      <3>1. timecodes[1].secs \in Nat
          BY <2>1, FrameTypes, EmptySeq
      <3>2. timecodes[1].secs <= p
          BY <2>1 DEF RunInv
      <3> QED
          BY <3>1, <3>2, FaultlessFacts
    <2>3. timecodes'[1] = Frame(b)
      <3>1. timecodes' \in Seq(FrameSet)
          BY <1>3, BackfillStep DEF IInv, TimecodesTypeOK, FrameSet
      <3>2. timecodes'[1] = <<Frame(b)>>[1]
          BY <2>1, <3>1
      <3> QED
          BY <3>2
    <2>4. timecodes'[1].secs = b
        BY <2>3 DEF Frame
    <2> QED
        BY <2>1, <2>2, <2>4
  <1>4. CASE BackfillEnds
    <2>1. /\ pc = "backfill" /\ timecodes' = timecodes /\ pc' = "bcd" /\ pos' = 1
        BY <1>4 DEF BackfillEnds, Pass
    <2>2. timecodes[1].secs <= p
        BY <2>1 DEF RunInv
    <2>3. timecodes[1].secs \in Nat /\ Len(timecodes) \in Nat
        BY <2>1, FrameTypes, EmptySeq DEF IInv, PassInv
    <2>4. ASSUME NEW q \in p .. p + MinRun - 1
          PROVE  \E i \in 1 .. Len(timecodes) : i >= 1 /\ timecodes[i].secs = q
      <3>1. q \in Positions /\ timecodes[1].secs <= q /\ signal[q] # None
          BY <2>2, <2>3, FaultlessFacts
      <3>2. PICK i \in 1 .. Len(timecodes) : timecodes[i].secs = q
          BY <2>1, <3>1 DEF FramesInv, HasFrame
      <3> QED
          BY <2>3, <3>2
    <2> QED
        BY <2>1, <2>2, <2>4
  <1> QED
      BY <1>2, <1>3, <1>4

LEMMA RunValidate ==
    ASSUME IInv, FileInv, FramesInv, RunInv, ValidateFrame \/ ValidateEnds
    PROVE  RunInv'
  <1> USE FileAssumption
  <1>1. UNCHANGED fileVars /\ pc = "bcd"
      BY DEF ValidateFrame, ValidateEnds
  <1>2. /\ Len(timecodes) \in Nat /\ Len(kept) \in Nat /\ pos \in Nat
        /\ kept \in Seq(FrameSet)
      BY FrameTypes DEF IInv, TimecodesTypeOK
  <1>3. CASE ValidateFrame
    <2>1. /\ pos <= Len(timecodes) /\ pos' = pos + 1 /\ pc' = pc /\ timecodes' = timecodes
          /\ Valid(timecodes[pos].timecode) => kept' = Append(kept, timecodes[pos])
          /\ kept' # kept => \E f : kept' = Append(kept, f)
        BY <1>3 DEF ValidateFrame, Keep
    <2>2. /\ pos \in 1 .. Len(timecodes) /\ kept' \in Seq(FrameSet)
        BY <1>1, <1>2, <1>3, <2>1, ValidateFrameStep
           DEF IInv, PassInv, TimecodesTypeOK, FrameSet
    <2>3. /\ Len(kept') >= Len(kept) /\ Len(kept') \in Nat
          /\ \A k \in 1 .. Len(kept) : kept'[k] = kept[k]
          /\ kept' = Append(kept, timecodes[pos]) =>
                 Len(kept') = Len(kept) + 1 /\ kept'[Len(kept) + 1] = timecodes[pos]
      <3>1. \A f : Append(kept, f) \in Seq(FrameSet) =>
                /\ Len(Append(kept, f)) = Len(kept) + 1
                /\ \A k \in 1 .. Len(kept) : Append(kept, f)[k] = kept[k]
                /\ Append(kept, f)[Len(kept) + 1] = f
          BY <1>2
      <3>2. CASE kept' = kept
        <4>1. kept' = Append(kept, timecodes[pos]) => FALSE
            BY <1>2, <2>2, <3>1, <3>2
        <4> QED
            BY <1>2, <3>2, <4>1
      <3>3. CASE kept' # kept
        <4>1. PICK f : kept' = Append(kept, f)
            BY <2>1, <3>3
        <4> QED
            BY <1>2, <2>2, <3>1, <4>1
      <3> QED
          BY <3>2, <3>3
    <2>4. ASSUME NEW p \in Positions, Faultless(p), NEW q \in p .. p + MinRun - 1
          PROVE  \/ \E k \in 1 .. Len(kept') : kept'[k].secs = q /\ kept'[k].timecode = truth[q]
                 \/ \E i \in 1 .. Len(timecodes) : i >= pos + 1 /\ timecodes[i].secs = q
      <3>1. CASE \E k \in 1 .. Len(kept) : kept[k].secs = q /\ kept[k].timecode = truth[q]
        <4>1. PICK k \in 1 .. Len(kept) : kept[k].secs = q /\ kept[k].timecode = truth[q]
            BY <3>1
        <4>2. k \in 1 .. Len(kept')
            BY <1>2, <2>3
        <4> QED
            BY <2>3, <4>1, <4>2
      <3>2. ASSUME NEW i \in 1 .. Len(timecodes), i >= pos, timecodes[i].secs = q
            PROVE  \/ \E k \in 1 .. Len(kept') : kept'[k].secs = q /\ kept'[k].timecode = truth[q]
                   \/ \E j \in 1 .. Len(timecodes) : j >= pos + 1 /\ timecodes[j].secs = q
        <4>1. CASE i = pos
          <5>1. timecodes[pos].timecode = truth[q] /\ q \in Positions
              BY <1>1, <3>2, <4>1, <2>4, FaultlessFacts DEF FramesInv, AsRead
          <5>2. Valid(timecodes[pos].timecode)
              BY <5>1 DEF FileInv, Exists
          <5>3. /\ Len(kept') = Len(kept) + 1 /\ kept'[Len(kept) + 1] = timecodes[pos]
              BY <2>1, <2>3, <5>2
          <5>4. Len(kept) + 1 \in 1 .. Len(kept')
              BY <1>2, <5>3
          <5> QED
              BY <3>2, <4>1, <5>1, <5>3, <5>4
        <4>2. CASE i # pos
          <5>1. i >= pos + 1
              BY <1>2, <3>2, <4>2
          <5> QED
              BY <3>2, <5>1
        <4> QED
            BY <4>1, <4>2
      <3> QED
          BY <1>1, <2>4, <3>1, <3>2 DEF RunInv
    <2>5. truth' = truth
        BY <1>1 DEF fileVars
    <2> QED
        BY <1>1, <2>1, <2>4, <2>5, FaultlessStays DEF RunInv
  <1>4. CASE ValidateEnds
    <2>1. timecodes' = kept /\ pos > Len(timecodes) /\ pc' \in {"outliers", "coherent"}
        BY <1>4 DEF ValidateEnds, Pass
    <2>2. \A i \in 1 .. Len(timecodes) : ~(i >= pos)
        BY <1>2, <2>1
    <2>3. \A p \in Positions : Faultless(p) => HasRun(timecodes, p)'
        BY <1>1, <2>1, <2>2, FaultlessStays DEF RunInv
    <2> QED
        BY <1>1, <2>1, <2>3, FaultlessStays DEF RunInv
  <1> QED
      BY <1>3, <1>4

LEMMA RunRepair ==
    ASSUME IInv, FileInv, FramesInv, RunInv, RepairFrame, Sane,
           NEW p \in Positions, Faultless(p)
    PROVE  HasRun(timecodes, p)'
  <1> DEFINE g == timecodes[pos]
             next == Successor(timecodes[pos - 1].timecode)
             new == [g EXCEPT !.timecode = next]
  <1>1. /\ pc = "outliers" /\ pos < Len(timecodes) /\ UNCHANGED fileVars
        /\ \/ timecodes' = timecodes
           \/ Outlier(pos) /\ timecodes' = [timecodes EXCEPT ![pos] = new]
      BY DEF RepairFrame
  <1>2. /\ timecodes \in Seq(FrameSet) /\ Len(timecodes) \in Nat
        /\ pos - 1 \in 1 .. Len(timecodes) /\ pos \in 1 .. Len(timecodes)
    <2>1. pos >= 2 /\ pos \in Nat
        BY <1>1 DEF IInv, PassInv, TimecodesTypeOK
    <2> QED
        BY <1>1, <2>1, FrameTypes
  <1>3. HasRun(timecodes, p)
      BY <1>1 DEF RunInv
  <1>4. CASE timecodes' = timecodes
      BY <1>1, <1>3, <1>4, FaultlessStays DEF HasRun
  <1>5. CASE Outlier(pos) /\ timecodes' = [timecodes EXCEPT ![pos] = new]
    <2>1. g \in FrameSet /\ next \in Timecodes
        BY <1>2, FrameOf, FrameTypes
    <2>2. next = truth[g.secs]
        BY <1>1, <1>5, OutlierIsRight
    <2> HIDE DEF g, next
    <2>3. new \in FrameSet /\ new.secs = g.secs /\ new.timecode = truth[g.secs]
        BY <2>1, <2>2 DEF FrameSet
    <2> HIDE DEF new
    <2>4. /\ Len(timecodes') = Len(timecodes)
          /\ \A j \in 1 .. Len(timecodes) :
                 timecodes'[j] = IF j = pos THEN new ELSE timecodes[j]
        BY <1>2, <1>5, <2>3, ExceptSeq
    <2>5. ASSUME NEW q \in p .. p + MinRun - 1
          PROVE  \E i \in 1 .. Len(timecodes') :
                     timecodes'[i].secs = q /\ timecodes'[i].timecode = truth[q]
      <3>1. PICK i \in 1 .. Len(timecodes) :
                timecodes[i].secs = q /\ timecodes[i].timecode = truth[q]
          BY <1>3 DEF HasRun
      <3>2. timecodes'[i].secs = q /\ timecodes'[i].timecode = truth[q]
          BY <2>3, <2>4, <3>1 DEF g
      <3> QED
          BY <2>4, <3>1, <3>2
    <2> QED
        BY <1>1, <2>5, FaultlessStays
  <1> QED
      BY <1>1, <1>4, <1>5

LEMMA RunDrop ==
    ASSUME IInv, FileInv, RunInv, DropLast \/ DropFirst, Sane,
           NEW p \in Positions, Faultless(p)
    PROVE  HasRun(timecodes, p)'
  <1> DEFINE n == Len(timecodes)
  <1>1. /\ pc \in {"tail", "head"} /\ UNCHANGED fileVars
        /\ \/ timecodes' = timecodes
           \/ n >= 2 /\ ~Follows(n) /\ timecodes' = SubSeq(timecodes, 1, n - 1)
           \/ n >= 2 /\ ~Follows(2) /\ timecodes' = Tail(timecodes)
      BY DEF DropLast, DropFirst
  <1>2. n \in Nat /\ timecodes \in Seq(FrameSet)
      BY FrameTypes
  <1>3. HasRun(timecodes, p) /\ pc # "read"
      BY <1>1 DEF RunInv
  <1>4. MinRun \in Nat /\ MinRun >= 4 /\ p \in Nat
      BY FaultlessFacts
  <1> SUFFICES ASSUME NEW q \in p .. p + MinRun - 1
               PROVE  \E i \in 1 .. Len(timecodes') :
                          timecodes'[i].secs = q /\ timecodes'[i].timecode = truth[q]
      BY <1>1, FaultlessStays
  <1>5. PICK i \in 1 .. n : timecodes[i].secs = q /\ timecodes[i].timecode = truth[q]
      BY <1>3 DEF HasRun
  <1>6. CASE timecodes' = timecodes
      BY <1>5, <1>6
  <1>7. CASE n >= 2 /\ ~Follows(n) /\ timecodes' = SubSeq(timecodes, 1, n - 1)
    <2>1. ASSUME i = n PROVE FALSE
      <3>1. CASE q = p
        <4>1. p + 1 \in p + 1 .. p + MinRun - 1 /\ p + 1 \in p .. p + MinRun - 1 /\ (p + 1) - 1 = p
            BY <1>4
        <4>2. PICK j \in 1 .. n : timecodes[j].secs = p + 1
            BY <1>3, <4>1 DEF HasRun
        <4>3. j = i + 1
            BY <1>5, <3>1, <4>2, RunNeighbours
        <4> QED
            BY <1>2, <2>1, <4>3
      <3>2. CASE q # p
        <4>1. q \in p + 1 .. p + MinRun - 1
            BY <1>4, <3>2
        <4>2. Follows(i)
            BY <1>3, <1>5, <4>1, RunFollows
        <4> QED
            BY <1>7, <2>1, <4>2
      <3> QED
          BY <3>1, <3>2
    <2>2. \A j \in 1 .. n - 1 : timecodes[j] \in FrameSet
        BY <1>2, FrameOf
    <2>3. /\ Len(SubSeq(timecodes, 1, n - 1)) = (IF 1 <= n - 1 THEN (n - 1) - 1 + 1 ELSE 0)
          /\ \A j \in 1 .. (n - 1) - 1 + 1 : SubSeq(timecodes, 1, n - 1)[j] = timecodes[1 + j - 1]
        BY <1>2, <2>2, SubSeqProperties
    <2>4. i \in 1 .. (n - 1) - 1 + 1 /\ 1 + i - 1 = i /\ (n - 1) - 1 + 1 = n - 1 /\ 1 <= n - 1
        BY <1>2, <1>5, <1>7, <2>1
    <2>5. timecodes'[i] = timecodes[i] /\ i \in 1 .. Len(timecodes')
        BY <1>7, <2>3, <2>4
    <2> QED
        BY <1>5, <2>5
  <1>8. CASE n >= 2 /\ ~Follows(2) /\ timecodes' = Tail(timecodes)
    <2>1. ASSUME i = 1 PROVE FALSE
      <3>1. CASE q = p
        <4>1. p + 1 \in p + 1 .. p + MinRun - 1 /\ p + 1 \in p .. p + MinRun - 1
            BY <1>4
        <4>2. PICK j \in 1 .. n : timecodes[j].secs = p + 1
            BY <1>3, <4>1 DEF HasRun
        <4>3. j = 2
            BY <1>5, <2>1, <3>1, <4>2, RunNeighbours
        <4>4. Follows(j)
            BY <1>3, <4>1, <4>2, RunFollows
        <4> QED
            BY <1>8, <4>3, <4>4
      <3>2. CASE q # p
        <4>1. q \in p + 1 .. p + MinRun - 1
            BY <1>4, <3>2
        <4>2. i - 1 \in 1 .. n
            BY <1>3, <1>5, <4>1, RunFollows
        <4> QED
            BY <2>1, <4>2
      <3> QED
          BY <3>1, <3>2
    <2>2. timecodes # <<>>
        BY <1>8, EmptySeq
    <2>3. /\ Len(Tail(timecodes)) = n - 1
          /\ \A j \in 1 .. Len(Tail(timecodes)) : Tail(timecodes)[j] = timecodes[j + 1]
        BY <1>2, <2>2, HeadTailProperties
    <2>4. i - 1 \in 1 .. n - 1 /\ (i - 1) + 1 = i
        BY <1>2, <1>5, <2>1
    <2>5. timecodes'[i - 1] = timecodes[i] /\ i - 1 \in 1 .. Len(timecodes')
        BY <1>8, <2>3, <2>4
    <2> QED
        BY <1>5, <2>5
  <1> QED
      BY <1>1, <1>6, <1>7, <1>8

\* The run is a coherent one.
LEMMA RunIsCoherent ==
    ASSUME IInv, FileInv, pc # "read", NEW p \in Positions, Faultless(p), HasRun(timecodes, p)
    PROVE  \E e \in 1 .. Len(timecodes) : CoherentFrom(e)
  <1> USE FileAssumption
  <1>1. /\ MinRun \in Nat /\ MinRun >= 4 /\ p \in Nat /\ Len(timecodes) \in Nat
        /\ p \in p .. p + MinRun - 1
      BY FaultlessFacts, FrameTypes
  <1>2. PICK e \in 1 .. Len(timecodes) :
            timecodes[e].secs = p /\ timecodes[e].timecode = truth[p]
      BY <1>1 DEF HasRun
  <1> DEFINE At0(d) == /\ e + d \in 1 .. Len(timecodes)
                       /\ timecodes[e + d].secs = p + d
                       /\ timecodes[e + d].timecode = truth[p + d]
             S == {d \in 0 .. MinRun - 1 : At0(d)}
  <1>3. 0 \in S
    <2>1. e + 0 = e /\ p + 0 = p /\ 0 \in 0 .. MinRun - 1
        BY <1>1
    <2> QED
        BY <1>2, <2>1
  <1>4. ASSUME NEW d \in 1 .. MinRun - 1, d - 1 \in S PROVE d \in S
    <2>1. /\ d \in 0 .. MinRun - 1 /\ p + d \in p .. p + MinRun - 1
          /\ p + d = (p + (d - 1)) + 1 /\ (e + (d - 1)) + 1 = e + d
        BY <1>1
    <2>2. e + (d - 1) \in 1 .. Len(timecodes) /\ timecodes[e + (d - 1)].secs = p + (d - 1)
        BY <1>4
    <2>3. PICK j \in 1 .. Len(timecodes) :
              timecodes[j].secs = p + d /\ timecodes[j].timecode = truth[p + d]
        BY <2>1 DEF HasRun
    <2>4. timecodes[j].secs = timecodes[e + (d - 1)].secs + 1
        BY <2>1, <2>2, <2>3
    <2>5. j = (e + (d - 1)) + 1
        BY <2>2, <2>4, RunNeighbours
    <2>6. j = e + d
        BY <2>1, <2>5
    <2> QED
        BY <2>1, <2>3, <2>6
  <1> HIDE DEF S
  <1>5. 0 .. MinRun - 1 \subseteq S
    <2>1. MinRun - 1 \in Nat
        BY <1>1
    <2> QED
        BY <1>3, <1>4, <2>1, Counting
  <1>6. \A d \in 0 .. MinRun - 1 : At0(d)
    <2>1. \A d \in S : At0(d)
        BY DEF S
    <2> QED
        BY <1>5, <2>1
  <1>7. \A j \in e .. e + MinRun - 1 :
            /\ j \in 1 .. Len(timecodes) /\ timecodes[j].secs = p + (j - e)
            /\ timecodes[j].timecode = truth[p + (j - e)]
    <2> SUFFICES ASSUME NEW j \in e .. e + MinRun - 1
                 PROVE  /\ j \in 1 .. Len(timecodes) /\ timecodes[j].secs = p + (j - e)
                        /\ timecodes[j].timecode = truth[p + (j - e)]
        OBVIOUS
    <2>1. j - e \in 0 .. MinRun - 1 /\ e + (j - e) = j
        BY <1>1
    <2> QED
        BY <1>6, <2>1
  <1> HIDE DEF At0
  <1>8. e + MinRun - 1 <= Len(timecodes)
    <2>1. e + MinRun - 1 \in e .. e + MinRun - 1
        BY <1>1
    <2> QED
        BY <1>7, <2>1
  <1>9. \A j \in e .. e + MinRun - 1 : Valid(timecodes[j].timecode)
    <2> SUFFICES ASSUME NEW j \in e .. e + MinRun - 1 PROVE Valid(timecodes[j].timecode)
        OBVIOUS
    <2>1. p + (j - e) \in p .. p + MinRun - 1
        BY <1>1
    <2>2. p + (j - e) \in Positions
        BY <2>1, FaultlessFacts
    <2> QED
        BY <1>7, <2>2 DEF FileInv, Exists
  <1>10. ASSUME NEW j \in e + 1 .. e + MinRun - 1
         PROVE  Follows(j) /\ timecodes[j].secs - timecodes[j - 1].secs = 1
    <2> DEFINE q == p + (j - e)
    <2>1. j \in e .. e + MinRun - 1 /\ q \in p + 1 .. p + MinRun - 1 /\ q \in Nat
        BY <1>1
    <2>2. j \in 1 .. Len(timecodes) /\ timecodes[j].secs = q
        BY <1>7, <2>1
    <2> HIDE DEF q
    <2>3. timecodes[j - 1].secs = q - 1 /\ Follows(j)
        BY <2>1, <2>2, RunFollows
    <2> QED
        BY <2>1, <2>2, <2>3
  <1> QED
      BY <1>8, <1>9, <1>10 DEF CoherentFrom

LEMMA RunTrim ==
    ASSUME IInv, FileInv, FramesInv, RunInv, Trim, Sane, NEW p \in Positions, Faultless(p)
    PROVE  timecodes' # <<>> /\ Right(timecodes[1])'
  <1>1. pc = "coherent" /\ truth' = truth /\ Len(timecodes) \in Nat
      BY Trimmed, FrameTypes DEF fileVars
  <1>2. PICK e \in 1 .. Len(timecodes) : CoherentFrom(e)
      BY <1>1, RunIsCoherent DEF RunInv
  <1>3. ASSUME NEW i \in 2 .. Len(timecodes), CoherentFrom(i), Len(timecodes') >= 1,
               timecodes'[1] = timecodes[i]
        PROVE  timecodes' # <<>> /\ Right(timecodes[1])'
    <2>1. i \in 1 .. Len(timecodes)
        BY <1>1
    <2>2. Right(timecodes[i])
        BY <1>1, <1>3, <2>1, CoherentIsRight
    <2>3. Len(<<>>) = 0
        BY EmptySeq
    <2>4. timecodes' # <<>>
        BY <1>3, <2>3
    <2> QED
        BY <1>1, <1>3, <2>2, <2>4 DEF Right
  <1>4. ASSUME ~\E i \in 2 .. Len(timecodes) : FirstCoherent(i), timecodes' = timecodes
        PROVE  timecodes' # <<>> /\ Right(timecodes[1])'
    <2> DEFINE T == {i \in 1 .. Len(timecodes) : CoherentFrom(i)}
    <2>1. PICK m \in T : \A i \in T : m <= i
      <3>1. T \subseteq Nat /\ T # {}
          BY <1>2
      <3> HIDE DEF T
      <3> QED
          BY <3>1, LeastNumber
    <2>2. \A j \in 1 .. m - 1 : ~CoherentFrom(j)
      <3> SUFFICES ASSUME NEW j \in 1 .. m - 1, CoherentFrom(j) PROVE FALSE
          OBVIOUS
      <3>1. j \in T /\ ~(m <= j)
          BY <1>1, <2>1
      <3> QED
          BY <2>1, <3>1
    <2>3. FirstCoherent(m)
        BY <2>1, <2>2 DEF FirstCoherent
    <2>4. m = 1
        BY <1>1, <1>4, <2>1, <2>3
    <2>5. 1 \in 1 .. Len(timecodes) /\ Right(timecodes[1])
        BY <1>1, <2>1, <2>4, CoherentIsRight
    <2>6. timecodes # <<>>
        BY <2>5, EmptySeq
    <2> QED
        BY <1>1, <1>4, <2>5, <2>6 DEF Right
  <1> QED
      BY <1>3, <1>4, Trimmed

LEMMA RunNext == IInv /\ FileInv /\ FramesInv /\ RunInv /\ [Next]_vars => RunInv'
  <1> SUFFICES ASSUME IInv, FileInv, FramesInv, RunInv, [Next]_vars PROVE RunInv'
      OBVIOUS
  <1>1. CASE ReadFrame
      BY <1>1 DEF ReadFrame, RunInv
  <1>2. CASE ReadEnds \/ Backfill \/ BackfillEnds
      BY <1>2, RunRead
  <1>3. CASE ValidateFrame \/ ValidateEnds
      BY <1>3, RunValidate
  <1>4. CASE RepairFrame \/ DropLast \/ DropFirst
    <2>1. UNCHANGED fileVars /\ pc' \in {"outliers", "tail", "head", "coherent"}
        BY <1>4 DEF RepairFrame, DropLast, DropFirst, Pass
    <2> QED
        BY <1>4, <2>1, RunRepair, RunDrop, FileStays, FaultlessStays DEF RunInv
  <1>5. CASE RepairEnds
    <2>1. /\ UNCHANGED <<fileVars, timecodes>> /\ pc = "outliers" /\ pc' = "tail"
        BY <1>5 DEF RepairEnds, Pass
    <2>2. \A p : HasRun(timecodes, p)' <=> HasRun(timecodes, p)
        BY <2>1, FaultlessStays DEF HasRun
    <2> QED
        BY <2>1, <2>2, FileStays, FaultlessStays DEF RunInv
  <1>6. CASE Trim
    <2>1. UNCHANGED fileVars /\ pc' = "start"
        BY <1>6, Trimmed
    <2> QED
        BY <1>6, <2>1, RunTrim, FileStays, FaultlessStays DEF RunInv
  <1>7. CASE ReadStart \/ ShiftFrame \/ ShiftEnds
    <2>1. /\ UNCHANGED <<fileVars, timecodes>>
          /\ pc \in {"start", "shift"} /\ pc' \in {"shift", "done"}
        BY <1>7 DEF ReadStart, ShiftFrame, ShiftEnds, Pass
    <2>2. Right(timecodes[1])' <=> Right(timecodes[1])
        BY <2>1 DEF Right, fileVars
    <2> QED
        BY <2>1, <2>2, FileStays, FaultlessStays DEF RunInv
  <1>8. CASE UNCHANGED vars
    <2>1. UNCHANGED <<fileVars, timecodes, pc, pos, kept>> /\ truth' = truth
        BY <1>8 DEF vars, fileVars
    <2>2. /\ \A p : HasRun(timecodes, p)' <=> HasRun(timecodes, p)
          /\ Right(timecodes[1])' <=> Right(timecodes[1])
        BY <2>1 DEF HasRun, Right
    <2> QED
        BY <2>1, <2>2, FileStays, FaultlessStays DEF RunInv
  <1> QED
      BY <1>1, <1>2, <1>3, <1>4, <1>5, <1>6, <1>7, <1>8 DEF Next

LEMMA RunInvariant == Spec => []RunInv
  <1>1. Init => RunInv
      BY DEF Init, RunInv
  <1> QED
      BY <1>1, RunNext, FramesInvariant, Invariant, PTL DEF Spec

\* Two seconds without a fault anywhere in the file are enough for the stream
\* to start with a frame that is right, in files of every length.
THEOREM FirstAlwaysTrue == Spec => [](ShortDropouts => FirstIsTrue)
  <1>1. RunInv => (ShortDropouts => FirstIsTrue)
    <2> SUFFICES ASSUME RunInv, Sane, pc \in {"start", "shift", "done"},
                        NEW p \in LockAfter .. FileLen - MinRun,
                        \A q \in p .. p + MinRun - 1 : signal[q] = truth[q]
                 PROVE  Right(timecodes[1])
        BY DEF FirstIsTrue, Sane
    <2>1. p \in Positions
        BY FileAssumption, TimecodeAssumption DEF Positions, MinRun
    <2> QED
        BY <2>1 DEF RunInv, Faultless
  <1> QED
      BY <1>1, RunInvariant, PTL
=============================================================================
