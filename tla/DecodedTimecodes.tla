--------------------------- MODULE DecodedTimecodes ---------------------------
(***************************************************************************)
(* What happens to the frames that a decoder has found in a file, until    *)
(* the timecode of the start of the file is known: frames before the first *)
(* one are filled in (audio-core/src/ltc_decoder.rs), implausible values   *)
(* are repaired or dropped (ltc_integrity.rs), the stream is trimmed to    *)
(* its first coherent run, and the first frame is taken back to the start  *)
(* of the file (gui-engine/src/converter/timecode.rs).                     *)
(*                                                                         *)
(* Positions in the file are in frames.  At each position there is a frame *)
(* that is read right, one that is misread, or none.                       *)
(***************************************************************************)
EXTENDS Timecode, Sequences, FiniteSets

CONSTANTS
    Origins,    \* timecodes of the start of the file
    FileLen,    \* the length of the file
    Gaps,       \* sets of positions without a frame
    MaxMisread, \* frames misread, at most
    LockAfter,  \* frames that go by before the decoder is locked
    None

ASSUME FileAssumption ==
    /\ FileLen \in Nat \ {0} /\ LockAfter \in Nat /\ None \notin Timecodes
    /\ Origins \subseteq Timecodes

VARIABLES
    dropFrame,
    gap,        \* where the signal drops out
    truth,      \* the timecode of each position
    signal,     \* what is read there
    pc,         \* the pass under way
    pos,        \* the position or frame that pass has come to
    timecodes,  \* the frames decoded
    kept,       \* the frames the first pass has kept
    firstSecs,  \* first_ltc_timecode_secs
    start       \* the timecode of the start of the file, as computed

fileVars == <<dropFrame, gap, truth, signal>>
vars == <<fileVars, pc, pos, timecodes, kept, firstSecs, start>>

Positions == 0 .. FileLen - 1

Successor(tc) == Increment(tc, dropFrame)

\* How a frame may be misread: out of range, as the frame after it, or as one
\* of another hour.
Garbage == At(0, 0, 0, MaxFrames)

Misread(tc, how) ==
    CASE how = "garbage" -> Garbage
      [] how = "echo" -> Successor(tc)
      [] how = "foreign" -> [tc EXCEPT !.hours = (@ + 1) % Hours]

Wrong(p) == signal[p] \notin {None, truth[p]}

Init ==
    /\ dropFrame \in BOOLEAN /\ gap \in Gaps
    /\ \E origin \in Origins :
           Exists(origin, dropFrame) /\ truth = [p \in Positions |-> origin]
    /\ signal = [p \in Positions |-> None]
    /\ pc = "read" /\ pos = 0
    /\ timecodes = <<>> /\ kept = <<>>
    /\ firstSecs = 0 /\ start = None

Frame(p) == [timecode |-> signal[p], secs |-> p]

Pass(label) == pc' = label /\ pos' = (IF label = "outliers" THEN 2 ELSE 1)

-----------------------------------------------------------------------------
(* Slips a change to the code could make, for the mutation entries of      *)
(* PROJECT.json; nothing below uses them.                                  *)

\* One neighbour is enough.
OutlierByOne(i) == timecodes[i].timecode # Successor(timecodes[i - 1].timecode)

\* The anchor stays with the frame that was first before.
AnchorKept(i) == firstSecs

-----------------------------------------------------------------------------
(* The decoder.                                                            *)

TrueAt(p) == IF p = 0 THEN truth[0] ELSE Successor(truth[p - 1])

\* What may be read where tc is.
Readings(tc) ==
    IF pos \in gap THEN {None}
    ELSE IF Cardinality({p \in 0 .. pos - 1 : Wrong(p)}) >= MaxMisread THEN {tc}
    ELSE {tc} \cup {Misread(tc, how) : how \in {"garbage", "echo", "foreign"}}

\* The next frame of the file is read, unless the decoder is not locked yet.
ReadFrame ==
    /\ pc = "read" /\ pos < FileLen
    /\ \E tc \in Readings(TrueAt(pos)) :
           /\ signal' = [signal EXCEPT ![pos] = tc]
           /\ timecodes' = IF pos < LockAfter \/ tc = None THEN timecodes
                           ELSE Append(timecodes, [timecode |-> tc, secs |-> pos])
    /\ truth' = [truth EXCEPT ![pos] = TrueAt(pos)]
    /\ pos' = pos + 1
    /\ UNCHANGED <<dropFrame, gap, pc, kept, firstSecs, start>>

ReadEnds ==
    /\ pc = "read" /\ pos >= FileLen
    /\ Pass(IF timecodes = <<>> THEN "done" ELSE "backfill")
    /\ UNCHANGED <<fileVars, timecodes, kept, firstSecs, start>>

\* The position before the first frame holds the frame before it.
Precedes(p) ==
    /\ p >= 0 /\ signal[p] # None
    /\ signal[p] = Decrement(timecodes[1].timecode, dropFrame, None)

Backfill ==
    /\ pc = "backfill" /\ Precedes(timecodes[1].secs - 1)
    /\ timecodes' = <<Frame(timecodes[1].secs - 1)>> \o timecodes
    /\ UNCHANGED <<fileVars, pc, pos, kept, firstSecs, start>>

BackfillEnds ==
    /\ pc = "backfill" /\ ~Precedes(timecodes[1].secs - 1)
    /\ firstSecs' = timecodes[1].secs
    /\ Pass("bcd")
    /\ UNCHANGED <<fileVars, timecodes, kept, start>>

-----------------------------------------------------------------------------
(* Integrity of the values.                                                *)

\* A frame out of range is between two good ones, with room for one.
Bridged(i) ==
    /\ kept # <<>> /\ i < Len(timecodes)
    /\ Valid(kept[Len(kept)].timecode) /\ Valid(timecodes[i + 1].timecode)
    /\ timecodes[i + 1].timecode = Successor(Successor(kept[Len(kept)].timecode))

Keep(f) == kept' = Append(kept, f)

\* One round of validate_bcd.
ValidateFrame ==
    /\ pc = "bcd" /\ pos <= Len(timecodes)
    /\ LET f == timecodes[pos]
       IN  IF Valid(f.timecode) THEN Keep(f)
           ELSE IF Bridged(pos)
           THEN Keep([f EXCEPT !.timecode = Successor(kept[Len(kept)].timecode)])
           ELSE UNCHANGED kept
    /\ pos' = pos + 1
    /\ UNCHANGED <<fileVars, pc, timecodes, firstSecs, start>>

\* With fewer than three frames the second pass does nothing.
ValidateEnds ==
    /\ pc = "bcd" /\ pos > Len(timecodes)
    /\ timecodes' = kept
    /\ Pass(IF Len(kept) < 3 THEN "coherent" ELSE "outliers")
    /\ UNCHANGED <<fileVars, kept, firstSecs, start>>

\* split_segments: frame i begins a segment.
Break(i) ==
    LET d == timecodes[i].secs - timecodes[i - 1].secs - 1
    IN  d > 2 \/ d < -2

Outlier(i) ==
    LET expected == Successor(timecodes[i - 1].timecode)
    IN  /\ ~Break(i) /\ ~Break(i + 1)
        /\ timecodes[i].timecode # expected
        /\ timecodes[i + 1].timecode \in {expected, Successor(expected)}

\* One round of repair_single_frame_outliers.
RepairFrame ==
    /\ pc = "outliers" /\ pos < Len(timecodes)
    /\ timecodes' =
           IF Outlier(pos)
           THEN [timecodes EXCEPT ![pos].timecode = Successor(timecodes[pos - 1].timecode)]
           ELSE timecodes
    /\ pos' = pos + 1
    /\ UNCHANGED <<fileVars, pc, kept, firstSecs, start>>

RepairEnds ==
    /\ pc = "outliers" /\ pos >= Len(timecodes)
    /\ Pass("tail")
    /\ UNCHANGED <<fileVars, timecodes, kept, firstSecs, start>>

Follows(i) == timecodes[i].timecode = Successor(timecodes[i - 1].timecode)

DropLast ==
    /\ pc = "tail"
    /\ IF Len(timecodes) >= 2 /\ ~Follows(Len(timecodes))
       THEN timecodes' = SubSeq(timecodes, 1, Len(timecodes) - 1) /\ UNCHANGED <<pc, pos>>
       ELSE Pass("head") /\ UNCHANGED timecodes
    /\ UNCHANGED <<fileVars, kept, firstSecs, start>>

DropFirst ==
    /\ pc = "head"
    /\ IF Len(timecodes) >= 2 /\ ~Follows(2)
       THEN timecodes' = Tail(timecodes) /\ UNCHANGED <<pc, pos>>
       ELSE Pass("coherent") /\ UNCHANGED timecodes
    /\ UNCHANGED <<fileVars, kept, firstSecs, start>>

-----------------------------------------------------------------------------
(* The coherent start, and the start of the file.                          *)

\* Two seconds.
MinRun == 2 * MaxFrames

CoherentFrom(i) ==
    /\ i + MinRun - 1 <= Len(timecodes)
    /\ \A j \in i .. i + MinRun - 1 : Valid(timecodes[j].timecode)
    /\ \A j \in i + 1 .. i + MinRun - 1 :
           Follows(j) /\ timecodes[j].secs - timecodes[j - 1].secs = 1

FirstCoherent(i) == CoherentFrom(i) /\ \A j \in 1 .. i - 1 : ~CoherentFrom(j)

\* Where the first of the frames begins that are left after a trim.
Anchor(i) == timecodes[i].secs

Trim ==
    /\ pc = "coherent"
    /\ \/ \E i \in 2 .. Len(timecodes) :
              /\ FirstCoherent(i)
              /\ timecodes' = SubSeq(timecodes, i, Len(timecodes))
              /\ firstSecs' = Anchor(i)
       \/ /\ ~\E i \in 2 .. Len(timecodes) : FirstCoherent(i)
          /\ UNCHANGED <<timecodes, firstSecs>>
    /\ Pass("start")
    /\ UNCHANGED <<fileVars, kept, start>>

Offset == IF firstSecs > 0 THEN firstSecs ELSE timecodes[1].secs

\* start_timecode_from_ltc: the first frame is taken back by its offset.
ReadStart ==
    /\ pc = "start"
    /\ IF timecodes = <<>>
       THEN Pass("done") /\ UNCHANGED start
       ELSE pc' = "shift" /\ pos' = Offset /\ start' = timecodes[1].timecode
    /\ UNCHANGED <<fileVars, timecodes, kept, firstSecs>>

\* One round of shift_timecode_back.
ShiftFrame ==
    /\ pc = "shift" /\ pos > 0
    /\ start' = DecrementFrame(start, dropFrame)
    /\ pos' = pos - 1
    /\ UNCHANGED <<fileVars, pc, timecodes, kept, firstSecs>>

ShiftEnds ==
    /\ pc = "shift" /\ pos = 0
    /\ Pass("done")
    /\ UNCHANGED <<fileVars, timecodes, kept, firstSecs, start>>

Next ==
    \/ ReadFrame \/ ReadEnds \/ Backfill \/ BackfillEnds
    \/ ValidateFrame \/ ValidateEnds \/ RepairFrame \/ RepairEnds
    \/ DropLast \/ DropFirst \/ Trim \/ ReadStart \/ ShiftFrame \/ ShiftEnds

Spec == Init /\ [][Next]_vars

-----------------------------------------------------------------------------
Right(f) == f.timecode = truth[f.secs]
Frames == {timecodes[i] : i \in DOMAIN timecodes}

\* No frame is misread as the one after it, and no two frames that are misread
\* bear each other out.
Unrelated ==
    /\ \A p \in Positions : Wrong(p) => signal[p] # Successor(truth[p])
    /\ \A p \in Positions : p + 2 \in Positions /\ Wrong(p) /\ Wrong(p + 2) =>
           signal[p + 2] # Successor(Successor(signal[p]))

\* The type invariant.
TimecodesTypeOK ==
    /\ dropFrame \in BOOLEAN
    /\ truth \in [Positions -> Timecodes]
    /\ signal \in [Positions -> Timecodes \cup {None}]
    /\ pc \in {"read", "backfill", "bcd", "outliers", "tail", "head", "coherent",
               "start", "shift", "done"}
    /\ pos \in Nat
    /\ timecodes \in Seq([timecode : Timecodes, secs : Positions])
    /\ kept \in Seq([timecode : Timecodes, secs : Positions])
    /\ firstSecs \in Nat
    /\ start \in Timecodes \cup {None}

\* "every downstream consumer [...] assumes time-ascending timecodes"
\* (ltc_decoder.rs, where frames are put before the first one).
Ascending ==
    \A i, j \in DOMAIN timecodes : i < j => timecodes[i].secs < timecodes[j].secs

\* Once the values have been validated, no pass brings one out of range, and
\* the start of the file is a time of day.
InRange ==
    /\ pc \notin {"read", "backfill", "bcd"} => \A f \in Frames : Valid(f.timecode)
    /\ start # None => Valid(start)

\* A frame whose value is changed is given its own, at a dropout as well: no
\* frame that was read right is spoiled by its neighbours.
RepairIsRight ==
    Unrelated => \A f \in Frames : f.timecode # signal[f.secs] => Right(f)

\* If the signal has two seconds without a fault, the stream starts with a
\* frame that is right, whatever was misread before.
FirstIsTrue ==
    /\ pc \in {"start", "shift", "done"} /\ Unrelated
    /\ \E p \in LockAfter .. FileLen - MinRun :
           \A q \in p .. p + MinRun - 1 : signal[q] = truth[q]
    => Right(timecodes[1])

\* The signal may begin late, but then at once with frames that are right.
CleanHead ==
    \E p \in 0 .. LockAfter :
        /\ \A q \in 0 .. p - 1 : signal[q] = None
        /\ \A q \in p .. LockAfter + 1 : signal[q] = truth[q]

\* With drop-frame counting: none of the numbers up to the first frame comes
\* after one that is left out.
NoneLeftOut == \A p \in 1 .. timecodes[1].secs : Exists(Back(truth[p]), dropFrame)

\* The start of the file is what the signal says, also when frames have been
\* trimmed and across midnight; with drop-frame counting only as long as no
\* number that is left out lies between.
StartIsTrue ==
    pc = "done" /\ start # None /\ Unrelated /\ CleanHead /\ NoneLeftOut
    => start = truth[0]

-----------------------------------------------------------------------------
(* What the documentation says and the code does not keep (README,         *)
(* section 5).                                                             *)

\* "frames 0 and 1 are skipped at the start of each minute"
\* (increment_timecode): the start of the file is a number that is counted.
StartExists == pc = "done" /\ start # None => Exists(start, dropFrame)
=============================================================================
