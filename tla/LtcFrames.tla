------------------------------ MODULE LtcFrames ------------------------------
(***************************************************************************)
(* From timecodes to a signal and back: the bits of a frame and their      *)
(* bi-phase marks (audio-core/src/ltc_encoder.rs), a recording of it with  *)
(* one crossing lost or one too many, and the decoder that works on the    *)
(* intervals between crossings (audio-core/src/ltc_decoder.rs).            *)
(*                                                                         *)
(* Lengths are in quarters of a bit, positions in the bits count from 0.   *)
(***************************************************************************)
EXTENDS Timecode, SequencesExt

CONSTANTS
    Starts,     \* timecodes a recording may begin with
    Frames,     \* number of frames
    Hurt,       \* the frames in which a crossing may be lost or added
    DropFrame,
    Ends        \* how many intervals a recording may miss at either end

\* The bits for tens hold what a clock can show; an end that is missing is
\* no longer than the shortest frame.
ASSUME FramesAssumption ==
    /\ DropFrame \in BOOLEAN
    /\ Starts \subseteq {t \in Timecodes : Exists(t, DropFrame)}
    /\ MaxFrames <= 40 /\ Seconds <= 80 /\ Minutes <= 80 /\ Hours <= 40
    /\ Frames \in Nat /\ Frames >= 3 /\ Hurt \subseteq 1 .. Frames
    /\ Ends \in 0 .. 93

VARIABLES
    recording,  \* what was recorded, and how
    nextInterval,   \* number of the one to be read next
    bits,       \* read so far
    done,       \* whether all is read and the frames were looked for
    found       \* the timecodes found, in their order

vars == <<recording, nextInterval, bits, done, found>>

FrameBits == 80
SyncWord == <<0, 0, 1, 1, 1, 1, 1, 1, 1, 1, 1, 1, 1, 1, 0, 1>>
SyncOffset == 64

-----------------------------------------------------------------------------
(* The encoder.                                                            *)

Weight == <<1, 2, 4, 8>>

\* write_val: the lowest bit first.
WriteVal(val, length) == [i \in 1 .. length |-> (val \div Weight[i]) % 2]

Zeros(n) == [i \in 1 .. n |-> 0]

\* Units, user bits, tens, and what follows them.
Field(val, tens, flags) ==
    WriteVal(val % 10, 4) \o Zeros(4) \o WriteVal(val \div 10, tens) \o flags

GetLtcBits(t) ==
    Field(t.frames, 2, <<IF DropFrame THEN 1 ELSE 0>> \o Zeros(5))
    \o Field(t.seconds, 3, Zeros(5)) \o Field(t.minutes, 3, Zeros(5))
    \o Field(t.hours, 2, Zeros(6)) \o SyncWord

\* generate_ltc_lead_in_stereo: a clock without a sync word.
LeadIn == [i \in 1 .. FrameBits |-> (i - 1) % 2]

\* modulate_bits_stereo: the level changes where a bit begins, and in the
\* middle of a one.
Marks(word) == FlattenSeq([i \in DOMAIN word |-> IF word[i] = 1 THEN <<2, 2>> ELSE <<4>>])

\* What is sent, frame by frame.
Sent == [start \in Starts |->
            LET t[k \in 1 .. Frames] == IF k = 1 THEN start ELSE Increment(t[k - 1], DropFrame)
            IN  [k \in 1 .. Frames |-> t[k]]]

\* It is shorter than a day: no timecode is sent twice.
ASSUME SentAssumption ==
    \A start \in Starts : \A j, k \in 1 .. Frames : Sent[start][j] = Sent[start][k] => j = k

\* The bits of the lead-in and of each frame.
Words == [start \in Starts |->
            <<LeadIn>> \o [k \in 1 .. Frames |-> GetLtcBits(Sent[start][k])]]

Signal == [start \in Starts |->
            FlattenSeq([k \in 1 .. Frames + 1 |-> Marks(Words[start][k])])]

\* The number of the first interval of a frame.
Begins == [start \in Starts |-> [k \in 1 .. Frames + 1 |->
            1 + Len(FlattenSeq([j \in 1 .. k |-> Marks(Words[start][j])]))]]

-----------------------------------------------------------------------------
(* The recording.                                                          *)

\* A crossing that is lost: two intervals become one.
WithoutCrossing(z, j) ==
    SubSeq(z, 1, j - 1) \o <<z[j] + z[j + 1]>> \o SubSeq(z, j + 2, Len(z))

\* One too many: an interval becomes two.
WithCrossing(z, j, length) ==
    SubSeq(z, 1, j - 1) \o <<length, z[j] - length>> \o SubSeq(z, j + 1, Len(z))

\* The crossing after the last interval is that of the end: the length from
\* the last one that is seen to the end is all that is known.
Recorded(start, kind, z, hurt) ==
    [start |-> start, kind |-> kind, hurt |-> hurt,
     intervals |-> Front(z), rest |-> Last(z)]

Whole(start) == {Recorded(start, "whole", Signal[start], {})}

Cut(start) ==
    LET z == Signal[start]
        lead == Len(Marks(LeadIn))
    IN  {Recorded(start, "late", SubSeq(z, lead + n, Len(z)), {1}) : n \in 2 .. Ends}
        \cup {Recorded(start, "early", SubSeq(z, 1, Len(z) - n), {Frames}) : n \in 1 .. Ends}

\* In which frames an interval and the next one lie.
FramesOf(start, js) ==
    {k \in 1 .. Frames : \E j \in js : j \in Begins[start][k] .. Begins[start][k + 1] - 1}

Damaged(start) ==
    LET z == Signal[start]
        js == UNION {Begins[start][k] .. Begins[start][k + 1] - 1 : k \in Hurt}
    IN  {Recorded(start, "lost", WithoutCrossing(z, j), FramesOf(start, {j, j + 1})) :
            j \in js \ {Len(z)}}
        \cup UNION {{Recorded(start, "added", WithCrossing(z, j, n), FramesOf(start, {j})) :
                        n \in 1 .. z[j] - 1} : j \in js}

Init ==
    /\ \E start \in Starts : recording \in Whole(start) \cup Cut(start) \cup Damaged(start)
    /\ nextInterval = 1 /\ bits = <<>> /\ done = FALSE /\ found = <<>>

-----------------------------------------------------------------------------
(* Reading the bits: decode_bits_real_zc.                                  *)

IsShort(j) == j <= Len(recording.intervals) /\ recording.intervals[j] < 3

\* A long interval is a zero, two short ones are a one; a short one that is
\* alone is skipped.
ReadBit(r) ==
    IF r.at > Len(recording.intervals) THEN r
    ELSE IF ~IsShort(r.at) THEN [at |-> r.at + 1, bits |-> Append(r.bits, 0)]
    ELSE IF IsShort(r.at + 1) THEN [at |-> r.at + 2, bits |-> Append(r.bits, 1)]
    ELSE [at |-> r.at + 1, bits |-> r.bits]

\* The loop, a frame's worth of bits at a time.
ReadBits ==
    LET loop[n \in 0 .. FrameBits] ==
            IF n = 0 THEN [at |-> nextInterval, bits |-> bits] ELSE ReadBit(loop[n - 1])
    IN  /\ nextInterval <= Len(recording.intervals)
        /\ nextInterval' = loop[FrameBits].at /\ bits' = loop[FrameBits].bits
        /\ UNCHANGED <<recording, done, found>>

\* What follows the last crossing is filled with zeros.
Closed == bits \o Zeros((recording.rest + 3) \div 4)

-----------------------------------------------------------------------------
(* Slips a change to the code could make, for the mutation entries of      *)
(* PROJECT.json; nothing below uses them.                                  *)

\* Shifted by one bit a sync word differs in three places.
ToleranceOfThree == 3

\* One frame more than the code asks for.
AcceptedFromSix(word, chain) == Cardinality(chain) >= 6

-----------------------------------------------------------------------------
(* Finding the frames: find_frames.                                        *)

Tolerance == 2

\* Whether a sync word is at a position, up to the tolerance.
IsSync(word, p) ==
    /\ p + 16 <= Len(word)
    /\ Cardinality({i \in 1 .. 16 : word[p + i] # SyncWord[i]}) <= Tolerance

\* scan_sync_positions: from a hit the scan goes on a frame later.
NextSync(hits, kept) ==
    LET rest == {h \in hits : \A k \in kept : h >= k + FrameBits}
    IN  IF rest = {} THEN kept ELSE kept \cup {Min(rest)}

SyncPositions(word) ==
    LET hits == {p \in 0 .. Len(word) : IsSync(word, p)}
        rounds == Len(word) \div FrameBits + 1
        scan[n \in 0 .. rounds] == IF n = 0 THEN {} ELSE NextSync(hits, scan[n - 1])
    IN  scan[rounds]

\* dominant_alignment: most sync words, and of equals the last.
Aligned(syncs, a) == Cardinality({p \in syncs : p >= SyncOffset /\ (p - SyncOffset) % FrameBits = a})

DominantAlignment(syncs) ==
    LET as == 0 .. FrameBits - 1
    IN  CHOOSE a \in as : \A b \in as :
            Aligned(syncs, b) < Aligned(syncs, a) \/ (Aligned(syncs, b) = Aligned(syncs, a) /\ b <= a)

\* grid_walk_starts
GridStarts(word, a) ==
    {s \in 0 .. Len(word) - FrameBits : s % FrameBits = a /\ IsSync(word, s + SyncOffset)}

BitsToNat(word, p, length) ==
    LET value[i \in 0 .. length] ==
            IF i = 0 THEN 0 ELSE value[i - 1] + word[p + i] * Weight[i]
    IN  value[length]

DecodeTimecode(word, s) ==
    LET digits(p, tens) == BitsToNat(word, s + p + 8, tens) * 10 + BitsToNat(word, s + p, 4)
    IN  At(digits(48, 2), digits(32, 3), digits(16, 3), digits(0, 2))

\* The sync words from p on that follow each other a frame apart.
ChainFrom(syncs, p) ==
    {q \in syncs : q >= p /\ \A r \in p .. q : (r - p) % FrameBits = 0 => r \in syncs}

MinChain == 5

\* flush_chain_run: long enough, and two timecodes in it follow each other.
Accepted(word, chain) ==
    /\ Cardinality(chain) >= MinChain
    /\ \E p \in chain : p >= SyncOffset /\ p + FrameBits \in chain
         /\ Increment(DecodeTimecode(word, p - SyncOffset), DropFrame)
              = DecodeTimecode(word, p - SyncOffset + FrameBits)

\* chain_relock_starts.  Sync words are a frame apart or more, so none is
\* near another and dedupe_near_duplicates leaves them all.
ChainStarts(word, syncs) ==
    LET heads == {p \in syncs : p - FrameBits \notin syncs}
        chains == {ChainFrom(syncs, p) : p \in heads}
    IN  {p - SyncOffset : p \in {q \in UNION {c \in chains : Accepted(word, c)} : q >= SyncOffset}}

\* merge_grid_and_chains: within half a frame the grid has it.
Merged(grid, chains) ==
    grid \cup {c \in chains : \A g \in grid : c - g >= FrameBits \div 2 \/ g - c >= FrameBits \div 2}

FrameStarts(word) ==
    LET syncs == SyncPositions(word)
    IN  IF \A p \in syncs : p < SyncOffset THEN {}
        ELSE Merged(GridStarts(word, DominantAlignment(syncs)), ChainStarts(word, syncs))

FindFrames ==
    /\ nextInterval > Len(recording.intervals) /\ ~done /\ done' = TRUE
    /\ found' = LET starts == FrameStarts(Closed)
                    nth(i) == CHOOSE s \in starts : Cardinality({t \in starts : t <= s}) = i
                IN  [i \in 1 .. Cardinality(starts) |-> DecodeTimecode(Closed, nth(i))]
    /\ UNCHANGED <<recording, nextInterval, bits>>

Next == ReadBits \/ FindFrames

Spec == Init /\ [][Next]_vars

-----------------------------------------------------------------------------
SentTimecodes == Sent[recording.start]

\* Frames nothing happened to.
Intact == 1 .. Frames \ recording.hurt

\* Those before the damage, and those after it but for the first: from a sync
\* word found a bit late the scan jumps over the next one if a bit is lost.
Before == {k \in Intact : \A h \in recording.hurt : k < h}
After == {k \in Intact : \A h \in recording.hurt : k > h + 1}

Slipped ==
    recording.kind \in {"lost", "added"} /\ Len(Closed) # FrameBits * (Frames + 1)

FramesTypeOK ==
    /\ nextInterval \in Nat /\ bits \in Seq({0, 1}) /\ done \in BOOLEAN /\ found \in Seq(Timecodes)

\* One crossing lost or added, or an end that is missing, costs no more than
\* the frames it happens in.  If the bits have slipped by it, a side of at
\* least five frames is found all the same.
IntactIsFound ==
    done =>
      \A side \in IF Slipped THEN {Before, After} ELSE {Intact} :
        ~Slipped \/ Cardinality(side) >= 5 => \A k \in side : SentTimecodes[k] \in Range(found)

\* Nothing is found twice or out of order, and nothing is made up: but for
\* one for each frame that something happened to, what is found are intact
\* frames as they follow each other.
InOrder(entries) ==
    LET place(i) == CHOOSE k \in Intact : found[i] = SentTimecodes[k]
    IN  /\ \A i \in entries : \E k \in Intact : found[i] = SentTimecodes[k]
        /\ \A i, j \in entries : i < j => place(i) < place(j)

FoundIsTrue ==
    done =>
      \E n \in 0 .. Cardinality(recording.hurt) :
        \E misread \in kSubset(n, DOMAIN found) : InOrder(DOMAIN found \ misread)
=============================================================================
