---------------------------- MODULE LtcFramesProofs ----------------------------
(***************************************************************************)
(* Theorems about LtcFrames, for every number of frames, every timecode    *)
(* they start with and every place of the damage: an intact frame is       *)
(* found, and what is found is true.                                       *)
(*                                                                         *)
(* The argument goes the way the signal does.                              *)
(*   - The encoder sends the bits of the frames, and the intervals of the  *)
(*     signal are timed by them (Carries).                                 *)
(*   - The loop of the decoder reads what the intervals say and nothing    *)
(*     else (ReadingInv, the inductive invariant).                         *)
(*   - So at the end it has heard the bits sent, in step, with a bit wrong *)
(*     at most, or with one bit missing in the frame that is hurt          *)
(*     (IsHeard).                                                          *)
(*   - No sixteen bits of these but a sync word, or what the damage makes  *)
(*     of its surroundings, are within two bits of the sync word           *)
(*     (OnlySyncWords).                                                    *)
(*   - The scan keeps the sync words a frame apart (ScanKeeps); the        *)
(*     dominant alignment and the chains make frame starts of those of the *)
(*     frames that are intact, and of one other at most.                   *)
(*   - Bits that are those of a frame sent decode to its timecode          *)
(*     (FrameDecodes).                                                     *)
(***************************************************************************)
EXTENDS LtcFrames, SequenceTheorems, FiniteSetTheorems, WellFoundedInduction, TLAPS

-----------------------------------------------------------------------------
(* Bits and frames.                                                        *)

\* A bit.
Bit == {0, 1}

\* What the elements of two joined sequences are.
LEMMA JoinIndex ==
    ASSUME NEW T, NEW p \in Seq(T), NEW q \in Seq(T)
    PROVE  /\ p \o q \in Seq(T) /\ Len(p \o q) = Len(p) + Len(q)
           /\ \A i \in 1 .. Len(p) : (p \o q)[i] = p[i]
           /\ \A i \in 1 .. Len(q) : (p \o q)[Len(p) + i] = q[i]
  OBVIOUS

\* A table of bits is a sequence of bits.
LEMMA TableBits ==
    ASSUME NEW n \in Nat, NEW f, \A i \in 1 .. n : f[i] \in Bit, f = [i \in 1 .. n |-> f[i]]
    PROVE  f \in Seq(Bit) /\ Len(f) = n
  OBVIOUS

\* The weights of the bits of a field.
LEMMA Weights ==
    /\ Weight[1] = 1 /\ Weight[2] = 2 /\ Weight[3] = 4 /\ Weight[4] = 8
  BY DEF Weight

\* write_val writes the bits of a value, the least first.
LEMMA WriteValBits ==
    ASSUME NEW val \in Nat, NEW n \in 1 .. 4
    PROVE  /\ WriteVal(val, n) \in Seq(Bit) /\ Len(WriteVal(val, n)) = n
           /\ \A i \in 1 .. n : WriteVal(val, n)[i] = (val \div Weight[i]) % 2
  <1>1. \A i \in 1 .. n : (val \div Weight[i]) % 2 \in Bit
    <2> SUFFICES ASSUME NEW i \in 1 .. n PROVE (val \div Weight[i]) % 2 \in Bit
      OBVIOUS
    <2>1. i \in {1, 2, 3, 4}
      OBVIOUS
    <2>2. Weight[i] \in {1, 2, 4, 8}
      BY <2>1, Weights
    <2>3. val \div Weight[i] \in Nat
      BY <2>2
    <2> QED
      BY <2>3 DEF Bit
  <1>2. \A i \in 1 .. n : WriteVal(val, n)[i] = (val \div Weight[i]) % 2
    BY DEF WriteVal
  <1>3. WriteVal(val, n) = [i \in 1 .. n |-> WriteVal(val, n)[i]]
    BY DEF WriteVal
  <1> QED
    BY <1>1, <1>2, <1>3, TableBits

\* A run of zeros.
LEMMA ZeroBits ==
    ASSUME NEW n \in Nat
    PROVE  /\ Zeros(n) \in Seq(Bit) /\ Len(Zeros(n)) = n
           /\ \A i \in 1 .. n : Zeros(n)[i] = 0
  BY DEF Zeros, Bit

\* A field has its units, four bits for the user, its tens, and its flags.
HasField(f, val, tens, flags) ==
    /\ f \in Seq(Bit) /\ Len(f) = 16
    /\ \A i \in 1 .. 4 : f[i] = ((val % 10) \div Weight[i]) % 2
    /\ \A i \in 5 .. 8 : f[i] = 0
    /\ \A i \in 1 .. tens : f[8 + i] = ((val \div 10) \div Weight[i]) % 2
    /\ \A i \in 1 .. 8 - tens : f[8 + tens + i] = flags[i]

\* Field makes such bits.
LEMMA FieldBits ==
    ASSUME NEW val \in Nat, NEW tens \in 2 .. 3, NEW flags \in Seq(Bit), Len(flags) = 8 - tens
    PROVE  HasField(Field(val, tens, flags), val, tens, flags)
  <1> DEFINE u == WriteVal(val % 10, 4)
             z == Zeros(4)
             d == WriteVal(val \div 10, tens)
  <1>0. /\ val % 10 \in Nat /\ val \div 10 \in Nat /\ tens \in 1 .. 4 /\ 4 \in 1 .. 4
        /\ 8 - tens \in Nat
    OBVIOUS
  <1>1. \A a \in Nat, n \in 1 .. 4 :
          /\ WriteVal(a, n) \in Seq(Bit) /\ Len(WriteVal(a, n)) = n
          /\ \A i \in 1 .. n : WriteVal(a, n)[i] = (a \div Weight[i]) % 2
    BY WriteValBits
  <1>2. /\ u \in Seq(Bit) /\ Len(u) = 4
        /\ \A i \in 1 .. 4 : u[i] = ((val % 10) \div Weight[i]) % 2
    BY <1>0, <1>1, Zenon
  <1>3. /\ d \in Seq(Bit) /\ Len(d) = tens
        /\ \A i \in 1 .. tens : d[i] = ((val \div 10) \div Weight[i]) % 2
    BY <1>0, <1>1, Zenon
  <1>4. z \in Seq(Bit) /\ Len(z) = 4 /\ \A i \in 1 .. 4 : z[i] = 0
    BY ZeroBits
  <1>5. Field(val, tens, flags) = ((u \o z) \o d) \o flags
    BY DEF Field
  <1> HIDE DEF u, z, d
  <1>6. /\ u \o z \in Seq(Bit) /\ Len(u \o z) = 8
        /\ \A i \in 1 .. 4 : (u \o z)[i] = u[i]
        /\ \A i \in 5 .. 8 : (u \o z)[i] = 0
    <2>1. \A i \in 5 .. 8 : i - 4 \in 1 .. 4 /\ i = 4 + (i - 4)
      OBVIOUS
    <2>2. /\ u \o z \in Seq(Bit) /\ Len(u \o z) = Len(u) + Len(z)
          /\ \A i \in 1 .. Len(u) : (u \o z)[i] = u[i]
          /\ \A i \in 1 .. Len(z) : (u \o z)[Len(u) + i] = z[i]
      <3>1. u \in Seq(Bit) /\ z \in Seq(Bit)
        BY <1>2, <1>4
      <3> QED
        BY ONLY <3>1, JoinIndex
    <2> QED
      BY <1>2, <1>4, <2>1, <2>2
  <1> DEFINE v == u \o z
  <1>7. v \in Seq(Bit) /\ Len(v) = 8
    BY <1>6
  <1>8. /\ v \o d \in Seq(Bit) /\ Len(v \o d) = 8 + tens
        /\ \A i \in 1 .. 8 : (v \o d)[i] = v[i]
        /\ \A i \in 1 .. tens : (v \o d)[8 + i] = d[i]
    <2> HIDE DEF v
    <2>1. /\ v \o d \in Seq(Bit) /\ Len(v \o d) = Len(v) + Len(d)
          /\ \A i \in 1 .. Len(v) : (v \o d)[i] = v[i]
          /\ \A i \in 1 .. Len(d) : (v \o d)[Len(v) + i] = d[i]
      <3>1. v \in Seq(Bit) /\ d \in Seq(Bit)
        BY <1>3, <1>7
      <3> QED
        BY ONLY <3>1, JoinIndex
    <2> QED
      BY <1>3, <1>7, <2>1
  <1> DEFINE w == v \o d
  <1>9. w \in Seq(Bit) /\ Len(w) = 8 + tens
    BY <1>8
  <1>10. /\ w \o flags \in Seq(Bit) /\ Len(w \o flags) = 16
         /\ \A i \in 1 .. 8 + tens : (w \o flags)[i] = w[i]
         /\ \A i \in 1 .. 8 - tens : (w \o flags)[8 + tens + i] = flags[i]
    <2> HIDE DEF w
    <2>1. /\ w \o flags \in Seq(Bit) /\ Len(w \o flags) = Len(w) + Len(flags)
          /\ \A i \in 1 .. Len(w) : (w \o flags)[i] = w[i]
          /\ \A i \in 1 .. Len(flags) : (w \o flags)[Len(w) + i] = flags[i]
      BY <1>9, JoinIndex
    <2> QED
      BY <1>0, <1>9, <2>1
  <1>11. /\ \A i \in 1 .. 8 : i \in 1 .. 8 + tens
         /\ \A i \in 1 .. tens : 8 + i \in 1 .. 8 + tens
         /\ \A i \in 1 .. 4 : i \in 1 .. 8
         /\ \A i \in 5 .. 8 : i \in 1 .. 8
    OBVIOUS
  <1> DEFINE f == Field(val, tens, flags)
  <1>12. f = w \o flags
    BY <1>5
  <1> HIDE DEF f, w
  <1>13. /\ \A i \in 1 .. 8 : f[i] = v[i]
         /\ \A i \in 1 .. tens : f[8 + i] = d[i]
    BY <1>8, <1>10, <1>11, <1>12 DEF w
  <1>14. /\ \A i \in 1 .. 4 : f[i] = u[i]
         /\ \A i \in 5 .. 8 : f[i] = 0
    BY <1>6, <1>11, <1>13
  <1> QED
    <2>1. /\ Field(val, tens, flags) \in Seq(Bit) /\ Len(Field(val, tens, flags)) = 16
          /\ \A i \in 1 .. 4 : Field(val, tens, flags)[i] = ((val % 10) \div Weight[i]) % 2
          /\ \A i \in 5 .. 8 : Field(val, tens, flags)[i] = 0
          /\ \A i \in 1 .. tens :
               Field(val, tens, flags)[8 + i] = ((val \div 10) \div Weight[i]) % 2
          /\ \A i \in 1 .. 8 - tens : Field(val, tens, flags)[8 + tens + i] = flags[i]
      BY <1>2, <1>3, <1>10, <1>12, <1>13, <1>14 DEF f
    <2> QED
      BY ONLY <2>1, Zenon DEF HasField

\* The bits of the sync word: two zeros, twelve ones, a zero and a one.
LEMMA SyncBits ==
    /\ SyncWord \in Seq(Bit) /\ Len(SyncWord) = 16
    /\ SyncWord[1] = 0 /\ SyncWord[2] = 0 /\ SyncWord[15] = 0 /\ SyncWord[16] = 1
    /\ \A i \in 3 .. 14 : SyncWord[i] = 1
  <1>1. \A i \in 3 .. 14 : i \in {3, 4, 5, 6, 7, 8, 9, 10, 11, 12, 13, 14}
    OBVIOUS
  <1> QED
    BY <1>1 DEF SyncWord, Bit

\* The bits of a frame that are zero in each.
Clear == 5 .. 8 \cup 12 .. 16 \cup 21 .. 24 \cup 28 .. 32 \cup 37 .. 40 \cup 44 .. 48
         \cup 53 .. 56 \cup 59 .. 64

\* What WriteVal makes of a number.
IsWritten(g, p, val, n) == \A i \in 1 .. n : g[p + i] = (val \div Weight[i]) % 2

\* What a field becomes at a place of a frame.
IsField(g, p, val, tens, flags) ==
    /\ IsWritten(g, p, val % 10, 4) /\ IsWritten(g, p + 8, val \div 10, tens)
    /\ \A i \in 5 .. 8 : g[p + i] = 0
    /\ \A i \in 1 .. 8 - tens : g[p + 8 + tens + i] = flags[i]

\* The sixteen bits of f are in g after its bit p.
IsCopied(g, p, f) == \A i \in 1 .. 16 : g[p + i] = f[i]

\* A flag with the five zeros after it.
LEMMA FlagBits ==
    ASSUME NEW b \in Bit
    PROVE  LET f == <<b>> \o Zeros(5)
           IN  f \in Seq(Bit) /\ Len(f) = 6 /\ \A i \in 2 .. 6 : f[i] = 0
  <1>1. <<b>> \in Seq(Bit) /\ Len(<<b>>) = 1
    OBVIOUS
  <1>2. Zeros(5) \in Seq(Bit) /\ Len(Zeros(5)) = 5 /\ \A i \in 1 .. 5 : Zeros(5)[i] = 0
    BY ZeroBits
  <1>3. /\ <<b>> \o Zeros(5) \in Seq(Bit)
        /\ Len(<<b>> \o Zeros(5)) = Len(<<b>>) + Len(Zeros(5))
        /\ \A i \in 1 .. Len(Zeros(5)) : (<<b>> \o Zeros(5))[Len(<<b>>) + i] = Zeros(5)[i]
    BY <1>1, <1>2, JoinIndex
  <1>4. \A i \in 2 .. 6 : i - 1 \in 1 .. 5 /\ i = 1 + (i - 1)
    OBVIOUS
  <1> QED
    BY SMTT(30), <1>1, <1>2, <1>3, <1>4

\* A field of a frame, by number.
LEMMA FieldOfFrame ==
    ASSUME NEW val \in Nat, NEW tens \in 2 .. 3, NEW flags \in Seq(Bit), Len(flags) = 8 - tens,
           NEW g, NEW p \in Nat, IsCopied(g, p, Field(val, tens, flags))
    PROVE  IsField(g, p, val, tens, flags)
  <1> DEFINE f == Field(val, tens, flags)
  <1>1. /\ \A i \in 1 .. 4 : f[i] = ((val % 10) \div Weight[i]) % 2
        /\ \A i \in 5 .. 8 : f[i] = 0
        /\ \A i \in 1 .. tens : f[8 + i] = ((val \div 10) \div Weight[i]) % 2
        /\ \A i \in 1 .. 8 - tens : f[8 + tens + i] = flags[i]
    <2>1. HasField(f, val, tens, flags)
      BY FieldBits
    <2> QED
      BY ONLY <2>1, Zenon DEF HasField
  <1> HIDE DEF f
  <1>2. \A i \in 1 .. 16 : g[p + i] = f[i]
    BY DEF f, IsCopied
  <1>3. /\ \A i \in 1 .. 4 : i \in 1 .. 16
        /\ \A i \in 5 .. 8 : i \in 1 .. 16
        /\ \A i \in 1 .. tens : 8 + i \in 1 .. 16 /\ p + (8 + i) = (p + 8) + i
        /\ \A i \in 1 .. 8 - tens :
             8 + tens + i \in 1 .. 16 /\ p + (8 + tens + i) = p + 8 + tens + i
    <2>1. p \in Nat /\ tens \in 2 .. 3
      OBVIOUS
    <2> QED
      BY ONLY <2>1
  <1>4. \A i \in 1 .. 4 : g[p + i] = f[i]
    BY <1>2, <1>3, Zenon
  <1>5. \A i \in 5 .. 8 : g[p + i] = f[i]
    BY <1>2, <1>3, Zenon
  <1>6. \A i \in 1 .. tens : g[p + 8 + i] = f[8 + i]
    BY <1>2, <1>3, Zenon
  <1>8. \A i \in 1 .. 8 - tens : g[p + 8 + tens + i] = f[8 + tens + i]
    BY <1>2, <1>3, Zenon
  <1> QED
    BY <1>1, <1>4, <1>5, <1>6, <1>8, Zenon DEF IsWritten, IsField

\* The bits of a frame: its fields at their places, the sync word at its end,
\* and zeros in all that nobody writes.
LEMMA BitsOfFrame ==
    ASSUME NEW t \in Timecodes
    PROVE  LET g == GetLtcBits(t)
           IN  /\ g \in Seq(Bit) /\ Len(g) = 80
               /\ \A i \in Clear : g[i] = 0
               /\ \A i \in 1 .. 16 : g[64 + i] = SyncWord[i]
               /\ IsWritten(g, 0, t.frames % 10, 4) /\ IsWritten(g, 8, t.frames \div 10, 2)
               /\ IsWritten(g, 16, t.seconds % 10, 4) /\ IsWritten(g, 24, t.seconds \div 10, 3)
               /\ IsWritten(g, 32, t.minutes % 10, 4) /\ IsWritten(g, 40, t.minutes \div 10, 3)
               /\ IsWritten(g, 48, t.hours % 10, 4) /\ IsWritten(g, 56, t.hours \div 10, 2)
  <1> DEFINE fl == <<IF DropFrame THEN 1 ELSE 0>> \o Zeros(5)
             fa == Field(t.frames, 2, fl)
             fb == Field(t.seconds, 3, Zeros(5))
             fc == Field(t.minutes, 3, Zeros(5))
             fd == Field(t.hours, 2, Zeros(6))
             g == GetLtcBits(t)
  <1>1. t.frames \in Nat /\ t.seconds \in Nat /\ t.minutes \in Nat /\ t.hours \in Nat
    BY DEF Timecodes
  <1>2. fl \in Seq(Bit) /\ Len(fl) = 6 /\ \A i \in 2 .. 6 : fl[i] = 0
    <2>1. (IF DropFrame THEN 1 ELSE 0) \in Bit
      BY DEF Bit
    <2> QED
      BY <2>1, FlagBits
  <1>3. /\ Zeros(5) \in Seq(Bit) /\ Len(Zeros(5)) = 5 /\ \A i \in 1 .. 5 : Zeros(5)[i] = 0
        /\ Zeros(6) \in Seq(Bit) /\ Len(Zeros(6)) = 6 /\ \A i \in 1 .. 6 : Zeros(6)[i] = 0
    BY ZeroBits
  <1> HIDE DEF fl
  <1>4a. /\ fl \in Seq(Bit) /\ Zeros(5) \in Seq(Bit) /\ Zeros(6) \in Seq(Bit)
         /\ Len(fl) = 8 - 2 /\ Len(Zeros(5)) = 8 - 3 /\ Len(Zeros(6)) = 8 - 2
    BY <1>2, <1>3
  <1>4. /\ fa \in Seq(Bit) /\ Len(fa) = 16 /\ fb \in Seq(Bit) /\ Len(fb) = 16
        /\ fc \in Seq(Bit) /\ Len(fc) = 16 /\ fd \in Seq(Bit) /\ Len(fd) = 16
    <2>1. \A val \in Nat, tens \in 2 .. 3, flags \in Seq(Bit) : Len(flags) = 8 - tens =>
            Field(val, tens, flags) \in Seq(Bit) /\ Len(Field(val, tens, flags)) = 16
      <3> SUFFICES ASSUME NEW val \in Nat, NEW tens \in 2 .. 3, NEW flags \in Seq(Bit),
                          Len(flags) = 8 - tens
                   PROVE  Field(val, tens, flags) \in Seq(Bit) /\ Len(Field(val, tens, flags)) = 16
        BY Zenon
      <3>1. HasField(Field(val, tens, flags), val, tens, flags)
        BY FieldBits
      <3> QED
        BY ONLY <3>1, Zenon DEF HasField
    <2>2. 2 \in 2 .. 3 /\ 3 \in 2 .. 3 /\ 8 - 2 = 6 /\ 8 - 3 = 5
      OBVIOUS
    <2> QED
      BY <1>1, <1>2, <1>3, <1>4a, <2>1, <2>2, Zenon
  <1>5. g = (((fa \o fb) \o fc) \o fd) \o SyncWord
    BY DEF GetLtcBits, fl
  <1> HIDE DEF fa, fb, fc, fd, g
  <1> DEFINE ab == fa \o fb
             abc == ab \o fc
             abcd == abc \o fd
  <1>6. /\ ab \in Seq(Bit) /\ Len(ab) = 16 + 16
        /\ \A i \in 1 .. 16 : ab[i] = fa[i]
        /\ \A i \in 1 .. 16 : ab[16 + i] = fb[i]
    <2>1. fa \in Seq(Bit) /\ fb \in Seq(Bit)
      BY <1>4
    <2>2. Len(fa) = 16 /\ Len(fb) = 16
      BY <1>4
    <2>3. /\ ab \in Seq(Bit) /\ Len(ab) = Len(fa) + Len(fb)
          /\ \A i \in 1 .. Len(fa) : ab[i] = fa[i]
          /\ \A i \in 1 .. Len(fb) : ab[Len(fa) + i] = fb[i]
      BY ONLY <2>1, JoinIndex
    <2> QED
      BY ONLY <2>2, <2>3, Zenon
  <1> HIDE DEF ab
  <1>7. /\ abc \in Seq(Bit) /\ Len(abc) = 32 + 16
        /\ \A i \in 1 .. 32 : abc[i] = ab[i]
        /\ \A i \in 1 .. 16 : abc[32 + i] = fc[i]
    <2>1. ab \in Seq(Bit) /\ fc \in Seq(Bit)
      BY <1>4, <1>6
    <2>2. Len(ab) = 32 /\ Len(fc) = 16
      BY <1>4, <1>6
    <2>3. /\ abc \in Seq(Bit) /\ Len(abc) = Len(ab) + Len(fc)
          /\ \A i \in 1 .. Len(ab) : abc[i] = ab[i]
          /\ \A i \in 1 .. Len(fc) : abc[Len(ab) + i] = fc[i]
      BY ONLY <2>1, JoinIndex
    <2> QED
      BY ONLY <2>2, <2>3, Zenon
  <1> HIDE DEF abc
  <1>8. /\ abcd \in Seq(Bit) /\ Len(abcd) = 48 + 16
        /\ \A i \in 1 .. 48 : abcd[i] = abc[i]
        /\ \A i \in 1 .. 16 : abcd[48 + i] = fd[i]
    <2>1. abc \in Seq(Bit) /\ fd \in Seq(Bit)
      BY <1>4, <1>7
    <2>2. Len(abc) = 48 /\ Len(fd) = 16
      BY <1>4, <1>7
    <2>3. /\ abcd \in Seq(Bit) /\ Len(abcd) = Len(abc) + Len(fd)
          /\ \A i \in 1 .. Len(abc) : abcd[i] = abc[i]
          /\ \A i \in 1 .. Len(fd) : abcd[Len(abc) + i] = fd[i]
      BY ONLY <2>1, JoinIndex
    <2> QED
      BY ONLY <2>2, <2>3, Zenon
  <1> HIDE DEF abcd
  <1>a. g = abcd \o SyncWord
    BY <1>5 DEF abcd, abc, ab
  <1>9. /\ g \in Seq(Bit) /\ Len(g) = 64 + 16
        /\ \A i \in 1 .. 64 : g[i] = abcd[i]
        /\ \A i \in 1 .. 16 : g[64 + i] = SyncWord[i]
    <2>1. abcd \in Seq(Bit) /\ SyncWord \in Seq(Bit)
      BY <1>8, SyncBits
    <2>2. Len(abcd) = 64 /\ Len(SyncWord) = 16
      BY <1>8, SyncBits
    <2>3. /\ g \in Seq(Bit) /\ Len(g) = Len(abcd) + Len(SyncWord)
          /\ \A i \in 1 .. Len(abcd) : g[i] = abcd[i]
          /\ \A i \in 1 .. Len(SyncWord) : g[Len(abcd) + i] = SyncWord[i]
      BY ONLY <2>1, <1>a, JoinIndex
    <2> QED
      BY ONLY <2>2, <2>3, Zenon
  <1>10. IsCopied(g, 0, fa) /\ IsCopied(g, 16, fb) /\ IsCopied(g, 32, fc) /\ IsCopied(g, 48, fd)
    <2> SUFFICES ASSUME NEW i \in 1 .. 16
                 PROVE  /\ g[0 + i] = fa[i] /\ g[16 + i] = fb[i]
                        /\ g[32 + i] = fc[i] /\ g[48 + i] = fd[i]
      BY Zenon DEF IsCopied
    <2>1. /\ 0 + i = i /\ i \in 1 .. 64 /\ i \in 1 .. 48 /\ i \in 1 .. 32
          /\ 16 + i \in 1 .. 64 /\ 16 + i \in 1 .. 48 /\ 16 + i \in 1 .. 32
          /\ 32 + i \in 1 .. 64 /\ 32 + i \in 1 .. 48
          /\ 48 + i \in 1 .. 64
      OBVIOUS
    <2>2. /\ g[0 + i] = abcd[i] /\ g[16 + i] = abcd[16 + i]
          /\ g[32 + i] = abcd[32 + i] /\ g[48 + i] = abcd[48 + i]
      BY <1>9, <2>1, Zenon
    <2>3. /\ abcd[i] = abc[i] /\ abcd[16 + i] = abc[16 + i]
          /\ abcd[32 + i] = abc[32 + i] /\ abcd[48 + i] = fd[i]
      BY <1>8, <2>1, Zenon
    <2>4. abc[i] = ab[i] /\ abc[16 + i] = ab[16 + i] /\ abc[32 + i] = fc[i]
      BY <1>7, <2>1, Zenon
    <2>5. ab[i] = fa[i] /\ ab[16 + i] = fb[i]
      BY <1>6, Zenon
    <2> QED
      BY ONLY <2>2, <2>3, <2>4, <2>5, Zenon
  <1>b. 0 \in Nat /\ 16 \in Nat /\ 32 \in Nat /\ 48 \in Nat /\ 2 \in 2 .. 3 /\ 3 \in 2 .. 3
    OBVIOUS
  <1>11. /\ IsWritten(g, 0, t.frames % 10, 4) /\ IsWritten(g, 8, t.frames \div 10, 2)
         /\ \A i \in 5 .. 8 : g[0 + i] = 0
         /\ \A i \in 1 .. 6 : g[0 + 8 + 2 + i] = fl[i]
    <2>1. IsField(g, 0, t.frames, 2, fl)
      BY ONLY <1>1, <1>4a, <1>10, <1>b, FieldOfFrame DEF fa
    <2>2. 0 + 8 = 8 /\ 8 - 2 = 6
      OBVIOUS
    <2> QED
      BY ONLY <2>1, <2>2, Zenon DEF IsField
  <1>12. /\ IsWritten(g, 16, t.seconds % 10, 4) /\ IsWritten(g, 24, t.seconds \div 10, 3)
         /\ \A i \in 5 .. 8 : g[16 + i] = 0
         /\ \A i \in 1 .. 5 : g[16 + 8 + 3 + i] = 0
    <2>1. IsField(g, 16, t.seconds, 3, Zeros(5))
      BY ONLY <1>1, <1>4a, <1>10, <1>b, FieldOfFrame DEF fb
    <2>2. 16 + 8 = 24 /\ 8 - 3 = 5
      OBVIOUS
    <2>3. \A i \in 1 .. 5 : Zeros(5)[i] = 0
      BY <1>3
    <2> QED
      BY ONLY <2>1, <2>2, <2>3, Zenon DEF IsField
  <1>13. /\ IsWritten(g, 32, t.minutes % 10, 4) /\ IsWritten(g, 40, t.minutes \div 10, 3)
         /\ \A i \in 5 .. 8 : g[32 + i] = 0
         /\ \A i \in 1 .. 5 : g[32 + 8 + 3 + i] = 0
    <2>1. IsField(g, 32, t.minutes, 3, Zeros(5))
      BY ONLY <1>1, <1>4a, <1>10, <1>b, FieldOfFrame DEF fc
    <2>2. 32 + 8 = 40 /\ 8 - 3 = 5
      OBVIOUS
    <2>3. \A i \in 1 .. 5 : Zeros(5)[i] = 0
      BY <1>3
    <2> QED
      BY ONLY SMT, <2>1, <2>2, <2>3 DEF IsField
  <1>14. /\ IsWritten(g, 48, t.hours % 10, 4) /\ IsWritten(g, 56, t.hours \div 10, 2)
         /\ \A i \in 5 .. 8 : g[48 + i] = 0
         /\ \A i \in 1 .. 6 : g[48 + 8 + 2 + i] = 0
    <2>1. IsField(g, 48, t.hours, 2, Zeros(6))
      BY ONLY <1>1, <1>4a, <1>10, <1>b, FieldOfFrame DEF fd
    <2>2. 48 + 8 = 56 /\ 8 - 2 = 6
      OBVIOUS
    <2>3. \A i \in 1 .. 6 : Zeros(6)[i] = 0
      BY <1>3
    <2>4. /\ IsWritten(g, 48, t.hours % 10, 4) /\ IsWritten(g, 48 + 8, t.hours \div 10, 2)
          /\ \A i \in 5 .. 8 : g[48 + i] = 0
          /\ \A i \in 1 .. 8 - 2 : g[48 + 8 + 2 + i] = Zeros(6)[i]
      BY ONLY <2>1, Zenon DEF IsField
    <2>5. \A i \in 1 .. 6 : g[48 + 8 + 2 + i] = 0
      BY ONLY <2>3, <2>4
    <2>6. IsWritten(g, 56, t.hours \div 10, 2)
      BY ONLY <2>2, <2>4
    <2> QED
      BY ONLY <2>4, <2>5, <2>6
  <1>15. \A i \in Clear : g[i] = 0
    <2> SUFFICES ASSUME NEW i \in Clear PROVE g[i] = 0
      OBVIOUS
    <2>1. CASE i \in 5 .. 8
      BY <1>11, <2>1
    <2>2. CASE i \in 12 .. 16
      <3>1. i - 10 \in 1 .. 6 /\ i - 10 \in 2 .. 6 /\ i = 0 + 8 + 2 + (i - 10)
        BY <2>2
      <3> QED
        BY <1>2, <1>11, <3>1
    <2>3. CASE i \in 21 .. 24
      <3>1. i - 16 \in 5 .. 8 /\ i = 16 + (i - 16)
        BY <2>3
      <3> QED
        BY <1>12, <3>1
    <2>4. CASE i \in 28 .. 32
      <3>1. i - 27 \in 1 .. 5 /\ i = 16 + 8 + 3 + (i - 27)
        BY <2>4
      <3> QED
        BY <1>12, <3>1
    <2>5. CASE i \in 37 .. 40
      <3>1. i - 32 \in 5 .. 8 /\ i = 32 + (i - 32)
        BY <2>5
      <3> QED
        BY <1>13, <3>1
    <2>6. CASE i \in 44 .. 48
      <3>1. i - 43 \in 1 .. 5 /\ i = 32 + 8 + 3 + (i - 43)
        BY <2>6
      <3> QED
        BY <1>13, <3>1
    <2>7. CASE i \in 53 .. 56
      <3>1. i - 48 \in 5 .. 8 /\ i = 48 + (i - 48)
        BY <2>7
      <3> QED
        BY <1>14, <3>1
    <2>8. CASE i \in 59 .. 64
      <3>1. i - 58 \in 1 .. 6 /\ i = 48 + 8 + 2 + (i - 58)
        BY <2>8
      <3> QED
        BY <1>14, <3>1
    <2> QED
      BY <2>1, <2>2, <2>3, <2>4, <2>5, <2>6, <2>7, <2>8 DEF Clear
  <1> QED
    BY <1>9, <1>11, <1>12, <1>13, <1>14, <1>15 DEF g

\* A set of numbers has a least one.
LEMMA LeastNumber ==
    ASSUME NEW T, T \subseteq Nat, T # {}
    PROVE  \E n \in T : \A m \in T : n <= m
  <1> DEFINE less == {p \in Nat \X Nat : p[1] < p[2]}
  <1>1. IsWellFoundedOn(less, Nat)
      BY NatLessThanWellFounded DEF OpToRel
  <1>2. PICK n \in T : \A m \in T : ~(<<m, n>> \in less)
      BY <1>1, WFMin
  <1>3. ASSUME NEW m \in T PROVE n <= m
    <2>1. m \in Nat /\ n \in Nat
        OBVIOUS
    <2>2. m < n => <<m, n>> \in less
        BY <2>1
    <2> QED
        BY <1>2, <2>1, <2>2
  <1> QED
      BY <1>3

\* A set that has 0, and with a number the next one, has all up to n.
LEMMA Counting ==
    ASSUME NEW n \in Nat, NEW S, 0 \in S, \A k \in 1 .. n : k - 1 \in S => k \in S
    PROVE  0 .. n \subseteq S
  <1> SUFFICES ASSUME (0 .. n) \ S # {} PROVE FALSE
      OBVIOUS
  <1>1. PICK k \in (0 .. n) \ S : \A m \in (0 .. n) \ S : k <= m
    <2>1. (0 .. n) \ S \subseteq Nat
        OBVIOUS
    <2> QED
        BY <2>1, LeastNumber
  <1>2. k # 0 /\ k - 1 \in 0 .. n /\ ~(k <= k - 1)
      BY <1>1
  <1>3. k - 1 \in S
      BY <1>1, <1>2
  <1> QED
      BY <1>1, <1>2, <1>3

\* The timecodes from a start on.
AreSent(f, start, n) ==
    f = [k \in 1 .. n |-> IF k = 1 THEN start ELSE Increment(f[k - 1], DropFrame)]

\* The loop over the frames sent has a value: the frame k is made from the
\* frame k - 1 alone.
LEMMA SentExists ==
    ASSUME NEW start, NEW n \in Nat
    PROVE  \E f : AreSent(f, start, n)
  <1> DEFINE S == {k \in 0 .. n : \E f : AreSent(f, start, k)}
  <1>1. 0 \in S
    <2>1. AreSent([k \in 1 .. 0 |-> start], start, 0)
      BY DEF AreSent
    <2> QED
      BY <2>1
  <1>2. ASSUME NEW k \in 1 .. n, k - 1 \in S PROVE k \in S
    <2>1. PICK f : AreSent(f, start, k - 1)
      BY <1>2
    <2> DEFINE g == [j \in 1 .. k |->
                       IF j = k
                       THEN IF k = 1 THEN start ELSE Increment(f[k - 1], DropFrame)
                       ELSE f[j]]
    <2>2. \A j \in 1 .. k : j # k => j \in 1 .. k - 1 /\ g[j] = f[j]
      OBVIOUS
    <2>3. \A j \in 1 .. k : j # 1 => j - 1 \in 1 .. k - 1 /\ g[j - 1] = f[j - 1]
      OBVIOUS
    <2>4. \A j \in 1 .. k - 1 : f[j] = IF j = 1 THEN start ELSE Increment(f[j - 1], DropFrame)
      BY <2>1 DEF AreSent
    <2>5. \A j \in 1 .. k : g[j] = IF j = 1 THEN start ELSE Increment(g[j - 1], DropFrame)
      BY <2>2, <2>3, <2>4
    <2>6. AreSent(g, start, k)
      BY <2>5 DEF AreSent
    <2> QED
      BY <2>6
  <1>3. 0 .. n \subseteq S
    BY <1>1, <1>2, Counting
  <1> QED
    BY <1>3

\* The timecode after a valid one is valid, drop-frame or not.
LEMMA IncrementIsValid ==
    ASSUME NEW t \in Timecodes, Valid(t)
    PROVE  Increment(t, DropFrame) \in Timecodes /\ Valid(Increment(t, DropFrame))
  <1> DEFINE next == NextMinute(t)
             first == IF Drops(next, DropFrame) THEN Dropped ELSE 0
  <1>1. next \in Timecodes /\ Valid(next)
    BY TimecodeAssumption DEF NextMinute, At, Timecodes, Valid
  <1>2. first \in Nat /\ first < MaxFrames
    BY TimecodeAssumption
  <1> HIDE DEF next, first
  <1>3. /\ At(next.hours, next.minutes, 0, first) \in Timecodes
        /\ Valid(At(next.hours, next.minutes, 0, first))
    BY <1>1, <1>2, TimecodeAssumption DEF At, Timecodes, Valid
  <1>4. Increment(t, DropFrame) =
          IF t.frames + 1 < MaxFrames
          THEN At(t.hours, t.minutes, t.seconds, t.frames + 1)
          ELSE IF t.seconds + 1 < Seconds
          THEN At(t.hours, t.minutes, t.seconds + 1, 0)
          ELSE At(next.hours, next.minutes, 0, first)
    BY DEF Increment, next, first
  <1> QED
    BY <1>3, <1>4, TimecodeAssumption DEF At, Timecodes, Valid

\* What is sent are valid timecodes that follow each other.
LEMMA SentFacts ==
    ASSUME NEW start \in Starts
    PROVE  /\ \A k \in 1 .. Frames : Sent[start][k] \in Timecodes /\ Valid(Sent[start][k])
           /\ \A k \in 2 .. Frames : Sent[start][k] = Increment(Sent[start][k - 1], DropFrame)
  <1> DEFINE f == CHOOSE g : AreSent(g, start, Frames)
             S == {k \in 0 .. Frames : k # 0 => f[k] \in Timecodes /\ Valid(f[k])}
  <1>0. Frames \in Nat /\ start \in Timecodes /\ Valid(start)
    BY FramesAssumption DEF Exists
  <1>1. AreSent(f, start, Frames)
    BY <1>0, SentExists
  <1>2. Sent[start] = [k \in 1 .. Frames |-> f[k]]
    BY DEF Sent, AreSent
  <1> HIDE DEF f
  <1>3. \A k \in 1 .. Frames : f[k] = IF k = 1 THEN start ELSE Increment(f[k - 1], DropFrame)
    BY <1>1 DEF AreSent
  <1>4. \A k \in 1 .. Frames : Sent[start][k] = f[k]
    BY <1>2
  <1>5. 0 \in S
    BY <1>0
  <1>6. ASSUME NEW k \in 1 .. Frames, k - 1 \in S PROVE k \in S
    <2>1. CASE k = 1
      BY <1>0, <1>3, <2>1
    <2>2. CASE k # 1
      <3>1. k - 1 # 0 /\ k \in 0 .. Frames
        BY <1>0, <2>2
      <3>2. f[k - 1] \in Timecodes /\ Valid(f[k - 1]) /\ f[k] = Increment(f[k - 1], DropFrame)
        BY <1>3, <1>6, <2>2, <3>1
      <3> QED
        BY <3>1, <3>2, IncrementIsValid
    <2> QED
      BY <2>1, <2>2
  <1>7. 0 .. Frames \subseteq S
    BY <1>0, <1>5, <1>6, Counting
  <1>8. \A k \in 1 .. Frames : k \in 0 .. Frames /\ k # 0
    BY <1>0
  <1>9. \A k \in 2 .. Frames : k \in 1 .. Frames /\ k - 1 \in 1 .. Frames /\ k # 1
    BY <1>0
  <1> QED
    BY <1>3, <1>4, <1>7, <1>8, <1>9

\* The number of the first interval of each bit of a word, and of what follows it.
ArePlaces(I, T, n) ==
    I = [q \in 1 .. n + 1 |-> IF q = 1 THEN 1 ELSE I[q - 1] + IF T[q - 1] = 1 THEN 2 ELSE 1]

\* Of the word T with n bits.
Places(T, n) == CHOOSE I : ArePlaces(I, T, n)

\* The places of the bits have a value.
LEMMA PlacesExist ==
    ASSUME NEW T, NEW n \in Nat
    PROVE  \E f : ArePlaces(f, T, n)
  <1> DEFINE S == {k \in 0 .. n : \E f : ArePlaces(f, T, k)}
  <1>1. 0 \in S
    <2>1. ArePlaces([q \in 1 .. 0 + 1 |-> 1], T, 0)
      BY DEF ArePlaces
    <2> QED
      BY <2>1
  <1>2. ASSUME NEW k \in 1 .. n, k - 1 \in S PROVE k \in S
    <2>1. PICK f : ArePlaces(f, T, k - 1)
      BY <1>2
    <2> DEFINE g == [j \in 1 .. k + 1 |->
                       IF j = k + 1 THEN f[k] + IF T[k] = 1 THEN 2 ELSE 1 ELSE f[j]]
    <2>2. \A j \in 1 .. k + 1 : j # k + 1 => j \in 1 .. k - 1 + 1 /\ g[j] = f[j]
      OBVIOUS
    <2>3. \A j \in 1 .. k + 1 : j # 1 => j - 1 \in 1 .. k - 1 + 1 /\ g[j - 1] = f[j - 1]
      OBVIOUS
    <2>4. \A j \in 1 .. k - 1 + 1 :
            f[j] = IF j = 1 THEN 1 ELSE f[j - 1] + IF T[j - 1] = 1 THEN 2 ELSE 1
      BY <2>1 DEF ArePlaces
    <2>5. \A j \in 1 .. k + 1 :
            g[j] = IF j = 1 THEN 1 ELSE g[j - 1] + IF T[j - 1] = 1 THEN 2 ELSE 1
      BY <2>2, <2>3, <2>4
    <2>6. ArePlaces(g, T, k)
      BY <2>5 DEF ArePlaces
    <2> QED
      BY <2>6
  <1>3. 0 .. n \subseteq S
    BY <1>1, <1>2, Counting
  <1> QED
    BY <1>3

\* A one takes two intervals and a zero takes one, so places grow with the bit.
LEMMA PlacesGrow ==
    ASSUME NEW T, NEW n \in Nat
    PROVE  LET I == Places(T, n)
           IN  /\ I \in [1 .. n + 1 -> Nat] /\ I[1] = 1
               /\ \A q \in 1 .. n : I[q + 1] = IF T[q] = 1 THEN I[q] + 2 ELSE I[q] + 1
               /\ \A q \in 1 .. n + 1 : I[q] >= q
               /\ \A q, r \in 1 .. n + 1 : q < r => I[q] < I[r]
  <1> DEFINE I == Places(T, n)
             S == {q \in 0 .. n : I[q + 1] \in Nat /\ I[q + 1] >= q + 1}
  <1>1. I = [q \in 1 .. n + 1 |-> IF q = 1 THEN 1 ELSE I[q - 1] + IF T[q - 1] = 1 THEN 2 ELSE 1]
    BY PlacesExist DEF Places, ArePlaces
  <1> HIDE DEF I
  <1>2. \A q \in 1 .. n + 1 :
          I[q] = IF q = 1 THEN 1 ELSE I[q - 1] + IF T[q - 1] = 1 THEN 2 ELSE 1
    BY <1>1
  <1>3. \A q \in 1 .. n : /\ q + 1 \in 1 .. n + 1 /\ q + 1 # 1 /\ (q + 1) - 1 = q
                          /\ q \in 1 .. n + 1
    OBVIOUS
  <1>4. I[1] = 1
    BY <1>2
  <1>5. \A q \in 1 .. n : I[q + 1] = I[q] + IF T[q] = 1 THEN 2 ELSE 1
    BY <1>2, <1>3
  <1>6. 0 \in S
    BY <1>4
  <1>7. ASSUME NEW k \in 1 .. n, k - 1 \in S PROVE k \in S
    BY <1>5, <1>7
  <1>8. 0 .. n \subseteq S
    BY <1>6, <1>7, Counting
  <1>9. \A q \in 1 .. n + 1 : I[q] \in Nat /\ I[q] >= q
    <2>1. \A q \in 1 .. n + 1 : q - 1 \in 0 .. n /\ q = (q - 1) + 1
      OBVIOUS
    <2> QED
      BY <1>8, <2>1
  <1>10. I \in [1 .. n + 1 -> Nat]
    <2>1. DOMAIN I = 1 .. n + 1 /\ I = [q \in 1 .. n + 1 |-> I[q]]
      BY <1>1
    <2> QED
      BY <1>9, <2>1
  <1>11. \A q \in 1 .. n : I[q + 1] = IF T[q] = 1 THEN I[q] + 2 ELSE I[q] + 1
    BY <1>5, <1>9, <1>3
  <1>12. ASSUME NEW q \in 1 .. n + 1, NEW r \in 1 .. n + 1, q < r PROVE I[q] < I[r]
    <2> DEFINE D == {d \in 0 .. n + 1 - q : d # 0 => I[q] < I[q + d]}
    <2>1. 0 \in D
      OBVIOUS
    <2>2. ASSUME NEW d \in 1 .. n + 1 - q, d - 1 \in D PROVE d \in D
      <3>1. q + (d - 1) \in 1 .. n /\ (q + (d - 1)) + 1 = q + d /\ q + d \in 1 .. n + 1
        OBVIOUS
      <3>2. I[q + (d - 1)] < I[q + d]
        <4>1. I[q + d] = I[q + (d - 1)] + IF T[q + (d - 1)] = 1 THEN 2 ELSE 1
          BY <1>5, <3>1
        <4>2. I[q + (d - 1)] \in Nat
          BY <1>9, <3>1, <1>3
        <4> QED
          BY <4>1, <4>2
      <3>3. d - 1 = 0 \/ I[q] < I[q + (d - 1)]
        BY <2>2
      <3>4. I[q] \in Nat /\ I[q + d] \in Nat /\ I[q + (d - 1)] \in Nat
        BY <1>9, <3>1, <1>3
      <3>5. I[q] < I[q + d]
        <4>1. CASE d - 1 = 0
          <5>1. q + (d - 1) = q
            BY <4>1
          <5> QED
            BY <3>2, <5>1
        <4>2. CASE d - 1 # 0
          BY <3>2, <3>3, <3>4, <4>2
        <4> QED
          BY <4>1, <4>2
      <3> QED
        BY <3>5
    <2>3. 0 .. n + 1 - q \subseteq D
      <3>1. n + 1 - q \in Nat
        OBVIOUS
      <3> HIDE DEF D
      <3> QED
        BY <2>1, <2>2, <3>1, Counting
    <2>4. r - q \in 0 .. n + 1 - q /\ r - q # 0 /\ q + (r - q) = r
      BY <1>12
    <2>5. r - q \in D
      BY <2>3, <2>4
    <2> QED
      BY <2>4, <2>5
  <1> QED
    BY <1>4, <1>9, <1>10, <1>11, <1>12 DEF I

\* Each interval belongs to a bit.
LEMMA PlaceOf ==
    ASSUME NEW T, NEW n \in Nat, NEW j \in 1 .. Places(T, n)[n + 1] - 1
    PROVE  \E q \in 1 .. n : /\ Places(T, n)[q] <= j /\ j < Places(T, n)[q + 1]
                             /\ j = Places(T, n)[q] \/ (T[q] = 1 /\ j = Places(T, n)[q] + 1)
  <1> DEFINE I == Places(T, n)
             R == {q \in 1 .. n + 1 : I[q] > j}
  <1>1. /\ I \in [1 .. n + 1 -> Nat] /\ I[1] = 1
        /\ \A q \in 1 .. n : I[q + 1] = IF T[q] = 1 THEN I[q] + 2 ELSE I[q] + 1
    BY PlacesGrow
  <1> HIDE DEF I
  <1>2. n + 1 \in R /\ R \subseteq Nat
    <2>1. j \in Nat /\ j <= I[n + 1] - 1 /\ I[n + 1] \in Nat
      BY <1>1 DEF I
    <2> QED
      BY <2>1
  <1>3. PICK r \in R : \A m \in R : r <= m
    BY <1>2, LeastNumber
  <1>4. r # 1
    BY <1>1, <1>3
  <1>5. r - 1 \in 1 .. n /\ (r - 1) + 1 = r /\ r - 1 \notin R
    BY <1>3, <1>4
  <1>6. I[r - 1] <= j /\ j < I[r]
    <2>1. I[r - 1] \in Nat /\ r - 1 \in 1 .. n + 1
      BY <1>1, <1>5
    <2> QED
      BY <1>3, <1>5, <2>1
  <1>7. I[r] = IF T[r - 1] = 1 THEN I[r - 1] + 2 ELSE I[r - 1] + 1
    BY <1>1, <1>5
  <1>8. j = I[r - 1] \/ (T[r - 1] = 1 /\ j = I[r - 1] + 1)
    <2>1. I[r - 1] \in Nat /\ I[r] \in Nat
      BY <1>1, <1>3, <1>5
    <2> QED
      BY <1>6, <1>7, <2>1
  <1> QED
    BY <1>5, <1>6, <1>8 DEF I

\* The loop of FlattenSeq up to the sequence number n.
IsFlattening(f, seqs, n) ==
    f = [i \in 1 .. n |-> IF i = 1 THEN seqs[i] ELSE f[i - 1] \o seqs[i]]

\* The loop of FlattenSeq has a value.
LEMMA FlatteningExists ==
    ASSUME NEW seqs, NEW n \in Nat
    PROVE  \E f : IsFlattening(f, seqs, n)
<1> DEFINE S == {k \in 0 .. n : \E f : IsFlattening(f, seqs, k)}
<1>1. 0 \in S
  <2>1. IsFlattening([i \in 1 .. 0 |-> <<>>], seqs, 0)
    BY DEF IsFlattening
  <2> QED
    BY <2>1
<1>2. ASSUME NEW k \in 1 .. n, k - 1 \in S PROVE k \in S
  <2>1. PICK f : IsFlattening(f, seqs, k - 1)
    BY <1>2
  <2> DEFINE g == [i \in 1 .. k |->
                      IF i = k THEN IF k = 1 THEN seqs[k] ELSE f[k - 1] \o seqs[k]
                      ELSE f[i]]
  <2>2. \A i \in 1 .. k : i # k => i \in 1 .. k - 1 /\ g[i] = f[i]
    OBVIOUS
  <2>3. \A i \in 1 .. k : i # 1 => i - 1 \in 1 .. k - 1 /\ g[i - 1] = f[i - 1]
    OBVIOUS
  <2>4. \A i \in 1 .. k - 1 : f[i] = IF i = 1 THEN seqs[i] ELSE f[i - 1] \o seqs[i]
    BY <2>1 DEF IsFlattening
  <2>5. \A i \in 1 .. k : g[i] = IF i = 1 THEN seqs[i] ELSE g[i - 1] \o seqs[i]
    BY <2>2, <2>3, <2>4
  <2>6. IsFlattening(g, seqs, k)
    BY <2>5 DEF IsFlattening
  <2> QED
    BY <2>6
<1>3. 0 .. n \subseteq S
  BY <1>1, <1>2, Counting
<1> QED
  BY <1>3

\* FlattenSeq joins one sequence after the other.
LEMMA FlattenLoop ==
    ASSUME NEW seqs, NEW n \in Nat \ {0}, Len(seqs) = n
    PROVE  \E f : /\ FlattenSeq(seqs) = f[n]
                  /\ \A i \in 1 .. n : f[i] = IF i = 1 THEN seqs[i] ELSE f[i - 1] \o seqs[i]
  <1> DEFINE f == CHOOSE g : IsFlattening(g, seqs, n)
  <1>1. IsFlattening(f, seqs, n)
    BY FlatteningExists
  <1>2. FlattenSeq(seqs) = f[n]
    BY DEF FlattenSeq, IsFlattening
  <1> HIDE DEF f
  <1>3. \A i \in 1 .. n : f[i] = IF i = 1 THEN seqs[i] ELSE f[i - 1] \o seqs[i]
    BY <1>1 DEF IsFlattening
  <1> QED
    BY <1>2, <1>3

\* How long an interval is, in quarters of a bit.
Mark == {2, 4}

\* The intervals of the first n bits of T, which begin at the places I.
Timed(z, T, n, I) ==
    /\ z \in Seq(Mark) /\ Len(z) = I[n + 1] - 1
    /\ \A q \in 1 .. n : IF T[q] = 1 THEN z[I[q]] = 2 /\ z[I[q] + 1] = 2 ELSE z[I[q]] = 4

\* The m bits of w are those of T after the first n.
IsPart(w, T, n, m) == \A i \in 1 .. m : w[i] = T[n + i]

\* The places in a part of a word.
LEMMA PlacesOfPart ==
    ASSUME NEW T, NEW N \in Nat, NEW w, NEW m \in Nat, NEW n \in Nat, n + m <= N,
           IsPart(w, T, n, m)
    PROVE  \A i \in 1 .. m + 1 : Places(T, N)[n + i] = Places(T, N)[n + 1] - 1 + Places(w, m)[i]
  <1> DEFINE I == Places(T, N)
             J == Places(w, m)
             S == {i \in 0 .. m : I[n + (i + 1)] = I[n + 1] - 1 + J[i + 1]}
  <1>1. /\ I \in [1 .. N + 1 -> Nat] /\ I[1] = 1
        /\ \A q \in 1 .. N : I[q + 1] = IF T[q] = 1 THEN I[q] + 2 ELSE I[q] + 1
    BY PlacesGrow
  <1>2. /\ J \in [1 .. m + 1 -> Nat] /\ J[1] = 1
        /\ \A q \in 1 .. m : J[q + 1] = IF w[q] = 1 THEN J[q] + 2 ELSE J[q] + 1
    BY PlacesGrow
  <1> HIDE DEF I, J
  <1>3. 0 \in S
    <2>1. I[n + 1] \in Nat
      BY <1>1
    <2> QED
      BY <1>2, <2>1
  <1>4. ASSUME NEW k \in 1 .. m, k - 1 \in S PROVE k \in S
    <2>1. I[n + k] = I[n + 1] - 1 + J[k]
      <3>1. (k - 1) + 1 = k
        OBVIOUS
      <3> QED
        BY <1>4, <3>1
    <2>2. /\ n + k \in 1 .. N /\ (n + k) + 1 = n + (k + 1) /\ n + k \in 1 .. N + 1
          /\ n + 1 \in 1 .. N + 1 /\ k \in 1 .. m + 1
      OBVIOUS
    <2>3. I[n + (k + 1)] = IF T[n + k] = 1 THEN I[n + k] + 2 ELSE I[n + k] + 1
      BY <1>1, <2>2
    <2>4. J[k + 1] = IF w[k] = 1 THEN J[k] + 2 ELSE J[k] + 1
      BY <1>2
    <2>6. w[k] = T[n + k]
      BY DEF IsPart
    <2>5. I[n + k] \in Nat /\ I[n + 1] \in Nat /\ J[k] \in Nat
      BY <1>1, <1>2, <2>2
    <2> QED
      BY <2>1, <2>3, <2>4, <2>5, <2>6
  <1>5. 0 .. m \subseteq S
    <2> HIDE DEF S
    <2> QED
      BY <1>3, <1>4, Counting
  <1>6. \A i \in 1 .. m + 1 : i - 1 \in 0 .. m /\ (i - 1) + 1 = i
    OBVIOUS
  <1> QED
    BY <1>5, <1>6 DEF I, J

\* Two signals, of the first bits of a word and of the next ones, make the
\* signal of both.
LEMMA TimedJoin ==
    ASSUME NEW T, NEW N \in Nat, NEW n \in Nat, NEW m \in Nat, n + m <= N,
           NEW w, IsPart(w, T, n, m),
           NEW a, NEW b, Timed(a, T, n, Places(T, N)), Timed(b, w, m, Places(w, m))
    PROVE  Timed(a \o b, T, n + m, Places(T, N))
  <1> DEFINE I == Places(T, N)
             J == Places(w, m)
             z == a \o b
  <1>1. /\ I \in [1 .. N + 1 -> Nat] /\ I[1] = 1
        /\ \A q \in 1 .. N : I[q + 1] = IF T[q] = 1 THEN I[q] + 2 ELSE I[q] + 1
        /\ \A q, r \in 1 .. N + 1 : q < r => I[q] < I[r]
        /\ \A q \in 1 .. N + 1 : I[q] >= q
    BY PlacesGrow
  <1>2. /\ J \in [1 .. m + 1 -> Nat] /\ J[1] = 1
        /\ \A q \in 1 .. m : J[q + 1] = IF w[q] = 1 THEN J[q] + 2 ELSE J[q] + 1
        /\ \A q, r \in 1 .. m + 1 : q < r => J[q] < J[r]
        /\ \A q \in 1 .. m + 1 : J[q] >= q
    BY PlacesGrow
  <1>3. \A i \in 1 .. m + 1 : I[n + i] = I[n + 1] - 1 + J[i]
    BY PlacesOfPart
  <1>4. /\ a \in Seq(Mark) /\ Len(a) = I[n + 1] - 1
        /\ \A q \in 1 .. n : IF T[q] = 1 THEN a[I[q]] = 2 /\ a[I[q] + 1] = 2 ELSE a[I[q]] = 4
    BY DEF Timed
  <1>5. /\ b \in Seq(Mark) /\ Len(b) = J[m + 1] - 1
        /\ \A q \in 1 .. m : IF w[q] = 1 THEN b[J[q]] = 2 /\ b[J[q] + 1] = 2 ELSE b[J[q]] = 4
    BY DEF Timed
  <1> HIDE DEF I, J
  <1>6. /\ z \in Seq(Mark) /\ Len(z) = Len(a) + Len(b)
        /\ \A i \in 1 .. Len(a) : z[i] = a[i]
        /\ \A i \in 1 .. Len(b) : z[Len(a) + i] = b[i]
    <2>1. a \in Seq(Mark) /\ b \in Seq(Mark)
      BY <1>4, <1>5
    <2> QED
      BY ONLY <2>1, JoinIndex
  <1> HIDE DEF z
  <1>7. n + 1 \in 1 .. N + 1 /\ I[n + 1] \in Nat /\ m + 1 \in 1 .. m + 1
    BY <1>1
  <1>a. /\ Len(a) = I[n + 1] - 1 /\ Len(b) = J[m + 1] - 1 /\ Len(z) = Len(a) + Len(b)
        /\ Len(a) \in Nat /\ Len(b) \in Nat
    BY <1>4, <1>5, <1>6
  <1>b. \A i \in 1 .. Len(b) : z[Len(a) + i] = b[i]
    BY <1>6
  <1>8. Len(z) = I[n + m + 1] - 1
    <2>1. I[n + (m + 1)] = I[n + 1] - 1 + J[m + 1] /\ J[m + 1] \in Nat
      BY <1>2, <1>3, <1>7
    <2>2. n + (m + 1) = n + m + 1
      OBVIOUS
    <2>3. I[n + 1] \in Nat /\ J[m + 1] \in Nat /\ Len(a) \in Nat /\ Len(b) \in Nat
      BY <1>a, <1>7, <2>1
    <2>4. I[n + m + 1] = I[n + 1] - 1 + J[m + 1]
      BY <2>1, <2>2
    <2>5. Len(z) = Len(a) + Len(b) /\ Len(a) = I[n + 1] - 1 /\ Len(b) = J[m + 1] - 1
      BY <1>a
    <2> QED
      BY ONLY SMTT(30), <2>3, <2>4, <2>5
  <1>9. ASSUME NEW q \in 1 .. n
        PROVE  IF T[q] = 1 THEN z[I[q]] = 2 /\ z[I[q] + 1] = 2 ELSE z[I[q]] = 4
    <2>1. /\ q \in 1 .. N /\ q \in 1 .. N + 1 /\ q + 1 \in 1 .. N + 1
          /\ q + 1 < n + 1 \/ q + 1 = n + 1
      OBVIOUS
    <2>2. I[q] \in Nat /\ I[q] >= 1 /\ I[q + 1] <= I[n + 1] /\ I[q + 1] \in Nat
      BY SMTT(30), <1>1, <1>7, <2>1
    <2>3. I[q + 1] = IF T[q] = 1 THEN I[q] + 2 ELSE I[q] + 1
      BY <1>1, <2>1
    <2>4. I[q] \in 1 .. Len(a) /\ (T[q] = 1 => I[q] + 1 \in 1 .. Len(a))
      <3>1. /\ I[q] \in Nat /\ I[q + 1] \in Nat /\ I[n + 1] \in Nat /\ Len(a) \in Nat
            /\ I[q] >= 1 /\ I[q + 1] <= I[n + 1] /\ Len(a) = I[n + 1] - 1
        BY <1>a, <1>7, <2>2
      <3> QED
        BY ONLY <2>3, <3>1
    <2> QED
      BY <1>4, <1>6, <2>4
  <1>10. ASSUME NEW q \in 1 .. m
         PROVE  IF T[n + q] = 1 THEN z[I[n + q]] = 2 /\ z[I[n + q] + 1] = 2 ELSE z[I[n + q]] = 4
    <2>1. /\ q \in 1 .. m + 1 /\ q + 1 \in 1 .. m + 1
          /\ q + 1 < m + 1 \/ q + 1 = m + 1
      OBVIOUS
    <2>2. J[q] \in Nat /\ J[q] >= 1 /\ J[q + 1] <= J[m + 1] /\ J[q + 1] \in Nat /\ J[m + 1] \in Nat
      BY SMTT(30), <1>2, <1>7, <2>1
    <2>3. J[q + 1] = IF w[q] = 1 THEN J[q] + 2 ELSE J[q] + 1
      BY <1>2
    <2>4. J[q] \in 1 .. Len(b) /\ (w[q] = 1 => J[q] + 1 \in 1 .. Len(b))
      <3>1. /\ J[q] \in Nat /\ J[q + 1] \in Nat /\ J[m + 1] \in Nat /\ Len(b) \in Nat
            /\ J[q] >= 1 /\ J[q + 1] <= J[m + 1] /\ Len(b) = J[m + 1] - 1
        BY <1>a, <2>2
      <3> QED
        BY ONLY <2>3, <3>1
    <2>5. I[n + q] = Len(a) + J[q]
      BY <1>3, <1>4, <1>7, <2>1, <2>2
    <2>6. I[n + q] + 1 = Len(a) + (J[q] + 1)
      <3>1. Len(a) \in Nat
        BY <1>4
      <3> QED
        BY <2>2, <2>5, <3>1
    <2>7. z[I[n + q]] = b[J[q]] /\ (w[q] = 1 => z[I[n + q] + 1] = b[J[q] + 1])
      <3>1. z[Len(a) + J[q]] = b[J[q]]
        BY <1>b, <2>4, Zenon
      <3>2. w[q] = 1 => z[Len(a) + (J[q] + 1)] = b[J[q] + 1]
        BY <1>b, <2>4, Zenon
      <3> QED
        BY ONLY <2>5, <2>6, <3>1, <3>2, Zenon
    <2>8. w[q] = T[n + q]
      BY DEF IsPart
    <2> QED
      BY <1>5, <2>7, <2>8
  <1>11. ASSUME NEW q \in 1 .. n + m
         PROVE  IF T[q] = 1 THEN z[I[q]] = 2 /\ z[I[q] + 1] = 2 ELSE z[I[q]] = 4
    <2>1. CASE q <= n
      <3>1. q \in 1 .. n
        BY <2>1
      <3> QED
        BY <1>9, <3>1
    <2>2. CASE q > n
      <3>1. q - n \in 1 .. m /\ n + (q - n) = q
        BY <2>2
      <3> QED
        BY <1>10, <3>1
    <2> QED
      BY <2>1, <2>2
  <1> QED
    BY <1>6, <1>8, <1>11 DEF Timed, I, z

\* The part number k of a word, of the length m.
IsTimedPart(seq, T, n, m) == \E w : IsPart(w, T, n, m) /\ Timed(seq, w, m, Places(w, m))

\* Parts that are put together.
LEMMA TimedParts ==
    ASSUME NEW T, NEW N \in Nat, NEW seqs, NEW n \in Nat \ {0}, Len(seqs) = n, NEW m \in Nat,
           NEW P, P[0] = 0, \A k \in 0 .. n : P[k] \in 0 .. N,
           \A k \in 1 .. n : P[k] = P[k - 1] + m,
           \A k \in 1 .. n : IsTimedPart(seqs[k], T, P[k - 1], m)
    PROVE  Timed(FlattenSeq(seqs), T, P[n], Places(T, N))
  <1> DEFINE I == Places(T, N)
  <1>1. PICK f : /\ FlattenSeq(seqs) = f[n]
                 /\ \A i \in 1 .. n : f[i] = IF i = 1 THEN seqs[i] ELSE f[i - 1] \o seqs[i]
    <2>1. \E f : /\ FlattenSeq(seqs) = f[n]
               /\ \A i \in 1 .. n : f[i] = IF i = 1 THEN seqs[i] ELSE f[i - 1] \o seqs[i]
      <3>1. n \in Nat \ {0} /\ Len(seqs) = n
        OBVIOUS
      <3> QED
        BY ONLY <3>1, FlattenLoop, Zenon
    <2> QED
      BY ONLY <2>1, Zenon
  <1> DEFINE S == {k \in 0 .. n : k # 0 => Timed(f[k], T, P[k], I)}
  <1>2. I[1] = 1
    BY PlacesGrow
  <1> HIDE DEF I
  <1>3. 0 \in S
    OBVIOUS
  <1>4. ASSUME NEW k \in 1 .. n, k - 1 \in S PROVE k \in S
    <2>1. PICK w : IsPart(w, T, P[k - 1], m) /\ Timed(seqs[k], w, m, Places(w, m))
      BY DEF IsTimedPart
    <2>2. P[k - 1] \in Nat /\ P[k - 1] + m <= N /\ P[k] = P[k - 1] + m /\ k \in 0 .. n
      <3>1. k \in 0 .. n /\ k - 1 \in 0 .. n
        OBVIOUS
      <3>2. P[k] \in 0 .. N /\ P[k - 1] \in 0 .. N /\ P[k] = P[k - 1] + m
        BY <3>1
      <3> QED
        BY <3>1, <3>2
    <2> DEFINE p == P[k - 1]
    <2>3. p \in Nat /\ p + m <= N /\ P[k] = p + m
      BY <2>2
    <2>4. IsPart(w, T, p, m) /\ Timed(seqs[k], w, m, Places(w, m))
      BY <2>1
    <2> HIDE DEF p
    <2>5. \A a : Timed(a, T, p, I) => Timed(a \o seqs[k], T, p + m, I)
      BY ONLY <2>3, <2>4, N \in Nat, m \in Nat, TimedJoin DEF I
    <2>6. CASE k = 1
      <3>1. p = 0
        BY <2>6 DEF p
      <3>2. Timed(<<>>, T, 0, I)
        BY <1>2 DEF Timed
      <3>3. <<>> \o seqs[k] = seqs[k]
        BY <2>1 DEF Timed
      <3>4. Timed(seqs[k], T, P[k], I)
        BY <2>3, <2>5, <3>1, <3>2, <3>3, Zenon
      <3>5. f[k] = seqs[k]
        BY <1>1, <2>6
      <3> QED
        BY <2>2, <3>4, <3>5
    <2>7. CASE k # 1
      <3>0. k - 1 # 0
        BY <2>7
      <3>1. k - 1 # 0 /\ f[k] = f[k - 1] \o seqs[k]
        BY <1>1, <2>7, <3>0, Zenon
      <3>2. Timed(f[k - 1], T, p, I)
        BY <1>4, <3>1 DEF p
      <3>3. Timed(f[k], T, P[k], I)
        BY <2>3, <2>5, <3>1, <3>2, Zenon
      <3> QED
        BY <2>2, <3>3
    <2> QED
      BY <2>6, <2>7
  <1>5. 0 .. n \subseteq S
    <2> HIDE DEF S
    <2> QED
      BY <1>3, <1>4, Counting
  <1>6. n \in S /\ n # 0
    BY <1>5
  <1> QED
    BY <1>1, <1>6 DEF I

\* The mark of a bit is the signal of the word of that one bit.
LEMMA MarkIsTimed ==
    ASSUME NEW T, NEW n \in Nat, T[n + 1] \in Bit
    PROVE  IsTimedPart(IF T[n + 1] = 1 THEN <<2, 2>> ELSE <<4>>, T, n, 1)
  <1> DEFINE w == [i \in 1 .. 1 |-> T[n + 1]]
             J == Places(w, 1)
             z == IF T[n + 1] = 1 THEN <<2, 2>> ELSE <<4>>
  <1>1. w[1] = T[n + 1]
    OBVIOUS
  <1>2. IsPart(w, T, n, 1)
    <2>1. \A i \in 1 .. 1 : i = 1
      OBVIOUS
    <2> HIDE DEF w
    <2> QED
      BY <1>1, <2>1 DEF IsPart
  <1> HIDE DEF w
  <1>3. J[1] = 1 /\ J[1 + 1] = IF w[1] = 1 THEN J[1] + 2 ELSE J[1] + 1
    BY PlacesGrow
  <1> HIDE DEF J
  <1>4. /\ z \in Seq(Mark) /\ Len(z) = J[1 + 1] - 1
        /\ IF w[1] = 1 THEN z[1] = 2 /\ z[1 + 1] = 2 ELSE z[1] = 4
    <2>1. CASE T[n + 1] = 1
      <3>1. J[1 + 1] = 3 /\ z = <<2, 2>> /\ w[1] = 1
        BY <1>1, <1>3, <2>1
      <3> HIDE DEF z
      <3>2. z[1] = 2 /\ z[2] = 2 /\ z \in Seq(Mark) /\ Len(z) = 2
        BY ONLY <3>1 DEF Mark
      <3> QED
        BY <3>1, <3>2
    <2>2. CASE T[n + 1] # 1
      <3>1. J[1 + 1] = 2 /\ z = <<4>> /\ w[1] # 1
        BY <1>1, <1>3, <2>2
      <3> HIDE DEF z
      <3>2. z[1] = 4 /\ z \in Seq(Mark) /\ Len(z) = 1
        BY ONLY <3>1 DEF Mark
      <3> QED
        BY <3>1, <3>2
    <2> QED
      BY <2>1, <2>2
  <1>5. Timed(z, w, 1, J)
    <2> HIDE DEF z
    <2>1. \A q \in 1 .. 1 : q = 1
      OBVIOUS
    <2>2. \A q \in 1 .. 1 : IF w[q] = 1 THEN z[J[q]] = 2 /\ z[J[q] + 1] = 2 ELSE z[J[q]] = 4
      BY ONLY <1>3, <1>4, <2>1, Zenon
    <2> QED
      BY <1>4, <2>2 DEF Timed
  <1> QED
    BY <1>2, <1>5 DEF IsTimedPart, J, z

\* The encoder writes the signal of its word: a long interval for a zero, two
\* short ones for a one.
LEMMA MarksAreTimed ==
    ASSUME NEW w \in Seq(Bit), NEW n \in Nat \ {0}, Len(w) = n
    PROVE  Timed(Marks(w), w, n, Places(w, n))
  <1> DEFINE seqs == [i \in DOMAIN w |-> IF w[i] = 1 THEN <<2, 2>> ELSE <<4>>]
             P == [k \in 0 .. n |-> k]
  <1>1. DOMAIN w = 1 .. n /\ \A i \in 1 .. n : w[i] \in Bit
    OBVIOUS
  <1>2. Len(seqs) = n /\ \A i \in 1 .. n : seqs[i] = IF w[i] = 1 THEN <<2, 2>> ELSE <<4>>
    BY <1>1
  <1>3. P[0] = 0 /\ P[n] = n /\ \A k \in 0 .. n : P[k] = k /\ P[k] \in 0 .. n
    OBVIOUS
  <1>4. \A k \in 1 .. n : P[k] = P[k - 1] + 1
    OBVIOUS
  <1>5. \A k \in 1 .. n : IsTimedPart(seqs[k], w, P[k - 1], 1)
    <2> SUFFICES ASSUME NEW k \in 1 .. n PROVE IsTimedPart(seqs[k], w, P[k - 1], 1)
      OBVIOUS
    <2>1. k - 1 \in Nat /\ (k - 1) + 1 = k /\ w[k] \in Bit /\ P[k - 1] = k - 1
      BY <1>1
    <2>2. IsTimedPart(IF w[k] = 1 THEN <<2, 2>> ELSE <<4>>, w, k - 1, 1)
      BY <2>1, MarkIsTimed
    <2> HIDE DEF seqs, P
    <2> QED
      BY <1>2, <2>1, <2>2
  <1>6. Marks(w) = FlattenSeq(seqs)
    BY DEF Marks
  <1> HIDE DEF seqs, P
  <1>7. Timed(FlattenSeq(seqs), w, P[n], Places(w, n))
    BY <1>2, <1>3, <1>4, <1>5, TimedParts
  <1> QED
    BY <1>3, <1>6, <1>7

-----------------------------------------------------------------------------
\* The bits that are sent, those of the lead-in first.
Length == FrameBits * (Frames + 1)

SentBits(start) ==
    [q \in 1 .. Length |-> Words[start][(q - 1) \div FrameBits + 1][((q - 1) % FrameBits) + 1]]

\* And the places of those bits in its signal.
SentPlaces(start) == Places(SentBits(start), Length)

\* The number of bits of a recording.
LEMMA LengthIsNat ==
    /\ Length = 80 * (Frames + 1) /\ Length \in Nat /\ Length >= 320 /\ Frames \in Nat /\ Frames >= 3
  BY FramesAssumption DEF Length, FrameBits

\* The bits of a recording begin at growing places.
LEMMA SentPlacesGrow ==
    ASSUME NEW start
    PROVE  /\ SentPlaces(start) \in [1 .. Length + 1 -> Nat]
           /\ \A i, r \in 1 .. Length + 1 : i < r => SentPlaces(start)[i] < SentPlaces(start)[r]
  <1>1. Length \in Nat
    BY LengthIsNat
  <1>2. ASSUME NEW T, NEW n \in Nat
        PROVE  /\ Places(T, n) \in [1 .. n + 1 -> Nat]
               /\ \A i, r \in 1 .. n + 1 : i < r => Places(T, n)[i] < Places(T, n)[r]
    BY ONLY PlacesGrow
  <1> QED
    BY ONLY <1>1, <1>2, Zenon DEF SentPlaces

\* The lead-in is eighty bits, zero and one by turns.
LEMMA LeadInBits ==
    /\ LeadIn \in Seq(Bit) /\ Len(LeadIn) = 80
    /\ \A i \in 1 .. 80 : LeadIn[i] = (i - 1) % 2
  <1>1. \A i \in 1 .. 80 : (i - 1) % 2 \in Bit
    BY DEF Bit
  <1>2. LeadIn = [i \in 1 .. 80 |-> (i - 1) % 2]
    BY DEF LeadIn, FrameBits
  <1> QED
    BY <1>1, <1>2

\* The intervals of the lead-in.
LEMMA LeadInIsTimed ==
    Timed(Marks(LeadIn), LeadIn, 80, Places(LeadIn, 80)) /\ Marks(LeadIn) \in Seq(Mark)
  <1>1. LeadIn \in Seq(Bit) /\ Len(LeadIn) = 80
    BY LeadInBits
  <1>2. 80 \in Nat \ {0}
    OBVIOUS
  <1>3. Timed(Marks(LeadIn), LeadIn, 80, Places(LeadIn, 80))
    BY ONLY <1>1, <1>2, MarksAreTimed, Zenon
  <1>4. Timed(Marks(LeadIn), LeadIn, 80, Places(LeadIn, 80)) => Marks(LeadIn) \in Seq(Mark)
    BY DEF Timed
  <1> QED
    BY ONLY <1>3, <1>4

\* A recording has the lead-in and then the bits of each frame sent.
LEMMA WordsAreFrames ==
    ASSUME NEW start \in Starts
    PROVE  /\ Words[start] \in Seq(Seq(Bit)) /\ Len(Words[start]) = Frames + 1
           /\ Words[start][1] = LeadIn
           /\ \A k \in 1 .. Frames : Words[start][k + 1] = GetLtcBits(Sent[start][k])
           /\ \A k \in 1 .. Frames + 1 : Words[start][k] \in Seq(Bit) /\ Len(Words[start][k]) = 80
  <1> DEFINE fs == [k \in 1 .. Frames |-> GetLtcBits(Sent[start][k])]
             one == <<LeadIn>>
             ws == one \o fs
  <1>0. Frames \in Nat
    BY LengthIsNat
  <1>1. \A k \in 1 .. Frames : /\ fs[k] = GetLtcBits(Sent[start][k])
                               /\ fs[k] \in Seq(Bit) /\ Len(fs[k]) = 80
    BY SentFacts, BitsOfFrame
  <1>2. fs \in Seq(Seq(Bit)) /\ Len(fs) = Frames
    BY <1>0, <1>1
  <1>3. one \in Seq(Seq(Bit)) /\ Len(one) = 1 /\ one[1] = LeadIn
    BY LeadInBits
  <1>4. Words[start] = ws
    BY DEF Words
  <1> HIDE DEF fs, one
  <1>5. /\ ws \in Seq(Seq(Bit)) /\ Len(ws) = Len(one) + Len(fs)
        /\ \A i \in 1 .. Len(one) : ws[i] = one[i]
        /\ \A i \in 1 .. Len(fs) : ws[Len(one) + i] = fs[i]
    <2>1. one \in Seq(Seq(Bit)) /\ fs \in Seq(Seq(Bit))
      BY <1>2, <1>3
    <2> QED
      BY ONLY <2>1, JoinIndex
  <1> HIDE DEF ws
  <1>6. Len(ws) = Frames + 1 /\ ws[1] = LeadIn
    BY <1>0, <1>2, <1>3, <1>5
  <1>7. \A k \in 1 .. Frames : ws[k + 1] = fs[k]
    <2>1. \A k \in 1 .. Frames : ws[1 + k] = fs[k]
      BY ONLY <1>2, <1>3, <1>5, Zenon
    <2>2. \A k \in 1 .. Frames : 1 + k = k + 1
      OBVIOUS
    <2> QED
      BY ONLY <2>1, <2>2
  <1>8. \A k \in 1 .. Frames + 1 : ws[k] \in Seq(Bit) /\ Len(ws[k]) = 80
    <2> SUFFICES ASSUME NEW k \in 1 .. Frames + 1 PROVE ws[k] \in Seq(Bit) /\ Len(ws[k]) = 80
      OBVIOUS
    <2>1. CASE k = 1
      BY <1>6, <2>1, LeadInBits
    <2>2. CASE k # 1
      <3>1. k - 1 \in 1 .. Frames /\ (k - 1) + 1 = k
        BY <1>0, <2>2
      <3>2. ws[k] = fs[k - 1]
        BY <1>7, <3>1
      <3> QED
        BY <1>1, <3>1, <3>2
    <2> QED
      BY <2>1, <2>2
  <1> QED
    BY <1>1, <1>4, <1>5, <1>6, <1>7, <1>8

\* Bit i of the word k of a recording is its bit number 80 * k + i.
LEMMA BitOfWord ==
    ASSUME NEW start \in Starts, NEW k \in 0 .. Frames, NEW i \in 1 .. 80
    PROVE  /\ 80 * k + i \in 1 .. Length
           /\ SentBits(start)[80 * k + i] = Words[start][k + 1][i]
  <1> DEFINE q == 80 * k + i
  <1>1. /\ q \in 1 .. Length /\ (q - 1) \div FrameBits + 1 = k + 1
        /\ ((q - 1) % FrameBits) + 1 = i
    <2>1. k \in Nat /\ k <= Frames /\ i \in Nat /\ i >= 1 /\ i <= 80 /\ Frames \in Nat
      BY LengthIsNat
    <2>2. q \in 1 .. Length
      BY <2>1, LengthIsNat
    <2>3. q - 1 = 80 * k + (i - 1) /\ i - 1 \in 0 .. 79
      BY <2>1
    <2>4. (q - 1) \div 80 = k /\ (q - 1) % 80 = i - 1
      BY <2>1, <2>3
    <2> QED
      BY <2>1, <2>2, <2>4 DEF FrameBits
  <1> HIDE DEF q
  <1>2. SentBits(start)[q] = Words[start][(q - 1) \div FrameBits + 1][((q - 1) % FrameBits) + 1]
    BY <1>1 DEF SentBits
  <1> QED
    BY <1>1, <1>2 DEF q

\* What the words of a recording have in common.
IsSent(T) ==
    /\ T \in [1 .. Length -> Bit]
    /\ \A i \in 1 .. 80 : T[i] = (i - 1) % 2
    /\ \A k \in 1 .. Frames : /\ \A i \in Clear : T[80 * k + i] = 0
                              /\ \A i \in 1 .. 16 : T[80 * k + (64 + i)] = SyncWord[i]

\* The bits of a recording: ones and zeros, a sync word at the end of each frame,
\* and the bits of each frame at its place.
LEMMA SentBitsFacts ==
    ASSUME NEW start \in Starts
    PROVE  /\ IsSent(SentBits(start))
           /\ \A k \in 1 .. Frames, i \in 1 .. 80 :
                SentBits(start)[80 * k + i] = GetLtcBits(Sent[start][k])[i]
  <1> DEFINE T == SentBits(start)
  <1>0. \A k \in 0 .. Frames, i \in 1 .. 80 : T[80 * k + i] = Words[start][k + 1][i]
    BY ONLY start \in Starts, BitOfWord
  <1>1. \A q \in 1 .. Length :
          \E k \in 0 .. Frames, i \in 1 .. 80 :
            q = 80 * k + i /\ T[q] = Words[start][k + 1][i]
    <2> SUFFICES ASSUME NEW q \in 1 .. Length
                 PROVE  \E k \in 0 .. Frames, i \in 1 .. 80 :
                          q = 80 * k + i /\ T[q] = Words[start][k + 1][i]
      OBVIOUS
    <2>1. PICK k \in 0 .. Frames, i \in 1 .. 80 : q = 80 * k + i
      <3> DEFINE k == (q - 1) \div 80
                 i == ((q - 1) % 80) + 1
      <3>1. k \in Int /\ i \in 1 .. 80 /\ q = 80 * k + i
        OBVIOUS
      <3>2. q >= 1 /\ q <= 80 * (Frames + 1) /\ Frames \in Nat /\ q \in Int
        BY LengthIsNat
      <3> HIDE DEF k, i
      <3>3. k \in 0 .. Frames
        BY <3>1, <3>2
      <3> QED
        BY <3>1, <3>3
    <2>2. T[80 * k + i] = Words[start][k + 1][i]
      BY <1>0, Zenon
    <2> HIDE DEF T
    <2> QED
      BY <2>1, <2>2
  <1>2. \A k \in 1 .. Frames, i \in 1 .. 80 : T[80 * k + i] = GetLtcBits(Sent[start][k])[i]
    <2> SUFFICES ASSUME NEW k \in 1 .. Frames, NEW i \in 1 .. 80
                 PROVE  T[80 * k + i] = GetLtcBits(Sent[start][k])[i]
      BY Zenon
    <2>1. k \in 0 .. Frames
      BY LengthIsNat
    <2>2. Words[start][k + 1] = GetLtcBits(Sent[start][k])
      BY WordsAreFrames
    <2>3. T[80 * k + i] = Words[start][k + 1][i]
      BY <1>0, <2>1, Zenon
    <2> HIDE DEF T
    <2> QED
      BY ONLY <2>2, <2>3, Zenon
  <1>3. \A i \in 1 .. 80 : T[i] = (i - 1) % 2
    <2> SUFFICES ASSUME NEW i \in 1 .. 80 PROVE T[i] = (i - 1) % 2
      OBVIOUS
    <2>1. 0 \in 0 .. Frames /\ 80 * 0 + i = i /\ 0 + 1 = 1
      BY LengthIsNat
    <2>2. T[80 * 0 + i] = Words[start][0 + 1][i]
      BY <2>1, BitOfWord
    <2>3. Words[start][1] = LeadIn
      BY WordsAreFrames
    <2> HIDE DEF T
    <2> QED
      BY <2>1, <2>2, <2>3, LeadInBits
  <1>4. T = [q \in 1 .. Length |-> T[q]]
    BY DEF SentBits
  <1> HIDE DEF T
  <1>5. T \in [1 .. Length -> Bit]
    <2>1. \A q \in 1 .. Length : T[q] \in Bit
      <3> SUFFICES ASSUME NEW q \in 1 .. Length PROVE T[q] \in Bit
        OBVIOUS
      <3>1. PICK k \in 0 .. Frames, i \in 1 .. 80 : T[q] = Words[start][k + 1][i]
        BY <1>1
      <3>2. k + 1 \in 1 .. Frames + 1
        BY LengthIsNat
      <3>3. Words[start][k + 1] \in Seq(Bit) /\ Len(Words[start][k + 1]) = 80
        BY <3>2, WordsAreFrames
      <3> DEFINE w == Words[start][k + 1]
      <3>4. \A j \in 1 .. 80 : w[j] \in Bit
        <4> HIDE DEF w
        <4>1. w \in Seq(Bit) /\ Len(w) = 80
          BY <3>3 DEF w
        <4>2. \A j \in 1 .. Len(w) : w[j] \in Bit
          BY ONLY Zenon, <4>1, ElementOfSeq
        <4> QED
          BY ONLY <4>1, <4>2, Zenon
      <3> QED
        BY <3>1, <3>4
    <2> QED
      BY <1>4, <2>1
  <1>6. ASSUME NEW k \in 1 .. Frames
        PROVE  /\ \A i \in Clear : T[80 * k + i] = 0
               /\ \A i \in 1 .. 16 : T[80 * k + (64 + i)] = SyncWord[i]
    <2> DEFINE g == GetLtcBits(Sent[start][k])
    <2>1. /\ \A i \in Clear : g[i] = 0
          /\ \A i \in 1 .. 16 : g[64 + i] = SyncWord[i]
      BY SentFacts, BitsOfFrame
    <2> HIDE DEF g
    <2>2. \A i \in 1 .. 80 : T[80 * k + i] = g[i]
      BY <1>2 DEF g
    <2>3. \A i \in Clear : i \in 1 .. 80
      BY DEF Clear
    <2>4. \A i \in 1 .. 16 : 64 + i \in 1 .. 80
      OBVIOUS
    <2> QED
      BY ONLY <2>1, <2>2, <2>3, <2>4, Zenon
  <1> QED
    BY <1>2, <1>3, <1>5, <1>6 DEF IsSent, T

\* The signal is that of the bits, and a frame begins where its first bit does.
LEMMA SignalIsTimed ==
    ASSUME NEW start \in Starts
    PROVE  /\ Timed(Signal[start], SentBits(start), Length, SentPlaces(start))
           /\ \A k \in 1 .. Frames + 1 : Begins[start][k] = SentPlaces(start)[80 * k + 1]
  <1> DEFINE T == SentBits(start)
             I == SentPlaces(start)
             part(k) == [j \in 1 .. k |-> Marks(Words[start][j])]
  <1>1. ASSUME NEW n \in 1 .. Frames + 1 PROVE Timed(FlattenSeq(part(n)), T, 80 * n, I)
    <2> DEFINE P == [k \in 0 .. n |-> 80 * k]
               seqs == part(n)
    <2>1. /\ Length \in Nat /\ n \in Nat \ {0} /\ 80 \in Nat /\ 80 * n <= Length /\ n \in Nat
          /\ n <= Frames + 1 /\ Frames \in Nat
      BY LengthIsNat
    <2>2. /\ P[0] = 0 /\ P[n] = 80 * n /\ \A k \in 0 .. n : P[k] \in 0 .. Length
          /\ \A k \in 1 .. n : P[k] = P[k - 1] + 80 /\ P[k - 1] = 80 * (k - 1)
      BY <2>1
    <2>3. Len(seqs) = n /\ \A k \in 1 .. n : seqs[k] = Marks(Words[start][k])
      BY <2>1
    <2> HIDE DEF P, seqs, T
    <2>4. ASSUME NEW k \in 1 .. n PROVE IsTimedPart(seqs[k], T, P[k - 1], 80)
      <3> DEFINE w == Words[start][k]
      <3>1. k \in 1 .. Frames + 1 /\ k - 1 \in 0 .. Frames /\ (k - 1) + 1 = k
        BY <2>1
      <3>2. w \in Seq(Bit) /\ Len(w) = 80
        BY <3>1, WordsAreFrames
      <3>3. IsPart(w, T, 80 * (k - 1), 80)
        <4>1. \A i \in 1 .. 80 : T[80 * (k - 1) + i] = Words[start][(k - 1) + 1][i]
          BY Zenon, <3>1, BitOfWord DEF T
        <4> QED
          BY ONLY <3>1, <4>1, Zenon DEF IsPart
      <3> HIDE DEF w
      <3>4. Timed(Marks(w), w, 80, Places(w, 80))
        <4>1. 80 \in Nat \ {0}
          OBVIOUS
        <4> QED
          BY ONLY <3>2, <4>1, MarksAreTimed
      <3> QED
        BY <2>2, <2>3, <3>3, <3>4 DEF IsTimedPart, w
    <2>5. Timed(FlattenSeq(seqs), T, P[n], Places(T, Length))
      BY Zenon, <2>1, <2>2, <2>3, <2>4, TimedParts
    <2> QED
      BY <2>2, <2>5 DEF SentPlaces, T, seqs
  <1>2. Frames + 1 \in 1 .. Frames + 1 /\ 80 * (Frames + 1) = Length
    BY LengthIsNat
  <1>3. Timed(FlattenSeq(part(Frames + 1)), T, 80 * (Frames + 1), I)
    <2> HIDE DEF part, T, I
    <2> QED
      BY <1>1, <1>2
  <1>4. Signal[start] = FlattenSeq(part(Frames + 1))
    BY DEF Signal
  <1>5. ASSUME NEW k \in 1 .. Frames + 1 PROVE Begins[start][k] = I[80 * k + 1]
    <2>1. Timed(FlattenSeq(part(k)), T, 80 * k, I)
      BY <1>1
    <2>2. Begins[start][k] = 1 + Len(FlattenSeq(part(k)))
      BY DEF Begins
    <2> DEFINE z == FlattenSeq(part(k))
    <2>3. Len(z) = I[80 * k + 1] - 1
      BY <2>1 DEF Timed
    <2>4. I[80 * k + 1] \in Nat
      <3>1. 80 * k + 1 \in 1 .. Length + 1
        BY LengthIsNat
      <3>2. I \in [1 .. Length + 1 -> Nat]
        BY LengthIsNat, PlacesGrow DEF SentPlaces
      <3> QED
        BY <3>1, <3>2
    <2> HIDE DEF z, I
    <2>5. Begins[start][k] = 1 + Len(z)
      BY <2>2 DEF z
    <2> QED
      BY ONLY <2>3, <2>4, <2>5
  <1> QED
    <2>1. Timed(Signal[start], T, Length, I)
      BY <1>2, <1>3, <1>4
    <2> QED
      BY <1>5, <2>1

-----------------------------------------------------------------------------
(* Reading.                                                                *)

Short(y, j) == j <= Len(y) /\ y[j] < 3

\* A bit is read from the interval p on, and what follows begins at e: a long
\* interval, two short ones, or a short one that is skipped and a long one.
Takes(y, p, v, e) ==
    \/ v = 0 /\ p <= Len(y) /\ ~Short(y, p) /\ e = p + 1
    \/ v = 1 /\ Short(y, p) /\ Short(y, p + 1) /\ e = p + 2
    \/ v = 0 /\ Short(y, p) /\ p + 1 <= Len(y) /\ ~Short(y, p + 1) /\ e = p + 2

\* The bits W are read from the intervals y; after the first i of them the
\* reader is at E[i].
IsReading(y, W, E) ==
    /\ y \in Seq(Nat) /\ W \in Seq(Bit)
    /\ \A i \in 0 .. Len(W) : E[i] \in Nat
    /\ E[0] = 1
    /\ \A i \in 1 .. Len(W) : Takes(y, E[i - 1], W[i], E[i])
    /\ E[Len(W)] = Len(y) + 1 \/ (E[Len(W)] = Len(y) /\ Short(y, Len(y)))

\* So many of them have been read, and at is the next interval.
AreRead(y, W, E, r, m) ==
    /\ m \in 0 .. Len(W)
    /\ r.at = E[m] \/ (r.at = E[m] + 1 /\ Short(y, E[m]) /\ ~Short(y, E[m] + 1))
    /\ r.bits \in Seq(Bit) /\ Len(r.bits) = m /\ \A i \in 1 .. m : r.bits[i] = W[i]

Reads(y, r) == \A W, E : IsReading(y, W, E) => \E m \in 0 .. Len(W) : AreRead(y, W, E, r, m)

\* One more bit, read right.
LEMMA AppendedIsRead ==
    ASSUME NEW b \in Seq(Bit), NEW W \in Seq(Bit), NEW m \in Nat, m < Len(W), Len(b) = m,
           \A i \in 1 .. m : b[i] = W[i], NEW v, v = W[m + 1]
    PROVE  /\ Append(b, v) \in Seq(Bit) /\ Len(Append(b, v)) = m + 1
           /\ \A i \in 1 .. m + 1 : Append(b, v)[i] = W[i]
  <1>1. m + 1 \in 1 .. Len(W)
    OBVIOUS
  <1>2. v \in Bit
    BY <1>1, ElementOfSeq
  <1>3. /\ Append(b, v) \in Seq(Bit) /\ Len(Append(b, v)) = Len(b) + 1
        /\ \A i \in 1 .. Len(b) : Append(b, v)[i] = b[i]
        /\ Append(b, v)[Len(b) + 1] = v
    BY <1>2, AppendProperties
  <1>4. \A i \in 1 .. m + 1 : i \in 1 .. m \/ i = m + 1
    OBVIOUS
  <1> QED
    BY <1>3, <1>4

\* The step of the loop.
LEMMA StepReads ==
    ASSUME NEW r, r = [at |-> r.at, bits |-> r.bits], Reads(recording.intervals, r)
    PROVE  /\ Reads(recording.intervals, ReadBit(r))
           /\ ReadBit(r) = [at |-> ReadBit(r).at, bits |-> ReadBit(r).bits]
  <1> DEFINE y == recording.intervals
  <1>1. ReadBit(r) = [at |-> ReadBit(r).at, bits |-> ReadBit(r).bits]
    BY DEF ReadBit
  <1> SUFFICES ASSUME NEW W, NEW E, IsReading(y, W, E)
               PROVE  \E m \in 0 .. Len(W) : AreRead(y, W, E, ReadBit(r), m)
    BY <1>1 DEF Reads
  <1>2. PICK m \in 0 .. Len(W) : AreRead(y, W, E, r, m)
    BY DEF Reads
  <1>3. /\ y \in Seq(Nat) /\ W \in Seq(Bit) /\ Len(W) \in Nat /\ Len(y) \in Nat /\ E[m] \in Nat
        /\ m # Len(W) => /\ m + 1 \in 1 .. Len(W) /\ m + 1 \in 0 .. Len(W) /\ m \in Nat /\ m < Len(W)
                         /\ Takes(y, E[m], W[m + 1], E[m + 1])
        /\ m = Len(W) => E[m] = Len(y) + 1 \/ (E[m] = Len(y) /\ Short(y, Len(y)))
    <2>1. y \in Seq(Nat) /\ W \in Seq(Bit) /\ Len(W) \in Nat /\ Len(y) \in Nat
      BY DEF IsReading
    <2>2. m # Len(W) => /\ m + 1 \in 1 .. Len(W) /\ m + 1 \in 0 .. Len(W) /\ m \in Nat
                        /\ m < Len(W) /\ (m + 1) - 1 = m
      BY <2>1
    <2>3. m # Len(W) => Takes(y, E[(m + 1) - 1], W[m + 1], E[m + 1])
      BY <2>2, Zenon DEF IsReading
    <2>4. E[m] \in Nat
      BY DEF IsReading
    <2>5. E[Len(W)] = Len(y) + 1 \/ (E[Len(W)] = Len(y) /\ Short(y, Len(y)))
      BY DEF IsReading
    <2> QED
      BY <2>1, <2>2, <2>3, <2>4, <2>5
  <1>4. /\ r.at = E[m] \/ (r.at = E[m] + 1 /\ Short(y, E[m]) /\ ~Short(y, E[m] + 1))
        /\ r.bits \in Seq(Bit) /\ Len(r.bits) = m /\ \A i \in 1 .. m : r.bits[i] = W[i]
    BY <1>2 DEF AreRead
  <1>5. \A j : IsShort(j) <=> Short(y, j)
    BY DEF IsShort, Short
  <1>6. ReadBit(r) = IF r.at > Len(y) THEN r
                     ELSE IF ~Short(y, r.at) THEN [at |-> r.at + 1, bits |-> Append(r.bits, 0)]
                     ELSE IF Short(y, r.at + 1) THEN [at |-> r.at + 2, bits |-> Append(r.bits, 1)]
                     ELSE [at |-> r.at + 1, bits |-> r.bits]
    BY <1>5 DEF ReadBit
  <1> HIDE DEF y
  <1>7. \A v, w : v = W[m + 1] /\ m # Len(W) /\ w = [at |-> E[m + 1], bits |-> Append(r.bits, v)] =>
          AreRead(y, W, E, w, m + 1)
    <2> SUFFICES ASSUME NEW v, NEW w, v = W[m + 1], m # Len(W),
                        w = [at |-> E[m + 1], bits |-> Append(r.bits, v)]
                 PROVE  AreRead(y, W, E, w, m + 1)
      BY Zenon
    <2>1. m \in Nat /\ m < Len(W)
      BY <1>3
    <2>2. /\ Append(r.bits, v) \in Seq(Bit) /\ Len(Append(r.bits, v)) = m + 1
          /\ \A i \in 1 .. m + 1 : Append(r.bits, v)[i] = W[i]
      BY <1>3, <1>4, <2>1, AppendedIsRead
    <2>3. w.at = E[m + 1] /\ w.bits = Append(r.bits, v)
      OBVIOUS
    <2> QED
      BY <1>3, <2>2, <2>3 DEF AreRead
  <1>8. CASE r.at > Len(y)
    <2>1. ReadBit(r) = r
      BY <1>6, <1>8
    <2> QED
      BY <1>2, <2>1
  <1>9. CASE ~(r.at > Len(y)) /\ m # Len(W)
    <2>1. Takes(y, E[m], W[m + 1], E[m + 1]) /\ m + 1 \in 0 .. Len(W) /\ E[m] \in Nat
      BY <1>3, <1>9
    <2>2. CASE r.at = E[m] /\ ~Short(y, r.at)
      <3>1. ReadBit(r) = [at |-> r.at + 1, bits |-> Append(r.bits, 0)]
        BY <1>6, <1>9, <2>2
      <3>2. W[m + 1] = 0 /\ E[m + 1] = r.at + 1
        BY <2>1, <2>2 DEF Takes
      <3> QED
        BY <1>7, <1>9, <2>1, <3>1, <3>2
    <2>3. CASE r.at = E[m] /\ Short(y, r.at) /\ Short(y, r.at + 1)
      <3>1. ReadBit(r) = [at |-> r.at + 2, bits |-> Append(r.bits, 1)]
        BY <1>6, <1>9, <2>3
      <3>2. W[m + 1] = 1 /\ E[m + 1] = r.at + 2
        BY <2>1, <2>3 DEF Takes
      <3> QED
        BY <1>7, <1>9, <2>1, <3>1, <3>2
    <2>4. CASE r.at = E[m] /\ Short(y, r.at) /\ ~Short(y, r.at + 1)
      <3>1. ReadBit(r) = [at |-> r.at + 1, bits |-> r.bits]
        BY <1>6, <1>9, <2>4
      <3>2. AreRead(y, W, E, ReadBit(r), m)
        BY <1>4, <2>4, <3>1 DEF AreRead
      <3> QED
        BY <3>2
    <2>5. CASE r.at = E[m] + 1 /\ Short(y, E[m]) /\ ~Short(y, E[m] + 1)
      <3>1. ReadBit(r) = [at |-> r.at + 1, bits |-> Append(r.bits, 0)]
        BY <1>6, <1>9, <2>5
      <3>2. W[m + 1] = 0 /\ E[m + 1] = r.at + 1
        BY <2>1, <2>5 DEF Takes
      <3> QED
        BY <1>7, <1>9, <2>1, <3>1, <3>2
    <2> QED
      BY <1>4, <2>2, <2>3, <2>4, <2>5
  <1>10. CASE ~(r.at > Len(y)) /\ m = Len(W)
    <2>1. r.at = Len(y) /\ Short(y, r.at) /\ r.at = E[m]
      BY <1>3, <1>4, <1>10
    <2>2. ~Short(y, r.at + 1)
      BY <1>3, <2>1 DEF Short
    <2>3. ReadBit(r) = [at |-> r.at + 1, bits |-> r.bits]
      BY <1>6, <1>10, <2>1, <2>2
    <2>4. AreRead(y, W, E, ReadBit(r), m)
      BY <1>4, <2>1, <2>2, <2>3 DEF AreRead
    <2> QED
      BY <2>4
  <1> QED
    BY <1>8, <1>9, <1>10

\* The loop of ReadBits.
AreReadBits(f, r, n) == f = [k \in 0 .. n |-> IF k = 0 THEN r ELSE ReadBit(f[k - 1])]

\* The loop of ReadBits has a value.
LEMMA ReadBitsExist ==
    ASSUME NEW r, NEW n \in Nat
    PROVE  \E f : AreReadBits(f, r, n)
  <1> DEFINE S == {k \in 0 .. n : \E f : AreReadBits(f, r, k)}
  <1>1. 0 \in S
    <2>1. AreReadBits([k \in 0 .. 0 |-> r], r, 0)
      BY DEF AreReadBits
    <2> QED
      BY <2>1
  <1>2. ASSUME NEW k \in 1 .. n, k - 1 \in S PROVE k \in S
    <2>1. PICK f : AreReadBits(f, r, k - 1)
      BY <1>2
    <2> DEFINE g == [j \in 0 .. k |-> IF j = k THEN ReadBit(f[k - 1]) ELSE f[j]]
    <2>2. \A j \in 0 .. k : j # k => j \in 0 .. k - 1 /\ g[j] = f[j]
      OBVIOUS
    <2>3. \A j \in 0 .. k : j # 0 => j - 1 \in 0 .. k - 1 /\ g[j - 1] = f[j - 1]
      OBVIOUS
    <2>4. \A j \in 0 .. k - 1 : f[j] = IF j = 0 THEN r ELSE ReadBit(f[j - 1])
      BY <2>1 DEF AreReadBits
    <2>5. \A j \in 0 .. k : g[j] = IF j = 0 THEN r ELSE ReadBit(g[j - 1])
      BY <2>2, <2>3, <2>4
    <2>6. AreReadBits(g, r, k)
      BY <2>5 DEF AreReadBits
    <2> QED
      BY <2>6
  <1>3. 0 .. n \subseteq S
    BY <1>1, <1>2, Counting
  <1> QED
    BY <1>3

\* What is read and found.
Position == [at |-> nextInterval, bits |-> bits]

\* The step that reads bits keeps to what the intervals say.
LEMMA ReadBitsReads ==
    ASSUME Reads(recording.intervals, Position), nextInterval \in Nat, ReadBits
    PROVE  Reads(recording'.intervals, Position') /\ nextInterval' \in Nat
  <1> DEFINE f == CHOOSE g : AreReadBits(g, Position, 80)
             S == {k \in 0 .. 80 : /\ f[k] = [at |-> f[k].at, bits |-> f[k].bits] /\ f[k].at \in Nat
                                   /\ Reads(recording.intervals, f[k])}
  <1>1. AreReadBits(f, Position, 80)
    BY ReadBitsExist
  <1>2. nextInterval' = f[80].at /\ bits' = f[80].bits /\ recording' = recording
    BY DEF ReadBits, AreReadBits, Position, FrameBits
  <1> HIDE DEF f
  <1>3. \A k \in 0 .. 80 : f[k] = IF k = 0 THEN Position ELSE ReadBit(f[k - 1])
    BY <1>1 DEF AreReadBits
  <1>4. 0 \in S
    <2>1. f[0] = Position
      BY <1>3
    <2>2. Position = [at |-> Position.at, bits |-> Position.bits] /\ Position.at \in Nat
      BY DEF Position
    <2> QED
      BY <2>1, <2>2
  <1>5. ASSUME NEW k \in 1 .. 80, k - 1 \in S PROVE k \in S
    <2>1. k \in 0 .. 80 /\ k # 0
      OBVIOUS
    <2>2. f[k] = ReadBit(f[k - 1])
      BY <1>3, <2>1
    <2> DEFINE r == f[k - 1]
    <2>3. r = [at |-> r.at, bits |-> r.bits] /\ r.at \in Nat /\ Reads(recording.intervals, r)
      BY <1>5
    <2> HIDE DEF r
    <2>4. /\ Reads(recording.intervals, ReadBit(r))
          /\ ReadBit(r) = [at |-> ReadBit(r).at, bits |-> ReadBit(r).bits]
      BY <2>3, StepReads
    <2>5. f[k] = ReadBit(r)
      BY <2>2 DEF r
    <2>6. ReadBit(r).at \in Nat
      BY <2>3 DEF ReadBit
    <2> QED
      BY <2>1, <2>4, <2>5, <2>6
  <1>6. 0 .. 80 \subseteq S
    <2> HIDE DEF S
    <2> QED
      BY <1>4, <1>5, Counting
  <1>7. /\ Reads(recording.intervals, f[80]) /\ f[80].at \in Nat
        /\ f[80] = [at |-> f[80].at, bits |-> f[80].bits]
    <2>1. 80 \in S
      <3>1. 80 \in 0 .. 80
        OBVIOUS
      <3> HIDE DEF S
      <3> QED
        BY ONLY <1>6, <3>1
    <2> QED
      BY ONLY <2>1, Zenon
  <1>8. Position' = [at |-> nextInterval', bits |-> bits']
    BY DEF Position
  <1>9. Position' = f[80]
    BY <1>2, <1>7, <1>8
  <1> QED
    BY <1>2, <1>7, <1>9

\* The number i of some places, in their order.
Nth(starts, i) == CHOOSE s \in starts : Cardinality({u \in starts : u <= s}) = i

FoundIn(word) ==
    [i \in 1 .. Cardinality(FrameStarts(word)) |-> DecodeTimecode(word, Nth(FrameStarts(word), i))]

Recordings == UNION {Whole(start) \cup Cut(start) \cup Damaged(start) : start \in Starts}

\* What holds of a recording that is read.
ReadingInv ==
    /\ recording \in Recordings
    /\ Reads(recording.intervals, Position) /\ nextInterval \in Nat
    /\ done => nextInterval > Len(recording.intervals) /\ found = FoundIn(Closed)

\* The reading invariant holds at the start.
LEMMA ReadingInit == Init => ReadingInv
  <1> SUFFICES ASSUME Init PROVE ReadingInv
    OBVIOUS
  <1>1. recording \in Recordings /\ nextInterval = 1 /\ bits = <<>> /\ done = FALSE
    BY DEF Init, Recordings
  <1>2. Reads(recording.intervals, Position)
    <2> SUFFICES ASSUME NEW W, NEW E, IsReading(recording.intervals, W, E)
                 PROVE  \E m \in 0 .. Len(W) : AreRead(recording.intervals, W, E, Position, m)
      BY DEF Reads
    <2>1. Len(W) \in Nat /\ E[0] = 1
      BY DEF IsReading
    <2>2. Position.at = 1 /\ Position.bits = <<>>
      BY <1>1 DEF Position
    <2>3. AreRead(recording.intervals, W, E, Position, 0)
      BY <2>1, <2>2 DEF AreRead
    <2> QED
      BY <2>1, <2>3
  <1> QED
    BY <1>1, <1>2 DEF ReadingInv

\* And every step keeps it.
LEMMA ReadingNext == ReadingInv /\ [Next]_vars => ReadingInv'
  <1> SUFFICES ASSUME ReadingInv, [Next]_vars PROVE ReadingInv'
    OBVIOUS
  <1>1. CASE ReadBits
    <2>1. recording' = recording /\ done' = done /\ nextInterval <= Len(recording.intervals)
      BY <1>1 DEF ReadBits
    <2>2. Reads(recording'.intervals, Position') /\ nextInterval' \in Nat
      BY <1>1, ReadBitsReads DEF ReadingInv
    <2>3. ~done
      <3> SUFFICES ASSUME done PROVE FALSE
        OBVIOUS
      <3>1. nextInterval > Len(recording.intervals)
        BY DEF ReadingInv
      <3> QED
        BY <2>1, <3>1 DEF ReadingInv
    <2> QED
      BY <2>1, <2>2, <2>3 DEF ReadingInv
  <1>2. CASE FindFrames
    <2>1. /\ recording' = recording /\ nextInterval' = nextInterval /\ bits' = bits
          /\ nextInterval > Len(recording.intervals)
          /\ found' = FoundIn(Closed)
      BY <1>2 DEF FindFrames, FoundIn, Nth
    <2>2. Closed' = Closed /\ Position' = Position
      BY <2>1 DEF Closed, Position
    <2> QED
      BY <2>1, <2>2 DEF ReadingInv
  <1>3. CASE UNCHANGED vars
    BY <1>3 DEF vars, ReadingInv, Position, Closed
  <1> QED
    BY <1>1, <1>2, <1>3 DEF Next

\* At the end all is read.
LEMMA AllIsRead ==
    ASSUME ReadingInv, done, NEW W, NEW E, IsReading(recording.intervals, W, E)
    PROVE  bits \in Seq(Bit) /\ Len(bits) = Len(W) /\ \A i \in 1 .. Len(W) : bits[i] = W[i]
  <1> DEFINE y == recording.intervals
  <1>1. PICK m \in 0 .. Len(W) : AreRead(y, W, E, Position, m)
    BY DEF ReadingInv, Reads
  <1>2. nextInterval > Len(y) /\ nextInterval \in Nat
    BY DEF ReadingInv
  <1>3. /\ nextInterval = E[m] \/ (nextInterval = E[m] + 1 /\ Short(y, E[m]) /\ ~Short(y, E[m] + 1))
        /\ bits \in Seq(Bit) /\ Len(bits) = m /\ \A i \in 1 .. m : bits[i] = W[i]
    BY <1>1 DEF AreRead, Position
  <1>4. /\ Len(W) \in Nat /\ Len(y) \in Nat /\ E[m] \in Nat
        /\ m # Len(W) => Takes(y, E[m], W[m + 1], E[m + 1])
    <2>1. Len(W) \in Nat /\ Len(y) \in Nat
      BY DEF IsReading
    <2>2. m # Len(W) => m + 1 \in 1 .. Len(W) /\ (m + 1) - 1 = m
      BY <2>1
    <2>3. m # Len(W) => Takes(y, E[(m + 1) - 1], W[m + 1], E[m + 1])
      BY <2>2, Zenon DEF IsReading
    <2>4. E[m] \in Nat
      BY DEF IsReading
    <2> QED
      BY <2>1, <2>2, <2>3, <2>4
  <1> HIDE DEF y
  <1>6. m = Len(W)
    <2> SUFFICES ASSUME m # Len(W) PROVE FALSE
      OBVIOUS
    <2>1. E[m] <= Len(y)
      BY <1>4 DEF Takes, Short
    <2>2. nextInterval = E[m] + 1 /\ Short(y, E[m]) /\ ~Short(y, E[m] + 1)
      BY <1>2, <1>3, <1>4, <2>1
    <2>3. E[m] + 1 <= Len(y)
      BY <1>4, <2>2 DEF Takes
    <2> QED
      BY <1>2, <1>4, <2>2, <2>3
  <1> QED
    BY <1>3, <1>6

\* What is known of a signal and of where its bits are.
LEMMA TimedFacts ==
    ASSUME NEW T, NEW n \in Nat, NEW z, Timed(z, T, n, Places(T, n))
    PROVE  LET I == Places(T, n)
           IN  /\ z \in Seq(Nat) /\ Len(z) = I[n + 1] - 1
               /\ \A q \in 1 .. n :
                    /\ I[q] \in Nat /\ I[q] >= 1 /\ I[q + 1] \in Nat /\ I[q + 1] <= I[n + 1]
                    /\ T[q] = 1 => z[I[q]] = 2 /\ z[I[q] + 1] = 2 /\ I[q + 1] = I[q] + 2
                    /\ T[q] # 1 => z[I[q]] = 4 /\ I[q + 1] = I[q] + 1
               /\ \A q, r \in 1 .. n + 1 : q < r => I[q] < I[r]
               /\ \A q \in 1 .. n + 1 : I[q] \in Nat /\ I[q] >= q
               /\ \A j \in 1 .. Len(z) : z[j] \in Mark
  <1> DEFINE I == Places(T, n)
  <1>1. /\ I \in [1 .. n + 1 -> Nat] /\ I[1] = 1
        /\ \A q \in 1 .. n : I[q + 1] = IF T[q] = 1 THEN I[q] + 2 ELSE I[q] + 1
        /\ \A q \in 1 .. n + 1 : I[q] >= q
        /\ \A q, r \in 1 .. n + 1 : q < r => I[q] < I[r]
    BY PlacesGrow
  <1>2. /\ z \in Seq(Mark) /\ Len(z) = I[n + 1] - 1
        /\ \A q \in 1 .. n : IF T[q] = 1 THEN z[I[q]] = 2 /\ z[I[q] + 1] = 2 ELSE z[I[q]] = 4
    BY DEF Timed
  <1> HIDE DEF I
  <1>7. \A j \in 1 .. Len(z) : z[j] \in Mark
    BY <1>2, ElementOfSeq
  <1>3. z \in Seq(Nat)
    <2>1. \A j \in 1 .. Len(z) : z[j] \in Nat
      BY <1>7 DEF Mark
    <2>2. Len(z) \in Nat /\ z = [j \in 1 .. Len(z) |-> z[j]]
      BY <1>2
    <2> QED
      BY <2>1, <2>2
  <1>4. \A q \in 1 .. n : q \in 1 .. n + 1 /\ q + 1 \in 1 .. n + 1 /\ (q + 1 = n + 1 \/ q + 1 < n + 1)
    OBVIOUS
  <1>5. \A q \in 1 .. n + 1 : I[q] \in Nat /\ I[q] >= q
    BY <1>1
  <1>6. ASSUME NEW q \in 1 .. n
        PROVE  /\ I[q] \in Nat /\ I[q] >= 1 /\ I[q + 1] \in Nat /\ I[q + 1] <= I[n + 1]
               /\ T[q] = 1 => z[I[q]] = 2 /\ z[I[q] + 1] = 2 /\ I[q + 1] = I[q] + 2
               /\ T[q] # 1 => z[I[q]] = 4 /\ I[q + 1] = I[q] + 1
    <2>1. I[q] \in Nat /\ I[q] >= 1 /\ I[q + 1] \in Nat
      BY <1>4, <1>5
    <2>2. I[q + 1] <= I[n + 1]
      <3>1. n + 1 \in 1 .. n + 1 /\ I[n + 1] \in Nat
        BY <1>5
      <3>2. q + 1 < n + 1 => I[q + 1] < I[n + 1]
        BY <1>1, <1>4, <3>1
      <3> QED
        BY <1>4, <2>1, <3>1, <3>2
    <2> QED
      BY <1>1, <1>2, <2>1, <2>2
  <1> QED
    BY <1>1, <1>2, <1>3, <1>5, <1>6, <1>7 DEF I

\* In y the intervals of the bit q are those of z, but d further on.
Keeps(y, z, I, q, d) ==
    \A j \in I[q] .. I[q + 1] - 1 : j + d >= 1 /\ j + d <= Len(y) /\ y[j + d] = z[j]

\* A bit of which the intervals are there is read as it was sent, from its first
\* interval or from the short one before it.
LEMMA BitTakes ==
    ASSUME NEW T, NEW n \in Nat, T \in [1 .. n -> Bit], NEW z, Timed(z, T, n, Places(T, n)),
           NEW y \in Seq(Nat), NEW d \in Int, NEW q \in 1 .. n, Keeps(y, z, Places(T, n), q, d)
    PROVE  LET I == Places(T, n)
           IN  /\ Takes(y, I[q] + d, T[q], I[q + 1] + d)
               /\ Short(y, I[q] + d - 1) =>
                    Takes(y, I[q] + d - 1, T[q], I[q + 1] + d - IF T[q] = 1 THEN 1 ELSE 0)
               /\ T[q] = 1 => Short(y, I[q + 1] + d - 1)
  <1> DEFINE I == Places(T, n)
  <1>1. /\ I[q] \in Nat /\ I[q + 1] \in Nat
        /\ T[q] = 1 => z[I[q]] = 2 /\ z[I[q] + 1] = 2 /\ I[q + 1] = I[q] + 2
        /\ T[q] # 1 => z[I[q]] = 4 /\ I[q + 1] = I[q] + 1
    BY TimedFacts
  <1>2. \A j \in I[q] .. I[q + 1] - 1 : j + d >= 1 /\ j + d <= Len(y) /\ y[j + d] = z[j]
    BY DEF Keeps
  <1> HIDE DEF I
  <1>3. T[q] = 0 \/ T[q] = 1
    BY DEF Bit
  <1>4. CASE T[q] = 1
    <2>1. I[q] \in I[q] .. I[q + 1] - 1 /\ I[q] + 1 \in I[q] .. I[q + 1] - 1
      BY SMTT(30), <1>1, <1>4
    <2>2. /\ I[q] + d <= Len(y) /\ y[I[q] + d] = 2
          /\ I[q] + 1 + d <= Len(y) /\ y[I[q] + 1 + d] = 2
      BY <1>1, <1>2, <1>4, <2>1
    <2>3. /\ I[q] + 1 + d = I[q] + d + 1 /\ I[q + 1] + d = I[q] + d + 2
          /\ I[q + 1] + d - 1 = I[q] + d - 1 + 2 /\ I[q] + d - 1 + 1 = I[q] + d
          /\ I[q + 1] + d - 1 = I[q] + d + 1
      <3>1. I[q] \in Nat /\ I[q + 1] = I[q] + 2 /\ d \in Int
        BY <1>1, <1>4
      <3>2. \A m \in Nat, e \in Int :
              /\ m + 1 + e = m + e + 1 /\ m + 2 + e = m + e + 2
              /\ m + 2 + e - 1 = m + e - 1 + 2 /\ m + e - 1 + 1 = m + e
              /\ m + 2 + e - 1 = m + e + 1
        BY ONLY TRUE
      <3> DEFINE m == I[q]
      <3>3. I[q + 1] = m + 2 /\ m \in Nat /\ d \in Int /\ I[q] = m
        BY ONLY <3>1
      <3> HIDE DEF m
      <3> QED
        BY ONLY <3>2, <3>3
    <2>4. Short(y, I[q] + d) /\ Short(y, I[q] + d + 1)
      BY <2>2, <2>3 DEF Short
    <2>5. Takes(y, I[q] + d, T[q], I[q + 1] + d) /\ Short(y, I[q + 1] + d - 1)
      BY <1>4, <2>3, <2>4 DEF Takes
    <2>6. Short(y, I[q] + d - 1) => Takes(y, I[q] + d - 1, T[q], I[q + 1] + d - 1)
      BY <1>4, <2>3, <2>4 DEF Takes
    <2> QED
      BY <1>4, <2>5, <2>6 DEF I
  <1>5. CASE T[q] = 0
    <2>1. I[q] \in I[q] .. I[q + 1] - 1
      BY <1>1, <1>5
    <2>2. I[q] + d <= Len(y) /\ y[I[q] + d] = 4
      BY <1>1, <1>2, <1>5, <2>1
    <2>3. /\ I[q + 1] + d = I[q] + d + 1 /\ I[q + 1] + d - 0 = I[q] + d - 1 + 2
          /\ I[q] + d - 1 + 1 = I[q] + d
      BY SMTT(30), <1>1, <1>5
    <2>4. ~Short(y, I[q] + d)
      BY <2>2 DEF Short
    <2>5. Takes(y, I[q] + d, T[q], I[q + 1] + d)
      BY <1>5, <2>2, <2>3, <2>4 DEF Takes
    <2>6. Short(y, I[q] + d - 1) => Takes(y, I[q] + d - 1, T[q], I[q + 1] + d - 0)
      BY <1>5, <2>2, <2>3, <2>4 DEF Takes
    <2> QED
      BY <1>5, <2>5, <2>6 DEF I
  <1> QED
    BY <1>3, <1>4, <1>5

\* The signal z is that of the bits T, of which the last two are those of a
\* sync word.
Carries(z, T, L) ==
    /\ L \in Nat /\ L >= 320 /\ T \in [1 .. L -> Bit] /\ T[L] = 1 /\ T[L - 1] = 0
    /\ Timed(z, T, L, Places(T, L))

\* The bits and the intervals of a whole signal.
LEMMA CarriesFacts ==
    ASSUME NEW T, NEW L, NEW z, Carries(z, T, L)
    PROVE  LET I == Places(T, L)
           IN  /\ L \in Nat /\ L >= 320 /\ T \in [1 .. L -> Bit] /\ T[L] = 1 /\ T[L - 1] = 0
               /\ Timed(z, T, L, Places(T, L))
               /\ z \in Seq(Nat) /\ Len(z) = I[L] + 1 /\ I[1] = 1 /\ I[L] >= L
               /\ \A q \in 1 .. L : /\ I[q] \in Nat /\ I[q] >= 1 /\ I[q + 1] \in Nat
                                    /\ T[q] = 0 \/ T[q] = 1
                                    /\ T[q] = 1 => z[I[q]] = 2 /\ z[I[q] + 1] = 2 /\ I[q + 1] = I[q] + 2
                                    /\ T[q] # 1 => z[I[q]] = 4 /\ I[q + 1] = I[q] + 1
               /\ \A q, r \in 1 .. L + 1 : q < r => I[q] < I[r]
               /\ \A j \in 1 .. Len(z) : z[j] = 2 \/ z[j] = 4
               /\ I[L + 1] = I[L] + 2 /\ z[I[L]] = 2 /\ z[I[L] + 1] = 2 /\ I[L] = I[L - 1] + 1
  <1> DEFINE I == Places(T, L)
  <1>1. /\ L \in Nat /\ L >= 320 /\ T \in [1 .. L -> Bit] /\ T[L] = 1 /\ T[L - 1] = 0
        /\ Timed(z, T, L, Places(T, L))
    BY DEF Carries
  <1>2. /\ z \in Seq(Nat) /\ Len(z) = I[L + 1] - 1
        /\ \A q \in 1 .. L :
             /\ I[q] \in Nat /\ I[q] >= 1 /\ I[q + 1] \in Nat
             /\ T[q] = 1 => z[I[q]] = 2 /\ z[I[q] + 1] = 2 /\ I[q + 1] = I[q] + 2
             /\ T[q] # 1 => z[I[q]] = 4 /\ I[q + 1] = I[q] + 1
        /\ \A q, r \in 1 .. L + 1 : q < r => I[q] < I[r]
        /\ \A q \in 1 .. L + 1 : I[q] \in Nat /\ I[q] >= q
        /\ \A j \in 1 .. Len(z) : z[j] \in Mark
    <2>1. L \in Nat /\ Timed(z, T, L, Places(T, L))
      BY <1>1
    <2> QED
      BY ONLY <2>1, TimedFacts, SMTT(30)
  <1>3. I[1] = 1
    BY <1>1, PlacesGrow
  <1> HIDE DEF I
  <1>4. \A j \in 1 .. Len(z) : z[j] = 2 \/ z[j] = 4
    BY <1>2 DEF Mark
  <1>5. \A q \in 1 .. L : T[q] = 0 \/ T[q] = 1
    BY <1>1 DEF Bit
  <1>6. L \in 1 .. L /\ L - 1 \in 1 .. L /\ (L - 1) + 1 = L /\ L \in 1 .. L + 1
    BY <1>1
  <1>7. I[L + 1] = I[L] + 2 /\ z[I[L]] = 2 /\ z[I[L] + 1] = 2 /\ I[L] >= L
    BY <1>1, <1>2, <1>6
  <1>8. I[L] = I[L - 1] + 1
    BY <1>1, <1>2, <1>6
  <1>9. Len(z) = I[L] + 1
    BY <1>2, <1>6, <1>7
  <1>10. \A q \in 1 .. L :
             /\ I[q] \in Nat /\ I[q] >= 1 /\ I[q + 1] \in Nat
             /\ T[q] = 0 \/ T[q] = 1
             /\ T[q] = 1 => z[I[q]] = 2 /\ z[I[q] + 1] = 2 /\ I[q + 1] = I[q] + 2
             /\ T[q] # 1 => z[I[q]] = 4 /\ I[q + 1] = I[q] + 1
    BY <1>2, <1>5
  <1> QED
    BY <1>1, <1>2, <1>3, <1>4, <1>7, <1>8, <1>9, <1>10 DEF I

\* The bits W are those of T from a place on, but for the bit b; or b is a
\* zero and those after it come one earlier.
Like(W, T, c, b) == \A i \in 1 .. Len(W) : i # b => W[i] = T[i + c]

\* The word W is the word T without a bit, from bit b on.
Slip(W, T, b) ==
    /\ \A i \in 1 .. b - 1 : W[i] = T[i]
    /\ W[b] = 0
    /\ \A i \in b + 1 .. Len(W) : W[i] = T[i + 1]

\* Of y the first n bits can be read as they were sent, and no more.
IsHead(y, z, T, L, n) ==
    /\ y \in Seq(Nat) /\ n \in 0 .. L
    /\ \A i \in 1 .. n : Keeps(y, z, Places(T, L), i, 0)
                         \/ Takes(y, Places(T, L)[i], T[i], Places(T, L)[i + 1])
    /\ \/ Places(T, L)[n + 1] = Len(y) + 1
       \/ Places(T, L)[n + 1] = Len(y) /\ Short(y, Len(y))

\* A signal of which the head is there reads as the bits of that head.
LEMMA HeadReads ==
    ASSUME NEW T, NEW L, NEW z, Carries(z, T, L), NEW y, NEW n, IsHead(y, z, T, L, n)
    PROVE  \E W, E : IsReading(y, W, E) /\ Len(W) = n /\ Like(W, T, 0, 0)
  <1> DEFINE I == Places(T, L)
             W == [i \in 1 .. n |-> T[i]]
             E == [i \in 0 .. n |-> I[i + 1]]
  <1>h. /\ L \in Nat /\ T \in [1 .. L -> Bit] /\ Timed(z, T, L, Places(T, L))
        /\ y \in Seq(Nat) /\ n \in 0 .. L
        /\ \A i \in 1 .. n : Keeps(y, z, I, i, 0) \/ Takes(y, I[i], T[i], I[i + 1])
        /\ I[n + 1] = Len(y) + 1 \/ (I[n + 1] = Len(y) /\ Short(y, Len(y)))
    <2>1. L \in Nat /\ T \in [1 .. L -> Bit] /\ Timed(z, T, L, Places(T, L))
      BY Zenon DEF Carries
    <2>2. /\ y \in Seq(Nat) /\ n \in 0 .. L
          /\ \A i \in 1 .. n : Keeps(y, z, I, i, 0) \/ Takes(y, I[i], T[i], I[i + 1])
          /\ I[n + 1] = Len(y) + 1 \/ (I[n + 1] = Len(y) /\ Short(y, Len(y)))
      BY Zenon DEF IsHead
    <2> QED
      BY ONLY <2>1, <2>2, Zenon
  <1>0. n \in Nat /\ \A i \in 1 .. n : i \in 1 .. L
    BY <1>h
  <1>1. W \in Seq(Bit) /\ Len(W) = n /\ \A i \in 1 .. n : W[i] = T[i]
    <2>1. \A i \in 1 .. n : T[i] \in Bit
      BY <1>0, <1>h
    <2> QED
      BY <1>0, <2>1
  <1>2. \A i \in 1 .. L + 1 : I[i] \in Nat
    BY <1>h, TimedFacts
  <1>3. I[1] = 1
    BY <1>h, PlacesGrow
  <1>4. \A i \in 1 .. n : Takes(y, I[i], T[i], I[i + 1])
    <2> SUFFICES ASSUME NEW i \in 1 .. n, Keeps(y, z, I, i, 0)
                 PROVE  Takes(y, I[i], T[i], I[i + 1])
      BY <1>h
    <2>0. i \in 1 .. L /\ 0 \in Int /\ L \in Nat /\ T \in [1 .. L -> Bit]
          /\ Timed(z, T, L, Places(T, L)) /\ y \in Seq(Nat) /\ Keeps(y, z, Places(T, L), i, 0)
      BY <1>0, <1>h
    <2>1. Takes(y, I[i] + 0, T[i], I[i + 1] + 0)
      BY ONLY <2>0, BitTakes
    <2>2. I[i] + 0 = I[i] /\ I[i + 1] + 0 = I[i + 1]
      BY ONLY <2>0, <1>2
    <2> QED
      BY <2>1, <2>2
  <1>5. /\ E[0] = 1 /\ \A i \in 0 .. n : E[i] \in Nat /\ E[i] = I[i + 1]
        /\ \A i \in 1 .. n : E[i - 1] = I[i]
    <2>1. /\ \A i \in 0 .. n : i + 1 \in 1 .. L + 1
          /\ \A i \in 1 .. n : i - 1 \in 0 .. n /\ (i - 1) + 1 = i
          /\ 0 \in 0 .. n /\ 0 + 1 = 1
      BY <1>h
    <2> HIDE DEF I
    <2> QED
      BY <1>2, <1>3, <2>1
  <1>6. n \in 0 .. n /\ \A i \in 1 .. n : i \in 0 .. n
    BY <1>h
  <1> HIDE DEF W, E, I
  <1>7. \A i \in 1 .. n : Takes(y, E[i - 1], W[i], E[i])
    BY <1>1, <1>4, <1>5, <1>6
  <1>8. E[n] = Len(y) + 1 \/ (E[n] = Len(y) /\ Short(y, Len(y)))
    BY <1>5, <1>6, <1>h
  <1>9. IsReading(y, W, E)
    BY <1>1, <1>5, <1>7, <1>8, <1>h DEF IsReading
  <1>10. Like(W, T, 0, 0)
    <2>1. \A i \in 1 .. n : i + 0 = i
      BY <1>0
    <2> QED
      BY <1>1, <2>1 DEF Like
  <1> QED
    BY <1>1, <1>9, <1>10

\* Whether the reader is an interval short of where the bit q ends.
Trails(T, a, q, off) == off = 1 /\ \A k \in a .. q : T[k] = 1

\* The first h bits are read as they were sent, then comes v, and then, c bits
\* further on, those to the end but for the last one.
IsSplice(y, z, T, L, h, c, v, d, off) ==
    /\ y \in Seq(Nat) /\ h \in Nat /\ c \in Nat /\ h + 2 + c <= L
    /\ v \in Bit /\ d \in Int /\ off \in {0, 1}
    /\ off = 1 => h + 2 + c < L
    /\ Len(y) = Places(T, L)[L] + d
    /\ \A i \in 1 .. h : Keeps(y, z, Places(T, L), i, 0)
    /\ Takes(y, Places(T, L)[h + 1], v, Places(T, L)[h + 2 + c] + d - off)
    /\ off = 1 => Short(y, Places(T, L)[h + 2 + c] + d - 1)
    /\ \A i \in h + 2 + c .. L - 1 : Keeps(y, z, Places(T, L), i, d)
    /\ Short(y, Len(y))

\* A signal in which one place is spliced reads as the bits before it, what is
\* read there, and the bits after it, in step or one bit early.
LEMMA SpliceReads ==
    ASSUME NEW T, NEW L, NEW z, Carries(z, T, L),
           NEW y, NEW h, NEW c, NEW v, NEW d, NEW off, IsSplice(y, z, T, L, h, c, v, d, off)
    PROVE  \E W, E :
             /\ IsReading(y, W, E) /\ Len(W) = L - 1 - c
             /\ c = 0 => Like(W, T, 0, h + 1)
             /\ h = 0 /\ v = T[1 + c] => Like(W, T, c, 0)
             /\ c = 1 /\ v = 0 => Slip(W, T, h + 1)
  <1> DEFINE I == Places(T, L)
             a == h + 2 + c
             n == L - 1 - c
             W == [i \in 1 .. n |-> IF i <= h THEN T[i] ELSE IF i = h + 1 THEN v ELSE T[i + c]]
             after(q) == I[q + 1] + d - IF Trails(T, a, q, off) THEN 1 ELSE 0
             E == [i \in 0 .. n |-> IF i <= h THEN I[i + 1] ELSE after(i + c)]
  <1>h. /\ L \in Nat /\ T \in [1 .. L -> Bit] /\ Timed(z, T, L, Places(T, L))
        /\ T[L] = 1 /\ T[L - 1] = 0
        /\ y \in Seq(Nat) /\ h \in Nat /\ c \in Nat /\ h + 2 + c <= L
        /\ v \in Bit /\ d \in Int /\ off \in {0, 1}
        /\ off = 1 => h + 2 + c < L
        /\ Len(y) = I[L] + d
        /\ \A i \in 1 .. h : Keeps(y, z, I, i, 0)
        /\ Takes(y, I[h + 1], v, I[h + 2 + c] + d - off)
        /\ off = 1 => Short(y, I[h + 2 + c] + d - 1)
        /\ \A i \in h + 2 + c .. L - 1 : Keeps(y, z, I, i, d)
        /\ Short(y, Len(y))
    BY DEF Carries, IsSplice
  <1> USE <1>h
  <1>0. /\ n \in Nat /\ n >= h + 1 /\ L - 1 \in Nat /\ L - 1 >= 1
        /\ \A i \in 1 .. h : i \in 1 .. n /\ i \in 1 .. L /\ i # h + 1
        /\ h + 1 \in 1 .. n /\ ~(h + 1 <= h)
        /\ \A i \in h + 2 .. n : /\ i \in 1 .. n /\ ~(i <= h) /\ i # h + 1 /\ ~(i - 1 <= h)
                                 /\ i + c \in a .. L - 1 /\ i + c \in 1 .. L /\ i \in Nat
        /\ \A i \in 1 .. n : i \in 1 .. h \/ i = h + 1 \/ i \in h + 2 .. n
    OBVIOUS
  <1>1. /\ W \in Seq(Bit) /\ Len(W) = n
        /\ \A i \in 1 .. h : W[i] = T[i]
        /\ W[h + 1] = v
        /\ \A i \in h + 2 .. n : W[i] = T[i + c]
    <2> HIDE DEF n
    <2>1. \A i \in 1 .. n : W[i] = IF i <= h THEN T[i] ELSE IF i = h + 1 THEN v ELSE T[i + c]
      OBVIOUS
    <2>2. /\ \A i \in 1 .. h : W[i] = T[i]
          /\ W[h + 1] = v
          /\ \A i \in h + 2 .. n : W[i] = T[i + c]
      <3> HIDE DEF W
      <3> QED
        BY <1>0, <2>1
    <2>3. \A i \in 1 .. n : W[i] \in Bit
      <3> HIDE DEF W
      <3> QED
        BY <1>0, <2>2
    <2>4. W \in Seq(Bit) /\ Len(W) = n
      BY <1>0, <2>3
    <2> QED
      BY <2>2, <2>4
  <1>2. \A i \in 1 .. L + 1 : I[i] \in Nat /\ I[i] >= 1
    <2>1. \A i \in 1 .. L + 1 : I[i] \in Nat /\ I[i] >= i
      BY TimedFacts
    <2> QED
      BY SMTT(30), <2>1
  <1>3. I[1] = 1
    BY PlacesGrow
  <1>4. ASSUME NEW q \in a - 1 .. L - 1
        PROVE  Trails(T, a, q, off) => Short(y, after(q)) /\ q # L - 1
    <2> SUFFICES ASSUME Trails(T, a, q, off)
                 PROVE  Short(y, I[q + 1] + d - 1) /\ q # L - 1
      OBVIOUS
    <2>1. off = 1 /\ \A k \in a .. q : T[k] = 1
      BY DEF Trails
    <2>2. q # L - 1
      <3>1. q = L - 1 => q \in a .. q
        BY <2>1
      <3>2. 0 # 1
        OBVIOUS
      <3> QED
        BY <2>1, <3>1, <3>2
    <2>3. CASE q = a - 1
      <3>1. q + 1 = a
        BY <2>3
      <3> QED
        BY <2>1, <2>2, <3>1
    <2>4. CASE q # a - 1
      <3>1. q \in a .. L - 1 /\ q \in a .. q /\ q \in 1 .. L
        BY <2>4
      <3>2. T[q] = 1 /\ Keeps(y, z, I, q, d)
        BY <2>1, <3>1
      <3> QED
        BY <2>2, <3>1, <3>2, BitTakes
    <2> QED
      BY <2>3, <2>4
  <1>5. ASSUME NEW q \in a .. L - 1 PROVE Takes(y, after(q - 1), T[q], after(q))
    <2>1. q \in 1 .. L /\ q - 1 \in a - 1 .. L - 1 /\ (q - 1) + 1 = q
      OBVIOUS
    <2>2. Keeps(y, z, I, q, d)
      OBVIOUS
    <2>3. /\ Takes(y, I[q] + d, T[q], I[q + 1] + d)
          /\ Short(y, I[q] + d - 1) =>
               Takes(y, I[q] + d - 1, T[q], I[q + 1] + d - IF T[q] = 1 THEN 1 ELSE 0)
      BY <2>1, <2>2, BitTakes
    <2>4. Trails(T, a, q, off) <=> Trails(T, a, q - 1, off) /\ T[q] = 1
      <3>1. \A k \in a .. q : k = q \/ k \in a .. q - 1
        OBVIOUS
      <3>2. q \in a .. q /\ \A k \in a .. q - 1 : k \in a .. q
        OBVIOUS
      <3> HIDE DEF a
      <3> QED
        BY <3>1, <3>2 DEF Trails
    <2>5. I[q] + d - 0 = I[q] + d /\ I[q + 1] + d - 0 = I[q + 1] + d
      <3>1. I[q] \in Nat /\ I[q + 1] \in Nat /\ d \in Int
        BY SMTT(30), <1>2, <2>1
      <3> QED
        BY ONLY <3>1
    <2>6. CASE Trails(T, a, q - 1, off)
      <3>1. after(q - 1) = I[q] + d - 1
        BY <2>1, <2>6
      <3>2. Short(y, I[q] + d - 1)
        BY <1>4, <2>1, <2>6
      <3>3. after(q) = I[q + 1] + d - IF T[q] = 1 THEN 1 ELSE 0
        BY <2>4, <2>6
      <3> QED
        BY <2>3, <3>1, <3>2, <3>3
    <2>7. CASE ~Trails(T, a, q - 1, off)
      <3>1. after(q - 1) = I[q] + d - 0
        BY <2>1, <2>7
      <3>2. after(q) = I[q + 1] + d - 0
        BY <2>4, <2>7
      <3> QED
        BY <2>3, <2>5, <3>1, <3>2
    <2> QED
      BY <2>6, <2>7
  <1>6. after(a - 1) = I[a] + d - off
    <2>1. Trails(T, a, a - 1, off) <=> off = 1
      BY DEF Trails
    <2>2. (a - 1) + 1 = a
      OBVIOUS
    <2> HIDE DEF a
    <2> QED
      BY <2>1, <2>2
  <1>7. \A i \in 1 .. h : Takes(y, I[i], T[i], I[i + 1])
    <2> SUFFICES ASSUME NEW i \in 1 .. h PROVE Takes(y, I[i], T[i], I[i + 1])
      OBVIOUS
    <2>0. i \in 1 .. L /\ i + 1 \in 1 .. L + 1 /\ i \in 1 .. L + 1
      BY <1>0
    <2>3. Keeps(y, z, I, i, 0) /\ 0 \in Int
      OBVIOUS
    <2>1. Takes(y, I[i] + 0, T[i], I[i + 1] + 0)
      BY <2>0, <2>3, BitTakes
    <2>2. I[i] + 0 = I[i] /\ I[i + 1] + 0 = I[i + 1]
      BY ONLY <2>0, <1>2
    <2> QED
      BY <2>1, <2>2
  <1>8. /\ \A i \in 0 .. h : E[i] = I[i + 1]
        /\ \A i \in h + 1 .. n : E[i] = after(i + c)
        /\ E[0] = 1
    <2>1. /\ \A i \in 0 .. h : i \in 0 .. n /\ i <= h
          /\ \A i \in h + 1 .. n : i \in 0 .. n /\ ~(i <= h)
          /\ 0 \in 0 .. h /\ 0 + 1 = 1
      BY <1>0
    <2> HIDE DEF n, I, a, after
    <2> QED
      BY <1>3, <2>1
  <1> HIDE DEF W, E
  <1>9. ASSUME NEW i \in 1 .. n PROVE Takes(y, E[i - 1], W[i], E[i])
    <2>1. CASE i \in 1 .. h
      <3>1. i \in 0 .. h /\ i - 1 \in 0 .. h /\ (i - 1) + 1 = i
        BY <2>1
      <3>2. E[i] = I[i + 1] /\ E[i - 1] = I[i] /\ W[i] = T[i]
        BY <1>1, <1>8, <2>1, <3>1
      <3> QED
        BY <1>7, <2>1, <3>2
    <2>2. CASE i = h + 1
      <3>1. i - 1 = h /\ h \in 0 .. h /\ i \in h + 1 .. n /\ i + c = a - 1
        BY <1>0, <2>2
      <3> HIDE DEF a, after, n
      <3>2. E[i - 1] = I[h + 1] /\ E[i] = after(a - 1) /\ W[i] = v
        BY <1>1, <1>8, <2>2, <3>1
      <3>3. Takes(y, I[h + 1], v, I[a] + d - off)
        BY DEF a
      <3> QED
        BY <1>6, <3>2, <3>3
    <2>3. CASE i \in h + 2 .. n
      <3>1. i - 1 \in h + 1 .. n /\ i \in h + 1 .. n /\ (i - 1) + c = (i + c) - 1
            /\ i + c \in a .. L - 1
        BY <1>0, <2>3
      <3> HIDE DEF a, after, n
      <3>2. E[i - 1] = after((i + c) - 1) /\ E[i] = after(i + c) /\ W[i] = T[i + c]
        BY <1>1, <1>8, <2>3, <3>1
      <3> QED
        BY <1>5, <3>1, <3>2
    <2> QED
      BY <1>0, <2>1, <2>2, <2>3
  <1>10. E[n] = Len(y)
    <2>1. n \in h + 1 .. n /\ n + c = L - 1 /\ L - 1 \in a - 1 .. L - 1 /\ (L - 1) + 1 = L
      BY <1>0
    <2>2. ~Trails(T, a, L - 1, off)
      BY <1>4, <2>1
    <2>3. I[L] + d - 0 = I[L] + d
      BY <1>2
    <2> HIDE DEF a, n
    <2> QED
      BY <1>8, <2>1, <2>2, <2>3
  <1>11. ASSUME NEW i \in 0 .. n PROVE E[i] \in Nat
    <2>1. CASE i \in 0 .. h
      <3>1. i + 1 \in 1 .. L + 1
        BY <2>1
      <3> QED
        BY <1>2, <1>8, <2>1, <3>1
    <2>2. CASE i \in h + 1 .. n
      <3>1. i \in 1 .. n
        BY <2>2
      <3>2. Takes(y, E[i - 1], W[i], E[i])
        BY <1>9, <3>1
      <3>3. E[i] = after(i + c) /\ i + c + 1 \in 1 .. L + 1 /\ i + c = (i + c)
        BY <1>8, <2>2
      <3>4. I[i + c + 1] \in Nat /\ I[i + c + 1] >= 1
        BY <1>2, <3>3
      <3>5. E[i] \in Int
        BY SMTT(30), <3>3, <3>4
      <3>6. E[i] >= 0
        \* An interval read is not before the first.
        <4>1. i + c \in a - 1 .. L - 1
          BY <2>2
        <4>2. CASE i + c = a - 1
          <5>1. E[i] = I[a] + d - off /\ i = h + 1 /\ i - 1 = h /\ E[i - 1] = I[h + 1]
            <6>1. i = h + 1 /\ i - 1 = h /\ h \in 0 .. h
              BY <4>2
            <6>2. E[i - 1] = I[h + 1]
              BY ONLY <1>8, <6>1
            <6>3. E[i] = after(a - 1)
              BY ONLY <3>3, <4>2
            <6> QED
              BY ONLY <1>6, <6>1, <6>2, <6>3
          <5>2. I[h + 1] \in Nat
            BY <1>2, <1>0
          <5> QED
            <6>1. E[i] = E[i - 1] + 1 \/ E[i] = E[i - 1] + 2
              BY ONLY <3>2, Zenon DEF Takes
            <6> HIDE DEF a, after, n
            <6> QED
              BY ONLY <3>5, <5>1, <5>2, <6>1
        <4>3. CASE i + c # a - 1
          <5>1. i + c \in a .. L - 1 /\ i + c \in 1 .. L
            BY <4>1, <4>3
          <5>2. Keeps(y, z, I, i + c, d)
            BY <5>1
          <5>3. I[i + c] \in Nat /\ I[i + c] <= I[i + c + 1] - 1
            <6>1. /\ I[i + c] \in Nat /\ I[i + c + 1] \in Nat
                  /\ T[i + c] = 1 => I[i + c + 1] = I[i + c] + 2
                  /\ T[i + c] # 1 => I[i + c + 1] = I[i + c] + 1
              <7>1. L \in Nat /\ Timed(z, T, L, I)
                OBVIOUS
              <7> QED
                BY ONLY <5>1, <7>1, TimedFacts
            <6> QED
              BY ONLY <6>1
          <5>4. I[i + c + 1] - 1 \in I[i + c] .. I[i + c + 1] - 1
            BY SMTT(30), <5>3, <3>4
          <5>5. I[i + c + 1] - 1 + d >= 1
            BY <5>2, <5>4 DEF Keeps
          <5> QED
            BY SMTT(30), <3>3, <3>4, <5>5
        <4> QED
          BY <4>2, <4>3
      <3> QED
        BY <3>5, <3>6
    <2>3. i \in 0 .. h \/ i \in h + 1 .. n
      BY <1>0
    <2> QED
      BY <2>1, <2>2, <2>3
  <1>12. IsReading(y, W, E)
    BY <1>1, <1>8, <1>9, <1>10, <1>11 DEF IsReading
  <1>13. c = 0 => Like(W, T, 0, h + 1)
    <2>1. \A i \in 1 .. n : i + 0 = i
      BY <1>0
    <2>2. \A i \in h + 2 .. n : c = 0 => i + c = i
      BY <1>0
    <2> HIDE DEF n
    <2> QED
      BY <1>0, <1>1, <2>1, <2>2 DEF Like
  <1>14. h = 0 /\ v = T[1 + c] => Like(W, T, c, 0)
    <2> SUFFICES ASSUME h = 0, v = T[1 + c], NEW i \in 1 .. n PROVE W[i] = T[i + c]
      BY <1>1 DEF Like
    <2>1. CASE i = h + 1
      <3>1. i = 1
        BY <2>1
      <3> QED
        BY <1>1, <2>1, <3>1
    <2>2. CASE i \in h + 2 .. n
      BY <1>1, <2>2
    <2>3. i = h + 1 \/ i \in h + 2 .. n
      BY <1>0
    <2> QED
      BY <2>1, <2>2, <2>3
  <1>15. c = 1 /\ v = 0 => Slip(W, T, h + 1)
    <2>1. h + 1 - 1 = h /\ h + 1 + 1 = h + 2
      BY <1>0
    <2> HIDE DEF n
    <2> SUFFICES ASSUME c = 1, v = 0
                 PROVE  /\ \A i \in 1 .. h : W[i] = T[i]
                        /\ W[h + 1] = 0
                        /\ \A i \in h + 2 .. n : W[i] = T[i + 1]
      BY <1>1, <2>1 DEF Slip
    <2>2. c = 1 /\ v = 0
      OBVIOUS
    <2> QED
      BY ONLY <1>1, <2>2
  <1> QED
    BY <1>1, <1>12, <1>13, <1>14, <1>15

\* What the elements of a part of a sequence are.
LEMMA PartIndex ==
    ASSUME NEW S, NEW z \in Seq(S), NEW m \in Nat \ {0}, NEW n \in Nat, m <= n + 1, n <= Len(z)
    PROVE  /\ SubSeq(z, m, n) \in Seq(S) /\ Len(SubSeq(z, m, n)) = n + 1 - m
           /\ \A i \in 1 .. n + 1 - m : SubSeq(z, m, n)[i] = z[m - 1 + i]
  <1>1. \A i \in 1 .. n + 1 - m : m - 1 + i \in 1 .. Len(z) /\ i + m - 1 = m - 1 + i
    OBVIOUS
  <1>2. n + 1 - m \in Nat
    OBVIOUS
  <1>3. \A i \in m .. n : i \in 1 .. Len(z) /\ z[i] \in S
    BY ElementOfSeq
  <1>4. SubSeq(z, m, n) = [i \in 1 .. n + 1 - m |-> z[i + m - 1]]
    BY <1>2
  <1> QED
    BY <1>1, <1>2, <1>3, <1>4

\* The numbers w are those of z from m to n.
IsPartOf(w, z, m, n) ==
    /\ w \in Seq(Nat) /\ Len(w) = n + 1 - m
    /\ \A i \in 1 .. n + 1 - m : w[i] = z[m - 1 + i]

\* The same of numbers.
LEMMA NumbersPart ==
    ASSUME NEW z \in Seq(Nat), NEW m \in Nat \ {0}, NEW n \in Nat, m <= n + 1, n <= Len(z)
    PROVE  IsPartOf(SubSeq(z, m, n), z, m, n)
  <1>1. /\ SubSeq(z, m, n) \in Seq(Nat) /\ Len(SubSeq(z, m, n)) = n + 1 - m
        /\ \A i \in 1 .. n + 1 - m : SubSeq(z, m, n)[i] = z[m - 1 + i]
    BY PartIndex
  <1> QED
    BY ONLY <1>1, Zenon DEF IsPartOf

\* A sequence without its last element.
LEMMA FrontIndex ==
    ASSUME NEW w \in Seq(Nat), Len(w) >= 1
    PROVE  /\ Front(w) \in Seq(Nat) /\ Len(Front(w)) = Len(w) - 1
           /\ \A i \in 1 .. Len(w) - 1 : Front(w)[i] = w[i]
           /\ Last(w) = w[Len(w)]
  <1>1. /\ 1 \in Nat \ {0} /\ Len(w) - 1 \in Nat /\ 1 <= (Len(w) - 1) + 1 /\ Len(w) - 1 <= Len(w)
        /\ (Len(w) - 1) + 1 - 1 = Len(w) - 1 /\ \A i \in 1 .. Len(w) - 1 : 1 - 1 + i = i
    OBVIOUS
  <1>2. /\ SubSeq(w, 1, Len(w) - 1) \in Seq(Nat)
        /\ Len(SubSeq(w, 1, Len(w) - 1)) = (Len(w) - 1) + 1 - 1
        /\ \A i \in 1 .. (Len(w) - 1) + 1 - 1 : SubSeq(w, 1, Len(w) - 1)[i] = w[1 - 1 + i]
    BY <1>1, PartIndex
  <1> QED
    BY <1>1, <1>2 DEF Front, Last

\* A crossing that is lost makes one interval of two.
LEMMA WithoutIndex ==
    ASSUME NEW z \in Seq(Nat), NEW j \in 1 .. Len(z) - 1
    PROVE  LET w == WithoutCrossing(z, j)
           IN  /\ w \in Seq(Nat) /\ Len(w) = Len(z) - 1
               /\ \A i \in 1 .. j - 1 : w[i] = z[i]
               /\ w[j] = z[j] + z[j + 1]
               /\ \A i \in j + 1 .. Len(z) - 1 : w[i] = z[i + 1]
  <1> DEFINE p == SubSeq(z, 1, j - 1)
             m == <<z[j] + z[j + 1]>>
             r == SubSeq(z, j + 2, Len(z))
             pm == p \o m
             w == pm \o r
  <1>1. z[j] \in Nat /\ z[j + 1] \in Nat
    <2>1. j \in 1 .. Len(z) /\ j + 1 \in 1 .. Len(z)
      OBVIOUS
    <2> QED
      BY <2>1, ElementOfSeq
  <1>2. p \in Seq(Nat) /\ Len(p) = j - 1 /\ \A i \in 1 .. j - 1 : p[i] = z[i]
    <2>1. /\ 1 \in Nat \ {0} /\ j - 1 \in Nat /\ 1 <= (j - 1) + 1 /\ j - 1 <= Len(z)
          /\ (j - 1) + 1 - 1 = j - 1 /\ \A i \in 1 .. j - 1 : 1 - 1 + i = i
      OBVIOUS
    <2>2. /\ p \in Seq(Nat) /\ Len(p) = (j - 1) + 1 - 1
          /\ \A i \in 1 .. (j - 1) + 1 - 1 : p[i] = z[1 - 1 + i]
      BY <2>1, PartIndex
    <2> HIDE DEF p
    <2> QED
      BY <2>1, <2>2
  <1>3. m \in Seq(Nat) /\ Len(m) = 1 /\ m[1] = z[j] + z[j + 1]
    BY <1>1
  <1>4. /\ r \in Seq(Nat) /\ Len(r) = Len(z) - 1 - j
        /\ \A i \in 1 .. Len(z) - 1 - j : r[i] = z[j + 1 + i]
    <2>1. /\ j + 2 \in Nat \ {0} /\ Len(z) \in Nat /\ j + 2 <= Len(z) + 1 /\ Len(z) <= Len(z)
          /\ Len(z) + 1 - (j + 2) = Len(z) - 1 - j
          /\ \A i \in 1 .. Len(z) - 1 - j : j + 2 - 1 + i = j + 1 + i
      OBVIOUS
    <2>2. /\ r \in Seq(Nat) /\ Len(r) = Len(z) + 1 - (j + 2)
          /\ \A i \in 1 .. Len(z) + 1 - (j + 2) : r[i] = z[j + 2 - 1 + i]
      <3>1. z \in Seq(Nat)
        OBVIOUS
      <3>2. PICK f, l : f = j + 2 /\ l = Len(z)
        OBVIOUS
      <3>3. f \in Nat \ {0} /\ l \in Nat /\ f <= l + 1 /\ l <= Len(z)
        BY ONLY <2>1, <3>2
      <3>4. /\ SubSeq(z, f, l) \in Seq(Nat) /\ Len(SubSeq(z, f, l)) = l + 1 - f
            /\ \A i \in 1 .. l + 1 - f : SubSeq(z, f, l)[i] = z[f - 1 + i]
        BY ONLY <3>1, <3>3, PartIndex
      <3> QED
        BY <3>2, <3>4
    <2> HIDE DEF r
    <2> QED
      BY <2>1, <2>2
  <1>5. WithoutCrossing(z, j) = w
    BY DEF WithoutCrossing
  <1> HIDE DEF p, m, r
  <1>6. /\ pm \in Seq(Nat) /\ Len(pm) = Len(p) + Len(m)
        /\ \A i \in 1 .. Len(p) : pm[i] = p[i]
        /\ \A i \in 1 .. Len(m) : pm[Len(p) + i] = m[i]
    <2>1. p \in Seq(Nat) /\ m \in Seq(Nat)
      BY <1>2, <1>3
    <2> QED
      BY ONLY <2>1, JoinIndex
  <1> HIDE DEF pm
  <1>7. /\ w \in Seq(Nat) /\ Len(w) = Len(pm) + Len(r)
        /\ \A i \in 1 .. Len(pm) : w[i] = pm[i]
        /\ \A i \in 1 .. Len(r) : w[Len(pm) + i] = r[i]
    <2>1. pm \in Seq(Nat) /\ r \in Seq(Nat)
      BY <1>4, <1>6
    <2> QED
      BY ONLY <2>1, JoinIndex
  <1> HIDE DEF w
  <1>8. Len(pm) = j /\ Len(w) = Len(z) - 1
    BY <1>2, <1>3, <1>4, <1>6, <1>7
  <1>9. /\ \A i \in 1 .. j - 1 : i \in 1 .. Len(pm) /\ i \in 1 .. Len(p)
        /\ j \in 1 .. Len(pm) /\ j = Len(p) + 1 /\ 1 \in 1 .. Len(m)
        /\ \A i \in j + 1 .. Len(z) - 1 :
             i - j \in 1 .. Len(r) /\ i = Len(pm) + (i - j) /\ i - j \in 1 .. Len(z) - 1 - j
             /\ j + 1 + (i - j) = i + 1
    BY <1>2, <1>3, <1>4, <1>8
  <1>10. \A i \in 1 .. j - 1 : w[i] = z[i]
    BY <1>2, <1>6, <1>7, <1>9
  <1>11. w[j] = z[j] + z[j + 1]
    BY <1>3, <1>6, <1>7, <1>9
  <1>12. \A i \in j + 1 .. Len(z) - 1 : w[i] = z[i + 1]
    <2> SUFFICES ASSUME NEW i \in j + 1 .. Len(z) - 1 PROVE w[i] = z[i + 1]
      BY Zenon
    <2>1. i - j \in 1 .. Len(r) /\ i = Len(pm) + (i - j) /\ i - j \in 1 .. Len(z) - 1 - j
          /\ j + 1 + (i - j) = i + 1
      BY ONLY <1>9, Zenon, i \in j + 1 .. Len(z) - 1
    <2>2. w[Len(pm) + (i - j)] = r[i - j]
      BY ONLY <1>7, <2>1, Zenon
    <2>3. r[i - j] = z[j + 1 + (i - j)]
      BY ONLY <1>4, <2>1, Zenon
    <2> QED
      BY ONLY <2>1, <2>2, <2>3, Zenon
  <1> QED
    BY <1>5, <1>7, <1>8, <1>10, <1>11, <1>12

\* A crossing too many makes two intervals of one.
LEMMA WithIndex ==
    ASSUME NEW z \in Seq(Nat), NEW j \in 1 .. Len(z), NEW n \in 1 .. z[j] - 1
    PROVE  LET w == WithCrossing(z, j, n)
           IN  /\ w \in Seq(Nat) /\ Len(w) = Len(z) + 1
               /\ \A i \in 1 .. j - 1 : w[i] = z[i]
               /\ w[j] = n /\ w[j + 1] = z[j] - n
               /\ \A i \in j + 1 .. Len(z) : w[i + 1] = z[i]
  <1> DEFINE p == SubSeq(z, 1, j - 1)
             m == <<n, z[j] - n>>
             r == SubSeq(z, j + 1, Len(z))
             pm == p \o m
             w == pm \o r
  <1>1. n \in Nat /\ z[j] - n \in Nat
    <2>1. z[j] \in Nat
      BY ElementOfSeq
    <2> QED
      BY <2>1
  <1>2. p \in Seq(Nat) /\ Len(p) = j - 1 /\ \A i \in 1 .. j - 1 : p[i] = z[i]
    <2>1. /\ 1 \in Nat \ {0} /\ j - 1 \in Nat /\ 1 <= (j - 1) + 1 /\ j - 1 <= Len(z)
          /\ (j - 1) + 1 - 1 = j - 1 /\ \A i \in 1 .. j - 1 : 1 - 1 + i = i
      OBVIOUS
    <2>2. /\ p \in Seq(Nat) /\ Len(p) = (j - 1) + 1 - 1
          /\ \A i \in 1 .. (j - 1) + 1 - 1 : p[i] = z[1 - 1 + i]
      BY <2>1, PartIndex
    <2> HIDE DEF p
    <2> QED
      BY <2>1, <2>2
  <1>3. m \in Seq(Nat) /\ Len(m) = 2 /\ m[1] = n /\ m[2] = z[j] - n
    BY <1>1
  <1>4. /\ r \in Seq(Nat) /\ Len(r) = Len(z) - j
        /\ \A i \in 1 .. Len(z) - j : r[i] = z[j + i]
    <2>1. /\ j + 1 \in Nat \ {0} /\ Len(z) \in Nat /\ j + 1 <= Len(z) + 1 /\ Len(z) <= Len(z)
          /\ Len(z) + 1 - (j + 1) = Len(z) - j
          /\ \A i \in 1 .. Len(z) - j : j + 1 - 1 + i = j + i
      OBVIOUS
    <2>2. /\ r \in Seq(Nat) /\ Len(r) = Len(z) + 1 - (j + 1)
          /\ \A i \in 1 .. Len(z) + 1 - (j + 1) : r[i] = z[j + 1 - 1 + i]
      BY <2>1, PartIndex
    <2> HIDE DEF r
    <2> QED
      BY <2>1, <2>2
  <1>5. WithCrossing(z, j, n) = w
    BY DEF WithCrossing
  <1> HIDE DEF p, m, r
  <1>6. /\ pm \in Seq(Nat) /\ Len(pm) = Len(p) + Len(m)
        /\ \A i \in 1 .. Len(p) : pm[i] = p[i]
        /\ \A i \in 1 .. Len(m) : pm[Len(p) + i] = m[i]
    <2>1. p \in Seq(Nat) /\ m \in Seq(Nat)
      BY <1>2, <1>3
    <2> QED
      BY ONLY <2>1, JoinIndex
  <1> HIDE DEF pm
  <1>7. /\ w \in Seq(Nat) /\ Len(w) = Len(pm) + Len(r)
        /\ \A i \in 1 .. Len(pm) : w[i] = pm[i]
        /\ \A i \in 1 .. Len(r) : w[Len(pm) + i] = r[i]
    <2>1. pm \in Seq(Nat) /\ r \in Seq(Nat)
      BY <1>4, <1>6
    <2> QED
      BY ONLY <2>1, JoinIndex
  <1> HIDE DEF w
  <1>8. Len(pm) = j + 1 /\ Len(w) = Len(z) + 1
    BY <1>2, <1>3, <1>4, <1>6, <1>7
  <1>9. /\ \A i \in 1 .. j - 1 : i \in 1 .. Len(pm) /\ i \in 1 .. Len(p)
        /\ j \in 1 .. Len(pm) /\ j = Len(p) + 1 /\ 1 \in 1 .. Len(m)
        /\ j + 1 \in 1 .. Len(pm) /\ j + 1 = Len(p) + 2 /\ 2 \in 1 .. Len(m)
        /\ \A i \in j + 1 .. Len(z) :
             i - j \in 1 .. Len(r) /\ i + 1 = Len(pm) + (i - j) /\ i - j \in 1 .. Len(z) - j
             /\ j + (i - j) = i
    BY <1>2, <1>3, <1>4, <1>8
  <1>10. \A i \in 1 .. j - 1 : w[i] = z[i]
    BY <1>2, <1>6, <1>7, <1>9
  <1>11. w[j] = n /\ w[j + 1] = z[j] - n
    <2>1. w[j] = pm[Len(p) + 1] /\ w[j + 1] = pm[Len(p) + 2]
      BY ONLY <1>7, <1>9, Zenon
    <2>2. pm[Len(p) + 1] = m[1] /\ pm[Len(p) + 2] = m[2]
      BY ONLY <1>6, <1>9, Zenon
    <2> QED
      BY ONLY <1>3, <2>1, <2>2, Zenon
  <1>12. \A i \in j + 1 .. Len(z) : w[i + 1] = z[i]
    <2> SUFFICES ASSUME NEW i \in j + 1 .. Len(z) PROVE w[i + 1] = z[i]
      BY Zenon
    <2>1. i - j \in 1 .. Len(r) /\ i + 1 = Len(pm) + (i - j) /\ i - j \in 1 .. Len(z) - j
          /\ j + (i - j) = i
      BY ONLY <1>9, Zenon, i \in j + 1 .. Len(z)
    <2>2. w[Len(pm) + (i - j)] = r[i - j]
      BY ONLY <1>7, <2>1, Zenon
    <2>3. r[i - j] = z[j + (i - j)]
      BY ONLY <1>4, <2>1, Zenon
    <2> QED
      BY ONLY <2>1, <2>2, <2>3, Zenon
  <1> QED
    BY <1>5, <1>7, <1>8, <1>10, <1>11, <1>12

\* Intervals that are there, shifted, are those of the bits they belong to.
LEMMA KeepsRange ==
    ASSUME NEW T, NEW L \in Nat, NEW z, Timed(z, T, L, Places(T, L)), NEW y, NEW d,
           NEW a \in 1 .. L + 1, NEW b \in 0 .. L, a <= b + 1,
           \A j \in Places(T, L)[a] .. Places(T, L)[b + 1] - 1 :
             j + d >= 1 /\ j + d <= Len(y) /\ y[j + d] = z[j]
    PROVE  \A i \in a .. b : Keeps(y, z, Places(T, L), i, d)
  <1> DEFINE I == Places(T, L)
  <1> SUFFICES ASSUME NEW i \in a .. b, NEW j \in I[i] .. I[i + 1] - 1
               PROVE  j + d >= 1 /\ j + d <= Len(y) /\ y[j + d] = z[j]
    BY DEF Keeps
  <1>1. /\ i \in 1 .. L + 1 /\ i + 1 \in 1 .. L + 1 /\ b + 1 \in 1 .. L + 1
        /\ a = i \/ a < i
        /\ i + 1 = b + 1 \/ i + 1 < b + 1
    OBVIOUS
  <1>2. /\ \A q, r \in 1 .. L + 1 : q < r => I[q] < I[r]
        /\ \A q \in 1 .. L + 1 : I[q] \in Nat /\ I[q] >= q
    BY TimedFacts
  <1> HIDE DEF I
  <1>3. I[a] <= I[i] /\ I[i + 1] <= I[b + 1]
    BY SMTT(30), <1>1, <1>2
  <1>4. j \in I[a] .. I[b + 1] - 1
    <2>1. /\ I[a] \in Nat /\ I[i] \in Nat /\ I[i + 1] \in Nat /\ I[b + 1] \in Nat
          /\ j \in I[i] .. I[i + 1] - 1
      BY <1>1, <1>2
    <2> QED
      BY ONLY <1>3, <2>1
  <1> QED
    BY <1>4 DEF I

\* The length of the intervals of some bits.
LEMMA PlacesAreApart ==
    ASSUME NEW T, NEW L \in Nat, NEW q \in 1 .. L + 1, NEW r \in q .. L + 1
    PROVE  Places(T, L)[r] >= Places(T, L)[q] + (r - q)
  <1> DEFINE I == Places(T, L)
             S == {m \in 0 .. L + 1 - q : I[q + m] >= I[q] + m}
  <1>1. /\ I \in [1 .. L + 1 -> Nat]
        /\ \A p, s \in 1 .. L + 1 : p < s => I[p] < I[s]
    BY PlacesGrow
  <1> HIDE DEF I
  <1>2. 0 \in S
    BY <1>1
  <1>3. ASSUME NEW m \in 1 .. L + 1 - q, m - 1 \in S PROVE m \in S
    <2>1. /\ q + m \in 1 .. L + 1 /\ q + (m - 1) \in 1 .. L + 1 /\ q + (m - 1) < q + m
      OBVIOUS
    <2>2. I[q + (m - 1)] < I[q + m]
      BY <1>1, <2>1
    <2>3. I[q + (m - 1)] >= I[q] + (m - 1)
      BY <1>3
    <2>4. I[q + (m - 1)] \in Nat /\ I[q + m] \in Nat /\ I[q] \in Nat
      BY <1>1, <2>1
    <2>5. I[q + m] >= I[q] + m
      BY ONLY <2>2, <2>3, <2>4, m \in 1 .. L + 1 - q, L \in Nat, q \in 1 .. L + 1
    <2> QED
      BY <2>5
  <1>4. 0 .. L + 1 - q \subseteq S
    <2>1. L + 1 - q \in Nat
      OBVIOUS
    <2> HIDE DEF S
    <2> QED
      BY <1>2, <1>3, <2>1, Counting
  <1>5. r - q \in 0 .. L + 1 - q /\ q + (r - q) = r
    OBVIOUS
  <1> QED
    BY <1>4, <1>5 DEF I

\* The signal of a start, its bits and its places.
LEMMA SignalFacts ==
    ASSUME NEW start \in Starts
    PROVE  LET T == SentBits(start)
               I == SentPlaces(start)
               z == Signal[start]
           IN  /\ IsSent(T) /\ T \in [1 .. Length -> Bit] /\ I = Places(T, Length)
               /\ Timed(z, T, Length, Places(T, Length))
               /\ T[Length] = 1 /\ T[Length - 1] = 0
               /\ Length \in Nat /\ Length >= 320
               /\ z \in Seq(Nat) /\ Len(z) = I[Length] + 1 /\ I[Length] \in Nat /\ I[Length] >= Length
               /\ I[Length + 1] = I[Length] + 2 /\ z[I[Length]] = 2 /\ z[I[Length] + 1] = 2
               /\ I[Length] = I[Length - 1] + 1
               /\ \A k \in 1 .. Frames + 1 : Begins[start][k] = I[80 * k + 1]
  <1> DEFINE T == SentBits(start)
             I == SentPlaces(start)
             z == Signal[start]
  <1>1. IsSent(T) /\ Timed(z, T, Length, I) /\ \A k \in 1 .. Frames + 1 : Begins[start][k] = I[80 * k + 1]
    BY SentBitsFacts, SignalIsTimed
  <1>2. I = Places(T, Length)
    BY DEF SentPlaces
  <1>3. Length = 80 * (Frames + 1) /\ Length \in Nat /\ Length >= 320 /\ Frames \in Nat /\ Frames >= 3
    BY LengthIsNat
  <1> HIDE DEF T, I, z
  <1>4. T[Length] = 1 /\ T[Length - 1] = 0 /\ T \in [1 .. Length -> Bit]
    <2>1. Frames \in 1 .. Frames /\ 15 \in 1 .. 16 /\ 16 \in 1 .. 16
      BY <1>3
    <2>2. T[80 * Frames + (64 + 15)] = SyncWord[15] /\ T[80 * Frames + (64 + 16)] = SyncWord[16]
      <3>1. \A i \in 1 .. 16 : T[80 * Frames + (64 + i)] = SyncWord[i]
        BY ONLY <1>1, <2>1 DEF IsSent
      <3> QED
        BY ONLY <2>1, <3>1
    <2>3. 80 * Frames + (64 + 15) = Length - 1 /\ 80 * Frames + (64 + 16) = Length
      BY <1>3
    <2> QED
      BY <1>1, <2>2, <2>3, SyncBits DEF IsSent
  <1>5. /\ z \in Seq(Nat) /\ Len(z) = I[Length + 1] - 1
        /\ \A q \in 1 .. Length :
             /\ I[q] \in Nat
             /\ T[q] = 1 => z[I[q]] = 2 /\ z[I[q] + 1] = 2 /\ I[q + 1] = I[q] + 2
             /\ T[q] # 1 => z[I[q]] = 4 /\ I[q + 1] = I[q] + 1
        /\ \A q \in 1 .. Length + 1 : I[q] \in Nat /\ I[q] >= q
    <2>1. Timed(z, T, Length, Places(T, Length)) /\ Length \in Nat
      BY <1>1, <1>2, <1>3
    <2>2. LET J == Places(T, Length)
          IN  /\ z \in Seq(Nat) /\ Len(z) = J[Length + 1] - 1
              /\ \A q \in 1 .. Length :
                   /\ J[q] \in Nat
                   /\ T[q] = 1 => z[J[q]] = 2 /\ z[J[q] + 1] = 2 /\ J[q + 1] = J[q] + 2
                   /\ T[q] # 1 => z[J[q]] = 4 /\ J[q + 1] = J[q] + 1
              /\ \A q \in 1 .. Length + 1 : J[q] \in Nat /\ J[q] >= q
      BY ONLY <2>1, TimedFacts
    <2> QED
      BY ONLY <1>2, <2>2
  <1>6. Length \in 1 .. Length /\ Length - 1 \in 1 .. Length /\ (Length - 1) + 1 = Length
    BY <1>3
  <1>7. I[Length] = I[Length - 1] + 1
    BY <1>4, <1>5, <1>6
  <1>8. I[Length + 1] = I[Length] + 2 /\ I[Length] \in Nat /\ z[I[Length]] = 2 /\ z[I[Length] + 1] = 2
    BY <1>4, <1>5, <1>6
  <1>9. Len(z) = I[Length] + 1 /\ I[Length] >= Length
    BY <1>3, <1>5, <1>8
  <1> QED
    BY <1>1, <1>2, <1>3, <1>4, <1>5, <1>7, <1>8, <1>9 DEF T, I, z

\* The bits of an interval lie in a frame.
FrameOf(b) == (b - 1) \div 80

\* The intervals of a frame are those of its bits.
LEMMA FrameOfPlace ==
    ASSUME NEW start \in Starts, NEW b \in 81 .. Length,
           NEW j \in SentPlaces(start)[b] .. SentPlaces(start)[b + 1] - 1
    PROVE  /\ FrameOf(b) \in 1 .. Frames
           /\ \A k \in 1 .. Frames : j \in Begins[start][k] .. Begins[start][k + 1] - 1 <=> k = FrameOf(b)
  <1> DEFINE T == SentBits(start)
             I == SentPlaces(start)
  <1>1. /\ Length = 80 * (Frames + 1) /\ Length \in Nat /\ Frames \in Nat /\ Length >= 320
        /\ I = Places(T, Length) /\ \A k \in 1 .. Frames + 1 : Begins[start][k] = I[80 * k + 1]
    <2>1. I = Places(T, Length)
      BY DEF SentPlaces
    <2>2. \A k \in 1 .. Frames + 1 : Begins[start][k] = I[80 * k + 1]
      BY SignalIsTimed
    <2>3. /\ Length = 80 * (Frames + 1) /\ Length \in Nat /\ Frames \in Nat /\ Length >= 320
      BY LengthIsNat
    <2> QED
      BY ONLY <2>1, <2>2, <2>3, Zenon
  <1>2. I \in [1 .. Length + 1 -> Nat] /\ \A q, r \in 1 .. Length + 1 : q < r => I[q] < I[r]
    <2>1. Length \in Nat /\ I = Places(T, Length)
      BY <1>1
    <2>2. LET J == Places(T, Length)
          IN  J \in [1 .. Length + 1 -> Nat] /\ \A q, r \in 1 .. Length + 1 : q < r => J[q] < J[r]
      BY ONLY <2>1, PlacesGrow
    <2> QED
      BY ONLY <2>1, <2>2
  <1> HIDE DEF I
  <1>3. FrameOf(b) \in 1 .. Frames
    <2>1. b - 1 \in 80 .. 80 * Frames + 79
      BY <1>1
    <2> QED
      BY <1>1, <2>1 DEF FrameOf
  <1>4. b \in 1 .. Length + 1 /\ b + 1 \in 1 .. Length + 1
    BY <1>1
  <1>5. I[b] \in Nat /\ I[b + 1] \in Nat /\ j \in Nat /\ I[b] <= j /\ j < I[b + 1]
    <2>1. I[b] \in Nat /\ I[b + 1] \in Nat
      BY <1>2, <1>4
    <2>2. j \in I[b] .. I[b + 1] - 1
      BY DEF I
    <2> QED
      BY <2>1, <2>2
  <1>6. ASSUME NEW k \in 1 .. Frames
        PROVE  j \in Begins[start][k] .. Begins[start][k + 1] - 1 <=> k = FrameOf(b)
    <2> DEFINE p == 80 * k + 1
               q == 80 * (k + 1) + 1
    <2>1. p \in 1 .. Length + 1 /\ q \in 1 .. Length + 1 /\ k \in 1 .. Frames + 1 /\ k + 1 \in 1 .. Frames + 1
      BY <1>1
    <2>2. Begins[start][k] = I[p] /\ Begins[start][k + 1] = I[q]
      BY <1>1, <2>1
    <2>3. k = FrameOf(b) <=> p <= b /\ b < q
      BY <1>1 DEF FrameOf
    <2>3a. p \in Nat /\ q \in Nat /\ b \in Nat
      BY <2>1, <1>4
    <2> HIDE DEF p, q
    <2>4. I[p] \in Nat /\ I[q] \in Nat
      BY <1>2, <2>1
    <2>5. I[p] <= j <=> p <= b
      <3>1. CASE p <= b
        <4>1. p = b \/ p < b
          BY <2>3a, <3>1
        <4>2. I[p] <= I[b]
          BY <1>2, <1>4, <1>5, <2>1, <2>4, <4>1
        <4> QED
          BY <1>5, <2>4, <3>1, <4>2
      <3>2. CASE ~(p <= b)
        <4>1. b + 1 = p \/ b + 1 < p
          BY <2>3a, <3>2
        <4>2. I[b + 1] <= I[p]
          BY <1>2, <1>4, <1>5, <2>1, <2>4, <4>1
        <4> QED
          BY <1>5, <2>4, <3>2, <4>2
      <3> QED
        BY <3>1, <3>2
    <2>6. j < I[q] <=> b < q
      <3>1. CASE b < q
        <4>1. b + 1 = q \/ b + 1 < q
          BY <2>3a, <3>1
        <4>2. I[b + 1] <= I[q]
          BY <1>2, <1>4, <1>5, <2>1, <2>4, <4>1
        <4> QED
          BY <1>5, <2>4, <3>1, <4>2
      <3>2. CASE ~(b < q)
        <4>1. q = b \/ q < b
          BY <2>3a, <3>2
        <4>2. I[q] <= I[b]
          BY <1>2, <1>4, <1>5, <2>1, <2>4, <4>1
        <4> QED
          BY <1>5, <2>4, <3>2, <4>2
      <3> QED
        BY <3>1, <3>2
    <2>7. j \in I[p] .. I[q] - 1 <=> I[p] <= j /\ j < I[q]
      BY <1>5, <2>4
    <2> QED
      BY <2>2, <2>3, <2>5, <2>6, <2>7
  <1> QED
    BY <1>3, <1>6

-----------------------------------------------------------------------------

\* The first bits of a signal of which the first intervals are there.
LEMMA KeepsHead ==
    ASSUME NEW T, NEW L, NEW z, Carries(z, T, L), NEW y \in Seq(Nat), NEW h \in 0 .. L,
           \A j \in 1 .. Places(T, L)[h + 1] - 1 : j <= Len(y) /\ y[j] = z[j]
    PROVE  \A i \in 1 .. h : Keeps(y, z, Places(T, L), i, 0)
  <1> DEFINE I == Places(T, L)
  <1>1. L \in Nat /\ Timed(z, T, L, I)
    BY DEF Carries
  <1>2. I[1] = 1 /\ I[h + 1] \in Nat
    <2>1. I \in [1 .. L + 1 -> Nat] /\ I[1] = 1
      BY <1>1, PlacesGrow
    <2>2. h + 1 \in 1 .. L + 1
      BY <1>1
    <2> HIDE DEF I
    <2> QED
      BY <2>1, <2>2
  <1>3. ASSUME NEW j \in I[1] .. I[h + 1] - 1
        PROVE  j + 0 >= 1 /\ j + 0 <= Len(y) /\ y[j + 0] = z[j]
    <2>1. j \in 1 .. I[h + 1] - 1 /\ j + 0 = j
      BY <1>2
    <2> QED
      BY <2>1
  <1>4. 1 \in 1 .. L + 1 /\ 1 <= h + 1
    BY <1>1
  <1> QED
    BY <1>1, <1>3, <1>4, KeepsRange

\* The last bits of a signal of which the last intervals are there, shifted.
LEMMA KeepsTail ==
    ASSUME NEW T, NEW L, NEW z, Carries(z, T, L), NEW y \in Seq(Nat), NEW d \in Int, NEW a \in 1 .. L,
           \A j \in Places(T, L)[a] .. Places(T, L)[L] - 1 :
             j + d >= 1 /\ j + d <= Len(y) /\ y[j + d] = z[j]
    PROVE  \A i \in a .. L - 1 : Keeps(y, z, Places(T, L), i, d)
  <1>1. L \in Nat /\ Timed(z, T, L, Places(T, L)) /\ L >= 320
    BY DEF Carries
  <1>2. a \in 1 .. L + 1 /\ L - 1 \in 0 .. L /\ a <= (L - 1) + 1 /\ (L - 1) + 1 = L
    BY <1>1
  <1> QED
    BY <1>1, <1>2, KeepsRange

\* A signal nothing happened to is read as it was sent, but for its last bit.
LEMMA WholeIsRead ==
    ASSUME NEW T, NEW L, NEW z, Carries(z, T, L)
    PROVE  /\ \E W, E : IsReading(Front(z), W, E) /\ Len(W) = L - 1 /\ Like(W, T, 0, 0)
           /\ Last(z) \in 1 .. 4
  <1> DEFINE I == Places(T, L)
             y == Front(z)
  <1>1. /\ L \in Nat /\ L >= 320 /\ Timed(z, T, L, I)
        /\ z \in Seq(Nat) /\ Len(z) = I[L] + 1 /\ z[I[L]] = 2 /\ z[I[L] + 1] = 2
        /\ \A q \in 1 .. L : I[q] \in Nat /\ I[q] >= 1
    BY CarriesFacts
  <1>2. L \in 1 .. L /\ I[L] \in Nat
    BY <1>1
  <1>3. y \in Seq(Nat) /\ Len(y) = I[L] /\ (\A i \in 1 .. I[L] : y[i] = z[i]) /\ Last(z) = 2
    <2> HIDE DEF I
    <2>0. z \in Seq(Nat) /\ Len(z) >= 1
      BY <1>1, <1>2
    <2>1. /\ y \in Seq(Nat) /\ Len(y) = Len(z) - 1
          /\ \A i \in 1 .. Len(z) - 1 : y[i] = z[i]
          /\ Last(z) = z[Len(z)]
      BY ONLY <2>0, FrontIndex
    <2> HIDE DEF y
    <2> QED
      BY <1>1, <1>2, <2>1
  <1> HIDE DEF y
  <1>4. \A i \in 1 .. L - 1 : Keeps(y, z, I, i, 0)
    <2>1. L - 1 \in 0 .. L /\ (L - 1) + 1 = L
      BY <1>1
    <2>2. \A j \in 1 .. I[(L - 1) + 1] - 1 : j <= Len(y) /\ y[j] = z[j]
      BY <1>2, <1>3, <2>1
    <2> QED
      BY <1>3, <2>1, <2>2, KeepsHead
  <1>5. Short(y, Len(y)) /\ I[(L - 1) + 1] = Len(y) /\ L - 1 \in 0 .. L
    BY SMTT(30), <1>1, <1>2, <1>3 DEF Short
  <1>6. \E W, E : IsReading(y, W, E) /\ Len(W) = L - 1 /\ Like(W, T, 0, 0)
    <2>1. IsHead(y, z, T, L, L - 1)
      BY <1>3, <1>4, <1>5 DEF IsHead, I
    <2> QED
      BY <2>1, HeadReads
  <1> QED
    BY <1>3, <1>6 DEF y

\* An end that is missing: the bits up to the one it begins in.
LEMMA EarlyIsRead ==
    ASSUME NEW T, NEW L, NEW z, Carries(z, T, L), NEW q \in 1 .. L, NEW s \in Nat \ {0},
           NEW p, p = Places(T, L)[L] + 1 - s,
           p >= Places(T, L)[q], p < Places(T, L)[q + 1]
    PROVE  LET w == SubSeq(z, 1, Len(z) - s)
           IN  /\ \E W, E : IsReading(Front(w), W, E) /\ Len(W) = q - 1 /\ Like(W, T, 0, 0)
               /\ Last(w) \in 1 .. 4
  <1> DEFINE I == Places(T, L)
             w == SubSeq(z, 1, Len(z) - s)
             y == Front(w)
  <1>1. /\ L \in Nat /\ L >= 320 /\ Timed(z, T, L, I)
        /\ z \in Seq(Nat) /\ Len(z) = I[L] + 1
        /\ \A i \in 1 .. L : /\ I[i] \in Nat /\ I[i] >= 1 /\ I[i + 1] \in Nat
                             /\ T[i] = 0 \/ T[i] = 1
                             /\ T[i] = 1 => z[I[i]] = 2 /\ z[I[i] + 1] = 2 /\ I[i + 1] = I[i] + 2
                             /\ T[i] # 1 => z[I[i]] = 4 /\ I[i + 1] = I[i] + 1
        /\ \A j \in 1 .. Len(z) : z[j] = 2 \/ z[j] = 4
    BY CarriesFacts
  <1>2. /\ I[L] \in Nat /\ I[q] \in Nat /\ I[q] >= 1 /\ p \in Nat /\ p >= 1 /\ I[q + 1] \in Nat
        /\ I[q] <= p /\ p < I[q + 1] /\ p = I[L] + 1 - s /\ s \in Nat /\ s >= 1
        /\ z \in Seq(Nat) /\ Len(z) = I[L] + 1 /\ L \in Nat /\ q \in 1 .. L
    <2>1. L \in 1 .. L
      BY <1>1
    <2>2. I[L] \in Nat /\ I[q] \in Nat /\ I[q] >= 1 /\ I[q + 1] \in Nat
      BY <1>1, <2>1
    <2>3. p = I[L] + 1 - s /\ p >= I[q] /\ p < I[q + 1] /\ s \in Nat \ {0} /\ q \in 1 .. L
      OBVIOUS
    <2>4. p \in Nat /\ p >= 1 /\ s \in Nat /\ s >= 1 /\ I[q] <= p
      BY ONLY <2>2, <2>3
    <2> QED
      BY ONLY <1>1, <2>2, <2>3, <2>4, Zenon
  <1>2a. /\ T[q] = 1 => z[I[q]] = 2 /\ z[I[q] + 1] = 2 /\ I[q + 1] = I[q] + 2
         /\ T[q] # 1 => z[I[q]] = 4 /\ I[q + 1] = I[q] + 1
         /\ z[p] = 2 \/ z[p] = 4
    <2>1. p \in 1 .. Len(z)
      BY ONLY <1>2
    <2> QED
      BY <1>1, <2>1
  <1> HIDE DEF I
  <1>3. /\ w \in Seq(Nat) /\ Len(w) = p /\ \A i \in 1 .. p : w[i] = z[i]
    <2>1. /\ 1 \in Nat \ {0} /\ Len(z) - s \in Nat /\ 1 <= (Len(z) - s) + 1 /\ Len(z) - s <= Len(z)
          /\ z \in Seq(Nat) /\ (Len(z) - s) + 1 - 1 = p /\ \A i \in 1 .. p : 1 - 1 + i = i
      <3>1. Len(z) - s = p /\ Len(z) \in Nat /\ p \in Nat /\ p >= 1 /\ s \in Nat /\ z \in Seq(Nat)
            /\ p <= Len(z)
        BY ONLY SMTT(30), <1>2
      <3>2. /\ 1 \in Nat \ {0} /\ p \in Nat /\ 1 <= p + 1 /\ p <= Len(z)
            /\ z \in Seq(Nat) /\ p + 1 - 1 = p /\ \A i \in 1 .. p : 1 - 1 + i = i
        BY ONLY <3>1
      <3> QED
        BY ONLY <3>1, <3>2
    <2>2. /\ w \in Seq(Nat) /\ Len(w) = (Len(z) - s) + 1 - 1
          /\ \A i \in 1 .. (Len(z) - s) + 1 - 1 : w[i] = z[1 - 1 + i]
      <3>1. IsPartOf(SubSeq(z, 1, Len(z) - s), z, 1, Len(z) - s)
        BY ONLY <2>1, NumbersPart
      <3> QED
        BY ONLY <3>1, Zenon DEF IsPartOf
    <2> HIDE DEF w
    <2> QED
      BY <2>1, <2>2
  <1> HIDE DEF w
  <1>4. /\ y \in Seq(Nat) /\ Len(y) = p - 1 /\ (\A i \in 1 .. p - 1 : y[i] = z[i])
        /\ Last(w) = z[p]
    <2>1. /\ y \in Seq(Nat) /\ Len(y) = Len(w) - 1
          /\ \A i \in 1 .. Len(w) - 1 : y[i] = w[i]
          /\ Last(w) = w[Len(w)]
      BY ONLY <1>2, <1>3, FrontIndex
    <2> HIDE DEF y
    <2>2. p \in 1 .. p /\ \A i \in 1 .. p - 1 : i \in 1 .. p
      BY ONLY <1>2
    <2> QED
      BY ONLY <1>2, <1>3, <2>1, <2>2
  <1> HIDE DEF y
  <1>5. Last(w) \in 1 .. 4
    BY ONLY <1>2a, <1>4
  <1>6. IsHead(y, z, T, L, q - 1)
    <2>1. q - 1 \in 0 .. L /\ (q - 1) + 1 = q
      BY ONLY <1>2
    <2>2. \A j \in 1 .. I[(q - 1) + 1] - 1 : j <= Len(y) /\ y[j] = z[j]
      <3>1. \A j \in 1 .. I[q] - 1 : j \in 1 .. p - 1 /\ j <= p - 1
        BY ONLY <1>2
      <3> QED
        BY ONLY <1>4, <2>1, <3>1
    <2>3. \A i \in 1 .. q - 1 : Keeps(y, z, I, i, 0)
      BY <1>4, <2>1, <2>2, KeepsHead DEF I
    <2>4. I[(q - 1) + 1] = Len(y) + 1 \/ (I[(q - 1) + 1] = Len(y) /\ Short(y, Len(y)))
      <3>1. CASE p = I[q]
        <4>1. I[(q - 1) + 1] = p /\ p = (p - 1) + 1
          BY ONLY SMTT(30), <1>2, <2>1, <3>1
        <4> QED
          BY ONLY <1>4, <4>1
      <3>2. CASE p # I[q]
        <4>1. T[q] = 1 /\ z[I[q]] = 2 /\ I[q + 1] = I[q] + 2
          <5>1. T[q] # 1 => I[q + 1] = I[q] + 1
            BY ONLY <1>2a
          <5>2. I[q + 1] # I[q] + 1
            BY ONLY <1>2, <3>2
          <5> QED
            BY ONLY <1>2a, <5>1, <5>2, Zenon
        <4>2. p = I[q] + 1
          <5>1. p \in Nat /\ I[q] \in Nat /\ I[q] <= p /\ p < I[q + 1] /\ I[q + 1] = I[q] + 2 /\ p # I[q]
            BY ONLY <1>2, <3>2, <4>1, Zenon
          <5> QED
            BY ONLY <5>1
        <4>3. Len(y) = I[q] /\ y[I[q]] = 2
          <5>1. I[q] \in 1 .. p - 1 /\ p - 1 = I[q]
            BY ONLY SMTT(30), <1>2, <4>2
          <5> QED
            BY ONLY <1>4, <4>1, <5>1
        <4> QED
          BY <2>1, <4>3 DEF Short
      <3> QED
        BY <3>1, <3>2
    <2> QED
      BY <1>4, <2>1, <2>3, <2>4 DEF IsHead, I
  <1>7. \E W, E : IsReading(y, W, E) /\ Len(W) = q - 1 /\ Like(W, T, 0, 0)
    BY <1>6, HeadReads
  <1> QED
    BY <1>5, <1>7 DEF y, w

\* A start that is missing: the bits from the one it ends in, or from the next.
LEMMA LateIsRead ==
    ASSUME NEW T, NEW L, NEW z, Carries(z, T, L), NEW q \in 1 .. L - 3,
           NEW p \in Nat, p >= Places(T, L)[q], p < Places(T, L)[q + 1]
    PROVE  LET w == SubSeq(z, p, Len(z))
           IN  /\ \E c \in q - 1 .. q : \E W, E :
                    /\ c = q - 1 => p = Places(T, L)[q]
                    /\ IsReading(Front(w), W, E) /\ Len(W) = L - 1 - c /\ Like(W, T, c, 0)
               /\ Last(w) \in 1 .. 4
  <1> DEFINE I == Places(T, L)
             w == SubSeq(z, p, Len(z))
             y == Front(w)
             d == 1 - p
  <1>1. /\ L \in Nat /\ L >= 320 /\ Timed(z, T, L, I) /\ T \in [1 .. L -> Bit]
        /\ z \in Seq(Nat) /\ Len(z) = I[L] + 1 /\ z[I[L]] = 2 /\ z[I[L] + 1] = 2 /\ I[1] = 1
        /\ \A i \in 1 .. L : /\ I[i] \in Nat /\ I[i] >= 1 /\ I[i + 1] \in Nat
                             /\ T[i] = 0 \/ T[i] = 1
                             /\ T[i] = 1 => z[I[i]] = 2 /\ z[I[i] + 1] = 2 /\ I[i + 1] = I[i] + 2
                             /\ T[i] # 1 => z[I[i]] = 4 /\ I[i + 1] = I[i] + 1
        /\ \A i, r \in 1 .. L + 1 : i < r => I[i] < I[r]
    BY CarriesFacts
  <1>2. /\ I[L] \in Nat /\ I[q] \in Nat /\ I[q] >= 1 /\ I[q + 1] \in Nat /\ I[q + 1] < I[L]
        /\ I[q] <= p /\ p < I[q + 1] /\ p >= 1 /\ p + 1 < I[L] + 1 /\ p \in Nat
        /\ L \in Nat /\ L >= 320 /\ q \in 1 .. L - 3
    <2>1. L \in 1 .. L /\ q \in 1 .. L /\ q + 1 \in 1 .. L + 1 /\ L \in 1 .. L + 1 /\ q + 1 < L
      BY <1>1
    <2>2. I[L] \in Nat /\ I[q] \in Nat /\ I[q] >= 1 /\ I[q + 1] \in Nat
      BY <1>1, <2>1
    <2>3. I[q + 1] < I[L]
      BY <1>1, <2>1
    <2>4. p \in Nat /\ p >= I[q] /\ p < I[q + 1] /\ q \in 1 .. L - 3
      OBVIOUS
    <2>5. p >= 1 /\ I[q] <= p /\ p + 1 < I[L] + 1
      BY ONLY <2>2, <2>3, <2>4
    <2> QED
      BY ONLY <1>1, <2>2, <2>3, <2>4, <2>5, Zenon
  <1>2a. /\ I[1] = 1 /\ z[I[L]] = 2 /\ z[I[L] + 1] = 2
         /\ T \in [1 .. L -> Bit] /\ z \in Seq(Nat) /\ Len(z) = I[L] + 1 /\ Timed(z, T, L, I)
    BY <1>1
  <1>2b. /\ T[q] = 1 => z[I[q]] = 2 /\ z[I[q] + 1] = 2 /\ I[q + 1] = I[q] + 2
         /\ T[q] # 1 => z[I[q]] = 4 /\ I[q + 1] = I[q] + 1
    <2>1. q \in 1 .. L
      BY ONLY <1>2
    <2> QED
      BY <1>1, <2>1
  <1>2c. /\ I[q + 2] \in Nat /\ I[q + 1] < I[q + 2] /\ T[q] \in Bit /\ T[q + 1] \in Bit
    <2>1. q \in 1 .. L /\ q + 1 \in 1 .. L /\ (q + 1) + 1 = q + 2 /\ q + 1 \in 1 .. L + 1
          /\ q + 2 \in 1 .. L + 1 /\ q + 1 < q + 2
      BY ONLY <1>2
    <2> QED
      BY <1>1, <2>1
  <1> HIDE DEF I
  <1>3. /\ w \in Seq(Nat) /\ Len(w) = I[L] + 2 - p
        /\ \A i \in 1 .. I[L] + 2 - p : w[i] = z[p - 1 + i]
    <2>1. /\ p \in Nat \ {0} /\ Len(z) \in Nat /\ p <= Len(z) + 1 /\ Len(z) <= Len(z)
          /\ z \in Seq(Nat) /\ Len(z) + 1 - p = I[L] + 2 - p
      <3>1. Len(z) = I[L] + 1 /\ Len(z) \in Nat /\ z \in Seq(Nat)
        BY ONLY <1>2, <1>2a
      <3>2. p \in Nat /\ p >= 1 /\ I[L] \in Nat /\ p + 1 < I[L] + 1
        BY ONLY <1>2
      <3>3. p \in Nat \ {0} /\ p <= I[L] + 1 + 1 /\ I[L] + 1 + 1 - p = I[L] + 2 - p
        BY ONLY <3>2
      <3> QED
        BY ONLY <3>1, <3>3
    <2>2. /\ w \in Seq(Nat) /\ Len(w) = Len(z) + 1 - p
          /\ \A i \in 1 .. Len(z) + 1 - p : w[i] = z[p - 1 + i]
      <3>1. IsPartOf(SubSeq(z, p, Len(z)), z, p, Len(z))
        BY ONLY <2>1, NumbersPart
      <3> QED
        BY ONLY <3>1, Zenon DEF IsPartOf
    <2> HIDE DEF w
    <2> QED
      BY <2>1, <2>2
  <1> HIDE DEF w
  <1>4. /\ y \in Seq(Nat) /\ Len(y) = I[L] + 1 - p
        /\ \A i \in 1 .. I[L] + 1 - p : y[i] = z[p - 1 + i]
        /\ Last(w) = 2
    <2>0. Len(w) >= 1
      BY <1>2, <1>3
    <2>1. /\ y \in Seq(Nat) /\ Len(y) = Len(w) - 1
          /\ \A i \in 1 .. Len(w) - 1 : y[i] = w[i]
          /\ Last(w) = w[Len(w)]
      BY <1>3, <2>0, FrontIndex
    <2> HIDE DEF y
    <2>2. Last(w) = z[p - 1 + (I[L] + 2 - p)]
      <3>1. I[L] + 2 - p \in 1 .. I[L] + 2 - p
        BY <1>2
      <3> QED
        BY <1>3, <2>1, <3>1
    <2>3. p - 1 + (I[L] + 2 - p) = I[L] + 1
      BY <1>2
    <2>4. Len(y) = I[L] + 1 - p /\ Len(w) - 1 = I[L] + 1 - p
      <3>1. Len(w) = I[L] + 2 - p /\ Len(y) = Len(w) - 1 /\ I[L] \in Nat /\ p \in Nat
        BY <1>2, <1>3, <2>1
      <3> QED
        BY ONLY <3>1
    <2>5. \A i \in 1 .. I[L] + 1 - p : i \in 1 .. I[L] + 2 - p
      BY <1>2
    <2> QED
      BY ONLY <1>2a, <1>3, <2>1, <2>2, <2>3, <2>4, <2>5
  <1> HIDE DEF y
  <1>5. \A j \in p .. I[L] : j + d >= 1 /\ j + d <= Len(y) /\ y[j + d] = z[j]
    <2> SUFFICES ASSUME NEW j \in p .. I[L]
                 PROVE  j + d >= 1 /\ j + d <= Len(y) /\ y[j + d] = z[j]
      OBVIOUS
    <2>0. j \in p .. I[L]
      OBVIOUS
    <2>1. j + d \in 1 .. I[L] + 1 - p /\ p - 1 + (j + d) = j /\ j + d \in Int
      BY ONLY <1>2, <2>0
    <2>2. y[j + d] = z[p - 1 + (j + d)]
      BY <1>4, <2>1
    <2> HIDE DEF d
    <2>3. j + d >= 1 /\ j + d <= I[L] + 1 - p
      BY ONLY <1>2, <2>1
    <2> QED
      BY ONLY <1>4, <2>1, <2>2, <2>3, Zenon
  <1>6. Short(y, Len(y)) /\ Len(y) = I[L] + d /\ d \in Int
    <2>1. I[L] \in p .. I[L] /\ I[L] + d = I[L] + 1 - p /\ d \in Int
      BY ONLY <1>2
    <2> HIDE DEF d
    <2>2. Len(y) = I[L] + d /\ I[L] + d <= Len(y) /\ y[I[L] + d] = z[I[L]]
      BY ONLY <1>4, <1>5, <2>1, Zenon
    <2>3. Short(y, Len(y))
      <3>1. Len(y) \in Nat /\ y[Len(y)] = 2
        BY ONLY <1>2a, <1>4, <2>2
      <3> QED
        BY ONLY <3>1 DEF Short
    <2> QED
      BY ONLY <2>1, <2>2, <2>3, Zenon
  <1>7. ASSUME NEW a \in q .. q + 2, p <= I[a]
        PROVE  \A i \in a .. L - 1 : Keeps(y, z, I, i, d)
    <2>0. a \in q .. q + 2 /\ p <= I[a]
      BY <1>7
    <2>1. a \in 1 .. L /\ I[a] \in Nat
      <3>1. a = q \/ a = q + 1 \/ a = q + 2
        BY ONLY <1>2, <2>0
      <3> QED
        BY ONLY <1>2, <1>2c, <3>1
    <2>2. \A j \in I[a] .. I[L] - 1 : j \in p .. I[L]
      BY ONLY <1>2, <2>0, <2>1
    <2> HIDE DEF d
    <2>3. \A j \in I[a] .. I[L] - 1 : j + d >= 1 /\ j + d <= Len(y) /\ y[j + d] = z[j]
      BY <1>5, <2>2
    <2> QED
      BY <1>4, <1>6, <2>1, <2>3, KeepsTail DEF I
  <1>8. CASE p = I[q]
    <2>1. q \in q .. q + 2 /\ q \in q .. L - 1 /\ q + 1 \in q .. q + 2 /\ q \in 1 .. L
          /\ q - 1 \in Nat /\ 0 + 2 + (q - 1) = q + 1 /\ p <= I[q + 1] /\ 1 + (q - 1) = q
          /\ q + 1 < L
      BY ONLY <1>2
    <2>2. Keeps(y, z, I, q, d) /\ \A i \in q + 1 .. L - 1 : Keeps(y, z, I, i, d)
      BY <1>7, <1>8, <2>1
    <2> HIDE DEF d
    <2>3. Takes(y, I[q] + d, T[q], I[q + 1] + d)
      <3>1. L \in Nat /\ T \in [1 .. L -> Bit] /\ Timed(z, T, L, I) /\ y \in Seq(Nat) /\ d \in Int
            /\ q \in 1 .. L /\ Keeps(y, z, I, q, d)
        BY ONLY <1>2, <1>2a, <1>4, <1>6, <2>1, <2>2
      <3> QED
        BY ONLY <3>1, BitTakes DEF I
    <2>4. I[q] + d = 1 /\ I[q + 1] + d - 0 = I[q + 1] + d
      BY ONLY <1>2, <1>8 DEF d
    <2>5. T[q] \in Bit
      BY <1>2c
    <2>6. /\ y \in Seq(Nat) /\ 0 \in Nat /\ q - 1 \in Nat /\ 0 + 2 + (q - 1) <= L
          /\ T[q] \in Bit /\ d \in Int /\ 0 \in {0, 1} /\ 0 # 1
          /\ Len(y) = I[L] + d
          /\ (\A i \in 1 .. 0 : Keeps(y, z, I, i, 0))
          /\ Takes(y, I[0 + 1], T[q], I[0 + 2 + (q - 1)] + d - 0)
          /\ (\A i \in 0 + 2 + (q - 1) .. L - 1 : Keeps(y, z, I, i, d))
          /\ Short(y, Len(y))
      <3>1. 0 + 1 = 1 /\ 0 # 1 /\ 0 \in Nat /\ 0 \in {0, 1} /\ \A i \in 1 .. 0 : FALSE
        OBVIOUS
      <3>2. 0 + 2 + (q - 1) <= L
        BY ONLY <1>2
      <3> QED
        BY ONLY <1>2a, <1>4, <1>6, <2>1, <2>2, <2>3, <2>4, <2>5, <3>1, <3>2
    <2>7. IsSplice(y, z, T, L, 0, q - 1, T[q], d, 0)
      BY ONLY <2>6 DEF IsSplice, I
    <2>8. PICK W, E : /\ IsReading(y, W, E) /\ Len(W) = L - 1 - (q - 1)
                      /\ Like(W, T, q - 1, 0)
      BY <2>1, <2>7, SpliceReads
    <2>9. q - 1 \in q - 1 .. q
      OBVIOUS
    <2> QED
      BY <1>4, <1>8, <2>8, <2>9 DEF y, w, I
  <1>9. CASE p # I[q]
    <2>1. T[q] = 1 /\ I[q + 1] = I[q] + 2 /\ p = I[q] + 1 /\ z[I[q] + 1] = 2
      <3>2. T[q] = 1 /\ I[q + 1] = I[q] + 2 /\ z[I[q] + 1] = 2
        BY ONLY <1>2, <1>2b, <1>9
      <3> QED
        BY ONLY <1>2, <1>9, <3>2
    <2> DEFINE r == q + 1
               off == IF T[r] = 1 THEN 1 ELSE 0
    <2>2. /\ r \in q .. q + 2 /\ r \in r .. L - 1 /\ r + 1 \in q .. q + 2 /\ r \in 1 .. L
          /\ q \in Nat /\ 0 + 2 + q = r + 1 /\ p <= I[r] /\ 1 + q = r /\ r + 1 < L
      BY ONLY <1>2
    <2> HIDE DEF r
    <2>3. I[r] \in Nat /\ I[r + 1] \in Nat /\ I[r] < I[r + 1] /\ T[r] \in Bit
      <3>1. r = q + 1 /\ r + 1 = q + 2
        BY ONLY <1>2 DEF r
      <3> QED
        BY ONLY <1>2, <1>2c, <3>1
    <2>4. Keeps(y, z, I, r, d) /\ \A i \in r + 1 .. L - 1 : Keeps(y, z, I, i, d)
      <3>1. p <= I[r + 1]
        BY ONLY <1>2, <2>2, <2>3
      <3> QED
        BY <1>7, <2>2, <3>1
    <2>5. I[r] + d - 1 = 1 /\ Short(y, 1)
      <3>1. I[r] = p + 1
        BY ONLY <1>2, <2>1 DEF r
      <3>2. p \in p .. I[L] /\ p + d = 1
        BY ONLY <1>2
      <3>3. 1 <= Len(y) /\ y[1] = 2
        <4> HIDE DEF d
        <4>1. p + d >= 1 /\ p + d <= Len(y) /\ y[p + d] = z[p]
          BY ONLY <1>5, <3>2, Zenon
        <4> QED
          BY ONLY <2>1, <3>2, <4>1
      <3>4. I[r] + d - 1 = 1
        BY ONLY <1>2, <3>1
      <3> QED
        BY ONLY <3>3, <3>4 DEF Short
    <2> HIDE DEF d
    <2>6. /\ Short(y, I[r] + d - 1) => Takes(y, I[r] + d - 1, T[r], I[r + 1] + d - off)
          /\ T[r] = 1 => Short(y, I[r + 1] + d - 1)
      <3>1. L \in Nat /\ T \in [1 .. L -> Bit] /\ Timed(z, T, L, I) /\ y \in Seq(Nat) /\ d \in Int
            /\ r \in 1 .. L /\ Keeps(y, z, I, r, d)
        BY ONLY <1>2, <1>2a, <1>4, <1>6, <2>2, <2>4
      <3> QED
        BY ONLY <3>1, BitTakes DEF I, off
    <2>7. off \in {0, 1} /\ (off = 1 <=> T[r] = 1)
      OBVIOUS
    <2> HIDE DEF off
    <2>8. /\ y \in Seq(Nat) /\ 0 \in Nat /\ q \in Nat /\ 0 + 2 + q <= L
          /\ T[r] \in Bit /\ d \in Int /\ off \in {0, 1} /\ (off = 1 => 0 + 2 + q < L)
          /\ Len(y) = I[L] + d
          /\ (\A i \in 1 .. 0 : Keeps(y, z, I, i, 0))
          /\ Takes(y, I[0 + 1], T[r], I[0 + 2 + q] + d - off)
          /\ (off = 1 => Short(y, I[0 + 2 + q] + d - 1))
          /\ (\A i \in 0 + 2 + q .. L - 1 : Keeps(y, z, I, i, d))
          /\ Short(y, Len(y))
      <3>1. 0 + 1 = 1 /\ 0 \in Nat /\ \A i \in 1 .. 0 : FALSE
        OBVIOUS
      <3>2. 0 + 2 + q <= L /\ 0 + 2 + q < L
        BY ONLY <1>2
      <3>3. Takes(y, 1, T[r], I[r + 1] + d - off)
        BY ONLY <2>5, <2>6, Zenon
      <3> QED
        <4>1. y \in Seq(Nat) /\ q \in Nat /\ T[r] \in Bit /\ d \in Int /\ Len(y) = I[L] + d /\ Short(y, Len(y))
          BY ONLY <1>4, <1>6, <2>2, <2>3, Zenon
        <4>2. \A i \in 1 .. 0 : Keeps(y, z, I, i, 0)
          BY ONLY <3>1
        <4>3. Takes(y, I[0 + 1], T[r], I[0 + 2 + q] + d - off)
          <5>1. 0 + 2 + q = r + 1 /\ 0 + 1 = 1 /\ I[1] = 1
            BY ONLY <1>2a, <2>2, <3>1, Zenon
          <5> QED
            BY ONLY <3>3, <5>1, Zenon
        <4>4. off = 1 => Short(y, I[0 + 2 + q] + d - 1)
          <5>1. 0 + 2 + q = r + 1
            BY ONLY <2>2, Zenon
          <5>2. off = 1 => Short(y, I[r + 1] + d - 1)
            BY ONLY <2>6, <2>7, Zenon
          <5> QED
            BY ONLY <5>1, <5>2, Zenon
        <4>5. \A i \in 0 + 2 + q .. L - 1 : Keeps(y, z, I, i, d)
          <5>1. 0 + 2 + q = r + 1
            BY ONLY <2>2, Zenon
          <5> QED
            BY ONLY <2>4, <5>1
        <4>6. off \in {0, 1}
          BY ONLY <2>7, Zenon
        <4> QED
          BY ONLY <3>1, <3>2, <4>1, <4>2, <4>3, <4>4, <4>5, <4>6, Zenon
    <2>9. IsSplice(y, z, T, L, 0, q, T[r], d, off)
      BY ONLY <2>8 DEF IsSplice, I
    <2>10. PICK W, E : IsReading(y, W, E) /\ Len(W) = L - 1 - q /\ Like(W, T, q, 0)
      BY <2>2, <2>9, SpliceReads
    <2>11. q \in q - 1 .. q /\ q # q - 1
      OBVIOUS
    <2> QED
      BY <1>4, <2>10, <2>11 DEF y, w, I
  <1> QED
    BY <1>8, <1>9

-----------------------------------------------------------------------------

\* The intervals w are those of z without the crossing j.
AreLost(w, z, K, j) ==
    LET y == Front(w)
    IN  /\ y \in Seq(Nat) /\ Len(y) = K - 1 /\ Last(w) \in 1 .. 4
        /\ \A i \in 1 .. j - 1 : i <= Len(y) /\ y[i] = z[i]
        /\ j < K => y[j] = z[j] + z[j + 1]
        /\ \A i \in j + 1 .. K - 1 : y[i] = z[i + 1]
        /\ j < K => y[K - 1] = IF j = K - 1 THEN z[K - 1] + 2 ELSE 2

\* The intervals of a signal in which a crossing is lost, without the last of
\* them, which no crossing closes.
LEMMA LostFacts ==
    ASSUME NEW z \in Seq(Nat), NEW K \in Nat, Len(z) = K + 1, z[K] = 2, z[K + 1] = 2, NEW j \in 1 .. K
    PROVE  AreLost(WithoutCrossing(z, j), z, K, j)
  <1> DEFINE w == WithoutCrossing(z, j)
             y == Front(w)
  <1>1. j \in 1 .. Len(z) - 1 /\ K >= 1
    OBVIOUS
  <1>2. /\ w \in Seq(Nat) /\ Len(w) = Len(z) - 1
        /\ \A i \in 1 .. j - 1 : w[i] = z[i]
        /\ w[j] = z[j] + z[j + 1]
        /\ \A i \in j + 1 .. Len(z) - 1 : w[i] = z[i + 1]
    BY <1>1, WithoutIndex
  <1> HIDE DEF w
  <1>3. Len(w) = K /\ Len(w) >= 1
    BY <1>1, <1>2
  <1>4. /\ y \in Seq(Nat) /\ Len(y) = Len(w) - 1
        /\ \A i \in 1 .. Len(w) - 1 : y[i] = w[i]
        /\ Last(w) = w[Len(w)]
    BY ONLY <1>2, <1>3, FrontIndex
  <1> HIDE DEF y
  <1>5. Len(y) = K - 1 /\ Last(w) = w[K] /\ \A i \in 1 .. K - 1 : y[i] = w[i]
    BY <1>3, <1>4
  <1>6. \A i \in j + 1 .. K : w[i] = z[i + 1]
    BY <1>2
  <1>7. Last(w) \in 1 .. 4
    <2>1. CASE j = K
      BY <1>2, <1>5, <2>1
    <2>2. CASE j # K
      <3>1. K \in j + 1 .. K
        BY <2>2
      <3> QED
        BY <1>5, <1>6, <3>1
    <2> QED
      BY <2>1, <2>2
  <1>8. \A i \in 1 .. j - 1 : i <= Len(y) /\ y[i] = z[i]
    <2>1. \A i \in 1 .. j - 1 : i \in 1 .. K - 1 /\ i <= K - 1
      OBVIOUS
    <2> QED
      BY <1>2, <1>5, <2>1
  <1>9. j < K => y[j] = z[j] + z[j + 1]
    BY <1>2, <1>5
  <1>10. \A i \in j + 1 .. K - 1 : y[i] = z[i + 1]
    <2>1. \A i \in j + 1 .. K - 1 : i \in 1 .. K - 1 /\ i \in j + 1 .. K
      OBVIOUS
    <2> QED
      BY <1>5, <1>6, <2>1
  <1>11. j < K => y[K - 1] = IF j = K - 1 THEN z[K - 1] + 2 ELSE 2
    <2>1. CASE j = K - 1
      <3>1. j + 1 = K /\ j < K
        BY <2>1
      <3> QED
        BY <1>9, <2>1, <3>1
    <2>2. CASE j < K - 1
      <3>1. K - 1 \in j + 1 .. K - 1 /\ (K - 1) + 1 = K
        BY <2>2
      <3> QED
        BY <1>10, <2>2, <3>1
    <2> QED
      BY <2>1, <2>2
  <1> QED
    BY ONLY <1>4, <1>5, <1>7, <1>8, <1>9, <1>10, <1>11, Zenon DEF y, w, AreLost

\* A crossing may be added in the interval j, at n of its quarters.
MayAdd(z, K, j, n) ==
    /\ z \in Seq(Nat) /\ K \in Nat /\ Len(z) = K + 1 /\ z[K] = 2 /\ z[K + 1] = 2
    /\ j \in 1 .. K + 1 /\ z[j] \in {2, 4} /\ n \in 1 .. z[j] - 1

\* The intervals of a signal with a crossing too many, without the last of them.
LEMMA AddedFacts ==
    ASSUME NEW z, NEW K, NEW j, NEW n, MayAdd(z, K, j, n)
    PROVE  LET w == WithCrossing(z, j, n)
               y == Front(w)
           IN  /\ y \in Seq(Nat) /\ Len(y) = K + 1 /\ Last(w) \in 1 .. 4
               /\ \A i \in 1 .. j - 1 : i <= Len(y) /\ y[i] = z[i]
               /\ y[j] = n
               /\ j <= K => y[j + 1] = z[j] - n
               /\ \A i \in j + 1 .. K : y[i + 1] = z[i]
  <1> DEFINE w == WithCrossing(z, j, n)
             y == Front(w)
  <1>0. /\ z \in Seq(Nat) /\ K \in Nat /\ Len(z) = K + 1 /\ z[K] = 2 /\ z[K + 1] = 2
        /\ j \in 1 .. K + 1 /\ z[j] \in {2, 4} /\ n \in 1 .. z[j] - 1
    BY DEF MayAdd
  <1>1. j \in 1 .. Len(z)
    BY <1>0
  <1>2. /\ w \in Seq(Nat) /\ Len(w) = Len(z) + 1
        /\ \A i \in 1 .. j - 1 : w[i] = z[i]
        /\ w[j] = n /\ w[j + 1] = z[j] - n
        /\ \A i \in j + 1 .. Len(z) : w[i + 1] = z[i]
    BY ONLY Zenon, <1>0, <1>1, WithIndex
  <1> HIDE DEF w
  <1>3. Len(w) = K + 2 /\ Len(w) >= 1
    BY <1>0, <1>2
  <1>4. /\ y \in Seq(Nat) /\ Len(y) = Len(w) - 1
        /\ \A i \in 1 .. Len(w) - 1 : y[i] = w[i]
        /\ Last(w) = w[Len(w)]
    BY ONLY <1>2, <1>3, FrontIndex
  <1> HIDE DEF y
  <1>5. Len(y) = K + 1 /\ Last(w) = w[K + 2] /\ \A i \in 1 .. K + 1 : y[i] = w[i]
    <2>1. Len(w) = K + 2 /\ Len(w) - 1 = K + 1
      BY ONLY <1>0, <1>3
    <2> QED
      BY ONLY <1>4, <2>1
  <1>6. \A i \in j + 1 .. K + 1 : w[i + 1] = z[i]
    BY <1>0, <1>2
  <1>7. Last(w) \in 1 .. 4
    <2>0. n \in Int
      BY <1>0
    <2>1. CASE j = K + 1
      <3>1. j + 1 = K + 2
        BY <1>0, <2>1
      <3>2. Last(w) = z[j] - n
        BY <1>0, <1>2, <1>5, <3>1
      <3> QED
        BY <1>0, <3>2
    <2>2. CASE j # K + 1
      <3>1. K + 1 \in j + 1 .. K + 1 /\ (K + 1) + 1 = K + 2
        BY <1>0, <2>2
      <3> QED
        BY <1>0, <1>5, <1>6, <3>1
    <2> QED
      BY <1>0, <2>1, <2>2
  <1>8. \A i \in 1 .. j - 1 : i <= Len(y) /\ y[i] = z[i]
    <2>1. \A i \in 1 .. j - 1 : i \in 1 .. K + 1 /\ i <= K + 1
      BY <1>0
    <2> QED
      BY <1>0, <1>2, <1>5, <2>1
  <1>9. y[j] = n
    BY <1>0, <1>2, <1>5
  <1>10. j <= K => y[j + 1] = z[j] - n
    <2>1. j <= K => j + 1 \in 1 .. K + 1
      BY <1>0
    <2> QED
      BY <1>0, <1>2, <1>5, <2>1
  <1>11. \A i \in j + 1 .. K : y[i + 1] = z[i]
    <2>1. \A i \in j + 1 .. K : i + 1 \in 1 .. K + 1 /\ i \in j + 1 .. K + 1
      BY <1>0
    <2> QED
      BY <1>0, <1>5, <1>6, <2>1
  <1> QED
    BY <1>0, <1>4, <1>5, <1>7, <1>8, <1>9, <1>10, <1>11 DEF y, w

\* What is left as it was.
LEMMA LostKeeps ==
    ASSUME NEW T, NEW L, NEW z, Carries(z, T, L), NEW b \in 1 .. L, NEW j \in Nat,
           j >= Places(T, L)[b], j < Places(T, L)[b + 1], j <= Places(T, L)[L]
    PROVE  LET I == Places(T, L)
               y == Front(WithoutCrossing(z, j))
           IN  /\ y \in Seq(Nat) /\ Len(y) = I[L] - 1 /\ Last(WithoutCrossing(z, j)) \in 1 .. 4
               /\ \A i \in 1 .. b - 1 : Keeps(y, z, I, i, 0)
               /\ \A a \in 1 .. L : j + 2 <= I[a] => \A i \in a .. L - 1 : Keeps(y, z, I, i, -1)
               /\ j + 1 < I[L] => Short(y, Len(y))
               /\ j < I[L] => y[j] = z[j] + z[j + 1] /\ j <= Len(y)
               /\ \A i \in 1 .. j - 1 : i <= Len(y) /\ y[i] = z[i]
               /\ \A i \in j + 1 .. I[L] - 1 : i <= Len(y) /\ y[i] = z[i + 1]
  <1> DEFINE I == Places(T, L)
             y == Front(WithoutCrossing(z, j))
             K == I[L]
  <1>1. /\ L \in Nat /\ L >= 320
        /\ z \in Seq(Nat) /\ Len(z) = I[L] + 1 /\ z[I[L]] = 2 /\ z[I[L] + 1] = 2
        /\ \A q \in 1 .. L : I[q] \in Nat /\ I[q] >= 1 /\ I[q + 1] \in Nat
    BY CarriesFacts
  <1>2. /\ K \in Nat /\ I[b] \in Nat /\ I[b] >= 1 /\ j \in Nat /\ j >= I[b] /\ j <= K
        /\ z \in Seq(Nat) /\ Len(z) = K + 1 /\ z[K] = 2 /\ z[K + 1] = 2
        /\ b \in 1 .. L /\ L \in Nat /\ L >= 320
    <2>1. L \in 1 .. L
      BY <1>1
    <2> QED
      BY <1>1, <2>1
  <1>3. /\ y \in Seq(Nat) /\ Len(y) = K - 1 /\ Last(WithoutCrossing(z, j)) \in 1 .. 4
        /\ \A i \in 1 .. j - 1 : i <= Len(y) /\ y[i] = z[i]
        /\ j < K => y[j] = z[j] + z[j + 1]
        /\ \A i \in j + 1 .. K - 1 : y[i] = z[i + 1]
        /\ j < K => y[K - 1] = IF j = K - 1 THEN z[K - 1] + 2 ELSE 2
    <2> HIDE DEF I, K
    <2>1. j \in 1 .. K
      BY ONLY <1>2
    <2> QED
      <3>1. /\ z \in Seq(Nat) /\ K \in Nat /\ Len(z) = K + 1 /\ z[K] = 2 /\ z[K + 1] = 2
            /\ j \in 1 .. K
        BY ONLY <1>2, <2>1
      <3> QED
        <4>1. AreLost(WithoutCrossing(z, j), z, K, j)
          BY ONLY <3>1, LostFacts
        <4> QED
          BY ONLY <4>1, Zenon DEF AreLost
  <1> HIDE DEF y
  <1>4. \A i \in 1 .. b - 1 : Keeps(y, z, I, i, 0)
    <2>1. b - 1 \in 0 .. L /\ (b - 1) + 1 = b
      BY ONLY <1>2
    <2>2. \A i \in 1 .. I[(b - 1) + 1] - 1 : i <= Len(y) /\ y[i] = z[i]
      <3> HIDE DEF I, K
      <3>1. \A i \in 1 .. I[b] - 1 : i \in 1 .. j - 1
        BY ONLY <1>2
      <3> QED
        BY ONLY <1>3, <2>1, <3>1
    <2> QED
      BY <1>3, <2>1, <2>2, KeepsHead
  <1>5. ASSUME NEW a \in 1 .. L, j + 2 <= I[a]
        PROVE  \A i \in a .. L - 1 : Keeps(y, z, I, i, -1)
    <2>1. \A i \in I[a] .. I[L] - 1 : i + (-1) >= 1 /\ i + (-1) <= Len(y) /\ y[i + (-1)] = z[i]
      <3>0. I[a] \in Nat /\ j + 2 <= I[a]
        BY <1>1, <1>5
      <3>2. K \in Nat /\ j \in Nat /\ j >= 1
        BY ONLY <1>2
      <3> HIDE DEF I, K
      <3>1. \A i \in I[a] .. K - 1 : /\ i + (-1) \in j + 1 .. K - 1 /\ i + (-1) + 1 = i
                                     /\ i + (-1) >= 1 /\ i + (-1) <= K - 1
        BY ONLY <3>0, <3>2
      <3> QED
        BY ONLY <1>3, <3>1 DEF K
    <2>2. -1 \in Int
      OBVIOUS
    <2> QED
      BY <1>3, <2>1, <2>2, KeepsTail
  <1> HIDE DEF I, K
  <1>6. j + 1 < K => Short(y, Len(y))
    <2>1. j + 1 < K => j < K /\ j # K - 1
      BY ONLY <1>2
    <2>2. K - 1 <= K - 1
      BY ONLY <1>2
    <2>3. j + 1 < K => y[Len(y)] = 2 /\ Len(y) <= Len(y)
      BY ONLY <1>3, <2>1, <2>2
    <2> QED
      BY ONLY <2>3 DEF Short
  <1>7. /\ j < K => j <= Len(y)
        /\ \A i \in j + 1 .. K - 1 : i <= Len(y)
    BY ONLY <1>2, <1>3
  <1> QED
    BY <1>3, <1>4, <1>5, <1>6, <1>7 DEF I, K, y

\* What a crossing too many leaves as it was.
LEMMA AddedKeeps ==
    ASSUME NEW T, NEW L, NEW z, Carries(z, T, L), NEW b \in 1 .. L, NEW j \in Nat,
           j >= Places(T, L)[b], j < Places(T, L)[b + 1], NEW n \in 1 .. z[j] - 1
    PROVE  LET I == Places(T, L)
               y == Front(WithCrossing(z, j, n))
           IN  /\ y \in Seq(Nat) /\ Len(y) = I[L] + 1 /\ Last(WithCrossing(z, j, n)) \in 1 .. 4
               /\ \A i \in 1 .. b - 1 : Keeps(y, z, I, i, 0)
               /\ \A a \in 1 .. L : j + 1 <= I[a] => \A i \in a .. L - 1 : Keeps(y, z, I, i, 1)
               /\ j < I[L] => Short(y, Len(y))
               /\ y[j] = n /\ j <= Len(y)
               /\ j <= I[L] => y[j + 1] = z[j] - n /\ j + 1 <= Len(y)
               /\ \A i \in 1 .. j - 1 : i <= Len(y) /\ y[i] = z[i]
               /\ \A i \in j + 1 .. I[L] : i + 1 <= Len(y) /\ y[i + 1] = z[i]
  <1> DEFINE I == Places(T, L)
             y == Front(WithCrossing(z, j, n))
             K == I[L]
  <1>1. /\ L \in Nat /\ L >= 320
        /\ z \in Seq(Nat) /\ Len(z) = I[L] + 1 /\ z[I[L]] = 2 /\ z[I[L] + 1] = 2
        /\ \A q \in 1 .. L : I[q] \in Nat /\ I[q] >= 1 /\ I[q + 1] \in Nat
        /\ \A q, r \in 1 .. L + 1 : q < r => I[q] < I[r]
        /\ \A i \in 1 .. Len(z) : z[i] = 2 \/ z[i] = 4
        /\ I[L + 1] = I[L] + 2
    <2>1. /\ L \in Nat /\ L >= 320
          /\ z \in Seq(Nat) /\ Len(z) = I[L] + 1 /\ z[I[L]] = 2 /\ z[I[L] + 1] = 2
          /\ \A q \in 1 .. L : I[q] \in Nat /\ I[q] >= 1 /\ I[q + 1] \in Nat
      BY CarriesFacts
    <2>2. \A q, r \in 1 .. L + 1 : q < r => I[q] < I[r]
      BY CarriesFacts
    <2>3. \A i \in 1 .. Len(z) : z[i] = 2 \/ z[i] = 4
      BY CarriesFacts
    <2>4. I[L + 1] = I[L] + 2
      BY CarriesFacts
    <2> QED
      BY ONLY <2>1, <2>2, <2>3, <2>4, Zenon
  <1>2. /\ K \in Nat /\ I[b] \in Nat /\ I[b] >= 1 /\ j \in Nat /\ j >= I[b] /\ j <= K + 1
        /\ z \in Seq(Nat) /\ Len(z) = K + 1 /\ z[K] = 2 /\ z[K + 1] = 2
        /\ b \in 1 .. L /\ L \in Nat /\ L >= 320
    <2>1. L \in 1 .. L /\ b + 1 \in 1 .. L + 1 /\ L + 1 \in 1 .. L + 1 /\ (b + 1 = L + 1 \/ b + 1 < L + 1)
      BY <1>1
    <2>2. I[b + 1] = I[L + 1] \/ I[b + 1] < I[L + 1]
      BY ONLY <1>1, <2>1
    <2>3. K \in Nat /\ I[b] \in Nat /\ I[b] >= 1 /\ j \in Nat /\ j >= I[b] /\ j < I[b + 1] /\ I[b + 1] \in Nat
          /\ I[L + 1] = K + 2
      BY <1>1, <2>1
    <2>4. j <= K + 1
      BY ONLY <2>2, <2>3
    <2>5. b \in 1 .. L
      OBVIOUS
    <2> QED
      BY ONLY <1>1, <2>3, <2>4, <2>5, Zenon
  <1>3. /\ y \in Seq(Nat) /\ Len(y) = K + 1 /\ Last(WithCrossing(z, j, n)) \in 1 .. 4
        /\ \A i \in 1 .. j - 1 : i <= Len(y) /\ y[i] = z[i]
        /\ y[j] = n
        /\ j <= K => y[j + 1] = z[j] - n
        /\ \A i \in j + 1 .. K : y[i + 1] = z[i]
    <2>1. j \in 1 .. K + 1
      BY ONLY <1>2
    <2>2. z[j] = 2 \/ z[j] = 4
      BY ONLY <1>1, <1>2, <2>1
    <2>3. n \in 1 .. z[j] - 1
      OBVIOUS
    <2>4. z \in Seq(Nat) /\ K \in Nat /\ Len(z) = K + 1 /\ z[K] = 2 /\ z[K + 1] = 2
      BY ONLY <1>2
    <2> HIDE DEF I, K
    <2> QED
      <3>1. MayAdd(z, K, j, n)
        BY <2>1, <2>2, <2>3, <2>4 DEF MayAdd
      <3> QED
        BY ONLY <3>1, AddedFacts
  <1> HIDE DEF y
  <1>4. \A i \in 1 .. b - 1 : Keeps(y, z, I, i, 0)
    <2>1. b - 1 \in 0 .. L /\ (b - 1) + 1 = b
      BY ONLY <1>2
    <2>2. \A i \in 1 .. I[(b - 1) + 1] - 1 : i <= Len(y) /\ y[i] = z[i]
      <3> HIDE DEF I, K
      <3>1. \A i \in 1 .. I[b] - 1 : i \in 1 .. j - 1
        BY ONLY <1>2
      <3> QED
        BY ONLY <1>3, <2>1, <3>1
    <2> QED
      BY <1>3, <2>1, <2>2, KeepsHead
  <1>5. ASSUME NEW a \in 1 .. L, j + 1 <= I[a]
        PROVE  \A i \in a .. L - 1 : Keeps(y, z, I, i, 1)
    <2>1. \A i \in I[a] .. I[L] - 1 : i + 1 >= 1 /\ i + 1 <= Len(y) /\ y[i + 1] = z[i]
      <3>0. I[a] \in Nat /\ j + 1 <= I[a]
        BY <1>1, <1>5
      <3>2. K \in Nat /\ j \in Nat /\ j >= 1
        BY ONLY <1>2
      <3> HIDE DEF I, K
      <3>1. \A i \in I[a] .. K - 1 : i \in j + 1 .. K /\ i + 1 >= 1 /\ i + 1 <= K + 1
        BY ONLY <3>0, <3>2
      <3> QED
        BY ONLY <1>3, <3>1 DEF K
    <2>2. 1 \in Int
      OBVIOUS
    <2> QED
      BY <1>3, <2>1, <2>2, KeepsTail
  <1> HIDE DEF I, K
  <1>6. j < K => Short(y, Len(y))
    <2>1. j < K => K \in j + 1 .. K
      BY ONLY <1>2
    <2>2. j < K => y[Len(y)] = 2
      BY ONLY <1>2, <1>3, <2>1
    <2>3. Len(y) <= Len(y)
      BY ONLY <1>2, <1>3
    <2> QED
      BY ONLY <2>2, <2>3 DEF Short
  <1>7. /\ j <= Len(y) /\ (j <= K => j + 1 <= Len(y))
        /\ \A i \in j + 1 .. K : i + 1 <= Len(y)
    BY ONLY <1>2, <1>3
  <1> QED
    BY <1>3, <1>4, <1>5, <1>6, <1>7 DEF I, K, y

\* A crossing that is lost: the bit it happens in is misread, or it is read as
\* a zero and the next one goes missing.
LEMMA LostIsRead ==
    ASSUME NEW T, NEW L, NEW z, Carries(z, T, L), NEW b \in 1 .. L, NEW j \in Nat,
           j >= Places(T, L)[b], j < Places(T, L)[b + 1], j <= Places(T, L)[L]
    PROVE  LET w == WithoutCrossing(z, j)
           IN  /\ Last(w) \in 1 .. 4
               /\ \E W, E :
                    /\ IsReading(Front(w), W, E)
                    /\ \/ Len(W) = L - 1 /\ Like(W, T, 0, b) /\ (b < L - 1 => j + 1 < Places(T, L)[b + 1])
                       \/ b <= L - 2 /\ Len(W) = L - 2 /\ Slip(W, T, b) /\ j + 1 = Places(T, L)[b + 1]
  <1> DEFINE I == Places(T, L)
             y == Front(WithoutCrossing(z, j))
  <1>1. /\ L \in Nat /\ L >= 320 /\ T[L] = 1 /\ T[L - 1] = 0
        /\ z \in Seq(Nat) /\ Len(z) = I[L] + 1 /\ z[I[L]] = 2 /\ z[I[L] + 1] = 2
        /\ \A q \in 1 .. L : /\ I[q] \in Nat /\ I[q] >= 1 /\ I[q + 1] \in Nat
                             /\ T[q] = 0 \/ T[q] = 1
                             /\ T[q] = 1 => z[I[q]] = 2 /\ z[I[q] + 1] = 2 /\ I[q + 1] = I[q] + 2
                             /\ T[q] # 1 => z[I[q]] = 4 /\ I[q + 1] = I[q] + 1
    BY CarriesFacts
  <1>2. \A q, r \in 1 .. L + 1 : q < r => I[q] < I[r]
    BY CarriesFacts
  <1>3. /\ y \in Seq(Nat) /\ Len(y) = I[L] - 1 /\ Last(WithoutCrossing(z, j)) \in 1 .. 4
        /\ \A i \in 1 .. b - 1 : Keeps(y, z, I, i, 0)
        /\ \A a \in 1 .. L : j + 2 <= I[a] => \A i \in a .. L - 1 : Keeps(y, z, I, i, -1)
        /\ j + 1 < I[L] => Short(y, Len(y))
        /\ j < I[L] => y[j] = z[j] + z[j + 1] /\ j <= Len(y)
        /\ \A i \in 1 .. j - 1 : i <= Len(y) /\ y[i] = z[i]
        /\ \A i \in j + 1 .. I[L] - 1 : i <= Len(y) /\ y[i] = z[i + 1]
    BY LostKeeps
  <1>4. /\ L \in Nat /\ L >= 320 /\ b \in 1 .. L /\ j \in Nat /\ j >= I[b] /\ j < I[b + 1] /\ j <= I[L]
        /\ I[b] \in Nat /\ I[b + 1] \in Nat /\ I[L] \in Nat /\ I[b] >= 1
    <2>1. L \in 1 .. L
      BY <1>1
    <2> QED
      BY <1>1, <2>1
  <1>5. /\ T[b] = 0 \/ T[b] = 1
        /\ T[b] = 1 => z[I[b]] = 2 /\ z[I[b] + 1] = 2 /\ I[b + 1] = I[b] + 2
        /\ T[b] # 1 => z[I[b]] = 4 /\ I[b + 1] = I[b] + 1
    BY <1>1
  <1> HIDE DEF I, y
  \* The end of it.
  <1>6. ASSUME b = L
        PROVE  \E W, E : IsReading(y, W, E) /\ Len(W) = L - 1 /\ Like(W, T, 0, 0)
    <2>1. b - 1 = L - 1 /\ L - 1 \in 0 .. L /\ (L - 1) + 1 = L /\ j = I[L]
      BY ONLY <1>4, <1>6
    <2>2. I[(L - 1) + 1] = Len(y) + 1
      BY ONLY <1>3, <1>4, <2>1
    <2>3. \A i \in 1 .. L - 1 : Keeps(y, z, I, i, 0)
      BY ONLY <1>3, <2>1
    <2>4. IsHead(y, z, T, L, L - 1)
      BY ONLY <1>3, <2>1, <2>2, <2>3 DEF IsHead, I
    <2> QED
      BY <2>4, HeadReads
  <1>7. ASSUME b = L - 1
        PROVE  \E W, E : IsReading(y, W, E) /\ Len(W) = L - 1 /\ Like(W, T, 0, 0)
    <2>1. T[b] = 0 /\ b + 1 = L /\ L - 1 \in 0 .. L /\ (L - 1) + 1 = L
      BY ONLY <1>1, <1>4, <1>7
    <2>2. j = I[b] /\ I[L] = I[b] + 1 /\ z[j] = 4
      BY ONLY <1>4, <1>5, <2>1
    <2>3. y[j] = 4 + z[j + 1] /\ z[j + 1] = 2 /\ j <= Len(y)
      <3>1. j < I[L] /\ j + 1 = I[L]
        BY ONLY <1>4, <2>2
      <3>2. y[j] = z[j] + z[j + 1] /\ j <= Len(y)
        BY ONLY <1>3, <3>1
      <3>3. z[j + 1] = 2
        BY ONLY <1>1, <3>1
      <3> QED
        BY ONLY <2>2, <3>2, <3>3, Zenon
    <2>4. Takes(y, I[L - 1], T[L - 1], I[(L - 1) + 1])
      <3>1. y[j] = 6
        BY ONLY <2>3
      <3>2. ~Short(y, j)
        BY ONLY <2>3, <3>1 DEF Short
      <3>3. Takes(y, j, 0, j + 1)
        BY ONLY <2>3, <3>2 DEF Takes
      <3> QED
        BY ONLY <1>7, <2>1, <2>2, <3>3
    <2>5. \A i \in 1 .. L - 1 : Keeps(y, z, I, i, 0) \/ Takes(y, I[i], T[i], I[i + 1])
      <3>1. \A i \in 1 .. L - 1 : i \in 1 .. b - 1 \/ i = L - 1
        BY ONLY <1>4, <1>7
      <3> QED
        BY ONLY <1>3, <2>4, <3>1
    <2>6. I[(L - 1) + 1] = Len(y) + 1
      BY ONLY <1>3, <1>4, <2>1
    <2>7. IsHead(y, z, T, L, L - 1)
      BY ONLY <1>3, <2>1, <2>5, <2>6 DEF IsHead, I
    <2> QED
      BY <2>7, HeadReads
  \* The bit becomes a zero.
  <1>8. ASSUME b < L - 1, T[b] = 1, j = I[b]
        PROVE  \E W, E : IsReading(y, W, E) /\ Len(W) = L - 1 /\ Like(W, T, 0, b)
    <2>1. /\ I[b + 1] = I[b] + 2 /\ z[j] = 2 /\ z[j + 1] = 2
          /\ b + 1 \in 1 .. L + 1 /\ L \in 1 .. L + 1 /\ b + 1 < L /\ b + 1 \in 1 .. L
          /\ b - 1 \in Nat /\ (b - 1) + 2 + 0 = b + 1 /\ (b - 1) + 2 + 0 <= L /\ (b - 1) + 1 = b
      BY ONLY <1>4, <1>5, <1>8
    <2>2. I[b + 1] < I[L]
      BY ONLY <1>2, <2>1
    <2>3. j + 2 <= I[b + 1] /\ j + 1 < I[L] /\ j < I[L]
      BY ONLY <1>4, <1>8, <2>1, <2>2
    <2>4. Takes(y, I[b], 0, I[b + 1] + (-1) - 0)
      <3>1. y[j] = 4 /\ j <= Len(y)
        BY ONLY <1>3, <2>1, <2>3
      <3>2. ~Short(y, j)
        BY ONLY <3>1 DEF Short
      <3>3. Takes(y, j, 0, j + 1)
        BY ONLY <3>1, <3>2 DEF Takes
      <3>4. I[b + 1] + (-1) - 0 = j + 1
        BY ONLY <1>4, <1>8, <2>1
      <3> QED
        BY ONLY <1>8, <3>3, <3>4
    <2>5. /\ \A i \in 1 .. b - 1 : Keeps(y, z, I, i, 0)
          /\ \A i \in (b - 1) + 2 + 0 .. L - 1 : Keeps(y, z, I, i, -1)
          /\ Short(y, Len(y)) /\ y \in Seq(Nat) /\ Len(y) = I[L] + (-1)
      <3>1. I[L] - 1 = I[L] + (-1)
        BY ONLY <1>4
      <3> QED
        BY ONLY <1>3, <2>1, <2>3, <3>1
    <2>6. Takes(y, I[(b - 1) + 1], 0, I[(b - 1) + 2 + 0] + (-1) - 0)
      BY ONLY <2>1, <2>4
    <2>7. 0 \in Bit /\ 0 \in Nat /\ -1 \in Int /\ 0 \in {0, 1} /\ 0 # 1
      BY DEF Bit
    <2>8. IsSplice(y, z, T, L, b - 1, 0, 0, -1, 0)
      BY ONLY <2>1, <2>5, <2>6, <2>7 DEF IsSplice, I
    <2>9. L - 1 - 0 = L - 1
      BY ONLY <1>4
    <2>10. PICK W, E : /\ IsReading(y, W, E) /\ Len(W) = L - 1 - 0
                       /\ Like(W, T, 0, (b - 1) + 1)
      BY <2>8, SpliceReads
    <2> QED
      BY ONLY <2>1, <2>9, <2>10
  \* It swallows the beginning of the next one.
  <1>9. ASSUME b < L - 1, j = I[b + 1] - 1
        PROVE  \E W, E : IsReading(y, W, E) /\ Len(W) = L - 2 /\ Slip(W, T, b)
    <2> DEFINE r == b + 1
               off == IF T[r] = 1 THEN 1 ELSE 0
    <2>1. /\ r \in 1 .. L /\ r \in 1 .. L + 1 /\ L \in 1 .. L + 1 /\ r < L /\ r + 1 \in 1 .. L + 1
          /\ r + 1 \in 1 .. L /\ (r + 1 < L \/ r + 1 = L) /\ (r + 1 = L <=> r = L - 1)
          /\ b - 1 \in Nat /\ (b - 1) + 2 + 1 = r + 1 /\ (b - 1) + 2 + 1 <= L /\ (b - 1) + 1 = b
      BY ONLY <1>4, <1>9
    <2> HIDE DEF r
    <2>2. /\ I[r] \in Nat /\ I[r + 1] \in Nat /\ I[r] < I[L]
          /\ T[r] = 0 \/ T[r] = 1
          /\ T[r] = 1 => z[I[r]] = 2 /\ z[I[r] + 1] = 2 /\ I[r + 1] = I[r] + 2
          /\ T[r] # 1 => z[I[r]] = 4 /\ I[r + 1] = I[r] + 1
          /\ r + 1 < L => I[r + 1] < I[L]
      BY ONLY <1>1, <1>2, <2>1
    <2>3. j = I[r] - 1 /\ j < I[L] /\ j + 1 = I[r] /\ j + 1 < I[L] /\ j + 2 <= I[r + 1]
      <3>1. j = I[r] - 1
        BY ONLY <1>9 DEF r
      <3>2. T[r] = 1 => I[r + 1] = I[r] + 2
        BY ONLY <2>2
      <3>3. T[r] # 1 => I[r + 1] = I[r] + 1
        BY ONLY <2>2
      <3>4. I[r] \in Nat /\ I[r + 1] \in Nat /\ I[r] < I[L] /\ I[L] \in Nat
        BY ONLY <1>4, <2>2
      <3> QED
        BY ONLY <3>1, <3>2, <3>3, <3>4
    <2>4. off \in {0, 1} /\ (off = 1 <=> T[r] = 1) /\ I[r + 1] + (-1) - off = I[r]
      BY ONLY <2>2
    <2>5. off = 1 => r + 1 < L
      <3>1. r = L - 1 => T[r] = 0
        BY ONLY <1>1
      <3> QED
        BY ONLY <2>1, <2>4, <3>1
    <2>6. off = 1 => Short(y, I[r + 1] + (-1) - 1)
      <3> SUFFICES ASSUME off = 1 PROVE Short(y, I[r + 1] + (-1) - 1)
        OBVIOUS
      <3>1. T[r] = 1 /\ r + 1 < L
        BY ONLY <2>4, <2>5, off = 1
      <3>2. z[I[r] + 1] = 2 /\ I[r + 1] = I[r] + 2 /\ I[r + 1] < I[L]
        BY ONLY <2>2, <3>1
      <3>3. I[r] \in j + 1 .. I[L] - 1 /\ I[r + 1] + (-1) - 1 = I[r]
        BY ONLY <1>4, <2>2, <2>3, <3>2
      <3>4. I[r] <= Len(y) /\ y[I[r]] = 2
        BY ONLY <1>3, <3>2, <3>3
      <3> QED
        BY ONLY <3>3, <3>4 DEF Short
    <2>7. Takes(y, I[b], 0, I[r])
      <3>1. j <= Len(y) /\ y[j] = z[j] + z[j + 1]
        BY ONLY <1>3, <2>1, <2>3
      <3>2. z[j + 1] = 2 \/ z[j + 1] = 4
        BY ONLY <2>2, <2>3
      <3>3. z[j] = 2 \/ z[j] = 4
        <4>1. CASE T[b] = 1
          <5>1. j = I[b] + 1
            BY ONLY <1>4, <1>5, <1>9, <4>1
          <5> QED
            BY ONLY <1>5, <4>1, <5>1
        <4>2. CASE T[b] # 1
          <5>1. j = I[b]
            BY ONLY <1>4, <1>5, <1>9, <4>2
          <5> QED
            BY ONLY <1>5, <4>2, <5>1
        <4> QED
          BY ONLY <4>1, <4>2
      <3>4. y[j] = z[j] + z[j + 1]
        BY ONLY <1>3, <2>3
      <3>5. ~Short(y, j)
        BY ONLY <3>1, <3>2, <3>3, <3>4 DEF Short
      <3>6. CASE T[b] # 1
        <4>1. I[b] = j /\ I[r] = j + 1
          BY ONLY <1>4, <1>5, <1>9, <2>3, <3>6
        <4> QED
          BY ONLY <3>1, <3>5, <4>1 DEF Takes
      <3>7. CASE T[b] = 1
        <4>1. I[b] + 1 = j /\ I[r] = I[b] + 2 /\ I[b] \in 1 .. j - 1 /\ z[I[b]] = 2
          BY ONLY <1>4, <1>5, <1>9, <2>3, <3>7
        <4>2. I[b] <= Len(y) /\ y[I[b]] = 2
          BY ONLY <1>3, <4>1
        <4>3. Short(y, I[b])
          BY ONLY <4>2 DEF Short
        <4> QED
          BY ONLY <3>1, <3>5, <4>1, <4>3 DEF Takes
      <3> QED
        BY ONLY <3>6, <3>7
    <2>8. /\ \A i \in 1 .. b - 1 : Keeps(y, z, I, i, 0)
          /\ \A i \in (b - 1) + 2 + 1 .. L - 1 : Keeps(y, z, I, i, -1)
          /\ Short(y, Len(y)) /\ y \in Seq(Nat) /\ Len(y) = I[L] + (-1)
      <3>1. I[L] - 1 = I[L] + (-1)
        BY ONLY <1>4
      <3> QED
        BY ONLY <1>3, <2>1, <2>3, <3>1
    <2> HIDE DEF off
    <2>9. Takes(y, I[(b - 1) + 1], 0, I[(b - 1) + 2 + 1] + (-1) - off)
      BY ONLY <2>1, <2>4, <2>7
    <2>10. (off = 1 => Short(y, I[(b - 1) + 2 + 1] + (-1) - 1)) /\ (off = 1 => (b - 1) + 2 + 1 < L)
      BY ONLY <2>1, <2>5, <2>6
    <2>11. 0 \in Bit /\ 1 \in Nat /\ -1 \in Int
      BY DEF Bit
    <2>12. IsSplice(y, z, T, L, b - 1, 1, 0, -1, off)
      BY ONLY <2>1, <2>4, <2>8, <2>9, <2>10, <2>11 DEF IsSplice, I
    <2>13. L - 1 - 1 = L - 2
      BY ONLY <1>4
    <2>14. PICK W, E : /\ IsReading(y, W, E) /\ Len(W) = L - 1 - 1
                       /\ Slip(W, T, (b - 1) + 1)
      BY <2>12, SpliceReads
    <2> QED
      BY ONLY <2>1, <2>13, <2>14
  <1>10. CASE b = L \/ b = L - 1
    <2>1. PICK W, E : IsReading(y, W, E) /\ Len(W) = L - 1 /\ Like(W, T, 0, 0)
      BY ONLY <1>6, <1>7, <1>10
    <2>2. Like(W, T, 0, b)
      <3>1. \A i \in 1 .. Len(W) : i # 0
        OBVIOUS
      <3> QED
        BY ONLY <2>1, <3>1 DEF Like
    <2>3. ~(b < L - 1)
      BY ONLY <1>4, <1>10
    <2> QED
      BY ONLY <1>3, <2>1, <2>2, <2>3 DEF y, I
  <1>11. CASE b < L - 1 /\ T[b] = 1 /\ j = I[b]
    <2>1. PICK W, E : IsReading(y, W, E) /\ Len(W) = L - 1 /\ Like(W, T, 0, b)
      BY ONLY <1>8, <1>11
    <2>2. j + 1 < I[b + 1]
      BY ONLY <1>4, <1>5, <1>11
    <2> QED
      BY ONLY <1>3, <2>1, <2>2 DEF y, I
  <1>12. CASE b < L - 1 /\ j = I[b + 1] - 1
    <2>1. PICK W, E : IsReading(y, W, E) /\ Len(W) = L - 2 /\ Slip(W, T, b)
      BY ONLY <1>9, <1>12
    <2>2. b <= L - 2 /\ j + 1 = I[b + 1]
      BY ONLY <1>4, <1>12
    <2> QED
      BY ONLY <1>3, <2>1, <2>2 DEF y, I
  <1> QED
    <2>1. b < L - 1 \/ b = L \/ b = L - 1
      BY ONLY <1>4
    <2>2. (T[b] = 1 /\ j = I[b]) \/ j = I[b + 1] - 1
      BY ONLY <1>4, <1>5
    <2> QED
      BY ONLY <1>10, <1>11, <1>12, <2>1, <2>2

\* A crossing too many: no more than the bit it happens in is misread.
LEMMA AddedIsRead ==
    ASSUME NEW T, NEW L, NEW z, Carries(z, T, L), NEW b \in 1 .. L, NEW j \in Nat,
           j >= Places(T, L)[b], j < Places(T, L)[b + 1], NEW n \in 1 .. z[j] - 1
    PROVE  LET w == WithCrossing(z, j, n)
           IN  /\ Last(w) \in 1 .. 4
               /\ \E W, E :
                    /\ IsReading(Front(w), W, E)
                    /\ \/ Len(W) = L - 1 /\ Like(W, T, 0, b)
                       \/ Len(W) = L /\ Like(W, T, 0, 0)
  <1> DEFINE I == Places(T, L)
             y == Front(WithCrossing(z, j, n))
  <1>1. /\ L \in Nat /\ L >= 320 /\ T[L] = 1 /\ T[L - 1] = 0
        /\ z \in Seq(Nat) /\ Len(z) = I[L] + 1 /\ z[I[L]] = 2 /\ z[I[L] + 1] = 2
        /\ \A q \in 1 .. L : /\ I[q] \in Nat /\ I[q] >= 1 /\ I[q + 1] \in Nat
                             /\ T[q] = 0 \/ T[q] = 1
                             /\ T[q] = 1 => z[I[q]] = 2 /\ z[I[q] + 1] = 2 /\ I[q + 1] = I[q] + 2
                             /\ T[q] # 1 => z[I[q]] = 4 /\ I[q + 1] = I[q] + 1
    BY CarriesFacts
  <1>2. \A q, r \in 1 .. L + 1 : q < r => I[q] < I[r]
    BY CarriesFacts
  <1>2a. I[L + 1] = I[L] + 2
    BY CarriesFacts
  <1>3. /\ y \in Seq(Nat) /\ Len(y) = I[L] + 1 /\ Last(WithCrossing(z, j, n)) \in 1 .. 4
        /\ \A i \in 1 .. b - 1 : Keeps(y, z, I, i, 0)
        /\ \A a \in 1 .. L : j + 1 <= I[a] => \A i \in a .. L - 1 : Keeps(y, z, I, i, 1)
        /\ j < I[L] => Short(y, Len(y))
        /\ y[j] = n /\ j <= Len(y)
        /\ j <= I[L] => y[j + 1] = z[j] - n /\ j + 1 <= Len(y)
        /\ \A i \in 1 .. j - 1 : i <= Len(y) /\ y[i] = z[i]
        /\ \A i \in j + 1 .. I[L] : i + 1 <= Len(y) /\ y[i + 1] = z[i]
    BY AddedKeeps
  <1>4. /\ L \in Nat /\ L >= 320 /\ b \in 1 .. L /\ j \in Nat /\ j >= I[b] /\ j < I[b + 1]
        /\ I[b] \in Nat /\ I[b + 1] \in Nat /\ I[L] \in Nat /\ I[b] >= 1
    <2>1. L \in 1 .. L
      BY <1>1
    <2> QED
      BY <1>1, <2>1
  <1>5. /\ T[b] = 0 \/ T[b] = 1
        /\ T[b] = 1 => z[I[b]] = 2 /\ z[I[b] + 1] = 2 /\ I[b + 1] = I[b] + 2
        /\ T[b] # 1 => z[I[b]] = 4 /\ I[b + 1] = I[b] + 1
        /\ n \in 1 .. z[j] - 1
    BY <1>1
  <1> HIDE DEF I, y
  \* Where it falls in its bit.
  <1>6. ASSUME T[b] = 1
        PROVE  z[j] = 2 /\ n = 1 /\ I[b + 1] = I[b] + 2 /\ (j = I[b] \/ j = I[b] + 1)
    <2>1. I[b + 1] = I[b] + 2 /\ z[I[b]] = 2 /\ z[I[b] + 1] = 2
      BY ONLY <1>5, <1>6
    <2>2. j = I[b] \/ j = I[b] + 1
      BY ONLY <1>4, <2>1
    <2>3. z[j] = 2
      BY ONLY <2>1, <2>2
    <2>4. n = 1
      BY ONLY <1>5, <2>3
    <2> QED
      BY ONLY <2>1, <2>2, <2>3, <2>4
  <1>7. ASSUME T[b] # 1
        PROVE  z[j] = 4 /\ n \in 1 .. 3 /\ I[b + 1] = I[b] + 1 /\ j = I[b]
    <2>1. I[b + 1] = I[b] + 1 /\ z[I[b]] = 4
      BY ONLY <1>5, <1>7
    <2>2. j = I[b]
      BY ONLY <1>4, <2>1
    <2>3. z[j] = 4
      BY ONLY <2>1, <2>2
    <2>4. n \in 1 .. 3
      BY ONLY <1>5, <2>3
    <2> QED
      BY ONLY <2>1, <2>2, <2>3, <2>4
  \* In a one: both halves of it are short, and so is what is left.
  <1>8. ASSUME T[b] = 1
        PROVE  Short(y, I[b]) /\ Short(y, I[b] + 1) /\ (b < L => Short(y, I[b] + 2))
    <2>1. z[j] = 2 /\ n = 1 /\ (j = I[b] \/ j = I[b] + 1) /\ z[I[b]] = 2 /\ z[I[b] + 1] = 2
          /\ I[b + 1] = I[b] + 2
      BY ONLY <1>5, <1>6, <1>8
    <2>2. b < L => I[b + 1] < I[L] \/ I[b + 1] = I[L]
      <3>1. b < L => b + 1 \in 1 .. L + 1 /\ L \in 1 .. L + 1 /\ (b + 1 < L \/ b + 1 = L)
        BY ONLY <1>4
      <3> QED
        BY ONLY <1>2, <3>1
    <2>3. I[b] <= I[L]
      <3>1. b \in 1 .. L + 1 /\ L \in 1 .. L + 1 /\ (b < L \/ b = L)
        BY ONLY <1>4
      <3>2. I[b] < I[L] \/ I[b] = I[L]
        BY ONLY <1>2, <3>1
      <3> QED
        BY ONLY <1>4, <3>2
    <2>4. CASE j = I[b]
      <3>1. j <= I[L] /\ j \in Nat
        BY ONLY <1>4, <2>3, <2>4
      <3>2. y[j] = 1 /\ j <= Len(y) /\ y[j + 1] = z[j] - n /\ j + 1 <= Len(y)
        BY ONLY <1>3, <2>1, <3>1
      <3>3. y[j + 1] = 1
        BY ONLY <2>1, <3>2
      <3>4. b < L => j + 1 \in j + 1 .. I[L]
        BY ONLY <1>4, <2>1, <2>2, <2>4
      <3>5. b < L => (j + 1) + 1 <= Len(y) /\ y[(j + 1) + 1] = 2
        BY ONLY <1>3, <2>1, <2>4, <3>4
      <3>6. (j + 1) + 1 = I[b] + 2 /\ j + 1 = I[b] + 1
        BY ONLY <1>4, <2>4
      <3> QED
        BY ONLY <2>4, <3>2, <3>3, <3>5, <3>6 DEF Short
    <2>5. CASE j = I[b] + 1
      <3>1. j - 1 = I[b] /\ I[b] \in 1 .. j - 1 /\ j + 1 = I[b] + 2 /\ (b < L => j <= I[L])
        BY ONLY <1>4, <2>1, <2>2, <2>5
      <3>2. I[b] <= Len(y) /\ y[I[b]] = 2
        BY ONLY <1>3, <2>1, <3>1
      <3>3. y[j] = 1 /\ j <= Len(y)
        BY ONLY <1>3, <2>1
      <3>4. b < L => y[j + 1] = z[j] - n /\ j + 1 <= Len(y)
        BY ONLY <1>3, <3>1
      <3>5. b < L => y[j + 1] = 1
        BY ONLY <2>1, <3>4
      <3> QED
        BY ONLY <2>5, <3>1, <3>2, <3>3, <3>4, <3>5 DEF Short
    <2> QED
      BY ONLY <2>1, <2>4, <2>5
  \* In a zero.
  <1>9. ASSUME T[b] # 1, b < L
        PROVE  /\ n = 1 => Takes(y, I[b], 0, I[b] + 2)
               /\ n = 2 => Takes(y, I[b], 1, I[b] + 2)
               /\ n = 3 => Takes(y, I[b], 0, I[b] + 1) /\ Short(y, I[b] + 1)
    <2>1. z[j] = 4 /\ j = I[b] /\ n \in 1 .. 3
      BY ONLY <1>7, <1>9
    <2>2. j <= I[L]
      <3>1. b \in 1 .. L + 1 /\ L \in 1 .. L + 1 /\ b < L
        BY ONLY <1>4, <1>9
      <3>2. I[b] < I[L]
        BY ONLY <1>2, <3>1
      <3> QED
        BY ONLY <1>4, <2>1, <3>2
    <2>3. y[j] = n /\ j <= Len(y) /\ y[j + 1] = 4 - n /\ j + 1 <= Len(y)
      BY ONLY <1>3, <2>1, <2>2
    <2>4. CASE n = 1
      <3>1. Short(y, j) /\ ~Short(y, j + 1)
        BY ONLY <2>3, <2>4 DEF Short
      <3> QED
        BY ONLY <2>1, <2>3, <2>4, <3>1 DEF Takes
    <2>5. CASE n = 2
      <3>1. Short(y, j) /\ Short(y, j + 1)
        BY ONLY <2>3, <2>5 DEF Short
      <3> QED
        BY ONLY <2>1, <2>3, <2>5, <3>1 DEF Takes
    <2>6. CASE n = 3
      <3>1. ~Short(y, j) /\ Short(y, j + 1)
        BY ONLY <2>3, <2>6 DEF Short
      <3> QED
        BY ONLY <2>1, <2>3, <2>6, <3>1 DEF Takes
    <2> QED
      BY ONLY <2>1, <2>4, <2>5, <2>6
  <1>10. ASSUME b = L
         PROVE  \E W, E : IsReading(y, W, E) /\ Len(W) = L /\ Like(W, T, 0, 0)
    <2>1. T[b] = 1 /\ L \in 0 .. L /\ I[L + 1] = Len(y) + 1
      <3>1. I[L + 1] = Len(y) + 1
        BY ONLY <1>2a, <1>3, <1>4
      <3> QED
        BY ONLY <1>1, <1>4, <1>10, <3>1
    <2>2. I[b + 1] = I[b] + 2 /\ Short(y, I[b]) /\ Short(y, I[b] + 1)
      BY ONLY <1>6, <1>8, <2>1
    <2>3. Takes(y, I[b], T[b], I[b + 1])
      BY ONLY <2>1, <2>2 DEF Takes
    <2>4. \A i \in 1 .. L : Keeps(y, z, I, i, 0) \/ Takes(y, I[i], T[i], I[i + 1])
      <3>1. \A i \in 1 .. L : i \in 1 .. b - 1 \/ i = b
        BY ONLY <1>4, <1>10
      <3> QED
        BY ONLY <1>3, <2>3, <3>1
    <2>5. IsHead(y, z, T, L, L)
      BY ONLY <1>3, <2>1, <2>4 DEF IsHead, I
    <2> QED
      BY <2>5, HeadReads
  <1>11. ASSUME b = L - 1, n = 3
         PROVE  \E W, E : IsReading(y, W, E) /\ Len(W) = L /\ Like(W, T, 0, 0)
    <2>1. T[b] = 0 /\ L \in 0 .. L /\ I[L + 1] = Len(y) + 1 /\ b < L /\ b + 1 = L
      <3>1. I[L + 1] = Len(y) + 1
        BY ONLY <1>2a, <1>3, <1>4
      <3>2. b < L /\ b + 1 = L
        BY ONLY <1>4, <1>11
      <3> QED
        BY ONLY <1>1, <1>4, <1>11, <3>1, <3>2
    <2>2. I[b + 1] = I[b] + 1 /\ Takes(y, I[b], 0, I[b] + 1) /\ Short(y, I[b] + 1) /\ j = I[b]
      BY ONLY <1>7, <1>9, <1>11, <2>1
    <2>3. Takes(y, I[b], T[b], I[b + 1])
      BY ONLY <2>1, <2>2
    <2>4. I[L] = I[b] + 1 /\ j + 1 = I[L] /\ j + 1 \in j + 1 .. I[L]
      BY ONLY <1>4, <2>1, <2>2
    <2>5. Short(y, I[L] + 1)
      <3>1. (j + 1) + 1 <= Len(y) /\ y[(j + 1) + 1] = z[j + 1]
        BY ONLY <1>3, <2>4
      <3>2. z[j + 1] = 2
        BY ONLY <1>1, <2>4
      <3> QED
        BY ONLY <2>4, <3>1, <3>2 DEF Short
    <2>6. Takes(y, I[L], T[L], I[L + 1])
      <3>1. T[L] = 1 /\ I[L + 1] = I[L] + 2
        BY ONLY <1>1, <1>2a
      <3> QED
        BY ONLY <2>2, <2>4, <2>5, <3>1 DEF Takes
    <2>7. \A i \in 1 .. L : Keeps(y, z, I, i, 0) \/ Takes(y, I[i], T[i], I[i + 1])
      <3>1. \A i \in 1 .. L : i \in 1 .. b - 1 \/ i = b \/ i = L
        BY ONLY <1>4, <1>11
      <3> QED
        BY ONLY <1>3, <2>3, <2>6, <3>1
    <2>8. IsHead(y, z, T, L, L)
      BY ONLY <1>3, <2>1, <2>7 DEF IsHead, I
    <2> QED
      BY <2>8, HeadReads
  <1>12. ASSUME b < L, ~(b = L - 1 /\ n = 3)
         PROVE  \E W, E : IsReading(y, W, E) /\ Len(W) = L - 1 /\ Like(W, T, 0, b)
    <2> DEFINE v == IF T[b] = 1 \/ n = 2 THEN 1 ELSE 0
               off == IF T[b] = 1 \/ n = 3 THEN 1 ELSE 0
    <2>1. /\ b + 1 \in 1 .. L + 1 /\ L \in 1 .. L + 1 /\ b + 1 \in 1 .. L
          /\ b - 1 \in Nat /\ (b - 1) + 2 + 0 = b + 1 /\ (b - 1) + 2 + 0 <= L /\ (b - 1) + 1 = b
          /\ b \in 1 .. L + 1
      BY ONLY <1>4, <1>12
    <2>2. j + 1 <= I[b + 1] /\ j < I[L]
      <3>1. b + 1 = L \/ b + 1 < L
        BY ONLY <1>4, <1>12
      <3>2. I[b + 1] = I[L] \/ I[b + 1] < I[L]
        BY ONLY <1>2, <2>1, <3>1
      <3> QED
        BY ONLY <1>4, <3>2
    <2>3. v \in Bit /\ off \in {0, 1}
      BY ONLY DEF Bit
    <2>4. off = 1 => (b - 1) + 2 + 0 < L
      <3>1. b = L - 1 => T[b] = 0
        BY ONLY <1>1
      <3>2. b = L - 1 => off = 0
        BY ONLY <1>12, <3>1
      <3>3. b # L - 1 => b + 1 < L
        BY ONLY <1>4, <1>12
      <3> QED
        BY ONLY <2>1, <3>2, <3>3
    <2>5. Takes(y, I[b], v, I[b + 1] + 1 - off) /\ (off = 1 => Short(y, I[b + 1] + 1 - 1))
      <3>1. CASE T[b] = 1
        <4>1. v = 1 /\ off = 1 /\ I[b + 1] = I[b] + 2
          BY ONLY <1>6, <3>1
        <4>2. Short(y, I[b]) /\ Short(y, I[b] + 1) /\ Short(y, I[b] + 2)
          BY ONLY <1>8, <1>12, <3>1
        <4>3. I[b + 1] + 1 - off = I[b] + 2 /\ I[b + 1] + 1 - 1 = I[b] + 2
          BY ONLY <1>4, <4>1
        <4>4. Takes(y, I[b], 1, I[b] + 2)
          BY ONLY <4>2 DEF Takes
        <4> HIDE DEF v, off
        <4> QED
          BY ONLY <4>1, <4>2, <4>3, <4>4
      <3>2. CASE T[b] # 1
        <4>1. n \in 1 .. 3 /\ I[b + 1] = I[b] + 1
          BY ONLY <1>7, <3>2
        <4>2. /\ n = 1 => Takes(y, I[b], 0, I[b] + 2)
              /\ n = 2 => Takes(y, I[b], 1, I[b] + 2)
              /\ n = 3 => Takes(y, I[b], 0, I[b] + 1) /\ Short(y, I[b] + 1)
          BY ONLY <1>9, <1>12, <3>2
        <4>3. /\ v = IF n = 2 THEN 1 ELSE 0
              /\ off = IF n = 3 THEN 1 ELSE 0
          BY ONLY <3>2
        <4>4. /\ I[b + 1] + 1 - off = IF n = 3 THEN I[b] + 1 ELSE I[b] + 2
              /\ I[b + 1] + 1 - 1 = I[b] + 1
          BY ONLY <1>4, <4>1, <4>3
        <4> HIDE DEF v, off
        <4>5. n = 1 \/ n = 2 \/ n = 3
          BY ONLY <4>1
        <4> QED
          BY ONLY <4>2, <4>3, <4>4, <4>5
      <3> QED
        BY ONLY <3>1, <3>2
    <2> HIDE DEF v, off
    <2>6. /\ \A i \in 1 .. b - 1 : Keeps(y, z, I, i, 0)
          /\ \A i \in (b - 1) + 2 + 0 .. L - 1 : Keeps(y, z, I, i, 1)
          /\ Short(y, Len(y)) /\ y \in Seq(Nat) /\ Len(y) = I[L] + 1
      BY ONLY <1>3, <2>1, <2>2
    <2>7. /\ Takes(y, I[(b - 1) + 1], v, I[(b - 1) + 2 + 0] + 1 - off)
          /\ off = 1 => Short(y, I[(b - 1) + 2 + 0] + 1 - 1)
      BY ONLY <2>1, <2>5
    <2>8. 0 \in Nat /\ 1 \in Int
      OBVIOUS
    <2>9. IsSplice(y, z, T, L, b - 1, 0, v, 1, off)
      BY ONLY <2>1, <2>3, <2>4, <2>6, <2>7, <2>8 DEF IsSplice, I
    <2>10. L - 1 - 0 = L - 1
      BY ONLY <1>4
    <2>11. PICK W, E : /\ IsReading(y, W, E) /\ Len(W) = L - 1 - 0
                       /\ Like(W, T, 0, (b - 1) + 1)
      BY <2>9, SpliceReads
    <2> QED
      BY ONLY <2>1, <2>10, <2>11
  <1> QED
    <2>1. b = L \/ (b = L - 1 /\ n = 3) \/ (b < L /\ ~(b = L - 1 /\ n = 3))
      BY ONLY <1>4
    <2> QED
      BY ONLY <1>3, <1>10, <1>11, <1>12, <2>1 DEF y, I

-----------------------------------------------------------------------------
\* No frame is shorter than 93 intervals.
LEMMA FrameIsLong ==
    ASSUME NEW start \in Starts, NEW k \in 1 .. Frames
    PROVE  /\ SentPlaces(start)[80 * k + 80] >= SentPlaces(start)[80 * k + 1] + 91
           /\ SentPlaces(start)[80 * k + 81] = SentPlaces(start)[80 * k + 80] + 2
           /\ \A i \in {1, 80, 81} : SentPlaces(start)[80 * k + i] \in Nat
  <1> DEFINE T == SentBits(start)
             I == SentPlaces(start)
             z == Signal[start]
             a == 80 * k
  <1>1. IsSent(T) /\ I = Places(T, Length) /\ Timed(z, T, Length, Places(T, Length)) /\ Length \in Nat
    BY SignalFacts
  <1>2. /\ a \in Nat /\ Length = 80 * (Frames + 1) /\ \A i \in 1 .. 80 : a + i \in 1 .. Length
        /\ \A i \in 1 .. 81 : a + i \in 1 .. Length + 1
    BY LengthIsNat
  <1>3. /\ \A q \in 1 .. Length : T[q] = 1 => I[q + 1] = I[q] + 2
        /\ \A q \in 1 .. Length + 1 : I[q] \in Nat
    <2>1. LET J == Places(T, Length)
          IN  /\ \A q \in 1 .. Length : T[q] = 1 => J[q + 1] = J[q] + 2
              /\ \A q \in 1 .. Length + 1 : J[q] \in Nat
      BY ONLY <1>1, TimedFacts
    <2> QED
      BY ONLY <1>1, <2>1
  <1>4. I[a + 67] >= I[a + 1] + 66 /\ I[a + 80] >= I[a + 79] + 1
    <2>1. /\ a + 1 \in 1 .. Length + 1 /\ a + 67 \in a + 1 .. Length + 1 /\ (a + 67) - (a + 1) = 66
          /\ a + 79 \in 1 .. Length + 1 /\ a + 80 \in a + 79 .. Length + 1 /\ (a + 80) - (a + 79) = 1
      BY ONLY <1>2, LengthIsNat
    <2>2. /\ Places(T, Length)[a + 67] >= Places(T, Length)[a + 1] + ((a + 67) - (a + 1))
          /\ Places(T, Length)[a + 80] >= Places(T, Length)[a + 79] + ((a + 80) - (a + 79))
      <3>1. \A q \in 1 .. Length + 1 : \A r \in q .. Length + 1 :
              Places(T, Length)[r] >= Places(T, Length)[q] + (r - q)
        <4> HIDE DEF T
        <4> QED
          BY ONLY <1>1, PlacesAreApart
      <3> HIDE DEF T, a
      <3> QED
        BY ONLY SMT, <2>1, <3>1
    <2> QED
      BY ONLY <1>1, <2>1, <2>2
  <1>5. \A i \in 1 .. 16 : T[a + (64 + i)] = SyncWord[i]
    BY <1>1 DEF IsSent
  <1> HIDE DEF T, I, z
  <1>6. \A i \in 67 .. 78 : I[a + i + 1] = I[a + i] + 2
    <2> SUFFICES ASSUME NEW i \in 67 .. 78 PROVE I[a + i + 1] = I[a + i] + 2
      OBVIOUS
    <2>1. i - 64 \in 3 .. 14 /\ i - 64 \in 1 .. 16 /\ 64 + (i - 64) = i /\ i \in 1 .. 80
      OBVIOUS
    <2>2. T[a + i] = 1
      <3>1. T[a + (64 + (i - 64))] = SyncWord[i - 64]
        BY ONLY <1>5, <2>1
      <3>2. SyncWord[i - 64] = 1
        BY ONLY <2>1, SyncBits
      <3> QED
        BY ONLY <2>1, <3>1, <3>2
    <2>3. a + i \in 1 .. Length
      BY ONLY <1>2, <2>1
    <2> QED
      BY ONLY <1>3, <2>2, <2>3
  <1>7. I[a + 81] = I[a + 80] + 2
    <2>1. 16 \in 1 .. 16 /\ 64 + 16 = 80 /\ 80 \in 1 .. 80
      OBVIOUS
    <2>2. T[a + 80] = 1 /\ a + 80 \in 1 .. Length
      BY ONLY <1>2, <1>5, <2>1, SyncBits
    <2>3. I[a + 80 + 1] = I[a + 80] + 2 /\ a + 80 + 1 = a + 81
      BY ONLY <1>2, <1>3, <2>2
    <2> QED
      BY ONLY <2>3
  <1>8. \A i \in 67 .. 79 : I[a + i] = I[a + 67] + 2 * (i - 67)
    <2> DEFINE S == {m \in 0 .. 12 : I[a + (67 + m)] = I[a + 67] + 2 * m}
    <2>0. \A i \in 1 .. 81 : I[a + i] \in Nat
      BY ONLY <1>2, <1>3
    <2>1. 0 \in S
      <3>1. 67 + 0 = 67 /\ 0 \in 0 .. 12 /\ 67 \in 1 .. 81
        OBVIOUS
      <3>2. I[a + 67] = I[a + 67] + 2 * 0
        BY ONLY <2>0, <3>1
      <3> QED
        BY ONLY <3>1, <3>2
    <2>2. ASSUME NEW m \in 1 .. 12, m - 1 \in S PROVE m \in S
      <3>1. /\ 67 + (m - 1) \in 67 .. 78 /\ a + (67 + (m - 1)) + 1 = a + (67 + m) /\ m \in 0 .. 12
            /\ 67 + m \in 1 .. 81
        BY ONLY <1>2, m \in 1 .. 12
      <3>2. I[a + (67 + m)] = I[a + (67 + (m - 1))] + 2
        BY ONLY <1>6, <3>1
      <3>3. I[a + (67 + (m - 1))] = I[a + 67] + 2 * (m - 1)
        BY <2>2
      <3>4. I[a + 67] \in Nat
        BY ONLY <2>0
      <3>5. I[a + (67 + m)] = I[a + 67] + 2 * m
        BY ONLY <3>1, <3>2, <3>3, <3>4
      <3> QED
        BY ONLY <3>1, <3>5
    <2> HIDE DEF S
    <2>3. 0 .. 12 \subseteq S
      BY ONLY <2>1, <2>2, Counting
    <2>4. \A i \in 67 .. 79 : i - 67 \in 0 .. 12 /\ 67 + (i - 67) = i
      OBVIOUS
    <2> QED
      BY ONLY <2>3, <2>4 DEF S
  <1>9. I[a + 79] = I[a + 67] + 24
    BY ONLY <1>2, <1>3, <1>8
  <1>10. \A i \in {1, 67, 79, 80, 81} : I[a + i] \in Nat
    BY ONLY <1>2, <1>3
  <1>11. I[a + 80] >= I[a + 1] + 91
    BY ONLY <1>4, <1>9, <1>10
  <1> QED
    BY ONLY <1>7, <1>10, <1>11 DEF a, I

-----------------------------------------------------------------------------
(* What the decoder has of a recording.                                    *)

\* The bits but for the bit b, from the place c on; what follows the last
\* crossing is a zero.
AlignedTo(X, T, c, b, N) ==
    /\ X \in Seq(Bit) /\ N \in Nat \ {0} /\ Len(X) = N /\ X[N] = 0
    /\ \A i \in 1 .. N - 1 : i # b => X[i] = T[i + c]

\* The bit b is a zero and those after it come one earlier.
SlippedAt(X, T, b, N) ==
    /\ X \in Seq(Bit) /\ N \in Nat \ {0} /\ Len(X) = N /\ X[N] = 0
    /\ \A i \in 1 .. b - 1 : X[i] = T[i]
    /\ X[b] = 0
    /\ \A i \in b + 1 .. N - 1 : X[i] = T[i + 1]

HeardAligned(X, T, hurt) ==
    \E c, b, N \in Nat :
      /\ AlignedTo(X, T, c, b, N)
      /\ \/ c = 0 /\ b = 0 /\ N = Length /\ hurt = {}
         \/ c = 0 /\ b = 0 /\ N \in 80 * Frames .. Length /\ hurt = {Frames}
         \/ c = 0 /\ b = 0 /\ N = Length + 1 /\ \E h \in 1 .. Frames : hurt = {h}
         \/ c \in 81 .. 160 /\ b = 0 /\ N = Length - c /\ hurt = {1}
         \/ c = 0 /\ b \in 81 .. Length /\ N = Length /\ hurt = {FrameOf(b)}

HeardSlipped(X, T, hurt) ==
    \E b \in 81 .. Length - 2 :
      SlippedAt(X, T, b, Length - 1) /\ hurt = {FrameOf(b), FrameOf(b + 1)}

\* A recording with the bits that are read of it.
LEMMA ClosedBits ==
    ASSUME ReadingInv, done, recording.rest \in 1 .. 4,
           NEW W, NEW E, IsReading(recording.intervals, W, E)
    PROVE  /\ Closed \in Seq(Bit) /\ Len(Closed) = Len(W) + 1 /\ Closed[Len(W) + 1] = 0
           /\ \A i \in 1 .. Len(W) : Closed[i] = W[i]
           /\ Len(W) \in Nat
  <1>1. bits \in Seq(Bit) /\ Len(bits) = Len(W) /\ \A i \in 1 .. Len(W) : bits[i] = W[i]
    BY AllIsRead
  <1>2. (recording.rest + 3) \div 4 = 1
    <2> DEFINE r == recording.rest
    <2>1. r \in 1 .. 4
      OBVIOUS
    <2> HIDE DEF r
    <2>2. (r + 3) \div 4 = 1
      BY ONLY <2>1
    <2> QED
      BY <2>2 DEF r
  <1>3. Zeros(1) \in Seq(Bit) /\ Len(Zeros(1)) = 1 /\ Zeros(1)[1] = 0
    <2>1. 1 \in Nat /\ 1 \in 1 .. 1
      OBVIOUS
    <2> QED
      BY <2>1, ZeroBits
  <1>4. Closed = bits \o Zeros(1)
    BY <1>2 DEF Closed
  <1>5. /\ Closed \in Seq(Bit) /\ Len(Closed) = Len(bits) + Len(Zeros(1))
        /\ \A i \in 1 .. Len(bits) : Closed[i] = bits[i]
        /\ \A i \in 1 .. Len(Zeros(1)) : Closed[Len(bits) + i] = Zeros(1)[i]
    BY ONLY <1>1, <1>3, <1>4, JoinIndex
  <1>6. Len(W) \in Nat /\ 1 \in 1 .. 1
    BY ONLY <1>1
  <1> QED
    BY ONLY <1>1, <1>3, <1>5, <1>6

\* The signal sent is that of the bits sent.
SentCarries(start) == Carries(Signal[start], SentBits(start), Length)

\* The encoder sends the bits of the recording.
LEMMA SignalCarries ==
    ASSUME NEW start \in Starts
    PROVE  SentCarries(start)
  <1>1. LET T == SentBits(start)
        IN  /\ T \in [1 .. Length -> Bit] /\ Timed(Signal[start], T, Length, Places(T, Length))
            /\ T[Length] = 1 /\ T[Length - 1] = 0 /\ Length \in Nat /\ Length >= 320
    BY SignalFacts
  <1> QED
    BY <1>1 DEF SentCarries, Carries

\* From the bits that are read to what the decoder has.
LEMMA ClosedIsAligned ==
    ASSUME ReadingInv, done, recording.rest \in 1 .. 4, NEW T, NEW c \in Nat, NEW b \in Nat,
           NEW W, NEW E, IsReading(recording.intervals, W, E), Like(W, T, c, b)
    PROVE  AlignedTo(Closed, T, c, b, Len(W) + 1)
  <1>1. /\ Closed \in Seq(Bit) /\ Len(Closed) = Len(W) + 1 /\ Closed[Len(W) + 1] = 0
        /\ \A i \in 1 .. Len(W) : Closed[i] = W[i]
        /\ Len(W) \in Nat
    BY ClosedBits
  <1>2. Len(W) + 1 \in Nat \ {0} /\ (Len(W) + 1) - 1 = Len(W)
    BY ONLY <1>1
  <1>3. \A i \in 1 .. (Len(W) + 1) - 1 : i # b => Closed[i] = T[i + c]
    BY <1>1, <1>2 DEF Like
  <1> HIDE DEF Closed
  <1> QED
    BY ONLY <1>1, <1>2, <1>3 DEF AlignedTo

\* What is read with a bit too few, closed at the end, is a slipped recording.
LEMMA ClosedIsSlipped ==
    ASSUME ReadingInv, done, recording.rest \in 1 .. 4, NEW T, NEW b \in Nat \ {0},
           NEW W, NEW E, IsReading(recording.intervals, W, E), Slip(W, T, b), b <= Len(W)
    PROVE  SlippedAt(Closed, T, b, Len(W) + 1)
  <1>1. /\ Closed \in Seq(Bit) /\ Len(Closed) = Len(W) + 1 /\ Closed[Len(W) + 1] = 0
        /\ \A i \in 1 .. Len(W) : Closed[i] = W[i]
        /\ Len(W) \in Nat
    BY ClosedBits
  <1>2. Len(W) + 1 \in Nat \ {0} /\ (Len(W) + 1) - 1 = Len(W)
    BY ONLY <1>1
  <1>3. \A i \in 1 .. b - 1 : Closed[i] = T[i]
    <2>1. \A i \in 1 .. b - 1 : i \in 1 .. Len(W)
      BY <1>1
    <2> QED
      BY <1>1, <2>1 DEF Slip
  <1>4. Closed[b] = 0
    <2>1. b \in 1 .. Len(W)
      BY <1>1
    <2> QED
      BY <1>1, <2>1 DEF Slip
  <1>5. \A i \in b + 1 .. (Len(W) + 1) - 1 : Closed[i] = T[i + 1]
    <2>1. \A i \in b + 1 .. Len(W) : i \in 1 .. Len(W)
      BY <1>1
    <2> QED
      BY <1>1, <1>2, <2>1 DEF Slip
  <1> QED
    BY ONLY <1>1, <1>2, <1>3, <1>4, <1>5 DEF SlippedAt

\* The bit an interval lies in.
LEMMA BitOfPlace ==
    ASSUME NEW start \in Starts, NEW lo \in 1 .. Length, NEW j \in Nat,
           j >= SentPlaces(start)[lo], j < SentPlaces(start)[Length + 1]
    PROVE  \E q \in lo .. Length : j >= SentPlaces(start)[q] /\ j < SentPlaces(start)[q + 1]
  <1> DEFINE I == SentPlaces(start)
             S == {q \in Nat : q \in lo .. Length /\ j < I[q + 1]}
  <1>1. Length \in Nat /\ Length \in S
    BY LengthIsNat
  <1>2. PICK q \in S : \A m \in S : q <= m
    <2> HIDE DEF S
    <2>1. S # {} /\ S \subseteq Nat
      BY <1>1 DEF S
    <2> QED
      BY ONLY <2>1, LeastNumber
  <1>2a. \A i \in lo .. Length + 1 : I[i] \in Nat
    <2>1. I = Places(SentBits(start), Length)
      BY DEF SentPlaces
    <2>2. /\ Places(SentBits(start), Length) \in [1 .. Length + 1 -> Nat]
      BY LengthIsNat, PlacesGrow
    <2> QED
      BY <1>1, <2>1, <2>2
  <1> HIDE DEF I
  <1>3. CASE q = lo
    BY <1>2, <1>3 DEF I
  <1>4. CASE q # lo
    <2>1. q - 1 \in lo .. Length /\ (q - 1) + 1 = q /\ ~(q <= q - 1) /\ q - 1 \in Nat /\ q \in lo .. Length + 1
      BY <1>1, <1>2, <1>4
    <2>2. ~(j < I[q])
      BY <1>2, <2>1
    <2> QED
      BY <1>2, <1>2a, <2>1, <2>2 DEF I
  <1> QED
    BY <1>3, <1>4

-----------------------------------------------------------------------------

\* What the decoder has of the recording in hand.
IsHeard ==
    /\ recording.start \in Starts
    /\ \/ HeardAligned(Closed, SentBits(recording.start), recording.hurt)
       \/ HeardSlipped(Closed, SentBits(recording.start), recording.hurt) /\ recording.kind = "lost"

\* A whole recording is heard as it was sent.
LEMMA WholeIsHeard ==
    ASSUME ReadingInv, done, NEW start \in Starts, recording \in Whole(start)
    PROVE  IsHeard
  <1> DEFINE T == SentBits(start)
             z == Signal[start]
             L == Length
  <1>1. recording = [start |-> start, kind |-> "whole", hurt |-> {}, intervals |-> Front(z), rest |-> Last(z)]
    BY DEF Whole, Recorded
  <1>2. recording.start = start /\ recording.hurt = {} /\ recording.intervals = Front(z) /\ recording.rest = Last(z)
    BY ONLY <1>1
  <1>3. Carries(z, T, L)
    BY SignalCarries DEF SentCarries
  <1> HIDE DEF T, z, L
  <1>4. PICK W, E : IsReading(Front(z), W, E) /\ Len(W) = L - 1 /\ Like(W, T, 0, 0)
    BY ONLY <1>3, WholeIsRead
  <1>5. Last(z) \in 1 .. 4
    BY ONLY <1>3, WholeIsRead
  <1>6. AlignedTo(Closed, T, 0, 0, Len(W) + 1)
    <2>1. recording.rest \in 1 .. 4 /\ IsReading(recording.intervals, W, E) /\ 0 \in Nat
      BY ONLY <1>2, <1>4, <1>5
    <2> QED
      BY <1>4, <2>1, ClosedIsAligned
  <1>7. Len(W) + 1 = L /\ L \in Nat /\ 0 \in Nat
    BY <1>4, LengthIsNat DEF L
  <1>8. HeardAligned(Closed, T, {})
    BY ONLY <1>6, <1>7 DEF HeardAligned, L
  <1> QED
    BY ONLY <1>2, <1>8, start \in Starts DEF IsHeard, T

\* A recording that ends early is heard as the bits it has; its last frame is the
\* one that is hurt.
LEMMA EarlyIsHeard ==
    ASSUME ReadingInv, done, NEW start \in Starts, NEW n \in 1 .. Ends,
           recording = Recorded(start, "early", SubSeq(Signal[start], 1, Len(Signal[start]) - n), {Frames})
    PROVE  IsHeard
  <1> DEFINE T == SentBits(start)
             z == Signal[start]
             L == Length
             I == SentPlaces(start)
             w == SubSeq(z, 1, Len(z) - n)
             p == I[L] + 1 - n
  <1>1. recording = [start |-> start, kind |-> "early", hurt |-> {Frames}, intervals |-> Front(w), rest |-> Last(w)]
    BY DEF Recorded
  <1>2. /\ recording.start = start /\ recording.hurt = {Frames}
        /\ recording.intervals = Front(w) /\ recording.rest = Last(w)
    <2> HIDE DEF w
    <2> QED
      BY ONLY <1>1
  <1>3. Carries(z, T, L) /\ I = Places(T, L)
    BY SignalCarries DEF SentCarries, SentPlaces
  <1>4. n \in Nat \ {0} /\ n <= 93 /\ n >= 1
    BY FramesAssumption
  <1>5. L = 80 * (Frames + 1) /\ L \in Nat /\ Frames \in Nat /\ Frames >= 3 /\ L = 80 * Frames + 80
    BY LengthIsNat
  <1>6. /\ I[L] \in Nat /\ I[L + 1] = I[L] + 2
        /\ I[80 * Frames + 1] \in Nat /\ I[L] >= I[80 * Frames + 1] + 91
    <2>1. Frames \in 1 .. Frames
      BY ONLY <1>5
    <2>2. /\ I[80 * Frames + 80] >= I[80 * Frames + 1] + 91
          /\ \A i \in {1, 80, 81} : I[80 * Frames + i] \in Nat
      <3> HIDE DEF T, z, L
      <3> QED
        BY ONLY <2>1, start \in Starts, FrameIsLong
    <2>3. I[L + 1] = I[L] + 2
      BY SignalFacts
    <2> HIDE DEF I
    <2> QED
      BY ONLY <1>5, <2>2, <2>3
  <1> HIDE DEF L, T, I, z
  <1>7. p \in Nat /\ p + 1 >= I[80 * Frames + 1] /\ p < I[L + 1] /\ p >= I[80 * Frames]
        /\ 80 * Frames \in 1 .. L
    <2>1. 80 * Frames \in 1 .. L + 1 /\ 80 * Frames + 1 \in 1 .. L + 1 /\ 80 * Frames < 80 * Frames + 1
          /\ 80 * Frames \in 1 .. L
      BY ONLY <1>5
    <2>2. I[80 * Frames] < I[80 * Frames + 1] /\ I[80 * Frames] \in Nat
      <3>1. LET J == Places(T, L)
            IN  \A q, r \in 1 .. L + 1 : q < r => J[q] < J[r]
        BY ONLY <1>3, CarriesFacts
      <3>2. \A q \in 1 .. L : Places(T, L)[q] \in Nat
        BY ONLY <1>3, CarriesFacts
      <3> QED
        BY ONLY <1>3, <2>1, <3>1, <3>2
    <2> QED
      BY ONLY <1>4, <1>6, <2>1, <2>2
  <1> HIDE DEF p
  <1>8. PICK q \in 80 * Frames .. L : p >= I[q] /\ p < I[q + 1]
    <2>1. 80 * Frames \in 1 .. Length
      BY ONLY <1>7 DEF L
    <2> QED
      BY <1>7, <2>1, BitOfPlace DEF I, L
  <1>9. q \in 1 .. L /\ p = Places(T, L)[L] + 1 - n /\ p >= Places(T, L)[q] /\ p < Places(T, L)[q + 1]
        /\ q \in Nat
    <2>1. q \in 1 .. L /\ q \in Nat
      BY ONLY <1>5, <1>8, q \in 80 * Frames .. L
    <2> QED
      BY ONLY <1>3, <1>8, <2>1 DEF p
  <1>10. PICK W, E : IsReading(Front(w), W, E) /\ Len(W) = q - 1 /\ Like(W, T, 0, 0)
    BY ONLY <1>3, <1>4, <1>9, EarlyIsRead
  <1>11. Last(w) \in 1 .. 4
    BY ONLY <1>3, <1>4, <1>9, EarlyIsRead
  <1> HIDE DEF w
  <1>12. AlignedTo(Closed, T, 0, 0, Len(W) + 1)
    <2>1. recording.rest \in 1 .. 4 /\ IsReading(recording.intervals, W, E) /\ 0 \in Nat
      BY ONLY <1>2, <1>10, <1>11
    <2> QED
      BY <1>10, <2>1, ClosedIsAligned
  <1>13. Len(W) + 1 = q /\ q \in Nat /\ 0 \in Nat /\ q \in 80 * Frames .. L
    BY ONLY <1>9, <1>10, q \in 80 * Frames .. L
  <1>14. HeardAligned(Closed, T, {Frames})
    BY ONLY <1>12, <1>13 DEF HeardAligned, L
  <1> QED
    BY ONLY <1>2, <1>14, start \in Starts DEF IsHeard, T

\* The lead-in in intervals.
LEMMA LeadInIntervals ==
    ASSUME NEW start \in Starts
    PROVE  Len(Marks(LeadIn)) + 1 = SentPlaces(start)[81] /\ SentPlaces(start)[81] \in Nat
  <1> DEFINE T == SentBits(start)
             lead == LeadIn
             J == Places(lead, 80)
             I == SentPlaces(start)
  <1>1. 80 \in Nat \ {0} /\ 80 \in Nat /\ 0 \in Nat /\ Length \in Nat /\ 0 + 80 <= Length
    BY LengthIsNat
  <1>2. lead \in Seq(Bit) /\ Len(lead) = 80
    BY LeadInBits
  <1>3. IsPart(lead, T, 0, 80)
    <2>1. \A i \in 1 .. 80 : T[80 * 0 + i] = Words[start][0 + 1][i]
      <3>1. 0 \in 0 .. Frames
        BY LengthIsNat
      <3> QED
        BY ONLY <3>1, start \in Starts, BitOfWord
    <2>2. Words[start][1] = lead
      BY WordsAreFrames
    <2>3. 80 * 0 = 0 /\ 0 + 1 = 1
      OBVIOUS
    <2> HIDE DEF T, lead
    <2> QED
      BY ONLY <2>1, <2>2, <2>3 DEF IsPart
  <1>4. I = Places(T, Length)
    BY DEF SentPlaces
  <1> HIDE DEF lead, T, I
  <1>5. Timed(Marks(lead), lead, 80, J)
    BY <1>1, <1>2, MarksAreTimed
  <1>6. \A i \in 1 .. 80 + 1 : Places(T, Length)[0 + i] = Places(T, Length)[0 + 1] - 1 + J[i]
    BY ONLY <1>1, <1>3, PlacesOfPart
  <1>7. Places(T, Length) \in [1 .. Length + 1 -> Nat] /\ Places(T, Length)[1] = 1
    BY ONLY <1>1, PlacesGrow
  <1>8. J \in [1 .. 80 + 1 -> Nat]
    BY ONLY <1>1, PlacesGrow
  <1> HIDE DEF J
  <1>9. I[81] = J[81] /\ J[81] \in Nat
    <2>1. 80 + 1 = 81 /\ 81 \in 1 .. 81 /\ 0 + 81 = 81 /\ 0 + 1 = 1
      OBVIOUS
    <2>2. J[81] \in Nat
      BY ONLY <1>8, <2>1
    <2>3. Places(T, Length)[0 + 81] = Places(T, Length)[0 + 1] - 1 + J[81]
      BY ONLY <1>6, <2>1
    <2> QED
      BY ONLY <1>4, <1>7, <2>1, <2>2, <2>3
  <1>10. Len(Marks(lead)) = J[81] - 1
    BY <1>5 DEF Timed
  <1> QED
    BY <1>9, <1>10 DEF lead, I

\* A recording that starts late is heard from the next bit on; its first frame is
\* the one that is hurt.
LEMMA LateIsHeard ==
    ASSUME ReadingInv, done, NEW start \in Starts, NEW n \in 2 .. Ends,
           recording = Recorded(start, "late",
                         SubSeq(Signal[start], Len(Marks(LeadIn)) + n, Len(Signal[start])), {1})
    PROVE  IsHeard
  <1> DEFINE T == SentBits(start)
             z == Signal[start]
             L == Length
             I == SentPlaces(start)
             p == Len(Marks(LeadIn)) + n
             w == SubSeq(z, p, Len(z))
  <1>1. recording = [start |-> start, kind |-> "late", hurt |-> {1}, intervals |-> Front(w), rest |-> Last(w)]
    BY DEF Recorded
  <1>2. /\ recording.start = start /\ recording.hurt = {1}
        /\ recording.intervals = Front(w) /\ recording.rest = Last(w)
    <2> HIDE DEF w
    <2> QED
      BY ONLY <1>1
  <1>3. Carries(z, T, L) /\ I = Places(T, L)
    BY SignalCarries DEF SentCarries, SentPlaces
  <1>4. n \in Nat /\ n <= 93 /\ n >= 2
    BY FramesAssumption
  <1>5. L = 80 * (Frames + 1) /\ L \in Nat /\ Frames \in Nat /\ Frames >= 3 /\ L >= 320
    BY LengthIsNat
  <1>6. p + 1 = I[81] + n /\ I[81] \in Nat
    <2> DEFINE m == Len(Marks(LeadIn))
    <2>1. m + 1 = I[81] /\ I[81] \in Nat
      BY LeadInIntervals
    <2>2. m \in Nat \/ m \in Int
      <3>1. Marks(LeadIn) \in Seq(Mark)
        BY LeadInIsTimed
      <3> QED
        BY <3>1
    <2> HIDE DEF m, I
    <2>3. m + n + 1 = I[81] + n
      BY ONLY <1>4, <2>1, <2>2
    <2> QED
      BY <2>1, <2>3 DEF m
  <1>7. /\ I[L] \in Nat /\ I[L + 1] = I[L] + 2 /\ I[161] \in Nat /\ I[161] >= I[81] + 93
    <2>1. 1 \in 1 .. Frames
      BY ONLY <1>5
    <2>2. /\ I[80 * 1 + 80] >= I[80 * 1 + 1] + 91 /\ I[80 * 1 + 81] = I[80 * 1 + 80] + 2
          /\ \A i \in {1, 80, 81} : I[80 * 1 + i] \in Nat
      BY <2>1, FrameIsLong
    <2>3. I[L + 1] = I[L] + 2 /\ I[L] \in Nat
      BY SignalFacts
    <2> HIDE DEF I
    <2>4. 80 * 1 + 80 = 160 /\ 80 * 1 + 1 = 81 /\ 80 * 1 + 81 = 161
      OBVIOUS
    <2>5. I[160] \in Nat /\ I[161] \in Nat /\ I[81] \in Nat
      BY ONLY <2>2, <2>4
    <2> QED
      BY ONLY <2>2, <2>3, <2>4, <2>5
  <1>8. p \in Nat
    <2>1. Len(Marks(LeadIn)) = I[81] - 1 /\ I[81] \in Nat /\ I[81] >= 1
      <3>1. Len(Marks(LeadIn)) \in Nat
        <4>1. Marks(LeadIn) \in Seq(Mark)
          BY LeadInIsTimed
        <4> QED
          BY <4>1
      <3>2. Len(Marks(LeadIn)) + 1 = I[81] /\ I[81] \in Nat
        BY LeadInIntervals
      <3> HIDE DEF I
      <3> QED
        BY ONLY <3>1, <3>2
    <2> HIDE DEF I
    <2> QED
      BY <1>4, <2>1
  <1> HIDE DEF L, T, I, z, p
  <1>9. p >= I[81] + 1 /\ p < I[161]
    BY ONLY <1>4, <1>6, <1>7, <1>8
  <1>10. PICK q \in 81 .. 160 : p >= I[q] /\ p < I[q + 1]
    <2>1. \A i, r \in 1 .. L + 1 : i < r => I[i] < I[r]
      <3>1. LET J == Places(T, L)
            IN  \A i, r \in 1 .. L + 1 : i < r => J[i] < J[r]
        BY ONLY <1>3, CarriesFacts
      <3> QED
        BY ONLY <1>3, <3>1
    <2>2. \A i \in 1 .. L : I[i] \in Nat
      <3>1. LET J == Places(T, L)
            IN  \A i \in 1 .. L : J[i] \in Nat
        BY ONLY <1>3, CarriesFacts
      <3> QED
        BY ONLY <1>3, <3>1
    <2>3. 81 \in 1 .. L /\ 161 \in 1 .. L + 1 /\ L + 1 \in 1 .. L + 1 /\ 161 < L + 1 /\ 81 \in Nat
      BY ONLY <1>5
    <2>4. I[161] < I[L + 1]
      BY ONLY <2>1, <2>3
    <2>5. p >= I[81] /\ p < I[L + 1]
      BY ONLY <1>6, <1>7, <1>8, <1>9, <2>4
    <2>6. PICK q \in 81 .. L : p >= I[q] /\ p < I[q + 1]
      <3>1. 81 \in 1 .. Length
        BY ONLY <2>3 DEF L
      <3> QED
        BY <1>8, <2>5, <3>1, BitOfPlace DEF I, L
    <2>7. q \in 81 .. 160
      <3>0. q \in Int /\ q >= 81
        BY ONLY <1>5, q \in 81 .. L
      <3> SUFFICES ASSUME q > 160 PROVE FALSE
        BY <3>0
      <3>1. q \in 1 .. L /\ q \in 1 .. L + 1 /\ (q = 161 \/ 161 < q)
        BY ONLY <1>5, q \in 81 .. L, q > 160
      <3>2. I[q] = I[161] \/ I[161] < I[q]
        BY ONLY <2>1, <2>3, <3>1
      <3>3. I[q] \in Nat
        BY ONLY <2>2, <3>1
      <3> QED
        BY ONLY <1>7, <1>8, <1>9, <2>6, <3>2, <3>3
    <2> QED
      BY <2>6, <2>7
  <1>11. /\ q \in 1 .. L - 3 /\ p >= Places(T, L)[q] /\ p < Places(T, L)[q + 1] /\ p \in Nat
         /\ p = Places(T, L)[q] => q >= 82
    <2>1. q \in 1 .. L - 3 /\ (q = 81 \/ q >= 82)
      BY ONLY <1>5, q \in 81 .. 160
    <2>2. q = 81 => p # I[q]
      BY ONLY <1>6, <1>8, <1>9
    <2> QED
      BY ONLY <1>3, <1>8, <1>10, <2>1, <2>2
  <1>12. /\ \E c \in q - 1 .. q : \E W, E :
              /\ c = q - 1 => p = Places(T, L)[q]
              /\ IsReading(Front(w), W, E) /\ Len(W) = L - 1 - c /\ Like(W, T, c, 0)
         /\ Last(w) \in 1 .. 4
    BY ONLY <1>3, <1>11, LateIsRead
  <1> HIDE DEF w
  <1>12a. PICK c \in q - 1 .. q : \E W, E :
              /\ c = q - 1 => p = Places(T, L)[q]
              /\ IsReading(Front(w), W, E) /\ Len(W) = L - 1 - c /\ Like(W, T, c, 0)
    BY ONLY <1>12
  <1>13. PICK W, E :
              /\ c = q - 1 => p = Places(T, L)[q]
              /\ IsReading(Front(w), W, E) /\ Len(W) = L - 1 - c /\ Like(W, T, c, 0)
    BY ONLY <1>12a
  <1>14. c \in 81 .. 160 /\ c \in Nat
    <2>1. c = q - 1 => q >= 82
      BY ONLY <1>11, <1>13
    <2> QED
      BY ONLY <2>1, c \in q - 1 .. q, q \in 81 .. 160
  <1>15. AlignedTo(Closed, T, c, 0, Len(W) + 1)
    <2>1. recording.rest \in 1 .. 4 /\ IsReading(recording.intervals, W, E) /\ 0 \in Nat
      BY ONLY <1>2, <1>12, <1>13
    <2> QED
      BY <1>13, <1>14, <2>1, ClosedIsAligned
  <1>16. Len(W) + 1 = L - c /\ L - c \in Nat /\ 0 \in Nat
    BY ONLY <1>5, <1>13, <1>14
  <1>17. HeardAligned(Closed, T, {1})
    BY ONLY <1>14, <1>15, <1>16 DEF HeardAligned, L
  <1> QED
    BY ONLY <1>2, <1>17, start \in Starts DEF IsHeard, T

\* The bit an interval of a frame lies in.
LEMMA DamageIsInBit ==
    ASSUME NEW start \in Starts, NEW k \in Hurt, NEW j \in Begins[start][k] .. Begins[start][k + 1] - 1
    PROVE  /\ j \in Nat
           /\ \E b \in 81 .. Length : j >= SentPlaces(start)[b] /\ j < SentPlaces(start)[b + 1]
  <1> DEFINE I == SentPlaces(start)
             L == Length
  <1>1. k \in 1 .. Frames /\ k \in 1 .. Frames + 1 /\ k + 1 \in 1 .. Frames + 1
    BY FramesAssumption
  <1>2. L = 80 * (Frames + 1) /\ L \in Nat /\ Frames \in Nat /\ Frames >= 3
    BY LengthIsNat
  <1>3. \A i \in 1 .. Frames + 1 : Begins[start][i] = I[80 * i + 1]
    BY SignalFacts
  <1>4. /\ I \in [1 .. L + 1 -> Nat]
        /\ \A i, r \in 1 .. L + 1 : i < r => I[i] < I[r]
    BY SentPlacesGrow, Zenon
  <1> HIDE DEF I, L
  <1>5. /\ 80 * k + 1 \in 81 .. L + 1 /\ 80 * k + 1 \in 1 .. L + 1 /\ 80 * (k + 1) + 1 \in 1 .. L + 1
        /\ 81 \in 1 .. L + 1 /\ L + 1 \in 1 .. L + 1
        /\ (81 = 80 * k + 1 \/ 81 < 80 * k + 1)
        /\ (80 * (k + 1) + 1 = L + 1 \/ 80 * (k + 1) + 1 < L + 1)
    BY ONLY <1>1, <1>2
  <1>6. I[81] = I[80 * k + 1] \/ I[81] < I[80 * k + 1]
    BY ONLY <1>4, <1>5
  <1>7. I[80 * (k + 1) + 1] = I[L + 1] \/ I[80 * (k + 1) + 1] < I[L + 1]
    BY ONLY <1>4, <1>5
  <1>8. I[81] \in Nat /\ I[80 * k + 1] \in Nat /\ I[80 * (k + 1) + 1] \in Nat /\ I[L + 1] \in Nat
    BY ONLY <1>4, <1>5
  <1>9. j \in I[80 * k + 1] .. I[80 * (k + 1) + 1] - 1
    BY <1>1, <1>3
  <1>10. j \in Nat /\ j >= I[81] /\ j < I[L + 1]
    BY ONLY <1>6, <1>7, <1>8, <1>9
  <1>11. 81 \in 1 .. Length
    BY ONLY <1>2 DEF L
  <1> QED
    BY <1>10, <1>11, BitOfPlace DEF I, L

\* A recording with a lost crossing is heard aligned, with one bit wrong, or
\* slipped, with one bit missing.
LEMMA LostIsHeard ==
    ASSUME ReadingInv, done, NEW start \in Starts, NEW k \in Hurt,
           NEW j \in Begins[start][k] .. Begins[start][k + 1] - 1, j # Len(Signal[start]),
           recording = Recorded(start, "lost", WithoutCrossing(Signal[start], j), FramesOf(start, {j, j + 1}))
    PROVE  IsHeard
  <1> DEFINE T == SentBits(start)
             z == Signal[start]
             L == Length
             I == SentPlaces(start)
             w == WithoutCrossing(z, j)
             hurt == FramesOf(start, {j, j + 1})
  <1>1. recording = [start |-> start, kind |-> "lost", hurt |-> hurt, intervals |-> Front(w), rest |-> Last(w)]
    BY DEF Recorded
  <1>2. /\ recording.start = start /\ recording.hurt = hurt /\ recording.kind = "lost"
        /\ recording.intervals = Front(w) /\ recording.rest = Last(w)
    <2> HIDE DEF w, hurt
    <2> QED
      BY ONLY <1>1
  <1>3. Carries(z, T, L) /\ I = Places(T, L)
    BY SignalCarries DEF SentCarries, SentPlaces
  <1>4. j \in Nat
    BY DamageIsInBit
  <1>5. PICK b \in 81 .. L : j >= I[b] /\ j < I[b + 1]
    BY DamageIsInBit
  <1>6. L = 80 * (Frames + 1) /\ L \in Nat /\ Frames \in Nat /\ Frames >= 3 /\ L >= 320
    BY LengthIsNat
  <1>7. /\ Len(z) = I[L] + 1 /\ I[L + 1] = I[L] + 2 /\ I[L] \in Nat
        /\ I \in [1 .. L + 1 -> Nat]
        /\ \A i, r \in 1 .. L + 1 : i < r => I[i] < I[r]
    <2>1. Len(z) = I[L] + 1 /\ I[L + 1] = I[L] + 2 /\ I[L] \in Nat
      BY SignalFacts
    <2>2. /\ I \in [1 .. L + 1 -> Nat]
          /\ \A i, r \in 1 .. L + 1 : i < r => I[i] < I[r]
      BY SentPlacesGrow, Zenon
    <2> QED
      BY ONLY <2>1, <2>2
  <1>7a. j # Len(z)
    OBVIOUS
  <1> HIDE DEF L, T, I, z
  <1>8. /\ b \in 1 .. L /\ b \in 1 .. L + 1 /\ b + 1 \in 1 .. L + 1 /\ L + 1 \in 1 .. L + 1
        /\ (b + 1 = L + 1 \/ b + 1 < L + 1) /\ b \in Nat /\ b >= 81 /\ b <= L
    BY ONLY <1>6, b \in 81 .. L
  <1>9. I[b + 1] \in Nat /\ I[b] \in Nat /\ (I[b + 1] = I[L + 1] \/ I[b + 1] < I[L + 1])
    BY ONLY <1>7, <1>8
  <1>10. j <= I[L]
    BY ONLY SMT, <1>4, <1>5, <1>7, <1>7a, <1>9
  <1>11. b \in 1 .. L /\ j \in Nat /\ j >= Places(T, L)[b] /\ j < Places(T, L)[b + 1] /\ j <= Places(T, L)[L]
    BY ONLY <1>3, <1>4, <1>5, <1>8, <1>10
  <1>12. /\ Last(w) \in 1 .. 4
         /\ \E W, E :
              /\ IsReading(Front(w), W, E)
              /\ \/ Len(W) = L - 1 /\ Like(W, T, 0, b) /\ (b < L - 1 => j + 1 < Places(T, L)[b + 1])
                 \/ b <= L - 2 /\ Len(W) = L - 2 /\ Slip(W, T, b) /\ j + 1 = Places(T, L)[b + 1]
    BY ONLY <1>3, <1>11, LostIsRead
  <1> HIDE DEF w
  <1>13. PICK W, E :
              /\ IsReading(Front(w), W, E)
              /\ \/ Len(W) = L - 1 /\ Like(W, T, 0, b) /\ (b < L - 1 => j + 1 < Places(T, L)[b + 1])
                 \/ b <= L - 2 /\ Len(W) = L - 2 /\ Slip(W, T, b) /\ j + 1 = Places(T, L)[b + 1]
    BY ONLY <1>12
  <1>14. recording.rest \in 1 .. 4 /\ IsReading(recording.intervals, W, E)
    BY ONLY <1>2, <1>12, <1>13
  \* The frames of the two intervals.
  <1>15. \A q \in 1 .. Frames : j \in Begins[start][q] .. Begins[start][q + 1] - 1 <=> q = FrameOf(b)
    <2>1. b \in 81 .. Length /\ j \in SentPlaces(start)[b] .. SentPlaces(start)[b + 1] - 1
      BY ONLY <1>4, <1>5, <1>9, b \in 81 .. L DEF L, I
    <2> QED
      BY <2>1, FrameOfPlace
  <1>16. FrameOf(b) \in 1 .. Frames
    <2>1. b \in 81 .. Length /\ j \in SentPlaces(start)[b] .. SentPlaces(start)[b + 1] - 1
      BY ONLY <1>4, <1>5, <1>9, b \in 81 .. L DEF L, I
    <2> QED
      BY <2>1, FrameOfPlace
  <1>17. ASSUME j + 1 < I[b + 1]
         PROVE  hurt = {FrameOf(b)}
    <2>1. b \in 81 .. Length /\ j + 1 \in SentPlaces(start)[b] .. SentPlaces(start)[b + 1] - 1
      BY ONLY <1>4, <1>5, <1>9, <1>17, b \in 81 .. L DEF L, I
    <2>2. \A q \in 1 .. Frames : j + 1 \in Begins[start][q] .. Begins[start][q + 1] - 1 <=> q = FrameOf(b)
      BY <2>1, FrameOfPlace
    <2> QED
      BY ONLY <1>15, <1>16, <2>2 DEF FramesOf, hurt
  <1>18. ASSUME b < L, ~(j + 1 < I[b + 1])
         PROVE  FrameOf(b + 1) \in 1 .. Frames /\ hurt = {FrameOf(b), FrameOf(b + 1)}
    <2>1. b + 1 \in 81 .. L /\ b + 1 \in 1 .. L + 1 /\ b + 1 + 1 \in 1 .. L + 1 /\ b + 1 < b + 1 + 1
      BY ONLY <1>8, <1>6, <1>18
    <2>2. I[b + 1] < I[b + 1 + 1] /\ I[b + 1] \in Nat /\ I[b + 1 + 1] \in Nat
      BY ONLY <1>7, <2>1
    <2>3. j + 1 \in I[b + 1] .. I[b + 1 + 1] - 1
      BY ONLY <1>4, <1>5, <1>18, <2>2
    <2>4. b + 1 \in 81 .. Length /\ j + 1 \in SentPlaces(start)[b + 1] .. SentPlaces(start)[b + 1 + 1] - 1
      BY ONLY <2>1, <2>3 DEF L, I
    <2>5. /\ \A q \in 1 .. Frames : j + 1 \in Begins[start][q] .. Begins[start][q + 1] - 1 <=> q = FrameOf(b + 1)
          /\ FrameOf(b + 1) \in 1 .. Frames
      BY <2>4, FrameOfPlace
    <2> QED
      BY ONLY <1>15, <1>16, <2>5 DEF FramesOf, hurt
  <1>19. CASE Len(W) = L - 1 /\ Like(W, T, 0, b) /\ (b < L - 1 => j + 1 < Places(T, L)[b + 1])
    <2>1. AlignedTo(Closed, T, 0, b, Len(W) + 1)
      <3>1. 0 \in Nat
        OBVIOUS
      <3> QED
        BY <1>8, <1>14, <1>19, <3>1, ClosedIsAligned
    <2>2. Len(W) + 1 = L
      BY ONLY <1>6, <1>19
    <2>3. hurt = {FrameOf(b)}
      <3>1. CASE b < L - 1
        BY ONLY <1>3, <1>17, <1>19, <3>1
      <3>2. CASE b = L
        <4>1. j + 1 < I[b + 1]
          BY ONLY <1>4, <1>7, <1>10, <3>2
        <4> QED
          BY ONLY <1>17, <4>1
      <3>3. CASE b = L - 1
        <4>1. FrameOf(b) = FrameOf(b + 1)
          <5>1. b - 1 = 80 * Frames + 78 /\ b + 1 - 1 = 80 * Frames + 79
            BY ONLY <1>6, <3>3
          <5>2. (80 * Frames + 78) \div 80 = Frames /\ (80 * Frames + 79) \div 80 = Frames
            BY ONLY <1>6
          <5> QED
            BY ONLY <5>1, <5>2 DEF FrameOf
        <4>2. b < L
          BY ONLY <1>6, <3>3
        <4>3. {FrameOf(b), FrameOf(b + 1)} = {FrameOf(b)}
          BY ONLY <4>1
        <4> QED
          BY ONLY <1>17, <1>18, <4>2, <4>3
      <3> QED
        BY ONLY <1>8, <1>6, <3>1, <3>2, <3>3
    <2>4. HeardAligned(Closed, T, hurt)
      <3>1. 0 \in Nat
        OBVIOUS
      <3> HIDE DEF hurt
      <3> QED
        BY ONLY <1>6, <1>8, <2>1, <2>2, <2>3, <3>1, b \in 81 .. L DEF HeardAligned, L
    <2> QED
      BY ONLY <1>2, <2>4, start \in Starts DEF IsHeard, T
  <1>20. CASE ~(b < L - 1 => j + 1 < Places(T, L)[b + 1]) \/ ~(Len(W) = L - 1 /\ Like(W, T, 0, b))
    <2>1. b <= L - 2 /\ Len(W) = L - 2 /\ Slip(W, T, b)
      BY ONLY <1>13, <1>20
    <2>2. SlippedAt(Closed, T, b, Len(W) + 1)
      <3>1. b \in Nat \ {0} /\ b <= Len(W)
        BY ONLY <1>8, <2>1
      <3> QED
        BY <1>14, <2>1, <3>1, ClosedIsSlipped
    <2>3. Len(W) + 1 = L - 1 /\ b \in 81 .. L - 2 /\ b < L /\ b < L - 1
      <3>1. L \in Nat /\ L >= 320 /\ b \in Nat /\ b >= 81
        BY ONLY <1>6, <1>8
      <3> HIDE DEF L
      <3> QED
        BY ONLY <2>1, <3>1
    <2>4. ~(j + 1 < I[b + 1])
      <3>1. j + 1 = I[b + 1]
        BY ONLY <1>3, <1>13, <1>20
      <3> QED
        BY ONLY <1>4, <3>1
    <2>5. hurt = {FrameOf(b), FrameOf(b + 1)}
      BY ONLY <1>18, <2>3, <2>4
    <2>6. HeardSlipped(Closed, T, hurt)
      <3> HIDE DEF hurt
      <3> QED
        BY ONLY <2>2, <2>3, <2>5 DEF HeardSlipped, L
    <2> QED
      BY ONLY <1>2, <2>6, start \in Starts DEF IsHeard, T
  <1> QED
    BY ONLY <1>19, <1>20

\* A recording with a crossing too many is heard aligned, with one bit wrong.
LEMMA AddedIsHeard ==
    ASSUME ReadingInv, done, NEW start \in Starts, NEW k \in Hurt,
           NEW j \in Begins[start][k] .. Begins[start][k + 1] - 1, NEW n \in 1 .. Signal[start][j] - 1,
           recording = Recorded(start, "added", WithCrossing(Signal[start], j, n), FramesOf(start, {j}))
    PROVE  IsHeard
  <1> DEFINE T == SentBits(start)
             z == Signal[start]
             L == Length
             I == SentPlaces(start)
             w == WithCrossing(z, j, n)
             hurt == FramesOf(start, {j})
  <1>1. recording = [start |-> start, kind |-> "added", hurt |-> hurt, intervals |-> Front(w), rest |-> Last(w)]
    BY DEF Recorded
  <1>2. /\ recording.start = start /\ recording.hurt = hurt
        /\ recording.intervals = Front(w) /\ recording.rest = Last(w)
    <2> HIDE DEF w, hurt
    <2> QED
      BY ONLY <1>1
  <1>3. Carries(z, T, L) /\ I = Places(T, L)
    BY SignalCarries DEF SentCarries, SentPlaces
  <1>4. j \in Nat /\ n \in 1 .. z[j] - 1
    BY DamageIsInBit
  <1>5. PICK b \in 81 .. L : j >= I[b] /\ j < I[b + 1]
    BY DamageIsInBit
  <1>6. L = 80 * (Frames + 1) /\ L \in Nat /\ Frames \in Nat /\ Frames >= 3 /\ L >= 320
    BY LengthIsNat
  <1>7. I \in [1 .. L + 1 -> Nat]
    BY <1>6, PlacesGrow DEF SentPlaces
  <1> HIDE DEF L, T, I, z
  <1>8. b \in 1 .. L /\ b \in 1 .. L + 1 /\ b + 1 \in 1 .. L + 1 /\ b \in Nat
    BY ONLY <1>6, b \in 81 .. L
  <1>9. I[b + 1] \in Nat /\ I[b] \in Nat
    BY ONLY <1>7, <1>8
  <1>11. b \in 1 .. L /\ j \in Nat /\ j >= Places(T, L)[b] /\ j < Places(T, L)[b + 1] /\ n \in 1 .. z[j] - 1
    BY ONLY <1>3, <1>4, <1>5, <1>8
  <1>12. /\ Last(w) \in 1 .. 4
         /\ \E W, E :
              /\ IsReading(Front(w), W, E)
              /\ \/ Len(W) = L - 1 /\ Like(W, T, 0, b)
                 \/ Len(W) = L /\ Like(W, T, 0, 0)
    BY ONLY <1>3, <1>11, AddedIsRead
  <1> HIDE DEF w
  <1>13. PICK W, E :
              /\ IsReading(Front(w), W, E)
              /\ \/ Len(W) = L - 1 /\ Like(W, T, 0, b)
                 \/ Len(W) = L /\ Like(W, T, 0, 0)
    BY ONLY <1>12
  <1>14. recording.rest \in 1 .. 4 /\ IsReading(recording.intervals, W, E)
    BY ONLY <1>2, <1>12, <1>13
  <1>15. b \in 81 .. Length /\ j \in SentPlaces(start)[b] .. SentPlaces(start)[b + 1] - 1
    BY ONLY <1>4, <1>5, <1>9, b \in 81 .. L DEF L, I
  <1>16. /\ \A q \in 1 .. Frames : j \in Begins[start][q] .. Begins[start][q + 1] - 1 <=> q = FrameOf(b)
         /\ FrameOf(b) \in 1 .. Frames
    BY <1>15, FrameOfPlace
  <1>17. hurt = {FrameOf(b)}
    BY ONLY <1>16 DEF FramesOf, hurt
  <1>18. HeardAligned(Closed, T, hurt)
    <2>0. 0 \in Nat
      OBVIOUS
    <2>1. CASE Len(W) = L - 1 /\ Like(W, T, 0, b)
      <3>1. AlignedTo(Closed, T, 0, b, Len(W) + 1)
        BY <1>8, <1>14, <2>0, <2>1, ClosedIsAligned
      <3>2. Len(W) + 1 = L
        BY ONLY <1>6, <2>1
      <3> HIDE DEF hurt
      <3> QED
        BY ONLY <1>6, <1>8, <1>17, <2>0, <3>1, <3>2, b \in 81 .. L DEF HeardAligned, L
    <2>2. CASE Len(W) = L /\ Like(W, T, 0, 0)
      <3>1. AlignedTo(Closed, T, 0, 0, Len(W) + 1)
        BY <1>14, <2>0, <2>2, ClosedIsAligned
      <3>2. Len(W) + 1 = L + 1 /\ L + 1 \in Nat
        BY ONLY <1>6, <2>2
      <3>3. \E h \in 1 .. Frames : hurt = {h}
        BY ONLY <1>16, <1>17
      <3> HIDE DEF hurt
      <3> QED
        BY ONLY <2>0, <3>1, <3>2, <3>3 DEF HeardAligned, L
    <2> QED
      BY ONLY <1>13, <2>1, <2>2
  <1> QED
    BY ONLY <1>2, <1>18, start \in Starts DEF IsHeard, T

\* Whatever is recorded.
LEMMA Heard ==
    ASSUME ReadingInv, done
    PROVE  IsHeard
  <1>1. PICK start \in Starts : recording \in Whole(start) \cup Cut(start) \cup Damaged(start)
    BY DEF ReadingInv, Recordings
  <1>2. CASE recording \in Whole(start)
    BY <1>2, WholeIsHeard
  <1>3. CASE recording \in Cut(start)
    <2>1. CASE \E n \in 2 .. Ends :
                 recording = Recorded(start, "late",
                               SubSeq(Signal[start], Len(Marks(LeadIn)) + n, Len(Signal[start])), {1})
      BY <2>1, LateIsHeard
    <2>2. CASE \E n \in 1 .. Ends :
                 recording = Recorded(start, "early", SubSeq(Signal[start], 1, Len(Signal[start]) - n), {Frames})
      BY <2>2, EarlyIsHeard
    <2> QED
      BY <1>3, <2>1, <2>2 DEF Cut
  <1>4. CASE recording \in Damaged(start)
    <2>1. CASE \E k \in Hurt, j \in UNION {Begins[start][k] .. Begins[start][k + 1] - 1 : k \in Hurt} :
                 /\ j \in Begins[start][k] .. Begins[start][k + 1] - 1 /\ j # Len(Signal[start])
                 /\ recording = Recorded(start, "lost", WithoutCrossing(Signal[start], j),
                                         FramesOf(start, {j, j + 1}))
      BY <2>1, LostIsHeard
    <2>2. CASE \E k \in Hurt, j \in UNION {Begins[start][k] .. Begins[start][k + 1] - 1 : k \in Hurt} :
                 /\ j \in Begins[start][k] .. Begins[start][k + 1] - 1
                 /\ \E n \in 1 .. Signal[start][j] - 1 :
                      recording = Recorded(start, "added", WithCrossing(Signal[start], j, n), FramesOf(start, {j}))
      BY <2>2, AddedIsHeard
    <2> QED
      BY <1>4, <2>1, <2>2 DEF Damaged
  <1> QED
    BY <1>1, <1>2, <1>3, <1>4

-----------------------------------------------------------------------------
(* Sync words.                                                             *)

Misses(T, t, i) == i \in 1 .. 16 /\ t + i <= Length /\ T[t + i] # SyncWord[i]

\* More places than the tolerance at which the bits after t are not a sync word.
IsOther(T, t) ==
    \E i, j, k \in 1 .. 16 :
      i # j /\ j # k /\ i # k /\ Misses(T, t, i) /\ Misses(T, t, j) /\ Misses(T, t, k)

\* Three zeros where a sync word has ones.
LEMMA ZerosAreOther ==
    ASSUME NEW T, NEW t \in Nat, NEW i \in 3 .. 12, t + i + 2 <= Length,
           T[t + i] = 0, T[t + i + 1] = 0, T[t + i + 2] = 0
    PROVE  IsOther(T, t)
  <1>1. i \in 3 .. 14 /\ i + 1 \in 3 .. 14 /\ i + 2 \in 3 .. 14
    OBVIOUS
  <1>2. SyncWord[i] = 1 /\ SyncWord[i + 1] = 1 /\ SyncWord[i + 2] = 1
    BY <1>1, SyncBits
  <1>3. /\ t + (i + 1) = t + i + 1 /\ t + (i + 2) = t + i + 2
        /\ i \in 1 .. 16 /\ i + 1 \in 1 .. 16 /\ i + 2 \in 1 .. 16
        /\ t + i <= Length /\ t + (i + 1) <= Length /\ t + (i + 2) <= Length
        /\ i # i + 1 /\ i + 1 # i + 2 /\ i # i + 2
    BY LengthIsNat
  <1>4. Misses(T, t, i) /\ Misses(T, t, i + 1) /\ Misses(T, t, i + 2)
    BY <1>2, <1>3 DEF Misses
  <1> QED
    BY <1>3, <1>4 DEF IsOther

\* Three places at which the bits differ make another word.
LEMMA OtherPlaces ==
    ASSUME NEW T, NEW t, NEW i, NEW j, NEW k, i # j, j # k, i # k,
           Misses(T, t, i), Misses(T, t, j), Misses(T, t, k)
    PROVE  IsOther(T, t)
  BY DEF IsOther, Misses

\* In a frame.
LEMMA FrameIsOther ==
    ASSUME NEW T, IsSent(T), NEW k \in 1 .. Frames, NEW o \in 0 .. 76, o # 64,
           80 * k + o <= Length - 15
    PROVE  IsOther(T, 80 * k + o)
  <1> DEFINE a == 80 * k
             t == 80 * k + o
  <1>1. /\ a \in Nat /\ t \in Nat /\ o \in Nat /\ a + 80 <= Length /\ Length \in Nat /\ t = a + o
        /\ t <= Length - 15
    BY LengthIsNat
  <1>2. \A i \in {5, 6, 7, 12, 13, 14, 21, 22, 23, 28, 29, 30, 37, 38, 39, 44, 45, 46, 53, 54, 55, 59, 60, 61, 64} :
          T[a + i] = 0
    <2>1. \A i \in {5, 6, 7, 12, 13, 14, 21, 22, 23, 28, 29, 30, 37, 38, 39, 44, 45, 46, 53, 54, 55, 59, 60, 61, 64} : i \in Clear
      BY ONLY DEF Clear
    <2>2. \A i \in Clear : T[80 * k + i] = 0
      BY DEF IsSent
    <2> QED
      BY ONLY <2>1, <2>2, Zenon DEF a
  <1>3. \A i \in 1 .. 16 : T[a + (64 + i)] = SyncWord[i]
    BY DEF IsSent
  <1> HIDE DEF a, t
  <1>4. /\ T[a + 65] = 0 /\ T[a + 66] = 0 /\ T[a + 79] = 0 /\ T[a + 80] = 1
        /\ \A i \in 67 .. 78 : T[a + i] = 1
    <2>1. /\ 64 + 1 = 65 /\ 64 + 2 = 66 /\ 64 + 15 = 79 /\ 64 + 16 = 80
          /\ 1 \in 1 .. 16 /\ 2 \in 1 .. 16 /\ 15 \in 1 .. 16 /\ 16 \in 1 .. 16
          /\ \A i \in 67 .. 78 : i - 64 \in 3 .. 14 /\ i - 64 \in 1 .. 16 /\ 64 + (i - 64) = i
      OBVIOUS
    <2>2. T[a + 65] = 0 /\ T[a + 66] = 0 /\ T[a + 79] = 0 /\ T[a + 80] = 1
      BY ONLY <1>3, <2>1, SyncBits
    <2>3. \A i \in 67 .. 78 : T[a + i] = 1
      <3> SUFFICES ASSUME NEW i \in 67 .. 78 PROVE T[a + i] = 1
        OBVIOUS
      <3>1. i - 64 \in 3 .. 14 /\ i - 64 \in 1 .. 16 /\ 64 + (i - 64) = i
        BY ONLY i \in 67 .. 78
      <3>2. T[a + (64 + (i - 64))] = SyncWord[i - 64] /\ SyncWord[i - 64] = 1
        BY ONLY <1>3, <3>1, SyncBits
      <3> QED
        BY ONLY <3>1, <3>2
    <2> QED
      BY ONLY <2>2, <2>3
  <1>5. o \in 0 .. 76 /\ o # 64
    OBVIOUS
  <1>6. CASE o \in 0 .. 2
    <2>1. /\ 5 - o \in 3 .. 12 /\ t + (5 - o) = a + 5 /\ t + (5 - o) + 1 = a + 6
          /\ t + (5 - o) + 2 = a + 7 /\ t + (5 - o) + 2 <= Length
      BY ONLY <1>1, <1>6
    <2>2. T[t + (5 - o)] = 0 /\ T[t + (5 - o) + 1] = 0 /\ T[t + (5 - o) + 2] = 0
      BY ONLY <1>2, <1>4, <2>1
    <2>3. t \in Nat
      BY ONLY <1>1
    <2>4. IsOther(T, t)
      BY ONLY <2>1, <2>2, <2>3, ZerosAreOther
    <2> QED
      BY ONLY <2>4 DEF t
  <1>7. CASE o \in 3 .. 9
    <2>1. /\ 12 - o \in 3 .. 12 /\ t + (12 - o) = a + 12 /\ t + (12 - o) + 1 = a + 13
          /\ t + (12 - o) + 2 = a + 14 /\ t + (12 - o) + 2 <= Length
      BY ONLY <1>1, <1>7
    <2>2. T[t + (12 - o)] = 0 /\ T[t + (12 - o) + 1] = 0 /\ T[t + (12 - o) + 2] = 0
      BY ONLY <1>2, <1>4, <2>1
    <2>3. t \in Nat
      BY ONLY <1>1
    <2>4. IsOther(T, t)
      BY ONLY <2>1, <2>2, <2>3, ZerosAreOther
    <2> QED
      BY ONLY <2>4 DEF t
  <1>8. CASE o \in 10 .. 18
    <2>1. /\ 21 - o \in 3 .. 12 /\ t + (21 - o) = a + 21 /\ t + (21 - o) + 1 = a + 22
          /\ t + (21 - o) + 2 = a + 23 /\ t + (21 - o) + 2 <= Length
      BY ONLY <1>1, <1>8
    <2>2. T[t + (21 - o)] = 0 /\ T[t + (21 - o) + 1] = 0 /\ T[t + (21 - o) + 2] = 0
      BY ONLY <1>2, <1>4, <2>1
    <2>3. t \in Nat
      BY ONLY <1>1
    <2>4. IsOther(T, t)
      BY ONLY <2>1, <2>2, <2>3, ZerosAreOther
    <2> QED
      BY ONLY <2>4 DEF t
  <1>9. CASE o \in 19 .. 25
    <2>1. /\ 28 - o \in 3 .. 12 /\ t + (28 - o) = a + 28 /\ t + (28 - o) + 1 = a + 29
          /\ t + (28 - o) + 2 = a + 30 /\ t + (28 - o) + 2 <= Length
      BY ONLY <1>1, <1>9
    <2>2. T[t + (28 - o)] = 0 /\ T[t + (28 - o) + 1] = 0 /\ T[t + (28 - o) + 2] = 0
      BY ONLY <1>2, <1>4, <2>1
    <2>3. t \in Nat
      BY ONLY <1>1
    <2>4. IsOther(T, t)
      BY ONLY <2>1, <2>2, <2>3, ZerosAreOther
    <2> QED
      BY ONLY <2>4 DEF t
  <1>10. CASE o \in 26 .. 34
    <2>1. /\ 37 - o \in 3 .. 12 /\ t + (37 - o) = a + 37 /\ t + (37 - o) + 1 = a + 38
          /\ t + (37 - o) + 2 = a + 39 /\ t + (37 - o) + 2 <= Length
      BY ONLY <1>1, <1>10
    <2>2. T[t + (37 - o)] = 0 /\ T[t + (37 - o) + 1] = 0 /\ T[t + (37 - o) + 2] = 0
      BY ONLY <1>2, <1>4, <2>1
    <2>3. t \in Nat
      BY ONLY <1>1
    <2>4. IsOther(T, t)
      BY ONLY <2>1, <2>2, <2>3, ZerosAreOther
    <2> QED
      BY ONLY <2>4 DEF t
  <1>11. CASE o \in 35 .. 41
    <2>1. /\ 44 - o \in 3 .. 12 /\ t + (44 - o) = a + 44 /\ t + (44 - o) + 1 = a + 45
          /\ t + (44 - o) + 2 = a + 46 /\ t + (44 - o) + 2 <= Length
      BY ONLY <1>1, <1>11
    <2>2. T[t + (44 - o)] = 0 /\ T[t + (44 - o) + 1] = 0 /\ T[t + (44 - o) + 2] = 0
      BY ONLY <1>2, <1>4, <2>1
    <2>3. t \in Nat
      BY ONLY <1>1
    <2>4. IsOther(T, t)
      BY ONLY <2>1, <2>2, <2>3, ZerosAreOther
    <2> QED
      BY ONLY <2>4 DEF t
  <1>12. CASE o \in 42 .. 50
    <2>1. /\ 53 - o \in 3 .. 12 /\ t + (53 - o) = a + 53 /\ t + (53 - o) + 1 = a + 54
          /\ t + (53 - o) + 2 = a + 55 /\ t + (53 - o) + 2 <= Length
      BY ONLY <1>1, <1>12
    <2>2. T[t + (53 - o)] = 0 /\ T[t + (53 - o) + 1] = 0 /\ T[t + (53 - o) + 2] = 0
      BY ONLY <1>2, <1>4, <2>1
    <2>3. t \in Nat
      BY ONLY <1>1
    <2>4. IsOther(T, t)
      BY ONLY <2>1, <2>2, <2>3, ZerosAreOther
    <2> QED
      BY ONLY <2>4 DEF t
  <1>13. CASE o \in 51 .. 56
    <2>1. /\ 59 - o \in 3 .. 12 /\ t + (59 - o) = a + 59 /\ t + (59 - o) + 1 = a + 60
          /\ t + (59 - o) + 2 = a + 61 /\ t + (59 - o) + 2 <= Length
      BY ONLY <1>1, <1>13
    <2>2. T[t + (59 - o)] = 0 /\ T[t + (59 - o) + 1] = 0 /\ T[t + (59 - o) + 2] = 0
      BY ONLY <1>2, <1>4, <2>1
    <2>3. t \in Nat
      BY ONLY <1>1
    <2>4. IsOther(T, t)
      BY ONLY <2>1, <2>2, <2>3, ZerosAreOther
    <2> QED
      BY ONLY <2>4 DEF t
  <1>14. CASE o \in 57 .. 61
    <2>1. /\ 64 - o \in 3 .. 12 /\ t + (64 - o) = a + 64 /\ t + (64 - o) + 1 = a + 65
          /\ t + (64 - o) + 2 = a + 66 /\ t + (64 - o) + 2 <= Length
      BY ONLY <1>1, <1>14
    <2>2. T[t + (64 - o)] = 0 /\ T[t + (64 - o) + 1] = 0 /\ T[t + (64 - o) + 2] = 0
      BY ONLY <1>2, <1>4, <2>1
    <2>3. t \in Nat
      BY ONLY <1>1
    <2>4. IsOther(T, t)
      BY ONLY <2>1, <2>2, <2>3, ZerosAreOther
    <2> QED
      BY ONLY <2>4 DEF t
  <1>15. CASE o = 62
    <2>1. 3 \in 1 .. 16 /\ t + 3 = a + 65 /\ t + 3 <= Length
          /\ 4 \in 1 .. 16 /\ t + 4 = a + 66 /\ t + 4 <= Length
          /\ 15 \in 1 .. 16 /\ t + 15 = a + 77 /\ t + 15 <= Length
          /\ 3 # 4 /\ 4 # 15 /\ 3 # 15
      BY ONLY <1>1, <1>15
    <2>2. T[a + 65] = 0 /\ SyncWord[3] = 1 /\ T[a + 66] = 0 /\ SyncWord[4] = 1 /\ T[a + 77] = 1 /\ SyncWord[15] = 0
      BY ONLY <1>4, <1>15, SyncBits
    <2>3. Misses(T, t, 3)
      BY ONLY <2>1, <2>2 DEF Misses
    <2>4. Misses(T, t, 4)
      BY ONLY <2>1, <2>2 DEF Misses
    <2>5. Misses(T, t, 15)
      BY ONLY <2>1, <2>2 DEF Misses
    <2>6. IsOther(T, t)
      BY ONLY <2>1, <2>3, <2>4, <2>5, OtherPlaces
    <2> QED
      BY ONLY <2>6 DEF t
  <1>16. CASE o = 63
    <2>1. 3 \in 1 .. 16 /\ t + 3 = a + 66 /\ t + 3 <= Length
          /\ 15 \in 1 .. 16 /\ t + 15 = a + 78 /\ t + 15 <= Length
          /\ 16 \in 1 .. 16 /\ t + 16 = a + 79 /\ t + 16 <= Length
          /\ 3 # 15 /\ 15 # 16 /\ 3 # 16
      BY ONLY <1>1, <1>16
    <2>2. T[a + 66] = 0 /\ SyncWord[3] = 1 /\ T[a + 78] = 1 /\ SyncWord[15] = 0 /\ T[a + 79] = 0 /\ SyncWord[16] = 1
      BY ONLY <1>4, <1>16, SyncBits
    <2>3. Misses(T, t, 3)
      BY ONLY <2>1, <2>2 DEF Misses
    <2>4. Misses(T, t, 15)
      BY ONLY <2>1, <2>2 DEF Misses
    <2>5. Misses(T, t, 16)
      BY ONLY <2>1, <2>2 DEF Misses
    <2>6. IsOther(T, t)
      BY ONLY <2>1, <2>3, <2>4, <2>5, OtherPlaces
    <2> QED
      BY ONLY <2>6 DEF t
  <1>17. CASE o = 65
    <2>1. 2 \in 1 .. 16 /\ t + 2 = a + 67 /\ t + 2 <= Length
          /\ 14 \in 1 .. 16 /\ t + 14 = a + 79 /\ t + 14 <= Length
          /\ 15 \in 1 .. 16 /\ t + 15 = a + 80 /\ t + 15 <= Length
          /\ 2 # 14 /\ 14 # 15 /\ 2 # 15
      BY ONLY <1>1, <1>17
    <2>2. T[a + 67] = 1 /\ SyncWord[2] = 0 /\ T[a + 79] = 0 /\ SyncWord[14] = 1 /\ T[a + 80] = 1 /\ SyncWord[15] = 0
      BY ONLY <1>4, <1>17, SyncBits
    <2>3. Misses(T, t, 2)
      BY ONLY <2>1, <2>2 DEF Misses
    <2>4. Misses(T, t, 14)
      BY ONLY <2>1, <2>2 DEF Misses
    <2>5. Misses(T, t, 15)
      BY ONLY <2>1, <2>2 DEF Misses
    <2>6. IsOther(T, t)
      BY ONLY <2>1, <2>3, <2>4, <2>5, OtherPlaces
    <2> QED
      BY ONLY <2>6 DEF t
  <1>18. CASE o \in 66 .. 76
    <2>1. 1 \in 1 .. 16 /\ t + 1 = a + (o + 1) /\ t + 1 <= Length
          /\ 2 \in 1 .. 16 /\ t + 2 = a + (o + 2) /\ t + 2 <= Length
          /\ (79 - o) \in 1 .. 16 /\ t + (79 - o) = a + 79 /\ t + (79 - o) <= Length
          /\ 1 # 2 /\ 2 # (79 - o) /\ 1 # (79 - o)
      BY ONLY <1>1, <1>18
    <2>2. /\ T[a + (o + 1)] = 1 /\ SyncWord[1] = 0 /\ T[a + (o + 2)] = 1 /\ SyncWord[2] = 0
          /\ T[a + 79] = 0 /\ SyncWord[(79 - o)] = 1
      <3>1. o + 1 \in 67 .. 78 /\ o + 2 \in 67 .. 78 /\ 79 - o \in 3 .. 14
        BY ONLY <1>18
      <3> QED
        BY ONLY <1>4, <3>1, SyncBits
    <2>3. Misses(T, t, 1)
      BY ONLY <2>1, <2>2 DEF Misses
    <2>4. Misses(T, t, 2)
      BY ONLY <2>1, <2>2 DEF Misses
    <2>5. Misses(T, t, (79 - o))
      BY ONLY <2>1, <2>2 DEF Misses
    <2>6. IsOther(T, t)
      BY ONLY <2>1, <2>3, <2>4, <2>5, OtherPlaces
    <2> QED
      BY ONLY <2>6 DEF t
  <1> QED
    BY ONLY <1>5, <1>6, <1>7, <1>8, <1>9, <1>10, <1>11, <1>12, <1>13, <1>14, <1>15, <1>16, <1>17, <1>18

\* Where a frame ends and the next one begins.
LEMMA JoinIsOther ==
    ASSUME NEW T, IsSent(T), NEW k \in 0 .. Frames - 1, NEW o \in 73 .. 79
    PROVE  IsOther(T, 80 * k + o)
  <1> DEFINE a == 80 * (k + 1)
             t == 80 * k + o
  <1>1. /\ a \in Nat /\ t \in Nat /\ a + 80 <= Length /\ Length \in Nat /\ k + 1 \in 1 .. Frames
        /\ t + 80 = a + o
    BY LengthIsNat
  <1>2. T[a + 5] = 0 /\ T[a + 6] = 0 /\ T[a + 7] = 0
    BY <1>1 DEF IsSent, Clear
  <1> HIDE DEF a, t
  <1>3. /\ 85 - o \in 3 .. 12 /\ t + (85 - o) = a + 5 /\ t + (85 - o) + 1 = a + 6
        /\ t + (85 - o) + 2 = a + 7 /\ t + (85 - o) + 2 <= Length
    BY ONLY <1>1, o \in 73 .. 79
  <1>4. T[t + (85 - o)] = 0 /\ T[t + (85 - o) + 1] = 0 /\ T[t + (85 - o) + 2] = 0 /\ t \in Nat
    BY ONLY <1>1, <1>2, <1>3
  <1>5. IsOther(T, t)
    BY ONLY <1>3, <1>4, ZerosAreOther
  <1> QED
    BY ONLY <1>5 DEF t

\* In the lead-in.
LEMMA LeadInIsOther ==
    ASSUME NEW T, IsSent(T), NEW t \in 0 .. 72
    PROVE  IsOther(T, t)
  <1>1. \A i \in 1 .. 80 : T[i] = (i - 1) % 2
    BY DEF IsSent
  <1>2. Length \in Nat /\ Length >= 320
    BY LengthIsNat
  <1>3. ASSUME NEW i \in 3 .. 8, (t + i - 1) % 2 = 0
        PROVE  Misses(T, t, i)
    <2>1. t + i \in 1 .. 80 /\ i \in 1 .. 16 /\ t + i <= Length /\ (t + i) - 1 = t + i - 1 /\ i \in 3 .. 14
      BY ONLY <1>2, i \in 3 .. 8, t \in 0 .. 72
    <2>2. T[t + i] = 0
      BY ONLY <1>1, <1>3, <2>1
    <2>3. SyncWord[i] = 1
      BY <2>1, SyncBits
    <2> QED
      BY ONLY <2>1, <2>2, <2>3 DEF Misses
  <1>4. CASE t % 2 = 0
    <2>1. (t + 3 - 1) % 2 = 0 /\ (t + 5 - 1) % 2 = 0 /\ (t + 7 - 1) % 2 = 0
      BY ONLY <1>4, t \in 0 .. 72
    <2>2. 3 \in 3 .. 8 /\ 5 \in 3 .. 8 /\ 7 \in 3 .. 8 /\ 3 # 5 /\ 5 # 7 /\ 3 # 7
      OBVIOUS
    <2>3. Misses(T, t, 3) /\ Misses(T, t, 5) /\ Misses(T, t, 7)
      BY ONLY <1>3, <2>1, <2>2
    <2> QED
      BY ONLY <2>2, <2>3, OtherPlaces
  <1>5. CASE t % 2 # 0
    <2>1. (t + 4 - 1) % 2 = 0 /\ (t + 6 - 1) % 2 = 0 /\ (t + 8 - 1) % 2 = 0
      BY ONLY <1>5, t \in 0 .. 72
    <2>2. 4 \in 3 .. 8 /\ 6 \in 3 .. 8 /\ 8 \in 3 .. 8 /\ 4 # 6 /\ 6 # 8 /\ 4 # 8
      OBVIOUS
    <2>3. Misses(T, t, 4) /\ Misses(T, t, 6) /\ Misses(T, t, 8)
      BY ONLY <1>3, <2>1, <2>2
    <2> QED
      BY ONLY <2>2, <2>3, OtherPlaces
  <1> QED
    BY ONLY <1>4, <1>5

\* But for the sync words of the frames nothing in the bits is like one.
LEMMA OnlySyncWords ==
    ASSUME NEW T, IsSent(T), NEW t \in 0 .. Length - 15, \A k \in 1 .. Frames : t # 80 * k + 64
    PROVE  IsOther(T, t)
  <1> DEFINE k == t \div 80
             o == t % 80
  <1>1. Length = 80 * (Frames + 1) /\ Length \in Nat /\ Frames \in Nat /\ Frames >= 3
    BY LengthIsNat
  <1>2. t \in Nat /\ k \in 0 .. Frames /\ o \in 0 .. 79 /\ t = 80 * k + o
    BY <1>1
  <1>2a. t \in 0 .. Length - 15 /\ t <= Length - 15
    BY <1>1
  <1> HIDE DEF k, o
  <1>3. CASE k = 0 /\ o <= 72
    <2>1. t \in 0 .. 72
      BY ONLY <1>2, <1>3
    <2> QED
      BY <2>1, LeadInIsOther
  <1>4. CASE k # Frames /\ o \in 73 .. 79
    <2>1. k \in 0 .. Frames - 1
      BY ONLY <1>1, <1>2, <1>4
    <2> QED
      BY <1>2, <1>4, <2>1, JoinIsOther
  <1>5. CASE k # 0 /\ o \in 0 .. 76
    <2>1. k \in 1 .. Frames
      BY ONLY <1>2, <1>5
    <2>2. o # 64 /\ 80 * k + o <= Length - 15
      BY <1>2, <1>2a, <2>1
    <2> QED
      BY <1>2, <1>5, <2>1, <2>2, FrameIsOther
  <1>6. k = Frames => o <= 76
    BY ONLY <1>1, <1>2, <1>2a
  <1> QED
    BY ONLY <1>1, <1>2, <1>3, <1>4, <1>5, <1>6

\* A set of three.
LEMMA ThreeAreMany ==
    ASSUME NEW S, IsFiniteSet(S), NEW i \in S, NEW j \in S, NEW k \in S, i # j, j # k, i # k
    PROVE  Cardinality(S) \in Nat /\ Cardinality(S) >= 3
  <1>1. Cardinality({i, j, k}) = 3
    <2>1. Cardinality({}) = 0 /\ IsFiniteSet({})
      BY FS_EmptySet
    <2>2. IsFiniteSet({i}) /\ Cardinality({i}) = 1
      BY FS_Singleton
    <2>3. {i, j} = {i} \cup {j} /\ {i, j, k} = {i, j} \cup {k} /\ j \notin {i} /\ k \notin {i, j}
      OBVIOUS
    <2>4. IsFiniteSet({i, j}) /\ Cardinality({i, j}) = 2
      <3>1. IsFiniteSet({i} \cup {j}) /\ Cardinality({i} \cup {j}) = Cardinality({i}) + 1
        BY ONLY <2>2, <2>3, FS_AddElement
      <3> QED
        BY ONLY <2>2, <2>3, <3>1
    <2>5. Cardinality({i, j} \cup {k}) = Cardinality({i, j}) + 1
      BY ONLY <2>3, <2>4, FS_AddElement
    <2> QED
      BY ONLY <2>3, <2>4, <2>5
  <1>2. {i, j, k} \subseteq S
    OBVIOUS
  <1>3. Cardinality({i, j, k}) <= Cardinality(S) /\ Cardinality(S) \in Nat
    BY <1>2, FS_Subset, FS_CardinalityType
  <1> QED
    BY <1>1, <1>3

\* A set of at most two.
LEMMA TwoAreFew ==
    ASSUME NEW S, NEW a, NEW b, S \subseteq {a, b}
    PROVE  Cardinality(S) \in Nat /\ Cardinality(S) <= 2
  <1>1. IsFiniteSet({a, b}) /\ Cardinality({a, b}) \in Nat /\ Cardinality({a, b}) <= 2
    <2>1. IsFiniteSet({a}) /\ Cardinality({a}) = 1
      BY FS_Singleton
    <2>2. {a, b} = {a} \cup {b}
      OBVIOUS
    <2>3. IsFiniteSet({a, b}) /\ Cardinality({a, b}) = IF b \in {a} THEN 1 ELSE 1 + 1
      BY <2>1, <2>2, FS_AddElement
    <2> QED
      BY <2>3
  <1>2. IsFiniteSet(S) /\ Cardinality(S) <= Cardinality({a, b})
    BY <1>1, FS_Subset
  <1>3. Cardinality(S) \in Nat
    BY <1>2, FS_CardinalityType
  <1> QED
    BY <1>1, <1>2, <1>3

\* The wrong bits of the sync word after the bit p.
WrongAt(X, p) == {i \in 1 .. 16 : X[p + i] # SyncWord[i]}

\* The wrong bits of a sync word are at most sixteen.
LEMMA WrongIsFinite ==
    ASSUME NEW X, NEW p
    PROVE  IsFiniteSet(WrongAt(X, p))
  <1>1. IsFiniteSet(1 .. 16)
    <2>1. 1 \in Int /\ 16 \in Int
      OBVIOUS
    <2> QED
      BY ONLY <2>1, FS_Interval, Zenon
  <1> QED
    BY <1>1, FS_Subset DEF WrongAt

\* Three bits that are wrong are too many, two are not.
LEMMA IsNoSync ==
    ASSUME NEW X, NEW p, NEW i \in 1 .. 16, NEW j \in 1 .. 16, NEW k \in 1 .. 16, i # j, j # k, i # k,
           X[p + i] # SyncWord[i], X[p + j] # SyncWord[j], X[p + k] # SyncWord[k]
    PROVE  ~IsSync(X, p)
  <1>1. i \in WrongAt(X, p) /\ j \in WrongAt(X, p) /\ k \in WrongAt(X, p)
    BY DEF WrongAt
  <1>2. Cardinality(WrongAt(X, p)) \in Nat /\ Cardinality(WrongAt(X, p)) >= 3
    BY ONLY <1>1, WrongIsFinite, ThreeAreMany, i # j, j # k, i # k
  <1> DEFINE n == Cardinality(WrongAt(X, p))
  <1> HIDE DEF n
  <1>3. ~(n <= 2)
    BY <1>2 DEF n
  <1> QED
    BY <1>3 DEF IsSync, WrongAt, Tolerance, n

\* The sync word after the bit p is right but for the bits a and b.
IsRight(X, p, a, b) == \A i \in 1 .. 16 : i # a /\ i # b => X[p + i] = SyncWord[i]

\* What has no more than two wrong bits is taken for a sync word.
LEMMA IsSyncWord ==
    ASSUME NEW X, NEW p, p + 16 <= Len(X), NEW a, NEW b, IsRight(X, p, a, b)
    PROVE  IsSync(X, p)
  <1>1. WrongAt(X, p) \subseteq {a, b}
    BY DEF WrongAt, IsRight
  <1>2. Cardinality(WrongAt(X, p)) <= 2
    BY <1>1, TwoAreFew
  <1> QED
    BY <1>2 DEF IsSync, WrongAt, Tolerance

-----------------------------------------------------------------------------
(* Where sync words are found.                                             *)

\* An aligned recording: at those of the frames, and near the bit b.
LEMMA AlignedHits ==
    ASSUME NEW T, IsSent(T), NEW X, NEW c \in Nat, NEW b \in Nat, NEW N, AlignedTo(X, T, c, b, N),
           N + c <= Length + 1, NEW p \in Nat, p + 16 <= N, IsSync(X, p)
    PROVE  (\E k \in 1 .. Frames : p + c = 80 * k + 64) \/ (b # 0 /\ p < b /\ b <= p + 16)
  <1> SUFFICES ASSUME ~(\E k \in 1 .. Frames : p + c = 80 * k + 64), ~(b # 0 /\ p < b /\ b <= p + 16)
               PROVE  ~IsSync(X, p)
    OBVIOUS
  <1>1. /\ N \in Nat \ {0} /\ X[N] = 0
        /\ \A i \in 1 .. N - 1 : i # b => X[i] = T[i + c]
    BY DEF AlignedTo
  <1>2. Length \in Nat
    BY LengthIsNat
  <1>3. p + c \in 0 .. Length - 15 /\ \A k \in 1 .. Frames : p + c # 80 * k + 64
    BY <1>1, <1>2
  <1>4. PICK i, j, k \in 1 .. 16 :
          /\ i # j /\ j # k /\ i # k
          /\ Misses(T, p + c, i) /\ Misses(T, p + c, j) /\ Misses(T, p + c, k)
    BY <1>3, OnlySyncWords DEF IsOther
  <1>5. ASSUME NEW m \in 1 .. 16, Misses(T, p + c, m)
        PROVE  X[p + m] # SyncWord[m]
    <2>1. T[p + c + m] # SyncWord[m]
      BY <1>5 DEF Misses
    <2>2. CASE p + m < N
      <3>1. p + m \in 1 .. N - 1 /\ p + m # b /\ (p + m) + c = p + c + m
        BY <1>1, <2>2
      <3>2. X[p + m] = T[(p + m) + c]
        BY ONLY <1>1, <3>1
      <3> QED
        BY ONLY <2>1, <3>1, <3>2
    <2>3. CASE ~(p + m < N)
      <3>1. m = 16 /\ p + m = N
        BY <1>1, <2>3
      <3> QED
        BY ONLY <1>1, <3>1, SyncBits
    <2> QED
      BY ONLY <2>2, <2>3
  <1> QED
    BY ONLY <1>4, <1>5, IsNoSync, i \in 1 .. 16, j \in 1 .. 16, k \in 1 .. 16

\* In an aligned recording the sync word of each frame is found.
LEMMA AlignedSyncs ==
    ASSUME NEW T, IsSent(T), NEW X, NEW c \in Nat, NEW b \in Nat, NEW N, AlignedTo(X, T, c, b, N),
           NEW p \in Nat, p + 16 <= N, NEW k \in 1 .. Frames, p + c = 80 * k + 64
    PROVE  IsSync(X, p)
  <1>1. /\ N \in Nat \ {0} /\ Len(X) = N
        /\ \A i \in 1 .. N - 1 : i # b => X[i] = T[i + c]
    BY DEF AlignedTo
  <1>2. \A i \in 1 .. 16 : T[80 * k + (64 + i)] = SyncWord[i]
    BY DEF IsSent
  <1>3. ASSUME NEW i \in 1 .. 16, i # b - p, i # N - p
        PROVE  X[p + i] = SyncWord[i]
    <2>1. p + i \in 1 .. N - 1 /\ p + i # b /\ (p + i) + c = 80 * k + (64 + i)
      BY <1>1, <1>3
    <2>2. X[p + i] = T[(p + i) + c]
      BY ONLY <1>1, <2>1
    <2> QED
      BY ONLY <1>2, <2>1, <2>2, i \in 1 .. 16
  <1>4. IsRight(X, p, b - p, N - p)
    BY ONLY <1>3 DEF IsRight
  <1>5. p + 16 <= Len(X)
    BY <1>1
  <1> QED
    BY ONLY <1>4, <1>5, IsSyncWord

\* A recording that has slipped: before the bit b at those of the frames, after it
\* one earlier.
LEMMA SlippedHits ==
    ASSUME NEW T, IsSent(T), NEW X, NEW b \in 81 .. Length - 2, SlippedAt(X, T, b, Length - 1),
           NEW p \in Nat, p + 16 <= Length - 1, IsSync(X, p)
    PROVE  \/ p + 16 < b /\ \E k \in 1 .. Frames : p = 80 * k + 64
           \/ p < b /\ b <= p + 16
           \/ b <= p /\ \E k \in 1 .. Frames : p = 80 * k + 63
  <1> DEFINE N == Length - 1
  <1>1. /\ N \in Nat \ {0} /\ X[N] = 0
        /\ \A i \in 1 .. b - 1 : X[i] = T[i]
        /\ \A i \in b + 1 .. N - 1 : X[i] = T[i + 1]
    BY DEF SlippedAt
  <1>2. Length \in Nat /\ p \in Nat /\ p + 16 <= N /\ N = Length - 1 /\ b \in 81 .. Length - 2
    BY LengthIsNat
  <1> HIDE DEF N
  <1>3. ASSUME p + 16 < b, \A k \in 1 .. Frames : p # 80 * k + 64
        PROVE  FALSE
    <2>1. p \in 0 .. Length - 15
      BY ONLY <1>2, <1>3
    <2>2. PICK i, j, k \in 1 .. 16 :
            i # j /\ j # k /\ i # k /\ Misses(T, p, i) /\ Misses(T, p, j) /\ Misses(T, p, k)
      BY <1>3, <2>1, OnlySyncWords DEF IsOther
    <2>3. ASSUME NEW m \in 1 .. 16, Misses(T, p, m)
          PROVE  X[p + m] # SyncWord[m]
      <3>1. T[p + m] # SyncWord[m]
        BY <2>3 DEF Misses
      <3>2. p + m \in 1 .. b - 1
        BY ONLY <1>2, <1>3, m \in 1 .. 16
      <3> QED
        BY ONLY <1>1, <3>1, <3>2
    <2> QED
      BY <2>2, <2>3, IsNoSync
  <1>4. ASSUME b <= p, \A k \in 1 .. Frames : p # 80 * k + 63
        PROVE  FALSE
    <2>1. p + 1 \in 0 .. Length - 15
      BY ONLY <1>2, <1>4
    <2>1a. \A k \in 1 .. Frames : p + 1 # 80 * k + 64
      BY <1>4, LengthIsNat
    <2>2. PICK i, j, k \in 1 .. 16 :
            /\ i # j /\ j # k /\ i # k
            /\ Misses(T, p + 1, i) /\ Misses(T, p + 1, j) /\ Misses(T, p + 1, k)
      BY <2>1, <2>1a, OnlySyncWords DEF IsOther
    <2>3. ASSUME NEW m \in 1 .. 16, Misses(T, p + 1, m)
          PROVE  X[p + m] # SyncWord[m]
      <3>1. T[p + 1 + m] # SyncWord[m]
        BY <2>3 DEF Misses
      <3>2. CASE p + m < N
        <4>1. p + m \in b + 1 .. N - 1 /\ (p + m) + 1 = p + 1 + m
          BY ONLY <1>2, <1>4, <3>2, m \in 1 .. 16
        <4>2. X[p + m] = T[(p + m) + 1]
          BY ONLY <1>1, <4>1
        <4> QED
          BY ONLY <3>1, <4>1, <4>2
      <3>3. CASE ~(p + m < N)
        <4>1. m = 16 /\ p + m = N
          BY ONLY <1>2, <3>3, m \in 1 .. 16
        <4> QED
          BY ONLY <1>1, <4>1, SyncBits
      <3> QED
        BY ONLY <3>2, <3>3
    <2> QED
      BY <2>2, <2>3, IsNoSync
  <1> QED
    BY <1>2, <1>3, <1>4

\* In a slipped recording the sync words before the slip are found, and those
\* after it, one bit early.
LEMMA SlippedSyncs ==
    ASSUME NEW T, IsSent(T), NEW X, NEW b \in 81 .. Length - 2, SlippedAt(X, T, b, Length - 1),
           NEW p \in Nat, p + 16 <= Length - 1, NEW k \in 1 .. Frames,
           (p = 80 * k + 64 /\ p + 16 < b) \/ (p = 80 * k + 63 /\ b <= p)
    PROVE  IsSync(X, p)
  <1> DEFINE N == Length - 1
  <1>1. /\ N \in Nat \ {0} /\ X[N] = 0 /\ Len(X) = N
        /\ \A i \in 1 .. b - 1 : X[i] = T[i]
        /\ \A i \in b + 1 .. N - 1 : X[i] = T[i + 1]
    BY DEF SlippedAt
  <1>2. Length \in Nat /\ p \in Nat /\ p + 16 <= N /\ N = Length - 1 /\ b \in 81 .. Length - 2 /\ k \in Nat
        /\ p + 16 <= Len(X)
    BY <1>1, LengthIsNat
  <1>2a. \A i \in 1 .. 16 : T[80 * k + (64 + i)] = SyncWord[i]
    BY DEF IsSent
  <1> HIDE DEF N
  <1>3. CASE p = 80 * k + 64 /\ p + 16 < b
    <2>1. ASSUME NEW i \in 1 .. 16 PROVE X[p + i] = SyncWord[i]
      <3>1. p + i \in 1 .. b - 1 /\ p + i = 80 * k + (64 + i)
        BY ONLY <1>2, <1>3, i \in 1 .. 16
      <3>2. X[p + i] = T[p + i]
        BY ONLY <1>1, <3>1
      <3> QED
        BY ONLY <1>2a, <3>1, <3>2, i \in 1 .. 16
    <2>2. IsRight(X, p, 0, 0)
      BY ONLY <2>1 DEF IsRight
    <2> QED
      BY ONLY <1>2, <2>2, IsSyncWord
  <1>4. CASE p = 80 * k + 63 /\ b <= p
    <2>1. ASSUME NEW i \in 1 .. 16, i # N - p PROVE X[p + i] = SyncWord[i]
      <3>1. p + i \in b + 1 .. N - 1 /\ (p + i) + 1 = 80 * k + (64 + i)
        BY ONLY <1>2, <1>4, <2>1, i \in 1 .. 16
      <3>2. X[p + i] = T[(p + i) + 1]
        BY ONLY <1>1, <3>1
      <3> QED
        BY ONLY <1>2a, <3>1, <3>2, i \in 1 .. 16
    <2>2. IsRight(X, p, N - p, N - p)
      BY ONLY <2>1 DEF IsRight
    <2> QED
      BY ONLY <1>2, <2>2, IsSyncWord
  <1> QED
    BY <1>3, <1>4

-----------------------------------------------------------------------------
(* The scan for sync words.                                                *)

AreScanned(f, hits, n) == f = [m \in 0 .. n |-> IF m = 0 THEN {} ELSE NextSync(hits, f[m - 1])]

\* The scan over the hits has a value.
LEMMA ScanExists ==
    ASSUME NEW hits, NEW n \in Nat
    PROVE  \E f : AreScanned(f, hits, n)
  <1> DEFINE S == {m \in 0 .. n : \E f : AreScanned(f, hits, m)}
  <1>1. 0 \in S
    <2>1. AreScanned([m \in 0 .. 0 |-> {}], hits, 0)
      BY DEF AreScanned
    <2> QED
      BY <2>1
  <1>2. ASSUME NEW m \in 1 .. n, m - 1 \in S PROVE m \in S
    <2>1. PICK f : AreScanned(f, hits, m - 1)
      BY <1>2
    <2> DEFINE g == [j \in 0 .. m |-> IF j = m THEN NextSync(hits, f[m - 1]) ELSE f[j]]
    <2>2. \A j \in 0 .. m : j # m => j \in 0 .. m - 1 /\ g[j] = f[j]
      OBVIOUS
    <2>3. \A j \in 0 .. m : j # 0 => j - 1 \in 0 .. m - 1 /\ g[j - 1] = f[j - 1]
      OBVIOUS
    <2>4. \A j \in 0 .. m - 1 : f[j] = IF j = 0 THEN {} ELSE NextSync(hits, f[j - 1])
      BY <2>1 DEF AreScanned
    <2>5. \A j \in 0 .. m : g[j] = IF j = 0 THEN {} ELSE NextSync(hits, g[j - 1])
      BY <2>2, <2>3, <2>4
    <2>6. AreScanned(g, hits, m)
      BY <2>5 DEF AreScanned
    <2> QED
      BY <2>6
  <1>3. 0 .. n \subseteq S
    BY <1>1, <1>2, Counting
  <1> QED
    BY <1>3

\* Where a sync word is found.
Hits(X) == {p \in 0 .. Len(X) : IsSync(X, p)}

\* They are a frame apart or more, and each hit is followed up or is still to come.
AreKept(hits, kept, m) ==
    /\ kept \subseteq hits
    /\ \A p, q \in kept : p < q => q >= p + 80
    /\ \A h \in hits : \/ \E k \in kept : k <= h /\ h < k + 80
                       \/ h >= 80 * m /\ \A k \in kept : h >= k + 80

\* The next position the scan keeps is at least a frame after the last one.
LEMMA NextSyncKeeps ==
    ASSUME NEW hits, hits \subseteq Nat, NEW kept, NEW m \in Nat, AreKept(hits, kept, m)
    PROVE  AreKept(hits, NextSync(hits, kept), m + 1)
  <1> DEFINE rest == {h \in hits : \A k \in kept : h >= k + 80}
  <1>1. NextSync(hits, kept) = IF rest = {} THEN kept ELSE kept \cup {Min(rest)}
    BY DEF NextSync, FrameBits
  <1>2. /\ kept \subseteq hits
        /\ \A p, q \in kept : p < q => q >= p + 80
        /\ \A h \in hits : \/ \E k \in kept : k <= h /\ h < k + 80
                           \/ h >= 80 * m /\ \A k \in kept : h >= k + 80
    BY DEF AreKept
  <1>3. CASE rest = {}
    BY <1>1, <1>2, <1>3 DEF AreKept
  <1>4. CASE rest # {}
    <2>1. rest \subseteq Nat
      OBVIOUS
    <2> DEFINE a == Min(rest)
    <2>2. a \in rest /\ \A h \in rest : a <= h
      <3>1. \E n \in rest : \A h \in rest : n <= h
        <4> HIDE DEF rest
        <4> QED
          BY <1>4, <2>1, LeastNumber
      <3> HIDE DEF rest
      <3> QED
        BY <3>1 DEF Min
    <2> HIDE DEF a
    <2>3. a \in hits /\ a \in Nat /\ \A k \in kept : a >= k + 80
      BY <2>2
    <2>4. a >= 80 * m
      BY <1>2, <2>3
    <2> DEFINE new == kept \cup {a}
    <2>5. \A p, q \in new : p < q => q >= p + 80
      <3> SUFFICES ASSUME NEW p \in new, NEW q \in new, p < q PROVE q >= p + 80
        OBVIOUS
      <3>1. p \in Nat /\ q \in Nat
        BY <1>2, <2>3
      <3>2. CASE p \in kept /\ q \in kept
        BY <1>2, <3>2
      <3>3. CASE q = a /\ p \in kept
        BY <2>3, <3>3
      <3>4. CASE p = a /\ q \in kept
        BY <2>3, <3>1, <3>4
      <3>5. CASE p = a /\ q = a
        BY <3>1, <3>5
      <3> QED
        BY <3>2, <3>3, <3>4, <3>5
    <2>6. ASSUME NEW h \in hits
          PROVE  \/ \E k \in new : k <= h /\ h < k + 80
                 \/ h >= 80 * (m + 1) /\ \A k \in new : h >= k + 80
      <3>1. CASE \E k \in kept : k <= h /\ h < k + 80
        BY <3>1
      <3>2. CASE h >= 80 * m /\ \A k \in kept : h >= k + 80
        <4>1. h \in rest /\ h \in Nat
          BY <3>2
        <4>2. a <= h
          BY <2>2, <4>1
        <4>3. CASE h < a + 80
          BY <4>2, <4>3
        <4>4. CASE ~(h < a + 80)
          <5>1. h >= 80 * (m + 1) /\ h >= a + 80
            BY <2>3, <2>4, <4>1, <4>4
          <5> QED
            BY <3>2, <5>1
        <4> QED
          BY <4>3, <4>4
      <3> QED
        BY <1>2, <3>1, <3>2
    <2>7. NextSync(hits, kept) = new
      BY <1>1, <1>4 DEF a
    <2>8. new \subseteq hits
      BY <1>2, <2>3
    <2> HIDE DEF new
    <2> QED
      BY <2>5, <2>6, <2>7, <2>8 DEF AreKept
  <1> QED
    BY <1>3, <1>4

\* The scan keeps positions a frame apart, and one within a frame before each hit.
LEMMA ScanKeeps ==
    ASSUME NEW X, Len(X) \in Nat
    PROVE  LET S == SyncPositions(X)
           IN  /\ S \subseteq Hits(X)
               /\ \A p, q \in S : p < q => q >= p + 80
               /\ \A h \in Hits(X) : \E k \in S : k <= h /\ h < k + 80
  <1> DEFINE hits == Hits(X)
             n == Len(X) \div 80 + 1
             f == CHOOSE g : AreScanned(g, hits, n)
             S == {m \in 0 .. n : AreKept(hits, f[m], m)}
  <1>1. hits \subseteq Nat /\ (\A h \in hits : h <= Len(X)) /\ n \in Nat /\ 80 * n > Len(X)
    BY DEF Hits
  <1>2. AreScanned(f, hits, n)
    <2> HIDE DEF hits, n
    <2> QED
      BY <1>1, ScanExists
  <1>3. SyncPositions(X) = f[n]
    BY DEF SyncPositions, Hits, AreScanned, FrameBits
  <1> HIDE DEF f, hits, n
  <1>4. \A m \in 0 .. n : f[m] = IF m = 0 THEN {} ELSE NextSync(hits, f[m - 1])
    BY <1>2 DEF AreScanned
  <1>5. 0 \in S
    <2>1. f[0] = {} /\ \A h \in hits : h >= 80 * 0
      BY <1>1, <1>4
    <2>2. AreKept(hits, f[0], 0)
      BY ONLY <2>1 DEF AreKept
    <2> QED
      BY <1>1, <2>2
  <1>6. ASSUME NEW m \in 1 .. n, m - 1 \in S PROVE m \in S
    <2>1. AreKept(hits, f[m - 1], m - 1) /\ m - 1 \in Nat /\ (m - 1) + 1 = m /\ m \in 0 .. n /\ m # 0
      BY <1>1, <1>6
    <2>2. AreKept(hits, NextSync(hits, f[m - 1]), (m - 1) + 1)
      BY ONLY <1>1, <2>1, NextSyncKeeps
    <2>3. f[m] = NextSync(hits, f[m - 1])
      BY ONLY <1>4, <2>1
    <2> QED
      BY <2>1, <2>2, <2>3
  <1>7. AreKept(hits, f[n], n)
    <2> HIDE DEF S
    <2>1. 0 .. n \subseteq S /\ n \in 0 .. n
      BY <1>1, <1>5, <1>6, Counting
    <2> QED
      BY <2>1 DEF S
  <1>8. ASSUME NEW h \in hits PROVE \E k \in f[n] : k <= h /\ h < k + 80
    <2>1. ~(h >= 80 * n)
      BY <1>1
    <2> QED
      BY <1>7, <2>1 DEF AreKept
  <1> QED
    BY <1>3, <1>7, <1>8 DEF AreKept, hits

\* The sync words of the alignment a.
SyncsAt(S, a) == {p \in S : p >= SyncOffset /\ (p - SyncOffset) % FrameBits = a}

\* The positions of one alignment are as many as Aligned says.
LEMMA SyncsAtFinite ==
    ASSUME NEW S, IsFiniteSet(S), NEW a
    PROVE  /\ IsFiniteSet(SyncsAt(S, a)) /\ Aligned(S, a) = Cardinality(SyncsAt(S, a)) /\ Aligned(S, a) \in Nat
  <1>1. SyncsAt(S, a) \subseteq S
    BY DEF SyncsAt
  <1>2. IsFiniteSet(SyncsAt(S, a))
    BY <1>1, FS_Subset
  <1>3. Aligned(S, a) = Cardinality(SyncsAt(S, a))
    BY DEF Aligned, SyncsAt
  <1> QED
    BY <1>2, <1>3, FS_CardinalityType

\* There is one with the most sync words.
LEMMA Dominates ==
    ASSUME NEW S, IsFiniteSet(S)
    PROVE  LET a == DominantAlignment(S)
           IN  /\ a \in 0 .. 79
               /\ \A b \in 0 .. 79 : Aligned(S, b) < Aligned(S, a) \/ (Aligned(S, b) = Aligned(S, a) /\ b <= a)
  <1> DEFINE Best(a, n) ==
               \A b \in 0 .. n : Aligned(S, b) < Aligned(S, a) \/ (Aligned(S, b) = Aligned(S, a) /\ b <= a)
             R == {n \in 0 .. 79 : \E a \in 0 .. n : Best(a, n)}
  <1>1. \A a : Aligned(S, a) \in Nat
    BY SyncsAtFinite
  <1>2. 0 \in R
    <2>1. 0 \in 0 .. 79 /\ 0 \in 0 .. 0 /\ \A b \in 0 .. 0 : b = 0 /\ b <= 0
      OBVIOUS
    <2> QED
      BY <2>1
  <1>3. ASSUME NEW n \in 1 .. 79, n - 1 \in R PROVE n \in R
    <2>1. PICK a \in 0 .. n - 1 : Best(a, n - 1)
      BY <1>3
    <2>2. \A b \in 0 .. n : b = n \/ b \in 0 .. n - 1
      OBVIOUS
    <2>3. Aligned(S, n) \in Nat /\ Aligned(S, a) \in Nat /\ \A b \in 0 .. n - 1 : Aligned(S, b) \in Nat
      BY <1>1
    <2>4. CASE Aligned(S, n) >= Aligned(S, a)
      <3>1. \A b \in 0 .. n - 1 : b <= n
        OBVIOUS
      <3>2. Best(n, n)
        BY <2>1, <2>2, <2>3, <2>4, <3>1
      <3> QED
        BY <3>2
    <2>5. CASE ~(Aligned(S, n) >= Aligned(S, a))
      <3>1. Best(a, n)
        BY <2>1, <2>2, <2>3, <2>5
      <3> QED
        BY <3>1
    <2> QED
      BY <2>4, <2>5
  <1>4. 79 \in R
    <2> HIDE DEF R
    <2>1. 79 \in Nat /\ 79 \in 0 .. 79
      OBVIOUS
    <2>2. 0 .. 79 \subseteq R
      BY ONLY <1>2, <1>3, <2>1, Counting
    <2> QED
      BY <2>1, <2>2
  <1>5. \E a \in 0 .. 79 : Best(a, 79)
    BY <1>4
  <1>6. DominantAlignment(S) = CHOOSE a \in 0 .. 79 : Best(a, 79)
    BY DEF DominantAlignment, FrameBits
  <1> QED
    BY <1>5, <1>6

\* Two of one alignment are enough to find two.
LEMMA TwoOfMany ==
    ASSUME NEW S, IsFiniteSet(S), Cardinality(S) >= 2, NEW x
    PROVE  \E y \in S : y # x
  <1> SUFFICES ASSUME S \subseteq {x} PROVE FALSE
    OBVIOUS
  <1>1. IsFiniteSet({x}) /\ Cardinality({x}) = 1
    BY FS_Singleton
  <1>2. Cardinality(S) <= 1 /\ Cardinality(S) \in Nat
    BY <1>1, FS_Subset, FS_CardinalityType
  <1> QED
    BY <1>2

\* The sync words of a chain are all there and have one alignment.
LEMMA ChainIsAligned ==
    ASSUME NEW S, S \subseteq Nat, \A p, q \in S : p < q => q >= p + 80,
           NEW p \in S, NEW q \in ChainFrom(S, p)
    PROVE  \E m \in Nat : q = p + 80 * m /\ \A i \in 0 .. m : p + 80 * i \in S
  <1>1. /\ p \in Nat /\ q \in Nat /\ q \in S /\ q >= p
        /\ \A r \in p .. q : (r - p) % 80 = 0 => r \in S
    BY DEF ChainFrom, FrameBits
  <1> DEFINE m == (q - p) \div 80
             a == p + 80 * m
  <1>2. m \in Nat /\ a \in p .. q /\ a \in Nat /\ (a - p) % 80 = 0 /\ q < a + 80
    BY <1>1
  <1>3. a \in S /\ a = q
    BY <1>1, <1>2
  <1>4. \A i \in 0 .. m : p + 80 * i \in p .. q /\ (p + 80 * i - p) % 80 = 0
    <2> HIDE DEF m
    <2>1. q = p + 80 * m /\ m \in Nat
      BY <1>2, <1>3
    <2> QED
      BY <1>1, <2>1
  <1>5. \A i \in 0 .. m : p + 80 * i \in S
    BY <1>1, <1>4
  <1> QED
    BY <1>2, <1>3, <1>5

\* Two of the members are never less than a frame apart.
AreApart(S) == S \subseteq Nat /\ \A p, q \in S : p < q => q >= p + 80

\* A chain goes on by whole frames.
LEMMA ChainSteps ==
    ASSUME NEW S, AreApart(S), NEW p \in S
    PROVE  \A q \in ChainFrom(S, p) : \E m \in Nat : q = p + 80 * m
  <1> SUFFICES ASSUME NEW q \in ChainFrom(S, p) PROVE \E m \in Nat : q = p + 80 * m
    OBVIOUS
  <1>1. S \subseteq Nat /\ \A r, t \in S : r < t => t >= r + 80
    BY DEF AreApart
  <1>2. \E m \in Nat : q = p + 80 * m /\ \A i \in 0 .. m : p + 80 * i \in S
    BY <1>1, ChainIsAligned
  <1> QED
    BY <1>2

\* In a chain that is accepted there is another one, some frames away.
LEMMA ChainHasAnother ==
    ASSUME NEW S, IsFiniteSet(S), AreApart(S),
           NEW p \in S, NEW q \in ChainFrom(S, p), Cardinality(ChainFrom(S, p)) >= 5
    PROVE  \E r \in ChainFrom(S, p) : \E m \in Int : r = q + 80 * m /\ m # 0 /\ r \in S
  <1> DEFINE C == ChainFrom(S, p)
  <1>1. C \subseteq S
    BY DEF ChainFrom
  <1>2. IsFiniteSet(C)
    BY <1>1, FS_Subset
  <1>3. Cardinality(C) >= 2
    BY <1>2, FS_CardinalityType
  <1>4. p \in Nat
    BY DEF AreApart
  <1>5. \A t \in C : \E m \in Nat : t = p + 80 * m
    BY ChainSteps
  <1>6. q \in C
    OBVIOUS
  <1> HIDE DEF C
  <1>7. PICK r \in C : r # q
    BY <1>2, <1>3, TwoOfMany
  <1>8. PICK i \in Nat : q = p + 80 * i
    BY <1>5, <1>6
  <1>9. PICK j \in Nat : r = p + 80 * j
    BY <1>5, <1>7
  <1>10. j - i \in Int /\ j - i # 0 /\ r = q + 80 * (j - i)
    BY ONLY <1>4, <1>7, <1>8, <1>9, i \in Nat, j \in Nat
  <1>11. r \in S
    BY <1>1, <1>7
  <1>12. \E m \in Int : r = q + 80 * m /\ m # 0 /\ r \in S
    BY ONLY <1>10, <1>11
  <1> QED
    BY <1>7, <1>12 DEF C

\* A start that a chain adds is that of a sync word in a chain that is accepted.
LEMMA ChainStartsFacts ==
    ASSUME NEW X, NEW S, NEW s \in ChainStarts(X, S)
    PROVE  \E p \in S : \E q \in ChainFrom(S, p) :
             /\ s = q - 64 /\ q >= 64 /\ q \in S /\ p - 80 \notin S
             /\ Accepted(X, ChainFrom(S, p)) /\ Cardinality(ChainFrom(S, p)) >= 5
  <1> DEFINE heads == {p \in S : p - FrameBits \notin S}
             chains == {ChainFrom(S, p) : p \in heads}
  <1>1. PICK q \in UNION {c \in chains : Accepted(X, c)} : s = q - 64 /\ q >= 64
    BY DEF ChainStarts, SyncOffset
  <1>2. PICK c \in chains : Accepted(X, c) /\ q \in c
    BY <1>1
  <1>3. PICK p \in heads : c = ChainFrom(S, p)
    BY <1>2
  <1>4. p \in S /\ p - 80 \notin S
    BY <1>3 DEF FrameBits
  <1>5. q \in S
    BY <1>2, <1>3 DEF ChainFrom
  <1>6. Cardinality(ChainFrom(S, p)) >= 5
    BY <1>2, <1>3 DEF Accepted, MinChain
  <1> QED
    BY <1>1, <1>2, <1>3, <1>4, <1>5, <1>6

\* The other way round.
LEMMA ChainStartsHas ==
    ASSUME NEW X, NEW S, NEW p \in S, p - 80 \notin S, NEW q \in ChainFrom(S, p), q >= 64,
           Accepted(X, ChainFrom(S, p))
    PROVE  q - 64 \in ChainStarts(X, S)
  <1> DEFINE heads == {r \in S : r - FrameBits \notin S}
             chains == {ChainFrom(S, r) : r \in heads}
  <1>1. p \in heads
    BY DEF FrameBits
  <1>2. ChainFrom(S, p) \in {c \in chains : Accepted(X, c)}
    BY <1>1
  <1>3. q \in UNION {c \in chains : Accepted(X, c)}
    BY <1>2
  <1> QED
    BY <1>3 DEF ChainStarts, SyncOffset

-----------------------------------------------------------------------------
(* The starts of frames.                                                   *)

\* A sync word is where the scan can find it.
IsHit(X, p) == p \in Nat /\ p + 16 <= Len(X) /\ IsSync(X, p)

\* What the scan keeps: sync words that are not near each other, one for each there is.
LEMMA KeptFacts ==
    ASSUME NEW X, Len(X) \in Nat
    PROVE  LET S == SyncPositions(X)
           IN  /\ IsFiniteSet(S) /\ AreApart(S) /\ \A p \in S : IsHit(X, p)
               /\ \A h : IsHit(X, h) => \E k \in S : k <= h /\ h < k + 80
  <1> DEFINE S == SyncPositions(X)
  <1>1. /\ S \subseteq Hits(X)
        /\ \A p, q \in S : p < q => q >= p + 80
        /\ \A h \in Hits(X) : \E k \in S : k <= h /\ h < k + 80
    BY ScanKeeps
  <1> HIDE DEF S
  <1>2. Hits(X) \subseteq 0 .. Len(X) /\ \A p \in Hits(X) : IsHit(X, p)
    BY DEF Hits, IsHit, IsSync
  <1>3. \A p : IsHit(X, p) => p \in Hits(X)
    BY DEF Hits, IsHit
  <1>4. IsFiniteSet(0 .. Len(X))
    <2>1. 0 \in Int /\ Len(X) \in Int
      OBVIOUS
    <2> QED
      BY <2>1, FS_Interval, Zenon
  <1>5. IsFiniteSet(S)
    BY <1>1, <1>2, <1>4, FS_Subset
  <1>6. AreApart(S)
    BY <1>1, <1>2 DEF AreApart
  <1> QED
    BY <1>1, <1>2, <1>3, <1>5, <1>6 DEF S

\* The starts the grid has: the sync words of its alignment.
LEMMA GridFacts ==
    ASSUME NEW X, Len(X) \in Nat, NEW a
    PROVE  /\ \A s \in GridStarts(X, a) : s \in Nat /\ s % 80 = a /\ IsHit(X, s + 64)
           /\ \A s \in Nat : s % 80 = a /\ IsHit(X, s + 64) => s \in GridStarts(X, a)
  <1>1. \A s \in GridStarts(X, a) : s \in Nat /\ s % 80 = a /\ IsHit(X, s + 64)
    BY DEF GridStarts, FrameBits, SyncOffset, IsHit, IsSync
  <1>2. ASSUME NEW s \in Nat, s % 80 = a, IsHit(X, s + 64)
        PROVE  s \in GridStarts(X, a)
    <2>1. s + 64 + 16 <= Len(X) /\ IsSync(X, s + 64)
      BY <1>2 DEF IsHit
    <2>2. s \in 0 .. Len(X) - 80
      BY <2>1
    <2> QED
      BY <1>2, <2>1, <2>2 DEF GridStarts, FrameBits, SyncOffset
  <1> QED
    BY <1>1, <1>2

\* A set in which all are the same.
LEMMA OneIsFew ==
    ASSUME NEW S, \A p, q \in S : p = q
    PROVE  IsFiniteSet(S) /\ Cardinality(S) \in Nat /\ Cardinality(S) <= 1
  <1>1. CASE S = {}
    BY <1>1, FS_EmptySet
  <1>2. CASE S # {}
    <2>1. PICK x : S = {x}
      BY <1>2
    <2> QED
      BY <2>1, FS_Singleton
  <1> QED
    BY <1>1, <1>2

\* A set of two.
LEMMA TwoAreMany ==
    ASSUME NEW S, IsFiniteSet(S), NEW p \in S, NEW q \in S, p # q
    PROVE  Cardinality(S) \in Nat /\ Cardinality(S) >= 2
  <1>1. Cardinality({p, q}) = 2
    <2>1. IsFiniteSet({p}) /\ Cardinality({p}) = 1 /\ q \notin {p} /\ {p, q} = {p} \cup {q}
      BY FS_Singleton
    <2> QED
      BY <2>1, FS_AddElement
  <1>2. {p, q} \subseteq S
    OBVIOUS
  <1>3. Cardinality({p, q}) <= Cardinality(S) /\ Cardinality(S) \in Nat
    BY <1>2, FS_Subset, FS_CardinalityType
  <1> QED
    BY <1>1, <1>3

\* The dominant alignment has a sync word if there is one, and two if one has two.
LEMMA DominantHasOne ==
    ASSUME NEW S, IsFiniteSet(S), NEW p \in S, p \in Nat, p >= 64
    PROVE  \E q \in S : q >= 64 /\ (q - 64) % 80 = DominantAlignment(S)
  <1> DEFINE a == DominantAlignment(S)
             e == (p - 64) % 80
  <1>1. e \in 0 .. 79 /\ p \in SyncsAt(S, e)
    BY DEF SyncsAt, SyncOffset, FrameBits
  <1>2. Aligned(S, e) = Cardinality(SyncsAt(S, e)) /\ Aligned(S, a) = Cardinality(SyncsAt(S, a))
        /\ Aligned(S, e) \in Nat /\ Aligned(S, a) \in Nat /\ IsFiniteSet(SyncsAt(S, e))
    BY SyncsAtFinite
  <1>3. Aligned(S, e) # 0
    <2> HIDE DEF e
    <2> QED
      BY <1>1, <1>2, FS_EmptySet
  <1>4. Aligned(S, e) < Aligned(S, a) \/ Aligned(S, e) = Aligned(S, a)
    <2> HIDE DEF e
    <2> QED
      BY <1>1, Dominates
  <1>5. Aligned(S, a) # 0
    <2> HIDE DEF a, e
    <2> QED
      BY <1>2, <1>3, <1>4
  <1>6. SyncsAt(S, a) # {}
    BY <1>2, <1>5, FS_EmptySet
  <1> QED
    BY <1>6 DEF SyncsAt, SyncOffset, FrameBits

\* When an alignment has two sync words, so has the dominant one.
LEMMA DominantHasTwo ==
    ASSUME NEW S, IsFiniteSet(S), NEW p \in S, NEW q \in S, p \in Nat, q \in Nat, p # q,
           p >= 64, q >= 64, (p - 64) % 80 = (q - 64) % 80
    PROVE  \E r, t \in S : /\ r # t /\ r >= 64 /\ t >= 64
                           /\ (r - 64) % 80 = DominantAlignment(S) /\ (t - 64) % 80 = DominantAlignment(S)
  <1> DEFINE a == DominantAlignment(S)
             e == (p - 64) % 80
  <1>1. e \in 0 .. 79 /\ p \in SyncsAt(S, e) /\ q \in SyncsAt(S, e)
    BY DEF SyncsAt, SyncOffset, FrameBits
  <1>2. Aligned(S, e) = Cardinality(SyncsAt(S, e)) /\ Aligned(S, a) = Cardinality(SyncsAt(S, a))
        /\ Aligned(S, e) \in Nat /\ Aligned(S, a) \in Nat
        /\ IsFiniteSet(SyncsAt(S, e)) /\ IsFiniteSet(SyncsAt(S, a))
    BY SyncsAtFinite
  <1>3. Aligned(S, e) >= 2
    <2> HIDE DEF e
    <2> QED
      BY <1>1, <1>2, TwoAreMany
  <1>4. Aligned(S, e) < Aligned(S, a) \/ Aligned(S, e) = Aligned(S, a)
    <2> HIDE DEF e
    <2> QED
      BY <1>1, Dominates
  <1>5. Cardinality(SyncsAt(S, a)) >= 2
    <2> HIDE DEF a, e
    <2> QED
      BY <1>2, <1>3, <1>4
  <1>6. \A x : \E y \in SyncsAt(S, a) : y # x
    <2> HIDE DEF a
    <2> QED
      BY <1>2, <1>5, TwoOfMany
  <1>7. PICK r \in SyncsAt(S, a) : r # -1
    BY <1>6
  <1>8. PICK t \in SyncsAt(S, a) : t # r
    BY <1>6
  <1> QED
    BY <1>7, <1>8 DEF SyncsAt, SyncOffset, FrameBits

\* Where the grid has all that the chains have, the starts are those of the grid.
LEMMA GridIsAll ==
    ASSUME NEW X, NEW H, \E p \in SyncPositions(X) : p \in Nat /\ p >= 64,
           GridStarts(X, DominantAlignment(SyncPositions(X))) = H,
           ChainStarts(X, SyncPositions(X)) \subseteq H,
           H \subseteq Nat
    PROVE  FrameStarts(X) = H
  <1> DEFINE S == SyncPositions(X)
             C == ChainStarts(X, S)
  <1>1. ~(\A p \in S : p < SyncOffset)
    BY DEF SyncOffset
  <1>2. FrameStarts(X) = Merged(H, C)
    BY <1>1 DEF FrameStarts
  <1>3. C \subseteq H /\ Merged(H, C) \subseteq H \cup C /\ H \subseteq Merged(H, C)
    BY DEF Merged
  <1> QED
    BY <1>2, <1>3

\* The frames of an aligned recording that are there.
StartsOf(c, N) == {s \in Nat : s + 80 <= N /\ \E k \in 1 .. Frames : s + c = 80 * k}

\* Some sync words that are a frame apart have the same alignment.
LEMMA SameAlignment ==
    ASSUME NEW x \in Nat, NEW y \in Nat, NEW i \in Nat, NEW j \in Nat, NEW c \in Nat,
           x + c = 80 * i, y + c = 80 * j
    PROVE  x % 80 = y % 80
  <1>1. x = y + 80 * (i - j) /\ i - j \in Int
    OBVIOUS
  <1> DEFINE m == i - j
  <1> HIDE DEF m
  <1>2. x = y + 80 * m /\ m \in Int
    BY <1>1 DEF m
  <1> QED
    BY ONLY <1>2, x \in Nat, y \in Nat

\* The hits of an aligned recording: the sync words of its frames, and what the
\* wrong bit may make.
LEMMA AlignedIsHit ==
    ASSUME NEW T, IsSent(T), NEW X, NEW c \in Nat, NEW b \in Nat, NEW N, AlignedTo(X, T, c, b, N),
           N + c <= Length + 1
    PROVE  /\ N \in Nat /\ Len(X) = N
           /\ \A p : IsHit(X, p) => (\E k \in 1 .. Frames : p + c = 80 * k + 64) \/ (b # 0 /\ p < b /\ b <= p + 16)
           /\ \A p \in Nat : p + 16 <= N /\ (\E k \in 1 .. Frames : p + c = 80 * k + 64) => IsHit(X, p)
  <1>1. N \in Nat /\ Len(X) = N
    BY DEF AlignedTo
  <1>2. ASSUME NEW p, IsHit(X, p)
        PROVE  (\E k \in 1 .. Frames : p + c = 80 * k + 64) \/ (b # 0 /\ p < b /\ b <= p + 16)
    <2>1. p \in Nat /\ p + 16 <= N /\ IsSync(X, p)
      BY <1>1, <1>2 DEF IsHit
    <2> QED
      BY <2>1, AlignedHits
  <1>3. ASSUME NEW p \in Nat, p + 16 <= N, NEW k \in 1 .. Frames, p + c = 80 * k + 64
        PROVE  IsHit(X, p)
    <2>1. IsSync(X, p)
      BY <1>3, AlignedSyncs
    <2> QED
      BY <1>1, <1>3, <2>1 DEF IsHit
  <1> QED
    BY <1>1, <1>2, <1>3

\* No bit is wrong: the frames that are there are found.
LEMMA CleanStarts ==
    ASSUME NEW T, IsSent(T), NEW X, NEW c \in Nat, NEW N, AlignedTo(X, T, c, 0, N),
           N + c <= Length + 1, N + c >= 80 * Frames, c <= 160
    PROVE  FrameStarts(X) = StartsOf(c, N)
  <1> DEFINE S == SyncPositions(X)
             a == DominantAlignment(S)
             H == StartsOf(c, N)
  <1>1. /\ N \in Nat /\ Len(X) = N
        /\ \A p : IsHit(X, p) => \E k \in 1 .. Frames : p + c = 80 * k + 64
        /\ \A p \in Nat : p + 16 <= N /\ (\E k \in 1 .. Frames : p + c = 80 * k + 64) => IsHit(X, p)
    BY AlignedIsHit
  <1>2. /\ IsFiniteSet(S) /\ AreApart(S) /\ \A p \in S : IsHit(X, p)
        /\ \A h : IsHit(X, h) => \E k \in S : k <= h /\ h < k + 80
    BY <1>1, KeptFacts
  <1>3. \A p : IsHit(X, p) => p \in Nat /\ p + 16 <= N
    BY <1>1 DEF IsHit
  <1>4. /\ \A s \in GridStarts(X, a) : s \in Nat /\ s % 80 = a /\ IsHit(X, s + 64)
        /\ \A s \in Nat : s % 80 = a /\ IsHit(X, s + 64) => s \in GridStarts(X, a)
    BY <1>1, GridFacts
  <1>5. Frames \in Nat /\ Frames >= 3
    BY FramesAssumption
  <1>6. \E p \in S : p \in Nat /\ p >= 64
    <2>1. 224 - c \in Nat /\ 224 - c >= 64 /\ (224 - c) + 16 <= N /\ (224 - c) + c = 80 * 2 + 64
          /\ 2 \in 1 .. Frames
      BY <1>1, <1>5
    <2>2. IsHit(X, 224 - c)
      BY <1>1, <2>1
    <2>3. PICK p \in S : p <= 224 - c /\ 224 - c < p + 80
      BY <1>2, <2>2
    <2>4. p \in Nat /\ \E k \in 1 .. Frames : p + c = 80 * k + 64
      BY <1>1, <1>2, <1>3
    <2>5. p >= 64
      BY <2>1, <2>3, <2>4
    <2> QED
      BY <2>4, <2>5
  <1> HIDE DEF S
  <1>7. PICK q \in S : q >= 64 /\ (q - 64) % 80 = a
    BY <1>2, <1>6, DominantHasOne
  <1>8. PICK j \in 1 .. Frames : q + c = 80 * j + 64
    BY <1>1, <1>2
  <1>9. q - 64 \in Nat /\ (q - 64) + c = 80 * j /\ j \in Nat
    BY <1>2, <1>3, <1>7, <1>8
  <1>10. \A s \in Nat : s + 80 <= N /\ (\E k \in 1 .. Frames : s + c = 80 * k) <=> IsHit(X, s + 64)
    <2>1. ASSUME NEW s \in Nat, s + 80 <= N, NEW k \in 1 .. Frames, s + c = 80 * k
          PROVE  IsHit(X, s + 64)
      <3>1. s + 64 \in Nat /\ (s + 64) + 16 <= N /\ (s + 64) + c = 80 * k + 64
        BY <1>1, <2>1
      <3> QED
        BY <1>1, <3>1
    <2>2. ASSUME NEW s \in Nat, IsHit(X, s + 64)
          PROVE  s + 80 <= N /\ \E k \in 1 .. Frames : s + c = 80 * k
      <3>1. s + 64 + 16 <= N
        BY <1>3, <2>2
      <3>2. PICK k \in 1 .. Frames : (s + 64) + c = 80 * k + 64
        BY <1>1, <2>2
      <3>3. s + c = 80 * k /\ s + 80 <= N
        BY <1>1, <3>1, <3>2
      <3> QED
        BY <3>3
    <2> QED
      BY <2>1, <2>2
  <1>11. \A s : s \in H <=> s \in Nat /\ IsHit(X, s + 64)
    BY <1>10 DEF StartsOf
  <1>12. GridStarts(X, a) = H
    <2>1. ASSUME NEW s \in H PROVE s \in GridStarts(X, a)
      <3>1. s \in Nat /\ \E k \in 1 .. Frames : s + c = 80 * k
        BY DEF StartsOf
      <3>2. s % 80 = (q - 64) % 80
        BY <1>9, <3>1, SameAlignment
      <3> QED
        BY <1>4, <1>7, <1>11, <3>1, <3>2
    <2> QED
      BY <1>4, <1>11, <2>1
  <1>13. ChainStarts(X, S) \subseteq H
    <2>1. ASSUME NEW s \in ChainStarts(X, S) PROVE s \in H
      <3>1. PICK r \in S : s = r - 64 /\ r >= 64
        BY ChainStartsFacts
      <3>2. r \in Nat /\ IsHit(X, r)
        BY <1>2, <1>3
      <3>3. s \in Nat /\ s + 64 = r
        BY <3>1, <3>2
      <3> QED
        BY <1>11, <3>2, <3>3
    <2> QED
      BY <2>1
  <1>14. H \subseteq Nat
    BY DEF StartsOf
  <1> HIDE DEF H
  <1>15. FrameStarts(X) = H
    BY <1>6, <1>12, <1>13, <1>14, GridIsAll DEF S
  <1> QED
    BY <1>15 DEF H

\* Where a sync word has the bit b.
IsNear(p, b) == p < b /\ b <= p + 16

\* Of those no two are a frame apart.
LEMMA NearOnes ==
    ASSUME NEW S, AreApart(S), NEW b \in Nat, NEW p \in S, NEW q \in S, IsNear(p, b), IsNear(q, b)
    PROVE  p = q
  <1>1. p \in Nat /\ q \in Nat /\ (p < q => q >= p + 80) /\ (q < p => p >= q + 80)
    BY DEF AreApart
  <1>2. p < b /\ b <= p + 16 /\ q < b /\ b <= q + 16
    BY DEF IsNear
  <1> QED
    BY <1>1, <1>2

\* One bit is wrong: at most one sync word is not kept, so the frames are found all the same.
LEMMA WrongBitStarts ==
    ASSUME NEW T, IsSent(T), NEW X, NEW b \in Nat, b >= 81, AlignedTo(X, T, 0, b, Length)
    PROVE  FrameStarts(X) = StartsOf(0, Length)
  <1> DEFINE S == SyncPositions(X)
             a == DominantAlignment(S)
             H == StartsOf(0, Length)
             IsTrue(p) == \E k \in 1 .. Frames : p = 80 * k + 64
  <1>1. Length \in Nat /\ Length = 80 * (Frames + 1) /\ Frames \in Nat /\ Frames >= 3
    BY LengthIsNat, FramesAssumption
  <1>2. /\ Len(X) = Length
        /\ \A p : IsHit(X, p) => p \in Nat /\ p + 16 <= Length /\ (IsTrue(p) \/ IsNear(p, b))
        /\ \A p : IsTrue(p) => p \in Nat /\ IsHit(X, p)
    <2>1. /\ Len(X) = Length
          /\ \A p : IsHit(X, p) => (\E k \in 1 .. Frames : p + 0 = 80 * k + 64) \/ (b # 0 /\ p < b /\ b <= p + 16)
          /\ \A p \in Nat : p + 16 <= Length /\ (\E k \in 1 .. Frames : p + 0 = 80 * k + 64) => IsHit(X, p)
      <3>1. 0 \in Nat /\ Length + 0 <= Length + 1
        BY <1>1
      <3> QED
        BY SMT, <3>1, AlignedIsHit
    <2>2. \A p : IsHit(X, p) => p \in Nat /\ p + 16 <= Length
      BY <2>1 DEF IsHit
    <2>3. ASSUME NEW k \in 1 .. Frames PROVE 80 * k + 64 \in Nat /\ IsHit(X, 80 * k + 64)
      <3>1. 80 * k + 64 \in Nat /\ (80 * k + 64) + 16 <= Length /\ (80 * k + 64) + 0 = 80 * k + 64
        BY <1>1
      <3> QED
        BY <2>1, <3>1
    <2>4. ASSUME NEW p, IsHit(X, p) PROVE IsTrue(p) \/ IsNear(p, b)
      BY <2>1, <2>2, <2>4 DEF IsNear
    <2> QED
      BY <2>1, <2>2, <2>3, <2>4
  <1>3. /\ IsFiniteSet(S) /\ AreApart(S) /\ \A p \in S : IsHit(X, p)
        /\ \A h : IsHit(X, h) => \E k \in S : k <= h /\ h < k + 80
    BY <1>1, <1>2, KeptFacts
  <1>4. /\ \A s \in GridStarts(X, a) : s \in Nat /\ s % 80 = a /\ IsHit(X, s + 64)
        /\ \A s \in Nat : s % 80 = a /\ IsHit(X, s + 64) => s \in GridStarts(X, a)
    <2>1. Len(X) \in Nat
      BY <1>1, <1>2
    <2> QED
      BY <2>1, GridFacts, Zenon
  <1> HIDE DEF S
  <1>5. \A p, q \in S : IsNear(p, b) /\ IsNear(q, b) => p = q
    BY <1>3, NearOnes
  <1>6. ASSUME NEW k \in 1 .. Frames
        PROVE  80 * k + 64 \in S \/ \E z \in S : z \in Nat /\ IsNear(z, b) /\ 80 * k - 16 < z /\ z < 80 * k + 64
    <2>1. IsHit(X, 80 * k + 64)
      BY <1>2
    <2>2. PICK z \in S : z <= 80 * k + 64 /\ 80 * k + 64 < z + 80
      BY <1>3, <2>1
    <2>3. z \in Nat /\ (IsTrue(z) \/ IsNear(z, b))
      BY <1>2, <1>3
    <2>4. CASE z = 80 * k + 64
      BY <2>4
    <2>5. CASE z # 80 * k + 64
      <3>1. ~IsTrue(z)
        BY <2>2, <2>5
      <3>2. 80 * k - 16 < z /\ z < 80 * k + 64
        BY <2>2, <2>3, <2>5
      <3> QED
        BY <2>3, <3>1, <3>2
    <2> QED
      BY <2>4, <2>5
  <1>7. ASSUME NEW j \in 1 .. Frames, NEW k \in 1 .. Frames, j < k
        PROVE  80 * j + 64 \in S \/ 80 * k + 64 \in S
    <2>1. SUFFICES ASSUME 80 * j + 64 \notin S, 80 * k + 64 \notin S PROVE FALSE
      OBVIOUS
    <2>2. PICK y \in S : y \in Nat /\ IsNear(y, b) /\ 80 * j - 16 < y /\ y < 80 * j + 64
      BY <1>6, <2>1
    <2>3. PICK z \in S : z \in Nat /\ IsNear(z, b) /\ 80 * k - 16 < z /\ z < 80 * k + 64
      BY <1>6, <2>1
    <2>4. y = z
      BY <1>5, <2>2, <2>3
    <2> QED
      BY <1>7, <2>2, <2>3, <2>4
  <1>8. \E p, q \in S : p # q /\ IsTrue(p) /\ IsTrue(q)
    <2>1. 1 \in 1 .. Frames /\ 2 \in 1 .. Frames /\ 3 \in 1 .. Frames /\ 1 < 2 /\ 1 < 3 /\ 2 < 3
      BY <1>1
    <2>2. /\ 80 * 1 + 64 \in S \/ 80 * 2 + 64 \in S
          /\ 80 * 1 + 64 \in S \/ 80 * 3 + 64 \in S
          /\ 80 * 2 + 64 \in S \/ 80 * 3 + 64 \in S
      BY ONLY <1>7, <2>1, Zenon
    <2>3. IsTrue(80 * 1 + 64) /\ IsTrue(80 * 2 + 64) /\ IsTrue(80 * 3 + 64)
      BY <2>1
    <2>4. 80 * 1 + 64 # 80 * 2 + 64 /\ 80 * 1 + 64 # 80 * 3 + 64 /\ 80 * 2 + 64 # 80 * 3 + 64
      OBVIOUS
    <2> HIDE DEF IsTrue
    <2> QED
      BY ONLY <2>2, <2>3, <2>4, Zenon
  <1>9. \A p : IsTrue(p) => p \in Nat /\ p >= 64 /\ (p - 64) % 80 = 0
    <2>1. ASSUME NEW k \in 1 .. Frames PROVE LET p == 80 * k + 64 IN p \in Nat /\ p >= 64 /\ (p - 64) % 80 = 0
      OBVIOUS
    <2> QED
      BY <2>1
  <1>10. a = 0
    <2>1. PICK p, q \in S : p # q /\ IsTrue(p) /\ IsTrue(q)
      BY <1>8
    <2>2. p \in Nat /\ q \in Nat /\ p >= 64 /\ q >= 64 /\ (p - 64) % 80 = (q - 64) % 80
      BY <1>9, <2>1
    <2> HIDE DEF IsTrue
    <2>3. PICK r, t \in S : r # t /\ r >= 64 /\ t >= 64 /\ (r - 64) % 80 = a /\ (t - 64) % 80 = a
      <3>1. \E r, t \in S : /\ r # t /\ r >= 64 /\ t >= 64
                             /\ (r - 64) % 80 = DominantAlignment(S) /\ (t - 64) % 80 = DominantAlignment(S)
        <4>1. p \in S /\ q \in S /\ p # q
          BY <2>1
        <4> HIDE DEF S
        <4> QED
          BY ONLY <1>3, <2>2, <4>1, DominantHasTwo, Zenon
      <3> QED
        BY ONLY <3>1, Zenon
    <2>4. (IsTrue(r) \/ IsNear(r, b)) /\ (IsTrue(t) \/ IsNear(t, b))
      BY <1>2, <1>3
    <2>5. IsTrue(r) \/ IsTrue(t)
      BY <1>5, <2>3, <2>4
    <2> QED
      BY <1>9, <2>3, <2>5
  <1>11. \A s \in Nat : IsTrue(s + 64) => s \in H /\ s % 80 = 0
    <2>1. ASSUME NEW s \in Nat, NEW k \in 1 .. Frames, s + 64 = 80 * k + 64 PROVE s \in H /\ s % 80 = 0
      <3>1. s = 80 * k /\ s + 80 <= Length /\ s + 0 = 80 * k
        BY <1>1, <2>1
      <3> QED
        BY <3>1 DEF StartsOf
    <2> QED
      BY <2>1
  <1>12. ASSUME NEW s \in H PROVE s \in GridStarts(X, a)
    <2>1. s \in Nat /\ \E k \in 1 .. Frames : s + 0 = 80 * k
      BY DEF StartsOf
    <2>2. s % 80 = 0 /\ IsTrue(s + 64)
      BY <2>1
    <2> QED
      BY <1>2, <1>4, <1>10, <2>1, <2>2
  <1>13. ASSUME NEW s \in GridStarts(X, a) PROVE s \in H
    <2>1. s \in Nat /\ s % 80 = 0 /\ IsHit(X, s + 64)
      BY <1>4, <1>10
    <2>2. CASE IsTrue(s + 64)
      BY <1>11, <2>1, <2>2
    <2>3. CASE IsNear(s + 64, b)
      <3>1. s >= 1 /\ s + 80 <= 80 * (Frames + 1)
        <4>1. s + 64 + 16 <= Length /\ b <= s + 64 + 16
          BY <1>2, <2>1, <2>3 DEF IsNear
        <4> QED
          BY <1>1, <2>1, <4>1
      <3> DEFINE k == s \div 80
      <3>2. s = 80 * k /\ k \in Nat
        BY <2>1
      <3> HIDE DEF k
      <3>3. k \in 1 .. Frames /\ s + 64 = 80 * k + 64
        BY <1>1, <3>1, <3>2
      <3>4. IsTrue(s + 64)
        BY <3>3
      <3> QED
        BY <1>11, <2>1, <3>4
    <2> QED
      BY <1>2, <2>1, <2>2, <2>3
  <1>14. ASSUME NEW s \in ChainStarts(X, S) PROVE s \in H
    <2>1. PICK p \in S : \E q \in ChainFrom(S, p) :
            s = q - 64 /\ q >= 64 /\ q \in S /\ Cardinality(ChainFrom(S, p)) >= 5
      BY ChainStartsFacts
    <2>2. PICK q \in ChainFrom(S, p) :
            s = q - 64 /\ q >= 64 /\ q \in S /\ Cardinality(ChainFrom(S, p)) >= 5
      BY <2>1
    <2>3. PICK r \in S : \E m \in Int : r = q + 80 * m /\ m # 0
      BY <1>3, <2>2, ChainHasAnother
    <2>4. PICK m \in Int : r = q + 80 * m /\ m # 0
      BY <2>3
    <2>5. (IsTrue(q) \/ IsNear(q, b)) /\ (IsTrue(r) \/ IsNear(r, b)) /\ q \in Nat /\ r \in Nat
          /\ q + 16 <= Length
      BY <1>2, <1>3, <2>2
    <2>6. q # r
      BY <2>4, <2>5
    <2>7. IsTrue(q)
      <3>1. CASE IsTrue(r)
        <4>1. PICK j \in 1 .. Frames : r = 80 * j + 64
          BY <3>1
        <4> DEFINE k == j - m
        <4>2. q = 80 * k + 64 /\ k \in Int
          BY <2>4, <2>5, <4>1
        <4> HIDE DEF k
        <4>3. CASE IsNear(q, b)
          <5>1. q > 64
            BY <2>5, <4>3 DEF IsNear
          <5>2. k \in 1 .. Frames
            BY ONLY <1>1, <2>5, <4>2, <5>1
          <5> QED
            BY <4>2, <5>2
        <4> QED
          BY <2>5, <4>3
      <3>2. CASE IsNear(r, b)
        <4> HIDE DEF IsTrue
        <4> QED
          BY <1>5, <2>2, <2>5, <2>6, <3>2
      <3> QED
        BY <2>5, <3>1, <3>2
    <2>8. s \in Nat /\ s + 64 = q
      BY <2>2, <2>5
    <2> HIDE DEF IsTrue, H
    <2> QED
      BY <1>11, <2>7, <2>8
  <1>15. GridStarts(X, a) = H /\ ChainStarts(X, S) \subseteq H
    BY <1>12, <1>13, <1>14
  <1>16. H \subseteq Nat
    BY DEF StartsOf
  <1>17. \E p \in S : p \in Nat /\ p >= 64
    BY <1>8, <1>9
  <1> HIDE DEF H
  <1>18. FrameStarts(X) = H
    BY <1>15, <1>16, <1>17, GridIsAll DEF S
  <1> QED
    BY <1>18 DEF H

-----------------------------------------------------------------------------
(* A recording that has slipped in the frame K, at the bit b.              *)

IsBefore(K, p) == \E k \in 1 .. K - 1 : p = 80 * k + 64

IsAfter(K, p) == \E k \in K + 1 .. Frames : p = 80 * k + 63

\* Sync words that are none, and that of the frame K.
IsOdd(b, K, p) == IsNear(p, b) \/ (b <= 80 * K + 63 /\ p = 80 * K + 63)

\* Where sync words are found.
IsSlipped(X, b, K) ==
    /\ K \in 1 .. Frames /\ b \in 80 * K + 1 .. 80 * K + 80 /\ Len(X) \in Nat
    /\ \A p : IsHit(X, p) => p \in Nat /\ (IsBefore(K, p) \/ IsOdd(b, K, p) \/ IsAfter(K, p))
    /\ \A p : IsBefore(K, p) \/ IsAfter(K, p) => p \in Nat /\ IsHit(X, p)

\* A slipped recording has its hits before the slip, after it, or across it.
LEMMA SlippedIsHit ==
    ASSUME NEW T, IsSent(T), NEW X, NEW b \in 81 .. Length - 2, SlippedAt(X, T, b, Length - 1)
    PROVE  IsSlipped(X, b, FrameOf(b))
  <1> DEFINE K == FrameOf(b)
             N == Length - 1
  <1>1. Length = 80 * (Frames + 1) /\ Frames \in Nat /\ Length \in Nat /\ b \in Nat
    BY LengthIsNat, FramesAssumption
  <1>2. K \in 1 .. Frames /\ b \in 80 * K + 1 .. 80 * K + 80
    BY <1>1 DEF FrameOf
  <1>3. Len(X) = N /\ N \in Nat
    BY DEF SlippedAt
  <1> HIDE DEF K
  <1>4. ASSUME NEW p, IsHit(X, p)
        PROVE  p \in Nat /\ (IsBefore(K, p) \/ IsOdd(b, K, p) \/ IsAfter(K, p))
    <2>1. p \in Nat /\ p + 16 <= N /\ IsSync(X, p)
      BY <1>3, <1>4 DEF IsHit
    <2>2. \/ p + 16 < b /\ \E k \in 1 .. Frames : p = 80 * k + 64
          \/ p < b /\ b <= p + 16
          \/ b <= p /\ \E k \in 1 .. Frames : p = 80 * k + 63
      BY <2>1, SlippedHits
    <2>3. CASE p + 16 < b /\ \E k \in 1 .. Frames : p = 80 * k + 64
      <3>1. PICK k \in 1 .. Frames : p = 80 * k + 64
        BY <2>3
      <3>2. k \in 1 .. K - 1
        BY <1>1, <1>2, <2>3, <3>1
      <3> QED
        BY <2>1, <3>1, <3>2 DEF IsBefore
    <2>4. CASE p < b /\ b <= p + 16
      BY <2>1, <2>4 DEF IsOdd, IsNear
    <2>5. CASE b <= p /\ \E k \in 1 .. Frames : p = 80 * k + 63
      <3>1. PICK k \in 1 .. Frames : p = 80 * k + 63
        BY <2>5
      <3>2. (k = K /\ b <= 80 * K + 63) \/ k \in K + 1 .. Frames
        BY <1>1, <1>2, <2>5, <3>1
      <3> QED
        BY <2>1, <3>1, <3>2 DEF IsAfter, IsOdd
    <2> QED
      BY <2>2, <2>3, <2>4, <2>5
  <1>5. ASSUME NEW k \in 1 .. K - 1
        PROVE  80 * k + 64 \in Nat /\ IsHit(X, 80 * k + 64)
    <2>1. /\ 80 * k + 64 \in Nat /\ (80 * k + 64) + 16 <= N /\ k \in 1 .. Frames /\ (80 * k + 64) + 16 < b
      BY <1>1, <1>2
    <2> DEFINE p == 80 * k + 64
    <2> HIDE DEF p, N
    <2>2. p \in Nat /\ p + 16 <= Length - 1 /\ p = 80 * k + 64 /\ p + 16 < b
      BY <2>1 DEF p, N
    <2>3. IsSync(X, p)
      BY <2>1, <2>2, SlippedSyncs
    <2> QED
      BY <1>3, <2>2, <2>3 DEF IsHit, N
  <1>6. ASSUME NEW k \in K + 1 .. Frames
        PROVE  80 * k + 63 \in Nat /\ IsHit(X, 80 * k + 63)
    <2>1. /\ 80 * k + 63 \in Nat /\ (80 * k + 63) + 16 <= N /\ k \in 1 .. Frames /\ b <= 80 * k + 63
      BY <1>1, <1>2
    <2> DEFINE p == 80 * k + 63
    <2> HIDE DEF p, N
    <2>2. p \in Nat /\ p + 16 <= Length - 1 /\ p = 80 * k + 63 /\ b <= p
      BY <2>1 DEF p, N
    <2>3. IsSync(X, p)
      BY <2>1, <2>2, SlippedSyncs
    <2> QED
      BY <1>3, <2>2, <2>3 DEF IsHit, N
  <1> QED
    BY <1>2, <1>3, <1>4, <1>5, <1>6 DEF IsSlipped, IsBefore, IsAfter, K

\* Those in between are no two frames apart.
LEMMA OddOnes ==
    ASSUME NEW K \in Nat, NEW b \in 80 * K + 1 .. 80 * K + 80, NEW S, AreApart(S),
           NEW p \in S, NEW q \in S, IsOdd(b, K, p), IsOdd(b, K, q)
    PROVE  p = q
  <1>1. p \in Nat /\ q \in Nat /\ (p < q => q >= p + 80) /\ (q < p => p >= q + 80)
    BY DEF AreApart
  <1>2. /\ (p < b /\ b <= p + 16) \/ (b <= 80 * K + 63 /\ p = 80 * K + 63)
        /\ (q < b /\ b <= q + 16) \/ (b <= 80 * K + 63 /\ q = 80 * K + 63)
    BY DEF IsNear, IsOdd
  <1> QED
    BY <1>1, <1>2

\* The sync words before the slip are kept, and those from the second frame after it on.
LEMMA SidesAreKept ==
    ASSUME NEW X, NEW b, NEW K, IsSlipped(X, b, K)
    PROVE  LET S == SyncPositions(X)
           IN  /\ \A k \in 1 .. K - 1 : 80 * k + 64 \in S
               /\ \A k \in K + 2 .. Frames : 80 * k + 63 \in S
  <1> DEFINE S == SyncPositions(X)
  <1>1. /\ K \in Nat /\ K <= Frames /\ Frames \in Nat /\ b \in 80 * K + 1 .. 80 * K + 80
        /\ \A p : IsHit(X, p) => p \in Nat /\ (IsBefore(K, p) \/ IsOdd(b, K, p) \/ IsAfter(K, p))
        /\ \A p : IsBefore(K, p) \/ IsAfter(K, p) => p \in Nat /\ IsHit(X, p)
    BY FramesAssumption DEF IsSlipped
  <1>2. /\ \A p \in S : IsHit(X, p)
        /\ \A h : IsHit(X, h) => \E k \in S : k <= h /\ h < k + 80
    BY KeptFacts DEF IsSlipped
  <1>3. \A p \in Nat : IsOdd(b, K, p) => 80 * K - 15 <= p /\ p <= 80 * K + 79
    BY <1>1 DEF IsOdd, IsNear
  <1> HIDE DEF S
  <1>4. ASSUME NEW k \in 1 .. K - 1 PROVE 80 * k + 64 \in S
    <2>1. IsBefore(K, 80 * k + 64)
      BY DEF IsBefore
    <2>2. PICK z \in S : z <= 80 * k + 64 /\ 80 * k + 64 < z + 80
      BY <1>1, <1>2, <2>1
    <2>3. z \in Nat /\ (IsBefore(K, z) \/ IsOdd(b, K, z) \/ IsAfter(K, z))
      BY <1>1, <1>2
    <2>4. ~IsOdd(b, K, z)
      BY <1>1, <1>3, <2>2, <2>3
    <2>5. ~IsAfter(K, z)
      BY <1>1, <2>2, <2>3 DEF IsAfter
    <2>6. PICK j \in 1 .. K - 1 : z = 80 * j + 64
      BY <2>3, <2>4, <2>5 DEF IsBefore
    <2>7. z = 80 * k + 64
      BY <2>2, <2>6
    <2> QED
      BY <2>7
  <1>5. ASSUME NEW k \in K + 2 .. Frames PROVE 80 * k + 63 \in S
    <2>1. IsAfter(K, 80 * k + 63)
      BY <1>1 DEF IsAfter
    <2>2. PICK z \in S : z <= 80 * k + 63 /\ 80 * k + 63 < z + 80
      BY <1>1, <1>2, <2>1
    <2>3. z \in Nat /\ (IsBefore(K, z) \/ IsOdd(b, K, z) \/ IsAfter(K, z))
      BY <1>1, <1>2
    <2>4. ~IsOdd(b, K, z)
      BY <1>1, <1>3, <2>2, <2>3
    <2>5. ~IsBefore(K, z)
      BY <1>1, <2>2, <2>3 DEF IsBefore
    <2>6. PICK j \in K + 1 .. Frames : z = 80 * j + 63
      BY <2>3, <2>4, <2>5 DEF IsAfter
    <2>7. z = 80 * k + 63
      BY <1>1, <2>2, <2>6
    <2> QED
      BY <2>7
  <1> QED
    BY <1>4, <1>5 DEF S

\* The alignments before and after the slip.
LEMMA SideAlignment ==
    ASSUME NEW K \in Nat, NEW p
    PROVE  /\ IsBefore(K, p) => p \in Nat /\ p >= 64 /\ (p - 64) % 80 = 0
           /\ IsAfter(K, p) => p \in Nat /\ p >= 64 /\ (p - 64) % 80 = 79
  <1>1. ASSUME NEW k \in Nat \ {0}
        PROVE  /\ LET q == 80 * k + 64 IN q \in Nat /\ q >= 64 /\ (q - 64) % 80 = 0
               /\ LET q == 80 * k + 63 IN q \in Nat /\ q >= 64 /\ (q - 64) % 80 = 79
    <2>1. 80 * k + 64 - 64 = 80 * k /\ 80 * k + 63 - 64 = 80 * (k - 1) + 79 /\ k - 1 \in Nat
      OBVIOUS
    <2> QED
      BY <2>1
  <1>2. Frames \in Nat
    BY FramesAssumption
  <1> QED
    BY <1>1, <1>2 DEF IsBefore, IsAfter

\* If some alignment has two, the dominant one is that of a side.
LEMMA DominantIsSide ==
    ASSUME NEW X, NEW b, NEW K, IsSlipped(X, b, K),
           NEW p \in SyncPositions(X), NEW q \in SyncPositions(X), p # q, p >= 64, q >= 64,
           (p - 64) % 80 = (q - 64) % 80
    PROVE  DominantAlignment(SyncPositions(X)) \in {0, 79}
  <1> DEFINE S == SyncPositions(X)
             a == DominantAlignment(S)
  <1>1. /\ K \in Nat /\ b \in 80 * K + 1 .. 80 * K + 80
        /\ \A r : IsHit(X, r) => r \in Nat /\ (IsBefore(K, r) \/ IsOdd(b, K, r) \/ IsAfter(K, r))
    BY DEF IsSlipped
  <1>2. IsFiniteSet(S) /\ AreApart(S) /\ \A r \in S : IsHit(X, r)
    BY KeptFacts DEF IsSlipped
  <1>3. p \in S /\ q \in S /\ p \in Nat /\ q \in Nat
    BY <1>1, <1>2
  <1> HIDE DEF S
  <1>4. PICK r, t \in S : r # t /\ (r - 64) % 80 = a /\ (t - 64) % 80 = a
    <2>1. \E r, t \in S : /\ r # t /\ r >= 64 /\ t >= 64
                           /\ (r - 64) % 80 = DominantAlignment(S) /\ (t - 64) % 80 = DominantAlignment(S)
      BY <1>2, <1>3, DominantHasTwo, Zenon
    <2> QED
      BY ONLY <2>1, Zenon
  <1>5. ~(IsOdd(b, K, r) /\ IsOdd(b, K, t))
    BY <1>1, <1>2, <1>4, OddOnes
  <1>6. \E u \in {r, t} : IsBefore(K, u) \/ IsAfter(K, u)
    BY <1>1, <1>2, <1>5
  <1> QED
    BY <1>1, <1>4, <1>6, SideAlignment DEF S

\* What a start is.
LEMMA StartFacts ==
    ASSUME NEW X, Len(X) \in Nat, NEW s \in FrameStarts(X)
    PROVE  LET S == SyncPositions(X)
               grid == GridStarts(X, DominantAlignment(S))
           IN  /\ s \in Nat /\ IsHit(X, s + 64)
               /\ s \in grid \/ (s \in ChainStarts(X, S) /\ \A g \in grid : s - g >= 40 \/ g - s >= 40)
  <1> DEFINE S == SyncPositions(X)
             grid == GridStarts(X, DominantAlignment(S))
  <1>1. s \in Merged(grid, ChainStarts(X, S))
    BY DEF FrameStarts
  <1>2. s \in grid \/ (s \in ChainStarts(X, S) /\ \A g \in grid : s - g >= 40 \/ g - s >= 40)
    <2>1. FrameBits \div 2 = 40
      BY DEF FrameBits
    <2> HIDE DEF grid, S
    <2> QED
      BY <1>1, <2>1 DEF Merged
  <1>3. CASE s \in grid
    BY <1>2, <1>3, GridFacts
  <1>4. CASE s \in ChainStarts(X, S)
    <2>1. PICK r \in S : s = r - 64 /\ r >= 64
      BY <1>4, ChainStartsFacts
    <2>2. IsHit(X, r)
      BY KeptFacts
    <2>3. r \in Nat
      BY <2>2 DEF IsHit
    <2>4. s \in Nat /\ s + 64 = r
      BY <2>1, <2>3
    <2> QED
      BY <1>2, <2>2, <2>4
  <1> QED
    BY <1>2, <1>3, <1>4

\* The sync word of a start that a chain adds has another one, some frames away.
LEMMA ChainStartHasAnother ==
    ASSUME NEW X, Len(X) \in Nat, NEW s \in ChainStarts(X, SyncPositions(X))
    PROVE  /\ s \in Nat /\ s + 64 \in SyncPositions(X)
           /\ \E r \in SyncPositions(X) : \E m \in Int : r = s + 64 + 80 * m /\ m # 0
  <1> DEFINE S == SyncPositions(X)
  <1>1. IsFiniteSet(S) /\ AreApart(S) /\ \A r \in S : IsHit(X, r)
    BY KeptFacts
  <1>2. PICK p \in S : \E q \in ChainFrom(S, p) :
          s = q - 64 /\ q >= 64 /\ q \in S /\ Cardinality(ChainFrom(S, p)) >= 5
    BY ChainStartsFacts
  <1> HIDE DEF S
  <1>3. PICK q \in ChainFrom(S, p) :
          s = q - 64 /\ q >= 64 /\ q \in S /\ Cardinality(ChainFrom(S, p)) >= 5
    BY <1>2
  <1>4. PICK r \in S : \E m \in Int : r = q + 80 * m /\ m # 0
    BY <1>1, <1>3, ChainHasAnother
  <1>5. q \in Nat
    BY <1>1, <1>3 DEF IsHit
  <1>6. s \in Nat /\ s + 64 = q
    BY <1>3, <1>5
  <1> QED
    BY <1>3, <1>4, <1>6 DEF S

\* Those in between that the grid has.
LEMMA OddInGrid ==
    ASSUME NEW K \in Nat, NEW b \in 80 * K + 1 .. 80 * K + 80, NEW s \in Nat, NEW t \in Nat, s % 80 = t % 80,
           IsOdd(b, K, s + 64), IsOdd(b, K, t + 64)
    PROVE  s = t
  <1>1. /\ (s + 64 < b /\ b <= s + 80) \/ (b <= 80 * K + 63 /\ s + 64 = 80 * K + 63)
        /\ (t + 64 < b /\ b <= t + 80) \/ (b <= 80 * K + 63 /\ t + 64 = 80 * K + 63)
    BY DEF IsOdd, IsNear
  <1>2. s < t + 80 /\ t < s + 80
    BY <1>1
  <1> QED
    BY <1>2

\* Those in between, far from each other: one is that of the frame K, and the other
\* one is of no side.
LEMMA OddAndFar ==
    ASSUME NEW K \in Nat, NEW b \in 80 * K + 1 .. 80 * K + 80, NEW p \in Nat, NEW q \in Nat,
           p - q >= 40 \/ q - p >= 40, IsOdd(b, K, p), IsOdd(b, K, q)
    PROVE  /\ p = 80 * K + 63 \/ q = 80 * K + 63
           /\ p = 80 * K + 63 => 80 * K - 15 <= q /\ q <= 80 * K + 23
           /\ q = 80 * K + 63 => 80 * K - 15 <= p /\ p <= 80 * K + 23
  <1>1. /\ (p < b /\ b <= p + 16) \/ (b <= 80 * K + 63 /\ p = 80 * K + 63)
        /\ (q < b /\ b <= q + 16) \/ (b <= 80 * K + 63 /\ q = 80 * K + 63)
    BY DEF IsOdd, IsNear
  <1> QED
    BY <1>1

\* Near the slip no sync word is of either side.
LEMMA NoSide ==
    ASSUME NEW K \in Nat, NEW p \in Nat, 80 * K - 15 <= p, p <= 80 * K + 23
    PROVE  \A k \in Int : p # 80 * k + 64 /\ p # 80 * k + 63
  OBVIOUS

\* A start of either alignment is that of a frame of either side.
LEMMA SideOfStart ==
    ASSUME NEW g \in Nat, g % 80 \in {0, 79}
    PROVE  \E k \in Int : g + 64 = 80 * k + 64 \/ g + 64 = 80 * k + 63
  <1> DEFINE k == g \div 80
  <1>1. k \in Int /\ k + 1 \in Int
    OBVIOUS
  <1>2. g = 80 * k \/ g = 80 * k + 79
    OBVIOUS
  <1> HIDE DEF k
  <1>3. g + 64 = 80 * k + 64 \/ g + 64 = 80 * (k + 1) + 63
    BY ONLY <1>1, <1>2
  <1> QED
    BY ONLY <1>1, <1>3, Zenon

\* The grid and the chains have one in between at most.
LEMMA OddMixed ==
    ASSUME NEW X, NEW b, NEW K, IsSlipped(X, b, K),
           NEW g \in GridStarts(X, DominantAlignment(SyncPositions(X))),
           NEW c \in ChainStarts(X, SyncPositions(X)), c - g >= 40 \/ g - c >= 40,
           IsOdd(b, K, g + 64), IsOdd(b, K, c + 64)
    PROVE  FALSE
  <1> DEFINE S == SyncPositions(X)
             a == DominantAlignment(S)
             q == c + 64
             p == g + 64
  <1>1. /\ K \in Nat /\ b \in 80 * K + 1 .. 80 * K + 80 /\ Len(X) \in Nat
        /\ \A r : IsHit(X, r) => r \in Nat /\ (IsBefore(K, r) \/ IsOdd(b, K, r) \/ IsAfter(K, r))
    BY DEF IsSlipped
  <1>2. IsFiniteSet(S) /\ AreApart(S) /\ \A r \in S : IsHit(X, r)
    BY <1>1, KeptFacts
  <1>3. g \in Nat /\ g % 80 = a
    BY <1>1, GridFacts
  <1>4. c \in Nat /\ q \in S /\ \E r \in S : \E m \in Int : r = q + 80 * m /\ m # 0
    BY <1>1, ChainStartHasAnother
  <1>5. PICK r \in S : \E m \in Int : r = q + 80 * m /\ m # 0
    BY <1>4
  <1>6. PICK m \in Int : r = q + 80 * m /\ m # 0
    BY <1>5
  <1>7. r \in Nat /\ (IsBefore(K, r) \/ IsOdd(b, K, r) \/ IsAfter(K, r))
    BY <1>1, <1>2
  <1>8. p \in Nat /\ q \in Nat /\ (p - q >= 40 \/ q - p >= 40) /\ r # q
    BY <1>3, <1>4, <1>6
  <1>9. IsOdd(b, K, p) /\ IsOdd(b, K, q)
    OBVIOUS
  <1> HIDE DEF S, p, q
  <1>10. ~IsOdd(b, K, r)
    BY <1>1, <1>2, <1>4, <1>8, <1>9, OddOnes
  <1>11. /\ p = 80 * K + 63 \/ q = 80 * K + 63
         /\ p = 80 * K + 63 => 80 * K - 15 <= q /\ q <= 80 * K + 23
         /\ q = 80 * K + 63 => 80 * K - 15 <= p /\ p <= 80 * K + 23
    BY <1>1, <1>8, <1>9, OddAndFar
  <1>12. \E k \in Int : r = 80 * k + 64 \/ r = 80 * k + 63
    <2>1. CASE IsBefore(K, r)
      <3>1. PICK k \in 1 .. K - 1 : r = 80 * k + 64
        BY <2>1 DEF IsBefore
      <3>2. k \in Int
        OBVIOUS
      <3> QED
        BY ONLY <3>1, <3>2, Zenon
    <2>2. CASE IsAfter(K, r)
      <3>1. PICK k \in K + 1 .. Frames : r = 80 * k + 63
        BY <2>2 DEF IsAfter
      <3>2. k \in Int
        BY <1>1, FramesAssumption
      <3> QED
        BY ONLY <3>1, <3>2, Zenon
    <2> QED
      BY <1>7, <1>10, <2>1, <2>2
  <1>13. \E k \in Int : q = 80 * k + 64 \/ q = 80 * k + 63
    <2>1. PICK k \in Int : r = 80 * k + 64 \/ r = 80 * k + 63
      BY <1>12
    <2>2. k - m \in Int /\ (q = 80 * (k - m) + 64 \/ q = 80 * (k - m) + 63)
      BY <1>6, <1>8, <2>1
    <2> QED
      BY <2>2
  <1>14. q = 80 * K + 63
    BY <1>1, <1>8, <1>11, <1>13, NoSide
  <1>15. r >= 64
    BY <1>1, <1>7, <1>10, SideAlignment
  <1>16. q - 64 = c /\ r - 64 = c + 80 * m /\ r - 64 \in Nat /\ q >= 64
    BY <1>4, <1>6, <1>7, <1>15 DEF q
  <1>17. (q - 64) % 80 = (r - 64) % 80
    BY ONLY <1>4, <1>6, <1>16
  <1>18. a \in {0, 79}
    BY <1>2, <1>4, <1>8, <1>15, <1>16, <1>17, DominantIsSide DEF S
  <1>19. \E k \in Int : p = 80 * k + 64 \/ p = 80 * k + 63
    BY <1>3, <1>18, SideOfStart DEF p
  <1> QED
    BY <1>1, <1>8, <1>11, <1>14, <1>19, NoSide

\* No more than one frame start comes from a hit across the slip.
LEMMA OddStarts ==
    ASSUME NEW X, NEW b, NEW K, IsSlipped(X, b, K), NEW s \in FrameStarts(X), NEW t \in FrameStarts(X),
           IsOdd(b, K, s + 64), IsOdd(b, K, t + 64)
    PROVE  s = t
  <1> DEFINE S == SyncPositions(X)
             grid == GridStarts(X, DominantAlignment(S))
             chains == ChainStarts(X, S)
  <1>1. K \in Nat /\ b \in 80 * K + 1 .. 80 * K + 80 /\ Len(X) \in Nat
    BY DEF IsSlipped
  <1>2. /\ s \in Nat /\ (s \in grid \/ (s \in chains /\ \A g \in grid : s - g >= 40 \/ g - s >= 40))
        /\ t \in Nat /\ (t \in grid \/ (t \in chains /\ \A g \in grid : t - g >= 40 \/ g - t >= 40))
    BY <1>1, StartFacts
  <1>3. CASE s \in grid /\ t \in grid
    <2>1. s % 80 = t % 80
      BY <1>1, <1>3, GridFacts
    <2> QED
      BY <1>1, <1>2, <2>1, OddInGrid
  <1>4. CASE s \in chains /\ t \in chains
    <2>1. s + 64 \in S /\ t + 64 \in S
      BY <1>1, <1>4, ChainStartHasAnother
    <2>2. AreApart(S)
      BY <1>1, KeptFacts
    <2>3. s + 64 = t + 64
      BY <1>1, <2>1, <2>2, OddOnes
    <2> QED
      BY <1>2, <2>3
  <1>5. CASE s \in grid /\ t \in chains /\ \A g \in grid : t - g >= 40 \/ g - t >= 40
    <2>1. t - s >= 40 \/ s - t >= 40
      BY <1>5
    <2> QED
      BY <1>5, <2>1, OddMixed
  <1>6. CASE t \in grid /\ s \in chains /\ \A g \in grid : s - g >= 40 \/ g - s >= 40
    <2>1. s - t >= 40 \/ t - s >= 40
      BY <1>6
    <2> QED
      BY <1>6, <2>1, OddMixed
  <1> QED
    BY <1>2, <1>3, <1>4, <1>5, <1>6

\* Five sync words a frame apart.
LEMMA FiveAreMany ==
    ASSUME NEW C, IsFiniteSet(C), NEW x \in Nat, \A i \in 0 .. 4 : x + 80 * i \in C
    PROVE  Cardinality(C) >= 5
  <1>1. x \in C /\ x + 80 \in C /\ x + 160 \in C /\ x + 240 \in C /\ x + 320 \in C
    <2>1. /\ 0 \in 0 .. 4 /\ 1 \in 0 .. 4 /\ 2 \in 0 .. 4 /\ 3 \in 0 .. 4 /\ 4 \in 0 .. 4
          /\ x + 80 * 0 = x /\ x + 80 * 1 = x + 80 /\ x + 80 * 2 = x + 160 /\ x + 80 * 3 = x + 240
          /\ x + 80 * 4 = x + 320
      OBVIOUS
    <2> QED
      BY <2>1
  <1> DEFINE A == {x}
             B == A \cup {x + 80}
             D == B \cup {x + 160}
             E == D \cup {x + 240}
             F == E \cup {x + 320}
  <1>2. x + 80 \notin A /\ x + 160 \notin B /\ x + 240 \notin D /\ x + 320 \notin E
    OBVIOUS
  <1>3. F \subseteq C
    BY <1>1
  <1>4. IsFiniteSet(A) /\ Cardinality(A) = 1
    BY FS_Singleton
  <1> HIDE DEF A
  <1>5. IsFiniteSet(B) /\ Cardinality(B) = 2
    BY <1>2, <1>4, FS_AddElement
  <1> HIDE DEF B
  <1>6. IsFiniteSet(D) /\ Cardinality(D) = 3
    BY <1>2, <1>5, FS_AddElement
  <1> HIDE DEF D
  <1>7. IsFiniteSet(E) /\ Cardinality(E) = 4
    BY <1>2, <1>6, FS_AddElement
  <1> HIDE DEF E
  <1>8. IsFiniteSet(F) /\ Cardinality(F) = 5
    BY <1>2, <1>7, FS_AddElement
  <1> HIDE DEF F
  <1>9. Cardinality(F) <= Cardinality(C) /\ Cardinality(C) \in Nat
    BY <1>3, FS_Subset, FS_CardinalityType
  <1> QED
    BY <1>8, <1>9

\* A chain has every sync word that is a frame after the one before.
LEMMA ChainHas ==
    ASSUME NEW S, NEW p \in Nat, NEW n \in Nat, \A i \in 0 .. n : p + 80 * i \in S
    PROVE  p + 80 * n \in ChainFrom(S, p)
  <1> DEFINE q == p + 80 * n
  <1>1. q \in S /\ q >= p /\ q \in Nat
    BY n \in 0 .. n
  <1>2. ASSUME NEW r \in p .. q, (r - p) % 80 = 0 PROVE r \in S
    <2> DEFINE i == (r - p) \div 80
    <2>1. r \in Nat /\ p \in Nat /\ r - p \in 0 .. 80 * n
      BY <1>1
    <2>2. i \in 0 .. n /\ r - p = 80 * i
      BY <1>2, <2>1
    <2> HIDE DEF i
    <2>3. r = p + 80 * i
      BY <2>1, <2>2
    <2> QED
      BY <2>2, <2>3
  <1> QED
    BY <1>1, <1>2 DEF ChainFrom, FrameBits

\* A chain that is long enough is accepted if the first two timecodes of it follow each other.
LEMMA ChainIsAccepted ==
    ASSUME NEW X, NEW C, IsFiniteSet(C), NEW s \in Nat, \A i \in 0 .. 4 : s + 64 + 80 * i \in C,
           Increment(DecodeTimecode(X, s), DropFrame) = DecodeTimecode(X, s + 80)
    PROVE  Accepted(X, C)
  <1>1. s + 64 \in Nat
    OBVIOUS
  <1>2. Cardinality(C) >= 5
    BY <1>1, FiveAreMany
  <1>3. /\ 0 \in 0 .. 4 /\ 1 \in 0 .. 4 /\ s + 64 + 80 * 0 = s + 64 /\ s + 64 + 80 * 1 = (s + 64) + 80
        /\ (s + 64) - 64 = s /\ s + 64 >= 64
    OBVIOUS
  <1>4. s + 64 \in C /\ (s + 64) + 80 \in C
    BY ONLY <1>3, \A i \in 0 .. 4 : s + 64 + 80 * i \in C
  <1> QED
    BY Zenon, <1>2, <1>3, <1>4 DEF Accepted, MinChain, FrameBits, SyncOffset

\* Where a slipped recording has starts.
LEMMA SlippedStarts ==
    ASSUME NEW X, NEW b, NEW K, IsSlipped(X, b, K), NEW s \in Nat, IsHit(X, s + 64)
    PROVE  \/ \E k \in 1 .. K - 1 : s = 80 * k
           \/ IsOdd(b, K, s + 64) /\ 80 * K - 79 <= s /\ s <= 80 * K + 15
           \/ \E k \in K + 1 .. Frames : s = 80 * k - 1
  <1>1. /\ K \in Nat /\ K <= Frames /\ Frames \in Nat /\ b \in 80 * K + 1 .. 80 * K + 80
        /\ IsBefore(K, s + 64) \/ IsOdd(b, K, s + 64) \/ IsAfter(K, s + 64)
    BY FramesAssumption DEF IsSlipped
  <1>2. CASE IsBefore(K, s + 64)
    BY <1>2 DEF IsBefore
  <1>3. CASE IsOdd(b, K, s + 64)
    <2>1. (s + 64 < b /\ b <= s + 64 + 16) \/ (b <= 80 * K + 63 /\ s + 64 = 80 * K + 63)
      BY <1>3 DEF IsOdd, IsNear
    <2> QED
      BY <1>1, <1>3, <2>1
  <1>4. CASE IsAfter(K, s + 64)
    <2>1. PICK k \in K + 1 .. Frames : s + 64 = 80 * k + 63
      BY <1>4 DEF IsAfter
    <2>2. s = 80 * k - 1
      BY <1>1, <2>1
    <2> QED
      BY <2>2
  <1> QED
    BY <1>1, <1>2, <1>3, <1>4

\* A start that a chain adds and the grid does not have near it is one.
LEMMA IsMerged ==
    ASSUME NEW X, \E p \in SyncPositions(X) : p \in Nat /\ p >= 64,
           NEW s, \/ s \in GridStarts(X, DominantAlignment(SyncPositions(X)))
                  \/ /\ s \in ChainStarts(X, SyncPositions(X))
                     /\ \A g \in GridStarts(X, DominantAlignment(SyncPositions(X))) : s - g >= 40 \/ g - s >= 40
    PROVE  s \in FrameStarts(X)
  <1> DEFINE S == SyncPositions(X)
             grid == GridStarts(X, DominantAlignment(S))
  <1>1. ~(\A p \in S : p < SyncOffset)
    BY DEF SyncOffset
  <1>2. FrameStarts(X) = Merged(grid, ChainStarts(X, S))
    BY <1>1 DEF FrameStarts
  <1>3. FrameBits \div 2 = 40
    BY DEF FrameBits
  <1> HIDE DEF grid, S
  <1>4. s \in grid \/ (s \in ChainStarts(X, S) /\ \A g \in grid : s - g >= 40 \/ g - s >= 40)
    BY DEF grid, S
  <1> QED
    BY <1>2, <1>3, <1>4 DEF Merged

\* A side of five frames: those before the slip are found.
LEMMA BeforeIsFound ==
    ASSUME NEW X, NEW b, NEW K, IsSlipped(X, b, K), K - 1 >= 5,
           Increment(DecodeTimecode(X, 80), DropFrame) = DecodeTimecode(X, 160)
    PROVE  \A k \in 1 .. K - 1 : 80 * k \in FrameStarts(X)
  <1> DEFINE S == SyncPositions(X)
             a == DominantAlignment(S)
             grid == GridStarts(X, a)
             C == ChainFrom(S, 144)
  <1>1. /\ K \in Nat /\ K <= Frames /\ Frames \in Nat /\ Len(X) \in Nat
        /\ \A p : IsHit(X, p) => p \in Nat /\ (IsBefore(K, p) \/ IsOdd(b, K, p) \/ IsAfter(K, p))
        /\ \A p : IsBefore(K, p) \/ IsAfter(K, p) => p \in Nat /\ IsHit(X, p)
        /\ b \in 80 * K + 1 .. 80 * K + 80
    BY FramesAssumption DEF IsSlipped
  <1>2. \A k \in 1 .. K - 1 : 80 * k + 64 \in S
    BY SidesAreKept
  <1>3. IsFiniteSet(S) /\ AreApart(S) /\ \A p \in S : IsHit(X, p)
    BY <1>1, KeptFacts
  <1>4. 144 \in S /\ 224 \in S
    <2>1. 1 \in 1 .. K - 1 /\ 2 \in 1 .. K - 1 /\ 80 * 1 + 64 = 144 /\ 80 * 2 + 64 = 224
      BY <1>1
    <2> HIDE DEF S
    <2> QED
      BY ONLY <1>2, <2>1
  <1>5. a \in {0, 79}
    <2>1. 144 # 224 /\ 144 >= 64 /\ 224 >= 64 /\ (144 - 64) % 80 = (224 - 64) % 80
      OBVIOUS
    <2> QED
      BY <1>4, <2>1, DominantIsSide
  <1>6. \E p \in S : p \in Nat /\ p >= 64
    BY <1>4
  <1>7. ASSUME NEW s \in grid
        PROVE  s \in Nat /\ s % 80 = a /\ IsHit(X, s + 64)
    BY <1>1, GridFacts
  <1>8. ASSUME NEW k \in 1 .. K - 1, a = 0 PROVE 80 * k \in FrameStarts(X)
    <2>1. IsBefore(K, 80 * k + 64)
      BY DEF IsBefore
    <2>2. 80 * k \in Nat /\ (80 * k) % 80 = 0 /\ IsHit(X, 80 * k + 64)
      BY <1>1, <2>1
    <2>3. 80 * k \in grid
      BY <1>1, <1>8, <2>2, GridFacts
    <2> QED
      BY <1>6, <2>3, IsMerged
  <1>9. ASSUME NEW k \in 1 .. K - 1, a = 79 PROVE 80 * k \in FrameStarts(X)
    <2>1. 144 - 80 \notin S
      <3>1. 144 - 80 = 64 /\ ~IsBefore(K, 64) /\ ~IsAfter(K, 64) /\ ~IsOdd(b, K, 64)
        BY <1>1 DEF IsBefore, IsAfter, IsOdd, IsNear
      <3> QED
        BY <1>1, <1>3, <3>1
    <2>2. \A j \in 1 .. K - 1 : 80 * j + 64 \in C
      <3> SUFFICES ASSUME NEW j \in 1 .. K - 1 PROVE 80 * j + 64 \in C
        OBVIOUS
      <3>1. j - 1 \in Nat /\ 144 + 80 * (j - 1) = 80 * j + 64 /\ 144 \in Nat
        OBVIOUS
      <3>2. \A i \in 0 .. j - 1 : i + 1 \in 1 .. K - 1 /\ 144 + 80 * i = 80 * (i + 1) + 64
        BY <1>1
      <3> HIDE DEF S
      <3>3. \A i \in 0 .. j - 1 : 144 + 80 * i \in S
        BY <1>2, <3>2
      <3>4. 144 + 80 * (j - 1) \in C
        BY <3>1, <3>3, ChainHas
      <3> QED
        BY <3>1, <3>4
    <2>3. IsFiniteSet(C)
      <3>1. C \subseteq S
        BY DEF ChainFrom
      <3> QED
        BY <1>3, <3>1, FS_Subset
    <2>4. Accepted(X, C)
      <3>1. \A i \in 0 .. 4 : i + 1 \in 1 .. K - 1 /\ 80 + 64 + 80 * i = 80 * (i + 1) + 64
        BY <1>1
      <3> HIDE DEF C
      <3>2. \A i \in 0 .. 4 : 80 + 64 + 80 * i \in C
        BY <2>2, <3>1
      <3>3. 80 + 80 = 160 /\ 80 \in Nat
        OBVIOUS
      <3> QED
        BY <2>3, <3>2, <3>3, ChainIsAccepted
    <2>5. 80 * k + 64 >= 64 /\ (80 * k + 64) - 64 = 80 * k
      OBVIOUS
    <2>6. 80 * k \in ChainStarts(X, S)
      BY <1>4, <2>1, <2>2, <2>4, <2>5, ChainStartsHas
    <2>7. ASSUME NEW g \in grid PROVE g - 80 * k >= 40
      <3>1. g \in Nat /\ g % 80 = 79 /\ IsHit(X, g + 64)
        BY <1>7, <1>9
      <3>2. \/ \E j \in 1 .. K - 1 : g = 80 * j
            \/ IsOdd(b, K, g + 64) /\ 80 * K - 79 <= g /\ g <= 80 * K + 15
            \/ \E j \in K + 1 .. Frames : g = 80 * j - 1
        BY <3>1, SlippedStarts
      <3>3. ~(\E j \in 1 .. K - 1 : g = 80 * j)
        BY <3>1
      <3>4. g >= 80 * K - 79
        BY <1>1, <3>1, <3>2, <3>3
      <3> QED
        BY <1>1, <3>1, <3>4
    <2> HIDE DEF S, grid
    <2> QED
      BY <1>6, <2>6, <2>7, IsMerged DEF S, grid
  <1> QED
    BY <1>5, <1>8, <1>9

\* The first sync word of the run that those after the slip are in.
LEMMA RunBegins ==
    ASSUME NEW X, NEW b, NEW K, IsSlipped(X, b, K), K + 2 <= Frames
    PROVE  LET S == SyncPositions(X)
           IN  \E m \in K .. K + 2 : /\ 80 * m + 63 \in S /\ 80 * m + 63 - 80 \notin S
                                     /\ \A j \in m .. Frames : 80 * j + 63 \in S
  <1> DEFINE S == SyncPositions(X)
             R(j) == 80 * j + 63 \in S
  <1>1. /\ K \in Nat /\ K <= Frames /\ Frames \in Nat /\ Len(X) \in Nat
        /\ \A p : IsHit(X, p) => p \in Nat /\ (IsBefore(K, p) \/ IsOdd(b, K, p) \/ IsAfter(K, p))
        /\ b \in 80 * K + 1 .. 80 * K + 80
    BY FramesAssumption DEF IsSlipped
  <1>2. \A j \in K + 2 .. Frames : R(j)
    BY SidesAreKept
  <1>3. \A p \in S : IsHit(X, p)
    BY <1>1, KeptFacts
  <1>4. 80 * K + 63 - 80 \notin S
    <2>1. ~IsBefore(K, 80 * K + 63 - 80) /\ ~IsAfter(K, 80 * K + 63 - 80) /\ ~IsOdd(b, K, 80 * K + 63 - 80)
      BY <1>1 DEF IsBefore, IsAfter, IsOdd, IsNear
    <2> QED
      BY <1>1, <1>3, <2>1
  <1>5. /\ 80 * (K + 1) + 63 - 80 = 80 * K + 63 /\ 80 * (K + 2) + 63 - 80 = 80 * (K + 1) + 63
        /\ K \in K .. K + 2 /\ K + 1 \in K .. K + 2 /\ K + 2 \in K .. K + 2
        /\ \A j \in K .. Frames : j = K \/ j = K + 1 \/ j \in K + 2 .. Frames
        /\ \A j \in K + 1 .. Frames : j = K + 1 \/ j \in K + 2 .. Frames
        /\ K + 2 \in K + 2 .. Frames
    BY <1>1
  <1> HIDE DEF S
  <1>6. CASE ~R(K + 1)
    <2>1. R(K + 2) /\ 80 * (K + 2) + 63 - 80 \notin S
      BY <1>2, <1>5, <1>6
    <2> QED
      BY <1>2, <1>5, <2>1 DEF S
  <1>7. CASE R(K + 1) /\ ~R(K)
    <2>1. R(K + 1) /\ 80 * (K + 1) + 63 - 80 \notin S
      BY <1>5, <1>7
    <2>2. \A j \in K + 1 .. Frames : R(j)
      BY <1>2, <1>5, <1>7
    <2> QED
      BY <1>5, <2>1, <2>2 DEF S
  <1>8. CASE R(K + 1) /\ R(K)
    <2>1. \A j \in K .. Frames : R(j)
      BY <1>2, <1>5, <1>8
    <2> QED
      BY <1>4, <1>5, <1>8, <2>1 DEF S
  <1> QED
    BY <1>6, <1>7, <1>8

\* And those from the second frame after it on.
LEMMA AfterIsFound ==
    ASSUME NEW X, NEW b, NEW K, IsSlipped(X, b, K), K + 6 <= Frames,
           Increment(DecodeTimecode(X, 80 * (K + 2) - 1), DropFrame) = DecodeTimecode(X, 80 * (K + 3) - 1)
    PROVE  \A k \in K + 2 .. Frames : 80 * k - 1 \in FrameStarts(X)
  <1> DEFINE S == SyncPositions(X)
             a == DominantAlignment(S)
             grid == GridStarts(X, a)
  <1>1. /\ K \in Nat /\ K <= Frames /\ Frames \in Nat /\ Len(X) \in Nat
        /\ \A p : IsHit(X, p) => p \in Nat /\ (IsBefore(K, p) \/ IsOdd(b, K, p) \/ IsAfter(K, p))
        /\ \A p : IsBefore(K, p) \/ IsAfter(K, p) => p \in Nat /\ IsHit(X, p)
        /\ b \in 80 * K + 1 .. 80 * K + 80
    BY FramesAssumption DEF IsSlipped
  <1>2. \A k \in K + 2 .. Frames : 80 * k + 63 \in S
    BY SidesAreKept
  <1>3. IsFiniteSet(S) /\ AreApart(S) /\ \A p \in S : IsHit(X, p)
    BY <1>1, KeptFacts
  <1>4. 80 * (K + 2) + 63 \in S /\ 80 * (K + 3) + 63 \in S
    <2>1. K + 2 \in K + 2 .. Frames /\ K + 3 \in K + 2 .. Frames
      BY <1>1
    <2> HIDE DEF S
    <2> QED
      BY ONLY <1>2, <2>1
  <1>5. a \in {0, 79}
    <2> DEFINE p == 80 * (K + 2) + 63
               q == 80 * (K + 3) + 63
    <2>1. p # q /\ p >= 64 /\ q >= 64 /\ p \in Nat /\ q = p + 80
      BY <1>1
    <2>2. p \in S /\ q \in S
      BY <1>4
    <2> HIDE DEF p, q
    <2>3. (p - 64) % 80 = (q - 64) % 80
      BY <2>1
    <2> QED
      BY <2>1, <2>2, <2>3, DominantIsSide
  <1>6. \E p \in S : p \in Nat /\ p >= 64
    BY <1>1, <1>4
  <1>7. ASSUME NEW s \in grid
        PROVE  s \in Nat /\ s % 80 = a /\ IsHit(X, s + 64)
    BY <1>1, GridFacts
  <1>8. ASSUME NEW k \in K + 2 .. Frames, a = 79 PROVE 80 * k - 1 \in FrameStarts(X)
    <2> DEFINE s == 80 * k - 1
    <2>1. s \in Nat /\ s % 80 = 79 /\ s + 64 = 80 * k + 63 /\ k \in K + 1 .. Frames
      <3>1. k \in Nat \ {0} /\ 80 * k - 1 = 80 * (k - 1) + 79
        BY <1>1
      <3> QED
        BY <1>1, <3>1
    <2>2. IsHit(X, s + 64)
      BY <1>1, <2>1 DEF IsAfter
    <2> HIDE DEF s
    <2>3. s \in grid
      BY <1>1, <1>8, <2>1, <2>2, GridFacts
    <2>4. s \in FrameStarts(X)
      BY <1>6, <2>3, IsMerged
    <2> QED
      BY <2>4 DEF s
  <1>9. ASSUME NEW k \in K + 2 .. Frames, a = 0 PROVE 80 * k - 1 \in FrameStarts(X)
    <2>1. PICK m \in K .. K + 2 : /\ 80 * m + 63 \in S /\ 80 * m + 63 - 80 \notin S
                                  /\ \A j \in m .. Frames : 80 * j + 63 \in S
      <3>1. K + 2 <= Frames
        BY <1>1
      <3> QED
        BY <3>1, RunBegins
    <2> DEFINE p == 80 * m + 63
               C == ChainFrom(S, p)
    <2>2. \A j \in K + 2 .. Frames : 80 * j + 63 \in C
      <3> SUFFICES ASSUME NEW j \in K + 2 .. Frames PROVE 80 * j + 63 \in C
        OBVIOUS
      <3>1. j - m \in Nat /\ p + 80 * (j - m) = 80 * j + 63 /\ p \in Nat
        BY <1>1
      <3>2. \A i \in 0 .. j - m : m + i \in m .. Frames /\ p + 80 * i = 80 * (m + i) + 63
        BY <1>1
      <3> HIDE DEF S, p
      <3>3. \A i \in 0 .. j - m : p + 80 * i \in S
        BY <2>1, <3>2
      <3>4. p + 80 * (j - m) \in C
        BY <3>1, <3>3, ChainHas
      <3> QED
        BY <3>1, <3>4
    <2>3. IsFiniteSet(C)
      <3>1. C \subseteq S
        BY DEF ChainFrom
      <3> QED
        BY <1>3, <3>1, FS_Subset
    <2>4. Accepted(X, C)
      <3> DEFINE s == 80 * (K + 2) - 1
      <3>1. /\ \A i \in 0 .. 4 : K + 2 + i \in K + 2 .. Frames /\ s + 64 + 80 * i = 80 * (K + 2 + i) + 63
            /\ s \in Nat /\ s + 80 = 80 * (K + 3) - 1
        BY <1>1
      <3> HIDE DEF C
      <3>2. \A i \in 0 .. 4 : s + 64 + 80 * i \in C
        BY <2>2, <3>1
      <3>3. Increment(DecodeTimecode(X, s), DropFrame) = DecodeTimecode(X, s + 80)
        BY <3>1
      <3> HIDE DEF s
      <3> QED
        BY <2>3, <3>1, <3>2, <3>3, ChainIsAccepted
    <2> DEFINE q == 80 * k + 63
    <2>5. q >= 64 /\ q - 64 = 80 * k - 1 /\ q \in C
      BY <1>1, <2>2
    <2>6. q - 64 \in ChainStarts(X, S)
      <3>1. p \in S /\ p - 80 \notin S
        BY <2>1
      <3> HIDE DEF q, p, S
      <3> QED
        BY <2>4, <2>5, <3>1, ChainStartsHas
    <2>7. ASSUME NEW g \in grid PROVE (80 * k - 1) - g >= 40
      <3>1. g \in Nat /\ g % 80 = 0 /\ IsHit(X, g + 64)
        BY <1>7, <1>9
      <3>2. \/ \E j \in 1 .. K - 1 : g = 80 * j
            \/ IsOdd(b, K, g + 64) /\ 80 * K - 79 <= g /\ g <= 80 * K + 15
            \/ \E j \in K + 1 .. Frames : g = 80 * j - 1
        BY <3>1, SlippedStarts
      <3>3. ~(\E j \in K + 1 .. Frames : g = 80 * j - 1)
        BY <1>1, <3>1
      <3>4. g <= 80 * K + 15
        BY <1>1, <3>1, <3>2, <3>3
      <3> QED
        BY <1>1, <3>1, <3>4
    <2> DEFINE s == 80 * k - 1
    <2>8. s \in ChainStarts(X, S)
      BY <2>5, <2>6
    <2> HIDE DEF S, grid, s
    <2>9. s \in FrameStarts(X)
      BY <1>6, <2>7, <2>8, IsMerged DEF S, grid, s
    <2> QED
      BY <2>9 DEF s
  <1> QED
    BY <1>5, <1>8, <1>9

-----------------------------------------------------------------------------
(* Decoding a frame.                                                       *)

\* The loop of BitsToNat.
AreSums(f, X, q, n) == f = [i \in 0 .. n |-> IF i = 0 THEN 0 ELSE f[i - 1] + X[q + i] * Weight[i]]

\* The loop of BitsToNat has a value.
LEMMA SumsExist ==
    ASSUME NEW X, NEW q, NEW n \in Nat
    PROVE  \E f : AreSums(f, X, q, n)
  <1> DEFINE S == {m \in 0 .. n : \E f : AreSums(f, X, q, m)}
  <1>1. 0 \in S
    <2>1. AreSums([i \in 0 .. 0 |-> 0], X, q, 0)
      BY DEF AreSums
    <2> QED
      BY <2>1
  <1>2. ASSUME NEW m \in 1 .. n, m - 1 \in S PROVE m \in S
    <2>1. PICK f : AreSums(f, X, q, m - 1)
      BY <1>2
    <2> DEFINE g == [i \in 0 .. m |-> IF i = m THEN f[m - 1] + X[q + m] * Weight[m] ELSE f[i]]
    <2>2. \A i \in 0 .. m : i # m => i \in 0 .. m - 1 /\ g[i] = f[i]
      OBVIOUS
    <2>3. \A i \in 0 .. m : i # 0 => i - 1 \in 0 .. m - 1 /\ g[i - 1] = f[i - 1]
      OBVIOUS
    <2>4. \A i \in 0 .. m - 1 : f[i] = IF i = 0 THEN 0 ELSE f[i - 1] + X[q + i] * Weight[i]
      BY <2>1 DEF AreSums
    <2>5. \A i \in 0 .. m : g[i] = IF i = 0 THEN 0 ELSE g[i - 1] + X[q + i] * Weight[i]
      BY <2>2, <2>3, <2>4
    <2>6. AreSums(g, X, q, m)
      BY <2>5 DEF AreSums
    <2> QED
      BY <2>6
  <1>3. 0 .. n \subseteq S
    BY <1>1, <1>2, Counting
  <1> QED
    BY <1>3

\* The bits of a number give the number.
LEMMA BitsToNatOfBits ==
    ASSUME NEW X, NEW q \in Nat, NEW val \in Nat, NEW n \in 2 .. 4,
           n = 2 => val < 4, n = 3 => val < 8, n = 4 => val < 16,
           \A i \in 1 .. n : X[q + i] = (val \div Weight[i]) % 2
    PROVE  BitsToNat(X, q, n) = val
  <1> DEFINE f == CHOOSE h : AreSums(h, X, q, n)
             w(i) == (val \div Weight[i]) % 2
  <1>1. AreSums(f, X, q, n)
    BY SumsExist
  <1>2. BitsToNat(X, q, n) = f[n]
    BY DEF BitsToNat, AreSums
  <1> HIDE DEF f
  <1>3. \A i \in 0 .. n : f[i] = IF i = 0 THEN 0 ELSE f[i - 1] + X[q + i] * Weight[i]
    BY <1>1 DEF AreSums
  <1>4. /\ 0 \in 0 .. n /\ 1 \in 0 .. n /\ 2 \in 0 .. n /\ 1 - 1 = 0 /\ 2 - 1 = 1 /\ 3 - 1 = 2 /\ 4 - 1 = 3
        /\ 1 \in 1 .. n /\ 2 \in 1 .. n
        /\ n >= 3 => 3 \in 0 .. n /\ 3 \in 1 .. n
        /\ n >= 4 => 4 \in 0 .. n /\ 4 \in 1 .. n
    OBVIOUS
  <1>5. /\ X[q + 1] = val % 2 /\ X[q + 2] = (val \div 2) % 2
        /\ n >= 3 => X[q + 3] = (val \div 4) % 2
        /\ n >= 4 => X[q + 4] = (val \div 8) % 2
    <2>1. /\ X[q + 1] = (val \div Weight[1]) % 2 /\ X[q + 2] = (val \div Weight[2]) % 2
          /\ n >= 3 => X[q + 3] = (val \div Weight[3]) % 2
          /\ n >= 4 => X[q + 4] = (val \div Weight[4]) % 2
      BY ONLY <1>4, Zenon, \A i \in 1 .. n : X[q + i] = (val \div Weight[i]) % 2
    <2>2. val \div 1 = val
      OBVIOUS
    <2> QED
      BY <2>1, <2>2, Weights
  <1>6. /\ f[0] = 0 /\ f[1] = f[0] + X[q + 1] * Weight[1] /\ f[2] = f[1] + X[q + 2] * Weight[2]
        /\ n >= 3 => f[3] = f[2] + X[q + 3] * Weight[3]
        /\ n >= 4 => f[4] = f[3] + X[q + 4] * Weight[4]
    BY ONLY <1>3, <1>4
  <1>7. f[2] = (val % 2) + 2 * ((val \div 2) % 2)
    BY ONLY <1>5, <1>6, Weights, val \in Nat
  <1>8. n >= 3 => f[3] = (val % 2) + 2 * ((val \div 2) % 2) + 4 * ((val \div 4) % 2)
    BY ONLY <1>5, <1>6, <1>7, Weights, val \in Nat
  <1>9. n >= 4 => f[4] = (val % 2) + 2 * ((val \div 2) % 2) + 4 * ((val \div 4) % 2) + 8 * ((val \div 8) % 2)
    BY ONLY <1>4, <1>5, <1>6, <1>8, Weights, val \in Nat, n \in 2 .. 4
  <1>10. CASE n = 2
    BY ONLY <1>7, <1>10, val \in Nat, n = 2 => val < 4, <1>2
  <1>11. CASE n = 3
    BY ONLY <1>8, <1>11, val \in Nat, n = 3 => val < 8, <1>2
  <1>12. CASE n = 4
    BY ONLY <1>9, <1>12, val \in Nat, n = 4 => val < 16, <1>2
  <1> QED
    BY <1>10, <1>11, <1>12

\* A frame whose first 58 bits are right is decoded.
LEMMA DecodesTo ==
    ASSUME NEW t \in Timecodes, Valid(t), NEW X, NEW s \in Nat,
           \A i \in 1 .. 58 : X[s + i] = GetLtcBits(t)[i]
    PROVE  DecodeTimecode(X, s) = t
  <1> DEFINE g == GetLtcBits(t)
  <1>1. /\ IsWritten(g, 0, t.frames % 10, 4) /\ IsWritten(g, 8, t.frames \div 10, 2)
        /\ IsWritten(g, 16, t.seconds % 10, 4) /\ IsWritten(g, 24, t.seconds \div 10, 3)
        /\ IsWritten(g, 32, t.minutes % 10, 4) /\ IsWritten(g, 40, t.minutes \div 10, 3)
        /\ IsWritten(g, 48, t.hours % 10, 4) /\ IsWritten(g, 56, t.hours \div 10, 2)
    BY BitsOfFrame
  <1>2. /\ t.frames \in Nat /\ t.seconds \in Nat /\ t.minutes \in Nat /\ t.hours \in Nat
        /\ t = At(t.hours, t.minutes, t.seconds, t.frames)
    BY DEF Timecodes, At
  <1>3. t.frames < 40 /\ t.seconds < 80 /\ t.minutes < 80 /\ t.hours < 40
    BY <1>2, FramesAssumption, TimecodeAssumption DEF Valid
  <1> HIDE DEF g
  <1>4. \A i \in 1 .. 58 : X[s + i] = g[i]
    BY DEF g
  <1>5. ASSUME NEW p \in Nat, NEW n \in 2 .. 4, NEW val \in Nat, p + n <= 58, IsWritten(g, p, val, n),
               n = 2 => val < 4, n = 3 => val < 8, n = 4 => val < 16
        PROVE  BitsToNat(X, s + p, n) = val
    <2>1. \A i \in 1 .. n : p + i \in 1 .. 58 /\ s + (p + i) = (s + p) + i
      BY <1>5
    <2>2. \A i \in 1 .. n : X[(s + p) + i] = g[p + i]
      BY <1>4, <2>1
    <2>3. \A i \in 1 .. n : X[(s + p) + i] = (val \div Weight[i]) % 2
      BY <1>5, <2>2 DEF IsWritten
    <2>4. s + p \in Nat
      OBVIOUS
    <2> DEFINE q == s + p
    <2> HIDE DEF q
    <2>5. q \in Nat /\ \A i \in 1 .. n : X[q + i] = (val \div Weight[i]) % 2
      BY <2>3, <2>4 DEF q
    <2>6. BitsToNat(X, q, n) = val
      BY <1>5, <2>5, BitsToNatOfBits
    <2> QED
      BY <2>6 DEF q
  <1>6. ASSUME NEW p \in Nat, NEW tens \in 2 .. 3, NEW v \in Nat, p + 8 + tens <= 58,
               tens = 2 => v < 40, tens = 3 => v < 80,
               IsWritten(g, p, v % 10, 4), IsWritten(g, p + 8, v \div 10, tens)
        PROVE  BitsToNat(X, s + p + 8, tens) * 10 + BitsToNat(X, s + p, 4) = v
    <2>0. /\ v % 10 \in Nat /\ v % 10 < 16 /\ v \div 10 \in Nat /\ (v \div 10) * 10 + (v % 10) = v
          /\ v < 40 => v \div 10 < 4
          /\ v < 80 => v \div 10 < 8
      BY ONLY v \in Nat
    <2>1. /\ p + 4 <= 58 /\ 4 \in 2 .. 4 /\ 4 # 2 /\ 4 # 3
          /\ tens \in 2 .. 4 /\ p + 8 \in Nat /\ s + (p + 8) = s + p + 8
          /\ tens = 2 => v \div 10 < 4
          /\ tens = 3 => v \div 10 < 8
          /\ tens # 4 /\ (p + 8) + tens <= 58
      BY <1>6, <2>0
    <2>2. BitsToNat(X, s + p, 4) = v % 10
      BY <1>5, <1>6, <2>0, <2>1
    <2>3. BitsToNat(X, s + (p + 8), tens) = v \div 10
      BY <1>5, <1>6, <2>0, <2>1
    <2> QED
      BY <2>0, <2>2, <2>3
  <1>7. /\ BitsToNat(X, s + 0 + 8, 2) * 10 + BitsToNat(X, s + 0, 4) = t.frames
        /\ BitsToNat(X, s + 16 + 8, 3) * 10 + BitsToNat(X, s + 16, 4) = t.seconds
        /\ BitsToNat(X, s + 32 + 8, 3) * 10 + BitsToNat(X, s + 32, 4) = t.minutes
        /\ BitsToNat(X, s + 48 + 8, 2) * 10 + BitsToNat(X, s + 48, 4) = t.hours
    <2>1. 0 + 8 = 8 /\ 16 + 8 = 24 /\ 32 + 8 = 40 /\ 48 + 8 = 56 /\ 2 \in 2 .. 3 /\ 3 \in 2 .. 3
          /\ 0 + 8 + 2 <= 58 /\ 16 + 8 + 3 <= 58 /\ 32 + 8 + 3 <= 58 /\ 48 + 8 + 2 <= 58 /\ 2 # 3
          /\ 0 \in Nat /\ 16 \in Nat /\ 32 \in Nat /\ 48 \in Nat
      OBVIOUS
    <2>2. BitsToNat(X, s + 0 + 8, 2) * 10 + BitsToNat(X, s + 0, 4) = t.frames
      BY ONLY <1>1, <1>2, <1>3, <1>6, <2>1
    <2>3. BitsToNat(X, s + 16 + 8, 3) * 10 + BitsToNat(X, s + 16, 4) = t.seconds
      BY ONLY <1>1, <1>2, <1>3, <1>6, <2>1
    <2>4. BitsToNat(X, s + 32 + 8, 3) * 10 + BitsToNat(X, s + 32, 4) = t.minutes
      BY ONLY <1>1, <1>2, <1>3, <1>6, <2>1
    <2>5. BitsToNat(X, s + 48 + 8, 2) * 10 + BitsToNat(X, s + 48, 4) = t.hours
      BY ONLY <1>1, <1>2, <1>3, <1>6, <2>1
    <2> QED
      BY <2>2, <2>3, <2>4, <2>5
  <1> QED
    BY <1>2, <1>7 DEF DecodeTimecode

\* The bits of a frame as they were sent.
LEMMA FrameDecodes ==
    ASSUME NEW start \in Starts, NEW k \in 1 .. Frames, NEW X, NEW s \in Nat,
           \A i \in 1 .. 58 : X[s + i] = SentBits(start)[80 * k + i]
    PROVE  DecodeTimecode(X, s) = Sent[start][k]
  <1> DEFINE t == Sent[start][k]
  <1>1. t \in Timecodes /\ Valid(t)
    BY SentFacts
  <1>2. \A i \in 1 .. 80 : SentBits(start)[80 * k + i] = GetLtcBits(t)[i]
    BY SentBitsFacts
  <1> HIDE DEF t
  <1>3. \A i \in 1 .. 58 : X[s + i] = GetLtcBits(t)[i]
    <2>1. \A i \in 1 .. 58 : i \in 1 .. 80
      OBVIOUS
    <2> QED
      BY <1>2, <2>1
  <1>4. DecodeTimecode(X, s) = t
    BY SMT, <1>1, <1>3, DecodesTo
  <1> QED
    BY <1>4 DEF t

\* A frame of an aligned recording that is all there decodes to the timecode sent.
LEMMA AlignedDecodes ==
    ASSUME NEW start \in Starts, NEW X, NEW c \in Nat, NEW b \in Nat, NEW N,
           AlignedTo(X, SentBits(start), c, b, N),
           NEW k \in 1 .. Frames, NEW s \in Nat, s + c = 80 * k, s + 80 <= N,
           b = 0 \/ (c = 0 /\ FrameOf(b) # k)
    PROVE  DecodeTimecode(X, s) = Sent[start][k]
  <1> DEFINE T == SentBits(start)
  <1>1. /\ N \in Nat \ {0}
        /\ \A i \in 1 .. N - 1 : i # b => X[i] = T[i + c]
    BY DEF AlignedTo
  <1> HIDE DEF T
  <1>2. ASSUME NEW i \in 1 .. 58 PROVE X[s + i] = T[80 * k + i]
    <2>1. s + i \in 1 .. N - 1 /\ (s + i) + c = 80 * k + i
      BY <1>1
    <2>2. s + i # b
      <3>1. CASE b = 0
        BY <3>1
      <3>2. CASE c = 0 /\ FrameOf(b) # k
        <4>1. s + i = 80 * k + i /\ k \in Nat
          BY <3>2
        <4>2. (80 * k + i - 1) \div 80 = k
          BY ONLY <4>1, i \in 1 .. 58
        <4> QED
          BY <3>2, <4>1, <4>2 DEF FrameOf
      <3> QED
        BY <3>1, <3>2
    <2>3. X[s + i] = T[(s + i) + c]
      BY ONLY <1>1, <2>1, <2>2
    <2> QED
      BY ONLY <2>1, <2>3
  <1> QED
    BY SMTT(30), <1>2, FrameDecodes DEF T

\* In a slipped recording the frames on both sides decode to the timecodes sent.
LEMMA SlippedDecodes ==
    ASSUME NEW start \in Starts, NEW X, NEW b \in 81 .. Length - 2,
           SlippedAt(X, SentBits(start), b, Length - 1)
    PROVE  /\ \A k \in 1 .. FrameOf(b) - 1 : DecodeTimecode(X, 80 * k) = Sent[start][k]
           /\ \A k \in FrameOf(b) + 1 .. Frames :
                k # FrameOf(b + 1) => DecodeTimecode(X, 80 * k - 1) = Sent[start][k]
  <1> DEFINE T == SentBits(start)
             K == FrameOf(b)
             N == Length - 1
  <1>1. Length = 80 * (Frames + 1) /\ Frames \in Nat /\ Length \in Nat /\ b \in Nat /\ N = Length - 1
    BY LengthIsNat, FramesAssumption
  <1>2. K \in 1 .. Frames /\ b \in 80 * K + 1 .. 80 * K + 80
    BY <1>1 DEF FrameOf
  <1>3. /\ \A i \in 1 .. b - 1 : X[i] = T[i]
        /\ \A i \in b + 1 .. N - 1 : X[i] = T[i + 1]
    BY DEF SlippedAt
  <1>4. \A k \in Nat : FrameOf(b + 1) # k => b + 1 < 80 * k + 1 \/ b + 1 > 80 * k + 80
    BY <1>1 DEF FrameOf
  <1> HIDE DEF T, K, N
  <1>5. ASSUME NEW k \in 1 .. K - 1 PROVE DecodeTimecode(X, 80 * k) = Sent[start][k]
    <2>1. k \in 1 .. Frames /\ 80 * k \in Nat
      BY <1>1, <1>2
    <2>2. \A i \in 1 .. 58 : 80 * k + i \in 1 .. b - 1
      BY <1>1, <1>2
    <2>3. \A i \in 1 .. 58 : X[80 * k + i] = T[80 * k + i]
      BY ONLY <1>3, <2>2
    <2> QED
      BY <2>1, <2>3, FrameDecodes DEF T
  <1>6. ASSUME NEW k \in K + 1 .. Frames, k # FrameOf(b + 1)
        PROVE  DecodeTimecode(X, 80 * k - 1) = Sent[start][k]
    <2>1. k \in 1 .. Frames /\ 80 * k - 1 \in Nat /\ k \in Nat
      BY <1>1, <1>2
    <2>2. b + 1 < 80 * k + 1
      BY <1>1, <1>2, <1>4, <1>6, <2>1
    <2>3. \A i \in 1 .. 58 : (80 * k - 1) + i \in b + 1 .. N - 1 /\ ((80 * k - 1) + i) + 1 = 80 * k + i
      BY <1>1, <2>1, <2>2
    <2> DEFINE s == 80 * k - 1
    <2> HIDE DEF s
    <2>4. \A i \in 1 .. 58 : s + i \in b + 1 .. N - 1 /\ (s + i) + 1 = 80 * k + i
      BY <2>3 DEF s
    <2>5. \A i \in 1 .. 58 : X[s + i] = T[(s + i) + 1]
      BY ONLY <1>3, <2>4
    <2>6. \A i \in 1 .. 58 : X[s + i] = T[80 * k + i]
      BY ONLY <2>4, <2>5
    <2>7. s \in Nat
      BY <2>1 DEF s
    <2>8. DecodeTimecode(X, s) = Sent[start][k]
      BY <2>1, <2>6, <2>7, FrameDecodes DEF T
    <2> QED
      BY <2>8 DEF s
  <1> QED
    BY <1>5, <1>6 DEF K

\* Frames are found.
AreFound(G, X, start, ks) == \A k \in ks : \E s \in G : DecodeTimecode(X, s) = Sent[start][k]

\* But for one for each frame that is hurt, what is found are intact frames in their order.
AreTrue(G, X, start, hurt) ==
    \E W \in SUBSET G : \E K \in [W -> 1 .. Frames \ hurt] :
      /\ IsFiniteSet(G \ W) /\ Cardinality(G \ W) <= Cardinality(hurt)
      /\ \A s \in W : DecodeTimecode(X, s) = Sent[start][K[s]]
      /\ \A s, t \in W : s < t => K[s] < K[t]

\* What is left of a recording whose bits have not slipped.
IsClean(c, b, N, hurt) ==
    /\ N \in Nat /\ N + c <= Length + 1 /\ N + c >= 80 * Frames /\ c <= 160
    /\ b = 0 \/ (c = 0 /\ N = Length /\ b >= 81)
    /\ hurt = {} \/ \E h : hurt = {h}
    /\ \A k \in 1 .. Frames \ hurt :
         80 * k >= c /\ 80 * k - c + 80 <= N /\ (b = 0 \/ (c = 0 /\ FrameOf(b) # k))

\* What is heard aligned has its frames where nothing hurt them.
LEMMA AlignedIsClean ==
    ASSUME NEW X, NEW T, NEW hurt, HeardAligned(X, T, hurt)
    PROVE  \E c, b, N \in Nat : AlignedTo(X, T, c, b, N) /\ IsClean(c, b, N, hurt)
  <1>1. PICK c, b, N \in Nat :
          /\ AlignedTo(X, T, c, b, N)
          /\ \/ c = 0 /\ b = 0 /\ N = Length /\ hurt = {}
             \/ c = 0 /\ b = 0 /\ N \in 80 * Frames .. Length /\ hurt = {Frames}
             \/ c = 0 /\ b = 0 /\ N = Length + 1 /\ \E h \in 1 .. Frames : hurt = {h}
             \/ c \in 81 .. 160 /\ b = 0 /\ N = Length - c /\ hurt = {1}
             \/ c = 0 /\ b \in 81 .. Length /\ N = Length /\ hurt = {FrameOf(b)}
    BY DEF HeardAligned
  <1>2. Length = 80 * (Frames + 1) /\ Length \in Nat /\ Frames \in Nat /\ Frames >= 3
    BY LengthIsNat, FramesAssumption
  <1>3. CASE c = 0 /\ b = 0 /\ N = Length /\ hurt = {}
    BY <1>1, <1>2, <1>3 DEF IsClean
  <1>4. CASE c = 0 /\ b = 0 /\ N \in 80 * Frames .. Length /\ hurt = {Frames}
    <2>1. \A k \in 1 .. Frames \ {Frames} : 80 * k >= 0 /\ 80 * k - 0 + 80 <= N
      BY <1>2, <1>4
    <2>2. IsClean(c, b, N, hurt)
      BY <1>2, <1>4, <2>1 DEF IsClean
    <2> QED
      BY <1>1, <2>2
  <1>5. CASE c = 0 /\ b = 0 /\ N = Length + 1 /\ \E h \in 1 .. Frames : hurt = {h}
    <2>1. \A k \in 1 .. Frames : 80 * k >= 0 /\ 80 * k - 0 + 80 <= N
      BY <1>2, <1>5
    <2>2. IsClean(c, b, N, hurt)
      BY <1>2, <1>5, <2>1 DEF IsClean
    <2> QED
      BY <1>1, <2>2
  <1>6. CASE c \in 81 .. 160 /\ b = 0 /\ N = Length - c /\ hurt = {1}
    <2>1. \A k \in 1 .. Frames \ {1} : 80 * k >= c /\ 80 * k - c + 80 <= N
      BY <1>2, <1>6
    <2>2. IsClean(c, b, N, hurt)
      BY <1>2, <1>6, <2>1 DEF IsClean
    <2> QED
      BY <1>1, <2>2
  <1>7. CASE c = 0 /\ b \in 81 .. Length /\ N = Length /\ hurt = {FrameOf(b)}
    <2>1. \A k \in 1 .. Frames : 80 * k >= 0 /\ 80 * k - 0 + 80 <= N
      BY <1>2, <1>7
    <2>2. IsClean(c, b, N, hurt)
      BY <1>2, <1>7, <2>1 DEF IsClean
    <2> QED
      BY <1>1, <2>2
  <1> QED
    BY <1>1, <1>3, <1>4, <1>5, <1>6, <1>7

\* In an aligned recording every intact frame is found, and what is found is true.
LEMMA AlignedFrames ==
    ASSUME NEW start \in Starts, NEW X, NEW hurt, HeardAligned(X, SentBits(start), hurt)
    PROVE  LET G == FrameStarts(X)
           IN  /\ G \subseteq Nat /\ IsFiniteSet(G)
               /\ AreFound(G, X, start, 1 .. Frames \ hurt) /\ AreTrue(G, X, start, hurt)
  <1> DEFINE T == SentBits(start)
             G == FrameStarts(X)
  <1>1. PICK c, b, N \in Nat : AlignedTo(X, T, c, b, N) /\ IsClean(c, b, N, hurt)
    BY AlignedIsClean
  <1>2. IsSent(T)
    BY SentBitsFacts
  <1> HIDE DEF T
  <1>3. G = StartsOf(c, N)
    <2>1. CASE b = 0
      BY <1>1, <1>2, <2>1, CleanStarts DEF IsClean
    <2>2. CASE c = 0 /\ N = Length /\ b >= 81
      BY <1>1, <1>2, <2>2, WrongBitStarts
    <2> QED
      BY <1>1, <2>1, <2>2 DEF IsClean
  <1> HIDE DEF G
  <1>4. G \subseteq 0 .. N /\ G \subseteq Nat
    BY <1>3 DEF StartsOf
  <1>5. IsFiniteSet(G)
    <2>1. 0 \in Int /\ N \in Int
      OBVIOUS
    <2>2. IsFiniteSet(0 .. N)
      BY <2>1, FS_Interval, Zenon
    <2> QED
      BY <1>4, <2>2, FS_Subset
  <1>6. ASSUME NEW k \in 1 .. Frames \ hurt, NEW s \in Nat, s + c = 80 * k, s + 80 <= N
        PROVE  DecodeTimecode(X, s) = Sent[start][k]
    <2>1. b = 0 \/ (c = 0 /\ FrameOf(b) # k)
      BY <1>1 DEF IsClean
    <2> QED
      BY <1>1, <1>6, <2>1, AlignedDecodes DEF T
  <1>7. AreFound(G, X, start, 1 .. Frames \ hurt)
    <2> SUFFICES ASSUME NEW k \in 1 .. Frames \ hurt
                 PROVE  \E s \in G : DecodeTimecode(X, s) = Sent[start][k]
      BY DEF AreFound
    <2> DEFINE s == 80 * k - c
    <2>1. s \in Nat /\ s + c = 80 * k /\ s + 80 <= N
      BY <1>1, FramesAssumption DEF IsClean
    <2> HIDE DEF s
    <2>2. s \in G
      BY <1>3, <2>1 DEF StartsOf
    <2> QED
      BY <1>6, <2>1, <2>2
  <1> DEFINE k(s) == (s + c) \div 80
             W == {s \in G : k(s) \notin hurt}
             K == [s \in W |-> k(s)]
  <1>8. \A s \in G : s \in Nat /\ s + 80 <= N /\ k(s) \in 1 .. Frames /\ s + c = 80 * k(s)
    <2> SUFFICES ASSUME NEW s \in G PROVE s \in Nat /\ s + 80 <= N /\ k(s) \in 1 .. Frames /\ s + c = 80 * k(s)
      OBVIOUS
    <2>1. PICK j \in 1 .. Frames : s + c = 80 * j
      BY <1>3 DEF StartsOf
    <2>2. s \in Nat /\ s + 80 <= N
      BY <1>3 DEF StartsOf
    <2>3. k(s) = j
      BY <2>1, <2>2
    <2> QED
      BY <2>1, <2>2, <2>3
  <1> HIDE DEF k
  <1>9. K \in [W -> 1 .. Frames \ hurt]
    BY <1>8
  <1>10. \A s \in W : DecodeTimecode(X, s) = Sent[start][K[s]]
    BY <1>6, <1>8
  <1>11. \A s, t \in W : s < t => K[s] < K[t]
    <2> SUFFICES ASSUME NEW s \in W, NEW t \in W, s < t PROVE k(s) < k(t)
      OBVIOUS
    <2>1. s \in Nat /\ t \in Nat /\ k(s) \in Nat /\ k(t) \in Nat /\ s + c = 80 * k(s) /\ t + c = 80 * k(t)
      BY <1>8, FramesAssumption
    <2> QED
      BY <2>1
  <1>12. IsFiniteSet(G \ W) /\ Cardinality(G \ W) <= Cardinality(hurt)
    <2>1. CASE hurt = {}
      <3>1. G \ W = {}
        BY <2>1
      <3> QED
        BY <2>1, <3>1, FS_EmptySet
    <2>2. CASE \E h : hurt = {h}
      <3>1. PICK h : hurt = {h}
        BY <2>2
      <3>2. \A s, t \in G \ W : s = t
        <4> SUFFICES ASSUME NEW s \in G \ W, NEW t \in G \ W PROVE s = t
          OBVIOUS
        <4>1. k(s) = h /\ k(t) = h
          BY <3>1
        <4> QED
          BY <1>8, <4>1
      <3> HIDE DEF W
      <3>3. IsFiniteSet(G \ W) /\ Cardinality(G \ W) \in Nat /\ Cardinality(G \ W) <= 1
        BY <3>2, OneIsFew
      <3>4. Cardinality(hurt) = 1
        BY <3>1, FS_Singleton
      <3> QED
        BY <3>3, <3>4
    <2> QED
      BY <1>1, <2>1, <2>2 DEF IsClean
  <1>13. AreTrue(G, X, start, hurt)
    <2> HIDE DEF K
    <2>1. W \in SUBSET G
      OBVIOUS
    <2> HIDE DEF W
    <2> QED
      BY <1>9, <1>10, <1>11, <1>12, <2>1 DEF AreTrue
  <1> QED
    BY <1>4, <1>5, <1>7, <1>13 DEF G

\* The frames a lost crossing hurts.
LEMMA SlippedHurt ==
    ASSUME NEW b \in 81 .. Length - 2
    PROVE  /\ FrameOf(b) \in 1 .. Frames
           /\ FrameOf(b + 1) = FrameOf(b) \/ FrameOf(b + 1) = FrameOf(b) + 1
  <1>1. Length = 80 * (Frames + 1) /\ Frames \in Nat /\ b \in Nat
    BY LengthIsNat, FramesAssumption
  <1> QED
    BY <1>1 DEF FrameOf

\* In a slipped recording what is found is true: no more than one start is not
\* that of a frame sent.
LEMMA SlippedAreTrue ==
    ASSUME NEW start \in Starts, NEW X, NEW b, NEW K, IsSlipped(X, b, K), NEW hurt,
           hurt = {K} \/ hurt = {K, K + 1},
           \A k \in 1 .. K - 1 : DecodeTimecode(X, 80 * k) = Sent[start][k],
           \A k \in K + 1 .. Frames : k \notin hurt => DecodeTimecode(X, 80 * k - 1) = Sent[start][k]
    PROVE  AreTrue(FrameStarts(X), X, start, hurt)
  <1> DEFINE G == FrameStarts(X)
             IsL(s) == \E k \in 1 .. K - 1 : s = 80 * k
             IsR(s) == \E k \in K + 1 .. Frames : k \notin hurt /\ s = 80 * k - 1
             W == {s \in G : IsL(s) \/ IsR(s)}
             k(s) == (s + 1) \div 80
             F == [s \in W |-> k(s)]
             O == {s \in G : IsOdd(b, K, s + 64)}
  <1>1. K \in Nat /\ K <= Frames /\ Frames \in Nat /\ Len(X) \in Nat /\ K >= 1
    BY FramesAssumption DEF IsSlipped
  <1>2. \A s \in G : s \in Nat /\ IsHit(X, s + 64)
    BY <1>1, StartFacts
  <1>3. \A s, t \in O : s = t
    BY OddStarts
  <1>4. ASSUME NEW s \in G, s \notin W
        PROVE  s \in O \/ (hurt = {K, K + 1} /\ s = 80 * (K + 1) - 1)
    <2>1. \/ \E j \in 1 .. K - 1 : s = 80 * j
          \/ IsOdd(b, K, s + 64)
          \/ \E j \in K + 1 .. Frames : s = 80 * j - 1
      <3>1. s \in Nat /\ IsHit(X, s + 64) /\ IsSlipped(X, b, K)
        BY <1>2
      <3> QED
        BY ONLY <3>1, SlippedStarts
    <2>2. CASE \E j \in K + 1 .. Frames : s = 80 * j - 1
      <3>1. PICK j \in K + 1 .. Frames : s = 80 * j - 1
        BY <2>2
      <3>2. j \in hurt
        BY <1>4, <3>1
      <3>3. j = K + 1 /\ hurt = {K, K + 1}
        BY <1>1, <3>1, <3>2
      <3> QED
        BY <3>1, <3>3
    <2> QED
      BY <1>4, <2>1, <2>2
  <1>5. /\ \A s \in W : IsL(s) \/ IsR(s)
        /\ W \in SUBSET G
    OBVIOUS
  <1>6. ASSUME NEW s \in W
        PROVE  /\ k(s) \in 1 .. Frames \ hurt /\ DecodeTimecode(X, s) = Sent[start][k(s)]
               /\ (s = 80 * k(s) /\ k(s) < K) \/ (s = 80 * k(s) - 1 /\ k(s) > K)
    <2>1. CASE IsL(s)
      <3>1. PICK j \in 1 .. K - 1 : s = 80 * j
        BY <2>1
      <3>2. k(s) = j
        BY <3>1
      <3>3. j \in 1 .. Frames \ hurt
        BY <1>1
      <3> QED
        BY <1>1, <3>1, <3>2, <3>3
    <2>2. CASE IsR(s)
      <3>1. PICK j \in K + 1 .. Frames : j \notin hurt /\ s = 80 * j - 1
        BY <2>2
      <3>2. k(s) = j
        BY <1>1, <3>1
      <3>3. j \in 1 .. Frames \ hurt /\ j > K
        BY <1>1, <3>1
      <3> QED
        BY <3>1, <3>2, <3>3
    <2> QED
      BY <1>5, <2>1, <2>2
  <1>7. IsFiniteSet(G \ W) /\ Cardinality(G \ W) <= Cardinality(hurt)
    <2>1. CASE hurt = {K}
      <3>1. G \ W \subseteq O
        <4>1. K + 1 # K
          BY <1>1
        <4>2. hurt # {K, K + 1}
          BY <2>1, <4>1
        <4> QED
          BY <1>4, <4>2
      <3>2. \A s, t \in G \ W : s = t
        BY <1>3, <3>1
      <3> HIDE DEF G, W, O
      <3>3. IsFiniteSet(G \ W) /\ Cardinality(G \ W) \in Nat /\ Cardinality(G \ W) <= 1
        BY <3>2, OneIsFew
      <3> QED
        BY <2>1, <3>3, FS_Singleton
    <2>2. CASE hurt = {K, K + 1}
      <3>1. \E x : O \subseteq {x}
        <4> HIDE DEF O
        <4> QED
          BY <1>3
      <3>2. PICK x : O \subseteq {x}
        BY <3>1
      <3>3. G \ W \subseteq {x, 80 * (K + 1) - 1}
        BY <1>4, <3>2
      <3> HIDE DEF G, W, O
      <3>4. Cardinality(G \ W) \in Nat /\ Cardinality(G \ W) <= 2
        BY <3>3, TwoAreFew
      <3>5. IsFiniteSet(G \ W)
        <4>1. IsFiniteSet({x, 80 * (K + 1) - 1})
          <5>1. IsFiniteSet({x}) /\ {x, 80 * (K + 1) - 1} = {x} \cup {80 * (K + 1) - 1}
            BY FS_Singleton
          <5> QED
            BY <5>1, FS_AddElement
        <4> QED
          BY <3>3, <4>1, FS_Subset
      <3>6. Cardinality(hurt) = 2
        <4>1. IsFiniteSet({K}) /\ Cardinality({K}) = 1
          BY FS_Singleton
        <4>2. K + 1 \notin {K} /\ hurt = {K} \cup {K + 1}
          BY <1>1, <2>2
        <4> QED
          BY <4>1, <4>2, FS_AddElement
      <3> QED
        BY <3>4, <3>5, <3>6
    <2> QED
      BY <2>1, <2>2
  <1> HIDE DEF G, W, k
  <1>8. F \in [W -> 1 .. Frames \ hurt]
    BY <1>6
  <1>9. \A s \in W : DecodeTimecode(X, s) = Sent[start][F[s]]
    BY <1>6
  <1>10. \A s, t \in W : s < t => F[s] < F[t]
    <2> SUFFICES ASSUME NEW s \in W, NEW t \in W, s < t PROVE k(s) < k(t)
      OBVIOUS
    <2>1. /\ s \in Nat /\ t \in Nat /\ k(s) \in Nat /\ k(t) \in Nat
          /\ (s = 80 * k(s) /\ k(s) < K) \/ (s = 80 * k(s) - 1 /\ k(s) > K)
          /\ (t = 80 * k(t) /\ k(t) < K) \/ (t = 80 * k(t) - 1 /\ k(t) > K)
      <3> SUFFICES ASSUME NEW u \in W
                   PROVE  /\ u \in Nat /\ k(u) \in Nat
                          /\ (u = 80 * k(u) /\ k(u) < K) \/ (u = 80 * k(u) - 1 /\ k(u) > K)
        BY Zenon
      <3>1. u \in Nat
        BY <1>2, <1>5, Zenon
      <3>2. k(u) \in Nat
        <4>1. k(u) \in 1 .. Frames
          BY <1>6, Zenon
        <4> QED
          BY ONLY <4>1
      <3> QED
        BY <1>6, <3>1, <3>2, Zenon
    <2> QED
      BY ONLY <1>1, <2>1, s < t
  <1> HIDE DEF F
  <1> QED
    BY <1>5, <1>7, <1>8, <1>9, <1>10 DEF AreTrue, G

\* There are finitely many frame starts.
LEMMA StartsAreFinite ==
    ASSUME NEW X, Len(X) \in Nat
    PROVE  FrameStarts(X) \subseteq Nat /\ IsFiniteSet(FrameStarts(X))
  <1>1. \A s \in FrameStarts(X) : s \in Nat /\ s + 64 + 16 <= Len(X)
    BY StartFacts DEF IsHit
  <1>2. FrameStarts(X) \subseteq 0 .. Len(X)
    BY <1>1
  <1>3. IsFiniteSet(0 .. Len(X))
    <2>1. 0 \in Int /\ Len(X) \in Int
      OBVIOUS
    <2> QED
      BY <2>1, FS_Interval, Zenon
  <1> QED
    BY <1>1, <1>2, <1>3, FS_Subset

\* A recording whose bits have slipped.
LEMMA SlippedFrames ==
    ASSUME NEW start \in Starts, NEW X, NEW hurt, HeardSlipped(X, SentBits(start), hurt)
    PROVE  LET G == FrameStarts(X)
           IN  /\ G \subseteq Nat /\ IsFiniteSet(G) /\ AreTrue(G, X, start, hurt)
               /\ \E K \in 1 .. Frames :
                    /\ hurt = {K} \/ hurt = {K, K + 1}
                    /\ K - 1 >= 5 => AreFound(G, X, start, 1 .. K - 1)
                    /\ K + 6 <= Frames => AreFound(G, X, start, K + 2 .. Frames)
  <1> DEFINE G == FrameStarts(X)
             T == SentBits(start)
  <1>1. PICK b \in 81 .. Length - 2 :
          SlippedAt(X, T, b, Length - 1) /\ hurt = {FrameOf(b), FrameOf(b + 1)}
    BY DEF HeardSlipped
  <1>2. IsSent(T)
    BY SentBitsFacts
  <1> DEFINE K == FrameOf(b)
             M == FrameOf(b + 1)
  <1>3. K \in 1 .. Frames /\ (M = K \/ M = K + 1)
    BY SlippedHurt
  <1>4. /\ \A k \in 1 .. K - 1 : DecodeTimecode(X, 80 * k) = Sent[start][k]
        /\ \A k \in K + 1 .. Frames : k # M => DecodeTimecode(X, 80 * k - 1) = Sent[start][k]
    BY <1>1, SlippedDecodes
  <1> HIDE DEF T
  <1>5. IsSlipped(X, b, K)
    BY <1>1, <1>2, SlippedIsHit
  <1>6. hurt = {K, M}
    BY <1>1
  <1> HIDE DEF K, M
  <1>7. hurt = {K} \/ hurt = {K, K + 1}
    BY <1>3, <1>6
  <1>8. Frames \in Nat /\ K \in Nat
    BY <1>3, FramesAssumption
  <1>9. \A k \in K + 1 .. Frames : k \notin hurt => DecodeTimecode(X, 80 * k - 1) = Sent[start][k]
    BY <1>4, <1>6
  <1>10. AreTrue(G, X, start, hurt)
    BY <1>4, <1>5, <1>7, <1>9, SlippedAreTrue
  <1>11. G \subseteq Nat /\ IsFiniteSet(G)
    <2>1. Len(X) \in Nat
      BY <1>5 DEF IsSlipped
    <2> QED
      BY <2>1, StartsAreFinite
  <1>12. ASSUME K - 1 >= 5 PROVE AreFound(G, X, start, 1 .. K - 1)
    <2>1. 1 \in 1 .. K - 1 /\ 2 \in 1 .. K - 1 /\ 80 * 1 = 80 /\ 80 * 2 = 160 /\ 2 \in 2 .. Frames /\ 2 - 1 = 1
      BY <1>3, <1>8, <1>12
    <2>2. DecodeTimecode(X, 80) = Sent[start][1] /\ DecodeTimecode(X, 160) = Sent[start][2]
      BY <1>4, <2>1
    <2>3. Sent[start][2] = Increment(Sent[start][1], DropFrame)
      BY <2>1, SentFacts
    <2>4. Increment(DecodeTimecode(X, 80), DropFrame) = DecodeTimecode(X, 160)
      BY <2>2, <2>3
    <2>5. \A k \in 1 .. K - 1 : 80 * k \in G
      BY <1>5, <1>12, <2>4, BeforeIsFound
    <2> QED
      BY <1>4, <2>5 DEF AreFound
  <1>13. ASSUME K + 6 <= Frames PROVE AreFound(G, X, start, K + 2 .. Frames)
    <2>1. /\ \A k \in K + 2 .. Frames : k \in K + 1 .. Frames /\ k # M
          /\ K + 2 \in K + 2 .. Frames /\ K + 3 \in K + 2 .. Frames /\ K + 3 \in 2 .. Frames /\ (K + 3) - 1 = K + 2
      BY <1>3, <1>8, <1>13
    <2>2. \A k \in K + 2 .. Frames : DecodeTimecode(X, 80 * k - 1) = Sent[start][k]
      BY <1>4, <2>1
    <2>3. Sent[start][K + 3] = Increment(Sent[start][K + 2], DropFrame)
      <3>1. Sent[start][K + 3] = Increment(Sent[start][(K + 3) - 1], DropFrame)
        BY <2>1, SentFacts
      <3> QED
        BY <2>1, <3>1
    <2>4. Increment(DecodeTimecode(X, 80 * (K + 2) - 1), DropFrame) = DecodeTimecode(X, 80 * (K + 3) - 1)
      BY <2>1, <2>2, <2>3
    <2>5. \A k \in K + 2 .. Frames : 80 * k - 1 \in G
      BY <1>5, <1>13, <2>4, AfterIsFound
    <2> QED
      BY <2>2, <2>5 DEF AreFound
  <1> QED
    BY <1>3, <1>7, <1>10, <1>11, <1>12, <1>13

-----------------------------------------------------------------------------
(* What is found.                                                          *)

\* The members of a set of numbers have numbers, in their order.
LEMMA NthFacts ==
    ASSUME NEW G, G \subseteq Nat, IsFiniteSet(G)
    PROVE  LET n == Cardinality(G)
           IN  /\ n \in Nat
               /\ \A i \in 1 .. n : Nth(G, i) \in G
               /\ \A i, j \in 1 .. n : i < j => Nth(G, i) < Nth(G, j)
               /\ \A s \in G : \E i \in 1 .. n : Nth(G, i) = s
  <1> DEFINE n == Cardinality(G)
             Below(s) == {u \in G : u <= s}
             rank(s) == Cardinality(Below(s))
             f == [s \in G |-> rank(s)]
  <1>1. n \in Nat
    BY FS_CardinalityType
  <1>2. ASSUME NEW s \in G PROVE IsFiniteSet(Below(s)) /\ rank(s) \in 1 .. n
    <2>1. Below(s) \subseteq G /\ s \in Below(s)
      OBVIOUS
    <2> HIDE DEF Below
    <2>2. IsFiniteSet(Below(s)) /\ rank(s) <= n /\ rank(s) \in Nat
      BY <2>1, FS_Subset, FS_CardinalityType
    <2>3. rank(s) # 0
      BY <2>1, <2>2, FS_EmptySet
    <2> QED
      BY <1>1, <2>2, <2>3
  <1>3. ASSUME NEW s \in G, NEW t \in G, s < t PROVE rank(s) < rank(t)
    <2>0. s \in Nat /\ t \in Nat /\ t <= t /\ ~(t <= s) /\ \A u \in G : u <= s => u <= t
      <3>1. G \subseteq Nat
        OBVIOUS
      <3> QED
        BY ONLY <1>3, <3>1, s \in G, t \in G
    <2>1. Below(s) \subseteq Below(t) /\ t \in Below(t) /\ t \notin Below(s)
      BY <2>0
    <2>2. IsFiniteSet(Below(t)) /\ rank(s) \in Nat /\ rank(t) \in Nat /\ IsFiniteSet(Below(s))
      BY <1>2
    <2> HIDE DEF Below
    <2>3. Below(s) \cup {t} \subseteq Below(t)
      BY <2>1
    <2>4. Cardinality(Below(s) \cup {t}) = rank(s) + 1
      BY <2>1, <2>2, FS_AddElement
    <2>5. Cardinality(Below(s) \cup {t}) <= rank(t)
      BY <2>2, <2>3, FS_Subset
    <2> QED
      BY <2>2, <2>4, <2>5
  <1> HIDE DEF rank
  <1>4. \A s, t \in G : rank(s) = rank(t) => s = t
    <2> SUFFICES ASSUME NEW s \in G, NEW t \in G, rank(s) = rank(t) PROVE s = t
      OBVIOUS
    <2>0. rank(s) \in 1 .. n /\ rank(t) \in 1 .. n
      BY <1>2
    <2>1. s \in Nat /\ t \in Nat /\ rank(s) \in Nat /\ rank(t) \in Nat
      BY <1>1, <2>0
    <2>2. ~(s < t) /\ ~(t < s)
      BY <1>3, <2>1
    <2> QED
      BY <2>1, <2>2
  <1>5. f \in Injection(G, 1 .. n)
    BY <1>2, <1>4 DEF Injection, IsInjective
  <1>6. IsFiniteSet(1 .. n) /\ Cardinality(1 .. n) = n
    <2>1. 1 \in Int /\ n \in Int /\ (IF 1 > n THEN 0 ELSE n - 1 + 1) = n
      BY <1>1
    <2> HIDE DEF n
    <2> QED
      BY <2>1, FS_Interval
  <1>7. f \in Surjection(G, 1 .. n)
    <2> HIDE DEF f
    <2> QED
      BY <1>5, <1>6, FS_Injection
  <1>8. \A i \in 1 .. n : \E s \in G : rank(s) = i
    BY <1>7 DEF Surjection
  <1>9. \A i : Nth(G, i) = CHOOSE s \in G : rank(s) = i
    BY DEF Nth, rank
  <1>10. \A i \in 1 .. n : Nth(G, i) \in G /\ rank(Nth(G, i)) = i
    BY <1>8, <1>9
  <1>11. ASSUME NEW i \in 1 .. n, NEW j \in 1 .. n, i < j PROVE Nth(G, i) < Nth(G, j)
    <2> DEFINE s == Nth(G, i)
               t == Nth(G, j)
    <2>1. s \in G /\ t \in G /\ rank(s) = i /\ rank(t) = j
      BY <1>10
    <2> HIDE DEF s, t
    <2>2. s \in Nat /\ t \in Nat /\ i \in Nat /\ j \in Nat /\ s # t
      BY <1>1, <1>11, <2>1
    <2>3. ~(t < s)
      BY <1>3, <1>11, <2>1, <2>2
    <2>4. s < t
      BY <2>2, <2>3
    <2> QED
      BY <2>4 DEF s, t
  <1>12. ASSUME NEW s \in G PROVE \E i \in 1 .. n : Nth(G, i) = s
    <2>1. rank(s) \in 1 .. n
      BY <1>2
    <2>2. Nth(G, rank(s)) \in G /\ rank(Nth(G, rank(s))) = rank(s)
      BY <1>10, <2>1
    <2>3. Nth(G, rank(s)) = s
      BY <1>4, <2>2
    <2> QED
      BY <2>1, <2>3
  <1> QED
    BY <1>1, <1>10, <1>11, <1>12

\* A frame that is found is among what is found.
LEMMA FoundHas ==
    ASSUME NEW X, NEW start, NEW ks, FrameStarts(X) \subseteq Nat, IsFiniteSet(FrameStarts(X)),
           AreFound(FrameStarts(X), X, start, ks)
    PROVE  \A k \in ks : Sent[start][k] \in Range(FoundIn(X))
  <1> DEFINE G == FrameStarts(X)
             n == Cardinality(G)
             f == FoundIn(X)
  <1>1. \A s \in G : \E i \in 1 .. n : Nth(G, i) = s
    BY NthFacts
  <1>2. f = [i \in 1 .. n |-> DecodeTimecode(X, Nth(G, i))]
    BY DEF FoundIn
  <1>3. \A k \in ks : \E s \in G : DecodeTimecode(X, s) = Sent[start][k]
    BY DEF AreFound
  <1> HIDE DEF G, n, f
  <1>4. ASSUME NEW k \in ks PROVE Sent[start][k] \in Range(f)
    <2>1. PICK s \in G : DecodeTimecode(X, s) = Sent[start][k]
      BY <1>3
    <2>2. PICK i \in 1 .. n : Nth(G, i) = s
      BY <1>1
    <2>3. i \in DOMAIN f /\ f[i] = Sent[start][k]
      BY <1>2, <2>1, <2>2
    <2> QED
      BY <2>3 DEF Range
  <1> QED
    BY <1>4 DEF f

\* The readings f are those of the frames sent in their order, but for one that
\* is misread for each frame hurt at the most.
IsReadInOrder(f, start, hurt) ==
    \E n \in 0 .. Cardinality(hurt) : \E misread \in kSubset(n, DOMAIN f) :
      \E P \in [DOMAIN f \ misread -> 1 .. Frames \ hurt] :
        /\ \A i \in DOMAIN f \ misread : f[i] = Sent[start][P[i]]
        /\ \A i, j \in DOMAIN f \ misread : i < j => P[i] < P[j]

\* What is found is intact and in order but for a few.
LEMMA FoundIsOrdered ==
    ASSUME NEW X, NEW start \in Starts, NEW hurt, IsFiniteSet(hurt),
           FrameStarts(X) \subseteq Nat, IsFiniteSet(FrameStarts(X)), AreTrue(FrameStarts(X), X, start, hurt)
    PROVE  IsReadInOrder(FoundIn(X), start, hurt)
  <1> DEFINE G == FrameStarts(X)
             n == Cardinality(G)
             f == FoundIn(X)
  <1>1. /\ n \in Nat
        /\ \A i \in 1 .. n : Nth(G, i) \in G
        /\ \A i, j \in 1 .. n : i < j => Nth(G, i) < Nth(G, j)
    BY NthFacts
  <1>2. f = [i \in 1 .. n |-> DecodeTimecode(X, Nth(G, i))]
    BY DEF FoundIn
  <1>3. PICK W \in SUBSET G : \E K \in [W -> 1 .. Frames \ hurt] :
          /\ IsFiniteSet(G \ W) /\ Cardinality(G \ W) <= Cardinality(hurt)
          /\ \A s \in W : DecodeTimecode(X, s) = Sent[start][K[s]]
          /\ \A s, t \in W : s < t => K[s] < K[t]
    BY DEF AreTrue
  <1>4. PICK K \in [W -> 1 .. Frames \ hurt] :
          /\ IsFiniteSet(G \ W) /\ Cardinality(G \ W) <= Cardinality(hurt)
          /\ \A s \in W : DecodeTimecode(X, s) = Sent[start][K[s]]
          /\ \A s, t \in W : s < t => K[s] < K[t]
    BY <1>3
  <1> DEFINE misread == {i \in 1 .. n : Nth(G, i) \notin W}
             P == [i \in 1 .. n \ misread |-> K[Nth(G, i)]]
             g == [i \in misread |-> Nth(G, i)]
  <1> HIDE DEF G, n, f
  <1>5. DOMAIN f = 1 .. n
    BY <1>2
  <1>6. g \in Injection(misread, G \ W)
    <2>1. g \in [misread -> G \ W]
      BY <1>1
    <2>2. \A i, j \in misread : Nth(G, i) = Nth(G, j) => i = j
      <3> SUFFICES ASSUME NEW i \in misread, NEW j \in misread, Nth(G, i) = Nth(G, j) PROVE i = j
        OBVIOUS
      <3>1. i \in 1 .. n /\ j \in 1 .. n /\ i \in Nat /\ j \in Nat
        BY <1>1
      <3>2. Nth(G, i) \in Nat /\ Nth(G, j) \in Nat
        BY <1>1, <3>1 DEF G
      <3>3. ~(i < j) /\ ~(j < i)
        BY <1>1, <3>1, <3>2
      <3> QED
        BY <3>1, <3>3
    <2> QED
      BY <2>1, <2>2 DEF Injection, IsInjective
  <1>7. IsFiniteSet(misread) /\ Cardinality(misread) <= Cardinality(hurt) /\ Cardinality(misread) \in Nat
        /\ Cardinality(hurt) \in Nat
    <2> HIDE DEF misread, g
    <2>1. IsFiniteSet(misread) /\ Cardinality(misread) <= Cardinality(G \ W)
      BY <1>4, <1>6, FS_Injection
    <2>2. Cardinality(misread) \in Nat /\ Cardinality(G \ W) \in Nat /\ Cardinality(hurt) \in Nat
      BY <1>4, <2>1, FS_CardinalityType
    <2> QED
      BY <1>4, <2>1, <2>2
  <1>8. misread \in kSubset(Cardinality(misread), DOMAIN f)
    <2>1. misread \subseteq 1 .. n
      OBVIOUS
    <2> HIDE DEF misread
    <2> QED
      BY <1>5, <2>1 DEF kSubset
  <1>9. P \in [1 .. n \ misread -> 1 .. Frames \ hurt]
    BY <1>4
  <1>10. ASSUME NEW i \in 1 .. n \ misread PROVE f[i] = Sent[start][P[i]]
    <2>1. Nth(G, i) \in W /\ f[i] = DecodeTimecode(X, Nth(G, i))
      BY <1>2
    <2>2. P[i] = K[Nth(G, i)]
      OBVIOUS
    <2> QED
      BY <1>4, <2>1, <2>2
  <1>11. ASSUME NEW i \in 1 .. n \ misread, NEW j \in 1 .. n \ misread, i < j PROVE P[i] < P[j]
    <2>1. Nth(G, i) \in W /\ Nth(G, j) \in W /\ Nth(G, i) < Nth(G, j)
      BY <1>1, <1>11
    <2> QED
      BY <1>4, <2>1
  <1> DEFINE m == Cardinality(misread)
  <1>12. m \in 0 .. Cardinality(hurt)
    BY <1>7
  <1> HIDE DEF misread, P, m
  <1>13. misread \in kSubset(m, DOMAIN f)
    BY <1>8 DEF m
  <1>14. \E Q \in [DOMAIN f \ misread -> 1 .. Frames \ hurt] :
           /\ \A i \in DOMAIN f \ misread : f[i] = Sent[start][Q[i]]
           /\ \A i, j \in DOMAIN f \ misread : i < j => Q[i] < Q[j]
    BY ONLY <1>5, <1>9, <1>10, <1>11
  <1>15. \E r \in 0 .. Cardinality(hurt) : \E mis \in kSubset(r, DOMAIN f) :
           \E Q \in [DOMAIN f \ mis -> 1 .. Frames \ hurt] :
             /\ \A i \in DOMAIN f \ mis : f[i] = Sent[start][Q[i]]
             /\ \A i, j \in DOMAIN f \ mis : i < j => Q[i] < Q[j]
    BY ONLY <1>12, <1>13, <1>14, Zenon
  <1>16. IsReadInOrder(f, start, hurt)
    BY ONLY <1>15, Zenon DEF IsReadInOrder
  <1> QED
    BY <1>16 DEF f

\* What is heard at the end, and what is found of it.
LEMMA FramesAtEnd ==
    ASSUME ReadingInv, done
    PROVE  LET start == recording.start
               hurt == recording.hurt
               G == FrameStarts(Closed)
           IN  /\ start \in Starts /\ found = FoundIn(Closed)
               /\ G \subseteq Nat /\ IsFiniteSet(G) /\ IsFiniteSet(hurt) /\ AreTrue(G, Closed, start, hurt)
               /\ \/ AreFound(G, Closed, start, 1 .. Frames \ hurt)
                  \/ /\ recording.kind = "lost" /\ Len(Closed) = Length - 1
                     /\ \E K \in 1 .. Frames :
                          /\ hurt = {K} \/ hurt = {K, K + 1}
                          /\ K - 1 >= 5 => AreFound(G, Closed, start, 1 .. K - 1)
                          /\ K + 6 <= Frames => AreFound(G, Closed, start, K + 2 .. Frames)
  <1> DEFINE start == recording.start
             hurt == recording.hurt
             G == FrameStarts(Closed)
             X == Closed
  <1>1. /\ start \in Starts
        /\ \/ HeardAligned(X, SentBits(start), hurt)
           \/ HeardSlipped(X, SentBits(start), hurt) /\ recording.kind = "lost"
    BY Heard DEF IsHeard
  <1>2. found = FoundIn(X)
    BY DEF ReadingInv
  <1> HIDE DEF start, hurt, X
  <1>3. CASE HeardAligned(X, SentBits(start), hurt)
    <2>1. IsFiniteSet(hurt)
      <3>1. PICK c, b, N \in Nat : IsClean(c, b, N, hurt)
        BY <1>3, AlignedIsClean
      <3> QED
        BY <3>1, FS_EmptySet, FS_Singleton DEF IsClean
    <2>2. LET H == FrameStarts(X)
          IN  H \subseteq Nat /\ IsFiniteSet(H) /\ AreFound(H, X, start, 1 .. Frames \ hurt)
              /\ AreTrue(H, X, start, hurt)
      BY <1>1, <1>3, AlignedFrames
    <2> QED
      BY <1>1, <1>2, <2>1, <2>2 DEF X, start, hurt
  <1>4. CASE HeardSlipped(X, SentBits(start), hurt) /\ recording.kind = "lost"
    <2>1. LET H == FrameStarts(X)
          IN  /\ H \subseteq Nat /\ IsFiniteSet(H) /\ AreTrue(H, X, start, hurt)
              /\ \E K \in 1 .. Frames :
                   /\ hurt = {K} \/ hurt = {K, K + 1}
                   /\ K - 1 >= 5 => AreFound(H, X, start, 1 .. K - 1)
                   /\ K + 6 <= Frames => AreFound(H, X, start, K + 2 .. Frames)
      BY <1>1, <1>4, SlippedFrames
    <2>2. PICK b : SlippedAt(X, SentBits(start), b, Length - 1) /\ hurt = {FrameOf(b), FrameOf(b + 1)}
      BY <1>4 DEF HeardSlipped
    <2>3. Len(X) = Length - 1
      BY <2>2 DEF SlippedAt
    <2>4. IsFiniteSet(hurt)
      <3> DEFINE k == FrameOf(b)
                 m == FrameOf(b + 1)
      <3>1. hurt = {k} \cup {m}
        BY <2>2
      <3> HIDE DEF k, m
      <3>2. IsFiniteSet({k})
        BY FS_Singleton
      <3> QED
        BY <3>1, <3>2, FS_AddElement
    <2> QED
      BY <1>1, <1>2, <1>4, <2>1, <2>3, <2>4 DEF X, start, hurt
  <1> QED
    BY <1>1, <1>3, <1>4

\* An interval of five numbers or more.
LEMMA IntervalSize ==
    ASSUME NEW m \in Nat, NEW n \in Nat, NEW S, S \subseteq m .. n, Cardinality(S) >= 5
    PROVE  n >= m + 4
  <1>1. IsFiniteSet(m .. n) /\ Cardinality(m .. n) = IF m > n THEN 0 ELSE n - m + 1
    <2>1. m \in Int /\ n \in Int
      OBVIOUS
    <2> QED
      BY <2>1, FS_Interval, Zenon
  <1>2. Cardinality(S) <= Cardinality(m .. n)
    BY <1>1, FS_Subset
  <1>3. Cardinality(S) \in Nat
    BY <1>1, FS_Subset, FS_CardinalityType
  <1> QED
    BY <1>1, <1>2, <1>3

\* At the end every frame that had to be found is found.
LEMMA IntactIsFoundAtEnd ==
    ASSUME ReadingInv
    PROVE  IntactIsFound
  <1> SUFFICES ASSUME done,
                      NEW side \in IF Slipped THEN {Before, After} ELSE {Intact},
                      ~Slipped \/ Cardinality(side) >= 5
               PROVE  \A k \in side : SentTimecodes[k] \in Range(found)
    BY DEF IntactIsFound
  <1> DEFINE start == recording.start
             hurt == recording.hurt
             X == Closed
             G == FrameStarts(X)
  <1>1. /\ start \in Starts /\ found = FoundIn(X) /\ G \subseteq Nat /\ IsFiniteSet(G)
        /\ \/ AreFound(G, X, start, 1 .. Frames \ hurt)
           \/ /\ recording.kind = "lost" /\ Len(X) = Length - 1
              /\ \E K \in 1 .. Frames :
                   /\ hurt = {K} \/ hurt = {K, K + 1}
                   /\ K - 1 >= 5 => AreFound(G, X, start, 1 .. K - 1)
                   /\ K + 6 <= Frames => AreFound(G, X, start, K + 2 .. Frames)
    BY FramesAtEnd
  <1>2. SentTimecodes = Sent[start] /\ Intact = 1 .. Frames \ hurt
    BY DEF SentTimecodes, Intact
  <1>3. Length = 80 * (Frames + 1) /\ Frames \in Nat
    BY LengthIsNat, FramesAssumption
  <1>4. ASSUME NEW ks, AreFound(G, X, start, ks) PROVE \A k \in ks : SentTimecodes[k] \in Range(found)
    BY <1>1, <1>2, <1>4, FoundHas
  <1> HIDE DEF start, X, G
  <1>5. CASE AreFound(G, X, start, 1 .. Frames \ hurt)
    <2>1. side \subseteq 1 .. Frames \ hurt
      BY <1>2 DEF Before, After
    <2> QED
      BY <1>4, <1>5, <2>1
  <1>6. CASE /\ recording.kind = "lost" /\ Len(X) = Length - 1
             /\ \E K \in 1 .. Frames :
                  /\ hurt = {K} \/ hurt = {K, K + 1}
                  /\ K - 1 >= 5 => AreFound(G, X, start, 1 .. K - 1)
                  /\ K + 6 <= Frames => AreFound(G, X, start, K + 2 .. Frames)
    <2>1. PICK K \in 1 .. Frames :
            /\ hurt = {K} \/ hurt = {K, K + 1}
            /\ K - 1 >= 5 => AreFound(G, X, start, 1 .. K - 1)
            /\ K + 6 <= Frames => AreFound(G, X, start, K + 2 .. Frames)
      BY <1>6
    <2>2. Slipped
      <3>1. Len(X) # 80 * (Frames + 1)
        BY <1>3, <1>6
      <3> QED
        BY <1>6, <3>1 DEF Slipped, X, FrameBits
    <2>3. side \in {Before, After} /\ Cardinality(side) >= 5
      BY <2>2
    <2>4. CASE side = Before
      <3>1. side \subseteq 1 .. K - 1
        <4>1. \A k \in side : k \in 1 .. Frames /\ \A h \in hurt : k < h
          BY <1>2, <2>4 DEF Before
        <4>2. \A k \in side : k \in 1 .. Frames /\ k < K
          BY <2>1, <4>1, Zenon
        <4> QED
          BY <1>3, <4>2
      <3>2. 1 \in Nat /\ K - 1 \in Nat
        BY <1>3
      <3>3. K - 1 >= 1 + 4
        BY ONLY <2>3, <3>1, <3>2, IntervalSize
      <3>4. AreFound(G, X, start, 1 .. K - 1)
        BY <2>1, <3>3
      <3> QED
        BY <1>4, <3>1, <3>4
    <2>5. CASE side = After
      <3>1. side \subseteq K + 2 .. Frames
        <4>1. \A k \in side : k \in 1 .. Frames /\ \A h \in hurt : k > h + 1
          BY <1>2, <2>5 DEF After
        <4>2. \A k \in side : k \in 1 .. Frames /\ k > K + 1
          BY <2>1, <4>1, Zenon
        <4> QED
          BY <1>3, <4>2
      <3>2. K + 2 \in Nat
        BY <1>3
      <3>3. Frames >= (K + 2) + 4
        BY ONLY <1>3, <2>3, <3>1, <3>2, IntervalSize
      <3>4. AreFound(G, X, start, K + 2 .. Frames)
        BY <1>3, <2>1, <3>3
      <3> QED
        BY <1>4, <3>1, <3>4
    <2> QED
      BY <2>3, <2>4, <2>5
  <1> QED
    BY <1>1, <1>5, <1>6

\* At the end what is found is, in order, what was sent.
LEMMA FoundIsTrueAtEnd ==
    ASSUME ReadingInv
    PROVE  FoundIsTrue
  <1> SUFFICES ASSUME done
               PROVE  \E n \in 0 .. Cardinality(recording.hurt) :
                        \E misread \in kSubset(n, DOMAIN found) : InOrder(DOMAIN found \ misread)
    BY DEF FoundIsTrue
  <1> DEFINE start == recording.start
             hurt == recording.hurt
             G == FrameStarts(Closed)
  <1>1. /\ start \in Starts /\ found = FoundIn(Closed)
        /\ G \subseteq Nat /\ IsFiniteSet(G) /\ IsFiniteSet(hurt) /\ AreTrue(G, Closed, start, hurt)
    BY FramesAtEnd
  <1> DEFINE X == Closed
  <1> HIDE DEF X, start, hurt
  <1>1a. IsReadInOrder(FoundIn(X), start, hurt)
    <2>1. FrameStarts(X) \subseteq Nat /\ IsFiniteSet(FrameStarts(X)) /\ AreTrue(FrameStarts(X), X, start, hurt)
      BY <1>1 DEF X
    <2>2. start \in Starts /\ IsFiniteSet(hurt)
      BY <1>1
    <2> QED
      BY ONLY <2>1, <2>2, FoundIsOrdered, Zenon
  <1>1b. found = FoundIn(X)
    BY <1>1 DEF X
  <1>2. PICK n \in 0 .. Cardinality(hurt) : \E misread \in kSubset(n, DOMAIN found) :
          \E P \in [DOMAIN found \ misread -> 1 .. Frames \ hurt] :
            /\ \A i \in DOMAIN found \ misread : found[i] = Sent[start][P[i]]
            /\ \A i, j \in DOMAIN found \ misread : i < j => P[i] < P[j]
    <2>1. IsReadInOrder(found, start, hurt)
      BY <1>1a, <1>1b, Zenon
    <2> QED
      BY ONLY <2>1, Zenon DEF IsReadInOrder
  <1>3. PICK misread \in kSubset(n, DOMAIN found) :
          \E P \in [DOMAIN found \ misread -> 1 .. Frames \ hurt] :
            /\ \A i \in DOMAIN found \ misread : found[i] = Sent[start][P[i]]
            /\ \A i, j \in DOMAIN found \ misread : i < j => P[i] < P[j]
    BY <1>2
  <1> DEFINE entries == DOMAIN found \ misread
  <1>4. PICK P \in [entries -> 1 .. Frames \ hurt] :
            /\ \A i \in entries : found[i] = Sent[start][P[i]]
            /\ \A i, j \in entries : i < j => P[i] < P[j]
    BY <1>3
  <1>5. SentTimecodes = Sent[start] /\ Intact = 1 .. Frames \ hurt
    BY DEF SentTimecodes, Intact, start, hurt
  <1>6. \A j, k \in 1 .. Frames : Sent[start][j] = Sent[start][k] => j = k
    BY <1>1, SentAssumption
  <1> DEFINE place(i) == CHOOSE k \in Intact : found[i] = SentTimecodes[k]
  <1> HIDE DEF entries, start, hurt
  <1>7. ASSUME NEW i \in entries PROVE place(i) = P[i] /\ P[i] \in Intact
    <2>1. P[i] \in 1 .. Frames \ hurt /\ found[i] = Sent[start][P[i]]
      BY <1>4
    <2>2. \A k \in 1 .. Frames \ hurt : found[i] = Sent[start][k] => k = P[i]
      BY <1>6, <2>1
    <2> QED
      BY <1>5, <2>1, <2>2
  <1>8. InOrder(entries)
    <2>1. \A i \in entries : \E k \in Intact : found[i] = SentTimecodes[k]
      BY <1>4, <1>5, <1>7
    <2>2. \A i, j \in entries : i < j => place(i) < place(j)
      BY <1>4, <1>7
    <2> QED
      BY <2>1, <2>2 DEF InOrder
  <1> QED
    BY <1>2, <1>3, <1>8 DEF entries, hurt

-----------------------------------------------------------------------------
(* The theorems.                                                           *)

\* decode_bits_real_zc has at any time the first bits of what the intervals of
\* the recording say, wherever its loop stands, and the frames are looked for
\* in all of them.
THEOREM ReadingAlwaysTrue == Spec => []ReadingInv
  <1> QED
    BY ReadingInit, ReadingNext, PTL DEF Spec

\* find_frames loses no frame nothing happened to; if the bits have slipped, none
\* of a side of five frames or more.
THEOREM IntactAlwaysFound == Spec => []IntactIsFound
  <1>1. ReadingInv => IntactIsFound
    BY IntactIsFoundAtEnd
  <1> QED
    BY <1>1, ReadingAlwaysTrue, PTL

\* And it finds nothing twice, out of order or made up, but for one timecode for
\* each frame something happened to.
THEOREM FoundAlwaysTrue == Spec => []FoundIsTrue
  <1>1. ReadingInv => FoundIsTrue
    BY FoundIsTrueAtEnd
  <1> QED
    BY <1>1, ReadingAlwaysTrue, PTL
=============================================================================
