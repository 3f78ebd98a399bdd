------------------------- MODULE ParallelDecodeProofs -------------------------
(***************************************************************************)
(* Theorems about ParallelDecode and ChunkMerge, for every length of the   *)
(* file, of the chunks and of the overlap and for any number of workers:   *)
(* the plan of the chunks misses no frame of timecode, no chunk is decoded *)
(* twice, a result is given only for the whole file, and it has each frame *)
(* of timecode once.                                                       *)
(***************************************************************************)
EXTENDS ChunkMerge, SequenceTheorems, FiniteSetTheorems, WellFoundedInduction, TLAPS

-----------------------------------------------------------------------------
(* The inductive invariant.                                                *)

\* Where the chunks planned so far end.
PlannedEnd == chunks[Len(chunks)].last

Within(s, t) == \E i \in 1 .. Len(chunks) : chunks[i].first <= s /\ t <= chunks[i].last

\* Between two rounds of the loop, all that ends before the planned end is
\* within a chunk, and the next chunk begins one overlap before it.
PlanInv ==
    /\ pc \in {"extract", "extracted"} => chunks = <<>> /\ pos = 0
    /\ chunks = <<>> =>
           /\ pos = 0
           /\ Planned => total = 0 \/ result # None
    /\ chunks # <<>> =>
           /\ pc = "plan" => /\ PlannedEnd < total
                             /\ PlannedEnd >= Overlap
                             /\ pos = PlannedEnd - Overlap
           /\ Planned => PlannedEnd = total
           /\ \A s, t \in 0 .. total :
                  s < t /\ t - s <= Overlap /\ t <= PlannedEnd => Within(s, t)

\* A chunk below the counter is stored, or some worker has it, or the job is
\* cancelled.
WorkInv ==
    /\ pc \notin {"run", "join", "returned"} => ~Started
    /\ pc = "run" => \A w \in crew : wpc[w] # "idle"
    /\ pc \in {"join", "returned"} => \A w \in Workers : wpc[w] \in {"idle", "ended"}
    /\ \A w \in Workers \ crew : wpc[w] = "idle"
    /\ ~Started => nextChunk = 1
    /\ \A w \in Workers : wpc[w] \in Busy =>
           /\ held[w] \in 1 .. NumChunks /\ held[w] < nextChunk
           /\ results[held[w]] = NoResult
    /\ \A v, w \in Workers :
           v # w /\ wpc[v] \in Busy /\ wpc[w] \in Busy => held[v] # held[w]
    /\ Started =>
           \A i \in 1 .. NumChunks :
               /\ i >= nextChunk => results[i] = NoResult
               /\ results[i].kind = "none" => results[i] = NoResult
               /\ results[i].kind = "Cancelled" => cancelled
               /\ i < nextChunk =>
                      \/ results[i] # NoResult
                      \/ \E w \in crew : wpc[w] \in Busy /\ held[w] = i
                      \/ cancelled
    /\ \A w \in Workers : wpc[w] \in {"recheck", "count", "store"} =>
           /\ out[w].kind # "none"
           /\ out[w].kind = "Cancelled" => cancelled
    /\ \A w \in Workers : wpc[w] = "ended" => nextChunk > NumChunks \/ cancelled

ResultInv ==
    /\ pc \notin {"join", "returned"} => pending = None
    /\ pc # "returned" => result = None
    /\ pc = "join" => pending \in Ends
    /\ pc = "single" => Single
    /\ OkIsWhole

IInv == DecodeTypeOK /\ PlanInv /\ WorkInv /\ ResultInv

-----------------------------------------------------------------------------
(* Initial states.                                                         *)

LEMMA InitInv == Init => IInv
  <1> SUFFICES ASSUME Init PROVE IInv
      OBVIOUS
  <1> USE DecodeAssumption
  <1>1. ~Started
      BY DEF Init, Started
  <1>2. DecodeTypeOK
    <2>1. /\ total \in Nat /\ crew \in (SUBSET Workers) \ {{}}
          /\ chunks \in Seq([first : Nat, last : Nat]) /\ pos \in Nat
        BY DEF Init
    <2>2. /\ wpc \in [Workers -> Busy \cup {"idle", "claim", "ended"}]
          /\ held \in [Workers -> Nat]
        BY DEF Init
    <2>3. NoResult \in Outcomes
        BY DEF NoResult, Bad, Outcomes
    <2>4. out \in [Workers -> Outcomes]
        BY <2>3 DEF Init
    <2>5. pc \in {"extract", "extracted", "plan", "bridge", "single", "open",
                  "run", "join", "returned"}
        BY DEF Init
    <2>6. pending \in Ends \cup {None} /\ result \in Ends \cup {None}
        BY DEF Init
    <2>7. cancelled \in BOOLEAN
        BY DEF Init
    <2>8. nextChunk \in Nat \ {0}
        BY DEF Init
    <2> QED
        BY <1>1, <2>1, <2>2, <2>4, <2>5, <2>6, <2>7, <2>8 DEF DecodeTypeOK
  <1>3. PlanInv
      BY DEF Init, PlanInv, Planned
  <1>4. WorkInv
      BY <1>1 DEF Init, WorkInv, Busy, NoResult, Bad
  <1>5. ResultInv
      BY DEF Init, ResultInv, OkIsWhole
  <1> QED
      BY <1>2, <1>3, <1>4, <1>5 DEF IInv

-----------------------------------------------------------------------------
(* The plan.                                                               *)

LEMMA ChunkMonoIsLong ==
    ChunkMono \in Nat /\ ChunkMono >= 2 * Overlap /\ ChunkMono > Overlap
  BY DecodeAssumption DEF ChunkMono

LEMMA LastChunk ==
    ASSUME chunks \in Seq([first : Nat, last : Nat]), chunks # <<>>
    PROVE  Len(chunks) \in Nat \ {0} /\ PlannedEnd \in Nat
  <1>1. Len(chunks) \in Nat \ {0}
      BY EmptySeq, LenProperties
  <1>2. Len(chunks) \in 1 .. Len(chunks)
      BY <1>1
  <1>3. chunks[Len(chunks)] \in [first : Nat, last : Nat]
      BY <1>2, ElementOfSeq, Zenon
  <1>4. \A r \in [first : Nat, last : Nat] : r.last \in Nat
      OBVIOUS
  <1> QED
      BY <1>1, <1>3, <1>4 DEF PlannedEnd

\* A step that leaves the plan alone, and does not go back to planning.
LEMMA PlanKept ==
    ASSUME PlanInv, UNCHANGED <<chunks, pos, total>>,
           result # None => result' # None,
           \/ pc' = pc
           \/ Planned /\ Planned'
           \/ pc \in {"extract", "extracted"} /\ pc' \in {"extracted", "plan"}
           \/ pc \in {"extract", "extracted"} /\ pc' = "returned" /\ result' # None
    PROVE  PlanInv'
  <1>1. PlannedEnd' = PlannedEnd /\ \A s, t : Within(s, t)' = Within(s, t)
      BY DEF PlannedEnd, Within
  <1> QED
      BY <1>1 DEF PlanInv, Planned

LEMMA PlanChunkStep ==
    ASSUME IInv, PlanChunk
    PROVE  PlanInv' /\ chunks' \in Seq([first : Nat, last : Nat]) /\ pos' \in Nat
  <1> USE DecodeAssumption
  <1> DEFINE new == [first |-> pos, last |-> ChunkEnd]
  <1>1. /\ total \in Nat /\ pos \in Nat /\ pos < total
        /\ chunks \in Seq([first : Nat, last : Nat])
        /\ pc = "plan" /\ PlanInv
      BY DEF IInv, DecodeTypeOK, PlanChunk
  <1>2. /\ ChunkEnd \in Nat /\ ChunkEnd <= total /\ ChunkEnd > pos
        /\ ChunkEnd < total => ChunkEnd = pos + ChunkMono
      BY <1>1, ChunkMonoIsLong DEF ChunkEnd
  <1>3. new \in [first : Nat, last : Nat]
      BY <1>1, <1>2
  <1>4. /\ chunks' = Append(chunks, new) /\ total' = total
        /\ chunks' \in Seq([first : Nat, last : Nat])
        /\ Len(chunks') = Len(chunks) + 1 /\ Len(chunks) \in Nat
        /\ chunks' # <<>>
        /\ chunks'[Len(chunks')] = new
        /\ \A i \in 1 .. Len(chunks) : chunks'[i] = chunks[i]
      BY <1>1, <1>3 DEF PlanChunk, fileVars
  <1>5. PlannedEnd' = ChunkEnd
      BY <1>4 DEF PlannedEnd
  <1>6. \A s, t \in 0 .. total :
            s < t /\ t - s <= Overlap /\ t <= ChunkEnd => Within(s, t)'
    <2> SUFFICES ASSUME NEW s \in 0 .. total, NEW t \in 0 .. total,
                        s < t, t - s <= Overlap, t <= ChunkEnd
                 PROVE  Within(s, t)'
        OBVIOUS
    <2>1. CASE pos <= s
        BY <2>1, <1>1, <1>2, <1>4 DEF Within
    <2>2. CASE s < pos
      <3>0. pos # 0
          BY <2>2, <1>1
      <3>1a. chunks # <<>>
          BY <3>0, <1>1 DEF PlanInv
      <3>1. chunks # <<>> /\ pos = PlannedEnd - Overlap
          BY <3>1a, <1>1 DEF PlanInv
      <3>2. PlannedEnd \in Nat
          BY <3>1, <1>1, LastChunk
      <3>3. t <= PlannedEnd
          BY <2>2, <3>1, <3>2, <1>1
      <3>4. PICK i \in 1 .. Len(chunks) : chunks[i].first <= s /\ t <= chunks[i].last
          BY <3>1, <3>3, <1>1 DEF PlanInv, Within
      <3> QED
          BY <3>4, <1>4 DEF Within
    <2> QED
        BY <2>1, <2>2, <1>1
  <1>7. CASE ChunkEnd >= total
    <2>1. pc' = "bridge" /\ pos' = pos
        BY <1>7 DEF PlanChunk, Goto
    <2> QED
        BY <2>1, <1>1, <1>2, <1>4, <1>5, <1>6, <1>7 DEF PlanInv, Planned
  <1>8. CASE ChunkEnd < total
    <2>1. /\ ChunkEnd = pos + ChunkMono /\ ChunkEnd >= Overlap
          /\ NextStart(ChunkEnd) = ChunkEnd - Overlap /\ NextStart(ChunkEnd) > pos
        BY <1>1, <1>2, <1>8, ChunkMonoIsLong DEF NextStart
    <2>2. pc' = "plan" /\ pos' = ChunkEnd - Overlap /\ pos' \in Nat
        BY <2>1, <1>8, <1>1, <1>2 DEF PlanChunk, jobVars
    <2> QED
        BY <2>1, <2>2, <1>1, <1>2, <1>4, <1>5, <1>6, <1>8 DEF PlanInv, Planned
  <1> QED
      BY <1>7, <1>8, <1>1, <1>2

-----------------------------------------------------------------------------
(* Steps of the job that leave the work of the workers alone.              *)

Labels == {"extract", "extracted", "plan", "bridge", "single", "open", "run",
           "join", "returned"}

LEMMA TypeKept ==
    ASSUME DecodeTypeOK,
           UNCHANGED <<workVars, cancelled, crew, total>>,
           chunks' \in Seq([first : Nat, last : Nat]), pos' \in Nat,
           chunks' = chunks \/ ~Started,
           pc' \in Labels, pending' \in Ends \cup {None}, result' \in Ends \cup {None}
    PROVE  DecodeTypeOK'
  <1>1. Started' = Started
      BY DEF Started, workVars
  <1>2. Started' => results' \in [1 .. NumChunks' -> Outcomes]
      BY <1>1 DEF DecodeTypeOK, NumChunks, workVars
  <1>3. cancelled' \in BOOLEAN
      BY DEF DecodeTypeOK
  <1> QED
      BY <1>2, <1>3 DEF DecodeTypeOK, workVars, Labels

LEMMA WorkKept ==
    ASSUME WorkInv,
           UNCHANGED <<workVars, cancelled, crew>>,
           chunks' = chunks \/ ~Started,
           pc' \notin {"run", "join", "returned"} => ~Started,
           pc' = "run" => pc = "run",
           pc' \in {"join", "returned"} =>
               \A w \in Workers : wpc[w] \in {"idle", "ended"}
    PROVE  WorkInv'
  <1>1. Started' = Started
      BY DEF Started, workVars
  <1>2. CASE chunks' = chunks
      BY <1>1, <1>2 DEF WorkInv, workVars, NumChunks
  <1>3. CASE ~Started
    <2>1. \A w \in Workers : wpc[w] = "idle"
        BY <1>3 DEF WorkInv, Started
    <2> QED
        BY <1>1, <1>3, <2>1 DEF WorkInv, workVars, Busy
  <1> QED
      BY <1>2, <1>3

LEMMA ResultKept ==
    ASSUME ResultInv, DecodeAssumption,
           UNCHANGED <<workVars, crew, chunks>>,
           pc' \notin {"join", "returned"} => pending' = None,
           pc' # "returned" => result' = None,
           pc' = "join" => pending' \in Ends,
           pc' = "single" => Single,
           "Ok" \in {pending', result'} => "Ok" \in {pending, result} \/ Single
    PROVE  ResultInv'
  <1>1. Started' = Started /\ Single' = Single /\ NumChunks' = NumChunks
      BY DEF Started, workVars, Single, NumChunks
  <1>2. OkIsWhole'
      BY <1>1 DEF ResultInv, OkIsWhole, workVars
  <1> QED
      BY <1>1, <1>2 DEF ResultInv

LEMMA NotStarted ==
    ASSUME IInv, pc \notin {"run", "join", "returned"}
    PROVE  ~Started /\ \A w \in Workers : wpc[w] = "idle"
  BY DEF IInv, WorkInv, Started

LEMMA ExtractStep ==
    ASSUME IInv, Extract \/ OpenExtracted
    PROVE  IInv'
  <1> USE DecodeAssumption
  <1>1. /\ DecodeTypeOK /\ PlanInv /\ WorkInv /\ ResultInv
        /\ ~Started /\ \A w \in Workers : wpc[w] = "idle"
        /\ pc \in {"extract", "extracted"}
        /\ UNCHANGED <<fileVars, planVars, workVars, cancelled>>
      BY NotStarted DEF IInv, Extract, OpenExtracted
  <1>2. /\ pending' = pending
        /\ \/ result' = result /\ pc' \in {"extracted", "plan"}
           \/ result' \in {"Failed", "Cancelled"} /\ pc' = "returned"
      BY DEF Extract, OpenExtracted, Return, Goto
  <1>3. /\ pending = None /\ result = None
      BY <1>1 DEF ResultInv
  <1>4. DecodeTypeOK'
      BY <1>1, <1>2, TypeKept DEF fileVars, planVars, DecodeTypeOK, Ends, Labels
  <1>5. PlanInv'
      BY <1>1, <1>2, <1>3, PlanKept DEF fileVars, planVars
  <1>6. WorkInv'
      BY <1>1, <1>2, WorkKept DEF fileVars, planVars
  <1>7. ResultInv'
      BY <1>1, <1>2, <1>3, ResultKept DEF fileVars, planVars
  <1> QED
      BY <1>4, <1>5, <1>6, <1>7 DEF IInv

LEMMA PlanStep ==
    ASSUME IInv, PlanChunk \/ PlanNothing
    PROVE  IInv'
  <1> USE DecodeAssumption
  <1>1. /\ DecodeTypeOK /\ PlanInv /\ WorkInv /\ ResultInv
        /\ ~Started /\ \A w \in Workers : wpc[w] = "idle"
        /\ pc = "plan"
        /\ UNCHANGED <<fileVars, workVars, cancelled>>
      BY NotStarted DEF IInv, PlanChunk, PlanNothing
  <1>2. /\ pending' = pending /\ result' = result
        /\ pc' \in {"plan", "bridge"}
      BY <1>1 DEF PlanChunk, PlanNothing, Goto, jobVars
  <1>3. /\ pending = None /\ result = None
      BY <1>1 DEF ResultInv
  <1>4. PlanInv' /\ chunks' \in Seq([first : Nat, last : Nat]) /\ pos' \in Nat
    <2>1. CASE PlanChunk
        BY <2>1, PlanChunkStep
    <2>2. CASE PlanNothing
      <3>1. /\ UNCHANGED <<chunks, pos, total>> /\ pos >= total
            /\ pos \in Nat /\ total \in Nat
            /\ chunks \in Seq([first : Nat, last : Nat])
            /\ pc' = "bridge"
          BY <2>2, <1>1 DEF PlanNothing, fileVars, planVars, DecodeTypeOK, Goto
      <3>2. chunks = <<>> /\ pos = 0 /\ total = 0
        <4>1. CASE chunks # <<>>
          <5>1. PlannedEnd \in Nat
              BY <4>1, <3>1, LastChunk
          <5>2. PlannedEnd < total /\ pos = PlannedEnd - Overlap
              BY <4>1, <1>1 DEF PlanInv
          <5> QED
              BY <5>1, <5>2, <3>1
        <4>2. CASE chunks = <<>>
            BY <4>2, <3>1, <1>1 DEF PlanInv
        <4> QED
            BY <4>1, <4>2
      <3> QED
          BY <3>1, <3>2 DEF PlanInv
    <2> QED
        BY <2>1, <2>2
  <1>5. DecodeTypeOK'
      BY <1>1, <1>2, <1>4, TypeKept DEF fileVars, DecodeTypeOK, Labels
  <1>6. WorkInv'
      BY <1>1, <1>2, WorkKept DEF fileVars
  <1>7. ResultInv'
      BY <1>2, <1>3, DecodeAssumption DEF ResultInv, OkIsWhole
  <1> QED
      BY <1>4, <1>5, <1>6, <1>7 DEF IInv

\* What the remaining steps of the job leave alone.
LEMMA JobKeeps ==
    ASSUME IInv, UNCHANGED <<fileVars, planVars, workVars, cancelled>>,
           pc \in {"bridge", "single", "open", "run", "join"},
           pc' \in {"single", "open", "join", "returned"},
           pc' # "returned" => result' = None,
           pc' \in {"single", "open"} => pending' = None /\ ~Started,
           pc' = "single" => Single,
           pc' \in {"join", "returned"} =>
               \A w \in Workers : wpc[w] \in {"idle", "ended"},
           pending' \in Ends \cup {None}, result' \in Ends \cup {None},
           pc' = "join" => pending' \in Ends,
           pc' = "returned" => pc = "join",
           "Ok" \in {pending', result'} => OkIsWhole'
    PROVE  IInv'
  <1> USE DecodeAssumption
  <1>1. DecodeTypeOK /\ PlanInv /\ WorkInv /\ ResultInv
      BY DEF IInv
  <1>2. UNCHANGED <<chunks, pos, total, crew>>
      BY DEF fileVars, planVars
  <1>3. result = None
      BY <1>1 DEF ResultInv
  <1>4. DecodeTypeOK'
    <2>1. chunks' \in Seq([first : Nat, last : Nat]) /\ pos' \in Nat
        BY <1>1, <1>2 DEF DecodeTypeOK
    <2> QED
        BY <1>1, <1>2, <2>1, TypeKept DEF Labels
  <1>5. PlanInv'
      BY <1>1, <1>2, <1>3, PlanKept DEF Planned
  <1>6. WorkInv'
      BY <1>1, <1>2, WorkKept
  <1>7. ResultInv'
    <2>1. Single' = Single
        BY <1>2 DEF Single
    <2>2. OkIsWhole'
        BY DEF OkIsWhole
    <2> QED
        BY <2>1, <2>2 DEF ResultInv
  <1> QED
      BY <1>4, <1>5, <1>6, <1>7 DEF IInv

LEMMA StartBridgeStep ==
    ASSUME IInv, StartBridge
    PROVE  IInv'
  <1> USE DecodeAssumption
  <1>1. /\ UNCHANGED <<fileVars, planVars, workVars, cancelled>>
        /\ pc = "bridge" /\ pc' = IF Single THEN "single" ELSE "open"
        /\ pending' = pending /\ result' = result
      BY DEF StartBridge, Goto
  <1>2. ~Started /\ \A w \in Workers : wpc[w] = "idle"
      BY <1>1, NotStarted
  <1>3. pending = None /\ result = None
      BY <1>1 DEF IInv, ResultInv
  <1> QED
      BY <1>1, <1>2, <1>3, JobKeeps

LEMMA ConcludeStep ==
    ASSUME IInv, DecodeSingle \/ OpenFails
    PROVE  IInv'
  <1> USE DecodeAssumption
  <1>1. /\ UNCHANGED <<fileVars, planVars, workVars, cancelled>>
        /\ pc \in {"single", "open"} /\ pc' = "join"
        /\ pending' \in Ends /\ result' = result
        /\ pc = "open" => pending' = "Failed"
      BY DEF DecodeSingle, OpenFails, Conclude, Ends
  <1>2. ~Started /\ \A w \in Workers : wpc[w] = "idle"
      BY <1>1, NotStarted
  <1>3. result = None /\ (pc = "single" => Single)
      BY <1>1 DEF IInv, ResultInv
  <1>4. Single' = Single
      BY <1>1 DEF Single, planVars
  <1>5. "Ok" \in {pending', result'} => OkIsWhole'
      BY <1>1, <1>3, <1>4 DEF OkIsWhole
  <1> QED
      BY <1>1, <1>2, <1>3, <1>5, JobKeeps

LEMMA JoinStep ==
    ASSUME IInv, Join
    PROVE  IInv'
  <1> USE DecodeAssumption
  <1>1. /\ UNCHANGED <<fileVars, planVars, workVars, cancelled>>
        /\ pc = "join" /\ pc' = "returned"
        /\ pending' = pending /\ result' = pending
      BY DEF Join, Return
  <1>2. /\ pending \in Ends /\ OkIsWhole
        /\ \A w \in Workers : wpc[w] \in {"idle", "ended"}
      BY <1>1 DEF IInv, ResultInv, WorkInv
  <1>3. /\ Single' = Single /\ Started' = Started /\ NumChunks' = NumChunks
        /\ results' = results
      BY <1>1 DEF Single, Started, NumChunks, fileVars, planVars, workVars
  <1>4. OkIsWhole'
      BY <1>1, <1>2, <1>3 DEF OkIsWhole
  <1> QED
      BY <1>1, <1>2, <1>4, JobKeeps

\* All workers have ended: either a chunk is left to nobody, or the job is
\* cancelled and does not say that all is well.
LEMMA GatherStep ==
    ASSUME IInv, Gather
    PROVE  IInv'
  <1> USE DecodeAssumption
  <1>1. /\ UNCHANGED <<fileVars, planVars, workVars, cancelled>>
        /\ pc = "run" /\ pc' = "join" /\ \A w \in crew : wpc[w] = "ended"
        /\ pending' = Gathered /\ result' = result
      BY DEF Gather, Conclude
  <1>2. DecodeTypeOK /\ WorkInv /\ result = None
      BY <1>1 DEF IInv, ResultInv
  <1>3. \A w \in Workers : wpc[w] \in {"idle", "ended"}
      BY <1>1, <1>2 DEF WorkInv
  <1>4. PICK w \in crew : w \in Workers /\ wpc[w] = "ended"
      BY <1>1, <1>2 DEF DecodeTypeOK
  <1>5. Started
      BY <1>4 DEF Started
  <1>6. /\ Single' = Single /\ Started' = Started /\ NumChunks' = NumChunks
        /\ results' = results
      BY <1>1 DEF Single, Started, NumChunks, fileVars, planVars, workVars
  <1>7. ASSUME ~cancelled, NEW i \in 1 .. NumChunks
        PROVE  results[i].kind \in {"Ok", "Failed"}
    <2>1. nextChunk > NumChunks
        BY <1>2, <1>4, <1>7 DEF WorkInv
    <2>2. i < nextChunk
      <3>1. nextChunk \in Nat /\ NumChunks \in Nat
        <4>1. NumChunks \in Nat
            BY <1>2, LenProperties DEF DecodeTypeOK, NumChunks
        <4> QED
            BY <1>2, <4>1 DEF DecodeTypeOK
      <3> QED
          BY <2>1, <3>1
    <2>3. \A v \in crew : wpc[v] \notin Busy
        BY <1>1 DEF Busy
    <2>4. results[i] # NoResult
        BY <1>2, <1>5, <1>7, <2>2, <2>3 DEF WorkInv
    <2>5. results[i].kind # "none" /\ results[i].kind # "Cancelled"
        BY <1>2, <1>5, <1>7, <2>4 DEF WorkInv
    <2>6. results[i] \in Outcomes
        BY <1>2, <1>5 DEF DecodeTypeOK
    <2> QED
        BY <2>5, <2>6 DEF Outcomes
  <1>8. pending' = "Ok" => ~cancelled
      BY <1>1 DEF Gathered
  <1>9. "Ok" \in {pending', result'} => OkIsWhole'
      BY <1>1, <1>2, <1>5, <1>6, <1>7, <1>8 DEF OkIsWhole
  <1>10. pending' \in Ends
      BY <1>1 DEF Gathered, Ends
  <1> QED
      BY <1>1, <1>2, <1>3, <1>9, <1>10, JobKeeps

LEMMA StartWorkersStep ==
    ASSUME IInv, StartWorkers
    PROVE  IInv'
  <1> USE DecodeAssumption
  <1>1. /\ UNCHANGED <<fileVars, planVars, bridge, completed, cancelled,
                       units, nextChunk, held, mark, out>>
        /\ pc = "open" /\ pc' = "run" /\ pending' = pending /\ result' = result
        /\ results' = [i \in 1 .. NumChunks |-> NoResult]
        /\ wpc' = [w \in Workers |-> IF w \in crew THEN "claim" ELSE "idle"]
      BY DEF StartWorkers, Goto
  <1>2. /\ DecodeTypeOK /\ PlanInv /\ WorkInv /\ ResultInv
        /\ ~Started /\ pending = None /\ result = None
      BY <1>1, NotStarted DEF IInv, ResultInv
  <1>3. UNCHANGED <<chunks, pos, total, crew>> /\ NumChunks' = NumChunks
      BY <1>1 DEF fileVars, planVars, NumChunks
  <1>4. NoResult \in Outcomes /\ NoResult.kind = "none"
      BY DEF NoResult, Bad, Outcomes
  <1>5. \A w \in Workers : wpc'[w] \in {"claim", "idle"} /\ wpc'[w] \notin Busy
      BY <1>1 DEF Busy
  <1>6. \A w \in Workers : (w \in crew => wpc'[w] = "claim")
                            /\ (w \notin crew => wpc'[w] = "idle")
      BY <1>1
  <1>7. Started'
    <2>1. PICK w \in crew : w \in Workers
        BY <1>2 DEF DecodeTypeOK
    <2> QED
        BY <1>3, <1>6, <2>1 DEF Started
  <1>8. DecodeTypeOK'
    <2>1. results' \in [1 .. NumChunks' -> Outcomes]
        BY <1>1, <1>3, <1>4
    <2>2. wpc' \in [Workers -> Busy \cup {"idle", "claim", "ended"}]
        BY <1>1
    <2>3. cancelled' \in BOOLEAN
        BY <1>1, <1>2 DEF DecodeTypeOK
    <2>4. /\ total' \in Nat /\ crew' \in (SUBSET Workers) \ {{}}
          /\ chunks' \in Seq([first : Nat, last : Nat]) /\ pos' \in Nat
        BY <1>2, <1>3 DEF DecodeTypeOK
    <2>5. /\ pending' \in Ends \cup {None} /\ result' \in Ends \cup {None}
          /\ nextChunk' \in Nat \ {0} /\ held' \in [Workers -> Nat]
          /\ out' \in [Workers -> Outcomes]
        BY <1>1, <1>2 DEF DecodeTypeOK
    <2> QED
        BY <1>1, <2>1, <2>2, <2>3, <2>4, <2>5 DEF DecodeTypeOK
  <1>9. PlanInv'
      BY <1>1, <1>2, <1>3, PlanKept DEF Planned
  <1>10. WorkInv'
    <2>1. \A i \in 1 .. NumChunks : results'[i] = NoResult
        BY <1>1
    <2>2. nextChunk' = 1
        BY <1>1, <1>2 DEF WorkInv
    <2>3. NumChunks \in Nat
        BY <1>2, LenProperties DEF DecodeTypeOK, NumChunks
    <2>4. \A w \in Workers : wpc'[w] \notin {"recheck", "count", "store", "ended"}
        BY <1>5
    <2>5. \A w \in crew' : wpc'[w] # "idle"
        BY <1>2, <1>3, <1>6 DEF DecodeTypeOK
    <2>6. \A i \in 1 .. NumChunks' :
              /\ results'[i] = NoResult /\ results'[i].kind = "none"
              /\ ~(i < nextChunk')
        BY <1>3, <1>4, <2>1, <2>2, <2>3
    <2> QED
        BY <1>1, <1>3, <1>5, <1>6, <1>7, <2>2, <2>4, <2>5, <2>6 DEF WorkInv
  <1>11. ResultInv'
      BY <1>1, <1>2 DEF ResultInv, OkIsWhole
  <1> QED
      BY <1>8, <1>9, <1>10, <1>11 DEF IInv

-----------------------------------------------------------------------------
(* The workers.                                                            *)

\* What a step of a worker leaves alone, and what that settles.
LEMMA WorkerKeeps ==
    ASSUME IInv, NEW w \in Workers, Worker(w)
    PROVE  /\ UNCHANGED <<total, crew, chunks, pos, pc, pending, result, cancelled>>
           /\ w \in crew /\ Started /\ Started' /\ pc = "run"
           /\ NumChunks' = NumChunks /\ NumChunks \in Nat
           /\ \A v \in Workers \ {w} : wpc'[v] = wpc[v]
           /\ PlanInv' /\ ResultInv'
  <1> USE DecodeAssumption
  <1>1. DecodeTypeOK /\ PlanInv /\ WorkInv /\ ResultInv
      BY DEF IInv
  <1>2. UNCHANGED <<total, crew, chunks, pos, pc, pending, result, cancelled>>
      BY DEF Worker, Claim, Check, Start, Report, Decoded, Recheck, Count, Store,
             fileVars, planVars, jobVars
  <1>3. wpc[w] \notin {"idle", "ended"}
      BY DEF Worker, Claim, Check, Start, Report, Decoded, Recheck, Count, Store
  <1>4. w \in crew /\ Started /\ pc = "run"
    <2>1. w \in crew
        BY <1>1, <1>3 DEF WorkInv
    <2>2. Started
        BY <1>3, <2>1 DEF Started
    <2> QED
        BY <1>1, <1>3, <2>1, <2>2 DEF WorkInv, DecodeTypeOK
  <1>5. \E label \in Busy \cup {"claim", "ended"} : Enter(w, label) \/ wpc' = wpc
      BY DEF Worker, Claim, Check, Start, Report, Decoded, Recheck, Count, Store, Busy
  <1>6. /\ \A v \in Workers \ {w} : wpc'[v] = wpc[v]
        /\ wpc'[w] # "idle"
      BY <1>1, <1>3, <1>5 DEF DecodeTypeOK, Enter, Busy
  <1>7. Started'
      BY <1>2, <1>4, <1>6 DEF Started
  <1>8. NumChunks' = NumChunks /\ NumChunks \in Nat
      BY <1>1, <1>2, LenProperties DEF NumChunks, DecodeTypeOK
  <1>9. PlanInv'
      BY <1>1, <1>2, PlanKept
  <1>10. ResultInv'
    <2>1. pending = None /\ result = None
        BY <1>1, <1>4 DEF ResultInv
    <2> QED
        BY <1>2, <1>4, <2>1 DEF ResultInv, OkIsWhole
  <1> QED
      BY <1>2, <1>4, <1>6, <1>7, <1>8, <1>9, <1>10

\* The conjuncts of the type invariant that no worker can disturb.
LEMMA WorkerType ==
    ASSUME IInv, NEW w \in Workers, Worker(w),
           nextChunk' \in Nat \ {0}, held' \in [Workers -> Nat],
           out' \in [Workers -> Outcomes], results' \in [1 .. NumChunks -> Outcomes]
    PROVE  DecodeTypeOK'
  <1>1. DecodeTypeOK
      BY DEF IInv
  <1>2. /\ UNCHANGED <<total, crew, chunks, pos, pc, pending, result, cancelled>>
        /\ NumChunks' = NumChunks
      BY WorkerKeeps
  <1>3. wpc' \in [Workers -> Busy \cup {"idle", "claim", "ended"}]
    <2>1. \E label \in Busy \cup {"claim", "ended"} : Enter(w, label) \/ wpc' = wpc
        BY DEF Worker, Claim, Check, Start, Report, Decoded, Recheck, Count, Store, Busy
    <2> QED
        BY <1>1, <2>1 DEF DecodeTypeOK, Enter
  <1>4. cancelled' \in BOOLEAN
      BY <1>1, <1>2 DEF DecodeTypeOK
  <1>5. /\ total' \in Nat /\ crew' \in (SUBSET Workers) \ {{}}
        /\ chunks' \in Seq([first : Nat, last : Nat]) /\ pos' \in Nat
        /\ pc' \in Labels
        /\ pending' \in Ends \cup {None} /\ result' \in Ends \cup {None}
      BY <1>1, <1>2 DEF DecodeTypeOK, Labels
  <1> QED
      BY <1>2, <1>3, <1>4, <1>5 DEF DecodeTypeOK, Labels

\* A step of a worker with its chunk that neither takes nor stores one.
LEMMA QuietStep ==
    ASSUME IInv, NEW w \in Workers, Worker(w),
           UNCHANGED <<nextChunk, held, results>>,
           wpc[w] \in Busy, wpc'[w] \in Busy \cup {"ended"},
           wpc'[w] = "ended" => cancelled,
           out' \in [Workers -> Outcomes],
           \A v \in Workers \ {w} : out'[v] = out[v],
           wpc'[w] \in {"recheck", "count", "store"} =>
               /\ out'[w].kind # "none"
               /\ out'[w].kind = "Cancelled" => cancelled
    PROVE  IInv'
  <1>1. DecodeTypeOK /\ WorkInv
      BY DEF IInv
  <1>2. /\ UNCHANGED <<total, crew, chunks, pos, pc, pending, result, cancelled>>
        /\ w \in crew /\ Started /\ Started' /\ pc = "run"
        /\ NumChunks' = NumChunks /\ NumChunks \in Nat
        /\ \A v \in Workers \ {w} : wpc'[v] = wpc[v]
        /\ PlanInv' /\ ResultInv'
      BY WorkerKeeps
  <1>3. DecodeTypeOK'
      BY <1>1, <1>2, WorkerType DEF DecodeTypeOK
  <1>4. WorkInv'
    <2>1. \A v \in Workers : wpc'[v] \in Busy => wpc[v] \in Busy
        BY <1>2
    <2>2. \A v \in Workers : wpc'[v] = "idle" => wpc[v] = "idle"
        BY <1>2 DEF Busy
    <2>3. /\ \A v \in crew : wpc'[v] # "idle"
          /\ \A v \in Workers \ crew : wpc'[v] = "idle"
        BY <1>1, <1>2, <2>2 DEF WorkInv, DecodeTypeOK
    <2>4. /\ \A v \in Workers : wpc'[v] \in Busy =>
                  /\ held[v] \in 1 .. NumChunks /\ held[v] < nextChunk
                  /\ results[held[v]] = NoResult
          /\ \A u, v \in Workers :
                  u # v /\ wpc'[u] \in Busy /\ wpc'[v] \in Busy => held[u] # held[v]
        BY <1>1, <2>1 DEF WorkInv
    <2>5. ASSUME NEW i \in 1 .. NumChunks, i < nextChunk, results[i] = NoResult,
                 ~cancelled
          PROVE  \E v \in crew : wpc'[v] \in Busy /\ held[v] = i
      <3>1. PICK v \in crew : wpc[v] \in Busy /\ held[v] = i
          BY <1>1, <1>2, <2>5 DEF WorkInv
      <3>2. wpc'[v] \in Busy
          BY <1>1, <1>2, <3>1, <2>5 DEF DecodeTypeOK
      <3> QED
          BY <3>1, <3>2
    <2>6. \A v \in Workers : wpc'[v] \in {"recheck", "count", "store"} =>
              /\ out'[v].kind # "none"
              /\ out'[v].kind = "Cancelled" => cancelled
        BY <1>1, <1>2 DEF WorkInv
    <2>7. \A v \in Workers : wpc'[v] = "ended" => nextChunk > NumChunks \/ cancelled
        BY <1>1, <1>2 DEF WorkInv
    <2>8. \A i \in 1 .. NumChunks :
              /\ i >= nextChunk => results[i] = NoResult
              /\ results[i].kind = "none" => results[i] = NoResult
              /\ results[i].kind = "Cancelled" => cancelled
        BY <1>1, <1>2 DEF WorkInv
    <2> QED
        BY <1>2, <2>3, <2>4, <2>5, <2>6, <2>7, <2>8 DEF WorkInv
  <1> QED
      BY <1>2, <1>3, <1>4 DEF IInv

LEMMA DecodingStep ==
    ASSUME IInv, NEW w \in Workers,
           Check(w) \/ Start(w) \/ Report(w) \/ Decoded(w) \/ Recheck(w) \/ Count(w)
    PROVE  IInv'
  <1> USE DecodeAssumption
  <1>1. DecodeTypeOK /\ WorkInv /\ Worker(w)
      BY DEF IInv, Worker
  <1>2. UNCHANGED <<nextChunk, held, results>> /\ wpc[w] \in Busy
      BY DEF Check, Start, Report, Decoded, Recheck, Count, Busy
  <1>3. \A label : Enter(w, label) => wpc'[w] = label
      BY <1>1 DEF DecodeTypeOK, Enter
  <1>4. /\ wpc'[w] \in Busy \cup {"ended"}
        /\ wpc'[w] = "ended" => cancelled
      BY <1>2, <1>3 DEF Check, Start, Report, Decoded, Recheck, Count, Busy
  <1>5. \/ out' = out /\ (wpc'[w] \in {"recheck", "count", "store"} =>
                              wpc[w] \in {"recheck", "count", "store"})
        \/ \E o \in {Good(late) : late \in 0 .. Jitter} \cup {Bad("Failed")}
                     \cup (IF cancelled THEN {Bad("Cancelled")} ELSE {}) :
               out' = [out EXCEPT ![w] = o]
      BY <1>3 DEF Check, Start, Report, Decoded, Recheck, Count
  <1>6. CASE out' = out /\ (wpc'[w] \in {"recheck", "count", "store"} =>
                              wpc[w] \in {"recheck", "count", "store"})
    <2>1. out' \in [Workers -> Outcomes] /\ \A v \in Workers \ {w} : out'[v] = out[v]
        BY <1>1, <1>6 DEF DecodeTypeOK
    <2>2. wpc'[w] \in {"recheck", "count", "store"} =>
              /\ out'[w].kind # "none"
              /\ out'[w].kind = "Cancelled" => cancelled
        BY <1>1, <1>6 DEF WorkInv
    <2> QED
        BY <1>1, <1>2, <1>4, <2>1, <2>2, QuietStep
  <1>7. ASSUME NEW o \in {Good(late) : late \in 0 .. Jitter} \cup {Bad("Failed")}
                     \cup (IF cancelled THEN {Bad("Cancelled")} ELSE {}),
               out' = [out EXCEPT ![w] = o]
        PROVE  IInv'
    <2>1. /\ o \in Outcomes /\ o.kind # "none"
          /\ o.kind = "Cancelled" => cancelled
        BY <1>7 DEF Good, Bad, Outcomes
    <2>2. /\ out' \in [Workers -> Outcomes]
          /\ out'[w] = o
          /\ \A v \in Workers \ {w} : out'[v] = out[v]
        BY <1>1, <1>7, <2>1 DEF DecodeTypeOK
    <2> QED
        BY <1>1, <1>2, <1>4, <2>1, <2>2, QuietStep
  <1> QED
      BY <1>5, <1>6, <1>7

LEMMA ClaimStep ==
    ASSUME IInv, NEW w \in Workers, Claim(w)
    PROVE  IInv'
  <1>1. DecodeTypeOK /\ WorkInv /\ Worker(w)
      BY DEF IInv, Worker
  <1>2. /\ UNCHANGED <<total, crew, chunks, pos, pc, pending, result, cancelled>>
        /\ w \in crew /\ Started /\ Started' /\ pc = "run"
        /\ NumChunks' = NumChunks /\ NumChunks \in Nat
        /\ \A v \in Workers \ {w} : wpc'[v] = wpc[v]
        /\ PlanInv' /\ ResultInv'
      BY <1>1, WorkerKeeps
  <1>3. /\ wpc[w] = "claim" /\ nextChunk' = nextChunk + 1
        /\ nextChunk \in Nat \ {0}
        /\ held' = [held EXCEPT ![w] = nextChunk]
        /\ wpc'[w] = IF nextChunk > NumChunks THEN "ended" ELSE "check"
        /\ results' = results /\ out' = out
      BY <1>1 DEF Claim, Enter, DecodeTypeOK
  <1>4. /\ held'[w] = nextChunk /\ held' \in [Workers -> Nat]
        /\ \A v \in Workers \ {w} : held'[v] = held[v]
      BY <1>1, <1>3 DEF DecodeTypeOK
  <1>5. DecodeTypeOK'
      BY <1>1, <1>2, <1>3, <1>4, WorkerType DEF DecodeTypeOK
  <1>6. WorkInv'
    <2>1. /\ \A v \in crew : wpc'[v] # "idle"
          /\ \A v \in Workers \ crew : wpc'[v] = "idle"
        BY <1>1, <1>2, <1>3 DEF WorkInv, DecodeTypeOK
    <2>2. wpc'[w] \in Busy => nextChunk \in 1 .. NumChunks
        BY <1>2, <1>3 DEF Busy
    <2>3. \A v \in Workers : wpc'[v] \in Busy =>
              /\ held'[v] \in 1 .. NumChunks /\ held'[v] < nextChunk'
              /\ results[held'[v]] = NoResult
      <3>1. ASSUME NEW v \in Workers \ {w}, wpc'[v] \in Busy
            PROVE  /\ held'[v] \in 1 .. NumChunks /\ held'[v] < nextChunk'
                   /\ results[held'[v]] = NoResult
        <4>1. /\ held[v] \in 1 .. NumChunks /\ held[v] < nextChunk
              /\ results[held[v]] = NoResult
            BY <1>1, <1>2, <3>1 DEF WorkInv
        <4> QED
            BY <4>1, <1>2, <1>3, <1>4
      <3>2. wpc'[w] \in Busy =>
                /\ held'[w] \in 1 .. NumChunks /\ held'[w] < nextChunk'
                /\ results[held'[w]] = NoResult
        <4>1. nextChunk \in 1 .. NumChunks => results[nextChunk] = NoResult
            BY <1>1, <1>2, <1>3 DEF WorkInv
        <4> QED
            BY <4>1, <2>2, <1>3, <1>4
      <3> QED
          BY <3>1, <3>2
    <2>4. \A u, v \in Workers :
              u # v /\ wpc'[u] \in Busy /\ wpc'[v] \in Busy => held'[u] # held'[v]
      <3>1. \A v \in Workers \ {w} : wpc'[v] \in Busy =>
                held'[v] \in Nat /\ held'[v] < nextChunk
          BY <1>1, <1>2, <1>4 DEF WorkInv, DecodeTypeOK
      <3>2. \A v \in Workers \ {w} : wpc'[v] \in Busy => held'[v] # held'[w]
          BY <3>1, <1>3, <1>4
      <3>3. \A u, v \in Workers \ {w} :
              u # v /\ wpc'[u] \in Busy /\ wpc'[v] \in Busy => held'[u] # held'[v]
          BY <1>1, <1>2, <1>4 DEF WorkInv
      <3> QED
          BY <3>2, <3>3
    <2>5. ASSUME NEW i \in 1 .. NumChunks, i < nextChunk', results[i] = NoResult,
                 ~cancelled
          PROVE  \E v \in crew : wpc'[v] \in Busy /\ held'[v] = i
      <3>1. CASE i = nextChunk
          BY <3>1, <1>2, <1>3, <1>4 DEF Busy
      <3>2. CASE i < nextChunk
        <4>1. PICK v \in crew : wpc[v] \in Busy /\ held[v] = i
            BY <1>1, <1>2, <2>5, <3>2 DEF WorkInv
        <4>2. v # w /\ v \in Workers
            BY <4>1, <1>1, <1>3 DEF Busy, DecodeTypeOK
        <4> QED
            BY <4>1, <4>2, <1>2, <1>4
      <3> QED
          BY <3>1, <3>2, <2>5, <1>2, <1>3
    <2>6. \A v \in Workers : wpc'[v] \in {"recheck", "count", "store"} =>
              /\ out[v].kind # "none"
              /\ out[v].kind = "Cancelled" => cancelled
        BY <1>1, <1>2, <1>3 DEF WorkInv
    <2>7. \A v \in Workers : wpc'[v] = "ended" => nextChunk' > NumChunks \/ cancelled
      <3>1. \A v \in Workers \ {w} : wpc'[v] = "ended" => nextChunk > NumChunks \/ cancelled
          BY <1>1, <1>2 DEF WorkInv
      <3> QED
          BY <3>1, <1>2, <1>3
    <2>8. \A i \in 1 .. NumChunks :
              /\ i >= nextChunk' => results[i] = NoResult
              /\ results[i].kind = "none" => results[i] = NoResult
              /\ results[i].kind = "Cancelled" => cancelled
        BY <1>1, <1>2, <1>3 DEF WorkInv
    <2> QED
        BY <1>2, <1>3, <2>1, <2>3, <2>4, <2>5, <2>6, <2>7, <2>8 DEF WorkInv
  <1> QED
      BY <1>2, <1>5, <1>6 DEF IInv

LEMMA StoreStep ==
    ASSUME IInv, NEW w \in Workers, Store(w)
    PROVE  IInv'
  <1>1. DecodeTypeOK /\ WorkInv /\ Worker(w)
      BY DEF IInv, Worker
  <1>2. /\ UNCHANGED <<total, crew, chunks, pos, pc, pending, result, cancelled>>
        /\ w \in crew /\ Started /\ Started' /\ pc = "run"
        /\ NumChunks' = NumChunks /\ NumChunks \in Nat
        /\ \A v \in Workers \ {w} : wpc'[v] = wpc[v]
        /\ PlanInv' /\ ResultInv'
      BY <1>1, WorkerKeeps
  <1>3. /\ wpc[w] = "store" /\ wpc[w] \in Busy /\ wpc'[w] = "claim"
        /\ UNCHANGED <<nextChunk, held, out>>
        /\ results' = [results EXCEPT ![held[w]] = out[w]]
        /\ results \in [1 .. NumChunks -> Outcomes]
        /\ out[w] \in Outcomes
      BY <1>1, <1>2 DEF Store, Enter, DecodeTypeOK, Busy
  <1>4. /\ held[w] \in 1 .. NumChunks /\ held[w] < nextChunk
        /\ out[w].kind # "none"
        /\ out[w].kind = "Cancelled" => cancelled
      BY <1>1, <1>3 DEF WorkInv
  <1>5. /\ results' \in [1 .. NumChunks -> Outcomes]
        /\ results'[held[w]] = out[w]
        /\ \A i \in 1 .. NumChunks : i # held[w] => results'[i] = results[i]
      BY <1>3, <1>4
  <1>6. DecodeTypeOK'
      BY <1>1, <1>2, <1>3, <1>5, WorkerType DEF DecodeTypeOK
  <1>7. WorkInv'
    <2>1. /\ \A v \in crew : wpc'[v] # "idle"
          /\ \A v \in Workers \ crew : wpc'[v] = "idle"
        BY <1>1, <1>2, <1>3 DEF WorkInv, DecodeTypeOK
    <2>2. \A v \in Workers : wpc'[v] \in Busy =>
              v # w /\ wpc[v] \in Busy /\ held[v] # held[w]
        BY <1>1, <1>2, <1>3 DEF WorkInv, Busy
    <2>3. \A v \in Workers : wpc'[v] \in Busy =>
              /\ held[v] \in 1 .. NumChunks /\ held[v] < nextChunk
              /\ results'[held[v]] = NoResult
        BY <1>1, <1>5, <2>2 DEF WorkInv
    <2>4. \A u, v \in Workers :
              u # v /\ wpc'[u] \in Busy /\ wpc'[v] \in Busy => held[u] # held[v]
        BY <1>1, <2>2 DEF WorkInv
    <2>5. ASSUME NEW i \in 1 .. NumChunks, i < nextChunk, results'[i] = NoResult,
                 ~cancelled
          PROVE  \E v \in crew : wpc'[v] \in Busy /\ held[v] = i
      <3>0. NoResult.kind = "none"
          BY DEF NoResult, Bad
      <3>1. i # held[w] /\ results[i] = NoResult
          BY <3>0, <1>4, <1>5, <2>5
      <3>2. PICK v \in crew : wpc[v] \in Busy /\ held[v] = i
          BY <1>1, <1>2, <2>5, <3>1 DEF WorkInv
      <3>3. v # w /\ v \in Workers
          BY <3>1, <3>2, <1>1 DEF DecodeTypeOK
      <3> QED
          BY <3>2, <3>3, <1>2
    <2>6. \A v \in Workers : wpc'[v] \in {"recheck", "count", "store"} =>
              /\ out[v].kind # "none"
              /\ out[v].kind = "Cancelled" => cancelled
        BY <1>1, <1>2, <1>3 DEF WorkInv
    <2>7. \A v \in Workers : wpc'[v] = "ended" => nextChunk > NumChunks \/ cancelled
        BY <1>1, <1>2, <1>3 DEF WorkInv
    <2>8. \A i \in 1 .. NumChunks :
              /\ i >= nextChunk => results'[i] = NoResult
              /\ results'[i].kind = "none" => results'[i] = NoResult
              /\ results'[i].kind = "Cancelled" => cancelled
      <3>1. \A i \in 1 .. NumChunks : i # held[w] =>
              /\ i >= nextChunk => results'[i] = NoResult
              /\ results'[i].kind = "none" => results'[i] = NoResult
              /\ results'[i].kind = "Cancelled" => cancelled
          BY <1>1, <1>2, <1>5 DEF WorkInv
      <3>2. ~(held[w] >= nextChunk)
          BY <1>1, <1>2, <1>4 DEF DecodeTypeOK
      <3> QED
          BY <3>1, <3>2, <1>4, <1>5
    <2> QED
        BY <1>2, <1>3, <2>1, <2>3, <2>4, <2>5, <2>6, <2>7, <2>8 DEF WorkInv
  <1> QED
      BY <1>2, <1>6, <1>7 DEF IInv

-----------------------------------------------------------------------------
(* The remaining steps, and the theorems.                                  *)

LEMMA OtherStep ==
    ASSUME IInv, BridgeEnds \/ Cancel \/ UNCHANGED vars
    PROVE  IInv'
  <1> USE DecodeAssumption
  <1>1. DecodeTypeOK /\ PlanInv /\ WorkInv /\ ResultInv
      BY DEF IInv
  <1>2. /\ UNCHANGED <<fileVars, planVars, jobVars, workVars>>
        /\ cancelled => cancelled'
        /\ cancelled' = cancelled \/ cancelled' = TRUE
      BY DEF BridgeEnds, Cancel, vars
  <1>3. UNCHANGED <<total, crew, chunks, pos, pc, pending, result, nextChunk,
                    wpc, held, out, results>>
      BY <1>2 DEF fileVars, planVars, jobVars, workVars
  <1>4. Started' = Started /\ NumChunks' = NumChunks /\ Single' = Single
      BY <1>3 DEF Started, NumChunks, Single
  <1>5. DecodeTypeOK'
    <2>1. cancelled' \in BOOLEAN
        BY <1>1, <1>2 DEF DecodeTypeOK
    <2>2. Started' => results' \in [1 .. NumChunks' -> Outcomes]
        BY <1>1, <1>3, <1>4 DEF DecodeTypeOK
    <2> QED
        BY <1>1, <1>3, <2>1, <2>2 DEF DecodeTypeOK
  <1>6. PlanInv'
      BY <1>1, <1>3, PlanKept
  <1>7. WorkInv'
      BY <1>1, <1>2, <1>3, <1>4 DEF WorkInv
  <1>8. ResultInv'
      BY <1>1, <1>3, <1>4 DEF ResultInv, OkIsWhole
  <1> QED
      BY <1>5, <1>6, <1>7, <1>8 DEF IInv

LEMMA NextInv == IInv /\ [Next]_vars => IInv'
  <1> SUFFICES ASSUME IInv, [Next]_vars PROVE IInv'
      OBVIOUS
  <1>1. CASE Job
      BY <1>1, ExtractStep, PlanStep, StartBridgeStep, ConcludeStep,
         StartWorkersStep, GatherStep, JoinStep DEF Job
  <1>2. ASSUME NEW w \in Workers, Worker(w) PROVE IInv'
      BY <1>2, ClaimStep, DecodingStep, StoreStep DEF Worker
  <1> QED
      BY <1>1, <1>2, OtherStep DEF Next

LEMMA IInvHolds == Spec => []IInv
  <1> QED
      BY InitInv, NextInv, PTL DEF Spec

\* The variables keep their types: no position is negative, and no worker has
\* a chunk that is not planned.
THEOREM DecodeTypes == Spec => []DecodeTypeOK
  <1>1. IInv => DecodeTypeOK
      BY DEF IInv
  <1> QED
      BY <1>1, IInvHolds, PTL

\* For every length of the file, of the chunks and of the overlap: whatever is
\* no longer than the overlap lies within one chunk.
THEOREM NoFrameIsCut == Spec => []EveryFrameInAChunk
  <1>1. IInv => EveryFrameInAChunk
    <2> SUFFICES ASSUME IInv, Planned, result = None \/ chunks # <<>>,
                        NEW s \in 0 .. total, NEW t \in 0 .. total,
                        s < t, t - s <= Overlap
                 PROVE  \E i \in DOMAIN chunks : chunks[i].first <= s /\ t <= chunks[i].last
        BY DEF EveryFrameInAChunk
    <2>1. PlanInv /\ chunks \in Seq([first : Nat, last : Nat]) /\ total \in Nat
        BY DEF IInv, DecodeTypeOK
    <2>2. DOMAIN chunks = 1 .. Len(chunks)
        BY <2>1, LenProperties
    <2>3. chunks # <<>>
        BY <2>1 DEF PlanInv
    <2>4. Within(s, t)
        BY <2>1, <2>3 DEF PlanInv
    <2> QED
        BY <2>2, <2>4 DEF Within
  <1> QED
      BY <1>1, IInvHolds, PTL

\* However many workers there are, no two of them have the same chunk, and
\* none has one whose result is stored.
THEOREM EachChunkOnce == Spec => []ChunkDecodedOnce
  <1>1. IInv => ChunkDecodedOnce
      BY DEF IInv, WorkInv, ChunkDecodedOnce
  <1> QED
      BY <1>1, IInvHolds, PTL

\* A decode reports success only when every chunk has been decoded or has
\* failed by itself, whenever the user cancels.
THEOREM SuccessIsWhole == Spec => []OkIsWhole
  <1>1. IInv => OkIsWhole
      BY DEF IInv, ResultInv
  <1> QED
      BY <1>1, IInvHolds, PTL

-----------------------------------------------------------------------------
(* The steps of a task.                                                    *)

\* A result that is known is reported as cancelled only if the user asked.
AskedInv == pending = "Cancelled" => cancelled

LEMMA AskedNext == IInv /\ AskedInv /\ [Next]_vars => AskedInv'
  <1> SUFFICES ASSUME IInv, AskedInv, [Next]_vars PROVE AskedInv'
      OBVIOUS
  <1> USE DEF AskedInv
  <1>1. CASE Job
      BY <1>1
         DEF Job, Extract, OpenExtracted, PlanChunk, PlanNothing, StartBridge, DecodeSingle,
             OpenFails, StartWorkers, Gather, Gathered, Join, Conclude, Goto, Return, jobVars
  <1>2. CASE BridgeEnds \/ Cancel \/ UNCHANGED vars
      BY <1>2 DEF BridgeEnds, Cancel, vars, jobVars
  <1>3. ASSUME NEW w \in Workers, Worker(w) PROVE AskedInv'
      BY <1>3 DEF Worker, Claim, Check, Start, Report, Decoded, Recheck, Count, Store, jobVars
  <1> QED
      BY <1>1, <1>2, <1>3 DEF Next

LEMMA DecodeTakesTaskStep ==
    IInv /\ AskedInv /\ [Next]_vars => [Body!TaskNext]_(Body!taskVars)
  <1> SUFFICES ASSUME IInv, AskedInv, [Next]_vars
               PROVE  [Body!TaskNext]_(Body!taskVars)
      OBVIOUS
  <1> USE DEF Body!TaskNext, Body!taskVars
  <1>1. pc # "returned" => result = None
      BY DEF IInv, ResultInv
  <1>2. pc = "join" => pending \in Ends
      BY DEF IInv, ResultInv
  <1>3. CASE Extract \/ OpenExtracted
      BY <1>1, <1>3 DEF Extract, OpenExtracted, Return, Goto, Body!End, Ends
  <1>4. CASE Join
      BY <1>1, <1>2, <1>4 DEF Join, Return, Body!End, AskedInv
  <1>5. CASE PlanChunk \/ PlanNothing \/ StartBridge \/ DecodeSingle \/ OpenFails
             \/ StartWorkers \/ Gather
      BY <1>5
         DEF PlanChunk, PlanNothing, StartBridge, DecodeSingle, OpenFails, StartWorkers,
             Gather, Conclude, Goto, jobVars
  <1>6. CASE Cancel
      BY <1>6 DEF Cancel, Body!Ask, jobVars
  <1>7. CASE BridgeEnds \/ UNCHANGED vars
      BY <1>7 DEF BridgeEnds, vars, jobVars
  <1>8. ASSUME NEW w \in Workers, Worker(w) PROVE UNCHANGED <<cancelled, result>>
      BY <1>8 DEF Worker, Claim, Check, Start, Report, Decoded, Recheck, Count, Store, jobVars
  <1> QED
      BY <1>3, <1>4, <1>5, <1>6, <1>7, <1>8 DEF Next, Job

\* The safety half of DecodeIsTask: every step of the job, the bridge, the
\* workers and the user is a step of the task the supervisor runs, or none of
\* its business.  A decode has one result, which is "Cancelled" only if the
\* user asked for it.
THEOREM DecodeTakesTaskSteps ==
    Spec => Body!TaskInit /\ [][Body!TaskNext]_(Body!taskVars)
  <1>1. Init => AskedInv /\ Body!TaskInit
      BY DecodeAssumption DEF Init, AskedInv, Body!TaskInit
  <1>2. Spec => []AskedInv
      BY <1>1, AskedNext, IInvHolds, PTL DEF Spec
  <1> QED
      BY <1>1, <1>2, DecodeTakesTaskStep, IInvHolds, PTL DEF Spec

-----------------------------------------------------------------------------
(* Induction over the numbers up to n, for the rounds of the merge.        *)

LEMMA LeastNumber ==
    ASSUME NEW T, T \subseteq Nat, T # {}
    PROVE  \E n \in T : \A m \in T : n <= m
  <1> DEFINE less == {p \in Nat \X Nat : p[1] < p[2]}
  <1>1. IsWellFoundedOn(less, Nat)
      BY NatLessThanWellFounded DEF OpToRel
  <1>2. PICK n \in T : \A m \in T : ~(<<m, n>> \in less)
      BY <1>1, WFMin
  <1>3. ASSUME NEW m \in T PROVE n <= m
    <2>1. m \in Nat /\ n \in Nat
        OBVIOUS
    <2>2. m < n => <<m, n>> \in less
        BY <2>1
    <2> QED
        BY <1>2, <2>1, <2>2
  <1> QED
      BY <1>3

\* A set that has 0, and with a number the next one, has all up to n.
LEMMA Counting ==
    ASSUME NEW n \in Nat, NEW S, 0 \in S, \A k \in 1 .. n : k - 1 \in S => k \in S
    PROVE  0 .. n \subseteq S
  <1> SUFFICES ASSUME (0 .. n) \ S # {} PROVE FALSE
      OBVIOUS
  <1>1. PICK k \in (0 .. n) \ S : \A m \in (0 .. n) \ S : k <= m
    <2>1. (0 .. n) \ S \subseteq Nat
        OBVIOUS
    <2> QED
        BY <2>1, LeastNumber
  <1>2. k # 0 /\ k - 1 \in 0 .. n /\ ~(k <= k - 1)
      BY <1>1
  <1>3. k - 1 \in S
      BY <1>1, <1>2
  <1> QED
      BY <1>1, <1>2, <1>3

-----------------------------------------------------------------------------
(* The merge: what is kept of the reports.                                 *)

Reporting == [secs : Nat, chunk : Nat]

LEMMA EarliestIs ==
    ASSUME NEW R, R # {}, R \subseteq Reporting
    PROVE  /\ Earliest(R) \in R
           /\ \A q \in R : Earliest(R).secs <= q.secs
  <1> DEFINE times == {r.secs : r \in R}
  <1>1. PICK s \in times : \A t \in times : s <= t
    <2>1. times \subseteq Nat /\ times # {}
        BY DEF Reporting
    <2> QED
        BY <2>1, LeastNumber
  <1> DEFINE indices == {r.chunk : r \in {q \in R : q.secs = s}}
  <1>2. PICK c \in indices : \A d \in indices : c <= d
    <2>1. indices \subseteq Nat /\ indices # {}
        BY <1>1 DEF Reporting
    <2> QED
        BY <2>1, LeastNumber
  <1>3. PICK r \in R : r.secs = s /\ r.chunk = c
      BY <1>2
  <1>4. ASSUME NEW q \in R PROVE q = r \/ Earlier(r, q)
    <2>1. /\ q \in Reporting /\ r \in Reporting
          /\ s <= q.secs
          /\ q.secs = s => c <= q.chunk
        BY <1>1, <1>2
    <2>2. q.secs = r.secs /\ q.chunk = r.chunk => q = r
        BY <2>1 DEF Reporting
    <2> QED
        BY <1>3, <2>1, <2>2 DEF Earlier, Reporting
  <1>5. /\ Earliest(R) \in R
        /\ \A q \in R : q = Earliest(R) \/ Earlier(Earliest(R), q)
      BY <1>3, <1>4 DEF Earliest
  <1>6. \A q \in R : q.secs \in Nat
      BY DEF Reporting
  <1> QED
      BY <1>5, <1>6 DEF Earlier

\* r is not distinct from a report that is kept.
Covered(kept, r) ==
    \E n \in 1 .. Len(kept) : kept[n].secs <= r.secs /\ ~Distinct(kept[n], r)

\* What holds of the reports kept so far: they are in order, each is distinct
\* from the one before, and every report is still to come or covered.
Sound(kept) ==
    /\ kept \in Seq(Reports)
    /\ \A m, n \in 1 .. Len(kept) : m < n => kept[m].secs < kept[n].secs
    /\ \A n \in 2 .. Len(kept) : Distinct(kept[n - 1], kept[n])
    /\ \A r \in Reports : r \in Left(kept) \/ Covered(kept, r)

LEMMA DistinctIsLater ==
    ASSUME NEW a \in Reporting, NEW b \in Reporting, Distinct(a, b)
    PROVE  a.secs < b.secs
  BY DecodeAssumption, FrameAssumption DEF Distinct, Reporting

LEMMA KeepStep ==
    ASSUME Reports \subseteq Reporting, NEW kept, Sound(kept), Left(kept) # {}
    PROVE  Sound(Keep(kept)) /\ Len(Keep(kept)) = Len(kept) + 1
  <1> DEFINE e == Earliest(Left(kept))
             now == Keep(kept)
             len == Len(kept)
  <1>1. /\ e \in Left(kept)
        /\ \A q \in Left(kept) : e.secs <= q.secs
    <2>1. Left(kept) \subseteq Reporting
        BY DEF Left
    <2> QED
        BY <2>1, EarliestIs
  <1>2. e \in Reports /\ (kept = <<>> \/ Distinct(kept[len], e))
      BY <1>1 DEF Left
  <1> HIDE DEF e
  <1>3. /\ kept \in Seq(Reports) /\ len \in Nat
        /\ \A n \in 1 .. len : kept[n] \in Reports
      BY DEF Sound
  <1>4. now = Append(kept, e)
      BY DEF Keep, e
  <1>5. /\ now \in Seq(Reports) /\ Len(now) = len + 1
        /\ now[len + 1] = e
        /\ \A n \in 1 .. len : now[n] = kept[n]
      BY <1>2, <1>3, <1>4, AppendProperties
  <1> HIDE DEF now
  <1>6. len # 0 => kept[len].secs < e.secs
    <2>1. len # 0 => len \in 1 .. len /\ kept # <<>>
        BY <1>3
    <2> QED
        BY <1>2, <1>3, <2>1, DistinctIsLater
  <1>7. \A m, n \in 1 .. Len(now) : m < n => now[m].secs < now[n].secs
    <2> SUFFICES ASSUME NEW m \in 1 .. len + 1, NEW n \in 1 .. len + 1, m < n
                 PROVE  now[m].secs < now[n].secs
        BY <1>5
    <2>1. CASE n \in 1 .. len
      <3>1. m \in 1 .. len
          BY <2>1, <1>3
      <3>2. kept[m].secs < kept[n].secs
          BY <2>1, <3>1 DEF Sound
      <3> QED
          BY <2>1, <3>1, <3>2, <1>5
    <2>2. CASE n = len + 1
      <3>1. m \in 1 .. len /\ len \in 1 .. len
          BY <2>2, <1>3
      <3>2. m = len \/ kept[m].secs < kept[len].secs
          BY <3>1, <1>3 DEF Sound
      <3>3. kept[m].secs \in Nat /\ kept[len].secs \in Nat /\ e.secs \in Nat
          BY <3>1, <1>2, <1>3 DEF Reporting
      <3> QED
          BY <3>1, <3>2, <3>3, <2>2, <1>3, <1>5, <1>6
    <2> QED
        BY <2>1, <2>2, <1>3
  <1>8. \A n \in 2 .. Len(now) : Distinct(now[n - 1], now[n])
    <2> SUFFICES ASSUME NEW n \in 2 .. len + 1 PROVE Distinct(now[n - 1], now[n])
        BY <1>5
    <2>1. CASE n \in 2 .. len
      <3>1. Distinct(kept[n - 1], kept[n])
          BY <2>1 DEF Sound
      <3>2. now[n - 1] = kept[n - 1] /\ now[n] = kept[n]
          BY <2>1, <1>3, <1>5
      <3> QED
          BY <3>1, <3>2
    <2>2. CASE n = len + 1
      <3>1. len \in 1 .. len /\ kept # <<>> /\ now[n - 1] = kept[len] /\ now[n] = e
          BY <2>2, <1>3, <1>5
      <3> QED
          BY <3>1, <1>2
    <2> QED
        BY <2>1, <2>2, <1>3
  <1>9. ASSUME NEW r \in Reports PROVE r \in Left(now) \/ Covered(now, r)
    <2>1. CASE r \in Left(kept)
      <3>1. e.secs <= r.secs
          BY <2>1, <1>1
      <3>2. CASE Distinct(e, r)
        <4>1. r \in Left(now)
            BY <3>2, <1>5 DEF Left
        <4> QED
            BY <4>1
      <3>3. CASE ~Distinct(e, r)
        <4>1. len + 1 \in 1 .. Len(now)
            BY <1>3, <1>5
        <4>2. Covered(now, r)
            BY <3>1, <3>3, <4>1, <1>5 DEF Covered
        <4> QED
            BY <4>2
      <3> QED
          BY <3>2, <3>3
    <2>2. CASE Covered(kept, r)
      <3>1. PICK n \in 1 .. len : kept[n].secs <= r.secs /\ ~Distinct(kept[n], r)
          BY <2>2 DEF Covered
      <3>2. n \in 1 .. Len(now) /\ now[n] = kept[n]
          BY <1>3, <1>5
      <3>3. Covered(now, r)
          BY <3>1, <3>2 DEF Covered
      <3> QED
          BY <3>3
    <2> QED
        BY <2>1, <2>2 DEF Sound
  <1>10. Sound(now)
      BY <1>5, <1>7, <1>8, <1>9 DEF Sound
  <1> QED
      BY <1>5, <1>10 DEF now

LEMMA NothingKept == Sound(<<>>) /\ Len(<<>>) = 0
  <1>1. Left(<<>>) = Reports
      BY DEF Left
  <1>2. <<>> \in Seq(Reports) /\ Len(<<>>) = 0
      OBVIOUS
  <1> QED
      BY <1>1, <1>2 DEF Sound

\* The reports kept are as many as there are: then they are all kept.
LEMMA AllAreKept ==
    ASSUME Reports \subseteq Reporting, IsFiniteSet(Reports),
           NEW kept, Sound(kept), Len(kept) = Cardinality(Reports)
    PROVE  Left(kept) = {}
  <1> DEFINE len == Len(kept)
  <1>1. /\ kept \in Seq(Reports) /\ len \in Nat
        /\ \A n \in 1 .. len : kept[n] \in Reports /\ kept[n].secs \in Nat
      BY DEF Sound, Reporting
  <1>2. kept \in Injection(1 .. len, Reports)
    <2>1. kept \in [1 .. len -> Reports]
        BY <1>1
    <2>2. \A m, n \in 1 .. len : kept[m] = kept[n] => m = n
      <3> SUFFICES ASSUME NEW m \in 1 .. len, NEW n \in 1 .. len, kept[m] = kept[n], m # n
                   PROVE  FALSE
          OBVIOUS
      <3>1. m < n \/ n < m
          BY <1>1
      <3>2. kept[m].secs < kept[n].secs \/ kept[n].secs < kept[m].secs
          BY <3>1 DEF Sound
      <3>3. \A x, y \in Nat : x < y => x # y
          OBVIOUS
      <3>4. kept[m].secs \in Nat /\ kept[n].secs \in Nat /\ kept[m].secs = kept[n].secs
          BY <1>1
      <3> QED
          BY <3>2, <3>3, <3>4
    <2> QED
        BY <2>1, <2>2 DEF Injection, IsInjective
  <1>3. kept \in Surjection(1 .. len, Reports)
    <2>1. Cardinality(1 .. len) = Cardinality(Reports)
        BY <1>1, FS_Interval
    <2> QED
        BY <1>2, <2>1, FS_Injection
  <1>4. ASSUME NEW r \in Left(kept) PROVE FALSE
    <2>1. r \in Reports /\ (kept = <<>> \/ Distinct(kept[len], r))
        BY DEF Left
    <2>2. PICK n \in 1 .. len : kept[n] = r
        BY <1>3, <2>1 DEF Surjection
    <2>3. len \in 1 .. len /\ kept # <<>>
        BY <1>1
    <2>4. kept[len].secs < r.secs
        BY <1>1, <2>1, <2>3, DistinctIsLater
    <2>5. n = len \/ kept[n].secs < kept[len].secs
        BY <1>1, <2>3 DEF Sound
    <2> QED
        BY <1>1, <2>2, <2>3, <2>4, <2>5
  <1> QED
      BY <1>4

-----------------------------------------------------------------------------
(* The rounds of the merge.                                                *)

AreRounds(f, n) == f = [k \in 0 .. n |-> IF k = 0 THEN <<>> ELSE Keep(f[k - 1])]

LEMMA RoundsExist ==
    ASSUME NEW n \in Nat
    PROVE  \E f : AreRounds(f, n)
  <1> DEFINE S == {k \in 0 .. n : \E f : AreRounds(f, k)}
  <1>1. 0 \in S
    <2>1. AreRounds([k \in 0 .. 0 |-> <<>>], 0)
        BY DEF AreRounds
    <2> QED
        BY <2>1
  <1>2. ASSUME NEW k \in 1 .. n, k - 1 \in S PROVE k \in S
    <2>1. PICK f : AreRounds(f, k - 1)
        BY <1>2
    <2> DEFINE g == [j \in 0 .. k |-> IF j = k THEN Keep(f[k - 1]) ELSE f[j]]
    <2>2. \A j \in 0 .. k : j # k => j \in 0 .. k - 1 /\ g[j] = f[j]
        OBVIOUS
    <2>3. \A j \in 0 .. k : j # 0 => j - 1 \in 0 .. k - 1 /\ g[j - 1] = f[j - 1]
        OBVIOUS
    <2>4. \A j \in 0 .. k - 1 : f[j] = IF j = 0 THEN <<>> ELSE Keep(f[j - 1])
        BY <2>1 DEF AreRounds
    <2>5. \A j \in 0 .. k : g[j] = IF j = 0 THEN <<>> ELSE Keep(g[j - 1])
        BY <2>2, <2>3, <2>4
    <2>6. AreRounds(g, k)
        BY <2>5 DEF AreRounds
    <2> QED
        BY <2>6
  <1>3. 0 .. n \subseteq S
      BY <1>1, <1>2, Counting
  <1> QED
      BY <1>3

\* The merge is sound, and leaves no report over.
LEMMA MergedIsSound ==
    ASSUME Reports \subseteq Reporting, IsFiniteSet(Reports)
    PROVE  Sound(Merged) /\ Left(Merged) = {}
  <1> DEFINE n == Cardinality(Reports)
             f == CHOOSE g : AreRounds(g, n)
             S == {k \in 0 .. n : Sound(f[k]) /\ (Left(f[k]) = {} \/ Len(f[k]) = k)}
  <1>1. n \in Nat
      BY FS_CardinalityType
  <1>2. AreRounds(f, n)
      BY <1>1, RoundsExist
  <1>3. Merged = f[n]
      BY DEF Merged, AreRounds
  <1> HIDE DEF f
  <1>4. \A k \in 0 .. n : f[k] = IF k = 0 THEN <<>> ELSE Keep(f[k - 1])
      BY <1>2 DEF AreRounds
  <1>5. 0 \in S
    <2>1. f[0] = <<>> /\ 0 \in 0 .. n
        BY <1>1, <1>4
    <2> QED
        BY <2>1, NothingKept
  <1>6. ASSUME NEW k \in 1 .. n, k - 1 \in S PROVE k \in S
    <2>1. f[k] = Keep(f[k - 1]) /\ k \in 0 .. n
        BY <1>1, <1>4
    <2>2. Sound(f[k - 1]) /\ (Left(f[k - 1]) = {} \/ Len(f[k - 1]) = k - 1)
        BY <1>6
    <2>3. CASE Left(f[k - 1]) = {}
        BY <2>1, <2>2, <2>3 DEF Keep
    <2>4. CASE Left(f[k - 1]) # {}
      <3>1. Sound(f[k]) /\ Len(f[k]) = k - 1 + 1
          BY <2>1, <2>2, <2>4, KeepStep
      <3> QED
          BY <2>1, <3>1
    <2> QED
        BY <2>3, <2>4
  <1>7. 0 .. n \subseteq S
      BY <1>1, <1>5, <1>6, Counting
  <1>8. n \in S
      BY <1>1, <1>7
  <1> QED
      BY <1>3, <1>8, AllAreKept

-----------------------------------------------------------------------------
(* The reports of the chunks that were decoded.                            *)

\* No decoder misjudges a frame by more than Jitter.
LateInv ==
    /\ offset \in Nat
    /\ \A w \in Workers : out[w].late \in 0 .. Jitter
    /\ Started => \A i \in 1 .. NumChunks : results[i].late \in 0 .. Jitter

LEMMA LateNext == IInv /\ LateInv /\ [Next]_vars => LateInv'
  <1> SUFFICES ASSUME IInv, LateInv, [Next]_vars PROVE LateInv'
      OBVIOUS
  <1> USE DecodeAssumption
  <1>1. DecodeTypeOK /\ WorkInv
      BY DEF IInv
  <1>2. offset' = offset
      BY DEF Next, Job, Extract, OpenExtracted, PlanChunk, PlanNothing, StartBridge,
             DecodeSingle, OpenFails, StartWorkers, Gather, Join, BridgeEnds, Cancel, vars,
             Worker, Claim, Check, Start, Report, Decoded, Recheck, Count, Store, fileVars
  <1>3. CASE StartWorkers
      BY <1>2, <1>3 DEF StartWorkers, LateInv, NoResult, Bad, planVars, NumChunks
  <1>4. CASE PlanChunk
    <2>1. ~Started /\ Started' = Started /\ out' = out
        BY <1>4, NotStarted DEF PlanChunk, workVars, fileVars, Started
    <2> QED
        BY <1>2, <2>1 DEF LateInv
  <1>5. CASE \/ Extract \/ OpenExtracted \/ PlanNothing \/ StartBridge \/ DecodeSingle
             \/ OpenFails \/ Gather \/ Join \/ BridgeEnds \/ Cancel \/ UNCHANGED vars
    <2>1. UNCHANGED <<workVars, chunks, crew>>
        BY <1>5 DEF Extract, OpenExtracted, PlanNothing, StartBridge, DecodeSingle,
             OpenFails, Gather, Join, BridgeEnds, Cancel, vars, planVars, fileVars
    <2> QED
        BY <1>2, <2>1 DEF LateInv, workVars, Started, NumChunks
  <1>6. ASSUME NEW w \in Workers, Worker(w) PROVE LateInv'
    <2>1. Started /\ NumChunks' = NumChunks
        BY <1>6, WorkerKeeps
    <2>2. /\ results \in [1 .. NumChunks -> Outcomes]
          /\ out \in [Workers -> Outcomes]
          /\ wpc[w] \in Busy => held[w] \in 1 .. NumChunks
        BY <1>1, <2>1 DEF DecodeTypeOK, WorkInv
    <2>3. \A v \in Workers : out'[v].late \in 0 .. Jitter
      <3>1. \/ out' = out
            \/ \E o \in {Good(late) : late \in 0 .. Jitter} \cup {Bad("Failed")}
                        \cup {Bad("Cancelled")} : out' = [out EXCEPT ![w] = o]
          BY <1>6 DEF Worker, Claim, Check, Start, Report, Decoded, Recheck, Count, Store
      <3>2. \A o \in {Good(late) : late \in 0 .. Jitter} \cup {Bad("Failed")}
                        \cup {Bad("Cancelled")} : o.late \in 0 .. Jitter
          BY DEF Good, Bad
      <3> QED
          BY <2>2, <3>1, <3>2 DEF LateInv
    <2>4. \A i \in 1 .. NumChunks : results'[i].late \in 0 .. Jitter
      <3>1. CASE results' = results
          BY <3>1, <2>1 DEF LateInv
      <3>2. CASE Store(w)
        <4>1. results' = [results EXCEPT ![held[w]] = out[w]]
            BY <3>2 DEF Store
        <4> QED
            BY <4>1, <2>1, <2>2 DEF LateInv
      <3> QED
          BY <1>6, <3>1, <3>2 DEF Worker, Claim, Check, Start, Report, Decoded, Recheck, Count
    <2> QED
        BY <1>2, <2>1, <2>3, <2>4 DEF LateInv
  <1> QED
      BY <1>3, <1>4, <1>5, <1>6 DEF Next, Job

\* The reports are finitely many, each of a frame of the signal, and those of
\* a decoded chunk are of all its frames.
LEMMA ReportsAreOfFrames ==
    ASSUME IInv, LateInv, pending = "Ok", ~Single
    PROVE  /\ Reports \subseteq Reporting /\ IsFiniteSet(Reports)
           /\ \A r \in Reports : \E k \in Nat : r.secs - At(k) \in 0 .. Jitter
           /\ \A i \in DOMAIN results : results[i].kind = "Ok" =>
                  \A k \in FramesIn(chunks[i].first, chunks[i].last) :
                      \E r \in Reports : r.secs - At(k) \in 0 .. Jitter
  <1> USE DecodeAssumption, FrameAssumption
  <1>1. /\ DecodeTypeOK /\ Started /\ offset \in Nat /\ total \in Nat
        /\ results \in [1 .. NumChunks -> Outcomes]
        /\ \A i \in 1 .. NumChunks : results[i].late \in 0 .. Jitter
        /\ NumChunks \in Nat
    <2>1. DecodeTypeOK /\ Started
        BY DEF IInv, ResultInv, OkIsWhole
    <2>2. NumChunks \in Nat
        BY <2>1, LenProperties DEF DecodeTypeOK, NumChunks
    <2> QED
        BY <2>1, <2>2 DEF DecodeTypeOK, LateInv
  <1>2. \A k \in Nat : At(k) \in Nat
    <2> SUFFICES ASSUME NEW k \in Nat PROVE At(k) \in Nat
        OBVIOUS
    <2>1. k * Frame \in Nat
        OBVIOUS
    <2> QED
        BY <1>1, <2>1 DEF At
  <1> HIDE DEF At
  <1> DEFINE report(k, i) == [secs |-> At(k) + results[i].late, chunk |-> i]
  <1>3. ASSUME NEW r \in Reports
        PROVE  \E k \in 0 .. total, i \in 1 .. NumChunks : r = report(k, i)
    <2>1. PICK i \in DOMAIN results : r \in Reported(i)
        BY DEF Reports
    <2> QED
        BY <1>1, <2>1 DEF Reported, FramesIn
  <1>4. \A k \in 0 .. total, i \in 1 .. NumChunks :
            /\ report(k, i) \in Reporting
            /\ report(k, i).secs - At(k) \in 0 .. Jitter
    <2> SUFFICES ASSUME NEW k \in 0 .. total, NEW i \in 1 .. NumChunks
                 PROVE  /\ report(k, i) \in Reporting
                        /\ report(k, i).secs - At(k) \in 0 .. Jitter
        OBVIOUS
    <2>1. k \in Nat /\ i \in Nat
        BY <1>1
    <2>2. At(k) \in Nat /\ results[i].late \in 0 .. Jitter
        BY <1>1, <1>2, <2>1
    <2>3. \A t, late \in Nat : t + late \in Nat /\ t + late - t = late
        OBVIOUS
    <2>4. At(k) + results[i].late \in Nat /\ At(k) + results[i].late - At(k) = results[i].late
        BY <2>2, <2>3
    <2> QED
        BY <2>1, <2>2, <2>4 DEF Reporting
  <1>5. IsFiniteSet(Reports)
    <2> DEFINE pairs == (0 .. total) \X (1 .. NumChunks)
               all == {report(p[1], p[2]) : p \in pairs}
               reporting == [p \in pairs |-> report(p[1], p[2])]
    <2>1. IsFiniteSet(pairs)
      <3>1. IsFiniteSet(0 .. total) /\ IsFiniteSet(1 .. NumChunks)
          BY <1>1, FS_Interval
      <3> QED
          BY <3>1, FS_Product, Zenon
    <2>2. IsFiniteSet(all)
      <3>1. reporting \in Surjection(pairs, all)
          BY DEF Surjection
      <3> HIDE DEF reporting, all, pairs
      <3> QED
          BY <2>1, <3>1, FS_Surjection
    <2>3. ASSUME NEW r \in Reports PROVE r \in all
      <3>1. PICK k \in 0 .. total, i \in 1 .. NumChunks : r = report(k, i)
          BY <1>3
      <3>2. <<k, i>> \in pairs /\ r = report(<<k, i>>[1], <<k, i>>[2])
          BY <3>1
      <3> QED
          BY <3>2
    <2> QED
        BY <2>2, <2>3, FS_Subset
  <1>6. ASSUME NEW i \in DOMAIN results, results[i].kind = "Ok",
               NEW k \in FramesIn(chunks[i].first, chunks[i].last)
        PROVE  \E r \in Reports : r.secs - At(k) \in 0 .. Jitter
    <2>1. report(k, i) \in Reported(i)
        BY <1>6 DEF Reported
    <2>2. report(k, i) \in Reports
        BY <2>1 DEF Reports
    <2>3. k \in 0 .. total /\ i \in 1 .. NumChunks
        BY <1>1 DEF FramesIn
    <2> QED
        BY <2>2, <2>3, <1>4
  <1> QED
      BY <1>3, <1>4, <1>5, <1>6

\* Two reports that are not distinct are of one frame.
LEMMA OneFrame ==
    ASSUME offset \in Nat, NEW a \in Reporting, NEW b \in Reporting,
           a.secs <= b.secs, ~Distinct(a, b),
           NEW j \in Nat, NEW k \in Nat,
           a.secs - At(j) \in 0 .. Jitter, b.secs - At(k) \in 0 .. Jitter
    PROVE  j = k
  <1> USE DecodeAssumption, FrameAssumption, JitterAssumption
  <1>1. At(k) - At(j) < Frame /\ At(j) - At(k) < Frame
    <2>1. At(k) \in Int /\ At(j) \in Int
        BY DEF At
    <2>2. 2 * (b.secs - a.secs) <= Frame
        BY DEF Distinct, Reporting
    <2> HIDE DEF At
    <2> QED
        BY <2>1, <2>2 DEF Reporting
  <1>2. At(k) - At(j) = (k - j) * Frame /\ At(j) - At(k) = (j - k) * Frame
      BY DEF At
  <1>3. k > j => (k - j) * Frame >= Frame
      OBVIOUS
  <1>4. j > k => (j - k) * Frame >= Frame
      OBVIOUS
  <1> QED
      BY <1>1, <1>2, <1>3, <1>4

\* Every frame that a decoded chunk holds is in the merged result once and in
\* its place, whatever the chunks are and by how much less than half a frame
\* the decoders misjudge it; no chunk that failed takes another one's frames.
THEOREM EveryFrameOnce == Spec => []FramesOnce
  <1>1. Init => LateInv
      BY DecodeAssumption DEF Init, LateInv, NoResult, Bad, Started
  <1>2. IInv /\ LateInv => FramesOnce
    <2> SUFFICES ASSUME IInv, LateInv, pending = "Ok", ~Single
                 PROVE  /\ \A i \in DOMAIN results : results[i].kind = "Ok" =>
                               \A k \in FramesIn(chunks[i].first, chunks[i].last) : Found(k)
                        /\ \A n \in 2 .. Len(Merged) :
                               Merged[n].secs - Merged[n - 1].secs > Jitter
        BY DEF FramesOnce
    <2> USE DecodeAssumption, FrameAssumption, JitterAssumption
    <2>1. /\ Reports \subseteq Reporting
          /\ Sound(Merged) /\ Left(Merged) = {}
          /\ Merged \in Seq(Reports) /\ Len(Merged) \in Nat
          /\ DOMAIN Merged = 1 .. Len(Merged)
          /\ \A n \in 1 .. Len(Merged) : Merged[n] \in Reports
        BY ReportsAreOfFrames, MergedIsSound DEF Sound
    <2>2. ASSUME NEW i \in DOMAIN results, results[i].kind = "Ok",
                 NEW k \in FramesIn(chunks[i].first, chunks[i].last)
          PROVE  Found(k)
      <3>1. PICK r \in Reports : r.secs - At(k) \in 0 .. Jitter
          BY <2>2, ReportsAreOfFrames
      <3>2. PICK n \in 1 .. Len(Merged) :
                Merged[n].secs <= r.secs /\ ~Distinct(Merged[n], r)
          BY <2>1 DEF Sound, Covered
      <3>3. PICK j \in Nat : Merged[n].secs - At(j) \in 0 .. Jitter
          BY <2>1, ReportsAreOfFrames
      <3>4. offset \in Nat /\ k \in Nat /\ r \in Reporting /\ Merged[n] \in Reporting
          BY <2>1 DEF LateInv, FramesIn
      <3>5. j = k
          BY <3>1, <3>2, <3>3, <3>4, OneFrame
      <3> QED
          BY <2>1, <3>3, <3>5 DEF Found
    <2>3. ASSUME NEW n \in 2 .. Len(Merged)
          PROVE  Merged[n].secs - Merged[n - 1].secs > Jitter
      <3>1. Merged[n] \in Reporting /\ Merged[n - 1] \in Reporting
          BY <2>1
      <3>2. Distinct(Merged[n - 1], Merged[n])
          BY <2>1 DEF Sound
      <3>3. 2 * (Merged[n].secs - Merged[n - 1].secs) > Frame
          BY <3>2 DEF Distinct
      <3>4. Merged[n].secs \in Nat /\ Merged[n - 1].secs \in Nat
          BY <3>1 DEF Reporting
      <3> QED
          BY <3>3, <3>4
    <2> QED
        BY <2>2, <2>3
  <1> QED
      BY <1>1, <1>2, LateNext, IInvHolds, PTL DEF Spec
=============================================================================
