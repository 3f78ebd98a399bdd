---------------------------- MODULE ParallelDecode ----------------------------
(***************************************************************************)
(* Decoding the timecode of one file (gui-engine/src/decode.rs and         *)
(* audio-core/src/chunked_decode.rs).  A video file first has one channel  *)
(* extracted to a temporary WAV file.  A long file is cut into chunks that *)
(* overlap; worker threads take the next chunk from a counter, decode it   *)
(* and store its result, and the results are merged.  A bridge thread      *)
(* passes the progress on until every chunk is counted, and the job joins  *)
(* it before it returns.  The user may cancel at any time.                 *)
(*                                                                         *)
(* Lengths and positions are in samples of one channel.                    *)
(***************************************************************************)
EXTENDS Integers, Sequences

CONSTANTS
    Workers,     \* threads there may be
    Totals,      \* lengths of the file
    TargetChunk, \* the length of a chunk that the configuration asks for
    Overlap,     \* by how much two neighbouring chunks overlap
    Offsets,     \* where the first frame of timecode begins
    Jitter,      \* by how much a decoder misjudges where a frame begins
    Levels,      \* the progress of one chunk goes from 0 to Levels
    None

ASSUME DecodeAssumption ==
    /\ Totals \subseteq Nat /\ Offsets \subseteq Nat
    /\ TargetChunk \in Nat /\ Overlap \in Nat \ {0}
    /\ Jitter \in Nat /\ Levels \in Nat \ {0}
    /\ None \notin {"Ok", "Failed", "Cancelled"}

VARIABLES
    job,        \* "wav" or "video"
    total,
    offset,
    crew,       \* the workers this machine affords
    chunks,     \* the boundaries of the chunks
    pos,        \* where the next chunk begins
    pc,         \* where the thread of the job is
    pending,    \* the result to return when the bridge has ended
    result,
    tmp,        \* whether the temporary file is there
    bridge,     \* "none", "running" or "ended"
    completed,  \* chunks counted
    cancelled,
    units,      \* work done, in samples
    nextChunk,
    wpc,        \* where each worker is
    held,       \* the chunk each worker has
    mark,       \* the progress in that chunk
    out,        \* its result before it is stored
    results     \* the result stored for each chunk

fileVars == <<job, total, offset, crew>>
planVars == <<chunks, pos>>
jobVars == <<pc, pending, result, tmp>>
workVars == <<units, nextChunk, wpc, held, mark, out, results>>
vars == <<fileVars, planVars, jobVars, bridge, completed, cancelled, workVars>>

\* What comes of one chunk; a good one says by how much it is misjudged.
Good(late) == [kind |-> "Ok", late |-> late]
Bad(kind) == [kind |-> kind, late |-> 0]
NoResult == Bad("none")

\* A chunk is as long as the configuration says, but at least twice the
\* overlap.
ChunkMono == IF TargetChunk < 2 * Overlap THEN 2 * Overlap ELSE TargetChunk

Single == Len(chunks) <= 1
NumChunks == Len(chunks)
Length(i) == chunks[i].last - chunks[i].first

\* With one thread the chunks are decoded in a loop.
Sequential == \A v, w \in crew : v = w

Init ==
    /\ job \in {"wav", "video"} /\ total \in Totals /\ offset \in Offsets
    /\ crew \in (SUBSET Workers) \ {{}}
    /\ chunks = <<>> /\ pos = 0
    /\ pc = (IF job = "video" THEN "extract" ELSE "plan")
    /\ pending = None /\ result = None /\ tmp = FALSE
    /\ bridge = "none" /\ completed = 0 /\ cancelled = FALSE
    /\ units = 0 /\ nextChunk = 1
    /\ wpc = [w \in Workers |-> "idle"]
    /\ held = [w \in Workers |-> 0]
    /\ mark = [w \in Workers |-> 0]
    /\ out = [w \in Workers |-> NoResult]
    /\ results = <<>>

Return(r) ==
    /\ pc' = "returned" /\ result' = r
    /\ tmp' = FALSE
    /\ UNCHANGED pending

\* The result is known; the bridge is still to be joined.
Conclude(r) == pc' = "join" /\ pending' = r /\ UNCHANGED <<result, tmp>>

Goto(label) == pc' = label /\ UNCHANGED <<pending, result, tmp>>

Enter(w, label) == wpc' = [wpc EXCEPT ![w] = label]

-----------------------------------------------------------------------------
(* Slips a change to the code could make, for the mutation entries of      *)
(* PROJECT.json; nothing below uses them.                                  *)

\* The next chunk begins where the last one ended.
NextStartAbutting(end) == end

\* The flag is not looked at once the workers have ended.
GatheredUnasked == "Ok"

\* The bridge waits for the count only.
BridgeDoneUncancelled ==
    completed >= NumChunks /\ (job = "video" /\ Single => completed >= 1)

-----------------------------------------------------------------------------
(* Extraction and plan.                                                    *)

\* ffmpeg writes the temporary file, and removes it if it fails.
Extract ==
    /\ pc = "extract"
    /\ \/ pc' = "extracted" /\ tmp' = TRUE /\ UNCHANGED <<pending, result>>
       \/ Return("Failed")
       \/ cancelled /\ Return("Cancelled")
    /\ UNCHANGED <<fileVars, planVars, bridge, completed, cancelled, workVars>>

OpenExtracted ==
    /\ pc = "extracted"
    /\ \/ cancelled /\ Return("Cancelled")
       \/ ~cancelled /\ Return("Failed")
       \/ ~cancelled /\ Goto("plan")
    /\ UNCHANGED <<fileVars, planVars, bridge, completed, cancelled, workVars>>

NextStart(end) == IF end < Overlap THEN 0 ELSE end - Overlap

ChunkEnd == IF pos + ChunkMono < total THEN pos + ChunkMono ELSE total

\* One round of the loop of plan_chunk_boundaries.
PlanChunk ==
    /\ pc = "plan" /\ pos < total
    /\ chunks' = Append(chunks, [first |-> pos, last |-> ChunkEnd])
    /\ IF ChunkEnd >= total \/ NextStart(ChunkEnd) <= pos
       THEN Goto("bridge") /\ UNCHANGED pos
       ELSE pos' = NextStart(ChunkEnd) /\ UNCHANGED jobVars
    /\ UNCHANGED <<fileVars, bridge, completed, cancelled, workVars>>

PlanNothing ==
    /\ pc = "plan" /\ pos >= total
    /\ Goto("bridge")
    /\ UNCHANGED <<fileVars, planVars, bridge, completed, cancelled, workVars>>

StartBridge ==
    /\ pc = "bridge"
    /\ bridge' = "running"
    /\ Goto(IF Single THEN "single" ELSE "open")
    /\ UNCHANGED <<fileVars, planVars, completed, cancelled, workVars>>

-----------------------------------------------------------------------------
(* The thread of the job.                                                  *)

\* A short file is decoded in one piece, and then counted.
DecodeSingle ==
    /\ pc = "single"
    /\ \E r \in {"Ok", "Failed"} \cup (IF cancelled THEN {"Cancelled"} ELSE {}) :
           Conclude(r)
    /\ completed' = 1
    /\ UNCHANGED <<fileVars, planVars, bridge, cancelled, workVars>>

\* The file is opened again and scanned for the channel with the signal.
OpenFails ==
    /\ pc = "open"
    /\ Conclude("Failed")
    /\ UNCHANGED <<fileVars, planVars, bridge, completed, cancelled, workVars>>

StartWorkers ==
    /\ pc = "open"
    /\ Goto("run")
    /\ results' = [i \in 1 .. NumChunks |-> NoResult]
    /\ wpc' = [w \in Workers |-> IF w \in crew THEN "claim" ELSE "idle"]
    /\ UNCHANGED <<fileVars, planVars, bridge, completed, cancelled,
                   units, nextChunk, held, mark, out>>

Gathered == IF cancelled THEN "Cancelled" ELSE "Ok"

Gather ==
    /\ pc = "run" /\ \A w \in crew : wpc[w] = "ended"
    /\ Conclude(Gathered)
    /\ UNCHANGED <<fileVars, planVars, bridge, completed, cancelled, workVars>>

Join ==
    /\ pc = "join" /\ bridge = "ended"
    /\ Return(pending)
    /\ UNCHANGED <<fileVars, planVars, bridge, completed, cancelled, workVars>>

\* The progress of a video that is decoded in one piece is not given the
\* flag of the job.
BridgeDone ==
    \/ completed >= NumChunks /\ (job = "video" /\ Single => completed >= 1)
    \/ cancelled /\ ~(job = "video" /\ Single)

BridgeEnds ==
    /\ bridge = "running" /\ BridgeDone
    /\ bridge' = "ended"
    /\ UNCHANGED <<fileVars, planVars, jobVars, completed, cancelled, workVars>>

-----------------------------------------------------------------------------
(* The workers.                                                            *)

Claim(w) ==
    /\ wpc[w] = "claim"
    /\ held' = [held EXCEPT ![w] = nextChunk]
    /\ nextChunk' = nextChunk + 1
    /\ Enter(w, IF nextChunk > NumChunks THEN "ended" ELSE "check")
    /\ UNCHANGED <<fileVars, planVars, jobVars, bridge, completed, cancelled,
                   units, mark, out, results>>

Check(w) ==
    /\ wpc[w] = "check"
    /\ Enter(w, IF cancelled THEN "ended" ELSE "start")
    /\ UNCHANGED <<fileVars, planVars, jobVars, bridge, completed, cancelled,
                   units, nextChunk, held, mark, out, results>>

\* decode_one_chunk looks at the flag again, and opens the file for itself.
Start(w) ==
    /\ wpc[w] = "start"
    /\ \/ /\ cancelled
          /\ out' = [out EXCEPT ![w] = Bad("Cancelled")]
          /\ Enter(w, "recheck") /\ UNCHANGED mark
       \/ /\ ~cancelled
          /\ out' = [out EXCEPT ![w] = Bad("Failed")]
          /\ Enter(w, "recheck") /\ UNCHANGED mark
       \/ /\ ~cancelled
          /\ mark' = [mark EXCEPT ![w] = 0]
          /\ Enter(w, "decoding") /\ UNCHANGED out
    /\ UNCHANGED <<fileVars, planVars, jobVars, bridge, completed, cancelled,
                   units, nextChunk, held, results>>

\* Only what is above the highest mark so far counts.
Noted(w, f) == mark' = [mark EXCEPT ![w] = IF f > mark[w] THEN f ELSE mark[w]]

Credit(w, f) ==
    units' = IF f > mark[w]
             THEN units + ((f - mark[w]) * Length(held[w])) \div Levels
             ELSE units

\* A decoder may report less than before.
Report(w) ==
    /\ wpc[w] = "decoding"
    /\ \E f \in 0 .. Levels : Credit(w, f) /\ Noted(w, f)
    /\ UNCHANGED <<fileVars, planVars, jobVars, bridge, completed, cancelled,
                   nextChunk, wpc, held, out, results>>

Decoded(w) ==
    /\ wpc[w] = "decoding"
    /\ \E o \in {Good(late) : late \in 0 .. Jitter} \cup {Bad("Failed")}
                \cup (IF cancelled THEN {Bad("Cancelled")} ELSE {}) :
           out' = [out EXCEPT ![w] = o]
    /\ Credit(w, Levels) /\ mark' = [mark EXCEPT ![w] = Levels]
    /\ Enter(w, "recheck")
    /\ UNCHANGED <<fileVars, planVars, jobVars, bridge, completed, cancelled,
                   nextChunk, held, results>>

\* A worker among others drops what it has when the job is cancelled.
Recheck(w) ==
    /\ wpc[w] = "recheck"
    /\ Enter(w, IF cancelled /\ ~Sequential THEN "ended" ELSE "count")
    /\ UNCHANGED <<fileVars, planVars, jobVars, bridge, completed, cancelled,
                   units, nextChunk, held, mark, out, results>>

Count(w) ==
    /\ wpc[w] = "count"
    /\ completed' = completed + 1
    /\ Enter(w, "store")
    /\ UNCHANGED <<fileVars, planVars, jobVars, bridge, cancelled,
                   units, nextChunk, held, mark, out, results>>

Store(w) ==
    /\ wpc[w] = "store"
    /\ results' = [results EXCEPT ![held[w]] = out[w]]
    /\ Enter(w, "claim")
    /\ UNCHANGED <<fileVars, planVars, jobVars, bridge, completed, cancelled,
                   units, nextChunk, held, mark, out>>

-----------------------------------------------------------------------------
Cancel ==
    /\ ~cancelled /\ result = None
    /\ cancelled' = TRUE
    /\ UNCHANGED <<fileVars, planVars, jobVars, bridge, completed, workVars>>

Job ==
    \/ Extract \/ OpenExtracted \/ PlanChunk \/ PlanNothing \/ StartBridge
    \/ DecodeSingle \/ OpenFails \/ StartWorkers \/ Gather \/ Join

Worker(w) ==
    \/ Claim(w) \/ Check(w) \/ Start(w) \/ Report(w) \/ Decoded(w)
    \/ Recheck(w) \/ Count(w) \/ Store(w)

Next ==
    \/ Job
    \/ BridgeEnds
    \/ \E w \in Workers : Worker(w)
    \/ Cancel

\* Every thread runs; the loops over the samples end, and so does ffmpeg
\* (module Subprocess).
Spec ==
    /\ Init /\ [][Next]_vars
    /\ WF_vars(Job) /\ WF_vars(BridgeEnds)
    /\ \A w \in Workers : WF_vars(Worker(w))

-----------------------------------------------------------------------------
Busy == {"check", "start", "decoding", "recheck", "count", "store"}

Outcomes == [kind : {"none", "Ok", "Failed", "Cancelled"}, late : Nat]
Ends == {"Ok", "Failed", "Cancelled"}

\* The workers have been started.
Started == \E w \in crew : wpc[w] # "idle"

\* The type invariant.
DecodeTypeOK ==
    /\ total \in Nat /\ crew \in (SUBSET Workers) \ {{}}
    /\ chunks \in Seq([first : Nat, last : Nat]) /\ pos \in Nat
    /\ pc \in {"extract", "extracted", "plan", "bridge", "single", "open", "run",
               "join", "returned"}
    /\ pending \in Ends \cup {None} /\ result \in Ends \cup {None}
    /\ cancelled \in BOOLEAN
    /\ nextChunk \in Nat \ {0}
    /\ wpc \in [Workers -> Busy \cup {"idle", "claim", "ended"}]
    /\ held \in [Workers -> Nat]
    /\ out \in [Workers -> Outcomes]
    /\ Started => results \in [1 .. NumChunks -> Outcomes]

Planned == pc \notin {"extract", "extracted", "plan"}

\* Whatever is no longer than the overlap, a frame of timecode at the
\* boundary of two chunks in particular, lies within one chunk.
EveryFrameInAChunk ==
    Planned /\ (result = None \/ chunks # <<>>) =>
        \A s, t \in 0 .. total :
            s < t /\ t - s <= Overlap =>
                \E i \in DOMAIN chunks : chunks[i].first <= s /\ t <= chunks[i].last

\* No two workers have the same chunk, and no chunk that is stored is
\* decoded again.
ChunkDecodedOnce ==
    \A w \in Workers : wpc[w] \in Busy =>
        /\ \A v \in Workers \ {w} : wpc[v] \in Busy => held[v] # held[w]
        /\ results[held[w]] = NoResult

\* A decode that returns a result has one for every chunk: cut short by the
\* user it never passes for a whole one.
OkIsWhole ==
    "Ok" \in {pending, result} /\ ~Single =>
        /\ Started
        /\ \A i \in 1 .. NumChunks : results[i].kind \in {"Ok", "Failed"}

\* "must not pin the bar at 100 % while slower chunks are still working"
\* (audio-core/src/types.rs): it is full when the last chunk is.
Work == LET Sum[i \in 0 .. NumChunks] == IF i = 0 THEN 0 ELSE Sum[i - 1] + Length(i)
        IN  Sum[NumChunks]

BarIsHonest ==
    /\ units <= Work
    /\ units = Work /\ pc = "run" =>
           /\ nextChunk > NumChunks
           /\ \A w \in crew : wpc[w] = "decoding" => mark[w] = Levels

\* The decode comes to its end, except that the bridge is waited for in vain
\* when the file could not be opened or scanned.
DecodeEnds == <>(result # None \/ (pc = "join" /\ pending = "Failed" /\ ~Single))

\* The decode is a task, which is reported as cancelled only if it was and
\* ends when it is; and it ends although nobody cancels it.
Body == INSTANCE Task WITH
            Cancelled <- "Cancelled", asked <- cancelled

DecodeIsTask == Body!TaskSpec /\ DecodeEnds

-----------------------------------------------------------------------------
(* What the documentation says and the code does not keep (README,         *)
(* section 5).                                                             *)

\* The bridge is a "short-lived helper thread" (decode.rs): the decode comes
\* to its end.
BridgeIsShortLived == <>(result # None)
=============================================================================
