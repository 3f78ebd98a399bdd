------------------------------ MODULE ChunkMerge ------------------------------
(***************************************************************************)
(* What a parallel decode returns: the frames of timecode that the chunks  *)
(* report, brought into the order of the file, without those that two      *)
(* chunks report (merge_results, audio-core/src/chunked_decode.rs).        *)
(*                                                                         *)
(* The signal has a frame at every multiple of Frame samples after offset. *)
(* A decoder reports the frames that lie within its chunk, each as late as *)
(* the chunk's result says.                                                *)
(***************************************************************************)
EXTENDS ParallelDecode, FiniteSets

CONSTANT Frame      \* the length of a frame of timecode

ASSUME FrameAssumption == Frame \in Nat \ {0} /\ Frame <= Overlap

\* Two decoders judge the place of a frame alike to within half a frame, which
\* is what the distance that tells two reports apart is for.
ASSUME JitterAssumption == 2 * Jitter < Frame

At(k) == offset + k * Frame

\* The frames within a stretch of the file.
FramesIn(first, last) == {k \in 0 .. total : first <= At(k) /\ At(k) + Frame <= last}

\* What a chunk that was decoded reports.
Reported(i) ==
    {[secs |-> At(k) + results[i].late, chunk |-> i] :
        k \in IF results[i].kind = "Ok"
              THEN FramesIn(chunks[i].first, chunks[i].last) ELSE {}}

Reports == UNION {Reported(i) : i \in DOMAIN results}

Earlier(a, b) == a.secs < b.secs \/ (a.secs = b.secs /\ a.chunk < b.chunk)

\* A slip, for the mutation entries: whatever is not at the same sample.
DistinctAtAll(a, b) == b.secs > a.secs

\* Two reports are of two frames if they are further apart than half a frame
\* and half the overlap.
Distinct(a, b) ==
    2 * (b.secs - a.secs) > (IF Frame < Overlap THEN Frame ELSE Overlap)

\* The reports that come into question behind those kept so far.
Left(kept) == {r \in Reports : kept = <<>> \/ Distinct(kept[Len(kept)], r)}

Earliest(R) == CHOOSE r \in R : \A q \in R : q = r \/ Earlier(r, q)

\* The reports are gone through from the earliest to the latest, and each is
\* kept that is distinct from the one kept last.
Keep(kept) == IF Left(kept) = {} THEN kept ELSE Append(kept, Earliest(Left(kept)))

Merged ==
    LET upto[n \in 0 .. Cardinality(Reports)] ==
            IF n = 0 THEN <<>> ELSE Keep(upto[n - 1])
    IN  upto[Cardinality(Reports)]

Found(k) == \E n \in DOMAIN Merged : Merged[n].secs - At(k) \in 0 .. Jitter

\* Every frame of timecode that a decoded chunk holds is in the result, once
\* and in its place, also one at the boundary of two chunks that judge its
\* position differently; a chunk that failed takes no frame of another one
\* with it.
FramesOnce ==
    pending = "Ok" /\ ~Single =>
        /\ \A i \in DOMAIN results : results[i].kind = "Ok" =>
               \A k \in FramesIn(chunks[i].first, chunks[i].last) : Found(k)
        /\ \A n \in 2 .. Len(Merged) : Merged[n].secs - Merged[n - 1].secs > Jitter
=============================================================================
