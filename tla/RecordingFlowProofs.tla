------------------------ MODULE RecordingFlowProofs ------------------------
(***************************************************************************)
(* Proofs about JobSupervisor, for every set of kinds and every bound, and *)
(* about RecordingFlow: it uses the supervisor only as JobSupervisor       *)
(* allows, so every invariant proved there holds here, and what it shows   *)
(* of a recording comes from the newest job of the kind.                   *)
(***************************************************************************)
EXTENDS RecordingFlow, SequenceTheorems, TLAPS

-----------------------------------------------------------------------------
(* The supervisor.                                                         *)

LEMMA SwapRemoveType ==
    ASSUME NEW S, NEW s \in Seq(S), NEW i \in 1..Len(s)
    PROVE  /\ SwapRemove(s, i) \in Seq(S)
           /\ Len(SwapRemove(s, i)) = Len(s) - 1
           /\ \A n \in 1..(Len(s) - 1) :
                SwapRemove(s, i)[n] = IF n = i THEN s[Len(s)] ELSE s[n]
<1>1. Len(s) \in Nat /\ Len(s) >= 1 /\ Len(s) - 1 \in Nat
  BY LenProperties
<1>2. \A n \in 1..Len(s) : s[n] \in S
  BY ElementOfSeq
<1>3. \A n \in 1..(Len(s) - 1) : (IF n = i THEN s[Len(s)] ELSE s[n]) \in S
  BY <1>1, <1>2
<1>4. SwapRemove(s, i) \in Seq(S) /\ Len(SwapRemove(s, i)) = Len(s) - 1
  BY <1>1, <1>3, IsASeq DEF SwapRemove
<1> QED
  BY <1>4 DEF SwapRemove

-----------------------------------------------------------------------------
(* Type correctness.                                                        *)

\* While poll walks the list downwards, the index it looks at is in the list.
ScanInBounds == pc = "reap" => scan <= Len(active)

TypeInv == TypeOK /\ ScanInBounds

LEMMA CancelType ==
    ASSUME TypeOK, NEW C, Cancel(C)
    PROVE  /\ cancelled' \in [JobId -> BOOLEAN]
           /\ UNCHANGED <<next_id, kind_of, latest_job, active, worker, items>>
BY DEF Cancel, CancelFlags, TypeOK

LEMMA SpawnType ==
    ASSUME TypeOK, NEW C, NEW k \in Kind, CancelAndSpawn(C, k)
    PROVE  /\ next_id \in JobId
           /\ next_id' \in 1..(MaxJobs + 1)
           /\ kind_of' \in [JobId -> Kind \cup {NoKind}]
           /\ latest_job' \in [Kind -> JobId \cup {NoJob}]
           /\ active' \in Seq(JobId)
           /\ Len(active') = Len(active) + 1
           /\ \A i \in 1..Len(active) : active'[i] = active[i]
           /\ active'[Len(active) + 1] = next_id
           /\ cancelled' \in [JobId -> BOOLEAN]
           /\ worker' \in [JobId -> WorkerState]
           /\ items' = items
<1>1. next_id \in JobId /\ next_id' = next_id + 1
  BY DEF CancelAndSpawn
<1>2. next_id' \in 1..(MaxJobs + 1)
  BY <1>1, MaxJobsAssumption DEF JobId
<1>3. cancelled' \in [JobId -> BOOLEAN]
  BY DEF CancelAndSpawn, CancelFlags
<1>4. active \in Seq(JobId) /\ active' = Append(active, next_id)
  BY DEF CancelAndSpawn, TypeOK
<1>5. /\ active' \in Seq(JobId)
      /\ Len(active') = Len(active) + 1
      /\ \A i \in 1..Len(active) : active'[i] = active[i]
      /\ active'[Len(active) + 1] = next_id
  BY <1>1, <1>4, AppendProperties
<1>6. /\ kind_of' \in [JobId -> Kind \cup {NoKind}]
      /\ latest_job' \in [Kind -> JobId \cup {NoJob}]
      /\ worker' \in [JobId -> WorkerState]
      /\ items' = items
  BY <1>1 DEF CancelAndSpawn, TypeOK, WorkerState
<1> QED
  BY <1>1, <1>2, <1>3, <1>5, <1>6

LEMMA TakeEventType ==
    ASSUME TypeOK, TakeEvent
    PROVE  /\ events_buffer' \in Seq(Event)
           /\ settled' \in SUBSET JobId
           /\ UNCHANGED <<channel, pc, scan, deadline>>
           /\ pc = "events"
<1>1. events_buffer \in Seq(Event) /\ events_buffer # <<>>
  BY DEF TakeEvent, TypeOK
<1>2. Head(events_buffer) \in Event /\ Tail(events_buffer) \in Seq(Event)
  BY <1>1, HeadTailProperties
<1> QED
  BY <1>2 DEF TakeEvent, TypeOK, Event

LEMMA ReapOneType ==
    ASSUME TypeInv, ReapOne
    PROVE  /\ active' \in Seq(JobId)
           /\ scan' \in Nat
           /\ scan' <= Len(active')
<1>1. scan \in 1..Len(active) /\ active \in Seq(JobId) /\ Len(active) \in Nat
  BY LenProperties DEF TypeInv, TypeOK, ScanInBounds, ReapOne
<1>2. /\ SwapRemove(active, scan) \in Seq(JobId)
      /\ Len(SwapRemove(active, scan)) = Len(active) - 1
  BY <1>1, SwapRemoveType
<1> QED
  BY <1>1, <1>2 DEF ReapOne

LEMMA SendType ==
    ASSUME TypeOK, NEW e \in Event, Send(e)
    PROVE  channel' \in Seq(Event)
BY AppendProperties DEF Send, TypeOK

LEMMA TypeInit == Init => TypeInv
<1> SUFFICES ASSUME Init PROVE TypeInv
  OBVIOUS
<1>1. /\ next_id \in 1..(MaxJobs + 1) /\ items \in [JobId -> 0..MaxItems] /\ scan \in Nat
      /\ settled \in SUBSET JobId
  BY MaxJobsAssumption, MaxItemsAssumption DEF Init
<1>2. /\ kind_of \in [JobId -> Kind \cup {NoKind}]
      /\ latest_job \in [Kind -> JobId \cup {NoJob}]
      /\ active \in Seq(JobId)
  BY DEF Init
<1>3. /\ cancelled \in [JobId -> BOOLEAN]
      /\ worker \in [JobId -> WorkerState]
      /\ pc \in Phase /\ deadline \in BOOLEAN
  BY DEF Init, WorkerState, Phase
<1>4. channel \in Seq(Event) /\ events_buffer \in Seq(Event)
  BY DEF Init
<1>5. ScanInBounds
  BY DEF Init, ScanInBounds
<1> QED
  BY <1>1, <1>2, <1>3, <1>4, <1>5 DEF TypeInv, TypeOK

LEMMA TypeStep == TypeInv /\ [Next]_vars => TypeInv'
<1> SUFFICES ASSUME TypeInv, [Next]_vars PROVE TypeInv'
  OBVIOUS
<1> USE DEF TypeInv, ScanInBounds
<1>1. CASE Command
  <2>1. PICK C \in SUBSET Kind : Cancel(C) \/ \E k \in Kind : CancelAndSpawn(C, k)
    BY <1>1 DEF Command
  <2>2. pc = "commands" /\ UNCHANGED <<channel, loopVars>>
    BY <1>1 DEF Command
  <2>3. CASE Cancel(C)
    BY <2>2, <2>3, CancelType DEF TypeOK, loopVars
  <2>4. ASSUME NEW k \in Kind, CancelAndSpawn(C, k) PROVE TypeInv'
    BY <2>2, <2>4, SpawnType DEF TypeOK, loopVars
  <2> QED
    BY <2>1, <2>3, <2>4
<1>2. CASE Poll
  <2>1. events_buffer' \in Seq(Event) /\ channel' \in Seq(Event)
    BY <1>2, ConcatProperties DEF Poll, TypeOK
  <2>2. scan' \in Nat /\ scan' <= Len(active')
    BY <1>2, LenProperties DEF Poll, TypeOK, jobVars
  <2> QED
    BY <1>2, <2>1, <2>2 DEF Poll, TypeOK, jobVars, Phase
<1>3. CASE ReapOne
  BY <1>3, ReapOneType DEF ReapOne, TypeOK, workerVars
<1>4. CASE Drain
  BY <1>4 DEF Drain, TypeOK, jobVars, workerVars, Phase
<1>5. CASE DiscardStale
  BY <1>5, TakeEventType DEF DiscardStale, TypeOK, jobVars
<1>6. CASE HandleEvent
  <2>1. TakeEvent
    BY <1>6 DEF HandleEvent
  <2>2. CASE UNCHANGED <<jobVars, worker, items>>
    BY <2>1, <2>2, TakeEventType DEF TypeOK, jobVars
  <2>3. ASSUME NEW C, Cancel(C) PROVE TypeInv'
    BY <2>1, <2>3, TakeEventType, CancelType DEF TypeOK
  <2>4. ASSUME NEW C, NEW k \in Kind, CancelAndSpawn(C, k) PROVE TypeInv'
    BY <2>1, <2>4, TakeEventType, SpawnType DEF TypeOK
  <2> QED
    BY <1>6, <2>2, <2>3, <2>4 DEF HandleEvent
<1>7. CASE EndTick
  BY <1>7 DEF EndTick, TypeOK, jobVars, workerVars, Phase
<1>8. CASE Shutdown
  BY <1>8 DEF Shutdown, TypeOK, workerVars, Phase
<1>9. CASE DeadlinePasses
  BY <1>9 DEF DeadlinePasses, TypeOK, jobVars, workerVars
<1>10. CASE NextJoin
  BY <1>10 DEF NextJoin, TypeOK, jobVars, workerVars, Phase
<1>11. CASE JoinReturns
  BY <1>11 DEF JoinReturns, TypeOK, jobVars, workerVars, Phase
<1>12. ASSUME NEW j \in JobId, EmitItem(j) PROVE TypeInv'
  <2>1. channel' \in Seq(Event)
    BY <1>12, SendType DEF EmitItem, Event
  <2> QED
    BY <1>12, <2>1, MaxItemsAssumption DEF EmitItem, TypeOK, jobVars, loopVars
<1>13. ASSUME NEW j \in JobId, NEW outcome \in Outcome, Report(j, outcome) PROVE TypeInv'
  <2>1. channel' \in Seq(Event)
    BY <1>13, SendType DEF Report, Event
  <2> QED
    BY <1>13, <2>1 DEF Report, TypeOK, jobVars, loopVars, WorkerState
<1>14. ASSUME NEW j \in JobId, Exit(j) PROVE TypeInv'
  BY <1>14 DEF Exit, TypeOK, jobVars, loopVars, WorkerState
<1>15. CASE UNCHANGED vars
  BY <1>15 DEF TypeOK, vars, jobVars, workerVars, loopVars
<1> QED
  BY <1>1, <1>2, <1>3, <1>4, <1>5, <1>6, <1>7, <1>8, <1>9, <1>10, <1>11,
     <1>12, <1>13, <1>14, <1>15 DEF Next, Tick, Closing, Work, Stopped

\* Every variable of the supervisor and the tick keeps its type.
THEOREM TypeCorrect == Spec => []TypeOK
<1>1. TypeInv => TypeOK
  BY DEF TypeInv
<1> QED
  BY <1>1, TypeInit, TypeStep, PTL DEF Spec

-----------------------------------------------------------------------------
(* The list of active jobs.  LiveWorkersListed and LatestIsNewest are not   *)
(* inductive: a spawn preserves them because the new id is greater than     *)
(* every id in use, and reaping because only threads that ended leave.      *)

BornBelow == \A j \in JobId : Born(j) <=> j < next_id
BornHasKind == \A j \in JobId : Born(j) => kind_of[j] \in Kind
ListedIsBorn == \A i \in 1..Len(active) : Born(active[i])

ListInv ==
    /\ BornBelow
    /\ BornHasKind
    /\ ListedIsBorn
    /\ LiveWorkersListed
    /\ LatestIsNewest

LEMMA ListInit == Init => ListInv
BY MaxJobsAssumption
   DEF Init, ListInv, BornBelow, BornHasKind, ListedIsBorn, LiveWorkersListed,
       LatestIsNewest, Born, JobId

\* A step that leaves the list and the ids alone, and in which threads only
\* move towards their end.
LEMMA ListQuiet ==
    ASSUME TypeOK, ListInv,
           UNCHANGED <<next_id, kind_of, latest_job, active>>,
           \A j \in JobId : worker'[j] = "unborn" <=> worker[j] = "unborn",
           \A j \in JobId : worker'[j] \in {"running", "reported"}
                                => worker[j] \in {"running", "reported"}
    PROVE  ListInv'
<1>1. \A i \in 1..Len(active) : active[i] \in JobId
  BY ElementOfSeq DEF TypeOK
<1> QED
  BY <1>1 DEF ListInv, BornBelow, BornHasKind, ListedIsBorn, LiveWorkersListed,
              LatestIsNewest, Born

LEMMA ListSpawn ==
    ASSUME TypeOK, ListInv, NEW C, NEW k \in Kind, CancelAndSpawn(C, k)
    PROVE  ListInv'
<1>1. /\ next_id \in JobId /\ next_id' = next_id + 1
      /\ kind_of' = [kind_of EXCEPT ![next_id] = k]
      /\ latest_job' = [latest_job EXCEPT ![k] = next_id]
      /\ worker' = [worker EXCEPT ![next_id] = "running"]
  BY DEF CancelAndSpawn
<1>2. /\ active' \in Seq(JobId)
      /\ Len(active') = Len(active) + 1
      /\ \A i \in 1..Len(active) : active'[i] = active[i]
      /\ active'[Len(active) + 1] = next_id
  BY SpawnType
<1>3. Len(active) \in Nat /\ \A i \in 1..Len(active) : active[i] \in JobId
  BY ElementOfSeq, LenProperties DEF TypeOK
<1>4. \A j \in JobId : Born(j)' <=> Born(j) \/ j = next_id
  BY <1>1 DEF Born, TypeOK
<1>5. JobId \subseteq Int /\ ~Born(next_id)
  BY <1>1 DEF JobId, ListInv, BornBelow
<1>6. BornBelow'
  BY <1>1, <1>4, <1>5 DEF ListInv, BornBelow
<1>7. BornHasKind'
  BY <1>1, <1>4 DEF ListInv, BornHasKind, TypeOK
<1>8. ListedIsBorn'
  BY <1>1, <1>2, <1>3, <1>4 DEF ListInv, ListedIsBorn
<1>9. \A i \in 1..Len(active) : active[i] # next_id
  BY <1>5 DEF ListInv, ListedIsBorn
<1>10. ASSUME NEW j \in JobId, worker'[j] \in {"running", "reported"}
       PROVE  \E i \in 1..Len(active') : active'[i] = j
  <2>1. CASE j = next_id
    BY <2>1, <1>2, <1>3
  <2>2. CASE j # next_id
    <3>1. PICK i \in 1..Len(active) : active[i] = j
      BY <1>1, <1>10, <2>2 DEF ListInv, LiveWorkersListed, TypeOK
    <3> QED
      BY <3>1, <1>2, <1>3
  <2> QED
    BY <2>1, <2>2
<1>11. ASSUME NEW i \in 1..Len(active'), NEW n \in 1..Len(active'), active'[i] = active'[n]
       PROVE  i = n
  BY <1>2, <1>3, <1>9, <1>11 DEF ListInv, LiveWorkersListed
<1>12. LiveWorkersListed'
  BY <1>10, <1>11 DEF LiveWorkersListed
<1>13. LatestIsNewest'
  <2> SUFFICES ASSUME NEW j \in JobId, Born(j)' PROVE latest_job'[kind_of'[j]] >= j
    BY DEF LatestIsNewest
  <2>1. CASE j = next_id
    BY <2>1, <1>1, <1>5 DEF TypeOK
  <2>2. CASE j # next_id
    <3>1. Born(j) /\ kind_of'[j] = kind_of[j] /\ kind_of[j] \in Kind
      BY <2>2, <1>1, <1>4 DEF ListInv, BornHasKind, TypeOK
    <3>2. latest_job[kind_of[j]] >= j /\ j < next_id
      BY <3>1 DEF ListInv, LatestIsNewest, BornBelow
    <3> QED
      BY <3>1, <3>2, <1>1, <1>5 DEF TypeOK
  <2> QED
    BY <2>1, <2>2
<1> QED
  BY <1>6, <1>7, <1>8, <1>12, <1>13 DEF ListInv

LEMMA ListReap ==
    ASSUME TypeInv, ListInv, ReapOne
    PROVE  ListInv'
<1>1. /\ scan \in 1..Len(active) /\ active \in Seq(JobId) /\ Len(active) \in Nat
      /\ UNCHANGED <<next_id, kind_of, latest_job, worker>>
  BY LenProperties DEF TypeInv, TypeOK, ScanInBounds, ReapOne, workerVars
<1>2. CASE worker[active[scan]] # "exited"
  BY <1>1, <1>2, ListQuiet DEF ReapOne, TypeInv
<1>3. CASE worker[active[scan]] = "exited"
  <2>1. active' = SwapRemove(active, scan)
    BY <1>3 DEF ReapOne
  <2>2. /\ active' \in Seq(JobId)
        /\ Len(active') = Len(active) - 1
        /\ \A n \in 1..(Len(active) - 1) :
             active'[n] = IF n = scan THEN active[Len(active)] ELSE active[n]
    BY <1>1, <2>1, SwapRemoveType
  <2>3. ListedIsBorn'
    BY <1>1, <2>2 DEF ListInv, ListedIsBorn, Born
  <2>4. ASSUME NEW j \in JobId, worker'[j] \in {"running", "reported"}
        PROVE  \E i \in 1..Len(active') : active'[i] = j
    <3>1. PICK i \in 1..Len(active) : active[i] = j
      BY <1>1, <2>4 DEF ListInv, LiveWorkersListed
    <3>2. i # scan
      BY <1>1, <1>3, <2>4, <3>1
    <3>3. CASE i = Len(active)
      BY <1>1, <2>2, <3>1, <3>2, <3>3
    <3>4. CASE i # Len(active)
      BY <1>1, <2>2, <3>1, <3>2, <3>4
    <3> QED
      BY <3>3, <3>4
  <2>5. ASSUME NEW i \in 1..Len(active'), NEW n \in 1..Len(active'), active'[i] = active'[n]
        PROVE  i = n
    BY <1>1, <2>2, <2>5 DEF ListInv, LiveWorkersListed
  <2>6. LiveWorkersListed'
    BY <2>4, <2>5 DEF LiveWorkersListed
  <2> QED
    BY <1>1, <2>3, <2>6 DEF ListInv, BornBelow, BornHasKind, LatestIsNewest, Born
<1> QED
  BY <1>2, <1>3

LEMMA ListStep == TypeInv /\ ListInv /\ [Next]_vars => ListInv'
<1> SUFFICES ASSUME TypeInv, ListInv, [Next]_vars PROVE ListInv'
  OBVIOUS
<1>0. TypeOK
  BY DEF TypeInv
<1>1. ASSUME UNCHANGED <<next_id, kind_of, latest_job, active, worker>> PROVE ListInv'
  BY <1>0, <1>1, ListQuiet
<1>2. ASSUME NEW C, Cancel(C) PROVE ListInv'
  BY <1>1, <1>2 DEF Cancel
<1>3. CASE Command
  BY <1>0, <1>2, <1>3, ListSpawn DEF Command
<1>4. CASE HandleEvent
  BY <1>0, <1>1, <1>2, <1>4, ListSpawn DEF HandleEvent, jobVars
<1>5. CASE ReapOne
  BY <1>5, ListReap
<1>6. CASE Poll \/ Drain \/ DiscardStale \/ EndTick
  BY <1>1, <1>6 DEF Poll, Drain, DiscardStale, EndTick, jobVars, workerVars
<1>7. CASE Shutdown \/ DeadlinePasses \/ NextJoin \/ JoinReturns
  BY <1>1, <1>7 DEF Shutdown, DeadlinePasses, NextJoin, JoinReturns, jobVars, workerVars
<1>8. ASSUME NEW j \in JobId, EmitItem(j) PROVE ListInv'
  BY <1>1, <1>8 DEF EmitItem, jobVars
<1>9. ASSUME NEW j \in JobId, NEW outcome \in Outcome, Report(j, outcome) PROVE ListInv'
  BY <1>0, <1>9, ListQuiet DEF Report, jobVars, TypeOK
<1>10. ASSUME NEW j \in JobId, Exit(j) PROVE ListInv'
  BY <1>0, <1>10, ListQuiet DEF Exit, jobVars, TypeOK
<1>11. CASE UNCHANGED vars
  BY <1>1, <1>11 DEF vars, jobVars, workerVars
<1> QED
  BY <1>3, <1>4, <1>5, <1>6, <1>7, <1>8, <1>9, <1>10, <1>11
     DEF Next, Tick, Closing, Work, Stopped

\* Every thread that has not ended is listed exactly once among the active
\* jobs, however spawns, swap_remove and ending threads interleave.
THEOREM LiveWorkersAlwaysListed == Spec => []LiveWorkersListed
<1>1. ListInv => LiveWorkersListed
  BY DEF ListInv
<1> QED
  BY <1>1, TypeInit, TypeStep, ListInit, ListStep, PTL DEF Spec

\* The newest job of a kind is the one the event filter lets through.
THEOREM LatestAlwaysNewest == Spec => []LatestIsNewest
<1>1. ListInv => LatestIsNewest
  BY DEF ListInv
<1> QED
  BY <1>1, TypeInit, TypeStep, ListInit, ListStep, PTL DEF Spec

-----------------------------------------------------------------------------
(* Events on their way from the workers to the handlers, in one queue.      *)

Done(j) == worker[j] \in {"reported", "exited"}

FinishedIsReported ==
    \A n \in 1..Len(Pipeline) : IsFinished(Pipeline[n]) => Done(Pipeline[n].job)
SettledIsReported == \A j \in settled : Done(j)

EventInv ==
    /\ FinishedIsReported
    /\ SettledIsReported
    /\ FinishedNeverLost
    /\ FinishedIsLast

LEMMA PipelineType ==
    ASSUME TypeOK
    PROVE  /\ Pipeline \in Seq(Event)
           /\ Len(Pipeline) \in Nat
           /\ \A n \in 1..Len(Pipeline) : Pipeline[n].job \in JobId
<1>1. Pipeline \in Seq(Event)
  BY ConcatProperties DEF TypeOK, Pipeline
<1>2. \A n \in 1..Len(Pipeline) : Pipeline[n] \in Event
  BY <1>1, ElementOfSeq
<1> QED
  BY <1>1, <1>2, LenProperties DEF Event

\* Receiving moves events along, it neither drops nor reorders any.
LEMMA PipelinePoll ==
    ASSUME TypeOK, Poll
    PROVE  Pipeline' = Pipeline
<1>1. events_buffer \o channel \in Seq(Event)
  BY ConcatProperties DEF TypeOK
<1> QED
  BY <1>1, ConcatEmptySeq DEF Poll, Pipeline

LEMMA PipelineTake ==
    ASSUME TypeOK, TakeEvent
    PROVE  /\ Len(Pipeline) >= 1
           /\ Pipeline[1] = Head(events_buffer)
           /\ Len(Pipeline') = Len(Pipeline) - 1
           /\ \A n \in 1..(Len(Pipeline) - 1) : Pipeline'[n] = Pipeline[n + 1]
<1>1. /\ events_buffer \in Seq(Event) /\ channel \in Seq(Event)
      /\ events_buffer # <<>>
      /\ events_buffer' = Tail(events_buffer) /\ channel' = channel
  BY DEF TypeOK, TakeEvent
<1>2. /\ Len(events_buffer) \in Nat \ {0} /\ Len(channel) \in Nat
      /\ Tail(events_buffer) \in Seq(Event)
      /\ Len(Tail(events_buffer)) = Len(events_buffer) - 1
      /\ \A n \in 1..(Len(events_buffer) - 1) :
            Tail(events_buffer)[n] = events_buffer[n + 1]
  BY <1>1, HeadTailProperties, EmptySeq, LenProperties
<1>3. Head(events_buffer) = events_buffer[1]
  BY <1>1
<1>4. /\ Len(Pipeline) = Len(events_buffer) + Len(channel)
      /\ \A n \in 1..(Len(events_buffer) + Len(channel)) :
            Pipeline[n] = IF n <= Len(events_buffer) THEN events_buffer[n]
                          ELSE channel[n - Len(events_buffer)]
  BY <1>1, ConcatProperties DEF Pipeline
<1>5. /\ Len(Pipeline') = Len(events_buffer) - 1 + Len(channel)
      /\ \A n \in 1..(Len(events_buffer) - 1 + Len(channel)) :
            Pipeline'[n] = IF n <= Len(events_buffer) - 1 THEN Tail(events_buffer)[n]
                           ELSE channel[n - (Len(events_buffer) - 1)]
  BY <1>1, <1>2, ConcatProperties DEF Pipeline
<1>6. Len(Pipeline) >= 1 /\ Pipeline[1] = Head(events_buffer)
      /\ Len(Pipeline') = Len(Pipeline) - 1
  BY <1>2, <1>3, <1>4, <1>5
<1>7. ASSUME NEW n \in 1..(Len(Pipeline) - 1) PROVE Pipeline'[n] = Pipeline[n + 1]
  <2>1. CASE n <= Len(events_buffer) - 1
    BY <2>1, <1>2, <1>4, <1>5
  <2>2. CASE n > Len(events_buffer) - 1
    BY <2>2, <1>2, <1>4, <1>5
  <2> QED
    BY <2>1, <2>2, <1>2, <1>4
<1> QED
  BY <1>6, <1>7

LEMMA PipelineSend ==
    ASSUME TypeOK, NEW e \in Event, Send(e), events_buffer' = events_buffer
    PROVE  /\ Len(Pipeline') = Len(Pipeline) + 1
           /\ \A n \in 1..Len(Pipeline) : Pipeline'[n] = Pipeline[n]
           /\ Pipeline'[Len(Pipeline) + 1] = e
<1>1. events_buffer \in Seq(Event) /\ channel \in Seq(Event) /\ channel' = Append(channel, e)
  BY DEF TypeOK, Send
<1>2. Len(events_buffer) \in Nat /\ Len(channel) \in Nat
  BY <1>1, LenProperties
<1>3. /\ channel' \in Seq(Event)
      /\ Len(channel') = Len(channel) + 1
      /\ \A n \in 1..Len(channel) : channel'[n] = channel[n]
      /\ channel'[Len(channel) + 1] = e
  BY <1>1, AppendProperties
<1>4. /\ Len(Pipeline) = Len(events_buffer) + Len(channel)
      /\ \A n \in 1..(Len(events_buffer) + Len(channel)) :
            Pipeline[n] = IF n <= Len(events_buffer) THEN events_buffer[n]
                          ELSE channel[n - Len(events_buffer)]
  BY <1>1, ConcatProperties DEF Pipeline
<1>5. /\ Len(Pipeline') = Len(events_buffer) + (Len(channel) + 1)
      /\ \A n \in 1..(Len(events_buffer) + (Len(channel) + 1)) :
            Pipeline'[n] = IF n <= Len(events_buffer) THEN events_buffer[n]
                           ELSE channel'[n - Len(events_buffer)]
  <2>1. Pipeline' = events_buffer \o channel'
    BY DEF Pipeline
  <2>2. /\ Len(events_buffer \o channel') = Len(events_buffer) + Len(channel')
        /\ \A n \in 1..(Len(events_buffer) + Len(channel')) :
              (events_buffer \o channel')[n] =
                  IF n <= Len(events_buffer) THEN events_buffer[n]
                  ELSE channel'[n - Len(events_buffer)]
    BY <1>1, <1>3, ConcatProperties
  <2> QED
    BY <1>3, <2>1, <2>2
<1>6. Len(Pipeline') = Len(Pipeline) + 1
  BY <1>2, <1>4, <1>5
<1>7. ASSUME NEW n \in 1..Len(Pipeline) PROVE Pipeline'[n] = Pipeline[n]
  <2>1. n \in 1..(Len(events_buffer) + (Len(channel) + 1))
    BY <1>2, <1>4
  <2>2. CASE n <= Len(events_buffer)
    BY <2>1, <2>2, <1>4, <1>5
  <2>3. CASE n > Len(events_buffer)
    <3>1. n - Len(events_buffer) \in 1..Len(channel)
      BY <2>3, <1>2, <1>4
    <3>2. channel'[n - Len(events_buffer)] = channel[n - Len(events_buffer)]
      BY <3>1, <1>3
    <3> QED
      BY <2>1, <2>3, <3>2, <1>2, <1>4, <1>5
  <2> QED
    BY <2>1, <2>2, <2>3, <1>2
<1>8. Pipeline'[Len(Pipeline) + 1] = e
  <2>1. /\ Len(Pipeline) + 1 \in 1..(Len(events_buffer) + (Len(channel) + 1))
        /\ ~(Len(Pipeline) + 1 <= Len(events_buffer))
        /\ Len(Pipeline) + 1 - Len(events_buffer) = Len(channel) + 1
    BY <1>2, <1>4
  <2> QED
    BY <2>1, <1>3, <1>5
<1> QED
  BY <1>6, <1>7, <1>8

LEMMA EventInit == Init => EventInv
<1> SUFFICES ASSUME Init PROVE EventInv
  OBVIOUS
<1>1. Len(Pipeline) = 0
  BY EmptySeq, ConcatEmptySeq DEF Init, Pipeline
<1> QED
  BY <1>1 DEF Init, EventInv, FinishedIsReported, SettledIsReported,
              FinishedNeverLost, FinishedIsLast

\* A step that neither sends, takes nor reports.
LEMMA EventQuiet ==
    ASSUME TypeOK, EventInv,
           Pipeline' = Pipeline, settled' = settled,
           \A j \in JobId : Done(j)' <=> Done(j)
    PROVE  EventInv'
<1>1. \A n \in 1..Len(Pipeline) : Pipeline[n].job \in JobId
  BY PipelineType
<1>2. settled \subseteq JobId
  BY DEF TypeOK
<1> QED
  BY <1>1, <1>2 DEF EventInv, FinishedIsReported, SettledIsReported,
                    FinishedNeverLost, FinishedIsLast, Done, IsFinished

LEMMA EventTake ==
    ASSUME TypeOK, EventInv, TakeEvent, \A j \in JobId : Done(j)' <=> Done(j)
    PROVE  EventInv'
<1> DEFINE e == Head(events_buffer)
<1>1. /\ Len(Pipeline) >= 1 /\ Len(Pipeline) \in Nat
      /\ Pipeline[1] = e
      /\ Len(Pipeline') = Len(Pipeline) - 1
      /\ \A n \in 1..(Len(Pipeline) - 1) : Pipeline'[n] = Pipeline[n + 1]
  BY PipelineTake, PipelineType
<1>2. /\ \A n \in 1..Len(Pipeline) : Pipeline[n].job \in JobId
      /\ settled \subseteq JobId
  BY PipelineType DEF TypeOK
<1>3. settled' = IF IsFinished(e) THEN settled \cup {e.job} ELSE settled
  BY DEF TakeEvent
<1> HIDE DEF e
<1>4. FinishedIsReported'
  BY <1>1, <1>2 DEF EventInv, FinishedIsReported, IsFinished
<1>5. SettledIsReported'
  BY <1>1, <1>2, <1>3 DEF EventInv, FinishedIsReported, SettledIsReported
<1>6. FinishedNeverLost'
  <2> SUFFICES ASSUME NEW j \in JobId, Done(j)', j \notin settled'
               PROVE  \E n \in 1..Len(Pipeline') :
                        Pipeline'[n].job = j /\ IsFinished(Pipeline'[n])
    BY DEF FinishedNeverLost, Done, IsFinished
  <2>1. PICK n \in 1..Len(Pipeline) : Pipeline[n].job = j /\ IsFinished(Pipeline[n])
    BY <1>3 DEF EventInv, FinishedNeverLost, Done
  <2>2. n # 1
    BY <2>1, <1>1, <1>3
  <2>3. n - 1 \in 1..Len(Pipeline') /\ Pipeline'[n - 1] = Pipeline[n]
    BY <2>1, <2>2, <1>1
  <2> QED
    BY <2>1, <2>3
<1>7. FinishedIsLast'
  <2>1. ASSUME NEW n \in 1..Len(Pipeline'), NEW m \in 1..Len(Pipeline'),
               n < m, Pipeline'[n].job = Pipeline'[m].job
        PROVE  ~IsFinished(Pipeline'[n])
    <3>1. /\ n + 1 \in 1..Len(Pipeline) /\ Pipeline'[n] = Pipeline[n + 1]
          /\ m + 1 \in 1..Len(Pipeline) /\ Pipeline'[m] = Pipeline[m + 1]
          /\ n + 1 < m + 1
      BY <2>1, <1>1
    <3>2. ~IsFinished(Pipeline[n + 1])
      BY <3>1, <2>1 DEF EventInv, FinishedIsLast
    <3> QED
      BY <3>1, <3>2
  <2>2. ASSUME NEW n \in 1..Len(Pipeline') PROVE Pipeline'[n].job \notin settled'
    <3>1. n + 1 \in 1..Len(Pipeline) /\ Pipeline'[n] = Pipeline[n + 1]
      BY <1>1
    <3>2. Pipeline[n + 1].job \notin settled
      BY <3>1 DEF EventInv, FinishedIsLast
    <3>3. IsFinished(e) => Pipeline[n + 1].job # e.job
      BY <3>1, <1>1 DEF EventInv, FinishedIsLast
    <3> QED
      BY <3>1, <3>2, <3>3, <1>3
  <2> QED
    BY <2>1, <2>2 DEF FinishedIsLast, IsFinished
<1> QED
  BY <1>4, <1>5, <1>6, <1>7 DEF EventInv

\* A worker that is running sends one more event: it has sent no Finished yet.
LEMMA EventSend ==
    ASSUME TypeOK, EventInv, NEW e \in Event, Send(e),
           events_buffer' = events_buffer, settled' = settled,
           worker[e.job] = "running",
           \A j \in JobId : j # e.job => (Done(j)' <=> Done(j)),
           Done(e.job)' <=> IsFinished(e)
    PROVE  EventInv'
<1>1. /\ Len(Pipeline) \in Nat
      /\ Len(Pipeline') = Len(Pipeline) + 1
      /\ \A n \in 1..Len(Pipeline) : Pipeline'[n] = Pipeline[n]
      /\ Pipeline'[Len(Pipeline) + 1] = e
  BY PipelineSend, PipelineType
<1>2. /\ \A n \in 1..Len(Pipeline) : Pipeline[n].job \in JobId
      /\ settled \subseteq JobId /\ e.job \in JobId
  BY PipelineType DEF TypeOK, Event
<1>3. ~Done(e.job)
  BY DEF Done
<1>4. /\ \A n \in 1..Len(Pipeline) :
            IsFinished(Pipeline[n]) => Pipeline[n].job # e.job
      /\ e.job \notin settled
  BY <1>3 DEF EventInv, FinishedIsReported, SettledIsReported
<1>5. FinishedIsReported'
  <2> SUFFICES ASSUME NEW n \in 1..Len(Pipeline'), IsFinished(Pipeline'[n])
               PROVE  worker'[Pipeline'[n].job] \in {"reported", "exited"}
    BY DEF FinishedIsReported, IsFinished, Done
  <2>1. CASE n = Len(Pipeline) + 1
    BY <2>1, <1>1 DEF Done
  <2>2. CASE n # Len(Pipeline) + 1
    <3>1. n \in 1..Len(Pipeline) /\ Pipeline'[n] = Pipeline[n]
      BY <2>2, <1>1
    <3> QED
      BY <3>1, <1>2, <1>4 DEF EventInv, FinishedIsReported, Done
  <2> QED
    BY <2>1, <2>2
<1>6. SettledIsReported'
  BY <1>2, <1>4 DEF EventInv, SettledIsReported
<1>7. FinishedNeverLost'
  <2> SUFFICES ASSUME NEW j \in JobId, Done(j)', j \notin settled
               PROVE  \E n \in 1..Len(Pipeline') :
                        Pipeline'[n].job = j /\ IsFinished(Pipeline'[n])
    BY DEF FinishedNeverLost, Done, IsFinished
  <2>1. CASE j = e.job
    BY <2>1, <1>1
  <2>2. CASE j # e.job
    <3>1. PICK n \in 1..Len(Pipeline) : Pipeline[n].job = j /\ IsFinished(Pipeline[n])
      BY <2>2 DEF EventInv, FinishedNeverLost, Done
    <3> QED
      BY <3>1, <1>1
  <2> QED
    BY <2>1, <2>2
<1>8. FinishedIsLast'
  <2>1. ASSUME NEW n \in 1..Len(Pipeline'), NEW m \in 1..Len(Pipeline'),
               n < m, Pipeline'[n].job = Pipeline'[m].job
        PROVE  ~IsFinished(Pipeline'[n])
    <3>1. n \in 1..Len(Pipeline) /\ Pipeline'[n] = Pipeline[n]
      BY <2>1, <1>1
    <3>2. CASE m = Len(Pipeline) + 1
      BY <2>1, <3>1, <3>2, <1>1, <1>4
    <3>3. CASE m # Len(Pipeline) + 1
      <4>1. m \in 1..Len(Pipeline) /\ Pipeline'[m] = Pipeline[m]
        BY <3>3, <1>1
      <4> QED
        BY <2>1, <3>1, <4>1 DEF EventInv, FinishedIsLast
    <3> QED
      BY <3>2, <3>3
  <2>2. ASSUME NEW n \in 1..Len(Pipeline') PROVE Pipeline'[n].job \notin settled
    BY <1>1, <1>4 DEF EventInv, FinishedIsLast
  <2> QED
    BY <2>1, <2>2 DEF FinishedIsLast, IsFinished
<1> QED
  BY <1>5, <1>6, <1>7, <1>8 DEF EventInv

LEMMA EventStep == TypeInv /\ ListInv /\ EventInv /\ [Next]_vars => EventInv'
<1> SUFFICES ASSUME TypeInv, ListInv, EventInv, [Next]_vars PROVE EventInv'
  OBVIOUS
<1>0. TypeOK
  BY DEF TypeInv
<1>1. ASSUME UNCHANGED <<events_buffer, channel, settled, worker>> PROVE EventInv'
  BY <1>0, <1>1, EventQuiet DEF Pipeline, Done
<1>2. ASSUME NEW C, Cancel(C) PROVE \A j \in JobId : Done(j)' <=> Done(j)
  BY <1>2 DEF Cancel, Done
<1>3. ASSUME NEW C, NEW k \in Kind, CancelAndSpawn(C, k)
      PROVE  \A j \in JobId : Done(j)' <=> Done(j)
  <2>1. next_id \in JobId /\ worker' = [worker EXCEPT ![next_id] = "running"]
    BY <1>3 DEF CancelAndSpawn
  <2>2. worker[next_id] = "unborn"
    BY <2>1 DEF ListInv, BornBelow, Born, JobId
  <2> QED
    BY <1>0, <2>1, <2>2 DEF Done, TypeOK
<1>4. CASE Command
  <2>1. UNCHANGED <<events_buffer, channel, settled>>
    BY <1>4 DEF Command, loopVars
  <2>2. \A j \in JobId : Done(j)' <=> Done(j)
    BY <1>2, <1>3, <1>4 DEF Command
  <2> QED
    BY <1>0, <2>1, <2>2, EventQuiet DEF Pipeline
<1>5. CASE Poll
  BY <1>0, <1>5, PipelinePoll, EventQuiet DEF Poll, Done
<1>6. CASE HandleEvent
  <2>1. \A j \in JobId : Done(j)' <=> Done(j)
    BY <1>2, <1>3, <1>6 DEF HandleEvent, Done
  <2> QED
    BY <1>0, <1>6, <2>1, EventTake DEF HandleEvent
<1>7. CASE DiscardStale
  BY <1>0, <1>7, EventTake DEF DiscardStale, Done
<1>8. CASE ReapOne \/ Drain \/ EndTick
  BY <1>1, <1>8 DEF ReapOne, Drain, EndTick, workerVars
<1>9. CASE Shutdown \/ DeadlinePasses \/ NextJoin \/ JoinReturns
  BY <1>1, <1>9 DEF Shutdown, DeadlinePasses, NextJoin, JoinReturns, workerVars
<1>10. ASSUME NEW j \in JobId, EmitItem(j) PROVE EventInv'
  <2> DEFINE e == [job |-> j, type |-> "Item"]
  <2>1. e \in Event /\ Send(e) /\ worker[e.job] = "running" /\ ~IsFinished(e)
    BY <1>10, OutcomeAssumption DEF EmitItem, Event, IsFinished
  <2>2. UNCHANGED <<events_buffer, settled, worker>>
    BY <1>10 DEF EmitItem, loopVars
  <2> HIDE DEF e
  <2>3. ~Done(e.job)
    BY <2>1 DEF Done
  <2> QED
    BY <1>0, <2>1, <2>2, <2>3, EventSend DEF Done
<1>11. ASSUME NEW j \in JobId, NEW outcome \in Outcome, Report(j, outcome) PROVE EventInv'
  <2> DEFINE e == [job |-> j, type |-> outcome]
  <2>1. /\ e \in Event /\ Send(e) /\ worker[e.job] = "running" /\ IsFinished(e)
        /\ e.job = j
    BY <1>11 DEF Report, Event, IsFinished
  <2>2. /\ UNCHANGED <<events_buffer, settled>>
        /\ worker' = [worker EXCEPT ![j] = "reported"]
    BY <1>11 DEF Report, loopVars
  <2> HIDE DEF e
  <2>3. \A i \in JobId : i # j => (Done(i)' <=> Done(i))
    BY <1>0, <2>2 DEF Done, TypeOK
  <2>4. Done(j)'
    BY <1>0, <2>2 DEF Done, TypeOK
  <2>5. Done(e.job)' <=> IsFinished(e)
    BY <2>1, <2>4 DEF Done
  <2> QED
    BY <1>0, <2>1, <2>2, <2>3, <2>5, EventSend
<1>12. ASSUME NEW j \in JobId, Exit(j) PROVE EventInv'
  <2>1. UNCHANGED <<events_buffer, channel, settled>>
    BY <1>12 DEF Exit, loopVars
  <2>2. \A i \in JobId : Done(i)' <=> Done(i)
    BY <1>0, <1>12 DEF Exit, Done, TypeOK
  <2> QED
    BY <1>0, <2>1, <2>2, EventQuiet DEF Pipeline
<1>13. CASE UNCHANGED vars
  BY <1>1, <1>13 DEF vars, workerVars, loopVars
<1> QED
  BY <1>4, <1>5, <1>6, <1>7, <1>8, <1>9, <1>10, <1>11, <1>12, <1>13
     DEF Next, Tick, Closing, Work, Stopped

\* The result of a job that ended reaches the engine, in every interleaving
\* of sending, draining and reaping.
THEOREM FinishedIsNeverLost == Spec => []FinishedNeverLost
<1>1. EventInv => FinishedNeverLost
  BY DEF EventInv
<1> QED
  BY <1>1, TypeInit, TypeStep, ListInit, ListStep, EventInit, EventStep, PTL DEF Spec

\* No event of a job follows its Finished event, so a handler that drops a
\* job's state at Finished sees nothing of that job afterwards.
THEOREM FinishedIsAlwaysLast == Spec => []FinishedIsLast
<1>1. EventInv => FinishedIsLast
  BY DEF EventInv
<1> QED
  BY <1>1, TypeInit, TypeStep, ListInit, ListStep, EventInit, EventStep, PTL DEF Spec
-----------------------------------------------------------------------------
(* The recording flow.                                                     *)

\* A command that spawns or cancels is a command of the supervisor.
LEMMA CommandOfSupervisor ==
    ASSUME InCommands, NEW C \in SUBSET Kind,
           Cancel(C) \/ \E k \in Kind : CancelAndSpawn(C, k)
    PROVE  Command
BY DEF InCommands, Command

LEMMA QuietCommand ==
    ASSUME InCommands, NoJobs
    PROVE  UNCHANGED vars
BY DEF InCommands, NoJobs, vars, jobVars, workerVars, loopVars

LEMMA SelectionOfSupervisor ==
    ASSUME NEW i, NEW rec, ApplyRecordingSelection(i, rec)
    PROVE  \E C \in SUBSET Kind : Cancel(C) \/ \E k \in Kind : CancelAndSpawn(C, k)
<1>1. /\ {LtcDecode, LtcGroupDecode, ClipProbe} \in SUBSET Kind
      /\ {LtcDecode, LtcGroupDecode} \in SUBSET Kind
      /\ ClipProbe \in Kind
  BY KindsAssumption
<1>2. \/ Cancel({LtcDecode, LtcGroupDecode})
      \/ CancelAndSpawn({LtcDecode, LtcGroupDecode, ClipProbe}, ClipProbe)
  BY DEF ApplyRecordingSelection, SpawnFor, NoSpawn
<1> QED
  BY <1>1, <1>2

LEMMA CommandRefines == RecordingCommand => [Next]_vars
<1> SUFFICES ASSUME RecordingCommand PROVE [Next]_vars
  OBVIOUS
<1>1. /\ {} \in SUBSET Kind /\ {LtcDecode, LtcGroupDecode} \in SUBSET Kind
      /\ FolderScan \in Kind /\ LtcDecode \in Kind /\ LtcGroupDecode \in Kind
  BY KindsAssumption
<1>2. Command => [Next]_vars
  BY DEF Next
<1>3. ASSUME NEW f \in Folder, SelectFolder(f) PROVE [Next]_vars
  BY <1>1, <1>2, <1>3, CommandOfSupervisor DEF SelectFolder, SpawnFor
<1>4. ASSUME NEW i \in Index, SelectRecording(i) PROVE [Next]_vars
  <2>1. InCommands
    BY <1>4 DEF SelectRecording
  <2>2. NoJobs \/ ApplyRecordingSelection(i, RecordingAt(i))
    BY <1>4 DEF SelectRecording
  <2> QED
    BY <1>2, <2>1, <2>2, QuietCommand, SelectionOfSupervisor, CommandOfSupervisor
<1>5. CASE ParseLtcWavFile
  BY <1>1, <1>2, <1>5, CommandOfSupervisor, QuietCommand DEF ParseLtcWavFile, SpawnFor
<1>6. CASE ParseLtcVideo
  BY <1>1, <1>2, <1>6, CommandOfSupervisor, QuietCommand DEF ParseLtcVideo, SpawnFor
<1>7. CASE DecodeLtcVideoGroup
  BY <1>1, <1>2, <1>7, CommandOfSupervisor DEF DecodeLtcVideoGroup, SpawnFor
<1>8. CASE CancelDecode
  BY <1>1, <1>2, <1>8, CommandOfSupervisor DEF CancelDecode, NoSpawn
<1>9. CASE ClearRecordingDecodeState
  BY <1>1, <1>2, <1>9, CommandOfSupervisor DEF ClearRecordingDecodeState, NoSpawn
<1> QED
  BY <1>3, <1>4, <1>5, <1>6, <1>7, <1>8, <1>9 DEF RecordingCommand

\* A handler takes one event that is not stale; only the end of a scan may
\* cancel or start jobs.
LEMMA HandlerRefines == EventHandler => HandleEvent
<1> SUFFICES ASSUME EventHandler PROVE HandleEvent
  OBVIOUS
<1>1. ASSUME NEW k, NEW types, Handling(k, types), NoJobs PROVE HandleEvent
  BY <1>1 DEF Handling, NoJobs, HandleEvent
<1>2. CASE OnFolderScanFinished
  <2>1. /\ TakeEvent /\ ~IsStale(Head(events_buffer))
        /\ IsFinished(Head(events_buffer))
    BY <1>2 DEF OnFolderScanFinished, Handling, IsFinished
  <2>2. NoJobs \/ \E i, rec : ApplyRecordingSelection(i, rec)
    BY <1>2 DEF OnFolderScanFinished
  <2>3. CASE NoJobs
    BY <2>1, <2>3 DEF HandleEvent, NoJobs
  <2>4. ASSUME NEW i, NEW rec, ApplyRecordingSelection(i, rec) PROVE HandleEvent
    BY <2>1, <2>4, SelectionOfSupervisor DEF HandleEvent
  <2> QED
    BY <2>2, <2>3, <2>4
<1>3. CASE OnClipProbesFinished
  BY <1>1, <1>3 DEF OnClipProbesFinished
<1>4. CASE OnLtcDecodeFinished
  BY <1>1, <1>4 DEF OnLtcDecodeFinished
<1>5. CASE OnGroupClipResult
  BY <1>1, <1>5 DEF OnGroupClipResult
<1>6. CASE OnGroupDecodeFinished
  BY <1>1, <1>6 DEF OnGroupDecodeFinished
<1> QED
  BY <1>2, <1>3, <1>4, <1>5, <1>6 DEF EventHandler

LEMMA StepRefines == [FlowNext]_flowVars => [Next]_vars
<1> SUFFICES ASSUME [FlowNext]_flowVars PROVE [Next]_vars
  OBVIOUS
<1>1. CASE RecordingCommand
  BY <1>1, CommandRefines
<1>2. CASE SyncJobStatuses
  BY <1>2 DEF SyncJobStatuses, Next, Tick
<1>3. CASE Housekeeping
  BY <1>3 DEF Housekeeping, Next, Tick
<1>4. CASE EventHandler
  BY <1>4, HandlerRefines DEF Next, Tick
<1>5. ASSUME NEW j \in JobId, EmitClip(j) \/ EndOfJob(j) PROVE [Next]_vars
  BY <1>5 DEF EmitClip, EndOfJob, Next, Work
<1>6. CASE UNCHANGED flowVars
  BY <1>6 DEF flowVars
<1> QED
  BY <1>1, <1>2, <1>3, <1>4, <1>5, <1>6 DEF FlowNext, FlowTick

\* Scanning, selecting, probing and decoding implement the supervisor: no
\* command and no handler takes it out of what JobSupervisor allows.
THEOREM FlowImplementsSupervisor == FlowSpec => ImplementsSupervisor
<1>1. FlowInit => Init
  BY DEF FlowInit
<1> QED
  BY <1>1, StepRefines, PTL DEF FlowSpec, Spec, ImplementsSupervisor

\* So no result of a scan, probe or decode is ever lost before the engine has
\* dealt with it, and it is the last thing the engine hears of that job.
THEOREM FlowLosesNoResult == FlowSpec => [](FinishedNeverLost /\ FinishedIsLast)
BY FlowImplementsSupervisor, FinishedIsNeverLost, FinishedIsAlwaysLast, PTL
   DEF ImplementsSupervisor

-----------------------------------------------------------------------------
(* What is shown.  The invariants are inductive together with the facts    *)
(* that only the newest job of a kind gets through the gate, that the job  *)
(* ids in use are below next_id (a spawn leaves the work of the others     *)
(* alone), and that only a folder that is listed has a selected recording. *)

WorkIsFunction == work = [j \in JobId |-> work[j]]
LatestBelow == \A k \in Kind : latest_job[k] < next_id
ListedIsChosen == groups # None => groups = groups_folder
ProbesInv == probes # None \/ probes_live => selected # None
GroupInv ==
    group # None =>
        /\ latest_job[LtcGroupDecode] \in JobId
        /\ group.of = work[latest_job[LtcGroupDecode]]
        /\ selected # None => groups # None /\ group.of = Selected

ShownInv ==
    /\ WorkIsFunction
    /\ LatestBelow
    /\ ListedIsChosen
    /\ ProbesInv
    /\ ResultFromNewest /\ (result # None => latest_job[LtcDecode] \in JobId)
    /\ GroupInv

LEMMA ShownInit == FlowInit => ShownInv
BY MaxJobsAssumption
   DEF FlowInit, Init, ShownInv, WorkIsFunction, LatestBelow, ListedIsChosen,
       ProbesInv, ResultFromNewest, GroupInv, NoJob

\* A spawn changes what is known of its own kind and of no other.
LEMMA SpawnWork ==
    ASSUME TypeOK, ShownInv, NEW C, NEW k \in Kind, NEW what, SpawnFor(C, k, what)
    PROVE  /\ WorkIsFunction' /\ LatestBelow'
           /\ latest_job'[k] \in JobId /\ work'[latest_job'[k]] = what
           /\ \A q \in Kind : q # k /\ latest_job[q] \in JobId =>
                /\ latest_job'[q] = latest_job[q]
                /\ work'[latest_job'[q]] = work[latest_job[q]]
<1>1. /\ next_id \in JobId /\ next_id' = next_id + 1
      /\ latest_job' = [latest_job EXCEPT ![k] = next_id]
      /\ work' = [work EXCEPT ![next_id] = what]
  BY DEF SpawnFor, CancelAndSpawn
<1>2. /\ latest_job \in [Kind -> JobId \cup {NoJob}]
      /\ next_id \in Nat /\ JobId \subseteq Nat /\ NoJob \in Nat
  BY MaxJobsAssumption DEF TypeOK, JobId, NoJob
<1>3. ASSUME NEW q \in Kind PROVE latest_job'[q] < next_id'
  <2>1. CASE q = k
    BY <1>1, <1>2, <2>1
  <2>2. CASE q # k
    <3>1. latest_job'[q] = latest_job[q] /\ latest_job[q] < next_id
      BY <1>1, <1>2, <2>2 DEF ShownInv, LatestBelow
    <3>2. latest_job[q] \in Nat
      BY <1>2
    <3> QED
      BY <1>1, <1>2, <3>1, <3>2
  <2> QED
    BY <2>1, <2>2
<1>4. WorkIsFunction'
  BY <1>1 DEF ShownInv, WorkIsFunction
<1>5. latest_job'[k] = next_id /\ work'[next_id] = what
  BY <1>1, <1>2 DEF ShownInv, WorkIsFunction
<1>6. ASSUME NEW q \in Kind, q # k, latest_job[q] \in JobId
      PROVE  latest_job'[q] = latest_job[q] /\ work'[latest_job'[q]] = work[latest_job[q]]
  <2>1. latest_job'[q] = latest_job[q] /\ latest_job[q] # next_id
    BY <1>1, <1>2, <1>6 DEF ShownInv, LatestBelow
  <2> QED
    BY <1>1, <1>6, <2>1 DEF ShownInv, WorkIsFunction
<1> QED
  BY <1>1, <1>3, <1>4, <1>5, <1>6 DEF LatestBelow

\* A selection drops whatever was shown of the recording selected before.
LEMMA SelectionShows ==
    ASSUME TypeOK, ShownInv, NEW i, i # None, NEW rec,
           ApplyRecordingSelection(i, rec), ListedIsChosen'
    PROVE  ShownInv'
<1>1. selected' = i /\ result' = None /\ group' = None
  BY DEF ApplyRecordingSelection, ResetSelection
<1>2. WorkIsFunction' /\ LatestBelow'
  <2>1. CASE NoSpawn({LtcDecode, LtcGroupDecode})
    BY <2>1 DEF NoSpawn, Cancel, ShownInv, WorkIsFunction, LatestBelow
  <2>2. CASE SpawnFor({LtcDecode, LtcGroupDecode, ClipProbe}, ClipProbe, rec)
    BY <2>2, SpawnWork, KindsAssumption
  <2> QED
    BY <2>1, <2>2 DEF ApplyRecordingSelection
<1> QED
  BY <1>1, <1>2 DEF ShownInv, ProbesInv, ResultFromNewest, GroupInv

LEMMA ShownQuiet ==
    ASSUME ShownInv, settled \subseteq settled',
           UNCHANGED <<next_id, latest_job, work, listVars, selected, probeVars, result, group>>
    PROVE  ShownInv'
<1>1. WorkIsFunction' /\ LatestBelow' /\ ListedIsChosen' /\ ProbesInv'
  BY DEF ShownInv, WorkIsFunction, LatestBelow, ListedIsChosen, ProbesInv,
         listVars, probeVars
<1>2. ResultFromNewest' /\ (result # None => latest_job[LtcDecode] \in JobId)'
  BY DEF ShownInv, ResultFromNewest
<1>3. Selected' = Selected
  BY DEF Selected, RecordingAt, listVars
<1>4. GroupInv'
  BY <1>3 DEF ShownInv, GroupInv, listVars
<1> QED
  BY <1>1, <1>2, <1>4 DEF ShownInv

\* The commands, as far as they bear on what is shown.
LEMMA ShownCommand ==
    ASSUME TypeOK, ShownInv, RecordingCommand
    PROVE  ShownInv'
<1>1. settled' = settled
  BY DEF RecordingCommand, SelectFolder, SelectRecording, ParseLtcWavFile,
         ParseLtcVideo, DecodeLtcVideoGroup, CancelDecode,
         ClearRecordingDecodeState, InCommands, loopVars
<1>2. ASSUME NEW C, NoSpawn(C) PROVE UNCHANGED <<next_id, latest_job, work>>
  BY <1>2 DEF NoSpawn, Cancel
<1>3. ASSUME NoJobs PROVE UNCHANGED <<next_id, latest_job, work>>
  BY <1>3 DEF NoJobs, jobVars
<1>4. ASSUME UNCHANGED <<next_id, latest_job, work>> PROVE WorkIsFunction' /\ LatestBelow'
  BY <1>4 DEF ShownInv, WorkIsFunction, LatestBelow
<1>5. ASSUME NEW f \in Folder, SelectFolder(f) PROVE ShownInv'
  <2>1. SpawnFor({}, FolderScan, f)
    BY <1>5 DEF SelectFolder
  <2>2. WorkIsFunction' /\ LatestBelow'
    BY <2>1, SpawnWork, KindsAssumption
  <2>3. /\ groups' = None /\ selected' = None /\ probes' = None
        /\ probes_live' = FALSE /\ result' = result /\ group' = group
    BY <1>5 DEF SelectFolder, decodeVars
  <2>4. ResultFromNewest' /\ (result # None => latest_job[LtcDecode] \in JobId)'
    BY <1>1, <2>1, <2>3, SpawnWork, KindsAssumption DEF ShownInv, ResultFromNewest
  <2>5. GroupInv'
    BY <2>1, <2>3, SpawnWork, KindsAssumption DEF ShownInv, GroupInv
  <2> QED
    BY <2>2, <2>3, <2>4, <2>5 DEF ShownInv, ListedIsChosen, ProbesInv
<1>6. ASSUME NEW i \in Index, SelectRecording(i) PROVE ShownInv'
  <2>1. UNCHANGED listVars
    BY <1>6 DEF SelectRecording
  <2>2. ListedIsChosen'
    BY <2>1 DEF ShownInv, ListedIsChosen, listVars
  <2>3. CASE ApplyRecordingSelection(i, RecordingAt(i))
    BY <2>2, <2>3, SelectionShows, NoneAssumption
  <2>4. CASE NoJobs /\ UNCHANGED <<selected, probeVars, decodeVars>>
    BY <1>1, <1>3, <2>1, <2>4, ShownQuiet DEF decodeVars
  <2> QED
    BY <1>6, <2>3, <2>4 DEF SelectRecording
<1>7. ASSUME ParseLtcWavFile \/ ParseLtcVideo PROVE ShownInv'
  <2>1. UNCHANGED <<listVars, selected, probeVars, group>>
    BY <1>7 DEF ParseLtcWavFile, ParseLtcVideo
  <2>2. \/ result' = None /\ SpawnFor({}, LtcDecode, Selected)
        \/ result' = None /\ NoSpawn({})
        \/ result' \in {None, result} /\ NoJobs
    BY <1>7 DEF ParseLtcWavFile, ParseLtcVideo
  <2>3. ListedIsChosen' /\ ProbesInv' /\ Selected' = Selected
    BY <2>1 DEF ShownInv, ListedIsChosen, ProbesInv, listVars, probeVars,
                Selected, RecordingAt
  <2>4. WorkIsFunction' /\ LatestBelow'
    BY <1>2, <1>3, <1>4, <2>2, SpawnWork, KindsAssumption
  <2>5. ResultFromNewest' /\ (result # None => latest_job[LtcDecode] \in JobId)'
    BY <1>1, <1>3, <2>2 DEF ShownInv, ResultFromNewest
  <2>6. /\ group # None => latest_job'[LtcGroupDecode] = latest_job[LtcGroupDecode]
        /\ group # None => work'[latest_job'[LtcGroupDecode]] = work[latest_job[LtcGroupDecode]]
    BY <1>2, <1>3, <2>2, SpawnWork, KindsAssumption DEF ShownInv, GroupInv
  <2>7. GroupInv'
    BY <2>1, <2>3, <2>6 DEF ShownInv, GroupInv, listVars
  <2> QED
    BY <2>3, <2>4, <2>5, <2>7 DEF ShownInv
<1>8. ASSUME DecodeLtcVideoGroup PROVE ShownInv'
  <2>1. /\ SpawnFor({}, LtcGroupDecode, Selected) /\ Selected # None
        /\ group' = [of |-> Selected, done |-> 0]
        /\ UNCHANGED <<listVars, selected, probeVars, result>>
    BY <1>8 DEF DecodeLtcVideoGroup
  <2>2. ListedIsChosen' /\ ProbesInv' /\ Selected' = Selected
    BY <2>1 DEF ShownInv, ListedIsChosen, ProbesInv, listVars, probeVars,
                Selected, RecordingAt
  <2>3. WorkIsFunction' /\ LatestBelow'
    BY <2>1, SpawnWork, KindsAssumption
  <2>4. ResultFromNewest' /\ (result # None => latest_job[LtcDecode] \in JobId)'
    BY <1>1, <2>1, SpawnWork, KindsAssumption DEF ShownInv, ResultFromNewest
  <2>5. latest_job'[LtcGroupDecode] \in JobId /\ work'[latest_job'[LtcGroupDecode]] = Selected
    BY <2>1, SpawnWork, KindsAssumption
  <2>6. groups' # None /\ group'.of = Selected
    BY <2>1 DEF Selected, RecordingAt, listVars
  <2>7. GroupInv'
    BY <2>2, <2>5, <2>6 DEF GroupInv
  <2> QED
    BY <2>2, <2>3, <2>4, <2>7 DEF ShownInv
<1>9. CASE CancelDecode
  BY <1>1, <1>2, <1>9, ShownQuiet DEF CancelDecode
<1>10. CASE ClearRecordingDecodeState
  <2>1. /\ UNCHANGED <<next_id, latest_job, work, listVars, selected, probeVars>>
        /\ result' = None /\ group' = None
    BY <1>2, <1>10 DEF ClearRecordingDecodeState
  <2> QED
    BY <1>4, <2>1 DEF ShownInv, ListedIsChosen, ProbesInv, ResultFromNewest,
                      GroupInv, listVars, probeVars
<1> QED
  BY <1>5, <1>6, <1>7, <1>8, <1>9, <1>10 DEF RecordingCommand

\* The event a handler sees comes from the newest job of its kind.
LEMMA HandledIsNewest ==
    ASSUME TypeOK, NEW k \in Kind, NEW types, Handling(k, types)
    PROVE  /\ Head(events_buffer).job \in JobId
           /\ latest_job[k] = Head(events_buffer).job
           /\ EventWork = work[latest_job[k]]
           /\ settled \subseteq settled'
           /\ IsFinished(Head(events_buffer)) => latest_job[k] \in settled'
<1>1. events_buffer # <<>> /\ ~IsStale(Head(events_buffer))
  BY DEF Handling, TakeEvent
<1>2. Head(events_buffer) \in Event
  BY <1>1, HeadTailProperties DEF TypeOK
<1>3. /\ settled \subseteq settled'
      /\ IsFinished(Head(events_buffer)) => Head(events_buffer).job \in settled'
  BY DEF Handling, TakeEvent
<1> QED
  BY <1>1, <1>2, <1>3 DEF Handling, IsStale, Event, EventWork

LEMMA ShownHandler ==
    ASSUME TypeOK, ShownInv, EventHandler
    PROVE  ShownInv'
<1> USE KindsAssumption
<1>1. ASSUME NoJobs
      PROVE  UNCHANGED <<next_id, latest_job, work>> /\ WorkIsFunction' /\ LatestBelow'
  BY <1>1 DEF NoJobs, jobVars, ShownInv, WorkIsFunction, LatestBelow
<1>2. CASE OnFolderScanFinished
  <2>1. groups' \in {groups_folder, groups} /\ groups_folder' = groups_folder
    BY <1>2 DEF OnFolderScanFinished
  <2>2. ListedIsChosen'
    BY <2>1 DEF ShownInv, ListedIsChosen
  <2>3. settled \subseteq settled'
    BY <1>2, HandledIsNewest DEF OnFolderScanFinished
  <2>4. ASSUME NEW rec, pending # None, ApplyRecordingSelection(pending, rec) PROVE ShownInv'
    BY <2>2, <2>4, SelectionShows
  <2>5. CASE NoJobs /\ UNCHANGED <<selected, probeVars, decodeVars>>
    <3>1. ResultFromNewest' /\ (result # None => latest_job[LtcDecode] \in JobId)'
      BY <1>1, <2>3, <2>5 DEF ShownInv, ResultFromNewest, decodeVars
    <3>2. ProbesInv'
      BY <2>5 DEF ShownInv, ProbesInv, probeVars
    <3>3. groups # None => Selected' = Selected /\ groups' # None
      BY <2>1, <2>5 DEF ShownInv, ListedIsChosen, Selected, RecordingAt
    <3>4. GroupInv'
      BY <1>1, <2>5, <3>3 DEF ShownInv, GroupInv, decodeVars
    <3> QED
      BY <1>1, <2>2, <2>5, <3>1, <3>2, <3>4 DEF ShownInv
  <2> QED
    BY <1>2, <2>4, <2>5 DEF OnFolderScanFinished
<1>3. CASE OnClipProbesFinished
  <2>1. /\ NoJobs /\ settled \subseteq settled'
        /\ UNCHANGED <<listVars, selected, probes_live, result, group>>
    BY <1>3, HandledIsNewest DEF OnClipProbesFinished, decodeVars
  <2>2. probes' # None => probes # None \/ probes_live
    BY <1>3 DEF OnClipProbesFinished
  <2>3. ListedIsChosen' /\ ProbesInv' /\ Selected' = Selected
    BY <2>1, <2>2 DEF ShownInv, ListedIsChosen, ProbesInv, listVars, Selected, RecordingAt
  <2>4. ResultFromNewest' /\ (result # None => latest_job[LtcDecode] \in JobId)'
    BY <1>1, <2>1 DEF ShownInv, ResultFromNewest
  <2>5. GroupInv'
    BY <1>1, <2>1, <2>3 DEF ShownInv, GroupInv, listVars
  <2> QED
    BY <1>1, <2>1, <2>3, <2>4, <2>5 DEF ShownInv
<1>4. CASE OnLtcDecodeFinished
  <2>1. /\ NoJobs /\ UNCHANGED <<listVars, selected, probeVars, group>>
        /\ Handling(LtcDecode, Outcome)
    BY <1>4 DEF OnLtcDecodeFinished
  <2>2. /\ latest_job[LtcDecode] \in JobId \cap settled'
        /\ EventWork = work[latest_job[LtcDecode]]
    BY <2>1, HandledIsNewest DEF Handling, IsFinished
  <2>3. result' = EventWork \/ result' = None \/ result' = result
    BY <1>4 DEF OnLtcDecodeFinished
  <2>4. ListedIsChosen' /\ ProbesInv' /\ Selected' = Selected
    BY <2>1 DEF ShownInv, ListedIsChosen, ProbesInv, listVars, probeVars,
                Selected, RecordingAt
  <2>5. ResultFromNewest' /\ (result # None => latest_job[LtcDecode] \in JobId)'
    BY <1>1, <2>1, <2>2, <2>3 DEF ShownInv, ResultFromNewest
  <2>6. GroupInv'
    BY <1>1, <2>1, <2>4 DEF ShownInv, GroupInv, listVars
  <2> QED
    BY <1>1, <2>1, <2>4, <2>5, <2>6 DEF ShownInv
<1>5. CASE OnGroupClipResult
  <2>1. /\ NoJobs /\ UNCHANGED <<listVars, selected, probeVars, result>>
        /\ Handling(LtcGroupDecode, {"Item"})
        /\ group' # group => group # None /\ group' = [of |-> EventWork, done |-> group.done + 1]
    BY <1>5 DEF OnGroupClipResult
  <2>2. EventWork = work[latest_job[LtcGroupDecode]] /\ settled \subseteq settled'
    BY <2>1, HandledIsNewest
  <2>3. ListedIsChosen' /\ ProbesInv' /\ Selected' = Selected
    BY <2>1 DEF ShownInv, ListedIsChosen, ProbesInv, listVars, probeVars,
                Selected, RecordingAt
  <2>4. ResultFromNewest' /\ (result # None => latest_job[LtcDecode] \in JobId)'
    BY <1>1, <2>1, <2>2 DEF ShownInv, ResultFromNewest
  <2>5. GroupInv'
    BY <1>1, <2>1, <2>2, <2>3 DEF ShownInv, GroupInv, listVars
  <2> QED
    BY <1>1, <2>1, <2>3, <2>4, <2>5 DEF ShownInv
<1>6. CASE OnGroupDecodeFinished
  BY <1>1, <1>6, HandledIsNewest, ShownQuiet DEF OnGroupDecodeFinished
<1> QED
  BY <1>2, <1>3, <1>4, <1>5, <1>6 DEF EventHandler

LEMMA ShownStep ==
    TypeInv /\ ShownInv /\ [FlowNext]_flowVars => ShownInv'
<1> SUFFICES ASSUME TypeInv, ShownInv, [FlowNext]_flowVars PROVE ShownInv'
  OBVIOUS
<1>0. TypeOK
  BY DEF TypeInv
<1>1. CASE RecordingCommand
  BY <1>0, <1>1, ShownCommand
<1>2. CASE SyncJobStatuses
  BY <1>2, ShownQuiet DEF SyncJobStatuses, Poll, jobVars
<1>3. CASE Housekeeping
  <2>1. UNCHANGED <<next_id, latest_job>> /\ settled \subseteq settled'
    BY <1>3 DEF Housekeeping, ReapOne, Drain, DiscardStale, EndTick, TakeEvent, jobVars
  <2> QED
    BY <1>3, <2>1, ShownQuiet DEF Housekeeping, dataVars, decodeVars
<1>4. CASE EventHandler
  BY <1>0, <1>4, ShownHandler
<1>5. ASSUME NEW j \in JobId, EmitClip(j) \/ EndOfJob(j) PROVE ShownInv'
  <2>1. UNCHANGED <<next_id, latest_job, settled>>
    BY <1>5 DEF EmitClip, EndOfJob, EmitItem, Report, Exit, jobVars, loopVars
  <2> QED
    BY <1>5, <2>1, ShownQuiet DEF EmitClip, EndOfJob, dataVars, decodeVars
<1>6. CASE UNCHANGED flowVars
  BY <1>6, ShownQuiet DEF flowVars, dataVars, decodeVars, vars, jobVars, loopVars
<1> QED
  BY <1>1, <1>2, <1>3, <1>4, <1>5, <1>6 DEF FlowNext, FlowTick

LEMMA FlowShows == FlowSpec => []ShownInv
<1>1. FlowInit => Init
  BY DEF FlowInit
<1>2. FlowSpec => []TypeInv
  BY <1>1, StepRefines, TypeInit, TypeStep, PTL DEF FlowSpec
<1> QED
  BY <1>2, ShownInit, ShownStep, PTL DEF FlowSpec

\* What is shown belongs to what is selected, for any folders, any number of
\* jobs and any order in which their results arrive.
THEOREM ShownAlwaysFits == FlowSpec => []ShownFits
<1>1. ShownInv => ShownFits
  <2> SUFFICES ASSUME ShownInv PROVE ShownFits
    OBVIOUS
  <2>1. ProbesNeedSelection
    BY DEF ShownInv, ProbesInv, ProbesNeedSelection
  <2>2. GroupResultsOfSelection
    <3>1. Selected # None => selected # None
      BY DEF Selected, RecordingAt
    <3> QED
      BY <3>1 DEF ShownInv, GroupInv, GroupResultsOfSelection
  <2>3. ResultFromNewest
    BY DEF ShownInv
  <2> QED
    BY <2>1, <2>2, <2>3 DEF ShownFits
<1> QED
  BY <1>1, FlowShows, PTL

-----------------------------------------------------------------------------
(* What is listed.  When no scan can panic, each scan succeeds; the newest  *)
(* one was started for the folder chosen last, and its result is not stale. *)

ScansSucceed ==
    \A n \in 1..Len(Pipeline) :
        IsFinished(Pipeline[n]) /\ kind_of[Pipeline[n].job] = FolderScan
        => Pipeline[n].type = "Succeeded"
NewestScan ==
    latest_job[FolderScan] \in JobId =>
        /\ kind_of[latest_job[FolderScan]] = FolderScan
        /\ work[latest_job[FolderScan]] = groups_folder

ScanInv ==
    FolderScan \notin Panicking => ScansSucceed /\ NewestScan /\ ScannedFolderListed

FlowInv == TypeInv /\ ListInv /\ EventInv /\ ShownInv

LEMMA ScanInit == FlowInit => ScanInv
<1> SUFFICES ASSUME FlowInit PROVE ScansSucceed /\ NewestScan /\ ScannedFolderListed
  BY DEF ScanInv
<1>1. Init
  BY DEF FlowInit
<1>2. Len(Pipeline) = 0
  BY <1>1, EmptySeq, ConcatEmptySeq DEF Init, Pipeline
<1>3. latest_job[FolderScan] = NoJob /\ NoJob \notin JobId
  BY <1>1, KindsAssumption, MaxJobsAssumption DEF Init, NoJob, JobId
<1>4. settled = {}
  BY <1>1 DEF Init
<1> QED
  BY <1>2, <1>3, <1>4 DEF ScansSucceed, NewestScan, ScannedFolderListed

\* A final event that is on its way keeps its meaning while jobs are added.
LEMMA ScansSucceedKeeps ==
    ASSUME FlowInv, ScansSucceed,
           \A j \in JobId : Born(j) => kind_of'[j] = kind_of[j],
           \A n \in 1..Len(Pipeline') : \E m \in 1..Len(Pipeline) : Pipeline'[n] = Pipeline[m]
    PROVE  ScansSucceed'
<1> SUFFICES ASSUME NEW n \in 1..Len(Pipeline'), IsFinished(Pipeline'[n]),
                    kind_of'[Pipeline'[n].job] = FolderScan
             PROVE  Pipeline'[n].type = "Succeeded"
  BY DEF ScansSucceed, IsFinished
<1>1. PICK m \in 1..Len(Pipeline) : Pipeline'[n] = Pipeline[m]
  OBVIOUS
<1>2. Pipeline[m].job \in JobId /\ Born(Pipeline[m].job)
  BY <1>1, PipelineType DEF FlowInv, TypeInv, EventInv, FinishedIsReported, Done, Born, IsFinished
<1> QED
  BY <1>1, <1>2 DEF ScansSucceed, IsFinished

\* Cancelling, and starting jobs of other kinds, do not touch the scans.
LEMMA OtherJobs ==
    ASSUME FlowInv, NewestScan, groups_folder' = groups_folder,
           NEW C, NEW k \in Kind \ {FolderScan}, NEW what,
           NoJobs \/ NoSpawn(C) \/ SpawnFor(C, k, what)
    PROVE  /\ \A j \in JobId : Born(j) => kind_of'[j] = kind_of[j]
           /\ latest_job'[FolderScan] = latest_job[FolderScan]
           /\ NewestScan'
<1>1. CASE UNCHANGED <<kind_of, latest_job, work>>
  BY <1>1 DEF NewestScan
<1>2. CASE SpawnFor(C, k, what)
  <2>1. /\ next_id \in JobId
        /\ kind_of' = [kind_of EXCEPT ![next_id] = k]
        /\ latest_job' = [latest_job EXCEPT ![k] = next_id]
        /\ work' = [work EXCEPT ![next_id] = what]
    BY <1>2 DEF SpawnFor, CancelAndSpawn
  <2>2. \A j \in JobId : Born(j) => j # next_id
    BY DEF FlowInv, ListInv, BornBelow, TypeInv, TypeOK, JobId
  <2>3. kind_of = [j \in JobId |-> kind_of[j]] /\ work = [j \in JobId |-> work[j]]
    BY DEF FlowInv, TypeInv, TypeOK, ShownInv, WorkIsFunction
  <2>4. \A j \in JobId : Born(j) => kind_of'[j] = kind_of[j]
    BY <2>1, <2>2, <2>3
  <2>5. latest_job'[FolderScan] = latest_job[FolderScan]
    BY <2>1, KindsAssumption DEF FlowInv, TypeInv, TypeOK
  <2>6. latest_job[FolderScan] \in JobId => latest_job[FolderScan] # next_id
    BY KindsAssumption DEF FlowInv, ShownInv, LatestBelow, TypeInv, TypeOK, JobId
  <2>7. NewestScan'
    BY <2>1, <2>3, <2>5, <2>6 DEF NewestScan
  <2> QED
    BY <2>4, <2>5, <2>7
<1> QED
  BY <1>1, <1>2 DEF NoJobs, NoSpawn, Cancel, jobVars

\* An event that is handled or dropped settles no scan but the newest one
\* that its own handler has seen.
LEMMA ScanTake ==
    ASSUME FlowInv, TakeEvent
    PROVE  /\ \A n \in 1..Len(Pipeline') : \E m \in 1..Len(Pipeline) : Pipeline'[n] = Pipeline[m]
           /\ settled' \subseteq settled \cup {Head(events_buffer).job}
           /\ 1 \in 1..Len(Pipeline) /\ Pipeline[1] = Head(events_buffer)
<1>1. TypeOK
  BY DEF FlowInv, TypeInv
<1>2. /\ Len(Pipeline) \in Nat /\ Len(Pipeline) >= 1
      /\ Pipeline[1] = Head(events_buffer)
      /\ Len(Pipeline') = Len(Pipeline) - 1
      /\ \A n \in 1..(Len(Pipeline) - 1) : Pipeline'[n] = Pipeline[n + 1]
  BY <1>1, PipelineTake, PipelineType
<1>3. ASSUME NEW n \in 1..Len(Pipeline')
      PROVE  n + 1 \in 1..Len(Pipeline) /\ Pipeline'[n] = Pipeline[n + 1]
  BY <1>2
<1> QED
  BY <1>2, <1>3 DEF TakeEvent

LEMMA ScanCommand ==
    ASSUME FlowInv, ScansSucceed, NewestScan, ScannedFolderListed, RecordingCommand
    PROVE  ScansSucceed' /\ NewestScan' /\ ScannedFolderListed'
<1> USE KindsAssumption
<1>1. Pipeline' = Pipeline /\ settled' = settled
  BY DEF RecordingCommand, SelectFolder, SelectRecording, ParseLtcWavFile,
         ParseLtcVideo, DecodeLtcVideoGroup, CancelDecode,
         ClearRecordingDecodeState, InCommands, loopVars, Pipeline
<1>2. CASE \E f \in Folder : SelectFolder(f)
  <2>1. PICK f \in Folder : SelectFolder(f)
    BY <1>2
  <2>2. /\ next_id \in JobId
        /\ kind_of' = [kind_of EXCEPT ![next_id] = FolderScan]
        /\ latest_job' = [latest_job EXCEPT ![FolderScan] = next_id]
        /\ work' = [work EXCEPT ![next_id] = f]
        /\ groups_folder' = f
    BY <2>1 DEF SelectFolder, SpawnFor, CancelAndSpawn
  <2>3. \A j \in JobId : Born(j) => j # next_id
    BY DEF FlowInv, ListInv, BornBelow, TypeInv, TypeOK, JobId
  <2>4. /\ kind_of = [j \in JobId |-> kind_of[j]] /\ work = [j \in JobId |-> work[j]]
        /\ latest_job = [k \in Kind |-> latest_job[k]]
    BY DEF FlowInv, TypeInv, TypeOK, ShownInv, WorkIsFunction
  <2>5. ScansSucceed'
    <3>1. \A j \in JobId : Born(j) => kind_of'[j] = kind_of[j]
      BY <2>2, <2>3, <2>4
    <3> QED
      BY <1>1, <3>1, ScansSucceedKeeps
  <2>6. NewestScan'
    BY <2>2, <2>4 DEF NewestScan
  <2>7. latest_job'[FolderScan] \notin settled'
    <3>1. next_id \notin settled
      BY <2>2, <2>3 DEF FlowInv, EventInv, SettledIsReported, Done, Born
    <3> QED
      BY <1>1, <2>2, <2>4, <3>1
  <2> QED
    BY <2>5, <2>6, <2>7 DEF ScannedFolderListed
<1>3. ASSUME UNCHANGED listVars, NEW C, NEW k \in Kind \ {FolderScan}, NEW what,
             NoJobs \/ NoSpawn(C) \/ SpawnFor(C, k, what)
      PROVE  ScansSucceed' /\ NewestScan' /\ ScannedFolderListed'
  <2>1. UNCHANGED <<groups, groups_folder>>
    BY <1>3 DEF listVars
  <2>2. /\ \A j \in JobId : Born(j) => kind_of'[j] = kind_of[j]
        /\ latest_job'[FolderScan] = latest_job[FolderScan]
        /\ NewestScan'
    BY <1>3, <2>1, OtherJobs
  <2>3. ScansSucceed'
    BY <1>1, <2>2, ScansSucceedKeeps
  <2> QED
    BY <1>1, <2>1, <2>2, <2>3 DEF ScannedFolderListed
<1>4. ASSUME NEW i \in Index, SelectRecording(i)
      PROVE  ScansSucceed' /\ NewestScan' /\ ScannedFolderListed'
  BY <1>3, <1>4 DEF SelectRecording, ApplyRecordingSelection
<1>5. CASE ParseLtcWavFile \/ ParseLtcVideo
  BY <1>3, <1>5 DEF ParseLtcWavFile, ParseLtcVideo
<1>6. CASE DecodeLtcVideoGroup
  BY <1>3, <1>6 DEF DecodeLtcVideoGroup
<1>7. CASE CancelDecode \/ ClearRecordingDecodeState
  BY <1>3, <1>7 DEF CancelDecode, ClearRecordingDecodeState
<1> QED
  BY <1>2, <1>4, <1>5, <1>6, <1>7 DEF RecordingCommand

\* Only the handler of scans settles a scan that counts, and it lists the
\* folder when it does: the result is that of the newest scan.
LEMMA ScanHandler ==
    ASSUME FlowInv, ScansSucceed, NewestScan, ScannedFolderListed, EventHandler
    PROVE  ScansSucceed' /\ NewestScan' /\ ScannedFolderListed'
<1> USE KindsAssumption
<1> DEFINE e == Head(events_buffer)
<1>1. TakeEvent
  BY DEF EventHandler, OnFolderScanFinished, OnClipProbesFinished, OnLtcDecodeFinished,
         OnGroupClipResult, OnGroupDecodeFinished, Handling
<1>2. /\ \A n \in 1..Len(Pipeline') : \E m \in 1..Len(Pipeline) : Pipeline'[n] = Pipeline[m]
      /\ settled' \subseteq settled \cup {e.job}
      /\ 1 \in 1..Len(Pipeline) /\ Pipeline[1] = e
  BY <1>1, ScanTake
<1>3. ASSUME NEW k \in Kind \ {FolderScan}, NEW types, Handling(k, types),
             NoJobs, UNCHANGED listVars
      PROVE  ScansSucceed' /\ NewestScan' /\ ScannedFolderListed'
  <2>1. UNCHANGED <<groups, groups_folder>>
    BY <1>3 DEF listVars
  <2>2. /\ \A j \in JobId : Born(j) => kind_of'[j] = kind_of[j]
        /\ latest_job'[FolderScan] = latest_job[FolderScan]
        /\ NewestScan'
    BY <1>3, <2>1, OtherJobs
  <2>3. e.job \in JobId /\ kind_of[e.job] = k
    BY <1>3, HandledIsNewest DEF FlowInv, TypeInv, Handling
  <2>4. latest_job[FolderScan] # e.job
    BY <2>3 DEF NewestScan
  <2>5. ScansSucceed'
    BY <1>2, <2>2, ScansSucceedKeeps
  <2> QED
    BY <1>2, <2>1, <2>2, <2>4, <2>5 DEF ScannedFolderListed
<1>4. CASE OnFolderScanFinished
  <2>1. Handling(FolderScan, Outcome) /\ groups_folder' = groups_folder
    BY <1>4 DEF OnFolderScanFinished
  <2>2. /\ latest_job[FolderScan] \in JobId /\ e.type = "Succeeded"
        /\ EventWork = groups_folder
    <3>1. e.job \in JobId /\ latest_job[FolderScan] = e.job /\ EventWork = work[latest_job[FolderScan]]
      BY <2>1, HandledIsNewest DEF FlowInv, TypeInv
    <3>2. IsFinished(e) /\ kind_of[e.job] = FolderScan
      BY <2>1 DEF Handling, IsFinished
    <3> QED
      BY <1>2, <3>1, <3>2 DEF ScansSucceed, NewestScan
  <2>3. /\ groups' = groups_folder
        /\ NoJobs \/ \E i, rec : ApplyRecordingSelection(i, rec)
    BY <1>4, <2>2 DEF OnFolderScanFinished
  <2>4. \E C, what : NoJobs \/ NoSpawn(C) \/ SpawnFor(C, ClipProbe, what)
    BY <2>3 DEF ApplyRecordingSelection
  <2>5. /\ \A j \in JobId : Born(j) => kind_of'[j] = kind_of[j]
        /\ NewestScan'
    BY <2>1, <2>4, OtherJobs
  <2>6. ScansSucceed'
    BY <1>2, <2>5, ScansSucceedKeeps
  <2> QED
    BY <2>1, <2>3, <2>5, <2>6 DEF ScannedFolderListed
<1>5. CASE OnClipProbesFinished
  BY <1>3, <1>5 DEF OnClipProbesFinished
<1>6. CASE OnLtcDecodeFinished
  BY <1>3, <1>6 DEF OnLtcDecodeFinished
<1>7. CASE OnGroupClipResult
  BY <1>3, <1>7 DEF OnGroupClipResult
<1>8. CASE OnGroupDecodeFinished
  BY <1>3, <1>8 DEF OnGroupDecodeFinished
<1> QED
  BY <1>4, <1>5, <1>6, <1>7, <1>8 DEF EventHandler

\* A scan that cannot panic reports success.
LEMMA ScanWorker ==
    ASSUME FlowInv, FolderScan \notin Panicking, ScansSucceed, NewestScan, ScannedFolderListed,
           NEW j \in JobId, EmitClip(j) \/ EndOfJob(j)
    PROVE  ScansSucceed' /\ NewestScan' /\ ScannedFolderListed'
<1>1. UNCHANGED <<kind_of, latest_job, work, settled, groups, groups_folder, events_buffer>>
  BY DEF EmitClip, EndOfJob, EmitItem, Exit, Report, dataVars, listVars, jobVars, loopVars
<1>2. NewestScan' /\ ScannedFolderListed'
  BY <1>1 DEF NewestScan, ScannedFolderListed
<1>3. ASSUME Pipeline' = Pipeline PROVE ScansSucceed'
  BY <1>1, <1>3 DEF ScansSucceed, IsFinished
<1>4. ASSUME NEW e \in Event, Send(e),
             IsFinished(e) /\ kind_of[e.job] = FolderScan => e.type = "Succeeded"
      PROVE  ScansSucceed'
  <2>1. /\ Len(Pipeline) \in Nat /\ Len(Pipeline') = Len(Pipeline) + 1
        /\ \A n \in 1..Len(Pipeline) : Pipeline'[n] = Pipeline[n]
        /\ Pipeline'[Len(Pipeline) + 1] = e
    BY <1>1, <1>4, PipelineSend, PipelineType DEF FlowInv, TypeInv
  <2> QED
    BY <1>1, <1>4, <2>1 DEF ScansSucceed, IsFinished
<1>5. CASE EmitClip(j)
  <2>1. Send([job |-> j, type |-> "Item"]) /\ kind_of[j] = LtcGroupDecode
    BY <1>5 DEF EmitClip, EmitItem
  <2> QED
    BY <1>2, <1>4, <2>1, KindsAssumption DEF Event
<1>6. CASE Exit(j)
  BY <1>1, <1>2, <1>3, <1>6 DEF Exit, Pipeline
<1>7. ASSUME NEW outcome \in Outcome, MayReport(j, outcome), Report(j, outcome)
      PROVE  ScansSucceed'
  <2>1. kind_of[j] = FolderScan => outcome = "Succeeded"
    BY <1>7, KindsAssumption, OutcomeAssumption DEF MayReport
  <2>2. Send([job |-> j, type |-> outcome])
    BY <1>7 DEF Report
  <2> QED
    BY <1>4, <2>1, <2>2 DEF Event
<1> QED
  BY <1>2, <1>5, <1>6, <1>7 DEF EndOfJob

LEMMA ScanStep == FlowInv /\ ScanInv /\ [FlowNext]_flowVars => ScanInv'
<1> SUFFICES ASSUME FlowInv, FolderScan \notin Panicking,
                    ScansSucceed, NewestScan, ScannedFolderListed, [FlowNext]_flowVars
             PROVE  ScansSucceed' /\ NewestScan' /\ ScannedFolderListed'
  BY DEF ScanInv
<1>0. ASSUME Pipeline' = Pipeline,
             UNCHANGED <<kind_of, latest_job, work, settled, groups, groups_folder>>
      PROVE  ScansSucceed' /\ NewestScan' /\ ScannedFolderListed'
  BY <1>0 DEF ScansSucceed, IsFinished, NewestScan, ScannedFolderListed
<1>1. CASE RecordingCommand
  BY <1>1, ScanCommand
<1>2. CASE SyncJobStatuses
  <2>1. Pipeline' = Pipeline
    BY <1>2, PipelinePoll DEF SyncJobStatuses, FlowInv, TypeInv
  <2> QED
    BY <1>0, <1>2, <2>1 DEF SyncJobStatuses, Poll, jobVars, listVars
<1>3. CASE Housekeeping
  <2>1. UNCHANGED <<kind_of, latest_job, work, groups, groups_folder>>
    BY <1>3 DEF Housekeeping, ReapOne, Drain, DiscardStale, EndTick, jobVars, dataVars, listVars
  <2>2. CASE ReapOne \/ Drain \/ EndTick
    BY <1>0, <2>1, <2>2 DEF ReapOne, Drain, EndTick, workerVars, Pipeline
  <2>3. CASE DiscardStale
    <3>1. TakeEvent /\ IsStale(Head(events_buffer))
      BY <2>3 DEF DiscardStale
    <3>2. Head(events_buffer).job \in JobId
      BY <3>1, ScanTake, PipelineType DEF FlowInv, TypeInv
    <3>3. latest_job[FolderScan] # Head(events_buffer).job
      BY <3>1, <3>2 DEF NewestScan, IsStale
    <3>4. ScansSucceed'
      BY <2>1, <3>1, ScanTake, ScansSucceedKeeps
    <3> QED
      BY <2>1, <3>1, <3>3, <3>4, ScanTake DEF NewestScan, ScannedFolderListed
  <2> QED
    BY <1>3, <2>2, <2>3 DEF Housekeeping
<1>4. CASE EventHandler
  BY <1>4, ScanHandler
<1>5. ASSUME NEW j \in JobId, EmitClip(j) \/ EndOfJob(j)
      PROVE  ScansSucceed' /\ NewestScan' /\ ScannedFolderListed'
  BY <1>5, ScanWorker
<1>6. CASE UNCHANGED flowVars
  BY <1>0, <1>6 DEF flowVars, dataVars, listVars, vars, jobVars, workerVars, loopVars, Pipeline
<1> QED
  BY <1>1, <1>2, <1>3, <1>4, <1>5, <1>6 DEF FlowNext, FlowTick

\* However the scans of several folders overtake each other, once the one
\* started last is over its folder is the one that is listed.
THEOREM ScannedFolderAlwaysListed == FlowSpec => []ScannedFolderListed
<1>1. FlowInit => Init
  BY DEF FlowInit
<1>2. FlowSpec => []FlowInv
  <2>1. FlowInit => TypeInv /\ ListInv /\ EventInv
    BY <1>1, TypeInit, ListInit, EventInit
  <2>2. TypeInv /\ ListInv /\ EventInv /\ [FlowNext]_flowVars => (TypeInv /\ ListInv /\ EventInv)'
    BY StepRefines, TypeStep, ListStep, EventStep
  <2> QED
    BY <2>1, <2>2, FlowShows, PTL DEF FlowSpec, FlowInv
<1>3. ScanInv => ScannedFolderListed
  BY DEF ScanInv, ScannedFolderListed
<1> QED
  BY <1>2, <1>3, ScanInit, ScanStep, PTL DEF FlowSpec
=============================================================================
