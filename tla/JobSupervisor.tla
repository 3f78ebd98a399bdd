--------------------------- MODULE JobSupervisor ---------------------------
(***************************************************************************)
(* The job supervisor of the engine (gui-engine/src/job.rs) and the tick   *)
(* loop of the engine thread that owns it (gui-engine/src/engine.rs).      *)
(*                                                                         *)
(* The engine thread spawns worker threads, cancels them through a shared  *)
(* flag, and once per tick drains the event channel, reaps the workers     *)
(* that have ended and hands the drained events to the handlers.  Workers  *)
(* run concurrently with every step of the engine thread: a worker sends   *)
(* its Finished event first and ends as a thread only later, so a job that *)
(* has reported may still be in the list of active jobs.                   *)
(***************************************************************************)
EXTENDS Integers, Sequences

CONSTANTS
    Kind,       \* the job kinds
    NoKind,     \* the kind of an id that is not used yet
    Outcome,    \* what a worker can report at its end
    MaxJobs,    \* bound: how many jobs are spawned in a behaviour
    MaxItems    \* bound: how many Item events a job emits

ASSUME NoKindAssumption == NoKind \notin Kind
ASSUME OutcomeAssumption == Outcome \subseteq {"Succeeded", "Cancelled", "Failed"}
ASSUME MaxJobsAssumption == MaxJobs \in Nat
ASSUME MaxItemsAssumption == MaxItems \in Nat

JobId == 1..MaxJobs
NoJob == 0

VARIABLES
    next_id,        \* the id the next spawned job gets
    kind_of,        \* the kind each job was spawned with
    latest_job,     \* the most recently spawned job of each kind
    active,         \* the jobs not reaped yet, in the order of the Vec
    cancelled,      \* the cancel flag of each job
    worker,         \* where the thread of each job is
    items,          \* how many Item events each job has emitted
    channel,        \* events sent and not yet received by poll
    events_buffer,  \* events received by poll and not yet handled
    pc,             \* where the engine thread is in its tick
    scan,           \* index poll (reaping) or shutdown (joining) looks at
    deadline,       \* whether the deadline of shutdown has passed
    settled         \* jobs whose Finished event was handled or discarded

workerVars == <<worker, items, channel>>
jobVars == <<next_id, kind_of, latest_job, active, cancelled>>
loopVars == <<events_buffer, pc, scan, deadline, settled>>
vars == <<jobVars, workerVars, loopVars>>

Event == [job : JobId, type : {"Item"} \cup Outcome]
WorkerState == {"unborn", "running", "reported", "exited"}
Phase == {"commands", "reap", "events", "shutdown", "join", "stopped"}

IsFinished(e) == e.type \in Outcome

Init ==
    /\ next_id = 1
    /\ kind_of = [j \in JobId |-> NoKind]
    /\ latest_job = [k \in Kind |-> NoJob]
    /\ active = <<>>
    /\ cancelled = [j \in JobId |-> FALSE]
    /\ worker = [j \in JobId |-> "unborn"]
    /\ items = [j \in JobId |-> 0]
    /\ channel = <<>>
    /\ events_buffer = <<>>
    /\ pc = "commands"
    /\ scan = 0
    /\ deadline = FALSE
    /\ settled = {}

-----------------------------------------------------------------------------
(* Slips a change to the code could make.  Nothing below uses these: the    *)
(* mutation entries of PROJECT.json put one in the place of the definition  *)
(* it distorts, and a property must then fail.                              *)

\* The vector is shortened without moving its last entry.
SwapRemoveTruncating(s, i) == SubSeq(s, 1, Len(s) - 1)

\* The last active job is never looked at.
PollOffByOne ==
    /\ pc = "commands"
    /\ events_buffer' = events_buffer \o channel
    /\ channel' = <<>>
    /\ scan' = Len(active) - 1
    /\ pc' = "reap"
    /\ UNCHANGED <<jobVars, worker, items, deadline, settled>>

\* Events of jobs that were reaped in this tick are dropped.
DrainOfActive ==
    /\ pc = "reap" /\ scan <= 0
    /\ events_buffer' = SelectSeq(events_buffer,
            LAMBDA e : \E i \in 1..Len(active) : active[i] = e.job)
    /\ pc' = "events"
    /\ UNCHANGED <<jobVars, workerVars, scan, deadline, settled>>

\* A join cut short by the deadline is tried again instead of given up.
NextJoinRetrying ==
    /\ pc = "shutdown"
    /\ \/ scan > Len(active) /\ pc' = "stopped"
       \/ scan <= Len(active) /\ deadline /\ pc' = pc
       \/ scan <= Len(active) /\ ~deadline /\ pc' = "join"
    /\ UNCHANGED <<jobVars, workerVars, events_buffer, scan, deadline, settled>>

-----------------------------------------------------------------------------
(* Operations of the supervisor, called by the engine thread.              *)

IsRunning(k) == \E i \in 1..Len(active) : kind_of[active[i]] = k

\* cancel: the first active job of the kind, whatever the job's own state.
CancelTarget(k) ==
    {active[i] : i \in {n \in 1..Len(active) :
        /\ kind_of[active[n]] = k
        /\ \A m \in 1..(n - 1) : kind_of[active[m]] # k}}

CancelFlags(C) ==
    [j \in JobId |-> cancelled[j] \/ \E k \in C : j \in CancelTarget(k)]

Cancel(C) ==
    /\ cancelled' = CancelFlags(C)
    /\ UNCHANGED <<next_id, kind_of, latest_job, active, worker, items>>

\* Handlers cancel before they spawn; none spawns more than one job.
CancelAndSpawn(C, k) ==
    /\ next_id \in JobId
    /\ cancelled' = CancelFlags(C)
    /\ next_id' = next_id + 1
    /\ kind_of' = [kind_of EXCEPT ![next_id] = k]
    /\ latest_job' = [latest_job EXCEPT ![k] = next_id]
    /\ active' = Append(active, next_id)
    /\ worker' = [worker EXCEPT ![next_id] = "running"]
    /\ UNCHANGED items

\* swap_remove(i): the last entry takes the place of the removed one.
SwapRemove(s, i) ==
    [n \in 1..(Len(s) - 1) |-> IF n = i THEN s[Len(s)] ELSE s[n]]

-----------------------------------------------------------------------------
(* The tick of the engine thread.                                          *)

Command ==
    /\ pc = "commands"
    /\ \E C \in SUBSET Kind :
        \/ Cancel(C)
        \/ \E k \in Kind : CancelAndSpawn(C, k)
    /\ UNCHANGED <<channel, loopVars>>

\* First half of poll: receive until the channel is empty.
Poll ==
    /\ pc = "commands"
    /\ events_buffer' = events_buffer \o channel
    /\ channel' = <<>>
    /\ scan' = Len(active)
    /\ pc' = "reap"
    /\ UNCHANGED <<jobVars, worker, items, deadline, settled>>

\* Second half: from the last index down, join the threads that have ended.
ReapOne ==
    /\ pc = "reap" /\ scan > 0
    /\ active' = IF worker[active[scan]] = "exited"
                 THEN SwapRemove(active, scan) ELSE active
    /\ scan' = scan - 1
    /\ UNCHANGED <<next_id, kind_of, latest_job, cancelled, workerVars,
                   events_buffer, pc, deadline, settled>>

Drain ==
    /\ pc = "reap" /\ scan = 0
    /\ pc' = "events"
    /\ UNCHANGED <<jobVars, workerVars, events_buffer, scan, deadline, settled>>

\* An event counts only when it comes from the newest job of its kind.
IsStale(e) == latest_job[kind_of[e.job]] # e.job

TakeEvent ==
    /\ pc = "events" /\ events_buffer # <<>>
    /\ events_buffer' = Tail(events_buffer)
    /\ settled' = IF IsFinished(Head(events_buffer))
                  THEN settled \cup {Head(events_buffer).job} ELSE settled
    /\ UNCHANGED <<channel, pc, scan, deadline>>

DiscardStale ==
    /\ TakeEvent
    /\ IsStale(Head(events_buffer))
    /\ UNCHANGED <<jobVars, worker, items>>

\* Some handlers start a follow-up job (a scan its probes, the ffmpeg probe
\* the hardware validation, a deferred selection its cancels and its probe).
HandleEvent ==
    /\ TakeEvent
    /\ ~IsStale(Head(events_buffer))
    /\ \/ UNCHANGED <<jobVars, worker, items>>
       \/ /\ IsFinished(Head(events_buffer))
          /\ \E C \in SUBSET Kind :
                \/ Cancel(C)
                \/ \E k \in Kind : CancelAndSpawn(C, k)

EndTick ==
    /\ pc = "events" /\ events_buffer = <<>>
    /\ pc' = "commands"
    /\ UNCHANGED <<jobVars, workerVars, events_buffer, scan, deadline, settled>>

-----------------------------------------------------------------------------
(* Shutdown: cancel everything, then join one thread after the other; the  *)
(* deadline is looked at before each join and never during one.            *)

Shutdown ==
    /\ pc = "commands"
    /\ cancelled' = [j \in JobId |-> cancelled[j] \/ \E i \in 1..Len(active) : active[i] = j]
    /\ scan' = 1
    /\ pc' = "shutdown"
    /\ UNCHANGED <<next_id, kind_of, latest_job, active, workerVars,
                   events_buffer, deadline, settled>>

DeadlinePasses ==
    /\ pc \in {"shutdown", "join"} /\ ~deadline
    /\ deadline' = TRUE
    /\ UNCHANGED <<jobVars, workerVars, events_buffer, pc, scan, settled>>

NextJoin ==
    /\ pc = "shutdown"
    /\ \/ scan > Len(active) /\ pc' = "stopped" /\ scan' = scan
       \/ scan <= Len(active) /\ deadline /\ scan' = scan + 1 /\ pc' = pc
       \/ scan <= Len(active) /\ ~deadline /\ pc' = "join" /\ scan' = scan
    /\ UNCHANGED <<jobVars, workerVars, events_buffer, deadline, settled>>

JoinReturns ==
    /\ pc = "join" /\ worker[active[scan]] = "exited"
    /\ pc' = "shutdown"
    /\ scan' = scan + 1
    /\ UNCHANGED <<jobVars, workerVars, events_buffer, deadline, settled>>

-----------------------------------------------------------------------------
(* The worker threads.                                                     *)

Send(e) == channel' = Append(channel, e)

EmitItem(j) ==
    /\ worker[j] = "running" /\ items[j] < MaxItems
    /\ items' = [items EXCEPT ![j] = @ + 1]
    /\ Send([job |-> j, type |-> "Item"])
    /\ UNCHANGED <<jobVars, worker, loopVars>>

\* A worker reports Cancelled only when it saw its flag; a job that returns
\* an error or panics reports Failed; one that never looks at its flag, or
\* looks too early, succeeds although it was cancelled.
Report(j, outcome) ==
    /\ worker[j] = "running"
    /\ outcome = "Cancelled" => cancelled[j]
    /\ worker' = [worker EXCEPT ![j] = "reported"]
    /\ Send([job |-> j, type |-> outcome])
    /\ UNCHANGED <<jobVars, items, loopVars>>

Exit(j) ==
    /\ worker[j] = "reported"
    /\ worker' = [worker EXCEPT ![j] = "exited"]
    /\ UNCHANGED <<jobVars, items, channel, loopVars>>

-----------------------------------------------------------------------------
Tick == Poll \/ ReapOne \/ Drain \/ DiscardStale \/ HandleEvent \/ EndTick
Closing == NextJoin \/ JoinReturns
Work(j) == Exit(j) \/ \E outcome \in Outcome : Report(j, outcome)

\* After shutdown the engine thread is gone and its workers die with it.
Stopped == pc = "stopped" /\ UNCHANGED vars

Next ==
    \/ Command \/ Tick \/ Shutdown \/ DeadlinePasses \/ Closing \/ Stopped
    \/ \E j \in JobId : EmitItem(j) \/ Work(j)

Spec == Init /\ [][Next]_vars

\* The engine thread never stops ticking and time passes; nothing is assumed
\* of the workers, which may sit in a system call for ever.
EngineFairness == WF_vars(Tick) /\ WF_vars(Closing) /\ WF_vars(DeadlinePasses)
EngineSpec == Spec /\ EngineFairness

\* In addition every worker ends: its subprocesses are watched for stalls.
FairSpec == EngineSpec /\ \A j \in JobId : WF_vars(Work(j))

-----------------------------------------------------------------------------
Born(j) == worker[j] # "unborn"
Pipeline == events_buffer \o channel

TypeOK ==
    /\ next_id \in 1..(MaxJobs + 1)
    /\ kind_of \in [JobId -> Kind \cup {NoKind}]
    /\ latest_job \in [Kind -> JobId \cup {NoJob}]
    /\ active \in Seq(JobId)
    /\ cancelled \in [JobId -> BOOLEAN]
    /\ worker \in [JobId -> WorkerState]
    /\ items \in [JobId -> 0..MaxItems]
    /\ channel \in Seq(Event)
    /\ events_buffer \in Seq(Event)
    /\ pc \in Phase
    /\ scan \in Nat
    /\ deadline \in BOOLEAN
    /\ settled \in SUBSET JobId

\* Until the engine shuts down, every worker thread that has not ended is
\* listed exactly once among the active jobs: none is forgotten (it could no
\* longer be cancelled or joined) and none is joined twice, although poll
\* reorders the list with swap_remove while it walks it.
LiveWorkersListed ==
    /\ \A j \in JobId : worker[j] \in {"running", "reported"} =>
            \E i \in 1..Len(active) : active[i] = j
    /\ \A i, n \in 1..Len(active) : active[i] = active[n] => i = n

\* The newest job of a kind is the one with the greatest id of that kind, so
\* an event of a superseded job is never taken for one of its replacement.
LatestIsNewest ==
    \A j \in JobId : Born(j) => latest_job[kind_of[j]] >= j

\* The Finished event of a job that has reported is never lost: until the
\* engine has dealt with it, it is on its way, even when the thread has been
\* reaped in the tick that had already drained the channel.
FinishedNeverLost ==
    \A j \in JobId : worker[j] \in {"reported", "exited"} /\ j \notin settled =>
        \E n \in 1..Len(Pipeline) : Pipeline[n].job = j /\ IsFinished(Pipeline[n])

\* The Finished event of a job is the last event the engine sees of it.
FinishedIsLast ==
    /\ \A n, m \in 1..Len(Pipeline) :
            n < m /\ Pipeline[n].job = Pipeline[m].job => ~IsFinished(Pipeline[n])
    /\ \A n \in 1..Len(Pipeline) : Pipeline[n].job \notin settled

\* Every job that is spawned is reported to the engine and its thread reaped,
\* unless the engine is shut down first.
JobsAreReaped ==
    \A j \in JobId : Born(j) ~>
        \/ pc \in {"shutdown", "join", "stopped"}
        \/ j \in settled /\ \A i \in 1..Len(active) : active[i] # j

\* Shutting down comes to its end: each join returns when its worker has
\* ended, and those left when the deadline passes are skipped.  The join under
\* way is not cut short, so this rests on every worker ending.
ShutdownReturns == pc = "shutdown" ~> pc = "stopped"
=============================================================================
