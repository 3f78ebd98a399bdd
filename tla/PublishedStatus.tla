-------------------------- MODULE PublishedStatus --------------------------
(***************************************************************************)
(* The status of a job kind that the engine publishes to the user          *)
(* interfaces, and the commands that read or write it: starting and        *)
(* cancelling a conversion and an offload, selecting another recording     *)
(* (gui-engine/src/engine.rs).                                             *)
(*                                                                         *)
(* The status has three writers: the commands, which write what they       *)
(* expect; the poll of every tick, which writes the progress of the jobs   *)
(* still listed; and the Finished events.  The conversion is guarded by    *)
(* the published phase, the offload by the list of active jobs.            *)
(***************************************************************************)
EXTENDS JobSupervisor

CONSTANTS Conversion, OffloadCopy   \* the members of Kind

ASSUME StatusKindsAssumption ==
    Kind = {Conversion, OffloadCopy} /\ Conversion # OffloadCopy

VARIABLES
    status,     \* the published phase of each kind
    selected    \* whether a recording is selected

statusVars == <<status, selected>>
allVars == <<vars, statusVars>>

Terminal == {"Succeeded", "Cancelled", "Failed"}

StatusInit ==
    /\ Init
    /\ status = [k \in Kind |-> "Absent"]
    /\ selected = FALSE

InCommands == pc = "commands" /\ UNCHANGED <<channel, loopVars>>

-----------------------------------------------------------------------------
(* Slips a change to the code could make, for the mutation entries of      *)
(* PROJECT.json; nothing below uses them.                                  *)

\* The poll publishes Running over a phase that is terminal.
SyncedOverTerminal(k) == IF IsRunning(k) THEN "Running" ELSE status[k]

-----------------------------------------------------------------------------
(* Commands.                                                               *)

\* Forgets the selection; kinds never seen before get an idle status.
SelectFolder ==
    /\ InCommands
    /\ selected' = FALSE
    /\ status' = [status EXCEPT ![Conversion] = IF @ = "Absent" THEN "Idle" ELSE @]
    /\ UNCHANGED <<jobVars, worker, items>>

\* Takes the conversion back to idle, whatever its jobs are doing.
SelectRecording ==
    /\ InCommands
    /\ selected' = TRUE
    /\ status' = [status EXCEPT ![Conversion] = "Idle"]
    /\ UNCHANGED <<jobVars, worker, items>>

\* Refused while the phase is Running or the settings are not complete;
\* otherwise the previous conversion is cancelled and a new one started.
StartConversion ==
    /\ InCommands
    /\ selected
    /\ status[Conversion] # "Running"
    /\ CancelAndSpawn({Conversion}, Conversion)
    /\ status' = [status EXCEPT ![Conversion] = "Running"]
    /\ UNCHANGED selected

\* The phase is published as Cancelled before the worker has seen its flag.
CancelConversion ==
    /\ InCommands
    /\ Cancel({Conversion})
    /\ status' = [status EXCEPT ![Conversion] = IF @ = "Absent" THEN @ ELSE "Cancelled"]
    /\ UNCHANGED selected

\* Nothing is published: that is left to the poll of the same tick.
StartOffload ==
    /\ InCommands
    /\ ~IsRunning(OffloadCopy)
    /\ CancelAndSpawn({}, OffloadCopy)
    /\ UNCHANGED statusVars

CancelOffload ==
    /\ InCommands
    /\ Cancel({OffloadCopy})
    /\ UNCHANGED statusVars

StatusCommand ==
    \/ SelectFolder \/ SelectRecording
    \/ StartConversion \/ CancelConversion
    \/ StartOffload \/ CancelOffload

-----------------------------------------------------------------------------
(* The tick.                                                               *)

\* What the poll publishes: progress of the jobs listed before it reaps, but
\* never over a phase that is terminal.
Synced(k) ==
    IF IsRunning(k) /\ status[k] \notin Terminal THEN "Running" ELSE status[k]

SyncJobStatuses ==
    /\ Poll
    /\ status' = [k \in Kind |-> Synced(k)]
    /\ UNCHANGED selected

\* Both handlers apply the outcome to the published status.
OnFinished ==
    /\ TakeEvent
    /\ ~IsStale(Head(events_buffer))
    /\ IsFinished(Head(events_buffer))
    /\ status' = [status EXCEPT ![kind_of[Head(events_buffer).job]] =
                    IF @ = "Absent" THEN @ ELSE Head(events_buffer).type]
    /\ UNCHANGED <<jobVars, worker, items, selected>>

Housekeeping ==
    /\ ReapOne \/ Drain \/ DiscardStale \/ EndTick
    /\ UNCHANGED statusVars

StatusTick == SyncJobStatuses \/ OnFinished \/ Housekeeping

EndOfJob(j) == Work(j) /\ UNCHANGED statusVars

\* The engine shuts down; nothing is published any more.
EndOfEngine ==
    /\ Shutdown \/ DeadlinePasses \/ Closing \/ Stopped
    /\ UNCHANGED statusVars

StatusNext ==
    \/ StatusCommand \/ StatusTick \/ EndOfEngine
    \/ \E j \in JobId : EndOfJob(j)

StatusSpec ==
    /\ StatusInit /\ [][StatusNext]_allVars
    /\ WF_allVars(StatusTick)
    /\ WF_allVars((DeadlinePasses \/ Closing) /\ UNCHANGED statusVars)
    /\ \A j \in JobId : WF_allVars(EndOfJob(j))

-----------------------------------------------------------------------------
IsLive(j) == j # NoJob /\ Born(j) /\ j \notin settled

StatusTypeOK ==
    /\ status \in [Kind -> Terminal \cup {"Absent", "Idle", "Running"}]
    /\ status[OffloadCopy] # "Idle"
    /\ selected \in BOOLEAN

\* Two offloads never run at the same time: a second copy of the same cards
\* would write the files the first one is still writing.
OneOffload ==
    \A i, j \in JobId :
        /\ kind_of[i] = OffloadCopy /\ worker[i] = "running"
        /\ kind_of[j] = OffloadCopy /\ worker[j] = "running"
        => i = j

\* Once the offload started last is over, its end stays published: the
\* progress of a thread that has not been reaped yet does not replace it.
OffloadEndStays ==
    latest_job[OffloadCopy] \in settled => status[OffloadCopy] \in Terminal

\* An offload that is shown as running is shown as ended some time later,
\* unless the engine is shut down.
OffloadSettles ==
    status[OffloadCopy] = "Running" ~>
        status[OffloadCopy] \in Terminal \/ pc \in {"shutdown", "join", "stopped"}

\* The engine drives the supervisor only as JobSupervisor allows.
StatusImplementsSupervisor == Spec

-----------------------------------------------------------------------------
(* What the documentation says and the code does not keep (README,         *)
(* section 5).                                                             *)

\* At most one conversion is under way that has not been told to stop.
SingleConversion ==
    \A i, j \in JobId :
        /\ kind_of[i] = Conversion /\ worker[i] = "running" /\ ~cancelled[i]
        /\ kind_of[j] = Conversion /\ worker[j] = "running" /\ ~cancelled[j]
        => i = j

\* Running is published only for a conversion whose end is still to come.
RunningIsLive ==
    pc = "commands" /\ status[Conversion] = "Running"
        => \E j \in JobId : kind_of[j] = Conversion /\ IsLive(j)

\* When the engine has polled, an offload under way is published as running.
OffloadIsShown ==
    pc = "reap" /\ (\E j \in JobId : kind_of[j] = OffloadCopy /\ worker[j] = "running")
        => status[OffloadCopy] = "Running"
=============================================================================
