--------------------------- MODULE RecordingFlow ---------------------------
(***************************************************************************)
(* What the engine does with a folder of recordings: scan it, select one   *)
(* of the recordings found, probe its clips and decode its timecode        *)
(* (gui-engine/src/engine.rs).  Each of the four activities is a kind of   *)
(* job of the supervisor.  Commands are applied at once, the results of    *)
(* the jobs arrive in later ticks, and what a result is allowed to change  *)
(* then depends on what was selected in between.                           *)
(*                                                                         *)
(* The shutdown of the engine is left to JobSupervisor.                    *)
(***************************************************************************)
EXTENDS JobSupervisor

CONSTANTS
    FolderScan, ClipProbe, LtcDecode, LtcGroupDecode,   \* members of Kind
    Folder,         \* the folders the user may choose
    Contents,       \* the recordings a scan finds, in order, per folder
    Index,          \* the indices a command may carry, from 1
    Panicking,      \* the kinds whose worker may panic in an instance
    None            \* no folder, no recording, no index

ASSUME KindsAssumption ==
    /\ {FolderScan, ClipProbe, LtcDecode, LtcGroupDecode} \subseteq Kind
    /\ FolderScan \notin {ClipProbe, LtcDecode, LtcGroupDecode}
    /\ ClipProbe \notin {LtcDecode, LtcGroupDecode}
    /\ LtcDecode # LtcGroupDecode
ASSUME NoneAssumption == None \notin Folder /\ None \notin Index

Recording == UNION {{Contents[f][i] : i \in 1..Len(Contents[f])} : f \in Folder}

VARIABLES
    groups_folder,  \* the folder chosen last
    groups,         \* the folder whose recordings are listed
    selected,       \* selected_group_idx
    pending,        \* pending_recording: a selection waiting for a scan
    probes,         \* the recording whose clip probes are shown
    probes_live,    \* probes_generation > 0
    ltc_phase,      \* the published phase of LtcDecode
    result,         \* the recording whose decode result is shown
    ltc_fresh,      \* generation > last_auto_applied_ltc_gen
    group,          \* group_paths and group_results: whose, how many are done
    group_fresh,    \* group_generation > last_auto_applied_group_ltc_gen
    applied,        \* the recording whose timecode set the split, drop and
                    \* start-from-LTC settings
    work            \* what each job was given: a folder or a recording

listVars == <<groups_folder, groups>>
probeVars == <<probes, probes_live>>
decodeVars == <<ltc_phase, result, ltc_fresh, group, group_fresh, applied>>
dataVars == <<listVars, selected, pending, probeVars, decodeVars>>
flowVars == <<vars, dataVars, work>>

Terminal == {"Succeeded", "Cancelled", "Failed"}

\* The recording the listed groups have at an index.
RecordingAt(i) ==
    IF groups # None /\ i # None /\ i \in 1..Len(Contents[groups])
    THEN Contents[groups][i] ELSE None
Selected == RecordingAt(selected)

FlowInit ==
    /\ Init
    /\ groups_folder = None /\ groups = None
    /\ selected = None /\ pending = None
    /\ probes = None /\ probes_live = FALSE
    /\ ltc_phase = "Absent" /\ result = None /\ ltc_fresh = FALSE
    /\ group = None /\ group_fresh = FALSE
    /\ applied = None
    /\ work = [j \in JobId |-> None]

\* A bound of the model, not of the code: one job is kept in reserve for the
\* probe that a waiting selection starts when its scan ends.
HasRoom == next_id + (IF pending # None THEN 1 ELSE 0) <= MaxJobs

InCommands == pc = "commands" /\ UNCHANGED <<channel, loopVars>>

SpawnFor(C, k, what) ==
    /\ CancelAndSpawn(C, k)
    /\ work' = [work EXCEPT ![next_id] = what]

NoSpawn(C) == Cancel(C) /\ UNCHANGED work

NoJobs == UNCHANGED <<jobVars, worker, items, work>>

-----------------------------------------------------------------------------
(* Slips a change to the code could make, for the mutation entries of      *)
(* PROJECT.json; nothing below uses them.                                  *)

\* A scan under way makes the command skip its own, as other commands do.
SelectFolderIgnoringDuplicate(f) ==
    /\ InCommands
    /\ groups_folder' = f /\ groups' = None
    /\ selected' = None /\ pending' = None
    /\ probes' = None /\ probes_live' = FALSE
    /\ IF IsRunning(FolderScan) THEN NoJobs ELSE SpawnFor({}, FolderScan, f)
    /\ UNCHANGED decodeVars

\* group_results of the recording selected before stay.
ResetSelectionKeepingGroup(i) ==
    /\ selected' = i
    /\ probes' = None /\ probes_live' = TRUE
    /\ result' = None /\ ltc_fresh' = TRUE
    /\ group' = group /\ group_fresh' = TRUE
    /\ applied' = None
    /\ UNCHANGED ltc_phase

\* The gate for events of superseded jobs is left out.
HandlingStale(k, types) ==
    /\ TakeEvent
    /\ kind_of[Head(events_buffer).job] = k
    /\ Head(events_buffer).type \in types

-----------------------------------------------------------------------------
(* Commands.                                                               *)

\* A new scan forgets the selection and its probes; the scan and the probe
\* already under way are not cancelled, and the decode results stay.
SelectFolder(f) ==
    /\ InCommands
    /\ groups_folder' = f /\ groups' = None
    /\ selected' = None /\ pending' = None
    /\ probes' = None /\ probes_live' = FALSE
    /\ SpawnFor({}, FolderScan, f)
    /\ UNCHANGED decodeVars

\* Decode state of the recording that was selected before is dropped, its
\* decodes are cancelled, both latches are reset below a bumped generation.
ResetSelection(i) ==
    /\ selected' = i
    /\ probes' = None /\ probes_live' = TRUE
    /\ result' = None /\ ltc_fresh' = TRUE
    /\ group' = None /\ group_fresh' = TRUE
    /\ applied' = None
    /\ UNCHANGED ltc_phase

\* Only a selection that denotes a recording replaces the running probe.
\* rec is the recording at the index, in the groups as they are by then.
ApplyRecordingSelection(i, rec) ==
    /\ ResetSelection(i)
    /\ IF rec # None
       THEN SpawnFor({LtcDecode, LtcGroupDecode, ClipProbe}, ClipProbe, rec)
       ELSE NoSpawn({LtcDecode, LtcGroupDecode})

SelectRecording(i) ==
    /\ InCommands
    /\ \/ /\ IsRunning(FolderScan)
          /\ next_id <= MaxJobs
          /\ pending' = i
          /\ NoJobs
          /\ UNCHANGED <<selected, probeVars, decodeVars>>
       \/ /\ ~IsRunning(FolderScan)
          /\ RecordingAt(i) # None => HasRoom
          /\ pending' = pending
          /\ ApplyRecordingSelection(i, RecordingAt(i))
    /\ UNCHANGED listVars

\* The window between the Finished event and the reaping of the thread is
\* known to this command: a terminal phase lets it through.
ParseLtcWavFile ==
    /\ InCommands /\ Selected # None
    /\ ~IsRunning(LtcDecode) \/ ltc_phase \in Terminal
    /\ \/ /\ HasRoom
          /\ result' = None /\ ltc_fresh' = TRUE
          /\ ltc_phase' = "Running"
          /\ SpawnFor({}, LtcDecode, Selected)
       \/ \* the file cannot be opened
          /\ ltc_phase' = IF ltc_phase = "Absent" THEN "Absent" ELSE "Failed"
          /\ NoJobs
          /\ UNCHANGED <<result, ltc_fresh>>
    /\ UNCHANGED <<listVars, selected, pending, probeVars, group, group_fresh, applied>>

\* The same for a clip: an unreaped thread is enough to be ignored, and a
\* stream the probe does not list is refused after the state was reset.
ParseLtcVideo ==
    /\ InCommands /\ Selected # None
    /\ ~IsRunning(LtcDecode)
    /\ result' = None /\ ltc_fresh' = TRUE
    /\ \/ HasRoom /\ ltc_phase' = "Running" /\ SpawnFor({}, LtcDecode, Selected)
       \/ probes # None /\ ltc_phase' = "Failed" /\ NoJobs
    /\ UNCHANGED <<listVars, selected, pending, probeVars, group, group_fresh, applied>>

DecodeLtcVideoGroup ==
    /\ InCommands /\ Selected # None
    /\ ~IsRunning(LtcGroupDecode) /\ HasRoom
    /\ group' = [of |-> Selected, done |-> 0] /\ group_fresh' = TRUE
    /\ SpawnFor({}, LtcGroupDecode, Selected)
    /\ UNCHANGED <<listVars, selected, pending, probeVars,
                   ltc_phase, result, ltc_fresh, applied>>

\* The phase is published as Cancelled before the worker has seen its flag.
CancelDecode ==
    /\ InCommands
    /\ NoSpawn({LtcDecode, LtcGroupDecode})
    /\ ltc_phase' = IF ltc_phase = "Absent" THEN "Absent" ELSE "Cancelled"
    /\ UNCHANGED <<listVars, selected, pending, probeVars,
                   result, ltc_fresh, group, group_fresh, applied>>

ClearRecordingDecodeState ==
    /\ InCommands
    /\ NoSpawn({LtcDecode, LtcGroupDecode})
    /\ ltc_phase' = "Idle"
    /\ result' = None /\ ltc_fresh' = TRUE
    /\ group' = None /\ group_fresh' = TRUE
    /\ UNCHANGED <<listVars, selected, pending, probeVars, applied>>

RecordingCommand ==
    \/ \E f \in Folder : SelectFolder(f)
    \/ \E i \in Index : SelectRecording(i)
    \/ ParseLtcWavFile \/ ParseLtcVideo \/ DecodeLtcVideoGroup
    \/ CancelDecode \/ ClearRecordingDecodeState

-----------------------------------------------------------------------------
(* The tick.                                                               *)

\* sync_job_statuses: every job still listed publishes its progress, unless
\* the phase of its kind is terminal.
SyncedPhase ==
    IF IsRunning(LtcDecode) /\ ltc_phase \notin Terminal THEN "Running" ELSE ltc_phase

SyncJobStatuses ==
    /\ Poll
    /\ ltc_phase' = SyncedPhase
    /\ UNCHANGED <<listVars, selected, pending, probeVars,
                   result, ltc_fresh, group, group_fresh, applied, work>>

\* The steps of the supervisor and of the workers that touch no data here.
Housekeeping ==
    /\ ReapOne \/ Drain \/ DiscardStale \/ EndTick
    /\ UNCHANGED <<dataVars, work>>

\* The next event is one that a handler of this kind gets to see.
Handling(k, types) ==
    /\ TakeEvent
    /\ ~IsStale(Head(events_buffer))
    /\ kind_of[Head(events_buffer).job] = k
    /\ Head(events_buffer).type \in types

EventWork == work[Head(events_buffer).job]

\* A result for the folder chosen last is listed, then a waiting selection is
\* applied to it; a scan that panicked carries no result.
OnFolderScanFinished ==
    /\ Handling(FolderScan, Outcome)
    /\ IF Head(events_buffer).type = "Succeeded" /\ EventWork = groups_folder
       THEN /\ groups' = groups_folder
            /\ pending' = None
            /\ IF pending # None
               THEN ApplyRecordingSelection(pending,
                        IF pending \in 1..Len(Contents[groups_folder])
                        THEN Contents[groups_folder][pending] ELSE None)
               ELSE NoJobs /\ UNCHANGED <<selected, probeVars, decodeVars>>
       ELSE /\ NoJobs
            /\ UNCHANGED <<groups, selected, pending, probeVars, decodeVars>>
    /\ UNCHANGED groups_folder

OnClipProbesFinished ==
    /\ Handling(ClipProbe, Outcome)
    /\ probes' = IF Head(events_buffer).type = "Succeeded" /\ probes_live
                 THEN EventWork ELSE probes
    /\ NoJobs
    /\ UNCHANGED <<listVars, selected, pending, probes_live, decodeVars>>

\* A job that succeeds carries the result of the decode or its error; one
\* that failed changes nothing but the phase.
OnLtcDecodeFinished ==
    /\ Handling(LtcDecode, Outcome)
    /\ ltc_phase' = Head(events_buffer).type
    /\ \/ /\ Head(events_buffer).type = "Succeeded"
          /\ result' = EventWork
          /\ ltc_fresh' = FALSE
          /\ applied' = IF ltc_fresh THEN EventWork ELSE applied
       \/ /\ Head(events_buffer).type \in {"Succeeded", "Cancelled"}
          /\ result' = None
          /\ UNCHANGED <<ltc_fresh, applied>>
       \/ /\ Head(events_buffer).type = "Failed"
          /\ UNCHANGED <<result, ltc_fresh, applied>>
    /\ NoJobs
    /\ UNCHANGED <<listVars, selected, pending, probeVars, group, group_fresh>>

\* A clip result is kept when group_results has a place for it.
OnGroupClipResult ==
    /\ Handling(LtcGroupDecode, {"Item"})
    /\ group' = IF group # None THEN [of |-> EventWork, done |-> group.done + 1]
                ELSE group
    /\ NoJobs
    /\ UNCHANGED <<listVars, selected, pending, probeVars,
                   ltc_phase, result, ltc_fresh, group_fresh, applied>>

\* However the job ended, and whatever it found, the settings are applied.
OnGroupDecodeFinished ==
    /\ Handling(LtcGroupDecode, Outcome)
    /\ applied' = IF group_fresh THEN EventWork ELSE applied
    /\ group_fresh' = FALSE
    /\ NoJobs
    /\ UNCHANGED <<listVars, selected, pending, probeVars,
                   ltc_phase, result, ltc_fresh, group>>

EventHandler ==
    \/ OnFolderScanFinished \/ OnClipProbesFinished \/ OnLtcDecodeFinished
    \/ OnGroupClipResult \/ OnGroupDecodeFinished

-----------------------------------------------------------------------------
(* The workers.  Only the decodes look at their cancel flag; only the group *)
(* decode emits items, one per clip, and ends well after the last of them.  *)

MayReport(j, outcome) ==
    /\ outcome = "Cancelled" => kind_of[j] \in {LtcDecode, LtcGroupDecode}
    /\ outcome = "Failed" => kind_of[j] \in Panicking
    /\ outcome = "Succeeded" /\ kind_of[j] = LtcGroupDecode => items[j] = MaxItems

EmitClip(j) ==
    /\ kind_of[j] = LtcGroupDecode
    /\ EmitItem(j)
    /\ UNCHANGED <<dataVars, work>>

EndOfJob(j) ==
    /\ Exit(j) \/ \E outcome \in Outcome : MayReport(j, outcome) /\ Report(j, outcome)
    /\ UNCHANGED <<dataVars, work>>

FlowTick == SyncJobStatuses \/ Housekeeping \/ EventHandler

FlowNext ==
    \/ RecordingCommand \/ FlowTick
    \/ \E j \in JobId : EmitClip(j) \/ EndOfJob(j)

FlowSpec == FlowInit /\ [][FlowNext]_flowVars

\* The engine keeps ticking and every job comes to its end.
FairFlowSpec ==
    /\ FlowSpec
    /\ WF_flowVars(FlowTick)
    /\ \A j \in JobId : WF_flowVars(EmitClip(j) \/ EndOfJob(j))

-----------------------------------------------------------------------------
FlowTypeOK ==
    /\ groups_folder \in Folder \cup {None}
    /\ groups \in {None, groups_folder}
    /\ selected \in Index \cup {None} /\ pending \in Index \cup {None}
    /\ probes \in Recording \cup {None} /\ probes_live \in BOOLEAN
    /\ ltc_phase \in Terminal \cup {"Absent", "Idle", "Running"}
    /\ result \in Recording \cup {None} /\ ltc_fresh \in BOOLEAN
    /\ group \in [of : Recording, done : 0..MaxItems] \cup {None}
    /\ group_fresh \in BOOLEAN
    /\ applied \in Recording \cup {None}
    /\ work \in [JobId -> Folder \cup Recording \cup {None}]

\* Probes are shown only while a recording is selected: choosing a folder
\* makes the probe that is still under way be dropped when it arrives.
ProbesNeedSelection == probes # None => selected # None

\* Clip results of a group decode belong to the recording that is selected,
\* also when an old group decode goes on sending them after the selection.
GroupResultsOfSelection ==
    group # None /\ Selected # None => group.of = Selected

\* A decode result that is shown comes from the decode started last, never
\* from one that a new request has replaced.
ResultFromNewest ==
    result # None => /\ latest_job[LtcDecode] \in settled
                     /\ result = work[latest_job[LtcDecode]]

\* What is shown belongs to what is selected, whichever results arrive late.
ShownFits == ProbesNeedSelection /\ GroupResultsOfSelection /\ ResultFromNewest

\* Once the scan started last is over, its folder is listed, however the
\* scans of several folders overtake each other.
ScannedFolderListed ==
    /\ FolderScan \notin Panicking
    /\ latest_job[FolderScan] \in settled
    => groups = groups_folder

\* The engine drives the supervisor only as JobSupervisor allows.
ImplementsSupervisor == Spec

-----------------------------------------------------------------------------
(* What the documentation says and the code does not keep (README,         *)
(* section 5).                                                             *)

\* The decode result that is shown belongs to the recording that is
\* selected: what is still in flight for the old one is discarded.
ResultOfSelection == result # None /\ Selected # None => result = Selected

\* A selection that waits for a scan is applied when the scan is over.
DeferredSelectionApplied == pending # None ~> pending = None
=============================================================================
