------------------------------- MODULE Offload -------------------------------
(***************************************************************************)
(* Copying the selected files of camera cards (gui-engine/src/offload.rs)  *)
(* and the engine's part in it: the selection, the plan made of it when    *)
(* the copy starts, and the handoff of the folder to the converter when it *)
(* ends (gui-engine/src/engine.rs).  The copy is a job of the supervisor;  *)
(* selections, names and the parent folder may change while it runs.       *)
(*                                                                         *)
(* A file is its place on its card; its name with the suffix " (2)" is the *)
(* pair of the name and 2.  The contents are one value, so a destination   *)
(* holds a source or nothing; the reading of chunks that change nothing is *)
(* left out.  Every call to the file system may fail.                      *)
(***************************************************************************)
EXTENDS JobSupervisor, FiniteSets

CONSTANTS
    OffloadCopy,    \* the member of Kind
    Files,          \* per card, the names of its files in the order of paths
    Empty,          \* the files of size zero
    Device,         \* the device names a card may be given
    Parent,         \* the folders the user may choose to copy into
    None

ASSUME OffloadKindAssumption == Kind = {OffloadCopy}
ASSUME OffloadOutcomeAssumption == {"Succeeded", "Cancelled"} \subseteq Outcome
ASSUME OffloadNoneAssumption == None \notin Parent

Card == 1..Len(Files)
Source == UNION {{<<c, i>> : i \in 1..Len(Files[c])} : c \in Card}
FileName == UNION {{Files[c][i] : i \in 1..Len(Files[c])} : c \in Card}
ASSUME FilesAssumption == Files \in Seq(Seq(FileName))

PlannedName ==
    FileName \cup
    (FileName \X (2..Cardinality(Source)))
Destination == Parent \X Device \X PlannedName

VARIABLES
    parent,         \* parent_folder and parent_name
    device_name,    \* the name of the device of each card
    chosen,         \* the files selected on each card
    plan,           \* what the copy job was given: devices and their items
    dev, item,      \* the device and the item the job is at
    step,           \* where the job is in its loop
    disk,           \* the source whose contents each destination holds
    tmp,            \* the destinations beside which a temporary file lies
    completed,      \* the devices of the plan that are completed
    payload,        \* the device names each job has reported as completed
    last_offload_parent,    \* the folder handed to the converter
    io_error,       \* history: a call to the file system has failed
    late            \* history: files installed after the job was cancelled

userVars == <<parent, device_name, chosen>>
fileVars == <<disk, tmp, io_error, late>>
jobDataVars == <<plan, dev, item, step, completed, payload>>
offloadVars == <<vars, userVars, fileVars, jobDataVars, last_offload_parent>>

OffloadInit ==
    /\ Init
    /\ parent = None /\ last_offload_parent = None
    /\ device_name \in [Card -> Device]
    /\ chosen = [c \in Card |-> 1..Len(Files[c])]
    /\ plan = <<>> /\ dev = 1 /\ item = 1 /\ step = "over"
    /\ disk = [d \in Destination |-> None] /\ tmp = {}
    /\ completed = {}
    /\ payload = [j \in JobId |-> {}]
    /\ io_error = FALSE /\ late = 0

-----------------------------------------------------------------------------
(* Slips a change to the code could make, for the mutation entries of      *)
(* PROJECT.json; nothing below uses them.                                  *)

\* A job that was cancelled reports what it was given as done.
NextFileIgnoringCancel(j) ==
    /\ step = "file"
    /\ IF cancelled[j] \/ \A n \in DOMAIN plan[dev].items : n < item
       THEN /\ completed' = completed \cup {dev}
            /\ dev' = dev + 1 /\ item' = 1 /\ step' = "device"
       ELSE /\ item' \in {n \in DOMAIN plan[dev].items : n >= item}
            /\ step' = "create" /\ UNCHANGED <<completed, dev>>
    /\ UNCHANGED <<fileVars, plan, payload>>

\* At the end of the devices the job does not report.
NextDeviceSilently(j) ==
    /\ step = "device"
    /\ dev <= Len(plan) /\ ~cancelled[j]
    /\ step' = "file" /\ item' = 1
    /\ UNCHANGED <<vars, dev, payload, fileVars, plan, completed>>

-----------------------------------------------------------------------------
(* The plan.                                                               *)

\* The n-th chosen file of a name gets the suffix n; other names are not
\* looked at.
Alike(c, i) == {m \in chosen[c] : m <= i /\ Files[c][m] = Files[c][i]}

resolve_collision(c, i) ==
    IF Alike(c, i) = {i} THEN Files[c][i]
    ELSE <<Files[c][i], Cardinality(Alike(c, i))>>

\* An item per chosen file, in the order of the files.
plan_copies(c) ==
    [i \in chosen[c] |->
        [src |-> <<c, i>>,
         dst |-> <<parent, device_name[c], resolve_collision(c, i)>>]]

build_copy_plan ==
    [c \in Card |-> [device |-> device_name[c], items |-> plan_copies(c)]]

-----------------------------------------------------------------------------
(* Commands.                                                               *)

InCommands == pc = "commands" /\ UNCHANGED <<channel, loopVars>>
NoJobs == UNCHANGED <<jobVars, worker, items>>

\* A bound of the model: what only the next plan reads is left alone once
\* there will be none.
MoreToCome == next_id <= MaxJobs

SetParent(p) ==
    /\ InCommands /\ NoJobs
    /\ parent' = p
    /\ UNCHANGED <<device_name, chosen, fileVars, jobDataVars, last_offload_parent>>

SetDeviceName(c, name) ==
    /\ InCommands /\ NoJobs /\ MoreToCome
    /\ device_name' = [device_name EXCEPT ![c] = name]
    /\ UNCHANGED <<parent, chosen, fileVars, jobDataVars, last_offload_parent>>

\* One file, all files or those of the latest day.
SelectFiles(c, files) ==
    /\ InCommands /\ NoJobs /\ MoreToCome
    /\ chosen' = [chosen EXCEPT ![c] = files]
    /\ UNCHANGED <<parent, device_name, fileVars, jobDataVars, last_offload_parent>>

\* Refused while a job is listed, without a folder, without a file.
StartOffload ==
    /\ InCommands
    /\ ~IsRunning(OffloadCopy)
    /\ parent # None
    /\ \E c \in Card : chosen[c] # {}
    /\ CancelAndSpawn({}, OffloadCopy)
    /\ plan' = build_copy_plan
    /\ dev' = 1 /\ item' = 1 /\ step' = "start"
    /\ completed' = {}
    /\ late' = 0
    /\ UNCHANGED <<userVars, disk, tmp, io_error, payload, last_offload_parent>>

CancelOffload ==
    /\ InCommands
    /\ Cancel({OffloadCopy})
    /\ UNCHANGED <<userVars, fileVars, jobDataVars, last_offload_parent>>

OffloadCommand ==
    \/ \E p \in Parent : SetParent(p)
    \/ \E c \in Card, name \in Device : SetDeviceName(c, name)
    \/ \E c \in Card : \E files \in SUBSET (1..Len(Files[c])) : SelectFiles(c, files)
    \/ StartOffload \/ CancelOffload

-----------------------------------------------------------------------------
(* The copy job, one device after the other, one file after the other.     *)

CancelSeen(j) == cancelled[j]

Item == plan[dev].items[item]

\* The items of the device the job has not come to.
Ahead == {n \in DOMAIN plan[dev].items : n >= item}

\* The device is given up; whether the loop goes on is seen at its top.
Abandon == dev' = dev + 1 /\ item' = 1 /\ step' = "device"

\* Whatever was completed is reported as a success, cancelled or not.
ReportCompleted(j) ==
    /\ Report(j, "Succeeded")
    /\ payload' = [payload EXCEPT ![j] = {plan[d].device : d \in completed}]
    /\ step' = "over"

\* Only a job that finds its flag set at the very start reports Cancelled;
\* a plan without a byte to copy is not carried out.
StartJob(j) ==
    /\ step = "start"
    /\ \/ /\ cancelled[j]
          /\ Report(j, "Cancelled")
          /\ step' = "over" /\ UNCHANGED payload
       \/ /\ ~cancelled[j]
          /\ \A d \in Card : \A n \in DOMAIN plan[d].items : plan[d].items[n].src \in Empty
          /\ ReportCompleted(j)
       \/ /\ ~cancelled[j]
          /\ \E d \in Card : \E n \in DOMAIN plan[d].items : plan[d].items[n].src \notin Empty
          /\ step' = "device"
          /\ UNCHANGED <<vars, payload>>
    /\ UNCHANGED <<fileVars, plan, dev, item, completed>>

NextDevice(j) ==
    /\ step = "device"
    /\ \/ /\ dev > Len(plan) \/ cancelled[j]
          /\ ReportCompleted(j)
          /\ UNCHANGED <<dev, item, io_error>>
       \/ /\ dev <= Len(plan) /\ ~cancelled[j]
          /\ step' = "file" /\ item' = 1
          /\ UNCHANGED <<vars, dev, payload, io_error>>
       \/ \* its directory cannot be created
          /\ dev <= Len(plan) /\ ~cancelled[j]
          /\ Abandon /\ io_error' = TRUE
          /\ UNCHANGED <<vars, payload>>
    /\ UNCHANGED <<disk, tmp, late, plan, completed>>

NextFile(j) ==
    /\ step = "file"
    /\ \/ /\ Ahead = {}
          /\ completed' = completed \cup {dev}
          /\ dev' = dev + 1 /\ item' = 1 /\ step' = "device"
       \/ /\ Ahead # {} /\ CancelSeen(j)
          /\ Abandon /\ UNCHANGED completed
       \/ /\ ~CancelSeen(j)
          /\ item' \in Ahead /\ \A n \in Ahead : item' <= n
          /\ step' = "create" /\ UNCHANGED <<completed, dev>>
    /\ UNCHANGED <<fileVars, plan, payload>>

CreateTmp ==
    /\ step = "create"
    /\ \/ tmp' = tmp \cup {Item.dst} /\ step' = "chunk" /\ UNCHANGED <<io_error, dev, item>>
       \/ Abandon /\ io_error' = TRUE /\ UNCHANGED tmp
    /\ UNCHANGED <<disk, late, plan, completed, payload>>

\* Cancelled, the temporary file is removed; after an error it stays.
CopyChunks(j) ==
    /\ step = "chunk"
    /\ \/ CancelSeen(j) /\ Abandon /\ tmp' = tmp \ {Item.dst} /\ UNCHANGED io_error
       \/ ~CancelSeen(j) /\ Abandon /\ io_error' = TRUE /\ UNCHANGED tmp
       \/ ~CancelSeen(j) /\ step' = "install" /\ UNCHANGED <<tmp, io_error, dev, item>>
    /\ UNCHANGED <<disk, late, plan, completed, payload>>

\* The rename replaces whatever the destination held.
InstallFile(j) ==
    /\ step = "install"
    /\ \/ /\ disk' = [disk EXCEPT ![Item.dst] = Item.src]
          /\ tmp' = tmp \ {Item.dst}
          /\ late' = IF cancelled[j] THEN late + 1 ELSE late
          /\ step' = "verify"
          /\ UNCHANGED <<io_error, dev, item>>
       \/ Abandon /\ io_error' = TRUE /\ UNCHANGED <<disk, tmp, late>>
    /\ UNCHANGED <<plan, completed, payload>>

\* By size; the source may be gone by then, the installed file stays.
VerifyCopy ==
    /\ step = "verify"
    /\ \/ item' = item + 1 /\ step' = "file" /\ UNCHANGED <<dev, io_error>>
       \/ Abandon /\ io_error' = TRUE
    /\ UNCHANGED <<disk, tmp, late, plan, completed, payload>>

CopyStep(j) ==
    /\ worker[j] = "running"
    /\ \/ StartJob(j) \/ NextDevice(j)
       \/ /\ NextFile(j) \/ CreateTmp \/ CopyChunks(j) \/ InstallFile(j) \/ VerifyCopy
          /\ UNCHANGED vars
    /\ UNCHANGED <<userVars, last_offload_parent>>

EndOfThread(j) ==
    /\ Exit(j)
    /\ UNCHANGED <<userVars, fileVars, jobDataVars, last_offload_parent>>

-----------------------------------------------------------------------------
(* The tick.                                                               *)

\* With a device completed the folder chosen by now is handed over; a job
\* that reported Cancelled carries nothing.
OnOffloadCopyFinished ==
    /\ TakeEvent
    /\ ~IsStale(Head(events_buffer))
    /\ last_offload_parent' = IF payload[Head(events_buffer).job] # {} THEN parent
                              ELSE last_offload_parent
    /\ NoJobs
    /\ UNCHANGED <<userVars, fileVars, jobDataVars>>

OffloadTick ==
    \/ OnOffloadCopyFinished
    \/ /\ Poll \/ ReapOne \/ Drain \/ DiscardStale \/ EndTick
       /\ UNCHANGED <<userVars, fileVars, jobDataVars, last_offload_parent>>

OffloadNext ==
    \/ OffloadCommand \/ OffloadTick
    \/ \E j \in JobId : CopyStep(j) \/ EndOfThread(j)

\* The engine keeps ticking and the copy is scheduled; calls to the file
\* system return, with or without success.
OffloadSpec ==
    /\ OffloadInit /\ [][OffloadNext]_offloadVars
    /\ WF_offloadVars(OffloadTick)
    /\ \A j \in JobId : WF_offloadVars(CopyStep(j) \/ EndOfThread(j))

-----------------------------------------------------------------------------
Copying == step \in {"chunk", "install"}

OffloadTypeOK ==
    /\ parent \in Parent \cup {None} /\ last_offload_parent \in Parent \cup {None}
    /\ device_name \in [Card -> Device]
    /\ \A c \in Card : chosen[c] \subseteq 1..Len(Files[c])
    /\ Len(plan) \in {0, Len(Files)}
    /\ step \in {"start", "device", "file", "create", "chunk", "install", "verify", "over"}
    /\ dev \in 1..(Len(Files) + 1)
    /\ step \in {"create", "chunk", "install", "verify"} =>
            item \in DOMAIN plan[dev].items /\ Item.dst \in Destination
    /\ disk \in [Destination -> Source \cup {None}]
    /\ tmp \subseteq Destination
    /\ completed \subseteq Card
    /\ payload \in [JobId -> SUBSET Device]

DistinctDevices ==
    \A c, d \in Card : plan # <<>> /\ plan[c].device = plan[d].device => c = d

\* A device that is reported as completed has all its selected files at their
\* destinations, provided that no two cards were given the same device name.
\* Errors, a cancel and files of the same name in different directories of a
\* card do not make the report untrue; a file that is already named as the
\* suffix would name another can (README, section 5, 21).
CompletedIsDelivered ==
    DistinctDevices =>
        \A d \in completed : \A n \in DOMAIN plan[d].items :
            disk[plan[d].items[n].dst] = plan[d].items[n].src

\* A temporary file outlives the copying of its file only after an error,
\* never because the copy was cancelled.
TmpOnlyAfterError == tmp # {} /\ ~io_error => Copying /\ tmp = {Item.dst}

\* Once it was told to stop, a copy job installs at most the file whose last
\* chunk it has read already.
CancelIsPrompt == late <= 1

\* The copy job is a worker as the supervisor expects it, and always ends.
OffloadImplementsSupervisor == FairSpec

-----------------------------------------------------------------------------
(* What the documentation says and the code does not keep (README,         *)
(* section 5).                                                             *)

\* The folder handed to the converter has received files.
HandoffHasFiles ==
    last_offload_parent # None =>
        \E d \in Destination : d[1] = last_offload_parent /\ disk[d] # None
=============================================================================
