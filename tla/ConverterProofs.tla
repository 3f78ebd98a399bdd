------------------------------ MODULE ConverterProofs ------------------------------
(***************************************************************************)
(* Theorems about the converter: its child processes (Subprocess), none of *)
(* which is left behind and whose lines reach it as far as they are read;  *)
(* its run (Conversion), which reports what is broken, stops when it is    *)
(* told to, uses one encoder, writes what was listed and nothing that      *)
(* carries the timecode; and what it does in place (Tagging), which loses  *)
(* no file and reports what it has harmed.  For any plan, settings, layout of the clips, chain *)
(* of encoders, number of lines, limits, clips and names.                  *)
(***************************************************************************)
EXTENDS Subprocess, Conversion, Tagging, FiniteSetTheorems, SequenceTheorems,
        WellFoundedInduction, TLAPS

-----------------------------------------------------------------------------
(* Child processes.                                                        *)

Results == {"Ok", "Exit", "Spawn", "Cancelled", "Stalled", "TimedOut", "Wait"}

CallTypes ==
    /\ call \in {"watch", "output", "wait"}
    /\ child \in {"none", "running", "exited", "reaped"}
    /\ sent \in Nat /\ taken \in Nat /\ delivered \in Nat
    /\ reader \in {"none", "checking", "reading", "ended"}
    /\ readFailed \in BOOLEAN
    /\ at \in {"spawn", "check", "receive", "await", "poll", "join", "returned"}
    /\ pending \in Results \cup {NotYet}
    /\ result \in Results \cup {NotYet}

\* Which call is where, and what it knows of the child there.
PlaceInv ==
    /\ result # NotYet <=> at = "returned"
    /\ child = "none" <=> at = "spawn" \/ result = "Spawn"
    /\ at \in {"check", "receive", "await"} => call = "watch"
    /\ at \in {"poll", "join"} => call # "watch"
    /\ at = "join" => pending \in {"Ok", "TimedOut", "Wait"} /\ (child = "reaped" \/ waitFailed)
    /\ at = "spawn" => reader = "none"

\* Lines are not made by anybody but the child, which cannot write once it
\* is dead or has closed its pipe.  A reader whose reads succeed ends only
\* then.
LinesInv ==
    /\ delivered <= taken /\ taken <= sent
    /\ pipeOpen => child = "running"
    /\ readFailed => reader = "ended"
    /\ call = "watch" /\ reader = "ended" /\ result = NotYet =>
            readFailed \/ (taken = sent /\ ~pipeOpen)

\* A caller that waits for the exit has received everything that was read,
\* and nothing more is read.
WaitInv ==
    /\ at = "await" => reader = "ended" /\ delivered = taken
    /\ call = "watch" /\ result \in {"Ok", "Exit"} =>
            delivered = taken /\ (readFailed \/ (taken = sent /\ ~pipeOpen))

CallInv == CallTypes /\ PlaceInv /\ LinesInv /\ WaitInv /\ NoOrphan

-----------------------------------------------------------------------------
LEMMA CallInvInit == CallInit => CallInv
<1> SUFFICES ASSUME CallInit PROVE CallInv
  OBVIOUS
<1>1. NotYet \notin Results
  BY SubprocessAssumption DEF Results
<1>2. CallTypes
  BY SubprocessAssumption DEF CallInit, CallTypes
<1>3. PlaceInv
  BY DEF CallInit, PlaceInv
<1>4. LinesInv
  BY DEF CallInit, LinesInv
<1>5. WaitInv /\ NoOrphan
  BY <1>1 DEF CallInit, WaitInv, NoOrphan, Results
<1> QED BY <1>2, <1>3, <1>4, <1>5 DEF CallInv

\* The child can do nothing but write, close its pipe and exit, and after a
\* call has returned it is not there to do so.
LEMMA ChildKeeps ==
    ASSUME CallInv, ChildWrites \/ ChildClosesPipe \/ ChildExits
    PROVE  CallInv'
<1> USE DEF CallInv, CallTypes, PlaceInv, LinesInv, WaitInv, NoOrphan,
        readerVars, callVars
<1>1. CASE ChildWrites
  BY <1>1 DEF ChildWrites
<1>2. CASE ChildClosesPipe
  BY <1>2 DEF ChildClosesPipe
<1>3. CASE ChildExits
  BY <1>3 DEF ChildExits
<1> QED BY <1>1, <1>2, <1>3

\* The reader of "watch" ends while the call goes on only when the pipe is
\* closed and empty, or a read has failed.
LEMMA ReaderKeeps ==
    ASSUME CallInv, Reader \/ ReaderFails
    PROVE  CallInv'
<1> USE DEF CallInv, CallTypes, PlaceInv, LinesInv, WaitInv, NoOrphan,
        childVars, callVars
<1>1. CASE ReaderChecks
  BY <1>1 DEF ReaderChecks
<1>2. CASE ReaderReads
  BY <1>2 DEF ReaderReads
<1>3. CASE ReaderAtEnd
  BY <1>3 DEF ReaderAtEnd
<1>4. CASE ReaderFails
  BY <1>4 DEF ReaderFails
<1> QED BY <1>1, <1>2, <1>3, <1>4 DEF Reader

\* The caller returns from where it has waited for the child or was refused.
LEMMA CallerKeeps ==
    ASSUME CallInv, Caller
    PROVE  CallInv'
<1> USE SubprocessAssumption DEF CallInv, CallTypes, PlaceInv, LinesInv, WaitInv, NoOrphan, Results,
        childVars, readerVars, GoTo, Return, Killed, TryWaitFails
<1>1. CASE Spawn
  BY <1>1 DEF Spawn
<1>2. CASE CheckCancel
  BY <1>2 DEF CheckCancel
<1>3. CASE ReceiveLine
  BY <1>3 DEF ReceiveLine
<1>4. CASE Disconnect
  BY <1>4 DEF Disconnect, Disconnected
<1>5. CASE ReceiveNothing
  BY <1>5 DEF ReceiveNothing
<1>6. CASE KillOnStall
  BY <1>6 DEF KillOnStall
<1>7. CASE AwaitExit
  BY <1>7 DEF AwaitExit, AwaitRound
<1>8. CASE Poll
  BY <1>8 DEF Poll, Settle
<1>9. CASE JoinOutput
  BY <1>9 DEF JoinOutput
<1> QED BY <1>1, <1>2, <1>3, <1>4, <1>5, <1>6, <1>7, <1>8, <1>9 DEF Caller

LEMMA CallInvNext == CallInv /\ [CallNext]_subprocessVars => CallInv'
<1> SUFFICES ASSUME CallInv, [CallNext]_subprocessVars PROVE CallInv'
  OBVIOUS
<1>1. CASE CancelCall
  BY <1>1 DEF CancelCall, CallInv, CallTypes, PlaceInv, LinesInv, WaitInv, NoOrphan,
      childVars, readerVars, callVars
<1>2. CASE UNCHANGED subprocessVars
  BY <1>2 DEF subprocessVars, CallInv, CallTypes, PlaceInv, LinesInv, WaitInv, NoOrphan,
      childVars, readerVars, callVars
<1> QED BY <1>1, <1>2, ChildKeeps, ReaderKeeps, CallerKeeps DEF CallNext

LEMMA CallInvAlways == CallSpec => []CallInv
BY CallInvInit, CallInvNext, PTL DEF CallSpec

\* Whatever the child does and whenever the call gives up, a child it has
\* started is dead and waited for when it returns, unless the operating
\* system would not tell of it.
THEOREM NoOrphanEver == CallSpec => []NoOrphan
<1>1. CallInv => NoOrphan
  BY DEF CallInv
<1> QED BY <1>1, CallInvAlways, PTL

\* The exit of ffmpeg does not overtake its last lines, however full the
\* pipe and however slow the reader: a caller that is told of the exit has
\* seen every line that was read, which is every line unless a read has
\* failed.
THEOREM LinesAlwaysDelivered == CallSpec => []LinesDelivered
<1>1. CallInv => LinesDelivered
  BY DEF CallInv, WaitInv, LinesDelivered
<1> QED BY <1>1, CallInvAlways, PTL

-----------------------------------------------------------------------------
(* The steps of a task.  (That a call ends, CallEnds and the fairness of    *)
(* Task, is left to TLC.)                                                  *)

\* What Return does is what a task does when it ends.
LEMMA ReturnIsEnd ==
    ASSUME NEW r \in Results, r = "Cancelled" => asked, Return(r), UNCHANGED asked, result = NotYet
    PROVE  Call!End
BY DEF Return, Call!End, Results

LEMMA CallerIsTask ==
    ASSUME CallInv, Caller
    PROVE  Call!End \/ UNCHANGED <<asked, result>>
<1>1. at # "returned" => result = NotYet
  BY DEF CallInv, PlaceInv
<1> USE <1>1, ReturnIsEnd DEF Results
<1>2. CASE Spawn
  BY <1>2 DEF Spawn, GoTo
<1>3. CASE CheckCancel
  BY <1>3 DEF CheckCancel, GoTo
<1>4. CASE ReceiveLine \/ Disconnect \/ ReceiveNothing
  BY <1>4 DEF ReceiveLine, Disconnect, ReceiveNothing, GoTo
<1>5. CASE KillOnStall
  BY <1>5 DEF KillOnStall, GoTo
<1>6. CASE AwaitExit
  BY <1>6 DEF AwaitExit, AwaitRound, GoTo
<1>7. CASE Poll
  BY <1>7 DEF Poll, Settle, GoTo
<1>8. CASE JoinOutput
  BY <1>8 DEF JoinOutput, CallInv, CallTypes, PlaceInv
<1> QED BY <1>2, <1>3, <1>4, <1>5, <1>6, <1>7, <1>8 DEF Caller

\* A call ends once, and as cancelled only if somebody asked for it.
THEOREM CallTakesTaskSteps == CallSpec => Call!TaskInit /\ [][Call!TaskNext]_(Call!taskVars)
<1>1. CallInit => Call!TaskInit
  BY DEF CallInit, Call!TaskInit
<1>2. CallInv /\ [CallNext]_subprocessVars => [Call!TaskNext]_(Call!taskVars)
  <2> SUFFICES ASSUME CallInv, [CallNext]_subprocessVars
               PROVE  [Call!TaskNext]_(Call!taskVars)
    OBVIOUS
  <2> USE DEF Call!TaskNext, Call!taskVars
  <2>1. CASE ChildWrites \/ ChildClosesPipe \/ ChildExits
    BY <2>1 DEF ChildWrites, ChildClosesPipe, ChildExits, callVars
  <2>2. CASE Reader \/ ReaderFails
    BY <2>2 DEF Reader, ReaderChecks, ReaderReads, ReaderAtEnd, ReaderFails, callVars
  <2>3. CASE Caller
    BY <2>3, CallerIsTask
  <2>4. CASE CancelCall
    BY <2>4 DEF CancelCall, Call!Ask, callVars
  <2>5. CASE UNCHANGED subprocessVars
    BY <2>5 DEF subprocessVars, callVars
  <2> QED BY <2>1, <2>2, <2>3, <2>4, <2>5 DEF CallNext
<1> QED BY <1>1, <1>2, CallInvAlways, PTL DEF CallSpec

-----------------------------------------------------------------------------
(* A run of the conversion: what is left of an output is reported.         *)


\* The ledger and the files are what they are written to be.
Recorded ==
    /\ ledger = [attempted |-> ledger.attempted, succeeded |-> ledger.succeeded,
                 failed |-> ledger.failed]
    /\ disk = [o \in DOMAIN disk |-> disk[o]]
    /\ failed \in BOOLEAN /\ cancelled \in BOOLEAN

\* Until the run has failed, all parts of an output are in the ledger.
Reported == failed \/ Partial \subseteq ledger.failed

\* The result is there at the end, and says what became of the run.
Ended ==
    /\ outcome # None <=> pc = "done"
    /\ outcome \in {None, "Succeeded", "Failed", "Cancelled"}
    /\ outcome # None => (outcome = "Failed" <=> failed)
    /\ outcome = "Cancelled" => cancelled

RunInv == Recorded /\ Reported /\ Ended

LEMMA RunInit == Init => RunInv
<1> SUFFICES ASSUME Init PROVE RunInv
  OBVIOUS
<1>1. DOMAIN disk = {} /\ disk = [o \in DOMAIN disk |-> disk[o]]
  BY DEF Init
<1>2. pc # "done"
  BY DEF Init
<1> QED
  BY <1>1, <1>2, ConversionAssumption DEF Init, RunInv, Recorded, Reported, Partial, Ended

\* A step that leaves the files alone and takes nothing off the list of
\* failures, and does not end the run.
LEMMA RunGoesOn ==
    ASSUME RunInv, disk' = disk, outcome' = outcome, cancelled' = cancelled,
           pc # "done", pc' # "done",
           failed' = failed \/ failed' = TRUE,
           ledger' = [attempted |-> ledger'.attempted, succeeded |-> ledger'.succeeded,
                      failed |-> ledger'.failed],
           ledger.failed \subseteq ledger'.failed
    PROVE  RunInv'
BY DEF RunInv, Recorded, Reported, Partial, Ended

\* The file of a step is set: no other becomes a part.
LEMMA SetFileDisk ==
    ASSUME Recorded, NEW state, state # "whole" \/ state = FileState, SetFile(state)
    PROVE  /\ disk' = [o \in DOMAIN disk' |-> disk'[o]]
           /\ Partial' \subseteq Partial \cup {Out}
           /\ state # "partial" => Out \notin Partial'
<1>1. CASE state = "absent"
  BY <1>1 DEF SetFile, Recorded, Partial
<1>2. CASE state # "absent" /\ state = FileState
  BY <1>2 DEF SetFile, FileState, Recorded, Partial
<1>3. CASE state # "absent" /\ state # FileState
  <2>1. WriteOut(state)
    BY <1>3 DEF SetFile
  <2>2. /\ DOMAIN disk' = DOMAIN disk \cup {Out}
        /\ disk' = [o \in DOMAIN disk' |-> disk'[o]]
        /\ \A o \in DOMAIN disk : o # Out => disk'[o] = disk[o]
        /\ disk'[Out].state = state
    BY <2>1 DEF WriteOut
  <2> QED
    BY <1>3, <2>2 DEF Partial
<1> QED
  BY <1>1, <1>2, <1>3

\* What becomes of a step that has failed, with the file it leaves.
LEMMA FailedStep ==
    ASSUME RunInv, NEW kind, StepFails(kind), pc # "done",
           disk' = [o \in DOMAIN disk' |-> disk'[o]], cancelled' = cancelled,
           Partial' \subseteq Partial \cup {Out},
           kind = "init" => Out \notin Partial'
    PROVE  RunInv'
<1>1. CASE Policy(Head(steps)) = "ledger"
  <2>1. /\ Enter(0, {Out})
        /\ pc' = "step" /\ failed' = failed /\ outcome' = outcome
    BY <1>1 DEF StepFails, Goto, endVars, Out
  <2>2. /\ ledger' = [attempted |-> ledger'.attempted, succeeded |-> ledger'.succeeded,
                      failed |-> ledger'.failed]
        /\ ledger'.failed = ledger.failed \cup {Out}
    BY <2>1 DEF Enter
  <2> QED
    BY <2>1, <2>2 DEF RunInv, Recorded, Reported, Ended
<1>2. CASE Policy(Head(steps)) # "ledger" /\ Policy(Head(steps)) = "fallback" /\ kind = "init"
  <2>1. pc' = "encoder" /\ UNCHANGED <<failed, outcome, ledger>>
    BY <1>2 DEF StepFails, Goto, GiveUpCandidate, endVars, tagVars
  <2> QED
    BY <1>2, <2>1 DEF RunInv, Recorded, Reported, Ended
<1>3. CASE Policy(Head(steps)) # "ledger" /\ ~(Policy(Head(steps)) = "fallback" /\ kind = "init")
  <2>1. pc' = "finish" /\ failed' = TRUE /\ outcome' = outcome /\ ledger' = ledger
    BY <1>3 DEF StepFails, Stop, tagVars
  <2> QED
    BY <2>1 DEF RunInv, Recorded, Reported, Ended
<1> QED
  BY <1>1, <1>2, <1>3

LEMMA RunNext == RunInv /\ [Next]_vars => RunInv'
<1> SUFFICES ASSUME RunInv, [Next]_vars PROVE RunInv'
  OBVIOUS
<1> USE DEF Goto, endVars, tagVars, encoderVars, planVars
<1>0. /\ failed \in BOOLEAN
      /\ ledger = [attempted |-> ledger.attempted, succeeded |-> ledger.succeeded,
                   failed |-> ledger.failed]
  BY DEF RunInv, Recorded
<1>1. CASE ProbeClip
  <2>2. /\ ledger' = [attempted |-> ledger'.attempted, succeeded |-> ledger'.succeeded,
                      failed |-> ledger'.failed]
        /\ ledger.failed \subseteq ledger'.failed
    BY <1>0, <1>1 DEF ProbeClip, Enter
  <2>3. pc = "probe" /\ UNCHANGED <<disk, outcome, cancelled, pc, failed>>
    BY <1>1 DEF ProbeClip
  <2> QED
    BY <2>2, <2>3, RunGoesOn
<1>2. CASE ProbingEnds \/ Plan \/ StepsCancelled \/ SkipStep \/ BeginStep \/ StepsDone
           \/ NextCandidate \/ SkipCandidate \/ NextTag \/ SummarizeMetadataFailures
  <2>1. /\ pc # "done" /\ pc' # "done" /\ UNCHANGED <<disk, outcome, cancelled, ledger>>
        /\ failed' = failed \/ failed' = TRUE
    BY <1>0, <1>2
       DEF ProbingEnds, Plan, StepsCancelled, SkipStep, BeginStep, StepsDone, NextCandidate,
           SkipCandidate, GiveUpCandidate, NextTag, SummarizeMetadataFailures, Stop
  <2> QED
    BY <1>0, <2>1, RunGoesOn
<1>3. CASE StartFfmpeg \/ SpawnFfmpeg
  <2>1. pc # "done" /\ UNCHANGED <<disk, cancelled>>
    BY <1>3 DEF StartFfmpeg, SpawnFfmpeg
  <2>2. CASE StepFails("fatal")
    <3>1. disk' = [o \in DOMAIN disk' |-> disk'[o]] /\ Partial' = Partial
      BY <2>1 DEF RunInv, Recorded, Partial
    <3> QED
      BY <2>1, <2>2, <3>1, FailedStep
  <2>3. CASE ~StepFails("fatal")
    <3>1. pc' # "done" /\ UNCHANGED <<outcome, ledger, failed>>
      BY <1>3, <2>3 DEF StartFfmpeg, SpawnFfmpeg
    <3> QED
      BY <1>0, <2>1, <3>1, RunGoesOn
  <2> QED
    BY <2>2, <2>3
<1>4. CASE FfmpegSucceeds
  <2>1. /\ WriteOut("whole")
        /\ pc = "running" /\ pc' = "step" /\ UNCHANGED <<failed, outcome, cancelled>>
    BY <1>4 DEF FfmpegSucceeds, StepSucceeds
  <2>2. /\ ledger' = [attempted |-> ledger'.attempted, succeeded |-> ledger'.succeeded,
                      failed |-> ledger'.failed]
        /\ ledger.failed \subseteq ledger'.failed
    BY <1>0, <1>4 DEF FfmpegSucceeds, StepSucceeds, Enter
  <2>3. /\ DOMAIN disk' = DOMAIN disk \cup {Out}
        /\ disk' = [o \in DOMAIN disk' |-> disk'[o]]
        /\ \A o \in DOMAIN disk : o # Out => disk'[o] = disk[o]
        /\ disk'[Out].state = "whole"
    BY <2>1 DEF WriteOut
  <2>4. Partial' \subseteq Partial
    BY <2>1, <2>3 DEF Partial
  <2> QED
    BY <2>1, <2>2, <2>3, <2>4 DEF RunInv, Recorded, Reported, Ended
<1>5. CASE FfmpegExits
  <2>0. PICK f \in Leavings, reported \in BOOLEAN, large \in BOOLEAN :
          /\ \E state \in FileAfterExit(f, ProducedOutput(f, reported, large)) : SetFile(state)
          /\ StepFails(IF ProducedOutput(f, reported, large) THEN "fatal" ELSE "init")
    BY <1>5 DEF FfmpegExits
  <2>1. PICK state \in FileAfterExit(f, ProducedOutput(f, reported, large)) : SetFile(state)
    BY <2>0
  <2> DEFINE kind == IF ProducedOutput(f, reported, large) THEN "fatal" ELSE "init"
  <2>2. /\ state # "whole" \/ state = FileState
        /\ kind = "init" => state # "partial"
    BY <2>1 DEF Leavings, FileAfterExit
  <2>3. SetFile(state) /\ StepFails(kind) /\ pc # "done" /\ cancelled' = cancelled
    BY <1>5, <2>0, <2>1 DEF FfmpegExits
  <2> HIDE DEF kind
  <2> QED
    BY <2>2, <2>3, SetFileDisk, FailedStep DEF RunInv
<1>6. CASE FfmpegKilled \/ FfmpegStalls
  <2>1. PICK f \in Leavings : SetFile(f)
    BY <1>6 DEF FfmpegKilled, FfmpegStalls
  <2>2. f # "whole" \/ f = FileState
    BY DEF Leavings
  <2>3. StepFails("fatal") /\ pc # "done" /\ cancelled' = cancelled
    BY <1>6 DEF FfmpegKilled, FfmpegStalls
  <2> QED
    BY <2>1, <2>2, <2>3, SetFileDisk, FailedStep DEF RunInv
<1>7. CASE TagAndRename
  <2>2. /\ ledger' = [attempted |-> ledger'.attempted, succeeded |-> ledger'.succeeded,
                      failed |-> ledger'.failed]
        /\ ledger.failed \subseteq ledger'.failed
    BY <1>0, <1>7 DEF TagAndRename, Enter
  <2>3. pc # "done" /\ pc' # "done" /\ UNCHANGED <<disk, outcome, cancelled, failed>>
    BY <1>7 DEF TagAndRename
  <2> QED
    BY <2>2, <2>3, RunGoesOn
<1>8. CASE Finish
  <2>1. /\ pc = "finish" /\ pc' = "done" /\ UNCHANGED <<disk, ledger, cancelled, failed>>
        /\ outcome' = IF failed THEN "Failed" ELSE IF cancelled THEN "Cancelled" ELSE "Succeeded"
    BY <1>8 DEF Finish
  <2> QED
    BY <1>0, <2>1, ConversionAssumption DEF RunInv, Recorded, Reported, Partial, Ended
<1>9. CASE Cancel
  BY <1>9 DEF Cancel, RunInv, Recorded, Reported, Partial, Ended
<1>10. CASE UNCHANGED vars
  BY <1>10 DEF vars, RunInv, Recorded, Reported, Partial, Ended
<1> QED
  BY <1>1, <1>2, <1>3, <1>4, <1>5, <1>6, <1>7, <1>8, <1>9, <1>10
     DEF Next, JobStep, FfmpegEnds

LEMMA RunInvAlways == Spec => []RunInv
BY RunInit, RunNext, PTL DEF Spec

\* A run that does not end as failed has every part of an output, of a step
\* that failed or was killed, in its ledger (process.rs removes what an
\* encoder that did not start has left, or at least tries to; the ledger
\* names the others).
THEOREM BrokenAlwaysReported == Spec => []PartialIsReported
<1>1. RunInv => PartialIsReported
  BY ConversionAssumption DEF RunInv, Reported, Ended, PartialIsReported
<1> QED
  BY <1>1, RunInvAlways, PTL

-----------------------------------------------------------------------------
(* The steps of a task.                                                    *)

LEMMA RunTakesTaskStep == RunInv /\ [Next]_vars => [Body!TaskNext]_(Body!taskVars)
<1> SUFFICES ASSUME RunInv, [Next]_vars PROVE [Body!TaskNext]_(Body!taskVars)
  OBVIOUS
<1> USE DEF Body!TaskNext, Body!taskVars
<1>1. CASE Finish
  <2>1. outcome = None
    BY <1>1 DEF Finish, RunInv, Ended
  <2> QED
    BY <1>1, <2>1 DEF Finish, Body!End
<1>2. CASE Cancel
  BY <1>2 DEF Cancel, Body!Ask, endVars
<1>3. CASE UNCHANGED vars
  BY <1>3 DEF vars, endVars
<1>4. ASSUME NEW kind, StepFails(kind) PROVE UNCHANGED outcome
  BY <1>4 DEF StepFails, Goto, Stop, endVars
<1>5. CASE Next /\ ~Finish /\ ~Cancel
  BY <1>4, <1>5
     DEF Next, JobStep, FfmpegEnds, ProbeClip, ProbingEnds, Plan, StepsCancelled, SkipStep,
         BeginStep, StepsDone, NextCandidate, SkipCandidate, StartFfmpeg, SpawnFfmpeg, NextTag,
         TagAndRename, SummarizeMetadataFailures, FfmpegSucceeds, StepSucceeds, FfmpegExits,
         FfmpegKilled, FfmpegStalls, Goto, Stop, endVars
<1> QED
  BY <1>1, <1>2, <1>3, <1>5

\* The safety half of ConversionIsTask: every step of the run is a step of
\* the task that the job supervisor runs, or none of its business.  A run
\* ends once, and as cancelled only if its flag was set.
THEOREM RunTakesTaskSteps == Spec => Body!TaskInit /\ [][Body!TaskNext]_(Body!taskVars)
<1>1. Init => Body!TaskInit
  BY DEF Init, Body!TaskInit
<1> QED
  BY <1>1, RunTakesTaskStep, RunInvAlways, PTL DEF Spec

-----------------------------------------------------------------------------
(* A cancelled run begins at most the call it has decided upon.            *)

\* No call was begun late when another is decided upon.
PromptInv ==
    /\ late \in {0, 1}
    /\ ~cancelled => late = 0
    /\ pc \in {"spawn", "tagging"} => late = 0

LEMMA PromptNext == PromptInv /\ [Next]_vars => PromptInv'
<1> SUFFICES ASSUME PromptInv, [Next]_vars PROVE PromptInv'
  OBVIOUS
<1>1. CASE SpawnFfmpeg \/ TagAndRename
  <2>1. late = 0 /\ late' = Late /\ cancelled' = cancelled
    BY <1>1 DEF SpawnFfmpeg, TagAndRename, PromptInv
  <2>2. pc' \notin {"spawn", "tagging"}
    BY <1>1 DEF SpawnFfmpeg, TagAndRename, StepFails, Goto, Stop
  <2> QED
    BY <2>1, <2>2 DEF Late, PromptInv
<1>2. CASE UNCHANGED vars
  BY <1>2 DEF vars, PromptInv
<1>3. CASE Next /\ ~SpawnFfmpeg /\ ~TagAndRename
  <2>1. late' = late
    BY <1>3
       DEF Next, JobStep, FfmpegEnds, ProbeClip, ProbingEnds, Plan, StepsCancelled, SkipStep,
           BeginStep, StepsDone, NextCandidate, SkipCandidate, StartFfmpeg, NextTag,
           SummarizeMetadataFailures, FfmpegSucceeds, FfmpegExits, FfmpegKilled, FfmpegStalls,
           Finish, Cancel
  <2>3. cancelled' = cancelled \/ cancelled' = TRUE
    BY <1>3
       DEF Next, JobStep, FfmpegEnds, ProbeClip, ProbingEnds, Plan, StepsCancelled, SkipStep,
           BeginStep, StepsDone, NextCandidate, SkipCandidate, StartFfmpeg, NextTag,
           SummarizeMetadataFailures, FfmpegSucceeds, FfmpegExits, FfmpegKilled, FfmpegStalls,
           Finish, Cancel
  <2>2. ASSUME pc' \in {"spawn", "tagging"} PROVE ~cancelled \/ pc' = pc
    BY <1>3, <2>2
       DEF Next, JobStep, FfmpegEnds, ProbeClip, ProbingEnds, Plan, StepsCancelled, SkipStep,
           BeginStep, StepsDone, NextCandidate, SkipCandidate, StartFfmpeg, NextTag,
           SummarizeMetadataFailures, FfmpegSucceeds, FfmpegExits, FfmpegKilled, FfmpegStalls,
           Finish, Cancel, StepSucceeds, StepFails, Goto, Stop
  <2> QED
    BY <2>1, <2>2, <2>3 DEF PromptInv
<1> QED
  BY <1>1, <1>2, <1>3

\* However the flag is set, between whatever two looks at it, only the call
\* already decided upon is still begun (run_ffmpeg_process, tag_and_rename_files).
THEOREM CancelAlwaysPrompt == Spec => []CancelIsPrompt
<1>1. Init => PromptInv
  BY DEF Init, PromptInv
<1>2. PromptInv => CancelIsPrompt
  BY DEF PromptInv, CancelIsPrompt
<1> QED
  BY <1>1, <1>2, PromptNext, PTL DEF Spec

-----------------------------------------------------------------------------
(* One encoder makes all files.                                            *)

\* Encoders are being tried; one that has worked is the only candidate.
Trying == pc \in {"encoder", "start", "spawn", "running"} /\ Policy(Head(steps)) = "fallback"

EncoderInv ==
    /\ disk = [o \in DOMAIN disk |-> disk[o]]
    /\ Trying /\ resolved # None => candidates \in {<<>>, <<resolved>>}
    /\ Trying /\ pc # "encoder" => candidates # <<>>
    /\ OneEncoder

\* The file of the step is written, by its encoder.
LEMMA Written ==
    ASSUME NEW state, NEW enc, enc \in {None, resolved'},
           \A o \in Whole : disk[o].encoder \in {None, resolved'},
           WriteOut(state), Encoder = enc
    PROVE  OneEncoder' /\ disk' = [o \in DOMAIN disk' |-> disk'[o]]
BY DEF WriteOut, OneEncoder, Whole

LEMMA EncoderStays ==
    ASSUME NEW state, EncoderInv, state # "whole" \/ state = FileState, SetFile(state), resolved' = resolved
    PROVE  OneEncoder' /\ disk' = [o \in DOMAIN disk' |-> disk'[o]]
<1>1. CASE state = "absent"
  BY <1>1 DEF SetFile, EncoderInv, OneEncoder, Whole
<1>2. CASE state # "absent" /\ state = FileState
  BY <1>2 DEF SetFile, EncoderInv, OneEncoder, Whole
<1>3. CASE state # "absent" /\ state # FileState
  <2>1. WriteOut(state) /\ state # "whole"
    BY <1>3 DEF SetFile
  <2> QED
    BY <2>1 DEF WriteOut, EncoderInv, OneEncoder, Whole
<1> QED
  BY <1>1, <1>2, <1>3

LEMMA TailOfOne == \A x : Tail(<<x>>) = <<>>
OBVIOUS

\* A step that has failed leaves fewer candidates, or none are asked for.
LEMMA FailedKeepsEncoder ==
    ASSUME EncoderInv, NEW kind, StepFails(kind), pc \in {"start", "spawn", "running"},
           settings' = settings,
           resolved' = resolved => OneEncoder' /\ disk' = [o \in DOMAIN disk' |-> disk'[o]]
    PROVE  EncoderInv'
<1> USE DEF Goto, Stop, endVars, tagVars, encoderVars
<1>1. CASE Policy(Head(steps)) = "ledger"
  BY <1>1 DEF StepFails, EncoderInv, Trying
<1>2. CASE Policy(Head(steps)) # "ledger" /\ Policy(Head(steps)) = "fallback" /\ kind = "init"
  <2>1. /\ pc' = "encoder" /\ steps' = steps /\ resolved' = resolved
        /\ candidates' = Tail(candidates)
    BY <1>2 DEF StepFails, GiveUpCandidate
  <2>2. Trying /\ (resolved # None => candidates = <<resolved>>)
    BY <1>2 DEF Trying, EncoderInv
  <2>3. resolved # None => candidates' = <<>>
    BY <2>1, <2>2, TailOfOne
  <2> QED
    BY <2>1, <2>3 DEF EncoderInv, Trying
<1>3. CASE Policy(Head(steps)) # "ledger" /\ ~(Policy(Head(steps)) = "fallback" /\ kind = "init")
  BY <1>3 DEF StepFails, EncoderInv, Trying
<1> QED
  BY <1>1, <1>2, <1>3

LEMMA EncoderNext == EncoderInv /\ [Next]_vars => EncoderInv'
<1> SUFFICES ASSUME EncoderInv, [Next]_vars PROVE EncoderInv'
  OBVIOUS
<1> USE DEF Goto, Stop, endVars, tagVars, encoderVars, planVars
<1>0. ASSUME UNCHANGED <<disk, resolved>>
      PROVE  OneEncoder' /\ disk' = [o \in DOMAIN disk' |-> disk'[o]]
  BY <1>0 DEF EncoderInv, OneEncoder, Whole
<1>1. CASE ProbeClip \/ ProbingEnds \/ Plan \/ StepsCancelled \/ SkipStep \/ StepsDone
           \/ NextTag \/ TagAndRename \/ SummarizeMetadataFailures \/ Finish
  <2>1. UNCHANGED <<disk, resolved>> /\ pc' \notin {"encoder", "start", "spawn", "running"}
    BY <1>1
       DEF ProbeClip, ProbingEnds, Plan, StepsCancelled, SkipStep, StepsDone,
           NextTag, TagAndRename, SummarizeMetadataFailures, Finish
  <2> QED
    BY <1>0, <2>1 DEF EncoderInv, Trying
<1>2. CASE BeginStep
  <2>1. UNCHANGED <<disk, resolved, steps, settings>> /\ pc' \in {"encoder", "start"}
    BY <1>2 DEF BeginStep
  <2>2. CASE Policy(Head(steps)) = "fallback"
    <3>1. candidates' = Remaining /\ pc' = "encoder"
      BY <1>2, <2>2 DEF BeginStep
    <3> QED
      BY <1>0, <2>1, <3>1 DEF EncoderInv, Trying, Remaining
  <2>3. CASE Policy(Head(steps)) # "fallback"
    BY <1>0, <2>1, <2>3 DEF EncoderInv, Trying, Policy, Pipeline
  <2> QED
    BY <2>2, <2>3
<1>3. CASE NextCandidate
  BY <1>0, <1>3 DEF NextCandidate, EncoderInv, Trying, Policy, Pipeline
<1>4. CASE SkipCandidate
  <2>1. /\ UNCHANGED <<disk, resolved, steps, settings, pc>> /\ pc = "encoder"
        /\ candidates' = Tail(candidates) /\ candidates # <<>>
    BY <1>4 DEF SkipCandidate, GiveUpCandidate
  <2>2. Trying' = Trying
    BY <2>1 DEF Trying, Policy, Pipeline
  <2>3. Trying /\ resolved # None => candidates' = <<>>
    BY <2>1 DEF EncoderInv
  <2> QED
    BY <1>0, <2>1, <2>2, <2>3 DEF EncoderInv
<1>5. CASE StartFfmpeg \/ SpawnFfmpeg
  <2>1. pc \in {"start", "spawn"} /\ UNCHANGED <<disk, settings>>
    BY <1>5 DEF StartFfmpeg, SpawnFfmpeg
  <2>2. CASE StepFails("fatal")
    BY <1>0, <2>1, <2>2, FailedKeepsEncoder
  <2>3. CASE ~StepFails("fatal")
    <3>1. UNCHANGED <<steps, resolved, candidates>> /\ pc' \in {"spawn", "running"}
      BY <1>5, <2>3 DEF StartFfmpeg, SpawnFfmpeg
    <3> QED
      BY <1>0, <2>1, <3>1 DEF EncoderInv, Trying, Policy, Pipeline
  <2> QED
    BY <2>2, <2>3
<1>6. CASE FfmpegSucceeds
  <2>1. /\ pc = "running" /\ pc' = "step" /\ WriteOut("whole")
        /\ resolved' = IF Policy(Head(steps)) = "fallback" THEN Head(candidates) ELSE resolved
    BY <1>6 DEF FfmpegSucceeds, StepSucceeds
  <2>2. /\ Encoder \in {None, resolved'}
        /\ resolved # None => resolved' = resolved
    BY <2>1 DEF Encoder, EncoderInv, Trying
  <2>3. \A o \in Whole : disk[o].encoder \in {None, resolved'}
    BY <2>2 DEF EncoderInv, OneEncoder
  <2>4. OneEncoder' /\ disk' = [o \in DOMAIN disk' |-> disk'[o]]
    BY <2>1, <2>2, <2>3, Written
  <2> QED
    BY <2>1, <2>4 DEF EncoderInv, Trying
<1>7. CASE FfmpegExits
  <2>0. PICK f \in Leavings, produced \in BOOLEAN :
          /\ \E state \in FileAfterExit(f, produced) : SetFile(state)
          /\ StepFails(IF produced THEN "fatal" ELSE "init")
    BY <1>7 DEF FfmpegExits, ProducedOutput
  <2>1. PICK state \in FileAfterExit(f, produced) : SetFile(state)
    BY <2>0
  <2>2. state # "whole" \/ state = FileState
    BY <2>1 DEF Leavings, FileAfterExit
  <2>3. pc = "running" /\ settings' = settings /\ SetFile(state)
    BY <1>7, <2>1 DEF FfmpegExits
  <2> QED
    BY <2>0, <2>2, <2>3, EncoderStays, FailedKeepsEncoder
<1>8. CASE FfmpegKilled \/ FfmpegStalls
  <2>1. PICK f \in Leavings : SetFile(f)
    BY <1>8 DEF FfmpegKilled, FfmpegStalls
  <2>2. f # "whole" \/ f = FileState
    BY DEF Leavings
  <2>3. pc = "running" /\ settings' = settings /\ StepFails("fatal")
    BY <1>8 DEF FfmpegKilled, FfmpegStalls
  <2> QED
    BY <2>1, <2>2, <2>3, EncoderStays, FailedKeepsEncoder
<1>9. CASE Cancel \/ UNCHANGED vars
  <2>1. UNCHANGED <<disk, resolved, steps, settings, pc, candidates>>
    BY <1>9 DEF Cancel, vars
  <2> QED
    BY <1>0, <2>1 DEF EncoderInv, Trying, Policy, Pipeline
<1> QED
  BY <1>1, <1>2, <1>3, <1>4, <1>5, <1>6, <1>7, <1>8, <1>9
     DEF Next, JobStep, FfmpegEnds

\* However many encoders were given up first and whatever fails later, all
\* whole files of a run are made by the same one (run_video_step_with_fallback).
THEOREM EncoderAlwaysOne == Spec => []OneEncoder
<1>1. Init => EncoderInv
  BY DEF Init, EncoderInv, Trying, OneEncoder, Whole
<1>2. EncoderInv => OneEncoder
  BY DEF EncoderInv
<1> QED
  BY <1>1, <1>2, EncoderNext, PTL DEF Spec

-----------------------------------------------------------------------------
(* Induction over the numbers up to n, for the loops of a plan.            *)

LEMMA LeastNumber ==
    ASSUME NEW T, T \subseteq Nat, T # {}
    PROVE  \E n \in T : \A m \in T : n <= m
<1> DEFINE less == {p \in Nat \X Nat : p[1] < p[2]}
<1>1. IsWellFoundedOn(less, Nat)
  BY NatLessThanWellFounded DEF OpToRel
<1>2. PICK n \in T : \A m \in T : ~(<<m, n>> \in less)
  BY <1>1, WFMin
<1>3. ASSUME NEW m \in T PROVE n <= m
  <2>1. m \in Nat /\ n \in Nat
    OBVIOUS
  <2>2. m < n => <<m, n>> \in less
    BY <2>1
  <2> QED
    BY <1>2, <2>1, <2>2
<1> QED
  BY <1>3

\* A set that has 0, and with a number the next one, has all up to n.
LEMMA Counting ==
    ASSUME NEW n \in Nat, NEW S, 0 \in S, \A k \in 1 .. n : k - 1 \in S => k \in S
    PROVE  0 .. n \subseteq S
<1> SUFFICES ASSUME (0 .. n) \ S # {} PROVE FALSE
  OBVIOUS
<1>1. PICK k \in (0 .. n) \ S : \A m \in (0 .. n) \ S : k <= m
  <2>1. (0 .. n) \ S \subseteq Nat
    OBVIOUS
  <2> QED
    BY <2>1, LeastNumber
<1>2. k # 0 /\ k - 1 \in 0 .. n /\ ~(k <= k - 1)
  BY <1>1
<1>3. k - 1 \in S
  BY <1>1, <1>2
<1> QED
  BY <1>1, <1>2, <1>3

-----------------------------------------------------------------------------
(* The channels that survive.                                              *)

\* The loop of SelectedChannelPairs up to slot n.
IsSelection(f, s, physical, n) ==
    f = [k \in 0 .. n |->
            IF k = 0 THEN <<>>
            ELSE IF Survives(s, physical, k)
            THEN Append(f[k - 1], Selected(s, physical, k))
            ELSE f[k - 1]]

LEMMA SelectionExists ==
    ASSUME NEW s, NEW physical, NEW n \in Nat
    PROVE  \E f : IsSelection(f, s, physical, n)
<1> DEFINE S == {k \in 0 .. n : \E f : IsSelection(f, s, physical, k)}
<1>1. 0 \in S
  <2>1. IsSelection([k \in 0 .. 0 |-> <<>>], s, physical, 0)
    BY DEF IsSelection
  <2> QED
    BY <2>1
<1>2. ASSUME NEW k \in 1 .. n, k - 1 \in S PROVE k \in S
  <2>1. PICK f : IsSelection(f, s, physical, k - 1)
    BY <1>2
  <2> DEFINE g == [j \in 0 .. k |->
                      IF j = k
                      THEN IF Survives(s, physical, k)
                           THEN Append(f[k - 1], Selected(s, physical, k)) ELSE f[k - 1]
                      ELSE f[j]]
  <2>2. \A j \in 0 .. k : j # k => j \in 0 .. k - 1 /\ g[j] = f[j]
    OBVIOUS
  <2>3. \A j \in 0 .. k : j # 0 => j - 1 \in 0 .. k - 1 /\ g[j - 1] = f[j - 1]
    OBVIOUS
  <2>4. \A j \in 0 .. k - 1 :
           f[j] = IF j = 0 THEN <<>>
                  ELSE IF Survives(s, physical, j)
                  THEN Append(f[j - 1], Selected(s, physical, j)) ELSE f[j - 1]
    BY <2>1 DEF IsSelection
  <2>5. \A j \in 0 .. k :
           g[j] = IF j = 0 THEN <<>>
                  ELSE IF Survives(s, physical, j)
                  THEN Append(g[j - 1], Selected(s, physical, j)) ELSE g[j - 1]
    BY <2>2, <2>3, <2>4
  <2>6. IsSelection(g, s, physical, k)
    BY <2>5 DEF IsSelection
  <2> QED
    BY <2>6
<1>3. 0 .. n \subseteq S
  BY <1>1, <1>2, Counting
<1> QED
  BY <1>3

\* What survives has whatever each survivor has.
LEMMA SelectionIn ==
    ASSUME NEW s, s.map \in Seq(Nat), NEW physical, NEW T,
           \A k \in 1 .. Len(s.map) : Survives(s, physical, k) => Selected(s, physical, k) \in T
    PROVE  SelectedChannelPairs(s, physical) \in Seq(T)
<1> DEFINE n == Len(s.map)
           f == CHOOSE g : IsSelection(g, s, physical, n)
           S == {k \in 0 .. n : f[k] \in Seq(T)}
<1>1. n \in Nat
  OBVIOUS
<1>2. IsSelection(f, s, physical, n)
  BY <1>1, SelectionExists
<1>7. SelectedChannelPairs(s, physical) = f[n]
  BY DEF SelectedChannelPairs, IsSelection
<1> HIDE DEF f
<1>3. \A k \in 0 .. n :
          f[k] = IF k = 0 THEN <<>>
                 ELSE IF Survives(s, physical, k)
                 THEN Append(f[k - 1], Selected(s, physical, k)) ELSE f[k - 1]
  BY <1>2 DEF IsSelection
<1>4. 0 \in S
  <2>1. f[0] = <<>>
    BY <1>1, <1>3
  <2>2. f[0] \in Seq(T)
    BY <2>1
  <2>3. 0 \in 0 .. n
    BY <1>1
  <2> QED
    BY <2>2, <2>3
<1>5. ASSUME NEW k \in 1 .. n, k - 1 \in S PROVE k \in S
  <2>1. f[k] = IF Survives(s, physical, k)
               THEN Append(f[k - 1], Selected(s, physical, k)) ELSE f[k - 1]
    BY <1>3, <1>5
  <2>2. Survives(s, physical, k) => Selected(s, physical, k) \in T
    OBVIOUS
  <2>3. f[k - 1] \in Seq(T) /\ k \in 0 .. n
    BY <1>5, <1>1
  <2>4. f[k] \in Seq(T)
    BY <2>1, <2>2, <2>3, AppendProperties
  <2> QED
    BY <2>3, <2>4
<1>6. 0 .. n \subseteq S
  BY <1>1, <1>4, <1>5, Counting
<1>8. n \in 0 .. n
  BY <1>1
<1> QED
  BY <1>6, <1>7, <1>8

-----------------------------------------------------------------------------
(* Sequences put together.                                                 *)

LEMMA JoinedMembers ==
    ASSUME NEW T, NEW p \in Seq(T), NEW q \in Seq(T)
    PROVE  p \o q \in Seq(T) /\ ToSet(p \o q) = ToSet(p) \cup ToSet(q)
<1>1. /\ p \o q \in Seq(T) /\ Len(p \o q) = Len(p) + Len(q)
      /\ Len(p) \in Nat /\ Len(q) \in Nat
      /\ DOMAIN p = 1 .. Len(p) /\ DOMAIN q = 1 .. Len(q)
      /\ DOMAIN (p \o q) = 1 .. Len(p) + Len(q)
  OBVIOUS
<1>2. \A i \in 1 .. Len(p) : (p \o q)[i] = p[i]
  OBVIOUS
<1>3. \A i \in 1 .. Len(q) : (p \o q)[i + Len(p)] = q[i] /\ i + Len(p) \in DOMAIN (p \o q)
  BY <1>1
<1>4. \A i \in DOMAIN (p \o q) : i \in DOMAIN p \/ i - Len(p) \in DOMAIN q
  BY <1>1
<1>5. ToSet(p \o q) \subseteq ToSet(p) \cup ToSet(q)
  BY <1>1, <1>2, <1>3, <1>4 DEF ToSet
<1>6. ToSet(p) \subseteq ToSet(p \o q)
  <2>1. \A i \in DOMAIN p : i \in DOMAIN (p \o q) /\ p[i] = (p \o q)[i]
    BY <1>1, <1>2
  <2> QED
    BY <2>1 DEF ToSet
<1>7. ToSet(q) \subseteq ToSet(p \o q)
  <2>1. \A i \in DOMAIN q : \E j \in DOMAIN (p \o q) : q[i] = (p \o q)[j]
    BY <1>1, <1>3
  <2> QED
    BY <2>1 DEF ToSet
<1> QED
  BY <1>1, <1>5, <1>6, <1>7

\* The loop of FlattenSeq up to the sequence number n.
IsFlattening(f, seqs, n) ==
    f = [i \in 1 .. n |-> IF i = 1 THEN seqs[i] ELSE f[i - 1] \o seqs[i]]

LEMMA FlatteningExists ==
    ASSUME NEW seqs, NEW n \in Nat
    PROVE  \E f : IsFlattening(f, seqs, n)
<1> DEFINE S == {k \in 0 .. n : \E f : IsFlattening(f, seqs, k)}
<1>1. 0 \in S
  <2>1. IsFlattening([i \in 1 .. 0 |-> <<>>], seqs, 0)
    BY DEF IsFlattening
  <2> QED
    BY <2>1
<1>2. ASSUME NEW k \in 1 .. n, k - 1 \in S PROVE k \in S
  <2>1. PICK f : IsFlattening(f, seqs, k - 1)
    BY <1>2
  <2> DEFINE g == [i \in 1 .. k |->
                      IF i = k THEN IF k = 1 THEN seqs[k] ELSE f[k - 1] \o seqs[k]
                      ELSE f[i]]
  <2>2. \A i \in 1 .. k : i # k => i \in 1 .. k - 1 /\ g[i] = f[i]
    OBVIOUS
  <2>3. \A i \in 1 .. k : i # 1 => i - 1 \in 1 .. k - 1 /\ g[i - 1] = f[i - 1]
    OBVIOUS
  <2>4. \A i \in 1 .. k - 1 : f[i] = IF i = 1 THEN seqs[i] ELSE f[i - 1] \o seqs[i]
    BY <2>1 DEF IsFlattening
  <2>5. \A i \in 1 .. k : g[i] = IF i = 1 THEN seqs[i] ELSE g[i - 1] \o seqs[i]
    BY <2>2, <2>3, <2>4
  <2>6. IsFlattening(g, seqs, k)
    BY <2>5 DEF IsFlattening
  <2> QED
    BY <2>6
<1>3. 0 .. n \subseteq S
  BY <1>1, <1>2, Counting
<1> QED
  BY <1>3

\* The members of a sequence of sequences put together are their members.
LEMMA FlattenedMembers ==
    ASSUME NEW T, NEW seqs \in Seq(Seq(T))
    PROVE  /\ FlattenSeq(seqs) \in Seq(T)
           /\ ToSet(FlattenSeq(seqs)) = UNION {ToSet(seqs[i]) : i \in DOMAIN seqs}
<1> DEFINE n == Len(seqs)
           f == CHOOSE g : IsFlattening(g, seqs, n)
           Upper(k) == UNION {ToSet(seqs[i]) : i \in 1 .. k}
           S == {k \in 0 .. n : k # 0 => f[k] \in Seq(T) /\ ToSet(f[k]) = Upper(k)}
<1>1. n \in Nat /\ DOMAIN seqs = 1 .. n
  OBVIOUS
<1>2. IsFlattening(f, seqs, n)
  BY <1>1, FlatteningExists
<1>3. FlattenSeq(seqs) = IF n = 0 THEN seqs ELSE f[n]
  BY DEF FlattenSeq, IsFlattening
<1> HIDE DEF f
<1>4. \A i \in 1 .. n : f[i] = IF i = 1 THEN seqs[i] ELSE f[i - 1] \o seqs[i]
  BY <1>2 DEF IsFlattening
<1>5. ASSUME NEW k \in 1 .. n, k - 1 \in S PROVE k \in S
  <2>1. seqs[k] \in Seq(T)
    BY <1>1
  <2>2. CASE k = 1
    <3>1. f[k] = seqs[k]
      BY <1>4, <2>2
    <3>2. Upper(k) = ToSet(seqs[k])
      BY <2>2
    <3> QED
      BY <2>1, <3>1, <3>2, <1>1
  <2>3. CASE k # 1
    <3>0. k - 1 # 0 /\ k - 1 \in S
      BY <1>5, <2>3
    <3>1. f[k - 1] \in Seq(T) /\ ToSet(f[k - 1]) = Upper(k - 1) /\ f[k] = f[k - 1] \o seqs[k]
      BY <1>4, <2>3, <3>0
    <3>2. /\ f[k] \in Seq(T)
          /\ ToSet(f[k]) = ToSet(f[k - 1]) \cup ToSet(seqs[k])
      <4> DEFINE p == f[k - 1]
                 q == seqs[k]
      <4>1. p \in Seq(T) /\ q \in Seq(T)
        BY <2>1, <3>1
      <4> HIDE DEF p, q
      <4>2. p \o q \in Seq(T) /\ ToSet(p \o q) = ToSet(p) \cup ToSet(q)
        BY <4>1, JoinedMembers
      <4> QED
        BY <4>2, <3>1 DEF p, q
    <3>3. 1 .. k = (1 .. k - 1) \cup {k}
      BY <1>1
    <3>4. Upper(k) = Upper(k - 1) \cup ToSet(seqs[k])
      BY <3>3
    <3>5. f[k] \in Seq(T) /\ ToSet(f[k]) = Upper(k)
      BY <3>1, <3>2, <3>4
    <3>6. k \in 0 .. n
      BY <1>1
    <3> HIDE DEF Upper
    <3> QED
      BY <3>5, <3>6
  <2> QED
    BY <2>2, <2>3
<1>6. 0 \in S
  BY <1>1
<1>7. 0 .. n \subseteq S
  BY <1>1, <1>5, <1>6, Counting
<1>8. n \in S
  <2>1. n \in 0 .. n
    BY <1>1
  <2> QED
    BY <1>7, <2>1
<1>9. CASE n = 0
  <2>1. FlattenSeq(seqs) = seqs /\ seqs = <<>>
    BY <1>3, <1>9
  <2> QED
    BY <2>1, <1>1, <1>9 DEF ToSet
<1>10. CASE n # 0
  BY <1>1, <1>3, <1>8, <1>10
<1> QED
  BY <1>9, <1>10

-----------------------------------------------------------------------------
(* What is planned.                                                        *)

IsSeq(q) == q \in Seq(ToSet(q))

LEMMA SeqIsSeq ==
    ASSUME NEW T, NEW q \in Seq(T)
    PROVE  IsSeq(q) /\ ToSet(q) \subseteq T
<1>1. /\ Len(q) \in Nat /\ DOMAIN q = 1 .. Len(q)
      /\ q = [i \in 1 .. Len(q) |-> q[i]] /\ \A i \in 1 .. Len(q) : q[i] \in T
  OBVIOUS
<1>2. \A i \in 1 .. Len(q) : q[i] \in ToSet(q)
  BY <1>1 DEF ToSet
<1>3. q \in [1 .. Len(q) -> ToSet(q)]
  BY <1>1, <1>2
<1>4. q \in Seq(ToSet(q))
  BY <1>1, <1>3
<1>5. ToSet(q) \subseteq T
  BY <1>1 DEF ToSet
<1> QED
  BY <1>4, <1>5 DEF IsSeq

\* A function over the numbers up to some number is a sequence.
LEMMA ListIsSeq ==
    ASSUME NEW n \in Nat, NEW q, q = [i \in 1 .. n |-> q[i]]
    PROVE  IsSeq(q) /\ DOMAIN q = 1 .. n /\ Len(q) = n /\ ToSet(q) = {q[i] : i \in 1 .. n}
<1>1. DOMAIN q = 1 .. n
  OBVIOUS
<1>2. ToSet(q) = {q[i] : i \in 1 .. n}
  BY <1>1 DEF ToSet
<1>3. q \in [1 .. n -> ToSet(q)]
  BY <1>2
<1>4. q \in Seq(ToSet(q))
  BY <1>3
<1> QED
  BY <1>1, <1>2, <1>4 DEF IsSeq

LEMMA FlattenedSteps ==
    ASSUME NEW n \in Nat, NEW seqs, seqs = [i \in 1 .. n |-> seqs[i]],
           \A i \in 1 .. n : IsSeq(seqs[i])
    PROVE  /\ IsSeq(FlattenSeq(seqs))
           /\ ToSet(FlattenSeq(seqs)) = UNION {ToSet(seqs[i]) : i \in 1 .. n}
<1> DEFINE T == UNION {ToSet(seqs[i]) : i \in 1 .. n}
<1>1. \A i \in 1 .. n : seqs[i] \in Seq(T)
  <2> SUFFICES ASSUME NEW i \in 1 .. n PROVE seqs[i] \in Seq(T)
    OBVIOUS
  <2>1. ToSet(seqs[i]) \subseteq T
    OBVIOUS
  <2>2. seqs[i] \in Seq(ToSet(seqs[i]))
    BY DEF IsSeq
  <2> HIDE DEF T
  <2> QED
    BY <2>1, <2>2
<1>2. seqs \in [1 .. n -> Seq(T)]
  BY <1>1
<1>3. seqs \in Seq(Seq(T)) /\ DOMAIN seqs = 1 .. n
  BY <1>2
<1> HIDE DEF T
<1>4. FlattenSeq(seqs) \in Seq(T) /\ ToSet(FlattenSeq(seqs)) = UNION {ToSet(seqs[i]) : i \in DOMAIN seqs}
  BY <1>3, FlattenedMembers
<1> QED
  BY <1>3, <1>4, SeqIsSeq

\* Two sequences of steps, one after the other.
LEMMA JoinedSteps ==
    ASSUME NEW p, NEW q, IsSeq(p), IsSeq(q)
    PROVE  IsSeq(p \o q) /\ ToSet(p \o q) = ToSet(p) \cup ToSet(q)
<1> DEFINE T == ToSet(p) \cup ToSet(q)
<1>1. p \in Seq(T) /\ q \in Seq(T)
  <2>1. ToSet(p) \subseteq T /\ ToSet(q) \subseteq T
    OBVIOUS
  <2>2. p \in Seq(ToSet(p)) /\ q \in Seq(ToSet(q))
    BY DEF IsSeq
  <2> HIDE DEF T
  <2> QED
    BY <2>1, <2>2
<1> HIDE DEF T
<1>2. p \o q \in Seq(T)
  BY <1>1
<1>3. ToSet(p \o q) = ToSet(p) \cup ToSet(q)
  BY <1>1, JoinedMembers
<1> QED
  BY <1>2, <1>3, SeqIsSeq

\* The slots whose channels survive.
Survivors(s, physical) == {k \in 1 .. Len(s.map) : Survives(s, physical, k)}

LEMMA SelectedAre ==
    ASSUME NEW s, s.map \in Seq(Nat), NEW physical
    PROVE  LET selected == SelectedChannelPairs(s, physical)
           IN  /\ Len(selected) \in Nat /\ DOMAIN selected = 1 .. Len(selected)
               /\ selected = [i \in 1 .. Len(selected) |-> selected[i]]
               /\ \A i \in 1 .. Len(selected) :
                     \E k \in Survivors(s, physical) : selected[i] = Selected(s, physical, k)
<1> DEFINE T == {Selected(s, physical, k) : k \in Survivors(s, physical)}
           selected == SelectedChannelPairs(s, physical)
<1>1. \A k \in 1 .. Len(s.map) : Survives(s, physical, k) => Selected(s, physical, k) \in T
  BY DEF Survivors
<1> HIDE DEF T
<1>2. selected \in Seq(T)
  BY <1>1, SelectionIn
<1> HIDE DEF selected
<1>3. /\ Len(selected) \in Nat /\ DOMAIN selected = 1 .. Len(selected)
      /\ selected = [i \in 1 .. Len(selected) |-> selected[i]]
      /\ \A i \in 1 .. Len(selected) : selected[i] \in T
  BY <1>2
<1> QED
  BY <1>3 DEF T, selected

\* The pair is that of a channel that survives.
FromSurvivor(s, physical, pair) ==
    \E k \in Survivors(s, physical) : pair = PhysicalPair(s, physical, k)

LEMMA ChannelStepsAre ==
    ASSUME NEW s, s.map \in Seq(Nat), NEW file, NEW channels
    PROVE  /\ IsSeq(ChannelSteps(s, file, channels))
           /\ \A st \in ToSet(ChannelSteps(s, file, channels)) :
                 /\ st.type = "channel" /\ st.file = file
                 /\ \E pair : st.keep = <<pair>> /\ FromSurvivor(s, channels, pair)
<1> DEFINE selected == SelectedChannelPairs(s, channels)
           steps0 == ChannelSteps(s, file, channels)
           n == Len(selected)
<1>1. /\ n \in Nat /\ DOMAIN selected = 1 .. n
      /\ \A i \in 1 .. n :
            \E k \in Survivors(s, channels) : selected[i] = Selected(s, channels, k)
  BY SelectedAre
<1>2. steps0 = [i \in 1 .. n |-> AudioChannel(file, selected[i].pair, i)]
  BY <1>1 DEF ChannelSteps
<1> HIDE DEF selected, n, steps0
<1>3. IsSeq(steps0) /\ ToSet(steps0) = {steps0[i] : i \in 1 .. n}
  <2>1. steps0 = [i \in 1 .. n |-> steps0[i]]
    BY <1>2
  <2> QED
    BY <1>1, <2>1, ListIsSeq
<1>4. ASSUME NEW i \in 1 .. n
      PROVE  /\ steps0[i].type = "channel" /\ steps0[i].file = file
             /\ \E pair : steps0[i].keep = <<pair>> /\ FromSurvivor(s, channels, pair)
  <2>1. steps0[i] = AudioChannel(file, selected[i].pair, i)
    BY <1>2
  <2>2. FromSurvivor(s, channels, selected[i].pair)
    BY <1>1 DEF FromSurvivor, Selected
  <2> QED
    BY <2>1, <2>2 DEF AudioChannel, Step
<1> QED
  BY <1>3, <1>4 DEF steps0

-----------------------------------------------------------------------------
(* No step of a plan carries the timecode.                                 *)

\* The channel, a pair <<clip or track, physical channel>>, is the timecode.
IsTimecode(s, c) == IF s.clips THEN c[2] = s.ltcSource ELSE c[1] = s.ltcTrack

\* The property speaks of the run.
Drops == settings.drop /\ (Pipeline = "video" \/ (Splits(settings) /\ Pipeline # "synthetic"))

Clean(st) == \A c \in Content(st) : ~IsTimecode(settings, c)

LEMMA SurvivorIsClean ==
    ASSUME NEW s, s.drop, NEW physical, NEW k \in Survivors(s, physical)
    PROVE  IF s.clips THEN PhysicalPair(s, physical, k) # s.ltcSource
           ELSE InputForOutput(s.map, k) # s.ltcTrack
BY DEF Survivors, Survives, IsLtc

\* What the channels of a clip are taken out of.
LEMMA ClipChannelsAreClean ==
    ASSUME settings.map \in Seq(Nat), settings.drop, settings.clips, NEW st, NEW physical,
           st.type \in {"channel", "reordered"},
           \A pair \in ToSet(st.keep) : FromSurvivor(settings, physical, pair)
    PROVE  Clean(st)
<1>1. Content(st) = {<<st.file, p>> : p \in ToSet(st.keep)}
  BY DEF Content
<1>2. ASSUME NEW p \in ToSet(st.keep) PROVE p # settings.ltcSource
  BY <1>2, SurvivorIsClean DEF FromSurvivor
<1> QED
  BY <1>1, <1>2 DEF Clean, IsTimecode

LEMMA SingleMember ==
    ASSUME NEW x
    PROVE  ToSet(<<x>>) = {x} /\ IsSeq(<<x>>)
<1>1. DOMAIN <<x>> = {1} /\ <<x>>[1] = x
  OBVIOUS
<1>2. ToSet(<<x>>) = {x}
  BY <1>1 DEF ToSet
<1> QED
  BY <1>2 DEF IsSeq

LEMMA ChannelStepsAreClean ==
    ASSUME settings.map \in Seq(Nat), settings.drop, settings.clips, NEW file, NEW channels
    PROVE  \A st \in ToSet(ChannelSteps(settings, file, channels)) : Clean(st)
<1> SUFFICES ASSUME NEW st \in ToSet(ChannelSteps(settings, file, channels)) PROVE Clean(st)
  OBVIOUS
<1>1. /\ st.type = "channel"
      /\ \E pair : st.keep = <<pair>> /\ FromSurvivor(settings, channels, pair)
  BY ChannelStepsAre
<1>2. \A pair \in ToSet(st.keep) : FromSurvivor(settings, channels, pair)
  BY <1>1, SingleMember
<1> QED
  BY <1>1, <1>2, ClipChannelsAreClean

LEMMA SeqOfOne ==
    ASSUME NEW x
    PROVE  ToSet(SetToSeq({x})) = {x}
<1> DEFINE q == SetToSeq({x})
<1>1. Cardinality({x}) = 1
  BY FS_Singleton
<1>2. [i \in 1 .. 1 |-> x] \in [1 .. 1 -> {x}] /\ IsInjective([i \in 1 .. 1 |-> x])
  BY DEF IsInjective
<1>3. q \in [1 .. 1 -> {x}]
  BY <1>1, <1>2 DEF SetToSeq
<1> HIDE DEF q
<1>4. DOMAIN q = {1} /\ q[1] = x
  BY <1>3
<1>5. ToSet(q) = {x}
  BY <1>4 DEF ToSet
<1> QED
  BY <1>5 DEF q

LEMMA MuxStepIsClean ==
    ASSUME settings.map \in Seq(Nat), settings.drop, settings.clips,
           settings.ltcSource # NoPair, NEW file, NEW channels
    PROVE  Clean(MuxStep(settings, file, channels))
<1> DEFINE s == settings
           st == MuxStep(s, file, channels)
           selected == SelectedChannelPairs(s, channels)
<1>1. CASE st = VideoOnly(file)
  BY <1>1 DEF VideoOnly, Step, Clean, Content
<1>2. CASE st = ChannelsExcept(file, SetToSeq({s.ltcSource}))
  <2> DEFINE keep == SetToSeq({s.ltcSource})
  <2>3. ToSet(keep) = {s.ltcSource}
    BY SeqOfOne
  <2> HIDE DEF keep, st
  <2>4. st.type = "except" /\ st.keep = keep
    BY <1>2 DEF ChannelsExcept, Step, keep
  <2>1. /\ st.type = "except" /\ ToSet(st.keep) = {s.ltcSource}
    BY <2>3, <2>4
  <2>2. Content(st) = {<<st.file, p>> : p \in ToSet(ChannelsOf(probes[1])) \ {s.ltcSource}}
    BY <2>1 DEF Content
  <2> QED
    BY <2>2 DEF Clean, IsTimecode, st
<1>3. CASE st = Reordered(file, [i \in DOMAIN selected |-> selected[i].pair])
  <2> DEFINE keep == [i \in DOMAIN selected |-> selected[i].pair]
  <2>1. /\ DOMAIN selected = 1 .. Len(selected)
        /\ \A i \in 1 .. Len(selected) :
              \E k \in Survivors(s, channels) : selected[i] = Selected(s, channels, k)
    BY SelectedAre
  <2>2. ASSUME NEW pair \in ToSet(keep) PROVE pair # s.ltcSource
    <3>1. PICK i \in DOMAIN selected : pair = selected[i].pair
      BY DEF ToSet
    <3>2. PICK k \in Survivors(s, channels) : pair = PhysicalPair(s, channels, k)
      BY <2>1, <3>1 DEF Selected
    <3> QED
      BY <3>2, SurvivorIsClean
  <2>3. st.type = "reordered" /\ st.keep = keep
    BY <1>3 DEF Reordered, Step
  <2> HIDE DEF keep, selected, st
  <2>4. Content(st) = {<<st.file, p>> : p \in ToSet(keep)}
    BY <2>3 DEF Content
  <2> QED
    BY <2>2, <2>4 DEF Clean, IsTimecode, st
<1> QED
  BY <1>1, <1>2, <1>3 DEF MuxStep, InPlaceStep

LEMMA FileStepsAreClean ==
    ASSUME settings.map \in Seq(Nat), settings.drop, settings.clips,
           settings.ltcSource # NoPair, NEW file, NEW channels
    PROVE  LET q == PlanVideoOutputsForFile(settings, file, channels)
           IN  IsSeq(q) /\ \A st \in ToSet(q) : Clean(st)
<1>1. CASE settings.split
  <2>1. Clean(VideoOnly(file))
    BY DEF VideoOnly, Step, Clean, Content
  <2> DEFINE first == <<VideoOnly(file)>>
             rest == ChannelSteps(settings, file, channels)
  <2>2. PlanVideoOutputsForFile(settings, file, channels) = first \o rest
    BY <1>1 DEF PlanVideoOutputsForFile
  <2>3. IsSeq(first) /\ ToSet(first) = {VideoOnly(file)}
    BY SingleMember
  <2>4. IsSeq(rest) /\ \A st \in ToSet(rest) : Clean(st)
    BY ChannelStepsAre, ChannelStepsAreClean
  <2> HIDE DEF first, rest
  <2>5. IsSeq(first \o rest) /\ ToSet(first \o rest) = ToSet(first) \cup ToSet(rest)
    BY <2>3, <2>4, JoinedSteps
  <2>6. \A st \in ToSet(first \o rest) : Clean(st)
    BY <2>1, <2>3, <2>4, <2>5
  <2> QED
    BY <2>2, <2>5, <2>6
<1>2. CASE ~settings.split
  BY <1>2, SingleMember, MuxStepIsClean DEF PlanVideoOutputsForFile
<1> QED
  BY <1>1, <1>2

LEMMA ConcatStepsAreClean ==
    ASSUME settings.map \in Seq(Nat), settings.drop, settings.clips, NEW n \in Nat,
           probes = [f \in 1 .. n |-> probes[f]]
    PROVE  LET q == PlanConcatOutputs(settings, probes)
           IN  IsSeq(q) /\ \A st \in ToSet(q) : Clean(st)
<1> DEFINE s == settings
           channels == ChannelsOf(probes[Min(WithAudio(probes))])
           selected == SelectedChannelPairs(s, channels)
           clips == SetToSortSeq(WithAudio(probes), <)
           q == PlanConcatOutputs(s, probes)
<1>1. CASE WithAudio(probes) = {}
  <2>1. q = <<>>
    BY <1>1 DEF PlanConcatOutputs
  <2>2. IsSeq(<<>>) /\ ToSet(<<>>) = {}
    BY DEF IsSeq, ToSet
  <2> QED
    BY <2>1, <2>2
<1>2. CASE WithAudio(probes) # {} /\ Consistent(probes)
  <2> DEFINE segments(i) == [c \in DOMAIN clips |-> <<clips[c], selected[i].pair>>]
  <2>1. q = [i \in DOMAIN selected |-> AudioChannelConcat(segments(i), i)]
    BY <1>2 DEF PlanConcatOutputs, Mapped
  <2>2. /\ Len(selected) \in Nat /\ DOMAIN selected = 1 .. Len(selected)
        /\ \A i \in 1 .. Len(selected) :
              \E k \in Survivors(s, channels) : selected[i] = Selected(s, channels, k)
    BY SelectedAre
  <2> HIDE DEF clips, selected, channels, q
  <2>3. q = [i \in 1 .. Len(selected) |-> q[i]]
    BY <2>1, <2>2
  <2> DEFINE m == Len(selected)
  <2>6. m \in Nat /\ q = [i \in 1 .. m |-> q[i]]
    BY <2>2, <2>3
  <2> HIDE DEF m
  <2>7. IsSeq(q) /\ ToSet(q) = {q[i] : i \in 1 .. m}
    BY <2>6, ListIsSeq
  <2>4. IsSeq(q) /\ ToSet(q) = {q[i] : i \in 1 .. Len(selected)}
    BY <2>7 DEF m
  <2>5. ASSUME NEW i \in 1 .. Len(selected) PROVE Clean(q[i])
    <3>1. q[i] = AudioChannelConcat(segments(i), i)
      BY <2>1, <2>2
    <3>2. q[i].type = "concat" /\ q[i].keep = segments(i)
      BY <3>1 DEF AudioChannelConcat, Step
    <3>3. PICK k \in Survivors(s, channels) : selected[i].pair = PhysicalPair(s, channels, k)
      BY <2>2 DEF Selected
    <3>4. selected[i].pair # s.ltcSource
      BY <3>3, SurvivorIsClean
    <3>5. Content(q[i]) = ToSet(segments(i))
      BY <3>2 DEF Content
    <3>6. \A c \in ToSet(segments(i)) : c[2] = selected[i].pair
      BY DEF ToSet
    <3> QED
      BY <3>4, <3>5, <3>6 DEF Clean, IsTimecode
  <2> QED
    BY <2>4, <2>5 DEF q
<1>3. CASE WithAudio(probes) # {} /\ ~Consistent(probes)
  <2> DEFINE of(f) == IF probes[f] = NoProbe THEN <<>>
                      ELSE ChannelSteps(s, f, probes[f].channels)
             seqs == [f \in DOMAIN probes |-> of(f)]
  <2>1. q = FlattenSeq(seqs)
    BY <1>3 DEF PlanConcatOutputs
  <2>2. DOMAIN probes = 1 .. n
    OBVIOUS
  <2>3. ASSUME NEW f \in 1 .. n PROVE IsSeq(of(f)) /\ \A st \in ToSet(of(f)) : Clean(st)
    <3>1. IsSeq(<<>>) /\ ToSet(<<>>) = {}
      BY DEF IsSeq, ToSet
    <3> QED
      BY <3>1, ChannelStepsAre, ChannelStepsAreClean
  <2> HIDE DEF of, q
  <2>4. seqs = [f \in 1 .. n |-> seqs[f]] /\ \A f \in 1 .. n : seqs[f] = of(f)
    BY <2>2
  <2> HIDE DEF seqs
  <2>6. \A f \in 1 .. n : IsSeq(seqs[f])
    BY <2>3, <2>4
  <2>7. /\ IsSeq(FlattenSeq(seqs))
        /\ ToSet(FlattenSeq(seqs)) = UNION {ToSet(seqs[i]) : i \in 1 .. n}
    BY <2>4, <2>6, FlattenedSteps
  <2>5. IsSeq(q) /\ ToSet(q) = UNION {ToSet(seqs[i]) : i \in 1 .. n}
    BY <2>1, <2>7
  <2> QED
    BY <2>3, <2>4, <2>5 DEF q
<1> QED
  BY <1>1, <1>2, <1>3

\* A plan made file by file.
LEMMA FileByFileIsClean ==
    ASSUME NEW n \in Nat, NEW seqs, seqs = [f \in 1 .. n |-> seqs[f]],
           \A f \in 1 .. n : IsSeq(seqs[f]) /\ \A st \in ToSet(seqs[f]) : Clean(st)
    PROVE  IsSeq(FlattenSeq(seqs)) /\ \A st \in ToSet(FlattenSeq(seqs)) : Clean(st)
<1>1. /\ IsSeq(FlattenSeq(seqs))
      /\ ToSet(FlattenSeq(seqs)) = UNION {ToSet(seqs[i]) : i \in 1 .. n}
  BY FlattenedSteps
<1> QED
  BY <1>1

LEMMA VideoStepsAreClean ==
    ASSUME settings.map \in Seq(Nat), settings.inputs \in Nat, settings.drop, settings.clips,
           settings.ltcSource # NoPair, NEW n \in Nat, probes = [f \in 1 .. n |-> probes[f]]
    PROVE  LET q == PlanVideoSteps(settings, probes)
           IN  IsSeq(q) /\ \A st \in ToSet(q) : Clean(st)
<1> DEFINE s == settings
           q == PlanVideoSteps(s, probes)
<1>1. CASE UsesConcat(s)
  <2> DEFINE m == s.inputs
             first == Mapped(Upto(m), VideoOnly)
             rest == PlanConcatOutputs(s, probes)
  <2>1. q = first \o rest
    BY <1>1 DEF PlanVideoSteps
  <2>2. first = [i \in 1 .. m |-> first[i]] /\ \A i \in 1 .. m : first[i] = VideoOnly(i)
    BY DEF Mapped, Upto
  <2>3. IsSeq(rest) /\ \A st \in ToSet(rest) : Clean(st)
    BY ConcatStepsAreClean
  <2> HIDE DEF first, rest, q
  <2>4. IsSeq(first) /\ ToSet(first) = {first[i] : i \in 1 .. m}
    BY <2>2, ListIsSeq
  <2>5. \A st \in ToSet(first) : Clean(st)
    <3>1. \A i \in 1 .. m : Clean(VideoOnly(i))
      BY DEF Clean, VideoOnly, Step, Content
    <3> QED
      BY <2>2, <2>4, <3>1
  <2>6. IsSeq(first \o rest) /\ ToSet(first \o rest) = ToSet(first) \cup ToSet(rest)
    BY <2>3, <2>4, JoinedSteps
  <2> QED
    BY <2>1, <2>3, <2>5, <2>6 DEF q
<1>2. CASE ~UsesConcat(s)
  <2> DEFINE of(f) == PlanVideoOutputsForFile(s, f, ChannelsOf(probes[f]))
             seqs == [f \in DOMAIN probes |-> of(f)]
  <2>1. q = FlattenSeq(seqs)
    BY <1>2 DEF PlanVideoSteps
  <2>2. DOMAIN probes = 1 .. n
    OBVIOUS
  <2>3. ASSUME NEW f \in 1 .. n PROVE IsSeq(of(f)) /\ \A st \in ToSet(of(f)) : Clean(st)
    BY FileStepsAreClean
  <2> HIDE DEF of, q
  <2>4. seqs = [f \in 1 .. n |-> seqs[f]] /\ \A f \in 1 .. n : seqs[f] = of(f)
    BY <2>2
  <2> HIDE DEF seqs
  <2>5. IsSeq(FlattenSeq(seqs)) /\ \A st \in ToSet(FlattenSeq(seqs)) : Clean(st)
    BY <2>3, <2>4, FileByFileIsClean
  <2> QED
    BY <2>1, <2>5 DEF q
<1> QED
  BY <1>1, <1>2

LEMMA TracksAreClean ==
    ASSUME settings.map \in Seq(Nat), settings.drop, settings.split
    PROVE  LET q == PlanAudioSteps(settings)
           IN  IsSeq(q) /\ \A st \in ToSet(q) : Clean(st)
<1> DEFINE s == settings
           q == PlanAudioSteps(s)
           tracks == [i \in DOMAIN s.map |-> <<i, 1>>]
           selected == SelectedChannelPairs(s, tracks)
           m == Len(selected)
           step(i) == Step("track", selected[i].input, <<selected[i].pair>>,
                           AudioPath(1, selected[i].slot))
<1>1. q = [i \in DOMAIN selected |-> step(i)]
  BY DEF PlanAudioSteps
<1> HIDE DEF q, tracks
<1>2. /\ m \in Nat /\ DOMAIN selected = 1 .. m
      /\ \A i \in 1 .. m :
            \E k \in Survivors(s, tracks) : selected[i] = Selected(s, tracks, k)
  BY SelectedAre
<1> HIDE DEF selected, m
<1>3. q = [i \in 1 .. m |-> q[i]]
  BY <1>1, <1>2
<1>4. IsSeq(q) /\ ToSet(q) = {q[i] : i \in 1 .. m}
  BY <1>2, <1>3, ListIsSeq
<1>5. ASSUME NEW i \in 1 .. m PROVE Clean(q[i])
  <2>1. q[i].type = "track" /\ q[i].file = selected[i].input /\ q[i].keep = <<selected[i].pair>>
    BY <1>1, <1>2 DEF Step
  <2>2. PICK k \in Survivors(s, tracks) : /\ selected[i].input = InputForOutput(s.map, k)
                                          /\ selected[i].pair = PhysicalPair(s, tracks, k)
    BY <1>2 DEF Selected
  <2>3. IF s.clips THEN selected[i].pair # s.ltcSource ELSE selected[i].input # s.ltcTrack
    BY <2>2, SurvivorIsClean
  <2>4. Content(q[i]) = {<<selected[i].input, selected[i].pair>>}
    <3>1. ToSet(q[i].keep) = {selected[i].pair}
      BY <2>1, SingleMember
    <3> QED
      BY <2>1, <3>1 DEF Content
  <2> QED
    BY <2>3, <2>4 DEF Clean, IsTimecode
<1> QED
  BY <1>4, <1>5 DEF q

LEMMA ExtractionIsClean ==
    ASSUME settings.map \in Seq(Nat), settings.drop, Splits(settings),
           NEW n \in Nat, probes = [f \in 1 .. n |-> probes[f]],
           ~settings.clips => \A f \in 1 .. n : probes[f] = NoProbe
    PROVE  LET q == PlanExtraction(settings, probes)
           IN  IsSeq(q) /\ \A st \in ToSet(q) : Clean(st)
<1> DEFINE s == settings
           q == PlanExtraction(s, probes)
<1>1. CASE UsesConcat(s)
  BY <1>1, ConcatStepsAreClean DEF PlanExtraction, UsesConcat
<1>2. CASE ~UsesConcat(s)
  <2> DEFINE of(f) == IF probes[f] = NoProbe THEN <<>>
                      ELSE ChannelSteps(s, f, probes[f].channels)
             seqs == [f \in DOMAIN probes |-> of(f)]
  <2>1. q = FlattenSeq(seqs)
    BY <1>2 DEF PlanExtraction
  <2>2. DOMAIN probes = 1 .. n
    OBVIOUS
  <2>3. ASSUME NEW f \in 1 .. n PROVE IsSeq(of(f)) /\ \A st \in ToSet(of(f)) : Clean(st)
    <3>1. IsSeq(<<>>) /\ ToSet(<<>>) = {}
      BY DEF IsSeq, ToSet
    <3>2. CASE probes[f] = NoProbe
      BY <3>1, <3>2
    <3>3. CASE probes[f] # NoProbe
      BY <3>3, ChannelStepsAre, ChannelStepsAreClean
    <3> QED
      BY <3>2, <3>3
  <2> HIDE DEF of, q
  <2>4. seqs = [f \in 1 .. n |-> seqs[f]] /\ \A f \in 1 .. n : seqs[f] = of(f)
    BY <2>2
  <2> HIDE DEF seqs
  <2>5. IsSeq(FlattenSeq(seqs)) /\ \A st \in ToSet(FlattenSeq(seqs)) : Clean(st)
    BY <2>3, <2>4, FileByFileIsClean
  <2> QED
    BY <2>1, <2>5 DEF q
<1> QED
  BY <1>1, <1>2

-----------------------------------------------------------------------------
(* No file of a run carries the timecode.                                  *)

\* What a run starts from and what it has found.
StartInv ==
    /\ Pipeline \in {"video", "audio", "synthetic", "metadata"}
    /\ settings.inputs \in Nat /\ settings.map \in Seq(Nat)
    /\ Pipeline = "video" => settings.clips
    /\ settings.clips => settings.ltcSource # NoPair
    /\ DOMAIN layout = 1 .. settings.inputs /\ \A f \in DOMAIN layout : layout[f] # NoProbe
ProbesInv ==
    /\ IsSeq(probes)
    /\ ~settings.clips => \A f \in DOMAIN probes : probes[f] = NoProbe
\* The steps left are those of a plan, and there is one while ffmpeg is run.
StepsInv ==
    /\ pc \in {"probe", "plan"} => steps = <<>>
    /\ pc \in {"encoder", "start", "spawn", "running"} => steps # <<>>
CleanInv ==
    Drops => /\ IsSeq(steps) /\ \A st \in ToSet(steps) : Clean(st)
             /\ \A o \in DOMAIN disk : \A c \in disk[o].content : ~IsTimecode(settings, c)

PlanInv == StartInv /\ ProbesInv /\ StepsInv /\ CleanInv

LEMMA NoSteps == IsSeq(<<>>) /\ ToSet(<<>>) = {} /\ DOMAIN <<>> = {}
BY DEF IsSeq, ToSet

LEMMA PlanInit == Init => PlanInv
<1> SUFFICES ASSUME Init PROVE PlanInv
  OBVIOUS
<1>1. StartInv
  BY CasesAssumption DEF Init, StartInv, Pipeline
<1>2. probes = <<>> /\ steps = <<>> /\ disk = <<>> /\ pc \in {"probe", "plan"}
  BY DEF Init
<1> QED
  BY <1>1, <1>2, NoSteps DEF PlanInv, ProbesInv, StepsInv, CleanInv

LEMMA TailSteps ==
    ASSUME NEW q, IsSeq(q), q # <<>>
    PROVE  IsSeq(Tail(q)) /\ ToSet(Tail(q)) \subseteq ToSet(q) /\ Head(q) \in ToSet(q)
<1>1. q \in Seq(ToSet(q)) /\ Tail(q) \in Seq(ToSet(q)) /\ Head(q) \in ToSet(q)
  BY DEF IsSeq
<1> QED
  BY <1>1, SeqIsSeq

\* What a step of the run may do once there is a plan: take a step off, and
\* write the file of the first.
WithinPlan ==
    /\ UNCHANGED <<settings, probes, layout>>
    /\ steps' = steps \/ (steps # <<>> /\ steps' = Tail(steps))
    /\ \A o \in DOMAIN disk' :
          \/ o \in DOMAIN disk /\ disk'[o].content = disk[o].content
          \/ steps # <<>> /\ disk'[o].content = Content(Head(steps))

LEMMA WithinPlanKeeps ==
    ASSUME PlanInv, WithinPlan, pc' \notin {"probe", "plan"} \/ steps' = <<>>,
           pc' \in {"encoder", "start", "spawn", "running"} => steps' # <<>>
    PROVE  PlanInv'
<1>1. StartInv' /\ ProbesInv'
  BY DEF PlanInv, WithinPlan, StartInv, ProbesInv, Pipeline
<1>3. StepsInv'
  BY DEF StepsInv
<1>4. ASSUME Drops' PROVE CleanInv'
  <2>1. Drops
    BY <1>4 DEF WithinPlan, Drops, Pipeline
  <2>6. IsSeq(steps') /\ ToSet(steps') \subseteq ToSet(steps)
    BY <2>1, TailSteps DEF PlanInv, CleanInv, WithinPlan
  <2>2. \A st \in ToSet(steps) : \A c \in Content(st) : ~IsTimecode(settings, c)
    BY <2>1 DEF PlanInv, CleanInv, Clean
  <2>3. \A st : Content(st)' = Content(st)
    BY DEF WithinPlan, Content
  <2>4. \A st \in ToSet(steps') : Clean(st)'
    BY <2>2, <2>3, <2>6 DEF Clean, WithinPlan
  <2>5. \A o \in DOMAIN disk' : \A c \in disk'[o].content : ~IsTimecode(settings, c)
    <3> SUFFICES ASSUME NEW o \in DOMAIN disk'
                 PROVE  \A c \in disk'[o].content : ~IsTimecode(settings, c)
      OBVIOUS
    <3>1. CASE o \in DOMAIN disk /\ disk'[o].content = disk[o].content
      BY <2>1, <3>1 DEF PlanInv, CleanInv
    <3>2. CASE steps # <<>> /\ disk'[o].content = Content(Head(steps))
      <4>1. Head(steps) \in ToSet(steps)
        BY <2>1, <3>2, TailSteps DEF PlanInv, CleanInv
      <4> QED
        BY <2>2, <3>2, <4>1
    <3> QED
      BY <3>1, <3>2 DEF WithinPlan
  <2> QED
    BY <2>4, <2>5, <2>6 DEF CleanInv, WithinPlan
<1> QED
  BY <1>1, <1>3, <1>4 DEF PlanInv, CleanInv

\* The plan itself.
LEMMA PlanIsClean ==
    ASSUME PlanInv, Drops
    PROVE  LET q == PlanSteps(settings, probes)
           IN  IsSeq(q) /\ \A st \in ToSet(q) : Clean(st)
<1>1. /\ settings.inputs \in Nat /\ settings.map \in Seq(Nat) /\ settings.drop
      /\ Pipeline = "video" => settings.clips
      /\ settings.clips => settings.ltcSource # NoPair
  BY DEF PlanInv, StartInv, Drops
<1> DEFINE n == Len(probes)
<1>2. n \in Nat /\ probes = [f \in 1 .. n |-> probes[f]]
  <2>1. probes \in Seq(ToSet(probes))
    BY DEF PlanInv, ProbesInv, IsSeq
  <2> QED
    BY <2>1
<1>3. ~settings.clips => \A f \in 1 .. n : probes[f] = NoProbe
  BY <1>2 DEF PlanInv, ProbesInv
<1> HIDE DEF n
<1>4. CASE Pipeline = "video"
  <2>1. PlanSteps(settings, probes) = PlanVideoSteps(settings, probes)
    BY <1>4 DEF PlanSteps, Pipeline
  <2> QED
    BY <1>1, <1>2, <1>4, <2>1, VideoStepsAreClean
<1>5. CASE Pipeline = "audio"
  <2>1. PlanSteps(settings, probes) = PlanAudioSteps(settings)
    BY <1>5 DEF PlanSteps, Pipeline
  <2>2. settings.split
    BY <1>5 DEF Drops, Splits
  <2> QED
    BY <1>1, <2>1, <2>2, TracksAreClean
<1>6. CASE Pipeline = "metadata"
  <2>1. PlanSteps(settings, probes) = PlanExtraction(settings, probes)
    BY <1>6 DEF PlanSteps, Pipeline
  <2>2. Splits(settings)
    BY <1>6 DEF Drops
  <2> QED
    BY <1>1, <1>2, <1>3, <2>1, <2>2, ExtractionIsClean
<1> QED
  BY <1>4, <1>5, <1>6 DEF PlanInv, StartInv, Drops

LEMMA FileOfStep ==
    ASSUME steps # <<>>, NEW state, WriteOut(state) \/ SetFile(state)
    PROVE  \A o \in DOMAIN disk' :
              \/ o \in DOMAIN disk /\ disk'[o].content = disk[o].content
              \/ steps # <<>> /\ disk'[o].content = Content(Head(steps))
<1>1. CASE WriteOut(state)
  <2>1. /\ DOMAIN disk' = DOMAIN disk \cup {Out}
        /\ disk'[Out].content = Content(Head(steps))
        /\ \A o \in DOMAIN disk : o # Out => disk'[o] = disk[o]
    BY <1>1 DEF WriteOut
  <2> QED
    BY <2>1
<1>2. CASE ~WriteOut(state) /\ SetFile(state)
  BY <1>2 DEF SetFile
<1> QED
  BY <1>1, <1>2

LEMMA FailedStepSteps ==
    ASSUME NEW kind, StepFails(kind), steps # <<>>
    PROVE  \/ steps' = steps /\ pc' \in {"encoder", "finish"}
           \/ steps' = Tail(steps) /\ pc' = "step"
BY DEF StepFails, Goto, Stop

LEMMA PlanNext == PlanInv /\ [Next]_vars => PlanInv'
<1> SUFFICES ASSUME PlanInv, [Next]_vars PROVE PlanInv'
  OBVIOUS
<1> USE DEF Goto, endVars, tagVars, encoderVars, planVars
<1>0. /\ pc \in {"probe", "plan"} => steps = <<>>
      /\ pc \in {"encoder", "start", "spawn", "running"} => steps # <<>>
  BY DEF PlanInv, StepsInv
<1>1. CASE ProbeClip
  <2>1. PICK p \in {layout[Len(probes) + 1], NoProbe} :
            (settings.clips \/ p = NoProbe) /\ probes' = Append(probes, p)
    BY <1>1 DEF ProbeClip
  <2>2. pc = "probe" /\ UNCHANGED <<settings, layout, pc, steps, disk>>
    BY <1>1 DEF ProbeClip
  <2>3. ProbesInv'
    <3> DEFINE T == ToSet(probes) \cup {p}
    <3>1. probes \in Seq(ToSet(probes)) /\ ToSet(probes) \subseteq T
      BY DEF PlanInv, ProbesInv, IsSeq
    <3>2. p \in T
      OBVIOUS
    <3> HIDE DEF T
    <3>3. probes \in Seq(T)
      BY <3>1
    <3>4. /\ probes' \in Seq(T)
          /\ \A f \in DOMAIN probes' : IF f \in DOMAIN probes THEN probes'[f] = probes[f]
                                       ELSE probes'[f] = p
      BY <2>1, <3>2, <3>3
    <3>5. IsSeq(probes')
      BY <3>4, SeqIsSeq
    <3>6. ~settings.clips => \A f \in DOMAIN probes' : probes'[f] = NoProbe
      BY <2>1, <3>4 DEF PlanInv, ProbesInv
    <3> QED
      BY <2>2, <3>5, <3>6 DEF ProbesInv
  <2>4. StartInv' /\ StepsInv'
    BY <2>2 DEF PlanInv, StartInv, StepsInv, Pipeline
  <2>5. CleanInv'
    <3>1. steps' = <<>>
      BY <1>0, <2>2
    <3>2. Drops' => Drops
      BY <2>2 DEF Drops, Pipeline
    <3>3. ToSet(steps') = {} /\ IsSeq(steps')
      BY <3>1, NoSteps
    <3> QED
      BY <2>2, <3>2, <3>3 DEF PlanInv, CleanInv
  <2> QED
    BY <2>3, <2>4, <2>5 DEF PlanInv
<1>2. CASE Plan
  <2>1. /\ steps' = PlanSteps(settings, probes)
        /\ pc' = "step" /\ UNCHANGED <<settings, probes, layout, disk>>
    BY <1>2 DEF Plan
  <2>2. StartInv' /\ ProbesInv' /\ StepsInv'
    BY <2>1 DEF PlanInv, StartInv, ProbesInv, StepsInv, Pipeline
  <2>3. ASSUME Drops' PROVE CleanInv'
    <3>1. Drops
      BY <2>1, <2>3 DEF Drops, Pipeline
    <3> DEFINE q == PlanSteps(settings, probes)
    <3>2. IsSeq(q) /\ \A st \in ToSet(q) : Clean(st)
      BY <3>1, PlanIsClean
    <3> HIDE DEF q
    <3>3. \A st : Content(st)' = Content(st)
      BY <2>1 DEF Content
    <3>4. \A st \in ToSet(q) : Clean(st)'
      BY <2>1, <3>2, <3>3 DEF Clean
    <3>5. \A o \in DOMAIN disk' : \A c \in disk'[o].content : ~IsTimecode(settings', c)
      BY <2>1, <3>1 DEF PlanInv, CleanInv
    <3>6. steps' = q
      BY <2>1 DEF q
    <3> QED
      BY <3>2, <3>4, <3>5, <3>6 DEF CleanInv
  <2> QED
    BY <2>2, <2>3 DEF PlanInv, CleanInv
<1>3. CASE ProbingEnds
  <2>1. /\ UNCHANGED <<settings, probes, layout, steps, disk>>
        /\ pc = "probe" /\ pc' \in {"plan", "finish"}
    BY <1>3 DEF ProbingEnds, Stop
  <2>2. WithinPlan
    BY <2>1 DEF WithinPlan
  <2> QED
    BY <1>0, <2>1, <2>2, WithinPlanKeeps
<1>4. CASE StepsCancelled \/ SkipStep \/ BeginStep \/ StepsDone \/ NextCandidate \/ SkipCandidate
           \/ NextTag \/ TagAndRename \/ SummarizeMetadataFailures \/ Finish
  <2>1. /\ UNCHANGED <<settings, probes, layout, disk>>
        /\ steps' = steps \/ (steps # <<>> /\ steps' = Tail(steps))
        /\ pc' \notin {"probe", "plan"}
        /\ pc' \in {"encoder", "start", "spawn", "running"} => steps' # <<>>
    BY <1>0, <1>4
       DEF StepsCancelled, SkipStep, BeginStep, StepsDone, NextCandidate, SkipCandidate,
           GiveUpCandidate, NextTag, TagAndRename, SummarizeMetadataFailures, Finish, Stop
  <2>2. WithinPlan
    BY <2>1 DEF WithinPlan
  <2> QED
    BY <2>1, <2>2, WithinPlanKeeps
<1>5. CASE StartFfmpeg \/ SpawnFfmpeg
  <2>1. UNCHANGED <<settings, probes, layout, disk>> /\ steps # <<>>
    BY <1>0, <1>5 DEF StartFfmpeg, SpawnFfmpeg
  <2>2. \/ StepFails("fatal")
        \/ pc' \in {"spawn", "running"} /\ steps' = steps
    BY <1>5 DEF StartFfmpeg, SpawnFfmpeg
  <2>3. /\ steps' = steps \/ (steps # <<>> /\ steps' = Tail(steps))
        /\ pc' \notin {"probe", "plan"}
        /\ pc' \in {"encoder", "start", "spawn", "running"} => steps' # <<>>
    BY <2>1, <2>2, FailedStepSteps
  <2>4. WithinPlan
    BY <2>1, <2>3 DEF WithinPlan
  <2> QED
    BY <2>3, <2>4, WithinPlanKeeps
<1>6. CASE FfmpegSucceeds
  <2>1. /\ UNCHANGED <<settings, probes, layout>> /\ steps # <<>>
        /\ WriteOut("whole") /\ steps' = Tail(steps) /\ pc' = "step"
    BY <1>0, <1>6 DEF FfmpegSucceeds, StepSucceeds
  <2>2. WithinPlan
    BY <2>1, FileOfStep DEF WithinPlan
  <2> QED
    BY <2>1, <2>2, WithinPlanKeeps
<1>7. CASE FfmpegExits \/ FfmpegKilled \/ FfmpegStalls
  <2>1. UNCHANGED <<settings, probes, layout>> /\ steps # <<>>
    BY <1>0, <1>7 DEF FfmpegExits, FfmpegKilled, FfmpegStalls
  <2>2. (\E state : SetFile(state)) /\ (\E kind : StepFails(kind))
    BY <1>7 DEF FfmpegExits, FfmpegKilled, FfmpegStalls
  <2>3. /\ steps' = steps \/ (steps # <<>> /\ steps' = Tail(steps))
        /\ pc' \notin {"probe", "plan"}
        /\ pc' \in {"encoder", "start", "spawn", "running"} => steps' # <<>>
    BY <2>1, <2>2, FailedStepSteps
  <2>4. WithinPlan
    BY <2>1, <2>2, <2>3, FileOfStep DEF WithinPlan
  <2> QED
    BY <2>3, <2>4, WithinPlanKeeps
<1>8. CASE Cancel \/ UNCHANGED vars
  <2>1. UNCHANGED <<settings, probes, layout, steps, disk, pc>>
    BY <1>8 DEF Cancel, vars
  <2>2. WithinPlan
    BY <2>1 DEF WithinPlan
  <2> QED
    BY <1>0, <2>1, <2>2, WithinPlanKeeps
<1> QED
  BY <1>1, <1>2, <1>3, <1>4, <1>5, <1>6, <1>7, <1>8 DEF Next, JobStep, FfmpegEnds

LEMMA PlanInvAlways == Spec => []PlanInv
BY PlanInit, PlanNext, PTL DEF Spec

\* With the timecode to be dropped, no file that a run of the converter
\* writes has it (planning.rs selected_channel_pairs and its callers).
THEOREM LtcNeverWritten == Spec => []NoLtcWritten
<1>1. PlanInv => NoLtcWritten
  BY DEF PlanInv, CleanInv, Drops, IsTimecode, NoLtcWritten
<1> QED
  BY <1>1, PlanInvAlways, PTL

-----------------------------------------------------------------------------
(* The files of a conversion of clips.                                     *)

Outs(q) == {st.out : st \in ToSet(q)}

LEMMA OutsArePaths == ASSUME NEW q PROVE Outs(q) = Paths(q)
BY DEF Outs, Paths, ToSet

LEMMA FileStepsAre ==
    ASSUME NEW s, s.map \in Seq(Nat), NEW file, NEW channels
    PROVE  IsSeq(PlanVideoOutputsForFile(s, file, channels))
<1>1. CASE s.split
  <2> DEFINE first == <<VideoOnly(file)>>
             rest == ChannelSteps(s, file, channels)
  <2>1. PlanVideoOutputsForFile(s, file, channels) = first \o rest
    BY <1>1 DEF PlanVideoOutputsForFile
  <2>2. IsSeq(first) /\ IsSeq(rest)
    BY SingleMember, ChannelStepsAre
  <2> HIDE DEF first, rest
  <2> QED
    BY <2>1, <2>2, JoinedSteps
<1>2. CASE ~s.split
  BY <1>2, SingleMember DEF PlanVideoOutputsForFile
<1> QED
  BY <1>1, <1>2

LEMMA LeastOf ==
    ASSUME NEW T, T \subseteq Nat, T # {}
    PROVE  Min(T) \in T
BY LeastNumber DEF Min

\* Where all clips are alike, each track becomes one file.
LEMMA ConcatStepsAre ==
    ASSUME NEW s, s.map \in Seq(Nat), NEW n \in Nat, NEW probe, probe # NoProbe,
           NEW ps, ps = [f \in 1 .. n |-> probe]
    PROVE  LET q == PlanConcatOutputs(s, ps)
           IN  /\ IsSeq(q) /\ Outs(q) = {AudioPath(1, i) : i \in DOMAIN q}
               /\ \A st \in ToSet(q) : st.type = "concat"
<1> DEFINE channels == ChannelsOf(ps[Min(WithAudio(ps))])
           selected == SelectedChannelPairs(s, channels)
           clips == SetToSortSeq(WithAudio(ps), <)
           m == Len(selected)
           q == PlanConcatOutputs(s, ps)
<1>1. DOMAIN ps = 1 .. n /\ \A f \in 1 .. n : ps[f] = probe
  OBVIOUS
<1>2. CASE WithAudio(ps) = {}
  <2>1. q = <<>>
    BY <1>2 DEF PlanConcatOutputs
  <2> HIDE DEF q
  <2> QED
    BY <2>1, NoSteps DEF q, Outs
<1>3. CASE WithAudio(ps) # {}
  <2>1. Consistent(ps)
    <3>1. WithAudio(ps) \subseteq 1 .. n
      BY <1>1 DEF WithAudio
    <3>2. Min(WithAudio(ps)) \in 1 .. n
      <4>1. WithAudio(ps) \subseteq Nat
        BY <3>1
      <4> QED
        BY <1>3, <3>1, <4>1, LeastOf
    <3> DEFINE probed == {f \in DOMAIN ps : ps[f] # NoProbe}
    <3>3. probed \subseteq 1 .. n /\ probed # {}
      BY <1>1, <1>3, <3>1
    <3> HIDE DEF probed
    <3>4. Min(probed) \in 1 .. n
      <4>1. probed \subseteq Nat
        BY <3>3
      <4> QED
        BY <3>3, <4>1, LeastOf
    <3>5. /\ ps[Min(WithAudio(ps))] = probe /\ ps[Min(probed)] = probe
          /\ \A f \in WithAudio(ps) : ps[f] = probe
      BY <1>1, <3>1, <3>2, <3>4
    <3> QED
      BY <3>5 DEF Consistent, probed
  <2> DEFINE segments(i) == Mapped(clips, LAMBDA f : <<f, selected[i].pair>>)
  <2>2. q = [i \in DOMAIN selected |-> AudioChannelConcat(segments(i), i)]
    BY <1>3, <2>1 DEF PlanConcatOutputs
  <2>3. m \in Nat /\ DOMAIN selected = 1 .. m
    BY SelectedAre
  <2> HIDE DEF clips, selected, channels, q, m, segments
  <2>4. q = [i \in 1 .. m |-> q[i]]
    BY <2>2, <2>3
  <2>5. IsSeq(q) /\ DOMAIN q = 1 .. m /\ ToSet(q) = {q[i] : i \in 1 .. m}
    BY <2>3, <2>4, ListIsSeq
  <2>6. \A i \in 1 .. m : q[i].out = AudioPath(1, i) /\ q[i].type = "concat"
    BY <2>2, <2>3 DEF AudioChannelConcat, Step
  <2>7. Outs(q) = {AudioPath(1, i) : i \in DOMAIN q}
    BY <2>5, <2>6 DEF Outs
  <2> QED
    BY <2>5, <2>6, <2>7 DEF q
<1> QED
  BY <1>2, <1>3

\* The list shown beforehand names the files of the plan.
LEMMA PreviewOfPlan ==
    ASSUME NEW s, s.map \in Seq(Nat), s.inputs \in Nat, NEW probe, NEW ps,
           ps = [f \in 1 .. s.inputs |-> probe], s.inputs # 0 => probe # NoProbe
    PROVE  LET q == PlanVideoSteps(s, ps)
           IN  /\ IsSeq(q) /\ Outs(q) = VideoPreview(s, probe)
               /\ UsesConcat(s) => \A st \in ToSet(q) : st.type # "channel"
<1> DEFINE n == s.inputs
           q == PlanVideoSteps(s, ps)
<1>1. DOMAIN ps = 1 .. n /\ \A f \in 1 .. n : ps[f] = probe
  OBVIOUS
<1>2. CASE UsesConcat(s)
  <2> DEFINE first == Mapped(Upto(n), VideoOnly)
             rest == PlanConcatOutputs(s, ps)
  <2>1. q = first \o rest
    BY <1>2 DEF PlanVideoSteps
  <2>2. first = [i \in 1 .. n |-> first[i]] /\ \A i \in 1 .. n : first[i] = VideoOnly(i)
    BY DEF Mapped, Upto
  <2>3. /\ IsSeq(rest) /\ Outs(rest) = {AudioPath(1, i) : i \in DOMAIN rest}
        /\ \A st \in ToSet(rest) : st.type = "concat"
    <3>1. CASE n = 0
      <4>1. WithAudio(ps) = {}
        BY <1>1, <3>1 DEF WithAudio
      <4>2. rest = <<>>
        BY <4>1 DEF PlanConcatOutputs
      <4> HIDE DEF rest
      <4> QED
        BY <4>2, NoSteps DEF Outs
    <3>2. CASE n # 0
      <4>1. n \in Nat /\ probe # NoProbe /\ ps = [f \in 1 .. n |-> probe]
        BY <3>2
      <4> HIDE DEF n, first
      <4> QED BY ONLY <4>1, s.map \in Seq(Nat), ConcatStepsAre
    <3> QED
      BY <3>1, <3>2
  <2>4. VideoPreview(s, probe) = {VideoPath(f) : f \in 1 .. n} \cup {AudioPath(1, i) : i \in DOMAIN rest}
    BY <1>2 DEF VideoPreview
  <2> HIDE DEF first, rest, q
  <2>5. IsSeq(first) /\ ToSet(first) = {first[i] : i \in 1 .. n}
    BY <2>2, ListIsSeq
  <2>6. Outs(first) = {VideoPath(f) : f \in 1 .. n} /\ \A st \in ToSet(first) : st.type = "video"
    <3>1. \A i \in 1 .. n : first[i].out = VideoPath(i) /\ first[i].type = "video"
      <4>1. \A i : VideoOnly(i).out = VideoPath(i) /\ VideoOnly(i).type = "video"
        BY DEF VideoOnly, Step
      <4> QED
        BY <2>2, <4>1
    <3>2. Outs(first) = {first[i].out : i \in 1 .. n}
      BY <2>5 DEF Outs
    <3>3. {first[i].out : i \in 1 .. n} = {VideoPath(f) : f \in 1 .. n}
      BY <3>1
    <3>4. \A st \in ToSet(first) : st.type = "video"
      BY <2>5, <3>1
    <3> QED
      BY <3>2, <3>3, <3>4
  <2>7. IsSeq(first \o rest) /\ ToSet(first \o rest) = ToSet(first) \cup ToSet(rest)
    BY <2>3, <2>5, JoinedSteps
  <2>8. Outs(first \o rest) = Outs(first) \cup Outs(rest)
    BY <2>7 DEF Outs
  <2>9. \A st \in ToSet(first \o rest) : st.type # "channel"
    BY <2>3, <2>6, <2>7
  <2>10. Outs(first \o rest) = VideoPreview(s, probe)
    BY <2>3, <2>4, <2>6, <2>8
  <2>11. IsSeq(q) /\ Outs(q) = VideoPreview(s, probe) /\ \A st \in ToSet(q) : st.type # "channel"
    BY <2>1, <2>7, <2>9, <2>10
  <2> QED
    BY <2>11 DEF q
<1>3. CASE ~UsesConcat(s)
  <2> DEFINE of(f) == PlanVideoOutputsForFile(s, f, ChannelsOf(ps[f]))
             seqs == [f \in DOMAIN ps |-> of(f)]
  <2>1. q = FlattenSeq(seqs)
    BY <1>3 DEF PlanVideoSteps
  <2>2. \A f \in 1 .. n : IsSeq(of(f))
    BY FileStepsAre
  <2>3. \A f \in 1 .. n : of(f) = PlanVideoOutputsForFile(s, f, probe.channels)
    <3> SUFFICES ASSUME NEW f \in 1 .. n PROVE of(f) = PlanVideoOutputsForFile(s, f, probe.channels)
      OBVIOUS
    <3>1. n # 0
      OBVIOUS
    <3>2. ChannelsOf(ps[f]) = probe.channels
      BY <1>1, <3>1 DEF ChannelsOf
    <3> QED
      BY <3>2
  <2> HIDE DEF of, q
  <2>4. seqs = [f \in 1 .. n |-> seqs[f]] /\ \A f \in 1 .. n : seqs[f] = of(f)
    BY <1>1
  <2> HIDE DEF seqs
  <2>5. /\ IsSeq(FlattenSeq(seqs))
        /\ ToSet(FlattenSeq(seqs)) = UNION {ToSet(seqs[f]) : f \in 1 .. n}
    <3>1. \A f \in 1 .. n : IsSeq(seqs[f])
      BY <2>2, <2>4
    <3>2. n \in Nat
      OBVIOUS
    <3> HIDE DEF n
    <3> QED
      BY <2>4, <3>1, <3>2, FlattenedSteps
  <2>6. Outs(FlattenSeq(seqs)) = UNION {Outs(of(f)) : f \in 1 .. n}
    <3>1. \A st : st \in ToSet(FlattenSeq(seqs)) <=> \E f \in 1 .. n : st \in ToSet(of(f))
      BY <2>4, <2>5
    <3> QED
      BY <3>1 DEF Outs
  <2>7. VideoPreview(s, probe) = UNION {Outs(of(f)) : f \in 1 .. n}
    <3>1. \A f \in 1 .. n : Outs(of(f)) = Paths(PlanVideoOutputsForFile(s, f, probe.channels))
      BY <2>3, OutsArePaths
    <3> DEFINE paths(f) == Paths(PlanVideoOutputsForFile(s, f, probe.channels))
    <3>2. VideoPreview(s, probe) = IF probe = NoProbe THEN {VideoPath(f) : f \in 1 .. n}
                                   ELSE UNION {paths(f) : f \in 1 .. n}
      BY <1>3 DEF VideoPreview
    <3>3. \A f \in 1 .. n : Outs(of(f)) = paths(f)
      BY <3>1
    <3> HIDE DEF paths
    <3>6. {paths(f) : f \in 1 .. n} = {Outs(of(f)) : f \in 1 .. n}
      BY <3>3
    <3>4. CASE n # 0
      <4>1. probe # NoProbe
        BY <3>4
      <4> QED
        BY <3>2, <3>6, <4>1
    <3>5. CASE n = 0
      <4>1. 1 .. n = {}
        BY <3>5
      <4>2. {VideoPath(f) : f \in 1 .. n} = {} /\ {Outs(of(f)) : f \in 1 .. n} = {}
        BY <4>1
      <4> QED
        BY <3>2, <3>6, <4>2
    <3> QED
      BY <3>4, <3>5
  <2> QED
    BY <1>3, <2>1, <2>5, <2>6, <2>7 DEF q
<1> QED
  BY <1>2, <1>3

-----------------------------------------------------------------------------
(* A conversion of clips that succeeds has written what was listed.        *)

\* Nothing has gone wrong with the plan so far, and it is there.
Smooth ==
    Pipeline = "video" /\ AsProbed /\ ~failed /\ ~cancelled /\ pc \notin {"probe", "plan"}
\* All files are whole, except perhaps that of the first step to do.
WholeButOut(files, todo) ==
    \A o \in DOMAIN files :
        files[o].state = "whole" \/ (todo # <<>> /\ o = Head(todo).out)

\* What has been written and what is still to be are the files of the list.
Listed ==
    Smooth =>
        /\ IsSeq(steps) /\ \A st \in ToSet(steps) : ~Skipped(st)
        /\ pc \in {"tag", "tagging", "finish", "done"} => steps = <<>>
        /\ DOMAIN disk \cup Outs(steps) = PlanOutputPaths(settings, layout[1])
        /\ WholeButOut(disk, steps)
Closed ==
    /\ pc \in {"probe", "plan"} => disk = <<>>
    /\ pc # "done" => outcome = None
    /\ outcome = "Succeeded" => pc = "done" /\ ~failed /\ ~cancelled
    /\ failed \in BOOLEAN /\ cancelled \in BOOLEAN

PreviewInv == Closed /\ Listed

LEMMA PreviewInit == Init => PreviewInv
BY ConversionAssumption DEF Init, PreviewInv, Closed, Listed, Smooth

LEMMA ClosedNext == Closed /\ [Next]_vars => Closed'
<1> SUFFICES ASSUME Closed, [Next]_vars PROVE Closed'
  OBVIOUS
<1> USE DEF Goto, endVars, tagVars, encoderVars, planVars, Closed
<1>1. CASE ProbeClip \/ Plan \/ ProbingEnds
  BY <1>1 DEF ProbeClip, Plan, ProbingEnds, Stop
<1>2. CASE StepsCancelled \/ SkipStep \/ BeginStep \/ StepsDone \/ NextCandidate \/ SkipCandidate
           \/ NextTag \/ TagAndRename \/ SummarizeMetadataFailures
  BY <1>2 DEF StepsCancelled, SkipStep, BeginStep, StepsDone, NextCandidate, SkipCandidate,
              GiveUpCandidate, NextTag, TagAndRename, SummarizeMetadataFailures, Stop
<1>3. CASE StartFfmpeg \/ SpawnFfmpeg \/ FfmpegEnds \/ FfmpegKilled
  <2>1. pc \in {"start", "spawn", "running"} /\ cancelled' = cancelled
    BY <1>3 DEF StartFfmpeg, SpawnFfmpeg, FfmpegEnds, FfmpegSucceeds, FfmpegExits, FfmpegStalls,
                FfmpegKilled
  <2>2. \/ \E kind : StepFails(kind)
        \/ pc' \in {"spawn", "running", "step"} /\ UNCHANGED endVars
    BY <1>3 DEF StartFfmpeg, SpawnFfmpeg, FfmpegEnds, FfmpegSucceeds, StepSucceeds, FfmpegExits,
                FfmpegStalls, FfmpegKilled
  <2>3. pc' \notin {"probe", "plan", "done"} /\ outcome' = outcome /\ failed' \in BOOLEAN
    BY <2>2 DEF StepFails, Stop
  <2> QED
    BY <2>1, <2>3
<1>4. CASE Finish
  BY <1>4, ConversionAssumption DEF Finish
<1>5. CASE Cancel
  <2>1. pc # "done" /\ cancelled' = TRUE /\ UNCHANGED <<pc, disk, outcome, failed>>
    BY <1>5 DEF Cancel
  <2>2. outcome # "Succeeded"
    BY <2>1, ConversionAssumption
  <2> QED
    BY <2>1, <2>2
<1>6. CASE UNCHANGED vars
  BY <1>6 DEF vars
<1> QED
  BY <1>1, <1>2, <1>3, <1>4, <1>5, <1>6 DEF Next, JobStep

LEMMA HeadAndTail ==
    ASSUME NEW q, IsSeq(q), q # <<>>
    PROVE  ToSet(q) \subseteq {Head(q)} \cup ToSet(Tail(q))
<1> DEFINE T == ToSet(q)
<1>1. q \in Seq(T)
  BY DEF IsSeq
<1> HIDE DEF T
<1>2. /\ DOMAIN q = 1 .. Len(q) /\ Len(q) \in Nat /\ DOMAIN Tail(q) = 1 .. Len(q) - 1
      /\ Head(q) = q[1] /\ \A i \in 1 .. Len(q) - 1 : Tail(q)[i] = q[i + 1]
  BY <1>1
<1>3. \A i \in 1 .. Len(q) : i = 1 \/ (i - 1 \in 1 .. Len(q) - 1 /\ q[i] = Tail(q)[i - 1])
  BY <1>2
<1>4. ASSUME NEW x \in ToSet(q) PROVE x = Head(q) \/ x \in ToSet(Tail(q))
  <2>1. PICK i \in 1 .. Len(q) : x = q[i]
    BY <1>2, <1>4 DEF ToSet
  <2>2. i = 1 \/ (i - 1 \in DOMAIN Tail(q) /\ x = Tail(q)[i - 1])
    BY <1>2, <1>3, <2>1
  <2> QED
    BY <1>2, <2>1, <2>2 DEF ToSet
<1> QED
  BY <1>4

\* Apart from the files, the run goes on within what was planned.
LEMMA ListedKeeps ==
    ASSUME Closed', Listed, UNCHANGED <<settings, probes, layout>>,
           pc \notin {"probe", "plan"}, failed => failed', cancelled => cancelled',
           steps' = steps, disk' = disk,
           ~failed' /\ ~cancelled' /\ pc' \in {"tag", "tagging", "finish", "done"}
               => pc \in {"tag", "tagging", "finish", "done"} \/ steps = <<>>
    PROVE  Listed'
<1> SUFFICES ASSUME Smooth' PROVE Listed'
  BY DEF Listed
<1>1. Smooth
  BY DEF Smooth, AsProbed, Pipeline
<1>2. PlanOutputPaths(settings, layout[1])' = PlanOutputPaths(settings, layout[1])
  OBVIOUS
<1>3. \A st : Skipped(st)' <=> Skipped(st)
  BY DEF Skipped, Pipeline
<1>4. ~failed' /\ ~cancelled' /\ Pipeline = "video"
  BY DEF Smooth, Pipeline
<1> QED
  BY <1>1, <1>2, <1>3, <1>4 DEF Listed

\* The file of the first step is there and whole, and the step taken off.
LEMMA ListedSucceeds ==
    ASSUME PlanInv, Listed, FfmpegSucceeds
    PROVE  Listed'
<1> SUFFICES ASSUME Smooth' PROVE Listed'
  BY DEF Listed
<1>1. /\ UNCHANGED <<settings, probes, layout, failed, cancelled>> /\ pc = "running"
      /\ pc' = "step" /\ steps' = Tail(steps) /\ WriteOut("whole")
  BY DEF FfmpegSucceeds, StepSucceeds, planVars, endVars, Goto
<1>2. Smooth
  BY <1>1 DEF Smooth, AsProbed, Pipeline
<1>3. steps # <<>>
  BY <1>1 DEF PlanInv, StepsInv
<1>4. IsSeq(steps) /\ IsSeq(steps') /\ ToSet(steps) = {Head(steps)} \cup ToSet(steps')
  <2>1. IsSeq(steps)
    BY <1>2 DEF Listed
  <2>2. IsSeq(Tail(steps)) /\ ToSet(Tail(steps)) \subseteq ToSet(steps) /\ Head(steps) \in ToSet(steps)
    BY <1>3, <2>1, TailSteps
  <2>3. ToSet(steps) \subseteq {Head(steps)} \cup ToSet(Tail(steps))
    BY <1>3, <2>1, HeadAndTail
  <2> QED
    BY <1>1, <2>1, <2>2, <2>3
<1>5. Outs(steps) = {Out} \cup Outs(steps')
  BY <1>4 DEF Outs, Out
<1>6. /\ DOMAIN disk' = DOMAIN disk \cup {Out}
      /\ \A o \in DOMAIN disk' :
            disk'[o].state = "whole" \/ (o # Out /\ o \in DOMAIN disk /\ disk'[o] = disk[o])
  BY <1>1 DEF WriteOut
<1>7. \A st : Skipped(st)' <=> Skipped(st)
  BY <1>1 DEF Skipped, Pipeline
<1>8. PlanOutputPaths(settings, layout[1])' = PlanOutputPaths(settings, layout[1])
  BY <1>1
<1>9. /\ \A st \in ToSet(steps) : ~Skipped(st)
      /\ DOMAIN disk \cup Outs(steps) = PlanOutputPaths(settings, layout[1])
      /\ WholeButOut(disk, steps)
  BY <1>2 DEF Listed
<1>10. DOMAIN disk' \cup Outs(steps') = PlanOutputPaths(settings, layout[1])
  BY <1>5, <1>6, <1>9
<1>11. \A st \in ToSet(steps') : ~Skipped(st)'
  BY <1>4, <1>7, <1>9
<1>12. WholeButOut(disk', steps')
  BY <1>3, <1>6, <1>9 DEF WholeButOut, Out
<1> QED
  BY <1>1, <1>4, <1>8, <1>10, <1>11, <1>12 DEF Listed

\* The file of the first step may be gone or stuck, the step is still to be
\* done.
LEMMA ListedRetries ==
    ASSUME Listed, UNCHANGED <<settings, probes, layout, steps, cancelled>>, pc = "running",
           pc' = "encoder", failed' = failed, NEW state, SetFile(state), steps # <<>>
    PROVE  Listed'
<1> SUFFICES ASSUME Smooth' PROVE Listed'
  BY DEF Listed
<1>2. Smooth
  BY DEF Smooth, AsProbed, Pipeline
<1>3. /\ IsSeq(steps) /\ \A st \in ToSet(steps) : ~Skipped(st)
      /\ DOMAIN disk \cup Outs(steps) = PlanOutputPaths(settings, layout[1])
      /\ WholeButOut(disk, steps)
  BY <1>2 DEF Listed
<1>4. Out \in Outs(steps)
  BY <1>3, TailSteps DEF Outs, Out
<1>5. /\ DOMAIN disk' \in {DOMAIN disk \ {Out}, DOMAIN disk, DOMAIN disk \cup {Out}}
      /\ \A o \in DOMAIN disk' : o # Out => o \in DOMAIN disk /\ disk'[o] = disk[o]
  BY DEF SetFile, WriteOut
<1>6. \A st : Skipped(st)' <=> Skipped(st)
  BY DEF Skipped, Pipeline
<1>7. PlanOutputPaths(settings, layout[1])' = PlanOutputPaths(settings, layout[1])
  OBVIOUS
<1>8. DOMAIN disk' \cup Outs(steps') = PlanOutputPaths(settings, layout[1])
  BY <1>3, <1>4, <1>5
<1>9. WholeButOut(disk', steps')
  BY <1>3, <1>5 DEF WholeButOut, Out
<1> QED
  BY <1>3, <1>6, <1>7, <1>8, <1>9 DEF Listed

\* The plan itself.
LEMMA ListedPlan ==
    ASSUME PlanInv, Closed, Plan
    PROVE  Listed'
<1> SUFFICES ASSUME Smooth' PROVE Listed'
  BY DEF Listed
<1>1. /\ UNCHANGED <<settings, probes, layout, disk>> /\ disk = <<>> /\ pc' = "step"
      /\ steps' = PlanSteps(settings, probes)
  BY DEF Plan, planVars, Goto, Closed
<1>2. Pipeline = "video" /\ AsProbed
  BY <1>1 DEF Smooth, AsProbed, Pipeline
<1> DEFINE s == settings
           n == s.inputs
           probe == layout[1]
           q == PlanVideoSteps(s, probes)
<1>3. /\ s.map \in Seq(Nat) /\ n \in Nat
      /\ DOMAIN layout = 1 .. n /\ \A f \in DOMAIN layout : layout[f] # NoProbe
  BY DEF PlanInv, StartInv
<1>4. probes = [f \in 1 .. n |-> probe]
  <2>1. probes \in Seq(ToSet(probes)) /\ Len(probes) = n
    BY <1>2 DEF PlanInv, ProbesInv, IsSeq, AsProbed
  <2>2. DOMAIN probes = 1 .. n /\ probes = [f \in 1 .. n |-> probes[f]]
    BY <2>1
  <2>3. \A f \in 1 .. n : probes[f] = probe
    BY <1>2, <2>2 DEF AsProbed
  <2> HIDE DEF n, probe
  <2> QED
    BY <2>2, <2>3
<1>5. n # 0 => probe # NoProbe
  BY <1>3
<1>6. /\ IsSeq(q) /\ Outs(q) = VideoPreview(s, probe)
      /\ UsesConcat(s) => \A st \in ToSet(q) : st.type # "channel"
  BY <1>3, <1>4, <1>5, PreviewOfPlan
<1>7. steps' = q
  BY <1>1, <1>2 DEF PlanSteps, Pipeline
<1>8. PlanOutputPaths(settings', layout'[1]) = VideoPreview(s, probe)
  BY <1>1, <1>2 DEF PlanOutputPaths, Pipeline
<1> HIDE DEF q, probe
<1>9. \A st \in ToSet(steps') : ~Skipped(st)'
  BY <1>1, <1>6, <1>7 DEF Skipped
<1>10. DOMAIN disk' \cup Outs(steps') = VideoPreview(s, probe)
  BY <1>1, <1>6, <1>7
<1>11. DOMAIN disk' = {}
  BY <1>1
<1> QED
  BY <1>1, <1>6, <1>7, <1>8, <1>9, <1>10, <1>11 DEF Listed, WholeButOut

LEMMA ListedNext == PlanInv /\ PreviewInv /\ [Next]_vars => Listed'
<1> SUFFICES ASSUME PlanInv, Closed, Listed, [Next]_vars PROVE Listed'
  BY DEF PreviewInv
<1> USE DEF Goto, endVars, tagVars, encoderVars, planVars
<1>0. Closed'
  BY ClosedNext
<1>1. CASE ProbeClip \/ ProbingEnds
  <2>1. pc = "probe" /\ (pc' \in {"probe", "plan"} \/ Pipeline' = "metadata")
    BY <1>1 DEF ProbeClip, ProbingEnds, Stop, Pipeline
  <2> QED
    BY <2>1 DEF Listed, Smooth
<1>2. CASE Plan
  BY <1>2, ListedPlan
<1>3. CASE SkipStep
  <2>1. /\ steps # <<>> /\ Skipped(Head(steps)) /\ pc = "step" /\ ~cancelled
        /\ UNCHANGED <<settings, probes, layout, failed, cancelled>>
    BY <1>3 DEF SkipStep
  <2>2. ASSUME Smooth PROVE FALSE
    <3>1. IsSeq(steps) /\ \A st \in ToSet(steps) : ~Skipped(st)
      BY <2>2 DEF Listed
    <3> QED
      BY <2>1, <3>1, TailSteps
  <2>3. Smooth' => Smooth
    BY <2>1 DEF Smooth, AsProbed, Pipeline
  <2> QED
    BY <2>2, <2>3 DEF Listed
<1>4. CASE StepsCancelled \/ BeginStep \/ StepsDone \/ NextCandidate \/ SkipCandidate
           \/ NextTag \/ TagAndRename \/ SummarizeMetadataFailures \/ Finish
  <2>0. failed \in BOOLEAN /\ cancelled \in BOOLEAN
    BY DEF Closed
  <2>1. /\ UNCHANGED <<settings, probes, layout, disk, steps, cancelled>>
        /\ pc \notin {"probe", "plan"}
    BY <1>4
       DEF StepsCancelled, BeginStep, StepsDone, NextCandidate, SkipCandidate,
           GiveUpCandidate, NextTag, TagAndRename, SummarizeMetadataFailures, Finish
  <2>3. failed => failed'
    BY <2>0, <1>4
       DEF StepsCancelled, BeginStep, StepsDone, NextCandidate, SkipCandidate,
           GiveUpCandidate, NextTag, TagAndRename, SummarizeMetadataFailures, Finish, Stop
  <2>2. ~failed' /\ ~cancelled' /\ pc' \in {"tag", "tagging", "finish", "done"}
            => pc \in {"tag", "tagging", "finish", "done"} \/ steps = <<>>
    <3>1. CASE StepsCancelled \/ NextCandidate
      BY <2>0, <3>1 DEF StepsCancelled, NextCandidate, Stop
    <3>2. CASE BeginStep \/ SkipCandidate
      BY <3>2 DEF BeginStep, SkipCandidate
    <3>3. CASE StepsDone \/ NextTag \/ TagAndRename \/ SummarizeMetadataFailures \/ Finish
      BY <3>3 DEF StepsDone, NextTag, TagAndRename, SummarizeMetadataFailures, Finish
    <3> QED
      BY <1>4, <3>1, <3>2, <3>3
  <2> QED
    BY <1>0, <2>1, <2>2, <2>3, ListedKeeps
<1>5. CASE StartFfmpeg \/ SpawnFfmpeg
  <2>1. /\ UNCHANGED <<settings, probes, layout, disk, cancelled>> /\ steps # <<>>
        /\ pc \in {"start", "spawn"}
    BY <1>5 DEF StartFfmpeg, SpawnFfmpeg, PlanInv, StepsInv
  <2>2. CASE StepFails("fatal")
    <3>1. Pipeline # "video" \/ failed' = TRUE
      BY <2>2 DEF StepFails, Policy, Stop, Pipeline
    <3> QED
      BY <2>1, <3>1 DEF Listed, Smooth, Pipeline
  <2>3. CASE ~StepFails("fatal")
    <3>1. pc' \in {"spawn", "running"} /\ UNCHANGED <<steps, failed>>
      BY <1>5, <2>3 DEF StartFfmpeg, SpawnFfmpeg
    <3> QED
      BY <1>0, <2>1, <3>1, ListedKeeps
  <2> QED
    BY <2>2, <2>3
<1>6. CASE FfmpegSucceeds
  BY <1>6, ListedSucceeds
<1>7. CASE FfmpegExits
  <2>1. PICK f \in Leavings, reported \in BOOLEAN, large \in BOOLEAN :
          /\ \E state \in FileAfterExit(f, ProducedOutput(f, reported, large)) : SetFile(state)
          /\ StepFails(IF ProducedOutput(f, reported, large) THEN "fatal" ELSE "init")
    BY <1>7 DEF FfmpegExits
  <2>2. /\ UNCHANGED <<settings, probes, layout, cancelled>> /\ steps # <<>> /\ pc = "running"
    BY <1>7 DEF FfmpegExits, PlanInv, StepsInv
  <2>3. CASE ProducedOutput(f, reported, large)
    <3>1. Pipeline # "video" \/ failed' = TRUE
      BY <2>1, <2>3 DEF StepFails, Policy, Stop, Pipeline
    <3> QED
      BY <2>2, <3>1 DEF Listed, Smooth, Pipeline
  <2>4. CASE ~ProducedOutput(f, reported, large)
    <3>1. StepFails("init") /\ \E state : SetFile(state)
      BY <2>1, <2>4
    <3>2. \/ Pipeline # "video" \/ failed' = TRUE
          \/ pc' = "encoder" /\ UNCHANGED <<steps, failed>>
      BY <3>1 DEF StepFails, Policy, Stop, Pipeline, GiveUpCandidate
    <3>3. CASE Pipeline # "video" \/ failed' = TRUE
      BY <2>2, <3>3 DEF Listed, Smooth, Pipeline
    <3> QED
      BY <2>2, <3>1, <3>2, <3>3, ListedRetries
  <2> QED
    BY <2>3, <2>4
<1>8. CASE FfmpegKilled \/ FfmpegStalls
  <2>1. StepFails("fatal") /\ UNCHANGED <<settings, probes, layout, cancelled>>
    BY <1>8 DEF FfmpegKilled, FfmpegStalls
  <2>2. Pipeline # "video" \/ failed' = TRUE
    BY <2>1 DEF StepFails, Policy, Stop, Pipeline
  <2> QED
    BY <2>1, <2>2 DEF Listed, Smooth, Pipeline
<1>9. CASE Cancel
  BY <1>9 DEF Cancel, Listed, Smooth
<1>10. CASE UNCHANGED vars
  BY <1>10 DEF vars, Listed, Smooth, AsProbed, Pipeline, Skipped
<1> QED
  BY <1>1, <1>2, <1>3, <1>4, <1>5, <1>6, <1>7, <1>8, <1>9, <1>10 DEF Next, JobStep, FfmpegEnds

LEMMA PreviewInvAlways == Spec => [](PlanInv /\ PreviewInv)
<1>1. PlanInv /\ PreviewInv /\ [Next]_vars => PreviewInv'
  BY ClosedNext, ListedNext DEF PreviewInv
<1> QED
  BY PlanInit, PlanNext, PreviewInit, <1>1, PTL DEF Spec

\* A conversion of clips that succeeds has written what plan_output_paths
\* listed before it ran, where the clips are what the first one is.
THEOREM PreviewAlwaysWritten == Spec => []PreviewIsWritten
<1>1. PlanInv /\ PreviewInv => PreviewIsWritten
  <2> SUFFICES ASSUME PlanInv, Closed, Listed, outcome = "Succeeded", Pipeline = "video", AsProbed
               PROVE  DOMAIN disk = PlanOutputPaths(settings, layout[1]) /\ Whole = DOMAIN disk
    BY DEF PreviewInv, PreviewIsWritten
  <2>1. Smooth /\ pc = "done"
    BY DEF Closed, Smooth
  <2>2. /\ steps = <<>> /\ DOMAIN disk \cup Outs(steps) = PlanOutputPaths(settings, layout[1])
        /\ \A o \in DOMAIN disk : disk[o].state = "whole"
    BY <2>1 DEF Listed, WholeButOut
  <2>3. Outs(steps) = {}
    BY <2>2, NoSteps DEF Outs
  <2> QED
    BY <2>2, <2>3 DEF Whole
<1> QED
  BY <1>1, PreviewInvAlways, PTL

-----------------------------------------------------------------------------
(* Tagging.                                                                *)

LEMMA ClipsIsNat == Clips \in Nat
  BY StartsAssumption

-----------------------------------------------------------------------------
(* What the forms of a timecode say.                                       *)

LEMMA DivIsUnique ==
    ASSUME NEW a \in Nat, NEW b \in Nat, b > 0, NEW q \in Nat, q * b <= a, a < (q + 1) * b
    PROVE  a \div b = q
  <1>1. a = b * (a \div b) + (a % b) /\ 0 <= a % b /\ a % b < b /\ a \div b \in Int
    OBVIOUS
  <1> DEFINE d == a \div b
  <1>2. b * d <= a /\ a < b * (d + 1) /\ d \in Int
    BY <1>1
  <1> HIDE DEF d
  <1>3. ~(d >= q + 1)
    <2> SUFFICES ASSUME d >= q + 1 PROVE FALSE
      OBVIOUS
    <2>1. b * d >= b * (q + 1)
      BY <1>2
    <2> QED BY <1>2, <2>1
  <1>4. ~(d + 1 <= q)
    <2> SUFFICES ASSUME d + 1 <= q PROVE FALSE
      OBVIOUS
    <2>1. b * (d + 1) <= b * q
      BY <1>2
    <2> QED BY <1>2, <2>1
  <1> QED BY <1>2, <1>3, <1>4 DEF d

LEMMA DivBounds ==
    ASSUME NEW a \in Nat, NEW b \in Nat, b > 0
    PROVE  /\ a \div b \in Nat /\ b * (a \div b) <= a /\ a < b * (a \div b) + b
  <1>1. a = b * (a \div b) + (a % b) /\ 0 <= a % b /\ a % b < b /\ a \div b \in Int
    OBVIOUS
  <1> QED BY <1>1

LEMMA DivOfSum ==
    ASSUME NEW s \in Nat, NEW b \in Nat, NEW r \in Nat, r < b
    PROVE  (s * b + r) \div b = s /\ (s * b + r) % b = r
  <1>1. (s * b + r) \div b = s
    <2>1. s * b + r \in Nat /\ s * b <= s * b + r /\ s * b + r < (s + 1) * b /\ b > 0
      OBVIOUS
    <2> QED BY <2>1, DivIsUnique
  <1>2. s * b + r = b * ((s * b + r) \div b) + ((s * b + r) % b)
    OBVIOUS
  <1> QED BY <1>1, <1>2

\* A timecode that a second has room for.
Roomy(m) == 1000 <= m.fps /\ m.fps < 1000 * SampleRate /\ 1000 * m.frames + 500 <= m.fps

\* What is written fits in its place.
LEMMA CountsAreNumbers ==
    ASSUME NEW m \in Timecodes, Roomy(m)
    PROVE  FrameCount(m) \in Nat /\ TimeReference(m) \in Nat
  <1>1. m.seconds \in Nat /\ m.frames \in Nat /\ m.fps \in Nat /\ SampleRate \in Nat /\ m.fps > 0
    BY StartsAssumption DEF Timecodes, Roomy
  <1>2. m.fps \div 1000 \in Nat
    BY <1>1, DivBounds
  <1>3. (2000 * m.frames * SampleRate + m.fps) \div (2 * m.fps) \in Nat
    <2>1. 2000 * m.frames * SampleRate + m.fps \in Nat /\ 2 * m.fps \in Nat /\ 2 * m.fps > 0
      BY <1>1
    <2> QED BY <2>1, DivBounds
  <1> QED BY <1>1, <1>2, <1>3 DEF FrameCount, TimeReference

\* At a rate without a fraction the count of frames says the timecode.
LEMMA CountedBack ==
    ASSUME NEW m \in Timecodes, Roomy(m), m.fps % 1000 = 0
    PROVE  Counted(FrameCount(m), m.fps) = Text(m)
  <1>1. m.seconds \in Nat /\ m.frames \in Nat /\ m.fps \in Nat /\ 1000 * m.frames + 500 <= m.fps
    BY DEF Timecodes, Roomy
  <1> DEFINE n == m.fps \div 1000
  <1>2. n \in Nat /\ m.fps = 1000 * n
    BY <1>1
  <1>3. (m.fps + 999) \div 1000 = n
    BY <1>1
  <1> HIDE DEF n
  <1>4. m.frames < n
    BY <1>1, <1>2
  <1>5. (m.seconds * n + m.frames) \div n = m.seconds /\ (m.seconds * n + m.frames) % n = m.frames
    <2>1. ASSUME NEW s \in Nat, NEW f \in Nat, f < n
          PROVE  (s * n + f) \div n = s /\ (s * n + f) % n = f
      BY <1>2, <2>1, DivOfSum
    <2> QED BY <1>1, <1>4, <2>1
  <1>6. FrameCount(m) = m.seconds * n + m.frames
    BY DEF FrameCount, n
  <1> QED BY <1>3, <1>5, <1>6 DEF Counted, Text

\* At any rate the count of samples says it, when there are more samples
\* than frames.
LEMMA SampledBack ==
    ASSUME NEW m \in Timecodes, Roomy(m)
    PROVE  Sampled(TimeReference(m), m.fps) = Text(m)
  <1> DEFINE s == m.seconds
             f == m.frames
             r == m.fps
             w == SampleRate
             q == (2000 * f * w + r) \div (2 * r)
  <1>1. /\ s \in Nat /\ f \in Nat /\ r \in Nat /\ w \in Nat
        /\ 1000 <= r /\ r < 1000 * w /\ 1000 * f + 500 <= r /\ w > 0
    BY StartsAssumption DEF Timecodes, Roomy
  <1>2. TimeReference(m) = s * w + q
    BY DEF TimeReference
  <1> HIDE DEF s, f, r, w, q
  <1> DEFINE fw == f * w
             rw == r * w
             qr == q * r
  <1>3. q \in Nat /\ 2 * qr <= 2000 * fw + r /\ 2000 * fw + r < 2 * qr + 2 * r
    <2>1. 2000 * f * w + r \in Nat /\ 2 * r \in Nat /\ 2 * r > 0
      BY <1>1
    <2>2. q \in Nat /\ 2 * r * q <= 2000 * f * w + r /\ 2000 * f * w + r < 2 * r * q + 2 * r
      BY <2>1, DivBounds DEF q
    <2>3. 2 * r * q = 2 * (q * r) /\ 2000 * f * w = 2000 * (f * w)
      BY <1>1, <2>2
    <2> QED BY <2>2, <2>3
  <1>4. fw \in Nat /\ rw \in Nat /\ qr \in Nat
    BY <1>1, <1>3
  <1>5. 1000 * fw + 500 * w <= rw
    <2>1. (1000 * f + 500) * w <= r * w
      BY <1>1
    <2>2. (1000 * f + 500) * w = 1000 * (f * w) + 500 * w
      BY <1>1
    <2> QED BY <2>1, <2>2
  <1>6. q < w
    <2>1. SUFFICES ASSUME q >= w PROVE FALSE
      BY <1>1, <1>3
    <2>2. q * r >= w * r
      BY <1>1, <1>3, <2>1
    <2>3. w * r = r * w
      BY <1>1
    <2>4. qr >= rw
      BY <2>2, <2>3
    <2> HIDE DEF fw, rw, qr
    <2> QED BY <1>1, <1>3, <1>4, <1>5, <2>4
  <1>7. TimeReference(m) \div w = s /\ TimeReference(m) % w = q
    BY <1>1, <1>2, <1>3, <1>6, DivOfSum
  <1>8. (2 * q * r + 1000 * w) \div (2000 * w) = f
    <2>1. 2 * q * r = 2 * qr /\ f * (2000 * w) = 2000 * fw /\ (f + 1) * (2000 * w) = 2000 * fw + 2000 * w
      BY <1>1, <1>3
    <2> HIDE DEF fw, rw, qr
    <2>2. 2000 * fw <= 2 * qr + 1000 * w /\ 2 * qr + 1000 * w < 2000 * fw + 2000 * w
      BY <1>1, <1>3, <1>4, <1>5
    <2>3. 2 * q * r + 1000 * w \in Nat /\ 2000 * w \in Nat /\ 2000 * w > 0
      BY <1>1, <1>3
    <2>4. f * (2000 * w) <= 2 * q * r + 1000 * w /\ 2 * q * r + 1000 * w < (f + 1) * (2000 * w)
      BY <2>1, <2>2
    <2> QED BY <1>1, <2>3, <2>4, DivIsUnique
  <1> QED BY <1>7, <1>8 DEF Sampled, Text, s, f, r, w

-----------------------------------------------------------------------------
(* The inductive invariant.                                                *)

TypeInv ==
    /\ dir \in [DOMAIN dir -> Files] /\ DOMAIN dir \subseteq Names
    /\ session \in 0 .. MaxSessions /\ (Running => session # 0) /\ template \in Templates
    /\ inputs \in [1 .. Clips -> Names]
    /\ current \in 1 .. Clips + 1
    /\ phase \in {"idle", "clip", "mp4", "mdat", "moov", "wav", "size", "sync", "ffmpeg",
               "replace", "rename", "done"}
    /\ phase \in {"mdat", "moov"} => moov \in Parts

\* The clips that are still to be done lie where the session has found them.
InputsInv ==
    Running => \A c \in current .. Clips : inputs[c] \in DOMAIN dir /\ dir[inputs[c]].clip = c

\* What is about to replace the original is the same clip.
TmpInv ==
    /\ phase \notin {"idle", "clip", "done"} => current \in 1 .. Clips
    /\ phase = "replace" => /\ Path \in DOMAIN tmp
                         /\ tmp[Path] \in Files /\ tmp[Path].clip = current /\ HasMedia(tmp[Path])

IInv == TypeInv /\ InputsInv /\ TmpInv /\ NothingLost

-----------------------------------------------------------------------------
(* What is done to a file keeps the clip and its media.                    *)

Kept(f, g) == g \in Files /\ g.clip = f.clip /\ (HasMedia(f) => HasMedia(g))

LEMMA EmptySequences == <<>> \in Seq(Tracks) /\ <<>> \in Seq(Nat)
  OBVIOUS

LEMMA PartIsPart ==
    ASSUME NEW type \in PartTypes
    PROVE  /\ Part(type) \in Parts /\ Part(type).type = type /\ Part(type).whole = TRUE
           /\ Part(type).tracks = <<>> /\ Part(type).time = <<>>
  BY EmptySequences DEF Part, Parts

LEMMA HoldingIsPart ==
    ASSUME NEW type \in PartTypes, NEW time \in Seq(Nat)
    PROVE  /\ Holding(type, time) \in Parts /\ Holding(type, time).type = type
           /\ Holding(type, time).whole = TRUE /\ Holding(type, time).time = time
  BY PartIsPart DEF Holding, Parts

LEMMA MoovIsPart ==
    ASSUME NEW tracks \in Seq(Tracks)
    PROVE  /\ Moov(tracks) \in Parts /\ Moov(tracks).type = "moov"
           /\ Moov(tracks).whole = TRUE /\ Moov(tracks).tracks = tracks
  <1>1. "moov" \in PartTypes
    BY DEF PartTypes
  <1> QED BY <1>1, PartIsPart DEF Moov, Parts

LEMMA TextIsSequence ==
    ASSUME NEW m \in Timecodes
    PROVE  Text(m) \in Seq(Nat) /\ Len(Text(m)) # 1
  BY DEF Text, Timecodes

\* What a part says.
LEMMA TextIsSaid ==
    ASSUME NEW m \in Timecodes, NEW f, NEW fps
    PROVE  Says(f, Text(m), fps) = Text(m)
  <1> DEFINE time == Text(m)
  <1>1. Len(time) # 1
    BY TextIsSequence, Zenon
  <1> HIDE DEF time
  <1>2. Says(f, time, fps) = time
    BY ONLY <1>1, Zenon DEF Says
  <1> QED BY <1>2 DEF time

LEMMA CountIsSaid ==
    ASSUME NEW n, NEW f, NEW fps
    PROVE  /\ IsWav(f) => Says(f, <<n>>, fps) = Sampled(n, fps)
           /\ ~IsWav(f) => Says(f, <<n>>, fps) = Counted(n, fps)
  <1>1. Len(<<n>>) = 1 /\ <<n>>[1] = n
    OBVIOUS
  <1> QED BY ONLY <1>1 DEF Says

LEMMA AppendedKeeps ==
    ASSUME NEW f \in Files, NEW part \in Parts
    PROVE  Kept(f, Appended(f, part))
  <1>1. Append(f.parts, part) \in Seq(Parts)
    BY DEF Files
  <1>2. Appended(f, part) \in Files /\ Appended(f, part).clip = f.clip
        /\ Appended(f, part).parts = Append(f.parts, part)
    BY <1>1 DEF Appended, Files
  <1>3. ASSUME HasMedia(f) PROVE HasMedia(Appended(f, part))
    <2>1. PICK i \in DOMAIN f.parts : f.parts[i].type = "data" /\ f.parts[i].whole
      BY <1>3 DEF HasMedia
    <2>2. i \in DOMAIN Append(f.parts, part) /\ Append(f.parts, part)[i] = f.parts[i]
      BY <2>1 DEF Files
    <2> QED BY <1>2, <2>1, <2>2 DEF HasMedia
  <1> QED BY <1>2, <1>3 DEF Kept

\* One part is replaced, by one that is no less.
LEMMA ReplacedKeeps ==
    ASSUME NEW f \in Files, NEW i \in DOMAIN f.parts, NEW part \in Parts,
           f.parts[i].type = "data" /\ f.parts[i].whole => part.type = "data" /\ part.whole
    PROVE  Kept(f, [f EXCEPT !.parts = [@ EXCEPT ![i] = part]])
  <1> DEFINE parts == [f.parts EXCEPT ![i] = part]
             g == [f EXCEPT !.parts = [@ EXCEPT ![i] = part]]
  <1>1. parts \in Seq(Parts) /\ DOMAIN parts = DOMAIN f.parts
    BY DEF Files
  <1>2. g \in Files /\ g.clip = f.clip /\ g.parts = parts
    BY <1>1 DEF Files
  <1>3. ASSUME HasMedia(f) PROVE HasMedia(g)
    <2>1. PICK k \in DOMAIN f.parts : f.parts[k].type = "data" /\ f.parts[k].whole
      BY <1>3 DEF HasMedia
    <2>2. parts[k].type = "data" /\ parts[k].whole
      BY <2>1 DEF Files
    <2> QED BY <1>1, <1>2, <2>1, <2>2 DEF HasMedia
  <1> QED BY <1>2, <1>3 DEF Kept

\* What ffmpeg makes is all there, in the container it is told, with the
\* timecode where it says.
LEMMA RemuxedIsRight ==
    ASSUME NEW f \in Files, NEW m \in Timecodes
    PROVE  /\ Remuxed(f, m) \in Files /\ Remuxed(f, m).clip = f.clip
           /\ HasMedia(Remuxed(f, m)) /\ Intact(Remuxed(f, m))
           /\ Remuxed(f, m).ext = f.ext /\ Remuxed(f, m).format = ContainerFor(f.ext)
           /\ Carries(Remuxed(f, m), m)
  <1> DEFINE body == Holding("data", Text(m))
             moved == Moov(<<Track(1, 0), Track(2, 1)>>)
             header == Holding("header", Text(m))
             data == Part("data")
             g == Remuxed(f, m)
  <1>1. <<Track(1, 0), Track(2, 1)>> \in Seq(Tracks) /\ Track(2, 1).at = 1
    BY DEF Track, Tracks
  <1>2. "data" \in PartTypes /\ "header" \in PartTypes
    BY DEF PartTypes
  <1>3. /\ body \in Parts /\ body.type = "data" /\ body.whole = TRUE /\ body.time = Text(m)
        /\ header \in Parts /\ header.whole = TRUE /\ header.time = Text(m)
        /\ data \in Parts /\ data.type = "data" /\ data.whole = TRUE
    BY <1>2, TextIsSequence, PartIsPart, HoldingIsPart
  <1>4. /\ moved \in Parts /\ moved.type = "moov" /\ moved.whole = TRUE
        /\ moved.tracks = <<Track(1, 0), Track(2, 1)>>
    BY <1>1, MoovIsPart
  <1>5. 2 \in DOMAIN moved.tracks /\ moved.tracks[2].at = 1
    BY <1>1, <1>4
  <1>6. ContainerFor(f.ext) \in Kinds /\ ContainerFor(f.ext) # "wav"
    BY DEF ContainerFor, Kinds
  <1>7. RemuxedParts(ContainerFor(f.ext), m) =
            IF ContainerFor(f.ext) = "mp4" THEN <<body, moved>> ELSE <<header, data>>
    BY DEF RemuxedParts
  <1>8. \A fps : Says(g, Text(m), fps) = Text(m)
    BY TextIsSaid
  <1> HIDE DEF body, moved, header, data
  <1>9. RemuxedParts(ContainerFor(f.ext), m) \in Seq(Parts)
    BY <1>3, <1>4, <1>7
  <1>10. /\ g \in Files /\ g.clip = f.clip /\ g.ext = f.ext /\ g.format = ContainerFor(f.ext)
         /\ g.parts = RemuxedParts(ContainerFor(f.ext), m)
    BY <1>6, <1>9 DEF Remuxed, Files
  <1> HIDE DEF g
  <1>11. HasMedia(g) /\ Intact(g) /\ Carries(g, m)
    <2>1. CASE ContainerFor(f.ext) = "mp4"
      <3>1. /\ IsMp4(g) /\ ~IsWav(g) /\ DOMAIN g.parts = {1, 2}
            /\ g.parts[1] = body /\ g.parts[2] = moved
        BY <1>7, <1>10, <2>1 DEF IsMp4, IsWav
      <3>2. HasMedia(g) /\ Readable(g) /\ Intact(g)
        BY <1>3, <1>4, <3>1 DEF HasMedia, Readable, Intact
      <3>3. 1 \in Found(g)
        BY <1>3, <1>4, <1>5, <3>1 DEF Found
      <3> QED BY <1>3, <1>8, <3>1, <3>2, <3>3 DEF Carries
    <2>2. CASE ContainerFor(f.ext) # "mp4"
      <3>1. /\ ~IsMp4(g) /\ ~IsWav(g) /\ DOMAIN g.parts = {1, 2}
            /\ g.parts[1] = header /\ g.parts[2] = data
        BY <1>6, <1>7, <1>10, <2>2 DEF IsMp4, IsWav
      <3>2. HasMedia(g) /\ Readable(g) /\ Intact(g)
        BY <1>3, <3>1 DEF HasMedia, Readable, Intact
      <3>3. 1 \in Found(g)
        BY <1>3, <3>1 DEF Found
      <3> QED BY <1>3, <1>8, <3>1, <3>2, <3>3 DEF Carries
    <2> QED BY <2>1, <2>2
  <1> QED BY <1>10, <1>11 DEF g

-----------------------------------------------------------------------------
(* What is done to the folder keeps each clip once.                        *)

\* A clip that is there once has its media wherever it is found.
LEMMA FoundHasMedia ==
    ASSUME NEW d, EachOnce(d), NEW p \in DOMAIN d, d[p].clip \in 0 .. Clips
    PROVE  HasMedia(d[p])
  BY DEF EachOnce

LEMMA WriteKeeps ==
    ASSUME NEW d, d \in [DOMAIN d -> Files], EachOnce(d), NEW p \in DOMAIN d,
           NEW f, Kept(d[p], f)
    PROVE  /\ [d EXCEPT ![p] = f] \in [DOMAIN d -> Files]
           /\ EachOnce([d EXCEPT ![p] = f])
  <1> DEFINE e == [d EXCEPT ![p] = f]
  <1>1. e \in [DOMAIN d -> Files] /\ f.clip = d[p].clip /\ d[p].clip \in 0 .. Clips
    BY DEF Kept, Files
  <1>2. HasMedia(f)
    BY <1>1, FoundHasMedia DEF Kept
  <1>3. ASSUME NEW c \in 0 .. Clips
        PROVE  \E n \in DOMAIN e : /\ e[n].clip = c /\ HasMedia(e[n])
                                   /\ \A m \in DOMAIN e \ {n} : e[m].clip # c
    <2>1. PICK n \in DOMAIN d : /\ d[n].clip = c /\ HasMedia(d[n])
                                /\ \A m \in DOMAIN d \ {n} : d[m].clip # c
      BY DEF EachOnce
    <2>2. e[n].clip = c /\ HasMedia(e[n])
      BY <1>1, <1>2, <2>1
    <2>3. \A m \in DOMAIN e \ {n} : e[m].clip # c
      BY <1>1, <2>1
    <2> QED BY <2>2, <2>3
  <1> QED BY <1>1, <1>3 DEF EachOnce

LEMMA RenameKeeps ==
    ASSUME NEW d, d \in [DOMAIN d -> Files], EachOnce(d), NEW p \in DOMAIN d,
           NEW q, q \notin DOMAIN d, NEW e, e = With(Without(d, p), q, d[p])
    PROVE  /\ DOMAIN e = (DOMAIN d \ {p}) \cup {q}
           /\ e \in [DOMAIN e -> Files]
           /\ \A n \in DOMAIN d \ {p} : e[n] = d[n]
           /\ EachOnce(e)
  <1>1. /\ e = [n \in (DOMAIN d \ {p}) \cup {q} |-> IF n = q THEN d[p] ELSE d[n]]
    BY DEF With, Without
  <1>2. /\ DOMAIN e = (DOMAIN d \ {p}) \cup {q}
        /\ e[q] = d[p] /\ \A n \in DOMAIN d \ {p} : e[n] = d[n]
    BY <1>1
  <1>3. e \in [DOMAIN e -> Files]
    BY <1>1, <1>2
  <1>4. ASSUME NEW c \in 0 .. Clips
        PROVE  \E n \in DOMAIN e : /\ e[n].clip = c /\ HasMedia(e[n])
                                   /\ \A m \in DOMAIN e \ {n} : e[m].clip # c
    <2>1. PICK n \in DOMAIN d : /\ d[n].clip = c /\ HasMedia(d[n])
                                /\ \A m \in DOMAIN d \ {n} : d[m].clip # c
      BY DEF EachOnce
    <2>2. CASE n = p
      BY <1>2, <2>1, <2>2
    <2>3. CASE n # p
      BY <1>2, <2>1, <2>3
    <2> QED BY <2>2, <2>3
  <1>5. EachOnce(e)
    BY <1>4 DEF EachOnce
  <1> QED BY <1>2, <1>3, <1>5

-----------------------------------------------------------------------------
(* The steps.                                                              *)

\* The clip at work lies where it was found.
LEMMA PathIsThere ==
    ASSUME IInv, phase \notin {"idle", "clip", "done"}
    PROVE  /\ current \in 1 .. Clips /\ Path \in DOMAIN dir
           /\ File \in Files /\ File.clip = current /\ HasMedia(File)
  <1>1. current \in 1 .. Clips
    BY DEF IInv, TmpInv
  <1>2. Path \in DOMAIN dir /\ File.clip = current
    BY <1>1, ClipsIsNat DEF IInv, InputsInv, Running, Path, File
  <1>3. File \in Files
    BY <1>2 DEF IInv, TypeInv, File
  <1> QED BY <1>1, <1>2, <1>3, FoundHasMedia DEF IInv, NothingLost, Files, File

LEMMA MetaIsTime ==
    ASSUME IInv, phase \notin {"idle", "clip", "done"}
    PROVE  Meta \in Timecodes /\ Roomy(Meta)
  <1>1. session \in 1 .. MaxSessions /\ current \in 1 .. Clips
    BY PathIsThere, StartsAssumption DEF IInv, TypeInv, Running
  <1>2. Meta = Starts[session][current] /\ Starts[session] \in [1 .. Clips -> Timecodes]
    BY <1>1, StartsAssumption DEF Meta
  <1> QED BY <1>1, <1>2, StartsAssumption DEF Roomy

\* A step that leaves the folder alone, or writes to the clip at work what
\* keeps it.
LEMMA KeptInPlace ==
    ASSUME IInv, phase \notin {"idle", "clip", "done"},
           UNCHANGED <<sessionVars, current>>,
           dir' = dir \/ \E f : Kept(File, f) /\ Write(f)
    PROVE  /\ dir' \in [DOMAIN dir' -> Files] /\ DOMAIN dir' = DOMAIN dir
           /\ NothingLost'
           /\ \A c \in current .. Clips : inputs[c] \in DOMAIN dir' /\ dir'[inputs[c]].clip = c
  <1>1. CASE dir' = dir
    BY <1>1 DEF IInv, TypeInv, NothingLost, InputsInv, Running
  <1>2. ASSUME NEW f, Kept(File, f), Write(f)
        PROVE  /\ dir' \in [DOMAIN dir' -> Files] /\ DOMAIN dir' = DOMAIN dir
               /\ NothingLost'
               /\ \A c \in current .. Clips :
                     inputs[c] \in DOMAIN dir' /\ dir'[inputs[c]].clip = c
    <2>1. dir' = [dir EXCEPT ![Path] = f] /\ dir \in [DOMAIN dir -> Files]
      BY <1>2 DEF Write, IInv, TypeInv
    <2>2. dir' \in [DOMAIN dir -> Files] /\ NothingLost'
      BY <1>2, <2>1, PathIsThere, WriteKeeps DEF IInv, NothingLost, File
    <2>3. \A n \in DOMAIN dir : dir'[n].clip = dir[n].clip
      BY <1>2, <2>1, PathIsThere DEF Kept, File
    <2> QED BY <2>2, <2>3 DEF IInv, InputsInv, Running
  <1> QED BY <1>1, <1>2

\* What a step of the tagging of one clip must show.
LEMMA TagStep ==
    ASSUME IInv, phase \notin {"idle", "clip", "done"}, NEW label, Proceed(label),
           label \in {"mdat", "moov", "wav", "size", "sync", "ffmpeg", "replace", "rename"},
           dir' = dir \/ \E f : Kept(File, f) /\ Write(f),
           label \in {"mdat", "moov"} => moov' \in Parts,
           label = "replace" => TmpInv'
    PROVE  IInv'
  <1>1. UNCHANGED <<sessionVars, current>> /\ phase' = label
    BY DEF Proceed
  <1>2. /\ dir' \in [DOMAIN dir' -> Files] /\ DOMAIN dir' = DOMAIN dir
        /\ NothingLost'
        /\ \A c \in current .. Clips : inputs[c] \in DOMAIN dir' /\ dir'[inputs[c]].clip = c
    BY <1>1, KeptInPlace
  <1>3. TypeInv'
    BY <1>1, <1>2 DEF IInv, TypeInv, Running, sessionVars
  <1>4. InputsInv'
    BY <1>1, <1>2 DEF InputsInv, sessionVars
  <1>5. TmpInv'
    BY <1>1, PathIsThere DEF TmpInv
  <1> QED BY <1>2, <1>3, <1>4, <1>5 DEF IInv

\* Whether it succeeds or is cut short, appending a part keeps the file.
LEMMA AppendStep ==
    ASSUME IInv, phase \notin {"idle", "clip", "done"}, NEW part \in Parts, NEW next,
           AppendPart(part, next), next \in {"moov", "size", "sync"},
           next = "moov" => moov' \in Parts
    PROVE  IInv'
  <1>1. [part EXCEPT !.whole = FALSE] \in Parts
    BY DEF Parts
  <1>2. Kept(File, Appended(File, part)) /\ Kept(File, Appended(File, [part EXCEPT !.whole = FALSE]))
    BY <1>1, PathIsThere, AppendedKeeps
  <1>3. CASE Write(Appended(File, part)) /\ Proceed(next)
    BY <1>2, <1>3, TagStep
  <1>4. CASE UNCHANGED dir /\ Proceed("ffmpeg")
    BY <1>4, TagStep
  <1>5. CASE Write(Appended(File, [part EXCEPT !.whole = FALSE])) /\ Proceed("ffmpeg")
    BY <1>2, <1>5, TagStep
  <1> QED BY <1>3, <1>4, <1>5 DEF AppendPart

\* The rebuilt box has the old tracks and one that says where the sample
\* will be.
LEMMA RebuiltIsPart ==
    ASSUME NEW f \in Files, LastPart(f) \in Parts
    PROVE  /\ Rebuilt(f) \in Parts
           /\ Rebuilt(f).type = LastPart(f).type /\ Rebuilt(f).whole = LastPart(f).whole
           /\ \E j \in DOMAIN Rebuilt(f).tracks : Rebuilt(f).tracks[j].at = Offset(f)
  <1> DEFINE tracks == LastPart(f).tracks
             track == Track(NextTrackId(f), Offset(f))
  <1>1. track \in Tracks /\ track.at = Offset(f)
    BY DEF Track, Tracks, NextTrackId, Offset, Files
  <1>2. tracks \in Seq(Tracks)
    BY DEF Parts
  <1> HIDE DEF track, tracks
  <1>3. /\ Append(tracks, track) \in Seq(Tracks)
        /\ Len(tracks) + 1 \in DOMAIN Append(tracks, track)
        /\ Append(tracks, track)[Len(tracks) + 1] = track
    BY <1>1, <1>2
  <1>4. /\ Rebuilt(f) \in Parts /\ Rebuilt(f).tracks = Append(tracks, track)
        /\ Rebuilt(f).type = LastPart(f).type /\ Rebuilt(f).whole = LastPart(f).whole
    BY <1>3 DEF Rebuilt, Parts, tracks, track
  <1> QED BY <1>1, <1>3, <1>4

LEMMA InitInvariant == TaggingInit => IInv
  <1> SUFFICES ASSUME TaggingInit PROVE IInv
    OBVIOUS
  <1>1. dir \in [DOMAIN dir -> Files] /\ DOMAIN dir \subseteq Names /\ NothingLost
    BY FoldersAssumption DEF TaggingInit, NothingLost
  <1>2. \A c \in 1 .. Clips : NameOf(c) \in DOMAIN dir
    BY <1>1, ClipsIsNat DEF NothingLost, EachOnce, NameOf
  <1>3. template \in Templates
    BY TemplatesAssumption DEF TaggingInit
  <1>4. 0 \in 0 .. MaxSessions
    BY StartsAssumption
  <1> QED BY <1>1, <1>2, <1>3, <1>4, ClipsIsNat
          DEF TaggingInit, IInv, TypeInv, InputsInv, TmpInv, Running

LEMMA StepInvariant == IInv /\ [TaggingNext]_taggingVars => IInv'
  <1> SUFFICES ASSUME IInv, [TaggingNext]_taggingVars PROVE IInv'
    OBVIOUS
  <1>1. CASE Begin
    <2>1. \A c \in 1 .. Clips : NameOf(c) \in DOMAIN dir /\ dir[NameOf(c)].clip = c
      BY ClipsIsNat DEF IInv, NothingLost, EachOnce, NameOf
    <2>2. session' \in 0 .. MaxSessions /\ session' # 0
      BY <1>1, StartsAssumption DEF Begin, IInv, TypeInv
    <2> QED BY <1>1, <2>1, <2>2, ClipsIsNat
            DEF Begin, IInv, TypeInv, InputsInv, TmpInv, NothingLost, Running
  <1>2. CASE CancelSession
    BY <1>2 DEF CancelSession, IInv, TypeInv, InputsInv, TmpInv, NothingLost, Running, sessionVars, Path
  <1>3. CASE Crash
    BY <1>3, ClipsIsNat
       DEF Crash, IInv, TypeInv, InputsInv, TmpInv, NothingLost, Running, sessionVars
  <1>4. CASE TagFile
    <2>1. phase' \in {"rename", "mp4", "wav", "ffmpeg"}
      BY <1>4 DEF TagFile, Proceed
    <2> QED BY <1>4, <2>1, ClipsIsNat
            DEF TagFile, Proceed, IInv, TypeInv, InputsInv, TmpInv, NothingLost, Running, sessionVars
  <1>5. CASE LeaveToFfmpeg
    BY <1>5, TagStep DEF LeaveToFfmpeg
  <1>6. CASE OverwriteMoov
    <2>1. File \in Files /\ HasMedia(File)
      BY <1>6, PathIsThere DEF OverwriteMoov
    <2>2. Len(File.parts) \in DOMAIN File.parts /\ LastPart(File) \in Parts
      BY <2>1 DEF HasMedia, LastPart, Files
    <2>3. Part("free") \in Parts
      BY PartIsPart DEF PartTypes
    <2>4. Kept(File, WithLast(File, Part("free")))
      BY <1>6, <2>1, <2>2, <2>3, ReplacedKeeps DEF OverwriteMoov, WithLast, LastPart
    <2>5. moov' \in Parts
      BY <1>6, <2>1, <2>2, RebuiltIsPart DEF OverwriteMoov
    <2>6. CASE Write(WithLast(File, Part("free"))) /\ Proceed("mdat")
      BY <1>6, <2>4, <2>5, <2>6, TagStep DEF OverwriteMoov
    <2>7. CASE UNCHANGED dir /\ Proceed("ffmpeg")
      BY <1>6, <2>7, TagStep DEF OverwriteMoov
    <2> QED BY <1>6, <2>6, <2>7 DEF OverwriteMoov
  <1>7. CASE AppendMdat
    <2>1. Holding("sample", <<FrameCount(Meta)>>) \in Parts
      <3>1. <<FrameCount(Meta)>> \in Seq(Nat) /\ "sample" \in PartTypes
        BY <1>7, MetaIsTime, CountsAreNumbers DEF AppendMdat, PartTypes
      <3> QED BY <3>1, HoldingIsPart
    <2>2. moov' \in Parts
      BY <1>7 DEF AppendMdat, IInv, TypeInv
    <2> QED BY <1>7, <2>1, <2>2, AppendStep DEF AppendMdat
  <1>8. CASE AppendMoov
    BY <1>8, AppendStep DEF AppendMoov, IInv, TypeInv
  <1>9. CASE PatchBext
    <2>1. File \in Files
      BY <1>9, PathIsThere DEF PatchBext
    <2>2. CASE UNCHANGED dir /\ Proceed("ffmpeg")
      BY <1>9, <2>2, TagStep DEF PatchBext
    <2>3. ASSUME NEW i \in First(File, "bext"), Proceed("sync"),
                 Write([File EXCEPT !.parts[i].time = <<TimeReference(Meta)>>])
          PROVE  IInv'
      <3> DEFINE part == [File.parts[i] EXCEPT !.time = <<TimeReference(Meta)>>]
      <3>1. i \in DOMAIN File.parts /\ File.parts[i] \in Parts /\ File.parts[i].type = "bext"
        BY <2>1 DEF First, Files
      <3>2. <<TimeReference(Meta)>> \in Seq(Nat)
        BY <1>9, MetaIsTime, CountsAreNumbers DEF PatchBext
      <3>3. part \in Parts
        BY <3>1, <3>2 DEF Parts
      <3>4. [File EXCEPT !.parts[i].time = <<TimeReference(Meta)>>]
            = [File EXCEPT !.parts = [@ EXCEPT ![i] = part]]
        OBVIOUS
      <3>5. Kept(File, [File EXCEPT !.parts = [@ EXCEPT ![i] = part]])
        BY <2>1, <3>1, <3>3, ReplacedKeeps
      <3> QED BY <1>9, <2>3, <3>4, <3>5, TagStep DEF PatchBext
    <2> QED BY <1>9, <2>2, <2>3 DEF PatchBext
  <1>10. CASE AppendBext
    <2>1. Holding("bext", <<TimeReference(Meta)>>) \in Parts
      <3>1. <<TimeReference(Meta)>> \in Seq(Nat) /\ "bext" \in PartTypes
        BY <1>10, MetaIsTime, CountsAreNumbers DEF AppendBext, PartTypes
      <3> QED BY <3>1, HoldingIsPart
    <2> QED BY <1>10, <2>1, AppendStep DEF AppendBext
  <1>11. CASE UpdateRiffSize
    <2>1. File \in Files
      BY <1>11, PathIsThere DEF UpdateRiffSize
    <2>2. Kept(File, [File EXCEPT !.size = RiffSize(File)])
      <3>1. RiffSize(File) \in Nat
        BY <2>1 DEF Files, RiffSize
      <3> QED BY <2>1, <3>1 DEF Kept, Files, HasMedia
    <2>3. CASE Write([File EXCEPT !.size = RiffSize(File)]) /\ Proceed("sync")
      BY <1>11, <2>2, <2>3, TagStep DEF UpdateRiffSize
    <2>4. CASE UNCHANGED dir /\ Proceed("ffmpeg")
      BY <1>11, <2>4, TagStep DEF UpdateRiffSize
    <2> QED BY <1>11, <2>3, <2>4 DEF UpdateRiffSize
  <1>12. CASE SyncInPlace
    BY <1>12, TagStep DEF SyncInPlace
  <1>13. CASE RemuxSucceeds
    <2> DEFINE f == Remuxed(File, Meta)
    <2>1. f \in Files /\ f.clip = current /\ HasMedia(f)
      BY <1>13, PathIsThere, MetaIsTime, RemuxedIsRight DEF RemuxSucceeds
    <2> HIDE DEF f
    <2>2. tmp' = With(tmp, Path, f) /\ Proceed("replace") /\ UNCHANGED dir
      BY <1>13 DEF RemuxSucceeds, f
    <2>3. Path \in DOMAIN tmp' /\ tmp'[Path] = f /\ Path' = Path
      BY <2>2 DEF With, Path, Proceed, sessionVars
    <2>4. TmpInv'
      BY <1>13, <2>1, <2>2, <2>3, PathIsThere DEF TmpInv, RemuxSucceeds, Proceed
    <2> QED BY <1>13, <2>2, <2>4, TagStep DEF RemuxSucceeds
  <1>14. CASE RemuxFails
    BY <1>14, TagStep DEF RemuxFails
  <1>15. CASE ReplaceOriginal
    <2>1. Kept(File, tmp[Path])
      BY <1>15, PathIsThere DEF ReplaceOriginal, IInv, TmpInv, Kept
    <2>2. CASE Write(tmp[Path])
      BY <1>15, <2>1, <2>2, TagStep DEF ReplaceOriginal
    <2>3. CASE UNCHANGED dir
      BY <1>15, <2>3, TagStep DEF ReplaceOriginal
    <2> QED BY <1>15, <2>2, <2>3 DEF ReplaceOriginal
  <1>16. CASE RenameClip
    <2>1. /\ current \in 1 .. Clips /\ Path \in DOMAIN dir /\ File.clip = current
          /\ phase' = "clip" /\ current' = current + 1 /\ UNCHANGED <<sessionVars, stopped>>
          /\ phase = "rename" /\ session # 0
      BY <1>16, PathIsThere DEF RenameClip, NextClip, IInv, TypeInv, Running
    <2>2. \A c \in current + 1 .. Clips : inputs[c] \in DOMAIN dir \ {Path} /\ dir[inputs[c]].clip = c
      BY <1>16, <2>1, ClipsIsNat DEF RenameClip, IInv, InputsInv, Running, File
    <2>3. CASE UNCHANGED dir
      <3>1. TypeInv'
        BY <2>1, <2>3, ClipsIsNat DEF IInv, TypeInv, Running, sessionVars
      <3>2. InputsInv' /\ TmpInv'
        BY <2>1, <2>2, <2>3 DEF InputsInv, TmpInv, sessionVars
      <3>3. NothingLost'
        BY <2>3 DEF IInv, NothingLost
      <3> QED BY <3>1, <3>2, <3>3 DEF IInv
    <2>4. CASE ~Taken(NewPath) /\ dir' = With(Without(dir, Path), NewPath, File)
      <3>1. NewPath \in Names /\ NewPath \notin DOMAIN dir
        <4>1. template \in [Names \X (1 .. Clips) -> Names] /\ Path \in Names
          BY <2>1, TemplatesAssumption DEF IInv, TypeInv
        <4> QED BY <2>1, <2>4, <4>1 DEF NewPath, Taken
      <3>2. /\ DOMAIN dir' = (DOMAIN dir \ {Path}) \cup {NewPath}
            /\ dir' \in [DOMAIN dir' -> Files]
            /\ \A n \in DOMAIN dir \ {Path} : dir'[n] = dir[n]
            /\ EachOnce(dir')
        <4>1. /\ dir \in [DOMAIN dir -> Files] /\ EachOnce(dir)
              /\ dir' = With(Without(dir, Path), NewPath, dir[Path])
          BY <2>4 DEF IInv, TypeInv, NothingLost, File
        <4>2. Path \in DOMAIN dir /\ NewPath \notin DOMAIN dir
          BY <2>1, <3>1
        <4>3. ASSUME NEW q, q \notin DOMAIN dir,
                     NEW e, e = With(Without(dir, Path), q, dir[Path])
              PROVE  /\ DOMAIN e = (DOMAIN dir \ {Path}) \cup {q}
                     /\ e \in [DOMAIN e -> Files]
                     /\ \A n \in DOMAIN dir \ {Path} : e[n] = dir[n]
                     /\ EachOnce(e)
          BY <4>1, <4>2, <4>3, RenameKeeps
        <4> QED BY <4>1, <4>2, <4>3
      <3>3. \A c \in current + 1 .. Clips : inputs[c] \in DOMAIN dir' /\ dir'[inputs[c]].clip = c
        BY <2>2, <3>2
      <3>4. DOMAIN dir' \subseteq Names
        BY <3>1, <3>2 DEF IInv, TypeInv
      <3>5. TypeInv'
        BY <2>1, <3>2, <3>4, ClipsIsNat DEF IInv, TypeInv, Running, sessionVars
      <3>6. InputsInv' /\ TmpInv'
        BY <2>1, <3>3 DEF InputsInv, TmpInv, sessionVars
      <3>7. NothingLost'
        BY <3>2 DEF NothingLost
      <3> QED BY <3>5, <3>6, <3>7 DEF IInv
    <2> QED BY <1>16, <2>3, <2>4 DEF RenameClip
  <1>17. CASE EndSession
    BY <1>17 DEF EndSession, Proceed, IInv, TypeInv, InputsInv, TmpInv, NothingLost, Running, sessionVars
  <1>18. CASE UNCHANGED taggingVars
    BY <1>18 DEF taggingVars, IInv, TypeInv, InputsInv, TmpInv, NothingLost, Running, sessionVars, Path
  <1> QED BY <1>1, <1>2, <1>3, <1>4, <1>5, <1>6, <1>7, <1>8, <1>9, <1>10, <1>11, <1>12,
             <1>13, <1>14, <1>15, <1>16, <1>17, <1>18 DEF TaggingNext, Native, Ffmpeg

\* No clip and no other file is lost, doubled or left without its media:
\* neither by writing in place, by the replacement through a temporary file
\* and by renaming, nor by any failure, crash or repetition of them
\* (tag_file, tag_and_rename_files).
THEOREM NothingIsLost == TaggingSpec => []NothingLost
  <1>1. IInv => NothingLost
    BY DEF IInv
  <1> QED BY <1>1, InitInvariant, StepInvariant, PTL DEF TaggingSpec

-----------------------------------------------------------------------------
(* What is said of a clip is true.                                         *)

\* A clip is being tagged or renamed.
AtWork == phase \notin {"idle", "clip", "done"}

\* A track says that its timecode is in this part.
PointsTo(tracks, i) == \E j \in DOMAIN tracks : tracks[j].at = i

AllWhole(f) == \A i \in DOMAIN f.parts : f.parts[i].whole

\* Tagging the file in place is exact.
ExactIn(f, s, m, c) ==
    \/ IsMp4(f) /\ ~f.long /\ m.fps % 1000 = 0
    \/ IsWav(f) /\ c \in s

\* The file of a clip in a folder.
ClipIn(d, c) == d[CHOOSE n \in DOMAIN d : d[n].clip = c]

\* How far the writing of the clip at work has got.
WorkInv ==
    AtWork =>
        /\ phase \in {"mdat", "moov"} => IsMp4(File) /\ moov.type = "moov" /\ moov.whole = TRUE
        /\ phase = "mdat" /\ ~File.long => PointsTo(moov.tracks, Len(File.parts) + 1)
        /\ phase = "moov" =>
              /\ File.parts # <<>> /\ LastPart(File).whole = TRUE
              /\ LastPart(File).time = <<FrameCount(Meta)>>
              /\ ~File.long => PointsTo(moov.tracks, Len(File.parts))
        /\ phase = "size" =>
              /\ IsWav(File)
              /\ File.parts # <<>> /\ LastPart(File).whole = TRUE
              /\ LastPart(File).time = <<TimeReference(Meta)>>
        /\ phase = "sync" /\ ExactIn(File, sound, Meta, current) => Carries(File, Meta)
        /\ current \in sound =>
              /\ phase \in {"mp4", "wav", "sync"} => Intact(File)
              /\ phase \in {"mdat", "moov", "size"} => AllWhole(File)
              /\ phase = "size" => ~File.long
        /\ phase = "replace" =>
              /\ Intact(tmp[Path]) /\ Carries(tmp[Path], Meta)
              /\ tmp[Path].ext = File.ext /\ tmp[Path].format = ContainerFor(File.ext)

\* Nothing but the replacement makes it another kind of file.
KindInv == AtWork /\ phase # "rename" /\ current \notin misnamed => Fits(File)

\* What has not been begun is as it was found.
UntouchedInv ==
    phase # "idle" =>
        \A c \in current .. Clips :
            c > current \/ phase \in {"clip", "done"} =>
                /\ c \in sound => Intact(ClipIn(dir, c))
                /\ c \notin misnamed => Fits(ClipIn(dir, c))

\* Temporary files belong to clips that were given to ffmpeg.
BesideInv ==
    phase # "idle" =>
        \A n \in DOMAIN tmp :
            /\ tmp[n].clip \in 1 .. current
            /\ tmp[n].clip = current => n = Path /\ phase \in {"replace", "rename"}

\* The files d and t, beside, show no harm done to a clip found sound.
Unharmed(d, t, s, c) ==
    (c \in s => Intact(ClipIn(d, c))) /\ \A n \in DOMAIN t : t[n].clip # c

\* The clip is what its name says, or was not, or has become another kind of
\* file by way of ffmpeg.
KindKept(d, tags, wrong, c) ==
    \/ c \in wrong \/ Fits(ClipIn(d, c))
    \/ <<"ffmpeg", c>> \in tags /\ ContainerFor(ClipIn(d, c).ext) # ClipIn(d, c).ext

\* A clip that is done with is unharmed or in the ledger.
HarmInv ==
    phase # "idle" =>
        \A c \in 1 .. Clips :
            c < current \/ (c = current /\ phase = "rename") =>
                /\ Unharmed(dir, tmp, sound, c) \/ <<"tag", c>> \in mishaps
                /\ KindKept(dir, tagged, misnamed, c)

\* A clip is reported when nothing more is written to it.
TaggedInv ==
    phase # "idle" =>
        \A c \in current .. Clips, way \in {"native", "ffmpeg"} :
            <<way, c>> \in tagged => c = current /\ phase = "rename"

\* What is reported of a clip is true of its file.
ReportTrue(d, tags, s, m, c) ==
    \/ <<"native", c>> \in tags /\ ExactIn(ClipIn(d, c), s, m, c)
    \/ <<"ffmpeg", c>> \in tags
    => Carries(ClipIn(d, c), m)

TruthInv ==
    /\ UntouchedInv /\ BesideInv /\ HarmInv /\ TaggedInv
    /\ \A c \in 1 .. Clips : ReportTrue(dir, tagged, sound, Starts[session][c], c)

-----------------------------------------------------------------------------
\* The place where a clip is found, before and after a write and a renaming.
LEMMA FoundIsThis ==
    ASSUME NEW d, EachOnce(d), NEW c \in 0 .. Clips, NEW n \in DOMAIN d, d[n].clip = c
    PROVE  (CHOOSE m \in DOMAIN d : d[m].clip = c) = n /\ ClipIn(d, c) = d[n]
  <1>1. PICK k \in DOMAIN d : \A m \in DOMAIN d \ {k} : d[m].clip # c
    BY DEF EachOnce
  <1>2. (CHOOSE m \in DOMAIN d : d[m].clip = c) = n
    BY <1>1
  <1> QED BY <1>2 DEF ClipIn

LEMMA FoundIsThere ==
    ASSUME NEW d, EachOnce(d), NEW c \in 0 .. Clips
    PROVE  \E n \in DOMAIN d : d[n].clip = c /\ ClipIn(d, c) = d[n]
  <1>1. PICK n \in DOMAIN d : d[n].clip = c
    BY DEF EachOnce
  <1> QED BY <1>1, FoundIsThis

LEMMA WriteFinds ==
    ASSUME NEW d, d \in [DOMAIN d -> Files], EachOnce(d), NEW p \in DOMAIN d,
           NEW f, f.clip = d[p].clip, EachOnce([d EXCEPT ![p] = f]), NEW c \in 1 .. Clips
    PROVE  /\ c = d[p].clip => ClipIn([d EXCEPT ![p] = f], c) = f
           /\ c # d[p].clip => ClipIn([d EXCEPT ![p] = f], c) = ClipIn(d, c)
  <1> DEFINE e == [d EXCEPT ![p] = f]
  <1>0. c \in 0 .. Clips
    BY ClipsIsNat
  <1>1. EachOnce(e)
    OBVIOUS
  <1>2. DOMAIN e = DOMAIN d /\ e[p] = f /\ f.clip = d[p].clip
        /\ \A m \in DOMAIN d : m # p => e[m] = d[m]
    OBVIOUS
  <1> HIDE DEF e
  <1>3. CASE c = d[p].clip
    <2>1. p \in DOMAIN e /\ e[p].clip = c
      BY <1>2, <1>3
    <2>2. ClipIn(e, c) = e[p]
      BY <1>0, <1>1, <2>1, FoundIsThis
    <2> QED BY <1>2, <1>3, <2>2 DEF e
  <1>4. CASE c # d[p].clip
    <2>1. PICK n \in DOMAIN d : d[n].clip = c /\ ClipIn(d, c) = d[n]
      BY <1>0, FoundIsThere
    <2>2. n \in DOMAIN e /\ e[n].clip = c /\ e[n] = d[n]
      BY <1>2, <1>4, <2>1
    <2>3. ClipIn(e, c) = e[n]
      BY <1>0, <1>1, <2>2, FoundIsThis
    <2> QED BY <1>4, <2>1, <2>2, <2>3 DEF e
  <1> QED BY <1>3, <1>4 DEF e

LEMMA RenameFinds ==
    ASSUME NEW d, d \in [DOMAIN d -> Files], EachOnce(d), NEW p \in DOMAIN d,
           NEW q, q \notin DOMAIN d, NEW e, e = With(Without(d, p), q, d[p]), NEW c \in 1 .. Clips
    PROVE  ClipIn(e, c) = ClipIn(d, c)
  <1>0. c \in 0 .. Clips
    BY ClipsIsNat
  <1>1. EachOnce(e)
    BY RenameKeeps
  <1>2. /\ DOMAIN e = (DOMAIN d \ {p}) \cup {q} /\ e[q] = d[p]
        /\ \A m \in DOMAIN d \ {p} : e[m] = d[m]
    BY DEF With, Without
  <1>3. PICK n \in DOMAIN d : d[n].clip = c /\ ClipIn(d, c) = d[n]
    BY <1>0, FoundIsThere
  <1>4. PICK k \in DOMAIN e : e[k] = d[n]
    BY <1>2
  <1>5. ClipIn(e, c) = e[k]
    BY <1>0, <1>1, <1>3, <1>4, FoundIsThis
  <1> QED BY <1>3, <1>4, <1>5

-----------------------------------------------------------------------------
\* Of the clips the user sees, a step of the work on one changes that one.
LEMMA OthersStay ==
    ASSUME IInv, IInv', AtWork, AtWork', UNCHANGED <<sessionVars, current>>,
           dir' = dir \/ \E f : Write(f)
    PROVE  /\ \A c \in 1 .. Clips : c # current => ClipIn(dir', c) = ClipIn(dir, c)
           /\ ClipIn(dir, current) = File /\ ClipIn(dir', current) = File'
  <1>1. /\ current \in 1 .. Clips /\ Path \in DOMAIN dir /\ File = dir[Path] /\ dir[Path].clip = current
        /\ Path' = Path /\ File' = dir'[Path]
        /\ dir \in [DOMAIN dir -> Files] /\ EachOnce(dir)
    BY PathIsThere DEF AtWork, Path, File, sessionVars, IInv, TypeInv, NothingLost
  <1>2. EachOnce(dir') /\ Path \in DOMAIN dir' /\ dir'[Path].clip = current /\ current \in 0 .. Clips
    BY <1>1, ClipsIsNat DEF AtWork, Path, IInv, InputsInv, Running, NothingLost, sessionVars
  <1>3. ClipIn(dir, current) = File /\ ClipIn(dir', current) = File'
    BY <1>1, <1>2, FoundIsThis
  <1>4. CASE dir' = dir
    BY <1>1, <1>3, <1>4 DEF ClipIn
  <1>5. ASSUME NEW f, Write(f), NEW c \in 1 .. Clips, c # current
        PROVE  ClipIn(dir', c) = ClipIn(dir, c)
    <2>1. dir' = [dir EXCEPT ![Path] = f] /\ f.clip = dir[Path].clip
      BY <1>1, <1>2, <1>5 DEF Write
    <2>2. ASSUME NEW p \in DOMAIN dir, p = Path
          PROVE  ClipIn([dir EXCEPT ![p] = f], c) = ClipIn(dir, c)
      <3>1. dir \in [DOMAIN dir -> Files] /\ EachOnce(dir) /\ c # dir[p].clip
        BY <1>1, <1>5, <2>2
      <3>2. f.clip = dir[p].clip /\ EachOnce([dir EXCEPT ![p] = f])
        BY <1>2, <2>1, <2>2
      <3> QED BY <3>1, <3>2, WriteFinds
    <2> QED BY <1>1, <2>1, <2>2
  <1> QED BY <1>3, <1>4, <1>5

\* What a step of the work on a clip must show.
LEMMA WorkStep ==
    ASSUME IInv, IInv', TruthInv, AtWork, AtWork', UNCHANGED <<sessionVars, current>>,
           dir' = dir \/ \E f : Write(f),
           mishaps \subseteq mishaps',
           \A c \in 1 .. Clips, way \in {"native", "ffmpeg"} :
               <<way, c>> \in tagged' => <<way, c>> \in tagged \/ c = current,
           tagged \subseteq tagged',
           \/ tagged' = tagged
           \/ phase' = "rename" /\ ReportTrue(dir', tagged', sound, Meta, current),
           phase # "rename",
           \A n \in DOMAIN tmp' : \/ n \in DOMAIN tmp /\ tmp'[n] = tmp[n] /\ tmp[n].clip # current
                                  \/ /\ n = Path /\ tmp'[n].clip = current
                                     /\ phase' \in {"replace", "rename"},
           phase' = "rename" => \/ Unharmed(dir', tmp', sound, current)
                                \/ <<"tag", current>> \in mishaps',
           phase' = "rename" => KindKept(dir', tagged', misnamed, current)
    PROVE  TruthInv'
  <1>0. \A c \in 1 .. Clips : c # current => ClipIn(dir', c) = ClipIn(dir, c)
    BY OthersStay
  <1>1. /\ \A c \in 1 .. Clips : c # current => ClipIn(dir', c) = ClipIn(dir, c)
        /\ Path' = Path /\ current' = current /\ sound' = sound /\ session' = session
        /\ misnamed' = misnamed /\ current \in 1 .. Clips /\ current \in Nat
    <2>1. current \in 1 .. Clips
      BY PathIsThere DEF AtWork
    <2>2. UNCHANGED <<inputs, current, sound, session, misnamed>>
      BY DEF sessionVars
    <2>3. Path' = Path
      BY <2>2 DEF Path
    <2>4. current \in Nat
      BY <2>1, ClipsIsNat
    <2> QED BY <1>0, <2>1, <2>2, <2>3, <2>4
  <1>2. UntouchedInv'
    BY <1>1 DEF TruthInv, UntouchedInv, AtWork
  <1>3. BesideInv'
    BY <1>1 DEF TruthInv, BesideInv, AtWork
  <1>4. HarmInv'
    <2> SUFFICES ASSUME NEW c \in 1 .. Clips,
                        c < current \/ (c = current /\ phase' = "rename")
                 PROVE  /\ Unharmed(dir', tmp', sound, c) \/ <<"tag", c>> \in mishaps'
                        /\ KindKept(dir', tagged', misnamed, c)
      BY <1>1 DEF HarmInv
    <2>1. CASE c = current
      BY <1>1, <2>1
    <2>2. CASE c # current
      <3>1. /\ Unharmed(dir, tmp, sound, c) \/ <<"tag", c>> \in mishaps
            /\ KindKept(dir, tagged, misnamed, c)
        BY <1>1, <2>2 DEF TruthInv, HarmInv, AtWork
      <3>2. Unharmed(dir', tmp', sound, c) \/ <<"tag", c>> \in mishaps'
        BY <1>1, <2>2, <3>1 DEF Unharmed
      <3>3. KindKept(dir', tagged', misnamed, c)
        BY <1>1, <2>2, <3>1 DEF KindKept
      <3> QED BY <3>2, <3>3
    <2> QED BY <2>1, <2>2
  <1>5. TaggedInv'
    <2> SUFFICES ASSUME NEW c \in current .. Clips, NEW way \in {"native", "ffmpeg"},
                        <<way, c>> \in tagged'
                 PROVE  c = current /\ phase' = "rename"
      BY <1>1 DEF TaggedInv
    <2>1. c \in 1 .. Clips
      BY <1>1, ClipsIsNat
    <2>2. <<way, c>> \notin tagged
      BY DEF TruthInv, TaggedInv, AtWork
    <2> QED BY <2>1, <2>2
  <1>6. ASSUME NEW c \in 1 .. Clips PROVE ReportTrue(dir', tagged', sound, Starts[session][c], c)
    <2>1. CASE c # current
      BY <1>1, <2>1 DEF TruthInv, ReportTrue
    <2>2. CASE c = current
      <3>1. CASE tagged' = tagged
        <4>1. c \in current .. Clips
          BY <1>1, <2>2, ClipsIsNat
        <4>2. <<"native", c>> \notin tagged' /\ <<"ffmpeg", c>> \notin tagged'
          BY <1>1, <3>1, <4>1 DEF TruthInv, TaggedInv, AtWork
        <4> QED BY <4>2 DEF ReportTrue
      <3>2. CASE tagged' # tagged
        BY <2>2, <3>2 DEF Meta
      <3> QED BY <3>1, <3>2
    <2> QED BY <2>1, <2>2
  <1> QED BY <1>1, <1>2, <1>3, <1>4, <1>5, <1>6 DEF TruthInv

-----------------------------------------------------------------------------
(* The files that are written.                                             *)

LEMMA FoundAtWork ==
    ASSUME IInv, Running, current \in 1 .. Clips
    PROVE  Path \in DOMAIN dir /\ File \in Files /\ ClipIn(dir, current) = File
  <1>1. Path \in DOMAIN dir /\ dir[Path].clip = current
    BY ClipsIsNat DEF IInv, InputsInv, Path
  <1>2. current \in 0 .. Clips /\ EachOnce(dir)
    BY ClipsIsNat DEF IInv, NothingLost
  <1>3. File = dir[Path] /\ dir[Path] \in Files
    BY <1>1 DEF IInv, TypeInv, File
  <1> QED BY <1>1, <1>2, <1>3, FoundIsThis

LEMMA NewFile ==
    ASSUME IInv, AtWork, UNCHANGED <<sessionVars, current>>, NEW f, Write(f)
    PROVE  File' = f
  <1>1. Path \in DOMAIN dir /\ dir \in [DOMAIN dir -> Files]
    BY PathIsThere DEF AtWork, IInv, TypeInv
  <1>2. File' = dir'[Path] /\ dir' = [dir EXCEPT ![Path] = f]
    BY DEF File, Path, Write, sessionVars
  <1> QED BY <1>1, <1>2

\* A WAV with the count of samples where it can be found carries the timecode.
LEMMA SampledIsSaid ==
    ASSUME IInv, AtWork, NEW f, IsWav(f), Readable(f), NEW i \in Found(f),
           f.parts[i].time = <<TimeReference(Meta)>>
    PROVE  Carries(f, Meta)
  <1>1. Says(f, f.parts[i].time, Meta.fps) = Sampled(TimeReference(Meta), Meta.fps)
    BY CountIsSaid
  <1>2. Sampled(TimeReference(Meta), Meta.fps) = Text(Meta)
    BY MetaIsTime, SampledBack DEF AtWork
  <1> QED BY <1>1, <1>2 DEF Carries

LEMMA AppendedParts ==
    ASSUME NEW f \in Files, NEW part \in Parts
    PROVE  /\ Appended(f, part).ext = f.ext /\ Appended(f, part).format = f.format
           /\ Appended(f, part).long = f.long /\ Appended(f, part).size = f.size
           /\ Appended(f, part).parts = Append(f.parts, part)
           /\ Len(Appended(f, part).parts) = Len(f.parts) + 1
           /\ Len(f.parts) + 1 \in DOMAIN Appended(f, part).parts
           /\ Appended(f, part).parts[Len(f.parts) + 1] = part
           /\ LastPart(Appended(f, part)) = part
           /\ \A k \in DOMAIN f.parts : /\ k \in DOMAIN Appended(f, part).parts
                                        /\ Appended(f, part).parts[k] = f.parts[k]
           /\ AllWhole(f) /\ part.whole => AllWhole(Appended(f, part))
  <1>1. f.parts \in Seq(Parts)
    BY DEF Files
  <1>2. /\ Appended(f, part).ext = f.ext /\ Appended(f, part).format = f.format
        /\ Appended(f, part).long = f.long /\ Appended(f, part).size = f.size
        /\ Appended(f, part).parts = Append(f.parts, part)
    BY DEF Appended, Files
  <1> DEFINE parts == Append(f.parts, part)
  <1>3. /\ Len(parts) = Len(f.parts) + 1 /\ Len(f.parts) + 1 \in DOMAIN parts
        /\ parts[Len(f.parts) + 1] = part
        /\ \A i \in DOMAIN parts :
              (i \in DOMAIN f.parts /\ parts[i] = f.parts[i]) \/ parts[i] = part
        /\ \A k \in DOMAIN f.parts : k \in DOMAIN parts /\ parts[k] = f.parts[k]
    BY <1>1
  <1>4. AllWhole(f) /\ part.whole => AllWhole(Appended(f, part))
    BY <1>2, <1>3 DEF AllWhole
  <1>5. LastPart(Appended(f, part)) = part
    BY <1>2, <1>3 DEF LastPart
  <1> QED BY <1>2, <1>3, <1>4, <1>5

-----------------------------------------------------------------------------
(* How far the writing has got, step by step.                              *)

LEMMA SameMeta == UNCHANGED <<sessionVars, current>> => Meta' = Meta /\ Path' = Path
  BY DEF Meta, Path, sessionVars

LEMMA WorkNext == IInv /\ IInv' /\ WorkInv /\ UntouchedInv /\ [TaggingNext]_taggingVars => WorkInv'
  <1> SUFFICES ASSUME IInv, IInv', WorkInv, UntouchedInv, [TaggingNext]_taggingVars PROVE WorkInv'
    OBVIOUS
  <1>1. CASE Begin \/ Crash \/ EndSession \/ RenameClip
    BY <1>1 DEF Begin, Crash, EndSession, RenameClip, NextClip, Proceed, WorkInv, AtWork
  <1>2. CASE CancelSession \/ UNCHANGED taggingVars
    <2>1. /\ UNCHANGED <<sessionVars, current, dir, tmp, phase, moov>>
          /\ UNCHANGED <<File, Path, Meta, sound>>
      BY <1>2 DEF CancelSession, taggingVars, sessionVars, File, Path, Meta
    <2> QED BY <2>1 DEF WorkInv, AtWork
  <1>3. CASE TagFile
    <2>1. /\ phase = "clip" /\ current \in 1 .. Clips /\ UNCHANGED <<dir, sessionVars, current>>
          /\ phase' \in {"rename", "mp4", "wav", "ffmpeg"}
      BY <1>3, ClipsIsNat DEF TagFile, Proceed, IInv, TypeInv
    <2>2. ClipIn(dir, current) = File
      BY <2>1, FoundAtWork DEF Running
    <2>3. File' = File /\ sound' = sound
      BY <2>1 DEF File, Path, sessionVars
    <2>4. current \in sound => Intact(File)
      BY <2>1, <2>2, ClipsIsNat DEF UntouchedInv
    <2> QED BY <2>1, <2>3, <2>4 DEF WorkInv, AtWork
  <1>4. CASE LeaveToFfmpeg \/ SyncInPlace \/ RemuxFails \/ ReplaceOriginal
    BY <1>4 DEF LeaveToFfmpeg, SyncInPlace, RemuxFails, ReplaceOriginal, Proceed, WorkInv, AtWork
  <1>5. CASE OverwriteMoov
    <2>1. /\ phase = "mp4" /\ AtWork /\ UNCHANGED <<sessionVars, current>> /\ IsMp4(File)
          /\ moov' = Rebuilt(File) /\ LastPart(File).type = "moov" /\ LastPart(File).whole
          /\ File \in Files /\ HasMedia(File)
      BY <1>5, PathIsThere DEF OverwriteMoov, Proceed, AtWork
    <2>2. CASE phase' = "ffmpeg"
      BY <2>2 DEF WorkInv, AtWork
    <2>3. CASE phase' # "ffmpeg"
      <3> DEFINE f == WithLast(File, Part("free"))
      <3>1. phase' = "mdat" /\ Write(f)
        BY <1>5, <2>3 DEF OverwriteMoov, Proceed
      <3>2. /\ f.format = File.format /\ f.long = File.long
            /\ f.parts = [File.parts EXCEPT ![Len(File.parts)] = Part("free")]
        BY <2>1 DEF WithLast, Files
      <3>3. Len(f.parts) = Len(File.parts) /\ (AllWhole(File) => AllWhole(f))
        <4>1. File.parts \in Seq(Parts)
          BY <2>1 DEF Files
        <4>2. Part("free").whole
          BY DEF Part
        <4>3. Len(f.parts) = Len(File.parts)
          BY <3>2, <4>1
        <4>4. AllWhole(File) => AllWhole(f)
          BY <3>2, <4>1, <4>2 DEF AllWhole
        <4> QED BY <4>3, <4>4
      <3> HIDE DEF f
      <3>4. File' = f
        BY <2>1, <3>1, NewFile
      <3>5. LastPart(File) \in Parts
        BY <2>1 DEF HasMedia, LastPart, Files
      <3>6. moov'.type = "moov" /\ moov'.whole = TRUE /\ PointsTo(moov'.tracks, Offset(File))
        <4>1. LastPart(File).whole = TRUE
          BY <2>1, <3>5 DEF Parts
        <4> QED BY <2>1, <3>5, <4>1, RebuiltIsPart DEF PointsTo
      <3>7. ~File.long => Offset(File) = Len(File.parts) + 1
        BY DEF Offset
      <3>8. sound' = sound /\ current' = current
        BY <2>1 DEF sessionVars
      <3>9. current \in sound => AllWhole(f)
        BY <2>1, <3>3 DEF WorkInv, Intact, AllWhole
      <3>10. IsMp4(f) /\ (~f.long => PointsTo(moov'.tracks, Len(f.parts) + 1))
        BY <2>1, <3>2, <3>3, <3>6, <3>7 DEF IsMp4
      <3> QED BY <3>1, <3>4, <3>6, <3>8, <3>9, <3>10 DEF WorkInv, AtWork
    <2> QED BY <2>2, <2>3
  <1>6. CASE AppendMdat
    <2>1. /\ phase = "mdat" /\ AtWork /\ UNCHANGED <<sessionVars, current, moov>> /\ File \in Files
          /\ IsMp4(File) /\ moov.type = "moov" /\ moov.whole = TRUE
          /\ (~File.long => PointsTo(moov.tracks, Len(File.parts) + 1))
      BY <1>6, PathIsThere DEF AppendMdat, AppendPart, Proceed, AtWork, WorkInv
    <2>2. CASE phase' = "ffmpeg"
      BY <2>2 DEF WorkInv, AtWork
    <2>3. CASE phase' # "ffmpeg"
      <3> DEFINE part == Holding("sample", <<FrameCount(Meta)>>)
                 f == Appended(File, part)
      <3>1. phase' = "moov" /\ Write(f)
        BY <1>6, <2>3 DEF AppendMdat, AppendPart, Proceed
      <3>2. part \in Parts /\ part.whole = TRUE /\ part.time = <<FrameCount(Meta)>>
        <4>1. <<FrameCount(Meta)>> \in Seq(Nat) /\ "sample" \in PartTypes
          BY <2>1, MetaIsTime, CountsAreNumbers DEF AtWork, PartTypes
        <4> QED BY <4>1, HoldingIsPart
      <3> HIDE DEF part
      <3>3. /\ f.format = File.format /\ f.long = File.long /\ Len(f.parts) = Len(File.parts) + 1
            /\ f.parts # <<>> /\ LastPart(f) = part /\ (AllWhole(File) => AllWhole(f))
        BY <2>1, <3>2, AppendedParts
      <3> HIDE DEF f
      <3>4. File' = f /\ Meta' = Meta /\ sound' = sound /\ current' = current
        BY <2>1, <3>1, NewFile, SameMeta DEF sessionVars
      <3>5. IsMp4(f) /\ (~f.long => PointsTo(moov.tracks, Len(f.parts)))
        BY <2>1, <3>3 DEF IsMp4
      <3>6. current \in sound => AllWhole(f)
        BY <2>1, <3>3 DEF WorkInv
      <3> QED BY <2>1, <3>1, <3>2, <3>3, <3>4, <3>5, <3>6 DEF WorkInv, AtWork
    <2> QED BY <2>2, <2>3
  <1>7. CASE AppendMoov
    <2>1. /\ phase = "moov" /\ AtWork /\ UNCHANGED <<sessionVars, current>> /\ File \in Files
          /\ moov \in Parts /\ moov.type = "moov" /\ moov.whole = TRUE /\ IsMp4(File)
          /\ File.parts # <<>> /\ LastPart(File).whole = TRUE
          /\ LastPart(File).time = <<FrameCount(Meta)>>
          /\ (~File.long => PointsTo(moov.tracks, Len(File.parts)))
      BY <1>7, PathIsThere DEF AppendMoov, AppendPart, Proceed, AtWork, IInv, TypeInv, WorkInv
    <2>2. CASE phase' = "ffmpeg"
      BY <2>2 DEF WorkInv, AtWork
    <2>3. CASE phase' # "ffmpeg"
      <3> DEFINE f == Appended(File, moov)
                 n == Len(File.parts) + 1
                 i == Len(File.parts)
      <3>1. phase' = "sync" /\ Write(f)
        BY <1>7, <2>3 DEF AppendMoov, AppendPart, Proceed
      <3>2. i \in DOMAIN File.parts
        BY <2>1 DEF Files
      <3>3. /\ f.format = File.format /\ f.long = File.long
            /\ n \in DOMAIN f.parts /\ f.parts[n] = moov
            /\ i \in DOMAIN f.parts /\ f.parts[i] = LastPart(File)
            /\ (AllWhole(File) => AllWhole(f))
        BY <2>1, <3>2, AppendedParts DEF LastPart
      <3>4. ~f.long => PointsTo(moov.tracks, i)
        BY <2>1, <3>3
      <3> HIDE DEF f, n, i
      <3>5. File' = f /\ Meta' = Meta /\ sound' = sound /\ current' = current
        BY <2>1, <3>1, NewFile, SameMeta DEF sessionVars
      <3>6. IsMp4(f) /\ ~IsWav(f)
        BY <2>1, <3>3 DEF IsMp4, IsWav
      <3>7. Readable(f)
        BY <2>1, <3>3 DEF Readable
      <3>8. ASSUME ExactIn(f, sound, Meta, current) PROVE Carries(f, Meta)
        <4>1. ~f.long /\ Meta.fps % 1000 = 0
          BY <3>6, <3>8 DEF ExactIn
        <4>2. i \in Found(f)
          BY <2>1, <3>3, <3>4, <3>6, <4>1 DEF Found, PointsTo
        <4>3. Says(f, f.parts[i].time, Meta.fps) = Counted(FrameCount(Meta), Meta.fps)
          <5>1. f.parts[i].time = <<FrameCount(Meta)>>
            BY <2>1, <3>3
          <5> QED BY ONLY <5>1, <3>6, CountIsSaid
        <4>4. Counted(FrameCount(Meta), Meta.fps) = Text(Meta)
          BY <2>1, <4>1, MetaIsTime, CountedBack DEF AtWork
        <4> QED BY <3>7, <4>2, <4>3, <4>4 DEF Carries
      <3>9. current \in sound => Intact(f)
        BY <2>1, <3>3, <3>6, <3>7 DEF WorkInv, AllWhole, Intact
      <3> QED BY <3>1, <3>5, <3>8, <3>9 DEF WorkInv, AtWork
    <2> QED BY <2>2, <2>3
  <1>8. CASE PatchBext
    <2>1. /\ phase = "wav" /\ AtWork /\ UNCHANGED <<sessionVars, current>> /\ File \in Files /\ IsWav(File)
      BY <1>8, PathIsThere DEF PatchBext, Proceed, AtWork
    <2>2. CASE phase' = "ffmpeg"
      BY <2>2 DEF WorkInv, AtWork
    <2>3. CASE phase' # "ffmpeg"
      <3>1. PICK i \in First(File, "bext") :
               phase' = "sync" /\ Write([File EXCEPT !.parts[i].time = <<TimeReference(Meta)>>])
        BY <1>8, <2>3 DEF PatchBext, Proceed
      <3> DEFINE f == [File EXCEPT !.parts[i].time = <<TimeReference(Meta)>>]
      <3>2. i \in DOMAIN File.parts /\ File.parts \in Seq(Parts) /\ \A k \in DOMAIN File.parts : File.parts[k] \in Parts
        BY <2>1 DEF First, Files
      <3>3. /\ f.format = File.format /\ f.size = File.size /\ f.long = File.long
            /\ f.parts = [File.parts EXCEPT ![i] = [File.parts[i] EXCEPT !.time = <<TimeReference(Meta)>>]]
        BY <2>1 DEF Files
      <3>4. /\ DOMAIN f.parts = DOMAIN File.parts /\ Len(f.parts) = Len(File.parts)
            /\ f.parts[i].time = <<TimeReference(Meta)>>
            /\ \A k \in DOMAIN f.parts : f.parts[k].whole = File.parts[k].whole
        BY <3>2, <3>3 DEF Parts
      <3> HIDE DEF f
      <3>5. File' = f /\ Meta' = Meta /\ sound' = sound /\ current' = current
        BY <2>1, <3>1, NewFile, SameMeta DEF sessionVars, f
      <3>6. IsWav(f) /\ ~IsMp4(f)
        BY <2>1, <3>3 DEF IsMp4, IsWav
      <3>7. ASSUME current \in sound PROVE Intact(f) /\ Carries(f, Meta)
        <4>1. AllWhole(File) /\ File.size = Len(File.parts) /\ ~File.long
          BY <2>1, <3>7 DEF WorkInv, Intact, AllWhole
        <4>2. AllWhole(f) /\ f.size = Len(f.parts) /\ ~f.long
          BY <3>3, <3>4, <4>1 DEF AllWhole
        <4>3. Readable(f) /\ Intact(f)
          BY <3>6, <4>2 DEF Readable, Intact, AllWhole
        <4>4. i \in DOMAIN f.parts /\ i <= f.size /\ \A k \in 1 .. i : k \in DOMAIN f.parts
          BY <3>2, <3>4, <4>2
        <4>5. i \in Found(f)
          BY <3>6, <4>2, <4>4 DEF Found, AllWhole
        <4> QED BY <2>1, <3>4, <3>6, <4>3, <4>5, SampledIsSaid
      <3>8. ExactIn(f, sound, Meta, current) => current \in sound
        BY <3>6 DEF ExactIn
      <3> QED BY <3>1, <3>5, <3>7, <3>8 DEF WorkInv, AtWork
    <2> QED BY <2>2, <2>3
  <1>9. CASE AppendBext
    <2>1. /\ phase = "wav" /\ AtWork /\ UNCHANGED <<sessionVars, current>> /\ File \in Files /\ IsWav(File)
      BY <1>9, PathIsThere DEF AppendBext, AppendPart, Proceed, AtWork
    <2>2. CASE phase' = "ffmpeg"
      BY <2>2 DEF WorkInv, AtWork
    <2>3. CASE phase' # "ffmpeg"
      <3> DEFINE part == Holding("bext", <<TimeReference(Meta)>>)
                 f == Appended(File, part)
      <3>1. phase' = "size" /\ Write(f)
        BY <1>9, <2>3 DEF AppendBext, AppendPart, Proceed
      <3>2. part \in Parts /\ part.whole = TRUE /\ part.time = <<TimeReference(Meta)>>
        <4>1. <<TimeReference(Meta)>> \in Seq(Nat) /\ "bext" \in PartTypes
          BY <2>1, MetaIsTime, CountsAreNumbers DEF AtWork, PartTypes
        <4> QED BY <4>1, HoldingIsPart
      <3> HIDE DEF part
      <3>3. /\ f.format = File.format /\ f.long = File.long /\ LastPart(f) = part
            /\ f.parts # <<>> /\ (AllWhole(File) => AllWhole(f))
        BY <2>1, <3>2, AppendedParts
      <3> HIDE DEF f
      <3>4. File' = f /\ Meta' = Meta /\ sound' = sound /\ current' = current
        BY <2>1, <3>1, NewFile, SameMeta DEF sessionVars
      <3>5. IsWav(f)
        BY <2>1, <3>3 DEF IsWav
      <3>6. current \in sound => AllWhole(f) /\ ~f.long
        BY <2>1, <3>3 DEF WorkInv, Intact, AllWhole
      <3> QED BY <3>1, <3>2, <3>3, <3>4, <3>5, <3>6 DEF WorkInv, AtWork
    <2> QED BY <2>2, <2>3
  <1>10. CASE UpdateRiffSize
    <2>1. /\ phase = "size" /\ AtWork /\ UNCHANGED <<sessionVars, current>> /\ File \in Files /\ IsWav(File)
          /\ File.parts # <<>> /\ LastPart(File).time = <<TimeReference(Meta)>>
      BY <1>10, PathIsThere DEF UpdateRiffSize, Proceed, AtWork, WorkInv
    <2>2. CASE phase' = "ffmpeg"
      BY <2>2 DEF WorkInv, AtWork
    <2>3. CASE phase' # "ffmpeg"
      <3> DEFINE f == [File EXCEPT !.size = RiffSize(File)]
                 n == Len(File.parts)
      <3>1. phase' = "sync" /\ Write(f)
        BY <1>10, <2>3 DEF UpdateRiffSize, Proceed
      <3>2. /\ f.format = File.format /\ f.long = File.long /\ f.parts = File.parts
            /\ f.size = RiffSize(File)
        BY <2>1 DEF Files
      <3>3. n \in DOMAIN f.parts /\ f.parts[n] = LastPart(File) /\ n = Len(f.parts)
            /\ n \in Nat /\ \A k \in 1 .. n : k \in DOMAIN f.parts
        <4>1. File.parts \in Seq(Parts)
          BY <2>1 DEF Files
        <4> QED BY <2>1, <3>2, <4>1 DEF LastPart
      <3> HIDE DEF f
      <3>4. File' = f /\ Meta' = Meta /\ sound' = sound /\ current' = current
        BY <2>1, <3>1, NewFile, SameMeta DEF sessionVars
      <3>5. IsWav(f) /\ ~IsMp4(f)
        BY <2>1, <3>2 DEF IsMp4, IsWav
      <3>6. ASSUME current \in sound PROVE Intact(f) /\ Carries(f, Meta)
        <4>1. AllWhole(File) /\ ~File.long
          BY <2>1, <3>6 DEF WorkInv
        <4>2. AllWhole(f) /\ ~f.long /\ f.size = n
          BY <3>2, <4>1 DEF AllWhole, RiffSize
        <4> HIDE DEF n
        <4>3. Readable(f) /\ Intact(f)
          BY <3>3, <3>5, <4>2 DEF Readable, Intact, AllWhole
        <4>4. n \in Found(f)
          BY <3>3, <3>5, <4>2 DEF Found, AllWhole
        <4>5. f.parts[n].time = <<TimeReference(Meta)>>
          BY <2>1, <3>3
        <4> QED BY <2>1, <3>5, <4>3, <4>4, <4>5, SampledIsSaid
      <3>7. ExactIn(f, sound, Meta, current) => current \in sound
        BY <3>5 DEF ExactIn
      <3> QED BY <3>1, <3>4, <3>6, <3>7 DEF WorkInv, AtWork
    <2> QED BY <2>2, <2>3
  <1>11. CASE RemuxSucceeds
    <2>1. /\ AtWork /\ phase' = "replace" /\ UNCHANGED <<sessionVars, current, dir>> /\ File \in Files
          /\ tmp' = With(tmp, Path, Remuxed(File, Meta)) /\ Meta \in Timecodes
      BY <1>11, PathIsThere, MetaIsTime DEF RemuxSucceeds, Proceed, AtWork
    <2> DEFINE g == Remuxed(File, Meta)
    <2>2. Intact(g) /\ Carries(g, Meta) /\ g.ext = File.ext /\ g.format = ContainerFor(File.ext)
      BY <2>1, RemuxedIsRight
    <2> HIDE DEF g
    <2>3. tmp'[Path] = g /\ Path' = Path /\ File' = File /\ Meta' = Meta
      BY <2>1, SameMeta DEF With, File, g
    <2> QED BY <2>1, <2>2, <2>3 DEF WorkInv, AtWork
  <1> QED BY <1>1, <1>2, <1>3, <1>4, <1>5, <1>6, <1>7, <1>8, <1>9, <1>10, <1>11
          DEF TaggingNext, Native, Ffmpeg

\* A write in place leaves the file of its kind.
LEMMA WritesKeepKind ==
    ASSUME IInv, AtWork, Native
    PROVE  dir' = dir \/ \E f : Write(f) /\ f.ext = File.ext /\ f.format = File.format
  <1>1. File \in Files
    BY PathIsThere DEF AtWork
  <1>2. ASSUME NEW part
        PROVE  /\ Appended(File, part).ext = File.ext /\ Appended(File, part).format = File.format
               /\ WithLast(File, part).ext = File.ext /\ WithLast(File, part).format = File.format
    BY <1>1 DEF Appended, WithLast, Files
  <1>3. ASSUME NEW i, NEW time
        PROVE  /\ [File EXCEPT !.parts[i].time = time].ext = File.ext
               /\ [File EXCEPT !.parts[i].time = time].format = File.format
    BY <1>1 DEF Files
  <1>4. [File EXCEPT !.size = RiffSize(File)].ext = File.ext
        /\ [File EXCEPT !.size = RiffSize(File)].format = File.format
    BY <1>1 DEF Files
  <1>5. CASE TagFile \/ LeaveToFfmpeg \/ SyncInPlace
    BY <1>5 DEF TagFile, LeaveToFfmpeg, SyncInPlace
  <1>6. CASE OverwriteMoov
    BY <1>2, <1>6 DEF OverwriteMoov
  <1>7. CASE AppendMdat \/ AppendMoov \/ AppendBext
    BY <1>2, <1>7 DEF AppendMdat, AppendMoov, AppendBext, AppendPart
  <1>8. CASE PatchBext
    BY <1>3, <1>8 DEF PatchBext
  <1>9. CASE UpdateRiffSize
    BY <1>4, <1>9 DEF UpdateRiffSize
  <1> QED BY <1>5, <1>6, <1>7, <1>8, <1>9 DEF Native

LEMMA KindNext == IInv /\ IInv' /\ KindInv /\ UntouchedInv /\ [TaggingNext]_taggingVars => KindInv'
  <1> SUFFICES ASSUME IInv, KindInv, UntouchedInv, [TaggingNext]_taggingVars,
                      AtWork', phase' # "rename", current' \notin misnamed'
               PROVE  Fits(File')
    BY DEF KindInv, Fits
  <1>1. ~(Begin \/ Crash \/ EndSession \/ RenameClip \/ RemuxFails \/ ReplaceOriginal)
    BY DEF Begin, Crash, EndSession, RenameClip, NextClip, RemuxFails, ReplaceOriginal, Proceed, AtWork
  <1>2. CASE TagFile
    <2>1. /\ phase = "clip" /\ current \in 1 .. Clips /\ current \in current .. Clips
          /\ UNCHANGED <<dir, sessionVars, current>>
      BY <1>2, ClipsIsNat DEF TagFile, Proceed, IInv, TypeInv
    <2>2. ClipIn(dir, current) = File /\ File' = File /\ current \notin misnamed
      BY <2>1, FoundAtWork DEF Running, File, Path, sessionVars
    <2> QED BY <2>1, <2>2 DEF UntouchedInv
  <1>3. CASE ~TagFile
    <2>1. /\ AtWork /\ phase # "rename" /\ UNCHANGED <<sessionVars, current>>
          /\ dir' = dir \/ \E f : Write(f) /\ f.ext = File.ext /\ f.format = File.format
      <3>1. CASE Native
        <4>1. AtWork /\ phase # "rename" /\ UNCHANGED <<sessionVars, current>>
          BY <1>3, <3>1 DEF Native, LeaveToFfmpeg, OverwriteMoov, AppendMdat, AppendMoov, PatchBext,
             AppendBext, UpdateRiffSize, SyncInPlace, AppendPart, Proceed, AtWork
        <4> QED BY <3>1, <4>1, WritesKeepKind
      <3>2. CASE RemuxSucceeds
        BY <3>2 DEF RemuxSucceeds, Proceed, AtWork
      <3>3. CASE CancelSession \/ UNCHANGED taggingVars
        BY <3>3 DEF CancelSession, taggingVars, sessionVars, AtWork
      <3> QED BY <1>1, <3>1, <3>2, <3>3 DEF TaggingNext, Ffmpeg
    <2>2. Fits(File)
      BY <2>1 DEF KindInv, sessionVars
    <2>3. CASE dir' = dir
      BY <2>1, <2>2, <2>3 DEF File, Path, sessionVars
    <2>4. ASSUME NEW f, Write(f), f.ext = File.ext, f.format = File.format PROVE Fits(File')
      BY <2>1, <2>2, <2>4, NewFile DEF Fits
    <2> QED BY <2>1, <2>3, <2>4
  <1> QED BY <1>2, <1>3

-----------------------------------------------------------------------------
(* What is said of the clips, step by step.                                *)

\* A step that writes at most, and is not the last one on the clip.
LEMMA PlainStep ==
    ASSUME IInv, IInv', TruthInv, AtWork, AtWork', UNCHANGED <<sessionVars, current>>,
           UNCHANGED <<tmp, mishaps, tagged>>, dir' = dir \/ \E f : Write(f),
           phase \notin {"replace", "rename"}, phase' # "rename"
    PROVE  TruthInv'
  <1>1. \A n \in DOMAIN tmp : tmp[n].clip # current
    BY DEF TruthInv, BesideInv, AtWork
  <1> QED BY <1>1, WorkStep

LEMMA RenameStep ==
    ASSUME IInv, TruthInv, RenameClip
    PROVE  TruthInv'
  <1>1. /\ phase = "rename" /\ phase' = "clip" /\ current' = current + 1
        /\ UNCHANGED <<inputs, sound, session, misnamed, tmp, tagged>> /\ mishaps \subseteq mishaps'
        /\ current \in 1 .. Clips /\ current \in Nat /\ Clips \in Nat
    BY PathIsThere, ClipsIsNat DEF RenameClip, NextClip, NoteFailure, sessionVars, reportVars
  <1>2. ASSUME NEW c \in 1 .. Clips PROVE ClipIn(dir', c) = ClipIn(dir, c)
    <2>1. CASE UNCHANGED dir
      BY <2>1
    <2>2. CASE ~UNCHANGED dir
      <3>1. NewPath \notin DOMAIN dir /\ dir' = With(Without(dir, Path), NewPath, dir[Path])
        BY <2>2 DEF RenameClip, Taken, File
      <3>2. dir \in [DOMAIN dir -> Files] /\ EachOnce(dir) /\ Path \in DOMAIN dir
        BY <1>1, PathIsThere DEF IInv, TypeInv, NothingLost
      <3>3. ASSUME NEW p \in DOMAIN dir, NEW q, q \notin DOMAIN dir,
                   NEW e, e = With(Without(dir, p), q, dir[p])
            PROVE  ClipIn(e, c) = ClipIn(dir, c)
        BY <3>2, <3>3, RenameFinds
      <3> QED BY <3>1, <3>2, <3>3
    <2> QED BY <2>1, <2>2
  <1>3. UntouchedInv'
    <2> SUFFICES ASSUME NEW c \in current + 1 .. Clips
                 PROVE  /\ c \in sound => Intact(ClipIn(dir', c))
                        /\ c \notin misnamed => Fits(ClipIn(dir', c))
      BY <1>1 DEF UntouchedInv
    <2>1. c \in 1 .. Clips /\ c \in current .. Clips /\ c > current
      BY <1>1
    <2> QED BY <1>1, <1>2, <2>1 DEF TruthInv, UntouchedInv
  <1>4. BesideInv'
    <2> SUFFICES ASSUME NEW n \in DOMAIN tmp
                 PROVE  tmp[n].clip \in 1 .. current + 1 /\ tmp[n].clip # current + 1
      BY <1>1 DEF BesideInv
    <2>1. tmp[n].clip \in 1 .. current
      BY <1>1 DEF TruthInv, BesideInv
    <2> QED BY <1>1, <2>1
  <1>5. HarmInv'
    <2> SUFFICES ASSUME NEW c \in 1 .. Clips, c < current + 1
                 PROVE  /\ Unharmed(dir', tmp, sound, c) \/ <<"tag", c>> \in mishaps'
                        /\ KindKept(dir', tagged, misnamed, c)
      BY <1>1 DEF HarmInv
    <2>1. c < current \/ c = current
      BY <1>1
    <2>2. /\ Unharmed(dir, tmp, sound, c) \/ <<"tag", c>> \in mishaps
          /\ KindKept(dir, tagged, misnamed, c)
      BY <1>1, <2>1 DEF TruthInv, HarmInv
    <2> QED BY <1>1, <1>2, <2>2 DEF Unharmed, KindKept
  <1>6. TaggedInv'
    <2> SUFFICES ASSUME NEW c \in current + 1 .. Clips, NEW way \in {"native", "ffmpeg"}
                 PROVE  <<way, c>> \notin tagged
      BY <1>1 DEF TaggedInv
    <2>1. c \in current .. Clips /\ c # current
      BY <1>1
    <2> QED BY <1>1, <2>1 DEF TruthInv, TaggedInv
  <1>7. \A c \in 1 .. Clips : ReportTrue(dir', tagged', sound', Starts[session'][c], c)
    BY <1>1, <1>2 DEF TruthInv, ReportTrue
  <1> QED BY <1>3, <1>4, <1>5, <1>6, <1>7 DEF TruthInv

LEMMA TruthNext ==
    IInv /\ IInv' /\ WorkInv /\ KindInv /\ TruthInv /\ [TaggingNext]_taggingVars => TruthInv'
  <1> SUFFICES ASSUME IInv, IInv', WorkInv, KindInv, TruthInv, [TaggingNext]_taggingVars PROVE TruthInv'
    OBVIOUS
  <1>1. CASE Begin
    <2>1. /\ phase' = "clip" /\ current' = 1 /\ DOMAIN tmp' = {} /\ tagged' = {} /\ dir' = dir
          /\ sound' = {c \in 1 .. Clips : Intact(ClipIn(dir, c))}
          /\ misnamed' = {c \in 1 .. Clips : ~Fits(ClipIn(dir, c))}
      BY <1>1 DEF Begin, NameOf, ClipIn
    <2>2. UntouchedInv'
      BY <2>1 DEF UntouchedInv
    <2>3. BesideInv'
      BY <2>1 DEF BesideInv
    <2>4. HarmInv'
      BY <2>1, ClipsIsNat DEF HarmInv
    <2>5. TaggedInv'
      BY <2>1 DEF TaggedInv
    <2>6. \A c \in 1 .. Clips : ReportTrue(dir', tagged', sound', Starts[session'][c], c)
      BY <2>1 DEF ReportTrue
    <2> QED BY <2>2, <2>3, <2>4, <2>5, <2>6 DEF TruthInv
  <1>2. CASE Crash
    BY <1>2 DEF Crash, TruthInv, UntouchedInv, BesideInv, HarmInv, TaggedInv, sessionVars, reportVars
  <1>3. CASE CancelSession \/ UNCHANGED taggingVars
    BY <1>3 DEF CancelSession, taggingVars, TruthInv, UntouchedInv, BesideInv, HarmInv, TaggedInv,
                sessionVars, reportVars, Path
  <1>4. CASE EndSession
    BY <1>4 DEF EndSession, Proceed, TruthInv, UntouchedInv, BesideInv, HarmInv, TaggedInv,
                sessionVars, reportVars, Path
  <1>5. CASE RenameClip
    BY <1>5, RenameStep
  <1>6. CASE TagFile
    <2>1. /\ phase = "clip" /\ phase' \in {"mp4", "wav", "ffmpeg", "rename"}
          /\ UNCHANGED <<dir, tmp, tagged, mishaps, sound, session, misnamed, inputs, current>>
          /\ current \in 1 .. Clips /\ Clips \in Nat
      BY <1>6, ClipsIsNat DEF TagFile, Proceed, sessionVars, reportVars, IInv, TypeInv
    <2>2. UntouchedInv' /\ TaggedInv'
      BY <2>1 DEF TruthInv, UntouchedInv, TaggedInv
    <2>3. \A n \in DOMAIN tmp : tmp[n].clip # current /\ tmp[n].clip \in 1 .. current
      BY <2>1 DEF TruthInv, BesideInv
    <2>4. BesideInv'
      BY <2>1, <2>3 DEF BesideInv
    <2>5. Unharmed(dir, tmp, sound, current) /\ KindKept(dir, tagged, misnamed, current)
      BY <2>1, <2>3 DEF TruthInv, UntouchedInv, Unharmed, KindKept
    <2>6. HarmInv'
      BY <2>1, <2>5 DEF TruthInv, HarmInv
    <2> QED BY <2>1, <2>2, <2>4, <2>6 DEF TruthInv
  <1>7. CASE LeaveToFfmpeg \/ OverwriteMoov \/ AppendMdat \/ AppendMoov \/ PatchBext \/ AppendBext
             \/ UpdateRiffSize
    <2>1. /\ AtWork /\ AtWork' /\ phase \notin {"replace", "rename"} /\ phase' # "rename"
          /\ UNCHANGED <<sessionVars, current>> /\ UNCHANGED <<tmp, mishaps, tagged>>
          /\ dir' = dir \/ \E f : Write(f)
      BY <1>7 DEF LeaveToFfmpeg, OverwriteMoov, AppendMdat, AppendMoov, PatchBext, AppendBext,
                  UpdateRiffSize, AppendPart, Proceed, AtWork, reportVars
    <2> QED BY <2>1, PlainStep
  <1>8. CASE SyncInPlace
    <2>1. /\ AtWork /\ AtWork' /\ phase = "sync" /\ UNCHANGED <<sessionVars, current, dir, tmp, mishaps>>
      BY <1>8 DEF SyncInPlace, Proceed, AtWork, reportVars, ReportTagged
    <2>2. CASE phase' = "ffmpeg"
      <3>1. tagged' = tagged
        BY <1>8, <2>2 DEF SyncInPlace, Proceed, reportVars
      <3> QED BY <2>1, <2>2, <3>1, PlainStep
    <2>3. CASE phase' # "ffmpeg"
      <3>1. phase' = "rename" /\ tagged' = tagged \cup {<<"native", current>>}
        BY <1>8, <2>3 DEF SyncInPlace, Proceed, ReportTagged
      <3>2. ClipIn(dir, current) = File /\ current \in 1 .. Clips
        BY <2>1, PathIsThere, FoundAtWork DEF Running, AtWork
      <3>3. \A n \in DOMAIN tmp : tmp[n].clip # current
        BY <2>1 DEF TruthInv, BesideInv
      <3>4. Unharmed(dir, tmp, sound, current)
        BY <2>1, <3>2, <3>3 DEF WorkInv, Unharmed
      <3>5. <<"ffmpeg", current>> \notin tagged'
        <4>1. current \in current .. Clips
          BY <3>2, ClipsIsNat
        <4>2. <<"ffmpeg", current>> \notin tagged
          BY <2>1, <4>1 DEF TruthInv, TaggedInv
        <4> QED BY <3>1, <4>2
      <3>6. ReportTrue(dir, tagged', sound, Meta, current)
        BY <2>1, <3>2, <3>5 DEF ReportTrue, WorkInv
      <3>7. KindKept(dir, tagged', misnamed, current)
        BY <2>1, <3>2 DEF KindInv, KindKept
      <3> QED BY <2>1, <3>1, <3>3, <3>4, <3>6, <3>7, WorkStep
    <2> QED BY <2>2, <2>3
  <1>9. CASE RemuxSucceeds \/ RemuxFails
    <2>1. /\ AtWork /\ AtWork' /\ phase = "ffmpeg" /\ UNCHANGED <<sessionVars, current, dir, tagged>>
          /\ mishaps \subseteq mishaps' /\ File \in Files /\ File.clip = current /\ Meta \in Timecodes
      BY <1>9, PathIsThere, MetaIsTime
         DEF RemuxSucceeds, RemuxFails, Proceed, NoteFailure, AtWork, reportVars
    <2>2. \A n \in DOMAIN tmp : tmp[n].clip # current
      BY <2>1 DEF TruthInv, BesideInv
    <2>3. ASSUME NEW g, g.clip = current, tmp' = With(tmp, Path, g), phase' \in {"replace", "rename"}
          PROVE  \A n \in DOMAIN tmp' : \/ n \in DOMAIN tmp /\ tmp'[n] = tmp[n] /\ tmp[n].clip # current
                                        \/ /\ n = Path /\ tmp'[n].clip = current
                                           /\ phase' \in {"replace", "rename"}
      BY <2>2, <2>3 DEF With
    <2>6. ClipIn(dir, current) = File
      BY <2>1, PathIsThere, FoundAtWork DEF Running, AtWork
    <2>4. CASE RemuxSucceeds
      <3>1. phase' = "replace" /\ tmp' = With(tmp, Path, Remuxed(File, Meta))
        BY <2>4 DEF RemuxSucceeds, Proceed
      <3>2. Remuxed(File, Meta).clip = current
        BY <2>1, RemuxedIsRight
      <3>3. \A n \in DOMAIN tmp' : \/ n \in DOMAIN tmp /\ tmp'[n] = tmp[n] /\ tmp[n].clip # current
                                   \/ /\ n = Path /\ tmp'[n].clip = current
                                      /\ phase' \in {"replace", "rename"}
        BY <2>3, <3>1, <3>2
      <3> QED BY <2>1, <3>1, <3>3, WorkStep
    <2>5. CASE RemuxFails
      <3>1. /\ phase' = "rename" /\ <<"tag", current>> \in mishaps'
            /\ tmp' = tmp \/ tmp' = With(tmp, Path, [File EXCEPT !.parts = <<>>])
        BY <2>5 DEF RemuxFails, Proceed, NoteFailure
      <3>2. [File EXCEPT !.parts = <<>>].clip = current
        BY <2>1 DEF Files
      <3>3. \A n \in DOMAIN tmp' : \/ n \in DOMAIN tmp /\ tmp'[n] = tmp[n] /\ tmp[n].clip # current
                                   \/ /\ n = Path /\ tmp'[n].clip = current
                                      /\ phase' \in {"replace", "rename"}
        BY <2>2, <2>3, <3>1, <3>2
      <3>4. KindKept(dir, tagged', misnamed, current)
        BY <2>1, <2>6 DEF KindKept, KindInv
      <3> QED BY <2>1, <3>1, <3>3, <3>4, WorkStep
    <2> QED BY <1>9, <2>4, <2>5
  <1>10. CASE ReplaceOriginal
    <2>1. /\ AtWork /\ AtWork' /\ phase = "replace" /\ phase' = "rename"
          /\ UNCHANGED <<sessionVars, current>>
      BY <1>10 DEF ReplaceOriginal, Proceed, AtWork
    <2>2. \A n \in DOMAIN tmp : tmp[n].clip = current => n = Path
      BY <2>1 DEF TruthInv, BesideInv
    <2>3. CASE NoteFailure("tag") /\ UNCHANGED <<dir, tmp>>
      <3>1. <<"tag", current>> \in mishaps' /\ mishaps \subseteq mishaps' /\ tagged' = tagged
        BY <2>3 DEF NoteFailure
      <3>2. ClipIn(dir, current) = File
        BY <2>1, PathIsThere, FoundAtWork DEF Running, AtWork
      <3>3. KindKept(dir, tagged, misnamed, current)
        BY <2>1, <3>2 DEF KindKept, KindInv
      <3> QED BY <2>1, <2>2, <2>3, <3>1, <3>3, WorkStep
    <2>4. CASE Write(tmp[Path]) /\ tmp' = Without(tmp, Path) /\ ReportTagged("ffmpeg")
      <3>1. tagged' = tagged \cup {<<"ffmpeg", current>>} /\ mishaps' = mishaps
        BY <2>4 DEF ReportTagged
      <3>2. File' = tmp[Path] /\ current \in 1 .. Clips
        BY <2>1, <2>4, NewFile, PathIsThere DEF AtWork
      <3>3. ClipIn(dir', current) = tmp[Path]
        BY <2>1, <2>4, <3>2, OthersStay
      <3>4. \A n \in DOMAIN tmp' : n \in DOMAIN tmp /\ tmp'[n] = tmp[n] /\ tmp[n].clip # current
        BY <2>2, <2>4 DEF Without
      <3>5. Unharmed(dir', tmp', sound, current)
        BY <2>1, <3>3, <3>4 DEF WorkInv, Unharmed
      <3>6. <<"native", current>> \notin tagged'
        <4>1. current \in current .. Clips
          BY <3>2, ClipsIsNat
        <4>2. <<"native", current>> \notin tagged
          BY <2>1, <4>1 DEF TruthInv, TaggedInv
        <4> QED BY <3>1, <4>2
      <3>7. ReportTrue(dir', tagged', sound, Meta, current)
        BY <2>1, <3>3, <3>6 DEF ReportTrue, WorkInv
      <3>9. KindKept(dir', tagged', misnamed, current)
        BY <2>1, <3>1, <3>3 DEF KindKept, WorkInv, Fits
      <3>8. dir' = dir \/ \E f : Write(f)
        BY <2>4
      <3> QED BY <2>1, <3>1, <3>4, <3>5, <3>7, <3>8, <3>9, WorkStep
    <2> QED BY <1>10, <2>3, <2>4 DEF ReplaceOriginal
  <1> QED BY <1>1, <1>2, <1>3, <1>4, <1>5, <1>6, <1>7, <1>8, <1>9, <1>10
          DEF TaggingNext, Native, Ffmpeg

LEMMA TruthAlways == TaggingSpec => [](IInv /\ WorkInv /\ KindInv /\ TruthInv)
  <1>1. TaggingInit => IInv /\ WorkInv /\ KindInv /\ TruthInv
    <2> SUFFICES ASSUME TaggingInit PROVE WorkInv /\ KindInv /\ TruthInv
      BY InitInvariant
    <2>1. phase = "idle" /\ tagged = {}
      BY DEF TaggingInit
    <2> QED BY <2>1 DEF WorkInv, KindInv, AtWork, TruthInv, UntouchedInv, BesideInv, HarmInv, TaggedInv,
                        ReportTrue
  <1>2. IInv /\ WorkInv /\ KindInv /\ TruthInv /\ [TaggingNext]_taggingVars
        => IInv' /\ WorkInv' /\ KindInv' /\ TruthInv'
    BY StepInvariant, WorkNext, KindNext, TruthNext DEF TruthInv
  <1> QED BY <1>1, <1>2, PTL DEF TaggingSpec

\* A clip reported as tagged can be opened and carries the timecode this
\* session was to give it, wherever the writing of it or of others was cut
\* short, ended or repeated: via ffmpeg always, in place for every MP4 whose
\* rate has no fraction and whose offsets fit in 32 bits and every WAV that
\* was intact, at any rate (tag_mp4_tmcd, tag_wav_bext, tag_via_ffmpeg_with).
THEOREM ReportsAreTrue == TaggingSpec => []ReportedIsTrue
  <1>1. TruthInv => ReportedIsTrue
    <2> SUFFICES ASSUME TruthInv, NEW way \in {"native", "ffmpeg"}, NEW c \in 1 .. Clips,
                        <<way, c>> \in tagged, way = "native" => Exact(c)
                 PROVE  Carries(FileOf(c), Starts[session][c])
      BY DEF ReportedIsTrue
    <2>1. FileOf(c) = ClipIn(dir, c)
      BY DEF FileOf, NameOf, ClipIn
    <2>2. Exact(c) => ExactIn(ClipIn(dir, c), sound, Starts[session][c], c)
      BY <2>1 DEF Exact, ExactIn
    <2>3. ReportTrue(dir, tagged, sound, Starts[session][c], c)
      BY DEF TruthInv
    <2> QED BY <2>1, <2>2, <2>3 DEF ReportTrue
  <1> QED BY <1>1, TruthAlways, PTL

\* At the end of a session, each clip it has damaged and each one with a
\* temporary file beside it is in the ledger, although tagging in place may
\* fail between any two writes without an entry; and a clip that is not what
\* its name says any more is one that ffmpeg was told another container for,
\* which is no entry of the ledger (tag_and_rename_files,
\* container_for_input).
THEOREM HarmAlwaysReported == TaggingSpec => []HarmIsReported
  <1>1. ASSUME IInv, TruthInv PROVE HarmIsReported
    <2> SUFFICES ASSUME phase = "done", NEW c \in 1 .. Clips
                 PROVE  /\ Unharmed(dir, tmp, sound, c) \/ <<"tag", c>> \in mishaps
                        /\ KindKept(dir, tagged, misnamed, c)
      BY DEF HarmIsReported, Unharmed, KindKept, ClipIn, FileOf, NameOf
    <2>1. current \in 1 .. Clips + 1 /\ Clips \in Nat
      BY <1>1, ClipsIsNat DEF IInv, TypeInv
    <2>2. CASE c < current
      BY <1>1, <2>2 DEF TruthInv, HarmInv
    <2>3. CASE ~(c < current)
      <3>1. c \in current .. Clips
        BY <2>1, <2>3
      <3>2. \A n \in DOMAIN tmp : tmp[n].clip \in 1 .. current /\ tmp[n].clip # current
        BY <1>1 DEF TruthInv, BesideInv
      <3>3. \A n \in DOMAIN tmp : tmp[n].clip # c
        BY <2>1, <3>1, <3>2
      <3> QED BY <1>1, <3>1, <3>3 DEF TruthInv, UntouchedInv, Unharmed, KindKept
    <2> QED BY <2>2, <2>3
  <1> QED BY <1>1, TruthAlways, PTL
=============================================================================
