----------------------------- MODULE Conversion -----------------------------
(***************************************************************************)
(* One run of the converter: the body of a Conversion job                  *)
(* (gui-engine/src/converter/runner.rs, process.rs).                       *)
(*                                                                         *)
(* It probes the clips, plans its steps (ConversionPlan), and runs ffmpeg  *)
(* once for each of them; a step that encodes video tries one encoder      *)
(* after the other while they fail to initialise.  The metadata pipeline   *)
(* goes on after a failure, keeps a ledger, and tags the clips in place.   *)
(* The cancel flag may be set at any moment and is looked at between any   *)
(* two calls.                                                              *)
(***************************************************************************)
EXTENDS ConversionPlan, TLC

CONSTANTS
    Cases,          \* [settings, layout, device] a conversion can start with
    Chain,          \* the encoders to try, in order
    HardwareEncoder,\* those of them that need a device
    None

ASSUME ConversionAssumption ==
    /\ Chain \in Seq(STRING) /\ Chain # <<>>
    /\ HardwareEncoder \subseteq ToSet(Chain)
    /\ None \notin {"Succeeded", "Failed", "Cancelled"}

\* What assemble_converter_settings puts together: clips have a source of the
\* timecode, and what is not metadata only is video exactly for clips.
ASSUME CasesAssumption ==
    \A c \in Cases :
        /\ c.settings.pipeline \in {"video", "audio", "synthetic", "metadata"}
        /\ c.settings.inputs \in Nat /\ c.settings.map \in Seq(Nat)
        /\ c.settings.pipeline = "video" => c.settings.clips
        /\ c.settings.clips => c.settings.ltcSource # NoPair
        /\ DOMAIN c.layout = 1 .. c.settings.inputs
        /\ \A f \in DOMAIN c.layout : c.layout[f] # NoProbe

VARIABLES
    settings,           \* those the job was started with
    layout,             \* the audio each clip really holds
    device,             \* whether the machine has the hardware device
    pc,
    probes,             \* what was found in the clips looked at so far
    steps,              \* still to be run; the head may be under way
    candidates,         \* encoders left for the step
    resolved,           \* the encoder that has worked
    unusable,           \* encoders that have failed to initialise
    clip,               \* the clip to be tagged next
    ledger,             \* [attempted, succeeded, failed]; failed names them
    disk,               \* output files by path: [state, content, encoder]
    cancelled, failed,
    outcome,
    late                \* calls begun since the cancel flag was set

planVars == <<settings, layout, device, probes>>
encoderVars == <<candidates, resolved, unusable>>
tagVars == <<clip, ledger>>
endVars == <<failed, outcome>>
vars == <<planVars, pc, steps, encoderVars, tagVars, disk, cancelled, endVars, late>>

Pipeline == settings.pipeline
IsClipPipeline == Pipeline \in {"video", "metadata"}

Init ==
    /\ \E c \in Cases : settings = c.settings /\ layout = c.layout /\ device = c.device
    /\ pc = IF IsClipPipeline THEN "probe" ELSE "plan"
    /\ probes = <<>> /\ steps = <<>>
    /\ candidates = <<>> /\ resolved = None /\ unusable = {}
    /\ clip = 1 /\ ledger = [attempted |-> 0, succeeded |-> 0, failed |-> {}]
    /\ disk = <<>>
    /\ cancelled = FALSE /\ failed = FALSE /\ outcome = None /\ late = 0

\* The run is over, with a failure or without one.
Stop(asFailure) ==
    /\ pc' = "finish"
    /\ failed' = (failed \/ asFailure)
    /\ UNCHANGED outcome

Goto(label) == pc' = label /\ UNCHANGED endVars

\* The ledger gets so many successes and these failures.
Enter(successes, failures) ==
    ledger' = [attempted |-> ledger.attempted + successes + Cardinality(failures),
               succeeded |-> ledger.succeeded + successes,
               failed |-> ledger.failed \cup failures]

-----------------------------------------------------------------------------
(* What the steps of a plan are about.                                     *)

\* How a failure of the step is dealt with.
Policy(step) ==
    IF Pipeline = "metadata" THEN "ledger"
    ELSE IF Pipeline = "synthetic"
            \/ (Pipeline = "video" /\ step.type # "concat" /\ ~settings.copy)
    THEN "fallback"
    ELSE "stop"

\* The plan for clips that differ has steps the video pipeline passes over.
Skipped(step) == Pipeline = "video" /\ UsesConcat(settings) /\ step.type = "channel"

\* The cancel flag is looked at before the step, not only by the call.
LooksAtCancel == IsClipPipeline \/ (Pipeline = "audio" /\ settings.split)

\* The channels that get into the output, as pairs <<clip, channel>>.  The
\* arguments for "all but" are made from the layout of the first clip.
Content(step) ==
    LET here(pairs) == {<<step.file, p>> : p \in pairs}
        of(f) == ToSet(layout[f].channels)
    IN  CASE step.type \in {"channel", "track", "reordered", "merged"} -> here(ToSet(step.keep))
          [] step.type = "concat" -> ToSet(step.keep)
          [] step.type = "all" -> here(of(step.file))
          [] step.type = "except" -> here(ToSet(ChannelsOf(probes[1])) \ ToSet(step.keep))
          [] step.type = "synthetic" -> {<<i, <<1, 1>>>> : i \in DOMAIN settings.map}
          [] step.type \in {"video", "mixed"} -> {}

\* ffmpeg cannot succeed when it is asked for a channel that is not there.
Feasible(step) ==
    IsClipPipeline => \A c \in Content(step) : c[2] \in ToSet(layout[c[1]].channels)

-----------------------------------------------------------------------------
(* Slips a change to the code could make, for the mutation entries of      *)
(* PROJECT.json; nothing below uses them.                                  *)

\* Encoders used up are taken for a step that is done.
NextCandidateGivingUp ==
    /\ pc = "encoder"
    /\ IF candidates = <<>>
       THEN steps' = Tail(steps) /\ Goto("step")
       ELSE UNCHANGED steps /\ IF cancelled THEN Stop(FALSE) ELSE Goto("start")
    /\ UNCHANGED <<planVars, encoderVars, tagVars, disk, cancelled, late>>

\* A failed initialisation leaves its file.
FileAfterExitKept(f, produced) == {f}

\* The process is not told of the cancel flag.
FfmpegKilledNever == pc = "running" /\ FALSE

-----------------------------------------------------------------------------
(* Probing and planning.                                                   *)

\* Clips that cannot be probed count as clips without audio, and are noted
\* in the ledger if there is one.  Audio files are not probed.
ProbeClip ==
    /\ pc = "probe" /\ Len(probes) < settings.inputs /\ ~cancelled
    /\ \E p \in {layout[Len(probes) + 1], NoProbe} :
        /\ settings.clips \/ p = NoProbe
        /\ probes' = Append(probes, p)
        /\ IF Pipeline = "metadata" /\ settings.clips /\ p = NoProbe
           THEN Enter(0, {<<"probe", Len(probes) + 1>>})
           ELSE UNCHANGED ledger
    /\ UNCHANGED <<settings, layout, device, pc, steps, encoderVars, clip, disk,
                   cancelled, endVars, late>>

\* Cancelled, the metadata pipeline fails at once; the video pipeline goes
\* on with the clips it has looked at.
ProbingEnds ==
    /\ pc = "probe" /\ (Len(probes) = settings.inputs \/ cancelled)
    /\ IF Len(probes) < settings.inputs /\ Pipeline = "metadata"
       THEN Stop(TRUE) ELSE Goto("plan")
    /\ UNCHANGED <<planVars, steps, encoderVars, tagVars, disk, cancelled, late>>

Plan ==
    /\ pc = "plan"
    /\ steps' = PlanSteps(settings, probes)
    /\ Goto("step")
    /\ UNCHANGED <<planVars, encoderVars, tagVars, disk, cancelled, late>>

-----------------------------------------------------------------------------
(* The loop over the steps.                                                *)

\* Encoders to try: the one that has worked, or all that have not failed.
Remaining ==
    IF resolved # None THEN <<resolved>>
    ELSE SelectSeq(Chain, LAMBDA e : e \notin unusable)

\* Cancelled between two steps.  Only the metadata pipeline calls that a
\* failure; a split that has not written a track fails for that reason.
StepsCancelled ==
    /\ pc = "step" /\ cancelled /\ LooksAtCancel /\ (steps # <<>> \/ Pipeline = "metadata")
    /\ Stop(Pipeline = "metadata" \/ (Pipeline = "audio" /\ DOMAIN disk = {}))
    /\ UNCHANGED <<planVars, steps, encoderVars, tagVars, disk, cancelled, late>>

SkipStep ==
    /\ pc = "step" /\ ~cancelled /\ steps # <<>> /\ Skipped(Head(steps))
    /\ steps' = Tail(steps)
    /\ UNCHANGED <<planVars, pc, encoderVars, tagVars, disk, cancelled, endVars, late>>

BeginStep ==
    /\ pc = "step" /\ steps # <<>>
    /\ ~(cancelled /\ LooksAtCancel) /\ ~Skipped(Head(steps))
    /\ IF Policy(Head(steps)) = "fallback"
       THEN candidates' = Remaining /\ Goto("encoder")
       ELSE UNCHANGED candidates /\ Goto("start")
    /\ UNCHANGED <<planVars, steps, resolved, unusable, tagVars, disk, cancelled, late>>

\* A split without a track left is a failure.
StepsDone ==
    /\ pc = "step" /\ steps = <<>> /\ ~(cancelled /\ Pipeline = "metadata")
    /\ IF Pipeline = "metadata" THEN Goto("tag")
       ELSE Stop(Pipeline = "audio" /\ DOMAIN disk = {})
    /\ UNCHANGED <<planVars, steps, encoderVars, tagVars, disk, cancelled, late>>

-----------------------------------------------------------------------------
(* The encoders of a step.                                                 *)

\* No encoder is left: a failure.  Cancelled: not one.
NextCandidate ==
    /\ pc = "encoder"
    /\ candidates # <<>> /\ ~cancelled => device \/ Head(candidates) \notin HardwareEncoder
    /\ IF candidates = <<>> THEN Stop(TRUE)
       ELSE IF cancelled THEN Stop(FALSE) ELSE Goto("start")
    /\ UNCHANGED <<planVars, steps, encoderVars, tagVars, disk, cancelled, late>>

GiveUpCandidate ==
    /\ candidates' = Tail(candidates)
    /\ unusable' = unusable \cup {Head(candidates)}
    /\ UNCHANGED resolved

\* There is no device for the encoder.
SkipCandidate ==
    /\ pc = "encoder" /\ candidates # <<>> /\ ~cancelled
    /\ ~device /\ Head(candidates) \in HardwareEncoder
    /\ GiveUpCandidate
    /\ UNCHANGED <<planVars, pc, steps, tagVars, disk, cancelled, endVars, late>>

-----------------------------------------------------------------------------
(* One call of ffmpeg.                                                     *)

StepSucceeds ==
    /\ steps' = Tail(steps)
    /\ Goto("step")
    /\ resolved' = IF Policy(Head(steps)) = "fallback" THEN Head(candidates) ELSE resolved
    /\ IF Policy(Head(steps)) = "ledger" THEN Enter(1, {}) ELSE UNCHANGED ledger
    /\ UNCHANGED <<candidates, unusable, clip>>

\* kind is "fatal", or "init" if the encoder did not get to any output.
StepFails(kind) ==
    CASE Policy(Head(steps)) = "ledger" ->
            /\ Enter(0, {Head(steps).out})
            /\ steps' = Tail(steps)
            /\ Goto("step")
            /\ UNCHANGED <<encoderVars, clip>>
      [] Policy(Head(steps)) = "fallback" /\ kind = "init" ->
            GiveUpCandidate /\ Goto("encoder") /\ UNCHANGED <<steps, tagVars>>
      [] OTHER ->
            Stop(TRUE) /\ UNCHANGED <<steps, encoderVars, tagVars>>

\* The last look at the cancel flag before the process is started.
StartFfmpeg ==
    /\ pc = "start"
    /\ IF cancelled THEN StepFails("fatal")
       ELSE Goto("spawn") /\ UNCHANGED <<steps, encoderVars, tagVars>>
    /\ UNCHANGED <<planVars, disk, cancelled, late>>

Late == IF cancelled THEN late + 1 ELSE late

SpawnFfmpeg ==
    /\ pc = "spawn"
    /\ \/ Goto("running") /\ UNCHANGED <<steps, encoderVars, tagVars>>
       \/ StepFails("fatal")
    /\ late' = Late
    /\ UNCHANGED <<planVars, disk, cancelled>>

Out == Head(steps).out

\* The state of the output file.
FileState == IF Out \in DOMAIN disk THEN disk[Out].state ELSE "absent"

Encoder == IF Policy(Head(steps)) = "fallback" THEN Head(candidates) ELSE None

\* The step has written a file in this state.
WriteOut(state) ==
    disk' = [o \in DOMAIN disk \cup {Out} |->
                IF o = Out
                THEN [state |-> state, content |-> Content(Head(steps)), encoder |-> Encoder]
                ELSE disk[o]]

\* The output is now in this state, with what it already held if unchanged.
SetFile(state) ==
    CASE state = "absent" -> disk' = [o \in DOMAIN disk \ {Out} |-> disk[o]]
      [] state # "absent" /\ state = FileState -> UNCHANGED disk
      [] OTHER -> WriteOut(state)

\* What a process that did not succeed may leave.
Leavings == {FileState, "partial"}

FfmpegSucceeds ==
    /\ pc = "running" /\ Feasible(Head(steps))
    /\ WriteOut("whole")
    /\ StepSucceeds
    /\ UNCHANGED <<planVars, cancelled, late>>

\* Output is known from the progress reported or from the size of the file,
\* which may be too small to hold more than a header.
ProducedOutput(f, reported, large) ==
    reported \/ f = "whole" \/ (f = "partial" /\ large)

\* A file without output is removed; "stuck" is one that cannot be.
FileAfterExit(f, produced) ==
    IF produced \/ f = "absent" THEN {f} ELSE {"absent", "stuck"}

FfmpegExits ==
    /\ pc = "running"
    /\ \E f \in Leavings, reported, large \in BOOLEAN :
        LET produced == ProducedOutput(f, reported, large)
        IN  /\ \E state \in FileAfterExit(f, produced) : SetFile(state)
            /\ StepFails(IF produced THEN "fatal" ELSE "init")
    /\ UNCHANGED <<planVars, cancelled, late>>

\* Killed because the flag was set; or silent for too long, or not to be
\* waited for.
FfmpegKilled ==
    /\ pc = "running" /\ cancelled
    /\ \E f \in Leavings : SetFile(f)
    /\ StepFails("fatal")
    /\ UNCHANGED <<planVars, cancelled, late>>

FfmpegStalls ==
    /\ pc = "running" /\ ~cancelled
    /\ \E f \in Leavings : SetFile(f)
    /\ StepFails("fatal")
    /\ UNCHANGED <<planVars, cancelled, late>>

-----------------------------------------------------------------------------
(* Tagging and renaming the clips of the metadata pipeline.                *)

NextTag ==
    /\ pc = "tag" /\ clip <= Len(probes)
    /\ IF cancelled THEN Stop(TRUE) ELSE Goto("tagging")
    /\ UNCHANGED <<planVars, steps, encoderVars, tagVars, disk, cancelled, late>>

\* Both are tried; what is skipped or done leaves no trace in the ledger.
TagAndRename ==
    /\ pc = "tagging"
    /\ \E errors \in SUBSET {"tag", "rename"} : Enter(0, {<<e, clip>> : e \in errors})
    /\ clip' = clip + 1
    /\ late' = Late
    /\ Goto("tag")
    /\ UNCHANGED <<planVars, steps, encoderVars, disk, cancelled>>

\* A run of which nothing succeeded has failed.
SummarizeMetadataFailures ==
    /\ pc = "tag" /\ clip > Len(probes)
    /\ Stop(ledger.failed # {} /\ ledger.attempted > 0 /\ ledger.succeeded = 0)
    /\ UNCHANGED <<planVars, steps, encoderVars, tagVars, disk, cancelled, late>>

-----------------------------------------------------------------------------
Finish ==
    /\ pc = "finish"
    /\ outcome' = IF failed THEN "Failed" ELSE IF cancelled THEN "Cancelled" ELSE "Succeeded"
    /\ pc' = "done"
    /\ UNCHANGED <<planVars, steps, encoderVars, tagVars, disk, cancelled, failed, late>>

Cancel ==
    /\ pc # "done" /\ ~cancelled
    /\ cancelled' = TRUE
    /\ UNCHANGED <<planVars, pc, steps, encoderVars, tagVars, disk, endVars, late>>

\* What the job does by itself, that is without an end of ffmpeg.
JobStep ==
    \/ ProbeClip \/ ProbingEnds \/ Plan
    \/ StepsCancelled \/ SkipStep \/ BeginStep \/ StepsDone
    \/ NextCandidate \/ SkipCandidate
    \/ StartFfmpeg \/ SpawnFfmpeg
    \/ NextTag \/ TagAndRename \/ SummarizeMetadataFailures \/ Finish

FfmpegEnds == FfmpegSucceeds \/ FfmpegExits \/ FfmpegStalls

Next == JobStep \/ FfmpegEnds \/ FfmpegKilled \/ Cancel

\* Nothing is assumed of ffmpeg; once cancelled, the watchdog kills it.
Spec == Init /\ [][Next]_vars /\ WF_vars(JobStep) /\ WF_vars(FfmpegKilled)

-----------------------------------------------------------------------------
\* Every clip has the layout shown to the user, and the probes found it.
AsProbed ==
    /\ Len(probes) = settings.inputs
    /\ \A f \in DOMAIN probes : probes[f] = layout[1]

Whole == {o \in DOMAIN disk : disk[o].state = "whole"}

ConversionTypeOK ==
    /\ pc \in {"probe", "plan", "step", "encoder", "start", "spawn", "running",
               "tag", "tagging", "finish", "done"}
    /\ Len(probes) <= settings.inputs /\ clip \in 1 .. settings.inputs + 1
    /\ ToSet(candidates) \cup unusable \subseteq ToSet(Chain)
    /\ pc \in {"encoder", "start", "spawn", "running"} => steps # <<>>
    /\ ledger.succeeded <= ledger.attempted
    /\ outcome \in {None, "Succeeded", "Failed", "Cancelled"}

\* A conversion of clips that succeeds has written exactly the files that
\* were listed before it ran (plan_output_paths), each of them whole.
PreviewIsWritten ==
    outcome = "Succeeded" /\ Pipeline = "video" /\ AsProbed
        => DOMAIN disk = PlanOutputPaths(settings, layout[1]) /\ Whole = DOMAIN disk

\* With the timecode to be dropped, no file of the video pipeline and no
\* track of a split has it, whatever the other clips look like.
NoLtcWritten ==
    settings.drop /\ (Pipeline = "video" \/ (Splits(settings) /\ Pipeline # "synthetic")) =>
        \A o \in DOMAIN disk : \A c \in disk[o].content :
            IF settings.clips THEN c[2] # settings.ltcSource ELSE c[1] # settings.ltcTrack

\* All files of a run are made by one encoder, the one that worked first,
\* though it may fail later where another one would not.
OneEncoder == \A o \in Whole : disk[o].encoder \in {None, resolved}

Partial == {o \in DOMAIN disk : disk[o].state = "partial"}

\* A part of an output is left only by a run that reports a failure: as its
\* result, or for this output in the ledger.  A file without output that
\* could not be removed is no part of one (README, section 5).
PartialIsReported ==
    outcome \in {"Succeeded", "Cancelled"} => Partial \subseteq ledger.failed

\* After the cancel flag is set at most the call already decided upon is
\* begun: no further process, no further clip tagged.
CancelIsPrompt == late <= 1

\* The run is a task: it ends once, as cancelled only if it was, and ends
\* after a cancel even if ffmpeg never would.
Body == INSTANCE Task WITH
            Ends <- {"Succeeded", "Failed", "Cancelled"}, Cancelled <- "Cancelled",
            asked <- cancelled, result <- outcome

ConversionIsTask == Body!TaskSpec
=============================================================================
