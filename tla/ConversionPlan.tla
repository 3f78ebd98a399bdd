--------------------------- MODULE ConversionPlan ---------------------------
(***************************************************************************)
(* What a conversion intends to write: the channel map, the steps planned  *)
(* for every pipeline, and the list of files shown to the user beforehand  *)
(* (gui-engine/src/converter: channel_map.rs, planning.rs, settings.rs).   *)
(*                                                                         *)
(* Everything here is a function of the settings and of the audio layout   *)
(* found in each clip.  Indices count from 1.  A physical channel is a     *)
(* pair <<stream, channel>>; a layout is the list of the channels of a     *)
(* clip with the sample rate of its first stream.  A path is the tuple of  *)
(* what the default templates put into a name: kind, clip and track.       *)
(***************************************************************************)
EXTENDS Naturals, Sequences, FiniteSets, SequencesExt

CONSTANTS
    NoProbe,    \* the audio of a clip could not be probed
    NoPair      \* no channel is known to carry the timecode

\* The numbers 1 to n in order.
Upto(n) == [i \in 1 .. n |-> i]

\* The sequence of Op(x) for the members x of seq.
Mapped(seq, Op(_)) == [i \in DOMAIN seq |-> Op(seq[i])]

-----------------------------------------------------------------------------
(* The channel map: map[i] is the output slot of input i.                  *)

Identity(n) == Upto(n)

\* The first input that goes to slot k, 0 if there is none.
InputForOutput(map, k) ==
    IF \E i \in DOMAIN map : map[i] = k
    THEN CHOOSE i \in DOMAIN map : map[i] = k /\ \A j \in 1 .. i - 1 : map[j] # k
    ELSE 0

\* What the user does to the map: put input row into slot k; the input that
\* had the slot gets the slot of row.
SwapSlots(map, row, k) ==
    IF row \notin DOMAIN map \/ k \notin DOMAIN map
    THEN map
    ELSE LET i == InputForOutput(map, k)
             other == IF i = 0 THEN row ELSE i
         IN  [map EXCEPT ![row] = map[other], ![other] = map[row]]

-----------------------------------------------------------------------------
(* Paths.                                                                  *)

AudioPath(file, index) == <<"audio", file, IF index = 0 THEN 1 ELSE index>>
VideoPath(file) == <<"video", file, file>>

-----------------------------------------------------------------------------
(* A step: the clip it reads, what it does with the audio, and its output. *)

Step(type, file, keep, out) == [type |-> type, file |-> file, keep |-> keep, out |-> out]

VideoOnly(file) == Step("video", file, <<>>, VideoPath(file))
AllAudio(file) == Step("all", file, <<>>, VideoPath(file))
ChannelsExcept(file, pairs) == Step("except", file, pairs, VideoPath(file))
Reordered(file, pairs) == Step("reordered", file, pairs, VideoPath(file))
AudioChannel(file, pair, index) == Step("channel", file, <<pair>>, AudioPath(file, index))
\* One track of all clips in a row; keep lists the pairs <<clip, channel>>.
AudioChannelConcat(segments, index) == Step("concat", 1, segments, AudioPath(1, index))

-----------------------------------------------------------------------------
(* Slips a change to the code could make, for the mutation entries of      *)
(* PROJECT.json; nothing below uses them.                                  *)

\* The timecode is looked for in the slot of its own number.
IsLtcByOutput(s, k, pair) ==
    IF s.clips THEN s.ltcSource = pair ELSE s.drop /\ k = s.ltcTrack

-----------------------------------------------------------------------------
(* The channels that survive.                                              *)

\* Whether slot k, fed by the channel pair, carries the timecode.
IsLtc(s, k, pair) ==
    IF s.clips THEN s.ltcSource = pair
    ELSE s.drop /\ InputForOutput(s.map, k) = s.ltcTrack

\* The channel behind slot k: without a layout, that of the input's number.
PhysicalPair(s, physical, k) ==
    LET i == InputForOutput(s.map, k)
    IN  IF physical = <<>> THEN <<i, 1>> ELSE physical[i]

\* Unmapped slots, inputs the layout does not have, and the timecode if it is
\* to be dropped, are left out.
Survives(s, physical, k) ==
    LET i == InputForOutput(s.map, k)
    IN  /\ i # 0 /\ (physical = <<>> \/ i \in DOMAIN physical)
        /\ ~(s.drop /\ IsLtc(s, k, PhysicalPair(s, physical, k)))

Selected(s, physical, k) ==
    [slot |-> k, input |-> InputForOutput(s.map, k), pair |-> PhysicalPair(s, physical, k)]

\* In the order of the slots.
SelectedChannelPairs(s, physical) ==
    LET upto[k \in 0 .. Len(s.map)] ==
            IF k = 0 THEN <<>>
            ELSE IF Survives(s, physical, k)
            THEN Append(upto[k - 1], Selected(s, physical, k))
            ELSE upto[k - 1]
    IN  upto[Len(s.map)]

\* Audio files of one clip, one for each surviving channel.
ChannelSteps(s, file, channels) ==
    LET selected == SelectedChannelPairs(s, channels)
    IN  [i \in DOMAIN selected |-> AudioChannel(file, selected[i].pair, i)]

-----------------------------------------------------------------------------
(* The plans.                                                              *)

ChannelsOf(probe) == IF probe = NoProbe THEN <<>> ELSE probe.channels

\* The audio of a clip whose channels stay in place: all of it, without the
\* timecode, or none if nothing else is there.
InPlaceStep(s, file, channels) ==
    LET dropped == IF s.drop /\ s.ltcSource # NoPair THEN {s.ltcSource} ELSE {}
    IN  IF dropped = {} THEN AllAudio(file)
        ELSE IF Cardinality(dropped \cap ToSet(channels)) = Len(channels)
        THEN VideoOnly(file)
        ELSE ChannelsExcept(file, SetToSeq(dropped))

MuxStep(s, file, channels) ==
    LET selected == SelectedChannelPairs(s, channels)
    IN  IF s.map = Identity(Len(channels)) THEN InPlaceStep(s, file, channels)
        ELSE IF selected = <<>> THEN VideoOnly(file)
        ELSE Reordered(file, [i \in DOMAIN selected |-> selected[i].pair])

PlanVideoOutputsForFile(s, file, channels) ==
    IF s.split
    THEN <<VideoOnly(file)>> \o ChannelSteps(s, file, channels)
    ELSE <<MuxStep(s, file, channels)>>

\* The clips with audio; the first of them sets the layout all must share.
WithAudio(probes) == {f \in DOMAIN probes : ChannelsOf(probes[f]) # <<>>}

\* The rate compared with is that of the first clip that could be probed,
\* though it may have no audio itself.
Consistent(probes) ==
    LET channels == probes[Min(WithAudio(probes))].channels
        rate == probes[Min({f \in DOMAIN probes : probes[f] # NoProbe})].rate
    IN  \A f \in WithAudio(probes) :
            probes[f].channels = channels /\ probes[f].rate = rate

\* One output for each surviving track, with its segment of every clip that
\* has audio, or one for each channel of each clip if the clips differ.
PlanConcatOutputs(s, probes) ==
    LET clips == WithAudio(probes)
        selected == SelectedChannelPairs(s, ChannelsOf(probes[Min(clips)]))
        Segments(i) == Mapped(SetToSortSeq(clips, <), LAMBDA f : <<f, selected[i].pair>>)
    IN  IF clips = {} THEN <<>>
        ELSE IF Consistent(probes)
        THEN [i \in DOMAIN selected |-> AudioChannelConcat(Segments(i), i)]
        ELSE FlattenSeq([f \in DOMAIN probes |->
                IF probes[f] = NoProbe THEN <<>>
                ELSE ChannelSteps(s, f, probes[f].channels)])

UsesConcat(s) == s.concat /\ s.split /\ s.clips

PlanVideoSteps(s, probes) ==
    IF UsesConcat(s)
    THEN Mapped(Upto(s.inputs), VideoOnly) \o PlanConcatOutputs(s, probes)
    ELSE FlattenSeq([f \in DOMAIN probes |->
            PlanVideoOutputsForFile(s, f, ChannelsOf(probes[f]))])

\* Audio files in, audio files out: one file per track, or one in all.
PlanAudioSteps(s) ==
    IF s.split
    THEN LET tracks == [i \in DOMAIN s.map |-> <<i, 1>>]
             selected == SelectedChannelPairs(s, tracks)
         IN  [i \in DOMAIN selected |->
                Step("track", selected[i].input, <<selected[i].pair>>,
                     AudioPath(1, selected[i].slot))]
    ELSE <<Step("mixed", 1, <<>>, AudioPath(1, 0))>>

\* Without a map there is nothing to split by.
Splits(s) == s.split /\ s.map # <<>>

\* The audio taken out of clips that are tagged in place.  Unsplit, every
\* clip's first channel goes to the same file.
PlanExtraction(s, probes) ==
    LET first(f) == IF probes[f].channels = <<>> THEN <<1, 1>> ELSE Head(probes[f].channels)
        OfClip(f) == IF probes[f] = NoProbe THEN <<>>
                     ELSE IF Splits(s)
                     THEN ChannelSteps(s, f, probes[f].channels)
                     ELSE <<Step("merged", f, <<first(f)>>, AudioPath(1, 0))>>
    IN  IF UsesConcat(s) THEN PlanConcatOutputs(s, probes)
        ELSE FlattenSeq([f \in DOMAIN probes |-> OfClip(f)])

PlanSteps(s, probes) ==
    CASE s.pipeline = "video"     -> PlanVideoSteps(s, probes)
      [] s.pipeline = "audio"     -> PlanAudioSteps(s)
      [] s.pipeline = "synthetic" -> <<Step("synthetic", 1, <<>>, VideoPath(1))>>
      [] s.pipeline = "metadata"  -> PlanExtraction(s, probes)

-----------------------------------------------------------------------------
(* The list shown before the conversion runs.  It knows one probe, that of *)
(* the first clip, and takes it for all.                                   *)

Paths(steps) == {steps[i].out : i \in DOMAIN steps}

AudioPreview(s, probe) ==
    LET slots == SelectedChannelPairs(s, <<>>)
    IN  IF s.pipeline = "metadata" /\ s.concat /\ s.split
        THEN {AudioPath(1, i) : i \in DOMAIN PlanConcatOutputs(s, [f \in 1 .. s.inputs |-> probe])}
        ELSE IF s.split THEN {AudioPath(1, slots[i].slot) : i \in DOMAIN slots}
        ELSE {AudioPath(1, 0)}

VideoPreview(s, probe) ==
    LET clips == 1 .. s.inputs
        everywhere == [f \in clips |-> probe]
    IN  IF UsesConcat(s)
        THEN {VideoPath(f) : f \in clips}
               \cup {AudioPath(1, i) : i \in DOMAIN PlanConcatOutputs(s, everywhere)}
        ELSE IF probe = NoProbe THEN {VideoPath(f) : f \in clips}
        ELSE UNION {Paths(PlanVideoOutputsForFile(s, f, probe.channels)) : f \in clips}

PlanOutputPaths(s, probe) ==
    CASE s.pipeline = "video"     -> VideoPreview(s, probe)
      [] s.pipeline = "audio"     -> AudioPreview(s, probe)
      [] s.pipeline = "synthetic" -> AudioPreview(s, probe) \cup {VideoPath(1)}
      [] s.pipeline = "metadata"  -> IF s.clips THEN AudioPreview(s, probe) ELSE {}
=============================================================================
