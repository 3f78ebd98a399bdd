---------------------------- MODULE MCConversion ----------------------------
(* Instance of Conversion for TLC: two clips or tracks, every combination  *)
(* of the settings that the interface can send, and clips whose audio      *)
(* agrees, differs in its streams or its rate, or is missing.  In clips    *)
(* stream 1 is the picture; audio begins with stream 2.                    *)
EXTENDS Conversion

Stereo == [channels |-> << <<2, 1>>, <<2, 2>> >>, rate |-> 48]
StereoSlow == [channels |-> << <<2, 1>>, <<2, 2>> >>, rate |-> 44]
Silent == [channels |-> <<>>, rate |-> 48]
TwoStreams == [channels |-> << <<2, 1>>, <<3, 1>> >>, rate |-> 48]
Track == [channels |-> << <<1, 1>> >>, rate |-> 48]

SettingsOf(pipeline, isClips, maps) ==
    [pipeline : {pipeline}, clips : {isClips}, inputs : {2}, map : maps,
     split : BOOLEAN, drop : BOOLEAN, concat : BOOLEAN, copy : BOOLEAN,
     ltcSource : {IF isClips THEN <<2, 2>> ELSE NoPair}, ltcTrack : {2}]

\* Concatenation is offered for split clips only, copying for video only.
Offered(s) ==
    /\ s.concat => s.clips /\ s.split
    /\ s.copy => s.pipeline = "video"

\* A map has as many slots as the first clip has channels, or as there are
\* tracks.
MCMaps == {Identity(2), SwapSlots(Identity(2), 1, 2)}

CasesOf(settingsSet, layouts) ==
    {[settings |-> s, layout |-> l, device |-> d] :
        s \in {x \in settingsSet : Offered(x)}, l \in layouts, d \in BOOLEAN}

\* Hardware is looked for only when video is encoded.
MCCases ==
    {c \in UNION {
        CasesOf(SettingsOf("video", TRUE, MCMaps) \cup SettingsOf("metadata", TRUE, MCMaps),
                {Stereo} \X {Stereo, StereoSlow, TwoStreams, Silent}),
        CasesOf(SettingsOf("video", TRUE, {<<>>}) \cup SettingsOf("metadata", TRUE, {<<>>}),
                {<<Silent, Stereo>>}),
        CasesOf(SettingsOf("audio", FALSE, MCMaps) \cup SettingsOf("synthetic", FALSE, MCMaps)
                  \cup SettingsOf("metadata", FALSE, MCMaps), {<<Track, Track>>})} :
        c.device \/ (c.settings.pipeline \in {"video", "synthetic"} /\ ~c.settings.copy)}

MCChain == <<"vaapi", "software">>
=============================================================================
