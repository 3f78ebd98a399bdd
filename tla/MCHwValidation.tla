--------------------------- MODULE MCHwValidation ---------------------------
(***************************************************************************)
(* Two builds of ffmpeg and a part of the tables of codecs: one codec with *)
(* a hardware encoder and a software one, one with software only, one that *)
(* the second build knows only in hardware.                                *)
(***************************************************************************)
EXTENDS HwValidation

MCLists ==
    [v6 |-> [encoders |-> {"hevc_vaapi", "libx265", "prores_ks", "pcm_s24le", "aac"},
             formats |-> {"mov", "mp4"}],
     v7 |-> [encoders |-> {"hevc_nvenc", "av1_vulkan", "libx265", "aac"},
             formats |-> {"mp4", "matroska"}]]

MCCodecs == <<"prores", "h265", "av1">>
MCContainers == <<"mov", "matroska", "mp4">>
MCAudios == <<"pcm_s24le", "aac">>

MCCandidates ==
    [prores |-> <<"prores_ks">>,
     h265 |-> <<"hevc_nvenc", "hevc_vaapi", "libx265">>,
     av1 |-> <<"av1_vulkan", "libsvtav1">>]

MCCodecContainers ==
    [prores |-> {"mov", "matroska"},
     h265 |-> {"mov", "matroska", "mp4"},
     av1 |-> {"matroska", "mp4"}]

MCContainerAudio == [c \in {"mov", "matroska", "mp4"} |-> {"pcm_s24le", "aac"}]

Combination(c, v, a) == [container |-> c, codec |-> v, audio |-> a]

MCPreferences ==
    <<Combination("mov", "h265", "pcm_s24le"), Combination("mp4", "h265", "aac"),
      Combination("mov", "prores", "pcm_s24le"), Combination("matroska", "h265", "aac")>>

MCInitial == Combination("mov", "h265", "pcm_s24le")
MCLastResort == Combination("matroska", "av1", "pcm_s24le")
=============================================================================
