SPECIFICATION Spec
CONSTANTS
    Builds = {"v6", "v7"}
    Lists <- MCLists
    Codecs <- MCCodecs
    Containers <- MCContainers
    Audios <- MCAudios
    Candidates <- MCCandidates
    CodecContainers <- MCCodecContainers
    ContainerAudio <- MCContainerAudio
    Hardware = {"hevc_nvenc", "hevc_vaapi", "av1_vulkan"}
    Vaapi = {"hevc_vaapi"}
    Vulkan = {"av1_vulkan"}
    Preferences <- MCPreferences
    Initial <- MCInitial
    LastResort <- MCLastResort
    None = None
INVARIANTS OfferedWasTested
PROPERTIES ChoiceSurvives WithheldIsDecided
