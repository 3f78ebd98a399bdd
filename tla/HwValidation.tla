---------------------------- MODULE HwValidation ----------------------------
(***************************************************************************)
(* Which encoders the converter offers.  At startup a job asks ffmpeg what *)
(* it was built with and test-encodes the hardware encoders (stage 1); the *)
(* engine publishes the answer without the hardware encoders that no       *)
(* earlier session vouches for, and a second job tests all of them again   *)
(* (stage 2), writes those that passed to a cache file, and its result is  *)
(* published.  The user may choose container, codec and audio encoder at   *)
(* any time.  The program may be ended or crash at any point: only the     *)
(* cache file stays.  hw_cache.rs, hw_device.rs, video_codecs.rs,          *)
(* converter/capabilities.rs, formats.rs and checks.rs, and the handlers   *)
(* of engine.rs, all in gui-engine/src.                                    *)
(***************************************************************************)
EXTENDS Integers, Sequences, FiniteSetsExt

CONSTANTS
    Builds,             \* the ffmpeg versions that may be installed
    Lists,              \* what each build can do: encoders and formats
    Codecs, Containers, Audios,     \* sequences, in the order they are tried
    Candidates,         \* the encoders of each codec, hardware first
    CodecContainers, ContainerAudio,
    Hardware,           \* the hardware encoders
    Vaapi, Vulkan,      \* those of them that need a device
    Preferences,        \* the combinations that are tried first
    Initial, LastResort,
    None

ASSUME HardwareAssumption == Vaapi \cup Vulkan \subseteq Hardware

VARIABLES
    build,              \* the ffmpeg installed in this session
    cache,              \* the cache file, or None: missing or corrupt
    job,                \* how far the background work has come
    full,               \* the capabilities it carries
    ffmpeg_caps,        \* what the engine has published, or None
    settings, encoder_touched,
    tested,             \* the encoders that passed the test of stage 1
    retested,           \* and of stage 2
    vouched             \* what the session that wrote the cache has seen pass

vars == <<build, cache, job, full, ffmpeg_caps, settings, encoder_touched,
          tested, retested, vouched>>

jobVars == <<job, full, tested, retested>>
engineVars == <<ffmpeg_caps, settings, encoder_touched>>
fileVars == <<cache, vouched>>

\* What is known when ffmpeg is not found or does not answer.
NoFfmpeg == [has_ffmpeg |-> FALSE, version |-> None, encoders |-> {},
             formats |-> {}, vaapi |-> FALSE, vulkan |-> FALSE]

-----------------------------------------------------------------------------
(* The tables of codecs and what can be done with given capabilities.      *)

\* Whether the device an encoder needs is there.
DeviceThere(e, caps) ==
    (e \in Vaapi => caps.vaapi) /\ (e \in Vulkan => caps.vulkan)

ResolveEncoderChain(codec, caps) ==
    SelectSeq(Candidates[codec],
              LAMBDA e : e \in caps.encoders /\ DeviceThere(e, caps))

\* A combination that is complete: format, codec and audio are there and go
\* together.
Available(s, caps) ==
    /\ s.container \in caps.formats
    /\ s.container \in CodecContainers[s.codec]
    /\ ResolveEncoderChain(s.codec, caps) # <<>>
    /\ s.audio \in ContainerAudio[s.container] \cap caps.encoders

\* Every combination: container by container, within it codec by codec.
AllCombinations ==
    [i \in 1 .. Len(Containers) * Len(Codecs) * Len(Audios) |->
        [container |-> Containers[((i - 1) \div (Len(Codecs) * Len(Audios))) + 1],
         codec |-> Codecs[(((i - 1) \div Len(Audios)) % Len(Codecs)) + 1],
         audio |-> Audios[((i - 1) % Len(Audios)) + 1]]]

SelectBestCombination(caps) ==
    LET order == Preferences \o AllCombinations
        usable == {i \in DOMAIN order : Available(order[i], caps)}
    IN  IF usable = {} THEN LastResort ELSE order[Min(usable)]

ApplyAvailableDefaults(s, caps) ==
    IF Available(s, caps) THEN s ELSE SelectBestCombination(caps)

\* The checks made before a conversion is offered, as far as they look at
\* formats and codecs.
PassesSanityCheck(s, caps) ==
    /\ caps.has_ffmpeg
    /\ s.container \in caps.formats
    /\ ResolveEncoderChain(s.codec, caps) # <<>>
    /\ s.audio \in caps.encoders
    /\ s.container \in CodecContainers[s.codec]
    /\ s.audio \in ContainerAudio[s.container]

-----------------------------------------------------------------------------
(* The cache and the tests.                                                *)

\* What identifies the environment a test was made in; None when not even
\* the version of ffmpeg is known.
CacheKey(caps) ==
    IF caps.version = None THEN None
    ELSE [version |-> caps.version, encoders |-> caps.encoders,
          vaapi |-> caps.vaapi, vulkan |-> caps.vulkan]

\* The hardware encoders that are tested: listed, and their device is there.
Testable(caps) == {e \in Hardware \cap caps.encoders : DeviceThere(e, caps)}

\* Those that fail are taken from the list.
Validate(caps, passed) ==
    [caps EXCEPT !.encoders = @ \ (Testable(caps) \ passed)]

\* A slip a change could make: the cache of another ffmpeg or of other devices will do.
PublishStage1UnderAnyKey(caps) ==
    LET known == IF cache # None THEN cache.passed ELSE {}
    IN  [caps EXCEPT !.encoders = @ \ (Hardware \ known)]

\* Stage 1 withholds the hardware encoders the cache does not vouch for.
PublishStage1(caps) ==
    LET key == CacheKey(caps)
        known == IF cache # None /\ key # None /\ cache.key = key THEN cache.passed ELSE {}
    IN  [caps EXCEPT !.encoders = @ \ (Hardware \ known)]

\* The new content of the cache: what passed, and what had passed before
\* under the same key and was not tested this time.
Reconciled(caps, passed) ==
    LET key == CacheKey(caps)
        kept == IF cache # None /\ cache.key = key THEN cache.passed \ Testable(caps) ELSE {}
    IN  [key |-> key, passed |-> passed \cup kept]

-----------------------------------------------------------------------------
Init ==
    /\ build \in Builds /\ cache = None /\ vouched = None
    /\ job = "probe" /\ full = None /\ ffmpeg_caps = None
    /\ settings = Initial /\ encoder_touched = FALSE
    /\ tested = {} /\ retested = {}

\* The program is ended or crashes and is started again, perhaps with
\* another ffmpeg.
Restart ==
    /\ build' \in Builds
    /\ job' = "probe" /\ full' = None /\ ffmpeg_caps' = None
    /\ settings' = Initial /\ encoder_touched' = FALSE
    /\ tested' = {} /\ retested' = {}
    /\ UNCHANGED fileVars

\* The first job cannot get an answer from ffmpeg.
ProbeFails ==
    /\ job = "probe"
    /\ job' = "probed" /\ full' = NoFfmpeg
    /\ UNCHANGED <<build, tested, retested, engineVars, fileVars>>

\* What a call of the installed ffmpeg may find.  A list that cannot be had is
\* empty; a device is looked for when an encoder of it is listed.
Findings ==
    {caps \in [has_ffmpeg : {TRUE}, version : {build},
               encoders : {Lists[build].encoders, {}}, formats : {Lists[build].formats, {}},
               vaapi : BOOLEAN, vulkan : BOOLEAN] :
        /\ caps.vaapi => caps.encoders \cap Vaapi # {}
        /\ caps.vulkan => caps.encoders \cap Vulkan # {}}

\* The first job: version, lists, devices, and a test of every hardware
\* encoder.  A device or an encoder that does not answer is not there.
Probe ==
    /\ job = "probe"
    /\ \E caps \in Findings : \E passed \in SUBSET Testable(caps) :
          full' = Validate(caps, passed) /\ tested' = passed
    /\ job' = "probed"
    /\ UNCHANGED <<build, retested, engineVars, fileVars>>

\* A slip a change could make: stage 2 is left out when the cache vouches for everything.
OnFfmpegCapsFinishedTrusting ==
    /\ job = "probed"
    /\ ffmpeg_caps' = PublishStage1(full)
    /\ settings' = ApplyAvailableDefaults(settings, ffmpeg_caps')
    /\ job' = IF ffmpeg_caps' = full THEN "idle" ELSE "validate"
    /\ UNCHANGED <<build, full, tested, retested, encoder_touched, fileVars>>

\* The engine publishes what stage 1 has found, and starts stage 2.
OnFfmpegCapsFinished ==
    /\ job = "probed"
    /\ ffmpeg_caps' = PublishStage1(full)
    /\ settings' = ApplyAvailableDefaults(settings, ffmpeg_caps')
    /\ job' = "validate"
    /\ UNCHANGED <<build, full, tested, retested, encoder_touched, fileVars>>

\* The second job tests the encoders that are left, all again.
ValidateHwEncoders ==
    /\ job = "validate"
    /\ \E passed \in SUBSET Testable(full) : retested' = passed
    /\ job' = "save"
    /\ UNCHANGED <<build, full, tested, engineVars, fileVars>>

\* It writes the cache: a temporary file, renamed over the old cache; neither
\* is looked at again, so a failure leaves the old one.
SaveHwCache ==
    /\ job = "save"
    /\ \/ CacheKey(full) # None
          /\ cache' = Reconciled(full, retested)
          /\ vouched' = [version |-> full.version, vaapi |-> full.vaapi,
                         vulkan |-> full.vulkan, passed |-> retested]
       \/ UNCHANGED fileVars
    /\ full' = Validate(full, retested)
    /\ job' = "validated"
    /\ UNCHANGED <<build, tested, retested, engineVars>>

\* A slip a change could make: the best combination is taken whatever the user has chosen.
OnHwValidateFinishedUpgrading ==
    /\ job = "validated"
    /\ ffmpeg_caps' = full
    /\ settings' = SelectBestCombination(full)
    /\ job' = "idle"
    /\ UNCHANGED <<build, full, tested, retested, encoder_touched, fileVars>>

\* The engine publishes what stage 2 has left, and while the user has chosen
\* nothing takes the best combination.
OnHwValidateFinished ==
    /\ job = "validated"
    /\ ffmpeg_caps' = full
    /\ LET kept == ApplyAvailableDefaults(settings, full)
       IN  settings' = IF encoder_touched THEN kept ELSE SelectBestCombination(full)
    /\ job' = "idle"
    /\ UNCHANGED <<build, full, tested, retested, encoder_touched, fileVars>>

\* The user chooses.  One of the user interfaces offers all names at all
\* times, so nothing is assumed of the choice.
SetContainer(container) ==
    /\ LET chosen == [settings EXCEPT !.container = container]
       IN  settings' = IF ffmpeg_caps = None THEN chosen
                       ELSE ApplyAvailableDefaults(chosen, ffmpeg_caps)
    /\ encoder_touched' = TRUE
    /\ UNCHANGED <<build, ffmpeg_caps, jobVars, fileVars>>

SetVideoCodec(codec) ==
    /\ settings' = [settings EXCEPT !.codec = codec]
    /\ encoder_touched' = TRUE
    /\ UNCHANGED <<build, ffmpeg_caps, jobVars, fileVars>>

SetAudioEncoder(encoder) ==
    /\ settings' = [settings EXCEPT !.audio = encoder]
    /\ encoder_touched' = TRUE
    /\ UNCHANGED <<build, ffmpeg_caps, jobVars, fileVars>>

Job == ProbeFails \/ Probe \/ ValidateHwEncoders \/ SaveHwCache
Publish == OnFfmpegCapsFinished \/ OnHwValidateFinished
User ==
    \/ \E i \in DOMAIN Containers : SetContainer(Containers[i])
    \/ \E i \in DOMAIN Codecs : SetVideoCodec(Codecs[i])
    \/ \E i \in DOMAIN Audios : SetAudioEncoder(Audios[i])

Next == Job \/ Publish \/ User \/ Restart

\* The jobs end: each call of ffmpeg has a time limit.  The engine ticks.
Spec == Init /\ [][Next]_vars /\ WF_vars(Job) /\ WF_vars(Publish)

-----------------------------------------------------------------------------
Caps == [has_ffmpeg : BOOLEAN, version : Builds \cup {None},
         encoders : SUBSET UNION {Lists[b].encoders : b \in Builds},
         formats : SUBSET UNION {Lists[b].formats : b \in Builds},
         vaapi : BOOLEAN, vulkan : BOOLEAN]

\* The type invariant.
HwTypeOK ==
    /\ build \in Builds
    /\ job \in {"probe", "probed", "validate", "save", "validated", "idle"}
    /\ full \in Caps \cup {None} /\ ffmpeg_caps \in Caps \cup {None}
    /\ settings \in {AllCombinations[i] : i \in DOMAIN AllCombinations}
    /\ encoder_touched \in BOOLEAN
    /\ tested \subseteq Hardware /\ retested \subseteq Hardware
    /\ job = "probe" <=> full = None

\* The hardware encoders that a conversion could be given now.
Offered == {e \in Hardware \cap ffmpeg_caps.encoders : DeviceThere(e, ffmpeg_caps)}

\* "an unvalidated encoder must never be selectable" (hw_cache.rs): one that
\* is offered has passed a test in this session, and another one: before
\* stage 2 in an earlier session with the same ffmpeg and devices, after it
\* in stage 2.  Sessions may end anywhere in between.
OfferedWasTested ==
    ffmpeg_caps # None =>
        /\ Offered \subseteq tested
        /\ job = "idle" => Offered \subseteq retested
        /\ job \in {"validate", "save"} /\ Offered # {} =>
              /\ Offered \subseteq vouched.passed
              /\ vouched.version = build
              /\ vouched.vaapi = ffmpeg_caps.vaapi /\ vouched.vulkan = ffmpeg_caps.vulkan

\* A choice of the user outlives what is published afterwards as long as it
\* can be used, whenever it was made.
ChoiceSurvives ==
    [][Publish /\ encoder_touched /\ PassesSanityCheck(settings, ffmpeg_caps')
       => settings' = settings]_vars

\* Whenever capabilities are published the settings pass the checks made
\* before a conversion, if any settings do.
PublishedIsUsable ==
    [][Publish /\ (\E i \in DOMAIN AllCombinations :
                      PassesSanityCheck(AllCombinations[i], ffmpeg_caps'))
       => PassesSanityCheck(settings', ffmpeg_caps')]_vars

\* What is withheld is decided in the end: the encoders that pass the second
\* test are offered, those that do not are not, unless the program is
\* started again before.
WithheldIsDecided ==
    ffmpeg_caps # None ~>
        \/ ffmpeg_caps = None
        \/ job = "idle" /\ Offered = retested

-----------------------------------------------------------------------------
(* What the documentation says and the code does not keep (README,         *)
(* section 5).                                                             *)

\* The key of the cache "identifies the ffmpeg build, not the validation
\* outcome" (hw_cache.rs): the same ffmpeg, lists and devices give the key
\* the cache was written under.
KeyIsOfBuild ==
    /\ job \in {"validate", "save"} /\ vouched # None /\ full.version = vouched.version
    /\ full.vaapi = vouched.vaapi /\ full.vulkan = vouched.vulkan
    /\ full.encoders \ Hardware = cache.key.encoders \ Hardware
    => CacheKey(full) = cache.key

\* "Re-select best defaults for the new container" (engine.rs): a container
\* the user chooses and that is installed is the one that is set.
ContainerIsKept ==
    [][\A i \in DOMAIN Containers :
          SetContainer(Containers[i]) /\ ffmpeg_caps # None
              /\ (\E k \in DOMAIN AllCombinations :
                     AllCombinations[k].container = Containers[i]
                     /\ Available(AllCombinations[k], ffmpeg_caps))
          => settings'.container = Containers[i]]_vars
=============================================================================
