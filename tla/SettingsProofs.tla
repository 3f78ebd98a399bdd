------------------------------- MODULE SettingsProofs -------------------------------
(***************************************************************************)
(* Theorems about what the user sets and what is kept of it: the hardware  *)
(* encoders that are offered (HwValidation), the settings shown by the     *)
(* widgets (WidgetSync) and the names of the cards (CardEdits), for every  *)
(* build of ffmpeg, every number of edits, snapshots, restarts and scans.  *)
(***************************************************************************)
EXTENDS HwValidation, WidgetSync, CardEdits, SequenceTheorems, TLAPS

-----------------------------------------------------------------------------
(* Hardware encoders: one that is offered has been tested, whatever the    *)
(* sessions before have written and wherever they have ended.              *)

-----------------------------------------------------------------------------
(* The inductive invariant.                                                *)

\* What the background work carries, and when.
JobInv ==
    /\ build \in Builds
    /\ job \in {"probe", "probed", "validate", "save", "validated", "idle"}
    /\ job # "probe" => full \in Caps /\ full.version \in {build, None}
    /\ job \in {"probe", "probed"} => ffmpeg_caps = None

\* What is left in the list has passed the tests made so far.
TestedInv ==
    /\ job # "probe" => Testable(full) \subseteq tested
    /\ job \in {"validated", "idle"} => Testable(full) \subseteq retested
    /\ job = "save" => retested \subseteq Testable(full)

\* What the cache holds was tested by the session that wrote it, under the
\* key of the cache.
CacheInv ==
    cache # None =>
        /\ cache.key.version = vouched.version
        /\ cache.key.vaapi = vouched.vaapi /\ cache.key.vulkan = vouched.vulkan
        /\ cache.passed = vouched.passed
        /\ cache.passed \subseteq Testable(cache.key)

\* What is published stems from what the job carries.
PublishedInv ==
    /\ job \in {"validate", "save"} => ffmpeg_caps = PublishStage1(full)
    /\ job = "validated" => Offered \subseteq tested
    /\ job = "idle" => ffmpeg_caps = full

IInv == JobInv /\ TestedInv /\ CacheInv /\ PublishedInv

-----------------------------------------------------------------------------
(* What the operators on capabilities do.                                  *)

\* A test only takes encoders from the list, all that are tested and fail.
LEMMA ValidateTakesFailures ==
    ASSUME NEW caps \in Caps, NEW passed
    PROVE  /\ Validate(caps, passed) \in Caps
           /\ Validate(caps, passed).version = caps.version
           /\ Testable(Validate(caps, passed)) \subseteq Testable(caps) \cap passed
  BY DEF Validate, Caps, Testable, DeviceThere

\* Stage 1 only withholds, and offers what the cache vouches for under the
\* very key of what was found.
LEMMA Stage1OnlyVouched ==
    ASSUME NEW caps \in Caps
    PROVE  /\ Testable(PublishStage1(caps)) \subseteq Testable(caps)
           /\ PublishStage1(caps).vaapi = caps.vaapi
           /\ PublishStage1(caps).vulkan = caps.vulkan
           /\ Testable(PublishStage1(caps)) # {} =>
                  /\ cache # None /\ caps.version # None
                  /\ cache.key = CacheKey(caps)
                  /\ Testable(PublishStage1(caps)) \subseteq cache.passed
  <1> DEFINE key == CacheKey(caps)
             known == IF cache # None /\ key # None /\ cache.key = key
                      THEN cache.passed ELSE {}
  <1>1. /\ PublishStage1(caps).encoders = caps.encoders \ (Hardware \ known)
        /\ PublishStage1(caps).vaapi = caps.vaapi
        /\ PublishStage1(caps).vulkan = caps.vulkan
    BY DEF PublishStage1, Caps
  <1>2. /\ Testable(PublishStage1(caps)) \subseteq Testable(caps)
        /\ Testable(PublishStage1(caps)) \subseteq known
    <2> HIDE DEF known
    <2> QED BY <1>1 DEF Testable, DeviceThere
  <1>3. caps.version = None => key = None
    BY DEF CacheKey
  <1> QED BY <1>1, <1>2, <1>3

\* Nothing is kept of an older cache: under the same key the same encoders
\* are tested.
LEMMA ReconciledIsOneSession ==
    ASSUME NEW caps \in Caps, NEW passed \in SUBSET Testable(caps),
           CacheKey(caps) # None, CacheInv
    PROVE  /\ Reconciled(caps, passed).key = CacheKey(caps)
           /\ Reconciled(caps, passed).passed = passed
           /\ Testable(CacheKey(caps)) = Testable(caps)
           /\ CacheKey(caps).version = caps.version
           /\ CacheKey(caps).vaapi = caps.vaapi
           /\ CacheKey(caps).vulkan = caps.vulkan
  <1> DEFINE kept == IF cache # None /\ cache.key = CacheKey(caps)
                     THEN cache.passed \ Testable(caps) ELSE {}
  <1>1. CacheKey(caps) = [version |-> caps.version, encoders |-> caps.encoders,
                          vaapi |-> caps.vaapi, vulkan |-> caps.vulkan]
    BY DEF CacheKey
  <1>2. Testable(CacheKey(caps)) = Testable(caps)
    BY <1>1 DEF Testable, DeviceThere
  <1>3. kept = {}
    <2>1. cache # None /\ cache.key = CacheKey(caps) => cache.passed \subseteq Testable(caps)
      BY <1>2 DEF CacheInv
    <2> QED BY <2>1
  <1>4. Reconciled(caps, passed) = [key |-> CacheKey(caps), passed |-> passed \cup kept]
    BY DEF Reconciled
  <1> QED BY <1>1, <1>2, <1>3, <1>4

-----------------------------------------------------------------------------
LEMMA InitInvariant == Init => IInv
  BY DEF Init, IInv, JobInv, TestedInv, CacheInv, PublishedInv

LEMMA StepInvariant == IInv /\ [Next]_vars => IInv'
  <1> SUFFICES ASSUME IInv, [Next]_vars PROVE IInv'
    OBVIOUS
  <1> USE DEF IInv
  <1>1. CASE ProbeFails
    <2>1. NoFfmpeg \in Caps /\ NoFfmpeg.version = None /\ Testable(NoFfmpeg) = {}
      BY DEF NoFfmpeg, Caps, Testable
    <2> QED BY <1>1, <2>1 DEF ProbeFails, engineVars, fileVars, JobInv, TestedInv, CacheInv,
                              PublishedInv, Testable, DeviceThere
  <1>2. CASE Probe
    <2>1. PICK caps \in Findings : \E passed \in SUBSET Testable(caps) :
             full' = Validate(caps, passed) /\ tested' = passed
      BY <1>2 DEF Probe
    <2>2. PICK passed \in SUBSET Testable(caps) :
             full' = Validate(caps, passed) /\ tested' = passed
      BY <2>1
    <2>3. caps \in Caps /\ caps.version = build
      BY DEF Findings, Caps, JobInv
    <2>4. full' \in Caps /\ full'.version = build /\ Testable(full') \subseteq tested'
      BY <2>2, <2>3, ValidateTakesFailures
    <2>5. (Testable(full))' = Testable(full')
      BY DEF Testable, DeviceThere
    <2> QED BY <1>2, <2>4, <2>5 DEF Probe, engineVars, fileVars, JobInv, TestedInv,
                                    CacheInv, PublishedInv
  <1>3. CASE OnFfmpegCapsFinished
    <2>1. (PublishStage1(full))' = PublishStage1(full) /\ (Testable(full))' = Testable(full)
      BY <1>3 DEF OnFfmpegCapsFinished, fileVars, PublishStage1, CacheKey, Testable, DeviceThere
    <2> QED BY <1>3, <2>1 DEF OnFfmpegCapsFinished, fileVars, JobInv, TestedInv, CacheInv,
                              PublishedInv
  <1>4. CASE ValidateHwEncoders
    <2>1. (PublishStage1(full))' = PublishStage1(full) /\ (Testable(full))' = Testable(full)
      BY <1>4 DEF ValidateHwEncoders, fileVars, PublishStage1, CacheKey, Testable, DeviceThere
    <2> QED BY <1>4, <2>1 DEF ValidateHwEncoders, engineVars, fileVars, JobInv, TestedInv,
                              CacheInv, PublishedInv
  <1>5. CASE SaveHwCache
    <2> USE <1>5 DEF SaveHwCache
    <2>1. full \in Caps /\ retested \in SUBSET Testable(full) /\ Testable(full) \subseteq tested
      BY DEF JobInv, TestedInv
    <2>2. /\ full' \in Caps /\ full'.version = full.version
          /\ Testable(full') \subseteq tested \cap retested
      BY <2>1, ValidateTakesFailures
    <2>3. (Testable(full))' = Testable(full')
      BY DEF Testable, DeviceThere
    <2>4. JobInv' /\ TestedInv'
      BY <2>2, <2>3 DEF engineVars, JobInv, TestedInv
    <2>5. CacheInv'
      <3>1. CASE UNCHANGED fileVars
        BY <3>1 DEF fileVars, CacheInv, Testable, DeviceThere
      <3>2. CASE /\ CacheKey(full) # None /\ cache' = Reconciled(full, retested)
                 /\ vouched' = [version |-> full.version, vaapi |-> full.vaapi,
                                vulkan |-> full.vulkan, passed |-> retested]
        <4>1. /\ cache'.key = CacheKey(full) /\ cache'.passed = retested
              /\ Testable(CacheKey(full)) = Testable(full)
              /\ CacheKey(full).version = full.version
              /\ CacheKey(full).vaapi = full.vaapi
              /\ CacheKey(full).vulkan = full.vulkan
          BY <2>1, <3>2, ReconciledIsOneSession
        <4>2. (Testable(cache.key))' = Testable(cache'.key)
          BY DEF Testable, DeviceThere
        <4> QED BY <2>1, <3>2, <4>1, <4>2 DEF CacheInv
      <3> QED BY <3>1, <3>2
    <2>6. PublishedInv'
      <3>1. ffmpeg_caps' = PublishStage1(full)
        BY DEF engineVars, PublishedInv
      <3>2. Offered' = Testable(PublishStage1(full))
        BY <3>1 DEF Offered, Testable, DeviceThere
      <3> QED BY <2>1, <3>2, Stage1OnlyVouched DEF PublishedInv
    <2> QED BY <2>4, <2>5, <2>6
  <1>6. CASE OnHwValidateFinished
    <2>1. (Testable(full))' = Testable(full)
      BY <1>6 DEF OnHwValidateFinished, Testable, DeviceThere
    <2> QED BY <1>6, <2>1 DEF OnHwValidateFinished, fileVars, JobInv, TestedInv, CacheInv,
                              PublishedInv
  <1>7. CASE Restart
    BY <1>7 DEF Restart, fileVars, JobInv, TestedInv, CacheInv, PublishedInv, Testable,
                DeviceThere
  <1>8. CASE UNCHANGED <<build, ffmpeg_caps, jobVars, fileVars>>
    <2>1. /\ (PublishStage1(full))' = PublishStage1(full) /\ (Testable(full))' = Testable(full)
          /\ Offered' = Offered
      BY <1>8 DEF jobVars, fileVars, PublishStage1, CacheKey, Testable, DeviceThere, Offered
    <2> QED BY <1>8, <2>1 DEF jobVars, fileVars, JobInv, TestedInv, CacheInv, PublishedInv,
                              Testable, DeviceThere
  <1>9. CASE UNCHANGED vars
    BY <1>8, <1>9 DEF vars, jobVars, fileVars
  <1> QED BY <1>1, <1>2, <1>3, <1>4, <1>5, <1>6, <1>7, <1>8, <1>9
          DEF Next, Job, Publish, User, SetContainer, SetVideoCodec, SetAudioEncoder

LEMMA Invariant == Spec => []IInv
  BY InitInvariant, StepInvariant, PTL DEF Spec

\* A hardware encoder that is offered has passed a test in this session and
\* another one, in an earlier session with the same ffmpeg and devices or in
\* stage 2 of this one (publish_stage1_caps, validate_hw_encoders_cached_with
\* and the two handlers of the engine).
THEOREM OfferedAlwaysTested == Spec => []OfferedWasTested
  <1>1. IInv => OfferedWasTested
    <2> SUFFICES ASSUME IInv, ffmpeg_caps # None PROVE OfferedWasTested
      BY DEF OfferedWasTested
    <2> USE DEF IInv
    <2>1. Offered = Testable(ffmpeg_caps)
      BY DEF Offered, Testable
    <2>2. full \in Caps /\ full.version \in {build, None} /\ Testable(full) \subseteq tested
      BY DEF JobInv, TestedInv
    <2>3. CASE job \in {"validate", "save"}
      <3>1. ffmpeg_caps = PublishStage1(full)
        BY <2>3 DEF PublishedInv
      <3>2. /\ Offered \subseteq tested
            /\ ffmpeg_caps.vaapi = full.vaapi /\ ffmpeg_caps.vulkan = full.vulkan
            /\ Offered # {} => /\ cache # None /\ full.version # None
                               /\ cache.key = CacheKey(full)
                               /\ Offered \subseteq cache.passed
        BY <2>1, <2>2, <3>1, Stage1OnlyVouched
      <3>3. full.version # None =>
                /\ CacheKey(full).version = full.version
                /\ CacheKey(full).vaapi = full.vaapi /\ CacheKey(full).vulkan = full.vulkan
        BY DEF CacheKey
      <3> QED BY <2>2, <2>3, <3>2, <3>3 DEF CacheInv, OfferedWasTested
    <2>4. CASE job = "validated"
      BY <2>4 DEF PublishedInv, OfferedWasTested
    <2>5. CASE job = "idle"
      BY <2>1, <2>2, <2>5 DEF TestedInv, PublishedInv, OfferedWasTested
    <2> QED BY <2>3, <2>4, <2>5 DEF JobInv
  <1> QED BY <1>1, Invariant, PTL

-----------------------------------------------------------------------------
\* What passes the checks before a conversion is not replaced: the checks ask
\* for at least what the selection of defaults asks for.
LEMMA PassingIsAvailable ==
    ASSUME NEW s, NEW caps, PassesSanityCheck(s, caps)
    PROVE  ApplyAvailableDefaults(s, caps) = s
  BY DEF PassesSanityCheck, ApplyAvailableDefaults, Available

\* A usable choice of the user outlives both publications, for any tables of
\* formats and codecs and whatever the tests have found (the two handlers of
\* the engine).
THEOREM ChoiceAlwaysSurvives == Spec => ChoiceSurvives
  <1>1. ASSUME Publish, encoder_touched, PassesSanityCheck(settings, ffmpeg_caps')
        PROVE  settings' = settings
    <2>1. ApplyAvailableDefaults(settings, ffmpeg_caps') = settings
      BY <1>1, PassingIsAvailable
    <2>2. CASE OnFfmpegCapsFinished
      BY <2>1, <2>2 DEF OnFfmpegCapsFinished
    <2>3. CASE OnHwValidateFinished
      BY <1>1, <2>1, <2>3 DEF OnHwValidateFinished
    <2> QED BY <1>1, <2>2, <2>3 DEF Publish
  <1> QED BY <1>1, PTL DEF ChoiceSurvives

-----------------------------------------------------------------------------
(* Widgets: what the user has set does not revert.                         *)

\* What is counted: a command has been applied or is on its way, and the
\* snapshot is no newer than the engine.
Counted ==
    /\ sent = applied + Len(channel)
    /\ published.seq <= applied

\* An edit the engine has not published yet is pending under its own number,
\* and its value is in the shadow; the combo is written and never read.
EditHeld ==
    wanted # Nothing /\ published.seq < asked /\ ~late =>
        /\ shown = wanted
        /\ widget # "combo" => pending = asked /\ shadow = wanted

WidgetInv == WidgetTypeOK /\ Counted /\ EditHeld

LEMMA WidgetStarts == WidgetInit => WidgetInv
<1> SUFFICES ASSUME WidgetInit PROVE WidgetInv
  OBVIOUS
<1>1. channel \in Seq(Values \cup {Keep}) /\ Len(channel) = 0
  BY DEF WidgetInit
<1>2. WidgetTypeOK
  BY <1>1, WidgetAssumption DEF WidgetInit, WidgetTypeOK
<1>3. Counted /\ EditHeld
  BY <1>1 DEF WidgetInit, Counted, EditHeld
<1> QED
  BY <1>2, <1>3 DEF WidgetInv

LEMMA EngineKeeps ==
    ASSUME WidgetInv, Engine PROVE WidgetInv'
<1>1. CASE DrainOne
  <2>1. /\ Tail(channel) \in Seq(Values \cup {Keep}) /\ Head(channel) \in Values \cup {Keep}
        /\ Len(Tail(channel)) = Len(channel) - 1 /\ Len(channel) \in Nat
    BY <1>1 DEF DrainOne, WidgetInv, WidgetTypeOK
  <2>2. WidgetTypeOK'
    BY <1>1, <2>1 DEF DrainOne, WidgetInv, WidgetTypeOK, shadowVars, screenVars, userVars
  <2>3. Counted'
    BY <1>1, <2>1 DEF DrainOne, WidgetInv, WidgetTypeOK, Counted
  <2>4. EditHeld'
    BY <1>1 DEF DrainOne, WidgetInv, EditHeld, shadowVars, screenVars, userVars
  <2> QED
    BY <2>2, <2>3, <2>4 DEF WidgetInv
<1>2. CASE DrainEmpty \/ HandleEvents
  BY <1>2 DEF DrainEmpty, HandleEvents, WidgetInv, WidgetTypeOK, Counted, EditHeld,
              shadowVars, screenVars, userVars
<1>3. CASE PublishIfChanged
  <2>1. published'.seq = applied /\ published' \in [value : Values, seq : Nat]
    BY <1>3 DEF PublishIfChanged, Published, WidgetInv, WidgetTypeOK
  <2>2. WidgetTypeOK' /\ Counted'
    BY <1>3, <2>1 DEF PublishIfChanged, WidgetInv, WidgetTypeOK, Counted,
                      shadowVars, screenVars, userVars
  <2>3. published'.seq < asked => published.seq < asked
    BY <2>1 DEF WidgetInv, WidgetTypeOK, Counted
  <2>4. EditHeld'
    BY <1>3, <2>3 DEF PublishIfChanged, WidgetInv, EditHeld, shadowVars, screenVars, userVars
  <2> QED
    BY <2>2, <2>4 DEF WidgetInv
<1> QED
  BY <1>1, <1>2, <1>3 DEF Engine

\* An edit that is not published is not confirmed, so nothing replaces the
\* shadow.
LEMMA SyncKeeps ==
    ASSUME WidgetInv, NEW focus \in BOOLEAN, Sync(focus),
           wanted # Nothing, published.seq < asked, ~late, widget # "combo"
    PROVE  pending' = pending /\ shadow' = shadow /\ pending # 0
<1>1. pending = asked /\ asked \in Nat /\ published.seq \in Nat
  BY DEF WidgetInv, WidgetTypeOK, EditHeld
<1>2. pending # 0 /\ ~Acked
  BY <1>1 DEF Acked
<1> QED
  BY <1>2 DEF Sync, Synced, StillPending

LEMMA ScreenKeeps ==
    ASSUME WidgetInv, NEW focus \in BOOLEAN, Screen(focus) PROVE WidgetInv'
<1>1. PICK focusNow \in BOOLEAN : Sync(focusNow)
  BY DEF Screen, Frame, Push, SyncAndPush, WidgetInv, WidgetTypeOK
<1>2. /\ UNCHANGED <<widget, channel, settingVars, sent, userVars, late>>
      /\ widget # "combo" /\ focused' \in BOOLEAN
      /\ pushed' \in {pushed, shadow'}
      /\ shown' \in {shown, shadow'}
      /\ widget \in {"pushed", "text"} /\ pending' # 0 => shown' = shown
      /\ widget \notin {"pushed", "text"} => shown' = shadow'
  BY DEF Screen, Frame, Push, SyncAndPush, Sync
<1>3. shadow' \in Values /\ pending' \in Nat
  BY <1>1 DEF Sync, Synced, StillPending, WidgetInv, WidgetTypeOK
<1>4. WidgetTypeOK' /\ Counted'
  BY <1>2, <1>3 DEF WidgetInv, WidgetTypeOK, Counted, settingVars, userVars
<1>5. EditHeld'
  BY <1>1, <1>2, SyncKeeps DEF WidgetInv, EditHeld, settingVars, userVars
<1> QED
  BY <1>4, <1>5 DEF WidgetInv

LEMMA SendCounts ==
    ASSUME WidgetInv, NEW cmds \in Seq(Values \cup {Keep}), NEW room, Send(cmds, room)
    PROVE  /\ channel' \in Seq(Values \cup {Keep}) /\ sent' \in Nat
           /\ Len(channel') = Len(channel) + Len(cmds)
           /\ sent' = applied + Len(channel')
           /\ Len(cmds) \in Nat /\ Len(channel) \in Nat /\ sent' = sent + Len(cmds)
BY ConcatProperties, LenProperties DEF Send, WidgetInv, WidgetTypeOK, Counted

LEMMA UserKeeps ==
    ASSUME WidgetInv, UserActs PROVE WidgetInv'
<1>1. \A c \in Values \cup {Keep} : <<c>> \in Seq(Values \cup {Keep}) /\ Len(<<c>>) = 1
  OBVIOUS
<1>2. Default \in Values /\ Keep \notin Values /\ Nothing \notin Values
  BY WidgetAssumption
\* Every edit of a value is sent, marked and shown.
<1>3. ASSUME NEW v \in Values, Send(<<v>>, HasRoom(1)), SendAndMark(v),
             (Enter(v) /\ shown' = v) \/ (Enter(Nothing) /\ shown' = shown),
             UNCHANGED <<widget, settingVars, pushed>>, focused' \in BOOLEAN
      PROVE  WidgetInv'
  <2>1. /\ channel' \in Seq(Values \cup {Keep}) /\ sent' \in Nat
        /\ sent' = applied + Len(channel')
    BY <1>1, <1>3, SendCounts
  <2>2. asked' = sent' /\ pending' = sent' /\ applied' = applied
    BY <1>3, <2>1 DEF Enter, SendAndMark, settingVars
  <2>3. WidgetTypeOK'
    BY <1>3, <2>1, <2>2 DEF SendAndMark, Enter, WidgetInv, WidgetTypeOK, settingVars
  <2>4. Counted'
    BY <1>3, <2>1 DEF WidgetInv, Counted, settingVars
  <2>5. EditHeld'
    BY <1>3, <2>2 DEF EditHeld, SendAndMark, Enter
  <2> QED
    BY <2>3, <2>4, <2>5 DEF WidgetInv
<1>4. CASE FrameWithEdit
  <2>1. PICK v \in Values : /\ Send(<<v>>, HasRoom(1)) /\ SendAndMark(v)
                            /\ Enter(v) /\ shown' = v
    BY <1>4 DEF FrameWithEdit
  <2> QED
    BY <1>3, <1>4, <2>1 DEF FrameWithEdit
<1>5. CASE PickTrack \/ Callback
  <2>1. PICK v \in Values : /\ Send(<<v>>, HasRoom(1)) /\ SendAndMark(v)
                            /\ Enter(v) /\ shown' = v
    BY <1>5 DEF PickTrack, Callback
  <2>2. UNCHANGED <<widget, settingVars, pushed>> /\ focused' \in BOOLEAN
    BY <1>5 DEF PickTrack, Callback, WidgetInv, WidgetTypeOK
  <2> QED
    BY <1>3, <2>1, <2>2
<1>7. CASE ResetText
  BY <1>2, <1>3, <1>7 DEF ResetText, WidgetInv, WidgetTypeOK, screenVars
<1>8. CASE SelectGroup
  <2>1. <<Keep, Default>> \in Seq(Values \cup {Keep}) /\ Len(<<Keep, Default>>) = 2
    BY <1>2
  <2>2. /\ channel' \in Seq(Values \cup {Keep}) /\ sent' \in Nat
        /\ sent' = applied + Len(channel')
    BY <1>8, <2>1, SendCounts DEF SelectGroup
  <2>3. WidgetTypeOK'
    BY <1>2, <1>8, <2>2 DEF SelectGroup, Enter, WidgetInv, WidgetTypeOK, settingVars
  <2>4. Counted'
    BY <1>8, <2>2 DEF SelectGroup, WidgetInv, Counted, settingVars
  <2>5. EditHeld'
    BY <1>8 DEF SelectGroup, Enter, EditHeld
  <2> QED
    BY <2>3, <2>4, <2>5 DEF WidgetInv
<1>9. CASE OtherCommand
  <2>1. PICK c \in {Keep, Default} : Send(<<c>>, HasRoom(1))
    BY <1>9 DEF OtherCommand
  <2>2. /\ channel' \in Seq(Values \cup {Keep}) /\ sent' \in Nat
        /\ sent' = applied + Len(channel')
    BY <1>1, <1>2, <2>1, SendCounts
  <2> QED
    BY <1>9, <2>2 DEF OtherCommand, WidgetInv, WidgetTypeOK, Counted, EditHeld,
                      settingVars, shadowVars, screenVars, userVars
<1> QED
  BY <1>4, <1>5, <1>7, <1>8, <1>9 DEF UserActs

LEMMA WidgetStep == WidgetInv /\ [WidgetNext]_widgetVars => WidgetInv'
<1> SUFFICES ASSUME WidgetInv, [WidgetNext]_widgetVars PROVE WidgetInv'
  OBVIOUS
<1>1. CASE TimePasses
  BY <1>1 DEF TimePasses, WidgetInv, WidgetTypeOK, Counted, EditHeld,
              settingVars, screenVars, userVars
<1>2. CASE UNCHANGED widgetVars
  BY <1>2 DEF widgetVars, WidgetInv, WidgetTypeOK, Counted, EditHeld,
              settingVars, shadowVars, screenVars, userVars
<1> QED
  BY <1>1, <1>2, EngineKeeps, ScreenKeeps, UserKeeps DEF WidgetNext

\* The variables of WidgetSync keep their types, for any values and any
\* number of edits and snapshots.
THEOREM WidgetTypeInvariant == WidgetSpec => []WidgetTypeOK
<1>1. WidgetInv => WidgetTypeOK
  BY DEF WidgetInv
<1> QED
  BY <1>1, WidgetStarts, WidgetStep, PTL DEF WidgetSpec

\* A value the user has set is not put back by a snapshot the engine made
\* before it, for every widget and however late the snapshots and the
\* restarts of the page come (ltc-slint shadows.rs and sync.rs, egui's
\* pending edits).
THEOREM NothingReverts == WidgetSpec => []NoRevert
<1>1. WidgetInv => NoRevert
  BY DEF WidgetInv, EditHeld, NoRevert
<1> QED
  BY <1>1, WidgetStarts, WidgetStep, PTL DEF WidgetSpec

-----------------------------------------------------------------------------
(* Cards: a name belongs to the card it was typed for.                     *)

\* What is on its way: a name that egui sends goes with the mount point the
\* user has typed it for.
Meant ==
    [op : {"scan"}]
    \cup [op : {"file"}, place : Nat, file : Files, on : BOOLEAN]
    \cup {c \in [op : {"mount"}, mount : Mounts, place : Nat, name : Names] :
            <<c.mount, c.name>> \in typed}
    \cup {c \in [op : {"name"}, mount : Mounts, place : Nat, name : Names] : Ui # "egui"}

CardsInv ==
    /\ CardsTypeOK
    /\ count \in Nat
    /\ commands \in Seq(Meant)
    /\ Ui = "egui" => NameIsOwn

CardSet == [mount : Mounts, name : Names \cup {Detected}, selected : SUBSET Files]

LEMMA FoundType ==
    ASSUME NEW list \in ScannedLists
    PROVE  /\ Found(list) \in Seq(CardSet)
           /\ \A i \in DOMAIN Found(list) : Found(list)[i].name = Detected
<1>1. PICK m \in Nat : list \in [1..m -> Mounts]
  BY DEF ScannedLists, SeqOf
<1>2. \A i \in 1..m : Card(list[i]) \in CardSet /\ Card(list[i]).name = Detected
  BY <1>1, CardAssumption DEF Card, CardSet
<1>3. Found(list) = [i \in 1..m |-> Card(list[i])]
  BY <1>1 DEF Found
<1>4. Found(list) \in [1..m -> CardSet]
  BY <1>2, <1>3
<1> QED
  BY <1>1, <1>2, <1>3, <1>4, SeqDef

LEMMA CardsInitOK == CardsInit => CardsInv
<1> SUFFICES ASSUME CardsInit PROVE CardsInv
  OBVIOUS
<1>1. /\ cards = <<>> /\ drawn = <<>> /\ commands = <<>>
      /\ <<>> \in Seq(CardSet) /\ Len(<<>>) = 0 /\ DOMAIN <<>> = 1..0
  BY EmptySeq, LenProperties DEF CardsInit
<1>2. CardsTypeOK
  BY <1>1 DEF CardsInit, CardsTypeOK, CardSet
<1>3. NameIsOwn
  BY <1>1 DEF NameIsOwn
<1> QED
  BY <1>1, <1>2, <1>3 DEF CardsInv, CardsInit

LEMMA ApplyKeeps ==
    ASSUME CardsInv, ApplyOne PROVE CardsInv'
<1> DEFINE c == Head(commands)
<1>1. /\ Handle(c) /\ commands # <<>> /\ commands' = Tail(commands)
      /\ UNCHANGED <<tick, drawn, count, typed, chosen>>
  BY DEF ApplyOne
<1>2. c \in Meant /\ commands' \in Seq(Meant)
  BY <1>1, HeadTailProperties DEF CardsInv
<1>3. commands' \in Seq(Meant')
  BY <1>1, <1>2 DEF Meant
<1>5. cards \in Seq(CardSet) /\ DOMAIN cards = 1..Len(cards) /\ Len(cards) \in Nat
      /\ \A i \in DOMAIN cards : cards[i] \in CardSet
  BY LenProperties, ElementOfSeq DEF CardsInv, CardsTypeOK, CardSet
<1>7. cards' \in Seq(CardSet) /\ (Ui = "egui" => NameIsOwn')
  <2>1. CASE c.op = "scan"
    BY <1>1, <1>5, <2>1 DEF Handle, CardsInv, NameIsOwn
  <2>2. CASE c.op = "file"
    <3>1. cards' = SetFileSelected(c) /\ c.file \in Files
      BY <1>1, <1>2, <2>2 DEF Handle, Meant
    <3>2. CASE c.place \notin DOMAIN cards
      BY <1>1, <1>5, <3>1, <3>2 DEF SetFileSelected, CardsInv, NameIsOwn
    <3>3. CASE c.place \in DOMAIN cards
      <4>1. PICK sel \in SUBSET Files : cards' = [cards EXCEPT ![c.place].selected = sel]
        BY <1>5, <3>1, <3>3 DEF SetFileSelected, CardSet
      <4>2. cards' \in [1..Len(cards) -> CardSet]
        BY <1>5, <3>3, <4>1 DEF CardSet
      <4>3. \A i \in DOMAIN cards : cards'[i].mount = cards[i].mount /\ cards'[i].name = cards[i].name
        BY <1>5, <3>3, <4>1 DEF CardSet
      <4>4. cards' \in Seq(CardSet)
        BY <1>5, <4>2, SeqDef
      <4>5. DOMAIN cards' = DOMAIN cards
        BY <1>5, <4>2
      <4> HIDE DEF CardSet
      <4>6. Ui = "egui" => NameIsOwn'
        BY <1>1, <4>3, <4>5 DEF CardsInv, NameIsOwn
      <4> QED
        BY <4>4, <4>6
    <3> QED
      BY <3>2, <3>3
  <2>3. CASE c.op = "mount"
    <3>1. cards' = SetDeviceNameByMount(c) /\ <<c.mount, c.name>> \in typed /\ c.name \in Names
      BY <1>1, <1>2, <2>3 DEF Handle, Meant, CardsInv, CardsTypeOK
    <3>2. cards' \in [1..Len(cards) -> CardSet]
      BY <1>5, <3>1 DEF SetDeviceNameByMount, CardSet
    <3>3. \A i \in DOMAIN cards : /\ cards'[i].mount = cards[i].mount
                                  /\ \/ cards'[i].name = cards[i].name
                                     \/ cards[i].mount = c.mount /\ cards'[i].name = c.name
      BY <1>5, <3>1 DEF SetDeviceNameByMount, CardSet
    <3> QED
      BY <1>1, <1>5, <3>1, <3>2, <3>3, SeqDef DEF CardsInv, NameIsOwn
  <2>4. CASE c.op = "name"
    <3>1. cards' = WithName(c.place, c.name) /\ c.name \in Names /\ Ui # "egui"
      BY <1>1, <1>2, <2>4 DEF Handle, Meant, SetDeviceName
    <3>2. cards' \in [1..Len(cards) -> CardSet]
      BY <1>5, <3>1 DEF WithName, CardSet
    <3> QED
      BY <1>5, <3>1, <3>2, SeqDef
  <2> QED
    BY <1>2, <2>1, <2>2, <2>3, <2>4 DEF Meant
<1>8. CardsTypeOK'
  BY <1>1, <1>7 DEF CardsInv, CardsTypeOK, CardSet, Handle
<1> QED
  BY <1>1, <1>3, <1>7, <1>8 DEF CardsInv

LEMMA ScanKeeps ==
    ASSUME CardsInv, HandleScan PROVE CardsInv'
<1>1. /\ UNCHANGED <<commands, drawn, count, typed, chosen>>
      /\ scan' \in {"idle", "running", "finished"}
      /\ cards' = cards \/ \E list \in ScannedLists : cards' = Found(list)
  BY DEF HandleScan, OnOffloadScanFinished, CardsInv, CardsTypeOK
<1>2. cards' \in Seq(CardSet) /\ (Ui = "egui" => NameIsOwn')
  BY <1>1, FoundType DEF CardsInv, CardsTypeOK, CardSet, NameIsOwn
<1>3. CardsTypeOK' /\ Meant' = Meant
  BY <1>1, <1>2 DEF CardsInv, CardsTypeOK, CardSet, Meant
<1> QED
  BY <1>1, <1>2, <1>3 DEF CardsInv

\* A command joins the queue with what the user has typed.
LEMMA EnqueueKeeps ==
    ASSUME CardsInv, NEW c, Enqueue(c), c \in Meant', CardsTypeOK',
           typed \subseteq typed', cards' = cards
    PROVE  CardsInv'
<1>1. Meant \subseteq Meant'
  BY DEF Meant
<1>2. commands \in Seq(Meant')
  BY <1>1, SeqMonotonic DEF CardsInv
<1>3. commands' \in Seq(Meant') /\ count' \in Nat
  BY <1>2, AppendProperties DEF Enqueue, CardsInv
<1>4. NameIsOwn => NameIsOwn'
  BY DEF NameIsOwn
<1> QED
  BY <1>3, <1>4 DEF CardsInv

LEMMA DrawnType ==
    ASSUME CardsInv, NEW i \in DOMAIN drawn
    PROVE  i \in Nat /\ drawn[i].mount \in Mounts
<1>1. drawn \in Seq(CardSet)
  BY DEF CardsInv, CardsTypeOK, CardSet
<1>2. i \in 1..Len(drawn) /\ Len(drawn) \in Nat
  BY <1>1, LenProperties
<1>3. drawn[i] \in CardSet
  BY <1>1, <1>2, ElementOfSeq
<1> QED
  BY <1>2, <1>3 DEF CardSet

LEMMA EntriesKeep ==
    ASSUME CardsInv, Rescan \/ EnterName \/ ToggleFile PROVE CardsInv'
<1>1. CASE Rescan
  <2>1. Enqueue([op |-> "scan"]) /\ UNCHANGED <<cards, scan, drawn, typed, chosen>>
    BY <1>1 DEF Rescan
  <2>2. [op |-> "scan"] \in Meant' /\ CardsTypeOK'
    BY <2>1 DEF Meant, CardsInv, CardsTypeOK
  <2> QED
    BY <2>1, <2>2, EnqueueKeeps
<1>2. CASE EnterName
  <2>1. PICK i \in DOMAIN drawn, name \in Names :
            /\ Enqueue([op |-> IF Ui = "egui" THEN "mount" ELSE "name",
                        mount |-> drawn[i].mount, place |-> i, name |-> name])
            /\ typed' = typed \cup {<<drawn[i].mount, name>>}
    BY <1>2 DEF EnterName
  <2>2. UNCHANGED <<cards, scan, tick, drawn, chosen>>
    BY <1>2 DEF EnterName
  <2> DEFINE c == [op |-> IF Ui = "egui" THEN "mount" ELSE "name",
                   mount |-> drawn[i].mount, place |-> i, name |-> name]
  <2>3. CardsTypeOK'
    BY <2>1, <2>2, DrawnType DEF CardsInv, CardsTypeOK
  <2>4. c \in Meant'
    BY <2>1, DrawnType, CardAssumption DEF Meant
  <2> HIDE DEF c
  <2>5. Enqueue(c)
    BY <2>1 DEF c
  <2> QED
    BY <2>1, <2>2, <2>3, <2>4, <2>5, EnqueueKeeps
<1>3. CASE ToggleFile
  <2>1. PICK i \in DOMAIN drawn, file \in Files :
            /\ Enqueue([op |-> "file", place |-> i, file |-> file,
                        on |-> file \notin drawn[i].selected])
            /\ chosen' = chosen \cup {<<drawn[i].mount, file>>}
    BY <1>3 DEF ToggleFile
  <2>2. UNCHANGED <<cards, scan, tick, drawn, typed>>
    BY <1>3 DEF ToggleFile
  <2> DEFINE c == [op |-> "file", place |-> i, file |-> file,
                   on |-> file \notin drawn[i].selected]
  <2>3. CardsTypeOK'
    BY <2>1, <2>2, DrawnType DEF CardsInv, CardsTypeOK
  <2>4. c \in Meant'
    BY <2>1, DrawnType, CardAssumption DEF Meant
  <2> HIDE DEF c
  <2>5. Enqueue(c)
    BY <2>1 DEF c
  <2> QED
    BY <2>1, <2>2, <2>3, <2>4, <2>5, EnqueueKeeps
<1> QED
  BY <1>1, <1>2, <1>3

LEMMA CardsStep == CardsInv /\ [CardsNext]_cardVars => CardsInv'
<1> SUFFICES ASSUME CardsInv, [CardsNext]_cardVars PROVE CardsInv'
  OBVIOUS
<1>1. CASE ApplyDone \/ PublishCards \/ ScanEnds \/ UNCHANGED cardVars
  <2>1. /\ UNCHANGED <<cards, commands, count, typed, chosen>>
        /\ drawn' \in {cards, drawn} /\ scan' \in {scan, "finished"}
    BY <1>1 DEF ApplyDone, PublishCards, ScanEnds, cardVars
  <2> QED
    BY <2>1 DEF CardsInv, CardsTypeOK, Meant, NameIsOwn
<1> QED
  BY <1>1, ApplyKeeps, ScanKeeps, EntriesKeep DEF CardsNext

\* The variables of CardEdits keep their types, for any cards and any number
\* of commands and scans.
THEOREM CardsTypeInvariant == CardsSpec => []CardsTypeOK
<1>1. CardsInv => CardsTypeOK
  BY DEF CardsInv
<1> QED
  BY <1>1, CardsInitOK, CardsStep, PTL DEF CardsSpec

\* In the egui interface no card gets a name the user typed for another card,
\* however the list of cards changes while the command is on its way
\* (widgets/offload.rs sends the mount point with the name; the Slint
\* interface sends a place in the list, and the theorem does not hold for
\* it).
THEOREM NamesAreOwn == Ui = "egui" => (CardsSpec => []NameIsOwn)
<1>1. Ui = "egui" /\ CardsInv => NameIsOwn
  BY DEF CardsInv
<1>2. Ui = "egui" => [](Ui = "egui")
  OBVIOUS
<1> QED
  BY <1>1, <1>2, CardsInitOK, CardsStep, PTL DEF CardsSpec
=============================================================================
