---------------------------- MODULE OffloadProofs ----------------------------
(***************************************************************************)
(* Theorems about Offload: what a copy job reports as completed is at its  *)
(* destination, for any cards, files, selections, device names and parent  *)
(* folders and whatever fails; and the job is one of the supervisor's.     *)
(***************************************************************************)
EXTENDS Offload, FiniteSetTheorems, SequenceTheorems, TLAPS

-----------------------------------------------------------------------------
(* The supervisor.                                                         *)

LEMMA QuietOffload == InCommands /\ NoJobs => UNCHANGED vars
BY DEF InCommands, NoJobs, vars, jobVars, workerVars, loopVars

LEMMA CopyStepRefines ==
    ASSUME NEW j \in JobId, CopyStep(j) PROVE [Next]_vars
<1>1. UNCHANGED vars \/ \E outcome \in Outcome : Report(j, outcome)
  BY OffloadOutcomeAssumption DEF CopyStep, StartJob, NextDevice, ReportCompleted
<1> QED
  BY <1>1 DEF Next, Work

LEMMA OffloadStepRefines == [OffloadNext]_offloadVars => [Next]_vars
<1> SUFFICES ASSUME [OffloadNext]_offloadVars PROVE [Next]_vars
  OBVIOUS
<1>1. Command => [Next]_vars
  BY DEF Next
<1>2. ASSUME OffloadCommand PROVE [Next]_vars
  <2>1. {} \in SUBSET Kind /\ {OffloadCopy} \in SUBSET Kind /\ OffloadCopy \in Kind
    BY OffloadKindAssumption
  <2>2. CASE StartOffload
    BY <1>1, <2>1, <2>2 DEF StartOffload, InCommands, Command
  <2>3. CASE CancelOffload
    BY <1>1, <2>1, <2>3 DEF CancelOffload, InCommands, Command
  <2> QED
    BY <1>2, <2>2, <2>3, QuietOffload
       DEF OffloadCommand, SetParent, SetDeviceName, SelectFiles
<1>3. ASSUME OffloadTick PROVE [Next]_vars
  <2>1. CASE OnOffloadCopyFinished
    BY <2>1 DEF OnOffloadCopyFinished, NoJobs, HandleEvent, Next, Tick
  <2> QED
    BY <1>3, <2>1 DEF OffloadTick, Next, Tick
<1>4. ASSUME NEW j \in JobId, EndOfThread(j) PROVE [Next]_vars
  BY <1>4 DEF EndOfThread, Next, Work
<1>5. CASE UNCHANGED offloadVars
  BY <1>5 DEF offloadVars
<1> QED
  BY <1>2, <1>3, <1>4, <1>5, CopyStepRefines DEF OffloadNext


-----------------------------------------------------------------------------
(* The plan.                                                               *)

\* No file of a card is called what another one would be called with a
\* suffix: resolve_collision does not look for such names.
NoSuffixedNames ==
    \A c \in Card : \A i, k \in 1..Len(Files[c]) :
        \A n \in Nat : Files[c][i] # <<Files[c][k], n>>

LEMMA FilesType ==
    /\ Len(Files) \in Nat /\ Card \subseteq Nat /\ IsFiniteSet(Card)
    /\ \A c \in Card :
        /\ Len(Files[c]) \in Nat
        /\ IsFiniteSet(1..Len(Files[c]))
        /\ \A i \in 1..Len(Files[c]) : Files[c][i] \in FileName /\ <<c, i>> \in Source
<1>1. Len(Files) \in Nat /\ \A c \in Card : Files[c] \in Seq(FileName)
  BY FilesAssumption DEF Card
<1>2. IsFiniteSet(Card)
  BY <1>1, FS_Interval DEF Card
<1>3. ASSUME NEW c \in Card PROVE Len(Files[c]) \in Nat /\ IsFiniteSet(1..Len(Files[c]))
  BY <1>1, FS_Interval
<1>4. ASSUME NEW c \in Card, NEW i \in 1..Len(Files[c])
      PROVE  Files[c][i] \in FileName /\ <<c, i>> \in Source
  BY DEF FileName, Source
<1> QED
  BY <1>1, <1>2, <1>3, <1>4 DEF Card

\* What a card's item counts as alike is finite, and within the files.
LEMMA AlikeType ==
    ASSUME NEW c \in Card, chosen[c] \subseteq 1..Len(Files[c]), NEW i \in chosen[c]
    PROVE  /\ i \in Alike(c, i)
           /\ IsFiniteSet(Alike(c, i)) /\ Cardinality(Alike(c, i)) \in Nat
           /\ Alike(c, i) \subseteq 1..Len(Files[c])
<1>1. Alike(c, i) \subseteq 1..Len(Files[c]) /\ i \in Alike(c, i)
  BY FilesType DEF Alike
<1>2. IsFiniteSet(Alike(c, i))
  BY <1>1, FilesType, FS_Subset
<1> QED
  BY <1>1, <1>2, FS_CardinalityType

LEMMA FiniteImage ==
    ASSUME NEW S, NEW f, f = [x \in S |-> f[x]], IsFiniteSet(S)
    PROVE  IsFiniteSet({f[x] : x \in S})
<1>1. f \in Surjection(S, {f[x] : x \in S})
  BY DEF Surjection
<1> QED
  BY <1>1, FS_Surjection

LEMMA SourceFinite == IsFiniteSet(Source) /\ Cardinality(Source) \in Nat
<1> DEFINE Of == [c \in Card |-> {<<c, i>> : i \in 1..Len(Files[c])}]
<1>1. IsFiniteSet({Of[c] : c \in Card})
  BY FilesType, FiniteImage
<1>2. ASSUME NEW c \in Card PROVE IsFiniteSet(Of[c])
  <2> DEFINE f == [i \in 1..Len(Files[c]) |-> <<c, i>>]
  <2>1. IsFiniteSet({f[i] : i \in 1..Len(Files[c])})
    BY FilesType, FiniteImage
  <2>2. Of[c] = {f[i] : i \in 1..Len(Files[c])}
    OBVIOUS
  <2> QED
    BY <2>1, <2>2
<1>3. IsFiniteSet(UNION {Of[c] : c \in Card})
  <2> HIDE DEF Of
  <2> QED
    BY <1>1, <1>2, FS_UNION
<1>4. Source = UNION {Of[c] : c \in Card}
  BY DEF Source
<1> QED
  BY <1>3, <1>4, FS_CardinalityType

\* The suffix counts files of the card, so it is never past their number.
LEMMA CollisionType ==
    ASSUME NEW c \in Card, chosen[c] \subseteq 1..Len(Files[c]), NEW i \in chosen[c]
    PROVE  resolve_collision(c, i) \in PlannedName
<1>1. Files[c][i] \in FileName
  BY FilesType
<1>2. CASE Alike(c, i) = {i}
  BY <1>1, <1>2 DEF resolve_collision, PlannedName
<1>3. CASE Alike(c, i) # {i}
  <2> DEFINE n == Cardinality(Alike(c, i))
             f == [m \in Alike(c, i) |-> <<c, m>>]
  <2>1. n \in Nat /\ n >= 2
    <3>1. {i} \in SUBSET Alike(c, i) /\ Cardinality({i}) = 1
      BY AlikeType, FS_Singleton
    <3>2. n \in Nat /\ 1 <= n /\ (n = 1 => {i} = Alike(c, i))
      BY <3>1, AlikeType, FS_Subset
    <3> QED
      BY <1>3, <3>2
  <2>2. f \in Injection(Alike(c, i), Source)
    <3>1. f \in [Alike(c, i) -> Source]
      BY AlikeType, FilesType
    <3> QED
      BY <3>1 DEF Injection, IsInjective
  <2>3. n <= Cardinality(Source)
    BY <2>2, SourceFinite, FS_Injection
  <2>4. n \in 2..Cardinality(Source)
    BY <2>1, <2>3, SourceFinite
  <2> QED
    BY <1>1, <1>3, <2>4 DEF resolve_collision, PlannedName
<1> QED
  BY <1>2, <1>3

\* No two chosen files of a card get the same name.
LEMMA CollisionsResolved ==
    ASSUME NoSuffixedNames,
           NEW c \in Card, chosen[c] \subseteq 1..Len(Files[c]),
           NEW i \in chosen[c], NEW k \in chosen[c],
           resolve_collision(c, i) = resolve_collision(c, k)
    PROVE  i = k
<1>1. i \in Nat /\ k \in Nat
  BY FilesType
<1>2. /\ Cardinality(Alike(c, i)) \in Nat /\ Cardinality(Alike(c, k)) \in Nat
      /\ \A n \in Nat : Files[c][i] # <<Files[c][k], n>>
      /\ \A n \in Nat : Files[c][k] # <<Files[c][i], n>>
  BY AlikeType DEF NoSuffixedNames
<1>3. Files[c][i] = Files[c][k] /\ (Alike(c, i) = {i} <=> Alike(c, k) = {k})
  BY <1>2 DEF resolve_collision
<1>4. CASE Alike(c, i) = {i}
  <2>1. Alike(c, k) = {k}
    BY <1>3, <1>4
  <2>2. CASE i <= k
    BY <1>3, <2>1, <2>2 DEF Alike
  <2>3. CASE k <= i
    BY <1>3, <1>4, <2>3 DEF Alike
  <2> QED
    BY <1>1, <2>2, <2>3
<1>5. CASE Alike(c, i) # {i}
  <2>1. Cardinality(Alike(c, i)) = Cardinality(Alike(c, k))
    BY <1>3, <1>5 DEF resolve_collision
  <2>2. CASE i <= k
    <3>1. Alike(c, i) \in SUBSET Alike(c, k)
      BY <1>1, <1>3, <2>2, FilesType DEF Alike
    <3>2. Alike(c, i) = Alike(c, k)
      BY <2>1, <3>1, AlikeType, FS_Subset
    <3>3. k \in Alike(c, i)
      BY <3>2, AlikeType
    <3> QED
      BY <1>1, <2>2, <3>3 DEF Alike
  <2>3. CASE k <= i
    <3>1. Alike(c, k) \in SUBSET Alike(c, i)
      BY <1>1, <1>3, <2>3, FilesType DEF Alike
    <3>2. Alike(c, i) = Alike(c, k)
      BY <2>1, <3>1, AlikeType, FS_Subset
    <3>3. i \in Alike(c, k)
      BY <3>2, AlikeType
    <3> QED
      BY <1>1, <2>3, <3>3 DEF Alike
  <2> QED
    BY <1>1, <2>2, <2>3
<1> QED
  BY <1>4, <1>5

-----------------------------------------------------------------------------
(* What is delivered.  The invariant speaks of the plan (every card has    *)
(* one, no two items of a device have one destination), of the place of    *)
(* the job in it, and of what it has installed: the items of the device it *)
(* is at that are behind it, and all items of the devices it completed.    *)

Working == step \in {"file", "create", "chunk", "install", "verify"}
Delivered(c, n) == disk[plan[c].items[n].dst] = plan[c].items[n].src

ItemsOK(c) ==
    /\ DOMAIN plan[c].items \subseteq 1..Len(Files[c])
    /\ \A n \in DOMAIN plan[c].items :
        /\ plan[c].items[n].src \in Source
        /\ plan[c].items[n].dst \in Destination
        /\ plan[c].items[n].dst[2] = plan[c].device

Apart(c) ==
    NoSuffixedNames => \A n, m \in DOMAIN plan[c].items :
        plan[c].items[n].dst = plan[c].items[m].dst => n = m

PlanInv ==
    plan # <<>> =>
        /\ plan = [c \in Card |-> plan[c]] /\ Card # {}
        /\ \A c \in Card : plan[c].device \in Device /\ ItemsOK(c) /\ Apart(c)

PlaceInv ==
    /\ dev \in 1..(Len(Files) + 1) /\ item \in Nat
    /\ plan = <<>> => step = "over" /\ completed = {}
    /\ Working => dev \in Card
    /\ step \in {"create", "chunk", "install", "verify"} =>
            item \in DOMAIN plan[dev].items
    /\ completed \subseteq Card /\ \A d \in completed : d < dev

DeliveredInv ==
    NoSuffixedNames /\ DistinctDevices =>
        /\ \A d \in completed : \A n \in DOMAIN plan[d].items : Delivered(d, n)
        /\ Working => \A n \in DOMAIN plan[dev].items : n < item => Delivered(dev, n)
        /\ step = "verify" => Delivered(dev, item)

StateInv ==
    /\ parent \in Parent \cup {None} /\ last_offload_parent \in Parent \cup {None}
    /\ device_name \in [Card -> Device]
    /\ chosen \in [Card -> SUBSET Nat]
    /\ \A c \in Card : chosen[c] \subseteq 1..Len(Files[c])
    /\ step \in {"start", "device", "file", "create", "chunk", "install", "verify", "over"}
    /\ disk \in [Destination -> Source \cup {None}]
    /\ tmp \subseteq Destination
    /\ payload \in [JobId -> SUBSET Device]

CopyInv == StateInv /\ PlanInv /\ PlaceInv /\ DeliveredInv

LEMMA FunctionLen ==
    ASSUME NEW n \in Nat, NEW f, f = [k \in 1..n |-> f[k]]
    PROVE  Len(f) = n
<1> DEFINE S == {f[k] : k \in 1..n}
<1>1. f \in [1..n -> S]
  OBVIOUS
<1>2. f \in Seq(S)
  BY <1>1, SeqDef
<1>3. Len(f) \in Nat /\ 1..Len(f) = 1..n
  BY <1>1, <1>2, LenProperties
<1> QED
  BY <1>3

LEMMA PlanLen ==
    ASSUME PlanInv, plan # <<>>
    PROVE  Len(plan) = Len(Files)
BY FilesType, FunctionLen DEF PlanInv, Card

LEMMA CopyInit == OffloadInit => CopyInv
<1> SUFFICES ASSUME OffloadInit PROVE CopyInv
  OBVIOUS
<1>1. StateInv
  BY FilesType DEF OffloadInit, StateInv
<1>2. PlanInv /\ PlaceInv /\ DeliveredInv
  BY FilesType DEF OffloadInit, PlanInv, PlaceInv, DeliveredInv, Working
<1> QED
  BY <1>1, <1>2 DEF CopyInv

LEMMA CopyStart ==
    ASSUME CopyInv, StartOffload
    PROVE  CopyInv'
<1>1. /\ plan' = build_copy_plan /\ dev' = 1 /\ item' = 1 /\ step' = "start"
      /\ completed' = {} /\ parent \in Parent
      /\ UNCHANGED <<userVars, disk, tmp, payload, last_offload_parent>>
  BY DEF StartOffload, CopyInv, StateInv
<1>2. PICK c0 \in Card : chosen[c0] # {}
  BY DEF StartOffload
<1>3. \A c \in Card : plan'[c] = [device |-> device_name[c], items |-> plan_copies(c)]
  BY <1>1 DEF build_copy_plan
<1>4. plan' = [c \in Card |-> plan'[c]]
  BY <1>1 DEF build_copy_plan
<1>5. plan' # <<>>
  <2>1. Len(plan') = Len(Files) /\ Len(Files) # 0
    BY <1>2, <1>4, FilesType, FunctionLen DEF Card
  <2> QED
    BY <2>1
<1>6. ASSUME NEW c \in Card
      PROVE  plan'[c].device \in Device /\ ItemsOK(c)' /\ Apart(c)'
  <2>1. chosen[c] \subseteq 1..Len(Files[c]) /\ device_name[c] \in Device
    BY DEF CopyInv, StateInv
  <2>2. /\ plan'[c].device = device_name[c]
        /\ plan'[c].items = plan_copies(c)
        /\ DOMAIN plan'[c].items = chosen[c]
        /\ \A n \in chosen[c] :
            /\ plan'[c].items[n].src = <<c, n>>
            /\ plan'[c].items[n].dst = <<parent, device_name[c], resolve_collision(c, n)>>
    <3>1. plan'[c].device = device_name[c] /\ plan'[c].items = plan_copies(c)
      <4> DEFINE copies == plan_copies(c)
      <4>1. plan'[c] = [device |-> device_name[c], items |-> copies]
        BY <1>3
      <4> HIDE DEF copies
      <4>2. plan'[c].device = device_name[c] /\ plan'[c].items = copies
        BY <4>1
      <4> QED
        BY <4>2 DEF copies
    <3>2. /\ DOMAIN plan_copies(c) = chosen[c]
          /\ \A n \in chosen[c] :
              /\ plan_copies(c)[n].src = <<c, n>>
              /\ plan_copies(c)[n].dst =
                      <<parent, device_name[c], resolve_collision(c, n)>>
      BY DEF plan_copies
    <3> QED
      BY <3>1, <3>2
  <2>3. ASSUME NEW n \in chosen[c]
        PROVE  <<c, n>> \in Source /\ resolve_collision(c, n) \in PlannedName
    BY <2>1, FilesType, CollisionType
  <2>4. ItemsOK(c)'
    <3>1. ASSUME NEW n \in chosen[c]
          PROVE  /\ plan'[c].items[n].src \in Source
                 /\ plan'[c].items[n].dst \in Destination
                 /\ plan'[c].items[n].dst[2] = plan'[c].device
      <4>1. <<parent, device_name[c], resolve_collision(c, n)>> \in Destination
        BY <1>1, <2>1, <2>3 DEF Destination
      <4>2. /\ plan'[c].items[n].src = <<c, n>>
            /\ plan'[c].items[n].dst = <<parent, device_name[c], resolve_collision(c, n)>>
        BY <2>2
      <4> QED
        BY <2>2, <2>3, <4>1, <4>2
    <3> QED
      BY <2>1, <2>2, <3>1 DEF ItemsOK
  <2>5. Apart(c)'
    BY <2>1, <2>2, CollisionsResolved DEF Apart
  <2> QED
    BY <2>1, <2>2, <2>4, <2>5
<1>7. StateInv'
  BY <1>1 DEF CopyInv, StateInv, userVars
<1>8. PlanInv'
  BY <1>2, <1>4, <1>6 DEF PlanInv
<1>9. PlaceInv' /\ DeliveredInv'
  BY <1>1, <1>5, FilesType DEF PlaceInv, DeliveredInv, Working
<1> QED
  BY <1>7, <1>8, <1>9 DEF CopyInv

\* The choices of the user touch neither the plan nor what was copied.
LEMMA CopyCommand ==
    ASSUME CopyInv, OffloadCommand
    PROVE  CopyInv'
<1>1. ASSUME /\ parent' \in Parent \cup {None}
             /\ device_name' \in [Card -> Device]
             /\ chosen' \in [Card -> SUBSET Nat]
             /\ \A c \in Card : chosen'[c] \subseteq 1..Len(Files[c]),
             UNCHANGED <<fileVars, jobDataVars, last_offload_parent>>
      PROVE  CopyInv'
  BY <1>1
  DEF CopyInv, StateInv, PlanInv, PlaceInv, DeliveredInv, Working, Delivered,
      ItemsOK, Apart, DistinctDevices, fileVars, jobDataVars
<1>2. ASSUME NEW p \in Parent, SetParent(p) PROVE CopyInv'
  BY <1>1, <1>2 DEF SetParent, CopyInv, StateInv
<1>3. ASSUME NEW c \in Card, NEW name \in Device, SetDeviceName(c, name) PROVE CopyInv'
  BY <1>1, <1>3 DEF SetDeviceName, CopyInv, StateInv
<1>4. ASSUME NEW c \in Card, NEW files \in SUBSET (1..Len(Files[c])), SelectFiles(c, files)
      PROVE  CopyInv'
  <2>1. files \in SUBSET Nat
    BY FilesType
  <2> QED
    BY <1>1, <1>4, <2>1 DEF SelectFiles, CopyInv, StateInv
<1>5. CASE CancelOffload
  BY <1>1, <1>5 DEF CancelOffload, userVars, CopyInv, StateInv
<1> QED
  BY <1>2, <1>3, <1>4, <1>5, CopyStart DEF OffloadCommand

\* Between two plans the plan holds, and two steps of the job leave what was
\* delivered alone: those that end the work on a device, those that go on.
LEMMA CopyKeeps ==
    ASSUME CopyInv, NEW j \in JobId, CopyStep(j)
    PROVE  /\ UNCHANGED <<plan, userVars, last_offload_parent>>
           /\ PlanInv' /\ StateInv'
<1>1. UNCHANGED <<plan, userVars, last_offload_parent>>
  BY DEF CopyStep, StartJob, NextDevice, NextFile, CreateTmp, CopyChunks,
         InstallFile, VerifyCopy, fileVars
<1>2. PlanInv'
  BY <1>1 DEF CopyInv, PlanInv, ItemsOK, Apart
<1>3. ASSUME step \in {"chunk", "install", "create"}
      PROVE  Item.dst \in Destination /\ Item.src \in Source
  <2>1. plan # <<>> /\ dev \in Card /\ item \in DOMAIN plan[dev].items
    BY <1>3 DEF CopyInv, PlaceInv, Working
  <2> QED
    BY <2>1 DEF Item, CopyInv, PlanInv, ItemsOK
<1>4. disk' \in [Destination -> Source \cup {None}] /\ tmp' \subseteq Destination
  <2>1. UNCHANGED disk \/ InstallFile(j)
    BY DEF CopyStep, StartJob, NextDevice, NextFile, CreateTmp, CopyChunks,
           VerifyCopy, fileVars
  <2>2. disk' \in [Destination -> Source \cup {None}]
    BY <1>3, <2>1 DEF InstallFile, CopyInv, StateInv
  <2>3. tmp' \subseteq tmp \/ CreateTmp
    BY DEF CopyStep, StartJob, NextDevice, NextFile, CopyChunks, InstallFile,
           VerifyCopy, fileVars
  <2>4. tmp' \subseteq Destination
    BY <1>3, <2>3 DEF CreateTmp, CopyInv, StateInv
  <2> QED
    BY <2>2, <2>4
<1>5. payload' \in [JobId -> SUBSET Device]
  <2>1. UNCHANGED payload \/ ReportCompleted(j)
    BY DEF CopyStep, StartJob, NextDevice, NextFile, CreateTmp, CopyChunks,
           InstallFile, VerifyCopy
  <2>2. {plan[d].device : d \in completed} \subseteq Device
    BY DEF CopyInv, PlanInv, PlaceInv
  <2> QED
    BY <2>1, <2>2 DEF ReportCompleted, CopyInv, StateInv
<1>6. step' \in {"start", "device", "file", "create", "chunk", "install", "verify", "over"}
  BY DEF CopyInv, StateInv, CopyStep, StartJob, ReportCompleted, NextDevice,
         NextFile, Abandon, CreateTmp, CopyChunks, InstallFile, VerifyCopy
<1>7. StateInv'
  BY <1>1, <1>4, <1>5, <1>6 DEF CopyInv, StateInv, userVars
<1> QED
  BY <1>1, <1>2, <1>7

\* What a step does that installs nothing and completes nothing.
LEMMA CopyQuiet ==
    ASSUME CopyInv, PlanInv', StateInv', PlaceInv',
           UNCHANGED <<plan, disk, completed>>,
           \/ ~Working'
           \/ Working /\ dev' = dev /\ step' # "verify" /\ item' = item
           \/ Working' /\ step' # "verify" /\ item' = 1
    PROVE  CopyInv'
<1>1. SUFFICES ASSUME NoSuffixedNames, DistinctDevices
               PROVE  Working' => \A n \in DOMAIN plan[dev'].items :
                                     n < item' => Delivered(dev', n)
  <2>1. step' = "verify" => ~Working' \/ step' # "verify"
    BY DEF Working
  <2> QED
  BY DEF CopyInv, DeliveredInv, DistinctDevices, Delivered, Working
<1>2. CASE Working' /\ item' = 1
  <2>1. plan # <<>> /\ dev' \in Card
    BY <1>2 DEF PlaceInv, Working
  <2>2. DOMAIN plan[dev'].items \subseteq 1..Len(Files[dev'])
    BY <2>1 DEF CopyInv, PlanInv, ItemsOK
  <2> QED
    BY <1>2, <2>1, <2>2, FilesType
<1>3. CASE Working /\ dev' = dev /\ item' = item
  BY <1>1, <1>3 DEF CopyInv, DeliveredInv
<1> QED
  BY <1>2, <1>3

LEMMA CopyPreserves ==
    ASSUME CopyInv, NEW j \in JobId, CopyStep(j)
    PROVE  CopyInv'
<1>1. PlanInv' /\ StateInv' /\ plan' = plan /\ DistinctDevices' = DistinctDevices
  BY CopyKeeps DEF DistinctDevices
<1>2. /\ Len(Files) \in Nat /\ Card = 1..Len(Files) /\ dev \in Nat /\ item \in Nat
      /\ plan # <<>> => Len(plan) = Len(Files)
  BY FilesType, PlanLen DEF CopyInv, PlaceInv, Card
<1>3. step # "over" => plan # <<>>
  BY DEF CopyInv, PlaceInv
<1>4. CASE StartJob(j)
  <2>1. /\ step = "start" /\ step' \in {"device", "over"}
        /\ UNCHANGED <<disk, completed, dev, item>>
    BY <1>4 DEF StartJob, ReportCompleted, fileVars
  <2>2. PlaceInv'
    BY <1>1, <1>3, <2>1 DEF CopyInv, PlaceInv, Working
  <2> QED
    BY <1>1, <2>1, <2>2, CopyQuiet DEF Working
<1>5. CASE NextDevice(j)
  <2>1. step = "device" /\ UNCHANGED <<disk, completed>>
    BY <1>5 DEF NextDevice
  <2>2. \/ step' = "over" /\ UNCHANGED <<dev, item>>
        \/ step' = "file" /\ item' = 1 /\ dev' = dev /\ dev \in Card
        \/ step' = "device" /\ item' = 1 /\ dev' = dev + 1 /\ dev \in Card
    <3>1. dev <= Len(plan) => dev \in Card
      BY <1>2, <1>3, <2>1 DEF CopyInv, PlaceInv
    <3> QED
      BY <1>5, <3>1 DEF NextDevice, ReportCompleted, Abandon
  <2>3. PlaceInv'
    BY <1>1, <1>2, <1>3, <2>1, <2>2 DEF CopyInv, PlaceInv, Working
  <2> QED
    BY <1>1, <2>1, <2>2, <2>3, CopyQuiet DEF Working
<1>6. CASE NextFile(j)
  <2>1. step = "file" /\ UNCHANGED disk /\ plan # <<>> /\ dev \in Card
    BY <1>3, <1>6 DEF NextFile, fileVars, CopyInv, PlaceInv, Working
  <2>2. DOMAIN plan[dev].items \subseteq Nat
    BY <2>1, FilesType DEF CopyInv, PlanInv, ItemsOK
  <2>3. CASE Ahead = {} /\ completed' = completed \cup {dev}
             /\ dev' = dev + 1 /\ item' = 1 /\ step' = "device"
    <3>1. PlaceInv'
      BY <1>1, <1>2, <2>1, <2>3 DEF CopyInv, PlaceInv, Working
    <3>2. \A n \in DOMAIN plan[dev].items : n < item
      BY <1>2, <2>2, <2>3 DEF Ahead
    <3>3. DeliveredInv'
      BY <1>1, <2>1, <2>3, <3>2 DEF CopyInv, DeliveredInv, Delivered, Working
    <3> QED
      BY <1>1, <3>1, <3>3 DEF CopyInv
  <2>4. CASE Abandon /\ UNCHANGED completed
    <3>1. PlaceInv'
      BY <1>1, <1>2, <2>1, <2>4 DEF CopyInv, PlaceInv, Working, Abandon
    <3> QED
      BY <1>1, <2>1, <2>4, <3>1, CopyQuiet DEF Abandon, Working
  <2>5. CASE item' \in Ahead /\ (\A n \in Ahead : item' <= n)
             /\ step' = "create" /\ UNCHANGED <<completed, dev>>
    <3>1. item' \in Nat /\ item' \in DOMAIN plan[dev].items
      BY <2>2, <2>5 DEF Ahead
    <3>2. PlaceInv'
      BY <1>1, <2>1, <2>5, <3>1 DEF CopyInv, PlaceInv, Working
    <3>3. ASSUME NEW n \in DOMAIN plan[dev].items, n < item' PROVE n < item
      BY <1>2, <2>2, <2>5, <3>1, <3>3 DEF Ahead
    <3>4. DeliveredInv'
      BY <1>1, <2>1, <2>5, <3>3 DEF CopyInv, DeliveredInv, Delivered, Working
    <3> QED
      BY <1>1, <3>2, <3>4 DEF CopyInv
  <2> QED
    BY <1>6, <2>3, <2>4, <2>5 DEF NextFile
<1>7. CASE CreateTmp \/ CopyChunks(j)
  <2>1. /\ step \in {"create", "chunk"} /\ UNCHANGED <<disk, completed>>
        /\ \/ step' = "device" /\ item' = 1 /\ dev' = dev + 1
           \/ step' \in {"chunk", "install"} /\ UNCHANGED <<dev, item>>
    BY <1>7 DEF CreateTmp, CopyChunks, Abandon
  <2>2. PlaceInv'
    BY <1>1, <1>2, <2>1 DEF CopyInv, PlaceInv, Working
  <2> QED
    BY <1>1, <2>1, <2>2, CopyQuiet DEF Working
<1>8. CASE InstallFile(j)
  <2>1. /\ step = "install" /\ UNCHANGED completed
        /\ \/ step' = "device" /\ item' = 1 /\ dev' = dev + 1 /\ UNCHANGED disk
           \/ /\ step' = "verify" /\ UNCHANGED <<dev, item>>
              /\ disk' = [disk EXCEPT ![Item.dst] = Item.src]
    BY <1>8 DEF InstallFile, Abandon
  <2>2. PlaceInv'
    BY <1>1, <1>2, <2>1 DEF CopyInv, PlaceInv, Working
  <2>3. CASE step' = "device" /\ UNCHANGED disk
    BY <1>1, <2>1, <2>2, <2>3, CopyQuiet DEF Working
  <2>4. CASE step' = "verify" /\ UNCHANGED <<dev, item>>
             /\ disk' = [disk EXCEPT ![Item.dst] = Item.src]
    <3>1. plan # <<>> /\ dev \in Card /\ item \in DOMAIN plan[dev].items
      BY <1>3, <2>1 DEF CopyInv, PlaceInv, Working
    <3>2. /\ \A c \in Card : ItemsOK(c) /\ Apart(c)
          /\ disk \in [Destination -> Source \cup {None}]
      BY <3>1 DEF CopyInv, PlanInv, StateInv
    <3>3. /\ disk'[Item.dst] = Item.src
          /\ \A d \in Destination : d # Item.dst => disk'[d] = disk[d]
      BY <2>4, <3>1, <3>2 DEF Item, ItemsOK
    <3>4. ASSUME NoSuffixedNames, DistinctDevices, NEW c \in Card, NEW n \in DOMAIN plan[c].items,
                 Delivered(c, n)
          PROVE  Delivered(c, n)'
      <4>1. CASE plan[c].items[n].dst # Item.dst
        BY <1>1, <3>2, <3>3, <3>4, <4>1 DEF Delivered, ItemsOK
      <4>2. CASE plan[c].items[n].dst = Item.dst
        <5>1. plan[c].device = plan[dev].device
          BY <3>1, <3>2, <4>2 DEF Item, ItemsOK
        <5>2. c = dev
          BY <3>1, <3>4, <5>1 DEF DistinctDevices
        <5>3. n = item
          <6>1. /\ n \in DOMAIN plan[dev].items
                /\ plan[dev].items[n].dst = plan[dev].items[item].dst
            BY <4>2, <5>2 DEF Item
          <6>2. Apart(dev)
            BY <3>1, <3>2
          <6> QED
            BY <3>1, <3>4, <6>1, <6>2 DEF Apart
        <5> QED
          BY <1>1, <3>3, <5>2, <5>3 DEF Delivered, Item
      <4> QED
        BY <4>1, <4>2
    <3>5. completed \subseteq Card /\ completed' = completed
      BY <2>1 DEF CopyInv, PlaceInv
    <3>6. Delivered(dev, item)'
      BY <1>1, <2>4, <3>3 DEF Delivered, Item
    <3>7. DeliveredInv'
      BY <1>1, <2>1, <2>4, <3>1, <3>4, <3>5, <3>6 DEF CopyInv, DeliveredInv, Working, Delivered
    <3> QED
      BY <1>1, <2>2, <3>7 DEF CopyInv
  <2> QED
    BY <2>1, <2>3, <2>4
<1>9. CASE VerifyCopy
  <2>1. /\ step = "verify" /\ UNCHANGED <<disk, completed>>
        /\ \/ item' = item + 1 /\ step' = "file" /\ UNCHANGED dev
           \/ step' = "device" /\ item' = 1 /\ dev' = dev + 1
    BY <1>9 DEF VerifyCopy, Abandon
  <2>2. PlaceInv'
    BY <1>1, <1>2, <2>1 DEF CopyInv, PlaceInv, Working
  <2>3. CASE step' = "device"
    BY <1>1, <2>1, <2>2, <2>3, CopyQuiet DEF Working
  <2>4. CASE item' = item + 1 /\ step' = "file" /\ UNCHANGED dev
    <3>1. plan # <<>> /\ dev \in Card
      BY <1>3, <2>1 DEF CopyInv, PlaceInv, Working
    <3>2. DOMAIN plan[dev].items \subseteq Nat
      BY <3>1, FilesType DEF CopyInv, PlanInv, ItemsOK
    <3>3. \A n \in DOMAIN plan[dev].items : n < item' => n < item \/ n = item
      BY <1>2, <2>4, <3>2
    <3>4. DeliveredInv'
      BY <1>1, <2>1, <2>4, <3>3 DEF CopyInv, DeliveredInv, Delivered, Working
    <3> QED
      BY <1>1, <2>2, <3>4 DEF CopyInv
  <2> QED
    BY <2>1, <2>3, <2>4
<1> QED
  BY <1>4, <1>5, <1>6, <1>7, <1>8, <1>9 DEF CopyStep

LEMMA CopyStutters ==
    ASSUME CopyInv,
           UNCHANGED <<userVars, fileVars, jobDataVars>>,
           last_offload_parent' \in Parent \cup {None}
    PROVE  CopyInv'
BY DEF CopyInv, StateInv, PlanInv, PlaceInv, DeliveredInv, Working, Delivered,
       ItemsOK, Apart, DistinctDevices, fileVars, jobDataVars, userVars

LEMMA CopyNext == CopyInv /\ [OffloadNext]_offloadVars => CopyInv'
<1> SUFFICES ASSUME CopyInv, [OffloadNext]_offloadVars PROVE CopyInv'
  OBVIOUS
<1>1. last_offload_parent \in Parent \cup {None} /\ parent \in Parent \cup {None}
  BY DEF CopyInv, StateInv
<1>2. CASE OffloadTick
  BY <1>1, <1>2, CopyStutters DEF OffloadTick, OnOffloadCopyFinished
<1>3. ASSUME NEW j \in JobId, EndOfThread(j) PROVE CopyInv'
  BY <1>1, <1>3, CopyStutters DEF EndOfThread
<1>4. CASE UNCHANGED offloadVars
  BY <1>1, <1>4, CopyStutters DEF offloadVars
<1> QED
  BY <1>2, <1>3, <1>4, CopyCommand, CopyPreserves DEF OffloadNext

\* The plan, the place of the job in it and what it has delivered fit
\* together at every step (run_offload_copy).
THEOREM CopyInvariant == OffloadSpec => []CopyInv
BY CopyInit, CopyNext, PTL DEF OffloadSpec

\* The variables of Offload keep their types, for any cards, files and names;
\* what the job is copying is an item of its plan.
THEOREM OffloadTypeInvariant == OffloadSpec => []OffloadTypeOK
<1>1. CopyInv => OffloadTypeOK
  <2> SUFFICES ASSUME CopyInv PROVE OffloadTypeOK
    OBVIOUS
  <2>1. Len(plan) \in {0, Len(Files)}
    BY PlanLen DEF CopyInv
  <2>2. step \in {"create", "chunk", "install", "verify"} =>
            item \in DOMAIN plan[dev].items /\ Item.dst \in Destination
    BY DEF CopyInv, PlaceInv, Working, PlanInv, ItemsOK, Item
  <2> QED
    BY <2>1, <2>2 DEF CopyInv, StateInv, PlaceInv, OffloadTypeOK
<1> QED
  BY <1>1, CopyInvariant, PTL

\* A device that is reported as completed has all its selected files at their
\* destinations, for any cards and selections and through errors, cancels,
\* later jobs and edits, provided that no two cards have the same device name
\* and that no file is called what the suffix would make of another one
\* (run_offload_copy, resolve_collision).
THEOREM CompletedAreDelivered ==
    NoSuffixedNames => (OffloadSpec => []CompletedIsDelivered)
<1>1. NoSuffixedNames /\ CopyInv => CompletedIsDelivered
  BY DEF CopyInv, DeliveredInv, CompletedIsDelivered, Delivered
<1>2. NoSuffixedNames => []NoSuffixedNames
  OBVIOUS
<1> QED
  BY <1>1, <1>2, CopyInvariant, PTL

\* Every step of the offload is a step of the supervisor or leaves its state
\* alone: the safety half of OffloadImplementsSupervisor (spawn, cancel,
\* drain and reap of job.rs).
THEOREM OffloadStepsOfSupervisor == OffloadSpec => Spec
<1>1. OffloadInit => Init
  BY DEF OffloadInit
<1> QED
  BY <1>1, OffloadStepRefines, PTL DEF OffloadSpec, Spec
=============================================================================
