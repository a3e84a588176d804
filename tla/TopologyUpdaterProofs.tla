----------------------- MODULE TopologyUpdaterProofs -----------------------
(***************************************************************************)
(* Proofs about TopologyUpdater, for any arguments, configurations, length *)
(* of the kernel's queue and bounds: the types, and that no wakeup is lost *)
(* on the way from a state file to the loop.                               *)
(***************************************************************************)
EXTENDS TopologyUpdater, TLAPS

-----------------------------------------------------------------------------
(* The kernel's queue.                                                     *)

Holds(queue, kind) == \E i \in DOMAIN queue : queue[i] = kind

\* What a queue holds after an event is added.
LEMMA AppendFacts ==
  ASSUME NEW queue \in Seq(FileEvents), NEW kind \in FileEvents
  PROVE  /\ Append(queue, kind) \in Seq(FileEvents)
         /\ Len(Append(queue, kind)) = Len(queue) + 1
         /\ \A k : Holds(Append(queue, kind), k) <=> Holds(queue, k) \/ k = kind
<1>1. /\ Append(queue, kind) \in Seq(FileEvents)
      /\ Len(Append(queue, kind)) = Len(queue) + 1
      /\ \A i \in 1..Len(queue) : Append(queue, kind)[i] = queue[i]
      /\ Append(queue, kind)[Len(queue) + 1] = kind
      /\ DOMAIN queue = 1..Len(queue)
      /\ DOMAIN Append(queue, kind) = 1..(Len(queue) + 1)
      /\ Len(queue) \in Nat
  OBVIOUS
<1>2. 1..(Len(queue) + 1) = (1..Len(queue)) \cup {Len(queue) + 1}
  BY <1>1
<1>3. ASSUME NEW k
      PROVE  Holds(Append(queue, kind), k) <=> Holds(queue, k) \/ k = kind
  BY <1>1, <1>2 DEF Holds
<1> QED BY <1>1, <1>3

\* What a queue holds before and after its first event is read.
LEMMA TailFacts ==
  ASSUME NEW queue \in Seq(FileEvents), queue # <<>>
  PROVE  /\ Head(queue) \in FileEvents
         /\ Tail(queue) \in Seq(FileEvents)
         /\ Len(Tail(queue)) = Len(queue) - 1
         /\ \A k : Holds(queue, k) <=> Head(queue) = k \/ Holds(Tail(queue), k)
<1>1. /\ Head(queue) \in FileEvents /\ Head(queue) = queue[1]
      /\ Tail(queue) \in Seq(FileEvents)
      /\ Len(Tail(queue)) = Len(queue) - 1
      /\ \A i \in 1..(Len(queue) - 1) : Tail(queue)[i] = queue[i + 1]
      /\ DOMAIN queue = 1..Len(queue)
      /\ DOMAIN Tail(queue) = 1..(Len(queue) - 1)
      /\ Len(queue) \in Nat /\ Len(queue) > 0
  OBVIOUS
<1>2. ASSUME NEW k, Holds(queue, k)
      PROVE  Head(queue) = k \/ Holds(Tail(queue), k)
  <2>1. PICK i \in 1..Len(queue) : queue[i] = k
    BY <1>1, <1>2 DEF Holds
  <2>2. CASE i = 1
    BY <1>1, <2>1, <2>2
  <2>3. CASE i # 1
    <3>1. i - 1 \in 1..(Len(queue) - 1) /\ (i - 1) + 1 = i
      BY <1>1, <2>3
    <3>2. Tail(queue)[i - 1] = k
      BY <1>1, <2>1, <3>1
    <3> QED BY <1>1, <3>1, <3>2 DEF Holds
  <2> QED BY <2>2, <2>3
<1>3. ASSUME NEW k, Head(queue) = k \/ Holds(Tail(queue), k)
      PROVE  Holds(queue, k)
  <2>1. CASE Head(queue) = k
    BY <1>1, <2>1 DEF Holds
  <2>2. CASE Holds(Tail(queue), k)
    <3>1. PICK i \in 1..(Len(queue) - 1) : Tail(queue)[i] = k
      BY <1>1, <2>2 DEF Holds
    <3>2. i + 1 \in 1..Len(queue) /\ queue[i + 1] = k
      BY <1>1, <3>1
    <3> QED BY <1>1, <3>2 DEF Holds
  <2> QED BY <1>3, <2>1, <2>2
<1> QED BY <1>1, <1>2, <1>3

\* The kernel's queue grows to one event more than its length, for overflow only.
QueueInv ==
  /\ fsQueue \in Seq(FileEvents)
  /\ Len(fsQueue) <= MaxQueue + 1
  /\ Len(fsQueue) > MaxQueue => Holds(fsQueue, "overflow")

\* The kernel queues an event while there is room, and beyond that one overflow.
LEMMA FileEventKeepsQueueInv ==
  ASSUME QueueInv, NEW kind \in FileEvents, FileEvent(kind)
  PROVE  QueueInv'
<1> USE DEF QueueInv
<1>1. MaxQueue \in Nat /\ Len(fsQueue) \in Nat
  BY NotifierAssumption
<1>2. CASE UNCHANGED fsQueue
  BY <1>2
<1>3. CASE Len(fsQueue) < MaxQueue /\ fsQueue' = Append(fsQueue, kind)
  BY <1>1, <1>3, AppendFacts
<1>4. CASE ~Holds(fsQueue, "overflow") /\ fsQueue' = Append(fsQueue, "overflow")
  <2>1. "overflow" \in FileEvents
    BY DEF FileEvents
  <2>2. /\ fsQueue' \in Seq(FileEvents)
        /\ Len(fsQueue') = Len(fsQueue) + 1
        /\ Holds(fsQueue', "overflow")
    BY <1>4, <2>1, AppendFacts
  <2> QED BY <1>1, <1>4, <2>2
<1> QED BY <1>2, <1>3, <1>4 DEF FileEvent, Holds

\* A read leaves the queue no longer than the kernel allows.
LEMMA ReadKeepsQueueInv ==
  ASSUME QueueInv, fsQueue # <<>>, fsQueue' = Tail(fsQueue)
  PROVE  QueueInv'
<1>1. MaxQueue \in Nat /\ Len(fsQueue) \in Nat
  BY NotifierAssumption DEF QueueInv
<1> QED BY <1>1, TailFacts DEF QueueInv

-----------------------------------------------------------------------------
(* What is published.                                                      *)

\* The policy derived from a configuration is one the API defines.
LEMMA DetectType ==
  ASSUME NEW policy, NEW scope
  PROVE  DetectTopologyPolicy(policy, scope) \in PolicyNames
BY DEF DetectTopologyPolicy, DetectPolicyPodScope, DetectPolicyContainerScope,
       PolicyNames

\* Merging two attribute lists gives an attribute list.
LEMMA UpdateType ==
  ASSUME NEW lhs \in Attributes, NEW rhs \in Attributes
  PROVE  UpdateAttributes(lhs, rhs) \in Attributes
BY DEF UpdateAttributes, UpdateAttribute, Attributes

\* Reading the configuration keeps an object, or its content, what it is.
LEMMA ConfigureFacts ==
  ASSUME NEW nrt \in Contents \cup Objects, NEW config \in KubeletConfigs \cup {Absent}
  PROVE  /\ nrt \in Contents => Configure(nrt, config) \in Contents
         /\ nrt \in Objects => Configure(nrt, config) \in Objects
         /\ Configure(nrt, config).zones = nrt.zones
<1>1. CASE config = Absent
  BY <1>1 DEF Configure
<1>2. CASE config # Absent
  <2> DEFINE attributes == UpdateAttributes(nrt.attributes, CreateTopologyAttributes(config))
             policy == DetectTopologyPolicy(config.policy, config.scope)
  <2>1. /\ config.policy \in STRING /\ config.scope \in STRING
    BY <1>2, NRTAssumption
  <2>2. CreateTopologyAttributes(config) \in Attributes
    BY <2>1 DEF CreateTopologyAttributes, NoAttributes, Attributes
  <2>3. nrt.attributes \in Attributes
    BY DEF Contents, Objects
  <2>4. attributes \in Attributes
    BY <2>2, <2>3, UpdateType
  <2>5. policy \in PolicyNames
    BY DetectType
  <2>6. Configure(nrt, config) = [nrt EXCEPT !.attributes = attributes,
                                             !.topologyPolicies = policy]
    BY <1>2 DEF Configure, UpdateNRTTopologyManagerInfo
  <2> HIDE DEF attributes, policy
  <2> QED BY <2>4, <2>5, <2>6 DEF Contents, Objects
<1> QED BY <1>1, <1>2

\* What is published has the zones of the scan.
LEMMA MutationFacts ==
  ASSUME NEW nrt \in Contents \cup Objects, NEW s \in Scans,
         NEW config \in KubeletConfigs \cup {Absent}
  PROVE  /\ nrt \in Contents => Mutation(nrt, s, config) \in Contents
         /\ nrt \in Objects => Mutation(nrt, s, config) \in Objects
         /\ Mutation(nrt, s, config).zones = s.zones
<1> DEFINE copy == CopyWithZones(nrt, s.zones)
           configured == Configure(copy, config)
           attributes == UpdateAttributes(configured.attributes,
                                          ScanAttributes(s.fingerprint))
<1>1. /\ nrt \in Contents => copy \in Contents
      /\ nrt \in Objects => copy \in Objects
      /\ copy.zones = s.zones
  BY DEF CopyWithZones, Contents, Objects, Scans
<1> HIDE DEF copy
<1>2. /\ nrt \in Contents => configured \in Contents
      /\ nrt \in Objects => configured \in Objects
      /\ configured.zones = s.zones
  BY <1>1, ConfigureFacts
<1>3. Mutation(nrt, s, config) = [configured EXCEPT !.attributes = attributes]
  BY DEF Mutation, MergeScan, copy
<1> HIDE DEF configured
<1>4. ScanAttributes(s.fingerprint) \in Attributes
  BY DEF ScanAttributes, NoAttributes, Attributes, Scans
<1>5. configured.attributes \in Attributes
  BY <1>2 DEF Contents, Objects
<1>6. attributes \in Attributes
  BY <1>4, <1>5, UpdateType
<1> HIDE DEF attributes
<1> QED BY <1>2, <1>3, <1>6 DEF Contents, Objects

\* The content of an object is its fields but the version.
LEMMA ContentFacts ==
  ASSUME NEW nrt \in Objects
  PROVE  Content(nrt) \in Contents /\ Content(nrt).zones = nrt.zones
BY DEF Content, Objects, Contents

\* A new object is an object.
LEMMA NewObjectType ==
  ASSUME NEW zones \in Versions
  PROVE  NewObject(zones) \in Objects
BY DEF NewObject, NoAttributes, Objects, Attributes, Versions

\* What a publication leaves at the API server is an object with the zones of the scan.
LEMMA PublishedFacts ==
  ASSUME object \in Contents \cup {NoObject}, scan \in Scans, kubeletConfig \in KubeletConfigs
  PROVE  /\ Published \in Contents
         /\ Published.zones = scan.zones
<1>1. CASE object = NoObject
  <2>1. NewObject(scan.zones) \in Objects
    BY NewObjectType DEF Scans
  <2>2. /\ Mutation(NewObject(scan.zones), scan, kubeletConfig) \in Objects
        /\ Mutation(NewObject(scan.zones), scan, kubeletConfig).zones = scan.zones
    BY <2>1, MutationFacts
  <2> QED BY <1>1, <2>2, ContentFacts DEF Published
<1>2. CASE object # NoObject
  <2> DEFINE config == IF event = "IntervalBased" THEN kubeletConfig ELSE Absent
  <2>1. config \in KubeletConfigs \cup {Absent}
    OBVIOUS
  <2>2. Published = Mutation(object, scan, config)
    BY <1>2 DEF Published
  <2> HIDE DEF config
  <2> QED BY <1>2, <2>1, <2>2, MutationFacts
<1> QED BY <1>1, <1>2

-----------------------------------------------------------------------------
(* Types.                                                                  *)

\* TypeOK is inductive with the reason why the queue has its length.
TypeInv == TypeOK /\ QueueInv

\* A process starts with nothing queued.
LEMMA TypeInit == Init => TypeInv
<1> SUFFICES ASSUME Init PROVE TypeInv
  OBVIOUS
<1> USE DEF Init, NotifierInit
<1>1. <<>> \in Seq(FileEvents) /\ Len(<<>>) = 0
  OBVIOUS
<1>2. MaxQueue \in Nat /\ MaxAlloc \in Nat /\ MaxPods \in Nat /\ MaxFailures \in Nat
  BY NotifierAssumption, UpdaterAssumption
<1>3. QueueInv
  BY <1>1, <1>2 DEF QueueInv
<1>4. NotifierTypeOK
  BY <1>3 DEF NotifierTypeOK, QueueInv
<1>5. scan \in Scans
  BY DEF NoScan, Scans, Versions
<1>6. node \in [alloc : 0..MaxAlloc, pods : 0..MaxPods]
  BY <1>2
<1>7. failures \in 0..MaxFailures
  BY <1>2
<1> HIDE DEF NotifierInit
<1> QED BY <1>3, <1>4, <1>5, <1>6, <1>7 DEF TypeInv, TypeOK

\* The notifier's variables, typed.
LEMMA NotifierKeepsTypes ==
  ASSUME TypeInv, UNCHANGED args, QueueInv',
         ticker' \in BOOLEAN, watcher' \in {"reading", "stuck"},
         notifier' \in {"select", "IntervalBased", "FSUpdate"}
  PROVE  NotifierTypeOK'
BY DEF TypeInv, TypeOK, QueueInv, NotifierTypeOK

\* A file event keeps the notifier's types.
LEMMA FileEventTypes ==
  ASSUME TypeInv, UNCHANGED args, NEW kind \in FileEvents, FileEvent(kind)
  PROVE  NotifierTypeOK' /\ QueueInv'
<1>1. QueueInv'
  BY FileEventKeepsQueueInv DEF TypeInv
<1>2. UNCHANGED <<ticker, watcher, notifier>>
  BY DEF FileEvent
<1> QED BY <1>1, <1>2, NotifierKeepsTypes DEF TypeInv, TypeOK, NotifierTypeOK

\* The notifier's steps keep all types.
LEMMA NotifierTypes ==
  ASSUME TypeInv, Notifier(NotifierStep)
  PROVE  TypeInv'
<1> USE DEF Notifier, loopVars, worldVars
<1>1. QueueInv /\ fsQueue \in Seq(FileEvents)
  BY DEF TypeInv, QueueInv
<1>2. /\ ticker \in BOOLEAN /\ watcher \in {"reading", "stuck"}
      /\ notifier \in {"select", "IntervalBased", "FSUpdate"}
  BY DEF TypeInv, TypeOK, NotifierTypeOK
<1>3. NotifierTypeOK' /\ QueueInv'
  <2>1. CASE Tick
    <3>1. QueueInv'
      BY <1>1, <2>1 DEF Tick, QueueInv
    <3> QED BY <1>2, <2>1, <3>1, NotifierKeepsTypes DEF Tick
  <2>2. CASE WatcherError
    <3>1. QueueInv'
      BY <1>1, <2>2, ReadKeepsQueueInv DEF WatcherError
    <3> QED BY <1>2, <2>2, <3>1, NotifierKeepsTypes DEF WatcherError
  <2>3. CASE ReceiveTick
    <3>1. QueueInv'
      BY <1>1, <2>3 DEF ReceiveTick, QueueInv
    <3> QED BY <1>2, <2>3, <3>1, NotifierKeepsTypes DEF ReceiveTick
  <2>4. CASE ReceiveFS
    <3>1. QueueInv'
      BY <1>1, <2>4, ReadKeepsQueueInv DEF ReceiveFS
    <3> QED BY <1>2, <2>4, <3>1, NotifierKeepsTypes DEF ReceiveFS
  <2> QED BY <2>1, <2>2, <2>3, <2>4 DEF NotifierStep
<1> QED BY <1>3 DEF TypeInv, TypeOK

\* A step of the loop that leaves the notifier and the node alone.
LEMMA LoopKeepsTypes ==
  ASSUME TypeInv, UNCHANGED <<args, notifierVars, node, kubeletConfig>>,
         object' \in Contents \cup {NoObject},
         pc' \in {"prepare", "select", "scan", "publish", "returned", "exited"},
         event' \in {"none", "IntervalBased", "FSUpdate"},
         scan' \in Scans, stop' \in BOOLEAN,
         UNCHANGED failures \/ Fail
  PROVE  TypeInv'
<1>1. failures' \in 0..MaxFailures
  BY UpdaterAssumption DEF TypeInv, TypeOK, Fail
<1>2. NotifierTypeOK' /\ QueueInv'
  BY DEF TypeInv, TypeOK, NotifierTypeOK, QueueInv, notifierVars
<1> QED BY <1>1, <1>2 DEF TypeInv, TypeOK

\* An event that is handled leaves no event and no scan.
LEMMA ForgetTypes ==
  ASSUME Forget
  PROVE  event' \in {"none", "IntervalBased", "FSUpdate"} /\ scan' \in Scans
BY DEF Forget, NoScan, Scans, Versions

\* The loop's steps, crashes and restarts keep all types.
LEMMA LoopTypes ==
  ASSUME TypeInv, Loop
  PROVE  TypeInv'
<1> USE DEF loopVars, worldVars
<1>1. /\ object \in Contents \cup {NoObject}
      /\ pc \in {"prepare", "select", "scan", "publish", "returned", "exited"}
      /\ event \in {"none", "IntervalBased", "FSUpdate"}
      /\ scan \in Scans /\ stop \in BOOLEAN /\ kubeletConfig \in KubeletConfigs
  BY DEF TypeInv, TypeOK
<1>2. CASE Prepare
  BY <1>1, <1>2, LoopKeepsTypes DEF Prepare
<1>3. CASE ReceiveEvent
  <2>1. PICK info \in {"IntervalBased", "FSUpdate"} : Send(info) /\ event' = info
    BY <1>3 DEF ReceiveEvent
  <2>2. QueueInv'
    BY <2>1 DEF Send, TypeInv, QueueInv
  <2>3. /\ ticker' \in BOOLEAN /\ watcher' \in {"reading", "stuck"}
        /\ notifier' \in {"select", "IntervalBased", "FSUpdate"}
    BY <2>1 DEF Send, TypeInv, TypeOK, NotifierTypeOK
  <2>4. NotifierTypeOK'
    BY <1>3, <2>2, <2>3, NotifierKeepsTypes DEF ReceiveEvent
  <2> QED BY <1>1, <1>3, <2>1, <2>2, <2>4 DEF ReceiveEvent, TypeInv, TypeOK
<1>4. CASE ReceiveStop
  BY <1>1, <1>4, LoopKeepsTypes DEF ReceiveStop
<1>5. CASE Scan
  <2>1. NodeScan \in Scans
    BY UpdaterAssumption DEF TypeInv, TypeOK, NodeScan, Scans, Versions
  <2>2. /\ event' \in {"none", "IntervalBased", "FSUpdate"}
        /\ scan' \in Scans
        /\ pc' \in {"publish", "select", "returned"}
    BY <1>1, <1>5, <2>1, ForgetTypes DEF Scan, AfterRequest
  <2>3. UNCHANGED failures \/ Fail
    BY <1>5 DEF Scan
  <2> QED BY <1>1, <1>5, <2>2, <2>3, LoopKeepsTypes DEF Scan
<1>6. CASE Publish
  <2>1. Published \in Contents
    BY <1>1, PublishedFacts
  <2>2. /\ object' \in Contents \cup {NoObject}
        /\ pc' \in {"select", "returned", "exited"}
        /\ UNCHANGED failures \/ Fail
    BY <1>1, <1>6, <2>1 DEF Publish, AfterRequest
  <2> QED BY <1>1, <1>6, <2>2, ForgetTypes, LoopKeepsTypes DEF Publish
<1>7. CASE Stop
  BY <1>1, <1>7, LoopKeepsTypes DEF Stop
<1>8. CASE Crash
  BY <1>1, <1>8, ForgetTypes, LoopKeepsTypes DEF Crash
<1>9. CASE Restart
  <2>1. QueueInv'
    <3>1. <<>> \in Seq(FileEvents) /\ Len(<<>>) = 0
      OBVIOUS
    <3>2. MaxQueue \in Nat
      BY NotifierAssumption
    <3> QED BY <1>9, <3>1, <3>2 DEF Restart, NotifierRestart, QueueInv
  <2>2. NotifierTypeOK'
    BY <1>9, <2>1, NotifierKeepsTypes DEF Restart, NotifierRestart
  <2> QED BY <1>1, <1>9, <2>1, <2>2 DEF Restart, TypeInv, TypeOK
<1> QED BY <1>2, <1>3, <1>4, <1>5, <1>6, <1>7, <1>8, <1>9 DEF Loop

\* What the kubelet, users and other clients do keeps all types.
LEMMA WorldTypes ==
  ASSUME TypeInv, World
  PROVE  TypeInv'
<1> USE DEF loopVars, worldVars
<1>1. "state" \in FileEvents /\ "other" \in FileEvents
  BY DEF FileEvents
<1>2. CASE AllocationChange
  <2>1. NotifierTypeOK' /\ QueueInv'
    BY <1>1, <1>2, FileEventTypes DEF AllocationChange
  <2>2. node' \in [alloc : 0..MaxAlloc, pods : 0..MaxPods]
    BY <1>2, UpdaterAssumption DEF AllocationChange, TypeInv, TypeOK
  <2> QED BY <1>2, <2>1, <2>2 DEF AllocationChange, TypeInv, TypeOK
<1>3. CASE PodChange
  <2>1. node' \in [alloc : 0..MaxAlloc, pods : 0..MaxPods]
    BY <1>3, UpdaterAssumption DEF PodChange, TypeInv, TypeOK
  <2>2. NotifierTypeOK' /\ QueueInv'
    BY <1>3 DEF PodChange, TypeInv, TypeOK, NotifierTypeOK, QueueInv, notifierVars
  <2> QED BY <1>3, <2>1, <2>2 DEF PodChange, TypeInv, TypeOK
<1>4. CASE OtherFileChange
  <2>1. NotifierTypeOK' /\ QueueInv'
    BY <1>1, <1>4, FileEventTypes DEF OtherFileChange
  <2> QED BY <1>4, <2>1 DEF OtherFileChange, TypeInv, TypeOK
<1>5. CASE KubeletConfigChange
  <2>1. NotifierTypeOK' /\ QueueInv'
    BY <1>5 DEF KubeletConfigChange, TypeInv, TypeOK, NotifierTypeOK, QueueInv, notifierVars
  <2> QED BY <1>5, <2>1 DEF KubeletConfigChange, TypeInv, TypeOK
<1>6. CASE Delete
  BY <1>6, LoopKeepsTypes DEF Delete, TypeInv, TypeOK
<1>7. CASE Create
  <2>1. NewObject(0) \in Objects
    BY NewObjectType DEF Versions
  <2>2. object' \in Contents
    BY <1>7, <2>1, ContentFacts DEF Create
  <2> QED BY <1>7, <2>2, LoopKeepsTypes DEF Create, TypeInv, TypeOK
<1> QED BY <1>2, <1>3, <1>4, <1>5, <1>6, <1>7 DEF World

\* No step disturbs a type.
LEMMA TypeStep == TypeInv /\ [Next]_vars => TypeInv'
<1> SUFFICES ASSUME TypeInv, [Next]_vars PROVE TypeInv'
  OBVIOUS
<1>1. CASE UNCHANGED vars
  BY <1>1 DEF vars, loopVars, worldVars, notifierVars, TypeInv, TypeOK, NotifierTypeOK,
              QueueInv
<1> QED BY <1>1, NotifierTypes, LoopTypes, WorldTypes DEF Next

\* Every variable of the loop and the notifier keeps its type; the kernel's queue never
\* holds more than its length and the one overflow event (topologyUpdater.Run,
\* Notifier.Run).
THEOREM TypeOKHolds == Spec => []TypeOK
<1>1. TypeInv => TypeOK
  BY DEF TypeInv
<1> QED BY <1>1, TypeInit, TypeStep, PTL DEF Spec

-----------------------------------------------------------------------------
(* Wakeups.                                                                *)

\* A state file's event that the loop has not taken yet.
FileEventPending == Holds(fsQueue, "state") \/ notifier = "FSUpdate"

\* A daemon whose file watcher has lost nothing and that has met no failure.
Watching ==
  /\ Alive /\ args.kubeletStateDir /\ ~args.noPublish
  /\ failures = 0 /\ watcher = "reading"
  /\ ~Holds(fsQueue, "overflow")

\* What NoLostWakeup rests on: an event is pending not only while the object is
\* behind, but while a scan is about to be published that is; and a process that
\* ended before its loop did has failed.
WakeupInv ==
  /\ pc = "exited" => failures # 0
  /\ Watching /\ pc \in {"prepare", "select"} /\ node.alloc > 0 /\ Behind
       => FileEventPending
  /\ Watching /\ pc = "publish"
       => scan.zones = node.alloc \/ FileEventPending

\* Before the first allocation there is nothing to wake up for.
LEMMA WakeupInit == Init => WakeupInv
BY DEF Init, WakeupInv

\* After a failure nothing is promised.
LEMMA FailureKeepsWakeupInv ==
  ASSUME TypeInv, Fail
  PROVE  WakeupInv'
<1>1. failures' # 0
  BY UpdaterAssumption DEF Fail, TypeInv, TypeOK
<1> QED BY <1>1 DEF WakeupInv, Watching

\* A step of the notifier or the world that loses no file event.
LEMMA EventsKeepWakeupInv ==
  ASSUME WakeupInv, UNCHANGED <<args, pc, scan, failures, object>>,
         node'.alloc = node.alloc,
         Watching' => /\ Watching
                      /\ FileEventPending => FileEventPending'
  PROVE  WakeupInv'
BY DEF WakeupInv, Behind

\* The notifier takes a state file's event from the queue only to send it.
LEMMA NotifierWakeup ==
  ASSUME TypeInv, WakeupInv, Notifier(NotifierStep)
  PROVE  WakeupInv'
<1> USE DEF Notifier, loopVars, worldVars, Watching, FileEventPending, Alive
<1>1. fsQueue \in Seq(FileEvents)
  BY DEF TypeInv, QueueInv
<1>2. CASE Tick
  BY <1>2, EventsKeepWakeupInv DEF Tick
<1>3. CASE WatcherError
  BY <1>3, EventsKeepWakeupInv DEF WatcherError
<1>4. CASE ReceiveTick
  BY <1>4, EventsKeepWakeupInv DEF ReceiveTick
<1>5. CASE ReceiveFS
  <2>1. /\ UNCHANGED watcher /\ notifier = "select"
        /\ fsQueue # <<>> /\ Head(fsQueue) # "overflow"
        /\ fsQueue' = Tail(fsQueue)
        /\ notifier' = IF Head(fsQueue) = "state" THEN "FSUpdate" ELSE "select"
    BY <1>5 DEF ReceiveFS
  <2>2. Holds(fsQueue, "overflow") <=> Holds(fsQueue', "overflow")
    BY <1>1, <2>1, TailFacts
  <2>3. Holds(fsQueue, "state") <=> Head(fsQueue) = "state" \/ Holds(fsQueue', "state")
    BY <1>1, <2>1, TailFacts
  <2> QED BY <2>1, <2>2, <2>3, EventsKeepWakeupInv
<1> QED BY <1>2, <1>3, <1>4, <1>5 DEF NotifierStep

\* A file event that is queued without an overflow leaves the others where they are.
LEMMA FileEventQueued ==
  ASSUME TypeInv, UNCHANGED <<args, pc, failures>>, NEW kind \in {"state", "other"},
         FileEvent(kind), Watching'
  PROVE  /\ Watching
         /\ FileEventPending => FileEventPending'
         /\ kind = "state" => FileEventPending'
<1> USE DEF Watching, FileEventPending, Alive
<1>1. /\ fsQueue \in Seq(FileEvents) /\ kind \in FileEvents
      /\ "overflow" \in FileEvents
  BY DEF TypeInv, QueueInv, FileEvents
<1>2. args.kubeletStateDir /\ UNCHANGED <<watcher, notifier>>
  BY DEF FileEvent
<1>3. CASE fsQueue' = Append(fsQueue, kind)
  <2>1. \A k : Holds(fsQueue', k) <=> Holds(fsQueue, k) \/ k = kind
    BY <1>1, <1>3, AppendFacts
  <2> QED BY <1>2, <2>1
<1>4. CASE Holds(fsQueue, "overflow") /\ UNCHANGED fsQueue
  BY <1>4
<1>5. CASE fsQueue' = Append(fsQueue, "overflow")
  <2>1. Holds(fsQueue', "overflow")
    BY <1>1, <1>5, AppendFacts
  <2> QED BY <2>1
<1> QED BY <1>2, <1>3, <1>4, <1>5 DEF FileEvent, Holds

\* The loop consumes an event only to scan the node afterwards, and publishes an old scan
\* only while a newer event is pending.
LEMMA LoopWakeup ==
  ASSUME TypeInv, WakeupInv, Loop
  PROVE  WakeupInv'
<1> USE DEF loopVars, worldVars, notifierVars
<1>1. /\ object \in Contents \cup {NoObject} /\ scan \in Scans
      /\ kubeletConfig \in KubeletConfigs
      /\ node.alloc \in Nat
  BY UpdaterAssumption DEF TypeInv, TypeOK
<1>2. CASE Fail
  BY <1>2, FailureKeepsWakeupInv
<1>3. CASE Prepare /\ ~Fail
  BY <1>3 DEF Prepare, WakeupInv, Watching, Alive, Behind, FileEventPending
<1>4. CASE ReceiveEvent
  BY <1>4 DEF ReceiveEvent, WakeupInv, Watching
<1>5. CASE ReceiveStop
  BY <1>5 DEF ReceiveStop, WakeupInv, Watching, Alive
<1>6. CASE Scan /\ ~Fail
  <2>1. CASE args.noPublish
    BY <1>6, <2>1 DEF Scan, AfterRequest, WakeupInv, Watching
  <2>2. CASE ~args.noPublish
    <3>1. scan' = NodeScan /\ pc' = "publish" /\ UNCHANGED node
      BY <1>6, <2>2 DEF Scan
    <3> QED BY <3>1 DEF WakeupInv, NodeScan
  <2> QED BY <2>1, <2>2
<1>7. CASE Publish /\ ~Fail
  <2>1. /\ object' = Published /\ pc = "publish" /\ pc' \in {"select", "returned"}
        /\ UNCHANGED <<args, node, failures, fsQueue, watcher, notifier>>
    BY <1>7 DEF Publish, AfterRequest
  <2>2. object' # NoObject /\ object'.zones = scan.zones
    BY <1>1, <2>1, PublishedFacts, NRTAssumption
  <2>3. ASSUME Watching', Behind' PROVE FileEventPending'
    <3>1. Watching
      BY <2>1, <2>3 DEF Watching, Alive
    <3>2. scan.zones = node.alloc \/ FileEventPending
      BY <2>1, <3>1 DEF WakeupInv
    <3>3. scan.zones < node.alloc
      BY <2>1, <2>2, <2>3 DEF Behind
    <3>4. FileEventPending
      BY <1>1, <3>2, <3>3
    <3> QED BY <2>1, <3>4 DEF FileEventPending
  <2> QED BY <2>1, <2>3 DEF WakeupInv
<1>8. CASE Stop
  BY <1>8 DEF Stop, WakeupInv, Watching, Alive, Behind, FileEventPending
<1>9. CASE Crash
  BY <1>2, <1>9 DEF Crash
<1>10. CASE Restart
  BY <1>10 DEF Restart, WakeupInv, Watching
<1> QED BY <1>2, <1>3, <1>4, <1>5, <1>6, <1>7, <1>8, <1>9, <1>10 DEF Loop

\* An allocation queues an event, and nothing else of the world takes one away.
LEMMA WorldWakeup ==
  ASSUME TypeInv, WakeupInv, World
  PROVE  WakeupInv'
<1> USE DEF loopVars, worldVars
<1>1. CASE AllocationChange
  <2>1. /\ FileEvent("state") /\ UNCHANGED <<args, pc, failures>>
    BY <1>1 DEF AllocationChange
  <2>2. Watching' => FileEventPending'
    BY <2>1, FileEventQueued
  <2>3. pc' = "exited" => failures' # 0
    BY <2>1 DEF WakeupInv
  <2> QED BY <2>2, <2>3 DEF WakeupInv
<1>2. CASE PodChange
  <2>1. node'.alloc = node.alloc
    BY <1>2 DEF PodChange, TypeInv, TypeOK
  <2> QED BY <1>2, <2>1, EventsKeepWakeupInv
          DEF PodChange, Watching, Alive, FileEventPending, notifierVars
<1>3. CASE OtherFileChange
  <2>1. FileEvent("other") /\ UNCHANGED <<args, pc, scan, failures, object, node>>
    BY <1>3 DEF OtherFileChange
  <2>2. Watching' => Watching /\ (FileEventPending => FileEventPending')
    BY <2>1, FileEventQueued
  <2> QED BY <2>1, <2>2, EventsKeepWakeupInv
<1>4. CASE KubeletConfigChange
  BY <1>4, EventsKeepWakeupInv
     DEF KubeletConfigChange, Watching, Alive, FileEventPending, notifierVars
<1>5. CASE Delete \/ Create
  BY <1>5, FailureKeepsWakeupInv DEF Delete, Create
<1> QED BY <1>1, <1>2, <1>3, <1>4, <1>5 DEF World

\* No step disturbs WakeupInv.
LEMMA WakeupStep == TypeInv /\ WakeupInv /\ [Next]_vars => WakeupInv'
<1> SUFFICES ASSUME TypeInv, WakeupInv, [Next]_vars PROVE WakeupInv'
  OBVIOUS
<1>1. CASE UNCHANGED vars
  BY <1>1 DEF vars, loopVars, worldVars, notifierVars, WakeupInv, Watching, Alive, Behind,
              FileEventPending
<1> QED BY <1>1, NotifierWakeup, LoopWakeup, WorldWakeup DEF Next

\* While nothing has failed or overflowed, an object behind an allocation means that the
\* event of the state file is on its way, or a scan that saw it (Notifier.Run,
\* topologyUpdater.Run).
THEOREM NoLostWakeupHolds == Spec => []NoLostWakeup
<1>1. TypeInv /\ WakeupInv => NoLostWakeup
  <2> SUFFICES ASSUME TypeInv, WakeupInv, Watching, node.alloc > 0, Behind
               PROVE  WakeupPending
    BY DEF NoLostWakeup, Watching, Holds
  <2>1. pc \in {"prepare", "select", "scan", "publish"}
    BY DEF TypeInv, TypeOK, Watching, Alive
  <2> QED BY <2>1 DEF WakeupInv, WakeupPending, FileEventPending, Holds
<1> QED BY <1>1, TypeInit, TypeStep, WakeupInit, WakeupStep, PTL DEF Spec

=============================================================================
