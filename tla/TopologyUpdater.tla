-------------------------- MODULE TopologyUpdater --------------------------
(***************************************************************************)
(* One updater process: the loop of topologyUpdater.Run fed by the         *)
(* notifier, on a node whose allocation and pods change, with failures and *)
(* restarts.  Publication is one step, as Publisher is proved to implement *)
(* (NRTStore): it may fail, before or after it took effect.                *)
(***************************************************************************)
EXTENDS KubeletNotifier, NRT

CONSTANTS
  MaxAlloc,   \* bound: changes of the kubelet's allocation state
  MaxPods,    \* bound: changes of the pod list alone
  EmptyPods,  \* versions of the pod list that have no pod
  MaxFailures \* bound: failed scans and publications, crashes, objects deleted or made

ASSUME UpdaterAssumption ==
  /\ MaxAlloc \in Nat /\ MaxPods \in Nat /\ MaxFailures \in Nat
  /\ EmptyPods \subseteq Nat

VARIABLES
  node,          \* versions [alloc, pods] of what the kubelet reports
  kubeletConfig, \* what kubeletConfigFunc would return now
  object,        \* the published object, Contents or NoObject
  pc,            \* where the loop is
  event,         \* the kind of event it handles
  scan,          \* the result of its scan
  stop,          \* the buffered stop channel holds a request
  failures       \* how many failures there have been

loopVars == <<pc, event, scan, stop>>
worldVars == <<node, kubeletConfig, object, failures>>
vars == <<args, notifierVars, loopVars, worldVars>>

\* A fingerprint is computed when it is asked for and there is a pod.
NodeScan ==
  [zones       |-> node.alloc,
   fingerprint |-> IF args.podsFingerprint /\ node.pods \notin EmptyPods
                     THEN node.pods ELSE Absent]

NoScan == [zones |-> 0, fingerprint |-> 0]

Init ==
  /\ args \in Configurations
  /\ NotifierInit
  /\ pc = "prepare"
  /\ event = "none"
  /\ scan = NoScan
  /\ stop = FALSE
  /\ node = [alloc |-> 0, pods |-> 0]
  /\ kubeletConfig \in KubeletConfigs
  /\ object = NoObject
  /\ failures = 0

Fail == failures < MaxFailures /\ failures' = failures + 1

-----------------------------------------------------------------------------
(* The loop.                                                               *)

\* The variables of the event handled go out of scope.
Forget == event' = "none" /\ scan' = NoScan

\* Fault: the one-shot check sits inside the branch that publishes.
AfterPublication == IF args.oneshot /\ ~args.noPublish THEN "returned" ELSE "select"

\* After a request, a one-shot process is done; a daemon selects again.
AfterRequest == IF args.oneshot THEN "returned" ELSE "select"

\* Run before its loop: clients, configuration file, scanner, and the tables of the
\* aggregator.  The notifier runs already.
Prepare ==
  /\ pc = "prepare"
  /\ \/ pc' = "select" /\ UNCHANGED failures
     \/ pc' = "exited" /\ Fail
  /\ UNCHANGED <<args, event, scan, stop, notifierVars, node, kubeletConfig, object>>

\* case info := <-w.eventSource
ReceiveEvent ==
  /\ pc = "select"
  /\ \E info \in {"IntervalBased", "FSUpdate"} : Send(info) /\ event' = info
  /\ pc' = "scan"
  /\ UNCHANGED <<args, scan, stop, worldVars>>

\* Fault: a break where a return is meant leaves the select only.
ReceiveStopBreak ==
  /\ pc = "select"
  /\ stop
  /\ stop' = FALSE
  /\ pc' = "select"
  /\ UNCHANGED <<args, event, scan, notifierVars, worldVars>>

\* case <-w.stop
ReceiveStop ==
  /\ pc = "select"
  /\ stop
  /\ stop' = FALSE
  /\ pc' = "returned"
  /\ UNCHANGED <<args, event, scan, notifierVars, worldVars>>

\* Scan and Aggregate.  A failed scan goes back to the select, one-shot or not.
Scan ==
  /\ pc = "scan"
  /\ \/ /\ ~args.noPublish
        /\ scan' = NodeScan
        /\ pc' = "publish"
        /\ UNCHANGED <<event, failures>>
     \/ /\ args.noPublish
        /\ pc' = AfterRequest
        /\ Forget
        /\ UNCHANGED failures
     \/ /\ Fail
        /\ pc' = "select"
        /\ Forget
  /\ UNCHANGED <<args, stop, notifierVars, node, kubeletConfig, object>>

\* Fault: the configuration is read for a new object only.
PublishedConfigOnce ==
  IF object = NoObject
    THEN Content(Mutation(NewObject(scan.zones), scan, kubeletConfig))
    ELSE Mutation(object, scan, Absent)

\* The configuration is read on interval events and for a new object.
Published ==
  IF object = NoObject
    THEN Content(Mutation(NewObject(scan.zones), scan, kubeletConfig))
    ELSE Mutation(object, scan,
                  IF event = "IntervalBased" THEN kubeletConfig ELSE Absent)

\* updateNodeResourceTopology: any error ends Run, hence the process, whether or
\* not the write took effect.
Publish ==
  /\ pc = "publish"
  /\ \/ /\ object' = Published
        /\ pc' = AfterRequest
        /\ UNCHANGED failures
     \/ /\ Fail
        /\ object' \in {object, Published}
        /\ pc' = "exited"
  /\ Forget
  /\ UNCHANGED <<args, stop, notifierVars, node, kubeletConfig>>

\* Stop, from any goroutine: a send that a full buffer discards.
Stop ==
  /\ ~stop
  /\ pc \notin {"returned", "exited"}
  /\ stop' = TRUE
  /\ UNCHANGED <<args, pc, event, scan, notifierVars, worldVars>>

Crash ==
  /\ pc \notin {"returned", "exited"}
  /\ Fail
  /\ pc' = "exited"
  /\ Forget
  /\ UNCHANGED <<args, stop, notifierVars, node, kubeletConfig, object>>

\* The daemon's restart policy is Always: a new process, nothing kept.
Restart ==
  /\ pc = "exited"
  /\ ~args.oneshot
  /\ NotifierRestart
  /\ pc' = "prepare"
  /\ stop' = FALSE
  /\ UNCHANGED <<args, event, scan, worldVars>>

-----------------------------------------------------------------------------
(* The node and the other clients of the API server.                       *)

\* The kubelet allocates or frees resources: its pod resources API reports it
\* and a state file is written, in this order, so that one step loses nothing.
AllocationChange ==
  /\ node.alloc < MaxAlloc
  /\ node' = [node EXCEPT !.alloc = @ + 1]
  /\ FileEvent("state")
  /\ UNCHANGED <<args, loopVars, kubeletConfig, object, failures>>

\* A pod without exclusive resources comes or goes: no state file is written.
PodChange ==
  /\ node.pods < MaxPods
  /\ node' = [node EXCEPT !.pods = @ + 1]
  /\ UNCHANGED <<args, notifierVars, loopVars, kubeletConfig, object, failures>>

OtherFileChange ==
  /\ args.kubeletStateDir
  /\ FileEvent("other")
  /\ UNCHANGED <<args, loopVars, worldVars>>

KubeletConfigChange ==
  /\ kubeletConfig' \in KubeletConfigs \ {kubeletConfig}
  /\ UNCHANGED <<args, notifierVars, loopVars, node, object, failures>>

Delete ==
  /\ object # NoObject
  /\ Fail
  /\ object' = NoObject
  /\ UNCHANGED <<args, notifierVars, loopVars, node, kubeletConfig>>

\* Another client makes the object, without zones or attributes.
Create ==
  /\ object = NoObject
  /\ Fail
  /\ object' = Content(NewObject(0))
  /\ UNCHANGED <<args, notifierVars, loopVars, node, kubeletConfig>>

Loop == Prepare \/ ReceiveEvent \/ ReceiveStop \/ Scan \/ Publish \/ Stop \/ Crash \/ Restart

World ==
  AllocationChange \/ PodChange \/ OtherFileChange \/ KubeletConfigChange \/ Delete \/ Create

\* The notifier runs in the process of the loop.
Alive == pc \notin {"returned", "exited"}

Notifier(step) == Alive /\ step /\ UNCHANGED <<args, loopVars, worldVars>>

Next == Notifier(NotifierStep) \/ Loop \/ World

\* Ticks come, the watcher and the loop run, API calls are answered.  Each of
\* the two selects takes a case that is ready again and again: Go chooses among
\* the ready cases at random.  Nothing is assumed of Stop, of failures, or of
\* the node and the other clients.
Fairness ==
  /\ WF_vars(Notifier(Tick)) /\ WF_vars(Notifier(WatcherError))
  /\ SF_vars(Notifier(ReceiveTick)) /\ SF_vars(Notifier(ReceiveFS))
  /\ SF_vars(ReceiveEvent) /\ SF_vars(ReceiveStop)
  /\ WF_vars(Prepare) /\ WF_vars(Scan) /\ WF_vars(Publish) /\ WF_vars(Restart)

Spec == Init /\ [][Next]_vars /\ Fairness

-----------------------------------------------------------------------------
(* Properties.                                                             *)

\* Every variable holds a value of its type.
TypeOK ==
  /\ NotifierTypeOK
  /\ node \in [alloc : 0..MaxAlloc, pods : 0..MaxPods]
  /\ kubeletConfig \in KubeletConfigs
  /\ object \in Contents \cup {NoObject}
  /\ pc \in {"prepare", "select", "scan", "publish", "returned", "exited"}
  /\ event \in {"none", "IntervalBased", "FSUpdate"}
  /\ scan \in Scans
  /\ stop \in BOOLEAN
  /\ failures \in 0..MaxFailures

Behind == object = NoObject \/ object.zones < node.alloc

\* A file event under way, or a scan that sees the node as it is.
WakeupPending ==
  \/ \E i \in DOMAIN fsQueue : fsQueue[i] = "state"
  \/ notifier = "FSUpdate"
  \/ pc = "scan"
  \/ pc = "publish" /\ scan.zones = node.alloc

\* No wakeup is lost between the kernel queue, the notifier that blocks in its
\* send and the loop that is busy with an older event: while the object is
\* behind an allocation, something under way will bring it up to date.  (Not
\* after a failure or an overflow: file events are all this rests on.)
NoLostWakeup ==
  /\ Alive /\ args.kubeletStateDir /\ ~args.noPublish
  /\ failures = 0 /\ watcher = "reading"
  /\ ~\E i \in DOMAIN fsQueue : fsQueue[i] = "overflow"
  /\ node.alloc > 0 /\ Behind
  => WakeupPending

Publishing == ~args.oneshot /\ ~args.noPublish

\* An allocation the kubelet makes while the daemon watches its state files is
\* published in the end, or overtaken by a later one.
AllocationPublished ==
  \A version \in 1..MaxAlloc :
    Publishing /\ args.kubeletStateDir /\ node.alloc >= version
      ~> \/ object # NoObject /\ object.zones >= version
         \/ pc = "returned"

InSync ==
  /\ object # NoObject
  /\ object.zones = node.alloc
  /\ \/ object.attributes.podFingerprint = NodeScan.fingerprint
     \/ NodeScan.fingerprint = Absent
  /\ object.attributes.topologyManagerPolicy = kubeletConfig.policy
  /\ object.attributes.topologyManagerScope = kubeletConfig.scope

\* A daemon with an interval converges once the configuration settles, through
\* failed scans and publications, crashes, objects that others delete or make, and
\* overflows of the file watcher: zones and configuration are the node's, and so is
\* the fingerprint, if the node has one.  (While there is no pod, or with
\* -pods-fingerprint=false, scans have none, and the merge keeps the one the object
\* has: nothing is claimed of it then.)
Converges ==
  Publishing /\ args.sleepInterval /\ <>[][UNCHANGED kubeletConfig]_vars
    => <>[](InSync \/ pc = "returned")

\* A request to stop is honoured, however many events compete with it.
StopHonoured == stop ~> pc \in {"returned", "exited"}

\* A one-shot process ends.
OneshotReturns == args.oneshot ~> pc \in {"returned", "exited"}

=============================================================================
