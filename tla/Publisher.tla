----------------------------- MODULE Publisher -----------------------------
(***************************************************************************)
(* Publication of one node's NodeResourceTopology object: the steps of     *)
(* topologyUpdater.updateNodeResourceTopology and of the process around    *)
(* it, the API server that holds the object, another client that writes    *)
(* the fields it owns, and the node and kubelet configuration the updater  *)
(* reads.                                                                  *)
(*                                                                         *)
(* Several updater processes may run for one node (a rollout, a one-shot   *)
(* run beside the daemon).  A request that a dead process left behind, or  *)
(* whose connection broke, may still be served later: the client passes    *)
(* context.TODO(), nothing withdraws it.                                   *)
(***************************************************************************)
EXTENDS NRT, FiniteSets

CONSTANTS
  Updaters,   \* processes publishing for this node
  EmptyNodes, \* node versions whose pod list is empty
  MaxNode,    \* bound: versions of the node
  MaxRV,      \* bound: resource versions the server hands out
  MaxOrphans  \* bound: abandoned requests still under way

ASSUME PublisherAssumption ==
  /\ MaxNode \in Nat /\ MaxRV \in Nat /\ MaxOrphans \in Nat
  /\ EmptyNodes \subseteq Nat

VARIABLES
  node,          \* version of what the kubelet's pod resources API lists
  kubeletConfig, \* what kubeletConfigFunc would return now
  store,         \* the object in the API server, or NoObject
  lastRV,        \* the last resource version handed out
  foreign,       \* what the other client last stored in this object
  pc,            \* where each updater process is
  scan,          \* what it scanned for the event it handles
  interval,      \* whether that event is IntervalBased
  nrt,           \* the object it is building or has sent
  orphans        \* abandoned requests that the server may still serve

vars ==
  <<node, kubeletConfig, store, lastRV, foreign, pc, scan, interval, nrt, orphans>>

ServerVars == <<store, lastRV, foreign>>
ProcessVars == <<scan, interval, nrt>>

Locations ==
  {"select", "get", "config", "wait", "ok", "exited"}

\* NewPodResourcesScanner.Scan then Aggregate: zones always, a fingerprint only
\* when the list has a pod.
ScanOf(version) ==
  [zones |-> version,
   fingerprint |-> IF version \in EmptyNodes THEN Absent ELSE version]

NodeScans == {ScanOf(version) : version \in 0..MaxNode}

Init ==
  /\ node = 0
  /\ kubeletConfig \in KubeletConfigs
  /\ store = NoObject
  /\ lastRV = 0
  /\ foreign = Absent
  /\ pc = [u \in Updaters |-> "select"]
  /\ scan = [u \in Updaters |-> ScanOf(0)]
  /\ interval = [u \in Updaters |-> FALSE]
  /\ nrt = [u \in Updaters |-> NewObject(0)]
  /\ orphans = {}

-----------------------------------------------------------------------------
(* The updater.                                                            *)

\* Fault: a failed scan does not go back to the select, and what the process has
\* in place of its result is published.
EventFallingThrough(u) ==
  /\ pc[u] = "select"
  /\ \E result \in {ScanOf(node), scan[u]} :
       scan' = [scan EXCEPT ![u] = result]
  /\ \E intervalBased \in BOOLEAN :
       interval' = [interval EXCEPT ![u] = intervalBased]
  /\ pc' = [pc EXCEPT ![u] = "get"]
  /\ UNCHANGED <<node, kubeletConfig, nrt, orphans, ServerVars>>

\* An event of either kind arrives; the node is scanned and aggregated.  A
\* failed scan only logs and goes back to the select: no state changes.
Event(u) ==
  /\ pc[u] = "select"
  /\ scan' = [scan EXCEPT ![u] = ScanOf(node)]
  /\ \E intervalBased \in BOOLEAN :
       interval' = [interval EXCEPT ![u] = intervalBased]
  /\ pc' = [pc EXCEPT ![u] = "get"]
  /\ UNCHANGED <<node, kubeletConfig, nrt, orphans, ServerVars>>

\* The object is not found: a new one is built, its configuration always read.
GetNotFound(u) ==
  /\ pc[u] = "get"
  /\ store = NoObject
  /\ nrt' = [nrt EXCEPT ![u] = NewObject(scan[u].zones)]
  /\ pc' = [pc EXCEPT ![u] = "config"]
  /\ UNCHANGED <<node, kubeletConfig, scan, interval, orphans, ServerVars>>

\* Fault: the copy keeps the zones of the object found.
GetFoundOldZones(u) ==
  /\ pc[u] = "get"
  /\ store # NoObject
  /\ \/ /\ interval[u]
        /\ nrt' = [nrt EXCEPT ![u] = store]
        /\ pc' = [pc EXCEPT ![u] = "config"]
     \/ /\ ~interval[u]
        /\ nrt' = [nrt EXCEPT ![u] = MergeScan(store, scan[u].fingerprint)]
        /\ pc' = [pc EXCEPT ![u] = "wait"]
  /\ UNCHANGED <<node, kubeletConfig, scan, interval, orphans, ServerVars>>

\* The object is found: a deep copy, resource version included, gets the new
\* zones.  On an interval event the configuration is read next; otherwise the
\* scan's attributes are merged in and the Update request is sent.
GetFound(u) ==
  /\ pc[u] = "get"
  /\ store # NoObject
  /\ LET copy == CopyWithZones(store, scan[u].zones) IN
       \/ /\ interval[u]
          /\ nrt' = [nrt EXCEPT ![u] = copy]
          /\ pc' = [pc EXCEPT ![u] = "config"]
       \/ /\ ~interval[u]
          /\ nrt' = [nrt EXCEPT ![u] = MergeScan(copy, scan[u].fingerprint)]
          /\ pc' = [pc EXCEPT ![u] = "wait"]
  /\ UNCHANGED <<node, kubeletConfig, scan, interval, orphans, ServerVars>>

\* Fault: the attributes of the scan are merged in only where the configuration
\* is not read.
ReadKubeletConfigOnly(u) ==
  /\ pc[u] = "config"
  /\ nrt' = [nrt EXCEPT ![u] = UpdateNRTTopologyManagerInfo(@, kubeletConfig)]
  /\ pc' = [pc EXCEPT ![u] = "wait"]
  /\ UNCHANGED <<node, kubeletConfig, scan, interval, orphans, ServerVars>>

\* The configuration is read and written into the object, the scan's attributes
\* are merged in, and the Create or Update request is sent.
ReadKubeletConfig(u) ==
  /\ pc[u] = "config"
  /\ nrt' = [nrt EXCEPT ![u] =
               MergeScan(UpdateNRTTopologyManagerInfo(@, kubeletConfig),
                         scan[u].fingerprint)]
  /\ pc' = [pc EXCEPT ![u] = "wait"]
  /\ UNCHANGED <<node, kubeletConfig, scan, interval, orphans, ServerVars>>

\* The variables of the event handled go out of scope.
Forget(u) ==
  /\ scan' = [scan EXCEPT ![u] = ScanOf(0)]
  /\ interval' = [interval EXCEPT ![u] = FALSE]
  /\ nrt' = [nrt EXCEPT ![u] = NewObject(0)]

\* The request succeeded: updateNodeResourceTopology returns nil and the loop
\* goes on.
ReturnNil(u) ==
  /\ pc[u] = "ok"
  /\ pc' = [pc EXCEPT ![u] = "select"]
  /\ Forget(u)
  /\ UNCHANGED <<node, kubeletConfig, orphans, ServerVars>>

\* Any error of the Get, the configuration or the write ends Run and with it
\* the process; so does a crash anywhere.  A request under way is abandoned,
\* not withdrawn.
Exit(u) ==
  /\ pc[u] # "exited"
  /\ IF pc[u] = "wait"
       THEN /\ Cardinality(orphans) < MaxOrphans
            /\ orphans' = orphans \cup {nrt[u]}
       ELSE UNCHANGED orphans
  /\ pc' = [pc EXCEPT ![u] = "exited"]
  /\ Forget(u)
  /\ UNCHANGED <<node, kubeletConfig, ServerVars>>

\* The pod's restart policy is Always; nothing survives the process.
Restart(u) ==
  /\ pc[u] = "exited"
  /\ pc' = [pc EXCEPT ![u] = "select"]
  /\ UNCHANGED <<node, kubeletConfig, orphans, ProcessVars, ServerVars>>

-----------------------------------------------------------------------------
(* The API server and its other clients.                                   *)

IsCreate(request) == request.resourceVersion = 0

\* Create needs the object to be absent; Update needs it to be the version the
\* request was computed from.
Accepted(request) ==
  IF IsCreate(request)
    THEN store = NoObject
    ELSE store # NoObject /\ store.resourceVersion = request.resourceVersion

\* An accepted request that changes nothing keeps the resource version.
Apply(request) ==
  IF store = request
    THEN UNCHANGED ServerVars
    ELSE /\ lastRV < MaxRV
         /\ lastRV' = lastRV + 1
         /\ store' = [request EXCEPT !.resourceVersion = lastRV + 1]
         /\ foreign' = IF IsCreate(request) THEN Absent ELSE foreign

ServeWrite(u) ==
  /\ pc[u] = "wait"
  /\ IF Accepted(nrt[u])
       THEN /\ Apply(nrt[u])
            /\ pc' = [pc EXCEPT ![u] = "ok"]
            /\ UNCHANGED ProcessVars
       ELSE /\ UNCHANGED ServerVars
            /\ pc' = [pc EXCEPT ![u] = "exited"]
            /\ Forget(u)
  /\ UNCHANGED <<node, kubeletConfig, orphans>>

ServeOrphan ==
  \E request \in orphans :
    /\ IF Accepted(request) THEN Apply(request) ELSE UNCHANGED ServerVars
    /\ orphans' = orphans \ {request}
    /\ UNCHANGED <<node, kubeletConfig, pc, ProcessVars>>

ForeignWrite ==
  /\ store # NoObject
  /\ lastRV < MaxRV
  /\ \E value \in ForeignValues \ {foreign} :
       /\ store' = [store EXCEPT !.attributes.foreign = value,
                                 !.resourceVersion = lastRV + 1]
       /\ foreign' = value
  /\ lastRV' = lastRV + 1
  /\ UNCHANGED <<node, kubeletConfig, pc, orphans, ProcessVars>>

Delete ==
  /\ store # NoObject
  /\ store' = NoObject
  /\ foreign' = Absent
  /\ UNCHANGED <<node, kubeletConfig, lastRV, pc, orphans, ProcessVars>>

NodeChange ==
  /\ node < MaxNode
  /\ node' = node + 1
  /\ UNCHANGED <<kubeletConfig, pc, orphans, ProcessVars, ServerVars>>

KubeletConfigChange ==
  /\ \E config \in KubeletConfigs \ {kubeletConfig} : kubeletConfig' = config
  /\ UNCHANGED <<node, pc, orphans, ProcessVars, ServerVars>>

UpdaterStep(u) ==
  \/ Event(u) \/ GetNotFound(u) \/ GetFound(u) \/ ReadKubeletConfig(u)
  \/ ReturnNil(u) \/ Exit(u) \/ Restart(u) \/ ServeWrite(u)

Environment ==
  ServeOrphan \/ ForeignWrite \/ Delete \/ NodeChange \/ KubeletConfigChange

Next == (\E u \in Updaters : UpdaterStep(u)) \/ Environment

Spec == Init /\ [][Next]_vars

-----------------------------------------------------------------------------
(* Properties.                                                             *)

\* Every variable holds a value of its type.
TypeOK ==
  /\ node \in 0..MaxNode
  /\ kubeletConfig \in KubeletConfigs
  /\ store \in Objects \cup {NoObject}
  /\ lastRV \in 0..MaxRV
  /\ foreign \in ForeignValues \cup {Absent}
  /\ pc \in [Updaters -> Locations]
  /\ scan \in [Updaters -> Scans]
  /\ interval \in [Updaters -> BOOLEAN]
  /\ nrt \in [Updaters -> Objects]
  /\ orphans \subseteq Objects

\* No lost update: whatever processes, crashes and late requests interleave, the
\* object holds what the other client last wrote to the fields it owns.
ForeignFieldsKept ==
  store # NoObject => store.attributes.foreign = foreign

PolicyMatchesAttributes(object) ==
  /\ object.attributes.topologyManagerPolicy # Absent
  /\ object.attributes.topologyManagerScope # Absent
  /\ object.topologyPolicies =
       DetectTopologyPolicy(object.attributes.topologyManagerPolicy,
                            object.attributes.topologyManagerScope)

\* The deprecated TopologyPolicies field and the two topology manager
\* attributes always come from one reading of the kubelet configuration, also
\* in objects last written by an event that did not read it.
PolicyCoherent == store # NoObject => PolicyMatchesAttributes(store)

\* A fingerprint in the object is that of the scan its zones come from: a
\* scheduler that recognises the pod set may rely on the zones.
FingerprintMatchesZones ==
  store # NoObject => store.attributes.podFingerprint \in {store.zones, Absent}

\* One process at a time never takes the object back to an older state of the
\* node, restarts and requests served late included.
NoRegress ==
  [][store # NoObject /\ store' # NoObject => store'.zones >= store.zones]_vars

Requests == orphans \cup {nrt[u] : u \in {v \in Updaters : pc[v] = "wait"}}

IsMutationBy(request, s, config) ==
  IF IsCreate(request)
    THEN config # Absent /\ request = Mutation(NewObject(s.zones), s, config)
    ELSE store # NoObject /\ store.resourceVersion = request.resourceVersion
           => request = Mutation(store, s, config)

IsMutation(request) ==
  \E s \in NodeScans, config \in KubeletConfigs \cup {Absent} :
    IsMutationBy(request, s, config)

\* Optimistic concurrency: a request under way, of a live process or a dead one,
\* that was computed from the version the server holds now is one whole mutation
\* of it, and a Create is one of a new object.
InflightIsMutation == \A request \in Requests : IsMutation(request)

\* The object as its readers see it.
published == IF store = NoObject THEN NoObject ELSE Content(store)

Abstract == INSTANCE NRTStore WITH
  PossibleScans <- NodeScans, object <- published

\* Publication implements the atomic object of NRTStore: every step of the
\* processes, the server and the other clients is one of its steps or a stutter.
ImplementsStore == Abstract!StoreSpec

=============================================================================
