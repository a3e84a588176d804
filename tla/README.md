# Verification of the node resource topology updater and its API's client code

TLA+ modules, TLC configurations and TLAPS proofs for the two programs of this
repository and the library they share. The topology updater is the daemon that
watches a node's kubelet, computes what each NUMA node has available, and publishes
it as the node's `NodeResourceTopology` object. The consumers, of which `main.go` is a
small one, follow these objects through the shared informers of `pkg/generated` and
edit their attribute lists with the helpers of `pkg/apis`. Paths below are relative
to `src/`.

## The system

| component | source | state | operations | hard behaviour | what makes it correct |
|---|---|---|---|---|---|
| kubelet notifier | `pkg/topology-updater/kubeletnotifier` | ticker channel, watcher queue, an event it is sending | tick, file event, send on an unbuffered channel | blocks while the loop is busy; kernel queue overflow; the watcher's `Errors` has no reader | no wakeup is lost |
| updater loop | `pkg/topology-updater/topology-updater.go` (`Run`, `Stop`) | program position, buffered stop request | select on event and stop, scan, aggregate, publish, return | failed scans, any publication error ends the process, restart, one-shot mode | converges to the node; stop and one-shot end |
| publication | same file (`updateNodeResourceTopology`) | the object read, copied and written; the object in the API server | Get, Create or Update | other clients and other updater processes between Get and write; crashes; requests served late | no lost update; policy and fingerprint agree with what they are published with; never back to an older node |
| scanner | `pkg/resourcemonitor/podresourcesscanner.go` | none | List, a GetPod for each pod, filter | pods change between the calls | reports exactly what pods hold exclusively |
| aggregator | `pkg/resourcemonitor/noderesourcesaggregator.go` | tables computed once at start | build zones, subtract what pods hold | memory spread over nodes, unknown IDs, excluded resources, devices of two nodes, holes in node IDs | available = allocatable - held |
| topology policy | `pkg/topologypolicy` | none | (policy, scope) to one name | none | follows the attributes |
| exclude list | `pkg/resourcemonitor/excludelist.go`, `configure` of the updater | lists by node name | read once, union of the node's list and that of all nodes | file missing, unreadable or malformed | excludes exactly what is configured |
| sysfs memory | `pkg/utils/memory_resources.go` | none | read meminfo and hugepages | missing directories, files without a number | capacity is what the node has |
| command line | `cmd/topology-updater/main.go` | none | defaults, flags, NODE_ADDRESS | combinations of flags | the process that starts has a source of configurations |
| attribute helpers | `pkg/apis/topology/v1alpha1/helper/attribute`, the list's `DeepCopy` | the arrays behind slices | Get, Insert, Merge, DeleteAll | slices that share an array with the cache; names given twice | as documented on each function, and no argument is changed |
| informer factory | `pkg/generated/informers/externalversions` | map of informers, those started, the wait group | InformerFor, Start, Shutdown, WaitForCacheSync | concurrent callers, channels that close in between, informers made or started late | one informer of a type; nothing runs after Shutdown; waits end |
| informers and listers | `.../topology/v1alpha1/noderesourcetopology.go` under `informers` and `listers` | the cache | list, watch with the same options, List, Get | watch events, relisting, read-only results | a synced list is what the server had |
| informer demo | `main.go` | none | uses the factory and lists once | ignores the result of the wait | none of its own |
| kubelet configuration readers | `pkg/utils/kubeconf` | none | read one configuration | fails | none of their own |
| API helper, pod resources client | `pkg/apihelper`, `pkg/podres` | none | make clients | fails | none of their own |
| client, apply configurations, fake client, other deep copies | `pkg/generated` | none | generated | none | none stated |
| logging, dumping, host paths, version | `pkg/utils`, `pkg/version` | none | I/O | none | none stated |

The notifier is a goroutine of its own and hands events to the loop over an
unbuffered channel. The loop calls the scanner (kubelet's pod resources API and
the API server), then the aggregator, then publication, which reads the kubelet
configuration on interval events and for a new object. The kubelet, the API
server, other writers of the object (labels, annotations and attributes of
their own) and the pod's restart policy are the environment.

A consumer makes a factory, asks it for informers and starts them: each has a
goroutine that lists and watches the API server and fills a cache until its stop
channel closes. Any goroutine may call the factory; its mutex guards the map of
informers and the wait group, but not the waits of Shutdown and WaitForCacheSync.
Listers return what is in the cache, so consumers share the arrays of attribute
lists with it, and the helpers must not write to them.

## Modules

| module | what it is |
|---|---|
| `NRT` | the object, the attribute merge, the topology policy, `Mutation` = all of `updateNodeResourceTopology`'s work on an object |
| `NRTStore` | abstract specification: the object changes by atomic read-modify-writes, each computed from one scan |
| `Publisher` | publication in detail: any number of updater processes, API server, other clients, crashes, abandoned requests |
| `PublisherProofs` | theorems about `Publisher` and their proofs |
| `KubeletNotifier` | `Notifier.Run`, its ticker, the kernel queue and the watcher |
| `TopologyUpdater` | the loop of one process, composed with the notifier and the node; publication is one step, as in `NRTStore` |
| `TopologyUpdaterProofs` | theorems about `TopologyUpdater` and `KubeletNotifier` |
| `CommandLine` | from flags and NODE_ADDRESS to the arguments of processes that start |
| `NUMAMemory` | memory capacity from sysfs |
| `ResourceTables` | the aggregator's tables, the zones each aggregation starts from, zone names and costs |
| `ResourceTablesProofs` | lemmas about sums over finite sets, and about what the tables hold for any machine |
| `Aggregator` | configuration, construction, and `Aggregate` of one scan after another, one resource ID or one NUMA node of a memory block at a time |
| `AggregatorProofs` | theorems about `Aggregator`: exclusions, devices and CPUs, CPU capacity |
| `AggregatorMemoryProofs` | the theorem about its memory blocks |
| `Scanner` | `PodResourcesScanner.Scan`: List, then a GetPod for each pod, while pods come and go |
| `ScannerProofs` | theorems about `Scanner` |
| `InformerFactory` | the shared informer factory, called by concurrent goroutines, and the goroutines it spawns |
| `AttributeList` | the attribute helpers and the updater's own merge, on slices of shared arrays, and what is promised of them |
| `AttributeListProofs` | lemmas about the helpers: the array they write to, and their results |
| `Consumers` | goroutines that use both: they call the factory, list from the cache, and apply the helpers to what they got |
| `ConsumersProofs` | theorems about `Consumers` |
| `MCPublisher`, `MCTopologyUpdater`, `MCAggregator`, `MCScanner`, `MCConsumers` | constants for TLC |

Definitions that begin with a comment `Fault:` are plausible mistakes. No
specification uses them; put in place of the definition that follows, each
makes TLC find a property violated, which shows what the property is sensitive
to.

### Correspondence with the code

`NRT`, `Publisher`. A zone list is represented by the version of the node it was
computed from, a fingerprint by the version of the pod set it was computed from.
An attribute list is a record with a field for each name the updater writes, and
`foreign` for everything it must not touch. `pc` of a process: `select` (the
loop's select), `get` (scanned and aggregated, before the Get answers), `config`
(before `kubeletConfigFunc` returns), `wait` (a Create or Update is under way),
`ok` (answered), `exited`. Scan and Aggregate are one step, `Event`, because
nothing of the process is shared with them; the Get's answer and what the code
then computes are `GetFound` and `GetNotFound`; the write is sent at the end of
`GetFound` or `ReadKubeletConfig` and takes effect in `ServeWrite`, so any
write of another client may fall between. `Exit` is each error return (all end
`Run` and the process) and a crash at any point; a request under way becomes an
orphan that `ServeOrphan` may serve at any later time, or never.

`KubeletNotifier`, `TopologyUpdater`. `notifier` is `select` or the event whose
send has not completed; `Send` is the rendezvous. `ticker` is the one-place
channel of `time.Ticker`, `fsQueue` the kernel's queue with the watcher's read
position. `args` holds the five arguments that steer the loop, as `CommandLine`
makes them from the flags. `Prepare` is what `Run` does between starting the notifier
and its loop, any of whose steps may fail; events gather meanwhile. `Scan` is Scan,
Aggregate, and the return of the one-shot mode with `-no-publish`; `Publish` is
`updateNodeResourceTopology` with either outcome, and on an error the write may
have taken effect. The version of the node is `[alloc, pods]`: an allocation
writes a state file, a pod without exclusive resources does not. `EmptyPods` are the
versions at which the node has no pod; a scan of one of them has no fingerprint, nor has
any with `-pods-fingerprint=false` (`NodeScan`).

`ResourceTables`, `Aggregator`. A machine is what the kubelet says is allocatable
plus the hardware's topology and what sysfs shows; its node IDs may have holes. `Configure`
is the updater's `configure` and `NewExcludeResourceList`, `NewResourcesAggregator`
the constructor with its failures, and each `Aggregate` starts anew from the tables,
which never change. Pods are the flat sequence of resource entries that
the nested loops of `Aggregate` visit. A zone's name is its number; `ZoneList` is
what is published, with the costs of each zone. The steps are finer than needed for a
sequential function, so that the early returns show and invariants hold inside
the loops.

`Scanner`. `api` and `kubelet` hold the pods that the API server and the kubelet
have; `list` is the kubelet's answer, `todo` what the loop has not looked up yet, and
`Lookup` one turn of the loop with GetPod's answer of that moment. The pods of a
list are taken in any order, on which nothing but the order of the report depends.
What the kubelet gives a container (`Resources`) is external: exclusive CPUs to
containers with whole CPUs in guaranteed pods. A container of the report is known by
its position among those listed; `Holding` drops the ones that hold nothing.

`InformerFactory`. What happens under the factory's lock is one step: `InformerFor`,
`Start`, the first half of `Shutdown` (`ShutDown`) and of `WaitForCacheSync`. The waits
are steps of their own: `ShutdownReturns` (`wg.Wait`), `Poll` (one informer of
`cache.WaitForCacheSync`, in any order) and `WaitReturns`. A goroutine is `spawned` by
Start, `running`, and `ended` once its channel has closed and `wg.Done` was called.
An informer is its type with a number, so that a second one of a type could be told
from the first. client-go's `SharedIndexInformer` is external, as `pkg/generated` uses it:
it lists (`ListObjects`, also after a broken watch), follows the watch event by event
(`WatchObjects`), and keeps what it was given by the list and watch functions, which
apply `tweakListOptions` (`View`). An object's history is the sequence of its states,
its version a position in it.

`AttributeList`, `Consumers`. A slice is a window on a named array of `heap`, whose
sequence is as long as the array's capacity; append writes into the array while there
is room. `Decoded` leaves room for one more, as a decoder may, which is what makes an
append without a copy visible to others. `results` remembers each call of a helper
with its argument and result as slices: whether they still hold what they should is
judged in every later state. In `NRT` the list of attributes is a record; that the
code's merge treats a list without names given twice this way is what
`ResultsAsDocumented` says of `UpdateAttributes`. The loops are recursive functions of the
number of turns (`MergeLoop`, `Without`, `UpdateLoop`). What the helpers promise is
stated without them, by `Joined` and `Distinct`, and for DeleteAll by `Deleted`, which
counts what the list has of each attribute; `Documented` says which of them holds of a
call. The updater's `updateAttributes` has no comment of its own: it is held to what Merge's says, with what
is new named once.

## Runs

| run | shows | bounds |
|---|---|---|
| `publisher` | `ForeignFieldsKept`, `PolicyCoherent`, `FingerprintMatchesZones`, `InflightIsMutation`, and that `Publisher` implements `NRTStore` (`ImplementsStore`) | 2 processes, 2 kubelet configurations, node changes once, 3 resource versions, 1 orphan |
| `publisher_order` | `NoRegress`: one process never takes the object back to an older node | 1 process, node changes twice, 4 versions, 2 orphans |
| `publisher_empty` | violation: stale fingerprint | as above, node 1 lists no pod |
| `updater_interval` | `Converges`, `StopHonoured`, `OneshotReturns` | 5 command lines, one without fingerprints, queue of 1 that overflows, 1 allocation, 2 pod changes by which the list becomes empty and fills again, 2 failures, crashes, objects deleted or made by others |
| `updater_watch` | `NoLostWakeup`, `AllocationPublished` | 3 command lines of which one does not start, queue of 3 without overflow, 2 allocations, no failure |
| `updater_oneshot` | violation: a one-shot process that never returns | 1 allocation |
| `aggregator` | `AvailableBounded`, `AvailableIsUnreserved`, `MemoryConserved`, `CPUCapacity`, `ZonesAreTopology`, `ExclusionHonoured` | 2 NUMA nodes, 4 processors, up to 4 entries in every order, two scans; 5 machines, one with a hole in its node IDs, two that cannot be read; 5 configuration files |
| `aggregator_excluded` | violation: nil pointer on an excluded resource | 2 entries |
| `aggregator_multinuma` | violation: device of two NUMA nodes | 2 entries |
| `scanner` | `ScanOfOneMoment`, `DevicesReported` | 5 pod names, one of them used by two pods in turn |
| `scanner_mixed` | violation: exclusive CPUs not seen | 1 pod |
| `informers` | `ShutdownWaits`, `ListedFromServer`, `CacheFaithful`, `ResultsAsDocumented`, `ShutdownCompletes`, `WaitCompletes` | 3 callers, 2 types, 2 stop channels, one change of an object |

In `scanner` each pod stands for one way through the filter: whole CPUs with memory and
an init container, a fraction with a device, whole CPUs that are not exclusive, another
namespace, a shared name. Pods do not interact in the scanner, so more of a kind
add nothing. `ScanOfOneMoment` leaves out pods of a shared name, whose CPUs may be missed
when the name's next owner asks for none; `DevicesReported` covers what is sure of them.

In `informers` the three goroutines are the demo, a consumer that inserts, merges,
updates and deletes and shuts the factory down in the end, and one that shuts it down
at any time, then asks for an informer of the other type and starts it: two Shutdowns
may wait at once, beside a third goroutine that waits for the cache. The consumer starts the informer
with another channel than the demo, either of them first. The lists of the object and
of the calls name attributes twice, name new ones twice, and leave room in the array
or not. One change is enough to take a selected object out of the selection or to
another content while caches, slices and watches are at the older version.

`TypeOK` is checked with `publisher`, `updater_interval` and `informers`.

Why the bounds are enough. A lost update needs two writers and one write in
between: two processes, the other client and one orphan give every pair of
writers, three versions a create, a write in between and a write that must
fail. A regression with one process needs an abandoned request of an older life,
a newer publication and perhaps another abandoned one: two orphans, three node
versions. For these properties the proofs remove the bounds altogether. In the
updater runs a queue of one is full at once; two failures give a failure while
recovering from another. Three places in the queue hold a state file's event
behind another file's and behind a second state file's. In the aggregator's run
the block of three over nodes of two and three units exhausts the first node,
the second block finds what is left; an unknown ID stands before a known one.

`aggregator` takes pods whose blocks fit their nodes, with groups of nodes that are
equal or disjoint: the kubelet's memory manager makes no others. On the machine with
the hole no memory block is held: its second node is not published at all (see below), so there is nothing to take memory off.

Deadlock is checked in the publisher and scanner runs. The updater's processes may end and
the node fall quiet, aggregation ends, and consumers come to the end of their
programs: their configurations say `CHECK_DEADLOCK FALSE`.

### Fairness

`TopologyUpdater`. Ticks come (weak fairness of
`Tick`); goroutines that can run do (weak fairness of `Prepare`, `Scan`, `Publish`,
`WatcherError`); the deployment restarts the process
(`deployments/topology-updater.yaml`, `restartPolicy: Always`; not a one-shot
one). A Go select chooses at random among the cases that are ready, so each case
that is ready again and again is taken at some time: strong fairness of
`ReceiveTick`, `ReceiveFS`, `ReceiveEvent` and `ReceiveStop`. It is assumed that
API calls are answered; the code passes `context.TODO()` and sets no timeout of
its own. Nothing is assumed of `Stop`, failures, the node or other clients; the
number of failures is bounded, else nothing could converge.

`Converges` assumes that the kubelet configuration settles; the node does by its
bound. It says nothing of the fingerprint of an object while the node has no pod, or of
a process with `-pods-fingerprint=false`: a scan has none then, and the merge leaves the
one the object has (`publisher_empty`). Zones and configuration converge all the same, and
the fingerprint does once there are pods again.

`Consumers`. While some goroutine inside the factory can run, one does (weak fairness of
`FactoryStep` as a whole): the scheduler's least promise, and enough, for each has
finitely many steps to take until objects change or channels close. Nothing makes a
channel close, an object change, or a caller come back between its calls.
`ShutdownCompletes` therefore has the closed channels in its premise, and
`WaitCompletes` leaves out, by `WaitsInVain`, the wait for an informer that was stopped
before it synced while the waiting caller's own channel is open.

## What the violations show

* `publisher_empty`: `Scan` makes a fingerprint only when there are pods, and the
  attribute merge keeps an entry the scan lacks. After the last pod is gone the
  object shows the fingerprint of a pod set that no longer exists, against "Compute
  and report the pod set fingerprint" (`cmd/topology-updater/main.go:122`).
* `updater_oneshot`: `-oneshot` promises "Update once and exit"
  (`cmd/topology-updater/main.go:103`); with `-sleep-interval 0` nothing makes a
  first event.
* `aggregator_excluded`: excluded resources are "resources to ignore"
  (`pkg/resourcemonitor/excludelist.go:9`), yet a pod that holds one crashes the
  process in `updateAvailable`, and each restart again.
* `aggregator_multinuma`: Available is "Allocatable minus the resources reserved
  by currently running pods" (`pkg/apis/topology/v1alpha1/types.go:95-97`), but a
  device with two NUMA nodes is subtracted on one of them.
* `scanner_mixed`: `hasExclusiveCPUs` is true "if a guaranteed pod is allocated
  exclusive CPUs" (`pkg/resourcemonitor/podresourcesscanner.go:211`), but one
  container with a fraction of a CPU makes it false for the whole pod, and the
  exclusive CPUs of the others count as available.

Two more disagreements are in the models and have no run of their own:

* Holes in node IDs. A zone is named "from its ID", and costs are those "to reach all the
  known NUMA zones" (`pkg/resourcemonitor/noderesourcesaggregator.go:334`, `348`), but both are
  taken from positions (`InitialZones`, `MakeCostsPerNumaNode`). With nodes 0 and 2 online, `node-0`
  and `node-1` are published: node 2 is left out with all it has, and the cost of reaching it is
  that of `node-1`. A TODO (line 356) admits it of the distances. `ZonesAreTopology`
  is therefore stated for IDs without holes.
* Capacity without huge pages. Capacity is the "total amount of this resource that the node
  has" (`pkg/apis/topology/v1alpha1/types.go:88-89`). `GetNumaMemoryResources` drops what it has
  read of a node, its memory too, when the node has no directory of huge pages, and the
  aggregator then publishes the allocatable amount (`MemoryCapacity`).

## Proofs

`PublisherProofs` proves, for any set of processes, any bounds and any
configurations and foreign values:

| theorem | statement |
|---|---|
| `TypeCorrect` | `Spec => []TypeOK` |
| `ForeignFieldsAreKept` | `Spec => []ForeignFieldsKept` |
| `PolicyIsCoherent` | `Spec => []PolicyCoherent` |
| `InflightRequestsAreMutations` | `Spec => []InflightIsMutation` |
| `PublisherImplementsStore` | `Spec => ImplementsStore` |
| `OneUpdaterNeverRegresses` | with at most one process, `Spec => NoRegress` |
| `FingerprintsMatch` | when every pod list has a pod, `Spec => []FingerprintMatchesZones` |

They rest on `NRTAssumption` (the constants are told apart from the values they
stand beside) and `PublisherAssumption` (bounds are natural numbers); TLC
evaluates both in each publisher run.

The argument. None of the invariants is inductive alone: what the store holds
depends on what requests under way contain, and these on what was read. The
inductive invariant is `TypeOK /\ Consistent`. `Consistent` says that versions in
the store, in objects being built and in requests were handed out already
(`StoreVersioned`, `RequestsVersioned`), that an object being built from the
version the server holds now is the server's object with the zones of its scan
(`BuildsCurrent`), and that a request which names that version is a whole mutation
of the stored object (`InflightIsMutation`). When the server moves on, every older
request names a version that will never be current again, so the implications hold
vacuously; that is optimistic concurrency, stated as an invariant. An accepted
request is then a mutation of what is stored, which gives `ForeignFieldsKept`,
`PolicyCoherent` and, through the lemmas that `Content` commutes with `Mutation`,
the step of `NRTStore`.

For `NoRegress` a second invariant, `Order`, is added: no version is newer than
the node; the scan of a live process covers the store's zones while it waits for
its Get; a request naming the current version is no older than the store. With two
processes the second part fails: the scan comes before the Get, and another process
may publish a newer scan in between.

`TopologyUpdaterProofs` proves, for any arguments, configurations, bounds and length of
the kernel's queue:

| theorem | statement |
|---|---|
| `TypeOKHolds` | `Spec => []TypeOK` |
| `NoLostWakeupHolds` | `Spec => []NoLostWakeup` |

They rest on `NRTAssumption`, `NotifierAssumption` and `UpdaterAssumption`. `TypeOK` lacks
the reason why the queue is at most one longer than the kernel allows: an event beyond
its length is the overflow, and there is at most one such place (`QueueInv`). `NoLostWakeup`
is not inductive because an object that is up to date may be overwritten by a scan that
is not: `WakeupInv` says that while a scan waits for its publication it either saw the
node as it is, or the event of a later change is pending, and that a process which
ended without returning has met a failure.

`ConsumersProofs` proves, for any types, states of objects, stop channels, and any
programs of any callers:

| theorem | statement |
|---|---|
| `ShutdownWaitsHolds` | `Spec => []ShutdownWaits` |
| `ListedFromServerHolds` | `Spec => []ListedFromServer` |
| `CacheFaithfulHolds` | `Spec => []CacheFaithful` |
| `ResultsAsDocumentedHolds` | `Spec => []ResultsAsDocumented` |
| `TypeOKHolds` | `Spec => []TypeOK` |

They rest on `FactoryAssumption` (types are finitely many, none is the name that
stands for no informer, programs ask for informers of these types, and objects begin
in one of their states) and `ConsumersAssumption` (attributes are attributes, and a
program makes an informer before it lists and lists before it calls a helper).

* `ShutdownWaits` needs `ShutdownInv`: the wait group's counter is
  the number of goroutines alive (by a bijection between the types Start starts and their
  informers), only started types have one, and a Shutdown that waits or has returned has
  closed the factory, so that a counter of zero means none is or will be.
* `ListedFromServer` needs `ListInv`: one informer of a type, which is at a version the
  server had and caches what the options let through of it, held and waited for by all
  callers; and histories only grow.
* `CacheFaithful` and `ResultsAsDocumented` need `HeapInv`. Every array is named for what made
  it: the decoder of a version, or one call of one caller (`ArraysInv`). So the array
  that a helper is about to make is nobody's, and since it writes to no other
  (`Leaves` in `AttributeListProofs`), what the caches hold (`VersionsInv`) and what earlier calls
  took and returned (`ResultsInv`) stays. `ProgramInv` says that a program that calls a helper
  has a list. Without the deep copies the lemma `Leaves` is false, and so are both theorems:
  that is the mutant `InsertInPlace`.
* `TypeOK` adds `StartInv`: no informer but the first of its type is ever started.

`AttributeListProofs` has what these need of the helpers, for any heap, list and
arguments: `InsertFacts`, `MergeFacts`, `DeleteAllFacts` and `UpdateAttributesFacts` say that the
result is what `Documented` asks, with names given twice, and that only the new
array is written to.

`ScannerProofs` proves, for any names and specifications of pods:

| theorem | statement |
|---|---|
| `ScanOfOneMomentHolds` | if all are `Plain`, `Spec => []ScanOfOneMoment` |
| `DevicesReportedHolds` | `Spec => []DevicesReported` |

`Plain` pods neither have whole CPUs beside a container
without (the case of `scanner_mixed`) nor hold memory alone (pods the code does not
watch). `ScanInv` says, of a pod that is alone in its name, that it is in the report, as
it was listed, exactly when it has been looked up; this survives all pods' coming and going
because GetPod can only answer with that pod or fail. `DevicesInv` says of every pod looked
up, alone in its name or not, that its devices are in the report: whoever GetPod answers with
can only take CPUs from what was listed. It assumes nothing.

`AggregatorProofs` and `AggregatorMemoryProofs` prove, for any machine, pods, number of scans
and configuration:

| theorem | statement | assumes |
|---|---|---|
| `ExclusionHonouredHolds` | `Spec => []ExclusionHonoured` | nothing |
| `AvailableBoundedHolds` | `Spec => []AvailableBounded` | `DevicesHeldOnce` |
| `AvailableIsUnreservedHolds` | `Spec => []AvailableIsUnreserved` | `DevicesHeldOnce`, `DevicesHaveOneNode` |
| `MemoryConservedHolds` | `Spec => []MemoryConserved` | `MemoryFits` |
| `CPUCapacityHolds` | `Spec => []CPUCapacity` | `CPUsAreProcessors` |

All rest on `AggregatorAssumption` (machines and scans are of their types, and a configuration
file that is not there has no lists). The
assumptions in the last column are the environment's part, which the code takes for granted:

* `DevicesHeldOnce`: the kubelet gives a CPU or device to one container at a time.
* `DevicesHaveOneNode`: no ID is listed with two NUMA nodes. Where one is, the statement is
  false: that is the run `aggregator_multinuma`.
* `MemoryFits`: the memory manager grants memory from groups of nodes that are equal or
  disjoint, no more than a group has, and of nodes that are published.
* `CPUsAreProcessors`: the topology lists each node once, and nothing but CPUs is called "cpu".

Each is stated with `HeldOnce`, `OneNodeEach`, `GroupsFit` and so on of every case that may be
aggregated, and `MCAggregator` makes TLC evaluate these on all cases of the run
`aggregator` (`MCCasesAreLegal`), so they are met by the interesting machines and pods.

The argument. `LoopInv` is common to all: what is aggregated, and on what machine, is one of
the cases (`SourceInv`); what is left to do is the end of the pods' entries, the first
of them in part (`TodoInv`); the loops change nothing of a zone but what it has available
(`ZonesInv`), and a node gives no more memory than it has (`MemoryInv`).

* Exclusions: what is excluded is fixed before the first aggregation (`ExclusionInv`).
* Devices: at every point of the loops, what a node has lost of a resource is the number of IDs
  handled so far that the table gives it (`UsedInv`). `AvailableBounded` follows because these IDs
  are among those counted as allocatable there, each at least once; `AvailableIsUnreserved`
  because with one node for each ID the node in the table is where it sits.
* Memory: what is gone of a kind is what was asked for less what is left to ask
  (`ConservedInv`). This is inductive only with the reason why no block is given up before it
  has all it asks for: a group has at least what is still to be taken from it (`FitsInv`), and
  a block that goes on to its next node found the ones before empty (`HandledInv`).
  When it runs out of nodes the whole group is empty, so that nothing was left to ask.
* CPU capacity: the IDs allocatable on a node are among its processors, and the table of
  reserved ones has the others, each once (`InitialCPUCapacity`).

`ResourceTablesProofs` has the sums these need: of the parts of a set, of a function
changed at one place, of a function that is never larger than another, and what
`NodeAllocatable` and the table of resource IDs make of a machine.

### How the inductions are done

What a fold or a recursive function yields for every input is an induction over data, for
which the library's theorems cannot be used (their parameter is an operator). Two forms of it
that need no such parameter are proved instead, from the library's theorems on
well-founded relations:

* for sums, over finite sets (`MinimalSubset` in `ResourceTablesProofs`): a family of subsets of a
  finite set has a minimal member, so if a statement fails for some subset it fails for
  one and holds for all within it;
* for loops, over the number of turns (`SetInduction` and, for the functions themselves,
  `LoopExists` in `AttributeListProofs`): a set of numbers that has 0 and with each number the
  next one has all.

Only model-checked: liveness (`Converges`, `StopHonoured`, `OneshotReturns`,
`AllocationPublished`, `ShutdownCompletes`, `WaitCompletes`), which is beyond the prover,
`ZonesAreTopology`, which follows from the definitions once the zones are known to be those of
the topology's positions (`ZonesInv`), and the violations. Every other property of the passing runs is a theorem.

## Not modelled

* Reading files and sockets: of sysfs, configuration file and kubelet configuration
  the outcomes are modelled, not the parsing.
* The apply configurations (builders that set one field each), the fake client, and deep copies
  but that of attribute lists: generated, without control of their own. Of the typed
  client, List and Watch are in `InformerFactory`, Get, Create and Update in `Publisher`;
  nothing in the repository calls Delete, Patch or Apply.
* `pkg/apihelper`'s functions for nodes and patches: nothing calls them.
* Logging, dumping, host paths, version, and flags that steer none of the modelled parts.
* Widths of quantities: sizes are cast from uint64 to int64, which the code's comment accepts.
* API calls that are never answered: the code sets no timeout, so that one holds the loop
  for ever. Fairness assumes answers.
* Objects that others create, in `Publisher`: there only updaters do. `TopologyUpdater` has them
  (`Create`).
* Guaranteed pods with pinned memory but no exclusive CPUs or device: the code does not watch
  them, so their memory counts as available; it says nothing of what should happen.

## Plan

1. `Publisher`: objects created by other clients, with `NRTStore` to match.
2. The safety part of `TopologyUpdater` as an implementation of `NRTStore`, by a refinement
   mapping that hides the notifier.
3. The safety half of `StopHonoured`: that a stop request stays buffered until the loop
   receives it.
