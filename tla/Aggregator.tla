----------------------------- MODULE Aggregator -----------------------------
(***************************************************************************)
(* The aggregator of one process: its configuration and tables are read    *)
(* once, then each scan is aggregated (nodeResources.Aggregate): starting  *)
(* from the allocatable resources of each NUMA node it takes off, entry by *)
(* entry, what the scanned pods hold.  A step handles one resource ID or   *)
(* one NUMA node of a memory block, so that the loops' early exits show.   *)
(*                                                                         *)
(* A resource entry of a pod is a record [name, data, size, nodes]:        *)
(* `data` the sequence of IDs of a device or CPU entry, `size` and `nodes` *)
(* the amount and NUMA nodes of a memory block.                            *)
(***************************************************************************)
EXTENDS ResourceTables

CONSTANTS
  NodeName, \* the node the process runs on
  Cases,    \* pairs [machine, scans]: what may be aggregated, scan after scan
  Configs   \* configuration files: [file, lists], `lists` from node names to sets:
            \* what the file says, whether or not it can be read

Entries == [name : STRING, data : Seq(Nat), size : Nat, nodes : Seq(Nat)]

ASSUME AggregatorAssumption ==
  /\ \A case \in Cases : IsMachine(case.machine) /\ case.scans \in Seq(Seq(Entries))
  /\ \A c \in Configs : c.file \in {"none", "missing"} => DOMAIN c.lists = {}

VARIABLES
  machine,  \* the machine the tables are computed from, fixed
  config,   \* the configuration file, fixed
  excluded, \* the resources the configuration excludes
  scans,    \* the scans to come
  pods,     \* the resource entries of the pods scanned last
  todo,     \* the entries not handled yet, the first one perhaps in part
  zones,    \* node -> resource -> [available, allocatable, capacity]
  pc        \* "configure", "prepare", "idle", "aggregating", "done", "failed", or
            \* "panicked": a nil map entry was used

vars == <<machine, config, excluded, scans, pods, todo, zones, pc>>

Init ==
  /\ \E c \in Cases : machine = c.machine /\ scans = c.scans
  /\ config \in Configs
  /\ excluded = {}
  /\ pods = <<>>
  /\ todo = <<>>
  /\ zones = <<>>
  /\ pc = "configure"

-----------------------------------------------------------------------------
(* What Run does before its loop.                                          *)

\* Fault: the list of all nodes counts only for a node without one of its own.
ExcludeListOfNode(lists) ==
  UNION {lists[name] : name \in DOMAIN lists \cap
                                 (IF NodeName \in DOMAIN lists THEN {NodeName} ELSE {"*"})}

NewExcludeResourceList(lists) ==
  UNION {lists[name] : name \in DOMAIN lists \cap {NodeName, "*"}}

\* Fault: a file that cannot be read is passed over like one that is missing.
ConfigureAnyway ==
  /\ pc = "configure"
  /\ excluded' = IF config.file = "parsed" THEN NewExcludeResourceList(config.lists)
                                           ELSE excluded
  /\ pc' = IF config.file = "malformed" THEN "failed" ELSE "prepare"
  /\ UNCHANGED <<machine, config, scans, pods, todo, zones>>

\* No path, or a path where there is nothing, is no error: nothing is excluded.
Configure ==
  /\ pc = "configure"
  /\ \/ /\ config.file \in {"none", "missing"}
        /\ pc' = "prepare"
        /\ UNCHANGED excluded
     \/ /\ config.file = "parsed"
        /\ excluded' = NewExcludeResourceList(config.lists)
        /\ pc' = "prepare"
     \/ /\ config.file \in {"unreadable", "malformed"}
        /\ pc' = "failed"
        /\ UNCHANGED excluded
  /\ UNCHANGED <<machine, config, scans, pods, todo, zones>>

\* The hardware's topology, sysfs and the kubelet are asked in turn.
NewResourcesAggregator ==
  /\ pc = "prepare"
  /\ \/ pc' = "failed"
     \/ pc' = "idle" /\ ~CannotRead(machine.sysfs)
  /\ UNCHANGED <<machine, config, excluded, scans, pods, todo, zones>>

-----------------------------------------------------------------------------
(* Aggregate                                                               *)

\* Fault: the zones of the last scan are taken on.
AggregateOnward ==
  /\ pc \in {"idle", "done"}
  /\ scans # <<>>
  /\ scans' = Tail(scans)
  /\ pods' = Head(scans)
  /\ todo' = pods'
  /\ zones' = IF pc = "idle" THEN InitialZones(machine, excluded) ELSE zones
  /\ pc' = "aggregating"
  /\ UNCHANGED <<machine, config, excluded>>

Aggregate ==
  /\ pc \in {"idle", "done"}
  /\ scans # <<>>
  /\ scans' = Tail(scans)
  /\ pods' = Head(scans)
  /\ todo' = pods'
  /\ zones' = InitialZones(machine, excluded)
  /\ pc' = "aggregating"
  /\ UNCHANGED <<machine, config, excluded>>

Entry == Head(todo)

Aggregating(isMemory) ==
  /\ pc = "aggregating"
  /\ todo # <<>>
  /\ (Entry.name \in MemoryNames) = isMemory

NextEntry == todo' = Tail(todo)
With(entry) == todo' = <<entry>> \o Tail(todo)
Fixed == UNCHANGED <<machine, config, excluded, scans, pods>>

-----------------------------------------------------------------------------
(* updateAvailable                                                         *)

\* IDs the tables do not know, or whose node has no zone, are skipped.
SkipsID(id) ==
  IsKnown(machine, Entry.name, id)
    => ResourceMap(machine, Entry.name, id) \notin DOMAIN zones

\* Fault: an unknown ID ends the loop.
UpdateAvailableReturning ==
  /\ Aggregating(FALSE)
  /\ Entry.data # <<>>
  /\ LET id == Head(Entry.data)
         node == ResourceMap(machine, Entry.name, id)
     IN  \/ /\ SkipsID(id)
            /\ NextEntry
            /\ UNCHANGED zones
         \/ /\ ~SkipsID(id)
            /\ Entry.name \in DOMAIN zones[node]
            /\ zones' = [zones EXCEPT ![node][Entry.name].available = @ - 1]
            /\ With([Entry EXCEPT !.data = Tail(@)])
  /\ UNCHANGED pc
  /\ Fixed

\* One ID is taken off the node the tables give it.  Using a resource its zone
\* lacks, because it is excluded, dereferences a nil pointer.
UpdateAvailable ==
  /\ Aggregating(FALSE)
  /\ Entry.data # <<>>
  /\ LET id == Head(Entry.data)
         node == ResourceMap(machine, Entry.name, id)
     IN  \/ /\ SkipsID(id)
            /\ With([Entry EXCEPT !.data = Tail(@)])
            /\ UNCHANGED <<zones, pc>>
         \/ /\ ~SkipsID(id)
            /\ Entry.name \in DOMAIN zones[node]
            /\ zones' = [zones EXCEPT ![node][Entry.name].available = @ - 1]
            /\ With([Entry EXCEPT !.data = Tail(@)])
            /\ UNCHANGED pc
         \/ /\ ~SkipsID(id)
            /\ Entry.name \notin DOMAIN zones[node]
            /\ pc' = "panicked"
            /\ UNCHANGED <<todo, zones>>
  /\ Fixed

AvailableUpdated ==
  /\ Aggregating(FALSE)
  /\ Entry.data = <<>>
  /\ NextEntry
  /\ UNCHANGED <<zones, pc>>
  /\ Fixed

-----------------------------------------------------------------------------
(* updateMemoryAvailable                                                   *)

\* Fault: a node may go below nothing.
TakenUnclamped(available) == Entry.size

\* What a node gives of the size asked for.
Taken(available) == IF Entry.size >= available THEN available ELSE Entry.size

\* Fault: the size asked for is not reduced by what a node gave.
RestUnreduced(taken) == [Entry EXCEPT !.nodes = Tail(@)]

\* The block without the node handled and what that node gave.
Rest(taken) == [Entry EXCEPT !.nodes = Tail(@), !.size = @ - taken]

\* One NUMA node of the block: what it has available is taken first, and the
\* rest is left to the nodes after it.  The function returns when nothing is
\* left to take or a node does not have the resource.
UpdateMemoryAvailable ==
  /\ Aggregating(TRUE)
  /\ Entry.nodes # <<>> /\ Entry.size > 0
  /\ LET node == Head(Entry.nodes)
         taken == Taken(zones[node][Entry.name].available)
     IN  \/ /\ node \notin DOMAIN zones
            /\ With([Entry EXCEPT !.nodes = Tail(@)])
            /\ UNCHANGED zones
         \/ /\ node \in DOMAIN zones
            /\ Entry.name \notin DOMAIN zones[node]
            /\ NextEntry
            /\ UNCHANGED zones
         \/ /\ node \in DOMAIN zones
            /\ Entry.name \in DOMAIN zones[node]
            /\ zones' = [zones EXCEPT ![node][Entry.name].available = @ - taken]
            /\ With(Rest(taken))
  /\ UNCHANGED pc
  /\ Fixed

MemoryUpdated ==
  /\ Aggregating(TRUE)
  /\ Entry.nodes = <<>> \/ Entry.size = 0
  /\ NextEntry
  /\ UNCHANGED <<zones, pc>>
  /\ Fixed

-----------------------------------------------------------------------------
Return ==
  /\ pc = "aggregating"
  /\ todo = <<>>
  /\ pc' = "done"
  /\ UNCHANGED <<todo, zones>>
  /\ Fixed

Next ==
  \/ Configure \/ NewResourcesAggregator \/ Aggregate
  \/ UpdateAvailable \/ AvailableUpdated
  \/ UpdateMemoryAvailable \/ MemoryUpdated
  \/ Return

Spec == Init /\ [][Next]_vars

-----------------------------------------------------------------------------
(* What the kubelet's managers grant, and so what a scan can show.         *)

\* A CPU or a device belongs to one container.
HeldOnce(entries) ==
  \A i, j \in DOMAIN entries : \A k \in DOMAIN entries[i].data, l \in DOMAIN entries[j].data :
    /\ entries[i].name = entries[j].name
    /\ entries[i].data[k] = entries[j].data[l]
    => i = j /\ k = l

GroupOf(entry) == Range(entry.nodes)

\* Memory of a kind is granted from groups of NUMA nodes that do not overlap, and
\* from a group no more than its nodes have.
GroupsFit(m, entries) ==
  LET amounts == NodeAllocatable(m)
  IN  \A name \in MemoryNames : \A i \in {k \in DOMAIN entries : entries[k].name = name} :
        /\ GroupOf(entries[i])
             \subseteq {node \in 0..(Len(m.nodes) - 1) \cap DOMAIN amounts :
                          name \in DOMAIN amounts[node]}
        /\ \A j \in DOMAIN entries : entries[j].name = name =>
             \/ GroupOf(entries[j]) = GroupOf(entries[i])
             \/ GroupOf(entries[j]) \cap GroupOf(entries[i]) = {}
        /\ SumFunctionOnSet([j \in DOMAIN entries |-> entries[j].size],
                            {j \in DOMAIN entries : /\ entries[j].name = name
                                                    /\ GroupOf(entries[j]) = GroupOf(entries[i])})
             <= SumFunctionOnSet([node \in GroupOf(entries[i]) |-> amounts[node][name]],
                                 GroupOf(entries[i]))

-----------------------------------------------------------------------------
(* Properties.                                                             *)

\* Every zone keeps what is available between nothing and the allocatable
\* amount, at every point of the loops.
AvailableBounded ==
  \A node \in DOMAIN zones : \A name \in DOMAIN zones[node] :
    /\ 0 <= zones[node][name].available
    /\ zones[node][name].available <= zones[node][name].allocatable

\* The nodes a device or CPU really sits on.
SitsOn(name, id, node) ==
  \E i \in DOMAIN AllDevices(machine) :
    LET device == AllDevices(machine)[i]
    IN  device.name = name /\ id \in device.ids /\ Times(device, node) > 0

\* The IDs of a resource that entries list.
Held(entries, name) ==
  UNION {Range(entries[i].data) : i \in {j \in DOMAIN entries : entries[j].name = name}}

HeldIDs(name, node) == {id \in Held(pods, name) : SitsOn(name, id, node)}

\* The API's definition of Available: allocatable minus what running pods hold
\* there.  For devices and CPUs, node by node.
AvailableIsUnreserved ==
  pc = "done" =>
    \A node \in DOMAIN zones : \A name \in DOMAIN zones[node] \ MemoryNames :
      zones[node][name].available =
        zones[node][name].allocatable - Cardinality(HeldIDs(name, node))

Amount(entries, name) ==
  SumFunctionOnSet([i \in DOMAIN entries |-> entries[i].size],
                   {i \in DOMAIN entries : entries[i].name = name})

Having(name) == {node \in DOMAIN zones : name \in DOMAIN zones[node]}

Total(name, field) ==
  SumFunctionOnSet([node \in Having(name) |-> zones[node][name][field]], Having(name))

\* For memory over all nodes, at every point of the loops: a block pinned to
\* several nodes is taken off once, whole, whatever the order of the pods.
MemoryConserved ==
  pc \in {"aggregating", "done"} => \A name \in MemoryNames \ excluded :
    Total(name, "available") =
      Total(name, "allocatable") - (Amount(pods, name) - Amount(todo, name))

\* An excluded resource is ignored: aggregation never fails on one.
NoPanic == pc # "panicked"

\* A node's processors are counted once, the reserved ones included, whether or
\* not the kubelet can allocate anything there.
CPUCapacity ==
  \A node \in DOMAIN zones \cap Range(machine.nodes) :
    "cpu" \in DOMAIN zones[node] =>
      zones[node]["cpu"].capacity = Cardinality(machine.processors[node])

\* Every node that the topology lists is published, one with nothing left to allocate
\* too, under the name of its ID and with the cost of reaching each node, under that
\* node's name (makeZoneName, makeCostsPerNumaNode).  Except: where the IDs have holes,
\* the code takes positions for IDs, and this is false.
ZonesAreTopology ==
  pc = "done" /\ (\A i \in DOMAIN machine.nodes : machine.nodes[i] = i - 1) =>
    {[name |-> zone.name, costs |-> zone.costs] : zone \in ZoneList(machine, zones)} =
    {[name  |-> MakeZoneName(node),
      costs |-> {[name  |-> MakeZoneName(machine.nodes[i]),
                  value |-> machine.distances[node][i]] : i \in DOMAIN machine.nodes}] :
       node \in Range(machine.nodes)}

ConfiguredFor(name) ==
  \E node \in {NodeName, "*"} \cap DOMAIN config.lists : name \in config.lists[node]

\* What the configuration file excludes for this node or for all is in no zone, and
\* all else that is allocatable is: the process never goes on without a file that is
\* there and cannot be read or parsed.  Except: a node with nothing allocatable shows its
\* reserved CPUs even if CPUs are excluded.
ExclusionHonoured ==
  pc \in {"aggregating", "done"} =>
    \A node \in DOMAIN zones \cap DOMAIN NodeAllocatable(machine) :
      DOMAIN zones[node] =
        {name \in DOMAIN NodeAllocatable(machine)[node] : ~ConfiguredFor(name)}

=============================================================================
