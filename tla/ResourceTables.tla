--------------------------- MODULE ResourceTables ---------------------------
(***************************************************************************)
(* The tables the aggregator computes once, from what the kubelet says is  *)
(* allocatable and from the hardware's topology                            *)
(* (NewResourcesAggregatorFromData), and the zones it starts each          *)
(* aggregation from.                                                       *)
(*                                                                         *)
(* A machine is a record                                                   *)
(*   nodes       sequence of the NUMA node IDs the topology lists          *)
(*   processors  node ID -> set of its logical processors                  *)
(*   cpus        set of the allocatable processors                         *)
(*   devices     sequence of [name, ids, nodes]: ContainerDevices          *)
(*   memory      sequence of [name, amount, nodes]: ContainerMemory        *)
(*   sysfs       what NUMAMemory reads                                     *)
(*   distances   node ID -> sequence of its distances to the listed nodes  *)
(* Processor and device IDs are of one kind.                               *)
(***************************************************************************)
EXTENDS NUMAMemory, FiniteSets, FiniteSetsExt, SequencesExt

IsMachine(machine) ==
  /\ machine.nodes \in Seq(Nat)
  /\ machine.processors \in [Range(machine.nodes) -> SUBSET Nat]
  /\ \A node \in Range(machine.nodes) : IsFiniteSet(machine.processors[node])
  /\ machine.cpus \in SUBSET Nat
  /\ machine.devices \in Seq([name : STRING, ids : SUBSET Nat, nodes : Seq(Nat)])
  /\ \A i \in DOMAIN machine.devices : IsFiniteSet(machine.devices[i].ids)
  /\ machine.memory \in Seq([name : STRING, amount : Nat, nodes : Seq(Nat)])
  /\ machine.distances \in [Range(machine.nodes) -> [DOMAIN machine.nodes -> Nat]]
  /\ \A node \in DOMAIN machine.sysfs :
       /\ machine.sysfs[node].meminfo \in Seq(Nat)
       /\ DOMAIN machine.sysfs[node].pages \subseteq {64, 2048}
       /\ \A size \in DOMAIN machine.sysfs[node].pages : machine.sysfs[node].pages[size] \in Nat

\* getContainerDevicesFromAllocatableResources: CPUs become devices, an entry for
\* each node.  The code makes none for a node without any; here it is an entry of no
\* node, which counts nowhere.
CPUDevices(machine) ==
  LET OnNode(node) == machine.cpus \cap machine.processors[node]
  IN  [i \in DOMAIN machine.nodes |->
         LET node == machine.nodes[i]
         IN  [name |-> "cpu", ids |-> OnNode(node),
              nodes |-> IF OnNode(node) = {} THEN <<>> ELSE <<node>>]]

AllDevices(machine) == machine.devices \o CPUDevices(machine)

\* No ID of a resource is listed with two nodes.
OneNodeEach(machine) ==
  LET devices == AllDevices(machine)
  IN  \A i, j \in DOMAIN devices :
        /\ devices[i].name = devices[j].name
        /\ devices[i].ids \cap devices[j].ids # {}
        => \A node \in Range(devices[i].nodes), other \in Range(devices[j].nodes) :
             node = other

\* The CPUs are those of the topology, which lists each node once.
OnlyProcessorsAreCPUs(machine) ==
  /\ IsInjective(machine.nodes)
  /\ \A i \in DOMAIN machine.devices : machine.devices[i].name # "cpu"
  /\ \A i \in DOMAIN machine.memory : machine.memory[i].name # "cpu"

-----------------------------------------------------------------------------
\* makeResourceMap: the entries that write a node for an ID.
Writers(devices, name, id) ==
  {i \in DOMAIN devices :
     devices[i].name = name /\ id \in devices[i].ids /\ devices[i].nodes # <<>>}

IsKnown(machine, name, id) == Writers(AllDevices(machine), name, id) # {}

\* What is written last stays: the last node of the last entry.
ResourceMap(machine, name, id) ==
  LET devices == AllDevices(machine)
  IN  Last(devices[Max(Writers(devices, name, id))].nodes)

\* What makeNodeAllocatable adds up: the devices by number, the memory by size.
Amounts(machine) ==
  LET devices == AllDevices(machine)
  IN  [i \in DOMAIN devices |->
         [name |-> devices[i].name, amount |-> Cardinality(devices[i].ids),
          nodes |-> devices[i].nodes]]
      \o machine.memory

\* How often an entry lists a node.
Times(entry, node) == Cardinality({i \in DOMAIN entry.nodes : entry.nodes[i] = node})

\* makeNodeAllocatable: each node of a device or memory block counts it whole.
NodeAllocatable(machine) ==
  LET amounts == Amounts(machine)
      On(node) == {i \in DOMAIN amounts : Times(amounts[i], node) > 0}
  IN  [node \in UNION {Range(entry.nodes) : entry \in Range(amounts)} |->
        [name \in {amounts[i].name : i \in On(node)} |->
           SumFunctionOnSet([i \in On(node) |-> amounts[i].amount * Times(amounts[i], node)],
                            {i \in On(node) : amounts[i].name = name})]]

\* Fault: the IDs of the two sides are formatted differently, none matches.
AllReserved(machine, node) ==
  IF node \in Range(machine.nodes) THEN Cardinality(machine.processors[node]) ELSE 0

\* makeReservedCPUMap, as the number of its entries: the processors of a node
\* that are not allocatable.
ReservedCPUs(machine, node) ==
  IF node \in Range(machine.nodes)
    THEN Cardinality(machine.processors[node] \ machine.cpus)
    ELSE 0

-----------------------------------------------------------------------------
ResourceData(allocatable, capacity) ==
  [available |-> allocatable, allocatable |-> allocatable, capacity |-> capacity]

\* Of a node or a resource that sysfs does not show, the allocatable amount.
MemoryCapacity(machine, node, name, allocatable) ==
  LET capacity == GetMemoryResourcesCapacity(machine.sysfs)
  IN  IF node \in DOMAIN capacity /\ name \in DOMAIN capacity[node]
        THEN capacity[node][name] ELSE allocatable

Capacity(machine, node, name, allocatable) ==
  CASE name = "cpu" -> allocatable + ReservedCPUs(machine, node)
    [] name \in MemoryNames -> MemoryCapacity(machine, node, name, allocatable)
    [] OTHER -> allocatable

\* Fault: the loop runs over the nodes with something allocatable.
AllocatableZones(machine, excluded) ==
  LET allocatable == NodeAllocatable(machine)
  IN  [node \in DOMAIN allocatable |->
         [name \in DOMAIN allocatable[node] \ excluded |->
            ResourceData(allocatable[node][name],
                         Capacity(machine, node, name, allocatable[node][name]))]]

\* The first loop of Aggregate.  A node is the position of an entry in the
\* topology's list, which is the node's ID only where IDs have no holes.
InitialZones(machine, excluded) ==
  LET allocatable == NodeAllocatable(machine)
      Listed(node) ==
        [name \in DOMAIN allocatable[node] \ excluded |->
           ResourceData(allocatable[node][name],
                        Capacity(machine, node, name, allocatable[node][name]))]
      Unlisted(node) ==
        [name \in {"cpu"} |-> ResourceData(0, ReservedCPUs(machine, node))]
  IN  [node \in 0..(Len(machine.nodes) - 1) |->
         IF node \in DOMAIN allocatable THEN Listed(node) ELSE Unlisted(node)]

-----------------------------------------------------------------------------
(* What Aggregate makes of the zones it has computed.                      *)

MakeZoneName(node) == <<"node", node>>

\* None for a zone whose number is no node's ID; else a cost for each position in
\* the vector of distances, which has no place for a node that is offline.
MakeCostsPerNumaNode(machine, node) ==
  IF node \notin Range(machine.nodes)
    THEN {}
    ELSE {[name |-> MakeZoneName(i - 1), value |-> machine.distances[node][i]] :
            i \in DOMAIN machine.distances[node]}

\* The ZoneList, whose order depends on Go's maps.
ZoneList(machine, zones) ==
  {[name |-> MakeZoneName(node), costs |-> MakeCostsPerNumaNode(machine, node),
    resources |-> zones[node]] : node \in DOMAIN zones}

=============================================================================
