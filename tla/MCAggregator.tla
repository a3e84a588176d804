---------------------------- MODULE MCAggregator ----------------------------
(***************************************************************************)
(* Machines and pods for TLC's runs of Aggregator.  CPUs have small        *)
(* numbers, devices numbers from 10.                                       *)
(***************************************************************************)
EXTENDS Aggregator

Devices(name, ids, nodes) == [name |-> name, ids |-> ids, nodes |-> nodes]
Block(name, amount, nodes) == [name |-> name, amount |-> amount, nodes |-> nodes]

\* What a pod holds: IDs of a device or CPU, or a block of memory.
Holds(name, data) == [name |-> name, data |-> data, size |-> 0, nodes |-> <<>>]
HoldsMemory(name, size, nodes) ==
  [name |-> name, data |-> <<>>, size |-> size, nodes |-> nodes]

\* A kB of memory, and a huge page.
KB == 1024
Page == 2048 * KB

Sysfs(hugepages, pages) == [meminfo |-> <<4>>, hugepages |-> hugepages, pages |-> pages]

\* Two nodes of two processors, processor 0 reserved; a device on each node and
\* one the kubelet gives no node for; huge pages on node 1 only; sysfs shows no
\* huge pages directory for node 0.
TwoNodes ==
  [nodes |-> <<0, 1>>,
   processors |-> (0 :> {0, 1}) @@ (1 :> {2, 3}),
   cpus |-> {1, 2, 3},
   devices |-> <<Devices("gpu", {10}, <<0>>), Devices("gpu", {11}, <<1>>),
                 Devices("nic", {20}, <<>>)>>,
   memory |-> <<Block("memory", 2 * KB, <<0>>), Block("memory", 3 * KB, <<1>>),
                Block("hugepages-2Mi", Page, <<1>>)>>,
   sysfs |-> (0 :> Sysfs("missing", <<>>)) @@
             (1 :> Sysfs("present", (2048 :> 1) @@ (64 :> 0))),
   distances |-> (0 :> <<10, 21>>) @@ (1 :> <<21, 10>>)]

\* Everything of node 1 is reserved for the system.
ReservedNode ==
  [TwoNodes EXCEPT
     !.cpus = {0, 1}, !.devices = <<Devices("gpu", {10}, <<0>>)>>,
     !.memory = <<Block("memory", 2 * KB, <<0>>)>>]

\* Node 1 is offline, so that the second node has ID 2.
Hole ==
  [nodes |-> <<0, 2>>,
   processors |-> (0 :> {0, 1}) @@ (2 :> {4, 5}),
   cpus |-> {1, 4, 5},
   devices |-> <<Devices("gpu", {10}, <<0>>), Devices("gpu", {11}, <<2>>)>>,
   memory |-> <<Block("memory", 2 * KB, <<0>>), Block("memory", 2 * KB, <<2>>)>>,
   sysfs |-> (0 :> Sysfs("present", <<>>)) @@ (2 :> Sysfs("present", <<>>)),
   distances |-> (0 :> <<10, 21>>) @@ (2 :> <<21, 10>>)]

\* Files that are not as the process expects them.
Unreadable == [TwoNodes EXCEPT !.sysfs[1].meminfo = <<>>]
UnreadablePages == [TwoNodes EXCEPT !.sysfs[1].hugepages = "unreadable"]

\* One device close to both nodes, as multi-socket devices report it.
SharedDevice == [TwoNodes EXCEPT !.devices = <<Devices("gpu", {10}, <<0, 1>>)>>]

Cpus == Holds("cpu", <<1, 2>>)
\* Device 12 was plugged in after the tables were computed.
Gpus == Holds("gpu", <<12, 11>>)
Nic == Holds("nic", <<20>>)

\* Blocks over a group of two nodes, and blocks of one node each.
Grouped == <<HoldsMemory("memory", 3 * KB, <<0, 1>>), HoldsMemory("memory", KB, <<0, 1>>)>>
Pinned == <<HoldsMemory("memory", 2 * KB, <<0>>), HoldsMemory("hugepages-2Mi", Page, <<1>>)>>

\* The pods are listed in any order; between two scans the first one ends.
CasesOf(m, entries) ==
  {[machine |-> m, scans |-> <<order, Tail(order)>>] :
     order \in SetToAllKPermutations(Range(entries)) \ {<<>>}}


MCCases ==
  CasesOf(TwoNodes, <<Cpus, Gpus>> \o Grouped) \cup
  CasesOf(TwoNodes, <<Gpus, Nic>> \o Pinned) \cup
  CasesOf(ReservedNode, <<Holds("cpu", <<0>>), Holds("gpu", <<10>>)>>) \cup
    CasesOf(Hole, <<Holds("cpu", <<1, 4>>), Holds("gpu", <<11, 10>>)>>) \cup
  CasesOf(Unreadable, <<Cpus>>) \cup CasesOf(UnreadablePages, <<Cpus>>)

\* What the proofs assume of the kubelet's grants and of the tables.
ASSUME MCCasesAreLegal ==
  \A case \in MCCases :
    /\ OneNodeEach(case.machine)
    /\ OnlyProcessorsAreCPUs(case.machine)
    /\ \A i \in DOMAIN case.scans :
         HeldOnce(case.scans[i]) /\ GroupsFit(case.machine, case.scans[i])


MCGpuCases == CasesOf(TwoNodes, <<Cpus, Gpus>>)

MCSharedCases == CasesOf(SharedDevice, <<Cpus, Holds("gpu", <<10>>)>>)

File(file, lists) == [file |-> file, lists |-> lists]
NoLists == [name \in {} |-> {}]

\* The node has a list, all nodes have one, and another node has one.
Lists == [worker |-> {"memory"}, other |-> {"gpu"}] @@ ("*" :> {"hugepages-2Mi"})

MCConfigs ==
  {File(file, NoLists) : file \in {"none", "missing"}}
    \cup {File(file, Lists) : file \in {"unreadable", "malformed", "parsed"}}
MCNoneExcluded == {File("none", NoLists)}
MCGpuExcluded == {File("parsed", [worker |-> {"gpu"}])}

=============================================================================
