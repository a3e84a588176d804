-------------------------- MODULE AggregatorProofs --------------------------
(***************************************************************************)
(* Proofs about Aggregator, for any machine, pods and configuration: that  *)
(* the zones have what the configuration leaves, to the end of the loops;  *)
(* that what they offer is between nothing and all there is, and is        *)
(* exactly what no pod holds; and that a node's CPU capacity is the number *)
(* of its processors.                                                      *)
(*                                                                         *)
(* What the kubelet and the machine grant is assumed by name where it is   *)
(* needed: DevicesHeldOnce, DevicesHaveOneNode, CPUsAreProcessors.         *)
(***************************************************************************)
EXTENDS Aggregator, ResourceTablesProofs

\* What ExclusionHonoured rests on: the exclusions are those of the configuration from
\* the time it is read, in every later aggregation.
ExclusionInv ==
  /\ config \in Configs
  /\ pc = "configure" => excluded = {}
  /\ pc \notin {"configure", "failed"} =>
       \A name : name \in excluded <=> ConfiguredFor(name)
  /\ ExclusionHonoured

\* Before the configuration is read nothing is excluded, and no aggregation has begun.
LEMMA ExclusionInit == Init => ExclusionInv
BY DEF Init, ExclusionInv, ExclusionHonoured

\* The lists of the node and of all nodes, together.
LEMMA ExcludeListFacts ==
  ASSUME NEW name
  PROVE  name \in NewExcludeResourceList(config.lists) <=> ConfiguredFor(name)
BY DEF NewExcludeResourceList, ConfiguredFor

\* The zones an aggregation starts from.
LEMMA InitialZonesFacts ==
  ASSUME NEW node \in DOMAIN InitialZones(machine, excluded)
                        \cap DOMAIN NodeAllocatable(machine)
  PROVE  DOMAIN InitialZones(machine, excluded)[node]
           = DOMAIN NodeAllocatable(machine)[node] \ excluded
<1>1. InitialZones(machine, excluded)[node] = Listed(machine, excluded, node)
  BY InitialZone
<1> QED BY <1>1 DEF Listed

\* A step of the loops, which changes amounts only.
LEMMA LoopKeepsExclusionInv ==
  ASSUME ExclusionInv, UNCHANGED <<machine, config, excluded>>,
         pc = "aggregating", pc' # "configure",
         DOMAIN zones' = DOMAIN zones,
         \A node \in DOMAIN zones : DOMAIN zones'[node] = DOMAIN zones[node]
  PROVE  ExclusionInv'
BY DEF ExclusionInv, ExclusionHonoured, ConfiguredFor

\* No step of the process or its loops disturbs what ExclusionHonoured rests on.
LEMMA ExclusionStep == ExclusionInv /\ [Next]_vars => ExclusionInv'
<1> SUFFICES ASSUME ExclusionInv, [Next]_vars PROVE ExclusionInv'
  OBVIOUS
<1> USE DEF Fixed, Aggregating
<1>1. CASE Configure
  <2>1. UNCHANGED config /\ pc' \in {"prepare", "failed"}
    BY <1>1 DEF Configure
  <2>2. ASSUME pc' = "prepare", NEW name
        PROVE  name \in excluded' <=> ConfiguredFor(name)'
    <3>1. CASE config.file \in {"none", "missing"}
      <4>1. excluded' = {}
        BY <1>1, <2>2, <3>1 DEF Configure, ExclusionInv
      <4>2. DOMAIN config.lists = {}
        BY <3>1, AggregatorAssumption DEF ExclusionInv
      <4> QED BY <2>1, <4>1, <4>2 DEF ConfiguredFor
    <3>2. CASE config.file = "parsed"
      <4>1. excluded' = NewExcludeResourceList(config.lists)
        BY <1>1, <3>2 DEF Configure
      <4>2. ConfiguredFor(name)' <=> ConfiguredFor(name)
        BY <2>1 DEF ConfiguredFor
      <4> QED BY <4>1, <4>2, ExcludeListFacts
    <3> QED BY <1>1, <2>2, <3>1, <3>2 DEF Configure
  <2> QED BY <2>1, <2>2 DEF ExclusionInv, ExclusionHonoured
<1>2. CASE NewResourcesAggregator
  BY <1>2 DEF NewResourcesAggregator, ExclusionInv, ExclusionHonoured, ConfiguredFor
<1>3. CASE Aggregate
  <2>1. /\ UNCHANGED <<machine, config, excluded>>
        /\ zones' = InitialZones(machine, excluded)
        /\ pc \in {"idle", "done"} /\ pc' = "aggregating"
    BY <1>3 DEF Aggregate
  <2>2. \A name : name \in excluded <=> ConfiguredFor(name)
    BY <2>1 DEF ExclusionInv
  <2>3. \A name : ConfiguredFor(name)' <=> ConfiguredFor(name)
    BY <2>1 DEF ConfiguredFor
  <2>4. ASSUME NEW node \in DOMAIN InitialZones(machine, excluded)
                              \cap DOMAIN NodeAllocatable(machine)
        PROVE  DOMAIN InitialZones(machine, excluded)[node]
                 = {name \in DOMAIN NodeAllocatable(machine)[node] : ~ConfiguredFor(name)}
    BY <2>2, InitialZonesFacts
  <2>5. ExclusionHonoured'
    BY <2>1, <2>3, <2>4 DEF ExclusionHonoured
  <2> QED BY <2>1, <2>2, <2>3, <2>5 DEF ExclusionInv
<1>4. CASE UpdateAvailable
  <2>1. /\ DOMAIN zones' = DOMAIN zones
        /\ \A node \in DOMAIN zones : DOMAIN zones'[node] = DOMAIN zones[node]
    BY <1>4 DEF UpdateAvailable
  <2> QED BY <1>4, <2>1, LoopKeepsExclusionInv DEF UpdateAvailable
<1>5. CASE UpdateMemoryAvailable
  <2>1. /\ DOMAIN zones' = DOMAIN zones
        /\ \A node \in DOMAIN zones : DOMAIN zones'[node] = DOMAIN zones[node]
    BY <1>5 DEF UpdateMemoryAvailable
  <2> QED BY <1>5, <2>1, LoopKeepsExclusionInv DEF UpdateMemoryAvailable
<1>6. CASE AvailableUpdated \/ MemoryUpdated \/ Return
  BY <1>6, LoopKeepsExclusionInv DEF AvailableUpdated, MemoryUpdated, Return
<1>7. CASE UNCHANGED vars
  BY <1>7 DEF vars, ExclusionInv, ExclusionHonoured, ConfiguredFor
<1> QED BY <1>1, <1>2, <1>3, <1>4, <1>5, <1>6, <1>7 DEF Next

\* What the configuration excludes stays out of every zone with something allocatable,
\* and nothing else is lost from one, scan after scan, whether the file can be read or
\* the process ends without aggregating (configure, NewExcludeResourceList,
\* nodeResources.Aggregate).
THEOREM ExclusionHonouredHolds == Spec => []ExclusionHonoured
<1>1. ExclusionInv => ExclusionHonoured
  BY DEF ExclusionInv
<1> QED BY <1>1, ExclusionInit, ExclusionStep, PTL DEF Spec

-----------------------------------------------------------------------------
(* The loops over the pods.                                                *)

Loops == {"aggregating", "done", "panicked"}

\* What a loop leaves of a sequence that it takes from the front.
EndOf(whole, rest) ==
  /\ Len(rest) <= Len(whole)
  /\ \A k \in DOMAIN rest : rest[k] = whole[k + (Len(whole) - Len(rest))]

LeftOf(whole, rest) ==
  /\ rest.name = whole.name
  /\ rest.size <= whole.size
  /\ EndOf(whole.data, rest.data)
  /\ EndOf(whole.nodes, rest.nodes)

\* How many entries are handled.
Past == Len(pods) - Len(todo)

\* What is aggregated, and on what machine, is one of the cases.
SourceInv ==
  /\ scans \in Seq(Seq(Entries))
  /\ \E case \in Cases :
       /\ machine = case.machine
       /\ Range(scans) \subseteq Range(case.scans)
       /\ pc \in Loops => pods \in Range(case.scans)
  /\ pc \notin Loops => zones = <<>>

\* The entries not handled are the last ones, the first of them in part.
TodoInv ==
  pc \in Loops =>
    /\ pods \in Seq(Entries) /\ todo \in Seq(Entries)
    /\ Len(todo) <= Len(pods)
    /\ \A i \in DOMAIN todo : LeftOf(pods[i + Past], todo[i])
    /\ \A i \in DOMAIN todo : i > 1 => todo[i] = pods[i + Past]

\* The loops change nothing of the zones but what is available.
ZonesInv ==
  pc \in Loops =>
    LET initial == InitialZones(machine, excluded)
    IN  /\ DOMAIN zones = DOMAIN initial
        /\ \A node \in DOMAIN zones :
             /\ DOMAIN zones[node] = DOMAIN initial[node]
             /\ \A name \in DOMAIN zones[node] :
                  /\ DOMAIN zones[node][name] = Fields
                  /\ zones[node][name].available \in Int
                  /\ zones[node][name].allocatable = initial[node][name].allocatable
                  /\ zones[node][name].capacity = initial[node][name].capacity

\* The IDs handled that makeResourceMap gives the node.
Used(name, node) ==
  {id \in Held(pods, name) \ Held(todo, name) :
     IsKnown(machine, name, id) /\ ResourceMap(machine, name, id) = node}

\* What AvailableIsUnreserved and the devices' part of AvailableBounded rest on: at
\* every point of the loops, what is gone is what was handled.
UsedInv ==
  pc \in Loops =>
    \A node \in DOMAIN zones : \A name \in DOMAIN zones[node] \ MemoryNames :
      zones[node][name].available
        = zones[node][name].allocatable - Cardinality(Used(name, node))

\* A node gives no more memory than it has available.
MemoryInv ==
  pc \in Loops =>
    \A node \in DOMAIN zones : \A name \in DOMAIN zones[node] \cap MemoryNames :
      /\ 0 <= zones[node][name].available
      /\ zones[node][name].available <= zones[node][name].allocatable

\* Taking the first of a sequence, or putting another in its place.
LEMMA TailFacts ==
  ASSUME NEW S, NEW seq \in Seq(S), seq # <<>>
  PROVE  /\ Tail(seq) \in Seq(S) /\ Len(Tail(seq)) = Len(seq) - 1
         /\ Head(seq) \in S /\ Head(seq) = seq[1] /\ 1 \in DOMAIN seq
         /\ \A i \in DOMAIN Tail(seq) : i + 1 \in DOMAIN seq /\ Tail(seq)[i] = seq[i + 1]
         /\ Range(Tail(seq)) \subseteq Range(seq) /\ Head(seq) \in Range(seq)
<1>1. /\ Tail(seq) \in Seq(S) /\ Len(Tail(seq)) = Len(seq) - 1
      /\ Head(seq) \in S /\ Head(seq) = seq[1] /\ 1 \in DOMAIN seq
      /\ \A i \in DOMAIN Tail(seq) : i + 1 \in DOMAIN seq /\ Tail(seq)[i] = seq[i + 1]
  OBVIOUS
<1> QED BY <1>1 DEF Range

\* A sequence with another first element.
LEMMA FirstReplaced ==
  ASSUME NEW S, NEW seq \in Seq(S), seq # <<>>, NEW first \in S
  PROVE  LET new == <<first>> \o Tail(seq)
         IN  /\ new \in Seq(S) /\ Len(new) = Len(seq) /\ DOMAIN new = DOMAIN seq
             /\ new[1] = first
             /\ \A i \in DOMAIN seq : i > 1 => new[i] = seq[i]
<1>1. /\ <<first>> \in Seq(S) /\ Len(<<first>>) = 1 /\ <<first>>[1] = first
      /\ Tail(seq) \in Seq(S) /\ Len(Tail(seq)) = Len(seq) - 1
      /\ \A i \in DOMAIN Tail(seq) : Tail(seq)[i] = seq[i + 1]
  OBVIOUS
<1>2. \A i \in DOMAIN seq : i > 1 => (<<first>> \o Tail(seq))[i] = seq[i]
  <2> SUFFICES ASSUME NEW i \in DOMAIN seq, i > 1
               PROVE  (<<first>> \o Tail(seq))[i] = seq[i]
    OBVIOUS
  <2>1. i - 1 \in DOMAIN Tail(seq) /\ i \in Nat
    BY <1>1
  <2>2. (<<first>> \o Tail(seq))[i] = Tail(seq)[i - 1]
    BY <1>1, <2>1
  <2> QED BY <1>1, <2>1, <2>2
<1> QED BY <1>1, <1>2

\* A sequence is what is left of it, and so is what is left without its first.
LEMMA EndOfAll ==
  ASSUME NEW S, NEW whole \in Seq(S) PROVE EndOf(whole, whole)
BY DEF EndOf

\* The tail of an end of a sequence is an end of it.
LEMMA EndOfTail ==
  ASSUME NEW S, NEW whole \in Seq(S), NEW rest \in Seq(S), rest # <<>>, EndOf(whole, rest)
  PROVE  EndOf(whole, Tail(rest))
<1>1. /\ Tail(rest) \in Seq(S) /\ Len(Tail(rest)) = Len(rest) - 1
      /\ \A i \in DOMAIN Tail(rest) : i + 1 \in DOMAIN rest /\ Tail(rest)[i] = rest[i + 1]
  BY TailFacts
<1>2. \A i \in DOMAIN Tail(rest) : i \in Nat
  BY <1>1
<1>3. Len(rest) \in Nat /\ Len(whole) \in Nat
  OBVIOUS
<1> QED BY <1>1, <1>2, <1>3 DEF EndOf

\* What is left is part of it, at the place it had.
LEMMA EndOfFacts ==
  ASSUME NEW S, NEW whole \in Seq(S), NEW rest \in Seq(S), EndOf(whole, rest)
  PROVE  /\ Len(whole) - Len(rest) \in Nat
         /\ \A k \in DOMAIN rest : /\ k + (Len(whole) - Len(rest)) \in DOMAIN whole
                                   /\ rest[k] = whole[k + (Len(whole) - Len(rest))]
         /\ Range(rest) \subseteq Range(whole)
<1>1. Len(whole) - Len(rest) \in Nat
  BY DEF EndOf
<1>2. \A k \in DOMAIN rest : /\ k + (Len(whole) - Len(rest)) \in DOMAIN whole
                             /\ rest[k] = whole[k + (Len(whole) - Len(rest))]
  BY DEF EndOf
<1> QED BY <1>1, <1>2 DEF Range

-----------------------------------------------------------------------------
(* What a step of the loops does to the entries left and to the zones.     *)

\* Something is taken off one resource of one zone.
LEMMA TakeOff ==
  ASSUME NEW old, NEW node \in DOMAIN old, NEW name \in DOMAIN old[node], NEW amount \in Int,
         \A n \in DOMAIN old : \A m \in DOMAIN old[n] :
           DOMAIN old[n][m] = Fields /\ old[n][m].available \in Int
  PROVE  LET new == [old EXCEPT ![node][name].available = @ - amount]
         IN  /\ DOMAIN new = DOMAIN old
             /\ \A n \in DOMAIN old :
                  /\ DOMAIN new[n] = DOMAIN old[n]
                  /\ \A m \in DOMAIN old[n] :
                       /\ DOMAIN new[n][m] = Fields
                       /\ new[n][m].allocatable = old[n][m].allocatable
                       /\ new[n][m].capacity = old[n][m].capacity
                       /\ new[n][m].available \in Int
                       /\ n = node /\ m = name =>
                            new[n][m].available = old[n][m].available - amount
                       /\ n # node \/ m # name => new[n][m] = old[n][m]
<1> DEFINE data == [old[node][name] EXCEPT !.available = @ - amount]
           row == [old[node] EXCEPT ![name] = data]
           new == [old EXCEPT ![node] = row]
<1>1. /\ DOMAIN data = Fields /\ data.allocatable = old[node][name].allocatable
      /\ data.capacity = old[node][name].capacity
      /\ data.available = old[node][name].available - amount /\ data.available \in Int
  BY DEF Fields
<1> HIDE DEF data
<1>2. /\ DOMAIN row = DOMAIN old[node] /\ row[name] = data
      /\ \A m \in DOMAIN old[node] : m # name => row[m] = old[node][m]
  OBVIOUS
<1> HIDE DEF row
<1>3. /\ DOMAIN new = DOMAIN old /\ new[node] = row
      /\ \A n \in DOMAIN old : n # node => new[n] = old[n]
  OBVIOUS
<1>4. [old EXCEPT ![node][name].available = @ - amount] = new
  BY DEF data, row
<1> HIDE DEF new
<1>5. \A n \in DOMAIN old :
        /\ DOMAIN new[n] = DOMAIN old[n]
        /\ \A m \in DOMAIN old[n] :
             /\ DOMAIN new[n][m] = Fields
             /\ new[n][m].allocatable = old[n][m].allocatable
             /\ new[n][m].capacity = old[n][m].capacity
             /\ new[n][m].available \in Int
             /\ n = node /\ m = name => new[n][m].available = old[n][m].available - amount
             /\ n # node \/ m # name => new[n][m] = old[n][m]
  <2> SUFFICES ASSUME NEW n \in DOMAIN old, NEW m \in DOMAIN old[n]
               PROVE  /\ DOMAIN new[n][m] = Fields
                      /\ new[n][m].allocatable = old[n][m].allocatable
                      /\ new[n][m].capacity = old[n][m].capacity
                      /\ new[n][m].available \in Int
                      /\ n = node /\ m = name =>
                           new[n][m].available = old[n][m].available - amount
                      /\ n # node \/ m # name => new[n][m] = old[n][m]
    BY <1>2, <1>3
  <2>1. CASE n = node /\ m = name
    BY <1>1, <1>2, <1>3, <2>1
  <2>2. CASE n # node \/ m # name
    <3>1. new[n][m] = old[n][m]
      BY <1>2, <1>3, <2>2
    <3> QED BY <2>2, <3>1
  <2> QED BY <2>1, <2>2
<1> QED BY <1>3, <1>4, <1>5

\* What is left of an entry when an ID or a node of it is handled.
LEMMA LeftOfAll == ASSUME NEW entry \in Entries PROVE LeftOf(entry, entry)
<1>1. entry.size \in Nat /\ entry.data \in Seq(Nat) /\ entry.nodes \in Seq(Nat)
  BY DEF Entries
<1> QED BY <1>1, EndOfAll DEF LeftOf

\* An entry of which the first ID is done.
LEMMA IDHandled ==
  ASSUME NEW entry \in Entries, entry.data # <<>>
  PROVE  LET rest == [entry EXCEPT !.data = Tail(@)]
         IN  /\ rest \in Entries /\ LeftOf(entry, rest)
             /\ rest.name = entry.name /\ rest.data = Tail(entry.data)
             /\ rest.size = entry.size /\ rest.nodes = entry.nodes
<1> DEFINE rest == [entry EXCEPT !.data = Tail(@)]
<1>1. /\ entry.size \in Nat /\ entry.data \in Seq(Nat) /\ entry.nodes \in Seq(Nat)
      /\ entry.name \in STRING
  BY DEF Entries
<1>2. Tail(entry.data) \in Seq(Nat)
  BY <1>1, TailFacts
<1>3. /\ rest.name = entry.name /\ rest.data = Tail(entry.data)
      /\ rest.size = entry.size /\ rest.nodes = entry.nodes /\ rest \in Entries
  BY <1>1, <1>2 DEF Entries
<1>4. EndOf(entry.data, Tail(entry.data)) /\ EndOf(entry.nodes, entry.nodes)
  BY <1>1, EndOfAll, EndOfTail
<1> HIDE DEF rest
<1>5. LeftOf(entry, rest)
  BY <1>1, <1>3, <1>4 DEF LeftOf
<1> QED BY <1>3, <1>5 DEF rest

\* An entry of which the first node is done, and so much of its block with it.
LEMMA NodeHandled ==
  ASSUME NEW entry \in Entries, entry.nodes # <<>>, NEW taken \in Nat, taken <= entry.size
  PROVE  LET rest == [entry EXCEPT !.nodes = Tail(@), !.size = @ - taken]
             same == [entry EXCEPT !.nodes = Tail(@)]
         IN  /\ rest \in Entries /\ LeftOf(entry, rest)
             /\ rest.name = entry.name /\ rest.nodes = Tail(entry.nodes)
             /\ rest.data = entry.data /\ rest.size = entry.size - taken
             /\ same \in Entries /\ LeftOf(entry, same)
             /\ same.data = entry.data
<1> DEFINE rest == [entry EXCEPT !.nodes = Tail(@), !.size = @ - taken]
           same == [entry EXCEPT !.nodes = Tail(@)]
<1>1. /\ entry.size \in Nat /\ entry.data \in Seq(Nat) /\ entry.nodes \in Seq(Nat)
      /\ entry.name \in STRING
  BY DEF Entries
<1>2. Tail(entry.nodes) \in Seq(Nat) /\ entry.size - taken \in Nat
  BY <1>1, TailFacts
<1>3. /\ rest.name = entry.name /\ rest.data = entry.data
      /\ rest.size = entry.size - taken /\ rest.nodes = Tail(entry.nodes) /\ rest \in Entries
  BY <1>1, <1>2 DEF Entries
<1>4. /\ same.name = entry.name /\ same.data = entry.data
      /\ same.size = entry.size /\ same.nodes = Tail(entry.nodes) /\ same \in Entries
  BY <1>1, <1>2 DEF Entries
<1>5. EndOf(entry.nodes, Tail(entry.nodes)) /\ EndOf(entry.data, entry.data)
  BY <1>1, EndOfAll, EndOfTail
<1>6. entry.size - taken <= entry.size
  BY <1>1
<1> HIDE DEF rest, same
<1>7. LeftOf(entry, rest) /\ LeftOf(entry, same)
  BY <1>1, <1>3, <1>4, <1>5, <1>6 DEF LeftOf
<1> QED BY <1>3, <1>4, <1>7 DEF rest, same

\* And what is left of that.
LEMMA LeftOfTransitive ==
  ASSUME NEW a \in Entries, NEW b \in Entries, NEW c \in Entries, LeftOf(a, b), LeftOf(b, c)
  PROVE  LeftOf(a, c)
<1>1. ASSUME NEW x \in Seq(Nat), NEW y \in Seq(Nat), NEW z \in Seq(Nat),
             EndOf(x, y), EndOf(y, z)
      PROVE  EndOf(x, z)
  <2>1. /\ Len(x) - Len(y) \in Nat /\ Len(y) - Len(z) \in Nat
        /\ \A k \in DOMAIN z : /\ k + (Len(y) - Len(z)) \in DOMAIN y
                               /\ z[k] = y[k + (Len(y) - Len(z))]
        /\ \A k \in DOMAIN y : y[k] = x[k + (Len(x) - Len(y))]
    BY <1>1, EndOfFacts
  <2>2. Len(x) \in Nat /\ Len(y) \in Nat /\ Len(z) \in Nat /\ DOMAIN z \subseteq Nat
    OBVIOUS
  <2>3. \A k \in DOMAIN z : z[k] = x[k + (Len(x) - Len(z))]
    <3> SUFFICES ASSUME NEW k \in DOMAIN z PROVE z[k] = x[k + (Len(x) - Len(z))]
      OBVIOUS
    <3>1. z[k] = x[(k + (Len(y) - Len(z))) + (Len(x) - Len(y))]
      BY <2>1
    <3>2. (k + (Len(y) - Len(z))) + (Len(x) - Len(y)) = k + (Len(x) - Len(z))
      BY <2>2
    <3> QED BY <3>1, <3>2
  <2> QED BY <2>1, <2>2, <2>3 DEF EndOf
<1>2. \A e \in Entries : e.size \in Nat /\ e.data \in Seq(Nat) /\ e.nodes \in Seq(Nat)
  BY DEF Entries
<1>3. EndOf(a.data, c.data) /\ EndOf(a.nodes, c.nodes)
  BY <1>1, <1>2 DEF LeftOf
<1>4. c.size <= a.size /\ c.name = a.name
  BY <1>2 DEF LeftOf
<1> QED BY <1>3, <1>4 DEF LeftOf

\* The loop goes on to the next entry.
LEMMA NextEntryTodo ==
  ASSUME TodoInv, pc \in Loops, todo # <<>>, NextEntry, UNCHANGED pods
  PROVE  TodoInv'
<1>1. /\ pods \in Seq(Entries) /\ todo \in Seq(Entries) /\ Len(todo) <= Len(pods)
      /\ \A i \in DOMAIN todo : LeftOf(pods[i + Past], todo[i])
      /\ \A i \in DOMAIN todo : i > 1 => todo[i] = pods[i + Past]
  BY DEF TodoInv
<1>2. /\ todo' \in Seq(Entries) /\ Len(todo') = Len(todo) - 1
      /\ \A i \in DOMAIN todo' : i + 1 \in DOMAIN todo /\ todo'[i] = todo[i + 1]
  BY <1>1, TailFacts DEF NextEntry
<1>3. Len(todo) \in Nat /\ Len(pods) \in Nat
  BY <1>1
<1>4. Past \in Int /\ Past' = Past + 1
  BY <1>2, <1>3 DEF Past
<1>5. \A i \in DOMAIN todo' : i \in Nat /\ i >= 1 /\ (i + 1) + Past = i + Past'
  BY <1>2, <1>4
<1>6. \A i \in DOMAIN todo' : LeftOf(pods[i + Past'], todo'[i])
  BY <1>1, <1>2, <1>5
<1>7. \A i \in DOMAIN todo' : todo'[i] = pods[i + Past']
  <2> SUFFICES ASSUME NEW i \in DOMAIN todo' PROVE todo'[i] = pods[i + Past']
    OBVIOUS
  <2>1. i + 1 \in DOMAIN todo /\ i + 1 > 1
    BY <1>2, <1>5
  <2> QED BY <1>1, <1>2, <1>5, <2>1
<1>8. Len(todo') <= Len(pods)
  BY <1>1, <1>2, <1>3
<1> QED BY <1>1, <1>2, <1>6, <1>7, <1>8 DEF TodoInv, LeftOf, EndOf

\* The loop goes on with what is left of the entry.
LEMMA WithTodo ==
  ASSUME TodoInv, pc \in Loops, todo # <<>>, UNCHANGED pods,
         NEW rest \in Entries, LeftOf(Entry, rest), With(rest)
  PROVE  TodoInv' /\ Past' = Past
<1>1. /\ pods \in Seq(Entries) /\ todo \in Seq(Entries) /\ Len(todo) <= Len(pods)
      /\ \A i \in DOMAIN todo : LeftOf(pods[i + Past], todo[i])
      /\ \A i \in DOMAIN todo : i > 1 => todo[i] = pods[i + Past]
  BY DEF TodoInv
<1>2. /\ todo' \in Seq(Entries) /\ Len(todo') = Len(todo) /\ DOMAIN todo' = DOMAIN todo
      /\ todo'[1] = rest /\ \A i \in DOMAIN todo : i > 1 => todo'[i] = todo[i]
  BY <1>1, FirstReplaced DEF With
<1>3. Entry \in Entries /\ Entry = todo[1] /\ 1 \in DOMAIN todo
  BY <1>1, TailFacts DEF Entry
<1>4. Past' = Past /\ Past \in Nat /\ 1 + Past \in DOMAIN pods
  BY <1>1, <1>2, <1>3 DEF Past
<1>5. LeftOf(pods[1 + Past], rest)
  <2>1. LeftOf(pods[1 + Past], Entry) /\ pods[1 + Past] \in Entries
    BY <1>1, <1>3, <1>4
  <2> QED BY <1>3, <2>1, LeftOfTransitive
<1>6. \A i \in DOMAIN todo : i \in Nat /\ (i = 1 \/ i > 1)
  BY <1>1
<1>7. \A i \in DOMAIN todo' : LeftOf(pods[i + Past], todo'[i])
  BY <1>1, <1>2, <1>5, <1>6
<1>8. \A i \in DOMAIN todo' : i > 1 => todo'[i] = pods[i + Past]
  BY <1>1, <1>2
<1> QED BY <1>1, <1>2, <1>4, <1>7, <1>8 DEF TodoInv, LeftOf, EndOf

-----------------------------------------------------------------------------
(* The invariant that holds whatever the pods hold.                        *)

LoopInv == SourceInv /\ TodoInv /\ ZonesInv /\ MemoryInv

\* What is read is a machine, and what is aggregated a scan.
LEMMA SourceTypes ==
  ASSUME SourceInv
  PROVE  IsMachine(machine) /\ (pc \in Loops => pods \in Seq(Entries))
<1>1. PICK case \in Cases : /\ machine = case.machine
                            /\ pc \in Loops => pods \in Range(case.scans)
  BY DEF SourceInv
<1>2. IsMachine(case.machine) /\ case.scans \in Seq(Seq(Entries))
  BY AggregatorAssumption
<1>3. \A scan \in Range(case.scans) : scan \in Seq(Entries)
  BY <1>2 DEF Range
<1> QED BY <1>1, <1>2, <1>3

\* Nothing is aggregated yet.
LEMMA LoopInit == Init => LoopInv
<1> SUFFICES ASSUME Init PROVE LoopInv
  OBVIOUS
<1>1. pc \notin Loops /\ zones = <<>>
  BY DEF Init, Loops
<1>2. PICK case \in Cases : machine = case.machine /\ scans = case.scans
  BY DEF Init
<1>3. SourceInv
  BY <1>1, <1>2, AggregatorAssumption DEF SourceInv
<1> QED BY <1>1, <1>3 DEF LoopInv, TodoInv, ZonesInv, MemoryInv

\* A step of the loops leaves what they are about as it is.
LEMMA SourceInvKept ==
  ASSUME SourceInv, UNCHANGED <<machine, scans, pods>>, pc \in Loops, pc' \in Loops
  PROVE  SourceInv'
BY DEF SourceInv

\* A step that leaves the zones alone.
LEMMA ZonesKept ==
  ASSUME ZonesInv, MemoryInv, UNCHANGED <<machine, excluded, zones>>, pc \in Loops
  PROVE  ZonesInv' /\ MemoryInv'
BY DEF ZonesInv, MemoryInv

\* Taking off a resource leaves the zones what they are.
LEMMA ZonesTakenOff ==
  ASSUME ZonesInv, pc \in Loops, UNCHANGED <<machine, excluded>>,
         NEW node \in DOMAIN zones, NEW name \in DOMAIN zones[node], NEW amount \in Int,
         zones' = [zones EXCEPT ![node][name].available = @ - amount]
  PROVE  /\ ZonesInv'
         /\ DOMAIN zones' = DOMAIN zones
         /\ \A n \in DOMAIN zones :
              /\ DOMAIN zones'[n] = DOMAIN zones[n]
              /\ \A m \in DOMAIN zones[n] :
                   /\ zones'[n][m].allocatable = zones[n][m].allocatable
                   /\ zones'[n][m].available \in Int
                   /\ n = node /\ m = name =>
                        zones'[n][m].available = zones[n][m].available - amount
                   /\ n # node \/ m # name => zones'[n][m] = zones[n][m]
<1> DEFINE new == [zones EXCEPT ![node][name].available = @ - amount]
<1>1. \A n \in DOMAIN zones : \A m \in DOMAIN zones[n] :
        DOMAIN zones[n][m] = Fields /\ zones[n][m].available \in Int
  BY DEF ZonesInv
<1>2. /\ DOMAIN new = DOMAIN zones
      /\ \A n \in DOMAIN zones :
           /\ DOMAIN new[n] = DOMAIN zones[n]
           /\ \A m \in DOMAIN zones[n] :
                /\ DOMAIN new[n][m] = Fields
                /\ new[n][m].allocatable = zones[n][m].allocatable
                /\ new[n][m].capacity = zones[n][m].capacity
                /\ new[n][m].available \in Int
                /\ n = node /\ m = name =>
                     new[n][m].available = zones[n][m].available - amount
                /\ n # node \/ m # name => new[n][m] = zones[n][m]
  BY <1>1, TakeOff
<1>3. zones' = new
  OBVIOUS
<1> HIDE DEF new
<1>4. InitialZones(machine, excluded)' = InitialZones(machine, excluded)
  BY DEF InitialZones
<1>5. ZonesInv'
  BY <1>2, <1>3, <1>4 DEF ZonesInv
<1> QED BY <1>2, <1>3, <1>5

\* An aggregation begins.
LEMMA AggregateLoopInv == LoopInv /\ Aggregate => LoopInv'
<1> SUFFICES ASSUME LoopInv, Aggregate PROVE LoopInv'
  OBVIOUS
<1>1. /\ scans # <<>> /\ scans' = Tail(scans) /\ pods' = Head(scans) /\ todo' = pods'
      /\ zones' = InitialZones(machine, excluded) /\ pc' = "aggregating"
      /\ UNCHANGED <<machine, config, excluded>>
  BY DEF Aggregate
<1>2. SourceInv'
  <2>1. scans \in Seq(Seq(Entries))
    BY DEF LoopInv, SourceInv
  <2>2. /\ scans' \in Seq(Seq(Entries)) /\ Range(scans') \subseteq Range(scans)
        /\ pods' \in Range(scans)
    BY <1>1, <2>1, TailFacts
  <2>3. PICK case \in Cases : machine = case.machine /\ Range(scans) \subseteq Range(case.scans)
    BY DEF LoopInv, SourceInv
  <2>4. /\ machine' = case.machine /\ Range(scans') \subseteq Range(case.scans)
        /\ pods' \in Range(case.scans)
    BY <1>1, <2>2, <2>3
  <2> QED BY <1>1, <2>2, <2>4 DEF SourceInv, Loops
<1>3. pods' \in Seq(Entries)
  BY <1>1, TailFacts DEF LoopInv, SourceInv
<1>4. TodoInv'
  <2>1. Past' = 0
    BY <1>1, <1>3 DEF Past
  <2>2. \A i \in DOMAIN todo' : i \in Nat /\ todo'[i] = pods'[i + Past'] /\ todo'[i] \in Entries
    BY <1>1, <1>3, <2>1
  <2>3. \A i \in DOMAIN todo' : LeftOf(pods'[i + Past'], todo'[i])
    BY <2>2, LeftOfAll
  <2>4. Len(todo') <= Len(pods')
    BY <1>1, <1>3
  <2> QED BY <1>1, <1>3, <2>2, <2>3, <2>4 DEF TodoInv
<1>5. IsMachine(machine)
  BY SourceTypes DEF LoopInv
<1>6. \A node \in DOMAIN zones' : \A name \in DOMAIN zones'[node] :
        /\ DOMAIN zones'[node][name] = Fields
        /\ zones'[node][name].allocatable \in Nat
        /\ zones'[node][name].available = zones'[node][name].allocatable
  BY <1>1, <1>5, InitialZonesData
<1>7. ZonesInv'
  <2>1. InitialZones(machine, excluded)' = InitialZones(machine, excluded)
    BY <1>1
  <2> QED BY <1>1, <1>6, <2>1 DEF ZonesInv
<1>8. MemoryInv'
  BY <1>6 DEF MemoryInv
<1> QED BY <1>2, <1>4, <1>7, <1>8 DEF LoopInv

\* One ID of a device or CPU is handled.
LEMMA UpdateAvailableLoopInv == LoopInv /\ UpdateAvailable => LoopInv'
<1> SUFFICES ASSUME LoopInv, UpdateAvailable PROVE LoopInv'
  OBVIOUS
<1> DEFINE rest == [Entry EXCEPT !.data = Tail(@)]
           node == ResourceMap(machine, Entry.name, Head(Entry.data))
<1>1. /\ pc = "aggregating" /\ todo # <<>> /\ Entry.name \notin MemoryNames
      /\ Entry.data # <<>> /\ UNCHANGED <<machine, excluded, scans, pods>>
      /\ pc' \in {"aggregating", "panicked"}
  BY DEF UpdateAvailable, Aggregating, Fixed
<1>2. SourceInv /\ TodoInv /\ ZonesInv /\ MemoryInv
  BY DEF LoopInv
<1>3. pc \in Loops /\ pc' \in Loops
  BY <1>1 DEF Loops
<1>4. SourceInv'
  BY <1>1, <1>2, <1>3, SourceInvKept
<1>5. todo \in Seq(Entries)
  BY <1>2, <1>3 DEF TodoInv
<1>6. Entry \in Entries
  BY <1>1, <1>5, TailFacts DEF Entry
<1>7. rest \in Entries /\ LeftOf(Entry, rest)
  BY <1>1, <1>6, IDHandled
<1>8. CASE With(rest) /\ UNCHANGED zones
  BY <1>1, <1>2, <1>3, <1>4, <1>7, <1>8, WithTodo, ZonesKept DEF LoopInv
<1>9. CASE /\ With(rest) /\ ~SkipsID(Head(Entry.data)) /\ Entry.name \in DOMAIN zones[node]
           /\ zones' = [zones EXCEPT ![node][Entry.name].available = @ - 1]
  <2>1. node \in DOMAIN zones
    BY <1>9 DEF SkipsID
  <2>2. TodoInv'
    BY <1>1, <1>2, <1>3, <1>7, <1>9, WithTodo
  <2> DEFINE name == Entry.name
  <2>5. name \in DOMAIN zones[node] /\ 1 \in Int
        /\ zones' = [zones EXCEPT ![node][name].available = @ - 1]
    BY <1>9
  <2> HIDE DEF node, name, rest
  <2>3. /\ ZonesInv' /\ DOMAIN zones' = DOMAIN zones
        /\ \A n \in DOMAIN zones :
             /\ DOMAIN zones'[n] = DOMAIN zones[n]
             /\ \A m \in DOMAIN zones[n] :
                  n # node \/ m # name => zones'[n][m] = zones[n][m]
    BY <1>1, <1>2, <1>3, <2>1, <2>5, ZonesTakenOff
  <2>4. MemoryInv'
    BY <1>1, <1>2, <1>3, <2>3 DEF MemoryInv, name
  <2> QED BY <1>4, <2>2, <2>3, <2>4 DEF LoopInv
<1>10. CASE UNCHANGED <<todo, zones>>
  <2>1. TodoInv'
    BY <1>1, <1>2, <1>3, <1>10 DEF TodoInv, Past
  <2> QED BY <1>1, <1>2, <1>3, <1>4, <1>10, <2>1, ZonesKept DEF LoopInv
<1> QED BY <1>8, <1>9, <1>10 DEF UpdateAvailable

\* What a node gives is no more than the size asked for, and no more than it has.
LEMMA TakenFacts ==
  ASSUME LoopInv, UpdateMemoryAvailable,
         NEW node \in DOMAIN zones, Entry.name \in DOMAIN zones[node]
  PROVE  LET available == zones[node][Entry.name].available
         IN  /\ available \in Nat /\ Entry.size \in Nat /\ Taken(available) \in Nat
             /\ Taken(available) <= Entry.size /\ Taken(available) <= available
             /\ Taken(available) = Entry.size \/ Taken(available) = available
<1> DEFINE available == zones[node][Entry.name].available
<1>1. pc \in Loops /\ todo # <<>> /\ Entry.name \in MemoryNames
  BY DEF UpdateMemoryAvailable, Aggregating, Loops
<1>2. todo \in Seq(Entries)
  BY <1>1 DEF LoopInv, TodoInv
<1>3. Entry \in Entries
  BY <1>1, <1>2, TailFacts DEF Entry
<1>4. Entry.size \in Nat
  BY <1>3 DEF Entries
<1>5. available \in Nat
  BY <1>1 DEF LoopInv, ZonesInv, MemoryInv
<1> HIDE DEF available
<1> QED BY <1>4, <1>5 DEF Taken, available

\* One node of a block of memory is handled.
LEMMA UpdateMemoryAvailableLoopInv == LoopInv /\ UpdateMemoryAvailable => LoopInv'
<1> SUFFICES ASSUME LoopInv, UpdateMemoryAvailable PROVE LoopInv'
  OBVIOUS
<1> DEFINE same == [Entry EXCEPT !.nodes = Tail(@)]
           node == Head(Entry.nodes)
           name == Entry.name
           taken == Taken(zones[node][name].available)
<1>1. /\ pc = "aggregating" /\ todo # <<>> /\ Entry.name \in MemoryNames
      /\ Entry.nodes # <<>> /\ UNCHANGED <<machine, excluded, scans, pods, pc>>
  BY DEF UpdateMemoryAvailable, Aggregating, Fixed
<1>2. SourceInv /\ TodoInv /\ ZonesInv /\ MemoryInv
  BY DEF LoopInv
<1>3. pc \in Loops /\ pc' \in Loops
  BY <1>1 DEF Loops
<1>4. SourceInv'
  BY <1>1, <1>2, <1>3, SourceInvKept
<1>5. todo \in Seq(Entries)
  BY <1>2, <1>3 DEF TodoInv
<1>6. Entry \in Entries
  BY <1>1, <1>5, TailFacts DEF Entry
<1>7. CASE With(same) /\ UNCHANGED zones
  <2>1. Entry.size \in Nat /\ 0 \in Nat /\ 0 <= Entry.size
    BY <1>6 DEF Entries
  <2>2. same \in Entries /\ LeftOf(Entry, same)
    BY <1>1, <1>6, <2>1, NodeHandled
  <2> QED BY <1>1, <1>2, <1>3, <1>4, <1>7, <2>2, WithTodo, ZonesKept DEF LoopInv
<1>8. CASE NextEntry /\ UNCHANGED zones
  BY <1>1, <1>2, <1>3, <1>4, <1>8, NextEntryTodo, ZonesKept DEF LoopInv
<1>9. CASE /\ node \in DOMAIN zones /\ name \in DOMAIN zones[node]
           /\ zones' = [zones EXCEPT ![node][name].available = @ - taken]
           /\ With(Rest(taken))
  <2>1. /\ zones[node][name].available \in Nat /\ taken \in Nat
        /\ taken <= Entry.size /\ taken <= zones[node][name].available
    BY <1>9, TakenFacts
  <2>2. Rest(taken) \in Entries /\ LeftOf(Entry, Rest(taken))
    <3> HIDE DEF taken
    <3> QED BY <1>1, <1>6, <2>1, NodeHandled DEF Rest
  <2>3. TodoInv'
    <3> HIDE DEF taken
    <3> QED BY <1>1, <1>2, <1>3, <1>9, <2>2, WithTodo
  <2>7. /\ node \in DOMAIN zones /\ name \in DOMAIN zones[node] /\ taken \in Int
        /\ zones' = [zones EXCEPT ![node][name].available = @ - taken]
    BY <1>9, <2>1
  <2> HIDE DEF node, name, taken
  <2>4. /\ ZonesInv' /\ DOMAIN zones' = DOMAIN zones
        /\ \A n \in DOMAIN zones :
             /\ DOMAIN zones'[n] = DOMAIN zones[n]
             /\ \A m \in DOMAIN zones[n] :
                  /\ zones'[n][m].allocatable = zones[n][m].allocatable
                  /\ zones'[n][m].available \in Int
                  /\ n = node /\ m = name =>
                       zones'[n][m].available = zones[n][m].available - taken
                  /\ n # node \/ m # name => zones'[n][m] = zones[n][m]
    <3>1. ZonesInv /\ pc \in Loops /\ UNCHANGED <<machine, excluded>>
      BY <1>1, <1>2, <1>3
    <3> HIDE DEF ZonesInv
    <3> QED BY <2>7, <3>1, ZonesTakenOff
  <2>5. ASSUME NEW n \in DOMAIN zones', NEW m \in DOMAIN zones'[n] \cap MemoryNames
        PROVE  /\ 0 <= zones'[n][m].available
               /\ zones'[n][m].available <= zones'[n][m].allocatable
    <3>1. n \in DOMAIN zones /\ m \in DOMAIN zones[n]
      BY <2>4
    <3>2. /\ 0 <= zones[n][m].available /\ zones[n][m].available \in Int
          /\ zones[n][m].available <= zones[n][m].allocatable
      BY <1>2, <1>3, <2>5, <3>1 DEF MemoryInv, ZonesInv
    <3>3. zones[n][m].allocatable \in Nat
      <4>1. IsMachine(machine)
        BY <1>2, SourceTypes
      <4>2. /\ n \in DOMAIN InitialZones(machine, excluded)
            /\ m \in DOMAIN InitialZones(machine, excluded)[n]
            /\ zones[n][m].allocatable = InitialZones(machine, excluded)[n][m].allocatable
        BY <1>2, <1>3, <3>1 DEF ZonesInv
      <4> QED BY <4>1, <4>2, InitialZonesData
    <3>4. CASE n = node /\ m = name
      BY <2>1, <2>4, <3>1, <3>2, <3>3, <3>4
    <3>5. CASE n # node \/ m # name
      BY <2>4, <3>1, <3>2, <3>5
    <3> QED BY <3>4, <3>5
  <2>6. MemoryInv'
    BY <2>5 DEF MemoryInv
  <2> QED BY <1>4, <2>3, <2>4, <2>6 DEF LoopInv
<1> QED BY <1>7, <1>8, <1>9 DEF UpdateMemoryAvailable

\* No step of the process or its loops disturbs it.
LEMMA LoopStep == LoopInv /\ [Next]_vars => LoopInv'
<1> SUFFICES ASSUME LoopInv, [Next]_vars PROVE LoopInv'
  OBVIOUS
<1>1. CASE Configure \/ NewResourcesAggregator
  <2>1. /\ pc \notin Loops /\ pc' \notin Loops /\ UNCHANGED <<machine, scans, zones>>
    BY <1>1 DEF Configure, NewResourcesAggregator, Loops
  <2>2. SourceInv'
    BY <2>1 DEF LoopInv, SourceInv
  <2> QED BY <2>1, <2>2 DEF LoopInv, TodoInv, ZonesInv, MemoryInv
<1>2. CASE AvailableUpdated \/ MemoryUpdated
  <2>1. /\ pc \in Loops /\ pc' \in Loops /\ todo # <<>> /\ NextEntry
        /\ UNCHANGED <<machine, excluded, scans, pods, zones>>
    BY <1>2 DEF AvailableUpdated, MemoryUpdated, Aggregating, Fixed, Loops
  <2> QED BY <2>1, NextEntryTodo, SourceInvKept, ZonesKept DEF LoopInv
<1>3. CASE Return
  <2>1. /\ pc \in Loops /\ pc' \in Loops
        /\ UNCHANGED <<machine, excluded, scans, pods, todo, zones>>
    BY <1>3 DEF Return, Fixed, Loops
  <2>2. TodoInv'
    BY <2>1 DEF LoopInv, TodoInv, Past
  <2> QED BY <2>1, <2>2, SourceInvKept, ZonesKept DEF LoopInv
<1>4. CASE UNCHANGED vars
  <2>1. SourceInv'
    BY <1>4 DEF vars, LoopInv, SourceInv
  <2>2. TodoInv'
    BY <1>4 DEF vars, LoopInv, TodoInv, Past
  <2>3. ZonesInv' /\ MemoryInv'
    BY <1>4 DEF vars, LoopInv, ZonesInv, MemoryInv
  <2> QED BY <2>1, <2>2, <2>3 DEF LoopInv
<1> QED BY <1>1, <1>2, <1>3, <1>4, AggregateLoopInv, UpdateAvailableLoopInv,
           UpdateMemoryAvailableLoopInv DEF Next

\* The invariant holds, whatever the pods hold.
LEMMA LoopInvHolds == Spec => []LoopInv
BY LoopInit, LoopStep, PTL DEF Spec

-----------------------------------------------------------------------------
(* The IDs that the entries left list.                                     *)

\* Which IDs entries hold.
LEMMA HeldMember ==
  ASSUME NEW entries, NEW name, NEW id
  PROVE  id \in Held(entries, name) <=>
           \E i \in DOMAIN entries : \E k \in DOMAIN entries[i].data :
             entries[i].name = name /\ entries[i].data[k] = id
BY DEF Held, Range

\* The entries left list IDs that the pods hold, each once.
LEMMA HeldLeft ==
  ASSUME TodoInv, pc \in Loops
  PROVE  /\ \A name : Held(todo, name) \subseteq Held(pods, name)
         /\ HeldOnce(pods) => HeldOnce(todo)
<1>1. /\ pods \in Seq(Entries) /\ todo \in Seq(Entries) /\ Len(todo) <= Len(pods)
      /\ \A i \in DOMAIN todo : LeftOf(pods[i + Past], todo[i])
  BY DEF TodoInv
<1> DEFINE Gone(i) == Len(pods[i + Past].data) - Len(todo[i].data)
<1>2. ASSUME NEW i \in DOMAIN todo
      PROVE  /\ i + Past \in DOMAIN pods /\ pods[i + Past].name = todo[i].name
             /\ \A k \in DOMAIN todo[i].data :
                  /\ k + Gone(i) \in DOMAIN pods[i + Past].data
                  /\ todo[i].data[k] = pods[i + Past].data[k + Gone(i)]
  <2>1. i + Past \in DOMAIN pods
    BY <1>1 DEF Past
  <2>2. pods[i + Past] \in Entries /\ todo[i] \in Entries
    BY <1>1, <2>1
  <2>3. pods[i + Past].data \in Seq(Nat) /\ todo[i].data \in Seq(Nat)
    BY <2>2 DEF Entries
  <2>4. pods[i + Past].name = todo[i].name /\ EndOf(pods[i + Past].data, todo[i].data)
    BY <1>1 DEF LeftOf
  <2> DEFINE whole == pods[i + Past].data
             rest == todo[i].data
  <2>5. whole \in Seq(Nat) /\ rest \in Seq(Nat) /\ EndOf(whole, rest)
    BY <2>3, <2>4
  <2> HIDE DEF whole, rest
  <2>6. \A k \in DOMAIN rest : /\ k + (Len(whole) - Len(rest)) \in DOMAIN whole
                               /\ rest[k] = whole[k + (Len(whole) - Len(rest))]
    BY <2>5, EndOfFacts
  <2> QED BY <2>1, <2>4, <2>6 DEF whole, rest
<1>3. \A name : Held(todo, name) \subseteq Held(pods, name)
  <2> SUFFICES ASSUME NEW name, NEW id \in Held(todo, name)
               PROVE  id \in Held(pods, name)
    OBVIOUS
  <2>1. PICK i \in DOMAIN todo : \E k \in DOMAIN todo[i].data :
               todo[i].name = name /\ todo[i].data[k] = id
    BY HeldMember
  <2> HIDE DEF Gone
  <2> QED BY <1>2, <2>1, HeldMember
<1>4. ASSUME HeldOnce(pods) PROVE HeldOnce(todo)
  <2> SUFFICES ASSUME NEW i \in DOMAIN todo, NEW j \in DOMAIN todo,
                      NEW k \in DOMAIN todo[i].data, NEW l \in DOMAIN todo[j].data,
                      todo[i].name = todo[j].name, todo[i].data[k] = todo[j].data[l]
               PROVE  i = j /\ k = l
    BY DEF HeldOnce
  <2>1. i + Past = j + Past /\ k + Gone(i) = l + Gone(j)
    <3> HIDE DEF Gone
    <3> QED BY <1>2, <1>4 DEF HeldOnce
  <2>2. i \in Int /\ j \in Int /\ Past \in Int
    BY <1>1 DEF Past
  <2>3. i = j
    BY <2>1, <2>2
  <2>4. todo[i] \in Entries /\ pods[i + Past] \in Entries
    <3> HIDE DEF Gone
    <3> QED BY <1>1, <1>2
  <2>5. todo[i].data \in Seq(Nat) /\ pods[i + Past].data \in Seq(Nat)
    BY <2>4 DEF Entries
  <2>6. k \in Int /\ l \in Int /\ Gone(i) \in Int
    BY <2>3, <2>5
  <2> HIDE DEF Gone
  <2> QED BY <2>1, <2>3, <2>6
<1> QED BY <1>3, <1>4

\* An entry without IDs, or of another resource, is left behind.
LEMMA HeldNext ==
  ASSUME todo \in Seq(Entries), todo # <<>>, NEW name,
         Entry.data = <<>> \/ Entry.name # name
  PROVE  Held(Tail(todo), name) = Held(todo, name)
<1>1. /\ Len(Tail(todo)) = Len(todo) - 1 /\ Entry = todo[1] /\ 1 \in DOMAIN todo
      /\ \A i \in DOMAIN Tail(todo) : i + 1 \in DOMAIN todo /\ Tail(todo)[i] = todo[i + 1]
      /\ DOMAIN Tail(todo) = 1..Len(Tail(todo)) /\ DOMAIN todo = 1..Len(todo)
      /\ Len(todo) \in Nat
  BY TailFacts DEF Entry
<1>2. ASSUME NEW id \in Held(todo, name) PROVE id \in Held(Tail(todo), name)
  <2>0. PICK i \in DOMAIN todo : \E k \in DOMAIN todo[i].data :
               todo[i].name = name /\ todo[i].data[k] = id
    BY HeldMember
  <2>1. PICK k \in DOMAIN todo[i].data : todo[i].name = name /\ todo[i].data[k] = id
    BY <2>0
  <2>2. i # 1
    BY <1>1, <2>1
  <2>3. i - 1 \in DOMAIN Tail(todo) /\ (i - 1) + 1 = i
    BY <1>1, <2>2
  <2>4. Tail(todo)[i - 1] = todo[i]
    BY <1>1, <2>3
  <2> HIDE DEF Entry
  <2>5. \E j \in DOMAIN Tail(todo) : \E l \in DOMAIN Tail(todo)[j].data :
          Tail(todo)[j].name = name /\ Tail(todo)[j].data[l] = id
    BY <2>1, <2>3, <2>4
  <2> QED BY <2>5, HeldMember
<1>3. ASSUME NEW id \in Held(Tail(todo), name) PROVE id \in Held(todo, name)
  <2> DEFINE rest == Tail(todo)
  <2>1. /\ id \in Held(rest, name)
        /\ \A i \in DOMAIN rest : i + 1 \in DOMAIN todo /\ rest[i] = todo[i + 1]
    BY <1>1, <1>3
  <2> HIDE DEF rest
  <2>2. PICK i \in DOMAIN rest : \E k \in DOMAIN rest[i].data :
               rest[i].name = name /\ rest[i].data[k] = id
    BY <2>1, HeldMember
  <2>3. i + 1 \in DOMAIN todo /\ rest[i] = todo[i + 1]
    BY <2>1
  <2> QED BY <2>2, <2>3, HeldMember
<1> QED BY <1>2, <1>3

\* A node of a block is handled.
LEMMA HeldSame ==
  ASSUME todo \in Seq(Entries), todo # <<>>, NEW name, NEW rest \in Entries,
         rest.name = Entry.name, rest.data = Entry.data
  PROVE  Held(<<rest>> \o Tail(todo), name) = Held(todo, name)
<1> DEFINE new == <<rest>> \o Tail(todo)
<1>1. /\ DOMAIN new = DOMAIN todo /\ new[1] = rest /\ Entry = todo[1]
      /\ \A i \in DOMAIN todo : i > 1 => new[i] = todo[i]
  BY FirstReplaced, TailFacts DEF Entry
<1>2. \A i \in DOMAIN todo : i = 1 \/ i > 1
  OBVIOUS
<1> HIDE DEF new
<1>3. \A i \in DOMAIN todo : new[i].name = todo[i].name /\ new[i].data = todo[i].data
  BY <1>1, <1>2
<1>4. Held(new, name) = Held(todo, name)
  <2>1. \A id : id \in Held(new, name) <=> id \in Held(todo, name)
    BY <1>1, <1>3, HeldMember
  <2> QED BY <2>1
<1> QED BY <1>4 DEF new

\* An ID is handled: nothing that is left lists it again.
LEMMA HeldWithoutID ==
  ASSUME todo \in Seq(Entries), todo # <<>>, HeldOnce(todo), Entry.data # <<>>
  PROVE  LET id == Head(Entry.data)
             new == <<[Entry EXCEPT !.data = Tail(@)]>> \o Tail(todo)
         IN  /\ id \in Held(todo, Entry.name)
             /\ Held(new, Entry.name) = Held(todo, Entry.name) \ {id}
             /\ \A name : name # Entry.name => Held(new, name) = Held(todo, name)
<1> DEFINE id == Head(Entry.data)
           rest == [Entry EXCEPT !.data = Tail(@)]
           new == <<rest>> \o Tail(todo)
<1>1. Entry \in Entries /\ Entry = todo[1] /\ 1 \in DOMAIN todo
  BY TailFacts DEF Entry
<1>2. Entry.data \in Seq(Nat)
  BY <1>1 DEF Entries
<1>3. /\ Len(Tail(Entry.data)) = Len(Entry.data) - 1
      /\ id = Entry.data[1] /\ 1 \in DOMAIN Entry.data
      /\ \A k \in DOMAIN Tail(Entry.data) :
           k + 1 \in DOMAIN Entry.data /\ Tail(Entry.data)[k] = Entry.data[k + 1]
      /\ DOMAIN Tail(Entry.data) = 1..Len(Tail(Entry.data))
      /\ DOMAIN Entry.data = 1..Len(Entry.data) /\ Len(Entry.data) \in Nat
  BY <1>2, TailFacts
<1>4. rest \in Entries /\ rest.name = Entry.name /\ rest.data = Tail(Entry.data)
  BY <1>1, IDHandled
<1> HIDE DEF rest, id
<1>5. /\ DOMAIN new = DOMAIN todo /\ new[1] = rest
      /\ \A i \in DOMAIN todo : i > 1 => new[i] = todo[i]
  BY <1>4, FirstReplaced
<1>6. \A i \in DOMAIN todo : i = 1 \/ i > 1
  OBVIOUS
<1> HIDE DEF new
<1>7. id \in Held(todo, Entry.name)
  BY <1>1, <1>3, HeldMember
<1>8. ASSUME NEW x \in Held(new, Entry.name)
      PROVE  x \in Held(todo, Entry.name) \ {id}
  <2>0. PICK i \in DOMAIN new : \E k \in DOMAIN new[i].data :
               new[i].name = Entry.name /\ new[i].data[k] = x
    BY HeldMember
  <2>1. PICK k \in DOMAIN new[i].data : new[i].name = Entry.name /\ new[i].data[k] = x
    BY <2>0
  <2>2. CASE i = 1
    <3>1. k \in DOMAIN Tail(Entry.data) /\ x = Entry.data[k + 1] /\ k + 1 \in DOMAIN Entry.data
      BY <1>3, <1>4, <1>5, <2>1, <2>2
    <3>2. x \in Held(todo, Entry.name)
      BY <1>1, <3>1, HeldMember
    <3>3. k + 1 # 1
      BY <1>3, <3>1
    <3>4. x # id
      BY <1>1, <1>3, <3>1, <3>3 DEF HeldOnce
    <3> QED BY <3>2, <3>4
  <2>3. CASE i > 1
    <3>1. i \in DOMAIN todo /\ new[i] = todo[i]
      BY <1>5, <2>1, <2>3
    <3>2. x \in Held(todo, Entry.name)
      BY <2>1, <3>1, HeldMember
    <3>3. i # 1
      BY <2>3
    <3>4. x # id
      BY <1>1, <1>3, <2>1, <3>1, <3>3 DEF HeldOnce
    <3> QED BY <3>2, <3>4
  <2> QED BY <1>5, <1>6, <2>2, <2>3
<1>9. ASSUME NEW x \in Held(todo, Entry.name), x # id
      PROVE  x \in Held(new, Entry.name)
  <2>0. PICK i \in DOMAIN todo : \E k \in DOMAIN todo[i].data :
               todo[i].name = Entry.name /\ todo[i].data[k] = x
    BY HeldMember
  <2>1. PICK k \in DOMAIN todo[i].data : todo[i].name = Entry.name /\ todo[i].data[k] = x
    BY <2>0
  <2>2. CASE i = 1
    <3>1. k \in DOMAIN Entry.data /\ Entry.data[k] = x /\ k # 1
      BY <1>1, <1>3, <1>9, <2>1, <2>2
    <3>2. k - 1 \in DOMAIN Tail(Entry.data) /\ (k - 1) + 1 = k
      BY <1>3, <3>1
    <3>3. new[1].data[k - 1] = x /\ k - 1 \in DOMAIN new[1].data /\ 1 \in DOMAIN new
      BY <1>1, <1>3, <1>4, <1>5, <3>1, <3>2
    <3> QED BY <1>4, <1>5, <3>3, HeldMember
  <2>3. CASE i > 1
    <3>1. i \in DOMAIN new /\ new[i] = todo[i]
      BY <1>5, <2>1, <2>3
    <3> QED BY <2>1, <3>1, HeldMember
  <2> QED BY <1>6, <2>2, <2>3
<1>10. ASSUME NEW name, name # Entry.name
       PROVE  Held(new, name) = Held(todo, name)
  <2>1. \A i \in DOMAIN todo : new[i].name = todo[i].name
    BY <1>1, <1>4, <1>5, <1>6
  <2>2. \A i \in DOMAIN todo : todo[i].name = name => new[i] = todo[i]
    BY <1>1, <1>5, <1>6, <1>10
  <2>3. \A x : x \in Held(new, name) <=> x \in Held(todo, name)
    BY <1>5, <2>1, <2>2, HeldMember
  <2> QED BY <2>3
<1> QED BY <1>7, <1>8, <1>9, <1>10 DEF new, rest, id

-----------------------------------------------------------------------------
(* Devices and CPUs.                                                       *)

\* What the theorems about them assume of the pods.
DevicesHeldOnce == \A case \in Cases : \A scan \in Range(case.scans) : HeldOnce(scan)

\* The invariant of the devices: a finished loop has handled all, and what is gone
\* is what was handled.
DeviceInv ==
  /\ LoopInv
  /\ pc = "done" => todo = <<>>
  /\ UsedInv

\* What is used on a node is among what the tables list there.
LEMMA UsedListed ==
  ASSUME IsMachine(machine), NEW name, NEW node
  PROVE  /\ Used(name, node) \subseteq IDsOn(machine, name, node)
         /\ IsFiniteSet(Used(name, node))
         /\ Cardinality(Used(name, node)) <= Cardinality(IDsOn(machine, name, node))
         /\ Cardinality(Used(name, node)) \in Nat
         /\ Cardinality(IDsOn(machine, name, node)) \in Nat
<1>1. Used(name, node) \subseteq IDsOn(machine, name, node)
  BY ResourceMapFacts DEF Used
<1>2. IsFiniteSet(IDsOn(machine, name, node))
  BY IDsOnAllocatable
<1> QED BY <1>1, <1>2, FS_Subset, FS_CardinalityType

\* Nothing is used as an aggregation begins.
LEMMA UsedInit ==
  ASSUME LoopInv, Aggregate
  PROVE  UsedInv'
<1>1. /\ todo' = pods' /\ zones' = InitialZones(machine, excluded) /\ UNCHANGED machine
  BY DEF Aggregate
<1>2. \A name, node : Used(name, node)' = {}
  BY <1>1 DEF Used
<1>3. IsMachine(machine)
  BY SourceTypes DEF LoopInv
<1>4. \A node \in DOMAIN zones' : \A name \in DOMAIN zones'[node] :
        /\ zones'[node][name].allocatable \in Nat
        /\ zones'[node][name].available = zones'[node][name].allocatable
  BY <1>1, <1>3, InitialZonesData
<1>5. Cardinality({}) = 0
  BY FS_EmptySet
<1> QED BY <1>2, <1>4, <1>5 DEF UsedInv

\* A step that handles no ID, or one that sits in no zone.
LEMMA UsedKept ==
  ASSUME UsedInv, pc \in Loops, UNCHANGED <<machine, pods>>, DOMAIN zones' = DOMAIN zones,
         \A n \in DOMAIN zones :
           /\ DOMAIN zones'[n] = DOMAIN zones[n]
           /\ \A m \in DOMAIN zones[n] \ MemoryNames : zones'[n][m] = zones[n][m],
         \A m : m \notin MemoryNames => Held(todo', m) = Held(todo, m)
  PROVE  UsedInv'
<1>1. ASSUME NEW name, name \notin MemoryNames, NEW node
      PROVE  Used(name, node)' = Used(name, node)
  BY <1>1 DEF Used
<1> QED BY <1>1 DEF UsedInv

\* Taking one off a resource.
LEMMA OneTakenOff ==
  ASSUME ZonesInv, pc \in Loops, UNCHANGED <<machine, excluded>>,
         NEW node \in DOMAIN zones, NEW name \in DOMAIN zones[node]
  PROVE  zones' = [zones EXCEPT ![node][name].available = @ - 1] =>
           /\ DOMAIN zones' = DOMAIN zones
           /\ \A n \in DOMAIN zones :
                /\ DOMAIN zones'[n] = DOMAIN zones[n]
                /\ \A m \in DOMAIN zones[n] :
                     /\ zones'[n][m].allocatable = zones[n][m].allocatable
                     /\ zones'[n][m].available \in Int
                     /\ n = node /\ m = name =>
                          zones'[n][m].available = zones[n][m].available - 1
                     /\ n # node \/ m # name => zones'[n][m] = zones[n][m]
<1>1. ASSUME zones' = [zones EXCEPT ![node][name].available = @ - 1]
      PROVE  /\ DOMAIN zones' = DOMAIN zones
             /\ \A n \in DOMAIN zones :
                  /\ DOMAIN zones'[n] = DOMAIN zones[n]
                  /\ \A m \in DOMAIN zones[n] :
                       /\ zones'[n][m].allocatable = zones[n][m].allocatable
                       /\ zones'[n][m].available \in Int
                       /\ n = node /\ m = name =>
                            zones'[n][m].available = zones[n][m].available - 1
                       /\ n # node \/ m # name => zones'[n][m] = zones[n][m]
  <2>1. PICK one \in Int : one = 1
    OBVIOUS
  <2>2. zones' = [zones EXCEPT ![node][name].available = @ - one]
    BY <1>1, <2>1
  <2>3. /\ ZonesInv'
        /\ DOMAIN zones' = DOMAIN zones
        /\ \A n \in DOMAIN zones :
             /\ DOMAIN zones'[n] = DOMAIN zones[n]
             /\ \A m \in DOMAIN zones[n] :
                  /\ zones'[n][m].allocatable = zones[n][m].allocatable
                  /\ zones'[n][m].available \in Int
                  /\ n = node /\ m = name =>
                       zones'[n][m].available = zones[n][m].available - one
                  /\ n # node \/ m # name => zones'[n][m] = zones[n][m]
    BY <2>2, ZonesTakenOff
  <2> QED BY <2>1, <2>3
<1> QED BY <1>1

\* One ID is handled.
LEMMA UsedStep ==
  ASSUME DeviceInv, HeldOnce(pods), UpdateAvailable
  PROVE  UsedInv'
<1> SUFFICES ASSUME NEW id, id = Head(Entry.data), NEW name, name = Entry.name,
                    NEW rest, rest = [Entry EXCEPT !.data = Tail(@)],
                    NEW node, node = ResourceMap(machine, name, id)
             PROVE  UsedInv'
  OBVIOUS
<1>1. /\ pc \in Loops /\ pc' \in Loops /\ todo # <<>> /\ name \notin MemoryNames
      /\ Entry.data # <<>> /\ UNCHANGED <<machine, excluded, scans, pods>>
  BY DEF UpdateAvailable, Aggregating, Fixed, Loops
<1>2. LoopInv /\ SourceInv /\ TodoInv /\ ZonesInv /\ UsedInv
  BY DEF DeviceInv, LoopInv
<1>3. IsMachine(machine) /\ todo \in Seq(Entries)
  BY <1>1, <1>2, SourceTypes DEF TodoInv
<1>4. HeldOnce(todo) /\ \A m : Held(todo, m) \subseteq Held(pods, m)
  BY <1>1, <1>2, HeldLeft
<1>5. ASSUME With(rest)
      PROVE  /\ id \in Held(todo, name) /\ id \in Held(pods, name)
             /\ Held(todo', name) = Held(todo, name) \ {id}
             /\ \A m : m # name => Held(todo', m) = Held(todo, m)
  <2>1. todo' = <<rest>> \o Tail(todo)
    BY <1>5 DEF With
  <2>2. /\ id \in Held(todo, name)
        /\ Held(<<rest>> \o Tail(todo), name) = Held(todo, name) \ {id}
        /\ \A m : m # name => Held(<<rest>> \o Tail(todo), m) = Held(todo, m)
    BY <1>1, <1>3, <1>4, HeldWithoutID
  <2> QED BY <1>4, <2>1, <2>2
<1>6. ASSUME With(rest)
      PROVE  /\ \A m, n : m # name => Used(m, n)' = Used(m, n)
             /\ \A n : (IsKnown(machine, name, id) => node # n) =>
                         Used(name, n)' = Used(name, n)
             /\ IsKnown(machine, name, id) =>
                  Used(name, node)' = Used(name, node) \cup {id} /\ id \notin Used(name, node)
  BY <1>1, <1>5, <1>6 DEF Used
<1>7. CASE With(rest) /\ SkipsID(id) /\ UNCHANGED zones
  <2>1. \A n \in DOMAIN zones : IsKnown(machine, name, id) => node # n
    BY <1>7 DEF SkipsID
  <2>2. \A m, n : n \in DOMAIN zones => Used(m, n)' = Used(m, n)
    BY <1>6, <1>7, <2>1
  <2> QED BY <1>1, <1>2, <1>7, <2>2 DEF UsedInv
<1>8. CASE /\ With(rest) /\ ~SkipsID(id) /\ name \in DOMAIN zones[node]
           /\ zones' = [zones EXCEPT ![node][name].available = @ - 1]
  <2>1. node \in DOMAIN zones /\ IsKnown(machine, name, id) /\ 1 \in Int
    BY <1>8 DEF SkipsID
  <2>2. /\ DOMAIN zones' = DOMAIN zones
        /\ \A n \in DOMAIN zones :
             /\ DOMAIN zones'[n] = DOMAIN zones[n]
             /\ \A m \in DOMAIN zones[n] :
                  /\ zones'[n][m].allocatable = zones[n][m].allocatable
                  /\ zones'[n][m].available \in Int
                  /\ n = node /\ m = name =>
                       zones'[n][m].available = zones[n][m].available - 1
                  /\ n # node \/ m # name => zones'[n][m] = zones[n][m]
    BY <1>1, <1>2, <1>8, <2>1, OneTakenOff
  <2>3. ASSUME NEW n \in DOMAIN zones, NEW m \in DOMAIN zones[n] \ MemoryNames,
               n # node \/ m # name
        PROVE  zones'[n][m].available = zones'[n][m].allocatable - Cardinality(Used(m, n)')
    <3>1. Used(m, n)' = Used(m, n) /\ zones'[n][m] = zones[n][m]
      <4>1. zones'[n][m] = zones[n][m]
        BY <2>2, <2>3
      <4>2. CASE m # name
        BY <1>6, <1>8, <4>1, <4>2, Zenon
      <4>3. CASE m = name
        <5>1. node # n
          BY <2>3, <4>3
        <5> QED BY <1>6, <1>8, <4>1, <4>3, <5>1, Zenon
      <4> QED BY <4>2, <4>3
    <3> QED BY <1>1, <1>2, <3>1 DEF UsedInv
  <2>4. zones'[node][name].available
          = zones'[node][name].allocatable - Cardinality(Used(name, node)')
    <3>1. zones[node][name].available
            = zones[node][name].allocatable - Cardinality(Used(name, node))
      BY <1>1, <1>2, <1>8, <2>1 DEF UsedInv
    <3>2. /\ IsFiniteSet(Used(name, node)) /\ Cardinality(Used(name, node)) \in Nat
          /\ Used(name, node)' = Used(name, node) \cup {id} /\ id \notin Used(name, node)
      BY <1>3, <1>6, <1>8, <2>1, UsedListed
    <3>3. Cardinality(Used(name, node)') = Cardinality(Used(name, node)) + 1
      BY <3>2, FS_AddElement
    <3>4. zones[node][name].allocatable \in Nat
      <4>1. /\ node \in DOMAIN InitialZones(machine, excluded)
            /\ name \in DOMAIN InitialZones(machine, excluded)[node]
            /\ zones[node][name].allocatable
                 = InitialZones(machine, excluded)[node][name].allocatable
        BY <1>1, <1>2, <1>8, <2>1 DEF ZonesInv
      <4> QED BY <1>3, <4>1, InitialZonesData
    <3> QED BY <1>8, <2>1, <2>2, <3>1, <3>2, <3>3, <3>4
  <2> QED BY <2>2, <2>3, <2>4 DEF UsedInv
<1>9. CASE UNCHANGED <<todo, zones>>
  BY <1>1, <1>2, <1>9, UsedKept
<1> QED BY <1>7, <1>8, <1>9 DEF UpdateAvailable

\* What was scanned holds each ID once.
LEMMA PodsHeldOnce ==
  ASSUME DevicesHeldOnce, SourceInv, pc \in Loops
  PROVE  HeldOnce(pods)
BY DEF DevicesHeldOnce, SourceInv

\* Nothing is used yet.
LEMMA DeviceInit == Init => DeviceInv
<1> SUFFICES ASSUME Init PROVE DeviceInv
  OBVIOUS
<1>1. pc = "configure" /\ pc \notin Loops
  BY DEF Init, Loops
<1> QED BY <1>1, LoopInit DEF DeviceInv, UsedInv

\* No step disturbs what is gone being what was handled.
LEMMA DeviceStep == DevicesHeldOnce => (DeviceInv /\ [Next]_vars => DeviceInv')
<1> SUFFICES ASSUME DevicesHeldOnce, DeviceInv, [Next]_vars PROVE DeviceInv'
  OBVIOUS
<1>1. LoopInv /\ LoopInv'
  BY LoopStep DEF DeviceInv
<1>2. SourceInv /\ TodoInv /\ UsedInv /\ (pc = "done" => todo = <<>>)
  BY <1>1 DEF DeviceInv, LoopInv
<1>3. CASE Configure \/ NewResourcesAggregator
  <2>1. pc' \notin Loops
    BY <1>3 DEF Configure, NewResourcesAggregator, Loops
  <2> QED BY <1>1, <2>1 DEF DeviceInv, UsedInv, Loops
<1>4. CASE Aggregate
  <2>1. UsedInv' /\ pc' # "done"
    BY <1>1, <1>4, UsedInit DEF Aggregate
  <2> QED BY <1>1, <2>1 DEF DeviceInv
<1>5. CASE UpdateAvailable
  <2>1. pc \in Loops /\ pc' # "done"
    BY <1>5 DEF UpdateAvailable, Aggregating, Loops
  <2>2. HeldOnce(pods)
    BY <1>2, <2>1, PodsHeldOnce
  <2>3. UsedInv'
    BY <1>5, <2>2, UsedStep
  <2> QED BY <1>1, <2>1, <2>3 DEF DeviceInv
<1>6. CASE AvailableUpdated \/ (MemoryUpdated \/ UpdateMemoryAvailable)
  <2>1. /\ pc \in Loops /\ todo # <<>> /\ UNCHANGED <<machine, pods>> /\ pc' # "done"
    BY <1>6 DEF AvailableUpdated, MemoryUpdated, UpdateMemoryAvailable, Aggregating, Loops, Fixed
  <2>2. todo \in Seq(Entries)
    BY <1>2, <2>1 DEF TodoInv
  <2>3. Entry \in Entries
    BY <2>1, <2>2, TailFacts DEF Entry
  <2>4. \A m : m \notin MemoryNames => Held(todo', m) = Held(todo, m)
    <3>1. CASE NextEntry
      <4>1. Entry.data = <<>> \/ Entry.name \in MemoryNames
        BY <1>6 DEF AvailableUpdated, MemoryUpdated, UpdateMemoryAvailable, Aggregating
      <4>2. ASSUME NEW m, m \notin MemoryNames
            PROVE  Held(Tail(todo), m) = Held(todo, m)
        BY <2>1, <2>2, <4>1, <4>2, HeldNext
      <4> QED BY <3>1, <4>2 DEF NextEntry
    <3>2. CASE UpdateMemoryAvailable /\ ~NextEntry
      <4>1. PICK rest \in Entries : /\ rest.name = Entry.name /\ rest.data = Entry.data
                                    /\ todo' = <<rest>> \o Tail(todo)
        <5>1. Entry.nodes # <<>>
          BY <3>2 DEF UpdateMemoryAvailable
        <5>2. CASE With([Entry EXCEPT !.nodes = Tail(@)])
          <6>1. Entry.size \in Nat /\ 0 \in Nat /\ 0 <= Entry.size
            BY <2>3 DEF Entries
          <6> DEFINE same == [Entry EXCEPT !.nodes = Tail(@)]
          <6>2. same \in Entries /\ same.data = Entry.data
            BY <2>3, <5>1, <6>1, NodeHandled
          <6>3. same.name = Entry.name
            BY <2>3 DEF Entries
          <6>4. todo' = <<same>> \o Tail(todo)
            BY <5>2 DEF With
          <6> HIDE DEF same
          <6> QED BY <6>2, <6>3, <6>4
        <5>3. ASSUME NEW node \in DOMAIN zones, Entry.name \in DOMAIN zones[node],
                     With(Rest(Taken(zones[node][Entry.name].available)))
              PROVE  \E rest \in Entries : /\ rest.name = Entry.name /\ rest.data = Entry.data
                                           /\ todo' = <<rest>> \o Tail(todo)
          <6> DEFINE taken == Taken(zones[node][Entry.name].available)
          <6>1. taken \in Nat /\ taken <= Entry.size
            BY <1>1, <3>2, <5>3, TakenFacts
          <6>2. With(Rest(taken))
            BY <5>3
          <6> HIDE DEF taken
          <6>3. Rest(taken) \in Entries /\ Rest(taken).name = Entry.name
                /\ Rest(taken).data = Entry.data
            BY <2>3, <5>1, <6>1, NodeHandled DEF Rest
          <6> QED BY <6>2, <6>3 DEF With
        <5> QED BY <3>2, <5>2, <5>3 DEF UpdateMemoryAvailable
      <4> QED BY <2>1, <2>2, <4>1, HeldSame
    <3> QED BY <1>6, <3>1, <3>2 DEF AvailableUpdated, MemoryUpdated
  <2>5. /\ DOMAIN zones' = DOMAIN zones
        /\ \A n \in DOMAIN zones :
             /\ DOMAIN zones'[n] = DOMAIN zones[n]
             /\ \A m \in DOMAIN zones[n] \ MemoryNames : zones'[n][m] = zones[n][m]
    BY <1>6 DEF AvailableUpdated, MemoryUpdated, UpdateMemoryAvailable, Aggregating
  <2>6. UsedInv'
    BY <1>2, <2>1, <2>4, <2>5, UsedKept
  <2> QED BY <1>1, <2>1, <2>6 DEF DeviceInv
<1>7. CASE Return
  <2>1. /\ pc \in Loops /\ todo = <<>> /\ UNCHANGED <<machine, pods, todo, zones>>
    BY <1>7 DEF Return, Fixed, Loops
  <2>2. UsedInv'
    BY <1>2, <2>1, UsedKept
  <2> QED BY <1>1, <2>1, <2>2 DEF DeviceInv
<1>8. CASE UNCHANGED vars
  <2>1. UNCHANGED <<machine, pods, todo, zones, pc>>
    BY <1>8 DEF vars
  <2>2. UsedInv'
    BY <1>2, <2>1, UsedKept DEF UsedInv
  <2> QED BY <1>1, <1>2, <2>1, <2>2 DEF DeviceInv
<1> QED BY <1>3, <1>4, <1>5, <1>6, <1>7, <1>8 DEF Next

\* When no two entries hold a device, DeviceInv holds of every state.
LEMMA DeviceInvHolds == ASSUME DevicesHeldOnce PROVE Spec => []DeviceInv
BY DeviceInit, DeviceStep, PTL DEF Spec

\* Pods of which each ID is held once use no more of a node than there is.
LEMMA DeviceInvBounded == DeviceInv => AvailableBounded
<1> SUFFICES ASSUME DeviceInv, NEW node \in DOMAIN zones, NEW name \in DOMAIN zones[node]
             PROVE  /\ 0 <= zones[node][name].available
                    /\ zones[node][name].available <= zones[node][name].allocatable
  BY DEF AvailableBounded
<1>1. LoopInv /\ UsedInv /\ SourceInv /\ ZonesInv /\ MemoryInv
  BY DEF DeviceInv, LoopInv
<1>2. pc \in Loops
  BY <1>1 DEF SourceInv
<1>3. CASE name \in MemoryNames
  BY <1>1, <1>2, <1>3 DEF MemoryInv
<1>4. CASE name \notin MemoryNames
  <2>1. IsMachine(machine)
    BY <1>1, SourceTypes
  <2>2. zones[node][name].available
          = zones[node][name].allocatable - Cardinality(Used(name, node))
    BY <1>1, <1>2, <1>4 DEF UsedInv
  <2>3. /\ Cardinality(Used(name, node)) <= Cardinality(IDsOn(machine, name, node))
        /\ Cardinality(Used(name, node)) \in Nat
        /\ Cardinality(IDsOn(machine, name, node)) \in Nat
    BY <2>1, UsedListed
  <2>4. /\ node \in DOMAIN InitialZones(machine, excluded)
        /\ name \in DOMAIN InitialZones(machine, excluded)[node]
        /\ zones[node][name].allocatable
             = InitialZones(machine, excluded)[node][name].allocatable
    BY <1>1, <1>2 DEF ZonesInv
  <2>5. /\ zones[node][name].allocatable \in Nat
        /\ Cardinality(IDsOn(machine, name, node)) <= zones[node][name].allocatable
    BY <2>1, <2>4, InitialZonesData
  <2> QED BY <2>2, <2>3, <2>5
<1> QED BY <1>3, <1>4

\* Whatever the order of the pods, and with IDs the tables do not know or list with
\* several nodes, no zone is left with less than nothing or more than it had
\* (updateAvailable, updateMemoryAvailable), if no CPU or device is held twice.
THEOREM AvailableBoundedHolds == ASSUME DevicesHeldOnce PROVE Spec => []AvailableBounded
BY DeviceInvHolds, DeviceInvBounded, PTL

\* What the next theorem assumes of the tables.
DevicesHaveOneNode == \A case \in Cases : OneNodeEach(case.machine)

\* The tables do not change.
LEMMA MachineHasOneNodeEach ==
  ASSUME DevicesHaveOneNode, SourceInv
  PROVE  OneNodeEach(machine)
BY DEF DevicesHaveOneNode, SourceInv

\* Where an ID is used is where it sits.
LEMMA UsedWhereItSits ==
  ASSUME IsMachine(machine), OneNodeEach(machine), todo = <<>>, NEW name, NEW node
  PROVE  Used(name, node) = HeldIDs(name, node)
<1>1. AllDevices(machine) \in Seq(DeviceEntries)
  BY AllDevicesType
<1>2. ASSUME NEW id
      PROVE  SitsOn(name, id, node) <=> id \in IDsOn(machine, name, node)
  <2>1. \A i \in DOMAIN AllDevices(machine) : AllDevices(machine)[i].nodes \in Seq(Nat)
    <3>1. \A i \in DOMAIN AllDevices(machine) : AllDevices(machine)[i] \in DeviceEntries
      BY <1>1
    <3> QED BY <3>1 DEF DeviceEntries
  <2>2. \A i \in DOMAIN AllDevices(machine) :
          Times(AllDevices(machine)[i], node) > 0
            <=> node \in Range(AllDevices(machine)[i].nodes)
    BY <2>1, TimesFacts
  <2> QED BY <2>2 DEF SitsOn, IDsOn
<1>3. ASSUME NEW id
      PROVE  id \in IDsOn(machine, name, node)
               <=> IsKnown(machine, name, id) /\ ResourceMap(machine, name, id) = node
  BY ResourceMapFacts, ResourceMapUnique
<1>4. Held(todo, name) = {}
  BY HeldMember
<1>5. \A id : id \in Used(name, node) <=> id \in HeldIDs(name, node)
  BY <1>2, <1>3, <1>4 DEF Used, HeldIDs
<1> QED BY <1>5

\* After an aggregation every node offers, of every device and of the CPUs, what is
\* allocatable there less what the pods hold there (updateAvailable), if no ID is held
\* twice or listed with two nodes.
THEOREM AvailableIsUnreservedHolds ==
  ASSUME DevicesHeldOnce, DevicesHaveOneNode
  PROVE  Spec => []AvailableIsUnreserved
<1>1. DeviceInv => AvailableIsUnreserved
  <2> SUFFICES ASSUME DeviceInv, pc = "done",
                      NEW node \in DOMAIN zones, NEW name \in DOMAIN zones[node] \ MemoryNames
               PROVE  zones[node][name].available =
                        zones[node][name].allocatable - Cardinality(HeldIDs(name, node))
    BY DEF AvailableIsUnreserved
  <2>1. SourceInv /\ UsedInv /\ todo = <<>> /\ pc \in Loops
    BY DEF DeviceInv, LoopInv, Loops
  <2>2. IsMachine(machine) /\ OneNodeEach(machine)
    BY <2>1, SourceTypes, MachineHasOneNodeEach
  <2>3. Used(name, node) = HeldIDs(name, node)
    BY <2>1, <2>2, UsedWhereItSits
  <2> QED BY <2>1, <2>3 DEF UsedInv
<1> QED BY <1>1, DeviceInvHolds, PTL

-----------------------------------------------------------------------------
(* What the loops leave of the zones as it was.                            *)

\* What the next theorem assumes of the tables.
CPUsAreProcessors == \A case \in Cases : OnlyProcessorsAreCPUs(case.machine)

\* A node's capacity in CPUs is the number of its processors, reserved or not, also
\* where the kubelet can allocate nothing (Aggregate, makeReservedCPUMap), if the nodes
\* listed differ and no device or memory is called "cpu".
THEOREM CPUCapacityHolds == ASSUME CPUsAreProcessors PROVE Spec => []CPUCapacity
<1>1. LoopInv => CPUCapacity
  <2> SUFFICES ASSUME LoopInv, NEW node \in DOMAIN zones \cap Range(machine.nodes),
                      "cpu" \in DOMAIN zones[node]
               PROVE  zones[node]["cpu"].capacity = Cardinality(machine.processors[node])
    BY DEF CPUCapacity
  <2>1. SourceInv /\ ZonesInv /\ IsMachine(machine)
    BY SourceTypes DEF LoopInv
  <2>2. pc \in Loops
    BY <2>1 DEF SourceInv
  <2>3. OnlyProcessorsAreCPUs(machine)
    BY <2>1 DEF SourceInv, CPUsAreProcessors
  <2>4. /\ node \in DOMAIN InitialZones(machine, excluded) \cap Range(machine.nodes)
        /\ "cpu" \in DOMAIN InitialZones(machine, excluded)[node]
        /\ zones[node]["cpu"].capacity = InitialZones(machine, excluded)[node]["cpu"].capacity
    BY <2>1, <2>2 DEF ZonesInv
  <2> QED BY <2>1, <2>3, <2>4, InitialCPUCapacity
<1> QED BY <1>1, LoopInvHolds, PTL

=============================================================================
