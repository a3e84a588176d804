----------------------- MODULE AggregatorMemoryProofs -----------------------
(***************************************************************************)
(* Proofs about the memory in Aggregator: that what the zones lose of each *)
(* kind is what the entries handled ask for, as long as the pods hold no   *)
(* more of a group of nodes than the group has.                            *)
(***************************************************************************)
EXTENDS AggregatorProofs

\* What the theorem assumes of the pods.
MemoryFits ==
  \A case \in Cases : \A scan \in Range(case.scans) : GroupsFit(case.machine, scan)

\* The entries of a kind of memory, and of them those granted from the same group.
Of(name) == {i \in DOMAIN pods : pods[i].name = name}
Sharing(i) == {j \in Of(pods[i].name) : GroupOf(pods[j]) = GroupOf(pods[i])}

\* What the loops have still to take off for each entry.
Left == [i \in DOMAIN pods |-> IF i <= Past THEN 0 ELSE todo[i - Past].size]

\* What the nodes have available of a kind.
Offer(name) == [node \in Having(name) |-> zones[node][name]["available"]]

\* What is gone of a kind is what was taken off for its entries.
ConservedInv(name) ==
  Total(name, "available")
    = Total(name, "allocatable") - (Amount(pods, name) - SumFunctionOnSet(Left, Of(name)))

\* A group of nodes has all that is still to be taken from it.
FitsInv(name) ==
  \A i \in Of(name) :
    SumFunctionOnSet(Left, Sharing(i)) <= SumFunctionOnSet(Offer(name), GroupOf(pods[i]))

\* An entry goes on to its next node when the nodes before it have nothing left.
HandledInv(name) ==
  todo # <<>> /\ Entry.name = name /\ Entry.size > 0 =>
    \A node \in GroupOf(pods[Past + 1]) \ GroupOf(Entry) : Offer(name)[node] = 0

\* The invariant of the memory.
BlocksInv ==
  pc \in Loops => \A name \in MemoryNames \ excluded :
    ConservedInv(name) /\ FitsInv(name) /\ HandledInv(name)

-----------------------------------------------------------------------------
(* What is left of each entry.                                             *)

\* The amounts left are amounts, and the first entry left is the one in hand.
LEMMA LeftFacts ==
  ASSUME TodoInv, pc \in Loops
  PROVE  /\ pods \in Seq(Entries) /\ todo \in Seq(Entries)
         /\ Past \in Nat
         /\ DOMAIN Left = DOMAIN pods /\ \A i \in DOMAIN pods : Left[i] \in Nat
         /\ todo # <<>> =>
              /\ Past + 1 \in DOMAIN pods /\ Left[Past + 1] = Entry.size
              /\ pods[Past + 1].name = Entry.name /\ Entry \in Entries
              /\ GroupOf(Entry) \subseteq GroupOf(pods[Past + 1])
<1>1. /\ pods \in Seq(Entries) /\ todo \in Seq(Entries) /\ Len(todo) <= Len(pods)
      /\ \A i \in DOMAIN todo : LeftOf(pods[i + Past], todo[i])
  BY DEF TodoInv
<1>2. Past \in Nat /\ Past = Len(pods) - Len(todo)
  BY <1>1 DEF Past
<1>3. ASSUME NEW i \in DOMAIN pods PROVE Left[i] \in Nat
  <2>1. CASE i <= Past
    BY <2>1 DEF Left
  <2>2. CASE ~(i <= Past)
    <3>1. i - Past \in DOMAIN todo
      BY <1>1, <1>2, <2>2
    <3>2. todo[i - Past] \in Entries
      BY <1>1, <3>1
    <3>3. todo[i - Past].size \in Nat
      BY <3>2 DEF Entries
    <3> QED BY <2>2, <3>3 DEF Left
  <2> QED BY <2>1, <2>2
<1>4. ASSUME todo # <<>>
      PROVE  /\ Past + 1 \in DOMAIN pods /\ Left[Past + 1] = Entry.size
             /\ pods[Past + 1].name = Entry.name /\ Entry \in Entries
             /\ GroupOf(Entry) \subseteq GroupOf(pods[Past + 1])
  <2>1. Entry \in Entries /\ Entry = todo[1] /\ 1 \in DOMAIN todo
    BY <1>1, <1>4, TailFacts DEF Entry
  <2>2. Past + 1 \in DOMAIN pods /\ ~(Past + 1 <= Past) /\ (Past + 1) - Past = 1
    BY <1>1, <1>2, <2>1
  <2>3. Left[Past + 1] = Entry.size
    BY <2>1, <2>2 DEF Left
  <2>4. LeftOf(pods[Past + 1], Entry) /\ pods[Past + 1] \in Entries
    <3>1. 1 + Past = Past + 1
      BY <1>2
    <3> QED BY <1>1, <2>1, <2>2, <3>1
  <2>5. /\ pods[Past + 1].name = Entry.name /\ EndOf(pods[Past + 1].nodes, Entry.nodes)
        /\ pods[Past + 1].nodes \in Seq(Nat) /\ Entry.nodes \in Seq(Nat)
    BY <2>1, <2>4 DEF LeftOf, Entries
  <2> DEFINE whole == pods[Past + 1].nodes
             rest == Entry.nodes
  <2>6. whole \in Seq(Nat) /\ rest \in Seq(Nat) /\ EndOf(whole, rest)
    BY <2>5
  <2> HIDE DEF whole, rest
  <2>7. Range(rest) \subseteq Range(whole)
    BY <2>6, EndOfFacts
  <2> QED BY <2>1, <2>2, <2>3, <2>5, <2>7 DEF GroupOf, whole, rest
<1> QED BY <1>1, <1>2, <1>3, <1>4 DEF Left

\* The loop goes on to the next entry: nothing is left of the one in hand.
LEMMA LeftNext ==
  ASSUME TodoInv, pc \in Loops, todo # <<>>, NextEntry, UNCHANGED pods
  PROVE  /\ Left'[Past + 1] = 0 /\ Past' = Past + 1
         /\ \A i \in DOMAIN pods : i # Past + 1 => Left'[i] = Left[i]
<1>1. pods \in Seq(Entries) /\ todo \in Seq(Entries) /\ Past \in Nat /\ Past + 1 \in DOMAIN pods
  BY LeftFacts
<1>2. /\ todo' \in Seq(Entries) /\ Len(todo') = Len(todo) - 1
      /\ \A i \in DOMAIN todo' : i + 1 \in DOMAIN todo /\ todo'[i] = todo[i + 1]
  BY <1>1, TailFacts DEF NextEntry
<1>3. Past' = Past + 1 /\ Past = Len(pods) - Len(todo)
  BY <1>1, <1>2 DEF Past
<1>4. Left' = [i \in DOMAIN pods |-> IF i <= Past' THEN 0 ELSE todo'[i - Past'].size]
  BY DEF Left
<1>5. Left'[Past + 1] = 0
  BY <1>1, <1>3, <1>4
<1>6. ASSUME NEW i \in DOMAIN pods, i # Past + 1 PROVE Left'[i] = Left[i]
  <2>1. i \in Nat /\ i >= 1 /\ i <= Len(pods)
    BY <1>1
  <2>2. CASE i <= Past
    BY <1>1, <1>3, <1>4, <2>1, <2>2 DEF Left
  <2>3. CASE ~(i <= Past)
    <3>1. ~(i <= Past') /\ i - Past' \in DOMAIN todo' /\ (i - Past') + 1 = i - Past
      BY <1>1, <1>2, <1>3, <1>6, <2>1, <2>3
    <3>2. todo'[i - Past'] = todo[i - Past]
      BY <1>2, <3>1
    <3> QED BY <1>4, <2>3, <3>1, <3>2 DEF Left
  <2> QED BY <2>2, <2>3
<1> QED BY <1>3, <1>5, <1>6

\* The loop goes on with what is left of the entry in hand.
LEMMA LeftWith ==
  ASSUME TodoInv, pc \in Loops, todo # <<>>, UNCHANGED pods, NEW rest \in Entries, With(rest)
  PROVE  /\ Left'[Past + 1] = rest.size /\ Past' = Past
         /\ todo' # <<>> /\ Entry' = rest
         /\ \A i \in DOMAIN pods : i # Past + 1 => Left'[i] = Left[i]
<1>1. pods \in Seq(Entries) /\ todo \in Seq(Entries) /\ Past \in Nat /\ Past + 1 \in DOMAIN pods
  BY LeftFacts
<1>2. /\ todo' \in Seq(Entries) /\ Len(todo') = Len(todo) /\ DOMAIN todo' = DOMAIN todo
      /\ todo'[1] = rest /\ \A i \in DOMAIN todo : i > 1 => todo'[i] = todo[i]
  BY <1>1, FirstReplaced DEF With
<1>3. Past' = Past /\ Past = Len(pods) - Len(todo)
  BY <1>1, <1>2 DEF Past
<1>4. Left' = [i \in DOMAIN pods |-> IF i <= Past THEN 0 ELSE todo'[i - Past].size]
  BY <1>3 DEF Left
<1>5. Left'[Past + 1] = rest.size
  <2>1. ~(Past + 1 <= Past) /\ (Past + 1) - Past = 1
    BY <1>1
  <2> QED BY <1>1, <1>2, <1>4, <2>1
<1>6. ASSUME NEW i \in DOMAIN pods, i # Past + 1 PROVE Left'[i] = Left[i]
  <2>1. i \in Nat /\ i >= 1 /\ i <= Len(pods)
    BY <1>1
  <2>2. CASE i <= Past
    BY <1>4, <2>2 DEF Left
  <2>3. CASE ~(i <= Past)
    <3>1. i - Past \in DOMAIN todo /\ i - Past > 1
      BY <1>1, <1>3, <1>6, <2>1, <2>3
    <3>2. todo'[i - Past] = todo[i - Past]
      BY <1>2, <3>1
    <3> QED BY <1>4, <2>3, <3>2 DEF Left
  <2> QED BY <2>2, <2>3
<1>7. todo' # <<>> /\ Entry' = rest
  <2>1. Len(todo') > 0
    BY <1>1, <1>2
  <2>2. todo' # <<>>
    BY <2>1
  <2> QED BY <1>2, <2>2 DEF Entry
<1> QED BY <1>3, <1>5, <1>6, <1>7

-----------------------------------------------------------------------------
(* The sums.                                                               *)

\* They are over finitely many entries and nodes, of amounts.
LEMMA MemoryTypes ==
  ASSUME LoopInv, pc \in Loops, NEW name \in MemoryNames
  PROVE  /\ IsFiniteSet(Of(name)) /\ \A i \in Of(name) : Left[i] \in Nat
         /\ \A i \in Of(name) : Sharing(i) \subseteq Of(name)
         /\ IsFiniteSet(Having(name))
         /\ \A node \in Having(name) : Offer(name)[node] \in Nat
         /\ Total(name, "available") \in Int /\ Total(name, "allocatable") \in Int
         /\ Amount(pods, name) \in Int
         /\ Total(name, "available") = SumFunctionOnSet(Offer(name), Having(name))
<1>1. TodoInv /\ ZonesInv /\ MemoryInv /\ SourceInv
  BY DEF LoopInv
<1>2. pods \in Seq(Entries) /\ \A i \in DOMAIN pods : Left[i] \in Nat
  BY <1>1, LeftFacts
<1>3. IsFiniteSet(Of(name))
  <2>1. IsFiniteSet(1..Len(pods)) /\ Of(name) \subseteq 1..Len(pods)
    BY <1>2, FS_Interval DEF Of
  <2> QED BY <2>1, FS_Subset
<1>4. IsFiniteSet(Having(name))
  <2>1. DOMAIN zones = 0..(Len(machine.nodes) - 1)
    BY <1>1, InitialZonesDomain DEF ZonesInv
  <2>2. machine.nodes \in Seq(Nat)
    BY <1>1, SourceTypes DEF IsMachine
  <2>3. IsFiniteSet(0..(Len(machine.nodes) - 1))
    BY <2>2, FS_Interval
  <2> QED BY <2>1, <2>3, FS_Subset DEF Having
<1>5. ASSUME NEW node \in Having(name)
      PROVE  zones[node][name]["available"] \in Nat /\ zones[node][name]["allocatable"] \in Nat
  <2>1. node \in DOMAIN zones /\ name \in DOMAIN zones[node]
    BY DEF Having
  <2>2. zones[node][name].available \in Nat
    BY <1>1, <2>1 DEF ZonesInv, MemoryInv
  <2>3. zones[node][name].allocatable \in Nat
    <3>1. /\ node \in DOMAIN InitialZones(machine, excluded)
          /\ name \in DOMAIN InitialZones(machine, excluded)[node]
          /\ zones[node][name].allocatable
               = InitialZones(machine, excluded)[node][name].allocatable
      BY <1>1, <2>1 DEF ZonesInv
    <3>2. IsMachine(machine)
      BY <1>1, SourceTypes
    <3> QED BY <3>1, <3>2, InitialZonesData
  <2> QED BY <2>2, <2>3
<1>6. \A node \in Having(name) : Offer(name)[node] \in Nat
  BY <1>5 DEF Offer
<1>7. Total(name, "available") = SumFunctionOnSet(Offer(name), Having(name))
  BY DEF Total, Offer
<1>8. Total(name, "available") \in Int
  <2>1. \A node \in Having(name) : Offer(name)[node] \in Int
    BY <1>6
  <2> QED BY <1>4, <1>7, <2>1, SumType
<1>9. Total(name, "allocatable") \in Int
  <2> DEFINE f == [node \in Having(name) |-> zones[node][name]["allocatable"]]
  <2>1. \A node \in Having(name) : f[node] \in Int
    BY <1>5
  <2> HIDE DEF f
  <2>2. SumFunctionOnSet(f, Having(name)) \in Int
    BY <1>4, <2>1, SumType
  <2> QED BY <2>2 DEF f, Total
<1>10. Amount(pods, name) \in Int
  <2> DEFINE f == [i \in DOMAIN pods |-> pods[i].size]
  <2>1. \A i \in Of(name) : f[i] \in Int
    <3>1. \A i \in DOMAIN pods : pods[i] \in Entries
      BY <1>2
    <3> QED BY <3>1 DEF Of, Entries
  <2> HIDE DEF f
  <2>2. SumFunctionOnSet(f, Of(name)) \in Int
    BY <1>3, <2>1, SumType
  <2> QED BY <2>2 DEF f, Amount, Of
<1> QED BY <1>2, <1>3, <1>4, <1>6, <1>7, <1>8, <1>9, <1>10 DEF Of, Sharing

\* What is left, counted by entry, is what the entries left ask for.
LEMMA LeftIsAmount ==
  ASSUME TodoInv, pc \in Loops, NEW name
  PROVE  SumFunctionOnSet(Left, Of(name)) = Amount(todo, name)
<1>1. /\ pods \in Seq(Entries) /\ todo \in Seq(Entries) /\ Len(todo) <= Len(pods)
      /\ \A i \in DOMAIN todo : LeftOf(pods[i + Past], todo[i])
  BY DEF TodoInv
<1>2. Past \in Nat /\ Past = Len(pods) - Len(todo) /\ \A i \in DOMAIN pods : Left[i] \in Nat
  BY <1>1, LeftFacts DEF Past
<1> DEFINE sizes == [i \in DOMAIN todo |-> todo[i].size]
           rest == {i \in DOMAIN todo : todo[i].name = name}
           place == [i \in DOMAIN todo |-> i + Past]
           places == {place[i] : i \in rest}
<1>3. IsFiniteSet(rest) /\ IsFiniteSet(Of(name))
  <2>1. /\ IsFiniteSet(1..Len(todo)) /\ rest \subseteq 1..Len(todo)
        /\ IsFiniteSet(1..Len(pods)) /\ Of(name) \subseteq 1..Len(pods)
    BY <1>1, FS_Interval DEF Of
  <2> QED BY <2>1, FS_Subset
<1>4. ASSUME NEW i \in rest
      PROVE  /\ sizes[i] \in Int /\ place[i] = i + Past /\ i \in Nat
             /\ Left[place[i]] = sizes[i] /\ place[i] \in Of(name)
  <2>1. todo[i] \in Entries /\ i \in 1..Len(todo)
    BY <1>1
  <2>2. todo[i].size \in Int
    BY <2>1 DEF Entries
  <2>3. i + Past \in DOMAIN pods /\ ~(i + Past <= Past) /\ (i + Past) - Past = i
    BY <1>1, <1>2, <2>1
  <2>4. pods[i + Past].name = name
    BY <1>1 DEF LeftOf
  <2> QED BY <2>1, <2>2, <2>3, <2>4 DEF Left, Of
<1>5. ASSUME NEW j \in Of(name) \ places PROVE Left[j] = 0
  <2>1. j \in DOMAIN pods /\ pods[j].name = name /\ j \in Nat /\ j >= 1 /\ j <= Len(pods)
    BY <1>1 DEF Of
  <2>2. CASE j <= Past
    BY <2>1, <2>2 DEF Left
  <2>3. CASE ~(j <= Past)
    <3>1. j - Past \in DOMAIN todo /\ (j - Past) + Past = j
      BY <1>1, <1>2, <2>1, <2>3
    <3>2. j - Past \in rest
      BY <1>1, <2>1, <3>1 DEF LeftOf
    <3>3. place[j - Past] = j
      BY <3>1
    <3> QED BY <3>2, <3>3
  <2> QED BY <2>2, <2>3
<1>6. /\ \A i \in rest : sizes[i] \in Int
      /\ \A x, y \in rest : place[x] = place[y] => x = y
      /\ \A i \in rest : Left[place[i]] = sizes[i]
  BY <1>2, <1>4
<1>7. places \in SUBSET Of(name)
  BY <1>4
<1>8. \A i \in Of(name) : Left[i] \in Int
  BY <1>2 DEF Of
<1> HIDE DEF sizes, rest, place
<1>9. SumFunctionOnSet(Left, {place[i] : i \in rest}) = SumFunctionOnSet(sizes, rest)
  BY <1>3, <1>6, SumRenumbered
<1> HIDE DEF places
<1>10. SumFunctionOnSet(Left, places) = SumFunctionOnSet(Left, Of(name))
  BY <1>3, <1>5, <1>7, <1>8, SumNonzero
<1> QED BY <1>9, <1>10 DEF Amount, places, rest, sizes

-----------------------------------------------------------------------------
(* What a step of the loops does to the sums.                              *)

\* Nothing is taken off for the kind, and nothing was left of what is dropped.
LEMMA MemoryKept ==
  ASSUME LoopInv, pc \in Loops, NEW name \in MemoryNames, UNCHANGED pods,
         DOMAIN zones' = DOMAIN zones,
         \A n \in DOMAIN zones :
           /\ DOMAIN zones'[n] = DOMAIN zones[n]
           /\ name \in DOMAIN zones[n] => zones'[n][name] = zones[n][name],
         \A i \in Of(name) : Left'[i] = Left[i],
         ConservedInv(name), FitsInv(name)
  PROVE  ConservedInv(name)' /\ FitsInv(name)' /\ Offer(name)' = Offer(name)
<1>1. /\ IsFiniteSet(Of(name)) /\ \A i \in Of(name) : Sharing(i) \subseteq Of(name)
  BY MemoryTypes
<1>2. /\ Of(name)' = Of(name) /\ Amount(pods, name)' = Amount(pods, name)
      /\ \A i \in Of(name) : Sharing(i)' = Sharing(i)
  BY DEF Of, Sharing, Amount
<1>3. Having(name)' = Having(name)
  BY DEF Having
<1>4. \A node \in Having(name) : zones'[node][name] = zones[node][name]
  BY DEF Having
<1>5. Offer(name)' = Offer(name)
  BY <1>3, <1>4 DEF Offer
<1>6. /\ Total(name, "available")' = Total(name, "available")
      /\ Total(name, "allocatable")' = Total(name, "allocatable")
  <2>1. \A field : [node \in Having(name) |-> zones'[node][name][field]]
                     = [node \in Having(name) |-> zones[node][name][field]]
    BY <1>4
  <2> QED BY <1>3, <2>1 DEF Total
<1>7. SumFunctionOnSet(Left', Of(name)) = SumFunctionOnSet(Left, Of(name))
  BY <1>1, SumSame
<1>8. ConservedInv(name)'
  BY <1>2, <1>6, <1>7 DEF ConservedInv
<1>9. ASSUME NEW i \in Of(name)
      PROVE  SumFunctionOnSet(Left', Sharing(i)) = SumFunctionOnSet(Left, Sharing(i))
  <2>1. IsFiniteSet(Sharing(i)) /\ \A j \in Sharing(i) : Left'[j] = Left[j]
    BY <1>1, FS_Subset
  <2> QED BY <2>1, SumSame
<1>10. FitsInv(name)'
  BY <1>2, <1>5, <1>9 DEF FitsInv
<1> QED BY <1>5, <1>8, <1>10

\* Groups of the kind lie in the nodes that have it, and do not overlap.
GroupsApart(name) ==
  \A i \in Of(name) :
    /\ GroupOf(pods[i]) \subseteq Having(name)
    /\ \A j \in Of(name) : \/ GroupOf(pods[j]) = GroupOf(pods[i])
                           \/ GroupOf(pods[j]) \cap GroupOf(pods[i]) = {}

\* A node of an entry's group gives something for it.
LEMMA MemoryTaken ==
  ASSUME LoopInv, pc \in Loops, NEW name \in MemoryNames, UNCHANGED pods, GroupsApart(name),
         NEW h \in Of(name), NEW node \in GroupOf(pods[h]), NEW taken \in Nat,
         DOMAIN zones' = DOMAIN zones,
         \A n \in DOMAIN zones :
           /\ DOMAIN zones'[n] = DOMAIN zones[n]
           /\ name \in DOMAIN zones[n] =>
                /\ zones'[n][name].allocatable = zones[n][name].allocatable
                /\ n = node => zones'[n][name].available = zones[n][name].available - taken
                /\ n # node => zones'[n][name] = zones[n][name],
         Left'[h] = Left[h] - taken,
         \A i \in Of(name) \ {h} : Left'[i] = Left[i],
         ConservedInv(name), FitsInv(name)
  PROVE  /\ ConservedInv(name)' /\ FitsInv(name)'
         /\ Having(name)' = Having(name)
         /\ Offer(name)'[node] = Offer(name)[node] - taken
         /\ \A n \in Having(name) \ {node} : Offer(name)'[n] = Offer(name)[n]
<1>1. /\ IsFiniteSet(Of(name)) /\ \A i \in Of(name) : Left[i] \in Nat
      /\ \A i \in Of(name) : Sharing(i) \subseteq Of(name)
      /\ IsFiniteSet(Having(name)) /\ \A n \in Having(name) : Offer(name)[n] \in Nat
      /\ Total(name, "available") \in Int /\ Total(name, "allocatable") \in Int
      /\ Amount(pods, name) \in Int
      /\ Total(name, "available") = SumFunctionOnSet(Offer(name), Having(name))
  BY MemoryTypes
<1>2. /\ Of(name)' = Of(name) /\ Amount(pods, name)' = Amount(pods, name)
      /\ \A i \in Of(name) : Sharing(i)' = Sharing(i)
  BY DEF Of, Sharing, Amount
<1>3. Having(name)' = Having(name)
  BY DEF Having
<1>4. node \in Having(name) /\ node \in DOMAIN zones /\ name \in DOMAIN zones[node]
  BY DEF GroupsApart, Having
<1>5. /\ Offer(name)' = [n \in Having(name) |-> zones'[n][name]["available"]]
      /\ Total(name, "available")' = SumFunctionOnSet(Offer(name)', Having(name))
  BY <1>3 DEF Offer, Total
<1>6. Offer(name)'[node] = Offer(name)[node] - taken
  BY <1>4, <1>5 DEF Offer
<1>7. \A n \in Having(name) \ {node} : Offer(name)'[n] = Offer(name)[n]
  BY <1>5 DEF Offer, Having
<1>8. Total(name, "allocatable")' = Total(name, "allocatable")
  <2>1. \A n \in Having(name) : zones'[n][name].allocatable = zones[n][name].allocatable
    BY DEF Having
  <2>2. [n \in Having(name) |-> zones'[n][name]["allocatable"]]
          = [n \in Having(name) |-> zones[n][name]["allocatable"]]
    BY <2>1
  <2> QED BY <1>3, <2>2 DEF Total
<1> DEFINE old == Offer(name)
           new == Offer(name)'
           left == Left
           rest == Left'
<1>9. /\ \A n \in Having(name) : old[n] \in Int
      /\ old[node] \in Int /\ new[node] = old[node] - taken /\ new[node] \in Int
      /\ \A n \in Having(name) \ {node} : new[n] = old[n]
      /\ \A i \in Of(name) : left[i] \in Int
      /\ rest[h] = left[h] - taken /\ rest[h] \in Int
      /\ \A i \in Of(name) \ {h} : rest[i] = left[i]
  BY <1>1, <1>4, <1>6, <1>7
<1> HIDE DEF old, new, left, rest
<1>10. ASSUME NEW G \in SUBSET Having(name)
       PROVE  /\ SumFunctionOnSet(old, G) \in Int
              /\ node \in G => SumFunctionOnSet(new, G) = SumFunctionOnSet(old, G) - taken
              /\ node \notin G => SumFunctionOnSet(new, G) = SumFunctionOnSet(old, G)
  <2>1. IsFiniteSet(G) /\ \A n \in G : old[n] \in Int
    BY <1>1, <1>9, FS_Subset
  <2>2. SumFunctionOnSet(old, G) \in Int
    BY <2>1, SumType
  <2>3. ASSUME node \in G PROVE SumFunctionOnSet(new, G) = SumFunctionOnSet(old, G) - taken
    <3>1. \A n \in G \ {node} : new[n] = old[n]
      BY <1>9
    <3>2. SumFunctionOnSet(new, G) = SumFunctionOnSet(old, G) + new[node] - old[node]
      BY <1>9, <2>1, <2>3, <3>1, SumChange
    <3> QED BY <1>9, <2>2, <3>2
  <2>4. ASSUME node \notin G PROVE SumFunctionOnSet(new, G) = SumFunctionOnSet(old, G)
    <3>1. \A n \in G : new[n] = old[n]
      BY <1>9, <2>4
    <3> QED BY <2>1, <3>1, SumSame
  <2> QED BY <2>2, <2>3, <2>4
<1>11. ASSUME NEW I \in SUBSET Of(name)
       PROVE  /\ SumFunctionOnSet(left, I) \in Int
              /\ h \in I => SumFunctionOnSet(rest, I) = SumFunctionOnSet(left, I) - taken
              /\ h \notin I => SumFunctionOnSet(rest, I) = SumFunctionOnSet(left, I)
  <2>1. IsFiniteSet(I) /\ \A i \in I : left[i] \in Int
    BY <1>1, <1>9, FS_Subset
  <2>2. SumFunctionOnSet(left, I) \in Int
    BY <2>1, SumType
  <2>3. ASSUME h \in I PROVE SumFunctionOnSet(rest, I) = SumFunctionOnSet(left, I) - taken
    <3>1. \A i \in I \ {h} : rest[i] = left[i]
      BY <1>9
    <3>2. SumFunctionOnSet(rest, I) = SumFunctionOnSet(left, I) + rest[h] - left[h]
      BY <1>9, <2>1, <2>3, <3>1, SumChange
    <3>3. left[h] \in Int
      BY <1>9
    <3> QED BY <1>9, <2>2, <3>2, <3>3
  <2>4. ASSUME h \notin I PROVE SumFunctionOnSet(rest, I) = SumFunctionOnSet(left, I)
    <3>1. \A i \in I : rest[i] = left[i]
      BY <1>9, <2>4
    <3> QED BY <2>1, <3>1, SumSame
  <2> QED BY <2>2, <2>3, <2>4
<1>12. ConservedInv(name)'
  <2>1. SumFunctionOnSet(new, Having(name)) = SumFunctionOnSet(old, Having(name)) - taken
    BY <1>4, <1>10
  <2>2. /\ SumFunctionOnSet(rest, Of(name)) = SumFunctionOnSet(left, Of(name)) - taken
        /\ SumFunctionOnSet(left, Of(name)) \in Int
    BY <1>11
  <2>3. Total(name, "available")
          = Total(name, "allocatable") - (Amount(pods, name) - SumFunctionOnSet(left, Of(name)))
    BY DEF ConservedInv, left
  <2>4. Total(name, "available")' = Total(name, "available") - taken
    BY <1>1, <1>5, <2>1 DEF old, new
  <2>5. Total(name, "available")'
          = Total(name, "allocatable") - (Amount(pods, name) - SumFunctionOnSet(rest, Of(name)))
    BY <1>1, <2>2, <2>3, <2>4
  <2> QED BY <1>2, <1>8, <2>5 DEF ConservedInv, rest
<1>13. FitsInv(name)'
  <2>1. ASSUME NEW i \in Of(name)
        PROVE  SumFunctionOnSet(rest, Sharing(i)) <= SumFunctionOnSet(new, GroupOf(pods[i]))
    <3>1. SumFunctionOnSet(left, Sharing(i)) <= SumFunctionOnSet(old, GroupOf(pods[i]))
      BY DEF FitsInv, left, old
    <3>2. Sharing(i) \in SUBSET Of(name) /\ GroupOf(pods[i]) \in SUBSET Having(name)
      BY <1>1 DEF GroupsApart
    <3>3. h \in Sharing(i) <=> node \in GroupOf(pods[i])
      BY DEF GroupsApart, Sharing, Of
    <3> QED BY <1>10, <1>11, <3>1, <3>2, <3>3
  <2> QED BY <1>2, <2>1 DEF FitsInv, rest, new
<1> QED BY <1>3, <1>6, <1>7, <1>12, <1>13

-----------------------------------------------------------------------------
(* An aggregation begins.                                                  *)

\* What the groups of nodes have allocatable covers what is granted from them.
GrantsInv ==
  pc \in Loops => \A name \in MemoryNames \ excluded :
    /\ GroupsApart(name)
    /\ \A i \in Of(name) :
         /\ GroupOf(pods[i]) \subseteq DOMAIN NodeAllocatable(machine)
         /\ SumFunctionOnSet([j \in DOMAIN pods |-> pods[j].size], Sharing(i))
           <= SumFunctionOnSet([node \in GroupOf(pods[i]) |->
                                  NodeAllocatable(machine)[node][name]], GroupOf(pods[i]))

\* A group lies in nodes with something allocatable of the kind, which have a zone.
LEMMA GrantsHold == ASSUME MemoryFits PROVE LoopInv => GrantsInv
<1> SUFFICES ASSUME LoopInv, pc \in Loops, NEW name \in MemoryNames \ excluded, NEW i \in Of(name)
             PROVE  /\ GroupOf(pods[i]) \subseteq Having(name)
                    /\ \A j \in Of(name) : \/ GroupOf(pods[j]) = GroupOf(pods[i])
                                           \/ GroupOf(pods[j]) \cap GroupOf(pods[i]) = {}
                    /\ GroupOf(pods[i]) \subseteq DOMAIN NodeAllocatable(machine)
                    /\ SumFunctionOnSet([j \in DOMAIN pods |-> pods[j].size], Sharing(i))
                         <= SumFunctionOnSet([node \in GroupOf(pods[i]) |->
                                                NodeAllocatable(machine)[node][name]],
                                             GroupOf(pods[i]))
  BY DEF GrantsInv, GroupsApart
<1>1. GroupsFit(machine, pods)
  BY DEF LoopInv, SourceInv, MemoryFits
<1> DEFINE amounts == NodeAllocatable(machine)
<1>2. i \in DOMAIN pods /\ pods[i].name = name
  BY DEF Of
<1>3. /\ GroupOf(pods[i]) \subseteq {node \in 0..(Len(machine.nodes) - 1) \cap DOMAIN amounts :
                                       name \in DOMAIN amounts[node]}
      /\ \A j \in DOMAIN pods : pods[j].name = name =>
           \/ GroupOf(pods[j]) = GroupOf(pods[i])
           \/ GroupOf(pods[j]) \cap GroupOf(pods[i]) = {}
      /\ SumFunctionOnSet([j \in DOMAIN pods |-> pods[j].size],
                          {j \in DOMAIN pods : /\ pods[j].name = name
                                               /\ GroupOf(pods[j]) = GroupOf(pods[i])})
           <= SumFunctionOnSet([node \in GroupOf(pods[i]) |-> amounts[node][name]],
                               GroupOf(pods[i]))
  <2> HIDE DEF amounts
  <2> QED BY <1>1, <1>2, Zenon DEF GroupsFit, amounts
<1>4. {j \in DOMAIN pods : pods[j].name = name /\ GroupOf(pods[j]) = GroupOf(pods[i])}
        = Sharing(i)
  BY <1>2 DEF Sharing, Of
<1>5. ASSUME NEW node \in GroupOf(pods[i]) PROVE node \in Having(name)
  <2>1. /\ node \in 0..(Len(machine.nodes) - 1)
        /\ node \in DOMAIN amounts /\ name \in DOMAIN amounts[node]
    BY <1>3
  <2>2. node \in DOMAIN zones /\ DOMAIN zones[node] = DOMAIN InitialZones(machine, excluded)[node]
        /\ node \in DOMAIN InitialZones(machine, excluded)
    BY <2>1, InitialZonesDomain DEF LoopInv, ZonesInv
  <2>3. InitialZones(machine, excluded)[node] = Listed(machine, excluded, node)
    BY <2>1, <2>2, InitialZone
  <2>4. DOMAIN Listed(machine, excluded, node) = DOMAIN amounts[node] \ excluded
    BY DEF Listed
  <2> QED BY <2>1, <2>2, <2>3, <2>4 DEF Having
<1> QED BY <1>3, <1>4, <1>5 DEF Of

\* Before anything is taken off.
Fresh ==
  pc \in Loops /\ todo = pods /\ zones = InitialZones(machine, excluded)

\* Before the first entry every block is to be taken from zones that are whole.
LEMMA FreshBlocks == LoopInv /\ GrantsInv /\ Fresh => BlocksInv
<1> SUFFICES ASSUME LoopInv, GrantsInv, Fresh, NEW name \in MemoryNames \ excluded
             PROVE  ConservedInv(name) /\ FitsInv(name) /\ HandledInv(name)
  BY DEF BlocksInv
<1>1. /\ pc \in Loops /\ todo = pods /\ zones = InitialZones(machine, excluded)
      /\ TodoInv /\ SourceInv /\ ZonesInv
  BY DEF Fresh, LoopInv
<1>2. IsMachine(machine) /\ pods \in Seq(Entries)
  BY <1>1, SourceTypes
<1>3. Past = 0
  BY <1>1, <1>2 DEF Past
<1>4. ASSUME NEW node \in Having(name)
      PROVE  zones[node][name]["available"] = zones[node][name]["allocatable"]
  <2>1. node \in DOMAIN zones /\ name \in DOMAIN zones[node]
    BY DEF Having
  <2>2. zones[node][name].available = zones[node][name].allocatable
    BY <1>1, <1>2, <2>1, InitialZonesData
  <2> QED BY <2>2
<1>5. /\ Total(name, "available") = Total(name, "allocatable")
      /\ Total(name, "allocatable") \in Int /\ Amount(pods, name) \in Int
      /\ IsFiniteSet(Of(name)) /\ \A i \in Of(name) : Sharing(i) \subseteq Of(name)
      /\ IsFiniteSet(Having(name))
  <2>1. [node \in Having(name) |-> zones[node][name]["available"]]
          = [node \in Having(name) |-> zones[node][name]["allocatable"]]
    BY <1>4
  <2>2. Total(name, "available") = Total(name, "allocatable")
    BY <2>1 DEF Total
  <2> QED BY <1>1, <2>2, MemoryTypes
<1>6. ConservedInv(name)
  <2>1. SumFunctionOnSet(Left, Of(name)) = Amount(pods, name)
    BY <1>1, LeftIsAmount
  <2> QED BY <1>5, <2>1 DEF ConservedInv
<1>7. ASSUME NEW i \in Of(name)
      PROVE  SumFunctionOnSet(Left, Sharing(i)) <= SumFunctionOnSet(Offer(name), GroupOf(pods[i]))
  <2> DEFINE sizes == [j \in DOMAIN pods |-> pods[j].size]
             group == GroupOf(pods[i])
             amounts == [node \in group |-> NodeAllocatable(machine)[node][name]]
  <2>1. /\ SumFunctionOnSet(sizes, Sharing(i)) <= SumFunctionOnSet(amounts, group)
        /\ group \subseteq Having(name)
    BY <1>1 DEF GrantsInv, GroupsApart
  <2>2. IsFiniteSet(Sharing(i)) /\ IsFiniteSet(group)
    BY <1>5, <2>1, FS_Subset
  <2>3. \A j \in Sharing(i) : sizes[j] = Left[j]
    <3>1. \A j \in DOMAIN pods : ~(j <= 0) /\ j - 0 = j
      BY <1>2
    <3>2. \A j \in DOMAIN pods : Left[j] = pods[j].size
      BY <1>1, <1>3, <3>1 DEF Left
    <3> QED BY <3>2 DEF Sharing, Of
  <2>4. ASSUME NEW node \in group PROVE amounts[node] = Offer(name)[node]
    <3>1. node \in DOMAIN zones /\ name \in DOMAIN zones[node] /\ node \in Having(name)
      BY <2>1 DEF Having
    <3>2. node \in DOMAIN NodeAllocatable(machine)
      BY <1>1 DEF GrantsInv
    <3>3. zones[node] = Listed(machine, excluded, node)
      BY <1>1, <3>1, <3>2, InitialZone
    <3>4. zones[node][name].available = NodeAllocatable(machine)[node][name]
      BY <3>1, <3>3 DEF Listed, ResourceData
    <3> QED BY <3>1, <3>4 DEF Offer
  <2> HIDE DEF sizes, group, amounts
  <2>5. /\ SumFunctionOnSet(sizes, Sharing(i)) = SumFunctionOnSet(Left, Sharing(i))
        /\ SumFunctionOnSet(amounts, group) = SumFunctionOnSet(Offer(name), group)
    BY <2>2, <2>3, <2>4, SumSame
  <2> QED BY <2>1, <2>5 DEF group
<1>8. HandledInv(name)
  <2>1. todo # <<>> => Entry = pods[Past + 1]
    BY <1>1, <1>2, <1>3 DEF Entry
  <2> QED BY <2>1 DEF HandledInv
<1> QED BY <1>6, <1>7, <1>8 DEF FitsInv

-----------------------------------------------------------------------------
(* The steps.                                                              *)

\* Aggregate begins with such zones.
LEMMA AggregateBlocks ==
  ASSUME MemoryFits, LoopInv, LoopInv', Aggregate PROVE BlocksInv'
<1>1. Fresh'
  BY DEF Aggregate, Fresh, Loops
<1>2. LoopInv /\ GrantsInv /\ Fresh => BlocksInv
  BY FreshBlocks
<1>3. (LoopInv /\ GrantsInv /\ Fresh => BlocksInv)'
  BY FreshBlocks, PTL
<1>4. LoopInv => GrantsInv
  BY GrantsHold
<1>5. (LoopInv => GrantsInv)'
  BY GrantsHold, PTL
<1> QED BY <1>1, <1>3, <1>5

\* When all nodes of its group have been asked, nothing is left of an entry.
LEMMA NothingLeft ==
  ASSUME LoopInv, GrantsInv, BlocksInv, pc \in Loops, todo # <<>>, Entry.nodes = <<>>,
         Entry.name \in MemoryNames \ excluded
  PROVE  Entry.size = 0
<1> DEFINE name == Entry.name
           h == Past + 1
           group == GroupOf(pods[h])
<1>1. name \in MemoryNames \ excluded /\ TodoInv
  BY DEF LoopInv
<1>2. /\ h \in Of(name) /\ Left[h] = Entry.size /\ Entry \in Entries
  BY <1>1, LeftFacts DEF Of
<1>3. Entry.size \in Nat
  BY <1>2 DEF Entries
<1>4. GroupOf(Entry) = {}
  BY DEF GroupOf, Range
<1> SUFFICES ASSUME Entry.size > 0 PROVE FALSE
  BY <1>3
<1>5. \A node \in group : Offer(name)[node] = 0
  BY <1>1, <1>4 DEF BlocksInv, HandledInv
<1>6. /\ IsFiniteSet(Of(name)) /\ \A i \in Of(name) : Left[i] \in Nat
      /\ \A i \in Of(name) : Sharing(i) \subseteq Of(name)
      /\ IsFiniteSet(Having(name))
  BY <1>1, MemoryTypes
<1>7. group \subseteq Having(name)
  BY <1>1, <1>2 DEF GrantsInv, GroupsApart
<1>8. IsFiniteSet(group) /\ IsFiniteSet(Sharing(h)) /\ h \in Sharing(h)
  BY <1>2, <1>6, <1>7, FS_Subset DEF Sharing, Of
<1>9. SumFunctionOnSet(Offer(name), group) = 0
  <2>1. /\ \A x \in group : Offer(name)[x] \in Int
        /\ {} \in SUBSET group /\ \A x \in group \ {} : Offer(name)[x] = 0
    BY <1>5
  <2> HIDE DEF group, name, h
  <2>2. SumFunctionOnSet(Offer(name), {}) = SumFunctionOnSet(Offer(name), group)
    BY <1>8, <2>1, SumNonzero
  <2> QED BY <2>2, SumEmpty
<1>10. SumFunctionOnSet(Left, Sharing(h)) <= SumFunctionOnSet(Offer(name), group)
  BY <1>1, <1>2 DEF BlocksInv, FitsInv
<1>11. /\ SumFunctionOnSet(Left, Sharing(h)) \in Nat
       /\ Left[h] <= SumFunctionOnSet(Left, Sharing(h))
  <2>1. \A i \in Sharing(h) : Left[i] \in Nat
    BY <1>2, <1>6
  <2> HIDE DEF h
  <2> QED BY <1>8, <2>1, SumNat
<1> QED BY <1>2, <1>3, <1>9, <1>10, <1>11

\* A step that goes on to the next entry when nothing is left of this one, or that
\* handles another resource.
LEMMA BlocksNext ==
  ASSUME LoopInv, GrantsInv, BlocksInv, pc \in Loops, todo # <<>>, NextEntry,
         UNCHANGED <<excluded, pods, zones>>,
         Entry.name \in MemoryNames \ excluded => Entry.nodes = <<>> \/ Entry.size = 0
  PROVE  BlocksInv'
<1> SUFFICES ASSUME NEW name \in MemoryNames \ excluded
             PROVE  ConservedInv(name)' /\ FitsInv(name)' /\ HandledInv(name)'
  BY DEF BlocksInv
<1>1. TodoInv /\ ConservedInv(name) /\ FitsInv(name)
  BY DEF LoopInv, BlocksInv
<1>2. /\ Past + 1 \in DOMAIN pods /\ Left[Past + 1] = Entry.size
      /\ pods[Past + 1].name = Entry.name
      /\ Left'[Past + 1] = 0 /\ Past' = Past + 1
      /\ \A i \in DOMAIN pods : i # Past + 1 => Left'[i] = Left[i]
  BY <1>1, LeftFacts, LeftNext
<1>3. Entry.name = name => Entry.size = 0
  BY NothingLeft
<1>4. \A i \in Of(name) : Left'[i] = Left[i]
  BY <1>2, <1>3 DEF Of
<1>5. ConservedInv(name)' /\ FitsInv(name)'
  BY <1>1, <1>4, MemoryKept
<1>6. HandledInv(name)'
  <2>1. pods' \in Seq(Entries) /\ todo' \in Seq(Entries) /\ Len(todo') <= Len(pods')
        /\ todo = todo /\ pods' = pods
    BY <1>1, TailFacts DEF TodoInv, NextEntry
  <2>2. todo' # <<>> => GroupOf(pods'[Past' + 1]) = GroupOf(Entry')
    <3>1. \A i \in DOMAIN todo' : todo'[i] = pods[i + Past']
      <4>1. /\ todo \in Seq(Entries) /\ pods \in Seq(Entries)
            /\ \A i \in DOMAIN todo : i > 1 => todo[i] = pods[i + Past]
        BY <1>1 DEF TodoInv
      <4>2. \A i \in DOMAIN Tail(todo) : /\ i + 1 \in DOMAIN todo /\ i \in Nat /\ i >= 1
                                         /\ Tail(todo)[i] = todo[i + 1]
        BY <4>1, TailFacts
      <4>3. Past \in Nat
        BY <1>1, LeftFacts
      <4>4. ASSUME NEW i \in DOMAIN Tail(todo) PROVE Tail(todo)[i] = pods[i + (Past + 1)]
        <5>1. i + 1 > 1 /\ (i + 1) + Past = i + (Past + 1)
          BY <4>2, <4>3
        <5> QED BY <4>1, <4>2, <5>1
      <4> QED BY <1>2, <4>4 DEF NextEntry
    <3>2. ASSUME todo' # <<>> PROVE Entry' = todo'[1] /\ 1 \in DOMAIN todo'
      BY <2>1, <3>2 DEF Entry
    <3>3. Past' \in Nat /\ 1 + Past' = Past' + 1
      BY <1>1, <1>2, LeftFacts
    <3> QED BY <2>1, <3>1, <3>2, <3>3
  <2> QED BY <2>2 DEF HandledInv
<1> QED BY <1>5, <1>6

\* A step that handles an ID of a device, or a node that no zone is for.
LEMMA BlocksWith ==
  ASSUME LoopInv, GrantsInv, BlocksInv, pc \in Loops, todo # <<>>,
         UNCHANGED <<excluded, pods>>,
         DOMAIN zones' = DOMAIN zones,
         \A n \in DOMAIN zones :
           /\ DOMAIN zones'[n] = DOMAIN zones[n]
           /\ \A m \in DOMAIN zones[n] \cap MemoryNames : zones'[n][m] = zones[n][m],
         NEW rest \in Entries, With(rest), rest.name = Entry.name, rest.size = Entry.size,
         Entry.name \notin MemoryNames \ excluded
  PROVE  BlocksInv'
<1> SUFFICES ASSUME NEW name \in MemoryNames \ excluded
             PROVE  ConservedInv(name)' /\ FitsInv(name)' /\ HandledInv(name)'
  BY DEF BlocksInv
<1>1. TodoInv /\ ConservedInv(name) /\ FitsInv(name)
  BY DEF LoopInv, BlocksInv
<1>2. /\ Past + 1 \in DOMAIN pods /\ Left[Past + 1] = Entry.size
      /\ Left'[Past + 1] = rest.size /\ Entry' = rest
      /\ \A i \in DOMAIN pods : i # Past + 1 => Left'[i] = Left[i]
  BY <1>1, LeftFacts, LeftWith
<1>3. \A i \in Of(name) : Left'[i] = Left[i]
  BY <1>2 DEF Of
<1>4. ConservedInv(name)' /\ FitsInv(name)'
  BY <1>1, <1>3, MemoryKept
<1>5. HandledInv(name)'
  BY <1>2 DEF HandledInv
<1> QED BY <1>4, <1>5

\* The step in which the node next in turn gives something for the entry in hand.
Gives(node, kind, taken) ==
  /\ node = Head(Entry.nodes) /\ node \in DOMAIN zones
  /\ kind = Entry.name /\ kind \in DOMAIN zones[node]
  /\ taken = Taken(zones[node][kind].available)
  /\ zones' = [zones EXCEPT ![node][kind].available = @ - taken]
  /\ With(Rest(taken))

\* The node is one of the block's group: what is left of the block still fits there.
LEMMA BlocksTaken ==
  ASSUME LoopInv, GrantsInv, BlocksInv, UpdateMemoryAvailable,
         NEW node, NEW kind, NEW taken, Gives(node, kind, taken)
  PROVE  BlocksInv'
<1>1. /\ pc \in Loops /\ todo # <<>> /\ kind \in MemoryNames /\ Entry.nodes # <<>>
      /\ UNCHANGED <<machine, excluded, pods, pc>>
  BY DEF UpdateMemoryAvailable, Aggregating, Fixed, Loops, Gives
<1>2. TodoInv /\ ZonesInv
  BY DEF LoopInv
<1>3. /\ zones[node][kind].available \in Nat /\ Entry.size \in Nat /\ taken \in Nat
      /\ taken <= Entry.size /\ taken <= zones[node][kind].available
      /\ taken = Entry.size \/ taken = zones[node][kind].available
  BY TakenFacts DEF Gives
<1>4. /\ Past + 1 \in DOMAIN pods /\ Left[Past + 1] = Entry.size
      /\ pods[Past + 1].name = kind /\ Entry \in Entries
      /\ GroupOf(Entry) \subseteq GroupOf(pods[Past + 1])
  BY <1>1, <1>2, LeftFacts DEF Gives
<1>5. /\ Rest(taken) \in Entries /\ Rest(taken).name = kind
      /\ Rest(taken).nodes = Tail(Entry.nodes) /\ Rest(taken).size = Entry.size - taken
  BY <1>1, <1>3, <1>4, NodeHandled DEF Rest, Gives
<1>6. /\ Left'[Past + 1] = Entry.size - taken /\ Past' = Past
      /\ todo' # <<>> /\ Entry' = Rest(taken)
      /\ \A i \in DOMAIN pods : i # Past + 1 => Left'[i] = Left[i]
  BY <1>1, <1>2, <1>5, LeftWith DEF Gives
<1>7. /\ node \in GroupOf(Entry)
      /\ GroupOf(Entry) \subseteq GroupOf(Rest(taken)) \cup {node}
  <2>1. Entry.nodes \in Seq(Nat)
    BY <1>4 DEF Entries
  <2> DEFINE nodes == Entry.nodes
  <2>2. nodes \in Seq(Nat) /\ nodes # <<>> /\ node = nodes[1]
    BY <1>1, <2>1 DEF Gives
  <2> HIDE DEF nodes
  <2>3. /\ Len(Tail(nodes)) = Len(nodes) - 1 /\ 1 \in DOMAIN nodes
        /\ \A i \in DOMAIN Tail(nodes) : Tail(nodes)[i] = nodes[i + 1]
        /\ Tail(nodes) \in Seq(Nat)
    BY <2>2, TailFacts
  <2>4. ASSUME NEW i \in DOMAIN nodes, i # 1 PROVE nodes[i] \in Range(Tail(nodes))
    <3>1. i - 1 \in DOMAIN Tail(nodes) /\ (i - 1) + 1 = i
      BY <2>2, <2>3, <2>4
    <3>2. Tail(nodes)[i - 1] = nodes[i]
      BY <2>3, <3>1
    <3> QED BY <3>1, <3>2 DEF Range
  <2>5. node \in Range(nodes) /\ Range(nodes) \subseteq Range(Tail(nodes)) \cup {node}
    BY <2>2, <2>3, <2>4 DEF Range
  <2> QED BY <1>5, <2>5 DEF GroupOf, nodes
<1>8. /\ node \in DOMAIN zones /\ kind \in DOMAIN zones[node] /\ taken \in Int
      /\ zones' = [zones EXCEPT ![node][kind].available = @ - taken]
  BY <1>3 DEF Gives
<1>9. /\ DOMAIN zones' = DOMAIN zones
      /\ \A n \in DOMAIN zones :
           /\ DOMAIN zones'[n] = DOMAIN zones[n]
           /\ \A m \in DOMAIN zones[n] :
                /\ zones'[n][m].allocatable = zones[n][m].allocatable
                /\ n = node /\ m = kind =>
                     zones'[n][m].available = zones[n][m].available - taken
                /\ n # node \/ m # kind => zones'[n][m] = zones[n][m]
  <2>1. /\ ZonesInv'
        /\ DOMAIN zones' = DOMAIN zones
        /\ \A n \in DOMAIN zones :
             /\ DOMAIN zones'[n] = DOMAIN zones[n]
             /\ \A m \in DOMAIN zones[n] :
                  /\ zones'[n][m].allocatable = zones[n][m].allocatable
                  /\ zones'[n][m].available \in Int
                  /\ n = node /\ m = kind =>
                       zones'[n][m].available = zones[n][m].available - taken
                  /\ n # node \/ m # kind => zones'[n][m] = zones[n][m]
    <3>1. UNCHANGED <<machine, excluded>>
      BY <1>1
    <3> QED BY <1>1, <1>2, <1>8, <3>1, ZonesTakenOff
  <2> QED BY <2>1
<1>10. ASSUME NEW name \in MemoryNames \ excluded
       PROVE  ConservedInv(name)' /\ FitsInv(name)' /\ HandledInv(name)'
  <2>1. ConservedInv(name) /\ FitsInv(name) /\ HandledInv(name) /\ GroupsApart(name)
    BY <1>1 DEF BlocksInv, GrantsInv
  <2>2. CASE name # kind
    <3>1. \A i \in Of(name) : Left'[i] = Left[i]
      BY <1>4, <1>6, <2>2 DEF Of
    <3>2. ConservedInv(name)' /\ FitsInv(name)'
      BY <1>1, <1>9, <2>1, <2>2, <3>1, MemoryKept
    <3>3. HandledInv(name)'
      BY <1>5, <1>6, <2>2 DEF HandledInv
    <3> QED BY <3>2, <3>3
  <2>3. CASE name = kind
    <3> DEFINE h == Past + 1
    <3>1. h \in Of(name) /\ node \in GroupOf(pods[h])
      BY <1>4, <1>7, <2>3 DEF Of
    <3>2. /\ Left'[h] = Left[h] - taken
          /\ \A i \in Of(name) \ {h} : Left'[i] = Left[i]
      BY <1>4, <1>6 DEF Of
    <3>3. /\ DOMAIN zones' = DOMAIN zones
          /\ \A n \in DOMAIN zones :
               /\ DOMAIN zones'[n] = DOMAIN zones[n]
               /\ name \in DOMAIN zones[n] =>
                    /\ zones'[n][name].allocatable = zones[n][name].allocatable
                    /\ n = node => zones'[n][name].available = zones[n][name].available - taken
                    /\ n # node => zones'[n][name] = zones[n][name]
      BY <1>9, <2>3
    <3> HIDE DEF h
    <3>4. UNCHANGED pods /\ name \in MemoryNames
      BY <1>1
    <3>5. /\ ConservedInv(name)' /\ FitsInv(name)'
          /\ Having(name)' = Having(name)
          /\ Offer(name)'[node] = Offer(name)[node] - taken
          /\ \A n \in Having(name) \ {node} : Offer(name)'[n] = Offer(name)[n]
      BY <1>1, <1>3, <2>1, <3>1, <3>2, <3>3, <3>4, MemoryTaken
    <3>6. /\ \A n \in Having(name) : Offer(name)[n] \in Nat
          /\ Offer(name)[node] = zones[node][name].available
      <4>1. node \in Having(name)
        BY <1>8, <2>3 DEF Having
      <4>2. Offer(name)[node] = zones[node][name].available
        BY <4>1 DEF Offer
      <4> QED BY <1>1, <3>4, <4>2, MemoryTypes
    <3>7. ASSUME Entry.size - taken > 0, NEW n \in GroupOf(pods[h]) \ GroupOf(Rest(taken))
          PROVE  Offer(name)'[n] = 0
      <4>1. Entry.size > 0 /\ taken = zones[node][name].available
        BY <1>3, <2>3, <3>7
      <4>2. n \in Having(name)
        BY <2>1, <3>1, <3>7 DEF GroupsApart
      <4>3. CASE n = node
        BY <1>3, <2>3, <3>5, <3>6, <4>1, <4>3
      <4>4. CASE n # node
        <5>1. n \in GroupOf(pods[Past + 1]) \ GroupOf(Entry)
          BY <1>7, <3>7, <4>4 DEF h
        <5>2. Offer(name)[n] = 0
          BY <1>1, <2>1, <2>3, <4>1, <5>1 DEF HandledInv, Gives
        <5> QED BY <3>5, <4>2, <4>4, <5>2
      <4> QED BY <4>3, <4>4
    <3>8. HandledInv(name)'
      BY <1>5, <1>6, <3>4, <3>7 DEF HandledInv, h
    <3> QED BY <3>5, <3>8
  <2> QED BY <2>2, <2>3
<1> QED BY <1>1, <1>10 DEF BlocksInv

\* A step that leaves entries and zones as they are.
LEMMA BlocksSame ==
  ASSUME BlocksInv, pc \in Loops, UNCHANGED <<excluded, pods, todo, zones>>
  PROVE  BlocksInv'
<1>1. /\ Left' = Left /\ Past' = Past /\ (todo # <<>> => Entry' = Entry)
      /\ \A name : /\ Of(name)' = Of(name) /\ Offer(name)' = Offer(name)
                   /\ Amount(pods, name)' = Amount(pods, name)
                   /\ \A field : Total(name, field)' = Total(name, field)
      /\ \A i : Sharing(i)' = Sharing(i)
  BY DEF Left, Past, Entry, Of, Offer, Having, Amount, Total, Sharing
<1> QED BY <1>1 DEF BlocksInv, ConservedInv, FitsInv, HandledInv

\* No step disturbs the invariant of the memory.
LEMMA BlocksStep ==
  MemoryFits => (LoopInv /\ BlocksInv /\ [Next]_vars => BlocksInv')
<1> SUFFICES ASSUME MemoryFits, LoopInv, BlocksInv, [Next]_vars PROVE BlocksInv'
  OBVIOUS
<1>1. GrantsInv /\ LoopInv'
  BY GrantsHold, LoopStep
<1>2. ASSUME pc \in Loops, todo # <<>>
      PROVE  Entry \in Entries /\ Entry.size \in Nat /\ 0 <= Entry.size
  <2>1. Entry \in Entries
    BY <1>2, LeftFacts DEF LoopInv
  <2> QED BY <2>1 DEF Entries
<1>3. CASE Configure \/ NewResourcesAggregator
  <2>1. pc' \notin Loops
    BY <1>3 DEF Configure, NewResourcesAggregator, Loops
  <2> QED BY <2>1 DEF BlocksInv
<1>4. CASE Aggregate
  BY <1>1, <1>4, AggregateBlocks
<1>5. CASE UpdateAvailable
  <2>1. /\ pc \in Loops /\ todo # <<>> /\ Entry.data # <<>> /\ Entry.name \notin MemoryNames
        /\ UNCHANGED <<excluded, pods>>
        /\ DOMAIN zones' = DOMAIN zones
        /\ \A n \in DOMAIN zones :
             /\ DOMAIN zones'[n] = DOMAIN zones[n]
             /\ \A m \in DOMAIN zones[n] \cap MemoryNames : zones'[n][m] = zones[n][m]
    BY <1>5 DEF UpdateAvailable, Aggregating, Fixed, Loops
  <2>2. CASE With([Entry EXCEPT !.data = Tail(@)])
    <3> DEFINE rest == [Entry EXCEPT !.data = Tail(@)]
    <3>1. rest \in Entries /\ rest.name = Entry.name /\ rest.size = Entry.size
      BY <1>2, <2>1, IDHandled
    <3> HIDE DEF rest
    <3>2. With(rest)
      BY <2>2 DEF rest
    <3> QED BY <1>1, <2>1, <3>1, <3>2, BlocksWith
  <2>3. CASE UNCHANGED <<todo, zones>>
    BY <2>1, <2>3, BlocksSame
  <2> QED BY <1>5, <2>2, <2>3 DEF UpdateAvailable
<1>6. CASE AvailableUpdated \/ MemoryUpdated
  <2>1. /\ pc \in Loops /\ todo # <<>> /\ NextEntry /\ UNCHANGED <<excluded, pods, zones>>
        /\ Entry.name \in MemoryNames => Entry.nodes = <<>> \/ Entry.size = 0
    BY <1>6 DEF AvailableUpdated, MemoryUpdated, Aggregating, Fixed, Loops
  <2> QED BY <1>1, <2>1, BlocksNext
<1>7. CASE UpdateMemoryAvailable
  <2>1. /\ pc \in Loops /\ todo # <<>> /\ Entry.nodes # <<>> /\ Entry.name \in MemoryNames
        /\ UNCHANGED <<excluded, pods>>
    BY <1>7 DEF UpdateMemoryAvailable, Aggregating, Fixed, Loops
  <2>2. Entry \in Entries /\ Entry.size \in Nat /\ 0 \in Nat /\ 0 <= Entry.size
    BY <1>2, <2>1
  <2> DEFINE node == Head(Entry.nodes)
             kind == Entry.name
             taken == Taken(zones[node][kind].available)
  <2>3. kind \in MemoryNames \ excluded => node \in DOMAIN zones /\ kind \in DOMAIN zones[node]
    <3> SUFFICES ASSUME kind \in MemoryNames \ excluded
                 PROVE  node \in Having(kind)
      BY DEF Having
    <3>1. /\ Past + 1 \in Of(kind)
          /\ GroupOf(Entry) \subseteq GroupOf(pods[Past + 1])
      BY <2>1, LeftFacts DEF LoopInv, Of
    <3>2. node \in GroupOf(Entry)
      <4>1. Entry.nodes \in Seq(Nat)
        BY <2>2 DEF Entries
      <4> DEFINE nodes == Entry.nodes
      <4>2. nodes \in Seq(Nat) /\ nodes # <<>>
        BY <2>1, <4>1
      <4> HIDE DEF nodes
      <4>3. Head(nodes) \in Range(nodes)
        BY <4>2, TailFacts
      <4> QED BY <4>3 DEF GroupOf, nodes
    <3> QED BY <1>1, <2>1, <3>1, <3>2 DEF GrantsInv, GroupsApart
  <2>4. CASE node \notin DOMAIN zones /\ With([Entry EXCEPT !.nodes = Tail(@)]) /\ UNCHANGED zones
    <3> DEFINE same == [Entry EXCEPT !.nodes = Tail(@)]
    <3>1. same \in Entries /\ same.name = Entry.name /\ same.size = Entry.size
      <4>1. same \in Entries
        BY <2>1, <2>2, NodeHandled
      <4>2. same.name = Entry.name /\ same.size = Entry.size
        BY <2>2 DEF Entries
      <4> QED BY <4>1, <4>2
    <3>2. With(same) /\ kind \notin MemoryNames \ excluded
      BY <2>3, <2>4
    <3> HIDE DEF same, node
    <3> QED BY <1>1, <2>1, <2>4, <3>1, <3>2, BlocksWith
  <2>5. CASE /\ node \in DOMAIN zones /\ kind \notin DOMAIN zones[node]
             /\ NextEntry /\ UNCHANGED zones
    BY <1>1, <2>1, <2>3, <2>5, BlocksNext
  <2>6. CASE /\ node \in DOMAIN zones /\ kind \in DOMAIN zones[node]
             /\ zones' = [zones EXCEPT ![node][kind].available = @ - taken]
             /\ With(Rest(taken))
    <3>1. Gives(node, kind, taken)
      BY <2>6 DEF Gives
    <3> HIDE DEF node, kind, taken
    <3> QED BY <1>1, <1>7, <3>1, BlocksTaken
  <2> QED BY <1>7, <2>4, <2>5, <2>6 DEF UpdateMemoryAvailable
<1>8. CASE Return \/ UNCHANGED vars
  <2>1. UNCHANGED <<excluded, pods, todo, zones>> /\ (pc \in Loops <=> pc' \in Loops)
    BY <1>8 DEF Return, Fixed, vars, Loops
  <2> QED BY <2>1, BlocksSame DEF BlocksInv
<1> QED BY <1>3, <1>4, <1>5, <1>6, <1>7, <1>8 DEF Next

\* Nothing is aggregated yet.
LEMMA BlocksInit == Init => BlocksInv
BY DEF Init, BlocksInv, Loops

\* A block of memory pinned to several nodes is taken off once and whole, whatever the
\* order of the pods (updateMemoryAvailable), if the pods hold no more of a group of
\* nodes than the group has and groups do not overlap.
THEOREM MemoryConservedHolds == ASSUME MemoryFits PROVE Spec => []MemoryConserved
<1>1. LoopInv /\ BlocksInv => MemoryConserved
  <2> SUFFICES ASSUME LoopInv, BlocksInv, pc \in {"aggregating", "done"},
                      NEW name \in MemoryNames \ excluded
               PROVE  Total(name, "available") =
                        Total(name, "allocatable") - (Amount(pods, name) - Amount(todo, name))
    BY DEF MemoryConserved
  <2>1. pc \in Loops /\ TodoInv
    BY DEF Loops, LoopInv
  <2>2. SumFunctionOnSet(Left, Of(name)) = Amount(todo, name)
    BY <2>1, LeftIsAmount
  <2> QED BY <2>1, <2>2 DEF BlocksInv, ConservedInv
<1>2. Spec => [](LoopInv /\ BlocksInv)
  <2>1. LoopInv /\ BlocksInv /\ [Next]_vars => BlocksInv'
    BY BlocksStep
  <2> QED BY <2>1, BlocksInit, LoopInvHolds, PTL DEF Spec
<1> QED BY <1>1, <1>2, PTL

=============================================================================
