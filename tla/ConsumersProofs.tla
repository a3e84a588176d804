-------------------------- MODULE ConsumersProofs --------------------------
(***************************************************************************)
(* Proofs about Consumers, for any types, callers, programs of the callers *)
(* and channels: that Shutdown waits for every goroutine, that a list      *)
(* after a sync shows what the server had, that no caller changes what     *)
(* another holds or an informer caches, and that every helper's result is  *)
(* and stays what its comment says, or for updateAttributes, which has     *)
(* none, what Merge's says with what is new named once.                    *)
(***************************************************************************)
EXTENDS Consumers, AttributeListProofs, FiniteSetTheorems

-----------------------------------------------------------------------------
(* Shutdown.                                                               *)

AliveInformers == {i \in Informers : Alive(i)}

ShutdownReturned ==
  \E c \in Callers : \E call \in ReturnedCalls(c) : call.op = "Shutdown"

\* What ShutdownWaits rests on: the wait group counts the goroutines that are
\* alive, only an informer that Start started has one, and a Shutdown that waits
\* or has returned has closed the factory to Start.
ShutdownInv ==
  /\ pc \in [Callers -> Nat]
  /\ blocked \in [Callers -> BOOLEAN]
  /\ informers \in [Types -> {0, 1}]
  /\ started \subseteq Types
  /\ shuttingDown \in BOOLEAN
  /\ goroutine \in [Informers -> {"none", "spawned", "running", "ended"}]
  /\ wg = Cardinality(AliveInformers)
  /\ \A i \in Informers : goroutine[i] # "none" => TypeOf(i) \in started
  /\ \A c \in Callers : Waits(c, "Shutdown") => shuttingDown
  /\ ShutdownReturned => shuttingDown /\ AliveInformers = {}

\* The variables ShutdownInv is about.
shutdownVars == <<pc, blocked, informers, started, shuttingDown, goroutine, wg>>

\* There are finitely many informers, two numbers for each type.
LEMMA InformersFinite == IsFiniteSet(Informers)
<1>1. IsFiniteSet(1..2)
  <2>1. 1..2 = {1} \cup {2}
    OBVIOUS
  <2>2. IsFiniteSet({1}) /\ IsFiniteSet({2})
    BY FS_Singleton
  <2>3. IsFiniteSet({1} \cup {2})
    BY <2>2, FS_Union
  <2> QED BY <2>1, <2>3
<1>2. IsFiniteSet(Types)
  BY FactoryAssumption
<1>3. IsFiniteSet(Types \X (1..2))
  BY <1>1, <1>2, FS_Product
<1> QED BY <1>3 DEF Informers

\* So the goroutines that are alive can be counted.
LEMMA AliveFinite ==
  IsFiniteSet(AliveInformers)
BY InformersFinite, FS_Subset DEF AliveInformers

\* A goroutine per type: the informers of a set of types are as many as the types.
LEMMA OnePerType ==
  ASSUME NEW types \in SUBSET Types, informers \in [Types -> {0, 1}]
  PROVE  /\ IsFiniteSet({InMap(type) : type \in types})
         /\ Cardinality({InMap(type) : type \in types}) = Cardinality(types)
<1> DEFINE new == {InMap(type) : type \in types}
           f == [type \in types |-> InMap(type)]
<1>1. IsFiniteSet(types)
  BY FactoryAssumption, FS_Subset
<1>2. f \in Bijection(types, new)
  <2>1. f \in Surjection(types, new)
    BY DEF Surjection
  <2>2. f \in Injection(types, new)
    BY DEF Injection, IsInjective, InMap
  <2> QED BY <2>1, <2>2 DEF Bijection
<1>3. ExistsBijection(types, new)
  BY <1>2 DEF ExistsBijection
<1> QED BY <1>1, <1>3, FS_Bijection

\* A call a caller has yet to return from, and what it has returned from then.
LEMMA ReturnFacts ==
  ASSUME pc \in [Callers -> Nat], NEW c \in Callers, Returns(c)
  PROVE  /\ pc' \in [Callers -> Nat]
         /\ pc'[c] = pc[c] + 1
         /\ \A d \in Callers \ {c} : pc'[d] = pc[d]
         /\ ReturnedCalls(c)' = ReturnedCalls(c) \cup {NextCall(c)}
         /\ \A d \in Callers \ {c} : ReturnedCalls(d)' = ReturnedCalls(d)
<1>1. /\ pc' \in [Callers -> Nat]
      /\ pc'[c] = pc[c] + 1
      /\ \A d \in Callers \ {c} : pc'[d] = pc[d]
  BY DEF Returns
<1>2. 1..pc'[c] = (1..pc[c]) \cup {pc[c] + 1}
  BY <1>1
<1>3. ReturnedCalls(c)' = ReturnedCalls(c) \cup {NextCall(c)}
  BY <1>2 DEF ReturnedCalls, NextCall
<1>4. \A d \in Callers \ {c} : ReturnedCalls(d)' = ReturnedCalls(d)
  BY <1>1 DEF ReturnedCalls
<1> QED BY <1>1, <1>3, <1>4

\* A call other than Shutdown that returns at once brings no Shutdown back.
LEMMA OtherReturns ==
  ASSUME ShutdownInv, NEW c \in Callers, Returns(c), NextCall(c).op # "Shutdown",
         \/ UNCHANGED blocked
         \/ blocked' = [blocked EXCEPT ![c] = FALSE],
         ~blocked'[c]
  PROVE  /\ pc' \in [Callers -> Nat]
         /\ blocked' \in [Callers -> BOOLEAN]
         /\ ShutdownReturned' <=> ShutdownReturned
         /\ \A d \in Callers : Waits(d, "Shutdown")' => Waits(d, "Shutdown")
<1> USE DEF ShutdownInv
<1>1. /\ pc' \in [Callers -> Nat]
      /\ \A d \in Callers \ {c} : pc'[d] = pc[d]
      /\ ReturnedCalls(c)' = ReturnedCalls(c) \cup {NextCall(c)}
      /\ \A d \in Callers \ {c} : ReturnedCalls(d)' = ReturnedCalls(d)
  BY ReturnFacts
<1>2. /\ blocked' \in [Callers -> BOOLEAN]
      /\ \A d \in Callers \ {c} : blocked'[d] = blocked[d]
  OBVIOUS
<1>3. ShutdownReturned' <=> ShutdownReturned
  BY <1>1 DEF ShutdownReturned
<1>4. ASSUME NEW d \in Callers, Waits(d, "Shutdown")'
      PROVE  Waits(d, "Shutdown")
  BY <1>1, <1>2, <1>4 DEF Waits, Calling, NextCall
<1> QED BY <1>1, <1>2, <1>3, <1>4

\* A step that leaves the goroutines as they are leaves the same ones alive.
LEMMA SameGoroutines ==
  ASSUME UNCHANGED goroutine
  PROVE  AliveInformers' = AliveInformers
BY DEF AliveInformers, Alive

\* At first no goroutine is alive and nobody has called Shutdown.
LEMMA ShutdownInit == Init => ShutdownInv
<1> SUFFICES ASSUME Init PROVE ShutdownInv
  OBVIOUS
<1> USE DEF Init, InformerInit
<1>1. AliveInformers = {}
  BY DEF AliveInformers, Alive
<1>2. Cardinality(AliveInformers) = 0
  BY <1>1, FS_EmptySet
<1>3. ~ShutdownReturned
  BY DEF ShutdownReturned, ReturnedCalls
<1>4. \A c \in Callers : ~Waits(c, "Shutdown")
  BY DEF Waits
<1> QED BY <1>1, <1>2, <1>3, <1>4 DEF ShutdownInv

\* Start counts a goroutine for each type it starts, and starts none of a factory that
\* is shutting down.
LEMMA StartKeepsShutdownInv ==
  ASSUME ShutdownInv, NEW c \in Callers, Start(c)
  PROVE  ShutdownInv'
<1> USE DEF ShutdownInv
<1>1. /\ Returns(c) /\ NextCall(c).op = "Start"
      /\ ~blocked[c] /\ UNCHANGED <<informers, shuttingDown, blocked>>
  BY DEF Start, Calls, Calling
<1>2. /\ pc' \in [Callers -> Nat]
      /\ blocked' \in [Callers -> BOOLEAN]
      /\ ShutdownReturned' <=> ShutdownReturned
      /\ \A d \in Callers : Waits(d, "Shutdown")' => Waits(d, "Shutdown")
  BY <1>1, OtherReturns
<1>3. CASE shuttingDown
  <2>1. UNCHANGED <<started, wg, goroutine>>
    BY <1>3 DEF Start, goroutineVars
  <2> QED BY <1>1, <1>2, <2>1, SameGoroutines
<1>4. CASE ~shuttingDown
  <2> DEFINE types == ToStart
             new == {InMap(type) : type \in types}
  <2>1. /\ started' = started \cup types
        /\ wg' = wg + Cardinality(types)
        /\ goroutine' = [i \in Informers |-> IF i \in new THEN "spawned" ELSE goroutine[i]]
    BY <1>4 DEF Start, Spawn
  <2>2. types \in SUBSET Types /\ types \cap started = {}
    BY DEF ToStart
  <2>3. new \subseteq Informers
    BY DEF ToStart, InMap, Informers
  <2>4. \A i \in new : TypeOf(i) \in types
    BY DEF InMap, TypeOf
  <2> HIDE DEF types
  <2>5. new \cap AliveInformers = {}
    BY <2>2, <2>3, <2>4 DEF AliveInformers, Alive
  <2>6. AliveInformers' = AliveInformers \cup new
    BY <2>1, <2>3 DEF AliveInformers, Alive
  <2>7. IsFiniteSet(new) /\ Cardinality(new) = Cardinality(types)
    BY <2>2, OnePerType
  <2>8. Cardinality(AliveInformers \cup new)
          = Cardinality(AliveInformers) + Cardinality(new)
    <3>1. Cardinality(AliveInformers \cap new) = 0
      BY <2>5, FS_EmptySet
    <3>2. Cardinality(AliveInformers) \in Nat /\ Cardinality(new) \in Nat
      BY AliveFinite, <2>7, FS_CardinalityType
    <3>3. Cardinality(AliveInformers \cup new)
            = Cardinality(AliveInformers) + Cardinality(new)
                - Cardinality(AliveInformers \cap new)
      BY AliveFinite, <2>7, FS_Union
    <3> QED BY <3>1, <3>2, <3>3
  <2>9. wg' = Cardinality(AliveInformers')
    BY <2>1, <2>6, <2>7, <2>8
  <2>10. \A i \in Informers : goroutine'[i] # "none" => TypeOf(i) \in started'
    BY <2>1, <2>4
  <2>11. goroutine' \in [Informers -> {"none", "spawned", "running", "ended"}]
    BY <2>1
  <2>12. started' \subseteq Types
    BY <2>1, <2>2
  <2> HIDE DEF new
  <2> QED BY <1>1, <1>2, <1>4, <2>9, <2>10, <2>11, <2>12
<1> QED BY <1>3, <1>4

\* The first half of Shutdown closes the factory and waits.
LEMMA ShutdownKeepsShutdownInv ==
  ASSUME ShutdownInv, NEW c \in Callers, ShutDown(c)
  PROVE  ShutdownInv'
<1> USE DEF ShutdownInv
<1>1. /\ UNCHANGED <<pc, informers, started, goroutine, wg>>
      /\ shuttingDown' = TRUE
      /\ blocked' \in [Callers -> BOOLEAN]
  BY DEF ShutDown, goroutineVars
<1>2. ShutdownReturned' <=> ShutdownReturned
  BY <1>1 DEF ShutdownReturned, ReturnedCalls
<1>3. AliveInformers' = AliveInformers
  BY <1>1, SameGoroutines
<1> QED BY <1>1, <1>2, <1>3

\* wg.Wait lets a Shutdown return only when no goroutine is alive.
LEMMA ShutdownReturnsKeepsShutdownInv ==
  ASSUME ShutdownInv, NEW c \in Callers, ShutdownReturns(c)
  PROVE  ShutdownInv'
<1> USE DEF ShutdownInv
<1>1. /\ UNCHANGED <<informers, started, shuttingDown, goroutine, wg>>
      /\ Returns(c) /\ wg = 0 /\ Waits(c, "Shutdown")
      /\ blocked' = [blocked EXCEPT ![c] = FALSE]
  BY DEF ShutdownReturns, factoryVars, goroutineVars
<1>2. shuttingDown /\ AliveInformers = {}
  BY <1>1, AliveFinite, FS_EmptySet
<1>3. AliveInformers' = AliveInformers
  BY <1>1, SameGoroutines
<1>4. pc' \in [Callers -> Nat] /\ blocked' \in [Callers -> BOOLEAN]
  BY <1>1, ReturnFacts
<1> QED BY <1>1, <1>2, <1>3, <1>4

\* A goroutine that begins to run was counted when it was spawned.
LEMMA RunKeepsShutdownInv ==
  ASSUME ShutdownInv, NEW i \in Informers, Run(i)
  PROVE  ShutdownInv'
<1> USE DEF ShutdownInv
<1>1. /\ UNCHANGED <<pc, blocked, informers, started, shuttingDown, wg>>
      /\ goroutine[i] = "spawned"
      /\ goroutine' = [goroutine EXCEPT ![i] = "running"]
  BY DEF Run, factoryVars, callerVars
<1>2. AliveInformers' = AliveInformers
  BY <1>1 DEF AliveInformers, Alive
<1>3. ShutdownReturned' <=> ShutdownReturned
  BY <1>1 DEF ShutdownReturned, ReturnedCalls
<1>4. \A c \in Callers : Waits(c, "Shutdown")' <=> Waits(c, "Shutdown")
  BY <1>1 DEF Waits, Calling, NextCall
<1> QED BY <1>1, <1>2, <1>3, <1>4

\* A goroutine that ends calls wg.Done once.
LEMMA EndKeepsShutdownInv ==
  ASSUME ShutdownInv, NEW i \in Informers, End(i)
  PROVE  ShutdownInv'
<1> USE DEF ShutdownInv
<1>1. /\ UNCHANGED <<pc, blocked, informers, started, shuttingDown>>
      /\ goroutine[i] = "running"
      /\ goroutine' = [goroutine EXCEPT ![i] = "ended"]
      /\ wg' = wg - 1
  BY DEF End, factoryVars, callerVars
<1>2. i \in AliveInformers
  BY <1>1 DEF AliveInformers, Alive
<1>3. AliveInformers' = AliveInformers \ {i}
  BY <1>1 DEF AliveInformers, Alive
<1>4. Cardinality(AliveInformers \ {i}) = Cardinality(AliveInformers) - 1
  BY <1>2, AliveFinite, FS_RemoveElement
<1>5. ShutdownReturned' <=> ShutdownReturned
  BY <1>1 DEF ShutdownReturned, ReturnedCalls
<1>6. \A c \in Callers : Waits(c, "Shutdown")' <=> Waits(c, "Shutdown")
  BY <1>1 DEF Waits, Calling, NextCall
<1> QED BY <1>1, <1>2, <1>3, <1>4, <1>5, <1>6

\* A call that returns at once and leaves the goroutines alone.
LEMMA QuietCallKeepsShutdownInv ==
  ASSUME ShutdownInv, NEW c \in Callers, Returns(c), NextCall(c).op # "Shutdown",
         \/ UNCHANGED blocked /\ ~blocked[c]
         \/ blocked' = [blocked EXCEPT ![c] = FALSE],
         UNCHANGED <<started, shuttingDown, goroutine, wg>>,
         informers' \in [Types -> {0, 1}]
  PROVE  ShutdownInv'
<1> USE DEF ShutdownInv
<1>1. ~blocked'[c]
  OBVIOUS
<1>2. /\ pc' \in [Callers -> Nat]
      /\ blocked' \in [Callers -> BOOLEAN]
      /\ ShutdownReturned' <=> ShutdownReturned
      /\ \A d \in Callers : Waits(d, "Shutdown")' => Waits(d, "Shutdown")
  BY <1>1, OtherReturns
<1>3. AliveInformers' = AliveInformers
  BY SameGoroutines
<1> QED BY <1>2, <1>3

\* A step that does not touch what ShutdownInv is about.
LEMMA StutterKeepsShutdownInv ==
  ASSUME ShutdownInv, UNCHANGED shutdownVars
  PROVE  ShutdownInv'
<1> USE DEF ShutdownInv, shutdownVars
<1>1. AliveInformers' = AliveInformers
  BY SameGoroutines
<1>2. ShutdownReturned' <=> ShutdownReturned
  BY DEF ShutdownReturned, ReturnedCalls
<1>3. \A c \in Callers : Waits(c, "Shutdown")' <=> Waits(c, "Shutdown")
  BY DEF Waits, Calling, NextCall
<1> QED BY <1>1, <1>2, <1>3

\* A wait for caches is no Shutdown.
LEMMA WaitForCacheSyncKeepsShutdownInv ==
  ASSUME ShutdownInv, NEW c \in Callers, WaitForCacheSync(c)
  PROVE  ShutdownInv'
<1> USE DEF ShutdownInv
<1>1. /\ UNCHANGED <<pc, informers, started, shuttingDown, goroutine, wg>>
      /\ NextCall(c).op = "WaitForCacheSync"
      /\ blocked' = [blocked EXCEPT ![c] = TRUE]
  BY DEF WaitForCacheSync, Calls, Calling, factoryVars, goroutineVars
<1>2. AliveInformers' = AliveInformers
  BY <1>1, SameGoroutines
<1>3. ShutdownReturned' <=> ShutdownReturned
  BY <1>1 DEF ShutdownReturned, ReturnedCalls
<1>4. \A d \in Callers : Waits(d, "Shutdown")' => Waits(d, "Shutdown")
  BY <1>1 DEF Waits, Calling, NextCall
<1> QED BY <1>1, <1>2, <1>3, <1>4

\* No step of callers, goroutines or API server disturbs ShutdownInv.
LEMMA ShutdownStep == ShutdownInv /\ [Next]_vars => ShutdownInv'
<1> SUFFICES ASSUME ShutdownInv, [Next]_vars PROVE ShutdownInv'
  OBVIOUS
<1> USE DEF serverVars, factoryVars, goroutineVars, cacheVars, callerVars, Calls, Waits,
            Calling
<1>1. ASSUME NEW c \in Callers, FactoryCall(c) PROVE ShutdownInv'
  <2>1. CASE InformerFor(c)
    <3>1. informers' \in [Types -> {0, 1}]
      BY <2>1 DEF InformerFor, ShutdownInv
    <3> QED BY <2>1, <3>1, QuietCallKeepsShutdownInv DEF InformerFor
  <2>2. CASE Start(c)
    BY <2>2, StartKeepsShutdownInv
  <2>3. CASE ShutDown(c)
    BY <2>3, ShutdownKeepsShutdownInv
  <2>4. CASE ShutdownReturns(c)
    BY <2>4, ShutdownReturnsKeepsShutdownInv
  <2>5. CASE WaitForCacheSync(c)
    BY <2>5, WaitForCacheSyncKeepsShutdownInv
  <2>6. CASE Poll(c)
    BY <2>6, StutterKeepsShutdownInv DEF Poll, shutdownVars
  <2>7. CASE WaitReturns(c)
    BY <2>7, QuietCallKeepsShutdownInv DEF WaitReturns, ShutdownInv
  <2>8. CASE Receive(c)
    BY <2>8, QuietCallKeepsShutdownInv DEF Receive, ShutdownInv
  <2> QED BY <1>1, <2>1, <2>2, <2>3, <2>4, <2>5, <2>6, <2>7, <2>8 DEF FactoryCall
<1>2. ASSUME InformerStep PROVE ShutdownInv'
  <2> PICK i \in Informers : Run(i) \/ ListObjects(i) \/ WatchObjects(i) \/ End(i)
    BY <1>2 DEF InformerStep
  <2>1. CASE Run(i)
    BY <2>1, RunKeepsShutdownInv
  <2>2. CASE ListObjects(i) \/ WatchObjects(i)
    BY <2>2, StutterKeepsShutdownInv DEF ListObjects, WatchObjects, Follow, shutdownVars
  <2>3. CASE End(i)
    BY <2>3, EndKeepsShutdownInv
  <2> QED BY <2>1, <2>2, <2>3
<1>3. ASSUME NEW c \in Callers, List(c) PROVE ShutdownInv'
  BY <1>3, QuietCallKeepsShutdownInv DEF List, ShutdownInv
<1>4. ASSUME NEW c \in Callers, CallHelper(c) PROVE ShutdownInv'
  <2>1. NextCall(c).op # "Shutdown" /\ ~blocked[c]
    BY <1>4 DEF CallHelper, Helpers
  <2> QED BY <1>4, <2>1, QuietCallKeepsShutdownInv DEF CallHelper, ShutdownInv
<1>5. ASSUME Close PROVE ShutdownInv'
  BY <1>5, StutterKeepsShutdownInv DEF Close, shutdownVars
<1>6. ASSUME NEW type \in Types, Change(type) PROVE ShutdownInv'
  BY <1>6, StutterKeepsShutdownInv DEF Change, shutdownVars
<1>7. ASSUME UNCHANGED vars PROVE ShutdownInv'
  BY <1>7, StutterKeepsShutdownInv DEF vars, informerVars, shutdownVars
<1> QED BY <1>1, <1>2, <1>3, <1>4, <1>5, <1>6, <1>7 DEF Next, FactoryStep

\* Once a Shutdown has returned no goroutine of the factory is alive, nor ever
\* will be, whatever the others call (sharedInformerFactory.Shutdown).
THEOREM ShutdownWaitsHolds == Spec => []ShutdownWaits
<1>1. ShutdownInv => ShutdownWaits
  BY DEF ShutdownInv, ShutdownWaits, ShutdownReturned, AliveInformers
<1> QED BY <1>1, ShutdownInit, ShutdownStep, PTL DEF Spec

-----------------------------------------------------------------------------
(* Lists.                                                                  *)

\* The informers there can be: one of each type.
FirstInformers == {<<type, 1>> : type \in Types}

\* What ListedFromServer rests on: there is one informer of a type, made before it is
\* started; it is at a version the server had, and caches what the options let
\* through of that; who waits for an informer or holds one, holds this one; a type
\* is synced only when its informer has listed.
ListInv ==
  /\ server \in [Types -> Seq(States)]
  /\ \A type \in Types : Len(server[type]) > 0
  /\ informers \in [Types -> {0, 1}]
  /\ \A type \in started : type \in Types /\ informers[type] = 1
  /\ position \in [Informers -> Nat]
  /\ DOMAIN cached = Informers
  /\ \A i \in Informers :
       /\ position[i] <= Len(server[TypeOf(i)])
       /\ position[i] > 0 => cached[i] = View(TypeOf(i), position[i])
  /\ pending \in [Callers -> SUBSET FirstInformers]
  /\ synced \in [Callers -> SUBSET Types]
  /\ \A c \in Callers : \A type \in synced[c] : position[<<type, 1>>] > 0
  /\ handle \in [Callers -> FirstInformers \cup {NoInformer}]
  /\ DOMAIN listed = Callers
  /\ \A c \in Callers : listed[c].synced => listed[c].type \in Types
  /\ ListedFromServer

\* The variables ListInv is about.
listVars == <<server, informers, started, position, cached, pending, synced, handle, listed>>

\* The first informers are informers, each named by its type.
LEMMA FirstInformersFacts ==
  /\ FirstInformers \subseteq Informers
  /\ \A i \in FirstInformers : TypeOf(i) \in Types /\ i = <<TypeOf(i), 1>>
  /\ \A i \in Informers : TypeOf(i) \in Types
BY DEF FirstInformers, Informers, TypeOf

\* At first every object has its initial state, and nobody has listed.
LEMMA ListInit == Init => ListInv
<1> SUFFICES ASSUME Init PROVE ListInv
  OBVIOUS
<1> USE DEF Init, InformerInit
<1>1. server \in [Types -> Seq(States)] /\ \A type \in Types : Len(server[type]) > 0
  <2>1. \A state \in States : <<state>> \in Seq(States) /\ Len(<<state>>) > 0
    OBVIOUS
  <2>2. {<<state>> : state \in Initial} \subseteq Seq(States)
    BY <2>1, FactoryAssumption
  <2>3. ASSUME NEW type \in Types PROVE Len(server[type]) > 0
    <3>1. PICK state \in Initial : server[type] = <<state>>
      OBVIOUS
    <3> QED BY <2>1, <3>1, FactoryAssumption
  <2> QED BY <2>2, <2>3
<1>2. \A i \in Informers : Len(server[TypeOf(i)]) \in Nat
  BY <1>1, FirstInformersFacts
<1>3. \A i \in Informers : position[i] = 0
  OBVIOUS
<1>4. \A c \in Callers : ~listed[c].synced
  BY DEF NothingListed
<1> QED BY <1>1, <1>2, <1>3, <1>4 DEF ListInv, ListedFromServer

\* A step that does not touch what ListInv is about.
LEMMA StutterKeepsListInv ==
  ASSUME ListInv, UNCHANGED listVars
  PROVE  ListInv'
BY DEF ListInv, listVars, ListedFromServer, View

\* A longer history of the server has the versions it had.
LEMMA ChangeKeepsListInv ==
  ASSUME ListInv, NEW type \in Types, Change(type)
  PROVE  ListInv'
<1> USE DEF ListInv
<1>1. PICK state \in States : server' = [server EXCEPT ![type] = Append(@, state)]
  BY DEF Change
<1>2. UNCHANGED <<informers, started, position, cached, pending, synced, handle, listed>>
  BY DEF Change, factoryVars, cacheVars, callerVars
<1>3. server' \in [Types -> Seq(States)]
  BY <1>1
<1>4. \A t \in Types :
        /\ Len(server[t]) \in Nat /\ Len(server'[t]) \in Nat
        /\ Len(server[t]) <= Len(server'[t])
        /\ \A v \in 1..Len(server[t]) : server'[t][v] = server[t][v]
  BY <1>1
<1>5. \A t \in Types : \A v \in 1..Len(server[t]) : View(t, v)' = View(t, v)
  BY <1>4 DEF View
<1>6. ASSUME NEW i \in Informers
      PROVE  /\ position'[i] <= Len(server'[TypeOf(i)])
             /\ position'[i] > 0 => cached'[i] = View(TypeOf(i), position[i])'
  <2>1. TypeOf(i) \in Types /\ position[i] \in Nat
    BY FirstInformersFacts
  <2>2. position[i] <= Len(server'[TypeOf(i)])
    BY <1>4, <2>1
  <2>3. ASSUME position[i] > 0 PROVE cached[i] = View(TypeOf(i), position[i])'
    <3>1. position[i] \in 1..Len(server[TypeOf(i)])
      BY <2>1, <2>3
    <3>2. View(TypeOf(i), position[i])' = View(TypeOf(i), position[i])
      BY <1>2, <1>5, <2>1, <3>1 DEF View
    <3> QED BY <2>3, <3>2
  <2> QED BY <1>2, <2>2, <2>3
<1>7. ASSUME NEW c \in Callers, listed[c].synced
      PROVE  \E v \in 1..Len(server'[listed[c].type]) :
               listed'[c].version = View(listed[c].type, v)'
  <2>1. listed[c].type \in Types
    BY <1>7
  <2>2. PICK v \in 1..Len(server[listed[c].type]) :
          listed[c].version = View(listed[c].type, v)
    BY <1>7 DEF ListedFromServer
  <2>3. View(listed[c].type, v)' = View(listed[c].type, v)
    BY <1>2, <1>5, <2>1 DEF View
  <2>4. v \in 1..Len(server'[listed[c].type])
    BY <1>4, <2>1
  <2> QED BY <1>2, <2>2, <2>3, <2>4
<1>8. ListedFromServer'
  BY <1>2, <1>7 DEF ListedFromServer
<1>9. \A i \in Informers : /\ position'[i] <= Len(server[TypeOf(i)])'
                           /\ position'[i] > 0 => cached'[i] = View(TypeOf(i), position[i])'
  BY <1>6
<1>10. \A t \in Types : Len(server'[t]) > 0
  BY <1>4
<1> QED BY <1>2, <1>3, <1>8, <1>9, <1>10 DEF ListInv

\* An informer that lists, or takes an event, is at a version the server has.
LEMMA FollowKeepsListInv ==
  ASSUME ListInv, NEW i \in Informers, NEW version \in 1..Len(server[TypeOf(i)]),
         Follow(i, version), UNCHANGED consumerVars
  PROVE  ListInv'
<1> USE DEF ListInv
<1>1. /\ UNCHANGED <<server, informers, started, pending, synced, handle, listed>>
      /\ position' = [position EXCEPT ![i] = version]
      /\ cached' = [cached EXCEPT ![i] = View(TypeOf(i), version)]
  BY DEF Follow, serverVars, factoryVars, callerVars, consumerVars
<1>2. TypeOf(i) \in Types /\ Len(server[TypeOf(i)]) \in Nat /\ version \in Nat
  BY FirstInformersFacts
<1>3. position' \in [Informers -> Nat] /\ DOMAIN cached' = Informers
  BY <1>1, <1>2
<1>4. ASSUME NEW j \in Informers
      PROVE  /\ position'[j] <= Len(server[TypeOf(j)])
             /\ position'[j] > 0 => cached'[j] = View(TypeOf(j), position'[j])
  BY <1>1, <1>2
<1>5. \A j \in Informers : position[j] > 0 => position'[j] > 0
  BY <1>1, <1>2
<1>6. \A c \in Callers : \A type \in synced[c] : position'[<<type, 1>>] > 0
  BY <1>5, FirstInformersFacts DEF FirstInformers
<1>7. \A j \in Informers : /\ position'[j] <= Len(server[TypeOf(j)])'
                           /\ position'[j] > 0 => cached'[j] = View(TypeOf(j), position[j])'
  BY <1>1, <1>4 DEF View
<1>8. ListedFromServer'
  BY <1>1 DEF ListedFromServer, View
<1> QED BY <1>1, <1>3, <1>6, <1>7, <1>8 DEF ListInv

\* A List of a synced type sees what its informer has in its cache.
LEMMA ListKeepsListInv ==
  ASSUME ListInv, NEW c \in Callers, List(c)
  PROVE  ListInv'
<1> USE DEF ListInv
<1>1. /\ UNCHANGED <<server, informers, started, position, cached, pending, synced, handle>>
      /\ listed' = [listed EXCEPT ![c] =
                      [type |-> TypeOf(handle[c]), version |-> cached[handle[c]],
                       synced |-> TypeOf(handle[c]) \in synced[c]]]
  BY DEF List, serverVars, factoryVars, cacheVars
<1>2. /\ listed'[c].type = TypeOf(handle[c])
      /\ listed'[c].version = cached[handle[c]]
      /\ listed'[c].synced => TypeOf(handle[c]) \in synced[c]
  BY <1>1
<1>3. ASSUME listed'[c].synced
      PROVE  /\ TypeOf(handle[c]) \in Types
             /\ \E v \in 1..Len(server[TypeOf(handle[c])]) :
                  cached[handle[c]] = View(TypeOf(handle[c]), v)
  <2>1. TypeOf(handle[c]) \in synced[c] /\ TypeOf(handle[c]) \in Types
    BY <1>2, <1>3
  <2>2. handle[c] # NoInformer
    <3>1. TypeOf(NoInformer) = ""
      BY DEF NoInformer, TypeOf
    <3> QED BY <2>1, <3>1, FactoryAssumption
  <2>3. /\ handle[c] \in Informers
        /\ handle[c] = <<TypeOf(handle[c]), 1>>
    BY <2>2, FirstInformersFacts
  <2>4. position[handle[c]] > 0
    BY <2>1, <2>3
  <2> QED BY <2>1, <2>3, <2>4
<1>4. \A d \in Callers \ {c} : listed'[d] = listed[d]
  BY <1>1
<1>5. \A d \in Callers : listed'[d].synced => listed'[d].type \in Types
  BY <1>2, <1>3, <1>4
<1>6. ListedFromServer'
  <2> SUFFICES ASSUME NEW d \in Callers, listed'[d].synced
               PROVE  \E v \in 1..Len(server[listed'[d].type]) :
                        listed'[d].version = View(listed'[d].type, v)
    <3>1. server' = server
      BY <1>1
    <3> QED BY <3>1 DEF ListedFromServer, View
  <2>1. CASE d = c
    BY <1>2, <1>3, <2>1
  <2>2. CASE d # c
    <3>1. listed'[d] = listed[d]
      BY <1>4, <2>2
    <3> QED BY <3>1 DEF ListedFromServer
  <2> QED BY <2>1, <2>2
<1>7. DOMAIN listed' = Callers
  BY <1>1
<1>8. \A i \in Informers : /\ position'[i] <= Len(server[TypeOf(i)])'
                           /\ position'[i] > 0 => cached'[i] = View(TypeOf(i), position[i])'
  BY <1>1 DEF View
<1> QED BY <1>1, <1>5, <1>6, <1>7, <1>8 DEF ListInv

\* A call that changes who holds, waits for or has synced which informers, and what
\* is made and started.
LEMMA CallKeepsListInv ==
  ASSUME ListInv, UNCHANGED <<server, position, cached, listed>>,
         informers' \in [Types -> {0, 1}],
         \A type \in started' : type \in Types /\ informers'[type] = 1,
         pending' \in [Callers -> SUBSET FirstInformers],
         synced' \in [Callers -> SUBSET Types],
         \A c \in Callers : \A type \in synced'[c] : position[<<type, 1>>] > 0,
         handle' \in [Callers -> FirstInformers \cup {NoInformer}]
  PROVE  ListInv'
BY DEF ListInv, ListedFromServer, View

\* No step disturbs ListInv. That programs ask for informers of known types only needs
\* the callers' positions typed, which ShutdownInv says.
LEMMA ListStep == ListInv /\ ShutdownInv /\ [Next]_vars => ListInv'
<1> SUFFICES ASSUME ListInv, ShutdownInv, [Next]_vars PROVE ListInv'
  OBVIOUS
<1> USE DEF serverVars, factoryVars, goroutineVars, cacheVars, callerVars, consumerVars
<1>1. ASSUME NEW c \in Callers, FactoryCall(c), UNCHANGED consumerVars PROVE ListInv'
  <2>1. CASE InformerFor(c)
    <3> DEFINE type == NextCall(c).type
    <3>1. /\ informers' = [informers EXCEPT ![type] = IF @ = 0 THEN 1 ELSE @]
          /\ handle' = [handle EXCEPT ![c] = <<type, informers'[type]>>]
          /\ UNCHANGED <<server, started, position, cached, pending, synced>>
      BY <2>1 DEF InformerFor
    <3> HIDE DEF type
    <3>2. type \in Types
      <4>1. /\ pc[c] < Len(Program[c]) /\ NextCall(c).op = "InformerFor"
        BY <2>1 DEF InformerFor, Calls, Calling
      <4>2. pc[c] + 1 \in 1..Len(Program[c])
        <5>1. Len(Program[c]) \in Nat
          BY FactoryAssumption
        <5>2. pc[c] \in Nat
          BY DEF ShutdownInv
        <5> QED BY <4>1, <5>1, <5>2
      <4> QED BY <4>1, <4>2, FactoryAssumption DEF type, NextCall
    <3> QED BY <1>1, <3>1, <3>2, CallKeepsListInv DEF ListInv, FirstInformers
  <2>2. CASE Start(c)
    <3>1. /\ UNCHANGED <<server, informers, position, cached, pending, synced, handle>>
          /\ started' \subseteq started \cup ToStart
      BY <2>2 DEF Start, Spawn
    <3>2. \A type \in started' : type \in Types /\ informers[type] = 1
      BY <3>1 DEF ListInv, ToStart
    <3> QED BY <1>1, <3>1, <3>2, CallKeepsListInv DEF ListInv
  <2>3. CASE ShutDown(c) \/ ShutdownReturns(c) \/ WaitReturns(c) \/ Receive(c)
    BY <1>1, <2>3, StutterKeepsListInv
       DEF ShutDown, ShutdownReturns, WaitReturns, Receive, listVars
  <2>4. CASE WaitForCacheSync(c)
    <3>1. /\ UNCHANGED <<server, informers, started, position, cached, handle>>
          /\ pending' = [pending EXCEPT ![c] = {InMap(type) : type \in started}]
          /\ synced' = [synced EXCEPT ![c] = {}]
      BY <2>4 DEF WaitForCacheSync
    <3>2. {InMap(type) : type \in started} \subseteq FirstInformers
      BY DEF ListInv, InMap, FirstInformers
    <3>3. pending' \in [Callers -> SUBSET FirstInformers]
      BY <3>1, <3>2 DEF ListInv
    <3>4. /\ synced' \in [Callers -> SUBSET Types]
          /\ \A d \in Callers : \A type \in synced'[d] : position[<<type, 1>>] > 0
      BY <3>1 DEF ListInv
    <3> QED BY <1>1, <3>1, <3>3, <3>4, CallKeepsListInv DEF ListInv
  <2>5. CASE Poll(c)
    <3>1. PICK i \in pending[c] :
            /\ pending' = [pending EXCEPT ![c] = @ \ {i}]
            /\ \/ /\ position[i] > 0
                  /\ synced' = [synced EXCEPT ![c] = @ \cup {TypeOf(i)}]
               \/ UNCHANGED synced
      BY <2>5 DEF Poll
    <3>2. UNCHANGED <<server, informers, started, position, cached, handle>>
      BY <2>5 DEF Poll
    <3>3. i \in FirstInformers
      BY <3>1 DEF ListInv
    <3>4. TypeOf(i) \in Types /\ i = <<TypeOf(i), 1>>
      BY <3>3, FirstInformersFacts
    <3>5. pending' \in [Callers -> SUBSET FirstInformers]
      BY <3>1 DEF ListInv
    <3>6. /\ synced' \in [Callers -> SUBSET Types]
          /\ \A d \in Callers : \A type \in synced'[d] : position[<<type, 1>>] > 0
      <4>1. CASE /\ position[i] > 0
                 /\ synced' = [synced EXCEPT ![c] = @ \cup {TypeOf(i)}]
        <5>1. synced' \in [Callers -> SUBSET Types]
          BY <3>4, <4>1 DEF ListInv
        <5>2. \A d \in Callers : synced'[d] \subseteq synced[d] \cup {TypeOf(i)}
          BY <4>1 DEF ListInv
        <5>3. position[<<TypeOf(i), 1>>] > 0
          BY <3>4, <4>1
        <5> QED BY <5>1, <5>2, <5>3 DEF ListInv
      <4>2. CASE UNCHANGED synced
        BY <4>2 DEF ListInv
      <4> QED BY <3>1, <4>1, <4>2
    <3> QED BY <1>1, <3>2, <3>5, <3>6, CallKeepsListInv DEF ListInv
  <2> QED BY <1>1, <2>1, <2>2, <2>3, <2>4, <2>5 DEF FactoryCall
<1>2. ASSUME InformerStep, UNCHANGED consumerVars PROVE ListInv'
  <2> PICK i \in Informers : Run(i) \/ ListObjects(i) \/ WatchObjects(i) \/ End(i)
    BY <1>2 DEF InformerStep
  <2>1. CASE Run(i) \/ End(i)
    BY <1>2, <2>1, StutterKeepsListInv DEF Run, End, listVars
  <2>2. CASE ListObjects(i)
    <3>1. Len(server[TypeOf(i)]) \in 1..Len(server[TypeOf(i)])
      BY FirstInformersFacts DEF ListInv
    <3> QED BY <1>2, <2>2, <3>1, FollowKeepsListInv DEF ListObjects
  <2>3. CASE WatchObjects(i)
    <3>1. position[i] + 1 \in 1..Len(server[TypeOf(i)])
      BY <2>3, FirstInformersFacts DEF WatchObjects, ListInv
    <3> QED BY <1>2, <2>3, <3>1, FollowKeepsListInv DEF WatchObjects
  <2> QED BY <2>1, <2>2, <2>3
<1>3. ASSUME NEW c \in Callers, List(c) PROVE ListInv'
  BY <1>3, ListKeepsListInv
<1>4. ASSUME NEW c \in Callers, CallHelper(c) PROVE ListInv'
  BY <1>4, StutterKeepsListInv DEF CallHelper, listVars
<1>5. ASSUME Close, UNCHANGED consumerVars PROVE ListInv'
  BY <1>5, StutterKeepsListInv DEF Close, listVars
<1>6. ASSUME NEW type \in Types, Change(type) PROVE ListInv'
  BY <1>6, ChangeKeepsListInv
<1>7. ASSUME UNCHANGED vars PROVE ListInv'
  BY <1>7, StutterKeepsListInv DEF vars, informerVars, listVars
<1> QED BY <1>1, <1>2, <1>3, <1>4, <1>5, <1>6, <1>7 DEF Next, FactoryStep

\* A List after a sync of its type saw the object as the server had it at one moment
\* (sharedInformerFactory.WaitForCacheSync, nodeResourceTopologyLister.List).
THEOREM ListedFromServerHolds == Spec => []ListedFromServer
<1>1. ListInv => ListedFromServer
  BY DEF ListInv
<1> QED BY <1>1, ListInit, ListStep, ShutdownInit, ShutdownStep, PTL DEF Spec

-----------------------------------------------------------------------------
(* The arrays.                                                             *)

\* A call of a helper, as ConsumersAssumption has it.
IsHelperCall(call) ==
  /\ call.op \in Helpers
  /\ call.op = "Insert" => call.attr \in AttributeInfo
  /\ call.op \in {"Merge", "UpdateAttributes"} => call.updated \in Seq(AttributeInfo)

\* Each helper does what Documented says, and writes to a new array only.
LEMMA HelperFacts ==
  ASSUME NEW call, IsHelperCall(call), NEW slice, NEW new, IsHeap(heap), Lies(heap, slice)
  PROVE  LET r == Helper(call, slice, new)
         IN  /\ Leaves(heap, slice, new, r)
             /\ Documented(call, Contents(heap, slice), ContentsOf(r))
<1> DEFINE r == Helper(call, slice, new)
           before == Contents(heap, slice)
<1>1. CASE call.op = "Insert"
  <2> DEFINE q == Insert(heap, slice, call.attr, new)
             list == <<call.attr>>
  <2>1. r = q
    BY <1>1 DEF Helper
  <2>2. call.attr \in AttributeInfo
    BY <1>1 DEF IsHelperCall
  <2>3. /\ Leaves(heap, slice, new, q)
        /\ Nameless(call.attr) => ContentsOf(q) = before
        /\ ~Nameless(call.attr) =>
             Joined(before, list, ContentsOf(q), NamesOf(Without(list, Names(before))))
    BY <2>2, InsertFacts
  <2> HIDE DEF q, before, list
  <2>4. Documented(call, before, ContentsOf(q))
          <=> IF Nameless(call.attr)
                THEN ContentsOf(q) = before
                ELSE Joined(before, list, ContentsOf(q),
                            NamesOf(Without(list, Names(before))))
    BY <1>1 DEF Documented, list
  <2> HIDE DEF r
  <2>5. Documented(call, before, ContentsOf(q))
    BY <2>3, <2>4
  <2> QED BY <2>1, <2>3, <2>5, Zenon DEF r, before
<1>2. CASE call.op = "Merge"
  <2> DEFINE q == Merge(heap, slice, call.updated, new)
  <2>1. r = q
    BY <1>2 DEF Helper
  <2>2. call.updated \in Seq(AttributeInfo)
    BY <1>2 DEF IsHelperCall
  <2>3. /\ Leaves(heap, slice, new, q)
        /\ Joined(before, call.updated, ContentsOf(q),
                  NamesOf(Without(call.updated, Names(before))))
    BY <2>2, MergeFacts
  <2> HIDE DEF q, before, r
  <2>4. Documented(call, before, ContentsOf(q))
    BY <1>2, <2>3 DEF Documented
  <2> QED BY <2>1, <2>3, <2>4, Zenon DEF r, before
<1>3. CASE call.op = "DeleteAll"
  <2> DEFINE q == DeleteAll(heap, slice, call.name, new)
  <2>1. r = q
    BY <1>3 DEF Helper
  <2>2. /\ Leaves(heap, slice, new, q)
        /\ Deleted(before, call.name, ContentsOf(q))
    BY DeleteAllFacts
  <2> HIDE DEF q, before, r
  <2>3. Documented(call, before, ContentsOf(q))
    BY <1>3, <2>2 DEF Documented
  <2> QED BY <2>1, <2>2, <2>3, Zenon DEF r, before
<1>4. CASE call.op = "UpdateAttributes"
  <2> DEFINE q == UpdateAttributes(heap, slice, call.updated, new)
  <2>1. r = q
    BY <1>4 DEF Helper
  <2>2. call.updated \in Seq(AttributeInfo)
    BY <1>4 DEF IsHelperCall
  <2>3. /\ Leaves(heap, slice, new, q)
        /\ Joined(before, call.updated, ContentsOf(q),
                  Distinct(NamesOf(Without(call.updated, Names(before)))))
    BY <2>2, UpdateAttributesFacts
  <2> HIDE DEF q, before, r
  <2>4. Documented(call, before, ContentsOf(q))
    BY <1>4, <2>3 DEF Documented
  <2> QED BY <2>1, <2>3, <2>4, Zenon DEF r, before
<1> QED BY <1>1, <1>2, <1>3, <1>4 DEF IsHelperCall, Helpers

\* The names arrays can have, the lists in them, and what is noted of a call.
Arrays == {NilArray} \cup ((Types \cup Callers) \X Nat)
Lists == [array : Arrays, len : Nat]
ProgramCalls == UNION {{Program[c][i] : i \in 1..Len(Program[c])} : c \in Callers}
Entries == [call : ProgramCalls, from : Lists, to : Lists]

\* An array is nil, that of a version the server had, or made by a call that returned.
IsMade(array) ==
  \/ array = NilArray
  \/ \E type \in Types : \E version \in 1..Len(server[type]) : array = <<type, version>>
  \/ \E c \in Callers : \E n \in 1..pc[c] : array = <<c, n>>

ArraysInv ==
  /\ IsHeap(heap) /\ NilArray \in DOMAIN heap
  /\ \A array \in DOMAIN heap : IsMade(array)

\* Nobody writes to the array of a version.
VersionsInv ==
  /\ \A type \in Types : \A version \in 1..Len(server[type]) :
       /\ <<type, version>> \in DOMAIN heap
       /\ heap[<<type, version>>] = Decoded(server[type][version])
  /\ \A informer \in Informers : cached[informer] \in {0, position[informer]}

\* A list given to a helper and the one it returned are there still, and as documented.
IsResult(result) ==
  /\ Lies(heap, result.from) /\ Lies(heap, result.to)
  /\ Documented(result.call, Contents(heap, result.from), Contents(heap, result.to))

ResultsInv ==
  /\ results \in [Callers -> Seq(Entries)]
  /\ \A c \in Callers : \A i \in 1..Len(results[c]) : IsResult(results[c][i])

\* What a program did before it lists, and before it calls a helper.
HasListed(c) ==
  /\ listed[c].type \in Types
  /\ listed[c].version \in 0..Len(server[listed[c].type])

ProgramInv ==
  \A c \in Callers : \A call \in ReturnedCalls(c) :
    /\ call.op = "InformerFor" => handle[c] \in FirstInformers
    /\ call.op = "List" => HasListed(c)

\* What CacheFaithful and ResultsAsDocumented rest on: every array is named for what
\* made it, so that one a helper makes is nobody's, and no other is written to.
HeapInv == ArraysInv /\ VersionsInv /\ ResultsInv /\ ProgramInv

\* Histories only get longer, and the heap larger; callers only go on.
ServerGrows ==
  \A type \in Types :
    /\ Len(server[type]) <= Len(server'[type])
    /\ \A version \in 1..Len(server[type]) : server'[type][version] = server[type][version]

HeapGrows ==
  /\ IsHeap(heap') /\ DOMAIN heap \subseteq DOMAIN heap'
  /\ \A array \in DOMAIN heap : heap'[array] = heap[array]

CallersGoOn ==
  \/ UNCHANGED pc
  \/ \E c \in Callers : pc[c] < Len(Program[c]) /\ Returns(c)

\* A step of the program is a step of one caller at most.
LEMMA NextGoesOn == [Next]_vars => CallersGoOn
<1> SUFFICES ASSUME [Next]_vars PROVE CallersGoOn
  OBVIOUS
<1> USE DEF callerVars, CallersGoOn, Calls, Waits, Calling
<1>1. ASSUME NEW c \in Callers, FactoryCall(c) PROVE CallersGoOn
  BY <1>1 DEF FactoryCall, InformerFor, Start, ShutDown, ShutdownReturns, WaitForCacheSync,
              Poll, WaitReturns, Receive
<1>2. ASSUME InformerStep PROVE CallersGoOn
  BY <1>2 DEF InformerStep, Run, ListObjects, WatchObjects, Follow, End
<1>3. ASSUME NEW c \in Callers, List(c) \/ CallHelper(c) PROVE CallersGoOn
  BY <1>3 DEF List, CallHelper
<1>4. ASSUME Close \/ \E type \in Types : Change(type) PROVE CallersGoOn
  BY <1>4 DEF Close, Change
<1>5. ASSUME UNCHANGED vars PROVE CallersGoOn
  BY <1>5 DEF vars, informerVars
<1> QED BY <1>1, <1>2, <1>3, <1>4, <1>5 DEF Next, FactoryStep

\* So a caller's count does not go back.
LEMMA CountsGrow ==
  ASSUME pc \in [Callers -> Nat], CallersGoOn
  PROVE  \A c \in Callers : pc'[c] \in Nat /\ pc[c] <= pc'[c]
<1>1. CASE UNCHANGED pc
  BY <1>1
<1>2. ASSUME NEW c \in Callers, Returns(c)
      PROVE  \A d \in Callers : pc'[d] \in Nat /\ pc[d] <= pc'[d]
  BY <1>2, ReturnFacts
<1> QED BY <1>1, <1>2 DEF CallersGoOn

\* An array that was made was made.
LEMMA MadeAgain ==
  ASSUME pc \in [Callers -> Nat], server \in [Types -> Seq(States)],
         server' \in [Types -> Seq(States)], CallersGoOn, ServerGrows,
         NEW array, IsMade(array)
  PROVE  IsMade(array)'
<1>1. \A c \in Callers : \A n \in 1..pc[c] : n \in 1..pc'[c]
  BY CountsGrow
<1>2. \A type \in Types : \A v \in 1..Len(server[type]) : v \in 1..Len(server'[type])
  BY DEF ServerGrows
<1> QED BY <1>1, <1>2 DEF IsMade

\* The name of the array a call makes is free.
LEMMA CallIsNew ==
  ASSUME ArraysInv, pc \in [Callers -> Nat], NEW c \in Callers
  PROVE  <<c, pc[c] + 1>> \notin DOMAIN heap
<1>1. ~IsMade(<<c, pc[c] + 1>>)
  BY ConsumersAssumption DEF IsMade, NilArray
<1> QED BY <1>1 DEF ArraysInv

\* So is the name of the array of a version to come.
LEMMA VersionIsNew ==
  ASSUME ArraysInv, server \in [Types -> Seq(States)], NEW type \in Types
  PROVE  <<type, Len(server[type]) + 1>> \notin DOMAIN heap
<1>1. ~IsMade(<<type, Len(server[type]) + 1>>)
  BY ConsumersAssumption DEF IsMade, NilArray
<1> QED BY <1>1 DEF ArraysInv

\* A list in a heap that grows stays as it is.
LEMMA LiesAgain ==
  ASSUME HeapGrows, NEW slice, Lies(heap, slice)
  PROVE  Lies(heap', slice) /\ Contents(heap', slice) = Contents(heap, slice)
<1>1. slice.array \in DOMAIN heap
  BY DEF Lies
<1> QED BY <1>1 DEF HeapGrows, Lies, Contents

\* And so does what is documented of it.
LEMMA ResultAgain ==
  ASSUME HeapGrows, NEW result, IsResult(result)
  PROVE  IsResult(result)'
<1>1. /\ Lies(heap, result.from) /\ Lies(heap, result.to)
      /\ Documented(result.call, Contents(heap, result.from), Contents(heap, result.to))
  BY DEF IsResult
<1>2. /\ Lies(heap', result.from) /\ Contents(heap', result.from) = Contents(heap, result.from)
      /\ Lies(heap', result.to) /\ Contents(heap', result.to) = Contents(heap, result.to)
  BY <1>1, LiesAgain
<1>3. Documented(result.call, Contents(heap', result.from), Contents(heap', result.to))
  BY <1>1, <1>2, Zenon
<1> QED BY <1>2, <1>3 DEF IsResult

\* Arrays made for versions or by calls are the only ones.
LEMMA ArraysNamed ==
  ASSUME ArraysInv, server \in [Types -> Seq(States)], pc \in [Callers -> Nat]
  PROVE  DOMAIN heap \subseteq Arrays
BY DEF ArraysInv, IsMade, Arrays

\* At first the arrays are nil's and those of the first versions.
LEMMA HeapInit == Init => HeapInv
<1> SUFFICES ASSUME Init PROVE HeapInv
  OBVIOUS
<1>1. ListInv
  BY ListInit
<1> DEFINE firsts == {<<type, 1>> : type \in Types}
           decoded == [array \in firsts |-> Decoded(server[array[1]][1])]
<1>2. heap = Stored(decoded, NilArray, <<>>)
  BY DEF Init
<1>3. \A type \in Types : /\ Len(server[type]) = 1 /\ server[type][1] \in States
                          /\ Decoded(server[type][1]) \in Seq(AttributeInfo)
  <2>1. ASSUME NEW type \in Types
        PROVE  Len(server[type]) = 1 /\ server[type][1] \in States
    <3>1. PICK state \in Initial : server[type] = <<state>>
      BY DEF Init, InformerInit
    <3>2. Len(<<state>>) = 1 /\ <<state>>[1] = state
      OBVIOUS
    <3> QED BY <3>1, <3>2, FactoryAssumption
  <2>2. \A state \in States : Decoded(state) \in Seq(AttributeInfo)
    BY ConsumersAssumption, AllocatedFacts DEF Decoded
  <2> QED BY <2>1, <2>2
<1>4. NilArray \notin firsts
  BY ConsumersAssumption DEF NilArray
<1>5. \A array \in firsts : decoded[array] \in Seq(AttributeInfo)
  BY <1>3
<1>6. \A type \in Types : decoded[<<type, 1>>] = Decoded(server[type][1])
  OBVIOUS
<1>7. DOMAIN decoded = firsts
  OBVIOUS
<1> HIDE DEF decoded
<1>8. heap \in [firsts \cup {NilArray} -> Seq(AttributeInfo)]
  BY <1>2, <1>5, <1>7 DEF Stored
<1>9. ArraysInv
  <2>1. DOMAIN heap = firsts \cup {NilArray} /\ IsHeap(heap)
    BY <1>8 DEF IsHeap
  <2>2. \A array \in firsts : IsMade(array)
    BY <1>3 DEF IsMade
  <2> QED BY <2>1, <2>2 DEF ArraysInv, IsMade
<1>10. VersionsInv
  <2>1. ASSUME NEW type \in Types, NEW version \in 1..Len(server[type])
        PROVE  /\ <<type, version>> \in DOMAIN heap
               /\ heap[<<type, version>>] = Decoded(server[type][version])
    <3>1. version = 1
      <4>1. Len(server[type]) = 1
        BY <1>3
      <4>2. \A n \in 1..1 : n = 1
        OBVIOUS
      <4> QED BY <4>1, <4>2, Zenon
    <3>2. <<type, 1>> \in firsts
      OBVIOUS
    <3>3. <<type, 1>> # NilArray
      BY <1>4, <3>2, Zenon
    <3>4. heap[<<type, 1>>] = decoded[<<type, 1>>]
      BY <1>2, <1>7, <3>2, <3>3 DEF Stored
    <3> QED BY <1>6, <1>8, <3>1, <3>2, <3>4
  <2>2. \A informer \in Informers : cached[informer] = 0
    BY DEF Init, InformerInit
  <2> QED BY <2>1, <2>2 DEF VersionsInv
<1>11. ResultsInv
  BY DEF Init, ResultsInv
<1>12. ProgramInv
  BY DEF Init, InformerInit, ProgramInv, ReturnedCalls
<1> QED BY <1>9, <1>10, <1>11, <1>12 DEF HeapInv

\* A step that gives nobody an informer or a list, and leaves the callers' programs where
\* they are or after a call that does not.
LEMMA OtherCallKeepsProgramInv ==
  ASSUME ProgramInv, ListInv, ServerGrows, server' \in [Types -> Seq(States)],
         pc \in [Callers -> Nat], UNCHANGED <<handle, listed>>,
         \/ UNCHANGED pc
         \/ \E c \in Callers : Returns(c) /\ NextCall(c).op \notin {"InformerFor", "List"}
  PROVE  ProgramInv'
<1>1. \A c \in Callers : HasListed(c) => HasListed(c)'
  BY DEF HasListed, ServerGrows, ListInv
<1>2. CASE UNCHANGED pc
  BY <1>1, <1>2 DEF ProgramInv, ReturnedCalls
<1>3. ASSUME NEW c \in Callers, Returns(c), NextCall(c).op \notin {"InformerFor", "List"}
      PROVE  ProgramInv'
  <2>1. \A d \in Callers : \A call \in ReturnedCalls(d)' :
          call.op \in {"InformerFor", "List"} => call \in ReturnedCalls(d)
    <3>1. /\ ReturnedCalls(c)' = ReturnedCalls(c) \cup {NextCall(c)}
          /\ \A d \in Callers \ {c} : ReturnedCalls(d)' = ReturnedCalls(d)
      BY <1>3, ReturnFacts
    <3> QED BY <1>3, <3>1
  <2> QED BY <1>1, <2>1 DEF ProgramInv
<1> QED BY <1>2, <1>3

\* An informer is that of its type.
LEMMA InformerForKeepsProgramInv ==
  ASSUME ProgramInv, ListInv, ListInv', pc \in [Callers -> Nat],
         NEW c \in Callers, InformerFor(c), UNCHANGED listed
  PROVE  ProgramInv'
<1>1. /\ handle' = [handle EXCEPT ![c] = <<NextCall(c).type, informers'[NextCall(c).type]>>]
      /\ Returns(c) /\ UNCHANGED server /\ NextCall(c).op = "InformerFor"
      /\ pc[c] < Len(Program[c])
  BY DEF InformerFor, Calls, Calling, serverVars
<1>2. NextCall(c).type \in Types
  <2>1. pc[c] + 1 \in 1..Len(Program[c])
    <3>1. Len(Program[c]) \in Nat
      BY FactoryAssumption
    <3> QED BY <1>1, <3>1
  <2> QED BY <1>1, <2>1, FactoryAssumption DEF NextCall
<1>3. handle'[c] \in FirstInformers
  <2>1. informers'[NextCall(c).type] \in {0, 1}
    BY <1>2 DEF ListInv
  <2>2. handle'[c] = <<NextCall(c).type, informers'[NextCall(c).type]>>
    BY <1>1 DEF ListInv
  <2>3. informers'[NextCall(c).type] # 0
    BY <1>2 DEF InformerFor, ListInv
  <2> QED BY <1>2, <2>1, <2>2, <2>3 DEF FirstInformers
<1>4. \A d \in Callers \ {c} : handle'[d] = handle[d]
  BY <1>1 DEF ListInv
<1>5. /\ ReturnedCalls(c)' = ReturnedCalls(c) \cup {NextCall(c)}
      /\ \A d \in Callers \ {c} : ReturnedCalls(d)' = ReturnedCalls(d)
  BY <1>1, ReturnFacts
<1>6. \A d \in Callers : HasListed(d) => HasListed(d)'
  BY <1>1 DEF HasListed
<1>7. \A d \in Callers : \A call \in ReturnedCalls(d)' :
        call.op = "List" => call \in ReturnedCalls(d)
  BY <1>1, <1>5
<1>8. ASSUME NEW d \in Callers, NEW call \in ReturnedCalls(d)'
      PROVE  /\ call.op = "InformerFor" => handle'[d] \in FirstInformers
             /\ call.op = "List" => HasListed(d)'
  <2>1. call.op = "List" => HasListed(d)'
    BY <1>6, <1>7, <1>8 DEF ProgramInv
  <2>2. CASE d = c
    BY <1>3, <2>1, <2>2
  <2>3. CASE d # c
    BY <1>4, <1>5, <1>8, <2>1, <2>3 DEF ProgramInv
  <2> QED BY <2>2, <2>3
<1> QED BY <1>8 DEF ProgramInv

\* A program lists with the informer it got before.
LEMMA ListKeepsProgramInv ==
  ASSUME ProgramInv, ListInv, VersionsInv, pc \in [Callers -> Nat],
         NEW c \in Callers, List(c)
  PROVE  ProgramInv'
<1>1. /\ listed' = [listed EXCEPT ![c] =
                      [type |-> TypeOf(handle[c]), version |-> cached[handle[c]],
                       synced |-> TypeOf(handle[c]) \in synced[c]]]
      /\ Returns(c) /\ UNCHANGED <<server, handle>> /\ NextCall(c).op = "List"
      /\ pc[c] < Len(Program[c])
  BY DEF List, Calls, Calling, serverVars
<1>2. handle[c] \in FirstInformers
  <2>1. pc[c] + 1 \in 1..Len(Program[c])
    <3>1. Len(Program[c]) \in Nat
      BY FactoryAssumption
    <3> QED BY <1>1, <3>1
  <2>2. PICK j \in 1..pc[c] : Program[c][j].op = "InformerFor"
    BY <1>1, <2>1, ConsumersAssumption DEF NextCall
  <2>3. Program[c][j] \in ReturnedCalls(c)
    BY DEF ReturnedCalls
  <2> QED BY <2>2, <2>3 DEF ProgramInv
<1>3. /\ listed'[c].type = TypeOf(handle[c]) /\ listed'[c].version = cached[handle[c]]
      /\ \A d \in Callers \ {c} : listed'[d] = listed[d]
  BY <1>1 DEF ListInv
<1>4. HasListed(c)'
  <2>1. handle[c] \in Informers /\ TypeOf(handle[c]) \in Types
    BY <1>2, FirstInformersFacts
  <2>2. cached[handle[c]] \in 0..Len(server[TypeOf(handle[c])])
    <3>1. /\ position[handle[c]] \in Nat
          /\ position[handle[c]] <= Len(server[TypeOf(handle[c])])
          /\ Len(server[TypeOf(handle[c])]) \in Nat
      BY <2>1 DEF ListInv
    <3> QED BY <2>1, <3>1 DEF VersionsInv
  <2> QED BY <1>1, <1>3, <2>1, <2>2 DEF HasListed
<1>5. /\ ReturnedCalls(c)' = ReturnedCalls(c) \cup {NextCall(c)}
      /\ \A d \in Callers \ {c} : ReturnedCalls(d)' = ReturnedCalls(d)
  BY <1>1, ReturnFacts
<1>6. \A d \in Callers \ {c} : HasListed(d) => HasListed(d)'
  BY <1>1, <1>3 DEF HasListed
<1>7. ASSUME NEW d \in Callers, NEW call \in ReturnedCalls(d)'
      PROVE  /\ call.op = "InformerFor" => handle'[d] \in FirstInformers
             /\ call.op = "List" => HasListed(d)'
  <2>1. CASE d = c
    BY <1>1, <1>2, <1>4, <2>1
  <2>2. CASE d # c
    BY <1>1, <1>5, <1>6, <1>7, <2>2 DEF ProgramInv
  <2> QED BY <2>1, <2>2
<1> QED BY <1>7 DEF ProgramInv

\* A step that writes to no array keeps what ProgramInv leaves of HeapInv.
LEMMA ReadKeepsHeapInv ==
  ASSUME HeapInv, ListInv, pc \in [Callers -> Nat], CallersGoOn,
         UNCHANGED <<server, heap, results>>, ProgramInv',
         \A informer \in Informers : cached'[informer] \in {0, position'[informer]}
  PROVE  HeapInv'
<1> USE DEF HeapInv
<1>1. ArraysInv'
  <2>1. server \in [Types -> Seq(States)] /\ server' = server
    BY DEF ListInv
  <2>2. ServerGrows
    BY <2>1 DEF ServerGrows
  <2>3. \A array \in DOMAIN heap : IsMade(array)'
    BY <2>1, <2>2, MadeAgain DEF ArraysInv
  <2> QED BY <2>3 DEF ArraysInv
<1>2. VersionsInv'
  BY DEF VersionsInv
<1>3. ResultsInv'
  BY DEF ResultsInv, IsResult
<1> QED BY <1>1, <1>2, <1>3

\* The list a helper is called with is there.
LEMMA CurrentLies ==
  ASSUME HeapInv, ListInv, pc \in [Callers -> Nat],
         NEW c \in Callers, NEW op \in Helpers, Calls(c, op)
  PROVE  Lies(heap, Current(c)) /\ IsHelperCall(NextCall(c)) /\ NextCall(c) \in ProgramCalls
<1>1. pc[c] + 1 \in 1..Len(Program[c]) /\ NextCall(c).op = op
  <2>1. Len(Program[c]) \in Nat /\ pc[c] < Len(Program[c]) /\ NextCall(c).op = op
    BY FactoryAssumption DEF Calls, Calling
  <2> QED BY <2>1
<1>2. IsHelperCall(NextCall(c))
  BY <1>1, ConsumersAssumption DEF IsHelperCall, NextCall
<1>3. NextCall(c) \in ProgramCalls
  BY <1>1 DEF ProgramCalls, NextCall
<1>4. ASSUME results[c] = <<>> PROVE Lies(heap, Current(c))
  <2> DEFINE type == listed[c].type
             version == listed[c].version
             state == server[type][version]
  <2>1. Current(c) = ListOf(type, version)
    BY <1>4 DEF Current
  <2>2. type \in Types /\ version \in 0..Len(server[type])
    <3>1. PICK j \in 1..pc[c] : Program[c][j].op = "List"
      BY <1>1, ConsumersAssumption DEF NextCall
    <3>2. Program[c][j] \in ReturnedCalls(c)
      BY DEF ReturnedCalls
    <3> QED BY <3>1, <3>2 DEF HeapInv, ProgramInv, HasListed
  <2>3. CASE version = 0
    <3>1. Current(c) = [array |-> NilArray, len |-> 0]
      BY <2>1, <2>3 DEF ListOf, NilList
    <3>2. NilArray \in DOMAIN heap /\ Len(heap[NilArray]) \in Nat
      BY DEF HeapInv, ArraysInv, IsHeap
    <3> QED BY <3>1, <3>2 DEF Lies
  <2>4. CASE version # 0
    <3>1. version \in 1..Len(server[type]) /\ state \in States
      BY <2>2, <2>4 DEF ListInv
    <3>2. /\ <<type, version>> \in DOMAIN heap
          /\ heap[<<type, version>>] = Allocated(state.attributes, 1)
      BY <2>2, <3>1 DEF HeapInv, VersionsInv, Decoded
    <3>3. Len(state.attributes) \in 0..Len(Allocated(state.attributes, 1))
      BY <3>1, ConsumersAssumption, AllocatedFacts
    <3>4. ListOf(type, version) = [array |-> <<type, version>>, len |-> Len(state.attributes)]
      BY <2>4 DEF ListOf
    <3> HIDE DEF state, type, version
    <3>5. Current(c) = [array |-> <<type, version>>, len |-> Len(state.attributes)]
      BY <2>1, <3>4
    <3>6. Len(state.attributes) \in Nat
      BY <3>3
    <3>7. Len(state.attributes) <= Len(heap[<<type, version>>])
      <4>1. Len(state.attributes) \in 0..Len(heap[<<type, version>>])
        BY <3>2, <3>3, Zenon
      <4> QED BY <4>1
    <3> QED BY <3>2, <3>5, <3>6, <3>7 DEF Lies
  <2> QED BY <2>2, <2>3, <2>4
<1>5. ASSUME results[c] # <<>> PROVE Lies(heap, Current(c))
  <2>1. Current(c) = results[c][Len(results[c])].to
    BY <1>5 DEF Current
  <2>2. Len(results[c]) \in 1..Len(results[c])
    BY <1>5 DEF HeapInv, ResultsInv
  <2> QED BY <2>1, <2>2 DEF HeapInv, ResultsInv, IsResult
<1> QED BY <1>2, <1>3, <1>4, <1>5

\* A helper writes to the array it makes, which nobody had.
LEMMA CallHelperKeepsHeapInv ==
  ASSUME HeapInv, ListInv, pc \in [Callers -> Nat], CallersGoOn,
         NEW c \in Callers, CallHelper(c)
  PROVE  HeapInv'
<1> PICK call : call = NextCall(c)
  OBVIOUS
<1> PICK slice : slice = Current(c)
  OBVIOUS
<1> PICK new : new = <<c, pc[c] + 1>>
  OBVIOUS
<1> PICK returned : returned = Helper(call, slice, new)
  OBVIOUS
<1> PICK result : result = [call |-> call, from |-> slice, to |-> returned.list]
  OBVIOUS
<1>1. /\ heap' = returned.heap
      /\ results' = [results EXCEPT ![c] = Append(@, result)]
      /\ Returns(c) /\ UNCHANGED <<server, position, cached, handle, listed>>
  BY DEF CallHelper, serverVars, cacheVars
<1>2. PICK op \in Helpers : Calls(c, op)
  BY DEF CallHelper
<1>3. Lies(heap, slice) /\ IsHelperCall(call) /\ call \in ProgramCalls
  BY <1>2, CurrentLies
<1>4. call.op \notin {"InformerFor", "List"}
  BY <1>3 DEF IsHelperCall, Helpers
<1>5. IsHeap(heap)
  BY DEF HeapInv, ArraysInv
<1>6. /\ Leaves(heap, slice, new, returned)
      /\ Documented(call, Contents(heap, slice), ContentsOf(returned))
  BY <1>3, <1>5, HelperFacts
<1>7. new \notin DOMAIN heap
  BY CallIsNew DEF HeapInv
<1>8. HeapGrows /\ DOMAIN heap' \subseteq DOMAIN heap \cup {new}
  BY <1>1, <1>6, <1>7 DEF Leaves, HeapGrows
<1>9. pc'[c] = pc[c] + 1
  BY <1>1, ReturnFacts
<1>10. ServerGrows /\ server \in [Types -> Seq(States)] /\ server' = server
  BY <1>1 DEF ServerGrows, ListInv
<1>11. ArraysInv'
  <2>1. \A array \in DOMAIN heap : IsMade(array)'
    BY <1>10, MadeAgain DEF HeapInv, ArraysInv
  <2>2. IsMade(new)'
    <3>1. pc[c] + 1 \in 1..pc'[c]
      BY <1>9
    <3> QED BY <3>1 DEF IsMade
  <2>3. \A array \in DOMAIN heap' : IsMade(array)'
    BY <1>8, <2>1, <2>2
  <2> QED BY <1>8, <2>3 DEF ArraysInv, HeapInv, HeapGrows
<1>12. VersionsInv'
  BY <1>1, <1>8 DEF VersionsInv, HeapInv, HeapGrows
<1>13. DOMAIN heap' \subseteq Arrays
  <2>1. DOMAIN heap \subseteq Arrays
    BY <1>10, ArraysNamed DEF HeapInv
  <2>2. new \in Arrays
    BY DEF Arrays
  <2> QED BY <1>8, <2>1, <2>2
<1>14. IsResult(result)'
  <2>1. Lies(heap', slice) /\ Contents(heap', slice) = Contents(heap, slice)
    BY <1>3, <1>8, LiesAgain
  <2>2. Lies(heap', returned.list) /\ ContentsOf(returned) = Contents(heap', returned.list)
    BY <1>1, <1>6 DEF Leaves, ContentsOf
  <2>3. Documented(call, Contents(heap', slice), Contents(heap', returned.list))
    BY <1>6, <2>1, <2>2, Zenon
  <2> QED BY <2>1, <2>2, <2>3 DEF IsResult
<1>15. result \in Entries
  <2>1. slice \in Lists /\ returned.list \in Lists
    BY <1>3, <1>6, <1>8, <1>13, <1>1 DEF Lies, Leaves, Lists, HeapGrows
  <2> QED BY <1>3, <2>1 DEF Entries
<1>16. ResultsInv'
  <2>1. results \in [Callers -> Seq(Entries)]
    BY DEF HeapInv, ResultsInv
  <2>2. results' \in [Callers -> Seq(Entries)]
    BY <1>1, <1>15, <2>1
  <2>3. ASSUME NEW d \in Callers, NEW i \in 1..Len(results'[d])
        PROVE  IsResult(results[d][i])'
    <3> PICK was : was = results'[d][i]
      OBVIOUS
    <3>1. was = result \/ \E j \in 1..Len(results[d]) : was = results[d][j]
      BY <1>1, <2>1
    <3>2. ASSUME NEW j \in 1..Len(results[d]), was = results[d][j] PROVE IsResult(was)'
      <4>1. IsResult(was)
        BY <3>2 DEF HeapInv, ResultsInv
      <4> QED BY <1>8, <4>1, ResultAgain
    <3>3. IsResult(was)'
      BY <1>14, <3>1, <3>2
    <3> QED BY <3>3
  <2> QED BY <2>2, <2>3 DEF ResultsInv
<1>17. ProgramInv'
  BY <1>1, <1>4, <1>10, OtherCallKeepsProgramInv DEF HeapInv
<1> QED BY <1>11, <1>12, <1>16, <1>17 DEF HeapInv

\* A change of an object makes an array of its own, too.
LEMMA ChangeKeepsHeapInv ==
  ASSUME HeapInv, ListInv, ListInv', pc \in [Callers -> Nat], NEW type \in Types, Change(type)
  PROVE  HeapInv'
<1> PICK version : version = Len(server[type]) + 1
  OBVIOUS
<1> PICK new : new = <<type, version>>
  OBVIOUS
<1>1. PICK state \in States :
        /\ server' = [server EXCEPT ![type] = Append(@, state)]
        /\ heap' = Stored(heap, <<type, Len(server'[type])>>, Decoded(state))
  BY DEF Change
<1>2. UNCHANGED <<pc, position, cached, handle, listed, results>>
  BY DEF Change, factoryVars, cacheVars, callerVars
<1>3. server \in [Types -> Seq(States)] /\ server' \in [Types -> Seq(States)]
  BY DEF ListInv
<1>4. /\ \A t \in Types \ {type} : server'[t] = server[t]
      /\ Len(server'[type]) = version /\ version \in Nat
      /\ server'[type][version] = state
      /\ \A v \in 1..Len(server[type]) : server'[type][v] = server[type][v]
  BY <1>1, <1>3
<1>5. ServerGrows /\ CallersGoOn
  <2>1. CallersGoOn
    BY <1>2 DEF CallersGoOn
  <2>2. \A t \in Types : Len(server[t]) \in Nat
    BY <1>3
  <2>3. Len(server[type]) <= Len(server'[type])
    BY <1>4, <2>2
  <2> QED BY <1>4, <2>1, <2>2, <2>3 DEF ServerGrows
<1>6. heap' = Stored(heap, new, Decoded(state))
  BY <1>1, <1>4
<1>7. new \notin DOMAIN heap
  BY <1>3, VersionIsNew DEF HeapInv
<1>8. Decoded(state) \in Seq(AttributeInfo)
  BY ConsumersAssumption, AllocatedFacts DEF Decoded
<1>9. /\ DOMAIN heap' = DOMAIN heap \cup {new}
      /\ heap'[new] = Decoded(state)
      /\ \A array \in DOMAIN heap : heap'[array] = heap[array]
      /\ heap' = [array \in DOMAIN heap' |-> heap'[array]]
  BY <1>6, <1>7 DEF Stored
<1>10. HeapGrows
  <2>1. \A array \in DOMAIN heap : heap[array] \in Seq(AttributeInfo)
    BY DEF HeapInv, ArraysInv, IsHeap
  <2>2. IsHeap(heap')
    BY <1>8, <1>9, <2>1 DEF IsHeap
  <2> QED BY <1>9, <2>2 DEF HeapGrows
<1>11. ArraysInv'
  <2>1. \A array \in DOMAIN heap : IsMade(array)'
    BY <1>3, <1>5, MadeAgain DEF HeapInv, ArraysInv
  <2>2. IsMade(new)'
    <3>1. version \in 1..Len(server'[type])
      BY <1>4
    <3> QED BY <3>1 DEF IsMade
  <2>3. \A array \in DOMAIN heap' : IsMade(array)'
    BY <1>9, <2>1, <2>2
  <2> QED BY <1>10, <2>3 DEF ArraysInv, HeapInv, HeapGrows
<1>12. VersionsInv'
  <2>1. ASSUME NEW t \in Types, NEW v \in 1..Len(server'[t])
        PROVE  /\ <<t, v>> \in DOMAIN heap'
               /\ heap'[<<t, v>>] = Decoded(server'[t][v])
    <3>1. CASE v \in 1..Len(server[t])
      <4>1. <<t, v>> \in DOMAIN heap /\ heap[<<t, v>>] = Decoded(server[t][v])
        BY <3>1 DEF HeapInv, VersionsInv
      <4>2. server'[t][v] = server[t][v]
        BY <1>5, <3>1 DEF ServerGrows
      <4> QED BY <1>9, <4>1, <4>2
    <3>2. CASE v \notin 1..Len(server[t])
      <4>1. t = type /\ v = version
        BY <1>3, <1>4, <3>2
      <4> QED BY <1>4, <1>9, <4>1
    <3> QED BY <3>1, <3>2
  <2>2. \A informer \in Informers : cached'[informer] \in {0, position'[informer]}
    BY <1>2 DEF HeapInv, VersionsInv
  <2> QED BY <2>1, <2>2 DEF VersionsInv
<1>13. ResultsInv'
  <2>1. ASSUME NEW c \in Callers, NEW i \in 1..Len(results[c])
        PROVE  IsResult(results[c][i])'
    <3> PICK was : was = results[c][i]
      OBVIOUS
    <3>1. IsResult(was)
      BY DEF HeapInv, ResultsInv
    <3>2. IsResult(was)'
      BY <1>10, <3>1, ResultAgain
    <3> QED BY <1>2, <3>2
  <2> QED BY <1>2, <2>1 DEF HeapInv, ResultsInv
<1>14. ProgramInv'
  BY <1>2, <1>3, <1>5, OtherCallKeepsProgramInv DEF HeapInv
<1> QED BY <1>11, <1>12, <1>13, <1>14 DEF HeapInv

\* No step disturbs HeapInv.
LEMMA HeapStep == HeapInv /\ ListInv /\ ListInv' /\ ShutdownInv /\ [Next]_vars => HeapInv'
<1> SUFFICES ASSUME HeapInv, ListInv, ListInv', ShutdownInv, [Next]_vars PROVE HeapInv'
  OBVIOUS
<1> USE DEF serverVars, factoryVars, goroutineVars, cacheVars, callerVars, consumerVars
<1>0. pc \in [Callers -> Nat] /\ CallersGoOn
  BY NextGoesOn DEF ShutdownInv
<1>1. server \in [Types -> Seq(States)] /\ server' \in [Types -> Seq(States)]
  BY DEF ListInv
<1>2. VersionsInv /\ ProgramInv
  BY DEF HeapInv
<1>3. ASSUME NEW c \in Callers, FactoryCall(c), UNCHANGED consumerVars PROVE HeapInv'
  <2>1. UNCHANGED <<server, heap, results, listed, position, cached>>
    BY <1>3 DEF FactoryCall, InformerFor, Start, ShutDown, ShutdownReturns,
                WaitForCacheSync, Poll, WaitReturns, Receive
  <2>2. ServerGrows
    BY <1>1, <2>1 DEF ServerGrows
  <2>3. CASE InformerFor(c)
    <3>1. ProgramInv'
      BY <1>0, <1>2, <2>1, <2>3, InformerForKeepsProgramInv
    <3> QED BY <1>0, <1>2, <2>1, <3>1, ReadKeepsHeapInv DEF VersionsInv
  <2>4. CASE ~InformerFor(c)
    <3>1. /\ UNCHANGED handle
          /\ UNCHANGED pc \/ (Returns(c) /\ NextCall(c).op \notin {"InformerFor", "List"})
      BY <1>3, <2>4 DEF FactoryCall, Start, ShutDown, ShutdownReturns,
                        WaitForCacheSync, Poll, WaitReturns, Receive, Calls, Waits, Calling
    <3>2. ProgramInv'
      BY <1>0, <1>1, <1>2, <2>1, <2>2, <3>1, OtherCallKeepsProgramInv
    <3> QED BY <1>0, <1>2, <2>1, <3>2, ReadKeepsHeapInv DEF VersionsInv
  <2> QED BY <2>3, <2>4
<1>4. ASSUME InformerStep, UNCHANGED consumerVars PROVE HeapInv'
  <2> PICK i \in Informers : Run(i) \/ ListObjects(i) \/ WatchObjects(i) \/ End(i)
    BY <1>4 DEF InformerStep
  <2>1. UNCHANGED <<server, heap, results, listed, handle, pc>>
    BY <1>4 DEF Run, End, ListObjects, WatchObjects, Follow
  <2>2. ServerGrows
    BY <1>1, <2>1 DEF ServerGrows
  <2>3. ProgramInv'
    BY <1>0, <1>1, <1>2, <2>1, <2>2, OtherCallKeepsProgramInv
  <2>4. \A informer \in Informers : cached'[informer] \in {0, position'[informer]}
    <3>1. CASE Run(i) \/ End(i)
      BY <1>2, <3>1 DEF Run, End, VersionsInv
    <3>2. ASSUME NEW version, Follow(i, version)
          PROVE  \A informer \in Informers : cached'[informer] \in {0, position'[informer]}
      <4>1. View(TypeOf(i), version) \in {0, version}
        BY DEF View
      <4> QED BY <1>2, <3>2, <4>1 DEF Follow, VersionsInv, ListInv
    <3> QED BY <3>1, <3>2 DEF ListObjects, WatchObjects
  <2> QED BY <1>0, <2>1, <2>3, <2>4, ReadKeepsHeapInv
<1>5. ASSUME NEW c \in Callers, List(c) PROVE HeapInv'
  <2>1. UNCHANGED <<server, heap, results, position, cached>>
    BY <1>5 DEF List
  <2>2. ProgramInv'
    BY <1>0, <1>2, <1>5, ListKeepsProgramInv
  <2> QED BY <1>0, <1>2, <2>1, <2>2, ReadKeepsHeapInv DEF VersionsInv
<1>6. ASSUME NEW c \in Callers, CallHelper(c) PROVE HeapInv'
  BY <1>0, <1>6, CallHelperKeepsHeapInv
<1>7. ASSUME NEW type \in Types, Change(type) PROVE HeapInv'
  BY <1>0, <1>7, ChangeKeepsHeapInv
<1>8. ASSUME \/ Close /\ UNCHANGED consumerVars
             \/ UNCHANGED vars
      PROVE HeapInv'
  <2>1. UNCHANGED <<server, heap, results, listed, position, cached, handle, pc>>
    BY <1>8 DEF Close, vars, informerVars
  <2>2. ServerGrows
    BY <1>1, <2>1 DEF ServerGrows
  <2>3. ProgramInv'
    BY <1>0, <1>1, <1>2, <2>1, <2>2, OtherCallKeepsProgramInv
  <2> QED BY <1>0, <1>2, <2>1, <2>3, ReadKeepsHeapInv DEF VersionsInv
<1> QED BY <1>3, <1>4, <1>5, <1>6, <1>7, <1>8 DEF Next, FactoryStep

\* What an informer caches, and the helpers' results, are what they should be, whatever
\* the others did with the lists they share arrays with.
LEMMA HeapInvFacts ==
  ASSUME HeapInv, ListInv
  PROVE  CacheFaithful /\ ResultsAsDocumented
<1>1. CacheFaithful
  <2> SUFFICES ASSUME NEW informer \in Informers, position[informer] > 0
               PROVE  LET type == TypeOf(informer)
                          version == cached[informer]
                      IN  /\ version = View(type, position[informer])
                          /\ version > 0 => Contents(heap, ListOf(type, version))
                                              = server[type][version].attributes
    BY DEF CacheFaithful
  <2> DEFINE type == TypeOf(informer)
             version == cached[informer]
             state == server[type][version]
  <2>1. version = View(type, position[informer])
    BY DEF ListInv
  <2>2. ASSUME version > 0
        PROVE  Contents(heap, ListOf(type, version)) = state.attributes
    <3>1. type \in Types /\ version \in 1..Len(server[type])
      <4>1. /\ type \in Types /\ position[informer] \in Nat
            /\ position[informer] <= Len(server[type]) /\ Len(server[type]) \in Nat
        BY FirstInformersFacts DEF ListInv
      <4>2. version \in {0, position[informer]}
        BY DEF HeapInv, VersionsInv
      <4> QED BY <2>2, <4>1, <4>2
    <3>2. state.attributes \in Seq(AttributeInfo)
      <4>1. state \in States
        BY <3>1 DEF ListInv
      <4> QED BY <4>1, ConsumersAssumption
    <3>3. heap[<<type, version>>] = Allocated(state.attributes, 1)
      BY <3>1 DEF HeapInv, VersionsInv, Decoded
    <3>4. SubSeq(Allocated(state.attributes, 1), 1, Len(state.attributes)) = state.attributes
      BY <3>2, AllocatedFacts
    <3>5. ListOf(type, version) = [array |-> <<type, version>>, len |-> Len(state.attributes)]
      BY <3>1 DEF ListOf
    <3> HIDE DEF type, version, state
    <3> QED BY <3>3, <3>4, <3>5 DEF Contents
  <2> QED BY <2>1, <2>2
<1>2. ResultsAsDocumented
  BY DEF HeapInv, ResultsInv, IsResult, ResultsAsDocumented
<1> QED BY <1>1, <1>2

\* The cache of an informer keeps the object as the server had it, though consumers
\* insert, merge and delete in lists that share its arrays (attribute.go, the deep
\* copies of zz_generated.deepcopy.go).
THEOREM CacheFaithfulHolds == Spec => []CacheFaithful
<1>1. HeapInv /\ ListInv => CacheFaithful
  BY HeapInvFacts
<1> QED BY <1>1, HeapInit, HeapStep, ListInit, ListStep, ShutdownInit, ShutdownStep, PTL
        DEF Spec

\* Every result of Insert, Merge and DeleteAll is, and stays, what the function's comment
\* says of its argument, and every result of updateAttributes what Merge's comment says
\* with what is new named once, for lists of any length that name any attributes any
\* number of times, and any heap they lie in.
THEOREM ResultsAsDocumentedHolds == Spec => []ResultsAsDocumented
<1>1. HeapInv /\ ListInv => ResultsAsDocumented
  BY HeapInvFacts
<1> QED BY <1>1, HeapInit, HeapStep, ListInit, ListStep, ShutdownInit, ShutdownStep, PTL
        DEF Spec

-----------------------------------------------------------------------------
(* Types.                                                                  *)

\* What TypeOK needs besides: only the informer of a type is ever started, with a
\* channel of its caller's, and nobody goes on behind the end of his program.
StartInv ==
  /\ closed \subseteq Channels
  /\ stopCh \in [Informers -> Channels]
  /\ \A i \in Informers : goroutine[i] # "none" => i \in FirstInformers
  /\ \A c \in Callers : pc[c] <= Len(Program[c])

\* At first nothing is started.
LEMMA StartInit == Init => StartInv
<1> SUFFICES ASSUME Init PROVE StartInv
  OBVIOUS
<1> USE DEF Init, InformerInit
<1>1. stopCh \in [Informers -> Channels]
  <2>1. (CHOOSE channel \in Channels : TRUE) \in Channels
    BY ConsumersAssumption
  <2> QED BY <2>1
<1>2. \A c \in Callers : pc[c] <= Len(Program[c])
  <2>1. \A c \in Callers : Len(Program[c]) \in Nat
    BY FactoryAssumption
  <2>2. \A c \in Callers : pc[c] = 0
    OBVIOUS
  <2> QED BY <2>1, <2>2
<1>3. closed \subseteq Channels /\ \A i \in Informers : goroutine[i] = "none"
  OBVIOUS
<1> QED BY <1>1, <1>2, <1>3 DEF StartInv

\* A caller that goes on has a call to make.
LEMMA ProgramEnds ==
  ASSUME pc \in [Callers -> Nat], CallersGoOn, \A c \in Callers : pc[c] <= Len(Program[c])
  PROVE  \A c \in Callers : pc'[c] <= Len(Program[c])
<1>1. \A c \in Callers : Len(Program[c]) \in Nat
  BY FactoryAssumption
<1>2. ASSUME NEW c \in Callers, pc[c] < Len(Program[c]), Returns(c)
      PROVE  \A d \in Callers : pc'[d] <= Len(Program[d])
  <2>1. pc'[c] = pc[c] + 1 /\ \A d \in Callers \ {c} : pc'[d] = pc[d]
    BY <1>2, ReturnFacts
  <2>2. pc[c] + 1 <= Len(Program[c])
    BY <1>1, <1>2
  <2> QED BY <2>1, <2>2
<1> QED BY <1>2 DEF CallersGoOn

\* No step disturbs StartInv.
LEMMA StartStep == StartInv /\ ListInv /\ ShutdownInv /\ [Next]_vars => StartInv'
<1> SUFFICES ASSUME StartInv, ListInv, ShutdownInv, [Next]_vars PROVE StartInv'
  OBVIOUS
<1> USE DEF serverVars, factoryVars, goroutineVars, cacheVars, callerVars
<1>1. \A c \in Callers : pc'[c] <= Len(Program[c])
  BY NextGoesOn, ProgramEnds DEF ShutdownInv, StartInv
<1>2. CASE UNCHANGED <<closed, stopCh, goroutine>>
  BY <1>1, <1>2 DEF StartInv
<1>3. ASSUME NEW c \in Callers, Start(c) PROVE StartInv'
  <2>1. NextCall(c).op = "Start" /\ UNCHANGED closed /\ pc[c] < Len(Program[c])
    BY <1>3 DEF Start, Calls, Calling
  <2>2. NextCall(c).channel \in Channels
    <3>1. pc[c] \in Nat /\ Len(Program[c]) \in Nat
      BY FactoryAssumption DEF ShutdownInv
    <3>2. pc[c] + 1 \in 1..Len(Program[c])
      BY <2>1, <3>1
    <3> QED BY <2>1, <3>2, ConsumersAssumption DEF NextCall
  <2>3. CASE UNCHANGED <<started, goroutineVars>>
    BY <1>2, <2>1, <2>3
  <2>4. CASE Spawn(ToStart, NextCall(c).channel)
    <3> DEFINE new == {InMap(type) : type \in ToStart}
    <3>1. /\ goroutine' = [i \in Informers |-> IF i \in new THEN "spawned" ELSE goroutine[i]]
          /\ stopCh' = [i \in Informers |-> IF i \in new THEN NextCall(c).channel
                                                          ELSE stopCh[i]]
      BY <2>4 DEF Spawn
    <3>2. new \subseteq FirstInformers
      BY DEF ToStart, InMap, FirstInformers, ListInv
    <3> HIDE DEF new
    <3>3. stopCh' \in [Informers -> Channels]
      BY <2>2, <3>1 DEF StartInv
    <3>4. \A i \in Informers : goroutine'[i] # "none" => i \in FirstInformers
      BY <3>1, <3>2 DEF StartInv
    <3> QED BY <1>1, <2>1, <3>3, <3>4 DEF StartInv
  <2> QED BY <1>3, <2>3, <2>4 DEF Start
<1>4. ASSUME NEW c \in Callers, FactoryCall(c) PROVE StartInv'
  <2>1. CASE Start(c)
    BY <1>3, <2>1
  <2>2. CASE ~Start(c)
    BY <1>2, <1>4, <2>2 DEF FactoryCall, InformerFor, ShutDown, ShutdownReturns,
                            WaitForCacheSync, Poll, WaitReturns, Receive
  <2> QED BY <2>1, <2>2
<1>5. ASSUME InformerStep PROVE StartInv'
  <2> PICK i \in Informers : Run(i) \/ ListObjects(i) \/ WatchObjects(i) \/ End(i)
    BY <1>5 DEF InformerStep
  <2>1. CASE ListObjects(i) \/ WatchObjects(i)
    BY <1>2, <2>1 DEF ListObjects, WatchObjects, Follow
  <2>2. CASE Run(i) \/ End(i)
    <3>1. /\ UNCHANGED <<closed, stopCh>> /\ goroutine[i] # "none"
          /\ \A j \in Informers \ {i} : goroutine'[j] = goroutine[j]
      BY <2>2 DEF Run, End, ShutdownInv
    <3> QED BY <1>1, <3>1 DEF StartInv
  <2> QED BY <2>1, <2>2
<1>6. ASSUME NEW c \in Callers, List(c) \/ CallHelper(c) PROVE StartInv'
  BY <1>2, <1>6 DEF List, CallHelper
<1>7. ASSUME Close PROVE StartInv'
  BY <1>1, <1>7 DEF Close, StartInv
<1>8. ASSUME NEW type \in Types, Change(type) PROVE StartInv'
  BY <1>2, <1>8 DEF Change
<1>9. ASSUME UNCHANGED vars PROVE StartInv'
  BY <1>2, <1>9 DEF vars, informerVars
<1> QED BY <1>4, <1>5, <1>6, <1>7, <1>8, <1>9 DEF Next, FactoryStep

\* The counter of the wait group is at most the number of types that are started.
LEMMA CounterBounded ==
  ASSUME ShutdownInv, ListInv, StartInv
  PROVE  wg \in 0..Cardinality(started)
<1> DEFINE first == {InMap(type) : type \in started}
<1>1. AliveInformers \subseteq first
  <2> SUFFICES ASSUME NEW i \in AliveInformers PROVE i \in first
    OBVIOUS
  <2>1. i \in Informers /\ goroutine[i] # "none"
    BY DEF AliveInformers, Alive
  <2>2. i \in FirstInformers /\ TypeOf(i) \in started
    BY <2>1 DEF StartInv, ShutdownInv
  <2>3. i = InMap(TypeOf(i))
    BY <2>2, FirstInformersFacts DEF ListInv, InMap
  <2> QED BY <2>2, <2>3
<1>2. IsFiniteSet(first) /\ Cardinality(first) = Cardinality(started)
  BY OnePerType DEF ShutdownInv
<1> HIDE DEF first
<1>3. Cardinality(AliveInformers) \in Nat /\ Cardinality(started) \in Nat
      /\ Cardinality(AliveInformers) <= Cardinality(first)
  BY <1>1, <1>2, AliveFinite, FS_Subset, FS_CardinalityType
<1> QED BY <1>2, <1>3 DEF ShutdownInv

\* A list that lies in the heap is one of Slices.
LEMMA LiesInSlices ==
  ASSUME ArraysInv, NEW slice, Lies(heap, slice)
  PROVE  slice \in Slices
<1>1. /\ slice \in [array : DOMAIN heap, len : Nat]
      /\ slice.array \in DOMAIN heap /\ slice.len \in Nat
      /\ slice.len <= Len(heap[slice.array])
  BY DEF Lies
<1>2. Len(heap[slice.array]) \in Nat
  BY <1>1 DEF ArraysInv, IsHeap
<1>3. slice.len \in 0..Len(heap[slice.array])
  BY <1>1, <1>2
<1>4. slice \in [array : {slice.array}, len : 0..Len(heap[slice.array])]
  BY <1>1, <1>3
<1> QED BY <1>1, <1>4 DEF Slices

\* Every variable has its type, the wait group's counter never passes the number of
\* started types, and every list a helper took or returned lies in its array
\* (factory.go, attribute.go).
THEOREM TypeOKHolds == Spec => []TypeOK
<1>1. ShutdownInv /\ ListInv /\ HeapInv /\ StartInv => TypeOK
  <2> SUFFICES ASSUME ShutdownInv, ListInv, HeapInv, StartInv PROVE TypeOK
    OBVIOUS
  <2>1. /\ server \in [Types -> Seq(States)] /\ closed \subseteq Channels
        /\ started \subseteq {type \in Types : informers[type] # 0}
        /\ shuttingDown \in BOOLEAN
        /\ goroutine \in [Informers -> {"none", "spawned", "running", "ended"}]
        /\ stopCh \in [Informers -> Channels] /\ blocked \in [Callers -> BOOLEAN]
    BY DEF ShutdownInv, ListInv, StartInv
  <2>2. wg \in 0..Cardinality(started)
    BY CounterBounded
  <2>3. \A i \in Informers : /\ position[i] \in 0..Len(server[TypeOf(i)])
                             /\ cached[i] \in {0, position[i]}
    <3>1. \A i \in Informers : /\ position[i] \in Nat /\ Len(server[TypeOf(i)]) \in Nat
                               /\ position[i] <= Len(server[TypeOf(i)])
      BY FirstInformersFacts DEF ListInv
    <3>2. \A i \in Informers : position[i] \in 0..Len(server[TypeOf(i)])
      BY <3>1
    <3> QED BY <3>2 DEF HeapInv, VersionsInv
  <2>4. ASSUME NEW c \in Callers
        PROVE  /\ pc[c] \in 0..Len(Program[c])
               /\ pending[c] \subseteq Informers
               /\ synced[c] \subseteq Types
               /\ handle[c] \in Informers \cup {NoInformer}
    <3>1. pc[c] \in Nat /\ Len(Program[c]) \in Nat /\ pc[c] <= Len(Program[c])
      BY FactoryAssumption DEF ShutdownInv, StartInv
    <3>2. pc[c] \in 0..Len(Program[c])
      BY <3>1
    <3> QED BY <3>2, FirstInformersFacts DEF ListInv
  <2>5. ASSUME NEW c \in Callers, NEW i \in DOMAIN results[c]
        PROVE  {results[c][i].from, results[c][i].to} \subseteq Slices
    <3>1. i \in 1..Len(results[c])
      BY DEF HeapInv, ResultsInv
    <3>2. Lies(heap, results[c][i].from) /\ Lies(heap, results[c][i].to)
      BY <3>1 DEF HeapInv, ResultsInv, IsResult
    <3> QED BY <3>2, LiesInSlices DEF HeapInv
  <2> QED BY <2>1, <2>2, <2>3, <2>4, <2>5 DEF TypeOK
<1> QED BY <1>1, StartInit, StartStep, HeapInit, HeapStep, ListInit, ListStep, ShutdownInit,
           ShutdownStep, PTL DEF Spec

=============================================================================
