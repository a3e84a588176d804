-------------------------- MODULE InformerFactory --------------------------
(***************************************************************************)
(* sharedInformerFactory and the listers on its informers' caches, called  *)
(* by goroutines of a client of this API: InformerFor, Start,              *)
(* WaitForCacheSync, Shutdown, List.                                       *)
(*                                                                         *)
(* The factory's lock is held for one step.  SharedIndexInformer is        *)
(* client-go's: it lists the objects, then follows the watch, and drops    *)
(* back to a list when the watch breaks, until its stop channel closes.    *)
(* There is one object of each type; a version of it is its position in    *)
(* the sequence of states it went through.                                 *)
(***************************************************************************)
EXTENDS Integers, Sequences, FiniteSets

CONSTANTS
  Types,      \* types of objects
  Callers,    \* goroutines that use the factory
  Program,    \* caller -> sequence of calls it makes, records with an `op`
  Channels,   \* stop channels
  States,     \* states of an object
  Initial,    \* those it may be in when the program begins
  Absent,     \* the state in which there is none
  Selected,   \* the states tweakListOptions lets through
  MaxChanges  \* type -> bound: changes of its object

ASSUME FactoryAssumption ==
  /\ IsFiniteSet(Types) /\ "" \notin Types
  /\ Initial \subseteq States
  /\ \A c \in Callers : Len(Program[c]) \in Nat
  /\ \A c \in Callers : \A i \in 1..Len(Program[c]) :
       Program[c][i].op = "InformerFor" => Program[c][i].type \in Types

VARIABLES
  server,       \* type -> the states its object went through
  closed,       \* the stop channels that are closed
  informers,    \* type -> number of the informer in the map, 0 if there is none
  started,      \* the types of startedInformers
  shuttingDown,
  wg,           \* the wait group's counter
  goroutine,    \* informer -> "none", "spawned", "running" or "ended"
  stopCh,       \* informer -> the channel its goroutine was started with
  position,     \* informer -> the version it has followed the server to
  cached,       \* informer -> the version in its cache, 0 if none
  pc,           \* caller -> calls it has returned from
  blocked,      \* caller -> whether a call of it waits
  pending,      \* caller -> informers its WaitForCacheSync has yet to wait for
  synced,       \* caller -> types for which WaitForCacheSync returned true
  handle        \* caller -> the informer it got last, or NoInformer

serverVars == <<server, closed>>
factoryVars == <<informers, started, shuttingDown>>
goroutineVars == <<wg, goroutine, stopCh>>
cacheVars == <<position, cached>>
callerVars == <<pc, blocked, pending, synced, handle>>
informerVars == <<serverVars, factoryVars, goroutineVars, cacheVars, callerVars>>

\* An informer is named by its type and a number.
Informers == Types \X (1..2)
NoInformer == <<"", 0>>
InMap(type) == <<type, informers[type]>>
TypeOf(informer) == informer[1]

InformerInit ==
  /\ server \in [Types -> {<<state>> : state \in Initial}]
  /\ closed = {}
  /\ informers = [type \in Types |-> 0]
  /\ started = {}
  /\ shuttingDown = FALSE
  /\ wg = 0
  /\ goroutine = [informer \in Informers |-> "none"]
  /\ stopCh = [informer \in Informers |-> CHOOSE channel \in Channels : TRUE]
  /\ position = [informer \in Informers |-> 0]
  /\ cached = [informer \in Informers |-> 0]
  /\ pc = [c \in Callers |-> 0]
  /\ blocked = [c \in Callers |-> FALSE]
  /\ pending = [c \in Callers |-> {}]
  /\ synced = [c \in Callers |-> {}]
  /\ handle = [c \in Callers |-> NoInformer]

-----------------------------------------------------------------------------
(* Calls.                                                                  *)

NextCall(c) == Program[c][pc[c] + 1]

Calling(c, op) == pc[c] < Len(Program[c]) /\ NextCall(c).op = op

Calls(c, op) == Calling(c, op) /\ ~blocked[c]
Waits(c, op) == Calling(c, op) /\ blocked[c]

Returns(c) == pc' = [pc EXCEPT ![c] = @ + 1]

\* Fault: an informer is made whether or not the map has one.
InformerForAnew(c) ==
  /\ Calls(c, "InformerFor")
  /\ LET type == NextCall(c).type
     IN  /\ informers' = [informers EXCEPT ![type] = IF @ = 0 THEN 1 ELSE 2]
         /\ handle' = [handle EXCEPT ![c] = <<type, informers'[type]>>]
  /\ Returns(c)
  /\ UNCHANGED <<serverVars, started, shuttingDown, goroutineVars, cacheVars,
                 blocked, pending, synced>>

\* The informer of a type is made by the first call; Informer and Lister of a
\* typed informer call this.
InformerFor(c) ==
  /\ Calls(c, "InformerFor")
  /\ LET type == NextCall(c).type
     IN  /\ informers' = [informers EXCEPT ![type] = IF @ = 0 THEN 1 ELSE @]
         /\ handle' = [handle EXCEPT ![c] = <<type, informers'[type]>>]
  /\ Returns(c)
  /\ UNCHANGED <<serverVars, started, shuttingDown, goroutineVars, cacheVars,
                 blocked, pending, synced>>

\* The types Start starts: those with an informer that was not started.
ToStart == {type \in Types : informers[type] # 0} \ started

\* Fault: the wait group counts every informer, also one that was started before.
SpawnCountingAll(types, channel) ==
  LET new == {InMap(type) : type \in types}
  IN  /\ started' = started \cup types
      /\ wg' = wg + Cardinality({type \in Types : informers[type] # 0})
      /\ goroutine' = [i \in Informers |-> IF i \in new THEN "spawned" ELSE goroutine[i]]
      /\ stopCh' = [i \in Informers |-> IF i \in new THEN channel ELSE stopCh[i]]

Spawn(types, channel) ==
  LET new == {InMap(type) : type \in types}
  IN  /\ started' = started \cup types
      /\ wg' = wg + Cardinality(types)
      /\ goroutine' = [i \in Informers |-> IF i \in new THEN "spawned" ELSE goroutine[i]]
      /\ stopCh' = [i \in Informers |-> IF i \in new THEN channel ELSE stopCh[i]]

\* Fault: a factory that is shutting down still starts informers.
StartAlways(c) ==
  /\ Calls(c, "Start")
  /\ Spawn(ToStart, NextCall(c).channel)
  /\ Returns(c)
  /\ UNCHANGED <<serverVars, informers, shuttingDown, cacheVars, blocked, pending,
                 synced, handle>>

Start(c) ==
  /\ Calls(c, "Start")
  /\ IF shuttingDown THEN UNCHANGED <<started, goroutineVars>>
                     ELSE Spawn(ToStart, NextCall(c).channel)
  /\ Returns(c)
  /\ UNCHANGED <<serverVars, informers, shuttingDown, cacheVars, blocked, pending,
                 synced, handle>>

\* Shutdown up to its wait.
ShutDown(c) ==
  /\ Calls(c, "Shutdown")
  /\ shuttingDown' = TRUE
  /\ blocked' = [blocked EXCEPT ![c] = TRUE]
  /\ UNCHANGED <<serverVars, informers, started, goroutineVars, cacheVars, pc, pending,
                 synced, handle>>

\* wg.Wait returns.
ShutdownReturns(c) ==
  /\ Waits(c, "Shutdown")
  /\ wg = 0
  /\ blocked' = [blocked EXCEPT ![c] = FALSE]
  /\ Returns(c)
  /\ UNCHANGED <<serverVars, factoryVars, goroutineVars, cacheVars, pending, synced,
                 handle>>

\* Fault: informers that were not started are waited for, too.
WaitForAll(c) ==
  /\ Calls(c, "WaitForCacheSync")
  /\ pending' = [pending EXCEPT ![c] = {InMap(t) : t \in {u \in Types : informers[u] # 0}}]
  /\ synced' = [synced EXCEPT ![c] = {}]
  /\ blocked' = [blocked EXCEPT ![c] = TRUE]
  /\ UNCHANGED <<serverVars, factoryVars, goroutineVars, cacheVars, pc, handle>>

\* WaitForCacheSync notes, under the lock, which informers are started.
WaitForCacheSync(c) ==
  /\ Calls(c, "WaitForCacheSync")
  /\ pending' = [pending EXCEPT ![c] = {InMap(type) : type \in started}]
  /\ synced' = [synced EXCEPT ![c] = {}]
  /\ blocked' = [blocked EXCEPT ![c] = TRUE]
  /\ UNCHANGED <<serverVars, factoryVars, goroutineVars, cacheVars, pc, handle>>

\* Fault: the wait of one informer ends whether or not it has synced.
PollOnce(c) ==
  /\ Waits(c, "WaitForCacheSync")
  /\ \E informer \in pending[c] :
       /\ pending' = [pending EXCEPT ![c] = @ \ {informer}]
       /\ synced' = [synced EXCEPT ![c] = @ \cup {TypeOf(informer)}]
  /\ UNCHANGED <<serverVars, factoryVars, goroutineVars, cacheVars, pc, blocked, handle>>

\* cache.WaitForCacheSync of one informer ends: it has synced, or, if that was not
\* seen before, the channel of the call is closed.
Poll(c) ==
  /\ Waits(c, "WaitForCacheSync")
  /\ \E informer \in pending[c] :
       /\ pending' = [pending EXCEPT ![c] = @ \ {informer}]
       /\ \/ /\ position[informer] > 0
             /\ synced' = [synced EXCEPT ![c] = @ \cup {TypeOf(informer)}]
          \/ /\ NextCall(c).channel \in closed
             /\ UNCHANGED synced
  /\ UNCHANGED <<serverVars, factoryVars, goroutineVars, cacheVars, pc, blocked, handle>>

WaitReturns(c) ==
  /\ Waits(c, "WaitForCacheSync")
  /\ pending[c] = {}
  /\ blocked' = [blocked EXCEPT ![c] = FALSE]
  /\ Returns(c)
  /\ UNCHANGED <<serverVars, factoryVars, goroutineVars, cacheVars, pending, synced,
                 handle>>

\* <-stopCh
Receive(c) ==
  /\ Calls(c, "Receive")
  /\ NextCall(c).channel \in closed
  /\ Returns(c)
  /\ UNCHANGED <<serverVars, factoryVars, goroutineVars, cacheVars, blocked, pending,
                 synced, handle>>

FactoryCall(c) ==
  \/ InformerFor(c) \/ Start(c)
  \/ ShutDown(c) \/ ShutdownReturns(c)
  \/ WaitForCacheSync(c) \/ Poll(c) \/ WaitReturns(c)
  \/ Receive(c)

-----------------------------------------------------------------------------
(* The goroutines Start spawns: informer.Run(stopCh), then wg.Done().      *)

\* The version an informer caches when it has followed the server to `version`:
\* list and watch are given the same options.
View(type, version) == IF server[type][version] \in Selected THEN version ELSE 0

Run(informer) ==
  /\ goroutine[informer] = "spawned"
  /\ goroutine' = [goroutine EXCEPT ![informer] = "running"]
  /\ UNCHANGED <<serverVars, factoryVars, wg, stopCh, cacheVars, callerVars>>

Follow(informer, version) ==
  /\ goroutine[informer] = "running"
  /\ position' = [position EXCEPT ![informer] = version]
  /\ cached' = [cached EXCEPT ![informer] = View(TypeOf(informer), version)]
  /\ UNCHANGED <<serverVars, factoryVars, goroutineVars, callerVars>>

\* The first list, or another after the watch broke.
ListObjects(informer) == Follow(informer, Len(server[TypeOf(informer)]))

\* Fault: the watch is not given the options of the list.
WatchEverything(informer) ==
  /\ goroutine[informer] = "running"
  /\ position[informer] \in 1..(Len(server[TypeOf(informer)]) - 1)
  /\ position' = [position EXCEPT ![informer] = @ + 1]
  /\ cached' = [cached EXCEPT ![informer] =
                  IF server[TypeOf(informer)][position'[informer]] = Absent
                    THEN 0 ELSE position'[informer]]
  /\ UNCHANGED <<serverVars, factoryVars, goroutineVars, callerVars>>

\* An event of the watch.
WatchObjects(informer) ==
  /\ position[informer] \in 1..(Len(server[TypeOf(informer)]) - 1)
  /\ Follow(informer, position[informer] + 1)

End(informer) ==
  /\ goroutine[informer] = "running"
  /\ stopCh[informer] \in closed
  /\ goroutine' = [goroutine EXCEPT ![informer] = "ended"]
  /\ wg' = wg - 1
  /\ UNCHANGED <<serverVars, factoryVars, stopCh, cacheVars, callerVars>>

InformerStep ==
  \E informer \in Informers :
    Run(informer) \/ ListObjects(informer) \/ WatchObjects(informer) \/ End(informer)

-----------------------------------------------------------------------------
(* Who owns a stop channel, and the API server.                            *)

Close ==
  /\ \E channel \in Channels \ closed : closed' = closed \cup {channel}
  /\ UNCHANGED <<server, factoryVars, goroutineVars, cacheVars, callerVars>>

=============================================================================
