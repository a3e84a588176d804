----------------------------- MODULE Consumers -----------------------------
(***************************************************************************)
(* Goroutines that use the objects of this API through shared informers:   *)
(* they call the factory (InformerFactory), list from an informer's cache, *)
(* and apply the attribute helpers (AttributeList) to the lists they got,  *)
(* which share their arrays with the cache.                                *)
(*                                                                         *)
(* A state of an object is a record with its `attributes`.  The array of   *)
(* version v of an object of type t is named <<t, v>>, one made by the     *)
(* n-th call of caller c <<c, n>>.                                         *)
(***************************************************************************)
EXTENDS InformerFactory, AttributeList

Helpers == {"Insert", "Merge", "DeleteAll", "UpdateAttributes"}

ASSUME ConsumersAssumption ==
  /\ Channels # {}
  /\ \A state \in States : state.attributes \in Seq(AttributeInfo)
  \* Arrays are told apart by their names.
  /\ Types \cap Callers = {} /\ "nil" \notin Types \cup Callers
  /\ \A c \in Callers : \A i \in 1..Len(Program[c]) :
       LET call == Program[c][i]
       IN  /\ call.op = "Start" => call.channel \in Channels
           /\ call.op = "Insert" => call.attr \in AttributeInfo
           /\ call.op \in {"Merge", "UpdateAttributes"} => call.updated \in Seq(AttributeInfo)
           \* A lister is that of an informer, and a helper works on a list.
           /\ call.op = "List" => \E j \in 1..(i - 1) : Program[c][j].op = "InformerFor"
           /\ call.op \in Helpers => \E j \in 1..(i - 1) : Program[c][j].op = "List"

VARIABLES
  heap,    \* arrays
  listed,  \* caller -> what its last List saw
  results  \* caller -> its calls of helpers, with their argument and result

consumerVars == <<heap, listed, results>>
vars == <<informerVars, consumerVars>>

NilArray == <<"nil", 0>>
NilList == [array |-> NilArray, len |-> 0]

\* The decoder gives the list of an object an array with room for one more.
Decoded(state) == Allocated(state.attributes, 1)

\* The attribute list of a version of an object; nil if there is none.
ListOf(type, version) ==
  IF version = 0
    THEN NilList
    ELSE [array |-> <<type, version>>, len |-> Len(server[type][version].attributes)]

\* The list a caller works on: the last result, or what it listed.
Current(c) ==
  IF results[c] = <<>> THEN ListOf(listed[c].type, listed[c].version)
                       ELSE results[c][Len(results[c])].to

NothingListed == [type |-> "", version |-> 0, synced |-> FALSE]

Init ==
  /\ InformerInit
  /\ heap = Stored([array \in {<<type, 1>> : type \in Types} |-> Decoded(server[array[1]][1])],
                   NilArray, <<>>)
  /\ listed = [c \in Callers |-> NothingListed]
  /\ results = [c \in Callers |-> <<>>]

\* What main does with the factory; Lister asks for the informer again.
Main(type, channel) ==
  <<[op |-> "InformerFor", type |-> type],
    [op |-> "Start", channel |-> channel],
    [op |-> "WaitForCacheSync", channel |-> channel],
    [op |-> "InformerFor", type |-> type],
    [op |-> "List"],
    [op |-> "Receive", channel |-> channel]>>

-----------------------------------------------------------------------------

\* List, or Get of the one object, from the cache of the caller's informer.
List(c) ==
  /\ Calls(c, "List")
  /\ listed' = [listed EXCEPT ![c] =
                  [type |-> TypeOf(handle[c]), version |-> cached[handle[c]],
                   synced |-> TypeOf(handle[c]) \in synced[c]]]
  /\ Returns(c)
  /\ UNCHANGED <<serverVars, factoryVars, goroutineVars, cacheVars, blocked, pending,
                 synced, handle, heap, results>>

\* The heap and the list that a call of a helper leaves.
Helper(call, slice, new) ==
  CASE call.op = "Insert" -> Insert(heap, slice, call.attr, new)
    [] call.op = "Merge" -> Merge(heap, slice, call.updated, new)
    [] call.op = "DeleteAll" -> DeleteAll(heap, slice, call.name, new)
    [] call.op = "UpdateAttributes" -> UpdateAttributes(heap, slice, call.updated, new)

CallHelper(c) ==
  /\ \E op \in Helpers : Calls(c, op)
  /\ LET returned == Helper(NextCall(c), Current(c), <<c, pc[c] + 1>>)
     IN  /\ heap' = returned.heap
         /\ results' = [results EXCEPT ![c] =
                          Append(@, [call |-> NextCall(c), from |-> Current(c),
                                     to |-> returned.list])]
  /\ Returns(c)
  /\ UNCHANGED <<serverVars, factoryVars, goroutineVars, cacheVars, blocked, pending,
                 synced, handle, listed>>

\* Somebody changes an object of that type.
Change(type) ==
  /\ Len(server[type]) <= MaxChanges[type]
  /\ \E state \in States \ {server[type][Len(server[type])]} :
       /\ server' = [server EXCEPT ![type] = Append(@, state)]
       /\ heap' = Stored(heap, <<type, Len(server'[type])>>, Decoded(state))
  /\ UNCHANGED <<closed, factoryVars, goroutineVars, cacheVars, callerVars, listed, results>>

FactoryStep == ((\E c \in Callers : FactoryCall(c)) \/ InformerStep) /\ UNCHANGED consumerVars

Next ==
  \/ FactoryStep
  \/ \E c \in Callers : List(c) \/ CallHelper(c)
  \/ Close /\ UNCHANGED consumerVars
  \/ \E type \in Types : Change(type)

\* While a goroutine inside the factory can run, one does, and the API server answers
\* a list. That is enough, for they have finitely many steps to take. Nothing is
\* assumed of what callers do between their calls, of channels, or of objects.
Fairness == WF_vars(FactoryStep)

Spec == Init /\ [][Next]_vars /\ Fairness

-----------------------------------------------------------------------------
(* Properties.                                                             *)

Slices == UNION {[array : {array}, len : 0..Len(heap[array])] : array \in DOMAIN heap}

\* Every variable has its type, and every list lies in its array (the factory
\* of generated/informers and the slices its consumers hold).
TypeOK ==
  /\ server \in [Types -> Seq(States)]
  /\ closed \subseteq Channels
  /\ started \subseteq {type \in Types : informers[type] # 0}
  /\ shuttingDown \in BOOLEAN
  /\ wg \in 0..Cardinality(started)
  /\ goroutine \in [Informers -> {"none", "spawned", "running", "ended"}]
  /\ stopCh \in [Informers -> Channels]
  /\ \A i \in Informers : /\ position[i] \in 0..Len(server[TypeOf(i)])
                          /\ cached[i] \in {0, position[i]}
  /\ blocked \in [Callers -> BOOLEAN]
  /\ \A c \in Callers :
       /\ pc[c] \in 0..Len(Program[c])
       /\ pending[c] \subseteq Informers
       /\ synced[c] \subseteq Types
       /\ handle[c] \in Informers \cup {NoInformer}
       /\ \A i \in DOMAIN results[c] :
            {results[c][i].from, results[c][i].to} \subseteq Slices

\* Calls a caller has returned from.
ReturnedCalls(c) == {Program[c][i] : i \in 1..pc[c]}

Alive(informer) == goroutine[informer] \in {"spawned", "running"}

\* After a Shutdown has returned, to whomever, no goroutine of the factory is
\* alive again, though others go on calling Start
\* ("Shutdown blocks until all goroutines have terminated", factory.go:226).
ShutdownWaits ==
  (\E c \in Callers : \E call \in ReturnedCalls(c) : call.op = "Shutdown")
    => \A informer \in Informers : ~Alive(informer)

\* A List after a WaitForCacheSync that returned true for the type saw the object
\* as the server had it at one moment, through the list options, whoever made
\* and started the informer.
ListedFromServer ==
  \A c \in Callers :
    listed[c].synced =>
      \E version \in 1..Len(server[listed[c].type]) :
        listed[c].version = View(listed[c].type, version)

\* The cache of an informer shows the object as the server had it when the watch was
\* there, and no consumer that works on the list it got has changed it ("must be
\* treated as read-only", listers/topology/v1alpha1/noderesourcetopology.go:28).
CacheFaithful ==
  \A informer \in Informers :
    position[informer] > 0 =>
      LET type == TypeOf(informer)
          version == cached[informer]
      IN  /\ version = View(type, position[informer])
          /\ version > 0 => Contents(heap, ListOf(type, version))
                              = server[type][version].attributes

\* What the comment of a helper says of its argument and its result.  The updater's
\* own updateAttributes has no comment: it is held to that of Merge, with what is new
\* named once.
Documented(call, before, after) ==
  LET unknown(updated) == NamesOf(Without(updated, Names(before)))
  IN  CASE call.op = "Insert" ->
             IF Nameless(call.attr)
               THEN after = before
               ELSE Joined(before, <<call.attr>>, after, unknown(<<call.attr>>))
        [] call.op = "Merge" ->
             Joined(before, call.updated, after, unknown(call.updated))
        [] call.op = "DeleteAll" -> Deleted(before, call.name, after)
        [] call.op = "UpdateAttributes" ->
             Joined(before, call.updated, after, Distinct(unknown(call.updated)))

\* Whatever its caller and the others did since, with lists that share arrays,
\* every result of a helper is what the helper's comment says of its argument
\* (attribute.go:36-40, 54-56, 70-72), for lists that name an attribute twice too,
\* and one of updateAttributes (topology-updater.go:336-340) what Merge's says.
ResultsAsDocumented ==
  \A c \in Callers : \A i \in DOMAIN results[c] :
    LET result == results[c][i]
    IN  Documented(result.call, Contents(heap, result.from), Contents(heap, result.to))

\* Every Shutdown, of several at a time too, returns once the channels are closed
\* that the goroutines were started with (factory.go:226-231).
ShutdownCompletes ==
  (/\ \E c \in Callers : Waits(c, "Shutdown")
   /\ \A informer \in Informers : Alive(informer) => stopCh[informer] \in closed)
    ~> \A c \in Callers : ~Waits(c, "Shutdown")

\* An informer the caller waits for will never sync, and the caller's own channel,
\* which would end the wait, is open.
WaitsInVain(c) ==
  /\ NextCall(c).channel \notin closed
  /\ \E informer \in pending[c] : position[informer] = 0 /\ stopCh[informer] \in closed

\* Every WaitForCacheSync returns though informers were made that nobody started, or
\* cannot start any more, though others shut the factory down, and though any channels
\* close.  Only one thing keeps it: an informer that was stopped, by a channel that is
\* not the caller's, before it synced.
WaitCompletes ==
  (\E c \in Callers : Waits(c, "WaitForCacheSync") /\ ~WaitsInVain(c))
    ~> \A c \in Callers : Waits(c, "WaitForCacheSync") => WaitsInVain(c)

=============================================================================
