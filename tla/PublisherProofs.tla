-------------------------- MODULE PublisherProofs --------------------------
(***************************************************************************)
(* Proofs about Publisher, for any set of updater processes and any bound. *)
(***************************************************************************)
EXTENDS Publisher, TLAPS

\* The policy derived from a configuration is one the API defines.
LEMMA DetectType ==
  ASSUME NEW policy, NEW scope
  PROVE  DetectTopologyPolicy(policy, scope) \in PolicyNames
BY DEF DetectTopologyPolicy, DetectPolicyPodScope, DetectPolicyContainerScope,
       PolicyNames

\* updateNRTTopologyManagerInfo replaces the two attributes and the policy
\* derived from them, and nothing else.
LEMMA ConfigureFacts ==
  ASSUME NEW object \in Objects, NEW config \in KubeletConfigs,
         NEW result, result = UpdateNRTTopologyManagerInfo(object, config)
  PROVE  /\ result \in Objects
         /\ result.resourceVersion = object.resourceVersion
         /\ result.zones = object.zones
         /\ result.attributes.foreign = object.attributes.foreign
         /\ result.attributes.podFingerprint = object.attributes.podFingerprint
         /\ PolicyMatchesAttributes(result)
<1> DEFINE attributes == UpdateAttributes(object.attributes,
                                          CreateTopologyAttributes(config))
<1>1. /\ config.policy \in STRING /\ config.policy # Absent
      /\ config.scope \in STRING /\ config.scope # Absent
  BY NRTAssumption
<1>2. attributes = [topologyManagerPolicy |-> config.policy,
                    topologyManagerScope |-> config.scope,
                    podFingerprint |-> object.attributes.podFingerprint,
                    foreign |-> object.attributes.foreign]
  BY <1>1 DEF UpdateAttributes, UpdateAttribute, CreateTopologyAttributes,
              NoAttributes
<1>3. attributes \in Attributes
  BY <1>1, <1>2 DEF Attributes, Objects
<1>4. result = [object EXCEPT
                  !.attributes = attributes,
                  !.topologyPolicies =
                     DetectTopologyPolicy(config.policy, config.scope)]
  BY DEF UpdateNRTTopologyManagerInfo
<1>5. DetectTopologyPolicy(config.policy, config.scope) \in PolicyNames
  BY DetectType
<1> HIDE DEF attributes
<1>6. result \in Objects
  BY <1>3, <1>4, <1>5 DEF Objects
<1>7. /\ result.resourceVersion = object.resourceVersion
      /\ result.zones = object.zones
      /\ result.attributes = attributes
      /\ result.topologyPolicies =
           DetectTopologyPolicy(config.policy, config.scope)
  BY <1>4 DEF Objects
<1>8. PolicyMatchesAttributes(result)
  BY <1>1, <1>2, <1>7 DEF PolicyMatchesAttributes
<1> QED BY <1>2, <1>6, <1>7, <1>8

\* Merging a scan's attributes in touches the fingerprint only, and leaves it
\* alone when the scan has none.
LEMMA MergeFacts ==
  ASSUME NEW object \in Objects,
         NEW fingerprint \in Versions \cup {Absent},
         NEW result, result = MergeScan(object, fingerprint)
  PROVE  /\ result \in Objects
         /\ result.resourceVersion = object.resourceVersion
         /\ result.zones = object.zones
         /\ result.attributes.foreign = object.attributes.foreign
         /\ result.attributes.podFingerprint =
              IF fingerprint = Absent THEN object.attributes.podFingerprint
                                      ELSE fingerprint
         /\ PolicyMatchesAttributes(object) => PolicyMatchesAttributes(result)
<1> DEFINE attributes == UpdateAttributes(object.attributes,
                                          ScanAttributes(fingerprint))
<1>1. attributes =
        [topologyManagerPolicy |-> object.attributes.topologyManagerPolicy,
         topologyManagerScope |-> object.attributes.topologyManagerScope,
         podFingerprint |-> IF fingerprint = Absent
                              THEN object.attributes.podFingerprint
                              ELSE fingerprint,
         foreign |-> object.attributes.foreign]
  BY DEF UpdateAttributes, UpdateAttribute, ScanAttributes, NoAttributes
<1>2. attributes \in Attributes
  BY <1>1 DEF Attributes, Objects
<1>3. result = [object EXCEPT !.attributes = attributes]
  BY DEF MergeScan
<1> HIDE DEF attributes
<1>4. /\ result \in Objects
      /\ result.resourceVersion = object.resourceVersion
      /\ result.zones = object.zones
      /\ result.attributes = attributes
      /\ result.topologyPolicies = object.topologyPolicies
  BY <1>2, <1>3 DEF Objects
<1>5. PolicyMatchesAttributes(object) => PolicyMatchesAttributes(result)
  BY <1>1, <1>4 DEF PolicyMatchesAttributes
<1> QED BY <1>1, <1>4, <1>5

\* A new object and a copy are objects.
LEMMA NewObjectFacts ==
  ASSUME NEW zones \in Versions
  PROVE  /\ NewObject(zones) \in Objects
         /\ NewObject(zones).resourceVersion = 0
         /\ NewObject(zones).zones = zones
         /\ NewObject(zones).attributes.foreign = Absent
BY DEF NewObject, Objects, Attributes, NoAttributes, Versions

\* A copy differs from its original in the zones only.
LEMMA CopyFacts ==
  ASSUME NEW object \in Objects, NEW zones \in Versions
  PROVE  /\ CopyWithZones(object, zones) \in Objects
         /\ CopyWithZones(object, zones).resourceVersion = object.resourceVersion
         /\ CopyWithZones(object, zones).zones = zones
         /\ CopyWithZones(object, zones).attributes = object.attributes
         /\ CopyWithZones(object, zones).topologyPolicies = object.topologyPolicies
BY DEF CopyWithZones, Objects, Versions

\* What a scan of any version of the node yields.
LEMMA ScanFacts ==
  ASSUME NEW version \in 0..MaxNode
  PROVE  /\ ScanOf(version) \in Scans
         /\ ScanOf(version) \in NodeScans
         /\ ScanOf(version).zones = version
         /\ ScanOf(version).fingerprint \in {version, Absent}
BY PublisherAssumption DEF ScanOf, Scans, NodeScans, Versions

-----------------------------------------------------------------------------
(* Type correctness.                                                       *)

\* An accepted write leaves the server with a typed object.
LEMMA ApplyType ==
  ASSUME TypeOK, NEW request \in Objects, Apply(request)
  PROVE  /\ store' \in Objects \cup {NoObject}
         /\ lastRV' \in 0..MaxRV
         /\ foreign' \in ForeignValues \cup {Absent}
<1>1. CASE store = request
  BY <1>1 DEF Apply, ServerVars, TypeOK
<1>2. CASE store # request
  <2>1. /\ lastRV < MaxRV /\ lastRV' = lastRV + 1
        /\ store' = [request EXCEPT !.resourceVersion = lastRV + 1]
        /\ foreign' = IF IsCreate(request) THEN Absent ELSE foreign
    BY <1>2 DEF Apply
  <2>2. lastRV + 1 \in Nat /\ lastRV' \in 0..MaxRV
    BY <2>1, PublisherAssumption DEF TypeOK
  <2>3. store' \in Objects
    BY <2>1, <2>2 DEF Objects
  <2> QED BY <2>1, <2>2, <2>3 DEF TypeOK
<1> QED BY <1>1, <1>2

\* Variables of an event that go out of scope keep their types.
LEMMA ForgetType ==
  ASSUME TypeOK, NEW u \in Updaters, Forget(u)
  PROVE  /\ scan' \in [Updaters -> Scans]
         /\ interval' \in [Updaters -> BOOLEAN]
         /\ nrt' \in [Updaters -> Objects]
<1>1. ScanOf(0) \in Scans /\ NewObject(0) \in Objects
  BY ScanFacts, NewObjectFacts, PublisherAssumption DEF Versions
<1> QED BY <1>1 DEF Forget, TypeOK

\* The other client changes its field and the version, nothing else.
LEMMA ForeignWriteFacts ==
  ASSUME TypeOK, ForeignWrite
  PROVE  /\ store \in Objects /\ store # NoObject
         /\ store' \in Objects /\ store' # NoObject
         /\ lastRV \in Nat /\ lastRV' = lastRV + 1
         /\ store'.resourceVersion = lastRV + 1
         /\ store'.zones = store.zones
         /\ store'.attributes = [store.attributes EXCEPT !.foreign = foreign']
         /\ store'.topologyPolicies = store.topologyPolicies
         /\ foreign' \in ForeignValues
<1>1. PICK value \in ForeignValues :
        /\ store' = [store EXCEPT !.attributes.foreign = value,
                                  !.resourceVersion = lastRV + 1]
        /\ foreign' = value
  BY DEF ForeignWrite
<1>2. /\ store \in Objects /\ store # NoObject
      /\ lastRV \in Nat /\ lastRV' = lastRV + 1 /\ lastRV + 1 \in Nat
  BY PublisherAssumption DEF ForeignWrite, TypeOK
<1> DEFINE changed == [store.attributes EXCEPT !.foreign = value]
<1>3. changed \in Attributes
  BY <1>2 DEF Objects, Attributes
<1>4. store' = [store EXCEPT !.attributes = changed, !.resourceVersion = lastRV + 1]
  BY <1>1
<1>5. changed = [store.attributes EXCEPT !.foreign = foreign']
  BY <1>1
<1> HIDE DEF changed
<1>6. store' \in Objects
  BY <1>2, <1>3, <1>4 DEF Objects
<1>7. /\ store'.resourceVersion = lastRV + 1
      /\ store'.zones = store.zones
      /\ store'.attributes = changed
      /\ store'.topologyPolicies = store.topologyPolicies
  BY <1>2, <1>4 DEF Objects
<1>8. store' # NoObject
  BY <1>6, NRTAssumption
<1> QED BY <1>1, <1>2, <1>5, <1>6, <1>7, <1>8

\* Every initial state is well typed.
LEMMA TypeInit == Init => TypeOK
<1> SUFFICES ASSUME Init PROVE TypeOK
  OBVIOUS
<1>1. ScanOf(0) \in Scans /\ NewObject(0) \in Objects
  BY ScanFacts, NewObjectFacts, PublisherAssumption DEF Versions
<1> QED BY <1>1, PublisherAssumption DEF Init, TypeOK, Locations

\* Every step keeps every variable in its type.
LEMMA TypeStep == TypeOK /\ [Next]_vars => TypeOK'
<1> SUFFICES ASSUME TypeOK, [Next]_vars PROVE TypeOK'
  OBVIOUS
<1> USE DEF ServerVars, ProcessVars
<1>1. ASSUME NEW u \in Updaters, Event(u) PROVE TypeOK'
  BY <1>1, ScanFacts DEF Event, TypeOK, Locations
<1>2. ASSUME NEW u \in Updaters, GetNotFound(u) PROVE TypeOK'
  <2>1. NewObject(scan[u].zones) \in Objects
    BY NewObjectFacts DEF TypeOK, Scans
  <2> QED BY <1>2, <2>1 DEF GetNotFound, TypeOK, Locations
<1>3. ASSUME NEW u \in Updaters, GetFound(u) PROVE TypeOK'
  <2> DEFINE copy == CopyWithZones(store, scan[u].zones)
  <2>1. copy \in Objects
    BY <1>3, CopyFacts DEF GetFound, TypeOK, Scans
  <2>2. MergeScan(copy, scan[u].fingerprint) \in Objects
    BY <2>1, MergeFacts DEF TypeOK, Scans
  <2> HIDE DEF copy
  <2>3. /\ nrt' \in [Updaters -> Objects]
        /\ pc' \in [Updaters -> Locations]
    BY <1>3, <2>1, <2>2 DEF GetFound, TypeOK, Locations, copy
  <2> QED BY <1>3, <2>3 DEF GetFound, TypeOK
<1>4. ASSUME NEW u \in Updaters, ReadKubeletConfig(u) PROVE TypeOK'
  <2> DEFINE configured == UpdateNRTTopologyManagerInfo(nrt[u], kubeletConfig)
  <2>1. configured \in Objects
    BY ConfigureFacts DEF TypeOK
  <2>2. MergeScan(configured, scan[u].fingerprint) \in Objects
    BY <2>1, MergeFacts DEF TypeOK, Scans
  <2> QED BY <1>4, <2>2 DEF ReadKubeletConfig, TypeOK, Locations
<1>5. ASSUME NEW u \in Updaters, ReturnNil(u) PROVE TypeOK'
  BY <1>5, ForgetType DEF ReturnNil, TypeOK, Locations
<1>6. ASSUME NEW u \in Updaters, Exit(u) PROVE TypeOK'
  BY <1>6, ForgetType DEF Exit, TypeOK, Locations
<1>7. ASSUME NEW u \in Updaters, Restart(u) PROVE TypeOK'
  BY <1>7 DEF Restart, TypeOK, Locations
<1>8. ASSUME NEW u \in Updaters, ServeWrite(u) PROVE TypeOK'
  <2>1. CASE Accepted(nrt[u])
    <3>1. Apply(nrt[u]) /\ UNCHANGED ProcessVars /\ pc' = [pc EXCEPT ![u] = "ok"]
      BY <1>8, <2>1 DEF ServeWrite
    <3>2. /\ store' \in Objects \cup {NoObject} /\ lastRV' \in 0..MaxRV
          /\ foreign' \in ForeignValues \cup {Absent}
      BY <3>1, ApplyType DEF TypeOK
    <3> QED BY <1>8, <3>1, <3>2 DEF ServeWrite, TypeOK, Locations
  <2>2. CASE ~Accepted(nrt[u])
    BY <1>8, <2>2, ForgetType DEF ServeWrite, TypeOK, Locations
  <2> QED BY <2>1, <2>2
<1>9. CASE ServeOrphan
  <2>1. PICK request \in orphans :
          /\ IF Accepted(request) THEN Apply(request) ELSE UNCHANGED ServerVars
          /\ orphans' = orphans \ {request}
          /\ UNCHANGED <<node, kubeletConfig, pc, ProcessVars>>
    BY <1>9 DEF ServeOrphan
  <2>2. request \in Objects
    BY DEF TypeOK
  <2>3. /\ store' \in Objects \cup {NoObject} /\ lastRV' \in 0..MaxRV
        /\ foreign' \in ForeignValues \cup {Absent}
    BY <2>1, <2>2, ApplyType DEF TypeOK
  <2> QED BY <2>1, <2>3 DEF TypeOK
<1>10. CASE ForeignWrite
  <2>1. lastRV < MaxRV
    BY <1>10 DEF ForeignWrite
  <2>2. lastRV' \in 0..MaxRV
    BY <1>10, <2>1, ForeignWriteFacts, PublisherAssumption
  <2> QED BY <1>10, <2>2, ForeignWriteFacts DEF ForeignWrite, TypeOK
<1>11. CASE Delete
  BY <1>11 DEF Delete, TypeOK
<1>12. CASE NodeChange
  BY <1>12, PublisherAssumption DEF NodeChange, TypeOK
<1>13. CASE KubeletConfigChange
  BY <1>13 DEF KubeletConfigChange, TypeOK
<1>14. CASE UNCHANGED vars
  BY <1>14 DEF vars, TypeOK
<1> QED
  BY <1>1, <1>2, <1>3, <1>4, <1>5, <1>6, <1>7, <1>8, <1>9, <1>10, <1>11, <1>12,
     <1>13, <1>14 DEF Next, UpdaterStep, Environment

\* Publisher is type correct whatever the processes, crashes and late requests.
THEOREM TypeCorrect == Spec => []TypeOK
BY TypeInit, TypeStep, PTL DEF Spec

-----------------------------------------------------------------------------
(* The inductive invariant.  What makes the properties hold is that a request *)
(* names the version it was computed from: as long as that is the server's    *)
(* version the request is a mutation of the server's object, and afterwards   *)
(* it can no longer be accepted.                                              *)

\* The server's versions count up from one; zero is left to new objects.
StoreVersioned == store # NoObject => store.resourceVersion \in 1..lastRV

\* An object waiting for its configuration is new, or the copy just taken
\* unless the server's object has moved on.
BuiltFrom(object, zones) ==
  /\ object.resourceVersion <= lastRV
  /\ IF IsCreate(object)
       THEN object = NewObject(zones)
       ELSE store # NoObject /\ store.resourceVersion = object.resourceVersion
              => object = CopyWithZones(store, zones)

BuildsCurrent ==
  \A u \in Updaters : pc[u] = "config" => BuiltFrom(nrt[u], scan[u].zones)

ScansPossible == \A u \in Updaters : scan[u] \in NodeScans

RequestsVersioned == \A request \in Requests : request.resourceVersion <= lastRV

Consistent ==
  /\ StoreVersioned
  /\ ScansPossible
  /\ BuildsCurrent
  /\ RequestsVersioned
  /\ InflightIsMutation
  /\ ForeignFieldsKept
  /\ PolicyCoherent

\* How any step changes the server's object: not at all, to a new version, or by
\* removing it.
ServerMoves ==
  \/ UNCHANGED <<store, lastRV>>
  \/ lastRV' = lastRV + 1 /\ store' # NoObject /\ store'.resourceVersion = lastRV + 1
  \/ lastRV' = lastRV /\ store' = NoObject

\* A mutation keeps version and foreign fields, takes its zones from the scan,
\* and leaves policy and attributes in agreement.
LEMMA MutationFacts ==
  ASSUME NEW object \in Objects, NEW s \in NodeScans,
         NEW config \in KubeletConfigs \cup {Absent},
         NEW result, result = Mutation(object, s, config)
  PROVE  /\ result \in Objects
         /\ result.resourceVersion = object.resourceVersion
         /\ result.zones = s.zones
         /\ result.attributes.foreign = object.attributes.foreign
         /\ s.fingerprint # Absent
              => result.attributes.podFingerprint = s.fingerprint
         /\ config # Absent \/ PolicyMatchesAttributes(object)
              => PolicyMatchesAttributes(result)
<1> DEFINE copy == CopyWithZones(object, s.zones)
           configured == Configure(copy, config)
<1>1. s \in Scans
  BY ScanFacts DEF NodeScans
<1>2. /\ copy \in Objects /\ copy.zones = s.zones
      /\ copy.resourceVersion = object.resourceVersion
      /\ copy.attributes = object.attributes
      /\ copy.topologyPolicies = object.topologyPolicies
  BY <1>1, CopyFacts DEF Scans
<1> HIDE DEF copy
<1>3. /\ configured \in Objects /\ configured.zones = s.zones
      /\ configured.resourceVersion = object.resourceVersion
      /\ configured.attributes.foreign = object.attributes.foreign
      /\ config # Absent \/ PolicyMatchesAttributes(object)
           => PolicyMatchesAttributes(configured)
  <2>1. CASE config = Absent
    BY <1>2, <2>1 DEF Configure, PolicyMatchesAttributes
  <2>2. CASE config # Absent
    <3>1. configured = UpdateNRTTopologyManagerInfo(copy, config)
      BY <2>2 DEF Configure
    <3> QED BY <1>2, <2>2, <3>1, ConfigureFacts
  <2> QED BY <2>1, <2>2
<1>4. result = MergeScan(configured, s.fingerprint)
  BY DEF Mutation, copy
<1> HIDE DEF configured
<1>5. s.fingerprint \in Versions \cup {Absent}
  BY <1>1 DEF Scans
<1> QED BY <1>3, <1>4, <1>5, MergeFacts

\* A mutation that read the configuration or not, as the updater builds it.
LEMMA MutationBuilt ==
  ASSUME NEW object, NEW s, NEW config
  PROVE  /\ MergeScan(CopyWithZones(object, s.zones), s.fingerprint)
              = Mutation(object, s, Absent)
         /\ config # Absent =>
              MergeScan(UpdateNRTTopologyManagerInfo(
                          CopyWithZones(object, s.zones), config), s.fingerprint)
                = Mutation(object, s, config)
BY DEF Mutation, Configure

\* A new object is its own copy.
LEMMA NewObjectCopy ==
  ASSUME NEW zones \in Versions
  PROVE  CopyWithZones(NewObject(zones), zones) = NewObject(zones)
BY DEF CopyWithZones, NewObject

\* Requests stay mutations of the server's version when the server moves on.
LEMMA RequestsKept ==
  ASSUME TypeOK, ServerMoves, NEW request \in Objects,
         request.resourceVersion <= lastRV, IsMutation(request)
  PROVE  request.resourceVersion <= lastRV' /\ IsMutation(request)'
<1>1. lastRV \in Nat /\ request.resourceVersion \in Nat
  BY PublisherAssumption DEF TypeOK, Objects
<1>2. request.resourceVersion <= lastRV'
  BY <1>1 DEF ServerMoves
<1>3. PICK s \in NodeScans, config \in KubeletConfigs \cup {Absent} :
        IsMutationBy(request, s, config)
  BY DEF IsMutation
<1>4. ASSUME IsCreate(request) PROVE IsMutationBy(request, s, config)'
  <2> QED BY <1>3, <1>4 DEF IsMutationBy, IsCreate
<1>5. ASSUME ~IsCreate(request) PROVE IsMutationBy(request, s, config)'
  <2>1. store' # NoObject /\ store'.resourceVersion = request.resourceVersion
          => store' = store
    BY <1>1 DEF ServerMoves
  <2> QED BY <1>3, <1>5, <2>1 DEF IsMutationBy, IsCreate
<1>6. IsMutationBy(request, s, config)'
  BY <1>4, <1>5
<1> QED BY <1>2, <1>6 DEF IsMutation

\* So do the objects still being built.
LEMMA BuildsKept ==
  ASSUME TypeOK, ServerMoves, NEW object \in Objects, NEW zones,
         BuiltFrom(object, zones)
  PROVE  BuiltFrom(object, zones)'
<1>1. lastRV \in Nat /\ object.resourceVersion \in Nat
  BY PublisherAssumption DEF TypeOK, Objects
<1> QED BY <1>1 DEF ServerMoves, BuiltFrom, IsCreate

-----------------------------------------------------------------------------
(* Consistent is inductive.                                                *)

\* Requests are objects.
LEMMA RequestsType == TypeOK => Requests \subseteq Objects
BY DEF TypeOK, Requests

\* The requests left after a step are sound when it sends none.
LEMMA RequestsFrame ==
  ASSUME TypeOK, Consistent, ServerMoves, Requests' \subseteq Requests
  PROVE  RequestsVersioned' /\ InflightIsMutation'
<1>1. ASSUME NEW request \in Requests'
      PROVE  request.resourceVersion <= lastRV' /\ IsMutation(request)'
  BY <1>1, RequestsType, RequestsKept
     DEF Consistent, RequestsVersioned, InflightIsMutation
<1> QED BY <1>1 DEF RequestsVersioned, InflightIsMutation

\* A request just sent is sound when it is a mutation of the server's version.
LEMMA RequestsSent ==
  ASSUME TypeOK, Consistent, UNCHANGED ServerVars,
         NEW sent \in Objects, sent.resourceVersion <= lastRV, IsMutation(sent),
         Requests' \subseteq Requests \cup {sent}
  PROVE  RequestsVersioned' /\ InflightIsMutation'
<1>1. ServerMoves
  BY DEF ServerMoves, ServerVars
<1>2. ASSUME NEW request \in Requests'
      PROVE  request.resourceVersion <= lastRV' /\ IsMutation(request)'
  BY <1>1, <1>2, RequestsType, RequestsKept
     DEF Consistent, RequestsVersioned, InflightIsMutation
<1> QED BY <1>2 DEF RequestsVersioned, InflightIsMutation

\* An accepted request is a mutation of what the server holds, or of a new
\* object when it holds none.
LEMMA AcceptedIsMutation ==
  ASSUME TypeOK, Consistent, NEW request \in Requests, Accepted(request)
  PROVE  \E s \in NodeScans, config \in KubeletConfigs \cup {Absent} :
           \/ /\ store = NoObject /\ IsCreate(request) /\ config # Absent
              /\ request = Mutation(NewObject(s.zones), s, config)
           \/ /\ store \in Objects /\ store # NoObject /\ ~IsCreate(request)
              /\ request = Mutation(store, s, config)
<1>1. PICK s \in NodeScans, config \in KubeletConfigs \cup {Absent} :
        IsMutationBy(request, s, config)
  BY DEF Consistent, InflightIsMutation, IsMutation
<1> QED BY <1>1 DEF Accepted, IsMutationBy, TypeOK

\* Serving a request keeps versions, foreign fields and policies in order.
LEMMA Served ==
  ASSUME TypeOK, Consistent, NEW request \in Requests, Accepted(request),
         Apply(request)
  PROVE  ServerMoves /\ StoreVersioned' /\ ForeignFieldsKept' /\ PolicyCoherent'
<1>1. CASE store = request
  <2>1. UNCHANGED ServerVars
    BY <1>1 DEF Apply
  <2> QED BY <2>1 DEF ServerMoves, ServerVars, Consistent, StoreVersioned,
                      ForeignFieldsKept, PolicyCoherent
<1>2. CASE store # request
  <2>1. /\ lastRV' = lastRV + 1
        /\ store' = [request EXCEPT !.resourceVersion = lastRV + 1]
        /\ foreign' = IF IsCreate(request) THEN Absent ELSE foreign
    BY <1>2 DEF Apply
  <2>2. request \in Objects /\ lastRV \in Nat
    BY RequestsType, PublisherAssumption DEF TypeOK
  <2>3. /\ store' \in Objects /\ store' # NoObject
        /\ store'.resourceVersion = lastRV + 1
        /\ store'.attributes = request.attributes
        /\ store'.topologyPolicies = request.topologyPolicies
    BY <2>1, <2>2, NRTAssumption DEF Objects
  <2>4. PICK s \in NodeScans, config \in KubeletConfigs \cup {Absent} :
          \/ /\ store = NoObject /\ IsCreate(request) /\ config # Absent
             /\ request = Mutation(NewObject(s.zones), s, config)
          \/ /\ store \in Objects /\ store # NoObject /\ ~IsCreate(request)
             /\ request = Mutation(store, s, config)
    BY AcceptedIsMutation
  <2>5. NewObject(s.zones) \in Objects /\ NewObject(s.zones).attributes.foreign = Absent
    BY ScanFacts, NewObjectFacts DEF NodeScans, Scans
  <2>6. PolicyMatchesAttributes(request)
    <3>1. store # NoObject => PolicyMatchesAttributes(store)
      BY DEF Consistent, PolicyCoherent
    <3> QED BY <2>4, <2>5, <3>1, MutationFacts
  <2>7. request.attributes.foreign = foreign'
    <3>1. store # NoObject => store.attributes.foreign = foreign
      BY DEF Consistent, ForeignFieldsKept
    <3> QED BY <2>1, <2>4, <2>5, <3>1, MutationFacts
  <2>8. PolicyMatchesAttributes(store')
    BY <2>3, <2>6 DEF PolicyMatchesAttributes
  <2>9. PolicyCoherent'
    BY <2>8 DEF PolicyCoherent
  <2> QED
    BY <2>1, <2>2, <2>3, <2>7, <2>9 DEF ServerMoves, StoreVersioned, ForeignFieldsKept
<1> QED BY <1>1, <1>2

\* The initial state is consistent: nothing is stored, built or sent.
LEMMA ConsistentInit == Init => Consistent
<1> SUFFICES ASSUME Init PROVE Consistent
  OBVIOUS
<1>1. Requests = {}
  BY DEF Init, Requests
<1>2. ScansPossible
  BY ScanFacts, PublisherAssumption DEF Init, ScansPossible
<1> QED
  BY <1>1, <1>2 DEF Init, Consistent, StoreVersioned, BuildsCurrent,
     RequestsVersioned, InflightIsMutation, ForeignFieldsKept, PolicyCoherent

\* Steps that leave the server alone, send nothing and keep what is being built.
LEMMA LocalStep ==
  ASSUME TypeOK, Consistent, UNCHANGED ServerVars, Requests' \subseteq Requests,
         ScansPossible',
         \A u \in Updaters :
           pc'[u] = "config" => BuiltFrom(nrt'[u], scan'[u].zones)
  PROVE  Consistent'
<1>1. ServerMoves
  BY DEF ServerMoves, ServerVars
<1>2. BuildsCurrent'
  BY DEF BuildsCurrent, BuiltFrom, ServerVars, IsCreate
<1>3. StoreVersioned' /\ ForeignFieldsKept' /\ PolicyCoherent'
  BY DEF Consistent, StoreVersioned, ForeignFieldsKept, PolicyCoherent, ServerVars
<1> QED BY <1>1, <1>2, <1>3, RequestsFrame DEF Consistent

\* Steps of the server and its other clients: the processes only wait.
LEMMA ServerStep ==
  ASSUME TypeOK, Consistent, ServerMoves, Requests' \subseteq Requests,
         ScansPossible', StoreVersioned', ForeignFieldsKept', PolicyCoherent',
         \A u \in Updaters : pc'[u] = "config" =>
           pc[u] = "config" /\ nrt'[u] = nrt[u] /\ scan'[u] = scan[u]
  PROVE  Consistent'
<1>1. ASSUME NEW u \in Updaters, pc'[u] = "config"
      PROVE  BuiltFrom(nrt[u], scan[u].zones)'
  <2>1. pc[u] = "config" /\ nrt'[u] = nrt[u] /\ scan'[u] = scan[u]
    BY <1>1
  <2>2. BuiltFrom(nrt[u], scan[u].zones) /\ nrt[u] \in Objects
    BY <2>1 DEF Consistent, BuildsCurrent, TypeOK
  <2>3. ASSUME NEW o \in Objects, NEW z \in Versions, BuiltFrom(o, z)
        PROVE  BuiltFrom(o, z)'
    BY <2>3, BuildsKept
  <2>4. PICK o \in Objects, z \in Versions : o = nrt[u] /\ z = scan[u].zones
    BY <2>2 DEF TypeOK, Scans
  <2>5. BuiltFrom(o, z)'
    BY <2>2, <2>3, <2>4
  <2> QED BY <2>1, <2>4, <2>5 DEF BuiltFrom, IsCreate
<1>2. BuildsCurrent'
  BY <1>1 DEF BuildsCurrent
<1> QED BY <1>2, RequestsFrame DEF Consistent

\* What goes out of scope leaves a possible scan behind.
LEMMA ForgetScans ==
  ASSUME TypeOK, ScansPossible, NEW u \in Updaters, Forget(u)
  PROVE  ScansPossible'
BY ScanFacts, PublisherAssumption DEF Forget, ScansPossible, TypeOK

\* Every step keeps a well-typed consistent state consistent.
LEMMA ConsistentStep == TypeOK /\ Consistent /\ [Next]_vars => Consistent'
<1> SUFFICES ASSUME TypeOK, Consistent, [Next]_vars PROVE Consistent'
  OBVIOUS
<1>1. ASSUME NEW u \in Updaters, Event(u) PROVE Consistent'
  <2>1. ScansPossible'
    BY <1>1, ScanFacts DEF Event, Consistent, ScansPossible, TypeOK
  <2>2. Requests' \subseteq Requests
    BY <1>1 DEF Event, Requests, TypeOK
  <2>3. \A v \in Updaters :
          pc'[v] = "config" => BuiltFrom(nrt'[v], scan'[v].zones)
    BY <1>1 DEF Event, Consistent, BuildsCurrent, TypeOK
  <2> QED BY <1>1, <2>1, <2>2, <2>3, LocalStep DEF Event
<1>2. ASSUME NEW u \in Updaters, GetNotFound(u) PROVE Consistent'
  <2>1. ScansPossible'
    BY <1>2 DEF GetNotFound, Consistent, ScansPossible
  <2>2. Requests' \subseteq Requests
    BY <1>2 DEF GetNotFound, Requests, TypeOK
  <2>3. BuiltFrom(NewObject(scan[u].zones), scan[u].zones)
    BY NewObjectFacts DEF BuiltFrom, IsCreate, TypeOK, Scans
  <2>4. \A v \in Updaters :
          pc'[v] = "config" => BuiltFrom(nrt'[v], scan'[v].zones)
    BY <1>2, <2>3 DEF GetNotFound, Consistent, BuildsCurrent, TypeOK
  <2> QED BY <1>2, <2>1, <2>2, <2>4, LocalStep DEF GetNotFound
<1>3. ASSUME NEW u \in Updaters, GetFound(u) PROVE Consistent'
  <2> DEFINE copy == CopyWithZones(store, scan[u].zones)
             sent == MergeScan(copy, scan[u].fingerprint)
  <2>1. ScansPossible'
    BY <1>3 DEF GetFound, Consistent, ScansPossible
  <2>2. store \in Objects /\ store # NoObject /\ scan[u] \in Scans
    BY <1>3 DEF GetFound, TypeOK
  <2>3. copy \in Objects /\ copy.resourceVersion = store.resourceVersion
    BY <2>2, CopyFacts DEF Scans
  <2>4. store.resourceVersion \in 1..lastRV
    BY <2>2 DEF Consistent, StoreVersioned
  <2>5. CASE interval[u]
    <3>1. /\ nrt' = [nrt EXCEPT ![u] = copy]
          /\ pc' = [pc EXCEPT ![u] = "config"]
      BY <1>3, <2>5 DEF GetFound
    <3>2. BuiltFrom(copy, scan[u].zones)
      BY <2>3, <2>4 DEF BuiltFrom, IsCreate, TypeOK
    <3> HIDE DEF copy
    <3>3. Requests' \subseteq Requests
      BY <1>3, <3>1 DEF GetFound, Requests, TypeOK
    <3>4. \A v \in Updaters :
            pc'[v] = "config" => BuiltFrom(nrt'[v], scan'[v].zones)
      BY <1>3, <3>1, <3>2 DEF GetFound, Consistent, BuildsCurrent, TypeOK
    <3> QED BY <1>3, <2>1, <3>3, <3>4, LocalStep DEF GetFound
  <2>6. CASE ~interval[u]
    <3>1. /\ nrt' = [nrt EXCEPT ![u] = sent]
          /\ pc' = [pc EXCEPT ![u] = "wait"]
      BY <1>3, <2>6 DEF GetFound
    <3>2. sent \in Objects /\ sent.resourceVersion = store.resourceVersion
      BY <2>2, <2>3, MergeFacts DEF Scans
    <3>3. sent = Mutation(store, scan[u], Absent)
      BY MutationBuilt
    <3>4. scan[u] \in NodeScans
      BY DEF Consistent, ScansPossible
    <3>5. IsMutation(sent)
      BY <2>2, <2>4, <3>2, <3>3, <3>4, PublisherAssumption
         DEF IsMutation, IsMutationBy, IsCreate, TypeOK
    <3> HIDE DEF sent
    <3>6. Requests' \subseteq Requests \cup {sent}
      BY <1>3, <3>1 DEF GetFound, Requests, TypeOK
    <3>7. UNCHANGED ServerVars
      BY <1>3 DEF GetFound
    <3>8. sent.resourceVersion <= lastRV
      BY <2>4, <3>2
    <3>9. RequestsVersioned' /\ InflightIsMutation'
      BY <3>2, <3>5, <3>6, <3>7, <3>8, RequestsSent
    <3>10. BuildsCurrent'
      <4>1. \A v \in Updaters : pc'[v] = "config" =>
              pc[v] = "config" /\ nrt'[v] = nrt[v] /\ scan'[v] = scan[v]
        BY <1>3, <3>1 DEF GetFound, TypeOK
      <4> QED BY <3>7, <4>1 DEF Consistent, BuildsCurrent, BuiltFrom, IsCreate,
                                ServerVars
    <3> QED BY <2>1, <3>7, <3>9, <3>10 DEF Consistent, StoreVersioned,
               ForeignFieldsKept, PolicyCoherent, ServerVars
  <2> QED BY <2>5, <2>6
<1>4. ASSUME NEW u \in Updaters, ReadKubeletConfig(u) PROVE Consistent'
  <2> DEFINE configured == UpdateNRTTopologyManagerInfo(nrt[u], kubeletConfig)
             sent == MergeScan(configured, scan[u].fingerprint)
  <2>1. /\ nrt' = [nrt EXCEPT ![u] = sent]
        /\ pc[u] = "config" /\ pc' = [pc EXCEPT ![u] = "wait"]
    BY <1>4 DEF ReadKubeletConfig
  <2>2. BuiltFrom(nrt[u], scan[u].zones) /\ scan[u] \in NodeScans
    BY <2>1 DEF Consistent, BuildsCurrent, ScansPossible
  <2>3. /\ nrt[u] \in Objects /\ scan[u] \in Scans
        /\ kubeletConfig \in KubeletConfigs /\ kubeletConfig # Absent
    BY NRTAssumption DEF TypeOK
  <2>4. configured \in Objects /\ configured.resourceVersion = nrt[u].resourceVersion
    BY <2>3, ConfigureFacts
  <2>5. sent \in Objects /\ sent.resourceVersion = nrt[u].resourceVersion
    BY <2>3, <2>4, MergeFacts DEF Scans
  <2>6. nrt[u].resourceVersion <= lastRV
    BY <2>2 DEF BuiltFrom
  <2>7. \A object : nrt[u] = CopyWithZones(object, scan[u].zones)
          => sent = Mutation(object, scan[u], kubeletConfig)
    BY <2>3, MutationBuilt
  <2>8. IsCreate(nrt[u])
          => nrt[u] = CopyWithZones(NewObject(scan[u].zones), scan[u].zones)
    BY <2>2, <2>3, NewObjectCopy DEF BuiltFrom, Scans
  <2> HIDE DEF sent
  <2>9. IsMutationBy(sent, scan[u], kubeletConfig)
    BY <2>2, <2>3, <2>5, <2>7, <2>8 DEF IsMutationBy, IsCreate, BuiltFrom
  <2>10. IsMutation(sent)
    BY <2>2, <2>3, <2>9 DEF IsMutation
  <2>11. Requests' \subseteq Requests \cup {sent}
    BY <1>4, <2>1 DEF ReadKubeletConfig, Requests, TypeOK
  <2>12. UNCHANGED ServerVars /\ sent.resourceVersion <= lastRV
    BY <1>4, <2>5, <2>6 DEF ReadKubeletConfig
  <2>13. RequestsVersioned' /\ InflightIsMutation'
    BY <2>5, <2>10, <2>11, <2>12, RequestsSent
  <2>14. BuildsCurrent'
    <3>1. \A v \in Updaters : pc'[v] = "config" =>
            pc[v] = "config" /\ nrt'[v] = nrt[v] /\ scan'[v] = scan[v]
      BY <1>4, <2>1 DEF ReadKubeletConfig, TypeOK
    <3> QED BY <2>12, <3>1 DEF Consistent, BuildsCurrent, BuiltFrom, IsCreate,
                               ServerVars
  <2>15. ScansPossible'
    BY <1>4 DEF ReadKubeletConfig, Consistent, ScansPossible
  <2> QED BY <2>12, <2>13, <2>14, <2>15 DEF Consistent, StoreVersioned,
             ForeignFieldsKept, PolicyCoherent, ServerVars
<1>5. ASSUME NEW u \in Updaters, ReturnNil(u) \/ Exit(u) PROVE Consistent'
  <2>1. ScansPossible'
    BY <1>5, ForgetScans DEF ReturnNil, Exit, Consistent
  <2>2. Requests' \subseteq Requests
    BY <1>5 DEF ReturnNil, Exit, Forget, Requests, TypeOK
  <2>3. \A v \in Updaters :
          pc'[v] = "config" => BuiltFrom(nrt'[v], scan'[v].zones)
    BY <1>5 DEF ReturnNil, Exit, Forget, Consistent, BuildsCurrent, TypeOK
  <2> QED BY <1>5, <2>1, <2>2, <2>3, LocalStep DEF ReturnNil, Exit
<1>6. ASSUME NEW u \in Updaters, Restart(u) PROVE Consistent'
  <2>1. ScansPossible' /\ Requests' \subseteq Requests
    BY <1>6 DEF Restart, ProcessVars, Consistent, ScansPossible, Requests, TypeOK
  <2>2. \A v \in Updaters :
          pc'[v] = "config" => BuiltFrom(nrt'[v], scan'[v].zones)
    BY <1>6 DEF Restart, ProcessVars, Consistent, BuildsCurrent, TypeOK
  <2> QED BY <1>6, <2>1, <2>2, LocalStep DEF Restart
<1>7. ASSUME NEW u \in Updaters, ServeWrite(u) PROVE Consistent'
  <2>1. nrt[u] \in Requests /\ pc[u] = "wait"
    BY <1>7 DEF ServeWrite, Requests
  <2>2. CASE Accepted(nrt[u])
    <3>1. /\ Apply(nrt[u]) /\ UNCHANGED ProcessVars /\ orphans' = orphans
          /\ pc' = [pc EXCEPT ![u] = "ok"]
      BY <1>7, <2>2 DEF ServeWrite
    <3>2. ServerMoves /\ StoreVersioned' /\ ForeignFieldsKept' /\ PolicyCoherent'
      BY <2>1, <2>2, <3>1, Served
    <3>3. ScansPossible' /\ Requests' \subseteq Requests
      BY <3>1 DEF ProcessVars, Consistent, ScansPossible, Requests, TypeOK
    <3>4. \A v \in Updaters : pc'[v] = "config" =>
            pc[v] = "config" /\ nrt'[v] = nrt[v] /\ scan'[v] = scan[v]
      BY <3>1 DEF ProcessVars, TypeOK
    <3> QED BY <3>2, <3>3, <3>4, ServerStep
  <2>3. CASE ~Accepted(nrt[u])
    <3>1. /\ UNCHANGED ServerVars /\ Forget(u) /\ orphans' = orphans
          /\ pc' = [pc EXCEPT ![u] = "exited"]
      BY <1>7, <2>3 DEF ServeWrite
    <3>2. ScansPossible' /\ Requests' \subseteq Requests
      BY <3>1, ForgetScans DEF Consistent, Forget, Requests, TypeOK
    <3>3. \A v \in Updaters :
            pc'[v] = "config" => BuiltFrom(nrt'[v], scan'[v].zones)
      BY <3>1 DEF Forget, Consistent, BuildsCurrent, TypeOK
    <3> QED BY <3>1, <3>2, <3>3, LocalStep
  <2> QED BY <2>2, <2>3
<1>8. CASE ServeOrphan
  <2>1. PICK request \in orphans :
          /\ IF Accepted(request) THEN Apply(request) ELSE UNCHANGED ServerVars
          /\ orphans' = orphans \ {request}
          /\ UNCHANGED <<node, kubeletConfig, pc, ProcessVars>>
    BY <1>8 DEF ServeOrphan
  <2>2. request \in Requests /\ Requests' \subseteq Requests /\ ScansPossible'
    BY <2>1 DEF Requests, ProcessVars, Consistent, ScansPossible
  <2>3. ServerMoves /\ StoreVersioned' /\ ForeignFieldsKept' /\ PolicyCoherent'
    <3>1. CASE Accepted(request)
      BY <2>1, <2>2, <3>1, Served
    <3>2. CASE ~Accepted(request)
      BY <2>1, <3>2 DEF ServerMoves, ServerVars, Consistent, StoreVersioned,
                        ForeignFieldsKept, PolicyCoherent
    <3> QED BY <3>1, <3>2
  <2> QED BY <2>1, <2>2, <2>3, ServerStep DEF ProcessVars
<1>9. CASE ForeignWrite
  <2>1. ServerMoves
    BY <1>9, ForeignWriteFacts DEF ServerMoves
  <2>2. StoreVersioned' /\ ForeignFieldsKept'
    BY <1>9, ForeignWriteFacts
       DEF StoreVersioned, ForeignFieldsKept, Objects, Attributes
  <2>3. PolicyCoherent'
    <3>1. PolicyMatchesAttributes(store) /\ store.attributes \in Attributes
      BY <1>9, ForeignWriteFacts DEF Consistent, PolicyCoherent, Objects
    <3> QED BY <1>9, <3>1, ForeignWriteFacts
            DEF PolicyCoherent, PolicyMatchesAttributes, Attributes
  <2>4. /\ ScansPossible' /\ Requests' \subseteq Requests
        /\ UNCHANGED <<pc, nrt, scan>>
    BY <1>9 DEF ForeignWrite, ProcessVars, Consistent, ScansPossible, Requests
  <2> QED BY <2>1, <2>2, <2>3, <2>4, ServerStep
<1>10. CASE Delete
  <2>1. ServerMoves /\ StoreVersioned' /\ ForeignFieldsKept' /\ PolicyCoherent'
    BY <1>10 DEF Delete, ServerMoves, StoreVersioned, ForeignFieldsKept,
                 PolicyCoherent
  <2>2. /\ ScansPossible' /\ Requests' \subseteq Requests
        /\ UNCHANGED <<pc, nrt, scan>>
    BY <1>10 DEF Delete, ProcessVars, Consistent, ScansPossible, Requests
  <2> QED BY <2>1, <2>2, ServerStep
<1>11. CASE NodeChange \/ KubeletConfigChange \/ UNCHANGED vars
  <2>1. /\ UNCHANGED ServerVars /\ UNCHANGED <<pc, nrt, scan, orphans>>
    BY <1>11 DEF NodeChange, KubeletConfigChange, vars, ProcessVars, ServerVars
  <2>2. ScansPossible' /\ Requests' \subseteq Requests
    BY <2>1 DEF Consistent, ScansPossible, Requests
  <2>3. \A v \in Updaters :
          pc'[v] = "config" => BuiltFrom(nrt'[v], scan'[v].zones)
    BY <2>1 DEF Consistent, BuildsCurrent
  <2> QED BY <2>1, <2>2, <2>3, LocalStep
<1> QED
  BY <1>1, <1>2, <1>3, <1>4, <1>5, <1>6, <1>7, <1>8, <1>9, <1>10, <1>11
     DEF Next, UpdaterStep, Environment

-----------------------------------------------------------------------------
(* The properties.                                                         *)

\* Every reachable state is well typed and consistent.
LEMMA Invariant == Spec => [](TypeOK /\ Consistent)
<1>1. Init => TypeOK /\ Consistent
  BY TypeInit, ConsistentInit
<1>2. TypeOK /\ Consistent /\ [Next]_vars => (TypeOK /\ Consistent)'
  BY TypeStep, ConsistentStep
<1> QED BY <1>1, <1>2, PTL DEF Spec

\* No interleaving of processes, crashes and late requests undoes what another
\* client wrote to the object.
THEOREM ForeignFieldsAreKept == Spec => []ForeignFieldsKept
<1>1. Consistent => ForeignFieldsKept
  BY DEF Consistent
<1> QED BY <1>1, Invariant, PTL

\* The object's policy field always agrees with its topology manager attributes.
THEOREM PolicyIsCoherent == Spec => []PolicyCoherent
<1>1. Consistent => PolicyCoherent
  BY DEF Consistent
<1> QED BY <1>1, Invariant, PTL

\* Every request under way is one mutation of the version it names.
THEOREM InflightRequestsAreMutations == Spec => []InflightIsMutation
<1>1. Consistent => InflightIsMutation
  BY DEF Consistent
<1> QED BY <1>1, Invariant, PTL

-----------------------------------------------------------------------------
(* Publication implements the atomic object of NRTStore.                   *)

\* The operators of the abstract specification are those of this one.
LEMMA SameMutation ==
  ASSUME NEW object, NEW s, NEW config
  PROVE  /\ Abstract!Mutation(object, s, config) = Mutation(object, s, config)
         /\ Abstract!NewObject(object) = NewObject(object)
         /\ Abstract!Content(object) = Content(object)
BY DEF Mutation, Configure, MergeScan, CopyWithZones, ScanAttributes, NoAttributes,
       UpdateAttributes, UpdateAttribute, UpdateNRTTopologyManagerInfo,
       CreateTopologyAttributes, DetectTopologyPolicy, DetectPolicyPodScope,
       DetectPolicyContainerScope, NewObject, Content,
       Abstract!Mutation, Abstract!Configure, Abstract!MergeScan,
       Abstract!CopyWithZones, Abstract!ScanAttributes, Abstract!NoAttributes,
       Abstract!UpdateAttributes, Abstract!UpdateAttribute,
       Abstract!UpdateNRTTopologyManagerInfo, Abstract!CreateTopologyAttributes,
       Abstract!DetectTopologyPolicy, Abstract!DetectPolicyPodScope,
       Abstract!DetectPolicyContainerScope, Abstract!NewObject, Abstract!Content

\* Mutating an object and forgetting its version, in either order.
LEMMA ContentOfCopy ==
  ASSUME NEW object \in Objects, NEW zones
  PROVE  Content(CopyWithZones(object, zones)) = CopyWithZones(Content(object), zones)
BY DEF Content, CopyWithZones, Objects

\* Configuring an object and forgetting its version, in either order.
LEMMA ContentOfConfigured ==
  ASSUME NEW object \in Objects, NEW config
  PROVE  Content(Configure(object, config)) = Configure(Content(object), config)
BY DEF Content, Configure, UpdateNRTTopologyManagerInfo, Objects

\* Merging attributes in and forgetting the version, in either order.
LEMMA ContentOfMerged ==
  ASSUME NEW object \in Objects, NEW fingerprint
  PROVE  Content(MergeScan(object, fingerprint))
           = MergeScan(Content(object), fingerprint)
BY DEF Content, MergeScan, Objects

\* A whole mutation and forgetting the version, in either order.
LEMMA ContentOfMutation ==
  ASSUME NEW object \in Objects, NEW s \in NodeScans,
         NEW config \in KubeletConfigs \cup {Absent}
  PROVE  Content(Mutation(object, s, config)) = Mutation(Content(object), s, config)
<1> DEFINE copy == CopyWithZones(object, s.zones)
           configured == Configure(copy, config)
<1>1. copy \in Objects
  BY ScanFacts, CopyFacts DEF NodeScans, Scans
<1>2. configured \in Objects
  BY <1>1, ConfigureFacts DEF Configure
<1>3. Content(copy) = CopyWithZones(Content(object), s.zones)
  BY ContentOfCopy
<1>4. Content(configured) = Configure(CopyWithZones(Content(object), s.zones), config)
  BY <1>1, <1>3, ContentOfConfigured
<1>5. Content(MergeScan(configured, s.fingerprint))
        = MergeScan(Content(configured), s.fingerprint)
  BY <1>2, ContentOfMerged
<1> QED BY <1>4, <1>5 DEF Mutation

\* Serving a request is Create or Update of the abstract object, or a stutter.
LEMMA ServedImplements ==
  ASSUME TypeOK, Consistent, NEW request \in Requests, Accepted(request),
         Apply(request)
  PROVE  \/ Abstract!Create
         \/ Abstract!Update
         \/ UNCHANGED published
<1>1. CASE store = request
  BY <1>1 DEF Apply, ServerVars, published
<1>2. CASE store # request
  <2>1. store' = [request EXCEPT !.resourceVersion = lastRV + 1]
    BY <1>2 DEF Apply
  <2>2. request \in Objects /\ lastRV + 1 \in Nat
    BY RequestsType, PublisherAssumption DEF TypeOK
  <2>3. store' \in Objects /\ store' # NoObject /\ Content(store') = Content(request)
    BY <2>1, <2>2, NRTAssumption DEF Objects, Content
  <2>4. PICK s \in NodeScans, config \in KubeletConfigs \cup {Absent} :
          \/ /\ store = NoObject /\ IsCreate(request) /\ config # Absent
             /\ request = Mutation(NewObject(s.zones), s, config)
          \/ /\ store \in Objects /\ store # NoObject /\ ~IsCreate(request)
             /\ request = Mutation(store, s, config)
    BY AcceptedIsMutation
  <2>5. CASE store = NoObject
    <3>1. Content(store')
            = Abstract!Content(Abstract!Mutation(Abstract!NewObject(s.zones), s, config))
      BY <2>3, <2>4, <2>5, SameMutation
    <3> QED BY <2>3, <2>4, <2>5, <3>1 DEF Abstract!Create, published
  <2>6. CASE store # NoObject
    <3>1. Content(store') = Abstract!Mutation(Content(store), s, config)
      BY <2>3, <2>4, <2>6, SameMutation, ContentOfMutation
    <3>2. Content(store) # NoObject
      <4>1. Content(store) \in Contents
        BY <2>4, <2>6 DEF Content, Contents, Objects
      <4> QED BY <4>1, NRTAssumption
    <3> QED BY <2>3, <2>4, <2>6, <3>1, <3>2 DEF Abstract!Update, published
  <2> QED BY <2>5, <2>6
<1> QED BY <1>1, <1>2

\* A write of the other client is ForeignUpdate of the abstract object.
LEMMA ForeignWriteImplements ==
  ASSUME TypeOK, ForeignWrite
  PROVE  Abstract!ForeignUpdate
<1>1. Content(store) \in Contents /\ Content(store) # NoObject
  BY ForeignWriteFacts, NRTAssumption DEF Content, Contents, Objects
<1>2. Content(store)' = [Content(store) EXCEPT !.attributes.foreign = foreign']
  BY ForeignWriteFacts DEF Content
<1> QED BY <1>1, <1>2, ForeignWriteFacts DEF Abstract!ForeignUpdate, published

\* Every step is a step of the abstract object or leaves it alone.
LEMMA StepImplements ==
  TypeOK /\ Consistent /\ [Next]_vars => [Abstract!StoreNext]_published
<1> SUFFICES ASSUME TypeOK, Consistent, [Next]_vars
             PROVE  Abstract!StoreNext \/ UNCHANGED published
  OBVIOUS
<1>1. ASSUME UNCHANGED store PROVE UNCHANGED published
  BY <1>1 DEF published
<1>2. ASSUME NEW u \in Updaters, ServeWrite(u)
      PROVE  Abstract!StoreNext \/ UNCHANGED published
  <2>1. nrt[u] \in Requests
    BY <1>2 DEF ServeWrite, Requests
  <2>2. CASE Accepted(nrt[u])
    BY <1>2, <2>1, <2>2, ServedImplements DEF ServeWrite, Abstract!StoreNext
  <2>3. CASE ~Accepted(nrt[u])
    BY <1>1, <1>2, <2>3 DEF ServeWrite, ServerVars
  <2> QED BY <2>2, <2>3
<1>3. ASSUME ServeOrphan PROVE Abstract!StoreNext \/ UNCHANGED published
  <2>1. PICK request \in orphans :
          IF Accepted(request) THEN Apply(request) ELSE UNCHANGED ServerVars
    BY <1>3 DEF ServeOrphan
  <2>2. request \in Requests
    BY DEF Requests
  <2>3. CASE Accepted(request)
    BY <2>1, <2>2, <2>3, ServedImplements DEF Abstract!StoreNext
  <2>4. CASE ~Accepted(request)
    BY <1>1, <2>1, <2>4 DEF ServerVars
  <2> QED BY <2>3, <2>4
<1>4. ASSUME ForeignWrite PROVE Abstract!StoreNext
  BY <1>4, ForeignWriteImplements DEF Abstract!StoreNext
<1>5. ASSUME Delete PROVE Abstract!StoreNext
  <2>1. store \in Objects /\ store # NoObject /\ store' = NoObject
    BY <1>5 DEF Delete, TypeOK
  <2>2. Content(store) \in Contents
    BY <2>1 DEF Content, Contents, Objects
  <2>3. Content(store) # NoObject
    BY <2>2, NRTAssumption
  <2> QED BY <2>1, <2>3 DEF Abstract!StoreNext, Abstract!Remove, published
<1>6. ASSUME NEW u \in Updaters,
             Event(u) \/ GetNotFound(u) \/ GetFound(u) \/ ReadKubeletConfig(u)
               \/ ReturnNil(u) \/ Exit(u) \/ Restart(u)
      PROVE  UNCHANGED store
  BY <1>6 DEF Event, GetNotFound, GetFound, ReadKubeletConfig, ReturnNil, Exit,
              Restart, ServerVars
<1>7. ASSUME NodeChange \/ KubeletConfigChange \/ UNCHANGED vars
      PROVE  UNCHANGED store
  BY <1>7 DEF NodeChange, KubeletConfigChange, vars, ServerVars
<1> QED
  BY <1>1, <1>2, <1>3, <1>4, <1>5, <1>6, <1>7 DEF Next, UpdaterStep, Environment

\* Publication, with any number of processes, crashes and late requests,
\* implements the atomic read-modify-write object of NRTStore.
THEOREM PublisherImplementsStore == Spec => ImplementsStore
<1>1. Init => Abstract!StoreInit
  BY DEF Init, Abstract!StoreInit, published
<1>2. TypeOK /\ Consistent /\ [Next]_vars => [Abstract!StoreNext]_published
  BY StepImplements
<1> QED BY <1>1, <1>2, Invariant, PTL DEF Spec, ImplementsStore, Abstract!StoreSpec

-----------------------------------------------------------------------------
(* One process never takes the object back.  The order of the code matters:   *)
(* it scans first and gets the object afterwards, so what it writes over is   *)
(* never newer than its scan.                                                 *)

OneUpdater == \A u, v \in Updaters : u = v

Ordered(request) ==
  /\ request.zones <= node
  /\ store # NoObject /\ store.resourceVersion = request.resourceVersion
       => store.zones <= request.zones

\* Between its scan and its Get, a process has scanned everything that may still
\* reach the store.
ScanCovers(u) ==
  /\ store # NoObject => store.zones <= scan[u].zones
  /\ \A request \in orphans : request.zones <= scan[u].zones

StoreBounded == store # NoObject => store.zones <= node
ScansBounded == \A u \in Updaters : scan[u].zones <= node
RequestsOrdered == \A request \in Requests : Ordered(request)
BuildsOrdered == \A u \in Updaters : pc[u] = "config" => Ordered(nrt[u])
ScansCover == \A u \in Updaters : pc[u] = "get" => ScanCovers(u)

Order ==
  StoreBounded /\ ScansBounded /\ RequestsOrdered /\ BuildsOrdered /\ ScansCover

\* How a step can change the stored zones: by an accepted request only.
StoredBy(request) ==
  /\ request \in Requests
  /\ Accepted(request)
  /\ store'.zones = request.zones

ZonesMove ==
  store' # NoObject =>
    \/ store # NoObject /\ store'.zones = store.zones
    \/ \E request \in Requests : StoredBy(request)

\* Serving a request stores the zones of that request or changes nothing.
LEMMA ServedZones ==
  ASSUME TypeOK, NEW request \in Requests, Accepted(request), Apply(request)
  PROVE  ZonesMove
<1>1. CASE store = request
  BY <1>1 DEF Apply, ServerVars, ZonesMove
<1>2. CASE store # request
  <2>1. store' = [request EXCEPT !.resourceVersion = lastRV + 1]
    BY <1>2 DEF Apply
  <2>2. store'.zones = request.zones
    BY <2>1, RequestsType DEF Objects
  <2> QED BY <2>2 DEF ZonesMove, StoredBy
<1> QED BY <1>1, <1>2

\* Every step moves node, server and zones in one of these ways.
LEMMA StepMoves ==
  ASSUME TypeOK, Consistent, [Next]_vars
  PROVE  ServerMoves /\ ZonesMove /\ node' \in {node, node + 1}
<1>1. ASSUME UNCHANGED <<store, lastRV>> PROVE ServerMoves /\ ZonesMove
  BY <1>1 DEF ServerMoves, ZonesMove
<1>2. ASSUME NEW u \in Updaters, ServeWrite(u)
      PROVE  ServerMoves /\ ZonesMove /\ node' = node
  <2>1. nrt[u] \in Requests
    BY <1>2 DEF ServeWrite, Requests
  <2>2. CASE Accepted(nrt[u])
    BY <1>2, <2>1, <2>2, Served, ServedZones DEF ServeWrite
  <2>3. CASE ~Accepted(nrt[u])
    BY <1>1, <1>2, <2>3 DEF ServeWrite, ServerVars
  <2> QED BY <2>2, <2>3
<1>3. ASSUME ServeOrphan PROVE ServerMoves /\ ZonesMove /\ node' = node
  <2>1. PICK request \in orphans :
          /\ IF Accepted(request) THEN Apply(request) ELSE UNCHANGED ServerVars
          /\ UNCHANGED node
    BY <1>3 DEF ServeOrphan
  <2>2. request \in Requests
    BY DEF Requests
  <2>3. CASE Accepted(request)
    BY <2>1, <2>2, <2>3, Served, ServedZones
  <2>4. CASE ~Accepted(request)
    BY <1>1, <2>1, <2>4 DEF ServerVars
  <2> QED BY <2>1, <2>3, <2>4
<1>4. ASSUME ForeignWrite PROVE ServerMoves /\ ZonesMove /\ node' = node
  BY <1>4, ForeignWriteFacts DEF ServerMoves, ZonesMove, ForeignWrite
<1>5. ASSUME Delete PROVE ServerMoves /\ ZonesMove /\ node' = node
  BY <1>5 DEF Delete, ServerMoves, ZonesMove
<1>6. ASSUME NEW u \in Updaters,
             Event(u) \/ GetNotFound(u) \/ GetFound(u) \/ ReadKubeletConfig(u)
               \/ ReturnNil(u) \/ Exit(u) \/ Restart(u)
      PROVE  UNCHANGED <<store, lastRV>> /\ node' = node
  BY <1>6 DEF Event, GetNotFound, GetFound, ReadKubeletConfig, ReturnNil, Exit,
              Restart, ServerVars
<1>7. ASSUME NodeChange \/ KubeletConfigChange \/ UNCHANGED vars
      PROVE  UNCHANGED <<store, lastRV>> /\ node' \in {node, node + 1}
  BY <1>7 DEF NodeChange, KubeletConfigChange, vars, ServerVars
<1> QED
  BY <1>1, <1>2, <1>3, <1>4, <1>5, <1>6, <1>7 DEF Next, UpdaterStep, Environment

\* What is sent or being built stays no older than the store.
LEMMA OrderedKept ==
  ASSUME TypeOK, ServerMoves, node' \in {node, node + 1},
         NEW request \in Objects, request.resourceVersion <= lastRV,
         Ordered(request)
  PROVE  Ordered(request)'
<1>1. /\ lastRV \in Nat /\ request.resourceVersion \in Nat
      /\ node \in Nat /\ request.zones \in Nat
  BY PublisherAssumption DEF TypeOK, Objects, Versions
<1>2. request.zones <= node'
  BY <1>1 DEF Ordered
<1>3. store' # NoObject /\ store'.resourceVersion = request.resourceVersion
        => store' = store
  BY <1>1 DEF ServerMoves
<1> QED BY <1>2, <1>3 DEF Ordered

\* An accepted request never takes the store back, nor beyond the node.
LEMMA AcceptedInOrder ==
  ASSUME TypeOK, Order, NEW request, StoredBy(request)
  PROVE  /\ store'.zones <= node
         /\ store # NoObject => store.zones <= store'.zones
BY DEF StoredBy, Order, RequestsOrdered, Ordered, Accepted

\* While a process waits for its Get, its scan goes on covering the store.
LEMMA ScanCoversKept ==
  ASSUME TypeOK, Consistent, Order, OneUpdater, [Next]_vars,
         NEW u \in Updaters, pc[u] = "get", pc'[u] = "get"
  PROVE  scan'[u] = scan[u] /\ ScanCovers(u)'
<1>1. /\ ScanCovers(u) /\ Requests = orphans
  BY DEF Order, ScansCover, Requests, OneUpdater
<1>2. scan'[u] = scan[u] /\ orphans' \subseteq orphans
  <2>1. ASSUME NEW v \in Updaters, UpdaterStep(v)
        PROVE  scan'[u] = scan[u] /\ orphans' \subseteq orphans
    <3>1. v = u
      BY DEF OneUpdater
    <3> QED BY <2>1, <3>1
            DEF UpdaterStep, Event, GetNotFound, GetFound, ReadKubeletConfig,
                ReturnNil, Exit, Restart, ServeWrite, TypeOK
  <2>2. ASSUME Environment \/ UNCHANGED vars
        PROVE  scan'[u] = scan[u] /\ orphans' \subseteq orphans
    BY <2>2 DEF Environment, ServeOrphan, ForeignWrite, Delete, NodeChange,
                KubeletConfigChange, ProcessVars, vars
  <2> QED BY <2>1, <2>2 DEF Next
<1>3. store' # NoObject => store'.zones <= scan[u].zones
  BY <1>1, StepMoves DEF ZonesMove, StoredBy, ScanCovers
<1> QED BY <1>1, <1>2, <1>3 DEF ScanCovers

\* The initial state is ordered: nothing is stored, built or sent.
LEMMA OrderInit == Init => Order
<1> SUFFICES ASSUME Init PROVE Order
  OBVIOUS
<1>1. Requests = {}
  BY DEF Init, Requests
<1>2. \A u \in Updaters : scan[u].zones <= node
  BY ScanFacts, PublisherAssumption DEF Init
<1> QED BY <1>1, <1>2 DEF Init, Order, StoreBounded, ScansBounded, RequestsOrdered,
                          BuildsOrdered, ScansCover

\* The requests that a step sends are built from a Get that its scan covers.
LEMMA OrderStep ==
  TypeOK /\ Consistent /\ Order /\ OneUpdater /\ [Next]_vars => Order'
<1> SUFFICES ASSUME TypeOK, Consistent, Order, OneUpdater, [Next]_vars PROVE Order'
  OBVIOUS
<1>1. ServerMoves /\ ZonesMove /\ node' \in {node, node + 1} /\ node \in Nat
  BY StepMoves, PublisherAssumption DEF TypeOK
<1>2. \A u \in Updaters : scan[u].zones \in Nat /\ nrt[u] \in Objects
  BY DEF TypeOK, Scans, Versions
<1>3. StoreBounded'
  <2>1. store # NoObject => store.zones \in Nat
    BY DEF TypeOK, Objects, Versions
  <2>2. \A request \in Requests : request.zones \in Nat
    BY RequestsType DEF Objects, Versions
  <2>3. ASSUME store' # NoObject PROVE store'.zones <= node /\ store'.zones \in Nat
    BY <1>1, <2>1, <2>2, <2>3, AcceptedInOrder
       DEF ZonesMove, StoredBy, Order, StoreBounded
  <2> QED BY <1>1, <2>3 DEF StoreBounded
<1>4. \A u \in Updaters : scan'[u].zones \in {0, node, scan[u].zones}
  <2>1. ScanOf(0).zones = 0 /\ ScanOf(node).zones = node
    BY DEF ScanOf
  <2>2. ASSUME NEW v \in Updaters, UpdaterStep(v), NEW u \in Updaters
        PROVE  scan'[u].zones \in {0, node, scan[u].zones}
    <3>1. CASE Event(v)
      BY <2>1, <3>1 DEF Event, TypeOK
    <3>2. CASE ReturnNil(v) \/ Exit(v)
      BY <2>1, <3>2 DEF ReturnNil, Exit, Forget, TypeOK
    <3>3. CASE ServeWrite(v)
      BY <2>1, <3>3 DEF ServeWrite, Forget, ProcessVars, TypeOK
    <3>4. CASE GetNotFound(v) \/ GetFound(v) \/ ReadKubeletConfig(v) \/ Restart(v)
      BY <3>4 DEF GetNotFound, GetFound, ReadKubeletConfig, Restart, ProcessVars
    <3> QED BY <2>2, <3>1, <3>2, <3>3, <3>4 DEF UpdaterStep
  <2>3. ASSUME Environment \/ UNCHANGED vars PROVE scan' = scan
    BY <2>3 DEF Environment, ServeOrphan, ForeignWrite, Delete, NodeChange,
                KubeletConfigChange, ProcessVars, vars
  <2> QED BY <2>2, <2>3 DEF Next
<1>5. ScansBounded'
  BY <1>1, <1>2, <1>4 DEF Order, ScansBounded
<1>6. \A request \in Requests : Ordered(request)'
  BY <1>1, RequestsType, OrderedKept
     DEF Order, RequestsOrdered, Consistent, RequestsVersioned
<1>7. ASSUME NEW u \in Updaters, pc[u] = "config" PROVE Ordered(nrt[u]) /\
             (\A object \in Objects : object = nrt[u] => Ordered(object)')
  BY <1>1, <1>2, <1>7, OrderedKept
     DEF Order, BuildsOrdered, Consistent, BuildsCurrent, BuiltFrom
<1>8. ASSUME NEW u \in Updaters, GetNotFound(u) \/ GetFound(u) \/ ReadKubeletConfig(u)
      PROVE  Ordered(nrt[u])'
  <2>1. UNCHANGED <<store, node>>
    BY <1>8 DEF GetNotFound, GetFound, ReadKubeletConfig, ServerVars
  <2>2. scan[u] \in Scans /\ scan[u].zones <= node
    BY DEF TypeOK, Order, ScansBounded
  <2>3. CASE GetNotFound(u)
    <3>1. nrt'[u] = NewObject(scan[u].zones) /\ store = NoObject
      BY <2>3 DEF GetNotFound, TypeOK
    <3>2. nrt'[u].zones = scan[u].zones
      BY <2>2, <3>1, NewObjectFacts DEF Scans
    <3> QED BY <2>1, <2>2, <3>1, <3>2 DEF Ordered
  <2>4. CASE GetFound(u)
    <3> DEFINE copy == CopyWithZones(store, scan[u].zones)
    <3>1. /\ pc[u] = "get" /\ store \in Objects /\ store # NoObject
          /\ nrt'[u] \in {copy, MergeScan(copy, scan[u].fingerprint)}
      BY <2>4 DEF GetFound, TypeOK
    <3>2. copy \in Objects /\ copy.zones = scan[u].zones
      BY <2>2, <3>1, CopyFacts DEF Scans
    <3> HIDE DEF copy
    <3>3. nrt'[u].zones = scan[u].zones
      BY <2>2, <3>1, <3>2, MergeFacts DEF Scans
    <3>4. store.zones <= scan[u].zones
      BY <3>1 DEF Order, ScansCover, ScanCovers
    <3> QED BY <2>1, <2>2, <3>3, <3>4 DEF Ordered
  <2>5. CASE ReadKubeletConfig(u)
    <3> DEFINE configured == UpdateNRTTopologyManagerInfo(nrt[u], kubeletConfig)
    <3>1. /\ pc[u] = "config"
          /\ nrt'[u] = MergeScan(configured, scan[u].fingerprint)
      BY <2>5 DEF ReadKubeletConfig, TypeOK
    <3>2. /\ configured \in Objects /\ configured.zones = nrt[u].zones
          /\ configured.resourceVersion = nrt[u].resourceVersion
      BY <1>2, ConfigureFacts DEF TypeOK
    <3> HIDE DEF configured
    <3>3. /\ nrt'[u].zones = nrt[u].zones
          /\ nrt'[u].resourceVersion = nrt[u].resourceVersion
      BY <2>2, <3>1, <3>2, MergeFacts DEF Scans
    <3> QED BY <1>7, <2>1, <3>1, <3>3 DEF Ordered
  <2> QED BY <1>8, <2>3, <2>4, <2>5
<1>9. ASSUME NEW v \in Updaters, pc'[v] \in {"config", "wait"}
      PROVE  Ordered(nrt[v])'
  <2>1. CASE GetNotFound(v) \/ GetFound(v) \/ ReadKubeletConfig(v)
    BY <1>8, <2>1
  <2>2. CASE ~(GetNotFound(v) \/ GetFound(v) \/ ReadKubeletConfig(v))
    <3>1. pc'[v] = pc[v] /\ nrt'[v] = nrt[v]
      <4>1. ASSUME NEW u \in Updaters, UpdaterStep(u)
            PROVE  pc'[v] = pc[v] /\ nrt'[v] = nrt[v]
        <5>1. u = v
          BY DEF OneUpdater
        <5> QED BY <1>9, <2>2, <4>1, <5>1
                DEF UpdaterStep, Event, ReturnNil, Exit, Restart, ServeWrite, TypeOK
      <4>2. ASSUME Environment \/ UNCHANGED vars
            PROVE  pc'[v] = pc[v] /\ nrt'[v] = nrt[v]
        BY <4>2 DEF Environment, ServeOrphan, ForeignWrite, Delete, NodeChange,
                    KubeletConfigChange, ProcessVars, vars
      <4> QED BY <4>1, <4>2 DEF Next
    <3>2. CASE pc[v] = "config"
      <4>1. \A object \in Objects : object = nrt[v] => Ordered(object)'
        BY <1>7, <3>2
      <4> QED BY <1>2, <3>1, <4>1 DEF Ordered
    <3>3. CASE pc[v] = "wait"
      <4>1. nrt[v] \in Requests
        BY <3>3 DEF Requests
      <4> QED BY <1>6, <3>1, <4>1 DEF Ordered
    <3> QED BY <1>9, <3>1, <3>2, <3>3
  <2> QED BY <2>1, <2>2
<1>10. RequestsOrdered'
  <2>1. ASSUME NEW request \in orphans' PROVE Ordered(request)'
    <3>1. orphans' \subseteq Requests
      <4>1. ASSUME NEW u \in Updaters, UpdaterStep(u) PROVE orphans' \subseteq Requests
        BY <4>1 DEF UpdaterStep, Event, GetNotFound, GetFound, ReadKubeletConfig,
                    ReturnNil, Exit, Restart, ServeWrite, Requests
      <4>2. ASSUME Environment \/ UNCHANGED vars PROVE orphans' \subseteq Requests
        BY <4>2 DEF Environment, ServeOrphan, ForeignWrite, Delete, NodeChange,
                    KubeletConfigChange, vars, Requests
      <4> QED BY <4>1, <4>2 DEF Next
    <3> QED BY <1>6, <3>1
  <2>2. ASSUME NEW v \in Updaters, pc'[v] = "wait" PROVE Ordered(nrt[v])'
    BY <1>9, <2>2
  <2> QED BY <2>1, <2>2 DEF RequestsOrdered, Requests, Ordered
<1>11. BuildsOrdered'
  BY <1>9 DEF BuildsOrdered
<1>12. ASSUME NEW u \in Updaters, pc'[u] = "get" PROVE ScanCovers(u)'
  <2>1. CASE pc[u] = "get"
    BY <1>12, <2>1, ScanCoversKept
  <2>2. CASE pc[u] # "get"
    <3>1. Event(u)
      <4>1. ASSUME NEW v \in Updaters, UpdaterStep(v) PROVE Event(u)
        <5>1. v = u
          BY DEF OneUpdater
        <5> QED BY <1>12, <2>2, <4>1, <5>1
                DEF UpdaterStep, GetNotFound, GetFound, ReadKubeletConfig,
                    ReturnNil, Exit, Restart, ServeWrite, TypeOK
      <4>2. ASSUME Environment \/ UNCHANGED vars PROVE FALSE
        BY <1>12, <2>2, <4>2
           DEF Environment, ServeOrphan, ForeignWrite, Delete, NodeChange,
               KubeletConfigChange, vars
      <4> QED BY <4>1, <4>2 DEF Next
    <3>2. scan'[u].zones = node /\ UNCHANGED <<store, orphans>>
      BY <3>1 DEF Event, ScanOf, TypeOK, ServerVars
    <3>3. /\ store # NoObject => store.zones <= node
          /\ \A request \in orphans : request.zones <= node
      BY DEF Order, StoreBounded, RequestsOrdered, Requests, Ordered
    <3> QED BY <3>2, <3>3 DEF ScanCovers
  <2> QED BY <2>1, <2>2
<1> QED BY <1>3, <1>5, <1>10, <1>11, <1>12 DEF Order, ScansCover

\* With one updater process at a time, however often it crashes and restarts and
\* however late its abandoned requests are served, the stored zones never go
\* back to an older state of the node.
THEOREM OneUpdaterNeverRegresses ==
  ASSUME OneUpdater
  PROVE  Spec => NoRegress
<1>1. Init => Order
  BY OrderInit
<1>2. TypeOK /\ Consistent /\ Order /\ [Next]_vars => Order'
  BY OrderStep
<1>3. TypeOK /\ Consistent /\ Order /\ [Next]_vars
        => [store # NoObject /\ store' # NoObject => store'.zones >= store.zones]_vars
  <2> SUFFICES ASSUME TypeOK, Consistent, Order, [Next]_vars,
                      store # NoObject, store' # NoObject
               PROVE  store'.zones >= store.zones
    OBVIOUS
  <2>1. store.zones \in Nat
    BY DEF TypeOK, Objects, Versions
  <2>2. \A request \in Requests : request.zones \in Nat
    BY RequestsType DEF Objects, Versions
  <2> QED BY <2>1, <2>2, StepMoves, AcceptedInOrder DEF ZonesMove, StoredBy
<1> QED BY <1>1, <1>2, <1>3, Invariant, PTL DEF Spec, NoRegress

-----------------------------------------------------------------------------
(* Zones and fingerprint come from one scan, while every scan has pods.    *)

Fingerprinted == store # NoObject => store.attributes.podFingerprint = store.zones

\* Only an accepted request changes zones or fingerprint, and it sets both.
LEMMA ServedFingerprint ==
  ASSUME TypeOK, Consistent, Fingerprinted, EmptyNodes = {},
         NEW request \in Requests, Accepted(request), Apply(request)
  PROVE  Fingerprinted'
<1>1. CASE store = request
  BY <1>1 DEF Apply, ServerVars, Fingerprinted
<1>2. CASE store # request
  <2>1. store' = [request EXCEPT !.resourceVersion = lastRV + 1]
    BY <1>2 DEF Apply
  <2>2. store'.zones = request.zones /\ store'.attributes = request.attributes
    BY <2>1, RequestsType DEF Objects
  <2>3. PICK s \in NodeScans, config \in KubeletConfigs \cup {Absent} :
          \/ /\ store = NoObject /\ IsCreate(request) /\ config # Absent
             /\ request = Mutation(NewObject(s.zones), s, config)
          \/ /\ store \in Objects /\ store # NoObject /\ ~IsCreate(request)
             /\ request = Mutation(store, s, config)
    BY AcceptedIsMutation
  <2>4. s \in Scans /\ s.fingerprint = s.zones /\ s.fingerprint # Absent
    <3>1. PICK version \in 0..MaxNode : s = ScanOf(version)
      BY DEF NodeScans
    <3>2. s.fingerprint = version /\ s.zones = version /\ s \in Scans
      BY <3>1, ScanFacts DEF ScanOf
    <3> QED BY <3>2, NRTAssumption DEF Versions
  <2>5. NewObject(s.zones) \in Objects
    BY <2>4, NewObjectFacts DEF Scans
  <2> QED BY <2>2, <2>3, <2>4, <2>5, MutationFacts DEF Fingerprinted
<1> QED BY <1>1, <1>2

\* Every step keeps fingerprints with the zones of their scan.
LEMMA FingerprintStep ==
  ASSUME EmptyNodes = {}
  PROVE  TypeOK /\ Consistent /\ Fingerprinted /\ [Next]_vars => Fingerprinted'
<1> SUFFICES ASSUME TypeOK, Consistent, Fingerprinted, [Next]_vars
             PROVE  Fingerprinted'
  OBVIOUS
<1>1. ASSUME UNCHANGED store PROVE Fingerprinted'
  BY <1>1 DEF Fingerprinted
<1>2. ASSUME NEW u \in Updaters, ServeWrite(u) PROVE Fingerprinted'
  <2>1. nrt[u] \in Requests
    BY <1>2 DEF ServeWrite, Requests
  <2> QED BY <1>1, <1>2, <2>1, ServedFingerprint DEF ServeWrite, ServerVars
<1>3. ASSUME ServeOrphan PROVE Fingerprinted'
  <2>1. PICK request \in orphans :
          IF Accepted(request) THEN Apply(request) ELSE UNCHANGED ServerVars
    BY <1>3 DEF ServeOrphan
  <2> QED BY <1>1, <2>1, ServedFingerprint DEF Requests, ServerVars
<1>4. ASSUME ForeignWrite PROVE Fingerprinted'
  <2>1. store'.attributes.podFingerprint = store.attributes.podFingerprint
    BY <1>4, ForeignWriteFacts DEF Objects, Attributes
  <2> QED BY <1>4, <2>1, ForeignWriteFacts DEF Fingerprinted
<1>5. ASSUME Delete PROVE Fingerprinted'
  BY <1>5 DEF Delete, Fingerprinted
<1>6. ASSUME NEW u \in Updaters,
             Event(u) \/ GetNotFound(u) \/ GetFound(u) \/ ReadKubeletConfig(u)
               \/ ReturnNil(u) \/ Exit(u) \/ Restart(u)
      PROVE  UNCHANGED store
  BY <1>6 DEF Event, GetNotFound, GetFound, ReadKubeletConfig, ReturnNil, Exit,
              Restart, ServerVars
<1>7. ASSUME NodeChange \/ KubeletConfigChange \/ UNCHANGED vars
      PROVE  UNCHANGED store
  BY <1>7 DEF NodeChange, KubeletConfigChange, vars, ServerVars
<1> QED
  BY <1>1, <1>2, <1>3, <1>4, <1>5, <1>6, <1>7 DEF Next, UpdaterStep, Environment

\* While every scan lists a pod, the published fingerprint is always that of the
\* scan the published zones come from.
THEOREM FingerprintsMatch ==
  ASSUME EmptyNodes = {}
  PROVE  Spec => []FingerprintMatchesZones
<1>1. Init => Fingerprinted
  BY DEF Init, Fingerprinted
<1>2. TypeOK /\ Consistent /\ Fingerprinted /\ [Next]_vars => Fingerprinted'
  BY FingerprintStep
<1>3. Fingerprinted => FingerprintMatchesZones
  BY DEF Fingerprinted, FingerprintMatchesZones
<1> QED BY <1>1, <1>2, <1>3, Invariant, PTL DEF Spec

=============================================================================
