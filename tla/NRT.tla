-------------------------------- MODULE NRT --------------------------------
(***************************************************************************)
(* The NodeResourceTopology object that the topology updater publishes:    *)
(* its fields, the attribute merge of the updater and the topology manager *)
(* policy it derives from the kubelet configuration.                       *)
(*                                                                         *)
(* Data are abstracted to what the properties tell apart.  A zone list is  *)
(* the version of the node's allocation state it was computed from, a pod  *)
(* fingerprint the version of the pod set it was computed from (the hash   *)
(* is taken to be injective).  An attribute list is a record with one      *)
(* field per attribute name, `Absent` where the list has no entry.  The    *)
(* field `foreign` stands for every field and attribute of the object that *)
(* the updater does not own (labels, annotations, other attributes).       *)
(***************************************************************************)
EXTENDS Naturals

CONSTANTS
  KubeletConfigs, \* kubelet configurations: records [policy, scope] of strings
  ForeignValues,  \* what another client may store in the fields it owns
  Absent,         \* "no entry in the attribute list", "nil"
  NoObject        \* "the API server has no such object"

Versions == Nat

PolicyNames ==
  {"SingleNUMANodePodLevel", "RestrictedPodLevel", "BestEffortPodLevel",
   "SingleNUMANodeContainerLevel", "RestrictedContainerLevel",
   "BestEffortContainerLevel", "None"}

Attributes ==
  [topologyManagerPolicy : STRING \cup {Absent},
   topologyManagerScope  : STRING \cup {Absent},
   podFingerprint        : Versions \cup {Absent},
   foreign               : ForeignValues \cup {Absent}]

\* Everything of an object but its resource version.
Contents ==
  [zones            : Versions,
   attributes       : Attributes,
   topologyPolicies : PolicyNames \cup {Absent}]

\* An object as the API server stores it.  Resource version 0 is that of an
\* object not yet created.
Objects ==
  [resourceVersion  : Nat,
   zones            : Versions,
   attributes       : Attributes,
   topologyPolicies : PolicyNames \cup {Absent}]

Content(object) ==
  [zones |-> object.zones, attributes |-> object.attributes,
   topologyPolicies |-> object.topologyPolicies]

\* The result of one scan: the zones aggregated from it and the fingerprint of
\* the pod set it listed.
Scans == [zones : Versions, fingerprint : Versions \cup {Absent}]

\* The constants are distinguishable from the values they stand beside.
ASSUME NRTAssumption ==
  /\ KubeletConfigs \subseteq [policy : STRING, scope : STRING]
  /\ Absent \notin STRING
  /\ Absent \notin Versions
  /\ Absent \notin ForeignValues
  /\ Absent \notin KubeletConfigs
  /\ NoObject \notin Contents
  /\ NoObject \notin Objects

-----------------------------------------------------------------------------
NoAttributes ==
  [topologyManagerPolicy |-> Absent, topologyManagerScope |-> Absent,
   podFingerprint |-> Absent, foreign |-> Absent]

\* updateAttribute: an entry of the right list replaces the value of the same
\* name or is appended; names the right list lacks keep their value.
UpdateAttribute(old, new) == IF new = Absent THEN old ELSE new

UpdateAttributes(lhs, rhs) ==
  [topologyManagerPolicy |->
     UpdateAttribute(lhs.topologyManagerPolicy, rhs.topologyManagerPolicy),
   topologyManagerScope |->
     UpdateAttribute(lhs.topologyManagerScope, rhs.topologyManagerScope),
   podFingerprint |-> UpdateAttribute(lhs.podFingerprint, rhs.podFingerprint),
   foreign |-> UpdateAttribute(lhs.foreign, rhs.foreign)]

CreateTopologyAttributes(config) ==
  [NoAttributes EXCEPT !.topologyManagerPolicy = config.policy,
                       !.topologyManagerScope  = config.scope]

\* The attributes of a scan: the pod fingerprint, when there is one.
ScanAttributes(fingerprint) ==
  [NoAttributes EXCEPT !.podFingerprint = fingerprint]

DetectPolicyPodScope(policy) ==
  CASE policy = "single-numa-node" -> "SingleNUMANodePodLevel"
    [] policy = "restricted"       -> "RestrictedPodLevel"
    [] policy = "best-effort"      -> "BestEffortPodLevel"
    [] OTHER                       -> "None"

DetectPolicyContainerScope(policy) ==
  CASE policy = "single-numa-node" -> "SingleNUMANodeContainerLevel"
    [] policy = "restricted"       -> "RestrictedContainerLevel"
    [] policy = "best-effort"      -> "BestEffortContainerLevel"
    [] OTHER                       -> "None"

\* Fault: the kubelet's name of the policy is used as it is.
RawPolicy(policy, scope) == policy

DetectTopologyPolicy(policy, scope) ==
  CASE scope = "pod"       -> DetectPolicyPodScope(policy)
    [] scope = "container" -> DetectPolicyContainerScope(policy)
    [] OTHER               -> "None"

-----------------------------------------------------------------------------
\* The object built when the server has none, and the copy of the one it has.
NewObject(zones) ==
  [resourceVersion |-> 0, zones |-> zones, attributes |-> NoAttributes,
   topologyPolicies |-> Absent]

\* Fault: an object built anew under the version of the one found.
FreshCopy(nrt, zones) ==
  [NewObject(zones) EXCEPT !.resourceVersion = nrt.resourceVersion]

CopyWithZones(nrt, zones) == [nrt EXCEPT !.zones = zones]

\* Fault: the deprecated policy field is set once.
PolicySetOnce(nrt, config) ==
  [nrt EXCEPT
     !.attributes = UpdateAttributes(@, CreateTopologyAttributes(config)),
     !.topologyPolicies =
       IF @ = Absent THEN DetectTopologyPolicy(config.policy, config.scope) ELSE @]

\* updateNRTTopologyManagerInfo, once the kubelet configuration is read.
UpdateNRTTopologyManagerInfo(nrt, config) ==
  [nrt EXCEPT
     !.attributes = UpdateAttributes(@, CreateTopologyAttributes(config)),
     !.topologyPolicies = DetectTopologyPolicy(config.policy, config.scope)]

\* Fault: an attribute the object has already is not replaced.
MergeScanOnce(nrt, fingerprint) ==
  IF nrt.attributes.podFingerprint # Absent
    THEN nrt
    ELSE [nrt EXCEPT !.attributes.podFingerprint = fingerprint]

\* The last step before a write: the attributes of the scan are merged in.
MergeScan(nrt, fingerprint) ==
  [nrt EXCEPT !.attributes = UpdateAttributes(@, ScanAttributes(fingerprint))]

\* The configuration is read on interval events and for new objects only;
\* `Absent` is "not read".
Configure(nrt, config) ==
  IF config = Absent THEN nrt ELSE UpdateNRTTopologyManagerInfo(nrt, config)

\* The whole of updateNodeResourceTopology's work on an object.
Mutation(nrt, scan, config) ==
  MergeScan(Configure(CopyWithZones(nrt, scan.zones), config), scan.fingerprint)

=============================================================================
