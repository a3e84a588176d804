------------------------------ MODULE NRTStore ------------------------------
(***************************************************************************)
(* What the updater promises of the NodeResourceTopology object of a node, *)
(* with no process, request or resource version in sight: every change the *)
(* updater makes is one atomic read-modify-write, computed from one scan   *)
(* and at most one reading of the kubelet configuration, that keeps what   *)
(* other clients own.  Publisher implements it.                            *)
(***************************************************************************)
EXTENDS NRT

CONSTANT PossibleScans \* the scan results a node can yield

VARIABLE object \* Contents, or NoObject

StoreInit == object = NoObject

Create ==
  /\ object = NoObject
  /\ \E scan \in PossibleScans, config \in KubeletConfigs :
       object' = Content(Mutation(NewObject(scan.zones), scan, config))

Update ==
  /\ object # NoObject
  /\ \E scan \in PossibleScans, config \in KubeletConfigs \cup {Absent} :
       object' = Mutation(object, scan, config)

ForeignUpdate ==
  /\ object # NoObject
  /\ \E value \in ForeignValues :
       object' = [object EXCEPT !.attributes.foreign = value]

Remove ==
  /\ object # NoObject
  /\ object' = NoObject

StoreNext == Create \/ Update \/ ForeignUpdate \/ Remove

StoreSpec == StoreInit /\ [][StoreNext]_object

=============================================================================
