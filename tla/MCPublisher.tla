---------------------------- MODULE MCPublisher ----------------------------
(***************************************************************************)
(* Values of Publisher's constants for TLC.                                *)
(***************************************************************************)
EXTENDS Publisher, TLC

\* Two configurations that differ in policy and in scope.
MCKubeletConfigs ==
  {[policy |-> "single-numa-node", scope |-> "pod"],
   [policy |-> "restricted", scope |-> "container"]}

MCNoEmptyNodes == {}
MCEmptiedNode == {1}

\* The processes run the same code and no property tells them apart.
MCSymmetry == Permutations(Updaters)

=============================================================================
