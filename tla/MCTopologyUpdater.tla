------------------------- MODULE MCTopologyUpdater -------------------------
(***************************************************************************)
(* Values of TopologyUpdater's constants for TLC.                          *)
(***************************************************************************)
EXTENDS TopologyUpdater, CommandLine

\* Two configurations that differ in policy and in scope.
MCKubeletConfigs ==
  {[policy |-> "single-numa-node", scope |-> "pod"],
   [policy |-> "restricted", scope |-> "container"]}

MCOneConfig == {[policy |-> "single-numa-node", scope |-> "pod"]}

\* With an interval: a daemon as it is by default, one without a state directory and
\* fingerprints, and one-shot processes, one of which publishes nothing.
MCInterval ==
  ArgsOf({<<>>, [podsFingerprint |-> FALSE, kubeletStateDir |-> FALSE],
          [oneshot |-> TRUE, kubeletStateDir |-> FALSE],
          [oneshot |-> TRUE, noPublish |-> TRUE, kubeletStateDir |-> FALSE],
          [noPublish |-> TRUE, kubeletConfigURI |-> "http"]}, TRUE)

\* A daemon that lives on file events, with and without ticks beside them; one
\* that has no URI for the kubelet's configuration does not start.
MCWatching ==
  ArgsOf({[sleepInterval |-> FALSE, kubeletConfigURI |-> "file"],
          "kubeletConfigURI" :> "https",
          [noPublish |-> TRUE]}, FALSE)

\* A one-shot process without an interval.
MCOneshotWatching == ArgsOf({[oneshot |-> TRUE, sleepInterval |-> FALSE]}, TRUE)

MCForeignValues == {}

\* The second list of pods is empty; later ones are not.
MCEmptyPods == {1}

=============================================================================
