---------------------------- MODULE CommandLine ----------------------------
(***************************************************************************)
(* The command line of the updater, as far as it steers the loop and the   *)
(* notifier: `given` maps the flags that were given to their values, and   *)
(* `nodeAddress` says whether NODE_ADDRESS is set.  sleepInterval stands   *)
(* for "positive", kubeletStateDir for "not empty", kubeletConfigURI for   *)
(* the scheme of the URI, or "" for none.                                  *)
(***************************************************************************)
EXTENDS TLC

InitFlags ==
  [oneshot |-> FALSE, noPublish |-> FALSE, podsFingerprint |-> TRUE,
   sleepInterval |-> TRUE, kubeletStateDir |-> TRUE, kubeletConfigURI |-> ""]

\* Without a URI the kubelet's secure port at NODE_ADDRESS is asked.
ParseArgs(given, nodeAddress) ==
  LET flags == given @@ InitFlags
  IN  IF flags.kubeletConfigURI = "" /\ nodeAddress
        THEN [flags EXCEPT !.kubeletConfigURI = "https"] ELSE flags

\* Schemes getKubeletConfigFunc knows; with any other, and with no URI at all,
\* the process exits before it watches anything.
Accepts(given, nodeAddress) ==
  ParseArgs(given, nodeAddress).kubeletConfigURI \in {"file", "https"}

\* The arguments of the processes that start.
ArgsOf(commandLines, nodeAddress) ==
  {LET parsed == ParseArgs(given, nodeAddress)
   IN  [oneshot |-> parsed.oneshot, noPublish |-> parsed.noPublish,
        podsFingerprint |-> parsed.podsFingerprint,
        sleepInterval |-> parsed.sleepInterval, kubeletStateDir |-> parsed.kubeletStateDir] :
     given \in {line \in commandLines : Accepts(line, nodeAddress)}}

=============================================================================
