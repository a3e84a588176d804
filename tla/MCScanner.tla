----------------------------- MODULE MCScanner -----------------------------
(***************************************************************************)
(* Pods for TLC's runs of Scanner.                                         *)
(***************************************************************************)
EXTENDS Scanner, TLC

Container(cpu, devices, memory) == [cpu |-> cpu, devices |-> devices, memory |-> memory]

Pod(namespace, guaranteed, initContainers, containers) ==
  [namespace |-> namespace, guaranteed |-> guaranteed,
   initContainers |-> initContainers, containers |-> containers]

\* Whole CPUs with memory pinned beside them, a device in a sidecar.
Whole == Pod("default", TRUE, <<Container(1000, {}, 0)>>,
             <<Container(2000, {}, 1), Container(1000, {"gpu0"}, 0)>>)

\* A fraction of a CPU and a device.
Fraction == Pod("default", FALSE, <<>>, <<Container(500, {"gpu1"}, 0)>>)

\* Whole CPUs requested without a limit: the kubelet gives none exclusively.
Burstable == Pod("default", FALSE, <<>>, <<Container(2000, {}, 0)>>)

\* Two that share a name: with and without whole CPUs.
Former == Pod("default", TRUE, <<>>, <<Container(1000, {"gpu2"}, 1), Container(1000, {}, 1)>>)
Latter == Pod("default", FALSE, <<>>, <<Container(250, {"gpu2"}, 0)>>)

\* As Whole, in a namespace nobody watches.
Elsewhere == Pod("kube-system", TRUE, <<>>, <<Container(1000, {}, 0)>>)

\* A guaranteed pod, one container with whole CPUs and one with a fraction.
Mixed == Pod("default", TRUE, <<>>, <<Container(2000, {}, 0), Container(500, {}, 0)>>)

MCNames == {"whole", "fraction", "burstable", "elsewhere", "reused"}
MCSpecsOf ==
  ("whole" :> {Whole}) @@ ("fraction" :> {Fraction}) @@
  ("burstable" :> {Burstable}) @@ ("elsewhere" :> {Elsewhere}) @@
  ("reused" :> {Former, Latter})

MCMixedName == {"mixed"}
MCMixedSpec == "mixed" :> {Mixed}

=============================================================================
