------------------------------ MODULE Scanner ------------------------------
(***************************************************************************)
(* PodResourcesScanner.Scan: one List of the kubelet's pod resources, then *)
(* a GetPod at the API server for each pod of it, while pods come and go   *)
(* at both.                                                                *)
(*                                                                         *)
(* A pod specification is a record                                         *)
(*   namespace       the pod's namespace                                   *)
(*   guaranteed      whether limits equal requests in all its containers   *)
(*   initContainers  sequence of containers                                *)
(*   containers      sequence of containers                                *)
(* and a container [cpu, devices, memory]: the CPU it requests in          *)
(* thousandths (0 for none), the devices it is given and the memory pinned *)
(* for it.                                                                 *)
(***************************************************************************)
EXTENDS Integers, Sequences, FiniteSets

CONSTANTS
  Names,            \* names of pods
  SpecsOf,          \* name -> the specifications it may be created with
  WatchNamespace,   \* "*", or the one namespace whose pods are reported
  PodFingerprint,   \* whether the fingerprint is asked for
  NoPod,            \* "no such pod"
  Absent            \* "no fingerprint in the attributes"

ASSUME ScannerAssumption ==
  /\ PodFingerprint \in BOOLEAN
  /\ \A name \in Names : NoPod \notin SpecsOf[name]

VARIABLES
  api,         \* the pods the API server has
  kubelet,     \* the pods the kubelet reports resources of
  pc,          \* "idle", "lookup" (between List and the last GetPod),
               \* or how the last scan ended: "done" or "failed"
  list,        \* the pods of the List, as [name, spec]
  todo,        \* those of them not looked up yet
  fingerprint, \* the set of names the fingerprint was computed from
  report       \* the pods reported, as [name, containers]; a container has its place
               \* in the specification as its name

scanVars == <<pc, list, todo, fingerprint, report>>
vars == <<api, kubelet, scanVars>>

Ended == {"idle", "done", "failed"}

-----------------------------------------------------------------------------
\* Quantity.Value of thousandths rounds up.
Value(milli) == (milli + 999) \div 1000

HasIntegralCPUs(container) == Value(container.cpu) * 1000 = container.cpu

HasExclusiveCPUs(spec) ==
  LET containers == spec.initContainers \o spec.containers
  IN  /\ \A i \in DOMAIN containers : HasIntegralCPUs(containers[i])
      /\ \E i \in DOMAIN containers : Value(containers[i].cpu) # 0

\* What the kubelet gives a container: whole CPUs in guaranteed pods only.
Resources(spec, container) ==
  [cpus |-> IF spec.guaranteed /\ HasIntegralCPUs(container)
              THEN Value(container.cpu) ELSE 0,
   devices |-> container.devices,
   memory |-> container.memory]

\* The containers of a pod in the kubelet's answer.  Init containers are not
\* listed.
Listed(spec) ==
  [i \in DOMAIN spec.containers |-> Resources(spec, spec.containers[i])]

HasDevice(containers) == \E i \in DOMAIN containers : containers[i].devices # {}

Watches(namespace) == WatchNamespace = "*" \/ WatchNamespace = namespace

\* Fault: a device counts only in a pod with exclusive CPUs.
IsWatchableByCPUs(namespace, spec, containers) ==
  Watches(namespace) /\ HasExclusiveCPUs(spec)

\* isWatchable: `spec` is what GetPod returned.
IsWatchable(namespace, spec, containers) ==
  Watches(namespace) /\ (HasExclusiveCPUs(spec) \/ HasDevice(containers))

HoldsSomething(resources) ==
  resources.cpus > 0 \/ resources.devices # {} \/ resources.memory > 0

\* The containers that hold something.
Holding(containers) ==
  [i \in {j \in DOMAIN containers : HoldsSomething(containers[j])} |-> containers[i]]

\* What is reported of a listed pod: its containers that hold something, their
\* CPUs only when the specification asks for whole CPUs.
Reported(spec, containers) ==
  Holding([i \in DOMAIN containers |->
             [containers[i] EXCEPT !.cpus = IF HasExclusiveCPUs(spec) THEN @ ELSE 0]])

\* computePodFingerprint takes every pod listed; there is none without a pod.
Fingerprint(pods) ==
  IF PodFingerprint /\ pods # {} THEN {pod.name : pod \in pods} ELSE Absent

-----------------------------------------------------------------------------
Init ==
  /\ api = [name \in Names |-> NoPod]
  /\ kubelet = [name \in Names |-> NoPod]
  /\ pc = "idle"
  /\ list = {} /\ todo = {} /\ report = {}
  /\ fingerprint = Absent

\* A scan starts: the List answers.
List ==
  /\ pc \in Ended
  /\ list' = {[name |-> name, spec |-> kubelet[name]] :
                name \in {n \in Names : kubelet[n] # NoPod}}
  /\ todo' = list'
  /\ fingerprint' = Fingerprint(list')
  /\ report' = {}
  /\ pc' = "lookup"
  /\ UNCHANGED <<api, kubelet>>

\* An error is returned; what was gathered is dropped.
Fail ==
  /\ pc' = "failed"
  /\ list' = {} /\ todo' = {} /\ report' = {}
  /\ fingerprint' = Absent

ListFails ==
  /\ pc \in Ended
  /\ Fail
  /\ UNCHANGED <<api, kubelet>>

\* The report with what a listed pod adds to it, `spec` being GetPod's answer.
With(pod, spec) ==
  LET containers == Listed(pod.spec)
      reported == Reported(spec, containers)
  IN  IF IsWatchable(pod.spec.namespace, spec, containers) /\ DOMAIN reported # {}
        THEN report \cup {[name |-> pod.name, containers |-> reported]}
        ELSE report

\* Fault: a pod that is gone is passed over.
LookupSkipping(pod) ==
  /\ pod \in todo
  /\ todo' = todo \ {pod}
  /\ report' = IF api[pod.name] = NoPod THEN report ELSE With(pod, api[pod.name])
  /\ UNCHANGED <<api, kubelet, pc, list, fingerprint>>

\* GetPod finds a pod of that name.
Lookup(pod) ==
  /\ pod \in todo
  /\ api[pod.name] # NoPod
  /\ todo' = todo \ {pod}
  /\ report' = With(pod, api[pod.name])
  /\ UNCHANGED <<api, kubelet, pc, list, fingerprint>>

\* GetPod finds none, or fails.
LookupFails ==
  /\ pc = "lookup"
  /\ todo # {}
  /\ Fail
  /\ UNCHANGED <<api, kubelet>>

Return ==
  /\ pc = "lookup"
  /\ todo = {}
  /\ pc' = "done"
  /\ UNCHANGED <<api, kubelet, list, todo, fingerprint, report>>

-----------------------------------------------------------------------------
(* Pods come and go.                                                       *)

CreatePod(name) ==
  /\ api[name] = NoPod
  /\ \E spec \in SpecsOf[name] : api' = [api EXCEPT ![name] = spec]
  /\ UNCHANGED <<kubelet, scanVars>>

\* The kubelet starts the pod and gives it its resources.
StartPod(name) ==
  /\ api[name] # NoPod
  /\ kubelet[name] = NoPod
  /\ kubelet' = [kubelet EXCEPT ![name] = api[name]]
  /\ UNCHANGED <<api, scanVars>>

StopPod(name) ==
  /\ kubelet[name] # NoPod
  /\ kubelet' = [kubelet EXCEPT ![name] = NoPod]
  /\ UNCHANGED <<api, scanVars>>

\* The API server forgets the pod: usually after the kubelet stopped it, before
\* that when the deletion is forced.
DeletePod(name) ==
  /\ api[name] # NoPod
  /\ api' = [api EXCEPT ![name] = NoPod]
  /\ UNCHANGED <<kubelet, scanVars>>

Pods ==
  \E name \in Names :
    CreatePod(name) \/ StartPod(name) \/ StopPod(name) \/ DeletePod(name)

Scan ==
  \/ List \/ ListFails
  \/ \E pod \in todo : Lookup(pod)
  \/ LookupFails \/ Return

Next == Scan \/ Pods

Spec == Init /\ [][Next]_vars

-----------------------------------------------------------------------------
(* Properties.                                                             *)

\* The pods of the list whose name no pod of another specification ever has.
OwnName == {pod \in list : SpecsOf[pod.name] = {pod.spec}}

\* What those of the watched namespaces held when they were listed.
Holdings ==
  {[name |-> pod.name, containers |-> Holding(Listed(pod.spec))] :
     pod \in {p \in OwnName : /\ Watches(p.spec.namespace)
                              /\ DOMAIN Holding(Listed(p.spec)) # {}}}

\* A scan that succeeds is of one moment, though the pods are looked up one by one
\* later on: it reports all that the listed pods held then and no more, exclusive
\* CPUs, devices and pinned memory, and its fingerprint covers every pod of that
\* moment, those that hold nothing or are not watched too.
ScanOfOneMoment ==
  pc = "done" =>
    /\ {r \in report : \E pod \in OwnName : r.name = pod.name} = Holdings
    /\ PodFingerprint /\ list # {} => fingerprint = {pod.name : pod \in list}

\* What containers hold beside CPUs.
BesideCPUs(containers) ==
  Holding([i \in DOMAIN containers |-> [containers[i] EXCEPT !.cpus = 0]])

\* The devices of a watched pod, and the memory pinned beside them, are reported as
\* they were listed even when GetPod answers with another pod, created under that
\* name since; and no CPU is reported that was not held.
DevicesReported ==
  pc = "done" =>
    \A pod \in list :
      LET held == Listed(pod.spec)
      IN  Watches(pod.spec.namespace) /\ HasDevice(held) =>
            \E r \in report :
              /\ r.name = pod.name
              /\ BesideCPUs(r.containers) = BesideCPUs(held)
              /\ \A i \in DOMAIN r.containers : r.containers[i].cpus \in {0, held[i].cpus}

\* hasExclusiveCPUs, as its comment has it: true of a guaranteed pod when it is
\* allocated exclusive CPUs, else false.
ExclusiveCPUsSeen ==
  \A pod \in list :
    pod.spec.guaranteed =>
      (HasExclusiveCPUs(pod.spec)
         <=> \E i \in DOMAIN pod.spec.containers : Listed(pod.spec)[i].cpus > 0)

=============================================================================
