--------------------------- MODULE ScannerProofs ---------------------------
(***************************************************************************)
(* Proofs about Scanner, for any names and specifications of pods: that a  *)
(* scan is of one moment, and reports each device that its pods hold.      *)
(***************************************************************************)
EXTENDS Scanner, TLAPS

\* What the kubelet lists of a pod that holds something.
Held(spec) == Holding(Listed(spec))

\* Pods for which a scan can be of one moment: not those with whole CPUs beside a
\* container without (they are reported without CPUs), nor those that hold memory
\* alone (they are not watched).
Plain(spec) ==
  /\ HasExclusiveCPUs(spec)
       \/ \A i \in DOMAIN spec.containers : Listed(spec)[i].cpus = 0
  /\ DOMAIN Held(spec) # {} => HasExclusiveCPUs(spec) \/ HasDevice(Listed(spec))

\* Where the CPUs are all whole or none is held, a container is reported as it is listed.
LEMMA ReportedIsHeld ==
  ASSUME NEW spec, Plain(spec)
  PROVE  Reported(spec, Listed(spec)) = Held(spec)
<1> DEFINE containers == Listed(spec)
           Of(c) == [c EXCEPT !.cpus = IF HasExclusiveCPUs(spec) THEN @ ELSE 0]
<1>1. containers = [i \in DOMAIN spec.containers |-> containers[i]]
  BY DEF Listed
<1>2. ASSUME NEW i \in DOMAIN spec.containers
      PROVE  Of(containers[i]) = containers[i]
  <2>1. containers[i] = [cpus |-> containers[i].cpus, devices |-> containers[i].devices,
                         memory |-> containers[i].memory]
    BY DEF Listed, Resources
  <2>2. HasExclusiveCPUs(spec) \/ containers[i].cpus = 0
    BY DEF Plain
  <2> HIDE DEF containers
  <2> QED BY <2>1, <2>2
<1>3. DOMAIN containers = DOMAIN spec.containers
  BY DEF Listed
<1> HIDE DEF containers, Of
<1>4. [i \in DOMAIN containers |-> Of(containers[i])] = containers
  BY <1>1, <1>2, <1>3
<1>5. Reported(spec, containers) = Holding([i \in DOMAIN containers |-> Of(containers[i])])
  BY DEF Reported, Of
<1> QED BY <1>4, <1>5 DEF Held, containers

Reportable(pod) == Watches(pod.spec.namespace) /\ DOMAIN Held(pod.spec) # {}

ReportOf(pod) == [name |-> pod.name, containers |-> Held(pod.spec)]

\* A pod that is the only one of its name there can be is reported as it was listed once
\* it has been looked up.
AsListed(pod) ==
  \A r : r \in report /\ r.name = pod.name
           <=> pod \notin todo /\ Reportable(pod) /\ r = ReportOf(pod)

\* What ScanOfOneMoment rests on: the pods the API server and the kubelet have, and
\* those listed, are of their names' specifications, a name is listed once, and
\* the fingerprint and the report are those of the list.
ScanInv ==
  /\ DOMAIN api = Names /\ DOMAIN kubelet = Names
  /\ \A name \in Names : /\ api[name] \in SpecsOf[name] \cup {NoPod}
                         /\ kubelet[name] \in SpecsOf[name] \cup {NoPod}
  /\ \A pod \in list : pod.name \in Names /\ pod.spec \in SpecsOf[pod.name]
  /\ \A pod, other \in list : pod.name = other.name => pod = other
  /\ todo \subseteq list
  /\ pc # "lookup" => todo = {}
  /\ pc \in {"lookup", "done"} => /\ fingerprint = Fingerprint(list)
                                  /\ \A pod \in OwnName : AsListed(pod)

\* There are no pods at first, and no scan.
LEMMA ScanInit == Init => ScanInv
BY DEF Init, ScanInv

\* The List of a scan has a pod for each name the kubelet knows.
LEMMA ListKeepsScanInv ==
  ASSUME ScanInv, List
  PROVE  ScanInv'
<1> DEFINE listing == {[name |-> name, spec |-> kubelet[name]] :
                         name \in {n \in Names : kubelet[n] # NoPod}}
<1>1. /\ list' = listing /\ todo' = listing
      /\ fingerprint' = Fingerprint(list') /\ report' = {} /\ pc' = "lookup"
      /\ UNCHANGED <<api, kubelet>>
  BY DEF List
<1>2. \A pod \in listing : pod.name \in Names /\ pod.spec \in SpecsOf[pod.name]
  BY DEF ScanInv
<1>3. \A pod, other \in listing : pod.name = other.name => pod = other
  OBVIOUS
<1> HIDE DEF listing
<1>4. \A pod \in OwnName' : AsListed(pod)'
  BY <1>1 DEF OwnName, AsListed
<1>5. (fingerprint = Fingerprint(list))'
  BY <1>1 DEF Fingerprint
<1> QED BY <1>1, <1>2, <1>3, <1>4, <1>5 DEF ScanInv

\* A scan that fails keeps nothing.
LEMMA FailKeepsScanInv ==
  ASSUME ScanInv, Fail, UNCHANGED <<api, kubelet>>
  PROVE  ScanInv'
BY DEF ScanInv, Fail

\* What a lookup adds: the report of the pod, as it was listed if GetPod cannot have
\* answered with another.
LEMMA LookupAdds ==
  ASSUME ScanInv, NEW pod \in todo, Lookup(pod),
         \A name \in Names : \A spec \in SpecsOf[name] : Plain(spec)
  PROVE  /\ report \subseteq report'
         /\ \A r \in report' \ report : r.name = pod.name
         /\ pod \in OwnName =>
              report' = report \cup (IF Reportable(pod) THEN {ReportOf(pod)} ELSE {})
<1>1. report' = With(pod, api[pod.name])
  BY DEF Lookup
<1>2. /\ report \subseteq report'
      /\ \A r \in report' \ report : r.name = pod.name
  BY <1>1 DEF With
<1>3. ASSUME pod \in OwnName
      PROVE  report' = report \cup (IF Reportable(pod) THEN {ReportOf(pod)} ELSE {})
  <2>1. /\ pod.name \in Names /\ pod.spec \in SpecsOf[pod.name]
        /\ api[pod.name] = pod.spec
    BY <1>3 DEF OwnName, ScanInv, Lookup
  <2>2. Plain(pod.spec)
    BY <2>1
  <2>3. Reported(pod.spec, Listed(pod.spec)) = Held(pod.spec)
    BY <2>2, ReportedIsHeld
  <2>4. DOMAIN Held(pod.spec) # {}
          => (IsWatchable(pod.spec.namespace, pod.spec, Listed(pod.spec))
                <=> Watches(pod.spec.namespace))
    BY <2>2 DEF Plain, IsWatchable
  <2> QED BY <1>1, <2>1, <2>3, <2>4 DEF With, Reportable, ReportOf
<1> QED BY <1>2, <1>3

\* A turn of the loop reports the pod it looked up and changes no other's report.
LEMMA LookupKeepsScanInv ==
  ASSUME ScanInv, NEW pod \in todo, Lookup(pod),
         \A name \in Names : \A spec \in SpecsOf[name] : Plain(spec)
  PROVE  ScanInv'
<1>1. /\ UNCHANGED <<api, kubelet, pc, list, fingerprint>>
      /\ todo' = todo \ {pod} /\ pod \in list
  BY DEF Lookup, ScanInv
<1>2. ASSUME NEW own \in OwnName, AsListed(own)
      PROVE  AsListed(own)'
  <2>1. CASE own = pod
    <3>1. \A r : ~(r \in report /\ r.name = own.name)
      BY <1>2, <2>1 DEF AsListed
    <3>2. report' = report \cup (IF Reportable(own) THEN {ReportOf(own)} ELSE {})
      BY <2>1, LookupAdds
    <3>3. ReportOf(own).name = own.name
      BY DEF ReportOf
    <3>4. own \notin todo'
      BY <1>1, <2>1
    <3> QED BY <3>1, <3>2, <3>3, <3>4 DEF AsListed
  <2>2. CASE own # pod
    <3>1. own.name # pod.name
      BY <1>1, <2>2 DEF OwnName, ScanInv
    <3>2. \A r : r.name = own.name => (r \in report' <=> r \in report)
      BY <3>1, LookupAdds
    <3>3. own \in todo' <=> own \in todo
      BY <1>1, <2>2
    <3> QED BY <1>2, <3>2, <3>3 DEF AsListed
  <2> QED BY <2>1, <2>2
<1>3. OwnName' = OwnName
  BY <1>1 DEF OwnName
<1>4. pc' \in {"lookup", "done"} => \A own \in OwnName' : AsListed(own)'
  BY <1>1, <1>2, <1>3 DEF ScanInv
<1>5. Fingerprint(list)' = Fingerprint(list)
  BY <1>1 DEF Fingerprint
<1> QED BY <1>1, <1>4, <1>5 DEF ScanInv

\* Steps that leave the scan alone.
LEMMA PodsKeepScanInv ==
  ASSUME ScanInv, UNCHANGED scanVars, DOMAIN api' = Names, DOMAIN kubelet' = Names,
         \A name \in Names : /\ api'[name] \in SpecsOf[name] \cup {NoPod}
                             /\ kubelet'[name] \in SpecsOf[name] \cup {NoPod}
  PROVE  ScanInv'
<1>1. UNCHANGED <<pc, list, todo, fingerprint, report>>
  BY DEF scanVars
<1>2. OwnName' = OwnName /\ Fingerprint(list)' = Fingerprint(list)
  BY <1>1 DEF OwnName, Fingerprint
<1>3. \A pod \in OwnName : AsListed(pod)' <=> AsListed(pod)
  BY <1>1 DEF AsListed
<1> QED BY <1>1, <1>2, <1>3 DEF ScanInv

\* No step of the scan, and no pod that comes or goes, disturbs ScanInv.
LEMMA ScanStep ==
  ASSUME \A name \in Names : \A spec \in SpecsOf[name] : Plain(spec)
  PROVE  ScanInv /\ [Next]_vars => ScanInv'
<1> SUFFICES ASSUME ScanInv, [Next]_vars PROVE ScanInv'
  OBVIOUS
<1>1. CASE List
  BY <1>1, ListKeepsScanInv
<1>2. CASE ListFails \/ LookupFails
  BY <1>2, FailKeepsScanInv DEF ListFails, LookupFails
<1>3. ASSUME NEW pod \in todo, Lookup(pod) PROVE ScanInv'
  BY <1>3, LookupKeepsScanInv
<1>4. CASE Return
  <2>1. UNCHANGED <<api, kubelet, list, todo, fingerprint, report>>
    BY <1>4 DEF Return
  <2>2. pc = "lookup" /\ todo = {}
    BY <1>4 DEF Return
  <2>3. OwnName' = OwnName /\ Fingerprint(list)' = Fingerprint(list)
    BY <2>1 DEF OwnName, Fingerprint
  <2>4. \A pod \in OwnName : AsListed(pod)' <=> AsListed(pod)
    BY <2>1 DEF AsListed
  <2> QED BY <2>1, <2>2, <2>3, <2>4 DEF ScanInv
<1>5. CASE Pods
  <2> PICK name \in Names :
        CreatePod(name) \/ StartPod(name) \/ StopPod(name) \/ DeletePod(name)
    BY <1>5 DEF Pods
  <2>1. CASE CreatePod(name)
    BY <2>1, PodsKeepScanInv DEF CreatePod, ScanInv
  <2>2. CASE StartPod(name)
    BY <2>2, PodsKeepScanInv DEF StartPod, ScanInv
  <2>3. CASE StopPod(name)
    BY <2>3, PodsKeepScanInv DEF StopPod, ScanInv
  <2>4. CASE DeletePod(name)
    BY <2>4, PodsKeepScanInv DEF DeletePod, ScanInv
  <2> QED BY <2>1, <2>2, <2>3, <2>4
<1>6. CASE UNCHANGED vars
  BY <1>6, PodsKeepScanInv DEF vars, ScanInv
<1> QED BY <1>1, <1>2, <1>3, <1>4, <1>5, <1>6 DEF Next, Scan

\* When all pods are looked up the report is what was held when they were listed.
LEMMA ScanInvIsOneMoment == ScanInv => ScanOfOneMoment
<1> SUFFICES ASSUME ScanInv, pc = "done" PROVE ScanOfOneMoment
  BY DEF ScanOfOneMoment
<1>1. todo = {} /\ fingerprint = Fingerprint(list) /\ \A pod \in OwnName : AsListed(pod)
  BY DEF ScanInv
<1>2. Holdings = {ReportOf(pod) : pod \in {p \in OwnName : Reportable(p)}}
  BY DEF Holdings, ReportOf, Reportable, Held
<1>3. ASSUME NEW r \in report, NEW pod \in OwnName, r.name = pod.name
      PROVE  Reportable(pod) /\ r = ReportOf(pod)
  BY <1>1, <1>3 DEF AsListed
<1>4. ASSUME NEW pod \in OwnName, Reportable(pod)
      PROVE  ReportOf(pod) \in report /\ ReportOf(pod).name = pod.name
  BY <1>1, <1>4 DEF AsListed
<1>5. {r \in report : \E pod \in OwnName : r.name = pod.name} = Holdings
  BY <1>2, <1>3, <1>4
<1>6. PodFingerprint /\ list # {} => fingerprint = {pod.name : pod \in list}
  BY <1>1 DEF Fingerprint
<1> QED BY <1>5, <1>6 DEF ScanOfOneMoment

\* However pods come and go between the List and the GetPods, a scan that succeeds
\* reports what was held at the List, where no pod has whole CPUs beside a
\* container without, or memory alone (PodResourcesScanner.Scan).
THEOREM ScanOfOneMomentHolds ==
  ASSUME \A name \in Names : \A spec \in SpecsOf[name] : Plain(spec)
  PROVE  Spec => []ScanOfOneMoment
<1>1. ScanInv /\ [Next]_vars => ScanInv'
  BY ScanStep
<1> QED BY <1>1, ScanInit, ScanInvIsOneMoment, PTL DEF Spec

-----------------------------------------------------------------------------
(* Devices, whatever pod GetPod answers with.                              *)

\* The devices of a listed pod are in the report as they were listed.
ReportsDevices(pod) ==
  LET held == Listed(pod.spec)
  IN  \E r \in report :
        /\ r.name = pod.name
        /\ BesideCPUs(r.containers) = BesideCPUs(held)
        /\ \A i \in DOMAIN r.containers : r.containers[i].cpus \in {0, held[i].cpus}

\* What DevicesReported rests on: it holds of every pod looked up so far.
DevicesInv ==
  /\ todo # {} => pc = "lookup"
  /\ pc \in {"lookup", "done"} =>
       \A pod \in list \ todo :
         Watches(pod.spec.namespace) /\ HasDevice(Listed(pod.spec)) => ReportsDevices(pod)

\* Any specification leaves of the listed containers all but their CPUs, and those
\* that have more than CPUs.
LEMMA ReportedBesideCPUs ==
  ASSUME NEW spec, NEW listed
  PROVE  LET held == Listed(listed)
             reported == Reported(spec, held)
         IN  /\ BesideCPUs(reported) = BesideCPUs(held)
             /\ \A i \in DOMAIN reported : reported[i].cpus \in {0, held[i].cpus}
             /\ HasDevice(held) => DOMAIN reported # {}
<1> DEFINE held == Listed(listed)
           CPUs(c) == IF HasExclusiveCPUs(spec) THEN c.cpus ELSE 0
           Of(c) == [c EXCEPT !.cpus = CPUs(c)]
           Beside(c) == [c EXCEPT !.cpus = 0]
           reported == Reported(spec, held)
<1>1. /\ DOMAIN reported = {i \in DOMAIN held : HoldsSomething(Of(held[i]))}
      /\ \A i \in DOMAIN reported : i \in DOMAIN held /\ reported[i] = Of(held[i])
  BY DEF Reported, Holding
<1>2. ASSUME NEW i \in DOMAIN held
      PROVE  /\ Of(held[i]) = [cpus |-> CPUs(held[i]), devices |-> held[i].devices,
                               memory |-> held[i].memory]
             /\ Beside(held[i]) = [cpus |-> 0, devices |-> held[i].devices,
                                   memory |-> held[i].memory]
  BY DEF Listed, Resources
<1> HIDE DEF held, reported
<1>3. ASSUME NEW i \in DOMAIN held
      PROVE  /\ Beside(Of(held[i])) = Beside(held[i])
             /\ HoldsSomething(Beside(held[i])) => HoldsSomething(Of(held[i]))
             /\ held[i].devices # {} => HoldsSomething(Of(held[i]))
             /\ Of(held[i]).cpus \in {0, held[i].cpus}
  <2> DEFINE of == [cpus |-> CPUs(held[i]), devices |-> held[i].devices,
                    memory |-> held[i].memory]
  <2>1. Beside(of) = [cpus |-> 0, devices |-> held[i].devices, memory |-> held[i].memory]
    OBVIOUS
  <2>2. ~(0 > 0)
    OBVIOUS
  <2>3. HoldsSomething(Beside(of)) => held[i].devices # {} \/ held[i].memory > 0
    BY <2>1, <2>2 DEF HoldsSomething
  <2>4. held[i].devices # {} \/ held[i].memory > 0 => HoldsSomething(of)
    BY DEF HoldsSomething
  <2>5. of.cpus \in {0, held[i].cpus}
    OBVIOUS
  <2> HIDE DEF of, Of, Beside
  <2>6. Of(held[i]) = of /\ Beside(held[i]) = Beside(of)
    BY <1>2, <2>1 DEF of
  <2> QED BY <2>3, <2>4, <2>5, <2>6
<1> HIDE DEF Of, Beside
<1>4. {i \in DOMAIN reported : HoldsSomething(Beside(reported[i]))}
        = {i \in DOMAIN held : HoldsSomething(Beside(held[i]))}
  BY <1>1, <1>3
<1>5. BesideCPUs(reported)
        = [i \in {j \in DOMAIN reported : HoldsSomething(Beside(reported[j]))} |->
             Beside(reported[i])]
  BY DEF BesideCPUs, Holding, Beside
<1>6. BesideCPUs(held)
        = [i \in {j \in DOMAIN held : HoldsSomething(Beside(held[j]))} |-> Beside(held[i])]
  BY DEF BesideCPUs, Holding, Beside
<1>7. \A i \in DOMAIN reported : Beside(reported[i]) = Beside(held[i])
  BY <1>1, <1>3
<1>8. BesideCPUs(reported) = BesideCPUs(held)
  BY <1>4, <1>5, <1>6, <1>7
<1>9. HasDevice(held) => DOMAIN reported # {}
  BY <1>1, <1>3 DEF HasDevice
<1> QED BY <1>1, <1>3, <1>8, <1>9 DEF held, reported

\* So a pod looked up is in the report, whatever the specification found is.
LEMMA LookupReportsDevices ==
  ASSUME NEW pod \in todo, Lookup(pod),
         Watches(pod.spec.namespace), HasDevice(Listed(pod.spec))
  PROVE  ReportsDevices(pod)'
<1> DEFINE spec == api[pod.name]
           reported == Reported(spec, Listed(pod.spec))
           entry == [name |-> pod.name, containers |-> reported]
<1>1. /\ BesideCPUs(reported) = BesideCPUs(Listed(pod.spec))
      /\ \A i \in DOMAIN reported : reported[i].cpus \in {0, Listed(pod.spec)[i].cpus}
      /\ DOMAIN reported # {}
  BY ReportedBesideCPUs
<1>2. report' = With(pod, spec)
  BY DEF Lookup
<1>3. IsWatchable(pod.spec.namespace, spec, Listed(pod.spec))
  BY DEF IsWatchable
<1>4. entry \in report'
  BY <1>1, <1>2, <1>3 DEF With
<1> HIDE DEF reported
<1> QED BY <1>1, <1>4 DEF ReportsDevices

\* What has been looked up stays reported: a lookup only adds to the report.
LEMMA DevicesStep == DevicesInv /\ [Next]_vars => DevicesInv'
<1> SUFFICES ASSUME DevicesInv, [Next]_vars PROVE DevicesInv'
  OBVIOUS
<1>1. CASE List
  BY <1>1 DEF List, DevicesInv
<1>2. CASE ListFails \/ LookupFails
  BY <1>2 DEF ListFails, LookupFails, Fail, DevicesInv
<1>3. ASSUME NEW pod \in todo, Lookup(pod) PROVE DevicesInv'
  <2>1. UNCHANGED <<pc, list>> /\ todo' = todo \ {pod} /\ report \subseteq report'
    BY <1>3 DEF Lookup, With
  <2>2. ASSUME NEW other, ReportsDevices(other) PROVE ReportsDevices(other)'
    BY <2>1, <2>2 DEF ReportsDevices
  <2>3. \A other \in list' \ todo' : other = pod \/ other \in list \ todo
    BY <2>1
  <2>4. Watches(pod.spec.namespace) /\ HasDevice(Listed(pod.spec)) => ReportsDevices(pod)'
    BY <1>3, LookupReportsDevices
  <2> QED BY <2>1, <2>2, <2>3, <2>4 DEF DevicesInv
<1>4. CASE Return \/ Pods \/ UNCHANGED vars
  <2>1. /\ UNCHANGED <<list, todo, report>>
        /\ pc' = pc \/ (pc = "lookup" /\ todo = {})
    BY <1>4 DEF Return, Pods, CreatePod, StartPod, StopPod, DeletePod, vars, scanVars
  <2>2. ASSUME NEW other PROVE ReportsDevices(other)' <=> ReportsDevices(other)
    BY <2>1 DEF ReportsDevices
  <2> QED BY <2>1, <2>2 DEF DevicesInv
<1> QED BY <1>1, <1>2, <1>3, <1>4 DEF Next, Scan

\* The devices of every listed pod that is watched, and the memory pinned beside them, are
\* reported as they were listed, and no CPUs but those listed, even when another pod
\* has taken the name before GetPod (PodResourcesScanner.Scan, isWatchable). Nothing is
\* assumed of the specifications.
THEOREM DevicesReportedHolds == Spec => []DevicesReported
<1>1. Init => DevicesInv
  BY DEF Init, DevicesInv
<1>2. DevicesInv => DevicesReported
  <2> SUFFICES ASSUME DevicesInv, pc = "done", NEW pod \in list,
                      Watches(pod.spec.namespace), HasDevice(Listed(pod.spec))
               PROVE  ReportsDevices(pod)
    BY DEF DevicesReported, ReportsDevices
  <2> QED BY DEF DevicesInv
<1> QED BY <1>1, <1>2, DevicesStep, PTL DEF Spec

=============================================================================
