---------------------- MODULE DeliveryRulesProofs ----------------------
(***************************************************************************)
(* Proofs about K8sRules and DeliveryRules, for any repository: what the   *)
(* findings of a rule look like, where its hits stand, and that following  *)
(* a recommendation leaves a repository.                                   *)
(***************************************************************************)
EXTENDS DeliveryRules, TLAPS, WellFoundedInduction, NaturalsInduction, SequenceTheorems

Rags == {"green", "amber", "red"}
Finding == [rule : Rules, place : Places, rag : Rags]

RedRules == {"PATCH-ARCH-001", "dockerfile-secret-leakage", "dockerfile-k8s-user-conflict",
             "istio-mtls-strict"}

\* Where a rule whose all-clears stand apart puts them, and no hits.
Apart(rule) ==
  {<<"project-wide">>, <<"all-workloads">>, <<"all-artifacts">>}
    \cup IF rule = "network-policy-missing" THEN {} ELSE {<<".">>}

\* The shapes of findings.
Shaped(f) ==
  /\ f.rule \notin AllClearsInPlace => (f.rag = "green" <=> f.place \in Apart(f.rule))
  /\ f.rag = "amber" => f.rule \notin RedRules
  /\ f.rag = "red" => f.rule \in RedRules \cup {"PATCH-HEALTH-001"}

\* The containers of a workload are named.
LEMMA ContainersNamed ==
  ASSUME NEW w \in Workload, NEW c \in DOMAIN w.containers
  PROVE  c \in Containers /\ w.containers[c] \in Container
<1>1. PICK C \in SUBSET Containers : w.containers \in [C -> Container]
  BY DEF Workload
<1> QED BY <1>1

LEMMA CollectedTyped ==
  ASSUME NEW m \in Manifests, NEW n \in Collected(m)
  PROVE  n \in Names /\ m.workloads[n] \in Workload
<1>1. m.workloads \in [Names -> Workload \cup {None}]
  BY DEF Manifests
<1> QED BY <1>1 DEF Collected

\* The places of hits are not those of all-clears.
LEMMA HitPlaces ==
  ASSUME NEW place \in (Names \X Containers) \cup {<<n>> : n \in Names}, NEW rule
  PROVE  place \in Places /\ place \notin Apart(rule)
<1>1. CASE place \in Names \X Containers
  <2>1. PICK n \in Names, c \in Containers : place = <<n, c>>
    BY <1>1
  <2>2. \A x : <<n, c>> # <<x>>
    <3>1. \A x : Len(<<n, c>>) = 2 /\ Len(<<x>>) = 1
      OBVIOUS
    <3> QED BY <3>1
  <2> QED BY <1>1, <2>1, <2>2 DEF Places, ManifestPlaces, Apart
<1>2. CASE place \in {<<n>> : n \in Names}
  <2>1. PICK n \in Names : place = <<n>>
    BY <1>2
  <2> QED BY <1>2, <2>1, K8sRulesAssumption DEF Places, ManifestPlaces, Apart
<1> QED BY <1>1, <1>2

\* Hits of the rules about single workloads.
LEMMA HitsOfShaped ==
  ASSUME NEW n \in Names, NEW w \in Workload, NEW rule \in WorkloadFieldRules,
         NEW f \in HitsOf(rule, n, w)
  PROVE  f \in Finding /\ Shaped(f) /\ f.rag # "green" /\ f.rule = rule
<1>1. Rag(rule, w) \in {"amber", "red"} /\ rule \in Rules /\ rule \notin AllClearsInPlace
  BY DEF Rag, Rules, ManifestRules, WorkloadFieldRules, AllClearsInPlace
<1>2. /\ Rag(rule, w) = "amber" => rule \notin RedRules
      /\ Rag(rule, w) = "red" => rule \in RedRules \cup {"PATCH-HEALTH-001"}
  BY DEF Rag, RedRules, WorkloadFieldRules
<1>3. PICK place \in (Names \X Containers) \cup {<<x>> : x \in Names} :
        f = Found(rule, place, Rag(rule, w))
  BY ContainersNamed DEF HitsOf
<1>4. f = [rule |-> rule, place |-> place, rag |-> Rag(rule, w)]
  BY <1>3 DEF Found
<1> QED BY <1>1, <1>2, <1>3, <1>4, HitPlaces DEF Finding, Rags, Shaped

\* All-clears that stand apart.
LEMMA AllClearShaped ==
  ASSUME NEW rule \in Rules,
         NEW place \in {<<"project-wide">>, <<"all-workloads">>, <<"all-artifacts">>, <<".">>},
         place \in Apart(rule)
  PROVE  Found(rule, place, "green") \in Finding /\ Shaped(Found(rule, place, "green"))
BY DEF Found, Finding, Shaped, Rags, Places, ManifestPlaces

\* Everything a scan finds in the manifests has its type and one of the shapes.
LEMMA ManifestFindingsShaped ==
  ASSUME NEW m \in Manifests, NEW f \in ManifestFindings(m)
  PROVE  f \in Finding /\ Shaped(f) /\ f.rule \in ManifestRules
<1>1. ASSUME NEW rule \in WorkloadFieldRules, f \in FieldRuleFindings(rule, m)
      PROVE  f \in Finding /\ Shaped(f) /\ f.rule \in ManifestRules
  <2>1. CASE f = AllClear(rule, Collected(m))
    <3>1. rule \in Rules /\ <<"project-wide">> \in Apart(rule)
      BY DEF Rules, ManifestRules, Apart
    <3>2. f.rule = rule
      BY <2>1 DEF AllClear, Found
    <3> QED BY <2>1, <3>1, <3>2, AllClearShaped DEF AllClear, AllClearPlace, ManifestRules
  <2>2. CASE \E n \in Collected(m) : f \in HitsOf(rule, n, m.workloads[n])
    BY <2>2, CollectedTyped, HitsOfShaped DEF ManifestRules
  <2> QED BY <1>1, <2>1, <2>2 DEF FieldRuleFindings, Judged
<1>2. ASSUME f \in NetworkPolicyFindings(m)
      PROVE  f \in Finding /\ Shaped(f) /\ f.rule \in ManifestRules
  <2>1. \/ f = Found("network-policy-missing", <<"project-wide">>, "green")
        \/ f = [rule |-> "network-policy-missing", place |-> <<".">>, rag |-> "amber"]
    BY <1>2 DEF NetworkPolicyFindings, Judged, AllClear, AllClearPlace, Found
  <2>2. "network-policy-missing" \in Rules /\ <<"project-wide">> \in Apart("network-policy-missing")
    BY DEF Rules, ManifestRules, Apart
  <2>3. CASE f = [rule |-> "network-policy-missing", place |-> <<".">>, rag |-> "amber"]
    <3>1. <<".">> \in Places /\ <<".">> \notin Apart("network-policy-missing")
      BY DEF Places, ManifestPlaces, Apart
    <3>2. f.rule = "network-policy-missing" /\ f.place = <<".">> /\ f.rag = "amber"
      BY <2>3
    <3>3. f \in Finding
      BY <2>2, <2>3, <3>1 DEF Finding, Rags
    <3> QED BY <2>2, <3>1, <3>2, <3>3 DEF Shaped, RedRules, ManifestRules
  <2>4. f.rule = "network-policy-missing"
    BY <2>1 DEF Found
  <2> QED BY <2>1, <2>2, <2>3, <2>4, AllClearShaped DEF ManifestRules
<1>3. ASSUME f \in PdbFindings(m)
      PROVE  f \in Finding /\ Shaped(f) /\ f.rule \in ManifestRules
  <2>1. \/ f = [rule |-> "PATCH-ARCH-004", place |-> <<"all-workloads">>, rag |-> "green"]
        \/ \E n \in Names, rag \in {"green", "amber"} :
             f = [rule |-> "PATCH-ARCH-004", place |-> <<n>>, rag |-> rag]
    BY <1>3 DEF PdbFindings, Found, Collected
  <2> QED BY <2>1 DEF Finding, Places, ManifestPlaces, Rags, Shaped, Rules, ManifestRules,
                      AllClearsInPlace, RedRules
<1>4. \/ \E rule \in WorkloadFieldRules : f \in FieldRuleFindings(rule, m)
      \/ f \in NetworkPolicyFindings(m) \/ f \in PdbFindings(m)
  BY DEF ManifestFindings
<1> QED BY <1>1, <1>2, <1>3, <1>4

\* A hit comes from a container, a workload, a budget or the policies.
LEMMA HitsComeFrom ==
  ASSUME NEW m \in Manifests, NEW hit \in ManifestFindings(m), hit.rag # "green"
  PROVE  \/ hit.rule = "network-policy-missing"
         \/ /\ hit.rule = "PATCH-ARCH-004"
            /\ \E n \in Collected(m) : hit.place = <<n>>
         \/ \E n \in Collected(m), rule \in WorkloadFieldRules :
              hit \in HitsOf(rule, n, m.workloads[n])
<1>2. \/ \E rule \in WorkloadFieldRules : hit \in FieldRuleFindings(rule, m)
      \/ hit \in NetworkPolicyFindings(m) \/ hit \in PdbFindings(m)
  BY DEF ManifestFindings
<1>3. CASE \E rule \in WorkloadFieldRules : hit \in FieldRuleFindings(rule, m)
  <2>1. PICK rule \in WorkloadFieldRules : hit \in FieldRuleFindings(rule, m)
    BY <1>3
  <2>2. hit # AllClear(rule, Collected(m))
    BY DEF AllClear, Found
  <2> QED BY <2>1, <2>2 DEF FieldRuleFindings, Judged
<1>4. CASE hit \in NetworkPolicyFindings(m)
  BY <1>4 DEF NetworkPolicyFindings, Judged, AllClear, Found
<1>5. CASE hit \in PdbFindings(m)
  BY <1>5 DEF PdbFindings, Found
<1> QED BY <1>2, <1>3, <1>4, <1>5

\* A place names a container or a workload, not both.
LEMMA HitsOfPlaced ==
  ASSUME NEW n, NEW w, NEW rule, NEW hit \in HitsOf(rule, n, w)
  PROVE  /\ hit.rule = rule /\ hit.place[1] = n
         /\ Len(hit.place) = 2 =>
              /\ hit.place[2] \in DOMAIN w.containers
              /\ ContainerFails(rule, w, w.containers[hit.place[2]])
         /\ Len(hit.place) # 2 => WorkloadFails(rule, w)
<1>1. CASE \E c \in DOMAIN w.containers :
             ContainerFails(rule, w, w.containers[c]) /\ hit = Found(rule, <<n, c>>, Rag(rule, w))
  <2>1. PICK c \in DOMAIN w.containers :
          ContainerFails(rule, w, w.containers[c]) /\ hit = Found(rule, <<n, c>>, Rag(rule, w))
    BY <1>1
  <2>2. hit.rule = rule /\ hit.place = <<n, c>>
    BY <2>1 DEF Found
  <2> QED BY <2>1, <2>2
<1>2. CASE WorkloadFails(rule, w) /\ hit = Found(rule, <<n>>, Rag(rule, w))
  <2>1. hit.rule = rule /\ hit.place = <<n>>
    BY <1>2 DEF Found
  <2> QED BY <1>2, <2>1
<1> QED BY <1>1, <1>2 DEF HitsOf

\* Following a recommendation leaves containers and workloads of their types.
LEMMA AmendedContainerTyped ==
  ASSUME NEW w \in Workload, NEW c \in Container, NEW rule \in WorkloadFieldRules,
         ContainerFails(rule, w, c), NEW a \in AmendedContainers(rule, c)
  PROVE  a \in Container
<1>1. Probes \subseteq Probe
  BY K8sRulesAssumption
<1>2. CASE rule = "resource-limits-missing"
  <2>1. a = [c EXCEPT !.limits = TRUE]
    BY <1>2 DEF AmendedContainers
  <2> QED BY <2>1 DEF Container
<1>3. CASE rule = "non-root-container-violation"
  <2>1. a = [c EXCEPT !.runAsNonRoot = TRUE]
    BY <1>3 DEF AmendedContainers
  <2> QED BY <2>1 DEF Container
<1>4. CASE rule = "PATCH-HEALTH-003"
  <2>1. a = [c EXCEPT !.startup_probe = TRUE]
    BY <1>4 DEF AmendedContainers
  <2> QED BY <2>1 DEF Container
<1>5. CASE rule = "PATCH-ARCH-002"
  <2>1. a = [c EXCEPT !.pre_stop = TRUE]
    BY <1>5 DEF AmendedContainers
  <2> QED BY <2>1 DEF Container
<1>6. CASE rule = "PATCH-HEALTH-001"
  <2>1. PICK p \in Probes : a = [c EXCEPT !.readiness_probe = p]
    BY <1>6 DEF AmendedContainers
  <2> QED BY <1>1, <2>1 DEF Container
<1>7. CASE rule = "probes-missing"
  <2>1. \A p \in Probe \cup {None} : Chosen(p) \subseteq Probe
    BY <1>1 DEF Chosen
  <2>5. AmendedContainers(rule, c) =
          UNION {{[c EXCEPT !.liveness_probe = l, !.readiness_probe = r] :
                     r \in Chosen(c.readiness_probe)} : l \in Chosen(c.liveness_probe)}
    BY <1>7 DEF AmendedContainers
  <2>4. PICK l \in Chosen(c.liveness_probe) :
          a \in {[c EXCEPT !.liveness_probe = l, !.readiness_probe = r] :
                    r \in Chosen(c.readiness_probe)}
    BY <2>5
  <2>2. PICK r \in Chosen(c.readiness_probe) :
          a = [c EXCEPT !.liveness_probe = l, !.readiness_probe = r]
    BY <2>4
  <2>3. l \in Probe /\ r \in Probe
    BY <2>1, <2>2 DEF Container
  <2> QED BY <2>2, <2>3 DEF Container
<1>8. CASE rule = "health-probe-separation"
  <2>1. c.readiness_probe \in Probe /\ c.liveness_probe \in Probe
    BY <1>8 DEF ContainerFails, ProbesIdentical, ProbeMissing, Container
  <2>2. a = [c EXCEPT !.readiness_probe.handler = "httpGet",
                      !.readiness_probe.endpoint = "ready",
                      !.liveness_probe.handler = "httpGet",
                      !.liveness_probe.endpoint = "live"]
    BY <1>8 DEF AmendedContainers
  <2>3. a.readiness_probe \in Probe /\ a.liveness_probe \in Probe
    BY <2>1, <2>2 DEF Container, Probe
  <2> QED BY <2>2, <2>3 DEF Container
<1>9. CASE rule = "PATCH-HEALTH-002"
  <2>1. c.readiness_probe \in Probe
    BY <1>9 DEF ContainerFails, TrivialProbe, Container
  <2>2. \/ \E e \in {"health", "ready"} :
             a = [c EXCEPT !.readiness_probe.handler = "httpGet",
                           !.readiness_probe.endpoint = e]
        \/ a = [c EXCEPT !.readiness_probe.hasty = FALSE, !.readiness_probe.fragile = FALSE]
    BY <1>9 DEF AmendedContainers
  <2>3. ASSUME NEW e \in {"health", "ready"},
               a = [c EXCEPT !.readiness_probe.handler = "httpGet",
                             !.readiness_probe.endpoint = e]
        PROVE  a.readiness_probe \in Probe
    <3>1. a.readiness_probe =
            [[c.readiness_probe EXCEPT !.handler = "httpGet"] EXCEPT !.endpoint = e]
      BY <2>3 DEF Container
    <3>2. [c.readiness_probe EXCEPT !.handler = "httpGet"] \in Probe
      BY <2>1 DEF Probe
    <3> QED BY <3>1, <3>2 DEF Probe
  <2>4. ASSUME a = [c EXCEPT !.readiness_probe.hasty = FALSE,
                             !.readiness_probe.fragile = FALSE]
        PROVE  a.readiness_probe \in Probe
    <3>1. a.readiness_probe =
            [[c.readiness_probe EXCEPT !.hasty = FALSE] EXCEPT !.fragile = FALSE]
      BY <2>4 DEF Container
    <3>2. [c.readiness_probe EXCEPT !.hasty = FALSE] \in Probe
      BY <2>1 DEF Probe
    <3> QED BY <3>1, <3>2 DEF Probe
  <2> QED BY <2>2, <2>3, <2>4 DEF Container
<1> QED BY <1>2, <1>3, <1>4, <1>5, <1>6, <1>7, <1>8, <1>9 DEF ContainerFails

LEMMA AmendedWorkloadTyped ==
  ASSUME NEW w \in Workload, NEW rule \in WorkloadFieldRules,
         WorkloadFails(rule, w), NEW a \in AmendedWorkloads(rule, w)
  PROVE  a \in Workload
<1>1. CASE rule \in {"PATCH-ARCH-001", "PATCH-ARCH-002"}
  BY <1>1 DEF AmendedWorkloads, Workload, MinGracePeriod
<1>2. CASE rule = "PATCH-ARCH-003"
  <2>1. PICK u \in {[percent |-> TRUE, value |-> 25], [percent |-> FALSE, value |-> 1]} :
          a = [w EXCEPT !.strategy = [type |-> "RollingUpdate", maxUnavailable |-> u]]
    BY <1>2 DEF AmendedWorkloads
  <2>2. [type |-> "RollingUpdate", maxUnavailable |-> u] \in Strategy
    <3>1. [percent |-> TRUE, value |-> 25] \in [percent : BOOLEAN, value : Nat]
      OBVIOUS
    <3>2. [percent |-> FALSE, value |-> 1] \in [percent : BOOLEAN, value : Nat]
      OBVIOUS
    <3> QED BY <2>1, <3>1, <3>2 DEF Strategy
  <2> QED BY <2>1, <2>2 DEF Workload
<1>3. CASE rule = "PATCH-HEALTH-004"
  <2>1. CASE a = [w EXCEPT !.termination_grace_period = MinGracePeriod]
    BY <2>1 DEF Workload, MinGracePeriod
  <2>2. CASE \E c \in DOMAIN w.containers : a = [w EXCEPT !.containers[c].pre_stop = TRUE]
    <3>1. PICK C \in SUBSET Containers : w.containers \in [C -> Container]
      BY DEF Workload
    <3>2. PICK c \in C : a = [w EXCEPT !.containers[c].pre_stop = TRUE]
      BY <2>2, <3>1
    <3>3. [w.containers[c] EXCEPT !.pre_stop = TRUE] \in Container
      BY <3>1, <3>2 DEF Container
    <3>4. a.containers \in [C -> Container]
      BY <3>1, <3>2, <3>3 DEF Workload
    <3>5. a = [w EXCEPT !.containers = a.containers]
      BY <3>2 DEF Workload
    <3>6. a.containers \in UNION {[D -> Container] : D \in SUBSET Containers}
      BY <3>1, <3>4
    <3> QED BY <3>5, <3>6 DEF Workload
  <2> QED BY <1>3, <2>1, <2>2 DEF AmendedWorkloads
<1> QED BY <1>1, <1>2, <1>3 DEF WorkloadFails

\* Following a recommendation leaves manifests of their type.
LEMMA FollowedInManifestsTyped ==
  ASSUME NEW m \in Manifests, NEW hit \in ManifestFindings(m), hit.rag # "green",
         NEW a \in FollowedInManifests(hit, m)
  PROVE  a \in Manifests
<1>1. CASE hit.rule = "network-policy-missing"
  BY <1>1 DEF FollowedInManifests, Manifests
<1>2. CASE hit.rule = "PATCH-ARCH-004" /\ \E n \in Collected(m) : hit.place = <<n>>
  <2>1. PICK n \in Collected(m) : hit.place = <<n>>
    BY <1>2
  <2>2. m.workloads[n] \in Workload
    BY <2>1, CollectedTyped
  <2>3. PICK p \in BudgetsFor(m.workloads[n]) : a = [m EXCEPT !.pdbs = @ \cup {p}]
    BY <1>2, <2>1 DEF FollowedInManifests
  <2>4. p \in Pdb
    BY <2>2, <2>3 DEF BudgetsFor, Pdb, Workload
  <2> QED BY <2>3, <2>4 DEF Manifests
<1>3. CASE \E n \in Collected(m), rule \in WorkloadFieldRules :
             hit \in HitsOf(rule, n, m.workloads[n])
  <2>1. PICK n \in Collected(m), rule \in WorkloadFieldRules :
          hit \in HitsOf(rule, n, m.workloads[n])
    BY <1>3
  <2> DEFINE w == m.workloads[n]
  <2>2. w \in Workload /\ n \in Names /\ m.workloads \in [Names -> Workload \cup {None}]
    BY <2>1, CollectedTyped DEF Manifests
  <2>3. /\ hit.rule = rule /\ hit.place[1] = n
        /\ Len(hit.place) = 2 =>
             /\ hit.place[2] \in DOMAIN w.containers
             /\ ContainerFails(rule, w, w.containers[hit.place[2]])
        /\ Len(hit.place) # 2 => WorkloadFails(rule, w)
    BY <2>1, HitsOfPlaced
  <2>4. rule \notin {"network-policy-missing", "PATCH-ARCH-004"}
    BY <2>1 DEF WorkloadFieldRules
  <2>5. ASSUME NEW v \in Workload, a = [m EXCEPT !.workloads[n] = v]
        PROVE  a \in Manifests
    BY <2>2, <2>5 DEF Manifests
  <2>6. CASE Len(hit.place) = 2
    <3> DEFINE k == hit.place[2]
    <3>1. PICK c \in AmendedContainers(rule, w.containers[k]) :
            a = [m EXCEPT !.workloads[n].containers[k] = c]
      BY <2>3, <2>4, <2>6 DEF FollowedInManifests
    <3>2. k \in DOMAIN w.containers /\ w.containers[k] \in Container
      BY <2>2, <2>3, <2>6, ContainersNamed
    <3>3. c \in Container
      BY <2>1, <2>2, <2>3, <2>6, <3>1, <3>2, AmendedContainerTyped
    <3>4. [w EXCEPT !.containers[k] = c] \in Workload
      <4>1. PICK C \in SUBSET Containers : w.containers \in [C -> Container]
        BY <2>2 DEF Workload
      <4>2. [w.containers EXCEPT ![k] = c] \in [C -> Container]
        BY <3>2, <3>3, <4>1
      <4> QED BY <2>2, <4>1, <4>2 DEF Workload
    <3>5. a = [m EXCEPT !.workloads[n] = [w EXCEPT !.containers[k] = c]]
      BY <2>2, <3>1 DEF Manifests
    <3> QED BY <2>5, <3>4, <3>5
  <2>7. CASE Len(hit.place) # 2
    <3>1. PICK v \in AmendedWorkloads(rule, w) : a = [m EXCEPT !.workloads[n] = v]
      BY <2>3, <2>4, <2>7 DEF FollowedInManifests
    <3>2. v \in Workload
      BY <2>1, <2>2, <2>3, <2>7, <3>1, AmendedWorkloadTyped
    <3> QED BY <2>5, <3>1, <3>2
  <2> QED BY <2>6, <2>7
<1> QED BY <1>1, <1>2, <1>3, HitsComeFrom


(***************************************************************************)
(* The rules of DeliveryRules: what they find, and where their hits stand. *)
(***************************************************************************)
Placed(h, r) ==
  /\ h.rule \in ManifestRules => h \in ManifestFindings(r.k8s)
  /\ h.rule \in {"PATCH-DEPS-001", "PATCH-DEPS-002", "PATCH-DEPS-003"} =>
       h.place \in {<<n>> : n \in Collected(r.k8s)}
  /\ h.rule \in DockerfileRules => h.place[1] \in Built(r)
  /\ h.rule = "dockerfile-base-pinning" =>
       h.place[2] \in 1 .. Len(r.dockerfiles[h.place[1]].stages)
  /\ h.rule = "dockerfile-secret-leakage" => r.dockerfiles[h.place[1]].secrets > 0
  /\ h.rule = "dockerfile-k8s-image-drift" => h.place \in Running(r.k8s)
  /\ h.rule = "dockerfile-k8s-user-conflict" =>
       h.place \in Running(r.k8s) \cup {<<n>> : n \in Collected(r.k8s)}
  /\ h.rule \in IstioFieldRules => h.place[1] \in Meshed(r)
  /\ h.rule = "PATCH-TRAFFIC-001" =>
       h.place \in MeshResources(r) /\ Shifting(ResourceAt(h.place, r))
  /\ h.rule = "PATCH-TRAFFIC-003" =>
       h.place \in MeshResources(r) /\ ResourceAt(h.place, r).kind = "DestinationRule"

Good(f, r) == f \in Finding /\ Shaped(f) /\ (f.rag # "green" => Placed(f, r))

\* Positions are numbers, and so some file is the first.
LEMMA FirstIsIn ==
  ASSUME NEW S \in SUBSET (Names \cup MeshFiles), S # {}
  PROVE  First(S) \in S
<1> DEFINE T == {Position[f] : f \in S}
<1>1. T \subseteq Nat /\ T # {}
  BY DeliveryRulesAssumption
<1> DEFINE Before == {ss \in Nat \X Nat : ss[1] < ss[2]}
<1>2. IsWellFoundedOn(Before, Nat)
  BY NatLessThanWellFounded, Zenon DEF OpToRel
<1> HIDE DEF Before
<1>6. PICK x \in T : \A y \in T : ~ (<<y, x>> \in Before)
  BY <1>1, <1>2, WFMin
<1>3. \A y \in T : x <= y
  <2>1. \A y \in Nat : y < x => <<y, x>> \in Before
    BY <1>1 DEF Before
  <2>2. \A y \in T : y \in Nat /\ x \in Nat /\ ~ (y < x)
    BY <1>1, <1>6, <2>1
  <2> QED BY <2>2
<1>4. PICK f \in S : x = Position[f]
  BY <1>6
<1>5. \A g \in S : Position[f] <= Position[g]
  BY <1>3, <1>4
<1> QED BY <1>4, <1>5 DEF First

LEMMA OrGreenGood ==
  ASSUME NEW r, NEW rule \in Rules,
         NEW place \in {<<"project-wide">>, <<"all-workloads">>, <<"all-artifacts">>, <<".">>},
         place \in Apart(rule), NEW hits, \A h \in hits : Good(h, r),
         NEW f \in OrGreen(rule, place, hits)
  PROVE  Good(f, r)
<1>1. CASE f \in hits
  BY <1>1
<1>2. CASE f = Found(rule, place, "green")
  BY <1>2, AllClearShaped DEF Good, Found
<1> QED BY <1>1, <1>2 DEF OrGreen

LEMMA DependencyRulesGood ==
  ASSUME NEW r \in Repository,
         NEW f \in DeclarationFindings(r.k8s) \cup SharedFateFindings(r.k8s)
                     \cup CrossRingFindings(r.k8s)
  PROVE  Good(f, r)
<1> DEFINE m == r.k8s
<1>1. {"PATCH-DEPS-001", "PATCH-DEPS-002", "PATCH-DEPS-003"} \subseteq Rules
  BY DEF Rules
<1>2. \A rule \in {"PATCH-DEPS-001", "PATCH-DEPS-002", "PATCH-DEPS-003"} :
        <<".">> \in Apart(rule)
  BY DEF Apart
<1>3. ASSUME NEW rule \in {"PATCH-DEPS-001", "PATCH-DEPS-002", "PATCH-DEPS-003"},
             NEW n \in Collected(m), NEW rag \in {"green", "amber"},
             rag = "amber" \/ rule = "PATCH-DEPS-001"
      PROVE  Good(Found(rule, <<n>>, rag), r)
  <2>1. <<n>> \in Places /\ <<n>> \notin Apart(rule)
    BY HitPlaces DEF Collected
  <2>2. Found(rule, <<n>>, rag) = [rule |-> rule, place |-> <<n>>, rag |-> rag]
    BY DEF Found
  <2>3. Found(rule, <<n>>, rag) \in Finding /\ Shaped(Found(rule, <<n>>, rag))
    BY <1>1, <1>3, <2>1, <2>2 DEF Finding, Rags, Shaped, AllClearsInPlace, RedRules
  <2>4. Placed(Found(rule, <<n>>, rag), r)
    BY <2>2 DEF Placed, ManifestRules, WorkloadFieldRules, DockerfileRules, IstioFieldRules
  <2> QED BY <2>3, <2>4 DEF Good
<1>4. CASE f \in DeclarationFindings(m)
  <2>1. \A n \in Collected(m) :
          (IF m.workloads[n].annotated THEN "green" ELSE "amber") \in {"green", "amber"}
    OBVIOUS
  <2>2. \A h \in {Found("PATCH-DEPS-001", <<n>>,
                        IF m.workloads[n].annotated THEN "green" ELSE "amber") :
                     n \in Collected(m)} : Good(h, r)
    BY <1>3, <2>1
  <2> QED BY <1>1, <1>2, <1>4, <2>2, OrGreenGood DEF DeclarationFindings
<1>5. CASE f \in SharedFateFindings(m)
  <2>1. \A pool \in SharedPools(m) : First(SamePool(pool, m)) \in Collected(m)
    <3> SUFFICES ASSUME NEW pool \in SharedPools(m)
                 PROVE  First(SamePool(pool, m)) \in Collected(m)
      OBVIOUS
    <3>1. SamePool(pool, m) # {} /\ SamePool(pool, m) \subseteq Collected(m)
      BY DEF SharedPools, SamePool
    <3> QED BY <3>1, FirstIsIn DEF Collected
  <2>2. \A host \in SharedHosts(m) : First(UsersOf(host, m)) \in Collected(m)
    <3> SUFFICES ASSUME NEW host \in SharedHosts(m)
                 PROVE  First(UsersOf(host, m)) \in Collected(m)
      OBVIOUS
    <3>1. UsersOf(host, m) # {} /\ UsersOf(host, m) \subseteq Collected(m)
      BY DEF SharedHosts, UsersOf
    <3> QED BY <3>1, FirstIsIn DEF Collected
  <2>3. \A h \in {Found("PATCH-DEPS-002", <<First(SamePool(pool, m))>>, "amber") :
                     pool \in SharedPools(m)}
                   \cup {Found("PATCH-DEPS-002", <<First(UsersOf(host, m))>>, "amber") :
                           host \in SharedHosts(m)} : Good(h, r)
    BY <1>3, <2>1, <2>2
  <2> QED BY <1>1, <1>2, <1>5, <2>3, OrGreenGood DEF SharedFateFindings
<1>6. CASE f \in CrossRingFindings(m)
  <2>1. \A h \in {Found("PATCH-DEPS-003", <<n>>, "amber") :
                     n \in {n \in Ringed(m) : LowerRing(n, m) # {}}} : Good(h, r)
    BY <1>3 DEF Ringed
  <2> QED BY <1>1, <1>2, <1>6, <2>1, OrGreenGood DEF CrossRingFindings
<1> QED BY <1>4, <1>5, <1>6

LEMMA DocumentRulesGood ==
  ASSUME NEW r \in Repository,
         NEW rule \in {"PATCH-ROLL-001", "PATCH-TRAFFIC-002"}, NEW wanted,
         NEW f \in DocumentFindings(rule, wanted, r)
  PROVE  Good(f, r)
<1>1. \E place \in {<<"repo-root">>} \cup {<<d>> : d \in Documents}, rag \in {"green", "amber"} :
        f = [rule |-> rule, place |-> place, rag |-> rag]
  BY DEF DocumentFindings, Found, Repository
<1>2. f \in Finding /\ Shaped(f) /\ f.rule = rule
  BY <1>1 DEF Finding, Places, Rags, Rules, Shaped, AllClearsInPlace, RedRules
<1>3. Placed(f, r)
  BY <1>2 DEF Placed, ManifestRules, WorkloadFieldRules, DockerfileRules, IstioFieldRules
<1> QED BY <1>2, <1>3 DEF Good

\* Hits in Dockerfiles and in mesh files stand at a file or in it.
LEMMA FilePlaces ==
  ASSUME NEW f \in Dockerfiles \cup MeshFiles, NEW rule
  PROVE  /\ <<f>> \in Places /\ <<f>> \notin Apart(rule)
         /\ \A x : <<f, x>> \notin Apart(rule)
<1>1. \A x, y : <<f, x>> # <<y>>
  <2>1. \A x, y : Len(<<f, x>>) = 2 /\ Len(<<y>>) = 1
    OBVIOUS
  <2> QED BY <2>1
<1>2. <<f>> \in Places
  BY DEF Places
<1>3. <<f>> \notin Apart(rule)
  BY DeliveryRulesAssumption DEF Apart
<1>4. \A x : <<f, x>> \notin Apart(rule)
  BY <1>1 DEF Apart
<1> QED BY <1>2, <1>3, <1>4

LEMMA BuiltTyped ==
  ASSUME NEW r \in Repository, NEW f \in Built(r)
  PROVE  /\ f \in Dockerfiles /\ r.dockerfiles[f] \in Dockerfile
         /\ r.dockerfiles[f].stages \in Seq(Stage) /\ r.dockerfiles[f].stages # << >>
         /\ r.dockerfiles[f].secrets \in Nat
<1>1. r.dockerfiles \in [Dockerfiles -> Dockerfile \cup {None}]
  BY DEF Repository
<1>2. r.dockerfiles[f] \in Dockerfile
  BY <1>1 DEF Built
<1> QED BY <1>2 DEF Built, Dockerfile

LEMMA DockerfileRulesGood ==
  ASSUME NEW r \in Repository, NEW rule \in DockerfileRules,
         NEW f \in DockerfileFindings(rule, r)
  PROVE  Good(f, r)
<1>1. rule \in Rules /\ rule \notin AllClearsInPlace
  BY DEF Rules, DockerfileRules, AllClearsInPlace
<1>2. CASE f = AllClear(rule, Built(r))
  <2>1. <<"project-wide">> \in Apart(rule)
    BY DEF Apart
  <2>2. f = Found(rule, <<"project-wide">>, "green")
    BY <1>2 DEF AllClear, AllClearPlace
  <2>3. f.rag = "green"
    BY <2>2 DEF Found
  <2> QED BY <1>1, <2>1, <2>2, <2>3, AllClearShaped DEF Good
<1>3. CASE \E d \in Built(r) : f \in DockerfileHits(rule, d, r.dockerfiles[d])
  <2>1. PICK d \in Built(r) : f \in DockerfileHits(rule, d, r.dockerfiles[d])
    BY <1>3
  <2> DEFINE n == Len(r.dockerfiles[d].stages)
  <2>2. d \in Dockerfiles /\ n \in Nat /\ r.dockerfiles[d].secrets \in Nat
    BY <2>1, BuiltTyped, LenProperties
  <2> HIDE DEF n
  <2>3. CASE rule = "dockerfile-base-pinning" /\ \E i \in 1 .. n : f = Found(rule, <<d, i>>, "amber")
    <3>1. PICK i \in 1 .. n : f = [rule |-> rule, place |-> <<d, i>>, rag |-> "amber"]
      BY <2>3 DEF Found
    <3>5. i \in Nat
      BY <2>2
    <3>2. <<d, i>> \in Places /\ <<d, i>> \notin Apart(rule)
      BY <2>2, <3>5, FilePlaces DEF Places
    <3>3. f \in Finding /\ Shaped(f)
      BY <1>1, <2>3, <3>1, <3>2 DEF Finding, Rags, Shaped, RedRules
    <3>4. Placed(f, r)
      BY <2>1, <2>3, <3>1 DEF Placed, ManifestRules, WorkloadFieldRules, DockerfileRules,
                              IstioFieldRules, n
    <3> QED BY <3>3, <3>4 DEF Good
  <2>4. CASE /\ rule = "dockerfile-secret-leakage"
             /\ \E i \in 1 .. r.dockerfiles[d].secrets : f = Found(rule, <<d, n + i>>, "red")
    <3>1. PICK i \in 1 .. r.dockerfiles[d].secrets :
            f = [rule |-> rule, place |-> <<d, n + i>>, rag |-> "red"]
      BY <2>4 DEF Found
    <3>2. n + i \in Nat /\ r.dockerfiles[d].secrets > 0
      BY <2>2
    <3>3. <<d, n + i>> \in Places /\ <<d, n + i>> \notin Apart(rule)
      BY <2>2, <3>2, FilePlaces DEF Places
    <3>4. f \in Finding /\ Shaped(f)
      BY <1>1, <2>4, <3>1, <3>3 DEF Finding, Rags, Shaped, RedRules
    <3>5. Placed(f, r)
      BY <2>1, <2>4, <3>1, <3>2 DEF Placed, ManifestRules, WorkloadFieldRules, DockerfileRules,
                                    IstioFieldRules
    <3> QED BY <3>4, <3>5 DEF Good
  <2>5. CASE DockerfileFails(rule, r.dockerfiles[d]) /\ f = Found(rule, <<d>>, "amber")
    <3>1. f = [rule |-> rule, place |-> <<d>>, rag |-> "amber"]
      BY <2>5 DEF Found
    <3>2. rule \in {"dockerfile-multistage", "dockerfile-user-directive"}
      BY <2>5 DEF DockerfileFails
    <3>3. <<d>> \in Places /\ <<d>> \notin Apart(rule)
      BY <2>2, FilePlaces
    <3>4. f \in Finding /\ Shaped(f)
      BY <1>1, <3>1, <3>2, <3>3 DEF Finding, Rags, Shaped, RedRules
    <3>5. Placed(f, r)
      BY <2>1, <3>1, <3>2 DEF Placed, ManifestRules, WorkloadFieldRules, DockerfileRules,
                              IstioFieldRules
    <3> QED BY <3>4, <3>5 DEF Good
  <2> QED BY <2>1, <2>3, <2>4, <2>5 DEF DockerfileHits, n
<1> QED BY <1>2, <1>3 DEF DockerfileFindings, Judged

\* Rules about images.
LEMMA RunningPlaces ==
  ASSUME NEW m \in Manifests, NEW p \in Running(m) \cup {<<n>> : n \in Collected(m)}, NEW rule
  PROVE  p \in Places /\ p \notin Apart(rule)
<1>1. p \in (Names \X Containers) \cup {<<n>> : n \in Names}
  BY DEF Running, Collected
<1> QED BY <1>1, HitPlaces

LEMMA ImageRulesGood ==
  ASSUME NEW r \in Repository, NEW f \in ImageDriftFindings(r) \cup UserConflictFindings(r)
  PROVE  Good(f, r)
<1>1. /\ {"dockerfile-k8s-image-drift", "dockerfile-k8s-user-conflict"} \subseteq Rules
      /\ r.k8s \in Manifests
  BY DEF Rules, Repository
<1>2. \A rule \in {"dockerfile-k8s-image-drift", "dockerfile-k8s-user-conflict"} :
        <<"all-artifacts">> \in Apart(rule) /\ <<"all-workloads">> \in Apart(rule)
  BY DEF Apart
<1>3. ASSUME f \in ImageDriftFindings(r) PROVE Good(f, r)
  <2> DEFINE hits == {Found("dockerfile-k8s-image-drift", p, "amber") :
                        p \in {p \in Running(r.k8s) : OtherTags(ContainerAt(p, r.k8s), r) # {}}}
  <2>1. ASSUME NEW h \in hits PROVE Good(h, r)
    <3>1. PICK p \in Running(r.k8s) :
            h = [rule |-> "dockerfile-k8s-image-drift", place |-> p, rag |-> "amber"]
      BY <2>1 DEF Found
    <3>2. p \in Places /\ p \notin Apart("dockerfile-k8s-image-drift")
      BY <1>1, RunningPlaces
    <3>3. h \in Finding /\ Shaped(h)
      BY <1>1, <3>1, <3>2 DEF Finding, Rags, Shaped, RedRules
    <3>4. Placed(h, r)
      BY <3>1 DEF Placed, ManifestRules, WorkloadFieldRules, DockerfileRules, IstioFieldRules
    <3> QED BY <3>3, <3>4 DEF Good
  <2>2. f \in OrGreen("dockerfile-k8s-image-drift", <<"all-artifacts">>, hits)
    BY <1>3 DEF ImageDriftFindings
  <2> HIDE DEF hits
  <2> QED BY <1>1, <1>2, <2>1, <2>2, OrGreenGood
<1>4. ASSUME f \in UserConflictFindings(r) PROVE Good(f, r)
  <2> DEFINE hits == {Found("dockerfile-k8s-user-conflict", place, "red") :
                        place \in {<<n>> : n \in RootPods(r.k8s)} \cup RootContainers(r.k8s)}
  <2>1. ASSUME NEW h \in hits PROVE Good(h, r)
    <3>1. PICK p \in Running(r.k8s) \cup {<<n>> : n \in Collected(r.k8s)} :
            h = [rule |-> "dockerfile-k8s-user-conflict", place |-> p, rag |-> "red"]
      BY <2>1 DEF Found, RootPods, RootContainers
    <3>2. p \in Places /\ p \notin Apart("dockerfile-k8s-user-conflict")
      BY <1>1, RunningPlaces
    <3>3. h \in Finding /\ Shaped(h)
      BY <1>1, <3>1, <3>2 DEF Finding, Rags, Shaped, RedRules
    <3>4. Placed(h, r)
      BY <3>1 DEF Placed, ManifestRules, WorkloadFieldRules, DockerfileRules, IstioFieldRules
    <3> QED BY <3>3, <3>4 DEF Good
  <2>2. \/ f = Found("dockerfile-k8s-user-conflict", <<"all-artifacts">>, "green")
        \/ f \in OrGreen("dockerfile-k8s-user-conflict", <<"all-workloads">>, hits)
    BY <1>4 DEF UserConflictFindings
  <2> HIDE DEF hits
  <2>3. CASE f = Found("dockerfile-k8s-user-conflict", <<"all-artifacts">>, "green")
    <3>1. f.rag = "green"
      BY <2>3 DEF Found
    <3> QED BY <1>1, <1>2, <2>3, <3>1, AllClearShaped DEF Good
  <2> QED BY <1>1, <1>2, <2>1, <2>2, <2>3, OrGreenGood
<1> QED BY <1>3, <1>4

\* The mesh.
LEMMA MeshedTyped ==
  ASSUME NEW r \in Repository, NEW f \in Meshed(r)
  PROVE  /\ f \in MeshFiles /\ r.mesh[f] \in MeshFile
         /\ \E R \in SUBSET Resources : r.mesh[f].resources \in [R -> Resource]
<1>1. r.mesh \in [MeshFiles -> MeshFile \cup {None}]
  BY DEF Repository
<1>2. f \in MeshFiles /\ r.mesh[f] \in MeshFile
  BY <1>1 DEF Meshed
<1>3. r.mesh[f].resources \in UNION {[R -> Resource] : R \in SUBSET Resources}
  BY <1>2 DEF MeshFile
<1> QED BY <1>2, <1>3

LEMMA IstioRulesGood ==
  ASSUME NEW r \in Repository, NEW rule \in IstioFieldRules, NEW f \in IstioFindings(rule, r)
  PROVE  Good(f, r)
<1>1. rule \in Rules /\ <<"project-wide">> \in Apart(rule)
  BY DEF Rules, Apart
<1>2. CASE f = AllClear(rule, IstioFiles(r))
  <2>1. f = Found(rule, <<"project-wide">>, "green")
    BY <1>2 DEF AllClear, AllClearPlace
  <2>2. f.rag = "green"
    BY <2>1 DEF Found
  <2> QED BY <1>1, <2>1, <2>2, AllClearShaped DEF Good
<1>3. CASE \E d \in IstioFiles(r) : f = Found(rule, <<d>>, "amber")
  <2>1. PICK d \in IstioFiles(r) : f = [rule |-> rule, place |-> <<d>>, rag |-> "amber"]
    BY <1>3 DEF Found
  <2>2. d \in Meshed(r) /\ d \in MeshFiles
    BY DEF IstioFiles, Meshed
  <2>3. <<d>> \in Places /\ <<d>> \notin Apart(rule)
    BY <2>2, FilePlaces
  <2>4. f \in Finding /\ Shaped(f)
    BY <1>1, <2>1, <2>3 DEF Finding, Rags, Shaped, RedRules, IstioFieldRules
  <2>5. Placed(f, r)
    BY <2>1, <2>2 DEF Placed, ManifestRules, WorkloadFieldRules, DockerfileRules, IstioFieldRules
  <2> QED BY <2>4, <2>5 DEF Good
<1> QED BY <1>2, <1>3 DEF IstioFindings, Judged

LEMMA MtlsRuleGood ==
  ASSUME NEW r \in Repository, NEW f \in MtlsFindings(r)
  PROVE  Good(f, r)
<1>1. IstioFiles(r) # {} /\ IstioFiles(r) \subseteq MeshFiles
  BY DEF MtlsFindings, IstioFiles, Meshed
<1>2. First(IstioFiles(r)) \in MeshFiles
  BY <1>1, FirstIsIn
<1>3. PICK rag \in {"green", "red"} :
        f = [rule |-> "istio-mtls-strict", place |-> <<First(IstioFiles(r))>>, rag |-> rag]
  BY DEF MtlsFindings, Found
<1>4. <<First(IstioFiles(r))>> \in Places
  BY <1>2, FilePlaces
<1>5. f \in Finding /\ Shaped(f)
  BY <1>3, <1>4 DEF Finding, Rags, Rules, Shaped, RedRules, AllClearsInPlace
<1>6. Placed(f, r)
  BY <1>3 DEF Placed, ManifestRules, WorkloadFieldRules, DockerfileRules, IstioFieldRules
<1> QED BY <1>5, <1>6 DEF Good

LEMMA TrafficRulesGood ==
  ASSUME NEW r \in Repository,
         NEW f \in TrafficShiftingFindings(r) \cup ConnectionDrainingFindings(r)
  PROVE  Good(f, r)
<1>1. \A rule \in {"PATCH-TRAFFIC-001", "PATCH-TRAFFIC-003"} :
        rule \in Rules /\ rule \in AllClearsInPlace /\ <<".">> \in Apart(rule)
  BY DEF Rules, AllClearsInPlace, Apart
<1>2. ASSUME NEW rule \in {"PATCH-TRAFFIC-001", "PATCH-TRAFFIC-003"},
             NEW p \in MeshResources(r), NEW rag \in {"green", "amber"},
             rule = "PATCH-TRAFFIC-001" => Shifting(ResourceAt(p, r)),
             rule = "PATCH-TRAFFIC-003" => ResourceAt(p, r).kind = "DestinationRule"
      PROVE  Good(Found(rule, p, rag), r)
  <2> DEFINE h == Found(rule, p, rag)
  <2>1. h = [rule |-> rule, place |-> p, rag |-> rag]
    BY DEF Found
  <2> HIDE DEF h
  <2>2. p \in Places
    BY DEF Places, MeshResources, Meshed
  <2>3. h \in Finding /\ Shaped(h)
    BY <1>1, <2>1, <2>2 DEF Finding, Rags, Shaped, RedRules
  <2>4. Placed(h, r)
    BY <1>2, <2>1 DEF Placed, ManifestRules, WorkloadFieldRules, DockerfileRules, IstioFieldRules
  <2> QED BY <2>3, <2>4 DEF Good, h
<1>3. CASE f \in TrafficShiftingFindings(r)
  <2> DEFINE judged == {p \in MeshResources(r) : Shifting(ResourceAt(p, r))}
             rag(p) == IF ShiftsGradually(ResourceAt(p, r)) THEN "green" ELSE "amber"
             hits == {Found("PATCH-TRAFFIC-001", p, rag(p)) : p \in judged}
  <2>1. \A p \in judged : rag(p) \in {"green", "amber"}
    OBVIOUS
  <2>2. \A h \in hits : Good(h, r)
    BY <1>2, <2>1
  <2>3. f \in OrGreen("PATCH-TRAFFIC-001", <<".">>, hits)
    BY <1>3 DEF TrafficShiftingFindings
  <2> HIDE DEF hits
  <2> QED BY <1>1, <2>2, <2>3, OrGreenGood
<1>4. CASE f \in ConnectionDrainingFindings(r)
  <2> DEFINE judged == {p \in MeshResources(r) : ResourceAt(p, r).kind = "DestinationRule"}
             rag(p) == IF ResourceAt(p, r).connectionPool THEN "green" ELSE "amber"
             hits == {Found("PATCH-TRAFFIC-003", p, rag(p)) : p \in judged}
  <2>1. \A p \in judged : rag(p) \in {"green", "amber"}
    OBVIOUS
  <2>2. \A h \in hits : Good(h, r)
    BY <1>2, <2>1
  <2>3. f \in OrGreen("PATCH-TRAFFIC-003", <<".">>, hits)
    BY <1>4 DEF ConnectionDrainingFindings
  <2> HIDE DEF hits
  <2> QED BY <1>1, <2>2, <2>3, OrGreenGood
<1> QED BY <1>3, <1>4

\* Whatever a scan finds has its type, one of the shapes, and stands where the
\* rule that found it puts its hits.
LEMMA FindingsGood ==
  ASSUME NEW r \in Repository, NEW f \in Findings(r)
  PROVE  Good(f, r)
<1>1. CASE f \in ManifestFindings(r.k8s)
  <2>1. r.k8s \in Manifests
    BY DEF Repository
  <2>2. f \in Finding /\ Shaped(f) /\ f.rule \in ManifestRules
    BY <1>1, <2>1, ManifestFindingsShaped
  <2>3. Placed(f, r)
    BY <1>1, <2>2 DEF Placed, ManifestRules, WorkloadFieldRules, DockerfileRules, IstioFieldRules
  <2> QED BY <2>2, <2>3 DEF Good
<1>2. CASE f \in DeclarationFindings(r.k8s) \cup SharedFateFindings(r.k8s)
                   \cup CrossRingFindings(r.k8s)
  BY <1>2, DependencyRulesGood
<1>3. CASE \/ f \in DocumentFindings("PATCH-ROLL-001", RollbackDocuments, r)
           \/ f \in DocumentFindings("PATCH-TRAFFIC-002", FailoverDocuments, r)
  BY <1>3, DocumentRulesGood
<1>4. CASE \E rule \in DockerfileRules : f \in DockerfileFindings(rule, r)
  BY <1>4, DockerfileRulesGood
<1>5. CASE f \in ImageDriftFindings(r) \cup UserConflictFindings(r)
  BY <1>5, ImageRulesGood
<1>6. CASE \E rule \in IstioFieldRules : f \in IstioFindings(rule, r)
  BY <1>6, IstioRulesGood
<1>7. CASE f \in MtlsFindings(r)
  BY <1>7, MtlsRuleGood
<1>8. CASE f \in TrafficShiftingFindings(r) \cup ConnectionDrainingFindings(r)
  BY <1>8, TrafficRulesGood
<1> QED BY <1>1, <1>2, <1>3, <1>4, <1>5, <1>6, <1>7, <1>8 DEF Findings

\* A stage that is pinned can be, and does not float.
LEMMA PinnedStagesSound ==
  ASSUME NEW stage \in Stage, NEW s \in PinnedStages(stage)
  PROVE  s \in Stage /\ ~ Floating(s)
<1>1. CASE s = [stage EXCEPT !.digest = TRUE]
  <2>1. s.digest /\ s \in Stage
    BY <1>1 DEF Stage
  <2> QED BY <2>1 DEF Floating
<1>2. ASSUME NEW t \in Tags \ FloatingTags, s = [stage EXCEPT !.tag = t]
      PROVE  s \in Stage /\ ~ Floating(s)
  <2>1. s.tag = t /\ s \in Stage
    BY <1>2 DEF Stage
  <2>2. t \notin FloatingTags \cup {None}
    BY K8sRulesAssumption
  <2> QED BY <2>1, <2>2 DEF Floating
<1>3. \/ s = [stage EXCEPT !.digest = TRUE]
      \/ \E t \in Tags \ FloatingTags : s = [stage EXCEPT !.tag = t]
  BY DEF PinnedStages
<1> QED BY <1>1, <1>2, <1>3

(***************************************************************************)
(* Following a recommendation leaves a repository of its type.             *)
(***************************************************************************)
LEMMA AmendedDockerfileTyped ==
  ASSUME NEW r \in Repository, NEW hit \in Findings(r), hit.rag # "green",
         hit.rule \in DockerfileRules, NEW d \in AmendedDockerfiles(hit, r.dockerfiles[hit.place[1]])
  PROVE  d \in Dockerfile
<1> DEFINE old == r.dockerfiles[hit.place[1]]
<1>1. Placed(hit, r)
  BY FindingsGood DEF Good
<1>2. /\ old \in Dockerfile /\ old.secrets \in Nat
      /\ old.stages \in Seq(Stage) /\ old.stages # << >>
  BY <1>1, BuiltTyped DEF Placed
<1>3. CASE hit.rule = "dockerfile-base-pinning"
  <2> DEFINE i == hit.place[2]
  <2>1. i \in 1 .. Len(old.stages) /\ old.stages[i] \in Stage
    BY <1>1, <1>2, <1>3, ElementOfSeq DEF Placed
  <2>2. PICK s \in PinnedStages(old.stages[i]) : d = [old EXCEPT !.stages[i] = s]
    BY <1>3 DEF AmendedDockerfiles
  <2>3. s \in Stage
    BY <2>1, <2>2, PinnedStagesSound
  <2>4. [old.stages EXCEPT ![i] = s] \in Seq(Stage) /\ [old.stages EXCEPT ![i] = s] # << >>
    <3>1. /\ [old.stages EXCEPT ![i] = s] \in Seq(Stage)
          /\ Len([old.stages EXCEPT ![i] = s]) = Len(old.stages)
      BY <1>2, <2>1, <2>3, ExceptSeq
    <3>2. Len(old.stages) # 0
      BY <1>2, EmptySeq
    <3> QED BY <3>1, <3>2
  <2>5. d = [old EXCEPT !.stages = [old.stages EXCEPT ![i] = s]]
    BY <1>2, <2>2 DEF Dockerfile
  <2> QED BY <1>2, <2>4, <2>5 DEF Dockerfile
<1>4. CASE hit.rule = "dockerfile-secret-leakage"
  <2>1. old.secrets > 0
    BY <1>1, <1>4 DEF Placed
  <2>2. old.secrets - 1 \in Nat
    BY <1>2, <2>1
  <2>3. d = [old EXCEPT !.secrets = old.secrets - 1]
    BY <1>2, <1>4 DEF AmendedDockerfiles, Dockerfile
  <2> QED BY <1>2, <2>2, <2>3 DEF Dockerfile
<1>5. CASE hit.rule = "dockerfile-multistage"
  <2>1. d = [old EXCEPT !.stages = <<Head(old.stages)>> \o old.stages]
    BY <1>2, <1>5 DEF AmendedDockerfiles, Dockerfile
  <2>2. Head(old.stages) \in Stage
    BY <1>2, HeadTailProperties
  <2>3. <<Head(old.stages)>> \in Seq(Stage)
    BY <2>2
  <2>4. /\ <<Head(old.stages)>> \o old.stages \in Seq(Stage)
        /\ <<Head(old.stages)>> \o old.stages # << >>
    <3>1. /\ <<Head(old.stages)>> \o old.stages \in Seq(Stage)
          /\ Len(<<Head(old.stages)>> \o old.stages) = 1 + Len(old.stages)
      BY <1>2, <2>3, ConcatProperties
    <3>2. Len(old.stages) \in Nat
      BY <1>2, LenProperties
    <3> QED BY <3>1, <3>2
  <2> QED BY <1>2, <2>1, <2>4 DEF Dockerfile
<1>6. CASE hit.rule = "dockerfile-user-directive"
  <2>1. d = [old EXCEPT !.users = {"nonroot"}]
    BY <1>6 DEF AmendedDockerfiles
  <2> QED BY <1>2, <2>1 DEF Dockerfile
<1> QED BY <1>3, <1>4, <1>5, <1>6 DEF DockerfileRules

LEMMA AmendedResourceTyped ==
  ASSUME NEW x \in Resource, NEW rule,
         rule = "istio-circuit-breaker" => x.kind = "DestinationRule"
  PROVE  AmendedResources(rule, x) \in Resource
<1>1. CASE x \in [kind : {"DestinationRule"}, connectionPool : BOOLEAN, outlierDetection : BOOLEAN]
  BY <1>1 DEF AmendedResources, Resource
<1>2. CASE x \in [kind : {"VirtualService"}, weighted : BOOLEAN]
  BY <1>2 DEF AmendedResources, Resource
<1>3. CASE x \in [kind : {"Rollout"}, canary : BOOLEAN, steps : BOOLEAN]
  BY <1>3 DEF AmendedResources, Resource
<1> QED BY <1>1, <1>2, <1>3 DEF Resource

LEMMA FollowedInMeshTyped ==
  ASSUME NEW r \in Repository, NEW hit \in Findings(r), hit.rag # "green",
         hit.rule \in IstioFieldRules \cup {"istio-mtls-strict", "PATCH-TRAFFIC-001", "PATCH-TRAFFIC-003"},
         NEW a \in FollowedInMesh(hit, r)
  PROVE  a \in Repository
<1>1. r.mesh \in [MeshFiles -> MeshFile \cup {None}] /\ Placed(hit, r)
  BY FindingsGood DEF Good, Repository
<1>2. ASSUME NEW f \in MeshFiles, NEW x \in MeshFile, a = [r EXCEPT !.mesh[f] = x]
      PROVE  a \in Repository
  <2>1. a = [r EXCEPT !.mesh = [r.mesh EXCEPT ![f] = x]]
    BY <1>2 DEF Repository
  <2>2. [r.mesh EXCEPT ![f] = x] \in [MeshFiles -> MeshFile \cup {None}]
    BY <1>1
  <2> QED BY <2>1, <2>2 DEF Repository
<1>3. CASE hit.rule = "istio-mtls-strict"
  <2>1. PICK f \in Meshed(r) : a = [r EXCEPT !.mesh[f].mtls = "STRICT"]
    BY <1>3 DEF FollowedInMesh, IstioFieldRules
  <2>2. r.mesh[f] \in MeshFile /\ f \in MeshFiles
    BY MeshedTyped
  <2>3. [r.mesh[f] EXCEPT !.mtls = "STRICT"] \in MeshFile
    BY <2>2 DEF MeshFile
  <2>4. a = [r EXCEPT !.mesh[f] = [r.mesh[f] EXCEPT !.mtls = "STRICT"]]
    BY <1>1, <2>1, <2>2 DEF Repository
  <2> QED BY <1>2, <2>2, <2>3, <2>4
<1>4. ASSUME NEW f \in Meshed(r), NEW x \in DOMAIN r.mesh[f].resources,
             hit.rule \in IstioFieldRules => r.mesh[f].resources[x].kind = "DestinationRule",
             a = [r EXCEPT !.mesh[f].resources[x] = AmendedResources(hit.rule, @)]
      PROVE  a \in Repository
  <2>1. PICK R \in SUBSET Resources : r.mesh[f].resources \in [R -> Resource]
    BY MeshedTyped
  <2>2. r.mesh[f] \in MeshFile /\ f \in MeshFiles /\ x \in R /\ r.mesh[f].resources[x] \in Resource
    BY <1>4, <2>1, MeshedTyped
  <2> DEFINE new == AmendedResources(hit.rule, r.mesh[f].resources[x])
             file == [r.mesh[f] EXCEPT !.resources = [r.mesh[f].resources EXCEPT ![x] = new]]
  <2>3. new \in Resource
    BY <1>4, <2>2, AmendedResourceTyped DEF IstioFieldRules
  <2>4. a = [r EXCEPT !.mesh[f] = file]
    BY <1>1, <1>4, <2>1, <2>2 DEF Repository, MeshFile
  <2> HIDE DEF new
  <2>5. [r.mesh[f].resources EXCEPT ![x] = new] \in [R -> Resource]
    BY <2>1, <2>2, <2>3
  <2>6. file \in MeshFile
    BY <2>1, <2>2, <2>5 DEF MeshFile
  <2> QED BY <1>2, <2>2, <2>4, <2>6
<1>5. CASE hit.rule \in IstioFieldRules
  <2>1. PICK x \in Named("DestinationRule", hit.place[1], r) :
          a = [r EXCEPT !.mesh[hit.place[1]].resources[x] = AmendedResources(hit.rule, @)]
    BY <1>5 DEF FollowedInMesh, IstioFieldRules
  <2>2. /\ hit.place[1] \in Meshed(r) /\ x \in DOMAIN r.mesh[hit.place[1]].resources
        /\ r.mesh[hit.place[1]].resources[x].kind = "DestinationRule"
    BY <1>1, <1>5, <2>1 DEF Placed, Named
  <2> QED BY <1>4, <2>1, <2>2
<1>6. CASE hit.rule \in {"PATCH-TRAFFIC-001", "PATCH-TRAFFIC-003"}
  <2>1. a = [r EXCEPT !.mesh[hit.place[1]].resources[hit.place[2]] = AmendedResources(hit.rule, @)]
    BY <1>6 DEF FollowedInMesh, IstioFieldRules
  <2>2. /\ hit.place[1] \in Meshed(r) /\ hit.place[2] \in DOMAIN r.mesh[hit.place[1]].resources
        /\ hit.rule \notin IstioFieldRules
    BY <1>1, <1>6 DEF Placed, MeshResources, IstioFieldRules
  <2> QED BY <1>4, <2>1, <2>2
<1> QED BY <1>3, <1>5, <1>6

LEMMA AnnotatedOrNotRootTyped ==
  ASSUME NEW w \in Workload
  PROVE  /\ [w EXCEPT !.annotated = TRUE] \in Workload
         /\ [w EXCEPT !.root = FALSE] \in Workload
<1>1. PICK C \in SUBSET Containers : w.containers \in [C -> Container]
  BY DEF Workload
<1>2. [w EXCEPT !.annotated = TRUE] \in Workload
  BY <1>1 DEF Workload
<1>3. [w EXCEPT !.root = FALSE] \in Workload
  BY <1>1 DEF Workload
<1> QED BY <1>2, <1>3

LEMMA TagsTyped ==
  ASSUME NEW r \in Repository, NEW c, NEW t \in OtherTags(c, r)
  PROVE  t \in Tags
<1>1. PICK s \in FinalStages(r) : t = s.tag /\ t # None
  BY DEF OtherTags, TagsOf
<1>2. PICK f \in Built(r) : s = r.dockerfiles[f].stages[Len(r.dockerfiles[f].stages)]
  BY <1>1 DEF FinalStages
<1>3. s \in Stage
  <2>1. r.dockerfiles[f].stages \in Seq(Stage) /\ r.dockerfiles[f].stages # << >>
    BY BuiltTyped
  <2>2. Len(r.dockerfiles[f].stages) \in 1 .. Len(r.dockerfiles[f].stages)
    BY <2>1, LenProperties, EmptySeq
  <2> QED BY <1>2, <2>1, <2>2, ElementOfSeq
<1> QED BY <1>1, <1>3 DEF Stage

LEMMA FollowedInDependenciesTyped ==
  ASSUME NEW r \in Repository, NEW hit \in Findings(r), hit.rag # "green",
         hit.rule \in {"PATCH-DEPS-001", "PATCH-DEPS-002", "PATCH-DEPS-003",
                       "dockerfile-k8s-image-drift", "dockerfile-k8s-user-conflict"},
         NEW a \in FollowedInDependencies(hit, r)
  PROVE  a \in Manifests
<1> DEFINE m == r.k8s
<1>1. m \in Manifests /\ m.workloads \in [Names -> Workload \cup {None}] /\ Placed(hit, r)
  BY FindingsGood DEF Good, Repository, Manifests
<1>2. ASSUME NEW b \in Manifests, NEW n \in Names, NEW w \in Workload,
             NEW c, c = [b EXCEPT !.workloads[n] = w]
      PROVE  c \in Manifests
  <2>1. c = [b EXCEPT !.workloads = [b.workloads EXCEPT ![n] = w]]
    BY <1>2 DEF Manifests
  <2> QED BY <2>1 DEF Manifests
<1>3. ASSUME NEW n \in Collected(m)
      PROVE  n \in Names /\ m.workloads[n] \in Workload
  BY <1>1, CollectedTyped
<1>4. CASE hit.rule = "PATCH-DEPS-001"
  <2>1. PICK n \in Collected(m) : hit.place = <<n>>
    BY <1>1, <1>4 DEF Placed
  <2>2. a = [m EXCEPT !.workloads[n].annotated = TRUE]
    BY <1>4, <2>1 DEF FollowedInDependencies
  <2>3. a = [m EXCEPT !.workloads[n] = [m.workloads[n] EXCEPT !.annotated = TRUE]]
    BY <1>1, <1>3, <2>2 DEF Manifests
  <2>4. [m.workloads[n] EXCEPT !.annotated = TRUE] \in Workload
    BY <1>3, AnnotatedOrNotRootTyped
  <2> QED BY <1>1, <1>2, <1>3, <2>3, <2>4
<1>5. CASE hit.rule = "PATCH-DEPS-002"
  <2>1. PICK pool : a \in Spread(pool, m)
    BY <1>5 DEF FollowedInDependencies
  <2>2. PICK n \in Collected(m), p \in Pools : a = [m EXCEPT !.workloads[n].node_selector = p]
    BY <2>1 DEF Spread, SamePool
  <2>3. a = [m EXCEPT !.workloads[n] = [m.workloads[n] EXCEPT !.node_selector = p]]
    BY <1>1, <1>3, <2>2 DEF Manifests
  <2>4. [m.workloads[n] EXCEPT !.node_selector = p] \in Workload
    BY <1>3 DEF Workload
  <2> QED BY <1>1, <1>2, <1>3, <2>3, <2>4
<1>6. CASE hit.rule = "PATCH-DEPS-003"
  <2>1. PICK n \in Collected(m) : hit.place = <<n>>
    BY <1>1, <1>6 DEF Placed
  <2>2. a \in AmendedRings(n, m)
    BY <1>6, <2>1 DEF FollowedInDependencies
  <2>3. PICK t \in LowerRing(n, m) :
          \/ a = [m EXCEPT !.workloads[t].ring = m.workloads[n].ring]
          \/ a = [m EXCEPT !.workloads[n].calls = @ \ {t}, !.workloads[t].calls = @ \cup {n}]
    BY <2>2 DEF AmendedRings
  <2>4. t \in Collected(m) /\ t # n
    BY <1>3 DEF LowerRing, Ringed, Workload
  <2>5. CASE a = [m EXCEPT !.workloads[t].ring = m.workloads[n].ring]
    <3>1. a = [m EXCEPT !.workloads[t] = [m.workloads[t] EXCEPT !.ring = m.workloads[n].ring]]
      BY <1>1, <1>3, <2>4, <2>5 DEF Manifests
    <3>2. [m.workloads[t] EXCEPT !.ring = m.workloads[n].ring] \in Workload
      BY <1>3, <2>4 DEF Workload
    <3> QED BY <1>1, <1>2, <1>3, <2>4, <3>1, <3>2
  <2>6. CASE a = [m EXCEPT !.workloads[n].calls = @ \ {t}, !.workloads[t].calls = @ \cup {n}]
    <3> DEFINE wn == [m.workloads[n] EXCEPT !.calls = @ \ {t}]
               wt == [m.workloads[t] EXCEPT !.calls = @ \cup {n}]
               b == [m EXCEPT !.workloads[n] = wn]
    <3>1. wn \in Workload /\ wt \in Workload
      BY <1>3, <2>1, <2>4 DEF Workload
    <3>2. a = [b EXCEPT !.workloads[t] = wt]
      BY <1>1, <1>3, <2>1, <2>4, <2>6 DEF Manifests
    <3> HIDE DEF wn, wt
    <3>3. b \in Manifests
      BY <1>1, <1>2, <1>3, <2>1, <3>1
    <3> HIDE DEF b
    <3> QED BY <1>2, <1>3, <2>4, <3>1, <3>2, <3>3
  <2> QED BY <2>3, <2>5, <2>6
<1>7. ASSUME NEW n \in Collected(m), NEW k \in DOMAIN m.workloads[n].containers,
             NEW c \in Container, a = [m EXCEPT !.workloads[n].containers[k] = c]
      PROVE  a \in Manifests
  <2>1. m.workloads[n] \in Workload /\ n \in Names
    BY <1>3
  <2>2. PICK C \in SUBSET Containers : m.workloads[n].containers \in [C -> Container]
    BY <2>1 DEF Workload
  <2> DEFINE cs == [m.workloads[n].containers EXCEPT ![k] = c]
             w == [m.workloads[n] EXCEPT !.containers = cs]
  <2>3. a = [m EXCEPT !.workloads[n] = w]
    BY <1>1, <1>7, <2>1 DEF Manifests, Workload
  <2>4. cs \in [C -> Container]
    BY <1>7, <2>2
  <2> HIDE DEF cs
  <2>5. w \in Workload
    BY <2>1, <2>2, <2>4 DEF Workload
  <2> HIDE DEF w
  <2> QED BY <1>1, <1>2, <2>1, <2>3, <2>5
<1>8. ASSUME hit.place \in Running(m)
      PROVE  /\ hit.place[1] \in Collected(m) /\ hit.place[2] \in DOMAIN m.workloads[hit.place[1]].containers
             /\ m.workloads[hit.place[1]].containers[hit.place[2]] \in Container /\ Len(hit.place) = 2
  <2>1. /\ hit.place[1] \in Collected(m) /\ Len(hit.place) = 2
        /\ hit.place[2] \in DOMAIN m.workloads[hit.place[1]].containers
    BY <1>8 DEF Running
  <2> QED BY <1>3, <2>1, ContainersNamed
<1>9. CASE hit.rule = "dockerfile-k8s-image-drift"
  <2> DEFINE n == hit.place[1]
             k == hit.place[2]
             c == m.workloads[n].containers[k]
  <2>1. n \in Collected(m) /\ k \in DOMAIN m.workloads[n].containers /\ c \in Container
    BY <1>1, <1>8, <1>9 DEF Placed
  <2>2. PICK t \in OtherTags(c, r) : a = [m EXCEPT !.workloads[n].containers[k].tag = t]
    BY <1>9 DEF FollowedInDependencies, AmendedTags
  <2>3. t \in Tags
    BY <2>2, TagsTyped
  <2>4. [c EXCEPT !.tag = t] \in Container
    BY <2>1, <2>3 DEF Container
  <2>5. a = [m EXCEPT !.workloads[n].containers[k] = [c EXCEPT !.tag = t]]
    BY <1>1, <1>3, <2>1, <2>2 DEF Manifests, Workload
  <2> HIDE DEF n, k, c
  <2> QED BY <1>7, <2>1, <2>4, <2>5
<1>10. CASE hit.rule = "dockerfile-k8s-user-conflict"
  <2>1. a = WithoutRoot(hit.place, m)
    BY <1>10 DEF FollowedInDependencies
  <2>2. CASE hit.place \in Running(m)
    <3> DEFINE n == hit.place[1]
               k == hit.place[2]
               c == m.workloads[n].containers[k]
    <3>1. /\ n \in Collected(m) /\ k \in DOMAIN m.workloads[n].containers /\ c \in Container
          /\ Len(hit.place) = 2
      BY <1>8, <2>2
    <3>2. a = [m EXCEPT !.workloads[n].containers[k].root = FALSE]
      BY <2>1, <3>1 DEF WithoutRoot
    <3>3. [c EXCEPT !.root = FALSE] \in Container
      BY <3>1 DEF Container
    <3>4. a = [m EXCEPT !.workloads[n].containers[k] = [c EXCEPT !.root = FALSE]]
      BY <1>1, <1>3, <3>1, <3>2 DEF Manifests, Workload
    <3> HIDE DEF n, k, c
    <3> QED BY <1>7, <3>1, <3>3, <3>4
  <2>3. CASE \E n \in Collected(m) : hit.place = <<n>>
    <3>1. PICK n \in Collected(m) : hit.place = <<n>>
      BY <2>3
    <3>2. a = [m EXCEPT !.workloads[n].root = FALSE]
      BY <2>1, <3>1 DEF WithoutRoot
    <3>3. a = [m EXCEPT !.workloads[n] = [m.workloads[n] EXCEPT !.root = FALSE]]
      BY <1>1, <1>3, <3>2 DEF Manifests
    <3>4. [m.workloads[n] EXCEPT !.root = FALSE] \in Workload
      BY <1>3, AnnotatedOrNotRootTyped
    <3> QED BY <1>1, <1>2, <1>3, <3>3, <3>4
  <2> QED BY <1>1, <1>10, <2>2, <2>3 DEF Placed
<1> QED BY <1>4, <1>5, <1>6, <1>9, <1>10

LEMMA FollowedTyped ==
  ASSUME NEW r \in Repository, NEW hit \in Hits(r), NEW a \in Followed(hit, r)
  PROVE  a \in Repository
<1>1. hit \in Findings(r) /\ hit.rag # "green" /\ hit.rule \in Rules /\ Placed(hit, r)
  BY FindingsGood DEF Hits, Good, Finding
<1>2. ASSUME NEW m \in Manifests, a = [r EXCEPT !.k8s = m] PROVE a \in Repository
  BY <1>2 DEF Repository
<1>3. ASSUME NEW f \in Dockerfiles, NEW d \in Dockerfile, a = [r EXCEPT !.dockerfiles[f] = d]
      PROVE  a \in Repository
  <2>1. a = [r EXCEPT !.dockerfiles = [r.dockerfiles EXCEPT ![f] = d]]
    BY <1>3 DEF Repository
  <2> QED BY <2>1 DEF Repository
<1>4. CASE hit.rule \in ManifestRules
  <2>1. PICK m \in FollowedInManifests(hit, r.k8s) : a = [r EXCEPT !.k8s = m]
    BY <1>4 DEF Followed, ManifestRules, WorkloadFieldRules, DockerfileRules, IstioFieldRules
  <2>2. r.k8s \in Manifests /\ hit \in ManifestFindings(r.k8s)
    BY <1>1, <1>4 DEF Placed, Repository
  <2> QED BY <1>1, <1>2, <2>1, <2>2, FollowedInManifestsTyped
<1>5. CASE hit.rule \in DockerfileRules
  <2>1. PICK d \in AmendedDockerfiles(hit, r.dockerfiles[hit.place[1]]) :
          a = [r EXCEPT !.dockerfiles[hit.place[1]] = d]
    BY <1>5 DEF Followed, ManifestRules, WorkloadFieldRules, DockerfileRules, IstioFieldRules
  <2>2. d \in Dockerfile
    BY <1>1, <1>5, <2>1, AmendedDockerfileTyped
  <2>3. hit.place[1] \in Dockerfiles
    BY <1>1, <1>5 DEF Placed, Built
  <2> QED BY <1>3, <2>1, <2>2, <2>3
<1>6. CASE hit.rule \in {"PATCH-ROLL-001", "PATCH-TRAFFIC-002"}
  <2>1. PICK d \in Documents : a = [r EXCEPT !.documents = @ \cup {d}]
    BY <1>6 DEF Followed, ManifestRules, WorkloadFieldRules, DockerfileRules, IstioFieldRules
  <2> QED BY <2>1 DEF Repository
<1>7. CASE hit.rule \in IstioFieldRules
                          \cup {"istio-mtls-strict", "PATCH-TRAFFIC-001", "PATCH-TRAFFIC-003"}
  <2>1. a \in FollowedInMesh(hit, r)
    BY <1>7 DEF Followed, ManifestRules, WorkloadFieldRules, DockerfileRules, IstioFieldRules
  <2> QED BY <1>1, <1>7, <2>1, FollowedInMeshTyped
<1>8. CASE hit.rule \in {"PATCH-DEPS-001", "PATCH-DEPS-002", "PATCH-DEPS-003",
                         "dockerfile-k8s-image-drift", "dockerfile-k8s-user-conflict"}
  <2>1. \/ \E m \in FollowedInDependencies(hit, r) : a = [r EXCEPT !.k8s = m]
        \/ \E f \in NonRoot(r) : a = [r EXCEPT !.dockerfiles[f].users = {"root"}]
    BY <1>8 DEF Followed, ManifestRules, WorkloadFieldRules, DockerfileRules, IstioFieldRules
  <2>2. CASE \E m \in FollowedInDependencies(hit, r) : a = [r EXCEPT !.k8s = m]
    BY <1>1, <1>2, <1>8, <2>2, FollowedInDependenciesTyped
  <2>3. CASE \E f \in NonRoot(r) : a = [r EXCEPT !.dockerfiles[f].users = {"root"}]
    <3>1. PICK f \in NonRoot(r) : a = [r EXCEPT !.dockerfiles[f].users = {"root"}]
      BY <2>3
    <3>2. f \in Dockerfiles /\ r.dockerfiles[f] \in Dockerfile
      BY BuiltTyped DEF NonRoot
    <3>3. [r.dockerfiles[f] EXCEPT !.users = {"root"}] \in Dockerfile
      BY <3>2 DEF Dockerfile
    <3>4. a = [r EXCEPT !.dockerfiles[f] = [r.dockerfiles[f] EXCEPT !.users = {"root"}]]
      BY <3>1, <3>2 DEF Repository
    <3> QED BY <1>3, <3>2, <3>3, <3>4
  <2> QED BY <2>1, <2>2, <2>3
<1> QED BY <1>1, <1>4, <1>5, <1>6, <1>7, <1>8 DEF Rules
=============================================================================
