----------------------- MODULE WorkloadReviewProofs -----------------------
(***************************************************************************)
(* Proofs about WorkloadReview, for any drafts, probes, images and mesh.   *)
(*                                                                         *)
(* Findings have one of few shapes (DeliveryRulesProofs): but for a few    *)
(* rules an all-clear stands at a place where no hit stands, and a rule    *)
(* has one colour, except the one about readiness probes.  What the        *)
(* nightly scan recorded has these shapes, and so the comparison of keys   *)
(* without colours can mistake only such findings for one another.         *)
(*                                                                         *)
(* What following a recommendation does to the hits of all rules is shown  *)
(* for each kind of hit, from what an edit of one workload, container,     *)
(* Dockerfile or mesh file can change in what the rules read.              *)
(***************************************************************************)
EXTENDS WorkloadReview, DeliveryRulesProofs

-----------------------------------------------------------------------------
Inv == /\ TypeOK
       /\ nightly # None => \A f \in nightly : Shaped(f)

LEMMA InitInv == Init => Inv
BY WorkloadReviewAssumption DEF Init, Inv, TypeOK, Repository, Manifests

\* The manifests and the files of a repository may be replaced one by one.
LEMMA RepositoryParts ==
  ASSUME NEW r \in Repository
  PROVE  /\ r.k8s \in Manifests /\ r.k8s.workloads \in [Names -> Workload \cup {None}]
         /\ r.dockerfiles \in [Dockerfiles -> Dockerfile \cup {None}]
         /\ r.mesh \in [MeshFiles -> MeshFile \cup {None}]
         /\ \A m \in Manifests : [r EXCEPT !.k8s = m] \in Repository
BY DEF Repository, Manifests

\* Whatever an edit writes is a repository.
LEMMA EditTyped ==
  ASSUME Inv, NEW a, Edit(a), a \in Repository
  PROVE  Inv'
<1>1. edits' \in 0 .. MaxEdits
  BY WorkloadReviewAssumption DEF Edit, Inv, TypeOK
<1> QED BY <1>1 DEF Edit, Inv, TypeOK

LEMMA ManifestEditsTyped ==
  ASSUME Inv,
         \/ \E draft \in Drafts : Write(draft[1], draft[2])
         \/ \E n \in Names : Remove(n) \/ Garble(n) \/ \E c \in {None, 1, 2} : Scale(n, c)
         \/ \E p \in repository.k8s.pdbs : RemovePdb(p)
         \/ RemoveNetworkPolicy
  PROVE  Inv'
<1> DEFINE m == repository.k8s
<1>1. repository \in Repository /\ m \in Manifests
      /\ m.workloads \in [Names -> Workload \cup {None}]
  BY RepositoryParts DEF Inv, TypeOK
<1>2. ASSUME NEW b \in Manifests, Edit([repository EXCEPT !.k8s = b]) PROVE Inv'
  BY <1>1, <1>2, RepositoryParts, EditTyped
<1>3. ASSUME NEW n \in Names, NEW w \in Workload \cup {None}, NEW M \in SUBSET Names
      PROVE  [m EXCEPT !.workloads = [m.workloads EXCEPT ![n] = w], !.malformed = M] \in Manifests
  BY <1>1 DEF Manifests
<1>4. ASSUME NEW n \in Names, NEW w \in Workload \cup {None},
             Edit([repository EXCEPT !.k8s.workloads[n] = w, !.k8s.malformed = @ \ {n}])
      PROVE  Inv'
  <2> DEFINE b == [m EXCEPT !.workloads = [m.workloads EXCEPT ![n] = w], !.malformed = m.malformed \ {n}]
  <2>1. m.malformed \ {n} \in SUBSET Names
    BY <1>1 DEF Manifests
  <2>2. [repository EXCEPT !.k8s.workloads[n] = w, !.k8s.malformed = @ \ {n}]
          = [repository EXCEPT !.k8s = b]
    BY <1>1 DEF Repository, Manifests
  <2>3. b \in Manifests
    BY <1>3, <2>1
  <2> HIDE DEF b
  <2> QED BY <1>2, <1>4, <2>2, <2>3
<1>5. CASE \E draft \in Drafts : Write(draft[1], draft[2])
  <2>1. PICK draft \in Drafts : Write(draft[1], draft[2])
    BY <1>5
  <2>2. draft[1] \in Names /\ draft[2] \in Workload
    BY <2>1, WorkloadReviewAssumption
  <2> QED BY <1>4, <2>1, <2>2 DEF Write
<1>6. ASSUME NEW n \in Names, Remove(n) PROVE Inv'
  BY <1>4, <1>6 DEF Remove
<1>7. ASSUME NEW n \in Names, Garble(n) PROVE Inv'
  <2>1. [repository EXCEPT !.k8s.malformed = @ \cup {n}]
          = [repository EXCEPT !.k8s = [m EXCEPT !.malformed = m.malformed \cup {n}]]
    BY <1>1 DEF Repository
  <2>2. [m EXCEPT !.malformed = m.malformed \cup {n}] \in Manifests
    BY <1>1 DEF Manifests
  <2> QED BY <1>2, <1>7, <2>1, <2>2 DEF Garble
<1>8. ASSUME NEW n \in Names, NEW c \in {None, 1, 2}, Scale(n, c) PROVE Inv'
  <2> DEFINE w == [m.workloads[n] EXCEPT !.replicas = c]
             b == [m EXCEPT !.workloads = [m.workloads EXCEPT ![n] = w], !.malformed = m.malformed]
  <2>1. m.workloads[n] \in Workload
    BY <1>1, <1>8, CollectedTyped DEF Scale
  <2>2. w \in Workload
    BY <2>1 DEF Workload
  <2>3. [repository EXCEPT !.k8s.workloads[n].replicas = c] = [repository EXCEPT !.k8s = b]
    BY <1>1 DEF Repository, Manifests
  <2> HIDE DEF w
  <2>4. b \in Manifests
    <3>1. m.malformed \in SUBSET Names
      BY <1>1 DEF Manifests
    <3> QED BY <1>3, <2>2, <3>1
  <2> HIDE DEF b
  <2> QED BY <1>2, <1>8, <2>3, <2>4 DEF Scale
<1>9. ASSUME NEW p \in m.pdbs, RemovePdb(p) PROVE Inv'
  <2>1. [repository EXCEPT !.k8s.pdbs = @ \ {p}]
          = [repository EXCEPT !.k8s = [m EXCEPT !.pdbs = m.pdbs \ {p}]]
    BY <1>1 DEF Repository
  <2>2. [m EXCEPT !.pdbs = m.pdbs \ {p}] \in Manifests
    BY <1>1 DEF Manifests
  <2> QED BY <1>2, <1>9, <2>1, <2>2 DEF RemovePdb
<1>10. CASE RemoveNetworkPolicy
  <2>1. [repository EXCEPT !.k8s.network_policy = FALSE]
          = [repository EXCEPT !.k8s = [m EXCEPT !.network_policy = FALSE]]
    BY <1>1 DEF Repository
  <2>2. [m EXCEPT !.network_policy = FALSE] \in Manifests
    BY <1>1 DEF Manifests
  <2> QED BY <1>2, <1>10, <2>1, <2>2 DEF RemoveNetworkPolicy
<1> QED BY <1>5, <1>6, <1>7, <1>8, <1>9, <1>10

LEMMA OtherEditsTyped ==
  ASSUME Inv,
         \/ \E draft \in DockerDrafts : WriteDockerfile(draft[1], draft[2])
         \/ \E draft \in MeshDrafts : WriteMesh(draft[1], draft[2])
         \/ \E f \in Dockerfiles : RemoveDockerfile(f)
         \/ \E f \in MeshFiles : RemoveMesh(f)
         \/ \E d \in Documents : RemoveDocument(d)
  PROVE  Inv'
<1>1. repository \in Repository
  BY DEF Inv, TypeOK
<1>2. ASSUME NEW f \in Dockerfiles, NEW d \in Dockerfile \cup {None}, WriteDockerfile(f, d)
      PROVE  Inv'
  <2>1. [repository EXCEPT !.dockerfiles[f] = d] \in Repository
    BY <1>1 DEF Repository
  <2> QED BY <1>2, <2>1, EditTyped DEF WriteDockerfile
<1>3. ASSUME NEW f \in MeshFiles, NEW x \in MeshFile \cup {None}, WriteMesh(f, x)
      PROVE  Inv'
  <2>1. [repository EXCEPT !.mesh[f] = x] \in Repository
    BY <1>1 DEF Repository
  <2> QED BY <1>3, <2>1, EditTyped DEF WriteMesh
<1>4. CASE \E draft \in DockerDrafts : WriteDockerfile(draft[1], draft[2])
  BY <1>2, <1>4, WorkloadReviewAssumption
<1>5. CASE \E draft \in MeshDrafts : WriteMesh(draft[1], draft[2])
  BY <1>3, <1>5, WorkloadReviewAssumption
<1>6. CASE \E f \in Dockerfiles : RemoveDockerfile(f)
  BY <1>2, <1>6 DEF RemoveDockerfile
<1>7. CASE \E f \in MeshFiles : RemoveMesh(f)
  BY <1>3, <1>7 DEF RemoveMesh
<1>8. CASE \E d \in Documents : RemoveDocument(d)
  <2>1. PICK d \in Documents : RemoveDocument(d)
    BY <1>8
  <2>2. [repository EXCEPT !.documents = @ \ {d}] \in Repository
    BY <1>1 DEF Repository
  <2> QED BY <2>1, <2>2, EditTyped DEF RemoveDocument
<1> QED BY <1>4, <1>5, <1>6, <1>7, <1>8

LEMMA NextInv == Inv /\ [Next]_vars => Inv'
<1> SUFFICES ASSUME Inv, [Next]_vars PROVE Inv'
  OBVIOUS
<1>1. repository \in Repository
  BY DEF Inv, TypeOK
<1>2. CASE FollowSomeAdvice
  <2>1. repository' \in Repository /\ UNCHANGED <<nightly, edits>>
    BY <1>1, <1>2, FollowedTyped DEF FollowSomeAdvice, FollowAdvice
  <2> QED BY <2>1 DEF Inv, TypeOK
<1>3. CASE NightlyScan
  <2>1. \A f \in nightly' : f \in Finding /\ Shaped(f)
    BY <1>1, <1>3, FindingsGood DEF NightlyScan, Good
  <2> QED BY <1>3, <2>1 DEF NightlyScan, Inv, TypeOK, Finding, Rags
<1>4. CASE UNCHANGED vars
  BY <1>4 DEF vars, Inv, TypeOK
<1> QED BY <1>2, <1>3, <1>4, ManifestEditsTyped, OtherEditsTyped DEF Next

\* The repository, the nightly records and the count of edits keep their types
\* whatever the team writes and whatever recommendations it follows.
THEOREM TypeCorrect == Spec => []TypeOK
<1>1. Inv => TypeOK
  BY DEF Inv
<1> QED BY <1>1, InitInv, NextInv, PTL DEF Spec

\* A finding that is not reported has the rule and the place of a record.
LEMMA SilentIsRecorded ==
  ASSUME nightly # None, NEW f \in Findings(repository) \ Reported
  PROVE  \E g \in nightly : g.rule = f.rule /\ g.place = f.place
<1>1. Keyed(f) \notin
        Compare!FilterNewFindings({Keyed(g) : g \in Findings(repository)},
                                  Compare!LoadBaseline({Keyed(g) : g \in nightly}))
  BY DEF Reported
<1>2. Keyed(f).hash = None
  BY DEF Keyed
<1>3. Compare!LegacyMatch(Keyed(f), Compare!LoadBaseline({Keyed(g) : g \in nightly}))
  BY <1>1, <1>2 DEF Compare!FilterNewFindings, Compare!StableMatch
<1>4. PICK g \in nightly : Compare!IdentityKey(Keyed(f)) = Compare!IdentityKey(Keyed(g))
  BY <1>3 DEF Compare!LegacyMatch, Compare!LoadBaseline
<1>5. Keyed(f).group = Keyed(g).group
  BY <1>4 DEF Compare!IdentityKey
<1>6. <<f.rule, f.place>> = <<g.rule, g.place>>
  BY <1>5 DEF Keyed
<1> QED BY <1>6

\* Only known hits are silent: of what got worse since the nightly scan, a pull
\* request hides nothing but readiness probes, and hits where the rule put an
\* all-clear in their place.
THEOREM SilenceHasReason == Spec => []OnlyKnownHitsAreSilent
<1>1. Inv => OnlyKnownHitsAreSilent
  <2> SUFFICES ASSUME Inv, nightly # None, NEW h \in Hits(repository) \ Reported
               PROVE  \/ h \in nightly \/ [h EXCEPT !.rag = "red"] \in nightly
                      \/ h.rule = "PATCH-HEALTH-001" /\ [h EXCEPT !.rag = "amber"] \in nightly
                      \/ h.rule \in AllClearsInPlace /\ [h EXCEPT !.rag = "green"] \in nightly
    BY DEF OnlyKnownHitsAreSilent
  <2>1. h \in Findings(repository) /\ h.rag # "green"
    BY DEF Hits
  <2>2. h \in Finding /\ Shaped(h)
    BY <2>1, FindingsGood DEF Inv, TypeOK, Good
  <2>3. PICK g \in nightly : g.rule = h.rule /\ g.place = h.place
    BY <2>1, SilentIsRecorded
  <2>4. g \in Finding /\ Shaped(g)
    BY <2>3 DEF Inv, TypeOK, Finding, Rags
  <2>5. g = [h EXCEPT !.rag = g.rag]
    BY <2>2, <2>3, <2>4 DEF Finding
  <2>6. CASE g.rag = "green"
    <3>1. h.rule \in AllClearsInPlace
      BY <2>1, <2>2, <2>3, <2>4, <2>6 DEF Shaped
    <3> QED BY <2>3, <2>5, <2>6, <3>1
  <2>7. CASE g.rag = "red"
    BY <2>3, <2>5, <2>7
  <2>8. CASE g.rag = "amber" /\ h.rag = "amber"
    <3>1. h = [h EXCEPT !.rag = "amber"]
      BY <2>2, <2>8 DEF Finding
    <3> QED BY <2>3, <2>5, <2>8, <3>1
  <2>9. CASE g.rag = "amber" /\ h.rag = "red"
    <3>1. h.rule = "PATCH-HEALTH-001"
      BY <2>2, <2>3, <2>4, <2>9 DEF Shaped
    <3> QED BY <2>3, <2>5, <2>9, <3>1
  <2> QED BY <2>1, <2>2, <2>4, <2>6, <2>7, <2>8, <2>9 DEF Finding, Rags
<1> QED BY <1>1, InitInv, NextInv, PTL DEF Spec

-----------------------------------------------------------------------------
(***************************************************************************)
(* What makes a hit, rule by rule.                                         *)
(***************************************************************************)
WorkloadHit(h, m) ==
  \E rule \in WorkloadFieldRules, n \in Collected(m) : h \in HitsOf(rule, n, m.workloads[n])
PolicyHit(h, m) ==
  ~ m.network_policy /\ h = Found("network-policy-missing", <<".">>, "amber")
Uncovered(w, m) == HasReplicas(w) /\ MultiReplica(w) /\ ~ Covered(w, m)
BudgetHit(h, m) ==
  \E n \in Collected(m) :
    Uncovered(m.workloads[n], m) /\ h = Found("PATCH-ARCH-004", <<n>>, "amber")
DeclarationHit(h, m) ==
  \E n \in Collected(m) :
    ~ m.workloads[n].annotated /\ h = Found("PATCH-DEPS-001", <<n>>, "amber")
SharedFateHit(h, m) ==
  \/ \E pool \in SharedPools(m) :
       h = Found("PATCH-DEPS-002", <<First(SamePool(pool, m))>>, "amber")
  \/ \E host \in SharedHosts(m) :
       h = Found("PATCH-DEPS-002", <<First(UsersOf(host, m))>>, "amber")
CrossRingHit(h, m) ==
  \E n \in Ringed(m) : LowerRing(n, m) # {} /\ h = Found("PATCH-DEPS-003", <<n>>, "amber")
DocumentHit(h, r) ==
  /\ Collected(r.k8s) # {}
  /\ \/ /\ RollbackDocuments \cap r.documents = {}
        /\ h = Found("PATCH-ROLL-001", <<"repo-root">>, "amber")
     \/ /\ FailoverDocuments \cap r.documents = {}
        /\ h = Found("PATCH-TRAFFIC-002", <<"repo-root">>, "amber")
DockerfileHit(h, r) ==
  \E rule \in DockerfileRules, f \in Built(r) : h \in DockerfileHits(rule, f, r.dockerfiles[f])
DriftHit(h, r) ==
  \E p \in Running(r.k8s) :
    /\ OtherTags(ContainerAt(p, r.k8s), r) # {}
    /\ h = Found("dockerfile-k8s-image-drift", p, "amber")
ConflictHit(h, r) ==
  /\ NonRoot(r) # {}
  /\ \E place \in {<<n>> : n \in RootPods(r.k8s)} \cup RootContainers(r.k8s) :
       h = Found("dockerfile-k8s-user-conflict", place, "red")
MtlsHit(h, r) ==
  /\ IstioFiles(r) # {} /\ \A f \in IstioFiles(r) : r.mesh[f].mtls # "STRICT"
  /\ h = Found("istio-mtls-strict", <<First(IstioFiles(r))>>, "red")
IstioHit(h, r) ==
  \E rule \in IstioFieldRules, f \in IstioFiles(r) :
    IstioFails(rule, f, r) /\ h = Found(rule, <<f>>, "amber")
TrafficHit(h, r) ==
  \E p \in MeshResources(r) :
    \/ /\ Shifting(ResourceAt(p, r)) /\ ~ ShiftsGradually(ResourceAt(p, r))
       /\ h = Found("PATCH-TRAFFIC-001", p, "amber")
    \/ /\ ResourceAt(p, r).kind = "DestinationRule" /\ ~ ResourceAt(p, r).connectionPool
       /\ h = Found("PATCH-TRAFFIC-003", p, "amber")

LEMMA WorkloadHitsAre ==
  ASSUME NEW m, NEW h
  PROVE  /\ (\E rule \in WorkloadFieldRules : h \in FieldRuleFindings(rule, m) /\ h.rag # "green")
              <=> WorkloadHit(h, m)
         /\ (h \in NetworkPolicyFindings(m) /\ h.rag # "green") <=> PolicyHit(h, m)
         /\ (h \in PdbFindings(m) /\ h.rag # "green") <=> BudgetHit(h, m)
<1>1. ASSUME NEW rule \in WorkloadFieldRules
      PROVE  (h \in FieldRuleFindings(rule, m) /\ h.rag # "green")
               <=> \E n \in Collected(m) : h \in HitsOf(rule, n, m.workloads[n])
  <2>1. AllClear(rule, Collected(m)).rag = "green"
    BY DEF AllClear, Found
  <2>2. ASSUME NEW n, h \in HitsOf(rule, n, m.workloads[n]) PROVE h.rag # "green"
    <3>1. h.rag = Rag(rule, m.workloads[n])
      BY <2>2 DEF HitsOf, Found
    <3> QED BY <3>1 DEF Rag
  <2>3. h \in UNION {HitsOf(rule, n, m.workloads[n]) : n \in Collected(m)}
          <=> \E n \in Collected(m) : h \in HitsOf(rule, n, m.workloads[n])
    OBVIOUS
  <2> QED BY <2>1, <2>2, <2>3 DEF FieldRuleFindings, Judged
<1>2. (h \in NetworkPolicyFindings(m) /\ h.rag # "green") <=> PolicyHit(h, m)
  BY DEF NetworkPolicyFindings, Judged, AllClear, Found, PolicyHit
<1>3. (h \in PdbFindings(m) /\ h.rag # "green") <=> BudgetHit(h, m)
  BY DEF PdbFindings, BudgetHit, Uncovered, Found
<1> QED BY <1>1, <1>2, <1>3 DEF WorkloadHit

LEMMA DependencyHitsAre ==
  ASSUME NEW r, NEW h
  PROVE  /\ (h \in DeclarationFindings(r.k8s) /\ h.rag # "green") <=> DeclarationHit(h, r.k8s)
         /\ (h \in SharedFateFindings(r.k8s) /\ h.rag # "green") <=> SharedFateHit(h, r.k8s)
         /\ (h \in CrossRingFindings(r.k8s) /\ h.rag # "green") <=> CrossRingHit(h, r.k8s)
         /\ (/\ h \in DocumentFindings("PATCH-ROLL-001", RollbackDocuments, r)
                        \cup DocumentFindings("PATCH-TRAFFIC-002", FailoverDocuments, r)
             /\ h.rag # "green") <=> DocumentHit(h, r)
<1>1. (h \in DeclarationFindings(r.k8s) /\ h.rag # "green") <=> DeclarationHit(h, r.k8s)
  BY DEF DeclarationFindings, OrGreen, DeclarationHit, Found
<1>2. (h \in SharedFateFindings(r.k8s) /\ h.rag # "green") <=> SharedFateHit(h, r.k8s)
  BY DEF SharedFateFindings, OrGreen, SharedFateHit, Found
<1>3. (h \in CrossRingFindings(r.k8s) /\ h.rag # "green") <=> CrossRingHit(h, r.k8s)
  BY DEF CrossRingFindings, OrGreen, CrossRingHit, Found
<1>4. (/\ h \in DocumentFindings("PATCH-ROLL-001", RollbackDocuments, r)
                  \cup DocumentFindings("PATCH-TRAFFIC-002", FailoverDocuments, r)
       /\ h.rag # "green") <=> DocumentHit(h, r)
  BY DEF DocumentFindings, DocumentHit, Found
<1> QED BY <1>1, <1>2, <1>3, <1>4

LEMMA ImageHitsAre ==
  ASSUME NEW r, NEW h
  PROVE  /\ (\E rule \in DockerfileRules : h \in DockerfileFindings(rule, r) /\ h.rag # "green")
              <=> DockerfileHit(h, r)
         /\ (h \in ImageDriftFindings(r) /\ h.rag # "green") <=> DriftHit(h, r)
         /\ (h \in UserConflictFindings(r) /\ h.rag # "green") <=> ConflictHit(h, r)
<1>1. ASSUME NEW rule \in DockerfileRules
      PROVE  (h \in DockerfileFindings(rule, r) /\ h.rag # "green")
               <=> \E f \in Built(r) : h \in DockerfileHits(rule, f, r.dockerfiles[f])
  <2>1. AllClear(rule, Built(r)).rag = "green"
    BY DEF AllClear, Found
  <2>2. ASSUME NEW f, h \in DockerfileHits(rule, f, r.dockerfiles[f]) PROVE h.rag # "green"
    BY <2>2 DEF DockerfileHits, Found
  <2>3. h \in UNION {DockerfileHits(rule, f, r.dockerfiles[f]) : f \in Built(r)}
          <=> \E f \in Built(r) : h \in DockerfileHits(rule, f, r.dockerfiles[f])
    OBVIOUS
  <2> QED BY <2>1, <2>2, <2>3 DEF DockerfileFindings, Judged
<1>2. (h \in ImageDriftFindings(r) /\ h.rag # "green") <=> DriftHit(h, r)
  <2>1. ASSUME NEW p \in Running(r.k8s), OtherTags(ContainerAt(p, r.k8s), r) # {}
        PROVE  Built(r) # {} /\ Collected(r.k8s) # {}
    BY <2>1 DEF Running, OtherTags, TagsOf, FinalStages
  <2> QED BY <2>1 DEF ImageDriftFindings, OrGreen, DriftHit, Found
<1>3. (h \in UserConflictFindings(r) /\ h.rag # "green") <=> ConflictHit(h, r)
  <2>1. NonRoot(r) # {} => Built(r) # {}
    BY DEF NonRoot
  <2>2. {<<n>> : n \in RootPods(r.k8s)} \cup RootContainers(r.k8s) # {} => Collected(r.k8s) # {}
    BY DEF RootPods, RootContainers, Running
  <2> QED BY <2>1, <2>2 DEF UserConflictFindings, OrGreen, ConflictHit, Found
<1> QED BY <1>1, <1>2, <1>3 DEF DockerfileHit

LEMMA MeshHitsAre ==
  ASSUME NEW r, NEW h
  PROVE  /\ (\E rule \in IstioFieldRules : h \in IstioFindings(rule, r) /\ h.rag # "green")
              <=> IstioHit(h, r)
         /\ (h \in MtlsFindings(r) /\ h.rag # "green") <=> MtlsHit(h, r)
         /\ (h \in TrafficShiftingFindings(r) \cup ConnectionDrainingFindings(r) /\ h.rag # "green")
              <=> TrafficHit(h, r)
<1>1. ASSUME NEW rule \in IstioFieldRules
      PROVE  (h \in IstioFindings(rule, r) /\ h.rag # "green")
               <=> \E f \in IstioFiles(r) : IstioFails(rule, f, r) /\ h = Found(rule, <<f>>, "amber")
  <2>1. ASSUME NEW f \in IstioFiles(r), IstioFails(rule, f, r)
        PROVE  Named("DestinationRule", f, r) # {}
    BY <2>1 DEF IstioFails
  <2> QED BY <2>1 DEF IstioFindings, Judged, AllClear, Found
<1>2. (h \in MtlsFindings(r) /\ h.rag # "green") <=> MtlsHit(h, r)
  BY DEF MtlsFindings, MtlsHit, Found
<1>3. (h \in TrafficShiftingFindings(r) \cup ConnectionDrainingFindings(r) /\ h.rag # "green")
        <=> TrafficHit(h, r)
  BY DEF TrafficShiftingFindings, ConnectionDrainingFindings, OrGreen, TrafficHit, Found
<1> QED BY <1>1, <1>2, <1>3 DEF IstioHit

LEMMA HitsAre ==
  ASSUME NEW r, NEW h
  PROVE  h \in Hits(r) <=>
           \/ WorkloadHit(h, r.k8s) \/ PolicyHit(h, r.k8s) \/ BudgetHit(h, r.k8s)
           \/ DeclarationHit(h, r.k8s) \/ SharedFateHit(h, r.k8s) \/ CrossRingHit(h, r.k8s)
           \/ DocumentHit(h, r) \/ DockerfileHit(h, r) \/ DriftHit(h, r) \/ ConflictHit(h, r)
           \/ IstioHit(h, r) \/ MtlsHit(h, r) \/ TrafficHit(h, r)
BY WorkloadHitsAre, DependencyHitsAre, ImageHitsAre, MeshHitsAre
   DEF Hits, Findings, ManifestFindings

\* A hit has the rule that makes it.
LEMMA HitRules ==
  ASSUME NEW r, NEW h
  PROVE  /\ WorkloadHit(h, r.k8s) => h.rule \in WorkloadFieldRules
         /\ PolicyHit(h, r.k8s) => h.rule = "network-policy-missing"
         /\ BudgetHit(h, r.k8s) => h.rule = "PATCH-ARCH-004"
         /\ DeclarationHit(h, r.k8s) => h.rule = "PATCH-DEPS-001"
         /\ SharedFateHit(h, r.k8s) => h.rule = "PATCH-DEPS-002"
         /\ CrossRingHit(h, r.k8s) => h.rule = "PATCH-DEPS-003"
         /\ DocumentHit(h, r) => h.rule \in {"PATCH-ROLL-001", "PATCH-TRAFFIC-002"}
         /\ DockerfileHit(h, r) => h.rule \in DockerfileRules
         /\ DriftHit(h, r) => h.rule = "dockerfile-k8s-image-drift"
         /\ ConflictHit(h, r) => h.rule = "dockerfile-k8s-user-conflict"
         /\ IstioHit(h, r) => h.rule \in IstioFieldRules
         /\ MtlsHit(h, r) => h.rule = "istio-mtls-strict"
         /\ TrafficHit(h, r) => h.rule \in {"PATCH-TRAFFIC-001", "PATCH-TRAFFIC-003"}
<1>1. WorkloadHit(h, r.k8s) => h.rule \in WorkloadFieldRules
  BY HitsOfPlaced DEF WorkloadHit
<1>2. DockerfileHit(h, r) => h.rule \in DockerfileRules
  BY DEF DockerfileHit, DockerfileHits, Found
<1>3. /\ PolicyHit(h, r.k8s) => h.rule = "network-policy-missing"
      /\ BudgetHit(h, r.k8s) => h.rule = "PATCH-ARCH-004"
      /\ DeclarationHit(h, r.k8s) => h.rule = "PATCH-DEPS-001"
      /\ SharedFateHit(h, r.k8s) => h.rule = "PATCH-DEPS-002"
      /\ CrossRingHit(h, r.k8s) => h.rule = "PATCH-DEPS-003"
      /\ DocumentHit(h, r) => h.rule \in {"PATCH-ROLL-001", "PATCH-TRAFFIC-002"}
  BY DEF PolicyHit, BudgetHit, DeclarationHit, SharedFateHit, CrossRingHit, DocumentHit, Found
<1>4. /\ DriftHit(h, r) => h.rule = "dockerfile-k8s-image-drift"
      /\ ConflictHit(h, r) => h.rule = "dockerfile-k8s-user-conflict"
      /\ IstioHit(h, r) => h.rule \in IstioFieldRules
      /\ MtlsHit(h, r) => h.rule = "istio-mtls-strict"
      /\ TrafficHit(h, r) => h.rule \in {"PATCH-TRAFFIC-001", "PATCH-TRAFFIC-003"}
  BY DEF DriftHit, ConflictHit, IstioHit, MtlsHit, TrafficHit, Found
<1> QED BY <1>1, <1>2, <1>3, <1>4

-----------------------------------------------------------------------------
(***************************************************************************)
(* Which hits an edit of one workload can bring.                           *)
(***************************************************************************)
SameImages(w, v) ==
  /\ DOMAIN w.containers = DOMAIN v.containers
  /\ \A c \in DOMAIN v.containers : /\ w.containers[c].image = v.containers[c].image
                                    /\ w.containers[c].tag = v.containers[c].tag
SameUsers(w, v) ==
  /\ w.root = v.root /\ DOMAIN w.containers = DOMAIN v.containers
  /\ \A c \in DOMAIN v.containers : w.containers[c].root = v.containers[c].root

\* While the files in other places stay, only the manifests can bring hits.
LEMMA OnlyManifestsChanged ==
  ASSUME NEW r \in Repository, NEW m, Collected(m) = Collected(r.k8s),
         NEW a, a = [r EXCEPT !.k8s = m], NEW h
  PROVE  /\ a.k8s = m /\ FinalStages(a) = FinalStages(r) /\ NonRoot(a) = NonRoot(r)
         /\ h \in Hits(a) \ Hits(r) =>
              \/ WorkloadHit(h, m) /\ ~ WorkloadHit(h, r.k8s)
              \/ PolicyHit(h, m) /\ ~ PolicyHit(h, r.k8s)
              \/ BudgetHit(h, m) /\ ~ BudgetHit(h, r.k8s)
              \/ DeclarationHit(h, m) /\ ~ DeclarationHit(h, r.k8s)
              \/ SharedFateHit(h, m) /\ ~ SharedFateHit(h, r.k8s)
              \/ CrossRingHit(h, m) /\ ~ CrossRingHit(h, r.k8s)
              \/ DriftHit(h, a) /\ ~ DriftHit(h, r)
              \/ ConflictHit(h, a) /\ ~ ConflictHit(h, r)
<1>1. a.k8s = m /\ a.dockerfiles = r.dockerfiles /\ a.mesh = r.mesh /\ a.documents = r.documents
  BY DEF Repository
<1>2. Built(a) = Built(r) /\ FinalStages(a) = FinalStages(r) /\ NonRoot(a) = NonRoot(r)
  BY <1>1 DEF Built, FinalStages, NonRoot
<1>3. DocumentHit(h, a) <=> DocumentHit(h, r)
  BY <1>1 DEF DocumentHit
<1>4. DockerfileHit(h, a) <=> DockerfileHit(h, r)
  BY <1>1, <1>2 DEF DockerfileHit
<1>5. Meshed(a) = Meshed(r) /\ \A kind, f : Named(kind, f, a) = Named(kind, f, r)
  BY <1>1 DEF Meshed, Named
<1>6. IstioFiles(a) = IstioFiles(r)
  BY <1>1, <1>5 DEF IstioFiles
<1>7. \A rule, f : IstioFails(rule, f, a) <=> IstioFails(rule, f, r)
  BY <1>1, <1>5 DEF IstioFails
<1>8. IstioHit(h, a) <=> IstioHit(h, r)
  BY <1>6, <1>7 DEF IstioHit
<1>9. MtlsHit(h, a) <=> MtlsHit(h, r)
  BY <1>1, <1>6 DEF MtlsHit
<1>10. MeshResources(a) = MeshResources(r) /\ \A p : ResourceAt(p, a) = ResourceAt(p, r)
  BY <1>1, <1>5 DEF MeshResources, ResourceAt
<1>11. TrafficHit(h, a) <=> TrafficHit(h, r)
  BY <1>10 DEF TrafficHit
<1> QED BY <1>1, <1>2, <1>3, <1>4, <1>8, <1>9, <1>11, HitsAre

\* A workload in the place of another.
LEMMA Replaced ==
  ASSUME NEW m \in Manifests, NEW n \in Collected(m), NEW w \in Workload,
         NEW b, b = [m EXCEPT !.workloads[n] = w]
  PROVE  /\ Collected(b) = Collected(m) /\ b.workloads[n] = w
         /\ \A x \in Collected(m) : x # n => b.workloads[x] = m.workloads[x]
         /\ b.pdbs = m.pdbs /\ b.network_policy = m.network_policy
<1>1. n \in Names /\ m.workloads \in [Names -> Workload \cup {None}] /\ None \notin Workload
  BY CollectedTyped, K8sRulesAssumption DEF Manifests
<1>2. /\ b.workloads = [m.workloads EXCEPT ![n] = w] /\ b.malformed = m.malformed
      /\ b.pdbs = m.pdbs /\ b.network_policy = m.network_policy
  BY <1>1 DEF Manifests
<1>3. b.workloads[n] = w /\ \A x \in Names : x # n => b.workloads[x] = m.workloads[x]
  BY <1>1, <1>2
<1>4. Collected(b) = Collected(m)
  BY <1>1, <1>2, <1>3 DEF Collected
<1> QED BY <1>2, <1>3, <1>4 DEF Collected

\* What a new hit says about the workload that was replaced.
NewAt(h, n, w, v, r) ==
  \/ /\ h.rule \in WorkloadFieldRules
     /\ h \in HitsOf(h.rule, n, w) \ HitsOf(h.rule, n, v)
  \/ /\ h.rule = "PATCH-ARCH-004"
     /\ ~ (w.kind = v.kind /\ w.replicas = v.replicas /\ w.namespace = v.namespace
             /\ w.labels = v.labels)
  \/ h.rule = "PATCH-DEPS-001" /\ ~ w.annotated /\ v.annotated
  \/ /\ h.rule = "PATCH-DEPS-002"
     /\ ~ (w.node_selector = v.node_selector /\ w.databases = v.databases)
  \/ h.rule = "PATCH-DEPS-003" /\ ~ (w.ring = v.ring /\ w.calls = v.calls)
  \/ h.rule = "dockerfile-k8s-image-drift" /\ ~ SameImages(w, v)
  \/ h.rule = "dockerfile-k8s-user-conflict" /\ ~ SameUsers(w, v)

LEMMA ReplacedWorkload ==
  ASSUME NEW r \in Repository, NEW n \in Collected(r.k8s), NEW w \in Workload,
         NEW a, a = [r EXCEPT !.k8s = [r.k8s EXCEPT !.workloads[n] = w]],
         NEW h \in Hits(a) \ Hits(r)
  PROVE  NewAt(h, n, w, r.k8s.workloads[n], r)
<1> DEFINE m == r.k8s
           v == m.workloads[n]
           b == [m EXCEPT !.workloads[n] = w]
<1>1. /\ m \in Manifests /\ Collected(b) = Collected(m) /\ b.workloads[n] = w
      /\ \A x \in Collected(m) : x # n => b.workloads[x] = m.workloads[x]
      /\ b.pdbs = m.pdbs /\ b.network_policy = m.network_policy
  <2>1. m \in Manifests /\ n \in Collected(m)
    BY RepositoryParts
  <2>2. b = [m EXCEPT !.workloads[n] = w]
    OBVIOUS
  <2> HIDE DEF m, b
  <2>3. Collected(b) = Collected(m)
    BY <2>1, <2>2, Replaced
  <2>4. b.workloads[n] = w
    BY <2>1, <2>2, CollectedTyped DEF Manifests
  <2>5. \A x \in Collected(m) : x # n => b.workloads[x] = m.workloads[x]
    BY <2>1, <2>2, Replaced
  <2>6. b.pdbs = m.pdbs /\ b.network_policy = m.network_policy
    BY <2>1, <2>2, Replaced
  <2> QED BY <2>1, <2>3, <2>4, <2>5, <2>6
<1>2. a = [r EXCEPT !.k8s = b]
  OBVIOUS
<1> HIDE DEF b
<1>3. /\ a.k8s = b /\ FinalStages(a) = FinalStages(r) /\ NonRoot(a) = NonRoot(r)
      /\ \/ WorkloadHit(h, b) /\ ~ WorkloadHit(h, m)
         \/ PolicyHit(h, b) /\ ~ PolicyHit(h, m)
         \/ BudgetHit(h, b) /\ ~ BudgetHit(h, m)
         \/ DeclarationHit(h, b) /\ ~ DeclarationHit(h, m)
         \/ SharedFateHit(h, b) /\ ~ SharedFateHit(h, m)
         \/ CrossRingHit(h, b) /\ ~ CrossRingHit(h, m)
         \/ DriftHit(h, a) /\ ~ DriftHit(h, r)
         \/ ConflictHit(h, a) /\ ~ ConflictHit(h, r)
  BY <1>1, <1>2, OnlyManifestsChanged
<1>4. CASE WorkloadHit(h, b) /\ ~ WorkloadHit(h, m)
  <2>1. PICK rule \in WorkloadFieldRules, x \in Collected(m) : h \in HitsOf(rule, x, b.workloads[x])
    BY <1>1, <1>4 DEF WorkloadHit
  <2>2. h \notin HitsOf(rule, x, m.workloads[x])
    BY <1>4 DEF WorkloadHit
  <2>3. x = n
    BY <1>1, <2>1, <2>2
  <2>4. h.rule = rule
    BY <2>1, HitsOfPlaced
  <2> QED BY <1>1, <2>1, <2>2, <2>3, <2>4 DEF NewAt
<1>5. ~ (PolicyHit(h, b) /\ ~ PolicyHit(h, m))
  BY <1>1 DEF PolicyHit
<1>6. CASE BudgetHit(h, b) /\ ~ BudgetHit(h, m)
  <2>1. PICK x \in Collected(m) :
          Uncovered(b.workloads[x], b) /\ h = Found("PATCH-ARCH-004", <<x>>, "amber")
    BY <1>1, <1>6 DEF BudgetHit
  <2>2. Uncovered(b.workloads[x], m) /\ ~ Uncovered(m.workloads[x], m)
    BY <1>1, <1>6, <2>1 DEF BudgetHit, Uncovered, Covered
  <2>3. x = n
    BY <1>1, <2>2
  <2>4. ~ (w.kind = v.kind /\ w.replicas = v.replicas /\ w.namespace = v.namespace
             /\ w.labels = v.labels)
    BY <1>1, <2>2, <2>3 DEF Uncovered, HasReplicas, MultiReplica, Covered, LabelsOverlap
  <2> QED BY <2>1, <2>4 DEF NewAt, Found
<1>7. CASE DeclarationHit(h, b) /\ ~ DeclarationHit(h, m)
  <2>1. PICK x \in Collected(m) :
          ~ b.workloads[x].annotated /\ h = Found("PATCH-DEPS-001", <<x>>, "amber")
    BY <1>1, <1>7 DEF DeclarationHit
  <2>2. m.workloads[x].annotated
    BY <1>7, <2>1 DEF DeclarationHit
  <2>3. x = n
    BY <1>1, <2>1, <2>2
  <2> QED BY <1>1, <2>1, <2>2, <2>3 DEF NewAt, Found
<1>8. CASE SharedFateHit(h, b) /\ ~ SharedFateHit(h, m)
  <2>1. h.rule = "PATCH-DEPS-002"
    BY <1>8 DEF SharedFateHit, Found
  <2>2. ASSUME w.node_selector = v.node_selector, w.databases = v.databases PROVE FALSE
    <3>1. \A x \in Collected(m) : /\ b.workloads[x].node_selector = m.workloads[x].node_selector
                                  /\ b.workloads[x].databases = m.workloads[x].databases
      BY <1>1, <2>2
    <3>2. \A pool : SamePool(pool, b) = SamePool(pool, m)
      BY <1>1, <3>1 DEF SamePool
    <3>3. \A host : UsersOf(host, b) = UsersOf(host, m) /\ UsersOf(host, m) \subseteq Collected(m)
      BY <1>1, <3>1 DEF UsersOf
    <3>4. SharedPools(b) = SharedPools(m)
      BY <3>2 DEF SharedPools
    <3>5. SharedHosts(b) = SharedHosts(m)
      BY <3>1, <3>3 DEF SharedHosts
    <3> QED BY <1>8, <3>2, <3>3, <3>4, <3>5 DEF SharedFateHit
  <2> QED BY <2>1, <2>2 DEF NewAt
<1>9. CASE CrossRingHit(h, b) /\ ~ CrossRingHit(h, m)
  <2>1. h.rule = "PATCH-DEPS-003"
    BY <1>9 DEF CrossRingHit, Found
  <2>2. ASSUME w.ring = v.ring, w.calls = v.calls PROVE FALSE
    <3>1. \A x \in Collected(m) : /\ b.workloads[x].ring = m.workloads[x].ring
                                  /\ b.workloads[x].calls = m.workloads[x].calls
      BY <1>1, <2>2
    <3>2. Ringed(b) = Ringed(m) /\ Ringed(m) \subseteq Collected(m)
      BY <1>1, <3>1 DEF Ringed
    <3>3. \A x \in Ringed(m) : LowerRing(x, b) = LowerRing(x, m)
      BY <3>1, <3>2 DEF LowerRing
    <3> QED BY <1>9, <3>2, <3>3 DEF CrossRingHit
  <2> QED BY <2>1, <2>2 DEF NewAt
<1>10. CASE DriftHit(h, a) /\ ~ DriftHit(h, r)
  <2>1. h.rule = "dockerfile-k8s-image-drift"
    BY <1>10 DEF DriftHit, Found
  <2>2. ASSUME SameImages(w, v) PROVE FALSE
    <3>1. Running(b) = Running(m)
      BY <1>1, <2>2 DEF Running, SameImages
    <3>2. \A p \in Running(m) : /\ ContainerAt(p, b).image = ContainerAt(p, m).image
                                /\ ContainerAt(p, b).tag = ContainerAt(p, m).tag
      BY <1>1, <2>2 DEF Running, ContainerAt, SameImages
    <3>3. \A image : TagsOf(image, a) = TagsOf(image, r)
      BY <1>3 DEF TagsOf
    <3>4. \A p \in Running(m) : OtherTags(ContainerAt(p, b), a) = OtherTags(ContainerAt(p, m), r)
      BY <3>2, <3>3 DEF OtherTags
    <3> QED BY <1>3, <1>10, <3>1, <3>4 DEF DriftHit
  <2> QED BY <2>1, <2>2 DEF NewAt
<1>11. CASE ConflictHit(h, a) /\ ~ ConflictHit(h, r)
  <2>1. h.rule = "dockerfile-k8s-user-conflict"
    BY <1>11 DEF ConflictHit, Found
  <2>2. ASSUME SameUsers(w, v) PROVE FALSE
    <3>1. Running(b) = Running(m)
      BY <1>1, <2>2 DEF Running, SameUsers
    <3>2. RootPods(b) = RootPods(m)
      BY <1>1, <2>2 DEF RootPods, SameUsers
    <3>3. \A p \in Running(m) : ContainerAt(p, b).root = ContainerAt(p, m).root
      BY <1>1, <2>2 DEF Running, ContainerAt, SameUsers
    <3>4. RootContainers(b) = RootContainers(m)
      BY <3>1, <3>2, <3>3 DEF RootContainers
    <3> QED BY <1>3, <1>11, <3>2, <3>4 DEF ConflictHit
  <2> QED BY <2>1, <2>2 DEF NewAt
<1> QED BY <1>3, <1>4, <1>5, <1>6, <1>7, <1>8, <1>9, <1>10, <1>11

\* Which rules may come after which, spelt out.
LEMMA ProvokesAre ==
  ASSUME NEW rule, NEW other
  PROVE  <<rule, other>> \in Provokes <=>
           \/ /\ rule \in {"probes-missing", "PATCH-HEALTH-001"}
              /\ other \in {"PATCH-HEALTH-002", "health-probe-separation"}
           \/ rule = "PATCH-HEALTH-002" /\ other = "health-probe-separation"
           \/ /\ rule = "PATCH-ARCH-001"
              /\ other \in {"PATCH-HEALTH-001", "PATCH-HEALTH-003", "PATCH-ARCH-004"}
           \/ /\ rule = "dockerfile-multistage"
              /\ other \in {"dockerfile-base-pinning", "dockerfile-secret-leakage"}
           \/ rule = "dockerfile-base-pinning" /\ other = "dockerfile-k8s-image-drift"
           \/ rule = "dockerfile-user-directive" /\ other = "dockerfile-k8s-user-conflict"
           \/ /\ rule \in {"dockerfile-k8s-user-conflict", "PATCH-DEPS-002", "PATCH-DEPS-003"}
              /\ other = rule
BY DEF Provokes

\* A container that follows a recommendation does not fail its rule again, unless
\* about probes that have two things wrong with them, and fails no other rules but
\* those about the probes it has got.
LEMMA AmendedContainerSound ==
  ASSUME NEW w \in Workload, NEW c \in Container, NEW rule \in WorkloadFieldRules,
         ContainerFails(rule, w, c), NEW x \in AmendedContainers(rule, c)
  PROVE  /\ x.image = c.image /\ x.tag = c.tag /\ x.root = c.root
         /\ c.pre_stop => x.pre_stop
         /\ ContainerFails(rule, w, x) => rule = "PATCH-HEALTH-002"
         /\ \A other \in WorkloadFieldRules :
              ContainerFails(other, w, x) /\ ~ ContainerFails(other, w, c)
                => <<rule, other>> \in Provokes
<1>1. Probes \subseteq Probe /\ None \notin Probe
  BY K8sRulesAssumption
<1> USE DEF ContainerFails, LimitsMissing, MayRunAsRoot, PreStopMissing, ProbeMissing,
            ProbesIdentical, TcpOnly, TrivialProbe, ReadinessMissing, StartupMissing
<1>2. CASE rule = "resource-limits-missing"
  <2>1. x = [c EXCEPT !.limits = TRUE]
    BY <1>2 DEF AmendedContainers
  <2> QED BY <1>2, <2>1 DEF Container
<1>3. CASE rule = "non-root-container-violation"
  <2>1. x = [c EXCEPT !.runAsNonRoot = TRUE]
    BY <1>3 DEF AmendedContainers
  <2> QED BY <1>3, <2>1 DEF Container
<1>4. CASE rule = "PATCH-HEALTH-003"
  <2>1. x = [c EXCEPT !.startup_probe = TRUE]
    BY <1>4 DEF AmendedContainers
  <2> QED BY <1>4, <2>1 DEF Container
<1>5. CASE rule = "PATCH-ARCH-002"
  <2>1. x = [c EXCEPT !.pre_stop = TRUE]
    BY <1>5 DEF AmendedContainers
  <2> QED BY <1>5, <2>1 DEF Container
<1>6. CASE rule = "PATCH-HEALTH-001"
  <2>1. PICK p \in Probes : x = [c EXCEPT !.readiness_probe = p]
    BY <1>6 DEF AmendedContainers
  <2> QED BY <1>1, <1>6, <2>1, ProvokesAre DEF Container
<1>7. CASE rule = "probes-missing"
  <2>1. AmendedContainers(rule, c) =
          UNION {{[c EXCEPT !.liveness_probe = l, !.readiness_probe = r] :
                     r \in Chosen(c.readiness_probe)} : l \in Chosen(c.liveness_probe)}
    BY <1>7 DEF AmendedContainers
  <2>4. PICK l \in Chosen(c.liveness_probe) :
          x \in {[c EXCEPT !.liveness_probe = l, !.readiness_probe = r] :
                    r \in Chosen(c.readiness_probe)}
    BY <2>1
  <2>2. PICK r \in Chosen(c.readiness_probe) :
          x = [c EXCEPT !.liveness_probe = l, !.readiness_probe = r]
    BY <2>4
  <2>3. l # None /\ r # None
    BY <1>1, <2>2 DEF Chosen, Container
  <2> QED BY <1>7, <2>2, <2>3, ProvokesAre DEF Container
<1>8. CASE rule = "health-probe-separation"
  <2>1. c.readiness_probe \in Probe /\ c.liveness_probe \in Probe
    BY <1>8 DEF Container
  <2>2. x = [c EXCEPT !.readiness_probe.handler = "httpGet",
                      !.readiness_probe.endpoint = "ready",
                      !.liveness_probe.handler = "httpGet",
                      !.liveness_probe.endpoint = "live"]
    BY <1>8 DEF AmendedContainers
  <2>3. /\ x.readiness_probe = [[c.readiness_probe EXCEPT !.handler = "httpGet"]
                                  EXCEPT !.endpoint = "ready"]
        /\ x.liveness_probe = [[c.liveness_probe EXCEPT !.handler = "httpGet"]
                                 EXCEPT !.endpoint = "live"]
        /\ x.limits = c.limits /\ x.runAsNonRoot = c.runAsNonRoot
        /\ x.startup_probe = c.startup_probe /\ x.pre_stop = c.pre_stop
        /\ x.image = c.image /\ x.tag = c.tag /\ x.root = c.root
    BY <2>2 DEF Container
  <2>4. /\ x.readiness_probe.handler = "httpGet" /\ x.readiness_probe.endpoint = "ready"
        /\ x.readiness_probe.hasty = c.readiness_probe.hasty
        /\ x.readiness_probe.fragile = c.readiness_probe.fragile
        /\ x.liveness_probe.endpoint = "live"
        /\ x.readiness_probe \in Probe /\ x.liveness_probe \in Probe
    BY <2>1, <2>3 DEF Probe
  <2> QED BY <1>1, <1>8, <2>1, <2>3, <2>4
<1>9. CASE rule = "PATCH-HEALTH-002"
  <2>1. c.readiness_probe \in Probe
    BY <1>9 DEF Container
  <2>2. \/ \E e \in {"health", "ready"} :
             x = [c EXCEPT !.readiness_probe.handler = "httpGet",
                           !.readiness_probe.endpoint = e]
        \/ x = [c EXCEPT !.readiness_probe.hasty = FALSE, !.readiness_probe.fragile = FALSE]
    BY <1>9 DEF AmendedContainers
  <2>3. /\ x.limits = c.limits /\ x.runAsNonRoot = c.runAsNonRoot
        /\ x.startup_probe = c.startup_probe /\ x.pre_stop = c.pre_stop
        /\ x.image = c.image /\ x.tag = c.tag /\ x.root = c.root
        /\ x.liveness_probe = c.liveness_probe
    BY <2>2 DEF Container
  <2>4. x.readiness_probe \in Probe
    <3>1. CASE \E e \in {"health", "ready"} :
                 x = [c EXCEPT !.readiness_probe.handler = "httpGet",
                               !.readiness_probe.endpoint = e]
      <4>1. PICK e \in {"health", "ready"} :
              x = [c EXCEPT !.readiness_probe.handler = "httpGet",
                            !.readiness_probe.endpoint = e]
        BY <3>1
      <4>2. x.readiness_probe =
              [[c.readiness_probe EXCEPT !.handler = "httpGet"] EXCEPT !.endpoint = e]
        BY <4>1 DEF Container
      <4>3. [c.readiness_probe EXCEPT !.handler = "httpGet"] \in Probe
        BY <2>1 DEF Probe
      <4> QED BY <4>2, <4>3 DEF Probe
    <3>2. CASE x = [c EXCEPT !.readiness_probe.hasty = FALSE, !.readiness_probe.fragile = FALSE]
      BY <2>1, <3>2 DEF Container, Probe
    <3> QED BY <2>2, <3>1, <3>2
  <2> QED BY <1>1, <1>9, <2>1, <2>3, <2>4, ProvokesAre
<1> QED BY <1>2, <1>3, <1>4, <1>5, <1>6, <1>7, <1>8, <1>9

\* A workload that follows a recommendation neither: its replicas, if it asked for
\* them, bring the rules about replicated workloads.
LEMMA AmendedWorkloadSound ==
  ASSUME NEW w \in Workload, NEW rule \in WorkloadFieldRules, WorkloadFails(rule, w),
         NEW x \in AmendedWorkloads(rule, w)
  PROVE  /\ x.kind = w.kind /\ x.namespace = w.namespace /\ x.labels = w.labels
         /\ x.replicas = w.replicas \/ rule = "PATCH-ARCH-001"
         /\ x.annotated = w.annotated /\ x.node_selector = w.node_selector
         /\ x.databases = w.databases /\ x.ring = w.ring /\ x.calls = w.calls
         /\ SameImages(x, w) /\ SameUsers(x, w)
         /\ \A c \in DOMAIN w.containers :
              \A other \in WorkloadFieldRules :
                ContainerFails(other, x, x.containers[c])
                  => ContainerFails(other, w, w.containers[c]) \/ <<rule, other>> \in Provokes
         /\ WorkloadFails(rule, x) => rule = "PATCH-HEALTH-004"
         /\ \A other \in WorkloadFieldRules : WorkloadFails(other, x) => WorkloadFails(other, w)
         /\ \A other \in WorkloadFieldRules :
              Rag(other, x) = Rag(other, w) \/ <<rule, other>> \in Provokes
<1>1. PICK C \in SUBSET Containers : w.containers \in [C -> Container]
  BY DEF Workload
<1> USE DEF ContainerFails, ReadinessMissing, StartupMissing, WorkloadFails, MultiReplica,
            HasReplicas, Singleton, GracePeriodShort, GracePeriod, MinGracePeriod,
            TerminationUnsafe, UpdateUnsafe, Rag, SameImages, SameUsers
<1>2. None \notin Nat /\ None \notin Strategy
  BY K8sRulesAssumption
<1>3. CASE rule = "PATCH-ARCH-001"
  <2>1. x = [w EXCEPT !.replicas = 2]
    BY <1>3 DEF AmendedWorkloads
  <2>2. x.replicas = 2 /\ 2 # None
    BY <1>2, <2>1 DEF Workload
  <2>3. /\ x.kind = w.kind /\ x.namespace = w.namespace /\ x.labels = w.labels
        /\ x.annotated = w.annotated /\ x.node_selector = w.node_selector
        /\ x.databases = w.databases /\ x.ring = w.ring /\ x.calls = w.calls
        /\ x.containers = w.containers /\ x.root = w.root /\ x.strategy = w.strategy
        /\ x.termination_grace_period = w.termination_grace_period
    BY <2>1 DEF Workload
  <2> QED BY <1>3, <2>2, <2>3, ProvokesAre DEF NoPreStop
<1>4. CASE rule = "PATCH-ARCH-002"
  <2>1. x = [w EXCEPT !.termination_grace_period = 30]
    BY <1>4 DEF AmendedWorkloads
  <2>2. x.termination_grace_period = 30 /\ 30 # None
    BY <1>2, <2>1 DEF Workload
  <2>3. /\ x.kind = w.kind /\ x.namespace = w.namespace /\ x.labels = w.labels
        /\ x.annotated = w.annotated /\ x.node_selector = w.node_selector
        /\ x.databases = w.databases /\ x.ring = w.ring /\ x.calls = w.calls
        /\ x.containers = w.containers /\ x.root = w.root /\ x.strategy = w.strategy
        /\ x.replicas = w.replicas
    BY <2>1 DEF Workload
  <2> QED BY <1>4, <2>2, <2>3 DEF NoPreStop
<1>5. CASE rule = "PATCH-ARCH-003"
  <2>1. PICK u \in {[percent |-> TRUE, value |-> 25], [percent |-> FALSE, value |-> 1]} :
          x = [w EXCEPT !.strategy = [type |-> "RollingUpdate", maxUnavailable |-> u]]
    BY <1>5 DEF AmendedWorkloads
  <2>2. x.strategy = [type |-> "RollingUpdate", maxUnavailable |-> u]
    BY <2>1 DEF Workload
  <2>3. x.strategy # None
    <3>1. u \in [percent : BOOLEAN, value : Nat]
      <4>1. /\ [percent |-> TRUE, value |-> 25] \in [percent : BOOLEAN, value : Nat]
            /\ [percent |-> FALSE, value |-> 1] \in [percent : BOOLEAN, value : Nat]
        OBVIOUS
      <4> QED BY <4>1
    <3> QED BY <1>2, <2>2, <3>1 DEF Strategy
  <2>4. MaxUnavailableIsSafe(x.strategy.maxUnavailable)
    BY <2>2 DEF MaxUnavailableIsSafe
  <2>5. /\ x.kind = w.kind /\ x.namespace = w.namespace /\ x.labels = w.labels
        /\ x.annotated = w.annotated /\ x.node_selector = w.node_selector
        /\ x.databases = w.databases /\ x.ring = w.ring /\ x.calls = w.calls
        /\ x.containers = w.containers /\ x.root = w.root /\ x.replicas = w.replicas
        /\ x.termination_grace_period = w.termination_grace_period
    BY <2>1 DEF Workload
  <2> QED BY <1>5, <2>2, <2>3, <2>4, <2>5 DEF NoPreStop
<1>6. CASE rule = "PATCH-HEALTH-004" /\ GracePeriod(w) < MinGracePeriod
  <2>1. x = [w EXCEPT !.termination_grace_period = 30]
    BY <1>6 DEF AmendedWorkloads
  <2>2. x.termination_grace_period = 30 /\ 30 # None
    BY <1>2, <2>1 DEF Workload
  <2>3. /\ x.kind = w.kind /\ x.namespace = w.namespace /\ x.labels = w.labels
        /\ x.annotated = w.annotated /\ x.node_selector = w.node_selector
        /\ x.databases = w.databases /\ x.ring = w.ring /\ x.calls = w.calls
        /\ x.containers = w.containers /\ x.root = w.root /\ x.strategy = w.strategy
        /\ x.replicas = w.replicas
    BY <2>1 DEF Workload
  <2> QED BY <1>6, <2>2, <2>3
<1>7. CASE rule = "PATCH-HEALTH-004" /\ ~ (GracePeriod(w) < MinGracePeriod)
  <2>1. PICK k \in DOMAIN w.containers : x = [w EXCEPT !.containers[k].pre_stop = TRUE]
    BY <1>7 DEF AmendedWorkloads
  <2>2. /\ x.kind = w.kind /\ x.namespace = w.namespace /\ x.labels = w.labels
        /\ x.annotated = w.annotated /\ x.node_selector = w.node_selector
        /\ x.databases = w.databases /\ x.ring = w.ring /\ x.calls = w.calls
        /\ x.root = w.root /\ x.strategy = w.strategy /\ x.replicas = w.replicas
        /\ x.termination_grace_period = w.termination_grace_period
        /\ x.containers =
             [w.containers EXCEPT ![k] = [w.containers[k] EXCEPT !.pre_stop = TRUE]]
    BY <1>1, <2>1 DEF Workload
  <2>3. /\ DOMAIN x.containers = DOMAIN w.containers
        /\ \A c \in DOMAIN w.containers :
             /\ x.containers[c].limits = w.containers[c].limits
             /\ x.containers[c].runAsNonRoot = w.containers[c].runAsNonRoot
             /\ x.containers[c].startup_probe = w.containers[c].startup_probe
             /\ x.containers[c].liveness_probe = w.containers[c].liveness_probe
             /\ x.containers[c].readiness_probe = w.containers[c].readiness_probe
             /\ x.containers[c].image = w.containers[c].image
             /\ x.containers[c].tag = w.containers[c].tag
             /\ x.containers[c].root = w.containers[c].root
             /\ w.containers[c].pre_stop => x.containers[c].pre_stop
    BY <1>1, <2>1, <2>2 DEF Container
  <2>4. NoPreStop(x) => NoPreStop(w)
    BY <2>3 DEF NoPreStop
  <2>5. SameImages(x, w) /\ SameUsers(x, w)
    BY <2>2, <2>3
  <2>6. \A other : WorkloadFails(other, x) => WorkloadFails(other, w)
    BY <2>2, <2>4
  <2>7. \A c \in DOMAIN w.containers :
          \A other \in WorkloadFieldRules :
            ContainerFails(other, x, x.containers[c]) => ContainerFails(other, w, w.containers[c])
    BY <2>2, <2>3 DEF LimitsMissing, MayRunAsRoot, PreStopMissing, ProbeMissing,
                      ProbesIdentical, TcpOnly, TrivialProbe
  <2>8. \A other : Rag(other, x) = Rag(other, w)
    BY <2>2
  <2> HIDE DEF ContainerFails, WorkloadFails, Rag, SameImages, SameUsers
  <2> QED BY <1>7, <2>2, <2>5, <2>6, <2>7, <2>8
<1> QED BY <1>3, <1>4, <1>5, <1>6, <1>7

\* What WorkloadReview asks of advice about a hit.
Sound(h, r, a) ==
  /\ h \in Hits(a) => h.rule \in TakeSeveralSteps
  /\ \A g \in Hits(a) \ Hits(r) : <<h.rule, g.rule>> \in Provokes

\* Hits of the rules about single workloads stay where they are.
LEMMA StaysAtWorkload ==
  ASSUME NEW r \in Repository, NEW n \in Collected(r.k8s), NEW w \in Workload,
         NEW a, a = [r EXCEPT !.k8s = [r.k8s EXCEPT !.workloads[n] = w]],
         NEW rule \in WorkloadFieldRules, NEW h \in HitsOf(rule, n, r.k8s.workloads[n]),
         h \in Hits(a)
  PROVE  h \in HitsOf(rule, n, w)
<1> DEFINE m == r.k8s
           b == [m EXCEPT !.workloads[n] = w]
<1>1. b.workloads[n] = w
  <2>1. m \in Manifests /\ n \in Collected(m)
    BY RepositoryParts
  <2> QED BY <2>1, CollectedTyped DEF Manifests
<1>2. a.k8s = b
  BY DEF Repository
<1>3. h.rule = rule /\ h.place[1] = n
  BY HitsOfPlaced
<1> HIDE DEF b
<1>4. WorkloadHit(h, b)
  <2>1. h.rule \notin {"network-policy-missing", "PATCH-ARCH-004", "PATCH-DEPS-001",
                       "PATCH-DEPS-002", "PATCH-DEPS-003", "PATCH-ROLL-001", "PATCH-TRAFFIC-001",
                       "PATCH-TRAFFIC-002", "PATCH-TRAFFIC-003", "dockerfile-k8s-image-drift",
                       "dockerfile-k8s-user-conflict", "istio-mtls-strict"}
                        \cup DockerfileRules \cup IstioFieldRules
    BY <1>3 DEF WorkloadFieldRules, DockerfileRules, IstioFieldRules
  <2> QED BY <1>2, <2>1, HitsAre, HitRules
<1>5. PICK other \in WorkloadFieldRules, x \in Collected(b) : h \in HitsOf(other, x, b.workloads[x])
  BY <1>4 DEF WorkloadHit
<1>6. other = rule /\ x = n
  BY <1>3, <1>5, HitsOfPlaced
<1> QED BY <1>1, <1>5, <1>6

LEMMA NewHitOf ==
  ASSUME NEW n, NEW w, NEW v, NEW rule, NEW other, DOMAIN w.containers = DOMAIN v.containers,
         \A c \in DOMAIN v.containers :
           ContainerFails(other, w, w.containers[c])
             => ContainerFails(other, v, v.containers[c]) \/ <<rule, other>> \in Provokes,
         WorkloadFails(other, w) => WorkloadFails(other, v),
         Rag(other, w) = Rag(other, v) \/ <<rule, other>> \in Provokes,
         NEW g \in HitsOf(other, n, w) \ HitsOf(other, n, v)
  PROVE  <<rule, other>> \in Provokes
<1>1. CASE \E c \in DOMAIN v.containers : /\ ContainerFails(other, w, w.containers[c])
                                          /\ g = Found(other, <<n, c>>, Rag(other, w))
  <2>1. PICK c \in DOMAIN v.containers : /\ ContainerFails(other, w, w.containers[c])
                                         /\ g = Found(other, <<n, c>>, Rag(other, w))
    BY <1>1
  <2>2. ~ (ContainerFails(other, v, v.containers[c]) /\ Rag(other, w) = Rag(other, v))
    BY <2>1 DEF HitsOf
  <2> QED BY <2>1, <2>2
<1>2. CASE WorkloadFails(other, w) /\ g = Found(other, <<n>>, Rag(other, w))
  <2>1. ~ (WorkloadFails(other, v) /\ Rag(other, w) = Rag(other, v))
    BY <1>2 DEF HitsOf
  <2> QED BY <1>2, <2>1
<1> QED BY <1>1, <1>2 DEF HitsOf

LEMMA SoundReplacement ==
  ASSUME NEW r \in Repository, NEW n \in Collected(r.k8s), NEW w \in Workload,
         NEW v, v = r.k8s.workloads[n],
         NEW rule \in WorkloadFieldRules, NEW h \in HitsOf(rule, n, v),
         w.kind = v.kind /\ w.namespace = v.namespace /\ w.labels = v.labels,
         w.replicas = v.replicas \/ rule = "PATCH-ARCH-001",
         w.annotated = v.annotated /\ w.node_selector = v.node_selector,
         w.databases = v.databases /\ w.ring = v.ring /\ w.calls = v.calls,
         SameImages(w, v) /\ SameUsers(w, v),
         \A other \in WorkloadFieldRules :
           /\ \A c \in DOMAIN v.containers :
                ContainerFails(other, w, w.containers[c])
                  => ContainerFails(other, v, v.containers[c]) \/ <<rule, other>> \in Provokes
           /\ WorkloadFails(other, w) => WorkloadFails(other, v)
           /\ Rag(other, w) = Rag(other, v) \/ <<rule, other>> \in Provokes,
         h \in HitsOf(rule, n, w) => rule \in TakeSeveralSteps
  PROVE  Sound(h, r, [r EXCEPT !.k8s = [r.k8s EXCEPT !.workloads[n] = w]])
<1> DEFINE a == [r EXCEPT !.k8s = [r.k8s EXCEPT !.workloads[n] = w]]
<1>1. h.rule = rule
  BY HitsOfPlaced
<1>2. a = [r EXCEPT !.k8s = [r.k8s EXCEPT !.workloads[n] = w]]
  OBVIOUS
<1> HIDE DEF a
<1>3. h \in Hits(a) => h.rule \in TakeSeveralSteps
  BY <1>1, <1>2, StaysAtWorkload
<1>4. ASSUME NEW g \in Hits(a) \ Hits(r) PROVE <<h.rule, g.rule>> \in Provokes
  <2>1. NewAt(g, n, w, v, r)
    BY <1>2, ReplacedWorkload
  <2>2. CASE g.rule \in WorkloadFieldRules /\ g \in HitsOf(g.rule, n, w) \ HitsOf(g.rule, n, v)
    <3>1. DOMAIN w.containers = DOMAIN v.containers
      BY DEF SameImages
    <3> QED BY <1>1, <2>2, <3>1, NewHitOf
  <2>3. CASE g.rule = "PATCH-ARCH-004" /\ rule = "PATCH-ARCH-001"
    BY <1>1, <2>3, ProvokesAre
  <2> QED BY <2>1, <2>2, <2>3 DEF NewAt
<1> QED BY <1>2, <1>3, <1>4 DEF Sound

\* Advice of the rules about single workloads is sound.
LEMMA WorkloadAdviceSound ==
  ASSUME NEW r \in Repository, NEW rule \in WorkloadFieldRules, NEW n \in Collected(r.k8s),
         NEW h \in HitsOf(rule, n, r.k8s.workloads[n]), NEW b \in FollowedInManifests(h, r.k8s)
  PROVE  Sound(h, r, [r EXCEPT !.k8s = b])
<1> DEFINE m == r.k8s
           v == m.workloads[n]
<1>1. m \in Manifests /\ m.workloads \in [Names -> Workload \cup {None}]
  BY RepositoryParts
<1>2. n \in Names /\ v \in Workload
  BY <1>1, CollectedTyped
<1>3. /\ h.rule = rule /\ h.place[1] = n
      /\ Len(h.place) = 2 => /\ h.place[2] \in DOMAIN v.containers
                             /\ ContainerFails(rule, v, v.containers[h.place[2]])
      /\ Len(h.place) # 2 => WorkloadFails(rule, v)
      /\ rule \notin {"network-policy-missing", "PATCH-ARCH-004"}
  BY HitsOfPlaced DEF WorkloadFieldRules
<1>4. CASE Len(h.place) = 2
  <2> DEFINE k == h.place[2]
  <2>1. PICK c \in AmendedContainers(rule, v.containers[k]) :
          b = [m EXCEPT !.workloads[n].containers[k] = c]
    BY <1>3, <1>4 DEF FollowedInManifests
  <2> DEFINE w == [v EXCEPT !.containers = [v.containers EXCEPT ![k] = c]]
  <2>2. k \in DOMAIN v.containers /\ v.containers[k] \in Container
    BY <1>2, <1>3, <1>4, ContainersNamed
  <2>3. c \in Container
    BY <1>2, <1>3, <1>4, <2>1, <2>2, AmendedContainerTyped
  <2>4. PICK C \in SUBSET Containers : v.containers \in [C -> Container]
    BY <1>2 DEF Workload
  <2>5. [v.containers EXCEPT ![k] = c] \in [C -> Container]
    BY <2>2, <2>3, <2>4
  <2>6. w \in Workload
    BY <1>2, <2>4, <2>5 DEF Workload
  <2>7. b = [m EXCEPT !.workloads[n] = w]
    BY <1>1, <1>2, <2>1 DEF Manifests, Workload
  <2>8. /\ w.kind = v.kind /\ w.namespace = v.namespace /\ w.labels = v.labels
        /\ w.replicas = v.replicas /\ w.strategy = v.strategy /\ w.annotated = v.annotated
        /\ w.node_selector = v.node_selector /\ w.databases = v.databases
        /\ w.ring = v.ring /\ w.calls = v.calls /\ w.root = v.root
        /\ w.termination_grace_period = v.termination_grace_period
        /\ w.containers[k] = c /\ DOMAIN w.containers = DOMAIN v.containers
        /\ \A x \in DOMAIN v.containers : x # k => w.containers[x] = v.containers[x]
    BY <1>2, <2>2, <2>4 DEF Workload
  <2> HIDE DEF w, v, k
  <2>9. /\ c.image = v.containers[k].image /\ c.tag = v.containers[k].tag
        /\ c.root = v.containers[k].root
        /\ v.containers[k].pre_stop => c.pre_stop
        /\ ContainerFails(rule, v, c) => rule = "PATCH-HEALTH-002"
        /\ \A other \in WorkloadFieldRules :
             ContainerFails(other, v, c) /\ ~ ContainerFails(other, v, v.containers[k])
               => <<rule, other>> \in Provokes
    <3>1. ContainerFails(rule, v, v.containers[k])
      BY <1>3, <1>4 DEF k
    <3> QED BY <1>2, <2>1, <2>2, <3>1, AmendedContainerSound
  <2>10. SameImages(w, v) /\ SameUsers(w, v)
    BY <2>2, <2>8, <2>9 DEF SameImages, SameUsers
  <2>11. \A other, x : ContainerFails(other, w, x) <=> ContainerFails(other, v, x)
    BY <2>8 DEF ContainerFails, ReadinessMissing, StartupMissing, HasReplicas, MultiReplica
  <2>12. \A other : WorkloadFails(other, w) => WorkloadFails(other, v)
    <3>1. NoPreStop(w) => NoPreStop(v)
      BY <2>2, <2>8, <2>9 DEF NoPreStop
    <3> QED BY <2>8, <3>1 DEF WorkloadFails, Singleton, HasReplicas, GracePeriodShort,
                              GracePeriod, TerminationUnsafe, UpdateUnsafe
  <2>13. \A other : Rag(other, w) = Rag(other, v)
    BY <2>8 DEF Rag, MultiReplica
  <2>14. h \in HitsOf(rule, n, w) => rule \in TakeSeveralSteps
    <3>1. h \in HitsOf(rule, n, w) => ContainerFails(rule, w, c)
      BY <1>4, <2>8, HitsOfPlaced DEF k
    <3> QED BY <2>9, <2>11, <3>1 DEF TakeSeveralSteps
  <2>15. \A other \in WorkloadFieldRules : \A x \in DOMAIN v.containers :
           ContainerFails(other, w, w.containers[x])
             => ContainerFails(other, v, v.containers[x]) \/ <<rule, other>> \in Provokes
    BY <2>8, <2>9, <2>11
  <2>16. Sound(h, r, [r EXCEPT !.k8s = [r.k8s EXCEPT !.workloads[n] = w]])
    BY <2>6, <2>8, <2>10, <2>12, <2>13, <2>14, <2>15, SoundReplacement DEF v
  <2> QED BY <2>7, <2>16
<1>5. CASE Len(h.place) # 2
  <2>1. PICK w \in AmendedWorkloads(rule, v) : b = [m EXCEPT !.workloads[n] = w]
    BY <1>3, <1>5 DEF FollowedInManifests
  <2>2. w \in Workload
    BY <1>2, <1>3, <1>5, <2>1, AmendedWorkloadTyped
  <2> HIDE DEF v
  <2>3. /\ w.kind = v.kind /\ w.namespace = v.namespace /\ w.labels = v.labels
        /\ w.replicas = v.replicas \/ rule = "PATCH-ARCH-001"
        /\ w.annotated = v.annotated /\ w.node_selector = v.node_selector
        /\ w.databases = v.databases /\ w.ring = v.ring /\ w.calls = v.calls
        /\ SameImages(w, v) /\ SameUsers(w, v)
        /\ \A c \in DOMAIN v.containers :
             \A other \in WorkloadFieldRules :
               ContainerFails(other, w, w.containers[c])
                 => ContainerFails(other, v, v.containers[c]) \/ <<rule, other>> \in Provokes
        /\ WorkloadFails(rule, w) => rule = "PATCH-HEALTH-004"
        /\ \A other \in WorkloadFieldRules : WorkloadFails(other, w) => WorkloadFails(other, v)
        /\ \A other \in WorkloadFieldRules :
             Rag(other, w) = Rag(other, v) \/ <<rule, other>> \in Provokes
    BY <1>2, <1>3, <1>5, <2>1, AmendedWorkloadSound
  <2>4. h \in HitsOf(rule, n, w) => rule \in TakeSeveralSteps
    BY <1>5, <2>3, HitsOfPlaced DEF TakeSeveralSteps
  <2>5. Sound(h, r, [r EXCEPT !.k8s = [r.k8s EXCEPT !.workloads[n] = w]])
    BY <2>2, <2>3, <2>4, SoundReplacement DEF v
  <2> QED BY <2>1, <2>5
<1> QED BY <1>4, <1>5

\* Budgets and policies are about no workload's own fields.
LEMMA BudgetAdviceSound ==
  ASSUME NEW r \in Repository, NEW h, PolicyHit(h, r.k8s) \/ BudgetHit(h, r.k8s),
         NEW b \in FollowedInManifests(h, r.k8s)
  PROVE  Sound(h, r, [r EXCEPT !.k8s = b])
<1> DEFINE m == r.k8s
           a == [r EXCEPT !.k8s = b]
<1>1. m \in Manifests
  BY RepositoryParts
<1>2. \/ /\ PolicyHit(h, m) /\ h.rule = "network-policy-missing"
         /\ b = [m EXCEPT !.network_policy = TRUE]
      \/ \E n \in Collected(m) :
           /\ Uncovered(m.workloads[n], m) /\ h = Found("PATCH-ARCH-004", <<n>>, "amber")
           /\ \E p \in BudgetsFor(m.workloads[n]) : b = [m EXCEPT !.pdbs = m.pdbs \cup {p}]
  <2>1. CASE PolicyHit(h, m)
    BY <2>1 DEF PolicyHit, FollowedInManifests, Found
  <2>2. CASE BudgetHit(h, m)
    <3>1. PICK n \in Collected(m) :
            Uncovered(m.workloads[n], m) /\ h = Found("PATCH-ARCH-004", <<n>>, "amber")
      BY <2>2 DEF BudgetHit
    <3>2. h.rule = "PATCH-ARCH-004" /\ h.place[1] = n
      BY <3>1 DEF Found
    <3>3. PICK p \in BudgetsFor(m.workloads[n]) : b = [m EXCEPT !.pdbs = @ \cup {p}]
      BY <3>2 DEF FollowedInManifests
    <3>4. b = [m EXCEPT !.pdbs = m.pdbs \cup {p}]
      BY <1>1, <3>3 DEF Manifests
    <3> QED BY <3>1, <3>3, <3>4
  <2> QED BY <2>1, <2>2
<1>3. /\ b.workloads = m.workloads /\ b.malformed = m.malformed /\ m.pdbs \subseteq b.pdbs
      /\ m.network_policy => b.network_policy
  BY <1>1, <1>2 DEF Manifests
<1>4. Collected(b) = Collected(m) /\ a = [r EXCEPT !.k8s = b] /\ a.k8s = b
  BY <1>3 DEF Collected, Repository
<1> HIDE DEF a, m
<1>5. ASSUME NEW g PROVE g \notin Hits(a) \ Hits(r)
  <2>1. WorkloadHit(g, b) <=> WorkloadHit(g, m)
    BY <1>3, <1>4 DEF WorkloadHit
  <2>2. PolicyHit(g, b) => PolicyHit(g, m)
    BY <1>3 DEF PolicyHit
  <2>3. BudgetHit(g, b) => BudgetHit(g, m)
    <3>1. \A w : Covered(w, m) => Covered(w, b)
      BY <1>3 DEF Covered
    <3> QED BY <1>3, <1>4, <3>1 DEF BudgetHit, Uncovered
  <2>4. DeclarationHit(g, b) <=> DeclarationHit(g, m)
    BY <1>3, <1>4 DEF DeclarationHit
  <2>5. SharedFateHit(g, b) <=> SharedFateHit(g, m)
    <3>1. /\ \A pool : SamePool(pool, b) = SamePool(pool, m)
          /\ \A host : UsersOf(host, b) = UsersOf(host, m)
      BY <1>3, <1>4 DEF SamePool, UsersOf
    <3> QED BY <1>3, <3>1 DEF SharedFateHit, SharedPools, SharedHosts
  <2>6. CrossRingHit(g, b) <=> CrossRingHit(g, m)
    <3>1. Ringed(b) = Ringed(m)
      BY <1>3, <1>4 DEF Ringed
    <3> QED BY <1>3, <3>1 DEF CrossRingHit, LowerRing
  <2>7. Running(b) = Running(m) /\ \A p : ContainerAt(p, b) = ContainerAt(p, m)
    BY <1>3, <1>4 DEF Running, ContainerAt
  <2>8. FinalStages(a) = FinalStages(r) /\ NonRoot(a) = NonRoot(r)
    BY <1>4, OnlyManifestsChanged DEF m
  <2>9. DriftHit(g, a) <=> DriftHit(g, r)
    BY <1>4, <2>7, <2>8 DEF DriftHit, OtherTags, TagsOf, m
  <2>10. ConflictHit(g, a) <=> ConflictHit(g, r)
    <3>1. RootPods(b) = RootPods(m)
      BY <1>3, <1>4 DEF RootPods
    <3>2. RootContainers(b) = RootContainers(m)
      BY <2>7, <3>1 DEF RootContainers
    <3> QED BY <1>4, <2>8, <3>1, <3>2 DEF ConflictHit, m
  <2> QED BY <1>4, <2>1, <2>2, <2>3, <2>4, <2>5, <2>6, <2>9, <2>10, OnlyManifestsChanged DEF m
<1>6. h \notin Hits(a)
  <2>1. CASE h.rule = "network-policy-missing"
    <3>1. b.network_policy
      BY <1>1, <1>2, <2>1 DEF Manifests, Found
    <3>2. ~ PolicyHit(h, b)
      BY <3>1 DEF PolicyHit
    <3> QED BY <1>4, <2>1, <3>2, HitsAre, HitRules
            DEF WorkloadFieldRules, DockerfileRules, IstioFieldRules
  <2>2. ASSUME NEW n \in Collected(m), NEW p \in BudgetsFor(m.workloads[n]),
               h = Found("PATCH-ARCH-004", <<n>>, "amber"), b = [m EXCEPT !.pdbs = m.pdbs \cup {p}]
        PROVE  h \notin Hits(a)
    <3>1. p \in b.pdbs
      BY <1>1, <2>2 DEF Manifests
    <3>2. Covered(m.workloads[n], b)
      BY <1>1, <3>1, CollectedTyped DEF BudgetsFor, Covered, LabelsOverlap, Workload
    <3>3. ~ BudgetHit(h, b)
      <4>1. ASSUME NEW x, h = Found("PATCH-ARCH-004", <<x>>, "amber") PROVE x = n
        <5>1. <<x>> = <<n>>
          BY <2>2, <4>1 DEF Found
        <5> QED BY <5>1
      <4> QED BY <1>3, <3>2, <4>1 DEF BudgetHit, Uncovered
    <3>4. h.rule = "PATCH-ARCH-004"
      BY <2>2 DEF Found
    <3> QED BY <1>4, <3>3, <3>4, HitsAre, HitRules
            DEF WorkloadFieldRules, DockerfileRules, IstioFieldRules
  <2> QED BY <1>2, <2>1, <2>2
<1> QED BY <1>5, <1>6 DEF Sound, a

\* Fields that the rules about single workloads and their budgets do not read.
SameForRules(w, v) ==
  /\ w.kind = v.kind /\ w.namespace = v.namespace /\ w.labels = v.labels
  /\ w.replicas = v.replicas /\ w.strategy = v.strategy
  /\ w.termination_grace_period = v.termination_grace_period
  /\ DOMAIN w.containers = DOMAIN v.containers
  /\ \A c \in DOMAIN v.containers :
       /\ w.containers[c].limits = v.containers[c].limits
       /\ w.containers[c].runAsNonRoot = v.containers[c].runAsNonRoot
       /\ w.containers[c].startup_probe = v.containers[c].startup_probe
       /\ w.containers[c].liveness_probe = v.containers[c].liveness_probe
       /\ w.containers[c].readiness_probe = v.containers[c].readiness_probe
       /\ w.containers[c].pre_stop = v.containers[c].pre_stop

LEMMA ReplacedBeyondRules ==
  ASSUME NEW r \in Repository, NEW n \in Collected(r.k8s), NEW w \in Workload,
         NEW v, v = r.k8s.workloads[n], SameForRules(w, v),
         NEW a, a = [r EXCEPT !.k8s = [r.k8s EXCEPT !.workloads[n] = w]],
         NEW h \in Hits(a) \ Hits(r)
  PROVE  /\ NewAt(h, n, w, v, r)
         /\ h.rule \in {"PATCH-DEPS-001", "PATCH-DEPS-002", "PATCH-DEPS-003",
                        "dockerfile-k8s-image-drift", "dockerfile-k8s-user-conflict"}
<1>1. NewAt(h, n, w, v, r) /\ SameForRules(w, v)
  BY ReplacedWorkload
<1>2. ASSUME NEW rule, NEW c \in DOMAIN v.containers
      PROVE  ContainerFails(rule, w, w.containers[c]) => ContainerFails(rule, v, v.containers[c])
  BY <1>1 DEF SameForRules, ContainerFails, LimitsMissing, MayRunAsRoot, PreStopMissing,
              ProbeMissing, ProbesIdentical, TcpOnly, TrivialProbe, ReadinessMissing,
              StartupMissing, HasReplicas, MultiReplica
<1>3. ASSUME NEW rule PROVE WorkloadFails(rule, w) => WorkloadFails(rule, v)
  <2>1. NoPreStop(w) <=> NoPreStop(v)
    BY <1>1 DEF SameForRules, NoPreStop
  <2> QED BY <1>1, <2>1 DEF SameForRules, WorkloadFails, Singleton, HasReplicas, GracePeriodShort,
                            GracePeriod, TerminationUnsafe, UpdateUnsafe
<1>4. ASSUME NEW rule PROVE Rag(rule, w) = Rag(rule, v)
  BY <1>1 DEF SameForRules, Rag, MultiReplica
<1>5. ~ (h \in HitsOf(h.rule, n, w) \ HitsOf(h.rule, n, v))
  <2> DEFINE rule == h.rule
  <2>1. ASSUME h \in HitsOf(rule, n, w) PROVE h \in HitsOf(rule, n, v)
    <3> HIDE DEF rule
    <3>1. DOMAIN w.containers = DOMAIN v.containers
      BY <1>1 DEF SameForRules
    <3> QED BY <1>2, <1>3, <1>4, <2>1, <3>1 DEF HitsOf
  <2> QED BY <2>1
<1>6. h.rule # "PATCH-ARCH-004"
        \/ ~ (w.kind = v.kind /\ w.replicas = v.replicas /\ w.namespace = v.namespace
                /\ w.labels = v.labels)
  BY <1>1 DEF NewAt, WorkloadFieldRules
<1> QED BY <1>1, <1>5, <1>6 DEF NewAt, SameForRules

\* A hit at a workload's own place.
LEMMA DeclarationAdviceSound ==
  ASSUME NEW r \in Repository, NEW h, DeclarationHit(h, r.k8s), NEW a \in Followed(h, r)
  PROVE  Sound(h, r, a)
<1> DEFINE m == r.k8s
<1>1. m \in Manifests /\ m.workloads \in [Names -> Workload \cup {None}]
  BY RepositoryParts
<1>2. PICK n \in Collected(m) :
        ~ m.workloads[n].annotated /\ h = Found("PATCH-DEPS-001", <<n>>, "amber")
  BY DEF DeclarationHit
<1>3. h.rule = "PATCH-DEPS-001" /\ h.place[1] = n
  BY <1>2 DEF Found
<1>4. a = [r EXCEPT !.k8s = [m EXCEPT !.workloads[n].annotated = TRUE]]
  BY <1>3 DEF Followed, FollowedInDependencies, ManifestRules, WorkloadFieldRules,
              DockerfileRules, IstioFieldRules
<1>5. n \in Names /\ m.workloads[n] \in Workload
  BY <1>1, CollectedTyped
<1> DEFINE w == [m.workloads[n] EXCEPT !.annotated = TRUE]
<1>6. a = [r EXCEPT !.k8s = [r.k8s EXCEPT !.workloads[n] = w]]
  BY <1>1, <1>4, <1>5 DEF Manifests
<1>7. w \in Workload
  BY <1>5, AnnotatedOrNotRootTyped
<1>8. /\ w.annotated /\ SameForRules(w, m.workloads[n])
      /\ w.node_selector = m.workloads[n].node_selector /\ w.databases = m.workloads[n].databases
      /\ w.ring = m.workloads[n].ring /\ w.calls = m.workloads[n].calls
      /\ SameImages(w, m.workloads[n]) /\ SameUsers(w, m.workloads[n])
  BY <1>5 DEF Workload, SameForRules, SameImages, SameUsers
<1> HIDE DEF w
<1>9. ASSUME NEW g \in Hits(a) \ Hits(r) PROVE FALSE
  <2> DEFINE v == r.k8s.workloads[n]
  <2>1. /\ NewAt(g, n, w, v, r)
        /\ g.rule \in {"PATCH-DEPS-001", "PATCH-DEPS-002", "PATCH-DEPS-003",
                       "dockerfile-k8s-image-drift", "dockerfile-k8s-user-conflict"}
    BY <1>6, <1>7, <1>8, ReplacedBeyondRules
  <2> QED BY <1>8, <2>1 DEF NewAt, WorkloadFieldRules
<1>10. h \notin Hits(a)
  <2>1. a.k8s = [m EXCEPT !.workloads[n] = w] /\ a.k8s.workloads[n] = w
    BY <1>1, <1>5, <1>6 DEF Repository, Manifests
  <2>2. ~ DeclarationHit(h, a.k8s)
    <3>1. ASSUME NEW x, h = Found("PATCH-DEPS-001", <<x>>, "amber") PROVE x = n
      <4>1. <<x>> = <<n>>
        BY <1>2, <3>1 DEF Found
      <4> QED BY <4>1
    <3> QED BY <1>8, <2>1, <3>1 DEF DeclarationHit
  <2> QED BY <1>3, <2>2, HitsAre, HitRules
          DEF WorkloadFieldRules, DockerfileRules, IstioFieldRules
<1> QED BY <1>9, <1>10 DEF Sound

\* Moving a workload to another pool brings no hits but about pools.
LEMMA SharedFateAdviceSound ==
  ASSUME NEW r \in Repository, NEW h, SharedFateHit(h, r.k8s), NEW a \in Followed(h, r)
  PROVE  Sound(h, r, a)
<1> DEFINE m == r.k8s
<1>1. m \in Manifests /\ m.workloads \in [Names -> Workload \cup {None}]
  BY RepositoryParts
<1>2. h.rule = "PATCH-DEPS-002"
  BY DEF SharedFateHit, Found
<1>3. PICK pool : \E b \in Spread(pool, m) : a = [r EXCEPT !.k8s = b]
  BY <1>2 DEF Followed, FollowedInDependencies, ManifestRules, WorkloadFieldRules,
              DockerfileRules, IstioFieldRules
<1>4. PICK n \in Collected(m), p \in Pools :
        a = [r EXCEPT !.k8s = [m EXCEPT !.workloads[n].node_selector = p]]
  BY <1>3 DEF Spread, SamePool
<1>5. n \in Names /\ m.workloads[n] \in Workload
  BY <1>1, CollectedTyped
<1> DEFINE w == [m.workloads[n] EXCEPT !.node_selector = p]
<1>6. a = [r EXCEPT !.k8s = [r.k8s EXCEPT !.workloads[n] = w]]
  BY <1>1, <1>4, <1>5 DEF Manifests
<1>7. w \in Workload
  BY <1>5 DEF Workload
<1>8. /\ w.annotated = m.workloads[n].annotated /\ SameForRules(w, m.workloads[n])
      /\ w.ring = m.workloads[n].ring /\ w.calls = m.workloads[n].calls
      /\ SameImages(w, m.workloads[n]) /\ SameUsers(w, m.workloads[n])
  BY <1>5 DEF Workload, SameForRules, SameImages, SameUsers
<1> HIDE DEF w
<1>9. ASSUME NEW g \in Hits(a) \ Hits(r) PROVE g.rule = "PATCH-DEPS-002"
  <2> DEFINE v == r.k8s.workloads[n]
  <2>1. /\ NewAt(g, n, w, v, r)
        /\ g.rule \in {"PATCH-DEPS-001", "PATCH-DEPS-002", "PATCH-DEPS-003",
                       "dockerfile-k8s-image-drift", "dockerfile-k8s-user-conflict"}
    BY <1>6, <1>7, <1>8, ReplacedBeyondRules
  <2> QED BY <1>8, <2>1 DEF NewAt, WorkloadFieldRules
<1> QED BY <1>2, <1>9, ProvokesAre DEF Sound, TakeSeveralSteps

\* Neither do rings, and calls that turn round, but about rings: each of two edits
\* adds no other hits.
LEMMA CrossRingAdviceSound ==
  ASSUME NEW r \in Repository, NEW h, CrossRingHit(h, r.k8s), NEW a \in Followed(h, r)
  PROVE  Sound(h, r, a)
<1> DEFINE m == r.k8s
<1>1. m \in Manifests /\ m.workloads \in [Names -> Workload \cup {None}]
  BY RepositoryParts
<1>2. h.rule = "PATCH-DEPS-003"
  BY DEF CrossRingHit, Found
<1>3. PICK n \in Collected(m) : h = Found("PATCH-DEPS-003", <<n>>, "amber")
  BY DEF CrossRingHit, Ringed
<1>4. PICK b \in AmendedRings(n, m) : a = [r EXCEPT !.k8s = b]
  <2>1. h.place[1] = n
    BY <1>3 DEF Found
  <2> QED BY <1>2, <2>1 DEF Followed, FollowedInDependencies, ManifestRules, WorkloadFieldRules,
                            DockerfileRules, IstioFieldRules
<1>5. PICK t \in LowerRing(n, m) :
        \/ b = [m EXCEPT !.workloads[t].ring = m.workloads[n].ring]
        \/ b = [m EXCEPT !.workloads[n].calls = @ \ {t}, !.workloads[t].calls = @ \cup {n}]
  BY DEF AmendedRings
<1>6. /\ \A x \in Collected(m) : x \in Names /\ m.workloads[x] \in Workload
      /\ t \in Collected(m)
  BY <1>1, CollectedTyped DEF LowerRing, Ringed
<1>7. t # n
  <2>1. m.workloads[n].ring \in Nat \cup {None} /\ m.workloads[n].ring > m.workloads[t].ring
        /\ m.workloads[t].ring # None
    BY <1>6 DEF LowerRing, Ringed, Workload
  <2> QED BY <2>1
<1>8. ASSUME NEW q \in Repository, NEW x \in Collected(q.k8s), NEW w \in Workload,
             NEW ring, NEW calls,
             w = [q.k8s.workloads[x] EXCEPT !.ring = ring, !.calls = calls],
             NEW g \in Hits([q EXCEPT !.k8s = [q.k8s EXCEPT !.workloads[x] = w]]) \ Hits(q)
      PROVE  g.rule = "PATCH-DEPS-003"
  <2> DEFINE v == q.k8s.workloads[x]
  <2>1. v \in Workload
    <3>1. q.k8s \in Manifests
      BY RepositoryParts
    <3> QED BY <3>1, CollectedTyped
  <2>2. /\ w.annotated = v.annotated /\ SameForRules(w, v)
        /\ w.node_selector = v.node_selector /\ w.databases = v.databases
        /\ SameImages(w, v) /\ SameUsers(w, v)
    BY <1>8, <2>1 DEF Workload, SameForRules, SameImages, SameUsers
  <2>3. /\ NewAt(g, x, w, v, q)
        /\ g.rule \in {"PATCH-DEPS-001", "PATCH-DEPS-002", "PATCH-DEPS-003",
                       "dockerfile-k8s-image-drift", "dockerfile-k8s-user-conflict"}
    BY <1>8, <2>2, ReplacedBeyondRules
  <2> QED BY <2>2, <2>3 DEF NewAt, WorkloadFieldRules
<1>11. ASSUME NEW x \in Collected(m), NEW y \in Collected(m)
       PROVE  /\ [m.workloads[x] EXCEPT !.ring = m.workloads[y].ring,
                                        !.calls = m.workloads[x].calls] \in Workload
              /\ [m.workloads[x] EXCEPT !.ring = m.workloads[x].ring,
                                        !.calls = m.workloads[x].calls \ {y}] \in Workload
              /\ [m.workloads[x] EXCEPT !.ring = m.workloads[x].ring,
                                        !.calls = m.workloads[x].calls \cup {y}] \in Workload
  <2> DEFINE v == m.workloads[x]
  <2>1. v \in Workload /\ y \in Names /\ m.workloads[y].ring \in Nat \cup {None}
    BY <1>6 DEF Workload
  <2> HIDE DEF v
  <2>2. ASSUME NEW ring \in Nat \cup {None}, NEW calls \in SUBSET Names
        PROVE  [v EXCEPT !.ring = ring, !.calls = calls] \in Workload
    <3>1. [v EXCEPT !.ring = ring] \in Workload
      BY <2>1 DEF Workload
    <3>2. [[v EXCEPT !.ring = ring] EXCEPT !.calls = calls] \in Workload
      BY <3>1 DEF Workload
    <3> QED BY <3>2
  <2>3. v.ring \in Nat \cup {None} /\ v.calls \in SUBSET Names
    BY <2>1 DEF Workload
  <2>4. v.calls \ {y} \in SUBSET Names /\ v.calls \cup {y} \in SUBSET Names
    BY <2>1, <2>3
  <2> QED BY <2>1, <2>2, <2>3, <2>4 DEF v
<1>9. CASE b = [m EXCEPT !.workloads[t].ring = m.workloads[n].ring]
  <2> DEFINE w == [m.workloads[t] EXCEPT !.ring = m.workloads[n].ring, !.calls = m.workloads[t].calls]
  <2>1. a = [r EXCEPT !.k8s = [r.k8s EXCEPT !.workloads[t] = w]]
    <3>1. w = [m.workloads[t] EXCEPT !.ring = m.workloads[n].ring]
      BY <1>6 DEF Workload
    <3> QED BY <1>1, <1>4, <1>6, <1>9, <3>1 DEF Manifests
  <2>2. w \in Workload
    BY <1>6, <1>11
  <2>3. ASSUME NEW g \in Hits(a) \ Hits(r) PROVE g.rule = "PATCH-DEPS-003"
    BY <1>6, <1>8, <2>1, <2>2
  <2> QED BY <1>2, <2>3, ProvokesAre DEF Sound, TakeSeveralSteps
<1>10. CASE b = [m EXCEPT !.workloads[n].calls = @ \ {t}, !.workloads[t].calls = @ \cup {n}]
  <2> DEFINE wn == [m.workloads[n] EXCEPT !.ring = m.workloads[n].ring, !.calls = m.workloads[n].calls \ {t}]
             wt == [m.workloads[t] EXCEPT !.ring = m.workloads[t].ring, !.calls = m.workloads[t].calls \cup {n}]
             half == [m EXCEPT !.workloads[n] = wn]
             q == [r EXCEPT !.k8s = half]
  <2>1. wn \in Workload /\ wt \in Workload
    BY <1>6, <1>11
  <2>2. /\ half \in Manifests /\ Collected(half) = Collected(m)
        /\ half.workloads[t] = m.workloads[t]
        /\ b = [half EXCEPT !.workloads[t] = wt]
    <3>1. /\ wn = [m.workloads[n] EXCEPT !.calls = m.workloads[n].calls \ {t}]
          /\ wt = [m.workloads[t] EXCEPT !.calls = m.workloads[t].calls \cup {n}]
      BY <1>6 DEF Workload
    <3>2. b = [half EXCEPT !.workloads[t] = wt]
      BY <1>1, <1>6, <1>7, <1>10, <3>1 DEF Manifests
    <3>3. half.workloads[t] = m.workloads[t]
      BY <1>1, <1>6, <1>7 DEF Manifests
    <3> HIDE DEF wn, wt
    <3>4. half \in Manifests
      BY <1>1, <1>6, <2>1 DEF Manifests
    <3>5. Collected(half) = Collected(m)
      <4>1. half = [m EXCEPT !.workloads[n] = wn] /\ m \in Manifests /\ n \in Collected(m)
        BY <1>1
      <4> HIDE DEF half, m
      <4> QED BY <2>1, <4>1, Replaced
    <3> QED BY <3>2, <3>3, <3>4, <3>5
  <2> HIDE DEF half
  <2>3. q \in Repository /\ q.k8s = half
    BY <2>2, RepositoryParts DEF Repository
  <2>4. a = [q EXCEPT !.k8s = [half EXCEPT !.workloads[t] = wt]]
    BY <1>4, <2>2, <2>3 DEF Repository
  <2>5. ASSUME NEW g \in Hits(q) \ Hits(r) PROVE g.rule = "PATCH-DEPS-003"
    <3>1. q = [r EXCEPT !.k8s = [r.k8s EXCEPT !.workloads[n] = wn]]
      BY DEF half
    <3>2. wn = [r.k8s.workloads[n] EXCEPT !.ring = m.workloads[n].ring,
                                          !.calls = m.workloads[n].calls \ {t}]
      OBVIOUS
    <3> HIDE DEF wn, q
    <3>3. g \in Hits([r EXCEPT !.k8s = [r.k8s EXCEPT !.workloads[n] = wn]]) \ Hits(r)
      BY <2>5, <3>1
    <3> QED BY <1>8, <2>1, <3>2, <3>3
  <2>6. ASSUME NEW g \in Hits(a) \ Hits(q) PROVE g.rule = "PATCH-DEPS-003"
    <3> HIDE DEF q
    <3>1. t \in Collected(q.k8s)
      BY <1>6, <2>2, <2>3
    <3>2. wt = [q.k8s.workloads[t] EXCEPT !.ring = m.workloads[t].ring,
                                          !.calls = m.workloads[t].calls \cup {n}]
      BY <2>2, <2>3
    <3> HIDE DEF wt
    <3> QED BY <1>8, <2>1, <2>3, <2>4, <2>6, <3>1, <3>2
  <2> QED BY <1>2, <2>5, <2>6, ProvokesAre DEF Sound, TakeSeveralSteps
<1> QED BY <1>5, <1>9, <1>10

\* One container in the place of another that differs where only the images and
\* users matter.
WithContainer(r, n, k, c) ==
  [r EXCEPT !.k8s = [r.k8s EXCEPT !.workloads[n].containers[k] = c]]
SameButImageAndUser(c, old) ==
  /\ c.limits = old.limits /\ c.runAsNonRoot = old.runAsNonRoot
  /\ c.startup_probe = old.startup_probe /\ c.pre_stop = old.pre_stop
  /\ c.liveness_probe = old.liveness_probe /\ c.readiness_probe = old.readiness_probe

LEMMA ReplacedContainer ==
  ASSUME NEW r \in Repository, NEW n \in Collected(r.k8s),
         NEW k \in DOMAIN r.k8s.workloads[n].containers, NEW c \in Container,
         NEW old, old = r.k8s.workloads[n].containers[k], SameButImageAndUser(c, old),
         NEW a, a = WithContainer(r, n, k, c)
  PROVE  /\ a.k8s.workloads[n].containers[k] = c
         /\ Collected(a.k8s) = Collected(r.k8s) /\ Running(a.k8s) = Running(r.k8s)
         /\ \A p \in Running(r.k8s) : p # <<n, k>> => ContainerAt(p, a.k8s) = ContainerAt(p, r.k8s)
         /\ FinalStages(a) = FinalStages(r)
         /\ \A g \in Hits(a) \ Hits(r) :
              \/ g.rule = "dockerfile-k8s-image-drift" /\ ~ (c.image = old.image /\ c.tag = old.tag)
              \/ g.rule = "dockerfile-k8s-user-conflict" /\ c.root # old.root
<1> DEFINE m == r.k8s
           v == m.workloads[n]
           w == [v EXCEPT !.containers = [v.containers EXCEPT ![k] = c]]
           b == [m EXCEPT !.workloads[n] = w]
<1>1. m \in Manifests /\ m.workloads \in [Names -> Workload \cup {None}]
  BY RepositoryParts
<1>2. n \in Names /\ v \in Workload
  BY <1>1, CollectedTyped
<1>3. PICK C \in SUBSET Containers : v.containers \in [C -> Container]
  BY <1>2 DEF Workload
<1>4. [v.containers EXCEPT ![k] = c] \in [C -> Container]
  BY <1>3
<1>5. w \in Workload
  <2> HIDE DEF v
  <2> QED BY <1>2, <1>3, <1>4 DEF Workload
<1>6. a = [r EXCEPT !.k8s = b]
  BY <1>1, <1>2 DEF WithContainer, Manifests, Workload
<1>7. /\ w.kind = v.kind /\ w.namespace = v.namespace /\ w.labels = v.labels
      /\ w.replicas = v.replicas /\ w.strategy = v.strategy /\ w.annotated = v.annotated
      /\ w.node_selector = v.node_selector /\ w.databases = v.databases
      /\ w.ring = v.ring /\ w.calls = v.calls /\ w.root = v.root
      /\ w.termination_grace_period = v.termination_grace_period
      /\ w.containers[k] = c /\ DOMAIN w.containers = DOMAIN v.containers
      /\ \A x \in DOMAIN v.containers : x # k => w.containers[x] = v.containers[x]
  BY <1>2, <1>3 DEF Workload
<1>8. b.workloads[n] = w
  BY <1>1, <1>2 DEF Manifests
<1> HIDE DEF w
<1>9. /\ Collected(b) = Collected(m)
      /\ \A x \in Collected(m) : x # n => b.workloads[x] = m.workloads[x]
  <2>1. b = [m EXCEPT !.workloads[n] = w] /\ n \in Collected(m)
    OBVIOUS
  <2> HIDE DEF b, m
  <2> QED BY <1>1, <1>5, <2>1, Replaced
<1> HIDE DEF b
<1>10. a.k8s = b
  BY <1>6 DEF Repository
<1>11. Running(b) = Running(m)
  BY <1>7, <1>8, <1>9 DEF Running
<1>12. ASSUME NEW p \in Running(m), p # <<n, k>> PROVE ContainerAt(p, b) = ContainerAt(p, m)
  <2>1. p[1] \in Collected(m) /\ p[2] \in DOMAIN m.workloads[p[1]].containers
        /\ (p[1] # n \/ p[2] # k)
    BY <1>12 DEF Running
  <2> QED BY <1>7, <1>8, <1>9, <2>1 DEF ContainerAt
<1>13. FinalStages(a) = FinalStages(r)
  BY <1>6, <1>9, OnlyManifestsChanged
<1>14. ASSUME NEW g \in Hits(a) \ Hits(r)
       PROVE  \/ g.rule = "dockerfile-k8s-image-drift" /\ ~ (c.image = old.image /\ c.tag = old.tag)
              \/ g.rule = "dockerfile-k8s-user-conflict" /\ c.root # old.root
  <2>1. SameForRules(w, v)
    BY <1>7 DEF SameForRules, SameButImageAndUser
  <2>2. a = [r EXCEPT !.k8s = [r.k8s EXCEPT !.workloads[n] = w]]
    BY <1>6 DEF b
  <2>3. /\ NewAt(g, n, w, v, r)
        /\ g.rule \in {"PATCH-DEPS-001", "PATCH-DEPS-002", "PATCH-DEPS-003",
                       "dockerfile-k8s-image-drift", "dockerfile-k8s-user-conflict"}
    BY <1>5, <1>14, <2>1, <2>2, ReplacedBeyondRules
  <2>4. (c.image = old.image /\ c.tag = old.tag) => SameImages(w, v)
    BY <1>7 DEF SameImages
  <2>5. c.root = old.root => SameUsers(w, v)
    BY <1>7 DEF SameUsers
  <2> HIDE DEF v
  <2> QED BY <1>7, <2>3, <2>4, <2>5 DEF NewAt, WorkloadFieldRules
<1> QED BY <1>7, <1>8, <1>9, <1>10, <1>11, <1>12, <1>13, <1>14

\* The tag of another image brings no hits.
LEMMA DriftAdviceSound ==
  ASSUME NEW r \in Repository, NEW h \in Hits(r), DriftHit(h, r), NEW a \in Followed(h, r)
  PROVE  Sound(h, r, a)
<1> DEFINE m == r.k8s
<1>1. m \in Manifests /\ m.workloads \in [Names -> Workload \cup {None}]
  BY RepositoryParts
<1>2. PICK p \in Running(m) : h = Found("dockerfile-k8s-image-drift", p, "amber")
  BY DEF DriftHit
<1>3. PICK n \in Collected(m), k \in Containers :
        p = <<n, k>> /\ k \in DOMAIN m.workloads[n].containers
  BY DEF Running
<1>4. /\ h.rule = "dockerfile-k8s-image-drift" /\ h.place = p
      /\ h.place[1] = n /\ h.place[2] = k
  BY <1>2, <1>3 DEF Found
<1> DEFINE old == m.workloads[n].containers[k]
<1>5. PICK t \in OtherTags(old, r) :
        a = [r EXCEPT !.k8s = [m EXCEPT !.workloads[n].containers[k].tag = t]]
  BY <1>4 DEF Followed, FollowedInDependencies, AmendedTags, ManifestRules, WorkloadFieldRules,
              DockerfileRules, IstioFieldRules
<1>6. m.workloads[n] \in Workload /\ n \in Names /\ old \in Container
  <2>1. m.workloads[n] \in Workload /\ n \in Names
    BY <1>1, CollectedTyped
  <2> QED BY <1>3, <2>1, ContainersNamed
<1> DEFINE c == [old EXCEPT !.tag = t]
<1>7. c \in Container
  BY <1>6, TagsTyped DEF Container
<1>8. a = WithContainer(r, n, k, c)
  BY <1>1, <1>5, <1>6 DEF WithContainer, Manifests, Workload
<1>9. SameButImageAndUser(c, old) /\ c.root = old.root
  BY <1>6 DEF Container, SameButImageAndUser
<1> HIDE DEF c
<1>10. /\ Running(a.k8s) = Running(m) /\ FinalStages(a) = FinalStages(r)
       /\ \A q \in Running(m) : q # p => ContainerAt(q, a.k8s) = ContainerAt(q, m)
       /\ \A g \in Hits(a) \ Hits(r) : g.rule = "dockerfile-k8s-image-drift"
  <2>1. k \in DOMAIN r.k8s.workloads[n].containers /\ old = r.k8s.workloads[n].containers[k]
    BY <1>3
  <2> HIDE DEF old
  <2>2. /\ Running(a.k8s) = Running(r.k8s) /\ FinalStages(a) = FinalStages(r)
        /\ \A q \in Running(r.k8s) : q # <<n, k>> => ContainerAt(q, a.k8s) = ContainerAt(q, r.k8s)
        /\ \A g \in Hits(a) \ Hits(r) :
             \/ g.rule = "dockerfile-k8s-image-drift" /\ ~ (c.image = old.image /\ c.tag = old.tag)
             \/ g.rule = "dockerfile-k8s-user-conflict" /\ c.root # old.root
    BY <1>7, <1>8, <1>9, <2>1, ReplacedContainer
  <2> QED BY <1>3, <1>9, <2>2
<1>11. ASSUME NEW g \in Hits(a) \ Hits(r) PROVE FALSE
  <2>1. DriftHit(g, a)
    BY <1>10, HitsAre, HitRules DEF WorkloadFieldRules, DockerfileRules, IstioFieldRules
  <2>2. PICK q \in Running(m) : /\ OtherTags(ContainerAt(q, a.k8s), a) # {}
                                /\ g = Found("dockerfile-k8s-image-drift", q, "amber")
    BY <1>10, <2>1 DEF DriftHit
  <2>3. q # p
    BY <1>2, <2>2
  <2>4. OtherTags(ContainerAt(q, m), r) # {}
    BY <1>10, <2>2, <2>3 DEF OtherTags, TagsOf
  <2> QED BY <2>2, <2>4, HitsAre DEF DriftHit
<1> QED BY <1>4, <1>11 DEF Sound, TakeSeveralSteps

\* A Dockerfile in the place of another.
WithDockerfile(r, f, d) == [r EXCEPT !.dockerfiles[f] = d]
FinalStage(d) == d.stages[Len(d.stages)]

LEMMA ReplacedDockerfile ==
  ASSUME NEW r \in Repository, NEW f \in Built(r), NEW d \in Dockerfile,
         NEW old, old = r.dockerfiles[f], NEW a, a = WithDockerfile(r, f, d)
  PROVE  /\ \A h \in Hits(a), rule \in DockerfileRules :
              h \in DockerfileHits(rule, f, old) => h \in DockerfileHits(rule, f, d)
         /\ \A h \in Hits(a) \ Hits(r) :
              \/ /\ h.rule \in DockerfileRules
                 /\ h \in DockerfileHits(h.rule, f, d) \ DockerfileHits(h.rule, f, old)
              \/ h.rule = "dockerfile-k8s-image-drift" /\ FinalStage(d) # FinalStage(old)
              \/ /\ h.rule = "dockerfile-k8s-user-conflict"
                 /\ "nonroot" \in d.users /\ "nonroot" \notin old.users
<1>1. f \in Dockerfiles /\ None \notin Dockerfile
  BY BuiltTyped, DeliveryRulesAssumption
<1>2. /\ a.k8s = r.k8s /\ a.mesh = r.mesh /\ a.documents = r.documents
      /\ a.dockerfiles = [r.dockerfiles EXCEPT ![f] = d]
  BY <1>1 DEF WithDockerfile, Repository
<1>3. a.dockerfiles[f] = d /\ \A x \in Dockerfiles : x # f => a.dockerfiles[x] = r.dockerfiles[x]
  BY <1>1, <1>2 DEF Repository
<1>4. Built(a) = Built(r) /\ Built(r) \subseteq Dockerfiles
  BY <1>1, <1>3 DEF Built
<1>5. \A rule, x, e : \A h \in DockerfileHits(rule, x, e) : h.rule = rule /\ h.place[1] = x
  BY DEF DockerfileHits, Found
<1>6. ASSUME NEW h \in Hits(a), NEW rule \in DockerfileRules, h \in DockerfileHits(rule, f, old)
      PROVE  h \in DockerfileHits(rule, f, d)
  <2>1. h.rule = rule /\ h.place[1] = f
    BY <1>5, <1>6
  <2>2. DockerfileHit(h, a)
    BY <2>1, HitsAre, HitRules DEF WorkloadFieldRules, DockerfileRules, IstioFieldRules
  <2>3. PICK other \in DockerfileRules, x \in Built(a) : h \in DockerfileHits(other, x, a.dockerfiles[x])
    BY <2>2 DEF DockerfileHit
  <2>4. other = rule /\ x = f
    BY <1>5, <2>1, <2>3
  <2> QED BY <1>3, <2>3, <2>4
<1>7. ASSUME NEW h \in Hits(a) \ Hits(r)
      PROVE  \/ /\ h.rule \in DockerfileRules
                /\ h \in DockerfileHits(h.rule, f, d) \ DockerfileHits(h.rule, f, old)
             \/ h.rule = "dockerfile-k8s-image-drift" /\ FinalStage(d) # FinalStage(old)
             \/ /\ h.rule = "dockerfile-k8s-user-conflict"
                /\ "nonroot" \in d.users /\ "nonroot" \notin old.users
  <2>1. DocumentHit(h, a) <=> DocumentHit(h, r)
    BY <1>2 DEF DocumentHit
  <2>2. /\ Meshed(a) = Meshed(r) /\ \A kind, x : Named(kind, x, a) = Named(kind, x, r)
        /\ \A p : ResourceAt(p, a) = ResourceAt(p, r)
    BY <1>2 DEF Meshed, Named, ResourceAt
  <2>3. IstioFiles(a) = IstioFiles(r) /\ MeshResources(a) = MeshResources(r)
    BY <1>2, <2>2 DEF IstioFiles, MeshResources
  <2>4. \A rule, x : IstioFails(rule, x, a) <=> IstioFails(rule, x, r)
    BY <1>2, <2>2 DEF IstioFails
  <2>5. /\ IstioHit(h, a) <=> IstioHit(h, r)
        /\ MtlsHit(h, a) <=> MtlsHit(h, r)
        /\ TrafficHit(h, a) <=> TrafficHit(h, r)
    BY <1>2, <2>2, <2>3, <2>4 DEF IstioHit, MtlsHit, TrafficHit
  <2>6. \/ DockerfileHit(h, a) /\ ~ DockerfileHit(h, r)
        \/ DriftHit(h, a) /\ ~ DriftHit(h, r)
        \/ ConflictHit(h, a) /\ ~ ConflictHit(h, r)
    BY <1>2, <2>1, <2>5, HitsAre
  <2>7. CASE DockerfileHit(h, a) /\ ~ DockerfileHit(h, r)
    <3>1. PICK rule \in DockerfileRules, x \in Built(a) : h \in DockerfileHits(rule, x, a.dockerfiles[x])
      BY <2>7 DEF DockerfileHit
    <3>2. h \notin DockerfileHits(rule, x, r.dockerfiles[x])
      BY <1>4, <2>7 DEF DockerfileHit
    <3>3. x = f
      BY <1>3, <1>4, <3>1, <3>2
    <3> QED BY <1>3, <1>5, <3>1, <3>2, <3>3
  <2>8. CASE DriftHit(h, a) /\ ~ DriftHit(h, r)
    <3>1. h.rule = "dockerfile-k8s-image-drift"
      BY <2>8, HitRules
    <3>2. ASSUME FinalStage(d) = FinalStage(old) PROVE FALSE
      <4>1. FinalStages(a) = FinalStages(r)
        BY <1>3, <1>4, <3>2 DEF FinalStages, FinalStage
      <4> QED BY <1>2, <2>8, <4>1 DEF DriftHit, OtherTags, TagsOf
    <3> QED BY <3>1, <3>2
  <2>9. CASE ConflictHit(h, a) /\ ~ ConflictHit(h, r)
    <3>1. NonRoot(a) # {} /\ NonRoot(r) = {}
      BY <1>2, <2>9 DEF ConflictHit
    <3>2. "nonroot" \in d.users /\ "nonroot" \notin old.users
      BY <1>3, <1>4, <3>1 DEF NonRoot
    <3> QED BY <2>9, <3>2, HitRules
  <2> QED BY <2>6, <2>7, <2>8, <2>9
<1> QED BY <1>6, <1>7

\* A range by a name of its own, which quantifiers over it keep.
Upto(n) == 1 .. n

\* Where hits in a Dockerfile stand, by rule.
FloatingAt(h, f, d) ==
  \E i \in Upto(Len(d.stages)) :
    Floating(d.stages[i]) /\ h = Found("dockerfile-base-pinning", <<f, i>>, "amber")
LeakedAt(h, f, d) ==
  \E i \in Upto(d.secrets) :
    h = Found("dockerfile-secret-leakage", <<f, Len(d.stages) + i>>, "red")

LEMMA DockerfileHitsAre ==
  ASSUME NEW f, NEW d, NEW h
  PROVE  /\ h \in DockerfileHits("dockerfile-base-pinning", f, d) <=> FloatingAt(h, f, d)
         /\ h \in DockerfileHits("dockerfile-secret-leakage", f, d) <=> LeakedAt(h, f, d)
         /\ h \in DockerfileHits("dockerfile-multistage", f, d) <=>
              /\ Len(d.stages) <= 1 /\ d.runs
              /\ h = Found("dockerfile-multistage", <<f>>, "amber")
         /\ h \in DockerfileHits("dockerfile-user-directive", f, d) <=>
              d.users = {} /\ h = Found("dockerfile-user-directive", <<f>>, "amber")
<1>1. h \in DockerfileHits("dockerfile-base-pinning", f, d) <=> FloatingAt(h, f, d)
  BY DEF DockerfileHits, DockerfileFails, Upto, FloatingAt
<1>2. h \in DockerfileHits("dockerfile-secret-leakage", f, d) <=> LeakedAt(h, f, d)
  BY DEF DockerfileHits, DockerfileFails, Upto, LeakedAt
<1>3. h \in DockerfileHits("dockerfile-multistage", f, d) <=>
        /\ Len(d.stages) <= 1 /\ d.runs
        /\ h = Found("dockerfile-multistage", <<f>>, "amber")
  BY DEF DockerfileHits, DockerfileFails
<1>4. h \in DockerfileHits("dockerfile-user-directive", f, d) <=>
        d.users = {} /\ h = Found("dockerfile-user-directive", <<f>>, "amber")
  BY DEF DockerfileHits, DockerfileFails
<1> QED BY <1>1, <1>2, <1>3, <1>4

\* A stage that is no longer floating is not hit.
LEMMA PinnedIsNotHit ==
  ASSUME NEW f, NEW d, NEW i, ~ Floating(d.stages[i])
  PROVE  Found("dockerfile-base-pinning", <<f, i>>, "amber")
           \notin DockerfileHits("dockerfile-base-pinning", f, d)
<1>1. ASSUME NEW j, Found("dockerfile-base-pinning", <<f, i>>, "amber")
                      = Found("dockerfile-base-pinning", <<f, j>>, "amber")
      PROVE  j = i
  <2>1. <<f, i>> = <<f, j>>
    BY <1>1 DEF Found
  <2> QED BY <2>1
<1>2. SUFFICES ASSUME Found("dockerfile-base-pinning", <<f, i>>, "amber")
                        \in DockerfileHits("dockerfile-base-pinning", f, d)
               PROVE  FALSE
  OBVIOUS
<1>3. FloatingAt(Found("dockerfile-base-pinning", <<f, i>>, "amber"), f, d)
  BY <1>2, DockerfileHitsAre
<1> QED BY <1>1, <1>3 DEF FloatingAt

\* A Dockerfile with no more to say against it has no other hits.
LEMMA NoOtherDockerfileHits ==
  ASSUME NEW f, NEW d, NEW old, NEW h, NEW rule \in DockerfileRules,
         h \in DockerfileHits(rule, f, d),
         rule = "dockerfile-base-pinning" =>
           \A i \in Upto(Len(d.stages)) :
             Floating(d.stages[i]) => i \in Upto(Len(old.stages)) /\ Floating(old.stages[i]),
         rule = "dockerfile-secret-leakage" =>
           Len(d.stages) = Len(old.stages) /\ Upto(d.secrets) \subseteq Upto(old.secrets),
         rule = "dockerfile-multistage" =>
           (Len(d.stages) <= 1 /\ d.runs => Len(old.stages) <= 1 /\ old.runs),
         rule = "dockerfile-user-directive" => (d.users = {} => old.users = {})
  PROVE  h \in DockerfileHits(rule, f, old)
<1>1. CASE rule = "dockerfile-base-pinning"
  <2>1. PICK i \in Upto(Len(d.stages)) :
          Floating(d.stages[i]) /\ h = Found("dockerfile-base-pinning", <<f, i>>, "amber")
    <3>1. h \in DockerfileHits("dockerfile-base-pinning", f, d)
      BY <1>1
    <3>2. FloatingAt(h, f, d)
      BY <3>1, DockerfileHitsAre
    <3> QED BY <3>2 DEF FloatingAt
  <2>2. i \in Upto(Len(old.stages)) /\ Floating(old.stages[i])
    BY <1>1, <2>1
  <2>3. h \in DockerfileHits("dockerfile-base-pinning", f, old)
    BY <2>1, <2>2, DockerfileHitsAre DEF FloatingAt
  <2> QED BY <1>1, <2>3
<1>2. CASE rule = "dockerfile-secret-leakage"
  <2>1. PICK i \in Upto(d.secrets) :
          h = Found("dockerfile-secret-leakage", <<f, Len(d.stages) + i>>, "red")
    <3>1. h \in DockerfileHits("dockerfile-secret-leakage", f, d)
      BY <1>2
    <3>2. LeakedAt(h, f, d)
      BY <3>1, DockerfileHitsAre
    <3> QED BY <3>2 DEF LeakedAt
  <2>2. /\ i \in Upto(old.secrets)
        /\ h = Found("dockerfile-secret-leakage", <<f, Len(old.stages) + i>>, "red")
    BY <1>2, <2>1
  <2>3. h \in DockerfileHits("dockerfile-secret-leakage", f, old)
    BY <2>2, DockerfileHitsAre DEF LeakedAt
  <2> QED BY <1>2, <2>3
<1>3. CASE rule = "dockerfile-multistage"
  BY <1>3, DockerfileHitsAre
<1>4. CASE rule = "dockerfile-user-directive"
  BY <1>4, DockerfileHitsAre
<1> QED BY <1>1, <1>2, <1>3, <1>4 DEF DockerfileRules

LEMMA DockerfileAdviceSound ==
  ASSUME NEW r \in Repository, NEW h \in Hits(r), DockerfileHit(h, r), NEW a \in Followed(h, r)
  PROVE  Sound(h, r, a)
<1>1. PICK rule \in DockerfileRules, f \in Built(r) : h \in DockerfileHits(rule, f, r.dockerfiles[f])
  BY DEF DockerfileHit
<1> DEFINE old == r.dockerfiles[f]
<1>2. h.rule = rule /\ h.place[1] = f
  BY <1>1 DEF DockerfileHits, Found
<1>3. /\ f \in Dockerfiles /\ old \in Dockerfile /\ old.secrets \in Nat
      /\ old.stages \in Seq(Stage) /\ old.stages # << >> /\ Len(old.stages) \in Nat \ {0}
  <2>1. /\ f \in Dockerfiles /\ old \in Dockerfile /\ old.secrets \in Nat
        /\ old.stages \in Seq(Stage) /\ old.stages # << >>
    BY BuiltTyped
  <2> HIDE DEF old
  <2>2. Len(old.stages) \in Nat \ {0}
    BY <2>1, LenProperties, EmptySeq
  <2> QED BY <2>1, <2>2
<1>4. PICK d \in AmendedDockerfiles(h, old) : a = WithDockerfile(r, f, d)
  BY <1>2 DEF Followed, WithDockerfile, ManifestRules, WorkloadFieldRules, DockerfileRules,
              IstioFieldRules
<1>5. d \in Dockerfile
  <2>1. h \in Findings(r) /\ h.rag # "green"
    BY DEF Hits
  <2> QED BY <1>2, <1>4, <2>1, AmendedDockerfileTyped
<1> HIDE DEF old
<1>6. /\ h \in Hits(a) => h \in DockerfileHits(rule, f, d)
      /\ \A g \in Hits(a) \ Hits(r) :
           \/ /\ g.rule \in DockerfileRules
              /\ g \in DockerfileHits(g.rule, f, d) \ DockerfileHits(g.rule, f, old)
           \/ g.rule = "dockerfile-k8s-image-drift" /\ FinalStage(d) # FinalStage(old)
           \/ /\ g.rule = "dockerfile-k8s-user-conflict"
              /\ "nonroot" \in d.users /\ "nonroot" \notin old.users
  BY <1>1, <1>4, <1>5, ReplacedDockerfile DEF old
<1>7. CASE rule = "dockerfile-base-pinning"
  <2>1. PICK i \in Upto(Len(old.stages)) :
          Floating(old.stages[i]) /\ h = Found("dockerfile-base-pinning", <<f, i>>, "amber")
    <3>1. h \in DockerfileHits("dockerfile-base-pinning", f, old)
      BY <1>1, <1>7 DEF old
    <3>2. FloatingAt(h, f, old)
      BY <3>1, DockerfileHitsAre
    <3> QED BY <3>2 DEF FloatingAt
  <2>2. h.place[2] = i
    BY <2>1 DEF Found
  <2>3. PICK s \in PinnedStages(old.stages[i]) : d = [old EXCEPT !.stages[i] = s]
    BY <1>2, <1>4, <1>7, <2>2 DEF AmendedDockerfiles
  <2>4. /\ d.stages = [old.stages EXCEPT ![i] = s] /\ d.users = old.users
        /\ d.runs = old.runs /\ d.secrets = old.secrets
    BY <1>3, <2>3 DEF Dockerfile
  <2>5. old.stages[i] \in Stage
    BY <1>3, ElementOfSeq DEF Upto
  <2>6. ~ Floating(s) /\ s \in Stage
    BY <2>3, <2>5, PinnedStagesSound
  <2>8. /\ Len(d.stages) = Len(old.stages) /\ d.stages[i] = s
        /\ \A j \in Upto(Len(old.stages)) : j # i => d.stages[j] = old.stages[j]
    <3>1. Len(d.stages) = Len(old.stages)
      BY <1>3, <2>4, <2>6, ExceptSeq
    <3>2. DOMAIN old.stages = Upto(Len(old.stages))
      BY <1>3 DEF Upto
    <3> QED BY <2>4, <3>1, <3>2
  <2>9. h \notin Hits(a)
    <3>1. h \notin DockerfileHits("dockerfile-base-pinning", f, d)
      BY <2>1, <2>6, <2>8, PinnedIsNotHit
    <3> QED BY <1>6, <1>7, <3>1
  <2>10. ASSUME NEW g \in Hits(a) \ Hits(r) PROVE g.rule = "dockerfile-k8s-image-drift"
    <3>1. ASSUME NEW other \in DockerfileRules, g \in DockerfileHits(other, f, d)
          PROVE  g \in DockerfileHits(other, f, old)
      BY <2>4, <2>6, <2>8, <3>1, NoOtherDockerfileHits
    <3> QED BY <1>6, <2>4, <3>1
  <2> QED BY <1>2, <1>7, <2>9, <2>10, ProvokesAre DEF Sound
<1>8. CASE rule = "dockerfile-secret-leakage"
  <2>1. d = [old EXCEPT !.secrets = old.secrets - 1] /\ old.secrets >= 1
    <3>1. old.secrets >= 1
      <4>1. h \in DockerfileHits("dockerfile-secret-leakage", f, old)
        BY <1>1, <1>8 DEF old
      <4>2. LeakedAt(h, f, old)
        BY <4>1, DockerfileHitsAre
      <4> QED BY <1>3, <4>2 DEF LeakedAt, Upto
    <3>2. d = [old EXCEPT !.secrets = @ - 1]
      BY <1>2, <1>4, <1>8 DEF AmendedDockerfiles
    <3> QED BY <1>3, <3>1, <3>2 DEF Dockerfile
  <2>2. /\ d.stages = old.stages /\ d.users = old.users /\ d.runs = old.runs
        /\ d.secrets = old.secrets - 1
    BY <1>3, <2>1 DEF Dockerfile
  <2>3. ASSUME NEW g \in Hits(a) \ Hits(r) PROVE FALSE
    <3>1. ASSUME NEW other \in DockerfileRules, g \in DockerfileHits(other, f, d)
          PROVE  g \in DockerfileHits(other, f, old)
      <4>1. Upto(d.secrets) \subseteq Upto(old.secrets)
        BY <1>3, <2>1, <2>2 DEF Upto
      <4> QED BY <2>2, <3>1, <4>1, NoOtherDockerfileHits
    <3> QED BY <1>6, <2>2, <2>3, <3>1 DEF FinalStage
  <2> QED BY <1>2, <1>8, <2>3 DEF Sound, TakeSeveralSteps
<1>9. CASE rule = "dockerfile-multistage"
  <2>1. d = [old EXCEPT !.stages = <<Head(old.stages)>> \o old.stages]
    BY <1>2, <1>3, <1>4, <1>9 DEF AmendedDockerfiles, Dockerfile
  <2>2. /\ d.stages = <<Head(old.stages)>> \o old.stages /\ d.users = old.users
        /\ d.runs = old.runs /\ d.secrets = old.secrets
    BY <1>3, <2>1 DEF Dockerfile
  <2>3. /\ Len(d.stages) = 1 + Len(old.stages)
        /\ d.stages[1 + Len(old.stages)] = old.stages[Len(old.stages)]
    <3>1. Head(old.stages) \in Stage
      BY <1>3, HeadTailProperties
    <3>2. <<Head(old.stages)>> \in Seq(Stage) /\ Len(<<Head(old.stages)>>) = 1
      BY <3>1
    <3> QED BY <1>3, <2>2, <3>2, ConcatProperties
  <2>4. h \notin Hits(a)
    <3>1. ~ (Len(d.stages) <= 1)
      BY <1>3, <2>3
    <3> QED BY <1>6, <1>9, <3>1, DockerfileHitsAre
  <2>5. ASSUME NEW g \in Hits(a) \ Hits(r)
        PROVE  g.rule \in {"dockerfile-base-pinning", "dockerfile-secret-leakage"}
    <3>1. FinalStage(d) = FinalStage(old)
      BY <2>3 DEF FinalStage
    <3>2. ASSUME g.rule \in DockerfileRules, g.rule \notin {"dockerfile-base-pinning", "dockerfile-secret-leakage"},
                 g \in DockerfileHits(g.rule, f, d)
          PROVE  g \in DockerfileHits(g.rule, f, old)
      <4>1. ~ (Len(d.stages) <= 1)
        BY <1>3, <2>3
      <4> QED BY <2>2, <3>2, <4>1, NoOtherDockerfileHits
    <3> QED BY <1>6, <2>2, <3>1, <3>2
  <2> QED BY <1>2, <1>9, <2>4, <2>5, ProvokesAre DEF Sound
<1>10. CASE rule = "dockerfile-user-directive"
  <2>1. d = [old EXCEPT !.users = {"nonroot"}]
    BY <1>2, <1>4, <1>10 DEF AmendedDockerfiles
  <2>2. /\ d.stages = old.stages /\ d.users = {"nonroot"} /\ d.runs = old.runs
        /\ d.secrets = old.secrets
    BY <1>3, <2>1 DEF Dockerfile
  <2>3. h \notin Hits(a)
    BY <1>6, <1>10, <2>2, DockerfileHitsAre
  <2>4. ASSUME NEW g \in Hits(a) \ Hits(r) PROVE g.rule = "dockerfile-k8s-user-conflict"
    <3>1. ASSUME NEW other \in DockerfileRules, g \in DockerfileHits(other, f, d)
          PROVE  g \in DockerfileHits(other, f, old)
      BY <2>2, <3>1, NoOtherDockerfileHits
    <3> QED BY <1>6, <2>2, <3>1 DEF FinalStage
  <2> QED BY <1>2, <1>10, <2>3, <2>4, ProvokesAre DEF Sound
<1> QED BY <1>7, <1>8, <1>9, <1>10 DEF DockerfileRules

\* Running without root, or the images with it, brings no hits but about users.
LEMMA ConflictAdviceSound ==
  ASSUME NEW r \in Repository, NEW h, ConflictHit(h, r), NEW a \in Followed(h, r)
  PROVE  Sound(h, r, a)
<1> DEFINE m == r.k8s
<1>1. m \in Manifests /\ m.workloads \in [Names -> Workload \cup {None}]
  BY RepositoryParts
<1>2. PICK place \in {<<n>> : n \in RootPods(m)} \cup RootContainers(m) :
        h = Found("dockerfile-k8s-user-conflict", place, "red")
  BY DEF ConflictHit
<1>3. h.rule = "dockerfile-k8s-user-conflict" /\ h.place = place
  BY <1>2 DEF Found
<1>4. \/ a = [r EXCEPT !.k8s = WithoutRoot(place, m)]
      \/ \E f \in NonRoot(r) : a = [r EXCEPT !.dockerfiles[f].users = {"root"}]
  BY <1>3 DEF Followed, FollowedInDependencies, ManifestRules, WorkloadFieldRules,
              DockerfileRules, IstioFieldRules
<1>5. ASSUME NEW n \in RootPods(m), a = [r EXCEPT !.k8s = [m EXCEPT !.workloads[n].root = FALSE]],
             NEW g \in Hits(a) \ Hits(r)
      PROVE  g.rule = "dockerfile-k8s-user-conflict"
  <2>1. n \in Collected(m) /\ n \in Names /\ m.workloads[n] \in Workload
    BY <1>1, <1>5, CollectedTyped DEF RootPods
  <2> DEFINE v == m.workloads[n]
             w == [v EXCEPT !.root = FALSE]
  <2>2. a = [r EXCEPT !.k8s = [r.k8s EXCEPT !.workloads[n] = w]]
    BY <1>1, <1>5, <2>1 DEF Manifests
  <2>3. w \in Workload
    BY <2>1, AnnotatedOrNotRootTyped
  <2>4. /\ w.annotated = v.annotated /\ SameForRules(w, v)
        /\ w.node_selector = v.node_selector /\ w.databases = v.databases
        /\ w.ring = v.ring /\ w.calls = v.calls /\ SameImages(w, v)
    BY <2>1 DEF Workload, SameForRules, SameImages
  <2> HIDE DEF w
  <2>5. \A x \in Hits(a) \ Hits(r) :
          /\ NewAt(x, n, w, v, r)
          /\ x.rule \in {"PATCH-DEPS-001", "PATCH-DEPS-002", "PATCH-DEPS-003",
                         "dockerfile-k8s-image-drift", "dockerfile-k8s-user-conflict"}
    BY <2>1, <2>2, <2>3, <2>4, ReplacedBeyondRules
  <2> QED BY <1>5, <2>4, <2>5 DEF NewAt, WorkloadFieldRules
<1>6. ASSUME NEW n \in Collected(m), NEW k \in DOMAIN m.workloads[n].containers,
             a = [r EXCEPT !.k8s = [m EXCEPT !.workloads[n].containers[k].root = FALSE]],
             NEW g \in Hits(a) \ Hits(r)
      PROVE  g.rule = "dockerfile-k8s-user-conflict"
  <2> DEFINE old == m.workloads[n].containers[k]
             c == [old EXCEPT !.root = FALSE]
  <2>1. n \in Names /\ m.workloads[n] \in Workload /\ old \in Container
    <3>1. n \in Names /\ m.workloads[n] \in Workload
      BY <1>1, CollectedTyped
    <3> QED BY <1>6, <3>1, ContainersNamed
  <2>2. a = WithContainer(r, n, k, c)
    BY <1>1, <1>6, <2>1 DEF WithContainer, Manifests, Workload
  <2>3. c \in Container /\ SameButImageAndUser(c, old) /\ c.image = old.image /\ c.tag = old.tag
    BY <2>1 DEF Container, SameButImageAndUser
  <2>4. k \in DOMAIN r.k8s.workloads[n].containers /\ old = r.k8s.workloads[n].containers[k]
    OBVIOUS
  <2> HIDE DEF c, old
  <2>5. \A x \in Hits(a) \ Hits(r) :
          \/ x.rule = "dockerfile-k8s-image-drift" /\ ~ (c.image = old.image /\ c.tag = old.tag)
          \/ x.rule = "dockerfile-k8s-user-conflict" /\ c.root # old.root
    BY <2>2, <2>3, <2>4, ReplacedContainer
  <2> QED BY <1>6, <2>3, <2>5
<1>7. ASSUME NEW f \in NonRoot(r), a = [r EXCEPT !.dockerfiles[f].users = {"root"}],
             NEW g \in Hits(a) \ Hits(r)
      PROVE  g.rule = "dockerfile-k8s-user-conflict"
  <2> DEFINE old == r.dockerfiles[f]
             d == [old EXCEPT !.users = {"root"}]
  <2>1. f \in Built(r) /\ f \in Dockerfiles /\ old \in Dockerfile
    BY <1>7, BuiltTyped DEF NonRoot
  <2>2. a = WithDockerfile(r, f, d)
    BY <1>7, <2>1 DEF WithDockerfile, Repository
  <2>3. /\ d \in Dockerfile /\ d.users = {"root"}
        /\ d.stages = old.stages /\ d.runs = old.runs /\ d.secrets = old.secrets
    BY <2>1 DEF Dockerfile
  <2>4. old = r.dockerfiles[f]
    OBVIOUS
  <2> HIDE DEF d, old
  <2>5. \A x \in Hits(a) \ Hits(r) :
          \/ /\ x.rule \in DockerfileRules
             /\ x \in DockerfileHits(x.rule, f, d) \ DockerfileHits(x.rule, f, old)
          \/ x.rule = "dockerfile-k8s-image-drift" /\ FinalStage(d) # FinalStage(old)
          \/ /\ x.rule = "dockerfile-k8s-user-conflict"
             /\ "nonroot" \in d.users /\ "nonroot" \notin old.users
    BY <2>1, <2>2, <2>3, <2>4, ReplacedDockerfile
  <2>6. ASSUME NEW other \in DockerfileRules, g \in DockerfileHits(other, f, d)
        PROVE  g \in DockerfileHits(other, f, old)
    BY <2>3, <2>6, NoOtherDockerfileHits
  <2> QED BY <1>7, <2>3, <2>5, <2>6 DEF FinalStage
<1>8. ASSUME NEW g \in Hits(a) \ Hits(r) PROVE g.rule = "dockerfile-k8s-user-conflict"
  <2>1. CASE a = [r EXCEPT !.k8s = WithoutRoot(place, m)]
    <3>1. CASE \E n \in RootPods(m) : place = <<n>>
      <4>1. PICK n \in RootPods(m) : place = <<n>>
        BY <3>1
      <4>2. a = [r EXCEPT !.k8s = [m EXCEPT !.workloads[n].root = FALSE]]
        <5>1. Len(place) = 1 /\ place[1] = n
          BY <4>1
        <5> QED BY <2>1, <5>1 DEF WithoutRoot
      <4> QED BY <1>5, <1>8, <4>2
    <3>2. CASE place \in RootContainers(m)
      <4>1. PICK n \in Collected(m), k \in Containers :
              place = <<n, k>> /\ k \in DOMAIN m.workloads[n].containers
        BY <3>2 DEF RootContainers, Running
      <4> QED BY <1>6, <1>8, <2>1, <4>1 DEF WithoutRoot
    <3> QED BY <1>2, <3>1, <3>2
  <2> QED BY <1>4, <1>7, <1>8, <2>1
<1> QED BY <1>3, <1>8, ProvokesAre DEF Sound, TakeSeveralSteps

\* Documents only take hits away.
LEMMA DocumentAdviceSound ==
  ASSUME NEW r \in Repository, NEW h, DocumentHit(h, r), NEW a \in Followed(h, r)
  PROVE  Sound(h, r, a)
<1>1. h.rule \in {"PATCH-ROLL-001", "PATCH-TRAFFIC-002"}
  BY HitRules
<1>2. PICK d : /\ a = [r EXCEPT !.documents = @ \cup {d}]
               /\ h.rule = "PATCH-ROLL-001" => d \in RollbackDocuments
               /\ h.rule = "PATCH-TRAFFIC-002" => d \in FailoverDocuments
  BY <1>1 DEF Followed, ManifestRules, WorkloadFieldRules, DockerfileRules, IstioFieldRules
<1>3. /\ a.k8s = r.k8s /\ a.dockerfiles = r.dockerfiles /\ a.mesh = r.mesh
      /\ a.documents = r.documents \cup {d}
  BY <1>2 DEF Repository
<1>4. ASSUME NEW g \in Hits(a) PROVE g \in Hits(r)
  <2>1. DocumentHit(g, a) => DocumentHit(g, r)
    BY <1>3 DEF DocumentHit
  <2>2. Built(a) = Built(r) /\ FinalStages(a) = FinalStages(r) /\ NonRoot(a) = NonRoot(r)
    BY <1>3 DEF Built, FinalStages, NonRoot
  <2>3. /\ DockerfileHit(g, a) <=> DockerfileHit(g, r)
        /\ DriftHit(g, a) <=> DriftHit(g, r)
        /\ ConflictHit(g, a) <=> ConflictHit(g, r)
    BY <1>3, <2>2 DEF DockerfileHit, DriftHit, ConflictHit, OtherTags, TagsOf
  <2>4. /\ Meshed(a) = Meshed(r) /\ \A kind, x : Named(kind, x, a) = Named(kind, x, r)
        /\ \A p : ResourceAt(p, a) = ResourceAt(p, r)
    BY <1>3 DEF Meshed, Named, ResourceAt
  <2>5. IstioFiles(a) = IstioFiles(r) /\ MeshResources(a) = MeshResources(r)
    BY <1>3, <2>4 DEF IstioFiles, MeshResources
  <2>6. \A rule, x : IstioFails(rule, x, a) <=> IstioFails(rule, x, r)
    BY <1>3, <2>4 DEF IstioFails
  <2>7. /\ IstioHit(g, a) <=> IstioHit(g, r)
        /\ MtlsHit(g, a) <=> MtlsHit(g, r)
        /\ TrafficHit(g, a) <=> TrafficHit(g, r)
    BY <1>3, <2>4, <2>5, <2>6 DEF IstioHit, MtlsHit, TrafficHit
  <2> QED BY <1>3, <2>1, <2>3, <2>7, HitsAre
<1>5. h \notin Hits(a)
  <2>1. ~ DocumentHit(h, a)
    BY <1>2, <1>3 DEF DocumentHit, Found
  <2> QED BY <1>1, <2>1, HitsAre, HitRules
          DEF WorkloadFieldRules, DockerfileRules, IstioFieldRules
<1> QED BY <1>4, <1>5 DEF Sound

-----------------------------------------------------------------------------
(***************************************************************************)
(* A file about the mesh in the place of another.                          *)
(***************************************************************************)
WithMesh(r, f, x) == [r EXCEPT !.mesh[f] = x]

LEMMA ReplacedMesh ==
  ASSUME NEW r \in Repository, NEW f \in Meshed(r), NEW x \in MeshFile,
         NEW a, a = WithMesh(r, f, x)
  PROVE  /\ a.mesh[f] = x /\ \A y \in Meshed(r) : y # f => a.mesh[y] = r.mesh[y]
         /\ Meshed(a) = Meshed(r)
         /\ \A h \in Hits(a) \ Hits(r) :
              \/ IstioHit(h, a) /\ ~ IstioHit(h, r)
              \/ MtlsHit(h, a) /\ ~ MtlsHit(h, r)
              \/ TrafficHit(h, a) /\ ~ TrafficHit(h, r)
<1>1. f \in MeshFiles /\ None \notin MeshFile
  BY MeshedTyped, DeliveryRulesAssumption
<1>2. /\ a.k8s = r.k8s /\ a.dockerfiles = r.dockerfiles /\ a.documents = r.documents
      /\ a.mesh = [r.mesh EXCEPT ![f] = x]
  BY <1>1 DEF WithMesh, Repository
<1>3. a.mesh[f] = x /\ \A y \in MeshFiles : y # f => a.mesh[y] = r.mesh[y]
  BY <1>1, <1>2 DEF Repository
<1>4. Meshed(a) = Meshed(r)
  BY <1>1, <1>3 DEF Meshed
<1>5. ASSUME NEW h \in Hits(a) \ Hits(r)
      PROVE  \/ IstioHit(h, a) /\ ~ IstioHit(h, r)
             \/ MtlsHit(h, a) /\ ~ MtlsHit(h, r)
             \/ TrafficHit(h, a) /\ ~ TrafficHit(h, r)
  <2>1. DocumentHit(h, a) <=> DocumentHit(h, r)
    BY <1>2 DEF DocumentHit
  <2>2. Built(a) = Built(r) /\ FinalStages(a) = FinalStages(r) /\ NonRoot(a) = NonRoot(r)
    BY <1>2 DEF Built, FinalStages, NonRoot
  <2>3. /\ DockerfileHit(h, a) <=> DockerfileHit(h, r)
        /\ DriftHit(h, a) <=> DriftHit(h, r)
        /\ ConflictHit(h, a) <=> ConflictHit(h, r)
    BY <1>2, <2>2 DEF DockerfileHit, DriftHit, ConflictHit, OtherTags, TagsOf
  <2> QED BY <1>2, <2>1, <2>3, HitsAre
<1> QED BY <1>3, <1>4, <1>5 DEF Meshed

\* Mutual TLS made strict somewhere brings no hits.
LEMMA MtlsAdviceSound ==
  ASSUME NEW r \in Repository, NEW h, MtlsHit(h, r), NEW a \in Followed(h, r)
  PROVE  Sound(h, r, a)
<1>1. h.rule = "istio-mtls-strict"
  BY HitRules
<1>2. PICK f \in Meshed(r) : a = [r EXCEPT !.mesh[f].mtls = "STRICT"]
  BY <1>1 DEF Followed, FollowedInMesh, ManifestRules, WorkloadFieldRules, DockerfileRules,
              IstioFieldRules
<1> DEFINE x == [r.mesh[f] EXCEPT !.mtls = "STRICT"]
<1>3. r.mesh[f] \in MeshFile /\ f \in MeshFiles
  BY MeshedTyped
<1>4. a = WithMesh(r, f, x)
  BY <1>2, <1>3 DEF WithMesh, Repository
<1>5. x \in MeshFile /\ x.mtls = "STRICT" /\ x.resources = r.mesh[f].resources
  BY <1>3 DEF MeshFile
<1> HIDE DEF x
<1>6. /\ a.mesh[f] = x /\ \A y \in Meshed(r) : y # f => a.mesh[y] = r.mesh[y]
      /\ Meshed(a) = Meshed(r)
      /\ \A g \in Hits(a) \ Hits(r) :
           \/ IstioHit(g, a) /\ ~ IstioHit(g, r)
           \/ MtlsHit(g, a) /\ ~ MtlsHit(g, r)
           \/ TrafficHit(g, a) /\ ~ TrafficHit(g, r)
  BY <1>4, <1>5, ReplacedMesh
<1>7. \A y \in Meshed(r) : a.mesh[y].resources = r.mesh[y].resources
  BY <1>5, <1>6
<1>8. \A kind, y : y \in Meshed(r) => Named(kind, y, a) = Named(kind, y, r)
  BY <1>7 DEF Named
<1>9. ASSUME NEW g PROVE ~ MtlsHit(g, a)
  <2>1. f \in IstioFiles(a) /\ a.mesh[f].mtls = "STRICT"
    BY <1>5, <1>6, DeliveryRulesAssumption DEF IstioFiles
  <2> QED BY <2>1 DEF MtlsHit
<1>10. ASSUME NEW g, IstioHit(g, a) PROVE IstioHit(g, r)
  <2>1. PICK rule \in IstioFieldRules, y \in IstioFiles(a) :
          IstioFails(rule, y, a) /\ g = Found(rule, <<y>>, "amber")
    BY <1>10 DEF IstioHit
  <2>2. y \in Meshed(r)
    BY <1>6 DEF IstioFiles
  <2>3. IstioFails(rule, y, r) /\ Named("DestinationRule", y, r) # {}
    BY <1>7, <1>8, <2>1, <2>2 DEF IstioFails
  <2>4. y \in IstioFiles(r)
    BY <2>2, <2>3 DEF IstioFiles
  <2> QED BY <2>1, <2>3, <2>4 DEF IstioHit
<1>11. ASSUME NEW g, TrafficHit(g, a) PROVE TrafficHit(g, r)
  <2>1. MeshResources(a) = MeshResources(r)
    BY <1>6, <1>7 DEF MeshResources
  <2>2. \A p \in MeshResources(r) : ResourceAt(p, a) = ResourceAt(p, r)
    BY <1>7 DEF ResourceAt, MeshResources
  <2> QED BY <1>11, <2>1, <2>2 DEF TrafficHit
<1>12. h \notin Hits(a)
  BY <1>1, <1>9, HitsAre, HitRules DEF WorkloadFieldRules, DockerfileRules, IstioFieldRules
<1> QED BY <1>6, <1>9, <1>10, <1>11, <1>12 DEF Sound

\* A resource with no more to say against it.
NoWorse(e, old) ==
  /\ e.kind = old.kind /\ Shifting(e) = Shifting(old)
  /\ Shifting(old) /\ ShiftsGradually(old) => ShiftsGradually(e)
  /\ old.kind = "DestinationRule" =>
       /\ old.connectionPool => e.connectionPool
       /\ old.outlierDetection => e.outlierDetection

LEMMA AmendedResourceNoWorse ==
  ASSUME NEW old \in Resource, NEW rule,
         rule = "istio-circuit-breaker" => old.kind = "DestinationRule",
         NEW e, e = AmendedResources(rule, old)
  PROVE  /\ NoWorse(e, old)
         /\ rule = "istio-circuit-breaker" => e.outlierDetection
         /\ rule # "istio-circuit-breaker" /\ e.kind = "DestinationRule" => e.connectionPool
         /\ rule # "istio-circuit-breaker" /\ Shifting(e) => ShiftsGradually(e)
<1>1. CASE old.kind = "DestinationRule"
  <2>1. old \in [kind : {"DestinationRule"}, connectionPool : BOOLEAN, outlierDetection : BOOLEAN]
    BY <1>1 DEF Resource
  <2>2. \/ rule = "istio-circuit-breaker" /\ e = [old EXCEPT !.outlierDetection = TRUE]
        \/ rule # "istio-circuit-breaker" /\ e = [old EXCEPT !.connectionPool = TRUE]
    BY <1>1 DEF AmendedResources
  <2> QED BY <1>1, <2>1, <2>2 DEF NoWorse, Shifting
<1>2. CASE old.kind = "VirtualService"
  <2>1. old \in [kind : {"VirtualService"}, weighted : BOOLEAN]
    BY <1>2 DEF Resource
  <2>2. rule # "istio-circuit-breaker" /\ e = [old EXCEPT !.weighted = TRUE]
    BY <1>2 DEF AmendedResources
  <2> QED BY <1>2, <2>1, <2>2 DEF NoWorse, Shifting, ShiftsGradually
<1>3. CASE old.kind = "Rollout"
  <2>1. old \in [kind : {"Rollout"}, canary : BOOLEAN, steps : BOOLEAN]
    BY <1>3 DEF Resource
  <2>2. rule # "istio-circuit-breaker" /\ e = [old EXCEPT !.steps = TRUE]
    BY <1>3 DEF AmendedResources
  <2> QED BY <1>3, <2>1, <2>2 DEF NoWorse, Shifting, ShiftsGradually
<1> QED BY <1>1, <1>2, <1>3 DEF Resource

\* A resource in the place of one it is no worse than.
WithResource(r, f, x, e) ==
  WithMesh(r, f, [r.mesh[f] EXCEPT !.resources = [r.mesh[f].resources EXCEPT ![x] = e]])

LEMMA ReplacedResource ==
  ASSUME NEW r \in Repository, NEW f \in Meshed(r), NEW x \in DOMAIN r.mesh[f].resources,
         NEW e \in Resource, NoWorse(e, r.mesh[f].resources[x]),
         NEW a, a = WithResource(r, f, x, e)
  PROVE  /\ Hits(a) \subseteq Hits(r)
         /\ a.mesh[f].resources[x] = e /\ IstioFiles(a) = IstioFiles(r)
         /\ \A kind : Named(kind, f, a) = Named(kind, f, r)
<1> DEFINE file == [r.mesh[f] EXCEPT !.resources = [r.mesh[f].resources EXCEPT ![x] = e]]
<1>1. PICK R \in SUBSET Resources : r.mesh[f].resources \in [R -> Resource]
  BY MeshedTyped
<1>2. r.mesh[f] \in MeshFile
  BY MeshedTyped
<1>3. /\ file.mtls = r.mesh[f].mtls /\ file.resources[x] = e
      /\ DOMAIN file.resources = DOMAIN r.mesh[f].resources
      /\ \A y \in DOMAIN r.mesh[f].resources : y # x => file.resources[y] = r.mesh[f].resources[y]
  BY <1>1, <1>2 DEF MeshFile
<1>4. file \in MeshFile
  <2>1. [r.mesh[f].resources EXCEPT ![x] = e] \in [R -> Resource]
    BY <1>1
  <2> QED BY <1>2, <2>1 DEF MeshFile
<1>5. a = WithMesh(r, f, file)
  BY DEF WithResource
<1> HIDE DEF file
<1>6. /\ a.mesh[f] = file /\ \A y \in Meshed(r) : y # f => a.mesh[y] = r.mesh[y]
      /\ Meshed(a) = Meshed(r)
      /\ \A g \in Hits(a) \ Hits(r) :
           \/ IstioHit(g, a) /\ ~ IstioHit(g, r)
           \/ MtlsHit(g, a) /\ ~ MtlsHit(g, r)
           \/ TrafficHit(g, a) /\ ~ TrafficHit(g, r)
  BY <1>4, <1>5, ReplacedMesh
<1>7. ASSUME NEW y \in Meshed(r)
      PROVE  /\ a.mesh[y].mtls = r.mesh[y].mtls
             /\ DOMAIN a.mesh[y].resources = DOMAIN r.mesh[y].resources
             /\ \A z \in DOMAIN r.mesh[y].resources :
                  \/ a.mesh[y].resources[z] = r.mesh[y].resources[z]
                  \/ NoWorse(a.mesh[y].resources[z], r.mesh[y].resources[z])
  BY <1>3, <1>6
<1>8. ASSUME NEW y \in Meshed(r), NEW kind PROVE Named(kind, y, a) = Named(kind, y, r)
  BY <1>7 DEF Named, NoWorse
<1>9. IstioFiles(a) = IstioFiles(r)
  BY <1>6, <1>7, <1>8 DEF IstioFiles
<1>10. ASSUME NEW g, MtlsHit(g, a) PROVE MtlsHit(g, r)
  <2>1. \A y \in IstioFiles(r) : a.mesh[y].mtls = r.mesh[y].mtls
    BY <1>7 DEF IstioFiles
  <2> QED BY <1>9, <1>10, <2>1 DEF MtlsHit
<1>11. ASSUME NEW rule, NEW y \in Meshed(r), IstioFails(rule, y, a) PROVE IstioFails(rule, y, r)
  <2>1. Named("DestinationRule", y, a) = Named("DestinationRule", y, r)
    BY <1>8
  <2>2. ASSUME NEW z \in Named("DestinationRule", y, r)
        PROVE  /\ r.mesh[y].resources[z].connectionPool => a.mesh[y].resources[z].connectionPool
               /\ r.mesh[y].resources[z].outlierDetection => a.mesh[y].resources[z].outlierDetection
    BY <1>7 DEF Named, NoWorse
  <2> QED BY <1>11, <2>1, <2>2 DEF IstioFails
<1>12. ASSUME NEW g, IstioHit(g, a) PROVE IstioHit(g, r)
  <2>1. PICK rule \in IstioFieldRules, y \in IstioFiles(r) :
          IstioFails(rule, y, a) /\ g = Found(rule, <<y>>, "amber")
    BY <1>9, <1>12 DEF IstioHit
  <2>2. y \in Meshed(r)
    BY DEF IstioFiles
  <2> QED BY <1>11, <2>1, <2>2 DEF IstioHit
<1>13. ASSUME NEW g, TrafficHit(g, a) PROVE TrafficHit(g, r)
  <2>1. MeshResources(a) = MeshResources(r)
    BY <1>6, <1>7 DEF MeshResources
  <2>2. PICK p \in MeshResources(r) :
          \/ /\ Shifting(ResourceAt(p, a)) /\ ~ ShiftsGradually(ResourceAt(p, a))
             /\ g = Found("PATCH-TRAFFIC-001", p, "amber")
          \/ /\ ResourceAt(p, a).kind = "DestinationRule" /\ ~ ResourceAt(p, a).connectionPool
             /\ g = Found("PATCH-TRAFFIC-003", p, "amber")
    BY <1>13, <2>1 DEF TrafficHit
  <2>3. ResourceAt(p, a) = ResourceAt(p, r) \/ NoWorse(ResourceAt(p, a), ResourceAt(p, r))
    BY <1>7 DEF ResourceAt, MeshResources
  <2>4. \/ /\ Shifting(ResourceAt(p, r)) /\ ~ ShiftsGradually(ResourceAt(p, r))
           /\ g = Found("PATCH-TRAFFIC-001", p, "amber")
        \/ /\ ResourceAt(p, r).kind = "DestinationRule" /\ ~ ResourceAt(p, r).connectionPool
           /\ g = Found("PATCH-TRAFFIC-003", p, "amber")
    BY <2>2, <2>3 DEF NoWorse
  <2> QED BY <2>4 DEF TrafficHit
<1> QED BY <1>3, <1>6, <1>8, <1>9, <1>10, <1>12, <1>13

LEMMA IstioAdviceSound ==
  ASSUME NEW r \in Repository, NEW h, IstioHit(h, r), NEW a \in Followed(h, r)
  PROVE  Sound(h, r, a)
<1>1. PICK rule \in IstioFieldRules, f \in IstioFiles(r) : h = Found(rule, <<f>>, "amber")
  BY DEF IstioHit
<1>2. h.rule = rule /\ h.place[1] = f /\ f \in Meshed(r)
  BY <1>1 DEF Found, IstioFiles
<1>3. PICK x \in Named("DestinationRule", f, r) :
        a = [r EXCEPT !.mesh[f].resources[x] = AmendedResources(rule, @)]
  BY <1>1, <1>2 DEF Followed, FollowedInMesh, ManifestRules, WorkloadFieldRules, DockerfileRules,
                    IstioFieldRules
<1> DEFINE old == r.mesh[f].resources[x]
           e == AmendedResources(rule, old)
<1>4. /\ x \in DOMAIN r.mesh[f].resources /\ old.kind = "DestinationRule" /\ old \in Resource
  BY <1>2, <1>3, MeshedTyped DEF Named
<1>5. a = WithResource(r, f, x, e)
  BY <1>2, <1>3, <1>4, MeshedTyped DEF WithResource, WithMesh, Repository, MeshFile
<1>6. /\ e \in Resource /\ NoWorse(e, old)
      /\ rule = "istio-circuit-breaker" => e.outlierDetection
  BY <1>4, AmendedResourceTyped, AmendedResourceNoWorse
<1> HIDE DEF e
<1>7. /\ Hits(a) \subseteq Hits(r) /\ a.mesh[f].resources[x] = e
      /\ Named("DestinationRule", f, a) = Named("DestinationRule", f, r)
  BY <1>2, <1>4, <1>5, <1>6, ReplacedResource
<1>8. ASSUME rule = "istio-circuit-breaker" PROVE h \notin Hits(a)
  <2>1. ~ IstioFails("istio-circuit-breaker", f, a)
    BY <1>3, <1>6, <1>7, <1>8 DEF IstioFails
  <2>2. ASSUME NEW other, NEW y, h = Found(other, <<y>>, "amber")
        PROVE  other = "istio-circuit-breaker" /\ y = f
    <3>1. <<y>> = <<f>>
      BY <1>1, <2>2 DEF Found
    <3> QED BY <1>1, <1>8, <2>2, <3>1 DEF Found
  <2>3. ~ IstioHit(h, a)
    BY <2>1, <2>2 DEF IstioHit
  <2> QED BY <1>2, <1>8, <2>3, HitsAre, HitRules DEF WorkloadFieldRules, DockerfileRules
<1> QED BY <1>2, <1>7, <1>8 DEF Sound, TakeSeveralSteps, IstioFieldRules

LEMMA TrafficAdviceSound ==
  ASSUME NEW r \in Repository, NEW h, TrafficHit(h, r), NEW a \in Followed(h, r)
  PROVE  Sound(h, r, a)
<1>1. PICK p \in MeshResources(r) :
        \/ h = Found("PATCH-TRAFFIC-001", p, "amber")
        \/ h = Found("PATCH-TRAFFIC-003", p, "amber")
  BY DEF TrafficHit
<1>2. PICK f \in Meshed(r), x \in Resources :
        p = <<f, x>> /\ x \in DOMAIN r.mesh[f].resources
  BY DEF MeshResources
<1>3. /\ h.rule \in {"PATCH-TRAFFIC-001", "PATCH-TRAFFIC-003"}
      /\ h.place = p /\ h.place[1] = f /\ h.place[2] = x
  BY <1>1, <1>2 DEF Found
<1>4. a = [r EXCEPT !.mesh[f].resources[x] = AmendedResources(h.rule, @)]
  BY <1>3 DEF Followed, FollowedInMesh, ManifestRules, WorkloadFieldRules, DockerfileRules,
              IstioFieldRules
<1> DEFINE old == r.mesh[f].resources[x]
           e == AmendedResources(h.rule, old)
<1>5. old \in Resource /\ f \in MeshFiles /\ r.mesh[f] \in MeshFile
  BY <1>2, MeshedTyped
<1>6. a = WithResource(r, f, x, e)
  BY <1>4, <1>5 DEF WithResource, WithMesh, Repository, MeshFile
<1>7. /\ e \in Resource /\ NoWorse(e, old)
      /\ e.kind = "DestinationRule" => e.connectionPool
      /\ Shifting(e) => ShiftsGradually(e)
  BY <1>3, <1>5, AmendedResourceTyped, AmendedResourceNoWorse
<1> HIDE DEF e
<1>8. Hits(a) \subseteq Hits(r) /\ a.mesh[f].resources[x] = e
  BY <1>2, <1>6, <1>7, ReplacedResource
<1>9. ~ TrafficHit(h, a)
  <2>1. ResourceAt(p, a) = e
    BY <1>2, <1>8 DEF ResourceAt
  <2>2. ASSUME NEW q, h = Found("PATCH-TRAFFIC-001", q, "amber")
                        \/ h = Found("PATCH-TRAFFIC-003", q, "amber")
        PROVE  q = p
    BY <1>3, <2>2 DEF Found
  <2> QED BY <1>7, <2>1, <2>2 DEF TrafficHit
<1>10. h \notin Hits(a)
  BY <1>3, <1>9, HitsAre, HitRules DEF WorkloadFieldRules, DockerfileRules, IstioFieldRules
<1> QED BY <1>8, <1>10 DEF Sound

-----------------------------------------------------------------------------
\* All of them.
LEMMA EveryAdviceSound ==
  ASSUME NEW r \in Repository, NEW h \in Hits(r), NEW a \in Followed(h, r)
  PROVE  Sound(h, r, a)
<1>1. CASE WorkloadHit(h, r.k8s)
  <2>1. PICK rule \in WorkloadFieldRules, n \in Collected(r.k8s) :
          h \in HitsOf(rule, n, r.k8s.workloads[n])
    BY <1>1 DEF WorkloadHit
  <2>2. h.rule \in ManifestRules
    BY <1>1, HitRules DEF ManifestRules
  <2>3. PICK b \in FollowedInManifests(h, r.k8s) : a = [r EXCEPT !.k8s = b]
    BY <2>2 DEF Followed, ManifestRules, WorkloadFieldRules, DockerfileRules, IstioFieldRules
  <2> QED BY <2>1, <2>3, WorkloadAdviceSound
<1>2. CASE PolicyHit(h, r.k8s) \/ BudgetHit(h, r.k8s)
  <2>1. h.rule \in ManifestRules
    BY <1>2, HitRules DEF ManifestRules
  <2>2. PICK b \in FollowedInManifests(h, r.k8s) : a = [r EXCEPT !.k8s = b]
    BY <2>1 DEF Followed, ManifestRules, WorkloadFieldRules, DockerfileRules, IstioFieldRules
  <2> QED BY <1>2, <2>2, BudgetAdviceSound
<1>3. CASE DeclarationHit(h, r.k8s) \/ SharedFateHit(h, r.k8s) \/ CrossRingHit(h, r.k8s)
  BY <1>3, DeclarationAdviceSound, SharedFateAdviceSound, CrossRingAdviceSound
<1>4. CASE DocumentHit(h, r) \/ DockerfileHit(h, r) \/ DriftHit(h, r) \/ ConflictHit(h, r)
  BY <1>4, DocumentAdviceSound, DockerfileAdviceSound, DriftAdviceSound, ConflictAdviceSound
<1>5. CASE IstioHit(h, r) \/ MtlsHit(h, r) \/ TrafficHit(h, r)
  BY <1>5, IstioAdviceSound, MtlsAdviceSound, TrafficAdviceSound
<1> QED BY <1>1, <1>2, <1>3, <1>4, <1>5, HitsAre

\* The rules in an order along which Provokes goes down, but for three rules whose
\* advice may move a hit to another place: a shared pool, a ring, a root user.
Rank(rule) ==
  IF rule = "PATCH-ARCH-001" THEN 3
  ELSE IF rule \in {"probes-missing", "PATCH-HEALTH-001", "dockerfile-multistage"} THEN 2
  ELSE IF rule \in {"PATCH-HEALTH-002", "dockerfile-base-pinning", "dockerfile-user-directive"}
  THEN 1 ELSE 0

MovesHits == {"PATCH-DEPS-002", "PATCH-DEPS-003", "dockerfile-k8s-user-conflict"}

LEMMA ProvokesGoesDown ==
  \A rule, other : <<rule, other>> \in Provokes =>
    \/ Rank(other) < Rank(rule)
    \/ rule = other /\ rule \in MovesHits
BY ProvokesAre DEF Rank, MovesHits

\* Following a recommendation clears its hit or takes several steps, and brings hits
\* of none but the rules it may bring: no two rules contradict each other.
THEOREM AdviceSound == Spec => AdviceIsSound
<1>1. ASSUME TypeOK, [Next]_vars
      PROVE  UNCHANGED edits =>
               LET before == Hits(repository)
                   after == Hits(repository')
               IN  \A h \in before : FollowAdvice(h) =>
                     /\ h \in after => h.rule \in TakeSeveralSteps
                     /\ \A g \in after \ before : <<h.rule, g.rule>> \in Provokes
  <2>1. ASSUME NEW h \in Hits(repository), FollowAdvice(h) PROVE Sound(h, repository, repository')
    BY <1>1, <2>1, EveryAdviceSound DEF TypeOK, FollowAdvice
  <2> QED BY <2>1 DEF Sound
<1> QED BY <1>1, TypeCorrect, PTL DEF Spec, AdviceIsSound

\* The hits of the rules that rank as high as this one, or higher.
HitsFrom(rank, r) == {g \in Hits(r) : Rank(g.rule) >= rank}

\* Following a recommendation brings no hit of a rule that ranks as high as its own, and
\* takes its own hit away; only rules that take several steps may keep it, and only
\* those that move hits may bring others, of the same rule.  So advice leads back to a
\* rule by way of no other: counted from the highest rank down, hits become fewer.
\* (What the 29 rules check, and what their recommendations say.)
AdviceGoesDown ==
  [][UNCHANGED edits =>
     \A h \in Hits(repository) : FollowAdvice(h) =>
       LET before == HitsFrom(Rank(h.rule), repository)
           after == HitsFrom(Rank(h.rule), repository')
       IN  /\ h.rule \notin TakeSeveralSteps => after \subseteq before \ {h}
           /\ \A g \in after \ before : g.rule = h.rule /\ g.rule \in MovesHits]_vars

THEOREM AdviceLeadsNowhereBack == Spec => AdviceGoesDown
<1>1. ASSUME TypeOK, [Next]_vars
      PROVE  UNCHANGED edits =>
               \A h \in Hits(repository) : FollowAdvice(h) =>
                 LET before == HitsFrom(Rank(h.rule), repository)
                     after == HitsFrom(Rank(h.rule), repository')
                 IN  /\ h.rule \notin TakeSeveralSteps => after \subseteq before \ {h}
                     /\ \A g \in after \ before : g.rule = h.rule /\ g.rule \in MovesHits
  <2> SUFFICES ASSUME NEW h \in Hits(repository), FollowAdvice(h)
               PROVE  LET before == HitsFrom(Rank(h.rule), repository)
                          after == HitsFrom(Rank(h.rule), repository')
                      IN  /\ h.rule \notin TakeSeveralSteps => after \subseteq before \ {h}
                          /\ \A g \in after \ before :
                               g.rule = h.rule /\ g.rule \in MovesHits
    OBVIOUS
  <2>1. Sound(h, repository, repository')
    BY <1>1, EveryAdviceSound DEF TypeOK, FollowAdvice
  <2>2. ASSUME NEW g \in HitsFrom(Rank(h.rule), repository'),
               g \notin HitsFrom(Rank(h.rule), repository)
        PROVE  g.rule = h.rule /\ g.rule \in MovesHits
    <3>1. g \in Hits(repository') /\ Rank(g.rule) >= Rank(h.rule) /\ g \notin Hits(repository)
      BY <2>2 DEF HitsFrom
    <3>2. <<h.rule, g.rule>> \in Provokes
      BY <2>1, <3>1 DEF Sound
    <3>3. Rank(g.rule) \in Nat /\ Rank(h.rule) \in Nat
      BY DEF Rank
    <3> QED BY <3>1, <3>2, <3>3, ProvokesGoesDown
  <2>3. MovesHits \subseteq TakeSeveralSteps
    BY DEF MovesHits, TakeSeveralSteps
  <2>4. h \in Hits(repository') => h.rule \in TakeSeveralSteps
    BY <2>1 DEF Sound
  <2> QED BY <2>2, <2>3, <2>4 DEF HitsFrom
<1> QED BY <1>1, TypeCorrect, PTL DEF Spec, AdviceGoesDown
=============================================================================
