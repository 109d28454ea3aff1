-------------------------- MODULE DeliveryRules ---------------------------
(***************************************************************************)
(* The rules that relate workloads to each other, to the images they run   *)
(* and to the documents about them, and those about the service mesh (in   *)
(* src/nfr_review/rules: patch_deps, patch_rollback_docs, patch_traffic,   *)
(* the dockerfile and istio rules), and with those of K8sRules all         *)
(* findings in a repository.                                               *)
(***************************************************************************)
EXTENDS K8sRules

CONSTANTS
  Dockerfiles, MeshFiles,  \* names of files
  Resources,               \* names of mesh resources
  FloatingTags,
  Documents,               \* the files and directories at the root a team writes
  Position                 \* the order in which files are collected

\* The final stage is the last one.  Directives that copy or name a secret
\* stand below the stages.
Stage == [image : Images \cup {"scratch", "earlier stage"}, tag : Tags \cup {None},
          digest : BOOLEAN]
Dockerfile == [stages : Seq(Stage) \ {<< >>}, users : SUBSET {"root", "nonroot"},
               runs : BOOLEAN, secrets : Nat]

Resource ==
  [kind : {"DestinationRule"}, connectionPool : BOOLEAN, outlierDetection : BOOLEAN]
    \cup [kind : {"VirtualService"}, weighted : BOOLEAN]
    \cup [kind : {"Rollout"}, canary : BOOLEAN, steps : BOOLEAN]
MeshFile == [mtls : {"STRICT", "PERMISSIVE", None},  \* of its PeerAuthentication
             resources : UNION {[R -> Resource] : R \in SUBSET Resources}]

\* A mesh file that is no YAML counts as absent.
Repository == [k8s : Manifests, dockerfiles : [Dockerfiles -> Dockerfile \cup {None}],
               mesh : [MeshFiles -> MeshFile \cup {None}], documents : SUBSET Documents]

ASSUME DeliveryRulesAssumption ==
  /\ FloatingTags \subseteq Tags
  /\ Position \in [Names \cup MeshFiles -> Nat]
  /\ None \notin {"STRICT", "PERMISSIVE"}
  /\ None \notin Dockerfile \cup MeshFile
  /\ {"project-wide", "all-workloads", "all-artifacts", "."} \cap (Dockerfiles \cup MeshFiles) = {}

First(S) == CHOOSE f \in S : \A g \in S : Position[f] <= Position[g]

DockerfileRules == {"dockerfile-base-pinning", "dockerfile-multistage",
                    "dockerfile-secret-leakage", "dockerfile-user-directive"}
IstioFieldRules == {"istio-circuit-breaker", "istio-traffic-policy"}
Rules ==
  ManifestRules \cup DockerfileRules \cup IstioFieldRules
    \cup {"PATCH-DEPS-001", "PATCH-DEPS-002", "PATCH-DEPS-003", "PATCH-ROLL-001",
          "PATCH-TRAFFIC-001", "PATCH-TRAFFIC-002", "PATCH-TRAFFIC-003",
          "dockerfile-k8s-image-drift", "dockerfile-k8s-user-conflict", "istio-mtls-strict"}

Places ==
  ManifestPlaces \cup {<<"repo-root">>, <<"all-artifacts">>}
    \cup {<<f>> : f \in Dockerfiles \cup MeshFiles \cup Documents}
    \cup (Dockerfiles \X Nat) \cup (MeshFiles \X Resources)

(***************************************************************************)
(* Workloads and what they depend on.                                      *)
(***************************************************************************)
OrGreen(rule, place, hits) == IF hits = {} THEN {Found(rule, place, "green")} ELSE hits

DeclarationFindings(m) ==
  OrGreen("PATCH-DEPS-001", <<".">>,
          {Found("PATCH-DEPS-001", <<n>>,
                 IF m.workloads[n].annotated THEN "green" ELSE "amber") : n \in Collected(m)})

SamePool(pool, m) == {n \in Collected(m) : m.workloads[n].node_selector = pool}
UsersOf(host, m) == {n \in Collected(m) : m.workloads[n].databases[host] > 0}
SharedPools(m) == {pool \in Pools : \E a, b \in SamePool(pool, m) : a # b}
\* Two entries of one workload are enough.
SharedHosts(m) ==
  {host \in Hosts : \E a, b \in UsersOf(host, m) : a # b \/ m.workloads[a].databases[host] > 1}

SharedFateFindings(m) ==
  OrGreen("PATCH-DEPS-002", <<".">>,
          {Found("PATCH-DEPS-002", <<First(SamePool(pool, m))>>, "amber") : pool \in SharedPools(m)}
            \cup {Found("PATCH-DEPS-002", <<First(UsersOf(host, m))>>, "amber") :
                    host \in SharedHosts(m)})

Ringed(m) == {n \in Collected(m) : m.workloads[n].ring # None}
LowerRing(n, m) ==
  {t \in m.workloads[n].calls \cap Ringed(m) : m.workloads[n].ring > m.workloads[t].ring}
CrossRingFindings(m) ==
  OrGreen("PATCH-DEPS-003", <<".">>,
          {Found("PATCH-DEPS-003", <<n>>, "amber") : n \in {n \in Ringed(m) : LowerRing(n, m) # {}}})

\* Here, too, all-clears stand at the place of the hit.
RollbackDocuments ==
  {"rollback.md", "disaster-recovery.md", "runbooks", "rollback", "disaster-recovery"}
FailoverDocuments ==
  {"failover.md", "disaster-recovery.md", "dr-runbook.md", "failover-runbook.md",
   "failover", "disaster-recovery", "dr-runbooks"}
DocumentFindings(rule, wanted, r) ==
  IF Collected(r.k8s) = {} THEN {Found(rule, <<"repo-root">>, "green")}
  ELSE IF wanted \cap r.documents = {} THEN {Found(rule, <<"repo-root">>, "amber")}
  ELSE {Found(rule, <<d>>, "green") : d \in wanted \cap r.documents}

(***************************************************************************)
(* Dockerfiles, and the images workloads run.                              *)
(***************************************************************************)
Built(r) == {f \in Dockerfiles : r.dockerfiles[f] # None}

Floating(stage) ==
  stage.image # "scratch" /\ ~ stage.digest /\ stage.tag \in FloatingTags \cup {None}
DockerfileFails(rule, d) ==
  \/ rule = "dockerfile-multistage" /\ Len(d.stages) <= 1 /\ d.runs
  \/ rule = "dockerfile-user-directive" /\ d.users = {}

DockerfileHits(rule, f, d) ==
  {Found(rule, <<f, i>>, "amber") :
      i \in {i \in 1 .. Len(d.stages) : rule = "dockerfile-base-pinning" /\ Floating(d.stages[i])}}
    \cup {Found(rule, <<f, Len(d.stages) + i>>, "red") :
            i \in {i \in 1 .. d.secrets : rule = "dockerfile-secret-leakage"}}
    \cup {Found(rule, place, "amber") : place \in {p \in {<<f>>} : DockerfileFails(rule, d)}}
DockerfileFindings(rule, r) ==
  Judged(rule, Built(r), UNION {DockerfileHits(rule, f, r.dockerfiles[f]) : f \in Built(r)})

\* The tags that Dockerfiles have for the image of a container, its own excluded.
FinalStages(r) == {r.dockerfiles[f].stages[Len(r.dockerfiles[f].stages)] : f \in Built(r)}
TagsOf(image, r) == {s.tag : s \in {s \in FinalStages(r) : s.image = image}} \ {None}
OtherTags(c, r) == IF c.tag = None THEN {} ELSE TagsOf(c.image, r) \ {c.tag}

Running(m) ==
  {p \in Collected(m) \X Containers : p[2] \in DOMAIN m.workloads[p[1]].containers}
ContainerAt(p, m) == m.workloads[p[1]].containers[p[2]]

ImageDriftFindings(r) ==
  IF Built(r) = {} \/ Collected(r.k8s) = {} THEN {}
  ELSE OrGreen("dockerfile-k8s-image-drift", <<"all-artifacts">>,
               {Found("dockerfile-k8s-image-drift", p, "amber") :
                   p \in {p \in Running(r.k8s) : OtherTags(ContainerAt(p, r.k8s), r) # {}}})

\* A root pod hides the root containers in it.
NonRoot(r) == {f \in Built(r) : "nonroot" \in r.dockerfiles[f].users}
RootPods(m) == {n \in Collected(m) : m.workloads[n].root}
RootContainers(m) ==
  {p \in Running(m) : p[1] \notin RootPods(m) /\ ContainerAt(p, m).root}
UserConflictFindings(r) ==
  IF Built(r) = {} \/ Collected(r.k8s) = {} THEN {}
  ELSE IF NonRoot(r) = {}
  THEN {Found("dockerfile-k8s-user-conflict", <<"all-artifacts">>, "green")}
  ELSE OrGreen("dockerfile-k8s-user-conflict", <<"all-workloads">>,
               {Found("dockerfile-k8s-user-conflict", place, "red") :
                   place \in {<<n>> : n \in RootPods(r.k8s)} \cup RootContainers(r.k8s)})

(***************************************************************************)
(* The service mesh.  Two collectors read it, with a summary of their own. *)
(***************************************************************************)
Meshed(r) == {f \in MeshFiles : r.mesh[f] # None}
Named(kind, f, r) == {x \in DOMAIN r.mesh[f].resources : r.mesh[f].resources[x].kind = kind}
IstioFiles(r) ==
  {f \in Meshed(r) : \/ r.mesh[f].mtls # None
                     \/ Named("DestinationRule", f, r) \cup Named("VirtualService", f, r) # {}}

MtlsFindings(r) ==
  {Found("istio-mtls-strict", <<First(IstioFiles(r))>>,
         IF \E f \in IstioFiles(r) : r.mesh[f].mtls = "STRICT" THEN "green" ELSE "red") :
      x \in {x \in {0} : IstioFiles(r) # {}}}

IstioFails(rule, f, r) ==
  LET rules == {r.mesh[f].resources[x] : x \in Named("DestinationRule", f, r)}
  IN  \/ /\ rule = "istio-circuit-breaker" /\ rules # {}
         /\ \A x \in rules : ~ x.outlierDetection
      \/ rule = "istio-traffic-policy" /\ \E x \in rules : ~ x.connectionPool
IstioFindings(rule, r) ==
  IF \A f \in IstioFiles(r) : Named("DestinationRule", f, r) = {} THEN {}
  ELSE Judged(rule, IstioFiles(r),
              {Found(rule, <<f>>, "amber") : f \in {f \in IstioFiles(r) : IstioFails(rule, f, r)}})

MeshResources(r) ==
  {p \in Meshed(r) \X Resources : p[2] \in DOMAIN r.mesh[p[1]].resources}
ResourceAt(p, r) == r.mesh[p[1]].resources[p[2]]

Shifting(x) == x.kind = "VirtualService" \/ (x.kind = "Rollout" /\ x.canary)
ShiftsGradually(x) == IF x.kind = "VirtualService" THEN x.weighted ELSE x.steps
TrafficShiftingFindings(r) ==
  OrGreen("PATCH-TRAFFIC-001", <<".">>,
          {Found("PATCH-TRAFFIC-001", p, IF ShiftsGradually(ResourceAt(p, r)) THEN "green" ELSE "amber") :
              p \in {p \in MeshResources(r) : Shifting(ResourceAt(p, r))}})

ConnectionDrainingFindings(r) ==
  OrGreen("PATCH-TRAFFIC-003", <<".">>,
          {Found("PATCH-TRAFFIC-003", p, IF ResourceAt(p, r).connectionPool THEN "green" ELSE "amber") :
              p \in {p \in MeshResources(r) : ResourceAt(p, r).kind = "DestinationRule"}})

Findings(r) ==
  ManifestFindings(r.k8s)
    \cup DeclarationFindings(r.k8s) \cup SharedFateFindings(r.k8s) \cup CrossRingFindings(r.k8s)
    \cup DocumentFindings("PATCH-ROLL-001", RollbackDocuments, r)
    \cup DocumentFindings("PATCH-TRAFFIC-002", FailoverDocuments, r)
    \cup (UNION {DockerfileFindings(rule, r) : rule \in DockerfileRules})
    \cup ImageDriftFindings(r) \cup UserConflictFindings(r)
    \cup (UNION {IstioFindings(rule, r) : rule \in IstioFieldRules})
    \cup MtlsFindings(r) \cup TrafficShiftingFindings(r) \cup ConnectionDrainingFindings(r)
Hits(r) == {f \in Findings(r) : f.rag # "green"}

\* The rules whose all-clears stand where their hits would.
AllClearsInPlace ==
  {"PATCH-ARCH-004", "PATCH-DEPS-001", "PATCH-ROLL-001", "PATCH-TRAFFIC-001",
   "PATCH-TRAFFIC-002", "PATCH-TRAFFIC-003", "istio-mtls-strict"}

(***************************************************************************)
(* What the recommendations ask for.                                       *)
(***************************************************************************)
\* No version can be set for an earlier stage.
PinnedStages(stage) ==
  IF stage.image = "earlier stage" THEN {}
  ELSE {[stage EXCEPT !.digest = TRUE]}
         \cup {[stage EXCEPT !.tag = t] : t \in Tags \ FloatingTags}

AmendedDockerfiles(hit, d) ==
  CASE hit.rule = "dockerfile-base-pinning" ->
         {[d EXCEPT !.stages[hit.place[2]] = s] : s \in PinnedStages(d.stages[hit.place[2]])}
    [] hit.rule = "dockerfile-secret-leakage" -> {[d EXCEPT !.secrets = @ - 1]}
    [] hit.rule = "dockerfile-multistage" -> {[d EXCEPT !.stages = <<Head(@)>> \o @]}
    [] hit.rule = "dockerfile-user-directive" -> {[d EXCEPT !.users = {"nonroot"}]}

AmendedResources(rule, x) ==
  IF rule = "istio-circuit-breaker" THEN [x EXCEPT !.outlierDetection = TRUE]
  ELSE IF x.kind = "DestinationRule" THEN [x EXCEPT !.connectionPool = TRUE]
  ELSE IF x.kind = "VirtualService" THEN [x EXCEPT !.weighted = TRUE]
  ELSE [x EXCEPT !.steps = TRUE]

FollowedInMesh(hit, r) ==
  CASE hit.rule = "istio-mtls-strict" ->
         {[r EXCEPT !.mesh[f].mtls = "STRICT"] : f \in Meshed(r)}
    [] hit.rule \in IstioFieldRules ->
         {[r EXCEPT !.mesh[hit.place[1]].resources[x] = AmendedResources(hit.rule, @)] :
             x \in Named("DestinationRule", hit.place[1], r)}
    [] OTHER ->
         {[r EXCEPT !.mesh[hit.place[1]].resources[hit.place[2]] = AmendedResources(hit.rule, @)]}

\* Into a pool that nobody is in.  (Anti-affinity and documentation, which are
\* recommended too, do not show in what the rule reads.)
Spread(pool, m) ==
  {[m EXCEPT !.workloads[n].node_selector = p] :
      n \in SamePool(pool, m), p \in {p \in Pools : SamePool(p, m) = {}}}

\* The callee moves up, or the calls turn round.
AmendedRings(n, m) ==
  UNION {{[m EXCEPT !.workloads[t].ring = m.workloads[n].ring],
          [m EXCEPT !.workloads[n].calls = @ \ {t}, !.workloads[t].calls = @ \cup {n}]} :
           t \in LowerRing(n, m)}

\* The manifests follow the Dockerfiles.
AmendedTags(n, c, r) ==
  {[r.k8s EXCEPT !.workloads[n].containers[c].tag = t] :
      t \in OtherTags(r.k8s.workloads[n].containers[c], r)}

WithoutRoot(place, m) ==
  IF Len(place) = 2 THEN [m EXCEPT !.workloads[place[1]].containers[place[2]].root = FALSE]
  ELSE [m EXCEPT !.workloads[place[1]].root = FALSE]

FollowedInDependencies(hit, r) ==
  LET n == hit.place[1]
      m == r.k8s
  IN  CASE hit.rule = "PATCH-DEPS-001" -> {[m EXCEPT !.workloads[n].annotated = TRUE]}
        [] hit.rule = "PATCH-DEPS-002" ->
             IF m.workloads[n].node_selector \in SharedPools(m)
             THEN Spread(m.workloads[n].node_selector, m) ELSE {}
        [] hit.rule = "PATCH-DEPS-003" -> AmendedRings(n, m)
        [] hit.rule = "dockerfile-k8s-image-drift" -> AmendedTags(n, hit.place[2], r)
        [] hit.rule = "dockerfile-k8s-user-conflict" -> {WithoutRoot(hit.place, m)}

Followed(hit, r) ==
  CASE hit.rule \in ManifestRules -> {[r EXCEPT !.k8s = m] : m \in FollowedInManifests(hit, r.k8s)}
    [] hit.rule \in DockerfileRules ->
         {[r EXCEPT !.dockerfiles[hit.place[1]] = d] :
             d \in AmendedDockerfiles(hit, r.dockerfiles[hit.place[1]])}
    [] hit.rule = "PATCH-ROLL-001" ->
         {[r EXCEPT !.documents = @ \cup {d}] : d \in Documents \cap RollbackDocuments}
    [] hit.rule = "PATCH-TRAFFIC-002" ->
         {[r EXCEPT !.documents = @ \cup {d}] : d \in Documents \cap FailoverDocuments}
    [] hit.rule \in IstioFieldRules
                      \cup {"istio-mtls-strict", "PATCH-TRAFFIC-001", "PATCH-TRAFFIC-003"} ->
         FollowedInMesh(hit, r)
    [] OTHER ->
         {[r EXCEPT !.k8s = m] : m \in FollowedInDependencies(hit, r)}
           \cup {[r EXCEPT !.dockerfiles[f].users = {"root"}] :
                   f \in {f \in NonRoot(r) : hit.rule = "dockerfile-k8s-user-conflict"}}
=============================================================================
