----------------------------- MODULE K8sRules -----------------------------
(***************************************************************************)
(* The rules about single workloads and their budgets and policies         *)
(* (src/nfr_review/rules: k8s_*, patch_arch_*, patch_health_*,             *)
(* health_probe_separation), what they find in the manifests the collector *)
(* could read, and what their recommendations ask for.                     *)
(*                                                                         *)
(* A workload stands in a file of its own and its name stands for          *)
(* `<file>:<name>`.  Disruption budgets and network policies stand in      *)
(* other files.                                                            *)
(***************************************************************************)
EXTENDS Naturals, Sequences

CONSTANTS
  Names,       \* of workloads
  Containers,  \* names of containers
  Namespaces,
  Labels,      \* key-value pairs
  Images, Tags,
  Pools,       \* of nodes
  Hosts,       \* of databases
  Probes,      \* the probes a team writes when it is asked for one
  None         \* not in the manifest

Probe == [handler : {"httpGet", "tcpSocket"}, endpoint : {"health", "ready", "live"},
          hasty : BOOLEAN,     \* initialDelaySeconds and periodSeconds below 5
          fragile : BOOLEAN]   \* failureThreshold 1

Container == [limits : BOOLEAN, runAsNonRoot : BOOLEAN, startup_probe : BOOLEAN,
              pre_stop : BOOLEAN, liveness_probe : Probe \cup {None},
              readiness_probe : Probe \cup {None},
              image : Images \cup {None}, tag : Tags \cup {None},
              root : BOOLEAN]      \* runAsUser 0

\* maxUnavailable is a percentage or a number of pods.
Strategy == [type : {"RollingUpdate", "Recreate", "OnDelete", "unset"},
             maxUnavailable : [percent : BOOLEAN, value : Nat] \cup {None}]

Workload == [kind : {"Deployment", "StatefulSet", "DaemonSet", "Pod"},
             namespace : Namespaces, labels : SUBSET Labels,
             replicas : Nat \cup {None}, strategy : Strategy \cup {None},
             termination_grace_period : Nat \cup {None},
             root : BOOLEAN,                   \* runAsUser 0 for the whole pod
             annotated : BOOLEAN,              \* with what it depends on
             node_selector : Pools \cup {None},
             databases : [Hosts -> Nat],       \* environment entries that name it
             calls : SUBSET Names,             \* services that entries name
             ring : Nat \cup {None},
             containers : UNION {[C -> Container] : C \in SUBSET Containers}]

Pdb == [namespace : Namespaces, match_labels : SUBSET Labels]

Manifests == [workloads : [Names -> Workload \cup {None}],
              malformed : SUBSET Names,  \* workloads whose file is no YAML
              pdbs : SUBSET Pdb, network_policy : BOOLEAN]

ASSUME K8sRulesAssumption ==
  /\ Probes \subseteq Probe /\ Probes # {}
  /\ None \notin Probe \cup Strategy \cup Workload \cup Nat \cup Images \cup Tags \cup Pools
  /\ None \notin [percent : BOOLEAN, value : Nat]
  /\ {"project-wide", "all-workloads", "all-artifacts", "."} \cap (Names \cup Containers) = {}

\* A file that cannot be parsed is passed over.
Collected(m) == {n \in Names : m.workloads[n] # None /\ n \notin m.malformed}

(***************************************************************************)
(* Findings.  A place is an evidence locator.                              *)
(***************************************************************************)
WorkloadFieldRules ==
  {"resource-limits-missing", "non-root-container-violation", "probes-missing",
   "health-probe-separation", "PATCH-HEALTH-001", "PATCH-HEALTH-002", "PATCH-HEALTH-003",
   "PATCH-HEALTH-004", "PATCH-ARCH-001", "PATCH-ARCH-002", "PATCH-ARCH-003"}
ManifestRules == WorkloadFieldRules \cup {"PATCH-ARCH-004", "network-policy-missing"}

ManifestPlaces == {<<"project-wide">>, <<"all-workloads">>, <<".">>}
                    \cup {<<n>> : n \in Names} \cup (Names \X Containers)

HasReplicas(w) == w.kind \in {"Deployment", "StatefulSet"}
MultiReplica(w) == w.replicas # None /\ w.replicas > 1

\* Containers.
LimitsMissing(c) == ~ c.limits
MayRunAsRoot(c) == ~ c.runAsNonRoot
PreStopMissing(c) == ~ c.pre_stop
ProbeMissing(c) == c.liveness_probe = None \/ c.readiness_probe = None
ProbesAlike(c) ==  \* mutant: timings apart, they are the same request
  ~ ProbeMissing(c) /\ c.liveness_probe.handler = c.readiness_probe.handler
ProbesIdentical(c) == ~ ProbeMissing(c) /\ c.liveness_probe = c.readiness_probe
TcpOnly(c) == c.readiness_probe.handler = "tcpSocket"
TrivialProbe(c) ==
  /\ c.readiness_probe # None
  /\ TcpOnly(c) \/ c.readiness_probe.hasty \/ c.readiness_probe.fragile

ReadinessMissing(w, c) == HasReplicas(w) /\ c.readiness_probe = None
StartupMissing(w, c) == HasReplicas(w) /\ MultiReplica(w) /\ ~ c.startup_probe

\* Shutdown.
MinGracePeriod == 30
GracePeriodOver(w) ==  \* mutant: off by one
  w.termination_grace_period = None \/ w.termination_grace_period <= MinGracePeriod
GracePeriodShort(w) ==
  w.termination_grace_period = None \/ w.termination_grace_period < MinGracePeriod
GracePeriod(w) ==
  IF w.termination_grace_period = None THEN MinGracePeriod
  ELSE w.termination_grace_period
NoPreStop(w) == \A c \in DOMAIN w.containers : ~ w.containers[c].pre_stop
TerminationUnsafe(w) ==
  \/ GracePeriod(w) < MinGracePeriod
  \/ GracePeriod(w) = MinGracePeriod /\ NoPreStop(w)

\* Replicas and updates.
Singleton(w) == HasReplicas(w) /\ (w.replicas = None \/ w.replicas = 1)
MaxUnavailableIsSafe(u) ==
  u = None \/ u.value <= IF u.percent THEN 25 ELSE 1
UpdateUnsafe(w) ==
  \/ HasReplicas(w) /\ w.strategy = None
  \/ /\ w.kind = "Deployment" /\ w.strategy # None
     /\ \/ w.strategy.type = "Recreate"
        \/ w.strategy.type = "RollingUpdate" /\ ~ MaxUnavailableIsSafe(w.strategy.maxUnavailable)
  \/ w.kind = "StatefulSet" /\ w.strategy # None /\ w.strategy.type = "OnDelete"

ContainerFails(rule, w, c) ==
  \/ rule = "resource-limits-missing" /\ LimitsMissing(c)
  \/ rule = "non-root-container-violation" /\ MayRunAsRoot(c)
  \/ rule = "probes-missing" /\ ProbeMissing(c)
  \/ rule = "health-probe-separation" /\ ProbesIdentical(c)
  \/ rule = "PATCH-HEALTH-001" /\ ReadinessMissing(w, c)
  \/ rule = "PATCH-HEALTH-002" /\ TrivialProbe(c)
  \/ rule = "PATCH-HEALTH-003" /\ StartupMissing(w, c)
  \/ rule = "PATCH-ARCH-002" /\ PreStopMissing(c)

WorkloadFails(rule, w) ==
  \/ rule = "PATCH-ARCH-001" /\ Singleton(w)
  \/ rule = "PATCH-ARCH-002" /\ GracePeriodShort(w)
  \/ rule = "PATCH-ARCH-003" /\ UpdateUnsafe(w)
  \/ rule = "PATCH-HEALTH-004" /\ TerminationUnsafe(w)

Rag(rule, w) ==
  IF rule = "PATCH-ARCH-001" \/ (rule = "PATCH-HEALTH-001" /\ MultiReplica(w))
  THEN "red" ELSE "amber"

Found(rule, place, rag) == [rule |-> rule, place |-> place, rag |-> rag]

\* What FieldRule.check yields for one workload.
HitsOf(rule, n, w) ==
  {Found(rule, <<n, c>>, Rag(rule, w)) :
      c \in {c \in DOMAIN w.containers : ContainerFails(rule, w, w.containers[c])}}
    \cup {Found(rule, place, Rag(rule, w)) :
            place \in {p \in {<<n>>} : WorkloadFails(rule, w)}}

(***************************************************************************)
(* FieldRule.evaluate: nothing without evidence, the hits, or, when there  *)
(* are none, one all-clear.                                                *)
(***************************************************************************)
AllClearPlaceOfFirst(evidence) ==  \* mutant: at the first piece of evidence
  <<CHOOSE e \in evidence : TRUE>>
AllClearPlace(evidence) == <<"project-wide">>
AllClear(rule, evidence) == Found(rule, AllClearPlace(evidence), "green")

Judged(rule, evidence, hits) ==
  IF evidence # {} /\ hits = {} THEN {AllClear(rule, evidence)} ELSE hits

FieldRuleFindings(rule, m) ==
  Judged(rule, Collected(m), UNION {HitsOf(rule, n, m.workloads[n]) : n \in Collected(m)})

\* The summary of the manifests is evidence even if there are no workloads.
NetworkPolicyFindings(m) ==
  Judged("network-policy-missing", {"."},
         {Found("network-policy-missing", <<".">>, "amber") : x \in {x \in {0} : ~ m.network_policy}})

LabelsOverlap(p, w) ==
  p.match_labels # {} /\ w.labels # {} /\ p.match_labels \subseteq w.labels
Covered(w, m) ==
  \E p \in m.pdbs : p.namespace = w.namespace /\ (LabelsOverlap(p, w) \/ w.labels = {})

\* Here the all-clear of a workload stands at the place of its hit.
PdbFindings(m) ==
  LET relevant == {n \in Collected(m) :
                     HasReplicas(m.workloads[n]) /\ MultiReplica(m.workloads[n])}
  IN  {Found("PATCH-ARCH-004", <<n>>,
             IF Covered(m.workloads[n], m) THEN "green" ELSE "amber") : n \in relevant}
        \cup {Found("PATCH-ARCH-004", <<"all-workloads">>, "green") :
                x \in {x \in {0} : Collected(m) # {} /\ relevant = {}}}

ManifestFindings(m) ==
  (UNION {FieldRuleFindings(rule, m) : rule \in WorkloadFieldRules})
    \cup NetworkPolicyFindings(m) \cup PdbFindings(m)

(***************************************************************************)
(* What the recommendations ask for: the containers, workloads and         *)
(* manifests that follow one.                                              *)
(***************************************************************************)
Chosen(probe) == IF probe = None THEN Probes ELSE {probe}

AmendedContainers(rule, c) ==
  CASE rule = "resource-limits-missing" -> {[c EXCEPT !.limits = TRUE]}
    [] rule = "non-root-container-violation" -> {[c EXCEPT !.runAsNonRoot = TRUE]}
    [] rule = "probes-missing" ->
         UNION {{[c EXCEPT !.liveness_probe = l, !.readiness_probe = r] :
                    r \in Chosen(c.readiness_probe)} : l \in Chosen(c.liveness_probe)}
    [] rule = "PATCH-HEALTH-001" -> {[c EXCEPT !.readiness_probe = p] : p \in Probes}
    [] rule = "PATCH-HEALTH-003" -> {[c EXCEPT !.startup_probe = TRUE]}
    [] rule = "PATCH-ARCH-002" -> {[c EXCEPT !.pre_stop = TRUE]}
    [] rule = "health-probe-separation" ->
         {[c EXCEPT !.readiness_probe.handler = "httpGet",
                    !.readiness_probe.endpoint = "ready",
                    !.liveness_probe.handler = "httpGet",
                    !.liveness_probe.endpoint = "live"]}
    [] rule = "PATCH-HEALTH-002" ->
         IF TcpOnly(c)
         THEN {[c EXCEPT !.readiness_probe.handler = "httpGet",
                         !.readiness_probe.endpoint = e] : e \in {"health", "ready"}}
         ELSE {[c EXCEPT !.readiness_probe.hasty = FALSE,
                         !.readiness_probe.fragile = FALSE]}

AmendedWorkloads(rule, w) ==
  CASE rule = "PATCH-ARCH-001" -> {[w EXCEPT !.replicas = 2]}
    [] rule = "PATCH-ARCH-002" -> {[w EXCEPT !.termination_grace_period = MinGracePeriod]}
    [] rule = "PATCH-ARCH-003" ->
         {[w EXCEPT !.strategy = [type |-> "RollingUpdate", maxUnavailable |-> u]] :
             u \in {[percent |-> TRUE, value |-> 25], [percent |-> FALSE, value |-> 1]}}
    [] rule = "PATCH-HEALTH-004" ->
         IF GracePeriod(w) < MinGracePeriod
         THEN {[w EXCEPT !.termination_grace_period = MinGracePeriod]}
         ELSE {[w EXCEPT !.containers[c].pre_stop = TRUE] : c \in DOMAIN w.containers}

\* The budget names labels of the pods, if they have any.
BudgetsFor(w) ==
  {[namespace |-> w.namespace, match_labels |-> L] :
      L \in {L \in SUBSET Labels : w.labels # {} => L # {} /\ L \subseteq w.labels}}

FollowedInManifests(hit, m) ==
  IF hit.rule = "network-policy-missing" THEN {[m EXCEPT !.network_policy = TRUE]}
  ELSE LET n == hit.place[1]
           w == m.workloads[n]
       IN  IF hit.rule = "PATCH-ARCH-004"
           THEN {[m EXCEPT !.pdbs = @ \cup {p}] : p \in BudgetsFor(w)}
           ELSE IF Len(hit.place) = 2
           THEN {[m EXCEPT !.workloads[n].containers[hit.place[2]] = c] :
                    c \in AmendedContainers(hit.rule, w.containers[hit.place[2]])}
           ELSE {[m EXCEPT !.workloads[n] = a] : a \in AmendedWorkloads(hit.rule, w)}
=============================================================================
