-------------------------- MODULE WorkloadReview --------------------------
(***************************************************************************)
(* A repository under review: a team edits it, scans it every night and in *)
(* pull requests, and follows what the rules of K8sRules and DeliveryRules *)
(* recommend.                                                              *)
(*                                                                         *)
(* The nightly scan records all findings, all-clears included; a scan of a *)
(* pull request reports those that the nightly baseline does not know, and *)
(* fails if there are any (_apply_baseline_filter and the end of run_cmd   *)
(* in src/nfr_review/cli.py).  No finding of these rules has a content     *)
(* hash, and a rule has one pattern tag: rule and place identify it.       *)
(*                                                                         *)
(* The configuration declares the technologies that these rules require    *)
(* (kubernetes, dockerfile, istio), so that the engine skips none of them. *)
(***************************************************************************)
EXTENDS DeliveryRules, FiniteSets

CONSTANTS
  Drafts, DockerDrafts, MeshDrafts,  \* <<name, content>>: what the team may write
  MaxEdits   \* bound: changes that follow no recommendation

ASSUME WorkloadReviewAssumption ==
  /\ Drafts \subseteq Names \X Workload
  /\ DockerDrafts \subseteq Dockerfiles \X Dockerfile
  /\ MeshDrafts \subseteq MeshFiles \X MeshFile
  /\ MaxEdits \in Nat

VARIABLES
  repository,  \* Repository
  nightly,     \* the records of the last nightly scan, or None
  edits

vars == <<repository, nightly, edits>>

Compare == INSTANCE Baseline WITH
  Groups <- Rules \X Places, Hashes <- {}, NoHash <- None, Lines <- {1}

Keyed(f) == [group |-> <<f.rule, f.place>>, line |-> 0, hash |-> None]

\* What a scan of the pull request reports.
Reported ==
  LET baseline == Compare!LoadBaseline({Keyed(f) : f \in nightly})
      found == Findings(repository)
      new == Compare!FilterNewFindings({Keyed(f) : f \in found}, baseline)
  IN  {f \in found : Keyed(f) \in new}
PullRequestFails == Reported # {}

\* The repository is made from a template.
Init ==
  /\ repository = [k8s |-> [workloads |-> [n \in Names |-> None], malformed |-> {},
                            pdbs |-> {}, network_policy |-> TRUE],
                   dockerfiles |-> [f \in Dockerfiles |-> None],
                   mesh |-> [f \in MeshFiles |-> None], documents |-> Documents]
  /\ nightly = None /\ edits = 0

(***************************************************************************)
(* The team.                                                               *)
(***************************************************************************)
Edit(amended) ==
  /\ edits < MaxEdits /\ edits' = edits + 1
  /\ repository' = amended /\ UNCHANGED nightly

Write(n, w) ==
  Edit([repository EXCEPT !.k8s.workloads[n] = w, !.k8s.malformed = @ \ {n}])

Remove(n) ==
  /\ repository.k8s.workloads[n] # None
  /\ Edit([repository EXCEPT !.k8s.workloads[n] = None, !.k8s.malformed = @ \ {n}])

\* An edit leaves a file that is no YAML.
Garble(n) ==
  /\ repository.k8s.workloads[n] # None
  /\ Edit([repository EXCEPT !.k8s.malformed = @ \cup {n}])

Scale(n, replicas) ==
  /\ n \in Collected(repository.k8s)
  /\ Edit([repository EXCEPT !.k8s.workloads[n].replicas = replicas])

RemovePdb(p) ==
  /\ p \in repository.k8s.pdbs
  /\ Edit([repository EXCEPT !.k8s.pdbs = @ \ {p}])

RemoveNetworkPolicy ==
  /\ repository.k8s.network_policy
  /\ Edit([repository EXCEPT !.k8s.network_policy = FALSE])

WriteDockerfile(f, d) == Edit([repository EXCEPT !.dockerfiles[f] = d])
WriteMesh(f, x) == Edit([repository EXCEPT !.mesh[f] = x])
RemoveDockerfile(f) == f \in Built(repository) /\ WriteDockerfile(f, None)
RemoveMesh(f) == f \in Meshed(repository) /\ WriteMesh(f, None)

RemoveDocument(d) ==
  /\ d \in repository.documents
  /\ Edit([repository EXCEPT !.documents = @ \ {d}])

FollowAdvice(hit) ==
  /\ UNCHANGED <<nightly, edits>>
  /\ repository' \in Followed(hit, repository)
FollowSomeAdvice == \E hit \in Hits(repository) : FollowAdvice(hit)

NightlyScan ==
  /\ edits < MaxEdits
  /\ nightly' = Findings(repository)
  /\ UNCHANGED <<repository, edits>>

Next ==
  \/ \E draft \in Drafts : Write(draft[1], draft[2])
  \/ \E n \in Names : Remove(n) \/ Garble(n) \/ \E r \in {None, 1, 2} : Scale(n, r)
  \/ \E p \in repository.k8s.pdbs : RemovePdb(p)
  \/ RemoveNetworkPolicy
  \/ \E draft \in DockerDrafts : WriteDockerfile(draft[1], draft[2])
  \/ \E draft \in MeshDrafts : WriteMesh(draft[1], draft[2])
  \/ \E f \in Dockerfiles : RemoveDockerfile(f)
  \/ \E f \in MeshFiles : RemoveMesh(f)
  \/ \E d \in Documents : RemoveDocument(d)
  \/ FollowSomeAdvice \/ NightlyScan

\* The team goes on following recommendations, in whatever order and reading
\* them in whatever way it likes.
Spec == Init /\ [][Next]_vars /\ WF_vars(FollowSomeAdvice)

-----------------------------------------------------------------------------
\* The repository, records and counters have their types.
TypeOK ==
  /\ repository \in Repository
  /\ nightly = None \/ nightly \subseteq [rule : Rules, place : Places,
                                          rag : {"green", "amber", "red"}]
  /\ edits \in 0 .. MaxEdits

\* A hit that a pull request scan leaves out was in the nightly records at the
\* same place, and as bad, but for what the comparison cannot see since keys
\* have no colour: a missing readiness probe gets worse when its workload is
\* scaled up, and some rules record an all-clear at the place of the hit, so
\* that the loss of a disruption budget or of STRICT mutual TLS is silent, and
\* so is the first workload of a repository without rollback documents.  All
\* other regressions make the pull request fail.
\* (Finding.identity_key, FieldRule._build_findings, and the rules named.)
OnlyKnownHitsAreSilent ==
  nightly # None =>
    \A h \in Hits(repository) \ Reported :
      \/ h \in nightly \/ [h EXCEPT !.rag = "red"] \in nightly
      \/ h.rule = "PATCH-HEALTH-001" /\ [h EXCEPT !.rag = "amber"] \in nightly
      \/ h.rule \in AllClearsInPlace /\ [h EXCEPT !.rag = "green"] \in nightly

\* Hits that nothing one may do about them in the files silences: a shared
\* database can only be documented, a pool left only for a free one, an earlier
\* stage has no version, and one image cannot have the tags of two Dockerfiles.
Unanswerable(h, r) ==
  \/ /\ h.rule = "PATCH-DEPS-002"
     /\ \/ \E host \in SharedHosts(r.k8s) : h.place[1] \in UsersOf(host, r.k8s)
        \/ \A pool \in Pools : SamePool(pool, r.k8s) # {}
  \/ /\ h.rule = "dockerfile-base-pinning"
     /\ r.dockerfiles[h.place[1]].stages[h.place[2]].image = "earlier stage"
  \/ /\ h.rule = "dockerfile-k8s-image-drift"
     /\ Cardinality(TagsOf(ContainerAt(h.place, r.k8s).image, r)) > 1

\* What a recommendation may cost: hits of the second rule may come from following
\* one of the first.
Provokes ==
  ({"probes-missing", "PATCH-HEALTH-001"} \X {"PATCH-HEALTH-002", "health-probe-separation"})
    \cup {<<"PATCH-HEALTH-002", "health-probe-separation">>}
    \cup ({"PATCH-ARCH-001"} \X {"PATCH-HEALTH-001", "PATCH-HEALTH-003", "PATCH-ARCH-004"})
    \cup ({"dockerfile-multistage"} \X {"dockerfile-base-pinning", "dockerfile-secret-leakage"})
    \cup {<<"dockerfile-base-pinning", "dockerfile-k8s-image-drift">>,
          <<"dockerfile-user-directive", "dockerfile-k8s-user-conflict">>,
          <<"dockerfile-k8s-user-conflict", "dockerfile-k8s-user-conflict">>,
          <<"PATCH-DEPS-002", "PATCH-DEPS-002">>, <<"PATCH-DEPS-003", "PATCH-DEPS-003">>}

\* Rules that recommend several things, or a thing for one of several places.
TakeSeveralSteps ==
  {"PATCH-HEALTH-002", "PATCH-HEALTH-004", "PATCH-DEPS-002", "PATCH-DEPS-003",
   "dockerfile-secret-leakage", "dockerfile-k8s-image-drift",
   "dockerfile-k8s-user-conflict", "istio-traffic-policy"}

\* Following a recommendation clears its hit, but for the rules above, and brings
\* hits of the rules above only.  As Provokes has no cycle but three loops, advice
\* about one rule never leads back to it by way of another: no two rules contradict
\* each other.  (The recommendations of the rules, and what their checks read.)
AdviceIsSound ==
  [][UNCHANGED edits =>
     LET before == Hits(repository)
         after == Hits(repository')
     IN  \A h \in before : FollowAdvice(h) =>
           /\ h \in after => h.rule \in TakeSeveralSteps
           /\ \A g \in after \ before : <<h.rule, g.rule>> \in Provokes]_vars

\* A team that keeps following recommendations gets rid of all other hits: no
\* rule asks for what another one rejects, and none asks twice for the same.
AdviceSettles ==
  <>[](\A h \in Hits(repository) : Unanswerable(h, repository))
=============================================================================
