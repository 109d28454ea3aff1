------------------------- MODULE MCWorkloadReview -------------------------
(***************************************************************************)
(* A service and a stateful store, the image of the service, and a mesh:   *)
(* drafts with a few flaws each, so that scans come before, between and    *)
(* after fixes.                                                            *)
(***************************************************************************)
EXTENDS WorkloadReview, TLC

CONSTANTS web, store, main, default, other, app, tier,
          golang, server, v1, v2, latest, pool1, pool2, db,
          docker, peers, routes, tocache, toweb, rollout

Http == [handler |-> "httpGet", endpoint |-> "health", hasty |-> FALSE, fragile |-> FALSE]
Ready == [Http EXCEPT !.endpoint = "ready"]
Tcp == [Http EXCEPT !.handler = "tcpSocket", !.hasty = TRUE]
MCProbes == {Tcp}

MCPosition == (store :> 1) @@ (web :> 2) @@ (peers :> 3) @@ (routes :> 4)

Sound == [limits |-> TRUE, runAsNonRoot |-> TRUE, startup_probe |-> TRUE,
          pre_stop |-> TRUE, liveness_probe |-> Http, readiness_probe |-> Ready,
          image |-> server, tag |-> v1, root |-> FALSE]
Of(c) == (main :> c)
Clean == [kind |-> "Deployment", namespace |-> default, labels |-> {app},
          replicas |-> 2, termination_grace_period |-> 30,
          strategy |-> [type |-> "RollingUpdate", maxUnavailable |-> None],
          root |-> FALSE, annotated |-> TRUE, node_selector |-> None,
          databases |-> (db :> 0), calls |-> {}, ring |-> None, containers |-> Of(Sound)]

\* One replica and no readiness probe.
Bare == [Clean EXCEPT !.replicas = None, !.ring = 2, !.calls = {store}, !.node_selector = pool1,
           !.containers = Of([Sound EXCEPT !.readiness_probe = None, !.startup_probe = FALSE])]
\* Kills its requests.
Abrupt == [Clean EXCEPT !.termination_grace_period = None, !.databases = (db :> 1),
             !.strategy = [type |-> "RollingUpdate",
                           maxUnavailable |-> [percent |-> TRUE, value |-> 50]],
             !.containers = Of([Sound EXCEPT !.pre_stop = FALSE])]
Store == [Clean EXCEPT !.kind = "StatefulSet", !.labels = {app, tier}, !.ring = 1,
            !.databases = (db :> 1), !.node_selector = pool1]
Agent == [Clean EXCEPT !.kind = "DaemonSet", !.labels = {}, !.namespace = other,
            !.replicas = None, !.termination_grace_period = 10, !.strategy = None,
            !.annotated = FALSE,
            !.containers = Of([Sound EXCEPT !.runAsNonRoot = FALSE,
                                            !.root = TRUE])]

MCDrafts == {<<web, Bare>>, <<web, Abrupt>>, <<store, Store>>, <<store, Agent>>}

From(image, tag) == [image |-> image, tag |-> tag, digest |-> FALSE]
Simple == [stages |-> <<From(golang, latest)>>, users |-> {}, runs |-> TRUE, secrets |-> 0]
Staged == [stages |-> <<From(golang, v1), From("earlier stage", None), From(server, v2)>>,
           users |-> {"nonroot"}, runs |-> TRUE, secrets |-> 1]
MCDockerDrafts == {<<docker, Simple>>, <<docker, Staged>>}

CacheRule == [kind |-> "DestinationRule", connectionPool |-> FALSE, outlierDetection |-> FALSE]
WebService == [kind |-> "VirtualService", weighted |-> FALSE]
WebRollout == [kind |-> "Rollout", canary |-> TRUE, steps |-> FALSE]
MCMeshDrafts ==
  {<<peers, [mtls |-> "STRICT", resources |-> (tocache :> CacheRule)]>>,
   <<peers, [mtls |-> "PERMISSIVE", resources |-> (rollout :> WebRollout)]>>,
   <<routes, [mtls |-> None, resources |-> (toweb :> WebService)]>>}
=============================================================================
