---------------------------- MODULE Fingerprint ----------------------------
(***************************************************************************)
(* Interaction fingerprints (src/nfr_review/monitor/fingerprint.py): which *)
(* service-to-service interactions a list of spans shows.                  *)
(*                                                                         *)
(* A span is a record: id and parent ("" when absent), svc the service it  *)
(* belongs to, op the name, kind and protocol that go into a fingerprint,  *)
(* calls whether the kind is CLIENT or PRODUCER, and callee the name that  *)
(* _resolve_callee finds in its attributes ("" when none).  A fingerprint  *)
(* is identified with its hash.                                            *)
(***************************************************************************)
EXTENDS Integers, Sequences

Interaction(caller, callee, op) ==
  [caller |-> caller, callee |-> callee, op |-> op]

\* span_index: the last span with an id stands for that id.
Indexed(spans, i) ==
  /\ spans[i].id # ""
  /\ \A j \in DOMAIN spans : j > i => spans[j].id # spans[i].id

\* Position i is the parent of position j and belongs to another service.
CrossService(spans, i, j) ==
  /\ Indexed(spans, i)
  /\ spans[j].parent = spans[i].id
  /\ spans[i].svc # "" /\ spans[j].svc # ""
  /\ spans[i].svc # spans[j].svc

CrossChildIds(spans) ==
  {spans[j].id : j \in {k \in DOMAIN spans :
                          \E i \in DOMAIN spans : CrossService(spans, i, k)}}

\* A call to something outside the trace: a database, a broker, a peer.
LeafCall(spans, j) ==
  /\ spans[j].id \notin CrossChildIds(spans)
  /\ spans[j].calls
  /\ spans[j].callee # "" /\ spans[j].svc # ""

extract_fingerprints(spans) ==
  {Interaction(spans[e[1]].svc, spans[e[2]].svc, spans[e[2]].op) :
     e \in {f \in (DOMAIN spans) \X (DOMAIN spans) : CrossService(spans, f[1], f[2])}}
  \cup
  {Interaction(spans[j].svc, spans[j].callee, spans[j].op) :
     j \in {k \in DOMAIN spans : LeafCall(spans, k)}}
=============================================================================
