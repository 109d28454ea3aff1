------------------------------ MODULE Monitor ------------------------------
(***************************************************************************)
(* The production monitor (src/nfr_review/monitor): an HTTP receiver of    *)
(* trace spans, the current window of spans, and the loop that closes the  *)
(* window, compares it with the UAT baseline and writes alerts.            *)
(*                                                                         *)
(* Everything runs on one asyncio event loop, so a step here is what runs  *)
(* between two awaits: a handler is interrupted only while it reads its    *)
(* body, the window loop only while it waits for the timer or shutdown.    *)
(* aiohttp is external: after shutdown it accepts no new connection, lets  *)
(* the handlers in progress finish, and drops those that are too slow.     *)
(***************************************************************************)
EXTENDS Fingerprint, FiniteSets

CONSTANTS
  Clients,       \* each posts until it is acknowledged
  Bodies,        \* client -> the bodies it may post
  MaxPosts,      \* bound: requests in all
  Baseline,      \* fingerprints of the UAT baseline
  MaxQueueSpans, \* max_queue_spans
  MaxSeenHashes, \* max_seen_hashes
  Deduplicate    \* config.deduplicate

(***************************************************************************)
(* A body exceeds client_max_size ("oversized"), is not JSON ("garbage"),  *)
(* is JSON that the span parser raises on ("malformed"), or is an OTLP     *)
(* document with a possibly empty list of spans ("trace").                 *)
(***************************************************************************)
Batches == {body.spans : body \in UNION {Bodies[r] : r \in Clients}}

SpansOf(w) == {w[i] : i \in DOMAIN w}

BodySpans == UNION {SpansOf(batch) : batch \in Batches}

ASSUME MonitorAssumption ==
  /\ IsFiniteSet(Clients)
  /\ MaxPosts \in Nat /\ MaxQueueSpans \in Nat /\ MaxSeenHashes \in Nat
  /\ Deduplicate \in BOOLEAN
  /\ \A r \in Clients : \A body \in Bodies[r] :
       /\ body.kind \in {"oversized", "garbage", "malformed", "trace"}
       /\ body.spans \in Seq(BodySpans)

\* Every interaction that these spans can show, in whatever window they meet.
Interactions ==
  {Interaction(p.svc, s.svc, s.op) : p, s \in BodySpans}
    \cup {Interaction(s.svc, s.callee, s.op) : s \in BodySpans}

Statuses == {"200", "400", "413", "429", "500", "cancelled"}

VARIABLES
  loop,        \* run(): "waiting" in the window loop, "cleanup", "stopped"
  shutdown,    \* the shutdown event
  failed,      \* writing an alert raised
  conn,        \* client -> "idle", "reading" its body, or what it was answered
  responses,   \* status -> handlers that ended with it
  requests_total, spans_received, backpressure_count,  \* the receiver's
  spans,       \* the window being filled
  ingested,    \* total_spans_ingested
  rejected,    \* total_rejected
  seen,        \* _seen_hashes
  lines,       \* fingerprint -> alert lines written
  \* kept for the properties:
  flushed,     \* spans taken out of the window
  compared,    \* fingerprints compared with the baseline so far
  epoch,       \* lines when seen was last cleared
  late         \* clients whose body was being read when the loop ended

server == <<loop, shutdown, failed>>
clients == <<conn, responses>>
receiver == <<requests_total, spans_received, backpressure_count>>
window == <<spans, ingested, rejected>>
alerting == <<seen, lines, flushed, compared, epoch, late>>
vars == <<server, clients, receiver, window, alerting>>

NoLines == [f \in Interactions |-> 0]

Init ==
  /\ loop = "waiting" /\ shutdown = FALSE /\ failed = FALSE
  /\ conn = [r \in Clients |-> "idle"]
  /\ responses = [s \in Statuses |-> 0]
  /\ requests_total = 0 /\ spans_received = 0 /\ backpressure_count = 0
  /\ spans = <<>> /\ ingested = 0 /\ rejected = 0
  /\ seen = {} /\ lines = NoLines
  /\ flushed = 0 /\ compared = {} /\ epoch = NoLines /\ late = {}

(***************************************************************************)
(* Receiver and clients.                                                   *)
(***************************************************************************)

\* A client posts: first, after "queue full", or with no answer.
Post(r) ==
  /\ loop = "waiting"
  /\ conn[r] \in {"idle", "429", "lost"}
  /\ requests_total < MaxPosts
  /\ conn' = [conn EXCEPT ![r] = "reading"]
  /\ requests_total' = requests_total + 1
  /\ UNCHANGED <<spans_received, backpressure_count, server, responses, window, alerting>>

\* The handler ends with a status, which may not reach the client.
Answer(r, status) ==
  /\ responses' = [responses EXCEPT ![status] = @ + 1]
  /\ \E got \in {status, "lost"} : conn' = [conn EXCEPT ![r] = got]

\* request.read() raises: the client is gone.
BodyLost(r) ==
  /\ conn[r] = "reading" /\ loop # "stopped"
  /\ responses' = [responses EXCEPT !["400"] = @ + 1]
  /\ conn' = [conn EXCEPT ![r] = "lost"]
  /\ UNCHANGED <<server, receiver, window, alerting>>

\* Mutant: the limit is not checked.
AcceptUnlimited(r, body) ==
  /\ spans' = spans \o body.spans
  /\ ingested' = ingested + Len(body.spans)
  /\ spans_received' = spans_received + Len(body.spans)
  /\ Answer(r, "200")
  /\ UNCHANGED <<rejected, requests_total, backpressure_count>>

\* Mutant: what fits below the limit is taken.
AcceptUpToLimit(r, body) ==
  LET room == MaxQueueSpans - Len(spans)
      taken == IF Len(body.spans) <= room THEN body.spans ELSE SubSeq(body.spans, 1, room)
  IN  /\ Len(spans) < MaxQueueSpans
      /\ spans' = spans \o taken
      /\ ingested' = ingested + Len(taken)
      /\ spans_received' = spans_received + Len(taken)
      /\ Answer(r, "200")
      /\ UNCHANGED <<rejected, requests_total, backpressure_count>>

\* WindowManager.ingest below the limit: the batch is taken as a whole.
Accept(r, body) ==
  /\ Len(spans) < MaxQueueSpans
  /\ spans' = spans \o body.spans
  /\ ingested' = ingested + Len(body.spans)
  /\ spans_received' = spans_received + Len(body.spans)
  /\ Answer(r, "200")
  /\ UNCHANGED <<rejected, requests_total, backpressure_count>>

\* Mutant: a refused batch is not counted as backpressure.
RefuseUncounted(r, body) ==
  /\ Len(spans) >= MaxQueueSpans
  /\ rejected' = rejected + Len(body.spans)
  /\ Answer(r, "429")
  /\ UNCHANGED <<spans, ingested, receiver>>

\* WindowManager.ingest at the limit.
Refuse(r, body) ==
  /\ Len(spans) >= MaxQueueSpans
  /\ rejected' = rejected + Len(body.spans)
  /\ backpressure_count' = backpressure_count + 1
  /\ Answer(r, "429")
  /\ UNCHANGED <<spans, ingested, requests_total, spans_received>>

\* The rest of _handle_traces, once the body is there; it has no further await.
HandleBody(r) ==
  /\ conn[r] = "reading" /\ loop # "stopped"
  /\ \E body \in Bodies[r] :
       \/ body.kind = "oversized" /\ Answer(r, "413") /\ UNCHANGED <<receiver, window>>
       \/ body.kind = "garbage" /\ Answer(r, "400") /\ UNCHANGED <<receiver, window>>
       \/ body.kind = "malformed" /\ Answer(r, "500") /\ UNCHANGED <<receiver, window>>
       \/ /\ body.kind = "trace" /\ body.spans = <<>>
          /\ Answer(r, "200") /\ UNCHANGED <<receiver, window>>
       \/ /\ body.kind = "trace" /\ body.spans # <<>>
          /\ Accept(r, body) \/ Refuse(r, body)
  /\ UNCHANGED <<server, alerting>>

(***************************************************************************)
(* Window loop.                                                            *)
(***************************************************************************)
Reading == {r \in Clients : conn[r] = "reading"}

\* diff_baselines: what was observed and is not in the baseline.
Novel(observed) == observed \ Baseline

\* The seen set a flush starts from: emptied when it has reached its cap.
Evicts == Deduplicate /\ Cardinality(seen) >= MaxSeenHashes
SeenAtFlush == IF Evicts THEN {} ELSE seen

\* Mutant: a full seen set takes no more hashes, so nothing more is reported.
FreshWhileRoom ==
  IF Evicts THEN {}
  ELSE Novel(extract_fingerprints(spans)) \ (IF Deduplicate THEN SeenAtFlush ELSE {})

\* The findings a flush returns: with deduplication, only hashes not seen yet.
Fresh ==
  Novel(extract_fingerprints(spans)) \ (IF Deduplicate THEN SeenAtFlush ELSE {})

\* Mutant: the window keeps its spans.
FlushKeeping ==
  /\ failed' = FALSE
  /\ lines' = [f \in Interactions |-> lines[f] + (IF f \in Fresh THEN 1 ELSE 0)]
  /\ spans' = spans
  /\ seen' = IF Deduplicate THEN SeenAtFlush \cup Fresh ELSE seen
  /\ epoch' = IF Evicts THEN lines ELSE epoch
  /\ flushed' = flushed + Len(spans)
  /\ compared' = compared \cup extract_fingerprints(spans)

\* Mutant: a reported hash is not remembered.
FlushForgetting ==
  /\ failed' = FALSE
  /\ lines' = [f \in Interactions |-> lines[f] + (IF f \in Fresh THEN 1 ELSE 0)]
  /\ spans' = <<>>
  /\ seen' = SeenAtFlush
  /\ epoch' = IF Evicts THEN lines ELSE epoch
  /\ flushed' = flushed + Len(spans)
  /\ compared' = compared \cup extract_fingerprints(spans)

\* Mutant: a write that raises is logged and the loop goes on.
FlushSwallowing ==
  /\ \E written \in SUBSET Fresh :
       /\ failed' = FALSE
       /\ lines' = [f \in Interactions |-> lines[f] + (IF f \in written THEN 1 ELSE 0)]
  /\ spans' = <<>>
  /\ seen' = IF Deduplicate THEN SeenAtFlush \cup Fresh ELSE seen
  /\ epoch' = IF Evicts THEN lines ELSE epoch
  /\ flushed' = flushed + Len(spans)
  /\ compared' = compared \cup extract_fingerprints(spans)

\* WindowManager.flush, and _emit_alerts over its novel findings: `written`
\* is what came out before a write raised, or everything.
FlushAndEmit ==
  /\ \E written \in SUBSET Fresh :
       /\ failed' = (written # Fresh)
       /\ lines' = [f \in Interactions |-> lines[f] + (IF f \in written THEN 1 ELSE 0)]
  /\ spans' = <<>>
  /\ seen' = IF Deduplicate THEN SeenAtFlush \cup Fresh ELSE seen
  /\ epoch' = IF Evicts THEN lines ELSE epoch
  /\ flushed' = flushed + Len(spans)
  /\ compared' = compared \cup extract_fingerprints(spans)

\* Mutant: a saturated window is not flushed.
WindowElapsesUnlessSaturated ==
  /\ loop = "waiting" /\ Len(spans) < MaxQueueSpans
  /\ FlushAndEmit
  /\ loop' = IF shutdown \/ failed' THEN "cleanup" ELSE "waiting"
  /\ late' = IF loop' = "cleanup" THEN Reading ELSE late
  /\ UNCHANGED <<shutdown, clients, receiver, ingested, rejected>>

\* The timer of the loop runs out.
WindowElapses ==
  /\ loop = "waiting"
  /\ FlushAndEmit
  /\ loop' = IF shutdown \/ failed' THEN "cleanup" ELSE "waiting"
  /\ late' = IF loop' = "cleanup" THEN Reading ELSE late
  /\ UNCHANGED <<shutdown, clients, receiver, ingested, rejected>>

\* Mutant: no final flush.
LoopEndsUnflushed ==
  /\ loop = "waiting" /\ shutdown
  /\ loop' = "cleanup" /\ late' = Reading
  /\ UNCHANGED <<shutdown, failed, clients, receiver, window,
                 seen, lines, flushed, compared, epoch>>

\* The loop wakes up for the shutdown event; only a filled window is flushed.
LoopEnds ==
  /\ loop = "waiting" /\ shutdown
  /\ \/ /\ spans # <<>>
        /\ FlushAndEmit
     \/ /\ spans = <<>>
        /\ UNCHANGED <<failed, spans, seen, lines, flushed, compared, epoch>>
  /\ loop' = "cleanup" /\ late' = Reading
  /\ UNCHANGED <<shutdown, clients, receiver, ingested, rejected>>

\* SIGTERM or SIGINT.
RequestShutdown ==
  /\ loop # "stopped"
  /\ ~ shutdown
  /\ shutdown' = TRUE
  /\ UNCHANGED <<loop, failed, clients, receiver, window, alerting>>

\* Mutant: cleanup waits until no client wants to post again.
CleanupAwaitsClients ==
  /\ loop = "cleanup"
  /\ \A r \in Clients : conn[r] \notin {"reading", "429", "lost"}
  /\ loop' = "stopped"
  /\ UNCHANGED <<shutdown, failed, clients, receiver, window, alerting>>

\* runner.cleanup() returns: a handler that is still reading is cancelled.
CleanupEnds ==
  /\ loop = "cleanup"
  /\ loop' = "stopped"
  /\ conn' = [r \in Clients |-> IF conn[r] = "reading" THEN "lost" ELSE conn[r]]
  /\ responses' = [responses EXCEPT !["cancelled"] = @ + Cardinality(Reading)]
  /\ UNCHANGED <<shutdown, failed, receiver, window, alerting>>

Next ==
  \/ \E r \in Clients : Post(r) \/ BodyLost(r) \/ HandleBody(r)
  \/ WindowElapses
  \/ LoopEnds
  \/ RequestShutdown
  \/ CleanupEnds

Spec == Init /\ [][Next]_vars

(***************************************************************************)
(* The event loop runs what is ready: the timer runs out, the shutdown     *)
(* event wakes the loop, cleanup is bounded by its own timeout.  Nothing   *)
(* obliges a client to post or to send the rest of its body, or an         *)
(* operator to stop the monitor.                                           *)
(***************************************************************************)
Fairness ==
  WF_vars(WindowElapses) /\ WF_vars(LoopEnds) /\ WF_vars(CleanupEnds)

FairSpec == Spec /\ Fairness

(***************************************************************************)
(* Properties.                                                             *)
(***************************************************************************)
TypeOK ==
  /\ loop \in {"waiting", "cleanup", "stopped"}
  /\ shutdown \in BOOLEAN /\ failed \in BOOLEAN
  /\ conn \in [Clients -> {"idle", "reading", "lost"} \cup Statuses]
  /\ responses \in [Statuses -> Nat]
  /\ requests_total \in Nat /\ spans_received \in Nat /\ backpressure_count \in Nat
  /\ spans \in Seq(BodySpans)
  /\ ingested \in Nat /\ rejected \in Nat /\ flushed \in Nat
  /\ seen \in SUBSET Interactions
  /\ compared \in SUBSET Interactions
  /\ lines \in [Interactions -> Nat]
  /\ epoch \in [Interactions -> Nat]
  /\ late \in SUBSET Clients

\* The receiver's and the window's span counters agree, and every span that was
\* taken in is either in the window or was handed to exactly one flush.
SpansConserved ==
  /\ spans_received = ingested
  /\ ingested = flushed + Len(spans)

\* Handlers that have ended, in any of the ways a handler can end.
Answered ==
  responses["200"] + responses["400"] + responses["413"] + responses["429"]
    + responses["500"] + responses["cancelled"]

\* Every request that was counted is in progress or ended in one of the ways a
\* handler can end, and backpressure_count is the number of 429 answers.
RequestsAccounted ==
  /\ requests_total = Cardinality(Reading) + Answered
  /\ backpressure_count = responses["429"]

\* The limit is checked once per batch and before it is added, so the window can
\* exceed max_queue_spans, but by less than one batch however many handlers run.
QueueBounded ==
  spans # <<>> =>
    \E r \in Clients : \E body \in Bodies[r] : Len(spans) < MaxQueueSpans + Len(body.spans)

\* With deduplication, an interaction is reported at most once between two
\* evictions of the seen set, whatever is posted twice or split over windows.
AtMostOncePerEpoch ==
  Deduplicate => \A f \in Interactions : lines[f] - epoch[f] <= 1

\* Deduplication never hides an interaction that was not reported: everything
\* compared so far and missing in the baseline has an alert line, unless
\* writing one raised (and then the monitor is on its way out).
NothingSuppressed ==
  /\ ~ failed => \A f \in compared \ Baseline : lines[f] >= 1
  /\ failed => loop # "waiting"

\* c is a call that the service of p made to the service of c.
CallsAcross(p, c) ==
  /\ p.id # "" /\ c.parent = p.id
  /\ p.svc # "" /\ c.svc # "" /\ p.svc # c.svc

\* Some exporter sends s without the span that called it from another service, or
\* together with one that another span can displace, which has its id.
SentApart(s) ==
  \E batch \in Batches :
    /\ s \in SpansOf(batch)
    /\ \A p \in SpansOf(batch) :
         CallsAcross(p, s) => \E q \in BodySpans : q # p /\ q.id = p.id

\* What spans of the clients show: a call between two of them, from one service to
\* another, or a call to something outside the trace, of a span that comes apart.
Real(f) ==
  \/ \E p, s \in BodySpans : CallsAcross(p, s) /\ f = Interaction(p.svc, s.svc, s.op)
  \/ \E s \in BodySpans :
       s.calls /\ SentApart(s) /\ f = Interaction(s.svc, s.callee, s.op)

\* An alert names a real interaction that the baseline lacks.  Windows split, merge and
\* repeat batches, and a span whose parent is in another one is taken for a leaf call;
\* but no batch is ever split, so that this befalls no span that is always sent along
\* with its parent.  (ingest, extract_fingerprints)
AlertsAreReal ==
  \A f \in Interactions : lines[f] > 0 => f \notin Baseline /\ Real(f)

\* A monitor that stops without an error leaves spans behind only if a handler
\* was still reading its body when the window was flushed for the last time.
StopsClean ==
  loop = "stopped" /\ ~ failed /\ late = {} => spans = <<>>

\* What was taken in does not wait forever: the window is emptied again, unless
\* the monitor stops first.  A saturated window therefore opens again.
WindowIsFlushed == (spans # <<>>) ~> (spans = <<>> \/ loop = "stopped")

\* After SIGTERM the monitor stops, also with handlers in progress.
ShutdownEnds == shutdown ~> (loop = "stopped")

\* docs/monitor-deployment.md: on shutdown the monitor flushes any remaining
\* spans.  A handler that finishes during runner.cleanup() answers 200 and adds
\* spans after the last flush.
FinalFlushComplete == loop = "stopped" /\ ~ failed => spans = <<>>

(***************************************************************************)
(* Monitor implements AlertStream: what clients, counters, the seen set    *)
(* and its eviction do in between, a reader of the alerts need not know.   *)
(***************************************************************************)
Stream == INSTANCE AlertStream WITH Shown <- extract_fingerprints

StreamSpec == Stream!Spec
=============================================================================
