----------------------------- MODULE MCMonitor -----------------------------
(***************************************************************************)
(* A small trace: span a of the gateway, its child b in the orders service *)
(* (kind CLIENT, it calls the database), its own call c to the mail        *)
(* server, and its child e in the billing service, which calls a ledger.   *)
(***************************************************************************)
EXTENDS Monitor

Span(id, parent, svc, op, calls, callee) ==
  [id |-> id, parent |-> parent, svc |-> svc, op |-> op,
   calls |-> calls, callee |-> callee]

a == Span("a", "", "gateway", "get", FALSE, "")
b == Span("b", "a", "orders", "read", TRUE, "db")
c == Span("c", "a", "gateway", "send", TRUE, "smtp")
e == Span("e", "a", "billing", "charge", TRUE, "ledger")

Trace(s) == [kind |-> "trace", spans |-> s]
Other(k) == [kind |-> k, spans |-> <<>>]

\* Three exporters share the trace; the third repeats a span of the second.  Spans
\* are sent as they end: e before its parent, in one batch.  A fourth client posts
\* the bodies that carry no spans.
MCBodies ==
  [r1 |-> {Trace(<<e, a>>)}, r2 |-> {Trace(<<b, c>>)}, r3 |-> {Trace(<<b>>)},
   r4 |-> {Trace(<<>>), Other("garbage"), Other("malformed"), Other("oversized")}]
MCClients == DOMAIN MCBodies

\* UAT had the mail and the billing; e apart from its parent would show another call.
MCBaseline == {Interaction("gateway", "smtp", "send"), Interaction("gateway", "billing", "charge")}
=============================================================================
