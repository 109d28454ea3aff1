---------------------------- MODULE AlertStream ----------------------------
(***************************************************************************)
(* What the monitor promises to whoever reads its alerts, without clients, *)
(* counters, deduplication or eviction: spans are taken in; now and then   *)
(* all that have come are compared with the baseline at once, and every    *)
(* interaction the baseline lacks is told of at least when it is first     *)
(* seen.  Only an alert that cannot be written excuses the others, and it  *)
(* ends the monitor.  Nothing else is ever told of.                        *)
(***************************************************************************)
EXTENDS Naturals, Sequences

CONSTANTS Batches, Interactions, Baseline, Shown(_)

VARIABLES
  loop,    \* "waiting", "cleanup" or "stopped"
  failed,  \* an alert could not be written
  spans,   \* taken in and not yet compared
  lines    \* interaction -> alerts told

vars == <<loop, failed, spans, lines>>

Init ==
  /\ loop = "waiting" /\ failed = FALSE
  /\ spans = <<>> /\ lines = [f \in Interactions |-> 0]

\* Also after the loop has ended, as long as the server is up.
Take(batch) ==
  /\ loop # "stopped"
  /\ spans' = spans \o batch
  /\ UNCHANGED <<loop, failed, lines>>

Novel == Shown(spans) \ Baseline
NeverTold == {f \in Novel : lines[f] = 0}

Compare(told) ==
  /\ loop = "waiting"
  /\ loop' \in {"waiting", "cleanup"} /\ failed' \in BOOLEAN
  /\ IF failed' THEN loop' = "cleanup" ELSE NeverTold \subseteq told
  /\ lines' = [f \in Interactions |-> lines[f] + (IF f \in told THEN 1 ELSE 0)]
  /\ spans' = <<>>

\* Nothing is left to compare.
Close ==
  /\ loop = "waiting" /\ spans = <<>>
  /\ loop' = "cleanup"
  /\ UNCHANGED <<failed, spans, lines>>

Stop ==
  /\ loop = "cleanup"
  /\ loop' = "stopped"
  /\ UNCHANGED <<failed, spans, lines>>

Next ==
  \/ \E batch \in Batches : Take(batch)
  \/ \E told \in SUBSET Novel : Compare(told)
  \/ Close \/ Stop

Spec == Init /\ [][Next]_vars
=============================================================================
