---------------------------- MODULE ScanContract ----------------------------
(***************************************************************************)
(* What a scan promises, whatever the number of workers: the outcome of    *)
(* running the collectors one after the other in registry order and then   *)
(* the rules one after the other in registry order.  This is the code path *)
(* of Engine with one worker; Engine.tla shows that the thread-pool path   *)
(* implements it.                                                          *)
(***************************************************************************)
EXTENDS EngineBase

VARIABLES
  phase,        \* "collect", "rules", "done" or "aborted"
  next,         \* registry position of the next collector or rule
  evidence,     \* evidence items, each named by the collector it came from
  warnings,     \* collectors whose failure was recorded as a warning
  succeeded,    \* collectors that returned evidence
  ruleResults,  \* one result per rule, in the order they were recorded
  rulesRun,     \* rules that were evaluated and not skipped
  findings      \* findings, each named by the rule that emitted it

collected == <<evidence, warnings, succeeded>>
judged == <<ruleResults, rulesRun, findings>>
vars == <<phase, next, collected, judged>>

Init ==
  /\ phase = "collect" /\ next = 1
  /\ evidence = <<>> /\ warnings = <<>> /\ succeeded = {}
  /\ ruleResults = <<>> /\ rulesRun = <<>> /\ findings = <<>>

\* An exception leaves run(): everything gathered so far is lost with it.
Lost ==
  /\ evidence' = <<>> /\ warnings' = <<>> /\ succeeded' = {}
  /\ ruleResults' = <<>> /\ rulesRun' = <<>> /\ findings' = <<>>

\* The result of collector c is added to the run.
Absorb(c, out) ==
  \/ /\ out.kind = "ok"
     /\ evidence' = evidence \o Copies(c, out.items)
     /\ succeeded' = succeeded \cup {c}
     /\ UNCHANGED warnings
  \/ /\ out.kind = "raised"
     /\ warnings' = Append(warnings, c)
     /\ UNCHANGED <<evidence, succeeded>>

Collect ==
  /\ phase = "collect" /\ next \in Collectors
  /\ \E out \in CollectorOutcome : Absorb(next, out)
  /\ next' = next + 1
  /\ UNCHANGED <<phase, judged>>

CollectAborts ==
  /\ phase = "collect"
  /\ phase' = "aborted"
  /\ next' = 1
  /\ Lost

BeginRules ==
  /\ phase = "collect" /\ next = NumCollectors + 1
  /\ phase' = "rules"
  /\ next' = 1
  /\ UNCHANGED <<collected, judged>>

\* A rule that a gate stops, that raises or that reports itself skipped.
SkipRule ==
  /\ phase = "rules" /\ next \in Rules
  /\ ruleResults' = Append(ruleResults, [rule |-> next, skipped |-> TRUE])
  /\ next' = next + 1
  /\ UNCHANGED <<phase, collected, rulesRun, findings>>

RunRule ==
  /\ phase = "rules" /\ next \in Rules
  /\ GateOpen(next, succeeded)
  /\ ruleResults' = Append(ruleResults, [rule |-> next, skipped |-> FALSE])
  /\ rulesRun' = Append(rulesRun, next)
  /\ \E n \in 0 .. MaxItems : findings' = findings \o Copies(next, n)
  /\ next' = next + 1
  /\ UNCHANGED <<phase, collected>>

RuleAborts ==
  /\ phase = "rules" /\ next \in Rules
  /\ phase' = "aborted"
  /\ next' = 1
  /\ Lost

Finish ==
  /\ phase = "rules" /\ next = NumRules + 1
  /\ phase' = "done"
  /\ UNCHANGED <<next, collected, judged>>

Next ==
  \/ Collect \/ CollectAborts \/ BeginRules
  \/ SkipRule \/ RunRule \/ RuleAborts \/ Finish

Spec == Init /\ [][Next]_vars
=============================================================================
