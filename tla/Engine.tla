------------------------------- MODULE Engine -------------------------------
(***************************************************************************)
(* Engine.run (src/nfr_review/engine.py): the collection phase, by one     *)
(* thread or by a ThreadPoolExecutor, and the rules phase.                 *)
(*                                                                         *)
(* With one worker the main thread calls the collectors itself.  With more *)
(* it submits one future per collector, stores each result in the slot of  *)
(* its registry position as the futures complete, and merges the slots in  *)
(* registry order once the pool is closed.  Submission is not a step: a    *)
(* worker that starts before the last submit does nothing another worker   *)
(* can see.  A plugin call that never returns is not modelled (the engine  *)
(* sets no timeout; Fairness says so).                                     *)
(***************************************************************************)
EXTENDS EngineBase, FiniteSets

CONSTANT MaxWorkers   \* bound: the threads a caller may ask for

ASSUME WorkersAssumption == MaxWorkers \in Nat \ {0}

VARIABLES
  workers,      \* the threads this engine was given, at least 1
  phase,        \* where the main thread is
  future,       \* collector -> its call: queued, running or its outcome
  ordered,      \* collector -> its slot of ordered_results
  next,         \* registry position the main thread's loop has reached
  evidence, warnings, succeeded,
  ruleResults, rulesRun, findings

collected == <<evidence, warnings, succeeded>>
judged == <<ruleResults, rulesRun, findings>>
vars == <<workers, phase, future, ordered, next, collected, judged>>

Queued == [kind |-> "queued", items |-> 0]
Running == [kind |-> "running", items |-> 0]
\* What a slot of ordered_results holds at first: ("", [], None).
Placeholder == [kind |-> "placeholder", items |-> 0]

Finished(c) == future[c] \in CollectorOutcome

Init ==
  /\ workers \in 1 .. MaxWorkers
  /\ phase = IF workers = 1 THEN "sequential" ELSE "gather"
  /\ future = [c \in Collectors |-> Queued]
  /\ ordered = [c \in Collectors |-> Placeholder]
  /\ next = 1
  /\ evidence = <<>> /\ warnings = <<>> /\ succeeded = {}
  /\ ruleResults = <<>> /\ rulesRun = <<>> /\ findings = <<>>

(***************************************************************************)
(* Steps of the main thread that both paths use.                           *)
(***************************************************************************)

\* An exception that leaves run(): its local lists are gone.
Abort ==
  /\ phase' = "aborted"
  /\ next' = 1
  /\ evidence' = <<>> /\ warnings' = <<>> /\ succeeded' = {}
  /\ ruleResults' = <<>> /\ rulesRun' = <<>> /\ findings' = <<>>

\* Mutant: the `continue` after a recorded error is missing.
AbsorbWithoutContinue(c, out) ==
  /\ evidence' = evidence \o Copies(c, out.items)
  /\ succeeded' = IF out = Placeholder THEN succeeded ELSE succeeded \cup {c}
  /\ warnings' = IF out.kind = "raised" THEN Append(warnings, c) ELSE warnings

\* One turn of the loop over (name, produced, err) triples.
Absorb(c, out) ==
  \/ /\ out.kind = "raised"
     /\ warnings' = Append(warnings, c)
     /\ UNCHANGED <<evidence, succeeded>>
  \/ /\ out.kind = "ok"
     /\ evidence' = evidence \o Copies(c, out.items)
     /\ succeeded' = succeeded \cup {c}
     /\ UNCHANGED warnings
  \/ \* a slot nobody filled: succeeded gains the name "", which no rule requires
     /\ out = Placeholder
     /\ UNCHANGED collected

(***************************************************************************)
(* _collect_sequential: one worker.                                        *)
(***************************************************************************)
CollectHere(out) ==
  /\ phase = "sequential" /\ next \in Collectors
  /\ future' = [future EXCEPT ![next] = out]
  /\ \/ /\ out.kind # "malformed"
        /\ Absorb(next, out)
        /\ next' = next + 1
        /\ UNCHANGED <<phase, judged>>
     \/ out.kind = "malformed" /\ Abort
  /\ UNCHANGED <<workers, ordered>>

(***************************************************************************)
(* _collect_parallel: the pool's threads take futures in the order of      *)
(* submission, and go on doing so after the main thread has left the       *)
(* as_completed loop with an exception.                                    *)
(***************************************************************************)
Start(c) ==
  /\ phase \in {"gather", "aborting"}
  /\ future[c] = Queued
  /\ \A d \in 1 .. c - 1 : future[d] # Queued
  /\ Cardinality({d \in Collectors : future[d] = Running}) < workers
  /\ future' = [future EXCEPT ![c] = Running]
  /\ UNCHANGED <<workers, phase, ordered, next, collected, judged>>

\* Mutant: a call that raised is submitted again.
ReturnRetrying(c, out) ==
  /\ phase \in {"gather", "aborting"}
  /\ future[c] = Running
  /\ future' = [future EXCEPT ![c] = IF out.kind = "raised" THEN Queued ELSE out]
  /\ UNCHANGED <<workers, phase, ordered, next, collected, judged>>

Return(c, out) ==
  /\ phase \in {"gather", "aborting"}
  /\ future[c] = Running
  /\ future' = [future EXCEPT ![c] = out]
  /\ UNCHANGED <<workers, phase, ordered, next, collected, judged>>

\* Mutant: results are appended in the order of completion.
StoreInCompletionOrder(c) ==
  LET slot == 1 + Cardinality({d \in Collectors : ordered[d] # Placeholder})
  IN /\ phase = "gather"
     /\ Finished(c) /\ slot \in Collectors
     /\ \/ /\ future[c].kind # "malformed"
           /\ ordered' = [ordered EXCEPT ![slot] = future[c]]
           /\ UNCHANGED phase
        \/ /\ future[c].kind = "malformed"
           /\ phase' = "aborting"
           /\ UNCHANGED ordered
     /\ UNCHANGED <<workers, future, next, collected, judged>>

\* Mutant: the loop over the futures ignores one whose result() raises.
StoreSwallowing(c) ==
  /\ phase = "gather"
  /\ Finished(c) /\ ordered[c] = Placeholder
  /\ future[c].kind # "malformed"
  /\ ordered' = [ordered EXCEPT ![c] = future[c]]
  /\ UNCHANGED <<workers, phase, future, next, collected, judged>>

\* as_completed yields a finished future; result() re-raises a malformed one.
Store(c) ==
  /\ phase = "gather"
  /\ Finished(c) /\ ordered[c] = Placeholder
  /\ \/ /\ future[c].kind # "malformed"
        /\ ordered' = [ordered EXCEPT ![c] = future[c]]
        /\ UNCHANGED phase
     \/ /\ future[c].kind = "malformed"
        /\ phase' = "aborting"
        /\ UNCHANGED ordered
  /\ UNCHANGED <<workers, future, next, collected, judged>>

\* Mutant: the executor is left with shutdown(wait=False).
AbortAtOnce ==
  /\ phase = "aborting"
  /\ Abort
  /\ UNCHANGED <<workers, future, ordered>>

\* Mutant: the merge waits for the threads and not for the slots.
BeginMergeUnstored ==
  /\ phase = "gather"
  /\ \A c \in Collectors : Finished(c)
  /\ phase' = "merge"
  /\ UNCHANGED <<workers, future, ordered, next, collected, judged>>

\* The executor's __exit__ waits for every future before the exception goes on.
AbortWhenDrained ==
  /\ phase = "aborting"
  /\ \A c \in Collectors : Finished(c)
  /\ Abort
  /\ UNCHANGED <<workers, future, ordered>>

BeginMerge ==
  /\ phase = "gather"
  /\ \A c \in Collectors : ordered[c] # Placeholder
  /\ phase' = "merge"
  /\ UNCHANGED <<workers, future, ordered, next, collected, judged>>

MergeNext ==
  /\ phase = "merge" /\ next \in Collectors
  /\ Absorb(next, ordered[next])
  /\ next' = next + 1
  /\ UNCHANGED <<workers, phase, future, ordered, judged>>

(***************************************************************************)
(* _run_rules_phase.                                                       *)
(***************************************************************************)
BeginRules ==
  /\ phase \in {"sequential", "merge"} /\ next = NumCollectors + 1
  /\ phase' = "rules"
  /\ next' = 1
  /\ UNCHANGED <<workers, future, ordered, collected, judged>>

RecordSkip ==
  /\ ruleResults' = Append(ruleResults, [rule |-> next, skipped |-> TRUE])
  /\ UNCHANGED <<rulesRun, findings>>

RecordRun(n) ==
  /\ ruleResults' = Append(ruleResults, [rule |-> next, skipped |-> FALSE])
  /\ rulesRun' = Append(rulesRun, next)
  /\ findings' = findings \o Copies(next, n)

GateRule ==
  /\ phase = "rules" /\ next \in Rules
  /\ ~ GateOpen(next, succeeded)
  /\ RecordSkip
  /\ next' = next + 1
  /\ UNCHANGED <<workers, phase, future, ordered, collected>>

\* Mutant: the handler of a rule's exception records no result.
EvaluateUnrecorded(out) ==
  /\ phase = "rules" /\ next \in Rules
  /\ GateOpen(next, succeeded)
  /\ \/ /\ \/ out.kind = "ok" /\ RecordRun(out.items)
           \/ out.kind = "skipped" /\ RecordSkip
           \/ out.kind = "raised" /\ UNCHANGED judged
        /\ next' = next + 1
        /\ UNCHANGED <<phase, collected>>
     \/ out.kind = "malformed" /\ Abort
  /\ UNCHANGED <<workers, future, ordered>>

Evaluate(out) ==
  /\ phase = "rules" /\ next \in Rules
  /\ GateOpen(next, succeeded)
  /\ \/ /\ \/ out.kind = "ok" /\ RecordRun(out.items)
           \/ out.kind \in {"raised", "skipped"} /\ RecordSkip
        /\ next' = next + 1
        /\ UNCHANGED <<phase, collected>>
     \/ out.kind = "malformed" /\ Abort
  /\ UNCHANGED <<workers, future, ordered>>

Finish ==
  /\ phase = "rules" /\ next = NumRules + 1
  /\ phase' = "done"
  /\ UNCHANGED <<workers, future, ordered, next, collected, judged>>

MainThread ==
  \/ \E out \in CollectorOutcome : CollectHere(out)
  \/ \E c \in Collectors : Store(c)
  \/ AbortWhenDrained
  \/ BeginMerge
  \/ MergeNext
  \/ BeginRules
  \/ GateRule
  \/ \E out \in RuleOutcome : Evaluate(out)
  \/ Finish

Worker(c) == Start(c) \/ \E out \in CollectorOutcome : Return(c, out)

Next == MainThread \/ \E c \in Collectors : Worker(c)

(***************************************************************************)
(* The main thread and every pool thread keep running, and a plugin call   *)
(* that was made returns.                                                  *)
(***************************************************************************)
Fairness ==
  /\ WF_vars(MainThread)
  /\ \A c \in Collectors : WF_vars(Worker(c))

Spec == Init /\ [][Next]_vars

FairSpec == Spec /\ Fairness

(***************************************************************************)
(* Properties.                                                             *)
(***************************************************************************)
TypeOK ==
  /\ workers \in 1 .. MaxWorkers
  /\ phase \in {"sequential", "gather", "aborting", "merge",
                "rules", "done", "aborted"}
  /\ future \in [Collectors -> CollectorOutcome \cup {Queued, Running}]
  /\ ordered \in [Collectors -> CollectorOutcome \cup {Placeholder}]
  /\ next \in 1 .. (NumCollectors + NumRules + 1)
  /\ evidence \in Seq(Collectors)
  /\ warnings \in Seq(Collectors)
  /\ succeeded \in SUBSET Collectors
  /\ ruleResults \in Seq(RuleResult)
  /\ rulesRun \in Seq(Rules)
  /\ findings \in Seq(Rules)

\* What one more collector, with this outcome, adds to what was gathered.
Gather(before, n, out) ==
  IF out.kind = "ok"
  THEN [before EXCEPT !.evidence = @ \o Copies(n, out.items),
                      !.succeeded = @ \cup {n}]
  ELSE [before EXCEPT !.warnings = Append(@, n)]

\* What collecting the first n collectors one after the other would leave.
Gathered[n \in 0 .. NumCollectors] ==
  IF n = 0
  THEN [evidence |-> <<>>, warnings |-> <<>>, succeeded |-> {}]
  ELSE Gather(Gathered[n - 1], n, future[n])

\* Whatever order the threads finish in, the rules see the evidence, the
\* warnings and the successes of a one-by-one run in registry order.
CollectionIsDeterministic ==
  phase \in {"rules", "done"} =>
    /\ evidence = Gathered[NumCollectors].evidence
    /\ warnings = Gathered[NumCollectors].warnings
    /\ succeeded = Gathered[NumCollectors].succeeded

\* A rule is never evaluated on partial evidence: every collector it requires
\* was active and returned, also when others were still failing meanwhile.
NoRuleOnFailedCollector ==
  \A i \in 1 .. Len(rulesRun) : \A c \in Required[rulesRun[i]] :
    c \in Collectors /\ future[c].kind = "ok"

\* At the end every registered rule has exactly one result, in registry order;
\* rulesRun are those not skipped, and only they contributed findings.
AccountingComplete ==
  phase = "done" =>
    /\ Len(ruleResults) = NumRules
    /\ \A r \in Rules : ruleResults[r].rule = r
    /\ \A i, j \in 1 .. Len(rulesRun) : i < j => rulesRun[i] < rulesRun[j]
    /\ {rulesRun[i] : i \in 1 .. Len(rulesRun)}
         = {r \in Rules : ~ ruleResults[r].skipped}
    /\ \A i \in 1 .. Len(findings) : ~ ruleResults[findings[i]].skipped

\* When run() merges, judges or has left, with or without an exception, no
\* collector thread is still working on the target repository.
PoolDrained ==
  workers > 1 /\ phase \in {"merge", "rules", "done", "aborted"} =>
    \A c \in Collectors : Finished(c)

\* What a scan still has to do: calls to make and to wait for, slots to fill,
\* turns of the loop the main thread is in and of those after it.
CallsWith(state) == {c \in Collectors : future[c] = state}
CallsLeft == 2 * Cardinality(CallsWith(Queued)) + Cardinality(CallsWith(Running))
SlotsUnfilled == {c \in Collectors : ordered[c] = Placeholder}
TurnsLeft ==
  CASE phase \in {"sequential", "merge"} -> (NumCollectors + 1 - next) + NumRules + 3
    [] phase = "gather" -> NumCollectors + NumRules + 5
    [] phase = "aborting" -> 1
    [] phase = "rules" -> (NumRules + 1 - next) + 1
    [] phase \in {"done", "aborted"} -> 0
WorkLeft == CallsLeft + Cardinality(SlotsUnfilled) + TurnsLeft

\* Every step of either kind of thread brings the scan nearer to its end: no
\* call is repeated, no slot emptied, no loop begun again, so that a scan takes
\* no more steps than it had work at the start, whatever the scheduling.
ScanAdvances == [][WorkLeft' < WorkLeft /\ WorkLeft \in Nat]_vars

\* Every scan ends, however the outcomes fall and whichever thread is slow.
Terminates == <>(phase \in {"done", "aborted"})

\* The docstring of the module and ARCHITECTURE.md promise this of any
\* misbehaving collector or rule; a call that returns a malformed value
\* breaks it.
NeverAborts == phase # "aborted"

(***************************************************************************)
(* Engine implements ScanContract: until the slots are merged the threads  *)
(* have done nothing the contract can see.                                 *)
(***************************************************************************)
AbstractPhase ==
  IF phase \in {"sequential", "gather", "aborting", "merge"}
  THEN "collect" ELSE phase

Contract == INSTANCE ScanContract WITH phase <- AbstractPhase

ContractSpec == Contract!Spec
=============================================================================
