---------------------------- MODULE EngineProofs ----------------------------
(***************************************************************************)
(* Proofs about Engine, for any number of collectors, rules and workers.   *)
(***************************************************************************)
EXTENDS Engine, FiniteSetTheorems, WellFoundedInduction, TLAPS

(***************************************************************************)
(* The inductive invariant.  TypeOK alone is not inductive: the range of   *)
(* next depends on which loop the main thread is in.                       *)
(***************************************************************************)
NextInRange ==
  /\ phase \in {"gather", "aborting", "aborted"} => next = 1
  /\ phase \in {"sequential", "merge"} => next <= NumCollectors + 1
  /\ phase \in {"rules", "done"} => next <= NumRules + 1

TypeInv == TypeOK /\ NextInRange

\* A filled slot holds what its collector returned, and that was no exception.
SlotsHonest ==
  \A c \in Collectors : ordered[c] # Placeholder =>
    ordered[c] = future[c] /\ ordered[c].kind \in {"ok", "raised"}

\* Once the merge has begun every slot is filled; sequential runs fill none.
SlotsFilled ==
  /\ phase = "sequential" => \A c \in Collectors : ordered[c] = Placeholder
  /\ workers > 1 =>
       /\ phase # "sequential"
       /\ phase \in {"merge", "rules", "done", "aborted"} =>
            \A c \in Collectors : Finished(c)
  /\ phase = "merge" => \A c \in Collectors : ordered[c] # Placeholder

SlotInv == TypeInv /\ SlotsHonest /\ SlotsFilled

\* A collector counts as succeeded only after its own turn and its own success.
SucceededAreOk ==
  /\ \A c \in succeeded : future[c].kind = "ok"
  /\ phase \in {"sequential", "merge"} => \A c \in succeeded : c < next
  /\ phase \in {"gather", "aborting", "aborted"} => succeeded = {}

\* Rules are judged only in the rules phase and on the collectors in succeeded.
JudgedOnSucceeded ==
  /\ phase \notin {"rules", "done"} =>
       ruleResults = <<>> /\ rulesRun = <<>> /\ findings = <<>>
  /\ \A i \in 1 .. Len(rulesRun) : Required[rulesRun[i]] \subseteq succeeded

SafetyInv == SlotInv /\ SucceededAreOk /\ JudgedOnSucceeded

-----------------------------------------------------------------------------
\* A list of n copies of p is a sequence over any set that p belongs to.
LEMMA CopiesType ==
  ASSUME NEW S, NEW p \in S, NEW n \in Nat
  PROVE  /\ Copies(p, n) \in Seq(S)
         /\ Len(Copies(p, n)) = n
         /\ \A i \in 1 .. n : Copies(p, n)[i] = p
BY DEF Copies

\* The bound of every outcome's item count, and the kinds it can have.
LEMMA OutcomeKinds ==
  /\ \A out \in CollectorOutcome :
       out.items \in Nat /\ out.kind \in {"ok", "raised", "malformed"}
  /\ \A out \in RuleOutcome :
       out.items \in Nat /\ out.kind \in {"ok", "raised", "malformed", "skipped"}
  /\ Queued \notin CollectorOutcome
  /\ Running \notin CollectorOutcome
  /\ Placeholder \notin CollectorOutcome
BY EngineAssumption
   DEF CollectorOutcome, RuleOutcome, Outcome, Queued, Running, Placeholder

\* An aborted scan is well typed: everything it had gathered is gone.
LEMMA AbortType ==
  ASSUME TypeOK, Abort, UNCHANGED <<workers, ordered>>,
         future' \in [Collectors -> CollectorOutcome \cup {Queued, Running}]
  PROVE  TypeInv'
BY EngineAssumption DEF Abort, TypeInv, TypeOK, NextInRange

\* One turn of the collection loop keeps the three collected lists well typed.
LEMMA AbsorbType ==
  ASSUME TypeOK, NEW c \in Collectors,
         NEW out \in CollectorOutcome \cup {Placeholder}, Absorb(c, out)
  PROVE  /\ evidence' \in Seq(Collectors)
         /\ warnings' \in Seq(Collectors)
         /\ succeeded' \in SUBSET Collectors
<1>1. CASE out.kind = "raised" /\ out # Placeholder
  <2>1. /\ warnings' = Append(warnings, c)
        /\ evidence' = evidence
        /\ succeeded' = succeeded
    BY <1>1 DEF Absorb
  <2>. QED
    BY <2>1 DEF TypeOK
<1>2. CASE out.kind = "ok" /\ out # Placeholder
  <2>1. out \in CollectorOutcome
    BY <1>2
  <2>2. Copies(c, out.items) \in Seq(Collectors)
    BY <2>1, CopiesType, OutcomeKinds
  <2>3. /\ evidence' = evidence \o Copies(c, out.items)
        /\ succeeded' = succeeded \cup {c}
        /\ warnings' = warnings
    BY <1>2 DEF Absorb
  <2>. QED
    BY <2>2, <2>3 DEF TypeOK
<1>3. CASE out = Placeholder
  BY <1>3 DEF Absorb, TypeOK, Placeholder, collected
<1>. QED
  BY <1>1, <1>2, <1>3 DEF Absorb

-----------------------------------------------------------------------------
\* Every step keeps the types, and next within the loop it belongs to.
LEMMA TypeStep == TypeInv /\ [Next]_vars => TypeInv'
<1>. SUFFICES ASSUME TypeInv, [Next]_vars PROVE TypeInv'
  OBVIOUS
<1>. USE EngineAssumption
<1>1. ASSUME NEW out \in CollectorOutcome, CollectHere(out) PROVE TypeInv'
  <2>1. future' \in [Collectors -> CollectorOutcome \cup {Queued, Running}]
    BY <1>1 DEF CollectHere, TypeInv, TypeOK
  <2>2. CASE Abort
    BY <1>1, <2>1, <2>2, AbortType DEF CollectHere, TypeInv
  <2>3. CASE Absorb(next, out) /\ next' = next + 1 /\ UNCHANGED <<phase, judged>>
    <3>1. /\ evidence' \in Seq(Collectors) /\ warnings' \in Seq(Collectors)
          /\ succeeded' \in SUBSET Collectors
      BY <1>1, <2>3, AbsorbType DEF CollectHere, TypeInv
    <3>. QED
      BY <1>1, <2>1, <2>3, <3>1
      DEF CollectHere, TypeInv, TypeOK, NextInRange, judged, Collectors
  <2>. QED
    BY <1>1, <2>2, <2>3 DEF CollectHere
<1>2. ASSUME NEW c \in Collectors, Store(c) PROVE TypeInv'
  BY <1>2 DEF Store, Finished, TypeInv, TypeOK, NextInRange, collected, judged
<1>3. CASE AbortWhenDrained
  BY <1>3, AbortType DEF AbortWhenDrained, TypeInv, TypeOK
<1>4. CASE BeginMerge
  BY <1>4 DEF BeginMerge, TypeInv, TypeOK, NextInRange, collected, judged
<1>5. CASE MergeNext
  <2>1. /\ next \in Collectors
        /\ ordered[next] \in CollectorOutcome \cup {Placeholder}
    BY <1>5 DEF MergeNext, TypeInv, TypeOK
  <2>2. /\ evidence' \in Seq(Collectors) /\ warnings' \in Seq(Collectors)
        /\ succeeded' \in SUBSET Collectors
    BY <1>5, <2>1, AbsorbType DEF MergeNext, TypeInv
  <2>. QED
    BY <1>5, <2>1, <2>2
    DEF MergeNext, TypeInv, TypeOK, NextInRange, judged, Collectors
<1>6. CASE BeginRules
  BY <1>6 DEF BeginRules, TypeInv, TypeOK, NextInRange, collected, judged
<1>7. CASE GateRule
  BY <1>7 DEF GateRule, RecordSkip, TypeInv, TypeOK, NextInRange, collected,
              Rules, RuleResult
<1>8. ASSUME NEW out \in RuleOutcome, Evaluate(out) PROVE TypeInv'
  <2>1. CASE Abort
    BY <1>8, <2>1, AbortType DEF Evaluate, TypeInv, TypeOK
  <2>2. CASE RecordSkip /\ next' = next + 1 /\ UNCHANGED <<phase, collected>>
    BY <1>8, <2>2 DEF Evaluate, RecordSkip, TypeInv, TypeOK, NextInRange,
                      collected, Rules, RuleResult
  <2>3. CASE RecordRun(out.items) /\ next' = next + 1 /\ UNCHANGED <<phase, collected>>
    <3>1. next \in Rules
      BY <1>8 DEF Evaluate
    <3>2. Copies(next, out.items) \in Seq(Rules)
      BY <3>1, CopiesType, OutcomeKinds
    <3>3. findings' \in Seq(Rules)
      BY <2>3, <3>2 DEF RecordRun, TypeInv, TypeOK
    <3>. QED
      BY <1>8, <2>3, <3>1, <3>3 DEF Evaluate, RecordRun, TypeInv, TypeOK,
                         NextInRange, collected, Rules, RuleResult
  <2>. QED
    BY <1>8, <2>1, <2>2, <2>3 DEF Evaluate
<1>9. CASE Finish
  BY <1>9 DEF Finish, TypeInv, TypeOK, NextInRange, collected, judged
<1>10. ASSUME NEW c \in Collectors, Worker(c) PROVE TypeInv'
  BY <1>10 DEF Worker, Start, Return, TypeInv, TypeOK, NextInRange, collected, judged
<1>11. CASE UNCHANGED vars
  BY <1>11 DEF vars, TypeInv, TypeOK, NextInRange, collected, judged
<1>. QED
  BY <1>1, <1>2, <1>3, <1>4, <1>5, <1>6, <1>7, <1>8, <1>9, <1>10, <1>11
  DEF Next, MainThread

\* The initial state is well typed.
LEMMA TypeInit == Init => TypeInv
BY EngineAssumption DEF Init, TypeInv, TypeOK, NextInRange

\* Type correctness: every variable has the type TypeOK gives it.
THEOREM TypeCorrect == Spec => []TypeOK
<1>1. TypeInv => TypeOK
  BY DEF TypeInv
<1>. QED
  BY TypeInit, TypeStep, <1>1, PTL DEF Spec

-----------------------------------------------------------------------------
\* SlotsHonest and SlotsFilled are inductive given the types.
LEMMA SlotStep ==
  TypeInv /\ SlotsHonest /\ SlotsFilled /\ [Next]_vars
    => SlotsHonest' /\ SlotsFilled'
<1>. SUFFICES ASSUME TypeInv, SlotsHonest, SlotsFilled, [Next]_vars
     PROVE  SlotsHonest' /\ SlotsFilled'
  OBVIOUS
<1>. USE WorkersAssumption, OutcomeKinds
<1>1. ASSUME NEW out \in CollectorOutcome, CollectHere(out)
      PROVE  SlotsHonest' /\ SlotsFilled'
  <2>1. workers = 1 /\ phase = "sequential"
    BY <1>1 DEF CollectHere, SlotsFilled, TypeInv, TypeOK
  <2>2. \A c \in Collectors : ordered[c] = Placeholder
    BY <2>1 DEF SlotsFilled
  <2>. QED
    BY <1>1, <2>1, <2>2 DEF CollectHere, Abort, SlotsHonest, SlotsFilled
<1>2. ASSUME NEW c \in Collectors, Store(c) PROVE SlotsHonest' /\ SlotsFilled'
  <2>1. phase' \in {"gather", "aborting"} /\ future' = future
    BY <1>2 DEF Store
  <2>2. SlotsHonest'
    BY <1>2 DEF Store, Finished, SlotsHonest, TypeInv, TypeOK
  <2>. QED
    BY <2>1, <2>2 DEF SlotsFilled
<1>3. CASE AbortWhenDrained
  BY <1>3 DEF AbortWhenDrained, Abort, Finished, SlotsHonest, SlotsFilled
<1>4. CASE BeginMerge
  BY <1>4 DEF BeginMerge, Finished, SlotsHonest, SlotsFilled, TypeInv, TypeOK
<1>5. CASE MergeNext
  BY <1>5 DEF MergeNext, Finished, SlotsHonest, SlotsFilled
<1>6. CASE BeginRules
  BY <1>6 DEF BeginRules, Finished, SlotsHonest, SlotsFilled
<1>7. CASE GateRule
  BY <1>7 DEF GateRule, Finished, SlotsHonest, SlotsFilled
<1>8. ASSUME NEW out \in RuleOutcome, Evaluate(out)
      PROVE  SlotsHonest' /\ SlotsFilled'
  <2>1. phase = "rules" /\ phase' \in {"rules", "aborted"}
        /\ future' = future /\ ordered' = ordered /\ workers' = workers
    BY <1>8 DEF Evaluate, Abort
  <2>. QED
    BY <2>1 DEF Finished, SlotsHonest, SlotsFilled
<1>9. CASE Finish
  BY <1>9 DEF Finish, Finished, SlotsHonest, SlotsFilled
<1>10. ASSUME NEW c \in Collectors, Worker(c) PROVE SlotsHonest' /\ SlotsFilled'
  <2>1. /\ phase' = phase /\ phase \in {"gather", "aborting"}
        /\ ordered' = ordered
        /\ future[c] \in {Queued, Running}
        /\ \A d \in Collectors : d # c => future'[d] = future[d]
    BY <1>10 DEF Worker, Start, Return, TypeInv, TypeOK
  <2>2. ordered[c] = Placeholder
    BY <2>1 DEF SlotsHonest, Queued, Running
  <2>. QED
    BY <2>1, <2>2 DEF SlotsHonest, SlotsFilled
<1>11. CASE UNCHANGED vars
  BY <1>11 DEF vars, Finished, SlotsHonest, SlotsFilled
<1>. QED
  BY <1>1, <1>2, <1>3, <1>4, <1>5, <1>6, <1>7, <1>8, <1>9, <1>10, <1>11
  DEF Next, MainThread

\* The invariants on the slots hold at first.
LEMMA SlotInit == Init => SlotsHonest /\ SlotsFilled
BY DEF Init, SlotsHonest, SlotsFilled

\* A run that merges, judges or has left has no collector thread at work.
THEOREM Drained == Spec => []PoolDrained
<1>1. SlotInv => PoolDrained
  BY DEF SlotInv, SlotsFilled, PoolDrained
<1>2. Init => SlotInv
  BY TypeInit, SlotInit DEF SlotInv
<1>3. SlotInv /\ [Next]_vars => SlotInv'
  BY TypeStep, SlotStep DEF SlotInv
<1>. QED
  BY <1>1, <1>2, <1>3, PTL DEF Spec

-----------------------------------------------------------------------------
\* A turn of the collection loop on an honest outcome keeps succeeded honest.
LEMMA AbsorbOk ==
  ASSUME SlotInv, SucceededAreOk, NEW out \in CollectorOutcome, out.kind # "malformed",
         next \in Collectors, phase \in {"sequential", "merge"},
         Absorb(next, out), next' = next + 1, phase' = phase,
         \A c \in Collectors : c # next => future'[c] = future[c],
         future'[next] = out
  PROVE  SucceededAreOk'
<1>1. /\ succeeded \subseteq Collectors
      /\ \A c \in succeeded : c < next /\ c \in Nat
  BY EngineAssumption DEF SucceededAreOk, SlotInv, TypeInv, TypeOK, Collectors
<1>2. CASE succeeded' = succeeded
  BY <1>1, <1>2, EngineAssumption DEF SucceededAreOk, Collectors
<1>3. CASE succeeded' = succeeded \cup {next} /\ out.kind = "ok"
  BY <1>1, <1>3, EngineAssumption DEF SucceededAreOk, Collectors
<1>. QED
  BY <1>2, <1>3 DEF Absorb, collected

\* SucceededAreOk and JudgedOnSucceeded are inductive given the slots.
LEMMA SafetyStep == SafetyInv /\ [Next]_vars => SucceededAreOk' /\ JudgedOnSucceeded'
<1>. SUFFICES ASSUME SafetyInv, [Next]_vars
     PROVE  SucceededAreOk' /\ JudgedOnSucceeded'
  OBVIOUS
<1>. USE EngineAssumption DEF SafetyInv
<1>0. ASSUME Abort PROVE SucceededAreOk' /\ JudgedOnSucceeded'
  BY <1>0 DEF Abort, SucceededAreOk, JudgedOnSucceeded
<1>1. ASSUME NEW out \in CollectorOutcome, CollectHere(out)
      PROVE  SucceededAreOk' /\ JudgedOnSucceeded'
  <2>1. CASE out.kind # "malformed"
    <3>1. /\ Absorb(next, out) /\ next' = next + 1 /\ phase' = phase
          /\ phase = "sequential" /\ next \in Collectors /\ UNCHANGED judged
          /\ future' = [future EXCEPT ![next] = out]
      BY <1>1, <2>1 DEF CollectHere, Abort
    <3>2. SucceededAreOk'
      BY <2>1, <3>1, AbsorbOk DEF SlotInv, TypeInv, TypeOK
    <3>. QED
      BY <3>1, <3>2 DEF JudgedOnSucceeded, judged
  <2>2. CASE out.kind = "malformed"
    BY <1>0, <1>1, <2>2 DEF CollectHere
  <2>. QED
    BY <2>1, <2>2
<1>2. ASSUME NEW c \in Collectors, Store(c)
      PROVE  SucceededAreOk' /\ JudgedOnSucceeded'
  BY <1>2 DEF Store, SucceededAreOk, JudgedOnSucceeded, collected, judged
<1>3. CASE AbortWhenDrained
  BY <1>0, <1>3 DEF AbortWhenDrained
<1>4. CASE BeginMerge
  BY <1>4 DEF BeginMerge, SucceededAreOk, JudgedOnSucceeded, collected, judged
<1>5. CASE MergeNext
  <2>1. /\ phase = "merge" /\ phase' = phase /\ next \in Collectors
        /\ Absorb(next, ordered[next]) /\ next' = next + 1
        /\ future' = future /\ UNCHANGED judged
    BY <1>5 DEF MergeNext
  <2>2. /\ ordered[next] \in CollectorOutcome
        /\ ordered[next] = future[next] /\ ordered[next].kind # "malformed"
    BY <2>1 DEF SlotInv, SlotsHonest, SlotsFilled, TypeInv, TypeOK
  <2>3. SucceededAreOk'
    BY <2>1, <2>2, AbsorbOk
  <2>. QED
    BY <2>1, <2>3 DEF JudgedOnSucceeded, judged
<1>6. CASE BeginRules
  BY <1>6 DEF BeginRules, SucceededAreOk, JudgedOnSucceeded, collected, judged
<1>7. CASE GateRule
  BY <1>7 DEF GateRule, RecordSkip, SucceededAreOk, JudgedOnSucceeded, collected
<1>8. ASSUME NEW out \in RuleOutcome, Evaluate(out)
      PROVE  SucceededAreOk' /\ JudgedOnSucceeded'
  <2>1. CASE Abort
    BY <1>0, <2>1
  <2>2. CASE RecordSkip /\ UNCHANGED <<phase, collected>>
    BY <1>8, <2>2 DEF Evaluate, RecordSkip, SucceededAreOk, JudgedOnSucceeded, collected
  <2>3. CASE RecordRun(out.items) /\ UNCHANGED <<phase, collected>>
    <3>1. /\ phase = "rules" /\ phase' = phase /\ future' = future
          /\ succeeded' = succeeded /\ rulesRun' = Append(rulesRun, next)
          /\ Required[next] \subseteq succeeded
      BY <1>8, <2>3 DEF Evaluate, RecordRun, GateOpen, collected
    <3>2. rulesRun \in Seq(Rules)
      BY DEF SlotInv, TypeInv, TypeOK
    <3>3. \A i \in 1 .. Len(rulesRun') : Required[rulesRun'[i]] \subseteq succeeded'
      BY <3>1, <3>2 DEF JudgedOnSucceeded
    <3>. QED
      BY <3>1, <3>3 DEF SucceededAreOk, JudgedOnSucceeded
  <2>. QED
    BY <1>8, <2>1, <2>2, <2>3 DEF Evaluate
<1>9. CASE Finish
  BY <1>9 DEF Finish, SucceededAreOk, JudgedOnSucceeded, collected, judged
<1>10. ASSUME NEW c \in Collectors, Worker(c)
       PROVE  SucceededAreOk' /\ JudgedOnSucceeded'
  <2>1. /\ phase \in {"gather", "aborting"} /\ phase' = phase
        /\ UNCHANGED <<next, collected, judged>>
    BY <1>10 DEF Worker, Start, Return
  <2>. QED
    BY <2>1 DEF SucceededAreOk, JudgedOnSucceeded, collected, judged
<1>11. CASE UNCHANGED vars
  BY <1>11 DEF vars, SucceededAreOk, JudgedOnSucceeded, collected, judged
<1>. QED
  BY <1>1, <1>2, <1>3, <1>4, <1>5, <1>6, <1>7, <1>8, <1>9, <1>10, <1>11
  DEF Next, MainThread

\* SafetyInv is an invariant of every behaviour.
LEMMA SafetyInvariant == Spec => []SafetyInv
<1>1. Init => SafetyInv
  BY TypeInit, SlotInit
  DEF Init, SafetyInv, SlotInv, SucceededAreOk, JudgedOnSucceeded
<1>2. SafetyInv /\ [Next]_vars => SafetyInv'
  BY TypeStep, SlotStep, SafetyStep DEF SafetyInv, SlotInv
<1>. QED
  BY <1>1, <1>2, PTL DEF Spec

\* No rule is ever evaluated unless every collector it requires was active and
\* returned its evidence.
THEOREM RulesRunOnFullEvidence == Spec => []NoRuleOnFailedCollector
<1>1. SafetyInv => NoRuleOnFailedCollector
  <2>. SUFFICES ASSUME SafetyInv, NEW i \in 1 .. Len(rulesRun),
                       NEW c \in Required[rulesRun[i]]
       PROVE  c \in Collectors /\ future[c].kind = "ok"
    BY DEF NoRuleOnFailedCollector
  <2>1. c \in succeeded
    BY DEF SafetyInv, JudgedOnSucceeded
  <2>. QED
    BY <2>1 DEF SafetyInv, SucceededAreOk, SlotInv, TypeInv, TypeOK
<1>. QED
  BY <1>1, SafetyInvariant, PTL

-----------------------------------------------------------------------------
(***************************************************************************)
(* Accounting.  The rules judged so far are 1 .. Len(ruleResults): each    *)
(* has its result at its own position, and rulesRun and findings name only *)
(* those that were not skipped.                                            *)
(***************************************************************************)
Judged(r) == r \in 1 .. Len(ruleResults) /\ ~ ruleResults[r].skipped

AccountingInv ==
  /\ phase = "rules" => Len(ruleResults) = next - 1
  /\ phase = "done" => Len(ruleResults) = NumRules
  /\ \A r \in 1 .. Len(ruleResults) : ruleResults[r].rule = r
  /\ \A i, j \in 1 .. Len(rulesRun) : i < j => rulesRun[i] < rulesRun[j]
  /\ \A i \in 1 .. Len(rulesRun) : Judged(rulesRun[i])
  /\ \A r \in 1 .. Len(ruleResults) :
       ~ ruleResults[r].skipped => \E i \in 1 .. Len(rulesRun) : rulesRun[i] = r
  /\ \A i \in 1 .. Len(findings) : Judged(findings[i])

AccInv == SafetyInv /\ AccountingInv

\* With nothing judged there is nothing to account for.
LEMMA NothingJudged ==
  ASSUME ruleResults = <<>>, rulesRun = <<>>, findings = <<>>,
         phase = "rules" => next = 1, phase # "done"
  PROVE  AccountingInv
BY DEF AccountingInv, Judged

\* Recording a skip at the end of ruleResults keeps the accounts.
LEMMA SkipAccounted ==
  ASSUME AccInv, phase = "rules", phase' = "rules", next' = next + 1, RecordSkip
  PROVE  AccountingInv'
<1>1. /\ ruleResults' = Append(ruleResults, [rule |-> next, skipped |-> TRUE])
      /\ rulesRun' = rulesRun /\ findings' = findings
  BY DEF RecordSkip
<1>2. /\ ruleResults \in Seq(RuleResult) /\ rulesRun \in Seq(Rules)
      /\ findings \in Seq(Rules) /\ next \in Nat
      /\ Len(ruleResults) = next - 1
  BY DEF AccInv, SafetyInv, SlotInv, TypeInv, TypeOK, AccountingInv
<1>3. /\ Len(ruleResults') = next
      /\ \A r \in 1 .. next - 1 : ruleResults'[r] = ruleResults[r]
      /\ ruleResults'[next] = [rule |-> next, skipped |-> TRUE]
  BY <1>1, <1>2
<1>4. \A r : Judged(r) => Judged(r)'
  BY <1>2, <1>3 DEF Judged
<1>. QED
  BY <1>1, <1>2, <1>3, <1>4 DEF AccInv, AccountingInv

\* Recording an evaluated rule and its findings keeps the accounts.
LEMMA RunAccounted ==
  ASSUME AccInv, phase = "rules", phase' = "rules", next' = next + 1, next \in Rules,
         NEW n \in Nat, RecordRun(n)
  PROVE  AccountingInv'
<1>1. /\ ruleResults' = Append(ruleResults, [rule |-> next, skipped |-> FALSE])
      /\ rulesRun' = Append(rulesRun, next)
      /\ findings' = findings \o Copies(next, n)
  BY DEF RecordRun
<1>2. /\ ruleResults \in Seq(RuleResult) /\ rulesRun \in Seq(Rules)
      /\ findings \in Seq(Rules) /\ next \in Nat
      /\ Len(ruleResults) = next - 1
  BY DEF AccInv, SafetyInv, SlotInv, TypeInv, TypeOK, AccountingInv
<1>3. /\ Len(ruleResults') = next
      /\ \A r \in 1 .. next - 1 : ruleResults'[r] = ruleResults[r]
      /\ ruleResults'[next] = [rule |-> next, skipped |-> FALSE]
  BY <1>1, <1>2
<1>4. /\ Len(rulesRun') = Len(rulesRun) + 1
      /\ \A i \in 1 .. Len(rulesRun) : rulesRun'[i] = rulesRun[i]
      /\ rulesRun'[Len(rulesRun) + 1] = next
  BY <1>1, <1>2
<1>5. /\ \A r : Judged(r) => Judged(r)'
      /\ \A r : r = next => Judged(r)'
  BY <1>2, <1>3 DEF Judged
<1>6. \A r \in 1 .. Len(ruleResults') : ruleResults'[r].rule = r
  BY <1>2, <1>3 DEF AccInv, AccountingInv
<1>7. \A i, j \in 1 .. Len(rulesRun') : i < j => rulesRun'[i] < rulesRun'[j]
  <2>1. \A i \in 1 .. Len(rulesRun) : rulesRun[i] \in Nat /\ rulesRun[i] < next
    BY <1>2 DEF AccInv, AccountingInv, Judged
  <2>2. \A i, j \in 1 .. Len(rulesRun) : i < j => rulesRun[i] < rulesRun[j]
    BY DEF AccInv, AccountingInv
  <2>3. Len(rulesRun) \in Nat
    BY <1>2
  <2>. SUFFICES ASSUME NEW i \in 1 .. Len(rulesRun'), NEW j \in 1 .. Len(rulesRun'),
                       i < j
       PROVE  rulesRun'[i] < rulesRun'[j]
    OBVIOUS
  <2>4. CASE j \in 1 .. Len(rulesRun)
    BY <1>4, <2>2, <2>3, <2>4
  <2>5. CASE j = Len(rulesRun) + 1
    BY <1>4, <2>1, <2>3, <2>5
  <2>. QED
    BY <1>4, <2>3, <2>4, <2>5
<1>8. \A i \in 1 .. Len(rulesRun') : Judged(rulesRun'[i]) \/ rulesRun'[i] = next
  BY <1>2, <1>4 DEF AccInv, AccountingInv
<1>9. \A i \in 1 .. Len(rulesRun') : Judged(rulesRun[i])'
  BY <1>5, <1>8
<1>10. \A r \in 1 .. Len(ruleResults') :
         ~ ruleResults'[r].skipped => \E i \in 1 .. Len(rulesRun') : rulesRun'[i] = r
  <2>. SUFFICES ASSUME NEW r \in 1 .. Len(ruleResults'), ~ ruleResults'[r].skipped
       PROVE  \E i \in 1 .. Len(rulesRun') : rulesRun'[i] = r
    OBVIOUS
  <2>1. CASE r = next
    BY <1>2, <1>4, <2>1
  <2>2. CASE r \in 1 .. next - 1
    <3>1. PICK i \in 1 .. Len(rulesRun) : rulesRun[i] = r
      BY <1>2, <1>3, <2>2 DEF AccInv, AccountingInv
    <3>. QED
      BY <1>2, <1>4, <3>1
  <2>. QED
    BY <1>2, <1>3, <2>1, <2>2
<1>11. \A i \in 1 .. Len(findings') : Judged(findings[i])'
  <2>1. /\ Copies(next, n) \in Seq(Rules) /\ Len(Copies(next, n)) = n
        /\ \A i \in 1 .. n : Copies(next, n)[i] = next
    BY CopiesType
  <2>. SUFFICES ASSUME NEW i \in 1 .. Len(findings') PROVE Judged(findings[i])'
    OBVIOUS
  <2>2. CASE i \in 1 .. Len(findings)
    <3>1. findings'[i] = findings[i]
      BY <1>1, <1>2, <2>1, <2>2
    <3>. QED
      BY <1>5, <2>2, <3>1 DEF AccInv, AccountingInv
  <2>3. CASE i \in Len(findings) + 1 .. Len(findings) + n
    <3>1. findings'[i] = next
      BY <1>1, <1>2, <2>1, <2>3
    <3>. QED
      BY <1>5, <3>1
  <2>. QED
    BY <1>1, <1>2, <2>1, <2>2, <2>3
<1>12. /\ (phase = "rules" => Len(ruleResults) = next - 1)'
       /\ (phase = "done" => Len(ruleResults) = NumRules)'
  BY <1>2, <1>3
<1>. QED
  BY <1>6, <1>7, <1>9, <1>10, <1>11, <1>12, Zenon DEF AccountingInv

\* Every step keeps the accounts.
LEMMA AccountingStep == AccInv /\ [Next]_vars => AccountingInv'
<1>. SUFFICES ASSUME AccInv, [Next]_vars PROVE AccountingInv'
  OBVIOUS
<1>0. ASSUME Abort PROVE AccountingInv'
  BY <1>0 DEF Abort, AccountingInv, Judged
<1>1. ASSUME phase \notin {"rules", "done"}, phase' # "done",
             phase' = "rules" => next' = 1, UNCHANGED judged
      PROVE  AccountingInv'
  <2>1. ruleResults' = <<>> /\ rulesRun' = <<>> /\ findings' = <<>>
    BY <1>1 DEF AccInv, SafetyInv, JudgedOnSucceeded, judged
  <2>. QED
    BY <1>1, <2>1 DEF AccountingInv, Judged
<1>2. ASSUME NEW out \in CollectorOutcome, CollectHere(out) PROVE AccountingInv'
  BY <1>0, <1>1, <1>2 DEF CollectHere
<1>3. ASSUME NEW c \in Collectors, Store(c) PROVE AccountingInv'
  BY <1>1, <1>3 DEF Store
<1>4. CASE AbortWhenDrained
  BY <1>0, <1>4 DEF AbortWhenDrained
<1>5. CASE BeginMerge \/ MergeNext \/ BeginRules
  BY <1>1, <1>5 DEF BeginMerge, MergeNext, BeginRules
<1>6. CASE GateRule
  BY <1>6, SkipAccounted DEF GateRule
<1>7. ASSUME NEW out \in RuleOutcome, Evaluate(out) PROVE AccountingInv'
  <2>1. phase = "rules" /\ next \in Rules /\ out.items \in Nat
    BY <1>7, OutcomeKinds DEF Evaluate
  <2>2. CASE Abort
    BY <1>0, <2>2
  <2>3. CASE RecordSkip /\ next' = next + 1 /\ phase' = phase
    BY <2>1, <2>3, SkipAccounted
  <2>4. CASE RecordRun(out.items) /\ next' = next + 1 /\ phase' = phase
    BY <2>1, <2>4, RunAccounted
  <2>. QED
    BY <1>7, <2>2, <2>3, <2>4 DEF Evaluate
<1>8. CASE Finish
  BY <1>8, EngineAssumption DEF Finish, AccInv, AccountingInv, Judged, judged
<1>9. ASSUME NEW c \in Collectors, Worker(c) PROVE AccountingInv'
  BY <1>1, <1>9 DEF Worker, Start, Return
<1>10. CASE UNCHANGED vars
  BY <1>10 DEF vars, AccInv, AccountingInv, Judged, judged
<1>. QED
  BY <1>2, <1>3, <1>4, <1>5, <1>6, <1>7, <1>8, <1>9, <1>10 DEF Next, MainThread

\* A finished scan has one result per registered rule, in order, and its
\* findings come from the rules it reports as run.
THEOREM EveryRuleAccounted == Spec => []AccountingComplete
<1>1. Init => AccInv
  <2>1. Init => SafetyInv
    BY TypeInit, SlotInit
    DEF Init, SafetyInv, SlotInv, SucceededAreOk, JudgedOnSucceeded
  <2>2. Init => AccountingInv
    BY NothingJudged DEF Init
  <2>. QED
    BY <2>1, <2>2 DEF AccInv
<1>2. AccInv /\ [Next]_vars => AccInv'
  BY TypeStep, SlotStep, SafetyStep, AccountingStep DEF AccInv, SafetyInv, SlotInv
<1>3. AccInv => AccountingComplete
  <2>. SUFFICES ASSUME AccInv, phase = "done" PROVE AccountingComplete
    BY DEF AccountingComplete
  <2>1. Len(ruleResults) = NumRules /\ rulesRun \in Seq(Rules)
    BY DEF AccInv, AccountingInv, SafetyInv, SlotInv, TypeInv, TypeOK
  <2>2. {rulesRun[i] : i \in 1 .. Len(rulesRun)}
          = {r \in Rules : ~ ruleResults[r].skipped}
    <3>1. \A i \in 1 .. Len(rulesRun) :
            rulesRun[i] \in Rules /\ ~ ruleResults[rulesRun[i]].skipped
      BY <2>1, EngineAssumption DEF AccInv, AccountingInv, Judged
    <3>2. \A r \in Rules : ~ ruleResults[r].skipped =>
            \E i \in 1 .. Len(rulesRun) : rulesRun[i] = r
      BY <2>1 DEF AccInv, AccountingInv, Rules
    <3>. QED
      BY <3>1, <3>2
  <2>. QED
    BY <2>1, <2>2 DEF AccountingComplete, AccInv, AccountingInv, Judged, Rules
<1>. QED
  BY <1>1, <1>2, <1>3, PTL DEF Spec

-----------------------------------------------------------------------------
(***************************************************************************)
(* Determinism of the collection.  Gathered is computed by recursion over  *)
(* the registry.  The collection loop goes the same way, so the invariant  *)
(* can carry the table of Gathered as far as the loop has come: each turn  *)
(* adds the entry it needs, and the last turn leaves a whole table.  What  *)
(* remains of induction is that there is only one such table.              *)
(***************************************************************************)
Snapshot(e, w, s) == [evidence |-> e, warnings |-> w, succeeded |-> s]

\* g holds what the first 0, 1, ..., n collectors leave, given their outcomes.
Table(g, outcomes, n) ==
  /\ g[0] = Snapshot(<<>>, <<>>, {})
  /\ \A m \in 1 .. n : g[m] = Gather(g[m - 1], m, outcomes[m])

\* The first n collectors leave these lists.
Leaves(outcomes, n, e, w, s) ==
  \E g : Table(g, outcomes, n) /\ g[n] = Snapshot(e, w, s)

\* How many collectors the collected lists stand for.
Merged ==
  IF phase \in {"sequential", "merge"} THEN next - 1
  ELSE IF phase \in {"rules", "done"} THEN NumCollectors ELSE 0

OneByOne == Leaves(future, Merged, evidence, warnings, succeeded)

DetInv == SlotInv /\ OneByOne

\* No collectors leave nothing.
LEMMA NothingYet == ASSUME NEW outcomes PROVE Leaves(outcomes, 0, <<>>, <<>>, {})
<1>. DEFINE g == [m \in {0} |-> Snapshot(<<>>, <<>>, {})]
<1>1. Table(g, outcomes, 0) /\ g[0] = Snapshot(<<>>, <<>>, {})
  BY DEF Table
<1>. QED
  BY <1>1 DEF Leaves

\* A table goes on with the entry of one more collector, and depends on no
\* outcome but those of its own collectors.
LEMMA OneMore ==
  ASSUME NEW n \in Nat, NEW old, NEW new, NEW e, NEW w, NEW s,
         Leaves(old, n, e, w, s), \A m \in 1 .. n : new[m] = old[m],
         NEW e2, NEW w2, NEW s2,
         Snapshot(e2, w2, s2) = Gather(Snapshot(e, w, s), n + 1, new[n + 1])
  PROVE  Leaves(new, n + 1, e2, w2, s2)
<1>1. PICK g : Table(g, old, n) /\ g[n] = Snapshot(e, w, s)
  BY DEF Leaves
<1>. DEFINE h == [m \in 0 .. n + 1 |->
                    IF m = n + 1 THEN Snapshot(e2, w2, s2) ELSE g[m]]
<1>2. h[n + 1] = Snapshot(e2, w2, s2) /\ \A m \in 0 .. n : h[m] = g[m]
  OBVIOUS
<1>. HIDE DEF h
<1>3. h[0] = Snapshot(<<>>, <<>>, {})
  BY <1>1, <1>2 DEF Table
<1>4. ASSUME NEW m \in 1 .. n + 1 PROVE h[m] = Gather(h[m - 1], m, new[m])
  <2>1. CASE m = n + 1
    BY <1>1, <1>2, <2>1
  <2>2. CASE m \in 1 .. n
    <3>1. /\ g[m] = Gather(g[m - 1], m, old[m]) /\ new[m] = old[m]
          /\ m \in 0 .. n /\ m - 1 \in 0 .. n
      BY <1>1, <2>2 DEF Table
    <3>. QED
      BY <1>2, <3>1
  <2>. QED
    BY <2>1, <2>2
<1>. QED
  BY <1>2, <1>3, <1>4 DEF Leaves, Table

\* What the first n collectors leave depends on no other outcome.
LEMMA SamePrefix ==
  ASSUME NEW n \in Nat, NEW old, NEW new, NEW e, NEW w, NEW s,
         Leaves(old, n, e, w, s), \A m \in 1 .. n : new[m] = old[m]
  PROVE  Leaves(new, n, e, w, s)
BY DEF Leaves, Table

\* A turn of the collection loop adds the entry of its collector to the table.
LEMMA AbsorbGathers ==
  ASSUME next \in Collectors, OneByOne, Merged = next - 1,
         NEW out \in CollectorOutcome, out.kind # "malformed", Absorb(next, out),
         \A c \in 1 .. next - 1 : future'[c] = future[c], future'[next] = out
  PROVE  Leaves(future', next, evidence', warnings', succeeded')
<1>1. Snapshot(evidence', warnings', succeeded')
        = Gather(Snapshot(evidence, warnings, succeeded), next, out)
  <2>1. out # Placeholder /\ out.kind \in {"ok", "raised"}
    BY OutcomeKinds
  <2>2. CASE out.kind = "ok"
    BY <2>1, <2>2 DEF Absorb, Gather, Snapshot
  <2>3. CASE out.kind = "raised"
    BY <2>1, <2>3 DEF Absorb, Gather, Snapshot
  <2>. QED
    BY <2>1, <2>2, <2>3
<1>2. next - 1 \in Nat /\ (next - 1) + 1 = next
  BY EngineAssumption DEF Collectors
<1>3. Leaves(future, next - 1, evidence, warnings, succeeded)
  BY DEF OneByOne
<1>. QED
  BY <1>1, <1>2, <1>3, OneMore

\* Every step keeps the collected lists those of a one-by-one run.
LEMMA OneByOneStep == DetInv /\ [Next]_vars => OneByOne'
<1>. SUFFICES ASSUME DetInv, [Next]_vars PROVE OneByOne'
  OBVIOUS
<1>. USE EngineAssumption
<1>1. /\ TypeInv /\ SlotsHonest /\ SlotsFilled /\ OneByOne
      /\ Merged \in Nat
  BY DEF DetInv, SlotInv, Merged, TypeInv, TypeOK
<1>2. ASSUME Abort PROVE OneByOne'
  BY <1>2, NothingYet DEF Abort, OneByOne, Merged
<1>3. ASSUME Merged' = Merged, UNCHANGED collected,
             \A c \in 1 .. Merged : future'[c] = future[c]
      PROVE  OneByOne'
  BY <1>1, <1>3, SamePrefix DEF OneByOne, collected
<1>4. ASSUME NEW out \in CollectorOutcome, CollectHere(out) PROVE OneByOne'
  <2>1. CASE Abort
    BY <1>2, <2>1
  <2>2. CASE /\ out.kind # "malformed" /\ Absorb(next, out) /\ next' = next + 1
             /\ UNCHANGED phase
    <3>1. /\ phase = "sequential" /\ next \in Collectors
          /\ future' = [future EXCEPT ![next] = out]
      BY <1>4 DEF CollectHere
    <3>2. /\ future'[next] = out
          /\ \A c \in 1 .. next - 1 : future'[c] = future[c]
      BY <1>1, <3>1 DEF TypeInv, TypeOK, Collectors
    <3>3. Merged = next - 1 /\ Merged' = next
      BY <2>2, <3>1 DEF Merged, Collectors
    <3>. QED
      BY <1>1, <2>2, <3>1, <3>2, <3>3, AbsorbGathers DEF OneByOne
  <2>. QED
    BY <1>4, <2>1, <2>2 DEF CollectHere
<1>5. ASSUME NEW c \in Collectors, Store(c) PROVE OneByOne'
  BY <1>3, <1>5 DEF Store, Merged
<1>6. CASE AbortWhenDrained
  BY <1>2, <1>6 DEF AbortWhenDrained
<1>7. CASE BeginMerge
  BY <1>1, <1>3, <1>7 DEF BeginMerge, Merged, TypeInv, NextInRange
<1>8. CASE MergeNext
  <2>1. /\ phase = "merge" /\ phase' = "merge" /\ next \in Collectors
        /\ Absorb(next, ordered[next]) /\ next' = next + 1 /\ future' = future
    BY <1>8 DEF MergeNext
  <2>2. /\ ordered[next] \in CollectorOutcome
        /\ ordered[next] = future[next] /\ ordered[next].kind # "malformed"
    BY <1>1, <2>1 DEF SlotsHonest, SlotsFilled, TypeInv, TypeOK
  <2>3. Merged = next - 1 /\ Merged' = next
    BY <2>1 DEF Merged, Collectors
  <2>. QED
    BY <1>1, <2>1, <2>2, <2>3, AbsorbGathers DEF OneByOne
<1>9. CASE BeginRules
  BY <1>3, <1>9 DEF BeginRules, Merged
<1>10. CASE GateRule
  BY <1>3, <1>10 DEF GateRule, RecordSkip, Merged
<1>11. ASSUME NEW out \in RuleOutcome, Evaluate(out) PROVE OneByOne'
  BY <1>2, <1>3, <1>11 DEF Evaluate, Merged
<1>12. CASE Finish
  BY <1>3, <1>12 DEF Finish, Merged
<1>13. ASSUME NEW c \in Collectors, Worker(c) PROVE OneByOne'
  <2>1. Merged = 0 /\ Merged' = 0 /\ UNCHANGED collected
    BY <1>13 DEF Worker, Start, Return, Merged
  <2>. QED
    BY <1>3, <2>1
<1>14. CASE UNCHANGED vars
  BY <1>3, <1>14 DEF vars, Merged
<1>. QED
  BY <1>4, <1>5, <1>6, <1>7, <1>8, <1>9, <1>10, <1>11, <1>12, <1>13, <1>14
  DEF Next, MainThread

\* There is one table only: an entry where two differ would have a first one.
LEMMA OneTable ==
  ASSUME NEW n \in Nat, NEW outcomes, NEW f, NEW g,
         Table(f, outcomes, n), Table(g, outcomes, n)
  PROVE  f[n] = g[n]
<1>. DEFINE Differ == {m \in 0 .. n : f[m] # g[m]}
<1>. DEFINE R == {mm \in Nat \X Nat : mm[1] < mm[2]}
<1>1. SUFFICES ASSUME Differ # {} PROVE FALSE
  OBVIOUS
<1>2. IsWellFoundedOn(R, Nat)
  BY NatLessThanWellFounded DEF OpToRel
<1>3. PICK m \in Differ : \A k \in Differ : <<k, m>> \notin R
  <2>1. Differ \subseteq Nat
    OBVIOUS
  <2>. HIDE DEF R, Differ
  <2>. QED
    BY <1>1, <1>2, <2>1, WFMin
<1>4. CASE m = 0
  BY <1>4 DEF Table
<1>5. CASE m \in 1 .. n
  <2>1. /\ m \in Nat /\ m - 1 \in Nat /\ m - 1 \in 0 .. n /\ m - 1 < m
        /\ <<m - 1, m>> \in R
    BY <1>5
  <2>2. f[m - 1] = g[m - 1]
    <3>1. m - 1 \notin Differ
      <4>. HIDE DEF R, Differ
      <4>. QED
        BY <1>3, <2>1
    <3>. QED
      BY <2>1, <3>1
  <2>. QED
    BY <1>3, <1>5, <2>2 DEF Table
<1>. QED
  BY <1>3, <1>4, <1>5

\* A whole table is Gathered.
LEMMA GatheredIs ==
  ASSUME NEW e, NEW w, NEW s, Leaves(future, NumCollectors, e, w, s)
  PROVE  Gathered[NumCollectors] = Snapshot(e, w, s)
<1>. DEFINE Body(g) ==
       [n \in 0 .. NumCollectors |->
          IF n = 0
          THEN [evidence |-> <<>>, warnings |-> <<>>, succeeded |-> {}]
          ELSE Gather(g[n - 1], n, future[n])]
<1>. USE EngineAssumption
<1>1. PICK t : Table(t, future, NumCollectors) /\ t[NumCollectors] = Snapshot(e, w, s)
  BY DEF Leaves
<1>2. \E g : g = Body(g)
  <2>. DEFINE g == [n \in 0 .. NumCollectors |-> t[n]]
  <2>1. ASSUME NEW n \in 1 .. NumCollectors PROVE t[n] = Gather(g[n - 1], n, future[n])
    <3>1. n - 1 \in 0 .. NumCollectors /\ t[n] = Gather(t[n - 1], n, future[n])
      BY <1>1 DEF Table
    <3>2. g[n - 1] = t[n - 1]
      BY <3>1
    <3>. QED
      BY <3>1, <3>2, Zenon
  <2>2. t[0] = [evidence |-> <<>>, warnings |-> <<>>, succeeded |-> {}]
    BY <1>1 DEF Table, Snapshot
  <2>3. ASSUME NEW n \in 0 .. NumCollectors
        PROVE  t[n] = IF n = 0
                      THEN [evidence |-> <<>>, warnings |-> <<>>, succeeded |-> {}]
                      ELSE Gather(g[n - 1], n, future[n])
    <3>. HIDE DEF g
    <3>1. n = 0 \/ n \in 1 .. NumCollectors
      OBVIOUS
    <3>. QED
      BY <2>1, <2>2, <3>1
  <2>4. g = Body(g)
    BY <2>3, Zenon
  <2>. QED
    BY <2>4
<1>3. Gathered = Body(Gathered)
  BY <1>2, Zenon DEF Gathered
<1>4. Table(Gathered, future, NumCollectors)
  <2>1. 0 \in 0 .. NumCollectors /\ Body(Gathered)[0] = Snapshot(<<>>, <<>>, {})
    BY DEF Snapshot
  <2>2. ASSUME NEW m \in 1 .. NumCollectors
        PROVE  Body(Gathered)[m] = Gather(Gathered[m - 1], m, future[m])
    OBVIOUS
  <2>. HIDE DEF Body
  <2>. QED
    BY <1>3, <2>1, <2>2 DEF Table
<1>. QED
  BY <1>1, <1>4, OneTable

\* Whatever order the threads finish in, the rules see the evidence, the warnings
\* and the successes of a one-by-one run in registry order.
THEOREM CollectionDeterministic == Spec => []CollectionIsDeterministic
<1>1. Init => DetInv
  <2>1. Init => OneByOne
    BY NothingYet DEF Init, OneByOne, Merged
  <2>. QED
    BY <2>1, TypeInit, SlotInit DEF DetInv, SlotInv
<1>2. DetInv /\ [Next]_vars => DetInv'
  BY TypeStep, SlotStep, OneByOneStep DEF DetInv, SlotInv
<1>3. DetInv => CollectionIsDeterministic
  <2>. SUFFICES ASSUME DetInv, phase \in {"rules", "done"}
       PROVE  CollectionIsDeterministic
    BY DEF CollectionIsDeterministic
  <2>1. Leaves(future, NumCollectors, evidence, warnings, succeeded)
    BY DEF DetInv, OneByOne, Merged
  <2>2. Gathered[NumCollectors] = Snapshot(evidence, warnings, succeeded)
    BY <2>1, GatheredIs
  <2>. QED
    BY <2>2 DEF CollectionIsDeterministic, Snapshot
<1>. QED
  BY <1>1, <1>2, <1>3, PTL DEF Spec

-----------------------------------------------------------------------------
(***************************************************************************)
(* Termination, but for the scheduling: the work left is a natural number  *)
(* and every step lessens it.                                              *)
(***************************************************************************)
\* There are finitely many collectors, so each count is a natural number, and a
\* set that is part of another counts no more.
LEMMA Counted ==
  ASSUME NEW S \in SUBSET Collectors
  PROVE  /\ IsFiniteSet(S) /\ Cardinality(S) \in Nat
         /\ \A T \in SUBSET S : Cardinality(T) <= Cardinality(S)
         /\ \A c \in S : Cardinality(S \ {c}) = Cardinality(S) - 1
         /\ \A c \in Collectors \ S : Cardinality(S \cup {c}) = Cardinality(S) + 1
<1>1. IsFiniteSet(Collectors)
  BY EngineAssumption, FS_Interval DEF Collectors
<1>2. IsFiniteSet(S)
  BY <1>1, FS_Subset
<1>. QED
  BY <1>2, FS_CardinalityType, FS_Subset, FS_RemoveElement, FS_AddElement

\* Each part of the work left is a natural number.
WorkNatural ==
  CallsLeft \in Nat /\ Cardinality(SlotsUnfilled) \in Nat /\ TurnsLeft \in Nat

LEMMA WorkIsNatural == TypeInv => WorkNatural
<1>. SUFFICES ASSUME TypeInv PROVE WorkNatural
  OBVIOUS
<1>. USE EngineAssumption
<1>1. /\ CallsWith(Queued) \in SUBSET Collectors /\ CallsWith(Running) \in SUBSET Collectors
      /\ SlotsUnfilled \in SUBSET Collectors
  BY DEF CallsWith, SlotsUnfilled
<1>2. next \in Nat /\ NumCollectors \in Nat /\ NumRules \in Nat
  BY DEF TypeInv, TypeOK
<1>3. CASE phase \in {"sequential", "merge"}
  <2>1. TurnsLeft = (NumCollectors + 1 - next) + NumRules + 3
    BY <1>3 DEF TurnsLeft
  <2>2. next <= NumCollectors + 1
    BY <1>3 DEF TypeInv, NextInRange
  <2>. QED
    BY <1>1, <1>2, <2>1, <2>2, Counted DEF CallsLeft, WorkNatural
<1>4. CASE phase = "rules"
  <2>1. TurnsLeft = (NumRules + 1 - next) + 1
    BY <1>4 DEF TurnsLeft
  <2>2. next <= NumRules + 1
    BY <1>4 DEF TypeInv, NextInRange
  <2>. QED
    BY <1>1, <1>2, <2>1, <2>2, Counted DEF CallsLeft, WorkNatural
<1>5. CASE phase \in {"gather", "aborting", "done", "aborted"}
  <2>1. TurnsLeft \in Nat
    BY <1>2, <1>5 DEF TurnsLeft
  <2>. QED
    BY <1>1, <2>1, Counted DEF CallsLeft, WorkNatural
<1>. QED
  BY <1>3, <1>4, <1>5 DEF TypeInv, TypeOK

\* A call that begins or ends is one call less to begin or to wait for.
LEMMA CallAdvances ==
  ASSUME TypeInv, NEW c \in Collectors, Worker(c)
  PROVE  CallsLeft' < CallsLeft
<1>1. /\ CallsWith(Queued) \in SUBSET Collectors
      /\ CallsWith(Running) \in SUBSET Collectors
  BY DEF CallsWith
<1>2. /\ Cardinality(CallsWith(Queued)) \in Nat
      /\ Cardinality(CallsWith(Running)) \in Nat
  BY <1>1, Counted
<1>3. CASE Start(c)
  <2>1. /\ c \in CallsWith(Queued) /\ c \notin CallsWith(Running)
        /\ CallsWith(Queued)' = CallsWith(Queued) \ {c}
        /\ CallsWith(Running)' = CallsWith(Running) \cup {c}
    BY <1>3 DEF Start, TypeInv, TypeOK, CallsWith, Queued, Running
  <2>2. /\ Cardinality(CallsWith(Queued)') = Cardinality(CallsWith(Queued)) - 1
        /\ Cardinality(CallsWith(Running)') = Cardinality(CallsWith(Running)) + 1
    BY <1>1, <2>1, Counted
  <2>3. CallsLeft' = 2 * Cardinality(CallsWith(Queued)') + Cardinality(CallsWith(Running)')
    BY DEF CallsLeft
  <2>. QED
    BY <1>2, <2>2, <2>3 DEF CallsLeft
<1>4. ASSUME NEW out \in CollectorOutcome, Return(c, out)
      PROVE  CallsLeft' < CallsLeft
  <2>1. /\ c \in CallsWith(Running)
        /\ CallsWith(Queued)' = CallsWith(Queued)
        /\ CallsWith(Running)' = CallsWith(Running) \ {c}
    BY <1>4, OutcomeKinds DEF Return, TypeInv, TypeOK, CallsWith, Queued, Running
  <2>2. Cardinality(CallsWith(Running)') = Cardinality(CallsWith(Running)) - 1
    BY <1>1, <2>1, Counted
  <2>3. CallsLeft' = 2 * Cardinality(CallsWith(Queued)') + Cardinality(CallsWith(Running)')
    BY DEF CallsLeft
  <2>. QED
    BY <1>2, <2>1, <2>2, <2>3 DEF CallsLeft
<1>. QED
  BY <1>3, <1>4 DEF Worker

\* A slot that is filled is one slot less to fill.
LEMMA SlotAdvances ==
  ASSUME TypeInv, NEW c \in Collectors, Store(c), phase' = phase
  PROVE  Cardinality(SlotsUnfilled') < Cardinality(SlotsUnfilled)
<1>1. SlotsUnfilled \in SUBSET Collectors /\ c \in SlotsUnfilled
  BY DEF SlotsUnfilled, Store
<1>2. SlotsUnfilled' = SlotsUnfilled \ {c}
  BY OutcomeKinds DEF Store, Finished, SlotsUnfilled, TypeInv, TypeOK
<1>. QED
  BY <1>1, <1>2, Counted

\* A collector called by the main thread is not called again.
LEMMA HereAdvances ==
  ASSUME TypeInv, NEW out \in CollectorOutcome, CollectHere(out)
  PROVE  CallsLeft' <= CallsLeft
<1>1. /\ CallsWith(Queued) \in SUBSET Collectors
      /\ CallsWith(Running) \in SUBSET Collectors
  BY DEF CallsWith
<1>2. /\ CallsWith(Queued)' \in SUBSET CallsWith(Queued)
      /\ CallsWith(Running)' \in SUBSET CallsWith(Running)
  BY OutcomeKinds DEF CollectHere, TypeInv, TypeOK, CallsWith
<1>3. /\ Cardinality(CallsWith(Queued)) \in Nat
      /\ Cardinality(CallsWith(Running)) \in Nat
      /\ Cardinality(CallsWith(Queued)') \in Nat
      /\ Cardinality(CallsWith(Running)') \in Nat
      /\ Cardinality(CallsWith(Queued)') <= Cardinality(CallsWith(Queued))
      /\ Cardinality(CallsWith(Running)') <= Cardinality(CallsWith(Running))
  <2>1. /\ CallsWith(Queued)' \in SUBSET Collectors
        /\ CallsWith(Running)' \in SUBSET Collectors
    BY <1>1, <1>2
  <2>. QED
    BY <1>1, <1>2, <2>1, Counted
<1>4. CallsLeft' = 2 * Cardinality(CallsWith(Queued)') + Cardinality(CallsWith(Running)')
  BY DEF CallsLeft
<1>. QED
  BY <1>3, <1>4 DEF CallsLeft

\* Every step of the main thread fills a slot or takes a turn of a loop.
LEMMA WorkStep == TypeInv /\ Next => WorkLeft \in Nat /\ WorkLeft' < WorkLeft
<1>. SUFFICES ASSUME TypeInv, Next PROVE WorkLeft \in Nat /\ WorkLeft' < WorkLeft
  OBVIOUS
<1>. USE EngineAssumption
<1>1. WorkNatural /\ WorkNatural'
  <2>1. TypeInv => WorkNatural
    BY WorkIsNatural
  <2>2. TypeInv' => WorkNatural'
    BY WorkIsNatural, PTL
  <2>. QED
    BY <2>1, <2>2, TypeStep
<1>2. SUFFICES WorkLeft' < WorkLeft
  BY <1>1 DEF WorkNatural, WorkLeft
<1>3. next \in Nat /\ NumCollectors \in Nat /\ NumRules \in Nat
  BY DEF TypeInv, TypeOK
<1>4. ASSUME CallsLeft' <= CallsLeft, SlotsUnfilled' = SlotsUnfilled,
             TurnsLeft' < TurnsLeft
      PROVE  WorkLeft' < WorkLeft
  BY <1>1, <1>4 DEF WorkNatural, WorkLeft
<1>5. ASSUME UNCHANGED <<future, ordered>>, TurnsLeft' < TurnsLeft
      PROVE  WorkLeft' < WorkLeft
  <2>1. CallsLeft' = CallsLeft /\ SlotsUnfilled' = SlotsUnfilled
    BY <1>5 DEF CallsLeft, CallsWith, SlotsUnfilled
  <2>. QED
    BY <1>1, <1>4, <1>5, <2>1 DEF WorkNatural
<1>6. ASSUME Abort, phase \notin {"done", "aborted"} PROVE TurnsLeft' < TurnsLeft
  <2>1. TurnsLeft' = 0
    BY <1>6 DEF Abort, TurnsLeft
  <2>3. CASE phase \in {"sequential", "merge"}
    <3>1. TurnsLeft = (NumCollectors + 1 - next) + NumRules + 3 /\ next <= NumCollectors + 1
      BY <2>3 DEF TurnsLeft, TypeInv, NextInRange
    <3>. QED
      BY <1>3, <2>1, <3>1
  <2>4. CASE phase = "rules"
    <3>1. TurnsLeft = (NumRules + 1 - next) + 1 /\ next <= NumRules + 1
      BY <2>4 DEF TurnsLeft, TypeInv, NextInRange
    <3>. QED
      BY <1>3, <2>1, <3>1
  <2>5. CASE phase = "gather"
    <3>1. TurnsLeft = NumCollectors + NumRules + 5
      BY <2>5 DEF TurnsLeft
    <3>. QED
      BY <1>3, <2>1, <3>1
  <2>6. CASE phase = "aborting"
    <3>1. TurnsLeft = 1
      BY <2>6 DEF TurnsLeft
    <3>. QED
      BY <2>1, <3>1
  <2>. QED
    BY <1>6, <2>3, <2>4, <2>5, <2>6 DEF TypeInv, TypeOK
<1>7. ASSUME phase \in {"sequential", "merge"}, phase' = phase,
             next \in Collectors, next' = next + 1
      PROVE  TurnsLeft' < TurnsLeft
  BY <1>3, <1>7 DEF TurnsLeft, Collectors
<1>8. ASSUME phase = "rules", phase' = phase, next \in Rules, next' = next + 1
      PROVE  TurnsLeft' < TurnsLeft
  BY <1>3, <1>8 DEF TurnsLeft, Rules
<1>9. ASSUME NEW out \in CollectorOutcome, CollectHere(out) PROVE WorkLeft' < WorkLeft
  <2>1. CallsLeft' <= CallsLeft
    BY <1>9, HereAdvances
  <2>2. phase = "sequential" /\ next \in Collectors /\ SlotsUnfilled' = SlotsUnfilled
    BY <1>9 DEF CollectHere, SlotsUnfilled
  <2>3. TurnsLeft' < TurnsLeft
    BY <1>6, <1>7, <1>9, <2>2 DEF CollectHere
  <2>. QED
    BY <1>4, <2>1, <2>2, <2>3
<1>10. ASSUME NEW c \in Collectors, Store(c) PROVE WorkLeft' < WorkLeft
  <2>1. CallsLeft' = CallsLeft
    BY <1>10 DEF Store, CallsLeft, CallsWith
  <2>2. CASE phase' = phase
    <3>1. TurnsLeft' = TurnsLeft
      BY <1>10, <2>2 DEF Store, TurnsLeft
    <3>2. Cardinality(SlotsUnfilled') < Cardinality(SlotsUnfilled)
      BY <1>10, <2>2, SlotAdvances
    <3>. QED
      BY <1>1, <2>1, <3>1, <3>2 DEF WorkNatural, WorkLeft
  <2>3. CASE phase' = "aborting" /\ ordered' = ordered
    BY <1>3, <1>5, <1>10, <2>3 DEF Store, TurnsLeft
  <2>. QED
    BY <1>10, <2>2, <2>3 DEF Store
<1>11. CASE AbortWhenDrained
  BY <1>5, <1>6, <1>11 DEF AbortWhenDrained
<1>12. CASE BeginMerge
  <2>1. next = 1
    BY <1>12 DEF BeginMerge, TypeInv, NextInRange
  <2>. QED
    BY <1>3, <1>5, <1>12, <2>1 DEF BeginMerge, TurnsLeft
<1>13. CASE MergeNext
  BY <1>5, <1>7, <1>13 DEF MergeNext
<1>14. CASE BeginRules
  BY <1>3, <1>5, <1>14 DEF BeginRules, TurnsLeft
<1>15. CASE GateRule
  BY <1>5, <1>8, <1>15 DEF GateRule
<1>16. ASSUME NEW out \in RuleOutcome, Evaluate(out) PROVE WorkLeft' < WorkLeft
  BY <1>5, <1>6, <1>8, <1>16 DEF Evaluate
<1>17. CASE Finish
  BY <1>3, <1>5, <1>17 DEF Finish, TurnsLeft
<1>18. ASSUME NEW c \in Collectors, Worker(c) PROVE WorkLeft' < WorkLeft
  <2>1. SlotsUnfilled' = SlotsUnfilled /\ TurnsLeft' = TurnsLeft
    BY <1>18 DEF Worker, Start, Return, SlotsUnfilled, TurnsLeft
  <2>2. CallsLeft' < CallsLeft
    BY <1>18, CallAdvances
  <2>. QED
    BY <1>1, <2>1, <2>2 DEF WorkNatural, WorkLeft
<1>. QED
  BY <1>9, <1>10, <1>11, <1>12, <1>13, <1>14, <1>15, <1>16, <1>17, <1>18
  DEF Next, MainThread

\* Every step of a scan brings it nearer to its end, and there is an end: work
\* is counted in natural numbers.  No scan goes on for ever, whatever the pool
\* and the outcomes.
THEOREM EveryStepAdvances == Spec => ScanAdvances
<1>1. TypeInv /\ [Next]_vars => [WorkLeft' < WorkLeft /\ WorkLeft \in Nat]_vars
  BY WorkStep
<1>. QED
  BY <1>1, TypeInit, TypeStep, PTL DEF Spec, ScanAdvances

-----------------------------------------------------------------------------
(***************************************************************************)
(* Engine implements ScanContract.  The threads' steps and the filling of  *)
(* the slots are stutters; the merge and the rules map to the contract's   *)
(* own actions, one for one.                                               *)
(***************************************************************************)
\* What an exception leaves behind is what the contract calls an abort.
LEMMA AbortImplements ==
  ASSUME Abort, phase \in {"sequential", "gather", "aborting", "merge"}
  PROVE  Contract!CollectAborts
BY DEF Abort, AbstractPhase, Contract!CollectAborts, Contract!Lost

\* A turn of either collection loop is the contract's Collect.
LEMMA AbsorbImplements ==
  ASSUME phase \in {"sequential", "merge"}, phase' = phase, next \in Collectors,
         NEW out \in CollectorOutcome, Absorb(next, out), next' = next + 1,
         UNCHANGED judged
  PROVE  Contract!Collect
<1>1. out # Placeholder
  BY OutcomeKinds
<1>2. Contract!Absorb(next, out)
  BY <1>1 DEF Absorb, Contract!Absorb, Copies, Contract!Copies
<1>. QED
  BY <1>2 DEF Contract!Collect, Contract!judged, AbstractPhase, judged,
              Contract!Collectors, Contract!CollectorOutcome, Contract!Outcome,
              Collectors, CollectorOutcome, Outcome

\* Every step of Engine is a step or a stutter of the contract.
LEMMA ContractStep == SafetyInv /\ [Next]_vars => [Contract!Next]_(Contract!vars)
<1>. SUFFICES ASSUME SafetyInv, [Next]_vars PROVE [Contract!Next]_(Contract!vars)
  OBVIOUS
<1>. USE EngineAssumption
<1>1. ASSUME NEW out \in CollectorOutcome, CollectHere(out)
      PROVE  Contract!Next
  <2>1. CASE Abort
    BY <1>1, <2>1, AbortImplements DEF CollectHere, Contract!Next
  <2>2. CASE Absorb(next, out) /\ next' = next + 1 /\ UNCHANGED <<phase, judged>>
    BY <1>1, <2>2, AbsorbImplements DEF CollectHere, Contract!Next
  <2>. QED
    BY <1>1, <2>1, <2>2 DEF CollectHere
<1>2. ASSUME AbstractPhase' = AbstractPhase, UNCHANGED <<next, collected, judged>>
      PROVE  UNCHANGED Contract!vars
  BY <1>2 DEF Contract!vars, Contract!collected, Contract!judged, collected, judged
<1>3. ASSUME NEW c \in Collectors, Store(c) PROVE UNCHANGED Contract!vars
  BY <1>2, <1>3 DEF Store, AbstractPhase
<1>4. CASE AbortWhenDrained
  BY <1>4, AbortImplements DEF AbortWhenDrained, Contract!Next
<1>5. CASE BeginMerge
  BY <1>2, <1>5 DEF BeginMerge, AbstractPhase
<1>6. CASE MergeNext
  <2>1. ordered[next] \in CollectorOutcome
    BY <1>6 DEF MergeNext, SafetyInv, SlotInv, SlotsFilled, TypeInv, TypeOK
  <2>. QED
    BY <1>6, <2>1, AbsorbImplements DEF MergeNext, Contract!Next
<1>7. CASE BeginRules
  BY <1>7 DEF BeginRules, AbstractPhase, Contract!Next, Contract!BeginRules,
              collected, judged, Contract!collected, Contract!judged
<1>8. ASSUME phase = "rules", phase' = phase, next \in Rules, RecordSkip,
             next' = next + 1, UNCHANGED collected
      PROVE  Contract!SkipRule
  BY <1>8 DEF RecordSkip, AbstractPhase, Contract!SkipRule, Contract!Rules, Rules,
              Contract!collected, collected
<1>9. CASE GateRule
  BY <1>8, <1>9 DEF GateRule, Contract!Next
<1>10. ASSUME NEW out \in RuleOutcome, Evaluate(out) PROVE Contract!Next
  <2>1. phase = "rules" /\ next \in Rules /\ GateOpen(next, succeeded)
    BY <1>10 DEF Evaluate
  <2>2. CASE Abort
    BY <2>1, <2>2 DEF Abort, AbstractPhase, Contract!Next, Contract!RuleAborts,
                      Contract!Lost, Contract!Rules, Rules
  <2>3. CASE RecordSkip /\ next' = next + 1 /\ UNCHANGED <<phase, collected>>
    BY <1>8, <2>1, <2>3 DEF Contract!Next
  <2>4. CASE /\ out.kind = "ok" /\ RecordRun(out.items)
             /\ next' = next + 1 /\ UNCHANGED <<phase, collected>>
    <3>1. out.items \in 0 .. MaxItems
      BY DEF RuleOutcome, Outcome
    <3>2. Contract!RunRule
      BY <2>1, <2>4, <3>1
      DEF RecordRun, AbstractPhase, Contract!RunRule, Contract!Rules, Rules,
          Contract!GateOpen, GateOpen, Contract!Copies, Copies,
          Contract!collected, collected
    <3>. QED
      BY <3>2 DEF Contract!Next
  <2>. QED
    BY <1>10, <2>2, <2>3, <2>4 DEF Evaluate
<1>11. CASE Finish
  BY <1>11 DEF Finish, AbstractPhase, Contract!Next, Contract!Finish,
               collected, judged, Contract!collected, Contract!judged
<1>12. ASSUME NEW c \in Collectors, Worker(c) PROVE UNCHANGED Contract!vars
  BY <1>2, <1>12 DEF Worker, Start, Return, AbstractPhase
<1>13. CASE UNCHANGED vars
  BY <1>2, <1>13 DEF vars, AbstractPhase
<1>. QED
  BY <1>1, <1>3, <1>4, <1>5, <1>6, <1>7, <1>9, <1>10, <1>11, <1>12, <1>13
  DEF Next, MainThread

\* With any number of threads a scan is a scan the sequential contract allows.
THEOREM EngineImplementsContract == Spec => ContractSpec
<1>1. Init => Contract!Init
  BY DEF Init, Contract!Init, AbstractPhase
<1>. QED
  BY <1>1, ContractStep, SafetyInvariant, PTL DEF Spec, ContractSpec, Contract!Spec
=============================================================================
