----------------------------- MODULE EngineBase -----------------------------
(***************************************************************************)
(* What a scan works on (src/nfr_review/engine.py, models.py): the active  *)
(* collectors in registry order, the registered rules, the ways a plugin   *)
(* call can end, and the four gates a rule passes before it is evaluated.  *)
(*                                                                         *)
(* A collector or rule is its position in the registry.  Position 0 stands *)
(* for every collector that config.collectors.skip leaves out of the       *)
(* active list, so a rule that requires 0 can never be eligible.           *)
(***************************************************************************)
EXTENDS Integers, Sequences

CONSTANTS
  NumCollectors,   \* active collectors, in registry order
  NumRules,        \* registered rules, in registry order
  MaxItems,        \* bound: items one plugin call may return
  Required,        \* rule -> collectors it requires (required_collectors)
  NeedsTech,       \* rule -> tech keys it requires (required_tech)
  Tech,            \* the tech keys config.tech declares true
  SkipRules,       \* config.rules.skip
  IncludeOnly      \* config.rules.include_only; all rules when it is None

Collectors == 1 .. NumCollectors
Rules == 1 .. NumRules

ASSUME EngineAssumption ==
  /\ NumCollectors \in Nat
  /\ NumRules \in Nat
  /\ MaxItems \in Nat
  /\ Required \in [Rules -> SUBSET (0 .. NumCollectors)]

(***************************************************************************)
(* How a plugin call ends.  "ok" carries the number of items that count:   *)
(* evidence left after the path filter, or findings.  "skipped" is a rule  *)
(* that reports itself skipped.  "malformed" is a call that returns, but   *)
(* not what its protocol says (None, a generator that raises when it is    *)
(* iterated, an item without a locator): the code that consumes the value  *)
(* raises, outside the try block around the call.                          *)
(***************************************************************************)
Outcome(kinds) ==
  [kind : {"ok"}, items : 0 .. MaxItems] \cup [kind : kinds, items : {0}]

CollectorOutcome == Outcome({"raised", "malformed"})
RuleOutcome == Outcome({"raised", "malformed", "skipped"})

\* A list of n items produced by plugin p.
Copies(p, n) == [i \in 1 .. n |-> p]

\* The gates of a rule, given the names of the collectors that succeeded.
GateOpen(r, succeeded) ==
  /\ r \notin SkipRules
  /\ r \in IncludeOnly
  /\ NeedsTech[r] \subseteq Tech
  /\ Required[r] \subseteq succeeded

RuleResult == [rule : Rules, skipped : BOOLEAN]
=============================================================================
