----------------------------- MODULE DepSolver -----------------------------
(***************************************************************************)
(* Choosing versions for the declared dependencies (dep_solver.py), without *)
(* transitive ones, as the rule dep-upgrade-path calls it.                 *)
(*                                                                         *)
(* A version is a number, some are pre-releases.  A specifier is the set   *)
(* of versions it spans and whether it names a pre-release.                *)
(***************************************************************************)
EXTENDS Naturals, FiniteSets

CONSTANTS Versions, Prereleases,
          AnyVersion, \* no specifier, or one that cannot be translated
          Malformed   \* a specifier that SpecifierSet refuses, "[1.0,2.0)" say

ASSUME DepSolverAssumption ==
  /\ Versions \subseteq Nat /\ IsFiniteSet(Versions) /\ Prereleases \subseteq Versions

Ranges == [span : SUBSET Versions, pre : BOOLEAN]
Specifiers == Ranges \cup {AnyVersion, Malformed}

\* packaging: `v in SpecifierSet`; pre-releases only if the specifier has one.
InRange(v, range) == v \in range.span /\ (v \in Prereleases => range.pre)

\* The specifiers joined by find_matches; it skips those it cannot parse.
Parsed(specs) == specs \ {AnyVersion, Malformed}
CombinedOfAny(specs) ==  \* mutant: what some specifier allows
  [span |-> {v \in Versions : \E s \in Parsed(specs) : v \in s.span},
   pre |-> \E s \in Parsed(specs) : s.pre]
Combined(specs) ==
  [span |-> {v \in Versions : \A s \in Parsed(specs) : v \in s.span},
   pre |-> \E s \in Parsed(specs) : s.pre]

FindMatches(published, specs) ==
  LET filtered == IF Parsed(specs) = {} THEN published
                  ELSE {v \in published : InRange(v, Combined(specs))}
      stable == filtered \ Prereleases
  IN  IF ~ Combined(specs).pre /\ stable # {} THEN stable ELSE filtered

\* is_satisfied_by does not skip them.
IsSatisfiedBy(spec, v) ==
  \/ spec = AnyVersion
  \/ spec \notin {AnyVersion, Malformed} /\ InRange(v, spec)

Oldest(vs) == CHOOSE v \in vs : \A w \in vs : v <= w  \* mutant: sorted upwards
Newest(vs) == CHOOSE v \in vs : \A w \in vs : w <= v

(***************************************************************************)
(* resolvelib: the requirements are added one after the other, and each    *)
(* must leave a candidate; then the first candidate is pinned, and it is   *)
(* an error of the provider if it does not satisfy every requirement.  The *)
(* input maps places of the manifest to what is declared there.            *)
(***************************************************************************)
SpecsOf(input, name, places) ==
  {input[i].spec : i \in {i \in places : input[i].name = name}}
NamesOf(input) == {input[i].name : i \in DOMAIN input}

Candidates(input, published, name, places) ==
  FindMatches(published[name], SpecsOf(input, name, places))
PinOf(input, published, name) ==
  Newest(Candidates(input, published, name, DOMAIN input))

Unsolvable(input, published) ==
  \E n \in DOMAIN input :
    Candidates(input, published, input[n].name, {i \in DOMAIN input : i <= n}) = {}
Inconsistent(input, published) ==
  \E name \in NamesOf(input) : \E s \in SpecsOf(input, name, DOMAIN input) :
    ~ IsSatisfiedBy(s, PinOf(input, published, name))

\* resolve_dependencies: the pins, or "unsolvable", or "raises".
ResolveDependencies(input, published) ==
  IF Unsolvable(input, published) THEN "unsolvable"
  ELSE IF Inconsistent(input, published) THEN "raises" ELSE "resolved"
=============================================================================
