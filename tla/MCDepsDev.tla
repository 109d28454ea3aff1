----------------------------- MODULE MCDepsDev -----------------------------
(***************************************************************************)
(* A package with two stable versions and a pre-release, one that the      *)
(* registry does not know; manifests that name a package twice, ask for    *)
(* the impossible, name a pre-release and do not, or use a specifier that  *)
(* cannot be parsed.                                                       *)
(***************************************************************************)
EXTENDS DepsDev

CONSTANTS a, b, s1, s2

MCPublished == [p \in Packages |-> IF p = a THEN {1, 2, 3} ELSE None]

From(v) == [span |-> {w \in Versions : w >= v}, pre |-> v \in Prereleases]
UpTo(v) == [span |-> {w \in Versions : w <= v}, pre |-> FALSE]
Wants(p, spec) == [name |-> p, spec |-> spec]

Twice == <<Wants(a, From(1)), Wants(a, UpTo(2))>>
Impossible == <<Wants(a, From(2)), Wants(a, UpTo(1))>>
WithUnknown == <<Wants(b, AnyVersion), Wants(a, From(3))>>
Odd == <<Wants(a, Malformed)>>
Mixed == <<Wants(a, From(3)), Wants(a, From(1))>>
MCManifests == {Twice, Impossible, WithUnknown, Odd, Mixed}
=============================================================================
