----------------------------- MODULE Baseline -----------------------------
(***************************************************************************)
(* How a scan is compared with an earlier one (src/nfr_review/baseline.py, *)
(* models.py, suppression.py).                                             *)
(*                                                                         *)
(* A group stands for what all keys of a finding share: rule id, file and  *)
(* pattern tag.  A locator is then its line, and line 0 is a locator that  *)
(* names the file alone.  The hash is the content hash of the source text; *)
(* findings of one group may well share it.                                *)
(***************************************************************************)
EXTENDS Naturals

CONSTANTS
  Groups,    \* rule id, file and pattern tag
  Hashes,    \* content hashes
  NoHash,    \* the empty content hash
  Lines      \* line numbers, from 1

ASSUME BaselineAssumption ==
  /\ NoHash \notin Hashes
  /\ Lines \subseteq Nat \ {0} /\ Lines # {}

Finding == [group : Groups, line : Lines \cup {0}, hash : Hashes \cup {NoHash}]

\* Keys are findings with a part left out: the legacy key has no hash, the
\* stable key no line.
IdentityKeyOfFile(f) == [group |-> f.group, line |-> 0, hash |-> NoHash]  \* mutant
IdentityKey(f) == [group |-> f.group, line |-> f.line, hash |-> NoHash]
ContentKey(f) == [group |-> f.group, line |-> 0, hash |-> f.hash]
StableIdentityKey(f) == IF f.hash # NoHash THEN ContentKey(f) ELSE IdentityKey(f)

(***************************************************************************)
(* Suppression: a marker on the line of a finding or on the line above it. *)
(* A finding without a line has none.                                      *)
(***************************************************************************)
IsFindingSuppressed(f, markers) ==
  /\ f.line # 0
  /\ \E l \in {f.line, f.line - 1} : <<f.group, l>> \in markers

(***************************************************************************)
(* Every record counts, also those of suppressed and of resolved findings. *)
(***************************************************************************)
LoadBaselineOfActive(records) ==  \* mutant: suppressed findings do not count
  LET active == {r \in records : r.class # "suppressed"}
  IN  [legacy_keys |-> {IdentityKey(r) : r \in active},
       stable_keys |-> {ContentKey(r) : r \in {r \in active : r.hash # NoHash}}]
LoadBaseline(records) ==
  [legacy_keys |-> {IdentityKey(r) : r \in records},
   stable_keys |-> {ContentKey(r) : r \in {r \in records : r.hash # NoHash}}]

StableMatch(f, baseline) ==
  f.hash # NoHash /\ StableIdentityKey(f) \in baseline.stable_keys
LegacyMatch(f, baseline) == IdentityKey(f) \in baseline.legacy_keys

\* filter_new_findings, and the `new` of classify_findings.
FilterNewFindings(findings, baseline) ==
  {f \in findings : ~ StableMatch(f, baseline) /\ ~ LegacyMatch(f, baseline)}

(***************************************************************************)
(* classify_findings.  Stable keys that no finding matched are resolved;   *)
(* so are such legacy keys, unless a resolved key of the group names the   *)
(* file alone.  A legacy key that does so itself hides only the keys that  *)
(* come later in the iteration of a set, hence the choice of `later`.      *)
(***************************************************************************)
ShiftedFindings(findings, baseline) ==
  {f \in findings : StableMatch(f, baseline) /\ ~ LegacyMatch(f, baseline)}

\* The locator a shifted finding is said to come from: that of any legacy key
\* of its group, whichever the iteration meets last.
BaselineLocators(f, baseline) ==
  {k.line : k \in {k \in baseline.legacy_keys : k.group = f.group}}

UnmatchedStable(findings, baseline) ==
  baseline.stable_keys \ {StableIdentityKey(f) : f \in findings}
UnmatchedLegacyElse(findings, baseline) ==  \* mutant: only if the stable key is no match
  baseline.legacy_keys
    \ {IdentityKey(f) : f \in {f \in findings : ~ StableMatch(f, baseline)}}
UnmatchedLegacy(findings, baseline) ==
  baseline.legacy_keys \ {IdentityKey(f) : f \in findings}

\* Mutant: a stable key hides the legacy keys of its group though it was matched.
ResolvedKeysByGroup(findings, baseline) ==
  {UnmatchedStable(findings, baseline) \cup
     {k \in UnmatchedLegacy(findings, baseline) :
        \A s \in baseline.stable_keys : s.group # k.group}}

\* The possible values of `resolved`.
ResolvedKeys(findings, baseline) ==
  LET gone == UnmatchedStable(findings, baseline)
      lost == {k \in UnmatchedLegacy(findings, baseline) :
                 \A s \in gone : s.group # k.group}
      hideable == {k \in lost : k.line # 0 /\ [k EXCEPT !.line = 0] \in lost}
  IN  {gone \cup (lost \ later) : later \in SUBSET hideable}
=============================================================================
