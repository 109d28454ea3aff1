-------------------------- MODULE IssueSyncProofs --------------------------
(***************************************************************************)
(* Proofs about IssueSync, for any findings, bodies, cap, list limit and   *)
(* set of unreliable commands.                                             *)
(***************************************************************************)
EXTENDS IssueSync, WellFoundedInduction, TLAPS

(***************************************************************************)
(* The inductive invariant.                                                *)
(***************************************************************************)

\* While findings are filed, the issues that were listed are still there: what
\* is open by the tool's hand was listed as open, and the issues that were not
\* listed were created by this run, for findings it has handled.
ListFaithful ==
  phase = "filing" /\ ~ misread =>
    /\ listed = DOMAIN fetched
    /\ \A n \in DOMAIN fetched :
         /\ issues[n].key = fetched[n].key
         /\ issues[n].open /\ issues[n].hand = "tool" => fetched[n].open
    /\ \A n \in DOMAIN issues : n > Len(fetched) => issues[n].key \notin todo

\* A finding is filed anew only if none of its issues was listed as open and one
\* of them carries the tool's mark.
RecreatingJustified ==
  \A k \in recreating :
    /\ phase = "filing"
    /\ k \notin DOMAIN open_by_key
    /\ ~ misread => \E n \in Of(issues, k) : issues[n].marked

\* What is being filed is a finding of the report.
TodoKnown == phase = "filing" => todo \subseteq DOMAIN finding_by_key

IInv == TypeOK /\ OneOpenPerKey /\ ListFaithful /\ RecreatingJustified /\ TodoKnown

-----------------------------------------------------------------------------
\* A set of naturals that is not empty holds its minimum.
LEMMA MinLeast ==
  ASSUME NEW S \in SUBSET Nat, S # {}
  PROVE  Min(S) \in S /\ \A n \in S : Min(S) <= n
<1>. DEFINE R == {ss \in Nat \X Nat : ss[1] < ss[2]}
<1>1. IsWellFoundedOn(R, Nat)
  BY NatLessThanWellFounded DEF OpToRel
<1>2. PICK x \in S : \A y \in S : ~ (<<y, x>> \in R)
  <2>. HIDE DEF R
  <2>. QED
    BY <1>1, WFMin
<1>3. ASSUME NEW y \in S PROVE x <= y
  <2>1. x \in Nat /\ y \in Nat /\ ~ (<<y, x>> \in R)
    BY <1>2
  <2>2. y < x => <<y, x>> \in R
    BY <2>1
  <2>. QED
    BY <2>1, <2>2
<1>4. Min(S) \in S /\ \A y \in S : Min(S) <= y
  BY <1>3 DEF Min
<1>. QED
  BY <1>4

LEMMA MinMember ==
  ASSUME NEW S \in SUBSET Nat, S # {}
  PROVE  Min(S) \in S
BY MinLeast

\* A report's keys and bodies.
LEMMA ReportType ==
  ASSUME NEW f \in Reports
  PROVE  DOMAIN f \subseteq Keys /\ \A k \in DOMAIN f : f[k] \in Bodies
BY DEF Reports

\* One element of a sequence is replaced, or none if there is no such element.
LEMMA ReplaceType ==
  ASSUME NEW S, NEW s \in Seq(S), NEW n, NEW e, n \in DOMAIN s => e \in S
  PROVE  /\ [s EXCEPT ![n] = e] \in Seq(S)
         /\ Len([s EXCEPT ![n] = e]) = Len(s)
         /\ \A m \in DOMAIN s : [s EXCEPT ![n] = e][m] = IF m = n THEN e ELSE s[m]
<1>1. CASE n \in DOMAIN s
  BY <1>1
<1>2. CASE n \notin DOMAIN s
  <2>1. [s EXCEPT ![n] = e] = s
    BY <1>2
  <2>. QED
    BY <1>2, <2>1
<1>. QED
  BY <1>1, <1>2

\* However elements are replaced, a sequence of issues keeps its length.
LEMMA ReplaceLength ==
  ASSUME TypeOK
  PROVE  /\ \A n, e : Len([issues EXCEPT ![n] = e]) = Len(issues)
         /\ \A n, e, f : Len([[issues EXCEPT ![n] = e] EXCEPT ![n] = f]) = Len(issues)
BY DEF TypeOK

-----------------------------------------------------------------------------
(***************************************************************************)
(* What every step but a creation does to the issues: each keeps its       *)
(* number, its key and its mark, and only people open one.                 *)
(***************************************************************************)
Kept ==
  /\ issues' \in Seq(Issue) /\ Len(issues') = Len(issues)
  /\ \A n \in DOMAIN issues :
       /\ issues'[n].key = issues[n].key
       /\ issues[n].marked => issues'[n].marked
       /\ issues'[n].open /\ issues'[n].hand = "tool" =>
            issues[n].open /\ issues[n].hand = "tool"

LEMMA UnchangedKept ==
  ASSUME TypeOK, issues' = issues
  PROVE  Kept
BY DEF Kept, TypeOK

LEMMA ReplaceKept ==
  ASSUME TypeOK, NEW n, NEW e,
         n \in DOMAIN issues =>
           /\ e \in Issue
           /\ e.key = issues[n].key
           /\ issues[n].marked => e.marked
           /\ e.open /\ e.hand = "tool" => issues[n].open /\ issues[n].hand = "tool",
         issues' = [issues EXCEPT ![n] = e]
  PROVE  Kept
<1>1. issues \in Seq(Issue)
  BY DEF TypeOK
<1>2. /\ issues' \in Seq(Issue)
      /\ Len(issues') = Len(issues)
      /\ \A m \in DOMAIN issues : issues'[m] = IF m = n THEN e ELSE issues[m]
  BY <1>1, ReplaceType
<1>. QED
  BY <1>2 DEF Kept

\* An edit, a comment, a closing by the tool, and a touch.
LEMMA EditKept ==
  ASSUME TypeOK, NEW n, NEW b \in Bodies, issues' = [issues EXCEPT ![n].body = b]
  PROVE  Kept
<1>. DEFINE e == [issues[n] EXCEPT !.body = b]
<1>1. n \in DOMAIN issues => issues[n] \in Issue
  BY DEF TypeOK
<1>2. n \in DOMAIN issues =>
        /\ e \in Issue
        /\ e.key = issues[n].key /\ e.marked = issues[n].marked
        /\ e.open = issues[n].open /\ e.hand = issues[n].hand
  BY <1>1 DEF Issue
<1>3. issues' = [issues EXCEPT ![n] = e]
  OBVIOUS
<1>. HIDE DEF e
<1>4. n \in DOMAIN issues =>
        /\ e \in Issue
        /\ e.key = issues[n].key
        /\ issues[n].marked => e.marked
        /\ e.open /\ e.hand = "tool" => issues[n].open /\ issues[n].hand = "tool"
  BY <1>2
<1>. QED
  BY <1>3, <1>4, ReplaceKept

LEMMA CommentKept ==
  ASSUME TypeOK, NEW n, issues' = [issues EXCEPT ![n].marked = TRUE]
  PROVE  Kept
<1>. DEFINE e == [issues[n] EXCEPT !.marked = TRUE]
<1>1. n \in DOMAIN issues => issues[n] \in Issue
  BY DEF TypeOK
<1>2. n \in DOMAIN issues =>
        /\ e \in Issue
        /\ e.key = issues[n].key /\ e.marked
        /\ e.open = issues[n].open /\ e.hand = issues[n].hand
  BY <1>1 DEF Issue
<1>3. issues' = [issues EXCEPT ![n] = e]
  OBVIOUS
<1>. HIDE DEF e
<1>4. n \in DOMAIN issues =>
        /\ e \in Issue
        /\ e.key = issues[n].key
        /\ issues[n].marked => e.marked
        /\ e.open /\ e.hand = "tool" => issues[n].open /\ issues[n].hand = "tool"
  BY <1>2
<1>. QED
  BY <1>3, <1>4, ReplaceKept

LEMMA CloseKept ==
  ASSUME TypeOK, NEW n,
         issues' = [[issues EXCEPT ![n].marked = TRUE]
                      EXCEPT ![n].open = FALSE, ![n].hand = "tool"]
  PROVE  Kept
<1>. DEFINE e == [issues[n] EXCEPT !.marked = TRUE, !.open = FALSE, !.hand = "tool"]
<1>1. n \in DOMAIN issues => issues[n] \in Issue
  BY DEF TypeOK
<1>2. n \in DOMAIN issues =>
        e \in Issue /\ e.key = issues[n].key /\ e.marked /\ ~ e.open
  BY <1>1 DEF Issue
<1>3. issues' = [issues EXCEPT ![n] = e]
  OBVIOUS
<1>. HIDE DEF e
<1>4. n \in DOMAIN issues =>
        /\ e \in Issue
        /\ e.key = issues[n].key
        /\ issues[n].marked => e.marked
        /\ e.open /\ e.hand = "tool" => issues[n].open /\ issues[n].hand = "tool"
  BY <1>2
<1>. QED
  BY <1>3, <1>4, ReplaceKept

LEMMA TouchKept ==
  ASSUME TypeOK, NEW n \in DOMAIN issues, Touch(n)
  PROVE  Kept
<1>. DEFINE e == [issues[n] EXCEPT !.open = ~ @, !.hand = "user"]
<1>1. issues[n] \in Issue
  BY DEF TypeOK
<1>2. e \in Issue /\ e.key = issues[n].key /\ e.marked = issues[n].marked /\ e.hand = "user"
  BY <1>1 DEF Issue
<1>3. issues' = [issues EXCEPT ![n] = e]
  BY DEF Touch
<1>. HIDE DEF e
<1>. QED
  BY <1>2, <1>3, ReplaceKept

-----------------------------------------------------------------------------
\* Steps that keep the issues keep each part of the invariant.
LEMMA OneOpenKept ==
  ASSUME TypeOK, OneOpenPerKey, Kept, misread => misread'
  PROVE  OneOpenPerKey'
<1>1. DOMAIN issues' = DOMAIN issues
  BY DEF Kept, TypeOK
<1>. SUFFICES ASSUME ~ misread', NEW k \in Keys,
                     NEW m \in OpenOf(issues, k)', NEW n \in OpenOf(issues, k)',
                     issues'[m].hand = "tool", issues'[n].hand = "tool"
              PROVE  m = n
  BY DEF OneOpenPerKey
<1>2. /\ m \in OpenOf(issues, k) /\ issues[m].hand = "tool"
      /\ n \in OpenOf(issues, k) /\ issues[n].hand = "tool"
  BY <1>1 DEF OpenOf, Of, Kept
<1>. QED
  BY <1>2 DEF OneOpenPerKey

LEMMA FaithfulKept ==
  ASSUME TypeOK, ListFaithful, Kept, UNCHANGED <<phase, fetched, listed, misread>>,
         todo' \subseteq todo
  PROVE  ListFaithful'
<1>1. DOMAIN issues' = DOMAIN issues /\ DOMAIN fetched \subseteq DOMAIN issues
  BY DEF Kept, TypeOK
<1>. QED
  BY <1>1 DEF ListFaithful, Kept

LEMMA RecreatingKept ==
  ASSUME TypeOK, RecreatingJustified, Kept, UNCHANGED <<phase, fetched, listed, misread>>,
         recreating' \subseteq recreating
  PROVE  RecreatingJustified'
<1>1. DOMAIN issues' = DOMAIN issues
  BY DEF Kept, TypeOK
<1>2. DOMAIN (open_by_key') = DOMAIN open_by_key
  BY DEF open_by_key, ByKey
<1>3. \A k, n : n \in Of(issues, k) /\ issues[n].marked =>
                n \in Of(issues, k)' /\ issues'[n].marked
  BY <1>1 DEF Of, Kept
<1>. QED
  BY <1>2, <1>3 DEF RecreatingJustified

-----------------------------------------------------------------------------
\* A command works or fails within the bound on failures.
LEMMA FaultType ==
  ASSUME TypeOK, Works \/ \E command \in Unreliable : Fails(command)
  PROVE  faults' \in 0 .. MaxFaults /\ clean' \in BOOLEAN
<1>1. CASE Works
  BY <1>1 DEF TypeOK, Works
<1>2. CASE \E command \in Unreliable : Fails(command)
  <2>1. faults < MaxFaults /\ faults' = faults + 1 /\ clean' = FALSE
    BY <1>2 DEF Fails
  <2>2. faults \in Nat /\ MaxFaults \in Nat
    BY IssueSyncAssumption DEF TypeOK
  <2>3. faults' \in 0 .. MaxFaults
    BY <2>1, <2>2
  <2>. QED
    BY <2>1, <2>3
<1>. QED
  BY <1>1, <1>2

\* The keys that the partition of listed issues knows are keys.
LEMMA PartitionType ==
  ASSUME TypeOK
  PROVE  /\ DOMAIN open_by_key \subseteq Keys
         /\ \A k \in DOMAIN open_by_key \cup DOMAIN closed_by_key :
              \E n \in listed : fetched[n].key = k
         /\ \A n \in listed :
              fetched[n].key \in DOMAIN open_by_key \cup DOMAIN closed_by_key
         /\ \A n \in listed : fetched[n].open => fetched[n].key \in DOMAIN open_by_key
<1>1. \A n \in listed : fetched[n] \in Issue
  BY DEF TypeOK
<1>2. /\ DOMAIN open_by_key = {fetched[n].key : n \in {m \in listed : fetched[m].open}}
      /\ DOMAIN closed_by_key = {fetched[n].key : n \in {m \in listed : ~ fetched[m].open}}
  BY DEF open_by_key, closed_by_key, ByKey
<1>. QED
  BY <1>1, <1>2 DEF Issue

\* A finding was handled by a step that left the issues where they are.
LEMMA HandledKept ==
  ASSUME IInv, NEW k, Done(k), Kept, create_count' = create_count,
         faults' \in 0 .. MaxFaults, clean' \in BOOLEAN
  PROVE  IInv'
<1>1. TypeOK /\ OneOpenPerKey /\ ListFaithful /\ RecreatingJustified /\ TodoKnown
  BY DEF IInv
<1>2. /\ todo' = todo \ {k} /\ recreating' = {}
      /\ UNCHANGED <<findings, phase, finding_by_key, fetched, listed, misread, changes, touches>>
  BY DEF Done, bounds
<1>3. TypeOK'
  BY <1>1, <1>2 DEF TypeOK, Kept
<1>4. OneOpenPerKey' /\ ListFaithful' /\ RecreatingJustified' /\ TodoKnown'
  BY <1>1, <1>2, OneOpenKept, FaithfulKept, RecreatingKept DEF TodoKnown
<1>. QED
  BY <1>3, <1>4 DEF IInv

\* An update and a closing keep every issue.
LEMMA UpdateKept == ASSUME IInv, NEW k \in Keys, Update(k) PROVE Kept
<1>1. TypeOK
  BY DEF IInv
<1>2. finding_by_key[k] \in Bodies
  <2>1. k \in DOMAIN finding_by_key /\ finding_by_key \in Reports
    BY DEF IInv, TypeOK, TodoKnown, Update, Turn
  <2>. QED
    BY <2>1, ReportType
<1>3. \/ issues' = issues
      \/ issues' = [issues EXCEPT ![open_by_key[k]].body = finding_by_key[k]]
  BY DEF Update
<1>. QED
  BY <1>1, <1>2, <1>3, UnchangedKept, EditKept

LEMMA CloseTouches == ASSUME TypeOK, NEW k \in Keys, Close(k) PROVE Kept
<1>1. \/ issues' = issues
      \/ issues' = [issues EXCEPT ![open_by_key[k]].marked = TRUE]
      \/ issues' = [[issues EXCEPT ![open_by_key[k]].marked = TRUE]
                       EXCEPT ![open_by_key[k]].open = FALSE, ![open_by_key[k]].hand = "tool"]
  BY DEF Close
<1>. QED
  BY <1>1, UnchangedKept, CommentKept, CloseKept

LEMMA UpdateStep == ASSUME IInv, NEW k \in Keys, Update(k) PROVE IInv'
<1>1. TypeOK /\ Done(k) /\ create_count' = create_count
  BY DEF IInv, Update
<1>2. Works \/ \E command \in Unreliable : Fails(command)
  BY DEF Update, Fails
<1>. QED
  BY <1>1, <1>2, FaultType, UpdateKept, HandledKept

LEMMA CloseStep == ASSUME IInv, NEW k \in Keys, Close(k) PROVE IInv'
<1>1. TypeOK /\ Done(k) /\ create_count' = create_count
  BY DEF IInv, Close
<1>2. Works \/ \E command \in Unreliable : Fails(command)
  BY DEF Close, Fails
<1>. QED
  BY <1>1, <1>2, FaultType, CloseTouches, HandledKept

\* A closed issue is looked at: a mark sends its finding to Create.
LEMMA CheckClosedStep == ASSUME IInv, NEW k \in Keys, CheckClosed(k) PROVE IInv'
<1>1. TypeOK /\ issues' = issues /\ create_count' = create_count /\ Kept
  BY UnchangedKept DEF IInv, CheckClosed
<1>2. CASE Done(k) /\ (Works \/ Fails("view"))
  <2>1. Works \/ \E command \in Unreliable : Fails(command)
    BY <1>2 DEF Fails
  <2>. QED
    BY <1>1, <1>2, <2>1, FaultType, HandledKept
<1>3. CASE /\ Works /\ issues[closed_by_key[k]].marked /\ recreating' = {k}
           /\ UNCHANGED <<findings, phase, finding_by_key, fetched, listed, misread,
                          bounds, todo>>
  <2>1. phase = "filing" /\ k \in todo /\ k \notin DOMAIN open_by_key
        /\ k \in DOMAIN closed_by_key
    BY DEF CheckClosed, Turn
  <2>2. TypeOK'
    BY <1>1, <1>3, <2>1 DEF TypeOK, Works, bounds
  <2>3. OneOpenPerKey' /\ ListFaithful' /\ TodoKnown'
    BY <1>1, <1>3, OneOpenKept, FaithfulKept DEF IInv, TodoKnown
  <2>4. RecreatingJustified'
    <3>1. DOMAIN (open_by_key') = DOMAIN open_by_key
      BY <1>3 DEF open_by_key, ByKey
    <3>2. ASSUME ~ misread PROVE \E n \in Of(issues, k) : issues[n].marked
      <4>. DEFINE S == {n \in {m \in listed : ~ fetched[m].open} : fetched[n].key = k}
      <4>1. S # {} /\ closed_by_key[k] = Min(S)
        BY <2>1 DEF closed_by_key, ByKey
      <4>2. listed \subseteq Nat
        BY <1>1 DEF TypeOK
      <4>3. closed_by_key[k] \in S
        <5>1. S \in SUBSET Nat
          BY <4>2
        <5>. HIDE DEF S
        <5>. QED
          BY <4>1, <5>1, MinMember
      <4>4. closed_by_key[k] \in DOMAIN fetched /\ fetched[closed_by_key[k]].key = k
        BY <1>1, <4>3 DEF TypeOK
      <4>5. closed_by_key[k] \in Of(issues, k)
        BY <1>1, <2>1, <3>2, <4>4 DEF IInv, ListFaithful, TypeOK, Of
      <4>. QED
        BY <1>3, <4>5
    <3>. QED
      BY <1>1, <1>3, <2>1, <3>1, <3>2 DEF RecreatingJustified, Of
  <2>. QED
    BY <2>2, <2>3, <2>4 DEF IInv
<1>. QED
  BY <1>2, <1>3 DEF CheckClosed

-----------------------------------------------------------------------------
\* The issue that Create makes.
NewIssue(k) ==
  [key |-> k, body |-> finding_by_key[k], open |-> TRUE, marked |-> FALSE, hand |-> "tool"]

\* A finding for which Create is reached is one of this run's, was not listed with
\* an open issue, and its issues, if there are any, include a marked one.
LEMMA CreateReached ==
  ASSUME IInv, NEW k \in Keys, Create(k)
  PROVE  /\ phase = "filing" /\ k \in todo /\ k \in DOMAIN finding_by_key
         /\ k \notin DOMAIN open_by_key
         /\ ~ misread /\ Of(issues, k) # {} => \E n \in Of(issues, k) : issues[n].marked
<1>1. TypeOK
  BY DEF IInv
<1>2. CASE Turn(k) /\ k \notin DOMAIN open_by_key \cup DOMAIN closed_by_key
  <2>1. phase = "filing" /\ k \in todo /\ k \in DOMAIN finding_by_key
    BY <1>2 DEF Turn, IInv, TodoKnown
  <2>2. ASSUME ~ misread, NEW n \in Of(issues, k) PROVE FALSE
    <3>1. n \in DOMAIN issues /\ issues[n].key = k /\ n \in Nat
      BY <1>1 DEF Of, TypeOK
    <3>2. n <= Len(fetched)
      BY <1>1, <2>1, <2>2, <3>1 DEF IInv, ListFaithful, TypeOK
    <3>3. n \in DOMAIN fetched
      BY <1>1, <3>1, <3>2 DEF TypeOK
    <3>4. n \in listed /\ fetched[n].key = k
      BY <2>1, <2>2, <3>1, <3>3 DEF IInv, ListFaithful
    <3>. QED
      BY <1>1, <1>2, <3>4, PartitionType
  <2>. QED
    BY <1>2, <2>1, <2>2
<1>3. CASE k \in recreating
  BY <1>1, <1>3 DEF IInv, TypeOK, RecreatingJustified, TodoKnown
<1>. QED
  BY <1>2, <1>3 DEF Create

\* There is no open issue by the tool for a finding that Create is reached for.
LEMMA NoneOpen ==
  ASSUME IInv, NEW k \in Keys, Create(k), ~ misread, NEW m \in OpenOf(issues, k)
  PROVE  issues[m].hand # "tool"
<1>. SUFFICES ASSUME issues[m].hand = "tool" PROVE FALSE
  OBVIOUS
<1>1. phase = "filing" /\ k \in todo /\ k \notin DOMAIN open_by_key /\ TypeOK
  BY CreateReached DEF IInv
<1>2. m \in DOMAIN issues /\ issues[m].key = k /\ issues[m].open /\ m \in Nat
  BY <1>1 DEF OpenOf, Of, TypeOK
<1>3. m <= Len(fetched)
  BY <1>1, <1>2 DEF IInv, ListFaithful, TypeOK
<1>4. m \in DOMAIN fetched
  BY <1>1, <1>2, <1>3 DEF TypeOK
<1>5. m \in listed /\ fetched[m].key = k /\ fetched[m].open
  BY <1>1, <1>2, <1>4 DEF IInv, ListFaithful
<1>. QED
  BY <1>1, <1>5, PartitionType

LEMMA CreateStep == ASSUME IInv, NEW k \in Keys, Create(k) PROVE IInv'
<1>1. TypeOK /\ Done(k) /\ phase = "filing" /\ k \in todo /\ k \in DOMAIN finding_by_key
  BY CreateReached DEF IInv, Create
<1>2. faults' \in 0 .. MaxFaults /\ clean' \in BOOLEAN
  <2>1. Works \/ \E command \in Unreliable : Fails(command)
    BY DEF Create, Fails
  <2>. QED
    BY <1>1, <2>1, FaultType
<1>3. \/ issues' = issues /\ create_count' = create_count
      \/ /\ issues' = Append(issues, NewIssue(k))
         /\ create_count' \in {create_count, create_count + 1}
  BY DEF Create, NewIssue
<1>4. CASE issues' = issues /\ create_count' = create_count
  BY <1>1, <1>2, <1>4, UnchangedKept, HandledKept
<1>5. CASE /\ issues' = Append(issues, NewIssue(k))
           /\ create_count' \in {create_count, create_count + 1}
  <2>1. NewIssue(k) \in Issue
    <3>1. finding_by_key[k] \in Bodies
      BY <1>1, ReportType DEF TypeOK
    <3>. QED
      BY <3>1 DEF NewIssue, Issue
  <2>2. /\ issues \in Seq(Issue) /\ issues' \in Seq(Issue)
        /\ Len(issues') = Len(issues) + 1
        /\ \A n \in DOMAIN issues : n \in DOMAIN issues' /\ issues'[n] = issues[n]
        /\ \A n \in DOMAIN issues' : n \in DOMAIN issues \/ n = Len(issues')
        /\ issues'[Len(issues')] = NewIssue(k)
    BY <1>1, <1>5, <2>1 DEF TypeOK
  <2>3. /\ todo' = todo \ {k} /\ recreating' = {}
        /\ UNCHANGED <<findings, phase, finding_by_key, fetched, listed, misread,
                       changes, touches>>
    BY <1>1 DEF Done, bounds
  <2>4. TypeOK'
    BY <1>1, <1>2, <1>5, <2>2, <2>3 DEF TypeOK
  <2>5. OneOpenPerKey'
    <3>. SUFFICES ASSUME ~ misread, NEW l \in Keys,
                         NEW m \in OpenOf(issues, l)', NEW n \in OpenOf(issues, l)',
                         issues'[m].hand = "tool", issues'[n].hand = "tool"
                  PROVE  m = n
      BY <2>3 DEF OneOpenPerKey
    <3>1. ASSUME NEW i \in DOMAIN issues, i \in OpenOf(issues, l)'
          PROVE  i \in OpenOf(issues, l) /\ issues[i] = issues'[i]
      BY <2>2, <3>1 DEF OpenOf, Of
    <3>2. ASSUME NEW i \in DOMAIN issues, i \in OpenOf(issues, l)', issues'[i].hand = "tool"
          PROVE  l # k
      BY <3>1, <3>2, NoneOpen
    <3>3. Len(issues') \in OpenOf(issues, l)' => l = k
      BY <2>2 DEF OpenOf, Of, NewIssue
    <3>4. /\ m \in DOMAIN issues \/ m = Len(issues')
          /\ n \in DOMAIN issues \/ n = Len(issues')
      BY <2>2 DEF OpenOf, Of
    <3>. QED
      BY <3>1, <3>2, <3>3, <3>4 DEF IInv, OneOpenPerKey
  <2>6. ListFaithful'
    <3>. SUFFICES ASSUME ~ misread
         PROVE  /\ listed' = DOMAIN fetched'
                /\ \A n \in DOMAIN fetched' :
                     /\ issues'[n].key = fetched'[n].key
                     /\ issues'[n].open /\ issues'[n].hand = "tool" => fetched'[n].open
                /\ \A n \in DOMAIN issues' : n > Len(fetched') => issues'[n].key \notin todo'
      BY <2>3 DEF ListFaithful
    <3>1. DOMAIN fetched \subseteq DOMAIN issues
      BY <1>1 DEF TypeOK
    <3>2. issues'[Len(issues')].key = k
      BY <2>2 DEF NewIssue
    <3>. QED
      BY <1>1, <2>2, <2>3, <3>1, <3>2 DEF IInv, ListFaithful
  <2>7. RecreatingJustified' /\ TodoKnown'
    BY <1>1, <2>3 DEF RecreatingJustified, TodoKnown, IInv
  <2>. QED
    BY <2>4, <2>5, <2>6, <2>7 DEF IInv
<1>. QED
  BY <1>3, <1>4, <1>5

-----------------------------------------------------------------------------
\* A run starts, ends or dies, and moves from filing to closing.
LEMMA LeaveStep ==
  ASSUME IInv, Leave, UNCHANGED <<clean, faults>> \/ Fails("run")
  PROVE  IInv'
<1>1. TypeOK /\ OneOpenPerKey
  BY DEF IInv
<1>2. /\ phase' = "idle" /\ finding_by_key' = NoFindings
      /\ fetched' = <<>> /\ listed' = {} /\ todo' = {} /\ recreating' = {}
      /\ create_count' = 0
      /\ UNCHANGED <<issues, findings, misread, changes, touches>>
  BY DEF Leave, bounds
<1>3. faults' \in 0 .. MaxFaults /\ clean' \in BOOLEAN
  <2>1. Works \/ \E command \in Unreliable : Fails(command)
    BY DEF Works, Fails
  <2>. QED
    BY <1>1, <2>1, FaultType
<1>4. TypeOK'
  <2>1. NoFindings \in Reports
    BY DEF NoFindings, Reports
  <2>. QED
    BY <1>1, <1>2, <1>3, <2>1 DEF TypeOK
<1>5. OneOpenPerKey'
  BY <1>1, <1>2, UnchangedKept, OneOpenKept
<1>. QED
  BY <1>2, <1>4, <1>5 DEF IInv, ListFaithful, RecreatingJustified, TodoKnown

LEMMA StartStep == ASSUME IInv, StartSync PROVE IInv'
<1>1. TypeOK /\ OneOpenPerKey /\ recreating = {}
  BY DEF IInv, RecreatingJustified, StartSync
<1>2. /\ phase' = "listing" /\ finding_by_key' = findings /\ clean' = TRUE
      /\ UNCHANGED <<issues, findings, fetched, listed, todo, recreating, create_count,
                     misread, faults, changes, touches>>
  BY DEF StartSync, bounds
<1>3. TypeOK'
  BY <1>1, <1>2 DEF TypeOK
<1>4. OneOpenPerKey'
  BY <1>1, <1>2, UnchangedKept, OneOpenKept
<1>. QED
  BY <1>1, <1>2, <1>3, <1>4 DEF IInv, ListFaithful, RecreatingJustified, TodoKnown

LEMMA FilingEndsStep == ASSUME IInv, FilingEnds PROVE IInv'
<1>1. TypeOK /\ OneOpenPerKey
  BY DEF IInv
<1>2. /\ phase' = "closing" /\ todo' \subseteq DOMAIN open_by_key
      /\ UNCHANGED <<issues, findings, finding_by_key, fetched, listed, recreating,
                     create_count, clean, misread, faults, changes, touches>>
  BY DEF FilingEnds, bounds
<1>3. recreating = {}
  BY <1>1 DEF FilingEnds, TypeOK
<1>4. TypeOK'
  BY <1>1, <1>2, <1>3, PartitionType DEF TypeOK
<1>5. OneOpenPerKey'
  BY <1>1, <1>2, UnchangedKept, OneOpenKept
<1>. QED
  BY <1>2, <1>3, <1>4, <1>5 DEF IInv, ListFaithful, RecreatingJustified, TodoKnown

\* A complete list shows every issue as it is.
LEMMA ListStep == ASSUME IInv, ListIssues PROVE IInv'
<1>1. TypeOK /\ OneOpenPerKey /\ recreating = {}
  BY DEF IInv, RecreatingJustified, ListIssues
<1>2. /\ phase' = "filing" /\ todo' = DOMAIN finding_by_key
      /\ UNCHANGED <<issues, findings, finding_by_key, recreating, create_count,
                     changes, touches>>
  BY DEF ListIssues, bounds
<1>3. faults' \in 0 .. MaxFaults /\ clean' \in BOOLEAN
  <2>1. \/ faults' = faults /\ clean' \in BOOLEAN
        \/ \E command \in Unreliable : Fails(command)
    BY <1>1 DEF ListIssues, Fails, TypeOK
  <2>. QED
    BY <1>1, <2>1, FaultType DEF TypeOK
<1>4. \/ misread' = TRUE /\ UNCHANGED <<fetched, listed>>
      \/ /\ fetched' = issues
         /\ listed' = {n \in DOMAIN issues : n > Len(issues) - FetchLimit}
         /\ misread' = (misread \/ Len(issues) > FetchLimit)
  BY DEF ListIssues
<1>5. misread' \in BOOLEAN /\ (misread => misread')
  BY <1>1, <1>4 DEF TypeOK
<1>6. TypeOK'
  <2>1. DOMAIN finding_by_key \subseteq Keys
    BY <1>1, ReportType DEF TypeOK
  <2>2. /\ fetched' \in Seq(Issue) /\ Len(fetched') <= Len(issues)
        /\ listed' \subseteq DOMAIN fetched'
    BY <1>1, <1>4 DEF TypeOK
  <2>. QED
    BY <1>1, <1>2, <1>3, <1>5, <2>1, <2>2 DEF TypeOK
<1>7. OneOpenPerKey'
  BY <1>1, <1>2, <1>5, UnchangedKept, OneOpenKept
<1>8. ListFaithful'
  <2>. SUFFICES ASSUME ~ misread'
       PROVE  /\ listed' = DOMAIN fetched'
              /\ \A n \in DOMAIN fetched' :
                   /\ issues'[n].key = fetched'[n].key
                   /\ issues'[n].open /\ issues'[n].hand = "tool" => fetched'[n].open
              /\ \A n \in DOMAIN issues' : n > Len(fetched') => issues'[n].key \notin todo'
    BY DEF ListFaithful
  <2>1. /\ fetched' = issues /\ issues' = issues
        /\ listed' = {n \in DOMAIN issues : n > Len(issues) - FetchLimit}
        /\ ~ (Len(issues) > FetchLimit)
    BY <1>2, <1>4
  <2>2. issues \in Seq(Issue) /\ FetchLimit \in Nat
    BY <1>1, IssueSyncAssumption DEF TypeOK
  <2>3. PICK len \in Nat, limit \in Nat :
          len = Len(issues) /\ limit = FetchLimit /\ DOMAIN issues = 1 .. len
    BY <2>2
  <2>4. \A n \in 1 .. len : n > len - limit
    BY <2>1, <2>3
  <2>5. listed' = DOMAIN issues
    BY <2>1, <2>3, <2>4
  <2>6. issues' = fetched'
    BY <2>1
  <2>7. \A n \in DOMAIN issues' : ~ (n > Len(fetched'))
    BY <2>1, <2>3
  <2>. QED
    BY <2>1, <2>5, <2>6, <2>7
<1>. QED
  BY <1>1, <1>2, <1>6, <1>7, <1>8 DEF IInv, RecreatingJustified, TodoKnown

\* The code changes, and people touch an issue.
LEMMA WorldStep ==
  ASSUME IInv, CodeChanges \/ \E n \in DOMAIN issues : Touch(n)
  PROVE  IInv'
<1>1. TypeOK /\ OneOpenPerKey /\ ListFaithful /\ RecreatingJustified /\ TodoKnown
  BY DEF IInv
<1>2. Kept
  BY <1>1, UnchangedKept, TouchKept DEF CodeChanges
<1>3. UNCHANGED <<phase, finding_by_key, fetched, listed, todo, recreating, create_count,
                  misread, faults>>
  BY DEF CodeChanges, Touch, run
<1>4. findings' \in Reports /\ clean' \in BOOLEAN
  BY <1>1 DEF CodeChanges, Touch, TypeOK
<1>5. changes' \in 0 .. MaxChanges /\ touches' \in 0 .. MaxTouches
  <2>1. changes \in 0 .. MaxChanges /\ touches \in 0 .. MaxTouches
        /\ MaxChanges \in Nat /\ MaxTouches \in Nat
    BY <1>1, IssueSyncAssumption DEF TypeOK
  <2>2. CASE CodeChanges
    <3>1. changes < MaxChanges /\ changes' = changes + 1 /\ touches' = touches
      BY <2>2 DEF CodeChanges
    <3>. QED
      BY <2>1, <3>1
  <2>3. CASE \E n \in DOMAIN issues : Touch(n)
    <3>1. touches < MaxTouches /\ touches' = touches + 1 /\ changes' = changes
      BY <2>3 DEF Touch
    <3>. QED
      BY <2>1, <3>1
  <2>. QED
    BY <2>2, <2>3
<1>6. TypeOK'
  BY <1>1, <1>2, <1>3, <1>4, <1>5 DEF TypeOK, Kept
<1>7. OneOpenPerKey' /\ ListFaithful' /\ RecreatingJustified' /\ TodoKnown'
  BY <1>1, <1>2, <1>3, OneOpenKept, FaithfulKept, RecreatingKept DEF TodoKnown
<1>. QED
  BY <1>6, <1>7 DEF IInv

LEMMA StutterStep == ASSUME IInv, UNCHANGED vars PROVE IInv'
<1>1. /\ UNCHANGED <<issues, findings, phase, finding_by_key, fetched, listed, todo>>
      /\ UNCHANGED <<recreating, create_count, clean, misread, faults, changes, touches>>
  BY DEF vars, run, bounds
<1>2. TypeOK /\ OneOpenPerKey /\ ListFaithful /\ RecreatingJustified /\ TodoKnown
  BY DEF IInv
<1>3. TypeOK' /\ Kept
  BY <1>1, <1>2, UnchangedKept DEF TypeOK
<1>4. OneOpenPerKey' /\ ListFaithful' /\ RecreatingJustified' /\ TodoKnown'
  BY <1>1, <1>2, <1>3, OneOpenKept, FaithfulKept, RecreatingKept DEF TodoKnown
<1>. QED
  BY <1>3, <1>4 DEF IInv

\* IInv is an invariant of every sequence of runs.
LEMMA Invariance == Spec => []IInv
<1>1. Init => IInv
  <2>. SUFFICES ASSUME Init PROVE IInv
    OBVIOUS
  <2>1. NoFindings \in Reports
    BY DEF NoFindings, Reports
  <2>2. issues \in Seq(Issue) /\ fetched \in Seq(Issue) /\ Len(fetched) <= Len(issues)
    BY DEF Init
  <2>3. TypeOK
    <3>1. 0 \in 0 .. MaxFaults /\ 0 \in 0 .. MaxChanges /\ 0 \in 0 .. MaxTouches
      BY IssueSyncAssumption
    <3>2. listed \subseteq DOMAIN fetched /\ todo \subseteq Keys /\ recreating \subseteq todo
          /\ \A k, l \in recreating : k = l
      BY DEF Init
    <3>. QED
      BY <2>1, <2>2, <3>1, <3>2 DEF Init, TypeOK
  <2>4. OneOpenPerKey
    BY DEF Init, OneOpenPerKey, OpenOf, Of
  <2>. QED
    BY <2>3, <2>4 DEF Init, IInv, ListFaithful, RecreatingJustified, TodoKnown
<1>2. IInv /\ [Next]_vars => IInv'
  <2>. SUFFICES ASSUME IInv, [Next]_vars PROVE IInv'
    OBVIOUS
  <2>1. CASE StartSync \/ ListIssues \/ FilingEnds
    BY <2>1, StartStep, ListStep, FilingEndsStep
  <2>2. CASE EndSync \/ Die
    BY <2>2, LeaveStep DEF EndSync, Die
  <2>3. ASSUME NEW k \in Keys, Update(k) \/ CheckClosed(k) \/ Create(k) \/ Close(k)
        PROVE  IInv'
    BY <2>3, UpdateStep, CheckClosedStep, CreateStep, CloseStep
  <2>4. CASE CodeChanges \/ \E n \in DOMAIN issues : Touch(n)
    BY <2>4, WorldStep
  <2>5. CASE UNCHANGED vars
    BY <2>5, StutterStep
  <2>. QED
    BY <2>1, <2>2, <2>3, <2>4, <2>5 DEF Next, SyncStep
<1>. QED
  BY <1>1, <1>2, PTL DEF Spec

-----------------------------------------------------------------------------
\* Every variable of the sync keeps its type.
THEOREM TypeCorrect == Spec => []TypeOK
<1>1. IInv => TypeOK
  BY DEF IInv
<1>. QED
  BY <1>1, Invariance, PTL

\* As long as every list was complete, no finding has two open issues that the tool
\* opened, whatever commands fail, time out or are run again.
THEOREM NoDuplicates == Spec => []OneOpenPerKey
<1>1. IInv => OneOpenPerKey
  BY DEF IInv
<1>. QED
  BY <1>1, Invariance, PTL

\* As long as every list was complete, a new issue is the first of its finding or
\* follows one that the tool had closed or tried to close.
THEOREM NewIssuesJustified == Spec => NewIssueJustified
<1>. DEFINE A == Len(issues') > Len(issues) /\ ~ misread =>
       LET k == issues'[Len(issues')].key IN
       Of(issues, k) # {} => \E n \in Of(issues, k) : issues[n].marked
<1>1. ASSUME IInv, [Next]_vars PROVE [A]_vars
  <2>1. TypeOK
    BY <1>1 DEF IInv
  <2>2. ASSUME NEW k \in Keys, Create(k) PROVE A
    <3>1. CASE issues' = issues
      BY <2>1, <3>1 DEF TypeOK
    <3>2. CASE issues' = Append(issues, NewIssue(k))
      <4>1. issues'[Len(issues')].key = k
        BY <2>1, <3>2 DEF TypeOK, NewIssue
      <4>. QED
        BY <1>1, <2>2, <4>1, CreateReached
    <3>. QED
      BY <2>2, <3>1, <3>2 DEF Create, NewIssue
  <2>3. ASSUME Len(issues') = Len(issues) PROVE A
    BY <2>1, <2>3 DEF TypeOK
  <2>4. ASSUME NEW k \in Keys, Update(k) PROVE Len(issues') = Len(issues)
    BY <2>1, <2>4, ReplaceLength DEF Update
  <2>5. ASSUME NEW k \in Keys, Close(k) PROVE Len(issues') = Len(issues)
    BY <2>1, <2>5, ReplaceLength DEF Close
  <2>6. ASSUME NEW n, Touch(n) PROVE Len(issues') = Len(issues)
    BY <2>1, <2>6, ReplaceLength DEF Touch
  <2>7. CASE \/ StartSync \/ ListIssues \/ FilingEnds \/ EndSync \/ Die \/ CodeChanges
             \/ \E k \in Keys : CheckClosed(k)
    BY <2>3, <2>7 DEF StartSync, ListIssues, FilingEnds, EndSync, Die, Leave, CodeChanges,
                      CheckClosed
  <2>. QED
    BY <1>1, <2>2, <2>3, <2>4, <2>5, <2>6, <2>7 DEF Next, SyncStep
<1>. QED
  BY <1>1, Invariance, PTL DEF Spec, NewIssueJustified

-----------------------------------------------------------------------------
(***************************************************************************)
(* What an undisturbed run knows once it has listed the issues.            *)
(***************************************************************************)
Settling == clean /\ phase \in {"filing", "closing"}

\* The findings that this run has still to handle.
unhandled == IF phase = "filing" THEN todo ELSE {}

\* The issues that were listed are as they were: until its finding is handled, and
\* after that but for the body, or, if there is no finding, but for being closed.
AsListed ==
  \A n \in DOMAIN fetched :
    LET k == fetched[n].key IN
    /\ issues[n].key = k
    /\ issues[n].open => fetched[n].open
    /\ k \in DOMAIN finding_by_key =>
         issues[n].open = fetched[n].open /\ issues[n].marked = fetched[n].marked
    /\ k \in unhandled => issues[n] = fetched[n]

\* The other issues are this run's, for findings that had no open one.
NewAreFiled ==
  \A n \in DOMAIN issues : n > Len(fetched) =>
    LET k == issues[n].key IN
    /\ k \in DOMAIN finding_by_key \ unhandled /\ k \notin DOMAIN open_by_key
    /\ issues[n].open /\ issues[n].body = finding_by_key[k]

Handled ==
  \A k \in DOMAIN finding_by_key \ unhandled :
    Filed(issues, finding_by_key, k) \/ Declined(issues, k) \/ Capped

ResolvedClosed ==
  phase = "closing" =>
    /\ todo \subseteq DOMAIN open_by_key \ DOMAIN finding_by_key
    /\ CloseResolved => \A k \in DOMAIN open_by_key \ (DOMAIN finding_by_key \cup todo) :
                          ~ issues[open_by_key[k]].open

SettlingInv ==
  Settling =>
    listed = DOMAIN fetched /\ AsListed /\ NewAreFiled /\ Handled /\ ResolvedClosed

\* Every finding is filed or declined, and nothing else is open.
InPlace ==
  /\ \A k \in DOMAIN finding_by_key :
       Filed(fetched, finding_by_key, k) \/ Declined(fetched, k)
  /\ \A k \in Keys \ DOMAIN finding_by_key : OpenOf(fetched, k) = {}

NothingWritten == Settling /\ InPlace => issues = fetched /\ recreating = {}

\* With a complete list, what the partition of the listed issues says of a key.
LEMMA PartitionOf ==
  ASSUME TypeOK, listed = DOMAIN fetched, NEW k
  PROVE  /\ k \in DOMAIN open_by_key <=> OpenOf(fetched, k) # {}
         /\ k \in DOMAIN open_by_key =>
              /\ open_by_key[k] = Min(OpenOf(fetched, k))
              /\ open_by_key[k] \in OpenOf(fetched, k)
              /\ \A n \in OpenOf(fetched, k) : open_by_key[k] <= n
         /\ OpenOf(fetched, k) = {} =>
              /\ k \in DOMAIN closed_by_key <=> Of(fetched, k) # {}
              /\ k \in DOMAIN closed_by_key =>
                   /\ closed_by_key[k] = Min(Of(fetched, k))
                   /\ closed_by_key[k] \in Of(fetched, k)
<1>. DEFINE O == {n \in {m \in listed : fetched[m].open} : fetched[n].key = k}
            C == {n \in {m \in listed : ~ fetched[m].open} : fetched[n].key = k}
<1>1. O = OpenOf(fetched, k) /\ (O = {} => C = Of(fetched, k))
  BY DEF OpenOf, Of
<1>2. O \in SUBSET Nat /\ C \in SUBSET Nat
  BY DEF TypeOK
<1>3. /\ k \in DOMAIN open_by_key <=> O # {}
      /\ k \in DOMAIN open_by_key => open_by_key[k] = Min(O)
      /\ k \in DOMAIN closed_by_key <=> C # {}
      /\ k \in DOMAIN closed_by_key => closed_by_key[k] = Min(C)
  BY DEF open_by_key, closed_by_key, ByKey
<1>. HIDE DEF O, C
<1>4. O # {} => Min(O) \in O /\ \A n \in O : Min(O) <= n
  BY <1>2, MinLeast
<1>5. C # {} => Min(C) \in C
  BY <1>2, MinMember
<1>. QED
  BY <1>1, <1>3, <1>4, <1>5

\* The issues of a finding are left alone, and so is what was said of it.
LEMMA OthersHandled ==
  ASSUME TypeOK, TypeOK', NEW k \in DOMAIN finding_by_key,
         Filed(issues, finding_by_key, k) \/ Declined(issues, k) \/ Capped,
         Of(issues', k) = Of(issues, k),
         \A n \in Of(issues, k) : issues'[n] = issues[n],
         UNCHANGED <<finding_by_key, listed>>, create_count' >= create_count
  PROVE  (Filed(issues, finding_by_key, k) \/ Declined(issues, k) \/ Capped)'
<1>1. OpenOf(issues', k) = OpenOf(issues, k)
  BY DEF OpenOf
<1>2. Capped => Capped'
  BY IssueSyncAssumption DEF Capped, is_first_run, TypeOK
<1>3. /\ Of(issues, k) \in SUBSET Nat /\ OpenOf(issues, k) \in SUBSET Nat
      /\ OpenOf(issues, k) \subseteq Of(issues, k)
  BY DEF Of, OpenOf, TypeOK
<1>4. CASE Filed(issues, finding_by_key, k)
  <2>1. Min(OpenOf(issues, k)) \in Of(issues, k)
    BY <1>3, <1>4, MinMember DEF Filed
  <2>. QED
    BY <1>1, <1>4, <2>1 DEF Filed
<1>5. CASE Declined(issues, k)
  <2>1. Min(Of(issues, k)) \in Of(issues, k)
    BY <1>3, <1>5, MinMember DEF Declined
  <2>. QED
    BY <1>1, <1>5, <2>1 DEF Declined
<1>. QED
  BY <1>2, <1>4, <1>5

\* A finding was handled without a word to the repository: nothing else changes.
LEMMA SilentStep ==
  ASSUME IInv, TypeOK', SettlingInv, Settling, NEW k, phase = "filing", Done(k),
         issues' = issues, create_count' = create_count,
         k \in DOMAIN finding_by_key,
         Filed(issues, finding_by_key, k) \/ Declined(issues, k) \/ Capped
  PROVE  SettlingInv'
<1>1. /\ todo' = todo \ {k} /\ unhandled' = unhandled \ {k}
      /\ UNCHANGED <<phase, finding_by_key, fetched, listed>>
  BY DEF Done, unhandled
<1>2. DOMAIN (open_by_key') = DOMAIN open_by_key
  BY <1>1 DEF open_by_key, ByKey
<1>3. listed = DOMAIN fetched /\ AsListed /\ NewAreFiled /\ Handled
  BY DEF SettlingInv
<1>4. AsListed' /\ NewAreFiled'
  BY <1>1, <1>2, <1>3 DEF AsListed, NewAreFiled
<1>5. Handled'
  <2>. SUFFICES ASSUME NEW l \in DOMAIN finding_by_key \ unhandled'
                PROVE  (Filed(issues, finding_by_key, l) \/ Declined(issues, l) \/ Capped)'
    BY <1>1 DEF Handled
  <2>1. Filed(issues, finding_by_key, l) \/ Declined(issues, l) \/ Capped
    BY <1>1, <1>3 DEF Handled
  <2>. QED
    BY <1>1, <2>1 DEF Filed, Declined, Capped, is_first_run
<1>. QED
  BY <1>1, <1>3, <1>4, <1>5 DEF SettlingInv, ResolvedClosed

\* The listed issues of a finding with an open one: it has no others, and the
\* oldest open one is the one that is updated.
LEMMA OpenListed ==
  ASSUME TypeOK, SettlingInv, Settling, NEW k \in DOMAIN finding_by_key,
         k \in DOMAIN open_by_key
  PROVE  /\ OpenOf(issues, k) = OpenOf(fetched, k)
         /\ open_by_key[k] = Min(OpenOf(issues, k))
         /\ open_by_key[k] \in DOMAIN fetched /\ open_by_key[k] \in OpenOf(issues, k)
<1>1. listed = DOMAIN fetched /\ AsListed /\ NewAreFiled
  BY DEF SettlingInv
<1>2. DOMAIN fetched \subseteq DOMAIN issues
      /\ \A n \in DOMAIN issues : n > Len(fetched) \/ n \in DOMAIN fetched
  BY DEF TypeOK
<1>3. \A n \in DOMAIN issues : issues[n].key = k => n \in DOMAIN fetched
  BY <1>1, <1>2 DEF NewAreFiled
<1>4. OpenOf(issues, k) = OpenOf(fetched, k)
  BY <1>1, <1>2, <1>3 DEF AsListed, OpenOf, Of
<1>5. OpenOf(fetched, k) \subseteq DOMAIN fetched
  BY DEF OpenOf, Of
<1>. QED
  BY <1>1, <1>4, <1>5, PartitionOf

\* The issues of a finding without an open one that is still to be handled.
LEMMA ClosedListed ==
  ASSUME TypeOK, SettlingInv, Settling, NEW k \in unhandled,
         k \in DOMAIN finding_by_key, k \notin DOMAIN open_by_key
  PROVE  /\ OpenOf(issues, k) = {} /\ OpenOf(fetched, k) = {}
         /\ Of(issues, k) = Of(fetched, k)
<1>1. listed = DOMAIN fetched /\ AsListed /\ NewAreFiled
  BY DEF SettlingInv
<1>2. DOMAIN fetched \subseteq DOMAIN issues
      /\ \A n \in DOMAIN issues : n > Len(fetched) \/ n \in DOMAIN fetched
  BY DEF TypeOK
<1>3. \A n \in DOMAIN issues : issues[n].key = k => n \in DOMAIN fetched
  BY <1>1, <1>2 DEF NewAreFiled
<1>4. OpenOf(issues, k) = OpenOf(fetched, k) /\ Of(issues, k) = Of(fetched, k)
  BY <1>1, <1>2, <1>3 DEF AsListed, OpenOf, Of
<1>. QED
  BY <1>1, <1>4, PartitionOf

LEMMA UpdateSettles ==
  ASSUME IInv, IInv', SettlingInv, NEW k \in Keys, Update(k), Settling'
  PROVE  SettlingInv'
<1>1. /\ TypeOK /\ TypeOK' /\ Done(k) /\ create_count' = create_count /\ phase = "filing"
      /\ k \in DOMAIN open_by_key /\ k \in DOMAIN finding_by_key /\ k \in todo
  BY DEF IInv, Update, Turn, TodoKnown
<1>2. /\ Settling
      /\ \/ /\ fetched[open_by_key[k]].body = finding_by_key[k] /\ issues' = issues
         \/ issues' = [issues EXCEPT ![open_by_key[k]].body = finding_by_key[k]]
  BY <1>1 DEF Update, Settling, Works, Fails
<1>3. listed = DOMAIN fetched /\ AsListed /\ NewAreFiled /\ Handled
  BY <1>2 DEF SettlingInv
<1>4. PICK n : n = open_by_key[k] /\ n \in DOMAIN fetched /\ n \in OpenOf(issues, k)
               /\ n = Min(OpenOf(issues, k))
  BY <1>1, <1>2, OpenListed
<1>5. /\ todo' = todo \ {k} /\ unhandled' = unhandled \ {k} /\ unhandled = todo
      /\ UNCHANGED <<phase, finding_by_key, fetched, listed>>
  BY <1>1 DEF Done, unhandled
<1>6. CASE fetched[n].body = finding_by_key[k] /\ issues' = issues
  <2>1. issues[n] = fetched[n]
    <3>1. fetched[n].key = k
      BY <1>3, <1>4 DEF AsListed, OpenOf, Of
    <3>. QED
      BY <1>1, <1>3, <1>4, <1>5, <3>1 DEF AsListed
  <2>2. Filed(issues, finding_by_key, k)
    BY <1>4, <1>6, <2>1 DEF Filed
  <2>. QED
    BY <1>1, <1>2, <1>6, <2>2, SilentStep
<1>7. CASE issues' = [issues EXCEPT ![n].body = finding_by_key[k]]
  <2>1. /\ issues[n] \in Issue /\ n \in DOMAIN issues /\ issues[n].key = k /\ issues[n].open
        /\ DOMAIN fetched \subseteq DOMAIN issues
        /\ issues \in Seq(Issue) /\ DOMAIN issues' = DOMAIN issues
    BY <1>1, <1>4, <1>7 DEF TypeOK, OpenOf, Of
  <2>2. /\ \A m \in DOMAIN issues : m # n => issues'[m] = issues[m]
        /\ issues'[n].key = k /\ issues'[n].open = issues[n].open
        /\ issues'[n].marked = issues[n].marked
        /\ issues'[n].body = finding_by_key[k]
    BY <1>7, <2>1 DEF Issue
  <2>3. DOMAIN (open_by_key') = DOMAIN open_by_key
    BY <1>5 DEF open_by_key, ByKey
  <2>4. AsListed'
    <3>. SUFFICES ASSUME NEW m \in DOMAIN fetched
                  PROVE  LET l == fetched[m].key IN
                         /\ issues'[m].key = l
                         /\ issues'[m].open => fetched[m].open
                         /\ l \in DOMAIN finding_by_key =>
                              /\ issues'[m].open = fetched[m].open
                              /\ issues'[m].marked = fetched[m].marked
                         /\ l \in unhandled' => issues'[m] = fetched[m]
      BY <1>5 DEF AsListed
    <3>1. CASE m = n
      BY <1>3, <1>5, <2>1, <2>2, <3>1 DEF AsListed
    <3>2. CASE m # n
      BY <1>3, <1>5, <2>1, <2>2, <3>2 DEF AsListed
    <3>. QED
      BY <3>1, <3>2
  <2>5. NewAreFiled'
    <3>1. ~ (n > Len(fetched))
      BY <1>1, <1>4 DEF TypeOK
    <3>. QED
      BY <1>3, <1>5, <2>1, <2>2, <2>3, <3>1 DEF NewAreFiled
  <2>6. Handled'
    <3>. SUFFICES ASSUME NEW l \in DOMAIN finding_by_key \ unhandled'
                  PROVE  (Filed(issues, finding_by_key, l) \/ Declined(issues, l) \/ Capped)'
      BY <1>5 DEF Handled
    <3>1. CASE l = k
      <4>1. OpenOf(issues', k) = OpenOf(issues, k)
        BY <2>1, <2>2 DEF OpenOf, Of
      <4>. QED
        BY <1>4, <1>5, <2>2, <3>1, <4>1 DEF Filed
    <3>2. CASE l # k
      <4>1. Filed(issues, finding_by_key, l) \/ Declined(issues, l) \/ Capped
        BY <1>3, <1>5, <3>2 DEF Handled
      <4>2. Of(issues', l) = Of(issues, l) /\ \A m \in Of(issues, l) : issues'[m] = issues[m]
        BY <2>1, <2>2, <3>2 DEF Of
      <4>3. create_count' >= create_count
        BY <1>1 DEF TypeOK
      <4>. QED
        BY <1>1, <1>5, <4>1, <4>2, <4>3, OthersHandled
    <3>. QED
      BY <3>1, <3>2
  <2>. QED
    BY <1>1, <1>3, <1>5, <2>4, <2>5, <2>6 DEF SettlingInv, ResolvedClosed
<1>. QED
  BY <1>2, <1>4, <1>6, <1>7

LEMMA CheckClosedSettles ==
  ASSUME IInv, IInv', SettlingInv, NEW k \in Keys, CheckClosed(k), Settling'
  PROVE  SettlingInv'
<1>1. /\ TypeOK /\ TypeOK' /\ issues' = issues /\ create_count' = create_count
      /\ phase = "filing" /\ k \in todo /\ k \in DOMAIN finding_by_key
      /\ k \notin DOMAIN open_by_key /\ k \in DOMAIN closed_by_key
  BY DEF IInv, CheckClosed, Turn, TodoKnown
<1>2. /\ Settling
      /\ \/ UNCHANGED <<phase, finding_by_key, fetched, listed, todo>>
         \/ ~ issues[closed_by_key[k]].marked /\ Done(k)
  <2>1. clean' = TRUE => clean = TRUE
    BY DEF CheckClosed, Works, Fails
  <2>2. ~ Fails("view")
    BY DEF Settling, Fails
  <2>3. clean \in BOOLEAN /\ clean' \in BOOLEAN
    BY <1>1 DEF TypeOK
  <2>. QED
    BY <1>1, <2>1, <2>2, <2>3 DEF CheckClosed, Settling
<1>3. CASE UNCHANGED <<phase, finding_by_key, fetched, listed, todo>>
  <2>1. DOMAIN (open_by_key') = DOMAIN open_by_key /\ unhandled' = unhandled
    BY <1>3 DEF open_by_key, ByKey, unhandled
  <2>2. listed = DOMAIN fetched /\ AsListed /\ NewAreFiled /\ Handled
    BY <1>2 DEF SettlingInv
  <2>3. AsListed' /\ NewAreFiled' /\ Handled'
    BY <1>1, <1>3, <2>1, <2>2 DEF AsListed, NewAreFiled, Handled, Filed, Declined, Capped,
                                  is_first_run
  <2>. QED
    BY <1>1, <1>3, <2>2, <2>3 DEF SettlingInv, ResolvedClosed
<1>4. CASE ~ issues[closed_by_key[k]].marked /\ Done(k)
  <2>1. k \in unhandled
    BY <1>1 DEF unhandled
  <2>2. OpenOf(issues, k) = {} /\ OpenOf(fetched, k) = {} /\ Of(issues, k) = Of(fetched, k)
    BY <1>1, <1>2, <2>1, ClosedListed
  <2>3. listed = DOMAIN fetched
    BY <1>2 DEF SettlingInv
  <2>4. closed_by_key[k] = Min(Of(issues, k)) /\ Of(issues, k) # {}
    BY <1>1, <2>2, <2>3, PartitionOf
  <2>5. Declined(issues, k)
    BY <1>4, <2>2, <2>4 DEF Declined
  <2>. QED
    BY <1>1, <1>2, <1>4, <2>5, SilentStep
<1>. QED
  BY <1>2, <1>3, <1>4

LEMMA CreateSettles ==
  ASSUME IInv, IInv', SettlingInv, NEW k \in Keys, Create(k), Settling'
  PROVE  SettlingInv'
<1>1. /\ TypeOK /\ TypeOK' /\ Done(k) /\ phase = "filing" /\ k \in todo
      /\ k \in DOMAIN finding_by_key /\ k \notin DOMAIN open_by_key
  BY CreateReached DEF IInv, Create
<1>2. /\ Settling
      /\ \/ Capped /\ issues' = issues /\ create_count' = create_count
         \/ issues' = Append(issues, NewIssue(k)) /\ create_count' = create_count + 1
  BY <1>1 DEF Create, NewIssue, Settling, Works, Fails
<1>3. listed = DOMAIN fetched /\ AsListed /\ NewAreFiled /\ Handled
  BY <1>2 DEF SettlingInv
<1>4. /\ todo' = todo \ {k} /\ unhandled' = unhandled \ {k} /\ unhandled = todo
      /\ UNCHANGED <<phase, finding_by_key, fetched, listed>>
  BY <1>1 DEF Done, unhandled
<1>5. CASE Capped /\ issues' = issues /\ create_count' = create_count
  BY <1>1, <1>2, <1>5, SilentStep
<1>6. CASE issues' = Append(issues, NewIssue(k)) /\ create_count' = create_count + 1
  <2>1. /\ DOMAIN fetched \subseteq DOMAIN issues
        /\ Len(issues') \notin DOMAIN issues
        /\ \A n \in DOMAIN issues : n \in DOMAIN issues' /\ issues'[n] = issues[n]
        /\ \A n \in DOMAIN issues' : n \in DOMAIN issues \/ n = Len(issues')
        /\ Len(issues') \in DOMAIN issues' /\ issues'[Len(issues')] = NewIssue(k)
    BY <1>1, <1>6 DEF TypeOK
  <2>2. DOMAIN (open_by_key') = DOMAIN open_by_key
    BY <1>4 DEF open_by_key, ByKey
  <2>3. AsListed'
    BY <1>3, <1>4, <2>1 DEF AsListed
  <2>4. NewAreFiled'
    <3>1. /\ NewIssue(k).key = k /\ NewIssue(k).open
          /\ NewIssue(k).body = finding_by_key[k]
      BY DEF NewIssue
    <3>. QED
      BY <1>1, <1>3, <1>4, <2>1, <2>2, <3>1 DEF NewAreFiled
  <2>5. Handled'
    <3>. SUFFICES ASSUME NEW l \in DOMAIN finding_by_key \ unhandled'
                  PROVE  (Filed(issues, finding_by_key, l) \/ Declined(issues, l) \/ Capped)'
      BY <1>4 DEF Handled
    <3>1. CASE l = k
      <4>1. OpenOf(issues, k) = {}
        BY <1>1, <1>2, <1>4, ClosedListed
      <4>2. OpenOf(issues', k) = {Len(issues')}
        BY <2>1, <4>1 DEF OpenOf, Of, NewIssue
      <4>3. Min(OpenOf(issues', k)) \in OpenOf(issues', k)
        <5>1. OpenOf(issues', k) \in SUBSET Nat /\ OpenOf(issues', k) # {}
          BY <1>1, <4>2 DEF TypeOK
        <5>. QED
          BY <5>1, MinMember
      <4>. QED
        BY <1>4, <2>1, <3>1, <4>2, <4>3 DEF Filed, NewIssue
    <3>2. CASE l # k
      <4>1. Filed(issues, finding_by_key, l) \/ Declined(issues, l) \/ Capped
        BY <1>3, <1>4, <3>2 DEF Handled
      <4>2. Of(issues', l) = Of(issues, l) /\ \A m \in Of(issues, l) : issues'[m] = issues[m]
        BY <2>1, <3>2 DEF Of, NewIssue
      <4>3. create_count' >= create_count
        BY <1>1, <1>6 DEF TypeOK
      <4>. QED
        BY <1>1, <1>4, <4>1, <4>2, <4>3, OthersHandled
    <3>. QED
      BY <3>1, <3>2
  <2>. QED
    BY <1>1, <1>3, <1>4, <2>3, <2>4, <2>5 DEF SettlingInv, ResolvedClosed
<1>. QED
  BY <1>2, <1>5, <1>6

\* Closing concerns issues without a finding only.
LEMMA CloseSettles ==
  ASSUME IInv, IInv', SettlingInv, NEW k \in Keys, Close(k), Settling'
  PROVE  SettlingInv'
<1>. DEFINE n == open_by_key[k]
            e == [issues[n] EXCEPT !.marked = TRUE, !.open = FALSE, !.hand = "tool"]
<1>1. /\ TypeOK /\ TypeOK' /\ Done(k) /\ create_count' = create_count
      /\ phase = "closing" /\ k \in todo
  BY DEF IInv, Close
<1>2. Settling /\ (\/ ~ issues[n].open /\ issues' = issues
                   \/ issues' = [issues EXCEPT ![n] = e])
  BY <1>1 DEF Close, Settling, Works, Fails
<1>3. /\ listed = DOMAIN fetched /\ AsListed /\ NewAreFiled /\ Handled /\ ResolvedClosed
      /\ k \in DOMAIN open_by_key /\ k \notin DOMAIN finding_by_key
  BY <1>1, <1>2 DEF SettlingInv, ResolvedClosed
<1>4. n \in DOMAIN fetched /\ fetched[n].key = k
  BY <1>1, <1>3, PartitionOf DEF OpenOf, Of
<1>5. /\ n \in DOMAIN issues /\ issues[n] \in Issue /\ issues[n].key = k
      /\ issues \in Seq(Issue) /\ DOMAIN fetched \subseteq DOMAIN issues
  BY <1>1, <1>3, <1>4 DEF AsListed, TypeOK
<1>6. /\ todo' = todo \ {k} /\ unhandled' = {} /\ unhandled = {}
      /\ UNCHANGED <<phase, finding_by_key, fetched, listed>>
      /\ open_by_key' = open_by_key
  BY <1>1 DEF Done, unhandled, open_by_key, ByKey
<1>7. /\ DOMAIN issues' = DOMAIN issues
      /\ \A m \in DOMAIN issues : m # n => issues'[m] = issues[m]
      /\ issues'[n].key = k /\ ~ issues'[n].open
  <2>1. e.key = k /\ ~ e.open
    BY <1>5 DEF Issue
  <2>. HIDE DEF n, e
  <2>. QED
    BY <1>2, <1>5, <2>1
<1>. HIDE DEF n, e
<1>8. AsListed'
  <2>. SUFFICES ASSUME NEW m \in DOMAIN fetched
                PROVE  LET l == fetched[m].key IN
                       /\ issues'[m].key = l
                       /\ issues'[m].open => fetched[m].open
                       /\ l \in DOMAIN finding_by_key =>
                            /\ issues'[m].open = fetched[m].open
                            /\ issues'[m].marked = fetched[m].marked
    BY <1>6 DEF AsListed
  <2>1. CASE m = n
    BY <1>3, <1>4, <1>7, <2>1
  <2>2. CASE m # n
    BY <1>3, <1>5, <1>7, <2>2 DEF AsListed
  <2>. QED
    BY <2>1, <2>2
<1>9. NewAreFiled'
  <2>1. ~ (n > Len(fetched))
    BY <1>1, <1>4 DEF TypeOK
  <2>. QED
    BY <1>3, <1>6, <1>7, <2>1 DEF NewAreFiled
<1>10. Handled'
  <2>. SUFFICES ASSUME NEW l \in DOMAIN finding_by_key
                PROVE  (Filed(issues, finding_by_key, l) \/ Declined(issues, l) \/ Capped)'
    BY <1>6 DEF Handled
  <2>1. Filed(issues, finding_by_key, l) \/ Declined(issues, l) \/ Capped
    BY <1>3, <1>6 DEF Handled
  <2>2. Of(issues', l) = Of(issues, l) /\ \A m \in Of(issues, l) : issues'[m] = issues[m]
    BY <1>3, <1>5, <1>7 DEF Of
  <2>3. create_count' >= create_count
    BY <1>1 DEF TypeOK
  <2>. QED
    BY <1>1, <1>6, <2>1, <2>2, <2>3, OthersHandled
<1>11. ResolvedClosed'
  <2>1. \A l \in DOMAIN open_by_key : l # k => open_by_key[l] # n
    BY <1>1, <1>3, <1>4, PartitionOf DEF OpenOf, Of
  <2>2. \A l \in DOMAIN open_by_key : open_by_key[l] \in DOMAIN issues
    BY <1>1, <1>3, <1>5, PartitionOf DEF OpenOf, Of
  <2>3. ASSUME CloseResolved, NEW l \in DOMAIN open_by_key \ (DOMAIN finding_by_key \cup todo')
        PROVE  ~ issues'[open_by_key[l]].open
    <3>1. CASE l = k
      BY <1>7, <3>1 DEF n
    <3>2. CASE l # k
      BY <1>1, <1>3, <1>6, <1>7, <2>1, <2>2, <2>3, <3>2 DEF ResolvedClosed
    <3>. QED
      BY <3>1, <3>2
  <2>. QED
    BY <1>1, <1>3, <1>6, <2>3 DEF ResolvedClosed
<1>. QED
  BY <1>3, <1>6, <1>8, <1>9, <1>10, <1>11 DEF SettlingInv

\* The list was complete, and nothing is handled yet.
LEMMA ListSettles ==
  ASSUME IInv, IInv', ListIssues, Settling'
  PROVE  /\ SettlingInv' /\ listed' = DOMAIN fetched'
         /\ fetched' = issues /\ issues' = issues /\ recreating' = {}
<1>1. /\ TypeOK /\ phase' = "filing" /\ todo' = DOMAIN finding_by_key
      /\ UNCHANGED <<issues, finding_by_key, recreating>> /\ recreating = {}
  BY DEF IInv, RecreatingJustified, ListIssues
<1>2. /\ fetched' = issues
      /\ listed' = {n \in DOMAIN issues : n > Len(issues) - FetchLimit}
      /\ Len(issues) <= FetchLimit
  <2>1. clean' = TRUE
    BY DEF Settling, IInv, TypeOK
  <2>. QED
    BY <2>1 DEF ListIssues, Fails
<1>3. listed' = DOMAIN issues
  <2>1. Len(issues) \in Nat /\ DOMAIN issues = 1 .. Len(issues) /\ FetchLimit \in Nat
    BY <1>1, IssueSyncAssumption DEF TypeOK
  <2>. HIDE DEF TypeOK
  <2>2. \A n \in DOMAIN issues : n > Len(issues) - FetchLimit
    BY <1>2, <2>1
  <2>. QED
    BY <1>2, <2>2
<1>4. unhandled' = DOMAIN finding_by_key'
  BY <1>1 DEF unhandled
<1>5. AsListed' /\ NewAreFiled'
  <2>1. \A n \in DOMAIN issues : ~ (n > Len(issues))
    BY <1>1 DEF TypeOK
  <2>. QED
    BY <1>1, <1>2, <2>1 DEF AsListed, NewAreFiled
<1>. QED
  BY <1>1, <1>2, <1>3, <1>4, <1>5 DEF SettlingInv, Handled, ResolvedClosed

LEMMA FilingEndsSettles ==
  ASSUME IInv, SettlingInv, FilingEnds, Settling'
  PROVE  SettlingInv'
<1>1. /\ phase = "filing" /\ phase' = "closing" /\ todo = {}
      /\ todo' = IF CloseResolved THEN DOMAIN open_by_key \ DOMAIN finding_by_key ELSE {}
      /\ UNCHANGED <<issues, finding_by_key, fetched, listed, create_count, clean>>
  BY DEF FilingEnds
<1>2. Settling
  BY <1>1 DEF Settling
<1>3. unhandled = {} /\ unhandled' = {} /\ open_by_key' = open_by_key
  BY <1>1 DEF unhandled, open_by_key, ByKey
<1>4. listed = DOMAIN fetched /\ AsListed /\ NewAreFiled /\ Handled
  BY <1>2 DEF SettlingInv
<1>5. AsListed' /\ NewAreFiled' /\ Handled'
  BY <1>1, <1>3, <1>4 DEF AsListed, NewAreFiled, Handled, Filed, Declined, Capped, is_first_run
<1>6. ResolvedClosed'
  BY <1>1, <1>3 DEF ResolvedClosed
<1>. QED
  BY <1>1, <1>4, <1>5, <1>6 DEF SettlingInv

\* What leaves the run and the repository alone.
LEMMA OutsideSettles ==
  ASSUME SettlingInv, UNCHANGED <<issues, run, clean>>
  PROVE  SettlingInv'
<1>1. UNCHANGED <<issues, phase, finding_by_key, fetched, listed, todo, create_count, clean>>
  BY DEF run
<1>2. /\ unhandled' = unhandled /\ open_by_key' = open_by_key
      /\ (Settling' <=> Settling)
  BY <1>1 DEF unhandled, open_by_key, ByKey, Settling
<1>3. CASE Settling
  <2>1. listed = DOMAIN fetched /\ AsListed /\ NewAreFiled /\ Handled /\ ResolvedClosed
    BY <1>3 DEF SettlingInv
  <2>2. AsListed' /\ NewAreFiled' /\ Handled'
    BY <1>1, <1>2, <2>1 DEF AsListed, NewAreFiled, Handled, Filed, Declined, Capped,
                            is_first_run
  <2>3. ResolvedClosed'
    BY <1>1, <1>2, <2>1 DEF ResolvedClosed
  <2>. QED
    BY <1>1, <2>1, <2>2, <2>3 DEF SettlingInv
<1>. QED
  BY <1>2, <1>3 DEF SettlingInv

\* Nobody disturbed what settles.
LEMMA DisturbedOrLeft ==
  ASSUME StartSync \/ EndSync \/ Die \/ \E n \in DOMAIN issues : Touch(n)
  PROVE  ~ Settling'
<1>1. CASE StartSync
  BY <1>1 DEF StartSync, Settling
<1>2. CASE EndSync \/ Die
  BY <1>2 DEF EndSync, Die, Leave, Settling
<1>3. CASE \E n \in DOMAIN issues : Touch(n)
  BY <1>3 DEF Touch, Settling
<1>. QED
  BY <1>1, <1>2, <1>3

-----------------------------------------------------------------------------
(***************************************************************************)
(* A run that finds everything in place.                                   *)
(***************************************************************************)
\* No finding is filed anew or edited, and no issue is closed.
LEMMA NothingToDo ==
  ASSUME IInv, SettlingInv, NothingWritten, Settling, InPlace, NEW k \in Keys
  PROVE  /\ ~ Create(k) /\ ~ Close(k)
         /\ Update(k) /\ Settling' => issues' = issues
         /\ CheckClosed(k) /\ Settling' => recreating' = {}
<1>1. /\ TypeOK /\ listed = DOMAIN fetched /\ ResolvedClosed
      /\ issues = fetched /\ recreating = {}
  BY DEF IInv, SettlingInv, NothingWritten
<1>2. ASSUME k \in DOMAIN finding_by_key, k \notin DOMAIN open_by_key
      PROVE  k \in DOMAIN closed_by_key /\ ~ issues[closed_by_key[k]].marked
  <2>1. OpenOf(fetched, k) = {}
    BY <1>1, <1>2, PartitionOf
  <2>2. Declined(fetched, k)
    BY <1>2, <2>1 DEF InPlace, Filed
  <2>. QED
    BY <1>1, <2>1, <2>2, PartitionOf DEF Declined
<1>3. ~ Create(k)
  <2>. SUFFICES ASSUME Create(k) PROVE FALSE
    OBVIOUS
  <2>1. k \in DOMAIN finding_by_key /\ k \notin DOMAIN open_by_key
    BY CreateReached
  <2>. QED
    BY <1>1, <1>2, <2>1 DEF Create
<1>4. ~ Close(k)
  <2>. SUFFICES ASSUME Close(k) PROVE FALSE
    OBVIOUS
  <2>1. k \in DOMAIN open_by_key \ DOMAIN finding_by_key
    BY <1>1 DEF Close, ResolvedClosed
  <2>. QED
    BY <1>1, <2>1, PartitionOf DEF InPlace
<1>5. ASSUME Update(k), Settling' PROVE issues' = issues
  <2>1. k \in DOMAIN open_by_key /\ k \in DOMAIN finding_by_key
    BY <1>5 DEF Update, Turn, IInv, TodoKnown
  <2>2. OpenOf(fetched, k) # {} /\ open_by_key[k] = Min(OpenOf(fetched, k))
    BY <1>1, <2>1, PartitionOf
  <2>3. fetched[open_by_key[k]].body = finding_by_key[k]
    BY <2>1, <2>2 DEF InPlace, Filed, Declined
  <2>. QED
    BY <1>5, <2>3 DEF Update
<1>6. ASSUME CheckClosed(k), Settling' PROVE recreating' = {}
  <2>1. k \in DOMAIN finding_by_key /\ k \notin DOMAIN open_by_key
    BY <1>6 DEF CheckClosed, Turn, IInv, TodoKnown
  <2>2. ~ issues[closed_by_key[k]].marked
    BY <1>2, <2>1
  <2>. QED
    BY <1>6, <2>2 DEF CheckClosed, Done
<1>. QED
  BY <1>3, <1>4, <1>5, <1>6

SettledInv == IInv /\ SettlingInv /\ NothingWritten

LEMMA SettledStep ==
  ASSUME SettledInv, IInv', [Next]_vars
  PROVE  SettlingInv' /\ NothingWritten'
<1>1. IInv /\ SettlingInv /\ NothingWritten
  BY DEF SettledInv
<1>2. ASSUME ~ Settling' PROVE SettlingInv' /\ NothingWritten'
  BY <1>2 DEF SettlingInv, NothingWritten
<1>3. ASSUME UNCHANGED <<issues, run, clean>> PROVE SettlingInv' /\ NothingWritten'
  <2>1. NothingWritten'
    BY <1>1, <1>3 DEF NothingWritten, Settling, InPlace, run, Filed, Declined
  <2>. QED
    BY <1>1, <1>3, <2>1, OutsideSettles
<1>4. ASSUME ListIssues, Settling' PROVE SettlingInv' /\ NothingWritten'
  BY <1>1, <1>4, ListSettles DEF NothingWritten
<1>5. ASSUME FilingEnds, Settling' PROVE SettlingInv' /\ NothingWritten'
  <2>1. /\ Settling /\ (InPlace' <=> InPlace)
        /\ UNCHANGED <<issues, fetched, recreating>>
    BY <1>5 DEF FilingEnds, Settling, InPlace, Filed, Declined
  <2>. QED
    BY <1>1, <1>5, <2>1, FilingEndsSettles DEF NothingWritten
<1>6. ASSUME NEW k \in Keys, Update(k) \/ CheckClosed(k) \/ Create(k) \/ Close(k), Settling'
      PROVE  SettlingInv' /\ NothingWritten'
  <2>1. SettlingInv'
    BY <1>1, <1>6, UpdateSettles, CheckClosedSettles, CreateSettles, CloseSettles
  <2>2. /\ phase \in {"filing", "closing"}
        /\ UNCHANGED <<finding_by_key, fetched>>
        /\ clean' => clean
        /\ Update(k) \/ Create(k) \/ Close(k) => recreating' = {}
        /\ CheckClosed(k) => issues' = issues
    <3>1. phase \in {"filing", "closing"}
      BY <1>1, <1>6, CreateReached DEF Update, CheckClosed, Turn, Close
    <3>2. UNCHANGED <<finding_by_key, fetched>>
      BY <1>6 DEF Update, CheckClosed, Create, Close, Done
    <3>3. Works \/ clean' = FALSE
      BY <1>6 DEF Update, CheckClosed, Create, Close, Fails
    <3>4. clean' => clean
      BY <3>3 DEF Works
    <3>5. CheckClosed(k) => issues' = issues
      BY DEF CheckClosed
    <3>6. Update(k) \/ Create(k) \/ Close(k) => recreating' = {}
      BY DEF Update, Create, Close, Done
    <3>. QED
      BY <3>1, <3>2, <3>4, <3>5, <3>6
  <2>3. Settling /\ (InPlace' <=> InPlace)
    BY <1>6, <2>2 DEF Settling, InPlace, Filed, Declined
  <2>4. ASSUME InPlace PROVE issues' = fetched' /\ recreating' = {}
    <3>1. issues = fetched /\ recreating = {}
      BY <1>1, <2>3, <2>4 DEF NothingWritten
    <3>2. /\ ~ Create(k) /\ ~ Close(k)
          /\ Update(k) => issues' = issues
          /\ CheckClosed(k) => recreating' = {}
      BY <1>1, <1>6, <2>3, <2>4, NothingToDo
    <3>. QED
      BY <1>6, <2>2, <3>1, <3>2
  <2>. QED
    BY <2>1, <2>3, <2>4 DEF NothingWritten
<1>7. CASE StartSync \/ EndSync \/ Die \/ \E n \in DOMAIN issues : Touch(n)
  BY <1>2, <1>7, DisturbedOrLeft
<1>8. CASE CodeChanges \/ UNCHANGED vars
  BY <1>3, <1>8 DEF CodeChanges, vars
<1>. QED
  BY <1>2, <1>4, <1>5, <1>6, <1>7, <1>8 DEF Next, SyncStep

LEMMA SettledInvariance == Spec => []SettledInv
<1>1. Init => SettlingInv /\ NothingWritten
  BY DEF Init, SettlingInv, NothingWritten, Settling
<1>2. SettledInv /\ IInv' /\ [Next]_vars => SettlingInv' /\ NothingWritten'
  BY SettledStep
<1>3. IInv /\ SettlingInv /\ NothingWritten <=> SettledInv
  BY DEF SettledInv
<1>. QED
  BY <1>1, <1>2, <1>3, Invariance, PTL DEF Spec

\* A run that nothing disturbs leaves every finding filed, declined or beyond the cap,
\* and closes the oldest open issue of what is gone.
THEOREM RunsSettle == Spec => []RunSettles
<1>1. SettledInv => RunSettles
  <2>. SUFFICES ASSUME SettledInv, phase = "closing", todo = {}, clean
                PROVE  /\ \A k \in DOMAIN finding_by_key :
                            \/ Filed(issues, finding_by_key, k)
                            \/ Declined(issues, k)
                            \/ Capped
                       /\ CloseResolved => \A k \in Keys \ DOMAIN finding_by_key :
                            \A n \in OpenOf(issues, k) :
                              \E m \in OpenOf(fetched, k) : m < n
    BY DEF RunSettles
  <2>1. /\ TypeOK /\ listed = DOMAIN fetched /\ AsListed /\ NewAreFiled /\ Handled
        /\ ResolvedClosed /\ unhandled = {}
    BY DEF SettledInv, IInv, SettlingInv, Settling, unhandled
  <2>2. \A k \in DOMAIN finding_by_key :
          Filed(issues, finding_by_key, k) \/ Declined(issues, k) \/ Capped
    BY <2>1 DEF Handled
  <2>3. ASSUME CloseResolved, NEW k \in Keys \ DOMAIN finding_by_key,
               NEW n \in OpenOf(issues, k)
        PROVE  \E m \in OpenOf(fetched, k) : m < n
    <3>1. n \in DOMAIN issues /\ issues[n].key = k /\ issues[n].open
      BY DEF OpenOf, Of
    <3>2. ~ (n > Len(fetched))
      BY <2>1, <3>1 DEF NewAreFiled
    <3>3. n \in DOMAIN fetched
      BY <2>1, <3>1, <3>2 DEF TypeOK
    <3>4. n \in OpenOf(fetched, k)
      BY <2>1, <3>1, <3>3 DEF AsListed, OpenOf, Of
    <3>5. k \in DOMAIN open_by_key /\ ~ issues[open_by_key[k]].open
      BY <2>1, <2>3, <3>4, PartitionOf DEF ResolvedClosed
    <3>6. open_by_key[k] \in OpenOf(fetched, k) /\ open_by_key[k] <= n
      BY <2>1, <3>4, <3>5, PartitionOf
    <3>7. open_by_key[k] \in Nat /\ n \in Nat
      BY <2>1, <3>4, <3>6 DEF OpenOf, Of, TypeOK
    <3>8. open_by_key[k] # n
      BY <3>1, <3>5
    <3>. QED
      BY <3>6, <3>7, <3>8
  <2>. QED
    BY <2>2, <2>3
<1>. QED
  BY <1>1, SettledInvariance, PTL

\* A run that nothing disturbs and that finds everything in place writes nothing.
THEOREM RunsIdempotent == Spec => []RunIsIdempotent
<1>1. SettledInv => RunIsIdempotent
  BY DEF SettledInv, RunIsIdempotent, NothingWritten, Settling, InPlace
<1>. QED
  BY <1>1, SettledInvariance, PTL

-----------------------------------------------------------------------------
(***************************************************************************)
(* IssueSync implements IssueTracker.                                      *)
(***************************************************************************)

\* What was listed is still there, under its key, complete or not.
StillThere ==
  \A n \in listed :
    phase \in {"filing", "closing"} /\ issues[n].key = fetched[n].key

\* Only issues of findings that are gone are to be closed.
OnlyGone ==
  phase = "closing" =>
    /\ todo \subseteq DOMAIN open_by_key \ DOMAIN finding_by_key
    /\ todo # {} => CloseResolved

TrackInv == IInv /\ StillThere /\ OnlyGone

\* The issue that stands for a key among the listed ones is one of that key.
LEMMA OpenByKeyIsOf ==
  ASSUME TypeOK, StillThere, NEW k \in DOMAIN open_by_key
  PROVE  open_by_key[k] \in DOMAIN issues /\ issues[open_by_key[k]].key = k
<1>. DEFINE O == {n \in {m \in listed : fetched[m].open} : fetched[n].key = k}
<1>1. O # {} /\ open_by_key[k] = Min(O)
  BY DEF open_by_key, ByKey
<1>2. O \in SUBSET Nat /\ O \subseteq listed /\ \A n \in O : fetched[n].key = k
  BY DEF TypeOK
<1>3. open_by_key[k] \in O
  <2>. HIDE DEF O
  <2>. QED
    BY <1>1, <1>2, MinMember
<1>4. listed \subseteq DOMAIN issues
  BY DEF TypeOK
<1>. QED
  BY <1>2, <1>3, <1>4 DEF StillThere

\* Steps of a run that leave it with the findings and the list it has.
LEMMA RunTracks ==
  ASSUME TrackInv, UNCHANGED <<phase, finding_by_key, fetched, listed>>, todo' \subseteq todo,
         \A n \in DOMAIN issues : issues'[n].key = issues[n].key
  PROVE  StillThere' /\ OnlyGone'
<1>1. TypeOK /\ StillThere /\ OnlyGone
  BY DEF TrackInv, IInv
<1>2. listed \subseteq DOMAIN issues
  BY <1>1 DEF TypeOK
<1>3. DOMAIN (open_by_key') = DOMAIN open_by_key
  BY DEF open_by_key, ByKey
<1>. QED
  BY <1>1, <1>2, <1>3 DEF StillThere, OnlyGone

\* Nothing happens to the keys of issues.
LEMMA KeysStay ==
  ASSUME IInv, [Next]_vars, NEW n \in DOMAIN issues
  PROVE  issues'[n].key = issues[n].key
<1>1. TypeOK
  BY DEF IInv
<1>2. ASSUME Kept PROVE issues'[n].key = issues[n].key
  BY <1>2 DEF Kept
<1>3. ASSUME NEW k \in Keys, Update(k) \/ Close(k) PROVE Kept
  BY <1>1, <1>3, UpdateKept, CloseTouches DEF IInv
<1>4. ASSUME NEW k \in Keys, Create(k) PROVE issues'[n].key = issues[n].key
  <2>1. issues' = issues \/ issues' = Append(issues, NewIssue(k))
    BY <1>4 DEF Create, NewIssue
  <2>. QED
    BY <1>1, <2>1 DEF TypeOK
<1>5. CASE \E m \in DOMAIN issues : Touch(m)
  BY <1>1, <1>2, <1>5, TouchKept
<1>6. CASE issues' = issues
  BY <1>6
<1>. QED
  BY <1>2, <1>3, <1>4, <1>5, <1>6
  DEF Next, SyncStep, StartSync, ListIssues, CheckClosed, FilingEnds, EndSync, Die, Leave,
      CodeChanges, vars

LEMMA TrackStep == ASSUME TrackInv, [Next]_vars PROVE StillThere' /\ OnlyGone'
<1>1. TypeOK /\ IInv /\ StillThere
  BY DEF TrackInv, IInv
<1>2. CASE StartSync
  BY <1>1, <1>2 DEF StartSync, StillThere, OnlyGone
<1>3. CASE EndSync \/ Die
  BY <1>3 DEF EndSync, Die, Leave, StillThere, OnlyGone
<1>4. CASE ListIssues
  <2>1. /\ phase = "listing" /\ phase' = "filing" /\ issues' = issues
        /\ \/ fetched' = issues
           \/ UNCHANGED <<fetched, listed>>
    BY <1>4 DEF ListIssues
  <2>. QED
    BY <1>1, <2>1 DEF StillThere, OnlyGone
<1>5. CASE FilingEnds
  <2>1. /\ phase = "filing" /\ UNCHANGED <<issues, finding_by_key, fetched, listed>>
        /\ todo' = IF CloseResolved THEN DOMAIN open_by_key \ DOMAIN finding_by_key ELSE {}
        /\ phase' = "closing"
    BY <1>5 DEF FilingEnds
  <2>2. DOMAIN (open_by_key') = DOMAIN open_by_key
    BY <2>1 DEF open_by_key, ByKey
  <2>. QED
    BY <1>1, <2>1, <2>2 DEF StillThere, OnlyGone
<1>6. ASSUME UNCHANGED <<phase, finding_by_key, fetched, listed>>, todo' \subseteq todo
      PROVE  StillThere' /\ OnlyGone'
  BY <1>1, <1>6, KeysStay, RunTracks
<1>7. ASSUME NEW k \in Keys, Update(k) \/ CheckClosed(k) \/ Create(k) \/ Close(k)
      PROVE  StillThere' /\ OnlyGone'
  BY <1>6, <1>7 DEF Update, CheckClosed, Create, Close, Done
<1>8. CASE CodeChanges \/ (\E n \in DOMAIN issues : Touch(n)) \/ UNCHANGED vars
  BY <1>6, <1>8 DEF CodeChanges, Touch, vars, run
<1>. QED
  BY <1>2, <1>3, <1>4, <1>5, <1>7, <1>8 DEF Next, SyncStep

LEMMA TrackInvariance == Spec => []TrackInv
<1>1. Init => StillThere /\ OnlyGone
  BY DEF Init, StillThere, OnlyGone
<1>2. TrackInv /\ [Next]_vars => StillThere' /\ OnlyGone'
  BY TrackStep
<1>3. TrackInv <=> IInv /\ StillThere /\ OnlyGone
  BY DEF TrackInv
<1>. QED
  BY <1>1, <1>2, <1>3, Invariance, PTL DEF Spec

-----------------------------------------------------------------------------
\* A creation is an opening that people have not declined.
LEMMA CreateTracked ==
  ASSUME IInv, NEW k \in Keys, Create(k)
  PROVE  Tracker!Next \/ UNCHANGED Tracker!vars
<1>1. UNCHANGED <<finding_by_key, misread>> /\ k \in DOMAIN finding_by_key
  BY CreateReached DEF Create, Done
<1>2. CASE issues' = issues
  BY <1>1, <1>2 DEF Tracker!vars
<1>3. CASE issues' = Append(issues, NewIssue(k))
  <2>1. ASSUME ~ misread PROVE ~ Tracker!OwnOpen(k) /\ ~ Tracker!LeftToPeople(k)
    <3>1. \A m \in Of(issues, k) : issues[m].open => issues[m].hand # "tool"
      BY <2>1, NoneOpen DEF OpenOf
    <3>2. Of(issues, k) # {} => \E n \in Of(issues, k) : issues[n].marked
      BY <2>1, CreateReached
    <3>. QED
      BY <3>1, <3>2 DEF Tracker!OwnOpen, Tracker!LeftToPeople, Tracker!Of, Of
  <2>2. Tracker!Open(k)
    BY <1>1, <1>3, <2>1 DEF Tracker!Open, NewIssue
  <2>. QED
    BY <1>1, <2>2 DEF Tracker!Next
<1>. QED
  BY <1>2, <1>3 DEF Create, NewIssue

\* An update rewrites the issue that stands for its finding.
LEMMA UpdateTracked ==
  ASSUME TrackInv, NEW k \in Keys, Update(k)
  PROVE  Tracker!Next \/ UNCHANGED Tracker!vars
<1>1. /\ TypeOK /\ StillThere /\ k \in DOMAIN open_by_key /\ k \in DOMAIN finding_by_key
      /\ UNCHANGED <<finding_by_key, misread>>
  BY DEF TrackInv, IInv, TodoKnown, Update, Turn, Done
<1>2. open_by_key[k] \in DOMAIN issues /\ issues[open_by_key[k]].key = k
  BY <1>1, OpenByKeyIsOf
<1>3. CASE issues' = issues
  BY <1>1, <1>3 DEF Tracker!vars
<1>4. CASE issues' = [issues EXCEPT ![open_by_key[k]].body = finding_by_key[k]]
  <2>1. Tracker!Edit(open_by_key[k])
    BY <1>1, <1>2, <1>4 DEF Tracker!Edit
  <2>. QED
    BY <1>2, <2>1 DEF Tracker!Next
<1>. QED
  BY <1>3, <1>4 DEF Update

\* What is closed, or only marked, belongs to no finding of the run.
LEMMA CloseTracked ==
  ASSUME TrackInv, NEW k \in Keys, Close(k)
  PROVE  Tracker!Next \/ UNCHANGED Tracker!vars
<1>1. /\ TypeOK /\ StillThere /\ CloseResolved
      /\ k \in DOMAIN open_by_key /\ k \notin DOMAIN finding_by_key
      /\ UNCHANGED <<finding_by_key, misread>>
  BY DEF TrackInv, IInv, OnlyGone, Close, Done
<1>. DEFINE n == open_by_key[k]
<1>2. n \in DOMAIN issues /\ issues[n].key = k
  BY <1>1, OpenByKeyIsOf
<1>. HIDE DEF n
<1>3. \/ issues' = issues
      \/ /\ issues[n].open
         /\ \/ issues' = [issues EXCEPT ![n].marked = TRUE]
            \/ issues' = [issues EXCEPT ![n].marked = TRUE, ![n].open = FALSE,
                                        ![n].hand = "tool"]
  BY DEF Close, n
<1>4. CASE issues' = issues
  BY <1>1, <1>4 DEF Tracker!vars
<1>5. CASE issues' # issues
  <2>1. Tracker!MarkOrClose(n)
    BY <1>1, <1>2, <1>3, <1>5 DEF Tracker!MarkOrClose
  <2>. QED
    BY <1>2, <2>1 DEF Tracker!Next
<1>. QED
  BY <1>4, <1>5

\* Every step of a run, of people or of the code is a step of the tracker or none.
LEMMA StepTracked ==
  ASSUME TrackInv, [Next]_vars
  PROVE  Tracker!Next \/ UNCHANGED Tracker!vars
<1>1. TypeOK /\ IInv
  BY DEF TrackInv, IInv
<1>2. CASE StartSync \/ EndSync \/ Die
  <2>1. NoFindings \in Reports
    BY DEF NoFindings, Reports
  <2>2. finding_by_key' \in Reports /\ UNCHANGED <<issues, misread>>
    BY <1>1, <1>2, <2>1 DEF StartSync, EndSync, Die, Leave, TypeOK
  <2>. QED
    BY <2>2 DEF Tracker!Give, Tracker!Next
<1>3. CASE ListIssues
  <2>1. /\ UNCHANGED <<issues, finding_by_key>>
        /\ misread' = TRUE \/ misread' = (misread \/ Len(issues) > FetchLimit)
    BY <1>3 DEF ListIssues
  <2>2. misread' \in {misread, TRUE}
    BY <1>1, <2>1 DEF TypeOK
  <2>. QED
    BY <2>1, <2>2 DEF Tracker!Misread, Tracker!Next, Tracker!vars
<1>4. ASSUME NEW n \in DOMAIN issues, Touch(n) PROVE Tracker!Next
  BY <1>4 DEF Touch, run, Tracker!Touch, Tracker!Next
<1>5. CASE FilingEnds \/ CodeChanges \/ (\E k \in Keys : CheckClosed(k)) \/ UNCHANGED vars
  BY <1>5 DEF FilingEnds, CodeChanges, CheckClosed, Done, run, vars, Tracker!vars
<1>6. ASSUME NEW k \in Keys, Update(k) \/ Create(k) \/ Close(k)
      PROVE  Tracker!Next \/ UNCHANGED Tracker!vars
  BY <1>1, <1>6, UpdateTracked, CreateTracked, CloseTracked
<1>. QED
  BY <1>2, <1>3, <1>4, <1>5, <1>6 DEF Next, SyncStep

\* The sync implements the tracker: whatever fails, dies or goes stale in a run, the
\* tool writes only what the findings of that run say, closes only what they lack,
\* never reopens anything, and with complete lists leaves people's decisions alone.
THEOREM ImplementsTracker == Spec => TrackerSpec
<1>1. Init => Tracker!Init
  BY DEF Init, Tracker!Init
<1>2. TrackInv /\ [Next]_vars => [Tracker!Next]_(Tracker!vars)
  BY StepTracked
<1>. QED
  BY <1>1, <1>2, TrackInvariance, PTL DEF Spec, TrackerSpec, Tracker!Spec
=============================================================================
