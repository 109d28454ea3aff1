----------------------------- MODULE IssueSync -----------------------------
(***************************************************************************)
(* `nfr-review issues sync` (src/nfr_review/issues.py): the issues of a    *)
(* repository are brought in line with the findings of a scan, one command *)
(* of the GitHub CLI at a time.                                            *)
(*                                                                         *)
(* Runs follow each other; while one is under way the code may change and  *)
(* people may close and reopen issues.  A command may fail, may time out   *)
(* before or after it took effect, and a run may die.  A finding is its    *)
(* dedup key and the body generate_issue_body makes of it; only findings   *)
(* that pass the thresholds appear.  The dry run, which only reads, labels *)
(* and the report are left out.                                            *)
(***************************************************************************)
EXTENDS Integers, Sequences, FiniteSetsExt

CONSTANTS
  Keys, Bodies,
  FirstRunCap,    \* first_run_cap
  FetchLimit,     \* --limit of gh issue list
  CloseResolved,  \* close_resolved
  Unreliable,     \* the commands that may fail; "run" stands for the process
  MaxFaults,      \* bound: failures in all
  MaxChanges,     \* bound: changes of the code
  MaxTouches      \* bound: issues closed or reopened by people

ASSUME IssueSyncAssumption ==
  /\ FirstRunCap \in Nat /\ FetchLimit \in Nat
  /\ CloseResolved \in BOOLEAN
  /\ Unreliable \subseteq {"list", "view", "create", "edit", "close", "run"}
  /\ MaxFaults \in Nat /\ MaxChanges \in Nat /\ MaxTouches \in Nat

\* The findings of a scan, by key.
Reports == UNION {[K -> Bodies] : K \in SUBSET Keys}
NoFindings == [k \in {} |-> 0]

\* marked: a comment carries the closed-by-tool marker.  hand: who last opened
\* or closed the issue.  The number of an issue is its position.
Issue == [key : Keys, body : Bodies, open : BOOLEAN, marked : BOOLEAN,
          hand : {"tool", "user"}]

VARIABLES
  issues,          \* the repository's issues, oldest first
  findings,        \* what a scan of the code finds now
  phase,           \* "idle", "listing", "filing", "closing"
  finding_by_key,  \* the findings this run works on
  fetched,         \* issues as this run read them
  listed,          \* numbers of the issues that the list returned
  todo,            \* keys this phase has not handled
  recreating,      \* {k} between "closed by the tool" and its new issue
  create_count,
  \* kept for the properties and the bounds:
  clean,           \* since the run began nothing failed or was cut, nobody interfered
  misread,         \* some list of issues failed or was cut at FetchLimit
  faults, changes, touches

run == <<phase, finding_by_key, fetched, listed, todo, recreating, create_count>>
bounds == <<changes, touches>>
vars == <<issues, findings, run, clean, misread, faults, bounds>>

Init ==
  /\ issues = <<>> /\ findings \in Reports
  /\ phase = "idle" /\ finding_by_key = NoFindings
  /\ fetched = <<>> /\ listed = {} /\ todo = {} /\ recreating = {}
  /\ create_count = 0
  /\ clean = TRUE /\ misread = FALSE /\ faults = 0 /\ changes = 0 /\ touches = 0

(***************************************************************************)
(* The world around a run.                                                 *)
(***************************************************************************)
CodeChanges ==
  /\ changes < MaxChanges /\ changes' = changes + 1
  /\ findings' \in Reports
  /\ UNCHANGED <<issues, run, clean, misread, faults, touches>>

\* Somebody closes or reopens an issue by hand.
Touch(n) ==
  /\ touches < MaxTouches /\ touches' = touches + 1
  /\ issues' = [issues EXCEPT ![n].open = ~ @, ![n].hand = "user"]
  /\ clean' = FALSE
  /\ UNCHANGED <<findings, run, misread, faults, changes>>

Fails(command) ==
  /\ command \in Unreliable
  /\ faults < MaxFaults /\ faults' = faults + 1
  /\ clean' = FALSE

Works == UNCHANGED <<faults, clean>>

(***************************************************************************)
(* A run.                                                                  *)
(***************************************************************************)
\* The run is over, whichever way; the next one starts from nothing.
Leave ==
  /\ phase' = "idle" /\ finding_by_key' = NoFindings
  /\ fetched' = <<>> /\ listed' = {} /\ todo' = {} /\ recreating' = {}
  /\ create_count' = 0
  /\ UNCHANGED <<issues, findings, misread, bounds>>

\* filter_findings, and the dictionary of findings by key.
StartSync ==
  /\ phase = "idle"
  /\ phase' = "listing"
  /\ finding_by_key' = findings
  /\ clean' = TRUE
  /\ UNCHANGED <<issues, findings, fetched, listed, todo, recreating, create_count,
                 misread, faults, bounds>>

\* gh issue list returns the newest issues, or its failure reads as none.
ListIssues ==
  /\ phase = "listing"
  /\ \/ /\ fetched' = issues
        /\ listed' = {n \in DOMAIN issues : n > Len(issues) - FetchLimit}
        /\ misread' = (misread \/ Len(issues) > FetchLimit)
        /\ clean' = (clean /\ Len(issues) <= FetchLimit)
        /\ faults' = faults
     \/ /\ Fails("list")
        /\ misread' = TRUE
        /\ UNCHANGED <<fetched, listed>>
  /\ phase' = "filing" /\ todo' = DOMAIN finding_by_key
  /\ UNCHANGED <<issues, findings, finding_by_key, recreating, create_count,
                 bounds>>

is_first_run == listed = {}

\* The list is newest first and later entries overwrite earlier ones: each key
\* is left with its oldest issue in that state.
ByKey(S) == [k \in {fetched[n].key : n \in S} |-> Min({n \in S : fetched[n].key = k})]
open_by_key == ByKey({n \in listed : fetched[n].open})
closed_by_key == ByKey({n \in listed : ~ fetched[n].open})

\* The next finding of the loop; the order is that of the scan file, any order.
Turn(k) == phase = "filing" /\ recreating = {} /\ k \in todo

Done(k) ==
  /\ todo' = todo \ {k}
  /\ recreating' = {}
  /\ UNCHANGED <<findings, phase, finding_by_key, fetched, listed, misread, bounds>>

\* Mutant: no edit is made.
UpdateNothing(k) ==
  /\ Turn(k) /\ k \in DOMAIN open_by_key
  /\ issues' = issues
  /\ Works
  /\ Done(k) /\ UNCHANGED create_count

\* Mutant: a body that differs is taken for another finding.
UpdateFallsThrough(k) ==
  /\ Turn(k) /\ k \in DOMAIN open_by_key
  /\ issues' = IF fetched[open_by_key[k]].body = finding_by_key[k]
               THEN issues
               ELSE Append(issues, [key |-> k, body |-> finding_by_key[k], open |-> TRUE,
                                    marked |-> FALSE, hand |-> "tool"])
  /\ Works
  /\ Done(k) /\ UNCHANGED create_count

\* Mutant: an issue that was closed since it was listed is opened again.
UpdateReopening(k) ==
  /\ Turn(k) /\ k \in DOMAIN open_by_key
  /\ issues' = [issues EXCEPT ![open_by_key[k]].body = finding_by_key[k],
                             ![open_by_key[k]].open = TRUE, ![open_by_key[k]].hand = "tool"]
  /\ Works
  /\ Done(k) /\ UNCHANGED create_count

\* _handle_update: an edit if the body differs from the one that was listed.
Update(k) ==
  /\ Turn(k) /\ k \in DOMAIN open_by_key
  /\ LET n == open_by_key[k] IN
       \/ fetched[n].body = finding_by_key[k] /\ Works /\ issues' = issues
       \/ /\ fetched[n].body # finding_by_key[k]
          /\ \/ Works /\ issues' = [issues EXCEPT ![n].body = finding_by_key[k]]
             \/ Fails("edit") /\ issues' \in {issues,
                                   [issues EXCEPT ![n].body = finding_by_key[k]]}
  /\ Done(k) /\ UNCHANGED create_count

\* Mutant: the marker is not looked for.
CheckClosedBlindly(k) ==
  /\ Turn(k) /\ k \notin DOMAIN open_by_key /\ k \in DOMAIN closed_by_key
  /\ Works /\ recreating' = {k}
  /\ UNCHANGED <<findings, phase, finding_by_key, fetched, listed, misread,
                 bounds, todo, issues, create_count>>

\* _handle_closed: look for the marker; without it, or if the look fails, skip.
CheckClosed(k) ==
  /\ Turn(k) /\ k \notin DOMAIN open_by_key /\ k \in DOMAIN closed_by_key
  /\ LET marked == issues[closed_by_key[k]].marked IN
       \/ /\ Works /\ marked /\ recreating' = {k}
          /\ UNCHANGED <<findings, phase, finding_by_key, fetched, listed, misread,
                         bounds, todo>>
       \/ /\ (Works /\ ~ marked) \/ Fails("view")
          /\ Done(k)
  /\ UNCHANGED <<issues, create_count>>

Capped == is_first_run /\ create_count >= FirstRunCap

\* _handle_create, on the first run up to the cap.  After a time-out the issue
\* may exist and still is not counted.
Create(k) ==
  /\ \/ Turn(k) /\ k \notin DOMAIN open_by_key \cup DOMAIN closed_by_key
     \/ k \in recreating
  /\ LET created == Append(issues, [key |-> k, body |-> finding_by_key[k], open |-> TRUE,
                                    marked |-> FALSE, hand |-> "tool"]) IN
       \/ Capped /\ Works /\ UNCHANGED <<issues, create_count>>
       \/ /\ ~ Capped /\ Works
          /\ issues' = created
          /\ create_count' = create_count + 1
       \/ /\ ~ Capped /\ Fails("create")
          /\ issues' \in {issues, created}
          /\ create_count' = create_count
  /\ Done(k)

\* Mutant: issues of findings that are still there are closed too.
FilingEndsClosingAll ==
  /\ phase = "filing" /\ todo = {}
  /\ phase' = "closing"
  /\ todo' = IF CloseResolved THEN DOMAIN open_by_key ELSE {}
  /\ UNCHANGED <<issues, findings, finding_by_key, fetched, listed, recreating,
                 create_count, clean, misread, faults, bounds>>

FilingEnds ==
  /\ phase = "filing" /\ todo = {}
  /\ phase' = "closing"
  /\ todo' = IF CloseResolved THEN DOMAIN open_by_key \ DOMAIN finding_by_key ELSE {}
  /\ UNCHANGED <<issues, findings, finding_by_key, fetched, listed, recreating,
                 create_count, clean, misread, faults, bounds>>

\* Mutant: the issue gets its comment and stays open.
CloseCommentOnly(k) ==
  /\ phase = "closing" /\ k \in todo
  /\ Works
  /\ issues' = [issues EXCEPT ![open_by_key[k]].marked = TRUE]
  /\ Done(k) /\ UNCHANGED create_count

\* _close_resolved_issues, one issue: gh comments, then closes; on an issue that
\* is closed already it does neither.
Close(k) ==
  /\ phase = "closing" /\ k \in todo
  /\ LET n == open_by_key[k]
         commented == [issues EXCEPT ![n].marked = TRUE]
         closed == [commented EXCEPT ![n].open = FALSE, ![n].hand = "tool"] IN
       \/ ~ issues[n].open /\ Works /\ issues' = issues
       \/ issues[n].open /\ Works /\ issues' = closed
       \/ Fails("close")
          /\ issues' \in IF issues[n].open THEN {issues, commented, closed} ELSE {issues}
  /\ Done(k) /\ UNCHANGED create_count

EndSync ==
  /\ phase = "closing" /\ todo = {}
  /\ Leave /\ UNCHANGED <<clean, faults>>

\* The process is killed, or a time-out in list or view ends it.
Die ==
  /\ phase # "idle" /\ Fails("run")
  /\ Leave

SyncStep ==
  \/ StartSync \/ ListIssues \/ FilingEnds \/ EndSync
  \/ \E k \in Keys : Update(k) \/ CheckClosed(k) \/ Create(k) \/ Close(k)

Next ==
  \/ SyncStep
  \/ Die
  \/ CodeChanges
  \/ \E n \in DOMAIN issues : Touch(n)

Spec == Init /\ [][Next]_vars

\* Scans and syncs are scheduled (nightly), and a run goes on until it ends.
FairSpec == Spec /\ WF_vars(SyncStep)

(***************************************************************************)
(* Properties.                                                             *)
(***************************************************************************)
TypeOK ==
  /\ issues \in Seq(Issue) /\ fetched \in Seq(Issue)
  /\ findings \in Reports /\ finding_by_key \in Reports
  /\ phase \in {"idle", "listing", "filing", "closing"}
  /\ Len(fetched) <= Len(issues) /\ listed \subseteq DOMAIN fetched
  /\ todo \subseteq Keys /\ recreating \subseteq todo 
  /\ \A k, l \in recreating : k = l
  /\ create_count \in Nat
  /\ clean \in BOOLEAN /\ misread \in BOOLEAN
  /\ faults \in 0 .. MaxFaults /\ changes \in 0 .. MaxChanges /\ touches \in 0 .. MaxTouches

Of(is, k) == {n \in DOMAIN is : is[n].key = k}
OpenOf(is, k) == {n \in Of(is, k) : is[n].open}

\* A finding has at most one open issue that the tool opened and nobody touched,
\* whatever fails and is run again, as long as every list was complete.
OneOpenPerKey ==
  ~ misread =>
    \A k \in Keys : \A m, n \in OpenOf(issues, k) :
      issues[m].hand = "tool" /\ issues[n].hand = "tool" => m = n

\* A new issue means that there was none for its finding or that the tool itself
\* had closed, or tried to close, one: as long as every list was complete, an
\* issue that only people have closed is never answered by a second one.
NewIssueJustified ==
  [][Len(issues') > Len(issues) /\ ~ misread =>
       LET k == issues'[Len(issues')].key IN
       Of(issues, k) # {} => \E n \in Of(issues, k) : issues[n].marked]_vars

\* An issue shows the finding as it is now, and is the one that runs update.
Filed(is, fs, k) == OpenOf(is, k) # {} /\ is[Min(OpenOf(is, k))].body = fs[k]

\* The finding is skipped as closed by hand.
Declined(is, k) ==
  OpenOf(is, k) = {} /\ Of(is, k) # {} /\ ~ is[Min(Of(is, k))].marked

\* A run that nothing disturbed leaves every finding with an open issue that
\* shows it, unless it is declined or beyond the first run's cap; of a finding that
\* is gone it leaves no open issue but duplicates younger than one it closed.
RunSettles ==
  phase = "closing" /\ todo = {} /\ clean =>
    /\ \A k \in DOMAIN finding_by_key :
         Filed(issues, finding_by_key, k) \/ Declined(issues, k) \/ Capped
    /\ CloseResolved => \A k \in Keys \ DOMAIN finding_by_key :
         \A n \in OpenOf(issues, k) : \E m \in OpenOf(fetched, k) : m < n

\* Idempotence: a run that finds everything in place writes nothing.
RunIsIdempotent ==
  /\ clean /\ phase \in {"filing", "closing"}
  /\ \A k \in DOMAIN finding_by_key :
       Filed(fetched, finding_by_key, k) \/ Declined(fetched, k)
  /\ \A k \in Keys \ DOMAIN finding_by_key : OpenOf(fetched, k) = {}
  => issues = fetched

\* Once the code, the people and the network are quiet, the repository comes to
\* agree with the code and stays so, also after runs that died or went wrong.
Settled(is, fs) ==
  /\ \A k \in DOMAIN fs : Filed(is, fs, k) \/ Declined(is, k)
  /\ CloseResolved => \A k \in Keys \ DOMAIN fs : OpenOf(is, k) = {}

Settles == <>[]Settled(issues, findings)

(***************************************************************************)
(* IssueSync implements IssueTracker: runs that fail, die or work on what  *)
(* was true when they began keep what the owner is promised.               *)
(***************************************************************************)
Tracker == INSTANCE IssueTracker WITH given <- finding_by_key

TrackerSpec == Tracker!Spec

(***************************************************************************)
(* What the documentation and the tests say, and the code does not do.     *)
(***************************************************************************)
\* site/.../github-issues.mdx: an issue is created when a finding has no
\* matching open issue.
NewIssueOnlyIfNoneOpen ==
  [][Len(issues') > Len(issues) => OpenOf(issues, issues'[Len(issues')].key) = {}]_vars

\* tests/test_issues.py, test_manually_closed_issue_not_recreated: a finding whose
\* latest issue was closed by hand gets no new one.
ClosedByHandNotRecreated ==
  [][Len(issues') > Len(issues) =>
       LET before == Of(issues, issues'[Len(issues')].key) IN
       before # {} => LET last == Max(before) IN
                        ~ (issues[last].hand = "user" /\ ~ issues[last].open)]_vars
=============================================================================
