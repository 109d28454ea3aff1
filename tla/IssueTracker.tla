---------------------------- MODULE IssueTracker ----------------------------
(***************************************************************************)
(* What the owner of a repository is promised about its issues, without    *)
(* lists, phases, caps and failing commands.  The tool opens an issue only *)
(* for a finding it was given, and not beside one of its own or against a  *)
(* decision of people's; it rewrites an issue only to what its finding     *)
(* says, and closes only issues whose finding it was not given, always     *)
(* with a mark; it never reopens or removes one.  Only the first promise   *)
(* needs complete lists of issues.                                         *)
(***************************************************************************)
EXTENDS Naturals, Sequences

CONSTANTS Reports, NoFindings, CloseResolved

VARIABLES
  issues,   \* oldest first
  given,    \* the findings of the run under way, by key
  misread   \* some list of issues was not complete

vars == <<issues, given, misread>>

Init == issues = <<>> /\ given = NoFindings /\ misread = FALSE

\* A run begins or ends, or a list is not complete.
Give == given' \in Reports /\ UNCHANGED <<issues, misread>>
Misread == misread' = TRUE /\ UNCHANGED <<issues, given>>

Of(k) == {n \in DOMAIN issues : issues[n].key = k}

OwnOpen(k) == \E n \in Of(k) : issues[n].open /\ issues[n].hand = "tool"
LeftToPeople(k) == Of(k) # {} /\ \A n \in Of(k) : ~ issues[n].marked

Open(k) ==
  /\ misread \/ (~ OwnOpen(k) /\ ~ LeftToPeople(k))
  /\ issues' = Append(issues, [key |-> k, body |-> given[k], open |-> TRUE,
                               marked |-> FALSE, hand |-> "tool"])
  /\ UNCHANGED <<given, misread>>

Edit(n) ==
  /\ issues[n].key \in DOMAIN given
  /\ issues' = [issues EXCEPT ![n].body = given[issues[n].key]]
  /\ UNCHANGED <<given, misread>>

\* A close that fails half-way leaves its mark.
MarkOrClose(n) ==
  /\ CloseResolved /\ issues[n].open /\ issues[n].key \notin DOMAIN given
  /\ \/ issues' = [issues EXCEPT ![n].marked = TRUE]
     \/ issues' = [issues EXCEPT ![n].marked = TRUE, ![n].open = FALSE, ![n].hand = "tool"]
  /\ UNCHANGED <<given, misread>>

Touch(n) ==
  /\ issues' = [issues EXCEPT ![n].open = ~ @, ![n].hand = "user"]
  /\ UNCHANGED <<given, misread>>

Next ==
  \/ Give \/ Misread
  \/ \E k \in DOMAIN given : Open(k)
  \/ \E n \in DOMAIN issues : Edit(n) \/ MarkOrClose(n) \/ Touch(n)

Spec == Init /\ [][Next]_vars
=============================================================================
