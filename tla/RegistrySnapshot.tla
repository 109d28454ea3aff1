------------------------- MODULE RegistrySnapshot -------------------------
(***************************************************************************)
(* What the lookups of a scan promise: all its packages are read from the  *)
(* registry in one step, though some may come back as None, and the scan   *)
(* then works on this reading until it ends.                               *)
(***************************************************************************)
CONSTANTS Scans, Packages, Published, Unknown, None

VARIABLE view   \* of a scan: Unknown, or the answers for its packages

Init == view = [s \in Scans |-> Unknown]

Reading(answers) ==
  /\ DOMAIN answers \subseteq Packages
  /\ \A p \in DOMAIN answers : answers[p] \in {Published[p], None}

Read(s) ==
  /\ view[s] = Unknown
  /\ \E P \in SUBSET Packages :
       \E answers \in [P -> UNION {{Published[p], None} : p \in Packages}] :
         Reading(answers) /\ view' = [view EXCEPT ![s] = answers]

Forget(s) ==
  /\ view[s] # Unknown
  /\ view' = [view EXCEPT ![s] = Unknown]

Next == \E s \in Scans : Read(s) \/ Forget(s)

Spec == Init /\ [][Next]_view
=============================================================================
