--------------------------- MODULE MCRunPipeline ---------------------------
(***************************************************************************)
(* One rule and file with two flaws of one text, one without a hash and    *)
(* one without a line; a nightly run, a pull request run against it and a  *)
(* run against the output of an earlier one.                               *)
(***************************************************************************)
EXTENDS RunPipeline

CONSTANTS d1, d2, d3, d4, g, dc, h, nightly, pr

MCGroupOf == [d \in Defects |-> g]
MCHashOf == [d \in Defects |-> IF d \in {d1, d4} THEN h ELSE NoHash]

Nightly == [baseline |-> NoFile, out |-> nightly, keep |-> Groups, design |-> TRUE]
PullRequest == [baseline |-> nightly, out |-> pr, keep |-> Groups, design |-> FALSE]
Chained == [baseline |-> pr, out |-> pr, keep |-> Groups, design |-> TRUE]
Narrow == [baseline |-> NoFile, out |-> nightly, keep |-> {}, design |-> FALSE]
MCOptions == {Nightly, PullRequest, Chained, Narrow}
=============================================================================
