---------------------------- MODULE MCIssueSync ----------------------------
(***************************************************************************)
(* Two findings with two bodies each.                                      *)
(***************************************************************************)
EXTENDS IssueSync

AllCommands == {"list", "view", "create", "edit", "close", "run"}
=============================================================================
