------------------------------ MODULE MCEngine ------------------------------
(***************************************************************************)
(* Engine on four collectors and four rules.  Rule 1 needs collectors 1    *)
(* and 2, rule 2 needs collector 3 and a declared tech key, rule 3 is      *)
(* named in config.rules.skip, rule 4 needs a collector that is skipped.   *)
(***************************************************************************)
EXTENDS Engine

MCRequired == <<{1, 2}, {3}, {}, {0}>>
MCNeedsTech == <<{}, {"java"}, {}, {}>>
MCTech == {"java"}
MCSkipRules == {3}
MCIncludeOnly == 1 .. 4
=============================================================================
