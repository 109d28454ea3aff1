------------------------- MODULE MCTraceCollector -------------------------
(***************************************************************************)
(* Spans are interchangeable, but RunsEnd is checked: no symmetry.         *)
(***************************************************************************)
EXTENDS TraceCollector

CONSTANTS x1, x2
MCSpans == {x1, x2}
=============================================================================
