--------------------------- MODULE MCConsolidator ---------------------------
(* Three messages, two of them of one page and one of none.                *)
EXTENDS Consolidator, TLC

CONSTANTS p1

MCPage == <<p1, NoPage, p1>>
=============================================================================
