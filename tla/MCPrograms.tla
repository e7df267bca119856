----------------------------- MODULE MCPrograms -----------------------------
(***************************************************************************)
(* Values for model-checking Programs.  A period of 2 samples is less than *)
(* a quad, one of 6 is rounded down to 4: then tst.c wants two blocks.     *)
(***************************************************************************)
EXTENDS Programs

MCRxSizes == {pd * qty : pd \in Pds, qty \in Qtys}
MCTxSizes == {0, 8}

MCReportedFaults == {"init", "count", "create", "refill"}

=============================================================================
