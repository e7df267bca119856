------------------------------ MODULE MCTxFill ------------------------------
(* Values for model-checking TxFill: buffers shorter than, as long as and  *)
(* longer than the pattern.                                                *)
EXTENDS TxFill

MCGranted == {0, 4, 8, 12, 16}

=============================================================================
