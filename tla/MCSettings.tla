----------------------------- MODULE MCSettings -----------------------------
(***************************************************************************)
(* Values for model-checking Settings: one function of each kind.          *)
(***************************************************************************)
EXTENDS Settings

MCWhys == {"missing int rsp", "no errcode rsp"}

=============================================================================
