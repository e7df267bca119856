------------------------------ MODULE MCQnaUsb ------------------------------
(***************************************************************************)
(* Values for model-checking QnaUsb: replies that are a bare prompt, a     *)
(* line that ends with one, and a line and a prompt.                       *)
(***************************************************************************)
EXTENDS QnaUsb

MCReplies == {<<1>>, <<3>>, <<2, 3>>}
MCFaults  == {"open", "attrib", "write", "read", "hangup"}

=============================================================================
