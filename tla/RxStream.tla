------------------------------ MODULE RxStream ------------------------------
(***************************************************************************)
(* What the receive side of qnicll.h promises, without buffer objects and  *)
(* without calls that block: the ADC captures blocks while receiving is    *)
(* on, at most as many ahead of the application as there are kernel        *)
(* buffers, and the application takes every one of them once, in order.    *)
(***************************************************************************)
EXTENDS Integers

VARIABLES
  on,        (* receiving                                                    *)
  pool,      (* number of kernel buffers                                     *)
  ses,       (* sessions begun                                               *)
  captured,  (* blocks captured in this session                              *)
  taken,     (* blocks taken in this session                                 *)
  given      (* the block taken last                                         *)

vars == <<on, pool, ses, captured, taken, given>>

Init ==
  /\ on = FALSE
  /\ pool \in Nat \ {0}
  /\ ses = 0 /\ captured = 0 /\ taken = 0
  /\ given = [ses |-> 0, seq |-> 0]

Resize ==
  /\ ~on
  /\ pool' \in Nat \ {0}
  /\ UNCHANGED <<on, ses, captured, taken, given>>

Start ==
  /\ ~on
  /\ on' = TRUE
  /\ ses' = ses + 1 /\ captured' = 0 /\ taken' = 0
  /\ UNCHANGED <<pool, given>>

Capture ==
  /\ on
  /\ captured - taken < pool
  /\ captured' = captured + 1
  /\ UNCHANGED <<on, pool, ses, taken, given>>

Take ==
  /\ on
  /\ taken < captured
  /\ taken' = taken + 1
  /\ given' = [ses |-> ses, seq |-> taken']
  /\ UNCHANGED <<on, pool, ses, captured>>

Stop ==
  /\ on
  /\ on' = FALSE
  /\ UNCHANGED <<pool, ses, captured, taken, given>>

Next == Resize \/ Start \/ Capture \/ Take \/ Stop

Spec == Init /\ [][Next]_vars

=============================================================================
