------------------------------ MODULE QregApi ------------------------------
(***************************************************************************)
(* What qregc.c promises its callers, without packets, streams or sockets: *)
(* a call reaches the hardware at most once, touches no register but its   *)
(* own, and when a setter reports success, it reports the value that the   *)
(* register then holds (qnicll.h: "set to actual new ...").  A call may    *)
(* always fail, whether or not the hardware was reached.                   *)
(***************************************************************************)
EXTENDS Integers, Sequences

CONSTANTS
  Regs,
  Vals    (* Vals[r]: what register r can hold                               *)

VARIABLES
  reg,    (* the hardware registers                                          *)
  phase,  (* of the call: none ("idle"), to be executed ("pending") or past  *)
          (* its effect on the hardware ("settled")                          *)
  call,   (* the call in progress, or the last one                           *)
  ret     (* what the last call returned                                     *)

vars == <<reg, phase, call, ret>>

RegVals   == {held \in [Regs -> UNION {Vals[r] : r \in Regs}] : \A r \in Regs : held[r] \in Vals[r]}
Calls     == [op : {"set"}, reg : Regs] \cup [op : {"cmd", "shutdown", "quit"}]
Failure   == [code |-> 2, val |-> <<>>]
Success(num) == [code |-> 0, val |-> num]

Init ==
  /\ reg \in RegVals
  /\ phase = "idle"
  /\ call = [op |-> "quit"]
  /\ ret = Success(<<>>)

\* A call whose request got lost has no effect to wait for.
Invoke ==
  /\ phase = "idle"
  /\ call' \in Calls
  /\ phase' \in {"pending", "settled"}
  /\ UNCHANGED <<reg, ret>>

\* Connecting, disconnecting, a shutdown or a request that could not be written
\* ends without an answer.
InvokeOnly ==
  /\ phase = "idle"
  /\ call' \in Calls
  /\ ret' = Failure \/ (call'.op # "set" /\ ret' = Success(<<>>))
  /\ UNCHANGED <<reg, phase>>

Settle ==
  /\ phase = "pending"
  /\ phase' = "settled"
  /\ \/ call.op = "set" /\ \E v \in Vals[call.reg] : reg' = [reg EXCEPT ![call.reg] = v]
     \/ UNCHANGED reg
  /\ UNCHANGED <<call, ret>>

Return ==
  /\ phase = "settled"
  /\ phase' = "idle"
  /\ \/ ret' = Failure
     \/ call.op = "set" /\ ret' = Success(reg[call.reg])
     \/ call.op # "set" /\ ret' = Success(<<>>)
  /\ UNCHANGED <<reg, call>>

Next == Invoke \/ InvokeOnly \/ Settle \/ Return

Spec == Init /\ [][Next]_vars

=============================================================================
