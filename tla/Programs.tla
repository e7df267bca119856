------------------------------ MODULE Programs ------------------------------
(***************************************************************************)
(* The programs tst.c, n.c and c.c, as callers of the data path: which     *)
(* call comes after which, what they do when one fails, and how tst.c      *)
(* writes the blocks it receives to out/d.raw.  Datapath is taken without  *)
(* its rules of usage: whether a program keeps to them is the question.    *)
(*                                                                         *)
(* The registers are those of qregd: the period and the number of the      *)
(* probes, which the hardware captures; every other setting only succeeds  *)
(* or fails (module Settings has them).                                    *)
(***************************************************************************)
EXTENDS Datapath

CONSTANTS
  Progs,  (* the programs that may be run: "tst", "n", "c"                   *)
  Pds,    (* probe periods that qregd grants, in samples                     *)
  Qtys,   (* numbers of probes that are asked for and granted                *)
  Pieces  (* bound: pieces of a block, of which one write() takes some       *)

ASSUME ProgramsAssumption ==
  /\ Progs \subseteq {"tst", "n", "c"}
  /\ Pds \subseteq Nat \ {0}
  /\ Qtys \subseteq Nat \ {0}
  /\ Pieces \in Nat \ {0}
  /\ {pd * qty : pd \in Pds, qty \in Qtys} \subseteq RxSizes
  /\ 1 \in BufCounts

VARIABLES
  prog,  (* the program, fixed                                               *)
  at,    (* the call it makes next or is blocked in; "exit0", "exit1"        *)
  loc,   (* its local variables: period, quantity, blocks to take and taken  *)
  hw,    (* the period and the quantity in the registers                     *)
  out    (* the write() loop: what is left of a block; and the file          *)

dpvars   == <<st, adc, dac, pc, last, got, app, count>>
progvars == <<st, adc, dac, pc, last, got, app, count, prog, at, loc, hw, out>>

ProgInit ==
  /\ Init
  /\ prog \in Progs
  /\ at = "init"
  /\ loc = [pd |-> 0, qty |-> 0, bufs |-> 0, b_i |-> 0]
  /\ hw \in [pd : Pds, qty : Qtys]
  /\ out = [left |-> 0, file |-> <<>>]

\* The code is not looked at
Slip_C(label) == at' = IF pc' # "idle" THEN at ELSE label

\* Macro C around the call that was just made: exit(1) when its code is not 0; while
\* the call is blocked, or crashed, the program stays where it is.
C(label) ==
  at' = IF pc' # "idle" THEN at
        ELSE IF last'.code # QNICLL_ERR_NONE THEN "exit1"
        ELSE label

\* One time too often
Slip_LoopFrom(b_i) == IF b_i <= loc.bufs THEN "get" ELSE "disable"

\* One time too few
Slip_LastLoop(b_i) == IF b_i + 1 < loc.bufs THEN "get" ELSE "disable"

LoopFrom(b_i) == IF b_i < loc.bufs THEN "get" ELSE "disable"

-----------------------------------------------------------------------------
(* Up to the capture. *)

\* c.c asks for a shutdown, which ends it without qnicll_done(), or has a command.
Connect ==
  /\ at = "init"
  /\ qnicll_init
  /\ C(IF prog = "c" THEN "cmd" ELSE "set")
  /\ UNCHANGED <<prog, loc, hw, out>>

Command ==
  /\ at = "cmd"
  /\ at' \in {"exit0", "done", "exit1"}
  /\ UNCHANGED <<dpvars, prog, loc, hw, out>>

\* The settings that are checked by C and concern no other step
Set ==
  /\ at = "set"
  /\ at' \in {IF prog = "tst" THEN "tx" ELSE "pd", "exit1"}
  /\ UNCHANGED <<dpvars, prog, loc, hw, out>>

\* A custom pattern is filled in (module TxFill) and pushed.
MakeTxBuf ==
  /\ at = "tx"
  /\ \E n \in TxSizes : qnicll_set_tx_buf_sz_samps(n)
  /\ \E use_lfsr \in BOOLEAN : C(IF use_lfsr THEN "pd" ELSE "push")
  /\ UNCHANGED <<prog, loc, hw, out>>

PushTxBuf ==
  /\ at = "push"
  /\ qnicll_push_tx_buf
  /\ C("pd")
  /\ UNCHANGED <<prog, loc, hw, out>>

SetPd ==
  /\ at = "pd"
  /\ \/ \E pd \in Pds : /\ hw' = [hw EXCEPT !.pd = pd]
                        /\ loc' = [loc EXCEPT !.pd = pd]
                        /\ at' = "qty"
     \/ at' = "exit1" /\ UNCHANGED <<loc, hw>>
  /\ UNCHANGED <<dpvars, prog, out>>

\* The result of qnicll_set_probe_qty() is not looked at, only the quantity, which a
\* failed call leaves as it was requested; the register may or may not have been set.
SetQty ==
  /\ at = "qty"
  /\ \E asked \in Qtys, granted \in Qtys, failed \in BOOLEAN :
       /\ loc' = [loc EXCEPT !.qty = IF failed THEN asked ELSE granted]
       /\ \/ hw' = [hw EXCEPT !.qty = granted]
          \/ failed /\ UNCHANGED hw
       /\ at' = IF loc'.qty # asked THEN "exit1" ELSE IF prog = "n" THEN "num" ELSE "rx"
  /\ UNCHANGED <<dpvars, prog, out>>

SetNum ==
  /\ at = "num"
  /\ qnicll_set_num_kernel_rx_bufs(1)
  /\ C("rx")
  /\ UNCHANGED <<prog, loc, hw, out>>

CapLen == loc.pd * loc.qty

\* (int)ceil((double)cap_len_samps / rx_samps)
CeilDiv(n, d) == IF d = 0 THEN 0 ELSE (n + d - 1) \div d

\* n.c wants everything in one buffer.
SetRxBufSize ==
  /\ at = "rx"
  /\ qnicll_set_rx_buf_sz_samps(CapLen)
  /\ loc' = [loc EXCEPT !.bufs = CeilDiv(CapLen, st'.rx_sz)]
  /\ C(IF prog = "n" /\ st'.rx_sz # CapLen THEN "exit1"
       ELSE IF prog = "n" THEN "enable" ELSE "open")
  /\ UNCHANGED <<prog, hw, out>>

OpenFile ==
  /\ at = "open"
  /\ at' \in {"enable", "exit1"}
  /\ UNCHANGED <<dpvars, prog, loc, hw, out>>

-----------------------------------------------------------------------------
(* The capture. *)

EnableTxRx ==
  /\ at = "enable"
  /\ EnablePushed \/ EnableLatePush
  /\ C(LoopFrom(0))
  /\ UNCHANGED <<prog, loc, hw, out>>

Got ==
  /\ C(IF prog = "tst" THEN "write"
       ELSE IF loc.b_i = loc.bufs - 1 THEN "disable" ELSE "return")
  /\ out' = [out EXCEPT !.left = Pieces]
  /\ UNCHANGED <<prog, loc, hw>>

\* What write() finds where rx_buf points: the block, while it is in user space
WhatIsThere == IF adc.cur = got.ptr THEN got.ptr ELSE NoBlock

\* rx_buf is not advanced past what was written
Slip_From == 1

\* The first piece not yet written of the block
From == Pieces - out.left + 1

\* A part that was written ends the loop
Slip_Wrote(sz) == "return"

Wrote(sz) == IF sz >= out.left THEN "return" ELSE "write"

\* while(left_sz > 0) { sz = write(...); ... }
WriteFile ==
  /\ at = "write"
  /\ \/ \E sz \in 1..out.left :
          /\ out' = [left |-> out.left - sz,
                     file |-> out.file \o [i \in 1..sz |->
                                <<WhatIsThere, From + i - 1>>]]
          /\ at' = Wrote(sz)
     \/ at' = "exit1" /\ UNCHANGED out
  /\ UNCHANGED <<dpvars, prog, loc, hw>>

Returned ==
  /\ loc' = [loc EXCEPT !.b_i = IF pc' = "idle" THEN @ + 1 ELSE @]
  /\ C(LoopFrom(loc'.b_i))
  /\ UNCHANGED <<prog, hw, out>>

GetBlock    == at = "get" /\ qnicll_get_filled_rx_buf /\ Got
ReturnBlock == at = "return" /\ qnicll_return_rx_buf /\ Returned

\* The refill that the program is blocked in ends.
Resume  == Refilled /\ IF at = "get" THEN Got ELSE Returned
GivesUp == RefillFails /\ IF at = "get" THEN Got ELSE Returned

DisableTxRx ==
  /\ at = "disable"
  /\ Disable
  /\ C("done")
  /\ UNCHANGED <<prog, loc, hw, out>>

\* Its result is not looked at.
Finish ==
  /\ at = "done"
  /\ qnicll_done
  /\ at' = "exit0"
  /\ UNCHANGED <<prog, loc, hw, out>>

-----------------------------------------------------------------------------
\* The ADC samples as many probes as the registers say, and no more.
Captured == (hw.pd * hw.qty) \div st.rx_sz

Capture ==
  /\ adc.open => adc.next <= Captured
  /\ AdcFillsBlock
  /\ UNCHANGED <<prog, at, loc, hw, out>>

ProgStep ==
  \/ Connect \/ Command \/ Set \/ MakeTxBuf \/ PushTxBuf \/ SetPd \/ SetQty \/ SetNum
  \/ SetRxBufSize \/ OpenFile \/ EnableTxRx \/ GetBlock \/ WriteFile \/ ReturnBlock
  \/ Resume \/ DisableTxRx \/ Finish

ProgNext == ProgStep \/ GivesUp \/ Capture

\* A program that is not blocked goes on, a blocked refill ends when it can, and the
\* ADC goes on sampling.
ProgSpec ==
  /\ ProgInit /\ [][ProgNext]_progvars
  /\ WF_progvars(ProgStep) /\ WF_progvars(Capture)

-----------------------------------------------------------------------------
ProgTypeOK ==
  /\ prog \in Progs
  /\ at \in {"init", "cmd", "set", "tx", "push", "pd", "qty", "num", "rx", "open", "enable",
            "get", "write", "return", "disable", "done", "exit0", "exit1"}
  /\ loc.pd \in Pds \cup {0}
  /\ loc.qty \in Qtys \cup {0}
  /\ loc.bufs \in Nat
  /\ loc.b_i \in 0..loc.bufs
  /\ hw \in [pd : Pds, qty : Qtys]
  /\ out.left \in 0..Pieces

(***************************************************************************)
(* Whatever part of a block each write() takes, and while the ADC goes on, *)
(* out/d.raw is what was captured: the blocks of the session from the      *)
(* first, in order, every piece once.                                      *)
(***************************************************************************)
FileIsCapture ==
  \A i \in DOMAIN out.file :
    out.file[i] = <<[ses |-> 1, seq |-> (i - 1) \div Pieces + 1], ((i - 1) % Pieces) + 1>>

(***************************************************************************)
(* A program that exits with 0 has closed both buffers, and tst.c has      *)
(* written as many blocks as it set out to.                                *)
(***************************************************************************)
ExitIsComplete ==
  at = "exit0" =>
    /\ ~adc.open /\ ~dac.open
    /\ prog = "tst" => Len(out.file) = Pieces * loc.bufs

(***************************************************************************)
(* tst.c and c.c make the calls in the order the library needs, whichever  *)
(* of them fail: one transmit buffer before enabling, enabling and         *)
(* disabling in pairs and never on an old transmit buffer, receiving in    *)
(* between.  (n.c makes none; and tst.c keeps none of the rules about the  *)
(* last block.)                                                            *)
(***************************************************************************)
Rules == INSTANCE Datapath WITH Usage <- {"pairs", "tx_first", "tx_once", "fresh"}
KeepsRules == [][prog # "n" => Rules!Next]_dpvars

(***************************************************************************)
(* What tst.c sets out to capture reaches the file, if the ADC samples as  *)
(* many blocks: or tst.c says that it failed.                              *)
(***************************************************************************)
CaptureIsWritten ==
  (at = "get" /\ prog = "tst" /\ Captured >= loc.bufs)
    ~> (Len(out.file) = Pieces * loc.bufs \/ at = "exit1")

(***************************************************************************)
(* Returning a block may wait for the next one (qnicll.c:231), and tst.c   *)
(* returns the last block, too (tst.c:315): it exits with 0 only when the  *)
(* ADC samples one block more than tst.c writes, and otherwise waits in    *)
(* its last return, with the file complete.                                *)
(***************************************************************************)
LastReturnWaits ==
  at = "exit0" /\ prog = "tst" /\ loc.bufs > 0 => Captured > loc.bufs

=============================================================================
