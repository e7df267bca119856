------------------------------ MODULE Datapath ------------------------------
(***************************************************************************)
(* The data path of qnicll.c: transmit and receive buffers, enabling and   *)
(* disabling, initialisation and qnicll_done().  The application is one    *)
(* thread; it interleaves with the ADC, which fills kernel buffers on its  *)
(* own.  A call that refills the receive buffer blocks until there is one. *)
(*                                                                         *)
(* A block of samples is abstract: the session (the buffer object made by  *)
(* qnicll_txrx_en(1)) it was captured in, and its number in that session.  *)
(*                                                                         *)
(* libiio is not under src/: the fields adc and dac below are what the     *)
(* code in qnicll.c assumes of it.  In particular a device has one buffer  *)
(* object at a time, and creating a second one returns NULL.               *)
(***************************************************************************)
EXTENDS Integers, Sequences

CONSTANTS
  TxSizes,   (* sizes the application asks of qnicll_set_tx_buf_sz_samps()    *)
  RxSizes,   (* ... and of qnicll_set_rx_buf_sz_samps()                       *)
  BufCounts, (* ... and of qnicll_set_num_kernel_rx_bufs()                    *)
  DfltBufs,  (* kernel buffers when it does not: a "reasonable default number" *)
  Faults,    (* libiio calls that can fail: "create", "refill", "push", ...   *)
  Usage,     (* the rules the application keeps to, see Obeys                 *)
  MaxBlocks, (* bound: blocks the hardware captures in a session              *)
  MaxSes,    (* bound: sessions                                               *)
  MaxInits   (* bound: calls of qnicll_init()                                 *)

ASSUME DatapathAssumption ==
  /\ TxSizes \subseteq Nat
  /\ RxSizes \subseteq Int
  /\ BufCounts \subseteq Nat \ {0}
  /\ DfltBufs \subseteq Nat \ {0}
  /\ Faults \subseteq {"init", "count", "create", "refill", "write", "push"}
  /\ Usage \subseteq {"pairs", "drained", "counted", "break", "tx_first", "tx_once", "fresh"}
  /\ MaxBlocks \in Nat \ {0}
  /\ MaxSes \in Nat
  /\ MaxInits \in Nat

QNICLL_ERR_NONE     == 0
QNICLL_ERR_BUG      == 2
QNICLL_ERR_OUTOFMEM == 3
Garbage             == -1   \* what an int that was never assigned holds when not 0

\* (int)(n/4)*4 in C, which rounds towards zero
Quads(n) == IF n < 0 THEN -(((-n) \div 4) * 4) ELSE (n \div 4) * 4

NoBlock == [ses |-> 0, seq |-> 0]

VARIABLES
  st,      (* the library's static state; of a buffer object, is it not NULL *)
  adc,     (* the receive side of libiio and of the hardware                 *)
  dac,     (* the transmit side: is there data in the FPGA's fifo, and was   *)
           (* any sent on when the NIC last became active or since           *)
  pc,      (* "idle"; blocked in a refill for "get" or "return"; "crashed"   *)
  last,    (* the last call that returned, its argument and its result       *)
  got,     (* what qnicll_get_filled_rx_buf() last gave the application      *)
  app,     (* what the application knows: is it between init and done, has   *)
           (* it a tx buffer, did it enable, must it push before it does     *)
  count    (* initialisations and sessions so far, blocks taken in this one  *)

vars == <<st, adc, dac, pc, last, got, app, count>>

-----------------------------------------------------------------------------
Init ==
  /\ st = [adc_buf |-> FALSE, dac_buf |-> FALSE, adc_filled |-> FALSE,
           adc_occ |-> NoBlock, rx_sz |-> 0, tx_pushed |-> FALSE]
  /\ \E n \in DfltBufs :
       adc = [open |-> FALSE, bufs |-> n, next |-> 1, full |-> <<>>, cur |-> NoBlock]
  /\ dac = [open |-> FALSE, fifo |-> FALSE, sent |-> FALSE]
  /\ pc = "idle"
  /\ last = [op |-> "init", arg |-> 0, code |-> QNICLL_ERR_BUG]
  /\ got = [ptr |-> NoBlock, occ |-> NoBlock]
  /\ app = [up |-> FALSE, sized |-> FALSE, en |-> "off", spent |-> FALSE]
  /\ count = [init |-> 0, ses |-> 0, taken |-> 0]

\* A rule of good usage guards the calls.  "pairs": enable only when disabled,
\* receive only when enabled; "drained": take what was returned before disabling;
\* "counted": take no more buffers than the hardware captures; "break": return none
\* after the last (n.c:145); "tx_first", "tx_once": make one transmit buffer, first;
\* "fresh": before enabling again, push again.
Obeys(rule, cond) == rule \in Usage => cond

\* The results a libiio call can have
Outcomes(call) == {TRUE} \cup (IF call \in Faults THEN {FALSE} ELSE {})

\* iio_device_create_buffer(): NULL for an open device and for an empty buffer
CreateOutcomes(open, sz) == IF open \/ sz <= 0 THEN {FALSE} ELSE Outcomes("create")

\* The application makes one call at a time, between init and done.
MayCall == pc = "idle" /\ app.up

Returns(op, arg, code) ==
  /\ pc' = "idle"
  /\ last' = [op |-> op, arg |-> arg, code |-> code]

\* libiio dereferences a NULL buffer object
Crash ==
  /\ pc' = "crashed"
  /\ UNCHANGED <<st, adc, dac, last, got, app, count>>

-----------------------------------------------------------------------------
(* Initialising and ending. *)

\* A definition called Slip_... is the next one with a plausible slip in it; the
\* properties below are tried on the model with the slip, too.  Here: tx_pushed
\* is not reset.
Slip_init ==
  /\ pc = "idle" /\ ~app.up
  /\ count.init < MaxInits
  /\ count' = [count EXCEPT !.init = @ + 1]
  /\ Returns("init", 0, QNICLL_ERR_NONE)
  /\ st' = [st EXCEPT !.adc_buf = FALSE, !.dac_buf = FALSE]
  /\ app' = [up |-> TRUE, sized |-> FALSE, en |-> "off", spent |-> FALSE]
  /\ UNCHANGED <<adc, dac, got>>

\* It may fail in qregc_connect() or at the libiio context, or later at a device
\* or channel, after it has reset tx_pushed.  Nothing resets adc_filled.
qnicll_init ==
  /\ pc = "idle" /\ ~app.up
  /\ count.init < MaxInits
  /\ count' = [count EXCEPT !.init = @ + 1]
  /\ \/ /\ Returns("init", 0, QNICLL_ERR_NONE)
        /\ st' = [st EXCEPT !.tx_pushed = FALSE, !.adc_buf = FALSE, !.dac_buf = FALSE]
        /\ app' = [up |-> TRUE, sized |-> FALSE, en |-> "off", spent |-> FALSE]
     \/ /\ "init" \in Faults
        /\ Returns("init", 0, QNICLL_ERR_BUG)
        /\ \E late \in BOOLEAN : st' = [st EXCEPT !.tx_pushed = @ /\ ~late]
        /\ UNCHANGED app
  /\ UNCHANGED <<adc, dac, got>>

\* The buffer object is not destroyed
Slip_AdcClosed == [adc EXCEPT !.full = <<>>, !.cur = NoBlock]

AdcClosed == [adc EXCEPT !.open = FALSE, !.full = <<>>, !.cur = NoBlock]
DacClosed == [open |-> FALSE, fifo |-> FALSE, sent |-> FALSE]

\* Only the receive buffer is destroyed
Slip_done ==
  /\ MayCall
  /\ Obeys("drained", ~st.adc_filled)
  /\ adc' = IF st.adc_buf THEN AdcClosed ELSE adc
  /\ app' = [app EXCEPT !.up = FALSE]
  /\ Returns("done", 0, Garbage)
  /\ UNCHANGED <<st, dac, got, count>>

\* The pointers to the destroyed buffer objects stay, until the next init.
qnicll_done ==
  /\ MayCall
  /\ Obeys("drained", ~st.adc_filled)
  /\ adc' = IF st.adc_buf THEN AdcClosed ELSE adc
  /\ dac' = IF st.dac_buf THEN DacClosed ELSE dac
  /\ app' = [app EXCEPT !.up = FALSE]
  /\ Returns("done", 0, Garbage)
  /\ UNCHANGED <<st, got, count>>

-----------------------------------------------------------------------------
(* The transmit buffer. *)

qnicll_set_tx_buf_sz_samps(n) ==
  /\ MayCall
  /\ Obeys("tx_once", ~app.sized)
  /\ \E made \in CreateOutcomes(dac.open, Quads(n)) :
       IF made
         THEN /\ st' = [st EXCEPT !.dac_buf = TRUE]
              /\ dac' = [open |-> TRUE, fifo |-> FALSE, sent |-> FALSE]
              /\ app' = [app EXCEPT !.sized = TRUE]
              /\ Returns("set_tx", n, QNICLL_ERR_NONE)
         ELSE /\ st' = [st EXCEPT !.dac_buf = FALSE]
              /\ Returns("set_tx", n, QNICLL_ERR_BUG)
              /\ UNCHANGED <<dac, app>>
  /\ UNCHANGED <<adc, got, count>>

\* iio_buffer_push() pushes the buffer, fails, or pushes nothing
PushOutcomes == {"whole"} \cup (IF "push" \in Faults THEN {"error", "nothing"} ELSE {})

\* What it has done when it did not return 0: a negative error is kept in a size_t
\* and passes for a size, of which only a warning is printed.  While the NIC is
\* active the fifo's data go on to the DAC.
Pushed(outcome) ==
  IF outcome # "whole" THEN dac
  ELSE [dac EXCEPT !.fifo = ~adc.open, !.sent = @ \/ adc.open]

qnicll_push_tx_buf ==
  /\ MayCall
  /\ \E outcome \in PushOutcomes :
       IF st.dac_buf /\ outcome # "nothing"
         THEN /\ dac' = Pushed(outcome)
              /\ st' = [st EXCEPT !.tx_pushed = TRUE]
              /\ app' = [app EXCEPT !.spent = @ /\ app.en # "off"]
              /\ Returns("push", 0, QNICLL_ERR_NONE)
         ELSE /\ Returns("push", 0, QNICLL_ERR_BUG)
              /\ UNCHANGED <<st, dac, app>>
  /\ UNCHANGED <<adc, got, count>>

-----------------------------------------------------------------------------
(* Enabling and disabling. *)

Enabled(code) ==
  [app EXCEPT !.en = IF code = QNICLL_ERR_NONE THEN "on" ELSE "failed", !.spent = TRUE]

\* A NULL buffer object is taken for one
Slip_MakeAdcBuf(tx, code) ==
  \E made \in CreateOutcomes(adc.open, Quads(st.rx_sz)) :
    /\ st' = [st EXCEPT !.tx_pushed = TRUE, !.adc_buf = made, !.rx_sz = Quads(@)]
    /\ adc' = IF made THEN [adc EXCEPT !.open = TRUE, !.next = 1] ELSE adc
    /\ dac' = IF made THEN [tx EXCEPT !.fifo = FALSE, !.sent = tx.fifo] ELSE tx
    /\ count' = [count EXCEPT !.ses = @ + 1, !.taken = 0]
    /\ app' = Enabled(code)
    /\ Returns("txrx_en", 1, code)

\* The receive buffer is made once there is something to transmit, which makes the
\* NIC active: what is in the fifo (of the transmit side tx) is sent.
MakeAdcBuf(tx, code) ==
  \E made \in CreateOutcomes(adc.open, Quads(st.rx_sz)) :
    IF made
      THEN /\ st' = [st EXCEPT !.tx_pushed = TRUE, !.adc_buf = TRUE, !.rx_sz = Quads(@)]
           /\ adc' = [adc EXCEPT !.open = TRUE, !.next = 1]
           /\ dac' = [tx EXCEPT !.fifo = FALSE, !.sent = tx.fifo]
           /\ count' = [count EXCEPT !.ses = @ + 1, !.taken = 0]
           /\ app' = Enabled(code)
           /\ Returns("txrx_en", 1, code)
      ELSE /\ st' = [st EXCEPT !.tx_pushed = TRUE, !.adc_buf = FALSE]
           /\ dac' = tx
           /\ app' = Enabled(QNICLL_ERR_BUG)
           /\ Returns("txrx_en", 1, QNICLL_ERR_BUG)
           /\ UNCHANGED <<adc, count>>

EnableEnds(code) ==
  /\ app' = Enabled(code)
  /\ Returns("txrx_en", 1, code)
  /\ UNCHANGED <<st, adc, dac, got, count>>

MayEnable ==
  /\ MayCall
  /\ count.ses < MaxSes
  /\ Obeys("pairs", app.en = "off")
  /\ Obeys("tx_first", app.sized)
  /\ Obeys("fresh", ~app.spent)

\* qnicll_txrx_en(1) when data has been pushed once, be it in an earlier session:
\* the int e that it returns at the end was never assigned.
EnablePushed ==
  /\ MayEnable
  /\ st.tx_pushed
  /\ \E e \in {QNICLL_ERR_NONE, Garbage} : MakeAdcBuf(dac, e)
  /\ UNCHANGED got

\* qnicll_txrx_en(1) with its "late push".  When iio_channel_write() wrote nothing
\* it returns e, again never assigned.
EnableLatePush ==
  /\ MayEnable
  /\ ~st.tx_pushed
  /\ \/ ~st.dac_buf /\ Crash
     \/ /\ st.dac_buf
        /\ \E outcome \in PushOutcomes \ {"nothing"} :
             MakeAdcBuf(Pushed(outcome), QNICLL_ERR_NONE)
        /\ UNCHANGED got
     \/ /\ st.dac_buf
        /\ \/ "nothing" \in PushOutcomes /\ EnableEnds(QNICLL_ERR_BUG)
           \/ "write" \in Faults /\ \E e \in {QNICLL_ERR_NONE, Garbage} : EnableEnds(e)

\* qnicll_txrx_en(0)
Disable ==
  /\ MayCall
  /\ Obeys("pairs", app.en # "off")
  /\ Obeys("drained", ~st.adc_filled)
  /\ adc' = IF st.adc_buf THEN AdcClosed ELSE adc
  /\ st' = [st EXCEPT !.adc_buf = FALSE]
  /\ app' = [app EXCEPT !.en = "off"]
  /\ \E e \in {QNICLL_ERR_NONE, Garbage} : Returns("txrx_en", 0, e)
  /\ UNCHANGED <<dac, got, count>>

-----------------------------------------------------------------------------
(* Receiving. *)

qnicll_set_rx_buf_sz_samps(n) ==
  /\ MayCall
  /\ st' = [st EXCEPT !.rx_sz = Quads(n)]
  /\ Returns("set_rx", n, QNICLL_ERR_NONE)
  /\ UNCHANGED <<adc, dac, got, app, count>>

\* The code of libiio is handed on
Slip_set_num(n) ==
  /\ MayCall
  /\ \E set \in IF adc.open THEN {FALSE} ELSE Outcomes("count") :
       /\ adc' = IF set THEN [adc EXCEPT !.bufs = n] ELSE adc
       /\ Returns("set_num", n, IF set THEN QNICLL_ERR_NONE ELSE -12)
  /\ UNCHANGED <<st, dac, got, app, count>>

qnicll_set_num_kernel_rx_bufs(n) ==
  /\ MayCall
  /\ \E set \in IF adc.open THEN {FALSE} ELSE Outcomes("count") :
       /\ adc' = IF set THEN [adc EXCEPT !.bufs = n] ELSE adc
       /\ Returns("set_num", n, IF set THEN QNICLL_ERR_NONE ELSE QNICLL_ERR_OUTOFMEM)
  /\ UNCHANGED <<st, dac, got, app, count>>

MayReceive ==
  /\ MayCall
  /\ Obeys("pairs", app.en = "on")

\* The block is kept
Slip_EnterRefill(caller) ==
  IF ~st.adc_buf THEN Crash
  ELSE pc' = caller /\ UNCHANGED <<st, adc, dac, last, got, app, count>>

\* iio_buffer_refill() gives the block in user space back to the kernel before it
\* waits for a full one.
EnterRefill(caller) ==
  IF ~st.adc_buf THEN Crash
  ELSE /\ pc' = caller
       /\ adc' = [adc EXCEPT !.cur = NoBlock]
       /\ UNCHANGED <<st, dac, last, got, app, count>>

\* adc_filled is not reset
Slip_Deliver(ptr, occ) ==
  /\ got' = [ptr |-> ptr, occ |-> occ]
  /\ st' = [st EXCEPT !.adc_filled = TRUE, !.adc_occ = occ]
  /\ count' = [count EXCEPT !.taken = @ + 1]
  /\ Returns("get", 0, QNICLL_ERR_NONE)

\* The application gets iio_buffer_start() and the size the last refill had.
Deliver(ptr, occ) ==
  /\ got' = [ptr |-> ptr, occ |-> occ]
  /\ st' = [st EXCEPT !.adc_filled = FALSE, !.adc_occ = occ]
  /\ count' = [count EXCEPT !.taken = @ + 1]
  /\ Returns("get", 0, QNICLL_ERR_NONE)

qnicll_get_filled_rx_buf ==
  /\ MayReceive
  /\ Obeys("counted", count.taken < MaxBlocks)
  /\ IF ~st.adc_filled THEN EnterRefill("get")
     ELSE IF ~st.adc_buf THEN Crash
     ELSE Deliver(adc.cur, st.adc_occ) /\ UNCHANGED <<adc, dac, app>>

\* adc_filled is not looked at
Slip_return ==
  /\ MayReceive
  /\ Obeys("break", count.taken < MaxBlocks)
  /\ EnterRefill("return")

qnicll_return_rx_buf ==
  /\ MayReceive
  /\ Obeys("break", count.taken < MaxBlocks)
  /\ IF st.adc_filled
       THEN Returns("return", 0, QNICLL_ERR_NONE) /\ UNCHANGED <<st, adc, dac, got, app, count>>
       ELSE EnterRefill("return")

\* A blocked refill gets the oldest full block.
Refilled ==
  /\ pc \in {"get", "return"}
  /\ adc.full # <<>>
  /\ adc' = [adc EXCEPT !.cur = Head(adc.full), !.full = Tail(@)]
  /\ IF pc = "get"
       THEN Deliver(Head(adc.full), Head(adc.full))
       ELSE /\ st' = [st EXCEPT !.adc_filled = TRUE, !.adc_occ = Head(adc.full)]
            /\ Returns("return", 0, QNICLL_ERR_NONE)
            /\ UNCHANGED <<got, count>>
  /\ UNCHANGED <<dac, app>>

RefillFails ==
  /\ pc \in {"get", "return"}
  /\ "refill" \in Faults
  /\ Returns(pc, 0, QNICLL_ERR_BUG)
  /\ UNCHANGED <<st, adc, dac, got, app, count>>

\* External: the ADC fills a free kernel buffer.
AdcFillsBlock ==
  /\ adc.open
  /\ adc.next <= MaxBlocks
  /\ Len(adc.full) + (IF adc.cur = NoBlock THEN 0 ELSE 1) < adc.bufs
  /\ adc' = [adc EXCEPT !.full = Append(@, [ses |-> count.ses, seq |-> adc.next]),
                        !.next = @ + 1]
  /\ UNCHANGED <<st, dac, pc, last, got, app, count>>

-----------------------------------------------------------------------------
Calls ==
  \/ qnicll_init
  \/ qnicll_done
  \/ \E n \in TxSizes : qnicll_set_tx_buf_sz_samps(n)
  \/ qnicll_push_tx_buf
  \/ EnablePushed
  \/ EnableLatePush
  \/ Disable
  \/ \E n \in RxSizes : qnicll_set_rx_buf_sz_samps(n)
  \/ \E n \in BufCounts : qnicll_set_num_kernel_rx_bufs(n)
  \/ qnicll_get_filled_rx_buf
  \/ qnicll_return_rx_buf

Next == Calls \/ Refilled \/ RefillFails \/ AdcFillsBlock

\* A blocked refill returns once a block is full, and the ADC goes on sampling.
Fairness == WF_vars(Refilled) /\ WF_vars(AdcFillsBlock)

Spec == Init /\ [][Next]_vars /\ Fairness

-----------------------------------------------------------------------------
Blocks  == [ses : 0..MaxSes, seq : 0..MaxBlocks]
StTypes == [adc_buf : BOOLEAN, dac_buf : BOOLEAN, adc_filled : BOOLEAN, adc_occ : Blocks,
            rx_sz : Int, tx_pushed : BOOLEAN]
AdcTypes == [open : BOOLEAN, bufs : Nat \ {0}, next : 1..MaxBlocks+1, full : Seq(Blocks),
             cur : Blocks]
LastTypes ==
  [op : {"init", "done", "set_tx", "push", "txrx_en", "set_rx", "set_num", "get", "return"},
   arg : Int, code : {QNICLL_ERR_NONE, QNICLL_ERR_BUG, QNICLL_ERR_OUTOFMEM, Garbage}]
AppTypes == [up : BOOLEAN, sized : BOOLEAN, en : {"off", "on", "failed"}, spent : BOOLEAN]

(***************************************************************************)
(* The type invariant: among others, the ADC never fills more blocks than  *)
(* the bound, and every call returns one of the known codes or garbage.    *)
(***************************************************************************)
TypeOK ==
  /\ st \in StTypes
  /\ adc \in AdcTypes
  /\ dac \in [open : BOOLEAN, fifo : BOOLEAN, sent : BOOLEAN]
  /\ pc \in {"idle", "get", "return", "crashed"}
  /\ last \in LastTypes
  /\ got \in [ptr : Blocks, occ : Blocks]
  /\ app \in AppTypes
  /\ count \in [init : Nat, ses : 0..MaxSes, taken : Nat]

-----------------------------------------------------------------------------
LastWas(op, arg) == pc = "idle" /\ last.op = op /\ last.arg = arg

Succeeded(op, arg) == LastWas(op, arg) /\ last.code = QNICLL_ERR_NONE

(***************************************************************************)
(* qnicll_get_filled_rx_buf() "returns a ptr to the data section" of "the  *)
(* next rx buffer" (qnicll.h:467): a block of the present session, the one *)
(* after the block delivered before, still owned by the application, and   *)
(* with its own size.                                                      *)
(***************************************************************************)
GotIsNext ==
  Succeeded("get", 0) =>
    /\ got.ptr = [ses |-> count.ses, seq |-> count.taken]
    /\ got.occ = got.ptr
    /\ adc.cur = got.ptr

(***************************************************************************)
(* In whatever order the functions are called, no block reaches the        *)
(* application twice, and none after a later one of the same session.      *)
(***************************************************************************)
NeverOlder ==
  [][(count'.taken > count.taken /\ got'.ptr # NoBlock /\ got'.ptr.ses = got.ptr.ses)
       => got'.ptr.seq > got.ptr.seq]_vars

(***************************************************************************)
(* The library does not lose a libiio buffer object: while it holds no     *)
(* pointer to one, the device has none.  (A lost one keeps its device busy *)
(* for ever: every later iio_device_create_buffer() returns NULL.)         *)
(***************************************************************************)
BuffersOwned == app.up => (adc.open => st.adc_buf) /\ (dac.open => st.dac_buf)

(***************************************************************************)
(* qnicll_txrx_en(): "When en=0, causes the cessation" (qnicll.h:461) of   *)
(* the reception, whatever else was called and whatever failed, provided   *)
(* that the application enables and disables in turn.                      *)
(***************************************************************************)
DisabledIsOff == LastWas("txrx_en", 0) => ~adc.open

(***************************************************************************)
(* When qnicll_txrx_en(1) returns 0, data are being received.              *)
(***************************************************************************)
EnabledIsReceiving == Succeeded("txrx_en", 1) => adc.open

(***************************************************************************)
(* When qnicll_txrx_en(1) returns 0, data have been sent to the DAC: it    *)
(* "Causes the transmission of probes or tx data simltaneously with the    *)
(* reception" (qnicll.h:456), of what was pushed since the last time or of *)
(* what its own late push adds.                                            *)
(***************************************************************************)
EnabledHasTxData == Succeeded("txrx_en", 1) => dac.sent

(***************************************************************************)
(* libiio is never called with a NULL buffer object.  qnicll.c looks for   *)
(* that itself at lines 271 and 287 ("no current buffer").                 *)
(***************************************************************************)
NoNullBuffer == pc # "crashed"

(***************************************************************************)
(* What the pointers of qnicll.c say of the buffer objects, and what the   *)
(* application may conclude from what it did: for every application that   *)
(* makes one transmit buffer, then enables and disables in pairs.  What    *)
(* the properties above say of buffer objects, and of what is transmitted, *)
(* follows from it.                                                        *)
(***************************************************************************)
BuffersKnown ==
  /\ app.up => /\ st.adc_buf <=> adc.open
               /\ st.dac_buf <=> dac.open
               /\ app.sized <=> dac.open
               /\ app.en = "off" => ~adc.open
               /\ app.en = "on" => adc.open
               /\ st.tx_pushed => dac.open
               /\ st.tx_pushed /\ ~app.spent => dac.fifo
               /\ app.en # "off" => app.spent
  /\ ~app.up => ~adc.open /\ ~dac.open
  /\ pc \in {"get", "return"} => app.up /\ adc.open
  /\ pc # "crashed"

(***************************************************************************)
(* Every block that was captured in this session is in its place: taken,   *)
(* or in user space for the next qnicll_get_filled_rx_buf() because        *)
(* qnicll_return_rx_buf() has fetched it, or in the queue, in order.       *)
(* Nothing of a session is left after it.                                  *)
(***************************************************************************)
BlocksInPlace ==
  /\ adc.open \/ (adc.full = <<>> /\ ~st.adc_filled)
  /\ pc \in {"get", "return"} => ~st.adc_filled
  /\ adc.open =>
       adc.next - 1 - Len(adc.full) = count.taken + (IF st.adc_filled THEN 1 ELSE 0)
  /\ \A i \in 1..Len(adc.full) :
       adc.full[i] = [ses |-> count.ses, seq |-> adc.next - 1 - Len(adc.full) + i]
  /\ st.adc_filled => /\ adc.cur = [ses |-> count.ses, seq |-> count.taken + 1]
                      /\ st.adc_occ = adc.cur

(***************************************************************************)
(* For an application that keeps to the rules, the data path is RxStream.  *)
(* "As soon as one is full it immediately trys to fill the next so no      *)
(* samples are lost" (qnicll.h:458).                                       *)
(***************************************************************************)
Stream == INSTANCE RxStream WITH on <- adc.open, pool <- adc.bufs, ses <- count.ses,
                                 captured <- adc.next - 1, taken <- count.taken,
                                 given <- got.ptr
ImplementsStream == Stream!Spec

(***************************************************************************)
(* A call that takes or returns a receive buffer comes to its end.         *)
(***************************************************************************)
ReceiveReturns == pc \in {"get", "return"} ~> pc \notin {"get", "return"}

=============================================================================
