--------------------------- MODULE DatapathProofs ---------------------------
(***************************************************************************)
(* Theorems about Datapath.                                                *)
(***************************************************************************)
EXTENDS Datapath, TLAPS

-----------------------------------------------------------------------------
(* Typing, one lemma for each of the larger records. *)

LEMMA Numbers ==
  /\ TxSizes \subseteq Nat
  /\ RxSizes \subseteq Int
  /\ BufCounts \subseteq Nat \ {0}
  /\ DfltBufs \subseteq Nat \ {0}
  /\ MaxBlocks \in Nat \ {0}
  /\ MaxSes \in Nat
BY DatapathAssumption

LEMMA QuadsInt == ASSUME NEW n \in Int PROVE Quads(n) \in Int
BY DEF Quads

LEMMA NoBlockTyped == NoBlock \in Blocks
BY Numbers DEF NoBlock, Blocks

LEMMA EmptyTyped == <<>> \in Seq(Blocks)
OBVIOUS

LEMMA InitTyped == Init => TypeOK
<1> SUFFICES ASSUME Init PROVE TypeOK
  OBVIOUS
<1>1. st \in StTypes
  BY NoBlockTyped DEF Init, StTypes
<1>2. adc \in AdcTypes
  BY NoBlockTyped, EmptyTyped, Numbers DEF Init, AdcTypes
<1>3. last \in LastTypes
  BY DEF Init, LastTypes, QNICLL_ERR_NONE, QNICLL_ERR_BUG
<1>4. got \in [ptr : Blocks, occ : Blocks]
  BY NoBlockTyped DEF Init
<1>5. app \in AppTypes
  BY DEF Init, AppTypes
<1>6. count \in [init : Nat, ses : 0..MaxSes, taken : Nat]
  BY Numbers DEF Init
<1> QED
  BY <1>1, <1>2, <1>3, <1>4, <1>5, <1>6 DEF Init, TypeOK

\* What a call that returns leaves in pc and last
LEMMA ReturnTyped ==
  ASSUME NEW op \in {"init", "done", "set_tx", "push", "txrx_en", "set_rx", "set_num", "get",
                     "return"},
         NEW arg \in Int,
         NEW code \in {QNICLL_ERR_NONE, QNICLL_ERR_BUG, QNICLL_ERR_OUTOFMEM, Garbage},
         Returns(op, arg, code)
  PROVE  pc' \in {"idle", "get", "return", "crashed"} /\ last' \in LastTypes
BY DEF Returns, LastTypes

LEMMA AdcClosedTyped == ASSUME adc \in AdcTypes PROVE AdcClosed \in AdcTypes
BY NoBlockTyped, EmptyTyped DEF AdcTypes, AdcClosed

LEMMA PushedTyped ==
  ASSUME TypeOK, NEW outcome PROVE Pushed(outcome) \in [open : BOOLEAN, fifo : BOOLEAN, sent : BOOLEAN]
BY DEF Pushed, TypeOK, AdcTypes

LEMMA MakeTyped ==
  ASSUME TypeOK, NEW tx \in [open : BOOLEAN, fifo : BOOLEAN, sent : BOOLEAN],
         NEW code \in {QNICLL_ERR_NONE, Garbage}, MakeAdcBuf(tx, code), count.ses < MaxSes
  PROVE  /\ st' \in StTypes
         /\ adc' \in AdcTypes
         /\ dac' \in [open : BOOLEAN, fifo : BOOLEAN, sent : BOOLEAN]
         /\ count' \in [init : Nat, ses : 0..MaxSes, taken : Nat]
         /\ app' \in AppTypes
         /\ pc' \in {"idle", "get", "return", "crashed"} /\ last' \in LastTypes
<1>1. st' \in StTypes
  BY QuadsInt DEF MakeAdcBuf, TypeOK, StTypes
<1>2. adc' \in AdcTypes
  <2>1. adc' = [adc EXCEPT !.open = TRUE, !.next = 1] \/ adc' = adc
    BY DEF MakeAdcBuf
  <2>2. adc \in AdcTypes
    BY DEF TypeOK
  <2>3. [adc EXCEPT !.open = TRUE, !.next = 1] \in AdcTypes
    <3>1. 1 \in 1..MaxBlocks+1
      BY Numbers
    <3> QED
      BY <2>2, <3>1 DEF AdcTypes
  <2> QED
    BY <2>1, <2>2, <2>3
<1>3. count' \in [init : Nat, ses : 0..MaxSes, taken : Nat]
  <2>1. count' = [count EXCEPT !.ses = @ + 1, !.taken = 0] \/ count' = count
    BY DEF MakeAdcBuf
  <2>2. count \in [init : Nat, ses : 0..MaxSes, taken : Nat]
    BY DEF TypeOK
  <2>3. [count EXCEPT !.ses = @ + 1, !.taken = 0] \in [init : Nat, ses : 0..MaxSes, taken : Nat]
    <3>1. count.ses + 1 \in 0..MaxSes
      BY <2>2, Numbers
    <3> QED
      BY <2>2, <3>1
  <2> QED
    BY <2>1, <2>2, <2>3
<1>4. app' \in AppTypes
  <2>1. \E c : app' = Enabled(c)
    BY DEF MakeAdcBuf
  <2>2. \A c : Enabled(c) \in AppTypes
    BY DEF Enabled, TypeOK, AppTypes
  <2> QED
    BY <2>1, <2>2
<1>5. \E c \in {QNICLL_ERR_BUG, code} : Returns("txrx_en", 1, c)
  BY DEF MakeAdcBuf
<1>6. dac' \in [open : BOOLEAN, fifo : BOOLEAN, sent : BOOLEAN]
  BY DEF MakeAdcBuf
<1> QED
  BY <1>1, <1>2, <1>3, <1>4, <1>5, <1>6, ReturnTyped

LEMMA CrashTyped == ASSUME TypeOK, Crash PROVE TypeOK'
BY DEF TypeOK, Crash

LEMMA EnterTyped ==
  ASSUME TypeOK, NEW caller \in {"get", "return"}, EnterRefill(caller) PROVE TypeOK'
<1>1. CASE Crash
  BY <1>1, CrashTyped
<1>2. CASE ~Crash
  <2>1. adc' \in AdcTypes
    BY <1>2, NoBlockTyped DEF EnterRefill, TypeOK, AdcTypes
  <2> QED
    BY <1>2, <2>1 DEF EnterRefill, TypeOK
<1> QED
  BY <1>1, <1>2

LEMMA DeliverTyped ==
  ASSUME TypeOK, NEW ptr \in Blocks, NEW occ \in Blocks, Deliver(ptr, occ)
  PROVE  /\ st' \in StTypes
         /\ got' \in [ptr : Blocks, occ : Blocks]
         /\ count' \in [init : Nat, ses : 0..MaxSes, taken : Nat]
         /\ pc' \in {"idle", "get", "return", "crashed"} /\ last' \in LastTypes
<1>1. st' \in StTypes
  BY DEF Deliver, TypeOK, StTypes
<1>2. got' \in [ptr : Blocks, occ : Blocks]
  BY DEF Deliver
<1>3. count' \in [init : Nat, ses : 0..MaxSes, taken : Nat]
  BY DEF Deliver, TypeOK
<1> QED
  BY <1>1, <1>2, <1>3, ReturnTyped DEF Deliver

LEMMA CallsTyped == TypeOK /\ Calls => TypeOK'
<1> SUFFICES ASSUME TypeOK, Calls PROVE TypeOK'
  OBVIOUS
<1>1. CASE qnicll_init
  <2>1. st' \in StTypes
    BY <1>1 DEF qnicll_init, TypeOK, StTypes
  <2>2. app' \in AppTypes
    <3>1. app' = [up |-> TRUE, sized |-> FALSE, en |-> "off", spent |-> FALSE] \/ app' = app
      BY <1>1 DEF qnicll_init
    <3>2. [up |-> TRUE, sized |-> FALSE, en |-> "off", spent |-> FALSE] \in AppTypes
      BY DEF AppTypes
    <3> QED
      BY <3>1, <3>2 DEF TypeOK
  <2>3. count' \in [init : Nat, ses : 0..MaxSes, taken : Nat]
    BY <1>1 DEF qnicll_init, TypeOK
  <2>4. pc' \in {"idle", "get", "return", "crashed"} /\ last' \in LastTypes
    BY <1>1, ReturnTyped DEF qnicll_init
  <2> QED
    BY <1>1, <2>1, <2>2, <2>3, <2>4 DEF qnicll_init, TypeOK
<1>2. CASE qnicll_done
  <2>1. adc' \in AdcTypes
    BY <1>2, AdcClosedTyped DEF qnicll_done, TypeOK
  <2>2. dac' \in [open : BOOLEAN, fifo : BOOLEAN, sent : BOOLEAN]
    BY <1>2 DEF qnicll_done, DacClosed, TypeOK
  <2>3. app' \in AppTypes
    BY <1>2 DEF qnicll_done, TypeOK, AppTypes
  <2>4. pc' \in {"idle", "get", "return", "crashed"} /\ last' \in LastTypes
    BY <1>2, ReturnTyped DEF qnicll_done
  <2> QED
    BY <1>2, <2>1, <2>2, <2>3, <2>4 DEF qnicll_done, TypeOK
<1>3. ASSUME NEW n \in TxSizes, qnicll_set_tx_buf_sz_samps(n) PROVE TypeOK'
  <2>1. st' \in StTypes
    BY <1>3 DEF qnicll_set_tx_buf_sz_samps, TypeOK, StTypes
  <2>2. dac' \in [open : BOOLEAN, fifo : BOOLEAN, sent : BOOLEAN]
    <3>1. dac' = [open |-> TRUE, fifo |-> FALSE, sent |-> FALSE] \/ dac' = dac
      BY <1>3 DEF qnicll_set_tx_buf_sz_samps
    <3>2. [open |-> TRUE, fifo |-> FALSE, sent |-> FALSE] \in [open : BOOLEAN, fifo : BOOLEAN, sent : BOOLEAN]
      OBVIOUS
    <3> QED
      BY <3>1, <3>2 DEF TypeOK
  <2>3. app' \in AppTypes
    BY <1>3 DEF qnicll_set_tx_buf_sz_samps, TypeOK, AppTypes
  <2>4. pc' \in {"idle", "get", "return", "crashed"} /\ last' \in LastTypes
    BY <1>3, ReturnTyped, Numbers DEF qnicll_set_tx_buf_sz_samps
  <2> QED
    BY <1>3, <2>1, <2>2, <2>3, <2>4 DEF qnicll_set_tx_buf_sz_samps, TypeOK
<1>4. CASE qnicll_push_tx_buf
  <2>1. st' \in StTypes
    BY <1>4 DEF qnicll_push_tx_buf, TypeOK, StTypes
  <2>2. dac' \in [open : BOOLEAN, fifo : BOOLEAN, sent : BOOLEAN]
    <3>1. dac \in [open : BOOLEAN, fifo : BOOLEAN, sent : BOOLEAN]
      BY DEF TypeOK
    <3> QED
      BY <1>4, <3>1, PushedTyped DEF qnicll_push_tx_buf
  <2>3. pc' \in {"idle", "get", "return", "crashed"} /\ last' \in LastTypes
    BY <1>4, ReturnTyped DEF qnicll_push_tx_buf
  <2>4. app' \in AppTypes
    BY <1>4 DEF qnicll_push_tx_buf, TypeOK, AppTypes
  <2> QED
    BY <1>4, <2>1, <2>2, <2>3, <2>4 DEF qnicll_push_tx_buf, TypeOK
<1>5. CASE EnablePushed
  <2>1. dac \in [open : BOOLEAN, fifo : BOOLEAN, sent : BOOLEAN] /\ count.ses < MaxSes
    BY <1>5 DEF EnablePushed, MayEnable, TypeOK
  <2> QED
    BY <1>5, <2>1, MakeTyped DEF EnablePushed, TypeOK
<1>6. CASE EnableLatePush
  <2>1. ASSUME NEW outcome, MakeAdcBuf(Pushed(outcome), QNICLL_ERR_NONE), UNCHANGED got
        PROVE  TypeOK'
    <3>1. Pushed(outcome) \in [open : BOOLEAN, fifo : BOOLEAN, sent : BOOLEAN] /\ count.ses < MaxSes
      BY <1>6, PushedTyped DEF EnableLatePush, MayEnable
    <3> QED
      BY <2>1, <3>1, MakeTyped DEF TypeOK
  <2>2. ASSUME NEW e \in {QNICLL_ERR_NONE, QNICLL_ERR_BUG, Garbage}, EnableEnds(e)
        PROVE  TypeOK'
    <3>1. app' \in AppTypes
      BY <2>2 DEF EnableEnds, Enabled, TypeOK, AppTypes
    <3>2. pc' \in {"idle", "get", "return", "crashed"} /\ last' \in LastTypes
      BY <2>2, ReturnTyped DEF EnableEnds
    <3> QED
      BY <2>2, <3>1, <3>2 DEF EnableEnds, TypeOK
  <2> QED
    BY <1>6, <2>1, <2>2, CrashTyped DEF EnableLatePush
<1>7. CASE Disable
  <2>1. st' \in StTypes
    BY <1>7 DEF Disable, TypeOK, StTypes
  <2>2. adc' \in AdcTypes
    BY <1>7, AdcClosedTyped DEF Disable, TypeOK
  <2>3. app' \in AppTypes
    BY <1>7 DEF Disable, TypeOK, AppTypes
  <2>4. pc' \in {"idle", "get", "return", "crashed"} /\ last' \in LastTypes
    BY <1>7, ReturnTyped DEF Disable
  <2> QED
    BY <1>7, <2>1, <2>2, <2>3, <2>4 DEF Disable, TypeOK
<1>8. ASSUME NEW n \in RxSizes, qnicll_set_rx_buf_sz_samps(n) PROVE TypeOK'
  <2>1. n \in Int /\ Quads(n) \in Int
    BY QuadsInt, Numbers
  <2>2. st' \in StTypes
    BY <1>8, <2>1 DEF qnicll_set_rx_buf_sz_samps, TypeOK, StTypes
  <2>3. pc' \in {"idle", "get", "return", "crashed"} /\ last' \in LastTypes
    BY <1>8, <2>1, ReturnTyped DEF qnicll_set_rx_buf_sz_samps
  <2> QED
    BY <1>8, <2>2, <2>3 DEF qnicll_set_rx_buf_sz_samps, TypeOK
<1>9. ASSUME NEW n \in BufCounts, qnicll_set_num_kernel_rx_bufs(n) PROVE TypeOK'
  <2>1. adc' \in AdcTypes
    BY <1>9, Numbers DEF qnicll_set_num_kernel_rx_bufs, TypeOK, AdcTypes
  <2>2. pc' \in {"idle", "get", "return", "crashed"} /\ last' \in LastTypes
    BY <1>9, ReturnTyped, Numbers DEF qnicll_set_num_kernel_rx_bufs
  <2> QED
    BY <1>9, <2>1, <2>2 DEF qnicll_set_num_kernel_rx_bufs, TypeOK
<1>10. CASE qnicll_get_filled_rx_buf
  <2>1. CASE Deliver(adc.cur, st.adc_occ) /\ UNCHANGED <<adc, dac, app>>
    <3>1. adc.cur \in Blocks /\ st.adc_occ \in Blocks
      BY DEF TypeOK, AdcTypes, StTypes
    <3> QED
      BY <2>1, <3>1, DeliverTyped DEF TypeOK
  <2> QED
    BY <1>10, <2>1, EnterTyped, CrashTyped DEF qnicll_get_filled_rx_buf
<1>11. CASE qnicll_return_rx_buf
  <2>1. CASE Returns("return", 0, QNICLL_ERR_NONE) /\ UNCHANGED <<st, adc, dac, got, app, count>>
    BY <2>1, ReturnTyped DEF TypeOK
  <2> QED
    BY <1>11, <2>1, EnterTyped DEF qnicll_return_rx_buf
<1> QED
  BY <1>1, <1>2, <1>3, <1>4, <1>5, <1>6, <1>7, <1>8, <1>9, <1>10, <1>11 DEF Calls

LEMMA StepTyped == TypeOK /\ [Next]_vars => TypeOK'
<1> SUFFICES ASSUME TypeOK, [Next]_vars PROVE TypeOK'
  OBVIOUS
<1>1. CASE Calls
  BY <1>1, CallsTyped
<1>2. CASE Refilled
  <2> DEFINE front == Head(adc.full)
  <2>1. front \in Blocks /\ Tail(adc.full) \in Seq(Blocks)
    BY <1>2 DEF Refilled, TypeOK, AdcTypes
  <2>2. adc' \in AdcTypes
    BY <1>2, <2>1 DEF Refilled, TypeOK, AdcTypes
  <2>3. CASE Deliver(front, front)
    BY <1>2, <2>1, <2>2, <2>3, DeliverTyped DEF Refilled, TypeOK
  <2>4. CASE ~Deliver(front, front)
    <3>1. st' \in StTypes
      BY <1>2, <2>1, <2>4 DEF Refilled, TypeOK, StTypes
    <3>2. pc' \in {"idle", "get", "return", "crashed"} /\ last' \in LastTypes
      BY <1>2, <2>4, ReturnTyped DEF Refilled
    <3> QED
      BY <1>2, <2>2, <2>4, <3>1, <3>2 DEF Refilled, TypeOK
  <2> QED
    BY <2>3, <2>4
<1>3. CASE RefillFails
  <2>1. pc' \in {"idle", "get", "return", "crashed"} /\ last' \in LastTypes
    BY <1>3, ReturnTyped DEF RefillFails
  <2> QED
    BY <1>3, <2>1 DEF RefillFails, TypeOK
<1>4. CASE AdcFillsBlock
  <2>1. [ses |-> count.ses, seq |-> adc.next] \in Blocks
    BY <1>4, Numbers DEF AdcFillsBlock, Blocks, TypeOK, AdcTypes
  <2>2. adc' \in AdcTypes
    <3>1. adc \in AdcTypes
      BY DEF TypeOK
    <3>2. Append(adc.full, [ses |-> count.ses, seq |-> adc.next]) \in Seq(Blocks)
      BY <2>1, <3>1 DEF AdcTypes
    <3>3. adc.next + 1 \in 1..MaxBlocks+1
      BY <1>4, <3>1, Numbers DEF AdcFillsBlock, AdcTypes
    <3> QED
      BY <1>4, <3>1, <3>2, <3>3 DEF AdcFillsBlock, AdcTypes
  <2> QED
    BY <1>4, <2>2 DEF AdcFillsBlock, TypeOK
<1>5. CASE UNCHANGED vars
  BY <1>5 DEF vars, TypeOK
<1> QED
  BY <1>1, <1>2, <1>3, <1>4, <1>5 DEF Next

(***************************************************************************)
(* Type correctness, for any application and any failures of libiio.       *)
(***************************************************************************)
THEOREM DatapathTyped == Spec => []TypeOK
<1> QED
  BY InitTyped, StepTyped, PTL DEF Spec

-----------------------------------------------------------------------------
(* The buffer objects, for an application that makes one transmit buffer   *)
(* and then enables and disables in pairs, and when no write to the        *)
(* transmit buffer fails.                                                  *)

Sound ==
  /\ {"pairs", "tx_first", "tx_once"} \subseteq Usage
  /\ Faults \cap {"write", "push"} = {}

LEMMA SoundPush == Sound => PushOutcomes = {"whole"}
BY DEF Sound, PushOutcomes

LEMMA SoundEnable ==
  ASSUME Sound, MayEnable
  PROVE  /\ pc = "idle" /\ app.up /\ app.en = "off" /\ app.sized
         /\ "fresh" \in Usage => ~app.spent
BY DEF Sound, MayEnable, MayCall, Obeys

LEMMA SoundReceive ==
  ASSUME Sound, MayReceive PROVE pc = "idle" /\ app.up /\ app.en = "on"
BY DEF Sound, MayReceive, MayCall, Obeys

\* What is left when the receive buffer was made, or was not
LEMMA MakeKnown ==
  ASSUME TypeOK, BuffersKnown, NEW tx \in [open : BOOLEAN, fifo : BOOLEAN, sent : BOOLEAN],
         NEW code, MakeAdcBuf(tx, code), app.up, app.sized, ~adc.open, tx.open
  PROVE  BuffersKnown' /\ pc' = "idle" /\ last'.op = "txrx_en" /\ last'.arg = 1
           /\ (last'.code = QNICLL_ERR_NONE => adc'.open /\ dac'.sent = tx.fifo)
<1>1. st.dac_buf
  BY DEF BuffersKnown
<1>2. PICK c : app' = Enabled(c) /\ Returns("txrx_en", 1, c)
                 /\ \/ st' = [st EXCEPT !.tx_pushed = TRUE, !.adc_buf = TRUE, !.rx_sz = Quads(@)]
                       /\ adc' = [adc EXCEPT !.open = TRUE, !.next = 1]
                       /\ dac' = [tx EXCEPT !.fifo = FALSE, !.sent = tx.fifo]
                    \/ st' = [st EXCEPT !.tx_pushed = TRUE, !.adc_buf = FALSE]
                       /\ adc' = adc /\ dac' = tx /\ c = QNICLL_ERR_BUG
  BY DEF MakeAdcBuf
<1>3. st'.dac_buf /\ (st'.adc_buf <=> adc'.open) /\ (adc'.open \/ c = QNICLL_ERR_BUG)
  <2>1. CASE st' = [st EXCEPT !.tx_pushed = TRUE, !.adc_buf = TRUE, !.rx_sz = Quads(@)]
             /\ adc' = [adc EXCEPT !.open = TRUE, !.next = 1]
    BY <1>1, <2>1 DEF TypeOK, StTypes, AdcTypes
  <2>2. CASE st' = [st EXCEPT !.tx_pushed = TRUE, !.adc_buf = FALSE]
             /\ adc' = adc /\ c = QNICLL_ERR_BUG
    BY <1>1, <2>2 DEF TypeOK, StTypes
  <2> QED
    BY <1>2, <2>1, <2>2
<1>4. app'.up /\ app'.sized /\ app'.spent
      /\ app'.en = IF c = QNICLL_ERR_NONE THEN "on" ELSE "failed"
  BY <1>2 DEF Enabled, TypeOK, AppTypes
<1>5. pc' = "idle" /\ last'.op = "txrx_en" /\ last'.arg = 1 /\ last'.code = c
  BY <1>2 DEF Returns
<1>6. dac'.open /\ (dac'.sent = tx.fifo \/ c = QNICLL_ERR_BUG)
  BY <1>2
<1> QED
  BY <1>3, <1>4, <1>5, <1>6 DEF BuffersKnown, QNICLL_ERR_NONE, QNICLL_ERR_BUG

LEMMA InitKnown == Init => BuffersKnown
BY DEF Init, BuffersKnown

\* The properties about qnicll_txrx_en(1) hold of every other call: it is not the
\* last call, or nothing they speak of has changed.
Switched == EnabledIsReceiving /\ ("fresh" \in Usage => EnabledHasTxData)

LEMMA InitSwitched == Init => Switched
BY DEF Init, Switched, EnabledIsReceiving, EnabledHasTxData, Succeeded, LastWas

LEMMA NotSwitch ==
  ASSUME pc' # "idle" \/ last'.op # "txrx_en" PROVE Switched'
BY DEF Switched, EnabledIsReceiving, EnabledHasTxData, Succeeded, LastWas

LEMMA SwitchedOn ==
  ASSUME last'.code = QNICLL_ERR_NONE => adc'.open /\ ("fresh" \in Usage => dac'.sent)
  PROVE  Switched'
BY DEF Switched, EnabledIsReceiving, EnabledHasTxData, Succeeded, LastWas

LEMMA CallsKnown ==
  Sound /\ TypeOK /\ BuffersKnown /\ Switched /\ Calls => BuffersKnown' /\ Switched'
<1> SUFFICES ASSUME Sound, TypeOK, BuffersKnown, Switched, Calls
             PROVE  BuffersKnown' /\ Switched'
  OBVIOUS
<1> USE DEF TypeOK, StTypes, AdcTypes, AppTypes
<1>1. CASE qnicll_init
  <2>1. last'.op # "txrx_en"
    BY <1>1 DEF qnicll_init, Returns
  <2>2. ~app.up /\ pc' = "idle" /\ UNCHANGED <<adc, dac>>
    BY <1>1 DEF qnicll_init, Returns
  <2>3. ASSUME st' = [st EXCEPT !.tx_pushed = FALSE, !.adc_buf = FALSE, !.dac_buf = FALSE],
               app' = [up |-> TRUE, sized |-> FALSE, en |-> "off", spent |-> FALSE]
        PROVE  BuffersKnown'
    BY <2>2, <2>3 DEF BuffersKnown
  <2>4. ASSUME UNCHANGED app PROVE BuffersKnown'
    BY <2>2, <2>4 DEF BuffersKnown
  <2>5. BuffersKnown'
    BY <1>1, <2>3, <2>4 DEF qnicll_init
  <2> QED
    BY <2>1, <2>5, NotSwitch
<1>2. CASE qnicll_done
  <2>1. last'.op # "txrx_en"
    BY <1>2 DEF qnicll_done, Returns
  <2>2. ~adc'.open /\ ~dac'.open
    BY <1>2 DEF qnicll_done, BuffersKnown, AdcClosed, DacClosed, MayCall
  <2>3. BuffersKnown'
    BY <1>2, <2>2 DEF qnicll_done, BuffersKnown, Returns
  <2> QED
    BY <2>1, <2>3, NotSwitch
<1>3. ASSUME NEW n \in TxSizes, qnicll_set_tx_buf_sz_samps(n)
      PROVE  BuffersKnown' /\ Switched'
  <2>1. last'.op # "txrx_en"
    BY <1>3 DEF qnicll_set_tx_buf_sz_samps, Returns
  <2>2. ~app.sized /\ app.up
    BY <1>3 DEF qnicll_set_tx_buf_sz_samps, MayCall, Obeys, Sound
  <2>3. pc' = "idle" /\ UNCHANGED adc
    BY <1>3 DEF qnicll_set_tx_buf_sz_samps, Returns
  <2>4. ASSUME st' = [st EXCEPT !.dac_buf = TRUE], dac' = [open |-> TRUE, fifo |-> FALSE, sent |-> FALSE],
               app' = [app EXCEPT !.sized = TRUE]
        PROVE  BuffersKnown'
    BY <2>2, <2>3, <2>4 DEF BuffersKnown
  <2>5. ASSUME st' = [st EXCEPT !.dac_buf = FALSE], UNCHANGED <<dac, app>>
        PROVE  BuffersKnown'
    BY <2>2, <2>3, <2>5 DEF BuffersKnown
  <2>6. BuffersKnown'
    BY <1>3, <2>4, <2>5 DEF qnicll_set_tx_buf_sz_samps
  <2> QED
    BY <2>1, <2>6, NotSwitch
<1>4. CASE qnicll_push_tx_buf
  <2>1. last'.op # "txrx_en"
    BY <1>4 DEF qnicll_push_tx_buf, Returns
  <2>2. BuffersKnown'
    <3>1. pc' = "idle" /\ app.up /\ UNCHANGED adc
      BY <1>4 DEF qnicll_push_tx_buf, Returns, MayCall
    <3>2. CASE UNCHANGED <<st, dac, app>>
      BY <3>1, <3>2 DEF BuffersKnown
    <3>3. CASE st.dac_buf /\ dac' = Pushed("whole") /\ st' = [st EXCEPT !.tx_pushed = TRUE]
               /\ app' = [app EXCEPT !.spent = @ /\ app.en # "off"]
      <4>1. dac'.open = dac.open /\ dac'.fifo = ~adc.open
        BY <3>3 DEF Pushed
      <4>2. app'.up = app.up /\ app'.sized = app.sized /\ app'.en = app.en
            /\ app'.spent = (app.spent /\ app.en # "off")
        BY <3>3
      <4>3. st'.adc_buf = st.adc_buf /\ st'.dac_buf = st.dac_buf
        BY <3>3
      <4> QED
        BY <3>1, <3>3, <4>1, <4>2, <4>3 DEF BuffersKnown
    <3> QED
      BY <1>4, <3>2, <3>3, SoundPush DEF qnicll_push_tx_buf
  <2> QED
    BY <2>1, <2>2, NotSwitch
<1>5. CASE EnablePushed
  <2>1. /\ app.up /\ app.sized /\ ~adc.open /\ dac.open
        /\ "fresh" \in Usage => dac.fifo
    BY <1>5, SoundEnable DEF EnablePushed, BuffersKnown
  <2>2. PICK e \in {QNICLL_ERR_NONE, Garbage} : MakeAdcBuf(dac, e)
    BY <1>5 DEF EnablePushed
  <2> QED
    BY <2>1, <2>2, MakeKnown, SwitchedOn
<1>6. CASE EnableLatePush
  <2>1. app.up /\ app.sized /\ ~adc.open /\ dac.open /\ st.dac_buf
    BY <1>6, SoundEnable DEF EnableLatePush, BuffersKnown
  <2>2. MakeAdcBuf(Pushed("whole"), QNICLL_ERR_NONE)
    BY <1>6, <2>1, SoundPush DEF EnableLatePush, Sound
  <2>3. Pushed("whole").open /\ Pushed("whole").fifo
    BY <2>1 DEF Pushed
  <2> QED
    BY <2>1, <2>2, <2>3, PushedTyped, MakeKnown, SwitchedOn
<1>7. CASE Disable
  <2>1. app.up /\ pc' = "idle" /\ last'.op = "txrx_en" /\ last'.arg = 0
    BY <1>7 DEF Disable, MayCall, Returns
  <2>2. ~adc'.open
    BY <1>7, <2>1 DEF Disable, BuffersKnown, AdcClosed
  <2>3. BuffersKnown'
    BY <1>7, <2>1, <2>2 DEF Disable, BuffersKnown
  <2> QED
    BY <2>1, <2>3 DEF Switched, EnabledIsReceiving, EnabledHasTxData, Succeeded, LastWas
<1>8. ASSUME NEW n \in RxSizes, qnicll_set_rx_buf_sz_samps(n)
      PROVE  BuffersKnown' /\ Switched'
  <2>1. last'.op # "txrx_en"
    BY <1>8 DEF qnicll_set_rx_buf_sz_samps, Returns
  <2>2. BuffersKnown'
    BY <1>8 DEF qnicll_set_rx_buf_sz_samps, BuffersKnown, Returns
  <2> QED
    BY <2>1, <2>2, NotSwitch
<1>9. ASSUME NEW n \in BufCounts, qnicll_set_num_kernel_rx_bufs(n)
      PROVE  BuffersKnown' /\ Switched'
  <2>1. last'.op # "txrx_en"
    BY <1>9 DEF qnicll_set_num_kernel_rx_bufs, Returns
  <2>2. adc'.open = adc.open
    BY <1>9 DEF qnicll_set_num_kernel_rx_bufs
  <2>3. BuffersKnown'
    BY <1>9, <2>2 DEF qnicll_set_num_kernel_rx_bufs, BuffersKnown, Returns
  <2> QED
    BY <2>1, <2>3, NotSwitch
<1>enter. ASSUME NEW caller \in {"get", "return"}, EnterRefill(caller), MayReceive
          PROVE  BuffersKnown' /\ Switched'
  <2>1. app.up /\ adc.open /\ st.adc_buf
    BY <1>enter, SoundReceive DEF BuffersKnown
  <2>2. pc' = caller /\ adc' = [adc EXCEPT !.cur = NoBlock] /\ UNCHANGED <<st, dac, app>>
    BY <1>enter, <2>1 DEF EnterRefill
  <2>3. adc'.open = adc.open
    BY <2>2
  <2>4. BuffersKnown'
    BY <2>1, <2>2, <2>3 DEF BuffersKnown
  <2> QED
    BY <2>2, <2>4, NotSwitch
<1>10. CASE qnicll_get_filled_rx_buf
  <2>1. app.up /\ adc.open /\ st.adc_buf /\ MayReceive
    BY <1>10, SoundReceive DEF BuffersKnown, qnicll_get_filled_rx_buf
  <2>2. CASE Deliver(adc.cur, st.adc_occ) /\ UNCHANGED <<adc, dac, app>>
    <3>1. pc' = "idle" /\ last'.op # "txrx_en"
      BY <2>2 DEF Deliver, Returns
    <3>2. BuffersKnown'
      BY <2>2, <3>1 DEF Deliver, BuffersKnown
    <3> QED
      BY <3>1, <3>2, NotSwitch
  <2> QED
    BY <1>10, <2>1, <2>2, <1>enter DEF qnicll_get_filled_rx_buf
<1>11. CASE qnicll_return_rx_buf
  <2>1. CASE Returns("return", 0, QNICLL_ERR_NONE) /\ UNCHANGED <<st, adc, dac, got, app, count>>
    <3>1. pc' = "idle" /\ last'.op # "txrx_en"
      BY <2>1 DEF Returns
    <3>2. BuffersKnown'
      BY <2>1, <3>1 DEF BuffersKnown
    <3> QED
      BY <3>1, <3>2, NotSwitch
  <2> QED
    BY <1>11, <2>1, <1>enter DEF qnicll_return_rx_buf
<1> QED
  BY <1>1, <1>2, <1>3, <1>4, <1>5, <1>6, <1>7, <1>8, <1>9, <1>10, <1>11 DEF Calls

LEMMA StepKnown ==
  Sound /\ TypeOK /\ BuffersKnown /\ Switched /\ [Next]_vars => BuffersKnown' /\ Switched'
<1> SUFFICES ASSUME Sound, TypeOK, BuffersKnown, Switched, [Next]_vars
             PROVE  BuffersKnown' /\ Switched'
  OBVIOUS
<1> USE DEF TypeOK, StTypes, AdcTypes, AppTypes
<1>1. CASE Calls
  BY <1>1, CallsKnown
<1>2. CASE Refilled
  <2>1. pc' = "idle" /\ last'.op # "txrx_en"
    BY <1>2 DEF Refilled, Deliver, Returns
  <2>2. adc'.open = adc.open /\ st'.adc_buf = st.adc_buf /\ st'.dac_buf = st.dac_buf
          /\ st'.tx_pushed = st.tx_pushed
    BY <1>2 DEF Refilled, Deliver
  <2>3. BuffersKnown'
    BY <1>2, <2>1, <2>2 DEF Refilled, BuffersKnown
  <2> QED
    BY <2>1, <2>3, NotSwitch
<1>3. CASE RefillFails
  <2>1. pc' = "idle" /\ last'.op # "txrx_en"
    BY <1>3 DEF RefillFails, Returns
  <2>2. BuffersKnown'
    BY <1>3, <2>1 DEF RefillFails, BuffersKnown
  <2> QED
    BY <2>1, <2>2, NotSwitch
<1>4. CASE AdcFillsBlock
  <2>1. adc'.open = adc.open
    BY <1>4 DEF AdcFillsBlock
  <2>2. BuffersKnown'
    BY <1>4, <2>1 DEF AdcFillsBlock, BuffersKnown
  <2>3. Switched'
    BY <1>4, <2>1 DEF AdcFillsBlock, Switched, EnabledIsReceiving, EnabledHasTxData,
       Succeeded, LastWas
  <2> QED
    BY <2>2, <2>3
<1>5. CASE UNCHANGED vars
  BY <1>5 DEF vars, BuffersKnown, Switched, EnabledIsReceiving, EnabledHasTxData, Succeeded,
     LastWas
<1> QED
  BY <1>1, <1>2, <1>3, <1>4, <1>5 DEF Next

(***************************************************************************)
(* qnicll.c always knows its buffer objects, and with it what it says of   *)
(* receiving and transmitting is so.                                       *)
(***************************************************************************)
THEOREM BuffersAreKnown == Sound => (Spec => [](BuffersKnown /\ Switched))
<1> SUFFICES ASSUME Sound PROVE Spec => [](BuffersKnown /\ Switched)
  OBVIOUS
<1>1. Init => BuffersKnown /\ Switched
  BY InitKnown, InitSwitched
<1>2. TypeOK /\ BuffersKnown /\ Switched /\ [Next]_vars => (BuffersKnown /\ Switched)'
  BY StepKnown
<1> QED
  BY <1>1, <1>2, DatapathTyped, PTL DEF Spec

(***************************************************************************)
(* The library does not lose a libiio buffer object (qnicll.c 262, 418).   *)
(***************************************************************************)
THEOREM BuffersAreOwned == Sound => (Spec => []BuffersOwned)
<1>1. BuffersKnown => BuffersOwned
  BY DEF BuffersKnown, BuffersOwned
<1> QED
  BY <1>1, BuffersAreKnown, PTL

(***************************************************************************)
(* libiio never gets a NULL buffer object.                                 *)
(***************************************************************************)
THEOREM NeverNullBuffer == Sound => (Spec => []NoNullBuffer)
<1>1. BuffersKnown => NoNullBuffer
  BY DEF BuffersKnown, NoNullBuffer
<1> QED
  BY <1>1, BuffersAreKnown, PTL

(***************************************************************************)
(* When qnicll_txrx_en(1) returned 0, data are received ...                *)
(***************************************************************************)
THEOREM EnabledReceives == Sound => (Spec => []EnabledIsReceiving)
<1>1. Switched => EnabledIsReceiving
  BY DEF Switched
<1> QED
  BY <1>1, BuffersAreKnown, PTL

(***************************************************************************)
(* ... and for an application that also pushes again before it enables     *)
(* again, data have been sent to the DAC, whether it pushed them or left   *)
(* that to the late push.                                                  *)
(***************************************************************************)
THEOREM EnabledTransmits == Sound /\ "fresh" \in Usage => (Spec => []EnabledHasTxData)
<1> SUFFICES ASSUME Sound, "fresh" \in Usage PROVE Spec => []EnabledHasTxData
  OBVIOUS
<1>1. Switched => EnabledHasTxData
  BY DEF Switched
<1> QED
  BY <1>1, BuffersAreKnown, PTL

-----------------------------------------------------------------------------
(* Disabling, for an application of which nothing is known but that it     *)
(* enables when disabled, disables when enabled and receives in between:   *)
(* any libiio call may fail, and the transmit buffer may be made and       *)
(* pushed in any order or not at all.                                      *)

Paired ==
  /\ app.up => (st.adc_buf <=> adc.open) /\ (app.en = "off" => ~adc.open)
  /\ ~app.up => ~adc.open
  /\ DisabledIsOff

LEMMA InitPaired == Init => Paired
BY DEF Init, Paired, DisabledIsOff, LastWas

\* A step that leaves the receive buffer and the application's view of it alone
LEMMA StaysPaired ==
  ASSUME Paired, adc'.open = adc.open, st'.adc_buf = st.adc_buf, app'.up = app.up,
         app'.en = app.en,
         (pc' # "idle" \/ last'.op # "txrx_en") \/ (pc' = pc /\ last' = last)
  PROVE  Paired'
BY DEF Paired, DisabledIsOff, LastWas

LEMMA CrashPaired == ASSUME Paired, Crash PROVE Paired'
BY StaysPaired DEF Crash

LEMMA EnterPaired ==
  ASSUME TypeOK, Paired, NEW caller \in {"get", "return"}, EnterRefill(caller) PROVE Paired'
<1>1. CASE Crash
  BY <1>1, CrashPaired
<1>2. CASE pc' = caller /\ adc' = [adc EXCEPT !.cur = NoBlock]
           /\ UNCHANGED <<st, dac, last, got, app, count>>
  <2>1. adc'.open = adc.open /\ pc' # "idle"
    BY <1>2 DEF TypeOK, AdcTypes
  <2> QED
    BY <1>2, <2>1, StaysPaired
<1> QED
  BY <1>1, <1>2 DEF EnterRefill

\* The receive buffer was made, or was not, or enabling ended before that.
LEMMA EnablePaired ==
  ASSUME "pairs" \in Usage, TypeOK, Paired, MayEnable,
         (\E tx, code : MakeAdcBuf(tx, code)) \/ (\E code : EnableEnds(code))
  PROVE  Paired'
<1> USE DEF TypeOK, StTypes, AdcTypes, AppTypes
<1>1. app.up /\ ~adc.open /\ ~st.adc_buf
  BY DEF MayEnable, MayCall, Obeys, Paired
<1>2. PICK code : app' = Enabled(code) /\ Returns("txrx_en", 1, code)
  BY DEF MakeAdcBuf, EnableEnds
<1>3. app'.up /\ app'.en # "off"
  BY <1>1, <1>2 DEF Enabled
<1>4. DisabledIsOff'
  BY <1>2 DEF Returns, DisabledIsOff, LastWas
<1>5. st'.adc_buf <=> adc'.open
  <2>1. ASSUME NEW tx, NEW e, MakeAdcBuf(tx, e) PROVE st'.adc_buf <=> adc'.open
    BY <1>1, <2>1 DEF MakeAdcBuf
  <2>2. ASSUME NEW e, EnableEnds(e) PROVE st'.adc_buf <=> adc'.open
    BY <1>1, <2>2 DEF EnableEnds
  <2> QED
    BY <2>1, <2>2
<1> QED
  BY <1>3, <1>4, <1>5 DEF Paired

LEMMA CallsPaired ==
  ASSUME "pairs" \in Usage, TypeOK, Paired, Calls PROVE Paired'
<1> USE DEF TypeOK, StTypes, AdcTypes, AppTypes
<1>1. CASE qnicll_init
  <2>1. ~app.up /\ ~adc.open /\ adc' = adc /\ last'.op # "txrx_en"
    BY <1>1 DEF qnicll_init, Returns, Paired
  <2>2. \/ ~st'.adc_buf /\ app' = [up |-> TRUE, sized |-> FALSE, en |-> "off", spent |-> FALSE]
        \/ app' = app
    BY <1>1 DEF qnicll_init
  <2> QED
    BY <2>1, <2>2 DEF Paired, DisabledIsOff, LastWas
<1>2. CASE qnicll_done
  <2>1. ~app'.up /\ last'.op # "txrx_en"
    BY <1>2 DEF qnicll_done, Returns
  <2>2. ~adc'.open
    BY <1>2 DEF qnicll_done, MayCall, Paired, AdcClosed
  <2> QED
    BY <2>1, <2>2 DEF Paired, DisabledIsOff, LastWas
<1>3. ASSUME NEW n \in TxSizes, qnicll_set_tx_buf_sz_samps(n) PROVE Paired'
  <2>1. last'.op # "txrx_en" /\ adc' = adc
    BY <1>3 DEF qnicll_set_tx_buf_sz_samps, Returns
  <2>2. st'.adc_buf = st.adc_buf /\ app'.up = app.up /\ app'.en = app.en
    BY <1>3 DEF qnicll_set_tx_buf_sz_samps
  <2> QED
    BY <2>1, <2>2, StaysPaired
<1>4. CASE qnicll_push_tx_buf
  <2>1. last'.op # "txrx_en" /\ adc' = adc
    BY <1>4 DEF qnicll_push_tx_buf, Returns
  <2>2. st'.adc_buf = st.adc_buf /\ app'.up = app.up /\ app'.en = app.en
    BY <1>4 DEF qnicll_push_tx_buf
  <2> QED
    BY <2>1, <2>2, StaysPaired
<1>5. CASE EnablePushed
  BY <1>5, EnablePaired DEF EnablePushed
<1>6. CASE EnableLatePush
  BY <1>6, EnablePaired, CrashPaired DEF EnableLatePush
<1>7. CASE Disable
  <2>1. app.up /\ app' = [app EXCEPT !.en = "off"] /\ st' = [st EXCEPT !.adc_buf = FALSE]
    BY <1>7 DEF Disable, MayCall
  <2>2. ~adc'.open
    BY <1>7, <2>1 DEF Disable, Paired, AdcClosed
  <2> QED
    BY <2>1, <2>2 DEF Paired, DisabledIsOff
<1>8. ASSUME NEW n \in RxSizes, qnicll_set_rx_buf_sz_samps(n) PROVE Paired'
  <2>1. last'.op # "txrx_en" /\ UNCHANGED <<adc, app>> /\ st'.adc_buf = st.adc_buf
    BY <1>8 DEF qnicll_set_rx_buf_sz_samps, Returns
  <2> QED
    BY <2>1, StaysPaired
<1>9. ASSUME NEW n \in BufCounts, qnicll_set_num_kernel_rx_bufs(n) PROVE Paired'
  <2>1. last'.op # "txrx_en" /\ UNCHANGED <<st, app>> /\ adc'.open = adc.open
    BY <1>9 DEF qnicll_set_num_kernel_rx_bufs, Returns
  <2> QED
    BY <2>1, StaysPaired
<1>10. CASE qnicll_get_filled_rx_buf
  <2>1. CASE Deliver(adc.cur, st.adc_occ) /\ UNCHANGED <<adc, dac, app>>
    <3>1. last'.op # "txrx_en" /\ st'.adc_buf = st.adc_buf
      BY <2>1 DEF Deliver, Returns
    <3> QED
      BY <2>1, <3>1, StaysPaired
  <2> QED
    BY <1>10, <2>1, EnterPaired, CrashPaired DEF qnicll_get_filled_rx_buf
<1>11. CASE qnicll_return_rx_buf
  <2>1. CASE Returns("return", 0, QNICLL_ERR_NONE) /\ UNCHANGED <<st, adc, dac, got, app, count>>
    <3>1. last'.op # "txrx_en"
      BY <2>1 DEF Returns
    <3> QED
      BY <2>1, <3>1, StaysPaired
  <2> QED
    BY <1>11, <2>1, EnterPaired DEF qnicll_return_rx_buf
<1> QED
  BY <1>1, <1>2, <1>3, <1>4, <1>5, <1>6, <1>7, <1>8, <1>9, <1>10, <1>11 DEF Calls

LEMMA StepPaired ==
  ASSUME "pairs" \in Usage, TypeOK, Paired, [Next]_vars PROVE Paired'
<1> USE DEF TypeOK, StTypes, AdcTypes, AppTypes
<1>1. CASE Calls
  BY <1>1, CallsPaired
<1>2. CASE Refilled
  <2>1. last'.op # "txrx_en" /\ app' = app
    BY <1>2 DEF Refilled, Deliver, Returns
  <2>2. adc'.open = adc.open /\ st'.adc_buf = st.adc_buf
    BY <1>2 DEF Refilled, Deliver
  <2> QED
    BY <2>1, <2>2, StaysPaired
<1>3. CASE RefillFails
  <2>1. last'.op # "txrx_en" /\ UNCHANGED <<st, adc, app>>
    BY <1>3 DEF RefillFails, Returns
  <2> QED
    BY <2>1, StaysPaired
<1>4. CASE AdcFillsBlock
  <2>1. adc'.open = adc.open /\ UNCHANGED <<st, app, pc, last>>
    BY <1>4 DEF AdcFillsBlock
  <2> QED
    BY <2>1, StaysPaired
<1>5. CASE UNCHANGED vars
  BY <1>5, StaysPaired DEF vars
<1> QED
  BY <1>1, <1>2, <1>3, <1>4, <1>5 DEF Next

(***************************************************************************)
(* For an application that does not enable twice in a row, nothing is      *)
(* received after qnicll_txrx_en(0), whatever failed before and whatever   *)
(* became of the transmit buffer.  (Enabled twice, it goes on: the second  *)
(* call overwrites the pointer to the buffer object with NULL, and the     *)
(* disabling one, qnicll.c:418, then finds nothing to destroy.)            *)
(***************************************************************************)
THEOREM DisabledIsQuiet == "pairs" \in Usage => (Spec => []DisabledIsOff)
<1> SUFFICES ASSUME "pairs" \in Usage PROVE Spec => []DisabledIsOff
  OBVIOUS
<1>1. TypeOK /\ Paired /\ [Next]_vars => Paired'
  BY StepPaired
<1>2. Paired => DisabledIsOff
  BY DEF Paired
<1> QED
  BY <1>1, <1>2, InitPaired, DatapathTyped, PTL DEF Spec

-----------------------------------------------------------------------------
(* The blocks, for an application that also takes what was returned before *)
(* it disables.                                                            *)

Drains == Sound /\ "drained" \in Usage

\* BlocksInPlace holds on, when a call returns that touches nothing it speaks of;
LEMMA StayInPlace ==
  ASSUME BlocksInPlace, pc' = "idle",
         adc'.open = adc.open, adc'.full = adc.full, adc'.next = adc.next, adc'.cur = adc.cur,
         st'.adc_filled = st.adc_filled, st'.adc_occ = st.adc_occ,
         count'.ses = count.ses, count'.taken = count.taken
  PROVE  BlocksInPlace'
BY DEF BlocksInPlace

\* ... and when receiving ends.
LEMMA ClosedInPlace ==
  ASSUME pc' = "idle", ~adc'.open, adc'.full = <<>>, ~st'.adc_filled
  PROVE  BlocksInPlace'
BY DEF BlocksInPlace

LEMMA NotGot == ASSUME pc' # "idle" \/ last'.op # "get" \/ last'.code = QNICLL_ERR_BUG
                PROVE  GotIsNext'
BY DEF GotIsNext, Succeeded, LastWas, QNICLL_ERR_NONE, QNICLL_ERR_BUG

\* The number of blocks captured is the number taken, fetched and queued.
LEMMA FirstIsNext ==
  ASSUME TypeOK, BlocksInPlace, adc.open, ~st.adc_filled, adc.full # <<>>
  PROVE  Head(adc.full) = [ses |-> count.ses, seq |-> count.taken + 1]
<1>1. adc.full \in Seq(Blocks) /\ Len(adc.full) \in Nat /\ Len(adc.full) # 0
      /\ adc.next \in Int /\ count.taken \in Int
  BY DEF TypeOK, AdcTypes
<1>2. Head(adc.full) = adc.full[1] /\ 1 \in 1..Len(adc.full)
  BY <1>1
<1>3. adc.full[1] = [ses |-> count.ses, seq |-> adc.next - 1 - Len(adc.full) + 1]
  BY <1>2 DEF BlocksInPlace
<1>4. adc.next - 1 - Len(adc.full) = count.taken + 0
  BY Zenon DEF BlocksInPlace
<1> QED
  BY <1>1, <1>2, <1>3, <1>4

\* Taking the first of the queue leaves the others in place.
LEMMA TailInPlace ==
  ASSUME TypeOK, BlocksInPlace, adc.open, ~st.adc_filled, adc.full # <<>>,
         adc'.next = adc.next, adc'.full = Tail(adc.full), count'.ses = count.ses
  PROVE  /\ adc'.next - 1 - Len(adc'.full) = count.taken + 1
         /\ \A i \in 1..Len(adc'.full) :
              adc'.full[i] = [ses |-> count'.ses, seq |-> adc'.next - 1 - Len(adc'.full) + i]
<1>1. adc.full \in Seq(Blocks) /\ Len(adc.full) \in Nat /\ Len(adc.full) # 0
      /\ adc.next \in Int /\ count.taken \in Int
  BY DEF TypeOK, AdcTypes
<1>2. Len(Tail(adc.full)) = Len(adc.full) - 1
      /\ \A i \in 1..Len(adc.full) - 1 : Tail(adc.full)[i] = adc.full[i + 1]
  BY <1>1
<1>3. adc.next - 1 - Len(adc.full) = count.taken + 0
  BY Zenon DEF BlocksInPlace
<1>4. ASSUME NEW i \in 1..Len(adc.full) - 1
      PROVE  Tail(adc.full)[i] = [ses |-> count.ses, seq |-> adc.next - Len(adc.full) + i]
  <2>1. i + 1 \in 1..Len(adc.full)
    BY <1>1
  <2>2. adc.full[i + 1] = [ses |-> count.ses, seq |-> adc.next - 1 - Len(adc.full) + (i + 1)]
    BY <2>1 DEF BlocksInPlace
  <2>3. adc.next - 1 - Len(adc.full) + (i + 1) = adc.next - Len(adc.full) + i
    BY <1>1
  <2> QED
    BY <1>2, <2>2, <2>3
<1>5. adc'.next - 1 - Len(adc'.full) = adc.next - Len(adc.full)
  BY <1>1, <1>2
<1>6. adc.next - Len(adc.full) = count.taken + 1
  BY <1>1, <1>3
<1> QED
  BY <1>2, <1>4, <1>5, <1>6

\* Giving the block in user space back, before a refill waits
LEMMA EnterInPlace ==
  ASSUME TypeOK, BlocksInPlace, NEW caller \in {"get", "return"}, EnterRefill(caller),
         st.adc_buf, adc.open, ~st.adc_filled
  PROVE  BlocksInPlace' /\ GotIsNext'
<1>1. pc' = caller /\ adc' = [adc EXCEPT !.cur = NoBlock] /\ UNCHANGED <<st, count>>
  BY DEF EnterRefill
<1>2. adc'.open = adc.open /\ adc'.full = adc.full /\ adc'.next = adc.next
  BY <1>1 DEF TypeOK, AdcTypes
<1>3. GotIsNext'
  BY <1>1, NotGot
<1> QED
  BY <1>1, <1>2, <1>3 DEF BlocksInPlace

\* Delivering a block that is in its place
LEMMA DeliverInPlace ==
  ASSUME TypeOK, NEW ptr, NEW occ, Deliver(ptr, occ), occ = ptr, adc'.cur = ptr,
         ptr = [ses |-> count.ses, seq |-> count.taken + 1]
  PROVE  /\ GotIsNext'
         /\ pc' = "idle" /\ ~st'.adc_filled
         /\ count'.ses = count.ses /\ count'.taken = count.taken + 1
BY DEF Deliver, GotIsNext, Succeeded, LastWas, Returns, TypeOK, StTypes

\* A receive buffer that was made holds nothing yet.
LEMMA MakeInPlace ==
  ASSUME TypeOK, BlocksInPlace, ~adc.open, NEW tx, NEW code, MakeAdcBuf(tx, code)
  PROVE  BlocksInPlace' /\ GotIsNext'
<1> USE DEF TypeOK, StTypes, AdcTypes
<1>1. adc.full = <<>> /\ ~st.adc_filled
  BY DEF BlocksInPlace
<1>2. pc' = "idle" /\ last'.op # "get"
  BY DEF MakeAdcBuf, Returns
<1>3. ASSUME st' = [st EXCEPT !.tx_pushed = TRUE, !.adc_buf = TRUE, !.rx_sz = Quads(@)],
             adc' = [adc EXCEPT !.open = TRUE, !.next = 1],
             count' = [count EXCEPT !.ses = @ + 1, !.taken = 0]
      PROVE  BlocksInPlace'
  <2>1. adc'.full = <<>> /\ adc'.next = 1 /\ count'.taken = 0 /\ ~st'.adc_filled
    BY <1>1, <1>3
  <2>2. Len(adc'.full) = 0
    BY <2>1
  <2>3. adc'.next - 1 - Len(adc'.full) = count'.taken + (IF st'.adc_filled THEN 1 ELSE 0)
    <3>1. (IF st'.adc_filled THEN 1 ELSE 0) = 0
      BY <2>1, Zenon
    <3>2. 1 - 1 - 0 = 0 + 0
      OBVIOUS
    <3> QED
      BY <2>1, <2>2, <3>1, <3>2, Zenon
  <2>4. 1..Len(adc'.full) = {}
    BY <2>2
  <2> QED
    BY <1>2, <2>1, <2>3, <2>4 DEF BlocksInPlace
<1>4. ASSUME st' = [st EXCEPT !.tx_pushed = TRUE, !.adc_buf = FALSE], UNCHANGED <<adc, count>>
      PROVE  BlocksInPlace'
  BY <1>1, <1>2, <1>4, ClosedInPlace
<1>5. BlocksInPlace'
  BY <1>3, <1>4 DEF MakeAdcBuf
<1> QED
  BY <1>2, <1>5, NotGot

\* Taking a block, from user space or from the queue
LEMMA GetInPlace ==
  ASSUME TypeOK, BlocksInPlace, adc.open, st.adc_buf, qnicll_get_filled_rx_buf
  PROVE  BlocksInPlace' /\ GotIsNext'
<1> USE DEF TypeOK, StTypes, AdcTypes
<1>1. CASE st.adc_filled
  <2>1. Deliver(adc.cur, st.adc_occ) /\ UNCHANGED adc
    BY <1>1 DEF qnicll_get_filled_rx_buf
  <2>2. adc.cur = [ses |-> count.ses, seq |-> count.taken + 1] /\ st.adc_occ = adc.cur
        /\ \A i \in 1..Len(adc.full) :
             adc.full[i] = [ses |-> count.ses, seq |-> adc.next - 1 - Len(adc.full) + i]
    BY <1>1 DEF BlocksInPlace
  <2>3. GotIsNext' /\ pc' = "idle" /\ ~st'.adc_filled
        /\ count'.ses = count.ses /\ count'.taken = count.taken + 1
    BY <2>1, <2>2, DeliverInPlace
  <2>4. adc.next - 1 - Len(adc.full) = count.taken + 1
    BY <1>1, Zenon DEF BlocksInPlace
  <2>5. adc'.next - 1 - Len(adc'.full) = count'.taken + (IF st'.adc_filled THEN 1 ELSE 0)
    BY <2>1, <2>3, <2>4
  <2> QED
    BY <2>1, <2>2, <2>3, <2>5 DEF BlocksInPlace
<1>2. CASE ~st.adc_filled
  BY <1>2, EnterInPlace DEF qnicll_get_filled_rx_buf
<1> QED
  BY <1>1, <1>2

\* Returning one
LEMMA ReturnInPlace ==
  ASSUME TypeOK, BlocksInPlace, adc.open, st.adc_buf, qnicll_return_rx_buf
  PROVE  BlocksInPlace' /\ GotIsNext'
<1>1. CASE st.adc_filled
  <2>1. pc' = "idle" /\ last'.op # "get" /\ UNCHANGED <<st, adc, count>>
    BY <1>1 DEF qnicll_return_rx_buf, Returns
  <2> QED
    BY <2>1, NotGot, StayInPlace
<1>2. CASE ~st.adc_filled
  BY <1>2, EnterInPlace DEF qnicll_return_rx_buf
<1> QED
  BY <1>1, <1>2

LEMMA CallsInPlace ==
  Drains /\ TypeOK /\ BuffersKnown /\ BlocksInPlace /\ Calls => BlocksInPlace' /\ GotIsNext'
<1> SUFFICES ASSUME Drains, TypeOK, BuffersKnown, BlocksInPlace, Calls
             PROVE  BlocksInPlace' /\ GotIsNext'
  OBVIOUS
<1> USE DEF TypeOK, StTypes, AdcTypes, Drains
<1>1. CASE qnicll_init
  <2>1. pc' = "idle" /\ last'.op # "get" /\ UNCHANGED adc
    BY <1>1 DEF qnicll_init, Returns
  <2>2. st'.adc_filled = st.adc_filled /\ st'.adc_occ = st.adc_occ
    BY <1>1 DEF qnicll_init
  <2>3. count'.ses = count.ses /\ count'.taken = count.taken
    BY <1>1 DEF qnicll_init
  <2> QED
    BY <2>1, <2>2, <2>3, NotGot, StayInPlace
<1>2. CASE qnicll_done \/ Disable
  <2>1. pc' = "idle" /\ last'.op # "get" /\ app.up /\ ~st.adc_filled
    BY <1>2 DEF qnicll_done, Disable, Returns, MayCall, Obeys
  <2>2. adc' = IF st.adc_buf THEN AdcClosed ELSE adc
    BY <1>2 DEF qnicll_done, Disable
  <2>3. ~adc'.open /\ adc'.full = <<>>
    <3>1. CASE st.adc_buf
      BY <2>2, <3>1 DEF AdcClosed
    <3>2. CASE ~st.adc_buf
      BY <2>1, <2>2, <3>2 DEF BuffersKnown, BlocksInPlace
    <3> QED
      BY <3>1, <3>2
  <2>4. st'.adc_filled = st.adc_filled
    BY <1>2 DEF qnicll_done, Disable
  <2> QED
    BY <2>1, <2>3, <2>4, NotGot, ClosedInPlace
<1>3. ASSUME NEW n \in TxSizes, qnicll_set_tx_buf_sz_samps(n)
      PROVE  BlocksInPlace' /\ GotIsNext'
  <2>1. pc' = "idle" /\ last'.op # "get" /\ UNCHANGED <<adc, count>>
    BY <1>3 DEF qnicll_set_tx_buf_sz_samps, Returns
  <2>2. st'.adc_filled = st.adc_filled /\ st'.adc_occ = st.adc_occ
    BY <1>3 DEF qnicll_set_tx_buf_sz_samps
  <2> QED
    BY <2>1, <2>2, NotGot, StayInPlace
<1>4. CASE qnicll_push_tx_buf
  <2>1. pc' = "idle" /\ last'.op # "get" /\ UNCHANGED <<adc, count>>
    BY <1>4 DEF qnicll_push_tx_buf, Returns
  <2>2. st'.adc_filled = st.adc_filled /\ st'.adc_occ = st.adc_occ
    BY <1>4 DEF qnicll_push_tx_buf
  <2> QED
    BY <2>1, <2>2, NotGot, StayInPlace
<1>5. CASE EnablePushed \/ EnableLatePush
  <2>1. MayEnable /\ ~adc.open /\ st.dac_buf
    BY <1>5, SoundEnable DEF EnablePushed, EnableLatePush, BuffersKnown
  <2>2. PICK tx, code : MakeAdcBuf(tx, code)
    BY <1>5, <2>1, SoundPush DEF EnablePushed, EnableLatePush, Sound
  <2> QED
    BY <2>1, <2>2, MakeInPlace
<1>6. ASSUME NEW n \in RxSizes, qnicll_set_rx_buf_sz_samps(n)
      PROVE  BlocksInPlace' /\ GotIsNext'
  <2>1. pc' = "idle" /\ last'.op # "get" /\ UNCHANGED <<adc, count>>
    BY <1>6 DEF qnicll_set_rx_buf_sz_samps, Returns
  <2>2. st'.adc_filled = st.adc_filled /\ st'.adc_occ = st.adc_occ
    BY <1>6 DEF qnicll_set_rx_buf_sz_samps
  <2> QED
    BY <2>1, <2>2, NotGot, StayInPlace
<1>7. ASSUME NEW n \in BufCounts, qnicll_set_num_kernel_rx_bufs(n)
      PROVE  BlocksInPlace' /\ GotIsNext'
  <2>1. pc' = "idle" /\ last'.op # "get" /\ UNCHANGED <<st, count>>
    BY <1>7 DEF qnicll_set_num_kernel_rx_bufs, Returns
  <2>2. adc'.open = adc.open /\ adc'.full = adc.full /\ adc'.next = adc.next
        /\ adc'.cur = adc.cur
    BY <1>7 DEF qnicll_set_num_kernel_rx_bufs
  <2> QED
    BY <2>1, <2>2, NotGot, StayInPlace
<1>8. CASE qnicll_get_filled_rx_buf \/ qnicll_return_rx_buf
  <2>1. adc.open /\ st.adc_buf
    BY <1>8, SoundReceive DEF BuffersKnown, qnicll_get_filled_rx_buf, qnicll_return_rx_buf
  <2> QED
    BY <1>8, <2>1, GetInPlace, ReturnInPlace
<1> QED
  BY <1>1, <1>2, <1>3, <1>4, <1>5, <1>6, <1>7, <1>8 DEF Calls

LEMMA RefilledInPlace ==
  ASSUME TypeOK, adc.open, BlocksInPlace, Refilled
  PROVE  BlocksInPlace' /\ GotIsNext'
<1> USE DEF TypeOK, StTypes, AdcTypes
<1> DEFINE first == Head(adc.full)
<1>1. pc \in {"get", "return"} /\ adc.open /\ ~st.adc_filled /\ adc.full # <<>>
  BY DEF Refilled, BlocksInPlace
<1>2. first = [ses |-> count.ses, seq |-> count.taken + 1]
  BY <1>1, FirstIsNext
<1>3. adc'.open /\ adc'.next = adc.next /\ adc'.full = Tail(adc.full) /\ adc'.cur = first
  BY <1>1 DEF Refilled
<1>4. count'.ses = count.ses =>
        /\ adc'.next - 1 - Len(adc'.full) = count.taken + 1
        /\ \A i \in 1..Len(adc'.full) :
             adc'.full[i] = [ses |-> count'.ses, seq |-> adc'.next - 1 - Len(adc'.full) + i]
  BY <1>1, <1>3, TailInPlace
<1>5. CASE pc = "get"
  <2>1. Deliver(first, first)
    BY <1>5 DEF Refilled
  <2>2. GotIsNext' /\ pc' = "idle" /\ ~st'.adc_filled
        /\ count'.ses = count.ses /\ count'.taken = count.taken + 1
    BY <1>2, <1>3, <2>1, DeliverInPlace
  <2>3. adc'.next - 1 - Len(adc'.full) = count'.taken + (IF st'.adc_filled THEN 1 ELSE 0)
    BY <1>4, <2>2
  <2> QED
    BY <1>3, <1>4, <2>2, <2>3 DEF BlocksInPlace
<1>6. CASE pc = "return"
  <2>1. st' = [st EXCEPT !.adc_filled = TRUE, !.adc_occ = first] /\ UNCHANGED count
        /\ pc' = "idle" /\ last'.op # "get"
    BY <1>6 DEF Refilled, Returns
  <2>2. st'.adc_filled /\ st'.adc_occ = first
    BY <2>1
  <2>3. adc'.next - 1 - Len(adc'.full) = count'.taken + (IF st'.adc_filled THEN 1 ELSE 0)
    BY <1>4, <2>1, <2>2
  <2>4. BlocksInPlace'
    BY <1>2, <1>3, <1>4, <2>1, <2>2, <2>3 DEF BlocksInPlace
  <2> QED
    BY <2>1, <2>4, NotGot
<1> QED
  BY <1>1, <1>5, <1>6

LEMMA AdcInPlace ==
  ASSUME TypeOK, BlocksInPlace, GotIsNext, AdcFillsBlock
  PROVE  BlocksInPlace' /\ GotIsNext'
<1> DEFINE new == [ses |-> count.ses, seq |-> adc.next]
<1>1. adc.full \in Seq(Blocks) /\ Len(adc.full) \in Nat /\ adc.next \in Int
      /\ count.taken \in Int /\ adc.open
  BY DEF TypeOK, AdcTypes, AdcFillsBlock
<1>2. adc'.open = adc.open /\ adc'.cur = adc.cur /\ adc'.next = adc.next + 1
      /\ adc'.full = Append(adc.full, new) /\ UNCHANGED <<st, pc, last, got, count>>
  BY DEF AdcFillsBlock, TypeOK, AdcTypes
<1>3. Len(adc'.full) = Len(adc.full) + 1 /\ adc'.full[Len(adc.full) + 1] = new
      /\ \A i \in 1..Len(adc.full) : adc'.full[i] = adc.full[i]
  <2> DEFINE f == adc.full
  <2>1. f \in Seq(Blocks) \/ f \in Seq(Blocks \cup {new})
    BY <1>1
  <2> HIDE DEF f, new
  <2>2. Len(Append(f, new)) = Len(f) + 1 /\ Append(f, new)[Len(f) + 1] = new
        /\ \A i \in 1..Len(f) : Append(f, new)[i] = f[i]
    BY <2>1
  <2> QED
    BY <1>2, <2>2 DEF f
<1>4. adc'.next - 1 - Len(adc'.full) = adc.next - 1 - Len(adc.full)
  <2>1. (adc.next + 1) - 1 - (Len(adc.full) + 1) = adc.next - 1 - Len(adc.full)
    BY <1>1
  <2> QED
    BY <1>2, <1>3, <2>1
<1>5. ASSUME NEW i \in 1..Len(adc'.full)
      PROVE  adc'.full[i] = [ses |-> count'.ses, seq |-> adc'.next - 1 - Len(adc'.full) + i]
  <2>1. CASE i \in 1..Len(adc.full)
    BY <1>2, <1>3, <1>4, <2>1 DEF BlocksInPlace
  <2>2. CASE i = Len(adc.full) + 1
    <3>1. adc'.next - 1 - Len(adc'.full) + i = adc.next
      BY <1>1, <1>4, <2>2
    <3> QED
      BY <1>2, <1>3, <2>2, <3>1
  <2> QED
    BY <1>1, <1>3, <2>1, <2>2
<1>6. BlocksInPlace'
  BY <1>1, <1>2, <1>4, <1>5 DEF BlocksInPlace
<1>7. GotIsNext'
  BY <1>2 DEF GotIsNext, Succeeded, LastWas
<1> QED
  BY <1>6, <1>7

LEMMA StepInPlace ==
  Drains /\ TypeOK /\ BuffersKnown /\ BlocksInPlace /\ GotIsNext /\ [Next]_vars
    => BlocksInPlace' /\ GotIsNext'
<1> SUFFICES ASSUME Drains, TypeOK, BuffersKnown, BlocksInPlace, GotIsNext, [Next]_vars
             PROVE  BlocksInPlace' /\ GotIsNext'
  OBVIOUS
<1>1. CASE RefillFails
  <2>1. pc' = "idle" /\ last'.code = QNICLL_ERR_BUG /\ UNCHANGED <<st, adc, count>>
    BY <1>1 DEF RefillFails, Returns
  <2> QED
    BY <2>1, NotGot, StayInPlace
<1>2. CASE UNCHANGED vars
  BY <1>2 DEF vars, BlocksInPlace, GotIsNext, Succeeded, LastWas
<1>3. Refilled => adc.open
  BY DEF Refilled, BuffersKnown
<1> QED
  BY <1>1, <1>2, <1>3, CallsInPlace, RefilledInPlace, AdcInPlace DEF Next

(***************************************************************************)
(* Every block captured is taken, fetched or queued, in order, and nothing *)
(* of a session is left after it.                                          *)
(***************************************************************************)
THEOREM EveryBlockIsInPlace == Drains => (Spec => [](BlocksInPlace /\ GotIsNext))
<1> SUFFICES ASSUME Drains PROVE Spec => [](BlocksInPlace /\ GotIsNext)
  OBVIOUS
<1>1. Init => BlocksInPlace /\ GotIsNext
  BY DEF Init, BlocksInPlace, GotIsNext, Succeeded, LastWas
<1>2. TypeOK /\ BuffersKnown /\ BlocksInPlace /\ GotIsNext /\ [Next]_vars
        => (BlocksInPlace /\ GotIsNext)'
  BY StepInPlace
<1>3. Spec => []BuffersKnown
  BY BuffersAreKnown, PTL DEF Drains
<1> QED
  BY <1>1, <1>2, <1>3, DatapathTyped, PTL DEF Spec

(***************************************************************************)
(* Every qnicll_get_filled_rx_buf() returns the next block of the session: *)
(* none is skipped or repeated, and its size is its own.                   *)
(***************************************************************************)
THEOREM EveryBlockInOrder == Drains => (Spec => []GotIsNext)
<1> QED
  BY EveryBlockIsInPlace, PTL

-----------------------------------------------------------------------------
(* The data path implements the receive stream: each step is one of its    *)
(* steps, or changes nothing that it speaks of.                            *)

\* A step that leaves the receive side as it is, but for a block that it gives back
LEMMA StreamStutter ==
  ASSUME adc'.open = adc.open, adc'.bufs = adc.bufs, adc'.next = adc.next,
         count'.ses = count.ses, count'.taken = count.taken, got' = got
  PROVE  UNCHANGED Stream!vars
BY DEF Stream!vars

LEMMA StreamTake ==
  ASSUME TypeOK, BlocksInPlace, adc.open, st.adc_filled \/ adc.full # <<>>,
         adc'.open, adc'.bufs = adc.bufs, adc'.next = adc.next, NEW occ,
         Deliver([ses |-> count.ses, seq |-> count.taken + 1], occ)
  PROVE  Stream!Take
<1>1. adc.full \in Seq(Blocks) /\ Len(adc.full) \in Nat /\ adc.next \in Int
      /\ count.taken \in Int /\ count.ses \in Int
  BY DEF TypeOK, AdcTypes
<1>2. count.taken < adc.next - 1
  <2>1. CASE st.adc_filled
    <3>1. adc.next - 1 - Len(adc.full) = count.taken + 1
      BY <2>1, Zenon DEF BlocksInPlace
    <3> QED
      BY <1>1, <3>1
  <2>2. CASE ~st.adc_filled
    <3>1. adc.next - 1 - Len(adc.full) = count.taken + 0
      BY <2>2, Zenon DEF BlocksInPlace
    <3>2. Len(adc.full) > 0
      BY <1>1, <2>2
    <3> QED
      BY <1>1, <3>1, <3>2
  <2> QED
    BY <2>1, <2>2
<1>3. count'.ses = count.ses /\ count'.taken = count.taken + 1
      /\ got'.ptr = [ses |-> count.ses, seq |-> count.taken + 1]
  BY DEF Deliver, TypeOK
<1>4. adc.open = TRUE /\ adc'.open = adc.open
  BY DEF TypeOK, AdcTypes
<1> QED
  BY <1>2, <1>3, <1>4 DEF Stream!Take

LEMMA StreamCalls ==
  Drains /\ TypeOK /\ BuffersKnown /\ BlocksInPlace /\ Calls => [Stream!Next]_(Stream!vars)
<1> SUFFICES ASSUME Drains, TypeOK, BuffersKnown, BlocksInPlace, Calls
             PROVE  Stream!Next \/ UNCHANGED Stream!vars
  OBVIOUS
<1> USE DEF TypeOK, StTypes, AdcTypes, Drains
<1>1. CASE qnicll_init
  <2>1. UNCHANGED <<adc, got>> /\ count'.ses = count.ses /\ count'.taken = count.taken
    BY <1>1 DEF qnicll_init
  <2> QED
    BY <2>1, StreamStutter
<1>2. CASE qnicll_done \/ Disable
  <2>1. adc' = (IF st.adc_buf THEN AdcClosed ELSE adc) /\ UNCHANGED <<got, count>> /\ app.up
    BY <1>2 DEF qnicll_done, Disable, MayCall
  <2>2. CASE st.adc_buf
    <3>1. adc.open = TRUE
      BY <2>1, <2>2 DEF BuffersKnown
    <3>2. adc'.open = FALSE /\ adc'.bufs = adc.bufs /\ adc'.next = adc.next
      BY <2>1, <2>2 DEF AdcClosed
    <3> QED
      BY <2>1, <3>1, <3>2 DEF Stream!Next, Stream!Stop
  <2>3. CASE ~st.adc_buf
    BY <2>1, <2>3, StreamStutter
  <2> QED
    BY <2>2, <2>3
<1>3. CASE qnicll_push_tx_buf \/ (\E n \in TxSizes : qnicll_set_tx_buf_sz_samps(n))
             \/ (\E n \in RxSizes : qnicll_set_rx_buf_sz_samps(n))
  <2>1. UNCHANGED <<adc, got, count>>
    BY <1>3 DEF qnicll_push_tx_buf, qnicll_set_tx_buf_sz_samps, qnicll_set_rx_buf_sz_samps
  <2> QED
    BY <2>1, StreamStutter
<1>4. CASE EnablePushed \/ EnableLatePush
  <2>1. MayEnable /\ ~adc.open /\ st.dac_buf
    BY <1>4, SoundEnable DEF EnablePushed, EnableLatePush, BuffersKnown
  <2>2. (\E tx, code : MakeAdcBuf(tx, code)) /\ UNCHANGED got
    BY <1>4, <2>1, SoundPush DEF EnablePushed, EnableLatePush, Sound
  <2>3. ASSUME adc' = [adc EXCEPT !.open = TRUE, !.next = 1],
               count' = [count EXCEPT !.ses = @ + 1, !.taken = 0]
        PROVE  Stream!Start
    <3>1. adc.open = FALSE /\ adc'.open = TRUE /\ adc'.bufs = adc.bufs /\ adc'.next - 1 = 0
      BY <2>1, <2>3
    <3>2. count'.ses = count.ses + 1 /\ count'.taken = 0
      BY <2>3
    <3> QED
      BY <2>2, <3>1, <3>2 DEF Stream!Start
  <2>4. ASSUME UNCHANGED <<adc, count>> PROVE UNCHANGED Stream!vars
    BY <2>2, <2>4, StreamStutter
  <2> QED
    BY <2>2, <2>3, <2>4 DEF MakeAdcBuf, Stream!Next
<1>5. ASSUME NEW n \in BufCounts, qnicll_set_num_kernel_rx_bufs(n)
      PROVE  Stream!Next \/ UNCHANGED Stream!vars
  <2>1. UNCHANGED <<got, count>>
    BY <1>5 DEF qnicll_set_num_kernel_rx_bufs
  <2>2. CASE adc' = [adc EXCEPT !.bufs = n] /\ ~adc.open
    <3>1. adc'.bufs = n /\ adc'.open = adc.open /\ adc'.next = adc.next
          /\ adc.open = FALSE /\ n \in Nat \ {0}
      BY <2>2, Numbers
    <3> QED
      BY <2>1, <3>1 DEF Stream!Next, Stream!Resize
  <2>3. CASE adc' = adc
    BY <2>1, <2>3, StreamStutter
  <2> QED
    BY <1>5, <2>2, <2>3 DEF qnicll_set_num_kernel_rx_bufs
<1>enter. ASSUME NEW caller, EnterRefill(caller), st.adc_buf PROVE UNCHANGED Stream!vars
  <2>1. adc' = [adc EXCEPT !.cur = NoBlock] /\ UNCHANGED <<got, count>>
    BY <1>enter DEF EnterRefill
  <2>2. adc'.open = adc.open /\ adc'.bufs = adc.bufs /\ adc'.next = adc.next
    BY <2>1
  <2> QED
    BY <2>1, <2>2, StreamStutter
<1>6. CASE qnicll_get_filled_rx_buf
  <2>1. adc.open /\ st.adc_buf
    BY <1>6, SoundReceive DEF BuffersKnown, qnicll_get_filled_rx_buf
  <2>2. CASE st.adc_filled
    <3>1. Deliver(adc.cur, st.adc_occ) /\ UNCHANGED adc
      BY <1>6, <2>1, <2>2 DEF qnicll_get_filled_rx_buf
    <3>2. adc.cur = [ses |-> count.ses, seq |-> count.taken + 1]
      BY <2>2 DEF BlocksInPlace
    <3> QED
      BY <2>1, <2>2, <3>1, <3>2, StreamTake DEF Stream!Next
  <2> QED
    BY <1>6, <1>enter, <2>1, <2>2 DEF qnicll_get_filled_rx_buf
<1>7. CASE qnicll_return_rx_buf
  <2>1. adc.open /\ st.adc_buf
    BY <1>7, SoundReceive DEF BuffersKnown, qnicll_return_rx_buf
  <2>2. CASE st.adc_filled
    BY <1>7, <2>2, StreamStutter DEF qnicll_return_rx_buf
  <2> QED
    BY <1>7, <1>enter, <2>1, <2>2 DEF qnicll_return_rx_buf
<1> QED
  BY <1>1, <1>2, <1>3, <1>4, <1>5, <1>6, <1>7 DEF Calls

LEMMA StreamStep ==
  Drains /\ TypeOK /\ BuffersKnown /\ BlocksInPlace /\ [Next]_vars
    => [Stream!Next]_(Stream!vars)
<1> SUFFICES ASSUME Drains, TypeOK, BuffersKnown, BlocksInPlace, [Next]_vars
             PROVE  Stream!Next \/ UNCHANGED Stream!vars
  OBVIOUS
<1> USE DEF TypeOK, StTypes, AdcTypes
<1>1. CASE Calls
  BY <1>1, StreamCalls
<1>2. CASE Refilled
  <2>1. adc.open /\ adc.full # <<>> /\ ~st.adc_filled
    BY <1>2 DEF Refilled, BuffersKnown, BlocksInPlace
  <2>2. adc'.open = adc.open /\ adc'.bufs = adc.bufs /\ adc'.next = adc.next
    BY <1>2 DEF Refilled
  <2>3. CASE pc = "get"
    <3>1. Head(adc.full) = [ses |-> count.ses, seq |-> count.taken + 1]
      BY <2>1, FirstIsNext
    <3>2. Deliver([ses |-> count.ses, seq |-> count.taken + 1], Head(adc.full))
      BY <1>2, <2>3, <3>1 DEF Refilled
    <3> QED
      BY <2>1, <2>2, <3>2, StreamTake DEF Stream!Next
  <2>4. CASE pc # "get"
    BY <1>2, <2>2, <2>4, StreamStutter DEF Refilled
  <2> QED
    BY <2>3, <2>4
<1>3. CASE RefillFails
  BY <1>3, StreamStutter DEF RefillFails
<1>4. CASE AdcFillsBlock
  <2>1. adc.full \in Seq(Blocks) /\ Len(adc.full) \in Nat /\ adc.next \in Int
        /\ adc.bufs \in Int /\ count.taken \in Int /\ adc.open = TRUE
    BY <1>4 DEF AdcFillsBlock
  <2>2. adc'.open = adc.open /\ adc'.bufs = adc.bufs /\ adc'.next = adc.next + 1
        /\ UNCHANGED <<got, count>>
    BY <1>4 DEF AdcFillsBlock
  <2>3. adc.next - 1 - count.taken < adc.bufs
    <3>1. CASE st.adc_filled
      <4>1. adc.next - 1 - Len(adc.full) = count.taken + 1
        BY <2>1, <3>1, Zenon DEF BlocksInPlace
      <4>2. adc.cur # NoBlock
        BY <2>1, <3>1 DEF BlocksInPlace, NoBlock
      <4>3. Len(adc.full) + 1 < adc.bufs
        BY <1>4, <4>2, Zenon DEF AdcFillsBlock
      <4> QED
        BY <2>1, <4>1, <4>3
    <3>2. CASE ~st.adc_filled
      <4>1. adc.next - 1 - Len(adc.full) = count.taken + 0
        BY <2>1, <3>2, Zenon DEF BlocksInPlace
      <4>2. \E k \in {0, 1} : Len(adc.full) + k < adc.bufs
        BY <1>4 DEF AdcFillsBlock
      <4> QED
        BY <2>1, <4>1, <4>2
    <3> QED
      BY <3>1, <3>2
  <2>4. Stream!Capture
    BY <2>1, <2>2, <2>3 DEF Stream!Capture
  <2> QED
    BY <2>4 DEF Stream!Next
<1>5. CASE UNCHANGED vars
  BY <1>5, StreamStutter DEF vars
<1> QED
  BY <1>1, <1>2, <1>3, <1>4, <1>5 DEF Next

(***************************************************************************)
(* For an application that keeps to the rules, qnicll.c's receive side is  *)
(* the stream of blocks that qnicll.h describes (lines 437 to 480).        *)
(***************************************************************************)
THEOREM ReceivesTheStream == Drains => (Spec => ImplementsStream)
<1> SUFFICES ASSUME Drains PROVE Spec => Stream!Spec
  BY DEF ImplementsStream
<1>1. Init => Stream!Init
  BY Numbers DEF Init, Stream!Init, NoBlock
<1>2. TypeOK /\ BuffersKnown /\ BlocksInPlace /\ [Next]_vars => [Stream!Next]_(Stream!vars)
  BY StreamStep
<1>3. Spec => []BuffersKnown
  BY BuffersAreKnown, PTL DEF Drains
<1>4. Spec => []BlocksInPlace
  BY EveryBlockIsInPlace, PTL
<1> QED
  BY <1>1, <1>2, <1>3, <1>4, DatapathTyped, PTL DEF Spec, Stream!Spec

-----------------------------------------------------------------------------
(* Whatever the application does and whatever fails, blocks leave the      *)
(* queue of libiio in the order in which they were captured, and what is   *)
(* in user space is not what the application got before.                   *)

\* The number of the last block that left the queue
Fetched == adc.next - 1 - Len(adc.full)

InQueue ==
  /\ ~adc.open => adc.full = <<>> /\ adc.cur = NoBlock
  /\ \A i \in 1..Len(adc.full) : adc.full[i] = [ses |-> count.ses, seq |-> Fetched + i]
  /\ Fetched >= 0
  /\ got.ptr.ses <= count.ses
  /\ got.ptr.ses = count.ses => got.ptr.seq <= Fetched
  /\ adc.cur # NoBlock =>
       /\ adc.cur.ses = count.ses /\ adc.cur.seq <= Fetched
       /\ st.adc_filled /\ got.ptr.ses = count.ses => got.ptr.seq < adc.cur.seq

LEMMA QueueTypes ==
  ASSUME TypeOK
  PROVE  /\ adc.full \in Seq(Blocks) /\ Len(adc.full) \in Nat /\ adc.next \in Nat
         /\ Fetched \in Int /\ count.ses \in Int
         /\ got.ptr.ses \in Int /\ got.ptr.seq \in Int /\ adc.cur.seq \in Int
         /\ st \in StTypes /\ adc \in AdcTypes /\ got \in [ptr : Blocks, occ : Blocks]
         /\ count \in [init : Nat, ses : 0..MaxSes, taken : Nat]
<1>1. /\ st \in StTypes /\ adc \in AdcTypes /\ got \in [ptr : Blocks, occ : Blocks]
      /\ count \in [init : Nat, ses : 0..MaxSes, taken : Nat]
  BY DEF TypeOK
<1>2. /\ adc.full \in Seq(Blocks) /\ adc.next \in 1..MaxBlocks+1 /\ adc.cur \in Blocks
      /\ got.ptr \in Blocks
  BY <1>1 DEF AdcTypes
<1>3. Len(adc.full) \in Nat /\ adc.next \in Nat
  BY <1>2, Numbers
<1> QED
  BY <1>1, <1>2, <1>3 DEF Fetched, Blocks

LEMMA QueueStays ==
  ASSUME InQueue, adc'.open = adc.open, adc'.full = adc.full, adc'.next = adc.next,
         \/ adc'.cur = NoBlock
         \/ adc'.cur = adc.cur /\ (st'.adc_filled => st.adc_filled),
         got' = got, count'.ses = count.ses
  PROVE  InQueue'
BY DEF InQueue, Fetched

LEMMA QueueClosed ==
  ASSUME TypeOK, InQueue, adc' = AdcClosed, got' = got, count' = count
  PROVE  InQueue'
<1>1. /\ adc'.full = <<>> /\ adc'.cur = NoBlock /\ adc'.next = adc.next
  BY QueueTypes DEF AdcClosed, AdcTypes
<1>2. Fetched' = adc.next - 1 /\ Fetched <= Fetched' /\ Fetched' >= 0
  BY <1>1, QueueTypes DEF Fetched, InQueue
<1> QED
  BY <1>1, <1>2, QueueTypes DEF InQueue

LEMMA QueueMade ==
  ASSUME TypeOK, InQueue, NEW tx, NEW code, MakeAdcBuf(tx, code), got' = got
  PROVE  InQueue'
<1>1. CASE adc' = adc /\ count' = count /\ st'.adc_filled = st.adc_filled
  BY <1>1, QueueStays
<1>2. CASE /\ ~adc.open /\ adc' = [adc EXCEPT !.open = TRUE, !.next = 1]
           /\ count' = [count EXCEPT !.ses = @ + 1, !.taken = 0]
  <2>1. /\ adc'.full = <<>> /\ adc'.cur = NoBlock /\ adc'.next = 1 /\ adc'.open = TRUE
        /\ count'.ses = count.ses + 1
    <3>1. adc.full = <<>> /\ adc.cur = NoBlock
      BY <1>2 DEF InQueue
    <3>2. count'.ses = count.ses + 1
      BY <1>2, QueueTypes
    <3> QED
      BY <1>2, <3>1, <3>2, QueueTypes DEF AdcTypes
  <2>2. Fetched' = 0
    <3>1. Len(adc'.full) = 0
      BY <2>1, EmptyTyped
    <3>2. Fetched' = adc'.next - 1 - Len(adc'.full)
      BY DEF Fetched
    <3> QED
      BY <2>1, <3>1, <3>2
  <2>3. got'.ptr.ses <= count'.ses /\ got'.ptr.ses # count'.ses
    BY <2>1, QueueTypes DEF InQueue
  <2> QED
    BY <2>1, <2>2, <2>3 DEF InQueue
<1>3. ASSUME NEW made \in CreateOutcomes(adc.open, Quads(st.rx_sz)), made
      PROVE  ~adc.open
  BY <1>3 DEF CreateOutcomes
<1>4. st'.adc_filled = st.adc_filled
  BY QueueTypes DEF MakeAdcBuf, StTypes
<1> QED
  BY <1>1, <1>2, <1>3, <1>4 DEF MakeAdcBuf

LEMMA QueueEntered ==
  ASSUME TypeOK, InQueue, NEW caller, EnterRefill(caller)
  PROVE  InQueue'
<1>1. CASE Crash
  BY <1>1, QueueStays DEF Crash
<1>2. CASE ~Crash
  <2>1. adc' = [adc EXCEPT !.cur = NoBlock] /\ UNCHANGED <<st, got, count>>
    BY <1>2 DEF EnterRefill
  <2>2. adc'.open = adc.open /\ adc'.full = adc.full /\ adc'.next = adc.next
        /\ adc'.cur = NoBlock
    BY <2>1, QueueTypes DEF AdcTypes
  <2> QED
    BY <2>1, <2>2, QueueStays
<1> QED
  BY <1>1, <1>2

\* The block in user space, if there is one, is newer than what was got before.
LEMMA CurrentGot ==
  ASSUME TypeOK, InQueue, qnicll_get_filled_rx_buf, st.adc_filled, st.adc_buf
  PROVE  /\ InQueue'
         /\ got'.ptr # NoBlock /\ got'.ptr.ses = got.ptr.ses => got'.ptr.seq > got.ptr.seq
<1>1. Deliver(adc.cur, st.adc_occ) /\ UNCHANGED adc
  BY DEF qnicll_get_filled_rx_buf
<1>2. got'.ptr = adc.cur /\ st'.adc_filled = FALSE /\ count'.ses = count.ses
  BY <1>1, QueueTypes DEF Deliver, StTypes
<1>3. Fetched' = Fetched
  BY <1>1 DEF Fetched
<1>4. ASSUME adc.cur = NoBlock
      PROVE  /\ got'.ptr.ses <= count.ses
             /\ got'.ptr.ses = count.ses => got'.ptr.seq <= Fetched
  <2>1. got'.ptr.ses = 0 /\ got'.ptr.seq = 0
    BY <1>2, <1>4 DEF NoBlock
  <2>2. count.ses >= 0 /\ Fetched >= 0
    BY QueueTypes DEF InQueue
  <2> QED
    BY <2>1, <2>2
<1> QED
  BY <1>1, <1>2, <1>3, <1>4, QueueTypes DEF InQueue

LEMMA QueueCalls ==
  ASSUME TypeOK, InQueue, Calls
  PROVE  InQueue' \/ (qnicll_get_filled_rx_buf /\ st.adc_filled /\ st.adc_buf)
<1>1. CASE qnicll_init
  <2>1. UNCHANGED <<adc, got>> /\ count'.ses = count.ses /\ st'.adc_filled = st.adc_filled
    BY <1>1, QueueTypes DEF qnicll_init, StTypes
  <2> QED
    BY <2>1, QueueStays
<1>2. CASE qnicll_done \/ Disable
  <2>1. /\ UNCHANGED <<got, count>> /\ st'.adc_filled = st.adc_filled
        /\ adc' = AdcClosed \/ adc' = adc
    BY <1>2, QueueTypes DEF qnicll_done, Disable, StTypes
  <2> QED
    BY <2>1, QueueStays, QueueClosed
<1>3. ASSUME NEW n \in TxSizes, qnicll_set_tx_buf_sz_samps(n) PROVE InQueue'
  <2>1. UNCHANGED <<adc, got, count>> /\ st'.adc_filled = st.adc_filled
    BY <1>3, QueueTypes DEF qnicll_set_tx_buf_sz_samps, StTypes
  <2> QED
    BY <2>1, QueueStays
<1>4. CASE qnicll_push_tx_buf
  <2>1. UNCHANGED <<adc, got, count>> /\ st'.adc_filled = st.adc_filled
    BY <1>4, QueueTypes DEF qnicll_push_tx_buf, StTypes
  <2> QED
    BY <2>1, QueueStays
<1>5. CASE EnablePushed \/ EnableLatePush
  <2>1. \/ \E tx, code : MakeAdcBuf(tx, code) /\ got' = got
        \/ UNCHANGED <<st, adc, got, count>>
    BY <1>5 DEF EnablePushed, EnableLatePush, Crash, EnableEnds
  <2> QED
    BY <2>1, QueueMade, QueueStays
<1>6. ASSUME NEW n \in RxSizes, qnicll_set_rx_buf_sz_samps(n) PROVE InQueue'
  <2>1. UNCHANGED <<adc, got, count>> /\ st'.adc_filled = st.adc_filled
    BY <1>6, QueueTypes DEF qnicll_set_rx_buf_sz_samps, StTypes
  <2> QED
    BY <2>1, QueueStays
<1>7. ASSUME NEW n \in BufCounts, qnicll_set_num_kernel_rx_bufs(n) PROVE InQueue'
  <2>1. UNCHANGED <<st, got, count>> /\ (adc' = adc \/ adc' = [adc EXCEPT !.bufs = n])
    BY <1>7 DEF qnicll_set_num_kernel_rx_bufs
  <2>2. adc'.open = adc.open /\ adc'.full = adc.full /\ adc'.next = adc.next /\ adc'.cur = adc.cur
    BY <2>1, QueueTypes DEF AdcTypes
  <2> QED
    BY <2>1, <2>2, QueueStays
<1>8. CASE qnicll_get_filled_rx_buf /\ ~(st.adc_filled /\ st.adc_buf)
  BY <1>8, QueueEntered, QueueStays DEF qnicll_get_filled_rx_buf, Crash
<1>9. CASE qnicll_return_rx_buf
  BY <1>9, QueueEntered, QueueStays DEF qnicll_return_rx_buf
<1> QED
  BY <1>1, <1>2, <1>3, <1>4, <1>5, <1>6, <1>7, <1>8, <1>9 DEF Calls

\* The first of the queue is newer than what was got before.
LEMMA QueueRefilled ==
  ASSUME TypeOK, InQueue, Refilled
  PROVE  InQueue' /\ (pc = "get" /\ got'.ptr.ses = got.ptr.ses => got'.ptr.seq > got.ptr.seq)
<1> DEFINE first == Head(adc.full)
           rest  == Tail(adc.full)
<1>1. /\ adc.full # <<>> /\ adc'.cur = first /\ adc'.full = rest
      /\ adc'.next = adc.next /\ adc'.open = adc.open
  BY QueueTypes DEF Refilled, AdcTypes
<1>2. Len(adc.full) \in Nat /\ Len(adc.full) # 0 /\ adc.full \in Seq(Blocks)
  BY <1>1, QueueTypes
<1>3. first = adc.full[1] /\ Len(rest) = Len(adc.full) - 1
      /\ \A i \in 1..Len(adc.full)-1 : rest[i] = adc.full[i+1]
  BY <1>2
<1>4. first = [ses |-> count.ses, seq |-> Fetched + 1]
  <2>1. 1 \in 1..Len(adc.full)
    BY <1>2
  <2> QED
    BY <1>3, <2>1 DEF InQueue
<1>5. adc.open /\ Fetched \in Int
  BY <1>1, QueueTypes DEF InQueue
<1>6. count'.ses = count.ses
  BY QueueTypes DEF Refilled, Deliver
<1> HIDE DEF first, rest
<1>7. Fetched' = Fetched + 1
  <2>1. adc.next - 1 - (Len(adc.full) - 1) = adc.next - 1 - Len(adc.full) + 1
    BY <1>2, QueueTypes
  <2> QED
    BY <1>1, <1>3, <2>1 DEF Fetched
<1>8. \A i \in 1..Len(rest) : rest[i] = [ses |-> count.ses, seq |-> Fetched' + i]
  <2> TAKE i \in 1..Len(rest)
  <2>1. i \in 1..Len(adc.full)-1 /\ i+1 \in 1..Len(adc.full)
    BY <1>2, <1>3
  <2>2. rest[i] = [ses |-> count.ses, seq |-> Fetched + (i+1)]
    BY <1>3, <2>1 DEF InQueue
  <2>3. Fetched + (i+1) = Fetched' + i
    BY <1>5, <1>7, <2>1
  <2> QED
    BY <2>2, <2>3
<1>9. first.ses = count.ses /\ first.seq = Fetched + 1
  BY <1>4
<1>10. CASE pc = "get"
  <2>1. got'.ptr = first /\ st'.adc_filled = FALSE
    <3>1. Deliver(first, first)
      BY <1>10 DEF Refilled, first
    <3> QED
      BY <3>1, QueueTypes DEF Deliver, StTypes
  <2>2. got.ptr.ses = count.ses => got.ptr.seq <= Fetched
    BY DEF InQueue
  <2>3. InQueue'
    BY <1>1, <1>5, <1>6, <1>7, <1>8, <1>9, <2>1, QueueTypes DEF InQueue
  <2>4. got.ptr.ses = got'.ptr.ses => got'.ptr.seq > got.ptr.seq
    BY <1>5, <1>9, <2>1, <2>2, QueueTypes
  <2> QED
    BY <2>3, <2>4
<1>11. CASE pc # "get"
  <2>1. got' = got
    BY <1>11 DEF Refilled
  <2>2. got.ptr.ses = count.ses => got.ptr.seq < first.seq
    BY <1>5, <1>9, QueueTypes DEF InQueue
  <2>3. InQueue'
    BY <1>1, <1>5, <1>6, <1>7, <1>8, <1>9, <2>1, <2>2, QueueTypes DEF InQueue
  <2> QED
    BY <1>11, <2>3
<1> QED
  BY <1>10, <1>11

LEMMA QueueFilled ==
  ASSUME TypeOK, InQueue, AdcFillsBlock
  PROVE  InQueue'
<1> DEFINE new == [ses |-> count.ses, seq |-> adc.next]
<1>1. /\ adc.open /\ adc'.open = adc.open /\ adc'.cur = adc.cur /\ adc'.next = adc.next + 1
      /\ adc'.full = Append(adc.full, new) /\ UNCHANGED <<st, got, count>>
  BY QueueTypes DEF AdcFillsBlock, AdcTypes
<1> HIDE DEF new
<1>2. /\ adc.full \in Seq(Blocks) /\ Len(adc.full) \in Nat /\ adc.next \in Nat
      /\ Fetched = adc.next - 1 - Len(adc.full)
  BY QueueTypes DEF Fetched
<1>3. /\ Len(adc'.full) = Len(adc.full) + 1
      /\ \A i \in 1..Len(adc.full)+1 :
           adc'.full[i] = IF i = Len(adc.full) + 1 THEN new ELSE adc.full[i]
  BY <1>1, <1>2
<1>4. Fetched' = Fetched /\ new = [ses |-> count.ses, seq |-> Fetched + (Len(adc.full) + 1)]
  <2>1. Fetched' = adc'.next - 1 - Len(adc'.full)
    BY DEF Fetched
  <2>2. Fetched' = Fetched /\ adc.next = Fetched + (Len(adc.full) + 1)
    BY <1>1, <1>2, <1>3, <2>1
  <2> QED
    BY <2>2 DEF new
<1>5. \A i \in 1..Len(adc'.full) : adc'.full[i] = [ses |-> count.ses, seq |-> Fetched' + i]
  <2> TAKE i \in 1..Len(adc'.full)
  <2>1. CASE i = Len(adc.full) + 1
    BY <1>3, <1>4, <2>1
  <2>2. CASE i # Len(adc.full) + 1
    <3>1. i \in 1..Len(adc.full) /\ adc'.full[i] = adc.full[i]
      BY <1>2, <1>3, <2>2
    <3> QED
      BY <1>4, <3>1 DEF InQueue
  <2> QED
    BY <2>1, <2>2
<1> QED
  BY <1>1, <1>4, <1>5 DEF InQueue

LEMMA InitInQueue == Init => InQueue
<1> SUFFICES ASSUME Init PROVE InQueue
  OBVIOUS
<1>1. adc.full = <<>> /\ adc.cur = NoBlock /\ adc.next = 1 /\ got.ptr = NoBlock /\ count.ses = 0
  BY DEF Init
<1>2. Len(adc.full) = 0
  BY <1>1, EmptyTyped
<1>3. Fetched = 0 /\ Len(adc.full) = 0
  <2>1. Fetched = adc.next - 1 - Len(adc.full)
    BY DEF Fetched
  <2> QED
    BY <1>1, <1>2, <2>1
<1>4. \A i \in 1..Len(adc.full) : adc.full[i] = [ses |-> count.ses, seq |-> Fetched + i]
  BY <1>3
<1>5. got.ptr.ses = 0 /\ got.ptr.seq = 0
  BY <1>1 DEF NoBlock
<1> QED
  BY <1>1, <1>3, <1>4, <1>5 DEF InQueue

LEMMA StepInQueue == TypeOK /\ InQueue /\ [Next]_vars => InQueue'
<1> SUFFICES ASSUME TypeOK, InQueue, [Next]_vars PROVE InQueue'
  OBVIOUS
<1>1. CASE RefillFails \/ UNCHANGED vars
  <2>1. UNCHANGED <<st, adc, got, count>>
    BY <1>1 DEF RefillFails, vars
  <2> QED
    BY <2>1, QueueStays
<1> QED
  BY <1>1, QueueCalls, CurrentGot, QueueRefilled, QueueFilled DEF Next

LEMMA OnlyDelivered ==
  ASSUME TypeOK, Next, count'.taken > count.taken
  PROVE  \/ qnicll_get_filled_rx_buf /\ st.adc_filled /\ st.adc_buf
         \/ Refilled /\ pc = "get"
<1>1. count.taken \in Nat /\ ~(count.taken > count.taken)
  BY QueueTypes
<1>2. ~ UNCHANGED count
  BY <1>1
<1>3. ASSUME NEW tx, NEW code, MakeAdcBuf(tx, code) PROVE FALSE
  <2>1. count'.taken = 0
    BY <1>2, <1>3, QueueTypes DEF MakeAdcBuf
  <2> QED
    BY <1>1, <2>1
<1>4. ~qnicll_init
  <2>1. qnicll_init => count'.taken = count.taken
    BY QueueTypes DEF qnicll_init
  <2> QED
    BY <1>1, <2>1
<1>5. ~(EnablePushed \/ EnableLatePush)
  BY <1>2, <1>3 DEF EnablePushed, EnableLatePush, Crash, EnableEnds
<1>6. \A caller : ~EnterRefill(caller)
  BY <1>2 DEF EnterRefill, Crash
<1>7. qnicll_get_filled_rx_buf => st.adc_filled /\ st.adc_buf
  BY <1>2, <1>6 DEF qnicll_get_filled_rx_buf, Crash
<1> QED
  BY <1>2, <1>4, <1>5, <1>6, <1>7
  DEF Next, Calls, qnicll_done, qnicll_set_tx_buf_sz_samps, qnicll_push_tx_buf, Disable,
      qnicll_set_rx_buf_sz_samps, qnicll_set_num_kernel_rx_bufs, qnicll_return_rx_buf,
      Refilled, RefillFails, AdcFillsBlock

(***************************************************************************)
(* In whatever order the functions are called and whatever fails, no block *)
(* reaches the application twice, and none after a later one of the same   *)
(* session.                                                                *)
(***************************************************************************)
THEOREM BlocksNeverOlder == Spec => NeverOlder
<1> DEFINE Newer == (count'.taken > count.taken /\ got'.ptr # NoBlock /\ got'.ptr.ses = got.ptr.ses)
                      => got'.ptr.seq > got.ptr.seq
<1>1. TypeOK /\ InQueue /\ [Next]_vars => [Newer]_vars
  <2> SUFFICES ASSUME TypeOK, InQueue, Next, count'.taken > count.taken, got'.ptr # NoBlock,
                      got'.ptr.ses = got.ptr.ses
               PROVE  got'.ptr.seq > got.ptr.seq
    OBVIOUS
  <2>1. CASE qnicll_get_filled_rx_buf /\ st.adc_filled /\ st.adc_buf
    BY <2>1, CurrentGot
  <2>2. CASE Refilled /\ pc = "get"
    BY <2>2, QueueRefilled
  <2> QED
    BY <2>1, <2>2, OnlyDelivered
<1>2. Spec => []InQueue
  BY InitInQueue, StepInQueue, DatapathTyped, PTL DEF Spec
<1> QED
  BY <1>1, <1>2, DatapathTyped, PTL DEF Spec, NeverOlder

=============================================================================
