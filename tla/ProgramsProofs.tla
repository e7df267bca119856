--------------------------- MODULE ProgramsProofs ---------------------------
(***************************************************************************)
(* Theorems about Programs, for any periods, quantities and pieces.        *)
(***************************************************************************)
EXTENDS Programs, DatapathProofs

-----------------------------------------------------------------------------
(* Where a program is, and what it has called. *)

Before == {"init", "cmd", "set", "tx", "push", "pd", "qty", "num", "rx", "open", "enable"}
During == {"get", "write", "return", "disable"}
After  == {"done", "exit0", "exit1"}

\* The data path and the program's own variables, of which the loop counters are
\* numbers.
Typed ==
  /\ TypeOK
  /\ prog \in Progs
  /\ at \in Before \cup During \cup After
  /\ loc \in [pd : Nat, qty : Nat, bufs : Nat, b_i : Nat]
  /\ hw \in [pd : Pds, qty : Qtys]
  /\ out \in [left : 0..Pieces, file : Seq(Blocks \X Nat)]
  /\ at \in {"qty", "num", "rx"} => loc.pd \in Pds
  /\ at \in {"num", "rx"} => loc.qty \in Qtys

\* Which calls were made before the one that comes next
Order ==
  /\ at = "cmd" => prog = "c"
  /\ at \in {"tx", "push", "write"} => prog = "tst"
  /\ at = "num" => prog = "n"
  /\ at \in Before => app.en = "off" /\ ~app.spent
  /\ at \in During => app.en = "on"
  /\ at \in {"set", "tx"} => prog # "c" /\ ~app.sized
  /\ at \in {"push", "pd", "qty", "rx", "open", "enable"} => prog = "n" \/ app.sized
  /\ pc \in {"get", "return"} => at = pc

LEMMA Amounts ==
  /\ Pds \subseteq Nat \ {0} /\ Qtys \subseteq Nat \ {0} /\ Pieces \in Nat \ {0}
  /\ Progs \subseteq {"tst", "n", "c"}
  /\ \A pd \in Pds, qty \in Qtys : pd * qty \in RxSizes
  /\ 1 \in BufCounts
BY ProgramsAssumption

\* Each step of a program is, for the data path, a step or a stutter.
LEMMA StepOfDatapath ==
  Typed /\ [ProgNext]_progvars => [Next]_vars
<1> SUFFICES ASSUME Typed, ProgNext PROVE [Next]_vars
  BY DEF progvars, vars
<1>1. CASE SetRxBufSize
  <2>1. CapLen \in RxSizes
    BY <1>1, Amounts DEF SetRxBufSize, CapLen, Typed
  <2> QED
    BY <1>1, <2>1 DEF SetRxBufSize, Next, Calls
<1>2. CASE SetNum
  BY <1>2, Amounts DEF SetNum, Next, Calls
<1>3. CASE MakeTxBuf
  BY <1>3 DEF MakeTxBuf, Next, Calls
<1>4. CASE Command \/ Set \/ SetPd \/ SetQty \/ OpenFile \/ WriteFile
  BY <1>4 DEF Command, Set, SetPd, SetQty, OpenFile, WriteFile, dpvars, vars
<1>5. CASE Connect \/ PushTxBuf \/ EnableTxRx \/ GetBlock \/ ReturnBlock \/ Resume
             \/ DisableTxRx \/ Finish \/ GivesUp \/ Capture
  BY <1>5 DEF Connect, PushTxBuf, EnableTxRx, GetBlock, ReturnBlock, Resume, DisableTxRx,
              Finish, GivesUp, Capture, Next, Calls
<1> QED
  BY <1>1, <1>2, <1>3, <1>4, <1>5 DEF ProgNext, ProgStep

LEMMA CeilDivNat == ASSUME NEW n \in Nat, NEW d \in Nat PROVE CeilDiv(n, d) \in Nat
<1>1. CASE d = 0
  BY <1>1 DEF CeilDiv
<1>2. CASE d # 0
  <2>1. n + d - 1 \in Nat
    BY <1>2
  <2> QED
    BY <1>2, <2>1 DEF CeilDiv
<1> QED
  BY <1>1, <1>2

LEMMA QuadsNat == ASSUME NEW n \in Nat PROVE Quads(n) \in Nat
BY DEF Quads

LEMMA InitTypedProg == ProgInit => Typed
<1> SUFFICES ASSUME ProgInit PROVE Typed
  OBVIOUS
<1>1. TypeOK
  BY InitTyped DEF ProgInit
<1>2. out \in [left : 0..Pieces, file : Seq(Blocks \X Nat)]
  <2>1. <<>> \in Seq(Blocks \X Nat)
    OBVIOUS
  <2> QED
    BY <2>1, Amounts DEF ProgInit
<1> QED
  BY <1>1, <1>2 DEF ProgInit, Typed, Before

\* What a call leaves of the program's variables, wherever C takes it
LEMMA SameLocals ==
  ASSUME Typed, TypeOK', prog' = prog, hw' = hw, loc' = loc, out' = out,
         at' \in (Before \cup During \cup After) \ {"qty", "num", "rx"}
  PROVE  Typed'
BY DEF Typed

LEMMA GotTyped ==
  ASSUME Typed, [Next]_vars, Got, at \in During
  PROVE  Typed'
<1>1. TypeOK'
  BY StepTyped DEF Typed
<1>2. at' \in During \cup {"exit1"}
  BY DEF Got, C, Typed, During
<1>3. out' \in [left : 0..Pieces, file : Seq(Blocks \X Nat)]
  <2>1. out' = [out EXCEPT !.left = Pieces]
    BY DEF Got
  <2>2. Pieces \in 0..Pieces
    BY Amounts
  <2> QED
    BY <2>1, <2>2 DEF Typed
<1> QED
  BY <1>1, <1>2, <1>3 DEF Got, Typed, Before, During, After

LEMMA ReturnedTyped ==
  ASSUME Typed, [Next]_vars, Returned, at \in During
  PROVE  Typed'
<1>1. TypeOK'
  BY StepTyped DEF Typed
<1>2. at' \in During \cup {"exit1"}
  BY DEF Returned, C, LoopFrom, Typed, During
<1>3. loc' \in [pd : Nat, qty : Nat, bufs : Nat, b_i : Nat]
  BY DEF Returned, Typed
<1> QED
  BY <1>1, <1>2, <1>3 DEF Returned, Typed, Before, During, After

\* The pieces that write() puts into the file
NewPieces(sz) == [i \in 1..sz |-> <<WhatIsThere, From + i - 1>>]

LEMMA NewPiecesAre ==
  ASSUME Typed, NEW sz \in 1..out.left
  PROVE  NewPieces(sz) \in Seq(Blocks \X Nat) /\ Len(NewPieces(sz)) = sz
<1>1. out.left \in 0..Pieces /\ Pieces \in Nat /\ sz \in Nat /\ out.left \in Nat
  BY Amounts DEF Typed
<1>2. WhatIsThere \in Blocks
  BY NoBlockTyped DEF WhatIsThere, Typed, TypeOK
<1>3. \A i \in 1..sz : From + i - 1 \in Nat
  BY <1>1 DEF From
<1> QED
  BY <1>1, <1>2, <1>3 DEF NewPieces

LEMMA WriteTyped == Typed /\ WriteFile => Typed'
<1> SUFFICES ASSUME Typed, WriteFile PROVE Typed'
  OBVIOUS
<1>1. UNCHANGED dpvars /\ UNCHANGED <<prog, loc, hw>>
  BY DEF WriteFile
<1>2. TypeOK'
  BY <1>1 DEF Typed, TypeOK, dpvars
<1>3. CASE at' = "exit1" /\ UNCHANGED out
  BY <1>1, <1>2, <1>3 DEF Typed, After
<1>4. ASSUME NEW sz \in 1..out.left, at' = Wrote(sz),
             out' = [left |-> out.left - sz,
                     file |-> out.file \o [i \in 1..sz |-> <<WhatIsThere, From + i - 1>>]]
      PROVE  Typed'
  <2>1. out.left \in 0..Pieces /\ Pieces \in Nat /\ out.file \in Seq(Blocks \X Nat)
    BY Amounts DEF Typed
  <2>2. NewPieces(sz) \in Seq(Blocks \X Nat)
    BY NewPiecesAre
  <2>3. out'.file = out.file \o NewPieces(sz) /\ out'.left = out.left - sz
    BY <1>4 DEF NewPieces
  <2>4. out.file \o NewPieces(sz) \in Seq(Blocks \X Nat)
    BY <2>1, <2>2
  <2>5. out' \in [left : 0..Pieces, file : Seq(Blocks \X Nat)]
    <3>1. out.left - sz \in 0..Pieces
      BY <2>1
    <3>2. out' = [left |-> out.left - sz, file |-> out.file \o NewPieces(sz)]
      BY <1>4 DEF NewPieces
    <3> QED
      BY <2>4, <3>1, <3>2
  <2>6. at' \in {"return", "write"}
    BY <1>4 DEF Wrote
  <2> QED
    BY <1>1, <1>2, <2>5, <2>6 DEF Typed, During
<1> QED
  BY <1>3, <1>4 DEF WriteFile

LEMMA StepTypedProg == Typed /\ Order /\ [ProgNext]_progvars => Typed'
<1> SUFFICES ASSUME Typed, Order, [ProgNext]_progvars PROVE Typed'
  OBVIOUS
<1>0. [Next]_vars /\ TypeOK'
  BY StepOfDatapath, StepTyped DEF Typed
<1>1. CASE Connect
  <2>1. at' \in {"init", "cmd", "set", "exit1"}
    BY <1>1 DEF Connect, C
  <2>2. prog' = prog /\ hw' = hw /\ loc' = loc /\ out' = out
    BY <1>1 DEF Connect
  <2> QED
    BY <1>0, <2>1, <2>2, SameLocals DEF Before, During, After
<1>2. CASE Command
  <2>1. at' \in {"exit0", "done", "exit1"}
    BY <1>2 DEF Command
  <2>2. prog' = prog /\ hw' = hw /\ loc' = loc /\ out' = out
    BY <1>2 DEF Command
  <2> QED
    BY <1>0, <2>1, <2>2, SameLocals DEF Before, During, After
<1>3. CASE Set
  <2>1. at' \in {"tx", "pd", "exit1"}
    BY <1>3 DEF Set
  <2>2. prog' = prog /\ hw' = hw /\ loc' = loc /\ out' = out
    BY <1>3 DEF Set
  <2> QED
    BY <1>0, <2>1, <2>2, SameLocals DEF Before, During, After
<1>4. CASE MakeTxBuf
  <2>1. at' \in {"tx", "pd", "push", "exit1"}
    BY <1>4 DEF MakeTxBuf, C
  <2>2. prog' = prog /\ hw' = hw /\ loc' = loc /\ out' = out
    BY <1>4 DEF MakeTxBuf
  <2> QED
    BY <1>0, <2>1, <2>2, SameLocals DEF Before, During, After
<1>5. CASE PushTxBuf
  <2>1. at' \in {"push", "pd", "exit1"}
    BY <1>5 DEF PushTxBuf, C
  <2>2. prog' = prog /\ hw' = hw /\ loc' = loc /\ out' = out
    BY <1>5 DEF PushTxBuf
  <2> QED
    BY <1>0, <2>1, <2>2, SameLocals DEF Before, During, After
<1>6. CASE SetPd
  BY <1>0, <1>6, Amounts DEF SetPd, Typed, Before, After
<1>7. CASE SetQty
  BY <1>0, <1>7, Amounts DEF SetQty, Typed, Before, After
<1>8. CASE SetNum
  <2>1. at' \in {"num", "rx", "exit1"} /\ at = "num"
    BY <1>8 DEF SetNum, C
  <2>2. prog' = prog /\ hw' = hw /\ loc' = loc /\ out' = out
    BY <1>8 DEF SetNum
  <2> QED
    BY <1>0, <2>1, <2>2 DEF Typed, Before, After
<1>9. CASE SetRxBufSize
  <2>1. CapLen \in Nat
    BY <1>9, Amounts DEF SetRxBufSize, CapLen, Typed
  <2>2. st'.rx_sz = Quads(CapLen)
    BY <1>9 DEF SetRxBufSize, qnicll_set_rx_buf_sz_samps, Typed, TypeOK, StTypes
  <2>3. CeilDiv(CapLen, st'.rx_sz) \in Nat
    BY <2>1, <2>2, QuadsNat, CeilDivNat
  <2>4. loc' \in [pd : Nat, qty : Nat, bufs : Nat, b_i : Nat] /\ UNCHANGED <<prog, hw, out>>
    BY <1>9, <2>3 DEF SetRxBufSize, Typed
  <2>5. at' \in {"open", "enable", "exit1", "rx"} /\ at = "rx"
    BY <1>9 DEF SetRxBufSize, C
  <2>6. loc'.pd = loc.pd /\ loc'.qty = loc.qty
    BY <1>9 DEF SetRxBufSize, Typed
  <2> QED
    BY <1>0, <2>4, <2>5, <2>6 DEF Typed, Before, After
<1>10. CASE OpenFile
  <2>1. at' \in {"enable", "exit1"}
    BY <1>10 DEF OpenFile
  <2>2. prog' = prog /\ hw' = hw /\ loc' = loc /\ out' = out
    BY <1>10 DEF OpenFile
  <2> QED
    BY <1>0, <2>1, <2>2, SameLocals DEF Before, During, After
<1>11. CASE EnableTxRx
  <2>1. at' \in {"enable", "get", "disable", "exit1"}
    BY <1>11 DEF EnableTxRx, C, LoopFrom
  <2>2. prog' = prog /\ hw' = hw /\ loc' = loc /\ out' = out
    BY <1>11 DEF EnableTxRx
  <2> QED
    BY <1>0, <2>1, <2>2, SameLocals DEF Before, During, After
<1>12. CASE GetBlock
  BY <1>0, <1>12, GotTyped DEF GetBlock, During
<1>13. CASE ReturnBlock
  BY <1>0, <1>13, ReturnedTyped DEF ReturnBlock, During
<1>14. CASE WriteFile
  BY <1>14, WriteTyped
<1>15. CASE Resume
  <2>1. at \in {"get", "return"}
    BY <1>15 DEF Resume, Refilled, Order
  <2> QED
    BY <1>0, <1>15, <2>1, GotTyped, ReturnedTyped DEF Resume, During
<1>16. CASE GivesUp
  <2>1. at \in {"get", "return"}
    BY <1>16 DEF GivesUp, RefillFails, Order
  <2> QED
    BY <1>0, <1>16, <2>1, GotTyped, ReturnedTyped DEF GivesUp, During
<1>17. CASE DisableTxRx
  <2>1. at' \in {"disable", "done", "exit1"}
    BY <1>17 DEF DisableTxRx, C
  <2>2. prog' = prog /\ hw' = hw /\ loc' = loc /\ out' = out
    BY <1>17 DEF DisableTxRx
  <2> QED
    BY <1>0, <2>1, <2>2, SameLocals DEF Before, During, After
<1>18. CASE Finish
  <2>1. at' \in {"exit0"}
    BY <1>18 DEF Finish
  <2>2. prog' = prog /\ hw' = hw /\ loc' = loc /\ out' = out
    BY <1>18 DEF Finish
  <2> QED
    BY <1>0, <2>1, <2>2, SameLocals DEF Before, During, After
<1>19. CASE Capture
  BY <1>0, <1>19 DEF Capture, Typed
<1>20. CASE UNCHANGED progvars
  BY <1>0, <1>20 DEF progvars, Typed
<1> QED
  BY <1>1, <1>2, <1>3, <1>4, <1>5, <1>6, <1>7, <1>8, <1>9, <1>10, <1>11, <1>12, <1>13,
     <1>14, <1>15, <1>16, <1>17, <1>18, <1>19, <1>20 DEF ProgNext, ProgStep

\* The code that qnicll_txrx_en(1) returns is what the application goes by.
LEMMA EnableOrder ==
  ASSUME Typed, EnablePushed \/ EnableLatePush
  PROVE  \/ pc' = "crashed" /\ UNCHANGED <<last, app>>
         \/ pc' = "idle" /\ app'.sized = app.sized
              /\ app'.en = (IF last'.code = QNICLL_ERR_NONE THEN "on" ELSE "failed")
<1>1. ASSUME NEW e, Returns("txrx_en", 1, e), app' = Enabled(e)
      PROVE  pc' = "idle" /\ app'.sized = app.sized
               /\ app'.en = IF last'.code = QNICLL_ERR_NONE THEN "on" ELSE "failed"
  BY <1>1 DEF Returns, Enabled, Typed, TypeOK, AppTypes
<1>2. ASSUME NEW tx, NEW e, MakeAdcBuf(tx, e)
      PROVE  \E c : Returns("txrx_en", 1, c) /\ app' = Enabled(c)
  BY <1>2 DEF MakeAdcBuf
<1>3. ASSUME NEW e, EnableEnds(e)
      PROVE  \E c : Returns("txrx_en", 1, c) /\ app' = Enabled(c)
  BY <1>3 DEF EnableEnds
<1> QED
  BY <1>1, <1>2, <1>3 DEF EnablePushed, EnableLatePush, Crash

LEMMA RefillOrder ==
  ASSUME Order, app' = app, prog' = prog,
         \/ pc' = "idle"
         \/ pc' = "crashed" /\ at' = at
         \/ pc' \in {"get", "return"} /\ at = pc' /\ at' = at,
         at \in {"get", "return"}, Got \/ Returned
  PROVE  Order'
<1>1. at' \in During \cup {"exit1"} /\ (at' = "write" /\ at # "write" => prog = "tst")
  BY DEF Got, Returned, C, LoopFrom, During
<1> QED
  BY <1>1 DEF Order, Before, During

LEMMA StepInOrder == Typed /\ Order /\ [ProgNext]_progvars => Order'
<1> SUFFICES ASSUME Typed, Order, [ProgNext]_progvars PROVE Order'
  OBVIOUS
<1>0. /\ prog \in {"tst", "n", "c"}
      /\ app \in AppTypes /\ pc \in {"idle", "get", "return", "crashed"}
  BY Amounts DEF Typed, TypeOK
<1>1. CASE Connect
  <2>1. pc' = "idle" /\ at = "init" /\ prog' = prog
    BY <1>1 DEF Connect, qnicll_init, Returns
  <2>2. CASE at' = "exit1"
    BY <2>1, <2>2 DEF Order, Before, During
  <2>3. CASE at' # "exit1"
    <3>1. at' = IF prog = "c" THEN "cmd" ELSE "set"
      BY <1>1, <2>1, <2>3 DEF Connect, C
    <3>2. last'.code = QNICLL_ERR_NONE
      BY <1>1, <2>1, <2>3 DEF Connect, C
    <3>3. app'.en = "off" /\ ~app'.sized /\ ~app'.spent
      BY <1>1, <3>2 DEF Connect, qnicll_init, Returns, QNICLL_ERR_NONE, QNICLL_ERR_BUG
    <3> QED
      BY <2>1, <3>1, <3>3 DEF Order, Before, During
  <2> QED
    BY <2>2, <2>3
<1>2. CASE Command
  BY <1>2 DEF Command, dpvars, Order, Before, During
<1>3. CASE Set
  BY <1>0, <1>3 DEF Set, dpvars, Order, Before, During
<1>4. CASE MakeTxBuf
  <2>1. pc' = "idle" /\ at = "tx" /\ prog' = prog /\ app'.en = app.en
        /\ app'.spent = app.spent /\ at' \in {"pd", "push", "exit1"}
    BY <1>0, <1>4 DEF MakeTxBuf, qnicll_set_tx_buf_sz_samps, Returns, C, AppTypes
  <2>2. CASE at' = "exit1"
    BY <2>1, <2>2 DEF Order, Before, During
  <2>3. CASE at' # "exit1"
    <3>1. last'.code = QNICLL_ERR_NONE
      BY <1>4, <2>1, <2>3 DEF MakeTxBuf, C
    <3>2. app'.sized
      BY <1>0, <1>4, <3>1 DEF MakeTxBuf, qnicll_set_tx_buf_sz_samps, Returns, AppTypes,
         QNICLL_ERR_NONE, QNICLL_ERR_BUG
    <3> QED
      BY <2>1, <2>3, <3>2 DEF Order, Before, During
  <2> QED
    BY <2>2, <2>3
<1>5. CASE PushTxBuf
  <2>1. pc' = "idle" /\ app'.en = app.en /\ app'.sized = app.sized
        /\ (app'.spent => app.spent)
    BY <1>0, <1>5 DEF PushTxBuf, qnicll_push_tx_buf, Returns, AppTypes
  <2>2. at' \in {"pd", "exit1"} /\ prog' = prog /\ at = "push"
    BY <1>5, <2>1 DEF PushTxBuf, C
  <2> QED
    BY <2>1, <2>2 DEF Order, Before, During
<1>6. CASE SetPd
  BY <1>6 DEF SetPd, dpvars, Order, Before, During
<1>7. CASE SetQty
  BY <1>7 DEF SetQty, dpvars, Order, Before, During
<1>8. CASE SetNum
  <2>1. pc' = "idle" /\ app' = app
    BY <1>8 DEF SetNum, qnicll_set_num_kernel_rx_bufs, Returns
  <2>2. at' \in {"rx", "exit1"} /\ prog' = prog /\ at = "num"
    BY <1>8, <2>1 DEF SetNum, C
  <2> QED
    BY <2>1, <2>2 DEF Order, Before, During
<1>9. CASE SetRxBufSize
  <2>1. pc' = "idle" /\ app' = app
    BY <1>9 DEF SetRxBufSize, qnicll_set_rx_buf_sz_samps, Returns
  <2>2. at' \in {"open", "enable", "exit1"} /\ prog' = prog /\ at = "rx"
    BY <1>9, <2>1 DEF SetRxBufSize, C
  <2> QED
    BY <2>1, <2>2 DEF Order, Before, During
<1>10. CASE OpenFile
  BY <1>10 DEF OpenFile, dpvars, Order, Before, During
<1>11. CASE EnableTxRx
  <2>1. at = "enable" /\ prog' = prog
    BY <1>11 DEF EnableTxRx
  <2>2. CASE pc' = "crashed" /\ UNCHANGED <<last, app>>
    BY <1>11, <2>1, <2>2 DEF EnableTxRx, C, Order, Before, During
  <2>3. CASE pc' = "idle" /\ app'.sized = app.sized
               /\ app'.en = IF last'.code = QNICLL_ERR_NONE THEN "on" ELSE "failed"
    <3>1. CASE last'.code = QNICLL_ERR_NONE
      <4>1. at' \in {"get", "disable"}
        BY <1>11, <2>3, <3>1 DEF EnableTxRx, C, LoopFrom
      <4> QED
        BY <2>1, <2>3, <3>1, <4>1 DEF Order, Before, During
    <3>2. CASE last'.code # QNICLL_ERR_NONE
      <4>1. at' = "exit1"
        BY <1>11, <2>3, <3>2 DEF EnableTxRx, C
      <4> QED
        BY <2>1, <2>3, <4>1 DEF Order, Before, During
    <3> QED
      BY <3>1, <3>2
  <2> QED
    BY <1>11, <2>2, <2>3, EnableOrder DEF EnableTxRx
<1>12. CASE GetBlock
  <2>1. at = "get" /\ app' = app /\ prog' = prog
    BY <1>12 DEF GetBlock, Got, qnicll_get_filled_rx_buf, EnterRefill, Crash, Deliver
  <2>2. pc' \in {"idle", "get", "crashed"}
    BY <1>12 DEF GetBlock, qnicll_get_filled_rx_buf, EnterRefill, Crash, Deliver, Returns
  <2>3. pc' # "idle" => at' = at
    BY <1>12 DEF GetBlock, Got, C
  <2> QED
    BY <1>12, <2>1, <2>2, <2>3, RefillOrder DEF GetBlock
<1>13. CASE ReturnBlock
  <2>1. at = "return" /\ app' = app /\ prog' = prog
    BY <1>13 DEF ReturnBlock, Returned, qnicll_return_rx_buf, EnterRefill, Crash, Returns
  <2>2. pc' \in {"idle", "return", "crashed"}
    BY <1>13 DEF ReturnBlock, qnicll_return_rx_buf, EnterRefill, Crash, Returns
  <2>3. pc' # "idle" => at' = at
    BY <1>13 DEF ReturnBlock, Returned, C
  <2> QED
    BY <1>13, <2>1, <2>2, <2>3, RefillOrder DEF ReturnBlock
<1>14. CASE WriteFile
  <2>1. at' \in {"return", "write", "exit1"} /\ at = "write"
    BY <1>14 DEF WriteFile, Wrote
  <2> QED
    BY <1>14, <2>1 DEF WriteFile, dpvars, Order, Before, During
<1>15. CASE Resume
  <2>1. at \in {"get", "return"} /\ pc' = "idle" /\ app' = app
    BY <1>15 DEF Resume, Refilled, Deliver, Returns, Order
  <2>2. (Got \/ Returned) /\ prog' = prog
    BY <1>15 DEF Resume, Got, Returned
  <2> QED
    BY <2>1, <2>2, RefillOrder
<1>16. CASE GivesUp
  <2>1. at \in {"get", "return"} /\ pc' = "idle" /\ app' = app
    BY <1>16 DEF GivesUp, RefillFails, Returns, Order
  <2>2. (Got \/ Returned) /\ prog' = prog
    BY <1>16 DEF GivesUp, Got, Returned
  <2> QED
    BY <2>1, <2>2, RefillOrder
<1>17. CASE DisableTxRx
  <2>1. pc' = "idle"
    BY <1>17 DEF DisableTxRx, Disable, Returns
  <2>2. at' \in {"done", "exit1"} /\ prog' = prog
    BY <1>17, <2>1 DEF DisableTxRx, C
  <2> QED
    BY <2>1, <2>2 DEF Order, Before, During
<1>18. CASE Finish
  BY <1>18 DEF Finish, qnicll_done, Returns, Order, Before, During
<1>19. CASE Capture
  BY <1>19 DEF Capture, AdcFillsBlock, Order
<1>20. CASE UNCHANGED progvars
  BY <1>20 DEF progvars, Order
<1> QED
  BY <1>1, <1>2, <1>3, <1>4, <1>5, <1>6, <1>7, <1>8, <1>9, <1>10, <1>11, <1>12, <1>13,
     <1>14, <1>15, <1>16, <1>17, <1>18, <1>19, <1>20 DEF ProgNext, ProgStep

-----------------------------------------------------------------------------
(* The rules of Datapath.  Only the guards that name a rule tell a step of *)
(* Rules from one of Datapath.                                             *)

LEMMA SameReturns ==
  /\ \A op, arg, code : Rules!Returns(op, arg, code) <=> Returns(op, arg, code)
  /\ Rules!Crash <=> Crash
  /\ Rules!MayCall <=> MayCall
  /\ \A o, sz : Rules!CreateOutcomes(o, sz) = CreateOutcomes(o, sz)
  /\ \A n : Rules!Quads(n) = Quads(n)
  /\ Rules!AdcClosed = AdcClosed /\ Rules!DacClosed = DacClosed
  /\ Rules!PushOutcomes = PushOutcomes
  /\ \A outcome : Rules!Pushed(outcome) = Pushed(outcome)
  /\ \A code : Rules!Enabled(code) = Enabled(code)
BY DEF Returns, Rules!Returns, Crash, Rules!Crash, MayCall, Rules!MayCall, CreateOutcomes,
   Rules!CreateOutcomes, Outcomes, Rules!Outcomes, Quads, Rules!Quads, AdcClosed,
   Rules!AdcClosed, DacClosed, Rules!DacClosed, NoBlock, Rules!NoBlock, PushOutcomes,
   Rules!PushOutcomes, Pushed, Rules!Pushed, Enabled, Rules!Enabled, QNICLL_ERR_NONE,
   Rules!QNICLL_ERR_NONE

LEMMA SameMake ==
  ASSUME NEW tx, NEW code, MakeAdcBuf(tx, code) PROVE Rules!MakeAdcBuf(tx, code)
BY SameReturns DEF MakeAdcBuf, Rules!MakeAdcBuf, QNICLL_ERR_BUG, Rules!QNICLL_ERR_BUG

LEMMA SameEnable ==
  ASSUME app.en = "off", app.sized, ~app.spent, EnablePushed \/ EnableLatePush
  PROVE  Rules!EnablePushed \/ Rules!EnableLatePush
<1>1. Rules!MayEnable
  <2>1. MayEnable
    BY DEF EnablePushed, EnableLatePush
  <2> QED
    BY <2>1, SameReturns DEF MayEnable, Rules!MayEnable, Rules!Obeys
<1>2. CASE EnablePushed
  BY <1>1, <1>2, SameMake DEF EnablePushed, Rules!EnablePushed, QNICLL_ERR_NONE, Garbage,
     Rules!QNICLL_ERR_NONE, Rules!Garbage
<1>3. CASE EnableLatePush
  <2>1. \A e : EnableEnds(e) => Rules!EnableEnds(e)
    BY SameReturns DEF EnableEnds, Rules!EnableEnds
  <2> QED
    BY <1>1, <1>3, <2>1, SameReturns, SameMake DEF EnableLatePush, Rules!EnableLatePush,
       QNICLL_ERR_NONE, QNICLL_ERR_BUG, Garbage, Rules!QNICLL_ERR_NONE,
       Rules!QNICLL_ERR_BUG, Rules!Garbage
<1> QED
  BY <1>2, <1>3

LEMMA SameReceive ==
  ASSUME app.en = "on", qnicll_get_filled_rx_buf \/ qnicll_return_rx_buf
  PROVE  Rules!qnicll_get_filled_rx_buf \/ Rules!qnicll_return_rx_buf
<1>1. Rules!MayReceive
  BY SameReturns DEF qnicll_get_filled_rx_buf, qnicll_return_rx_buf, MayReceive,
     Rules!MayReceive, Rules!Obeys
<1>2. \A caller : EnterRefill(caller) <=> Rules!EnterRefill(caller)
  BY SameReturns DEF EnterRefill, Rules!EnterRefill, NoBlock, Rules!NoBlock
<1>3. \A ptr, occ : Deliver(ptr, occ) <=> Rules!Deliver(ptr, occ)
  BY SameReturns DEF Deliver, Rules!Deliver, QNICLL_ERR_NONE, Rules!QNICLL_ERR_NONE
<1>4. qnicll_get_filled_rx_buf => Rules!qnicll_get_filled_rx_buf
  BY <1>1, <1>2, <1>3, SameReturns DEF qnicll_get_filled_rx_buf,
     Rules!qnicll_get_filled_rx_buf, Rules!Obeys
<1>5. qnicll_return_rx_buf => Rules!qnicll_return_rx_buf
  BY <1>1, <1>2, SameReturns DEF qnicll_return_rx_buf, Rules!qnicll_return_rx_buf,
     Rules!Obeys, QNICLL_ERR_NONE, Rules!QNICLL_ERR_NONE
<1> QED
  BY <1>4, <1>5

LEMMA SameRefill == (Refilled => Rules!Refilled) /\ (RefillFails => Rules!RefillFails)
<1>1. \A ptr, occ : Deliver(ptr, occ) <=> Rules!Deliver(ptr, occ)
  BY SameReturns DEF Deliver, Rules!Deliver, QNICLL_ERR_NONE, Rules!QNICLL_ERR_NONE
<1> QED
  BY <1>1, SameReturns DEF Refilled, Rules!Refilled, RefillFails, Rules!RefillFails,
     QNICLL_ERR_NONE, Rules!QNICLL_ERR_NONE, QNICLL_ERR_BUG, Rules!QNICLL_ERR_BUG

LEMMA StepByRules ==
  Typed /\ Order /\ ProgNext => UNCHANGED dpvars \/ prog = "n" \/ Rules!Next
<1> SUFFICES ASSUME Typed, Order, ProgNext, prog # "n"
             PROVE  UNCHANGED dpvars \/ Rules!Next
  OBVIOUS
<1> USE DEF Rules!Next, Rules!Calls
<1>1. CASE Connect
  <2>1. qnicll_init => Rules!qnicll_init
    BY SameReturns DEF qnicll_init, Rules!qnicll_init, QNICLL_ERR_NONE, QNICLL_ERR_BUG,
       Rules!QNICLL_ERR_NONE, Rules!QNICLL_ERR_BUG
  <2> QED
    BY <1>1, <2>1 DEF Connect
<1>2. CASE Command \/ Set \/ SetPd \/ SetQty \/ OpenFile \/ WriteFile
  BY <1>2 DEF Command, Set, SetPd, SetQty, OpenFile, WriteFile
<1>3. CASE MakeTxBuf
  <2>1. PICK n \in TxSizes : qnicll_set_tx_buf_sz_samps(n)
    BY <1>3 DEF MakeTxBuf
  <2>2. ~app.sized
    BY <1>3 DEF MakeTxBuf, Order
  <2>3. Rules!qnicll_set_tx_buf_sz_samps(n)
    BY <2>1, <2>2, SameReturns DEF qnicll_set_tx_buf_sz_samps,
       Rules!qnicll_set_tx_buf_sz_samps, Rules!Obeys, QNICLL_ERR_NONE, QNICLL_ERR_BUG,
       Rules!QNICLL_ERR_NONE, Rules!QNICLL_ERR_BUG
  <2> QED
    BY <2>3
<1>4. CASE PushTxBuf
  <2>1. qnicll_push_tx_buf => Rules!qnicll_push_tx_buf
    BY SameReturns DEF qnicll_push_tx_buf, Rules!qnicll_push_tx_buf, QNICLL_ERR_NONE,
       QNICLL_ERR_BUG, Rules!QNICLL_ERR_NONE, Rules!QNICLL_ERR_BUG
  <2> QED
    BY <1>4, <2>1 DEF PushTxBuf
<1>5. CASE SetNum
  BY <1>5 DEF SetNum, Order
<1>6. CASE SetRxBufSize
  <2>1. CapLen \in RxSizes
    BY <1>6, Amounts DEF SetRxBufSize, CapLen, Typed
  <2>2. Rules!qnicll_set_rx_buf_sz_samps(CapLen)
    BY <1>6, SameReturns DEF SetRxBufSize, qnicll_set_rx_buf_sz_samps,
       Rules!qnicll_set_rx_buf_sz_samps, QNICLL_ERR_NONE, Rules!QNICLL_ERR_NONE
  <2> QED
    BY <2>1, <2>2
<1>7. CASE EnableTxRx
  <2>1. app.en = "off" /\ app.sized /\ ~app.spent
    BY <1>7 DEF EnableTxRx, Order, Before
  <2> QED
    BY <1>7, <2>1, SameEnable DEF EnableTxRx
<1>8. CASE GetBlock \/ ReturnBlock
  <2>1. app.en = "on"
    BY <1>8 DEF GetBlock, ReturnBlock, Order, During
  <2> QED
    BY <1>8, <2>1, SameReceive DEF GetBlock, ReturnBlock
<1>9. CASE Resume \/ GivesUp
  BY <1>9, SameRefill DEF Resume, GivesUp
<1>10. CASE DisableTxRx
  <2>1. app.en # "off"
    BY <1>10 DEF DisableTxRx, Order, During
  <2>2. Rules!Disable
    BY <1>10, <2>1, SameReturns DEF DisableTxRx, Disable, Rules!Disable, Rules!Obeys,
       QNICLL_ERR_NONE, Rules!QNICLL_ERR_NONE, Garbage, Rules!Garbage
  <2> QED
    BY <2>2
<1>11. CASE Finish
  <2>1. Rules!qnicll_done
    BY <1>11, SameReturns DEF Finish, qnicll_done, Rules!qnicll_done, Rules!Obeys, Garbage,
       Rules!Garbage
  <2> QED
    BY <2>1
<1>12. CASE Capture
  <2>1. Rules!AdcFillsBlock
    BY <1>12 DEF Capture, AdcFillsBlock, Rules!AdcFillsBlock, NoBlock, Rules!NoBlock
  <2> QED
    BY <2>1
<1> QED
  BY <1>1, <1>2, <1>3, <1>4, <1>5, <1>6, <1>7, <1>8, <1>9, <1>10, <1>11, <1>12
     DEF ProgNext, ProgStep

LEMMA InitInOrder == ProgInit => Order
BY DEF ProgInit, Init, Order, Before, During

(***************************************************************************)
(* tst.c and c.c keep to the rules "pairs", "tx_first", "tx_once" and      *)
(* "fresh" of Datapath, whatever fails, for any periods and quantities.    *)
(***************************************************************************)
THEOREM ProgramsKeepRules == ProgSpec => KeepsRules
<1>1. ProgInit => Typed /\ Order
  BY InitTypedProg, InitInOrder
<1>2. Typed /\ Order /\ [ProgNext]_progvars => Typed' /\ Order'
  BY StepTypedProg, StepInOrder
<1>3. Typed /\ Order /\ [ProgNext]_progvars => [prog # "n" => Rules!Next]_dpvars
  BY StepByRules DEF progvars, dpvars
<1> QED
  BY <1>1, <1>2, <1>3, PTL DEF ProgSpec, KeepsRules

-----------------------------------------------------------------------------
(* What the programs do to the buffer objects, the blocks and the file,    *)
(* when every failure of libiio is reported as one.                        *)

Reported == "write" \notin Faults

\* What qnicll.c holds of libiio, at each of the program's calls
Held ==
  /\ st.adc_buf <=> adc.open
  /\ at # "exit0" => (st.dac_buf <=> dac.open)
  /\ at \in {"init", "cmd", "set", "tx", "exit0"} => ~dac.open
  /\ at \in Before \cup {"done", "exit0"} => ~adc.open
  /\ at \in During => adc.open

LEMMA HeldStays ==
  ASSUME Held, adc'.open = adc.open, dac'.open = dac.open,
         st'.adc_buf = st.adc_buf, st'.dac_buf = st.dac_buf,
         \/ at' = at
         \/ at' \in {"exit1", "exit0", "done", "set", "tx"} /\ at \in {"init", "cmd", "set", "tx"}
         \/ at' \in (Before \ {"init", "cmd", "set", "tx"}) \cup {"exit1"} /\ at \in Before
         \/ at' \in During \cup {"exit1"} /\ at \in During
  PROVE  Held'
BY DEF Held, Before, During

\* The receive buffer is open after qnicll_txrx_en(1) if that returned 0.
LEMMA EnableHolds ==
  ASSUME Reported, Typed, Held, at = "enable", EnablePushed \/ EnableLatePush
  PROVE  /\ st'.adc_buf <=> adc'.open
         /\ st'.dac_buf <=> dac'.open
         /\ pc' = "idle" /\ last'.code = QNICLL_ERR_NONE => adc'.open
         /\ pc' # "idle" => ~adc'.open
<1>1. ~adc.open /\ ~st.adc_buf /\ (st.dac_buf <=> dac.open)
  BY DEF Held, Before
<1>2. ASSUME NEW tx, NEW e, MakeAdcBuf(tx, e)
      PROVE  /\ st'.adc_buf <=> adc'.open
             /\ st'.dac_buf = st.dac_buf
             /\ dac'.open = tx.open
             /\ pc' = "idle"
             /\ last'.code = QNICLL_ERR_NONE => adc'.open
  <2>1. CASE st' = [st EXCEPT !.tx_pushed = TRUE, !.adc_buf = TRUE, !.rx_sz = Quads(@)]
             /\ adc' = [adc EXCEPT !.open = TRUE, !.next = 1] /\ Returns("txrx_en", 1, e)
             /\ dac' = [tx EXCEPT !.fifo = FALSE, !.sent = tx.fifo]
    BY <2>1 DEF Typed, TypeOK, StTypes, AdcTypes, Returns
  <2>2. CASE st' = [st EXCEPT !.tx_pushed = TRUE, !.adc_buf = FALSE] /\ adc' = adc
             /\ dac' = tx /\ Returns("txrx_en", 1, QNICLL_ERR_BUG)
    BY <1>1, <2>2 DEF Typed, TypeOK, StTypes, Returns, QNICLL_ERR_BUG, QNICLL_ERR_NONE
  <2> QED
    BY <1>2, <2>1, <2>2 DEF MakeAdcBuf
<1>3. \A outcome : Pushed(outcome).open = dac.open
  BY DEF Pushed, Typed, TypeOK
<1>4. CASE EnablePushed
  BY <1>1, <1>2, <1>4 DEF EnablePushed
<1>5. CASE EnableLatePush
  <2>1. CASE Crash
    BY <1>1, <2>1 DEF Crash
  <2>2. CASE EnableEnds(QNICLL_ERR_BUG)
    BY <1>1, <2>2 DEF EnableEnds, Returns, QNICLL_ERR_BUG, QNICLL_ERR_NONE
  <2>3. ASSUME NEW outcome, MakeAdcBuf(Pushed(outcome), QNICLL_ERR_NONE)
        PROVE  /\ st'.adc_buf <=> adc'.open
               /\ st'.dac_buf <=> dac'.open
               /\ pc' = "idle" /\ last'.code = QNICLL_ERR_NONE => adc'.open
               /\ pc' # "idle" => ~adc'.open
    BY <1>1, <1>2, <1>3, <2>3
  <2> QED
    BY <1>5, <2>1, <2>2, <2>3 DEF EnableLatePush, Reported
<1> QED
  BY <1>4, <1>5

\* A refill changes nothing of the buffer objects, and is never entered without.
LEMMA RefillHolds ==
  ASSUME Typed, Held, at \in {"get", "return"},
         \/ at = "get" /\ qnicll_get_filled_rx_buf
         \/ at = "return" /\ qnicll_return_rx_buf
         \/ Refilled \/ RefillFails
  PROVE  /\ adc'.open = adc.open /\ dac' = dac
         /\ st'.adc_buf = st.adc_buf /\ st'.dac_buf = st.dac_buf
<1>1. st.adc_buf
  BY DEF Held, During
<1> USE DEF Typed, TypeOK, StTypes, AdcTypes
<1>2. \A ptr, occ : Deliver(ptr, occ) =>
        st'.adc_buf = st.adc_buf /\ st'.dac_buf = st.dac_buf
  BY DEF Deliver
<1>3. \A caller : EnterRefill(caller) => adc'.open = adc.open /\ UNCHANGED <<st, dac>>
  BY <1>1 DEF EnterRefill
<1>4. CASE qnicll_get_filled_rx_buf
  BY <1>1, <1>2, <1>3, <1>4 DEF qnicll_get_filled_rx_buf
<1>5. CASE qnicll_return_rx_buf
  BY <1>3, <1>5 DEF qnicll_return_rx_buf
<1>6. CASE Refilled
  BY <1>2, <1>6 DEF Refilled
<1>7. CASE RefillFails
  BY <1>7 DEF RefillFails
<1> QED
  BY <1>4, <1>5, <1>6, <1>7

\* The calls that fill and take blocks leave the program in its loop.
LEMMA LoopLabels ==
  ASSUME at \in {"get", "return"}, Got \/ Returned PROVE at' \in During \cup {"exit1"}
BY DEF Got, Returned, C, LoopFrom, During

LEMMA StepHeld ==
  Reported /\ Typed /\ Order /\ Held /\ [ProgNext]_progvars => Held'
<1> SUFFICES ASSUME Reported, Typed, Order, Held, [ProgNext]_progvars PROVE Held'
  OBVIOUS
<1>0. /\ st \in StTypes /\ adc \in AdcTypes /\ app \in AppTypes
      /\ dac \in [open : BOOLEAN, fifo : BOOLEAN, sent : BOOLEAN]
  BY DEF Typed, TypeOK
<1>1. CASE Connect
  <2>1. ~adc.open /\ ~dac.open /\ ~st.adc_buf /\ ~st.dac_buf
    BY <1>1 DEF Connect, Held, Before
  <2>2. adc' = adc /\ dac' = dac /\ ~st'.adc_buf /\ ~st'.dac_buf
    BY <1>0, <1>1, <2>1 DEF Connect, qnicll_init, StTypes
  <2>3. at' \in {"init", "cmd", "set", "exit1"}
    BY <1>1 DEF Connect, C
  <2> QED
    BY <2>1, <2>2, <2>3 DEF Held, Before, During
<1>2. CASE Command
  BY <1>2, HeldStays DEF Command, dpvars
<1>3. CASE Set
  <2>1. at' \in {"tx", "pd", "exit1"} /\ at = "set" /\ UNCHANGED <<st, adc, dac>>
    BY <1>3 DEF Set, dpvars
  <2> QED
    BY <2>1, HeldStays DEF Before
<1>4. CASE MakeTxBuf
  <2>1. at = "tx" /\ ~dac.open /\ ~adc.open /\ ~st.adc_buf
    BY <1>4 DEF MakeTxBuf, Held, Before
  <2>2. at' \in {"tx", "pd", "push", "exit1"} /\ (at' = "tx" => pc' # "idle")
    BY <1>4 DEF MakeTxBuf, C
  <2>3. pc' = "idle" /\ adc' = adc /\ ~st'.adc_buf /\ (st'.dac_buf <=> dac'.open)
    BY <1>0, <1>4, <2>1 DEF MakeTxBuf, qnicll_set_tx_buf_sz_samps, Returns, StTypes
  <2> QED
    BY <2>1, <2>2, <2>3 DEF Held, Before, During
<1>5. CASE PushTxBuf
  <2>1. adc' = adc /\ dac'.open = dac.open
        /\ st'.adc_buf = st.adc_buf /\ st'.dac_buf = st.dac_buf
    BY <1>0, <1>5 DEF PushTxBuf, qnicll_push_tx_buf, Pushed, StTypes
  <2>2. at' \in {"push", "pd", "exit1"} /\ at = "push"
    BY <1>5 DEF PushTxBuf, C
  <2> QED
    BY <2>1, <2>2, HeldStays DEF Before
<1>6. CASE SetPd \/ SetQty \/ OpenFile
  <2>1. UNCHANGED <<st, adc, dac>> /\ at \in {"pd", "qty", "open"}
        /\ at' \in {"qty", "num", "rx", "enable", "exit1"}
    BY <1>6 DEF SetPd, SetQty, OpenFile, dpvars
  <2> QED
    BY <2>1, HeldStays DEF Before
<1>7. CASE SetNum
  <2>1. st' = st /\ dac' = dac /\ adc'.open = adc.open
    BY <1>0, <1>7 DEF SetNum, qnicll_set_num_kernel_rx_bufs, AdcTypes
  <2>2. at' \in {"num", "rx", "exit1"} /\ at = "num"
    BY <1>7 DEF SetNum, C
  <2> QED
    BY <2>1, <2>2, HeldStays DEF Before
<1>8. CASE SetRxBufSize
  <2>1. adc' = adc /\ dac' = dac /\ st'.adc_buf = st.adc_buf /\ st'.dac_buf = st.dac_buf
    BY <1>0, <1>8 DEF SetRxBufSize, qnicll_set_rx_buf_sz_samps, StTypes
  <2>2. at' \in {"rx", "open", "enable", "exit1"} /\ at = "rx"
    BY <1>8 DEF SetRxBufSize, C
  <2> QED
    BY <2>1, <2>2, HeldStays DEF Before
<1>9. CASE EnableTxRx
  <2>1. at = "enable" /\ (EnablePushed \/ EnableLatePush)
    BY <1>9 DEF EnableTxRx
  <2>2. /\ st'.adc_buf <=> adc'.open
        /\ st'.dac_buf <=> dac'.open
        /\ pc' = "idle" /\ last'.code = QNICLL_ERR_NONE => adc'.open
        /\ pc' # "idle" => ~adc'.open
    BY <2>1, EnableHolds
  <2>3. \/ pc' # "idle" /\ at' = "enable"
        \/ pc' = "idle" /\ last'.code # QNICLL_ERR_NONE /\ at' = "exit1"
        \/ pc' = "idle" /\ last'.code = QNICLL_ERR_NONE /\ at' \in {"get", "disable"}
    BY <1>9, <2>1 DEF EnableTxRx, C, LoopFrom
  <2> QED
    BY <2>2, <2>3 DEF Held, Before, During
<1>10. CASE GetBlock \/ ReturnBlock \/ Resume \/ GivesUp
  <2>1. at \in {"get", "return"}
    BY <1>10 DEF GetBlock, ReturnBlock, Resume, GivesUp, Refilled, RefillFails, Order
  <2>2. at' \in During \cup {"exit1"}
    BY <1>10, <2>1, LoopLabels DEF GetBlock, ReturnBlock, Resume, GivesUp
  <2>3. /\ adc'.open = adc.open /\ dac' = dac
        /\ st'.adc_buf = st.adc_buf /\ st'.dac_buf = st.dac_buf
    BY <1>10, <2>1, RefillHolds DEF GetBlock, ReturnBlock, Resume, GivesUp
  <2> QED
    BY <2>1, <2>2, <2>3, HeldStays DEF During
<1>11. CASE WriteFile
  <2>1. at' \in {"return", "write", "exit1"} /\ at = "write" /\ UNCHANGED <<st, adc, dac>>
    BY <1>11 DEF WriteFile, Wrote, dpvars
  <2> QED
    BY <2>1, HeldStays DEF During
<1>12. CASE DisableTxRx
  <2>1. at = "disable" /\ adc.open /\ st.adc_buf
    BY <1>12 DEF DisableTxRx, Held, During
  <2>2. ~adc'.open /\ ~st'.adc_buf /\ dac' = dac /\ st'.dac_buf = st.dac_buf /\ pc' = "idle"
    BY <1>0, <1>12, <2>1 DEF DisableTxRx, Disable, AdcClosed, StTypes, AdcTypes, Returns
  <2>3. at' \in {"done", "exit1"}
    BY <1>12, <2>2 DEF DisableTxRx, C
  <2> QED
    BY <2>1, <2>2, <2>3 DEF Held, Before, During
<1>13. CASE Finish
  <2>1. at = "done" /\ at' = "exit0" /\ ~adc.open /\ ~st.adc_buf /\ (st.dac_buf <=> dac.open)
    BY <1>13 DEF Finish, Held
  <2>2. st' = st /\ adc' = adc /\ ~dac'.open
    BY <1>13, <2>1 DEF Finish, qnicll_done, DacClosed
  <2> QED
    BY <2>1, <2>2 DEF Held, Before, During
<1>14. CASE Capture
  <2>1. adc'.open = adc.open /\ UNCHANGED <<st, dac, at>>
    BY <1>0, <1>14 DEF Capture, AdcFillsBlock, AdcTypes
  <2> QED
    BY <2>1, HeldStays
<1>15. CASE UNCHANGED progvars
  BY <1>15 DEF progvars, Held
<1> QED
  BY <1>1, <1>2, <1>3, <1>4, <1>5, <1>6, <1>7, <1>8, <1>9, <1>10, <1>11, <1>12, <1>13,
     <1>14, <1>15 DEF ProgNext, ProgStep

\* There is one session.  Of its blocks the program has taken one for each turn of
\* its loop; where the others are, Datapath says.
Placed ==
  /\ at \notin After => BlocksInPlace /\ GotIsNext
  /\ at \in Before => count.ses = 0 /\ loc.b_i = 0
  /\ at \in During => count.ses = 1
  /\ at = "get" => count.taken = loc.b_i
  /\ at \in {"write", "return"} => count.taken = loc.b_i + 1
  /\ at = "write" => Succeeded("get", 0)

\* The calls before the capture touch no block.
LEMMA PlacedBefore ==
  ASSUME Typed, Placed, at \in Before, at' \in Before \cup {"done", "exit0", "exit1"},
         loc'.b_i = loc.b_i,
         \/ qnicll_init
         \/ \E n \in TxSizes : qnicll_set_tx_buf_sz_samps(n)
         \/ qnicll_push_tx_buf
         \/ qnicll_set_num_kernel_rx_bufs(1)
         \/ qnicll_set_rx_buf_sz_samps(CapLen)
         \/ UNCHANGED dpvars
  PROVE  Placed'
<1> USE DEF Typed, TypeOK, StTypes, AdcTypes
<1>0. BlocksInPlace /\ GotIsNext /\ count.ses = 0 /\ loc.b_i = 0
  BY DEF Placed, Before, After
<1>1. BlocksInPlace' /\ GotIsNext' /\ count'.ses = count.ses
  <2>1. ASSUME pc' = "idle", last'.op # "get", count'.ses = count.ses, count'.taken = count.taken,
               adc'.open = adc.open, adc'.full = adc.full, adc'.next = adc.next,
               adc'.cur = adc.cur, st'.adc_filled = st.adc_filled, st'.adc_occ = st.adc_occ
        PROVE  BlocksInPlace' /\ GotIsNext' /\ count'.ses = count.ses
    BY <1>0, <2>1, StayInPlace, NotGot
  <2>2. CASE qnicll_init
    <3>1. pc' = "idle" /\ last'.op # "get" /\ UNCHANGED adc
      BY <2>2 DEF qnicll_init, Returns
    <3>2. st'.adc_filled = st.adc_filled /\ st'.adc_occ = st.adc_occ
      BY <2>2 DEF qnicll_init
    <3>3. count'.ses = count.ses /\ count'.taken = count.taken
      BY <2>2 DEF qnicll_init
    <3> QED
      BY <2>1, <3>1, <3>2, <3>3
  <2>3. ASSUME NEW n \in TxSizes, qnicll_set_tx_buf_sz_samps(n)
        PROVE  BlocksInPlace' /\ GotIsNext' /\ count'.ses = count.ses
    BY <2>1, <2>3 DEF qnicll_set_tx_buf_sz_samps, Returns
  <2>4. CASE qnicll_push_tx_buf
    BY <2>1, <2>4 DEF qnicll_push_tx_buf, Returns
  <2>5. CASE qnicll_set_num_kernel_rx_bufs(1)
    BY <2>1, <2>5 DEF qnicll_set_num_kernel_rx_bufs, Returns
  <2>6. CASE qnicll_set_rx_buf_sz_samps(CapLen)
    BY <2>1, <2>6 DEF qnicll_set_rx_buf_sz_samps, Returns
  <2>7. CASE UNCHANGED dpvars
    <3>1. UNCHANGED <<st, adc, dac, pc, last, got, app, count>>
      BY <2>7 DEF dpvars
    <3>2. BlocksInPlace' /\ GotIsNext'
      BY ONLY <1>0, <3>1 DEF BlocksInPlace, GotIsNext, Succeeded, LastWas
    <3> QED
      BY <3>1, <3>2
  <2> QED
    BY <2>2, <2>3, <2>4, <2>5, <2>6, <2>7
<1> QED
  BY <1>0, <1>1 DEF Placed, Before, During, After

\* A turn of the loop: qnicll_get_filled_rx_buf() ...
LEMMA GetPlaced ==
  ASSUME Typed, Placed, at = "get", Got, adc.open,
         BlocksInPlace', GotIsNext', count'.ses = count.ses,
         \/ pc' # "idle" /\ count'.taken = count.taken
         \/ pc' = "idle" /\ last' = [op |-> "get", arg |-> 0, code |-> QNICLL_ERR_NONE]
              /\ count'.taken = count.taken + 1
         \/ pc' = "idle" /\ last'.code # QNICLL_ERR_NONE
  PROVE  Placed'
<1>1. count.ses = 1 /\ count.taken = loc.b_i /\ loc' = loc
  BY DEF Placed, During, Got
<1>2. CASE pc' # "idle" /\ count'.taken = count.taken
  <2>1. at' = "get"
    BY <1>2 DEF Got, C
  <2> QED
    BY <1>1, <1>2, <2>1 DEF Placed, Before, During, After
<1>3. CASE pc' = "idle" /\ last' = [op |-> "get", arg |-> 0, code |-> QNICLL_ERR_NONE]
             /\ count'.taken = count.taken + 1
  <2>1. at' \in {"write", "disable", "return"}
    BY <1>3 DEF Got, C
  <2>2. Succeeded("get", 0)'
    BY <1>3 DEF Succeeded, LastWas
  <2> QED
    BY <1>1, <1>3, <2>1, <2>2 DEF Placed, Before, During, After
<1>4. CASE pc' = "idle" /\ last'.code # QNICLL_ERR_NONE
  <2>1. at' = "exit1"
    BY <1>4 DEF Got, C
  <2> QED
    BY <2>1 DEF Placed, Before, During, After
<1> QED
  BY <1>2, <1>3, <1>4

\* ... and qnicll_return_rx_buf()
LEMMA ReturnPlaced ==
  ASSUME Typed, Placed, at = "return", Returned, adc.open,
         BlocksInPlace', GotIsNext', UNCHANGED count
  PROVE  Placed'
<1>1. count.ses = 1 /\ count.taken = loc.b_i + 1
  BY DEF Placed, During
<1>2. pc' = "idle" => loc'.b_i = loc.b_i + 1
  BY DEF Returned, Typed
<1>3. pc' # "idle" => loc'.b_i = loc.b_i /\ at' = "return"
  BY DEF Returned, Typed, C
<1>4. pc' = "idle" => at' \in {"get", "disable", "exit1"}
  BY DEF Returned, C, LoopFrom
<1> QED
  BY <1>1, <1>2, <1>3, <1>4 DEF Placed, Before, During, After

LEMMA StepPlaced ==
  Reported /\ Typed /\ Order /\ Held /\ Placed /\ [ProgNext]_progvars => Placed'
<1> SUFFICES ASSUME Reported, Typed, Order, Held, Placed, [ProgNext]_progvars PROVE Placed'
  OBVIOUS
<1>0. TypeOK /\ st \in StTypes /\ count \in [init : Nat, ses : 0..MaxSes, taken : Nat]
  BY DEF Typed, TypeOK
<1>1. CASE Connect
  <2>1. at' \in {"init", "cmd", "set", "exit1"} /\ at = "init" /\ loc' = loc /\ qnicll_init
    BY <1>1 DEF Connect, C
  <2> QED
    BY <2>1, PlacedBefore DEF Before
<1>2. CASE Command \/ Set \/ OpenFile
  <2>1. at' \in {"exit0", "done", "exit1", "tx", "pd", "enable"} /\ at \in {"cmd", "set", "open"}
        /\ loc' = loc /\ UNCHANGED dpvars
    BY <1>2 DEF Command, Set, OpenFile
  <2> QED
    BY <2>1, PlacedBefore DEF Before
<1>3. CASE MakeTxBuf
  <2>1. at' \in {"tx", "pd", "push", "exit1"} /\ at = "tx" /\ loc' = loc
        /\ \E n \in TxSizes : qnicll_set_tx_buf_sz_samps(n)
    BY <1>3 DEF MakeTxBuf, C
  <2> QED
    BY <2>1, PlacedBefore DEF Before
<1>4. CASE PushTxBuf
  <2>1. at' \in {"pd", "push", "exit1"} /\ at = "push" /\ loc' = loc /\ qnicll_push_tx_buf
    BY <1>4 DEF PushTxBuf, C
  <2> QED
    BY <2>1, PlacedBefore DEF Before
<1>5. CASE SetPd \/ SetQty
  <2>1. at' \in {"qty", "num", "rx", "exit1"} /\ at \in {"pd", "qty"} /\ UNCHANGED dpvars
    BY <1>5 DEF SetPd, SetQty
  <2>2. loc'.b_i = loc.b_i
    BY <1>5 DEF SetPd, SetQty, Typed
  <2> QED
    BY <2>1, <2>2, PlacedBefore DEF Before
<1>6. CASE SetNum
  <2>1. at' \in {"num", "rx", "exit1"} /\ at = "num" /\ loc' = loc
        /\ qnicll_set_num_kernel_rx_bufs(1)
    BY <1>6 DEF SetNum, C
  <2> QED
    BY <2>1, PlacedBefore DEF Before
<1>7. CASE SetRxBufSize
  <2>1. at' \in {"rx", "open", "enable", "exit1"} /\ at = "rx"
        /\ qnicll_set_rx_buf_sz_samps(CapLen)
    BY <1>7 DEF SetRxBufSize, C
  <2>2. loc'.b_i = loc.b_i
    BY <1>7 DEF SetRxBufSize, Typed
  <2> QED
    BY <2>1, <2>2, PlacedBefore DEF Before
<1>8. CASE EnableTxRx
  <2>1. at = "enable" /\ loc' = loc /\ (EnablePushed \/ EnableLatePush)
    BY <1>8 DEF EnableTxRx
  <2>2. BlocksInPlace /\ GotIsNext /\ count.ses = 0 /\ loc.b_i = 0 /\ ~adc.open
    BY <2>1 DEF Placed, Held, Before, After
  <2>3. ASSUME NEW tx, NEW e, MakeAdcBuf(tx, e) PROVE Placed'
    <3>1. BlocksInPlace' /\ GotIsNext' /\ pc' = "idle"
      BY <1>0, <2>2, <2>3, MakeInPlace DEF MakeAdcBuf, Returns
    <3>2. last'.code = QNICLL_ERR_NONE => count'.ses = 1 /\ count'.taken = 0
      <4>1. \/ count' = [count EXCEPT !.ses = @ + 1, !.taken = 0]
            \/ Returns("txrx_en", 1, QNICLL_ERR_BUG)
        BY <2>3 DEF MakeAdcBuf
      <4>2. [count EXCEPT !.ses = @ + 1, !.taken = 0].ses = 1
            /\ [count EXCEPT !.ses = @ + 1, !.taken = 0].taken = 0
        BY <1>0, <2>2
      <4>3. Returns("txrx_en", 1, QNICLL_ERR_BUG) => last'.code # QNICLL_ERR_NONE
        BY DEF Returns, QNICLL_ERR_BUG, QNICLL_ERR_NONE
      <4> QED
        BY <4>1, <4>2, <4>3
    <3>3. at' = "exit1" \/ (at' \in {"get", "disable"} /\ last'.code = QNICLL_ERR_NONE)
      BY <1>8, <3>1 DEF EnableTxRx, C, LoopFrom
    <3> QED
      BY <2>1, <2>2, <3>1, <3>2, <3>3 DEF Placed, Before, During, After
  <2>4. CASE Crash
    <3>1. at' = "enable" /\ pc' = "crashed" /\ UNCHANGED <<st, adc, count>>
      BY <1>8, <2>1, <2>4 DEF EnableTxRx, C, Crash
    <3>2. BlocksInPlace' /\ GotIsNext'
      BY <2>2, <3>1, NotGot DEF BlocksInPlace
    <3> QED
      BY <2>1, <2>2, <3>1, <3>2 DEF Placed, Before, During, After
  <2>5. CASE EnableEnds(QNICLL_ERR_BUG)
    <3>1. at' = "exit1"
      BY <1>8, <2>5 DEF EnableTxRx, C, EnableEnds, Returns, QNICLL_ERR_BUG, QNICLL_ERR_NONE
    <3> QED
      BY <3>1 DEF Placed, Before, During, After
  <2> QED
    BY <2>1, <2>3, <2>4, <2>5 DEF EnablePushed, EnableLatePush, Reported
<1>9. ASSUME at \in {"get", "return"}
      PROVE  adc.open /\ st.adc_buf /\ BlocksInPlace /\ GotIsNext
  BY <1>9 DEF Held, Placed, During, After
<1>10. CASE GetBlock
  <2>1. BlocksInPlace' /\ GotIsNext'
    BY <1>0, <1>9, <1>10, GetInPlace DEF GetBlock
  <2>2. \/ pc' # "idle" /\ UNCHANGED count
        \/ pc' = "idle" /\ last' = [op |-> "get", arg |-> 0, code |-> QNICLL_ERR_NONE]
             /\ count' = [count EXCEPT !.taken = @ + 1]
    BY <1>9, <1>10 DEF GetBlock, qnicll_get_filled_rx_buf, EnterRefill, Deliver, Returns
  <2>3. count'.ses = count.ses
    BY <1>0, <2>2
  <2>4. count' = [count EXCEPT !.taken = @ + 1] => count'.taken = count.taken + 1
    BY <1>0
  <2> QED
    BY <1>9, <1>10, <2>1, <2>2, <2>3, <2>4, GetPlaced DEF GetBlock
<1>11. CASE ReturnBlock
  <2>1. BlocksInPlace' /\ GotIsNext'
    BY <1>0, <1>9, <1>11, ReturnInPlace DEF ReturnBlock
  <2>2. UNCHANGED count
    BY <1>9, <1>11 DEF ReturnBlock, qnicll_return_rx_buf, EnterRefill
  <2> QED
    BY <1>9, <1>11, <2>1, <2>2, ReturnPlaced DEF ReturnBlock
<1>12. CASE Resume
  <2>1. Refilled /\ at = pc /\ at \in {"get", "return"}
    BY <1>12 DEF Resume, Refilled, Order
  <2>2. BlocksInPlace' /\ GotIsNext'
    BY <1>0, <1>9, <2>1, RefilledInPlace
  <2>3. CASE at = "get"
    <3>1. pc' = "idle" /\ last' = [op |-> "get", arg |-> 0, code |-> QNICLL_ERR_NONE]
          /\ count' = [count EXCEPT !.taken = @ + 1]
      BY <2>1, <2>3 DEF Refilled, Deliver, Returns
    <3>2. count'.ses = count.ses /\ count'.taken = count.taken + 1
      BY <1>0, <3>1
    <3> QED
      BY <1>9, <1>12, <2>2, <2>3, <3>1, <3>2, GetPlaced DEF Resume
  <2>4. CASE at = "return"
    <3>1. UNCHANGED count
      BY <2>1, <2>4 DEF Refilled
    <3> QED
      BY <1>9, <1>12, <2>2, <2>4, <3>1, ReturnPlaced DEF Resume
  <2> QED
    BY <2>1, <2>3, <2>4
<1>13. CASE GivesUp
  <2>1. pc' = "idle" /\ last'.code # QNICLL_ERR_NONE
    BY <1>13 DEF GivesUp, RefillFails, Returns, QNICLL_ERR_BUG, QNICLL_ERR_NONE
  <2>2. at' = "exit1"
    BY <1>13, <2>1 DEF GivesUp, Got, Returned, C
  <2> QED
    BY <2>2 DEF Placed, Before, During, After
<1>14. CASE WriteFile
  <2>1. at' \in {"return", "write", "exit1"} /\ at = "write" /\ UNCHANGED <<dpvars, loc>>
    BY <1>14 DEF WriteFile, Wrote
  <2>2. UNCHANGED <<st, adc, dac, pc, last, got, app, count>>
    BY <2>1 DEF dpvars
  <2>3. BlocksInPlace /\ GotIsNext /\ count.ses = 1 /\ count.taken = loc.b_i + 1
        /\ Succeeded("get", 0)
    BY <2>1 DEF Placed, During, After
  <2>4. BlocksInPlace' /\ GotIsNext' /\ Succeeded("get", 0)'
    BY ONLY <2>2, <2>3 DEF BlocksInPlace, GotIsNext, Succeeded, LastWas
  <2> QED
    BY <2>1, <2>2, <2>3, <2>4 DEF Placed, Before, During, After
<1>15. CASE DisableTxRx \/ Finish
  <2>1. pc' = "idle"
    BY <1>15 DEF DisableTxRx, Finish, Disable, qnicll_done, Returns
  <2>2. at' \in {"done", "exit0", "exit1"}
    BY <1>15, <2>1 DEF DisableTxRx, Finish, C
  <2> QED
    BY <2>2 DEF Placed, Before, During, After
<1>16. CASE Capture
  <2>1. AdcFillsBlock /\ UNCHANGED <<at, loc>>
    BY <1>16 DEF Capture
  <2>2. at \notin After => BlocksInPlace' /\ GotIsNext'
    BY <1>0, <2>1, AdcInPlace DEF Placed
  <2>3. UNCHANGED <<count, pc, last>>
    BY <2>1 DEF AdcFillsBlock
  <2>4. Succeeded("get", 0) => Succeeded("get", 0)'
    BY <2>3 DEF Succeeded, LastWas
  <2> QED
    BY <2>1, <2>2, <2>3, <2>4 DEF Placed
<1>17. CASE UNCHANGED progvars
  <2>1. UNCHANGED <<st, adc, dac, pc, last, got, app, count>> /\ UNCHANGED <<at, loc>>
    BY <1>17 DEF progvars
  <2>2. at \notin After => BlocksInPlace' /\ GotIsNext'
    BY ONLY Placed, <2>1 DEF Placed, BlocksInPlace, GotIsNext, Succeeded, LastWas
  <2> QED
    BY <2>1, <2>2 DEF Placed, Succeeded, LastWas
<1> QED
  BY <1>1, <1>2, <1>3, <1>4, <1>5, <1>6, <1>7, <1>8, <1>10, <1>11, <1>12, <1>13, <1>14,
     <1>15, <1>16, <1>17 DEF ProgNext, ProgStep

\* How far the loops of tst.c have come with the file
Progress ==
  /\ loc.b_i <= loc.bufs
  /\ at \in Before => out.file = <<>>
  /\ at \in {"get", "write", "return"} => loc.b_i < loc.bufs
  /\ at = "write" => out.left > 0
  /\ prog = "tst" =>
       /\ at = "get" => Len(out.file) = Pieces * loc.b_i
       /\ at = "write" => Len(out.file) = Pieces * loc.b_i + (Pieces - out.left)
       /\ at = "return" => Len(out.file) = Pieces * loc.b_i + Pieces
       /\ at \in {"disable", "done", "exit0"} => Len(out.file) = Pieces * loc.bufs

LEMMA PieceNumber ==
  ASSUME NEW p \in Nat \ {0}, NEW b \in Nat, NEW k \in 0..p-1
  PROVE  (p * b + k) \div p = b /\ (p * b + k) % p = k
<1> DEFINE n == p * b + k
           q == n \div p
<1>1. n \in Nat /\ q \in Nat /\ p * q <= n /\ n < p * q + p /\ n % p = n - p * q
  OBVIOUS
<1>2. \A x, y \in Nat : x < y => p * x + p <= p * y
  <2> SUFFICES ASSUME NEW x \in Nat, NEW y \in Nat, x < y PROVE p * x + p <= p * y
    OBVIOUS
  <2>1. PICK d \in Nat : y = x + 1 + d
    <3>1. y - x - 1 \in Nat /\ y = x + 1 + (y - x - 1)
      OBVIOUS
    <3> QED
      BY <3>1
  <2>2. p * y = p * x + p + p * d /\ p * d \in Nat
    BY <2>1
  <2>3. p * x \in Nat
    OBVIOUS
  <2> QED
    BY <2>2, <2>3
<1>3. p * b \in Nat /\ p * q \in Nat
  BY <1>1
<1>4. ~(q < b) /\ ~(b < q)
  <2>1. q < b => p * q + p <= p * b
    BY <1>1, <1>2
  <2>2. b < q => p * b + p <= p * q
    BY <1>1, <1>2
  <2>3. n = p * b + k /\ k < p /\ k >= 0
    OBVIOUS
  <2> HIDE DEF n, q
  <2> QED
    BY <1>1, <1>3, <2>1, <2>2, <2>3
<1>5. q = b
  BY <1>1, <1>4
<1>6. n % p = k
  BY <1>1, <1>3, <1>5
<1> QED
  BY <1>5, <1>6

LEMMA Turn == ASSUME NEW p \in Nat, NEW b \in Nat PROVE p * (b + 1) = p * b + p
OBVIOUS

LEMMA ReturnedProgress ==
  ASSUME Typed, Progress, Returned, at \in {"get", "return"}, pc' # "idle" \/ at = "return",
         prog' = prog
  PROVE  Progress'
<1>1. /\ loc \in [pd : Nat, qty : Nat, bufs : Nat, b_i : Nat] /\ out' = out
      /\ Pieces \in Nat /\ loc.b_i \in Nat /\ loc.bufs \in Nat /\ loc.b_i < loc.bufs
  BY Amounts DEF Typed, Returned, Progress
<1>2. CASE pc' # "idle"
  <2>1. loc' = loc /\ at' = at
    BY <1>1, <1>2 DEF Returned, C
  <2> QED
    BY <1>1, <2>1 DEF Progress
<1>3. CASE pc' = "idle" /\ at = "return"
  <2>1. loc'.b_i = loc.b_i + 1 /\ loc'.bufs = loc.bufs
    BY <1>1, <1>3 DEF Returned
  <2>2. at' = "exit1" \/ at' = IF loc.b_i + 1 < loc.bufs THEN "get" ELSE "disable"
    BY <1>3, <2>1 DEF Returned, C, LoopFrom, Typed
  <2>3. prog = "tst" => Len(out.file) = Pieces * (loc.b_i + 1)
    BY <1>1, <1>3, Turn DEF Progress
  <2>4. loc.b_i + 1 < loc.bufs \/ loc.b_i + 1 = loc.bufs
    BY <1>1
  <2> QED
    BY <1>1, <2>1, <2>2, <2>3, <2>4 DEF Progress, Before
<1> QED
  BY <1>2, <1>3

LEMMA GotProgress ==
  ASSUME Typed, Progress, Got, at = "get"
  PROVE  Progress'
<1>1. /\ loc' = loc /\ out'.file = out.file /\ out'.left = Pieces /\ prog' = prog
      /\ Pieces \in Nat \ {0} /\ loc.b_i < loc.bufs
  BY Amounts DEF Typed, Got, Progress
<1>2. \/ at' \in {"get", "exit1"}
      \/ prog = "tst" /\ at' = "write"
      \/ prog # "tst" /\ at' \in {"return", "disable"}
  BY DEF Got, C
<1>3. loc.b_i \in Nat /\ Pieces * loc.b_i \in Nat
  BY <1>1 DEF Typed
<1>4. Len(out'.file) = Len(out.file)
  BY <1>1
<1> QED
  BY <1>1, <1>2, <1>3, <1>4 DEF Progress, Before

\* The length of a file that was appended to, and what is found in it
LEMMA Appended ==
  ASSUME NEW S, NEW a \in Seq(S), NEW b \in Seq(S)
  PROVE  /\ Len(a \o b) = Len(a) + Len(b)
         /\ \A i \in 1..Len(a \o b) :
              (a \o b)[i] = IF i <= Len(a) THEN a[i] ELSE b[i - Len(a)]
OBVIOUS

LEMMA WriteProgress == Typed /\ Progress /\ WriteFile => Progress'
<1> SUFFICES ASSUME Typed, Progress, WriteFile PROVE Progress'
  OBVIOUS
<1>1. at = "write" /\ UNCHANGED <<prog, loc>>
  BY DEF WriteFile
<1>2. CASE at' = "exit1"
  BY <1>1, <1>2 DEF Progress, Before
<1>3. ASSUME NEW sz \in 1..out.left, at' = Wrote(sz),
             out' = [left |-> out.left - sz,
                     file |-> out.file \o [i \in 1..sz |-> <<WhatIsThere, From + i - 1>>]]
      PROVE  Progress'
  <2>1. out.left \in Nat /\ Pieces \in Nat /\ loc.b_i \in Nat /\ Pieces * loc.b_i \in Nat
    BY Amounts DEF Typed
  <2>2. Len(out'.file) = Len(out.file) + sz /\ out'.left = out.left - sz
    <3>1. NewPieces(sz) \in Seq(Blocks \X Nat) /\ Len(NewPieces(sz)) = sz
      BY NewPiecesAre
    <3>2. out.file \in Seq(Blocks \X Nat)
      BY DEF Typed
    <3>3. Len(out.file \o NewPieces(sz)) = Len(out.file) + Len(NewPieces(sz))
      BY ONLY <3>1, <3>2, Appended
    <3> QED
      BY <1>3, <3>1, <3>3 DEF NewPieces
  <2>3. sz \in Nat /\ 1 <= sz /\ sz <= out.left
    BY <2>1
  <2>4. \/ sz = out.left /\ at' = "return"
        \/ sz < out.left /\ at' = "write"
    BY <1>3, <2>1, <2>3 DEF Wrote
  <2>5. prog = "tst" => Len(out.file) = Pieces * loc.b_i + (Pieces - out.left)
    BY <1>1 DEF Progress
  <2>6. loc.b_i < loc.bufs /\ loc.b_i <= loc.bufs
    BY <1>1 DEF Progress
  <2>7. prog = "tst" => Len(out'.file) = Pieces * loc.b_i + (Pieces - out'.left)
    <3> DEFINE m == Pieces * loc.b_i
               l == out.left
               n == Len(out.file)
    <3>1. m \in Nat /\ l \in Nat /\ Pieces \in Nat /\ sz \in Nat
      BY <2>1, <2>3
    <3>2. prog = "tst" => n = m + (Pieces - l)
      BY <2>5
    <3>3. Len(out'.file) = n + sz /\ out'.left = l - sz
      BY <2>2
    <3>4. prog = "tst" => n + sz = m + (Pieces - (l - sz))
      <4> HIDE DEF m, l, n
      <4> QED
        BY <3>1, <3>2
    <3> QED
      BY <3>3, <3>4
  <2>8. sz = out.left => out'.left = 0
    BY <2>1, <2>2
  <2>9. sz < out.left => out'.left > 0
    BY <2>1, <2>2, <2>3
  <2>10. loc' = loc /\ prog' = prog
    BY <1>1
  <2>11. CASE sz = out.left /\ at' = "return"
    <3>1. prog = "tst" => Len(out'.file) = Pieces * loc.b_i + Pieces
      BY <2>1, <2>7, <2>8, <2>11
    <3> QED
      BY <2>6, <2>10, <2>11, <3>1 DEF Progress, Before
  <2>12. CASE sz < out.left /\ at' = "write"
    BY <2>6, <2>7, <2>9, <2>10, <2>12 DEF Progress, Before
  <2> QED
    BY <2>4, <2>11, <2>12
<1> QED
  BY <1>2, <1>3 DEF WriteFile

LEMMA ProgressBefore ==
  ASSUME Progress, at \in Before, loc'.b_i = 0, loc'.bufs \in Nat, out' = out, prog' = prog,
         at' \in Before \cup {"done", "exit0", "exit1"},
         at' \in {"done", "exit0"} => prog # "tst"
  PROVE  Progress'
BY DEF Progress, Before

\* The loop is entered with nothing in the file, and is left at once if there is
\* nothing to take.
LEMMA EnableProgress ==
  ASSUME Typed, Progress, at = "enable", loc.b_i = 0, UNCHANGED <<prog, loc, out>>,
         at' \in {"enable", "exit1", LoopFrom(0)}
  PROVE  Progress'
<1>1. loc.bufs \in Nat /\ Pieces \in Nat /\ Len(out.file) = 0 /\ out.file = <<>>
  BY Amounts DEF Typed, Progress, Before
<1>2. Pieces * 0 = 0
  BY <1>1
<1>3. CASE at' \in {"enable", "exit1"}
  BY <1>1, <1>3 DEF Progress, Before
<1>4. CASE at' = "get" /\ 0 < loc.bufs
  BY <1>1, <1>2, <1>4 DEF Progress, Before
<1>5. CASE at' = "disable" /\ loc.bufs = 0
  BY <1>1, <1>2, <1>5 DEF Progress, Before
<1> QED
  BY <1>1, <1>3, <1>4, <1>5 DEF LoopFrom

LEMMA StepProgress ==
  Typed /\ Order /\ Placed /\ Progress /\ [ProgNext]_progvars => Progress'
<1> SUFFICES ASSUME Typed, Order, Placed, Progress, [ProgNext]_progvars PROVE Progress'
  OBVIOUS
<1>0. /\ loc \in [pd : Nat, qty : Nat, bufs : Nat, b_i : Nat]
      /\ at \in Before => loc.b_i = 0
  BY DEF Typed, Placed
<1>1. CASE Connect \/ MakeTxBuf \/ PushTxBuf \/ SetNum
  <2>1. at \in Before /\ UNCHANGED <<prog, loc, out>> /\ at' \in Before \cup {"exit1"}
    BY <1>1 DEF Connect, MakeTxBuf, PushTxBuf, SetNum, C, Before
  <2> QED
    BY <1>0, <2>1, ProgressBefore DEF Before
<1>2. CASE Command
  <2>1. at = "cmd" /\ prog = "c" /\ UNCHANGED <<prog, loc, out>>
        /\ at' \in {"exit0", "done", "exit1"}
    BY <1>2 DEF Command, Order
  <2> QED
    BY <1>0, <2>1, ProgressBefore DEF Before
<1>3. CASE Set \/ OpenFile
  <2>1. at \in Before /\ UNCHANGED <<prog, loc, out>> /\ at' \in Before \cup {"exit1"}
    BY <1>3 DEF Set, OpenFile, Before
  <2> QED
    BY <1>0, <2>1, ProgressBefore DEF Before
<1>4. CASE SetPd \/ SetQty
  <2>1. at \in Before /\ UNCHANGED <<prog, out>> /\ at' \in Before \cup {"exit1"}
    BY <1>4 DEF SetPd, SetQty, Before
  <2>2. loc'.b_i = loc.b_i /\ loc'.bufs = loc.bufs
    BY <1>0, <1>4 DEF SetPd, SetQty
  <2> QED
    BY <1>0, <2>1, <2>2, ProgressBefore DEF Before
<1>5. CASE SetRxBufSize
  <2>1. at = "rx" /\ UNCHANGED <<prog, out>> /\ at' \in {"rx", "exit1", "enable", "open"}
    BY <1>5 DEF SetRxBufSize, C
  <2>2. CapLen \in Nat /\ st'.rx_sz = Quads(CapLen)
    BY <1>5, <2>1, Amounts
       DEF CapLen, SetRxBufSize, qnicll_set_rx_buf_sz_samps, Typed, TypeOK, StTypes
  <2>3. loc'.b_i = loc.b_i /\ loc'.bufs = CeilDiv(CapLen, st'.rx_sz)
    BY <1>0, <1>5 DEF SetRxBufSize
  <2>4. loc'.bufs \in Nat
    BY <2>2, <2>3, QuadsNat, CeilDivNat
  <2> QED
    BY <1>0, <2>1, <2>3, <2>4, ProgressBefore DEF Before
<1>6. CASE EnableTxRx
  <2>1. at = "enable" /\ UNCHANGED <<prog, loc, out>> /\ at' \in {"enable", "exit1", LoopFrom(0)}
    BY <1>6 DEF EnableTxRx, C
  <2> QED
    BY <1>0, <2>1, EnableProgress DEF Before
<1>7. CASE GetBlock
  BY <1>7, GotProgress DEF GetBlock
<1>8. CASE ReturnBlock
  BY <1>8, ReturnedProgress DEF ReturnBlock, Returned
<1>9. CASE Resume \/ GivesUp
  <2>1. at \in {"get", "return"} /\ (at = "get" => Got) /\ (at # "get" => Returned)
    BY <1>9 DEF Resume, GivesUp, Refilled, RefillFails, Order
  <2>2. CASE at = "get"
    BY <2>1, <2>2, GotProgress
  <2>3. CASE at = "return"
    BY <2>1, <2>3, ReturnedProgress DEF Returned
  <2> QED
    BY <2>1, <2>2, <2>3
<1>10. CASE WriteFile
  BY <1>10, WriteProgress
<1>11. CASE DisableTxRx \/ Finish
  <2>1. UNCHANGED <<prog, loc, out>>
    BY <1>11 DEF DisableTxRx, Finish
  <2>2. \/ at = "disable" /\ at' \in {"disable", "done", "exit1"}
        \/ at = "done" /\ at' = "exit0"
    BY <1>11 DEF DisableTxRx, Finish, C
  <2> QED
    BY <2>1, <2>2 DEF Progress, Before
<1>12. CASE Capture \/ UNCHANGED progvars
  <2>1. UNCHANGED <<prog, at, loc, out>>
    BY <1>12 DEF Capture, progvars
  <2> QED
    BY <2>1 DEF Progress
<1> QED
  BY <1>1, <1>2, <1>3, <1>4, <1>5, <1>6, <1>7, <1>8, <1>9, <1>10, <1>11, <1>12
     DEF ProgNext, ProgStep

-----------------------------------------------------------------------------
(* What is in the file. *)

\* At write(), rx_buf points to the block of this turn of the loop.
LEMMA BlockToWrite ==
  ASSUME Typed, Placed, at = "write"
  PROVE  WhatIsThere = [ses |-> 1, seq |-> loc.b_i + 1]
<1>1. Succeeded("get", 0) /\ GotIsNext /\ count.ses = 1 /\ count.taken = loc.b_i + 1
  BY DEF Placed, During, After
<1> QED
  BY <1>1 DEF GotIsNext, WhatIsThere

LEMMA StepFile ==
  Typed /\ Order /\ Placed /\ Progress /\ FileIsCapture /\ [ProgNext]_progvars
    => FileIsCapture'
<1> SUFFICES ASSUME Typed, Order, Placed, Progress, FileIsCapture, [ProgNext]_progvars
             PROVE  FileIsCapture'
  OBVIOUS
<1>1. CASE out'.file = out.file
  BY <1>1 DEF FileIsCapture
<1>2. ASSUME at = "write", NEW sz \in 1..out.left,
             out' = [left |-> out.left - sz,
                     file |-> out.file \o [i \in 1..sz |-> <<WhatIsThere, From + i - 1>>]]
      PROVE  FileIsCapture'
  <2> DEFINE m == Pieces * loc.b_i
             n == Len(out.file)
             l == out.left
  <2>1. l \in 0..Pieces /\ Pieces \in Nat \ {0} /\ loc.b_i \in Nat /\ m \in Nat /\ sz \in 1..l
    BY Amounts DEF Typed
  <2>2. n = m + (Pieces - l)
    BY <1>2 DEF Progress, Order
  <2>3. /\ NewPieces(sz) \in Seq(Blocks \X Nat) /\ Len(NewPieces(sz)) = sz
        /\ out.file \in Seq(Blocks \X Nat) /\ out'.file = out.file \o NewPieces(sz)
    BY <1>2, NewPiecesAre DEF Typed, NewPieces
  <2>4. /\ Len(out'.file) = n + sz
        /\ \A i \in 1..n + sz : out'.file[i] = IF i <= n THEN out.file[i] ELSE NewPieces(sz)[i - n]
        /\ DOMAIN out'.file = 1..n + sz /\ DOMAIN out.file = 1..n /\ n \in Nat
    <3>1. out'.file \in Seq(Blocks \X Nat)
      BY <2>3
    <3>2. DOMAIN out'.file = 1..Len(out'.file) /\ DOMAIN out.file = 1..n /\ n \in Nat
      BY ONLY <2>3, <3>1
    <3> DEFINE new == NewPieces(sz)
    <3>3. /\ Len(out.file \o new) = Len(out.file) + Len(new)
          /\ \A i \in 1..Len(out.file \o new) :
               (out.file \o new)[i]
                 = IF i <= Len(out.file) THEN out.file[i] ELSE new[i - Len(out.file)]
      <4> HIDE DEF new
      <4> QED
        BY ONLY <2>3, Appended
    <3>4. Len(new) = sz /\ out'.file = out.file \o new
      BY ONLY <2>3
    <3> HIDE DEF new
    <3>5. Len(out'.file) = n + sz
      BY ONLY <3>3, <3>4
    <3>6. \A i \in 1..n + sz : out'.file[i] = IF i <= n THEN out.file[i] ELSE new[i - n]
      BY ONLY <3>3, <3>4
    <3> QED
      BY ONLY <3>2, <3>5, <3>6 DEF new
  <2>5. ASSUME NEW i \in 1..n + sz
        PROVE  out'.file[i] = <<[ses |-> 1, seq |-> (i - 1) \div Pieces + 1],
                                ((i - 1) % Pieces) + 1>>
    <3>1. CASE i <= n
      <4>1. i \in DOMAIN out.file /\ out'.file[i] = out.file[i]
        BY <2>4, <3>1
      <4> QED
        BY <4>1 DEF FileIsCapture
    <3>2. CASE i > n
      <4> DEFINE k == Pieces - l + (i - n) - 1
      <4>1. i - n \in 1..sz
        BY <2>1, <2>4, <3>2
      <4>2. k \in 0..Pieces - 1 /\ i - 1 = m + k /\ From + (i - n) - 1 = k + 1
        <5>1. From = Pieces - l + 1
          BY DEF From
        <5>2. n \in Nat /\ i \in Nat
          BY <2>1, <2>4
        <5> HIDE DEF m, n, l
        <5>3. k \in 0..Pieces - 1
          BY ONLY <2>1, <4>1, <5>2
        <5>4. i - 1 = m + k
          BY ONLY <2>1, <2>2, <4>1, <5>2
        <5>5. From + (i - n) - 1 = k + 1
          BY ONLY <2>1, <4>1, <5>1, <5>2
        <5> QED
          BY ONLY <5>3, <5>4, <5>5
      <4>3. (i - 1) \div Pieces = loc.b_i /\ (i - 1) % Pieces = k
        <5>1. (Pieces * loc.b_i + k) \div Pieces = loc.b_i
              /\ (Pieces * loc.b_i + k) % Pieces = k
          BY <2>1, <4>2, PieceNumber
        <5>2. i - 1 = Pieces * loc.b_i + k
          BY <4>2
        <5> HIDE DEF k
        <5> QED
          BY <5>1, <5>2
      <4>4. out'.file[i] = <<WhatIsThere, From + (i - n) - 1>>
        <5>1. out'.file[i] = NewPieces(sz)[i - n]
          BY <2>4, <3>2
        <5> HIDE DEF n
        <5> QED
          BY ONLY <4>1, <5>1 DEF NewPieces
      <4>5. WhatIsThere = [ses |-> 1, seq |-> loc.b_i + 1]
        BY <1>2, BlockToWrite
      <4> HIDE DEF k, n, m, l
      <4> QED
        BY <4>2, <4>3, <4>4, <4>5
    <3> QED
      BY <2>4, <3>1, <3>2
  <2> QED
    BY <2>4, <2>5 DEF FileIsCapture
<1>3. CASE WriteFile
  BY <1>1, <1>2, <1>3 DEF WriteFile
<1>4. CASE ~WriteFile
  <2>1. out' = out \/ out' = [out EXCEPT !.left = Pieces]
    BY <1>4 DEF progvars, ProgNext, ProgStep, Connect, Command, Set, MakeTxBuf, PushTxBuf,
       SetPd, SetQty, SetNum, SetRxBufSize, OpenFile, EnableTxRx, GetBlock, ReturnBlock,
       Resume, GivesUp, Got, Returned, DisableTxRx, Finish, Capture
  <2>2. out \in [left : 0..Pieces, file : Seq(Blocks \X Nat)]
    BY DEF Typed
  <2> QED
    BY <1>1, <2>1, <2>2
<1> QED
  BY <1>3, <1>4

-----------------------------------------------------------------------------
(* The theorems about the file and the end. *)

AllOfIt == Reported /\ Typed /\ Order /\ Held /\ Placed /\ Progress /\ FileIsCapture

LEMMA InitAllOfIt == Reported /\ ProgInit => AllOfIt
<1> SUFFICES ASSUME Reported, ProgInit PROVE AllOfIt
  OBVIOUS
<1>1. at = "init" /\ loc.b_i = 0 /\ loc.bufs = 0 /\ out.file = <<>> /\ Init
  BY DEF ProgInit
<1>2. Held
  BY <1>1 DEF Held, Init, Before, During
<1>3. Placed
  <2>1. BlocksInPlace /\ GotIsNext /\ count.ses = 0
    BY <1>1 DEF Init, BlocksInPlace, GotIsNext, Succeeded, LastWas, NoBlock
  <2> QED
    BY <1>1, <2>1 DEF Placed, Before, During
<1>4. Progress /\ FileIsCapture
  BY <1>1 DEF Progress, FileIsCapture, Before
<1> QED
  BY <1>2, <1>3, <1>4, InitTypedProg, InitInOrder DEF AllOfIt

LEMMA StepAllOfIt == AllOfIt /\ [ProgNext]_progvars => AllOfIt'
<1>1. Reported = Reported'
  BY DEF Reported
<1> QED
  BY <1>1, StepTypedProg, StepInOrder, StepHeld, StepPlaced, StepProgress, StepFile
     DEF AllOfIt

\* The period and the quantity are what was granted.
Granted == loc.pd \in Pds \cup {0} /\ loc.qty \in Qtys \cup {0}

LEMMA StepGranted == Typed /\ Granted /\ [ProgNext]_progvars => Granted'
<1> SUFFICES ASSUME Typed, Granted, [ProgNext]_progvars PROVE Granted'
  OBVIOUS
<1>0. loc \in [pd : Nat, qty : Nat, bufs : Nat, b_i : Nat]
  BY DEF Typed
<1>1. CASE SetPd \/ SetQty
  BY <1>0, <1>1 DEF SetPd, SetQty, Granted
<1>2. CASE ~(SetPd \/ SetQty)
  <2>1. loc'.pd = loc.pd /\ loc'.qty = loc.qty
    BY <1>0, <1>2 DEF progvars, ProgNext, ProgStep, Connect, Command, Set, MakeTxBuf,
       PushTxBuf, SetNum, SetRxBufSize, OpenFile, EnableTxRx, GetBlock, WriteFile,
       ReturnBlock, Resume, GivesUp, Got, Returned, DisableTxRx, Finish, Capture
  <2> QED
    BY <2>1 DEF Granted
<1> QED
  BY <1>1, <1>2

(***************************************************************************)
(* The variables of the programs keep their types: the loop of tst.c takes *)
(* no more blocks than it set out to, and leaves no piece beyond a block.  *)
(***************************************************************************)
THEOREM ProgramsTyped == Reported => (ProgSpec => []ProgTypeOK)
<1>1. ProgInit => Granted
  BY DEF ProgInit, Granted
<1>2. AllOfIt /\ Granted /\ [ProgNext]_progvars => Granted'
  BY StepGranted DEF AllOfIt
<1>3. AllOfIt /\ Granted => ProgTypeOK
  <2> SUFFICES ASSUME AllOfIt, Granted PROVE ProgTypeOK
    OBVIOUS
  <2>1. Typed /\ Progress
    BY DEF AllOfIt
  <2>2. loc.bufs \in Nat /\ loc.b_i \in Nat /\ loc.b_i <= loc.bufs
    BY <2>1 DEF Typed, Progress
  <2>3. loc.b_i \in 0..loc.bufs
    BY <2>2
  <2> QED
    BY <2>1, <2>2, <2>3 DEF Typed, Granted, ProgTypeOK, Before, During, After
<1> QED
  BY <1>1, <1>2, <1>3, InitAllOfIt, StepAllOfIt, PTL DEF ProgSpec

(***************************************************************************)
(* What tst.c has written to out/d.raw is the capture from its first       *)
(* block, in order, every piece once: for any periods, quantities and      *)
(* parts that write() takes, whatever libiio reports to fail.              *)
(***************************************************************************)
THEOREM CaptureInFile == Reported => (ProgSpec => []FileIsCapture)
<1>1. AllOfIt => FileIsCapture
  BY DEF AllOfIt
<1> QED
  BY <1>1, InitAllOfIt, StepAllOfIt, PTL DEF ProgSpec

(***************************************************************************)
(* A program that exits with 0 has closed both buffers, and tst.c has      *)
(* written every block it set out to take.                                 *)
(***************************************************************************)
THEOREM ExitsComplete == Reported => (ProgSpec => []ExitIsComplete)
<1>1. AllOfIt => ExitIsComplete
  BY DEF AllOfIt, Held, Progress, ExitIsComplete
<1> QED
  BY <1>1, InitAllOfIt, StepAllOfIt, PTL DEF ProgSpec

=============================================================================
