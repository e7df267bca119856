--------------------------- MODULE QregcApiProofs ---------------------------
(***************************************************************************)
(* Qregc implements QregApi when each read() gets all it asks for and      *)
(* every reply fits in rxbuf, for any registers, numerals, replies to raw  *)
(* commands and number of calls, wherever the connection fails.            *)
(***************************************************************************)
EXTENDS QregcProofs

WholeReads == ~ShortReads /\ \A text \in CmdTexts : Len(text) <= RxCap

-----------------------------------------------------------------------------
(* The inductive invariant: no caller loses its place, careful or not. *)

Replies == IF call.op = "set" THEN {ErrText, OkText(reg[call.reg])} ELSE CmdTexts

\* What has come of the reply to the present call, or all that ever will
SomeOfFrame ==
  stream = <<>> \/ \E text \in Replies : \E k \in 0..4+Len(text) : stream = Front(Frame(text), k)
SomeOfText ==
  \E text \in Replies : \E k \in 0..Len(text) : stream = Front(text, k) /\ want = Len(text)

InStep ==
  /\ pc = "idle" => Quiet /\ stream = <<>> /\ ReturnedIsActual
  /\ pc # "idle" => call.op \in {"set", "cmd"} /\ conn \in {"up", "closed"}
  /\ pc = "hdr"  => Waiting \/ (reqs = <<>> /\ SomeOfFrame)
  /\ pc = "body" => reqs = <<>> /\ SomeOfText

Inductive == WholeReads /\ TypeOK /\ Gone /\ InStep

LEMMA RepliesAre ==
  ASSUME WholeReads, reg \in RegVals, call \in Requests, NEW text \in Replies
  PROVE  /\ text \in Seq(Byte) /\ Len(text) \in 0..RxCap /\ Len(text) \in 0..MaxInt
         /\ \A mem : Memory(mem) /\ Holds(mem, text) /\ call.op = "set" =>
              Result(call, mem) = Failed \/ Result(call, mem) = Done(reg[call.reg])
<1>1. CASE call.op = "set"
  <2>1. /\ text \in Seq(Byte) /\ Len(text) \in 1..RxCap /\ Len(text) \in 0..MaxInt
        /\ \A mem : Memory(mem) /\ Holds(mem, text) =>
             Result(call, mem) = Failed \/ Result(call, mem) = Done(reg[call.reg])
    BY <1>1, ComingIs DEF Replies
  <2>2. \A n \in 1..RxCap : n \in 0..RxCap
    BY RxCapType
  <2> QED
    BY <2>1, <2>2
<1>2. CASE call.op # "set"
  <2>1. text \in Seq(Byte) /\ Len(text) \in 0..MaxInt /\ Len(text) <= RxCap
    BY <1>2, CmdTextIs DEF Replies, WholeReads
  <2> QED
    BY <1>2, <2>1, RxCapType, MaxIntType
<1> QED
  BY <1>1, <1>2

LEMMA InitInductive == WholeReads /\ Init => Inductive
<1> SUFFICES ASSUME WholeReads, Init PROVE Inductive
  OBVIOUS
<1>1. TypeOK
  BY InitTypeOK
<1> QED
  BY <1>1 DEF Init, Inductive, Gone, InStep, Quiet, ReturnedIsActual, SetReturned

-----------------------------------------------------------------------------
(* A request that gets an answer is waited for, unless it was lost. *)
LEMMA RequestInStep ==
  ASSUME Inductive, pc = "idle", call' \in Requests, call'.op \in {"set", "cmd"},
         UNCHANGED <<conn, stream>>, pc' = "hdr", NEW ok, WrPkt(call', ok)
  PROVE  Gone' /\ InStep'
<1>1. stream = <<>> /\ Quiet /\ reqs \in Seq(Requests)
  BY DEF Inductive, InStep, TypeOK
<1>2. conn \in {"up", "closed"} /\ (conn = "closed" => reqs' = <<>>)
  BY DEF WrPkt, Inductive, Gone
<1>3. Gone'
  BY <1>1, <1>2 DEF Gone
<1>4. Waiting' \/ reqs' = <<>>
  <2>1. CASE conn = "closed"
    BY <1>2, <2>1
  <2>2. CASE conn = "up"
    <3>1. reqs' = Append(reqs, call')
      BY <2>2 DEF WrPkt
    <3>2. /\ Len(reqs) \in Nat /\ Len(reqs') = Len(reqs) + 1 /\ reqs'[Len(reqs)+1] = call'
          /\ reqs' # <<>>
          /\ \A i \in 1..Len(reqs) : reqs'[i] = reqs[i]
      BY <1>1, <3>1, AppendProperties
    <3>3. \A i \in 1..Len(reqs')-1 : reqs'[i].op \in {"shutdown", "quit"}
      BY <1>1, <3>2 DEF Quiet
    <3> QED
      BY <1>1, <3>2, <3>3 DEF Waiting
  <2> QED
    BY <1>2, <2>1, <2>2
<1> QED
  BY <1>1, <1>2, <1>3, <1>4 DEF InStep, SomeOfFrame

LEMMA CallsInStep == Inductive /\ Calls => Gone' /\ InStep'
<1> SUFFICES ASSUME Inductive, Calls PROVE Gone' /\ InStep'
  OBVIOUS
<1> USE DEF Enter
<1>1. /\ pc = "idle" /\ Quiet /\ stream = <<>> /\ ReturnedIsActual
      /\ Gone /\ reqs \in Seq(Requests) /\ conn \in {"down", "up", "closed", "closing"}
  BY DEF Calls, Inductive, InStep, TypeOK, qregc_connect, qregc_set, qregc_set_checked,
         qregc_do_cmd, qregc_shutdown, qregc_disconnect
<1>2. /\ [op |-> "quit"] \in Requests /\ [op |-> "cmd"] \in Requests
      /\ [op |-> "shutdown"] \in Requests
      /\ \A r \in Regs : [op |-> "set", reg |-> r] \in Requests
  BY DEF Requests
<1>3. CASE qregc_connect
  <2>1. stream' = <<>> /\ reqs' = <<>> /\ pc' = "idle" /\ call'.op = "quit"
    BY <1>1, <1>3 DEF qregc_connect, Gone
  <2>2. Quiet'
    BY <2>1 DEF Quiet
  <2> QED
    BY <2>1, <2>2 DEF Gone, InStep, ReturnedIsActual, SetReturned
<1>4. ASSUME NEW r \in Regs, qregc_set(r) PROVE Gone' /\ InStep'
  <2>1. PICK ok \in BOOLEAN : WrPkt(call', ok)
    BY <1>4 DEF qregc_set
  <2>2. call' \in Requests /\ call'.op = "set" /\ UNCHANGED <<conn, stream>> /\ pc' = "hdr"
    BY <1>2, <1>4 DEF qregc_set
  <2> QED
    BY <1>1, <2>1, <2>2, RequestInStep
\* A request that was not written leaves things as they were.
<1>5. ASSUME NEW ok, WrPkt(call', ok), UNCHANGED <<conn, stream>>, pc' = "idle",
             ~ok, ret' = Failed
      PROVE  Gone' /\ InStep'
  <2>1. UNCHANGED reqs
    BY <1>5 DEF WrPkt
  <2>2. Quiet'
    BY <1>1, <2>1 DEF Quiet
  <2> QED
    BY <1>1, <1>5, <2>1, <2>2 DEF Gone, InStep, ReturnedIsActual, SetReturned, Failed,
       QNICLL_ERR_NONE, QNICLL_ERR_BUG
<1>6. ASSUME NEW r \in Regs, qregc_set_checked(r) PROVE Gone' /\ InStep'
  <2>1. call' \in Requests /\ call'.op = "set" /\ UNCHANGED <<conn, stream>>
    BY <1>2, <1>6 DEF qregc_set_checked
  <2>2. \/ WrPkt(call', TRUE) /\ pc' = "hdr"
        \/ WrPkt(call', FALSE) /\ pc' = "idle" /\ ret' = Failed
    BY <1>6 DEF qregc_set_checked, Return
  <2> QED
    BY <1>1, <1>5, <2>1, <2>2, RequestInStep
<1>7. CASE qregc_do_cmd
  <2>1. call' \in Requests /\ call'.op = "cmd" /\ UNCHANGED <<conn, stream>>
    BY <1>2, <1>7 DEF qregc_do_cmd
  <2>2. \/ WrPkt(call', TRUE) /\ pc' = "hdr"
        \/ WrPkt(call', FALSE) /\ pc' = "idle" /\ ret' = Failed
    BY <1>7 DEF qregc_do_cmd
  <2> QED
    BY <1>1, <1>5, <2>1, <2>2, RequestInStep
<1>8. CASE qregc_shutdown \/ qregc_disconnect
  <2>1. PICK ok \in BOOLEAN : WrPkt(call', ok)
    BY <1>8 DEF qregc_shutdown, qregc_disconnect
  <2>2. /\ call' \in Requests /\ call'.op \in {"shutdown", "quit"} /\ pc' = "idle"
        /\ stream' = <<>>
    BY <1>1, <1>2, <1>8 DEF qregc_shutdown, qregc_disconnect, Return
  <2>3. Gone'
    BY <1>1, <1>8 DEF qregc_shutdown, qregc_disconnect, WrPkt, Gone
  <2>4. Quiet'
    BY <1>1, <2>1, <2>2, QuietAppend
  <2> QED
    BY <2>2, <2>3, <2>4 DEF InStep, ReturnedIsActual, SetReturned
<1> QED
  BY <1>3, <1>4, <1>6, <1>7, <1>8 DEF Calls

-----------------------------------------------------------------------------
(* A read() that gets all it asks for empties the stream, or leaves what   *)
(* is behind the part it asked for.                                        *)

LEMMA WholeRead ==
  ASSUME WholeReads, stream \in Seq(Byte), NEW n \in Int, NEW m \in ReadCounts(n)
  PROVE  /\ m \in 0..Len(stream)
         /\ m # n => m = Len(stream) /\ Rest(stream, m) = <<>>
<1>1. ShortReads \in BOOLEAN /\ ~ShortReads
  BY QregcAssumption DEF WholeReads
<1>2. m \in 0..Len(stream) /\ m <= n /\ Len(stream) \in Nat
  BY <1>1, ReadCountsType
<1>3. m # n => m = Len(stream)
  BY <1>1, <1>2 DEF ReadCounts, Smaller
<1>4. m = Len(stream) => Rest(stream, m) = <<>>
  <2> SUFFICES ASSUME m = Len(stream) PROVE Rest(stream, m) = <<>>
    OBVIOUS
  <2>1. Rest(stream, m) \in Seq(Byte) /\ Len(Rest(stream, m)) = 0
    BY <1>2, RestType
  <2> QED
    BY <2>1, EmptySeq
<1> QED
  BY <1>2, <1>3, <1>4

\* While a call waits for its request to be served, there is nothing to read.
LEMMA ReadsWhenSettled ==
  ASSUME Inductive, Reads
  PROVE  reqs = <<>> /\ (pc = "hdr" => SomeOfFrame)
<1>1. pc \in {"hdr", "body"} /\ (pc = "hdr" => ReadCounts(4) # {})
  BY DEF Reads, ReadHdr, ReadHdrFail, ReadBody, ReadBodyFail, ReadBodyNegative
<1>2. pc = "hdr" /\ stream = <<>> => conn # "up"
  BY <1>1 DEF ReadCounts
<1>3. pc = "hdr" => ~Waiting
  BY <1>1, <1>2 DEF Waiting, Inductive, InStep, Gone
<1> QED
  BY <1>1, <1>3 DEF Inductive, InStep

LEMMA HdrInStep ==
  ASSUME Inductive, ReadHdr
  PROVE  SomeOfText'
<1>0. /\ stream \in Seq(Byte) /\ reg \in RegVals /\ call \in Requests
      /\ RxCap \in Nat /\ WholeReads
  BY RxCapType DEF Inductive, TypeOK
<1>1. SomeOfFrame
  BY ReadsWhenSettled DEF Reads, ReadHdr
<1>2. 4 \in 0..Len(stream)
  BY <1>0, WholeRead DEF ReadHdr
<1>3. PICK text \in Replies : \E k \in 0..4+Len(text) : stream = Front(Frame(text), k)
  BY <1>1, <1>2 DEF SomeOfFrame
<1>4. PICK k \in 0..4+Len(text) : stream = Front(Frame(text), k)
  BY <1>3
<1>5. text \in Seq(Byte) /\ Len(text) \in 0..RxCap /\ Len(text) \in 0..MaxInt
  BY <1>0, RepliesAre
<1>6. k \in 4..4+Len(text)
  <2>1. Frame(text) \in Seq(Byte) /\ Len(Frame(text)) = 4 + Len(text)
    BY <1>5, FrameIs
  <2>2. k \in 0..Len(Frame(text))
    BY <2>1
  <2>3. Len(stream) = k
    BY <1>4, <2>1, <2>2, FrontType
  <2> QED
    BY <1>2, <1>5, <2>3
<1>7. Ntohl(stream) = Len(text) /\ Rest(stream, 4) = Front(text, k-4)
  BY <1>4, <1>5, <1>6, FrontOfFrame
<1>8. want' = Len(text) /\ stream' = Front(text, k-4)
  BY <1>0, <1>5, <1>7 DEF ReadHdr, Smaller
<1>9. k-4 \in 0..Len(text)
  BY <1>5, <1>6
<1>10. text \in Replies'
  BY DEF Replies, ReadHdr
<1> QED
  BY <1>8, <1>9, <1>10 DEF SomeOfText

\* What a call returns: the value in the register, for a setter that succeeds.
LEMMA BodyInStep ==
  ASSUME Inductive, ReadBody
  PROVE  /\ stream' = <<>>
         /\ \/ ret' = Failed
            \/ call.op = "set" /\ ret' = Done(reg[call.reg])
            \/ call.op = "cmd" /\ ret' = Done(<<>>)
<1>0. /\ stream \in Seq(Byte) /\ reg \in RegVals /\ call \in Requests
      /\ want \in Int /\ WholeReads /\ SomeOfText /\ Memory(rxbuf) /\ call.op \in {"set", "cmd"}
  BY TypeIs DEF Inductive, InStep, ReadBody
<1>1. want \in 0..Len(stream)
  BY <1>0, WholeRead DEF ReadBody
<1>2. PICK text \in Replies : \E k \in 0..Len(text) : stream = Front(text, k) /\ want = Len(text)
  BY <1>0 DEF SomeOfText
<1>3. PICK k \in 0..Len(text) : stream = Front(text, k) /\ want = Len(text)
  BY <1>2
<1> DEFINE mem == EndAt(Overwrite(text), Len(text))
<1>4. /\ text \in Seq(Byte) /\ Len(text) \in Nat /\ Memory(mem)
      /\ call.op = "set" => Result(call, mem) = Failed \/ Result(call, mem) = Done(reg[call.reg])
  <2>1. /\ text \in Seq(Byte) /\ Len(text) \in 0..RxCap
        /\ \A memory : Memory(memory) /\ Holds(memory, text) /\ call.op = "set" =>
             Result(call, memory) = Failed \/ Result(call, memory) = Done(reg[call.reg])
    BY <1>0, RepliesAre
  <2>2. Memory(mem) /\ Holds(mem, text)
    BY <1>0, <2>1, RxCapType, ReadText
  <2> QED
    BY <2>1, <2>2
<1>5. k = Len(text)
  BY <1>1, <1>3, <1>4, FrontType
<1>6. stream = text /\ Front(stream, want) = text
  BY <1>3, <1>4, <1>5, SubSeqFull DEF Front
<1>7. stream' = <<>>
  <2>1. stream' = Rest(stream, Len(stream))
    BY <1>3, <1>6 DEF ReadBody
  <2>2. Rest(stream, Len(stream)) \in Seq(Byte) /\ Len(Rest(stream, Len(stream))) = 0
    BY <1>0, <1>4, <1>6, RestType
  <2> QED
    BY <2>1, <2>2, EmptySeq
<1>8. ret' = Result(call, mem)
  BY <1>3, <1>6 DEF ReadBody, Finish, Return
<1>9. call.op = "cmd" => Result(call, mem) \in {Failed, Done(<<>>)}
  BY DEF Result
<1> QED
  BY <1>0, <1>4, <1>7, <1>8, <1>9

LEMMA FailInStep ==
  ASSUME Inductive, ReadHdrFail \/ ReadBodyFail
  PROVE  /\ stream' = <<>>
         /\ ret' = Failed \/ (call.op = "cmd" /\ ret' = Done(<<>>))
<1>a. pc \in {"hdr", "body"} /\ TypeOK /\ WholeReads /\ InStep
  BY DEF Inductive, ReadHdrFail, ReadBodyFail
<1>0. stream \in Seq(Byte) /\ want \in Int /\ call.op \in {"set", "cmd"}
  BY <1>a, TypeIs DEF InStep
<1>1. stream' = <<>>
  <2>1. CASE ReadHdrFail
    BY <1>0, <1>a, <2>1, WholeRead DEF ReadHdrFail
  <2>2. CASE ReadBodyFail
    BY <1>0, <1>a, <2>2, WholeRead DEF ReadBodyFail
  <2> QED
    BY <2>1, <2>2
<1>2. call.op = "set" => ret' = Failed
  BY <1>a, ShortReadFails
<1>3. call.op = "cmd" => ret' \in {Failed, Done(<<>>)}
  BY DEF ReadHdrFail, ReadBodyFail, Finish, Return, Result
<1> QED
  BY <1>0, <1>1, <1>2, <1>3

\* No reply has a negative length.
LEMMA NoNegativeRead ==
  ASSUME Inductive
  PROVE  ~ReadBodyNegative
<1> SUFFICES ASSUME ReadBodyNegative PROVE FALSE
  OBVIOUS
<1>1. SomeOfText /\ want < 0
  BY DEF ReadBodyNegative, Inductive, InStep
<1>2. PICK text \in Replies : want = Len(text)
  BY <1>1 DEF SomeOfText
<1>3. text \in Seq(Byte)
  BY <1>2, RepliesAre, TypeIs DEF Inductive
<1> QED
  BY <1>1, <1>2, <1>3, LenProperties

LEMMA ReadsInStep == Inductive /\ Reads => Gone' /\ InStep'
<1> SUFFICES ASSUME Inductive, Reads PROVE Gone' /\ InStep'
  OBVIOUS
<1>1. /\ reqs = <<>> /\ UNCHANGED <<conn, reqs, reg, call>>
      /\ call.op \in {"set", "cmd"} /\ conn \in {"up", "closed"}
  BY ReadsWhenSettled DEF Reads, ReadHdr, ReadHdrFail, ReadBody, ReadBodyFail, ReadBodyNegative, Finish,
     Inductive, InStep
<1>2. Gone' /\ Quiet'
  BY <1>1 DEF Gone, Quiet
<1>3. CASE ReadHdr
  <2>1. pc' = "body" /\ SomeOfText'
    BY <1>3, HdrInStep DEF ReadHdr
  <2> QED
    BY <1>1, <1>2, <2>1 DEF InStep
<1>4. CASE ReadBody
  <2>1. pc' = "idle"
    BY <1>4 DEF ReadBody, Finish, Return
  <2>2. ReturnedIsActual'
    BY <1>1, <1>4, BodyInStep DEF ReturnedIsActual, SetReturned, Done, Failed,
       QNICLL_ERR_NONE, QNICLL_ERR_BUG
  <2> QED
    BY <1>2, <1>4, <2>1, <2>2, BodyInStep DEF InStep
<1>5. CASE ReadHdrFail \/ ReadBodyFail
  <2>1. pc' = "idle"
    BY <1>5 DEF ReadHdrFail, ReadBodyFail, Finish, Return
  <2>2. ReturnedIsActual'
    BY <1>1, <1>5, FailInStep DEF ReturnedIsActual, SetReturned, Failed,
       QNICLL_ERR_NONE, QNICLL_ERR_BUG
  <2> QED
    BY <1>2, <1>5, <2>1, <2>2, FailInStep DEF InStep
<1> QED
  BY <1>3, <1>4, <1>5, NoNegativeRead DEF Reads

-----------------------------------------------------------------------------
(* qregd and the network. *)

\* qregd answers only the request of a call that waits for it.
LEMMA ServedIsCall ==
  ASSUME Inductive, reqs # <<>>, Head(reqs).op \in {"set", "cmd"}
  PROVE  pc = "hdr" /\ Waiting /\ Head(reqs) = call /\ Tail(reqs) = <<>>
<1>1. reqs \in Seq(Requests) /\ pc \in {"idle", "hdr", "body"} /\ InStep
  BY DEF Inductive, TypeOK
<1>2. Len(reqs) \in Nat /\ Len(reqs) >= 1 /\ Head(reqs) = reqs[1]
  BY <1>1, HeadTailProperties, LenProperties, EmptySeq
<1>3. ~Quiet
  BY <1>2 DEF Quiet
<1>4. pc = "hdr" /\ Waiting
  BY <1>1, <1>3 DEF InStep
<1>5. 1 \notin 1..Len(reqs)-1
  BY <1>2, <1>4 DEF Waiting
<1>6. Len(reqs) = 1
  <2> DEFINE m == Len(reqs)
  <2>1. m \in Nat /\ m >= 1 /\ 1 \notin 1..m-1
    BY <1>2, <1>5
  <2> HIDE DEF m
  <2>2. m = 1
    BY <2>1
  <2> QED
    BY <2>2 DEF m
<1>7. Tail(reqs) \in Seq(Requests) /\ Len(Tail(reqs)) = 0
  BY <1>1, <1>6, HeadTailProperties
<1> QED
  BY <1>2, <1>4, <1>6, <1>7, EmptySeq DEF Waiting

LEMMA AnsweredInStep ==
  ASSUME Inductive, reqs # <<>>, Head(reqs).op \in {"set", "cmd"}, reqs' = Tail(reqs),
         reg' \in RegVals, UNCHANGED <<conn, pc, call>>,
         NEW text \in Replies', Reply(text)
  PROVE  Gone' /\ InStep'
<1>1. /\ pc = "hdr" /\ Waiting /\ call.op \in {"set", "cmd"} /\ reqs' = <<>>
      /\ call \in Requests /\ conn \in {"up", "closed"} /\ WholeReads /\ Gone
  BY ServedIsCall DEF Inductive, InStep, TypeOK
<1>2. conn = "up" /\ stream = <<>>
  BY <1>1 DEF Gone, Waiting
<1>3. text \in Seq(Byte) /\ Len(text) \in 0..MaxInt
  <2>1. CASE call.op = "set"
    <3>1. text \in {ErrText, OkText(reg'[call.reg])} /\ call.reg \in Regs
      BY <1>1, <2>1 DEF Replies, Requests
    <3>2. text \in AnswersTo(call.reg)
      BY <3>1, RegValsIs DEF AnswersTo
    <3>3. text \in Seq(Byte) /\ Len(text) \in 1..RxCap
      BY <3>1, <3>2, AnswerIs
    <3> QED
      BY <3>3, RxCapType, MaxIntType
  <2>2. CASE call.op # "set"
    BY <2>2, CmdTextIs DEF Replies
  <2> QED
    BY <2>1, <2>2
<1>4. stream' = Front(Frame(text), 4 + Len(text))
  <2>1. Frame(text) \in Seq(Byte) /\ Len(Frame(text)) = 4 + Len(text)
    BY <1>3, FrameIs
  <2>2. stream' = <<>> \o Frame(text)
    BY <1>2 DEF Reply
  <2>3. stream' = Frame(text)
    BY <2>1, <2>2, ConcatEmptySeq
  <2> QED
    BY <2>1, <2>3, SubSeqFull DEF Front
<1>5. 4 + Len(text) \in 0..4+Len(text)
  BY <1>3
<1>6. SomeOfFrame'
  BY <1>4, <1>5 DEF SomeOfFrame
<1> QED
  BY <1>1, <1>2, <1>6 DEF Gone, InStep

LEMMA ServeInStep == Inductive /\ QregdServe => Gone' /\ InStep'
<1> SUFFICES ASSUME Inductive, QregdServe PROVE Gone' /\ InStep'
  OBVIOUS
<1>1. /\ reqs # <<>> /\ UNCHANGED <<pc, call, want, rxbuf, ret, rdfail, trust, ncalls>>
      /\ reqs \in Seq(Requests) /\ reg \in RegVals /\ call \in Requests
      /\ conn \in {"down", "up", "closed", "closing"} /\ Gone /\ InStep
  BY DEF QregdServe, Inductive, TypeOK
<1>2. CASE QregdSet
  <2>1. Head(reqs) = call /\ call.reg \in Regs
    BY <1>1, <1>2, ServedIsCall DEF QregdSet, Requests
  <2>2. reg' \in RegVals
    BY <1>1, <1>2, RegServed
  <2>3. PICK text \in {ErrText, OkText(reg'[call.reg])} : Reply(text)
    <3>1. \A v : [reg EXCEPT ![call.reg] = v][call.reg] = v
      BY <1>1, <2>1 DEF RegVals
    <3> QED
      BY <1>2, <2>1, <3>1 DEF QregdSet
  <2>4. text \in Replies'
    BY <1>1, <1>2, <2>1, <2>3 DEF Replies, QregdSet
  <2> QED
    BY <1>1, <1>2, <2>2, <2>3, <2>4, AnsweredInStep DEF QregdSet
<1>3. CASE QregdCmd
  <2>1. PICK text \in CmdTexts : Reply(text)
    BY <1>3 DEF QregdCmd
  <2>2. text \in Replies'
    BY <1>1, <1>3, ServedIsCall DEF Replies, QregdCmd
  <2> QED
    BY <1>1, <1>3, <2>1, <2>2, AnsweredInStep DEF QregdCmd
<1>4. CASE QregdStop
  <2>1. /\ reqs' = <<>> /\ UNCHANGED <<stream, reg>>
        /\ conn' = IF conn = "up" THEN "closed" ELSE "down"
    BY <1>4 DEF QregdStop
  <2>2. conn \in {"up", "closing"}
    BY <1>1 DEF Gone
  <2>3. Gone' /\ Quiet'
    BY <1>1, <2>1, <2>2 DEF Gone, Quiet
  <2>4. pc = "idle" => ReturnedIsActual'
    BY <1>1, <2>1 DEF InStep, ReturnedIsActual, SetReturned
  <2>5. pc = "hdr" => SomeOfFrame'
    BY <1>1, <2>1 DEF InStep, SomeOfFrame, Waiting, Replies
  <2>6. pc = "body" => SomeOfText'
    BY <1>1, <2>1 DEF InStep, SomeOfText, Replies
  <2> QED
    BY <1>1, <2>1, <2>2, <2>3, <2>4, <2>5, <2>6 DEF InStep
<1> QED
  BY <1>2, <1>3, <1>4 DEF QregdServe

LEMMA LossInStep == Inductive /\ ConnectionLost => Gone' /\ InStep'
<1> SUFFICES ASSUME Inductive, ConnectionLost PROVE Gone' /\ InStep'
  OBVIOUS
<1>0. /\ stream \in Seq(Byte) /\ reg \in RegVals /\ call \in Requests
      /\ WholeReads /\ Gone /\ InStep
  BY DEF Inductive, TypeOK
<1>1. PICK m \in 0..Len(stream) : stream' = Front(stream, m)
  <2>1. CASE UNCHANGED stream
    <3>1. Len(stream) \in 0..Len(stream) /\ Front(stream, Len(stream)) = stream
      BY <1>0, LenProperties, SubSeqFull DEF Front
    <3> QED
      BY <2>1, <3>1
  <2>2. CASE ~UNCHANGED stream
    BY <2>2 DEF ConnectionLost
  <2> QED
    BY <2>1, <2>2
<1>2. /\ UNCHANGED <<reg, pc, call, want, rxbuf, ret, rdfail, trust, ncalls>> /\ reqs' = <<>>
      /\ conn \in {"up", "closing"} /\ conn' = IF conn = "up" THEN "closed" ELSE "down"
  BY DEF ConnectionLost
<1>3. stream = <<>> => stream' = <<>>
  <2>1. stream' \in Seq(Byte) /\ Len(stream') = m
    BY <1>0, <1>1, FrontType
  <2>2. stream = <<>> => m = 0
    BY <1>1
  <2> QED
    BY <2>1, <2>2, EmptySeq
<1>4. Gone' /\ Quiet'
  BY <1>0, <1>2, <1>3 DEF Gone, Quiet
<1>5. pc = "idle" => ReturnedIsActual'
  BY <1>0, <1>2 DEF InStep, ReturnedIsActual, SetReturned
<1>6. ASSUME SomeOfFrame PROVE SomeOfFrame'
  <2>1. CASE stream = <<>>
    BY <1>3, <2>1 DEF SomeOfFrame
  <2>2. CASE stream # <<>>
    <3>1. PICK text \in Replies : \E k \in 0..4+Len(text) : stream = Front(Frame(text), k)
      BY <1>6, <2>2 DEF SomeOfFrame
    <3>2. PICK k \in 0..4+Len(text) : stream = Front(Frame(text), k)
      BY <3>1
    <3>3. text \in Seq(Byte) /\ Len(text) \in 0..MaxInt
      BY <1>0, RepliesAre
    <3>4. Frame(text) \in Seq(Byte) /\ Len(Frame(text)) = 4 + Len(text)
      BY <3>3, FrameIs
    <3>5. k \in 0..Len(Frame(text))
      BY <3>4
    <3>6. m \in 0..k
      BY <1>1, <3>2, <3>4, <3>5, FrontType
    <3>7. stream' = Front(Frame(text), m)
      BY <1>1, <3>2, <3>4, <3>5, <3>6, FrontOfFront
    <3>8. m \in 0..4+Len(text) /\ text \in Replies'
      BY <1>2, <3>3, <3>6 DEF Replies
    <3> QED
      BY <3>7, <3>8 DEF SomeOfFrame
  <2> QED
    BY <2>1, <2>2
<1>7. ASSUME SomeOfText PROVE SomeOfText'
  <2>1. PICK text \in Replies : \E k \in 0..Len(text) : stream = Front(text, k) /\ want = Len(text)
    BY <1>7 DEF SomeOfText
  <2>2. PICK k \in 0..Len(text) : stream = Front(text, k)
    BY <2>1
  <2>3. text \in Seq(Byte) /\ Len(text) \in 0..MaxInt
    BY <1>0, RepliesAre
  <2>4. m \in 0..k
    BY <1>1, <2>2, <2>3, FrontType
  <2>5. stream' = Front(text, m)
    BY <1>1, <2>2, <2>3, <2>4, FrontOfFront
  <2>6. m \in 0..Len(text) /\ text \in Replies'
    BY <1>2, <2>3, <2>4 DEF Replies
  <2> QED
    BY <1>2, <2>1, <2>5, <2>6 DEF SomeOfText
<1>8. pc = "hdr" => SomeOfFrame'
  BY <1>0, <1>3, <1>6 DEF InStep, Waiting, SomeOfFrame
<1> QED
  BY <1>0, <1>2, <1>3, <1>4, <1>5, <1>7, <1>8 DEF InStep

LEMMA StepInductive == Inductive /\ [Next]_vars => Inductive'
<1>1. Inductive /\ UNCHANGED vars => Gone' /\ InStep'
  BY DEF vars, Inductive, Gone, InStep, Quiet, Waiting, SomeOfFrame, SomeOfText, Replies,
         ReturnedIsActual, SetReturned
<1>2. Inductive /\ [Next]_vars => Gone' /\ InStep'
  BY <1>1, CallsInStep, ReadsInStep, ServeInStep, LossInStep DEF Next
<1>3. Inductive /\ [Next]_vars => TypeOK'
  BY StepTypeOK DEF Inductive
<1> QED
  BY <1>2, <1>3 DEF Inductive, WholeReads

LEMMA AlwaysInductive == WholeReads /\ Spec => []Inductive
BY InitInductive, StepInductive, PTL DEF Spec

-----------------------------------------------------------------------------
(***************************************************************************)
(* When reads are whole, no caller needs to be careful: whatever it calls, *)
(* also after an error, a setter that reports success has stored what the  *)
(* hardware register holds (qnicll.h: "set to actual new ...").            *)
(***************************************************************************)
THEOREM WholeReadsReturnActual == WholeReads => (Spec => []ReturnedIsActual)
<1>1. Inductive => ReturnedIsActual
  BY DEF Inductive, InStep, ReturnedIsActual, SetReturned
<1> QED
  BY <1>1, AlwaysInductive, PTL

-----------------------------------------------------------------------------
(* The refinement: what each step of qregc.c is of QregApi. *)

LEMMA InitMaps == Init => Api!Init
BY DEF Init, Api!Init, RegVals, Api!RegVals, Phase, Done, Api!Success, QNICLL_ERR_NONE

LEMMA CallsMap == Inductive /\ Calls => Api!Invoke \/ Api!InvokeOnly
<1> SUFFICES ASSUME Inductive, Calls PROVE Api!Invoke \/ Api!InvokeOnly
  OBVIOUS
<1> USE DEF Enter
<1>1. /\ [op |-> "quit"] \in Api!Calls /\ [op |-> "cmd"] \in Api!Calls
      /\ [op |-> "shutdown"] \in Api!Calls
      /\ \A r \in Regs : [op |-> "set", reg |-> r] \in Api!Calls
  BY DEF Api!Calls
<1>2. Phase = "idle"
  BY DEF Phase, Calls, qregc_connect, qregc_set, qregc_set_checked, qregc_do_cmd,
         qregc_shutdown, qregc_disconnect
<1>3. Failed = Api!Failure /\ Done(<<>>) = Api!Success(<<>>)
  BY DEF Failed, Done, Api!Failure, Api!Success, QNICLL_ERR_BUG, QNICLL_ERR_NONE
\* A call that goes on to read
<1>4. ASSUME pc' = "hdr", call' \in Api!Calls, UNCHANGED <<reg, ret>> PROVE Api!Invoke
  BY <1>2, <1>4 DEF Api!Invoke, Phase
\* A call that is over
<1>5. ASSUME pc' = "idle", call' \in Api!Calls, UNCHANGED reg,
             ret' = Failed \/ (call'.op # "set" /\ ret' = Done(<<>>))
      PROVE  Api!InvokeOnly
  BY <1>2, <1>3, <1>5 DEF Api!InvokeOnly, Phase
<1>6. CASE qregc_connect
  BY <1>1, <1>5, <1>6 DEF qregc_connect
<1>7. ASSUME NEW r \in Regs, qregc_set(r) PROVE Api!Invoke
  BY <1>1, <1>4, <1>7 DEF qregc_set
<1>8. ASSUME NEW r \in Regs, qregc_set_checked(r) PROVE Api!Invoke \/ Api!InvokeOnly
  BY <1>1, <1>4, <1>5, <1>8 DEF qregc_set_checked, Return
<1>9. CASE qregc_do_cmd
  BY <1>1, <1>4, <1>5, <1>9 DEF qregc_do_cmd
<1>10. CASE qregc_shutdown \/ qregc_disconnect
  BY <1>1, <1>5, <1>10 DEF qregc_shutdown, qregc_disconnect, Return
<1> QED
  BY <1>6, <1>7, <1>8, <1>9, <1>10 DEF Calls

LEMMA ReadsMap == Inductive /\ Reads => Api!Return \/ UNCHANGED Api!vars
<1> SUFFICES ASSUME Inductive, Reads PROVE Api!Return \/ UNCHANGED Api!vars
  OBVIOUS
<1>1. /\ reqs = <<>> /\ UNCHANGED <<reqs, reg, call>> /\ Phase = "settled"
  BY ReadsWhenSettled DEF Reads, ReadHdr, ReadHdrFail, ReadBody, ReadBodyFail, ReadBodyNegative, Finish, Phase
<1>2. CASE ReadHdr
  BY <1>1, <1>2 DEF ReadHdr, Phase, Api!vars
<1>3. Failed = Api!Failure /\ \A num : Done(num) = Api!Success(num)
  BY DEF Failed, Done, Api!Failure, Api!Success, QNICLL_ERR_BUG, QNICLL_ERR_NONE
<1>4. ASSUME pc' = "idle",
             \/ ret' = Failed
             \/ call.op = "set" /\ ret' = Done(reg[call.reg])
             \/ call.op = "cmd" /\ ret' = Done(<<>>)
      PROVE  Api!Return
  BY <1>1, <1>3, <1>4 DEF Api!Return, Phase
<1>5. CASE ReadBody
  BY <1>4, <1>5, BodyInStep DEF ReadBody, Finish, Return
<1>6. CASE ReadHdrFail \/ ReadBodyFail
  BY <1>4, <1>6, FailInStep DEF ReadHdrFail, ReadBodyFail, Finish, Return
<1> QED
  BY <1>2, <1>5, <1>6, NoNegativeRead DEF Reads

LEMMA ServeMaps == Inductive /\ QregdServe => Api!Settle \/ UNCHANGED Api!vars
<1> SUFFICES ASSUME Inductive, QregdServe PROVE Api!Settle \/ UNCHANGED Api!vars
  OBVIOUS
<1>1. /\ reqs # <<>> /\ UNCHANGED <<pc, call, ret>> /\ pc \in {"idle", "hdr", "body"}
      /\ reqs \in Seq(Requests)
  BY DEF QregdServe, Inductive, TypeOK
<1>2. CASE QregdSet
  <2>1. pc = "hdr" /\ Head(reqs) = call /\ reqs' = <<>>
    BY <1>1, <1>2, ServedIsCall DEF QregdSet
  <2>2. Phase = "pending" /\ Phase' = "settled"
    BY <1>1, <2>1 DEF Phase
  <2> QED
    BY <1>1, <1>2, <2>1, <2>2 DEF QregdSet, Api!Settle
<1>3. CASE QregdCmd
  <2>1. pc = "hdr" /\ reqs' = <<>> /\ UNCHANGED reg
    BY <1>1, <1>3, ServedIsCall DEF QregdCmd
  <2>2. Phase = "pending" /\ Phase' = "settled"
    BY <1>1, <2>1 DEF Phase
  <2> QED
    BY <1>1, <2>1, <2>2 DEF Api!Settle
<1>4. CASE QregdStop
  <2>1. reqs' = <<>> /\ UNCHANGED reg
    BY <1>4 DEF QregdStop
  <2> QED
    BY <1>1, <2>1 DEF Phase, Api!Settle, Api!vars
<1> QED
  BY <1>2, <1>3, <1>4 DEF QregdServe

LEMMA LossMaps == ConnectionLost => Api!Settle \/ UNCHANGED Api!vars
BY DEF ConnectionLost, Phase, Api!Settle, Api!vars

LEMMA StepMaps == Inductive /\ [Next]_vars => [Api!Next]_Api!vars
<1>1. UNCHANGED vars => UNCHANGED Api!vars
  BY DEF vars, Api!vars, Phase
<1> QED
  BY <1>1, CallsMap, ReadsMap, ServeMaps, LossMaps DEF Next, Api!Next

(***************************************************************************)
(* When reads are whole, qregc.c implements the abstract register          *)
(* interface: without packets or sockets, a call that reaches the hardware *)
(* at most once, touches no register but its own, and reports what that    *)
(* register then holds, or fails.                                          *)
(***************************************************************************)
THEOREM ImplementsRegisterApi == WholeReads => (Spec => ImplementsApi)
BY InitMaps, StepMaps, AlwaysInductive, PTL DEF Spec, ImplementsApi, Api!Spec

=============================================================================
