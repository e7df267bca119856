---------------------------- MODULE QnaUsbProofs ----------------------------
(***************************************************************************)
(* Proofs about QnaUsb, for any replies that fit in the caller's buffer,   *)
(* any number of calls and any failures.                                   *)
(***************************************************************************)
EXTENDS QnaUsb, SequenceTheorems, TLAPS

-----------------------------------------------------------------------------
(* The pieces of a reply. *)

\* What QNA adds to the line when it answers
Answer(reply) ==
  [i \in DOMAIN reply |->
     [text |-> Head(qna), n |-> i, of |-> Len(reply),
      start |-> Start(reply, i), size |-> reply[i] - Start(reply, i)]]

LEMMA ReplyIs ==
  ASSUME NEW reply \in Replies
  PROVE  /\ reply \in Seq(Nat) /\ Len(reply) \in Nat /\ Len(reply) > 0
         /\ DOMAIN reply = 1..Len(reply)
         /\ \A i \in 1..Len(reply) :
              /\ Start(reply, i) \in Nat /\ reply[i] \in Nat
              /\ Start(reply, i) < reply[i] /\ reply[i] < RspLen
<1>1. reply \in Seq(Nat \ {0}) /\ reply # <<>>
  BY QnaUsbAssumption
<1>2. Len(reply) \in Nat /\ Len(reply) > 0 /\ DOMAIN reply = 1..Len(reply)
  BY <1>1, EmptySeq, LenProperties
<1>3. \A i \in 1..Len(reply) : reply[i] \in Nat /\ reply[i] > 0
  BY <1>1, <1>2
<1>4. ASSUME NEW i \in 1..Len(reply)
      PROVE  /\ Start(reply, i) \in Nat /\ reply[i] \in Nat
             /\ Start(reply, i) < reply[i] /\ reply[i] < RspLen
  <2>1. reply[i] < RspLen
    BY <1>2, QnaUsbAssumption
  <2>2. CASE i = 1
    BY <1>3, <2>1, <2>2 DEF Start
  <2>3. CASE i # 1
    <3>1. i-1 \in 1..Len(reply) /\ i-1 < i
      BY <1>2, <2>3
    <3>2. reply[i-1] < reply[i]
      BY <1>2, <3>1, QnaUsbAssumption
    <3> QED
      BY <1>3, <2>1, <2>3, <3>1, <3>2 DEF Start
  <2> QED
    BY <2>2, <2>3
<1>5. reply \in Seq(Nat)
  BY <1>1, SeqMonotonic
<1> QED
  BY <1>2, <1>4, <1>5

LEMMA AnswerIs ==
  ASSUME qna \in Seq(Seq(Int)), qna # <<>>, NEW reply \in Replies
  PROVE  /\ Answer(reply) \in Seq(Pieces) /\ Len(Answer(reply)) = Len(reply)
         /\ Len(reply) \in Nat /\ Len(reply) > 0
         /\ \A i \in 1..Len(reply) :
              /\ Answer(reply)[i].text = Head(qna) /\ Answer(reply)[i].n = i
              /\ Answer(reply)[i].of = Len(reply)
              /\ Answer(reply)[i].start = Start(reply, i)
              /\ Answer(reply)[i].size = reply[i] - Start(reply, i)
<1> DEFINE m == Len(reply)
           piece(i) == [text |-> Head(qna), n |-> i, of |-> m,
                        start |-> Start(reply, i), size |-> reply[i] - Start(reply, i)]
<1>1. m \in Nat /\ m > 0 /\ DOMAIN reply = 1..m
  BY ReplyIs
<1>2. Head(qna) \in Seq(Int)
  BY HeadTailProperties
<1>3. ASSUME NEW i \in 1..m PROVE piece(i) \in Pieces
  <2>1. Start(reply, i) \in Nat /\ reply[i] - Start(reply, i) \in Nat \ {0}
    BY ReplyIs
  <2>2. i \in Nat \ {0} /\ m \in Nat \ {0}
    BY <1>1
  <2> HIDE DEF m
  <2> QED
    BY <1>2, <2>1, <2>2 DEF Pieces
<1>4. Answer(reply) = [i \in 1..m |-> piece(i)]
  BY <1>1 DEF Answer
<1> HIDE DEF m
<1>5. Answer(reply) \in Seq(Pieces)
  <2> HIDE DEF piece
  <2> QED
    BY <1>1, <1>3, <1>4
<1>6. Len(Answer(reply)) = m
  BY <1>1, <1>4, <1>5
<1> QED
  BY <1>1, <1>4, <1>5, <1>6 DEF m

-----------------------------------------------------------------------------
(* The type invariant. *)

Ttys  == [open : BOOLEAN, set : BOOLEAN, up : BOOLEAN, inp : Seq(Pieces), typed : Seq(Int)]
CallRecords == [id : 0..MaxCalls, op : {"none", "connect", "cmd"}, at : {"idle", "read"},
                code : {QNICLL_ERR_NONE, QNICLL_ERR_BUG}]

LEMMA WrType ==
  ASSUME TypeOK, MayCall, NEW op \in {"connect", "cmd"}, Wr(op)
  PROVE  /\ tty' \in Ttys /\ qna' \in Seq(Seq(Int)) /\ call' \in CallRecords
         /\ call'.id = call.id + 1 /\ call.id + 1 \in 0..MaxCalls
<1>1. call.id + 1 \in 0..MaxCalls /\ call.id + 1 \in Int /\ -(call.id + 1) \in Int
  BY QnaUsbAssumption DEF TypeOK, MayCall
<1>2. call' \in CallRecords /\ call'.id = call.id + 1
  <2>1. Reads(op) \/ Fails(op)
    BY DEF Wr
  <2> QED
    BY <1>1, <2>1 DEF Fails, Reads, CallRecords, QNICLL_ERR_NONE, QNICLL_ERR_BUG
<1>3. /\ tty \in Ttys /\ tty.typed \in Seq(Int) /\ qna \in Seq(Seq(Int)) /\ <<>> \in Seq(Int)
  BY DEF TypeOK, Ttys
<1>4. Append(tty.typed, call.id + 1) \in Seq(Int)
  BY <1>1, <1>3
<1>5. qna' \in Seq(Seq(Int))
  <2>1. qna' = Append(qna, Append(tty.typed, call.id + 1)) \/ qna' = qna
    BY DEF Wr
  <2>2. Append(qna, Append(tty.typed, call.id + 1)) \in Seq(Seq(Int))
    BY <1>3, <1>4, AppendProperties
  <2> QED
    BY <1>3, <2>1, <2>2
<1>6. ASSUME NEW text \in Partial(op, call.id + 1) \cup {<<>>}
      PROVE  tty.typed \o text \in Seq(Int)
  <2>1. /\ <<call.id + 1>> \in Seq(Int) /\ <<-(call.id + 1)>> \in Seq(Int)
        /\ text \in {<<>>, <<call.id + 1>>, <<-(call.id + 1)>>}
    BY <1>1 DEF Partial
  <2>2. text \in Seq(Int)
    BY <1>3, <2>1
  <2> QED
    BY <1>3, <2>2
<1>7. tty' \in Ttys
  <2>1. CASE tty' = [tty EXCEPT !.open = TRUE, !.set = TRUE, !.typed = <<>>]
    BY <1>3, <2>1 DEF Ttys
  <2>2. ASSUME NEW text \in Partial(op, call.id + 1) \cup {<<>>},
               tty' = [tty EXCEPT !.open = TRUE, !.set = TRUE, !.typed = @ \o text]
        PROVE  tty' \in Ttys
    BY <1>3, <1>6, <2>2 DEF Ttys
  <2> QED
    BY <2>1, <2>2 DEF Wr
<1> QED
  BY <1>1, <1>2, <1>5, <1>7

LEMMA CallsType ==
  ASSUME TypeOK, qna_usb_connect \/ qna_usb_do_cmd \/ qna_usb_disconnect
  PROVE  TypeOK'
<1>1. <<>> \in Seq(Pieces) /\ 0 \in Nat
  OBVIOUS
<1>2. CASE qna_usb_connect
  <2>1. call.id + 1 \in 0..MaxCalls /\ rsp' = <<>> /\ fill' = 0
    BY <1>2, QnaUsbAssumption DEF qna_usb_connect, TypeOK, MayCall
  <2>2. link' \in [trusted : BOOLEAN, since : 0..MaxCalls, lag : {0, 1}]
    BY <1>2, <2>1 DEF qna_usb_connect
  <2>3. CASE Wr("connect")
    BY <1>1, <1>2, <2>1, <2>2, <2>3, WrType DEF qna_usb_connect, TypeOK, Ttys, CallRecords
  <2>4. CASE Fails("connect") /\ UNCHANGED <<tty, qna>>
    BY <1>1, <2>1, <2>2, <2>4 DEF Fails, TypeOK, QNICLL_ERR_NONE, QNICLL_ERR_BUG
  <2>5. CASE Fails("connect") /\ tty' = [tty EXCEPT !.open = TRUE, !.set = FALSE] /\ UNCHANGED qna
    <3>1. tty' \in Ttys
      BY <2>5 DEF TypeOK, Ttys
    <3> QED
      BY <1>1, <2>1, <2>2, <2>5, <3>1 DEF Fails, TypeOK, Ttys, QNICLL_ERR_NONE, QNICLL_ERR_BUG
  <2> QED
    BY <1>2, <2>3, <2>4, <2>5 DEF qna_usb_connect
<1>3. CASE qna_usb_do_cmd
  <2>1. rsp' = <<>> /\ fill' = 0 /\ link' = [link EXCEPT !.trusted = @ /\ call'.code = QNICLL_ERR_NONE]
    BY <1>3 DEF qna_usb_do_cmd
  <2>2. link' \in [trusted : BOOLEAN, since : 0..MaxCalls, lag : {0, 1}]
    BY <2>1 DEF TypeOK
  <2> QED
    BY <1>1, <1>3, <2>1, <2>2, WrType DEF qna_usb_do_cmd, TypeOK, Ttys, CallRecords
<1>4. CASE qna_usb_disconnect
  <2>1. call.id + 1 \in 0..MaxCalls
    BY <1>4, QnaUsbAssumption DEF qna_usb_disconnect, TypeOK, MayCall
  <2> QED
    BY <1>1, <1>4, <2>1 DEF qna_usb_disconnect, TypeOK, QNICLL_ERR_NONE
<1> QED
  BY <1>2, <1>3, <1>4

LEMMA ReadsType ==
  ASSUME TypeOK, ReadPiece \/ ReadFails \/ ReadNothing
  PROVE  TypeOK'
<1>1. CASE ReadPiece
  <2>1. tty.inp \in Seq(Pieces) /\ tty.inp # <<>> /\ rsp \in Seq(Pieces) /\ fill \in Nat
    BY <1>1 DEF ReadPiece, TypeOK
  <2>2. Head(tty.inp) \in Pieces /\ Tail(tty.inp) \in Seq(Pieces)
    BY <2>1
  <2>3. rsp' \in Seq(Pieces)
    BY <1>1, <2>1, <2>2 DEF ReadPiece
  <2>4. Head(tty.inp).size \in Nat
    BY <2>2 DEF Pieces
  <2>5. fill' \in Nat
    BY <1>1, <2>1, <2>4 DEF ReadPiece
  <2>6. call' \in CallRecords
    BY <1>1 DEF ReadPiece, TypeOK, CallRecords
  <2>7. link' \in [trusted : BOOLEAN, since : 0..MaxCalls, lag : {0, 1}]
    BY <1>1 DEF ReadPiece, TypeOK
  <2>8. tty' \in Ttys /\ qna' \in Seq(Seq(Int))
    BY <1>1, <2>2 DEF ReadPiece, TypeOK, Ttys
  <2> QED
    BY <2>3, <2>5, <2>6, <2>7, <2>8 DEF TypeOK, Ttys, CallRecords
<1>2. CASE ReadFails
  BY <1>2 DEF ReadFails, TypeOK
<1>3. CASE ReadNothing
  BY <1>3 DEF ReadNothing, TypeOK
<1> QED
  BY <1>1, <1>2, <1>3

LEMMA LineType ==
  ASSUME TypeOK, QnaAnswers \/ Hangup
  PROVE  TypeOK'
<1>1. CASE QnaAnswers
  <2>1. PICK reply \in Replies :
          tty' = IF tty.open THEN [tty EXCEPT !.inp = @ \o Answer(reply)] ELSE tty
    BY <1>1 DEF QnaAnswers, Answer
  <2>2. qna \in Seq(Seq(Int)) /\ qna # <<>> /\ tty.inp \in Seq(Pieces) /\ tty \in Ttys
    BY <1>1 DEF QnaAnswers, TypeOK, Ttys
  <2>3. Answer(reply) \in Seq(Pieces)
    BY <2>2, AnswerIs
  <2>4. tty.inp \o Answer(reply) \in Seq(Pieces)
    BY <2>2, <2>3
  <2>5. tty' \in Ttys
    BY <2>1, <2>2, <2>4 DEF Ttys
  <2> QED
    BY <1>1, <2>2, <2>5 DEF QnaAnswers, TypeOK, Ttys
<1>2. CASE Hangup
  <2>1. <<>> \in Seq(Pieces)
    OBVIOUS
  <2> QED
    BY <1>2, <2>1 DEF Hangup, TypeOK
<1> QED
  BY <1>1, <1>2

LEMMA InitTypeOK == Init => TypeOK
<1>1. <<>> \in Seq(Pieces) /\ <<>> \in Seq(Int) /\ <<>> \in Seq(Seq(Int)) /\ 0 \in 0..MaxCalls
  BY QnaUsbAssumption
<1> QED
  BY <1>1 DEF Init, TypeOK, QNICLL_ERR_NONE

LEMMA StepTypeOK == TypeOK /\ [Next]_vars => TypeOK'
<1>1. TypeOK /\ UNCHANGED vars => TypeOK'
  BY DEF TypeOK, vars
<1> QED
  BY <1>1, CallsType, ReadsType, LineType DEF Next

(***************************************************************************)
(* Every state of qna_usb.c and of its line is well typed: a call returns  *)
(* no code but 0 and QNICLL_ERR_BUG.                                       *)
(***************************************************************************)
THEOREM TypeCorrect == Spec => []TypeOK
BY InitTypeOK, StepTypeOK, PTL DEF Spec

-----------------------------------------------------------------------------
(* The line: what is left of one reply, and whole replies behind it. *)

\* Which piece may come after another
Follows(a, b) ==
  IF AtPrompt(a)
    THEN b.n = 1 /\ b.start = 0
    ELSE b.n = a.n + 1 /\ b.of = a.of /\ b.text = a.text /\ b.start = a.start + a.size

InOrder ==
  /\ \A i \in 1..Len(tty.inp) : tty.inp[i].start + tty.inp[i].size < RspLen
  /\ \A i \in 1..Len(tty.inp)-1 : Follows(tty.inp[i], tty.inp[i+1])
  /\ tty.inp # <<>> => AtPrompt(tty.inp[Len(tty.inp)])
  /\ ~tty.open \/ ~tty.up => tty.inp = <<>>

\* What the present call has read is what is in front of the next piece.
HasRoom ==
  /\ call.op = "cmd" => fill < RspLen
  /\ call.op = "cmd" /\ call.at = "read" /\ tty.up =>
       IF tty.inp = <<>> THEN fill = 0 ELSE fill <= Head(tty.inp).start

Contained == InOrder /\ HasRoom

\* A call that begins, whether or not its text gets across, leaves the line alone.
LEMMA WrIs ==
  ASSUME TypeOK, NEW op, Wr(op)
  PROVE  /\ tty'.open = TRUE /\ tty'.up = tty.up /\ tty'.inp = tty.inp
         /\ call'.op = op /\ call'.id = call.id + 1
         /\ \/ /\ tty.up /\ tty'.typed = <<>>
               /\ qna' = Append(qna, Append(tty.typed, call.id + 1))
               /\ call'.at = "read" /\ call'.code = QNICLL_ERR_NONE
            \/ qna' = qna /\ call'.at = "idle" /\ call'.code = QNICLL_ERR_BUG
<1>1. tty \in [open : BOOLEAN, set : BOOLEAN, up : BOOLEAN, inp : Seq(Pieces), typed : Seq(Int)]
  BY DEF TypeOK
<1>2. CASE /\ tty.up
           /\ qna' = Append(qna, Append(tty.typed, call.id + 1))
           /\ tty' = [tty EXCEPT !.open = TRUE, !.set = TRUE, !.typed = <<>>]
           /\ Reads(op)
  BY <1>1, <1>2 DEF Reads
<1>3. CASE /\ \E text \in IF tty.up THEN Partial(op, call.id + 1) ELSE {<<>>} :
                tty' = [tty EXCEPT !.open = TRUE, !.set = TRUE, !.typed = @ \o text]
           /\ Fails(op)
           /\ UNCHANGED qna
  BY <1>1, <1>3 DEF Fails
<1> QED
  BY <1>2, <1>3 DEF Wr

LEMMA TailIs ==
  ASSUME tty.inp \in Seq(Pieces), tty.inp # <<>>
  PROVE  /\ Head(tty.inp) = tty.inp[1] /\ Head(tty.inp) \in Pieces
         /\ Tail(tty.inp) \in Seq(Pieces)
         /\ Len(tty.inp) \in Nat /\ Len(tty.inp) > 0
         /\ Len(Tail(tty.inp)) = Len(tty.inp) - 1
         /\ \A i \in 1..Len(tty.inp)-1 : Tail(tty.inp)[i] = tty.inp[i+1]
         /\ Tail(tty.inp) = <<>> <=> Len(tty.inp) = 1
         /\ Len(tty.inp) # 1 => /\ Head(Tail(tty.inp)) = tty.inp[2]
                                /\ Tail(tty.inp)[Len(Tail(tty.inp))] = tty.inp[Len(tty.inp)]
<1> DEFINE m == Len(tty.inp)
           t == Tail(tty.inp)
<1>1. /\ Head(tty.inp) = tty.inp[1] /\ Head(tty.inp) \in Pieces
      /\ t \in Seq(Pieces) /\ m \in Nat /\ m > 0 /\ Len(t) = m - 1
      /\ \A i \in 1..m-1 : t[i] = tty.inp[i+1]
  <2>1. m \in Nat /\ m > 0
    BY EmptySeq, LenProperties
  <2>2. /\ t \in Seq(Pieces) /\ Len(t) = m - 1 /\ \A i \in 1..Len(t) : t[i] = tty.inp[i+1]
        /\ Head(tty.inp) = tty.inp[1] /\ Head(tty.inp) \in Pieces
    BY HeadTailProperties
  <2> QED
    BY <2>1, <2>2
<1> HIDE DEF m, t
<1>2. t = <<>> <=> m = 1
  BY <1>1, EmptySeq
<1>3. ASSUME m # 1 PROVE Head(t) = tty.inp[2] /\ t[Len(t)] = tty.inp[m]
  <2>1. 1 \in 1..m-1 /\ m-1 \in 1..m-1 /\ (m-1)+1 = m /\ t # <<>>
    BY <1>1, <1>2, <1>3
  <2>2. Head(t) = t[1]
    BY <1>1, <2>1, HeadTailProperties
  <2> QED
    BY <1>1, <2>1, <2>2
<1> QED
  BY <1>1, <1>2, <1>3 DEF m, t

LEMMA CallsContain ==
  ASSUME TypeOK, Contained, qna_usb_connect \/ qna_usb_do_cmd \/ qna_usb_disconnect
  PROVE  Contained'
<1> USE DEF Contained
<1>1. fill' = 0 /\ rsp' = <<>> /\ call.at = "idle" /\ 0 < RspLen
  BY QnaUsbAssumption DEF qna_usb_connect, qna_usb_do_cmd, qna_usb_disconnect, MayCall
<1>2. ASSUME NEW op, Wr(op) PROVE Contained'
  <2>1. /\ tty'.open = TRUE /\ tty'.up = tty.up /\ tty'.inp = tty.inp
    BY <1>2, WrIs
  <2>2. InOrder'
    BY <2>1 DEF InOrder
  <2>3. tty.inp # <<>> => Head(tty.inp).start \in Nat
    <3> SUFFICES ASSUME tty.inp # <<>> PROVE Head(tty.inp).start \in Nat
      OBVIOUS
    <3>1. Head(tty.inp) \in Pieces
      BY TailIs DEF TypeOK
    <3> QED
      BY <3>1 DEF Pieces
  <2>4. HasRoom'
    BY <1>1, <2>1, <2>3 DEF HasRoom
  <2> QED
    BY <2>2, <2>4
<1>3. CASE Fails("connect") /\ (tty' = tty \/ tty' = [tty EXCEPT !.open = TRUE, !.set = FALSE])
  <2>1. tty'.inp = tty.inp /\ tty'.up = tty.up /\ (tty.open => tty'.open)
    BY <1>3 DEF TypeOK
  <2>2. InOrder'
    BY <2>1 DEF InOrder
  <2>3. call'.at = "idle" /\ call'.op = "connect"
    BY <1>3 DEF Fails
  <2>4. HasRoom'
    BY <1>1, <2>3 DEF HasRoom
  <2> QED
    BY <2>2, <2>4
<1>4. CASE qna_usb_disconnect
  <2>1. tty'.inp = <<>> /\ call'.op = "none"
    BY <1>4 DEF qna_usb_disconnect, TypeOK
  <2>2. InOrder'
    BY <2>1 DEF InOrder
  <2> QED
    BY <2>1, <2>2 DEF HasRoom
<1> QED
  BY <1>2, <1>3, <1>4 DEF qna_usb_connect, qna_usb_do_cmd

LEMMA ReadsContain ==
  ASSUME TypeOK, Contained, ReadPiece \/ ReadFails \/ ReadNothing
  PROVE  Contained'
<1> USE DEF Contained
<1>1. CASE ReadPiece
  <2> DEFINE piece == Head(tty.inp)
             m == Len(tty.inp)
             inp == tty.inp
             t == Tail(tty.inp)
  <2>1. /\ inp \in Seq(Pieces) /\ inp # <<>> /\ fill \in Nat /\ RspLen \in Nat /\ call.at = "read"
        /\ tty'.inp = t /\ tty'.up = tty.up /\ tty'.open = tty.open /\ call'.op = call.op
        /\ call'.at = IF call.op = "connect" \/ AtPrompt(piece) THEN "idle" ELSE "read"
        /\ fill' = IF call.op = "connect" THEN fill ELSE fill + piece.size
    BY <1>1, QnaUsbAssumption DEF ReadPiece, TypeOK
  <2>2. /\ piece = inp[1] /\ piece \in Pieces /\ t \in Seq(Pieces) /\ m \in Nat /\ m > 0
        /\ Len(t) = m - 1 /\ (t = <<>> <=> m = 1)
        /\ \A i \in 1..m-1 : t[i] = inp[i+1]
        /\ m # 1 => Head(t) = inp[2] /\ t[Len(t)] = inp[m]
    BY <2>1, TailIs
  <2>3. tty.open /\ tty.up
    BY <2>1 DEF InOrder
  <2>4. /\ \A i \in 1..m : inp[i].start + inp[i].size < RspLen
        /\ \A i \in 1..m-1 : Follows(inp[i], inp[i+1])
        /\ AtPrompt(inp[m])
    BY <2>1 DEF InOrder
  <2>5. piece.start \in Nat /\ piece.size \in Nat
    BY <2>2 DEF Pieces
  <2> HIDE DEF piece, m, t, inp
  <2>6. InOrder'
    <3>1. \A i \in 1..Len(t) : t[i].start + t[i].size < RspLen
      <4> TAKE i \in 1..Len(t)
      <4>1. i \in 1..m-1 /\ i+1 \in 1..m
        BY <2>2
      <4> QED
        BY <2>2, <2>4, <4>1
    <3>2. \A i \in 1..Len(t)-1 : Follows(t[i], t[i+1])
      <4> TAKE i \in 1..Len(t)-1
      <4>1. i \in 1..m-1 /\ i+1 \in 1..m-1
        BY <2>2
      <4> QED
        BY <2>2, <2>4, <4>1
    <3>3. t # <<>> => AtPrompt(t[Len(t)])
      BY <2>2, <2>4
    <3> QED
      BY <2>1, <2>3, <3>1, <3>2, <3>3 DEF InOrder
  <2>7. ASSUME call.op = "cmd" PROVE HasRoom'
    <3>1. fill <= piece.start
      BY <2>1, <2>3, <2>7 DEF HasRoom, inp, piece
    <3>2. fill' = fill + piece.size /\ fill' <= piece.start + piece.size
      BY <2>1, <2>5, <2>7, <3>1
    <3>3. piece.start + piece.size < RspLen
      <4>1. 1 \in 1..m
        BY <2>2
      <4> QED
        BY <2>2, <2>4, <4>1
    <3>4. fill' < RspLen
      BY <2>1, <2>5, <3>2, <3>3
    <3>5. ASSUME ~AtPrompt(piece) PROVE t # <<>> /\ Head(t).start = piece.start + piece.size
      <4>1. m # 1
        BY <2>2, <2>4, <3>5
      <4>2. 1 \in 1..m-1
        BY <2>2, <4>1
      <4>3. Follows(inp[1], inp[1+1])
        BY <2>4, <4>2
      <4> QED
        BY <2>2, <3>5, <4>1, <4>3 DEF Follows
    <3> QED
      BY <2>1, <2>7, <3>2, <3>4, <3>5 DEF HasRoom
  <2> QED
    BY <2>1, <2>6, <2>7 DEF HasRoom
<1>2. CASE ReadFails \/ ReadNothing
  <2>1. /\ UNCHANGED <<tty, fill>> /\ call'.op = call.op /\ call'.at = "idle"
    BY <1>2 DEF ReadFails, ReadNothing, TypeOK
  <2> QED
    BY <2>1 DEF InOrder, HasRoom
<1> QED
  BY <1>1, <1>2

\* An answer is put behind what is on the line.
LEMMA AnsweredLine ==
  ASSUME TypeOK, qna # <<>>, NEW reply \in Replies,
         tty' = [tty EXCEPT !.inp = @ \o Answer(reply)]
  PROVE  /\ tty.inp \in Seq(Pieces) /\ tty'.inp \in Seq(Pieces) /\ tty'.inp # <<>>
         /\ tty'.open = tty.open /\ tty'.up = tty.up /\ tty'.typed = tty.typed
         /\ Len(tty.inp) \in Nat /\ Len(reply) \in Nat /\ Len(reply) > 0
         /\ Len(tty'.inp) = Len(tty.inp) + Len(reply)
         /\ \A i \in 1..Len(tty.inp) : tty'.inp[i] = tty.inp[i]
         /\ \A i \in 1..Len(reply) : tty'.inp[Len(tty.inp)+i] = Answer(reply)[i]
         /\ Head(tty'.inp) = IF tty.inp = <<>> THEN Answer(reply)[1] ELSE Head(tty.inp)
         /\ tty'.inp[Len(tty'.inp)] = Answer(reply)[Len(reply)]
<1> DEFINE inp == tty.inp
           m == Len(inp)
           a == Answer(reply)
           k == Len(reply)
           z == inp \o a
<1>1. inp \in Seq(Pieces) /\ qna \in Seq(Seq(Int)) /\ tty \in Ttys
  BY DEF TypeOK, Ttys
<1>2. a \in Seq(Pieces) /\ Len(a) = k /\ k \in Nat /\ k > 0
  BY <1>1, AnswerIs
<1>3. /\ tty'.inp = z /\ tty'.open = tty.open /\ tty'.up = tty.up /\ tty'.typed = tty.typed
  BY <1>1 DEF Ttys
<1>4. m \in Nat /\ (inp = <<>> <=> m = 0)
  BY <1>1, EmptySeq, LenProperties
<1> HIDE DEF inp, m, a, k
<1>5. /\ z \in Seq(Pieces) /\ Len(z) = m + k
      /\ \A i \in 1..m+k : z[i] = IF i <= m THEN inp[i] ELSE a[i-m]
  <2>1. /\ z \in Seq(Pieces) /\ Len(z) = Len(inp) + Len(a)
        /\ \A i \in 1..Len(inp)+Len(a) : z[i] = IF i <= Len(inp) THEN inp[i] ELSE a[i-Len(inp)]
    BY <1>1, <1>2, ConcatProperties
  <2> QED
    BY <1>2, <2>1 DEF m
<1> HIDE DEF z
<1>6. \A i \in 1..m : z[i] = inp[i]
  BY <1>2, <1>4, <1>5
<1>7. \A i \in 1..k : z[m+i] = a[i]
  <2> TAKE i \in 1..k
  <2>1. m+i \in 1..m+k /\ ~(m+i <= m) /\ (m+i)-m = i
    BY <1>2, <1>4
  <2> QED
    BY <1>5, <2>1
<1>8. z # <<>> /\ Head(z) = z[1]
  BY <1>2, <1>4, <1>5, EmptySeq, HeadTailProperties
<1>9. Head(z) = IF inp = <<>> THEN a[1] ELSE Head(inp)
  <2>1. CASE inp = <<>>
    <3>1. 1 \in 1..k /\ m+1 = 1
      BY <1>2, <1>4, <2>1
    <3> QED
      BY <1>7, <1>8, <2>1, <3>1
  <2>2. CASE inp # <<>>
    <3>1. 1 \in 1..m /\ Head(inp) = inp[1]
      BY <1>1, <1>4, <2>2, HeadTailProperties
    <3> QED
      BY <1>6, <1>8, <2>2, <3>1
  <2> QED
    BY <2>1, <2>2
<1>10. z[Len(z)] = a[k]
  <2>1. k \in 1..k
    BY <1>2
  <2> QED
    BY <1>5, <1>7, <2>1
<1> QED
  BY <1>1, <1>2, <1>3, <1>4, <1>5, <1>6, <1>7, <1>8, <1>9, <1>10 DEF inp, m, a, k

\* Within an answer
LEMMA AnswerInOrder ==
  ASSUME TypeOK, qna # <<>>, NEW reply \in Replies
  PROVE  /\ \A i \in 1..Len(reply) : Answer(reply)[i].start + Answer(reply)[i].size < RspLen
         /\ \A i \in 1..Len(reply)-1 : /\ ~AtPrompt(Answer(reply)[i])
                                       /\ Follows(Answer(reply)[i], Answer(reply)[i+1])
         /\ AtPrompt(Answer(reply)[Len(reply)])
         /\ Answer(reply)[1].n = 1 /\ Answer(reply)[1].start = 0
<1> DEFINE a == Answer(reply)
           k == Len(reply)
<1>1. /\ k \in Nat /\ k > 0
      /\ \A i \in 1..k : /\ a[i].text = Head(qna) /\ a[i].n = i /\ a[i].of = k
                         /\ a[i].start = Start(reply, i)
                         /\ a[i].size = reply[i] - Start(reply, i)
  BY AnswerIs DEF TypeOK
<1>2. \A i \in 1..k : /\ Start(reply, i) \in Nat /\ reply[i] \in Nat
                      /\ Start(reply, i) < reply[i] /\ reply[i] < RspLen
  BY ReplyIs
<1> HIDE DEF a, k
<1>3. \A i \in 1..k : a[i].start + a[i].size = reply[i]
  <2> TAKE i \in 1..k
  <2>1. /\ a[i].start = Start(reply, i) /\ a[i].size = reply[i] - Start(reply, i)
        /\ Start(reply, i) \in Nat /\ reply[i] \in Nat
    BY <1>1, <1>2
  <2> QED
    BY <2>1
<1>4. ASSUME NEW i \in 1..k-1 PROVE ~AtPrompt(a[i]) /\ Follows(a[i], a[i+1])
  <2>1. i \in 1..k /\ i+1 \in 1..k /\ i # k /\ i+1 # 1 /\ (i+1)-1 = i
    BY <1>1
  <2>2. a[i].n = i /\ a[i].of = k /\ a[i+1].n = i+1 /\ a[i+1].of = k /\ a[i+1].text = a[i].text
    BY <1>1, <2>1
  <2>3. a[i+1].start = reply[i]
    BY <1>1, <2>1 DEF Start
  <2> QED
    BY <1>3, <2>1, <2>2, <2>3 DEF AtPrompt, Follows
<1>5. 1 \in 1..k /\ k \in 1..k
  BY <1>1
<1>6. AtPrompt(a[k]) /\ a[1].n = 1 /\ a[1].start = 0
  BY <1>1, <1>5 DEF AtPrompt, Start
<1>7. \A i \in 1..k : a[i].start + a[i].size < RspLen
  BY <1>2, <1>3
<1> QED
  BY <1>4, <1>6, <1>7 DEF a, k

LEMMA LineContains ==
  ASSUME TypeOK, Contained, QnaAnswers \/ Hangup
  PROVE  Contained'
<1> USE DEF Contained
<1>1. CASE QnaAnswers /\ tty.open
  <2>1. PICK reply \in Replies : tty' = [tty EXCEPT !.inp = @ \o Answer(reply)]
    BY <1>1 DEF QnaAnswers, Answer
  <2>2. qna # <<>> /\ tty.up /\ UNCHANGED <<call, fill>>
    BY <1>1 DEF QnaAnswers
  <2> DEFINE inp == tty.inp
             m == Len(inp)
             a == Answer(reply)
             k == Len(reply)
             z == tty'.inp
  <2>3. /\ inp \in Seq(Pieces) /\ z # <<>> /\ tty'.open /\ tty'.up
        /\ m \in Nat /\ k \in Nat /\ k > 0 /\ Len(z) = m + k
        /\ \A i \in 1..m : z[i] = inp[i]
        /\ \A i \in 1..k : z[m+i] = a[i]
        /\ Head(z) = IF inp = <<>> THEN a[1] ELSE Head(inp)
        /\ z[Len(z)] = a[k]
    BY <1>1, <2>1, <2>2, AnsweredLine
  <2>4. /\ \A i \in 1..k : a[i].start + a[i].size < RspLen
        /\ \A i \in 1..k-1 : Follows(a[i], a[i+1])
        /\ AtPrompt(a[k]) /\ a[1].n = 1 /\ a[1].start = 0
    BY <2>2, AnswerInOrder
  <2>5. /\ \A i \in 1..m : inp[i].start + inp[i].size < RspLen
        /\ \A i \in 1..m-1 : Follows(inp[i], inp[i+1])
        /\ m # 0 => AtPrompt(inp[m])
    BY <2>3, EmptySeq DEF InOrder
  <2> HIDE DEF inp, m, a, k, z
  <2>6. InOrder'
    <3>1. \A i \in 1..Len(z) : z[i].start + z[i].size < RspLen
      <4> TAKE i \in 1..Len(z)
      <4>1. CASE i <= m
        <5>1. i \in 1..m
          BY <2>3, <4>1
        <5> QED
          BY <2>3, <2>5, <5>1
      <4>2. CASE i > m
        <5>1. i-m \in 1..k /\ m+(i-m) = i
          BY <2>3, <4>2
        <5>2. z[i] = a[i-m]
          BY <2>3, <5>1
        <5> QED
          BY <2>4, <5>1, <5>2
      <4> QED
        BY <2>3, <4>1, <4>2
    <3>2. \A i \in 1..Len(z)-1 : Follows(z[i], z[i+1])
      <4> TAKE i \in 1..Len(z)-1
      <4>1. CASE i < m
        <5>1. i \in 1..m-1 /\ i \in 1..m /\ i+1 \in 1..m
          BY <2>3, <4>1
        <5> QED
          BY <2>3, <2>5, <5>1
      <4>2. CASE i = m
        <5>1. m # 0 /\ m \in 1..m /\ 1 \in 1..k
          BY <2>3, <4>2
        <5>2. z[i] = inp[m] /\ z[i+1] = a[1]
          BY <2>3, <4>2, <5>1
        <5> QED
          BY <2>4, <2>5, <5>1, <5>2 DEF Follows
      <4>3. CASE i > m
        <5>1. i-m \in 1..k-1 /\ i-m \in 1..k /\ (i-m)+1 \in 1..k
              /\ m+(i-m) = i /\ m+((i-m)+1) = i+1
          BY <2>3, <4>3
        <5>2. z[i] = a[i-m] /\ z[i+1] = a[(i-m)+1]
          BY <2>3, <5>1
        <5> QED
          BY <2>4, <5>1, <5>2
      <4> QED
        BY <2>3, <4>1, <4>2, <4>3
    <3> QED
      BY <2>3, <2>4, <3>1, <3>2 DEF InOrder, z
  <2>7. HasRoom'
    BY <2>2, <2>3, <2>4 DEF HasRoom, inp, z
  <2> QED
    BY <2>6, <2>7
<1>2. CASE QnaAnswers /\ ~tty.open
  <2>1. UNCHANGED <<tty, call, fill>>
    BY <1>2 DEF QnaAnswers
  <2> QED
    BY <2>1 DEF InOrder, HasRoom
<1>3. CASE Hangup
  <2>1. tty'.inp = <<>> /\ ~tty'.up /\ UNCHANGED <<call, fill>>
    BY <1>3 DEF Hangup, TypeOK
  <2>2. InOrder'
    BY <2>1 DEF InOrder
  <2> QED
    BY <2>1, <2>2 DEF HasRoom
<1> QED
  BY <1>1, <1>2, <1>3

LEMMA InitContained == Init => Contained
BY DEF Init, Contained, InOrder, HasRoom

LEMMA StepContained == TypeOK /\ Contained /\ [Next]_vars => Contained'
<1>1. Contained /\ UNCHANGED vars => Contained'
  BY DEF Contained, InOrder, HasRoom, vars
<1> QED
  BY <1>1, CallsContain, ReadsContain, LineContains DEF Next

LEMMA AlwaysContained == Spec => []Contained
BY InitContained, StepContained, TypeCorrect, PTL DEF Spec

(***************************************************************************)
(* The pieces of an answer stay in the caller's buffer, whose size         *)
(* qna_usb_do_cmd() does not look at (qna_usb.c:124), if every reply fits: *)
(* whatever fails before or meanwhile.                                     *)
(***************************************************************************)
THEOREM RepliesFit == Spec => []StaysInRsp
<1>1. Contained => StaysInRsp
  BY DEF Contained, HasRoom, StaysInRsp
<1> QED
  BY <1>1, AlwaysContained, PTL

-----------------------------------------------------------------------------
(* Whose answer comes next, and which piece of it. *)

LastAnswered == call.id - Len(qna)
Due      == IF call.at = "read" THEN call.id - link.lag ELSE call.id - link.lag + 1
DuePiece == (IF call.at = "read" THEN Len(rsp) ELSE 0)
              + (IF Due = link.since THEN link.lag ELSE 0) + 1

\* Each text is answered once, in the order of the calls, and the next answer to
\* come, or the rest of one, is the one that is due.
LineInTurn ==
  /\ \A i \in 1..Len(qna) : qna[i] = <<LastAnswered + i>>
  /\ \A i \in 1..Len(tty.inp)-1 : AtPrompt(tty.inp[i]) =>
       tty.inp[i+1].text = <<tty.inp[i].text[1] + 1>>
  /\ IF tty.inp = <<>>
       THEN LastAnswered = Due - 1 /\ DuePiece = 1
       ELSE /\ Head(tty.inp).text = <<Due>> /\ Head(tty.inp).n = DuePiece
            /\ tty.inp[Len(tty.inp)].text = <<LastAnswered>>

\* What the present command has read is the one that was due.
ReadInTurn ==
  /\ \A i \in 1..Len(rsp) :
       /\ rsp[i].text = <<call.id - link.lag>>
       /\ rsp[i].n = IF call.id - link.lag = link.since THEN i + 1 ELSE i
  /\ call.at = "idle" => rsp # <<>> /\ AtPrompt(rsp[Len(rsp)])

InTurn ==
  /\ tty.open /\ tty.typed = <<>> /\ call.op \in {"connect", "cmd"}
  /\ call.op = "connect" => call.id = link.since
  /\ call.op = "connect" /\ call.at = "read" => link.lag = 0 /\ rsp = <<>>
  /\ call.op = "cmd" => call.id > link.since /\ ReadInTurn
  /\ tty.up => LineInTurn

Ordered == link.trusted => InTurn

\* A call that has begun without an error
LEMMA WrSucceeds ==
  ASSUME TypeOK, NEW op, Wr(op), call'.code = QNICLL_ERR_NONE
  PROVE  /\ tty.up /\ tty'.open /\ tty'.up /\ tty'.inp = tty.inp /\ tty'.typed = <<>>
         /\ call'.op = op /\ call'.id = call.id + 1 /\ call'.at = "read"
         /\ qna' = Append(qna, Append(tty.typed, call.id + 1))
<1>1. call'.code # QNICLL_ERR_BUG
  BY DEF QNICLL_ERR_NONE, QNICLL_ERR_BUG
<1>2. /\ tty'.open = TRUE /\ tty'.up = tty.up /\ tty'.inp = tty.inp
      /\ call'.op = op /\ call'.id = call.id + 1
  BY WrIs
<1>3. /\ tty.up /\ tty'.typed = <<>> /\ call'.at = "read"
      /\ qna' = Append(qna, Append(tty.typed, call.id + 1))
  BY <1>1, WrIs
<1> QED
  BY <1>2, <1>3

LEMMA ConnectOrdered ==
  ASSUME TypeOK, Contained, Ordered, qna_usb_connect
  PROVE  Ordered'
<1> SUFFICES ASSUME link'.trusted PROVE InTurn'
  BY DEF Ordered
<1>1. /\ qna = <<>> /\ tty.typed = <<>> /\ tty.inp = <<>> /\ call'.code = QNICLL_ERR_NONE
      /\ link'.since = call.id + 1 /\ link'.lag = 0 /\ rsp' = <<>> /\ call.id \in Int
  BY DEF qna_usb_connect, TypeOK
<1>2. Wr("connect")
  BY <1>1 DEF qna_usb_connect, Fails, QNICLL_ERR_NONE, QNICLL_ERR_BUG
<1>3. /\ tty'.open /\ tty'.inp = tty.inp /\ tty'.typed = <<>>
      /\ call'.op = "connect" /\ call'.id = call.id + 1 /\ call'.at = "read"
      /\ qna' = Append(qna, Append(tty.typed, call.id + 1))
  BY <1>1, <1>2, WrSucceeds
<1>4. qna' = <<<<call.id + 1>>>>
  BY <1>1, <1>3
<1>5. Len(qna') = 1 /\ qna'[1] = <<call.id + 1>>
  BY <1>4
<1>6. LastAnswered' = call.id /\ Due' = call.id + 1 /\ DuePiece' = 1
  <2>1. LastAnswered' = call'.id - Len(qna')
    BY DEF LastAnswered
  <2>2. Due' = call'.id - link'.lag
    BY <1>3 DEF Due
  <2>3. DuePiece' = Len(rsp') + (IF Due' = link'.since THEN link'.lag ELSE 0) + 1
    BY <1>3 DEF DuePiece
  <2> QED
    BY <1>1, <1>3, <1>5, <2>1, <2>2, <2>3
<1>7. LineInTurn'
  BY <1>1, <1>3, <1>5, <1>6 DEF LineInTurn
<1> QED
  BY <1>1, <1>3, <1>7 DEF InTurn

LEMMA CommandOrdered ==
  ASSUME TypeOK, Contained, Ordered, qna_usb_do_cmd
  PROVE  Ordered'
<1> SUFFICES ASSUME link'.trusted PROVE InTurn'
  BY DEF Ordered
<1>1. /\ link.trusted /\ call'.code = QNICLL_ERR_NONE
      /\ link'.since = link.since /\ link'.lag = link.lag /\ rsp' = <<>> /\ call.at = "idle"
      /\ link.since \in Int /\ link.lag \in Int /\ call.id \in Int /\ qna \in Seq(Seq(Int))
  <2>1. /\ link'.trusted = (link.trusted /\ call'.code = QNICLL_ERR_NONE)
        /\ link'.since = link.since /\ link'.lag = link.lag
    BY DEF qna_usb_do_cmd, TypeOK
  <2>2. link.trusted /\ call'.code = QNICLL_ERR_NONE
    BY <2>1
  <2> QED
    BY <2>1, <2>2 DEF qna_usb_do_cmd, MayCall, TypeOK
<1>2. InTurn
  BY <1>1 DEF Ordered
<1>3. /\ tty'.open /\ tty'.inp = tty.inp /\ tty'.typed = <<>>
      /\ tty.up /\ call'.op = "cmd" /\ call'.id = call.id + 1 /\ call'.at = "read"
      /\ qna' = Append(qna, Append(tty.typed, call.id + 1))
  BY <1>1, WrSucceeds DEF qna_usb_do_cmd
<1>4. qna' = Append(qna, <<call.id + 1>>)
  BY <1>2, <1>3 DEF InTurn
<1>5. /\ Len(qna) \in Nat /\ Len(qna') = Len(qna) + 1 /\ qna'[Len(qna)+1] = <<call.id + 1>>
      /\ \A i \in 1..Len(qna) : qna'[i] = qna[i]
  <2>1. <<call.id + 1>> \in Seq(Int)
    BY <1>1
  <2> QED
    BY <1>1, <1>4, <2>1, AppendProperties, LenProperties
<1>6. LastAnswered' = LastAnswered
  <2>1. (call.id + 1) - (Len(qna) + 1) = call.id - Len(qna)
    BY <1>1, <1>5
  <2> QED
    BY <1>3, <1>5, <2>1 DEF LastAnswered
<1>7. Due' = Due
  BY <1>1, <1>3 DEF Due
<1>8. DuePiece' = DuePiece
  <2>1. DuePiece' = Len(rsp') + (IF Due' = link'.since THEN link'.lag ELSE 0) + 1
    BY <1>3 DEF DuePiece
  <2>2. DuePiece = 0 + (IF Due = link.since THEN link.lag ELSE 0) + 1
    BY <1>1 DEF DuePiece
  <2>3. Len(rsp') = 0
    BY <1>1
  <2> QED
    BY <1>1, <1>7, <2>1, <2>2, <2>3
<1>9. LineInTurn
  BY <1>2, <1>3 DEF InTurn
<1>10. \A i \in 1..Len(qna') : qna'[i] = <<LastAnswered' + i>>
  <2> TAKE i \in 1..Len(qna')
  <2>1. CASE i \in 1..Len(qna)
    BY <1>5, <1>6, <1>9, <2>1 DEF LineInTurn
  <2>2. CASE i = Len(qna) + 1
    <3>1. LastAnswered + (Len(qna) + 1) = call.id + 1
      BY <1>1, <1>5 DEF LastAnswered
    <3> QED
      BY <1>5, <1>6, <2>2, <3>1
  <2> QED
    BY <1>5, <2>1, <2>2
<1>11. LineInTurn'
  BY <1>3, <1>6, <1>7, <1>8, <1>9, <1>10 DEF LineInTurn
<1>12. call.id + 1 > link.since
  BY <1>1, <1>2 DEF InTurn
<1>13. ReadInTurn'
  BY <1>1, <1>3 DEF ReadInTurn
<1> QED
  BY <1>1, <1>3, <1>11, <1>12, <1>13 DEF InTurn

\* The piece that is due is read.
LEMMA PieceOrdered ==
  ASSUME TypeOK, Contained, Ordered, ReadPiece
  PROVE  Ordered'
<1> SUFFICES ASSUME link'.trusted PROVE InTurn'
  BY DEF Ordered
<1> DEFINE piece == Head(tty.inp)
           m == Len(tty.inp)
           inp == tty.inp
           t == Tail(tty.inp)
<1>1. /\ inp \in Seq(Pieces) /\ inp # <<>> /\ call.at = "read"
      /\ tty'.inp = t /\ tty'.up = tty.up /\ tty'.open = tty.open /\ tty'.typed = tty.typed
      /\ call'.op = call.op /\ call'.id = call.id /\ qna' = qna
      /\ call'.at = IF call.op = "connect" \/ AtPrompt(piece) THEN "idle" ELSE "read"
      /\ rsp' = Append(rsp, piece) /\ rsp \in Seq(Pieces)
  BY DEF ReadPiece, TypeOK
<1>2. /\ link.trusted /\ link'.since = link.since
      /\ link'.lag = IF call.op = "connect"
                       THEN (IF AtPrompt(piece) THEN 0 ELSE 1) ELSE link.lag
      /\ link.since \in Int /\ link.lag \in {0, 1} /\ call.id \in Int
  BY DEF ReadPiece, TypeOK
<1>3. /\ piece = inp[1] /\ piece \in Pieces /\ t \in Seq(Pieces) /\ m \in Nat /\ m > 0
      /\ Len(t) = m - 1 /\ (t = <<>> <=> m = 1)
      /\ \A i \in 1..m-1 : t[i] = inp[i+1]
      /\ m # 1 => Head(t) = inp[2] /\ t[Len(t)] = inp[m]
  BY <1>1, TailIs
<1>4. /\ tty.up /\ AtPrompt(inp[m]) /\ \A i \in 1..m-1 : Follows(inp[i], inp[i+1])
  BY <1>1 DEF Contained, InOrder
<1>5. InTurn
  BY <1>2 DEF Ordered
<1>6. LineInTurn
  BY <1>4, <1>5 DEF InTurn
<1>7. /\ \A i \in 1..Len(qna) : qna[i] = <<LastAnswered + i>>
      /\ \A i \in 1..m-1 : AtPrompt(inp[i]) => inp[i+1].text = <<inp[i].text[1] + 1>>
      /\ piece.text = <<Due>> /\ piece.n = DuePiece /\ inp[m].text = <<LastAnswered>>
  BY <1>1, <1>6 DEF LineInTurn
<1>8. Due = call.id - link.lag /\ Due \in Int /\ LastAnswered' = LastAnswered
  BY <1>1, <1>2 DEF Due, LastAnswered
<1>9. /\ Len(rsp) \in Nat /\ Len(rsp') = Len(rsp) + 1 /\ rsp'[Len(rsp)+1] = piece
      /\ \A i \in 1..Len(rsp) : rsp'[i] = rsp[i]
  BY <1>1, <1>3, AppendProperties, LenProperties
<1> HIDE DEF piece, m, inp, t
\* What has been read afterwards
<1>10. ASSUME call.op = "cmd", NEW i \in 1..Len(rsp')
       PROVE  /\ rsp'[i].text = <<call'.id - link'.lag>>
              /\ rsp'[i].n = IF call'.id - link'.lag = link'.since THEN i + 1 ELSE i
  <2>1. /\ ReadInTurn /\ link'.lag = link.lag /\ link'.since = link.since
        /\ call'.id = call.id /\ link.lag \in Int
    BY <1>1, <1>2, <1>5, <1>10 DEF InTurn
  <2>2. CASE i \in 1..Len(rsp)
    BY <1>9, <2>1, <2>2 DEF ReadInTurn
  <2>3. CASE i = Len(rsp) + 1
    <3>1. link.lag = 1 \/ Due # link.since
      BY <1>2, <1>5, <1>8, <1>10 DEF InTurn
    <3>2. DuePiece = Len(rsp) + (IF Due = link.since THEN link.lag ELSE 0) + 1
      BY <1>1 DEF DuePiece
    <3>3. piece.n = IF Due = link.since THEN i + 1 ELSE i
      BY <1>7, <1>9, <2>3, <3>1, <3>2
    <3> QED
      BY <1>7, <1>8, <1>9, <2>1, <2>3, <3>3
  <2> QED
    BY <1>9, <2>2, <2>3
\* What is in front afterwards
<1>11. CASE AtPrompt(piece)
  <2>1. /\ IF t = <<>> THEN LastAnswered = Due ELSE Head(t).text = <<Due + 1>> /\ Head(t).n = 1
    <3>1. CASE m = 1
      <4>1. <<Due>> = <<LastAnswered>>
        BY <1>3, <1>7, <3>1
      <4> QED
        BY <1>3, <3>1, <4>1
    <3>2. CASE m # 1
      <4>1. 1 \in 1..m-1 /\ 1+1 = 2
        BY <1>3, <3>2
      <4>2. inp[2].text = <<inp[1].text[1] + 1>> /\ Follows(inp[1], inp[2])
        BY <1>3, <1>4, <1>7, <1>11, <4>1
      <4>3. inp[1].text[1] = Due
        BY <1>3, <1>7
      <4> QED
        BY <1>3, <1>11, <3>2, <4>2, <4>3 DEF Follows
    <3> QED
      BY <3>1, <3>2
  <2>2. call'.at = "idle"
    BY <1>1, <1>11
  <2>3. Due' = Due + 1 /\ DuePiece' = 1
    <3>1. Due' = call.id - link'.lag + 1
      BY <1>1, <2>2 DEF Due
    <3>2. DuePiece' = 0 + (IF Due' = link'.since THEN link'.lag ELSE 0) + 1
      BY <2>2 DEF DuePiece
    <3>3. CASE call.op = "connect"
      <4>1. link.lag = 0 /\ link'.lag = 0 /\ call.id = link.since
        BY <1>1, <1>2, <1>5, <1>11, <3>3 DEF InTurn
      <4> QED
        BY <1>2, <1>8, <3>1, <3>2, <4>1
    <3>4. CASE call.op = "cmd"
      <4>1. link'.lag = link.lag /\ call.id > link.since
        BY <1>2, <1>5, <3>4 DEF InTurn
      <4>2. Due' = Due + 1
        BY <1>2, <1>8, <3>1, <4>1
      <4>3. Due' # link.since
        BY <1>2, <3>1, <4>1
      <4> QED
        BY <1>2, <3>2, <4>2, <4>3
    <3> QED
      BY <1>5, <3>3, <3>4 DEF InTurn
  <2> QED
    <3>1. LineInTurn'
      <4>1. \A i \in 1..Len(t)-1 : AtPrompt(t[i]) => t[i+1].text = <<t[i].text[1] + 1>>
        <5> TAKE i \in 1..Len(t)-1
        <5>1. i \in 1..m-1 /\ i+1 \in 1..m-1
          BY <1>3
        <5> QED
          BY <1>3, <1>7, <5>1
      <4>2. t # <<>> => t[Len(t)].text = <<LastAnswered>>
        BY <1>3, <1>7
      <4> QED
        BY <1>1, <1>7, <1>8, <2>1, <2>3, <4>1, <4>2 DEF LineInTurn
    <3>2. call.op = "cmd" => ReadInTurn'
      <4> SUFFICES ASSUME call.op = "cmd" PROVE ReadInTurn'
        OBVIOUS
      <4>1. rsp' # <<>> /\ AtPrompt(rsp'[Len(rsp')])
        BY <1>9, <1>11
      <4> QED
        BY <1>10, <2>2, <4>1 DEF ReadInTurn
    <3> QED
      BY <1>1, <1>2, <1>5, <2>2, <3>1, <3>2 DEF InTurn
<1>12. CASE ~AtPrompt(piece)
  <2>1. /\ m # 1 /\ t # <<>> /\ Head(t).text = <<Due>> /\ Head(t).n = DuePiece + 1
    <3>1. m # 1
      BY <1>3, <1>4, <1>12
    <3>2. 1 \in 1..m-1 /\ 1+1 = 2
      BY <1>3, <3>1
    <3>3. Follows(inp[1], inp[2])
      BY <1>4, <3>2
    <3> QED
      BY <1>3, <1>7, <1>12, <3>1, <3>3 DEF Follows
  <2>2. Due' = Due /\ DuePiece' = DuePiece + 1
    <3>1. CASE call.op = "connect"
      <4>1. /\ call'.at = "idle" /\ link'.lag = 1 /\ link.lag = 0 /\ rsp = <<>>
            /\ call.id = link.since
        BY <1>1, <1>2, <1>5, <1>12, <3>1 DEF InTurn
      <4>2. Due' = call.id - 1 + 1 /\ Due = call.id
        BY <1>1, <1>2, <1>8, <4>1 DEF Due
      <4>3. Due' = link.since /\ Due = link.since
        BY <1>2, <4>1, <4>2
      <4>4. DuePiece = Len(rsp) + 0 + 1
        BY <1>1, <4>1, <4>3 DEF DuePiece
      <4>5. DuePiece' = 0 + 1 + 1
        BY <1>2, <4>1, <4>3 DEF DuePiece
      <4> QED
        BY <4>1, <4>3, <4>4, <4>5
    <3>2. CASE call.op = "cmd"
      <4>1. call'.at = "read" /\ link'.lag = link.lag
        BY <1>1, <1>2, <1>12, <3>2
      <4>2. Due' = Due
        BY <1>1, <1>8, <4>1 DEF Due
      <4>3. DuePiece = Len(rsp) + (IF Due = link.since THEN link.lag ELSE 0) + 1
        BY <1>1 DEF DuePiece
      <4>4. DuePiece' = Len(rsp') + (IF Due = link.since THEN link.lag ELSE 0) + 1
        BY <1>2, <4>1, <4>2 DEF DuePiece
      <4> QED
        BY <1>2, <1>9, <4>2, <4>3, <4>4
    <3> QED
      BY <1>5, <3>1, <3>2 DEF InTurn
  <2>3. LineInTurn'
    <3>1. \A i \in 1..Len(t)-1 : AtPrompt(t[i]) => t[i+1].text = <<t[i].text[1] + 1>>
      <4> TAKE i \in 1..Len(t)-1
      <4>1. i \in 1..m-1 /\ i+1 \in 1..m-1
        BY <1>3
      <4> QED
        BY <1>3, <1>7, <4>1
    <3>2. t[Len(t)].text = <<LastAnswered>>
      BY <1>3, <1>7, <2>1
    <3> QED
      BY <1>1, <1>7, <1>8, <2>1, <2>2, <3>1, <3>2 DEF LineInTurn
  <2>4. call.op = "cmd" => ReadInTurn' /\ call'.at = "read"
    BY <1>1, <1>10, <1>12 DEF ReadInTurn
  <2>5. call.op = "connect" => call'.at = "idle"
    BY <1>1
  <2> QED
    BY <1>1, <1>2, <1>5, <2>3, <2>4, <2>5 DEF InTurn
<1> QED
  BY <1>11, <1>12

\* QNA answers the oldest text, which is the one after the last it answered.
LEMMA AnswersOrdered ==
  ASSUME TypeOK, Contained, Ordered, QnaAnswers
  PROVE  Ordered'
<1> SUFFICES ASSUME link'.trusted PROVE InTurn'
  BY DEF Ordered
<1>1. /\ tty.up /\ qna # <<>> /\ qna' = Tail(qna) /\ UNCHANGED <<call, rsp, link>>
      /\ qna \in Seq(Seq(Int)) /\ call.id \in Int
  BY DEF QnaAnswers, TypeOK
<1>2. InTurn
  BY <1>1 DEF Ordered
<1>3. LineInTurn /\ tty.open /\ tty.typed = <<>>
  BY <1>1, <1>2 DEF InTurn
<1>4. PICK reply \in Replies : tty' = [tty EXCEPT !.inp = @ \o Answer(reply)]
  BY <1>3 DEF QnaAnswers, Answer
<1> DEFINE inp == tty.inp
           m == Len(inp)
           a == Answer(reply)
           k == Len(reply)
           z == tty'.inp
<1>5. /\ inp \in Seq(Pieces) /\ z # <<>> /\ tty'.open = tty.open /\ tty'.typed = tty.typed
      /\ m \in Nat /\ k \in Nat /\ k > 0 /\ Len(z) = m + k
      /\ \A i \in 1..m : z[i] = inp[i]
      /\ \A i \in 1..k : z[m+i] = a[i]
      /\ Head(z) = IF inp = <<>> THEN a[1] ELSE Head(inp)
      /\ z[Len(z)] = a[k]
  BY <1>1, <1>4, AnsweredLine
<1>6. /\ \A i \in 1..k : a[i].text = Head(qna)
      /\ \A i \in 1..k-1 : ~AtPrompt(a[i])
      /\ a[1].n = 1
  BY <1>1, AnswerIs, AnswerInOrder
<1>7. /\ Len(qna) \in Nat /\ Len(qna) > 0 /\ Head(qna) = qna[1] /\ Len(qna') = Len(qna) - 1
      /\ \A i \in 1..Len(qna)-1 : qna'[i] = qna[i+1]
  <2>1. Len(qna) \in Nat /\ Len(qna) > 0
    BY <1>1, EmptySeq, LenProperties
  <2>2. /\ Head(qna) = qna[1] /\ Len(Tail(qna)) = Len(qna) - 1
        /\ \A i \in 1..Len(Tail(qna)) : Tail(qna)[i] = qna[i+1]
    BY <1>1, HeadTailProperties
  <2> QED
    BY <1>1, <2>1, <2>2
<1>8. /\ \A i \in 1..Len(qna) : qna[i] = <<LastAnswered + i>>
      /\ \A i \in 1..m-1 : AtPrompt(inp[i]) => inp[i+1].text = <<inp[i].text[1] + 1>>
      /\ IF inp = <<>>
           THEN LastAnswered = Due - 1 /\ DuePiece = 1
           ELSE /\ Head(inp).text = <<Due>> /\ Head(inp).n = DuePiece
                /\ inp[m].text = <<LastAnswered>>
  BY <1>3 DEF LineInTurn
<1>9. LastAnswered \in Int /\ LastAnswered' = LastAnswered + 1 /\ Due' = Due /\ DuePiece' = DuePiece
  BY <1>1, <1>7 DEF LastAnswered, Due, DuePiece
<1>10. Head(qna) = <<LastAnswered'>>
  BY <1>7, <1>8, <1>9
<1>11. Due \in Int
  BY <1>1 DEF Due, TypeOK
<1>12. m = 0 <=> inp = <<>>
  BY <1>5, EmptySeq
<1> HIDE DEF inp, m, a, k, z
<1>13. \A i \in 1..Len(qna') : qna'[i] = <<LastAnswered' + i>>
  <2> TAKE i \in 1..Len(qna')
  <2>1. i \in 1..Len(qna)-1 /\ i+1 \in 1..Len(qna)
    BY <1>7
  <2>2. qna'[i] = <<LastAnswered + (i+1)>>
    BY <1>7, <1>8, <2>1
  <2>3. LastAnswered + (i+1) = LastAnswered' + i
    BY <1>9, <2>1
  <2> QED
    BY <2>2, <2>3
<1>14. \A i \in 1..Len(z)-1 : AtPrompt(z[i]) => z[i+1].text = <<z[i].text[1] + 1>>
  <2> SUFFICES ASSUME NEW i \in 1..Len(z)-1, AtPrompt(z[i])
               PROVE  z[i+1].text = <<z[i].text[1] + 1>>
    OBVIOUS
  <2>1. CASE i < m
    <3>1. i \in 1..m-1 /\ i \in 1..m /\ i+1 \in 1..m
      BY <1>5, <2>1
    <3> QED
      BY <1>5, <1>8, <3>1
  <2>2. CASE i = m
    <3>1. m # 0 /\ m \in 1..m /\ 1 \in 1..k
      BY <1>5, <2>2
    <3>2. z[i] = inp[m] /\ z[i+1] = a[1]
      BY <1>5, <2>2, <3>1
    <3>3. inp[m].text = <<LastAnswered>> /\ a[1].text = <<LastAnswered'>>
      BY <1>6, <1>8, <1>10, <1>12, <3>1
    <3> QED
      BY <1>9, <3>2, <3>3
  <2>3. CASE i > m
    <3>1. i-m \in 1..k-1 /\ i-m \in 1..k /\ m+(i-m) = i
      BY <1>5, <2>3
    <3>2. z[i] = a[i-m]
      BY <1>5, <3>1
    <3> QED
      BY <1>6, <3>1, <3>2
  <2> QED
    BY <1>5, <2>1, <2>2, <2>3
<1>15. Head(z).text = <<Due>> /\ Head(z).n = DuePiece
  <2>1. CASE inp = <<>>
    <3>1. 1 \in 1..k /\ LastAnswered' = Due
      BY <1>5, <1>8, <1>9, <1>11, <2>1
    <3> QED
      BY <1>5, <1>6, <1>8, <1>10, <2>1, <3>1
  <2>2. CASE inp # <<>>
    BY <1>5, <1>8, <2>2
  <2> QED
    BY <2>1, <2>2
<1>16. z[Len(z)].text = <<LastAnswered'>>
  <2>1. k \in 1..k
    BY <1>5
  <2> QED
    BY <1>5, <1>6, <1>10, <2>1
<1>17. LineInTurn'
  BY <1>5, <1>9, <1>13, <1>14, <1>15, <1>16 DEF LineInTurn, z
<1>18. UNCHANGED <<tty.open, tty.typed>>
  BY <1>5
<1> QED
  BY <1>1, <1>2, <1>17, <1>18 DEF InTurn, ReadInTurn

LEMMA OthersOrdered ==
  ASSUME TypeOK, Contained, Ordered,
         \/ qna_usb_disconnect \/ ReadFails \/ ReadNothing \/ Hangup \/ UNCHANGED vars
  PROVE  Ordered'
<1>1. CASE qna_usb_disconnect \/ ReadFails
  BY <1>1 DEF qna_usb_disconnect, ReadFails, Ordered, TypeOK
<1>2. CASE ReadNothing
  BY <1>2 DEF ReadNothing, Ordered, InTurn, TypeOK
<1>3. CASE Hangup
  BY <1>3 DEF Hangup, Ordered, InTurn, ReadInTurn, TypeOK
<1>4. CASE UNCHANGED vars
  BY <1>4 DEF vars, Ordered, InTurn, ReadInTurn, LineInTurn, LastAnswered, Due, DuePiece
<1> QED
  BY <1>1, <1>2, <1>3, <1>4

LEMMA InitOrdered == Init => Ordered
BY DEF Init, Ordered

LEMMA StepOrdered == TypeOK /\ Contained /\ Ordered /\ [Next]_vars => Ordered'
BY ConnectOrdered, CommandOrdered, PieceOrdered, AnswersOrdered, OthersOrdered DEF Next

(***************************************************************************)
(* A caller that found QNA idle and stops at the first error gets whole    *)
(* answers, each the answer to its own command, or, when the answer to the *)
(* text of qna_usb_connect() had more than one piece, always to the text   *)
(* before (qna_usb.c:107).                                                 *)
(***************************************************************************)
THEOREM AnswersInTurn == Spec => []AnswersLagByConnect
<1>1. Ordered => AnswersLagByConnect
  BY DEF Ordered, InTurn, ReadInTurn, AnswersLagByConnect, AtPrompt
<1>2. Spec => []Ordered
  BY InitOrdered, StepOrdered, TypeCorrect, AlwaysContained, PTL DEF Spec
<1> QED
  BY <1>1, <1>2, PTL

=============================================================================
