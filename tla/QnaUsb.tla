------------------------------- MODULE QnaUsb -------------------------------
(***************************************************************************)
(* qna_usb.c: commands to the QNA firmware over a serial line.  The line   *)
(* is read in canonical mode with '>' as an end of line (set_attrib), so   *)
(* that a read() gets one piece of a reply, and the prompt is the end of   *)
(* its piece.  qna_usb_connect() reads one piece; qna_usb_do_cmd() reads   *)
(* until the prompt, behind one another into the caller's buffer.          *)
(*                                                                         *)
(* The text of a call is its number; the part of it that a short write     *)
(* gets across is the negative number.  QNA executes what was typed since  *)
(* the last carriage return.  A reply is the sequence of the positions in  *)
(* it where its pieces end.                                                *)
(***************************************************************************)
EXTENDS Integers, Sequences

CONSTANTS
  Replies,  (* the replies of QNA                                            *)
  RspLen,   (* size of the caller's buffer, rsp_len                          *)
  Faults,   (* what can fail: "open", "attrib", "write", "read", ... *)
  MaxCalls  (* bound: calls, to connect among them                           *)

ASSUME QnaUsbAssumption ==
  /\ Replies \subseteq Seq(Nat \ {0}) \ {<<>>}
  /\ RspLen \in Nat \ {0}
  /\ Faults \subseteq {"open", "attrib", "write", "read", "hangup"}
  /\ MaxCalls \in Nat
  /\ \A reply \in Replies : \A i, j \in DOMAIN reply :
       reply[i] < RspLen /\ (i < j => reply[i] < reply[j])

QNICLL_ERR_NONE == 0
QNICLL_ERR_BUG  == 2

VARIABLES
  tty,   (* open; with its attributes set; not hung up; pieces that arrived; *)
         (* texts typed, unexecuted                                          *)
  qna,   (* the texts QNA has to answer                                      *)
  call,  (* the present or last call: its number, what it is, "read" while   *)
         (* it reads, "idle" when it returned, its code                      *)
  rsp,   (* the pieces it has read                                           *)
  fill,  (* the end of the last one in the caller's buffer: p - rsp + n      *)
  link   (* of the present connection: began with QNA idle and no call has   *)
         (* failed; the call that made it; by how many answers the calls lag *)

vars == <<tty, qna, call, rsp, fill, link>>

Init ==
  /\ tty = [open |-> FALSE, set |-> FALSE, up |-> TRUE, inp |-> <<>>, typed |-> <<>>]
  /\ qna = <<>>
  /\ call = [id |-> 0, op |-> "none", at |-> "idle", code |-> QNICLL_ERR_NONE]
  /\ rsp = <<>>
  /\ fill = 0
  /\ link = [trusted |-> FALSE, since |-> 0, lag |-> 0]

MayCall == call.at = "idle" /\ call.id < MaxCalls

\* The result of write() is handed on
Slip_Fails(op) == call' = [id |-> call.id + 1, op |-> op, at |-> "idle", code |-> -1]

Fails(op) == call' = [id |-> call.id + 1, op |-> op, at |-> "idle", code |-> QNICLL_ERR_BUG]

Reads(op) == call' = [id |-> call.id + 1, op |-> op, at |-> "read", code |-> QNICLL_ERR_NONE]

\* The texts QNA may be left with when a write fails or is short
Partial(op, text) == {<<>>, <<text>>} \cup (IF op = "cmd" THEN {<<-text>>} ELSE {})

\* A write that was short passes for one
Slip_Wr(op) ==
  \/ /\ tty.up
     /\ qna' = Append(qna, Append(tty.typed, call.id + 1))
     /\ tty' = [tty EXCEPT !.open = TRUE, !.set = TRUE, !.typed = <<>>]
     /\ Reads(op)
  \/ /\ "write" \in Faults
     /\ tty' = [tty EXCEPT !.open = TRUE, !.set = TRUE,
                           !.typed = Append(@, -(call.id + 1))]
     /\ Reads(op)
     /\ UNCHANGED qna

\* wr() of the text and of its carriage return: the first one that fails, or writes
\* less than all, ends the call.
Wr(op) ==
  \/ /\ tty.up
     /\ qna' = Append(qna, Append(tty.typed, call.id + 1))
     /\ tty' = [tty EXCEPT !.open = TRUE, !.set = TRUE, !.typed = <<>>]
     /\ Reads(op)
  \/ /\ "write" \in Faults \/ ~tty.up
     /\ \E text \in IF tty.up THEN Partial(op, call.id + 1) ELSE {<<>>} :
          tty' = [tty EXCEPT !.open = TRUE, !.set = TRUE, !.typed = @ \o text]
     /\ Fails(op)
     /\ UNCHANGED qna

\* No input is discarded when the line is opened.  When set_attrib() fails it is
\* left open.
qna_usb_connect ==
  /\ MayCall /\ ~tty.open
  /\ \/ Wr("connect")
     \/ "open" \in Faults /\ Fails("connect") /\ UNCHANGED <<tty, qna>>
     \/ /\ "attrib" \in Faults
        /\ Fails("connect")
        /\ tty' = [tty EXCEPT !.open = TRUE, !.set = FALSE]
        /\ UNCHANGED qna
  /\ rsp' = <<>> /\ fill' = 0
  /\ link' = [trusted |-> qna = <<>> /\ tty.typed = <<>> /\ tty.inp = <<>>
                            /\ call'.code = QNICLL_ERR_NONE,
              since |-> call.id + 1, lag |-> 0]

\* The application sends nothing over a line whose attributes were not set.
qna_usb_do_cmd ==
  /\ MayCall /\ tty.open /\ tty.set
  /\ Wr("cmd")
  /\ rsp' = <<>> /\ fill' = 0
  /\ link' = [link EXCEPT !.trusted = @ /\ call'.code = QNICLL_ERR_NONE]

\* Only between calls; the line drops what was not read.
qna_usb_disconnect ==
  /\ MayCall /\ tty.open
  /\ tty' = [tty EXCEPT !.open = FALSE, !.inp = <<>>]
  /\ call' = [id |-> call.id + 1, op |-> "none", at |-> "idle", code |-> QNICLL_ERR_NONE]
  /\ rsp' = <<>> /\ fill' = 0
  /\ link' = [link EXCEPT !.trusted = FALSE]
  /\ UNCHANGED qna

-----------------------------------------------------------------------------
\* The prompt is looked for at the start of the piece
Slip_AtPrompt(piece) == piece.n = piece.of /\ piece.size = 1

\* strstr(p, ">"): the prompt ends the last piece of a reply.
AtPrompt(piece) == piece.n = piece.of

\* One read(): rd_ibuf() in qna_usb_connect(), or a turn of the loop of
\* qna_usb_do_cmd()
ReadPiece ==
  /\ call.at = "read"
  /\ tty.inp # <<>>
  /\ LET piece == Head(tty.inp) IN
       /\ rsp' = Append(rsp, piece)
       /\ fill' = IF call.op = "connect" THEN fill ELSE fill + piece.size
       /\ call' = [call EXCEPT !.at =
                     IF call.op = "connect" \/ AtPrompt(piece) THEN "idle" ELSE "read"]
       /\ link' = IF call.op = "connect"
                    THEN [link EXCEPT !.lag = IF AtPrompt(piece) THEN 0 ELSE 1] ELSE link
  /\ tty' = [tty EXCEPT !.inp = Tail(@)]
  /\ UNCHANGED qna

ReadFails ==
  /\ call.at = "read"
  /\ "read" \in Faults
  /\ call' = [call EXCEPT !.at = "idle", !.code = QNICLL_ERR_BUG]
  /\ link' = [link EXCEPT !.trusted = FALSE]
  /\ UNCHANGED <<tty, qna, rsp, fill>>

\* A line that is hung up reads 0 bytes at once.  That is enough for
\* qna_usb_connect(); the loop of qna_usb_do_cmd() turns for ever.
ReadNothing ==
  /\ call.at = "read" /\ call.op = "connect"
  /\ ~tty.up
  /\ call' = [call EXCEPT !.at = "idle"]
  /\ UNCHANGED <<tty, qna, rsp, fill, link>>

Start(reply, i) == IF i = 1 THEN 0 ELSE reply[i-1]

\* External: QNA answers; nobody reads a line that is closed.
QnaAnswers ==
  /\ tty.up /\ qna # <<>>
  /\ qna' = Tail(qna)
  /\ \E reply \in Replies :
       LET pieces == [i \in DOMAIN reply |->
                        [text |-> Head(qna), n |-> i, of |-> Len(reply),
                         start |-> Start(reply, i), size |-> reply[i] - Start(reply, i)]]
       IN tty' = IF tty.open THEN [tty EXCEPT !.inp = @ \o pieces] ELSE tty
  /\ UNCHANGED <<call, rsp, fill, link>>

\* External: the cable is pulled out.
Hangup ==
  /\ "hangup" \in Faults
  /\ tty.up
  /\ tty' = [tty EXCEPT !.up = FALSE, !.inp = <<>>]
  /\ UNCHANGED <<qna, call, rsp, fill, link>>

Next ==
  \/ qna_usb_connect \/ qna_usb_do_cmd \/ qna_usb_disconnect
  \/ ReadPiece \/ ReadFails \/ ReadNothing \/ QnaAnswers \/ Hangup

\* A read() returns once there is a piece, and QNA answers what it was sent.
Fairness == WF_vars(ReadPiece) /\ WF_vars(QnaAnswers)

Spec == Init /\ [][Next]_vars /\ Fairness

-----------------------------------------------------------------------------
Pieces ==
  [text : Seq(Int), n : Nat \ {0}, of : Nat \ {0}, start : Nat, size : Nat \ {0}]

TypeOK ==
  /\ tty \in [open : BOOLEAN, set : BOOLEAN, up : BOOLEAN, inp : Seq(Pieces),
              typed : Seq(Int)]
  /\ qna \in Seq(Seq(Int))
  /\ call \in [id : 0..MaxCalls, op : {"none", "connect", "cmd"}, at : {"idle", "read"},
               code : {QNICLL_ERR_NONE, QNICLL_ERR_BUG}]
  /\ rsp \in Seq(Pieces)
  /\ fill \in Nat
  /\ link \in [trusted : BOOLEAN, since : 0..MaxCalls, lag : {0, 1}]

(***************************************************************************)
(* A caller that found QNA idle and stops at the first error gets whole    *)
(* answers, each the answer to its own command; but if the answer to the   *)
(* "i\r" of qna_usb_connect() had more than one piece, each call gets the  *)
(* answer to the one before, the first one the rest of that answer.        *)
(***************************************************************************)
AnswersLagByConnect ==
  (link.trusted /\ call.op = "cmd" /\ call.at = "idle") =>
    /\ rsp # <<>> /\ rsp[Len(rsp)].n = rsp[Len(rsp)].of
    /\ \A i \in DOMAIN rsp :
         /\ rsp[i].text = <<call.id - link.lag>>
         /\ rsp[i].n = IF call.id - link.lag = link.since THEN i + 1 ELSE i

(***************************************************************************)
(* The pieces of an answer are written one behind the other and p_len is   *)
(* not looked at.  They stay in the caller's buffer nevertheless, with the *)
(* NUL behind them, after any failures, if every reply of QNA fits in it.  *)
(***************************************************************************)
StaysInRsp ==
  call.op = "cmd" => fill < RspLen

(***************************************************************************)
(* A call ends, unless the line is hung up: there is a prompt for every    *)
(* call that waits for one, whatever failed before.                        *)
(***************************************************************************)
CallEnds == call.at = "read" ~> (call.at = "idle" \/ ~tty.up)

=============================================================================
