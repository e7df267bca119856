------------------------------- MODULE Qregc -------------------------------
(***************************************************************************)
(* qregc.c: the client half of the register protocol.  The library talks   *)
(* to the demon "qregd" over one TCP connection.  A packet is a four-byte  *)
(* big-endian length followed by that many bytes of text.  Every setter    *)
(* writes one request packet and then blocks in two read() calls, one for  *)
(* the length and one for the text of the reply.                           *)
(*                                                                         *)
(* What is exact here is what framing errors are made of: the bytes of the *)
(* incoming stream, where one read() stops, how many bytes the next one    *)
(* asks for, and what is left in the global rxbuf.  A request is abstract  *)
(* (an operation and a register): the demon may round a requested value to *)
(* any value, so the requested value itself carries no information.        *)
(*                                                                         *)
(* The TCP stream and qregd are not under src/: they are modelled from how *)
(* qregc.c uses them (actions QregdServe and ConnectionLost).              *)
(***************************************************************************)
EXTENDS Integers, Sequences

CONSTANTS
  Regs,         (* the registers behind the qregc_set_* functions            *)
  CheckedRegs,  (* those whose setter tests the result of wr_str()           *)
  DoubleRegs,   (* those whose setter reads its answer with rd_double()      *)
  Vals,         (* Vals[r]: the numerals that register r can hold            *)
  CmdTexts,     (* texts qregd can answer to a raw "qna ..." command         *)
  RxCap,        (* bytes of text rd_pkt() accepts; 1022 in the source        *)
  ShortReads,   (* may a read() return less than the rest of a reply?        *)
  MaxCalls      (* bound on the number of calls the application makes        *)

Byte   == 0..255
Digit  == 48..57
Space  == 32
Point  == 46
Sign   == {43, 45}                      \* + -
White  == {Space} \cup 9..13            \* what isspace() is true of
MaxInt == 2147483647

\* s[a..b] is a decimal numeral: a sign or none, and digits, of which a point may
\* be part if the conversion is "%lg".
Numeral(s, a, b, double) ==
  /\ \A m \in a..b : \/ s[m] \in Digit
                     \/ m = a /\ s[m] \in Sign
                     \/ double /\ s[m] = Point
  /\ \E m \in a..b : s[m] \in Digit
  /\ \A i, j \in a..b : s[i] = Point /\ s[j] = Point => i = j

\* The text of a reply to a setter fits in rxbuf.  That of a reply to a raw
\* command is as long as qregd likes.
ASSUME QregcAssumption ==
  /\ CheckedRegs \subseteq Regs
  /\ DoubleRegs \subseteq Regs
  /\ \A r \in Regs : \A v \in Vals[r] :
       v \in Seq(Byte) /\ Numeral(v, 1, Len(v), r \in DoubleRegs) /\ Len(v) + 2 <= RxCap
  /\ CmdTexts \subseteq {text \in Seq(Byte) : Len(text) <= MaxInt}
  /\ RxCap \in 3..MaxInt-1
  /\ ShortReads \in BOOLEAN
  /\ MaxCalls \in Nat

\* A definition called Slip_... is the next one with a plausible slip in it; the
\* properties below are tried on the model with the slip, too.
Slip_ErrBug == 3

QNICLL_ERR_NONE == 0
QNICLL_ERR_BUG  == 2

VARIABLES
  conn,    (* "down", "up", "closed" by the peer, "closing" by the client    *)
  stream,  (* bytes qregd sent that the client has not read                  *)
  reqs,    (* requests qregd has not served                                  *)
  reg,     (* the hardware registers                                         *)
  pc,      (* "idle", or blocked reading the "hdr" or the "body" of a reply  *)
  call,    (* the call in progress, or the last one                          *)
  want,    (* the byte count rd_pkt() asks its second read() for             *)
  rxbuf,   (* the bytes of the global rxbuf that rd_pkt() can write          *)
  ret,     (* what the last call returned                                    *)
  rdfail,  (* history: which read() of the last call failed, if one did: of  *)
           (* the header, of the body, or of a body of negative length       *)
  trust,   (* history: since qregc_connect() only setters, shutdown and      *)
           (* disconnect were called, and none of them failed                *)
  ncalls   (* history: calls made so far                                     *)

vars == <<conn, stream, reqs, reg, pc, call, want, rxbuf, ret, rdfail, trust, ncalls>>

\* What the registers can hold
RegVals == {held \in [Regs -> UNION {Vals[r] : r \in Regs}] : \A r \in Regs : held[r] \in Vals[r]}

Requests == [op : {"set"}, reg : Regs] \cup [op : {"cmd", "shutdown", "quit"}]
Returns  == [code : {QNICLL_ERR_NONE, QNICLL_ERR_BUG}, val : Seq(Byte)]

-----------------------------------------------------------------------------
(* Packets. *)

\* htonl(n) as four bytes
Hdr(n) == <<n \div 16777216, (n \div 65536) % 256, (n \div 256) % 256, n % 256>>

\* (int)ntohl() of the first four bytes of s: the top bit is the sign
Ntohl(s) ==
  (((IF s[1] < 128 THEN s[1] ELSE s[1] - 256) * 256 + s[2]) * 256 + s[3]) * 256 + s[4]

Frame(text) == Hdr(Len(text)) \o text

Smaller(a, b) == IF a <= b THEN a ELSE b
Front(s, n)   == SubSeq(s, 1, n)
Rest(s, n)    == SubSeq(s, n + 1, Len(s))

-----------------------------------------------------------------------------
(* The text of a reply: "<errcode> <value>". *)

OkText(v) == <<48, Space>> \o v
ErrText   == <<50, Space, 120>>

\* What sscanf's "%d" (or "%lg") converts when it starts after the first k bytes
\* of s: it skips white space and takes the longest numeral that begins there.
\* There is one such pair of positions, or none.  A NUL is neither white space nor
\* part of a numeral, so nothing behind the end of a text is looked at.
Converted(s, k, double) ==
  {w \in (1..Len(s)) \X (1..Len(s)) :
     /\ k < w[1] /\ w[1] <= w[2]
     /\ \A m \in k+1..w[1]-1 : s[m] \in White
     /\ Numeral(s, w[1], w[2], double)
     /\ w[2] < Len(s) => ~Numeral(s, w[1], w[2]+1, double)}

\* rd(): zero only when the text starts with the error code 0
RdCode(s) ==
  IF \E w \in Converted(s, 0, FALSE) : \A m \in w[1]..w[2] : s[m] \in {48} \cup Sign
    THEN QNICLL_ERR_NONE
    ELSE QNICLL_ERR_BUG

\* What "%d %d" or "%d %lg" finds second: at most one numeral
Second(s, double) ==
  UNION {{SubSeq(s, w[1], w[2]) : w \in Converted(s, e[2], double)} :
           e \in Converted(s, 0, FALSE)}

Failed    == [code |-> QNICLL_ERR_BUG, val |-> <<>>]
Done(num) == [code |-> QNICLL_ERR_NONE, val |-> num]

\* With the first number for the second
Slip_FirstResult(request, s) ==
  IF RdCode(s) # QNICLL_ERR_NONE THEN Failed
  ELSE Done(IF request.op = "set" THEN <<48>> ELSE <<>>)

\* What a call returns when its rd() finds s in rxbuf: a setter goes on to rd_int()
\* or rd_double(), qregc_do_cmd() looks no further than rd().
Result(request, s) ==
  IF RdCode(s) # QNICLL_ERR_NONE THEN Failed
  ELSE IF request.op # "set" THEN Done(<<>>)
  ELSE IF Second(s, request.reg \in DoubleRegs) = {} THEN Failed
  ELSE Done(CHOOSE num \in Second(s, request.reg \in DoubleRegs) : TRUE)

\* A read() overwrites the beginning of rxbuf, and "buf[n]=0" ends the text in it.
Overwrite(got) == got \o Rest(rxbuf, Len(got))
EndAt(mem, n)  == [mem EXCEPT ![n+1] = 0]

-----------------------------------------------------------------------------
Init ==
  /\ conn = "down"
  /\ stream = <<>>
  /\ reqs = <<>>
  /\ reg \in RegVals
  /\ pc = "idle"
  /\ call = [op |-> "quit"]
  /\ want = 0
  /\ rxbuf = [i \in 1..RxCap+1 |-> 0]
  /\ ret = Done(<<>>)
  /\ rdfail = "no"
  /\ trust = FALSE
  /\ ncalls = 0

\* The application enters the library: one call at a time, from one thread.
Enter(request) ==
  /\ pc = "idle"
  /\ ncalls < MaxCalls
  /\ ncalls' = ncalls + 1
  /\ call' = request
  /\ rdfail' = "no"

\* Tried again although it went through
Slip_WrPkt(request, ok) ==
  \/ conn = "up" /\ ok /\ reqs' = reqs \o <<request, request>>
  \/ conn = "closed" /\ UNCHANGED reqs

\* wr_pkt(): after the peer has gone, a write is either lost or fails
WrPkt(request, ok) ==
  \/ conn = "up" /\ ok /\ reqs' = Append(reqs, request)
  \/ conn = "closed" /\ UNCHANGED reqs

Return(result) ==
  /\ pc' = "idle"
  /\ ret' = result
  /\ trust' = (trust /\ result # Failed)

\* qregc_connect(): there is nothing to read on a new socket.  A failed connect()
\* is reported and leaves no connection.  rxbuf and the registers keep what they
\* held.  It is called when there is no connection; qregd is taken to serve one at
\* a time.
qregc_connect ==
  /\ Enter([op |-> "quit"])
  /\ conn = "down"
  /\ \/ conn' = "up" /\ ret' = Done(<<>>) /\ trust' = TRUE
     \/ conn' = "down" /\ ret' = Failed /\ trust' = FALSE
  /\ stream' = <<>>
  /\ pc' = "idle"
  /\ UNCHANGED <<reqs, reg, want, rxbuf>>

\* qregc_set_probe_pd_samps() and the other setters that ignore wr_str()
qregc_set(r) ==
  /\ r \notin CheckedRegs
  /\ Enter([op |-> "set", reg |-> r])
  /\ \E ok \in BOOLEAN : WrPkt(call', ok)
  /\ pc' = "hdr"
  /\ UNCHANGED <<conn, stream, reg, want, rxbuf, ret, trust>>

\* qregc_set_probe_len_bits() and qregc_set_probe_qty()
qregc_set_checked(r) ==
  /\ r \in CheckedRegs
  /\ Enter([op |-> "set", reg |-> r])
  /\ \/ WrPkt(call', TRUE) /\ pc' = "hdr" /\ UNCHANGED <<ret, trust>>
     \/ WrPkt(call', FALSE) /\ Return(Failed)
  /\ UNCHANGED <<conn, stream, reg, want, rxbuf>>

qregc_do_cmd ==
  /\ Enter([op |-> "cmd"])
  /\ \/ WrPkt(call', TRUE) /\ pc' = "hdr" /\ UNCHANGED ret
     \/ WrPkt(call', FALSE) /\ pc' = "idle" /\ ret' = Failed
  /\ trust' = FALSE
  /\ UNCHANGED <<conn, stream, reg, want, rxbuf>>

\* qregc_shutdown() does not look for a reply
qregc_shutdown ==
  /\ Enter([op |-> "shutdown"])
  /\ \E ok \in BOOLEAN : WrPkt(call', ok)
  /\ Return(Done(<<>>))
  /\ UNCHANGED <<conn, stream, reg, want, rxbuf>>

\* qregc_disconnect(): what has not been read stays with the socket
qregc_disconnect ==
  /\ Enter([op |-> "quit"])
  /\ \E ok \in BOOLEAN : WrPkt(call', ok)
  /\ conn' = IF conn = "up" THEN "closing" ELSE "down"
  /\ Return(Done(<<>>))
  /\ UNCHANGED <<stream, reg, want, rxbuf>>

-----------------------------------------------------------------------------
(* The two read() calls of rd_pkt(). *)

\* How many bytes read(soc, buf, n) may return: none if it asks for none; it
\* blocks on an empty stream while the connection is up and sees its end once the
\* connection is gone.
ReadCounts(n) ==
  IF n <= 0 THEN {n} \cap {0}
  ELSE IF stream = <<>>
    THEN IF conn = "up" THEN {} ELSE {0}
    ELSE IF ShortReads THEN 1..Smaller(n, Len(stream)) ELSE {Smaller(n, Len(stream))}

\* rd() and its caller finish on what is in rxbuf
Finish(mem, failed) ==
  /\ rxbuf' = mem
  /\ Return(Result(call, mem))
  /\ rdfail' = failed
  /\ UNCHANGED <<conn, reqs, reg, call, want, ncalls>>

\* With the size of rxbuf for the bytes of text it has room for
Slip_ReadHdr ==
  /\ pc = "hdr"
  /\ 4 \in ReadCounts(4)
  /\ want' = Smaller(RxCap + 1, Ntohl(stream))
  /\ stream' = Rest(stream, 4)
  /\ pc' = "body"
  /\ UNCHANGED <<conn, reqs, reg, call, rxbuf, ret, rdfail, trust, ncalls>>

ReadHdr ==
  /\ pc = "hdr"
  /\ 4 \in ReadCounts(4)
  /\ want' = Smaller(RxCap, Ntohl(stream))
  /\ stream' = Rest(stream, 4)
  /\ pc' = "body"
  /\ UNCHANGED <<conn, reqs, reg, call, rxbuf, ret, rdfail, trust, ncalls>>

\* "read hdr fail": the bytes that were read are lost.  rd() takes the error code
\* that rd_pkt() returns for a length: it ends the text in rxbuf after
\* QNICLL_ERR_BUG bytes and parses what an earlier reply left there.
ReadHdrFail ==
  /\ pc = "hdr"
  /\ \E k \in ReadCounts(4) \ {4} : stream' = Rest(stream, k)
  /\ Finish(EndAt(rxbuf, QNICLL_ERR_BUG), "hdr")

ReadBody ==
  /\ pc = "body"
  /\ want \in ReadCounts(want)
  /\ stream' = Rest(stream, want)
  /\ Finish(EndAt(Overwrite(Front(stream, want)), want), "no")

\* The length that was read is not compared with the length that was asked for.
Slip_ShortBody ==
  /\ pc = "body"
  /\ \E k \in ReadCounts(want) \ {want} :
       /\ stream' = Rest(stream, k)
       /\ Finish(EndAt(Overwrite(Front(stream, k)), k), "no")

\* read() is called until it has got everything.
Slip_WholeBody ==
  /\ pc = "body"
  /\ stream = <<>> /\ 0 \in ReadCounts(want) \ {want}
  /\ stream' = Rest(stream, 0)
  /\ Finish(EndAt(rxbuf, QNICLL_ERR_BUG), "body")

\* "read body fail": the bytes that were read stay in rxbuf, and the rest of
\* the text stays in the stream
ReadBodyFail ==
  /\ pc = "body"
  /\ \E k \in ReadCounts(want) \ {want} :
       /\ stream' = Rest(stream, k)
       /\ Finish(EndAt(Overwrite(Front(stream, k)), QNICLL_ERR_BUG), "body")

\* A negative length: read() fails and returns -1, which is not below the length.
\* rd() parses all that earlier replies left in rxbuf.  "buf[-1]=0" is a write to
\* the last byte of what precedes rxbuf, which is 0 for any of the variables there.
ReadBodyNegative ==
  /\ pc = "body"
  /\ want < 0
  /\ Finish(rxbuf, "length")
  /\ UNCHANGED stream

-----------------------------------------------------------------------------
(* External: qregd and the network. *)

\* What is sent to a socket that was closed goes nowhere.
Reply(text) == stream' = IF conn = "up" THEN stream \o Frame(text) ELSE stream

\* qregd executes the oldest request and answers it.
QregdSet ==
  /\ Head(reqs).op = "set"
  /\ \/ \E v \in Vals[Head(reqs).reg] : reg' = [reg EXCEPT ![Head(reqs).reg] = v] /\ Reply(OkText(v))
     \/ UNCHANGED reg /\ Reply(ErrText)
  /\ reqs' = Tail(reqs)
  /\ UNCHANGED conn

QregdCmd ==
  /\ Head(reqs).op = "cmd"
  /\ \E text \in CmdTexts : Reply(text)
  /\ reqs' = Tail(reqs)
  /\ UNCHANGED <<conn, reg>>

\* "q" and "shutdown" end the connection without an answer
QregdStop ==
  /\ Head(reqs).op \in {"quit", "shutdown"}
  /\ conn' = IF conn = "up" THEN "closed" ELSE "down"
  /\ reqs' = <<>>
  /\ UNCHANGED <<stream, reg>>

QregdServe ==
  /\ reqs # <<>>
  /\ QregdSet \/ QregdCmd \/ QregdStop
  /\ UNCHANGED <<pc, call, want, rxbuf, ret, rdfail, trust, ncalls>>

\* The demon dies or the network fails: a tail of what was sent, and every
\* request not yet served, is lost.
ConnectionLost ==
  /\ \/ conn = "up" /\ conn' = "closed" /\ \E k \in 0..Len(stream) : stream' = Front(stream, k)
     \/ conn = "closing" /\ conn' = "down" /\ UNCHANGED stream
  /\ reqs' = <<>>
  /\ UNCHANGED <<reg, pc, call, want, rxbuf, ret, rdfail, trust, ncalls>>

-----------------------------------------------------------------------------
Calls ==
  \/ qregc_connect
  \/ \E r \in Regs : qregc_set(r)
  \/ \E r \in Regs : qregc_set_checked(r)
  \/ qregc_do_cmd
  \/ qregc_shutdown
  \/ qregc_disconnect

Reads == ReadHdr \/ ReadHdrFail \/ ReadBody \/ ReadBodyFail \/ ReadBodyNegative

Next == Calls \/ Reads \/ QregdServe \/ ConnectionLost

\* A blocked read() returns once it can, and qregd keeps serving.  Nothing makes
\* the application call, and nothing makes the connection fail.
Fairness == WF_vars(Reads) /\ WF_vars(QregdServe)

Spec == Init /\ [][Next]_vars /\ Fairness

-----------------------------------------------------------------------------
(***************************************************************************)
(* The type invariant: among others, only bytes are in the stream and in   *)
(* rxbuf, whose last byte is never written, so that every text in it ends. *)
(***************************************************************************)
TypeOK ==
  /\ conn \in {"down", "up", "closed", "closing"}
  /\ stream \in Seq(Byte)
  /\ reqs \in Seq(Requests)
  /\ reg \in RegVals
  /\ pc \in {"idle", "hdr", "body"}
  /\ call \in Requests
  /\ want \in Int /\ want <= RxCap
  /\ rxbuf \in Seq(Byte) /\ Len(rxbuf) = RxCap + 1 /\ rxbuf[RxCap+1] = 0
  /\ ret \in Returns
  /\ rdfail \in {"no", "hdr", "body", "length"}
  /\ trust \in BOOLEAN
  /\ ncalls \in Nat

-----------------------------------------------------------------------------
(* What the callers in qnicll.c rely on. *)

SetReturned(code) == pc = "idle" /\ call.op = "set" /\ ret.code = code

(***************************************************************************)
(* A setter that reports success did not go on after a read() that failed  *)
(* ("if (sz<l) BUG", qregc.c:53).  The code breaks this: see the next one. *)
(***************************************************************************)
NoSuccessOnReadFailure == SetReturned(QNICLL_ERR_NONE) => rdfail = "no"

(***************************************************************************)
(* What holds instead.  rd() (qregc.c:86) does not look at the error that  *)
(* rd_pkt() returns: it parses whatever rxbuf holds, which may be a        *)
(* complete reply to an earlier call.  What saves the setters after a      *)
(* short read is that the text is cut after QNICLL_ERR_BUG bytes, which is *)
(* too short for two numbers; only a read of a negative length gets past.  *)
(* A caller that stops at the first error sees every failure, for it never *)
(* reads a negative length.                                                *)
(***************************************************************************)
ReadFailureIsSeen ==
  /\ SetReturned(QNICLL_ERR_NONE) => rdfail \in {"no", "length"}
  /\ trust => rdfail = "no"

(***************************************************************************)
(* "probe_qty: set to actual new probe quantity" (qnicll.h:390), and the   *)
(* like for the other setters: a setter that returns 0 has stored what the *)
(* hardware register holds.                                                *)
(***************************************************************************)
ReturnedIsActual ==
  SetReturned(QNICLL_ERR_NONE) => ret.val = reg[call.reg]

(***************************************************************************)
(* The same for a careful caller, one that issues no raw commands and does *)
(* not go on after an error (as c.c, n.c and tst.c do with their macro C): *)
(* it may rely on every value it gets, wherever the reads stop.            *)
(***************************************************************************)
TrustedIsActual == trust => ReturnedIsActual

\* The parts of the next invariant.
Quiet == \A i \in 1..Len(reqs) : reqs[i].op \in {"shutdown", "quit"}

\* The request of the call in progress is the last one, and the only one that
\* will be answered.
Waiting ==
  /\ stream = <<>> /\ reqs # <<>> /\ reqs[Len(reqs)] = call
  /\ \A i \in 1..Len(reqs)-1 : reqs[i].op \in {"shutdown", "quit"}

\* The stream holds what has come, or all that will ever come, of its answer.
HdrComing ==
  \E text \in {ErrText, OkText(reg[call.reg])} : \E k \in 0..4+Len(text) :
    stream = Front(Frame(text), k)
BodyComing ==
  \E text \in {ErrText, OkText(reg[call.reg])} : \E k \in 0..Len(text) :
    stream = Front(text, k) /\ want = Len(text)

InSync ==
  /\ pc = "idle" => Quiet /\ stream = <<>> /\ ReturnedIsActual
  /\ pc = "hdr"  => call.op = "set" /\ (Waiting \/ (Quiet /\ HdrComing))
  /\ pc = "body" => call.op = "set" /\ Quiet /\ BodyComing

(***************************************************************************)
(* Why: the careful caller's place in the stream.  While it waits, nothing *)
(* but the answer to the call in progress is on its way; while it does     *)
(* not, nothing is.  A connection that is gone leaves no request that the  *)
(* next one would be answered for.                                         *)
(***************************************************************************)
KeepsPlace ==
  /\ conn \in {"down", "closed"} => reqs = <<>>
  /\ trust => InSync

(***************************************************************************)
(* Every call returns, even one that reads a length out of the middle of a *)
(* text: no read() waits for bytes that will never be sent.  The calls     *)
(* have no timeout, so this rests on qregd serving its requests.           *)
(***************************************************************************)
EveryCallReturns == pc # "idle" ~> pc = "idle"

-----------------------------------------------------------------------------
(***************************************************************************)
(* As long as the client keeps its place in the stream, qregc.c implements *)
(* the abstract register interface.                                        *)
(***************************************************************************)
Phase == IF pc = "idle" THEN "idle" ELSE IF reqs # <<>> THEN "pending" ELSE "settled"

Api == INSTANCE QregApi WITH phase <- Phase

ImplementsApi == Api!Spec

=============================================================================
