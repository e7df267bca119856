---------------------------- MODULE QregcProofs ----------------------------
(***************************************************************************)
(* Proofs about Qregc, for any registers, any numerals, replies to raw     *)
(* commands of any length, any number of calls and reads that stop         *)
(* anywhere.                                                               *)
(***************************************************************************)
EXTENDS Qregc, SequenceTheorems, TLAPS

-----------------------------------------------------------------------------
(* Front and Rest. *)

LEMMA FrontType ==
  ASSUME NEW S, NEW s \in Seq(S), NEW n \in 0..Len(s)
  PROVE  /\ Front(s, n) \in Seq(S) /\ Len(Front(s, n)) = n
         /\ \A i \in 1..n : Front(s, n)[i] = s[i]
<1>1. \A i \in 1..n : s[i] \in S
  OBVIOUS
<1>2. QED BY <1>1, SubSeqProperties, Z3 DEF Front

LEMMA RestType ==
  ASSUME NEW S, NEW s \in Seq(S), NEW n \in Nat
  PROVE  /\ Rest(s, n) \in Seq(S)
         /\ Len(Rest(s, n)) = IF n <= Len(s) THEN Len(s) - n ELSE 0
         /\ \A i \in 1..Len(s)-n : Rest(s, n)[i] = s[n+i]
<1>1. \A i \in n+1..Len(s) : s[i] \in S
  OBVIOUS
<1>2. /\ SubSeq(s, n+1, Len(s)) \in Seq(S)
      /\ Len(SubSeq(s, n+1, Len(s))) = IF n+1 <= Len(s) THEN Len(s)-(n+1)+1 ELSE 0
      /\ \A i \in 1..Len(s)-(n+1)+1 : SubSeq(s, n+1, Len(s))[i] = s[n+1+i-1]
  BY <1>1, SubSeqProperties
<1>3. QED BY <1>2 DEF Rest

LEMMA FrontOfFront ==
  ASSUME NEW S, NEW s \in Seq(S), NEW n \in 0..Len(s), NEW m \in 0..n
  PROVE  Front(Front(s, n), m) = Front(s, m)
<1>1. /\ Front(s, n) \in Seq(S) /\ Len(Front(s, n)) = n
      /\ \A i \in 1..n : Front(s, n)[i] = s[i]
  BY FrontType
<1>2. /\ Front(Front(s, n), m) \in Seq(S) /\ Len(Front(Front(s, n), m)) = m
      /\ \A i \in 1..m : Front(Front(s, n), m)[i] = Front(s, n)[i]
  BY <1>1, FrontType
<1>3. /\ Front(s, m) \in Seq(S) /\ Len(Front(s, m)) = m
      /\ \A i \in 1..m : Front(s, m)[i] = s[i]
  BY FrontType
<1>4. QED BY <1>1, <1>2, <1>3, SeqEqual

-----------------------------------------------------------------------------
(* The registers. *)

LEMMA RegValsIs ==
  ASSUME NEW held \in RegVals, NEW r \in Regs
  PROVE  /\ held[r] \in Vals[r]
         /\ \A v \in Vals[r] : [held EXCEPT ![r] = v] \in RegVals
<1>1. held[r] \in Vals[r]
  BY DEF RegVals
<1>2. ASSUME NEW v \in Vals[r] PROVE [held EXCEPT ![r] = v] \in RegVals
  BY DEF RegVals
<1>3. QED BY <1>1, <1>2

-----------------------------------------------------------------------------
(* What is in rxbuf. *)

Memory(mem) == mem \in Seq(Byte) /\ Len(mem) = RxCap + 1 /\ mem[RxCap+1] = 0

Holds(mem, text) ==
  /\ \A i \in 1..Len(text) : mem[i] = text[i]
  /\ mem[Len(text)+1] = 0

LEMMA MaxIntType == MaxInt \in Nat
BY SMT DEF MaxInt

LEMMA RxCapType == RxCap \in Nat /\ RxCap >= 3 /\ RxCap < MaxInt /\ RxCap + 1 \in Nat
<1>1. RxCap \in 3..MaxInt-1
  BY QregcAssumption
<1>2. QED BY <1>1, MaxIntType

LEMMA EndAtIs ==
  ASSUME NEW mem, Memory(mem), NEW n \in 0..RxCap
  PROVE  /\ Memory(EndAt(mem, n)) /\ EndAt(mem, n)[n+1] = 0
         /\ \A i \in 1..RxCap+1 : i # n+1 => EndAt(mem, n)[i] = mem[i]
<1>1. n+1 \in 1..Len(mem) /\ RxCap+1 \in 1..Len(mem) /\ 0 \in Byte
  BY RxCapType DEF Memory, Byte
<1>2. EndAt(mem, n) \in Seq(Byte) /\ Len(EndAt(mem, n)) = RxCap + 1
  BY <1>1, ExceptSeq DEF Memory, EndAt
<1>3. DOMAIN mem = 1..RxCap+1
  BY DEF Memory
<1>4. EndAt(mem, n)[n+1] = 0 /\ \A i \in 1..RxCap+1 : i # n+1 => EndAt(mem, n)[i] = mem[i]
  BY <1>1, <1>3 DEF EndAt, Memory
<1>5. QED BY <1>1, <1>2, <1>4 DEF Memory

LEMMA OverwriteIs ==
  ASSUME Memory(rxbuf), NEW g \in Seq(Byte), Len(g) <= RxCap
  PROVE  Memory(Overwrite(g)) /\ \A i \in 1..Len(g) : Overwrite(g)[i] = g[i]
<1> DEFINE tail == Rest(rxbuf, Len(g))
<1>1. Len(g) \in Nat /\ rxbuf \in Seq(Byte) /\ Len(rxbuf) = RxCap + 1
  BY LenProperties DEF Memory
<1>2. /\ tail \in Seq(Byte) /\ Len(tail) = RxCap + 1 - Len(g)
      /\ \A i \in 1..RxCap+1-Len(g) : tail[i] = rxbuf[Len(g)+i]
  <2>1. /\ tail \in Seq(Byte)
        /\ Len(tail) = IF Len(g) <= Len(rxbuf) THEN Len(rxbuf) - Len(g) ELSE 0
        /\ \A i \in 1..Len(rxbuf)-Len(g) : tail[i] = rxbuf[Len(g)+i]
    BY <1>1, RestType
  <2>2. QED BY <1>1, <2>1, RxCapType
<1> HIDE DEF tail
<1>3. /\ g \o tail \in Seq(Byte) /\ Len(g \o tail) = Len(g) + Len(tail)
      /\ \A i \in 1..Len(g)+Len(tail) :
           (g \o tail)[i] = IF i <= Len(g) THEN g[i] ELSE tail[i-Len(g)]
  BY <1>2, ConcatProperties
<1>4. Len(g \o tail) = RxCap + 1
  BY <1>1, <1>2, <1>3, RxCapType
<1>5. (g \o tail)[RxCap+1] = 0
  <2> DEFINE k == Len(g)
  <2>1. /\ k \in Nat /\ k <= RxCap /\ RxCap \in Nat
        /\ RxCap+1 \in 1..k+Len(tail) /\ ~(RxCap+1 <= k) /\ RxCap+1-k \in 1..RxCap+1-k
        /\ k + (RxCap+1-k) = RxCap+1
    BY <1>1, <1>2, RxCapType
  <2>2. (g \o tail)[RxCap+1] = tail[RxCap+1-k]
    BY <1>3, <2>1
  <2>3. tail[RxCap+1-k] = rxbuf[RxCap+1]
    BY <1>2, <2>1
  <2>4. QED BY <2>2, <2>3 DEF Memory
<1>6. \A i \in 1..Len(g) : (g \o tail)[i] = g[i]
  BY <1>1, <1>2, <1>3, RxCapType
<1>7. QED BY <1>3, <1>4, <1>5, <1>6 DEF Memory, Overwrite, tail

\* After a whole read rxbuf holds the text that was read.
LEMMA ReadText ==
  ASSUME Memory(rxbuf), NEW text \in Seq(Byte), Len(text) <= RxCap
  PROVE  /\ Memory(EndAt(Overwrite(text), Len(text)))
         /\ Holds(EndAt(Overwrite(text), Len(text)), text)
<1>1. Memory(Overwrite(text)) /\ \A i \in 1..Len(text) : Overwrite(text)[i] = text[i]
  BY OverwriteIs
<1>2. Len(text) \in 0..RxCap
  BY LenProperties, RxCapType
<1> DEFINE mem == Overwrite(text)
<1> HIDE DEF mem
<1>3. /\ Memory(EndAt(mem, Len(text))) /\ EndAt(mem, Len(text))[Len(text)+1] = 0
      /\ \A i \in 1..RxCap+1 : i # Len(text)+1 => EndAt(mem, Len(text))[i] = mem[i]
  BY <1>1, <1>2, EndAtIs DEF mem
<1>4. \A i \in 1..Len(text) : EndAt(mem, Len(text))[i] = text[i]
  <2> TAKE i \in 1..Len(text)
  <2>1. i \in 1..RxCap+1 /\ i # Len(text)+1
    BY <1>2, RxCapType
  <2>2. QED BY <1>1, <1>3, <2>1 DEF mem
<1>5. QED BY <1>3, <1>4 DEF Holds, mem

\* After a failed one it holds a text of two bytes.
LEMMA CutText ==
  ASSUME Memory(rxbuf), NEW g \in Seq(Byte), Len(g) <= RxCap
  PROVE  /\ Memory(EndAt(Overwrite(g), QNICLL_ERR_BUG)) /\ EndAt(Overwrite(g), QNICLL_ERR_BUG)[3] = 0
         /\ Memory(EndAt(rxbuf, QNICLL_ERR_BUG)) /\ EndAt(rxbuf, QNICLL_ERR_BUG)[3] = 0
<1>1. QNICLL_ERR_BUG \in 0..RxCap /\ QNICLL_ERR_BUG + 1 = 3
  BY RxCapType DEF QNICLL_ERR_BUG
<1>2. Memory(Overwrite(g))
  BY OverwriteIs
<1>3. QED BY <1>1, <1>2, EndAtIs

-----------------------------------------------------------------------------
(* Numbers in a text. *)

LEMMA ConvertedIs ==
  ASSUME NEW s \in Seq(Byte), NEW k, NEW double, NEW w \in Converted(s, k, double)
  PROVE  /\ w[1] \in 1..Len(s) /\ w[2] \in 1..Len(s) /\ w = <<w[1], w[2]>>
         /\ k < w[1] /\ w[1] <= w[2]
         /\ \A m \in k+1..w[1]-1 : s[m] \in White
         /\ Numeral(s, w[1], w[2], double)
         /\ w[2] < Len(s) => ~Numeral(s, w[1], w[2]+1, double)
<1> HIDE DEF Numeral
<1>1. w \in (1..Len(s)) \X (1..Len(s))
  BY DEF Converted
<1>2. w[1] \in 1..Len(s) /\ w[2] \in 1..Len(s) /\ w = <<w[1], w[2]>>
  BY <1>1
<1>3. /\ k < w[1] /\ w[1] <= w[2]
      /\ \A m \in k+1..w[1]-1 : s[m] \in White
      /\ Numeral(s, w[1], w[2], double)
      /\ w[2] < Len(s) => ~Numeral(s, w[1], w[2]+1, double)
  BY Zenon DEF Converted
<1>4. QED BY <1>2, <1>3

LEMMA ConvertedHas ==
  ASSUME NEW s, NEW k, NEW double, NEW a \in 1..Len(s), NEW b \in 1..Len(s),
         k < a, a <= b, \A m \in k+1..a-1 : s[m] \in White,
         Numeral(s, a, b, double), b < Len(s) => ~Numeral(s, a, b+1, double)
  PROVE  <<a, b>> \in Converted(s, k, double)
<1> DEFINE w == <<a, b>>
<1>1. w[1] = a /\ w[2] = b /\ w \in (1..Len(s)) \X (1..Len(s))
  OBVIOUS
<1> HIDE DEF w
<1>2. /\ k < w[1] /\ w[1] <= w[2]
      /\ \A m \in k+1..w[1]-1 : s[m] \in White
      /\ Numeral(s, w[1], w[2], double)
      /\ w[2] < Len(s) => ~Numeral(s, w[1], w[2]+1, double)
  BY <1>1, Zenon
<1>3. w \in Converted(s, k, double)
  BY <1>1, <1>2, Zenon DEF Converted
<1>4. QED BY <1>3 DEF w

LEMMA SecondIs ==
  ASSUME NEW s, NEW double, NEW num \in Second(s, double)
  PROVE  \E e \in Converted(s, 0, FALSE) : \E w \in Converted(s, e[2], double) :
           num = SubSeq(s, w[1], w[2])
BY DEF Second

LEMMA SecondType ==
  ASSUME NEW s \in Seq(Byte), NEW double
  PROVE  Second(s, double) \subseteq Seq(Byte)
<1> SUFFICES ASSUME NEW num \in Second(s, double) PROVE num \in Seq(Byte)
  OBVIOUS
<1>1. PICK e \in Converted(s, 0, FALSE) :
        \E w \in Converted(s, e[2], double) : num = SubSeq(s, w[1], w[2])
  BY SecondIs
<1>2. PICK w \in Converted(s, e[2], double) : num = SubSeq(s, w[1], w[2])
  BY <1>1
<1>3. w[1] \in 1..Len(s) /\ w[2] \in 1..Len(s)
  BY ConvertedIs
<1>4. \A m \in w[1]..w[2] : s[m] \in Byte
  BY <1>3, ElementOfSeq
<1>5. QED BY <1>2, <1>3, <1>4, SubSeqProperties

LEMMA ResultType ==
  ASSUME NEW s \in Seq(Byte), NEW request
  PROVE  Result(request, s) \in Returns
<1> DEFINE nums == Second(s, request.reg \in DoubleRegs)
<1>1. \A num \in nums : num \in Seq(Byte)
  BY SecondType
<1>2. nums # {} => (CHOOSE num \in nums : TRUE) \in Seq(Byte)
  BY <1>1
<1>3. <<>> \in Seq(Byte)
  OBVIOUS
<1>4. QED BY <1>2, <1>3 DEF Result, Returns, Failed, Done

\* No two numbers fit in two bytes: the text that a failed read leaves is too short
\* for a value.
LEMMA StaleResult ==
  ASSUME NEW s, Memory(s), s[3] = 0, NEW request, request.op = "set"
  PROVE  Result(request, s) = Failed
<1> DEFINE double == request.reg \in DoubleRegs
<1>1. Second(s, double) = {}
  <2> SUFFICES ASSUME NEW e \in Converted(s, 0, FALSE), NEW w \in Converted(s, e[2], double)
               PROVE  FALSE
    BY DEF Second
  <2>0. s \in Seq(Byte) /\ Len(s) = RxCap + 1 /\ 3 < Len(s)
    BY RxCapType DEF Memory
  <2>1. /\ e[1] \in 1..Len(s) /\ e[2] \in 1..Len(s) /\ e[1] <= e[2]
        /\ \A m \in 0+1..e[1]-1 : s[m] \in White
        /\ Numeral(s, e[1], e[2], FALSE)
        /\ e[2] < Len(s) => ~Numeral(s, e[1], e[2]+1, FALSE)
    BY <2>0, ConvertedIs, Zenon
  <2>2. /\ w[1] \in 1..Len(s) /\ w[2] \in 1..Len(s) /\ e[2] < w[1] /\ w[1] <= w[2]
        /\ \A m \in e[2]+1..w[1]-1 : s[m] \in White
        /\ Numeral(s, w[1], w[2], double)
    BY <2>0, ConvertedIs
  <2> HIDE DEF double
  <2>3. 0 \notin White /\ 0 \notin Digit /\ 0 \notin Sign /\ 0 # Point
    BY DEF White, Digit, Sign, Point, Space
  <2>4. e[1] < 3 /\ e[2] < 3
    <3>1. e[1] # 3 /\ ~(e[1] <= 3 /\ 3 <= e[2])
      BY <2>1, <2>3 DEF Numeral
    <3>2. ~(3 < e[1])
      BY <2>1, <2>3
    <3>3. QED BY <2>1, <3>1, <3>2
  <2>5. w[1] < 3 /\ w[2] < 3
    <3>1. ~(w[1] <= 3 /\ 3 <= w[2])
      BY <2>2, <2>3 DEF Numeral
    <3>2. ~(3 < w[1])
      BY <2>1, <2>2, <2>3, <2>4
    <3>3. QED BY <2>2, <3>1, <3>2
  <2>6. e[1] = 1 /\ e[2] = 1 /\ w[1] = 2 /\ w[2] = 2
    BY <2>1, <2>2, <2>4, <2>5
  <2>7. s[2] \in Digit
    <3>1. PICK m \in w[1]..w[2] : s[m] \in Digit
      BY <2>2 DEF Numeral
    <3>2. m = 2
      BY <2>6, <3>1
    <3>3. QED BY <3>1, <3>2
  <2>8. s[1] \in Digit
    <3>1. PICK m \in e[1]..e[2] : s[m] \in Digit
      BY <2>1 DEF Numeral
    <3>2. m = 1
      BY <2>6, <3>1
    <3>3. QED BY <3>1, <3>2
  <2>9. Numeral(s, 1, 2, FALSE)
    <3>1. \A m \in 1..2 : s[m] \in Digit
      BY <2>7, <2>8
    <3>2. \A m \in 1..2 : s[m] # Point
      BY <3>1 DEF Digit, Point
    <3>3. QED BY <3>1, <3>2 DEF Numeral
  <2>10. e[2] < Len(s) /\ e[1] = 1 /\ e[2]+1 = 2
    BY <2>0, <2>6
  <2>11. QED BY <2>1, <2>9, <2>10, Zenon
<1>2. QED BY <1>1 DEF Result

-----------------------------------------------------------------------------
(* The replies of qregd to a setter. *)

AnswersTo(r) == {ErrText} \cup {OkText(v) : v \in Vals[r]}

LEMMA OkTextIs ==
  ASSUME NEW r \in Regs, NEW v \in Vals[r]
  PROVE  /\ OkText(v) \in Seq(Byte) /\ v \in Seq(Byte) /\ Len(v) \in Nat /\ Len(v) > 0
         /\ Len(OkText(v)) = Len(v) + 2 /\ Len(v) + 2 <= RxCap
         /\ OkText(v)[1] = 48 /\ OkText(v)[2] = Space
         /\ \A i \in 1..Len(v) : OkText(v)[i+2] = v[i]
         /\ Numeral(v, 1, Len(v), r \in DoubleRegs)
<1>1. v \in Seq(Byte) /\ Len(v) + 2 <= RxCap /\ Numeral(v, 1, Len(v), r \in DoubleRegs)
  BY QregcAssumption
<1>2. <<48, Space>> \in Seq(Byte) /\ Len(<<48, Space>>) = 2
      /\ <<48, Space>>[1] = 48 /\ <<48, Space>>[2] = Space
  BY DEF Byte, Space
<1>3. Len(v) \in Nat
  BY <1>1, LenProperties
<1>4. Len(v) > 0
  BY <1>1, <1>3 DEF Numeral
<1> HIDE DEF Byte, Space
<1>5. /\ OkText(v) \in Seq(Byte) /\ Len(OkText(v)) = 2 + Len(v)
      /\ \A i \in 1..2 + Len(v) :
           OkText(v)[i] = IF i <= 2 THEN <<48, Space>>[i] ELSE v[i-2]
  BY <1>1, <1>2, ConcatProperties DEF OkText
<1>6. \A i \in 1..Len(v) : OkText(v)[i+2] = v[i]
  <2> TAKE i \in 1..Len(v)
  <2>1. i+2 \in 1..2+Len(v) /\ ~(i+2 <= 2) /\ (i+2)-2 = i
    BY <1>3
  <2>2. QED BY <1>5, <2>1
<1>7. QED BY <1>1, <1>2, <1>3, <1>4, <1>5, <1>6

\* rd_int() or rd_double() finds in "0 <v>" the error code 0 and the value v.
LEMMA OkResult ==
  ASSUME NEW r \in Regs, NEW v \in Vals[r], NEW s, Memory(s), Holds(s, OkText(v)),
         NEW request, request.op = "set", request.reg = r
  PROVE  Result(request, s) = Done(v)
<1> DEFINE n == Len(v)
           double == r \in DoubleRegs
<1>0. /\ s \in Seq(Byte) /\ v \in Seq(Byte) /\ n \in Nat /\ n > 0
      /\ Len(s) \in Nat /\ n + 3 <= Len(s)
      /\ Numeral(v, 1, n, double)
  BY OkTextIs, RxCapType DEF Memory
<1>a. s[1] = 48 /\ s[2] = 32 /\ s[n+3] = 0 /\ \A i \in 1..n : s[i+2] = v[i]
  <2>1. /\ Len(OkText(v)) = n + 2 /\ OkText(v)[1] = 48 /\ OkText(v)[2] = Space
        /\ \A i \in 1..n : OkText(v)[i+2] = v[i]
    BY OkTextIs
  <2>2. s[(n+2)+1] = 0 /\ \A i \in 1..n+2 : s[i] = OkText(v)[i]
    BY <2>1 DEF Holds
  <2>3. (n+2)+1 = n+3 /\ 1 \in 1..n+2 /\ 2 \in 1..n+2 /\ \A i \in 1..n : i+2 \in 1..n+2
    BY <1>0
  <2>4. QED BY <2>1, <2>2, <2>3 DEF Space
<1> HIDE DEF n, double
<1>b. 48 \in Digit /\ 32 \notin Digit /\ 32 \notin Sign /\ 32 # Point /\ 32 \in White
      /\ 48 \notin White /\ 0 \notin Digit /\ 0 \notin Sign /\ 0 # Point /\ 48 # Point
  BY DEF Digit, Sign, Point, White, Space
<1>1. Converted(s, 0, FALSE) = {<<1, 1>>}
  <2>1. <<1, 1>> \in Converted(s, 0, FALSE)
    <3>1. Numeral(s, 1, 1, FALSE)
      BY <1>a, <1>b DEF Numeral
    <3>2. ~Numeral(s, 1, 2, FALSE)
      BY <1>a, <1>b DEF Numeral
    <3>3. ~Numeral(s, 1, 1+1, FALSE)
      <4>1. 1 + 1 = 2
        OBVIOUS
      <4>2. QED BY <3>2, <4>1, Zenon
    <3>4. 0 < 1 /\ 1 <= 1 /\ 1 \in 1..Len(s) /\ \A m \in 0+1..1-1 : s[m] \in White
      BY <1>0
    <3>5. QED BY <3>1, <3>3, <3>4, ConvertedHas, Zenon
  <2>2. ASSUME NEW w \in Converted(s, 0, FALSE) PROVE w = <<1, 1>>
    <3>1. /\ w[1] \in 1..Len(s) /\ w[2] \in 1..Len(s) /\ w = <<w[1], w[2]>>
          /\ w[1] <= w[2]
          /\ \A m \in 0+1..w[1]-1 : s[m] \in White
          /\ Numeral(s, w[1], w[2], FALSE)
      BY <1>0, ConvertedIs, Zenon
    <3>2. w[1] = 1
      <4> DEFINE a == w[1]
      <4>1. a \in 1..Len(s) /\ \A m \in 0+1..a-1 : s[m] \in White
        BY <3>1
      <4>2. s[1] \notin White
        BY <1>a, <1>b
      <4> HIDE DEF a
      <4>3. a = 1
        BY <1>0, <4>1, <4>2
      <4>4. QED BY <4>3 DEF a
    <3>3. ~(w[1] <= 2 /\ 2 <= w[2])
      BY <1>a, <1>b, <3>1 DEF Numeral
    <3>4. w[2] = 1
      BY <1>0, <3>1, <3>2, <3>3
    <3>5. QED BY <3>1, <3>2, <3>4
  <2>3. QED BY <2>1, <2>2
<1>2. RdCode(s) = QNICLL_ERR_NONE
  <2> DEFINE w == <<1, 1>>
  <2>1. w[1] = 1 /\ w[2] = 1
    OBVIOUS
  <2>2. w \in Converted(s, 0, FALSE)
    BY <1>1, Zenon
  <2> HIDE DEF w
  <2>3. \A m \in w[1]..w[2] : s[m] \in {48} \cup Sign
    BY <1>a, <2>1
  <2>4. QED BY <2>2, <2>3, Zenon DEF RdCode
<1>3. Numeral(s, 3, n+2, double)
  <2>1. ASSUME NEW m \in 3..n+2 PROVE s[m] = v[m-2] /\ m-2 \in 1..n /\ (m = 3 <=> m-2 = 1)
    <3>1. m-2 \in 1..n /\ (m-2)+2 = m
      BY <1>0
    <3>2. s[(m-2)+2] = v[m-2]
      BY <1>a, <3>1
    <3>3. QED BY <3>1, <3>2
  <2>2. \A m \in 3..n+2 : s[m] \in Digit \/ (m = 3 /\ s[m] \in Sign) \/ (double /\ s[m] = Point)
    BY <1>0, <2>1 DEF Numeral
  <2>3. \E m \in 3..n+2 : s[m] \in Digit
    <3>1. PICK i \in 1..n : v[i] \in Digit
      BY <1>0 DEF Numeral
    <3>2. i+2 \in 3..n+2 /\ s[i+2] = v[i]
      BY <1>0, <1>a, <3>1
    <3>3. QED BY <3>1, <3>2
  <2>4. \A i, j \in 3..n+2 : s[i] = Point /\ s[j] = Point => i = j
    <3> SUFFICES ASSUME NEW i \in 3..n+2, NEW j \in 3..n+2, s[i] = Point, s[j] = Point
                 PROVE  i = j
      OBVIOUS
    <3>1. v[i-2] = Point /\ v[j-2] = Point /\ i-2 \in 1..n /\ j-2 \in 1..n
      BY <2>1
    <3>2. i-2 = j-2
      BY <1>0, <3>1 DEF Numeral
    <3>3. QED BY <1>0, <3>2
  <2>5. QED BY <2>2, <2>3, <2>4 DEF Numeral
<1>4. Converted(s, 1, double) = {<<3, n+2>>}
  <2>1. ~Numeral(s, 3, (n+2)+1, double)
    <3>1. (n+2)+1 = n+3 /\ n+3 \in 3..(n+2)+1 /\ n+3 # 3
      BY <1>0
    <3>2. QED BY <1>a, <1>b, <3>1 DEF Numeral
  <2>2. <<3, n+2>> \in Converted(s, 1, double)
    <3>1. \A m \in 1+1..3-1 : s[m] \in White
      BY <1>a, <1>b
    <3>2. <<3, n+2>> \in (1..Len(s)) \X (1..Len(s)) /\ 1 < 3 /\ 3 <= n+2
      BY <1>0
    <3> DEFINE w == <<3, n+2>>
    <3>3. w[1] = 3 /\ w[2] = n+2
      OBVIOUS
    <3> HIDE DEF w
    <3>4. QED BY <1>3, <2>1, <3>1, <3>2, <3>3 DEF Converted, w
  <2>3. ASSUME NEW w \in Converted(s, 1, double) PROVE w = <<3, n+2>>
    <3>1. /\ w[1] \in 1..Len(s) /\ w[2] \in 1..Len(s) /\ w = <<w[1], w[2]>>
          /\ 1 < w[1] /\ w[1] <= w[2]
          /\ \A m \in 1+1..w[1]-1 : s[m] \in White
          /\ Numeral(s, w[1], w[2], double)
          /\ w[2] < Len(s) => ~Numeral(s, w[1], w[2]+1, double)
      BY <1>0, ConvertedIs
    <3>2. w[1] # 2
      <4>1. 2 \in w[1]..w[2] => 32 \in Digit \/ 32 \in Sign \/ 32 = Point
        BY <1>a, <3>1 DEF Numeral
      <4>2. QED BY <1>b, <3>1, <4>1
    <3>3. s[3] \notin White
      <4>1. 3 \in 3..n+2
        BY <1>0
      <4>2. s[3] \in Digit \/ s[3] \in Sign \/ s[3] = Point
        BY <1>3, <4>1 DEF Numeral
      <4>3. QED BY <4>2 DEF Digit, Sign, Point, White, Space
    <3>4. w[1] = 3
      BY <1>0, <3>1, <3>2, <3>3
    <3>5. w[2] <= n+2
      <4> SUFFICES ASSUME n+3 <= w[2] PROVE FALSE
        BY <1>0, <3>1
      <4>1. n+3 \in w[1]..w[2]
        BY <1>0, <3>1, <3>4
      <4>2. QED BY <1>a, <1>b, <3>1, <4>1 DEF Numeral
    <3>6. w[2] = n+2
      <4> SUFFICES ASSUME w[2] < n+2 PROVE FALSE
        BY <1>0, <3>1, <3>5
      <4>1. \A m \in 3..w[2]+1 : m \in 3..n+2
        BY <1>0, <3>1
      <4>2. \E m \in 3..w[2]+1 : s[m] \in Digit
        BY <1>0, <3>1, <3>4 DEF Numeral
      <4>3. Numeral(s, 3, w[2]+1, double)
        BY <1>3, <4>1, <4>2 DEF Numeral
      <4>4. w[2] < Len(s)
        BY <1>0, <3>1
      <4>5. QED BY <3>1, <3>4, <4>3, <4>4
    <3>7. QED BY <3>1, <3>4, <3>6
  <2>4. QED BY <2>2, <2>3
<1>5. SubSeq(s, 3, n+2) = v
  <2>1. \A i \in 3..n+2 : s[i] \in Byte
    <3> TAKE i \in 3..n+2
    <3>1. i \in 1..Len(s)
      BY <1>0
    <3>2. QED BY <1>0, <3>1, ElementOfSeq
  <2>2. /\ SubSeq(s, 3, n+2) \in Seq(Byte) /\ Len(SubSeq(s, 3, n+2)) = n
        /\ \A i \in 1..n : SubSeq(s, 3, n+2)[i] = s[3+i-1]
    <3>1. 3 \in Int /\ n+2 \in Int /\ (n+2)-3+1 = n /\ 3 <= n+2
      BY <1>0
    <3>2. /\ SubSeq(s, 3, n+2) \in Seq(Byte)
          /\ Len(SubSeq(s, 3, n+2)) = IF 3 <= n+2 THEN (n+2)-3+1 ELSE 0
          /\ \A i \in 1..(n+2)-3+1 : SubSeq(s, 3, n+2)[i] = s[3+i-1]
      BY <2>1, <3>1, SubSeqProperties
    <3>3. QED BY <3>1, <3>2
  <2>3. \A i \in 1..n : SubSeq(s, 3, n+2)[i] = v[i]
    <3> TAKE i \in 1..n
    <3>1. 3+i-1 = i+2
      BY <1>0
    <3>2. QED BY <1>a, <2>2, <3>1
  <2>4. QED BY <1>0, <2>2, <2>3, SeqEqual DEF n
<1>6. Second(s, double) = {v}
  <2>1. ASSUME NEW num \in Second(s, double) PROVE num = v
    <3>1. PICK e \in Converted(s, 0, FALSE) :
            \E w \in Converted(s, e[2], double) : num = SubSeq(s, w[1], w[2])
      BY SecondIs
    <3>2. e[2] = 1
      <4>1. e = <<1, 1>>
        BY <1>1, <3>1, Zenon
      <4>2. QED BY <4>1
    <3>3. PICK w \in Converted(s, 1, double) : num = SubSeq(s, w[1], w[2])
      BY <3>1, <3>2
    <3>4. w[1] = 3 /\ w[2] = n+2
      BY <1>4, <3>3
    <3>5. QED BY <1>5, <3>3, <3>4
  <2>2. v \in Second(s, double)
    <3>1. <<3, n+2>> \in Converted(s, <<1, 1>>[2], double)
      BY <1>4
    <3>2. v = SubSeq(s, <<3, n+2>>[1], <<3, n+2>>[2])
      BY <1>5
    <3>3. v \in {SubSeq(s, w[1], w[2]) : w \in Converted(s, <<1, 1>>[2], double)}
      BY <3>1, <3>2
    <3>4. <<1, 1>> \in Converted(s, 0, FALSE)
      BY <1>1
    <3>5. QED BY <3>3, <3>4 DEF Second
  <2>3. QED BY <2>1, <2>2
<1>7. QED BY <1>2, <1>6 DEF Result, double

\* rd() finds in an error report a code that is not 0.
LEMMA ErrResult ==
  ASSUME NEW s, Memory(s), Holds(s, ErrText), NEW request
  PROVE  Result(request, s) = Failed
<1>1. s[1] = 50
  BY DEF Holds, ErrText
<1>2. ASSUME NEW w \in Converted(s, 0, FALSE) PROVE ~ \A m \in w[1]..w[2] : s[m] \in {48} \cup Sign
  <2>1. /\ w[1] \in 1..Len(s) /\ w[2] \in 1..Len(s) /\ w[1] <= w[2] /\ Len(s) \in Nat
        /\ \A m \in 0+1..w[1]-1 : s[m] \in White
    BY ConvertedIs, LenProperties DEF Memory
  <2>2. w[1] = 1
    BY <1>1, <2>1 DEF White, Space
  <2>3. 1 \in w[1]..w[2]
    BY <2>1, <2>2
  <2>4. QED BY <1>1, <2>3 DEF Sign
<1>3. RdCode(s) = QNICLL_ERR_BUG
  BY <1>2, Zenon DEF RdCode
<1>4. QED BY <1>3 DEF Result, QNICLL_ERR_NONE, QNICLL_ERR_BUG

LEMMA AnswerIs ==
  ASSUME NEW r \in Regs, NEW text \in AnswersTo(r)
  PROVE  text \in Seq(Byte) /\ Len(text) \in 1..RxCap
<1>1. CASE text = ErrText
  <2>1. text \in Seq(Byte) /\ Len(text) = 3
    BY <1>1 DEF ErrText, Space, Byte
  <2>2. QED BY <2>1, RxCapType
<1>2. CASE text # ErrText
  <2>1. PICK v \in Vals[r] : text = OkText(v)
    BY <1>2 DEF AnswersTo
  <2>2. text \in Seq(Byte) /\ Len(text) = Len(v) + 2 /\ Len(v) \in Nat /\ Len(v) + 2 <= RxCap
    BY <2>1, OkTextIs
  <2>3. QED BY <2>2, RxCapType
<1>3. QED BY <1>1, <1>2

-----------------------------------------------------------------------------
(* Packets. *)

LEMMA HdrIs ==
  ASSUME NEW n \in Nat, n <= MaxInt
  PROVE  /\ Hdr(n) \in Seq(Byte) /\ Len(Hdr(n)) = 4
         /\ \A s : (\A i \in 1..4 : s[i] = Hdr(n)[i]) => Ntohl(s) = n
<1> DEFINE p == n \div 16777216
           q == (n \div 65536) % 256
           x == (n \div 256) % 256
           u == n % 256
<1>1. p \in 0..127 /\ q \in 0..255 /\ x \in 0..255 /\ u \in 0..255
  BY SMT DEF MaxInt
<1>2. ((p * 256 + q) * 256 + x) * 256 + u = n
  BY SMTT(30) DEF MaxInt
<1>3. Hdr(n) = <<p, q, x, u>>
  BY SMT DEF Hdr
<1> HIDE DEF p, q, x, u
<1>4. Hdr(n) \in Seq(Byte) /\ Len(Hdr(n)) = 4
  BY <1>1, <1>3 DEF Byte
<1>5. ASSUME NEW s, \A i \in 1..4 : s[i] = Hdr(n)[i] PROVE Ntohl(s) = n
  <2>1. s[1] = p /\ s[2] = q /\ s[3] = x /\ s[4] = u
    BY <1>3, <1>5
  <2>2. p < 128
    BY <1>1
  <2>3. QED BY <1>2, <2>1, <2>2 DEF Ntohl
<1>6. QED BY <1>4, <1>5

LEMMA FrameIs ==
  ASSUME NEW text \in Seq(Byte), Len(text) \in 0..MaxInt
  PROVE  /\ Frame(text) \in Seq(Byte) /\ Len(Frame(text)) = 4 + Len(text)
         /\ \A i \in 1..4 : Frame(text)[i] = Hdr(Len(text))[i]
         /\ \A i \in 5..4+Len(text) : Frame(text)[i] = text[i-4]
<1> DEFINE h == Hdr(Len(text))
<1>1. h \in Seq(Byte) /\ Len(h) = 4
  BY MaxIntType, HdrIs
<1> HIDE DEF h
<1>2. /\ h \o text \in Seq(Byte) /\ Len(h \o text) = Len(h) + Len(text)
      /\ \A i \in 1..Len(h)+Len(text) :
           (h \o text)[i] = IF i <= Len(h) THEN h[i] ELSE text[i-Len(h)]
  BY <1>1, ConcatProperties
<1>3. /\ \A i \in 1..4 : (h \o text)[i] = h[i]
      /\ \A i \in 5..4+Len(text) : (h \o text)[i] = text[i-4]
  BY <1>1, <1>2
<1>4. QED BY <1>1, <1>2, <1>3 DEF Frame, h

\* The first four bytes of a frame that has begun to arrive, and what is behind.
LEMMA FrontOfFrame ==
  ASSUME NEW text \in Seq(Byte), Len(text) \in 0..MaxInt, NEW n \in 4..4+Len(text)
  PROVE  /\ Ntohl(Front(Frame(text), n)) = Len(text)
         /\ Rest(Front(Frame(text), n), 4) = Front(text, n-4)
<1> DEFINE F == Frame(text)
           s == Front(F, n)
<1>0. Len(text) \in Nat /\ n \in 0..4+Len(text) /\ n-4 \in 0..Len(text)
  BY LenProperties
<1>1. /\ F \in Seq(Byte) /\ Len(F) = 4 + Len(text)
      /\ \A i \in 1..4 : F[i] = Hdr(Len(text))[i]
      /\ \A i \in 5..4+Len(text) : F[i] = text[i-4]
  BY FrameIs
<1> HIDE DEF F
<1>2. s \in Seq(Byte) /\ Len(s) = n /\ \A i \in 1..n : s[i] = F[i]
  <2>1. n \in 0..Len(F)
    BY <1>0, <1>1
  <2>2. QED BY <1>1, <2>1, FrontType
<1> HIDE DEF s
<1>3. \A i \in 1..4 : s[i] = Hdr(Len(text))[i]
  BY <1>1, <1>2
<1>4. Ntohl(s) = Len(text)
  <2>1. Len(text) \in Nat /\ Len(text) <= MaxInt
    BY MaxIntType
  <2>2. QED BY <1>3, <2>1, HdrIs
<1>5. /\ Rest(s, 4) \in Seq(Byte) /\ Len(Rest(s, 4)) = n - 4
      /\ \A i \in 1..n-4 : Rest(s, 4)[i] = s[4+i]
  <2>1. /\ Rest(s, 4) \in Seq(Byte)
        /\ Len(Rest(s, 4)) = IF 4 <= Len(s) THEN Len(s) - 4 ELSE 0
        /\ \A i \in 1..Len(s)-4 : Rest(s, 4)[i] = s[4+i]
    <3>1. 4 \in Nat
      OBVIOUS
    <3>2. s \in Seq(Byte)
      BY <1>2
    <3>3. QED BY <3>1, <3>2, RestType
  <2>2. QED BY <1>2, <2>1
<1>6. /\ Front(text, n-4) \in Seq(Byte) /\ Len(Front(text, n-4)) = n - 4
      /\ \A i \in 1..n-4 : Front(text, n-4)[i] = text[i]
  BY <1>0, FrontType
<1>7. \A i \in 1..n-4 : Rest(s, 4)[i] = Front(text, n-4)[i]
  <2> TAKE i \in 1..n-4
  <2>1. Rest(s, 4)[i] = s[4+i] /\ s[4+i] = F[4+i]
    BY <1>2, <1>5
  <2>2. F[4+i] = text[i]
    <3>1. Len(text) \in Nat /\ 4+i \in 5..4+Len(text) /\ (4+i)-4 = i
      BY LenProperties
    <3>2. QED BY <1>1, <3>1
  <2>3. QED BY <1>6, <2>1, <2>2
<1>8. Rest(s, 4) = Front(text, n-4)
  BY <1>5, <1>6, <1>7, SeqEqual
<1>9. QED BY <1>4, <1>8 DEF s, F

-----------------------------------------------------------------------------
(* The type invariant. *)

LEMMA ReadCountsType ==
  ASSUME stream \in Seq(Byte), ShortReads \in BOOLEAN, NEW n \in Int, NEW m \in ReadCounts(n)
  PROVE  m \in 0..Len(stream) /\ m <= n
BY DEF ReadCounts, Smaller

LEMMA NtohlType ==
  ASSUME NEW s \in Seq(Byte), Len(s) >= 4
  PROVE  Ntohl(s) \in Int
<1>1. \A i \in 1..4 : s[i] \in 0..255
  <2> TAKE i \in 1..4
  <2>1. i \in 1..Len(s)
    BY LenProperties
  <2>2. QED BY <2>1, ElementOfSeq DEF Byte
<1>2. s[1] \in 0..255 /\ s[2] \in 0..255 /\ s[3] \in 0..255 /\ s[4] \in 0..255
  BY <1>1
<1>3. Ntohl(s) = (((IF s[1] < 128 THEN s[1] ELSE s[1] - 256) * 256 + s[2]) * 256 + s[3]) * 256 + s[4]
  BY DEF Ntohl
<1> DEFINE p == s[1]
           q == s[2]
           r == s[3]
           u == s[4]
<1>4. p \in 0..255 /\ q \in 0..255 /\ r \in 0..255 /\ u \in 0..255
  BY <1>2
<1>5. Ntohl(s) = (((IF p < 128 THEN p ELSE p - 256) * 256 + q) * 256 + r) * 256 + u
  BY <1>3
<1> HIDE DEF p, q, r, u
<1>6. QED BY <1>4, <1>5

LEMMA ReplyType ==
  ASSUME stream \in Seq(Byte), NEW text \in Seq(Byte), Len(text) \in 0..MaxInt, Reply(text)
  PROVE  stream' \in Seq(Byte)
<1>1. Frame(text) \in Seq(Byte)
  BY FrameIs
<1>2. QED BY <1>1 DEF Reply

LEMMA CmdTextIs ==
  ASSUME NEW text \in CmdTexts
  PROVE  text \in Seq(Byte) /\ Len(text) \in 0..MaxInt
<1>1. text \in Seq(Byte) /\ Len(text) <= MaxInt
  BY QregcAssumption
<1>2. Len(text) \in Nat
  BY <1>1, LenProperties
<1>3. QED BY <1>1, <1>2, MaxIntType

LEMMA WrPktType ==
  ASSUME reqs \in Seq(Requests), NEW r \in Requests, NEW ok, WrPkt(r, ok)
  PROVE  reqs' \in Seq(Requests)
BY DEF WrPkt

LEMMA ReturnType ==
  ASSUME trust \in BOOLEAN, NEW r \in Returns, Return(r)
  PROVE  pc' = "idle" /\ ret' = r /\ ret' \in Returns /\ trust' \in BOOLEAN
BY DEF Return

LEMMA CallsType == TypeOK /\ Calls => TypeOK'
<1> SUFFICES ASSUME TypeOK, Calls PROVE TypeOK' OBVIOUS
<1> USE DEF TypeOK, Enter
<1>0. /\ Done(<<>>) \in Returns /\ Failed \in Returns
      /\ [op |-> "quit"] \in Requests /\ [op |-> "cmd"] \in Requests
      /\ [op |-> "shutdown"] \in Requests
      /\ \A r \in Regs : [op |-> "set", reg |-> r] \in Requests
  BY DEF Done, Failed, Returns, Requests
<1>n. ncalls \in Nat => ncalls + 1 \in Nat
  OBVIOUS
<1>1. CASE qregc_connect
  <2>1. stream' = <<>> /\ <<>> \in Seq(Byte)
    BY <1>1 DEF qregc_connect
  <2>2. QED BY <1>0, <1>1, <1>n, <2>1 DEF qregc_connect
<1>2. CASE \E r \in Regs : qregc_set(r)
  <2>1. PICK r \in Regs : qregc_set(r)
    BY <1>2
  <2>2. reqs' \in Seq(Requests)
    BY <1>0, <2>1, WrPktType DEF qregc_set
  <2>3. QED BY <1>0, <1>n, <2>1, <2>2 DEF qregc_set
<1>3. CASE \E r \in Regs : qregc_set_checked(r)
  <2>1. PICK r \in Regs : qregc_set_checked(r)
    BY <1>3
  <2>2. reqs' \in Seq(Requests)
    BY <1>0, <2>1, WrPktType DEF qregc_set_checked
  <2>3. pc' \in {"idle", "hdr"} /\ ret' \in Returns /\ trust' \in BOOLEAN
    BY <1>0, <2>1 DEF qregc_set_checked, Return
  <2>4. QED BY <1>0, <1>n, <2>1, <2>2, <2>3 DEF qregc_set_checked
<1>4. CASE qregc_do_cmd
  <2>1. reqs' \in Seq(Requests)
    BY <1>0, <1>4, WrPktType DEF qregc_do_cmd
  <2>2. QED BY <1>0, <1>4, <1>n, <2>1 DEF qregc_do_cmd
<1>5. CASE qregc_shutdown
  <2>1. reqs' \in Seq(Requests)
    BY <1>0, <1>5, WrPktType DEF qregc_shutdown
  <2>2. QED BY <1>0, <1>5, <1>n, <2>1 DEF qregc_shutdown, Return
<1>6. CASE qregc_disconnect
  <2>1. reqs' \in Seq(Requests)
    BY <1>0, <1>6, WrPktType DEF qregc_disconnect
  <2>2. UNCHANGED stream /\ conn' \in {"closing", "down"}
    BY <1>6 DEF qregc_disconnect
  <2>3. pc' = "idle" /\ ret' \in Returns /\ trust' \in BOOLEAN
    BY <1>0, <1>6 DEF qregc_disconnect, Return
  <2>4. QED BY <1>0, <1>6, <1>n, <2>1, <2>2, <2>3 DEF qregc_disconnect
<1>7. QED BY <1>1, <1>2, <1>3, <1>4, <1>5, <1>6 DEF Calls

LEMMA FinishType ==
  ASSUME TypeOK, stream' \in Seq(Byte), NEW mem, Memory(mem),
         NEW failed \in {"no", "hdr", "body", "length"}, Finish(mem, failed)
  PROVE  TypeOK'
<1>1. Result(call, mem) \in Returns
  BY ResultType DEF Memory
<1>2. pc' = "idle" /\ ret' \in Returns /\ trust' \in BOOLEAN
  BY <1>1, ReturnType DEF TypeOK, Finish
<1>3. rxbuf' \in Seq(Byte) /\ Len(rxbuf') = RxCap + 1 /\ rxbuf'[RxCap+1] = 0
  BY DEF Memory, Finish
<1>4. QED BY <1>2, <1>3 DEF TypeOK, Finish

LEMMA TypeIs ==
  ASSUME TypeOK
  PROVE  /\ stream \in Seq(Byte) /\ Memory(rxbuf) /\ want \in Int /\ want <= RxCap
         /\ ShortReads \in BOOLEAN /\ reg \in RegVals /\ call \in Requests
         /\ reqs \in Seq(Requests) /\ conn \in {"down", "up", "closed", "closing"}
         /\ pc \in {"idle", "hdr", "body"}
BY QregcAssumption DEF TypeOK, Memory

\* What a read() of the body gets
LEMMA BodyBytes ==
  ASSUME TypeOK, NEW m \in ReadCounts(want)
  PROVE  /\ m \in 0..Len(stream) /\ m <= want /\ m <= RxCap
         /\ Front(stream, m) \in Seq(Byte) /\ Len(Front(stream, m)) = m
         /\ Rest(stream, m) \in Seq(Byte)
<1>1. stream \in Seq(Byte) /\ want \in Int /\ want <= RxCap /\ ShortReads \in BOOLEAN
  BY TypeIs
<1>2. m \in 0..Len(stream) /\ m <= want
  BY <1>1, ReadCountsType
<1>3. m \in Nat /\ Len(stream) \in Nat
  BY <1>1, <1>2, LenProperties
<1>4. QED BY <1>1, <1>2, <1>3, RxCapType, FrontType, RestType

LEMMA ReadsType == TypeOK /\ Reads => TypeOK'
<1> SUFFICES ASSUME TypeOK, Reads PROVE TypeOK' OBVIOUS
<1>0. /\ stream \in Seq(Byte) /\ Memory(rxbuf) /\ want \in Int /\ want <= RxCap
      /\ ShortReads \in BOOLEAN /\ RxCap \in Nat /\ <<>> \in Seq(Byte) /\ Len(<<>>) <= RxCap
  BY TypeIs, RxCapType
<1>1. CASE ReadHdr
  <2>1. Len(stream) >= 4
    BY <1>0, <1>1, ReadCountsType DEF ReadHdr
  <2>2. Ntohl(stream) \in Int
    BY <1>0, <2>1, NtohlType
  <2>3. want' \in Int /\ want' <= RxCap
    BY <1>0, <1>1, <2>2 DEF ReadHdr, Smaller
  <2>4. stream' \in Seq(Byte)
    BY <1>0, <1>1, RestType DEF ReadHdr
  <2>5. QED BY <1>1, <2>3, <2>4 DEF ReadHdr, TypeOK
<1>2. CASE ReadHdrFail
  <2>1. PICK m \in ReadCounts(4) \ {4} : stream' = Rest(stream, m)
    BY <1>2 DEF ReadHdrFail
  <2>2. m \in Nat
    BY <1>0, <2>1, ReadCountsType
  <2>3. stream' \in Seq(Byte)
    BY <1>0, <2>1, <2>2, RestType
  <2>4. Memory(EndAt(rxbuf, QNICLL_ERR_BUG))
    BY <1>0, CutText
  <2>5. QED BY <1>2, <2>3, <2>4, FinishType DEF ReadHdrFail
<1>3. CASE ReadBody
  <2> DEFINE text == Front(stream, want)
  <2>1. want \in ReadCounts(want)
    BY <1>3 DEF ReadBody
  <2>2. text \in Seq(Byte) /\ Len(text) = want /\ Len(text) <= RxCap /\ Rest(stream, want) \in Seq(Byte)
    BY <2>1, BodyBytes
  <2>3. stream' \in Seq(Byte)
    BY <1>3, <2>2 DEF ReadBody
  <2> HIDE DEF text
  <2>4. Memory(EndAt(Overwrite(text), want))
    BY <1>0, <2>2, ReadText
  <2>5. Finish(EndAt(Overwrite(text), want), "no")
    BY <1>3 DEF ReadBody, text
  <2>6. QED BY <2>3, <2>4, <2>5, FinishType
<1>4. CASE ReadBodyFail
  <2>1. PICK m \in ReadCounts(want) \ {want} :
          /\ stream' = Rest(stream, m)
          /\ Finish(EndAt(Overwrite(Front(stream, m)), QNICLL_ERR_BUG), "body")
    BY <1>4 DEF ReadBodyFail
  <2>2. Front(stream, m) \in Seq(Byte) /\ Len(Front(stream, m)) <= RxCap /\ Rest(stream, m) \in Seq(Byte)
    BY BodyBytes
  <2>3. Memory(EndAt(Overwrite(Front(stream, m)), QNICLL_ERR_BUG))
    BY <1>0, <2>2, CutText
  <2>4. QED BY <2>1, <2>2, <2>3, FinishType
<1>5. CASE ReadBodyNegative
  BY <1>0, <1>5, FinishType DEF ReadBodyNegative
<1>6. QED BY <1>1, <1>2, <1>3, <1>4, <1>5 DEF Reads

\* A request for a register names one.
LEMMA HeadIs ==
  ASSUME reqs \in Seq(Requests), reqs # <<>>, Head(reqs).op = "set"
  PROVE  Head(reqs).reg \in Regs
<1>1. Head(reqs) \in Requests
  BY HeadTailProperties
<1>2. QED BY <1>1 DEF Requests

LEMMA RegServed ==
  ASSUME reqs \in Seq(Requests), reqs # <<>>, reg \in RegVals, QregdSet
  PROVE  reg' \in RegVals
<1>1. CASE UNCHANGED reg
  BY <1>1
<1>2. CASE ~UNCHANGED reg
  <2>1. PICK v \in Vals[Head(reqs).reg] : reg' = [reg EXCEPT ![Head(reqs).reg] = v]
    BY <1>2 DEF QregdSet
  <2>2. Head(reqs).reg \in Regs
    BY HeadIs DEF QregdSet
  <2>3. QED BY <2>1, <2>2, RegValsIs
<1>3. QED BY <1>1, <1>2

LEMMA ServerType == TypeOK /\ (QregdServe \/ ConnectionLost) => TypeOK'
<1> SUFFICES ASSUME TypeOK, QregdServe \/ ConnectionLost PROVE TypeOK' OBVIOUS
<1>0. /\ stream \in Seq(Byte) /\ reqs \in Seq(Requests) /\ reg \in RegVals
      /\ conn \in {"down", "up", "closed", "closing"} /\ <<>> \in Seq(Requests)
  BY DEF TypeOK
<1>1. CASE QregdServe /\ QregdSet
  <2>0. Head(reqs).reg \in Regs
    BY <1>0, <1>1, HeadIs DEF QregdServe, QregdSet
  <2>1. PICK text \in AnswersTo(Head(reqs).reg) : Reply(text)
    BY <1>1 DEF QregdSet, AnswersTo
  <2>2. text \in Seq(Byte) /\ Len(text) \in 0..MaxInt
    <3>1. text \in Seq(Byte) /\ Len(text) \in 1..RxCap
      BY <2>0, AnswerIs
    <3>2. QED BY <3>1, RxCapType, MaxIntType
  <2>3. stream' \in Seq(Byte)
    BY <1>0, <2>1, <2>2, ReplyType
  <2>4. reqs' \in Seq(Requests)
    BY <1>0, <1>1 DEF QregdServe, QregdSet
  <2>5. reg' \in RegVals
    BY <1>0, <1>1, RegServed DEF QregdServe
  <2>6. QED BY <1>1, <2>3, <2>4, <2>5 DEF TypeOK, QregdServe, QregdSet
<1>2. CASE QregdServe /\ QregdCmd
  <2>1. PICK text \in CmdTexts : Reply(text)
    BY <1>2 DEF QregdCmd
  <2>2. stream' \in Seq(Byte)
    BY <1>0, <2>1, CmdTextIs, ReplyType
  <2>3. reqs' \in Seq(Requests)
    BY <1>0, <1>2 DEF QregdServe, QregdCmd
  <2>4. QED BY <1>2, <2>2, <2>3 DEF TypeOK, QregdServe, QregdCmd
<1>3. CASE QregdServe /\ QregdStop
  BY <1>0, <1>3 DEF TypeOK, QregdServe, QregdStop
<1>4. CASE ConnectionLost
  <2>1. stream' \in Seq(Byte)
    BY <1>0, <1>4, FrontType DEF ConnectionLost
  <2>2. QED BY <1>0, <1>4, <2>1 DEF TypeOK, ConnectionLost
<1>5. QED BY <1>1, <1>2, <1>3, <1>4 DEF QregdServe

LEMMA InitTypeOK == Init => TypeOK
<1>1. <<>> \in Seq(Byte) /\ <<>> \in Seq(Requests) /\ <<>> \in Seq(Digit)
  OBVIOUS
<1>2. [op |-> "quit"] \in Requests /\ Done(<<>>) \in Returns
  BY <1>1 DEF Requests, Returns, Done
<1>3. 0 \in Nat /\ 0 \in Int /\ 0 <= RxCap
  BY RxCapType
<1> SUFFICES ASSUME Init PROVE TypeOK
  OBVIOUS
<1>4. stream \in Seq(Byte) /\ reqs \in Seq(Requests)
  BY <1>1, Zenon DEF Init
<1>5. call \in Requests /\ ret \in Returns /\ want \in Int /\ want <= RxCap /\ ncalls \in Nat
  BY <1>2, <1>3, Zenon DEF Init
<1>6. /\ conn \in {"down", "up", "closed", "closing"} /\ pc \in {"idle", "hdr", "body"}
      /\ reg \in RegVals /\ rdfail = "no" /\ trust \in BOOLEAN
  BY DEF Init
<1>7. rxbuf \in Seq(Byte) /\ Len(rxbuf) = RxCap + 1 /\ rxbuf[RxCap+1] = 0
  <2>1. rxbuf = [i \in 1..RxCap+1 |-> 0] /\ RxCap + 1 \in Nat /\ 0 \in Byte
    BY RxCapType DEF Init, Byte
  <2>2. rxbuf \in [1..RxCap+1 -> Byte]
    BY <2>1
  <2>3. RxCap + 1 \in 1..RxCap+1
    BY RxCapType
  <2>4. QED BY <2>1, <2>2, <2>3
<1>8. QED BY <1>4, <1>5, <1>6, <1>7 DEF TypeOK

LEMMA StepTypeOK == TypeOK /\ [Next]_vars => TypeOK'
<1>1. TypeOK /\ UNCHANGED vars => TypeOK'
  BY DEF TypeOK, vars
<1>2. QED BY <1>1, CallsType, ReadsType, ServerType DEF Next

(***************************************************************************)
(* Every state of qregc.c is well typed.                                   *)
(***************************************************************************)
THEOREM TypeCorrect == Spec => []TypeOK
BY InitTypeOK, StepTypeOK, PTL DEF Spec

-----------------------------------------------------------------------------
(* A read that gets too little fails the setter it belongs to. *)

LEMMA ShortReadFails ==
  ASSUME TypeOK, call.op = "set", ReadHdrFail \/ ReadBodyFail
  PROVE  ret' = Failed /\ ~trust' /\ pc' = "idle"
<1>0. Memory(rxbuf) /\ <<>> \in Seq(Byte) /\ Len(<<>>) <= RxCap
  BY TypeIs, RxCapType
<1>1. PICK mem, failed : Memory(mem) /\ mem[3] = 0 /\ Finish(mem, failed)
  <2>1. CASE ReadHdrFail
    <3>1. /\ Memory(EndAt(rxbuf, QNICLL_ERR_BUG)) /\ EndAt(rxbuf, QNICLL_ERR_BUG)[3] = 0
      BY <1>0, CutText
    <3>2. QED BY <2>1, <3>1 DEF ReadHdrFail
  <2>2. CASE ReadBodyFail
    <3>1. PICK m \in ReadCounts(want) \ {want} :
            Finish(EndAt(Overwrite(Front(stream, m)), QNICLL_ERR_BUG), "body")
      BY <2>2 DEF ReadBodyFail
    <3>2. Front(stream, m) \in Seq(Byte) /\ Len(Front(stream, m)) <= RxCap
      BY BodyBytes
    <3> DEFINE mem == EndAt(Overwrite(Front(stream, m)), QNICLL_ERR_BUG)
    <3>3. Memory(mem) /\ mem[3] = 0
      BY <1>0, <3>2, CutText
    <3>4. QED BY <3>1, <3>3
  <2>3. QED BY <2>1, <2>2
<1>2. Result(call, mem) = Failed
  BY <1>1, StaleResult
<1>3. QED BY <1>1, <1>2 DEF Finish, Return

-----------------------------------------------------------------------------
-----------------------------------------------------------------------------
(* The careful caller keeps its place in the stream. *)

Gone == conn \in {"down", "closed"} => reqs = <<>>

LEMMA KeepsPlaceIs == KeepsPlace <=> Gone /\ (trust => InSync)
BY DEF KeepsPlace, Gone

\* An answer that has not begun to come is one of which nothing has come.
LEMMA NothingHasCome ==
  ASSUME stream' = <<>>
  PROVE  HdrComing'
<1>1. ErrText \in Seq(Byte) /\ Len(ErrText) = 3
  BY DEF ErrText, Space, Byte
<1>2. Frame(ErrText) \in Seq(Byte) /\ Len(Frame(ErrText)) = 7
  <2>1. Len(ErrText) \in 0..MaxInt
    BY <1>1, RxCapType, MaxIntType
  <2>2. Frame(ErrText) \in Seq(Byte) /\ Len(Frame(ErrText)) = 4 + Len(ErrText)
    BY <1>1, <2>1, FrameIs
  <2>3. QED BY <1>1, <2>2
<1>3. 0 \in 0..Len(Frame(ErrText)) /\ 0 \in 0..4+Len(ErrText)
  BY <1>1, <1>2
<1>4. Front(Frame(ErrText), 0) \in Seq(Byte) /\ Len(Front(Frame(ErrText), 0)) = 0
  BY <1>2, <1>3, FrontType
<1>5. stream' = Front(Frame(ErrText), 0)
  BY <1>4, EmptySeq
<1>6. QED BY <1>3, <1>5 DEF HdrComing

\* A request that gets no answer leaves things quiet.
LEMMA QuietAppend ==
  ASSUME reqs \in Seq(Requests), Quiet, NEW r \in Requests, r.op \in {"shutdown", "quit"},
         NEW ok, WrPkt(r, ok)
  PROVE  Quiet'
<1>1. CASE UNCHANGED reqs
  BY <1>1 DEF Quiet
<1>2. CASE reqs' = Append(reqs, r)
  <2>1. /\ Len(reqs) \in Nat /\ Len(reqs') = Len(reqs) + 1 /\ reqs'[Len(reqs)+1] = r
        /\ \A i \in 1..Len(reqs) : reqs'[i] = reqs[i]
    BY <1>2, AppendProperties
  <2>2. QED BY <2>1 DEF Quiet
<1>3. QED BY <1>1, <1>2 DEF WrPkt

\* A request that gets one is waited for, unless it was lost.
LEMMA WaitingAppend ==
  ASSUME reqs \in Seq(Requests), Quiet, call' \in Requests, stream' = <<>>,
         NEW ok, WrPkt(call', ok)
  PROVE  Waiting' \/ (Quiet' /\ HdrComing')
<1>1. CASE UNCHANGED reqs
  BY <1>1, NothingHasCome DEF Quiet
<1>2. CASE reqs' = Append(reqs, call')
  <2>1. /\ Len(reqs) \in Nat /\ Len(reqs') = Len(reqs) + 1 /\ reqs'[Len(reqs)+1] = call'
        /\ reqs' # <<>>
        /\ \A i \in 1..Len(reqs) : reqs'[i] = reqs[i]
    BY <1>2, AppendProperties
  <2>2. \A i \in 1..Len(reqs')-1 : reqs'[i].op \in {"shutdown", "quit"}
    BY <2>1 DEF Quiet
  <2>3. QED BY <2>1, <2>2 DEF Waiting
<1>3. QED BY <1>1, <1>2 DEF WrPkt

LEMMA CallsKeep == TypeOK /\ KeepsPlace /\ Calls => KeepsPlace'
<1> SUFFICES ASSUME TypeOK, KeepsPlace, Calls PROVE KeepsPlace' OBVIOUS
<1> USE DEF Enter
<1>0. /\ Gone /\ (trust => InSync)
      /\ reqs \in Seq(Requests) /\ conn \in {"down", "up", "closed", "closing"}
  BY KeepsPlaceIs DEF TypeOK
<1>1. /\ pc = "idle"
      /\ trust => Quiet /\ stream = <<>> /\ ReturnedIsActual
  BY <1>0 DEF Calls, InSync, qregc_connect, qregc_set, qregc_set_checked, qregc_do_cmd,
         qregc_shutdown, qregc_disconnect
<1>2. /\ [op |-> "quit"] \in Requests /\ [op |-> "cmd"] \in Requests
      /\ [op |-> "shutdown"] \in Requests
      /\ \A r \in Regs : [op |-> "set", reg |-> r] \in Requests
  BY DEF Requests
<1>3. CASE qregc_connect
  <2>1. Gone'
    BY <1>0, <1>3 DEF qregc_connect, Gone
  <2>2. ASSUME trust' PROVE InSync'
    <3>1. stream' = <<>> /\ reqs' = <<>> /\ pc' = "idle" /\ call'.op = "quit"
      BY <1>0, <1>3 DEF qregc_connect, Gone
    <3>2. Quiet'
      BY <3>1 DEF Quiet
    <3>3. QED BY <3>1, <3>2 DEF InSync, ReturnedIsActual, SetReturned
  <2>3. QED BY <2>1, <2>2 DEF KeepsPlace, Gone
<1>4. CASE \E r \in Regs : qregc_set(r)
  <2>1. PICK r \in Regs : qregc_set(r)
    BY <1>4
  <2>2. Gone'
    BY <1>0, <2>1 DEF qregc_set, WrPkt, Gone
  <2>3. ASSUME trust' PROVE InSync'
    <3>1. Quiet /\ stream' = <<>> /\ pc' = "hdr" /\ call' = [op |-> "set", reg |-> r]
      BY <1>1, <2>1, <2>3 DEF qregc_set
    <3>2. Waiting' \/ (Quiet' /\ HdrComing')
      BY <1>0, <1>2, <2>1, <3>1, WaitingAppend DEF qregc_set
    <3>3. QED BY <3>1, <3>2 DEF InSync
  <2>4. QED BY <2>2, <2>3 DEF KeepsPlace, Gone
<1>5. CASE \E r \in Regs : qregc_set_checked(r)
  <2>1. PICK r \in Regs : qregc_set_checked(r)
    BY <1>5
  <2>2. Gone'
    BY <1>0, <2>1 DEF qregc_set_checked, WrPkt, Gone
  <2>3. ASSUME trust' PROVE InSync'
    <3>1. WrPkt(call', TRUE) /\ pc' = "hdr" /\ UNCHANGED <<ret, trust>>
      BY <2>1, <2>3 DEF qregc_set_checked, Return
    <3>2. Quiet /\ stream' = <<>> /\ call' = [op |-> "set", reg |-> r]
      BY <1>1, <2>1, <2>3, <3>1 DEF qregc_set_checked
    <3>3. Waiting' \/ (Quiet' /\ HdrComing')
      BY <1>0, <1>2, <3>1, <3>2, WaitingAppend
    <3>4. QED BY <3>1, <3>2, <3>3 DEF InSync
  <2>4. QED BY <2>2, <2>3 DEF KeepsPlace, Gone
<1>6. CASE qregc_do_cmd
  <2>1. Gone'
    BY <1>0, <1>6 DEF qregc_do_cmd, WrPkt, Gone
  <2>2. QED BY <1>6, <2>1 DEF qregc_do_cmd, KeepsPlace, Gone
<1>7. CASE qregc_shutdown \/ qregc_disconnect
  <2>1. PICK ok \in BOOLEAN : WrPkt(call', ok)
    BY <1>7 DEF qregc_shutdown, qregc_disconnect
  <2>2. call' \in Requests /\ call'.op \in {"shutdown", "quit"} /\ pc' = "idle"
    BY <1>2, <1>7 DEF qregc_shutdown, qregc_disconnect, Return
  <2>3. Gone'
    BY <1>0, <1>7 DEF qregc_shutdown, qregc_disconnect, WrPkt, Gone
  <2>4. ASSUME trust' PROVE InSync'
    <3>1. trust /\ stream' = <<>>
      BY <1>1, <1>7, <2>4 DEF qregc_shutdown, qregc_disconnect, Return
    <3>2. Quiet'
      BY <1>0, <1>1, <2>1, <2>2, <3>1, QuietAppend
    <3>3. QED BY <2>2, <3>1, <3>2 DEF InSync, ReturnedIsActual, SetReturned
  <2>5. QED BY <2>3, <2>4 DEF KeepsPlace, Gone
<1>8. QED BY <1>3, <1>4, <1>5, <1>6, <1>7 DEF Calls

\* The texts that may answer the call in progress.
LEMMA ComingIs ==
  ASSUME reg \in RegVals, call \in Requests, call.op = "set",
         NEW text \in {ErrText, OkText(reg[call.reg])}
  PROVE  /\ text \in Seq(Byte) /\ Len(text) \in 1..RxCap /\ Len(text) \in 0..MaxInt
         /\ \A mem : Memory(mem) /\ Holds(mem, text) =>
              Result(call, mem) = Failed \/ Result(call, mem) = Done(reg[call.reg])
<1>1. call.reg \in Regs
  BY DEF Requests
<1>2. reg[call.reg] \in Vals[call.reg]
  BY <1>1, RegValsIs
<1>3. text \in AnswersTo(call.reg)
  BY <1>2 DEF AnswersTo
<1>4. text \in Seq(Byte) /\ Len(text) \in 1..RxCap
  BY <1>1, <1>3, AnswerIs
<1>5. Len(text) \in 0..MaxInt
  BY <1>4, RxCapType, MaxIntType
<1>6. ASSUME NEW mem, Memory(mem), Holds(mem, text)
      PROVE  Result(call, mem) = Failed \/ Result(call, mem) = Done(reg[call.reg])
  <2>1. CASE text = ErrText
    BY <1>6, <2>1, ErrResult
  <2>2. CASE text = OkText(reg[call.reg])
    BY <1>1, <1>2, <1>6, <2>2, OkResult
  <2>3. QED BY <2>1, <2>2
<1>7. QED BY <1>4, <1>5, <1>6

LEMMA ReadsKeep == TypeOK /\ KeepsPlace /\ Reads => KeepsPlace'
<1> SUFFICES ASSUME TypeOK, KeepsPlace, Reads PROVE KeepsPlace' OBVIOUS
<1>0. /\ Gone /\ (trust => InSync)
      /\ stream \in Seq(Byte) /\ Memory(rxbuf) /\ want \in Int
      /\ reg \in RegVals /\ call \in Requests
      /\ ShortReads \in BOOLEAN /\ RxCap \in Nat
  BY KeepsPlaceIs, TypeIs, RxCapType
<1>1. UNCHANGED <<conn, reqs, reg, call>>
  BY DEF Reads, ReadHdr, ReadHdrFail, ReadBody, ReadBodyFail, ReadBodyNegative, Finish
<1>3. Gone'
  BY <1>0, <1>1 DEF Gone
<1>4. CASE ReadHdr
  <2>1. ASSUME trust PROVE InSync'
    <3>1. call.op = "set" /\ (Waiting \/ (Quiet /\ HdrComing)) /\ pc' = "body"
      BY <1>0, <1>4, <2>1 DEF ReadHdr, InSync
    <3>2. 4 \in 0..Len(stream)
      BY <1>0, <1>4, ReadCountsType DEF ReadHdr
    <3>3. stream # <<>>
      BY <3>2
    <3>4. Quiet /\ HdrComing
      BY <3>1, <3>3 DEF Waiting
    <3>5. PICK text \in {ErrText, OkText(reg[call.reg])} : \E n \in 0..4+Len(text) :
            stream = Front(Frame(text), n)
      BY <3>4 DEF HdrComing
    <3>6. PICK n \in 0..4+Len(text) : stream = Front(Frame(text), n)
      BY <3>5
    <3>7. text \in Seq(Byte) /\ Len(text) \in 1..RxCap /\ Len(text) \in 0..MaxInt
      BY <1>0, <3>1, ComingIs
    <3>8. Len(text) \in Nat /\ Len(text) <= RxCap
      BY <1>0, <3>7
    <3>9. n \in 4..4+Len(text)
      <4>1. Frame(text) \in Seq(Byte) /\ Len(Frame(text)) = 4 + Len(text)
        BY <3>7, <3>8, FrameIs
      <4>2. n \in 0..Len(Frame(text))
        BY <4>1
      <4>3. Len(stream) = n
        BY <3>6, <4>1, <4>2, FrontType
      <4>4. QED BY <3>2, <3>8, <4>3
    <3>10. Ntohl(stream) = Len(text) /\ Rest(stream, 4) = Front(text, n-4)
      BY <3>6, <3>7, <3>8, <3>9, FrontOfFrame
    <3>11. want' = Len(text) /\ stream' = Front(text, n-4)
      BY <1>0, <1>4, <3>7, <3>8, <3>10 DEF ReadHdr, Smaller
    <3>12. n-4 \in 0..Len(text)
      BY <3>8, <3>9
    <3>13. BodyComing'
      BY <1>1, <3>11, <3>12 DEF BodyComing
    <3>14. QED BY <1>1, <3>1, <3>4, <3>13 DEF InSync, Quiet
  <2>2. trust' = trust
    BY <1>4 DEF ReadHdr
  <2>3. QED BY <1>3, <2>1, <2>2 DEF KeepsPlace, Gone
<1>5. CASE ReadHdrFail \/ ReadBodyFail
  <2>1. trust => call.op = "set"
    BY <1>0, <1>5 DEF InSync, ReadHdrFail, ReadBodyFail
  <2>2. trust' => trust
    BY <1>5 DEF ReadHdrFail, ReadBodyFail, Finish, Return
  <2>3. ~trust'
    BY <1>5, <2>1, <2>2, ShortReadFails
  <2>4. QED BY <1>3, <2>3, KeepsPlaceIs DEF KeepsPlace, Gone
<1>6. CASE ReadBody
  <2>1. ASSUME trust' PROVE InSync'
    <3>1. /\ trust /\ pc' = "idle"
          /\ ret' = Result(call, EndAt(Overwrite(Front(stream, want)), want))
      BY <1>6, <2>1 DEF ReadBody, Finish, Return
    <3>2. call.op = "set" /\ Quiet /\ BodyComing
      BY <1>0, <1>6, <3>1 DEF ReadBody, InSync
    <3>3. PICK text \in {ErrText, OkText(reg[call.reg])} : \E n \in 0..Len(text) :
            stream = Front(text, n) /\ want = Len(text)
      BY <3>2 DEF BodyComing
    <3>4. PICK n \in 0..Len(text) : stream = Front(text, n)
      BY <3>3
    <3>5. /\ text \in Seq(Byte) /\ Len(text) \in Nat /\ Len(text) <= RxCap
          /\ \A mem : Memory(mem) /\ Holds(mem, text) =>
               Result(call, mem) = Failed \/ Result(call, mem) = Done(reg[call.reg])
      <4>1. /\ text \in Seq(Byte) /\ Len(text) \in 1..RxCap
            /\ \A mem : Memory(mem) /\ Holds(mem, text) =>
                 Result(call, mem) = Failed \/ Result(call, mem) = Done(reg[call.reg])
        BY <1>0, <3>2, ComingIs
      <4>2. QED BY <1>0, <4>1
    <3>6. want \in 0..Len(stream) /\ Len(stream) = n
      BY <1>0, <1>6, <3>4, <3>5, ReadCountsType, FrontType DEF ReadBody
    <3>7. n = Len(text)
      BY <3>3, <3>5, <3>6
    <3>8. stream = text
      BY <3>4, <3>5, <3>7, SubSeqFull DEF Front
    <3>9. ret' = Done(reg[call.reg])
      <4>1. Front(stream, want) = text
        BY <3>3, <3>4, <3>7, <3>8
      <4>2. ret' # Failed
        BY <1>6, <2>1 DEF ReadBody, Finish, Return
      <4> DEFINE mem == EndAt(Overwrite(text), Len(text))
      <4>3. Memory(mem) /\ Holds(mem, text)
        BY <1>0, <3>5, ReadText
      <4>4. ret' = Result(call, mem)
        BY <3>1, <3>3, <4>1
      <4> HIDE DEF mem
      <4>5. QED BY <3>5, <4>2, <4>3, <4>4
    <3>10. stream' = <<>>
      <4>1. stream' = Rest(stream, Len(stream))
        BY <1>6, <3>3, <3>8 DEF ReadBody
      <4>2. Rest(stream, Len(stream)) \in Seq(Byte) /\ Len(Rest(stream, Len(stream))) = 0
        BY <1>0, <3>5, <3>8, RestType
      <4>3. QED BY <4>1, <4>2, EmptySeq
    <3>11. ReturnedIsActual'
      BY <1>1, <3>9 DEF ReturnedIsActual, Done
    <3>12. QED BY <1>1, <3>1, <3>2, <3>10, <3>11 DEF InSync, Quiet
  <2>2. QED BY <1>3, <2>1 DEF KeepsPlace, Gone
\* A careful caller does not read a negative length.
<1>7. CASE ReadBodyNegative
  <2>1. ~trust
    <3> SUFFICES ASSUME trust PROVE FALSE
      OBVIOUS
    <3>1. call.op = "set" /\ BodyComing
      BY <1>0, <1>7 DEF InSync, ReadBodyNegative
    <3>2. PICK text \in {ErrText, OkText(reg[call.reg])} : want = Len(text)
      BY <3>1 DEF BodyComing
    <3>3. Len(text) \in 1..RxCap
      BY <1>0, <3>1, ComingIs
    <3>4. QED BY <1>0, <1>7, <3>2, <3>3 DEF ReadBodyNegative
  <2>2. ~trust'
    BY <1>7, <2>1 DEF ReadBodyNegative, Finish, Return
  <2>3. QED BY <1>3, <2>2 DEF KeepsPlace, Gone
<1>8. QED BY <1>4, <1>5, <1>6, <1>7 DEF Reads

LEMMA QuietTail ==
  ASSUME reqs \in Seq(Requests), reqs # <<>>, reqs' = Tail(reqs),
         \A i \in 1..Len(reqs)-1 : reqs[i+1].op \in {"shutdown", "quit"}
  PROVE  Quiet'
<1>1. Len(reqs') = Len(reqs) - 1 /\ \A i \in 1..Len(reqs') : reqs'[i] = reqs[i+1]
  BY HeadTailProperties
<1>2. QED BY <1>1 DEF Quiet

\* What is on its way of an answer may be cut short.
LEMMA CutShort ==
  ASSUME reg \in RegVals, call \in Requests, call.op = "set",
         UNCHANGED <<reg, call, want>>,
         NEW m \in 0..Len(stream), stream' = Front(stream, m)
  PROVE  (HdrComing => HdrComing') /\ (BodyComing => BodyComing')
<1>1. ASSUME HdrComing PROVE HdrComing'
  <2>1. PICK text \in {ErrText, OkText(reg[call.reg])} : \E n \in 0..4+Len(text) :
          stream = Front(Frame(text), n)
    BY <1>1 DEF HdrComing
  <2>2. PICK n \in 0..4+Len(text) : stream = Front(Frame(text), n)
    BY <2>1
  <2>3. text \in Seq(Byte) /\ Len(text) \in 0..MaxInt
    BY ComingIs
  <2>4. Frame(text) \in Seq(Byte) /\ Len(Frame(text)) = 4 + Len(text)
    BY <2>3, FrameIs
  <2>5. n \in 0..Len(Frame(text))
    BY <2>4
  <2>6. m \in 0..n
    BY <2>2, <2>4, <2>5, FrontType
  <2>7. stream' = Front(Frame(text), m)
    BY <2>2, <2>4, <2>5, <2>6, FrontOfFront
  <2>8. m \in 0..4+Len(text)
    BY <2>3, <2>6
  <2>9. QED BY <2>7, <2>8 DEF HdrComing
<1>2. ASSUME BodyComing PROVE BodyComing'
  <2>1. PICK text \in {ErrText, OkText(reg[call.reg])} : \E n \in 0..Len(text) :
          stream = Front(text, n) /\ want = Len(text)
    BY <1>2 DEF BodyComing
  <2>2. PICK n \in 0..Len(text) : stream = Front(text, n)
    BY <2>1
  <2>3. text \in Seq(Byte) /\ Len(text) \in 0..MaxInt
    BY ComingIs
  <2>4. m \in 0..n
    BY <2>2, <2>3, FrontType
  <2>5. stream' = Front(text, m)
    BY <2>2, <2>3, <2>4, FrontOfFront
  <2>6. m \in 0..Len(text)
    BY <2>3, <2>4
  <2>7. QED BY <2>1, <2>5, <2>6 DEF BodyComing
<1>3. QED BY <1>1, <1>2

LEMMA ServeKeeps == TypeOK /\ KeepsPlace /\ QregdServe => KeepsPlace'
<1> SUFFICES ASSUME TypeOK, KeepsPlace, QregdServe PROVE KeepsPlace' OBVIOUS
<1>0. /\ Gone /\ (trust => InSync)
      /\ stream \in Seq(Byte) /\ reqs \in Seq(Requests) /\ reg \in RegVals
      /\ call \in Requests /\ pc \in {"idle", "hdr", "body"}
      /\ conn \in {"down", "up", "closed", "closing"}
  BY KeepsPlaceIs DEF TypeOK
<1>1. reqs # <<>> /\ UNCHANGED <<pc, call, want, rxbuf, ret, rdfail, trust, ncalls>>
  BY DEF QregdServe
<1>2. conn \in {"up", "closing"}
  BY <1>0, <1>1 DEF Gone
<1>3. Len(reqs) \in Nat /\ Len(reqs) >= 1 /\ Head(reqs) = reqs[1]
  BY <1>0, <1>1, HeadTailProperties, LenProperties, EmptySeq
<1>4. CASE QregdSet
  <2>1. Gone'
    BY <1>2, <1>4 DEF QregdSet, Reply, Gone
  <2>2. ASSUME trust PROVE InSync'
    <3>1. ~Quiet
      BY <1>3, <1>4 DEF QregdSet, Quiet
    <3>2. pc = "hdr" /\ call.op = "set" /\ Waiting
      BY <1>0, <2>2, <3>1 DEF InSync
    <3>3. Len(reqs) = 1 /\ Head(reqs) = call
      <4>1. 1 \notin 1..Len(reqs)-1
        BY <1>3, <1>4, <3>2 DEF QregdSet, Waiting
      <4>2. Len(reqs) = 1
        BY <1>3, <4>1
      <4>3. QED BY <1>3, <3>2, <4>2 DEF Waiting
    <3>4. Quiet'
      <4>1. \A i \in 1..Len(reqs)-1 : reqs[i+1].op \in {"shutdown", "quit"}
        BY <3>3
      <4>2. QED BY <1>0, <1>1, <1>4, <4>1, QuietTail DEF QregdSet
    <3>5. PICK text \in {ErrText, OkText(reg'[call.reg])} : Reply(text)
      <4>1. call.reg \in Regs
        BY <3>2, <1>0 DEF Requests
      <4>2. \A v : [reg EXCEPT ![call.reg] = v][call.reg] = v
        BY <1>0, <4>1 DEF RegVals
      <4>3. QED BY <1>0, <1>4, <3>3, <4>1, <4>2 DEF QregdSet
    <3>6. HdrComing'
      <4>1. CASE conn = "up"
        <5>1. text \in Seq(Byte) /\ Len(text) \in 0..MaxInt
          <6>1. call.reg \in Regs
            BY <3>2, <1>0 DEF Requests
          <6>2. reg' \in RegVals
            BY <1>0, <1>1, <1>4, RegServed
          <6>3. text \in AnswersTo(call.reg)
            BY <3>5, <6>1, <6>2, RegValsIs DEF AnswersTo
          <6>4. text \in Seq(Byte) /\ Len(text) \in 1..RxCap
            BY <6>1, <6>3, AnswerIs
          <6>5. QED BY <6>4, RxCapType, MaxIntType
        <5>2. Frame(text) \in Seq(Byte) /\ Len(Frame(text)) = 4 + Len(text)
          BY <5>1, FrameIs
        <5>3. stream' = Frame(text)
          <6>1. stream' = <<>> \o Frame(text)
            BY <3>2, <3>5, <4>1 DEF Reply, Waiting
          <6>2. QED BY <5>2, <6>1, ConcatEmptySeq
        <5>4. Front(Frame(text), 4 + Len(text)) = Frame(text)
          BY <5>2, SubSeqFull DEF Front
        <5>5. 4 + Len(text) \in 0..4+Len(text)
          BY <5>1
        <5>6. QED BY <1>1, <3>5, <5>3, <5>4, <5>5 DEF HdrComing
      <4>2. CASE conn # "up"
        BY <3>2, <3>5, <4>2, NothingHasCome DEF Reply, Waiting
      <4>3. QED BY <4>1, <4>2
    <3>7. QED BY <1>1, <3>2, <3>4, <3>6 DEF InSync
  <2>3. QED BY <1>1, <2>1, <2>2 DEF KeepsPlace, Gone
<1>5. CASE QregdCmd
  <2>1. Gone'
    BY <1>2, <1>5 DEF QregdCmd, Reply, Gone
  <2>2. ~trust
    <3> SUFFICES ASSUME trust PROVE FALSE
      OBVIOUS
    <3>1. ~Quiet
      BY <1>3, <1>5 DEF QregdCmd, Quiet
    <3>2. call.op = "set" /\ Waiting
      BY <1>0, <3>1 DEF InSync
    <3>3. 1 \notin 1..Len(reqs)-1
      BY <1>3, <1>5, <3>2 DEF QregdCmd, Waiting
    <3>4. Len(reqs) = 1
      <4> DEFINE m == Len(reqs)
      <4>1. m \in Nat /\ m >= 1 /\ 1 \notin 1..m-1
        BY <1>3, <3>3
      <4> HIDE DEF m
      <4>2. m = 1
        BY <4>1
      <4>3. QED BY <4>2 DEF m
    <3>5. QED BY <1>3, <1>5, <3>2, <3>4 DEF QregdCmd, Waiting
  <2>3. QED BY <1>1, <2>1, <2>2 DEF KeepsPlace, Gone
<1>6. CASE QregdStop
  <2>1. reqs' = <<>> /\ UNCHANGED <<stream, reg>>
    BY <1>6 DEF QregdStop
  <2>2. Gone'
    BY <1>0, <1>2, <1>6 DEF QregdStop, Gone
  <2>3. Quiet'
    BY <2>1 DEF Quiet
  <2>4. ASSUME trust PROVE InSync'
    <3>1. pc = "hdr" => HdrComing'
      <4>1. CASE stream = <<>>
        BY <2>1, <4>1, NothingHasCome
      <4>2. CASE stream # <<>> /\ pc = "hdr"
        BY <1>0, <1>1, <2>1, <2>4, <4>2 DEF InSync, Waiting, HdrComing
      <4>3. QED BY <4>1, <4>2
    <3>2. pc = "body" => BodyComing'
      BY <1>0, <1>1, <2>1, <2>4 DEF InSync, BodyComing
    <3>3. pc = "idle" => ReturnedIsActual'
      BY <1>0, <1>1, <2>1, <2>4 DEF InSync, ReturnedIsActual, SetReturned
    <3>4. QED BY <1>0, <1>1, <2>1, <2>3, <2>4, <3>1, <3>2, <3>3 DEF InSync
  <2>5. QED BY <1>1, <2>2, <2>4 DEF KeepsPlace, Gone
<1>7. QED BY <1>4, <1>5, <1>6 DEF QregdServe

LEMMA LossKeeps == TypeOK /\ KeepsPlace /\ ConnectionLost => KeepsPlace'
<1> SUFFICES ASSUME TypeOK, KeepsPlace, ConnectionLost PROVE KeepsPlace' OBVIOUS
<1>0. /\ Gone /\ (trust => InSync)
      /\ stream \in Seq(Byte) /\ reg \in RegVals /\ call \in Requests
      /\ pc \in {"idle", "hdr", "body"}
  BY KeepsPlaceIs DEF TypeOK
<1>1. PICK m \in 0..Len(stream) : stream' = Front(stream, m)
  <2>1. CASE conn = "up"
    BY <2>1 DEF ConnectionLost
  <2>2. CASE conn # "up"
    <3>1. stream' = Front(stream, Len(stream))
      BY <1>0, <2>2, SubSeqFull DEF ConnectionLost, Front
    <3>2. QED BY <1>0, <3>1, LenProperties
  <2>3. QED BY <2>1, <2>2
<1>2. /\ UNCHANGED <<reg, pc, call, want, rxbuf, ret, rdfail, trust, ncalls>> /\ reqs' = <<>>
      /\ conn \in {"up", "closing"} /\ conn' = IF conn = "up" THEN "closed" ELSE "down"
  BY DEF ConnectionLost
<1>3. stream = <<>> => stream' = <<>>
  <2>1. stream' \in Seq(Byte) /\ Len(stream') = m
    BY <1>0, <1>1, FrontType
  <2>2. stream = <<>> => m = 0
    BY <1>1
  <2>3. QED BY <2>1, <2>2, EmptySeq
<1>4. Gone'
  BY <1>0, <1>2, <1>3 DEF Gone
<1>5. Quiet'
  BY <1>2 DEF Quiet
<1>6. ASSUME trust PROVE InSync'
  <2>1. CASE pc = "idle"
    BY <1>0, <1>2, <1>3, <1>5, <1>6, <2>1 DEF InSync, ReturnedIsActual, SetReturned
  <2>2. CASE pc = "hdr"
    <3>1. call.op = "set" /\ (Waiting \/ HdrComing)
      BY <1>0, <1>6, <2>2 DEF InSync
    <3>2. HdrComing'
      <4>1. CASE Waiting
        BY <1>3, <4>1, NothingHasCome DEF Waiting
      <4>2. CASE HdrComing
        BY <1>0, <1>1, <1>2, <3>1, <4>2, CutShort
      <4>3. QED BY <3>1, <4>1, <4>2
    <3>3. QED BY <1>2, <1>5, <2>2, <3>1, <3>2 DEF InSync
  <2>3. CASE pc = "body"
    <3>1. call.op = "set" /\ BodyComing
      BY <1>0, <1>6, <2>3 DEF InSync
    <3>2. BodyComing'
      BY <1>0, <1>1, <1>2, <3>1, CutShort
    <3>3. QED BY <1>2, <1>5, <2>3, <3>1, <3>2 DEF InSync
  <2>4. QED BY <1>0, <2>1, <2>2, <2>3
<1>7. QED BY <1>2, <1>4, <1>6 DEF KeepsPlace, Gone

LEMMA PlaceInductive == TypeOK /\ KeepsPlace /\ [Next]_vars => KeepsPlace'
<1>1. ASSUME KeepsPlace, UNCHANGED vars PROVE KeepsPlace'
  BY <1>1 DEF vars, KeepsPlace, InSync, Quiet, Waiting, HdrComing, BodyComing,
              ReturnedIsActual, SetReturned
<1>2. QED BY <1>1, CallsKeep, ReadsKeep, ServeKeeps, LossKeeps DEF Next

(***************************************************************************)
(* A caller that does not go on after an error never loses its place in    *)
(* the stream, and what is left of a connection is gone with it, however   *)
(* reads stop and whenever the connection fails.                           *)
(***************************************************************************)
THEOREM PlaceIsKept == Spec => []KeepsPlace
<1>1. Init => KeepsPlace
  BY DEF Init, KeepsPlace
<1>2. QED BY <1>1, PlaceInductive, TypeCorrect, PTL DEF Spec

(***************************************************************************)
(* Such a caller may rely on every value a setter stores: it is what the   *)
(* hardware register holds.                                                *)
(***************************************************************************)
THEOREM TrustedValues == Spec => []TrustedIsActual
<1>1. KeepsPlace => TrustedIsActual
  BY DEF KeepsPlace, InSync, TrustedIsActual, ReturnedIsActual, SetReturned
<1>2. QED BY <1>1, PlaceIsKept, PTL

-----------------------------------------------------------------------------
(***************************************************************************)
(* No setter reports success after a read that got too little, although    *)
(* rd() (qregc.c:86) does not look at the error of rd_pkt(); and a caller  *)
(* that does not go on after an error sees every read that fails.          *)
(***************************************************************************)
THEOREM ReadFailureIsReported == Spec => []ReadFailureIsSeen
<1> USE DEF SetReturned
<1>0. Failed.code # QNICLL_ERR_NONE
  BY DEF Failed, QNICLL_ERR_NONE, QNICLL_ERR_BUG
<1>1. Init => ReadFailureIsSeen
  BY DEF Init, ReadFailureIsSeen
<1>2. TypeOK /\ KeepsPlace /\ ReadFailureIsSeen /\ [Next]_vars => ReadFailureIsSeen'
  <2> SUFFICES ASSUME TypeOK, KeepsPlace, ReadFailureIsSeen, [Next]_vars
               PROVE  ReadFailureIsSeen'
    OBVIOUS
  <2>1. CASE UNCHANGED vars
    BY <2>1 DEF vars, ReadFailureIsSeen
  <2>2. CASE Calls
    BY <2>2 DEF Calls, qregc_connect, qregc_set, qregc_set_checked, qregc_do_cmd,
                qregc_shutdown, qregc_disconnect, Enter, ReadFailureIsSeen
  <2>3. CASE ReadHdr
    BY <2>3 DEF ReadHdr, ReadFailureIsSeen
  <2>4. CASE ReadHdrFail \/ ReadBodyFail
    <3>1. UNCHANGED call /\ (trust' => trust) /\ pc \in {"hdr", "body"}
      BY <2>4 DEF ReadHdrFail, ReadBodyFail, Finish, Return
    <3>2. trust => call.op = "set"
      BY <3>1 DEF KeepsPlace, InSync
    <3>3. call.op = "set" => ret' = Failed /\ ~trust'
      BY <2>4, ShortReadFails
    <3>4. QED BY <1>0, <3>1, <3>2, <3>3 DEF ReadFailureIsSeen
  <2>5. CASE ReadBody
    BY <2>5 DEF ReadBody, Finish, ReadFailureIsSeen
  <2>6. CASE ReadBodyNegative
    <3>1. rdfail' = "length" /\ (trust' => trust) /\ pc = "body"
      BY <2>6 DEF ReadBodyNegative, Finish, Return
    <3>2. ASSUME trust PROVE FALSE
      <4>1. call.op = "set" /\ BodyComing
        BY <3>1, <3>2 DEF KeepsPlace, InSync
      <4>2. PICK text \in {ErrText, OkText(reg[call.reg])} : want = Len(text)
        BY <4>1 DEF BodyComing
      <4>3. Len(text) \in 1..RxCap
        BY <4>1, ComingIs, TypeIs
      <4>4. QED BY <2>6, <4>2, <4>3, RxCapType DEF ReadBodyNegative
    <3>3. QED BY <3>1, <3>2 DEF ReadFailureIsSeen
  <2>7. CASE QregdServe \/ ConnectionLost
    BY <2>7 DEF QregdServe, ConnectionLost, ReadFailureIsSeen
  <2>8. QED BY <2>1, <2>2, <2>3, <2>4, <2>5, <2>6, <2>7 DEF Next, Reads
<1>3. QED BY <1>1, <1>2, TypeCorrect, PlaceIsKept, PTL DEF Spec

=============================================================================
