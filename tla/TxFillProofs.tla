---------------------------- MODULE TxFillProofs ----------------------------
(***************************************************************************)
(* Proofs about qnicll_idx_t2p() and about the loops of tst.c that use it, *)
(* for patterns and buffers of any length.                                 *)
(***************************************************************************)
EXTENDS TxFill, TLAPS

USE DEF QNICLL_DATA_FORMAT_LIBIIO, QNICLL_DATA_FORMAT_PCI_HIRES, QNICLL_DATA_FORMAT_PCI_LORES

(***************************************************************************)
(* qnicll_idx_t2p() gives two samples two different places: in every       *)
(* format, channel and time can be told from the place.                    *)
(***************************************************************************)
THEOREM IdxInjective ==
  ASSUME NEW f \in Formats, NEW c \in {0, 1}, NEW d \in {0, 1}, NEW i \in Nat, NEW j \in Nat,
         qnicll_idx_t2p(f, c, i) = qnicll_idx_t2p(f, d, j)
  PROVE  c = d /\ i = j
<1>1. CASE f = QNICLL_DATA_FORMAT_LIBIIO
  BY <1>1 DEF qnicll_idx_t2p
<1>2. CASE f = QNICLL_DATA_FORMAT_PCI_HIRES
  BY <1>2 DEF qnicll_idx_t2p
<1>3. CASE f = QNICLL_DATA_FORMAT_PCI_LORES
  BY <1>3 DEF qnicll_idx_t2p
<1>4. QED BY <1>1, <1>2, <1>3 DEF Formats

(***************************************************************************)
(* In a buffer of whole groups, qnicll_idx_t2p() stays in the buffer.      *)
(***************************************************************************)
THEOREM IdxInBuffer ==
  ASSUME NEW f \in Formats, NEW c \in {0, 1}, NEW n \in Nat, n % Group(f) = 0,
         NEW j \in 0..n-1
  PROVE  qnicll_idx_t2p(f, c, j) \in 0..2*n-1
<1>1. CASE f = QNICLL_DATA_FORMAT_LIBIIO
  <2>1. qnicll_idx_t2p(f, c, j) = j * 2 + c
    BY <1>1 DEF qnicll_idx_t2p
  <2>2. QED BY <2>1
<1>2. CASE f = QNICLL_DATA_FORMAT_PCI_HIRES
  <2>1. qnicll_idx_t2p(f, c, j) = (j \div 4) * 8 + c * 4 + (j % 4)
    BY <1>2 DEF qnicll_idx_t2p
  <2>2. n % 4 = 0
    BY <1>2 DEF Group
  <2>3. QED BY <2>1, <2>2
<1>3. CASE f = QNICLL_DATA_FORMAT_PCI_LORES
  <2>1. qnicll_idx_t2p(f, c, j) = (j \div 8) * 16 + c * 8 + (j % 8)
    BY <1>3 DEF qnicll_idx_t2p
  <2>2. n % 8 = 0
    BY <1>3 DEF Group
  <2>3. QED BY <2>1, <2>2
<1>4. QED BY <1>1, <1>2, <1>3 DEF Formats

(***************************************************************************)
(* The inductive invariant: where the loops are, what they have written    *)
(* and what they have left alone.                                          *)
(***************************************************************************)
Position   == t = b * osamp + k /\ (b = PAT_LEN => k = 0) /\ (pushed => ~(b < PAT_LEN /\ t < tx_samps))
Written    == \A j \in 0..t-1 : tx_buf[qnicll_idx_t2p(fmt, 0, j)] = Level(pat[j \div osamp])
Untouched  == \A j \in 0..tx_samps-1 : tx_buf[qnicll_idx_t2p(fmt, 1, j)] = Unset
WholeGroups == tx_samps % Group(fmt) = 0

IInv == TypeOK /\ Position /\ Written /\ Untouched /\ WholeGroups

LEMMA GroupType == ASSUME NEW f \in Formats PROVE Group(f) \in {1, 4, 8}
BY DEF Formats, Group

LEMMA InitHolds == Init => IInv
<1> SUFFICES ASSUME Init PROVE IInv OBVIOUS
<1> USE TxFillAssumption DEF Init
<1>1. TypeOK
  <2>1. tx_samps \in Granted /\ tx_samps \in Nat
    OBVIOUS
  <2>2. tx_buf \in [Slots -> {Level(0), Level(1), Unset}]
    BY DEF Slots
  <2>3. pat \in [0..PAT_LEN-1 -> {0, 1}] /\ fmt \in Formats /\ pushed \in BOOLEAN
    OBVIOUS
  <2>4. b \in 0..PAT_LEN /\ k \in 0..osamp /\ t \in 0..tx_samps
    BY <2>1 DEF osamp
  <2>5. QED BY ONLY <2>1, <2>2, <2>3, <2>4 DEF TypeOK
<1>2. Position /\ Written /\ WholeGroups
  BY DEF Position, Written, WholeGroups, osamp
<1>3. Untouched
  <2> SUFFICES ASSUME NEW j \in 0..tx_samps-1
               PROVE  tx_buf[qnicll_idx_t2p(fmt, 1, j)] = Unset
    BY DEF Untouched
  <2>1. qnicll_idx_t2p(fmt, 1, j) \in Slots
    BY IdxInBuffer DEF Slots
  <2>2. QED BY <2>1
<1>4. QED BY <1>1, <1>2, <1>3 DEF IInv

LEMMA WriteKeeps == IInv /\ Write => IInv'
<1> SUFFICES ASSUME IInv, Write PROVE IInv' OBVIOUS
<1> USE TxFillAssumption
<1>1. /\ fmt \in Formats /\ tx_samps \in Nat /\ b \in 0..PAT_LEN-1 /\ k \in 0..osamp-1
      /\ t \in 0..tx_samps-1 /\ t = b * osamp + k /\ pat[b] \in {0, 1}
      /\ tx_samps % Group(fmt) = 0
  BY DEF IInv, TypeOK, Write, Looping, Position, WholeGroups, osamp
<1>2. Slot \in Slots
  BY <1>1, IdxInBuffer DEF Slot, Slots
<1>3. /\ tx_buf' = [tx_buf EXCEPT ![Slot] = Level(pat[b])] /\ t' = t + 1 /\ k' = k + 1
      /\ fmt' = fmt /\ tx_samps' = tx_samps /\ pat' = pat /\ b' = b /\ pushed' = pushed
      /\ ~pushed /\ b < PAT_LEN
  BY DEF Write, Looping
<1>4. TypeOK'
  <2>1. Level(pat[b]) \in {Level(0), Level(1), Unset}
    BY <1>1
  <2>2. Slots' = Slots
    BY <1>3 DEF Slots
  <2>3. tx_buf' \in [Slots -> {Level(0), Level(1), Unset}]
    BY <1>3, <2>1 DEF IInv, TypeOK
  <2>4. QED BY <1>1, <1>3, <2>2, <2>3 DEF IInv, TypeOK, osamp
<1>5. Position'
  BY <1>1, <1>3 DEF Position, osamp
<1>6. Written'
  <2> SUFFICES ASSUME NEW j \in 0..t
               PROVE  tx_buf'[qnicll_idx_t2p(fmt, 0, j)] = Level(pat[j \div osamp])
    BY <1>1, <1>3 DEF Written
  <2>1. CASE j = t
    <3>1. j \div osamp = b
      BY <1>1, <2>1 DEF osamp
    <3>2. QED BY <1>2, <1>3, <2>1, <3>1 DEF Slot, IInv, TypeOK
  <2>2. CASE j # t
    <3>1. qnicll_idx_t2p(fmt, 0, j) # Slot
      BY <1>1, <2>2, IdxInjective DEF Slot
    <3>2. qnicll_idx_t2p(fmt, 0, j) \in Slots
      BY <1>1, IdxInBuffer DEF Slots
    <3>3. tx_buf[qnicll_idx_t2p(fmt, 0, j)] = Level(pat[j \div osamp])
      BY <1>1, <2>2 DEF IInv, Written
    <3>4. QED BY <1>3, <3>1, <3>2, <3>3 DEF IInv, TypeOK
  <2>3. QED BY <2>1, <2>2
<1>7. Untouched'
  <2> SUFFICES ASSUME NEW j \in 0..tx_samps-1
               PROVE  tx_buf'[qnicll_idx_t2p(fmt, 1, j)] = Unset
    BY <1>3 DEF Untouched, Unset
  <2>1. qnicll_idx_t2p(fmt, 1, j) # Slot
    BY <1>1, IdxInjective DEF Slot
  <2>2. qnicll_idx_t2p(fmt, 1, j) \in Slots
    BY <1>1, IdxInBuffer DEF Slots
  <2>3. QED BY <1>3, <2>1, <2>2 DEF IInv, TypeOK, Untouched
<1>8. WholeGroups'
  BY <1>1, <1>3 DEF WholeGroups
<1>9. QED BY <1>4, <1>5, <1>6, <1>7, <1>8 DEF IInv

LEMMA NextBitKeeps == IInv /\ NextBit => IInv'
<1> SUFFICES ASSUME IInv, NextBit PROVE IInv' OBVIOUS
<1> USE TxFillAssumption DEF IInv, NextBit, Looping
<1>1. TypeOK'
  BY DEF TypeOK, Slots, osamp
<1>2. Position'
  BY DEF TypeOK, Position, osamp
<1>3. Written' /\ Untouched' /\ WholeGroups'
  BY DEF Written, Untouched, WholeGroups
<1>4. QED BY <1>1, <1>2, <1>3

LEMMA PushKeeps == IInv /\ (Push \/ UNCHANGED vars) => IInv'
<1> SUFFICES ASSUME IInv, Push \/ UNCHANGED vars PROVE IInv' OBVIOUS
<1> USE DEF IInv
<1>1. UNCHANGED <<fmt, tx_samps, pat, b, k, t, tx_buf>>
  BY DEF Push, vars
<1>2. pushed' = pushed \/ (pushed' = TRUE /\ ~(b < PAT_LEN /\ t < tx_samps))
  BY DEF Push, Looping, vars
<1>3. TypeOK'
  BY <1>1, <1>2 DEF TypeOK, Slots
<1>4. Position'
  BY <1>1, <1>2 DEF Position
<1>5. Written' /\ Untouched' /\ WholeGroups'
  BY <1>1 DEF Written, Untouched, WholeGroups
<1>6. QED BY <1>3, <1>4, <1>5

LEMMA Inductive == Spec => []IInv
<1>1. IInv /\ [Next]_vars => IInv'
  BY WriteKeeps, NextBitKeeps, PushKeeps DEF Next
<1>2. QED BY <1>1, InitHolds, PTL DEF Spec

(***************************************************************************)
(* Type correctness: among others, the loops never count past the pattern, *)
(* the oversampling factor or the granted size.                            *)
(***************************************************************************)
THEOREM TxFillTyped == Spec => []TypeOK
<1>1. IInv => TypeOK
  BY DEF IInv
<1>2. QED BY <1>1, Inductive, PTL

(***************************************************************************)
(* For patterns and buffers of any length, the loops of tst.c write only   *)
(* inside the buffer.                                                      *)
(***************************************************************************)
THEOREM TxFillInBounds == Spec => []InBounds
<1>1. IInv => InBounds
  <2> SUFFICES ASSUME IInv, Looping PROVE Slot \in Slots
    BY DEF InBounds
  <2>1. fmt \in Formats /\ tx_samps \in Nat /\ t \in 0..tx_samps-1 /\ tx_samps % Group(fmt) = 0
    BY TxFillAssumption DEF IInv, TypeOK, Looping, WholeGroups
  <2>2. QED BY <2>1, IdxInBuffer DEF Slot, Slots
<1>2. QED BY <1>1, Inductive, PTL

(***************************************************************************)
(* For patterns and buffers of any length, what tst.c pushes is the        *)
(* pattern, oversampled, with no phase overwritten.                        *)
(***************************************************************************)
THEOREM TxFillPatternSent == Spec => []PatternSent
<1>1. IInv => PatternSent
  <2> SUFFICES ASSUME IInv, pushed PROVE PatternSent
    BY DEF PatternSent
  <2>1. \A j \in 0..tx_samps-1 : j < PAT_LEN * osamp => j \in 0..t-1
    BY TxFillAssumption DEF IInv, TypeOK, Position, osamp
  <2>2. QED BY <2>1 DEF IInv, Written, Untouched, PatternSent
<1>2. QED BY <1>1, Inductive, PTL

=============================================================================
