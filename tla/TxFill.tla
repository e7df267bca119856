------------------------------- MODULE TxFill -------------------------------
(***************************************************************************)
(* tst.c, when the probe is not made by the LFSR: the loops that write the *)
(* pattern into the transmit buffer, each bit osamp times, through         *)
(* qnicll_idx_t2p().  "should work regardless of fmt", says tst.c:187, so  *)
(* the format is any of the three, not only the one that                   *)
(* qnicll_set_probe_tx_format() answers.                                   *)
(***************************************************************************)
EXTENDS SampleIdx

CONSTANTS
  PAT_LEN,  (* bits in the pattern                                           *)
  Granted   (* sizes qnicll_set_tx_buf_sz_samps() may grant, rounded to quads *)

ASSUME TxFillAssumption ==
  /\ PAT_LEN \in Nat
  /\ Granted \subseteq {n \in Nat : n % 4 = 0}

osamp   == 4                    \* qnicll_set_probe_tx_modulation()
Level(bit) == (bit * 2 - 1) * 16384
Unset   == 1                    \* what no write of the loops leaves

VARIABLES
  fmt, tx_samps, pat,  (* what the loops run on                              *)
  b, k, t,             (* bit, repetition of it, temporal index              *)
  tx_buf,              (* the short ints of the buffer, two to a sample      *)
  pushed               (* the loops are over, the buffer goes to the FPGA    *)

vars == <<fmt, tx_samps, pat, b, k, t, tx_buf, pushed>>

Slots == 0..2*tx_samps-1

Init ==
  /\ fmt \in Formats
  /\ tx_samps \in {n \in Granted : n % Group(fmt) = 0}
  /\ pat \in [0..PAT_LEN-1 -> {0, 1}]
  /\ b = 0 /\ k = 0 /\ t = 0
  /\ tx_buf = [p \in Slots |-> Unset]
  /\ pushed = FALSE

\* A definition called Slip_... is the next one with a plausible slip in it; the
\* properties below are tried on the model with the slip, too.  Here: the limit
\* of the buffer is forgotten.
Slip_Looping == ~pushed /\ b < PAT_LEN

\* The condition of the outer loop holds, and the inner loop was entered.
Looping == ~pushed /\ b < PAT_LEN /\ t < tx_samps

Slot == qnicll_idx_t2p(fmt, 0, t)

Write ==
  /\ Looping /\ k < osamp
  /\ tx_buf' = [tx_buf EXCEPT ![Slot] = Level(pat[b])]
  /\ t' = t + 1
  /\ k' = k + 1
  /\ UNCHANGED <<fmt, tx_samps, pat, b, pushed>>

\* k is not reset
Slip_NextBit ==
  /\ Looping /\ k = osamp
  /\ b' = b + 1
  /\ UNCHANGED <<fmt, tx_samps, pat, k, t, tx_buf, pushed>>

NextBit ==
  /\ Looping /\ k = osamp
  /\ b' = b + 1
  /\ k' = 0
  /\ UNCHANGED <<fmt, tx_samps, pat, t, tx_buf, pushed>>

Push ==
  /\ ~pushed /\ ~Looping
  /\ pushed' = TRUE
  /\ UNCHANGED <<fmt, tx_samps, pat, b, k, t, tx_buf>>

Next == Write \/ NextBit \/ Push

Spec == Init /\ [][Next]_vars

-----------------------------------------------------------------------------
(***************************************************************************)
(* The type invariant: among others, the loop variables of tst.c stay in   *)
(* the pattern and in the buffer.                                          *)
(***************************************************************************)
TypeOK ==
  /\ fmt \in Formats
  /\ tx_samps \in Granted
  /\ pat \in [0..PAT_LEN-1 -> {0, 1}]
  /\ b \in 0..PAT_LEN
  /\ k \in 0..osamp
  /\ t \in 0..tx_samps
  /\ tx_buf \in [Slots -> {Level(0), Level(1), Unset}]
  /\ pushed \in BOOLEAN

(***************************************************************************)
(* The loops of tst.c stay in the buffer: as long as they run, the slot    *)
(* that qnicll_idx_t2p() gives is one of the buffer's.                     *)
(***************************************************************************)
InBounds == Looping /\ k < osamp => Slot \in Slots

(***************************************************************************)
(* What tst.c pushes is the pattern: the sample at every time has the      *)
(* intensity of the bit it belongs to, as far as pattern and buffer reach, *)
(* and no phase was overwritten on the way.                                *)
(***************************************************************************)
PatternSent ==
  pushed =>
    /\ \A j \in 0..tx_samps-1 :
         j < PAT_LEN * osamp =>
           tx_buf[qnicll_idx_t2p(fmt, 0, j)] = Level(pat[j \div osamp])
    /\ \A j \in 0..tx_samps-1 : tx_buf[qnicll_idx_t2p(fmt, 1, j)] = Unset

=============================================================================
