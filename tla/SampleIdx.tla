----------------------------- MODULE SampleIdx -----------------------------
(***************************************************************************)
(* qnicll_idx_t2p(): where the sample of channel ch at time t_idx is in a  *)
(* buffer, in the data formats of qnicll.h.  Indices are natural, so C's   *)
(* division and remainder are \div and %.                                  *)
(***************************************************************************)
EXTENDS Integers

QNICLL_DATA_FORMAT_LIBIIO    == 1
QNICLL_DATA_FORMAT_PCI_HIRES == 2
QNICLL_DATA_FORMAT_PCI_LORES == 3

Formats == {QNICLL_DATA_FORMAT_LIBIIO, QNICLL_DATA_FORMAT_PCI_HIRES,
            QNICLL_DATA_FORMAT_PCI_LORES}

\* The next definition with a plausible slip: the groups of PCI_LORES too far apart
Slip_idx_t2p(format, ch, t_idx) ==
  CASE format = QNICLL_DATA_FORMAT_LIBIIO    -> t_idx * 2 + ch
    [] format = QNICLL_DATA_FORMAT_PCI_HIRES -> (t_idx \div 4) * 8 + ch * 4 + (t_idx % 4)
    [] format = QNICLL_DATA_FORMAT_PCI_LORES -> (t_idx \div 8) * 32 + ch * 8 + (t_idx % 8)
    [] OTHER -> 0

qnicll_idx_t2p(format, ch, t_idx) ==
  CASE format = QNICLL_DATA_FORMAT_LIBIIO    -> t_idx * 2 + ch
    [] format = QNICLL_DATA_FORMAT_PCI_HIRES -> (t_idx \div 4) * 8 + ch * 4 + (t_idx % 4)
    [] format = QNICLL_DATA_FORMAT_PCI_LORES -> (t_idx \div 8) * 16 + ch * 8 + (t_idx % 8)
    [] OTHER -> 0

\* Samples of one channel that are next to each other; a buffer that holds a
\* number of samples that is no multiple of it ends in the middle of a group.
Group(format) ==
  CASE format = QNICLL_DATA_FORMAT_PCI_HIRES -> 4
    [] format = QNICLL_DATA_FORMAT_PCI_LORES -> 8
    [] OTHER -> 1

=============================================================================
