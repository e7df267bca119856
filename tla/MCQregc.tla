------------------------------ MODULE MCQregc ------------------------------
(***************************************************************************)
(* Values for model-checking Qregc: a register of each kind of setter,     *)
(* numerals of one and of more characters, and replies to raw commands     *)
(* that look like a value, are an error report or plain text, are longer   *)
(* than rxbuf, or have a length of which a byte has its top bit set.       *)
(***************************************************************************)
EXTENDS Qregc

MCVals == [r \in Regs |->
  IF r \in DoubleRegs THEN {<<49, 46, 53>>}            \* 1.5
                      ELSE {<<55>>, <<49, 50>>}]       \* 7 and 12

MCNumber    == <<48, 32, 57>>                         \* "0 9"
MCErrReport == <<45, 51, 9, 120>>                     \* "-3" TAB "x"

\* For an rxbuf of six bytes: "0 xxxx" fills it, "xxxx" is then taken for a length,
\* and what follows for a text: "0 7" with three bytes of the next length, which
\* leaves the fourth, or "0 9" with spaces, which leaves a byte that is not ASCII.
MCTwice  == <<48, 32, 120, 120, 120, 120>> \o <<120, 120, 120, 120>> \o <<48, 32, 55>>
MCThrice == Front(MCTwice, 10) \o <<48, 32, 57, 32, 32, 32>> \o <<181>>
\* 128 bytes: the last byte of their length has its top bit set.
MCHuge   == [i \in 1..128 |-> 120]

MCShortTexts == {MCNumber, MCErrReport}
MCLongTexts  == {MCThrice}
MCHugeTexts  == {MCTwice, MCHuge}

=============================================================================
