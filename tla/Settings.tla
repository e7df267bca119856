------------------------------ MODULE Settings ------------------------------
(***************************************************************************)
(* The settings of qnicll.c and its descriptions of errors.  A setting is  *)
(* passed on to qregc.c, or to qna.c, which at this commit only prints the *)
(* command.  The library keeps a mode and the source of the probe beside   *)
(* what the hardware has, and two texts: errmsg_ll, where qregc.c says     *)
(* what went wrong, and errmsg, which qnicll_error_desc() returns.         *)
(*                                                                         *)
(* A call is one step here.  What qregc.c may answer is taken from QregApi *)
(* and from the theorem TrustedValues of QregcProofs: until a call failed  *)
(* or a raw command was given, a success comes with the register's value;  *)
(* after that nothing is known of the answers.                             *)
(***************************************************************************)
EXTENDS Naturals

CONSTANTS
  Direct,     (* setters that return what qregc.c returns, as it is         *)
  Described,  (* setters that go through DO                                 *)
  Diagnosed,  (* functions that find an error themselves and use RBUG       *)
  Whys        (* texts of qregc.c, its own and those of qregd's reports     *)

None   == "none"                        \* the empty string
NoText == [fn |-> None, why |-> None]   \* the errmsg of a static qnicll_state_t

ASSUME SettingsAssumption == None \notin Whys

QNICLL_ERR_NONE   == 0
QNICLL_ERR_MISUSE == 1
QNICLL_ERR_BUG    == 2

QNICLL_MODE_QUERRY        == 0
QNICLL_MODE_CDM           == 1
QNICLL_MODE_MEAS_NOISE    == 2
QNICLL_MODE_LINK_LOOPBACK == 3
QNICLL_MODE_QSDC          == 4      \* not implemented

QNICLL_DATASRC_LFSR      == 1
QNICLL_DATASRC_CUSTOM    == 2
QNICLL_DATASRC_TRNG_ALG1 == 3       \* not implemented

VARIABLES
  st,         (* mode and probe_datasrc of qnicll_state_t                   *)
  errmsg,     (* st.errmsg: the function it names, and the reason           *)
  errmsg_ll,  (* st.errmsg_ll                                               *)
  lfsr,       (* the register "lfsr_en"                                     *)
  last,       (* the last call and what it returned                         *)
  failed,     (* history: how many calls failed (2: two or more), and which *)
              (* was the first, with the reason it was given                *)
  astray,     (* history: a call of qregc.c failed, or a raw command was    *)
              (* given, so that the answers of qregc.c may be wrong         *)
  refused     (* history: qnicll_set_probe_datasrc() failed after its last  *)
              (* success                                                    *)

vars == <<st, errmsg, errmsg_ll, lfsr, last, failed, astray, refused>>

Init ==
  /\ st = [mode |-> QNICLL_MODE_QUERRY, probe_datasrc |-> 0]
  /\ errmsg = NoText
  /\ errmsg_ll = None
  /\ lfsr \in {0, 1}
  /\ last = [fn |-> None, code |-> QNICLL_ERR_NONE]
  /\ failed = [n |-> 0, fn |-> None, why |-> None]
  /\ astray = FALSE
  /\ refused = FALSE

-----------------------------------------------------------------------------
(* What a call returns, and what it leaves of texts. *)

\* What a function of qregc.c returns, and the text it left, if any.  An ignored
\* write error leaves one in a call that succeeds all the same.
QregcOutcomes ==
  [code : {QNICLL_ERR_NONE}, why : {None} \cup IF astray THEN Whys ELSE {}]
    \cup [code : {QNICLL_ERR_BUG}, why : Whys]

\* err_fn is ll_err()
LlErr(o) == errmsg_ll' = IF o.why = None THEN errmsg_ll ELSE o.why

\* fn returns code; why is the reason its callee, or the function itself, had
Returns(fn, code, why) ==
  /\ last' = [fn |-> fn, code |-> code]
  /\ \/ code = QNICLL_ERR_NONE /\ failed' = failed
     \/ /\ code # QNICLL_ERR_NONE
        /\ failed' = IF failed.n = 0 THEN [n |-> 1, fn |-> fn, why |-> why]
                                    ELSE [failed EXCEPT !.n = 2]

Desc(fn, why) == [fn |-> fn, why |-> why]

Slip_DO(fn, o) == errmsg' = Desc(fn, errmsg_ll)

\* DO: the text of the callee is copied when the callee failed
DO(fn, o) ==
  errmsg' = IF o.code = QNICLL_ERR_NONE THEN errmsg ELSE Desc(fn, errmsg_ll')

-----------------------------------------------------------------------------
(* The functions of qnicll.h. *)

\* return qregc_set_...(), as in qnicll_set_probe_qty()
SetDirect(fn) ==
  /\ \E o \in QregcOutcomes :
       /\ LlErr(o)
       /\ Returns(fn, o.code, o.why)
       /\ astray' = (astray \/ o.code # QNICLL_ERR_NONE)
  /\ UNCHANGED <<st, errmsg, lfsr, refused>>

\* DO(qregc_set_...()), as in qnicll_set_rx_voa_atten_dB().  The function runs
\* off its end after DO; what it returns then is the 0 that DO has just tested.
SetDescribed(fn) ==
  /\ \E o \in QregcOutcomes :
       /\ LlErr(o)
       /\ DO(fn, o)
       /\ Returns(fn, o.code, o.why)
       /\ astray' = (astray \/ o.code # QNICLL_ERR_NONE)
  /\ UNCHANGED <<st, lfsr, refused>>

\* An empty command is not sent.
qnicll_do_qna_cmd ==
  /\ \/ /\ Returns("do_qna_cmd", QNICLL_ERR_NONE, None)
        /\ UNCHANGED <<errmsg, errmsg_ll, astray>>
     \/ \E o \in QregcOutcomes \cup [code : {QNICLL_ERR_NONE}, why : Whys] :
          /\ LlErr(o)
          /\ DO("do_qna_cmd", o)
          /\ Returns("do_qna_cmd", o.code, o.why)
          /\ astray' = TRUE
  /\ UNCHANGED <<st, lfsr, refused>>

\* qregc_set_use_lfsr(): whether or not the answer arrives, the register has
\* one value or the other, and the answer is that value unless it went astray.
UseLfsr(r) == /\ lfsr' \in {0, 1}
              /\ astray \/ r = lfsr'

Slip_SourceGranted(q, r) == TRUE

SourceGranted(q, r) == r = q

SourceSet(datasrc, q) ==
  \/ \E r \in {0, 1} :                                     \* e = 0
       /\ UseLfsr(r)
       /\ \/ /\ SourceGranted(q, r)
             /\ st' = [st EXCEPT !.probe_datasrc = datasrc]
             /\ Returns("set_probe_datasrc", QNICLL_ERR_NONE, None)
             /\ refused' = FALSE
          \/ /\ ~SourceGranted(q, r)
             /\ UNCHANGED st
             /\ Returns("set_probe_datasrc", QNICLL_ERR_BUG, "not_granted")
             /\ refused' = TRUE
       /\ \E o \in QregcOutcomes : o.code = QNICLL_ERR_NONE /\ LlErr(o)
       /\ UNCHANGED <<errmsg, astray>>
  \/ \E o \in QregcOutcomes :                              \* return e
       /\ o.code # QNICLL_ERR_NONE
       /\ LlErr(o)
       /\ lfsr' \in {0, 1}
       /\ Returns("set_probe_datasrc", o.code, o.why)
       /\ refused' = TRUE
       /\ astray' = TRUE
       /\ UNCHANGED <<st, errmsg>>

qnicll_set_probe_datasrc ==
  \/ SourceSet(QNICLL_DATASRC_LFSR, 1)
  \/ SourceSet(QNICLL_DATASRC_CUSTOM, 0)
  \/ /\ Returns("set_probe_datasrc", QNICLL_ERR_MISUSE, "unsupported_source")
     /\ UNCHANGED <<st, errmsg, errmsg_ll, lfsr, astray, refused>>

Slip_set_mode(mode) ==
  /\ st' = [st EXCEPT !.mode = mode]
  /\ Returns("set_mode", QNICLL_ERR_NONE, None)
  /\ UNCHANGED <<errmsg, errmsg_ll, lfsr, astray, refused>>

\* The commands for the switches and the attenuator go to qna.c, which prints
\* them and leaves the integers as they are.  What it returns is not looked at.
qnicll_set_mode(mode) ==
  /\ IF mode \in {QNICLL_MODE_CDM, QNICLL_MODE_MEAS_NOISE, QNICLL_MODE_LINK_LOOPBACK}
       THEN /\ st' = [st EXCEPT !.mode = mode]
            /\ Returns("set_mode", QNICLL_ERR_NONE, None)
            /\ UNCHANGED errmsg
       ELSE /\ errmsg' = Desc("set_mode", "unsupported_mode")      \* RUSE
            /\ Returns("set_mode", QNICLL_ERR_MISUSE, "unsupported_mode")
            /\ UNCHANGED st
  /\ UNCHANGED <<errmsg_ll, lfsr, astray, refused>>

\* do_cmd() of qna.c runs off its end after a printf() of "QNA: rxefpc 0", the
\* newline of the command and its own: in a build without optimisation it
\* returns their number, which do_cmd_get_int() takes for an error.
Printed == 15

qnicll_set_rxq_polctl_setting_idx ==
  /\ Returns("set_rxq_polctl_setting_idx", Printed, None)
  /\ UNCHANGED <<st, errmsg, errmsg_ll, lfsr, astray, refused>>

\* Functions with an RBUG of their own, as qnicll_get_free_tx_buf()
Diagnose(fn) ==
  /\ \/ Returns(fn, QNICLL_ERR_NONE, None) /\ UNCHANGED errmsg
     \/ /\ errmsg' = Desc(fn, "diagnosis")                         \* RBUG
        /\ Returns(fn, QNICLL_ERR_BUG, "diagnosis")
  /\ UNCHANGED <<st, errmsg_ll, lfsr, astray, refused>>

\* Functions with a fixed answer: the sample rate, the modulation, the formats,
\* qnicll_get_settings()
Query ==
  /\ Returns("query", QNICLL_ERR_NONE, None)
  /\ UNCHANGED <<st, errmsg, errmsg_ll, lfsr, astray, refused>>

\* qregd serves the request of a call that was given up.
LateService ==
  /\ astray
  /\ lfsr' \in {0, 1}
  /\ UNCHANGED <<st, errmsg, errmsg_ll, last, failed, astray, refused>>

Next ==
  \/ \E fn \in Direct : SetDirect(fn)
  \/ \E fn \in Described : SetDescribed(fn)
  \/ \E fn \in Diagnosed : Diagnose(fn)
  \/ qnicll_do_qna_cmd
  \/ qnicll_set_probe_datasrc
  \/ \E mode \in QNICLL_MODE_QUERRY..QNICLL_MODE_QSDC : qnicll_set_mode(mode)
  \/ qnicll_set_rxq_polctl_setting_idx
  \/ Query
  \/ LateService

Spec == Init /\ [][Next]_vars

-----------------------------------------------------------------------------
(* Properties. *)

Functions ==
  Direct \cup Described \cup Diagnosed \cup
    {"do_qna_cmd", "set_probe_datasrc", "set_mode", "set_rxq_polctl_setting_idx", "query"}

Reasons ==
  Whys \cup {None, "not_granted", "unsupported_source", "unsupported_mode", "diagnosis"}

Codes == {QNICLL_ERR_NONE, QNICLL_ERR_MISUSE, QNICLL_ERR_BUG, Printed}

\* Types: the mode and the source are implemented ones, a text names a function
\* of the library, and of the codes only the number of printed characters is not
\* one of QNICLL_ERR_*.
TypeOK ==
  /\ st \in [mode : 0..QNICLL_MODE_LINK_LOOPBACK, probe_datasrc : 0..QNICLL_DATASRC_CUSTOM]
  /\ errmsg \in {NoText} \cup
       [fn : Functions, why : Whys \cup {"unsupported_mode", "diagnosis"}]
  /\ errmsg_ll \in Whys \cup {None}
  /\ lfsr \in {0, 1}
  /\ last \in [fn : Functions \cup {None}, code : Codes]
  /\ failed \in [n : 0..2, fn : Functions \cup {None}, why : Reasons]
  /\ astray \in BOOLEAN /\ refused \in BOOLEAN

\* The first call that fails is described by no text or by its own, with the
\* reason it failed for: nothing that went on before, no call that succeeded and
\* no error that was passed over, has left a text it could be mistaken for.
\* (A program that stops at its first error, as with C of tst.c:36, prints it.)
FirstErrorDescribed ==
  failed.n = 1 => errmsg \in {NoText, Desc(failed.fn, failed.why)}

\* What the library remembers of the source of the probe is what the hardware
\* does, through any other calls, refused and unsupported sources and failures
\* later made good, as long as the answers of qregc.c can be relied on and the
\* last attempt to set the source was not refused.
SourceKnown ==
  ~astray /\ ~refused /\ st.probe_datasrc # 0 =>
    lfsr = IF st.probe_datasrc = QNICLL_DATASRC_LFSR THEN 1 ELSE 0

=============================================================================
