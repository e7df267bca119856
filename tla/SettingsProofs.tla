--------------------------- MODULE SettingsProofs ---------------------------
(***************************************************************************)
(* Theorems about Settings: its types, what the library remembers of the   *)
(* source of the probe, and what it says of the first error.               *)
(***************************************************************************)
EXTENDS Settings, TLAPS

\* Before the first failure there is no description.
NoErrorNoText == failed.n = 0 => errmsg = NoText

IInv == TypeOK /\ NoErrorNoText /\ FirstErrorDescribed /\ SourceKnown

-----------------------------------------------------------------------------
(* Lemmas. *)

LEMMA OutcomeType ==
  ASSUME NEW o \in QregcOutcomes \cup [code : {QNICLL_ERR_NONE}, why : Whys]
  PROVE  /\ o.code \in {QNICLL_ERR_NONE, QNICLL_ERR_BUG}
         /\ o.why \in Whys \cup {None}
         /\ o.code # QNICLL_ERR_NONE => o.why \in Whys
  BY DEF QregcOutcomes, QNICLL_ERR_NONE, QNICLL_ERR_BUG

LEMMA LlErrType ==
  ASSUME TypeOK, NEW o \in QregcOutcomes \cup [code : {QNICLL_ERR_NONE}, why : Whys],
         LlErr(o)
  PROVE  /\ errmsg_ll' \in Whys \cup {None}
         /\ o.code # QNICLL_ERR_NONE => errmsg_ll' = o.why
  BY OutcomeType, SettingsAssumption DEF LlErr, TypeOK

LEMMA ReturnsType ==
  ASSUME TypeOK, NEW fn \in Functions, NEW code \in Codes, NEW why \in Reasons,
         Returns(fn, code, why)
  PROVE  /\ last' \in [fn : Functions \cup {None}, code : Codes]
         /\ failed' \in [n : 0..2, fn : Functions \cup {None}, why : Reasons]
  BY DEF Returns, TypeOK

\* What a call leaves of descriptions is as it should be when it has failed with
\* its own text, or has left the text alone.
LEMMA ReturnsDescribed ==
  ASSUME TypeOK, NoErrorNoText, FirstErrorDescribed,
         NEW fn, NEW code, NEW why, Returns(fn, code, why),
         \/ errmsg' = errmsg
         \/ code # QNICLL_ERR_NONE /\ errmsg' = Desc(fn, why)
  PROVE  NoErrorNoText' /\ FirstErrorDescribed'
  BY DEF Returns, TypeOK, NoErrorNoText, FirstErrorDescribed

\* A step keeps SourceKnown when it keeps the source and the register and does
\* not turn the answers reliable again.
LEMMA SourceKept ==
  ASSUME SourceKnown, lfsr' = lfsr, st'.probe_datasrc = st.probe_datasrc,
         refused' = refused, astray => astray'
  PROVE  SourceKnown'
  BY DEF SourceKnown

-----------------------------------------------------------------------------
(* One lemma for each kind of step. *)

LEMMA CodesType == {QNICLL_ERR_NONE, QNICLL_ERR_MISUSE, QNICLL_ERR_BUG, Printed} \subseteq Codes
  BY DEF Codes

LEMMA InitHolds == Init => IInv
<1> SUFFICES ASSUME Init PROVE IInv
  OBVIOUS
<1>1. st \in [mode : 0..QNICLL_MODE_LINK_LOOPBACK, probe_datasrc : 0..QNICLL_DATASRC_CUSTOM]
  BY DEF Init, QNICLL_MODE_QUERRY, QNICLL_MODE_LINK_LOOPBACK, QNICLL_DATASRC_CUSTOM
<1>2. failed \in [n : 0..2, fn : Functions \cup {None}, why : Reasons]
  BY DEF Init, Reasons
<1>3. last \in [fn : Functions \cup {None}, code : Codes]
  BY CodesType DEF Init
<1>4. TypeOK
  BY <1>1, <1>2, <1>3 DEF Init, TypeOK
<1>5. NoErrorNoText /\ FirstErrorDescribed /\ SourceKnown
  BY DEF Init, NoErrorNoText, FirstErrorDescribed, SourceKnown
<1> QED BY <1>4, <1>5 DEF IInv

LEMMA DirectKeeps ==
  ASSUME IInv, NEW fn \in Direct, SetDirect(fn)
  PROVE  IInv'
<1> USE DEF IInv
<1>1. PICK o \in QregcOutcomes :
        /\ LlErr(o) /\ Returns(fn, o.code, o.why)
        /\ astray' = (astray \/ o.code # QNICLL_ERR_NONE)
  BY DEF SetDirect
<1>2. UNCHANGED <<st, errmsg, lfsr, refused>>
  BY DEF SetDirect
<1>3. fn \in Functions /\ o.code \in Codes /\ o.why \in Reasons
  BY OutcomeType, CodesType DEF Functions, Reasons
<1>4. TypeOK'
  <2>1. errmsg_ll' \in Whys \cup {None}
    BY <1>1, LlErrType
  <2>2. /\ last' \in [fn : Functions \cup {None}, code : Codes]
        /\ failed' \in [n : 0..2, fn : Functions \cup {None}, why : Reasons]
    BY <1>1, <1>3, ReturnsType
  <2> QED BY <1>1, <1>2, <2>1, <2>2 DEF TypeOK
<1>5. NoErrorNoText' /\ FirstErrorDescribed'
  BY <1>1, <1>2, ReturnsDescribed
<1>6. SourceKnown'
  BY <1>1, <1>2, SourceKept
<1> QED BY <1>4, <1>5, <1>6

\* What DO leaves of errmsg, for the setters and for raw commands
LEMMA DoDescribes ==
  ASSUME TypeOK, NEW fn \in Functions,
         NEW o \in QregcOutcomes \cup [code : {QNICLL_ERR_NONE}, why : Whys],
         LlErr(o), DO(fn, o)
  PROVE  /\ \/ errmsg' = errmsg
            \/ o.code # QNICLL_ERR_NONE /\ errmsg' = Desc(fn, o.why)
         /\ errmsg' \in {NoText} \cup
              [fn : Functions, why : Whys \cup {"unsupported_mode", "diagnosis"}]
<1>1. CASE o.code = QNICLL_ERR_NONE
  BY <1>1 DEF DO, TypeOK
<1>2. CASE o.code # QNICLL_ERR_NONE
  <2>1. errmsg_ll' = o.why /\ o.why \in Whys
    BY <1>2, LlErrType, OutcomeType
  <2> QED BY <1>2, <2>1 DEF DO, Desc
<1> QED BY <1>1, <1>2

LEMMA DescribedKeeps ==
  ASSUME IInv, NEW fn \in Described, SetDescribed(fn)
  PROVE  IInv'
<1> USE DEF IInv
<1>1. PICK o \in QregcOutcomes :
        /\ LlErr(o) /\ DO(fn, o) /\ Returns(fn, o.code, o.why)
        /\ astray' = (astray \/ o.code # QNICLL_ERR_NONE)
  BY DEF SetDescribed
<1>2. UNCHANGED <<st, lfsr, refused>>
  BY DEF SetDescribed
<1>3. fn \in Functions /\ o.code \in Codes /\ o.why \in Reasons
  BY OutcomeType, CodesType DEF Functions, Reasons
<1>4. TypeOK'
  <2>1. errmsg_ll' \in Whys \cup {None}
    BY <1>1, LlErrType
  <2>2. /\ last' \in [fn : Functions \cup {None}, code : Codes]
        /\ failed' \in [n : 0..2, fn : Functions \cup {None}, why : Reasons]
    BY <1>1, <1>3, ReturnsType
  <2>3. errmsg' \in {NoText} \cup
          [fn : Functions, why : Whys \cup {"unsupported_mode", "diagnosis"}]
    BY <1>1, <1>3, DoDescribes
  <2> QED BY <1>1, <1>2, <2>1, <2>2, <2>3 DEF TypeOK
<1>5. NoErrorNoText' /\ FirstErrorDescribed'
  BY <1>1, <1>3, DoDescribes, ReturnsDescribed
<1>6. SourceKnown'
  BY <1>1, <1>2, SourceKept
<1> QED BY <1>4, <1>5, <1>6

LEMMA CmdKeeps ==
  ASSUME IInv, qnicll_do_qna_cmd
  PROVE  IInv'
<1> USE DEF IInv
<1>1. UNCHANGED <<st, lfsr, refused>> /\ "do_qna_cmd" \in Functions
  BY DEF qnicll_do_qna_cmd, Functions
<1>2. CASE /\ Returns("do_qna_cmd", QNICLL_ERR_NONE, None)
           /\ UNCHANGED <<errmsg, errmsg_ll, astray>>
  <2>1. None \in Reasons
    BY DEF Reasons
  <2>2. TypeOK'
    BY <1>1, <1>2, <2>1, CodesType, ReturnsType DEF TypeOK
  <2>3. NoErrorNoText' /\ FirstErrorDescribed'
    BY <1>2, ReturnsDescribed
  <2>4. SourceKnown'
    BY <1>1, <1>2, SourceKept
  <2> QED BY <2>2, <2>3, <2>4
<1>3. CASE \E o \in QregcOutcomes \cup [code : {QNICLL_ERR_NONE}, why : Whys] :
             /\ LlErr(o) /\ DO("do_qna_cmd", o)
             /\ Returns("do_qna_cmd", o.code, o.why)
             /\ astray' = TRUE
  <2>1. PICK o \in QregcOutcomes \cup [code : {QNICLL_ERR_NONE}, why : Whys] :
             /\ LlErr(o) /\ DO("do_qna_cmd", o)
             /\ Returns("do_qna_cmd", o.code, o.why)
             /\ astray' = TRUE
    BY <1>3
  <2>2. o.code \in Codes /\ o.why \in Reasons
    BY OutcomeType, CodesType DEF Reasons
  <2>3. /\ last' \in [fn : Functions \cup {None}, code : Codes]
        /\ failed' \in [n : 0..2, fn : Functions \cup {None}, why : Reasons]
    BY <1>1, <2>1, <2>2, ReturnsType
  <2>4. TypeOK'
    BY <1>1, <2>1, <2>3, DoDescribes, LlErrType DEF TypeOK
  <2>5. NoErrorNoText' /\ FirstErrorDescribed'
    BY <1>1, <2>1, DoDescribes, ReturnsDescribed
  <2>6. SourceKnown'
    BY <2>1 DEF SourceKnown
  <2> QED BY <2>4, <2>5, <2>6
<1> QED BY <1>2, <1>3 DEF qnicll_do_qna_cmd

\* A source that was granted is what the register has when the answer is to be
\* relied on; otherwise the call is on record as refused.
LEMMA SourceSetKeeps ==
  ASSUME IInv, NEW datasrc, NEW q, SourceSet(datasrc, q),
         \/ datasrc = QNICLL_DATASRC_LFSR /\ q = 1
         \/ datasrc = QNICLL_DATASRC_CUSTOM /\ q = 0
  PROVE  IInv'
<1> USE DEF IInv
<1>1. /\ "set_probe_datasrc" \in Functions /\ None \in Reasons
      /\ "not_granted" \in Reasons /\ UNCHANGED errmsg
  BY DEF Functions, Reasons, SourceSet
<1>2. ASSUME NEW r \in {0, 1}, UseLfsr(r),
             \/ /\ SourceGranted(q, r)
                /\ st' = [st EXCEPT !.probe_datasrc = datasrc]
                /\ Returns("set_probe_datasrc", QNICLL_ERR_NONE, None)
                /\ refused' = FALSE
             \/ /\ ~SourceGranted(q, r)
                /\ UNCHANGED st
                /\ Returns("set_probe_datasrc", QNICLL_ERR_BUG, "not_granted")
                /\ refused' = TRUE,
             NEW o \in QregcOutcomes, LlErr(o), UNCHANGED astray
      PROVE  IInv'
  <2>1. /\ last' \in [fn : Functions \cup {None}, code : Codes]
        /\ failed' \in [n : 0..2, fn : Functions \cup {None}, why : Reasons]
    BY <1>1, <1>2, CodesType, ReturnsType
  <2>2. st' \in [mode : 0..QNICLL_MODE_LINK_LOOPBACK, probe_datasrc : 0..QNICLL_DATASRC_CUSTOM]
    BY <1>2 DEF TypeOK, QNICLL_DATASRC_LFSR, QNICLL_DATASRC_CUSTOM
  <2>3. TypeOK'
    BY <1>1, <1>2, <2>1, <2>2, LlErrType DEF TypeOK, UseLfsr
  <2>4. NoErrorNoText' /\ FirstErrorDescribed'
    BY <1>1, <1>2, ReturnsDescribed
  <2>5. SourceKnown'
    <3>1. CASE refused'
      BY <3>1 DEF SourceKnown
    <3>2. CASE ~refused'
      <4>1. r = q /\ st'.probe_datasrc = datasrc
        BY <1>2, <3>2 DEF SourceGranted, TypeOK
      <4>2. astray' \/ lfsr' = q
        BY <1>2, <4>1 DEF UseLfsr
      <4> QED BY <4>1, <4>2 DEF SourceKnown, QNICLL_DATASRC_LFSR, QNICLL_DATASRC_CUSTOM
    <3> QED BY <3>1, <3>2
  <2> QED BY <2>3, <2>4, <2>5
<1>3. ASSUME NEW o \in QregcOutcomes, o.code # QNICLL_ERR_NONE, LlErr(o), lfsr' \in {0, 1},
             Returns("set_probe_datasrc", o.code, o.why),
             refused' = TRUE, astray' = TRUE, UNCHANGED st
      PROVE  IInv'
  <2>1. o.code \in Codes /\ o.why \in Reasons
    BY OutcomeType, CodesType DEF Reasons
  <2>2. /\ last' \in [fn : Functions \cup {None}, code : Codes]
        /\ failed' \in [n : 0..2, fn : Functions \cup {None}, why : Reasons]
    BY <1>1, <1>3, <2>1, ReturnsType
  <2>3. TypeOK'
    BY <1>1, <1>3, <2>2, LlErrType DEF TypeOK
  <2>4. NoErrorNoText' /\ FirstErrorDescribed'
    BY <1>1, <1>3, ReturnsDescribed
  <2>5. SourceKnown'
    BY <1>3 DEF SourceKnown
  <2> QED BY <2>3, <2>4, <2>5
<1> QED BY <1>2, <1>3 DEF SourceSet

LEMMA DatasrcKeeps ==
  ASSUME IInv, qnicll_set_probe_datasrc
  PROVE  IInv'
<1> USE DEF IInv
<1>1. CASE \/ SourceSet(QNICLL_DATASRC_LFSR, 1)
           \/ SourceSet(QNICLL_DATASRC_CUSTOM, 0)
  BY <1>1, SourceSetKeeps
<1>2. CASE /\ Returns("set_probe_datasrc", QNICLL_ERR_MISUSE, "unsupported_source")
           /\ UNCHANGED <<st, errmsg, errmsg_ll, lfsr, astray, refused>>
  <2>1. "set_probe_datasrc" \in Functions /\ "unsupported_source" \in Reasons
    BY DEF Functions, Reasons
  <2>2. TypeOK'
    BY <1>2, <2>1, CodesType, ReturnsType DEF TypeOK
  <2>3. NoErrorNoText' /\ FirstErrorDescribed'
    BY <1>2, ReturnsDescribed
  <2>4. SourceKnown'
    BY <1>2, SourceKept
  <2> QED BY <2>2, <2>3, <2>4
<1> QED BY <1>1, <1>2 DEF qnicll_set_probe_datasrc

LEMMA ModeKeeps ==
  ASSUME IInv, NEW mode \in QNICLL_MODE_QUERRY..QNICLL_MODE_QSDC, qnicll_set_mode(mode)
  PROVE  IInv'
<1> USE DEF IInv
<1>1. /\ "set_mode" \in Functions /\ None \in Reasons /\ "unsupported_mode" \in Reasons
      /\ UNCHANGED <<errmsg_ll, lfsr, astray, refused>>
  BY DEF Functions, Reasons, qnicll_set_mode
<1>2. CASE mode \in {QNICLL_MODE_CDM, QNICLL_MODE_MEAS_NOISE, QNICLL_MODE_LINK_LOOPBACK}
  <2>1. /\ st' = [st EXCEPT !.mode = mode] /\ UNCHANGED errmsg
        /\ Returns("set_mode", QNICLL_ERR_NONE, None)
    BY <1>2 DEF qnicll_set_mode
  <2>2. st' \in [mode : 0..QNICLL_MODE_LINK_LOOPBACK, probe_datasrc : 0..QNICLL_DATASRC_CUSTOM]
    BY <1>2, <2>1 DEF TypeOK, QNICLL_MODE_CDM, QNICLL_MODE_MEAS_NOISE, QNICLL_MODE_LINK_LOOPBACK
  <2>3. /\ last' \in [fn : Functions \cup {None}, code : Codes]
        /\ failed' \in [n : 0..2, fn : Functions \cup {None}, why : Reasons]
    BY <1>1, <2>1, CodesType, ReturnsType
  <2>4. TypeOK'
    BY <1>1, <2>1, <2>2, <2>3 DEF TypeOK
  <2>5. NoErrorNoText' /\ FirstErrorDescribed'
    BY <2>1, ReturnsDescribed
  <2>6. st'.probe_datasrc = st.probe_datasrc
    BY <2>1 DEF TypeOK
  <2>7. SourceKnown'
    BY <1>1, <2>6, SourceKept
  <2> QED BY <2>4, <2>5, <2>7
<1>3. CASE mode \notin {QNICLL_MODE_CDM, QNICLL_MODE_MEAS_NOISE, QNICLL_MODE_LINK_LOOPBACK}
  <2>1. /\ errmsg' = Desc("set_mode", "unsupported_mode") /\ UNCHANGED st
        /\ Returns("set_mode", QNICLL_ERR_MISUSE, "unsupported_mode")
    BY <1>3 DEF qnicll_set_mode
  <2>2. /\ last' \in [fn : Functions \cup {None}, code : Codes]
        /\ failed' \in [n : 0..2, fn : Functions \cup {None}, why : Reasons]
    BY <1>1, <2>1, CodesType, ReturnsType
  <2>3. TypeOK'
    BY <1>1, <2>1, <2>2 DEF TypeOK, Desc
  <2>4. NoErrorNoText' /\ FirstErrorDescribed'
    BY <2>1, ReturnsDescribed DEF QNICLL_ERR_NONE, QNICLL_ERR_MISUSE
  <2>5. SourceKnown'
    BY <1>1, <2>1, SourceKept
  <2> QED BY <2>3, <2>4, <2>5
<1> QED BY <1>2, <1>3

LEMMA DiagnoseKeeps ==
  ASSUME IInv, NEW fn \in Diagnosed, Diagnose(fn)
  PROVE  IInv'
<1> USE DEF IInv
<1>1. /\ fn \in Functions /\ None \in Reasons /\ "diagnosis" \in Reasons
      /\ UNCHANGED <<st, errmsg_ll, lfsr, astray, refused>>
  BY DEF Functions, Reasons, Diagnose
<1>2. CASE Returns(fn, QNICLL_ERR_NONE, None) /\ UNCHANGED errmsg
  <2>1. TypeOK'
    BY <1>1, <1>2, CodesType, ReturnsType DEF TypeOK
  <2>2. NoErrorNoText' /\ FirstErrorDescribed'
    BY <1>2, ReturnsDescribed
  <2> QED BY <1>1, <2>1, <2>2, SourceKept
<1>3. CASE errmsg' = Desc(fn, "diagnosis") /\ Returns(fn, QNICLL_ERR_BUG, "diagnosis")
  <2>1. /\ last' \in [fn : Functions \cup {None}, code : Codes]
        /\ failed' \in [n : 0..2, fn : Functions \cup {None}, why : Reasons]
    BY <1>1, <1>3, CodesType, ReturnsType
  <2>2. TypeOK'
    BY <1>1, <1>3, <2>1 DEF TypeOK, Desc
  <2>3. NoErrorNoText' /\ FirstErrorDescribed'
    BY <1>3, ReturnsDescribed DEF QNICLL_ERR_NONE, QNICLL_ERR_BUG
  <2> QED BY <1>1, <2>2, <2>3, SourceKept
<1> QED BY <1>2, <1>3 DEF Diagnose

\* Calls that change nothing but what is known of the last call
LEMMA QuietKeeps ==
  ASSUME IInv, qnicll_set_rxq_polctl_setting_idx \/ Query
  PROVE  IInv'
<1> USE DEF IInv
<1>1. PICK fn \in Functions, code \in {QNICLL_ERR_NONE, Printed} : Returns(fn, code, None)
  BY DEF qnicll_set_rxq_polctl_setting_idx, Query, Functions
<1>2. UNCHANGED <<st, errmsg, errmsg_ll, lfsr, astray, refused>> /\ None \in Reasons
  BY DEF qnicll_set_rxq_polctl_setting_idx, Query, Reasons
<1>3. TypeOK'
  BY <1>1, <1>2, CodesType, ReturnsType DEF TypeOK
<1>4. NoErrorNoText' /\ FirstErrorDescribed'
  BY <1>1, <1>2, ReturnsDescribed
<1> QED BY <1>2, <1>3, <1>4, SourceKept

LEMMA LateServiceKeeps ==
  ASSUME IInv, LateService \/ UNCHANGED vars
  PROVE  IInv'
<1>1. TypeOK'
  BY DEF IInv, TypeOK, LateService, vars
<1>2. NoErrorNoText' /\ FirstErrorDescribed'
  BY DEF IInv, NoErrorNoText, FirstErrorDescribed, LateService, vars
<1>3. SourceKnown'
  BY DEF IInv, SourceKnown, LateService, vars
<1> QED BY <1>1, <1>2, <1>3 DEF IInv

-----------------------------------------------------------------------------
(* The theorems. *)

LEMMA Inductive == Spec => []IInv
<1>1. IInv /\ [Next]_vars => IInv'
  BY DirectKeeps, DescribedKeeps, DiagnoseKeeps, CmdKeeps, DatasrcKeeps, ModeKeeps,
     QuietKeeps, LateServiceKeeps DEF Next
<1> QED BY <1>1, InitHolds, PTL DEF Spec

\* The types: only implemented modes and sources are ever recorded, whichever are
\* asked for.
THEOREM SettingsTyped == Spec => []TypeOK
<1>1. IInv => TypeOK
  BY DEF IInv
<1> QED BY <1>1, Inductive, PTL

\* For any set of functions of each kind and any texts, the first error is
\* described by its own text or by none (DO and ll_err() of qnicll.c).
THEOREM FirstErrorIsDescribed == Spec => []FirstErrorDescribed
<1>1. IInv => FirstErrorDescribed
  BY DEF IInv
<1> QED BY <1>1, Inductive, PTL

\* The source that qnicll_set_probe_datasrc() has recorded is that of the
\* hardware, while the answers are reliable and the last change was not refused.
THEOREM SourceIsKnown == Spec => []SourceKnown
<1>1. IInv => SourceKnown
  BY DEF IInv
<1> QED BY <1>1, Inductive, PTL

=============================================================================
