---------------------------- MODULE EapolSmProofs ----------------------------
(***************************************************************************)
(* Proofs about EapolSm for every value of its constants.                  *)
(***************************************************************************)
EXTENDS EapolSm, TLAPS

(***************************************************************************)
(* The inductive invariant.  The safety invariants of EapolSm speak mostly *)
(* of a daemon at rest; what makes them inductive is how the PAE and the   *)
(* backend machine are coupled in the middle of a pass of eapol_sm_step.   *)
(***************************************************************************)
\* The pairs of states between two backend steps.
AgreeOutside ==
  /\ ~sm.authAbort
  /\ \/ /\ auth_pae.state = "AUTHENTICATING"
        /\ be_auth.state \in {"RESPONSE", "REQUEST", "SUCCESS", "FAIL", "TIMEOUT"}
     \/ auth_pae.state = "ABORTING" /\ be_auth.state = "INITIALIZE"
     \/ /\ auth_pae.state \notin {"AUTHENTICATING", "ABORTING"}
        /\ be_auth.state = "IDLE"

\* The pairs of states when the PAE machine has run and the backend has not.
AgreeInside ==
  /\ sm.authAbort <=> auth_pae.state = "ABORTING"
  /\ \/ /\ auth_pae.state = "AUTHENTICATING"
        /\ be_auth.state \in {"IDLE", "RESPONSE", "REQUEST"}
     \/ /\ auth_pae.state = "ABORTING"
        /\ be_auth.state \in {"RESPONSE", "REQUEST", "TIMEOUT"}
     \/ /\ auth_pae.state = "AUTHENTICATED"
        /\ be_auth.state \in {"SUCCESS", "IDLE"}
     \/ auth_pae.state = "HELD" /\ be_auth.state \in {"FAIL", "IDLE"}
     \/ /\ auth_pae.state \in {"CONNECTING", "DISCONNECTED"}
        /\ be_auth.state \in {"INITIALIZE", "IDLE"}

Agreement ==
  /\ loop.pc # "BE_AUTH" => AgreeOutside
  /\ loop.pc = "BE_AUTH" => AgreeInside

\* authStart is up from the entry of AUTHENTICATING until the backend is idle.
StartFlag ==
  sm.authStart <=>
    \/ be_auth.state # "IDLE"
    \/ auth_pae.state = "AUTHENTICATING"

\* While the PAE machine is AUTHENTICATING each verdict flag stands for the
\* state of the backend that raised it.
VerdictFlags ==
  auth_pae.state = "AUTHENTICATING" =>
    /\ sm.authSuccess <=> be_auth.state = "SUCCESS"
    /\ sm.authFail <=> be_auth.state = "FAIL"
    /\ sm.authTimeout <=> be_auth.state = "TIMEOUT"

\* What the backend knows of the answer to the request it sent.
AnswerFlags ==
  /\ be_auth.state = "RESPONSE" =>
       /\ be_auth.aReq => ~sta.pending /\ sta.last_recv_radius = "challenge"
       /\ be_auth.aSuccess => ~sta.pending /\ sta.last_recv_radius = "accept"
       /\ be_auth.aFail => ~sta.pending /\ sta.last_recv_radius = "reject"
       /\ sta.pending \/ be_auth.aReq \/ be_auth.aSuccess \/ be_auth.aFail
       /\ timer.aWhile >= 0 /\ be_auth.reqCount = 0
  /\ be_auth.state = "SUCCESS" => sta.last_recv_radius = "accept" /\ ~sta.pending

\* A pass that has changed nothing so far leaves no transient state behind.
QuietPass ==
  /\ loop.pc \in {"BE_AUTH", "REAUTH_TIMER", "AUTH_KEY_TX", "test"} /\ ~loop.changed
       => auth_pae.state \in {"CONNECTING", "AUTHENTICATING", "AUTHENTICATED", "HELD"}
  /\ loop.pc \in {"REAUTH_TIMER", "AUTH_KEY_TX", "test"} /\ ~loop.changed
       => /\ be_auth.state \in {"REQUEST", "RESPONSE", "IDLE"}
          /\ be_auth.state = "RESPONSE" => sta.pending /\ timer.aWhile > 0
  /\ loop.pc = "idle" => auth_pae.state \notin {"DISCONNECTED", "ABORTING"}

\* The port is open under a failure only until the PAE machine has seen it.
FailureSeen ==
  sm.authFail /\ sm.portStatus = "Authorized" =>
    auth_pae.state = "AUTHENTICATING"

\* reAuthCount in the states from which CONNECTING is entered.
RetryCount ==
  /\ auth_pae.state \in {"INITIALIZE", "DISCONNECTED", "AUTHENTICATED"}
       => auth_pae.reAuthCount = 0
  /\ auth_pae.state \in {"AUTHENTICATING", "ABORTING", "HELD"}
       => auth_pae.reAuthCount <= reAuthMax

IInv ==
  /\ TypeOK
  /\ Agreement
  /\ StartFlag
  /\ VerdictFlags
  /\ AnswerFlags
  /\ QuietPass
  /\ FailureSeen
  /\ RetryCount
  /\ AuthenticatedByAccept
  /\ MachinesAgree
  /\ WaitingForServer
  /\ FailureCloses
  /\ RetryBounds
  /\ RequestHoldsChallenge

-----------------------------------------------------------------------------
(***************************************************************************)
(* Type correctness.                                                       *)
(***************************************************************************)
LEMMA ToIntType == ASSUME NEW n \in Nat PROVE ToInt(n) \in Int
BY ConstantsAssumption DEF ToInt

LEMMA DecType ==
  /\ \A t \in Int : Dec(t) \in Int
  /\ \A n \in Nat : \A t \in 0..n : Dec(t) \in 0..n
BY DEF Dec

LEMMA FreshType ==
  /\ FreshPae \in PaeType
  /\ FreshBe \in BeType
  /\ FreshReauth \in ReauthType
  /\ FreshSm \in SmType
  /\ FreshTimer \in TimerType
BY ConstantsAssumption, ToIntType
   DEF FreshPae, FreshBe, FreshReauth, FreshSm, FreshTimer,
       PaeType, BeType, ReauthType, SmType, TimerType, PaeStates, BeStates

LEMMA TypePae == TypeOK /\ Step_AUTH_PAE => TypeOK'
<1> SUFFICES ASSUME TypeOK, Step_AUTH_PAE PROVE TypeOK'
  OBVIOUS
<1>1. auth_pae' \in PaeType
  <2>1. CASE AUTH_PAE_DISCONNECTED
    BY <2>1 DEF TypeOK, PaeType, PaeStates, AUTH_PAE_DISCONNECTED
  <2>2. CASE AUTH_PAE_CONNECTING
    <3>1. auth_pae.reAuthCount + 1 \in Nat
      BY DEF TypeOK, PaeType
    <3>2. QED BY <2>2, <3>1 DEF TypeOK, PaeType, PaeStates, AUTH_PAE_CONNECTING
  <2>3. CASE AUTH_PAE_AUTHENTICATING
    BY <2>3 DEF TypeOK, PaeType, PaeStates, AUTH_PAE_AUTHENTICATING
  <2>4. CASE AUTH_PAE_AUTHENTICATED
    BY <2>4 DEF TypeOK, PaeType, PaeStates, AUTH_PAE_AUTHENTICATED
  <2>5. CASE AUTH_PAE_HELD
    BY <2>5 DEF TypeOK, PaeType, PaeStates, AUTH_PAE_HELD
  <2>6. CASE AUTH_PAE_ABORTING
    BY <2>6 DEF TypeOK, PaeType, PaeStates, AUTH_PAE_ABORTING
  <2>7. CASE PaeStays
    BY <2>7 DEF TypeOK, PaeStays
  <2>8. QED BY <2>1, <2>2, <2>3, <2>4, <2>5, <2>6, <2>7 DEF Step_AUTH_PAE
<1> USE DEF AUTH_PAE_DISCONNECTED, AUTH_PAE_CONNECTING, AUTH_PAE_AUTHENTICATING,
            AUTH_PAE_AUTHENTICATED, AUTH_PAE_HELD, AUTH_PAE_ABORTING, PaeStays,
            Step_AUTH_PAE
<1>2. sm' \in SmType
  BY DEF TypeOK, SmType
<1>3. timer' \in TimerType
  BY ConstantsAssumption DEF TypeOK, TimerType
<1>4. sta' \in StaType
  BY DEF TypeOK, StaType, Messages
<1>5. loop' \in LoopType
  BY DEF TypeOK, LoopType, Pass
<1>6. QED BY <1>1, <1>2, <1>3, <1>4, <1>5 DEF TypeOK

LEMMA TypeBe == TypeOK /\ Step_BE_AUTH => TypeOK'
<1> SUFFICES ASSUME TypeOK, Step_BE_AUTH PROVE TypeOK'
  OBVIOUS
<1>1. be_auth' \in BeType
  <2>1. CASE BE_AUTH_INITIALIZE
    BY <2>1 DEF TypeOK, BeType, BeStates, BE_AUTH_INITIALIZE
  <2>2. CASE BE_AUTH_REQUEST
    <3>1. be_auth.reqCount + 1 \in Nat
      BY DEF TypeOK, BeType
    <3>2. QED BY <2>2, <3>1 DEF TypeOK, BeType, BeStates, BE_AUTH_REQUEST
  <2>3. CASE BE_AUTH_RESPONSE
    BY <2>3 DEF TypeOK, BeType, BeStates, BE_AUTH_RESPONSE
  <2>4. CASE BE_AUTH_SUCCESS
    BY <2>4 DEF TypeOK, BeType, BeStates, BE_AUTH_SUCCESS
  <2>5. CASE BE_AUTH_FAIL
    BY <2>5 DEF TypeOK, BeType, BeStates, BE_AUTH_FAIL
  <2>6. CASE BE_AUTH_TIMEOUT
    BY <2>6 DEF TypeOK, BeType, BeStates, BE_AUTH_TIMEOUT
  <2>7. CASE BE_AUTH_IDLE
    BY <2>7 DEF TypeOK, BeType, BeStates, BE_AUTH_IDLE
  <2>8. CASE BeStays
    BY <2>8 DEF TypeOK, BeStays
  <2>9. QED BY <2>1, <2>2, <2>3, <2>4, <2>5, <2>6, <2>7, <2>8 DEF Step_BE_AUTH
<1> USE DEF BE_AUTH_INITIALIZE, BE_AUTH_REQUEST, BE_AUTH_RESPONSE, BE_AUTH_SUCCESS,
            BE_AUTH_FAIL, BE_AUTH_TIMEOUT, BE_AUTH_IDLE, BeStays, Step_BE_AUTH
<1>2. sm' \in SmType
  BY DEF TypeOK, SmType
<1>3. timer' \in TimerType
  <2>1. ToInt(be_auth.suppTimeout) \in Int
    BY ToIntType DEF TypeOK, BeType
  <2>2. QED BY <2>1, ConstantsAssumption DEF TypeOK, TimerType
<1>4. sta' \in StaType
  BY DEF TypeOK, StaType
<1>5. loop' \in LoopType
  BY DEF TypeOK, LoopType, Pass
<1>6. QED BY <1>1, <1>2, <1>3, <1>4, <1>5 DEF TypeOK

LEMMA TypeReauth == TypeOK /\ Step_REAUTH_TIMER => TypeOK'
<1> SUFFICES ASSUME TypeOK, Step_REAUTH_TIMER PROVE TypeOK'
  OBVIOUS
<1> USE DEF REAUTH_TIMER_INITIALIZE, REAUTH_TIMER_REAUTHENTICATE, ReauthStays,
            Step_REAUTH_TIMER
<1>1. reauth_timer' \in ReauthType
  BY DEF TypeOK, ReauthType
<1>2. sm' \in SmType
  BY DEF TypeOK, SmType
<1>3. timer' \in TimerType
  <2>1. ToInt(reauth_timer.reAuthPeriod) \in Int
    BY ToIntType DEF TypeOK, ReauthType
  <2>2. QED BY <2>1 DEF TypeOK, TimerType
<1>4. loop' \in LoopType
  BY DEF TypeOK, LoopType, Pass
<1>5. QED BY <1>1, <1>2, <1>3, <1>4 DEF TypeOK

LEMMA TypeKey == TypeOK /\ Step_AUTH_KEY_TX => TypeOK'
<1> SUFFICES ASSUME TypeOK, Step_AUTH_KEY_TX PROVE TypeOK'
  OBVIOUS
<1> USE DEF AUTH_KEY_TX_NO_KEY_TRANSMIT, AUTH_KEY_TX_KEY_TRANSMIT, KeyStays,
            Step_AUTH_KEY_TX
<1>1. auth_key_tx' \in {"NO_KEY_TRANSMIT", "KEY_TRANSMIT"}
  BY DEF TypeOK
<1>2. sm' \in SmType
  BY DEF TypeOK, SmType
<1>3. loop' \in LoopType
  BY DEF TypeOK, LoopType, Pass
<1>4. QED BY <1>1, <1>2, <1>3 DEF TypeOK

LEMMA TypeFree == TypeOK /\ Ap_free_sta /\ loop' \in LoopType => TypeOK'
<1> SUFFICES ASSUME TypeOK, Ap_free_sta, loop' \in LoopType PROVE TypeOK'
  OBVIOUS
<1>1. sta' \in StaType
  BY DEF TypeOK, StaType, Messages, Ap_free_sta
<1>2. QED BY <1>1, FreshType DEF TypeOK, Ap_free_sta

LEMMA TypeLoop ==
  TypeOK /\ (AnotherPass \/ StepAgain \/ Return \/ ReturnAndFree) => TypeOK'
<1> SUFFICES ASSUME TypeOK, AnotherPass \/ StepAgain \/ Return \/ ReturnAndFree
             PROVE  TypeOK'
  OBVIOUS
<1>1. loop' \in LoopType
  BY DEF TypeOK, LoopType, AnotherPass, StepAgain, Return, ReturnAndFree
<1>2. CASE ReturnAndFree
  BY <1>1, <1>2, TypeFree DEF ReturnAndFree
<1>3. CASE AnotherPass \/ StepAgain \/ Return
  BY <1>1, <1>3 DEF TypeOK, AnotherPass, StepAgain, Return, machines
<1>4. QED BY <1>2, <1>3

LEMMA TypeStartLoop ==
  ASSUME NEW then \in {"return", "step", "free"}, StartLoop(then)
  PROVE  loop' \in LoopType
BY DEF StartLoop, LoopType

LEMMA TypeReceive == TypeOK /\ ieee802_1x_receive => TypeOK'
<1> SUFFICES ASSUME TypeOK, ieee802_1x_receive PROVE TypeOK'
  OBVIOUS
<1> USE DEF ieee802_1x_receive, ReceiveIdentity, ReceiveResponse, ReceiveStart,
            ReceiveLogoff, ReceiveOther, ReceiveMalformed
<1>1. auth_pae' \in PaeType
  BY DEF TypeOK, PaeType
<1>2. be_auth' \in BeType
  BY DEF TypeOK, BeType
<1>3. sta' \in StaType
  BY DEF TypeOK, StaType, Ap_get_sta
<1>4. loop' \in LoopType
  BY TypeStartLoop DEF TypeOK
<1>5. QED BY <1>1, <1>2, <1>3, <1>4 DEF TypeOK

LEMMA TypeReceiveAuth == TypeOK /\ ieee802_1x_receive_auth => TypeOK'
<1> SUFFICES ASSUME TypeOK, ieee802_1x_receive_auth PROVE TypeOK'
  OBVIOUS
<1> USE DEF ieee802_1x_receive_auth, AcceptReauthenticate, AcceptSessionTimeout,
            AcceptAndFree, ReceiveReject, ReceiveChallenge, AcceptBase, Answered
<1>1. be_auth' \in BeType
  BY ConstantsAssumption DEF TypeOK, BeType
<1>2. reauth_timer' \in ReauthType
  BY ConstantsAssumption DEF TypeOK, ReauthType
<1>3. sm' \in SmType
  BY DEF TypeOK, SmType
<1>4. sta' \in StaType
  BY DEF TypeOK, StaType, Messages
<1>5. loop' \in LoopType
  BY TypeStartLoop DEF TypeOK
<1>6. auth_pae' = auth_pae /\ auth_key_tx' = auth_key_tx /\ timer' = timer
  OBVIOUS
<1>7. QED BY <1>1, <1>2, <1>3, <1>4, <1>5, <1>6 DEF TypeOK

LEMMA TypeTimers ==
  /\ TypeOK /\ eapol_port_timers_tick => TypeOK'
  /\ TypeOK /\ Ap_handle_session_timer => TypeOK'
  /\ TypeOK /\ Apd_free_stas => TypeOK'
<1>1. ASSUME TypeOK, eapol_port_timers_tick PROVE TypeOK'
  <2>1. timer' \in TimerType
    <3>1. /\ Dec(timer.aWhile) \in Int /\ Dec(timer.reAuthWhen) \in Int
          /\ Dec(timer.quietWhile) \in 0..quietPeriod
          /\ Dec(timer.txWhen) \in 0..txPeriod
      BY <1>1, DecType, ConstantsAssumption DEF TypeOK, TimerType
    <3>2. QED BY <1>1, <3>1 DEF TimerType, eapol_port_timers_tick
  <2>2. loop' \in LoopType
    BY <1>1 DEF eapol_port_timers_tick, StartLoop, LoopType
  <2>3. QED BY <1>1, <2>1, <2>2 DEF TypeOK, eapol_port_timers_tick
<1>2. ASSUME TypeOK, Ap_handle_session_timer PROVE TypeOK'
  <2>1. sta' \in StaType
    BY <1>2 DEF TypeOK, StaType, Ap_handle_session_timer
  <2>2. QED BY <1>2, <2>1 DEF TypeOK, Ap_handle_session_timer
<1>3. ASSUME TypeOK, Apd_free_stas PROVE TypeOK'
  BY <1>3, TypeFree DEF Apd_free_stas, TypeOK
<1>4. QED BY <1>1, <1>2, <1>3

LEMMA TypeInit == Init => TypeOK
<1> SUFFICES ASSUME Init PROVE TypeOK
  OBVIOUS
<1>1. sta \in StaType
  BY DEF Init, StaType, Messages
<1>2. loop \in LoopType
  BY DEF Init, LoopType
<1>3. QED BY <1>1, <1>2, FreshType DEF Init, TypeOK

LEMMA TypeNext == TypeOK /\ [Next]_vars => TypeOK'
<1> SUFFICES ASSUME TypeOK, [Next]_vars PROVE TypeOK'
  OBVIOUS
<1>1. CASE eapol_sm_step
  BY <1>1, TypePae, TypeBe, TypeReauth, TypeKey, TypeLoop DEF eapol_sm_step
<1>2. CASE ieee802_1x_receive
  BY <1>2, TypeReceive
<1>3. CASE ieee802_1x_receive_auth
  BY <1>3, TypeReceiveAuth
<1>4. CASE eapol_port_timers_tick \/ Ap_handle_session_timer \/ Apd_free_stas
  BY <1>4, TypeTimers
<1>5. CASE UNCHANGED vars
  BY <1>5 DEF TypeOK, vars
<1>6. QED BY <1>1, <1>2, <1>3, <1>4, <1>5 DEF Next

\* Every field of the machines keeps a value of its type in every behaviour,
\* whatever order frames, answers, ticks and reloads come in.
THEOREM TypeCorrect == Spec => []TypeOK
<1>1. Init => TypeOK
  BY TypeInit
<1>2. TypeOK /\ [Next]_vars => TypeOK'
  BY TypeNext
<1>3. QED BY <1>1, <1>2, PTL DEF Spec, SafetySpec


-----------------------------------------------------------------------------
(***************************************************************************)
(* Every action preserves the invariant.  One lemma per state entry of the *)
(* two main machines, one per small machine and one per handler; in each,  *)
(* a step per conjunct the action can disturb and one for those it cannot. *)
(*                                                                         *)
(* The entries of the PAE machine.                                         *)
(***************************************************************************)
LEMMA Keeps_AUTH_PAE_DISCONNECTED ==
  IInv /\ Step_AUTH_PAE /\ AUTH_PAE_DISCONNECTED => IInv'
<1> SUFFICES ASSUME IInv, Step_AUTH_PAE, AUTH_PAE_DISCONNECTED PROVE IInv'
  OBVIOUS
<1> USE DEF IInv, AUTH_PAE_DISCONNECTED, PaeToDISCONNECTED, Step_AUTH_PAE, Pass,
            TypeOK, PaeType, BeType, SmType, StaType, TimerType, LoopType
<1>1. TypeOK'
  BY TypePae
<1>2. /\ Agreement' /\ StartFlag' /\ VerdictFlags' /\ AnswerFlags' /\ QuietPass'
      /\ FailureSeen' /\ RetryCount' /\ AuthenticatedByAccept'
      /\ RequestHoldsChallenge'
  BY DEF Agreement, AgreeInside, AgreeOutside, StartFlag, VerdictFlags,
         AnswerFlags, Messages, QuietPass, FailureSeen, RetryCount,
         AuthenticatedByAccept, RequestHoldsChallenge
<1>3. RetryBounds'
  BY ConstantsAssumption DEF RetryBounds, Agreement, AgreeInside, AgreeOutside
<1>4. MachinesAgree' /\ WaitingForServer' /\ FailureCloses'
  BY DEF MachinesAgree, WaitingForServer, FailureCloses, AtRest
<1>5. QED BY <1>1, <1>2, <1>3, <1>4

LEMMA Keeps_AUTH_PAE_CONNECTING ==
  IInv /\ Step_AUTH_PAE /\ AUTH_PAE_CONNECTING => IInv'
<1> SUFFICES ASSUME IInv, Step_AUTH_PAE, AUTH_PAE_CONNECTING PROVE IInv'
  OBVIOUS
<1> USE DEF IInv, AUTH_PAE_CONNECTING, PaeToCONNECTING, Step_AUTH_PAE, Pass,
            TypeOK, PaeType, BeType, SmType, StaType, TimerType, LoopType
<1>1. TypeOK'
  BY TypePae
<1>2. /\ Agreement' /\ StartFlag' /\ VerdictFlags' /\ QuietPass' /\ FailureSeen'
      /\ RetryCount' /\ AuthenticatedByAccept'
  BY DEF Agreement, AgreeInside, AgreeOutside, StartFlag, VerdictFlags,
         QuietPass, FailureSeen, RetryCount, AuthenticatedByAccept
<1>3. AnswerFlags'
  BY DEF AnswerFlags, Messages, Agreement, AgreeOutside
<1>4. RetryBounds'
  BY ConstantsAssumption DEF RetryBounds, RetryCount, PaeStates
<1>5. RequestHoldsChallenge'
  BY DEF RequestHoldsChallenge, Agreement, AgreeInside, AgreeOutside
<1>6. MachinesAgree' /\ WaitingForServer' /\ FailureCloses'
  BY DEF MachinesAgree, WaitingForServer, FailureCloses, AtRest
<1>7. QED BY <1>1, <1>2, <1>3, <1>4, <1>5, <1>6

LEMMA Keeps_AUTH_PAE_AUTHENTICATING ==
  IInv /\ Step_AUTH_PAE /\ AUTH_PAE_AUTHENTICATING => IInv'
<1> SUFFICES ASSUME IInv, Step_AUTH_PAE, AUTH_PAE_AUTHENTICATING PROVE IInv'
  OBVIOUS
<1> USE DEF IInv, AUTH_PAE_AUTHENTICATING, PaeToAUTHENTICATING, Step_AUTH_PAE,
            Pass, TypeOK, PaeType, BeType, SmType, StaType, TimerType, LoopType
<1>1. TypeOK'
  BY TypePae
<1>2. /\ Agreement' /\ StartFlag' /\ AnswerFlags' /\ QuietPass' /\ FailureSeen'
      /\ RetryCount' /\ AuthenticatedByAccept' /\ RetryBounds'
      /\ RequestHoldsChallenge'
  BY DEF Agreement, AgreeInside, AgreeOutside, StartFlag, AnswerFlags, Messages,
         QuietPass, FailureSeen, RetryCount, AuthenticatedByAccept, RetryBounds,
         RequestHoldsChallenge
<1>3. VerdictFlags'
  BY DEF VerdictFlags, Agreement, AgreeInside, AgreeOutside
<1>4. MachinesAgree' /\ WaitingForServer' /\ FailureCloses'
  BY DEF MachinesAgree, WaitingForServer, FailureCloses, AtRest
<1>5. QED BY <1>1, <1>2, <1>3, <1>4

LEMMA Keeps_AUTH_PAE_AUTHENTICATED ==
  IInv /\ Step_AUTH_PAE /\ AUTH_PAE_AUTHENTICATED => IInv'
<1> SUFFICES ASSUME IInv, Step_AUTH_PAE, AUTH_PAE_AUTHENTICATED PROVE IInv'
  OBVIOUS
<1> USE DEF IInv, AUTH_PAE_AUTHENTICATED, PaeToAUTHENTICATED, Step_AUTH_PAE,
            Pass, TypeOK, PaeType, BeType, SmType, StaType, TimerType, LoopType
<1>1. TypeOK'
  BY TypePae
<1>2. Agreement'
  BY DEF Agreement, AgreeInside, AgreeOutside, StartFlag, VerdictFlags
<1>3. StartFlag'
  BY DEF StartFlag, Agreement, AgreeInside, AgreeOutside
<1>4. /\ VerdictFlags' /\ AnswerFlags' /\ QuietPass' /\ RetryCount'
      /\ RequestHoldsChallenge'
  BY DEF VerdictFlags, AnswerFlags, Messages, QuietPass, RetryCount,
         RequestHoldsChallenge
<1>5. FailureSeen'
  BY DEF FailureSeen, Agreement, AgreeInside, AgreeOutside, StartFlag,
         VerdictFlags
<1>6. AuthenticatedByAccept'
  BY DEF AuthenticatedByAccept, VerdictFlags, AnswerFlags
<1>7. RetryBounds'
  BY ConstantsAssumption DEF RetryBounds, Agreement, AgreeInside, AgreeOutside
<1>8. MachinesAgree' /\ WaitingForServer' /\ FailureCloses'
  BY DEF MachinesAgree, WaitingForServer, FailureCloses, AtRest
<1>9. QED BY <1>1, <1>2, <1>3, <1>4, <1>5, <1>6, <1>7, <1>8

LEMMA Keeps_AUTH_PAE_HELD == IInv /\ Step_AUTH_PAE /\ AUTH_PAE_HELD => IInv'
<1> SUFFICES ASSUME IInv, Step_AUTH_PAE, AUTH_PAE_HELD PROVE IInv'
  OBVIOUS
<1> USE DEF IInv, AUTH_PAE_HELD, PaeToHELD, Step_AUTH_PAE, Pass, TypeOK,
            PaeType, BeType, SmType, StaType, TimerType, LoopType
<1>1. TypeOK'
  BY TypePae
<1>2. Agreement'
  BY DEF Agreement, AgreeInside, AgreeOutside, StartFlag, VerdictFlags
<1>3. StartFlag'
  BY DEF StartFlag, Agreement, AgreeInside, AgreeOutside
<1>4. /\ VerdictFlags' /\ AnswerFlags' /\ QuietPass' /\ FailureSeen'
      /\ RetryCount' /\ AuthenticatedByAccept' /\ RetryBounds'
      /\ RequestHoldsChallenge'
  BY DEF VerdictFlags, AnswerFlags, Messages, QuietPass, FailureSeen,
         RetryCount, AuthenticatedByAccept, RetryBounds, RequestHoldsChallenge
<1>5. MachinesAgree' /\ WaitingForServer' /\ FailureCloses'
  BY DEF MachinesAgree, WaitingForServer, FailureCloses, AtRest
<1>6. QED BY <1>1, <1>2, <1>3, <1>4, <1>5

LEMMA Keeps_AUTH_PAE_ABORTING ==
  IInv /\ Step_AUTH_PAE /\ AUTH_PAE_ABORTING => IInv'
<1> SUFFICES ASSUME IInv, Step_AUTH_PAE, AUTH_PAE_ABORTING PROVE IInv'
  OBVIOUS
<1> USE DEF IInv, AUTH_PAE_ABORTING, PaeToABORTING, Step_AUTH_PAE, Pass, TypeOK,
            PaeType, BeType, SmType, StaType, TimerType, LoopType
<1>1. TypeOK'
  BY TypePae
<1>2. Agreement'
  BY DEF Agreement, AgreeInside, AgreeOutside, StartFlag, VerdictFlags
<1>3. StartFlag'
  BY DEF StartFlag, Agreement, AgreeInside, AgreeOutside
<1>4. /\ VerdictFlags' /\ AnswerFlags' /\ QuietPass' /\ FailureSeen'
      /\ RetryCount' /\ AuthenticatedByAccept' /\ RetryBounds'
      /\ RequestHoldsChallenge'
  BY DEF VerdictFlags, AnswerFlags, Messages, QuietPass, FailureSeen,
         RetryCount, AuthenticatedByAccept, RetryBounds, RequestHoldsChallenge
<1>5. MachinesAgree' /\ WaitingForServer' /\ FailureCloses'
  BY DEF MachinesAgree, WaitingForServer, FailureCloses, AtRest
<1>6. QED BY <1>1, <1>2, <1>3, <1>4, <1>5

LEMMA Keeps_PaeStays == IInv /\ Step_AUTH_PAE /\ PaeStays => IInv'
<1> SUFFICES ASSUME IInv, Step_AUTH_PAE, PaeStays PROVE IInv'
  OBVIOUS
<1> USE DEF IInv, PaeStays, Step_AUTH_PAE, Pass, PaeToDISCONNECTED,
            PaeToCONNECTING, PaeToAUTHENTICATING, PaeToAUTHENTICATED, PaeToHELD,
            PaeToABORTING, TypeOK, PaeType, BeType, SmType, StaType, TimerType,
            LoopType
<1>1. TypeOK'
  BY TypePae
<1>2. Agreement'
  <2>1. auth_pae.state \in {"CONNECTING", "AUTHENTICATING", "AUTHENTICATED", "HELD"}
    BY DEF PaeStates, Agreement, AgreeOutside
  <2>2. auth_pae.state = "AUTHENTICATING" => be_auth.state \in {"RESPONSE", "REQUEST"}
    BY DEF Agreement, AgreeOutside, VerdictFlags
  <2>3. AgreeInside'
    BY <2>1, <2>2 DEF Agreement, AgreeOutside, AgreeInside
  <2>4. QED BY <2>3 DEF Agreement
<1>3. /\ StartFlag' /\ VerdictFlags' /\ AnswerFlags' /\ FailureSeen'
      /\ RetryCount' /\ AuthenticatedByAccept' /\ RetryBounds'
      /\ RequestHoldsChallenge'
  BY DEF StartFlag, VerdictFlags, AnswerFlags, Messages, FailureSeen,
         RetryCount, AuthenticatedByAccept, RetryBounds, RequestHoldsChallenge
<1>4. QuietPass'
  <2>1. auth_pae.state \in {"CONNECTING", "AUTHENTICATING", "AUTHENTICATED", "HELD"}
    BY DEF PaeStates, Agreement, AgreeOutside
  <2>2. QED BY <2>1 DEF QuietPass
<1>5. MachinesAgree' /\ WaitingForServer' /\ FailureCloses'
  BY DEF MachinesAgree, WaitingForServer, FailureCloses, AtRest
<1>6. QED BY <1>1, <1>2, <1>3, <1>4, <1>5

\* The entries of the backend machine.
LEMMA Keeps_BE_AUTH_INITIALIZE ==
  IInv /\ Step_BE_AUTH /\ BE_AUTH_INITIALIZE => IInv'
<1> SUFFICES ASSUME IInv, Step_BE_AUTH, BE_AUTH_INITIALIZE PROVE IInv'
  OBVIOUS
<1> USE DEF IInv, BE_AUTH_INITIALIZE, Step_BE_AUTH, Pass, TypeOK, PaeType,
            BeType, SmType, StaType, TimerType, LoopType
<1>1. TypeOK'
  BY TypeBe
<1>2. /\ Agreement' /\ AnswerFlags' /\ FailureSeen' /\ RetryCount'
      /\ AuthenticatedByAccept' /\ RetryBounds' /\ RequestHoldsChallenge'
  BY DEF Agreement, AgreeInside, AgreeOutside, AnswerFlags, Messages,
         FailureSeen, RetryCount, AuthenticatedByAccept, RetryBounds,
         RequestHoldsChallenge
<1>3. StartFlag'
  BY DEF StartFlag, Agreement, AgreeInside, AgreeOutside
<1>4. VerdictFlags'
  BY DEF VerdictFlags, Agreement, AgreeInside, AgreeOutside
<1>5. QuietPass'
  BY ConstantsAssumption DEF QuietPass, Agreement, AgreeInside, AgreeOutside
<1>6. MachinesAgree' /\ WaitingForServer' /\ FailureCloses'
  BY DEF MachinesAgree, WaitingForServer, FailureCloses, AtRest
<1>7. QED BY <1>1, <1>2, <1>3, <1>4, <1>5, <1>6

LEMMA Keeps_BE_AUTH_REQUEST ==
  IInv /\ Step_BE_AUTH /\ BE_AUTH_REQUEST => IInv'
<1> SUFFICES ASSUME IInv, Step_BE_AUTH, BE_AUTH_REQUEST PROVE IInv'
  OBVIOUS
<1> USE DEF IInv, BE_AUTH_REQUEST, BeToREQUEST, BeRetransmits, Step_BE_AUTH,
            Pass, TypeOK, PaeType, BeType, SmType, StaType, TimerType, LoopType
<1>1. TypeOK'
  BY TypeBe
<1>2. /\ Agreement' /\ StartFlag' /\ VerdictFlags' /\ AnswerFlags' /\ QuietPass'
      /\ FailureSeen' /\ RetryCount' /\ AuthenticatedByAccept'
  BY DEF Agreement, AgreeInside, AgreeOutside, StartFlag, VerdictFlags,
         AnswerFlags, Messages, QuietPass, FailureSeen, RetryCount,
         AuthenticatedByAccept
<1>3. RetryBounds'
  BY ConstantsAssumption DEF RetryBounds, AnswerFlags
<1>4. RequestHoldsChallenge'
  BY DEF RequestHoldsChallenge, AnswerFlags
<1>5. MachinesAgree' /\ WaitingForServer' /\ FailureCloses'
  BY DEF MachinesAgree, WaitingForServer, FailureCloses, AtRest
<1>6. QED BY <1>1, <1>2, <1>3, <1>4, <1>5

LEMMA Keeps_BE_AUTH_RESPONSE ==
  IInv /\ Step_BE_AUTH /\ BE_AUTH_RESPONSE => IInv'
<1> SUFFICES ASSUME IInv, Step_BE_AUTH, BE_AUTH_RESPONSE PROVE IInv'
  OBVIOUS
<1> USE DEF IInv, BE_AUTH_RESPONSE, BeToRESPONSE, BeRetransmits, Step_BE_AUTH,
            Pass, TypeOK, PaeType, BeType, SmType, StaType, TimerType, LoopType
<1>1. TypeOK'
  BY TypeBe
<1>2. Agreement'
  BY DEF Agreement, AgreeInside, AgreeOutside, StartFlag, VerdictFlags
<1>3. /\ StartFlag' /\ VerdictFlags' /\ QuietPass' /\ FailureSeen' /\ RetryCount'
      /\ RequestHoldsChallenge'
  BY DEF StartFlag, VerdictFlags, QuietPass, FailureSeen, RetryCount,
         RequestHoldsChallenge
<1>4. AnswerFlags'
  BY ConstantsAssumption DEF AnswerFlags, Messages, Agreement, AgreeInside,
                             AgreeOutside
<1>5. AuthenticatedByAccept'
  BY DEF AuthenticatedByAccept, Agreement, AgreeInside, AgreeOutside, StartFlag,
         VerdictFlags
<1>6. RetryBounds'
  BY ConstantsAssumption DEF RetryBounds, Agreement, AgreeInside, AgreeOutside
<1>7. MachinesAgree' /\ WaitingForServer' /\ FailureCloses'
  BY DEF MachinesAgree, WaitingForServer, FailureCloses, AtRest
<1>8. QED BY <1>1, <1>2, <1>3, <1>4, <1>5, <1>6, <1>7

LEMMA Keeps_BE_AUTH_SUCCESS ==
  IInv /\ Step_BE_AUTH /\ BE_AUTH_SUCCESS => IInv'
<1> SUFFICES ASSUME IInv, Step_BE_AUTH, BE_AUTH_SUCCESS PROVE IInv'
  OBVIOUS
<1> USE DEF IInv, BE_AUTH_SUCCESS, BeToSUCCESS, Step_BE_AUTH, Pass, TypeOK,
            PaeType, BeType, SmType, StaType, TimerType, LoopType
<1>1. TypeOK'
  BY TypeBe
<1>2. /\ Agreement' /\ StartFlag' /\ VerdictFlags' /\ AnswerFlags' /\ QuietPass'
      /\ FailureSeen' /\ RetryCount' /\ AuthenticatedByAccept' /\ RetryBounds'
      /\ RequestHoldsChallenge'
  BY DEF Agreement, AgreeInside, AgreeOutside, StartFlag, VerdictFlags,
         AnswerFlags, Messages, QuietPass, FailureSeen, RetryCount,
         AuthenticatedByAccept, RetryBounds, RequestHoldsChallenge
<1>3. MachinesAgree' /\ WaitingForServer' /\ FailureCloses'
  BY DEF MachinesAgree, WaitingForServer, FailureCloses, AtRest
<1>4. QED BY <1>1, <1>2, <1>3

LEMMA Keeps_BE_AUTH_FAIL == IInv /\ Step_BE_AUTH /\ BE_AUTH_FAIL => IInv'
<1> SUFFICES ASSUME IInv, Step_BE_AUTH, BE_AUTH_FAIL PROVE IInv'
  OBVIOUS
<1> USE DEF IInv, BE_AUTH_FAIL, BeToFAIL, Step_BE_AUTH, Pass, TypeOK, PaeType,
            BeType, SmType, StaType, TimerType, LoopType
<1>1. TypeOK'
  BY TypeBe
<1>2. /\ Agreement' /\ StartFlag' /\ VerdictFlags' /\ AnswerFlags' /\ QuietPass'
      /\ RetryCount' /\ AuthenticatedByAccept' /\ RetryBounds'
      /\ RequestHoldsChallenge'
  BY DEF Agreement, AgreeInside, AgreeOutside, StartFlag, VerdictFlags,
         AnswerFlags, Messages, QuietPass, RetryCount, AuthenticatedByAccept,
         RetryBounds, RequestHoldsChallenge
<1>3. FailureSeen'
  BY DEF FailureSeen, Agreement, AgreeInside, AgreeOutside
<1>4. MachinesAgree' /\ WaitingForServer' /\ FailureCloses'
  BY DEF MachinesAgree, WaitingForServer, FailureCloses, AtRest
<1>5. QED BY <1>1, <1>2, <1>3, <1>4

LEMMA Keeps_BE_AUTH_TIMEOUT ==
  IInv /\ Step_BE_AUTH /\ BE_AUTH_TIMEOUT => IInv'
<1> SUFFICES ASSUME IInv, Step_BE_AUTH, BE_AUTH_TIMEOUT PROVE IInv'
  OBVIOUS
<1> USE DEF IInv, BE_AUTH_TIMEOUT, BeToTIMEOUT, BeRetransmits, Step_BE_AUTH,
            Pass, TypeOK, PaeType, BeType, SmType, StaType, TimerType, LoopType
<1>1. TypeOK'
  BY TypeBe
<1>2. /\ Agreement' /\ StartFlag' /\ VerdictFlags' /\ AnswerFlags' /\ QuietPass'
      /\ FailureSeen' /\ RetryCount' /\ AuthenticatedByAccept' /\ RetryBounds'
      /\ RequestHoldsChallenge'
  BY DEF Agreement, AgreeInside, AgreeOutside, StartFlag, VerdictFlags,
         AnswerFlags, Messages, QuietPass, FailureSeen, RetryCount,
         AuthenticatedByAccept, RetryBounds, RequestHoldsChallenge
<1>3. MachinesAgree' /\ WaitingForServer' /\ FailureCloses'
  BY DEF MachinesAgree, WaitingForServer, FailureCloses, AtRest
<1>4. QED BY <1>1, <1>2, <1>3

LEMMA Keeps_BE_AUTH_IDLE == IInv /\ Step_BE_AUTH /\ BE_AUTH_IDLE => IInv'
<1> SUFFICES ASSUME IInv, Step_BE_AUTH, BE_AUTH_IDLE PROVE IInv'
  OBVIOUS
<1> USE DEF IInv, BE_AUTH_IDLE, BeToIDLE, Step_BE_AUTH, Pass, TypeOK, PaeType,
            BeType, SmType, StaType, TimerType, LoopType
<1>1. TypeOK'
  BY TypeBe
<1>2. /\ Agreement' /\ AnswerFlags' /\ QuietPass' /\ FailureSeen' /\ RetryCount'
      /\ AuthenticatedByAccept' /\ RequestHoldsChallenge'
  BY DEF Agreement, AgreeInside, AgreeOutside, AnswerFlags, Messages, QuietPass,
         FailureSeen, RetryCount, AuthenticatedByAccept, RequestHoldsChallenge
<1>3. StartFlag'
  BY DEF StartFlag, Agreement, AgreeInside, AgreeOutside
<1>4. VerdictFlags'
  BY DEF VerdictFlags, Agreement, AgreeInside, AgreeOutside
<1>5. RetryBounds'
  BY ConstantsAssumption DEF RetryBounds, Agreement, AgreeInside, AgreeOutside
<1>6. MachinesAgree' /\ WaitingForServer' /\ FailureCloses'
  BY DEF MachinesAgree, WaitingForServer, FailureCloses, AtRest
<1>7. QED BY <1>1, <1>2, <1>3, <1>4, <1>5, <1>6

LEMMA Keeps_BeStays == IInv /\ Step_BE_AUTH /\ BeStays => IInv'
<1> SUFFICES ASSUME IInv, Step_BE_AUTH, BeStays PROVE IInv'
  OBVIOUS
<1> USE DEF IInv, BeStays, Step_BE_AUTH, Pass, BeRetransmits, BeToREQUEST,
            BeToRESPONSE, BeToTIMEOUT, BeToFAIL, BeToSUCCESS, BeToIDLE, TypeOK,
            PaeType, BeType, SmType, StaType, TimerType, LoopType
<1>1. TypeOK'
  BY TypeBe
<1>2. Agreement'
  BY DEF Agreement, AgreeInside, AgreeOutside, StartFlag, VerdictFlags
<1>3. /\ StartFlag' /\ VerdictFlags' /\ AnswerFlags' /\ FailureSeen'
      /\ RetryCount' /\ AuthenticatedByAccept' /\ RetryBounds'
      /\ RequestHoldsChallenge'
  BY DEF StartFlag, VerdictFlags, AnswerFlags, Messages, FailureSeen,
         RetryCount, AuthenticatedByAccept, RetryBounds, RequestHoldsChallenge
<1>4. QuietPass'
  BY DEF QuietPass, Agreement, AgreeInside, AnswerFlags, BeStates
<1>5. MachinesAgree' /\ WaitingForServer' /\ FailureCloses'
  BY DEF MachinesAgree, WaitingForServer, FailureCloses, AtRest
<1>6. QED BY <1>1, <1>2, <1>3, <1>4, <1>5

\* The two small machines and the loop of eapol_sm_step.
LEMMA Keeps_REAUTH_TIMER == IInv /\ Step_REAUTH_TIMER => IInv'
<1> SUFFICES ASSUME IInv, Step_REAUTH_TIMER PROVE IInv'
  OBVIOUS
<1> USE DEF IInv, Step_REAUTH_TIMER, REAUTH_TIMER_INITIALIZE,
            REAUTH_TIMER_REAUTHENTICATE, ReauthStays, Pass, TypeOK, PaeType,
            BeType, SmType, StaType, TimerType, LoopType
<1>1. TypeOK'
  BY TypeReauth
<1>2. /\ Agreement' /\ StartFlag' /\ VerdictFlags' /\ AnswerFlags' /\ QuietPass'
      /\ FailureSeen' /\ RetryCount' /\ AuthenticatedByAccept' /\ RetryBounds'
      /\ RequestHoldsChallenge'
  BY DEF Agreement, AgreeInside, AgreeOutside, StartFlag, VerdictFlags,
         AnswerFlags, Messages, QuietPass, FailureSeen, RetryCount,
         AuthenticatedByAccept, RetryBounds, RequestHoldsChallenge
<1>3. MachinesAgree' /\ WaitingForServer' /\ FailureCloses'
  BY DEF MachinesAgree, WaitingForServer, FailureCloses, AtRest
<1>4. QED BY <1>1, <1>2, <1>3

LEMMA Keeps_AUTH_KEY_TX == IInv /\ Step_AUTH_KEY_TX => IInv'
<1> SUFFICES ASSUME IInv, Step_AUTH_KEY_TX PROVE IInv'
  OBVIOUS
<1> USE DEF IInv, Step_AUTH_KEY_TX, AUTH_KEY_TX_NO_KEY_TRANSMIT,
            AUTH_KEY_TX_KEY_TRANSMIT, KeyStays, Pass, TypeOK, PaeType, BeType,
            SmType, StaType, TimerType, LoopType
<1>1. TypeOK'
  BY TypeKey
<1>2. /\ Agreement' /\ StartFlag' /\ VerdictFlags' /\ AnswerFlags' /\ QuietPass'
      /\ FailureSeen' /\ RetryCount' /\ AuthenticatedByAccept' /\ RetryBounds'
      /\ RequestHoldsChallenge'
  BY DEF Agreement, AgreeInside, AgreeOutside, StartFlag, VerdictFlags,
         AnswerFlags, Messages, QuietPass, FailureSeen, RetryCount,
         AuthenticatedByAccept, RetryBounds, RequestHoldsChallenge
<1>3. MachinesAgree' /\ WaitingForServer' /\ FailureCloses'
  BY DEF MachinesAgree, WaitingForServer, FailureCloses, AtRest
<1>4. QED BY <1>1, <1>2, <1>3

LEMMA Keeps_AnotherPass == IInv /\ AnotherPass => IInv'
<1> SUFFICES ASSUME IInv, AnotherPass PROVE IInv'
  OBVIOUS
<1> USE DEF IInv, AnotherPass, machines, TypeOK, PaeType, BeType, SmType,
            StaType, TimerType, LoopType
<1>1. TypeOK'
  BY TypeLoop
<1>2. /\ Agreement' /\ StartFlag' /\ VerdictFlags' /\ AnswerFlags' /\ QuietPass'
      /\ FailureSeen' /\ RetryCount' /\ AuthenticatedByAccept' /\ RetryBounds'
      /\ RequestHoldsChallenge'
  BY DEF Agreement, AgreeInside, AgreeOutside, StartFlag, VerdictFlags,
         AnswerFlags, Messages, QuietPass, FailureSeen, RetryCount,
         AuthenticatedByAccept, RetryBounds, RequestHoldsChallenge
<1>3. MachinesAgree' /\ WaitingForServer' /\ FailureCloses'
  BY DEF MachinesAgree, WaitingForServer, FailureCloses, AtRest
<1>4. QED BY <1>1, <1>2, <1>3

LEMMA Keeps_StepAgain == IInv /\ StepAgain => IInv'
<1> SUFFICES ASSUME IInv, StepAgain PROVE IInv'
  OBVIOUS
<1> USE DEF IInv, StepAgain, machines, TypeOK, PaeType, BeType, SmType, StaType,
            TimerType, LoopType
<1>1. TypeOK'
  BY TypeLoop
<1>2. /\ Agreement' /\ StartFlag' /\ VerdictFlags' /\ AnswerFlags' /\ QuietPass'
      /\ FailureSeen' /\ RetryCount' /\ AuthenticatedByAccept' /\ RetryBounds'
      /\ RequestHoldsChallenge'
  BY DEF Agreement, AgreeInside, AgreeOutside, StartFlag, VerdictFlags,
         AnswerFlags, Messages, QuietPass, FailureSeen, RetryCount,
         AuthenticatedByAccept, RetryBounds, RequestHoldsChallenge
<1>3. MachinesAgree' /\ WaitingForServer' /\ FailureCloses'
  BY DEF MachinesAgree, WaitingForServer, FailureCloses, AtRest
<1>4. QED BY <1>1, <1>2, <1>3

LEMMA Keeps_Return == IInv /\ Return => IInv'
<1> SUFFICES ASSUME IInv, Return PROVE IInv'
  OBVIOUS
<1> USE DEF IInv, Return, machines, TypeOK, PaeType, BeType, SmType, StaType,
            TimerType, LoopType
<1>1. TypeOK'
  BY TypeLoop
<1>2. /\ Agreement' /\ StartFlag' /\ VerdictFlags' /\ AnswerFlags' /\ QuietPass'
      /\ FailureSeen' /\ RetryCount' /\ AuthenticatedByAccept' /\ RetryBounds'
      /\ RequestHoldsChallenge'
  BY DEF Agreement, AgreeInside, AgreeOutside, StartFlag, VerdictFlags,
         AnswerFlags, Messages, QuietPass, FailureSeen, RetryCount,
         AuthenticatedByAccept, RetryBounds, RequestHoldsChallenge
<1>3. MachinesAgree' /\ WaitingForServer' /\ FailureCloses'
  BY DEF MachinesAgree, WaitingForServer, FailureCloses, AtRest, Agreement,
         AgreeOutside, StartFlag, VerdictFlags, QuietPass, FailureSeen, PaeStates
<1>4. QED BY <1>1, <1>2, <1>3

\* The handlers.
LEMMA Keeps_receive == IInv /\ ieee802_1x_receive => IInv'
<1> SUFFICES ASSUME IInv, ieee802_1x_receive PROVE IInv'
  OBVIOUS
<1> USE DEF IInv, ieee802_1x_receive, ReceiveIdentity, ReceiveResponse,
            ReceiveStart, ReceiveLogoff, ReceiveOther, ReceiveMalformed,
            StartLoop, Ap_get_sta, TypeOK, PaeType, BeType, SmType, StaType,
            TimerType, LoopType
<1>1. TypeOK'
  BY TypeReceive
<1>2. /\ Agreement' /\ StartFlag' /\ VerdictFlags' /\ AnswerFlags' /\ QuietPass'
      /\ FailureSeen' /\ RetryCount' /\ AuthenticatedByAccept' /\ RetryBounds'
      /\ RequestHoldsChallenge'
  BY DEF Agreement, AgreeInside, AgreeOutside, StartFlag, VerdictFlags,
         AnswerFlags, Messages, QuietPass, FailureSeen, RetryCount,
         AuthenticatedByAccept, RetryBounds, RequestHoldsChallenge
<1>3. MachinesAgree' /\ WaitingForServer' /\ FailureCloses'
  BY DEF MachinesAgree, WaitingForServer, FailureCloses, AtRest
<1>4. QED BY <1>1, <1>2, <1>3

LEMMA Keeps_receive_auth == IInv /\ ieee802_1x_receive_auth => IInv'
<1> SUFFICES ASSUME IInv, ieee802_1x_receive_auth PROVE IInv'
  OBVIOUS
<1> USE DEF IInv
<1>1. TypeOK'
  BY TypeReceiveAuth
<1>2. /\ auth_pae' = auth_pae /\ timer' = timer
      /\ loop.pc = "idle" /\ loop'.pc = "AUTH_PAE"
      /\ sta.pending /\ ~sta'.pending
  <2>1. auth_pae' = auth_pae /\ timer' = timer
    BY DEF ieee802_1x_receive_auth, AcceptReauthenticate, AcceptSessionTimeout,
           AcceptAndFree, ReceiveReject, ReceiveChallenge, AcceptBase
  <2>2. loop.pc = "idle" /\ loop'.pc = "AUTH_PAE"
    <3>1. PICK then \in {"return", "free"} : StartLoop(then)
      BY DEF ieee802_1x_receive_auth, AcceptReauthenticate, AcceptSessionTimeout,
             AcceptAndFree, ReceiveReject, ReceiveChallenge
    <3>2. QED BY <3>1 DEF StartLoop
  <2>3. sta.pending /\ ~sta'.pending
    BY DEF ieee802_1x_receive_auth, AcceptReauthenticate, AcceptSessionTimeout,
           AcceptAndFree, ReceiveReject, ReceiveChallenge, Answered,
           TypeOK, StaType
  <2>4. QED BY <2>1, <2>2, <2>3
\* The answer raises one flag of the backend machine and names its code.
<1>3. /\ be_auth'.state = be_auth.state /\ be_auth'.reqCount = be_auth.reqCount
      /\ \/ /\ sta'.last_recv_radius = "accept" /\ be_auth'.aSuccess
            /\ be_auth'.aReq = be_auth.aReq /\ be_auth'.aFail = be_auth.aFail
         \/ /\ sta'.last_recv_radius = "reject" /\ be_auth'.aFail
            /\ be_auth'.aReq = be_auth.aReq /\ be_auth'.aSuccess = be_auth.aSuccess
         \/ /\ sta'.last_recv_radius = "challenge" /\ be_auth'.aReq
            /\ be_auth'.aFail = be_auth.aFail /\ be_auth'.aSuccess = be_auth.aSuccess
  BY DEF ieee802_1x_receive_auth, AcceptReauthenticate, AcceptSessionTimeout,
         AcceptAndFree, ReceiveReject, ReceiveChallenge, AcceptBase, Answered,
         TypeOK, StaType, BeType
<1>4. /\ sm'.portStatus = sm.portStatus /\ sm'.authStart = sm.authStart
      /\ sm'.authAbort = sm.authAbort /\ sm'.authSuccess = sm.authSuccess
      /\ sm'.authFail = sm.authFail /\ sm'.authTimeout = sm.authTimeout
  BY DEF ieee802_1x_receive_auth, AcceptReauthenticate, AcceptSessionTimeout,
         AcceptAndFree, ReceiveReject, ReceiveChallenge, AcceptBase,
         TypeOK, SmType
<1>5. Agreement'
  BY <1>2, <1>3, <1>4 DEF Agreement, AgreeOutside
<1>6. StartFlag' /\ VerdictFlags' /\ FailureSeen' /\ RetryCount' /\ RetryBounds'
  BY <1>2, <1>3, <1>4 DEF StartFlag, VerdictFlags, FailureSeen, RetryCount, RetryBounds
<1>7. AnswerFlags'
  BY <1>2, <1>3 DEF AnswerFlags
<1>8. QuietPass' /\ MachinesAgree' /\ WaitingForServer' /\ FailureCloses'
  BY <1>2 DEF QuietPass, MachinesAgree, WaitingForServer, FailureCloses, AtRest
<1>9. AuthenticatedByAccept' /\ RequestHoldsChallenge'
  BY <1>2, <1>3 DEF AuthenticatedByAccept, RequestHoldsChallenge
<1>10. QED BY <1>1, <1>5, <1>6, <1>7, <1>8, <1>9

LEMMA Keeps_tick == IInv /\ eapol_port_timers_tick => IInv'
<1> SUFFICES ASSUME IInv, eapol_port_timers_tick PROVE IInv'
  OBVIOUS
<1> USE DEF IInv, eapol_port_timers_tick, StartLoop, Dec, TypeOK, PaeType,
            BeType, SmType, StaType, TimerType, LoopType
<1>1. TypeOK'
  BY TypeTimers
<1>2. /\ Agreement' /\ StartFlag' /\ VerdictFlags' /\ AnswerFlags' /\ QuietPass'
      /\ FailureSeen' /\ RetryCount' /\ AuthenticatedByAccept' /\ RetryBounds'
      /\ RequestHoldsChallenge'
  BY DEF Agreement, AgreeInside, AgreeOutside, StartFlag, VerdictFlags,
         AnswerFlags, Messages, QuietPass, FailureSeen, RetryCount,
         AuthenticatedByAccept, RetryBounds, RequestHoldsChallenge
<1>3. MachinesAgree' /\ WaitingForServer' /\ FailureCloses'
  BY DEF MachinesAgree, WaitingForServer, FailureCloses, AtRest
<1>4. QED BY <1>1, <1>2, <1>3

LEMMA Keeps_session_timer == IInv /\ Ap_handle_session_timer => IInv'
<1> SUFFICES ASSUME IInv, Ap_handle_session_timer PROVE IInv'
  OBVIOUS
<1> USE DEF IInv, Ap_handle_session_timer, TypeOK, PaeType, BeType, SmType,
            StaType, TimerType, LoopType
<1>1. TypeOK'
  BY TypeTimers
<1>2. /\ Agreement' /\ StartFlag' /\ VerdictFlags' /\ AnswerFlags' /\ QuietPass'
      /\ FailureSeen' /\ RetryCount' /\ AuthenticatedByAccept' /\ RetryBounds'
      /\ RequestHoldsChallenge'
  BY DEF Agreement, AgreeInside, AgreeOutside, StartFlag, VerdictFlags,
         AnswerFlags, Messages, QuietPass, FailureSeen, RetryCount,
         AuthenticatedByAccept, RetryBounds, RequestHoldsChallenge
<1>3. MachinesAgree' /\ WaitingForServer' /\ FailureCloses'
  BY DEF MachinesAgree, WaitingForServer, FailureCloses, AtRest
<1>4. QED BY <1>1, <1>2, <1>3

LEMMA Keeps_Ap_free_sta ==
  IInv /\ Ap_free_sta /\ loop'.pc = "idle" /\ loop' \in LoopType => IInv'
<1> SUFFICES ASSUME IInv, Ap_free_sta, loop'.pc = "idle", loop' \in LoopType
             PROVE  IInv'
  OBVIOUS
<1>1. TypeOK'
  BY TypeFree DEF IInv
<1>2. /\ auth_pae'.state = "INITIALIZE" /\ auth_pae'.reAuthCount = 0
      /\ be_auth'.state = "IDLE" /\ be_auth'.reqCount = 0
      /\ ~sm'.authAbort /\ ~sm'.authStart /\ ~sm'.authFail
      /\ sm'.portStatus = "Unauthorized"
  BY DEF Ap_free_sta, FreshPae, FreshBe, FreshSm
<1>3. Agreement' /\ StartFlag' /\ VerdictFlags' /\ AnswerFlags' /\ QuietPass'
  BY <1>2 DEF Agreement, AgreeOutside, StartFlag, VerdictFlags, AnswerFlags, QuietPass
<1>4. FailureSeen' /\ RetryCount' /\ AuthenticatedByAccept' /\ RequestHoldsChallenge'
  BY <1>2 DEF FailureSeen, RetryCount, AuthenticatedByAccept, RequestHoldsChallenge
<1>5. RetryBounds'
  BY <1>2, ConstantsAssumption DEF RetryBounds
<1>6. MachinesAgree' /\ WaitingForServer' /\ FailureCloses'
  BY <1>2 DEF MachinesAgree, WaitingForServer, FailureCloses
<1>7. QED BY <1>1, <1>3, <1>4, <1>5, <1>6 DEF IInv

LEMMA IInvInit == Init => IInv
<1> SUFFICES ASSUME Init PROVE IInv
  OBVIOUS
<1>1. TypeOK
  BY TypeInit
<1>2. /\ auth_pae.state = "INITIALIZE" /\ auth_pae.reAuthCount = 0
      /\ be_auth.state = "IDLE" /\ be_auth.reqCount = 0
      /\ ~sm.authAbort /\ ~sm.authStart /\ ~sm.authFail
      /\ sm.portStatus = "Unauthorized" /\ loop.pc = "idle"
  BY DEF Init, FreshPae, FreshBe, FreshSm
<1>3. Agreement /\ StartFlag /\ VerdictFlags /\ AnswerFlags /\ QuietPass
  BY <1>2 DEF Agreement, AgreeOutside, StartFlag, VerdictFlags, AnswerFlags, QuietPass
<1>4. FailureSeen /\ RetryCount /\ AuthenticatedByAccept /\ RequestHoldsChallenge
  BY <1>2 DEF FailureSeen, RetryCount, AuthenticatedByAccept, RequestHoldsChallenge
<1>5. RetryBounds
  BY <1>2, ConstantsAssumption DEF RetryBounds
<1>6. MachinesAgree /\ WaitingForServer /\ FailureCloses
  BY <1>2 DEF MachinesAgree, WaitingForServer, FailureCloses
<1>7. QED BY <1>1, <1>3, <1>4, <1>5, <1>6 DEF IInv

\* Every step of the daemon.
LEMMA Keeps_eapol_sm_step == IInv /\ eapol_sm_step => IInv'
<1> SUFFICES ASSUME IInv, eapol_sm_step PROVE IInv'
  OBVIOUS
<1>1. CASE Step_AUTH_PAE
  BY <1>1, Keeps_AUTH_PAE_DISCONNECTED, Keeps_AUTH_PAE_CONNECTING,
     Keeps_AUTH_PAE_AUTHENTICATING, Keeps_AUTH_PAE_AUTHENTICATED,
     Keeps_AUTH_PAE_HELD, Keeps_AUTH_PAE_ABORTING, Keeps_PaeStays
     DEF Step_AUTH_PAE
<1>2. CASE Step_BE_AUTH
  BY <1>2, Keeps_BE_AUTH_INITIALIZE, Keeps_BE_AUTH_REQUEST, Keeps_BE_AUTH_RESPONSE,
     Keeps_BE_AUTH_SUCCESS, Keeps_BE_AUTH_FAIL, Keeps_BE_AUTH_TIMEOUT,
     Keeps_BE_AUTH_IDLE, Keeps_BeStays
     DEF Step_BE_AUTH
<1>3. CASE Step_REAUTH_TIMER \/ Step_AUTH_KEY_TX
  BY <1>3, Keeps_REAUTH_TIMER, Keeps_AUTH_KEY_TX
<1>4. CASE AnotherPass \/ StepAgain \/ Return
  BY <1>4, Keeps_AnotherPass, Keeps_StepAgain, Keeps_Return
<1>5. CASE ReturnAndFree
  <2>1. loop'.pc = "idle" /\ loop' \in LoopType
    BY <1>5 DEF ReturnAndFree, IInv, TypeOK, LoopType
  <2>2. QED BY <1>5, <2>1, Keeps_Ap_free_sta DEF ReturnAndFree
<1>6. QED BY <1>1, <1>2, <1>3, <1>4, <1>5 DEF eapol_sm_step

LEMMA IInvNext == IInv /\ [Next]_vars => IInv'
<1> SUFFICES ASSUME IInv, [Next]_vars PROVE IInv'
  OBVIOUS
<1>1. CASE eapol_sm_step
  BY <1>1, Keeps_eapol_sm_step
<1>2. CASE ieee802_1x_receive
  BY <1>2, Keeps_receive
<1>3. CASE ieee802_1x_receive_auth
  BY <1>3, Keeps_receive_auth
<1>4. CASE eapol_port_timers_tick
  BY <1>4, Keeps_tick
<1>5. CASE Ap_handle_session_timer
  BY <1>5, Keeps_session_timer
<1>6. CASE Apd_free_stas
  <2>1. loop'.pc = "idle" /\ loop' \in LoopType
    BY <1>6 DEF Apd_free_stas, IInv, TypeOK
  <2>2. QED BY <1>6, <2>1, Keeps_Ap_free_sta DEF Apd_free_stas
<1>7. CASE UNCHANGED vars
  BY <1>7 DEF vars, IInv, TypeOK, Agreement, AgreeInside, AgreeOutside, StartFlag,
     VerdictFlags, AnswerFlags, QuietPass, FailureSeen, RetryCount,
     AuthenticatedByAccept, MachinesAgree, WaitingForServer, FailureCloses,
     RetryBounds, RequestHoldsChallenge, AtRest
<1>8. QED BY <1>1, <1>2, <1>3, <1>4, <1>5, <1>6, <1>7 DEF Next

LEMMA Inductive == SafetySpec => []IInv
BY IInvInit, IInvNext, PTL DEF SafetySpec

-----------------------------------------------------------------------------
(***************************************************************************)
(* The theorems.                                                           *)
(***************************************************************************)
\* In every behaviour of the daemon, whatever the timeouts, the retry limits
\* and the Session-Timeout values: a station is AUTHENTICATED only on an Accept
\* to its latest request.
THEOREM AuthenticatedByAcceptHolds == Spec => []AuthenticatedByAccept
<1>1. IInv => AuthenticatedByAccept
  BY DEF IInv
<1>2. QED BY <1>1, Inductive, PTL DEF Spec

\* The PAE and the backend machine agree whenever eapol_sm_step has returned.
THEOREM MachinesAgreeHolds == Spec => []MachinesAgree
<1>1. IInv => MachinesAgree
  BY DEF IInv
<1>2. QED BY <1>1, Inductive, PTL DEF Spec

\* A backend machine that waits for the server can be answered or times out,
\* and while a request waits for the supplicant the stored answer is its
\* challenge.
THEOREM ExchangeInStepHolds == Spec => []ExchangeInStep
<1>1. IInv => ExchangeInStep
  BY DEF IInv, ExchangeInStep
<1>2. QED BY <1>1, Inductive, PTL DEF Spec

\* The port is closed under a failure of the last exchange.
THEOREM FailureClosesHolds == Spec => []FailureCloses
<1>1. IInv => FailureCloses
  BY DEF IInv
<1>2. QED BY <1>1, Inductive, PTL DEF Spec

\* The retry counters stay within maxReq and reAuthMax + 1.
THEOREM RetryBoundsHolds == Spec => []RetryBounds
<1>1. IInv => RetryBounds
  BY DEF IInv
<1>2. QED BY <1>1, Inductive, PTL DEF Spec

\* Every reply to a challenge carries the State attribute of that challenge.
THEOREM ChallengeReplyCarriesStateHolds == Spec => ChallengeReplyCarriesState
<1>1. IInv /\ [Next]_vars =>
        [RequestSent /\ be_auth.state = "REQUEST" => CarriesState]_vars
  BY DEF IInv, RequestHoldsChallenge, CarriesState
<1>2. QED BY <1>1, Inductive, PTL DEF Spec, SafetySpec, ChallengeReplyCarriesState

-----------------------------------------------------------------------------
(***************************************************************************)
(* The refinement: every step of the daemon on the station is a step of    *)
(* PortAccess, or leaves the port and the exchange alone.                  *)
(***************************************************************************)
\* What a step does to the state of PortAccess under the mapping.
PortStep == [Port!PortNext]_(Port!portVars)

LEMMA Stutters ==
  ASSUME sm'.portStatus = sm.portStatus, sta'.pending = sta.pending,
         Granted' <=> Granted
  PROVE  PortStep
BY DEF PortStep, Port!portVars

LEMMA PortPae == IInv /\ Step_AUTH_PAE => PortStep
<1> SUFFICES ASSUME IInv, Step_AUTH_PAE PROVE PortStep
  OBVIOUS
<1> USE DEF IInv, TypeOK, PaeType, SmType, StaType, Step_AUTH_PAE
<1>1. CASE AUTH_PAE_DISCONNECTED
  <2>1. /\ sm'.portStatus = "Unauthorized" /\ sta' = sta
        /\ ~Granted /\ ~Granted'
    BY <1>1 DEF AUTH_PAE_DISCONNECTED, PaeToDISCONNECTED, Granted
  <2>2. QED BY <2>1 DEF PortStep, Port!PortNext, Port!Close
<1>2. CASE AUTH_PAE_CONNECTING
  <2>1. /\ sm'.portStatus = sm.portStatus /\ sta'.pending = sta.pending
        /\ ~Granted /\ ~Granted'
    BY <1>2 DEF AUTH_PAE_CONNECTING, PaeToCONNECTING, Granted
  <2>2. QED BY <2>1, Stutters
<1>3. CASE AUTH_PAE_AUTHENTICATING
  <2>1. /\ sm'.portStatus = sm.portStatus /\ sta' = sta /\ ~Granted
    BY <1>3 DEF AUTH_PAE_AUTHENTICATING, PaeToAUTHENTICATING, Granted
  <2>2. be_auth' = be_auth /\ be_auth.state = "IDLE" /\ ~sm'.authSuccess
    BY <1>3 DEF AUTH_PAE_AUTHENTICATING, PaeToAUTHENTICATING, Agreement, AgreeOutside
  <2>3. ~Granted'
    BY <2>2 DEF Granted
  <2>4. QED BY <2>1, <2>3, Stutters
<1>4. CASE AUTH_PAE_AUTHENTICATED
  <2>1. ~sta.pending /\ Granted /\ sta' = sta
    BY <1>4 DEF AUTH_PAE_AUTHENTICATED, PaeToAUTHENTICATED, VerdictFlags,
                AnswerFlags, Granted
  <2>2. sm'.portStatus = "Authorized" /\ ~Granted'
    BY <1>4 DEF AUTH_PAE_AUTHENTICATED, Granted
  <2>3. QED BY <2>1, <2>2 DEF PortStep, Port!PortNext, Port!Open
<1>5. CASE AUTH_PAE_HELD
  <2>1. be_auth.state = "FAIL" /\ ~sm.authSuccess
    BY <1>5 DEF AUTH_PAE_HELD, PaeToHELD, VerdictFlags
  <2>2. sm'.portStatus = "Unauthorized" /\ sta' = sta /\ ~Granted /\ ~Granted'
    BY <1>5, <2>1 DEF AUTH_PAE_HELD, Granted
  <2>3. QED BY <2>2 DEF PortStep, Port!PortNext, Port!Close
<1>6. CASE AUTH_PAE_ABORTING
  <2>1. sm'.portStatus = sm.portStatus /\ sta' = sta /\ ~Granted'
    BY <1>6 DEF AUTH_PAE_ABORTING, Granted
  <2>2. CASE sta.pending
    BY <2>1, <2>2 DEF PortStep, Port!portVars
  <2>3. CASE ~sta.pending
    BY <2>1, <2>3 DEF PortStep, Port!PortNext, Port!Forget
  <2>4. QED BY <2>2, <2>3
<1>7. CASE PaeStays
  <2>1. Granted' <=> Granted
    BY <1>7 DEF PaeStays, Granted
  <2>2. QED BY <1>7, <2>1, Stutters DEF PaeStays
<1>8. QED BY <1>1, <1>2, <1>3, <1>4, <1>5, <1>6, <1>7

LEMMA PortBe == IInv /\ Step_BE_AUTH => PortStep
<1> SUFFICES ASSUME IInv, Step_BE_AUTH PROVE PortStep
  OBVIOUS
<1> USE DEF IInv, TypeOK, BeType, SmType, StaType, Step_BE_AUTH
<1>1. CASE BE_AUTH_INITIALIZE
  <2>1. auth_pae.state = "ABORTING"
    BY <1>1 DEF BE_AUTH_INITIALIZE, Agreement, AgreeInside
  <2>2. sm'.portStatus = sm.portStatus /\ sta' = sta /\ ~Granted /\ ~Granted'
    BY <1>1, <2>1 DEF BE_AUTH_INITIALIZE, Granted
  <2>3. QED BY <2>2, Stutters
<1>2. CASE BE_AUTH_RESPONSE
  <2>1. sm'.portStatus = sm.portStatus /\ sta'.pending
    BY <1>2 DEF BE_AUTH_RESPONSE
  <2>2. QED BY <2>1 DEF PortStep, Port!PortNext, Port!Ask
<1>3. CASE BE_AUTH_REQUEST \/ BE_AUTH_TIMEOUT \/ BE_AUTH_FAIL
  <2>1. sm'.portStatus = sm.portStatus /\ sta' = sta
    BY <1>3 DEF BE_AUTH_REQUEST, BE_AUTH_TIMEOUT, BE_AUTH_FAIL
  <2>2. Granted' => Granted
    BY <1>3 DEF BE_AUTH_REQUEST, BE_AUTH_TIMEOUT, BE_AUTH_FAIL, Granted
  <2>3. CASE sta.pending \/ (Granted <=> Granted')
    BY <2>1, <2>3 DEF PortStep, Port!portVars
  <2>4. CASE ~sta.pending /\ ~Granted'
    BY <2>1, <2>4 DEF PortStep, Port!PortNext, Port!Forget
  <2>5. QED BY <2>2, <2>3, <2>4
<1>4. CASE BE_AUTH_SUCCESS
  <2>1. auth_pae' = auth_pae /\ auth_pae.state \in {"AUTHENTICATING", "ABORTING"}
    BY <1>4 DEF BE_AUTH_SUCCESS, BeToSUCCESS, Agreement, AgreeInside
  <2>2. sm'.portStatus = sm.portStatus /\ sta' = sta /\ sm'.authSuccess
    BY <1>4 DEF BE_AUTH_SUCCESS
  <2>3. Granted <=> Granted'
    BY <1>4, <2>1, <2>2 DEF BE_AUTH_SUCCESS, BeToSUCCESS, Granted
  <2>4. QED BY <2>2, <2>3, Stutters
<1>5. CASE BE_AUTH_IDLE
  <2>1. auth_pae' = auth_pae /\ auth_pae.state # "AUTHENTICATING"
    BY <1>5 DEF BE_AUTH_IDLE, BeToIDLE, Agreement, AgreeInside
  <2>2. sm'.portStatus = sm.portStatus /\ sta' = sta /\ ~Granted /\ ~Granted'
    BY <1>5, <2>1 DEF BE_AUTH_IDLE, Granted
  <2>3. QED BY <2>2, Stutters
<1>6. CASE BeStays
  <2>1. Granted' <=> Granted
    BY <1>6 DEF BeStays, Granted
  <2>2. QED BY <1>6, <2>1, Stutters DEF BeStays
<1>7. QED BY <1>1, <1>2, <1>3, <1>4, <1>5, <1>6

LEMMA PortFree == IInv /\ Ap_free_sta => PortStep
<1> SUFFICES ASSUME IInv, Ap_free_sta PROVE PortStep
  OBVIOUS
<1>1. sm'.portStatus = "Unauthorized" /\ ~sta'.pending
  BY DEF Ap_free_sta, FreshSm, IInv, TypeOK, StaType
<1>2. ~Granted'
  BY DEF Ap_free_sta, FreshPae, Granted
<1>3. QED BY <1>1, <1>2 DEF PortStep, Port!PortNext, Port!Close

LEMMA PortReceiveAuth == IInv /\ ieee802_1x_receive_auth => PortStep
<1> SUFFICES ASSUME IInv, ieee802_1x_receive_auth PROVE PortStep
  OBVIOUS
<1> USE DEF IInv, TypeOK, StaType
<1>1. sta.pending /\ ~sta'.pending
  BY DEF ieee802_1x_receive_auth, AcceptReauthenticate, AcceptSessionTimeout,
         AcceptAndFree, ReceiveReject, ReceiveChallenge, Answered
<1>2. sm'.portStatus = sm.portStatus
  BY DEF ieee802_1x_receive_auth, AcceptReauthenticate, AcceptSessionTimeout,
         AcceptAndFree, ReceiveReject, ReceiveChallenge, AcceptBase, SmType
<1>3. CASE Granted'
  BY <1>1, <1>2, <1>3 DEF PortStep, Port!PortNext, Port!Grant
<1>4. CASE ~Granted'
  BY <1>1, <1>2, <1>4 DEF PortStep, Port!PortNext, Port!Forget
<1>5. QED BY <1>3, <1>4

LEMMA PortOthers ==
  /\ IInv /\ (Step_REAUTH_TIMER \/ Step_AUTH_KEY_TX) => PortStep
  /\ IInv /\ (AnotherPass \/ StepAgain \/ Return) => PortStep
  /\ IInv /\ ieee802_1x_receive => PortStep
  /\ IInv /\ (eapol_port_timers_tick \/ Ap_handle_session_timer) => PortStep
<1> USE DEF IInv, TypeOK
<1>1. ASSUME IInv, Step_REAUTH_TIMER \/ Step_AUTH_KEY_TX PROVE PortStep
  <2>1. /\ sm'.portStatus = sm.portStatus /\ sm'.authSuccess = sm.authSuccess
        /\ auth_pae' = auth_pae /\ be_auth' = be_auth /\ sta' = sta
    BY <1>1 DEF Step_REAUTH_TIMER, REAUTH_TIMER_INITIALIZE,
                REAUTH_TIMER_REAUTHENTICATE, ReauthStays, Step_AUTH_KEY_TX,
                AUTH_KEY_TX_NO_KEY_TRANSMIT, AUTH_KEY_TX_KEY_TRANSMIT, KeyStays,
                SmType
  <2>2. QED BY <2>1, Stutters DEF Granted
<1>2. ASSUME IInv, AnotherPass \/ StepAgain \/ Return PROVE PortStep
  BY <1>2, Stutters DEF AnotherPass, StepAgain, Return, machines, Granted
<1>3. ASSUME IInv, ieee802_1x_receive PROVE PortStep
  <2>1. sm' = sm /\ sta'.pending = sta.pending
    BY <1>3 DEF ieee802_1x_receive, ReceiveIdentity, ReceiveResponse, ReceiveStart,
                ReceiveLogoff, ReceiveOther, ReceiveMalformed, Ap_get_sta, StaType
  <2>2. /\ auth_pae'.state = auth_pae.state /\ be_auth'.state = be_auth.state
        /\ be_auth'.aSuccess = be_auth.aSuccess
    BY <1>3 DEF ieee802_1x_receive, ReceiveIdentity, ReceiveResponse, ReceiveStart,
                ReceiveLogoff, ReceiveOther, ReceiveMalformed, PaeType, BeType
  <2>3. QED BY <2>1, <2>2, Stutters DEF Granted
<1>4. ASSUME IInv, eapol_port_timers_tick \/ Ap_handle_session_timer PROVE PortStep
  <2>1. /\ sm' = sm /\ auth_pae' = auth_pae /\ be_auth' = be_auth
        /\ sta'.pending = sta.pending
    BY <1>4 DEF eapol_port_timers_tick, Ap_handle_session_timer, StaType
  <2>2. QED BY <2>1, Stutters DEF Granted
<1>5. QED BY <1>1, <1>2, <1>3, <1>4

LEMMA PortNextStep == IInv /\ [Next]_vars => PortStep
<1> SUFFICES ASSUME IInv, [Next]_vars PROVE PortStep
  OBVIOUS
<1>1. CASE eapol_sm_step
  BY <1>1, PortPae, PortBe, PortOthers, PortFree DEF eapol_sm_step, ReturnAndFree
<1>2. CASE ieee802_1x_receive_auth
  BY <1>2, PortReceiveAuth
<1>3. CASE ieee802_1x_receive \/ eapol_port_timers_tick \/ Ap_handle_session_timer
  BY <1>3, PortOthers
<1>4. CASE Apd_free_stas
  BY <1>4, PortFree DEF Apd_free_stas
<1>5. CASE UNCHANGED vars
  BY <1>5, Stutters DEF vars, Granted
<1>6. QED BY <1>1, <1>2, <1>3, <1>4, <1>5 DEF Next

\* The station implements PortAccess: its port is opened only on an Accept to
\* the latest request, once per Accept, and never by one that was given up.
THEOREM PortAccessImplemented == Spec => ImplementsPortAccess
<1>1. Init => Port!PortInit
  BY DEF Init, FreshSm, FreshPae, Granted, Port!PortInit
<1>2. IInv /\ [Next]_vars => PortStep
  BY PortNextStep
<1>3. QED BY <1>1, <1>2, Inductive, PTL
          DEF Spec, SafetySpec, ImplementsPortAccess, Port!PortSpec, PortStep

=============================================================================
