--------------------------- MODULE EapolFlagProofs ---------------------------
(***************************************************************************)
(* Two more invariants of EapolSm, about flags that outlive the exchange   *)
(* that raised them: reAuthenticate and keyAvailable.  Both rest on what a *)
(* pass of eapol_sm_step that changes nothing leaves behind, so they have  *)
(* an inductive invariant of their own on top of IInv.                     *)
(***************************************************************************)
EXTENDS EapolSmProofs

\* Is eapol_sm_step past the machine that runs before the stages pcs, in a
\* pass that has changed nothing so far, or done?
Quiet(pcs) == loop.pc = "idle" \/ (loop.pc \in pcs /\ ~loop.changed)

AfterPae == {"BE_AUTH", "REAUTH_TIMER", "AUTH_KEY_TX", "test"}
AfterReauth == {"AUTH_KEY_TX", "test"}

\* The reauthentication timer is not about to expire.
NotDue ==
  /\ reauth_timer.state = "INITIALIZE"
  /\ sm.portStatus = "Unauthorized" \/ timer.reAuthWhen # 0

\* The backend has the server's Reject, or has told the PAE machine.
FailPending ==
  /\ auth_pae.state = "AUTHENTICATING"
  /\ be_auth.state = "FAIL" \/ (be_auth.state = "RESPONSE" /\ be_auth.aFail)

\* HELD is the one state that would keep reAuthenticate.  It is entered only
\* after a Reject, which came when the timer was not about to expire.
HeldIsClosed ==
  auth_pae.state = "HELD" => sm.portStatus = "Unauthorized" /\ ~sm.reAuthenticate
NoReauthOnFail == FailPending => ~sm.reAuthenticate /\ NotDue

\* What a quiet pass leaves behind.
QuietPae == Quiet(AfterPae) => ~sm.reAuthenticate /\ ~PaeToCONNECTING
QuietTimer == Quiet(AfterReauth) => NotDue
QuietKey ==
  Quiet({"test"}) /\ auth_key_tx = "KEY_TRANSMIT" => ~sm.authFail /\ ~auth_pae.eapLogoff

\* A Logoff aborts the exchange before the backend runs.
LogoffSeen ==
  loop.pc = "BE_AUTH" /\ auth_pae.state = "AUTHENTICATING" => ~auth_pae.eapLogoff

\* Nothing takes the success back while the station is authenticated.
SuccessKept == auth_pae.state = "AUTHENTICATED" => sm.authSuccess

\* A key that would be sent now: between the Accept, or the SUCCESS that made
\* it sendable, and the next turn of the key machine, nothing drops the Accept.
KeySendable ==
  sm.keyAvailable /\ (auth_key_tx = "KEY_TRANSMIT" \/ sm.authSuccess)
SendableOnAccept ==
  KeySendable =>
    /\ loop.pc \in {"AUTH_PAE", "BE_AUTH", "REAUTH_TIMER", "AUTH_KEY_TX"}
    /\ loop.pc = "AUTH_PAE" => ~PaeToCONNECTING
    /\ sta.last_recv_radius = "accept"
    /\ auth_key_tx = "KEY_TRANSMIT" => ~sm.authFail /\ ~auth_pae.eapLogoff

Flags ==
  /\ HeldIsClosed
  /\ NoReauthOnFail
  /\ QuietPae
  /\ QuietTimer
  /\ QuietKey
  /\ LogoffSeen
  /\ SuccessKept
  /\ SendableOnAccept

FInv == IInv /\ Flags

-----------------------------------------------------------------------------
(***************************************************************************)
(* Every action preserves the flags: a lemma per action, as in             *)
(* EapolSmProofs, and in each a step for reAuthenticate, one for what a    *)
(* quiet pass leaves and one for the key.                                  *)
(***************************************************************************)
LEMMA Flags_AUTH_PAE_DISCONNECTED == FInv /\ Step_AUTH_PAE /\ AUTH_PAE_DISCONNECTED => Flags'
<1> SUFFICES ASSUME FInv, Step_AUTH_PAE, AUTH_PAE_DISCONNECTED PROVE Flags'
  OBVIOUS
<1> USE DEF FInv, IInv, Flags, Step_AUTH_PAE, AUTH_PAE_DISCONNECTED,
            PaeToDISCONNECTED, Pass, Quiet, AfterPae, AfterReauth, TypeOK,
            PaeType, BeType, SmType, StaType, TimerType, LoopType, ReauthType
<1>1. HeldIsClosed' /\ LogoffSeen' /\ SuccessKept'
  BY DEF HeldIsClosed, LogoffSeen, SuccessKept
<1>2. NoReauthOnFail'
  BY DEF NoReauthOnFail, FailPending
<1>3. QuietPae' /\ QuietTimer' /\ QuietKey'
  BY DEF QuietPae, QuietTimer, QuietKey
<1>4. SendableOnAccept'
  BY DEF SendableOnAccept, KeySendable
<1>5. QED BY <1>1, <1>2, <1>3, <1>4

LEMMA Flags_AUTH_PAE_CONNECTING == FInv /\ Step_AUTH_PAE /\ AUTH_PAE_CONNECTING => Flags'
<1> SUFFICES ASSUME FInv, Step_AUTH_PAE, AUTH_PAE_CONNECTING PROVE Flags'
  OBVIOUS
<1> USE DEF FInv, IInv, Flags, Step_AUTH_PAE, AUTH_PAE_CONNECTING, Pass,
            Quiet, AfterPae, AfterReauth, TypeOK, PaeType, BeType, SmType,
            StaType, TimerType, LoopType, ReauthType
<1>1. HeldIsClosed' /\ LogoffSeen' /\ SuccessKept'
  BY DEF HeldIsClosed, LogoffSeen, SuccessKept
<1>2. NoReauthOnFail'
  BY DEF NoReauthOnFail, FailPending
<1>3. QuietPae' /\ QuietTimer' /\ QuietKey'
  BY ConstantsAssumption DEF QuietPae, QuietTimer, QuietKey, PaeToCONNECTING
<1>4. SendableOnAccept'
  BY DEF SendableOnAccept, KeySendable
<1>5. QED BY <1>1, <1>2, <1>3, <1>4

LEMMA Flags_AUTH_PAE_AUTHENTICATING == FInv /\ Step_AUTH_PAE /\ AUTH_PAE_AUTHENTICATING => Flags'
<1> SUFFICES ASSUME FInv, Step_AUTH_PAE, AUTH_PAE_AUTHENTICATING PROVE Flags'
  OBVIOUS
<1> USE DEF FInv, IInv, Flags, Step_AUTH_PAE, AUTH_PAE_AUTHENTICATING,
            PaeToAUTHENTICATING, Pass, Quiet, AfterPae, AfterReauth, TypeOK,
            PaeType, BeType, SmType, StaType, TimerType, LoopType, ReauthType
<1>1. HeldIsClosed' /\ LogoffSeen' /\ SuccessKept'
  BY DEF HeldIsClosed, LogoffSeen, SuccessKept
<1>2. NoReauthOnFail'
  BY DEF NoReauthOnFail, FailPending, Agreement, AgreeOutside
<1>3. QuietPae' /\ QuietTimer' /\ QuietKey'
  BY DEF QuietPae, QuietTimer, QuietKey
<1>4. SendableOnAccept'
  BY DEF SendableOnAccept, KeySendable
<1>5. QED BY <1>1, <1>2, <1>3, <1>4

LEMMA Flags_AUTH_PAE_AUTHENTICATED == FInv /\ Step_AUTH_PAE /\ AUTH_PAE_AUTHENTICATED => Flags'
<1> SUFFICES ASSUME FInv, Step_AUTH_PAE, AUTH_PAE_AUTHENTICATED PROVE Flags'
  OBVIOUS
<1> USE DEF FInv, IInv, Flags, Step_AUTH_PAE, AUTH_PAE_AUTHENTICATED,
            PaeToAUTHENTICATED, Pass, Quiet, AfterPae, AfterReauth, TypeOK,
            PaeType, BeType, SmType, StaType, TimerType, LoopType, ReauthType
<1>1. HeldIsClosed' /\ LogoffSeen' /\ SuccessKept'
  BY DEF HeldIsClosed, LogoffSeen, SuccessKept
<1>2. NoReauthOnFail'
  BY DEF NoReauthOnFail, FailPending
<1>3. QuietPae' /\ QuietTimer' /\ QuietKey'
  BY DEF QuietPae, QuietTimer, QuietKey
<1>4. SendableOnAccept'
  BY DEF SendableOnAccept, KeySendable
<1>5. QED BY <1>1, <1>2, <1>3, <1>4

LEMMA Flags_AUTH_PAE_HELD == FInv /\ Step_AUTH_PAE /\ AUTH_PAE_HELD => Flags'
<1> SUFFICES ASSUME FInv, Step_AUTH_PAE, AUTH_PAE_HELD PROVE Flags'
  OBVIOUS
<1> USE DEF FInv, IInv, Flags, Step_AUTH_PAE, AUTH_PAE_HELD, PaeToHELD, Pass,
            Quiet, AfterPae, AfterReauth, TypeOK, PaeType, BeType, SmType,
            StaType, TimerType, LoopType, ReauthType
<1>1. HeldIsClosed' /\ LogoffSeen' /\ SuccessKept'
  BY DEF HeldIsClosed, LogoffSeen, SuccessKept, FailPending, NoReauthOnFail, VerdictFlags
<1>2. NoReauthOnFail'
  BY DEF NoReauthOnFail, FailPending
<1>3. QuietPae' /\ QuietTimer' /\ QuietKey'
  BY DEF QuietPae, QuietTimer, QuietKey
<1>4. SendableOnAccept'
  BY DEF SendableOnAccept, KeySendable
<1>5. QED BY <1>1, <1>2, <1>3, <1>4

LEMMA Flags_AUTH_PAE_ABORTING == FInv /\ Step_AUTH_PAE /\ AUTH_PAE_ABORTING => Flags'
<1> SUFFICES ASSUME FInv, Step_AUTH_PAE, AUTH_PAE_ABORTING PROVE Flags'
  OBVIOUS
<1> USE DEF FInv, IInv, Flags, Step_AUTH_PAE, AUTH_PAE_ABORTING,
            PaeToABORTING, Pass, Quiet, AfterPae, AfterReauth, TypeOK,
            PaeType, BeType, SmType, StaType, TimerType, LoopType, ReauthType
<1>1. HeldIsClosed' /\ LogoffSeen' /\ SuccessKept'
  BY DEF HeldIsClosed, LogoffSeen, SuccessKept
<1>2. NoReauthOnFail'
  BY DEF NoReauthOnFail, FailPending
<1>3. QuietPae' /\ QuietTimer' /\ QuietKey'
  BY DEF QuietPae, QuietTimer, QuietKey
<1>4. SendableOnAccept'
  BY DEF SendableOnAccept, KeySendable
<1>5. QED BY <1>1, <1>2, <1>3, <1>4

LEMMA Flags_PaeStays == FInv /\ Step_AUTH_PAE /\ PaeStays => Flags'
<1> SUFFICES ASSUME FInv, Step_AUTH_PAE, PaeStays PROVE Flags'
  OBVIOUS
<1> USE DEF FInv, IInv, Flags, Step_AUTH_PAE, PaeStays, PaeToDISCONNECTED,
            PaeToCONNECTING, PaeToAUTHENTICATING, PaeToAUTHENTICATED,
            PaeToHELD, PaeToABORTING, Pass, Quiet, AfterPae, AfterReauth,
            TypeOK, PaeType, BeType, SmType, StaType, TimerType, LoopType,
            ReauthType
<1>1. HeldIsClosed' /\ LogoffSeen' /\ SuccessKept'
  BY DEF HeldIsClosed, LogoffSeen, SuccessKept
<1>2. NoReauthOnFail'
  BY DEF NoReauthOnFail, FailPending, NotDue
<1>3. QuietTimer' /\ QuietKey'
  BY DEF QuietTimer, QuietKey
<1>4. SendableOnAccept'
  BY DEF SendableOnAccept, KeySendable
<1>5. QuietPae'
  <2>1. auth_pae.state \in {"CONNECTING", "AUTHENTICATING", "AUTHENTICATED", "HELD"}
    BY DEF PaeStates, Agreement, AgreeOutside
  <2>2. ~sm.reAuthenticate
    BY <2>1, ConstantsAssumption DEF HeldIsClosed
  <2>3. QED BY <2>2 DEF QuietPae
<1>6. QED BY <1>1, <1>2, <1>3, <1>4, <1>5

LEMMA Flags_BE_AUTH_INITIALIZE == FInv /\ Step_BE_AUTH /\ BE_AUTH_INITIALIZE => Flags'
<1> SUFFICES ASSUME FInv, Step_BE_AUTH, BE_AUTH_INITIALIZE PROVE Flags'
  OBVIOUS
<1> USE DEF FInv, IInv, Flags, Step_BE_AUTH, BE_AUTH_INITIALIZE, Pass, Quiet,
            AfterPae, AfterReauth, TypeOK, PaeType, BeType, SmType, StaType,
            TimerType, LoopType, ReauthType
<1>1. HeldIsClosed' /\ LogoffSeen' /\ SuccessKept'
  BY DEF HeldIsClosed, LogoffSeen, SuccessKept
<1>2. NoReauthOnFail'
  BY DEF NoReauthOnFail, FailPending
<1>3. QuietPae' /\ QuietTimer' /\ QuietKey'
  BY DEF QuietPae, QuietTimer, QuietKey, Agreement, AgreeInside
<1>4. SendableOnAccept'
  BY DEF SendableOnAccept, KeySendable
<1>5. QED BY <1>1, <1>2, <1>3, <1>4

LEMMA Flags_BE_AUTH_REQUEST == FInv /\ Step_BE_AUTH /\ BE_AUTH_REQUEST => Flags'
<1> SUFFICES ASSUME FInv, Step_BE_AUTH, BE_AUTH_REQUEST PROVE Flags'
  OBVIOUS
<1> USE DEF FInv, IInv, Flags, Step_BE_AUTH, BE_AUTH_REQUEST, BeToREQUEST,
            BeRetransmits, Pass, Quiet, AfterPae, AfterReauth, TypeOK,
            PaeType, BeType, SmType, StaType, TimerType, LoopType, ReauthType
<1>1. HeldIsClosed' /\ LogoffSeen' /\ SuccessKept'
  BY DEF HeldIsClosed, LogoffSeen, SuccessKept
<1>2. NoReauthOnFail'
  BY DEF NoReauthOnFail, FailPending
<1>3. QuietPae' /\ QuietTimer' /\ QuietKey'
  BY DEF QuietPae, QuietTimer, QuietKey, PaeToCONNECTING
<1>4. SendableOnAccept'
  BY DEF SendableOnAccept, KeySendable
<1>5. QED BY <1>1, <1>2, <1>3, <1>4

LEMMA Flags_BE_AUTH_RESPONSE == FInv /\ Step_BE_AUTH /\ BE_AUTH_RESPONSE => Flags'
<1> SUFFICES ASSUME FInv, Step_BE_AUTH, BE_AUTH_RESPONSE PROVE Flags'
  OBVIOUS
<1> USE DEF FInv, IInv, Flags, Step_BE_AUTH, BE_AUTH_RESPONSE, BeToRESPONSE,
            BeRetransmits, Pass, Quiet, AfterPae, AfterReauth, TypeOK,
            PaeType, BeType, SmType, StaType, TimerType, LoopType, ReauthType
<1>1. HeldIsClosed' /\ LogoffSeen' /\ SuccessKept'
  BY DEF HeldIsClosed, LogoffSeen, SuccessKept
<1>2. NoReauthOnFail'
  BY DEF NoReauthOnFail, FailPending
<1>3. QuietPae' /\ QuietTimer' /\ QuietKey'
  BY DEF QuietPae, QuietTimer, QuietKey
<1>4. SendableOnAccept'
  BY DEF SendableOnAccept, KeySendable
<1>5. QED BY <1>1, <1>2, <1>3, <1>4

LEMMA Flags_BE_AUTH_SUCCESS == FInv /\ Step_BE_AUTH /\ BE_AUTH_SUCCESS => Flags'
<1> SUFFICES ASSUME FInv, Step_BE_AUTH, BE_AUTH_SUCCESS PROVE Flags'
  OBVIOUS
<1> USE DEF FInv, IInv, Flags, Step_BE_AUTH, BE_AUTH_SUCCESS, BeToSUCCESS,
            Pass, Quiet, AfterPae, AfterReauth, TypeOK, PaeType, BeType,
            SmType, StaType, TimerType, LoopType, ReauthType
<1>1. HeldIsClosed' /\ LogoffSeen' /\ SuccessKept'
  BY DEF HeldIsClosed, LogoffSeen, SuccessKept
<1>2. NoReauthOnFail'
  BY DEF NoReauthOnFail, FailPending
<1>3. QuietPae' /\ QuietTimer' /\ QuietKey'
  BY DEF QuietPae, QuietTimer, QuietKey
<1>4. SendableOnAccept'
  BY DEF SendableOnAccept, KeySendable, AnswerFlags
<1>5. QED BY <1>1, <1>2, <1>3, <1>4

LEMMA Flags_BE_AUTH_FAIL == FInv /\ Step_BE_AUTH /\ BE_AUTH_FAIL => Flags'
<1> SUFFICES ASSUME FInv, Step_BE_AUTH, BE_AUTH_FAIL PROVE Flags'
  OBVIOUS
<1> USE DEF FInv, IInv, Flags, Step_BE_AUTH, BE_AUTH_FAIL, BeToFAIL, Pass,
            Quiet, AfterPae, AfterReauth, TypeOK, PaeType, BeType, SmType,
            StaType, TimerType, LoopType, ReauthType
<1>1. HeldIsClosed' /\ LogoffSeen' /\ SuccessKept'
  BY DEF HeldIsClosed, LogoffSeen, SuccessKept
<1>2. NoReauthOnFail'
  BY DEF NoReauthOnFail, FailPending, NotDue
<1>3. QuietPae' /\ QuietTimer' /\ QuietKey'
  BY DEF QuietPae, QuietTimer, QuietKey
<1>4. SendableOnAccept'
  BY DEF SendableOnAccept, KeySendable, AnswerFlags
<1>5. QED BY <1>1, <1>2, <1>3, <1>4

LEMMA Flags_BE_AUTH_TIMEOUT == FInv /\ Step_BE_AUTH /\ BE_AUTH_TIMEOUT => Flags'
<1> SUFFICES ASSUME FInv, Step_BE_AUTH, BE_AUTH_TIMEOUT PROVE Flags'
  OBVIOUS
<1> USE DEF FInv, IInv, Flags, Step_BE_AUTH, BE_AUTH_TIMEOUT, BeToTIMEOUT,
            BeRetransmits, Pass, Quiet, AfterPae, AfterReauth, TypeOK,
            PaeType, BeType, SmType, StaType, TimerType, LoopType, ReauthType
<1>1. HeldIsClosed' /\ LogoffSeen' /\ SuccessKept'
  BY DEF HeldIsClosed, LogoffSeen, SuccessKept
<1>2. NoReauthOnFail'
  BY DEF NoReauthOnFail, FailPending
<1>3. QuietPae' /\ QuietTimer' /\ QuietKey'
  BY DEF QuietPae, QuietTimer, QuietKey
<1>4. SendableOnAccept'
  BY DEF SendableOnAccept, KeySendable
<1>5. QED BY <1>1, <1>2, <1>3, <1>4

LEMMA Flags_BE_AUTH_IDLE == FInv /\ Step_BE_AUTH /\ BE_AUTH_IDLE => Flags'
<1> SUFFICES ASSUME FInv, Step_BE_AUTH, BE_AUTH_IDLE PROVE Flags'
  OBVIOUS
<1> USE DEF FInv, IInv, Flags, Step_BE_AUTH, BE_AUTH_IDLE, BeToIDLE, Pass,
            Quiet, AfterPae, AfterReauth, TypeOK, PaeType, BeType, SmType,
            StaType, TimerType, LoopType, ReauthType
<1>1. HeldIsClosed' /\ LogoffSeen' /\ SuccessKept'
  BY DEF HeldIsClosed, LogoffSeen, SuccessKept
<1>2. NoReauthOnFail'
  BY DEF NoReauthOnFail, FailPending
<1>3. QuietPae' /\ QuietTimer' /\ QuietKey'
  BY DEF QuietPae, QuietTimer, QuietKey
<1>4. SendableOnAccept'
  BY DEF SendableOnAccept, KeySendable
<1>5. QED BY <1>1, <1>2, <1>3, <1>4

LEMMA Flags_BeStays == FInv /\ Step_BE_AUTH /\ BeStays => Flags'
<1> SUFFICES ASSUME FInv, Step_BE_AUTH, BeStays PROVE Flags'
  OBVIOUS
<1> USE DEF FInv, IInv, Flags, Step_BE_AUTH, BeStays, Pass, Quiet, AfterPae,
            AfterReauth, TypeOK, PaeType, BeType, SmType, StaType, TimerType,
            LoopType, ReauthType
<1>1. HeldIsClosed' /\ LogoffSeen' /\ SuccessKept'
  BY DEF HeldIsClosed, LogoffSeen, SuccessKept
<1>2. NoReauthOnFail'
  BY DEF NoReauthOnFail, FailPending, NotDue
<1>3. QuietPae' /\ QuietTimer' /\ QuietKey'
  BY DEF QuietPae, QuietTimer, QuietKey, PaeToCONNECTING
<1>4. SendableOnAccept'
  BY DEF SendableOnAccept, KeySendable
<1>5. QED BY <1>1, <1>2, <1>3, <1>4

LEMMA Flags_REAUTH_TIMER == FInv /\ Step_REAUTH_TIMER => Flags'
<1> SUFFICES ASSUME FInv, Step_REAUTH_TIMER PROVE Flags'
  OBVIOUS
<1> USE DEF FInv, IInv, Flags, Step_REAUTH_TIMER, REAUTH_TIMER_INITIALIZE,
            REAUTH_TIMER_REAUTHENTICATE, ReauthStays, Pass, Quiet, AfterPae,
            AfterReauth, TypeOK, PaeType, BeType, SmType, StaType, TimerType,
            LoopType, ReauthType
<1>1. HeldIsClosed' /\ LogoffSeen' /\ SuccessKept'
  BY DEF HeldIsClosed, LogoffSeen, SuccessKept
<1>2. NoReauthOnFail'
  BY DEF NoReauthOnFail, FailPending, NotDue
<1>3. QuietPae' /\ QuietTimer' /\ QuietKey'
  BY DEF QuietPae, QuietTimer, QuietKey, NotDue, PaeToCONNECTING, HeldIsClosed
<1>4. SendableOnAccept'
  BY DEF SendableOnAccept, KeySendable
<1>5. QED BY <1>1, <1>2, <1>3, <1>4

LEMMA Flags_AUTH_KEY_TX == FInv /\ Step_AUTH_KEY_TX => Flags'
<1> SUFFICES ASSUME FInv, Step_AUTH_KEY_TX PROVE Flags'
  OBVIOUS
<1> USE DEF FInv, IInv, Flags, Step_AUTH_KEY_TX, AUTH_KEY_TX_NO_KEY_TRANSMIT,
            AUTH_KEY_TX_KEY_TRANSMIT, KeyStays, KeyToNO_KEY_TRANSMIT,
            KeyToKEY_TRANSMIT, Pass, Quiet, AfterPae, AfterReauth, TypeOK,
            PaeType, BeType, SmType, StaType, TimerType, LoopType, ReauthType
<1>1. HeldIsClosed' /\ LogoffSeen' /\ SuccessKept'
  BY DEF HeldIsClosed, LogoffSeen, SuccessKept
<1>2. NoReauthOnFail'
  BY DEF NoReauthOnFail, FailPending, NotDue
<1>3. QuietPae' /\ QuietTimer' /\ QuietKey'
  BY DEF QuietPae, QuietTimer, QuietKey, NotDue, PaeToCONNECTING
<1>4. SendableOnAccept'
  BY DEF SendableOnAccept, KeySendable
<1>5. QED BY <1>1, <1>2, <1>3, <1>4

LEMMA Flags_AnotherPass == FInv /\ AnotherPass => Flags'
<1> SUFFICES ASSUME FInv, AnotherPass PROVE Flags'
  OBVIOUS
<1> USE DEF FInv, IInv, Flags, AnotherPass, machines, Quiet, AfterPae,
            AfterReauth, TypeOK, PaeType, BeType, SmType, StaType, TimerType,
            LoopType, ReauthType
<1>1. HeldIsClosed' /\ LogoffSeen' /\ SuccessKept'
  BY DEF HeldIsClosed, LogoffSeen, SuccessKept
<1>2. NoReauthOnFail'
  BY DEF NoReauthOnFail, FailPending, NotDue
<1>3. QuietPae' /\ QuietTimer' /\ QuietKey'
  BY DEF QuietPae, QuietTimer, QuietKey
<1>4. SendableOnAccept'
  BY DEF SendableOnAccept, KeySendable
<1>5. QED BY <1>1, <1>2, <1>3, <1>4

LEMMA Flags_StepAgain == FInv /\ StepAgain => Flags'
<1> SUFFICES ASSUME FInv, StepAgain PROVE Flags'
  OBVIOUS
<1> USE DEF FInv, IInv, Flags, StepAgain, machines, Quiet, AfterPae,
            AfterReauth, TypeOK, PaeType, BeType, SmType, StaType, TimerType,
            LoopType, ReauthType
<1>1. HeldIsClosed' /\ LogoffSeen' /\ SuccessKept'
  BY DEF HeldIsClosed, LogoffSeen, SuccessKept
<1>2. NoReauthOnFail'
  BY DEF NoReauthOnFail, FailPending, NotDue
<1>3. QuietPae' /\ QuietTimer' /\ QuietKey'
  BY DEF QuietPae, QuietTimer, QuietKey
<1>4. SendableOnAccept'
  BY DEF SendableOnAccept, KeySendable
<1>5. QED BY <1>1, <1>2, <1>3, <1>4

LEMMA Flags_Return == FInv /\ Return => Flags'
<1> SUFFICES ASSUME FInv, Return PROVE Flags'
  OBVIOUS
<1> USE DEF FInv, IInv, Flags, Return, machines, Quiet, AfterPae, AfterReauth,
            TypeOK, PaeType, BeType, SmType, StaType, TimerType, LoopType,
            ReauthType
<1>1. HeldIsClosed' /\ LogoffSeen' /\ SuccessKept'
  BY DEF HeldIsClosed, LogoffSeen, SuccessKept
<1>2. NoReauthOnFail'
  BY DEF NoReauthOnFail, FailPending, NotDue
<1>3. QuietPae' /\ QuietTimer' /\ QuietKey'
  BY DEF QuietPae, QuietTimer, QuietKey, NotDue, PaeToCONNECTING
<1>4. SendableOnAccept'
  BY DEF SendableOnAccept, KeySendable
<1>5. QED BY <1>1, <1>2, <1>3, <1>4

LEMMA Flags_receive == FInv /\ ieee802_1x_receive => Flags'
<1> SUFFICES ASSUME FInv, ieee802_1x_receive PROVE Flags'
  OBVIOUS
<1> USE DEF FInv, IInv, Flags, ieee802_1x_receive, ReceiveIdentity,
            ReceiveResponse, ReceiveStart, ReceiveLogoff, ReceiveOther,
            ReceiveMalformed, StartLoop, Ap_get_sta, Quiet, AfterPae,
            AfterReauth, TypeOK, PaeType, BeType, SmType, StaType, TimerType,
            LoopType, ReauthType
<1>1. HeldIsClosed' /\ LogoffSeen' /\ SuccessKept'
  BY DEF HeldIsClosed, LogoffSeen, SuccessKept
<1>2. NoReauthOnFail'
  BY DEF NoReauthOnFail, FailPending, NotDue
<1>3. QuietPae' /\ QuietTimer' /\ QuietKey'
  BY DEF QuietPae, QuietTimer, QuietKey, NotDue, PaeToCONNECTING, QuietKey
<1>4. SendableOnAccept'
  BY DEF SendableOnAccept, KeySendable
<1>5. QED BY <1>1, <1>2, <1>3, <1>4

LEMMA Flags_tick == FInv /\ eapol_port_timers_tick => Flags'
<1> SUFFICES ASSUME FInv, eapol_port_timers_tick PROVE Flags'
  OBVIOUS
<1> USE DEF FInv, IInv, Flags, eapol_port_timers_tick, StartLoop, Dec, Quiet,
            AfterPae, AfterReauth, TypeOK, PaeType, BeType, SmType, StaType,
            TimerType, LoopType, ReauthType
<1>1. HeldIsClosed' /\ LogoffSeen' /\ SuccessKept'
  BY DEF HeldIsClosed, LogoffSeen, SuccessKept
<1>2. NoReauthOnFail'
  BY DEF NoReauthOnFail, FailPending, AnswerFlags, MachinesAgree, WaitingForServer,
         AtRest
<1>3. QuietPae' /\ QuietTimer' /\ QuietKey'
  BY DEF QuietPae, QuietTimer, QuietKey
<1>4. SendableOnAccept'
  BY DEF SendableOnAccept, KeySendable
<1>5. QED BY <1>1, <1>2, <1>3, <1>4

LEMMA Flags_session_timer == FInv /\ Ap_handle_session_timer => Flags'
<1> SUFFICES ASSUME FInv, Ap_handle_session_timer PROVE Flags'
  OBVIOUS
<1> USE DEF FInv, IInv, Flags, Ap_handle_session_timer, Quiet, AfterPae,
            AfterReauth, TypeOK, PaeType, BeType, SmType, StaType, TimerType,
            LoopType, ReauthType
<1>1. HeldIsClosed' /\ LogoffSeen' /\ SuccessKept'
  BY DEF HeldIsClosed, LogoffSeen, SuccessKept
<1>2. NoReauthOnFail'
  BY DEF NoReauthOnFail, FailPending, NotDue
<1>3. QuietPae' /\ QuietTimer' /\ QuietKey'
  BY DEF QuietPae, QuietTimer, QuietKey, NotDue, PaeToCONNECTING
<1>4. SendableOnAccept'
  BY DEF SendableOnAccept, KeySendable
<1>5. QED BY <1>1, <1>2, <1>3, <1>4

\* An answer, to a request of a station at rest: one flag of the backend, the
\* code, and for an Accept the key and the period of reauthentication.
LEMMA Flags_receive_auth == FInv /\ ieee802_1x_receive_auth => Flags'
<1> SUFFICES ASSUME FInv, ieee802_1x_receive_auth PROVE Flags'
  OBVIOUS
<1> USE DEF FInv, IInv, Flags
<1>1. /\ auth_pae' = auth_pae /\ timer' = timer /\ auth_key_tx' = auth_key_tx
      /\ reauth_timer'.state = reauth_timer.state /\ be_auth'.state = be_auth.state
      /\ loop.pc = "idle" /\ loop'.pc = "AUTH_PAE"
  <2>1. /\ auth_pae' = auth_pae /\ timer' = timer /\ auth_key_tx' = auth_key_tx
        /\ be_auth'.state = be_auth.state
    BY DEF ieee802_1x_receive_auth, AcceptReauthenticate, AcceptSessionTimeout,
           AcceptAndFree, ReceiveReject, ReceiveChallenge, AcceptBase, TypeOK, BeType
  <2>2. reauth_timer'.state = reauth_timer.state
    BY DEF ieee802_1x_receive_auth, AcceptReauthenticate, AcceptSessionTimeout,
           AcceptAndFree, ReceiveReject, ReceiveChallenge, TypeOK, ReauthType
  <2>3. loop.pc = "idle" /\ loop'.pc = "AUTH_PAE"
    <3>1. PICK then \in {"return", "free"} : StartLoop(then)
      BY DEF ieee802_1x_receive_auth, AcceptReauthenticate, AcceptSessionTimeout,
             AcceptAndFree, ReceiveReject, ReceiveChallenge
    <3>2. QED BY <3>1 DEF StartLoop
  <2>4. QED BY <2>1, <2>2, <2>3
<1>2. /\ sm'.portStatus = sm.portStatus /\ sm'.reAuthenticate = sm.reAuthenticate
      /\ sm'.authSuccess = sm.authSuccess /\ sm'.authFail = sm.authFail
      /\ sm'.authAbort = sm.authAbort
      /\ \/ sta'.last_recv_radius = "accept"
         \/ sm'.keyAvailable = sm.keyAvailable
  BY DEF ieee802_1x_receive_auth, AcceptReauthenticate, AcceptSessionTimeout,
         AcceptAndFree, ReceiveReject, ReceiveChallenge, AcceptBase, Answered, TypeOK,
         SmType, StaType
<1>3. HeldIsClosed' /\ LogoffSeen' /\ SuccessKept' /\ QuietPae' /\ QuietTimer' /\ QuietKey'
  BY <1>1, <1>2
     DEF HeldIsClosed, LogoffSeen, SuccessKept, QuietPae, QuietTimer, QuietKey, Quiet,
         AfterPae, AfterReauth
<1>4. NoReauthOnFail'
  BY <1>1, <1>2 DEF NoReauthOnFail, NotDue, QuietPae, QuietTimer, Quiet
<1>5. SendableOnAccept'
  BY <1>1, <1>2
     DEF SendableOnAccept, KeySendable, QuietPae, QuietKey, Quiet, PaeToCONNECTING
<1>6. QED BY <1>3, <1>4, <1>5

\* A station that is freed, or was never there, has no flag up.
LEMMA FreshFlags ==
  loop.pc = "idle" /\ auth_pae = FreshPae /\ reauth_timer = FreshReauth
    /\ auth_key_tx = "NO_KEY_TRANSMIT" /\ sm = FreshSm => Flags
BY DEF FreshPae, FreshReauth, FreshSm, Flags, HeldIsClosed, NoReauthOnFail, QuietPae,
       QuietTimer, QuietKey, LogoffSeen, SuccessKept, SendableOnAccept, NotDue,
       KeySendable, PaeToCONNECTING

LEMMA Flags_Ap_free_sta == Ap_free_sta /\ loop'.pc = "idle" => Flags'
BY DEF Ap_free_sta, FreshPae, FreshReauth, FreshSm, Flags, HeldIsClosed, NoReauthOnFail,
       QuietPae, QuietTimer, QuietKey, LogoffSeen, SuccessKept, SendableOnAccept, NotDue,
       KeySendable, PaeToCONNECTING

LEMMA FInvInit == Init => FInv
BY IInvInit, FreshFlags DEF FInv, Init

LEMMA FInvNext == FInv /\ [Next]_vars => FInv'
<1> SUFFICES ASSUME FInv, [Next]_vars PROVE Flags'
  BY IInvNext DEF FInv
<1>1. CASE Step_AUTH_PAE
  BY <1>1, Flags_AUTH_PAE_DISCONNECTED, Flags_AUTH_PAE_CONNECTING,
     Flags_AUTH_PAE_AUTHENTICATING, Flags_AUTH_PAE_AUTHENTICATED, Flags_AUTH_PAE_HELD,
     Flags_AUTH_PAE_ABORTING, Flags_PaeStays
     DEF Step_AUTH_PAE
<1>2. CASE Step_BE_AUTH
  BY <1>2, Flags_BE_AUTH_INITIALIZE, Flags_BE_AUTH_REQUEST, Flags_BE_AUTH_RESPONSE,
     Flags_BE_AUTH_SUCCESS, Flags_BE_AUTH_FAIL, Flags_BE_AUTH_TIMEOUT,
     Flags_BE_AUTH_IDLE, Flags_BeStays
     DEF Step_BE_AUTH
<1>3. CASE Step_REAUTH_TIMER \/ Step_AUTH_KEY_TX
  BY <1>3, Flags_REAUTH_TIMER, Flags_AUTH_KEY_TX
<1>4. CASE AnotherPass \/ StepAgain \/ Return
  BY <1>4, Flags_AnotherPass, Flags_StepAgain, Flags_Return
<1>5. CASE ReturnAndFree
  <2>1. loop'.pc = "idle"
    BY <1>5 DEF ReturnAndFree
  <2>2. QED BY <1>5, <2>1, Flags_Ap_free_sta DEF ReturnAndFree
<1>6. CASE Apd_free_stas
  BY <1>6, Flags_Ap_free_sta DEF Apd_free_stas
<1>7. CASE ieee802_1x_receive \/ ieee802_1x_receive_auth
  BY <1>7, Flags_receive, Flags_receive_auth
<1>8. CASE eapol_port_timers_tick \/ Ap_handle_session_timer
  BY <1>8, Flags_tick, Flags_session_timer
<1>9. CASE UNCHANGED vars
  BY <1>9
     DEF FInv, vars, Flags, HeldIsClosed, NoReauthOnFail, QuietPae, QuietTimer,
         QuietKey, LogoffSeen, SuccessKept, SendableOnAccept, FailPending, NotDue,
         KeySendable, PaeToCONNECTING, Quiet
<1>10. QED
  BY <1>1, <1>2, <1>3, <1>4, <1>5, <1>6, <1>7, <1>8, <1>9 DEF Next, eapol_sm_step

LEMMA FlagsInductive == SafetySpec => []FInv
BY FInvInit, FInvNext, PTL DEF SafetySpec

-----------------------------------------------------------------------------
\* A reauthentication that fell due is acted upon or dropped before
\* eapol_sm_step returns, whatever the periods: also a Session-Timeout of 0, or
\* one that falls due in the pass in which the server's Reject is taken.
THEOREM NoStaleReauthenticationHolds == Spec => []NoStaleReauthentication
<1>1. FInv => NoStaleReauthentication
  BY DEF FInv, Flags, QuietPae, Quiet, NoStaleReauthentication, AtRest
<1>2. QED BY <1>1, FlagsInductive, PTL DEF Spec

\* The EAPOL-Key frames go out only while the stored answer is an Accept,
\* although keyAvailable may be left up by an exchange that was given up, and a
\* station that is authenticated when eapol_sm_step has returned has no key left.
THEOREM KeyOnlyOnAcceptHolds == Spec => []KeyOnlyOnAccept
<1>1. FInv => KeyOnlyOnAccept
  BY DEF FInv, Flags, SendableOnAccept, SuccessKept, KeySendable, KeyOnlyOnAccept,
         KeyToKEY_TRANSMIT, AtRest
<1>2. QED BY <1>1, FlagsInductive, PTL DEF Spec
=============================================================================
