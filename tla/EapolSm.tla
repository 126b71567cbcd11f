------------------------------- MODULE EapolSm -------------------------------
(***************************************************************************)
(* The per-station port access control of rt2500apd: the four state        *)
(* machines of eapol_sm.c, the loop of eapol_sm_step that runs them, and   *)
(* the handlers of ieee802_1x.c and sta_info.c that drive them.            *)
(*                                                                         *)
(* One station is modelled.  Every operation of the daemon on it is one    *)
(* action that sets flags (a frame of the supplicant, an answer of the     *)
(* RADIUS server, the one-second tick) and starts eapol_sm_step; each      *)
(* SM_STEP_RUN of that function is then one action, so that an answer of   *)
(* the server may meet the machines in any state an earlier pass left.     *)
(* The daemon has one thread: nothing else happens until the loop ends.    *)
(*                                                                         *)
(* Abstracted: the EAP payload and its identifiers (currentId,             *)
(* idFromServer), the statistics counters, logging, and allocation         *)
(* failures.  portControl is Auto, portValid and keyTxEnabled are TRUE and *)
(* portEnabled is TRUE from the first frame on, as in the source, where    *)
(* nothing changes them; the states FORCE_AUTH and FORCE_UNAUTH of the PAE *)
(* machine are therefore unreachable and left out.  The port is            *)
(* sm.portStatus: set_sta_authorized, which eapol_sm.c calls with each     *)
(* change of it, only logs in this daemon.                                 *)
(***************************************************************************)
EXTENDS Integers

CONSTANTS
  quietPeriod,        \* AUTH_PAE_DEFAULT_quietPeriod, 60 ticks in the source
  txPeriod,           \* AUTH_PAE_DEFAULT_txPeriod, 30
  reAuthMax,          \* AUTH_PAE_DEFAULT_reAuthMax, 2
  serverTimeout,      \* BE_AUTH_DEFAULT_serverTimeout, 30
  suppTimeout,        \* BE_AUTH_DEFAULT_suppTimeout, 30
  maxReq,             \* BE_AUTH_DEFAULT_maxReq, 2
  reAuthPeriod,       \* session_timeout_interval, or 3600 when it is not set
  sessionTimeoutSet,  \* conf->session_timeout_set = 1
  SessionTimeouts,    \* the Session-Timeout values the server may send
  IntModulus          \* 2^32: the width of a timer and of a RADIUS integer

ASSUME ConstantsAssumption ==
  /\ IntModulus \in Nat
  /\ quietPeriod \in Nat \ {0}
  /\ txPeriod \in Nat \ {0}
  /\ reAuthMax \in Nat \ {0}   \* with 0 the PAE machine would never settle
  /\ serverTimeout \in Nat \ {0}
  /\ \A n \in {quietPeriod, txPeriod, serverTimeout} : 2 * n < IntModulus
  /\ suppTimeout \in Nat
  /\ maxReq \in Nat \ {0}
  /\ reAuthPeriod \in Nat
  /\ sessionTimeoutSet \in BOOLEAN
  /\ SessionTimeouts \subseteq Nat

VARIABLES
  auth_pae,      \* Authenticator PAE machine: its state, flags and counter
  be_auth,       \* Backend Authentication machine
  reauth_timer,  \* Reauthentication Timer machine
  auth_key_tx,   \* state of the Authenticator Key Transmit machine
  sm,            \* the flags the four machines share
  timer,         \* the port timers, in ticks
  sta,           \* what sta_info keeps of the station
  loop           \* control of eapol_sm_step and of the handler that called it

machines == <<auth_pae, be_auth, reauth_timer, auth_key_tx, sm, timer, sta>>
vars == <<auth_pae, be_auth, reauth_timer, auth_key_tx, sm, timer, sta, loop>>

-----------------------------------------------------------------------------
(***************************************************************************)
(* Types.                                                                  *)
(***************************************************************************)
PaeStates == {"INITIALIZE", "DISCONNECTED", "CONNECTING", "AUTHENTICATING",
              "AUTHENTICATED", "ABORTING", "HELD"}
BeStates  == {"INITIALIZE", "REQUEST", "RESPONSE", "SUCCESS", "FAIL",
              "TIMEOUT", "IDLE"}
Messages  == {"none", "accept", "reject", "challenge"}

PaeType ==
  [state : PaeStates, eapStart : BOOLEAN, eapLogoff : BOOLEAN,
   rxInitialRsp : BOOLEAN, reAuthCount : Nat]
BeType ==
  [state : BeStates, rxResp : BOOLEAN, aReq : BOOLEAN, aSuccess : BOOLEAN,
   aFail : BOOLEAN, reqCount : Nat, suppTimeout : Nat]
ReauthType == [state : {"INITIALIZE", "REAUTHENTICATE"}, reAuthPeriod : Nat]
SmType ==
  [portStatus : {"Unauthorized", "Authorized"}, authStart : BOOLEAN,
   authAbort : BOOLEAN, authSuccess : BOOLEAN, authFail : BOOLEAN,
   authTimeout : BOOLEAN, reAuthenticate : BOOLEAN, keyAvailable : BOOLEAN]
TimerType ==
  [aWhile : Int, quietWhile : 0..quietPeriod, reAuthWhen : Int,
   txWhen : 0..txPeriod]
StaType ==
  [present : BOOLEAN,             \* in the station table
   pending : BOOLEAN,             \* radius_identifier >= 0
   last_recv_radius : Messages,   \* code of the stored answer, none if NULL
   sessionTimer : BOOLEAN]        \* Ap_handle_session_timer registered
LoopType ==
  [pc : {"idle", "AUTH_PAE", "BE_AUTH", "REAUTH_TIMER", "AUTH_KEY_TX", "test"},
   changed : BOOLEAN,                   \* some machine left its prev state
   then : {"return", "step", "free"}]   \* what the handler does afterwards

\* The type invariant: every field holds a value of its C type.
TypeOK ==
  /\ auth_pae \in PaeType
  /\ be_auth \in BeType
  /\ reauth_timer \in ReauthType
  /\ auth_key_tx \in {"NO_KEY_TRANSMIT", "KEY_TRANSMIT"}
  /\ sm \in SmType
  /\ timer \in TimerType
  /\ sta \in StaType
  /\ loop \in LoopType

-----------------------------------------------------------------------------
(***************************************************************************)
(* A station whose eapol_sm_alloc has returned: eapol_sm_initialize ran    *)
(* the machines with initialize set and again with it cleared, while       *)
(* portEnabled was still FALSE, which leaves the PAE machine in INITIALIZE *)
(* and the backend machine in IDLE.  A station that is not in the table    *)
(* keeps these values, which are those its first frame finds.              *)
(***************************************************************************)
FreshPae ==
  [state |-> "INITIALIZE", eapStart |-> FALSE, eapLogoff |-> FALSE,
   rxInitialRsp |-> FALSE, reAuthCount |-> 0]
FreshBe ==
  [state |-> "IDLE", rxResp |-> FALSE, aReq |-> FALSE, aSuccess |-> FALSE,
   aFail |-> FALSE, reqCount |-> 0, suppTimeout |-> suppTimeout]
FreshSm ==
  [portStatus |-> "Unauthorized", authStart |-> FALSE, authAbort |-> FALSE,
   authSuccess |-> FALSE, authFail |-> FALSE, authTimeout |-> FALSE,
   reAuthenticate |-> FALSE, keyAvailable |-> FALSE]
\* The timers are int and the periods they are set from unsigned: a period of
\* 2^31 or more becomes a negative timer, which neither counts down nor is 0.
ToInt(n) == IF 2 * n < IntModulus THEN n ELSE n - IntModulus

FreshReauth == [state |-> "INITIALIZE", reAuthPeriod |-> reAuthPeriod]
FreshTimer ==
  [aWhile |-> 0, quietWhile |-> 0, reAuthWhen |-> ToInt(reAuthPeriod),
   txWhen |-> 0]

Init ==
  /\ auth_pae = FreshPae
  /\ be_auth = FreshBe
  /\ reauth_timer = FreshReauth
  /\ auth_key_tx = "NO_KEY_TRANSMIT"
  /\ sm = FreshSm
  /\ timer = FreshTimer
  /\ sta = [present |-> FALSE, pending |-> FALSE, last_recv_radius |-> "none",
            sessionTimer |-> FALSE]
  /\ loop = [pc |-> "idle", changed |-> FALSE, then |-> "return"]

(***************************************************************************)
(* Ap_free_sta.  The station's own tick is cancelled with its machine; a   *)
(* registered session timer is not.                                        *)
(***************************************************************************)
Ap_free_sta ==
  /\ auth_pae' = FreshPae
  /\ be_auth' = FreshBe
  /\ reauth_timer' = FreshReauth
  /\ auth_key_tx' = "NO_KEY_TRANSMIT"
  /\ sm' = FreshSm
  /\ timer' = FreshTimer
  /\ sta' = [sta EXCEPT !.present = FALSE, !.pending = FALSE,
                        !.last_recv_radius = "none"]

-----------------------------------------------------------------------------
(***************************************************************************)
(* Authenticator PAE machine.  Each action is the entry of one state,      *)
(* enabled in the conditions under which SM_STEP(AUTH_PAE) enters it.      *)
(***************************************************************************)
\* Mutant: the attempts of a reauthentication are not limited.
PaeToDISCONNECTED_NoLimit ==
  \/ auth_pae.state = "INITIALIZE"
  \/ auth_pae.state = "CONNECTING" /\ auth_pae.eapLogoff
  \/ /\ auth_pae.state = "AUTHENTICATED"
     /\ ~auth_pae.eapStart /\ ~sm.reAuthenticate
     /\ auth_pae.eapLogoff
  \/ /\ auth_pae.state = "ABORTING"
     /\ auth_pae.eapLogoff /\ ~sm.authAbort

PaeToDISCONNECTED ==
  \/ auth_pae.state = "INITIALIZE"
  \/ /\ auth_pae.state = "CONNECTING"
     /\ auth_pae.eapLogoff \/ auth_pae.reAuthCount > reAuthMax
  \/ /\ auth_pae.state = "AUTHENTICATED"
     /\ ~auth_pae.eapStart /\ ~sm.reAuthenticate
     /\ auth_pae.eapLogoff
  \/ /\ auth_pae.state = "ABORTING"
     /\ auth_pae.eapLogoff /\ ~sm.authAbort

PaeToCONNECTING ==
  \/ auth_pae.state = "DISCONNECTED"
  \/ auth_pae.state = "HELD" /\ timer.quietWhile = 0
  \/ /\ auth_pae.state = "CONNECTING"
     /\ ~auth_pae.eapLogoff /\ auth_pae.reAuthCount <= reAuthMax
     /\ ~auth_pae.rxInitialRsp
     /\ timer.txWhen = 0 \/ auth_pae.eapStart \/ sm.reAuthenticate
  \/ /\ auth_pae.state = "AUTHENTICATED"
     /\ auth_pae.eapStart \/ sm.reAuthenticate
  \/ /\ auth_pae.state = "ABORTING"
     /\ ~auth_pae.eapLogoff /\ ~sm.authAbort

PaeToAUTHENTICATING ==
  /\ auth_pae.state = "CONNECTING"
  /\ ~auth_pae.eapLogoff /\ auth_pae.reAuthCount <= reAuthMax
  /\ auth_pae.rxInitialRsp

PaeToAUTHENTICATED == auth_pae.state = "AUTHENTICATING" /\ sm.authSuccess

PaeToHELD ==
  auth_pae.state = "AUTHENTICATING" /\ ~sm.authSuccess /\ sm.authFail

PaeToABORTING ==
  /\ auth_pae.state = "AUTHENTICATING"
  /\ ~sm.authSuccess /\ ~sm.authFail
  /\ \/ sm.reAuthenticate \/ auth_pae.eapStart
     \/ auth_pae.eapLogoff \/ sm.authTimeout

AUTH_PAE_DISCONNECTED ==
  /\ PaeToDISCONNECTED
  /\ auth_pae' = [auth_pae EXCEPT !.state = "DISCONNECTED",
                                  !.eapLogoff = FALSE, !.reAuthCount = 0]
  /\ sm' = [sm EXCEPT !.portStatus = "Unauthorized"]
  /\ UNCHANGED <<timer, sta>>

\* Mutants of AUTH_PAE_CONNECTING: a stale reAuthenticate, a retry not counted.
AUTH_PAE_CONNECTING_KeepsReauth ==
  /\ PaeToCONNECTING
  /\ auth_pae' = [auth_pae EXCEPT !.state = "CONNECTING", !.eapStart = FALSE,
                                  !.rxInitialRsp = FALSE, !.reAuthCount = @ + 1]
  /\ UNCHANGED sm
  /\ timer' = [timer EXCEPT !.txWhen = txPeriod]
  /\ sta' = [sta EXCEPT !.last_recv_radius = "none"]

AUTH_PAE_CONNECTING_NotCounted ==
  /\ PaeToCONNECTING
  /\ auth_pae' = [auth_pae EXCEPT !.state = "CONNECTING", !.eapStart = FALSE,
                                  !.rxInitialRsp = FALSE]
  /\ sm' = [sm EXCEPT !.reAuthenticate = FALSE]
  /\ timer' = [timer EXCEPT !.txWhen = txPeriod]
  /\ sta' = [sta EXCEPT !.last_recv_radius = "none"]

\* txInitialMsg asks for the identity; it first drops the stored answer of the
\* server (ieee802_1x_new_auth_session).
AUTH_PAE_CONNECTING ==
  /\ PaeToCONNECTING
  /\ auth_pae' = [auth_pae EXCEPT !.state = "CONNECTING", !.eapStart = FALSE,
                                  !.rxInitialRsp = FALSE, !.reAuthCount = @ + 1]
  /\ sm' = [sm EXCEPT !.reAuthenticate = FALSE]
  /\ timer' = [timer EXCEPT !.txWhen = txPeriod]
  /\ sta' = [sta EXCEPT !.last_recv_radius = "none"]

\* Mutant: the verdict of the last exchange is not cleared.
AUTH_PAE_AUTHENTICATING_KeepsSuccess ==
  /\ PaeToAUTHENTICATING
  /\ auth_pae' = [auth_pae EXCEPT !.state = "AUTHENTICATING"]
  /\ sm' = [sm EXCEPT !.authFail = FALSE, !.authTimeout = FALSE,
                      !.authStart = TRUE]
  /\ UNCHANGED <<timer, sta>>

AUTH_PAE_AUTHENTICATING ==
  /\ PaeToAUTHENTICATING
  /\ auth_pae' = [auth_pae EXCEPT !.state = "AUTHENTICATING"]
  /\ sm' = [sm EXCEPT !.authSuccess = FALSE, !.authFail = FALSE,
                      !.authTimeout = FALSE, !.authStart = TRUE]
  /\ UNCHANGED <<timer, sta>>

AUTH_PAE_AUTHENTICATED ==
  /\ PaeToAUTHENTICATED
  /\ auth_pae' = [auth_pae EXCEPT !.state = "AUTHENTICATED", !.reAuthCount = 0]
  /\ sm' = [sm EXCEPT !.portStatus = "Authorized"]
  /\ UNCHANGED <<timer, sta>>

\* Mutant: the port is left open.
AUTH_PAE_HELD_KeepsPort ==
  /\ PaeToHELD
  /\ auth_pae' = [auth_pae EXCEPT !.state = "HELD", !.eapLogoff = FALSE]
  /\ timer' = [timer EXCEPT !.quietWhile = quietPeriod]
  /\ UNCHANGED <<sm, sta>>

AUTH_PAE_HELD ==
  /\ PaeToHELD
  /\ auth_pae' = [auth_pae EXCEPT !.state = "HELD", !.eapLogoff = FALSE]
  /\ sm' = [sm EXCEPT !.portStatus = "Unauthorized"]
  /\ timer' = [timer EXCEPT !.quietWhile = quietPeriod]
  /\ UNCHANGED sta

AUTH_PAE_ABORTING ==
  /\ PaeToABORTING
  /\ auth_pae' = [auth_pae EXCEPT !.state = "ABORTING"]
  /\ sm' = [sm EXCEPT !.authAbort = TRUE]
  /\ UNCHANGED <<timer, sta>>

PaeStays ==
  /\ ~PaeToDISCONNECTED /\ ~PaeToCONNECTING /\ ~PaeToAUTHENTICATING
  /\ ~PaeToAUTHENTICATED /\ ~PaeToHELD /\ ~PaeToABORTING
  /\ UNCHANGED <<auth_pae, sm, timer, sta>>

-----------------------------------------------------------------------------
(***************************************************************************)
(* The do-while of eapol_sm_step: each machine runs once per pass, and a   *)
(* pass in which some machine changed state is followed by another.        *)
(***************************************************************************)
Pass(next, changes) ==
  loop' = [loop EXCEPT !.pc = next, !.changed = @ \/ changes]

Step_AUTH_PAE ==
  /\ loop.pc = "AUTH_PAE"
  /\ \/ AUTH_PAE_DISCONNECTED
     \/ AUTH_PAE_CONNECTING
     \/ AUTH_PAE_AUTHENTICATING
     \/ AUTH_PAE_AUTHENTICATED
     \/ AUTH_PAE_HELD
     \/ AUTH_PAE_ABORTING
     \/ PaeStays
  /\ Pass("BE_AUTH", auth_pae'.state # auth_pae.state)
  /\ UNCHANGED <<be_auth, reauth_timer, auth_key_tx>>

-----------------------------------------------------------------------------
(***************************************************************************)
(* Backend Authentication machine.  An abort overrides every other         *)
(* transition; in REQUEST a retransmission comes before the answer of the  *)
(* supplicant, and in RESPONSE a challenge comes before the timeout and    *)
(* the timeout before a verdict.                                           *)
(***************************************************************************)
BeRetransmits ==
  be_auth.state = "REQUEST" /\ timer.aWhile = 0 /\ be_auth.reqCount # maxReq

BeToREQUEST ==
  \/ BeRetransmits
  \/ be_auth.state = "RESPONSE" /\ be_auth.aReq

BeToRESPONSE ==
  \/ be_auth.state = "IDLE" /\ sm.authStart
  \/ be_auth.state = "REQUEST" /\ ~BeRetransmits /\ be_auth.rxResp

\* Mutant: a server that does not answer is waited for.
BeToTIMEOUT_SupplicantOnly ==
  /\ be_auth.state = "REQUEST"
  /\ ~BeRetransmits /\ ~be_auth.rxResp
  /\ timer.aWhile = 0 /\ be_auth.reqCount >= maxReq

BeToTIMEOUT ==
  \/ /\ be_auth.state = "REQUEST"
     /\ ~BeRetransmits /\ ~be_auth.rxResp
     /\ timer.aWhile = 0 /\ be_auth.reqCount >= maxReq
  \/ be_auth.state = "RESPONSE" /\ ~be_auth.aReq /\ timer.aWhile = 0

BeToFAIL ==
  /\ be_auth.state = "RESPONSE"
  /\ ~be_auth.aReq /\ timer.aWhile # 0
  /\ be_auth.aFail

\* Mutant: an Accept without a key is not taken as one.
BeToSUCCESS_NeedsKey ==
  /\ be_auth.state = "RESPONSE"
  /\ ~be_auth.aReq /\ timer.aWhile # 0 /\ ~be_auth.aFail
  /\ be_auth.aSuccess /\ sm.keyAvailable

BeToSUCCESS ==
  /\ be_auth.state = "RESPONSE"
  /\ ~be_auth.aReq /\ timer.aWhile # 0 /\ ~be_auth.aFail
  /\ be_auth.aSuccess

BeToIDLE == be_auth.state \in {"INITIALIZE", "SUCCESS", "FAIL", "TIMEOUT"}

\* Mutant: the abort is not acknowledged.
BE_AUTH_INITIALIZE_KeepsAbort ==
  /\ sm.authAbort
  /\ be_auth' = [be_auth EXCEPT !.state = "INITIALIZE"]
  /\ UNCHANGED <<sm, timer, sta>>

BE_AUTH_INITIALIZE ==
  /\ sm.authAbort
  /\ be_auth' = [be_auth EXCEPT !.state = "INITIALIZE"]
  /\ sm' = [sm EXCEPT !.authAbort = FALSE]
  /\ UNCHANGED <<timer, sta>>

\* txReq relays the stored EAP request to the supplicant.
BE_AUTH_REQUEST ==
  /\ ~sm.authAbort /\ BeToREQUEST
  /\ be_auth' = [be_auth EXCEPT !.state = "REQUEST", !.reqCount = @ + 1]
  /\ timer' = [timer EXCEPT !.aWhile = ToInt(be_auth.suppTimeout)]
  /\ UNCHANGED <<sm, sta>>

\* Mutants of BE_AUTH_RESPONSE: a stale aSuccess, a counter that
\* is not reset.
BE_AUTH_RESPONSE_KeepsSuccess ==
  /\ ~sm.authAbort /\ BeToRESPONSE
  /\ be_auth' = [be_auth EXCEPT !.state = "RESPONSE", !.aReq = FALSE,
                                !.rxResp = FALSE, !.aFail = FALSE, !.reqCount = 0]
  /\ sm' = [sm EXCEPT !.authTimeout = FALSE]
  /\ timer' = [timer EXCEPT !.aWhile = serverTimeout]
  /\ sta' = [sta EXCEPT !.pending = TRUE]

BE_AUTH_RESPONSE_KeepsCount ==
  /\ ~sm.authAbort /\ BeToRESPONSE
  /\ be_auth' = [be_auth EXCEPT !.state = "RESPONSE", !.aReq = FALSE,
                                !.aSuccess = FALSE, !.rxResp = FALSE,
                                !.aFail = FALSE]
  /\ sm' = [sm EXCEPT !.authTimeout = FALSE]
  /\ timer' = [timer EXCEPT !.aWhile = serverTimeout]
  /\ sta' = [sta EXCEPT !.pending = TRUE]

\* sendRespToServer: ieee802_1x_encapsulate_radius takes a new identifier, so
\* an answer to an earlier request no longer finds the station.
BE_AUTH_RESPONSE ==
  /\ ~sm.authAbort /\ BeToRESPONSE
  /\ be_auth' = [be_auth EXCEPT !.state = "RESPONSE", !.aReq = FALSE,
                                !.aSuccess = FALSE, !.rxResp = FALSE,
                                !.aFail = FALSE, !.reqCount = 0]
  /\ sm' = [sm EXCEPT !.authTimeout = FALSE]
  /\ timer' = [timer EXCEPT !.aWhile = serverTimeout]
  /\ sta' = [sta EXCEPT !.pending = TRUE]

\* The State attribute of the stored answer is copied into the request when
\* that answer is a challenge.
CarriesState == sta.last_recv_radius = "challenge"

BE_AUTH_SUCCESS ==
  /\ ~sm.authAbort /\ BeToSUCCESS
  /\ be_auth' = [be_auth EXCEPT !.state = "SUCCESS"]
  /\ sm' = [sm EXCEPT !.authSuccess = TRUE]
  /\ UNCHANGED <<timer, sta>>

BE_AUTH_FAIL ==
  /\ ~sm.authAbort /\ BeToFAIL
  /\ be_auth' = [be_auth EXCEPT !.state = "FAIL"]
  /\ sm' = [sm EXCEPT !.authFail = TRUE]
  /\ UNCHANGED <<timer, sta>>

BE_AUTH_TIMEOUT ==
  /\ ~sm.authAbort /\ BeToTIMEOUT
  /\ be_auth' = [be_auth EXCEPT !.state = "TIMEOUT"]
  /\ sm' = [sm EXCEPT !.authTimeout = TRUE]
  /\ UNCHANGED <<timer, sta>>

\* Mutant: authStart is left up.
BE_AUTH_IDLE_KeepsStart ==
  /\ ~sm.authAbort /\ BeToIDLE
  /\ be_auth' = [be_auth EXCEPT !.state = "IDLE", !.reqCount = 0]
  /\ UNCHANGED <<sm, timer, sta>>

BE_AUTH_IDLE ==
  /\ ~sm.authAbort /\ BeToIDLE
  /\ be_auth' = [be_auth EXCEPT !.state = "IDLE", !.reqCount = 0]
  /\ sm' = [sm EXCEPT !.authStart = FALSE]
  /\ UNCHANGED <<timer, sta>>

BeStays ==
  /\ ~sm.authAbort
  /\ ~BeToREQUEST /\ ~BeToRESPONSE /\ ~BeToTIMEOUT
  /\ ~BeToFAIL /\ ~BeToSUCCESS /\ ~BeToIDLE
  /\ UNCHANGED <<be_auth, sm, timer, sta>>

Step_BE_AUTH ==
  /\ loop.pc = "BE_AUTH"
  /\ \/ BE_AUTH_INITIALIZE
     \/ BE_AUTH_REQUEST
     \/ BE_AUTH_RESPONSE
     \/ BE_AUTH_SUCCESS
     \/ BE_AUTH_FAIL
     \/ BE_AUTH_TIMEOUT
     \/ BE_AUTH_IDLE
     \/ BeStays
  /\ Pass("REAUTH_TIMER", be_auth'.state # be_auth.state)
  /\ UNCHANGED <<auth_pae, reauth_timer, auth_key_tx>>

-----------------------------------------------------------------------------
(***************************************************************************)
(* Reauthentication Timer machine.  reAuthEnabled is TRUE whatever the     *)
(* configuration says: eapol_sm_alloc never clears it.                     *)
(***************************************************************************)
REAUTH_TIMER_INITIALIZE ==
  /\ sm.portStatus = "Unauthorized" \/ reauth_timer.state = "REAUTHENTICATE"
  /\ reauth_timer' = [reauth_timer EXCEPT !.state = "INITIALIZE"]
  /\ timer' = [timer EXCEPT !.reAuthWhen = ToInt(reauth_timer.reAuthPeriod)]
  /\ UNCHANGED sm

REAUTH_TIMER_REAUTHENTICATE ==
  /\ sm.portStatus = "Authorized" /\ reauth_timer.state = "INITIALIZE"
  /\ timer.reAuthWhen = 0
  /\ reauth_timer' = [reauth_timer EXCEPT !.state = "REAUTHENTICATE"]
  /\ sm' = [sm EXCEPT !.reAuthenticate = TRUE]
  /\ UNCHANGED timer

ReauthStays ==
  /\ sm.portStatus = "Authorized" /\ reauth_timer.state = "INITIALIZE"
  /\ timer.reAuthWhen # 0
  /\ UNCHANGED <<reauth_timer, sm, timer>>

Step_REAUTH_TIMER ==
  /\ loop.pc = "REAUTH_TIMER"
  /\ \/ REAUTH_TIMER_INITIALIZE
     \/ REAUTH_TIMER_REAUTHENTICATE
     \/ ReauthStays
  /\ Pass("AUTH_KEY_TX", reauth_timer'.state # reauth_timer.state)
  /\ UNCHANGED <<auth_pae, be_auth, auth_key_tx, sta>>

-----------------------------------------------------------------------------
(***************************************************************************)
(* Authenticator Key Transmit machine.                                     *)
(***************************************************************************)
KeyToNO_KEY_TRANSMIT ==
  /\ auth_key_tx = "KEY_TRANSMIT"
  /\ sm.authFail \/ auth_pae.eapLogoff

KeyToKEY_TRANSMIT ==
  \/ /\ auth_key_tx = "NO_KEY_TRANSMIT"
     /\ sm.keyAvailable /\ sm.authSuccess
  \/ /\ auth_key_tx = "KEY_TRANSMIT"
     /\ ~sm.authFail /\ ~auth_pae.eapLogoff
     /\ sm.keyAvailable

AUTH_KEY_TX_NO_KEY_TRANSMIT ==
  /\ KeyToNO_KEY_TRANSMIT
  /\ auth_key_tx' = "NO_KEY_TRANSMIT"
  /\ UNCHANGED sm

\* Mutant: the key stays available after it was sent.
AUTH_KEY_TX_KEY_TRANSMIT_KeepsKey ==
  /\ KeyToKEY_TRANSMIT
  /\ auth_key_tx' = "KEY_TRANSMIT"
  /\ UNCHANGED sm

\* txKey sends the broadcast and the individual key to the supplicant.
AUTH_KEY_TX_KEY_TRANSMIT ==
  /\ KeyToKEY_TRANSMIT
  /\ auth_key_tx' = "KEY_TRANSMIT"
  /\ sm' = [sm EXCEPT !.keyAvailable = FALSE]

KeyStays ==
  /\ ~KeyToNO_KEY_TRANSMIT /\ ~KeyToKEY_TRANSMIT
  /\ UNCHANGED <<auth_key_tx, sm>>

Step_AUTH_KEY_TX ==
  /\ loop.pc = "AUTH_KEY_TX"
  /\ \/ AUTH_KEY_TX_NO_KEY_TRANSMIT
     \/ AUTH_KEY_TX_KEY_TRANSMIT
     \/ KeyStays
  /\ Pass("test", auth_key_tx' # auth_key_tx)
  /\ UNCHANGED <<auth_pae, be_auth, reauth_timer, timer, sta>>

-----------------------------------------------------------------------------
(***************************************************************************)
(* The condition of the do-while, and what the handler does once           *)
(* eapol_sm_step returns: nothing, a second eapol_sm_step (the last line   *)
(* of ieee802_1x_receive after a Start or a Logoff), or Ap_free_sta (the   *)
(* free_flag of ieee802_1x_receive_auth).                                  *)
(***************************************************************************)
StartLoop(then) ==
  /\ loop.pc = "idle"
  /\ loop' = [pc |-> "AUTH_PAE", changed |-> FALSE, then |-> then]

AnotherPass ==
  /\ loop.pc = "test" /\ loop.changed
  /\ loop' = [loop EXCEPT !.pc = "AUTH_PAE", !.changed = FALSE]
  /\ UNCHANGED machines

StepAgain ==
  /\ loop.pc = "test" /\ ~loop.changed /\ loop.then = "step"
  /\ loop' = [loop EXCEPT !.pc = "AUTH_PAE", !.then = "return"]
  /\ UNCHANGED machines

Return ==
  /\ loop.pc = "test" /\ ~loop.changed /\ loop.then = "return"
  /\ loop' = [loop EXCEPT !.pc = "idle"]
  /\ UNCHANGED machines

ReturnAndFree ==
  /\ loop.pc = "test" /\ ~loop.changed /\ loop.then = "free"
  /\ loop' = [loop EXCEPT !.pc = "idle", !.then = "return"]
  /\ Ap_free_sta

eapol_sm_step ==
  \/ Step_AUTH_PAE \/ Step_BE_AUTH \/ Step_REAUTH_TIMER \/ Step_AUTH_KEY_TX
  \/ AnotherPass \/ StepAgain \/ Return \/ ReturnAndFree

-----------------------------------------------------------------------------
(***************************************************************************)
(* ieee802_1x_receive: a frame of the supplicant.  Ap_get_sta creates the  *)
(* station on its first frame, whatever the frame holds.                   *)
(***************************************************************************)
Ap_get_sta == sta' = [sta EXCEPT !.present = TRUE]

\* handle_eap_response, EAP-Response/Identity.
ReceiveIdentity ==
  /\ StartLoop("return")
  /\ Ap_get_sta
  /\ auth_pae' = [auth_pae EXCEPT !.rxInitialRsp = TRUE]
  /\ UNCHANGED <<be_auth, reauth_timer, auth_key_tx, sm, timer>>

\* handle_eap_response, any other EAP-Response.  Its identifier is compared
\* with currentId and logged, never rejected.
ReceiveResponse ==
  /\ StartLoop("return")
  /\ Ap_get_sta
  /\ be_auth' = [be_auth EXCEPT !.rxResp = TRUE]
  /\ UNCHANGED <<auth_pae, reauth_timer, auth_key_tx, sm, timer>>

\* EAPOL-Start.
ReceiveStart ==
  /\ StartLoop("step")
  /\ Ap_get_sta
  /\ auth_pae' = [auth_pae EXCEPT !.eapStart = TRUE]
  /\ UNCHANGED <<be_auth, reauth_timer, auth_key_tx, sm, timer>>

\* EAPOL-Logoff.
ReceiveLogoff ==
  /\ StartLoop("step")
  /\ Ap_get_sta
  /\ auth_pae' = [auth_pae EXCEPT !.eapLogoff = TRUE]
  /\ UNCHANGED <<be_auth, reauth_timer, auth_key_tx, sm, timer>>

\* Any other frame of the right version: no flag, but the machines run.
ReceiveOther ==
  /\ StartLoop("return")
  /\ Ap_get_sta
  /\ UNCHANGED <<auth_pae, be_auth, reauth_timer, auth_key_tx, sm, timer>>

\* A frame that is too short or of another EAPOL version: the station exists
\* from now on, its machines have not run.
ReceiveMalformed ==
  /\ loop.pc = "idle"
  /\ Ap_get_sta
  /\ UNCHANGED <<auth_pae, be_auth, reauth_timer, auth_key_tx, sm, timer, loop>>

ieee802_1x_receive ==
  \/ ReceiveIdentity \/ ReceiveResponse \/ ReceiveStart \/ ReceiveLogoff
  \/ ReceiveOther \/ ReceiveMalformed

-----------------------------------------------------------------------------
(***************************************************************************)
(* ieee802_1x_receive_auth: an answer of the server that passed            *)
(* Radius_msg_verify, to the latest request of the station.  An answer     *)
(* that fails to verify, or that no station waits for, changes nothing     *)
(* here.  The answer may come late, when the machines have given up on it. *)
(***************************************************************************)
\* Mutant: the answer is not stored with the station.
Answered_NotStored(code) ==
  /\ sta.pending
  /\ sta' = [sta EXCEPT !.pending = FALSE]

Answered(code) ==
  /\ sta.pending
  /\ sta' = [sta EXCEPT !.pending = FALSE, !.last_recv_radius = code]

\* Access-Accept.  ieee802_1x_get_keys makes the key available unless the
\* driver refuses it (ADD_KEY).
AcceptBase(keyAdded) ==
  /\ be_auth' = [be_auth EXCEPT !.aSuccess = TRUE]
  /\ sm' = [sm EXCEPT !.keyAvailable = @ \/ keyAdded]
  /\ UNCHANGED <<auth_pae, auth_key_tx, timer>>

\* Session-Timeout with Termination-Action RADIUS-Request: reauthenticate.
AcceptReauthenticate(session_timeout, keyAdded) ==
  /\ StartLoop("return")
  /\ Answered("accept")
  /\ reauth_timer' = [reauth_timer EXCEPT !.reAuthPeriod = session_timeout]
  /\ AcceptBase(keyAdded)

\* Session-Timeout otherwise, or one from the configuration: deauthenticate
\* the station when it expires (Ap_sta_session_timeout).
AcceptSessionTimeout(keyAdded) ==
  /\ StartLoop("return")
  /\ sta.pending
  /\ sta' = [sta EXCEPT !.pending = FALSE, !.last_recv_radius = "accept",
                        !.sessionTimer = TRUE]
  /\ AcceptBase(keyAdded)
  /\ UNCHANGED reauth_timer

\* No session timeout from either: the station is freed (free_flag).
AcceptAndFree(keyAdded) ==
  /\ ~sessionTimeoutSet
  /\ StartLoop("free")
  /\ Answered("accept")
  /\ AcceptBase(keyAdded)
  /\ UNCHANGED reauth_timer

ReceiveReject ==
  /\ StartLoop("return")
  /\ Answered("reject")
  /\ be_auth' = [be_auth EXCEPT !.aFail = TRUE]
  /\ UNCHANGED <<auth_pae, reauth_timer, auth_key_tx, sm, timer>>

\* Access-Challenge.  A Session-Timeout in it is how long the supplicant has
\* to respond, now and in every later exchange of this station.
ReceiveChallenge ==
  /\ StartLoop("return")
  /\ Answered("challenge")
  /\ \E t \in SessionTimeouts \cup {be_auth.suppTimeout} :
       be_auth' = [be_auth EXCEPT !.aReq = TRUE, !.suppTimeout = t]
  /\ UNCHANGED <<auth_pae, reauth_timer, auth_key_tx, sm, timer>>

ieee802_1x_receive_auth ==
  \/ \E keyAdded \in BOOLEAN :
       \/ \E t \in SessionTimeouts : AcceptReauthenticate(t, keyAdded)
       \/ AcceptSessionTimeout(keyAdded)
       \/ AcceptAndFree(keyAdded)
  \/ ReceiveReject
  \/ ReceiveChallenge

-----------------------------------------------------------------------------
(***************************************************************************)
(* Timers, and the reload that frees every station.                        *)
(***************************************************************************)
\* Mutant of Dec: counts below 0.
Dec_Unguarded(t) == t - 1

Dec(t) == IF t > 0 THEN t - 1 ELSE t

\* Mutant: the reauthentication timer is forgotten.
eapol_port_timers_tick_NoReauth ==
  /\ sta.present
  /\ StartLoop("return")
  /\ timer' = [timer EXCEPT !.aWhile = Dec(@), !.quietWhile = Dec(@),
                            !.txWhen = Dec(@)]
  /\ UNCHANGED <<auth_pae, be_auth, reauth_timer, auth_key_tx, sm, sta>>

\* eapol_port_timers_tick, once a second while the station has a machine.
eapol_port_timers_tick ==
  /\ sta.present
  /\ StartLoop("return")
  /\ timer' = [aWhile |-> Dec(timer.aWhile), quietWhile |-> Dec(timer.quietWhile),
               reAuthWhen |-> Dec(timer.reAuthWhen), txWhen |-> Dec(timer.txWhen)]
  /\ UNCHANGED <<auth_pae, be_auth, reauth_timer, auth_key_tx, sm, sta>>

\* Ap_handle_session_timer sends a deauthentication through the driver and
\* leaves the station and its port as they are.
Ap_handle_session_timer ==
  /\ loop.pc = "idle"
  /\ sta.sessionTimer
  /\ sta' = [sta EXCEPT !.sessionTimer = FALSE]
  /\ UNCHANGED <<auth_pae, be_auth, reauth_timer, auth_key_tx, sm, timer, loop>>

\* Apd_free_stas, from Handle_usr1 (a reload), on this station.
Apd_free_stas ==
  /\ loop.pc = "idle"
  /\ sta.present
  /\ Ap_free_sta
  /\ UNCHANGED loop

Next ==
  \/ eapol_sm_step
  \/ ieee802_1x_receive
  \/ ieee802_1x_receive_auth
  \/ eapol_port_timers_tick
  \/ Ap_handle_session_timer
  \/ Apd_free_stas

(***************************************************************************)
(* Fairness.  The loop runs to its end without giving up the thread, and   *)
(* eloop_run looks for an expired timeout before every pass over the ready *)
(* sockets, so the tick is served infinitely often however many frames and *)
(* answers arrive: strong fairness, because each of them disables it for a *)
(* while.  Nothing is assumed of the supplicant, the server or a reload.   *)
(***************************************************************************)
Fairness ==
  /\ WF_vars(eapol_sm_step)
  /\ SF_vars(eapol_port_timers_tick)

SafetySpec == Init /\ [][Next]_vars
Spec == SafetySpec /\ Fairness

-----------------------------------------------------------------------------
(***************************************************************************)
(* Safety.                                                                 *)
(***************************************************************************)
AtRest == loop.pc = "idle"

\* The PAE machine is AUTHENTICATED only while the answer to the station's
\* latest request is an Accept: no later request has gone out unanswered and
\* no older Accept (one that came after an abort or a timeout) was taken.
AuthenticatedByAccept ==
  auth_pae.state = "AUTHENTICATED" =>
    sta.last_recv_radius = "accept" /\ ~sta.pending

\* Whenever eapol_sm_step has returned, the two main machines agree: the
\* backend is in the middle of an exchange exactly while the PAE machine is
\* AUTHENTICATING, and no transient state of either is left standing.
MachinesAgree ==
  AtRest =>
    /\ auth_pae.state \in {"INITIALIZE", "CONNECTING", "AUTHENTICATING",
                           "AUTHENTICATED", "HELD"}
    /\ be_auth.state \in {"REQUEST", "RESPONSE", "IDLE"}
    /\ auth_pae.state = "AUTHENTICATING" <=> be_auth.state # "IDLE"
    /\ auth_pae.state = "AUTHENTICATING" <=> sm.authStart
    /\ ~sm.authAbort

\* A reauthentication that fell due has been acted upon, or dropped with the
\* session, by the time eapol_sm_step returns: none is left for a later one.
NoStaleReauthentication == AtRest => ~sm.reAuthenticate

\* A backend that waits for the server has a request that can be answered and
\* a timer that will expire: no answer was taken from the station without
\* moving the machine on.
WaitingForServer ==
  AtRest /\ be_auth.state = "RESPONSE" => sta.pending /\ timer.aWhile > 0

\* Once a failure has been relayed to the supplicant the port is closed, and
\* stays closed until another exchange begins, a failed reauthentication of
\* an authorized station included.
FailureCloses == AtRest /\ sm.authFail => sm.portStatus = "Unauthorized"

\* The retry counters never pass their limits: REQUEST compares reqCount with
\* # before it compares it with >=, so a counter beyond maxReq would
\* retransmit for ever.
RetryBounds ==
  be_auth.reqCount <= maxReq /\ auth_pae.reAuthCount <= reAuthMax + 1

\* An exchange that is relayed to the supplicant is the server's latest word:
\* in REQUEST the stored answer is a challenge and nothing is out.
RequestHoldsChallenge ==
  be_auth.state = "REQUEST" =>
    sta.last_recv_radius = "challenge" /\ ~sta.pending

\* The backend machine and the RADIUS side are in step: in RESPONSE the server
\* is to answer, in REQUEST the station is to answer what the server sent.
ExchangeInStep == WaitingForServer /\ RequestHoldsChallenge

\* The EAPOL-Key frames are sent only while the latest answer for the session
\* is an Accept, although keyAvailable outlives the exchange and KEY_TRANSMIT
\* does not ask for authSuccess again; and no key is kept past the Accept that
\* authenticates the station next.  It need not be the Accept that brought the
\* key: a key that a late Accept left may be sent on that next Accept, in
\* place of one that ieee802_1x_receive_auth could not store.
KeyOnlyOnAccept ==
  /\ loop.pc = "AUTH_KEY_TX" /\ KeyToKEY_TRANSMIT => sta.last_recv_radius = "accept"
  /\ AtRest /\ auth_pae.state = "AUTHENTICATED" => ~sm.keyAvailable

\* Action property: an Access-Request that goes out while a challenge is being
\* answered carries the State attribute of that challenge.
RequestSent == be_auth.state # "RESPONSE" /\ be_auth'.state = "RESPONSE"
ChallengeReplyCarriesState ==
  [][RequestSent /\ be_auth.state = "REQUEST" => CarriesState]_vars

\* Action property, the other half of the comment on the State attribute in
\* ieee802_1x_encapsulate_radius: a request that carries one replies to the
\* previous challenge, so it is not the first request of a new exchange.
StateOnlyInChallengeReply ==
  [][RequestSent /\ CarriesState => be_auth.state = "REQUEST"]_vars

\* The README: a session_timeout_interval of 0 disables reauthentication.
NoReauthenticationWhenDisabled ==
  ~sessionTimeoutSet => reauth_timer.state # "REAUTHENTICATE"

-----------------------------------------------------------------------------
(***************************************************************************)
(* Refinement: the station implements PortAccess.  An Accept counts as     *)
(* granted from the moment it is handed to a backend machine that waits    *)
(* for it until the PAE machine has opened the port.                       *)
(***************************************************************************)
Granted ==
  /\ auth_pae.state = "AUTHENTICATING"
  /\ \/ be_auth.state = "RESPONSE" /\ be_auth.aSuccess
     \/ sm.authSuccess

Port == INSTANCE PortAccess WITH
  port <- IF sm.portStatus = "Authorized" THEN "open" ELSE "closed",
  exchange <- CASE sta.pending -> "asked"
                [] ~sta.pending /\ Granted -> "granted"
                [] OTHER -> "none"

\* Every step of the daemon on the station is a step of PortAccess or leaves
\* the port and the exchange alone.
ImplementsPortAccess == Port!PortSpec

-----------------------------------------------------------------------------
(***************************************************************************)
(* Liveness.                                                               *)
(***************************************************************************)
\* The do-while of eapol_sm_step ends: the machines never chase each other.
StepTerminates == loop.pc # "idle" ~> loop.pc = "idle"

\* A station is not left waiting: an unanswered request to the server, an
\* unanswered request to the supplicant and the quiet period all end.  The one
\* exception: BE_AUTH REQUEST takes its timer from the Session-Timeout of the
\* challenge, and one of 2^31 or more makes it a negative number, which never
\* expires.
WaitsEnd ==
  /\ be_auth.state = "RESPONSE" ~> be_auth.state # "RESPONSE"
  /\ be_auth.state = "REQUEST" ~> be_auth.state # "REQUEST" \/ timer.aWhile < 0
  /\ auth_pae.state = "HELD" ~> auth_pae.state # "HELD"

\* An authenticated station is asked to authenticate again, unless the
\* Session-Timeout of an Accept was 2^31 or more and has made the
\* reauthentication timer negative, which never becomes 0.
Reauthenticates ==
  auth_pae.state = "AUTHENTICATED"
    ~> auth_pae.state # "AUTHENTICATED" \/ timer.reAuthWhen < 0

\* A port that is open while its station authenticates again does not stay
\* open on the strength of the old Accept, whatever the supplicant sends and
\* however the server drags the exchange out, unless the Session-Timeout of an
\* Accept has made the reauthentication timer negative.  A challenge that makes
\* aWhile negative does not by itself keep the port open: when reAuthWhen
\* reaches 0 the exchange is aborted, in whatever state the backend waits.
OpenPortIsRenewed ==
  sm.portStatus = "Authorized" /\ auth_pae.state # "AUTHENTICATED"
    ~> \/ sm.portStatus = "Unauthorized"
       \/ auth_pae.state = "AUTHENTICATED"
       \/ timer.reAuthWhen < 0

-----------------------------------------------------------------------------
(***************************************************************************)
(* Why the do-while ends: the work that is left to it, a number that every *)
(* turn of a machine and every test of the loop makes smaller.             *)
(***************************************************************************)
\* CONNECTING that only a frame, an answer or a tick can leave.
Settled ==
  /\ sm.portStatus = "Unauthorized" /\ ~sm.reAuthenticate
  /\ ~auth_pae.eapStart /\ ~auth_pae.eapLogoff
  /\ auth_pae.reAuthCount <= reAuthMax /\ timer.txWhen # 0

\* The states the PAE machine may still enter.  Each round through CONNECTING
\* counts up reAuthCount, and AUTHENTICATING uses up an Identity response.
PaeWork ==
  CASE auth_pae.state = "INITIALIZE" -> 2
    [] auth_pae.state = "DISCONNECTED" -> 1
    [] auth_pae.state = "AUTHENTICATING" -> reAuthMax + 4
    [] auth_pae.state = "CONNECTING" /\ auth_pae.rxInitialRsp -> reAuthMax + 5
    [] auth_pae.state = "CONNECTING" /\ ~auth_pae.rxInitialRsp /\ Settled -> 0
    [] OTHER -> reAuthMax + 3 - auth_pae.reAuthCount

\* The changes of the backend: a new exchange, an abort and an answer that has
\* come are each good for some.
BeWork ==
  (CASE be_auth.state = "IDLE" -> IF sm.authStart THEN 3 ELSE 0
     [] be_auth.state = "REQUEST" -> 3
     [] be_auth.state = "RESPONSE" -> IF be_auth.aReq THEN 4 ELSE 2
     [] OTHER -> 1)
  + (IF sm.authAbort THEN 2 ELSE 0)

\* The changes of the reauthentication timer before the PAE machine answers:
\* it may expire once, and goes back.
ReauthWork ==
  CASE reauth_timer.state = "INITIALIZE" ->
         IF \/ sm.portStatus = "Unauthorized"
            \/ sm.reAuthenticate /\ loop.pc \notin {"BE_AUTH", "REAUTH_TIMER"}
         THEN 0 ELSE 2
    [] reauth_timer.state = "REAUTHENTICATE" ->
         IF sm.portStatus = "Authorized" /\ ~sm.reAuthenticate THEN 3 ELSE 1

KeyWork ==
  (IF sm.keyAvailable THEN 2 ELSE 0)
  + (IF auth_key_tx = "KEY_TRANSMIT" THEN 1 ELSE 0)

MachineWork == 8 * PaeWork + BeWork + ReauthWork + KeyWork

\* The turns left in this pass, a pass for each change, one if this pass has
\* had a change, and the second eapol_sm_step of a Start or a Logoff.
Work ==
  (CASE loop.pc = "idle" -> 0
     [] loop.pc = "AUTH_PAE" -> 5
     [] loop.pc = "BE_AUTH" -> 4
     [] loop.pc = "REAUTH_TIMER" -> 3
     [] loop.pc = "AUTH_KEY_TX" -> 2
     [] loop.pc = "test" -> 1)
  + (IF loop.pc = "idle" THEN 0
     ELSE 5 * MachineWork + (IF loop.changed THEN 5 ELSE 0)
                          + (IF loop.then = "step" THEN 5 ELSE 0))

WorkLimit == 40 * reAuthMax + 275

\* Action property: every step of eapol_sm_step leaves it less to do, and no
\* event leaves it more than WorkLimit, so that it ends after so many turns
\* whatever the periods are, those of 0 that a server may configure included.
WorkFalls ==
  [][loop.pc # "idle" => Work \in 1..WorkLimit /\ Work' \in 0..(Work - 1)]_vars

=============================================================================
