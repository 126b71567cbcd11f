--------------------------- MODULE EapolWorkProofs ---------------------------
(***************************************************************************)
(* The do-while of eapol_sm_step ends, for every value of the constants:   *)
(* each step of it makes Work smaller.  What an action does to the number  *)
(* is the sum of what it does to the parts for the four machines.          *)
(***************************************************************************)
EXTENDS EapolFlagProofs

(***************************************************************************)
(* What FInv does not say: the two states in which a session begins find   *)
(* the port closed, and a Logoff is gone when it has been obeyed.          *)
(***************************************************************************)
ClosedAtStart ==
  /\ auth_pae.state \in {"INITIALIZE", "DISCONNECTED"} => sm.portStatus = "Unauthorized"
  /\ auth_pae.state = "DISCONNECTED" => ~auth_pae.eapLogoff

WInv == FInv /\ ClosedAtStart

LEMMA WInvInit == Init => WInv
BY FInvInit DEF WInv, ClosedAtStart, Init, FreshPae, FreshSm

LEMMA WInvNext == WInv /\ [Next]_vars => WInv'
<1> SUFFICES ASSUME WInv, [Next]_vars PROVE ClosedAtStart'
  BY FInvNext DEF WInv
<1> USE DEF WInv, ClosedAtStart, FInv, IInv, TypeOK, PaeType, SmType
<1>1. CASE Step_AUTH_PAE
  BY <1>1
     DEF Step_AUTH_PAE, AUTH_PAE_DISCONNECTED, AUTH_PAE_CONNECTING,
         AUTH_PAE_AUTHENTICATING, AUTH_PAE_AUTHENTICATED, AUTH_PAE_HELD,
         AUTH_PAE_ABORTING, PaeStays
<1>2. CASE Step_BE_AUTH
  BY <1>2
     DEF Step_BE_AUTH, BE_AUTH_INITIALIZE, BE_AUTH_REQUEST, BE_AUTH_RESPONSE,
         BE_AUTH_SUCCESS, BE_AUTH_FAIL, BE_AUTH_TIMEOUT, BE_AUTH_IDLE, BeStays
<1>3. CASE Step_REAUTH_TIMER
  BY <1>3
     DEF Step_REAUTH_TIMER, REAUTH_TIMER_INITIALIZE, REAUTH_TIMER_REAUTHENTICATE,
         ReauthStays
<1>4. CASE Step_AUTH_KEY_TX
  BY <1>4
     DEF Step_AUTH_KEY_TX, AUTH_KEY_TX_NO_KEY_TRANSMIT, AUTH_KEY_TX_KEY_TRANSMIT, KeyStays
<1>5. CASE AnotherPass \/ StepAgain \/ Return
  BY <1>5 DEF AnotherPass, StepAgain, Return, machines
<1>6. CASE ReturnAndFree \/ Apd_free_stas
  BY <1>6 DEF ReturnAndFree, Apd_free_stas, Ap_free_sta, FreshPae, FreshSm
<1>7. CASE ieee802_1x_receive
  <2>1. auth_pae'.state = auth_pae.state /\ sm' = sm /\ loop.pc = "idle"
    BY <1>7
       DEF ieee802_1x_receive, ReceiveIdentity, ReceiveResponse, ReceiveStart,
           ReceiveLogoff, ReceiveOther, ReceiveMalformed, StartLoop
  <2>2. QED BY <2>1 DEF QuietPass
<1>8. CASE ieee802_1x_receive_auth
  BY <1>8
     DEF ieee802_1x_receive_auth, AcceptReauthenticate, AcceptSessionTimeout,
         AcceptAndFree, ReceiveReject, ReceiveChallenge, AcceptBase
<1>9. CASE eapol_port_timers_tick \/ Ap_handle_session_timer
  BY <1>9 DEF eapol_port_timers_tick, Ap_handle_session_timer
<1>10. CASE UNCHANGED vars
  BY <1>10 DEF vars
<1>11. QED
  BY <1>1, <1>2, <1>3, <1>4, <1>5, <1>6, <1>7, <1>8, <1>9, <1>10 DEF Next, eapol_sm_step

-----------------------------------------------------------------------------
\* Each part is a small number, whatever state the machines are in.
LEMMA WorkParts ==
  FInv => /\ PaeWork \in 0..(reAuthMax + 5)
          /\ BeWork \in 0..6
          /\ ReauthWork \in 0..3
          /\ KeyWork \in 0..3
<1> SUFFICES ASSUME FInv
             PROVE  /\ PaeWork \in 0..(reAuthMax + 5)
                    /\ BeWork \in 0..6
                    /\ ReauthWork \in 0..3
                    /\ KeyWork \in 0..3
  OBVIOUS
<1> USE ConstantsAssumption DEF FInv, IInv, TypeOK
<1>1. PaeWork \in 0..(reAuthMax + 5)
  BY DEF PaeWork, PaeType, PaeStates, RetryBounds
<1>2. BeWork \in 0..6
  BY DEF BeWork, BeType, BeStates, SmType
<1>3. ReauthWork \in 0..3
  BY DEF ReauthWork, ReauthType
<1>4. KeyWork \in 0..3
  BY DEF KeyWork
<1>5. QED BY <1>1, <1>2, <1>3, <1>4

LEMMA WorkPartsNext ==
  FInv' => /\ PaeWork' \in 0..(reAuthMax + 5)
           /\ BeWork' \in 0..6
           /\ ReauthWork' \in 0..3
           /\ KeyWork' \in 0..3
<1>1. (FInv => /\ PaeWork \in 0..(reAuthMax + 5)
               /\ BeWork \in 0..6
               /\ ReauthWork \in 0..3
               /\ KeyWork \in 0..3)'
  BY WorkParts, PTL
<1>2. QED BY <1>1, ConstantsAssumption

LEMMA WorkRange == FInv /\ loop.pc # "idle" => Work \in 1..WorkLimit
<1> SUFFICES ASSUME FInv, loop.pc # "idle" PROVE Work \in 1..WorkLimit
  OBVIOUS
<1>1. MachineWork \in 0..(8 * reAuthMax + 52)
  BY WorkParts, ConstantsAssumption DEF MachineWork
<1>2. QED
  BY <1>1, ConstantsAssumption DEF Work, WorkLimit, FInv, IInv, TypeOK, LoopType

\* A turn of a machine: if it changed state there is less for the machines to
\* do, and otherwise no more, which the turn itself makes up for.
LEMMA TurnFalls ==
  ASSUME FInv, FInv', loop.pc # "idle", loop'.pc # "idle",
         NEW changes \in BOOLEAN, Pass(loop'.pc, changes),
         <<loop.pc, loop'.pc>> \in {<<"AUTH_PAE", "BE_AUTH">>, <<"BE_AUTH", "REAUTH_TIMER">>,
                                    <<"REAUTH_TIMER", "AUTH_KEY_TX">>, <<"AUTH_KEY_TX", "test">>},
         MachineWork' <= MachineWork, changes => MachineWork' < MachineWork
  PROVE  Work' \in 0..(Work - 1)
<1>1. MachineWork \in Nat /\ MachineWork' \in Nat
  BY WorkParts, WorkPartsNext, ConstantsAssumption DEF MachineWork
<1>2. loop \in LoopType /\ loop'.then = loop.then /\ loop'.changed = (loop.changed \/ changes)
  BY DEF FInv, IInv, TypeOK, LoopType, Pass
<1>3. QED BY <1>1, <1>2 DEF Work, LoopType

-----------------------------------------------------------------------------
(***************************************************************************)
(* The PAE machine: entering a state is worth more than the exchange, the  *)
(* abort or the reauthentication it may start.                             *)
(***************************************************************************)
LEMMA Falls_AUTH_PAE_DISCONNECTED ==
  ASSUME WInv, WInv', Step_AUTH_PAE, AUTH_PAE_DISCONNECTED PROVE MachineWork' < MachineWork
<1> USE DEF WInv, FInv, IInv, TypeOK, Step_AUTH_PAE, AUTH_PAE_DISCONNECTED
<1>1. PaeWork' <= PaeWork - 1
  BY ConstantsAssumption
     DEF PaeWork, PaeToDISCONNECTED, Settled, PaeType, PaeStates, SmType, TimerType, RetryBounds,
         RetryCount
<1>2. BeWork' = BeWork
  BY DEF BeWork, BeType, BeStates, SmType, PaeType
<1>3. KeyWork' = KeyWork
  BY DEF KeyWork, SmType
<1>4. QED
  BY <1>1, <1>2, <1>3, WorkParts, WorkPartsNext, ConstantsAssumption DEF MachineWork

LEMMA Falls_AUTH_PAE_CONNECTING ==
  ASSUME WInv, WInv', Step_AUTH_PAE, AUTH_PAE_CONNECTING PROVE MachineWork' < MachineWork
<1> USE DEF WInv, FInv, IInv, TypeOK, Step_AUTH_PAE, AUTH_PAE_CONNECTING
<1>1. PaeWork' <= PaeWork - 1
  BY ConstantsAssumption
     DEF PaeWork, PaeToCONNECTING, Settled, ClosedAtStart, PaeType, PaeStates, SmType,
         TimerType, RetryBounds, RetryCount
<1>2. BeWork' = BeWork
  BY DEF BeWork, BeType, BeStates, SmType, PaeType
<1>3. KeyWork' = KeyWork
  BY DEF KeyWork, SmType
<1>4. QED
  BY <1>1, <1>2, <1>3, WorkParts, WorkPartsNext, ConstantsAssumption DEF MachineWork

LEMMA Falls_AUTH_PAE_AUTHENTICATING ==
  ASSUME WInv, WInv', Step_AUTH_PAE, AUTH_PAE_AUTHENTICATING PROVE MachineWork' < MachineWork
<1> USE DEF WInv, FInv, IInv, TypeOK, Step_AUTH_PAE, AUTH_PAE_AUTHENTICATING
<1>1. PaeWork' <= PaeWork - 1
  BY ConstantsAssumption
     DEF PaeWork, PaeToAUTHENTICATING, PaeType, PaeStates, SmType, TimerType, RetryBounds,
         RetryCount
<1>2. BeWork' <= BeWork + 3
  BY DEF BeWork, BeType, BeStates, SmType, PaeType
<1>3. KeyWork' = KeyWork
  BY DEF KeyWork, SmType
<1>4. QED
  BY <1>1, <1>2, <1>3, WorkParts, WorkPartsNext, ConstantsAssumption DEF MachineWork

LEMMA Falls_AUTH_PAE_AUTHENTICATED ==
  ASSUME WInv, WInv', Step_AUTH_PAE, AUTH_PAE_AUTHENTICATED PROVE MachineWork' < MachineWork
<1> USE DEF WInv, FInv, IInv, TypeOK, Step_AUTH_PAE, AUTH_PAE_AUTHENTICATED
<1>1. PaeWork' <= PaeWork - 1
  BY ConstantsAssumption
     DEF PaeWork, PaeToAUTHENTICATED, PaeType, PaeStates, SmType, TimerType, RetryBounds,
         RetryCount
<1>2. BeWork' = BeWork
  BY DEF BeWork, BeType, BeStates, SmType, PaeType
<1>3. KeyWork' = KeyWork
  BY DEF KeyWork, SmType
<1>4. QED
  BY <1>1, <1>2, <1>3, WorkParts, WorkPartsNext, ConstantsAssumption DEF MachineWork

LEMMA Falls_AUTH_PAE_HELD ==
  ASSUME WInv, WInv', Step_AUTH_PAE, AUTH_PAE_HELD PROVE MachineWork' < MachineWork
<1> USE DEF WInv, FInv, IInv, TypeOK, Step_AUTH_PAE, AUTH_PAE_HELD
<1>1. PaeWork' <= PaeWork - 1
  BY ConstantsAssumption
     DEF PaeWork, PaeToHELD, PaeType, PaeStates, SmType, TimerType, RetryBounds,
         RetryCount
<1>2. BeWork' = BeWork
  BY DEF BeWork, BeType, BeStates, SmType, PaeType
<1>3. KeyWork' = KeyWork
  BY DEF KeyWork, SmType
<1>4. QED
  BY <1>1, <1>2, <1>3, WorkParts, WorkPartsNext, ConstantsAssumption DEF MachineWork

LEMMA Falls_AUTH_PAE_ABORTING ==
  ASSUME WInv, WInv', Step_AUTH_PAE, AUTH_PAE_ABORTING PROVE MachineWork' < MachineWork
<1> USE DEF WInv, FInv, IInv, TypeOK, Step_AUTH_PAE, AUTH_PAE_ABORTING
<1>1. PaeWork' <= PaeWork - 1
  BY ConstantsAssumption
     DEF PaeWork, PaeToABORTING, PaeType, PaeStates, SmType, TimerType, RetryBounds,
         RetryCount
<1>2. BeWork' <= BeWork + 2
  BY DEF BeWork, BeType, BeStates, SmType, PaeType
<1>3. KeyWork' = KeyWork
  BY DEF KeyWork, SmType
<1>4. QED
  BY <1>1, <1>2, <1>3, WorkParts, WorkPartsNext, ConstantsAssumption DEF MachineWork

\* A machine that stays while the port is open has no reauthentication to see
\* to, so the timer may be as busy as before.
LEMMA Falls_PaeStays ==
  ASSUME WInv, WInv', Step_AUTH_PAE, PaeStays PROVE MachineWork' = MachineWork
<1> USE DEF WInv, FInv, IInv, TypeOK, Step_AUTH_PAE, PaeStays
<1>1. PaeWork' = PaeWork
  BY DEF PaeWork, Settled
<1>2. BeWork' = BeWork /\ KeyWork' = KeyWork
  BY DEF BeWork, KeyWork
<1>3. ASSUME sm.reAuthenticate PROVE sm.portStatus = "Unauthorized"
  <2>1. CASE auth_pae.state \in {"INITIALIZE", "DISCONNECTED"}
    BY <2>1 DEF ClosedAtStart
  <2>2. CASE auth_pae.state = "HELD"
    BY <2>2 DEF Flags, HeldIsClosed
  <2>3. CASE auth_pae.state = "ABORTING"
    <3>1. ~sm.authAbort
      BY DEF Agreement, AgreeOutside
    <3>2. QED BY <2>3, <3>1 DEF PaeToDISCONNECTED, PaeToCONNECTING
  <2>4. CASE auth_pae.state = "AUTHENTICATING"
    BY <1>3, <2>4 DEF PaeToAUTHENTICATED, PaeToHELD, PaeToABORTING
  <2>5. CASE auth_pae.state = "AUTHENTICATED"
    BY <1>3, <2>5 DEF PaeToCONNECTING
  <2>6. CASE auth_pae.state = "CONNECTING"
    <3>1. auth_pae.reAuthCount > reAuthMax \/ auth_pae.reAuthCount <= reAuthMax
      BY ConstantsAssumption DEF PaeType
    <3>2. QED
      BY <1>3, <2>6, <3>1 DEF PaeToDISCONNECTED, PaeToCONNECTING, PaeToAUTHENTICATING
  <2>7. auth_pae.state \in PaeStates
    BY DEF PaeType
  <2>8. QED BY <2>1, <2>2, <2>3, <2>4, <2>5, <2>6, <2>7 DEF PaeStates
<1>4. ReauthWork' = ReauthWork
  BY <1>3 DEF ReauthWork, Pass, LoopType, SmType
<1>5. QED BY <1>1, <1>2, <1>4 DEF MachineWork

LEMMA PaeFalls == WInv /\ WInv' /\ Step_AUTH_PAE => Work' \in 0..(Work - 1)
<1> SUFFICES ASSUME WInv, WInv', Step_AUTH_PAE PROVE Work' \in 0..(Work - 1)
  OBVIOUS
<1>1. /\ MachineWork' <= MachineWork
      /\ auth_pae'.state # auth_pae.state => MachineWork' < MachineWork
  <2>1. CASE PaeStays
    BY <2>1, Falls_PaeStays, WorkParts, ConstantsAssumption
       DEF PaeStays, MachineWork, WInv
  <2>2. CASE ~PaeStays
    <3>1. MachineWork' < MachineWork
      BY <2>2, Falls_AUTH_PAE_DISCONNECTED, Falls_AUTH_PAE_CONNECTING,
         Falls_AUTH_PAE_AUTHENTICATING, Falls_AUTH_PAE_AUTHENTICATED,
         Falls_AUTH_PAE_HELD, Falls_AUTH_PAE_ABORTING
         DEF Step_AUTH_PAE
    <3>2. QED
      BY <3>1, WorkParts, WorkPartsNext, ConstantsAssumption DEF MachineWork, WInv
  <2>3. QED BY <2>1, <2>2
<1>2. loop.pc = "AUTH_PAE" /\ loop'.pc = "BE_AUTH"
  BY DEF Step_AUTH_PAE, Pass, WInv, FInv, IInv, TypeOK, LoopType
<1>3. QED BY <1>1, <1>2, TurnFalls DEF Step_AUTH_PAE, WInv

-----------------------------------------------------------------------------
(***************************************************************************)
(* The backend: only a request that is sent to the supplicant again leaves *)
(* its state, and the work, as they were.                                  *)
(***************************************************************************)
LEMMA BeKeepsOthers ==
  ASSUME WInv, Step_BE_AUTH
  PROVE  PaeWork' = PaeWork /\ ReauthWork' = ReauthWork /\ KeyWork' = KeyWork
<1> USE DEF WInv, FInv, IInv, TypeOK, SmType, TimerType
<1>1. /\ auth_pae' = auth_pae /\ reauth_timer' = reauth_timer
      /\ auth_key_tx' = auth_key_tx /\ timer'.txWhen = timer.txWhen
      /\ sm'.portStatus = sm.portStatus /\ sm'.reAuthenticate = sm.reAuthenticate
      /\ sm'.keyAvailable = sm.keyAvailable
      /\ loop.pc = "BE_AUTH" /\ loop'.pc = "REAUTH_TIMER"
  BY DEF Step_BE_AUTH, BE_AUTH_INITIALIZE, BE_AUTH_REQUEST, BE_AUTH_RESPONSE,
         BE_AUTH_SUCCESS, BE_AUTH_FAIL, BE_AUTH_TIMEOUT, BE_AUTH_IDLE, BeStays, Pass,
         LoopType
<1>2. PaeWork' = PaeWork
  BY <1>1 DEF PaeWork, Settled
<1>3. ReauthWork' = ReauthWork
  BY <1>1 DEF ReauthWork
<1>4. KeyWork' = KeyWork
  BY <1>1 DEF KeyWork
<1>5. QED BY <1>2, <1>3, <1>4

LEMMA BeWorkFalls ==
  ASSUME WInv, WInv', Step_BE_AUTH
  PROVE  /\ BeWork' <= BeWork
         /\ be_auth'.state # be_auth.state => BeWork' < BeWork
<1> USE DEF WInv, FInv, IInv, TypeOK, Step_BE_AUTH, BeWork, BeType, BeStates, SmType
<1>1. CASE BE_AUTH_INITIALIZE
  BY <1>1 DEF BE_AUTH_INITIALIZE
<1>2. CASE BE_AUTH_REQUEST
  BY <1>2 DEF BE_AUTH_REQUEST, BeToREQUEST, BeRetransmits
<1>3. CASE BE_AUTH_RESPONSE
  BY <1>3 DEF BE_AUTH_RESPONSE, BeToRESPONSE
<1>4. CASE BE_AUTH_SUCCESS \/ BE_AUTH_FAIL \/ BE_AUTH_TIMEOUT
  BY <1>4 DEF BE_AUTH_SUCCESS, BE_AUTH_FAIL, BE_AUTH_TIMEOUT, BeToSUCCESS, BeToFAIL,
              BeToTIMEOUT
<1>5. CASE BE_AUTH_IDLE
  BY <1>5 DEF BE_AUTH_IDLE, BeToIDLE
<1>6. CASE BeStays
  BY <1>6 DEF BeStays
<1>7. QED BY <1>1, <1>2, <1>3, <1>4, <1>5, <1>6

LEMMA BeFalls == WInv /\ WInv' /\ Step_BE_AUTH => Work' \in 0..(Work - 1)
<1> SUFFICES ASSUME WInv, WInv', Step_BE_AUTH PROVE Work' \in 0..(Work - 1)
  OBVIOUS
<1>1. /\ MachineWork' <= MachineWork
      /\ be_auth'.state # be_auth.state => MachineWork' < MachineWork
  BY BeKeepsOthers, BeWorkFalls, WorkParts, WorkPartsNext, ConstantsAssumption
     DEF MachineWork, WInv
<1>2. loop.pc = "BE_AUTH" /\ loop'.pc = "REAUTH_TIMER"
  BY DEF Step_BE_AUTH, Pass, WInv, FInv, IInv, TypeOK, LoopType
<1>3. QED BY <1>1, <1>2, TurnFalls DEF Step_BE_AUTH, WInv

-----------------------------------------------------------------------------
(***************************************************************************)
(* The reauthentication timer and the key machine.                         *)
(***************************************************************************)
LEMMA ReauthFalls == WInv /\ WInv' /\ Step_REAUTH_TIMER => Work' \in 0..(Work - 1)
<1> SUFFICES ASSUME WInv, WInv', Step_REAUTH_TIMER PROVE Work' \in 0..(Work - 1)
  OBVIOUS
<1> USE DEF WInv, FInv, IInv, TypeOK
<1>1. loop.pc = "REAUTH_TIMER" /\ loop'.pc = "AUTH_KEY_TX"
  BY DEF Step_REAUTH_TIMER, Pass, LoopType
<1>2. KeyWork' = KeyWork /\ BeWork' = BeWork
  BY DEF Step_REAUTH_TIMER, REAUTH_TIMER_INITIALIZE, REAUTH_TIMER_REAUTHENTICATE,
         ReauthStays, KeyWork, BeWork, SmType
<1>3. PaeWork' = PaeWork
  BY DEF Step_REAUTH_TIMER, REAUTH_TIMER_INITIALIZE, REAUTH_TIMER_REAUTHENTICATE,
         ReauthStays, PaeWork, Settled, SmType, TimerType
<1>4. /\ ReauthWork' <= ReauthWork
      /\ reauth_timer'.state # reauth_timer.state => ReauthWork' < ReauthWork
  BY <1>1
     DEF Step_REAUTH_TIMER, REAUTH_TIMER_INITIALIZE, REAUTH_TIMER_REAUTHENTICATE,
         ReauthStays, ReauthWork, SmType, ReauthType
<1>5. /\ MachineWork' <= MachineWork
      /\ reauth_timer'.state # reauth_timer.state => MachineWork' < MachineWork
  BY <1>2, <1>3, <1>4, WorkParts, WorkPartsNext, ConstantsAssumption DEF MachineWork
<1>6. QED BY <1>1, <1>5, TurnFalls DEF Step_REAUTH_TIMER

LEMMA KeyFalls == WInv /\ WInv' /\ Step_AUTH_KEY_TX => Work' \in 0..(Work - 1)
<1> SUFFICES ASSUME WInv, WInv', Step_AUTH_KEY_TX PROVE Work' \in 0..(Work - 1)
  OBVIOUS
<1> USE DEF WInv, FInv, IInv, TypeOK, Step_AUTH_KEY_TX, AUTH_KEY_TX_NO_KEY_TRANSMIT,
            AUTH_KEY_TX_KEY_TRANSMIT, KeyStays
<1>1. loop.pc = "AUTH_KEY_TX" /\ loop'.pc = "test"
  BY DEF Pass, LoopType
<1>2. PaeWork' = PaeWork /\ BeWork' = BeWork
  BY DEF PaeWork, Settled, BeWork, SmType
<1>3. ReauthWork' = ReauthWork
  BY <1>1 DEF ReauthWork, SmType
<1>4. /\ KeyWork' <= KeyWork
      /\ auth_key_tx' # auth_key_tx => KeyWork' < KeyWork
  BY DEF KeyToNO_KEY_TRANSMIT, KeyToKEY_TRANSMIT, KeyWork, SmType
<1>5. /\ MachineWork' <= MachineWork
      /\ auth_key_tx' # auth_key_tx => MachineWork' < MachineWork
  BY <1>2, <1>3, <1>4, WorkParts, WorkPartsNext, ConstantsAssumption DEF MachineWork
<1>6. QED BY <1>1, <1>5, TurnFalls

\* The test of the do-while and what follows it.
LEMMA TestFalls ==
  WInv /\ WInv' /\ (AnotherPass \/ StepAgain \/ Return \/ ReturnAndFree)
    => Work' \in 0..(Work - 1)
<1> SUFFICES ASSUME WInv, WInv', AnotherPass \/ StepAgain \/ Return \/ ReturnAndFree
             PROVE  Work' \in 0..(Work - 1)
  OBVIOUS
<1> USE DEF WInv, FInv, IInv, TypeOK
<1>1. CASE AnotherPass \/ StepAgain
  <2>1. /\ loop.pc = "test" /\ loop'.pc = "AUTH_PAE" /\ UNCHANGED machines
        /\ ~loop'.changed
        /\ \/ loop.changed /\ loop'.then = loop.then
           \/ ~loop.changed /\ loop.then = "step" /\ loop'.then = "return"
    BY <1>1 DEF AnotherPass, StepAgain, LoopType
  <2>2. MachineWork' = MachineWork
    BY <2>1 DEF machines, MachineWork, PaeWork, Settled, BeWork, ReauthWork, KeyWork
  <2>3. MachineWork \in Nat
    BY WorkParts, ConstantsAssumption DEF MachineWork
  <2>4. CASE loop.changed
    <3>1. Work = 6 + 5 * MachineWork + (IF loop.then = "step" THEN 5 ELSE 0)
      BY <2>1, <2>3, <2>4 DEF Work
    <3>2. Work' = 5 + 5 * MachineWork + (IF loop.then = "step" THEN 5 ELSE 0)
      BY <2>1, <2>2, <2>3, <2>4 DEF Work
    <3>3. QED BY <2>3, <3>1, <3>2
  <2>5. CASE ~loop.changed
    <3>1. Work = 6 + 5 * MachineWork
      BY <2>1, <2>3, <2>5 DEF Work
    <3>2. Work' = 5 + 5 * MachineWork
      BY <2>1, <2>2, <2>3, <2>5 DEF Work
    <3>3. QED BY <2>3, <3>1, <3>2
  <2>6. QED BY <2>4, <2>5
<1>2. CASE Return \/ ReturnAndFree
  <2>1. loop.pc = "test" /\ loop'.pc = "idle"
    BY <1>2 DEF Return, ReturnAndFree, LoopType
  <2>2. Work' = 0
    BY <2>1 DEF Work
  <2>3. QED BY <2>1, <2>2, WorkRange
<1>3. QED BY <1>1, <1>2

LEMMA OnlyTheLoop == [Next]_vars /\ loop.pc # "idle" => eapol_sm_step \/ UNCHANGED vars
BY DEF Next, ieee802_1x_receive, ReceiveIdentity, ReceiveResponse, ReceiveStart,
       ReceiveLogoff, ReceiveOther, ReceiveMalformed, ieee802_1x_receive_auth,
       AcceptReauthenticate, AcceptSessionTimeout, AcceptAndFree, ReceiveReject,
       ReceiveChallenge, eapol_port_timers_tick, Ap_handle_session_timer, Apd_free_stas,
       StartLoop

-----------------------------------------------------------------------------
\* The do-while of eapol_sm_step ends after at most WorkLimit steps, for all
\* periods, timeouts and session timeouts, those of 0 included: the machines
\* never chase each other, and nothing runs between their turns.
THEOREM LoopTerminates == Spec => WorkFalls
<1>1. WInv /\ WInv' /\ eapol_sm_step => Work' \in 0..(Work - 1)
  BY PaeFalls, BeFalls, ReauthFalls, KeyFalls, TestFalls DEF eapol_sm_step
<1>2. WInv /\ WInv' /\ [Next]_vars
        => [loop.pc # "idle" => Work \in 1..WorkLimit /\ Work' \in 0..(Work - 1)]_vars
  BY <1>1, OnlyTheLoop, WorkRange DEF WInv
<1>3. QED BY <1>2, WInvInit, WInvNext, PTL DEF Spec, SafetySpec, WorkFalls

=============================================================================
