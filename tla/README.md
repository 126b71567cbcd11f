# Models of the gateway's own protocol programs

The repository is the GPL part of a home gateway's firmware (OpenRG on Linux 2.4). Most of it is
vendored: the kernel, uClibc, busybox, OpenSSL and so on. What the modules here model are the
programs of it that have a protocol and a state of their own:

- `rt2500apd` (`src/rg/vendor/ralink/8021X`), the daemon that decides which wireless stations may
  use the access point: it relays EAP between a station (the supplicant) and a RADIUS server, and
  opens the station's port when the server accepts it;
- the PPPoE server (`src/rg/pkg/pppoe-server/src/pppoe-server.c`, with its event library in
  `libevent/`), which gives each client a session slot and a child process;
- the PPPoE relay (`relay.c` of the same package), the kernel module that passes discovery and
  session frames between clients and access concentrators (ACs).

Paths below are relative to the directory of the program at hand unless they start with `src/`.

## 1. Inventory

| Part | Code | State | Operations |
| --- | --- | --- | --- |
| Port access control | `eapol_sm.c/.h` | per station: four state machines (Authenticator PAE, Backend Authentication, Reauthentication Timer, Key Transmit), the flags they share, four timers | `eapol_sm_alloc`, `_initialize`, `_step`, `_free`, the one-second tick |
| EAPOL and relay | `ieee802_1x.c/.h` | per station: the stored answer of the server, the last EAP response, identity, keys | a frame of the supplicant (`ieee802_1x_receive`), an answer of the server (`ieee802_1x_receive_auth`), a request to the server (`ieee802_1x_encapsulate_radius`), requests and keys to the supplicant |
| Station table | `sta_info.c/.h`, `ap.h` | list and hash of at most 1024 stations, the session timer of each | create, look up by address or by RADIUS identifier, free one or all |
| RADIUS client | `radius_client.c/.h` | the retransmit list, its count, the next identifier, the server in use, the socket | take an identifier, send, receive, retransmit with back-off, fail over, return to the primary, flush |
| RADIUS messages | `radius.c/.h` | a message and its attributes | build, sign, verify, copy an attribute, derive keys |
| Event loop | `eloop.c/.h` | readers, ordered timeouts, signal handlers | register, cancel, run, terminate |
| Daemon | `rt2500apd.c/.h` | the configuration in use, the sockets | start, reload on SIGUSR1, terminate on SIGTERM |
| Configuration | `config.c/.h` | the parsed file | read, free |
| Hashes | `md5.c/.h` | none | MD5, HMAC-MD5 |
| PPPoE server | `pppoe-server.c` | the session slots, on a free and a busy list; per slot its client, its child's pid, FLAG_SENT_PADT | PADI, PADR (allocate, fork, register), PADT, the end of a child (free), SIGTERM (close all) |
| Signals of the event library | `libevent/event_sig.c` | `fired` of each signal, `PipeFull`, the pipe, the table of children | the signal handler, `DoPipe`, `child_handler`, `Event_HandleChildExit` |
| PPPoE relay | `relay.c` | the interface list; the session table: free and active list, hash of both ends, count, epochs | add, remove and clear interfaces; PADI, PADO, PADR, PADS, PADT; a session frame; `cleanSessions` |

**How they interact.** The daemon has one thread, and `eloop_run` calls one handler at a time:
a due timeout first, then the ready sockets. A frame or an answer sets flags of the station's
machines and calls `eapol_sm_step`, which runs the four machines in turn until none of them moves.
The machines call back: the backend's RESPONSE sends an Access-Request through the RADIUS client,
CONNECTING drops the stored answer, KEY_TRANSMIT sends keys. The RADIUS client finds the station of
an answer through the identifier the station keeps. A reload flushes the client and frees all
stations. Signals interrupt a handler anywhere, since `eloop_handle_signal` calls the handler in
signal context.

The PPPoE server has one thread too, in `Event_HandleEvent`; a handler runs to its end. Around it
run one child for each session, first the server's own code after `fork`, which sends the PADS, then
pppd, and the signals, which `event_sig.c` turns into a flag, a byte in a pipe and a call from the
loop. The relay's functions are called by the network stack with a frame and by a timer; callers are
not in the repository.

**What is hard.**
- An answer of the server comes when the machines have moved on: after a timeout, an abort, in
  the middle of another exchange, or for a session that is already authenticated.
- Flags outlive the exchange that raised them (`aSuccess`, `rxResp`, `authSuccess`,
  `keyAvailable`, `reAuthenticate`), and the machines hand over to each other through them.
- A reauthentication runs while the port is open and can fail at every step.
- The loop of `eapol_sm_step` must end, whatever periods a server configures.
- The retransmit list is shared by all stations, its identifiers are one octet, its count is kept
  by hand, its timer is registered only now and then, and its entries are signed for one server.
- Requests are lost, answers are late, lost or doubled, servers change.
- A child of the PPPoE server may exit before the server has registered it, a signal may arrive
  between any two statements of the loop that serves signals, and a PADT may be late, repeated, or
  for a slot that another client has by now.
- The relay keeps one session in five places, for two ends of which each may close, repeat or number
  a new session as an old one, and compares times that wrap.

**What makes each part correct.** Port access: the port opens only on an Accept to the latest
request, a failure closes it, every wait ends whose timer did not wrap, the machines never end up in
states that do not belong together. RADIUS client: no request is forgotten, none is kept for ever, identifiers are
unique on the list, the count covers the list, the oldest entry is the one that is evicted,
everything on the list can be used with the server in use, an answer reaches the station that
asked. Station table: no handler uses a station after it was freed, the table does not fill with
stations that are gone. Event loop: timeouts in order, cancelled ones never run, no handler is
interrupted in the middle of an update. PPPoE server: every slot is free or has the one child that
was forked for it, no exit is overlooked, a client that was told of its session in time is told its end, and
the slot of such a session comes back. PPPoE relay: a frame reaches the session it is for or none, no end
is left with half a session, an idle session is freed in time and not before. Each of these has its
exceptions in the code; section 4 names them, and the properties except no more. `PROJECT.json` lists the hazards
with their lines.

Elsewhere in the tree, own code of the vendors is small: `src/rg/pkg/util` (IPC framing, error and
string helpers), `src/rg/pkg/ppp/kernel/be_pppoa.c` (PPP over ATM), the board modules in
`src/rg/vendor/actiontec`, and build tools. They are listed as components and not modelled.

## 2. Plan

Done, in this order:

1. `PortAccess`, `EapolSm`: one station against every order of events; `EapolSmProofs`,
   `EapolFlagProofs`, `EapolWorkProofs`.
2. `RadiusClient`: the list, identifiers and servers, with the stations reduced to the identifier
   they hold; `RadiusClientProofs`.
3. `EventLoop`: the ordered timeouts, cancellation, select and signals, the station table;
   `EventLoopProofs`. `Subsequence` is what both lists share.
4. `PppoeServer`: slots, children and signals; `PppoeServerProofs`.
5. `PppoeRelay`: the session table and its clock; `PppoeRelayProofs`.
6. `SessionNumbers`: what the server and the relay both promise their clients, which both implement.

Left, in the order of what it would add:

7. `Rtapd`: several stations (EapolSm reduced to what it asks and takes) composed with RadiusClient
   and the reload, to state delivery of answers end to end, and signals that interrupt a handler
   between two of its statements.
8. `RadiusMsg` and `Config` as pure operators: attributes against a reference reading.
9. The PPPoE client (`pppoe.c`, `discovery.c`) against the relay and the server.
10. `Ipc` (partial reads and writes of `src/rg/pkg/util/ipc.c`) and the PPPoA backend.

## 3. The modules

### EapolSm
One station. The variables are the C structures: `auth_pae`, `be_auth`, `reauth_timer`,
`auth_key_tx`, the shared flags `sm`, the `timer`s, what `sta_info` keeps (`sta`), and `loop`, the
control of `eapol_sm_step`. Each `SM_STATE` entry is an action with the name of the code, enabled
by the conditions of `SM_STEP` (`PaeToCONNECTING` and so on, in the order of the code's tests);
each `SM_STEP_RUN` is one step of TLC, and the do-while is explicit (`AnotherPass`, `Return`), so
that its termination is a property and not an assumption. The handlers (`ReceiveStart`,
`ReceiveChallenge`, `eapol_port_timers_tick`, ...) set their flags and start the loop;
`ReceiveStart` and `ReceiveLogoff` run it twice, as the code does; an Accept without any session
timeout frees the station after it.

`sta.pending` stands for `radius_identifier >= 0`, `sta.last_recv_radius` for the code of the
stored answer. An answer may come at any time after its request was sent, until a later request of
the station has replaced the identifier. `BE_AUTH_RESPONSE` includes the calls it makes: the new
identifier, and (`CarriesState`) whether the request copies a State attribute. `ToInt` is the
conversion of an unsigned period to an int timer. The port is `sm.portStatus`; `set_sta_authorized`,
which the code calls with every change of it, only logs.

### PortAccess
The promise of an authenticator about one port: it opens only on an Accept to the latest request,
once per Accept, and an Accept that was given up never opens it later. `ImplementsPortAccess` is
the refinement mapping: the port is `sm.portStatus`, the exchange is asked while an answer is
pending and granted from the moment a waiting backend holds the Accept until the port opens.

### EapolSmProofs, EapolFlagProofs, EapolWorkProofs
`EapolSmProofs` extends EapolSm with the inductive invariant `IInv` and the theorems of section 6,
`EapolFlagProofs` extends that with `FInv` for the two flags that outlive their exchange, and
`EapolWorkProofs` extends that with the proof that the loop ends.

### Subsequence, SubsequenceProofs
Unlinking from a list: `Where(list, Test)` is what stays, in its order. It means what `SelectSeq`
means, but is given by the positions that stay instead of by recursion, so that facts about it can be
proved (`AtProperties`: the entries of the result are those of the list, each once and in order).
RadiusClient and EventLoop unlink with it.

### RadiusClient
`msgs` is the retransmit list, newest first; an entry has the number of its request, the secret it
is signed with, its attempts, the seconds to `next_try`, `next_wait` and its age. Identifiers
follow from the number of the request (`Id`). `num_msgs` is the client's own count, `timers` the
registrations of `Radius_client_timer`, `auth_server` the server of the configuration, `peer` the
one the socket is connected to; `sta_list` and `radius_identifier` are what it shares with the
stations. The actions are the functions of the code: sending (with the eviction, and with the
identifier taken even when the message cannot be built), receiving (a reply to any request ever
sent, any number of times, verified or not), the timer with its walk, back-off and removal,
failover, the return to the primary, the reload. `Tick` lets a second pass, and is disabled while
a timeout is due, because `eloop_run` serves it first. `RadiusClientProofs` has its theorems.

### EventLoop
The loop and the station table it serves. `timeout` is the list of `eloop.c`, earliest first, with
the time that is left of each entry (`due`; 0 or less is due); `pc` is the stage of `eloop_run`,
`tv` the limit given to select, `ready` the sockets it reported, `terminate` the flag. `sta_list`,
`sta_hash` and `num_sta` are the three views the code keeps of one table. A station is named by its
block of memory (`Mem`), not by its address, since timeouts hold pointers: a freed block may become
another station while a session timer still points to it. One step is one handler or one stage of
an iteration: `StartSelect` (test and limit), `SelectReports`/`SelectExpires`, at most one timeout
(`ServeTick`, `ServeSession`, `NoTimeout`), then the ready sockets in the order they were registered
(`Handle_read` creates stations, `Radius_client_receive` limits sessions or frees stations). Signals
come at every stage; one that comes while select waits ends the wait. `Pass` is the clock, which
runs on while handlers are late. What a frame or an answer does to the machines of its station is
EapolSm's subject and not repeated here. `tv_sec` is the sum of the clock and an unsigned timeout in
a signed `time_t`: a large Session-Timeout ends in the past, at the head of the list (`InThePast`).
`Removed` is `Ap_sta_list_del` and `Ap_sta_hash_del`. `EventLoopProofs` has its theorems.

### PppoeServer
`FreeSessions`, `BusySessions`, `eth`, `pid`, `sentPADT` are the slots, `child_table` the table of
`event_sig.c`, `fired`, `PipeFull`, `pipe` its signal state, `masked`, `pending`, `installed` what the
kernel does with SIGCHLD. `proc` says what a process identifier is: nothing, a child before or after
it sent the PADS, a pppd, or one that exited and was not waited for. The handlers of packets are one
action each, but processPADR has two: up to `fork` (`PADR`, `PADRForkFails`) and after it
(`Register`), because the child runs in between. The loop that serves signals is one action for each
statement between which a signal matters: `DoPipe` (read), `ClearPipeFull`, `TestFired`,
`child_handler` (one waitpid), `ReapDone`, `ResetFired`. Signals (`TermArrives`, and SIGCHLD through
`raise_SIGCHLD`) come at any of them. Observers: `open`, the sessions a client was told of and not told
the end of; `late`, those of them whose PADS the child sent after their PADT, so that the client was told
of the session last and `childHandler` tells it nothing; and `missed`, the children whose signal
`ResetFired` overwrote. Handlers that only answer (PADI, a PADR that is refused) change no state and have
no action.

### PppoeRelay
`FreeSessions`, `ActiveSessions`, `NumSessions`, `acHash`, `clientHash` and `Buckets` are the session
table, `if_head` the interface list, `epoch` and `jiffies` the wrapping times, `clean` the ticks until
`cleanSessions` is called. A free number may be any of the free ones, where the code takes the top of
a stack: no property depends on which. A PADS is three actions, for its three outcomes
(`PADSCreates`, `PADSNoRoom`, `PADSAgain`). Observers: `acOpen` and `clientOpen`, what ACs and clients
were told of sessions of their own; `misled`, the clients that a PADS taken for a duplicate told the number
of another client's session; and `idle`, the true time since the last frame. PADI, PADO and PADR are passed
on and change nothing.

### SessionNumbers
The promise of whoever gives PPPoE session numbers: a number is one client's at a time, and it is taken
back from a client that still believes in it only by telling it so. The promise is made to clients that were told of
a number they hold. A client may also be misled (`Mislead`): told of a number after its end, or of one that another
holds. It may not have believed rightly in that number before, and taking the number back owes it no word.
The server's slots implement this (`SlotNumbers`: a client holds a slot while it is busy and
the server runs, and believes in it from the child's PADS to a PADT; the misled are `late`), and so do the
relay's sessions towards the clients (`ClientNumbers`, whose misled are `misled`).

### PppoeServerProofs, PppoeRelayProofs
The inductive invariants and theorems of the two.

### MC modules
`MCEventLoop` defines the buckets of three addresses, two of which collide. `MCRadiusClient` defines the lists of
servers, `MCPppoeServer` names the clients, `MCPppoeRelay` defines the interfaces and the symmetry of
clients and of ACs (they are compared for equality only).

## 4. Runs

| Run | Properties | What it shows |
| --- | --- | --- |
| `eapol_safety` | TypeOK, AuthenticatedByAccept, MachinesAgree, NoStaleReauthentication, ExchangeInStep, FailureCloses, RetryBounds, KeyOnlyOnAccept, ChallengeReplyCarriesState, ImplementsPortAccess, WorkFalls | every order of frames, answers, ticks, session timers and reloads keeps the machines coupled and the port honest; every turn of a machine leaves the loop of `eapol_sm_step` less to do |
| `eapol_liveness` | StepTerminates, WaitsEnd, Reauthenticates, OpenPortIsRenewed | the loop ends, every wait ends, an open port is renewed or closed; the exceptions are the timers that a Session-Timeout of 2^31 or more has made negative |
| `radius_safety` | TypeOK, CountCovers, ListInOrder, SignedForServer, WaitingTakesItsAnswer, GivenUpInTime | the list stays consistent across wrap, eviction, loss, duplicates, failover, return to the primary, reload; a station whose request waits takes the answer to it; while the server stays, a request without an answer is dropped in time |
| `radius_liveness` | GivenUp | with one server an unanswered request leaves the list |
| `event_loop` | TypeOK, EarliestFirst, OneTimeoutEach, TableAgrees, NoOvertaking, DueIsServed, Terminates | list, hash and count stay one table, timeouts stay in order and belong to living stations (one session timer per block at most), nothing overtakes a due tick, no flood of frames starves a tick, a termination ends the loop |
| `pppoe_server` | TypeOK, SlotsAndChildren, NoExitUnnoticed, ImplementsSessionNumbers, Reclaimed | in every order of packets, children and signals a slot and its child stay together, no exit is overlooked but in one window, a session ends or changes hands only with its client told, the slot of a closed session comes back; the exception to the last two is the client whose PADS followed the PADT |
| `pppoe_relay` | TypeOK, TableConsistent, NoHalfSessions, IdleBound, NoEarlyExpiry, ImplementsSessionNumbers | whatever frames, restarts of an AC, a full table and the wrap of the clock do, the table is consistent, no half of a session is left, the number of a session is taken from its client only with a PADT, a client told the number of another's session reaches nothing with it, and a session is freed in time and not before |

Five runs end in a violation: each states what a comment or the README says, and TLC shows a
behaviour of the code that does otherwise.

| Run | Said | Found |
| --- | --- | --- |
| `state_attribute` | `ieee802_1x.c:342-343`: the State attribute is copied if and only if the request replies to the previous challenge | a challenge that comes after the exchange was aborted is stored; the first request of the next exchange copies its State. The other half of the comment holds (ChallengeReplyCarriesState) |
| `reauth_disabled` | `README:86`: zero disables reauthentication | only the period changes, to 3600; a station whose Accept brings a Session-Timeout is kept and reauthenticated |
| `radius_failover` | `radius_client.c:36-37`: an entry is removed after the maximum number of attempts | with several servers of one secret each failover resets the attempts before they reach it |
| `radius_limit` | `radius_client.c:38-39`: the oldest entry is removed when the limit is exceeded | after `Radius_client_get_id` dropped an entry without counting it off, entries are removed from a list below the limit |
| `radius_misdelivery` | `radius_client.c:346-347`: a new reply is not used with an old request | the station that still holds the identifier of a request given up long ago takes the answer |

Behaviours met on the way that no document contradicts, and that are therefore hazards and not
findings: a Session-Timeout of 2^31 or more in an Accept makes `reAuthWhen` negative, so that the session is
never renewed (Reauthenticates and OpenPortIsRenewed except that timer), and in a challenge it makes `aWhile`
negative, so that REQUEST waits for a silent supplicant without end (WaitsEnd excepts that one; with both
the port of a silent supplicant stays open); a key that a late Accept left is sent on the next Accept if that
one's own key cannot be stored; a Session-Timeout of 0 in a challenge becomes a supplicant timeout of 0; after a
reload the socket stays connected to the server in use before; the session timer of a freed station
fires, for whatever station lives in its memory by then; a SIGTERM between the test of the loop and
a select without a timeout waits for the next frame (`LostWakeup`, which Terminates excepts); a stream
of Accepts whose Session-Timeout wraps into the past keeps a session timer at the head of the list and
so the ticks away (DueIsServed excepts an endless one).

PPPoE server: a SIGCHLD that comes between the last `waitpid` (or the test of `fired`) and `fired = 0`
is lost, its child stays a zombie and its slot busy until another child exits (`missed`); a SIGTERM
that reaches a child before `execv` is swallowed by the handler it inherited, so the pppd starts for a
session that is closed, and ends because nobody answers it, if its client was told of the end last. The
PADS may also follow the PADT: then the client does answer, pppd and client may go on for ever on a slot
that is closed and busy, and when the child ends `childHandler` sends no second PADT, so that the slot
may go to another client while the first believes in it (`late`, which OpenIsBusy,
ImplementsSessionNumbers and Reclaimed except); after the server has exited a child may still send its PADS (the model stops there).
PPPoE relay: at the wrap of `jiffies` a session may be idle for up to 2 * timeout - 1 ticks, although
cleanSessions returns "the timeout to the next possible expiry", because the minimum is searched with
a raw comparison and an epoch of ULONG_MAX is taken for no session; a PADS of an AC that restarted and
uses an old number is taken for a duplicate, and the client it is for gets the number of another
client's session (the comment at relay.c:1231 asks whether that is right). Such a client is `misled`: the
number leads it nowhere, since the relay looks up address and number together, and the session's own
client keeps its session, but what the AC then sends for its new session goes to that client; the sessions of a removed interface stay until they are idle.

### Bounds, and why they are enough
- EapolSm: periods of 1 or 2 ticks. Only whether a timer has expired when an event arrives
  matters to the guards, and ticks and events interleave freely. `maxReq` is 2, its value in the
  source, so that a retransmission and the give-up both happen; `reAuthMax` is 1, so that the
  counter passes its limit; `SessionTimeouts` has 0 (an edge), 1 and 15, which
  is negative as an int of width 16. `sessionTimeoutSet` is FALSE in the safety run, where an
  Accept may also free the station, and TRUE in the liveness run. The integers of TypeOK are
  unbounded; reachable values are bounded by the periods, so no state constraint is needed.
- RadiusClient: 2 stations, 4 requests (`NumRequests`, the one artificial bound), identifiers
  modulo 3 so that they wrap onto entries of the list, at most 2 entries so that the list fills,
  4 attempts with a failover after more than 2, back-off 2 then 3 so that the limit is reached,
  three servers of which the third has another secret. The liveness run has one server and 3
  requests, the failover run needs a single request, the limit run six.
- EventLoop: three addresses of which two share a bucket, two blocks and a table for two, so that
  chains have two entries, the table fills, and blocks are used again. A tick every second, as in
  the code, sessions of 0 (due at once), 2 seconds (due with a tick) and 6, which is beyond
  the end of the modelled `time_t` (`MaxTime` = 4 seconds from now) and so becomes 6 - 8 = -2
  (`TimeModulus`) and lands in the past. `MaxLate` = 1 is the
  artificial bound: the clock stops when a timeout is more than that late, so that its lateness stays finite; the
  order of events does not depend on how late the loop is.
- PppoeServer: two clients, two slots, two processes, so that both slots are busy, a slot changes
  hands, two children exit in one turn of the loop and a process identifier is used again. There is no
  artificial bound; signals and packets come in any number.
- PppoeRelay: two clients, two ACs with session numbers 1 and 2, so that an AC's number meets the
  relay's own; two interfaces in a list of at most two (`MaxNodes`), two sessions, so that the table
  fills; a timeout of 2 ticks and a clock of 8, the smallest that `RelayAssumption` allows for it (the real
  one is 2^32 for a timeout of minutes), so that epochs wrap in every way relative to the timeout.
  `cleanSessions` is called exactly when it asked to be (external).
- Deadlock is checked in every run but `pppoe_server`, whose server exits on SIGTERM. In EapolSm the
  tick is always possible for a station that exists, a frame for one that does not; in EventLoop the
  clock goes on after the loop has ended; in PppoeRelay time goes on.

## 5. Fairness

`EapolSm!Fairness`: weak fairness of `eapol_sm_step` (a handler runs to its end; nothing else is
enabled until then) and strong fairness of the tick: `eloop_run` looks for a due timeout in every
iteration before it serves the sockets, so frames and answers can delay a tick and cannot keep it
off for ever. It must be strong because each frame disables the tick while its handler runs. The
run `event_loop` shows that the loop provides it: DueIsServed, with nothing assumed of sockets.
`RadiusClient!Fairness`: weak fairness of the due timer and of the clock. Nothing is assumed of
supplicants, servers, the network, reloads or the session timer.
`EventLoop!Fairness`: weak fairness of `eloop_run` (the process is scheduled, and select returns when
its limit has passed) and of the clock. That a socket is ever ready, or a signal ever sent, is not
assumed. EapolSm's strong fairness of the tick rests on DueIsServed, which excepts an endless stream of
session timeouts that wrapped into the past.
`PppoeServer!Fairness`: weak fairness of the thread once it is inside a handler, strong fairness of
`DoPipe` (select reports every ready descriptor, and all their handlers are called, so packets cannot
keep the pipe away for ever), weak fairness of a child on its way to `execv` and of the end of a pppd
whose session was closed for good (`ClosedForGood`): the SIGTERM reached pppd, or its client was told of
the end last and does not answer its LCP. Nothing is assumed of a child whose PADS followed the PADT until
another PADT comes, and another pppd may run for ever. `PppoeRelay` states safety only; IdleBound bounds what a liveness property would leave open.

## 6. Proofs

All theorems hold for every value of the constants that the named assumption of the module allows; TLC
evaluates these assumptions in every run.

**EapolSmProofs** (`ConstantsAssumption`: positive periods that fit an int; `reAuthPeriod`,
`suppTimeout` and session timeouts arbitrary naturals):

- `TypeCorrect`: TypeOK.
- `Inductive`: `IInv`. The safety properties speak of a daemon at rest, or of one machine, and are
  not inductive: they depend on how the PAE machine and the backend are coupled in the middle of a
  pass. `IInv` adds that coupling: which pairs of states exist before (`AgreeInside`) and after
  (`AgreeOutside`) the backend's turn; that each verdict flag stands for the state that raised it
  while the PAE machine is AUTHENTICATING (`VerdictFlags`); what `aReq`, `aSuccess` and `aFail` say
  of the stored answer (`AnswerFlags`); that a pass without a change so far has left no transient
  state (`QuietPass`), which is what carries a property from inside the loop to its end; where
  `reAuthCount` stands on entry to CONNECTING (`RetryCount`). One lemma per action (`Keeps_...`),
  one step per conjunct.
- From it: AuthenticatedByAccept, MachinesAgree, ExchangeInStep, FailureCloses, RetryBounds
  as invariants, and the action property ChallengeReplyCarriesState.
- `PortAccessImplemented`: `Spec => ImplementsPortAccess`, one lemma per group of actions, each
  action mapped to the step of PortAccess it takes or to a stutter.

**EapolFlagProofs** (the same assumption): NoStaleReauthentication and KeyOnlyOnAccept, which speak of flags
that outlive their exchange. `FInv` adds to `IInv` what a pass that changes nothing leaves behind: no
`reAuthenticate`, no way back to CONNECTING (`QuietPae`), a reauthentication timer that is not about to
expire (`QuietTimer`), and that success stays while the station is authenticated (`SuccessKept`), which leaves
no key behind. So a Reject, which is taken at rest, finds the timer running, and the one state
that would keep `reAuthenticate`, HELD, is entered without it (`NoReauthOnFail`, `HeldIsClosed`); and
between the Accept and the next turn of the key machine nothing drops the Accept (`SendableOnAccept`).

**EapolWorkProofs** (the same assumption): `LoopTerminates`, that every step of `eapol_sm_step` lowers `Work`, a
natural number that no event raises above `40 * reAuthMax + 275`. So the do-while ends after that many turns,
for all periods and timeouts, those of 0 included: the safety half of StepTerminates, of which only the fairness
is left to TLC. `Work` is the turns left in the pass and five for every change that the four machines may
still make (`MachineWork`). Each machine's share says how far it is from rest: the PAE machine's counts most,
because one of its transitions may set the backend going again (`PaeWork` falls by more than `BeWork` can grow); a
reauthentication that fell due, or a timer of period 0, makes the PAE machine move at most until
`reAuthCount` passes `reAuthMax`, which is why that is in the bound and why the assumption has it at least 1 (the
source has 2). That a machine which stays has nothing to do needs `FInv`: what a flag may be in which
state decides whether the next machine's guard can be true.

**RadiusClientProofs** (`RadiusAssumption`: positive limits, a longest wait of at least twice the first,
at least one server): TypeOK, CountCovers, ListInOrder, SignedForServer and the action properties
WaitingTakesItsAnswer and GivenUpInTime. ListInOrder and SignedForServer are one fact about a list (`WellFormed`: newest first,
distinct identifiers, one secret, every entry within its attempts and waits), which unlinking keeps because what
is left is a subsequence (`AtProperties`); where the socket is connected is a second, small invariant
(`ServerFollows`). CountCovers needs that the entry `Radius_client_get_id` drops leaves the count too
high and never too low. WaitingTakesItsAnswer is what is left of the promise `radius_misdelivery` refutes: the
identifier a station holds is always that of its latest request (`HoldsLatest`), and identifiers on the list
differ, so while that request waits no other answer can reach the station. GivenUpInTime is the safety half of
GivenUp, for any number of servers. `TimeLeft` is the time to the next try at an entry (or to the next call of the
timer, if that is later) and `MaxWait` for each attempt after it. A second takes one from it; a call of the timer
leaves it within `MaxRetries * MaxWait` or drops the entry, since the call it registers is for the soonest entry of
the list (`TimerInTime`); a new request registers a call only where the list was empty, and what cancels a call
empties the list or changes the server. That a call is registered whenever a request waits (TimerArmed, theorem
RequestsAreTimed) is one conjunct of the inductive invariant. Only a change of server gives the time
back, which is exactly what `radius_failover` shows to go on for ever.

**EventLoopProofs** (`EventLoopAssumption`: a tick fits a `time_t`): TypeOK, EarliestFirst, OneTimeoutEach,
TableAgrees and the action property NoOvertaking. `Sane` says of the list that it is ordered, holds one tick of each
station and at most one session timer of each block of memory; inserting at the place the code looks
for keeps it, and cancelling leaves a subsequence. The table needs that a station is in the list, and
in its chain, once (`InTableOnce`). NoOvertaking is the safety half of DueIsServed: the set of timeouts ahead of
a due tick never grows, but by a session timer that wrapped into the past, and each timeout that is served leaves
it. A cancellation keeps the order of what stays (`CancelledAhead`), a registration goes behind what is due at the
same time or before (`RegisteredAhead`), and the head is not registered twice (`TailAhead`).

**PppoeServerProofs** (`ServerAssumption`: at least one slot): TypeOK, SlotsAndChildren, NoExitUnnoticed
and, with OpenIsBusy, the refinement ImplementsSessionNumbers. They are nearly inductive together. What is added (`Auxiliary`): SIGCHLD is masked
exactly from `fork` to the registration; a full pipe has a byte in it unless `DoPipe` has just read
it; an entry of the table implies an installed handler; a session the client believes open has had no
PADT, unless it is in `late`. `SessionNumbersImplemented` maps each action to a step of SessionNumbers or a stutter: a slot that is
taken was free, so nobody holds its number; the child's PADS tells the holder, or misleads it if the PADT
went before; a PADT and SIGTERM retract; `child_handler`, and the server's exit, take back. `OpenSessionsAreBusy`
is the theorem on OpenIsBusy, a property of the proof and not of a run.

**PppoeRelayProofs** (`RelayAssumption`: no host is both client and AC, a clock of at least four
timeouts): TypeOK, TableConsistent, NoHalfSessions, IdleBound, the action property NoEarlyExpiry and the
refinement ImplementsSessionNumbers. NoHalfSessions enters the induction as `EndsServed`, in terms of the ends: a
client told of a session of its own is the client of its entry, and a misled client is not (`MisledFindNothing`
takes that to its frames). So nobody was told of a number both rightly and wrongly (`RightOrWrong`), which is
what the refinement needs: a PADS for another client misleads somebody that had not been told rightly.
No two ends clash because the AC's keys are looked up before a session is created
(`AcKeysUnique`) and the client's number is the relay's own. IdleBound is not inductive; what is
(`IdleAndClean`) says that idle time and the ticks to the next call add up to less than two timeouts,
and that the epoch is the true time of the last frame modulo the clock, from which the sign of the
wrapping difference is computed (`Left`).

**SubsequenceProofs**: what `At` and so `Where` return.

Only model-checked: all liveness (StepTerminates, WaitsEnd, Reauthenticates, OpenPortIsRenewed, GivenUp,
DueIsServed, Terminates, Reclaimed), which the proof system does not reach, and the properties of the
five runs that are violated. The safety halves of StepTerminates, DueIsServed and GivenUp are proved
(WorkFalls, NoOvertaking, GivenUpInTime). Every invariant, action property and refinement of a passing run is a theorem.

## 7. Not modelled

- `rt2500apd`: the EAP and RADIUS bytes, identifiers of EAP, encryption of keys, statistics, logging,
  and allocation failures (except a request that cannot be built). `portControl`, `portValid` and
  `keyTxEnabled` never change in the source, so FORCE_AUTH and FORCE_UNAUTH are unreachable and left
  out. A signal inside a handler, and several stations with full machines, are left to the plan. The
  timeouts of the RADIUS client are in RadiusClient and not on the list of EventLoop. `radius.c`,
  `config.c` and `md5.c` are sequential and without state; they are in the plan (8), md5 is not.
- PPPoE server: tags, cookies, service names, the discovery answers, L2TP, clustering and the other
  code under an `#ifdef` that the build does not define; a failure of malloc in `Event_HandleChildExit`; what
  children do after the server has exited. A PADT with a source address of zeros for a slot that was never
  used matches the slot's empty address and makes PppoeStopSession follow a null `ethif`; `Clients` holds real
  addresses only, so that frame is outside the model.
- The rest of the event library (`event.c`, `event_tcp.c`): timers and TCP, which the server does not
  need to serve its sessions. The PPPoE client (`pppoe.c`, `discovery.c`).
- PPPoE relay: the layout of frames and tags, the hash function, callers that run at the same time
  (`relay.c` takes no lock and leaves it to them), a host that is both client and AC.
- `be_pppoa.c` and `ipc.c`: thin layers over the kernel and over sockets; in the plan (10).
- The board modules (LEDs, latch, PCI), the build system and host tools, the kernel and the third-party
  packages: hardware access, build rules, or not this project's code.
