---------------------------- MODULE RadiusClient ----------------------------
(***************************************************************************)
(* The RADIUS client of rt2500apd (radius_client.c): the list of requests  *)
(* that wait for an answer, their retransmission, the identifiers, and the *)
(* change of server, together with what it shares with the stations        *)
(* (radius_identifier and the order of sta_list, sta_info.c).              *)
(*                                                                         *)
(* A request is named by its number; its identifier follows from it,       *)
(* because Radius_client_get_id counts up modulo 256.  Time is relative:   *)
(* an entry and a registered timeout hold the seconds that are left, and   *)
(* Tick lets one pass.  eloop_run serves a timeout that has expired before *)
(* it waits again, so a second does not pass while one is due; two         *)
(* registrations of Radius_client_timer for the same second count as one,  *)
(* since the second finds nothing left to do.                              *)
(*                                                                         *)
(* The network and the servers are the environment: a reply to any request *)
(* that was sent may arrive at any time, more than once or never.          *)
(* Allocation failures and errors of the socket are left out.              *)
(***************************************************************************)
EXTENDS Integers, SequencesExt, Subsequence

CONSTANTS
  Stations,
  NumRequests,   \* bound of the model on the requests sent
  IdModulus,     \* identifiers are u8: 256
  MaxEntries,    \* RADIUS_CLIENT_MAX_ENTRIES, 30
  MaxRetries,    \* RADIUS_CLIENT_MAX_RETRIES, 10
  NumFailover,   \* RADIUS_CLIENT_NUM_FAILOVER, 4
  FirstWait,     \* RADIUS_CLIENT_FIRST_WAIT, 1
  MaxWait,       \* RADIUS_CLIENT_MAX_WAIT, 120
  secret,        \* shared_secret of each of auth_servers, a sequence
  RetryPrimary   \* radius_retry_primary_interval is not 0

ASSUME RadiusAssumption ==
  /\ NumRequests \in Nat
  /\ {IdModulus, MaxEntries, NumFailover, FirstWait} \subseteq Nat \ {0}
  /\ MaxRetries \in Nat /\ MaxRetries > 1
  /\ MaxWait \in Nat /\ MaxWait >= 2 * FirstWait
  /\ Len(secret) \in Nat \ {0}
  /\ RetryPrimary \in BOOLEAN

VARIABLES
  sent,               \* the station that sent request n, sent[n]
  out,                \* the requests that reached the socket
  msgs,               \* the retransmit list, newest first
  num_msgs,           \* what the client counts of it
  timers,             \* registrations of Radius_client_timer
  auth_server,        \* conf->auth_server
  peer,               \* the server auth_serv_sock is connected to
  sta_list,           \* the station table, newest first
  radius_identifier   \* of each station, -1 if none

client == <<msgs, num_msgs, timers>>
server == <<auth_server, peer>>
stations == <<sta_list, radius_identifier>>
vars == <<sent, out, client, server, stations>>

Servers == 1..Len(secret)
Ids == 0..(IdModulus - 1)
Id(n) == (n - 1) % IdModulus

Entry ==
  [req : 1..NumRequests, secret : {secret[s] : s \in Servers},
   attempts : 0..(MaxRetries - 1), due : 0..MaxWait, wait : 1..MaxWait,
   age : 0..FirstWait]    \* seconds since first_try, FirstWait standing for more

\* The type invariant; num_msgs is a size_t that must not wrap below 0.
TypeOK ==
  /\ sent \in Seq(Stations) /\ Len(sent) <= NumRequests
  /\ out \subseteq 1..NumRequests
  /\ msgs \in Seq(Entry)
  /\ num_msgs \in 0..MaxEntries
  /\ timers \subseteq 0..MaxWait
  /\ auth_server \in Servers /\ peer \in Servers
  /\ sta_list \in Seq(Stations)
  /\ radius_identifier \in [Stations -> Ids \cup {-1}]

InList(n) == \E e \in Range(msgs) : e.req = n

\* Radius_client_init: the socket is connected to the first server.
Init ==
  /\ sent = <<>> /\ out = {}
  /\ msgs = <<>> /\ num_msgs = 0 /\ timers = {}
  /\ auth_server = 1 /\ peer = 1
  /\ sta_list = <<>>
  /\ radius_identifier = [s \in Stations |-> -1]

-----------------------------------------------------------------------------
(***************************************************************************)
(* Sending: ieee802_1x_encapsulate_radius, Radius_client_get_id,           *)
(* Radius_client_send and Radius_client_list_add.                          *)
(***************************************************************************)
\* Mutant: an old entry with the new identifier stays.
Radius_client_get_id_Keeps(id) == msgs

\* Radius_client_get_id drops an entry that holds the new identifier; it does
\* not count it off num_msgs.
Radius_client_get_id(id) == Where(msgs, LAMBDA e : Id(e.req) # id)

NewEntry(n) ==
  [req |-> n, secret |-> secret[auth_server], attempts |-> 1,
   due |-> FirstWait, wait |-> 2 * FirstWait, age |-> 0]

\* Mutant: the limit is one too high.
Radius_client_list_add_OneMore(list, entry) ==
  /\ timers' = IF list = <<>> THEN timers \cup {FirstWait} ELSE timers
  /\ \/ /\ num_msgs <= MaxEntries
        /\ msgs' = <<entry>> \o list
        /\ num_msgs' = num_msgs + 1
     \/ /\ num_msgs > MaxEntries
        /\ msgs' = IF list = <<>> THEN <<entry>> ELSE <<entry>> \o Front(list)
        /\ UNCHANGED num_msgs

\* A full list loses its oldest entry, the last.
Radius_client_list_add(list, entry) ==
  /\ timers' = IF list = <<>> THEN timers \cup {FirstWait} ELSE timers
  /\ \/ /\ num_msgs < MaxEntries
        /\ msgs' = <<entry>> \o list
        /\ num_msgs' = num_msgs + 1
     \/ /\ num_msgs >= MaxEntries
        /\ msgs' = IF list = <<>> THEN <<entry>> ELSE <<entry>> \o Front(list)
        /\ UNCHANGED num_msgs

\* Mutant: a station keeps the identifier it holds.
TakesIdentifier_KeepsHeld(s) ==
  /\ Len(sent) < NumRequests
  /\ sent' = Append(sent, s)
  /\ sta_list' = IF s \in Range(sta_list) THEN sta_list ELSE <<s>> \o sta_list
  /\ radius_identifier' = IF radius_identifier[s] = -1
                          THEN [radius_identifier EXCEPT ![s] = Id(Len(sent) + 1)]
                          ELSE radius_identifier
  /\ UNCHANGED server

TakesIdentifier(s) ==
  /\ Len(sent) < NumRequests
  /\ sent' = Append(sent, s)
  /\ sta_list' = IF s \in Range(sta_list) THEN sta_list ELSE <<s>> \o sta_list
  /\ radius_identifier' = [radius_identifier EXCEPT ![s] = Id(Len(sent) + 1)]
  /\ UNCHANGED server

\* A station relays an EAP response to the server.
ieee802_1x_encapsulate_radius(s) ==
  /\ TakesIdentifier(s)
  /\ out' = out \cup {Len(sent) + 1}
  /\ Radius_client_list_add(Radius_client_get_id(Id(Len(sent) + 1)),
                            NewEntry(Len(sent) + 1))

\* The message could not be built (a fail: label): the identifier is taken.
EncapsulateFails(s) ==
  /\ TakesIdentifier(s)
  /\ msgs' = Radius_client_get_id(Id(Len(sent) + 1))
  /\ UNCHANGED <<out, num_msgs, timers>>

-----------------------------------------------------------------------------
(***************************************************************************)
(* Receiving: Radius_client_receive and the part of                        *)
(* ieee802_1x_receive_auth that says whose answer it is.                   *)
(***************************************************************************)
\* Ap_get_sta_radius_identifier: the first station of the table that has it.
Holders(id) == Where(sta_list, LAMBDA s : radius_identifier[s] = id)

\* The entry is taken off the list before a handler has looked at the reply.
Unlink(n) ==
  /\ \E e \in Range(msgs) : Id(e.req) = Id(n)
  /\ msgs' = Where(msgs, LAMBDA e : Id(e.req) # Id(n))
  /\ num_msgs' = num_msgs - 1
  /\ UNCHANGED <<sent, out, timers, server>>

\* RADIUS_RX_QUEUED: the reply passes Radius_msg_verify against the request on
\* the list, which it then answers, or is a reject that is exempt from it (no
\* Message-Authenticator and no EAP-Message).  An Accept may free the station.
ReceiveAnswer(n) ==
  /\ n \in out
  /\ Unlink(n)
  /\ Holders(Id(n)) # <<>>
  /\ LET sta == Head(Holders(Id(n))) IN
       /\ radius_identifier' = [radius_identifier EXCEPT ![sta] = -1]
       /\ \/ UNCHANGED sta_list
          \/ InList(n) /\ sta_list' = Where(sta_list, LAMBDA s : s # sta)

\* RADIUS_RX_UNKNOWN: no station holds the identifier, the reply fails to
\* verify, or its code is not known.  Reply and request are both dropped.
ReceiveUnknown(n) ==
  /\ n \in out
  /\ Unlink(n)
  /\ UNCHANGED stations

-----------------------------------------------------------------------------
(***************************************************************************)
(* Radius_change_server.  A server with another secret cannot use the      *)
(* messages on the list: they are flushed.  Otherwise they start afresh.   *)
(***************************************************************************)
Restarted(e) ==
  [e EXCEPT !.attempts = 0, !.due = FirstWait - e.age, !.wait = 2 * FirstWait]

Radius_client_flush == msgs' = <<>> /\ num_msgs' = 0 /\ timers' = {}

\* Mutants of Radius_change_server: the timer is cancelled and not registered
\* again; the messages on the list are never flushed.
Radius_change_server_NoTimer(new, list, num, armed) ==
  /\ auth_server' = new /\ peer' = new
  /\ \/ secret[new] # secret[auth_server] /\ Radius_client_flush
     \/ /\ secret[new] = secret[auth_server]
        /\ msgs' = [i \in DOMAIN list |-> Restarted(list[i])]
        /\ num_msgs' = num
        /\ timers' = {}

Radius_change_server_NoFlush(new, list, num, armed) ==
  /\ auth_server' = new /\ peer' = new
  /\ msgs' = [i \in DOMAIN list |-> Restarted(list[i])]
  /\ num_msgs' = num
  /\ timers' = IF list = <<>> THEN armed ELSE {FirstWait}

Radius_change_server(new, list, num, armed) ==
  /\ auth_server' = new /\ peer' = new
  /\ \/ secret[new] # secret[auth_server] /\ Radius_client_flush
     \/ /\ secret[new] = secret[auth_server]
        /\ msgs' = [i \in DOMAIN list |-> Restarted(list[i])]
        /\ num_msgs' = num
        /\ timers' = IF list = <<>> THEN armed ELSE {FirstWait}

-----------------------------------------------------------------------------
(***************************************************************************)
(* Radius_client_timer.                                                    *)
(***************************************************************************)
Lesser(a, b) == IF a < b THEN a ELSE b

\* Mutant: the back-off has no limit.
Retransmitted_NoLimit(e) ==
  IF e.due > 0 THEN e
  ELSE [e EXCEPT !.attempts = @ + 1, !.due = e.wait, !.wait = 2 * @]

\* Radius_client_retransmit, on an entry whose time has come.
Retransmitted(e) ==
  IF e.due > 0 THEN e
  ELSE [e EXCEPT !.attempts = @ + 1, !.due = e.wait,
                 !.wait = Lesser(2 * @, MaxWait)]

AllRetransmitted == [i \in DOMAIN msgs |-> Retransmitted(msgs[i])]
Kept == Where(AllRetransmitted, LAMBDA e : e.attempts < MaxRetries)
NumKept == num_msgs - (Len(msgs) - Len(Kept))

\* Mutant: the timer does not register itself again.
Rearmed_Once == timers \ {0}

\* The next call is at the earliest next_try of what is left.
Soonest(list) ==
  {d \in {e.due : e \in Range(list)} : \A e \in Range(list) : d <= e.due}
Rearmed == (timers \ {0}) \cup Soonest(Kept)

auth_failover == \E e \in Range(Kept) : e.attempts > NumFailover

NextServer == IF auth_server = Len(secret) THEN 1 ELSE auth_server + 1

TimerRetransmits ==
  /\ 0 \in timers
  /\ ~(auth_failover /\ Len(secret) > 1)
  /\ msgs' = Kept /\ num_msgs' = NumKept /\ timers' = Rearmed
  /\ UNCHANGED <<sent, out, server, stations>>

TimerFailsOver ==
  /\ 0 \in timers
  /\ auth_failover /\ Len(secret) > 1
  /\ Radius_change_server(NextServer, Kept, NumKept, Rearmed)
  /\ UNCHANGED <<sent, out, stations>>

Radius_client_timer == TimerRetransmits \/ TimerFailsOver

\* Registered for ever when the interval is set; here it may fire at any time.
Radius_retry_primary_timer ==
  /\ RetryPrimary
  /\ auth_server # 1
  /\ Radius_change_server(1, msgs, num_msgs, timers)
  /\ UNCHANGED <<sent, out, stations>>

-----------------------------------------------------------------------------
\* Handle_usr1, the contents of the configuration unchanged: the list is
\* flushed and every station freed.  The new configuration starts at its first
\* server; Radius_client_init leaves the open socket as it is.
Handle_usr1 ==
  /\ Radius_client_flush
  /\ auth_server' = 1
  /\ sta_list' = <<>>
  /\ radius_identifier' = [s \in Stations |-> -1]
  /\ UNCHANGED <<sent, out, peer>>

Tick ==
  /\ 0 \notin timers
  /\ timers' = {t - 1 : t \in timers}
  /\ msgs' = [i \in DOMAIN msgs |->
                [msgs[i] EXCEPT !.due = IF @ > 0 THEN @ - 1 ELSE 0,
                                !.age = Lesser(@ + 1, FirstWait)]]
  /\ UNCHANGED <<sent, out, num_msgs, server, stations>>

Next ==
  \/ \E s \in Stations : ieee802_1x_encapsulate_radius(s) \/ EncapsulateFails(s)
  \/ \E n \in out : ReceiveAnswer(n) \/ ReceiveUnknown(n)
  \/ Radius_client_timer
  \/ Radius_retry_primary_timer
  \/ Handle_usr1
  \/ Tick

\* The event loop serves a due timeout, and the clock advances; nothing is
\* assumed of the stations, the servers and the network.
Fairness == WF_vars(Radius_client_timer) /\ WF_vars(Tick)

SafetySpec == Init /\ [][Next]_vars
Spec == SafetySpec /\ Fairness

-----------------------------------------------------------------------------
(***************************************************************************)
(* Safety.                                                                 *)
(***************************************************************************)
\* A request that waits for an answer is never forgotten: while the list has
\* an entry, a call of Radius_client_timer is registered, although calls are
\* registered only when the list was empty and cancelled in two places.
TimerArmed == msgs # <<>> => timers # {}

\* num_msgs may count more than there is, as Radius_client_get_id drops an
\* entry without counting it off, but never less: it does not wrap below 0 and
\* the list never outgrows its limit.
CountCovers == Len(msgs) <= num_msgs /\ num_msgs <= MaxEntries

\* No two entries have the same identifier, so that a reply finds the request
\* it answers and not an older one of the same identifier.
UniqueIds ==
  \A i, j \in DOMAIN msgs : Id(msgs[i].req) = Id(msgs[j].req) => i = j

\* The entries are in the order of their age, so that the one a full list loses
\* is the oldest.
OldestLast == \A i, j \in DOMAIN msgs : i < j => msgs[j].req < msgs[i].req

\* Whatever order requests, answers, evictions, wrapped identifiers and changes
\* of server come in, an identifier names one entry and age says its place.
ListInOrder == UniqueIds /\ OldestLast

\* Every message on the list is signed with the secret of the server that is
\* in use, whatever failovers, returns to the primary and reloads came.  The
\* socket is connected to that server too, unless a reload has put the
\* configuration back to its first server since the last change of server.
SignedForServer ==
  /\ \A e \in Range(msgs) : e.secret = secret[auth_server]
  /\ peer # auth_server => auth_server = 1

\* Action property: the comment on RADIUS_CLIENT_MAX_ENTRIES, the oldest entry
\* is removed if the limit is exceeded, and not before.
EvictedOnlyAtLimit ==
  [][\A n \in 1..Len(sent) :
       Len(sent') > Len(sent) /\ InList(n) /\ ~InList(n)'
       /\ Id(n) # Id(Len(sent) + 1) => Len(msgs) = MaxEntries]_vars

\* Action property: the comment in Radius_client_get_id, a new reply is not
\* used with an old request: the station that takes an answer is the one that
\* sent the request it answers.  (A reload cancels the timers.)
Takes(s, n) ==
  /\ InList(n) /\ ~InList(n)' /\ timers' # {}
  /\ radius_identifier[s] = Id(n) /\ radius_identifier'[s] = -1
AnswerReachesRequester ==
  [][\A n \in 1..Len(sent), s \in Stations : Takes(s, n) => sent[n] = s]_vars

Latest(s, m) ==
  m \in DOMAIN sent /\ sent[m] = s /\ \A k \in DOMAIN sent : sent[k] = s => k <= m

\* Action property: what is left of that promise.  A station whose latest
\* request waits on the list takes the answer to that request and no other,
\* however identifiers wrap; only one whose request was dropped, evicted or
\* given up can take the answer to another station's.
WaitingTakesItsAnswer ==
  [][\A n, m \in 1..Len(sent), s \in Stations :
       Takes(s, n) /\ Latest(s, m) /\ InList(m) => n = m]_vars

\* Seconds to the next call of Radius_client_timer, more than ever if none is
\* registered, and those to the last attempt at e if every wait is the longest.
NextCall(calls) == IF calls = {} THEN MaxRetries * MaxWait + 1 ELSE Min(calls)
TimeLeft(e, calls) ==
  (MaxRetries - 1 - e.attempts) * MaxWait
  + (IF e.due < NextCall(calls) THEN NextCall(calls) ELSE e.due)

\* Action property: every second brings a request nearer to its removal and no
\* other step but a change of server puts it off, so that it stays at most
\* MaxRetries * MaxWait seconds: a call is registered whenever a request waits,
\* and none comes later than the first entry the call before it left is due.
GivenUpInTime ==
  [][\A e \in Range(msgs), f \in Range(msgs') :
       e.req = f.req /\ auth_server' = auth_server =>
         /\ TimeLeft(e, timers) \in 0..(MaxRetries * MaxWait)
         /\ TimeLeft(f, timers') <= TimeLeft(e, timers) - (IF Tick THEN 1 ELSE 0)]_vars

-----------------------------------------------------------------------------
(***************************************************************************)
(* Liveness.                                                               *)
(***************************************************************************)
\* The comment on RADIUS_CLIENT_MAX_RETRIES: a request that is never answered
\* is removed after that many attempts, and does not stay for ever.
GivenUp == \A n \in 1..NumRequests : InList(n) ~> ~InList(n)

=============================================================================
