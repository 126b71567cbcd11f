------------------------------ MODULE EventLoop ------------------------------
(***************************************************************************)
(* The event loop of rt2500apd (eloop.c) and the station table it serves   *)
(* (sta_info.c): the ordered list of timeouts, the wait in select, the     *)
(* signals, and the stations, which are created and freed with their       *)
(* timeouts.                                                               *)
(*                                                                         *)
(* A station is named by the block of memory it lives in, so that a        *)
(* pointer kept in a timeout may outlive it and meet the next station that *)
(* malloc puts there.  The state machine of a station is EapolSm; here it  *)
(* is its tick.  A timeout holds the time that is left: 0 or less is due,  *)
(* and negative says how late it is.                                       *)
(*                                                                         *)
(* One step is one handler, or one stage of an iteration of eloop_run.  A  *)
(* signal comes at any stage but not inside a handler.  Left out: the      *)
(* timeouts of the RADIUS client (RadiusClient has them), errors of select *)
(* and malloc, and frames that are not EAPOL frames.                       *)
(***************************************************************************)
EXTENDS SequencesExt, FiniteSetsExt, Integers, Subsequence

CONSTANTS
  Mem,              \* the blocks of memory a station may live in
  Addr,             \* MAC addresses
  NoAddr,           \* the content of a block that is free
  STA_HASH,         \* the bucket of an address
  MAX_STA_COUNT,    \* 1024
  TickPeriod,       \* one second
  SessionTimeouts,  \* the session timeouts the server may send
  MaxTime,          \* the last second of time_t, seen from now
  TimeModulus,      \* 2^32, the width of time_t
  MaxLate           \* bound of the model: how late the loop may run

ASSUME EventLoopAssumption ==
  /\ NoAddr \notin Addr
  /\ MAX_STA_COUNT \in Nat
  /\ TickPeriod \in Nat \ {0}
  /\ MaxTime \in Nat /\ TimeModulus \in Nat
  /\ SessionTimeouts \subseteq 0..(TimeModulus - 1)
  /\ TickPeriod <= MaxTime
  /\ MaxLate \in Nat

VARIABLES
  timeout,    \* eloop.timeout, earliest first
  pc,         \* the stage of eloop_run
  tv,         \* the time select still waits, Forever if it has no timeout
  ready,      \* the sockets select reported and that are not served yet
  terminate,  \* eloop.terminate
  sta_list,   \* the station table, newest first
  sta_hash,   \* its hash chains
  num_sta,
  addr        \* the address of the station in each block

table == <<sta_list, sta_hash, num_sta, addr>>
vars == <<timeout, pc, tv, ready, terminate, table>>

Buckets == {STA_HASH[a] : a \in Addr}
Sockets == {"raw", "radius"}    \* served in this order
Forever == -1
Stages == {"test", "select", "timeouts", "sockets", "exited"}

Timeout ==
  [handler : {"eapol_port_timers_tick", "Ap_handle_session_timer"},
   sta : Mem, due : Int]
Tick(m, due) == [handler |-> "eapol_port_timers_tick", sta |-> m, due |-> due]
Session(m, due) ==
  [handler |-> "Ap_handle_session_timer", sta |-> m, due |-> due]

\* The type invariant.
TypeOK ==
  /\ timeout \in Seq(Timeout)
  /\ pc \in Stages
  /\ tv \in Nat \cup {Forever}
  /\ ready \subseteq Sockets
  /\ terminate \in BOOLEAN
  /\ sta_list \in Seq(Mem)
  /\ sta_hash \in [Buckets -> Seq(Mem)]
  /\ num_sta \in 0..MAX_STA_COUNT
  /\ addr \in [Mem -> Addr \cup {NoAddr}]

Stations == Range(sta_list)

Init ==
  /\ timeout = <<>>
  /\ pc = "test" /\ tv = 0 /\ ready = {} /\ terminate = FALSE
  /\ sta_list = <<>>
  /\ sta_hash = [b \in Buckets |-> <<>>]
  /\ num_sta = 0
  /\ addr = [m \in Mem |-> NoAddr]

-----------------------------------------------------------------------------
(***************************************************************************)
(* The list of timeouts.                                                   *)
(***************************************************************************)
\* Mutant: a timeout is put at the end of the list.
Registered_AtEnd(list, t) == Append(list, t)

\* Mutant: before the first that is not due earlier.
Registered_BeforeEqual(list, t) ==
  LET later == {i \in DOMAIN list : t.due <= list[i].due} IN
    IF later = {} THEN Append(list, t) ELSE InsertAt(list, Min(later), t)

\* eloop_register_timeout: before the first that is due later.
Registered(list, t) ==
  LET later == {i \in DOMAIN list : t.due < list[i].due} IN
    IF later = {} THEN Append(list, t) ELSE InsertAt(list, Min(later), t)

\* eloop_cancel_timeout: every registration of the handler for these stations.
Cancelled(list, h, S) ==
  Where(list, LAMBDA t : ~(t.handler = h /\ t.sta \in S))

Due(list) == list # <<>> /\ Head(list).due <= 0

-----------------------------------------------------------------------------
(***************************************************************************)
(* The station table.                                                      *)
(***************************************************************************)
Found(a) == {m \in Range(sta_hash[STA_HASH[a]]) : addr[m] = a}

\* Ap_get_sta, for an address that is not in the table.  Its state machine
\* starts with one tick (eapol_sm_initialize).
CreateStation(a) ==
  /\ Found(a) = {} /\ num_sta < MAX_STA_COUNT
  /\ \E m \in Mem :
       /\ addr[m] = NoAddr
       /\ addr' = [addr EXCEPT ![m] = a]
       /\ sta_list' = <<m>> \o sta_list
       /\ sta_hash' = [sta_hash EXCEPT ![STA_HASH[a]] = <<m>> \o @]
       /\ num_sta' = num_sta + 1
       /\ timeout' = Registered(
                       Cancelled(timeout, "eapol_port_timers_tick", {m}),
                       Tick(m, TickPeriod))

\* The station is known, or the table is full and the frame is dropped.
NoNewStation(a) ==
  /\ Found(a) # {} \/ num_sta >= MAX_STA_COUNT
  /\ UNCHANGED <<table, timeout>>

\* Ap_sta_list_del and Ap_sta_hash_del, for each of S.
Removed(list, S) == Where(list, LAMBDA m : m \notin S)

\* Mutants of FreeStations: the tick is not cancelled; the hash is forgotten.
FreeStations_KeepsTick(S) ==
  /\ sta_list' = Removed(sta_list, S)
  /\ sta_hash' = [b \in Buckets |-> Removed(sta_hash[b], S)]
  /\ num_sta' = num_sta - Cardinality(S)
  /\ addr' = [m \in Mem |-> IF m \in S THEN NoAddr ELSE addr[m]]
  /\ UNCHANGED timeout

FreeStations_KeepsHash(S) ==
  /\ sta_list' = Removed(sta_list, S)
  /\ UNCHANGED sta_hash
  /\ num_sta' = num_sta - Cardinality(S)
  /\ addr' = [m \in Mem |-> IF m \in S THEN NoAddr ELSE addr[m]]
  /\ timeout' = Cancelled(timeout, "eapol_port_timers_tick", S)

\* Ap_free_sta on each of S.  The tick of a station is cancelled with its
\* state machine (eapol_sm_free), its session timer is not.
FreeStations(S) ==
  /\ sta_list' = Removed(sta_list, S)
  /\ sta_hash' = [b \in Buckets |-> Removed(sta_hash[b], S)]
  /\ num_sta' = num_sta - Cardinality(S)
  /\ addr' = [m \in Mem |-> IF m \in S THEN NoAddr ELSE addr[m]]
  /\ timeout' = Cancelled(timeout, "eapol_port_timers_tick", S)

\* Mutant: the stations are counted off here too.
Apd_free_stas_CountsAgain ==
  /\ sta_list' = <<>>
  /\ sta_hash' = [b \in Buckets |-> <<>>]
  /\ num_sta' = num_sta - 2 * Cardinality(Stations)
  /\ addr' = [m \in Mem |-> NoAddr]
  /\ timeout' = Cancelled(timeout, "eapol_port_timers_tick", Stations)

Apd_free_stas == FreeStations(Stations)

\* tv_sec += secs: a sum past the end of the signed time_t is in the past.
tv_sec(secs) == IF secs <= MaxTime THEN secs ELSE secs - TimeModulus

Ap_sta_session_timeout(m, t) ==
  /\ timeout' = Registered(Cancelled(timeout, "Ap_handle_session_timer", {m}),
                           Session(m, tv_sec(t)))
  /\ UNCHANGED table

-----------------------------------------------------------------------------
(***************************************************************************)
(* eloop_run.                                                              *)
(***************************************************************************)
\* Mutant: eloop.terminate is not looked at while timeouts are registered.
TestContinues_IgnoresTerminate == ~terminate \/ timeout # <<>>

\* The condition of the while; the sockets stay registered for ever.
TestContinues == ~terminate

StartSelect ==
  /\ pc = "test" /\ TestContinues
  /\ pc' = "select"
  /\ tv' = IF timeout = <<>> THEN Forever
           ELSE Max({Head(timeout).due, 0})
  /\ UNCHANGED <<timeout, ready, terminate, table>>

\* The loop ends; main frees the stations and eloop_destroy the timeouts.
Exit ==
  /\ pc = "test" /\ ~TestContinues
  /\ pc' = "exited"
  /\ sta_list' = <<>>
  /\ sta_hash' = [b \in Buckets |-> <<>>]
  /\ num_sta' = 0
  /\ addr' = [m \in Mem |-> NoAddr]
  /\ timeout' = <<>>
  /\ UNCHANGED <<tv, ready, terminate>>

SelectReports ==
  /\ pc = "select"
  /\ pc' = "timeouts"
  /\ ready' \in SUBSET Sockets \ {{}}
  /\ UNCHANGED <<timeout, tv, terminate, table>>

SelectExpires ==
  /\ pc = "select" /\ tv = 0
  /\ pc' = "timeouts"
  /\ UNCHANGED <<timeout, tv, ready, terminate, table>>

AfterTimeouts == IF ready = {} THEN "test" ELSE "sockets"

\* Mutant: timeouts are served only when no socket is ready.
ServesTimeout_WhenIdle == pc = "timeouts" /\ Due(timeout) /\ ready = {}

ServesTimeout == pc = "timeouts" /\ Due(timeout)

\* At most one timeout in an iteration.  The tick registers itself again, the
\* session timer sends a deauthentication and no more.
ServeTick ==
  /\ ServesTimeout
  /\ Head(timeout).handler = "eapol_port_timers_tick"
  /\ timeout' = Registered(Tail(timeout), Tick(Head(timeout).sta, TickPeriod))
  /\ pc' = AfterTimeouts
  /\ UNCHANGED <<tv, ready, terminate, table>>

ServeSession ==
  /\ ServesTimeout
  /\ Head(timeout).handler = "Ap_handle_session_timer"
  /\ timeout' = Tail(timeout)
  /\ pc' = AfterTimeouts
  /\ UNCHANGED <<tv, ready, terminate, table>>

NoTimeout ==
  /\ pc = "timeouts" /\ ~ServesTimeout
  /\ pc' = AfterTimeouts
  /\ UNCHANGED <<timeout, tv, ready, terminate, table>>

Served(socket) ==
  /\ pc = "sockets"
  /\ socket \in ready
  /\ ready' = ready \ {socket}
  /\ pc' = IF ready' = {} THEN "test" ELSE "sockets"
  /\ UNCHANGED tv

\* Handle_term: it may return early, when the configuration file is not there.
Handle_term == terminate' \in {terminate, TRUE}

\* Handle_read: an EAPOL frame, or an error, which is taken for a signal.
Handle_read ==
  /\ Served("raw")
  /\ UNCHANGED terminate
  /\ \E a \in Addr : CreateStation(a) \/ NoNewStation(a)

Handle_readFails ==
  /\ Served("raw")
  /\ Handle_term
  /\ UNCHANGED <<timeout, table>>

\* Radius_client_receive: an Accept that limits the session of a station, one
\* that limits none and frees it, or any other answer.
Radius_client_receive ==
  /\ "raw" \notin ready
  /\ Served("radius")
  /\ UNCHANGED terminate
  /\ \/ \E m \in Stations, t \in SessionTimeouts : Ap_sta_session_timeout(m, t)
     \/ \E m \in Stations : FreeStations({m})
     \/ UNCHANGED <<table, timeout>>

eloop_run ==
  \/ StartSelect \/ Exit \/ SelectExpires
  \/ ServeTick \/ ServeSession \/ NoTimeout
  \/ Handle_read \/ Handle_readFails \/ Radius_client_receive

-----------------------------------------------------------------------------
(***************************************************************************)
(* Signals.  One that comes while select waits ends the wait (EINTR); one  *)
(* that comes between the test of the loop and the wait does not.          *)
(***************************************************************************)
Interrupts ==
  /\ pc # "exited"
  /\ pc' \in IF pc = "select" THEN {"select", "timeouts"} ELSE {pc}
  /\ UNCHANGED ready

SignalTerm ==
  /\ Interrupts
  /\ Handle_term
  /\ UNCHANGED <<tv, timeout, table>>

\* Handle_usr1, a reload, or nothing if the new configuration cannot be read.
\* If it comes before the arguments of select are evaluated and no timeout is
\* left, select gets no limit, although tv was computed.
SignalUsr1 ==
  /\ Interrupts
  /\ UNCHANGED terminate
  /\ Apd_free_stas \/ UNCHANGED <<table, timeout>>
  /\ tv' \in {tv} \cup (IF pc' = "select" /\ timeout' = <<>> THEN {Forever}
                       ELSE {})

\* Time passes.
Pass ==
  /\ timeout # <<>> => Head(timeout).due > -MaxLate
  /\ timeout' = [i \in DOMAIN timeout |-> [timeout[i] EXCEPT !.due = @ - 1]]
  /\ tv' = IF tv > 0 THEN tv - 1 ELSE tv
  /\ UNCHANGED <<pc, ready, terminate, table>>

Next ==
  \/ eloop_run
  \/ SelectReports
  \/ SignalTerm \/ SignalUsr1
  \/ Pass

\* The process runs and the clock advances.  Nothing is assumed of the sockets
\* and the signals.
Fairness == WF_vars(eloop_run) /\ WF_vars(Pass)

Spec == Init /\ [][Next]_vars /\ Fairness

-----------------------------------------------------------------------------
(***************************************************************************)
(* Properties.                                                             *)
(***************************************************************************)
\* The head of the list is always the timeout that is due first, although the
\* list is changed by handlers of three modules: only the head is ever tested.
EarliestFirst ==
  \A i, j \in DOMAIN timeout : i < j => timeout[i].due <= timeout[j].due

Ticks(m) ==
  {i \in DOMAIN timeout : timeout[i].handler = "eapol_port_timers_tick"
                          /\ timeout[i].sta = m}

\* Every station of the table has exactly one tick, and no tick is left of a
\* station that was freed, whose state machine it would use.
OneTickEach ==
  \A m \in Mem :
    /\ Ticks(m) # {} <=> m \in Stations
    /\ \A i, j \in Ticks(m) : i = j

\* However many Accepts a station gets, and whichever stations lived in its
\* memory before it, at most one session timer points to it.
OneSessionTimer ==
  \A i, j \in DOMAIN timeout :
    /\ timeout[i].handler = "Ap_handle_session_timer"
    /\ timeout[j].handler = "Ap_handle_session_timer"
    /\ timeout[i].sta = timeout[j].sta
    => i = j

\* However stations come, go and are limited anew, no handler is registered
\* twice for a station, and the ticks are those of the stations of the table.
OneTimeoutEach == OneTickEach /\ OneSessionTimer

\* The list, the hash and the count are the same table, no address is in it
\* twice, and what is freed is in neither.
TableAgrees ==
  /\ num_sta = Len(sta_list) /\ Cardinality(Stations) = Len(sta_list)
  /\ Stations = {m \in Mem : addr[m] # NoAddr}
  /\ \A m, n \in Stations : addr[m] = addr[n] => m = n
  /\ \A b \in Buckets :
       Range(sta_hash[b]) = {m \in Stations : STA_HASH[addr[m]] = b}

Overdue(m) == \E i \in Ticks(m) : timeout[i].due <= 0
Key(t) == <<t.handler, t.sta>>
AheadIn(list, m) ==
  {Key(list[j]) : j \in {j \in DOMAIN list : \E i \in DOMAIN list :
                          j < i /\ Key(list[i]) = <<"eapol_port_timers_tick", m>>}}
Ahead(m) == AheadIn(timeout, m)
InPast ==
  {Key(timeout[i]) : i \in {i \in DOMAIN timeout :
                              /\ timeout[i].handler = "Ap_handle_session_timer"
                              /\ timeout[i].due < 0}}

\* Action property: nothing gets ahead of a tick that is due but a session
\* timer that lies in the past already, and each timeout that is served was
\* ahead of the tick and is not any more: registrations with the same time
\* are served in their order, so that no chain of them holds up a station.
NoOvertaking ==
  [][\A m \in Mem : Overdue(m)' =>
       /\ Ahead(m)' \subseteq Ahead(m) \cup InPast'
       /\ ServeTick \/ ServeSession =>
            Key(Head(timeout)) \in Ahead(m) \ Ahead(m)']_vars

\* A due tick is served, or its station freed, however many frames and answers
\* arrive and however often sessions are limited anew, although an iteration
\* serves one timeout: the strong fairness of the tick in EapolSm rests on it.
\* The exception is a stream of answers whose session timeouts are too large
\* for time_t: each of them goes to the head of the list, before the tick.
InThePast == \E i \in DOMAIN timeout : timeout[i].due < -MaxLate
DueIsServed == \A m \in Mem : (Overdue(m) ~> ~Overdue(m)) \/ []<>InThePast

\* eloop_terminate ends the loop even if there are registered events.  The
\* one exception is a signal between the test of the loop and a select without
\* a timeout, which then waits for the next frame.
LostWakeup == pc = "select" /\ tv = Forever
Terminates == terminate ~> pc = "exited" \/ LostWakeup

=============================================================================
