------------------------------ MODULE PppoeRelay ------------------------------
(***************************************************************************)
(* The PPPoE relay of pkg/pppoe-server (relay.c): a kernel module that     *)
(* passes discovery and session frames between clients and access          *)
(* concentrators (ACs) on different interfaces, and gives each session it  *)
(* relays a number of its own towards the client.                          *)
(*                                                                         *)
(* The handlers for PADI, PADO and PADR check a frame, rewrite its         *)
(* Relay-Session-Id tag and pass it on, and so does relayHandlePADS when   *)
(* the AC answers with session 0, an error: they change no state and have  *)
(* no action.  What they leave behind is the tag a PADS brings back, which *)
(* names a client and its interface.  Packets come in any order and        *)
(* number; an AC may send a PADS again, or number a new session as an old  *)
(* one of which it sent no PADT.                                           *)
(*                                                                         *)
(* The callers of relay.c are not in the repository.  They hand over a     *)
(* frame with the node pppoe_relay_dev_get finds for its device, and call  *)
(* cleanSessions again after the ticks it returned.                        *)
(***************************************************************************)
EXTENDS Integers, Sequences, FiniteSets

CONSTANTS
  Clients, ACs,       \* MAC addresses; no host is both
  AcSessions,         \* session numbers of the ACs
  Nodes,              \* what may be added: [dev, clientOK, acOK]
  MaxNodes,           \* bound on the interface list
  MaxSessions,        \* DEFAULT_SESSIONS
  Timeout,            \* the idle timeout, in jiffies
  JiffiesModulus,     \* 2^32
  NoEnd               \* the contents of a hash entry that was never used

Numbers == 1 .. MaxSessions
Sides == {"ac", "client"}
Devs == {node.dev : node \in Nodes}

ASSUME RelayAssumption ==
  /\ Clients \cap ACs = {}
  /\ AcSessions \subseteq Nat \ {0}
  /\ \A node \in Nodes : node.clientOK \in BOOLEAN /\ node.acOK \in BOOLEAN
  /\ MaxNodes \in Nat /\ MaxSessions \in Nat \ {0}
  /\ Timeout \in Nat \ {0}
  /\ JiffiesModulus \in Nat /\ 4 * Timeout <= JiffiesModulus
  /\ JiffiesModulus % 2 = 0
  /\ NoEnd \notin [interface : Devs, peerMac : Clients \cup ACs, sesNum : Nat]

VARIABLES
  if_head,          \* the interface list, newest first
  FreeSessions,     \* the free list: a stack, but which number is next matters to nobody
  ActiveSessions,   \* the active list
  NumSessions,
  acHash,           \* of each session: interface, peerMac, sesNum of the AC's end
  clientHash,       \* and of the client's
  Buckets,          \* the hash table: the ends that are in it
  epoch,            \* of each session: jiffies at its last frame
  jiffies,
  clean,            \* ticks until cleanSessions is called
  idle,             \* observer: the ticks since the session's last frame
  acOpen,           \* observer: sessions ACs opened here and did not see end
  clientOpen,       \* observer: <<client, number, AC, AC's number>>, likewise
  misled            \* observer: clients told the number of another's session

table == <<FreeSessions, ActiveSessions, NumSessions, acHash, clientHash, Buckets>>
time == <<jiffies, clean>>
observers == <<acOpen, clientOpen, misled>>
vars == <<if_head, table, epoch, time, idle, observers>>

Init ==
  /\ if_head = << >>
  /\ FreeSessions = Numbers
  /\ ActiveSessions = {}
  /\ NumSessions = 0
  /\ acHash = [n \in Numbers |-> NoEnd]
  /\ clientHash = [n \in Numbers |-> NoEnd]
  /\ Buckets = {}
  /\ epoch = [n \in Numbers |-> 0]
  /\ jiffies = 0
  /\ clean = Timeout
  /\ idle = [n \in Numbers |-> 0]
  /\ acOpen = {}
  /\ clientOpen = {}
  /\ misled = {}

-----------------------------------------------------------------------------
(***************************************************************************)
(* The interface list.                                                     *)
(***************************************************************************)

\* pppoe_relay_dev_get: the first node of the device, in a set of one or none.
pppoe_relay_dev_get(dev) ==
  {if_head[i] : i \in {i \in DOMAIN if_head :
                         /\ if_head[i].dev = dev
                         /\ \A j \in 1 .. i - 1 : if_head[j].dev # dev}}

relayAddInterface(node) ==
  /\ Len(if_head) < MaxNodes
  /\ if_head' = <<node>> \o if_head
  /\ UNCHANGED <<table, epoch, time, idle, observers>>

\* The sessions over the interface stay.
relayRemoveInterface(dev) ==
  /\ \E i \in DOMAIN if_head :
       /\ if_head[i].dev = dev
       /\ \A j \in 1 .. i - 1 : if_head[j].dev # dev
       /\ if_head' = SubSeq(if_head, 1, i - 1) \o SubSeq(if_head, i + 1, Len(if_head))
  /\ UNCHANGED <<table, epoch, time, idle, observers>>

relayInterfacesClear ==
  /\ if_head' = << >>
  /\ UNCHANGED <<table, epoch, time, idle, observers>>

(***************************************************************************)
(* The session table.                                                      *)
(***************************************************************************)
End(e) == IF e[2] = "ac" THEN acHash[e[1]] ELSE clientHash[e[1]]

\* findSession: the entries with the address and the number.  The code takes
\* the newest; TableConsistent says that there is one at most.
findSession(mac, ses) ==
  {e \in Buckets : End(e).peerMac = mac /\ End(e).sesNum = ses}

\* createSession, for the number n.
createSession(n, ac, cli, acMac, cliMac, acSes) ==
  /\ FreeSessions' = FreeSessions \ {n}
  /\ ActiveSessions' = ActiveSessions \cup {n}
  /\ NumSessions' = NumSessions + 1
  /\ acHash' = [acHash EXCEPT ![n] = [interface |-> ac, peerMac |-> acMac, sesNum |-> acSes]]
  /\ clientHash' = [clientHash EXCEPT ![n] = [interface |-> cli, peerMac |-> cliMac, sesNum |-> n]]
  /\ Buckets' = Buckets \cup {<<n, side>> : side \in Sides}
  /\ epoch' = [epoch EXCEPT ![n] = jiffies]
  /\ idle' = [idle EXCEPT ![n] = 0]

\* Mutant: the client's entry stays in the hash table.
freeSession_KeepsClient(S) ==
  /\ FreeSessions' = FreeSessions \cup S
  /\ ActiveSessions' = ActiveSessions \ S
  /\ NumSessions' = NumSessions - Cardinality(S)
  /\ Buckets' = Buckets \ (S \X {"ac"})
  /\ idle' = [n \in Numbers |-> IF n \in S THEN 0 ELSE idle[n]]
  /\ UNCHANGED <<acHash, clientHash, epoch>>

\* freeSession for each session of S: its entries leave the hash table, and
\* keep their contents.
freeSession(S) ==
  /\ FreeSessions' = FreeSessions \cup S
  /\ ActiveSessions' = ActiveSessions \ S
  /\ NumSessions' = NumSessions - Cardinality(S)
  /\ Buckets' = Buckets \ (S \X Sides)
  /\ idle' = [n \in Numbers |-> IF n \in S THEN 0 ELSE idle[n]]
  /\ UNCHANGED <<acHash, clientHash, epoch>>

\* The observers when the ends E have sent or been sent a PADT.  A client that
\* was told the number of another's session is no end of it.
Closed(E) ==
  /\ acOpen' = {k \in acOpen : \A e \in E : e[2] = "ac" =>
                  k # <<End(e).peerMac, End(e).sesNum>>}
  /\ clientOpen' = {k \in clientOpen : \A e \in E : e[2] = "client" =>
                      <<k[1], k[2]>> # <<End(e).peerMac, End(e).sesNum>>}
  /\ UNCHANGED misled

-----------------------------------------------------------------------------
(***************************************************************************)
(* Frames.                                                                 *)
(***************************************************************************)

\* May a PADS that came in on wan go out on lan, the interface of its tag?
MayRelay(wan, lan) ==
  /\ \E node \in pppoe_relay_dev_get(wan) : node.acOK
  /\ \E node \in pppoe_relay_dev_get(lan) : node.clientOK
  /\ wan # lan

\* Mutant: the number of a new session is that of the sessions and one.
PADSCreates_Counts(wan, lan, ac, ses, client) ==
  /\ MayRelay(wan, lan)
  /\ findSession(ac, ses) = {}
  /\ NumSessions < MaxSessions
  /\ createSession(NumSessions + 1, wan, lan, ac, client, ses)
  /\ clientOpen' = clientOpen \cup {<<client, NumSessions + 1, ac, ses>>}
  /\ misled' = misled \ {<<client, NumSessions + 1>>}
  /\ acOpen' = acOpen \cup {<<ac, ses>>}
  /\ UNCHANGED <<if_head, time>>

\* relayHandlePADS, a new session: the client is told the relay's number.
PADSCreates(wan, lan, ac, ses, client) ==
  /\ MayRelay(wan, lan)
  /\ findSession(ac, ses) = {}
  /\ NumSessions < MaxSessions
  /\ \E n \in FreeSessions :
       /\ createSession(n, wan, lan, ac, client, ses)
       /\ clientOpen' = clientOpen \cup {<<client, n, ac, ses>>}
       /\ misled' = misled \ {<<client, n>>}
  /\ acOpen' = acOpen \cup {<<ac, ses>>}
  /\ UNCHANGED <<if_head, time>>

\* relayHandlePADS, no room: an error PADS for the client and a PADT for the
\* AC, whose session has begun and ended.
PADSNoRoom(wan, lan, ac, ses, client) ==
  /\ MayRelay(wan, lan)
  /\ findSession(ac, ses) = {}
  /\ NumSessions >= MaxSessions
  /\ acOpen' = acOpen \ {<<ac, ses>>}
  /\ UNCHANGED <<if_head, table, epoch, time, idle, clientOpen, misled>>

\* relayHandlePADS, a session that exists: the frame is taken for a duplicate
\* and passed on with that session's number, to whatever client its tag names.
\* After a restart of the AC that may be another client than the session's.
PADSAgain(wan, lan, ac, ses, client) ==
  /\ MayRelay(wan, lan)
  /\ \E e \in findSession(ac, ses) :
       IF clientHash[e[1]].peerMac = client
       THEN clientOpen' = clientOpen \cup {<<client, e[1], ac, ses>>} /\ UNCHANGED misled
       ELSE misled' = misled \cup {<<client, e[1]>>} /\ UNCHANGED clientOpen
  /\ acOpen' = acOpen \cup {<<ac, ses>>}
  /\ UNCHANGED <<if_head, table, epoch, time, idle>>

\* relayHandlePADT: passed to the other end, and the session is freed.
relayHandlePADT(mac, ses) ==
  /\ if_head # << >>
  /\ \E e \in findSession(mac, ses) :
       /\ Closed({e[1]} \X Sides)
       /\ freeSession({e[1]})
  /\ UNCHANGED <<if_head, time>>

\* relayGotSessionPacket: passed to the other end, under its number.
relayGotSessionPacket(mac, ses) ==
  /\ if_head # << >>
  /\ \E e \in findSession(mac, ses) :
       /\ epoch' = [epoch EXCEPT ![e[1]] = jiffies]
       /\ idle' = [idle EXCEPT ![e[1]] = 0]
  /\ UNCHANGED <<if_head, table, time, observers>>

-----------------------------------------------------------------------------
(***************************************************************************)
(* Time.                                                                   *)
(***************************************************************************)

\* Mutant: the sum is compared with jiffies as an unsigned number.
Expired_Unsigned(n) == (epoch[n] + Timeout) % JiffiesModulus <= jiffies

\* (int)(epoch + timeout - jiffies) <= 0
Expired(n) ==
  LET left == (epoch[n] + Timeout - jiffies) % JiffiesModulus
  IN left = 0 \/ left >= JiffiesModulus \div 2

\* What cleanSessions returns if the sessions of S stay.  min starts at
\* ULONG_MAX and is the smallest of their epochs as unsigned numbers; if it is
\* ULONG_MAX in the end, the code takes it that there is no session.
Oldest(S) == {m \in S : \A n \in S : epoch[m] <= epoch[n]}
Below(S) == {n \in S : epoch[n] < JiffiesModulus - 1}

\* Mutant: the age of the oldest session is added.
NextClean_Adds(S) ==
  IF Below(S) = {}
  THEN {Timeout}
  ELSE {(Timeout + (jiffies - epoch[m])) % JiffiesModulus : m \in Oldest(Below(S))}

\* Mutant: with no session left, min is not tested and ULONG_MAX is an epoch.
NextClean_NoTest(S) ==
  {(Timeout - (jiffies - e)) % JiffiesModulus :
     e \in IF Below(S) = {} THEN {JiffiesModulus - 1} ELSE {epoch[m] : m \in Oldest(Below(S))}}

NextClean(S) ==
  IF Below(S) = {}
  THEN {Timeout}
  ELSE {(Timeout - (jiffies - epoch[m])) % JiffiesModulus : m \in Oldest(Below(S))}

\* Mutant: only the AC gets a PADT.
cleanSessions_TellsAc ==
  /\ clean = 0
  /\ LET S == {n \in ActiveSessions : Expired(n)}
     IN /\ Closed(S \X {"ac"})
        /\ freeSession(S)
        /\ clean' \in NextClean(ActiveSessions \ S)
  /\ UNCHANGED <<if_head, jiffies>>

\* cleanSessions: both ends of an expired session get a PADT.
cleanSessions ==
  /\ clean = 0
  /\ LET S == {n \in ActiveSessions : Expired(n)}
     IN /\ Closed(S \X Sides)
        /\ freeSession(S)
        /\ clean' \in NextClean(ActiveSessions \ S)
  /\ UNCHANGED <<if_head, jiffies>>

Tick ==
  /\ clean > 0
  /\ clean' = clean - 1
  /\ jiffies' = (jiffies + 1) % JiffiesModulus
  /\ idle' = [n \in Numbers |-> IF n \in ActiveSessions THEN idle[n] + 1 ELSE idle[n]]
  /\ UNCHANGED <<if_head, table, epoch, observers>>

-----------------------------------------------------------------------------
Interfaces ==
  \/ \E node \in Nodes : relayAddInterface(node)
  \/ \E dev \in Devs : relayRemoveInterface(dev)
  \/ relayInterfacesClear

Frames ==
  \/ \E wan, lan \in Devs, ac \in ACs, ses \in AcSessions, client \in Clients :
       \/ PADSCreates(wan, lan, ac, ses, client)
       \/ PADSNoRoom(wan, lan, ac, ses, client)
       \/ PADSAgain(wan, lan, ac, ses, client)
  \/ \E mac \in Clients \cup ACs, ses \in Numbers \cup AcSessions :
       relayHandlePADT(mac, ses) \/ relayGotSessionPacket(mac, ses)

Next == Interfaces \/ Frames \/ cleanSessions \/ Tick

Spec == Init /\ [][Next]_vars

-----------------------------------------------------------------------------
Ends(macs, numbers) ==
  [interface : Devs, peerMac : macs, sesNum : numbers] \cup {NoEnd}

\* The types of the variables; cleanSessions asks to be called again in time.
TypeOK ==
  /\ if_head \in Seq(Nodes)
  /\ FreeSessions \subseteq Numbers
  /\ ActiveSessions \subseteq Numbers
  /\ NumSessions \in 0 .. MaxSessions
  /\ acHash \in [Numbers -> Ends(ACs, AcSessions)]
  /\ clientHash \in [Numbers -> Ends(Clients, Numbers)]
  /\ Buckets \subseteq Numbers \X Sides
  /\ epoch \in [Numbers -> 0 .. JiffiesModulus - 1]
  /\ jiffies \in 0 .. JiffiesModulus - 1
  /\ clean \in 0 .. Timeout
  /\ idle \in [Numbers -> Nat]
  /\ acOpen \subseteq ACs \X AcSessions
  /\ clientOpen \subseteq Clients \X Numbers \X ACs \X AcSessions
  /\ misled \subseteq Clients \X Numbers

\* The free and the active list and the hash table agree.
ListsAgree ==
  /\ FreeSessions = Numbers \ ActiveSessions
  /\ Buckets = ActiveSessions \X Sides
  /\ NumSessions = Cardinality(ActiveSessions)

\* An end in the hash table is one that was filled in.
EndsFilled ==
  \A n \in ActiveSessions :
    /\ acHash[n] # NoEnd
    /\ clientHash[n] # NoEnd /\ clientHash[n].sesNum = n

\* An address and a number lead to one end.
UniqueKeys ==
  \A mac \in Clients \cup ACs, ses \in Numbers \cup AcSessions :
    \A e, f \in findSession(mac, ses) : e = f

(***************************************************************************)
(* The session table is consistent: every session is on one of the lists   *)
(* and counted, an active one has both its ends in the hash table and a    *)
(* free one none, and no two ends answer to the same address and number,   *)
(* so that a frame reaches the session it is for and no other.             *)
(***************************************************************************)
TableConsistent == ListsAgree /\ EndsFilled /\ UniqueKeys

(***************************************************************************)
(* No end is left behind: a session an AC opened here and was not sent the *)
(* end of is in the table, and what a client was told of a session of its  *)
(* own is still what its number leads to.  Whichever of the two ends       *)
(* closes, an idle timeout, a full table and repeated frames leave no half *)
(* of a session.                                                           *)
(*   The exception is a client that a PADS told the number of a session    *)
(* that is not its own: the AC restarted and numbered a session of this    *)
(* client as an old one of another, of which it sent no PADT.  The relay   *)
(* has no session for that client (and the AC's new session leads to the   *)
(* other client).  Its frames, its PADT included, lead to no session as    *)
(* long as it was not given the number itself: they do not reach the       *)
(* other's.                                                                *)
(***************************************************************************)
NoHalfSessions ==
  /\ \A k \in acOpen : \E n \in ActiveSessions :
       acHash[n].peerMac = k[1] /\ acHash[n].sesNum = k[2]
  /\ \A k \in clientOpen :
       /\ k[2] \in ActiveSessions
       /\ clientHash[k[2]].peerMac = k[1]
       /\ acHash[k[2]].peerMac = k[3] /\ acHash[k[2]].sesNum = k[4]
  /\ \A m \in misled : findSession(m[1], m[2]) = {}

(***************************************************************************)
(* Refinement: the relay's numbers implement SessionNumbers towards the    *)
(* clients.  A client holds the number of a session while it is active.    *)
(* A client that was told the number of another's session is misled.       *)
(***************************************************************************)
ClientNumbers == INSTANCE SessionNumbers WITH
  Hosts <- Clients,
  Nums <- Numbers,
  held <- {<<clientHash[n].peerMac, n>> : n \in ActiveSessions},
  believed <- {<<k[1], k[2]>> : k \in clientOpen} \cup misled,
  misled <- misled

\* No number goes from one client to another but through freeSession, with the
\* first client told.  A PADS taken for a duplicate may tell a client the number
\* of another's session, but takes no session from the client it was given to.
ImplementsSessionNumbers == ClientNumbers!NumSpec

(***************************************************************************)
(* An idle session is freed.  The raw comparison of epochs in              *)
(* cleanSessions picks the wrong minimum when jiffies wraps, and takes an  *)
(* epoch of ULONG_MAX for no session, so a session may be idle for more    *)
(* than Timeout, but never for 2 * Timeout.                                *)
(***************************************************************************)
IdleBound == \A n \in ActiveSessions : idle[n] < 2 * Timeout

(***************************************************************************)
(* cleanSessions frees no session before it was idle for Timeout, across   *)
(* the wrap of jiffies too.                                                *)
(***************************************************************************)
NoEarlyExpiry ==
  [][cleanSessions => \A n \in ActiveSessions \ ActiveSessions' : idle[n] >= Timeout]_vars
=============================================================================
