--------------------------- MODULE PppoeRelayProofs ---------------------------
(***************************************************************************)
(* Proofs about PppoeRelay for every set of hosts and session numbers, and *)
(* every interface list, table size, timeout and width of jiffies.         *)
(***************************************************************************)
EXTENDS PppoeRelay, FiniteSetTheorems, TLAPS

\* The client's ends cannot clash: each has a number of its own.  The AC's
\* ends do not because PADSCreates looked for the key first.
AcKeysUnique ==
  \A n, m \in ActiveSessions :
    acHash[n].peerMac = acHash[m].peerMac /\ acHash[n].sesNum = acHash[m].sesNum => n = m

(***************************************************************************)
(* Why no session is idle for 2 * Timeout: when cleanSessions has run the  *)
(* sessions left were idle for less than Timeout and the next call is at   *)
(* most Timeout away, and a tick adds to the one what it takes from the    *)
(* other.  The epoch is the last frame's jiffies, which may have wrapped.  *)
(***************************************************************************)
IdleAndClean ==
  \A n \in ActiveSessions :
    /\ idle[n] + clean < 2 * Timeout
    /\ epoch[n] = jiffies - idle[n] \/ epoch[n] = jiffies - idle[n] + JiffiesModulus

(***************************************************************************)
(* NoHalfSessions in terms of the ends: what ACs and clients were told of  *)
(* sessions of their own is in the table, and a misled client is not the   *)
(* client of the session whose number it was told.                         *)
(***************************************************************************)
EndsServed ==
  /\ \A k \in acOpen : \E n \in ActiveSessions :
       acHash[n].peerMac = k[1] /\ acHash[n].sesNum = k[2]
  /\ \A k \in clientOpen :
       /\ k[2] \in ActiveSessions
       /\ clientHash[k[2]].peerMac = k[1]
       /\ acHash[k[2]].peerMac = k[3] /\ acHash[k[2]].sesNum = k[4]
  /\ \A m \in misled : m[2] \in ActiveSessions => clientHash[m[2]].peerMac # m[1]

IInv == /\ TypeOK
        /\ ListsAgree /\ EndsFilled /\ AcKeysUnique
        /\ EndsServed
        /\ IdleAndClean

-----------------------------------------------------------------------------
(***************************************************************************)
(* Arithmetic of jiffies.                                                  *)
(***************************************************************************)
LEMMA ModInside ==
  ASSUME NEW W \in Nat \ {0}, NEW x \in 0 .. W - 1
  PROVE  x % W = x
OBVIOUS

LEMMA ModBelow ==
  ASSUME NEW W \in Nat \ {0}, NEW x \in -W .. -1
  PROVE  x % W = x + W
OBVIOUS

LEMMA ModAbove ==
  ASSUME NEW W \in Nat \ {0}, NEW x \in 0 .. W - 1
  PROVE  (x + W) % W = x
OBVIOUS

LEMMA Half ==
  /\ JiffiesModulus \in Nat \ {0} /\ Timeout \in Nat \ {0}
  /\ JiffiesModulus \div 2 \in Nat
  /\ JiffiesModulus = 2 * (JiffiesModulus \div 2)
  /\ 2 * Timeout <= JiffiesModulus \div 2
  /\ 4 * Timeout <= JiffiesModulus
BY RelayAssumption

\* The ticks left to an active session, as the code computes them.
LEMMA Left ==
  ASSUME TypeOK, IdleAndClean, NEW n \in ActiveSessions
  PROVE  (epoch[n] + Timeout - jiffies) % JiffiesModulus =
           IF idle[n] <= Timeout THEN Timeout - idle[n]
                                 ELSE JiffiesModulus + Timeout - idle[n]
<1> DEFINE W == JiffiesModulus
           d == Timeout - idle[n]
<1>1. idle[n] \in Nat /\ epoch[n] \in 0 .. W - 1 /\ jiffies \in 0 .. W - 1
      /\ clean \in Nat
  BY Half DEF TypeOK
<1>2. idle[n] < 2 * Timeout
  BY <1>1, Half DEF IdleAndClean
<1>3. epoch[n] + Timeout - jiffies = d \/ epoch[n] + Timeout - jiffies = d + W
  BY <1>1, Half DEF IdleAndClean
<1>4. CASE idle[n] <= Timeout
  <2>1. d \in 0 .. W - 1
    BY <1>1, <1>4, Half
  <2>2. d % W = d /\ (d + W) % W = d
    BY <2>1, Half, ModInside, ModAbove
  <2> QED
    BY <1>3, <1>4, <2>2
<1>5. CASE ~(idle[n] <= Timeout)
  <2>1. d + W \in 0 .. W - 1
    BY <1>1, <1>2, <1>5, Half
  <2>2. (d + W) % W = d + W
    BY <2>1, Half, ModInside
  <2>3. d \in -W .. -1
    BY <1>1, <1>2, <1>5, Half
  <2>4. d % W = d + W
    BY <2>3, Half, ModBelow
  <2> QED
    BY <1>1, <1>3, <1>5, <2>2, <2>4, Half
<1> QED
  BY <1>4, <1>5

\* The signed comparison is right: expired is idle for Timeout.
LEMMA ExpiredMeans ==
  ASSUME TypeOK, IdleAndClean, NEW n \in ActiveSessions
  PROVE  Expired(n) <=> idle[n] >= Timeout
<1>1. idle[n] \in Nat /\ clean \in Nat
  BY Half DEF TypeOK
<1>2. idle[n] < 2 * Timeout
  BY <1>1, Half DEF IdleAndClean
<1> QED
  BY <1>1, <1>2, Left, Half DEF Expired

\* cleanSessions asks to be called within Timeout ticks.
LEMMA NextCleanInTime ==
  ASSUME TypeOK, IdleAndClean,
         NEW S \in SUBSET ActiveSessions, \A n \in S : ~Expired(n)
  PROVE  NextClean(S) \subseteq 0 .. Timeout
<1>1. CASE Below(S) = {}
  BY <1>1, Half DEF NextClean
<1>2. ASSUME NEW n \in S
      PROVE  (Timeout - (jiffies - epoch[n])) % JiffiesModulus \in 0 .. Timeout
  <2>1. idle[n] \in Nat /\ epoch[n] \in Int /\ jiffies \in Int
    BY Half DEF TypeOK
  <2>2. idle[n] < Timeout
    BY <2>1, ExpiredMeans, Half
  <2>3. Timeout - (jiffies - epoch[n]) = epoch[n] + Timeout - jiffies
    BY <2>1, Half
  <2>4. (epoch[n] + Timeout - jiffies) % JiffiesModulus = Timeout - idle[n]
    BY <2>1, <2>2, Left, Half
  <2> QED
    BY <2>1, <2>2, <2>3, <2>4, Half
<1> QED
  BY <1>1, <1>2 DEF NextClean, Oldest, Below

-----------------------------------------------------------------------------
(***************************************************************************)
(* What a key leads to.                                                    *)
(***************************************************************************)
LEMMA Found ==
  ASSUME IInv, NEW mac, NEW ses, NEW e \in findSession(mac, ses)
  PROVE  /\ e[1] \in ActiveSessions /\ e[2] \in Sides /\ e = <<e[1], e[2]>>
         /\ End(e).peerMac = mac /\ End(e).sesNum = ses
BY DEF IInv, ListsAgree, findSession

LEMMA EndTypes ==
  ASSUME IInv, NEW n \in ActiveSessions
  PROVE  /\ acHash[n].peerMac \in ACs /\ acHash[n].sesNum \in AcSessions
         /\ clientHash[n].peerMac \in Clients /\ clientHash[n].sesNum = n
BY DEF IInv, TypeOK, EndsFilled, Ends

\* Two entries with the same key are one.
LEMMA KeysUnique ==
  ASSUME IInv
  PROVE  UniqueKeys
<1>1. SUFFICES ASSUME NEW mac, NEW ses, NEW e \in findSession(mac, ses),
                      NEW f \in findSession(mac, ses)
               PROVE  e = f
  BY DEF UniqueKeys
<1>2. /\ e[1] \in ActiveSessions /\ e[2] \in Sides /\ e = <<e[1], e[2]>>
      /\ f[1] \in ActiveSessions /\ f[2] \in Sides /\ f = <<f[1], f[2]>>
      /\ End(e).peerMac = End(f).peerMac /\ End(e).sesNum = End(f).sesNum
  BY Found
<1>3. e[2] = f[2]
  BY <1>2, EndTypes, RelayAssumption DEF End, Sides
<1>4. e[1] = f[1]
  BY <1>2, <1>3, EndTypes DEF End, IInv, AcKeysUnique
<1> QED
  BY <1>2, <1>3, <1>4

\* The PADS of a session that exists leads to the AC's end of it.
LEMMA FoundByAc ==
  ASSUME IInv, NEW ac \in ACs, NEW ses, NEW e \in findSession(ac, ses)
  PROVE  e[1] \in ActiveSessions /\ acHash[e[1]].peerMac = ac /\ acHash[e[1]].sesNum = ses
BY Found, EndTypes, RelayAssumption DEF End

LEMMA FiniteSessions ==
  ASSUME NEW S \in SUBSET Numbers
  PROVE  IsFiniteSet(S) /\ Cardinality(S) \in 0 .. MaxSessions
<1>1. IsFiniteSet(Numbers) /\ Cardinality(Numbers) = MaxSessions
  BY FS_Interval, RelayAssumption DEF Numbers
<1>2. IsFiniteSet(S) /\ Cardinality(S) <= MaxSessions
  BY <1>1, FS_Subset
<1> QED
  BY <1>2, FS_CardinalityType, RelayAssumption

\* Freeing active sessions whose ends get a PADT.
LEMMA Freeing ==
  ASSUME IInv, NEW S \in SUBSET ActiveSessions, freeSession(S), Closed(S \X Sides)
  PROVE  /\ ListsAgree' /\ EndsFilled' /\ AcKeysUnique' /\ EndsServed'
         /\ FreeSessions' \subseteq Numbers /\ ActiveSessions' \subseteq ActiveSessions
         /\ NumSessions' \in 0 .. MaxSessions
         /\ UNCHANGED <<acHash, clientHash, epoch>>
         /\ Buckets' \subseteq Buckets
         /\ idle' \in [Numbers -> Nat]
         /\ \A n \in ActiveSessions' : idle'[n] = idle[n]
         /\ acOpen' \subseteq acOpen /\ clientOpen' \subseteq clientOpen
         /\ misled' = misled
<1> USE DEF IInv
<1>1. ActiveSessions \subseteq Numbers
  BY DEF TypeOK
<1>2. Cardinality(ActiveSessions \ S) = Cardinality(ActiveSessions) - Cardinality(S)
  <2>1. ActiveSessions \cap S = S
    OBVIOUS
  <2> QED
    BY <1>1, <2>1, FiniteSessions, FS_Difference
<1>3. ListsAgree'
  BY <1>1, <1>2 DEF ListsAgree, freeSession
<1>4. NumSessions' \in 0 .. MaxSessions
  BY <1>1, <1>3, FiniteSessions DEF ListsAgree, freeSession
<1>5. EndsFilled' /\ AcKeysUnique'
  BY DEF EndsFilled, AcKeysUnique, freeSession
<1>6. EndsServed'
  <2>1. ASSUME NEW k \in acOpen'
        PROVE  \E n \in ActiveSessions' : acHash'[n].peerMac = k[1] /\ acHash'[n].sesNum = k[2]
    <3>1. k \in acOpen /\ k = <<k[1], k[2]>>
      BY <2>1 DEF Closed, TypeOK
    <3>2. PICK n \in ActiveSessions : acHash[n].peerMac = k[1] /\ acHash[n].sesNum = k[2]
      BY <3>1 DEF EndsServed
    <3>3. n \notin S
      <4>1. SUFFICES ASSUME n \in S PROVE FALSE
        OBVIOUS
      <4>2. <<n, "ac">> \in S \X Sides /\ End(<<n, "ac">>) = acHash[n]
        BY <4>1 DEF Sides, End
      <4>3. k # <<End(<<n, "ac">>).peerMac, End(<<n, "ac">>).sesNum>>
        BY <4>2, <2>1 DEF Closed
      <4> QED
        BY <3>1, <3>2, <4>2, <4>3
    <3> QED
      BY <3>2, <3>3 DEF freeSession
  <2>2. ASSUME NEW k \in clientOpen'
        PROVE  /\ k[2] \in ActiveSessions'
               /\ clientHash'[k[2]].peerMac = k[1]
               /\ acHash'[k[2]].peerMac = k[3] /\ acHash'[k[2]].sesNum = k[4]
    <3>1. k \in clientOpen
      BY <2>2 DEF Closed
    <3>2. /\ k[2] \in ActiveSessions /\ clientHash[k[2]].peerMac = k[1]
          /\ acHash[k[2]].peerMac = k[3] /\ acHash[k[2]].sesNum = k[4]
      BY <3>1 DEF EndsServed
    <3>3. clientHash[k[2]].sesNum = k[2]
      BY <3>2, EndTypes
    <3>4. k[2] \notin S
      <4>1. SUFFICES ASSUME k[2] \in S PROVE FALSE
        OBVIOUS
      <4>2. <<k[2], "client">> \in S \X Sides /\ End(<<k[2], "client">>) = clientHash[k[2]]
        BY <4>1 DEF Sides, End
      <4>3. <<k[1], k[2]>> # <<End(<<k[2], "client">>).peerMac, End(<<k[2], "client">>).sesNum>>
        BY <4>2, <2>2 DEF Closed
      <4> QED
        BY <3>2, <3>3, <4>2, <4>3
    <3> QED
      BY <3>2, <3>4 DEF freeSession
  <2>3. \A m \in misled' : m[2] \in ActiveSessions' => clientHash'[m[2]].peerMac # m[1]
    BY DEF EndsServed, Closed, freeSession
  <2> QED
    BY <2>1, <2>2, <2>3 DEF EndsServed
<1>7. idle' \in [Numbers -> Nat] /\ \A n \in ActiveSessions' : idle'[n] = idle[n]
  BY <1>1 DEF freeSession, TypeOK
<1> QED
  BY <1>1, <1>3, <1>4, <1>5, <1>6, <1>7 DEF freeSession, Closed, TypeOK

-----------------------------------------------------------------------------
(***************************************************************************)
(* The steps.                                                              *)
(***************************************************************************)
LEMMA relayAddInterfaceStep ==
  ASSUME IInv, NEW node \in Nodes, relayAddInterface(node)
  PROVE  IInv'
<1> USE DEF IInv
<1>1. TypeOK'
  <2>1. <<node>> \o if_head \in Seq(Nodes)
    BY DEF TypeOK
  <2> QED
    BY <2>1 DEF TypeOK, relayAddInterface, table, time, observers
<1>2. ListsAgree'
  BY DEF ListsAgree, relayAddInterface, table
<1>3. EndsFilled' /\ AcKeysUnique'
  BY DEF EndsFilled, AcKeysUnique, relayAddInterface, table
<1>4. EndsServed'
  BY DEF EndsServed, relayAddInterface, table, observers
<1>5. IdleAndClean'
  BY Half DEF IdleAndClean, relayAddInterface, table, time
<1> QED
  BY <1>1, <1>2, <1>3, <1>4, <1>5

LEMMA relayRemoveInterfaceStep ==
  ASSUME IInv, NEW dev \in Devs, relayRemoveInterface(dev)
  PROVE  IInv'
<1> USE DEF IInv
<1>1. TypeOK'
  <2>1. PICK i \in DOMAIN if_head :
          if_head' = SubSeq(if_head, 1, i - 1) \o SubSeq(if_head, i + 1, Len(if_head))
    BY DEF relayRemoveInterface
  <2>2. if_head \in Seq(Nodes)
    BY DEF TypeOK
  <2>3. i \in 1 .. Len(if_head) /\ Len(if_head) \in Nat
    BY <2>2
  <2>4. SubSeq(if_head, 1, i - 1) \in Seq(Nodes)
        /\ SubSeq(if_head, i + 1, Len(if_head)) \in Seq(Nodes)
    BY <2>2, <2>3
  <2>5. if_head' \in Seq(Nodes)
    BY <2>1, <2>4
  <2> QED
    BY <2>5 DEF TypeOK, relayRemoveInterface, table, time, observers
<1>2. ListsAgree'
  BY DEF ListsAgree, relayRemoveInterface, table
<1>3. EndsFilled' /\ AcKeysUnique'
  BY DEF EndsFilled, AcKeysUnique, relayRemoveInterface, table
<1>4. EndsServed'
  BY DEF EndsServed, relayRemoveInterface, table, observers
<1>5. IdleAndClean'
  BY Half DEF IdleAndClean, relayRemoveInterface, table, time
<1> QED
  BY <1>1, <1>2, <1>3, <1>4, <1>5

LEMMA relayInterfacesClearStep ==
  ASSUME IInv, relayInterfacesClear
  PROVE  IInv'
<1> USE DEF IInv
<1>1. TypeOK'
  <2>1. << >> \in Seq(Nodes)
    OBVIOUS
  <2> QED
    BY <2>1 DEF TypeOK, relayInterfacesClear, table, time, observers
<1>2. ListsAgree'
  BY DEF ListsAgree, relayInterfacesClear, table
<1>3. EndsFilled' /\ AcKeysUnique'
  BY DEF EndsFilled, AcKeysUnique, relayInterfacesClear, table
<1>4. EndsServed'
  BY DEF EndsServed, relayInterfacesClear, table, observers
<1>5. IdleAndClean'
  BY Half DEF IdleAndClean, relayInterfacesClear, table, time
<1> QED
  BY <1>1, <1>2, <1>3, <1>4, <1>5

LEMMA PADSCreatesStep ==
  ASSUME IInv, NEW wan \in Devs, NEW lan \in Devs, NEW ac \in ACs, NEW ses \in AcSessions,
         NEW client \in Clients, PADSCreates(wan, lan, ac, ses, client)
  PROVE  IInv'
<1> USE DEF IInv
<1> DEFINE acEnd == [interface |-> wan, peerMac |-> ac, sesNum |-> ses]
           clientEnd(n) == [interface |-> lan, peerMac |-> client, sesNum |-> n]
<1>0. PICK n \in FreeSessions :
        /\ createSession(n, wan, lan, ac, client, ses)
        /\ clientOpen' = clientOpen \cup {<<client, n, ac, ses>>}
        /\ misled' = misled \ {<<client, n>>}
  BY DEF PADSCreates
<1>a. /\ n \in Numbers /\ n \notin ActiveSessions
      /\ acHash' = [acHash EXCEPT ![n] = acEnd]
      /\ clientHash' = [clientHash EXCEPT ![n] = clientEnd(n)]
      /\ ActiveSessions' = ActiveSessions \cup {n}
      /\ acHash'[n] = acEnd /\ clientHash'[n] = clientEnd(n)
      /\ \A m \in ActiveSessions : acHash'[m] = acHash[m] /\ clientHash'[m] = clientHash[m]
  BY <1>0 DEF createSession, TypeOK, ListsAgree
<1>b. acEnd \in Ends(ACs, AcSessions) /\ clientEnd(n) \in Ends(Clients, Numbers)
  BY <1>a DEF Ends
<1>c. acEnd # NoEnd /\ clientEnd(n) # NoEnd
  BY <1>a, RelayAssumption DEF Numbers
<1>d. \A m \in ActiveSessions : ~(acHash[m].peerMac = ac /\ acHash[m].sesNum = ses)
  <2>1. SUFFICES ASSUME NEW m \in ActiveSessions, acHash[m].peerMac = ac, acHash[m].sesNum = ses
                 PROVE  FALSE
    OBVIOUS
  <2>2. <<m, "ac">> \in Buckets /\ End(<<m, "ac">>) = acHash[m]
    BY DEF ListsAgree, Sides, End
  <2>3. <<m, "ac">> \in findSession(ac, ses)
    BY <2>1, <2>2 DEF findSession
  <2> QED
    BY <2>3 DEF PADSCreates
<1>1. TypeOK'
  <2>1. NumSessions' \in 0 .. MaxSessions
    BY <1>0, RelayAssumption DEF TypeOK, PADSCreates, createSession
  <2>2. acHash' \in [Numbers -> Ends(ACs, AcSessions)]
        /\ clientHash' \in [Numbers -> Ends(Clients, Numbers)]
    BY <1>a, <1>b DEF TypeOK
  <2>3. acOpen' \subseteq ACs \X AcSessions
        /\ clientOpen' \subseteq Clients \X Numbers \X ACs \X AcSessions
        /\ misled' \subseteq Clients \X Numbers
    BY <1>0, <1>a DEF TypeOK, PADSCreates
  <2> QED
    BY <1>0, <1>a, <2>1, <2>2, <2>3 DEF TypeOK, PADSCreates, createSession, time
<1>2. ListsAgree'
  <2>1. Cardinality(ActiveSessions') = Cardinality(ActiveSessions) + 1
    BY <1>a, FiniteSessions, FS_AddElement DEF TypeOK
  <2> QED
    BY <1>0, <1>a, <2>1 DEF ListsAgree, createSession
<1>3. EndsFilled' /\ AcKeysUnique'
  BY <1>a, <1>c, <1>d DEF EndsFilled, AcKeysUnique
<1>4. EndsServed'
  <2>1. acOpen' = acOpen \cup {<<ac, ses>>}
    BY DEF PADSCreates
  <2>2. \A m \in misled' : m[2] \in ActiveSessions' => clientHash'[m[2]].peerMac # m[1]
    <3>1. ASSUME NEW m \in misled', m[2] \in ActiveSessions' PROVE clientHash'[m[2]].peerMac # m[1]
      <4>1. m \in misled /\ m # <<client, n>> /\ m = <<m[1], m[2]>>
        BY <1>0, <3>1 DEF TypeOK
      <4>2. CASE m[2] = n
        BY <1>a, <4>1, <4>2
      <4>3. CASE m[2] # n
        BY <1>a, <3>1, <4>1, <4>3 DEF EndsServed
      <4> QED
        BY <4>2, <4>3
    <3> QED
      BY <3>1
  <2>3. \A k \in acOpen' : \E m \in ActiveSessions' :
          acHash'[m].peerMac = k[1] /\ acHash'[m].sesNum = k[2]
    BY <1>a, <2>1 DEF EndsServed
  <2>4. \A k \in clientOpen' :
          /\ k[2] \in ActiveSessions'
          /\ clientHash'[k[2]].peerMac = k[1]
          /\ acHash'[k[2]].peerMac = k[3] /\ acHash'[k[2]].sesNum = k[4]
    BY <1>0, <1>a DEF EndsServed
  <2> QED
    BY <2>2, <2>3, <2>4 DEF EndsServed
<1>5. IdleAndClean'
  BY Half DEF IdleAndClean, TypeOK, PADSCreates, createSession, time
<1> QED
  BY <1>1, <1>2, <1>3, <1>4, <1>5

LEMMA PADSNoRoomStep ==
  ASSUME IInv, NEW wan \in Devs, NEW lan \in Devs, NEW ac \in ACs, NEW ses \in AcSessions,
         NEW client \in Clients, PADSNoRoom(wan, lan, ac, ses, client)
  PROVE  IInv'
<1> USE DEF IInv
<1>1. TypeOK'
  BY Half, RelayAssumption DEF TypeOK, PADSNoRoom, table, time
<1>2. ListsAgree'
  BY DEF ListsAgree, PADSNoRoom, table
<1>3. EndsFilled' /\ AcKeysUnique'
  BY DEF EndsFilled, AcKeysUnique, PADSNoRoom, table
<1>4. EndsServed'
  BY DEF EndsServed, PADSNoRoom, table
<1>5. IdleAndClean'
  BY Half DEF IdleAndClean, PADSNoRoom, table, time
<1> QED
  BY <1>1, <1>2, <1>3, <1>4, <1>5

LEMMA PADSAgainStep ==
  ASSUME IInv, NEW wan \in Devs, NEW lan \in Devs, NEW ac \in ACs, NEW ses \in AcSessions,
         NEW client \in Clients, PADSAgain(wan, lan, ac, ses, client)
  PROVE  IInv'
<1> USE DEF IInv
<1>0. PICK e \in findSession(ac, ses) :
        IF clientHash[e[1]].peerMac = client
        THEN clientOpen' = clientOpen \cup {<<client, e[1], ac, ses>>} /\ UNCHANGED misled
        ELSE misled' = misled \cup {<<client, e[1]>>} /\ UNCHANGED clientOpen
  BY DEF PADSAgain
<1>a. e[1] \in ActiveSessions /\ acHash[e[1]].peerMac = ac /\ acHash[e[1]].sesNum = ses
  BY <1>0, FoundByAc
<1>1. TypeOK'
  <2>1. clientOpen' \subseteq Clients \X Numbers \X ACs \X AcSessions
        /\ misled' \subseteq Clients \X Numbers
    BY <1>0, <1>a DEF TypeOK
  <2>2. acOpen' \subseteq ACs \X AcSessions
    BY DEF TypeOK, PADSAgain
  <2> QED
    BY <2>1, <2>2 DEF TypeOK, PADSAgain, table, time
<1>2. ListsAgree'
  BY DEF ListsAgree, PADSAgain, table
<1>3. EndsFilled' /\ AcKeysUnique'
  BY DEF EndsFilled, AcKeysUnique, PADSAgain, table
<1>4. EndsServed'
  <2>1. acOpen' = acOpen \cup {<<ac, ses>>} /\ UNCHANGED <<ActiveSessions, acHash, clientHash>>
    BY DEF PADSAgain, table
  <2>2. \A m \in misled' : m[2] \in ActiveSessions' => clientHash'[m[2]].peerMac # m[1]
    BY <1>0, <2>1 DEF EndsServed
  <2>3. \A k \in clientOpen' :
          /\ k[2] \in ActiveSessions'
          /\ clientHash'[k[2]].peerMac = k[1]
          /\ acHash'[k[2]].peerMac = k[3] /\ acHash'[k[2]].sesNum = k[4]
    BY <1>0, <1>a, <2>1 DEF EndsServed
  <2>4. \A k \in acOpen' : \E n \in ActiveSessions' :
          acHash'[n].peerMac = k[1] /\ acHash'[n].sesNum = k[2]
    BY <1>a, <2>1 DEF EndsServed
  <2> QED
    BY <2>2, <2>3, <2>4 DEF EndsServed
<1>5. IdleAndClean'
  BY Half DEF IdleAndClean, PADSAgain, table, time
<1> QED
  BY <1>1, <1>2, <1>3, <1>4, <1>5

LEMMA relayHandlePADTStep ==
  ASSUME IInv, NEW mac, NEW ses, relayHandlePADT(mac, ses)
  PROVE  IInv'
<1> USE DEF IInv
<1>0. PICK e \in findSession(mac, ses) : Closed({e[1]} \X Sides) /\ freeSession({e[1]})
  BY DEF relayHandlePADT
<1>a. {e[1]} \in SUBSET ActiveSessions
  BY <1>0, Found
<1>1. TypeOK'
  BY <1>0, <1>a, Freeing DEF TypeOK, relayHandlePADT, time
<1>2. ListsAgree'
  BY <1>0, <1>a, Freeing
<1>3. EndsFilled' /\ AcKeysUnique'
  BY <1>0, <1>a, Freeing
<1>4. EndsServed'
  BY <1>0, <1>a, Freeing
<1>5. IdleAndClean'
  BY <1>0, <1>a, Freeing DEF IdleAndClean, relayHandlePADT, time
<1> QED
  BY <1>1, <1>2, <1>3, <1>4, <1>5

LEMMA relayGotSessionPacketStep ==
  ASSUME IInv, NEW mac, NEW ses, relayGotSessionPacket(mac, ses)
  PROVE  IInv'
<1> USE DEF IInv
<1>1. TypeOK'
  <2>1. epoch' \in [Numbers -> 0 .. JiffiesModulus - 1] /\ idle' \in [Numbers -> Nat]
    <3>1. PICK n : epoch' = [epoch EXCEPT ![n] = jiffies] /\ idle' = [idle EXCEPT ![n] = 0]
      BY DEF relayGotSessionPacket
    <3>2. epoch \in [Numbers -> 0 .. JiffiesModulus - 1] /\ jiffies \in 0 .. JiffiesModulus - 1
      BY DEF TypeOK
    <3>3. epoch' \in [Numbers -> 0 .. JiffiesModulus - 1]
      BY <3>1, <3>2
    <3>4. idle' \in [Numbers -> Nat]
      BY <3>1 DEF TypeOK
    <3> QED
      BY <3>3, <3>4
  <2> QED
    BY <2>1 DEF TypeOK, relayGotSessionPacket, table, time, observers
<1>2. ListsAgree'
  BY DEF ListsAgree, relayGotSessionPacket, table
<1>3. EndsFilled' /\ AcKeysUnique'
  BY DEF EndsFilled, AcKeysUnique, relayGotSessionPacket, table
<1>4. EndsServed'
  BY DEF EndsServed, relayGotSessionPacket, table, observers
<1>5. IdleAndClean'
  BY Half DEF IdleAndClean, TypeOK, relayGotSessionPacket, table, time
<1> QED
  BY <1>1, <1>2, <1>3, <1>4, <1>5

LEMMA cleanSessionsStep ==
  ASSUME IInv, cleanSessions
  PROVE  IInv'
<1> USE DEF IInv
<1> DEFINE S == {n \in ActiveSessions : Expired(n)}
<1>0. /\ Closed(S \X Sides) /\ freeSession(S) /\ UNCHANGED <<if_head, jiffies>>
      /\ clean' \in NextClean(ActiveSessions \ S)
  BY DEF cleanSessions
<1>a. S \in SUBSET ActiveSessions
  OBVIOUS
<1>b. clean' \in 0 .. Timeout
  BY <1>0, NextCleanInTime
<1> HIDE DEF S
<1>1. TypeOK'
  BY <1>0, <1>a, <1>b, Freeing DEF TypeOK
<1>2. ListsAgree'
  BY <1>0, <1>a, Freeing
<1>3. EndsFilled' /\ AcKeysUnique'
  BY <1>0, <1>a, Freeing
<1>4. EndsServed'
  BY <1>0, <1>a, Freeing
<1>5. IdleAndClean'
  <2>1. SUFFICES ASSUME NEW n \in ActiveSessions'
                 PROVE  /\ idle'[n] + clean' < 2 * Timeout
                        /\ epoch'[n] = jiffies' - idle'[n]
                           \/ epoch'[n] = jiffies' - idle'[n] + JiffiesModulus
    BY DEF IdleAndClean
  <2>2. /\ n \in ActiveSessions /\ n \notin S
        /\ idle'[n] = idle[n] /\ epoch'[n] = epoch[n] /\ jiffies' = jiffies
    BY <1>0, <1>a, Freeing DEF freeSession
  <2>3. ~Expired(n)
    BY <2>2 DEF S
  <2>4. idle[n] \in Nat /\ idle[n] < Timeout
    <3>1. idle[n] \in Nat /\ Timeout \in Nat
      BY <2>2, Half DEF TypeOK
    <3>2. ~(idle[n] >= Timeout)
      BY <2>2, <2>3, ExpiredMeans
    <3> QED
      BY <3>1, <3>2
  <2> QED
    BY <1>b, <2>2, <2>4, Half DEF IdleAndClean
<1> QED
  BY <1>1, <1>2, <1>3, <1>4, <1>5

LEMMA TickStep ==
  ASSUME IInv, Tick
  PROVE  IInv'
<1> USE DEF IInv
<1>1. TypeOK'
  BY Half, RelayAssumption DEF TypeOK, Tick, table, observers
<1>2. ListsAgree'
  BY DEF ListsAgree, Tick, table
<1>3. EndsFilled' /\ AcKeysUnique'
  BY DEF EndsFilled, AcKeysUnique, Tick, table
<1>4. EndsServed'
  BY DEF EndsServed, Tick, table, observers
<1>5. IdleAndClean'
  <2>1. SUFFICES ASSUME NEW n \in ActiveSessions
                 PROVE  /\ idle'[n] + clean' < 2 * Timeout
                        /\ epoch'[n] = jiffies' - idle'[n]
                           \/ epoch'[n] = jiffies' - idle'[n] + JiffiesModulus
    BY DEF IdleAndClean, Tick, table
  <2>2. /\ n \in Numbers /\ idle[n] \in Nat /\ clean \in Nat
        /\ jiffies \in 0 .. JiffiesModulus - 1 /\ epoch[n] \in 0 .. JiffiesModulus - 1
    BY Half DEF TypeOK
  <2>3. idle'[n] = idle[n] + 1 /\ clean' = clean - 1 /\ epoch'[n] = epoch[n] /\ clean > 0
    BY <2>2 DEF Tick
  <2>4. jiffies' = jiffies + 1 \/ (jiffies = JiffiesModulus - 1 /\ jiffies' = 0)
    BY <2>2, Half DEF Tick
  <2>5. /\ idle[n] + clean < 2 * Timeout
        /\ epoch[n] = jiffies - idle[n] \/ epoch[n] = jiffies - idle[n] + JiffiesModulus
    BY DEF IdleAndClean
  <2> QED
    BY <2>2, <2>3, <2>4, <2>5, Half
<1> QED
  BY <1>1, <1>2, <1>3, <1>4, <1>5

LEMMA InitOK == Init => IInv
<1> SUFFICES ASSUME Init PROVE IInv
  OBVIOUS
<1>1. TypeOK
  <2>1. << >> \in Seq(Nodes)
    OBVIOUS
  <2> QED
    BY <2>1, Half, RelayAssumption DEF Init, TypeOK, Ends
<1>2. ListsAgree
  BY FS_EmptySet DEF Init, ListsAgree
<1>3. EndsFilled /\ AcKeysUnique /\ EndsServed /\ IdleAndClean
  BY DEF Init, EndsFilled, AcKeysUnique, EndsServed, IdleAndClean
<1> QED
  BY <1>1, <1>2, <1>3 DEF IInv

LEMMA StutterOK ==
  ASSUME IInv, UNCHANGED vars
  PROVE  IInv'
<1> USE DEF IInv
<1>1. TypeOK' /\ ListsAgree'
  BY DEF TypeOK, ListsAgree, vars, table, time, observers
<1>2. EndsFilled' /\ AcKeysUnique' /\ EndsServed' /\ IdleAndClean'
  BY DEF EndsFilled, AcKeysUnique, EndsServed, IdleAndClean, vars, table, time,
         observers
<1> QED
  BY <1>1, <1>2

LEMMA NextOK ==
  ASSUME IInv, [Next]_vars
  PROVE  IInv'
<1>1. CASE Interfaces
  BY <1>1, relayAddInterfaceStep, relayRemoveInterfaceStep, relayInterfacesClearStep
     DEF Interfaces
<1>2. ASSUME NEW wan \in Devs, NEW lan \in Devs, NEW ac \in ACs, NEW ses \in AcSessions,
             NEW client \in Clients,
             \/ PADSCreates(wan, lan, ac, ses, client)
             \/ PADSNoRoom(wan, lan, ac, ses, client)
             \/ PADSAgain(wan, lan, ac, ses, client)
      PROVE  IInv'
  BY <1>2, PADSCreatesStep, PADSNoRoomStep, PADSAgainStep
<1>3. ASSUME NEW mac, NEW ses, relayHandlePADT(mac, ses) \/ relayGotSessionPacket(mac, ses)
      PROVE  IInv'
  BY <1>3, relayHandlePADTStep, relayGotSessionPacketStep
<1>4. CASE Frames
  BY <1>2, <1>3, <1>4 DEF Frames
<1>5. CASE cleanSessions \/ Tick
  BY <1>5, cleanSessionsStep, TickStep
<1>6. CASE UNCHANGED vars
  BY <1>6, StutterOK
<1> QED
  BY <1>1, <1>4, <1>5, <1>6 DEF Next

-----------------------------------------------------------------------------
(***************************************************************************)
(* The theorems.                                                           *)
(***************************************************************************)
\* Every reachable state satisfies the inductive invariant.
THEOREM Inductive == Spec => []IInv
<1> QED
  BY InitOK, NextOK, PTL DEF Spec

\* The variables of relay.c keep their types, and what cleanSessions returns
\* is never more than the timeout, however jiffies has wrapped.
THEOREM TypeCorrect == Spec => []TypeOK
<1>1. IInv => TypeOK
  BY DEF IInv
<1> QED
  BY <1>1, Inductive, PTL

\* createSession and freeSession keep the lists and the hash table consistent,
\* and a key leads findSession to one end at most.
THEOREM TableIsConsistent == Spec => []TableConsistent
<1>1. IInv => TableConsistent
  BY KeysUnique DEF IInv, TableConsistent
<1> QED
  BY <1>1, Inductive, PTL

\* A misled client's address and number lead nowhere.
LEMMA MisledFindNothing ==
  ASSUME IInv, NEW m \in misled
  PROVE  findSession(m[1], m[2]) = {}
<1>1. SUFFICES ASSUME NEW e \in findSession(m[1], m[2]) PROVE FALSE
  OBVIOUS
<1>2. m[1] \in Clients
  BY DEF IInv, TypeOK
<1>3. /\ e[1] \in ActiveSessions /\ e[2] \in Sides
      /\ End(e).peerMac = m[1] /\ End(e).sesNum = m[2]
  BY Found
<1>4. End(e) = clientHash[e[1]]
  BY <1>2, <1>3, EndTypes, RelayAssumption DEF End
<1>5. e[1] = m[2]
  BY <1>3, <1>4, EndTypes
<1> QED
  BY <1>3, <1>4, <1>5 DEF IInv, EndsServed

\* Neither the AC nor the client of a session keeps it when the relay has
\* forgotten it, and the address and number of a client that was told of
\* another's session (a PADS taken for a duplicate after the AC's restart)
\* lead the relay to no session.
THEOREM NoHalfSession == Spec => []NoHalfSessions
<1>1. IInv => NoHalfSessions
  BY MisledFindNothing DEF IInv, EndsServed, NoHalfSessions
<1> QED
  BY <1>1, Inductive, PTL

\* No session is idle for twice the timeout, for any width of jiffies.
THEOREM IdleBounded == Spec => []IdleBound
<1>1. ASSUME IInv, NEW n \in ActiveSessions
      PROVE  idle[n] < 2 * Timeout
  <2>1. idle[n] \in Nat /\ clean \in Nat
    BY <1>1, Half DEF IInv, TypeOK
  <2> QED
    BY <1>1, <2>1, Half DEF IInv, IdleAndClean
<1>2. IInv => IdleBound
  BY <1>1 DEF IdleBound
<1> QED
  BY <1>2, Inductive, PTL

\* A session that cleanSessions frees was idle for the timeout.
THEOREM NoSessionExpiresEarly == Spec => NoEarlyExpiry
<1>1. ASSUME IInv, cleanSessions
      PROVE  \A n \in ActiveSessions \ ActiveSessions' : idle[n] >= Timeout
  <2>1. ActiveSessions' = ActiveSessions \ {n \in ActiveSessions : Expired(n)}
    BY <1>1 DEF cleanSessions, freeSession
  <2> QED
    BY <1>1, <2>1, ExpiredMeans DEF IInv
<1>2. IInv => (cleanSessions => \A n \in ActiveSessions \ ActiveSessions' : idle[n] >= Timeout)
  BY <1>1
<1> QED
  BY <1>2, Inductive, PTL DEF NoEarlyExpiry

-----------------------------------------------------------------------------
(***************************************************************************)
(* The refinement.  Only PADSCreates and freeSession touch a number a      *)
(* client holds, and what a client was told of rightly is held.            *)
(***************************************************************************)
NumberStep == [ClientNumbers!NumNext]_(ClientNumbers!numVars)

Held == {<<clientHash[n].peerMac, n>> : n \in ActiveSessions}
Told == {<<k[1], k[2]>> : k \in clientOpen}
Believed == Told \cup misled

\* Nobody is told of a number both rightly and wrongly.
LEMMA RightOrWrong ==
  ASSUME IInv
  PROVE  Believed \ misled = Told
<1>1. ASSUME NEW k \in clientOpen PROVE <<k[1], k[2]>> \notin misled
  BY DEF IInv, EndsServed
<1> QED
  BY <1>1 DEF Believed, Told

LEMMA NumbersKept ==
  ASSUME UNCHANGED <<clientHash, ActiveSessions, clientOpen, misled>>
  PROVE  NumberStep
BY DEF NumberStep, ClientNumbers!numVars

LEMMA ToldAdd ==
  ASSUME NEW client, NEW n, NEW ac, NEW ses,
         clientOpen' = clientOpen \cup {<<client, n, ac, ses>>}
  PROVE  Told' = Told \cup {<<client, n>>}
<1> DEFINE told == <<client, n, ac, ses>>
<1>1. told[1] = client /\ told[2] = n
  OBVIOUS
<1>2. clientOpen' = clientOpen \cup {told}
  OBVIOUS
<1> HIDE DEF told
<1> QED
  BY <1>1, <1>2 DEF Told

LEMMA NumbersPADSCreates ==
  ASSUME IInv, NEW wan, NEW lan, NEW ac, NEW ses, NEW client \in Clients,
         PADSCreates(wan, lan, ac, ses, client)
  PROVE  NumberStep
<1>1. PICK n \in FreeSessions :
        /\ createSession(n, wan, lan, ac, client, ses)
        /\ clientOpen' = clientOpen \cup {<<client, n, ac, ses>>}
        /\ misled' = misled \ {<<client, n>>}
  BY DEF PADSCreates
<1>2. n \in Numbers /\ n \notin ActiveSessions
  BY DEF IInv, ListsAgree
<1>3. /\ ActiveSessions' = ActiveSessions \cup {n}
      /\ clientHash'[n].peerMac = client
      /\ \A m \in ActiveSessions : clientHash'[m] = clientHash[m]
  BY <1>1, <1>2 DEF IInv, TypeOK, createSession
<1>4. Held' = Held \cup {<<client, n>>} /\ \A l \in Held : l[2] # n
  BY <1>2, <1>3 DEF Held
<1>5. Believed' = Believed \cup {<<client, n>>}
  BY <1>1, ToldAdd DEF Believed
<1>6. ClientNumbers!Give(client, n)
  BY <1>1, <1>4, <1>5 DEF ClientNumbers!Give, ClientNumbers!Inform, Held, Believed, Told
<1> QED
  BY <1>2, <1>6 DEF NumberStep, ClientNumbers!NumNext

LEMMA NumbersPADSAgain ==
  ASSUME IInv, NEW wan, NEW lan, NEW ac \in ACs, NEW ses, NEW client \in Clients,
         PADSAgain(wan, lan, ac, ses, client)
  PROVE  NumberStep
<1>1. PICK e \in findSession(ac, ses) :
        IF clientHash[e[1]].peerMac = client
        THEN clientOpen' = clientOpen \cup {<<client, e[1], ac, ses>>} /\ UNCHANGED misled
        ELSE misled' = misled \cup {<<client, e[1]>>} /\ UNCHANGED clientOpen
  BY DEF PADSAgain
<1>2. UNCHANGED <<clientHash, ActiveSessions>>
  BY DEF PADSAgain, table
<1>3. e[1] \in ActiveSessions /\ e[1] \in Numbers
  BY <1>1, Found DEF IInv, TypeOK
<1>4. Held' = Held
  BY <1>2 DEF Held
<1>5. CASE clientHash[e[1]].peerMac # client
  <2>1. Told' = Told /\ misled' = misled \cup {<<client, e[1]>>}
    BY <1>1, <1>5 DEF Told
  <2>2. \E h \in Clients : <<h, e[1]>> \in Held
    BY <1>3, EndTypes DEF Held
  <2>3. <<client, e[1]>> \notin Told
    <3>1. ASSUME NEW k \in clientOpen, k[2] = e[1] PROVE k[1] # client
      BY <1>5, <3>1 DEF IInv, EndsServed
    <3> QED
      BY <3>1 DEF Told
  <2>4. <<client, e[1]>> \notin Believed \ misled
    BY <2>3, RightOrWrong
  <2>5. Believed' = Believed \cup {<<client, e[1]>>}
    BY <2>1 DEF Believed
  <2>6. ClientNumbers!Mislead(client, e[1])
    BY <1>4, <2>1, <2>2, <2>4, <2>5 DEF ClientNumbers!Mislead, Held, Believed, Told
  <2> QED
    BY <1>3, <2>6 DEF NumberStep, ClientNumbers!NumNext
<1>6. CASE clientHash[e[1]].peerMac = client
  <2>1. <<client, e[1]>> \in Held
    BY <1>3, <1>6 DEF Held
  <2>2. Told' = Told \cup {<<client, e[1]>>} /\ misled' = misled
    BY <1>1, <1>6, ToldAdd
  <2>3. <<client, e[1]>> \notin misled
    BY <1>3, <1>6 DEF IInv, EndsServed
  <2>4. /\ Believed' = Believed \cup {<<client, e[1]>>}
        /\ misled' = misled \ {<<client, e[1]>>}
    BY <2>2, <2>3 DEF Believed
  <2>5. ClientNumbers!Tell(client, e[1])
    BY <1>4, <2>1, <2>4 DEF ClientNumbers!Tell, ClientNumbers!Inform, Held, Believed, Told
  <2> QED
    BY <1>3, <2>5 DEF NumberStep, ClientNumbers!NumNext
<1> QED
  BY <1>5, <1>6

LEMMA NumbersFreed ==
  ASSUME IInv, NEW S \in SUBSET ActiveSessions, freeSession(S), Closed(S \X Sides)
  PROVE  NumberStep
<1>1. ActiveSessions' = ActiveSessions \ S /\ clientHash' = clientHash
  BY DEF freeSession
<1>2. Held' \subseteq Held
  BY <1>1 DEF Held
<1>3. ASSUME NEW k \in clientOpen' PROVE <<k[1], k[2]>> \in Told \cap Held'
  <2>1. k \in clientOpen
    BY <1>3 DEF Closed
  <2>2. k[2] \in ActiveSessions' /\ clientHash'[k[2]].peerMac = k[1]
    BY <1>3, Freeing DEF EndsServed
  <2> QED
    BY <2>1, <2>2 DEF Told, Held
<1>4. ASSUME NEW k \in clientOpen, k[2] \notin S PROVE k \in clientOpen'
  <2>1. ASSUME NEW e \in S \X Sides, e[2] = "client"
        PROVE  <<k[1], k[2]>> # <<End(e).peerMac, End(e).sesNum>>
    <3>1. e[1] \in S /\ End(e) = clientHash[e[1]]
      BY <2>1 DEF End
    <3>2. End(e).sesNum = e[1]
      BY <3>1, EndTypes
    <3> QED
      BY <1>4, <3>1, <3>2
  <2> QED
    BY <2>1 DEF Closed
<1>5. Told' = Told \cap Held'
  <2>1. ASSUME NEW l \in Told', TRUE PROVE l \in Told \cap Held'
    BY <1>3 DEF Told
  <2>2. ASSUME NEW l \in Told, l \in Held' PROVE l \in Told'
    <3>1. PICK k \in clientOpen : l = <<k[1], k[2]>>
      BY DEF Told
    <3>2. k[2] \notin S
      BY <1>1, <2>2, <3>1 DEF Held
    <3> QED
      BY <1>4, <3>1, <3>2 DEF Told
  <2> QED
    BY <2>1, <2>2
<1>6. misled' = misled /\ EndsServed'
  BY Freeing
<1>7. \A k \in clientOpen' : <<k[1], k[2]>> \notin misled'
  BY <1>6 DEF EndsServed
<1>8. Believed' \ misled' = (Believed \ misled) \cap Held'
  BY <1>5, <1>7, RightOrWrong DEF Believed, Told
<1>9. Believed' \subseteq Believed /\ misled' = misled \cap Believed'
  BY <1>5, <1>6 DEF Believed
<1>10. ClientNumbers!TakeBack
  BY <1>2, <1>8, <1>9 DEF ClientNumbers!TakeBack, Held, Believed, Told
<1> QED
  BY <1>10 DEF NumberStep, ClientNumbers!NumNext

LEMMA NumbersNext ==
  ASSUME IInv, [Next]_vars
  PROVE  NumberStep
<1>1. ASSUME NEW wan \in Devs, NEW lan \in Devs, NEW ac \in ACs, NEW ses \in AcSessions,
             NEW client \in Clients,
             \/ PADSCreates(wan, lan, ac, ses, client)
             \/ PADSNoRoom(wan, lan, ac, ses, client)
             \/ PADSAgain(wan, lan, ac, ses, client)
      PROVE  NumberStep
  BY <1>1, NumbersPADSCreates, NumbersPADSAgain, NumbersKept DEF PADSNoRoom, table
<1>2. ASSUME NEW mac, NEW ses, relayHandlePADT(mac, ses) PROVE NumberStep
  <2>1. PICK e \in findSession(mac, ses) : Closed({e[1]} \X Sides) /\ freeSession({e[1]})
    BY <1>2 DEF relayHandlePADT
  <2>2. {e[1]} \in SUBSET ActiveSessions
    BY <2>1, Found
  <2> QED
    BY <2>1, <2>2, NumbersFreed
<1>3. ASSUME NEW mac, NEW ses, relayGotSessionPacket(mac, ses) PROVE NumberStep
  BY <1>3, NumbersKept DEF relayGotSessionPacket, table, observers
<1>4. CASE Frames
  BY <1>1, <1>2, <1>3, <1>4 DEF Frames
<1>5. CASE cleanSessions
  <2>1. {n \in ActiveSessions : Expired(n)} \in SUBSET ActiveSessions
    OBVIOUS
  <2> QED
    BY <1>5, <2>1, NumbersFreed DEF cleanSessions
<1>6. CASE Interfaces \/ Tick \/ UNCHANGED vars
  BY <1>6, NumbersKept
     DEF Interfaces, relayAddInterface, relayRemoveInterface, relayInterfacesClear, Tick,
         vars, table, observers
<1> QED
  BY <1>4, <1>5, <1>6 DEF Next

\* Towards its clients relay.c implements SessionNumbers, whatever PADSs repeat,
\* whoever closes, and however jiffies wraps: a number goes to another client
\* only after the first was told of its end.  A PADS numbered as an old session
\* may mislead another client about that session's number, but takes nothing
\* from the client it was given to.
THEOREM SessionNumbersImplemented == Spec => ImplementsSessionNumbers
<1>1. Init => ClientNumbers!NumInit
  BY DEF Init, ClientNumbers!NumInit
<1>2. IInv /\ [Next]_vars => NumberStep
  BY NumbersNext
<1> QED
  BY <1>1, <1>2, Inductive, PTL
     DEF Spec, ImplementsSessionNumbers, ClientNumbers!NumSpec, NumberStep

=============================================================================
