-------------------------- MODULE RadiusClientProofs --------------------------
(***************************************************************************)
(* Proofs about RadiusClient for every number of stations, requests and    *)
(* servers, every limit of the list and of the retries, and every modulus  *)
(* of the identifiers.                                                     *)
(***************************************************************************)
EXTENDS RadiusClient, SubsequenceProofs

\* What every list the client keeps or builds has: n requests have been sent,
\* and server s is the one in use.
WellFormed(list, n, s) ==
  /\ list \in Seq(Entry)
  /\ \A i \in DOMAIN list : list[i].req <= n /\ list[i].secret = secret[s]
  /\ \A i, j \in DOMAIN list : Id(list[i].req) = Id(list[j].req) => i = j
  /\ \A i, j \in DOMAIN list : i < j => list[j].req < list[i].req

IInv == TypeOK /\ TimerArmed /\ CountCovers
        /\ WellFormed(msgs, Len(sent), auth_server)

-----------------------------------------------------------------------------
(***************************************************************************)
(* Lists.                                                                  *)
(***************************************************************************)
LEMMA EntryType ==
  ASSUME NEW e \in Entry
  PROVE  /\ e.req \in 1..NumRequests /\ e.secret \in {secret[s] : s \in Servers}
         /\ e.attempts \in 0..(MaxRetries - 1) /\ e.due \in 0..MaxWait
         /\ e.wait \in 1..MaxWait /\ e.age \in 0..FirstWait
         /\ {e.req, e.attempts, e.due, e.wait, e.age} \subseteq Int
  BY RadiusAssumption DEF Entry

\* Unlinking entries leaves a well-formed list.
LEMMA SubWellFormed ==
  ASSUME NEW list, NEW n, NEW s, WellFormed(list, n, s),
         NEW S \in SUBSET DOMAIN list
  PROVE  WellFormed(At(list, S), n, s)
<1> DEFINE l == At(list, S)
<1>1. list \in Seq(Entry)
  BY DEF WellFormed
<1>2. /\ l \in Seq(Entry)
      /\ \A i \in DOMAIN l : Nth(S, i) \in S /\ l[i] = list[Nth(S, i)]
      /\ \A i, j \in DOMAIN l : i < j => Nth(S, i) < Nth(S, j)
      /\ DOMAIN l = 1 .. Len(l) /\ Len(l) \in Nat
  BY <1>1, AtProperties
<1>3. \A i \in DOMAIN l : Nth(S, i) \in DOMAIN list
  BY <1>2
<1>4. \A i, j \in DOMAIN l : Nth(S, i) = Nth(S, j) => i = j
  <2>1. \A i, j \in DOMAIN l : i = j \/ i < j \/ j < i
    BY <1>2
  <2>2. \A i \in DOMAIN l : Nth(S, i) \in Int
    BY <1>1, <1>3
  <2> QED
    BY <1>2, <2>1, <2>2
<1> HIDE DEF l
<1> QED
  BY <1>2, <1>3, <1>4 DEF WellFormed, l

\* So does a change of the times and attempts of its entries.
LEMMA SameRequests ==
  ASSUME NEW list, NEW n, NEW s, WellFormed(list, n, s),
         NEW t \in Servers, secret[t] = secret[s],
         NEW l \in Seq(Entry), DOMAIN l = DOMAIN list,
         \A i \in DOMAIN list :
           l[i].req = list[i].req /\ l[i].secret = list[i].secret
  PROVE  WellFormed(l, n, t)
  BY DEF WellFormed

\* Adding the next request in front of a well-formed list that does not have
\* its identifier.
LEMMA ConsWellFormed ==
  ASSUME NEW list, NEW n \in Nat, NEW s, WellFormed(list, n, s),
         NEW e \in Entry, e.req = n + 1, e.secret = secret[s],
         \A i \in DOMAIN list : Id(list[i].req) # Id(n + 1)
  PROVE  /\ WellFormed(<<e>> \o list, n + 1, s)
         /\ Len(<<e>> \o list) = Len(list) + 1
<1> DEFINE l == <<e>> \o list
<1>1. list \in Seq(Entry) /\ Len(list) \in Nat /\ DOMAIN list = 1 .. Len(list)
  BY DEF WellFormed
<1>2. /\ l \in Seq(Entry) /\ Len(l) = Len(list) + 1 /\ DOMAIN l = 1 .. Len(l)
      /\ l[1] = e /\ \A i \in DOMAIN l \ {1} : l[i] = list[i - 1]
  BY <1>1
<1>3. \A i \in DOMAIN l : i = 1 \/ i - 1 \in DOMAIN list
  BY <1>1, <1>2
<1>4. \A i \in DOMAIN list : list[i].req \in Int /\ list[i].req <= n
  BY <1>1, EntryType DEF WellFormed
<1>5. \A i \in DOMAIN l : l[i].req <= n + 1 /\ l[i].secret = secret[s]
  <2> TAKE i \in DOMAIN l
  <2>1. CASE i = 1
    BY <1>2, <2>1
  <2>2. CASE i # 1
    <3>1. i - 1 \in DOMAIN list /\ l[i] = list[i - 1]
      BY <1>2, <1>3, <2>2
    <3> QED
      BY <1>4, <3>1 DEF WellFormed
  <2> QED
    BY <2>1, <2>2
<1>6. ASSUME NEW i \in DOMAIN l, NEW j \in DOMAIN l
      PROVE  /\ Id(l[i].req) = Id(l[j].req) => i = j
             /\ i < j => l[j].req < l[i].req
  <2>0. i \in Int /\ j \in Int /\ i >= 1 /\ j >= 1
    BY <1>1, <1>2
  <2>1. CASE i = 1 /\ j = 1
    BY <2>0, <2>1
  <2>2. CASE i = 1 /\ j # 1
    <3>1. j - 1 \in DOMAIN list /\ l[j] = list[j - 1] /\ l[i] = e
      BY <1>2, <1>3, <2>2
    <3> QED
      BY <1>4, <3>1
  <2>3. CASE i # 1 /\ j = 1
    <3>1. i - 1 \in DOMAIN list /\ l[i] = list[i - 1] /\ l[j] = e /\ ~(i < j)
      BY <1>2, <1>3, <2>0, <2>3
    <3> QED
      BY <1>4, <3>1
  <2>4. CASE i # 1 /\ j # 1
    <3>1. /\ i - 1 \in DOMAIN list /\ l[i] = list[i - 1]
          /\ j - 1 \in DOMAIN list /\ l[j] = list[j - 1]
      BY <1>2, <1>3, <2>4
    <3>2. Id(list[i - 1].req) = Id(list[j - 1].req) => i - 1 = j - 1
      BY <3>1 DEF WellFormed
    <3>3. i - 1 < j - 1 => list[j - 1].req < list[i - 1].req
      BY <3>1 DEF WellFormed
    <3> QED
      BY <2>0, <3>1, <3>2, <3>3
  <2> QED
    BY <2>1, <2>2, <2>3, <2>4
<1> HIDE DEF l
<1> QED
  BY <1>2, <1>5, <1>6 DEF WellFormed, l

\* Front is what is left without the last position.
LEMMA FrontWellFormed ==
  ASSUME NEW list, NEW n, NEW s, WellFormed(list, n, s), list # <<>>
  PROVE  /\ WellFormed(Front(list), n, s)
         /\ Len(Front(list)) = Len(list) - 1
         /\ \A i \in DOMAIN Front(list) :
              i \in DOMAIN list /\ Front(list)[i] = list[i]
<1> DEFINE l == Front(list)
<1>1. list \in Seq(Entry) /\ Len(list) \in Nat \ {0}
      /\ DOMAIN list = 1 .. Len(list)
  BY DEF WellFormed
<1>2. /\ l \in Seq(Entry) /\ Len(l) = Len(list) - 1 /\ DOMAIN l = 1 .. Len(l)
      /\ \A i \in 1 .. (Len(list) - 1) : l[i] = list[i]
  BY <1>1 DEF Front
<1>3. \A i \in DOMAIN l : i \in DOMAIN list /\ l[i] = list[i]
  BY <1>1, <1>2
<1> HIDE DEF l
<1>4. WellFormed(l, n, s)
  BY <1>2, <1>3 DEF WellFormed
<1> QED
  BY <1>2, <1>3, <1>4 DEF l

\* What Radius_client_get_id and Unlink leave.
LEMMA Dropped ==
  ASSUME IInv, NEW id
  PROVE  LET L == Radius_client_get_id(id) IN
           /\ WellFormed(L, Len(sent), auth_server)
           /\ WellFormed(L, Len(sent) + 1, auth_server)
           /\ \A i \in DOMAIN L : Id(L[i].req) # id
           /\ Len(L) \in Nat /\ Len(L) <= Len(msgs)
           /\ L # <<>> => msgs # <<>>
           /\ (\E e \in Range(msgs) : Id(e.req) = id) => Len(L) < Len(msgs)
<1> DEFINE S == {i \in DOMAIN msgs : Id(msgs[i].req) # id}
           L == At(msgs, S)
<1>1. /\ msgs \in Seq(Entry) /\ Len(sent) \in Nat
      /\ WellFormed(msgs, Len(sent), auth_server)
  BY DEF IInv, TypeOK
<1>2. S \in SUBSET DOMAIN msgs /\ \A i \in S : Id(msgs[i].req) # id
  OBVIOUS
<1> HIDE DEF S
<1>3. WellFormed(L, Len(sent), auth_server)
  BY <1>1, <1>2, SubWellFormed
<1>4. /\ L \in Seq(Entry) /\ Len(L) \in 0 .. Len(msgs)
      /\ \A i \in DOMAIN L : Nth(S, i) \in S /\ L[i] = msgs[Nth(S, i)]
  BY <1>1, <1>2, AtProperties
<1> HIDE DEF L
<1>5. Len(msgs) \in Nat /\ Len(L) \in Nat /\ Len(L) <= Len(msgs)
  BY <1>1, <1>4
<1>6. \A i \in DOMAIN L : Id(L[i].req) # id
  BY <1>2, <1>4
<1>7. L # <<>> => msgs # <<>>
  BY <1>1, <1>4, <1>5
<1>8. ASSUME \E e \in Range(msgs) : Id(e.req) = id
      PROVE  Len(L) < Len(msgs)
  <2>1. PICK p \in DOMAIN msgs : Id(msgs[p].req) = id
    BY <1>8 DEF Range
  <2>2. p \notin S
    BY <1>2, <2>1
  <2> QED
    BY <1>1, <1>2, <2>2, AtShorter DEF L
<1>9. WellFormed(L, Len(sent) + 1, auth_server)
  <2>1. \A i \in DOMAIN L : L[i].req \in Int
    BY <1>4, EntryType
  <2>2. \A i \in DOMAIN L : L[i].req <= Len(sent) + 1
    BY <1>1, <1>3, <2>1 DEF WellFormed
  <2> QED
    BY <1>3, <2>2 DEF WellFormed
<1>10. Radius_client_get_id(id) = L
  BY DEF Radius_client_get_id, Where, L, S
<1> QED
  BY <1>3, <1>5, <1>6, <1>7, <1>8, <1>9, <1>10

LEMMA IdType ==
  ASSUME NEW n \in Nat \ {0}
  PROVE  Id(n) \in Ids
<1>1. IdModulus \in Nat \ {0} /\ n - 1 \in Nat
  BY RadiusAssumption
<1> QED
  BY <1>1 DEF Id, Ids

\* The list and the timers are all a step needs to be looked at for, once the
\* rest has its type.
LEMMA InvariantAgain ==
  ASSUME TypeOK', WellFormed(msgs', Len(sent'), auth_server'),
         Len(msgs') <= num_msgs', msgs' # <<>> => timers' # {}
  PROVE  IInv'
<1>1. WellFormed(msgs, Len(sent), auth_server)'
  OBVIOUS
<1>2. num_msgs' <= MaxEntries
  BY RadiusAssumption DEF TypeOK
<1> QED
  BY <1>1, <1>2 DEF IInv, TimerArmed, CountCovers

LEMMA NewEntryType ==
  ASSUME IInv, NEW n \in 1..NumRequests
  PROVE  /\ NewEntry(n) \in Entry
         /\ NewEntry(n).req = n /\ NewEntry(n).secret = secret[auth_server]
<1>1. auth_server \in Servers
  BY DEF IInv, TypeOK
<1>2. /\ 1 \in 0..(MaxRetries - 1) /\ FirstWait \in 0..MaxWait
      /\ 2 * FirstWait \in 1..MaxWait /\ 0 \in 0..FirstWait
  BY RadiusAssumption
<1> QED
  BY <1>1, <1>2 DEF NewEntry, Entry

LEMMA TakesIdentifierType ==
  ASSUME IInv, NEW s \in Stations, TakesIdentifier(s)
  PROVE  /\ Len(sent) \in Nat /\ Len(sent) + 1 \in 1..NumRequests
         /\ Len(sent') = Len(sent) + 1
         /\ sent' \in Seq(Stations) /\ Len(sent') <= NumRequests
         /\ sta_list' \in Seq(Stations)
         /\ radius_identifier' \in [Stations -> Ids \cup {-1}]
         /\ auth_server' = auth_server /\ peer' = peer
<1>1. /\ sent \in Seq(Stations) /\ Len(sent) <= NumRequests
      /\ sta_list \in Seq(Stations)
      /\ radius_identifier \in [Stations -> Ids \cup {-1}]
  BY DEF IInv, TypeOK
<1>2. /\ Len(sent) < NumRequests /\ sent' = Append(sent, s)
      /\ sta_list' = IF s \in Range(sta_list) THEN sta_list ELSE <<s>> \o sta_list
      /\ radius_identifier' = [radius_identifier EXCEPT ![s] = Id(Len(sent) + 1)]
      /\ auth_server' = auth_server /\ peer' = peer
  BY DEF TakesIdentifier, server
<1>3. NumRequests \in Nat /\ Len(sent) \in Nat
  BY <1>1, RadiusAssumption
<1>4. Id(Len(sent) + 1) \in Ids
  BY <1>3, IdType
<1>5. sta_list' \in Seq(Stations)
  BY <1>1, <1>2
<1>6. sent' \in Seq(Stations) /\ Len(sent') = Len(sent) + 1
  BY <1>1, <1>2
<1>7. radius_identifier' \in [Stations -> Ids \cup {-1}]
  BY <1>1, <1>2, <1>4
<1>8. Len(sent) + 1 \in 1..NumRequests
  BY <1>2, <1>3
<1> QED
  BY <1>2, <1>3, <1>5, <1>6, <1>7, <1>8

-----------------------------------------------------------------------------
(***************************************************************************)
(* Each action preserves the invariant.                                    *)
(***************************************************************************)
LEMMA EncapsulateInv ==
  ASSUME IInv, NEW s \in Stations, ieee802_1x_encapsulate_radius(s)
  PROVE  IInv'
<1> DEFINE n == Len(sent) + 1
           L == Radius_client_get_id(Id(n))
           e == NewEntry(n)
<1>1. /\ Len(sent) \in Nat /\ n \in 1..NumRequests /\ Len(sent') = n
      /\ sent' \in Seq(Stations) /\ Len(sent') <= NumRequests
      /\ sta_list' \in Seq(Stations)
      /\ radius_identifier' \in [Stations -> Ids \cup {-1}]
      /\ auth_server' = auth_server /\ peer' = peer
  BY TakesIdentifierType DEF ieee802_1x_encapsulate_radius
<1>2. /\ WellFormed(L, Len(sent), auth_server)
      /\ \A i \in DOMAIN L : Id(L[i].req) # Id(n)
      /\ Len(L) \in Nat /\ Len(L) <= Len(msgs)
      /\ L # <<>> => msgs # <<>>
  BY Dropped
<1>3. e \in Entry /\ e.req = n /\ e.secret = secret[auth_server]
  BY <1>1, NewEntryType
<1>4. out' = out \cup {n} /\ Radius_client_list_add(L, e)
  BY DEF ieee802_1x_encapsulate_radius
<1> HIDE DEF L, e
<1>5. /\ msgs \in Seq(Entry) /\ Len(msgs) \in Nat /\ Len(msgs) <= num_msgs
      /\ num_msgs \in 0..MaxEntries /\ out \subseteq 1..NumRequests
      /\ timers \subseteq 0..MaxWait /\ (msgs # <<>> => timers # {})
      /\ auth_server \in Servers /\ peer \in Servers
  BY DEF IInv, TypeOK, CountCovers, TimerArmed
<1>6. /\ MaxEntries \in Nat \ {0} /\ MaxWait \in Nat /\ FirstWait \in 0..MaxWait
  BY RadiusAssumption
<1>7. timers' \subseteq 0..MaxWait /\ timers' # {}
  <2>1. timers' = IF L = <<>> THEN timers \cup {FirstWait} ELSE timers
    BY <1>4 DEF Radius_client_list_add
  <2>2. CASE L = <<>>
    BY <1>5, <1>6, <2>1, <2>2
  <2>3. CASE L # <<>>
    BY <1>2, <1>5, <2>1, <2>3
  <2> QED
    BY <2>2, <2>3
<1>8. /\ WellFormed(msgs', n, auth_server)
      /\ Len(msgs') <= num_msgs' /\ num_msgs' \in 0..MaxEntries
  <2>1. CASE /\ num_msgs < MaxEntries
             /\ msgs' = <<e>> \o L
             /\ num_msgs' = num_msgs + 1
    <3>1. WellFormed(<<e>> \o L, n, auth_server) /\ Len(<<e>> \o L) = Len(L) + 1
      BY <1>1, <1>2, <1>3, ConsWellFormed
    <3> QED
      BY <1>2, <1>5, <1>6, <2>1, <3>1
  <2>2. CASE /\ num_msgs >= MaxEntries
             /\ L = <<>>
             /\ msgs' = <<e>>
             /\ num_msgs' = num_msgs
    <3>1. WellFormed(<<e>> \o L, n, auth_server) /\ Len(<<e>> \o L) = Len(L) + 1
      BY <1>1, <1>2, <1>3, ConsWellFormed
    <3>2. <<e>> \o L = <<e>> /\ Len(L) = 0
      BY <2>2
    <3> QED
      BY <1>5, <1>6, <2>2, <3>1, <3>2
  <2>3. CASE /\ num_msgs >= MaxEntries
             /\ L # <<>>
             /\ msgs' = <<e>> \o Front(L)
             /\ num_msgs' = num_msgs
    <3>1. /\ WellFormed(Front(L), Len(sent), auth_server)
          /\ Len(Front(L)) = Len(L) - 1
          /\ \A i \in DOMAIN Front(L) :
               i \in DOMAIN L /\ Front(L)[i] = L[i]
      BY <1>2, <2>3, FrontWellFormed
    <3>2. \A i \in DOMAIN Front(L) : Id(Front(L)[i].req) # Id(n)
      BY <1>2, <3>1
    <3>3. /\ WellFormed(<<e>> \o Front(L), n, auth_server)
          /\ Len(<<e>> \o Front(L)) = Len(Front(L)) + 1
      BY <1>1, <1>3, <3>1, <3>2, ConsWellFormed
    <3> QED
      BY <1>2, <1>5, <1>6, <2>3, <3>1, <3>3
  <2> QED
    BY <1>4, <2>1, <2>2, <2>3 DEF Radius_client_list_add
<1>9. out' \subseteq 1..NumRequests
  BY <1>1, <1>4, <1>5
<1>10. msgs' \in Seq(Entry)
  BY <1>8 DEF WellFormed
<1>11. TypeOK'
  BY <1>1, <1>5, <1>7, <1>8, <1>9, <1>10 DEF TypeOK
<1> QED
  BY <1>1, <1>7, <1>8, <1>11, InvariantAgain

LEMMA EncapsulateFailsInv ==
  ASSUME IInv, NEW s \in Stations, EncapsulateFails(s)
  PROVE  IInv'
<1> DEFINE n == Len(sent) + 1
           L == Radius_client_get_id(Id(n))
<1>1. /\ Len(sent) \in Nat /\ n \in 1..NumRequests /\ Len(sent') = n
      /\ sent' \in Seq(Stations) /\ Len(sent') <= NumRequests
      /\ sta_list' \in Seq(Stations)
      /\ radius_identifier' \in [Stations -> Ids \cup {-1}]
      /\ auth_server' = auth_server /\ peer' = peer
  BY TakesIdentifierType DEF EncapsulateFails
<1>2. /\ WellFormed(L, n, auth_server)
      /\ Len(L) \in Nat /\ Len(L) <= Len(msgs)
      /\ L # <<>> => msgs # <<>>
  BY Dropped
<1>3. msgs' = L /\ UNCHANGED <<out, num_msgs, timers>>
  BY DEF EncapsulateFails
<1> HIDE DEF L
<1>4. /\ Len(msgs) \in Nat /\ Len(msgs) <= num_msgs
      /\ num_msgs \in Int /\ (msgs # <<>> => timers # {})
  BY RadiusAssumption DEF IInv, TypeOK, CountCovers, TimerArmed
<1>5. msgs' \in Seq(Entry)
  BY <1>2, <1>3 DEF WellFormed
<1>6. TypeOK'
  BY <1>1, <1>3, <1>5 DEF IInv, TypeOK
<1>7. Len(msgs') <= num_msgs' /\ (msgs' # <<>> => timers' # {})
  <2>1. Len(L) <= num_msgs /\ (L # <<>> => timers # {})
    BY <1>2, <1>4
  <2> QED
    BY <1>3, <2>1
<1>8. WellFormed(msgs', Len(sent'), auth_server')
  BY <1>1, <1>2, <1>3
<1> QED
  BY <1>6, <1>7, <1>8, InvariantAgain

\* Whoever takes the reply, the request is off the list.
LEMMA UnlinkInv ==
  ASSUME IInv, NEW n \in out, Unlink(n),
         sta_list' \in Seq(Stations),
         radius_identifier' \in [Stations -> Ids \cup {-1}]
  PROVE  IInv'
<1> DEFINE L == Radius_client_get_id(Id(n))
<1>1. /\ WellFormed(L, Len(sent), auth_server)
      /\ Len(L) \in Nat /\ Len(L) < Len(msgs)
      /\ L # <<>> => msgs # <<>>
  BY Dropped DEF Unlink
<1>2. /\ msgs' = L /\ num_msgs' = num_msgs - 1
      /\ UNCHANGED <<sent, out, timers, server>>
  BY DEF Unlink, Radius_client_get_id
<1> HIDE DEF L
<1>3. /\ Len(msgs) \in Nat /\ Len(msgs) <= num_msgs
      /\ num_msgs \in 0..MaxEntries /\ MaxEntries \in Nat
      /\ msgs # <<>> => timers # {}
  BY RadiusAssumption DEF IInv, TypeOK, CountCovers, TimerArmed
<1>4. Len(msgs') <= num_msgs' /\ num_msgs' \in 0..MaxEntries
  BY <1>1, <1>2, <1>3
<1>5. msgs' \in Seq(Entry)
  BY <1>1, <1>2 DEF WellFormed
<1>6. TypeOK'
  BY <1>2, <1>4, <1>5 DEF IInv, TypeOK, server
<1> QED
  BY <1>1, <1>2, <1>3, <1>4, <1>6, InvariantAgain DEF server

-----------------------------------------------------------------------------
(***************************************************************************)
(* The timer and the change of server.                                     *)
(***************************************************************************)
LEMMA RetransmittedType ==
  ASSUME NEW e \in Entry
  PROVE  /\ Retransmitted(e).req = e.req /\ Retransmitted(e).secret = e.secret
         /\ Retransmitted(e).attempts < MaxRetries => Retransmitted(e) \in Entry
<1>1. MaxWait \in Nat /\ MaxRetries \in Nat /\ FirstWait \in Nat
  BY RadiusAssumption
<1>2. /\ e.attempts \in 0..(MaxRetries - 1) /\ e.due \in 0..MaxWait
      /\ e.wait \in 1..MaxWait
  BY EntryType
<1>3. CASE e.due > 0
  BY <1>3 DEF Retransmitted
<1>4. CASE ~(e.due > 0)
  <2> DEFINE r == [e EXCEPT !.attempts = @ + 1, !.due = e.wait,
                            !.wait = Lesser(2 * @, MaxWait)]
  <2>1. Retransmitted(e) = r
    BY <1>4 DEF Retransmitted
  <2>2. e.wait \in 0..MaxWait /\ Lesser(2 * e.wait, MaxWait) \in 1..MaxWait
    BY <1>1, <1>2 DEF Lesser
  <2>3. e.attempts + 1 < MaxRetries => e.attempts + 1 \in 0..(MaxRetries - 1)
    BY <1>1, <1>2
  <2>4. r.req = e.req /\ r.secret = e.secret /\ r.attempts = e.attempts + 1
    OBVIOUS
  <2>5. r.attempts < MaxRetries => r \in Entry
    BY <2>2, <2>3, <2>4 DEF Entry
  <2> QED
    BY <2>1, <2>4, <2>5
<1> QED
  BY <1>3, <1>4

LEMMA RestartedType ==
  ASSUME NEW e \in Entry
  PROVE  /\ Restarted(e) \in Entry
         /\ Restarted(e).req = e.req /\ Restarted(e).secret = e.secret
<1>1. e.age \in 0..FirstWait
  BY EntryType
<1>2. /\ 0 \in 0..(MaxRetries - 1) /\ FirstWait - e.age \in 0..MaxWait
      /\ 2 * FirstWait \in 1..MaxWait
  BY <1>1, RadiusAssumption
<1> QED
  BY <1>2 DEF Restarted, Entry

\* The least due time of a list that is not empty.
LEMMA SoonestProperties ==
  ASSUME NEW list \in Seq(Entry)
  PROVE  /\ Soonest(list) \subseteq 0..MaxWait
         /\ list # <<>> => Soonest(list) # {}
<1> DEFINE D == {e.due : e \in Range(list)}
<1>1. \A e \in Range(list) : e \in Entry
  BY DEF Range
<1>2. D \subseteq 0..MaxWait
  BY <1>1, EntryType
<1>3. Soonest(list) \subseteq D
  BY DEF Soonest
<1>4. ASSUME list # <<>>
      PROVE  Soonest(list) # {}
  <2>1. DOMAIN list \in SUBSET DOMAIN list
    OBVIOUS
  <2>2. IsFiniteSet(DOMAIN list)
    BY <2>1, PositionsFinite
  <2>3. D = {list[i].due : i \in DOMAIN list}
    BY DEF Range
  <2>4. IsFiniteSet({list[i].due : i \in DOMAIN list})
    <3> DEFINE f == [i \in DOMAIN list |-> list[i].due]
               I == {list[i].due : i \in DOMAIN list}
    <3>1. f \in Surjection(DOMAIN list, I)
      BY DEF Surjection
    <3> QED
      BY <2>2, <3>1, FS_Surjection
  <2>5. D \in SUBSET Int /\ D # {}
    <3>1. 1 \in DOMAIN list
      BY <1>4
    <3>2. list[1].due \in D
      BY <2>3, <3>1
    <3>3. 0..MaxWait \subseteq Int
      BY RadiusAssumption
    <3> HIDE DEF D
    <3> QED
      BY <1>2, <3>2, <3>3
  <2>6. PICK d \in D : \A x \in D : d <= x
    BY <2>3, <2>4, <2>5, LeastExists
  <2>7. d \in Soonest(list)
    BY <2>6 DEF Soonest
  <2> QED
    BY <2>7
<1> QED
  BY <1>2, <1>3, <1>4

\* What the timer leaves, before it looks for a failover.
LEMMA KeptProperties ==
  ASSUME IInv
  PROVE  /\ WellFormed(Kept, Len(sent), auth_server)
         /\ Len(Kept) \in Nat /\ Len(Kept) <= NumKept
         /\ NumKept \in 0..MaxEntries
         /\ Rearmed \subseteq 0..MaxWait
         /\ Kept # <<>> => Rearmed # {}
<1> DEFINE A == AllRetransmitted
           S == {i \in DOMAIN A : A[i].attempts < MaxRetries}
           R == {Retransmitted(e) : e \in Entry}
           M == At(msgs, S)
<1>1. /\ msgs \in Seq(Entry) /\ Len(msgs) \in Nat /\ auth_server \in Servers
      /\ WellFormed(msgs, Len(sent), auth_server)
      /\ Len(msgs) <= num_msgs /\ num_msgs \in 0..MaxEntries
      /\ timers \subseteq 0..MaxWait /\ MaxEntries \in Nat /\ MaxWait \in Nat
  BY RadiusAssumption DEF IInv, TypeOK, CountCovers
<1>2. /\ A \in Seq(R) /\ DOMAIN A = DOMAIN msgs
      /\ \A i \in DOMAIN msgs : A[i] = Retransmitted(msgs[i])
  BY <1>1 DEF AllRetransmitted
<1>3. S \in SUBSET DOMAIN A /\ S \in SUBSET DOMAIN msgs
      /\ \A i \in S : A[i].attempts < MaxRetries
  BY <1>2
<1>4. Kept = At(A, S)
  BY DEF Kept, Where
<1> HIDE DEF A, S, R
<1>5. /\ WellFormed(M, Len(sent), auth_server)
      /\ DOMAIN M = 1 .. Len(M) /\ Len(M) = Cardinality(S)
      /\ \A i \in DOMAIN M : Nth(S, i) \in S /\ M[i] = msgs[Nth(S, i)]
      /\ Len(M) \in 0 .. Len(msgs)
  BY <1>1, <1>3, SubWellFormed, AtProperties
<1>6. /\ Kept \in Seq(R) /\ Len(Kept) = Cardinality(S)
      /\ DOMAIN Kept = 1 .. Len(Kept)
      /\ \A i \in DOMAIN Kept : Kept[i] = A[Nth(S, i)]
  BY <1>2, <1>3, <1>4, AtProperties
<1>7. DOMAIN Kept = DOMAIN M /\ Len(Kept) = Len(M)
  BY <1>5, <1>6
<1>8. \A i \in DOMAIN M : /\ Kept[i] = Retransmitted(M[i])
                          /\ Kept[i].attempts < MaxRetries
                          /\ M[i] \in Entry
  BY <1>1, <1>2, <1>3, <1>5, <1>6, <1>7
<1> HIDE DEF M
<1>9. \A i \in DOMAIN M : /\ Kept[i] \in Entry
                          /\ Kept[i].req = M[i].req
                          /\ Kept[i].secret = M[i].secret
  BY <1>8, RetransmittedType
<1>10. Kept \in Seq(Entry)
  BY <1>6, <1>7, <1>9
<1>11. WellFormed(Kept, Len(sent), auth_server)
  BY <1>1, <1>5, <1>7, <1>9, <1>10, SameRequests
<1>12. Len(Kept) \in Nat /\ Len(Kept) <= Len(msgs)
  BY <1>1, <1>5, <1>7
<1>13. Len(Kept) <= NumKept /\ NumKept \in 0..MaxEntries
  BY <1>1, <1>12 DEF NumKept
<1>14. /\ Soonest(Kept) \subseteq 0..MaxWait
       /\ Kept # <<>> => Soonest(Kept) # {}
  BY <1>10, SoonestProperties
<1> QED
  BY <1>1, <1>11, <1>12, <1>13, <1>14 DEF Rearmed

LEMMA ChangeServerInv ==
  ASSUME IInv, NEW new \in Servers, NEW list, NEW num, NEW armed,
         WellFormed(list, Len(sent), auth_server), Len(list) \in Nat,
         Len(list) <= num, num \in 0..MaxEntries, armed \subseteq 0..MaxWait,
         Radius_change_server(new, list, num, armed),
         UNCHANGED <<sent, out, stations>>
  PROVE  IInv'
<1>1. /\ FirstWait \in 0..MaxWait /\ 0 \in 0..MaxEntries
  BY RadiusAssumption
<1>2. auth_server' = new /\ peer' = new
  BY DEF Radius_change_server
<1>3. CASE Radius_client_flush
  <2>1. msgs' = <<>> /\ num_msgs' = 0 /\ timers' = {}
    BY <1>3 DEF Radius_client_flush
  <2>2. WellFormed(msgs', Len(sent'), auth_server') /\ Len(msgs') <= num_msgs'
    BY <2>1 DEF WellFormed
  <2>3. TypeOK'
    BY <1>1, <1>2, <2>1 DEF IInv, TypeOK, stations
  <2> QED
    BY <2>1, <2>2, <2>3, InvariantAgain
<1>4. CASE /\ secret[new] = secret[auth_server]
           /\ msgs' = [i \in DOMAIN list |-> Restarted(list[i])]
           /\ num_msgs' = num
           /\ timers' = IF list = <<>> THEN armed ELSE {FirstWait}
  <2>1. list \in Seq(Entry) /\ DOMAIN list = 1 .. Len(list)
    BY DEF WellFormed
  <2>2. \A i \in DOMAIN list : list[i] \in Entry
    BY <2>1
  <2>3. \A i \in DOMAIN list : /\ Restarted(list[i]) \in Entry
                               /\ Restarted(list[i]).req = list[i].req
                               /\ Restarted(list[i]).secret = list[i].secret
    BY <2>2, RestartedType
  <2>4. /\ msgs' \in Seq(Entry) /\ DOMAIN msgs' = DOMAIN list
        /\ Len(msgs') = Len(list)
    BY <1>4, <2>1, <2>3
  <2>5. \A i \in DOMAIN list : /\ msgs'[i].req = list[i].req
                               /\ msgs'[i].secret = list[i].secret
    BY <1>4, <2>3
  <2>6. sent' = sent
    OBVIOUS
  <2>7. WellFormed(msgs', Len(sent'), auth_server')
    BY <1>2, <1>4, <2>4, <2>5, <2>6, SameRequests
  <2>8. timers' \subseteq 0..MaxWait
    BY <1>1, <1>4
  <2>9. msgs' # <<>> => timers' # {}
    BY <1>4, <2>1, <2>4
  <2>10. TypeOK'
    BY <1>2, <1>4, <2>4, <2>8 DEF IInv, TypeOK, stations
  <2> QED
    BY <1>4, <2>4, <2>7, <2>9, <2>10, InvariantAgain
<1> QED
  BY <1>3, <1>4 DEF Radius_change_server

LEMMA TimerInv ==
  ASSUME IInv, Radius_client_timer
  PROVE  IInv'
<1>1. /\ WellFormed(Kept, Len(sent), auth_server)
      /\ Len(Kept) \in Nat /\ Len(Kept) <= NumKept /\ NumKept \in 0..MaxEntries
      /\ Rearmed \subseteq 0..MaxWait
      /\ Kept # <<>> => Rearmed # {}
  BY KeptProperties
<1>2. CASE TimerRetransmits
  <2>1. /\ msgs' = Kept /\ num_msgs' = NumKept /\ timers' = Rearmed
        /\ UNCHANGED <<sent, out, server, stations>>
    BY <1>2 DEF TimerRetransmits
  <2>2. WellFormed(msgs', Len(sent'), auth_server')
    BY <1>1, <2>1 DEF server
  <2>3. msgs' \in Seq(Entry)
    BY <2>2 DEF WellFormed
  <2>4. TypeOK'
    BY <1>1, <2>1, <2>3 DEF IInv, TypeOK, server, stations
  <2> QED
    BY <1>1, <2>1, <2>2, <2>4, InvariantAgain
<1>3. CASE TimerFailsOver
  <2>1. NextServer \in Servers
    BY RadiusAssumption DEF IInv, TypeOK, NextServer, Servers
  <2>2. /\ Radius_change_server(NextServer, Kept, NumKept, Rearmed)
        /\ UNCHANGED <<sent, out, stations>>
    BY <1>3 DEF TimerFailsOver
  <2> QED
    BY <1>1, <2>1, <2>2, ChangeServerInv
<1> QED
  BY <1>2, <1>3 DEF Radius_client_timer

LEMMA RetryPrimaryInv ==
  ASSUME IInv, Radius_retry_primary_timer
  PROVE  IInv'
<1>1. 1 \in Servers
  BY RadiusAssumption DEF Servers
<1>2. /\ WellFormed(msgs, Len(sent), auth_server)
      /\ Len(msgs) \in Nat /\ Len(msgs) <= num_msgs
      /\ num_msgs \in 0..MaxEntries /\ timers \subseteq 0..MaxWait
  BY DEF IInv, TypeOK, CountCovers
<1>3. /\ Radius_change_server(1, msgs, num_msgs, timers)
      /\ UNCHANGED <<sent, out, stations>>
  BY DEF Radius_retry_primary_timer
<1> QED
  BY <1>1, <1>2, <1>3, ChangeServerInv

LEMMA ReloadInv ==
  ASSUME IInv, Handle_usr1
  PROVE  IInv'
<1>1. /\ msgs' = <<>> /\ num_msgs' = 0 /\ timers' = {} /\ auth_server' = 1
      /\ sta_list' = <<>> /\ radius_identifier' = [s \in Stations |-> -1]
      /\ UNCHANGED <<sent, out, peer>>
  BY DEF Handle_usr1, Radius_client_flush
<1>2. 1 \in Servers /\ 0 \in 0..MaxEntries
  BY RadiusAssumption DEF Servers
<1>3. WellFormed(msgs', Len(sent'), auth_server') /\ Len(msgs') <= num_msgs'
  BY <1>1 DEF WellFormed
<1>4. TypeOK'
  BY <1>1, <1>2 DEF IInv, TypeOK
<1> QED
  BY <1>1, <1>3, <1>4, InvariantAgain

LEMMA TickInv ==
  ASSUME IInv, Tick
  PROVE  IInv'
<1> DEFINE aged(e) == [e EXCEPT !.due = IF @ > 0 THEN @ - 1 ELSE 0,
                                !.age = Lesser(@ + 1, FirstWait)]
<1>1. /\ 0 \notin timers /\ timers' = {t - 1 : t \in timers}
      /\ msgs' = [i \in DOMAIN msgs |-> aged(msgs[i])]
      /\ UNCHANGED <<sent, out, num_msgs, server, stations>>
  BY DEF Tick
<1>2. /\ msgs \in Seq(Entry) /\ DOMAIN msgs = 1 .. Len(msgs)
      /\ WellFormed(msgs, Len(sent), auth_server) /\ auth_server \in Servers
      /\ Len(msgs) \in Nat /\ Len(msgs) <= num_msgs
      /\ timers \subseteq 0..MaxWait
      /\ msgs # <<>> => timers # {}
  BY DEF IInv, TypeOK, CountCovers, TimerArmed
<1>3. ASSUME NEW e \in Entry
      PROVE  /\ aged(e) \in Entry
             /\ aged(e).req = e.req /\ aged(e).secret = e.secret
  <2>1. e.due \in 0..MaxWait /\ e.age \in 0..FirstWait
    BY EntryType
  <2>2. /\ (IF e.due > 0 THEN e.due - 1 ELSE 0) \in 0..MaxWait
        /\ Lesser(e.age + 1, FirstWait) \in 0..FirstWait
    BY <2>1, RadiusAssumption DEF Lesser
  <2>3. aged(e).req = e.req /\ aged(e).secret = e.secret
    OBVIOUS
  <2>4. aged(e) \in Entry
    BY <2>2 DEF Entry
  <2> QED
    BY <2>3, <2>4
<1> HIDE DEF aged
<1>4. \A i \in DOMAIN msgs : msgs[i] \in Entry
  BY <1>2
<1>5. \A i \in DOMAIN msgs : /\ aged(msgs[i]) \in Entry
                             /\ aged(msgs[i]).req = msgs[i].req
                             /\ aged(msgs[i]).secret = msgs[i].secret
  BY <1>3, <1>4
<1>6. /\ msgs' \in Seq(Entry) /\ DOMAIN msgs' = DOMAIN msgs
      /\ Len(msgs') = Len(msgs)
  BY <1>1, <1>2, <1>5
<1>7. \A i \in DOMAIN msgs : /\ msgs'[i].req = msgs[i].req
                             /\ msgs'[i].secret = msgs[i].secret
  BY <1>1, <1>5
<1>8. WellFormed(msgs', Len(sent'), auth_server')
  <2>1. sent' = sent /\ auth_server' = auth_server
    BY <1>1 DEF server
  <2> QED
    BY <1>2, <1>6, <1>7, <2>1, SameRequests
<1>9. timers' \subseteq 0..MaxWait /\ (msgs' # <<>> => timers' # {})
  <2>1. timers' \subseteq 0..MaxWait
    BY <1>1, <1>2, RadiusAssumption
  <2>2. timers # {} => timers' # {}
    BY <1>1
  <2>3. msgs' # <<>> => msgs # <<>>
    BY <1>2, <1>6
  <2> QED
    BY <1>2, <2>1, <2>2, <2>3
<1>10. TypeOK'
  BY <1>1, <1>6, <1>9 DEF IInv, TypeOK, server, stations
<1> QED
  BY <1>1, <1>2, <1>6, <1>8, <1>9, <1>10, InvariantAgain

-----------------------------------------------------------------------------
(***************************************************************************)
(* Theorems.                                                               *)
(***************************************************************************)
LEMMA InitInv == Init => IInv
<1> SUFFICES ASSUME Init
             PROVE  IInv
  OBVIOUS
<1>1. 1 \in Servers /\ 0 \in 0..MaxEntries
  BY RadiusAssumption DEF Servers
<1>2. sent = <<>> /\ Len(sent) <= NumRequests
  BY RadiusAssumption DEF Init
<1>3. TypeOK
  BY <1>1, <1>2 DEF Init, TypeOK
<1>4. WellFormed(msgs, Len(sent), auth_server)
  BY DEF Init, WellFormed
<1>5. CountCovers /\ TimerArmed
  BY RadiusAssumption DEF Init, CountCovers, TimerArmed
<1> QED
  BY <1>3, <1>4, <1>5 DEF IInv

\* The invariant is inductive.
THEOREM RadiusInductive == IInv /\ [Next]_vars => IInv'
<1> SUFFICES ASSUME IInv, [Next]_vars
             PROVE  IInv'
  OBVIOUS
<1>1. ASSUME NEW s \in Stations, ieee802_1x_encapsulate_radius(s)
      PROVE  IInv'
  BY <1>1, EncapsulateInv
<1>2. ASSUME NEW s \in Stations, EncapsulateFails(s)
      PROVE  IInv'
  BY <1>2, EncapsulateFailsInv
<1>3. ASSUME NEW n \in out, ReceiveAnswer(n)
      PROVE  IInv'
  <2> DEFINE sta == Head(Holders(Id(n)))
             S == {i \in DOMAIN sta_list : sta_list[i] # sta}
  <2>1. /\ sta_list \in Seq(Stations)
        /\ radius_identifier \in [Stations -> Ids \cup {-1}]
    BY DEF IInv, TypeOK
  <2>2. /\ Unlink(n)
        /\ radius_identifier' = [radius_identifier EXCEPT ![sta] = -1]
        /\ sta_list' = sta_list \/ sta_list' = At(sta_list, S)
    BY <1>3 DEF ReceiveAnswer, Where
  <2>3. S \in SUBSET DOMAIN sta_list
    OBVIOUS
  <2> HIDE DEF S, sta
  <2>4. At(sta_list, S) \in Seq(Stations)
    BY <2>1, <2>3, AtProperties
  <2>5. sta_list' \in Seq(Stations)
    BY <2>1, <2>2, <2>4
  <2>6. radius_identifier' \in [Stations -> Ids \cup {-1}]
    BY <2>1, <2>2
  <2> QED
    BY <2>2, <2>5, <2>6, UnlinkInv
<1>4. ASSUME NEW n \in out, ReceiveUnknown(n)
      PROVE  IInv'
  <2>1. /\ Unlink(n) /\ sta_list' \in Seq(Stations)
        /\ radius_identifier' \in [Stations -> Ids \cup {-1}]
    BY <1>4 DEF ReceiveUnknown, IInv, TypeOK, stations
  <2> QED
    BY <2>1, UnlinkInv
<1>5. CASE Radius_client_timer
  BY <1>5, TimerInv
<1>6. CASE Radius_retry_primary_timer
  BY <1>6, RetryPrimaryInv
<1>7. CASE Handle_usr1
  BY <1>7, ReloadInv
<1>8. CASE Tick
  BY <1>8, TickInv
<1>9. CASE UNCHANGED vars
  BY <1>9 DEF vars, client, server, stations, IInv, TypeOK, TimerArmed, CountCovers
<1> QED
  BY <1>1, <1>2, <1>3, <1>4, <1>5, <1>6, <1>7, <1>8, <1>9 DEF Next

THEOREM RadiusInvariant == SafetySpec => []IInv
  BY InitInv, RadiusInductive, PTL DEF SafetySpec

\* Types, and a count that never wraps below 0.
THEOREM RadiusTypeCorrect == SafetySpec => []TypeOK
<1>1. IInv => TypeOK
  BY DEF IInv
<1> QED
  BY <1>1, RadiusInvariant, PTL

\* A request that waits has a timer, through failovers, flushes and reloads.
THEOREM RequestsAreTimed == SafetySpec => []TimerArmed
<1>1. IInv => TimerArmed
  BY DEF IInv
<1> QED
  BY <1>1, RadiusInvariant, PTL

\* The list never outgrows the count, nor the count the limit.
THEOREM ListIsCounted == SafetySpec => []CountCovers
<1>1. IInv => CountCovers
  BY DEF IInv
<1> QED
  BY <1>1, RadiusInvariant, PTL

\* A reply finds one request at most, however identifiers wrap, and the list is
\* ordered by age: eviction takes the oldest.
THEOREM ListIsInOrder == SafetySpec => []ListInOrder
<1>1. IInv => ListInOrder
  BY DEF IInv, WellFormed, ListInOrder, UniqueIds, OldestLast
<1> QED
  BY <1>1, RadiusInvariant, PTL

-----------------------------------------------------------------------------
(***************************************************************************)
(* The stations and the socket: an identifier a station holds is that of   *)
(* its latest request, whatever has become of that request.                *)
(***************************************************************************)
HoldsLatest ==
  \A s \in Stations : radius_identifier[s] # -1 =>
    \E m \in DOMAIN sent : Latest(s, m) /\ radius_identifier[s] = Id(m)

ServerFollows == peer # auth_server => auth_server = 1

LEMMA TakesIdentifierHolds ==
  ASSUME IInv, HoldsLatest, NEW t \in Stations, TakesIdentifier(t)
  PROVE  HoldsLatest'
<1>0. PICK n \in Nat : n = Len(sent) + 1
  BY DEF IInv, TypeOK
<1>1. /\ sent \in Seq(Stations) /\ Len(sent) \in Nat /\ DOMAIN sent = 1 .. Len(sent)
      /\ sent' = Append(sent, t) /\ DOMAIN sent' = 1 .. n
      /\ sent'[n] = t /\ \A k \in DOMAIN sent : sent'[k] = sent[k]
      /\ radius_identifier' = [radius_identifier EXCEPT ![t] = Id(n)]
      /\ radius_identifier \in [Stations -> Ids \cup {-1}]
  BY <1>0 DEF IInv, TypeOK, TakesIdentifier
<1>2. Latest(t, n)' /\ n \in DOMAIN sent' /\ radius_identifier'[t] = Id(n)
  BY <1>1 DEF Latest
<1>3. ASSUME NEW s \in Stations, s # t, radius_identifier'[s] # -1
      PROVE  \E m \in DOMAIN sent' : Latest(s, m)' /\ radius_identifier'[s] = Id(m)
  <2>1. PICK m \in DOMAIN sent : Latest(s, m) /\ radius_identifier[s] = Id(m)
    BY <1>1, <1>3 DEF HoldsLatest
  <2>2. \A k \in DOMAIN sent' : sent'[k] = s => k \in DOMAIN sent
    BY <1>1, <1>3
  <2>3. m \in DOMAIN sent' /\ Latest(s, m)'
    BY <1>1, <2>1, <2>2 DEF Latest
  <2> QED
    BY <1>1, <1>3, <2>1, <2>3
<1>4. ASSUME NEW s \in Stations, radius_identifier'[s] # -1
      PROVE  \E m \in DOMAIN sent' : Latest(s, m)' /\ radius_identifier'[s] = Id(m)
  BY <1>2, <1>3, <1>4
<1> QED
  BY <1>4 DEF HoldsLatest, Id

\* Any other step sends nothing, and clears identifiers if it touches them.
LEMMA NoneTakenHolds ==
  ASSUME HoldsLatest, sent' = sent,
         \A s \in Stations : radius_identifier'[s] \in {radius_identifier[s], -1}
  PROVE  HoldsLatest'
BY DEF HoldsLatest, Latest, Id

LEMMA HoldsLatestNext ==
  ASSUME IInv, HoldsLatest, [Next]_vars
  PROVE  HoldsLatest'
<1>1. ASSUME NEW s \in Stations, ieee802_1x_encapsulate_radius(s) \/ EncapsulateFails(s)
      PROVE  HoldsLatest'
  BY <1>1, TakesIdentifierHolds DEF ieee802_1x_encapsulate_radius, EncapsulateFails
<1>2. ASSUME NEW n \in out, ReceiveAnswer(n)
      PROVE  HoldsLatest'
  <2> DEFINE sta == Head(Holders(Id(n)))
  <2>1. /\ radius_identifier' = [radius_identifier EXCEPT ![sta] = -1]
        /\ sent' = sent /\ radius_identifier \in [Stations -> Ids \cup {-1}]
    BY <1>2 DEF ReceiveAnswer, Unlink, IInv, TypeOK
  <2> HIDE DEF sta
  <2>2. \A s \in Stations : radius_identifier'[s] \in {radius_identifier[s], -1}
    BY <2>1
  <2> QED
    BY <2>1, <2>2, NoneTakenHolds
<1>3. CASE Handle_usr1
  BY <1>3, NoneTakenHolds DEF Handle_usr1
<1>4. ASSUME NEW n \in out, ReceiveUnknown(n)
      PROVE  HoldsLatest'
  BY <1>4, NoneTakenHolds DEF ReceiveUnknown, Unlink, stations
<1>5. CASE Radius_client_timer \/ Radius_retry_primary_timer \/ Tick \/ UNCHANGED vars
  BY <1>5, NoneTakenHolds
     DEF Radius_client_timer, TimerRetransmits, TimerFailsOver, Radius_retry_primary_timer,
         Tick, vars, stations
<1> QED
  BY <1>1, <1>2, <1>3, <1>4, <1>5 DEF Next

LEMMA ServerFollowsNext ==
  ASSUME ServerFollows, [Next]_vars
  PROVE  ServerFollows'
<1>1. ASSUME NEW s \in Stations, ieee802_1x_encapsulate_radius(s) \/ EncapsulateFails(s)
      PROVE  UNCHANGED server
  BY <1>1 DEF ieee802_1x_encapsulate_radius, EncapsulateFails, TakesIdentifier
<1>2. ASSUME NEW n \in out, ReceiveAnswer(n) \/ ReceiveUnknown(n)
      PROVE  UNCHANGED server
  BY <1>2 DEF ReceiveAnswer, ReceiveUnknown, Unlink
<1>3. CASE TimerRetransmits \/ Tick \/ UNCHANGED vars
  BY <1>3 DEF ServerFollows, TimerRetransmits, Tick, vars, server
<1>4. ASSUME NEW new, NEW list, NEW num, NEW armed, Radius_change_server(new, list, num, armed)
      PROVE  ServerFollows'
  BY <1>4 DEF ServerFollows, Radius_change_server
<1>5. CASE TimerFailsOver \/ Radius_retry_primary_timer
  BY <1>4, <1>5 DEF TimerFailsOver, Radius_retry_primary_timer
<1>6. CASE Handle_usr1
  BY <1>6 DEF ServerFollows, Handle_usr1
<1> QED
  BY <1>1, <1>2, <1>3, <1>5, <1>6 DEF ServerFollows, Next, Radius_client_timer, server

LEMMA StationsInvariant == SafetySpec => [](IInv /\ HoldsLatest /\ ServerFollows)
<1>1. Init => HoldsLatest /\ ServerFollows
  BY DEF Init, HoldsLatest, ServerFollows
<1> QED
  BY <1>1, InitInv, RadiusInductive, HoldsLatestNext, ServerFollowsNext, PTL DEF SafetySpec

\* A station whose latest request waits takes the answer to it and no other.
THEOREM AnswersGoToWaiting == SafetySpec => WaitingTakesItsAnswer
<1>1. ASSUME IInv, HoldsLatest, NEW n \in 1..Len(sent), NEW m \in 1..Len(sent),
             NEW s \in Stations, Takes(s, n), Latest(s, m), InList(m)
      PROVE  n = m
  <2>1. radius_identifier[s] = Id(n) /\ Id(n) # -1
    BY <1>1, RadiusAssumption DEF Takes, Id
  <2>2. PICK k \in DOMAIN sent : Latest(s, k) /\ Id(n) = Id(k)
    BY <1>1, <2>1 DEF HoldsLatest
  <2>3. k = m
    <3>1. k \in Int /\ m \in Int /\ k <= m /\ m <= k
      BY <1>1, <2>2 DEF Latest, IInv, TypeOK
    <3> QED
      BY <3>1
  <2>4. PICK i \in DOMAIN msgs, j \in DOMAIN msgs : msgs[i].req = n /\ msgs[j].req = m
    BY <1>1 DEF Takes, InList, Range
  <2> QED
    BY <1>1, <2>2, <2>3, <2>4 DEF IInv, WellFormed
<1>2. IInv /\ HoldsLatest =>
        \A n, m \in 1..Len(sent), s \in Stations :
          Takes(s, n) /\ Latest(s, m) /\ InList(m) => n = m
  BY <1>1
<1> QED
  BY <1>2, StationsInvariant, PTL DEF WaitingTakesItsAnswer

\* No message waits that the server in use could not check, and the socket leads
\* elsewhere only while a reload is all that chose the server.
THEOREM AllSignedForServer == SafetySpec => []SignedForServer
<1>1. IInv /\ ServerFollows => SignedForServer
  BY DEF IInv, WellFormed, ServerFollows, SignedForServer, Range
<1> QED
  BY <1>1, StationsInvariant, PTL

-----------------------------------------------------------------------------
(***************************************************************************)
(* How long a request may stay on the list.                                *)
(***************************************************************************)
LEMMA NextCallProperties ==
  ASSUME NEW T \in SUBSET (0..MaxWait), T # {}
  PROVE  /\ NextCall(T) \in T /\ NextCall(T) \in 0..MaxWait
         /\ \A t \in T : NextCall(T) <= t
<1>1. MaxWait \in Nat
  BY RadiusAssumption
<1>2. IsFiniteSet(T)
  <2>1. IsFiniteSet(0..MaxWait)
    BY <1>1, FS_Interval
  <2> QED
    BY <2>1, FS_Subset
<1>3. \E t \in T : \A u \in T : t <= u
  BY <1>1, <1>2, LeastExists
<1>4. Min(T) \in T /\ \A u \in T : Min(T) <= u
  BY <1>3 DEF Min
<1> QED
  BY <1>4 DEF NextCall

LEMMA ProductRange ==
  ASSUME NEW a \in Nat, NEW b \in Nat, NEW m \in Nat, a <= b
  PROVE  a * m \in Nat /\ a * m <= b * m
<1>1. a * m \in Nat /\ (b - a) * m \in Nat
  OBVIOUS
<1>2. b * m = a * m + (b - a) * m
  OBVIOUS
<1> QED
  BY <1>1, <1>2

\* The seconds that are left lie in 0..MaxRetries * MaxWait.
LEMMA TimeLeftRange ==
  ASSUME NEW e \in Entry, NEW T \in SUBSET (0..MaxWait), T # {}
  PROVE  TimeLeft(e, T) \in 0..(MaxRetries * MaxWait)
<1> DEFINE a == MaxRetries - 1 - e.attempts
           w == IF e.due < NextCall(T) THEN NextCall(T) ELSE e.due
<1>1. MaxWait \in Nat /\ MaxRetries \in Nat /\ MaxRetries > 1
  BY RadiusAssumption
<1>2. e.attempts \in 0..(MaxRetries - 1) /\ e.due \in 0..MaxWait
  BY EntryType
<1>3. w \in 0..MaxWait
  BY <1>2, NextCallProperties
<1>4. a \in Nat /\ a <= MaxRetries - 1 /\ MaxRetries - 1 \in Nat
  BY <1>1, <1>2
<1>5. TimeLeft(e, T) = a * MaxWait + w
  BY DEF TimeLeft
<1> HIDE DEF a, w
<1>6. a * MaxWait \in Nat /\ a * MaxWait <= (MaxRetries - 1) * MaxWait
  BY <1>1, <1>4, ProductRange
<1>7. (MaxRetries - 1) * MaxWait + MaxWait = MaxRetries * MaxWait
      /\ (MaxRetries - 1) * MaxWait \in Int
  BY <1>1
<1>8. MaxRetries * MaxWait \in Int
  BY <1>1
<1> QED
  BY <1>1, <1>3, <1>5, <1>6, <1>7, <1>8

\* Time is left by the next call and the attempts alone.
LEMMA TimeLeftSame ==
  ASSUME NEW e \in Entry, NEW T \in SUBSET (0..MaxWait), T # {}
  PROVE  TimeLeft(e, T) <= TimeLeft(e, T)
<1>1. TimeLeft(e, T) \in Int
  BY TimeLeftRange, RadiusAssumption
<1> QED
  BY <1>1

\* What the timer makes of an entry, when its next call comes in time for it.
LEMMA RetransmittedInTime ==
  ASSUME NEW e \in Entry, Retransmitted(e) \in Entry,
         NEW T \in SUBSET (0..MaxWait), 0 \in T,
         NEW U \in SUBSET (0..MaxWait), NEW t \in U, t <= Retransmitted(e).due
  PROVE  TimeLeft(Retransmitted(e), U) <= TimeLeft(e, T)
<1> DEFINE f == Retransmitted(e)
           a == MaxRetries - 1 - e.attempts
<1>1. MaxWait \in Nat /\ MaxRetries \in Nat
  BY RadiusAssumption
<1>2. /\ e.attempts \in 0..(MaxRetries - 1) /\ e.due \in 0..MaxWait
      /\ e.wait \in 1..MaxWait
  BY EntryType
<1>3. TimeLeft(e, T) = a * MaxWait + e.due
  <2>1. NextCall(T) \in 0..MaxWait /\ NextCall(T) <= 0
    BY NextCallProperties
  <2>2. ~(e.due < NextCall(T))
    BY <1>2, <2>1
  <2> QED
    BY <2>2 DEF TimeLeft
<1>4. TimeLeft(f, U) = (MaxRetries - 1 - f.attempts) * MaxWait + f.due
  <2>1. NextCall(U) \in 0..MaxWait /\ NextCall(U) <= t /\ t \in 0..MaxWait
    BY NextCallProperties
  <2>2. f.due \in 0..MaxWait
    BY EntryType
  <2>3. ~(f.due < NextCall(U))
    BY <2>1, <2>2
  <2> QED
    BY <2>3 DEF TimeLeft
<1>5. a \in Int /\ a * MaxWait \in Int
  BY <1>1, <1>2
<1>6. CASE e.due > 0
  <2>1. f = e
    BY <1>6 DEF Retransmitted
  <2> QED
    BY <1>2, <1>3, <1>4, <1>5, <2>1
<1>7. CASE ~(e.due > 0)
  <2>1. f.attempts = e.attempts + 1 /\ f.due = e.wait
    BY <1>7 DEF Retransmitted, Entry
  <2>2. MaxRetries - 1 - f.attempts = a - 1
    BY <1>1, <1>2, <2>1
  <2>3. TimeLeft(f, U) = (a - 1) * MaxWait + e.wait
    BY <1>4, <2>1, <2>2
  <2> HIDE DEF a, f
  <2>4. (a - 1) * MaxWait = a * MaxWait - MaxWait
    BY <1>1, <1>5
  <2>5. e.due = 0
    BY <1>2, <1>7
  <2> QED
    BY <1>1, <1>2, <1>3, <1>5, <2>3, <2>4, <2>5 DEF f
<1> QED
  BY <1>6, <1>7

\* What unlinking leaves was on the list.
LEMMA WhereRange ==
  ASSUME NEW list \in Seq(Entry), NEW S \in SUBSET DOMAIN list
  PROVE  Range(At(list, S)) \subseteq Range(list)
<1>1. \A i \in DOMAIN At(list, S) : Nth(S, i) \in S /\ At(list, S)[i] = list[Nth(S, i)]
  BY AtProperties
<1> QED
  BY <1>1 DEF Range

LEMMA DroppedRange ==
  ASSUME IInv, NEW id
  PROVE  Range(Radius_client_get_id(id)) \subseteq Range(msgs)
<1>1. msgs \in Seq(Entry)
  BY DEF IInv, TypeOK
<1> QED
  BY <1>1, WhereRange DEF Radius_client_get_id, Where

\* What the timer keeps was on the list before its retransmission.
LEMMA KeptRange ==
  ASSUME IInv, NEW f \in Range(Kept)
  PROVE  \E e \in Range(msgs) : f = Retransmitted(e)
<1> DEFINE A == AllRetransmitted
           S == {i \in DOMAIN A : A[i].attempts < MaxRetries}
           R == {Retransmitted(e) : e \in Entry}
<1>1. msgs \in Seq(Entry)
  BY DEF IInv, TypeOK
<1>2. /\ A \in Seq(R) /\ DOMAIN A = DOMAIN msgs
      /\ \A i \in DOMAIN msgs : A[i] = Retransmitted(msgs[i])
  BY <1>1 DEF AllRetransmitted
<1>3. S \in SUBSET DOMAIN A
  OBVIOUS
<1>4. Kept = At(A, S)
  BY DEF Kept, Where
<1> HIDE DEF A, S, R
<1>5. \A i \in DOMAIN Kept : Nth(S, i) \in S /\ Kept[i] = A[Nth(S, i)]
  BY <1>2, <1>3, <1>4, AtProperties
<1>6. PICK i \in DOMAIN Kept : f = Kept[i]
  BY DEF Range
<1>7. Nth(S, i) \in DOMAIN msgs /\ f = Retransmitted(msgs[Nth(S, i)])
  BY <1>2, <1>3, <1>5, <1>6
<1> QED
  BY <1>7 DEF Range

\* A request has one entry.
LEMMA OneEntry ==
  ASSUME IInv, NEW d \in Range(msgs), NEW e \in Range(msgs), d.req = e.req
  PROVE  d = e /\ e \in Entry /\ msgs # <<>>
<1>1. PICK i \in DOMAIN msgs, j \in DOMAIN msgs : d = msgs[i] /\ e = msgs[j]
  BY DEF Range
<1>2. i = j
  BY <1>1 DEF IInv, WellFormed
<1> QED
  BY <1>1, <1>2 DEF IInv, TypeOK

\* The calls that are registered, before and after a step.
LEMMA CallsType ==
  ASSUME IInv, NEW e \in Range(msgs)
  PROVE  /\ timers \in SUBSET (0..MaxWait) /\ timers # {}
         /\ e \in Entry /\ msgs # <<>>
  BY OneEntry DEF IInv, TypeOK, TimerArmed

\* A step that leaves the calls and this entry as they were.
LEMMA EntryKept ==
  ASSUME IInv, NEW e \in Range(msgs), NEW f \in Range(msgs), e.req = f.req,
         timers' = timers
  PROVE  TimeLeft(f, timers') <= TimeLeft(e, timers)
  BY OneEntry, CallsType, TimeLeftSame

\* A new request is put in front of the old ones.
LEMMA EncapsulateInTime ==
  ASSUME IInv, NEW s \in Stations, ieee802_1x_encapsulate_radius(s),
         NEW e \in Range(msgs), NEW f \in Range(msgs'), e.req = f.req
  PROVE  TimeLeft(f, timers') <= TimeLeft(e, timers)
<1> DEFINE n == Len(sent) + 1
           L == Radius_client_get_id(Id(n))
           new == NewEntry(n)
<1>1. /\ timers' = IF L = <<>> THEN timers \cup {FirstWait} ELSE timers
      /\ \/ msgs' = <<new>> \o L
         \/ msgs' = IF L = <<>> THEN <<new>> ELSE <<new>> \o Front(L)
  BY DEF ieee802_1x_encapsulate_radius, Radius_client_list_add
<1>2. Range(L) \subseteq Range(msgs) /\ L \in Seq(Entry) /\ Len(L) \in Nat
  BY DroppedRange, Dropped DEF WellFormed
<1>3. new.req = Len(sent) + 1 /\ Len(sent) \in Nat
  BY DEF NewEntry, IInv, TypeOK
<1>4. e.req <= Len(sent) /\ e.req \in Int
  <2>1. PICK i \in DOMAIN msgs : e = msgs[i]
    BY DEF Range
  <2> QED
    BY <2>1, CallsType, EntryType DEF IInv, WellFormed
<1> HIDE DEF L, new
<1>5. f # new
  BY <1>3, <1>4
<1>6. PICK i \in DOMAIN msgs' : f = msgs'[i]
  BY DEF Range
<1>7. L # <<>> /\ f \in Range(L)
  <2>1. CASE L = <<>>
    <3>1. msgs' = <<new>>
      BY <1>1, <2>1
    <3> QED
      BY <1>5, <1>6, <3>1
  <2>2. CASE L # <<>> /\ msgs' = <<new>> \o L
    <3>1. i # 1 => i - 1 \in DOMAIN L /\ f = L[i - 1]
      BY <1>2, <1>6, <2>2
    <3>2. i = 1 => f = new
      BY <1>2, <1>6, <2>2
    <3> QED
      BY <1>5, <2>2, <3>1, <3>2 DEF Range
  <2>3. CASE L # <<>> /\ msgs' = <<new>> \o Front(L)
    <3>1. /\ Front(L) \in Seq(Entry) /\ Len(Front(L)) = Len(L) - 1
          /\ \A j \in 1..(Len(L) - 1) : Front(L)[j] = L[j]
      BY <1>2, <2>3 DEF Front
    <3>2. i # 1 => i - 1 \in 1..(Len(L) - 1) /\ f = Front(L)[i - 1]
      BY <1>2, <1>6, <2>3, <3>1
    <3>3. i = 1 => f = new
      BY <1>2, <1>6, <2>3, <3>1
    <3>4. i - 1 \in DOMAIN L /\ f = L[i - 1]
      BY <1>2, <1>5, <3>1, <3>2, <3>3
    <3> QED
      BY <2>3, <3>4 DEF Range
  <2> QED
    BY <1>1, <2>1, <2>2, <2>3
<1>8. timers' = timers
  BY <1>1, <1>7
<1> QED
  BY <1>2, <1>7, <1>8, EntryKept

\* The timer retransmits and comes back for the first that is due.
LEMMA TimerInTime ==
  ASSUME IInv, IInv', TimerRetransmits,
         NEW e \in Range(msgs), NEW f \in Range(msgs'), e.req = f.req
  PROVE  TimeLeft(f, timers') <= TimeLeft(e, timers)
<1>1. 0 \in timers /\ msgs' = Kept /\ timers' = Rearmed
  BY DEF TimerRetransmits
<1>2. PICK d \in Range(msgs) : f = Retransmitted(d)
  BY <1>1, KeptRange
<1>3. e \in Entry /\ d \in Entry /\ timers \in SUBSET (0..MaxWait)
  BY CallsType
<1>4. d = e
  BY <1>2, <1>3, RetransmittedType, OneEntry
<1>5. Kept \in Seq(Entry) /\ Kept # <<>> /\ f \in Entry
  BY <1>1, KeptProperties DEF WellFormed, Range
<1>6. PICK t \in Soonest(Kept) : TRUE
  BY <1>5, SoonestProperties
<1>7. t \in timers' /\ timers' \in SUBSET (0..MaxWait) /\ t <= f.due
  BY <1>1, <1>6, KeptProperties DEF Rearmed, Soonest
<1> QED
  BY <1>1, <1>2, <1>3, <1>4, <1>5, <1>7, RetransmittedInTime

\* A second passes for the entries and for the registered calls.
LEMMA TickInTime ==
  ASSUME IInv, IInv', Tick,
         NEW e \in Range(msgs), NEW f \in Range(msgs'), e.req = f.req
  PROVE  TimeLeft(f, timers') <= TimeLeft(e, timers) - 1
<1> DEFINE aged(d) == [d EXCEPT !.due = IF @ > 0 THEN @ - 1 ELSE 0,
                                !.age = Lesser(@ + 1, FirstWait)]
           a == MaxRetries - 1 - e.attempts
<1>1. /\ 0 \notin timers /\ timers' = {t - 1 : t \in timers}
      /\ msgs' = [i \in DOMAIN msgs |-> aged(msgs[i])]
  BY DEF Tick
<1>2. MaxWait \in Nat /\ MaxRetries \in Nat
  BY RadiusAssumption
<1>3. /\ timers \in SUBSET (0..MaxWait) /\ timers # {} /\ e \in Entry
      /\ timers' \in SUBSET (0..MaxWait) /\ timers' # {}
  BY <1>1, CallsType DEF IInv, TypeOK
<1>4. PICK i \in DOMAIN msgs : f = aged(msgs[i])
  BY <1>1 DEF Range
<1>5. msgs[i] \in Range(msgs) /\ msgs[i] \in Entry
  BY CallsType DEF Range
<1>6. aged(msgs[i]).req = msgs[i].req
  OBVIOUS
<1>7. f = aged(e)
  BY <1>4, <1>5, <1>6, OneEntry
<1>8. /\ f.attempts = e.attempts
      /\ f.due = IF e.due > 0 THEN e.due - 1 ELSE 0
  BY <1>3, <1>7 DEF Entry
<1> HIDE DEF aged
<1>9. NextCall(timers') = NextCall(timers) - 1 /\ NextCall(timers) >= 1
      /\ NextCall(timers) \in Int
  <2>1. /\ NextCall(timers) \in timers /\ NextCall(timers) \in 0..MaxWait
        /\ \A t \in timers : NextCall(timers) <= t
    BY <1>3, NextCallProperties
  <2>2. /\ NextCall(timers') \in timers' /\ NextCall(timers') \in 0..MaxWait
        /\ \A t \in timers' : NextCall(timers') <= t
    BY <1>3, NextCallProperties
  <2>3. PICK t \in timers : NextCall(timers') = t - 1
    BY <1>1, <2>2
  <2>4. NextCall(timers) - 1 \in timers'
    BY <1>1, <2>1
  <2>5. NextCall(timers') <= NextCall(timers) - 1
    BY <2>2, <2>4
  <2>6. t \in 0..MaxWait /\ NextCall(timers) <= t
    BY <1>3, <2>1
  <2>7. NextCall(timers) # 0
    BY <1>1, <2>1
  <2> QED
    BY <1>2, <2>1, <2>3, <2>5, <2>6, <2>7
<1>10. e.due \in 0..MaxWait /\ e.attempts \in 0..(MaxRetries - 1)
  BY <1>3, EntryType
<1>11. /\ TimeLeft(e, timers) =
            a * MaxWait + (IF e.due < NextCall(timers) THEN NextCall(timers) ELSE e.due)
       /\ TimeLeft(f, timers') =
            a * MaxWait + (IF f.due < NextCall(timers') THEN NextCall(timers') ELSE f.due)
  BY <1>8 DEF TimeLeft
<1>12. a * MaxWait \in Int
  BY <1>2, <1>10
<1> HIDE DEF a
<1> QED
  BY <1>2, <1>8, <1>9, <1>10, <1>11, <1>12

\* One step for each action; one that changes the server starts afresh.
LEMMA NoStepDelays ==
  ASSUME IInv, IInv', [Next]_vars, auth_server' = auth_server, ~Tick,
         NEW e \in Range(msgs), NEW f \in Range(msgs'), e.req = f.req
  PROVE  TimeLeft(f, timers') <= TimeLeft(e, timers)
<1>1. msgs \in Seq(Entry)
  BY DEF IInv, TypeOK
<1>2. ASSUME NEW n \in out, Unlink(n)
      PROVE  TimeLeft(f, timers') <= TimeLeft(e, timers)
  <2>1. Range(msgs') \subseteq Range(msgs) /\ timers' = timers
    BY <1>1, <1>2, WhereRange DEF Unlink, Where
  <2> QED
    BY <2>1, EntryKept
<1>3. ASSUME NEW s \in Stations, EncapsulateFails(s)
      PROVE  TimeLeft(f, timers') <= TimeLeft(e, timers)
  <2>1. Range(msgs') \subseteq Range(msgs) /\ timers' = timers
    BY <1>3, DroppedRange DEF EncapsulateFails
  <2> QED
    BY <2>1, EntryKept
<1>4. ~TimerFailsOver
  <2>1. ASSUME Len(secret) > 1
        PROVE  NextServer # auth_server
    BY <2>1, RadiusAssumption DEF NextServer, IInv, TypeOK, Servers
  <2> QED
    BY <2>1 DEF TimerFailsOver, Radius_change_server
<1>5. ~Radius_retry_primary_timer
  BY DEF Radius_retry_primary_timer, Radius_change_server
<1>6. ~Handle_usr1
  BY DEF Handle_usr1, Radius_client_flush, Range
<1>7. CASE UNCHANGED vars
  BY <1>7, EntryKept DEF vars, client
<1> QED
  BY <1>2, <1>3, <1>4, <1>5, <1>6, <1>7, EncapsulateInTime, TimerInTime
     DEF Next, ReceiveAnswer, ReceiveUnknown, Radius_client_timer

\* A request leaves the list after MaxRetries * MaxWait seconds at most, unless
\* the server is changed: every second counts, and no step gives one back.
THEOREM RequestsAreGivenUp == SafetySpec => GivenUpInTime
<1> DEFINE A == \A e \in Range(msgs), f \in Range(msgs') :
                  e.req = f.req /\ auth_server' = auth_server =>
                    /\ TimeLeft(e, timers) \in 0..(MaxRetries * MaxWait)
                    /\ TimeLeft(f, timers')
                         <= TimeLeft(e, timers) - (IF Tick THEN 1 ELSE 0)
<1>1. ASSUME IInv, IInv', [Next]_vars
      PROVE  A
  <2> SUFFICES ASSUME NEW e \in Range(msgs), NEW f \in Range(msgs'), e.req = f.req,
                      auth_server' = auth_server
               PROVE  /\ TimeLeft(e, timers) \in 0..(MaxRetries * MaxWait)
                      /\ TimeLeft(f, timers')
                           <= TimeLeft(e, timers) - (IF Tick THEN 1 ELSE 0)
    OBVIOUS
  <2>1. TimeLeft(e, timers) \in 0..(MaxRetries * MaxWait)
    BY <1>1, CallsType, TimeLeftRange
  <2>2. TimeLeft(e, timers) \in Int
    BY <2>1, RadiusAssumption
  <2>3. CASE Tick
    BY <1>1, <2>1, <2>3, TickInTime
  <2>4. CASE ~Tick
    <3>1. TimeLeft(f, timers') <= TimeLeft(e, timers)
      BY <1>1, <2>4, NoStepDelays
    <3>2. TimeLeft(e, timers) - 0 = TimeLeft(e, timers)
      BY <2>2
    <3> QED
      BY <2>1, <2>4, <3>1, <3>2
  <2> QED
    BY <2>3, <2>4
<1>2. IInv /\ IInv' /\ [Next]_vars => [A]_vars
  BY <1>1
<1> QED
  BY <1>2, RadiusInvariant, PTL DEF SafetySpec, GivenUpInTime
=============================================================================
