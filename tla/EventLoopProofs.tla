--------------------------- MODULE EventLoopProofs ---------------------------
(***************************************************************************)
(* Proofs about EventLoop for every set of addresses, every hash, every    *)
(* size of the table and every width of time_t.                            *)
(***************************************************************************)
EXTENDS EventLoop, SubsequenceProofs

\* A list of timeouts that is ordered and has no handler registered twice for
\* a station, and a tick for the stations of St and no other.
Sane(list, St) ==
  /\ list \in Seq(Timeout)
  /\ \A i, j \in DOMAIN list : i < j => list[i].due <= list[j].due
  /\ \A i, j \in DOMAIN list :
       list[i].handler = list[j].handler /\ list[i].sta = list[j].sta => i = j
  /\ \A i \in DOMAIN list :
       list[i].handler = "eapol_port_timers_tick" => list[i].sta \in St
  /\ \A m \in St : \E i \in DOMAIN list :
       list[i].handler = "eapol_port_timers_tick" /\ list[i].sta = m

\* No station is in the table twice.
InTableOnce ==
  \A i, j \in DOMAIN sta_list : sta_list[i] = sta_list[j] => i = j

IInv == TypeOK /\ Sane(timeout, Stations) /\ InTableOnce /\ TableAgrees

Without(h, S, St) == IF h = "eapol_port_timers_tick" THEN St \ S ELSE St
With(h, m, St) == IF h = "eapol_port_timers_tick" THEN St \cup {m} ELSE St

-----------------------------------------------------------------------------
(***************************************************************************)
(* The list of timeouts.                                                   *)
(***************************************************************************)
LEMMA TimeoutType ==
  ASSUME NEW t \in Timeout
  PROVE  /\ t.handler \in {"eapol_port_timers_tick", "Ap_handle_session_timer"}
         /\ t.sta \in Mem /\ t.due \in Int
  BY DEF Timeout

\* Unlinking the timeouts of some stations.
LEMMA CancelledSane ==
  ASSUME NEW St, NEW list, Sane(list, St), NEW h, NEW S
  PROVE  LET L == Cancelled(list, h, S) IN
           /\ Sane(L, Without(h, S, St))
           /\ \A i \in DOMAIN L : ~(L[i].handler = h /\ L[i].sta \in S)
<1> DEFINE P == {i \in DOMAIN list : ~(list[i].handler = h /\ list[i].sta \in S)}
           L == At(list, P)
<1>1. Cancelled(list, h, S) = L
  BY DEF Cancelled, Where
<1>2. /\ P \in SUBSET DOMAIN list
      /\ \A i \in P : ~(list[i].handler = h /\ list[i].sta \in S)
      /\ \A i \in DOMAIN list :
           ~(list[i].handler = h /\ list[i].sta \in S) => i \in P
  OBVIOUS
<1>3. list \in Seq(Timeout) /\ DOMAIN list = 1 .. Len(list)
  BY DEF Sane
<1> HIDE DEF P
<1>4. /\ L \in Seq(Timeout) /\ DOMAIN L = 1 .. Len(L)
      /\ \A i \in DOMAIN L : Nth(P, i) \in P /\ L[i] = list[Nth(P, i)]
      /\ \A i, j \in DOMAIN L : i < j => Nth(P, i) < Nth(P, j)
      /\ \A p \in P : \E i \in DOMAIN L : Nth(P, i) = p
  BY <1>2, <1>3, AtProperties
<1> HIDE DEF L
<1>5. \A i \in DOMAIN L : Nth(P, i) \in DOMAIN list /\ Nth(P, i) \in Int
  BY <1>2, <1>3, <1>4
<1>6. \A i, j \in DOMAIN L : Nth(P, i) = Nth(P, j) => i = j
  <2>1. \A i, j \in DOMAIN L : i = j \/ i < j \/ j < i
    BY <1>4
  <2> QED
    BY <1>4, <1>5, <2>1
<1>7. \A i \in DOMAIN L : ~(L[i].handler = h /\ L[i].sta \in S)
  BY <1>2, <1>4
<1>8. \A i, j \in DOMAIN L : i < j => L[i].due <= L[j].due
  BY <1>4, <1>5 DEF Sane
<1>9. \A i, j \in DOMAIN L :
        L[i].handler = L[j].handler /\ L[i].sta = L[j].sta => i = j
  BY <1>4, <1>5, <1>6 DEF Sane
<1>10. \A i \in DOMAIN L :
         L[i].handler = "eapol_port_timers_tick" => L[i].sta \in Without(h, S, St)
  BY <1>4, <1>5, <1>7 DEF Sane, Without
<1>11. ASSUME NEW m \in Without(h, S, St)
       PROVE  \E i \in DOMAIN L :
                L[i].handler = "eapol_port_timers_tick" /\ L[i].sta = m
  <2>1. m \in St /\ ~("eapol_port_timers_tick" = h /\ m \in S)
    BY <1>11 DEF Without
  <2>2. PICK p \in DOMAIN list :
          list[p].handler = "eapol_port_timers_tick" /\ list[p].sta = m
    BY <2>1 DEF Sane
  <2>3. p \in P
    BY <1>2, <2>1, <2>2
  <2> QED
    BY <1>4, <2>2, <2>3
<1> QED
  BY <1>1, <1>4, <1>7, <1>8, <1>9, <1>10, <1>11 DEF Sane

\* The place of a new timeout: behind all that are not due later.
LEMMA RegisteredAt ==
  ASSUME NEW list \in Seq(Timeout), NEW t \in Timeout
  PROVE  LET R == Registered(list, t) IN
           /\ R \in Seq(Timeout) /\ Len(R) = Len(list) + 1
           /\ DOMAIN R = 1 .. (Len(list) + 1)
           /\ \E k \in DOMAIN R :
                /\ R[k] = t
                /\ \A i \in DOMAIN R : i < k => R[i] = list[i]
                /\ \A i \in DOMAIN R : i > k => R[i] = list[i - 1]
                /\ \A i \in DOMAIN list : i < k => ~(t.due < list[i].due)
                /\ k \in DOMAIN list => t.due < list[k].due
<1> DEFINE R == Registered(list, t)
           later == {i \in DOMAIN list : t.due < list[i].due}
<1>1. DOMAIN list = 1 .. Len(list) /\ Len(list) \in Nat
  OBVIOUS
<1>2. CASE later = {}
  <2>1. R = Append(list, t)
    BY <1>2 DEF Registered
  <2>2. /\ R \in Seq(Timeout) /\ Len(R) = Len(list) + 1
        /\ DOMAIN R = 1 .. (Len(list) + 1)
        /\ R[Len(list) + 1] = t
        /\ \A i \in 1 .. Len(list) : R[i] = list[i]
    BY <2>1
  <2> HIDE DEF R
  <2>3. Len(list) + 1 \in DOMAIN R
    BY <1>1, <2>2
  <2>4. \A i \in DOMAIN R : i < Len(list) + 1 => R[i] = list[i]
    BY <1>1, <2>2
  <2>5. \A i \in DOMAIN R : ~(i > Len(list) + 1)
    BY <1>1, <2>2
  <2>6. Len(list) + 1 \notin DOMAIN list
    BY <1>1
  <2> QED
    BY <1>2, <2>2, <2>3, <2>4, <2>5, <2>6 DEF R
<1>3. CASE later # {}
  <2> DEFINE k == Min(later)
  <2>1. later \in SUBSET Int /\ later \in SUBSET DOMAIN list
    BY <1>1
  <2>2. \E p \in later : \A q \in later : p <= q
    BY <1>3, <2>1, PositionsFinite, LeastExists
  <2>3. k \in later /\ \A q \in later : k <= q
    BY <2>2 DEF Min
  <2>4. R = SubSeq(list, 1, k - 1) \o <<t>> \o SubSeq(list, k, Len(list))
    BY <1>3 DEF Registered, InsertAt
  <2> HIDE DEF k, R
  <2>5. /\ k \in 1 .. Len(list) /\ t.due < list[k].due
        /\ \A i \in DOMAIN list : t.due < list[i].due => k <= i
    BY <1>1, <2>3
  <2> HIDE DEF later
  <2> DEFINE A == SubSeq(list, 1, k - 1)
             B == SubSeq(list, k, Len(list))
  <2>6. /\ A \in Seq(Timeout) /\ Len(A) = k - 1
        /\ \A i \in 1 .. (k - 1) : A[i] = list[i]
    BY <1>1, <2>5
  <2>7. /\ B \in Seq(Timeout) /\ Len(B) = Len(list) - k + 1
        /\ \A i \in 1 .. (Len(list) - k + 1) : B[i] = list[k + i - 1]
    BY <1>1, <2>5
  <2> HIDE DEF A, B
  <2>8. /\ R \in Seq(Timeout) /\ Len(R) = Len(list) + 1
        /\ DOMAIN R = 1 .. (Len(list) + 1)
    <3>1. R = (A \o <<t>>) \o B
      BY <2>4 DEF A, B
    <3>2. <<t>> \in Seq(Timeout) /\ Len(<<t>>) = 1
      OBVIOUS
    <3>3. A \o <<t>> \in Seq(Timeout) /\ Len(A \o <<t>>) = k
      BY <2>5, <2>6, <3>2
    <3>4. R \in Seq(Timeout) /\ Len(R) = k + (Len(list) - k + 1)
      BY <2>7, <3>1, <3>3
    <3> QED
      BY <1>1, <2>5, <3>4
  <2>9. R[k] = t
    BY <1>1, <2>4, <2>5, <2>6, <2>7
  <2>10. \A i \in 1 .. (Len(list) + 1) : i < k => R[i] = list[i]
    BY <1>1, <2>4, <2>5, <2>6, <2>7
  <2>11. \A i \in 1 .. (Len(list) + 1) : i > k => R[i] = list[i - 1]
    BY <1>1, <2>4, <2>5, <2>6, <2>7 DEF A
  <2>12. \A i \in DOMAIN list : i < k => ~(t.due < list[i].due)
    BY <1>1, <2>5
  <2>13. k \in 1 .. (Len(list) + 1)
    BY <1>1, <2>5
  <2> QED
    BY <2>5, <2>8, <2>9, <2>10, <2>11, <2>12, <2>13 DEF R
<1> QED
  BY <1>2, <1>3

\* Registering a timeout that is not registered.
LEMMA RegisteredSane ==
  ASSUME NEW St, NEW list, Sane(list, St), NEW t \in Timeout,
         \A i \in DOMAIN list : ~(list[i].handler = t.handler /\ list[i].sta = t.sta)
  PROVE  Sane(Registered(list, t), With(t.handler, t.sta, St))
<1> DEFINE R == Registered(list, t)
<1>1. list \in Seq(Timeout) /\ DOMAIN list = 1 .. Len(list) /\ Len(list) \in Nat
  BY DEF Sane
<1>2. /\ R \in Seq(Timeout) /\ Len(R) = Len(list) + 1
      /\ DOMAIN R = 1 .. (Len(list) + 1)
  BY <1>1, RegisteredAt
<1>3. PICK k \in DOMAIN R :
        /\ R[k] = t
        /\ \A i \in DOMAIN R : i < k => R[i] = list[i]
        /\ \A i \in DOMAIN R : i > k => R[i] = list[i - 1]
        /\ \A i \in DOMAIN list : i < k => ~(t.due < list[i].due)
        /\ k \in DOMAIN list => t.due < list[k].due
  BY <1>1, RegisteredAt
<1> HIDE DEF R
<1> DEFINE old(i) == IF i < k THEN i ELSE i - 1
<1>4. k \in Int /\ \A i \in DOMAIN R : i \in Int
  BY <1>2
<1>5. ASSUME NEW i \in DOMAIN R, i # k
      PROVE  old(i) \in DOMAIN list /\ R[i] = list[old(i)]
  <2>1. CASE i < k
    BY <1>1, <1>2, <1>3, <2>1
  <2>2. CASE i > k
    BY <1>1, <1>2, <1>3, <2>2
  <2> QED
    BY <1>4, <1>5, <2>1, <2>2
<1>6. ASSUME NEW i \in DOMAIN R, NEW j \in DOMAIN R, i # k, j # k
      PROVE  (i < j => old(i) < old(j)) /\ (old(i) = old(j) => i = j)
  BY <1>4, <1>6
<1>7. \A i \in DOMAIN list : list[i] \in Timeout /\ list[i].due \in Int
  BY <1>1, TimeoutType
<1>8. t.due \in Int
  BY TimeoutType
<1>9. ASSUME NEW i \in DOMAIN R, NEW j \in DOMAIN R, i < j
      PROVE  R[i].due <= R[j].due
  <2>1. CASE i # k /\ j # k
    <3>1. old(i) \in DOMAIN list /\ old(j) \in DOMAIN list /\ old(i) < old(j)
      BY <1>5, <1>6, <1>9, <2>1
    <3>2. R[i] = list[old(i)] /\ R[j] = list[old(j)]
      BY <1>5, <2>1
    <3> HIDE DEF old
    <3> QED
      BY <3>1, <3>2 DEF Sane
  <2>2. CASE i = k
    <3>1. j > k /\ j # k
      BY <1>4, <1>9, <2>2
    <3>2. R[j] = list[j - 1] /\ j - 1 \in DOMAIN list /\ k <= j - 1
      BY <1>3, <1>4, <1>5, <3>1
    <3>3. k \in DOMAIN list
      BY <1>1, <1>2, <3>2
    <3>4. list[k].due <= list[j - 1].due
      <4>1. k = j - 1 \/ k < j - 1
        BY <1>4, <3>2
      <4> QED
        BY <1>7, <3>2, <3>3, <4>1 DEF Sane
    <3> QED
      BY <1>3, <1>7, <1>8, <2>2, <3>2, <3>3, <3>4
  <2>3. CASE j = k
    <3>1. i < k /\ i # k
      BY <1>4, <1>9, <2>3
    <3>2. R[i] = list[i] /\ i \in DOMAIN list
      BY <1>3, <1>5, <3>1
    <3> QED
      BY <1>3, <1>7, <1>8, <2>3, <3>1, <3>2
  <2> QED
    BY <2>1, <2>2, <2>3
<1>10. ASSUME NEW i \in DOMAIN R, NEW j \in DOMAIN R,
              R[i].handler = R[j].handler, R[i].sta = R[j].sta
       PROVE  i = j
  <2>1. CASE i # k /\ j # k
    <3>1. /\ old(i) \in DOMAIN list /\ R[i] = list[old(i)]
          /\ old(j) \in DOMAIN list /\ R[j] = list[old(j)]
      BY <1>5, <2>1
    <3>2. old(i) = old(j)
      BY <1>10, <3>1 DEF Sane
    <3> QED
      BY <1>6, <2>1, <3>2
  <2>2. CASE i = k /\ j # k
    <3>1. old(j) \in DOMAIN list /\ R[j] = list[old(j)] /\ R[i] = t
      BY <1>3, <1>5, <2>2
    <3> QED
      BY <1>10, <3>1
  <2>3. CASE i # k /\ j = k
    <3>1. old(i) \in DOMAIN list /\ R[i] = list[old(i)] /\ R[j] = t
      BY <1>3, <1>5, <2>3
    <3> QED
      BY <1>10, <3>1
  <2> QED
    BY <2>1, <2>2, <2>3
<1>11. ASSUME NEW i \in DOMAIN R, R[i].handler = "eapol_port_timers_tick"
       PROVE  R[i].sta \in With(t.handler, t.sta, St)
  <2>1. CASE i = k
    BY <1>3, <1>11, <2>1 DEF With
  <2>2. CASE i # k
    <3>1. old(i) \in DOMAIN list /\ R[i] = list[old(i)]
      BY <1>5, <2>2
    <3>2. R[i].sta \in St
      BY <1>11, <3>1 DEF Sane
    <3> QED
      BY <3>2 DEF With
  <2> QED
    BY <2>1, <2>2
<1>12. ASSUME NEW m \in With(t.handler, t.sta, St)
       PROVE  \E i \in DOMAIN R :
                R[i].handler = "eapol_port_timers_tick" /\ R[i].sta = m
  <2>1. CASE m \in St
    <3>1. PICK p \in DOMAIN list :
            list[p].handler = "eapol_port_timers_tick" /\ list[p].sta = m
      BY <2>1 DEF Sane
    <3>2. CASE p < k
      <4>1. p \in DOMAIN R
        BY <1>1, <1>2
      <4> QED
        BY <1>3, <3>1, <3>2, <4>1
    <3>3. CASE ~(p < k)
      <4>1. PICK q : q = p + 1
        OBVIOUS
      <4>2. q \in DOMAIN R /\ q > k /\ q - 1 = p
        BY <1>1, <1>2, <1>4, <3>3, <4>1
      <4>3. R[q] = list[q - 1]
        BY <1>3, <4>2
      <4> QED
        BY <3>1, <4>2, <4>3
    <3> QED
      BY <3>2, <3>3
  <2>2. CASE m \notin St
    <3>1. t.handler = "eapol_port_timers_tick" /\ m = t.sta
      BY <1>12, <2>2 DEF With
    <3> QED
      BY <1>3, <3>1
  <2> QED
    BY <2>1, <2>2
<1> QED
  BY <1>2, <1>9, <1>10, <1>11, <1>12 DEF Sane, R

\* Serving the head of the list.
LEMMA TailSane ==
  ASSUME NEW St, NEW list, Sane(list, St), list # <<>>
  PROVE  LET h == Head(list)
             L == Tail(list) IN
           /\ h \in Timeout
           /\ Sane(L, Without(h.handler, {h.sta}, St))
           /\ \A i \in DOMAIN L : ~(L[i].handler = h.handler /\ L[i].sta = h.sta)
           /\ h.handler = "eapol_port_timers_tick" => h.sta \in St
<1> DEFINE h == Head(list)
           L == Tail(list)
<1>1. list \in Seq(Timeout) /\ DOMAIN list = 1 .. Len(list) /\ Len(list) \in Nat \ {0}
  BY DEF Sane
<1>2. /\ h = list[1] /\ 1 \in DOMAIN list /\ h \in Timeout
      /\ L \in Seq(Timeout) /\ DOMAIN L = 1 .. (Len(list) - 1)
      /\ \A i \in DOMAIN L : L[i] = list[i + 1]
  BY <1>1
<1> HIDE DEF h, L
<1>3. \A i \in DOMAIN L : i + 1 \in DOMAIN list /\ i \in Int /\ i + 1 # 1
  BY <1>1, <1>2
<1>4. \A i \in DOMAIN L : ~(L[i].handler = h.handler /\ L[i].sta = h.sta)
  BY <1>2, <1>3 DEF Sane
<1>5. ASSUME NEW i \in DOMAIN L, NEW j \in DOMAIN L
      PROVE  /\ i < j => L[i].due <= L[j].due
             /\ L[i].handler = L[j].handler /\ L[i].sta = L[j].sta => i = j
  <2>1. /\ i < j => i + 1 < j + 1
        /\ i + 1 = j + 1 => i = j
        /\ L[i] = list[i + 1] /\ L[j] = list[j + 1]
        /\ i + 1 \in DOMAIN list /\ j + 1 \in DOMAIN list
    BY <1>2, <1>3
  <2> QED
    BY <2>1 DEF Sane
<1>6. \A i \in DOMAIN L : L[i].handler = "eapol_port_timers_tick"
        => L[i].sta \in Without(h.handler, {h.sta}, St)
  BY <1>2, <1>3, <1>4 DEF Sane, Without
<1>7. ASSUME NEW m \in Without(h.handler, {h.sta}, St)
      PROVE  \E i \in DOMAIN L :
               L[i].handler = "eapol_port_timers_tick" /\ L[i].sta = m
  <2>1. m \in St /\ ~(h.handler = "eapol_port_timers_tick" /\ h.sta = m)
    BY <1>7 DEF Without
  <2>2. PICK p \in DOMAIN list :
          list[p].handler = "eapol_port_timers_tick" /\ list[p].sta = m
    BY <2>1 DEF Sane
  <2>3. p # 1
    BY <1>2, <2>1, <2>2
  <2>4. p - 1 \in DOMAIN L /\ p - 1 + 1 = p
    BY <1>1, <1>2, <2>3
  <2> QED
    BY <1>2, <2>2, <2>4
<1>8. h.handler = "eapol_port_timers_tick" => h.sta \in St
  BY <1>2 DEF Sane
<1> QED
  BY <1>2, <1>4, <1>5, <1>6, <1>7, <1>8 DEF Sane, h, L

-----------------------------------------------------------------------------
(***************************************************************************)
(* The station table.                                                      *)
(***************************************************************************)
\* A list without repetition is as long as its range is large.
LEMMA CountOfList ==
  ASSUME NEW T, NEW list \in Seq(T),
         \A i, j \in DOMAIN list : list[i] = list[j] => i = j
  PROVE  IsFiniteSet(Range(list)) /\ Cardinality(Range(list)) = Len(list)
<1>1. Len(list) \in Nat /\ DOMAIN list = 1 .. Len(list)
  OBVIOUS
<1>2. IsFiniteSet(1 .. Len(list)) /\ Cardinality(1 .. Len(list)) = Len(list)
  <2>1. 1 \in Int /\ Len(list) \in Int
    BY <1>1
  <2>2. /\ IsFiniteSet(1 .. Len(list))
        /\ Cardinality(1 .. Len(list)) =
             IF 1 > Len(list) THEN 0 ELSE Len(list) - 1 + 1
    BY <2>1, FS_Interval
  <2> QED
    BY <1>1, <2>2
<1> DEFINE f == [i \in DOMAIN list |-> list[i]]
<1>3. f \in [DOMAIN list -> Range(list)]
  BY DEF Range
<1>4. f \in Injection(DOMAIN list, Range(list))
  BY <1>3 DEF Injection, IsInjective
<1>5. f \in Surjection(DOMAIN list, Range(list))
  BY <1>3 DEF Surjection, Range
<1>6. f \in Bijection(DOMAIN list, Range(list))
  BY <1>4, <1>5 DEF Bijection
<1>7. ExistsBijection(DOMAIN list, Range(list))
  BY <1>6 DEF ExistsBijection
<1> QED
  BY <1>1, <1>2, <1>7, FS_Bijection

\* Unlinking the members of S from a list.
LEMMA Unlinked ==
  ASSUME NEW T, NEW list \in Seq(T), NEW S
  PROVE  LET L == Removed(list, S) IN
           /\ L \in Seq(T)
           /\ Range(L) = Range(list) \ S
           /\ (\A i, j \in DOMAIN list : list[i] = list[j] => i = j)
                => \A i, j \in DOMAIN L : L[i] = L[j] => i = j
<1> DEFINE P == {i \in DOMAIN list : list[i] \notin S}
           L == At(list, P)
<1>1. Removed(list, S) = L
  BY DEF Removed, Where
<1>2. /\ P \in SUBSET DOMAIN list
      /\ \A i \in DOMAIN list : i \in P <=> list[i] \notin S
  OBVIOUS
<1> HIDE DEF P
<1>3. /\ L \in Seq(T) /\ DOMAIN L = 1 .. Len(L) /\ Len(L) \in Nat
      /\ \A i \in DOMAIN L : Nth(P, i) \in P /\ L[i] = list[Nth(P, i)]
      /\ \A i, j \in DOMAIN L : i < j => Nth(P, i) < Nth(P, j)
      /\ \A p \in P : \E i \in DOMAIN L : Nth(P, i) = p
  BY <1>2, AtProperties
<1> HIDE DEF L
<1>4. \A i \in DOMAIN L : Nth(P, i) \in DOMAIN list /\ Nth(P, i) \in Int
  BY <1>2, <1>3
<1>5. Range(L) = Range(list) \ S
  <2>1. ASSUME NEW i \in DOMAIN L
        PROVE  L[i] \in Range(list) \ S
    BY <1>2, <1>3, <1>4 DEF Range
  <2>2. ASSUME NEW p \in DOMAIN list, list[p] \notin S
        PROVE  list[p] \in Range(L)
    BY <1>2, <1>3, <2>2 DEF Range
  <2> QED
    BY <2>1, <2>2 DEF Range
<1>6. ASSUME \A i, j \in DOMAIN list : list[i] = list[j] => i = j,
             NEW i \in DOMAIN L, NEW j \in DOMAIN L, L[i] = L[j]
      PROVE  i = j
  <2>1. Nth(P, i) = Nth(P, j)
    BY <1>3, <1>4, <1>6
  <2>2. i = j \/ i < j \/ j < i
    BY <1>3
  <2> QED
    BY <1>3, <1>4, <2>1, <2>2
<1> QED
  BY <1>1, <1>3, <1>5, <1>6

\* What IInv says of the table, in the terms the steps need.
LEMMA TableFacts ==
  ASSUME IInv
  PROVE  /\ sta_list \in Seq(Mem) /\ Stations \subseteq Mem
         /\ sta_hash \in [Buckets -> Seq(Mem)] /\ addr \in [Mem -> Addr \cup {NoAddr}]
         /\ num_sta \in 0..MAX_STA_COUNT /\ num_sta = Len(sta_list)
         /\ IsFiniteSet(Stations) /\ Cardinality(Stations) = Len(sta_list)
         /\ Stations = {m \in Mem : addr[m] # NoAddr}
         /\ \A m \in Stations : addr[m] \in Addr
         /\ \A m, n \in Stations : addr[m] = addr[n] => m = n
         /\ \A b \in Buckets :
              Range(sta_hash[b]) = {m \in Stations : STA_HASH[addr[m]] = b}
<1>1. /\ sta_list \in Seq(Mem)
      /\ sta_hash \in [Buckets -> Seq(Mem)] /\ addr \in [Mem -> Addr \cup {NoAddr}]
      /\ num_sta \in 0..MAX_STA_COUNT
  BY DEF IInv, TypeOK
<1>2. /\ num_sta = Len(sta_list)
      /\ Stations = {m \in Mem : addr[m] # NoAddr}
      /\ \A m, n \in Stations : addr[m] = addr[n] => m = n
      /\ \A b \in Buckets :
           Range(sta_hash[b]) = {m \in Stations : STA_HASH[addr[m]] = b}
  BY DEF IInv, TableAgrees
<1>3. IsFiniteSet(Stations) /\ Cardinality(Stations) = Len(sta_list)
  BY <1>1, CountOfList DEF IInv, InTableOnce, Stations
<1>4. \A m \in Stations : m \in Mem /\ addr[m] \in Addr
  BY <1>1, <1>2
<1> QED
  BY <1>1, <1>2, <1>3, <1>4

\* Freeing stations leaves a table.
LEMMA FreeStationsTable ==
  ASSUME IInv, NEW S \in SUBSET Stations, FreeStations(S)
  PROVE  /\ Stations' = Stations \ S
         /\ sta_list' \in Seq(Mem) /\ sta_hash' \in [Buckets -> Seq(Mem)]
         /\ addr' \in [Mem -> Addr \cup {NoAddr}] /\ num_sta' \in 0..MAX_STA_COUNT
         /\ InTableOnce' /\ TableAgrees'
<1>1. /\ sta_list \in Seq(Mem) /\ Stations \subseteq Mem
      /\ sta_hash \in [Buckets -> Seq(Mem)] /\ addr \in [Mem -> Addr \cup {NoAddr}]
      /\ num_sta \in 0..MAX_STA_COUNT /\ num_sta = Len(sta_list)
      /\ IsFiniteSet(Stations) /\ Cardinality(Stations) = Len(sta_list)
      /\ Stations = {m \in Mem : addr[m] # NoAddr}
      /\ \A m \in Stations : addr[m] \in Addr
      /\ \A m, n \in Stations : addr[m] = addr[n] => m = n
      /\ \A b \in Buckets :
           Range(sta_hash[b]) = {m \in Stations : STA_HASH[addr[m]] = b}
  BY TableFacts
<1>2. /\ sta_list' = Removed(sta_list, S)
      /\ sta_hash' = [b \in Buckets |-> Removed(sta_hash[b], S)]
      /\ num_sta' = num_sta - Cardinality(S)
      /\ addr' = [m \in Mem |-> IF m \in S THEN NoAddr ELSE addr[m]]
  BY DEF FreeStations
<1>3. /\ sta_list' \in Seq(Mem) /\ Range(sta_list') = Range(sta_list) \ S
      /\ \A i, j \in DOMAIN sta_list' : sta_list'[i] = sta_list'[j] => i = j
  <2>1. \A i, j \in DOMAIN sta_list : sta_list[i] = sta_list[j] => i = j
    BY DEF IInv, InTableOnce
  <2> DEFINE L == Removed(sta_list, S)
  <2>2. /\ L \in Seq(Mem) /\ Range(L) = Range(sta_list) \ S
        /\ (\A i, j \in DOMAIN sta_list : sta_list[i] = sta_list[j] => i = j)
             => \A i, j \in DOMAIN L : L[i] = L[j] => i = j
    BY <1>1, Unlinked
  <2> HIDE DEF L
  <2>3. sta_list' = L
    BY <1>2 DEF L
  <2> QED
    BY <2>1, <2>2, <2>3
<1>4. Stations' = Stations \ S
  BY <1>3 DEF Stations
<1>5. IsFiniteSet(Stations') /\ Cardinality(Stations') = Len(sta_list')
  BY <1>3, CountOfList DEF Stations
<1>6. /\ Cardinality(Stations \ S) = Cardinality(Stations) - Cardinality(S)
      /\ Cardinality(S) \in Nat
  <2>1. Stations \cap S = S
    OBVIOUS
  <2>2. IsFiniteSet(S)
    BY <1>1, FS_Subset
  <2>3. Cardinality(S) \in Nat
    BY <2>2, FS_CardinalityType
  <2>4. Cardinality(Stations \ S) = Cardinality(Stations) - Cardinality(Stations \cap S)
    BY <1>1, FS_Difference
  <2> QED
    BY <2>1, <2>3, <2>4
<1>7. num_sta' = Len(sta_list') /\ num_sta' \in 0..MAX_STA_COUNT
  <2>1. Len(sta_list') \in Nat /\ Len(sta_list') = num_sta - Cardinality(S)
    BY <1>1, <1>3, <1>4, <1>5, <1>6
  <2> QED
    BY <1>1, <1>2, <1>6, <2>1, EventLoopAssumption
<1>8. /\ addr' \in [Mem -> Addr \cup {NoAddr}]
      /\ \A m \in Mem : addr'[m] = IF m \in S THEN NoAddr ELSE addr[m]
  BY <1>1, <1>2
<1>9. Stations' = {m \in Mem : addr'[m] # NoAddr}
  BY <1>1, <1>4, <1>8
<1>10. \A m \in Stations' : m \in Stations /\ m \notin S /\ addr'[m] = addr[m]
  BY <1>1, <1>4, <1>8
<1>11. ASSUME NEW b \in Buckets
       PROVE  /\ sta_hash'[b] \in Seq(Mem)
              /\ Range(sta_hash'[b]) = {m \in Stations' : STA_HASH[addr'[m]] = b}
  <2>1. sta_hash'[b] = Removed(sta_hash[b], S)
    BY <1>2
  <2>2. sta_hash[b] \in Seq(Mem)
    BY <1>1
  <2>3. /\ sta_hash'[b] \in Seq(Mem)
        /\ Range(sta_hash'[b]) = Range(sta_hash[b]) \ S
    BY <2>1, <2>2, Unlinked
  <2>4. Range(sta_hash'[b]) = {m \in Stations \ S : STA_HASH[addr[m]] = b}
    BY <1>1, <2>3
  <2> QED
    BY <1>4, <1>10, <2>3, <2>4
<1>12. sta_hash' \in [Buckets -> Seq(Mem)]
  BY <1>2, <1>11
<1>13. InTableOnce'
  BY <1>3 DEF InTableOnce
<1>14. \A m, n \in Stations' : addr'[m] = addr'[n] => m = n
  BY <1>1, <1>10
<1>15. TableAgrees'
  BY <1>5, <1>7, <1>9, <1>11, <1>14 DEF TableAgrees
<1> QED
  BY <1>3, <1>4, <1>7, <1>8, <1>12, <1>13, <1>15

\* A new station is a table with one station more.
LEMMA CreateStationTable ==
  ASSUME IInv, NEW a \in Addr, CreateStation(a)
  PROVE  \E m \in Mem :
           /\ Stations' = Stations \cup {m}
           /\ timeout' = Registered(
                           Cancelled(timeout, "eapol_port_timers_tick", {m}),
                           Tick(m, TickPeriod))
           /\ sta_list' \in Seq(Mem) /\ sta_hash' \in [Buckets -> Seq(Mem)]
           /\ addr' \in [Mem -> Addr \cup {NoAddr}] /\ num_sta' \in 0..MAX_STA_COUNT
           /\ InTableOnce' /\ TableAgrees'
<1>1. /\ sta_list \in Seq(Mem) /\ Stations \subseteq Mem
      /\ sta_hash \in [Buckets -> Seq(Mem)] /\ addr \in [Mem -> Addr \cup {NoAddr}]
      /\ num_sta \in 0..MAX_STA_COUNT /\ num_sta = Len(sta_list)
      /\ Stations = {m \in Mem : addr[m] # NoAddr}
      /\ \A m \in Stations : addr[m] \in Addr
      /\ \A m, n \in Stations : addr[m] = addr[n] => m = n
      /\ \A b \in Buckets :
           Range(sta_hash[b]) = {m \in Stations : STA_HASH[addr[m]] = b}
  BY TableFacts
<1>2. PICK m \in Mem :
        /\ addr[m] = NoAddr
        /\ addr' = [addr EXCEPT ![m] = a]
        /\ sta_list' = <<m>> \o sta_list
        /\ sta_hash' = [sta_hash EXCEPT ![STA_HASH[a]] = <<m>> \o @]
        /\ num_sta' = num_sta + 1
        /\ timeout' = Registered(
                        Cancelled(timeout, "eapol_port_timers_tick", {m}),
                        Tick(m, TickPeriod))
  BY DEF CreateStation
<1>3. num_sta < MAX_STA_COUNT /\ Found(a) = {}
  BY DEF CreateStation
<1>4. m \notin Stations /\ STA_HASH[a] \in Buckets /\ a # NoAddr
  BY <1>1, <1>2, EventLoopAssumption DEF Buckets
<1>5. \A n \in Stations : addr[n] # a
  BY <1>1, <1>3, <1>4 DEF Found
<1>6. ASSUME NEW l \in Seq(Mem)
      PROVE  /\ <<m>> \o l \in Seq(Mem) /\ Range(<<m>> \o l) = Range(l) \cup {m}
             /\ Len(<<m>> \o l) = Len(l) + 1
             /\ m \notin Range(l)
                  /\ (\A i, j \in DOMAIN l : l[i] = l[j] => i = j)
                => \A i, j \in DOMAIN (<<m>> \o l) :
                     (<<m>> \o l)[i] = (<<m>> \o l)[j] => i = j
  <2> DEFINE L == <<m>> \o l
  <2>1. /\ L \in Seq(Mem) /\ Len(L) = Len(l) + 1 /\ DOMAIN L = 1 .. (Len(l) + 1)
        /\ Len(l) \in Nat /\ DOMAIN l = 1 .. Len(l)
        /\ L[1] = m /\ \A i \in DOMAIN L \ {1} : L[i] = l[i - 1]
    OBVIOUS
  <2> HIDE DEF L
  <2>2. \A i \in DOMAIN L \ {1} : i - 1 \in DOMAIN l /\ i \in Int
    BY <2>1
  <2>3. ASSUME NEW i \in DOMAIN l
        PROVE  l[i] \in Range(L)
    <3>1. PICK k : k = i + 1
      OBVIOUS
    <3>2. k \in DOMAIN L \ {1} /\ k - 1 = i
      BY <2>1, <3>1
    <3>3. L[k] = l[i]
      BY <2>1, <3>2
    <3> QED
      BY <3>2, <3>3 DEF Range
  <2>4. m \in Range(L)
    <3>1. 1 \in DOMAIN L
      BY <2>1
    <3> QED
      BY <2>1, <3>1 DEF Range
  <2>5. Range(L) \subseteq Range(l) \cup {m}
    BY <2>1, <2>2 DEF Range
  <2>6. Range(L) = Range(l) \cup {m}
    BY <2>3, <2>4, <2>5 DEF Range
  <2>7. ASSUME m \notin Range(l), \A i, j \in DOMAIN l : l[i] = l[j] => i = j,
               NEW i \in DOMAIN L, NEW j \in DOMAIN L, L[i] = L[j]
        PROVE  i = j
    <3>1. CASE i = 1 /\ j = 1
      BY <3>1
    <3>2. CASE i # 1 /\ j # 1
      <4>1. l[i - 1] = l[j - 1] /\ i - 1 \in DOMAIN l /\ j - 1 \in DOMAIN l
        BY <2>1, <2>2, <2>7, <3>2
      <4>2. i - 1 = j - 1
        BY <2>7, <4>1
      <4> QED
        BY <2>2, <3>2, <4>2
    <3>3. CASE i = 1 /\ j # 1
      BY <2>1, <2>2, <2>7, <3>3 DEF Range
    <3>4. CASE i # 1 /\ j = 1
      BY <2>1, <2>2, <2>7, <3>4 DEF Range
    <3> QED
      BY <3>1, <3>2, <3>3, <3>4
  <2> QED
    BY <2>1, <2>6, <2>7 DEF L
<1>7. /\ sta_list' \in Seq(Mem) /\ Range(sta_list') = Range(sta_list) \cup {m}
      /\ Len(sta_list') = Len(sta_list) + 1
      /\ \A i, j \in DOMAIN sta_list' : sta_list'[i] = sta_list'[j] => i = j
  BY <1>1, <1>2, <1>4, <1>6 DEF IInv, InTableOnce, Stations
<1>8. Stations' = Stations \cup {m}
  BY <1>7 DEF Stations
<1>9. Cardinality(Stations') = Len(sta_list')
  BY <1>7, CountOfList DEF Stations
<1>10. num_sta' = Len(sta_list') /\ num_sta' \in 0..MAX_STA_COUNT
  BY <1>1, <1>2, <1>3, <1>7, EventLoopAssumption
<1>11. /\ addr' \in [Mem -> Addr \cup {NoAddr}] /\ addr'[m] = a
       /\ \A n \in Mem \ {m} : addr'[n] = addr[n]
  BY <1>1, <1>2
<1>12. Stations' = {n \in Mem : addr'[n] # NoAddr}
  BY <1>1, <1>4, <1>8, <1>11
<1>13. \A n \in Stations : n \in Mem \ {m} /\ addr'[n] = addr[n]
  BY <1>1, <1>4, <1>11
<1>14. \A n, k \in Stations' : addr'[n] = addr'[k] => n = k
  BY <1>1, <1>5, <1>8, <1>11, <1>13
<1>15. ASSUME NEW b \in Buckets
       PROVE  /\ sta_hash'[b] \in Seq(Mem)
              /\ Range(sta_hash'[b]) = {n \in Stations' : STA_HASH[addr'[n]] = b}
  <2>1. sta_hash[b] \in Seq(Mem)
    BY <1>1
  <2>2. CASE b = STA_HASH[a]
    <3>1. sta_hash'[b] = <<m>> \o sta_hash[b]
      BY <1>1, <1>2, <2>2
    <3>2. /\ sta_hash'[b] \in Seq(Mem)
          /\ Range(sta_hash'[b]) = Range(sta_hash[b]) \cup {m}
      BY <1>6, <2>1, <3>1
    <3> QED
      BY <1>1, <1>8, <1>11, <1>13, <2>2, <3>2
  <2>3. CASE b # STA_HASH[a]
    <3>1. sta_hash'[b] = sta_hash[b]
      BY <1>1, <1>2, <2>3
    <3> QED
      BY <1>1, <1>8, <1>11, <1>13, <2>1, <2>3, <3>1
  <2> QED
    BY <2>2, <2>3
<1>16. sta_hash' \in [Buckets -> Seq(Mem)]
  <2>1. sta_hash' = [b \in Buckets |-> sta_hash'[b]]
    BY <1>1, <1>2
  <2> QED
    BY <1>15, <2>1
<1>17. InTableOnce'
  BY <1>7 DEF InTableOnce
<1>18. TableAgrees'
  BY <1>9, <1>10, <1>12, <1>14, <1>15 DEF TableAgrees
<1> QED
  BY <1>2, <1>7, <1>8, <1>10, <1>11, <1>16, <1>17, <1>18

-----------------------------------------------------------------------------
(***************************************************************************)
(* Each step preserves the invariant.                                      *)
(***************************************************************************)
LEMMA MaxType ==
  ASSUME NEW a \in Int
  PROVE  Max({a, 0}) \in Nat
<1>1. \E x \in {a, 0} : \A y \in {a, 0} : x >= y
  <2>1. a >= 0 \/ 0 >= a
    OBVIOUS
  <2> QED
    BY <2>1
<1>2. /\ Max({a, 0}) \in {a, 0}
      /\ \A y \in {a, 0} : Max({a, 0}) >= y
  BY <1>1 DEF Max
<1> QED
  BY <1>2

LEMMA NewTimeouts ==
  ASSUME NEW m \in Mem
  PROVE  /\ Tick(m, TickPeriod) \in Timeout
         /\ \A t \in SessionTimeouts : Session(m, tv_sec(t)) \in Timeout
<1>1. TickPeriod \in Int /\ \A t \in SessionTimeouts : tv_sec(t) \in Int
  BY EventLoopAssumption DEF tv_sec
<1> QED
  BY <1>1 DEF Tick, Session, Timeout

\* What the steps have to show, part by part.
LEMMA InvariantAgain ==
  ASSUME pc' \in Stages, tv' \in Nat \cup {Forever}, ready' \subseteq Sockets,
         terminate' \in BOOLEAN, Sane(timeout', Stations'),
         sta_list' \in Seq(Mem), sta_hash' \in [Buckets -> Seq(Mem)],
         num_sta' \in 0..MAX_STA_COUNT, addr' \in [Mem -> Addr \cup {NoAddr}],
         InTableOnce', TableAgrees'
  PROVE  IInv'
<1>1. Sane(timeout, Stations)'
  OBVIOUS
<1>2. timeout' \in Seq(Timeout)
  BY DEF Sane
<1>3. TypeOK'
  BY <1>2 DEF TypeOK
<1> QED
  BY <1>1, <1>3 DEF IInv

LEMMA SameTable ==
  ASSUME IInv, UNCHANGED table
  PROVE  /\ Stations' = Stations
         /\ sta_list' \in Seq(Mem) /\ sta_hash' \in [Buckets -> Seq(Mem)]
         /\ num_sta' \in 0..MAX_STA_COUNT /\ addr' \in [Mem -> Addr \cup {NoAddr}]
         /\ InTableOnce' /\ TableAgrees'
  BY DEF table, IInv, TypeOK, Stations, InTableOnce, TableAgrees

\* Stations freed with their ticks.
LEMMA FreeStationsSane ==
  ASSUME IInv, NEW S \in SUBSET Stations, FreeStations(S)
  PROVE  Sane(timeout', Stations')
<1>1. timeout' = Cancelled(timeout, "eapol_port_timers_tick", S)
  BY DEF FreeStations
<1>2. Stations' = Without("eapol_port_timers_tick", S, Stations)
  BY FreeStationsTable DEF Without
<1> QED
  BY <1>1, <1>2, CancelledSane DEF IInv

LEMMA EmptySane == Sane(<<>>, {})
  BY DEF Sane

LEMMA ServeTickSane ==
  ASSUME IInv, ServeTick
  PROVE  Sane(timeout', Stations)
<1> DEFINE h == Head(timeout)
           L == Tail(timeout)
<1>1. /\ timeout # <<>> /\ h.handler = "eapol_port_timers_tick"
      /\ timeout' = Registered(L, Tick(h.sta, TickPeriod))
  BY DEF ServeTick, ServesTimeout, Due
<1>2. /\ h \in Timeout
      /\ Sane(L, Without(h.handler, {h.sta}, Stations))
      /\ \A i \in DOMAIN L : ~(L[i].handler = h.handler /\ L[i].sta = h.sta)
      /\ h.sta \in Stations
  BY <1>1, TailSane DEF IInv
<1> HIDE DEF h, L
<1> DEFINE t == Tick(h.sta, TickPeriod)
<1>3. /\ t \in Timeout /\ t.handler = "eapol_port_timers_tick" /\ t.sta = h.sta
  BY <1>2, NewTimeouts, TimeoutType DEF Tick
<1> HIDE DEF t
<1>4. Sane(L, Stations \ {h.sta})
  BY <1>1, <1>2 DEF Without
<1>5. Sane(Registered(L, t), With(t.handler, t.sta, Stations \ {h.sta}))
  BY <1>1, <1>2, <1>3, <1>4, RegisteredSane
<1>6. With(t.handler, t.sta, Stations \ {h.sta}) = Stations
  BY <1>2, <1>3 DEF With
<1> QED
  BY <1>1, <1>5, <1>6 DEF t

LEMMA ServeSessionSane ==
  ASSUME IInv, ServeSession
  PROVE  Sane(timeout', Stations)
<1>1. /\ timeout # <<>> /\ Head(timeout).handler = "Ap_handle_session_timer"
      /\ timeout' = Tail(timeout)
  BY DEF ServeSession, ServesTimeout, Due
<1>2. Sane(timeout', Without(Head(timeout).handler, {Head(timeout).sta}, Stations))
  BY <1>1, TailSane DEF IInv
<1> QED
  BY <1>1, <1>2 DEF Without

LEMMA CreateStationSane ==
  ASSUME IInv, NEW m \in Mem, Stations' = Stations \cup {m},
         timeout' = Registered(Cancelled(timeout, "eapol_port_timers_tick", {m}),
                               Tick(m, TickPeriod))
  PROVE  Sane(timeout', Stations')
<1> DEFINE L == Cancelled(timeout, "eapol_port_timers_tick", {m})
           t == Tick(m, TickPeriod)
<1>1. /\ Sane(L, Without("eapol_port_timers_tick", {m}, Stations))
      /\ \A i \in DOMAIN L :
           ~(L[i].handler = "eapol_port_timers_tick" /\ L[i].sta \in {m})
  BY CancelledSane DEF IInv
<1>2. t \in Timeout /\ t.handler = "eapol_port_timers_tick" /\ t.sta = m
  BY NewTimeouts DEF Tick
<1> HIDE DEF L, t
<1>3. Sane(L, Stations \ {m})
  BY <1>1 DEF Without
<1>4. Sane(Registered(L, t), With(t.handler, t.sta, Stations \ {m}))
  BY <1>1, <1>2, <1>3, RegisteredSane
<1>5. With(t.handler, t.sta, Stations \ {m}) = Stations'
  BY <1>2 DEF With
<1> QED
  BY <1>4, <1>5 DEF L, t

LEMMA SessionTimeoutSane ==
  ASSUME IInv, NEW m \in Mem, NEW secs \in SessionTimeouts,
         Ap_sta_session_timeout(m, secs)
  PROVE  Sane(timeout', Stations)
<1> DEFINE L == Cancelled(timeout, "Ap_handle_session_timer", {m})
           t == Session(m, tv_sec(secs))
<1>1. /\ Sane(L, Without("Ap_handle_session_timer", {m}, Stations))
      /\ \A i \in DOMAIN L :
           ~(L[i].handler = "Ap_handle_session_timer" /\ L[i].sta \in {m})
  BY CancelledSane DEF IInv
<1>2. t \in Timeout /\ t.handler = "Ap_handle_session_timer" /\ t.sta = m
  BY NewTimeouts DEF Session
<1>3. timeout' = Registered(L, t)
  BY DEF Ap_sta_session_timeout
<1> HIDE DEF L, t
<1>4. Sane(L, Stations)
  BY <1>1 DEF Without
<1>5. Sane(Registered(L, t), With(t.handler, t.sta, Stations))
  BY <1>1, <1>2, <1>4, RegisteredSane
<1> QED
  BY <1>2, <1>3, <1>5 DEF With

LEMMA PassSane ==
  ASSUME IInv, Pass
  PROVE  Sane(timeout', Stations)
<1>1. timeout' = [i \in DOMAIN timeout |-> [timeout[i] EXCEPT !.due = @ - 1]]
  BY DEF Pass
<1>2. timeout \in Seq(Timeout) /\ Sane(timeout, Stations)
  BY DEF IInv, TypeOK
<1>3. ASSUME NEW i \in DOMAIN timeout
      PROVE  /\ timeout'[i] \in Timeout
             /\ timeout'[i].handler = timeout[i].handler
             /\ timeout'[i].sta = timeout[i].sta
             /\ timeout'[i].due = timeout[i].due - 1
             /\ timeout[i].due \in Int
  <2>1. timeout[i] \in Timeout /\ timeout'[i] = [timeout[i] EXCEPT !.due = @ - 1]
    BY <1>1, <1>2
  <2> QED
    BY <2>1 DEF Timeout
<1>4. timeout' \in Seq(Timeout) /\ DOMAIN timeout' = DOMAIN timeout
  <2> DEFINE later(i) == [timeout[i] EXCEPT !.due = @ - 1]
  <2>1. \A i \in DOMAIN timeout : later(i) \in Timeout
    BY <1>1, <1>3
  <2>2. timeout' = [i \in DOMAIN timeout |-> later(i)]
    BY <1>1
  <2>3. DOMAIN timeout = 1 .. Len(timeout) /\ Len(timeout) \in Nat
    BY <1>2
  <2> HIDE DEF later
  <2> QED
    BY <2>1, <2>2, <2>3
<1> QED
  BY <1>2, <1>3, <1>4 DEF Sane

-----------------------------------------------------------------------------
(***************************************************************************)
(* Theorems.                                                               *)
(***************************************************************************)
LEMMA EmptyTable ==
  ASSUME sta_list' = <<>>, sta_hash' = [b \in Buckets |-> <<>>], num_sta' = 0,
         addr' = [m \in Mem |-> NoAddr]
  PROVE  /\ Stations' = {}
         /\ sta_list' \in Seq(Mem) /\ sta_hash' \in [Buckets -> Seq(Mem)]
         /\ num_sta' \in 0..MAX_STA_COUNT /\ addr' \in [Mem -> Addr \cup {NoAddr}]
         /\ InTableOnce' /\ TableAgrees'
<1>1. Stations' = {}
  BY DEF Stations, Range
<1>2. /\ sta_list' \in Seq(Mem) /\ sta_hash' \in [Buckets -> Seq(Mem)]
      /\ num_sta' \in 0..MAX_STA_COUNT /\ addr' \in [Mem -> Addr \cup {NoAddr}]
  BY EventLoopAssumption
<1>3. InTableOnce'
  BY DEF InTableOnce
<1>4. Cardinality(Stations') = 0 /\ Len(sta_list') = 0
  BY <1>1, FS_EmptySet
<1>5. \A b \in Buckets : Range(sta_hash'[b]) = {}
  BY DEF Range
<1>6. \A m \in Mem : addr'[m] = NoAddr
  OBVIOUS
<1>7. TableAgrees'
  BY <1>1, <1>4, <1>5, <1>6 DEF TableAgrees
<1> QED
  BY <1>1, <1>2, <1>3, <1>7

LEMMA InitInv == Init => IInv
<1> SUFFICES ASSUME Init
             PROVE  IInv
  OBVIOUS
<1>1. Stations = {}
  BY DEF Init, Stations, Range
<1>2. TypeOK
  <2>1. /\ 0 \in 0..MAX_STA_COUNT /\ "test" \in Stages
        /\ <<>> \in Seq(Timeout) /\ <<>> \in Seq(Mem)
    BY EventLoopAssumption DEF Stages
  <2>2. addr \in [Mem -> Addr \cup {NoAddr}] /\ sta_hash \in [Buckets -> Seq(Mem)]
    BY <2>1 DEF Init
  <2> QED
    BY <2>1, <2>2 DEF Init, TypeOK
<1>3. Sane(timeout, Stations)
  BY <1>1, EmptySane DEF Init
<1>4. InTableOnce
  BY DEF Init, InTableOnce
<1>5. Cardinality(Stations) = 0 /\ Len(sta_list) = 0 /\ num_sta = 0
  BY <1>1, FS_EmptySet DEF Init
<1>6. \A b \in Buckets : Range(sta_hash[b]) = {}
  BY DEF Init, Range
<1>7. \A m \in Mem : addr[m] = NoAddr
  BY DEF Init
<1>8. TableAgrees
  BY <1>1, <1>5, <1>6, <1>7 DEF TableAgrees
<1> QED
  BY <1>2, <1>3, <1>4, <1>8 DEF IInv

\* The invariant is inductive: one step for each action.
THEOREM EventLoopInductive == IInv /\ [Next]_vars => IInv'
<1> SUFFICES ASSUME IInv, [Next]_vars
             PROVE  IInv'
  OBVIOUS
<1>1. /\ pc \in Stages /\ tv \in Nat \cup {Forever} /\ ready \subseteq Sockets
      /\ terminate \in BOOLEAN /\ timeout \in Seq(Timeout)
      /\ Sane(timeout, Stations) /\ Stations \subseteq Mem
  BY TableFacts DEF IInv, TypeOK
<1>2. {"test", "select", "timeouts", "sockets", "exited"} \subseteq Stages
      /\ AfterTimeouts \in Stages
  BY DEF Stages, AfterTimeouts
<1>3. CASE StartSelect
  <2>1. tv' \in Nat \cup {Forever}
    <3>1. CASE timeout = <<>>
      BY <1>3, <3>1 DEF StartSelect
    <3>2. CASE timeout # <<>>
      <4>1. Head(timeout).due \in Int
        BY <1>1, <3>2, TimeoutType
      <4> QED
        BY <1>3, <3>2, <4>1, MaxType DEF StartSelect
    <3> QED
      BY <3>1, <3>2
  <2> QED
    BY <1>1, <1>2, <1>3, <2>1, SameTable, InvariantAgain DEF StartSelect
<1>4. CASE Exit
  <2>1. /\ Stations' = {} /\ InTableOnce' /\ TableAgrees'
        /\ sta_list' \in Seq(Mem) /\ sta_hash' \in [Buckets -> Seq(Mem)]
        /\ num_sta' \in 0..MAX_STA_COUNT /\ addr' \in [Mem -> Addr \cup {NoAddr}]
    BY <1>4, EmptyTable DEF Exit
  <2> QED
    BY <1>1, <1>2, <1>4, <2>1, EmptySane, InvariantAgain DEF Exit
<1>5. CASE SelectReports
  BY <1>1, <1>2, <1>5, SameTable, InvariantAgain DEF SelectReports
<1>6. CASE SelectExpires
  BY <1>1, <1>2, <1>6, SameTable, InvariantAgain DEF SelectExpires
<1>7. CASE ServeTick
  BY <1>1, <1>2, <1>7, ServeTickSane, SameTable, InvariantAgain DEF ServeTick
<1>8. CASE ServeSession
  BY <1>1, <1>2, <1>8, ServeSessionSane, SameTable, InvariantAgain DEF ServeSession
<1>9. CASE NoTimeout
  BY <1>1, <1>2, <1>9, SameTable, InvariantAgain DEF NoTimeout
<1>10. ASSUME NEW socket, Served(socket)
       PROVE  /\ ready' \subseteq Sockets /\ pc' \in Stages
              /\ tv' \in Nat \cup {Forever}
  BY <1>1, <1>2, <1>10 DEF Served
<1>11. CASE Handle_read
  <2>1. /\ ready' \subseteq Sockets /\ pc' \in Stages /\ tv' \in Nat \cup {Forever}
        /\ terminate' \in BOOLEAN
    BY <1>1, <1>10, <1>11 DEF Handle_read
  <2>2. PICK a \in Addr : CreateStation(a) \/ NoNewStation(a)
    BY <1>11 DEF Handle_read
  <2>3. CASE CreateStation(a)
    <3>1. PICK m \in Mem :
            /\ Stations' = Stations \cup {m}
            /\ timeout' = Registered(
                            Cancelled(timeout, "eapol_port_timers_tick", {m}),
                            Tick(m, TickPeriod))
            /\ sta_list' \in Seq(Mem) /\ sta_hash' \in [Buckets -> Seq(Mem)]
            /\ addr' \in [Mem -> Addr \cup {NoAddr}] /\ num_sta' \in 0..MAX_STA_COUNT
            /\ InTableOnce' /\ TableAgrees'
      BY <2>3, CreateStationTable
    <3>2. Sane(timeout', Stations')
      BY <3>1, CreateStationSane
    <3> QED
      BY <2>1, <3>1, <3>2, InvariantAgain
  <2>4. CASE NoNewStation(a)
    <3>1. UNCHANGED table /\ timeout' = timeout
      BY <2>4 DEF NoNewStation
    <3> QED
      BY <1>1, <2>1, <3>1, SameTable, InvariantAgain
  <2> QED
    BY <2>2, <2>3, <2>4
<1>12. CASE Handle_readFails
  <2>1. /\ ready' \subseteq Sockets /\ pc' \in Stages /\ tv' \in Nat \cup {Forever}
        /\ terminate' \in BOOLEAN /\ UNCHANGED table /\ timeout' = timeout
    BY <1>1, <1>10, <1>12 DEF Handle_readFails, Handle_term
  <2> QED
    BY <1>1, <2>1, SameTable, InvariantAgain
<1>13. ASSUME NEW S \in SUBSET Stations, FreeStations(S),
              ready' \subseteq Sockets, pc' \in Stages,
              tv' \in Nat \cup {Forever}, terminate' \in BOOLEAN
       PROVE  IInv'
  <2>1. /\ sta_list' \in Seq(Mem) /\ sta_hash' \in [Buckets -> Seq(Mem)]
        /\ addr' \in [Mem -> Addr \cup {NoAddr}] /\ num_sta' \in 0..MAX_STA_COUNT
        /\ InTableOnce' /\ TableAgrees'
    BY <1>13, FreeStationsTable
  <2> QED
    BY <1>13, <2>1, FreeStationsSane, InvariantAgain
<1>14. CASE Radius_client_receive
  <2>1. /\ ready' \subseteq Sockets /\ pc' \in Stages /\ tv' \in Nat \cup {Forever}
        /\ terminate' \in BOOLEAN
    BY <1>1, <1>10, <1>14 DEF Radius_client_receive
  <2>2. ASSUME NEW m \in Stations, NEW t \in SessionTimeouts,
               Ap_sta_session_timeout(m, t)
        PROVE  IInv'
    <3>1. Sane(timeout', Stations) /\ UNCHANGED table
      BY <1>1, <2>2, SessionTimeoutSane DEF Ap_sta_session_timeout
    <3> QED
      BY <2>1, <3>1, SameTable, InvariantAgain
  <2>3. ASSUME NEW m \in Stations, FreeStations({m})
        PROVE  IInv'
    BY <1>13, <2>1, <2>3
  <2>4. CASE UNCHANGED <<table, timeout>>
    BY <1>1, <2>1, <2>4, SameTable, InvariantAgain
  <2> QED
    BY <1>14, <2>2, <2>3, <2>4 DEF Radius_client_receive
<1>15. CASE SignalTerm
  BY <1>1, <1>2, <1>15, SameTable, InvariantAgain
     DEF SignalTerm, Interrupts, Handle_term
<1>16. CASE SignalUsr1
  <2>1. /\ ready' \subseteq Sockets /\ pc' \in Stages /\ tv' \in Nat \cup {Forever}
        /\ terminate' \in BOOLEAN
    BY <1>1, <1>2, <1>16 DEF SignalUsr1, Interrupts
  <2>2. CASE Apd_free_stas
    BY <1>13, <2>1, <2>2 DEF Apd_free_stas
  <2>3. CASE UNCHANGED <<table, timeout>>
    BY <1>1, <2>1, <2>3, SameTable, InvariantAgain
  <2> QED
    BY <1>16, <2>2, <2>3 DEF SignalUsr1
<1>17. CASE Pass
  <2>1. tv' \in Nat \cup {Forever}
    BY <1>1, <1>17 DEF Pass, Forever
  <2> QED
    BY <1>1, <1>17, <2>1, PassSane, SameTable, InvariantAgain DEF Pass
<1>18. CASE UNCHANGED vars
  BY <1>1, <1>18, SameTable, InvariantAgain DEF vars
<1> QED
  BY <1>3, <1>4, <1>5, <1>6, <1>7, <1>8, <1>9, <1>11, <1>12, <1>14, <1>15,
     <1>16, <1>17, <1>18 DEF Next, eloop_run

THEOREM EventLoopInvariant == Spec => []IInv
  BY InitInv, EventLoopInductive, PTL DEF Spec

\* Types, and a count of the stations that stays from 0 to MAX_STA_COUNT.
THEOREM EventLoopTypeCorrect == Spec => []TypeOK
<1>1. IInv => TypeOK
  BY DEF IInv
<1> QED
  BY <1>1, EventLoopInvariant, PTL

\* The head of the list is due first, so testing the head alone is enough.
THEOREM HeadIsEarliest == Spec => []EarliestFirst
<1>1. IInv => EarliestFirst
  BY DEF IInv, Sane, EarliestFirst
<1> QED
  BY <1>1, EventLoopInvariant, PTL

\* Exactly the stations of the table have a tick, each has one, and a station's
\* memory never has two session timers, whoever lived in it.
THEOREM TimeoutsAreUnique == Spec => []OneTimeoutEach
<1>1. IInv => OneTickEach
  BY DEF IInv, Sane, OneTickEach, Ticks
<1>2. IInv => OneSessionTimer
  BY DEF IInv, Sane, OneSessionTimer
<1>3. IInv => OneTimeoutEach
  BY <1>1, <1>2 DEF OneTimeoutEach
<1> QED
  BY <1>3, EventLoopInvariant, PTL

\* The list, the hash and the count of the stations are one table.
THEOREM TableIsOne == Spec => []TableAgrees
<1>1. IInv => TableAgrees
  BY DEF IInv
<1> QED
  BY <1>1, EventLoopInvariant, PTL

-----------------------------------------------------------------------------
(***************************************************************************)
(* What is ahead of the tick of a station.                                 *)
(***************************************************************************)
TickKey(m) == <<"eapol_port_timers_tick", m>>

\* Unlinking timeouts puts nothing ahead of a tick.
LEMMA CancelledAhead ==
  ASSUME NEW list \in Seq(Timeout), NEW h, NEW S, NEW m
  PROVE  AheadIn(Cancelled(list, h, S), m) \subseteq AheadIn(list, m)
<1> DEFINE P == {i \in DOMAIN list : ~(list[i].handler = h /\ list[i].sta \in S)}
           L == At(list, P)
<1>1. Cancelled(list, h, S) = L
  BY DEF Cancelled, Where
<1>2. P \in SUBSET DOMAIN list
  OBVIOUS
<1> HIDE DEF P
<1>3. /\ \A i \in DOMAIN L : Nth(P, i) \in P /\ L[i] = list[Nth(P, i)]
      /\ \A i, j \in DOMAIN L : i < j => Nth(P, i) < Nth(P, j)
  BY <1>2, AtProperties
<1> HIDE DEF L
<1>4. ASSUME NEW j \in DOMAIN L, NEW i \in DOMAIN L, j < i,
             Key(L[i]) = <<"eapol_port_timers_tick", m>>
      PROVE  Key(L[j]) \in AheadIn(list, m)
  <2>1. /\ Nth(P, j) \in DOMAIN list /\ Nth(P, i) \in DOMAIN list
        /\ Nth(P, j) < Nth(P, i)
        /\ L[j] = list[Nth(P, j)] /\ L[i] = list[Nth(P, i)]
    BY <1>2, <1>3, <1>4
  <2> QED
    BY <1>4, <2>1 DEF AheadIn
<1> QED
  BY <1>1, <1>4 DEF AheadIn

\* Registering a timeout puts nothing but itself ahead of a tick, and itself
\* only if it is due before the tick.
LEMMA RegisteredAhead ==
  ASSUME NEW list \in Seq(Timeout), NEW t \in Timeout, NEW m,
         \A i, j \in DOMAIN list : i < j => list[i].due <= list[j].due,
         \A i \in DOMAIN list : Key(list[i]) # Key(t),
         Key(t) # TickKey(m)
  PROVE  LET R == Registered(list, t) IN
           /\ AheadIn(R, m) \subseteq AheadIn(list, m) \cup {Key(t)}
           /\ Key(t) \in AheadIn(R, m) =>
                \E i \in DOMAIN R : Key(R[i]) = TickKey(m) /\ t.due < R[i].due
           /\ \A i \in DOMAIN R : Key(R[i]) = TickKey(m) =>
                \E j \in DOMAIN list : list[j] = R[i]
           /\ \E i \in DOMAIN R : R[i] = t
<1> DEFINE R == Registered(list, t)
<1>1. DOMAIN list = 1 .. Len(list) /\ Len(list) \in Nat
  OBVIOUS
<1>2. DOMAIN R = 1 .. (Len(list) + 1)
  BY RegisteredAt
<1>3. PICK k \in DOMAIN R :
        /\ R[k] = t
        /\ \A i \in DOMAIN R : i < k => R[i] = list[i]
        /\ \A i \in DOMAIN R : i > k => R[i] = list[i - 1]
        /\ \A i \in DOMAIN list : i < k => ~(t.due < list[i].due)
        /\ k \in DOMAIN list => t.due < list[k].due
  BY RegisteredAt
<1> HIDE DEF R
<1> DEFINE old(i) == IF i < k THEN i ELSE i - 1
<1>4. k \in Int /\ \A i \in DOMAIN R : i \in Int
  BY <1>2
<1>5. ASSUME NEW i \in DOMAIN R, i # k
      PROVE  old(i) \in DOMAIN list /\ R[i] = list[old(i)]
  <2>1. CASE i < k
    BY <1>1, <1>2, <1>3, <2>1
  <2>2. CASE i > k
    BY <1>1, <1>2, <1>3, <2>2
  <2> QED
    BY <1>4, <1>5, <2>1, <2>2
<1>6. \A i \in DOMAIN R : Key(R[i]) = TickKey(m) => i # k
  BY <1>3
<1>7. ASSUME NEW i \in DOMAIN R, NEW j \in DOMAIN R, j < i, j # k,
             Key(R[i]) = TickKey(m)
      PROVE  Key(R[j]) \in AheadIn(list, m)
  <2>1. i # k
    BY <1>6, <1>7
  <2>2. /\ old(i) \in DOMAIN list /\ R[i] = list[old(i)]
        /\ old(j) \in DOMAIN list /\ R[j] = list[old(j)]
    BY <1>5, <1>7, <2>1
  <2>3. old(j) < old(i)
    BY <1>4, <1>7, <2>1
  <2> HIDE DEF old
  <2> QED
    BY <1>7, <2>2, <2>3 DEF AheadIn, TickKey
<1>8. ASSUME NEW i \in DOMAIN R, k < i
      PROVE  t.due < R[i].due
  <2>1. i # k /\ old(i) = i - 1 /\ i - 1 \in DOMAIN list /\ R[i] = list[i - 1]
    BY <1>4, <1>5, <1>8
  <2>2. k \in DOMAIN list /\ k <= i - 1
    BY <1>1, <1>2, <1>4, <1>8, <2>1
  <2>3. k = i - 1 \/ k < i - 1
    BY <1>4, <2>2
  <2>4. list[k].due <= list[i - 1].due
    <3>1. list[k].due \in Int /\ list[i - 1].due \in Int
      BY <2>1, <2>2, TimeoutType
    <3> QED
      BY <2>1, <2>2, <2>3, <3>1
  <2>5. list[k].due \in Int /\ list[i - 1].due \in Int /\ t.due \in Int
    BY <2>1, <2>2, TimeoutType
  <2> QED
    BY <1>3, <2>1, <2>2, <2>4, <2>5
<1>9. AheadIn(R, m) \subseteq AheadIn(list, m) \cup {Key(t)}
  BY <1>3, <1>7 DEF AheadIn, TickKey
<1>10. ASSUME Key(t) \in AheadIn(R, m)
       PROVE  \E i \in DOMAIN R : Key(R[i]) = TickKey(m) /\ t.due < R[i].due
  <2>1. PICK j \in DOMAIN R, i \in DOMAIN R :
          j < i /\ Key(R[j]) = Key(t) /\ Key(R[i]) = TickKey(m)
    BY <1>10 DEF AheadIn, TickKey
  <2>2. j = k
    BY <1>5, <2>1
  <2> QED
    BY <1>8, <2>1, <2>2
<1>11. \A i \in DOMAIN R : Key(R[i]) = TickKey(m) =>
         \E j \in DOMAIN list : list[j] = R[i]
  BY <1>5, <1>6
<1> QED
  BY <1>3, <1>9, <1>10, <1>11 DEF R

\* The head of the list is ahead of every tick but its own, until it is served.
LEMMA TailAhead ==
  ASSUME NEW list \in Seq(Timeout), list # <<>>, NEW m,
         \A i, j \in DOMAIN list : Key(list[i]) = Key(list[j]) => i = j
  PROVE  LET L == Tail(list) IN
           /\ AheadIn(L, m) \subseteq AheadIn(list, m)
           /\ Key(Head(list)) \notin AheadIn(L, m)
           /\ (\E i \in DOMAIN L : Key(L[i]) = TickKey(m))
                => Key(Head(list)) \in AheadIn(list, m)
<1> DEFINE L == Tail(list)
<1>1. DOMAIN list = 1 .. Len(list) /\ Len(list) \in Nat \ {0}
  OBVIOUS
<1>2. /\ Head(list) = list[1] /\ 1 \in DOMAIN list
      /\ DOMAIN L = 1 .. (Len(list) - 1)
      /\ \A i \in DOMAIN L : L[i] = list[i + 1]
  BY <1>1
<1> HIDE DEF L
<1>3. ASSUME NEW i \in DOMAIN L
      PROVE  i \in Int /\ i + 1 \in DOMAIN list /\ 1 < i + 1
  BY <1>1, <1>2
<1>4. ASSUME NEW i \in DOMAIN L, NEW j \in DOMAIN L, j < i, Key(L[i]) = TickKey(m)
      PROVE  /\ Key(L[j]) \in AheadIn(list, m)
             /\ Key(L[j]) # Key(list[1])
  <2>1. /\ i + 1 \in DOMAIN list /\ j + 1 \in DOMAIN list /\ j + 1 < i + 1
        /\ L[i] = list[i + 1] /\ L[j] = list[j + 1]
    BY <1>2, <1>3, <1>4
  <2>2. Key(L[j]) \in AheadIn(list, m)
    BY <1>4, <2>1 DEF AheadIn, TickKey
  <2>3. j + 1 # 1
    BY <1>3
  <2>4. Key(list[j + 1]) # Key(list[1])
    BY <1>2, <2>1, <2>3
  <2> QED
    BY <2>1, <2>2, <2>4
<1>5. ASSUME NEW i \in DOMAIN L, Key(L[i]) = TickKey(m)
      PROVE  Key(list[1]) \in AheadIn(list, m)
  <2>1. i + 1 \in DOMAIN list /\ 1 < i + 1 /\ L[i] = list[i + 1]
    BY <1>2, <1>3
  <2> QED
    BY <1>2, <1>5, <2>1 DEF AheadIn, TickKey
<1>6. AheadIn(L, m) \subseteq AheadIn(list, m) /\ Key(list[1]) \notin AheadIn(L, m)
  BY <1>4 DEF AheadIn, TickKey
<1> QED
  BY <1>2, <1>5, <1>6 DEF L

\* What NoOvertaking says of a step, for one station.
NothingOvertakes(m) ==
  Overdue(m)' => Ahead(m)' \subseteq Ahead(m) \cup InPast'
ServiceIsProgress(m) ==
  Overdue(m)' => Key(Head(timeout)) \in Ahead(m) \ Ahead(m)'

\* A due tick is the tick of its station.
LEMMA OverdueTick ==
  ASSUME NEW list, NEW St, Sane(list, St), NEW m,
         \E i \in DOMAIN list :
           /\ list[i].handler = "eapol_port_timers_tick" /\ list[i].sta = m
           /\ list[i].due <= 0
  PROVE  /\ \E i \in DOMAIN list : Key(list[i]) = TickKey(m)
         /\ \A i \in DOMAIN list : Key(list[i]) = TickKey(m) => list[i].due <= 0
  BY DEF Sane, Key, TickKey

\* Keys are as good as their parts.
LEMMA KeysDiffer ==
  ASSUME NEW s, NEW t
  PROVE  Key(s) = Key(t) <=> s.handler = t.handler /\ s.sta = t.sta
  BY DEF Key

\* A step that registers a timeout, after others were unlinked.
LEMMA RegisteringOvertakesNone ==
  ASSUME NEW St, NEW list, Sane(list, St), NEW t \in Timeout, NEW m,
         \A i \in DOMAIN list : ~(list[i].handler = t.handler /\ list[i].sta = t.sta),
         timeout' = Registered(list, t), NEW St2, Sane(timeout', St2),
         t.handler = "eapol_port_timers_tick" => t.due > 0,
         Overdue(m)'
  PROVE  /\ Key(t) # TickKey(m)
         /\ AheadIn(timeout', m) \subseteq AheadIn(list, m) \cup InPast'
         /\ t.due > 0 => AheadIn(timeout', m) \subseteq AheadIn(list, m)
         /\ \E i \in DOMAIN list : Key(list[i]) = TickKey(m)
<1>1. /\ \E i \in DOMAIN timeout' : Key(timeout'[i]) = TickKey(m)
      /\ \A i \in DOMAIN timeout' :
           Key(timeout'[i]) = TickKey(m) => timeout'[i].due <= 0
  BY OverdueTick DEF Overdue, Ticks
<1>2. list \in Seq(Timeout) /\ t.due \in Int
  BY TimeoutType DEF Sane
<1>3. \E i \in DOMAIN timeout' : timeout'[i] = t
  BY <1>2, RegisteredAt
<1>4. Key(t) # TickKey(m)
  <2> SUFFICES ASSUME Key(t) = TickKey(m)
               PROVE  FALSE
    OBVIOUS
  <2>1. t.due <= 0 /\ t.handler = "eapol_port_timers_tick"
    BY <1>1, <1>3 DEF Key, TickKey
  <2> QED
    BY <1>2, <2>1
<1>5. \A i \in DOMAIN list : Key(list[i]) # Key(t)
  BY DEF Key
<1>6. \A i, j \in DOMAIN list : i < j => list[i].due <= list[j].due
  BY DEF Sane
<1>7. /\ AheadIn(timeout', m) \subseteq AheadIn(list, m) \cup {Key(t)}
      /\ Key(t) \in AheadIn(timeout', m) =>
           \E i \in DOMAIN timeout' :
             Key(timeout'[i]) = TickKey(m) /\ t.due < timeout'[i].due
      /\ \A i \in DOMAIN timeout' : Key(timeout'[i]) = TickKey(m) =>
           \E j \in DOMAIN list : list[j] = timeout'[i]
  BY <1>2, <1>4, <1>5, <1>6, RegisteredAhead
<1>8. Key(t) \in AheadIn(timeout', m) => t.due < 0
  <2>1. ASSUME NEW i \in DOMAIN timeout', Key(timeout'[i]) = TickKey(m),
               t.due < timeout'[i].due
        PROVE  t.due < 0
    <3>1. timeout'[i].due \in Int /\ timeout'[i].due <= 0
      BY <1>1, <2>1, TimeoutType DEF Sane
    <3> QED
      BY <1>2, <2>1, <3>1
  <2> QED
    BY <1>7, <2>1
<1>9. t.due < 0 => Key(t) \in InPast'
  <2> SUFFICES ASSUME t.due < 0
               PROVE  Key(t) \in InPast'
    OBVIOUS
  <2>1. t.handler = "Ap_handle_session_timer"
    BY <1>2, TimeoutType
  <2> QED
    BY <1>3, <2>1 DEF InPast
<1>10. t.due > 0 => Key(t) \notin AheadIn(timeout', m)
  BY <1>2, <1>8
<1> QED
  BY <1>1, <1>4, <1>7, <1>8, <1>9, <1>10

\* A step that only unlinks timeouts, or changes none.
LEMMA UnlinkingOvertakesNone ==
  ASSUME NEW m, AheadIn(timeout', m) \subseteq AheadIn(timeout, m)
  PROVE  NothingOvertakes(m)
  BY DEF NothingOvertakes, Ahead

LEMMA KeysUnique ==
  ASSUME IInv
  PROVE  /\ timeout \in Seq(Timeout)
         /\ \A i, j \in DOMAIN timeout : Key(timeout[i]) = Key(timeout[j]) => i = j
  BY DEF IInv, Sane, Key

\* A tick that is served goes behind every tick that is due.
LEMMA ServeTickOvertakesNone ==
  ASSUME IInv, ServeTick, NEW m
  PROVE  NothingOvertakes(m) /\ ServiceIsProgress(m)
<1> SUFFICES ASSUME Overdue(m)'
             PROVE  /\ Ahead(m)' \subseteq Ahead(m)
                    /\ Key(Head(timeout)) \in Ahead(m) \ Ahead(m)'
  BY DEF NothingOvertakes, ServiceIsProgress
<1> DEFINE h == Head(timeout)
           L == Tail(timeout)
           t == Tick(h.sta, TickPeriod)
<1>1. /\ timeout # <<>> /\ h.handler = "eapol_port_timers_tick"
      /\ timeout' = Registered(L, t)
  BY DEF ServeTick, ServesTimeout, Due
<1>2. /\ h \in Timeout
      /\ Sane(L, Without(h.handler, {h.sta}, Stations))
      /\ \A i \in DOMAIN L : ~(L[i].handler = h.handler /\ L[i].sta = h.sta)
  BY <1>1, TailSane DEF IInv
<1>3. /\ AheadIn(L, m) \subseteq AheadIn(timeout, m)
      /\ Key(h) \notin AheadIn(L, m)
      /\ (\E i \in DOMAIN L : Key(L[i]) = TickKey(m)) => Key(h) \in AheadIn(timeout, m)
  BY <1>1, KeysUnique, TailAhead
<1>4. Sane(timeout', Stations)
  BY ServeTickSane
<1> HIDE DEF h, L
<1>5. /\ t \in Timeout /\ t.handler = "eapol_port_timers_tick" /\ t.sta = h.sta
      /\ t.due > 0
  BY <1>2, NewTimeouts, TimeoutType, EventLoopAssumption DEF Tick
<1> HIDE DEF t
<1>6. \A i \in DOMAIN L : ~(L[i].handler = t.handler /\ L[i].sta = t.sta)
  BY <1>1, <1>2, <1>5
<1>7. /\ AheadIn(timeout', m) \subseteq AheadIn(L, m)
      /\ \E i \in DOMAIN L : Key(L[i]) = TickKey(m)
  BY <1>1, <1>2, <1>4, <1>5, <1>6, RegisteringOvertakesNone
<1> QED
  BY <1>3, <1>7 DEF Ahead, h

LEMMA ServeSessionOvertakesNone ==
  ASSUME IInv, ServeSession, NEW m
  PROVE  NothingOvertakes(m) /\ ServiceIsProgress(m)
<1> SUFFICES ASSUME Overdue(m)'
             PROVE  /\ Ahead(m)' \subseteq Ahead(m)
                    /\ Key(Head(timeout)) \in Ahead(m) \ Ahead(m)'
  BY DEF NothingOvertakes, ServiceIsProgress
<1>1. timeout # <<>> /\ timeout' = Tail(timeout)
  BY DEF ServeSession, ServesTimeout, Due
<1>2. \E i \in DOMAIN timeout' : Key(timeout'[i]) = TickKey(m)
  BY DEF Overdue, Ticks, Key, TickKey
<1> QED
  BY <1>1, <1>2, KeysUnique, TailAhead DEF Ahead

\* A new station's tick goes behind every tick that is due.
LEMMA CreateStationOvertakesNone ==
  ASSUME IInv, IInv', NEW a \in Addr, CreateStation(a), NEW m
  PROVE  NothingOvertakes(m)
<1> SUFFICES ASSUME Overdue(m)'
             PROVE  Ahead(m)' \subseteq Ahead(m)
  BY DEF NothingOvertakes
<1>1. PICK n \in Mem :
        timeout' = Registered(Cancelled(timeout, "eapol_port_timers_tick", {n}),
                              Tick(n, TickPeriod))
  BY DEF CreateStation
<1> DEFINE L == Cancelled(timeout, "eapol_port_timers_tick", {n})
           t == Tick(n, TickPeriod)
<1>2. /\ Sane(L, Without("eapol_port_timers_tick", {n}, Stations))
      /\ \A i \in DOMAIN L :
           ~(L[i].handler = "eapol_port_timers_tick" /\ L[i].sta \in {n})
      /\ Sane(timeout', Stations')
  BY CancelledSane DEF IInv
<1>3. /\ t \in Timeout /\ t.handler = "eapol_port_timers_tick" /\ t.sta = n
      /\ t.due > 0
  BY NewTimeouts, EventLoopAssumption DEF Tick
<1>4. AheadIn(L, m) \subseteq AheadIn(timeout, m)
  BY KeysUnique, CancelledAhead
<1>5. timeout' = Registered(L, t)
  BY <1>1
<1> HIDE DEF L, t
<1>6. AheadIn(timeout', m) \subseteq AheadIn(L, m)
  BY <1>2, <1>3, <1>5, RegisteringOvertakesNone
<1> QED
  BY <1>4, <1>6 DEF Ahead

\* A session timeout goes before a due tick only if it is in the past.
LEMMA SessionTimeoutOvertakesNone ==
  ASSUME IInv, IInv', NEW n \in Mem, NEW secs \in SessionTimeouts,
         Ap_sta_session_timeout(n, secs), NEW m
  PROVE  NothingOvertakes(m)
<1> SUFFICES ASSUME Overdue(m)'
             PROVE  Ahead(m)' \subseteq Ahead(m) \cup InPast'
  BY DEF NothingOvertakes
<1> DEFINE L == Cancelled(timeout, "Ap_handle_session_timer", {n})
           t == Session(n, tv_sec(secs))
<1>1. /\ Sane(L, Without("Ap_handle_session_timer", {n}, Stations))
      /\ \A i \in DOMAIN L :
           ~(L[i].handler = "Ap_handle_session_timer" /\ L[i].sta \in {n})
      /\ Sane(timeout', Stations')
  BY CancelledSane DEF IInv
<1>2. t \in Timeout /\ t.handler = "Ap_handle_session_timer" /\ t.sta = n
  BY NewTimeouts DEF Session
<1>3. AheadIn(L, m) \subseteq AheadIn(timeout, m)
  BY KeysUnique, CancelledAhead
<1>4. timeout' = Registered(L, t)
  BY DEF Ap_sta_session_timeout
<1> HIDE DEF L, t
<1>5. AheadIn(timeout', m) \subseteq AheadIn(L, m) \cup InPast'
  BY <1>1, <1>2, <1>4, RegisteringOvertakesNone
<1> QED
  BY <1>3, <1>5 DEF Ahead

\* Time changes no order.
LEMMA PassOvertakesNone ==
  ASSUME IInv, Pass, NEW m
  PROVE  NothingOvertakes(m)
<1>1. timeout' = [i \in DOMAIN timeout |-> [timeout[i] EXCEPT !.due = @ - 1]]
  BY DEF Pass
<1>2. ASSUME NEW i \in DOMAIN timeout
      PROVE  Key(timeout'[i]) = Key(timeout[i])
  <2>1. timeout[i] \in Timeout /\ timeout'[i] = [timeout[i] EXCEPT !.due = @ - 1]
    BY <1>1 DEF IInv, TypeOK
  <2> QED
    BY <2>1 DEF Timeout, Key
<1>3. DOMAIN timeout' = DOMAIN timeout
  BY <1>1
<1> QED
  BY <1>2, <1>3, UnlinkingOvertakesNone DEF AheadIn

\* One step for each action; the handlers that leave the list alone together.
LEMMA NoStepOvertakes ==
  ASSUME IInv, IInv', [Next]_vars, NEW m \in Mem
  PROVE  /\ NothingOvertakes(m)
         /\ ServeTick \/ ServeSession => ServiceIsProgress(m)
<1>1. ServeTick \/ ServeSession => NothingOvertakes(m) /\ ServiceIsProgress(m)
  BY ServeTickOvertakesNone, ServeSessionOvertakesNone
<1> SUFFICES ASSUME ~(ServeTick \/ ServeSession)
             PROVE  NothingOvertakes(m)
  BY <1>1
<1>2. ASSUME timeout' = timeout
      PROVE  NothingOvertakes(m)
  BY <1>2, UnlinkingOvertakesNone
<1>3. ASSUME NEW S, FreeStations(S)
      PROVE  NothingOvertakes(m)
  <2>1. timeout' = Cancelled(timeout, "eapol_port_timers_tick", S)
    BY <1>3 DEF FreeStations
  <2> QED
    BY <2>1, KeysUnique, CancelledAhead, UnlinkingOvertakesNone
<1>4. CASE Exit
  <2>1. timeout' = <<>> /\ ~Overdue(m)'
    BY <1>4 DEF Exit, Overdue, Ticks
  <2> QED
    BY <2>1 DEF NothingOvertakes
<1>5. CASE Handle_read
  BY <1>2, <1>5, CreateStationOvertakesNone DEF Handle_read, NoNewStation
<1>6. CASE Radius_client_receive
  <2>1. Stations \subseteq Mem
    BY TableFacts
  <2> QED
    BY <1>2, <1>3, <1>6, <2>1, SessionTimeoutOvertakesNone DEF Radius_client_receive
<1>7. CASE SignalUsr1
  BY <1>2, <1>3, <1>7 DEF SignalUsr1, Apd_free_stas
<1>8. CASE Pass
  BY <1>8, PassOvertakesNone
<1>9. CASE StartSelect \/ SelectReports \/ SelectExpires \/ NoTimeout
           \/ Handle_readFails \/ SignalTerm \/ UNCHANGED vars
  BY <1>2, <1>9 DEF StartSelect, SelectReports, SelectExpires, NoTimeout,
     Handle_readFails, SignalTerm, vars
<1> QED
  BY <1>4, <1>5, <1>6, <1>7, <1>8, <1>9 DEF Next, eloop_run

\* Nothing gets ahead of a due tick but a session timer in the past, and every
\* timeout that is served brings a due tick nearer to the head.
THEOREM NothingOvertakesDueTicks == Spec => NoOvertaking
<1> DEFINE A == \A m \in Mem : Overdue(m)' =>
                  /\ Ahead(m)' \subseteq Ahead(m) \cup InPast'
                  /\ ServeTick \/ ServeSession =>
                       Key(Head(timeout)) \in Ahead(m) \ Ahead(m)'
<1>1. IInv /\ IInv' /\ [Next]_vars => [A]_vars
  BY NoStepOvertakes DEF NothingOvertakes, ServiceIsProgress
<1> QED
  BY <1>1, EventLoopInvariant, PTL DEF Spec, NoOvertaking
=============================================================================
