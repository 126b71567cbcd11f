-------------------------- MODULE PppoeServerProofs --------------------------
(***************************************************************************)
(* Proofs about PppoeServer for every set of clients, every number of      *)
(* slots and every set of process identifiers.                             *)
(***************************************************************************)
EXTENDS PppoeServer, TLAPS

(***************************************************************************)
(* What the steps rely on besides the checked invariants: SIGCHLD is        *)
(* blocked exactly while processPADR registers a child, the handler is     *)
(* installed once an entry exists, PipeFull promises a byte, a busy slot   *)
(* has a client, and an open session is one that was not closed, or was    *)
(* before its PADS.                                                        *)
(***************************************************************************)
Auxiliary ==
  /\ masked <=> pc = "register"
  /\ pending => masked
  /\ pc = "register" => cur \in Pids /\ proc[cur] # "none"
  /\ PipeFull => pipe \/ pc = "drained"
  /\ \A p \in Pids : child_table[p] # 0 => installed
  /\ \A n \in BusySessions : eth[n] \in Clients
  /\ \A l \in open \ late : ~sentPADT[l[2]]

IInv == TypeOK /\ SlotsAndChildren /\ NoExitUnnoticed /\ OpenIsBusy /\ Auxiliary

-----------------------------------------------------------------------------
(***************************************************************************)
(* The list operations: taking the head and appending at the end.          *)
(***************************************************************************)
\* The tail of a list without repeats holds all but the head.
LEMMA TailFacts ==
  ASSUME NEW S, NEW s \in Seq(S), s # << >>, NoRepeats(s)
  PROVE  /\ Head(s) \in S
         /\ Tail(s) \in Seq(S)
         /\ NoRepeats(Tail(s))
         /\ On(Head(s), s)
         /\ \A n : On(n, Tail(s)) <=> On(n, s) /\ n # Head(s)
<1>1. /\ Tail(s) \in Seq(S) /\ Len(s) > 0 /\ Head(s) = s[1] /\ s[1] \in S
      /\ DOMAIN s = 1 .. Len(s) /\ DOMAIN Tail(s) = 1 .. (Len(s) - 1)
      /\ Len(s) \in Nat
      /\ \A i \in 1 .. (Len(s) - 1) : Tail(s)[i] = s[i + 1]
  OBVIOUS
<1>2. NoRepeats(Tail(s))
  BY <1>1 DEF NoRepeats
<1>3. ASSUME NEW n, On(n, Tail(s)) PROVE On(n, s) /\ n # Head(s)
  <2>1. PICK i \in 1 .. (Len(s) - 1) : s[i + 1] = n
    BY <1>1, <1>3 DEF On
  <2>2. i + 1 \in DOMAIN s /\ i + 1 # 1 /\ 1 \in DOMAIN s
    BY <1>1
  <2> QED
    BY <1>1, <2>1, <2>2 DEF On, NoRepeats
<1>4. ASSUME NEW n, On(n, s), n # Head(s) PROVE On(n, Tail(s))
  <2>1. PICK i \in 1 .. Len(s) : s[i] = n
    BY <1>1, <1>4 DEF On
  <2>2. i - 1 \in 1 .. (Len(s) - 1) /\ Tail(s)[i - 1] = n
    BY <1>1, <1>4, <2>1
  <2> QED
    BY <1>1, <2>2 DEF On
<1>5. On(Head(s), s)
  BY <1>1 DEF On
<1> QED
  BY <1>1, <1>2, <1>3, <1>4, <1>5

\* Appending a new member keeps the list free of repeats.
LEMMA AppendFacts ==
  ASSUME NEW S, NEW s \in Seq(S), NEW e \in S, NoRepeats(s), ~On(e, s)
  PROVE  /\ Append(s, e) \in Seq(S)
         /\ NoRepeats(Append(s, e))
         /\ \A n : On(n, Append(s, e)) <=> On(n, s) \/ n = e
<1>1. /\ Append(s, e) \in Seq(S) /\ Len(s) \in Nat
      /\ DOMAIN s = 1 .. Len(s) /\ DOMAIN Append(s, e) = 1 .. (Len(s) + 1)
      /\ \A i \in 1 .. Len(s) : Append(s, e)[i] = s[i]
      /\ Append(s, e)[Len(s) + 1] = e
  OBVIOUS
<1>2. \A i \in 1 .. (Len(s) + 1) : i \in 1 .. Len(s) \/ i = Len(s) + 1
  BY <1>1
<1>3. NoRepeats(Append(s, e))
  BY <1>1, <1>2 DEF NoRepeats, On
<1>4. \A n : On(n, Append(s, e)) <=> On(n, s) \/ n = e
  BY <1>1, <1>2 DEF On
<1> QED
  BY <1>1, <1>3, <1>4

(***************************************************************************)
(* The pool: what taking the head for a client, and freeing a slot, do to  *)
(* the two lists.                                                          *)
(***************************************************************************)
LEMMA AllocFacts ==
  ASSUME TypeOK, ListsPartition, FreeSessions # << >>
  PROVE  /\ Head(FreeSessions) \in Slots \ BusySessions
         /\ Tail(FreeSessions) \in Seq(Slots)
         /\ NoRepeats(Tail(FreeSessions))
         /\ \A n : On(n, Tail(FreeSessions)) <=> On(n, FreeSessions) /\ n # Head(FreeSessions)
<1>1. FreeSessions \in Seq(Slots) /\ NoRepeats(FreeSessions)
  BY DEF TypeOK, ListsPartition
<1> QED
  BY <1>1, TailFacts DEF ListsPartition

-----------------------------------------------------------------------------
(***************************************************************************)
(* A step that changes neither a slot nor a process and neither enters nor *)
(* leaves processPADR keeps what relates slots and children.               *)
(***************************************************************************)
LEMMA SlotsKept ==
  ASSUME SlotsAndChildren, UNCHANGED <<slotVars, procVars, cur>>,
         pc' = "register" <=> pc = "register"
  PROVE  SlotsAndChildren'
<1>1. ListsPartition'
  BY DEF SlotsAndChildren, ListsPartition, slotVars
<1>2. SlotHasChild'
  BY DEF SlotsAndChildren, SlotHasChild, BeingRegistered, slotVars, procVars
<1>3. ChildHasSlot'
  BY DEF SlotsAndChildren, ChildHasSlot, slotVars, procVars
<1> QED
  BY <1>1, <1>2, <1>3 DEF SlotsAndChildren

LEMMA TermArrivesStep ==
  ASSUME IInv, TermArrives
  PROVE  IInv'
<1> USE DEF IInv
<1>1. TypeOK'
  BY DEF TypeOK, TermArrives, sig_handler, slotVars, procVars, threadVars, observers
<1>2. SlotsAndChildren'
  BY SlotsKept DEF TermArrives, threadVars
<1>3. NoExitUnnoticed'
  BY DEF NoExitUnnoticed, TypeOK, Zombies, TermArrives, sig_handler, procVars,
         threadVars, observers
<1>4. OpenIsBusy'
  BY DEF OpenIsBusy, TermArrives, slotVars, threadVars, observers
<1>5. Auxiliary'
  BY DEF Auxiliary, TermArrives, sig_handler, slotVars, procVars, threadVars, observers
<1> QED
  BY <1>1, <1>2, <1>3, <1>4, <1>5

LEMMA DoPipeStep ==
  ASSUME IInv, DoPipe
  PROVE  IInv'
<1> USE DEF IInv
<1>1. TypeOK'
  BY DEF TypeOK, DoPipe, slotVars, procVars, observers
<1>2. SlotsAndChildren'
  BY SlotsKept DEF DoPipe
<1>3. NoExitUnnoticed'
  BY DEF NoExitUnnoticed, Zombies, DoPipe, procVars, observers
<1>4. OpenIsBusy'
  BY DEF OpenIsBusy, DoPipe, slotVars, observers
<1>5. Auxiliary'
  BY DEF Auxiliary, DoPipe, slotVars, procVars, observers
<1> QED
  BY <1>1, <1>2, <1>3, <1>4, <1>5

LEMMA ClearPipeFullStep ==
  ASSUME IInv, ClearPipeFull
  PROVE  IInv'
<1> USE DEF IInv
<1>1. TypeOK'
  BY DEF TypeOK, ClearPipeFull, Signals, slotVars, procVars, observers
<1>2. SlotsAndChildren'
  BY SlotsKept DEF ClearPipeFull
<1>3. NoExitUnnoticed'
  BY DEF NoExitUnnoticed, Zombies, ClearPipeFull, procVars, observers
<1>4. OpenIsBusy'
  BY DEF OpenIsBusy, ClearPipeFull, slotVars, observers
<1>5. Auxiliary'
  BY DEF Auxiliary, ClearPipeFull, slotVars, procVars, observers
<1> QED
  BY <1>1, <1>2, <1>3, <1>4, <1>5

LEMMA TestFiredStep ==
  ASSUME IInv, TestFired
  PROVE  IInv'
<1> USE DEF IInv
<1>1. TypeOK'
  BY DEF TypeOK, TestFired, slotVars, procVars, sigVars, observers
<1>2. SlotsAndChildren'
  BY SlotsKept DEF TestFired
<1>3. NoExitUnnoticed'
  BY DEF NoExitUnnoticed, Zombies, TestFired, procVars, sigVars, observers
<1>4. OpenIsBusy'
  BY DEF OpenIsBusy, TestFired, slotVars, observers
<1>5. Auxiliary'
  BY DEF Auxiliary, TestFired, slotVars, procVars, sigVars, observers
<1> QED
  BY <1>1, <1>2, <1>3, <1>4, <1>5

LEMMA ReapDoneStep ==
  ASSUME IInv, ReapDone
  PROVE  IInv'
<1> USE DEF IInv
<1>1. TypeOK'
  BY DEF TypeOK, ReapDone, slotVars, procVars, sigVars, observers
<1>2. SlotsAndChildren'
  BY SlotsKept DEF ReapDone
<1>3. NoExitUnnoticed'
  BY DEF NoExitUnnoticed, Zombies, ReapDone, procVars
<1>4. OpenIsBusy'
  BY DEF OpenIsBusy, ReapDone, slotVars, observers
<1>5. Auxiliary'
  BY DEF Auxiliary, ReapDone, slotVars, procVars, sigVars, observers
<1> QED
  BY <1>1, <1>2, <1>3, <1>4, <1>5

LEMMA ResetFiredStep ==
  ASSUME IInv, ResetFired
  PROVE  IInv'
<1> USE DEF IInv
<1>1. TypeOK'
  BY DEF TypeOK, ResetFired, Zombies, Signals, slotVars, procVars
<1>2. SlotsAndChildren'
  BY SlotsKept DEF ResetFired
<1>3. NoExitUnnoticed'
  BY DEF NoExitUnnoticed, Zombies, ResetFired, procVars
<1>4. OpenIsBusy'
  BY DEF OpenIsBusy, ResetFired, slotVars
<1>5. Auxiliary'
  BY DEF Auxiliary, ResetFired, slotVars, procVars
<1> QED
  BY <1>1, <1>2, <1>3, <1>4, <1>5

LEMMA PADRStep ==
  ASSUME IInv, NEW c \in Clients, PADR(c)
  PROVE  IInv'
<1> USE DEF IInv
<1>1. TypeOK'
  BY ServerAssumption DEF TypeOK, ProcStates, PADR, pppoe_alloc_session, observers
<1>2. ListsPartition'
  <2>1. FreeSessions # << >> /\ FreeSessions' = Tail(FreeSessions)
        /\ BusySessions' = BusySessions \cup {Head(FreeSessions)}
    BY DEF PADR, pppoe_alloc_session
  <2> QED
    BY <2>1, AllocFacts DEF SlotsAndChildren, ListsPartition
<1>3. SlotHasChild'
  BY ServerAssumption
     DEF TypeOK, SlotsAndChildren, SlotHasChild, BeingRegistered, PADR,
         pppoe_alloc_session
<1>4. ChildHasSlot'
  <2>1. PICK n \in Slots, q \in Pids :
          /\ proc[q] = "none" /\ n = Head(FreeSessions) /\ FreeSessions # << >>
          /\ BusySessions' = BusySessions \cup {n}
          /\ pid' = [pid EXCEPT ![n] = 0]
          /\ proc' = [proc EXCEPT ![q] = "forked"]
          /\ job' = [job EXCEPT ![q] = n]
          /\ cur' = q
    BY DEF PADR, pppoe_alloc_session
  <2>2. pc = "select" /\ pc' = "register" /\ UNCHANGED child_table
    BY DEF PADR
  <2>3. n \notin BusySessions
    BY <2>1, AllocFacts DEF SlotsAndChildren
  <2>4. ASSUME NEW r \in Pids, r = q
        PROVE  child_table'[r] = 0 /\ job'[r] \in BusySessions'
    BY <2>1, <2>2, <2>4 DEF TypeOK, SlotsAndChildren, ChildHasSlot
  <2>5. ASSUME NEW r \in Pids, r # q, proc[r] = "none"
        PROVE  child_table'[r] = 0 /\ proc'[r] = "none"
    BY <2>1, <2>2, <2>5 DEF SlotsAndChildren, ChildHasSlot
  <2>6. ASSUME NEW r \in Pids, r # q, proc[r] # "none"
        PROVE  /\ proc'[r] # "none"
               /\ job'[r] \in BusySessions' /\ child_table'[r] = job'[r] /\ pid'[job'[r]] = r
    BY <2>1, <2>2, <2>3, <2>6 DEF SlotsAndChildren, ChildHasSlot
  <2> QED
    BY <2>1, <2>2, <2>4, <2>5, <2>6 DEF ChildHasSlot
<1>5. NoExitUnnoticed'
  <2>1. pc = "select" /\ pc' = "register" /\ UNCHANGED <<missed, pending, fired, pipe>>
    BY DEF PADR, observers
  <2>2. \A q \in Pids : proc'[q] = "zombie" => proc[q] = "zombie"
    BY DEF PADR
  <2> QED
    BY <2>1, <2>2 DEF NoExitUnnoticed, Zombies
<1>6. OpenIsBusy'
  <2>1. pc' = "register" /\ UNCHANGED <<open, late>> /\ FreeSessions # << >>
        /\ BusySessions' = BusySessions \cup {Head(FreeSessions)}
        /\ \A m \in Slots : m # Head(FreeSessions) => eth'[m] = eth[m]
    BY DEF PADR, pppoe_alloc_session, observers
  <2> QED
    BY <2>1, AllocFacts DEF OpenIsBusy, TypeOK, SlotsAndChildren
<1>7. Auxiliary'
  BY ServerAssumption DEF Auxiliary, TypeOK, PADR, pppoe_alloc_session, observers
<1> QED
  BY <1>1, <1>2, <1>3, <1>4, <1>5, <1>6, <1>7 DEF SlotsAndChildren

LEMMA PADRForkFailsStep ==
  ASSUME IInv, NEW c \in Clients, PADRForkFails(c)
  PROVE  IInv'
<1> USE DEF IInv
<1>1. TypeOK'
  BY ServerAssumption
     DEF TypeOK, PADRForkFails, procVars, threadVars, sigVars, observers
<1>2. ListsPartition'
  <2> DEFINE n == Head(FreeSessions)
  <2>1. FreeSessions # << >> /\ BusySessions' = BusySessions
        /\ FreeSessions' = Append(Tail(FreeSessions), n)
    BY DEF PADRForkFails
  <2>2. /\ n \in Slots \ BusySessions
        /\ Tail(FreeSessions) \in Seq(Slots)
        /\ NoRepeats(Tail(FreeSessions))
        /\ ~On(n, Tail(FreeSessions))
        /\ \A m : On(m, Tail(FreeSessions)) <=> On(m, FreeSessions) /\ m # n
    BY <2>1, AllocFacts DEF SlotsAndChildren
  <2>3. /\ NoRepeats(FreeSessions')
        /\ \A m : On(m, FreeSessions') <=> On(m, Tail(FreeSessions)) \/ m = n
    BY <2>1, <2>2, AppendFacts
  <2>4. On(n, FreeSessions)
    BY <2>2 DEF SlotsAndChildren, ListsPartition
  <2> QED
    BY <2>1, <2>2, <2>3, <2>4 DEF SlotsAndChildren, ListsPartition
<1>3. SlotHasChild'
  <2>1. /\ FreeSessions # << >> /\ UNCHANGED <<BusySessions, procVars, threadVars, sigVars, observers>>
        /\ pid' = [pid EXCEPT ![Head(FreeSessions)] = 0]
        /\ sentPADT' = [sentPADT EXCEPT ![Head(FreeSessions)] = FALSE]
        /\ eth' = [eth EXCEPT ![Head(FreeSessions)] = c]
    BY DEF PADRForkFails
  <2>2. Head(FreeSessions) \in Slots \ BusySessions
    BY <2>1, AllocFacts DEF SlotsAndChildren
  <2> QED
    BY <2>1, <2>2
       DEF SlotsAndChildren, SlotHasChild, BeingRegistered, procVars, threadVars
<1>4. ChildHasSlot'
  <2>1. /\ FreeSessions # << >> /\ UNCHANGED <<BusySessions, procVars, threadVars, sigVars, observers>>
        /\ pid' = [pid EXCEPT ![Head(FreeSessions)] = 0]
        /\ sentPADT' = [sentPADT EXCEPT ![Head(FreeSessions)] = FALSE]
        /\ eth' = [eth EXCEPT ![Head(FreeSessions)] = c]
    BY DEF PADRForkFails
  <2>2. Head(FreeSessions) \in Slots \ BusySessions
    BY <2>1, AllocFacts DEF SlotsAndChildren
  <2> QED
    BY <2>1, <2>2 DEF SlotsAndChildren, ChildHasSlot, procVars, threadVars
<1>5. NoExitUnnoticed'
  BY ServerAssumption
     DEF NoExitUnnoticed, Zombies, PADRForkFails, procVars, sigVars, observers
<1>6. OpenIsBusy'
  <2>1. /\ FreeSessions # << >> /\ UNCHANGED <<BusySessions, procVars, threadVars, sigVars, observers>>
        /\ pid' = [pid EXCEPT ![Head(FreeSessions)] = 0]
        /\ sentPADT' = [sentPADT EXCEPT ![Head(FreeSessions)] = FALSE]
        /\ eth' = [eth EXCEPT ![Head(FreeSessions)] = c]
    BY DEF PADRForkFails
  <2>2. Head(FreeSessions) \in Slots \ BusySessions
    BY <2>1, AllocFacts DEF SlotsAndChildren
  <2> QED
    BY <2>1, <2>2 DEF OpenIsBusy, observers, threadVars
<1>7. Auxiliary'
  BY ServerAssumption
     DEF Auxiliary, PADRForkFails, procVars, threadVars, sigVars, observers
<1> QED
  BY <1>1, <1>2, <1>3, <1>4, <1>5, <1>6, <1>7 DEF SlotsAndChildren

LEMMA RegisterStep ==
  ASSUME IInv, Register
  PROVE  IInv'
<1> USE DEF IInv
<1>1. TypeOK'
  BY ServerAssumption DEF TypeOK, Register, sig_handler, observers
<1>2. ListsPartition'
  BY DEF SlotsAndChildren, ListsPartition, Register
<1>3. SlotHasChild'
  <2>1. /\ pc = "register" /\ pc' = "select" /\ UNCHANGED <<BusySessions, proc, job>>
        /\ cur \in Pids /\ proc[cur] # "none" /\ job[cur] \in BusySessions
        /\ pid' = [pid EXCEPT ![job[cur]] = cur]
        /\ child_table' = [child_table EXCEPT ![cur] = job[cur]]
    BY DEF Register, Auxiliary, SlotsAndChildren, ChildHasSlot
  <2>2. ASSUME NEW n \in Slots, n = job[cur]
        PROVE  n \in BusySessions' /\ pid'[n] = cur /\ child_table'[cur] = n
    BY <2>1, <2>2 DEF TypeOK
  <2>3. ASSUME NEW n \in BusySessions, n # job[cur]
        PROVE  /\ pid'[n] = pid[n] /\ pid[n] \in Pids
               /\ proc[pid[n]] # "none" /\ child_table'[pid[n]] = n
    <3>1. pid[n] \in Pids /\ proc[pid[n]] # "none" /\ child_table[pid[n]] = n
      BY <2>1, <2>3 DEF TypeOK, SlotsAndChildren, SlotHasChild, BeingRegistered
    <3>2. child_table[cur] = 0 /\ n # 0
      BY <2>1, ServerAssumption DEF SlotsAndChildren, ChildHasSlot, TypeOK, Slots
    <3> QED
      BY <2>1, <2>3, <3>1, <3>2
  <2>4. ASSUME NEW n \in Slots \ BusySessions
        PROVE  pid'[n] = 0
    BY <2>1, <2>4 DEF SlotsAndChildren, SlotHasChild
  <2> QED
    BY <2>1, <2>2, <2>3, <2>4 DEF SlotHasChild, BeingRegistered
<1>4. ChildHasSlot'
  BY ServerAssumption
     DEF TypeOK, Auxiliary, SlotsAndChildren, SlotHasChild, ChildHasSlot,
         BeingRegistered, Register
<1>5. NoExitUnnoticed'
  BY ServerAssumption
     DEF NoExitUnnoticed, Auxiliary, TypeOK, Zombies, Signals, Register, sig_handler,
         observers
<1>6. OpenIsBusy'
  BY ServerAssumption DEF OpenIsBusy, Register, observers
<1>7. Auxiliary'
  BY ServerAssumption DEF Auxiliary, Register, sig_handler, observers
<1> QED
  BY <1>1, <1>2, <1>3, <1>4, <1>5, <1>6, <1>7 DEF SlotsAndChildren

LEMMA PADTStep ==
  ASSUME IInv, NEW c \in Clients, NEW n \in Slots, PADT(c, n)
  PROVE  IInv'
<1> USE DEF IInv
<1>1. TypeOK'
  BY ServerAssumption DEF TypeOK, PADT, PppoeStopSession, kill, procVars, threadVars
<1>2. ListsPartition'
  BY DEF SlotsAndChildren, ListsPartition, PADT
<1>3. SlotHasChild'
  BY ServerAssumption
     DEF SlotsAndChildren, SlotHasChild, BeingRegistered, PADT, procVars, threadVars
<1>4. ChildHasSlot'
  BY ServerAssumption DEF SlotsAndChildren, ChildHasSlot, PADT, procVars, threadVars
<1>5. NoExitUnnoticed'
  BY ServerAssumption
     DEF NoExitUnnoticed, Auxiliary, Zombies, PADT, PppoeStopSession, kill, procVars
<1>6. OpenIsBusy'
  BY ServerAssumption DEF OpenIsBusy, PADT, PppoeStopSession, threadVars
<1>7. Auxiliary'
  BY ServerAssumption
     DEF Auxiliary, OpenIsBusy, TypeOK, PADT, PppoeStopSession, Told, kill, procVars,
         threadVars
<1> QED
  BY <1>1, <1>2, <1>3, <1>4, <1>5, <1>6, <1>7 DEF SlotsAndChildren

LEMMA SendPADSStep ==
  ASSUME IInv, pc # "exited", NEW p \in Pids, SendPADS(p)
  PROVE  IInv'
<1> USE DEF IInv
<1>1. TypeOK'
  BY ServerAssumption
     DEF TypeOK, Auxiliary, SlotsAndChildren, ChildHasSlot, ProcStates, SendPADS, Told,
         slotVars, threadVars, sigVars
<1>2. ListsPartition'
  BY DEF SlotsAndChildren, ListsPartition, SendPADS, slotVars
<1>3. SlotHasChild'
  BY ServerAssumption
     DEF SlotsAndChildren, SlotHasChild, BeingRegistered, SendPADS, slotVars, threadVars
<1>4. ChildHasSlot'
  BY ServerAssumption DEF SlotsAndChildren, ChildHasSlot, SendPADS, slotVars, threadVars
<1>5. NoExitUnnoticed'
  BY ServerAssumption DEF NoExitUnnoticed, Zombies, SendPADS, threadVars, sigVars
<1>6. OpenIsBusy'
  <2>1. job[p] \in BusySessions
    BY DEF SendPADS, SlotsAndChildren, ChildHasSlot
  <2> QED
    BY <2>1 DEF OpenIsBusy, SendPADS, Told, slotVars, threadVars
<1>7. Auxiliary'
  BY ServerAssumption DEF Auxiliary, SendPADS, Told, slotVars, threadVars, sigVars
<1> QED
  BY <1>1, <1>2, <1>3, <1>4, <1>5, <1>6, <1>7 DEF SlotsAndChildren

LEMMA ExecStep ==
  ASSUME IInv, NEW p \in Pids, Exec(p)
  PROVE  IInv'
<1> USE DEF IInv
<1>1. TypeOK'
  BY ServerAssumption
     DEF TypeOK, ProcStates, Exec, slotVars, threadVars, sigVars, observers
<1>2. ListsPartition'
  BY DEF SlotsAndChildren, ListsPartition, Exec, slotVars
<1>3. SlotHasChild'
  BY ServerAssumption
     DEF SlotsAndChildren, SlotHasChild, BeingRegistered, Exec, slotVars, threadVars
<1>4. ChildHasSlot'
  BY ServerAssumption DEF SlotsAndChildren, ChildHasSlot, Exec, slotVars, threadVars
<1>5. NoExitUnnoticed'
  BY ServerAssumption
     DEF NoExitUnnoticed, TypeOK, Zombies, Exec, threadVars, sigVars, observers
<1>6. OpenIsBusy'
  BY ServerAssumption DEF OpenIsBusy, Exec, slotVars, threadVars, observers
<1>7. Auxiliary'
  BY ServerAssumption DEF Auxiliary, Exec, slotVars, threadVars, sigVars, observers
<1> QED
  BY <1>1, <1>2, <1>3, <1>4, <1>5, <1>6, <1>7 DEF SlotsAndChildren

LEMMA ChildExitsStep ==
  ASSUME IInv, NEW p \in Pids, ChildExits(p)
  PROVE  IInv'
<1> USE DEF IInv
<1>1. TypeOK'
  BY ServerAssumption
     DEF TypeOK, ProcStates, ChildExits, raise_SIGCHLD, sig_handler, slotVars,
         threadVars, observers
<1>2. ListsPartition'
  BY DEF SlotsAndChildren, ListsPartition, ChildExits, slotVars
<1>3. SlotHasChild'
  BY ServerAssumption
     DEF SlotsAndChildren, SlotHasChild, BeingRegistered, ChildExits, slotVars,
         threadVars
<1>4. ChildHasSlot'
  BY ServerAssumption
     DEF SlotsAndChildren, ChildHasSlot, ChildExits, slotVars, threadVars
<1>5. NoExitUnnoticed'
  <2>1. \A q \in Pids : proc'[q] = "zombie" => proc[q] = "zombie" \/ q = p
    BY DEF ChildExits
  <2>2. UNCHANGED <<pc, sig, missed, masked, installed>>
    BY DEF ChildExits, threadVars, observers
  <2>3. CASE masked
    BY <2>1, <2>2, <2>3 DEF NoExitUnnoticed, ChildExits, raise_SIGCHLD
  <2>4. CASE ~masked
    <3>1. pc # "register" /\ installed
      BY <2>4, ServerAssumption
         DEF Auxiliary, ChildExits, SlotsAndChildren, ChildHasSlot, TypeOK, Slots
    <3>2. fired'["SIGCHLD"] /\ pipe' = (pipe \/ ~PipeFull)
      BY <2>4, <3>1 DEF ChildExits, raise_SIGCHLD, sig_handler, TypeOK, Signals
    <3>3. pipe' \/ pc = "drained"
      BY <3>2 DEF Auxiliary
    <3> QED
      BY <2>2, <3>2, <3>3 DEF NoExitUnnoticed
  <2> QED
    BY <2>3, <2>4
<1>6. OpenIsBusy'
  BY ServerAssumption DEF OpenIsBusy, ChildExits, slotVars, threadVars, observers
<1>7. Auxiliary'
  BY ServerAssumption
     DEF Auxiliary, TypeOK, ChildExits, raise_SIGCHLD, sig_handler, slotVars,
         threadVars, observers
<1> QED
  BY <1>1, <1>2, <1>3, <1>4, <1>5, <1>6, <1>7 DEF SlotsAndChildren

LEMMA termHandlerStep ==
  ASSUME IInv, termHandler
  PROVE  IInv'
<1> USE DEF IInv
<1>1. TypeOK'
  BY ServerAssumption DEF TypeOK, termHandler, PppoeStopSession, kill, procVars
<1>2. ListsPartition'
  BY DEF SlotsAndChildren, ListsPartition, termHandler
<1>3. SlotHasChild'
  BY ServerAssumption
     DEF SlotsAndChildren, SlotHasChild, BeingRegistered, termHandler, procVars
<1>4. ChildHasSlot'
  BY ServerAssumption DEF SlotsAndChildren, ChildHasSlot, termHandler, procVars
<1>5. NoExitUnnoticed'
  BY ServerAssumption DEF NoExitUnnoticed, termHandler
<1>6. OpenIsBusy'
  BY ServerAssumption DEF OpenIsBusy, TypeOK, termHandler, PppoeStopSession, Told
<1>7. Auxiliary'
  BY ServerAssumption
     DEF Auxiliary, OpenIsBusy, TypeOK, termHandler, PppoeStopSession, Told, kill,
         procVars
<1> QED
  BY <1>1, <1>2, <1>3, <1>4, <1>5, <1>6, <1>7 DEF SlotsAndChildren

LEMMA child_handlerStep ==
  ASSUME IInv, NEW p \in Pids, child_handler(p)
  PROVE  IInv'
<1> USE DEF IInv
<1>1. TypeOK'
  <2> DEFINE n == child_table[p]
  <2>1. CASE n \in BusySessions
    <3>1. n \in Slots /\ FreeSessions \in Seq(Slots)
      BY <2>1 DEF TypeOK
    <3>2. FreeSessions' = Append(FreeSessions, n)
      BY <2>1, <3>1 DEF child_handler, childHandler, pppoe_free_session
    <3>3. FreeSessions' \in Seq(Slots)
      BY <3>1, <3>2
    <3> QED
      BY <2>1, <3>1, <3>3, ServerAssumption
         DEF TypeOK, ProcStates, child_handler, childHandler, pppoe_free_session,
             threadVars, sigVars
  <2>2. CASE n \notin BusySessions
    BY <2>2, ServerAssumption
       DEF TypeOK, ProcStates, child_handler, childHandler, pppoe_free_session,
           slotVars, threadVars, sigVars
  <2> QED
    BY <2>1, <2>2
<1>2. ListsPartition'
  <2> DEFINE n == child_table[p]
  <2>1. FreeSessions \in Seq(Slots) /\ ListsPartition
    BY DEF TypeOK, SlotsAndChildren
  <2>2. CASE n \in BusySessions
    <3>1. n \in Slots /\ ~On(n, FreeSessions)
      BY <2>1, <2>2 DEF TypeOK, ListsPartition
    <3>2. /\ BusySessions' = BusySessions \ {n}
          /\ FreeSessions' = Append(FreeSessions, n)
      BY <2>2, <3>1 DEF child_handler, childHandler, pppoe_free_session
    <3>3. /\ NoRepeats(FreeSessions')
          /\ \A m : On(m, FreeSessions') <=> On(m, FreeSessions) \/ m = n
      BY <2>1, <3>1, <3>2, AppendFacts DEF ListsPartition
    <3>4. \A m \in Slots : m \in BusySessions' <=> ~On(m, FreeSessions')
      BY <2>1, <3>2, <3>3 DEF ListsPartition
    <3> QED
      BY <3>3, <3>4 DEF ListsPartition
  <2>3. CASE n \notin BusySessions
    <3>1. UNCHANGED <<FreeSessions, BusySessions>>
      BY <2>3 DEF child_handler, childHandler, pppoe_free_session, slotVars
    <3> QED
      BY <2>1, <3>1 DEF ListsPartition
  <2> QED
    BY <2>2, <2>3
<1>3. SlotHasChild'
  BY ServerAssumption
     DEF TypeOK, SlotsAndChildren, SlotHasChild, ChildHasSlot, BeingRegistered,
         child_handler, childHandler, pppoe_free_session, threadVars
<1>4. ChildHasSlot'
  BY ServerAssumption
     DEF TypeOK, SlotsAndChildren, ChildHasSlot, child_handler, childHandler,
         pppoe_free_session, threadVars
<1>5. NoExitUnnoticed'
  BY ServerAssumption DEF NoExitUnnoticed, child_handler, threadVars
<1>6. OpenIsBusy'
  BY ServerAssumption
     DEF OpenIsBusy, Auxiliary, TypeOK, SlotsAndChildren, ChildHasSlot, child_handler,
         childHandler, pppoe_free_session, Told, threadVars
<1>7. Auxiliary'
  <2>1. /\ masked' <=> pc' = "register"
        /\ pending' => masked'
        /\ pc' = "register" => cur' \in Pids /\ proc'[cur'] # "none"
        /\ PipeFull' => pipe' \/ pc' = "drained"
        /\ \A q \in Pids : child_table'[q] # 0 => installed'
    BY ServerAssumption DEF Auxiliary, TypeOK, child_handler, threadVars, sigVars
  <2>2. /\ BusySessions' \subseteq BusySessions /\ eth' = eth
        /\ open' \ late' \subseteq open \ late
    BY DEF child_handler, childHandler, pppoe_free_session, slotVars
  <2>3. ASSUME NEW l \in open \ late, sentPADT'[l[2]] # sentPADT[l[2]]
        PROVE  ~sentPADT'[l[2]]
    BY <2>3 DEF Auxiliary, OpenIsBusy, TypeOK, child_handler, childHandler,
                pppoe_free_session, slotVars
  <2> QED
    BY <2>1, <2>2, <2>3 DEF Auxiliary
<1> QED
  BY <1>1, <1>2, <1>3, <1>4, <1>5, <1>6, <1>7 DEF SlotsAndChildren

-----------------------------------------------------------------------------
(***************************************************************************)
(* The theorems.                                                           *)
(***************************************************************************)
LEMMA InitOK == Init => IInv
<1> SUFFICES ASSUME Init PROVE IInv
  OBVIOUS
<1>1. /\ FreeSessions = [n \in Slots |-> n] /\ Slots = 1 .. NumSessionSlots
      /\ NumSessionSlots \in Nat
  BY ServerAssumption DEF Init, Slots
<1>2. FreeSessions \in Seq(Slots)
  BY <1>1
<1>3. TypeOK
  BY <1>2 DEF Init, TypeOK, ProcStates, Signals
<1>4. SlotsAndChildren
  BY <1>1
     DEF Init, SlotsAndChildren, ListsPartition, NoRepeats, On, SlotHasChild,
         ChildHasSlot
<1>5. NoExitUnnoticed /\ OpenIsBusy /\ Auxiliary
  BY DEF Init, NoExitUnnoticed, Zombies, OpenIsBusy, Auxiliary
<1> QED
  BY <1>3, <1>4, <1>5 DEF IInv

LEMMA StutterOK ==
  ASSUME IInv, UNCHANGED vars
  PROVE  IInv'
<1> USE DEF IInv
<1>1. UNCHANGED <<slotVars, procVars, threadVars, sigVars, observers>>
  BY DEF vars
<1>2. TypeOK'
  BY <1>1 DEF TypeOK, slotVars, procVars, threadVars, sigVars, observers
<1>3. SlotsAndChildren'
  BY <1>1, SlotsKept DEF threadVars
<1>4. NoExitUnnoticed' /\ OpenIsBusy' /\ Auxiliary'
  BY <1>1
     DEF NoExitUnnoticed, Zombies, OpenIsBusy, Auxiliary, slotVars, procVars,
         threadVars, sigVars, observers
<1> QED
  BY <1>2, <1>3, <1>4

LEMMA NextOK ==
  ASSUME IInv, [Next]_vars
  PROVE  IInv'
<1>1. CASE TermArrives
  BY <1>1, TermArrivesStep
<1>2. ASSUME NEW c \in Clients, PADR(c) \/ PADRForkFails(c) PROVE IInv'
  BY <1>2, PADRStep, PADRForkFailsStep
<1>3. ASSUME NEW c \in Clients, NEW n \in Slots, PADT(c, n) PROVE IInv'
  BY <1>3, PADTStep
<1>4. ASSUME pc # "exited", NEW p \in Pids, SendPADS(p) \/ Exec(p) \/ ChildExits(p)
      PROVE  IInv'
  BY <1>4, SendPADSStep, ExecStep, ChildExitsStep
<1>5. CASE ServerStep
  BY <1>5, RegisterStep, DoPipeStep, ClearPipeFullStep, TestFiredStep, termHandlerStep,
     child_handlerStep, ReapDoneStep, ResetFiredStep
     DEF ServerStep
<1>6. CASE UNCHANGED vars
  BY <1>6, StutterOK
<1> QED
  BY <1>1, <1>2, <1>3, <1>4, <1>5, <1>6 DEF Next

\* Every reachable state satisfies the inductive invariant: the five parts
\* hold together, for each needs the others to survive a step.
THEOREM Inductive == SafetySpec => []IInv
<1> QED
  BY InitOK, NextOK, PTL DEF SafetySpec

\* The values of the variables of pppoe-server.c and event_sig.c keep their
\* types: no handler is called for an entry that was never made.
THEOREM TypeCorrect == Spec => []TypeOK
<1>1. IInv => TypeOK
  BY DEF IInv
<1> QED
  BY <1>1, Inductive, PTL DEF Spec

\* The free list, the busy list, the pids and child_process_table agree after
\* any sequence of PADRs, PADTs, signals and exits: a slot has one living
\* child while it is busy, and the SIGTERM of PppoeStopSession can reach
\* nothing else.
THEOREM SlotsAndChildrenAgree == Spec => []SlotsAndChildren
<1>1. IInv => SlotsAndChildren
  BY DEF IInv
<1> QED
  BY <1>1, Inductive, PTL DEF Spec

\* DoPipe and sig_handler lose the exit of a child only in the window before
\* fired = 0, and processPADR loses none, its first child's included.
THEOREM ExitsNoticed == Spec => []NoExitUnnoticed
<1>1. IInv => NoExitUnnoticed
  BY DEF IInv
<1> QED
  BY <1>1, Inductive, PTL DEF Spec

\* A session that a client believes in is a busy slot of that client, unless
\* the PADS it was told with followed the PADT that closed the session: line 224
\* of pppoe-server.c then skips the PADT when the child ends.
THEOREM OpenSessionsAreBusy == Spec => []OpenIsBusy
<1>1. IInv => OpenIsBusy
  BY DEF IInv
<1> QED
  BY <1>1, Inductive, PTL DEF Spec

-----------------------------------------------------------------------------
(***************************************************************************)
(* The refinement.  Only processPADR, childHandler and the exit touch a    *)
(* number a client holds; the other steps tell clients of one or of its    *)
(* end.                                                                    *)
(***************************************************************************)
NumberStep == [SlotNumbers!NumNext]_(SlotNumbers!numVars)

\* A step that leaves the busy slots and their clients alone and tells nobody
\* of a session can only have told of ends.
LEMMA HeldKept ==
  ASSUME UNCHANGED <<BusySessions, eth>>, open' \subseteq open, late' = late \cap open',
         pc' = "exited" <=> pc = "exited"
  PROVE  NumberStep
<1>1. Held' = Held
  BY DEF Held, Told
<1> QED
  BY <1>1 DEF NumberStep, SlotNumbers!NumNext, SlotNumbers!Retract

LEMMA NumbersPADR ==
  ASSUME IInv, NEW c \in Clients, PADR(c)
  PROVE  NumberStep
<1>1. PICK n \in Slots : pppoe_alloc_session(n, c)
  BY DEF PADR
<1>2. n \notin BusySessions
  BY <1>1, AllocFacts DEF IInv, SlotsAndChildren, pppoe_alloc_session
<1>3. /\ BusySessions' = BusySessions \cup {n}
      /\ eth'[n] = c /\ \A m \in BusySessions : eth'[m] = eth[m]
  BY <1>1, <1>2 DEF IInv, TypeOK, pppoe_alloc_session
<1>4. Held' = Held \cup {<<c, n>>}
  BY <1>3 DEF Held, Told, PADR
<1>5. \A l \in Held : l[2] # n
  BY <1>2 DEF Held, Told
<1>6. UNCHANGED <<open, late>>
  BY DEF PADR, observers
<1>7. SlotNumbers!Give(c, n)
  BY <1>4, <1>5, <1>6 DEF SlotNumbers!Give
<1> QED
  BY <1>7 DEF NumberStep, SlotNumbers!NumNext

LEMMA NumbersPADRForkFails ==
  ASSUME IInv, NEW c \in Clients, PADRForkFails(c)
  PROVE  NumberStep
<1>1. Head(FreeSessions) \notin BusySessions
  BY AllocFacts DEF IInv, SlotsAndChildren, PADRForkFails
<1>2. BusySessions' = BusySessions /\ \A m \in BusySessions : eth'[m] = eth[m]
  BY <1>1 DEF IInv, TypeOK, PADRForkFails
<1>3. Held' = Held /\ UNCHANGED <<open, late>>
  BY <1>2 DEF Held, Told, PADRForkFails, threadVars, observers
<1> QED
  BY <1>3 DEF NumberStep, SlotNumbers!numVars

\* What a client was told of last rightly it holds.
LEMMA OpenIsHeld ==
  ASSUME IInv
  PROVE  open \ late \subseteq Told(BusySessions)
<1>1. ASSUME NEW l \in open \ late PROVE l \in Told(BusySessions)
  <2>1. l = <<l[1], l[2]>> /\ l[2] \in BusySessions /\ eth[l[2]] = l[1]
    BY DEF IInv, TypeOK, OpenIsBusy
  <2> QED
    BY <2>1 DEF Told
<1> QED
  BY <1>1

LEMMA NumbersSendPADS ==
  ASSUME IInv, pc # "exited", NEW p \in Pids, SendPADS(p)
  PROVE  NumberStep
<1> DEFINE c == eth[job[p]]
<1> DEFINE n == job[p]
<1>1. BusySessions' = BusySessions /\ eth' = eth /\ pc' = pc
  BY DEF SendPADS, slotVars, threadVars
<1>2. n \in BusySessions
  BY DEF IInv, SlotsAndChildren, ChildHasSlot, SendPADS
<1>3. c \in Clients /\ n \in Slots /\ Told({n}) = {<<c, n>>}
  BY <1>2 DEF IInv, TypeOK, Auxiliary, Told
<1>4. <<c, n>> \in Held /\ Held' = Held
  BY <1>1, <1>2 DEF Held, Told
<1>5. CASE sentPADT[n]
  <2>1. open' = open \cup {<<c, n>>} /\ late' = late \cup {<<c, n>>}
    BY <1>3, <1>5 DEF SendPADS
  <2>2. <<c, n>> \notin open \ late
    BY <1>5 DEF IInv, Auxiliary
  <2>3. SlotNumbers!Mislead(c, n)
    BY <1>3, <1>4, <2>1, <2>2 DEF SlotNumbers!Mislead
  <2> QED
    BY <1>3, <2>3 DEF NumberStep, SlotNumbers!NumNext
<1>6. CASE ~sentPADT[n]
  <2>1. open' = open \cup {<<c, n>>} /\ late' = late \ {<<c, n>>}
    BY <1>3, <1>6 DEF SendPADS
  <2>2. SlotNumbers!Tell(c, n)
    BY <1>4, <2>1 DEF SlotNumbers!Tell, SlotNumbers!Inform
  <2> QED
    BY <1>3, <2>2 DEF NumberStep, SlotNumbers!NumNext
<1> QED
  BY <1>5, <1>6

LEMMA NumbersTermHandler ==
  ASSUME IInv, termHandler
  PROVE  NumberStep
<1>1. Held' = {} /\ open' \subseteq open /\ late' = late \cap open' /\ open' \subseteq late'
  BY OpenIsHeld DEF IInv, TypeOK, Held, termHandler, PppoeStopSession
<1>2. SlotNumbers!TakeBack
  BY <1>1 DEF SlotNumbers!TakeBack
<1> QED
  BY <1>2 DEF NumberStep, SlotNumbers!NumNext

LEMMA NumbersChildHandler ==
  ASSUME IInv, NEW p \in Pids, child_handler(p)
  PROVE  NumberStep
<1>0. late \subseteq open
  BY DEF IInv, TypeOK
<1>1. CASE child_table[p] \notin Slots
  BY <1>0, <1>1, HeldKept DEF child_handler, slotVars, threadVars
<1>2. CASE child_table[p] \in Slots
  <2> DEFINE n == child_table[p]
  <2>1. n \in BusySessions
    BY <1>2 DEF IInv, SlotsAndChildren, ChildHasSlot, child_handler, Slots
  <2>2. /\ BusySessions' = BusySessions \ {n} /\ eth' = eth
        /\ IF sentPADT[n] THEN UNCHANGED <<open, late>>
                          ELSE open' = open \ Told({n}) /\ late' = late \ Told({n})
    BY <1>2, <2>1 DEF child_handler, childHandler, pppoe_free_session
  <2>3. Told(BusySessions)' = Told(BusySessions) \ {<<eth[n], n>>}
    BY <2>2 DEF Told
  <2>4. open \ late \subseteq Told(BusySessions)
    BY OpenIsHeld
  <2>5. sentPADT[n] => <<eth[n], n>> \notin open \ late
    BY DEF IInv, Auxiliary
  <2>6. open' \ late' = (open \ late) \cap Told(BusySessions)'
    BY <2>2, <2>3, <2>4, <2>5 DEF Told
  <2>7. Held = Told(BusySessions) /\ Held' = Told(BusySessions)'
    BY DEF Held, child_handler, threadVars
  <2>8. open' \subseteq open /\ late' = late \cap open'
    BY <1>0, <2>2
  <2>9. SlotNumbers!TakeBack
    BY <2>3, <2>6, <2>7, <2>8 DEF SlotNumbers!TakeBack
  <2> QED
    BY <2>9 DEF NumberStep, SlotNumbers!NumNext
<1> QED
  BY <1>1, <1>2

LEMMA NumbersNext ==
  ASSUME IInv, [Next]_vars
  PROVE  NumberStep
<1>0. late \subseteq open
  BY DEF IInv, TypeOK
<1>1. ASSUME NEW c \in Clients, PADR(c) \/ PADRForkFails(c) PROVE NumberStep
  BY <1>1, NumbersPADR, NumbersPADRForkFails
<1>2. ASSUME NEW c \in Clients, NEW n \in Slots, PADT(c, n) PROVE NumberStep
  BY <1>0, <1>2, HeldKept DEF PADT, PppoeStopSession, threadVars
<1>3. ASSUME pc # "exited", NEW p \in Pids, SendPADS(p) \/ Exec(p) \/ ChildExits(p)
      PROVE  NumberStep
  BY <1>0, <1>3, NumbersSendPADS, HeldKept DEF Exec, ChildExits, slotVars, threadVars, observers
<1>4. CASE ServerStep
  BY <1>0, <1>4, NumbersTermHandler, NumbersChildHandler, HeldKept
     DEF ServerStep, Register, DoPipe, ClearPipeFull, TestFired, ReapDone, ResetFired,
         slotVars, observers
<1>5. CASE TermArrives \/ UNCHANGED vars
  BY <1>0, <1>5, HeldKept DEF TermArrives, vars, slotVars, threadVars, observers
<1> QED
  BY <1>1, <1>2, <1>3, <1>4, <1>5 DEF Next

\* The slots of pppoe-server.c implement SessionNumbers: whatever order late
\* and repeated PADTs, lost signals, exits and the reuse of slots come in, a
\* number goes to another client only after the first was told of its end,
\* unless the first got its PADS after the PADT that closed its session.
THEOREM SessionNumbersImplemented == Spec => ImplementsSessionNumbers
<1>1. Init => SlotNumbers!NumInit
  BY DEF Init, Held, Told, SlotNumbers!NumInit
<1>2. IInv /\ [Next]_vars => NumberStep
  BY NumbersNext
<1> QED
  BY <1>1, <1>2, Inductive, PTL
     DEF Spec, SafetySpec, ImplementsSessionNumbers, SlotNumbers!NumSpec, NumberStep

=============================================================================
