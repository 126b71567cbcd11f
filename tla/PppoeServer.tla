----------------------------- MODULE PppoeServer -----------------------------
(***************************************************************************)
(* The PPPoE server of pkg/pppoe-server: the session slots of              *)
(* pppoe-server.c, the child process (first the server's own code, then    *)
(* pppd) that serves each session, and the way libevent/event_sig.c turns  *)
(* asynchronous signals into calls of the event loop.                      *)
(*                                                                         *)
(* The server is one thread.  A packet handler runs to its end before the  *)
(* next one, but a signal may arrive between any two statements and a child *)
(* runs on its own.  The points where that matters are states of pc:       *)
(*   "select"     waiting in Event_HandleEvent                             *)
(*   "register"   processPADR, after fork and before sigchild_enable       *)
(*   "drained"    DoPipe, after read and before PipeFull = 0               *)
(*   "test", "handle", "reset"   DoPipe's loop, at the signal sig          *)
(*   "exited"     after termHandler                                        *)
(*                                                                         *)
(* Packets come from the network in any order and any number: a client may *)
(* send a PADR again, and its PADT may be late or repeated.  A handler that *)
(* only answers (PADI, a PADR with a bad cookie, an unknown service or no  *)
(* slot left) changes no state and has no action.                          *)
(***************************************************************************)
EXTENDS Naturals, Sequences

CONSTANTS
  Clients,          \* the MAC addresses of the clients
  NoClient,         \* the all-zero eth of a slot that was never used
  NumSessionSlots,  \* the -N option
  Pids              \* process identifiers; 0 is the code's "no process"

ASSUME ServerAssumption ==
  /\ NoClient \notin Clients
  /\ NumSessionSlots \in Nat \ {0}
  /\ Pids \subseteq Nat \ {0}

Slots == 1 .. NumSessionSlots
Signals == {"SIGTERM", "SIGCHLD"}

VARIABLES
  FreeSessions,   \* the free list, from FreeSessions to LastFreeSession
  BusySessions,   \* the busy list
  eth,            \* of each slot: its client; freeing leaves it
  pid,            \* of each slot: its child, or 0
  sentPADT,       \* of each slot: FLAG_SENT_PADT
  child_table,    \* child_process_table: the slot a pid's handler gets, or 0
  proc,           \* what each process identifier is to the kernel
  job,            \* the slot a child was forked for
  pc,             \* where the server's thread is
  cur,            \* the child being registered, or 0
  sig,            \* the signal DoPipe's loop is at
  fired,          \* SignalHandlers[sig].fired
  PipeFull,
  pipe,           \* are there bytes in the pipe?
  masked,         \* is SIGCHLD blocked?
  pending,        \* is a blocked SIGCHLD pending?
  installed,      \* has sigaction been called for SIGCHLD?
  open,           \* observer: the sessions clients were told of and not told the end
  late,           \* observer: those told of after the PADT that set the flag
  missed          \* observer: exited children whose signal was overwritten

slotVars == <<FreeSessions, BusySessions, eth, pid, sentPADT>>
procVars == <<child_table, proc, job>>
threadVars == <<pc, cur, sig>>
sigVars == <<fired, PipeFull, pipe, masked, pending, installed>>
observers == <<open, late, missed>>
vars == <<slotVars, procVars, threadVars, sigVars, observers>>

(***************************************************************************)
(* What a process identifier is: nothing, a child that still runs the      *)
(* server's code before or after it sent the PADS, a pppd, or a child that *)
(* exited and was not waited for.                                          *)
(***************************************************************************)
ProcStates == {"none", "forked", "announced", "pppd", "zombie"}

Zombies == {p \in Pids : proc[p] = "zombie"}

Init ==
  /\ FreeSessions = [n \in Slots |-> n]
  /\ BusySessions = {}
  /\ eth = [n \in Slots |-> NoClient]
  /\ pid = [n \in Slots |-> 0]
  /\ sentPADT = [n \in Slots |-> FALSE]
  /\ child_table = [p \in Pids |-> 0]
  /\ proc = [p \in Pids |-> "none"]
  /\ job = [p \in Pids |-> 0]
  /\ pc = "select"
  /\ cur = 0
  /\ sig = "SIGTERM"
  /\ fired = [s \in Signals |-> FALSE]
  /\ PipeFull = FALSE
  /\ pipe = FALSE
  /\ masked = FALSE
  /\ pending = FALSE
  /\ installed = FALSE
  /\ open = {}
  /\ late = {}
  /\ missed = {}

-----------------------------------------------------------------------------
(***************************************************************************)
(* Signals.                                                                *)
(***************************************************************************)

\* sig_handler, which no statement of the server interrupts.
sig_handler(s) ==
  /\ fired' = [fired EXCEPT ![s] = TRUE]
  /\ pipe' = (pipe \/ ~PipeFull)
  /\ PipeFull' = TRUE

\* The kernel raises SIGCHLD.  Its default action is to ignore it, but a
\* blocked signal is kept until it is unblocked.
raise_SIGCHLD ==
  IF masked
  THEN pending' = TRUE /\ UNCHANGED <<fired, PipeFull, pipe>>
  ELSE /\ UNCHANGED pending
       /\ IF installed THEN sig_handler("SIGCHLD")
                       ELSE UNCHANGED <<fired, PipeFull, pipe>>

\* SIGTERM or SIGINT for the server.
TermArrives ==
  /\ pc # "exited"
  /\ sig_handler("SIGTERM")
  /\ UNCHANGED <<slotVars, procVars, threadVars, masked, pending, installed, observers>>

(***************************************************************************)
(* The pool of sessions.                                                   *)
(***************************************************************************)

\* pppoe_alloc_session, for a client: the slot is the head of the free list.
\* startTime, serviceName and ethif decide nothing here.
pppoe_alloc_session(n, c) ==
  /\ FreeSessions # << >>
  /\ n = Head(FreeSessions)
  /\ FreeSessions' = Tail(FreeSessions)
  /\ BusySessions' = BusySessions \cup {n}
  /\ eth' = [eth EXCEPT ![n] = c]
  /\ pid' = [pid EXCEPT ![n] = 0]
  /\ sentPADT' = [sentPADT EXCEPT ![n] = FALSE]

\* pppoe_free_session: nothing if the slot is not on the busy list; otherwise
\* it goes to the end of the free list, and keeps its eth.
pppoe_free_session(n) ==
  IF n \in BusySessions
  THEN /\ BusySessions' = BusySessions \ {n}
       /\ FreeSessions' = Append(FreeSessions, n)
       /\ pid' = [pid EXCEPT ![n] = 0]
       /\ sentPADT' = [sentPADT EXCEPT ![n] = FALSE]
       /\ UNCHANGED eth
  ELSE UNCHANGED slotVars

\* The sessions of the slots of S: what a PADS opens and a PADT closes.
Told(S) == {<<eth[n], n>> : n \in S}

\* SIGTERM for the children of the slots of S.  A pppd ends some time after
\* it (PppdExits).  A child that still runs the server's code has inherited
\* sig_handler: it marks its own copy of fired, may write a byte into the
\* pipe it shares with the server if it has not closed it yet, and goes on.
kill(S) ==
  pipe' \in {pipe, pipe \/ \E n \in S : pid[n] \in Pids /\ proc[pid[n]] = "forked"}

\* PppoeStopSession for each slot of S: PADT, the flag, SIGTERM.
PppoeStopSession(S) ==
  /\ open' = open \ Told(S)
  /\ late' = late \ Told(S)
  /\ sentPADT' = [n \in Slots |-> sentPADT[n] \/ n \in S]
  /\ kill(S)

(***************************************************************************)
(* Packets.                                                                *)
(***************************************************************************)

\* Mutant: SIGCHLD is not blocked before fork.
PADR_Unmasked(c) ==
  /\ pc = "select"
  /\ \E n \in Slots, p \in Pids :
       /\ proc[p] = "none"
       /\ pppoe_alloc_session(n, c)
       /\ proc' = [proc EXCEPT ![p] = "forked"]
       /\ job' = [job EXCEPT ![p] = n]
       /\ cur' = p
  /\ pc' = "register"
  /\ UNCHANGED <<child_table, sig, fired, PipeFull, pipe, masked, pending, installed, observers>>

\* processPADR in the server, up to fork: SIGCHLD is blocked before it.
PADR(c) ==
  /\ pc = "select"
  /\ \E n \in Slots, p \in Pids :
       /\ proc[p] = "none"
       /\ pppoe_alloc_session(n, c)
       /\ proc' = [proc EXCEPT ![p] = "forked"]
       /\ job' = [job EXCEPT ![p] = n]
       /\ cur' = p
  /\ masked' = TRUE
  /\ pc' = "register"
  /\ UNCHANGED <<child_table, sig, fired, PipeFull, pipe, pending, installed, observers>>

\* Mutant: the result of fork is not tested, and its -1 is taken for a pid.
PADRForkFails_Ignored(c) ==
  /\ pc = "select"
  /\ \E n \in Slots :
       /\ FreeSessions # << >> /\ n = Head(FreeSessions)
       /\ FreeSessions' = Tail(FreeSessions)
       /\ BusySessions' = BusySessions \cup {n}
       /\ eth' = [eth EXCEPT ![n] = c]
       /\ pid' = [pid EXCEPT ![n] = 0 - 1]
       /\ sentPADT' = [sentPADT EXCEPT ![n] = FALSE]
  /\ UNCHANGED <<procVars, threadVars, sigVars, observers>>

\* processPADR when fork fails: the slot is freed at once.
PADRForkFails(c) ==
  /\ pc = "select"
  /\ FreeSessions # << >>
  /\ LET n == Head(FreeSessions)
     IN /\ FreeSessions' = Append(Tail(FreeSessions), n)
        /\ eth' = [eth EXCEPT ![n] = c]
        /\ pid' = [pid EXCEPT ![n] = 0]
        /\ sentPADT' = [sentPADT EXCEPT ![n] = FALSE]
  /\ UNCHANGED <<BusySessions, procVars, threadVars, sigVars, observers>>

\* The rest of processPADR in the parent: the pid, Event_HandleChildExit (which
\* installs the SIGCHLD handler and adds the entry), and sigchild_enable,
\* which lets a pending SIGCHLD in.
Register ==
  /\ pc = "register"
  /\ pid' = [pid EXCEPT ![job[cur]] = cur]
  /\ child_table' = [child_table EXCEPT ![cur] = job[cur]]
  /\ installed' = TRUE
  /\ masked' = FALSE
  /\ pending' = FALSE
  /\ IF pending THEN sig_handler("SIGCHLD") ELSE UNCHANGED <<fired, PipeFull, pipe>>
  /\ pc' = "select"
  /\ cur' = 0
  /\ UNCHANGED <<sig, FreeSessions, BusySessions, eth, sentPADT, proc, job, observers>>

\* processPADT: the number must be a slot's and the source its client.  That
\* the session is busy is not checked, and eth outlives it.
PADT(c, n) ==
  /\ pc = "select"
  /\ eth[n] = c
  /\ PppoeStopSession({n})
  /\ UNCHANGED <<FreeSessions, BusySessions, eth, pid, procVars, threadVars,
                 fired, PipeFull, masked, pending, installed, missed>>

-----------------------------------------------------------------------------
(***************************************************************************)
(* The children.                                                           *)
(***************************************************************************)

\* The child closes its descriptors and sends the PADS, also when the server
\* has closed the session in the meantime: the child has its own copy of the
\* flag and tests none.  The client believes in the session in any case; the
\* observer notes in late that the flag keeps the server from telling it the
\* end again.
SendPADS(p) ==
  /\ proc[p] = "forked"
  /\ proc' = [proc EXCEPT ![p] = "announced"]
  /\ open' = open \cup Told({job[p]})
  /\ late' = IF sentPADT[job[p]] THEN late \cup Told({job[p]}) ELSE late \ Told({job[p]})
  /\ UNCHANGED <<slotVars, child_table, job, threadVars, sigVars, missed>>

\* startPPPD: execv replaces the child by pppd, with the default handlers.
Exec(p) ==
  /\ proc[p] = "announced"
  /\ proc' = [proc EXCEPT ![p] = "pppd"]
  /\ UNCHANGED <<slotVars, child_table, job, threadVars, sigVars, observers>>

\* The child ends: execv failed, or pppd exits, for a reason of its own or
\* some time after SIGTERM.
ChildExits(p) ==
  /\ proc[p] \in {"announced", "pppd"}
  /\ proc' = [proc EXCEPT ![p] = "zombie"]
  /\ raise_SIGCHLD
  /\ UNCHANGED <<slotVars, child_table, job, threadVars, masked, installed, observers>>

-----------------------------------------------------------------------------
(***************************************************************************)
(* The event loop's pipe handler.                                          *)
(***************************************************************************)

\* DoPipe is called when the pipe is readable, and empties it.
DoPipe ==
  /\ pc = "select"
  /\ pipe
  /\ pipe' = FALSE
  /\ pc' = "drained"
  /\ UNCHANGED <<slotVars, procVars, cur, sig, fired, PipeFull, masked, pending,
                 installed, observers>>

\* Mutant: PipeFull is never cleared.
ClearPipeFull_Never ==
  /\ pc = "drained"
  /\ sig' = "SIGTERM"
  /\ pc' = "test"
  /\ UNCHANGED <<slotVars, procVars, cur, fired, PipeFull, pipe, masked, pending, installed,
                 observers>>

\* PipeFull = 0, and the loop starts.  SIGINT, SIGTERM (one handler, and both
\* below SIGCHLD) come before SIGCHLD.
ClearPipeFull ==
  /\ pc = "drained"
  /\ PipeFull' = FALSE
  /\ sig' = "SIGTERM"
  /\ pc' = "test"
  /\ UNCHANGED <<slotVars, procVars, cur, fired, pipe, masked, pending, installed, observers>>

\* if (fired && handler)
TestFired ==
  /\ pc = "test"
  /\ pc' = IF fired[sig] THEN "handle" ELSE "reset"
  /\ UNCHANGED <<slotVars, procVars, cur, sig, sigVars, observers>>

\* termHandler: killAllSessions and exit(0).
termHandler ==
  /\ pc = "handle"
  /\ sig = "SIGTERM"
  /\ PppoeStopSession(BusySessions)
  /\ pc' = "exited"
  /\ UNCHANGED <<FreeSessions, BusySessions, eth, pid, procVars, cur, sig,
                 fired, PipeFull, masked, pending, installed, missed>>

\* Mutant: no PADT for the client of the child that ended.
childHandler_NoPADT(n) ==
  /\ UNCHANGED <<open, late>>
  /\ pppoe_free_session(n)

\* childHandler, for the slot of the child that ended: a PADT, unless one was
\* sent before.
childHandler(n) ==
  /\ IF sentPADT[n] THEN UNCHANGED <<open, late>>
                    ELSE open' = open \ Told({n}) /\ late' = late \ Told({n})
  /\ pppoe_free_session(n)

\* Mutant: the entry stays in child_process_table.
child_handler_KeepsEntry(p) ==
  /\ pc = "handle"
  /\ sig = "SIGCHLD"
  /\ proc[p] = "zombie"
  /\ proc' = [proc EXCEPT ![p] = "none"]
  /\ IF child_table[p] \in Slots THEN childHandler(child_table[p])
                                 ELSE UNCHANGED <<slotVars, open, late>>
  /\ missed' = missed \ {p}
  /\ UNCHANGED <<child_table, job, threadVars, sigVars>>

\* One turn of child_handler's loop: waitpid takes an exited child, whose
\* handler is called and whose entry is removed.
child_handler(p) ==
  /\ pc = "handle"
  /\ sig = "SIGCHLD"
  /\ proc[p] = "zombie"
  /\ proc' = [proc EXCEPT ![p] = "none"]
  /\ child_table' = [child_table EXCEPT ![p] = 0]
  /\ IF child_table[p] \in Slots THEN childHandler(child_table[p])
                                 ELSE UNCHANGED <<slotVars, open, late>>
  /\ missed' = missed \ {p}
  /\ UNCHANGED <<job, threadVars, sigVars>>

\* waitpid finds no more exited child.
ReapDone ==
  /\ pc = "handle"
  /\ sig = "SIGCHLD"
  /\ Zombies = {}
  /\ pc' = "reset"
  /\ UNCHANGED <<slotVars, procVars, cur, sig, sigVars, observers>>

\* SignalHandlers[i].fired = 0, whatever arrived since it was tested, and the
\* next signal.  The observer notes the children that exited in that window.
ResetFired ==
  /\ pc = "reset"
  /\ fired' = [fired EXCEPT ![sig] = FALSE]
  /\ IF sig = "SIGTERM"
     THEN pc' = "test" /\ sig' = "SIGCHLD" /\ UNCHANGED missed
     ELSE pc' = "select" /\ sig' = "SIGTERM" /\ missed' = missed \cup Zombies
  /\ UNCHANGED <<slotVars, procVars, cur, PipeFull, pipe, masked, pending, installed, open,
                 late>>

-----------------------------------------------------------------------------
ServerStep ==
  \/ Register \/ DoPipe \/ ClearPipeFull \/ TestFired \/ termHandler
  \/ \E p \in Pids : child_handler(p)
  \/ ReapDone \/ ResetFired

Next ==
  \/ TermArrives
  \/ \E c \in Clients : PADR(c) \/ PADRForkFails(c)
  \/ \E c \in Clients, n \in Slots : PADT(c, n)
  \/ /\ pc # "exited"
     /\ \E p \in Pids : SendPADS(p) \/ Exec(p) \/ ChildExits(p)
  \/ ServerStep

(***************************************************************************)
(* The server's thread goes on with what it has begun.  select reports     *)
(* every ready descriptor and Event_HandleEvent calls all their handlers,  *)
(* so packets cannot keep DoPipe away for ever: strong fairness.  A child  *)
(* goes on to execv.  A child whose session was closed ends if it got the  *)
(* SIGTERM as pppd, or if its client was told of the end last: then nobody *)
(* answers pppd's LCP.  A PADS after the PADT takes both away: the SIGTERM *)
(* came before execv and only marked the child's copy of fired, and the    *)
(* client, told of the session last, does answer.  Nothing is assumed of   *)
(* that child until another PADT comes, and nothing of the others: a pppd  *)
(* may run for ever, packets and signals need not come.                    *)
(***************************************************************************)
ClosedForGood(n) == sentPADT[n] /\ <<eth[n], n>> \notin late

Fairness ==
  /\ WF_vars(Register \/ ClearPipeFull \/ TestFired \/ termHandler \/ ReapDone \/ ResetFired
             \/ \E p \in Pids : child_handler(p))
  /\ SF_vars(DoPipe)
  /\ \A p \in Pids : /\ WF_vars(pc # "exited" /\ SendPADS(p))
                     /\ WF_vars(pc # "exited" /\ Exec(p))
                     /\ WF_vars(pc # "exited" /\ ChildExits(p) /\ ClosedForGood(job[p]))

SafetySpec == Init /\ [][Next]_vars
Spec == SafetySpec /\ Fairness

-----------------------------------------------------------------------------
\* The types of the variables.
TypeOK ==
  /\ FreeSessions \in Seq(Slots)
  /\ BusySessions \subseteq Slots
  /\ eth \in [Slots -> Clients \cup {NoClient}]
  /\ pid \in [Slots -> Pids \cup {0}]
  /\ sentPADT \in [Slots -> BOOLEAN]
  /\ child_table \in [Pids -> Slots \cup {0}]
  /\ proc \in [Pids -> ProcStates]
  /\ job \in [Pids -> Slots \cup {0}]
  /\ pc \in {"select", "register", "drained", "test", "handle", "reset", "exited"}
  /\ cur \in Pids \cup {0}
  /\ sig \in Signals
  /\ fired \in [Signals -> BOOLEAN]
  /\ PipeFull \in BOOLEAN /\ pipe \in BOOLEAN
  /\ masked \in BOOLEAN /\ pending \in BOOLEAN /\ installed \in BOOLEAN
  /\ open \subseteq (Clients \X Slots)
  /\ late \subseteq open
  /\ missed \subseteq Pids

\* Is the slot in the hands of processPADR, forked for but without a pid yet?
BeingRegistered(n) == pc = "register" /\ n = job[cur]

\* Is the slot on the list?
On(n, list) == \E i \in DOMAIN list : list[i] = n

NoRepeats(list) == \A i, j \in DOMAIN list : list[i] = list[j] => i = j

\* Every slot is on exactly one of the two lists, once.
ListsPartition ==
  /\ NoRepeats(FreeSessions)
  /\ \A n \in Slots : n \in BusySessions <=> ~On(n, FreeSessions)

\* The pid of a busy slot is a process forked for it and not waited for yet.
SlotHasChild ==
  \A n \in Slots :
    IF n \in BusySessions /\ ~BeingRegistered(n)
    THEN pid[n] \in Pids /\ proc[pid[n]] # "none" /\ child_table[pid[n]] = n
    ELSE pid[n] = 0

\* A process not waited for has an entry that leads to its busy slot.
ChildHasSlot ==
  \A p \in Pids :
    IF proc[p] = "none" \/ (pc = "register" /\ p = cur)
    THEN child_table[p] = 0 /\ (proc[p] # "none" => job[p] \in BusySessions)
    ELSE job[p] \in BusySessions /\ child_table[p] = job[p] /\ pid[job[p]] = p

(***************************************************************************)
(* The two lists partition the slots, and a busy slot and its child agree: *)
(* outside processPADR the slot's pid is a process that was forked for it, *)
(* was not waited for and has an entry that leads back to the slot, and no *)
(* other process does.  So the SIGTERM of PppoeStopSession never reaches a *)
(* process identifier that the kernel may have given to somebody else, no  *)
(* slot is freed under its pppd, and no pppd is left without a slot.       *)
(***************************************************************************)
SlotsAndChildren == ListsPartition /\ SlotHasChild /\ ChildHasSlot

(***************************************************************************)
(* An exited child is on its way to being waited for: its SIGCHLD is held  *)
(* back by the mask, or marked with a byte in the pipe or DoPipe at work   *)
(* before its test of SIGCHLD, or child_handler is running.  The first     *)
(* child is no exception, although SIGCHLD is ignored until it is          *)
(* registered.  The one window in which the code does lose a SIGCHLD,      *)
(* between the last waitpid (or the test of fired) and fired = 0, is what  *)
(* missed stands for.                                                      *)
(***************************************************************************)
NoExitUnnoticed ==
  pc # "exited" =>
    \A p \in Zombies :
      \/ p \in missed
      \/ pending
      \/ fired["SIGCHLD"] /\ (pipe \/ pc = "drained" \/ (pc \in {"test", "reset"} /\ sig = "SIGTERM")
                                                   \/ (pc = "test" /\ sig = "SIGCHLD"))
      \/ pc = "handle"

(***************************************************************************)
(* A session a client was told of with a PADS, and was not told the end of *)
(* with a PADT, is a busy slot of that client: whatever order the client's *)
(* PADT, pppd's end and the reuse of the slot take, no number goes to a    *)
(* second client while the first has not been told, and none is left open  *)
(* when the server exits.  The exception is a session in late: its PADT    *)
(* was handled before the child sent the PADS, so that the client was told *)
(* of it last, and the flag keeps childHandler from telling it the end.    *)
(* Such a session lasts until another PADT from the client; without one    *)
(* the client is told nothing when its slot is freed and given away.       *)
(***************************************************************************)
OpenIsBusy ==
  \A l \in open \ late : /\ l[2] \in BusySessions
                         /\ eth[l[2]] = l[1]
                         /\ pc # "exited"

(***************************************************************************)
(* Refinement: the slots implement SessionNumbers.  A client holds the     *)
(* number of a slot from processPADR to pppoe_free_session, whatever late  *)
(* or repeated packets, lost signals and exits come between them, or until *)
(* the server exits.  The clients that got their PADS after the PADT are   *)
(* the misled.                                                             *)
(***************************************************************************)
Held == IF pc = "exited" THEN {} ELSE Told(BusySessions)

SlotNumbers == INSTANCE SessionNumbers WITH
  Hosts <- Clients,
  Nums <- Slots,
  held <- Held,
  believed <- open,
  misled <- late

\* No slot goes from one client to another but through pppoe_free_session, with
\* the first client told, and every client is told when the server exits, except
\* for the clients whose PADS followed the PADT: those are told nothing.
ImplementsSessionNumbers == SlotNumbers!NumSpec

(***************************************************************************)
(* A session that was closed with a PADT gets its slot back, also when the *)
(* SIGTERM was lost in a child that had not called execv yet, unless its   *)
(* child's SIGCHLD was overwritten, the server exits, or the client was    *)
(* told of the session by a PADS after the PADT: then pppd and the client  *)
(* may go on with it for ever, on a slot the server has closed.            *)
(***************************************************************************)
Reclaimed ==
  \A n \in Slots :
    (n \in BusySessions /\ sentPADT[n])
      ~> \/ n \notin BusySessions
         \/ pid[n] \in missed
         \/ <<eth[n], n>> \in late
         \/ pc = "exited"
=============================================================================
