---------------------------- MODULE SessionNumbers ----------------------------
(***************************************************************************)
(* What a giver of PPPoE session numbers, the server or the relay,         *)
(* promises its clients: a number is one client's at a time, and it is     *)
(* taken back from a client that believes in it only by telling it so.     *)
(* The promise is made to clients that were told of a number they hold.    *)
(* A client can also be misled: told of a number after it was told of its  *)
(* end, or of a number that another client holds.  A misled client is      *)
(* promised nothing, until the number is given to it or told to it rightly; *)
(* the number may be taken back, and given to another, without a word.     *)
(***************************************************************************)
CONSTANTS Hosts, Nums

VARIABLES
  held,      \* pairs of a host and the number it has been given
  believed,  \* pairs of a host and a number it was told of and not told the end
  misled     \* those of believed that the host was told of wrongly

numVars == <<held, believed, misled>>

NumInit == held = {} /\ believed = {} /\ misled = {}

\* c is told of n rightly.
Inform(c, n) ==
  /\ believed' = believed \cup {<<c, n>>}
  /\ misled' = misled \ {<<c, n>>}

\* A number nobody holds is given to c, who is told now or later.
Give(c, n) ==
  /\ \A l \in held : l[2] # n
  /\ held' = held \cup {<<c, n>>}
  /\ Inform(c, n) \/ UNCHANGED <<believed, misled>>

\* The holder is told, perhaps again.
Tell(c, n) ==
  /\ <<c, n>> \in held
  /\ Inform(c, n)
  /\ UNCHANGED held

\* c is told wrongly of a number that it or another holds.  No client is misled
\* about a number it rightly believes in.
Mislead(c, n) ==
  /\ \E h \in Hosts : <<h, n>> \in held
  /\ <<c, n>> \notin believed \ misled
  /\ believed' = believed \cup {<<c, n>>}
  /\ misled' = misled \cup {<<c, n>>}
  /\ UNCHANGED held

\* Some hosts are told that their sessions ended.  They hold the numbers until
\* whatever serves the sessions has ended too.
Retract ==
  /\ believed' \subseteq believed
  /\ misled' = misled \cap believed'
  /\ UNCHANGED held

\* Some numbers are taken back, and nobody goes on believing in one of them
\* but the misled.
TakeBack ==
  /\ held' \subseteq held
  /\ believed' \subseteq believed
  /\ misled' = misled \cap believed'
  /\ believed' \ misled' = (believed \ misled) \cap held'

NumNext ==
  \/ \E c \in Hosts, n \in Nums : Give(c, n) \/ Tell(c, n) \/ Mislead(c, n)
  \/ Retract \/ TakeBack

NumSpec == NumInit /\ [][NumNext]_numVars

=============================================================================
