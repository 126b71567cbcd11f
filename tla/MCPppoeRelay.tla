---------------------------- MODULE MCPppoeRelay ----------------------------
(***************************************************************************)
(* A small relay: two clients on lan, two ACs on wan.                       *)
(***************************************************************************)
EXTENDS PppoeRelay, TLC

CONSTANTS c1, c2, a1, a2, lan, wan, none

MCNodes == {[dev |-> lan, clientOK |-> TRUE, acOK |-> FALSE],
            [dev |-> wan, clientOK |-> FALSE, acOK |-> TRUE]}

MCNoEnd == [interface |-> none, peerMac |-> none, sesNum |-> 0]

Symmetry == Permutations({c1, c2}) \cup Permutations({a1, a2})
=============================================================================
