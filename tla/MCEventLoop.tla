----------------------------- MODULE MCEventLoop -----------------------------
(***************************************************************************)
(* EventLoop with three addresses, two of them in one bucket, and a table  *)
(* for two stations.                                                       *)
(***************************************************************************)
EXTENDS EventLoop

CONSTANTS a1, a2, a3

Hash == [a \in {a1, a2, a3} |-> IF a = a3 THEN 1 ELSE 0]

=============================================================================
