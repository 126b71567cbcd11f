---------------------------- MODULE MCPppoeServer ----------------------------
(***************************************************************************)
(* A small server: two clients, two slots and two processes.               *)
(***************************************************************************)
EXTENDS PppoeServer

CONSTANTS c1, c2
=============================================================================
