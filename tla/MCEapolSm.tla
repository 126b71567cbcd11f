------------------------------ MODULE MCEapolSm ------------------------------
(***************************************************************************)
(* EapolSm on small instances.  A period of one or two ticks is enough:    *)
(* what matters is whether a timer has expired when an event arrives, and  *)
(* every interleaving of ticks and events is explored.                     *)
(***************************************************************************)
EXTENDS EapolSm
=============================================================================
