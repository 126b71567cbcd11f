----------------------------- MODULE PortAccess -----------------------------
(***************************************************************************)
(* What the authenticator promises about one controlled port: it is opened *)
(* only on an Access-Accept that answers the latest request sent for the   *)
(* station, each Accept opens it at most once, and an Accept that is not   *)
(* acted upon before the exchange is given up never opens it later.        *)
(***************************************************************************)
VARIABLES
  port,      \* "closed" or "open"
  exchange   \* "none", "asked" (a request is out) or "granted" (accepted)

portVars == <<port, exchange>>

PortTypeOK ==
  /\ port \in {"closed", "open"}
  /\ exchange \in {"none", "asked", "granted"}

PortInit == port = "closed" /\ exchange = "none"

\* A request of the station goes to the server; it replaces an earlier one.
Ask ==
  /\ exchange' = "asked"
  /\ UNCHANGED port

\* The answer to the request that is out lets the station in.
Grant ==
  /\ exchange = "asked"
  /\ exchange' = "granted"
  /\ UNCHANGED port

\* The answer is another one or comes too late, or an Accept is given up.
Forget ==
  /\ exchange' = "none"
  /\ UNCHANGED port

Open ==
  /\ exchange = "granted"
  /\ port' = "open" /\ exchange' = "none"

Close ==
  /\ port' = "closed"
  /\ exchange' \in {exchange, "none"}

PortNext == Ask \/ Grant \/ Forget \/ Open \/ Close

PortSpec == PortInit /\ [][PortNext]_portVars

=============================================================================
