--------------------------- MODULE MCRadiusClient ---------------------------
(***************************************************************************)
(* RadiusClient on small instances.  Three servers, of which the first two *)
(* share a secret, meet both kinds of change of server.                    *)
(***************************************************************************)
EXTENDS RadiusClient

OneServer == <<"a">>
TwoServers == <<"a", "a">>
ThreeServers == <<"a", "a", "b">>

=============================================================================
