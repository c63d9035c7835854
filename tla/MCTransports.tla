---------------------------- MODULE MCTransports ----------------------------
(* An instance of Transports for TLC: one connection of any kind, beside a  *)
(* stream.                                                                  *)
EXTENDS Transports, TLC

CONSTANTS web, socket, stdin

KindOf == (web :> "http") @@ (socket :> "ws") @@ (stdin :> "stdio")

=============================================================================
