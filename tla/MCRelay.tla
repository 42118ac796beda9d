------------------------------- MODULE MCRelay -------------------------------
(* Relay with three connections from two addresses, at most two of an address *)
(* admitted at a time, and two device ids for a table of one: enough for a     *)
(* host, the host that replaces it or competes with it, and a client.         *)
EXTENDS Relay, TLC
=============================================================================
