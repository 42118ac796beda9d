----------------------------- MODULE MCTunNode -----------------------------
(* The command lines TLC starts TunNode with: one feature each, so that the    *)
(* interleavings of one do not multiply those of another.                      *)
EXTENDS TunNode

Plain == [nat |-> FALSE, full |-> FALSE, accept |-> FALSE, dns |-> FALSE,
          given |-> FALSE, forwards |-> FALSE]
Router == [Plain EXCEPT !.nat = TRUE]
ForwardingRouter == [Router EXCEPT !.forwards = TRUE]
FullTunnel == [Plain EXCEPT !.full = TRUE]
Accepting == [Plain EXCEPT !.accept = TRUE]
Naming == [Plain EXCEPT !.dns = TRUE]
NamingGiven == [Naming EXCEPT !.given = TRUE]

AllSetups == {Router, ForwardingRouter, FullTunnel, Accepting, Naming, NamingGiven}
=============================================================================
