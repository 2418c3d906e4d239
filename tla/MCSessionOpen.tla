--------------------------- MODULE MCSessionOpen ----------------------------
(* TLC instances of SessionOpen: one server, and two clients of which one,   *)
(* once it is open, sends a message that fills the last receive buffer.      *)
EXTENDS SessionOpen

CONSTANTS c1, c2

CallsOf == [p \in Ends |-> CASE p = c1 -> 1 [] p = c2 -> 0 [] p = Server -> 1]
=============================================================================
