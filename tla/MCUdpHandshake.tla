--------------------------- MODULE MCUdpHandshake ---------------------------
(* TLC instances of UdpHandshake: two workers, of which one or both connect. *)
EXTENDS UdpHandshake

CONSTANTS w1, w2
=============================================================================
