------------------------------ MODULE MCTxPath ------------------------------
(***************************************************************************)
(* TLC instances of TxPath: two workers with a socket each, over the free  *)
(* lists and the array of completions they share, and one worker that      *)
(* sends on two sockets until the RECV cluster is empty.                   *)
(***************************************************************************)
EXTENDS TxPath, TLC

CONSTANTS w1, w2, s1, s2

OneOwner  == [s \in {s1, s2} |-> w1]
EachOwner == (s1 :> w1) @@ (s2 :> w2)
=============================================================================
