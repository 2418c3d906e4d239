------------------------------ MODULE MCRxPath ------------------------------
(***************************************************************************)
(* TLC instance of RxPath: two workers with a socket each, over the array  *)
(* of completions and the chunks they share.                               *)
(***************************************************************************)
EXTENDS RxPath, TLC

CONSTANTS w1, w2, s1, s2

EachOwner == (s1 :> w1) @@ (s2 :> w2)
=============================================================================
