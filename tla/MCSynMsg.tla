------------------------------ MODULE MCSynMsg ------------------------------
(* TLC instance of SynMsg: every lid and many addresses over a small byte. *)
EXTENDS SynMsg

Bits == 0 .. 1
SmallMsgs ==
    [lid : [1 .. 2 -> Bits], qpn : [1 .. 4 -> Bits],
     psn : {<<0, 0, 0, 0>>, <<0, 1, 0, 1>>, <<1, 1, 1, 0>>},
     gid : {<<0, 0, 0, 1, 1, 1, 0, 1>>, <<1, 0, 0, 0, 0, 1, 1, 0>>}]
=============================================================================
