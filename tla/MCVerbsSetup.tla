---------------------------- MODULE MCVerbsSetup ----------------------------
(* TLC instances of VerbsSetup. *)
EXTENDS VerbsSetup

CONSTANTS w1, w2

\* Up to two devices of up to two ports.
SmallDevice ==
    [wanted : BOOLEAN,
     active : {<<>>, <<TRUE>>, <<FALSE>>, <<TRUE, FALSE>>, <<FALSE, TRUE>>, <<TRUE, TRUE>>}]
SmallLists == {<<>>} \cup {<<d>> : d \in SmallDevice}
                     \cup {<<d, e>> : d, e \in SmallDevice}

\* One device with one port, for the runs that look at the sockets.
OneDevice == {<<[wanted |-> TRUE, active |-> <<TRUE>>]>>}
=============================================================================
