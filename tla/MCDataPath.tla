----------------------------- MODULE MCDataPath -----------------------------
(* A TLC instance of DataPath: a client and a server. *)
EXTENDS DataPath, TLC

CONSTANTS client, server

Opposite == client :> server @@ server :> client

\* The client sends messages of one and of two chunks, which fit into the buffer
\* of the server; the server answers with short and with empty ones, which fill
\* the buffer of the client or do not.
Sizes    == client :> {1, 3} @@ server :> {0, 1}
Requests == client :> {1, 2} @@ server :> {4}
=============================================================================
