------------------------- MODULE MCSessionTransfer -------------------------
(* TLC instances of SessionTransfer: up to three pieces over two slices, and *)
(* a stream that goes round the receive buffers. *)
EXTENDS SessionTransfer

BulkSizes == {0, 2, 3, 6}
=============================================================================
