------------------------------- MODULE SynMsg -------------------------------
(***************************************************************************)
(* The address of a queue pair on the wire: the packed struct IBSYNMsg is  *)
(* printed by send_udp_msg ("%04x:%08x:%08x:%s") and scanned back by       *)
(* recv_udp_msg ("%x:%x:%x:%s"), field by field and straight into the      *)
(* struct.  The scan of the 16-bit lid stores 32 bits and so runs over     *)
(* the next field; what is right in the end depends on the order of the    *)
(* stores.  The gid is converted word by word through htonl and ntohl.     *)
(*                                                                         *)
(* A number is the sequence of its bytes in memory, the lowest first (the  *)
(* machine is little-endian); two hexadecimal digits are one byte, and a   *)
(* printed number is the sequence of its bytes, the highest first.         *)
(***************************************************************************)
EXTENDS Naturals, Sequences, SequencesExt

CONSTANTS
    Byte,      \* the values of a byte (0..255 in the code)
    GidWords,  \* 32-bit words of a gid (4 in the code)
    Msgs,      \* bound: the messages that are sent
    Stale      \* bound: the bytes the receiver's struct may hold before

ASSUME SynMsgAssumption ==
    /\ 0 \in Byte /\ Stale \subseteq Byte
    /\ GidWords \in Nat \ {0}
    /\ \A m \in Msgs : /\ m.lid \in [1 .. 2 -> Byte]
                       /\ m.qpn \in [1 .. 4 -> Byte]
                       /\ m.psn \in [1 .. 4 -> Byte]
                       /\ m.gid \in [1 .. 4 * GidWords -> Byte]

VARIABLES
    im,     \* the sender's IBSYNMsg
    wire,   \* the text of the datagram, by field
    mem,    \* the bytes of the receiver's IBSYNMsg
    next    \* the conversion the receiver does next

vars == <<im, wire, mem, next>>

\* The packed layout: lid, qpn, psn, gid.
LidAt == 1
QpnAt == 3
PsnAt == 7
GidAt == 11
Size  == 10 + 4 * GidWords

-----------------------------------------------------------------------------
\* "%0kx" of a number and "%x" of its text, into 32 bits.
Hex(v)   == Reverse(v)
Scan(t)  == [k \in 1 .. 4 |-> IF k <= Len(t) THEN Reverse(t)[k] ELSE 0]

\* htonl and ntohl.
Swap(v) == Reverse(v)

Word(g, k) == SubSeq(g, 4 * k - 3, 4 * k)

\* gid_to_wire_gid: one word after the other, each in network order.
GidToWire(g) == [k \in 1 .. GidWords |-> Hex(Swap(Word(g, k)))]

\* The bytes a store of the 32-bit value v at a leaves in memory.
Store(m, a, v) == [k \in 1 .. Size |-> IF k \in a .. (a + 3) THEN v[k - a + 1] ELSE m[k]]

\* wire_gid_to_gid: every word is scanned, swapped and stored.
WireToGidMutant(m, g) ==
    [k \in 1 .. Size |-> IF k < GidAt THEN m[k]
                         ELSE LET j == (k - GidAt) \div 4
                              IN  Scan(g[j + 1])[k - GidAt - 4 * j + 1]]
WireToGid(m, g) ==
    [k \in 1 .. Size |-> IF k < GidAt THEN m[k]
                         ELSE LET j == (k - GidAt) \div 4
                              IN  Swap(Scan(g[j + 1]))[k - GidAt - 4 * j + 1]]

-----------------------------------------------------------------------------
Init ==
    /\ im \in Msgs
    /\ wire = <<>>
    /\ mem \in {[k \in 1 .. Size |-> b] : b \in Stale}
    /\ next = "send"

\* The sprintf of send_udp_msg.
Send ==
    /\ next = "send"
    /\ wire' = [lid |-> Hex(im.lid), qpn |-> Hex(im.qpn), psn |-> Hex(im.psn),
                gid |-> GidToWire(im.gid)]
    /\ next' = "lid"
    /\ UNCHANGED <<im, mem>>

\* The conversions of the sscanf of recv_udp_msg, in the order of the format.
ScanLid ==
    /\ next = "lid"
    /\ mem' = Store(mem, LidAt, Scan(wire.lid))
    /\ next' = "qpn"
    /\ UNCHANGED <<im, wire>>

ScanQpn ==
    /\ next = "qpn"
    /\ mem' = Store(mem, QpnAt, Scan(wire.qpn))
    /\ next' = "psn"
    /\ UNCHANGED <<im, wire>>

ScanPsn ==
    /\ next = "psn"
    /\ mem' = Store(mem, PsnAt, Scan(wire.psn))
    /\ next' = "gid"
    /\ UNCHANGED <<im, wire>>

ScanGid ==
    /\ next = "gid"
    /\ mem' = WireToGid(mem, wire.gid)
    /\ next' = "done"
    /\ UNCHANGED <<im, wire>>

Done == next = "done" /\ UNCHANGED vars

Next == Send \/ ScanLid \/ ScanQpn \/ ScanPsn \/ ScanGid \/ Done

Spec == Init /\ [][Next]_vars

-----------------------------------------------------------------------------
\* What the receiver ends up with is, byte for byte, what was sent: the store of
\* the lid over the first half of qpn is undone by the store of qpn, the bytes
\* of the struct that were there before are gone, and the gid comes back in the
\* order it had although it was swapped twice.
RoundTrip ==
    next = "done" => mem = im.lid \o im.qpn \o im.psn \o im.gid
=============================================================================
