---------------------------- MODULE SynMsgProofs ----------------------------
(***************************************************************************)
(* Theorems about SynMsg, for every message, whatever the bytes are, every *)
(* number of words of a gid and whatever the receiver's struct held before. *)
(***************************************************************************)
EXTENDS SynMsg, SequenceTheorems, TLAPS

\* A message whose fields have the sizes of IBSYNMsg.
Sized(m) ==
    /\ m.lid \in [1 .. 2 -> Byte] /\ m.qpn \in [1 .. 4 -> Byte] /\ m.psn \in [1 .. 4 -> Byte]
    /\ m.gid \in [1 .. 4 * GidWords -> Byte]

\* A function on 1 .. l is a sequence of l elements.
LEMMA BytesAreSeq ==
    ASSUME NEW l \in Nat, NEW v \in [1 .. l -> Byte]
    PROVE  v \in Seq(Byte) /\ Len(v) = l
<1>1. v \in Seq(Byte)
  BY SeqDef
<1>2. DOMAIN v = 1 .. Len(v) /\ Len(v) \in Nat
  BY <1>1, LenProperties
<1>3. Len(v) = l
  BY <1>2
<1> QED  BY <1>1, <1>3

\* htonl undoes itself, and both keep four bytes four bytes.
LEMMA SwapWord ==
    ASSUME NEW v \in [1 .. 4 -> Byte]
    PROVE  /\ Reverse(v) \in [1 .. 4 -> Byte]
           /\ \A k \in 1 .. 4 : Reverse(v)[k] = v[5 - k]
           /\ Reverse(Reverse(v)) = v
<1>1. ASSUME NEW u \in [1 .. 4 -> Byte]
      PROVE  Reverse(u) \in [1 .. 4 -> Byte] /\ \A k \in 1 .. 4 : Reverse(u)[k] = u[5 - k]
  <2>1. Len(u) = 4
    BY BytesAreSeq
  <2>2. Reverse(u) = [k \in 1 .. 4 |-> u[(4 - k) + 1]]
    BY <2>1 DEF Reverse
  <2>3. \A k \in 1 .. 4 : (4 - k) + 1 = 5 - k /\ 5 - k \in 1 .. 4
    OBVIOUS
  <2> QED  BY <2>2, <2>3
<1>2. Reverse(v) \in [1 .. 4 -> Byte] /\ \A k \in 1 .. 4 : Reverse(v)[k] = v[5 - k]
  BY <1>1
<1>3. Reverse(Reverse(v)) \in [1 .. 4 -> Byte] /\ \A k \in 1 .. 4 : Reverse(Reverse(v))[k] = Reverse(v)[5 - k]
  BY <1>1, <1>2
<1>4. ASSUME NEW k \in 1 .. 4 PROVE Reverse(Reverse(v))[k] = v[k]
  <2>1. 5 - k \in 1 .. 4 /\ 5 - (5 - k) = k
    OBVIOUS
  <2> QED  BY <1>2, <1>3, <2>1
<1> QED  BY <1>2, <1>3, <1>4

\* A 32-bit number survives printing and scanning.
LEMMA ScanHexWord ==
    ASSUME NEW v \in [1 .. 4 -> Byte]
    PROVE  Scan(Hex(v)) \in [1 .. 4 -> Byte] /\ Scan(Hex(v)) = v
<1>1. Hex(v) \in [1 .. 4 -> Byte] /\ Reverse(Hex(v)) = v
  BY SwapWord DEF Hex
<1>2. Len(Hex(v)) = 4
  BY <1>1, BytesAreSeq
<1>3. Scan(Hex(v)) = [k \in 1 .. 4 |-> IF k <= 4 THEN v[k] ELSE 0]
  BY <1>1, <1>2 DEF Scan
<1>4. \A k \in 1 .. 4 : k <= 4
  OBVIOUS
<1>5. Scan(Hex(v)) = v
  BY <1>3, <1>4
<1> QED  BY <1>5

\* A 16-bit number is scanned into 32 bits: its bytes come first, then zeros.
LEMMA ScanHexLid ==
    ASSUME NEW v \in [1 .. 2 -> Byte]
    PROVE  Scan(Hex(v))[1] = v[1] /\ Scan(Hex(v))[2] = v[2]
<1>1. ASSUME NEW u \in [1 .. 2 -> Byte]
      PROVE  Reverse(u) \in [1 .. 2 -> Byte] /\ Reverse(u)[1] = u[2] /\ Reverse(u)[2] = u[1]
  <2>1. Len(u) = 2
    BY BytesAreSeq
  <2>2. Reverse(u) = [k \in 1 .. 2 |-> u[(2 - k) + 1]]
    BY <2>1 DEF Reverse
  <2>3. \A k \in 1 .. 2 : (2 - k) + 1 \in 1 .. 2
    OBVIOUS
  <2>4. (2 - 1) + 1 = 2 /\ (2 - 2) + 1 = 1 /\ 1 \in 1 .. 2 /\ 2 \in 1 .. 2
    OBVIOUS
  <2> QED  BY <2>2, <2>3, <2>4
<1>2. Hex(v) \in [1 .. 2 -> Byte] /\ Hex(v)[1] = v[2] /\ Hex(v)[2] = v[1]
  BY <1>1 DEF Hex
<1>3. Reverse(Hex(v))[1] = v[1] /\ Reverse(Hex(v))[2] = v[2]
  BY <1>1, <1>2
<1>4. Len(Hex(v)) = 2
  BY <1>2, BytesAreSeq
<1>5. Scan(Hex(v)) = [k \in 1 .. 4 |-> IF k <= 2 THEN Reverse(Hex(v))[k] ELSE 0]
  BY <1>4 DEF Scan
<1>6. 1 \in 1 .. 4 /\ 2 \in 1 .. 4 /\ 1 <= 2 /\ 2 <= 2
  OBVIOUS
<1> HIDE DEF Reverse
<1> QED  BY <1>3, <1>5, <1>6

\* The words of a gid survive the two swaps, the printing and the scanning.
LEMMA GidWord ==
    ASSUME NEW g \in [1 .. 4 * GidWords -> Byte], NEW j \in 1 .. GidWords
    PROVE  /\ Swap(Scan(GidToWire(g)[j])) = Word(g, j)
           /\ \A r \in 1 .. 4 : Word(g, j)[r] = g[4 * j - 4 + r]
<1>0. GidWords \in Nat /\ j \in Nat
  BY SynMsgAssumption
<1>1. g \in Seq(Byte) /\ Len(g) = 4 * GidWords
  <2>1. 4 * GidWords \in Nat
    BY <1>0
  <2> QED  BY <2>1, BytesAreSeq
<1>2. Word(g, j) \in [1 .. 4 -> Byte] /\ \A r \in 1 .. 4 : Word(g, j)[r] = g[4 * j - 4 + r]
  <2>1. 4 * j - 3 \in Int /\ 4 * j \in Int /\ 4 * j - 3 <= 4 * j /\ 4 * j - (4 * j - 3) + 1 = 4
    BY <1>0
  <2>2. \A k \in (4 * j - 3) .. (4 * j) : g[k] \in Byte
    <3>1. \A k \in (4 * j - 3) .. (4 * j) : k \in 1 .. (4 * GidWords)
      BY <1>0
    <3> QED  BY <3>1
  <2> DEFINE a == 4 * j - 3
             b == 4 * j
             w == SubSeq(g, a, b)
  <2>3. /\ w \in Seq(Byte) /\ Len(w) = IF a <= b THEN b - a + 1 ELSE 0
        /\ \A k \in 1 .. b - a + 1 : w[k] = g[a + k - 1]
    BY <2>1, <2>2, SubSeqProperties
  <2> HIDE DEF w
  <2>4. Len(w) = 4 /\ \A k \in 1 .. 4 : w[k] = g[a + k - 1]
    BY <2>1, <2>3
  <2>5. w \in [1 .. 4 -> Byte]
    BY <2>3, <2>4, LenProperties
  <2>6. ASSUME NEW r \in 1 .. 4 PROVE w[r] = g[4 * j - 4 + r]
    <3>1. a + r - 1 = 4 * j - 4 + r
      BY <1>0
    <3> QED  BY <2>4, <3>1
  <2> QED  BY <2>5, <2>6 DEF w, Word
<1> DEFINE w == Word(g, j)
<1> HIDE DEF w
<1>3. w \in [1 .. 4 -> Byte]
  BY <1>2 DEF w
<1>4. GidToWire(g)[j] = Hex(Swap(w))
  BY DEF GidToWire, w
<1>5. Swap(w) \in [1 .. 4 -> Byte] /\ Swap(Swap(w)) = w
  BY <1>3, SwapWord DEF Swap
<1>6. Scan(Hex(Swap(w))) = Swap(w)
  BY <1>5, ScanHexWord
<1>7. Swap(Scan(GidToWire(g)[j])) = w
  BY <1>4, <1>5, <1>6
<1> QED  BY <1>2, <1>7 DEF w

-----------------------------------------------------------------------------
\* The struct a message is: every byte of the concatenation of its fields is
\* where the packed layout says.
Struct(m) == m.lid \o m.qpn \o m.psn \o m.gid

LEMMA Layout ==
    ASSUME NEW m, Sized(m)
    PROVE  /\ Struct(m) \in [1 .. Size -> Byte]
           /\ \A k \in 1 .. 2 : Struct(m)[k] = m.lid[k]
           /\ \A k \in 3 .. 6 : Struct(m)[k] = m.qpn[k - 2]
           /\ \A k \in 7 .. 10 : Struct(m)[k] = m.psn[k - 6]
           /\ \A k \in 11 .. Size : Struct(m)[k] = m.gid[k - 10]
<1>0. GidWords \in Nat /\ 4 * GidWords \in Nat /\ Size = 10 + 4 * GidWords /\ Size \in Nat
  BY SynMsgAssumption DEF Size
<1>1. /\ m.lid \in Seq(Byte) /\ Len(m.lid) = 2 /\ m.qpn \in Seq(Byte) /\ Len(m.qpn) = 4
      /\ m.psn \in Seq(Byte) /\ Len(m.psn) = 4 /\ m.gid \in Seq(Byte) /\ Len(m.gid) = 4 * GidWords
  BY <1>0, BytesAreSeq DEF Sized
<1> DEFINE a == m.lid \o m.qpn
           b == a \o m.psn
           c == b \o m.gid
<1>2. /\ a \in Seq(Byte) /\ Len(a) = 6
      /\ \A k \in 1 .. 6 : a[k] = IF k <= 2 THEN m.lid[k] ELSE m.qpn[k - 2]
  <2>1. /\ a \in Seq(Byte) /\ Len(a) = Len(m.lid) + Len(m.qpn)
        /\ \A k \in 1 .. Len(m.lid) + Len(m.qpn) : a[k] = IF k <= Len(m.lid) THEN m.lid[k] ELSE m.qpn[k - Len(m.lid)]
    BY <1>1, ConcatProperties
  <2> HIDE DEF a
  <2>2. Len(m.lid) = 2 /\ Len(m.lid) + Len(m.qpn) = 6
    BY <1>1
  <2> QED  BY <2>1, <2>2
<1> HIDE DEF a
<1>3. /\ b \in Seq(Byte) /\ Len(b) = 10
      /\ \A k \in 1 .. 10 : b[k] = IF k <= 6 THEN a[k] ELSE m.psn[k - 6]
  <2>1. /\ b \in Seq(Byte) /\ Len(b) = Len(a) + Len(m.psn)
        /\ \A k \in 1 .. Len(a) + Len(m.psn) : b[k] = IF k <= Len(a) THEN a[k] ELSE m.psn[k - Len(a)]
    BY <1>1, <1>2, ConcatProperties
  <2> HIDE DEF b
  <2>2. Len(a) = 6 /\ Len(a) + Len(m.psn) = 10
    BY <1>1, <1>2
  <2> QED  BY <2>1, <2>2
<1> HIDE DEF b
<1>4. /\ c \in Seq(Byte) /\ Len(c) = Size
      /\ \A k \in 1 .. Size : c[k] = IF k <= 10 THEN b[k] ELSE m.gid[k - 10]
  <2>1. /\ c \in Seq(Byte) /\ Len(c) = Len(b) + Len(m.gid)
        /\ \A k \in 1 .. Len(b) + Len(m.gid) : c[k] = IF k <= Len(b) THEN b[k] ELSE m.gid[k - Len(b)]
    BY <1>1, <1>3, ConcatProperties
  <2> HIDE DEF c
  <2>2. Len(b) = 10 /\ Len(b) + Len(m.gid) = Size
    BY <1>0, <1>1, <1>3
  <2> QED  BY <2>1, <2>2
<1> HIDE DEF c
<1>5. c \in [1 .. Size -> Byte]
  BY <1>4, LenProperties
<1>6. ASSUME NEW k \in 1 .. 10 PROVE c[k] = b[k]
  BY <1>0, <1>4
<1>7. ASSUME NEW k \in 11 .. Size PROVE c[k] = m.gid[k - 10]
  BY <1>0, <1>4
<1>8. ASSUME NEW k \in 1 .. 2 PROVE c[k] = m.lid[k]
  BY <1>6, <1>3, <1>2
<1>9. ASSUME NEW k \in 3 .. 6 PROVE c[k] = m.qpn[k - 2]
  BY <1>6, <1>3, <1>2
<1>10. ASSUME NEW k \in 7 .. 10 PROVE c[k] = m.psn[k - 6]
  BY <1>6, <1>3
<1>11. c = Struct(m)
  BY DEF a, b, c, Struct
<1> QED  BY <1>5, <1>7, <1>8, <1>9, <1>10, <1>11

\* What a store of 32 bits leaves in memory: the four bytes, and the rest as it was.
LEMMA StoreBytes ==
    ASSUME NEW m, NEW v, NEW a \in 1 .. 7
    PROVE  /\ \A k \in a .. (a + 3) : Store(m, a, v)[k] = v[k - a + 1]
           /\ \A k \in 1 .. (a - 1) : Store(m, a, v)[k] = m[k]
<1>0. Size \in Nat /\ Size >= 10
  BY SynMsgAssumption DEF Size
<1>1. \A k \in a .. (a + 3) : k \in 1 .. Size
  BY <1>0
<1>2. \A k \in 1 .. (a - 1) : k \in 1 .. Size /\ k \notin a .. (a + 3)
  BY <1>0
<1> QED  BY <1>1, <1>2 DEF Store

\* The inductive invariant: the fields the scan has passed are in place, up to the
\* one it stores next.
Scanned(n) == \A k \in 1 .. n : mem[k] = Struct(im)[k]

ByteInv ==
    /\ Sized(im)
    /\ next # "send" => wire = [lid |-> Hex(im.lid), qpn |-> Hex(im.qpn),
                                psn |-> Hex(im.psn), gid |-> GidToWire(im.gid)]
    /\ next = "qpn" => Scanned(2)
    /\ next = "psn" => Scanned(6)
    /\ next = "gid" => Scanned(10)
    /\ next = "done" => mem = Struct(im)

\* The conversion of the gid fills the rest of the struct.
LEMMA GidBytes ==
    ASSUME NEW g \in [1 .. 4 * GidWords -> Byte], NEW m
    PROVE  /\ \A k \in 1 .. 10 : WireToGid(m, GidToWire(g))[k] = m[k]
           /\ \A k \in 11 .. Size : WireToGid(m, GidToWire(g))[k] = g[k - 10]
<1>0. GidWords \in Nat /\ Size = 10 + 4 * GidWords /\ Size \in Nat
  BY SynMsgAssumption DEF Size
<1>1. ASSUME NEW k \in 1 .. 10 PROVE WireToGid(m, GidToWire(g))[k] = m[k]
  <2>1. k \in 1 .. Size /\ k < 11
    BY <1>0
  <2> QED  BY <2>1 DEF WireToGid, GidAt
<1>2. ASSUME NEW k \in 11 .. Size PROVE WireToGid(m, GidToWire(g))[k] = g[k - 10]
  <2> DEFINE j == (k - 11) \div 4
             r == k - 11 - 4 * j + 1
  <2>1. k \in 1 .. Size /\ ~(k < 11)
    BY <1>0
  <2>2. WireToGid(m, GidToWire(g))[k] = Swap(Scan(GidToWire(g)[j + 1]))[r]
    BY <2>1 DEF WireToGid, GidAt
  <2>3. j \in Nat /\ 4 * j <= k - 11 /\ k - 11 < 4 * j + 4
    BY <1>0
  <2> HIDE DEF j
  <2>4. j + 1 \in 1 .. GidWords /\ r \in 1 .. 4
    BY <1>0, <2>3
  <2>5. Swap(Scan(GidToWire(g)[j + 1]))[r] = g[4 * (j + 1) - 4 + r]
    BY <2>4, GidWord
  <2>6. 4 * (j + 1) - 4 + r = k - 10
    BY <1>0, <2>3
  <2> QED  BY <2>2, <2>5, <2>6
<1> QED  BY <1>1, <1>2

LEMMA ByteInvInit == Init => ByteInv
BY SynMsgAssumption DEF Init, ByteInv, Sized

LEMMA ByteInvStep == ByteInv /\ [Next]_vars => ByteInv'
<1> SUFFICES ASSUME ByteInv, [Next]_vars PROVE ByteInv'
  OBVIOUS
<1> USE DEF ByteInv
<1>0. im' = im
  BY DEF Next, Send, ScanLid, ScanQpn, ScanPsn, ScanGid, Done, vars
<1>1. CASE Send
  BY <1>1 DEF Send, Sized
<1>2. CASE ScanLid
  <2>1. next = "lid" /\ next' = "qpn" /\ wire' = wire /\ wire.lid = Hex(im.lid) /\ mem' = Store(mem, 1, Scan(wire.lid))
    BY <1>2 DEF ScanLid, LidAt
  <2> DEFINE v == Scan(Hex(im.lid))
  <2>2. v[1] = im.lid[1] /\ v[2] = im.lid[2]
    BY ScanHexLid DEF Sized
  <2> HIDE DEF v
  <2>3. \A k \in 1 .. 4 : mem'[k] = v[k - 1 + 1]
    BY <2>1, StoreBytes DEF v
  <2>4. mem'[1] = v[1] /\ mem'[2] = v[2]
    BY <2>3
  <2>5. Struct(im)[1] = im.lid[1] /\ Struct(im)[2] = im.lid[2]
    BY Layout
  <2>6. \A k \in 1 .. 2 : mem'[k] = Struct(im)[k]
    BY <2>2, <2>4, <2>5
  <2> QED  BY <1>0, <2>1, <2>6 DEF Scanned, Sized
<1>3. CASE ScanQpn
  <2>1. /\ next = "qpn" /\ next' = "psn" /\ wire' = wire /\ wire.qpn = Hex(im.qpn)
        /\ mem' = Store(mem, 3, Scan(wire.qpn)) /\ Scanned(2)
    BY <1>3 DEF ScanQpn, QpnAt
  <2>2. Scan(Hex(im.qpn)) = im.qpn
    BY ScanHexWord DEF Sized
  <2>3. mem' = Store(mem, 3, im.qpn)
    BY <2>1, <2>2
  <2>4. ASSUME NEW k \in 3 .. 6 PROVE mem'[k] = Struct(im)[k]
    <3>1. mem'[k] = im.qpn[k - 3 + 1]
      BY <2>3, StoreBytes
    <3>2. k - 3 + 1 = k - 2
      OBVIOUS
    <3> QED  BY <3>1, <3>2, Layout
  <2>5. ASSUME NEW k \in 1 .. 2 PROVE mem'[k] = Struct(im)[k]
    <3>1. mem'[k] = mem[k]
      BY <2>3, StoreBytes
    <3> QED  BY <3>1, <2>1 DEF Scanned
  <2>6. \A k \in 1 .. 6 : mem'[k] = Struct(im)[k]
    BY <2>4, <2>5
  <2> QED  BY <1>0, <2>1, <2>6 DEF Scanned, Sized
<1>4. CASE ScanPsn
  <2>1. /\ next = "psn" /\ next' = "gid" /\ wire' = wire /\ wire.psn = Hex(im.psn)
        /\ mem' = Store(mem, 7, Scan(wire.psn)) /\ Scanned(6)
    BY <1>4 DEF ScanPsn, PsnAt
  <2>2. Scan(Hex(im.psn)) = im.psn
    BY ScanHexWord DEF Sized
  <2>3. mem' = Store(mem, 7, im.psn)
    BY <2>1, <2>2
  <2>4. ASSUME NEW k \in 7 .. 10 PROVE mem'[k] = Struct(im)[k]
    <3>1. mem'[k] = im.psn[k - 7 + 1]
      BY <2>3, StoreBytes
    <3>2. k - 7 + 1 = k - 6
      OBVIOUS
    <3> QED  BY <3>1, <3>2, Layout
  <2>5. ASSUME NEW k \in 1 .. 6 PROVE mem'[k] = Struct(im)[k]
    <3>1. mem'[k] = mem[k]
      BY <2>3, StoreBytes
    <3> QED  BY <3>1, <2>1 DEF Scanned
  <2>6. \A k \in 1 .. 10 : mem'[k] = Struct(im)[k]
    BY <2>4, <2>5
  <2> QED  BY <1>0, <2>1, <2>6 DEF Scanned, Sized
<1>5. CASE ScanGid
  <2>1. /\ next = "gid" /\ next' = "done" /\ wire' = wire
        /\ mem' = WireToGid(mem, GidToWire(im.gid)) /\ Scanned(10)
    BY <1>5 DEF ScanGid
  <2>2. Size \in Nat /\ Size >= 10
    BY SynMsgAssumption DEF Size
  <2>3. ASSUME NEW k \in 1 .. 10 PROVE mem'[k] = Struct(im)[k]
    BY <2>1, GidBytes DEF Sized, Scanned
  <2>4. ASSUME NEW k \in 11 .. Size PROVE mem'[k] = Struct(im)[k]
    <3>1. mem'[k] = im.gid[k - 10]
      BY <2>1, GidBytes DEF Sized
    <3> QED  BY <3>1, Layout
  <2>5. \A k \in 1 .. Size : mem'[k] = Struct(im)[k]
    BY <2>2, <2>3, <2>4
  <2>6. mem' = [k \in 1 .. Size |-> mem'[k]]
    BY <2>1 DEF WireToGid
  <2>7. Struct(im) \in [1 .. Size -> Byte]
    BY Layout
  <2>8. mem' = Struct(im)
    BY <2>5, <2>6, <2>7
  <2> QED  BY <1>0, <2>1, <2>8 DEF Struct, Sized
<1>6. CASE Done \/ UNCHANGED vars
  BY <1>6 DEF Done, vars, Sized, Scanned, Struct
<1> QED  BY <1>1, <1>2, <1>3, <1>4, <1>5, <1>6 DEF Next

\* What recv_udp_msg scans is, byte for byte, the IBSYNMsg that send_udp_msg
\* printed: for every lid, qpn, psn and gid, although the scan of the lid runs over
\* the first half of qpn and whatever the struct held before.
THEOREM RoundTripTheorem == Spec => []RoundTrip
<1>1. ByteInv => RoundTrip
  BY DEF ByteInv, RoundTrip, Struct
<1> QED  BY <1>1, ByteInvInit, ByteInvStep, PTL DEF Spec
=============================================================================
