----------------------- MODULE SessionTransferProofs ------------------------
(***************************************************************************)
(* Theorems about SessionTransfer, for every size of the buffers and every *)
(* number of calls, messages and receives: what bulk() counts is in the    *)
(* peer's memory, what it posts stays registered, a call leaves nothing to *)
(* the next, the messages of a stream land in their buffers, and read()    *)
(* would put them together in order.                                       *)
(***************************************************************************)
EXTENDS SessionTransfer, SequenceTheorems, WellFoundedInduction, TLAPS

-----------------------------------------------------------------------------
(* The inductive invariant.                                                 *)

\* The places of bulk().
InBulk == pc \in {"write", "ack", "dereg"}

\* Types, without what read() computes.
Types ==
    /\ app \in {"calls", "xx"} /\ pc \in {"idle", "gone"} \cup Busy
    /\ call \in 0 .. MaxCalls
    /\ lens \in Seq(1 .. RdmaGap)
    /\ num \in Nat /\ i \in Nat \ {0} /\ ack \in Nat
    /\ regs \subseteq Piece
    /\ rdma_index \in 0 .. (Slices - 1)
    /\ sbuf \in Nat /\ sent \in 0 .. Iter
    /\ sq \in Seq(Write \cup SendOp) /\ scq \in Seq(BOOLEAN) /\ qp_ok \in BOOLEAN
    /\ rq \in Seq(0 .. (RecvNums - 1)) /\ rcq \in Seq(1 .. Gap)
    /\ slice \in [0 .. (Slices - 1) -> Piece \cup {NoPiece}]
    /\ rbuf \in [0 .. (RecvNums - 1) -> Nat]
    /\ came \in Seq([msg : Nat, size : 1 .. Gap])
    /\ posts \in 0 .. MaxPosts
    /\ failed \in BOOLEAN /\ spoiled \in BOOLEAN

\* Where bulk() is in its loops, and what it has registered.
Loops ==
    /\ pc = "stream" => app = "xx" /\ sent > 0
    /\ InBulk \/ pc = "reap" => app = "calls"
    /\ InBulk => call > 0 /\ num > 0 /\ AllPieces \subseteq regs
    /\ pc = "write" => i <= num /\ ack = 0
    /\ pc \in {"ack", "dereg"} => i = num + 1
    /\ ~failed => regs = IF InBulk THEN AllPieces ELSE {}

\* What is in flight and what waits to be counted add up.
Outstanding ==
    /\ pc \in {"idle", "dereg"} => sq = <<>> /\ scq = <<>>
    /\ pc = "gone" => sq = <<>>
    /\ pc = "write" => Len(sq) + Len(scq) = i - 1
    /\ pc = "ack" => ack + Len(sq) + Len(scq) = num
    /\ pc \in {"reap", "stream"} => Len(sq) + Len(scq) = 1

\* Pieces of this bulk that are no longer in flight; and the slice of piece k when
\* piece `next` is to go to slice `index`.
Gone == i - 1 - Len(sq)
SliceOf(index, next, k) == (index + k - next) % Slices

\* The requests of bulk() are its last pieces, each to its slice; that of latency()
\* or of xx is the message in the send buffer.
Requests ==
    /\ InBulk => \A k \in 1 .. Len(sq) : /\ sq[k].op = "write"
                                         /\ sq[k].piece = <<call, Gone + k>>
                                         /\ sq[k].dest = SliceOf(rdma_index, i, Gone + k)
    /\ pc \in {"reap", "stream"} => \A k \in 1 .. Len(sq) : sq[k].op = "send" /\ sq[k].msg = sbuf

\* The pieces that are gone have landed, unless a completion that is not yet
\* counted says otherwise.
Landed ==
    InBulk /\ (\A k \in 1 .. Len(scq) : scq[k]) =>
        \A k \in 1 .. Gone : k + Slices > Gone => slice[SliceOf(rdma_index, i, k)] = <<call, k>>

\* xx sends the next message when the last one has arrived.
Streamed ==
    /\ pc = "stream" => /\ Len(came) + 1 >= sent
                        /\ scq # <<>> /\ scq[1] => Len(came) >= sent
    /\ app = "xx" /\ pc = "gone" /\ ~failed => Len(came) + 1 >= Iter

\* The receives of the opening are used in turn.
Receives ==
    Len(came) < RecvPosts =>
        /\ Len(rq) >= RecvPosts - 1 - Len(came)
        /\ \A k \in 1 .. (RecvPosts - 1 - Len(came)) : rq[k] = (Len(came) + k) % RecvNums

TransferInv ==
    /\ Types
    /\ Loops
    /\ ~spoiled => Outstanding /\ Requests /\ Landed /\ Streamed
    /\ Receives
    /\ StreamLands

-----------------------------------------------------------------------------
(* Facts about quotients and remainders, and about the pieces of a bulk.    *)

\* Multiples of n are n apart.
LEMMA StepsApart ==
    ASSUME NEW n \in Nat \ {0}, NEW a \in Int, NEW b \in Int, a < b
    PROVE  (n * a) + n <= n * b
<1>1. PICK k \in Nat : b = a + 1 + k
  <2>1. b - a - 1 \in Nat /\ b = a + 1 + (b - a - 1)
    OBVIOUS
  <2> QED  BY <2>1
<1>2. n * (a + 1 + k) = (n * a) + n + (n * k)
  OBVIOUS
<1>3. n * k \in Nat /\ n * a \in Int
  OBVIOUS
<1> QED  BY <1>1, <1>2, <1>3

\* Quotient and remainder are unique.
LEMMA DivModUnique ==
    ASSUME NEW n \in Nat \ {0}, NEW q \in Int, NEW r \in 0 .. (n - 1), NEW x \in Int, x = (n * q) + r
    PROVE  x \div n = q /\ x % n = r
<1> DEFINE d == x \div n
           e == x % n
<1>1. d \in Int /\ e \in 0 .. (n - 1) /\ x = (n * d) + e
  OBVIOUS
<1> HIDE DEF d, e
<1>3. n * d \in Int /\ n * q \in Int
  BY <1>1
<1>4. ~(d < q)
  <2> SUFFICES ASSUME d < q PROVE FALSE
    OBVIOUS
  <2>1. (n * d) + n <= n * q
    BY <1>1, StepsApart
  <2> QED  BY <1>1, <1>3, <2>1
<1>5. ~(q < d)
  <2> SUFFICES ASSUME q < d PROVE FALSE
    OBVIOUS
  <2>1. (n * q) + n <= n * d
    BY <1>1, StepsApart
  <2> QED  BY <1>1, <1>3, <2>1
<1>6. d = q
  BY <1>1, <1>4, <1>5
<1>7. e = r
  BY <1>1, <1>3, <1>6
<1> QED  BY <1>6, <1>7 DEF d, e

\* A step of n does not change the remainder, a shorter one does.
LEMMA ModShift ==
    ASSUME NEW n \in Nat \ {0}, NEW x \in Int
    PROVE  (x + n) % n = x % n
<1> DEFINE d == x \div n
           e == x % n
<1>1. d \in Int /\ e \in 0 .. (n - 1) /\ x = (n * d) + e
  OBVIOUS
<1> HIDE DEF d, e
<1>2. n * (d + 1) = (n * d) + n /\ n * d \in Int
  BY <1>1
<1>3. x + n = (n * (d + 1)) + e /\ x + n \in Int /\ d + 1 \in Int
  BY <1>1, <1>2
<1>4. (x + n) % n = e
  BY <1>1, <1>3, DivModUnique
<1> QED  BY <1>4 DEF e

LEMMA ModSmall ==
    ASSUME NEW n \in Nat \ {0}, NEW x \in 0 .. (n - 1)
    PROVE  x % n = x
<1>1. x = (n * 0) + x
  OBVIOUS
<1> QED  BY <1>1, DivModUnique

LEMMA ModDistinct ==
    ASSUME NEW n \in Nat \ {0}, NEW x \in Int, NEW y \in Int, x < y, y < x + n
    PROVE  x % n # y % n
<1> SUFFICES ASSUME x % n = y % n PROVE FALSE
  OBVIOUS
<1> DEFINE d == x \div n
           c == y \div n
           e == x % n
<1>1. d \in Int /\ c \in Int /\ e \in 0 .. (n - 1) /\ x = (n * d) + e /\ y = (n * c) + e
  OBVIOUS
<1> HIDE DEF d, c, e
<1>2. n * d \in Int /\ n * c \in Int
  BY <1>1
<1>3. n * d < n * c /\ n * c < (n * d) + n
  BY <1>1, <1>2
<1>4. ~(d < c)
  BY <1>1, <1>3, <1>2, StepsApart
<1>5. ~(c < d)
  BY <1>1, <1>3, <1>2, StepsApart
<1>6. d # c
  BY <1>3, <1>2
<1> QED  BY <1>1, <1>4, <1>5, <1>6

\* One more full piece.
LEMMA NumPiecesStep ==
    ASSUME NEW x \in Nat \ {0}
    PROVE  NumPieces(x) = NumPieces(x - Least(RdmaGap, x)) + 1
<1>0. RdmaGap \in Nat \ {0}
  BY SessionTransferAssumption
<1>1. CASE x < RdmaGap
  <2>1. x = (RdmaGap * 0) + x
    BY <1>0
  <2>2. x \div RdmaGap = 0 /\ x % RdmaGap = x
    BY <1>0, <1>1, <2>1, DivModUnique
  <2>3. 0 = (RdmaGap * 0) + 0
    BY <1>0
  <2>4. 0 \div RdmaGap = 0 /\ 0 % RdmaGap = 0
    BY <1>0, <2>3, DivModUnique
  <2>5. Least(RdmaGap, x) = x /\ x - x = 0
    BY <1>0, <1>1 DEF Least
  <2> QED  BY <1>0, <2>2, <2>4, <2>5 DEF NumPieces
<1>2. CASE x >= RdmaGap
  <2> DEFINE d == x \div RdmaGap
             e == x % RdmaGap
  <2>1. d \in Int /\ e \in 0 .. (RdmaGap - 1) /\ x = (RdmaGap * d) + e
    BY <1>0
  <2> HIDE DEF d, e
  <2>2. RdmaGap * (d - 1) = (RdmaGap * d) - RdmaGap /\ RdmaGap * d \in Int
    BY <1>0, <2>1
  <2>3. x - RdmaGap = (RdmaGap * (d - 1)) + e /\ x - RdmaGap \in Int /\ d - 1 \in Int
    BY <1>0, <2>1, <2>2
  <2>4. (x - RdmaGap) \div RdmaGap = d - 1 /\ (x - RdmaGap) % RdmaGap = e
    BY <1>0, <2>1, <2>3, DivModUnique
  <2>5. Least(RdmaGap, x) = RdmaGap
    <3>1. CASE RdmaGap = x
      BY <3>1 DEF Least
    <3>2. CASE RdmaGap < x
      BY <3>2 DEF Least
    <3> QED  BY <1>0, <1>2, <3>1, <3>2
  <2>6. NumPieces(x) = IF e = 0 THEN d ELSE d + 1
    BY DEF NumPieces, d, e
  <2>7. NumPieces(x - RdmaGap) = IF e = 0 THEN d - 1 ELSE (d - 1) + 1
    BY <2>4 DEF NumPieces
  <2> QED  BY <2>1, <2>5, <2>6, <2>7
<1> QED  BY <1>0, <1>1, <1>2

\* What the loop over cursor defines.
CutStep(f, size, c) ==
    IF c >= size THEN <<>>
    ELSE <<Least(RdmaGap, size - c)>> \o f[c + Least(RdmaGap, size - c)]
IsCut(f, size) == f = [c \in 0 .. size |-> CutStep(f, size, c)]

\* A set of naturals that is not empty has a least element.
LEMMA LeastNatural ==
    ASSUME NEW T \in SUBSET Nat, T # {}
    PROVE  \E m \in T : \A k \in T : m <= k
<1>1. PICK m \in T : \A k \in T : <<k, m>> \notin OpToRel(<, Nat)
  BY NatLessThanWellFounded, WFMin
<1>2. \A k \in T : ~(k < m)
  BY <1>1, Zenon DEF OpToRel
<1> QED  BY <1>2

\* It is well defined, since the cursor only grows.
LEMMA CutExists ==
    ASSUME NEW size \in Nat
    PROVE  \E f : IsCut(f, size)
<1> DEFINE Part(f, n) == f = [c \in (size - n) .. size |-> CutStep(f, size, c)]
           Bad == {n \in 0 .. size : ~\E f : Part(f, n)}
<1>0. \A c \in 0 .. size : c < size =>
         Least(RdmaGap, size - c) \in Nat \ {0} /\ c + Least(RdmaGap, size - c) <= size
  BY SessionTransferAssumption DEF Least
<1>1. Bad = {}
  <2> SUFFICES ASSUME Bad # {} PROVE FALSE
    OBVIOUS
  <2>1. PICK m \in Bad : \A k \in Bad : m <= k
    <3>1. Bad \in SUBSET Nat
      OBVIOUS
    <3> HIDE DEF Bad
    <3> QED  BY <3>1, LeastNatural
  <2>2. m \in 0 .. size /\ ~\E f : Part(f, m)
    BY <2>1
  <2>3. CASE m = 0
    <3> DEFINE g == [c \in (size - 0) .. size |-> <<>>]
    <3>1. Part(g, 0)
      <4>1. ASSUME NEW c \in (size - 0) .. size PROVE CutStep(g, size, c) = <<>>
        <5>1. c >= size
          OBVIOUS
        <5> HIDE DEF g
        <5> QED  BY <5>1 DEF CutStep
      <4> QED  BY <4>1
    <3> QED  BY <2>2, <2>3, <3>1
  <2>4. CASE m > 0
    <3>1. m - 1 \in 0 .. size /\ m - 1 \notin Bad
      <4>1. m - 1 \in 0 .. size /\ ~(m <= m - 1)
        BY <2>2, <2>4
      <4> HIDE DEF Bad
      <4> QED  BY <2>1, <4>1
    <3>2. PICK f : Part(f, m - 1)
      BY <3>1
    <3> DEFINE g == [c \in (size - m) .. size |-> IF c = size - m THEN CutStep(f, size, c) ELSE f[c]]
    <3>3. ASSUME NEW c \in (size - m) .. size PROVE g[c] = CutStep(g, size, c)
      <4> DEFINE e == c + Least(RdmaGap, size - c)
      <4>1. c \in 0 .. size /\ (c < size => e \in (size - (m - 1)) .. size /\ e # size - m)
        BY <1>0, <2>2
      <4>2. c < size => g[e] = f[e]
        BY <2>2, <4>1
      <4>3. CutStep(g, size, c) = CutStep(f, size, c)
        <5>1. c >= size \/ c < size
          BY <4>1
        <5>2. e = c + Least(RdmaGap, size - c)
          OBVIOUS
        <5> HIDE DEF g, e
        <5>3. CASE c >= size
          BY <5>3 DEF CutStep
        <5>4. CASE ~(c >= size)
          BY <4>2, <5>1, <5>2, <5>4 DEF CutStep
        <5> QED  BY <5>3, <5>4
      <4>4. CASE c = size - m
        BY <4>3, <4>4
      <4>5. CASE c # size - m
        <5>1. c \in (size - (m - 1)) .. size
          BY <2>2, <4>5
        <5>2. f[c] = CutStep(f, size, c)
          BY <3>2, <5>1
        <5> QED  BY <4>3, <4>5, <5>2
      <4> QED  BY <4>4, <4>5
    <3>4. Part(g, m)
      BY <3>3
    <3> QED  BY <2>2, <3>4
  <2> QED  BY <2>2, <2>3, <2>4
<1>2. PICK f : Part(f, size)
  <2>1. size \in 0 .. size
    OBVIOUS
  <2>2. size \notin Bad
    <3> HIDE DEF Bad
    <3> QED  BY <1>1
  <2> QED  BY <2>1, <2>2
<1>3. size - size = 0
  OBVIOUS
<1> QED  BY <1>2, <1>3 DEF IsCut

LEMMA SplitDef ==
    ASSUME NEW size \in Nat
    PROVE  \E f : IsCut(f, size) /\ Split(size) = f[0]
<1>1. \E f : IsCut(f, size)
  BY CutExists
<1> QED  BY <1>1 DEF Split, IsCut, CutStep

\* The loop over cursor makes as many pieces as bulk() expects completions, none
\* empty and none longer than the gap.
LEMMA SplitPieces ==
    ASSUME NEW size \in Nat
    PROVE  Split(size) \in Seq(1 .. RdmaGap) /\ Len(Split(size)) = NumPieces(size)
<1>0. RdmaGap \in Nat \ {0}
  BY SessionTransferAssumption
<1>1. PICK f : IsCut(f, size) /\ Split(size) = f[0]
  BY SplitDef
<1> DEFINE Good(n) == f[size - n] \in Seq(1 .. RdmaGap) /\ Len(f[size - n]) = NumPieces(n)
           Bad == {n \in 0 .. size : ~Good(n)}
<1>2. \A c \in 0 .. size : f[c] = CutStep(f, size, c)
  BY <1>1 DEF IsCut
<1>3. Bad = {}
  <2> SUFFICES ASSUME Bad # {} PROVE FALSE
    OBVIOUS
  <2>1. PICK m \in Bad : \A k \in Bad : m <= k
    <3>1. Bad \in SUBSET Nat
      OBVIOUS
    <3> HIDE DEF Bad
    <3> QED  BY <3>1, LeastNatural
  <2>2. m \in 0 .. size /\ ~Good(m)
    BY <2>1
  <2>3. CASE m = 0
    <3>1. f[size] = <<>> /\ size - 0 = size
      <4>1. size \in 0 .. size /\ size >= size /\ size - 0 = size
        OBVIOUS
      <4>2. f[size] = CutStep(f, size, size)
        BY <1>2, <4>1
      <4> QED  BY <4>1, <4>2 DEF CutStep
    <3>2. 0 = (RdmaGap * 0) + 0
      BY <1>0
    <3>3. NumPieces(0) = 0
      BY <1>0, <3>2, DivModUnique DEF NumPieces
    <3>4. <<>> \in Seq(1 .. RdmaGap) /\ Len(<<>>) = 0
      BY EmptySeq
    <3> QED  BY <2>2, <2>3, <3>1, <3>3, <3>4
  <2>4. CASE m > 0
    <3> DEFINE len == Least(RdmaGap, m)
    <3>1. len \in 1 .. RdmaGap /\ len <= m
      BY <1>0, <2>2, <2>4 DEF Least
    <3>2. size - m \in 0 .. size /\ ~(size - m >= size) /\ size - (size - m) = m
      BY <2>2, <2>4
    <3>3. f[size - m] = <<len>> \o f[(size - m) + len]
      BY <1>2, <3>2 DEF CutStep
    <3>4. m - len \in 0 .. size /\ m - len < m /\ (size - m) + len = size - (m - len)
      BY <2>2, <3>1
    <3> HIDE DEF len
    <3>5. Good(m - len)
      <4>1. m - len \notin Bad
        BY <2>1, <2>2, <3>4
      <4> QED  BY <3>4, <4>1
    <3>6. NumPieces(m) = NumPieces(m - len) + 1
      BY <2>2, <2>4, NumPiecesStep DEF len
    <3>7. <<len>> \in Seq(1 .. RdmaGap) /\ Len(<<len>>) = 1
      BY <3>1
    <3> DEFINE s == f[size - (m - len)]
    <3>8. s \in Seq(1 .. RdmaGap) /\ Len(s) = NumPieces(m - len)
      BY <3>5
    <3> HIDE DEF s
    <3>9. /\ <<len>> \o s \in Seq(1 .. RdmaGap)
          /\ Len(<<len>> \o s) = 1 + Len(s)
      BY <3>7, <3>8, ConcatProperties
    <3>10. f[size - m] = <<len>> \o s
      BY <3>3, <3>4 DEF s
    <3>11. Len(s) \in Nat /\ 1 + Len(s) = Len(s) + 1
      BY <3>8, LenProperties
    <3> QED  BY <2>2, <3>6, <3>8, <3>9, <3>10, <3>11
  <2> QED  BY <2>2, <2>3, <2>4
<1>4. Good(size)
  <2>1. size \in 0 .. size
    OBVIOUS
  <2> QED  BY <1>3, <2>1
<1>5. size - size = 0
  OBVIOUS
<1> QED  BY <1>1, <1>4, <1>5
-----------------------------------------------------------------------------
(* Facts about the state.                                                   *)

LEMMA Constants ==
    /\ RdmaGap \in Nat \ {0} /\ Slices \in Nat \ {0} /\ RecvNums \in Nat \ {0}
    /\ RecvPosts \in Nat \ {0} /\ MaxCqe \in Nat \ {0} /\ Gap \in Nat \ {0} /\ Iter \in Nat \ {0}
    /\ MaxCalls \in Nat /\ MaxPosts \in Nat /\ MsgSize \in 1 .. Gap /\ Sizes \subseteq Nat
  BY SessionTransferAssumption

\* The lengths of the two queues of the sender.
LEMMA Lengths ==
    ASSUME Types
    PROVE  /\ Len(sq) \in Nat /\ (Len(sq) = 0 <=> sq = <<>>)
           /\ Len(scq) \in Nat /\ (Len(scq) = 0 <=> scq = <<>>)
           /\ Len(came) \in Nat /\ Len(rq) \in Nat
  BY LenProperties, EmptySeq DEF Types

\* A request joins the queue.
LEMMA PostFacts ==
    ASSUME Types, NEW r \in Write \cup SendOp, Post(r)
    PROVE  /\ sq' \in Seq(Write \cup SendOp) /\ Len(sq') = Len(sq) + 1
           /\ \A k \in 1 .. Len(sq) : sq'[k] = sq[k]
           /\ sq'[Len(sq) + 1] = r
  BY AppendProperties DEF Types, Post

\* Some completions are taken, from the oldest on.
LEMMA QueryFacts ==
    ASSUME Types, Query(MaxCqe)
    PROVE  /\ scq' \in Seq(BOOLEAN) /\ Taken(MaxCqe) \in 1 .. Len(scq)
           /\ Len(scq') = Len(scq) - Taken(MaxCqe)
           /\ \A k \in 1 .. Len(scq') : scq'[k] = scq[Taken(MaxCqe) + k]
           /\ Len(scq) = 1 => Taken(MaxCqe) = 1
<1>1. scq \in Seq(BOOLEAN) /\ Len(scq) \in Nat \ {0} /\ MaxCqe \in Nat \ {0}
  BY Constants, EmptySeq DEF Types, Query
<1> DEFINE n == Taken(MaxCqe)
<1>2. n \in 1 .. Len(scq) /\ (Len(scq) = 1 => n = 1)
  <2>1. \A a, b \in Nat \ {0} : Least(a, b) \in 1 .. b /\ (b = 1 => Least(a, b) = 1)
    BY DEF Least
  <2> QED  BY <1>1, <2>1 DEF Taken
<1>3. scq' = SubSeq(scq, n + 1, Len(scq))
  BY DEF Query
<1> HIDE DEF n
<1>4. \A k \in (n + 1) .. Len(scq) : scq[k] \in BOOLEAN
  BY <1>1, <1>2, ElementOfSeq
<1>5. n + 1 \in Int /\ Len(scq) \in Int
  BY <1>1, <1>2
<1>6. /\ scq' \in Seq(BOOLEAN)
      /\ Len(scq') = IF n + 1 <= Len(scq) THEN Len(scq) - (n + 1) + 1 ELSE 0
      /\ \A k \in 1 .. Len(scq) - (n + 1) + 1 : scq'[k] = scq[(n + 1) + k - 1]
  BY <1>3, <1>4, <1>5, SubSeqProperties
<1>7. Len(scq') = Len(scq) - n
  BY <1>1, <1>2, <1>6
<1>8. ASSUME NEW k \in 1 .. Len(scq') PROVE scq'[k] = scq[n + k]
  <2>1. k \in 1 .. Len(scq) - (n + 1) + 1 /\ (n + 1) + k - 1 = n + k
    BY <1>1, <1>2, <1>7
  <2> QED  BY <1>6, <2>1
<1> QED  BY <1>2, <1>6, <1>7, <1>8 DEF n

\* The slice of the piece that is posted, and those of the pieces before it.
LEMMA SliceStep ==
    ASSUME NEW index \in 0 .. (Slices - 1), NEW next \in Int
    PROVE  /\ SliceOf(NextSlice(index), next + 1, next) = index
           /\ \A k \in Int : SliceOf(NextSlice(index), next + 1, k) = SliceOf(index, next, k)
<1>0. Slices \in Nat \ {0}
  BY Constants
<1>1. NextSlice(index) = index + 1 \/ (index = Slices - 1 /\ NextSlice(index) = 0)
  <2>1. CASE index = Slices - 1
    <3>1. index + 1 = 0 + Slices
      BY <1>0, <2>1
    <3>2. (0 + Slices) % Slices = 0 % Slices /\ 0 % Slices = 0
      BY <1>0, ModShift, ModSmall
    <3> QED  BY <2>1, <3>1, <3>2 DEF NextSlice
  <2>2. CASE index # Slices - 1
    <3>1. index + 1 \in 0 .. (Slices - 1)
      BY <1>0, <2>2
    <3> QED  BY <1>0, <3>1, ModSmall DEF NextSlice
  <2> QED  BY <2>1, <2>2
<1>2. ASSUME NEW k \in Int PROVE SliceOf(NextSlice(index), next + 1, k) = SliceOf(index, next, k)
  <2> DEFINE x == index + k - next
  <2>1. x \in Int /\ x - Slices \in Int /\ (x - Slices) + Slices = x
    BY <1>0
  <2>2. NextSlice(index) + k - (next + 1) \in {x, x - Slices}
    BY <1>0, <1>1
  <2> HIDE DEF x
  <2>3. (x - Slices) % Slices = x % Slices
    BY <1>0, <2>1, ModShift
  <2>4. SliceOf(index, next, k) = x % Slices
    BY DEF x, SliceOf
  <2> QED  BY <2>2, <2>3, <2>4 DEF SliceOf
<1>3. SliceOf(index, next, next) = index
  <2>1. index + next - next = index
    BY <1>0
  <2> QED  BY <1>0, <2>1, ModSmall DEF SliceOf
<1> QED  BY <1>2, <1>3

\* Pieces fewer than Slices apart go to different slices.
LEMMA SlicesDistinct ==
    ASSUME NEW index \in 0 .. (Slices - 1), NEW next \in Int,
           NEW j \in Int, NEW k \in Int, j < k, k < j + Slices
    PROVE  SliceOf(index, next, j) # SliceOf(index, next, k)
<1>0. Slices \in Nat \ {0}
  BY Constants
<1> DEFINE x == index + j - next
           y == index + k - next
<1>1. SliceOf(index, next, j) = x % Slices /\ SliceOf(index, next, k) = y % Slices
  BY DEF SliceOf
<1>2. x \in Int /\ y \in Int /\ x < y /\ y < x + Slices
  BY <1>0
<1> HIDE DEF x, y
<1> QED  BY <1>0, <1>1, <1>2, ModDistinct

LEMMA SliceTyped ==
    ASSUME NEW index \in 0 .. (Slices - 1), NEW next \in Int, NEW k \in Int
    PROVE  SliceOf(index, next, k) \in 0 .. (Slices - 1)
<1>1. index + k - next \in Int /\ Slices \in Nat \ {0}
  BY Constants
<1>2. \A x \in Int : x % Slices \in 0 .. (Slices - 1)
  BY <1>1
<1> QED  BY <1>1, <1>2 DEF SliceOf

\* A call of the sender does not touch the receiver.
LEMMA SenderFrame ==
    ASSUME TransferInv, UNCHANGED recvVars, spoiled => spoiled'
    PROVE  Receives' /\ StreamLands'
  BY DEF TransferInv, Receives, StreamLands, recvVars

LEMMA InitTransferInv == Init => TransferInv
<1> SUFFICES ASSUME Init PROVE TransferInv
  OBVIOUS
<1> DEFINE all == RecvQueue(RecvPosts)
<1>1. /\ all \in Seq(0 .. (RecvNums - 1)) /\ Len(all) = RecvPosts /\ all # <<>>
      /\ \A k \in 1 .. RecvPosts : all[k] = (k - 1) % RecvNums
  <2>1. Least(RecvPosts, RecvPosts) = RecvPosts /\ RecvPosts \in Nat \ {0}
    BY Constants DEF Least
  <2>2. all = [k \in 1 .. RecvPosts |-> (k - 1) % RecvNums]
    BY <2>1 DEF RecvQueue
  <2>3. \A k \in 1 .. RecvPosts : (k - 1) % RecvNums \in 0 .. (RecvNums - 1)
    BY Constants
  <2>4. all \in Seq(0 .. (RecvNums - 1)) /\ Len(all) = RecvPosts
    BY <2>1, <2>2, <2>3
  <2> HIDE DEF all
  <2>5. all # <<>>
    BY <2>1, <2>4, EmptySeq
  <2> QED  BY <2>2, <2>4, <2>5
<1> HIDE DEF all
<1>2. /\ rq \in Seq(0 .. (RecvNums - 1)) /\ Len(rq) = RecvPosts - 1
      /\ \A k \in 1 .. Len(rq) : rq[k] = all[k + 1]
  BY <1>1, HeadTailProperties DEF Init, all
<1>3. Types
  <2>1. /\ sq \in Seq(Write \cup SendOp) /\ scq \in Seq(BOOLEAN) /\ lens \in Seq(1 .. RdmaGap)
        /\ rcq \in Seq(1 .. Gap) /\ came \in Seq([msg : Nat, size : 1 .. Gap])
    BY EmptySeq DEF Init
  <2>2. /\ call \in 0 .. MaxCalls /\ posts \in 0 .. MaxPosts /\ sent \in 0 .. Iter
        /\ rdma_index \in 0 .. (Slices - 1)
    BY Constants DEF Init
  <2>3. /\ slice \in [0 .. (Slices - 1) -> Piece \cup {NoPiece}]
        /\ rbuf \in [0 .. (RecvNums - 1) -> Nat]
    BY DEF Init
  <2>4. /\ app \in {"calls", "xx"} /\ pc \in {"idle", "gone"} \cup Busy /\ regs \subseteq Piece
        /\ qp_ok \in BOOLEAN /\ failed \in BOOLEAN /\ spoiled \in BOOLEAN
    BY Zenon DEF Init
  <2>5. num \in Nat /\ i \in Nat \ {0} /\ ack \in Nat /\ sbuf \in Nat
    BY DEF Init
  <2> QED  BY <1>2, <2>1, <2>2, <2>3, <2>4, <2>5 DEF Types
<1>4. Loops
  BY DEF Init, Loops, InBulk
<1>5. Outstanding /\ Requests /\ Landed /\ Streamed
  BY DEF Init, Outstanding, Requests, Landed, Streamed, InBulk
<1>6. Len(came) = 0
  BY EmptySeq DEF Init
<1>7. Receives
  <2>1. RecvPosts - 1 - 0 = RecvPosts - 1 /\ RecvPosts \in Nat
    BY Constants
  <2>2. ASSUME NEW k \in 1 .. (RecvPosts - 1) PROVE rq[k] = (0 + k) % RecvNums
    <3>1. k + 1 \in 1 .. RecvPosts /\ (k + 1) - 1 = 0 + k
      BY <2>1
    <3> QED  BY <1>1, <1>2, <3>1
  <2> QED  BY <1>2, <1>6, <2>1, <2>2 DEF Receives
<1>8. StreamLands
  BY <1>6 DEF StreamLands
<1> QED  BY <1>3, <1>4, <1>5, <1>7, <1>8 DEF TransferInv

-----------------------------------------------------------------------------
(* The steps of bulk().                                                     *)

LEMMA SenderInv ==
    ASSUME TransferInv, UNCHANGED recvVars, spoiled => spoiled', Types', Loops',
           ~spoiled' => Outstanding' /\ Requests' /\ Landed' /\ Streamed'
    PROVE  TransferInv'
  BY SenderFrame DEF TransferInv

\* A call returns: it has failed or nothing is registered, and it leaves nothing in
\* the queues or the session is spoiled.
LEMMA ReturnInv ==
    ASSUME TransferInv, UNCHANGED recvVars, spoiled => spoiled', Types', pc' = "idle",
           failed' \/ regs' = {}, ~spoiled' => sq' = <<>> /\ scq' = <<>>
    PROVE  TransferInv'
<1>1. Loops'
  BY DEF Loops, InBulk
<1>2. ~spoiled' => Outstanding' /\ Requests' /\ Landed' /\ Streamed'
  BY DEF Outstanding, Requests, Landed, Streamed, InBulk
<1> QED  BY <1>1, <1>2, SenderInv

\* Pieces of a call are pieces.
LEMMA PiecesTyped ==
    ASSUME NEW c \in 1 .. MaxCalls, NEW k
    PROVE  {<<c, j>> : j \in 1 .. k} \subseteq Piece
  BY DEF Piece

LEMMA BulkInv ==
    ASSUME TransferInv, NEW size \in Sizes, Bulk(size)
    PROVE  TransferInv'
<1> DEFINE pieces == Split(size)
           first(k) == {<<call + 1, j>> : j \in 1 .. k}
<1>0. /\ Types /\ Loops /\ pc = "idle" /\ app = "calls" /\ call < MaxCalls
      /\ ~spoiled => sq = <<>> /\ scq = <<>>
      /\ call' = call + 1 /\ lens' = pieces /\ num' = NumPieces(size) /\ i' = 1 /\ ack' = 0
      /\ UNCHANGED <<app, rdma_index, sbuf, sent, sq, scq, qp_ok>> /\ UNCHANGED recvVars
  BY DEF Bulk, TransferInv, Outstanding, xVars, queues
<1>1. pieces \in Seq(1 .. RdmaGap) /\ Len(pieces) = NumPieces(size) /\ Len(pieces) \in Nat
  BY Constants, SplitPieces, LenProperties
<1>2. call + 1 \in 1 .. MaxCalls /\ call' \in 0 .. MaxCalls
  BY <1>0, Constants DEF Types
<1>3. \A k : first(k) \subseteq Piece
  BY <1>2, PiecesTyped
<1>4. UNCHANGED <<rq, rcq, slice, rbuf, came, posts>>
  BY <1>0 DEF recvVars
<1> HIDE DEF pieces
<1>5. ASSUME regs' \subseteq Piece, failed' \in BOOLEAN, spoiled' \in BOOLEAN,
             pc' \in {"idle", "write"}
      PROVE  Types'
  <2>1. /\ lens' \in Seq(1 .. RdmaGap) /\ num' \in Nat /\ i' \in Nat \ {0} /\ ack' \in Nat
        /\ pc' \in {"idle", "gone"} \cup Busy
    BY <1>0, <1>1, <1>5 DEF Busy
  <2> QED  BY <1>0, <1>2, <1>4, <1>5, <2>1 DEF Types
<1>6. CASE regs' = regs \cup first(Len(pieces)) /\ pc' = (IF num' = 0 THEN "idle" ELSE "write")
           /\ UNCHANGED history
  <2>1. failed' = failed /\ spoiled' = spoiled
    BY <1>6 DEF history
  <2>2. Types'
    BY <1>0, <1>3, <1>5, <1>6, <2>1 DEF Types
  <2>3. ~failed => regs = {}
    BY <1>0 DEF Loops, InBulk
  <2>4. AllPieces' = first(Len(pieces))
    BY <1>0, <1>1 DEF AllPieces
  <2>5. CASE num' = 0
    <3>1. first(Len(pieces)) = {}
      BY <1>0, <1>1, <2>5
    <3>2. failed' \/ regs' = {}
      BY <1>6, <2>1, <2>3, <3>1
    <3>3. pc' = "idle"
      BY <1>6, <2>5
    <3> QED  BY <1>0, <2>1, <2>2, <3>2, <3>3, ReturnInv
  <2>6. CASE num' # 0
    <3>0. pc' = "write"
      BY <1>6, <2>6
    <3>1. num' \in Nat /\ num' > 0 /\ i' <= num' /\ call' > 0
      BY <1>0, <1>1, <1>2, <2>6
    <3>2. Loops'
      BY <1>0, <1>6, <2>1, <2>3, <2>4, <3>0, <3>1 DEF Loops, InBulk
    <3>3. ASSUME ~spoiled' PROVE Outstanding' /\ Requests' /\ Landed' /\ Streamed'
      <4>1. sq' = <<>> /\ scq' = <<>> /\ Len(<<>>) = 0
        BY <1>0, <2>1, <3>3, EmptySeq
      <4>2. Outstanding'
        BY <1>0, <3>0, <4>1 DEF Outstanding
      <4>3. Gone' = 0
        <5>1. i' = 1 /\ Len(sq') = 0
          BY <1>0, <4>1
        <5> QED  BY <5>1 DEF Gone
      <4>4. Requests' /\ Landed' /\ Streamed'
        BY <1>0, <3>0, <4>1, <4>3 DEF Requests, Landed, Streamed, InBulk
      <4> QED  BY <4>2, <4>4
    <3> QED  BY <1>0, <2>1, <2>2, <3>2, <3>3, SenderInv
  <2> QED  BY <2>5, <2>6
<1>7. CASE \E k \in 0 .. (Len(pieces) - 1) : regs' = regs \cup first(k) /\ ReturnError(FALSE)
  <2>1. PICK k : regs' = regs \cup first(k)
    BY <1>7
  <2>2. pc' = "idle" /\ failed' = TRUE /\ spoiled' = spoiled
    BY <1>0, <1>7 DEF ReturnError, Types
  <2>3. Types'
    <3>1. regs' \subseteq Piece
      BY <1>0, <1>3, <2>1 DEF Types
    <3> QED  BY <1>0, <1>5, <2>2, <3>1 DEF Types
  <2> QED  BY <1>0, <2>2, <2>3, ReturnInv
<1> QED  BY <1>6, <1>7 DEF Bulk, pieces

\* A piece is posted, to the next slice.
LEMMA RdmaInv ==
    ASSUME TransferInv, Rdma
    PROVE  TransferInv'
<1> DEFINE r == [op |-> "write", piece |-> <<call, i>>, dest |-> rdma_index]
<1>0. /\ Types /\ Loops /\ pc = "write" /\ app = "calls" /\ call > 0 /\ i <= num
      /\ rdma_index' = NextSlice(rdma_index)
      /\ UNCHANGED <<app, call, lens, num, ack, regs, sbuf, sent, scq, qp_ok>> /\ UNCHANGED recvVars
  BY DEF Rdma, TransferInv, Loops, InBulk, xVars
<1>1. UNCHANGED <<rq, rcq, slice, rbuf, came, posts>>
  BY <1>0 DEF recvVars
<1>2. rdma_index' \in 0 .. (Slices - 1) /\ r \in Write
  <2>1. rdma_index + 1 \in Int /\ Slices \in Nat \ {0}
    BY <1>0, Constants DEF Types
  <2>2. call \in 1 .. MaxCalls
    BY <1>0, Constants DEF Types
  <2> QED  BY <1>0, <2>1, <2>2 DEF NextSlice, Write, Piece, Types
<1>3. ~spoiled => Len(sq) + Len(scq) = i - 1
  BY <1>0 DEF TransferInv, Outstanding
<1>4. CASE Post(r) /\ i' = i + 1 /\ pc' = (IF i = num THEN "ack" ELSE pc) /\ UNCHANGED history
  <2>1. failed' = failed /\ spoiled' = spoiled
    BY <1>4 DEF history
  <2>2. /\ sq' \in Seq(Write \cup SendOp) /\ Len(sq') = Len(sq) + 1
        /\ \A k \in 1 .. Len(sq) : sq'[k] = sq[k]
        /\ sq'[Len(sq) + 1] = r
    BY <1>0, <1>2, <1>4, PostFacts
  <2>3. i \in Nat \ {0} /\ num \in Nat /\ Len(sq) \in Nat /\ Len(scq) \in Nat
    BY <1>0, Lengths DEF Types
  <2>4. pc' \in {"write", "ack"} /\ (pc' = "write" => i' <= num) /\ (pc' = "ack" => i' = num + 1)
    BY <1>0, <1>4, <2>3
  <2>5. Types'
    BY <1>0, <1>1, <1>2, <1>4, <2>1, <2>2, <2>4 DEF Types, Busy
  <2>6. Loops'
    <3>1. AllPieces' = AllPieces
      BY <1>0 DEF AllPieces
    <3> QED  BY <1>0, <2>1, <2>4, <3>1 DEF Loops, InBulk
  <2>7. ASSUME ~spoiled' PROVE Outstanding' /\ Requests' /\ Landed' /\ Streamed'
    <3>0. Outstanding /\ Requests /\ Landed /\ ~spoiled
      BY <2>1, <2>7 DEF TransferInv
    <3>1. Outstanding'
      <4>1. Len(sq') + Len(scq') = i' - 1 /\ (pc' = "ack" => ack' + Len(sq') + Len(scq') = num')
        BY <1>0, <1>3, <1>4, <2>2, <2>3, <2>4, <3>0 DEF Loops
      <4> QED  BY <2>4, <4>1 DEF Outstanding
    <3>2. Gone' = Gone /\ Gone + Len(sq) + 1 = i /\ Gone \in Int
      BY <1>4, <2>2, <2>3 DEF Gone
    <3>3. /\ \A k \in Int : SliceOf(rdma_index', i', k) = SliceOf(rdma_index, i, k)
          /\ SliceOf(rdma_index', i', i) = rdma_index
      <4>1. rdma_index \in 0 .. (Slices - 1) /\ i \in Int
        BY <1>0, <2>3 DEF Types
      <4>2. /\ SliceOf(NextSlice(rdma_index), i + 1, i) = rdma_index
            /\ \A k \in Int : SliceOf(NextSlice(rdma_index), i + 1, k) = SliceOf(rdma_index, i, k)
        BY <4>1, SliceStep
      <4>3. rdma_index' = NextSlice(rdma_index) /\ i' = i + 1
        BY <1>0, <1>4
      <4> QED  BY <4>2, <4>3
    <3>4. Requests'
      <4>1. ASSUME NEW k \in 1 .. Len(sq')
            PROVE  /\ sq'[k].op = "write"
                   /\ sq'[k].piece = <<call, Gone + k>>
                   /\ sq'[k].dest = SliceOf(rdma_index', i', Gone + k)
        <5>1. CASE k \in 1 .. Len(sq)
          <6>1. /\ sq[k].op = "write" /\ sq[k].piece = <<call, Gone + k>>
                /\ sq[k].dest = SliceOf(rdma_index, i, Gone + k)
            BY <1>0, <3>0, <5>1 DEF Requests, InBulk
          <6>2. Gone + k \in Int
            BY <3>2
          <6> QED  BY <2>2, <3>3, <5>1, <6>1, <6>2
        <5>2. CASE k = Len(sq) + 1
          <6>1. sq'[k] = r /\ Gone + k = i
            BY <2>2, <2>3, <3>2, <5>2
          <6> QED  BY <3>3, <6>1
        <5> QED  BY <2>2, <2>3, <5>1, <5>2
      <4> QED  BY <1>0, <2>4, <3>2, <4>1 DEF Requests, InBulk
    <3>5. Landed'
      BY <1>0, <1>1, <3>0, <3>2, <3>3 DEF Landed, InBulk
    <3>6. Streamed'
      BY <1>0, <2>4 DEF Streamed
    <3> QED  BY <3>1, <3>4, <3>5, <3>6
  <2> QED  BY <1>0, <2>1, <2>5, <2>6, <2>7, SenderInv
<1>5. CASE ReturnError(i > 1) /\ UNCHANGED <<sq, i>>
  <2>1. pc' = "idle" /\ failed' = TRUE /\ spoiled' = (spoiled \/ i > 1)
    BY <1>5 DEF ReturnError
  <2>2. spoiled' \in BOOLEAN /\ (spoiled => spoiled') /\ (~spoiled' => ~spoiled /\ ~(i > 1))
    BY <2>1
  <2>3. Types'
    BY <1>0, <1>1, <1>2, <1>5, <2>1, <2>2 DEF Types
  <2>4. ~spoiled' => sq' = <<>> /\ scq' = <<>>
    <3>1. ~spoiled' => Len(sq) = 0 /\ Len(scq) = 0
      BY <1>0, <1>3, <2>2, Lengths DEF Types
    <3> QED  BY <1>0, <1>5, <3>1, Lengths
  <2> QED  BY <1>0, <2>1, <2>2, <2>3, <2>4, ReturnInv
<1> QED  BY <1>4, <1>5 DEF Rdma

\* Completions are counted; when they add up to num, nothing is in flight.
LEMMA WaitAckInv ==
    ASSUME TransferInv, WaitAck
    PROVE  TransferInv'
<1> DEFINE n == Taken(MaxCqe)
<1>0. /\ Types /\ Loops /\ pc = "ack" /\ app = "calls" /\ Query(MaxCqe)
      /\ UNCHANGED <<app, call, lens, num, i, regs, rdma_index, sbuf, sent, sq, qp_ok>>
      /\ UNCHANGED recvVars
  BY DEF WaitAck, Query, TransferInv, Loops, InBulk, xVars
<1>1. UNCHANGED <<rq, rcq, slice, rbuf, came, posts>>
  BY <1>0 DEF recvVars
<1>2. /\ scq' \in Seq(BOOLEAN) /\ n \in 1 .. Len(scq)
      /\ Len(scq') = Len(scq) - n
      /\ \A k \in 1 .. Len(scq') : scq'[k] = scq[n + k]
  BY <1>0, QueryFacts
<1>3. Len(sq) \in Nat /\ Len(scq) \in Nat /\ num \in Nat /\ ack \in Nat
  BY <1>0, Lengths DEF Types
<1> HIDE DEF n
<1>4. CASE AllOk(MaxCqe)
  <2>1. /\ ack' = ack + n /\ pc' = (IF ack' = num THEN "dereg" ELSE "ack")
        /\ failed' = failed /\ spoiled' = spoiled
    BY <1>0, <1>4 DEF WaitAck, Counted, Acked, n, history
  <2>2. \A k \in 1 .. n : scq[k]
    BY <1>4 DEF AllOk, n
  <2>3. Types'
    <3>1. ack' \in Nat /\ pc' \in {"idle", "gone"} \cup Busy
      BY <1>2, <1>3, <2>1 DEF Busy
    <3> QED  BY <1>0, <1>1, <1>2, <2>1, <3>1 DEF Types
  <2>4. Loops'
    <3>1. AllPieces' = AllPieces
      BY <1>0 DEF AllPieces
    <3> QED  BY <1>0, <2>1, <3>1 DEF Loops, InBulk
  <2>5. ASSUME ~spoiled' PROVE Outstanding' /\ Requests' /\ Landed' /\ Streamed'
    <3>0. ack + Len(sq) + Len(scq) = num /\ Requests /\ Landed
      BY <1>0, <2>1, <2>5 DEF TransferInv, Outstanding
    <3>1. ack' + Len(sq') + Len(scq') = num' /\ Len(scq') \in Nat
      <4>1. n \in 1 .. Len(scq) /\ Len(scq') = Len(scq) - n /\ ack' = ack + n
        BY <1>2, <2>1
      <4>2. Len(sq') = Len(sq) /\ num' = num
        BY <1>0
      <4>3. Len(scq') \in Nat
        BY <1>3, <4>1
      <4> QED  BY <1>3, <3>0, <4>1, <4>2, <4>3
    <3>2. Outstanding'
      <4>1. CASE ack' = num
        <5>1. Len(sq') = 0 /\ Len(scq') = 0
          BY <1>0, <1>3, <3>1, <4>1
        <5>2. sq' = <<>> /\ scq' = <<>>
          BY <1>0, <1>2, <5>1, EmptySeq DEF Types
        <5> QED  BY <2>1, <4>1, <5>2 DEF Outstanding
      <4>2. CASE ack' # num
        BY <2>1, <3>1, <4>2 DEF Outstanding
      <4> QED  BY <4>1, <4>2
    <3>3. Gone' = Gone
      BY <1>0 DEF Gone
    <3>4. Requests'
      BY <1>0, <2>1, <3>0, <3>3 DEF Requests, InBulk
    <3>5. Landed'
      <4>1. (\A k \in 1 .. Len(scq') : scq'[k]) => (\A k \in 1 .. Len(scq) : scq[k])
        <5> SUFFICES ASSUME \A k \in 1 .. Len(scq') : scq'[k], NEW k \in 1 .. Len(scq)
                     PROVE  scq[k]
          OBVIOUS
        <5>1. CASE k <= n
          BY <1>2, <2>2, <5>1
        <5>2. CASE k > n
          <6>1. k - n \in 1 .. Len(scq') /\ n + (k - n) = k
            BY <1>2, <1>3, <5>2
          <6> QED  BY <1>2, <6>1
        <5> QED  BY <1>2, <5>1, <5>2
      <4> QED  BY <1>0, <1>1, <3>0, <3>3, <4>1 DEF Landed, InBulk
    <3>6. Streamed'
      BY <1>0, <2>1 DEF Streamed
    <3> QED  BY <3>2, <3>4, <3>5, <3>6
  <2> QED  BY <1>0, <2>1, <2>3, <2>4, <2>5, SenderInv
<1>5. CASE ~AllOk(MaxCqe)
  <2>1. pc' = "idle" /\ failed' = TRUE /\ spoiled' = TRUE /\ ack' = ack
    BY <1>5 DEF WaitAck, ReturnError
  <2>2. Types'
    BY <1>0, <1>1, <1>2, <2>1 DEF Types
  <2> QED  BY <1>0, <2>1, <2>2, ReturnInv
<1> QED  BY <1>4, <1>5

\* The pieces are deregistered, with nothing in flight.
LEMMA DeregInv ==
    ASSUME TransferInv, Dereg
    PROVE  TransferInv'
<1>0. /\ Types /\ Loops /\ pc = "dereg"
      /\ ~spoiled => sq = <<>> /\ scq = <<>>
      /\ pc' = "idle" /\ regs' \subseteq regs
      /\ UNCHANGED <<app, call, lens, num, i, ack, rdma_index, sbuf, sent, sq, scq, qp_ok>>
      /\ UNCHANGED recvVars
  BY DEF Dereg, ReturnError, TransferInv, Outstanding, bulkVars, xVars, queues
<1>1. UNCHANGED <<rq, rcq, slice, rbuf, came, posts>>
  BY <1>0 DEF recvVars
<1>2. /\ spoiled' = spoiled
      /\ failed' = TRUE \/ (failed' = failed /\ regs' = regs \ AllPieces)
  BY <1>0 DEF Dereg, ReturnError, history, Types
<1>3. Types'
  BY <1>0, <1>1, <1>2 DEF Types
<1>4. failed' \/ regs' = {}
  <2>1. ~failed => regs = AllPieces
    BY <1>0 DEF Loops, InBulk
  <2> QED  BY <1>0, <1>2, <2>1 DEF Types
<1> QED  BY <1>0, <1>2, <1>3, <1>4, ReturnInv

-----------------------------------------------------------------------------
(* The steps of latency(), and a poll that fails.                           *)

LEMMA LatencyInv ==
    ASSUME TransferInv, NEW size \in 0 .. Gap, Latency(size)
    PROVE  TransferInv'
<1>0. /\ Types /\ Loops /\ pc = "idle" /\ app = "calls" /\ call < MaxCalls
      /\ ~spoiled => sq = <<>> /\ scq = <<>>
      /\ call' = call + 1 /\ sbuf' = call + 1
      /\ UNCHANGED <<app, lens, num, i, ack, rdma_index, regs, sent, scq, qp_ok>>
      /\ UNCHANGED recvVars
  BY DEF Latency, TransferInv, Outstanding, bulkVars
<1>1. UNCHANGED <<rq, rcq, slice, rbuf, came, posts>>
  BY <1>0 DEF recvVars
<1>2. call' \in 0 .. MaxCalls /\ sbuf' \in Nat
  BY <1>0, Constants DEF Types
<1>3. ~failed => regs = {}
  BY <1>0 DEF Loops, InBulk
<1>4. CASE size > 0 /\ Post(Message(call + 1, size)) /\ pc' = "reap" /\ UNCHANGED history
  <2> DEFINE r == Message(call + 1, size)
  <2>1. r \in SendOp /\ r.op = "send" /\ r.msg = sbuf'
    <3>1. size \in 1 .. Gap /\ call + 1 \in Nat
      BY <1>0, <1>2, <1>4, Constants
    <3> QED  BY <1>0, <3>1 DEF Message, SendOp
  <2>2. failed' = failed /\ spoiled' = spoiled
    BY <1>4 DEF history
  <2>3. /\ sq' \in Seq(Write \cup SendOp) /\ Len(sq') = Len(sq) + 1
        /\ sq'[Len(sq) + 1] = r
    BY <1>0, <1>4, <2>1, PostFacts
  <2> HIDE DEF r
  <2>4. Types'
    BY <1>0, <1>1, <1>2, <1>4, <2>2, <2>3 DEF Types, Busy
  <2>5. Loops'
    BY <1>0, <1>3, <1>4, <2>2 DEF Loops, InBulk
  <2>6. ASSUME ~spoiled' PROVE Outstanding' /\ Requests' /\ Landed' /\ Streamed'
    <3>1. Len(sq) = 0 /\ Len(scq') = 0
      BY <1>0, <2>2, <2>6, Lengths
    <3>2. Len(sq') = 1 /\ Len(scq') = 0 /\ sq'[1] = r
      BY <2>3, <3>1
    <3>3. Outstanding'
      BY <1>4, <3>2 DEF Outstanding
    <3>4. \A k \in 1 .. Len(sq') : k = 1
      BY <3>2
    <3>5. Requests' /\ Landed' /\ Streamed'
      BY <1>0, <1>4, <2>1, <3>2, <3>4 DEF Requests, Landed, Streamed, InBulk
    <3> QED  BY <3>3, <3>5
  <2> QED  BY <1>0, <2>2, <2>4, <2>5, <2>6, SenderInv
<1>5. CASE pc' = "reap" /\ spoiled' = TRUE /\ UNCHANGED <<sq, failed>>
  <2>1. Types'
    BY <1>0, <1>1, <1>2, <1>5 DEF Types, Busy
  <2>2. Loops'
    BY <1>0, <1>3, <1>5 DEF Loops, InBulk
  <2> QED  BY <1>0, <1>5, <2>1, <2>2, SenderInv
<1>6. CASE ReturnError(FALSE) /\ UNCHANGED sq
  <2>1. pc' = "idle" /\ failed' = TRUE /\ spoiled' = spoiled
    BY <1>0, <1>6 DEF ReturnError, Types
  <2>2. Types'
    BY <1>0, <1>1, <1>2, <1>6, <2>1 DEF Types
  <2> QED  BY <1>0, <1>6, <2>1, <2>2, ReturnInv
<1> QED  BY <1>4, <1>5, <1>6 DEF Latency

\* The one completion is taken.
LEMMA LatencyDoneInv ==
    ASSUME TransferInv, LatencyDone
    PROVE  TransferInv'
<1>0. /\ Types /\ Loops /\ pc = "reap" /\ Query(MaxCqe) /\ pc' = "idle"
      /\ UNCHANGED <<app, call, lens, num, i, ack, regs, rdma_index, sbuf, sent, sq, qp_ok>>
      /\ UNCHANGED recvVars
  BY DEF LatencyDone, Query, ReturnError, TransferInv, bulkVars, xVars
<1>1. UNCHANGED <<rq, rcq, slice, rbuf, came, posts>>
  BY <1>0 DEF recvVars
<1>2. /\ scq' \in Seq(BOOLEAN) /\ Taken(MaxCqe) \in 1 .. Len(scq)
      /\ Len(scq') = Len(scq) - Taken(MaxCqe)
      /\ Len(scq) = 1 => Taken(MaxCqe) = 1
  BY <1>0, QueryFacts
<1>3. \/ failed' = failed /\ spoiled' = spoiled
      \/ failed' = TRUE /\ spoiled' = TRUE
  BY DEF LatencyDone, ReturnError, history
<1>4. Types'
  BY <1>0, <1>1, <1>2, <1>3 DEF Types
<1>5. failed' \/ regs' = {}
  BY <1>0, <1>3 DEF Loops, InBulk
<1>6. ASSUME ~spoiled' PROVE sq' = <<>> /\ scq' = <<>>
  <2>1. Len(sq) + Len(scq) = 1
    BY <1>0, <1>3, <1>6 DEF TransferInv, Outstanding
  <2>2. Len(sq) \in Nat /\ Len(scq) \in Nat
    BY <1>0, Lengths
  <2>3. Len(sq') = 0 /\ Len(scq') = 0
    BY <1>0, <1>2, <2>1, <2>2
  <2> QED  BY <1>4, <2>3, EmptySeq DEF Types
<1>7. spoiled => spoiled'
  BY <1>3
<1> QED  BY <1>0, <1>4, <1>5, <1>6, <1>7, ReturnInv

LEMMA PollFailsInv ==
    ASSUME TransferInv, PollFails
    PROVE  TransferInv'
<1>0. /\ Types /\ pc' = "idle" /\ failed' = TRUE /\ spoiled' = TRUE
      /\ UNCHANGED <<app, call, lens, num, i, ack, regs, rdma_index, sbuf, sent, sq, scq, qp_ok>>
      /\ UNCHANGED recvVars
  BY DEF PollFails, ReturnError, TransferInv, bulkVars, xVars, queues
<1>1. UNCHANGED <<rq, rcq, slice, rbuf, came, posts>>
  BY <1>0 DEF recvVars
<1>2. Types'
  BY <1>0, <1>1 DEF Types
<1> QED  BY <1>0, <1>2, ReturnInv

-----------------------------------------------------------------------------
(* The client of xx, and close().                                           *)

\* The process is gone, and with it what it had posted.
LEMMA GoneInv ==
    ASSUME TransferInv, UNCHANGED recvVars, spoiled => spoiled', Types', pc' = "gone",
           failed' \/ regs' = {}, ~spoiled' => sq' = <<>>,
           ~spoiled' => failed' \/ app' # "xx" \/ Len(came') + 1 >= Iter
    PROVE  TransferInv'
<1>1. Loops'
  BY DEF Loops, InBulk
<1>2. ~spoiled' => Outstanding' /\ Requests' /\ Landed' /\ Streamed'
  BY DEF Outstanding, Requests, Landed, Streamed, InBulk
<1> QED  BY <1>1, <1>2, SenderInv

\* A message of xx is the only request, and that of the send buffer.
LEMMA StreamInv ==
    ASSUME TransferInv, UNCHANGED recvVars, spoiled' = spoiled, Types', pc' = "stream", app' = "xx",
           sent' > 0, failed' \/ regs' = {},
           ~spoiled => /\ sq = <<>> /\ scq' = <<>> /\ Len(came) + 1 >= sent',
           Post(Message(sbuf', MsgSize))
    PROVE  TransferInv'
<1> DEFINE r == Message(sbuf', MsgSize)
<1>1. Loops'
  BY DEF Loops, InBulk
<1>2. r \in SendOp /\ r.op = "send" /\ r.msg = sbuf'
  BY Constants DEF Message, SendOp, Types
<1>3. Len(sq') = Len(sq) + 1 /\ sq'[Len(sq) + 1] = r
  BY <1>2, PostFacts DEF TransferInv
<1> HIDE DEF r
<1>4. ASSUME ~spoiled' PROVE Outstanding' /\ Requests' /\ Landed' /\ Streamed'
  <2>1. Len(sq) = 0 /\ Len(scq') = 0 /\ came' = came
    BY <1>4, EmptySeq DEF recvVars
  <2>2. Len(sq') = 1 /\ sq'[1] = r
    BY <1>3, <2>1
  <2>3. Outstanding'
    BY <2>1, <2>2 DEF Outstanding
  <2>4. \A k \in 1 .. Len(sq') : k = 1
    BY <2>2
  <2>5. Requests' /\ Landed' /\ Streamed'
    BY <1>2, <1>4, <2>1, <2>2, <2>4 DEF Requests, Landed, Streamed, InBulk
  <2> QED  BY <2>3, <2>5
<1> QED  BY <1>1, <1>4, SenderInv

LEMMA XStartInv ==
    ASSUME TransferInv, XStart
    PROVE  TransferInv'
<1>0. /\ Types /\ Loops /\ pc = "idle" /\ app = "xx" /\ sbuf' = 1 /\ sent' = 1
      /\ ~spoiled => sq = <<>> /\ scq = <<>>
      /\ UNCHANGED <<app, call, lens, num, i, ack, rdma_index, regs, scq, qp_ok>>
      /\ UNCHANGED recvVars
  BY DEF XStart, TransferInv, Outstanding, bulkVars
<1>1. UNCHANGED <<rq, rcq, slice, rbuf, came, posts>>
  BY <1>0 DEF recvVars
<1>2. sbuf' \in Nat /\ sent' \in 0 .. Iter /\ sent' > 0
  BY <1>0, Constants
<1>3. ~failed => regs = {}
  BY <1>0 DEF Loops, InBulk
<1>4. CASE Post(Message(1, MsgSize)) /\ pc' = "stream" /\ UNCHANGED history
  <2>1. failed' = failed /\ spoiled' = spoiled
    BY <1>4 DEF history
  <2>2. Message(1, MsgSize) \in SendOp
    BY Constants DEF Message, SendOp
  <2>3. sq' \in Seq(Write \cup SendOp)
    BY <1>0, <1>4, <2>2, PostFacts
  <2>4. Types'
    BY <1>0, <1>1, <1>2, <1>4, <2>1, <2>3 DEF Types, Busy
  <2>5. Len(came) + 1 >= sent'
    BY <1>0, Lengths
  <2> QED  BY <1>0, <1>2, <1>3, <1>4, <2>1, <2>4, <2>5, StreamInv
<1>5. CASE pc' = "gone" /\ failed' = TRUE /\ UNCHANGED <<sq, spoiled>>
  <2>1. Types'
    BY <1>0, <1>1, <1>2, <1>5 DEF Types
  <2> QED  BY <1>0, <1>5, <2>1, GoneInv
<1> QED  BY <1>4, <1>5 DEF XStart

\* The next message follows the completion of the last.
LEMMA XNextInv ==
    ASSUME TransferInv, XNext
    PROVE  TransferInv'
<1>0. /\ Types /\ Loops /\ pc = "stream" /\ app = "xx" /\ sent < Iter /\ scq # <<>>
      /\ scq' = Tail(scq)
      /\ UNCHANGED <<app, call, lens, num, i, ack, rdma_index, regs, qp_ok>>
      /\ UNCHANGED recvVars
  BY DEF XNext, TransferInv, Loops, bulkVars
<1>1. UNCHANGED <<rq, rcq, slice, rbuf, came, posts>>
  BY <1>0 DEF recvVars
<1>2. scq' \in Seq(BOOLEAN) /\ Len(scq') = Len(scq) - 1 /\ Head(scq) = scq[1]
  BY <1>0, HeadTailProperties DEF Types
<1>3. failed \/ regs = {}
  BY <1>0 DEF Loops, InBulk
<1>4. sent \in Nat /\ sent + 1 \in 0 .. Iter /\ sent + 1 > 0 /\ sent + 1 \in Nat
  BY <1>0, Constants DEF Types
<1>5. ASSUME Head(scq), ~spoiled
      PROVE  sq = <<>> /\ scq' = <<>> /\ Len(came) + 1 >= sent + 1
  <2>1. Len(sq) + Len(scq) = 1 /\ Len(came) >= sent
    BY <1>0, <1>2, <1>5 DEF TransferInv, Outstanding, Streamed
  <2>2. Len(sq) \in Nat /\ Len(scq) \in Nat /\ Len(scq) # 0 /\ Len(came) \in Nat
    BY <1>0, Lengths
  <2>3. Len(sq) = 0 /\ Len(scq') = 0 /\ Len(came) + 1 >= sent + 1
    BY <1>2, <1>4, <2>1, <2>2
  <2> QED  BY <1>0, <1>2, <2>3, EmptySeq DEF Types
<1>6. CASE Head(scq)
  <2>0. sbuf' = sent + 1 /\ sent' = sent + 1 /\ pc' = "stream"
    BY <1>0, <1>6 DEF XNext
  <2>1. CASE Post(Message(sent + 1, MsgSize)) /\ UNCHANGED history
    <3>1. failed' = failed /\ spoiled' = spoiled
      BY <2>1 DEF history
    <3>2. Message(sent + 1, MsgSize) \in SendOp
      BY <1>4, Constants DEF Message, SendOp
    <3>3. sq' \in Seq(Write \cup SendOp)
      BY <1>0, <2>1, <3>2, PostFacts
    <3>4. Types'
      BY <1>0, <1>1, <1>2, <1>4, <2>0, <3>1, <3>3 DEF Types, Busy
    <3>5. sent' > 0 /\ Post(Message(sbuf', MsgSize))
      BY <1>4, <2>0, <2>1
    <3>6. ~spoiled => sq = <<>> /\ scq' = <<>> /\ Len(came) + 1 >= sent'
      BY <1>5, <1>6, <2>0
    <3>7. failed' \/ regs' = {}
      BY <1>0, <1>3, <3>1
    <3>8. app' = "xx"
      BY <1>0
    <3> QED  BY <1>0, <2>0, <3>1, <3>4, <3>5, <3>6, <3>7, <3>8, StreamInv
  <2>2. CASE spoiled' = TRUE /\ UNCHANGED <<sq, failed>>
    <3>1. Types'
      BY <1>0, <1>1, <1>2, <1>4, <2>0, <2>2 DEF Types, Busy
    <3>2. Loops'
      BY <1>0, <1>3, <1>4, <2>0, <2>2 DEF Loops, InBulk
    <3> QED  BY <1>0, <2>2, <3>1, <3>2, SenderInv
  <2> QED  BY <1>6, <2>1, <2>2 DEF XNext
<1>7. CASE ~Head(scq)
  <2>1. /\ pc' = "gone" /\ failed' = TRUE /\ sq' = <<>> /\ spoiled' = spoiled
        /\ sbuf' = sbuf /\ sent' = sent
    BY <1>7 DEF XNext, xVars
  <2>2. Types'
    <3>1. sq' \in Seq(Write \cup SendOp)
      BY <2>1, EmptySeq
    <3> QED  BY <1>0, <1>1, <1>2, <2>1, <3>1 DEF Types
  <2> QED  BY <1>0, <2>1, <2>2, GoneInv
<1> QED  BY <1>6, <1>7

LEMMA XPollFailsInv ==
    ASSUME TransferInv, XPollFails
    PROVE  TransferInv'
<1>0. /\ Types /\ pc' = "gone" /\ failed' = TRUE /\ sq' = <<>> /\ spoiled' = spoiled
      /\ UNCHANGED <<app, call, lens, num, i, ack, rdma_index, regs, sbuf, sent, scq, qp_ok>>
      /\ UNCHANGED recvVars
  BY DEF XPollFails, TransferInv, bulkVars, xVars
<1>1. UNCHANGED <<rq, rcq, slice, rbuf, came, posts>>
  BY <1>0 DEF recvVars
<1>2. sq' \in Seq(Write \cup SendOp)
  BY <1>0, EmptySeq
<1>3. Types'
  BY <1>0, <1>1, <1>2 DEF Types
<1> QED  BY <1>0, <1>3, GoneInv

\* close() leaves no memory registered; all but the last message of xx have arrived.
LEMMA CloseInv ==
    ASSUME TransferInv, Close
    PROVE  TransferInv'
<1>0. /\ Types /\ pc' = "gone" /\ regs' = {} /\ sq' = <<>> /\ failed' = failed /\ spoiled' = spoiled
      /\ UNCHANGED <<app, call, lens, num, i, ack, rdma_index, sbuf, sent, scq, qp_ok>>
      /\ UNCHANGED recvVars
  BY DEF Close, TransferInv, bulkVars, xVars, history
<1>1. UNCHANGED <<rq, rcq, slice, rbuf, came, posts>>
  BY <1>0 DEF recvVars
<1>2. sq' \in Seq(Write \cup SendOp) /\ regs' \subseteq Piece
  BY <1>0, EmptySeq
<1>3. Types'
  BY <1>0, <1>1, <1>2 DEF Types
<1>4. ASSUME ~spoiled, app = "xx" PROVE Len(came) + 1 >= Iter
  <2>1. pc = "stream" /\ sent >= Iter
    BY <1>4 DEF Close, StreamDone
  <2>2. Len(came) + 1 >= sent
    BY <1>4, <2>1 DEF TransferInv, Streamed
  <2> QED  BY <1>0, <2>1, <2>2, Lengths, Constants DEF Types
<1> QED  BY <1>0, <1>1, <1>3, <1>4, GoneInv

-----------------------------------------------------------------------------
(* The adapters.                                                            *)

\* The oldest request is completed.
LEMMA CompletedFacts ==
    ASSUME Types, sq # <<>>, NEW ok \in BOOLEAN, Completed(ok)
    PROVE  /\ sq' \in Seq(Write \cup SendOp) /\ Len(sq') = Len(sq) - 1
           /\ \A k \in 1 .. Len(sq') : sq'[k] = sq[k + 1]
           /\ scq' \in Seq(BOOLEAN) /\ Len(scq') = Len(scq) + 1
           /\ \A k \in 1 .. Len(scq) : scq'[k] = scq[k]
           /\ scq'[Len(scq) + 1] = ok
           /\ Head(sq) = sq[1] /\ sq[1] \in Write \cup SendOp /\ Len(sq) \in Nat \ {0}
<1>1. /\ Head(sq) \in Write \cup SendOp /\ Tail(sq) \in Seq(Write \cup SendOp)
      /\ Len(Tail(sq)) = Len(sq) - 1
      /\ \A k \in 1 .. Len(Tail(sq)) : Tail(sq)[k] = sq[k + 1]
  BY HeadTailProperties DEF Types
<1>2. Head(sq) = sq[1] /\ Len(sq) \in Nat \ {0}
  BY HeadTailProperties, Lengths DEF Types
<1>3. /\ scq' \in Seq(BOOLEAN) /\ Len(scq') = Len(scq) + 1
      /\ \A k \in 1 .. Len(scq) : scq'[k] = scq[k]
      /\ scq'[Len(scq) + 1] = ok
  BY AppendProperties DEF Types, Completed
<1>4. sq' = Tail(sq)
  BY DEF Completed
<1> QED  BY <1>1, <1>2, <1>3, <1>4

\* A completion comes for a request: what is outstanding still adds up, and the
\* requests behind it are as they were.
LEMMA CompletedInv ==
    ASSUME TransferInv, ~spoiled, sq # <<>>, NEW ok \in BOOLEAN, Completed(ok),
           UNCHANGED <<app, pc, call, bulkVars, xVars>>
    PROVE  /\ Outstanding' /\ Requests'
           /\ InBulk \/ pc \in {"reap", "stream"}
           /\ pc = "stream" => scq = <<>>
<1>0. Types /\ Outstanding /\ Requests /\ UNCHANGED <<num, i, ack, rdma_index, sbuf>>
  BY DEF TransferInv, bulkVars, xVars
<1>1. /\ Len(sq') = Len(sq) - 1 /\ \A k \in 1 .. Len(sq') : sq'[k] = sq[k + 1]
      /\ Len(scq') = Len(scq) + 1 /\ Len(sq) \in Nat \ {0}
  BY <1>0, CompletedFacts
<1>2. Len(scq) \in Nat /\ (Len(scq) = 0 <=> scq = <<>>) /\ i \in Nat /\ num \in Nat /\ ack \in Nat
  BY <1>0, Lengths DEF Types
<1>3. pc \in {"write", "ack", "reap", "stream"}
  BY <1>0 DEF Outstanding, Types, Busy
<1>4. Outstanding'
  <2>1. Len(sq') + Len(scq') = Len(sq) + Len(scq)
    BY <1>1, <1>2
  <2>2. ack' + Len(sq') + Len(scq') = ack + Len(sq) + Len(scq)
    BY <1>0, <1>1, <1>2
  <2> QED  BY <1>0, <1>3, <2>1, <2>2 DEF Outstanding
<1>5. Requests'
  <2>1. Gone' = Gone + 1 /\ Gone \in Int
    BY <1>0, <1>1, <1>2 DEF Gone
  <2>2. ASSUME NEW k \in 1 .. Len(sq')
        PROVE  k + 1 \in 1 .. Len(sq) /\ sq'[k] = sq[k + 1] /\ Gone' + k = Gone + (k + 1)
    BY <1>1, <2>1
  <2>3. ASSUME InBulk, NEW k \in 1 .. Len(sq')
        PROVE  /\ sq'[k].op = "write" /\ sq'[k].piece = <<call, Gone' + k>>
               /\ sq'[k].dest = SliceOf(rdma_index, i, Gone' + k)
    BY <1>0, <2>2, <2>3 DEF Requests
  <2>4. ASSUME pc \in {"reap", "stream"}, NEW k \in 1 .. Len(sq')
        PROVE  sq'[k].op = "send" /\ sq'[k].msg = sbuf
    BY <1>0, <2>2, <2>4 DEF Requests
  <2>5. InBulk' = InBulk
    BY DEF InBulk
  <2> QED  BY <1>0, <2>3, <2>4, <2>5 DEF Requests
<1>6. pc = "stream" => scq = <<>>
  <2>1. pc = "stream" => Len(sq) + Len(scq) = 1
    BY <1>0 DEF Outstanding
  <2> QED  BY <1>1, <1>2, <2>1
<1> QED  BY <1>3, <1>4, <1>5, <1>6 DEF InBulk

\* A request is flushed: nobody counts its completion as a success.
LEMMA FlushInv ==
    ASSUME TransferInv, Flush
    PROVE  TransferInv'
<1>0. /\ Types /\ Loops /\ sq # <<>> /\ Completed(FALSE) /\ spoiled' = spoiled /\ failed' = failed
      /\ UNCHANGED <<app, pc, call, lens, num, i, ack, rdma_index, regs, sbuf, sent, qp_ok>>
      /\ UNCHANGED <<app, pc, call, bulkVars, xVars>> /\ UNCHANGED recvVars
  BY DEF Flush, TransferInv, bulkVars, xVars, history
<1>1. UNCHANGED <<rq, rcq, slice, rbuf, came, posts>>
  BY <1>0 DEF recvVars
<1>2. /\ sq' \in Seq(Write \cup SendOp) /\ scq' \in Seq(BOOLEAN)
      /\ Len(scq') = Len(scq) + 1 /\ scq'[Len(scq) + 1] = FALSE
  BY <1>0, CompletedFacts
<1>3. Types'
  BY <1>0, <1>1, <1>2 DEF Types
<1>4. Loops'
  <2>1. AllPieces' = AllPieces
    BY <1>0 DEF AllPieces
  <2> QED  BY <1>0, <2>1 DEF Loops, InBulk
<1>5. ASSUME ~spoiled' PROVE Outstanding' /\ Requests' /\ Landed' /\ Streamed'
  <2>1. /\ Outstanding' /\ Requests'
        /\ InBulk \/ pc \in {"reap", "stream"}
        /\ pc = "stream" => scq = <<>>
    BY <1>0, <1>5, CompletedInv
  <2>2. Len(scq) + 1 \in 1 .. Len(scq') /\ (scq = <<>> => Len(scq) + 1 = 1)
    BY <1>0, <1>2, Lengths
  <2>3. Landed'
    BY <1>2, <2>2 DEF Landed
  <2>4. Streamed'
    <3>1. pc = "stream" => Len(came) + 1 >= sent /\ scq'[1] = FALSE
      BY <1>0, <1>2, <1>5, <2>1, <2>2 DEF TransferInv, Streamed
    <3> QED  BY <1>0, <1>1, <2>1, <3>1 DEF Streamed, InBulk
  <2> QED  BY <2>1, <2>3, <2>4
<1> QED  BY <1>0, <1>3, <1>4, <1>5, SenderInv

LEMMA QpErrorInv ==
    ASSUME TransferInv, QpError
    PROVE  TransferInv'
<1>0. /\ Types /\ Loops /\ qp_ok' = FALSE /\ spoiled' = spoiled /\ failed' = failed
      /\ UNCHANGED <<app, pc, call, lens, num, i, ack, rdma_index, regs, sbuf, sent, sq, scq>>
      /\ UNCHANGED recvVars
  BY DEF QpError, TransferInv, bulkVars, xVars, history
<1>1. UNCHANGED <<rq, rcq, slice, rbuf, came, posts>>
  BY <1>0 DEF recvVars
<1>2. Types'
  BY <1>0, <1>1 DEF Types
<1>3. Loops'
  <2>1. AllPieces' = AllPieces
    BY <1>0 DEF AllPieces
  <2> QED  BY <1>0, <2>1 DEF Loops, InBulk
<1>4. ASSUME ~spoiled' PROVE Outstanding' /\ Requests' /\ Landed' /\ Streamed'
  <2>0. Outstanding /\ Requests /\ Landed /\ Streamed
    BY <1>0, <1>4 DEF TransferInv
  <2>1. Gone' = Gone
    BY <1>0 DEF Gone
  <2>2. Outstanding' /\ Streamed'
    BY <1>0, <1>1, <2>0 DEF Outstanding, Streamed
  <2>3. Requests' /\ Landed'
    BY <1>0, <1>1, <2>0, <2>1 DEF Requests, Landed, InBulk
  <2> QED  BY <2>2, <2>3
<1> QED  BY <1>0, <1>2, <1>3, <1>4, SenderInv

\* A write lands in its slice.
LEMMA WriteLands ==
    ASSUME TransferInv, Transmit, Head(sq).op = "write"
    PROVE  TransferInv'
<1> DEFINE r == Head(sq)
<1>0. /\ Types /\ Loops /\ sq # <<>> /\ Completed(TRUE) /\ spoiled' = spoiled /\ failed' = failed
      /\ UNCHANGED <<app, pc, call, lens, num, i, ack, rdma_index, regs, sbuf, sent, qp_ok>>
      /\ UNCHANGED <<app, pc, call, bulkVars, xVars>>
      /\ UNCHANGED <<rq, rcq, rbuf, came, posts>>
      /\ slice' = [slice EXCEPT ![r.dest] = r.piece]
  BY DEF Transmit, TransferInv, bulkVars, xVars, history
<1>1. /\ sq' \in Seq(Write \cup SendOp) /\ Len(sq') = Len(sq) - 1
      /\ scq' \in Seq(BOOLEAN) /\ Len(scq') = Len(scq) + 1
      /\ \A k \in 1 .. Len(scq) : scq'[k] = scq[k]
      /\ r = sq[1] /\ r \in Write \cup SendOp /\ Len(sq) \in Nat \ {0}
  BY <1>0, CompletedFacts
<1>2. r.dest \in 0 .. (Slices - 1) /\ r.piece \in Piece
  BY <1>1 DEF Write, SendOp
<1> HIDE DEF r
<1>3. slice' \in [0 .. (Slices - 1) -> Piece \cup {NoPiece}]
  BY <1>0, <1>2 DEF Types
<1>4. Types'
  BY <1>0, <1>1, <1>3 DEF Types
<1>5. Loops'
  <2>1. AllPieces' = AllPieces
    BY <1>0 DEF AllPieces
  <2> QED  BY <1>0, <2>1 DEF Loops, InBulk
<1>6. ASSUME ~spoiled' PROVE Outstanding' /\ Requests' /\ Landed' /\ Streamed'
  <2>0. Requests /\ Landed /\ ~spoiled
    BY <1>0, <1>6 DEF TransferInv
  <2>1. /\ Outstanding' /\ Requests'
        /\ InBulk \/ pc \in {"reap", "stream"}
    BY <1>0, <2>0, CompletedInv
  <2>2. 1 \in 1 .. Len(sq)
    BY <1>1
  <2>3. InBulk
    <3>1. r.op = "write"
      BY DEF r
    <3> QED  BY <1>1, <2>0, <2>1, <2>2, <3>1 DEF Requests
  <2>4. r.piece = <<call, Gone + 1>> /\ r.dest = SliceOf(rdma_index, i, Gone + 1)
    BY <1>1, <2>0, <2>2, <2>3 DEF Requests
  <2>5. Gone' = Gone + 1 /\ Gone \in Int /\ i \in Int /\ rdma_index \in 0 .. (Slices - 1)
    <3>1. i \in Int /\ rdma_index \in 0 .. (Slices - 1)
      BY <1>0 DEF Types
    <3> QED  BY <1>0, <1>1, <3>1 DEF Gone
  <2>6. ASSUME \A k \in 1 .. Len(scq') : scq'[k], NEW k \in 1 .. Gone', k + Slices > Gone'
        PROVE  slice'[SliceOf(rdma_index, i, k)] = <<call, k>>
    <3>1. CASE k = Gone + 1
      BY <1>0, <1>2, <2>4, <3>1 DEF Types
    <3>2. CASE k # Gone + 1
      <4>1. k \in 1 .. Gone /\ k + Slices > Gone /\ k < Gone + 1 /\ Gone + 1 < k + Slices
        BY <2>5, <2>6, <3>2, Constants
      <4>2. \A j \in 1 .. Len(scq) : scq[j]
        <5>1. \A j \in 1 .. Len(scq) : j \in 1 .. Len(scq')
          BY <1>0, <1>1, Lengths
        <5> QED  BY <1>1, <2>6, <5>1
      <4>3. slice[SliceOf(rdma_index, i, k)] = <<call, k>>
        BY <2>0, <2>3, <4>1, <4>2 DEF Landed
      <4>4. Gone + 1 \in Int /\ k \in Int
        BY <2>5
      <4>5. SliceOf(rdma_index, i, k) # r.dest
        BY <2>4, <2>5, <4>1, <4>4, SlicesDistinct
      <4>6. SliceOf(rdma_index, i, k) \in 0 .. (Slices - 1)
        BY <2>5, <4>4, SliceTyped
      <4> QED  BY <1>0, <4>3, <4>5, <4>6 DEF Types
    <3> QED  BY <3>1, <3>2
  <2>7. Landed'
    BY <1>0, <2>6 DEF Landed
  <2>8. Streamed'
    BY <1>0, <2>3 DEF Streamed, InBulk
  <2> QED  BY <2>1, <2>7, <2>8
<1>7. Receives' /\ StreamLands'
  BY <1>0 DEF TransferInv, Receives, StreamLands
<1> QED  BY <1>4, <1>5, <1>6, <1>7 DEF TransferInv

\* A message lands in the oldest receive.
LEMMA SendLands ==
    ASSUME TransferInv, Transmit, Head(sq).op = "send"
    PROVE  TransferInv'
<1> DEFINE r == Head(sq)
           m == [msg |-> r.msg, size |-> r.size]
<1>0. /\ Types /\ Loops /\ sq # <<>> /\ Completed(TRUE) /\ spoiled' = spoiled /\ failed' = failed
      /\ UNCHANGED <<app, pc, call, lens, num, i, ack, rdma_index, regs, sbuf, sent, qp_ok>>
      /\ UNCHANGED <<app, pc, call, bulkVars, xVars>>
      /\ UNCHANGED <<slice, posts>>
      /\ rq # <<>> /\ rbuf' = [rbuf EXCEPT ![Head(rq)] = sbuf] /\ rq' = Tail(rq)
      /\ rcq' = Append(rcq, r.size) /\ came' = Append(came, m)
  BY DEF Transmit, TransferInv, bulkVars, xVars, history
<1>1. /\ sq' \in Seq(Write \cup SendOp)
      /\ scq' \in Seq(BOOLEAN) /\ Len(scq') = Len(scq) + 1
      /\ r = sq[1] /\ r \in Write \cup SendOp /\ Len(sq) \in Nat \ {0}
  BY <1>0, CompletedFacts
<1>2. r.msg \in Nat /\ r.size \in 1 .. Gap /\ m \in [msg : Nat, size : 1 .. Gap] /\ m.msg = r.msg
  BY <1>1 DEF Write, SendOp
<1>3. r.op = "send"
  OBVIOUS
<1> HIDE DEF r, m
<1>4. /\ came' \in Seq([msg : Nat, size : 1 .. Gap]) /\ Len(came') = Len(came) + 1
      /\ \A k \in 1 .. Len(came) : came'[k] = came[k]
      /\ came'[Len(came) + 1] = m
  BY <1>0, <1>2, AppendProperties DEF Types
<1>5. rcq' \in Seq(1 .. Gap)
  BY <1>0, <1>2, AppendProperties DEF Types
<1>6. /\ rq' \in Seq(0 .. (RecvNums - 1)) /\ Len(rq') = Len(rq) - 1
      /\ \A k \in 1 .. Len(rq') : rq'[k] = rq[k + 1]
      /\ Head(rq) = rq[1] /\ Head(rq) \in 0 .. (RecvNums - 1)
  <2>1. rq \in Seq(0 .. (RecvNums - 1)) /\ rq # <<>> /\ rq' = Tail(rq)
    BY <1>0 DEF Types
  <2>2. /\ Head(rq) \in 0 .. (RecvNums - 1) /\ Tail(rq) \in Seq(0 .. (RecvNums - 1))
        /\ Len(Tail(rq)) = Len(rq) - 1
        /\ \A k \in 1 .. Len(Tail(rq)) : Tail(rq)[k] = rq[k + 1]
    BY <2>1, HeadTailProperties
  <2>3. Head(rq) = rq[1]
    BY <2>1
  <2> QED  BY <2>1, <2>2, <2>3
<1>7. Types'
  <2>1. rbuf' \in [0 .. (RecvNums - 1) -> Nat]
    BY <1>0, <1>6 DEF Types
  <2> QED  BY <1>0, <1>1, <1>4, <1>5, <1>6, <2>1 DEF Types
<1>8. Loops'
  <2>1. AllPieces' = AllPieces
    BY <1>0 DEF AllPieces
  <2> QED  BY <1>0, <2>1 DEF Loops, InBulk
<1>9. Len(came) \in Nat /\ Len(rq) \in Nat /\ RecvPosts \in Nat /\ RecvNums \in Nat \ {0}
  BY <1>0, Lengths, Constants
<1>10. ASSUME ~spoiled PROVE pc \in {"reap", "stream"} /\ r.msg = sbuf
  <2>1. InBulk \/ pc \in {"reap", "stream"}
    BY <1>0, <1>10, CompletedInv
  <2>2. Requests /\ 1 \in 1 .. Len(sq)
    BY <1>1, <1>10 DEF TransferInv
  <2> QED  BY <1>1, <1>3, <2>1, <2>2 DEF Requests
<1>11. ASSUME ~spoiled' PROVE Outstanding' /\ Requests' /\ Landed' /\ Streamed'
  <2>1. Outstanding' /\ Requests' /\ (pc = "stream" => scq = <<>>)
    BY <1>0, <1>11, CompletedInv
  <2>2. pc' \in {"reap", "stream"}
    BY <1>0, <1>10, <1>11
  <2>3. Landed'
    BY <2>2 DEF Landed, InBulk
  <2>4. Streamed'
    <3>1. pc = "stream" => Len(came) + 1 >= sent
      BY <1>0, <1>11 DEF TransferInv, Streamed
    <3>2. pc = "stream" => Len(came') + 1 >= sent' /\ Len(came') >= sent'
      BY <1>0, <1>4, <1>9, <3>1 DEF Types
    <3> QED  BY <1>0, <2>2, <3>2 DEF Streamed
  <2> QED  BY <2>1, <2>3, <2>4
<1>12. ASSUME Len(came') < RecvPosts
       PROVE  /\ Len(came) < RecvPosts /\ Len(rq) >= RecvPosts - 1 - Len(came)
              /\ \A k \in 1 .. (RecvPosts - 1 - Len(came)) : rq[k] = (Len(came) + k) % RecvNums
  <2>1. Len(came) < RecvPosts
    BY <1>4, <1>9, <1>12
  <2> QED  BY <2>1 DEF TransferInv, Receives
<1>13. Receives'
  <2> SUFFICES ASSUME Len(came') < RecvPosts
               PROVE  /\ Len(rq') >= RecvPosts - 1 - Len(came')
                      /\ \A k \in 1 .. (RecvPosts - 1 - Len(came')) :
                            rq'[k] = (Len(came') + k) % RecvNums
    BY DEF Receives
  <2>1. Len(rq') >= RecvPosts - 1 - Len(came')
    BY <1>4, <1>6, <1>9, <1>12
  <2>2. ASSUME NEW k \in 1 .. (RecvPosts - 1 - Len(came'))
        PROVE  rq'[k] = (Len(came') + k) % RecvNums
    <3>1. /\ k + 1 \in 1 .. (RecvPosts - 1 - Len(came)) /\ k \in 1 .. Len(rq')
          /\ Len(came) + (k + 1) = Len(came') + k
      BY <1>4, <1>6, <1>9, <1>12
    <3> QED  BY <1>6, <1>12, <3>1
  <2> QED  BY <2>1, <2>2
<1>14. StreamLands'
  <2> SUFFICES ASSUME ~spoiled', Len(came') < RecvPosts,
                      NEW k \in 1 .. Len(came'), k + RecvNums > Len(came')
               PROVE  rbuf'[k % RecvNums] = came'[k].msg
    BY DEF StreamLands
  <2>1. Head(rq) = (Len(came) + 1) % RecvNums
    <3>1. 1 \in 1 .. (RecvPosts - 1 - Len(came))
      BY <1>4, <1>9
    <3> QED  BY <1>6, <1>12, <3>1
  <2>2. ~spoiled /\ r.msg = sbuf
    BY <1>0, <1>10
  <2>3. CASE k = Len(came) + 1
    BY <1>0, <1>2, <1>4, <1>6, <2>1, <2>2, <2>3 DEF Types
  <2>4. CASE k # Len(came) + 1
    <3>1. /\ k \in 1 .. Len(came) /\ k + RecvNums > Len(came) /\ Len(came) < RecvPosts
          /\ k < Len(came) + 1 /\ Len(came) + 1 < k + RecvNums
      BY <1>4, <1>9, <2>4
    <3>2. rbuf[k % RecvNums] = came[k].msg
      BY <2>2, <3>1 DEF TransferInv, StreamLands
    <3>3. k \in Int /\ Len(came) + 1 \in Int
      BY <1>9
    <3>4. k % RecvNums # Head(rq)
      BY <1>9, <2>1, <3>1, <3>3, ModDistinct
    <3>5. k % RecvNums \in 0 .. (RecvNums - 1)
      BY <1>9, <3>3
    <3> QED  BY <1>0, <1>4, <3>1, <3>2, <3>4, <3>5 DEF Types
  <2> QED  BY <2>3, <2>4
<1> QED  BY <1>7, <1>8, <1>11, <1>13, <1>14 DEF TransferInv

LEMMA TransmitInv ==
    ASSUME TransferInv, Transmit
    PROVE  TransferInv'
<1>1. Head(sq).op = "write" \/ Head(sq).op = "send"
  BY DEF Transmit
<1> QED  BY <1>1, WriteLands, SendLands

-----------------------------------------------------------------------------
(* The receiver.                                                            *)

\* A step of the receiver takes nothing that the sender or the adapters go by.
LEMMA ReceiverInv ==
    ASSUME TransferInv,
           UNCHANGED <<app, pc, call, bulkVars, regs, xVars, queues, slice, rbuf, came, history>>,
           rcq' \in Seq(1 .. Gap), rq' \in Seq(0 .. (RecvNums - 1)), posts' \in 0 .. MaxPosts, Receives'
    PROVE  TransferInv'
<1>0. UNCHANGED <<app, pc, call, lens, num, i, ack, rdma_index, regs, sbuf, sent, sq, scq, qp_ok,
                  slice, rbuf, came, failed, spoiled>>
  BY DEF bulkVars, xVars, queues, history
<1>1. Types'
  BY <1>0 DEF TransferInv, Types
<1>2. Loops'
  <2>1. AllPieces' = AllPieces
    BY <1>0 DEF AllPieces
  <2> QED  BY <1>0, <2>1 DEF TransferInv, Loops, InBulk
<1>3. ASSUME ~spoiled' PROVE Outstanding' /\ Requests' /\ Landed' /\ Streamed'
  <2>0. Outstanding /\ Requests /\ Landed /\ Streamed
    BY <1>0, <1>3 DEF TransferInv
  <2>1. Gone' = Gone
    BY <1>0 DEF Gone
  <2>2. Outstanding' /\ Streamed'
    BY <1>0, <2>0 DEF Outstanding, Streamed
  <2>3. Requests' /\ Landed'
    BY <1>0, <2>0, <2>1 DEF Requests, Landed, InBulk
  <2> QED  BY <2>2, <2>3
<1>4. StreamLands'
  BY <1>0 DEF TransferInv, StreamLands
<1> QED  BY <1>1, <1>2, <1>3, <1>4 DEF TransferInv

\* What is left of a sequence is one of the same elements.
LEMMA RestTyped ==
    ASSUME NEW S, NEW s \in Seq(S), NEW m \in Nat \ {0}
    PROVE  SubSeq(s, m, Len(s)) \in Seq(S)
<1>1. \A k \in m .. Len(s) : s[k] \in S
  BY ElementOfSeq, LenProperties
<1> QED  BY <1>1, LenProperties, SubSeqProperties

LEMMA QuerySrInv ==
    ASSUME TransferInv, QuerySr
    PROVE  TransferInv'
<1>1. /\ UNCHANGED <<app, pc, call, bulkVars, regs, xVars, queues, slice, rbuf, came, history>>
      /\ UNCHANGED <<rq, came, posts>>
      /\ rcq' = SubSeq(rcq, Least(MaxCqe, Len(rcq)) + 1, Len(rcq))
  BY DEF QuerySr
<1>2. rq \in Seq(0 .. (RecvNums - 1)) /\ posts \in 0 .. MaxPosts /\ rcq \in Seq(1 .. Gap)
  BY DEF TransferInv, Types
<1>3. Least(MaxCqe, Len(rcq)) + 1 \in Nat \ {0}
  BY <1>2, Constants, LenProperties DEF Least
<1>4. rcq' \in Seq(1 .. Gap)
  BY <1>1, <1>2, <1>3, RestTyped
<1>5. Receives'
  BY <1>1 DEF TransferInv, Receives
<1> QED  BY <1>1, <1>2, <1>4, <1>5, ReceiverInv

LEMMA PostRecvInv ==
    ASSUME TransferInv, NEW nums \in Nat \ {0}, PostRecv(nums)
    PROVE  TransferInv'
<1> DEFINE all == RecvQueue(nums)
<1>1. /\ UNCHANGED <<app, pc, call, bulkVars, regs, xVars, queues, slice, rbuf, came, history>>
      /\ UNCHANGED <<rcq, came>> /\ posts < MaxPosts /\ posts' = posts + 1
  BY DEF PostRecv
<1>2. /\ rq \in Seq(0 .. (RecvNums - 1)) /\ posts' \in 0 .. MaxPosts /\ rcq' \in Seq(1 .. Gap)
      /\ Len(rq) \in Nat /\ Len(came) \in Nat
  BY <1>1, Constants, Lengths DEF TransferInv, Types
<1>3. all \in Seq(0 .. (RecvNums - 1)) /\ Len(all) \in Nat
  <2>1. Least(RecvPosts, nums) \in Nat
    BY Constants DEF Least
  <2>2. \A k \in 1 .. Least(RecvPosts, nums) : (k - 1) % RecvNums \in 0 .. (RecvNums - 1)
    BY <2>1, Constants
  <2> DEFINE n == Least(RecvPosts, nums)
  <2>3. all = [k \in 1 .. n |-> (k - 1) % RecvNums]
    BY DEF RecvQueue
  <2> HIDE DEF n, all
  <2>4. n \in Nat /\ \A k \in 1 .. n : (k - 1) % RecvNums \in 0 .. (RecvNums - 1)
    BY <2>1, <2>2 DEF n
  <2>5. all \in Seq(0 .. (RecvNums - 1))
    BY <2>3, <2>4
  <2> QED  BY <2>5, LenProperties
<1>4. PICK k \in 0 .. Len(all) : rq' = rq \o SubSeq(all, 1, k)
  BY DEF PostRecv
<1> HIDE DEF all
<1>5. SubSeq(all, 1, k) \in Seq(0 .. (RecvNums - 1))
  <2>1. \A j \in 1 .. k : all[j] \in 0 .. (RecvNums - 1)
    <3>1. \A j \in 1 .. k : j \in 1 .. Len(all)
      BY <1>3
    <3> QED  BY <1>3, <3>1, ElementOfSeq
  <2>2. 1 \in Int /\ k \in Int
    BY <1>3
  <2> QED  BY <2>1, <2>2, SubSeqProperties
<1> DEFINE more == SubSeq(all, 1, k)
<1> HIDE DEF more
<1>6. /\ rq' \in Seq(0 .. (RecvNums - 1)) /\ Len(rq') = Len(rq) + Len(more) /\ Len(more) \in Nat
      /\ \A j \in 1 .. Len(rq) : rq'[j] = rq[j]
  <2>1. more \in Seq(0 .. (RecvNums - 1)) /\ rq' = rq \o more
    BY <1>4, <1>5 DEF more
  <2>2. Len(more) \in Nat
    BY <2>1, LenProperties
  <2>3. /\ rq' \in Seq(0 .. (RecvNums - 1)) /\ Len(rq') = Len(rq) + Len(more)
        /\ \A j \in 1 .. Len(rq) + Len(more) :
              rq'[j] = IF j <= Len(rq) THEN rq[j] ELSE more[j - Len(rq)]
    BY <1>2, <2>1, ConcatProperties
  <2>4. \A j \in 1 .. Len(rq) : j \in 1 .. Len(rq) + Len(more) /\ j <= Len(rq)
    BY <1>2, <2>2
  <2> QED  BY <2>2, <2>3, <2>4
<1>7. Receives'
  <2> SUFFICES ASSUME Len(came) < RecvPosts
               PROVE  /\ Len(rq') >= RecvPosts - 1 - Len(came)
                      /\ \A j \in 1 .. (RecvPosts - 1 - Len(came)) :
                            rq'[j] = (Len(came) + j) % RecvNums
    BY <1>1 DEF Receives
  <2>1. /\ Len(rq) >= RecvPosts - 1 - Len(came)
        /\ \A j \in 1 .. (RecvPosts - 1 - Len(came)) : rq[j] = (Len(came) + j) % RecvNums
    BY DEF TransferInv, Receives
  <2>2. Len(rq') >= RecvPosts - 1 - Len(came)
    BY <1>2, <1>6, <2>1, Constants
  <2>3. \A j \in 1 .. (RecvPosts - 1 - Len(came)) : j \in 1 .. Len(rq)
    BY <1>2, <2>1, Constants
  <2> QED  BY <1>6, <2>1, <2>2, <2>3
<1> QED  BY <1>1, <1>2, <1>6, <1>7, ReceiverInv

LEMMA ReadInv ==
    ASSUME TransferInv, Read
    PROVE  TransferInv'
<1>1. /\ UNCHANGED <<app, pc, call, bulkVars, regs, xVars, queues, slice, rbuf, came, history>>
      /\ UNCHANGED <<rq, came, posts>>
      /\ rcq' = SubSeq(rcq, Len(Polled) + 1, Len(rcq))
  BY DEF Read
<1>2. rq \in Seq(0 .. (RecvNums - 1)) /\ posts \in 0 .. MaxPosts /\ rcq \in Seq(1 .. Gap)
  BY DEF TransferInv, Types
<1>3. Len(Polled) + 1 \in Nat \ {0}
  <2>1. Polled = <<>>
    BY DEF Polled, QueryFlag
  <2> QED  BY <2>1, EmptySeq
<1>4. rcq' \in Seq(1 .. Gap)
  BY <1>1, <1>2, <1>3, RestTyped
<1>5. Receives'
  BY <1>1 DEF TransferInv, Receives
<1> QED  BY <1>1, <1>2, <1>4, <1>5, ReceiverInv

-----------------------------------------------------------------------------
(* What read() makes of the completions.                                    *)

\* A byte: the number of its message and its place in it.
MsgByte == Nat \X Nat

\* The first len bytes of the messages in the buffers from `index` on, in turn.
InTurn(index, len) ==
    [x \in 1 .. len |-> <<rbuf[(index + ((x - 1) \div Gap)) % RecvNums], (x - 1) % Gap>>]

LEMMA DivMod ==
    ASSUME NEW n \in Nat \ {0}, NEW x \in Nat
    PROVE  x \div n \in Nat /\ x % n \in 0 .. (n - 1) /\ x = (n * (x \div n)) + (x % n)
OBVIOUS

LEMMA DivBelow ==
    ASSUME NEW n \in Nat \ {0}, NEW x \in Nat, NEW c \in Nat, x < n * c
    PROVE  x \div n < c
<1> DEFINE d == x \div n
           r == x % n
<1>1. d \in Nat /\ r \in 0 .. (n - 1) /\ x = (n * d) + r
  BY DivMod
<1> HIDE DEF d, r
<1>2. n * d \in Nat /\ n * c \in Nat
  BY <1>1
<1>3. CASE d < c
  BY <1>3 DEF d
<1>4. CASE d = c
  BY <1>1, <1>2, <1>4
<1>5. CASE c < d
  <2>1. (n * c) + n <= n * d
    BY <1>1, <1>5, StepsApart
  <2> QED  BY <1>1, <1>2, <2>1
<1> QED  BY <1>1, <1>3, <1>4, <1>5

\* A byte of a receive buffer.
LEMMA MemoryAt ==
    ASSUME NEW b \in 0 .. (RecvNums - 1), NEW r \in 0 .. (Gap - 1), NEW a \in Int, a = (Gap * b) + r
    PROVE  Memory(a) = <<rbuf[b], r>>
<1>0. Gap \in Nat \ {0} /\ RecvNums \in Nat \ {0}
  BY Constants
<1>1. a \div Gap = b /\ a % Gap = r
  BY <1>0, DivModUnique
<1>2. (Gap * b) + Gap <= Gap * RecvNums
  BY <1>0, StepsApart
<1>3. Gap * RecvNums = RecvNums * Gap /\ Gap * RecvNums \in Nat /\ Gap * b \in Nat
  BY <1>0
<1>4. a < RecvNums * Gap
  BY <1>0, <1>2, <1>3
<1> QED  BY <1>1, <1>4 DEF Memory

\* A byte y of a copy from buffer `index` on, before the buffers wrap around.
LEMMA CopyAt ==
    ASSUME NEW index \in 0 .. (RecvNums - 1), NEW y \in Nat, index + (y \div Gap) < RecvNums
    PROVE  /\ Memory((index * Gap) + y) = <<rbuf[index + (y \div Gap)], y % Gap>>
           /\ (index + (y \div Gap)) % RecvNums = index + (y \div Gap)
<1>0. Gap \in Nat \ {0} /\ RecvNums \in Nat \ {0}
  BY Constants
<1> DEFINE d == y \div Gap
           r == y % Gap
<1>1. d \in Nat /\ r \in 0 .. (Gap - 1) /\ y = (Gap * d) + r
  BY <1>0, DivMod
<1> HIDE DEF d, r
<1>2. (index * Gap) + y = (Gap * (index + d)) + r
  <2>1. Gap * (index + d) = (index * Gap) + (Gap * d) /\ index * Gap \in Nat /\ Gap * d \in Nat
    BY <1>0, <1>1
  <2> QED  BY <1>0, <1>1, <2>1
<1>3. index + d \in 0 .. (RecvNums - 1) /\ (index * Gap) + y \in Int
  BY <1>0, <1>1 DEF d
<1>4. Memory((index * Gap) + y) = <<rbuf[index + d], r>>
  BY <1>1, <1>2, <1>3, MemoryAt
<1>5. (index + d) % RecvNums = index + d
  BY <1>0, <1>3, ModSmall
<1> QED  BY <1>4, <1>5 DEF d, r

LEMMA CopySeq ==
    ASSUME Types, NEW a \in Nat, NEW m \in Nat
    PROVE  Copy(a, m) \in Seq(MsgByte) /\ Len(Copy(a, m)) = m
<1>0. Gap \in Nat \ {0} /\ RecvNums \in Nat \ {0}
  BY Constants
<1>1. ASSUME NEW x \in Nat PROVE Memory(x) \in MsgByte
  <2>1. CASE x < RecvNums * Gap
    <3>1. x < Gap * RecvNums
      BY <1>0, <2>1
    <3>2. x \div Gap \in Nat /\ x \div Gap < RecvNums /\ x % Gap \in Nat
      BY <1>0, <3>1, DivBelow, DivMod
    <3>3. rbuf[x \div Gap] \in Nat
      <4>1. x \div Gap \in 0 .. (RecvNums - 1)
        BY <1>0, <3>2
      <4> QED  BY <4>1 DEF Types
    <3> QED  BY <2>1, <3>2, <3>3 DEF Memory, MsgByte
  <2>2. CASE ~(x < RecvNums * Gap)
    BY <2>2 DEF Memory, MsgByte
  <2> QED  BY <2>1, <2>2
<1>2. \A k \in 1 .. m : a + k - 1 \in Nat
  OBVIOUS
<1> DEFINE f == Copy(a, m)
<1>3. f \in [1 .. m -> MsgByte]
  BY <1>1, <1>2 DEF Copy
<1> HIDE DEF f
<1>4. f \in Seq(MsgByte)
  BY <1>3, SeqDef
<1>5. Len(f) = m
  BY <1>3, <1>4, LenProperties
<1> QED  BY <1>4, <1>5 DEF f

\* The two copies of read(), or the one, are the messages in turn.
LEMMA CopyOutInTurn ==
    ASSUME Types, NEW index \in 0 .. (RecvNums - 1), NEW full \in Nat, NEW m \in 0 .. (Gap - 1),
           full <= RecvNums, m > 0 => full < RecvNums
    PROVE  CopyOut(index, full, m) = InTurn(index, (full * Gap) + m)
<1>0. Gap \in Nat \ {0} /\ RecvNums \in Nat \ {0} /\ index \in Nat /\ m \in Nat
  BY Constants
<1> DEFINE len == (full * Gap) + m
           tlen == (RecvNums - index) * Gap
<1>1. len \in Nat /\ tlen \in Nat
  <2>1. RecvNums - index \in Nat
    BY <1>0
  <2> QED  BY <1>0, <2>1
<1>2. CopyOut(index, full, m) = IF index + full >= RecvNums
                                THEN Copy(index * Gap, tlen) \o Copy(0, len - tlen)
                                ELSE Copy(index * Gap, len)
  BY DEF CopyOut, Wraps
<1>3. ASSUME NEW y \in Nat, y < len PROVE y \div Gap <= full /\ (m = 0 => y \div Gap < full)
  <2>1. len <= Gap * (full + 1) /\ (m = 0 => len = Gap * full)
    BY <1>0
  <2>2. Gap * (full + 1) \in Nat
    BY <1>0
  <2> HIDE DEF len
  <2>3. y < Gap * (full + 1) /\ (m = 0 => y < Gap * full)
    BY <1>1, <1>3, <2>1, <2>2
  <2>4. y \div Gap < full + 1 /\ (m = 0 => y \div Gap < full)
    BY <1>0, <2>3, DivBelow
  <2>5. y \div Gap \in Nat
    BY <1>0, DivMod
  <2> QED  BY <2>4, <2>5
<1>4. CASE ~(index + full >= RecvNums)
  <2>1. ASSUME NEW x \in 1 .. len
        PROVE  Memory((index * Gap) + x - 1) =
                  <<rbuf[(index + ((x - 1) \div Gap)) % RecvNums], (x - 1) % Gap>>
    <3>1. PICK y \in Nat : y = x - 1 /\ y < len
      <4> HIDE DEF len
      <4> QED  BY <1>1
    <3>2. y \div Gap <= full /\ y \div Gap \in Nat
      BY <1>0, <1>3, <3>1, DivMod
    <3>3. index + (y \div Gap) < RecvNums
      BY <1>0, <1>4, <3>2
    <3>4. Memory((index * Gap) + y) = <<rbuf[(index + (y \div Gap)) % RecvNums], y % Gap>>
      BY <3>1, <3>3, CopyAt
    <3>5. (index * Gap) + x - 1 = (index * Gap) + y
      <4>1. index * Gap \in Nat
        BY <1>0
      <4> HIDE DEF len
      <4> QED  BY <1>1, <3>1, <4>1
    <3> QED  BY <3>1, <3>4, <3>5
  <2> HIDE DEF len, tlen
  <2>2. Copy(index * Gap, len) = InTurn(index, len)
    BY <2>1 DEF Copy, InTurn
  <2> QED  BY <1>2, <1>4, <2>2 DEF len
<1>5. CASE index + full >= RecvNums
  <2>1. tlen <= full * Gap /\ len - tlen \in Nat
    <3>1. PICK d \in Nat : full = (RecvNums - index) + d
      <4>1. full - (RecvNums - index) \in Nat /\ full = (RecvNums - index) + (full - (RecvNums - index))
        BY <1>0, <1>5
      <4> QED  BY <4>1
    <3>2. PICK t \in Nat : t = RecvNums - index
      BY <1>0
    <3>3. (t + d) * Gap = (t * Gap) + (d * Gap) /\ d * Gap \in Nat /\ t * Gap \in Nat
      BY <1>0
    <3>4. full * Gap = (t * Gap) + (d * Gap) /\ tlen = t * Gap
      BY <3>1, <3>2, <3>3
    <3>5. len - tlen = (d * Gap) + m
      BY <1>0, <3>3, <3>4
    <3> QED  BY <1>0, <3>3, <3>4, <3>5
  <2>2. index * Gap \in Nat /\ 0 \in Nat /\ (RecvNums - index) \in Nat
    BY <1>0
  <2>3. PICK u, v : u = Copy(index * Gap, tlen) /\ v = Copy(0, len - tlen)
    OBVIOUS
  <2>4. /\ u \in Seq(MsgByte) /\ Len(u) = tlen /\ v \in Seq(MsgByte) /\ Len(v) = len - tlen
        /\ \A k \in 1 .. tlen : u[k] = Memory((index * Gap) + k - 1)
        /\ \A k \in 1 .. (len - tlen) : v[k] = Memory(0 + k - 1)
    <3> HIDE DEF len, tlen
    <3>1. u \in Seq(MsgByte) /\ Len(u) = tlen /\ v \in Seq(MsgByte) /\ Len(v) = len - tlen
      BY <1>1, <2>1, <2>2, <2>3, CopySeq
    <3> QED  BY <2>3, <3>1 DEF Copy
  <2>5. PICK tl \in Nat, ln \in Nat : tl = tlen /\ ln = len /\ tl <= ln /\ ln - tl \in Nat
    <3> HIDE DEF tlen, len
    <3> QED  BY <1>1, <2>1
  <2>6. /\ u \o v \in Seq(MsgByte) /\ Len(u \o v) = ln
        /\ \A k \in 1 .. ln : (u \o v)[k] = IF k <= tl THEN u[k] ELSE v[k - tl]
    <3>1. Len(u) = tl /\ Len(v) = ln - tl /\ tl + (ln - tl) = ln
      BY <2>4, <2>5
    <3> HIDE DEF tlen, len
    <3>2. u \in Seq(MsgByte) /\ v \in Seq(MsgByte)
      BY <2>4
    <3>3. /\ u \o v \in Seq(MsgByte) /\ Len(u \o v) = Len(u) + Len(v)
          /\ \A k \in 1 .. Len(u) + Len(v) : (u \o v)[k] = IF k <= Len(u) THEN u[k] ELSE v[k - Len(u)]
      BY <3>2, ConcatProperties
    <3> QED  BY <3>1, <3>3
  <2>7. ASSUME NEW x \in 1 .. ln
        PROVE  (u \o v)[x] = <<rbuf[(index + ((x - 1) \div Gap)) % RecvNums], (x - 1) % Gap>>
    <3>1. PICK y \in Nat : y = x - 1 /\ y < ln
      BY <2>5
    <3>2. y \div Gap \in Nat /\ y \div Gap <= full /\ (m = 0 => y \div Gap < full)
      BY <1>0, <1>3, <2>5, <3>1, DivMod
    <3>3. CASE x <= tl
      <4>1. y < Gap * (RecvNums - index)
        <5>1. Gap * (RecvNums - index) = tl
          BY <1>0, <2>2, <2>5
        <5> QED  BY <3>1, <3>3, <5>1
      <4>2. y \div Gap < RecvNums - index
        BY <1>0, <2>2, <4>1, DivBelow
      <4>3. index + (y \div Gap) < RecvNums
        BY <1>0, <3>2, <4>2
      <4>4. Memory((index * Gap) + y) = <<rbuf[(index + (y \div Gap)) % RecvNums], y % Gap>>
        BY <3>1, <4>3, CopyAt
      <4>5. (index * Gap) + x - 1 = (index * Gap) + y
        BY <2>2, <2>5, <3>1
      <4>6. (u \o v)[x] = u[x] /\ x \in 1 .. tl
        <5> HIDE DEF len, tlen
        <5>1. x \in 1 .. tl
          BY <3>3
        <5> QED  BY <2>6, <3>3, <5>1
      <4>7. u[x] = Memory((index * Gap) + x - 1)
        <5> HIDE DEF tlen, len
        <5> QED  BY <2>4, <2>5, <4>6
      <4> QED  BY <3>1, <4>4, <4>5, <4>6, <4>7
    <3>4. CASE ~(x <= tl)
      <4>1. PICK z \in Nat : z = y - tl
        BY <2>5, <3>1, <3>4
      <4>2. PICK t \in Nat : t = RecvNums - index /\ tl = Gap * t
        BY <1>0, <2>2, <2>5
      <4>3. y = (Gap * t) + z
        BY <2>5, <3>1, <4>1, <4>2
      <4>4. y \div Gap = t + (z \div Gap) /\ y % Gap = z % Gap
        <5> DEFINE d == z \div Gap
                   r == z % Gap
        <5>1. d \in Nat /\ r \in 0 .. (Gap - 1) /\ z = (Gap * d) + r
          BY <1>0, DivMod
        <5> HIDE DEF d, r
        <5>2. Gap * (t + d) = (Gap * t) + (Gap * d) /\ Gap * t \in Nat /\ Gap * d \in Nat
          BY <1>0, <5>1
        <5>3. y = (Gap * (t + d)) + r /\ t + d \in Int /\ y \in Int
          BY <1>0, <4>3, <5>1, <5>2
        <5>4. y \div Gap = t + d /\ y % Gap = r
          BY <1>0, <5>1, <5>3, DivModUnique
        <5> QED  BY <5>4 DEF d, r
      <4>5. z \div Gap \in Nat /\ z \div Gap < RecvNums
        <5>1. z \div Gap \in Nat
          BY <1>0, DivMod
        <5>2. t >= 1
          BY <1>0, <4>2
        <5> QED  BY <1>0, <3>2, <4>2, <4>4, <5>1, <5>2
      <4>6. 0 + (z \div Gap) < RecvNums /\ 0 \in 0 .. (RecvNums - 1) /\ 0 + (z \div Gap) = z \div Gap
        BY <1>0, <4>5
      <4>7. /\ Memory((0 * Gap) + z) = <<rbuf[0 + (z \div Gap)], z % Gap>>
            /\ (0 + (z \div Gap)) % RecvNums = 0 + (z \div Gap)
        BY <4>6, CopyAt
      <4>8. (index + (y \div Gap)) % RecvNums = z \div Gap
        <5>1. index + (y \div Gap) = (z \div Gap) + RecvNums
          BY <1>0, <4>2, <4>4, <4>5
        <5>2. ((z \div Gap) + RecvNums) % RecvNums = (z \div Gap) % RecvNums
          <6>1. PICK d \in Nat : d = z \div Gap
            BY <4>5
          <6>2. d \in Int
            OBVIOUS
          <6>3. (d + RecvNums) % RecvNums = d % RecvNums
            BY <1>0, <6>2, ModShift, Zenon
          <6> QED  BY <6>1, <6>3
        <5> QED  BY <4>6, <4>7, <5>1, <5>2
      <4>9. (u \o v)[x] = v[x - tl] /\ x - tl \in 1 .. (ln - tl)
        <5> HIDE DEF len, tlen
        <5> QED  BY <2>5, <2>6, <3>4
      <4>10. v[x - tl] = Memory(0 + (x - tl) - 1)
        <5> HIDE DEF tlen, len
        <5> QED  BY <2>4, <2>5, <4>9
      <4>11. 0 + (x - tl) - 1 = (0 * Gap) + z
        BY <1>0, <2>5, <3>1, <4>1
      <4> QED  BY <3>1, <4>4, <4>6, <4>7, <4>8, <4>9, <4>10, <4>11
    <3> QED  BY <3>3, <3>4
  <2>8. u \o v = InTurn(index, ln)
    <3> HIDE DEF len, tlen
    <3>1. u \o v = [x \in 1 .. ln |-> (u \o v)[x]]
      <4>1. PICK w : w = u \o v
        OBVIOUS
      <4>2. w \in [1 .. Len(w) -> MsgByte] /\ Len(w) = ln
        BY <2>6, <4>1, LenProperties
      <4>3. w = [x \in 1 .. ln |-> w[x]]
        BY <4>2
      <4> QED  BY <4>1, <4>3
    <3> QED  BY <2>7, <3>1 DEF InTurn
  <2> HIDE DEF tlen
  <2> QED  BY <1>2, <1>5, <2>3, <2>5, <2>8
<1> QED  BY <1>4, <1>5

LEMMA InTurnNone ==
    ASSUME NEW index
    PROVE  InTurn(index, 0 * Gap) = <<>>
<1>1. 0 * Gap = 0 /\ 1 .. 0 = {}
  BY Constants
<1>2. PICK t : t = InTurn(index, 0)
  OBVIOUS
<1>3. t = [x \in {} |-> <<rbuf[(index + ((x - 1) \div Gap)) % RecvNums], (x - 1) % Gap>>]
  BY <1>1, <1>2 DEF InTurn
<1>4. t = <<>>
  BY <1>3
<1> QED  BY <1>1, <1>2, <1>4

\* The first m bytes of the message in buffer b.
FromBuffer(b, m) == [k \in 1 .. m |-> <<rbuf[b], k - 1>>]

\* One message more.
LEMMA InTurnGoesOn ==
    ASSUME Types, NEW index \in 0 .. (RecvNums - 1), NEW full \in Nat, NEW m \in 0 .. Gap,
           NEW g, g = FromBuffer((index + full) % RecvNums, m)
    PROVE  /\ InTurn(index, full * Gap) \in Seq(MsgByte) /\ g \in Seq(MsgByte)
           /\ InTurn(index, full * Gap) \o g = InTurn(index, (full * Gap) + m)
<1>0. Gap \in Nat \ {0} /\ RecvNums \in Nat \ {0} /\ index \in Nat /\ m \in Nat
  BY Constants
<1>1. PICK l \in Nat : l = full * Gap /\ l = Gap * full
  BY <1>0
<1>2. \A b \in Nat : rbuf[b % RecvNums] \in Nat
  <2>1. \A b \in Nat : b % RecvNums \in 0 .. (RecvNums - 1)
    BY <1>0
  <2> QED  BY <2>1 DEF Types
<1>3. PICK f : f = InTurn(index, l)
  OBVIOUS
<1>4. f \in [1 .. l -> MsgByte]
  <2>1. ASSUME NEW x \in 1 .. l
        PROVE  <<rbuf[(index + ((x - 1) \div Gap)) % RecvNums], (x - 1) % Gap>> \in MsgByte
    <3>1. PICK y \in Nat : y = x - 1
      BY <1>1
    <3>2. y \div Gap \in Nat /\ y % Gap \in 0 .. (Gap - 1)
      BY <1>0, DivMod, Zenon
    <3>3. y % Gap \in Nat /\ index + (y \div Gap) \in Nat
      BY <1>0, <3>2
    <3>4. rbuf[(index + (y \div Gap)) % RecvNums] \in Nat
      BY <1>2, <3>3, Zenon
    <3> QED  BY <3>1, <3>3, <3>4 DEF MsgByte
  <2> QED  BY <1>3, <2>1 DEF InTurn
<1>5. f \in Seq(MsgByte) /\ Len(f) = l
  <2>1. f \in Seq(MsgByte)
    BY <1>4, SeqDef
  <2> QED  BY <1>4, <2>1, LenProperties
<1>6. g \in [1 .. m -> MsgByte]
  <2>0. index + full \in Nat
    BY <1>0
  <2>1. rbuf[(index + full) % RecvNums] \in Nat
    BY <1>2, <2>0, Zenon
  <2>2. \A k \in 1 .. m : k - 1 \in Nat
    BY <1>0
  <2> QED  BY <2>1, <2>2 DEF MsgByte, FromBuffer
<1>7. g \in Seq(MsgByte) /\ Len(g) = m
  <2>1. g \in Seq(MsgByte)
    BY <1>0, <1>6, SeqDef
  <2> QED  BY <1>0, <1>6, <2>1, LenProperties
<1>8. PICK w : w = f \o g
  OBVIOUS
<1>9. /\ w \in Seq(MsgByte) /\ Len(w) = l + m
      /\ \A k \in 1 .. l + m : w[k] = IF k <= l THEN f[k] ELSE g[k - l]
  <2>1. /\ w \in Seq(MsgByte) /\ Len(w) = Len(f) + Len(g)
        /\ \A k \in 1 .. Len(f) + Len(g) : w[k] = IF k <= Len(f) THEN f[k] ELSE g[k - Len(f)]
    BY <1>5, <1>7, <1>8, ConcatProperties
  <2> QED  BY <1>5, <1>7, <2>1
<1>10. ASSUME NEW x \in 1 .. (l + m)
       PROVE  w[x] = <<rbuf[(index + ((x - 1) \div Gap)) % RecvNums], (x - 1) % Gap>>
  <2>1. CASE x <= l
    <3>1. x \in 1 .. l
      BY <1>0, <2>1
    <3> QED  BY <1>3, <1>9, <2>1, <3>1 DEF InTurn
  <2>2. CASE ~(x <= l)
    <3>1. PICK k \in 1 .. m : k = x - l
      BY <1>0, <2>2
    <3>2. w[x] = <<rbuf[(index + full) % RecvNums], k - 1>>
      BY <1>9, <2>2, <3>1 DEF FromBuffer
    <3>3. k - 1 \in 0 .. (Gap - 1) /\ x - 1 \in Int /\ x - 1 = (Gap * full) + (k - 1)
      BY <1>0, <1>1, <3>1
    <3>4. (x - 1) \div Gap = full /\ (x - 1) % Gap = k - 1
      <4>1. PICK r, z : r = k - 1 /\ z = x - 1
        OBVIOUS
      <4>2. full \in Int /\ r \in 0 .. (Gap - 1) /\ z \in Int /\ z = (Gap * full) + r
        BY <3>3, <4>1
      <4>3. z \div Gap = full /\ z % Gap = r
        BY <1>0, <4>2, DivModUnique, Zenon
      <4> QED  BY <4>1, <4>3
    <3> QED  BY <3>2, <3>4
  <2> QED  BY <2>1, <2>2
<1>11. w = [x \in 1 .. (l + m) |-> w[x]]
  <2>1. w \in [1 .. Len(w) -> MsgByte]
    BY <1>9, LenProperties
  <2> QED  BY <1>9, <2>1
<1>12. w = InTurn(index, l + m)
  BY <1>10, <1>11 DEF InTurn
<1> QED  BY <1>1, <1>3, <1>5, <1>7, <1>8, <1>12

\* The loop of read() and the messages put together, as functions of how many
\* completions were looked at.
LoopStep(f, index, done, k) ==
    IF k = 0 THEN [out |-> <<>>, index |-> index, full |-> 0] ELSE ReadOne(f[k - 1], done[k])
IsLoop(f, index, done, l) == f = [k \in 0 .. l |-> LoopStep(f, index, done, k)]
JoinStep(f, q, k) == IF k = 0 THEN <<>> ELSE f[k - 1] \o Bytes(q[k])
IsJoin(f, q, l) == f = [k \in 0 .. l |-> JoinStep(f, q, k)]

LEMMA LoopExists ==
    ASSUME NEW index, NEW done, NEW l \in Nat
    PROVE  \E f : IsLoop(f, index, done, l)
<1> DEFINE Bad == {m \in 0 .. l : ~\E f : IsLoop(f, index, done, m)}
<1>1. Bad = {}
  <2> SUFFICES ASSUME Bad # {} PROVE FALSE
    OBVIOUS
  <2>1. PICK m \in Bad : \A k \in Bad : m <= k
    <3>1. Bad \in SUBSET Nat
      OBVIOUS
    <3> HIDE DEF Bad
    <3> QED  BY <3>1, LeastNatural
  <2>2. m \in 0 .. l /\ ~\E f : IsLoop(f, index, done, m)
    BY <2>1
  <2>3. CASE m = 0
    <3> DEFINE g == [k \in 0 .. 0 |-> [out |-> <<>>, index |-> index, full |-> 0]]
    <3>1. IsLoop(g, index, done, 0)
      BY DEF IsLoop, LoopStep
    <3> QED  BY <2>2, <2>3, <3>1
  <2>4. CASE m > 0
    <3>1. m - 1 \in 0 .. l /\ m - 1 \notin Bad
      <4>1. m - 1 \in 0 .. l /\ ~(m <= m - 1)
        BY <2>2, <2>4
      <4> HIDE DEF Bad
      <4> QED  BY <2>1, <4>1
    <3>2. PICK f : IsLoop(f, index, done, m - 1)
      BY <3>1
    <3> DEFINE g == [k \in 0 .. m |-> IF k = m THEN LoopStep(f, index, done, k) ELSE f[k]]
    <3>3. ASSUME NEW k \in 0 .. m PROVE g[k] = LoopStep(g, index, done, k)
      <4>1. k # 0 => k - 1 \in 0 .. m /\ k - 1 # m
        BY <2>2
      <4>2. k # 0 => g[k - 1] = f[k - 1]
        BY <4>1
      <4>3. LoopStep(g, index, done, k) = LoopStep(f, index, done, k)
        <5> HIDE DEF g
        <5> QED  BY <4>2 DEF LoopStep
      <4>4. CASE k = m
        BY <4>3, <4>4
      <4>5. CASE k # m
        <5>1. k \in 0 .. (m - 1)
          BY <2>2, <4>5
        <5>2. f[k] = LoopStep(f, index, done, k)
          BY <3>2, <5>1 DEF IsLoop
        <5> QED  BY <4>3, <4>5, <5>2
      <4> QED  BY <4>4, <4>5
    <3>4. IsLoop(g, index, done, m)
      BY <3>3 DEF IsLoop
    <3> QED  BY <2>2, <3>4
  <2> QED  BY <2>2, <2>3, <2>4
<1>2. l \in 0 .. l /\ l \notin Bad
  <2>1. l \in 0 .. l
    OBVIOUS
  <2> HIDE DEF Bad
  <2> QED  BY <1>1, <2>1
<1> QED  BY <1>2

LEMMA JoinExists ==
    ASSUME NEW q, NEW l \in Nat
    PROVE  \E f : IsJoin(f, q, l)
<1> DEFINE Bad == {m \in 0 .. l : ~\E f : IsJoin(f, q, m)}
<1>1. Bad = {}
  <2> SUFFICES ASSUME Bad # {} PROVE FALSE
    OBVIOUS
  <2>1. PICK m \in Bad : \A k \in Bad : m <= k
    <3>1. Bad \in SUBSET Nat
      OBVIOUS
    <3> HIDE DEF Bad
    <3> QED  BY <3>1, LeastNatural
  <2>2. m \in 0 .. l /\ ~\E f : IsJoin(f, q, m)
    BY <2>1
  <2>3. CASE m = 0
    <3> DEFINE g == [k \in 0 .. 0 |-> <<>>]
    <3>1. IsJoin(g, q, 0)
      BY DEF IsJoin, JoinStep
    <3> QED  BY <2>2, <2>3, <3>1
  <2>4. CASE m > 0
    <3>1. m - 1 \in 0 .. l /\ m - 1 \notin Bad
      <4>1. m - 1 \in 0 .. l /\ ~(m <= m - 1)
        BY <2>2, <2>4
      <4> HIDE DEF Bad
      <4> QED  BY <2>1, <4>1
    <3>2. PICK f : IsJoin(f, q, m - 1)
      BY <3>1
    <3> DEFINE g == [k \in 0 .. m |-> IF k = m THEN JoinStep(f, q, k) ELSE f[k]]
    <3>3. ASSUME NEW k \in 0 .. m PROVE g[k] = JoinStep(g, q, k)
      <4>1. k # 0 => k - 1 \in 0 .. m /\ k - 1 # m
        BY <2>2
      <4>2. k # 0 => g[k - 1] = f[k - 1]
        BY <4>1
      <4>3. JoinStep(g, q, k) = JoinStep(f, q, k)
        <5> HIDE DEF g
        <5> QED  BY <4>2 DEF JoinStep
      <4>4. CASE k = m
        BY <4>3, <4>4
      <4>5. CASE k # m
        <5>1. k \in 0 .. (m - 1)
          BY <2>2, <4>5
        <5>2. f[k] = JoinStep(f, q, k)
          BY <3>2, <5>1 DEF IsJoin
        <5> QED  BY <4>3, <4>5, <5>2
      <4> QED  BY <4>4, <4>5
    <3>4. IsJoin(g, q, m)
      BY <3>3 DEF IsJoin
    <3> QED  BY <2>2, <3>4
  <2> QED  BY <2>2, <2>3, <2>4
<1>2. l \in 0 .. l /\ l \notin Bad
  <2>1. l \in 0 .. l
    OBVIOUS
  <2> HIDE DEF Bad
  <2> QED  BY <1>1, <2>1
<1> QED  BY <1>2

\* What is left to do after the loop.
Rest(st) == IF st.full = 0 THEN st.out ELSE st.out \o CopyOut(st.index, st.full, 0)

LEMMA ReadOutDef ==
    ASSUME NEW index, NEW done, Len(done) \in Nat
    PROVE  \E f : /\ IsLoop(f, index, done, Len(done))
                  /\ ReadOut(index, done).out = Rest(f[Len(done)])
                  /\ ReadOut(index, done).index = (f[Len(done)].index + f[Len(done)].full) % RecvNums
<1>1. \E f : IsLoop(f, index, done, Len(done))
  BY LoopExists
<1> QED  BY <1>1 DEF ReadOut, IsLoop, LoopStep, Rest

LEMMA JoinedDef ==
    ASSUME NEW q, Len(q) \in Nat
    PROVE  \E f : IsJoin(f, q, Len(q)) /\ Joined(q) = f[Len(q)]
<1>1. \E f : IsJoin(f, q, Len(q))
  BY JoinExists
<1> QED  BY <1>1 DEF Joined, IsJoin, JoinStep

\* After k completions: what read() has copied, and the run of full messages it has
\* not copied yet, are the first k messages.
LoopInv(st, joined, index, k) ==
    /\ st = [out |-> st.out, index |-> st.index, full |-> st.full]
    /\ st.full \in 0 .. k
    /\ st.index = (index + k - st.full) % RecvNums
    /\ st.out \in Seq(MsgByte)
    /\ st.out \o InTurn(st.index, st.full * Gap) = joined

LEMMA ModPlus ==
    ASSUME NEW n \in Nat \ {0}, NEW x \in Int, NEW y \in Int
    PROVE  ((x % n) + y) % n = (x + y) % n
<1> DEFINE d == x \div n
           e == x % n
           s == (e + y) \div n
           r == (e + y) % n
<1>1. d \in Int /\ e \in 0 .. (n - 1) /\ x = (n * d) + e
  OBVIOUS
<1> HIDE DEF d, e
<1>2. s \in Int /\ r \in 0 .. (n - 1) /\ e + y = (n * s) + r
  BY <1>1
<1> HIDE DEF s, r
<1>3. n * (d + s) = (n * d) + (n * s) /\ n * d \in Int /\ n * s \in Int
  BY <1>1, <1>2
<1>4. x + y = (n * (d + s)) + r
  BY <1>1, <1>2, <1>3
<1>5. d + s \in Int /\ x + y \in Int
  BY <1>1, <1>2
<1>6. PICK z \in Int, q \in Int, u \in 0 .. (n - 1) :
         z = x + y /\ q = d + s /\ u = r /\ z = (n * q) + u
  BY <1>2, <1>4, <1>5
<1>7. z \div n = q /\ z % n = u
  <2>1. n \in Nat \ {0} /\ z \in Int /\ q \in Int /\ u \in 0 .. (n - 1) /\ z = (n * q) + u
    BY <1>6
  <2> QED  BY <2>1, DivModUnique
<1> QED  BY <1>6, <1>7 DEF e, r

MsgSeqAssociative == \A x, y, z \in Seq(MsgByte) : (x \o y) \o z = x \o (y \o z)
LEMMA MsgBytesAssociative == MsgSeqAssociative
BY ConcatAssociative DEF MsgSeqAssociative

\* One completion.
LEMMA LoopInvStep ==
    ASSUME Types, NEW index \in 0 .. (RecvNums - 1), NEW k \in Nat \ {0}, k <= RecvNums,
           NEW st, NEW joined, LoopInv(st, joined, index, k - 1),
           NEW m \in [msg : Nat, size : 1 .. Gap], m.msg = rbuf[(index + k - 1) % RecvNums],
           NEW st2, st2 = ReadOne(st, m.size)
    PROVE  LoopInv(st2, joined \o Bytes(m), index, k)
<1>0. Gap \in Nat \ {0} /\ RecvNums \in Nat \ {0} /\ index \in Nat /\ m.size \in 1 .. Gap /\ m.size \in Nat
  BY Constants
<1>1. PICK full, at, out :
        /\ full \in Nat /\ full = st.full /\ at = st.index /\ out = st.out
        /\ st = [out |-> out, index |-> at, full |-> full]
        /\ full <= k - 1 /\ at = (index + (k - 1) - full) % RecvNums
        /\ out \in Seq(MsgByte) /\ out \o InTurn(at, full * Gap) = joined
  <2>1. st.full \in Nat /\ st.full <= k - 1
    BY DEF LoopInv
  <2> QED  BY <2>1 DEF LoopInv
<1>2. at \in 0 .. (RecvNums - 1)
  <2>1. PICK x \in Int : x = index + (k - 1) - full
    BY <1>0, <1>1
  <2>2. x % RecvNums \in 0 .. (RecvNums - 1)
    BY <1>0
  <2> QED  BY <1>1, <2>1, <2>2
<1>3. (at + full) % RecvNums = (index + k - 1) % RecvNums
  <2>1. PICK x \in Int : x = index + (k - 1) - full
    BY <1>0, <1>1
  <2>2. full \in Int /\ x + full = index + k - 1
    BY <1>0, <1>1, <2>1
  <2>3. ((x % RecvNums) + full) % RecvNums = (x + full) % RecvNums
    BY <1>0, <2>2, ModPlus, Zenon
  <2> QED  BY <1>1, <2>1, <2>2, <2>3
<1>4. PICK g : g = Bytes(m)
  OBVIOUS
<1>5. g = FromBuffer((at + full) % RecvNums, m.size)
  BY <1>3, <1>4 DEF Bytes, FromBuffer
<1>6. PICK s : s = m.size /\ s \in 1 .. Gap /\ s \in 0 .. Gap /\ s \in Nat
  BY <1>0
<1>7. /\ InTurn(at, full * Gap) \in Seq(MsgByte) /\ g \in Seq(MsgByte)
      /\ InTurn(at, full * Gap) \o g = InTurn(at, (full * Gap) + s)
  <2>1. g = FromBuffer((at + full) % RecvNums, s)
    BY <1>5, <1>6
  <2>2. full \in Nat
    BY <1>1
  <2>3. s \in 0 .. Gap
    BY <1>6
  <2> QED  BY <1>2, <2>1, <2>2, <2>3, InTurnGoesOn, ZenonT(30)
<1>8. joined \o g = out \o InTurn(at, (full * Gap) + s)
  <2>1. PICK t : t = InTurn(at, full * Gap)
    OBVIOUS
  <2>2. (out \o t) \o g = out \o (t \o g)
    BY <1>1, <1>7, <2>1, MsgBytesAssociative DEF MsgSeqAssociative
  <2> QED  BY <1>1, <1>7, <2>1, <2>2
<1>9. CASE s < Gap
  <2>1. /\ st2.out = out \o CopyOut(at, full, s) /\ st2.full = 0
        /\ st2.index = (at + full + 1) % RecvNums
    BY <1>1, <1>6, <1>9 DEF ReadOne
  <2>2. CopyOut(at, full, s) = InTurn(at, (full * Gap) + s)
    <3>1. s \in 0 .. (Gap - 1) /\ full <= RecvNums /\ (s > 0 => full < RecvNums)
      <4>1. full \in Nat /\ full <= k - 1 /\ k \in Nat /\ k <= RecvNums /\ s \in Nat
        BY <1>1, <1>6
      <4>2. RecvNums \in Nat /\ Gap \in Nat
        BY <1>0
      <4> QED  BY <1>9, <4>1, <4>2
    <3>2. full \in Nat
      BY <1>1
    <3> QED  BY <1>2, <3>1, <3>2, CopyOutInTurn
  <2>3. InTurn(at, (full * Gap) + s) \in Seq(MsgByte)
    <3>1. PICK t : t = InTurn(at, full * Gap)
      OBVIOUS
    <3>2. t \o g \in Seq(MsgByte)
      BY <1>7, <3>1, ConcatProperties
    <3> QED  BY <1>7, <3>1, <3>2
  <2>4. st2.out = joined \o g /\ st2.out \in Seq(MsgByte)
    <3>1. PICK t : t = InTurn(at, (full * Gap) + s)
      OBVIOUS
    <3>2. out \o t \in Seq(MsgByte)
      BY <1>1, <2>3, <3>1, ConcatProperties
    <3> QED  BY <1>8, <2>1, <2>2, <3>1, <3>2
  <2>5. st2.index = (index + k - 0) % RecvNums
    <3>1. PICK x \in Int : x = index + (k - 1) - full
      BY <1>0, <1>1
    <3>2. full + 1 \in Int /\ x + (full + 1) = index + k - 0
      <4>1. full \in Nat /\ index \in Nat /\ k \in Nat
        BY <1>0, <1>1
      <4> QED  BY <3>1, <4>1
    <3>3. ((x % RecvNums) + (full + 1)) % RecvNums = (x + (full + 1)) % RecvNums
      <4>1. PICK y \in Int : y = full + 1
        BY <3>2
      <4>2. ((x % RecvNums) + y) % RecvNums = (x + y) % RecvNums
        BY <1>0, ModPlus, Zenon
      <4> QED  BY <4>1, <4>2
    <3>4. at + full + 1 = at + (full + 1)
      BY <1>1, <1>2
    <3> QED  BY <1>1, <2>1, <3>1, <3>2, <3>3, <3>4
  <2>6. st2.out \o InTurn(st2.index, st2.full * Gap) = st2.out
    <3>1. InTurn(st2.index, st2.full * Gap) = <<>>
      BY <2>1, InTurnNone
    <3>2. st2.out \o <<>> = st2.out
      BY <2>4, ConcatEmptySeq
    <3> QED  BY <3>1, <3>2
  <2>7. 0 \in 0 .. k
    OBVIOUS
  <2>8. st2 = [out |-> st2.out, index |-> st2.index, full |-> st2.full]
    BY <1>6, <1>9 DEF ReadOne
  <2> QED  BY <1>4, <2>1, <2>4, <2>5, <2>6, <2>7, <2>8 DEF LoopInv
<1>10. CASE ~(s < Gap)
  <2>1. s = Gap
    BY <1>0, <1>6, <1>10
  <2>2. st2.out = out /\ st2.index = at /\ st2.full = full + 1
    <3>1. st2 = [st EXCEPT !.full = @ + 1]
      BY <1>6, <1>10 DEF ReadOne
    <3> QED  BY <1>1, <3>1
  <2>3. (full + 1) * Gap = (full * Gap) + s
    BY <1>0, <1>1, <2>1
  <2>4. full + 1 \in 0 .. k /\ index + k - (full + 1) = index + (k - 1) - full
    <3>1. full \in Nat /\ full <= k - 1 /\ index \in Nat /\ k \in Nat
      BY <1>0, <1>1
    <3> QED  BY <3>1
  <2>5. at = (index + k - (full + 1)) % RecvNums
    BY <1>1, <2>4
  <2>6. st2 = [out |-> st2.out, index |-> st2.index, full |-> st2.full]
    <3>1. st2 = [st EXCEPT !.full = @ + 1]
      BY <1>6, <1>10 DEF ReadOne
    <3> QED  BY <1>1, <3>1
  <2> QED  BY <1>1, <1>4, <1>8, <2>2, <2>3, <2>4, <2>5, <2>6 DEF LoopInv
<1> QED  BY <1>9, <1>10

\* What read() copies out for any run of completions no longer than the ring of
\* buffers, from any buffer on: the messages put together in order.
LEMMA ReadOutJoins ==
    ASSUME Types, NEW index \in 0 .. (RecvNums - 1), NEW q \in Seq([msg : Nat, size : 1 .. Gap]),
           Len(q) <= RecvNums, NEW done, Len(done) = Len(q),
           \A k \in 1 .. Len(q) : /\ done[k] = q[k].size
                                  /\ q[k].msg = rbuf[(index + k - 1) % RecvNums]
    PROVE  ReadOut(index, done).out = Joined(q)
<1>0. Gap \in Nat \ {0} /\ RecvNums \in Nat \ {0} /\ index \in Nat
  BY Constants
<1>1. PICK l \in Nat : l = Len(q) /\ l = Len(done) /\ l <= RecvNums
  BY LenProperties
<1>2. PICK f : IsLoop(f, index, done, l) /\ ReadOut(index, done).out = Rest(f[l])
  <2>1. Len(done) \in Nat
    BY <1>1
  <2>2. \E f : IsLoop(f, index, done, Len(done)) /\ ReadOut(index, done).out = Rest(f[Len(done)])
    BY <2>1, ReadOutDef
  <2> QED  BY <1>1, <2>2
<1>3. PICK g : IsJoin(g, q, l) /\ Joined(q) = g[l]
  BY <1>1, JoinedDef
<1>4. \A k \in 0 .. l : f[k] = LoopStep(f, index, done, k) /\ g[k] = JoinStep(g, q, k)
  BY <1>2, <1>3 DEF IsLoop, IsJoin
<1> DEFINE Good(k) == LoopInv(f[k], g[k], index, k)
           Bad == {k \in 0 .. l : ~Good(k)}
<1>5. Bad = {}
  <2> SUFFICES ASSUME Bad # {} PROVE FALSE
    OBVIOUS
  <2>1. PICK m \in Bad : \A k \in Bad : m <= k
    <3>1. Bad \in SUBSET Nat
      OBVIOUS
    <3> HIDE DEF Bad
    <3> QED  BY <3>1, LeastNatural
  <2>2. m \in 0 .. l /\ ~Good(m)
    BY <2>1
  <2>3. CASE m = 0
    <3>1. f[0] = [out |-> <<>>, index |-> index, full |-> 0] /\ g[0] = <<>>
      BY <1>4, <2>2, <2>3 DEF LoopStep, JoinStep
    <3>2. InTurn(index, 0 * Gap) = <<>>
      BY InTurnNone
    <3>3. <<>> \in Seq(MsgByte) /\ <<>> \o <<>> = <<>>
      BY ConcatEmptySeq, EmptySeq
    <3>4. (index + 0 - 0) % RecvNums = index
      BY <1>0, ModSmall
    <3>5. LoopInv(f[0], g[0], index, 0)
      BY <3>1, <3>2, <3>3, <3>4 DEF LoopInv
    <3> QED  BY <2>2, <2>3, <3>5
  <2>4. CASE m > 0
    <3>1. m \in 1 .. l /\ m - 1 \in 0 .. l /\ ~(m <= m - 1) /\ m # 0 /\ m \in Nat \ {0} /\ m <= RecvNums
      BY <1>0, <1>1, <2>2, <2>4
    <3>2. m - 1 \notin Bad
      <4> HIDE DEF Bad
      <4> QED  BY <2>1, <3>1
    <3>3. LoopInv(f[m - 1], g[m - 1], index, m - 1)
      BY <3>1, <3>2
    <3> HIDE DEF Good, Bad
    <3>4. f[m] = ReadOne(f[m - 1], done[m]) /\ g[m] = g[m - 1] \o Bytes(q[m])
      BY <1>4, <3>1, <2>2 DEF LoopStep, JoinStep
    <3>5. PICK st, joined, e, st2 : st = f[m - 1] /\ joined = g[m - 1] /\ e = q[m] /\ st2 = f[m]
      OBVIOUS
    <3>6. /\ e \in [msg : Nat, size : 1 .. Gap] /\ e.msg = rbuf[(index + m - 1) % RecvNums]
          /\ done[m] = e.size
      BY <1>1, <3>1, <3>5, ElementOfSeq
    <3>7. LoopInv(st, joined, index, m - 1) /\ st2 = ReadOne(st, e.size)
      BY <3>3, <3>4, <3>5, <3>6
    <3>8. LoopInv(st2, joined \o Bytes(e), index, m)
      BY <3>1, <3>6, <3>7, LoopInvStep
    <3>9. LoopInv(f[m], g[m], index, m)
      BY <3>4, <3>5, <3>8
    <3> QED  BY <2>2, <3>9 DEF Good
  <2> QED  BY <2>2, <2>3, <2>4
<1>6. LoopInv(f[l], g[l], index, l)
  <2>1. l \in 0 .. l
    OBVIOUS
  <2> QED  BY <1>5, <2>1
<1> HIDE DEF Good, Bad
<1>7. PICK st, joined : st = f[l] /\ joined = g[l]
  OBVIOUS
<1>8. PICK full, at, out :
         /\ full \in Nat /\ full = st.full /\ at = st.index /\ out = st.out
         /\ full <= l /\ at = (index + l - full) % RecvNums
         /\ out \in Seq(MsgByte) /\ out \o InTurn(at, full * Gap) = joined
  <2>1. LoopInv(st, joined, index, l)
    BY <1>6, <1>7
  <2>2. st.full \in Nat /\ st.full <= l
    BY <2>1 DEF LoopInv
  <2> QED  BY <2>1, <2>2 DEF LoopInv
<1>9. ReadOut(index, done).out = IF full = 0 THEN out ELSE out \o CopyOut(at, full, 0)
  BY <1>2, <1>7, <1>8 DEF Rest
<1>10. CASE full = 0
  <2>1. InTurn(at, 0 * Gap) = <<>>
    BY InTurnNone
  <2>2. out \o <<>> = out
    BY <1>8, ConcatEmptySeq
  <2> QED  BY <1>3, <1>7, <1>8, <1>9, <1>10, <2>1, <2>2
<1>11. CASE full # 0
  <2>1. full <= RecvNums /\ 0 \in 0 .. (Gap - 1) /\ ~(0 > 0) /\ full \in Nat
    <3>1. full \in Nat /\ full <= l
      BY <1>8
    <3> QED  BY <1>0, <1>1, <3>1
  <2>2. at \in 0 .. (RecvNums - 1)
    <3>1. PICK x \in Int : x = index + l - full
      BY <1>0, <2>1
    <3>2. x % RecvNums \in 0 .. (RecvNums - 1)
      BY <1>0
    <3> QED  BY <1>8, <3>1, <3>2
  <2>3. CopyOut(at, full, 0) = InTurn(at, (full * Gap) + 0)
    BY <2>1, <2>2, CopyOutInTurn
  <2>4. (full * Gap) + 0 = full * Gap
    BY <1>0, <2>1
  <2> QED  BY <1>3, <1>7, <1>8, <1>9, <1>11, <2>3, <2>4
<1> QED  BY <1>10, <1>11

-----------------------------------------------------------------------------
\* The completions of receives that nobody has taken yet are those of the last
\* messages, and read(), which polls no queue, stays where it is.
Completions ==
    /\ Len(rcq) <= Len(came)
    /\ \A k \in 1 .. Len(rcq) : rcq[k] = came[(Len(came) - Len(rcq)) + k].size
    /\ recv_index = 1 % RecvNums
    /\ cur \in Nat
    /\ posts = 0 => Len(came) + Len(rq) = RecvPosts - 1

\* Neither the sender nor its adapter touches the receiver.
LEMMA CompletionsFrame ==
    ASSUME Completions, UNCHANGED <<rcq, came, recv_index, cur, posts, rq>>
    PROVE  Completions'
BY DEF Completions

LEMMA InitCompletions == Init => Completions
<1> SUFFICES ASSUME Init PROVE Completions
  OBVIOUS
<1>0. RecvPosts \in Nat \ {0} /\ RecvNums \in Nat \ {0}
  BY Constants
<1>1. rcq = <<>> /\ came = <<>> /\ Len(<<>>) = 0
  BY DEF Init
<1>2. Len(rcq) <= Len(came) /\ \A k \in 1 .. Len(rcq) : rcq[k] = came[(Len(came) - Len(rcq)) + k].size
  BY <1>1
<1>3. Len(rq) = RecvPosts - 1
  <2>1. Least(RecvPosts, RecvPosts) = RecvPosts
    BY DEF Least
  <2>2. PICK q : q = RecvQueue(RecvPosts)
    OBVIOUS
  <2>3. q = [k \in 1 .. RecvPosts |-> (k - 1) % RecvNums]
    BY <2>1, <2>2 DEF RecvQueue
  <2>4. q \in [1 .. RecvPosts -> Int]
    <3>1. \A k \in 1 .. RecvPosts : (k - 1) % RecvNums \in Int
      BY <1>0
    <3> QED  BY <2>3, <3>1
  <2>5. q \in Seq(Int) /\ Len(q) = RecvPosts
    <3>1. q \in Seq(Int)
      BY <1>0, <2>4, SeqDef
    <3> QED  BY <1>0, <2>4, <3>1, LenProperties
  <2>6. q # <<>>
    BY <1>0, <2>5
  <2>7. Len(Tail(q)) = Len(q) - 1
    BY <2>5, <2>6, HeadTailProperties
  <2> QED  BY <2>2, <2>5, <2>7 DEF Init
<1>4. recv_index = 1 % RecvNums /\ cur \in Nat
  BY DEF Init
<1>5. 0 + (RecvPosts - 1) = RecvPosts - 1
  BY <1>0
<1> QED  BY <1>1, <1>2, <1>3, <1>4, <1>5 DEF Completions

LEMMA TransmitCompletions ==
    ASSUME Types, Completions, Transmit
    PROVE  Completions'
<1>1. recv_index' = recv_index /\ cur' = cur /\ posts' = posts
  BY DEF Transmit
<1>2. CASE UNCHANGED <<rq, rcq, came>>
  BY <1>1, <1>2, CompletionsFrame
<1>3. CASE ~UNCHANGED <<rq, rcq, came>>
  <2>1. PICK r : r = Head(sq)
    OBVIOUS
  <2>2. /\ rq # <<>> /\ rq' = Tail(rq) /\ rcq' = Append(rcq, r.size)
        /\ came' = Append(came, [msg |-> r.msg, size |-> r.size])
        /\ sq # <<>> /\ r.op = "send"
    BY <1>3, <2>1 DEF Transmit
  <2>3. r \in SendOp
    <3>1. r \in Write \cup SendOp
      BY <2>1, <2>2, HeadTailProperties DEF Types
    <3> QED  BY <2>2, <3>1 DEF Write
  <2>4. PICK m, s : m = [msg |-> r.msg, size |-> r.size] /\ s = r.size /\ m.size = s
                    /\ m \in [msg : Nat, size : 1 .. Gap] /\ s \in 1 .. Gap
    <3> DEFINE m == [msg |-> r.msg, size |-> r.size]
    <3>1. r.size \in 1 .. Gap /\ r.msg \in Nat
      BY <2>3 DEF SendOp
    <3>2. m \in [msg : Nat, size : 1 .. Gap] /\ m.size = r.size
      BY <3>1
    <3> HIDE DEF m
    <3> QED  BY <3>1, <3>2 DEF m
  <2>5. /\ Len(came') = Len(came) + 1 /\ came'[Len(came) + 1] = m
        /\ \A k \in 1 .. Len(came) : came'[k] = came[k]
    BY <2>2, <2>4, AppendProperties DEF Types
  <2>6. /\ Len(rcq') = Len(rcq) + 1 /\ rcq'[Len(rcq) + 1] = s
        /\ \A k \in 1 .. Len(rcq) : rcq'[k] = rcq[k]
    BY <2>2, <2>4, AppendProperties DEF Types
  <2>7. Len(rq') = Len(rq) - 1
    BY <2>2, HeadTailProperties DEF Types
  <2>8. PICK a \in Nat, b \in Nat, c \in Nat : a = Len(came) /\ b = Len(rcq) /\ c = Len(rq)
    BY Lengths
  <2>9. b <= a /\ \A k \in 1 .. b : rcq[k] = came[(a - b) + k].size
    BY <2>8 DEF Completions
  <2>10. ASSUME NEW k \in 1 .. (b + 1) PROVE rcq'[k] = came'[((a + 1) - (b + 1)) + k].size
    <3>1. ((a + 1) - (b + 1)) + k = (a - b) + k
      OBVIOUS
    <3>2. CASE k <= b
      <4>1. k \in 1 .. b /\ (a - b) + k \in 1 .. a
        BY <2>9, <3>2
      <4> QED  BY <2>5, <2>6, <2>8, <2>9, <3>1, <4>1
    <3>3. CASE ~(k <= b)
      <4>1. k = b + 1 /\ (a - b) + k = a + 1
        BY <2>9, <3>3
      <4> QED  BY <2>4, <2>5, <2>6, <2>8, <3>1, <4>1
    <3> QED  BY <3>2, <3>3
  <2>11. Len(rcq') <= Len(came')
    BY <2>5, <2>6, <2>8, <2>9
  <2>12. posts' = 0 => Len(came') + Len(rq') = RecvPosts - 1
    <3>1. posts = 0 => a + c = RecvPosts - 1
      BY <2>8 DEF Completions
    <3>2. (a + 1) + (c - 1) = a + c
      OBVIOUS
    <3> QED  BY <1>1, <2>5, <2>7, <2>8, <3>1, <3>2
  <2>13. \A k \in 1 .. Len(rcq') : rcq'[k] = came'[(Len(came') - Len(rcq')) + k].size
    BY <2>5, <2>6, <2>8, <2>10
  <2> QED  BY <1>1, <2>11, <2>12, <2>13 DEF Completions
<1> QED  BY <1>2, <1>3

\* query_sr() drops completions from the front, and read() none.
LEMMA DropCompletions ==
    ASSUME Types, Completions, UNCHANGED <<came, rq, posts>>, NEW d \in 0 .. Len(rcq),
           rcq' = SubSeq(rcq, d + 1, Len(rcq)), recv_index' = recv_index, cur' \in Nat
    PROVE  Completions'
<1>1. PICK a \in Nat, b \in Nat : a = Len(came) /\ b = Len(rcq)
  BY Lengths
<1>2. b <= a /\ \A k \in 1 .. b : rcq[k] = came[(a - b) + k].size
  BY <1>1 DEF Completions
<1>3. d \in Nat /\ d <= b
  BY <1>1
<1>4. Len(rcq') = b - d /\ \A k \in 1 .. (b - d) : rcq'[k] = rcq[d + k]
  <2>1. \A k \in (d + 1) .. b : rcq[k] \in 1 .. Gap
    <3>1. \A k \in (d + 1) .. b : k \in 1 .. b
      BY <1>3
    <3> QED  BY <1>1, <3>1, ElementOfSeq DEF Types
  <2>2. d + 1 \in Int /\ b \in Int
    BY <1>3
  <2>3. PICK x : x = d + 1
    OBVIOUS
  <2>4. /\ Len(SubSeq(rcq, x, b)) = IF x <= b THEN b - x + 1 ELSE 0
        /\ \A k \in 1 .. (b - x + 1) : SubSeq(rcq, x, b)[k] = rcq[x + k - 1]
    BY <2>1, <2>2, <2>3, SubSeqProperties
  <2>5. (IF x <= b THEN b - x + 1 ELSE 0) = b - d /\ b - x + 1 = b - d
    BY <1>3, <2>3
  <2>6. \A k \in 1 .. (b - d) : x + k - 1 = d + k
    BY <1>3, <2>3
  <2> QED  BY <1>1, <2>3, <2>4, <2>5, <2>6
<1>5. ASSUME NEW k \in 1 .. (b - d) PROVE rcq'[k] = came[(a - (b - d)) + k].size
  <2>1. d + k \in 1 .. b /\ (a - b) + (d + k) = (a - (b - d)) + k
    BY <1>3
  <2> QED  BY <1>2, <1>4, <2>1
<1>6. b - d <= a
  BY <1>2, <1>3
<1> QED  BY <1>1, <1>4, <1>5, <1>6 DEF Completions

LEMMA NextCompletions ==
    ASSUME TransferInv, Completions, [Next]_vars
    PROVE  Completions'
<1>0. Types /\ Len(rcq) \in Nat /\ Len(rq) \in Nat
  BY Lengths DEF TransferInv
<1>1. CASE UNCHANGED recvVars
  BY <1>1, CompletionsFrame DEF recvVars
<1>2. CASE Transmit
  BY <1>0, <1>2, TransmitCompletions
<1>3. CASE QuerySr
  <2>1. PICK d : d = Least(MaxCqe, Len(rcq))
    OBVIOUS
  <2>2. d \in 0 .. Len(rcq)
    BY <1>0, <2>1, Constants DEF Least
  <2>3. /\ UNCHANGED <<came, rq, posts>> /\ rcq' = SubSeq(rcq, d + 1, Len(rcq))
        /\ recv_index' = recv_index /\ cur' = cur
    BY <1>3, <2>1 DEF QuerySr
  <2>4. cur' \in Nat
    BY <2>3 DEF Completions
  <2> QED  BY <1>0, <2>2, <2>3, <2>4, DropCompletions
<1>4. CASE Read
  <2>1. Polled = <<>> /\ Len(<<>>) = 0 /\ 0 + 1 = 1
    BY DEF Polled, QueryFlag
  <2>2. PICK r : r = ReadOut(recv_index, <<>>)
    OBVIOUS
  <2>3. /\ UNCHANGED <<came, rq, posts>> /\ rcq' = SubSeq(rcq, 0 + 1, Len(rcq))
        /\ recv_index' = r.index /\ cur' = cur + Len(r.out)
    BY <1>4, <2>1, <2>2 DEF Read
  <2>4. PICK f : /\ IsLoop(f, recv_index, <<>>, 0) /\ r.out = Rest(f[0])
                 /\ r.index = (f[0].index + f[0].full) % RecvNums
    BY <2>1, <2>2, ReadOutDef
  <2>5. f[0] = [out |-> <<>>, index |-> recv_index, full |-> 0]
    BY <2>4 DEF IsLoop, LoopStep
  <2>6. r.out = <<>> /\ r.index = (recv_index + 0) % RecvNums
    BY <2>4, <2>5 DEF Rest
  <2>7. recv_index \in 0 .. (RecvNums - 1)
    <3>1. 1 % RecvNums \in 0 .. (RecvNums - 1)
      BY Constants
    <3> QED  BY <3>1 DEF Completions
  <2>8. (recv_index + 0) % RecvNums = recv_index
    <3>1. recv_index + 0 = recv_index /\ RecvNums \in Nat \ {0}
      BY <2>7, Constants
    <3>2. recv_index % RecvNums = recv_index
      BY <2>7, <3>1, ModSmall
    <3> QED  BY <3>1, <3>2
  <2>9. cur' \in Nat
    <3>1. cur + 0 \in Nat
      BY DEF Completions
    <3> QED  BY <2>1, <2>3, <2>6, <3>1
  <2>10. 0 \in 0 .. Len(rcq)
    BY <1>0
  <2> QED  BY <1>0, <2>3, <2>6, <2>8, <2>9, <2>10, DropCompletions
<1>5. CASE \E nums \in {1, RecvPosts} : PostRecv(nums)
  <2>1. PICK nums \in {1, RecvPosts} : PostRecv(nums)
    BY <1>5
  <2>2. posts' = posts + 1 /\ UNCHANGED <<rcq, came, recv_index, cur>>
    BY <2>1 DEF PostRecv
  <2>3. posts' # 0
    <3>1. posts \in Nat
      BY <1>0, Constants DEF Types
    <3> QED  BY <2>2, <3>1
  <2> QED  BY <2>2, <2>3 DEF Completions
<1>6. CASE \/ \E size \in Sizes : Bulk(size)
           \/ \E size \in 0 .. Gap : Latency(size)
           \/ SenderSteps \/ PollFails \/ XPollFails \/ Close \/ QpError \/ Flush
  <2>1. UNCHANGED recvVars
    BY <1>6 DEF Bulk, Latency, SenderSteps, Rdma, WaitAck, Dereg, LatencyDone, XNext, XStart, PollFails,
                XPollFails, Close, QpError, Flush
  <2> QED  BY <1>1, <2>1
<1>7. CASE UNCHANGED vars
  BY <1>1, <1>7 DEF vars
<1> QED  BY <1>2, <1>3, <1>4, <1>5, <1>6, <1>7 DEF Next

-----------------------------------------------------------------------------
(* The theorems.                                                            *)

LEMMA NextTransferInv ==
    ASSUME TransferInv, [Next]_vars
    PROVE  TransferInv'
<1>1. CASE \E size \in Sizes : Bulk(size)
  BY <1>1, BulkInv
<1>2. CASE \E size \in 0 .. Gap : Latency(size)
  BY <1>2, LatencyInv
<1>3. CASE SenderSteps
  BY <1>3, RdmaInv, WaitAckInv, DeregInv, LatencyDoneInv, XNextInv, XStartInv, CloseInv DEF SenderSteps
<1>4. CASE PollFails \/ XPollFails
  BY <1>4, PollFailsInv, XPollFailsInv
<1>5. CASE Close
  BY <1>5, CloseInv
<1>6. CASE Transmit \/ QpError \/ Flush
  BY <1>6, TransmitInv, QpErrorInv, FlushInv
<1>7. CASE QuerySr \/ Read
  BY <1>7, QuerySrInv, ReadInv
<1>8. CASE \E nums \in {1, RecvPosts} : PostRecv(nums)
  <2>1. {1, RecvPosts} \subseteq Nat \ {0}
    BY Constants
  <2> QED  BY <1>8, <2>1, PostRecvInv
<1>9. CASE UNCHANGED vars
  <2>1. UNCHANGED <<app, pc, call, bulkVars, regs, xVars, queues, slice, rbuf, came, history>>
    BY <1>9 DEF vars, recvVars
  <2>2. UNCHANGED <<rq, rcq, came, posts>>
    BY <1>9 DEF vars, recvVars
  <2>3. rcq' \in Seq(1 .. Gap) /\ rq' \in Seq(0 .. (RecvNums - 1)) /\ posts' \in 0 .. MaxPosts
    BY <2>2 DEF TransferInv, Types
  <2>4. Receives'
    BY <2>2 DEF TransferInv, Receives
  <2> QED  BY <2>1, <2>3, <2>4, ReceiverInv
<1> QED  BY <1>1, <1>2, <1>3, <1>4, <1>5, <1>6, <1>7, <1>8, <1>9 DEF Next

\* TransferInv holds throughout: the types, and the bookkeeping of bulk(), latency()
\* and the client of xx (rdma_session.cpp, xx.cpp).
THEOREM TransferInvariance == Spec => []TransferInv
<1>1. Init => TransferInv
  BY InitTransferInv
<1>2. TransferInv /\ [Next]_vars => TransferInv'
  BY NextTransferInv
<1> QED  BY <1>1, <1>2, PTL DEF Spec

\* A bulk() that has counted its completions is in the peer's memory, for every
\* number of slices and every size, with the slices used over again.
THEOREM BulkLandedTheorem == Spec => []BulkLanded
<1>1. TransferInv => BulkLanded
  <2> SUFFICES ASSUME TransferInv, pc = "dereg", ~spoiled, NEW k \in 1 .. num, k + Slices > num
               PROVE  LandedIn(k) = <<call, k>>
    BY DEF BulkLanded
  <2>0. /\ Slices \in Nat \ {0} /\ num \in Nat /\ rdma_index \in 0 .. (Slices - 1) /\ i = num + 1
        /\ sq = <<>> /\ scq = <<>> /\ Landed
    BY Constants DEF TransferInv, Types, Loops, Outstanding
  <2>1. Len(sq) = 0 /\ Len(scq) = 0
    BY <2>0, EmptySeq
  <2>2. Gone = num
    BY <2>0, <2>1 DEF Gone
  <2>3. slice[SliceOf(rdma_index, i, k)] = <<call, k>>
    BY <2>0, <2>1, <2>2 DEF Landed, InBulk
  <2> DEFINE x == rdma_index + k - i
  <2>4. x \in Int /\ num * Slices \in Int
        /\ rdma_index + num * Slices - (num - k) - 1 = x + (num * Slices)
    BY <2>0
  <2> HIDE DEF x
  <2>5. (x + (num * Slices)) % Slices = x % Slices
    <3> DEFINE d == x \div Slices
               e == x % Slices
    <3>1. d \in Int /\ e \in 0 .. (Slices - 1) /\ x = (Slices * d) + e
      BY <2>0, <2>4
    <3> HIDE DEF d, e
    <3>2. Slices * (d + num) = (Slices * d) + (num * Slices) /\ Slices * d \in Int /\ d + num \in Int
      BY <2>0, <3>1
    <3>3. x + (num * Slices) = (Slices * (d + num)) + e /\ x + (num * Slices) \in Int
      BY <2>4, <3>1, <3>2
    <3>4. (x + (num * Slices)) % Slices = e
      BY <2>0, <3>1, <3>2, <3>3, DivModUnique
    <3> QED  BY <3>4 DEF e
  <2>6. SliceOf(rdma_index, i, k) = x % Slices
    BY DEF SliceOf, x
  <2> QED  BY <2>3, <2>4, <2>5, <2>6 DEF LandedIn
<1> QED  BY <1>1, TransferInvariance, PTL

\* What bulk() has in flight is registered: its count of completions is its count of
\* pieces, so it deregisters nothing that the adapter has still to read.
THEOREM InFlightRegisteredTheorem == Spec => []InFlightRegistered
<1>1. TransferInv => InFlightRegistered
  <2> SUFFICES ASSUME TransferInv, ~spoiled, NEW k \in DOMAIN sq, sq[k].op = "write"
               PROVE  sq[k].piece \in regs
    BY DEF InFlightRegistered
  <2>0. Types /\ Loops /\ Outstanding /\ Requests
    BY DEF TransferInv
  <2>1. k \in 1 .. Len(sq) /\ Len(sq) \in Nat /\ sq # <<>>
    <3>1. sq \in Seq(Write \cup SendOp) /\ DOMAIN sq = 1 .. Len(sq) /\ Len(sq) \in Nat
      BY <2>0, LenProperties DEF Types
    <3>2. Len(sq) # 0
      BY <3>1
    <3> QED  BY <3>1, <3>2, EmptySeq
  <2>2. pc \in {"write", "ack"}
    <3>1. pc \in {"write", "ack", "reap", "stream"}
      BY <2>0, <2>1 DEF Outstanding, Types, Busy
    <3> QED  BY <2>0, <2>1, <3>1 DEF Requests
  <2>3. sq[k].piece = <<call, Gone + k>>
    BY <2>0, <2>1, <2>2 DEF Requests, InBulk
  <2>4. Gone + k \in 1 .. num
    <3>1. Gone + k = i - 1 - Len(sq) + k
      BY DEF Gone
    <3>2. i \in Nat /\ num \in Nat /\ ack \in Nat /\ Len(scq) \in Nat
      BY <2>0, Lengths DEF Types
    <3>3. i - 1 <= num /\ Len(sq) <= i - 1
      <4>1. CASE pc = "write"
        <5>1. i <= num /\ Len(sq) + Len(scq) = i - 1
          BY <2>0, <4>1 DEF Loops, Outstanding
        <5> QED  BY <2>1, <3>2, <5>1
      <4>2. CASE pc = "ack"
        <5>1. i = num + 1 /\ ack + Len(sq) + Len(scq) = num
          BY <2>0, <4>2 DEF Loops, Outstanding
        <5> QED  BY <2>1, <3>2, <5>1
      <4> QED  BY <2>2, <4>1, <4>2
    <3> QED  BY <2>1, <3>1, <3>2, <3>3
  <2>5. AllPieces \subseteq regs
    BY <2>0, <2>2 DEF Loops, InBulk
  <2> QED  BY <2>3, <2>4, <2>5 DEF AllPieces
<1> QED  BY <1>1, TransferInvariance, PTL

\* Between two calls of the session nothing is outstanding, unless one failed half
\* way, and nothing is registered, unless one returned -1.
THEOREM IdleIsCleanTheorem == Spec => []IdleIsClean
<1>1. TransferInv => IdleIsClean
  BY DEF TransferInv, IdleIsClean, Outstanding, Loops, InBulk
<1> QED  BY <1>1, TransferInvariance, PTL

\* Messages land in the receive buffers in turn, as they were when posted, although
\* the one send buffer is filled again and the receives share the buffers.
THEOREM StreamLandsTheorem == Spec => []StreamLands
<1>1. TransferInv => StreamLands
  BY DEF TransferInv
<1> QED  BY <1>1, TransferInvariance, PTL

\* The client of xx loses at most its last message when it closes the session.
THEOREM OnlyLastLostTheorem == Spec => []OnlyLastLost
<1>1. TransferInv => OnlyLastLost
  <2> SUFFICES ASSUME TransferInv, app = "xx", pc = "gone", ~failed, ~spoiled
               PROVE  Len(came) >= Iter - 1
    BY DEF OnlyLastLost
  <2>1. Len(came) + 1 >= Iter
    BY DEF TransferInv, Streamed
  <2>2. Len(came) \in Nat
    BY Lengths DEF TransferInv
  <2> QED  BY <2>1, <2>2, Constants
<1> QED  BY <1>1, TransferInvariance, PTL

\* Types of the state, for all sizes and numbers: pieces fit their slices, indices
\* stay in their rings.  The index of read() does so because query() polls no queue
\* and read() stays where the opening left it.
THEOREM TypeCorrect == Spec => []TypeOK
<1>1. Init => TransferInv /\ Completions
  BY InitTransferInv, InitCompletions
<1>2. TransferInv /\ Completions /\ [Next]_vars => TransferInv' /\ Completions'
  BY NextTransferInv, NextCompletions
<1>3. TransferInv /\ Completions => TypeOK
  <2> SUFFICES ASSUME TransferInv, Completions PROVE TypeOK
    OBVIOUS
  <2>1. recv_index \in 0 .. (RecvNums - 1)
    <3>1. 1 % RecvNums \in 0 .. (RecvNums - 1)
      BY Constants
    <3> QED  BY <3>1 DEF Completions
  <2>2. cur \in Nat
    BY DEF Completions
  <2> QED  BY <2>1, <2>2 DEF TransferInv, Types, TypeOK
<1> QED  BY <1>1, <1>2, <1>3, PTL DEF Spec

\* What read() makes of the completions it polls, for every number and size of the
\* receive buffers, every mixture of full and short messages and wherever the ring of
\* buffers wraps: the messages put together in the order they came, byte for byte.
THEOREM ReadInOrderTheorem == Spec => []ReadInOrder
<1>1. Init => TransferInv /\ Completions
  BY InitTransferInv, InitCompletions
<1>2. TransferInv /\ Completions /\ [Next]_vars => TransferInv' /\ Completions'
  BY NextTransferInv, NextCompletions
<1>3. TransferInv /\ Completions => ReadInOrder
  <2> SUFFICES ASSUME TransferInv, Completions, ~spoiled, Len(rcq) = Len(came), Len(came) <= RecvNums,
                      posts = 0
               PROVE  ReadOut(recv_index, rcq).out = Joined(came)
    BY DEF ReadInOrder
  <2>0. Types /\ RecvNums \in Nat \ {0} /\ RecvPosts \in Nat
    BY Constants DEF TransferInv
  <2>1. PICK a \in Nat, c \in Nat : a = Len(came) /\ c = Len(rq) /\ a = Len(rcq)
    BY <2>0, Lengths
  <2>2. a < RecvPosts
    <3>1. a + c = RecvPosts - 1
      BY <2>1 DEF Completions
    <3> QED  BY <2>0, <3>1
  <2>3. recv_index \in 0 .. (RecvNums - 1)
    <3>1. 1 % RecvNums \in 0 .. (RecvNums - 1)
      BY <2>0
    <3> QED  BY <3>1 DEF Completions
  <2>4. ASSUME NEW k \in 1 .. a
        PROVE  rcq[k] = came[k].size /\ came[k].msg = rbuf[(recv_index + k - 1) % RecvNums]
    <3>1. (a - a) + k = k
      OBVIOUS
    <3>2. rcq[k] = came[k].size
      <4>1. rcq[k] = came[(a - a) + k].size
        BY <2>1 DEF Completions
      <4> QED  BY <3>1, <4>1
    <3>3. rbuf[k % RecvNums] = came[k].msg
      <4>1. k + RecvNums > a
        BY <2>0, <2>1
      <4> QED  BY <2>1, <2>2, <4>1 DEF TransferInv, StreamLands
    <3>4. (recv_index + k - 1) % RecvNums = k % RecvNums
      <4>1. PICK y \in Int : y = k - 1
        OBVIOUS
      <4>2. ((1 % RecvNums) + y) % RecvNums = (1 + y) % RecvNums
        <5>1. 1 \in Int
          OBVIOUS
        <5> QED  BY <2>0, <5>1, ModPlus, Zenon
      <4>3. 1 + y = k /\ recv_index + k - 1 = recv_index + y
        BY <2>3, <4>1
      <4> QED  BY <4>2, <4>3 DEF Completions
    <3> QED  BY <3>2, <3>3, <3>4
  <2>5. came \in Seq([msg : Nat, size : 1 .. Gap])
    BY <2>0 DEF Types
  <2> QED  BY <2>0, <2>1, <2>3, <2>4, <2>5, ReadOutJoins
<1> QED  BY <1>1, <1>2, <1>3, PTL DEF Spec
=============================================================================
