---------------------------- MODULE DataPathProofs ----------------------------
(***************************************************************************)
(* Proofs about DataPath, for any pairs of ends, every size of the cluster *)
(* and of the messages, and whatever is refused or breaks.                 *)
(*                                                                         *)
(* Counting chunks: the receives posted once are enough (CountInv).        *)
(*                                                                         *)
(* The bytes: what send() is given comes out of read(), once and in order  *)
(* (FlowInv).  Chunks are received into from the first of the list on and  *)
(* sent from the last on (InPlace), those between are at offset 0          *)
(* (Unmoved), and posted bytes are in chunks off the list (OwnChunks); so, *)
(* until the two paths meet, what is on its way is a chain of runs of the  *)
(* stream, from what was read to what was given (Flows).                   *)
(***************************************************************************)
EXTENDS DataPath, SequenceTheorems, NaturalsInduction, WellFoundedInduction, TLAPS

\* q is a sequence of something.
IsSeq(q) == \E S : q \in Seq(S)

LEMMA IsSeqTail ==
    ASSUME NEW q, IsSeq(q), q # <<>>
    PROVE  IsSeq(Tail(q)) /\ Len(q) \in Nat /\ Len(q) > 0 /\ Len(Tail(q)) = Len(q) - 1
<1>1. PICK S : q \in Seq(S)
  BY DEF IsSeq
<1>2. Tail(q) \in Seq(S) /\ Len(Tail(q)) = Len(q) - 1
  BY <1>1, HeadTailProperties
<1>3. Len(q) \in Nat /\ Len(q) # 0
  BY <1>1, LenProperties, EmptySeq
<1>4. Len(q) > 0
  BY <1>3
<1> QED  BY <1>2, <1>3, <1>4 DEF IsSeq

LEMMA IsSeqConcat ==
    ASSUME NEW q, NEW r, IsSeq(q), IsSeq(r)
    PROVE  IsSeq(q \o r) /\ Len(q \o r) = Len(q) + Len(r) /\ Len(q) \in Nat /\ Len(r) \in Nat
<1>1. PICK S : q \in Seq(S)
  BY DEF IsSeq
<1>2. PICK T : r \in Seq(T)
  BY DEF IsSeq
<1> DEFINE U == S \cup T
<1>3. q \in Seq(U) /\ r \in Seq(U)
  BY <1>1, <1>2, SeqMonotonic
<1> HIDE DEF U
<1>4. q \o r \in Seq(U) /\ Len(q \o r) = Len(q) + Len(r) /\ Len(q) \in Nat /\ Len(r) \in Nat
  BY <1>3, ConcatProperties, LenProperties
<1> QED  BY <1>4 DEF IsSeq

LEMMA IsSeqMade ==
    ASSUME NEW m \in Nat, NEW f, f = [j \in 1 .. m |-> f[j]]
    PROVE  IsSeq(f) /\ Len(f) = m
<1> DEFINE S == {f[j] : j \in 1 .. m}
<1>1. f \in [1 .. m -> S]
  OBVIOUS
<1> HIDE DEF S
<1>2. f \in Seq(S)
  BY <1>1, SeqDef
<1>3. Len(f) = m
  BY <1>1, <1>2, LenProperties
<1> QED  BY <1>2, <1>3 DEF IsSeq

-----------------------------------------------------------------------------
\* What the queues of e and of its peer count: the chunks e took are gone from its
\* list, and every receive that was used up and every request that is posted
\* stands for one of them.
Counted(e) ==
    /\ IsSeq(sq[e]) /\ IsSeq(srq[e]) /\ IsSeq(channel[e])
    /\ taken[e] \in Nat /\ posted[e] \in Nat /\ empties[e] \in Nat
    /\ taken[e] + Len(channel[e]) = RxNum
    /\ ~broken /\ empties[e] = 0 =>
          posted[Peer[e]] - Len(srq[Peer[e]]) + Len(sq[e]) <= taken[e]

QueuesOfEnds ==
    /\ sq = [e \in Ends |-> sq[e]] /\ srq = [e \in Ends |-> srq[e]]
    /\ channel = [e \in Ends |-> channel[e]] /\ taken = [e \in Ends |-> taken[e]]
    /\ empties = [e \in Ends |-> empties[e]]

CountInv == QueuesOfEnds /\ \A e \in Ends : Counted(e)

LEMMA IsSeqLen ==
    ASSUME NEW q, IsSeq(q)
    PROVE  Len(q) \in Nat /\ (q = <<>> <=> Len(q) = 0)
<1>1. PICK S : q \in Seq(S)
  BY DEF IsSeq
<1> QED  BY <1>1, LenProperties, EmptySeq

\* The loop of post_channel_cluster, from the front of the list, and what get_buffers
\* leaves of it.
LEMMA IsSeqPrefix ==
    ASSUME NEW q, IsSeq(q), NEW m \in 0 .. Len(q)
    PROVE  IsSeq(SubSeq(q, 1, m)) /\ Len(SubSeq(q, 1, m)) = m
<1>1. PICK S : q \in Seq(S)
  BY DEF IsSeq
<1>2. Len(q) \in Nat /\ m \in Int /\ m \in Nat /\ 1 \in Int
  BY <1>1, LenProperties
<1>3. \A k \in 1 .. m : q[k] \in S
  <2>1. \A k \in 1 .. m : k \in 1 .. Len(q)
    BY <1>2
  <2> QED  BY <1>1, <2>1, ElementOfSeq
<1>4. SubSeq(q, 1, m) \in Seq(S) /\ Len(SubSeq(q, 1, m)) = IF 1 <= m THEN m - 1 + 1 ELSE 0
  BY <1>2, <1>3, SubSeqProperties
<1>5. (IF 1 <= m THEN m - 1 + 1 ELSE 0) = m
  BY <1>2
<1> QED  BY <1>4, <1>5 DEF IsSeq

LEMMA InitCountInv == Init => CountInv
<1> SUFFICES ASSUME Init PROVE CountInv
  OBVIOUS
<1>0. RxNum \in Nat /\ Peer \in [Ends -> Ends]
  BY DataPathAssumption
<1>1. QueuesOfEnds
  BY DEF Init, QueuesOfEnds
<1>2. ASSUME NEW e \in Ends
      PROVE  /\ IsSeq(channel[e]) /\ Len(channel[e]) = RxNum
             /\ posted[e] \in 0 .. RxNum /\ IsSeq(srq[e]) /\ Len(srq[e]) = posted[e]
             /\ sq[e] = <<>> /\ taken[e] = 0 /\ empties[e] = 0
  <2>1. /\ channel[e] = [k \in 1 .. RxNum |-> k] /\ posted[e] \in 0 .. RxNum
        /\ srq[e] = SubSeq(channel[e], 1, posted[e])
        /\ sq[e] = <<>> /\ taken[e] = 0 /\ empties[e] = 0
    BY DEF Init, PostChannelCluster
  <2>2. channel[e] = [k \in 1 .. RxNum |-> channel[e][k]]
    BY <2>1
  <2>3. IsSeq(channel[e]) /\ Len(channel[e]) = RxNum
    BY <1>0, <2>2, IsSeqMade
  <2>4. IsSeq(srq[e]) /\ Len(srq[e]) = posted[e]
    <3>1. posted[e] \in 0 .. Len(channel[e])
      BY <2>1, <2>3
    <3>2. IsSeq(SubSeq(channel[e], 1, posted[e])) /\ Len(SubSeq(channel[e], 1, posted[e])) = posted[e]
      BY <2>3, <3>1, IsSeqPrefix
    <3>3. srq[e] = SubSeq(channel[e], 1, posted[e])
      BY <2>1
    <3> QED  BY <3>2, <3>3
  <2> QED  BY <2>1, <2>3, <2>4
<1>3. ASSUME NEW e \in Ends PROVE Counted(e)
  <2>1. IsSeq(sq[e]) /\ Len(sq[e]) = 0
    <3>1. <<>> \in Seq({}) /\ Len(<<>>) = 0
      OBVIOUS
    <3> QED  BY <1>2, <3>1 DEF IsSeq
  <2>2. Peer[e] \in Ends
    BY <1>0
  <2>3. posted[Peer[e]] \in Nat /\ posted[e] \in Nat /\ Len(srq[Peer[e]]) = posted[Peer[e]]
    BY <1>0, <1>2, <2>2
  <2>4. posted[Peer[e]] - posted[Peer[e]] + 0 <= 0 /\ 0 + RxNum = RxNum
    BY <1>0, <2>3
  <2>5. /\ posted[Peer[e]] - Len(srq[Peer[e]]) + Len(sq[e]) <= taken[e]
        /\ taken[e] + Len(channel[e]) = RxNum
    BY <1>2, <2>1, <2>3, <2>4
  <2>6. taken[e] \in Nat /\ empties[e] \in Nat
    BY <1>2
  <2> QED  BY <1>2, <2>1, <2>3, <2>5, <2>6 DEF Counted
<1> QED  BY <1>1, <1>3 DEF CountInv

\* get_buffers gives out what it takes off the list.
LEMMA GetBuffersCounts ==
    ASSUME NEW free, IsSeq(free), NEW b \in Nat
    PROVE  LET buf == GetBuffers(free, b)
           IN  /\ IsSeq(buf.tx) /\ IsSeq(buf.rest)
               /\ Len(buf.rest) = IF b = 0 THEN Len(free) ELSE Len(free) - Len(buf.tx)
<1> DEFINE L == Len(free)
           num == NumBuffers(b)
           left == IF b = 0 THEN L ELSE L - Least(L, num)
           s == SubSeq(free, left + 1, L)
<1>1. PICK S : free \in Seq(S)
  BY DEF IsSeq
<1>2. L \in Nat /\ num \in Nat
  <2>1. ChunkSize \in Nat \ {0} /\ b + ChunkSize - 1 \in Nat
    BY DataPathAssumption
  <2> DEFINE x == b + ChunkSize - 1
  <2> HIDE DEF x
  <2>2. x \div ChunkSize \in Nat
    BY <2>1 DEF x
  <2> QED  BY <1>1, <2>2, LenProperties DEF x, NumBuffers
<1> HIDE DEF num, L
<1>3. left \in 0 .. L
  BY <1>2 DEF Least
<1>4. GetBuffers(free, b).rest = SubSeq(free, 1, left)
  BY DEF GetBuffers, num, L
<1>5. GetBuffers(free, b).tx = IF b = 0 THEN free ELSE Reverse(s)
  BY DEF GetBuffers, num, L
<1> HIDE DEF left
<1>6. IsSeq(SubSeq(free, 1, left)) /\ Len(SubSeq(free, 1, left)) = left
  BY <1>3, IsSeqPrefix DEF L
<1>7. CASE b = 0
  BY <1>4, <1>5, <1>6, <1>7 DEF left, L
<1>8. CASE b # 0
  <2>1. Len(s) = L - left
    <3>1. left + 1 \in Int /\ L \in Int /\ left \in Nat /\ left <= L
      BY <1>2, <1>3
    <3>2. \A k \in (left + 1) .. L : free[k] \in S
      <4>1. \A k \in (left + 1) .. L : k \in 1 .. L
        BY <3>1
      <4> QED  BY <1>1, <4>1, ElementOfSeq DEF L
    <3>3. Len(s) = IF left + 1 <= L THEN L - (left + 1) + 1 ELSE 0
      BY <3>1, <3>2, SubSeqProperties
    <3>4. (IF left + 1 <= L THEN L - (left + 1) + 1 ELSE 0) = L - left
      BY <3>1
    <3> HIDE DEF s
    <3> QED  BY <3>3, <3>4
  <2> HIDE DEF s
  <2>2. IsSeq(Reverse(s)) /\ Len(Reverse(s)) = L - left
    <3>1. L - left \in Nat
      BY <1>2, <1>3
    <3>2. Reverse(s) = [j \in 1 .. (L - left) |-> Reverse(s)[j]]
      BY <2>1 DEF Reverse
    <3> QED  BY <3>1, <3>2, IsSeqMade
  <2>3. left = L - (L - left)
    BY <1>2, <1>3
  <2> QED  BY <1>4, <1>5, <1>6, <1>8, <2>2, <2>3 DEF L
<1> QED  BY <1>7, <1>8

\* An end that a step leaves alone, with the receives of its peer.
LEMMA CountedFrame ==
    ASSUME NEW e \in Ends, Counted(e), sq'[e] = sq[e], srq'[e] = srq[e], channel'[e] = channel[e],
           taken'[e] = taken[e], posted' = posted, empties'[e] = empties[e], broken' = broken,
           srq'[Peer[e]] = srq[Peer[e]]
    PROVE  Counted(e)'
  BY DEF Counted

\* send(): what it posts it has taken.
LEMMA SendCounts ==
    ASSUME CountInv, NEW e \in Ends, NEW b \in Lengths[e], Send(e, b)
    PROVE  CountInv'
<1> DEFINE buf == GetBuffers(channel[e], b)
           count == Len(buf.tx)
<1>0. b \in Nat /\ Peer \in [Ends -> Ends] /\ \A d \in Ends : Peer[d] # d /\ Peer[Peer[d]] = d
  BY DataPathAssumption
<1>1. /\ empties' = [empties EXCEPT ![e] = IF b = 0 THEN @ + 1 ELSE @]
      /\ UNCHANGED <<srq, posted, broken>>
  BY DEF Send
<1>2. \/ UNCHANGED <<channel, taken, sq>>
      \/ /\ channel' = [channel EXCEPT ![e] = buf.rest]
         /\ taken' = [taken EXCEPT ![e] = IF b = 0 THEN @ ELSE @ + count]
         /\ \E k \in 0 .. count : \E g : /\ g = [j \in 1 .. k |-> g[j]]
                                        /\ sq' = [sq EXCEPT ![e] = @ \o g]
  <2>1. CASE UNCHANGED <<channel, taken, sq>>
    BY <2>1
  <2>2. CASE ~UNCHANGED <<channel, taken, sq>>
    <3>1. /\ channel' = [channel EXCEPT ![e] = buf.rest]
          /\ taken' = [taken EXCEPT ![e] = IF b = 0 THEN @ ELSE @ + count]
          /\ \E k \in 0 .. count :
                sq' = [sq EXCEPT ![e] = @ \o
                          [j \in 1 .. k |-> [chunk |-> buf.tx[j], length |-> offset'[e][buf.tx[j]]]]]
      BY <2>2 DEF Send, poolVars
    <3>2. PICK k \in 0 .. count :
                sq' = [sq EXCEPT ![e] = @ \o
                          [j \in 1 .. k |-> [chunk |-> buf.tx[j], length |-> offset'[e][buf.tx[j]]]]]
      BY <3>1
    <3> DEFINE g == [j \in 1 .. k |-> [chunk |-> buf.tx[j], length |-> offset'[e][buf.tx[j]]]]
    <3>3. g = [j \in 1 .. k |-> g[j]]
      OBVIOUS
    <3> HIDE DEF g
    <3>4. sq' = [sq EXCEPT ![e] = @ \o g]
      BY <3>2 DEF g
    <3> QED  BY <3>1, <3>3, <3>4
  <2> QED  BY <2>1, <2>2
<1>3. QueuesOfEnds'
  BY <1>1, <1>2 DEF CountInv, QueuesOfEnds
<1>4. /\ Counted(e)
      /\ \A d \in Ends : d # e => /\ sq'[d] = sq[d] /\ channel'[d] = channel[d]
                                  /\ taken'[d] = taken[d] /\ empties'[d] = empties[d]
  BY <1>1, <1>2 DEF CountInv, QueuesOfEnds
<1>5. empties'[e] = IF b = 0 THEN empties[e] + 1 ELSE empties[e]
  BY <1>1 DEF CountInv, QueuesOfEnds
<1>6. /\ IsSeq(sq[e]) /\ IsSeq(channel[e]) /\ Len(sq[e]) \in Nat /\ Len(channel[e]) \in Nat
      /\ taken[e] \in Nat /\ empties[e] \in Nat /\ taken[e] + Len(channel[e]) = RxNum
      /\ posted[Peer[e]] \in Nat /\ Len(srq[Peer[e]]) \in Nat
      /\ IsSeq(srq[e]) /\ posted[e] \in Nat
  <2>1. Counted(Peer[e])
    BY <1>0 DEF CountInv
  <2> QED  BY <1>4, <2>1, IsSeqLen DEF Counted
<1>7. /\ IsSeq(sq'[e]) /\ IsSeq(channel'[e]) /\ taken'[e] \in Nat
      /\ taken'[e] + Len(channel'[e]) = RxNum
      /\ b # 0 => Len(sq'[e]) - Len(sq[e]) <= taken'[e] - taken[e] /\ Len(sq'[e]) \in Nat
  <2>1. CASE UNCHANGED <<channel, taken, sq>>
    <3>1. Len(sq[e]) - Len(sq[e]) <= taken[e] - taken[e]
      BY <1>6
    <3> QED  BY <1>6, <2>1, <3>1
  <2>2. ASSUME channel' = [channel EXCEPT ![e] = buf.rest],
               taken' = [taken EXCEPT ![e] = IF b = 0 THEN @ ELSE @ + count],
               NEW k \in 0 .. count, NEW g, g = [j \in 1 .. k |-> g[j]],
               sq' = [sq EXCEPT ![e] = @ \o g]
        PROVE  /\ IsSeq(sq'[e]) /\ IsSeq(channel'[e]) /\ taken'[e] \in Nat
               /\ taken'[e] + Len(channel'[e]) = RxNum
               /\ b # 0 => Len(sq'[e]) - Len(sq[e]) <= taken'[e] - taken[e] /\ Len(sq'[e]) \in Nat
    <3>1. /\ channel'[e] = buf.rest /\ sq'[e] = sq[e] \o g
          /\ taken'[e] = IF b = 0 THEN taken[e] ELSE taken[e] + count
      BY <2>2 DEF CountInv, QueuesOfEnds
    <3>2. /\ IsSeq(buf.tx) /\ IsSeq(buf.rest)
          /\ Len(buf.rest) = IF b = 0 THEN Len(channel[e]) ELSE Len(channel[e]) - count
      BY <1>0, <1>6, GetBuffersCounts
    <3>3. count \in Nat
      BY <3>2, IsSeqLen
    <3> HIDE DEF buf, count
    <3>4. k \in Nat /\ k <= count
      BY <3>3
    <3>5. IsSeq(g) /\ Len(g) = k
      BY <2>2, <3>4, IsSeqMade
    <3>6. IsSeq(sq'[e]) /\ Len(sq'[e]) = Len(sq[e]) + k
      BY <1>6, <3>1, <3>5, IsSeqConcat
    <3>7. taken'[e] \in Nat /\ taken'[e] + Len(channel'[e]) = RxNum
      <4>1. CASE b = 0
        BY <1>6, <3>1, <3>2, <4>1
      <4>2. CASE b # 0
        <5>1. taken'[e] = taken[e] + count /\ Len(channel'[e]) = Len(channel[e]) - count
          BY <3>1, <3>2, <4>2
        <5>2. (taken[e] + count) + (Len(channel[e]) - count) = taken[e] + Len(channel[e])
          BY <1>6, <3>3
        <5>3. taken[e] + count \in Nat
          BY <1>6, <3>3
        <5> QED  BY <1>6, <5>1, <5>2, <5>3
      <4> QED  BY <4>1, <4>2
    <3>8. b # 0 => Len(sq'[e]) - Len(sq[e]) <= taken'[e] - taken[e] /\ Len(sq'[e]) \in Nat
      <4>1. /\ (Len(sq[e]) + k) - Len(sq[e]) <= (taken[e] + count) - taken[e]
            /\ Len(sq[e]) + k \in Nat
        BY <1>6, <3>3, <3>4
      <4> QED  BY <3>1, <3>6, <4>1
    <3> QED  BY <3>1, <3>2, <3>6, <3>7, <3>8
  <2> QED  BY <1>2, <2>1, <2>2
<1>8. Counted(e)'
  <2>1. ~broken' /\ empties'[e] = 0 =>
          posted'[Peer[e]] - Len(srq'[Peer[e]]) + Len(sq'[e]) <= taken'[e]
    <3> SUFFICES ASSUME ~broken', empties'[e] = 0
                 PROVE  posted[Peer[e]] - Len(srq[Peer[e]]) + Len(sq'[e]) <= taken'[e]
      BY <1>1
    <3>1. b # 0 /\ empties[e] = 0
      BY <1>5, <1>6
    <3>2. posted[Peer[e]] - Len(srq[Peer[e]]) + Len(sq[e]) <= taken[e]
      BY <1>1, <1>4, <3>1 DEF Counted
    <3>3. Len(sq'[e]) - Len(sq[e]) <= taken'[e] - taken[e] /\ Len(sq'[e]) \in Nat
      BY <1>7, <3>1
    <3>4. taken'[e] \in Nat
      BY <1>7
    <3> DEFINE used == posted[Peer[e]] - Len(srq[Peer[e]])
    <3>5. used \in Int /\ used + Len(sq[e]) <= taken[e]
      BY <1>6, <3>2
    <3> HIDE DEF used
    <3>6. Len(sq[e]) \in Nat /\ taken[e] \in Nat
      BY <1>6
    <3>7. ASSUME NEW r \in Nat, NEW v \in Nat, r - Len(sq[e]) <= v - taken[e]
          PROVE  used + r <= v
      BY <3>5, <3>6, <3>7
    <3>8. used + Len(sq'[e]) <= taken'[e]
      BY <3>3, <3>4, <3>7
    <3> QED  BY <3>8 DEF used
  <2>2. empties'[e] \in Nat
    BY <1>5, <1>6
  <2> QED  BY <1>1, <1>6, <1>7, <2>1, <2>2 DEF Counted
<1>9. ASSUME NEW d \in Ends, d # e PROVE Counted(d)'
  BY <1>1, <1>4, <1>9, CountedFrame DEF CountInv
<1> QED  BY <1>3, <1>8, <1>9 DEF CountInv

\* The adapter uses up one receive of the peer for one request.
LEMMA TransmitCounts ==
    ASSUME CountInv, NEW e \in Ends, Transmit(e)
    PROVE  CountInv'
<1> DEFINE p == Peer[e]
<1>0. Peer \in [Ends -> Ends] /\ \A d \in Ends : Peer[d] # d /\ Peer[Peer[d]] = d
  BY DataPathAssumption
<1>1. /\ sq[e] # <<>> /\ srq[p] # <<>>
      /\ sq' = [sq EXCEPT ![e] = Tail(@)] /\ srq' = [srq EXCEPT ![p] = Tail(@)]
      /\ UNCHANGED <<channel, taken, posted, empties, broken>>
  BY DEF Transmit, poolVars, appVars, history
<1>2. p \in Ends /\ Counted(e) /\ Counted(p) /\ p # e
  BY <1>0 DEF CountInv
<1>3. QueuesOfEnds'
  BY <1>1 DEF CountInv, QueuesOfEnds
<1>4. /\ sq'[e] = Tail(sq[e]) /\ \A d \in Ends : d # e => sq'[d] = sq[d]
      /\ srq'[p] = Tail(srq[p]) /\ \A d \in Ends : d # p => srq'[d] = srq[d]
  BY <1>1, <1>2 DEF CountInv, QueuesOfEnds
<1>5. /\ IsSeq(sq'[e]) /\ Len(sq[e]) \in Nat /\ Len(sq'[e]) = Len(sq[e]) - 1
      /\ IsSeq(srq'[p]) /\ Len(srq[p]) \in Nat /\ Len(srq'[p]) = Len(srq[p]) - 1
  BY <1>1, <1>2, <1>4, IsSeqTail DEF Counted
<1>6. ASSUME NEW d \in Ends PROVE Counted(d)'
  <2>1. Counted(d)
    BY DEF CountInv
  <2>2. IsSeq(sq'[d]) /\ IsSeq(srq'[d]) /\ IsSeq(channel'[d])
    BY <1>1, <1>4, <1>5, <2>1 DEF Counted
  <2>3. /\ taken'[d] \in Nat /\ posted'[d] \in Nat /\ empties'[d] \in Nat
        /\ taken'[d] + Len(channel'[d]) = RxNum
    BY <1>1, <2>1 DEF Counted
  <2>4. ASSUME ~broken', empties'[d] = 0
        PROVE  posted'[Peer[d]] - Len(srq'[Peer[d]]) + Len(sq'[d]) <= taken'[d]
    <3>1. posted[Peer[d]] - Len(srq[Peer[d]]) + Len(sq[d]) <= taken[d]
      BY <1>1, <2>1, <2>4 DEF Counted
    <3>2. CASE d = e
      <4>1. posted[p] \in Nat
        BY <1>2 DEF Counted
      <4>2. posted[p] - (Len(srq[p]) - 1) + (Len(sq[e]) - 1) = posted[p] - Len(srq[p]) + Len(sq[e])
        <5>1. \A x, y, z \in Nat : x - (y - 1) + (z - 1) = x - y + z
          OBVIOUS
        <5> QED  BY <1>5, <4>1, <5>1
      <4> QED  BY <1>1, <1>5, <3>1, <3>2, <4>2
    <3>3. CASE d # e
      <4>1. Peer[d] # p /\ Peer[d] \in Ends
        BY <1>0, <3>3
      <4> QED  BY <1>1, <1>4, <3>1, <3>3, <4>1
    <3> QED  BY <3>2, <3>3
  <2> QED  BY <2>2, <2>3, <2>4 DEF Counted
<1> QED  BY <1>3, <1>6 DEF CountInv

\* A connection that breaks may use up a receive.
LEMMA BreakCounts ==
    ASSUME CountInv, Break
    PROVE  CountInv'
<1>1. /\ broken' = TRUE /\ UNCHANGED <<sq, channel, taken, posted, empties>>
      /\ \/ srq' = srq
         \/ \E p \in Ends : srq[p] # <<>> /\ srq' = [srq EXCEPT ![p] = Tail(@)]
  BY DEF Break, poolVars, appVars, history
<1>2. QueuesOfEnds'
  BY <1>1 DEF CountInv, QueuesOfEnds
<1>3. ASSUME NEW d \in Ends PROVE IsSeq(srq'[d])
  <2>1. IsSeq(srq[d])
    BY DEF CountInv, Counted
  <2>2. srq'[d] = srq[d] \/ (srq[d] # <<>> /\ srq'[d] = Tail(srq[d]))
    BY <1>1 DEF CountInv, QueuesOfEnds
  <2> QED  BY <2>1, <2>2, IsSeqTail
<1>4. ASSUME NEW d \in Ends PROVE Counted(d)'
  BY <1>1, <1>3 DEF CountInv, Counted
<1> QED  BY <1>2, <1>4 DEF CountInv

LEMMA NextCountInv == CountInv /\ [Next]_vars => CountInv'
<1> SUFFICES ASSUME CountInv, [Next]_vars PROVE CountInv'
  OBVIOUS
<1>1. ASSUME UNCHANGED <<sq, srq, channel, taken, posted, empties, broken>> PROVE CountInv'
  <2>1. QueuesOfEnds'
    BY <1>1 DEF CountInv, QueuesOfEnds
  <2>2. \A d \in Ends : Counted(d)'
    BY <1>1 DEF CountInv, Counted
  <2> QED  BY <2>1, <2>2 DEF CountInv
<1>2. ASSUME NEW e \in Ends, NEW b \in Lengths[e], Send(e, b) PROVE CountInv'
  BY <1>2, SendCounts
<1>3. ASSUME NEW e \in Ends, Transmit(e) PROVE CountInv'
  BY <1>3, TransmitCounts
<1>4. ASSUME NEW e \in Ends, Flush(e) PROVE CountInv'
  BY <1>1, <1>4 DEF Flush, poolVars, appVars, history
<1>5. ASSUME NEW e \in Ends, NEW len \in Lens[e], Read(e, len) PROVE CountInv'
  BY <1>1, <1>5 DEF Read, poolVars, appVars
<1>6. CASE Break
  BY <1>6, BreakCounts
<1>7. CASE UNCHANGED vars
  BY <1>1, <1>7 DEF vars, poolVars, appVars, history
<1> QED  BY <1>2, <1>3, <1>4, <1>5, <1>6, <1>7 DEF Next

\* The receives that post_channel_cluster posts once, and the stack never again, are
\* enough: for every size of the cluster and of the messages, and whatever the peers
\* read, refuse or break, an end that has requests posted finds a receive at the
\* other end, unless that end could not post all of its own or empty messages, which
\* cost no chunk, used them up.
THEOREM ReceivesSufficeTheorem == Spec => []ReceivesSuffice
<1>1. CountInv => ReceivesSuffice
  <2> SUFFICES ASSUME CountInv, NEW e \in Ends, sq[e] # <<>>, ~broken,
                      posted[Peer[e]] = RxNum, empties[e] = 0, srq[Peer[e]] = <<>>
               PROVE  FALSE
    BY DEF ReceivesSuffice
  <2>1. Peer[e] \in Ends /\ RxNum \in Nat
    BY DataPathAssumption
  <2>2. Counted(e) /\ Counted(Peer[e])
    BY <2>1 DEF CountInv
  <2>3. Len(sq[e]) \in Nat /\ Len(sq[e]) # 0 /\ Len(srq[Peer[e]]) = 0 /\ Len(channel[e]) \in Nat
    BY <2>2, IsSeqLen DEF Counted
  <2>4. /\ taken[e] \in Nat /\ taken[e] + Len(channel[e]) = RxNum
        /\ posted[Peer[e]] - Len(srq[Peer[e]]) + Len(sq[e]) <= taken[e]
    BY <2>2 DEF Counted
  <2>5. RxNum - 0 + Len(sq[e]) <= taken[e]
    BY <2>3, <2>4
  <2> QED  BY <2>1, <2>3, <2>4, <2>5
<1> QED  BY <1>1, InitCountInv, NextCountInv, PTL DEF Spec

-----------------------------------------------------------------------------
(* The bytes: parts of a stream, one behind the other.                      *)

\* A set of naturals that is not empty has a least element, so that what holds of 0,
\* and of a number whenever it holds of the one before, holds of all.
LEMMA LeastNatural ==
    ASSUME NEW T \in SUBSET Nat, T # {}
    PROVE  \E m \in T : \A k \in T : m <= k
<1>1. PICK m \in T : \A k \in T : <<k, m>> \notin OpToRel(<, Nat)
  BY NatLessThanWellFounded, WFMin
<1>2. \A k \in T : ~(k < m)
  BY <1>1, Zenon DEF OpToRel
<1> QED  BY <1>2

LEMMA StepByStep ==
    ASSUME NEW n \in Nat, NEW G, 0 \in G, \A k \in 1 .. n : k - 1 \in G => k \in G
    PROVE  \A k \in 0 .. n : k \in G
<1> DEFINE Bad == {k \in 0 .. n : k \notin G}
<1> SUFFICES ASSUME Bad # {} PROVE FALSE
  OBVIOUS
<1>1. PICK m \in Bad : \A k \in Bad : m <= k
  <2>1. Bad \in SUBSET Nat
    OBVIOUS
  <2> HIDE DEF Bad
  <2> QED  BY <2>1, LeastNatural
<1>2. m \in 1 .. n /\ m - 1 \in 0 .. n /\ ~(m <= m - 1)
  BY <1>1
<1>3. m - 1 \in G
  <2>1. m - 1 \notin Bad
    <3> HIDE DEF Bad
    <3> QED  BY <1>1, <1>2
  <2> QED  BY <1>2, <2>1
<1> QED  BY <1>1, <1>2, <1>3

\* Bytes a + 1 .. b of the stream of e.
Run(e, a, b) == [j \in 1 .. (b - a) |-> <<e, a + j>>]

LEMMA RunSeq ==
    ASSUME NEW e \in Ends, NEW a \in Nat, NEW b \in Nat, a <= b
    PROVE  Run(e, a, b) \in Seq(Byte) /\ Len(Run(e, a, b)) = b - a
<1>1. b - a \in Nat
  OBVIOUS
<1>2. PICK f : f = Run(e, a, b)
  OBVIOUS
<1>3. f \in [1 .. (b - a) -> Byte]
  <2>1. \A j \in 1 .. (b - a) : a + j \in Nat \ {0}
    OBVIOUS
  <2> QED  BY <1>2, <2>1 DEF Run, Byte
<1>4. f \in Seq(Byte)
  BY <1>1, <1>3, SeqDef
<1>5. Len(f) = b - a
  BY <1>1, <1>3, <1>4, LenProperties
<1> QED  BY <1>2, <1>4, <1>5

\* Two runs make one.
LEMMA RunGoesOn ==
    ASSUME NEW e \in Ends, NEW a \in Nat, NEW b \in Nat, NEW c \in Nat, a <= b, b <= c
    PROVE  Run(e, a, b) \o Run(e, b, c) = Run(e, a, c)
<1>1. PICK f, g, h : f = Run(e, a, b) /\ g = Run(e, b, c) /\ h = Run(e, a, c)
  OBVIOUS
<1>2. /\ f \in Seq(Byte) /\ Len(f) = b - a /\ g \in Seq(Byte) /\ Len(g) = c - b
      /\ h \in Seq(Byte) /\ Len(h) = c - a
  <2>1. a <= c
    OBVIOUS
  <2> QED  BY <1>1, <2>1, RunSeq
<1>3. PICK w : w = f \o g
  OBVIOUS
<1>4. /\ w \in Seq(Byte) /\ Len(w) = Len(f) + Len(g)
      /\ \A k \in 1 .. Len(f) + Len(g) : w[k] = IF k <= Len(f) THEN f[k] ELSE g[k - Len(f)]
  BY <1>2, <1>3, ConcatProperties
<1>5. (b - a) + (c - b) = c - a
  OBVIOUS
<1>6. ASSUME NEW k \in 1 .. (c - a) PROVE w[k] = h[k]
  <2>1. h[k] = <<e, a + k>>
    BY <1>1 DEF Run
  <2>2. CASE k <= b - a
    <3>1. k \in 1 .. (b - a)
      BY <2>2
    <3>2. f[k] = <<e, a + k>>
      BY <1>1, <3>1 DEF Run
    <3> QED  BY <1>2, <1>4, <1>5, <2>1, <2>2, <3>2
  <2>3. CASE ~(k <= b - a)
    <3>1. k - (b - a) \in 1 .. (c - b) /\ b + (k - (b - a)) = a + k
      BY <2>3
    <3>2. g[k - (b - a)] = <<e, a + k>>
      BY <1>1, <3>1 DEF Run
    <3> QED  BY <1>2, <1>4, <1>5, <2>1, <2>3, <3>2
  <2> QED  BY <2>2, <2>3
<1>7. w = h
  BY <1>2, <1>4, <1>5, <1>6, SeqEqual
<1> QED  BY <1>1, <1>3, <1>7

\* The parts that st divides a stream into.
IsChain(st, parts, n, e) ==
    /\ \A k \in 1 .. n + 1 : st[k] \in Nat
    /\ \A k \in 1 .. n : st[k] <= st[k + 1] /\ parts[k] = Run(e, st[k], st[k + 1])

JoinStep(f, parts, k) == IF k = 0 THEN <<>> ELSE f[k - 1] \o parts[k]
IsJoin(f, parts, n) == f = [k \in 0 .. n |-> JoinStep(f, parts, k)]

\* Putting parts together is well defined.
LEMMA JoinExists ==
    ASSUME NEW parts, NEW n \in Nat
    PROVE  \E f : IsJoin(f, parts, n)
<1> DEFINE G == {m \in 0 .. n : \E f : IsJoin(f, parts, m)}
<1>1. 0 \in G
  <2> DEFINE g == [k \in 0 .. 0 |-> <<>>]
  <2>1. IsJoin(g, parts, 0)
    BY DEF IsJoin, JoinStep
  <2> QED  BY <2>1
<1>2. ASSUME NEW m \in 1 .. n, m - 1 \in G PROVE m \in G
  <2>1. PICK f : IsJoin(f, parts, m - 1)
    BY <1>2
  <2> DEFINE g == [k \in 0 .. m |-> IF k = m THEN JoinStep(f, parts, k) ELSE f[k]]
  <2>2. ASSUME NEW k \in 0 .. m PROVE g[k] = JoinStep(g, parts, k)
    <3>1. k # 0 => k - 1 \in 0 .. m /\ k - 1 # m
      OBVIOUS
    <3>2. k # 0 => g[k - 1] = f[k - 1]
      BY <3>1
    <3>3. JoinStep(g, parts, k) = JoinStep(f, parts, k)
      <4> HIDE DEF g
      <4> QED  BY <3>2 DEF JoinStep
    <3>4. CASE k = m
      BY <3>3, <3>4
    <3>5. CASE k # m
      <4>1. k \in 0 .. (m - 1)
        BY <3>5
      <4>2. f[k] = JoinStep(f, parts, k)
        BY <2>1, <4>1 DEF IsJoin
      <4> QED  BY <3>3, <3>5, <4>2
    <3> QED  BY <3>4, <3>5
  <2>3. IsJoin(g, parts, m)
    BY <2>2 DEF IsJoin
  <2> QED  BY <2>3
<1>3. n \in 0 .. n
  OBVIOUS
<1>4. n \in G
  <2> HIDE DEF G
  <2> QED  BY <1>1, <1>2, <1>3, StepByStep
<1> QED  BY <1>4

LEMMA JoinedDef ==
    ASSUME NEW parts, Len(parts) \in Nat
    PROVE  \E f : IsJoin(f, parts, Len(parts)) /\ Joined(parts) = f[Len(parts)]
<1>1. \E f : IsJoin(f, parts, Len(parts))
  BY JoinExists
<1> QED  BY <1>1 DEF Joined, IsJoin, JoinStep

\* The parts of a chain put together.
LEMMA JoinedRun ==
    ASSUME NEW e \in Ends, NEW parts, NEW n \in Nat, n = Len(parts), NEW st, IsChain(st, parts, n, e)
    PROVE  Joined(parts) = Run(e, st[1], st[n + 1]) /\ st[1] <= st[n + 1]
<1>1. PICK f : IsJoin(f, parts, n) /\ Joined(parts) = f[n]
  BY JoinedDef
<1>2. \A k \in 0 .. n : f[k] = JoinStep(f, parts, k)
  BY <1>1 DEF IsJoin
<1> DEFINE G == {m \in 0 .. n : f[m] = Run(e, st[1], st[m + 1]) /\ st[1] <= st[m + 1]}
<1>3. 0 \in G
  <2>1. f[0] = <<>>
    BY <1>2 DEF JoinStep
  <2>2. st[1] \in Nat
    BY DEF IsChain
  <2>3. Run(e, st[1], st[1]) = <<>>
    <3>1. PICK a \in Nat : a = st[1]
      BY <2>2
    <3>2. Run(e, a, a) \in Seq(Byte) /\ Len(Run(e, a, a)) = 0
      <4>1. a <= a /\ a - a = 0
        OBVIOUS
      <4> QED  BY <4>1, RunSeq
    <3>3. Run(e, a, a) = <<>>
      BY <3>2, EmptySeq
    <3> QED  BY <3>1, <3>3
  <2>4. 0 + 1 = 1 /\ 0 \in 0 .. n
    OBVIOUS
  <2> QED  BY <2>1, <2>2, <2>3, <2>4
<1>4. ASSUME NEW m \in 1 .. n, m - 1 \in G PROVE m \in G
  <2>1. (m - 1) + 1 = m /\ m # 0 /\ m \in 1 .. n + 1 /\ 1 \in 1 .. n + 1 /\ m + 1 \in 1 .. n + 1 /\ m \in 0 .. n
    OBVIOUS
  <2>2. f[m - 1] = Run(e, st[1], st[m]) /\ st[1] <= st[m]
    BY <1>4, <2>1
  <2> HIDE DEF G
  <2>3. PICK a \in Nat, b \in Nat, c \in Nat : a = st[1] /\ b = st[m] /\ c = st[m + 1]
    BY <2>1 DEF IsChain
  <2>4. b <= c /\ parts[m] = Run(e, b, c)
    BY <2>3 DEF IsChain
  <2>5. f[m] = f[m - 1] \o parts[m]
    BY <1>2, <2>1 DEF JoinStep
  <2>6. Run(e, a, b) \o Run(e, b, c) = Run(e, a, c)
    <3>1. a <= b /\ b <= c
      BY <2>2, <2>3, <2>4
    <3> QED  BY <3>1, RunGoesOn
  <2>7. f[m] = Run(e, st[1], st[m + 1]) /\ st[1] <= st[m + 1]
    BY <2>2, <2>3, <2>4, <2>5, <2>6
  <2> QED  BY <2>1, <2>7 DEF G
<1>5. n \in 0 .. n
  OBVIOUS
<1>6. n \in G
  <2> HIDE DEF G
  <2> QED  BY <1>3, <1>4, <1>5, StepByStep
<1> QED  BY <1>1, <1>6

-----------------------------------------------------------------------------
(* The invariant of the two paths.                                          *)

\* The receives of e that were used up, and those of them whose completion read()
\* has taken.
UsedUp(e)   == posted[e] - Len(srq[e])
DoneWith(e) == UsedUp(e) - Len(rxcq[e])

\* Chunks are received into from the first on and sent from the last on: the list,
\* the receives and the completions are what the counters say.
InPlace(e) ==
    /\ taken[e] <= RxNum
    /\ Len(channel[e]) = RxNum - taken[e]
    /\ \A k \in 1 .. Len(channel[e]) : channel[e][k] = k
    /\ DoneWith(e) \in Nat
    /\ \A k \in 1 .. Len(srq[e]) : srq[e][k] = UsedUp(e) + k
    /\ \A k \in 1 .. Len(rxcq[e]) : rxcq[e][k].chunk = DoneWith(e) + k
    /\ \A k \in 1 .. Len(rx_buffers[e]) : rx_buffers[e][k] <= DoneWith(e)

\* Chunks that neither send() nor read() has had in hand are at offset 0.
Unmoved(e) ==
    \A c \in Chunks : DoneWith(e) < c /\ c <= RxNum - taken[e] => offset[e][c] = 0

\* Requests that carry bytes are in chunks that send() took off the list.
OwnChunks(e) ==
    ~Torn(e) => \A k \in 1 .. Len(sq[e]) : sq[e][k].length > 0 => sq[e][k].chunk > RxNum - taken[e]

\* What is on its way from e: the parts that arrived and then, while the connection
\* is up, those that are posted.
OnWay(e) == Len(rxcq[Peer[e]]) + (IF broken THEN 0 ELSE Len(sq[e]))
Way(e) ==
    [k \in 1 .. OnWay(e) |->
        IF k <= Len(rxcq[Peer[e]]) THEN Arrived(Peer[e])[k] ELSE Posted(e)[k - Len(rxcq[Peer[e]])]]

\* Byte b was returned by read() of p, or is in a chunk that p has kept.
Known(p, b) ==
    \/ \E k \in 1 .. Len(got[p]) : got[p][k] = b
    \/ \E k \in 1 .. Len(rx_buffers[p]) : \E j \in 1 .. ChunkSize : buffer[p][rx_buffers[p][k]][j] = b

\* The first a bytes from e were read, exactly so while no chunk is kept.
HasRead(e, a) ==
    /\ rx_buffers[Peer[e]] = <<>> => got[Peer[e]] = Run(e, 0, a)
    /\ \A k \in 1 .. a : Known(Peer[e], <<e, k>>)

\* The parts on their way go on where the bytes that were read end, up to what send()
\* was given.
Flows(e) ==
    \E st : /\ IsChain(st, Way(e), OnWay(e), e)
            /\ IF broken THEN st[OnWay(e) + 1] <= given[e] ELSE st[OnWay(e) + 1] = given[e]
            /\ HasRead(e, st[1])

FlowInv ==
    /\ TypeOK
    /\ \A e \in Ends : InPlace(e) /\ Unmoved(e) /\ OwnChunks(e)
    /\ \A e \in Ends : Fresh(e) /\ Fresh(Peer[e]) /\ ~Torn(e) => Flows(e)

LEMMA Consts ==
    /\ ChunkSize \in Nat \ {0} /\ RxNum \in Nat \ {0} /\ Peer \in [Ends -> Ends]
    /\ \A e \in Ends : Peer[e] \in Ends /\ Peer[e] # e /\ Peer[Peer[e]] = e
BY DataPathAssumption

\* What TypeOK says of one end.
Typed(e) ==
    /\ channel[e] \in Seq(Chunks) /\ Len(channel[e]) \in Nat
    /\ buffer[e] \in [Chunks -> [1 .. ChunkSize -> Byte]]
    /\ offset[e] \in [Chunks -> 0 .. ChunkSize]
    /\ srq[e] \in Seq(Chunks) /\ Len(srq[e]) \in Nat
    /\ sq[e] \in Seq(Request) /\ Len(sq[e]) \in Nat
    /\ rxcq[e] \in Seq(RxDone) /\ Len(rxcq[e]) \in Nat
    /\ rx_buffers[e] \in Seq(Chunks) /\ Len(rx_buffers[e]) \in Nat
    /\ given[e] \in Nat /\ got[e] \in Seq(Byte) /\ Len(got[e]) \in Nat
    /\ taken[e] \in Nat /\ posted[e] \in Nat /\ taken[e] <= RxNum /\ posted[e] <= RxNum

LEMMA TypedEnd ==
    ASSUME TypeOK, NEW e \in Ends
    PROVE  Typed(e)
<1>1. /\ channel[e] \in Seq(Chunks)
      /\ buffer[e] \in [Chunks -> [1 .. ChunkSize -> Byte]]
      /\ offset[e] \in [Chunks -> 0 .. ChunkSize]
      /\ srq[e] \in Seq(Chunks) /\ sq[e] \in Seq(Request) /\ rxcq[e] \in Seq(RxDone)
      /\ rx_buffers[e] \in Seq(Chunks) /\ given[e] \in Nat /\ got[e] \in Seq(Byte)
      /\ taken[e] \in 0 .. RxNum /\ posted[e] \in 0 .. RxNum
  BY DEF TypeOK
<1>2. /\ Len(channel[e]) \in Nat /\ Len(srq[e]) \in Nat /\ Len(sq[e]) \in Nat /\ Len(rxcq[e]) \in Nat
      /\ Len(rx_buffers[e]) \in Nat /\ Len(got[e]) \in Nat
  BY <1>1, LenProperties
<1>3. taken[e] \in Nat /\ posted[e] \in Nat /\ taken[e] <= RxNum /\ posted[e] <= RxNum
  BY <1>1, Consts
<1> QED  BY <1>1, <1>2, <1>3 DEF Typed

\* The beginning of a chunk.
LEMMA BeginOf ==
    ASSUME NEW s \in [1 .. ChunkSize -> Byte], NEW l \in 0 .. ChunkSize
    PROVE  /\ SubSeq(s, 1, l) \in Seq(Byte) /\ Len(SubSeq(s, 1, l)) = l
           /\ \A k \in 1 .. l : SubSeq(s, 1, l)[k] = s[k]
<1>0. l \in Nat /\ l \in Int /\ 1 \in Int /\ l <= ChunkSize /\ ChunkSize \in Nat
  BY Consts
<1>1. \A k \in 1 .. l : s[k] \in Byte
  <2>1. \A k \in 1 .. l : k \in 1 .. ChunkSize
    BY <1>0
  <2> QED  BY <2>1
<1>2. PICK w : w = SubSeq(s, 1, l)
  OBVIOUS
<1>3. /\ w \in Seq(Byte) /\ Len(w) = IF 1 <= l THEN l - 1 + 1 ELSE 0
      /\ \A k \in 1 .. l - 1 + 1 : w[k] = s[1 + k - 1]
  BY <1>0, <1>1, <1>2, SubSeqProperties
<1>4. Len(w) = l
  BY <1>0, <1>3
<1>5. ASSUME NEW k \in 1 .. l PROVE w[k] = s[k]
  <2>1. k \in 1 .. l - 1 + 1 /\ 1 + k - 1 = k
    BY <1>0
  <2> QED  BY <1>3, <2>1
<1> QED  BY <1>2, <1>3, <1>4, <1>5

\* The parts, one by one.
LEMMA PostedPart ==
    ASSUME TypeOK, NEW e \in Ends, NEW k \in 1 .. Len(sq[e])
    PROVE  /\ Posted(e)[k] = SubSeq(buffer[e][sq[e][k].chunk], 1, sq[e][k].length)
           /\ sq[e][k].chunk \in Chunks /\ sq[e][k].length \in 0 .. ChunkSize
           /\ sq[e][k].length \in Nat
<1>1. Typed(e)
  BY TypedEnd
<1>2. sq[e][k] \in Request
  BY <1>1, ElementOfSeq DEF Typed
<1>3. sq[e][k].chunk \in Chunks /\ sq[e][k].length \in 0 .. ChunkSize
  BY <1>2 DEF Request
<1> QED  BY <1>3, Consts DEF Posted, OnWire

LEMMA ArrivedPart ==
    ASSUME TypeOK, NEW p \in Ends, NEW k \in 1 .. Len(rxcq[p])
    PROVE  /\ Arrived(p)[k] = SubSeq(buffer[p][rxcq[p][k].chunk], 1, rxcq[p][k].byte_len)
           /\ rxcq[p][k].chunk \in Chunks /\ rxcq[p][k].byte_len \in 0 .. ChunkSize
           /\ rxcq[p][k].byte_len \in Nat
<1>1. Typed(p)
  BY TypedEnd
<1>2. rxcq[p][k] \in RxDone
  BY <1>1, ElementOfSeq DEF Typed
<1>3. rxcq[p][k].chunk \in Chunks /\ rxcq[p][k].byte_len \in 0 .. ChunkSize
  BY <1>2 DEF RxDone
<1> QED  BY <1>3, Consts DEF Arrived

LEMMA PartsLen ==
    ASSUME TypeOK, NEW e \in Ends
    PROVE  Len(Posted(e)) = Len(sq[e]) /\ Len(Arrived(e)) = Len(rxcq[e])
<1>1. Len(sq[e]) \in Nat /\ Len(rxcq[e]) \in Nat
  BY TypedEnd DEF Typed
<1>2. PICK f, g : f = Posted(e) /\ g = Arrived(e)
  OBVIOUS
<1>3. f = [k \in 1 .. Len(sq[e]) |-> f[k]] /\ g = [k \in 1 .. Len(rxcq[e]) |-> g[k]]
  BY <1>2 DEF Posted, Arrived
<1>4. Len(f) = Len(sq[e]) /\ Len(g) = Len(rxcq[e])
  BY <1>1, <1>3, IsSeqMade
<1> QED  BY <1>2, <1>4

\* Counting on behind the first m.
LEMMA Behind ==
    ASSUME NEW m \in Nat, NEW n \in Nat
    PROVE  /\ 1 \in 1 .. n + 1 /\ n + 1 \in 1 .. n + 1 /\ m + (n + 1) = (m + n) + 1
           /\ \A k \in 1 .. n + 1 : m + k \in 1 .. (m + n) + 1
  OBVIOUS

LEMMA BehindEach ==
    ASSUME NEW m \in Nat, NEW n \in Nat
    PROVE  \A k \in 1 .. n : /\ k \in 1 .. n + 1 /\ k + 1 \in 1 .. n + 1 /\ m + k \in 1 .. m + n
                             /\ ~(m + k <= m) /\ (m + k) - m = k /\ m + (k + 1) = (m + k) + 1
  OBVIOUS

\* What arrived, and what is posted, as chains of their own.
LEMMA WaySplits ==
    ASSUME TypeOK, NEW e \in Ends, NEW st, IsChain(st, Way(e), OnWay(e), e), NEW m \in Nat,
           m = Len(rxcq[Peer[e]])
    PROVE  /\ IsChain(st, Arrived(Peer[e]), m, e)
           /\ Unread(Peer[e]) = Run(e, st[1], st[m + 1]) /\ st[1] <= st[m + 1]
           /\ st[1] \in Nat /\ st[m + 1] \in Nat
           /\ ~broken => /\ InFlight(e) = Run(e, st[m + 1], st[OnWay(e) + 1])
                         /\ st[m + 1] <= st[OnWay(e) + 1] /\ st[OnWay(e) + 1] \in Nat
<1>0. Peer[e] \in Ends
  BY Consts
<1>1. PICK n \in Nat : n = Len(sq[e])
  BY TypedEnd DEF Typed
<1>2. PICK N \in Nat : N = OnWay(e) /\ N >= m /\ (~broken => N = m + n)
  <2>1. m + 0 = m /\ m + n \in Nat /\ m + n >= m
    OBVIOUS
  <2>2. OnWay(e) = IF broken THEN m ELSE m + n
    BY <1>1, <2>1 DEF OnWay
  <2> QED  BY <2>1, <2>2
<1>3. /\ \A k \in 1 .. N + 1 : st[k] \in Nat
      /\ \A k \in 1 .. N : st[k] <= st[k + 1] /\ Way(e)[k] = Run(e, st[k], st[k + 1])
  BY <1>2 DEF IsChain
<1>4. \A k \in 1 .. N : Way(e)[k] = IF k <= m THEN Arrived(Peer[e])[k] ELSE Posted(e)[k - m]
  BY <1>2 DEF Way
<1>5. IsChain(st, Arrived(Peer[e]), m, e)
  <2>1. \A k \in 1 .. m + 1 : k \in 1 .. N + 1
    BY <1>2
  <2>2. \A k \in 1 .. m : k \in 1 .. N /\ k <= m
    BY <1>2
  <2> QED  BY <1>3, <1>4, <2>1, <2>2 DEF IsChain
<1>6. Unread(Peer[e]) = Run(e, st[1], st[m + 1]) /\ st[1] <= st[m + 1]
  <2>1. m = Len(Arrived(Peer[e]))
    BY <1>0, PartsLen
  <2> QED  BY <1>5, <2>1, JoinedRun DEF Unread
<1>7. st[1] \in Nat /\ st[m + 1] \in Nat
  <2>1. 1 \in 1 .. N + 1 /\ m + 1 \in 1 .. N + 1
    BY <1>2
  <2> QED  BY <1>3, <2>1
<1>8. ASSUME ~broken
      PROVE  /\ InFlight(e) = Run(e, st[m + 1], st[N + 1])
             /\ st[m + 1] <= st[N + 1] /\ st[N + 1] \in Nat
  <2>1. N = m + n
    BY <1>2, <1>8
  <2> DEFINE sf == [k \in 1 .. n + 1 |-> st[m + k]]
  <2>10. \A k \in 1 .. n + 1 : sf[k] = st[m + k]
    OBVIOUS
  <2> HIDE DEF sf
  <2>11. ASSUME NEW k \in 1 .. n + 1 PROVE m + k \in 1 .. N + 1
    <3>1. m + k \in 1 .. (m + n) + 1
      BY Behind
    <3> QED  BY <2>1, <3>1
  <2>2. \A k \in 1 .. n + 1 : sf[k] = st[m + k] /\ m + k \in 1 .. N + 1
    BY <2>10, <2>11
  <2>3. \A k \in 1 .. n : /\ k \in 1 .. n + 1 /\ k + 1 \in 1 .. n + 1 /\ m + k \in 1 .. N
                          /\ ~(m + k <= m) /\ (m + k) - m = k /\ m + (k + 1) = (m + k) + 1
    <3>1. \A k \in 1 .. n : /\ k \in 1 .. n + 1 /\ k + 1 \in 1 .. n + 1 /\ m + k \in 1 .. m + n
                            /\ ~(m + k <= m) /\ (m + k) - m = k /\ m + (k + 1) = (m + k) + 1
      BY BehindEach, Zenon
    <3> QED  BY <2>1, <3>1, Zenon
  <2>4. IsChain(sf, Posted(e), n, e)
    <3>1. \A k \in 1 .. n + 1 : sf[k] \in Nat
      BY <1>3, <2>2
    <3>2. ASSUME NEW k \in 1 .. n
          PROVE  sf[k] <= sf[k + 1] /\ Posted(e)[k] = Run(e, sf[k], sf[k + 1])
      <4>1. sf[k] = st[m + k] /\ sf[k + 1] = st[(m + k) + 1] /\ m + k \in 1 .. N
        <5>1. /\ k \in 1 .. n + 1 /\ k + 1 \in 1 .. n + 1 /\ m + k \in 1 .. N
              /\ m + (k + 1) = (m + k) + 1
          BY <2>3, Zenon
        <5>2. sf[k] = st[m + k] /\ sf[k + 1] = st[m + (k + 1)]
          BY <2>2, <5>1, Zenon
        <5> QED  BY <5>1, <5>2, Zenon
      <4>2. Way(e)[m + k] = Posted(e)[k]
        BY <1>4, <2>3
      <4> QED  BY <1>3, <4>1, <4>2
    <3> QED  BY <3>1, <3>2 DEF IsChain
  <2>5. InFlight(e) = Run(e, sf[1], sf[n + 1]) /\ sf[1] <= sf[n + 1]
    <3>1. n = Len(Posted(e))
      BY <1>1, PartsLen
    <3> QED  BY <2>4, <3>1, JoinedRun DEF InFlight
  <2>6. sf[1] = st[m + 1] /\ sf[n + 1] = st[N + 1]
    <3>1. 1 \in 1 .. n + 1 /\ n + 1 \in 1 .. n + 1 /\ m + 1 = m + 1 /\ m + (n + 1) = N + 1
      BY <2>1, Behind
    <3>2. sf[1] = st[m + 1] /\ sf[n + 1] = st[m + (n + 1)]
      BY <2>10, <3>1, Zenon
    <3> QED  BY <3>1, <3>2, Zenon
  <2>7. st[N + 1] \in Nat
    BY <1>2, <1>3
  <2> QED  BY <2>5, <2>6, <2>7
<1> QED  BY <1>2, <1>5, <1>6, <1>7, <1>8

LEMMA StreamRun ==
    ASSUME NEW e \in Ends, given[e] \in Nat
    PROVE  Stream(e) = Run(e, 0, given[e])
<1>1. given[e] - 0 = given[e] /\ \A k \in 1 .. given[e] : 0 + k = k
  OBVIOUS
<1> QED  BY <1>1 DEF Stream, Run

LEMMA FlowIntact == FlowInv => StreamIntact
<1> SUFFICES ASSUME FlowInv, NEW e \in Ends, Fresh(e), Fresh(Peer[e]), ~Torn(e), rx_buffers[Peer[e]] = <<>>
             PROVE  IF broken THEN IsPrefix(got[Peer[e]] \o Unread(Peer[e]), Stream(e))
                              ELSE (got[Peer[e]] \o Unread(Peer[e])) \o InFlight(e) = Stream(e)
  BY DEF StreamIntact
<1>0. TypeOK /\ Flows(e) /\ Peer[e] \in Ends /\ given[e] \in Nat
  BY Consts, TypedEnd DEF FlowInv, Typed
<1>1. PICK st : /\ IsChain(st, Way(e), OnWay(e), e)
                /\ IF broken THEN st[OnWay(e) + 1] <= given[e] ELSE st[OnWay(e) + 1] = given[e]
                /\ HasRead(e, st[1])
  BY <1>0 DEF Flows
<1>2. PICK m \in Nat : m = Len(rxcq[Peer[e]])
  BY <1>0, TypedEnd DEF Typed
<1>3. /\ Unread(Peer[e]) = Run(e, st[1], st[m + 1]) /\ st[1] <= st[m + 1]
      /\ st[1] \in Nat /\ st[m + 1] \in Nat
      /\ ~broken => /\ InFlight(e) = Run(e, st[m + 1], st[OnWay(e) + 1])
                    /\ st[m + 1] <= st[OnWay(e) + 1] /\ st[OnWay(e) + 1] \in Nat
  BY <1>0, <1>1, <1>2, WaySplits
<1>4. PICK a \in Nat, b \in Nat : a = st[1] /\ b = st[m + 1]
  BY <1>3
<1>5. got[Peer[e]] = Run(e, 0, a)
  BY <1>1, <1>4 DEF HasRead
<1>6. got[Peer[e]] \o Unread(Peer[e]) = Run(e, 0, b)
  <2>1. 0 \in Nat /\ 0 <= a /\ a <= b
    BY <1>3, <1>4
  <2>2. Run(e, 0, a) \o Run(e, a, b) = Run(e, 0, b)
    BY <2>1, RunGoesOn
  <2> QED  BY <1>3, <1>4, <1>5, <2>2
<1>7. CASE ~broken
  <2>0. PICK c \in Nat : c = st[OnWay(e) + 1]
    BY <1>3, <1>7
  <2>1. b <= c /\ 0 <= b /\ 0 \in Nat /\ InFlight(e) = Run(e, b, c) /\ c = given[e]
    BY <1>1, <1>3, <1>4, <1>7, <2>0
  <2>2. Run(e, 0, b) \o Run(e, b, c) = Run(e, 0, c)
    BY <2>1, RunGoesOn
  <2> QED  BY <1>0, <1>6, <1>7, <2>1, <2>2, StreamRun
<1>8. CASE broken
  <2>1. OnWay(e) = m
    BY <1>2, <1>8 DEF OnWay
  <2>2. b <= given[e]
    BY <1>1, <1>4, <1>8, <2>1
  <2>3. PICK s, t : s = Run(e, 0, b) /\ t = Run(e, 0, given[e])
    OBVIOUS
  <2>4. s \in Seq(Byte) /\ Len(s) = b /\ t \in Seq(Byte) /\ Len(t) = given[e]
    <3>1. 0 \in Nat /\ 0 <= b /\ 0 <= given[e] /\ b - 0 = b /\ given[e] - 0 = given[e]
      BY <1>0
    <3> QED  BY <1>0, <2>3, <3>1, RunSeq
  <2>5. SubSeq(s, 1, b) = SubSeq(t, 1, b)
    <3>1. \A k \in 1 .. b : s[k] = t[k] /\ s[k] \in Byte /\ t[k] \in Byte
      <4>1. \A k \in 1 .. b : k \in 1 .. (b - 0) /\ k \in 1 .. (given[e] - 0) /\ k \in 1 .. given[e]
        BY <1>0, <2>2
      <4>2. \A k \in 1 .. b : s[k] = t[k]
        BY <2>3, <4>1 DEF Run
      <4> QED  BY <2>4, <4>1, <4>2, ElementOfSeq
    <3>2. PICK u, v : u = SubSeq(s, 1, b) /\ v = SubSeq(t, 1, b)
      OBVIOUS
    <3>3. /\ u \in Seq(Byte) /\ Len(u) = (IF 1 <= b THEN b - 1 + 1 ELSE 0)
          /\ \A k \in 1 .. b - 1 + 1 : u[k] = s[1 + k - 1]
      BY <3>1, <3>2, SubSeqProperties
    <3>4. /\ v \in Seq(Byte) /\ Len(v) = (IF 1 <= b THEN b - 1 + 1 ELSE 0)
          /\ \A k \in 1 .. b - 1 + 1 : v[k] = t[1 + k - 1]
      BY <3>1, <3>2, SubSeqProperties
    <3>5. Len(u) = b /\ Len(v) = b /\ \A k \in 1 .. b : k \in 1 .. b - 1 + 1 /\ 1 + k - 1 = k
      BY <3>3, <3>4
    <3>6. u = v
      BY <3>1, <3>3, <3>4, <3>5, SeqEqual
    <3> QED  BY <3>2, <3>6
  <2>6. IsPrefix(s, t)
    BY <2>2, <2>4, <2>5 DEF IsPrefix
  <2> QED  BY <1>0, <1>6, <1>8, <2>3, <2>6, StreamRun
<1> QED  BY <1>7, <1>8

LEMMA FlowNothingLost == FlowInv => NothingLost
<1> DEFINE held(p) == {rx_buffers[p][k] : k \in DOMAIN rx_buffers[p]}
                          \cup {rxcq[p][k].chunk : k \in DOMAIN rxcq[p]}
<1> SUFFICES ASSUME FlowInv, NEW e \in Ends, Fresh(e), Fresh(Peer[e]), ~Torn(e), ~broken,
                    NEW b \in 1 .. given[e]
             PROVE  \/ <<e, b>> \in ToSet(got[Peer[e]])
                    \/ <<e, b>> \in ToSet(InFlight(e))
                    \/ \E c \in held(Peer[e]) : <<e, b>> \in ToSet(buffer[Peer[e]][c])
  BY DEF NothingLost
<1>0. TypeOK /\ Flows(e) /\ given[e] \in Nat
  BY Consts, TypedEnd DEF FlowInv, Typed
<1>1. PICK st : /\ IsChain(st, Way(e), OnWay(e), e)
                /\ st[OnWay(e) + 1] = given[e]
                /\ HasRead(e, st[1])
  BY <1>0 DEF Flows
<1>2. PICK p \in Ends : p = Peer[e]
  BY Consts
<1>3. PICK m \in Nat : m = Len(rxcq[p])
  BY <1>0, TypedEnd DEF Typed
<1>4. /\ IsChain(st, Arrived(p), m, e) /\ st[1] <= st[m + 1]
      /\ st[1] \in Nat /\ st[m + 1] \in Nat
      /\ InFlight(e) = Run(e, st[m + 1], given[e]) /\ st[m + 1] <= given[e]
  BY <1>0, <1>1, <1>2, <1>3, WaySplits
<1>5. /\ DOMAIN got[p] = 1 .. Len(got[p]) /\ DOMAIN rx_buffers[p] = 1 .. Len(rx_buffers[p])
      /\ DOMAIN rxcq[p] = 1 .. m
  BY <1>0, <1>3, LenProperties, TypedEnd DEF Typed
<1>6. \A c \in Chunks : DOMAIN buffer[p][c] = 1 .. ChunkSize
  BY <1>0, TypedEnd DEF Typed
<1>7. CASE b <= st[1]
  <2>1. Known(p, <<e, b>>)
    <3>1. b \in 1 .. st[1]
      BY <1>0, <1>4, <1>7
    <3> QED  BY <1>1, <1>2, <3>1 DEF HasRead
  <2>2. CASE \E k \in 1 .. Len(got[p]) : got[p][k] = <<e, b>>
    BY <1>2, <1>5, <2>2 DEF ToSet
  <2>3. CASE \E k \in 1 .. Len(rx_buffers[p]) : \E j \in 1 .. ChunkSize :
                buffer[p][rx_buffers[p][k]][j] = <<e, b>>
    <3>1. PICK k \in 1 .. Len(rx_buffers[p]) : \E j \in 1 .. ChunkSize :
                buffer[p][rx_buffers[p][k]][j] = <<e, b>>
      BY <2>3
    <3>2. PICK c \in Chunks : c = rx_buffers[p][k]
      BY <1>0, TypedEnd, ElementOfSeq DEF Typed
    <3>3. c \in held(p)
      BY <1>5, <3>2
    <3>4. <<e, b>> \in ToSet(buffer[p][c])
      BY <1>6, <3>1, <3>2 DEF ToSet
    <3> QED  BY <1>2, <3>3, <3>4
  <2> QED  BY <2>1, <2>2, <2>3 DEF Known
<1>8. CASE st[m + 1] < b
  <2>1. PICK a \in Nat : a = st[m + 1]
    BY <1>4
  <2>2. b - a \in 1 .. (given[e] - a) /\ a + (b - a) = b
    BY <1>0, <1>8, <2>1
  <2>3. PICK f : f = Run(e, a, given[e])
    OBVIOUS
  <2>4. f[b - a] = <<e, b>> /\ DOMAIN f = 1 .. (given[e] - a)
    BY <2>2, <2>3 DEF Run
  <2>5. <<e, b>> \in ToSet(f)
    BY <2>2, <2>4 DEF ToSet
  <2> QED  BY <1>4, <2>1, <2>3, <2>5
<1>9. CASE ~(b <= st[1]) /\ ~(st[m + 1] < b)
  <2> DEFINE G == {n \in 0 .. m : b <= st[n + 1] => \E k \in 1 .. n : st[k] < b /\ b <= st[k + 1]}
  <2>1. 0 \in G
    <3>1. 0 + 1 = 1 /\ 0 \in 0 .. m
      OBVIOUS
    <3> QED  BY <1>9, <3>1
  <2>2. ASSUME NEW n \in 1 .. m, n - 1 \in G PROVE n \in G
    <3>1. (n - 1) + 1 = n /\ n \in 0 .. m /\ n \in 1 .. m + 1 /\ n \in 1 .. n
      OBVIOUS
    <3>2. b <= st[n] => \E k \in 1 .. (n - 1) : st[k] < b /\ b <= st[k + 1]
      BY <2>2, <3>1
    <3>3. \A k \in 1 .. (n - 1) : k \in 1 .. n
      OBVIOUS
    <3>4. st[n] \in Nat
      BY <1>4, <3>1 DEF IsChain
    <3>5. b <= st[n] \/ st[n] < b
      BY <1>0, <3>4
    <3>6. b <= st[n + 1] => \E k \in 1 .. n : st[k] < b /\ b <= st[k + 1]
      <4> HIDE DEF G
      <4> QED  BY <3>1, <3>2, <3>3, <3>5
    <3> QED  BY <3>1, <3>6
  <2>3. m \in 0 .. m
    OBVIOUS
  <2>4. m \in G
    <3> HIDE DEF G
    <3> QED  BY <2>1, <2>2, <2>3, StepByStep
  <2>5. b <= st[m + 1]
    BY <1>0, <1>4, <1>9
  <2>6. PICK k \in 1 .. m : st[k] < b /\ b <= st[k + 1]
    BY <2>4, <2>5
  <2> HIDE DEF G
  <2>7. PICK x \in Nat, y \in Nat : x = st[k] /\ y = st[k + 1] /\ Arrived(p)[k] = Run(e, x, y)
    <3>1. k \in 1 .. m + 1 /\ k + 1 \in 1 .. m + 1
      OBVIOUS
    <3> QED  BY <1>4, <3>1 DEF IsChain
  <2>8. PICK c \in Chunks, l \in 0 .. ChunkSize :
           c = rxcq[p][k].chunk /\ l = rxcq[p][k].byte_len
           /\ Arrived(p)[k] = SubSeq(buffer[p][c], 1, l)
    BY <1>0, <1>3, ArrivedPart
  <2>9. PICK j : j = b - x
    OBVIOUS
  <2>10. j \in 1 .. (y - x) /\ x + j = b
    BY <1>0, <2>6, <2>7, <2>9
  <2>11. Arrived(p)[k][j] = <<e, b>> /\ Len(Arrived(p)[k]) = y - x
    <3>1. x <= y
      BY <1>0, <2>6, <2>7
    <3>2. Len(Run(e, x, y)) = y - x
      BY <3>1, RunSeq
    <3>3. Run(e, x, y)[j] = <<e, b>>
      BY <2>10 DEF Run
    <3> QED  BY <2>7, <3>2, <3>3
  <2>12. /\ Len(SubSeq(buffer[p][c], 1, l)) = l
         /\ \A i \in 1 .. l : SubSeq(buffer[p][c], 1, l)[i] = buffer[p][c][i]
    <3>1. buffer[p][c] \in [1 .. ChunkSize -> Byte]
      BY <1>0, TypedEnd DEF Typed
    <3> QED  BY <3>1, BeginOf
  <2>13. l = y - x /\ j \in 1 .. ChunkSize
    <3>1. l = y - x
      BY <2>8, <2>11, <2>12
    <3> QED  BY <2>10, <3>1, Consts
  <2>14. buffer[p][c][j] = <<e, b>>
    BY <2>8, <2>10, <2>11, <2>12, <2>13
  <2>15. <<e, b>> \in ToSet(buffer[p][c])
    BY <1>6, <2>13, <2>14 DEF ToSet
  <2>16. c \in held(p)
    BY <1>5, <2>8
  <2> QED  BY <1>2, <2>15, <2>16
<1> QED  BY <1>7, <1>8, <1>9

\* The parts on their way, one by one.
WayIs(e, p, m, n) ==
    m \in Nat /\ n \in Nat /\ p = Peer[e] /\ m = Len(rxcq[p]) /\ n = Len(sq[e]) =>
        /\ OnWay(e) \in Nat /\ OnWay(e) = IF broken THEN m ELSE m + n
        /\ \A k \in 1 .. m : Way(e)[k] = SubSeq(buffer[p][rxcq[p][k].chunk], 1, rxcq[p][k].byte_len)
        /\ ~broken => \A k \in 1 .. n :
                         Way(e)[m + k] = SubSeq(buffer[e][sq[e][k].chunk], 1, sq[e][k].length)

LEMMA Adds ==
    ASSUME NEW m \in Nat, NEW n \in Nat
    PROVE  m + 0 = m /\ m + n \in Nat /\ m <= m + n /\ m <= m
  OBVIOUS

LEMMA Within ==
    ASSUME NEW m \in Nat, NEW n \in Nat, m <= n, NEW k \in 1 .. m
    PROVE  k \in 1 .. n /\ k <= m
  OBVIOUS

IsPast(m, n, k) == m + k \in 1 .. m + n /\ ~(m + k <= m) /\ (m + k) - m = k
LEMMA PastFirst ==
    ASSUME NEW m \in Nat, NEW n \in Nat, NEW k \in 1 .. n
    PROVE  IsPast(m, n, k)
  BY DEF IsPast

LEMMA WayParts == \A e, p, m, n : WayIs(e, p, m, n)
<1> TAKE e, p, m, n
<1> SUFFICES ASSUME m \in Nat, n \in Nat, p = Peer[e], m = Len(rxcq[p]), n = Len(sq[e])
             PROVE  /\ OnWay(e) \in Nat /\ OnWay(e) = IF broken THEN m ELSE m + n
                    /\ \A k \in 1 .. m : Way(e)[k] = SubSeq(buffer[p][rxcq[p][k].chunk], 1, rxcq[p][k].byte_len)
                    /\ ~broken => \A k \in 1 .. n :
                         Way(e)[m + k] = SubSeq(buffer[e][sq[e][k].chunk], 1, sq[e][k].length)
  BY Zenon DEF WayIs
<1>1. OnWay(e) \in Nat /\ OnWay(e) = (IF broken THEN m ELSE m + n) /\ m <= OnWay(e)
  <2>1. m + 0 = m /\ m + n \in Nat /\ m <= m + n /\ m <= m
    BY Adds, Zenon
  <2> QED  BY <2>1 DEF OnWay
<1>2. \A k \in 1 .. OnWay(e) : Way(e)[k] = IF k <= m THEN Arrived(p)[k] ELSE Posted(e)[k - m]
  BY DEF Way
<1>3. ASSUME NEW k \in 1 .. m
      PROVE  Way(e)[k] = SubSeq(buffer[p][rxcq[p][k].chunk], 1, rxcq[p][k].byte_len)
  <2>1. k \in 1 .. OnWay(e) /\ k <= m
    BY <1>1, Within, Zenon
  <2> QED  BY <1>2, <2>1 DEF Arrived
<1>4. ASSUME ~broken, NEW k \in 1 .. n
      PROVE  Way(e)[m + k] = SubSeq(buffer[e][sq[e][k].chunk], 1, sq[e][k].length)
  <2>0. IsPast(m, n, k)
    BY PastFirst, Zenon
  <2>1. m + k \in 1 .. m + n /\ ~(m + k <= m) /\ (m + k) - m = k
    BY <2>0, Zenon DEF IsPast
  <2>2. Way(e)[m + k] = Posted(e)[k]
    BY <1>1, <1>2, <1>4, <2>1
  <2> QED  BY <2>2 DEF Posted, OnWire
<1> QED  BY <1>1, <1>3, <1>4

LEMMA WayPartsNext == (\A e, p, m, n : WayIs(e, p, m, n))'
  BY WayParts, PTL

LEMMA TypedEnds == TypeOK => \A d \in Ends : Typed(d)
  BY TypedEnd

LEMMA TypedEndsNext == (TypeOK => \A d \in Ends : Typed(d))'
  BY TypedEnds, PTL

\* A part without bytes is empty, wherever it is.
LEMMA EmptyPart ==
    ASSUME NEW s \in [1 .. ChunkSize -> Byte]
    PROVE  SubSeq(s, 1, 0) = <<>>
<1>1. 0 \in 0 .. ChunkSize
  BY Consts
<1>2. SubSeq(s, 1, 0) \in Seq(Byte) /\ Len(SubSeq(s, 1, 0)) = 0
  BY <1>1, BeginOf
<1> QED  BY <1>2, EmptySeq

LEMMA EmptyRun ==
    ASSUME NEW e \in Ends, NEW a \in Nat
    PROVE  Run(e, a, a) = <<>>
<1>1. a <= a /\ a - a = 0
  OBVIOUS
<1>2. Run(e, a, a) \in Seq(Byte) /\ Len(Run(e, a, a)) = 0
  BY <1>1, RunSeq
<1> QED  BY <1>2, EmptySeq

LEMMA PartSame ==
    ASSUME NEW s \in [1 .. ChunkSize -> Byte], NEW s2 \in [1 .. ChunkSize -> Byte], NEW l \in 0 .. ChunkSize,
           l > 0 => s2 = s
    PROVE  SubSeq(s2, 1, l) = SubSeq(s, 1, l)
<1>1. CASE l = 0
  BY <1>1, EmptyPart
<1>2. CASE l # 0
  <2>1. l > 0
    BY <1>2, Consts
  <2> QED  BY <2>1
<1> QED  BY <1>1, <1>2

LEMMA ChainSame ==
    ASSUME NEW st, NEW n, NEW e, NEW parts, NEW parts2, \A k \in 1 .. n : parts2[k] = parts[k],
           IsChain(st, parts, n, e)
    PROVE  IsChain(st, parts2, n, e)
  BY DEF IsChain

\* A step that leaves alone what e has read and kept.
LEMMA HasReadFrame ==
    ASSUME NEW e, NEW p, p = Peer[e], got'[p] = got[p], rx_buffers'[p] = rx_buffers[p],
           \A k \in 1 .. Len(rx_buffers[p]) : buffer'[p][rx_buffers[p][k]] = buffer[p][rx_buffers[p][k]],
           NEW a, HasRead(e, a)
    PROVE  HasRead(e, a)'
<1>1. \A b : Known(p, b) => Known(p, b)'
  BY DEF Known
<1>2. rx_buffers'[p] = <<>> => got'[p] = Run(e, 0, a)
  BY DEF HasRead
<1>3. \A k \in 1 .. a : Known(p, <<e, k>>)'
  BY <1>1, Zenon DEF HasRead
<1> QED  BY <1>2, <1>3 DEF HasRead, Run

\* Requests and completions name chunks, and buffers hold bytes.
LEMMA Parts ==
    TypeOK => \A e \in Ends :
        /\ \A k \in 1 .. Len(sq[e]) :
              /\ sq[e][k].chunk \in Chunks /\ sq[e][k].length \in 0 .. ChunkSize
              /\ buffer[e][sq[e][k].chunk] \in [1 .. ChunkSize -> Byte]
        /\ \A k \in 1 .. Len(rxcq[e]) :
              /\ rxcq[e][k].chunk \in Chunks /\ rxcq[e][k].byte_len \in 0 .. ChunkSize
              /\ buffer[e][rxcq[e][k].chunk] \in [1 .. ChunkSize -> Byte]
        /\ \A k \in 1 .. Len(rx_buffers[e]) : rx_buffers[e][k] \in Chunks
<1> SUFFICES ASSUME TypeOK, NEW e \in Ends
             PROVE  /\ \A k \in 1 .. Len(sq[e]) :
                          /\ sq[e][k].chunk \in Chunks /\ sq[e][k].length \in 0 .. ChunkSize
                          /\ buffer[e][sq[e][k].chunk] \in [1 .. ChunkSize -> Byte]
                    /\ \A k \in 1 .. Len(rxcq[e]) :
                          /\ rxcq[e][k].chunk \in Chunks /\ rxcq[e][k].byte_len \in 0 .. ChunkSize
                          /\ buffer[e][rxcq[e][k].chunk] \in [1 .. ChunkSize -> Byte]
                    /\ \A k \in 1 .. Len(rx_buffers[e]) : rx_buffers[e][k] \in Chunks
  OBVIOUS
<1>1. \A c \in Chunks : buffer[e][c] \in [1 .. ChunkSize -> Byte]
  BY TypedEnd DEF Typed
<1>2. \A k \in 1 .. Len(rx_buffers[e]) : rx_buffers[e][k] \in Chunks
  BY TypedEnd, ElementOfSeq DEF Typed
<1> QED  BY <1>1, <1>2, PostedPart, ArrivedPart

LEMMA PartsNext ==
    (TypeOK => \A e \in Ends :
        /\ \A k \in 1 .. Len(sq[e]) :
              /\ sq[e][k].chunk \in Chunks /\ sq[e][k].length \in 0 .. ChunkSize
              /\ buffer[e][sq[e][k].chunk] \in [1 .. ChunkSize -> Byte]
        /\ \A k \in 1 .. Len(rxcq[e]) :
              /\ rxcq[e][k].chunk \in Chunks /\ rxcq[e][k].byte_len \in 0 .. ChunkSize
              /\ buffer[e][rxcq[e][k].chunk] \in [1 .. ChunkSize -> Byte]
        /\ \A k \in 1 .. Len(rx_buffers[e]) : rx_buffers[e][k] \in Chunks)'
  BY Parts, PTL

\* A step that leaves alone the bytes that are on their way from e, in whatever chunks.
LEMMA FlowsFrame ==
    ASSUME TypeOK, TypeOK', NEW e \in Ends, NEW p \in Ends, p = Peer[e], Flows(e),
           broken' = broken, given'[e] = given[e], sq'[e] = sq[e], rxcq'[p] = rxcq[p],
           rx_buffers'[p] = rx_buffers[p], got'[p] = got[p],
           \A k \in 1 .. Len(rxcq[p]) : buffer'[p][rxcq[p][k].chunk] = buffer[p][rxcq[p][k].chunk],
           \A k \in 1 .. Len(rx_buffers[p]) : buffer'[p][rx_buffers[p][k]] = buffer[p][rx_buffers[p][k]],
           \A k \in 1 .. Len(sq[e]) : sq[e][k].length > 0 => buffer'[e][sq[e][k].chunk] = buffer[e][sq[e][k].chunk]
    PROVE  Flows(e)'
<1>1. PICK m \in Nat, n \in Nat : m = Len(rxcq[p]) /\ n = Len(sq[e])
  BY TypedEnds DEF Typed
<1>2. PICK st : /\ IsChain(st, Way(e), OnWay(e), e)
                /\ IF broken THEN st[OnWay(e) + 1] <= given[e] ELSE st[OnWay(e) + 1] = given[e]
                /\ HasRead(e, st[1])
  BY DEF Flows
<1>3. /\ OnWay(e) \in Nat /\ OnWay(e) = IF broken THEN m ELSE m + n
      /\ \A k \in 1 .. m : Way(e)[k] = SubSeq(buffer[p][rxcq[p][k].chunk], 1, rxcq[p][k].byte_len)
      /\ ~broken => \A k \in 1 .. n :
            Way(e)[m + k] = SubSeq(buffer[e][sq[e][k].chunk], 1, sq[e][k].length)
  <2>1. WayIs(e, p, m, n)
    BY WayParts, Zenon
  <2> QED  BY <1>1, <2>1, Zenon DEF WayIs
<1>4. /\ OnWay(e)' = IF broken THEN m ELSE m + n
      /\ \A k \in 1 .. m : Way(e)'[k] = SubSeq(buffer'[p][rxcq[p][k].chunk], 1, rxcq[p][k].byte_len)
      /\ ~broken => \A k \in 1 .. n :
            Way(e)'[m + k] = SubSeq(buffer'[e][sq[e][k].chunk], 1, sq[e][k].length)
  <2>1. WayIs(e, p, m, n)'
    BY WayPartsNext, Zenon
  <2>2. m = Len(rxcq'[p]) /\ n = Len(sq'[e])
    BY <1>1
  <2> QED  BY <2>1, <2>2 DEF WayIs
<1>5. ASSUME NEW k \in 1 .. OnWay(e) PROVE Way(e)'[k] = Way(e)[k]
  <2>1. CASE k <= m
    <3>1. k \in 1 .. m
      BY <1>3, <2>1
    <3>2. buffer'[p][rxcq[p][k].chunk] = buffer[p][rxcq[p][k].chunk]
      BY <1>1, <3>1
    <3>3. /\ Way(e)[k] = SubSeq(buffer[p][rxcq[p][k].chunk], 1, rxcq[p][k].byte_len)
          /\ Way(e)'[k] = SubSeq(buffer'[p][rxcq[p][k].chunk], 1, rxcq[p][k].byte_len)
      BY <1>3, <1>4, <3>1, Zenon
    <3> QED  BY <3>2, <3>3, Zenon
  <2>2. CASE ~(k <= m)
    <3>1. ~broken
      BY <1>3, <2>2
    <3>2. k - m \in 1 .. n /\ m + (k - m) = k
      <4>1. k \in 1 .. (m + n)
        BY <1>3, <3>1
      <4> QED  BY <2>2, <4>1
    <3>3. PICK j \in 1 .. n : k = m + j
      BY <3>2
    <3>4. SubSeq(buffer'[e][sq[e][j].chunk], 1, sq[e][j].length) = SubSeq(buffer[e][sq[e][j].chunk], 1, sq[e][j].length)
      <4>1. /\ sq[e][j].length \in 0 .. ChunkSize
            /\ buffer[e][sq[e][j].chunk] \in [1 .. ChunkSize -> Byte]
        BY <1>1, Parts
      <4>2. buffer'[e][sq[e][j].chunk] \in [1 .. ChunkSize -> Byte]
        BY <1>1, PartsNext
      <4>3. sq[e][j].length > 0 => buffer'[e][sq[e][j].chunk] = buffer[e][sq[e][j].chunk]
        BY <1>1
      <4> QED  BY <4>1, <4>2, <4>3, PartSame
    <3>5. /\ Way(e)[m + j] = SubSeq(buffer[e][sq[e][j].chunk], 1, sq[e][j].length)
          /\ Way(e)'[m + j] = SubSeq(buffer'[e][sq[e][j].chunk], 1, sq[e][j].length)
      BY <1>3, <1>4, <3>1, Zenon
    <3> QED  BY <3>3, <3>4, <3>5, Zenon
  <2> QED  BY <2>1, <2>2
<1>6. OnWay(e)' = OnWay(e)
  BY <1>3, <1>4
<1>7. IsChain(st, Way(e)', OnWay(e), e)
  BY <1>2, <1>5, ChainSame
<1>8. HasRead(e, st[1])'
  BY <1>2, HasReadFrame
<1>9. IsChain(st, Way(e), OnWay(e), e)'
  BY <1>6, <1>7, Zenon DEF IsChain, Run
<1> QED  BY <1>2, <1>6, <1>8, <1>9 DEF Flows

-----------------------------------------------------------------------------
(* The invariant holds at the start.                                        *)

LEMMA InitTypeOK == Init => TypeOK
<1> SUFFICES ASSUME Init PROVE TypeOK
  OBVIOUS
<1>0. ChunkSize \in Nat /\ RxNum \in Nat /\ MaxEmpty \in Nat
  BY DataPathAssumption
<1> DEFINE all == [k \in 1 .. RxNum |-> k]
<1>1. all \in Seq(Chunks) /\ Len(all) = RxNum /\ \A k \in 1 .. RxNum : all[k] = k
  <2>1. all \in [1 .. RxNum -> Chunks]
    BY DEF Chunks
  <2>2. \A k \in 1 .. RxNum : all[k] = k
    OBVIOUS
  <2> HIDE DEF all
  <2>3. all \in Seq(Chunks)
    BY <1>0, <2>1, SeqDef
  <2>4. Len(all) = RxNum
    BY <1>0, <2>1, <2>3, LenProperties
  <2> QED  BY <2>2, <2>3, <2>4
<1>2. \A e \in Ends : channel[e] = all
  BY DEF Init
<1> HIDE DEF all
<1>3. channel \in [Ends -> Seq(Chunks)]
  <2>1. channel = [e \in Ends |-> channel[e]]
    BY DEF Init
  <2> QED  BY <1>1, <1>2, <2>1
<1>4. srq \in [Ends -> Seq(Chunks)]
  <2>1. \A e \in Ends : srq[e] = SubSeq(channel[e], 1, posted[e]) /\ posted[e] \in 0 .. RxNum
    BY DEF Init, PostChannelCluster
  <2>2. ASSUME NEW e \in Ends PROVE srq[e] \in Seq(Chunks)
    <3>1. PICK q \in 0 .. RxNum : q = posted[e] /\ srq[e] = SubSeq(all, 1, q)
      BY <1>2, <2>1
    <3>2. q \in Nat /\ q \in Int /\ 1 \in Int /\ \A k \in 1 .. q : k \in 1 .. RxNum
      BY <1>0
    <3>3. \A k \in 1 .. q : all[k] \in Chunks
      BY <1>1, <3>2, ElementOfSeq
    <3>4. SubSeq(all, 1, q) \in Seq(Chunks)
      BY <3>2, <3>3, SubSeqProperties
    <3> QED  BY <3>1, <3>4
  <2>3. srq = [e \in Ends |-> srq[e]]
    BY DEF Init
  <2> QED  BY <2>2, <2>3
<1>5. buffer \in [Ends -> [Chunks -> [1 .. ChunkSize -> Byte]]]
  BY DEF Init, Byte
<1>6. offset \in [Ends -> [Chunks -> 0 .. ChunkSize]]
  <2>1. 0 \in 0 .. ChunkSize
    BY <1>0
  <2> QED  BY <2>1 DEF Init
<1>7. /\ \A S : <<>> \in Seq(S)
      /\ 0 \in Nat /\ 0 \in 0 .. RxNum /\ 0 \in 0 .. MaxEmpty
  BY <1>0
<1>8. sq \in [Ends -> Seq(Request)] /\ rxcq \in [Ends -> Seq(RxDone)] /\ rx_buffers \in [Ends -> Seq(Chunks)]
      /\ got \in [Ends -> Seq(Byte)]
  <2>1. \A S : [e \in Ends |-> <<>>] \in [Ends -> Seq(S)]
    BY <1>7
  <2> QED  BY <2>1, Zenon DEF Init
<1>9. /\ given \in [Ends -> Nat] /\ taken \in [Ends -> 0 .. RxNum] /\ empties \in [Ends -> 0 .. MaxEmpty]
      /\ posted \in [Ends -> 0 .. RxNum] /\ event \in [Ends -> BOOLEAN]
  BY <1>7 DEF Init
<1>10. /\ deaf \subseteq Ends /\ refused \subseteq Ends /\ echoed \subseteq Ends
       /\ broken \in BOOLEAN /\ crash \in CrashWay
  BY DEF Init, CrashWay
<1> QED  BY <1>3, <1>4, <1>5, <1>6, <1>8, <1>9, <1>10 DEF TypeOK

LEMMA InitFlowInv == Init => FlowInv
<1> SUFFICES ASSUME Init PROVE FlowInv
  OBVIOUS
<1>0. TypeOK /\ ChunkSize \in Nat /\ RxNum \in Nat /\ CountInv
  BY InitTypeOK, InitCountInv, Consts
<1>1. ASSUME NEW e \in Ends
      PROVE  /\ Len(channel[e]) = RxNum /\ \A k \in 1 .. RxNum : channel[e][k] = k
             /\ taken[e] = 0 /\ posted[e] \in 0 .. RxNum /\ Len(srq[e]) = posted[e]
             /\ \A k \in 1 .. posted[e] : srq[e][k] = k
             /\ sq[e] = <<>> /\ rxcq[e] = <<>> /\ rx_buffers[e] = <<>> /\ got[e] = <<>> /\ given[e] = 0
             /\ \A c \in Chunks : offset[e][c] = 0
  <2>1. /\ taken[e] = 0 /\ posted[e] \in 0 .. RxNum
        /\ channel[e] = [k \in 1 .. RxNum |-> k] /\ srq[e] = SubSeq(channel[e], 1, posted[e])
        /\ sq[e] = <<>> /\ rxcq[e] = <<>> /\ rx_buffers[e] = <<>> /\ got[e] = <<>> /\ given[e] = 0
        /\ \A c \in Chunks : offset[e][c] = 0
    BY DEF Init, PostChannelCluster
  <2>2. \A k \in 1 .. RxNum : channel[e][k] = k
    BY <2>1
  <2>3. Len(channel[e]) = RxNum
    BY <1>0, <2>1 DEF CountInv, Counted
  <2>4. channel[e] \in Seq(Chunks)
    BY <1>0, TypedEnd DEF Typed
  <2>5. PICK q \in Nat : q = posted[e] /\ q <= RxNum
    BY <1>0, <2>1
  <2>6. \A k \in 1 .. q : channel[e][k] \in Chunks /\ k \in 1 .. RxNum
    <3>1. \A k \in 1 .. q : k \in 1 .. RxNum
      BY <1>0, <2>5
    <3> QED  BY <2>3, <2>4, <3>1, ElementOfSeq
  <2>7. PICK w : w = SubSeq(channel[e], 1, q)
    OBVIOUS
  <2>8. /\ w \in Seq(Chunks) /\ Len(w) = (IF 1 <= q THEN q - 1 + 1 ELSE 0)
        /\ \A k \in 1 .. q - 1 + 1 : w[k] = channel[e][1 + k - 1]
    <3>1. 1 \in Int /\ q \in Int
      OBVIOUS
    <3> QED  BY <2>6, <2>7, <3>1, SubSeqProperties
  <2>9. (IF 1 <= q THEN q - 1 + 1 ELSE 0) = q /\ \A k \in 1 .. q : k \in 1 .. q - 1 + 1 /\ 1 + k - 1 = k
    OBVIOUS
  <2>10. Len(w) = q /\ \A k \in 1 .. q : w[k] = channel[e][k]
    BY <2>8, <2>9
  <2> QED  BY <2>1, <2>2, <2>3, <2>5, <2>6, <2>7, <2>10
<1>2. Len(<<>>) = 0
  OBVIOUS
<1>3. ASSUME NEW e \in Ends PROVE InPlace(e) /\ Unmoved(e) /\ OwnChunks(e)
  <2>1. UsedUp(e) = 0 /\ DoneWith(e) = 0
    BY <1>0, <1>1, <1>2 DEF UsedUp, DoneWith
  <2>2. /\ taken[e] <= RxNum /\ RxNum - taken[e] = RxNum /\ \A k \in 1 .. posted[e] : 0 + k = k
        /\ \A k \in 1 .. 0 : FALSE
    BY <1>0, <1>1
  <2>3. InPlace(e)
    BY <1>0, <1>1, <1>2, <2>1, <2>2 DEF InPlace
  <2> QED  BY <1>1, <1>2, <2>2, <2>3 DEF Unmoved, OwnChunks
<1>4. ASSUME NEW e \in Ends PROVE Flows(e)
  <2>1. PICK p \in Ends : p = Peer[e]
    BY Consts
  <2>2. OnWay(e) = 0
    <3>1. broken = FALSE /\ Len(rxcq[p]) = 0 /\ Len(sq[e]) = 0 /\ 0 + 0 = 0
      BY <1>1, <1>2 DEF Init
    <3> QED  BY <2>1, <3>1, Zenon DEF OnWay
  <2> DEFINE st == [k \in 1 .. 1 |-> 0]
  <2>3. st[1] = 0
    OBVIOUS
  <2> HIDE DEF st
  <2>4. \A k \in 1 .. 0 + 1 : k = 1
    OBVIOUS
  <2>5. \A k \in 1 .. 0 : FALSE
    OBVIOUS
  <2>6. IsChain(st, Way(e), OnWay(e), e)
    BY <2>2, <2>3, <2>4, <2>5 DEF IsChain
  <2>7. HasRead(e, 0)
    <3>1. Run(e, 0, 0) = <<>>
      BY EmptyRun
    <3> QED  BY <1>1, <2>1, <2>5, <3>1 DEF HasRead
  <2>8. st[OnWay(e) + 1] = 0 /\ given[e] = 0 /\ 0 <= 0
    BY <1>1, <2>2, <2>3
  <2> QED  BY <2>3, <2>6, <2>7, <2>8 DEF Flows
<1> QED  BY <1>0, <1>3, <1>4 DEF FlowInv

-----------------------------------------------------------------------------
(* Steps that leave an end alone, and those that use up a receive.          *)

LEMMA EndFrame ==
    ASSUME NEW e, posted'[e] = posted[e], srq'[e] = srq[e], rxcq'[e] = rxcq[e], taken'[e] = taken[e],
           channel'[e] = channel[e], rx_buffers'[e] = rx_buffers[e], offset'[e] = offset[e],
           sq'[e] = sq[e], Torn(e) => Torn(e)', InPlace(e), Unmoved(e), OwnChunks(e)
    PROVE  InPlace(e)' /\ Unmoved(e)' /\ OwnChunks(e)'
<1>1. UsedUp(e)' = UsedUp(e) /\ DoneWith(e)' = DoneWith(e)
  BY DEF UsedUp, DoneWith
<1>2. InPlace(e)'
  BY <1>1 DEF InPlace
<1>3. Unmoved(e)'
  BY <1>1 DEF Unmoved
<1>4. OwnChunks(e)'
  BY DEF OwnChunks
<1> QED  BY <1>2, <1>3, <1>4

\* Nothing that the invariant is about changes.
LEMMA StillFlows ==
    ASSUME FlowInv, TypeOK',
           UNCHANGED <<memVars, poolVars, srq, sq, rxcq, rx_buffers, given, got, posted, refused, echoed, broken>>
    PROVE  FlowInv'
<1>1. ASSUME NEW e \in Ends PROVE InPlace(e)' /\ Unmoved(e)' /\ OwnChunks(e)'
  <2>1. Torn(e) => Torn(e)'
    BY DEF Torn
  <2> QED  BY <2>1, EndFrame DEF FlowInv, memVars, poolVars
<1>2. ASSUME NEW e \in Ends, Fresh(e)', Fresh(Peer[e])', ~Torn(e)' PROVE Flows(e)'
  <2>1. Fresh(e) /\ Fresh(Peer[e]) /\ ~Torn(e)
    BY <1>2 DEF Fresh, Torn, poolVars
  <2>2. Flows(e) /\ TypeOK
    BY <2>1 DEF FlowInv
  <2>3. PICK p \in Ends : p = Peer[e]
    BY Consts
  <2>4. buffer' = buffer
    BY DEF memVars
  <2> QED  BY <2>2, <2>3, <2>4, FlowsFrame
<1> QED  BY <1>1, <1>2 DEF FlowInv

\* The oldest receive is used up: its chunk is the one behind those in use.
LEMMA OneMoreUsed ==
    ASSUME NEW p, Typed(p), InPlace(p), Unmoved(p), srq[p] # <<>>, NEW done \in RxDone,
           done.chunk = Head(srq[p]), srq'[p] = Tail(srq[p]), rxcq'[p] = Append(rxcq[p], done),
           posted'[p] = posted[p], taken'[p] = taken[p], channel'[p] = channel[p],
           rx_buffers'[p] = rx_buffers[p], offset'[p] = offset[p]
    PROVE  /\ InPlace(p)' /\ Unmoved(p)'
           /\ UsedUp(p)' = UsedUp(p) + 1 /\ done.chunk = UsedUp(p) + 1 /\ UsedUp(p) \in Nat
           /\ DoneWith(p) \in Nat /\ UsedUp(p) = DoneWith(p) + Len(rxcq[p])
           /\ done.chunk <= posted[p]
           /\ Len(rxcq'[p]) = Len(rxcq[p]) + 1 /\ rxcq'[p][Len(rxcq[p]) + 1] = done
           /\ \A k \in 1 .. Len(rxcq[p]) : rxcq'[p][k] = rxcq[p][k]
<1>1. PICK P \in Nat, L \in Nat, m \in Nat : P = posted[p] /\ L = Len(srq[p]) /\ m = Len(rxcq[p])
  BY DEF Typed
<1>2. /\ Len(srq'[p]) = L - 1 /\ \A k \in 1 .. L - 1 : srq'[p][k] = srq[p][k + 1]
      /\ L > 0
  <2>1. srq[p] \in Seq(Chunks)
    BY DEF Typed
  <2>2. Len(Tail(srq[p])) = Len(srq[p]) - 1 /\ \A k \in 1 .. Len(Tail(srq[p])) : Tail(srq[p])[k] = srq[p][k + 1]
    BY <2>1, HeadTailProperties
  <2>3. L # 0
    BY <1>1, <2>1, EmptySeq
  <2>4. L > 0
    BY <2>3
  <2> QED  BY <1>1, <2>2, <2>4
<1>3. Head(srq[p]) = srq[p][1]
  BY DEF Typed
<1>4. /\ Len(rxcq'[p]) = m + 1 /\ rxcq'[p][m + 1] = done
      /\ \A k \in 1 .. m : rxcq'[p][k] = rxcq[p][k]
  <2>1. rxcq[p] \in Seq(RxDone)
    BY DEF Typed
  <2> QED  BY <1>1, <2>1, AppendProperties
<1>5. PICK U \in Nat, D \in Nat : U = UsedUp(p) /\ D = DoneWith(p) /\ U = P - L /\ D = U - m
  <2>1. UsedUp(p) = P - L /\ DoneWith(p) = (P - L) - m /\ DoneWith(p) \in Nat
    BY <1>1 DEF UsedUp, DoneWith, InPlace
  <2>2. P - L \in Nat
    <3>1. P - L \in Int /\ (P - L) - m \in Nat
      BY <2>1
    <3> QED  BY <3>1
  <2> QED  BY <2>1, <2>2
<1>6. UsedUp(p)' = U + 1 /\ DoneWith(p)' = D
  <2>1. P - (L - 1) = U + 1 /\ (P - (L - 1)) - (m + 1) = D
    BY <1>5
  <2> QED  BY <1>1, <1>2, <1>4, <2>1 DEF UsedUp, DoneWith
<1>7. done.chunk = U + 1 /\ done.chunk <= P /\ U = D + m
  <2>1. 1 \in 1 .. L /\ U + 1 <= P /\ U = D + m
    BY <1>2, <1>5
  <2>2. srq[p][1] = U + 1
    BY <1>1, <1>5, <2>1 DEF InPlace
  <2> QED  BY <1>3, <2>1, <2>2
<1>8. \A k \in 1 .. Len(srq'[p]) : srq'[p][k] = (U + 1) + k
  <2>1. ASSUME NEW k \in 1 .. L - 1 PROVE srq'[p][k] = (U + 1) + k
    <3>1. k + 1 \in 1 .. L /\ U + (k + 1) = (U + 1) + k
      BY <1>2
    <3>2. srq[p][k + 1] = U + (k + 1)
      BY <1>1, <1>5, <3>1 DEF InPlace
    <3> QED  BY <1>2, <3>1, <3>2
  <2> QED  BY <1>2, <2>1
<1>9. \A k \in 1 .. m + 1 : rxcq'[p][k].chunk = D + k
  <2>1. ASSUME NEW k \in 1 .. m + 1 PROVE rxcq'[p][k].chunk = D + k
    <3>1. CASE k = m + 1
      <4>1. D + (m + 1) = U + 1
        BY <1>7
      <4> QED  BY <1>4, <1>7, <3>1, <4>1
    <3>2. CASE k # m + 1
      <4>1. k \in 1 .. m
        BY <3>2
      <4>2. rxcq[p][k].chunk = D + k
        BY <1>1, <1>5, <4>1 DEF InPlace
      <4> QED  BY <1>4, <4>1, <4>2
    <3> QED  BY <3>1, <3>2
  <2> QED  BY <2>1
<1>10. InPlace(p)'
  <2>1. taken[p] <= RxNum /\ Len(channel[p]) = RxNum - taken[p]
        /\ (\A k \in 1 .. Len(channel[p]) : channel[p][k] = k)
        /\ \A k \in 1 .. Len(rx_buffers[p]) : rx_buffers[p][k] <= D
    BY <1>5 DEF InPlace
  <2> QED  BY <1>4, <1>6, <1>8, <1>9, <2>1 DEF InPlace
<1>11. Unmoved(p)'
  BY <1>5, <1>6 DEF Unmoved
<1> QED  BY <1>1, <1>4, <1>5, <1>6, <1>7, <1>10, <1>11

\* A chunk that l bytes of another were received into.
LEMMA Filled ==
    ASSUME NEW s \in [1 .. ChunkSize -> Byte], NEW t \in [1 .. ChunkSize -> Byte], NEW l \in 0 .. ChunkSize,
           NEW w, w = SubSeq(s, 1, l) \o SubSeq(t, l + 1, ChunkSize)
    PROVE  w \in [1 .. ChunkSize -> Byte] /\ SubSeq(w, 1, l) = SubSeq(s, 1, l)
<1>0. PICK C \in Nat : C = ChunkSize
  BY Consts
<1>1. l \in Nat /\ l <= C /\ l + 1 \in Int /\ C \in Int /\ l + (C - l) = C /\ C - l \in Nat
  BY <1>0
<1>2. PICK f : f = SubSeq(s, 1, l)
  OBVIOUS
<1>3. f \in Seq(Byte) /\ Len(f) = l /\ \A k \in 1 .. l : f[k] = s[k]
  BY <1>2, BeginOf
<1>4. PICK g : g = SubSeq(t, l + 1, C)
  OBVIOUS
<1>5. g \in Seq(Byte) /\ Len(g) = C - l
  <2>1. \A k \in (l + 1) .. C : t[k] \in Byte
    <3>1. \A k \in (l + 1) .. C : k \in 1 .. C
      BY <1>1
    <3> QED  BY <1>0, <3>1
  <2>2. g \in Seq(Byte) /\ Len(g) = IF l + 1 <= C THEN C - (l + 1) + 1 ELSE 0
    BY <1>1, <1>4, <2>1, SubSeqProperties
  <2>3. (IF l + 1 <= C THEN C - (l + 1) + 1 ELSE 0) = C - l
    BY <1>1
  <2> QED  BY <2>2, <2>3
<1>6. /\ w \in Seq(Byte) /\ Len(w) = l + (C - l)
      /\ \A k \in 1 .. l + (C - l) : w[k] = IF k <= l THEN f[k] ELSE g[k - l]
  <2>1. w = f \o g
    BY <1>0, <1>2, <1>4
  <2>2. /\ w \in Seq(Byte) /\ Len(w) = Len(f) + Len(g)
        /\ \A k \in 1 .. Len(f) + Len(g) : w[k] = IF k <= Len(f) THEN f[k] ELSE g[k - Len(f)]
    <3>1. f \in Seq(Byte) /\ g \in Seq(Byte)
      BY <1>3, <1>5
    <3>2. /\ f \o g \in Seq(Byte) /\ Len(f \o g) = Len(f) + Len(g)
          /\ \A k \in 1 .. Len(f) + Len(g) : (f \o g)[k] = IF k <= Len(f) THEN f[k] ELSE g[k - Len(f)]
      BY <3>1, ConcatProperties, Zenon
    <3> QED  BY <2>1, <3>2, Zenon
  <2> QED  BY <1>3, <1>5, <2>2, Zenon
<1>7. w \in [1 .. C -> Byte]
  <2>1. w \in Seq(Byte) /\ Len(w) = C
    BY <1>1, <1>6
  <2>2. w \in [1 .. Len(w) -> Byte]
    BY <2>1, LenProperties
  <2> QED  BY <2>1, <2>2
<1>8. w \in [1 .. ChunkSize -> Byte]
  BY <1>0, <1>7
<1>9. PICK v : v = SubSeq(w, 1, l)
  OBVIOUS
<1>10. v \in Seq(Byte) /\ Len(v) = l /\ \A k \in 1 .. l : v[k] = w[k]
  BY <1>8, <1>9, BeginOf
<1>11. \A k \in 1 .. l : v[k] = f[k]
  <2>1. \A k \in 1 .. l : k \in 1 .. l + (C - l) /\ k <= l
    BY <1>1
  <2> QED  BY <1>6, <1>10, <2>1
<1>12. v = f
  BY <1>3, <1>10, <1>11, SeqEqual
<1> QED  BY <1>2, <1>8, <1>9, <1>12

-----------------------------------------------------------------------------
(* The adapter sends the oldest request.                                    *)

\* What Transmit changes.
TransmitDoes(x, p, r, c) ==
    /\ p = Peer[x] /\ p \in Ends /\ p # x /\ ~broken
    /\ sq[x] # <<>> /\ srq[p] # <<>>
    /\ r = Head(sq[x]) /\ c = Head(srq[p]) /\ r \in Request /\ c \in Chunks
    /\ r = sq[x][1] /\ r.chunk \in Chunks /\ r.length \in 0 .. ChunkSize
    /\ sq' = [sq EXCEPT ![x] = Tail(@)] /\ srq' = [srq EXCEPT ![p] = Tail(@)]
    /\ sq'[x] = Tail(sq[x]) /\ \A d \in Ends : d # x => sq'[d] = sq[d]
    /\ srq'[p] = Tail(srq[p]) /\ \A d \in Ends : d # p => srq'[d] = srq[d] /\ rxcq'[d] = rxcq[d]
    /\ rxcq' = [rxcq EXCEPT ![p] = Append(@, [chunk |-> c, byte_len |-> r.length, ok |-> TRUE])]
    /\ rxcq'[p] = Append(rxcq[p], [chunk |-> c, byte_len |-> r.length, ok |-> TRUE])
    /\ event' = [event EXCEPT ![p] = @ \/ p \notin deaf]
    /\ buffer' = [buffer EXCEPT ![p][c] = buffer'[p][c]]
    /\ buffer'[p][c] = SubSeq(buffer[x][r.chunk], 1, r.length) \o SubSeq(buffer[p][c], r.length + 1, ChunkSize)
    /\ \A d \in Ends : d # p => buffer'[d] = buffer[d]
    /\ \A k \in Chunks : k # c => buffer'[p][k] = buffer[p][k]
    /\ UNCHANGED <<offset, channel, taken, rx_buffers, given, empties, got, posted, deaf, refused, echoed, broken, crash>>

LEMMA TransmitEffect ==
    ASSUME TypeOK, NEW x \in Ends, Transmit(x)
    PROVE  \E p, r, c : TransmitDoes(x, p, r, c)
<1>1. PICK p, r, c : p = Peer[x] /\ r = Head(sq[x]) /\ c = Head(srq[p]) /\ p \in Ends /\ p # x
  BY Consts
<1>2. /\ ~broken /\ sq[x] # <<>> /\ srq[p] # <<>>
      /\ sq' = [sq EXCEPT ![x] = Tail(@)] /\ srq' = [srq EXCEPT ![p] = Tail(@)]
      /\ buffer' = [buffer EXCEPT ![p][c] = OnWire(x, r) \o SubSeq(@, r.length + 1, ChunkSize)]
      /\ rxcq' = [rxcq EXCEPT ![p] = Append(@, [chunk |-> c, byte_len |-> r.length, ok |-> TRUE])]
      /\ event' = [event EXCEPT ![p] = @ \/ p \notin deaf]
      /\ UNCHANGED <<offset, channel, taken, rx_buffers, given, empties, got, posted, deaf, refused, echoed, broken, crash>>
  <2>1. /\ ~broken /\ sq[x] # <<>> /\ srq[Peer[x]] # <<>>
        /\ sq' = [sq EXCEPT ![x] = Tail(@)] /\ srq' = [srq EXCEPT ![Peer[x]] = Tail(@)]
        /\ buffer' = [buffer EXCEPT ![Peer[x]][Head(srq[Peer[x]])] =
                         OnWire(x, Head(sq[x])) \o SubSeq(@, Head(sq[x]).length + 1, ChunkSize)]
        /\ rxcq' = [rxcq EXCEPT ![Peer[x]] =
                       Append(@, [chunk |-> Head(srq[Peer[x]]), byte_len |-> Head(sq[x]).length, ok |-> TRUE])]
        /\ event' = [event EXCEPT ![Peer[x]] = @ \/ Peer[x] \notin deaf]
        /\ UNCHANGED <<offset, channel, taken, rx_buffers, given, empties, got, posted, deaf, refused, echoed, broken, crash>>
    BY Zenon DEF Transmit, Receive, poolVars, appVars, history
  <2> QED  BY <1>1, <2>1, Zenon
<1>3. Typed(x) /\ Typed(p)
  BY <1>1, TypedEnds
<1>4. r \in Request /\ c \in Chunks /\ r = sq[x][1]
  <2>1. sq[x] \in Seq(Request) /\ srq[p] \in Seq(Chunks)
    BY <1>3 DEF Typed
  <2>2. Head(sq[x]) \in Request /\ Head(srq[p]) \in Chunks
    BY <1>2, <2>1, HeadTailProperties
  <2>3. Head(sq[x]) = sq[x][1]
    BY <1>2, <2>1
  <2> QED  BY <1>1, <2>2, <2>3
<1>5. r.chunk \in Chunks /\ r.length \in 0 .. ChunkSize
  BY <1>4 DEF Request
<1>6. /\ sq \in [Ends -> Seq(Request)] /\ srq \in [Ends -> Seq(Chunks)] /\ rxcq \in [Ends -> Seq(RxDone)]
      /\ buffer \in [Ends -> [Chunks -> [1 .. ChunkSize -> Byte]]]
  BY DEF TypeOK
<1>7. /\ sq'[x] = Tail(sq[x]) /\ \A d \in Ends : d # x => sq'[d] = sq[d]
      /\ srq'[p] = Tail(srq[p]) /\ \A d \in Ends : d # p => srq'[d] = srq[d] /\ rxcq'[d] = rxcq[d]
      /\ rxcq'[p] = Append(rxcq[p], [chunk |-> c, byte_len |-> r.length, ok |-> TRUE])
  BY <1>1, <1>2, <1>6
<1>8. PICK w : w = SubSeq(buffer[x][r.chunk], 1, r.length) \o SubSeq(buffer[p][c], r.length + 1, ChunkSize)
  OBVIOUS
<1>9. buffer' = [buffer EXCEPT ![p][c] = w]
  BY <1>2, <1>8 DEF OnWire
<1>10. /\ buffer'[p][c] = w
       /\ \A d \in Ends : d # p => buffer'[d] = buffer[d]
       /\ \A k \in Chunks : k # c => buffer'[p][k] = buffer[p][k]
  BY <1>1, <1>4, <1>6, <1>9
<1>11. TransmitDoes(x, p, r, c)
  BY <1>1, <1>2, <1>4, <1>5, <1>7, <1>8, <1>9, <1>10, Zenon DEF TransmitDoes
<1> QED  BY <1>11

LEMMA TransmitTypeOK ==
    ASSUME TypeOK, NEW x \in Ends, Transmit(x)
    PROVE  TypeOK'
<1>1. PICK p, r, c : TransmitDoes(x, p, r, c)
  BY TransmitEffect
<1>2. sq' \in [Ends -> Seq(Request)] /\ srq' \in [Ends -> Seq(Chunks)]
  <2>1. Tail(sq[x]) \in Seq(Request) /\ Tail(srq[p]) \in Seq(Chunks)
    BY <1>1, TypedEnds, HeadTailProperties DEF Typed, TransmitDoes
  <2> QED  BY <1>1, <2>1 DEF TypeOK, TransmitDoes
<1>3. rxcq' \in [Ends -> Seq(RxDone)]
  <2>1. [chunk |-> c, byte_len |-> r.length, ok |-> TRUE] \in RxDone
    BY <1>1 DEF TransmitDoes, RxDone
  <2>2. PICK done \in RxDone : done = [chunk |-> c, byte_len |-> r.length, ok |-> TRUE]
    BY <2>1
  <2>3. Append(rxcq[p], done) \in Seq(RxDone) /\ p \in Ends /\ rxcq' = [rxcq EXCEPT ![p] = Append(@, done)]
    BY <1>1, <2>2, TypedEnds, AppendProperties DEF Typed, TransmitDoes
  <2> QED  BY <2>3 DEF TypeOK
<1>4. buffer' \in [Ends -> [Chunks -> [1 .. ChunkSize -> Byte]]]
  <2>1. PICK w : w = buffer'[p][c]
    OBVIOUS
  <2>2. w \in [1 .. ChunkSize -> Byte]
    <3>1. /\ r.chunk \in Chunks /\ c \in Chunks /\ p \in Ends /\ r.length \in 0 .. ChunkSize
          /\ w = SubSeq(buffer[x][r.chunk], 1, r.length) \o SubSeq(buffer[p][c], r.length + 1, ChunkSize)
      BY <1>1, <2>1 DEF TransmitDoes
    <3>2. buffer[x][r.chunk] \in [1 .. ChunkSize -> Byte] /\ buffer[p][c] \in [1 .. ChunkSize -> Byte]
      BY <3>1, TypedEnds DEF Typed
    <3> QED  BY <3>1, <3>2, Filled
  <2>3. buffer' = [buffer EXCEPT ![p][c] = w] /\ p \in Ends /\ c \in Chunks
    BY <1>1, <2>1 DEF TransmitDoes
  <2> QED  BY <2>2, <2>3 DEF TypeOK
<1>5. event' \in [Ends -> BOOLEAN]
  BY <1>1 DEF TransmitDoes, TypeOK
<1>6. UNCHANGED <<offset, channel, taken, rx_buffers, given, empties, got, posted, deaf, refused, echoed, broken, crash>>
  BY <1>1 DEF TransmitDoes
<1> QED  BY <1>2, <1>3, <1>4, <1>5, <1>6 DEF TypeOK

LEMMA TransmitInPlace ==
    ASSUME FlowInv, NEW x \in Ends, NEW p, NEW r, NEW c, TransmitDoes(x, p, r, c)
    PROVE  /\ \A e \in Ends : InPlace(e)' /\ Unmoved(e)' /\ OwnChunks(e)'
           /\ UsedUp(p)' = UsedUp(p) + 1 /\ c = UsedUp(p) + 1 /\ UsedUp(p) \in Nat
           /\ DoneWith(p) \in Nat /\ UsedUp(p) = DoneWith(p) + Len(rxcq[p])
           /\ Len(rxcq'[p]) = Len(rxcq[p]) + 1
           /\ rxcq'[p][Len(rxcq[p]) + 1] = [chunk |-> c, byte_len |-> r.length, ok |-> TRUE]
           /\ \A k \in 1 .. Len(rxcq[p]) : rxcq'[p][k] = rxcq[p][k]
<1>0. TypeOK /\ p \in Ends /\ p # x /\ \A e \in Ends : InPlace(e) /\ Unmoved(e) /\ OwnChunks(e)
  BY DEF FlowInv, TransmitDoes
<1>1. Typed(p) /\ Typed(x)
  BY <1>0, TypedEnds
<1>2. PICK done \in RxDone : done = [chunk |-> c, byte_len |-> r.length, ok |-> TRUE] /\ done.chunk = c
  <2>1. [chunk |-> c, byte_len |-> r.length, ok |-> TRUE] \in RxDone
    BY DEF TransmitDoes, RxDone
  <2> QED  BY <2>1
<1>3. /\ srq[p] # <<>> /\ done.chunk = Head(srq[p]) /\ srq'[p] = Tail(srq[p])
      /\ rxcq'[p] = Append(rxcq[p], done)
      /\ posted'[p] = posted[p] /\ taken'[p] = taken[p] /\ channel'[p] = channel[p]
      /\ rx_buffers'[p] = rx_buffers[p] /\ offset'[p] = offset[p]
  BY <1>2 DEF TransmitDoes
<1>4. /\ InPlace(p)' /\ Unmoved(p)'
      /\ UsedUp(p)' = UsedUp(p) + 1 /\ done.chunk = UsedUp(p) + 1 /\ UsedUp(p) \in Nat
      /\ DoneWith(p) \in Nat /\ UsedUp(p) = DoneWith(p) + Len(rxcq[p])
      /\ Len(rxcq'[p]) = Len(rxcq[p]) + 1 /\ rxcq'[p][Len(rxcq[p]) + 1] = done
      /\ \A k \in 1 .. Len(rxcq[p]) : rxcq'[p][k] = rxcq[p][k]
  BY <1>0, <1>1, <1>3, OneMoreUsed
<1>5. ASSUME NEW e \in Ends PROVE InPlace(e)' /\ Unmoved(e)' /\ OwnChunks(e)'
  <2>0. Torn(e)' <=> Torn(e)
    BY DEF TransmitDoes, Torn
  <2>1. CASE e = p
    <3>1. OwnChunks(p) /\ sq'[p] = sq[p] /\ taken'[p] = taken[p]
      BY <1>0, <1>3 DEF TransmitDoes
    <3>2. OwnChunks(p)'
      BY <2>0, <2>1, <3>1 DEF OwnChunks
    <3> QED  BY <1>4, <2>1, <3>2
  <2>2. CASE e = x
    <3>1. /\ posted'[x] = posted[x] /\ srq'[x] = srq[x] /\ rxcq'[x] = rxcq[x] /\ taken'[x] = taken[x]
          /\ channel'[x] = channel[x] /\ rx_buffers'[x] = rx_buffers[x] /\ offset'[x] = offset[x]
          /\ sq'[x] = Tail(sq[x]) /\ sq[x] # <<>>
      BY <1>0 DEF TransmitDoes
    <3>2. UsedUp(x)' = UsedUp(x) /\ DoneWith(x)' = DoneWith(x)
      BY <3>1 DEF UsedUp, DoneWith
    <3>3. InPlace(x)' /\ Unmoved(x)'
      <4>1. InPlace(x) /\ Unmoved(x)
        BY <1>0 DEF FlowInv
      <4>2. InPlace(x)'
        BY <3>1, <3>2, <4>1 DEF InPlace
      <4>3. Unmoved(x)'
        BY <3>1, <3>2, <4>1 DEF Unmoved
      <4> QED  BY <4>2, <4>3
    <3>4. /\ Len(sq[x]) \in Nat /\ Len(sq'[x]) = Len(sq[x]) - 1
          /\ \A k \in 1 .. Len(sq'[x]) : sq'[x][k] = sq[x][k + 1]
      <4>1. PICK s \in Seq(Request) : s = sq[x] /\ Len(s) \in Nat
        BY <1>1 DEF Typed
      <4>2. Len(Tail(s)) = Len(s) - 1 /\ \A k \in 1 .. Len(Tail(s)) : Tail(s)[k] = s[k + 1]
        BY <3>1, <4>1, HeadTailProperties
      <4> QED  BY <3>1, <4>1, <4>2
    <3>5. \A k \in 1 .. Len(sq'[x]) : k + 1 \in 1 .. Len(sq[x])
      BY <3>4
    <3>6. OwnChunks(x)'
      BY <1>0, <2>0, <2>2, <3>1, <3>4, <3>5 DEF OwnChunks
    <3> QED  BY <2>2, <3>3, <3>6
  <2>3. CASE e # p /\ e # x
    <3>1. /\ posted'[e] = posted[e] /\ srq'[e] = srq[e] /\ rxcq'[e] = rxcq[e] /\ taken'[e] = taken[e]
          /\ channel'[e] = channel[e] /\ rx_buffers'[e] = rx_buffers[e] /\ offset'[e] = offset[e]
          /\ sq'[e] = sq[e]
      BY <2>3 DEF TransmitDoes
    <3> QED  BY <1>0, <2>0, <3>1, EndFrame
  <2> QED  BY <2>1, <2>2, <2>3
<1> QED  BY <1>2, <1>4, <1>5, Zenon

\* The request that is sent becomes the last part that arrived.
LEMMA TransmitKeepsWay ==
    ASSUME FlowInv, TypeOK', NEW x \in Ends, NEW p, NEW r, NEW c, TransmitDoes(x, p, r, c)
    PROVE  /\ OnWay(x)' = OnWay(x)
           /\ \A k \in 1 .. OnWay(x) : Way(x)'[k] = Way(x)[k]
<1>0. TypeOK /\ p \in Ends /\ p # x /\ p = Peer[x] /\ ~broken /\ ~broken'
  BY DEF FlowInv, TransmitDoes
<1>1. PICK m \in Nat, n \in Nat : m = Len(rxcq[p]) /\ n = Len(sq[x])
  BY <1>0, TypedEnds DEF Typed
<1>2. /\ c = UsedUp(p) + 1 /\ DoneWith(p) \in Nat /\ UsedUp(p) = DoneWith(p) + m
      /\ Len(rxcq'[p]) = m + 1
      /\ rxcq'[p][m + 1] = [chunk |-> c, byte_len |-> r.length, ok |-> TRUE]
      /\ \A k \in 1 .. m : rxcq'[p][k] = rxcq[p][k]
  BY <1>1, TransmitInPlace
<1>3. /\ n - 1 \in Nat /\ Len(sq'[x]) = n - 1 /\ \A k \in 1 .. (n - 1) : sq'[x][k] = sq[x][k + 1]
      /\ r = sq[x][1]
  <2>1. sq[x] \in Seq(Request) /\ sq[x] # <<>> /\ sq'[x] = Tail(sq[x]) /\ r = sq[x][1]
    BY <1>0, TypedEnds DEF Typed, TransmitDoes
  <2>2. Len(Tail(sq[x])) = Len(sq[x]) - 1 /\ \A k \in 1 .. Len(Tail(sq[x])) : Tail(sq[x])[k] = sq[x][k + 1]
    BY <2>1, HeadTailProperties
  <2>3. n # 0
    BY <1>1, <2>1, EmptySeq
  <2>4. n - 1 \in Nat
    BY <2>3
  <2> QED  BY <1>1, <2>1, <2>2, <2>4
<1>4. /\ OnWay(x) = m + n
      /\ \A k \in 1 .. m : Way(x)[k] = SubSeq(buffer[p][rxcq[p][k].chunk], 1, rxcq[p][k].byte_len)
      /\ \A k \in 1 .. n : Way(x)[m + k] = SubSeq(buffer[x][sq[x][k].chunk], 1, sq[x][k].length)
  <2>1. WayIs(x, p, m, n)
    BY WayParts, Zenon
  <2> QED  BY <1>0, <1>1, <2>1, Zenon DEF WayIs
<1>5. /\ OnWay(x)' = (m + 1) + (n - 1)
      /\ \A k \in 1 .. m + 1 : Way(x)'[k] = SubSeq(buffer'[p][rxcq'[p][k].chunk], 1, rxcq'[p][k].byte_len)
      /\ \A k \in 1 .. (n - 1) : Way(x)'[(m + 1) + k] = SubSeq(buffer'[x][sq'[x][k].chunk], 1, sq'[x][k].length)
  <2>1. WayIs(x, p, m + 1, n - 1)'
    BY WayPartsNext, Zenon
  <2>2. m + 1 \in Nat
    OBVIOUS
  <2> QED  BY <1>0, <1>2, <1>3, <2>1, <2>2 DEF WayIs
<1>6. OnWay(x)' = OnWay(x)
  <2>1. (m + 1) + (n - 1) = m + n
    OBVIOUS
  <2> QED  BY <1>4, <1>5, <2>1
<1>7. ASSUME NEW k \in 1 .. m PROVE Way(x)'[k] = Way(x)[k]
  <2>1. rxcq[p][k].chunk = DoneWith(p) + k
    BY <1>0, <1>1 DEF FlowInv, InPlace
  <2>2. DoneWith(p) + k # c
    BY <1>2
  <2>3. rxcq[p][k].chunk \in Chunks
    BY <1>0, <1>1, Parts
  <2>4. buffer'[p][rxcq[p][k].chunk] = buffer[p][rxcq[p][k].chunk]
    BY <2>1, <2>2, <2>3 DEF TransmitDoes
  <2>5. k \in 1 .. m + 1
    OBVIOUS
  <2>6. Way(x)'[k] = SubSeq(buffer'[p][rxcq[p][k].chunk], 1, rxcq[p][k].byte_len)
    BY <1>2, <1>5, <2>5
  <2> QED  BY <1>4, <2>4, <2>6
<1>8. Way(x)'[m + 1] = Way(x)[m + 1]
  <2>1. 1 \in 1 .. n /\ m + 1 \in 1 .. m + 1
    BY <1>3
  <2>2. Way(x)[m + 1] = SubSeq(buffer[x][r.chunk], 1, r.length)
    BY <1>3, <1>4, <2>1
  <2>3. Way(x)'[m + 1] = SubSeq(buffer'[p][c], 1, r.length)
    BY <1>2, <1>5, <2>1
  <2>4. /\ r.chunk \in Chunks /\ c \in Chunks /\ r.length \in 0 .. ChunkSize
        /\ buffer'[p][c] = SubSeq(buffer[x][r.chunk], 1, r.length) \o SubSeq(buffer[p][c], r.length + 1, ChunkSize)
    BY DEF TransmitDoes
  <2>5. buffer[x][r.chunk] \in [1 .. ChunkSize -> Byte] /\ buffer[p][c] \in [1 .. ChunkSize -> Byte]
    BY <1>0, <2>4, TypedEnds DEF Typed
  <2>6. SubSeq(buffer'[p][c], 1, r.length) = SubSeq(buffer[x][r.chunk], 1, r.length)
    BY <2>4, <2>5, Filled
  <2> QED  BY <2>2, <2>3, <2>6
<1>9. ASSUME NEW k \in 1 .. (n - 1) PROVE Way(x)'[(m + 1) + k] = Way(x)[(m + 1) + k]
  <2>1. k + 1 \in 1 .. n /\ m + (k + 1) = (m + 1) + k
    OBVIOUS
  <2>2. Way(x)[(m + 1) + k] = SubSeq(buffer[x][sq[x][k + 1].chunk], 1, sq[x][k + 1].length)
    BY <1>4, <2>1
  <2>3. buffer'[x] = buffer[x]
    BY <1>0 DEF TransmitDoes
  <2>4. Way(x)'[(m + 1) + k] = SubSeq(buffer[x][sq[x][k + 1].chunk], 1, sq[x][k + 1].length)
    BY <1>3, <1>5, <2>3
  <2> QED  BY <2>2, <2>4
<1>10. ASSUME NEW k \in 1 .. OnWay(x) PROVE Way(x)'[k] = Way(x)[k]
  <2>1. k \in 1 .. (m + n)
    BY <1>4
  <2>2. CASE k <= m
    <3>1. k \in 1 .. m
      BY <2>1, <2>2
    <3> QED  BY <1>7, <3>1
  <2>3. CASE k = m + 1
    BY <1>8, <2>3
  <2>4. CASE ~(k <= m) /\ k # m + 1
    <3>1. k - (m + 1) \in 1 .. (n - 1) /\ (m + 1) + (k - (m + 1)) = k
      BY <2>1, <2>4
    <3>2. PICK j \in 1 .. (n - 1) : k = (m + 1) + j
      BY <3>1
    <3> QED  BY <1>9, <3>2
  <2> QED  BY <2>2, <2>3, <2>4
<1> QED  BY <1>6, <1>10

\* Fresh, in the counters of the invariant.
LEMMA FreshIs ==
    TypeOK => \A e \in Ends : UsedUp(e) \in Int /\ (Fresh(e) <=> UsedUp(e) <= RxNum - taken[e])
<1> SUFFICES ASSUME TypeOK, NEW e \in Ends
             PROVE  UsedUp(e) \in Int /\ (Fresh(e) <=> UsedUp(e) <= RxNum - taken[e])
  OBVIOUS
<1>1. PICK t \in Nat, q \in Nat, l \in Nat, R \in Nat :
         t = taken[e] /\ q = posted[e] /\ l = Len(srq[e]) /\ R = RxNum
  BY TypedEnds, Consts DEF Typed
<1>2. q - l \in Int /\ (t + q - l <= R <=> q - l <= R - t)
  OBVIOUS
<1> QED  BY <1>1, <1>2 DEF Fresh, UsedUp

LEMMA FreshIsNext ==
    (TypeOK => \A e \in Ends : UsedUp(e) \in Int /\ (Fresh(e) <=> UsedUp(e) <= RxNum - taken[e]))'
  BY FreshIs, PTL

LEMMA TransmitFlows ==
    ASSUME FlowInv, NEW x \in Ends, Transmit(x)
    PROVE  FlowInv'
<1>0. TypeOK /\ TypeOK'
  BY TransmitTypeOK DEF FlowInv
<1>1. PICK p, r, c : TransmitDoes(x, p, r, c)
  BY <1>0, TransmitEffect
<1>2. /\ \A e \in Ends : InPlace(e)' /\ Unmoved(e)' /\ OwnChunks(e)'
      /\ UsedUp(p)' = UsedUp(p) + 1 /\ c = UsedUp(p) + 1 /\ UsedUp(p) \in Nat
      /\ DoneWith(p) \in Nat /\ UsedUp(p) = DoneWith(p) + Len(rxcq[p])
  <2>1. /\ \A e \in Ends : InPlace(e)' /\ Unmoved(e)' /\ OwnChunks(e)'
        /\ UsedUp(p)' = UsedUp(p) + 1 /\ c = UsedUp(p) + 1 /\ UsedUp(p) \in Nat
        /\ DoneWith(p) \in Nat /\ UsedUp(p) = DoneWith(p) + Len(rxcq[p])
        /\ Len(rxcq'[p]) = Len(rxcq[p]) + 1
        /\ rxcq'[p][Len(rxcq[p]) + 1] = [chunk |-> c, byte_len |-> r.length, ok |-> TRUE]
        /\ \A k \in 1 .. Len(rxcq[p]) : rxcq'[p][k] = rxcq[p][k]
    BY <1>1, TransmitInPlace, Zenon
  <2> QED  BY <2>1
<1>3. p \in Ends /\ p # x /\ p = Peer[x] /\ Peer[p] = x /\ c \in Chunks
  BY <1>1, Consts DEF TransmitDoes
<1>4. PICK R \in Nat : R = RxNum
  BY Consts
<1>5. /\ UNCHANGED <<taken, rx_buffers, given, got, posted, refused, echoed, broken>>
      /\ \A d \in Ends : d # p => buffer'[d] = buffer[d] /\ srq'[d] = srq[d] /\ rxcq'[d] = rxcq[d]
      /\ \A d \in Ends : d # x => sq'[d] = sq[d]
      /\ \A k \in Chunks : k # c => buffer'[p][k] = buffer[p][k]
  BY <1>1 DEF TransmitDoes
<1>6. ASSUME NEW e \in Ends PROVE (Fresh(e)' => Fresh(e)) /\ (Torn(e)' <=> Torn(e))
  <2>1. Torn(e)' <=> Torn(e)
    BY <1>5 DEF Torn
  <2>2. CASE e # p
    BY <1>5, <2>1, <2>2 DEF Fresh
  <2>3. CASE e = p
    <3>1. PICK t \in Nat, u \in Nat : t = taken[p] /\ u = UsedUp(p) /\ t = taken'[p] /\ u + 1 = UsedUp(p)'
      BY <1>0, <1>2, <1>3, <1>5, TypedEnds DEF Typed
    <3>2. Fresh(p) <=> u <= R - t
      BY <1>0, <1>3, <1>4, <3>1, FreshIs
    <3>3. Fresh(p)' <=> u + 1 <= R - t
      BY <1>0, <1>3, <1>4, <3>1, FreshIsNext
    <3>4. u + 1 <= R - t => u <= R - t
      OBVIOUS
    <3> QED  BY <2>1, <2>3, <3>2, <3>3, <3>4
  <2> QED  BY <2>2, <2>3
<1>7. \A k \in 1 .. Len(rx_buffers[p]) : buffer'[p][rx_buffers[p][k]] = buffer[p][rx_buffers[p][k]]
  <2>1. ASSUME NEW k \in 1 .. Len(rx_buffers[p]) PROVE rx_buffers[p][k] \in Chunks /\ rx_buffers[p][k] # c
    <3>1. PICK b \in Chunks : b = rx_buffers[p][k]
      BY <1>0, <1>3, Parts
    <3>2. b <= DoneWith(p)
      BY <1>3, <3>1 DEF FlowInv, InPlace
    <3>3. PICK D \in Nat, m \in Nat : D = DoneWith(p) /\ m = Len(rxcq[p])
      BY <1>0, <1>2, <1>3, TypedEnds DEF Typed
    <3>4. b # c
      <4>1. c = (D + m) + 1 /\ b <= D
        BY <1>2, <3>2, <3>3
      <4> QED  BY <4>1
    <3> QED  BY <3>1, <3>4
  <2> QED  BY <1>5, <2>1
<1>8. ASSUME NEW e \in Ends, Fresh(e)', Fresh(Peer[e])', ~Torn(e)' PROVE Flows(e)'
  <2>1. Flows(e)
    <3>1. Peer[e] \in Ends
      BY Consts
    <3> QED  BY <1>6, <1>8, <3>1 DEF FlowInv
  <2>2. CASE e = x
    <3>1. PICK st : /\ IsChain(st, Way(x), OnWay(x), x) /\ st[OnWay(x) + 1] = given[x]
                    /\ HasRead(x, st[1])
      BY <1>1, <2>1, <2>2 DEF Flows, TransmitDoes
    <3>2. OnWay(x)' = OnWay(x) /\ \A k \in 1 .. OnWay(x) : Way(x)'[k] = Way(x)[k]
      BY <1>0, <1>1, TransmitKeepsWay
    <3>3. IsChain(st, Way(x)', OnWay(x), x)
      BY <3>1, <3>2, ChainSame
    <3>4. IsChain(st, Way(x), OnWay(x), x)'
      BY <3>2, <3>3, Zenon DEF IsChain, Run
    <3>5. HasRead(x, st[1])'
      BY <1>3, <1>5, <1>7, <3>1, HasReadFrame
    <3>6. ~broken' /\ st[OnWay(x)' + 1] = given'[x]
      <4>1. ~broken
        BY <1>1 DEF TransmitDoes
      <4> QED  BY <1>5, <3>1, <3>2, <4>1
    <3> QED  BY <2>2, <3>4, <3>5, <3>6 DEF Flows
  <2>3. CASE e = p
    <3>1. \A k \in 1 .. Len(sq[p]) : sq[p][k].length > 0 => buffer'[p][sq[p][k].chunk] = buffer[p][sq[p][k].chunk]
      <4>1. PICK t \in Nat, u \in Nat : t = taken[p] /\ u = UsedUp(p) /\ t = taken'[p] /\ u + 1 = UsedUp(p)'
        BY <1>0, <1>2, <1>3, <1>5, TypedEnds DEF Typed
      <4>2. u + 1 <= R - t /\ c = u + 1
        <5>1. Fresh(p)' /\ (Fresh(p)' <=> u + 1 <= R - t)
          BY <1>0, <1>3, <1>4, <1>8, <2>3, <4>1, FreshIsNext
        <5> QED  BY <1>2, <4>1, <5>1
      <4>3. ASSUME NEW k \in 1 .. Len(sq[p]), sq[p][k].length > 0
            PROVE  sq[p][k].chunk \in Chunks /\ sq[p][k].chunk # c
        <5>1. PICK b \in Chunks : b = sq[p][k].chunk
          BY <1>0, <1>3, Parts
        <5>2. ~Torn(p) /\ OwnChunks(p)
          BY <1>3, <1>6, <1>8, <2>3 DEF FlowInv
        <5>3. b > R - t
          BY <1>4, <4>1, <4>3, <5>1, <5>2 DEF OwnChunks
        <5>4. b # u + 1
          BY <4>2, <5>3
        <5> QED  BY <4>2, <5>1, <5>4
      <4> QED  BY <1>5, <4>3
    <3>2. /\ sq'[p] = sq[p] /\ rxcq'[x] = rxcq[x] /\ buffer'[x] = buffer[x] /\ Flows(p)
          /\ given'[p] = given[p] /\ rx_buffers'[x] = rx_buffers[x] /\ got'[x] = got[x] /\ broken' = broken
      BY <1>3, <1>5, <2>1, <2>3
    <3> QED  BY <1>0, <1>3, <2>3, <3>1, <3>2, FlowsFrame
  <2>4. CASE e # x /\ e # p
    <3>1. PICK q \in Ends : q = Peer[e] /\ q # x /\ q # p
      BY <1>3, <2>4, Consts
    <3>2. /\ sq'[e] = sq[e] /\ rxcq'[q] = rxcq[q] /\ buffer'[e] = buffer[e] /\ buffer'[q] = buffer[q]
          /\ given'[e] = given[e] /\ rx_buffers'[q] = rx_buffers[q] /\ got'[q] = got[q] /\ broken' = broken
      BY <1>5, <2>4, <3>1
    <3> QED  BY <1>0, <2>1, <3>1, <3>2, FlowsFrame
  <2> QED  BY <2>2, <2>3, <2>4
<1> QED  BY <1>0, <1>2, <1>8 DEF FlowInv

-----------------------------------------------------------------------------
(* The connection breaks.                                                   *)

\* What becomes of one end.
BreakDoes(d) ==
    \/ srq'[d] = srq[d] /\ rxcq'[d] = rxcq[d]
    \/ /\ srq[d] # <<>> /\ srq'[d] = Tail(srq[d])
       /\ rxcq'[d] = Append(rxcq[d], [chunk |-> Head(srq[d]), byte_len |-> 0, ok |-> FALSE])

LEMMA BreakEffect ==
    ASSUME TypeOK, Break
    PROVE  /\ ~broken /\ broken' = TRUE
           /\ UNCHANGED <<memVars, poolVars, sq, rx_buffers, appVars, got, history, crash>>
           /\ \A d \in Ends : BreakDoes(d)
           /\ TypeOK'
<1>1. /\ ~broken /\ broken' = TRUE
      /\ UNCHANGED <<memVars, poolVars, sq, rx_buffers, appVars, got, history, crash>>
  BY DEF Break
<1>2. srq \in [Ends -> Seq(Chunks)] /\ rxcq \in [Ends -> Seq(RxDone)] /\ event \in [Ends -> BOOLEAN]
  BY DEF TypeOK
<1>3. CASE UNCHANGED <<srq, rxcq, event>>
  <2>1. TypeOK'
    BY <1>1, <1>3 DEF TypeOK, memVars, poolVars, appVars, history
  <2> QED  BY <1>1, <1>3, <2>1 DEF BreakDoes
<1>4. CASE ~UNCHANGED <<srq, rxcq, event>>
  <2>1. PICK p \in Ends :
           /\ srq[p] # <<>> /\ srq' = [srq EXCEPT ![p] = Tail(@)]
           /\ rxcq' = [rxcq EXCEPT ![p] = Append(@, [chunk |-> Head(srq[p]), byte_len |-> 0, ok |-> FALSE])]
           /\ event' = [event EXCEPT ![p] = @ \/ p \notin deaf]
    BY <1>4 DEF Break, Receive
  <2>2. srq[p] \in Seq(Chunks) /\ rxcq[p] \in Seq(RxDone)
    BY <1>2
  <2>3. Tail(srq[p]) \in Seq(Chunks) /\ Head(srq[p]) \in Chunks
    BY <2>1, <2>2, HeadTailProperties
  <2>4. PICK done \in RxDone : done = [chunk |-> Head(srq[p]), byte_len |-> 0, ok |-> FALSE]
    <3>1. 0 \in 0 .. ChunkSize
      BY Consts
    <3> QED  BY <2>3, <3>1 DEF RxDone
  <2>5. Append(rxcq[p], done) \in Seq(RxDone)
    BY <2>2, AppendProperties
  <2>6. rxcq' = [rxcq EXCEPT ![p] = Append(@, done)]
    BY <2>1, <2>4
  <2>7. srq' \in [Ends -> Seq(Chunks)] /\ rxcq' \in [Ends -> Seq(RxDone)] /\ event' \in [Ends -> BOOLEAN]
    BY <1>2, <2>1, <2>3, <2>5, <2>6
  <2>8. TypeOK'
    BY <1>1, <2>7 DEF TypeOK, memVars, poolVars, appVars, history
  <2>9. ASSUME NEW d \in Ends PROVE BreakDoes(d)
    <3>1. CASE d = p
      BY <1>2, <2>1, <3>1 DEF BreakDoes
    <3>2. CASE d # p
      BY <1>2, <2>1, <3>2 DEF BreakDoes
    <3> QED  BY <3>1, <3>2
  <2> QED  BY <1>1, <2>8, <2>9
<1> QED  BY <1>3, <1>4

\* The parts that arrived stay, perhaps with an empty one behind them.
LEMMA BreakKeepsWay ==
    ASSUME TypeOK, TypeOK', NEW e \in Ends, Flows(e), ~broken, broken' = TRUE, BreakDoes(Peer[e]),
           UNCHANGED <<memVars, rx_buffers, given, got>>
    PROVE  Flows(e)'
<1>1. PICK p \in Ends : p = Peer[e]
  BY Consts
<1>2. PICK m \in Nat, n \in Nat : m = Len(rxcq[p]) /\ n = Len(sq[e])
  BY <1>1, TypedEnds DEF Typed
<1>3. PICK st : IsChain(st, Way(e), OnWay(e), e) /\ st[OnWay(e) + 1] = given[e] /\ HasRead(e, st[1])
  BY DEF Flows
<1>4. /\ IsChain(st, Arrived(p), m, e) /\ st[m + 1] \in Nat /\ st[m + 1] <= given[e]
  BY <1>1, <1>2, <1>3, WaySplits
<1>5. \A k \in 1 .. m : Arrived(p)[k] = SubSeq(buffer[p][rxcq[p][k].chunk], 1, rxcq[p][k].byte_len)
  BY <1>2 DEF Arrived
<1>6. buffer' = buffer /\ rx_buffers' = rx_buffers /\ got' = got /\ given' = given
  BY DEF memVars
<1>7. HasRead(e, st[1])'
  BY <1>1, <1>3, <1>6, HasReadFrame
<1>8. PICK j \in Nat : j = Len(sq'[e])
  BY TypedEndsNext DEF Typed
<1>9. CASE rxcq'[p] = rxcq[p]
  <2>1. WayIs(e, p, m, j)'
    BY WayPartsNext, Zenon
  <2>2. /\ OnWay(e)' = m
        /\ \A k \in 1 .. m : Way(e)'[k] = SubSeq(buffer[p][rxcq[p][k].chunk], 1, rxcq[p][k].byte_len)
    BY <1>1, <1>2, <1>6, <1>8, <1>9, <2>1 DEF WayIs
  <2>3. \A k \in 1 .. m : Way(e)'[k] = Arrived(p)[k]
    BY <1>5, <2>2, Zenon
  <2>4. IsChain(st, Way(e)', m, e)
    BY <1>4, <2>3, ChainSame
  <2>5. IsChain(st, Way(e), OnWay(e), e)'
    BY <2>2, <2>4, Zenon DEF IsChain, Run
  <2>6. st[OnWay(e)' + 1] <= given'[e]
    BY <1>4, <1>6, <2>2
  <2> QED  BY <1>7, <2>5, <2>6 DEF Flows
<1>10. CASE rxcq'[p] # rxcq[p]
  <2>1. PICK done \in RxDone : rxcq'[p] = Append(rxcq[p], done) /\ done.byte_len = 0
    <3>1. /\ srq[p] # <<>>
          /\ rxcq'[p] = Append(rxcq[p], [chunk |-> Head(srq[p]), byte_len |-> 0, ok |-> FALSE])
      BY <1>1, <1>10 DEF BreakDoes
    <3>2. Head(srq[p]) \in Chunks
      BY <3>1, TypedEnds, HeadTailProperties DEF Typed
    <3>3. 0 \in 0 .. ChunkSize
      BY Consts
    <3>4. PICK done \in RxDone : done = [chunk |-> Head(srq[p]), byte_len |-> 0, ok |-> FALSE]
      BY <3>2, <3>3 DEF RxDone
    <3>5. done.byte_len = 0
      BY <3>4
    <3> QED  BY <3>1, <3>4, <3>5, Zenon
  <2>2. /\ Len(rxcq'[p]) = m + 1 /\ rxcq'[p][m + 1] = done
        /\ \A k \in 1 .. m : rxcq'[p][k] = rxcq[p][k]
    <3>1. rxcq[p] \in Seq(RxDone)
      BY TypedEnds DEF Typed
    <3> QED  BY <1>2, <2>1, <3>1, AppendProperties
  <2>3. WayIs(e, p, m + 1, j)'
    BY WayPartsNext, Zenon
  <2>4. /\ OnWay(e)' = m + 1
        /\ \A k \in 1 .. m + 1 : Way(e)'[k] = SubSeq(buffer[p][rxcq'[p][k].chunk], 1, rxcq'[p][k].byte_len)
    <3>1. m + 1 \in Nat
      OBVIOUS
    <3> QED  BY <1>1, <1>6, <1>8, <2>2, <2>3, <3>1 DEF WayIs
  <2> DEFINE s2 == [k \in 1 .. m + 2 |-> IF k = m + 2 THEN st[m + 1] ELSE st[k]]
  <2>5. /\ \A k \in 1 .. m + 1 : s2[k] = st[k]
        /\ s2[m + 2] = st[m + 1]
    <3>1. \A k \in 1 .. m + 1 : k \in 1 .. m + 2 /\ k # m + 2
      OBVIOUS
    <3>2. m + 2 \in 1 .. m + 2
      OBVIOUS
    <3> QED  BY <3>1, <3>2
  <2> HIDE DEF s2
  <2>6. ASSUME NEW k \in 1 .. m
        PROVE  s2[k] <= s2[k + 1] /\ Way(e)'[k] = Run(e, s2[k], s2[k + 1])
    <3>1. k \in 1 .. m + 1 /\ k + 1 \in 1 .. m + 1
      OBVIOUS
    <3>2. s2[k] = st[k] /\ s2[k + 1] = st[k + 1]
      BY <2>5, <3>1
    <3>3. Way(e)'[k] = Arrived(p)[k]
      BY <1>5, <2>2, <2>4, <3>1
    <3>4. st[k] <= st[k + 1] /\ Arrived(p)[k] = Run(e, st[k], st[k + 1])
      BY <1>4 DEF IsChain
    <3> QED  BY <3>2, <3>3, <3>4
  <2>7. PICK a \in Nat : a = st[m + 1] /\ s2[m + 1] = a /\ s2[m + 2] = a
    <3>1. m + 1 \in 1 .. m + 1
      OBVIOUS
    <3> QED  BY <1>4, <2>5, <3>1
  <2>8. Way(e)'[m + 1] = Run(e, a, a)
    <3>1. m + 1 \in 1 .. m + 1
      OBVIOUS
    <3>2. Way(e)'[m + 1] = SubSeq(buffer[p][done.chunk], 1, 0)
      BY <2>1, <2>2, <2>4, <3>1
    <3>3. buffer[p][done.chunk] \in [1 .. ChunkSize -> Byte]
      BY TypedEnds DEF Typed, RxDone
    <3> QED  BY <3>2, <3>3, EmptyPart, EmptyRun
  <2>9. IsChain(s2, Way(e)', m + 1, e)
    <3>1. ASSUME NEW k \in 1 .. (m + 1) + 1 PROVE s2[k] \in Nat
      <4>1. CASE k = m + 2
        BY <2>7, <4>1
      <4>2. CASE k # m + 2
        <5>1. k \in 1 .. m + 1
          BY <4>2
        <5> QED  BY <1>4, <2>5, <5>1 DEF IsChain
      <4> QED  BY <4>1, <4>2
    <3>2. ASSUME NEW k \in 1 .. m + 1
          PROVE  s2[k] <= s2[k + 1] /\ Way(e)'[k] = Run(e, s2[k], s2[k + 1])
      <4>1. CASE k = m + 1
        <5>1. (m + 1) + 1 = m + 2 /\ a <= a
          OBVIOUS
        <5> QED  BY <2>7, <2>8, <4>1, <5>1
      <4>2. CASE k # m + 1
        <5>1. k \in 1 .. m
          BY <4>2
        <5> QED  BY <2>6, <5>1
      <4> QED  BY <4>1, <4>2
    <3> QED  BY <3>1, <3>2 DEF IsChain
  <2>10. IsChain(s2, Way(e), OnWay(e), e)'
    BY <2>4, <2>9, Zenon DEF IsChain, Run
  <2>11. s2[OnWay(e)' + 1] <= given'[e]
    <3>1. (m + 1) + 1 = m + 2
      OBVIOUS
    <3> QED  BY <1>4, <1>6, <2>4, <2>5, <3>1
  <2>12. HasRead(e, s2[1])'
    <3>1. 1 \in 1 .. m + 1
      OBVIOUS
    <3>2. s2[1] = st[1]
      BY <2>5, <3>1
    <3> QED  BY <1>7, <3>2
  <2> QED  BY <2>10, <2>11, <2>12 DEF Flows
<1> QED  BY <1>9, <1>10

LEMMA BreakFlows ==
    ASSUME FlowInv, Break
    PROVE  FlowInv'
<1>0. TypeOK /\ \A e \in Ends : InPlace(e) /\ Unmoved(e) /\ OwnChunks(e)
  BY DEF FlowInv
<1>1. /\ ~broken /\ broken' = TRUE /\ TypeOK' /\ \A d \in Ends : BreakDoes(d)
      /\ UNCHANGED <<memVars, poolVars, sq, rx_buffers, appVars, got, history, crash>>
  BY <1>0, BreakEffect
<1>2. ASSUME NEW e \in Ends
      PROVE  InPlace(e)' /\ Unmoved(e)' /\ OwnChunks(e)' /\ (Fresh(e)' => Fresh(e)) /\ (Torn(e)' <=> Torn(e))
  <2>1. Torn(e)' <=> Torn(e)
    BY <1>1 DEF Torn, history
  <2>2. /\ posted'[e] = posted[e] /\ taken'[e] = taken[e] /\ channel'[e] = channel[e]
        /\ rx_buffers'[e] = rx_buffers[e] /\ offset'[e] = offset[e] /\ sq'[e] = sq[e]
    BY <1>1 DEF memVars, poolVars, history
  <2>3. CASE srq'[e] = srq[e] /\ rxcq'[e] = rxcq[e]
    <3>1. Fresh(e)' => Fresh(e)
      BY <2>2, <2>3 DEF Fresh
    <3> QED  BY <1>0, <2>1, <2>2, <2>3, <3>1, EndFrame
  <2>4. CASE ~(srq'[e] = srq[e] /\ rxcq'[e] = rxcq[e])
    <3>1. /\ srq[e] # <<>> /\ srq'[e] = Tail(srq[e])
          /\ rxcq'[e] = Append(rxcq[e], [chunk |-> Head(srq[e]), byte_len |-> 0, ok |-> FALSE])
      BY <1>1, <2>4 DEF BreakDoes
    <3>2. Typed(e)
      BY <1>0, TypedEnds
    <3>3. PICK done \in RxDone : done = [chunk |-> Head(srq[e]), byte_len |-> 0, ok |-> FALSE]
      <4>1. Head(srq[e]) \in Chunks
        BY <3>1, <3>2, HeadTailProperties DEF Typed
      <4>2. 0 \in 0 .. ChunkSize
        BY Consts
      <4> QED  BY <4>1, <4>2 DEF RxDone
    <3>4. done.chunk = Head(srq[e]) /\ rxcq'[e] = Append(rxcq[e], done)
      BY <3>1, <3>3
    <3>5. InPlace(e)' /\ Unmoved(e)' /\ UsedUp(e)' = UsedUp(e) + 1 /\ UsedUp(e) \in Nat
      BY <1>0, <2>2, <3>1, <3>2, <3>4, OneMoreUsed
    <3>6. OwnChunks(e)'
      BY <1>0, <2>1, <2>2 DEF OwnChunks
    <3>7. Fresh(e)' => Fresh(e)
      <4>1. PICK t \in Nat, u \in Nat, R \in Nat :
               t = taken[e] /\ u = UsedUp(e) /\ t = taken'[e] /\ u + 1 = UsedUp(e)' /\ R = RxNum
        BY <2>2, <3>2, <3>5, Consts DEF Typed
      <4>2. Fresh(e) <=> u <= R - t
        BY <1>0, <4>1, FreshIs
      <4>3. Fresh(e)' <=> u + 1 <= R - t
        BY <1>1, <4>1, FreshIsNext
      <4>4. u + 1 <= R - t => u <= R - t
        OBVIOUS
      <4> QED  BY <4>2, <4>3, <4>4
    <3> QED  BY <2>1, <3>5, <3>6, <3>7
  <2> QED  BY <2>3, <2>4
<1>3. ASSUME NEW e \in Ends, Fresh(e)', Fresh(Peer[e])', ~Torn(e)' PROVE Flows(e)'
  <2>1. Peer[e] \in Ends
    BY Consts
  <2>2. Flows(e)
    BY <1>2, <1>3, <2>1 DEF FlowInv
  <2>3. UNCHANGED <<memVars, rx_buffers, given, got>>
    BY <1>1 DEF appVars
  <2> QED  BY <1>0, <1>1, <2>1, <2>2, <2>3, BreakKeepsWay
<1> QED  BY <1>1, <1>2, <1>3 DEF FlowInv

\* The process that meets the flush dies; nothing moves.
LEMMA FlushFlows ==
    ASSUME FlowInv, NEW x \in Ends, Flush(x)
    PROVE  FlowInv'
<1>1. /\ crash' = "assert"
      /\ UNCHANGED <<memVars, poolVars, srq, sq, rxcq, event, rx_buffers, appVars, got, history, broken>>
  BY DEF Flush
<1>2. TypeOK'
  BY <1>1 DEF FlowInv, TypeOK, memVars, poolVars, appVars, history, CrashWay
<1>3. UNCHANGED <<memVars, poolVars, srq, sq, rxcq, rx_buffers, given, got, posted, refused, echoed, broken>>
  BY <1>1 DEF appVars, history
<1> QED  BY <1>2, <1>3, StillFlows

-----------------------------------------------------------------------------
(* read(): the loops over the kept chunks and the completions.              *)

KeptStep(f, e, st, len, k) == IF k = 0 THEN st ELSE ReadKept(e, f[k - 1], rx_buffers[e][k], len)
IsKept(f, e, st, len, n) == f = [k \in 0 .. n |-> KeptStep(f, e, st, len, k)]

\* The loop of read_buffers is well defined.
LEMMA KeptExists ==
    ASSUME NEW e, NEW st, NEW len, NEW n \in Nat
    PROVE  \E f : IsKept(f, e, st, len, n)
<1> DEFINE G == {m \in 0 .. n : \E f : IsKept(f, e, st, len, m)}
<1>1. 0 \in G
  <2> DEFINE g == [k \in 0 .. 0 |-> st]
  <2>1. IsKept(g, e, st, len, 0)
    BY DEF IsKept, KeptStep
  <2> QED  BY <2>1
<1>2. ASSUME NEW m \in 1 .. n, m - 1 \in G PROVE m \in G
  <2>1. PICK f : IsKept(f, e, st, len, m - 1)
    BY <1>2
  <2> DEFINE g == [k \in 0 .. m |-> IF k = m THEN KeptStep(f, e, st, len, k) ELSE f[k]]
  <2>2. ASSUME NEW k \in 0 .. m PROVE g[k] = KeptStep(g, e, st, len, k)
    <3>1. k # 0 => k - 1 \in 0 .. m /\ k - 1 # m
      OBVIOUS
    <3>2. k # 0 => g[k - 1] = f[k - 1]
      BY <3>1
    <3>3. KeptStep(g, e, st, len, k) = KeptStep(f, e, st, len, k)
      <4> HIDE DEF g
      <4> QED  BY <3>2 DEF KeptStep
    <3>4. CASE k = m
      BY <3>3, <3>4
    <3>5. CASE k # m
      <4>1. k \in 0 .. (m - 1)
        BY <3>5
      <4>2. f[k] = KeptStep(f, e, st, len, k)
        BY <2>1, <4>1 DEF IsKept
      <4> QED  BY <3>3, <3>5, <4>2
    <3> QED  BY <3>4, <3>5
  <2>3. IsKept(g, e, st, len, m)
    BY <2>2 DEF IsKept
  <2> QED  BY <2>3
<1>3. n \in 0 .. n
  OBVIOUS
<1>4. n \in G
  <2> HIDE DEF G
  <2> QED  BY <1>1, <1>2, <1>3, StepByStep
<1> QED  BY <1>4

LEMMA ReadBuffersIs ==
    ASSUME NEW e, NEW st, NEW len, Len(rx_buffers[e]) \in Nat
    PROVE  \E f : /\ ReadBuffers(e, st, len) = f[Len(rx_buffers[e])] /\ f[0] = st
                  /\ \A k \in 1 .. Len(rx_buffers[e]) : f[k] = ReadKept(e, f[k - 1], rx_buffers[e][k], len)
<1>1. PICK n \in Nat : n = Len(rx_buffers[e])
  OBVIOUS
<1>2. \E f : IsKept(f, e, st, len, n)
  BY KeptExists
<1>3. PICK f : IsKept(f, e, st, len, n) /\ ReadBuffers(e, st, len) = f[n]
  BY <1>1, <1>2 DEF ReadBuffers, IsKept, KeptStep
<1>4. 0 \in 0 .. n /\ \A k \in 1 .. n : k \in 0 .. n /\ k # 0
  OBVIOUS
<1>5. f[0] = st /\ \A k \in 1 .. n : f[k] = ReadKept(e, f[k - 1], rx_buffers[e][k], len)
  BY <1>3, <1>4 DEF IsKept, KeptStep
<1> QED  BY <1>1, <1>3, <1>5

TakenStep(f, e, st, len, k) == IF k = 0 THEN st ELSE Take(e, f[k - 1], rxcq[e][k], len)
IsTaken(f, e, st, len, n) == f = [k \in 0 .. n |-> TakenStep(f, e, st, len, k)]

\* And so is the one over the completions.
LEMMA TakenExists ==
    ASSUME NEW e, NEW st, NEW len, NEW n \in Nat
    PROVE  \E f : IsTaken(f, e, st, len, n)
<1> DEFINE G == {m \in 0 .. n : \E f : IsTaken(f, e, st, len, m)}
<1>1. 0 \in G
  <2> DEFINE g == [k \in 0 .. 0 |-> st]
  <2>1. IsTaken(g, e, st, len, 0)
    BY DEF IsTaken, TakenStep
  <2> QED  BY <2>1
<1>2. ASSUME NEW m \in 1 .. n, m - 1 \in G PROVE m \in G
  <2>1. PICK f : IsTaken(f, e, st, len, m - 1)
    BY <1>2
  <2> DEFINE g == [k \in 0 .. m |-> IF k = m THEN TakenStep(f, e, st, len, k) ELSE f[k]]
  <2>2. ASSUME NEW k \in 0 .. m PROVE g[k] = TakenStep(g, e, st, len, k)
    <3>1. k # 0 => k - 1 \in 0 .. m /\ k - 1 # m
      OBVIOUS
    <3>2. k # 0 => g[k - 1] = f[k - 1]
      BY <3>1
    <3>3. TakenStep(g, e, st, len, k) = TakenStep(f, e, st, len, k)
      <4> HIDE DEF g
      <4> QED  BY <3>2 DEF TakenStep
    <3>4. CASE k = m
      BY <3>3, <3>4
    <3>5. CASE k # m
      <4>1. k \in 0 .. (m - 1)
        BY <3>5
      <4>2. f[k] = TakenStep(f, e, st, len, k)
        BY <2>1, <4>1 DEF IsTaken
      <4> QED  BY <3>3, <3>5, <4>2
    <3> QED  BY <3>4, <3>5
  <2>3. IsTaken(g, e, st, len, m)
    BY <2>2 DEF IsTaken
  <2> QED  BY <2>3
<1>3. n \in 0 .. n
  OBVIOUS
<1>4. n \in G
  <2> HIDE DEF G
  <2> QED  BY <1>1, <1>2, <1>3, StepByStep
<1> QED  BY <1>4

TakenInTurn(f, e, st, len, n) ==
    /\ TakeAll(e, st, len) = f[n] /\ f[0] = st
    /\ \A k \in 1 .. n : f[k] = Take(e, f[k - 1], rxcq[e][k], len)

LEMMA TakeAllIs ==
    ASSUME NEW e, NEW st, NEW len, NEW n \in Nat, n = Len(rxcq[e])
    PROVE  \E f : TakenInTurn(f, e, st, len, n)
<1>2. \E f : IsTaken(f, e, st, len, n)
  BY TakenExists
<1>3. PICK f : IsTaken(f, e, st, len, n) /\ TakeAll(e, st, len) = f[n]
  BY <1>2 DEF TakeAll, Polled, IsTaken, TakenStep
<1>4. 0 \in 0 .. n /\ \A k \in 1 .. n : k \in 0 .. n /\ k # 0
  OBVIOUS
<1>5. f[0] = st /\ \A k \in 1 .. n : f[k] = Take(e, f[k - 1], rxcq[e][k], len)
  BY <1>3, <1>4 DEF IsTaken, TakenStep
<1> QED  BY <1>3, <1>5 DEF TakenInTurn

\* The state of a call of read() for len bytes.
Call(len) == [read : 0 .. len, out : Seq(Byte), off : [Chunks -> 0 .. ChunkSize], kept : Seq(Chunks)]

LEMMA CallFields ==
    ASSUME NEW len, NEW st \in Call(len)
    PROVE  /\ st.read \in 0 .. len /\ st.out \in Seq(Byte) /\ st.off \in [Chunks -> 0 .. ChunkSize]
           /\ st.kept \in Seq(Chunks)
           /\ st = [read |-> st.read, out |-> st.out, off |-> st.off, kept |-> st.kept]
  BY DEF Call

Moved(st, b, o, c, v) == [st EXCEPT !.read = b, !.out = o, !.off[c] = v]
LEMMA CallMoves ==
    ASSUME NEW len, NEW st \in Call(len), NEW c \in Chunks, NEW v \in 0 .. ChunkSize, NEW b \in 0 .. len,
           NEW o \in Seq(Byte), NEW r, r = Moved(st, b, o, c, v)
    PROVE  r \in Call(len) /\ r.kept = st.kept /\ r.off = [st.off EXCEPT ![c] = v] /\ r.out = o
<1>1. r \in Call(len)
  BY DEF Call, Moved
<1>2. r.kept = st.kept /\ r.off = [st.off EXCEPT ![c] = v] /\ r.out = o
  BY DEF Call, Moved
<1> QED  BY <1>1, <1>2

\* A stretch of a chunk.
LEMMA Stretch ==
    ASSUME NEW s \in [1 .. ChunkSize -> Byte], NEW a \in Nat, NEW b \in Nat, b <= ChunkSize
    PROVE  SubSeq(s, a + 1, b) \in Seq(Byte)
<1>0. PICK C \in Nat : C = ChunkSize
  BY Consts
<1>1. a + 1 \in Int /\ b \in Int /\ \A k \in (a + 1) .. b : k \in 1 .. C
  BY <1>0
<1>2. \A k \in (a + 1) .. b : s[k] \in Byte
  BY <1>0, <1>1
<1> QED  BY <1>1, <1>2, SubSeqProperties

\* Chunk::read stays in its chunk and gives what it advances over.
Advances(e, len, st, c, want, r) ==
    /\ r \in Call(len) /\ r.kept = st.kept
    /\ \A k \in Chunks : k # c => r.off[k] = st.off[k]
    /\ \E w \in Seq(Byte) :
          /\ r.out = st.out \o w
          /\ st.off[c] = 0 /\ want <= ChunkSize => w = SubSeq(buffer[e][c], 1, want)

LEMMA ChunkReadIs ==
    ASSUME NEW e, buffer[e] \in [Chunks -> [1 .. ChunkSize -> Byte]], NEW len \in Nat, NEW st \in Call(len),
           NEW c \in Chunks, NEW want \in Nat, st.read + want <= len
    PROVE  Advances(e, len, st, c, want, ChunkRead(e, st, c, want))
<1>0. PICK C \in Nat : C = ChunkSize
  BY Consts
<1>1. PICK x \in 0 .. C, a \in Nat : x = st.off[c] /\ a = st.read /\ a + want <= len
  BY <1>0, CallFields
<1>2. PICK num \in Nat : num = Least(C - x, want) /\ num <= want /\ x + num <= C /\ num <= C - x
  <2>1. Least(C - x, want) \in {C - x, want} /\ Least(C - x, want) <= want /\ Least(C - x, want) <= C - x
    BY DEF Least
  <2>2. C - x \in Nat /\ \A k \in Nat : k <= C - x => x + k <= C
    OBVIOUS
  <2> QED  BY <2>1, <2>2
<1>3. PICK w : w = SubSeq(buffer[e][c], x + 1, x + num)
  OBVIOUS
<1>4. w \in Seq(Byte)
  <2>1. buffer[e][c] \in [1 .. ChunkSize -> Byte] /\ x \in Nat /\ x + num \in Nat /\ x + num <= ChunkSize
    BY <1>0, <1>2
  <2> QED  BY <1>3, <2>1, Stretch
<1>5. PICK v \in 0 .. C : v = IF C - x >= want THEN x + want ELSE 0
  <2>1. CASE C - x >= want
    BY <2>1
  <2>2. CASE ~(C - x >= want)
    BY <2>2
  <2> QED  BY <2>1, <2>2
<1>6. a + num \in 0 .. len
  BY <1>1, <1>2
<1>7. PICK b, o, r :
         /\ b \in 0 .. len /\ o \in Seq(Byte)
         /\ o = st.out \o w /\ r = ChunkRead(e, st, c, want)
         /\ r = [st EXCEPT !.read = b, !.out = o, !.off[c] = v]
  <2>1. st.out \o w \in Seq(Byte)
    BY <1>4, CallFields, ConcatProperties
  <2>2. ChunkRead(e, st, c, want) = [st EXCEPT !.read = a + num, !.out = st.out \o w, !.off[c] = v]
    BY <1>0, <1>1, <1>2, <1>3, <1>5, CallFields DEF ChunkRead
  <2> QED  BY <1>6, <2>1, <2>2
<1>9. r \in Call(len) /\ r.kept = st.kept /\ r.off = [st.off EXCEPT ![c] = v] /\ r.out = o
  <2>1. v \in 0 .. ChunkSize
    BY <1>0, <1>5
  <2>2. b \in 0 .. len /\ o \in Seq(Byte) /\ r = Moved(st, b, o, c, v)
    BY <1>7 DEF Moved
  <2> QED  BY <2>1, <2>2, CallMoves
<1>10. r.kept = st.kept /\ r.off = [st.off EXCEPT ![c] = v] /\ r.out = st.out \o w
  BY <1>7, <1>9
<1>11. \A k \in Chunks : k # c => r.off[k] = st.off[k]
  BY <1>10, CallFields
<1>8. ASSUME x = 0, want <= C PROVE w = SubSeq(buffer[e][c], 1, want)
  <2>1. num = want /\ x + 1 = 1 /\ x + num = want
    BY <1>2, <1>8 DEF Least
  <2> QED  BY <1>3, <2>1
<1>12. \E u \in Seq(Byte) :
          /\ r.out = st.out \o u
          /\ st.off[c] = 0 /\ want <= ChunkSize => u = SubSeq(buffer[e][c], 1, want)
  BY <1>0, <1>1, <1>4, <1>8, <1>10
<1>13. Advances(e, len, st, c, want, r)
  BY <1>9, <1>11, <1>12 DEF Advances
<1> QED  BY <1>7, <1>13

\* read_buffers: no chunk but the kept ones moves, and none is added.
LEMMA ReadKeptIs ==
    ASSUME NEW e, buffer[e] \in [Chunks -> [1 .. ChunkSize -> Byte]], NEW len \in Nat, NEW st \in Call(len),
           NEW c \in Chunks
    PROVE  LET r == ReadKept(e, st, c, len)
           IN  /\ r \in Call(len) /\ r.kept = st.kept
               /\ \A k \in Chunks : k # c => r.off[k] = st.off[k]
<1>1. CASE st.read = len
  BY <1>1 DEF ReadKept
<1>2. CASE st.read # len
  <2>1. PICK a \in Nat : a = st.read /\ a <= len
    BY CallFields
  <2>2. len - a \in Nat /\ a + (len - a) <= len
    BY <2>1
  <2>3. ReadKept(e, st, c, len) = ChunkRead(e, st, c, len - a)
    BY <1>2, <2>1 DEF ReadKept
  <2>4. PICK want \in Nat : want = len - a /\ st.read + want <= len
    BY <2>1, <2>2
  <2>5. Advances(e, len, st, c, want, ChunkRead(e, st, c, want))
    BY <2>4, ChunkReadIs
  <2> QED  BY <2>3, <2>4, <2>5 DEF Advances
<1> QED  BY <1>1, <1>2

LEMMA ReadBuffersKeeps ==
    ASSUME TypeOK, NEW e \in Ends, NEW len \in Nat, NEW st \in Call(len), NEW D \in Nat,
           \A k \in 1 .. Len(rx_buffers[e]) : rx_buffers[e][k] <= D
    PROVE  LET r == ReadBuffers(e, st, len)
           IN  /\ r \in Call(len) /\ r.kept = st.kept
               /\ \A c \in Chunks : D < c => r.off[c] = st.off[c]
               /\ rx_buffers[e] = <<>> => r = st
<1>1. PICK n \in Nat : n = Len(rx_buffers[e])
  BY TypedEnds DEF Typed
<1>2. buffer[e] \in [Chunks -> [1 .. ChunkSize -> Byte]] /\ \A k \in 1 .. n : rx_buffers[e][k] \in Chunks
  BY <1>1, TypedEnds, Parts DEF Typed
<1>3. PICK f : /\ ReadBuffers(e, st, len) = f[n] /\ f[0] = st
               /\ \A k \in 1 .. n : f[k] = ReadKept(e, f[k - 1], rx_buffers[e][k], len)
  <2>1. \E f : /\ ReadBuffers(e, st, len) = f[Len(rx_buffers[e])] /\ f[0] = st
               /\ \A k \in 1 .. Len(rx_buffers[e]) : f[k] = ReadKept(e, f[k - 1], rx_buffers[e][k], len)
    BY <1>1, ReadBuffersIs
  <2> QED  BY <1>1, <2>1
<1> DEFINE G == {k \in 0 .. n : /\ f[k] \in Call(len) /\ f[k].kept = st.kept
                                /\ \A c \in Chunks : D < c => f[k].off[c] = st.off[c]}
<1>4. 0 \in G
  BY <1>3
<1>5. ASSUME NEW k \in 1 .. n, k - 1 \in G PROVE k \in G
  <2>1. PICK s \in Call(len) : /\ s = f[k - 1] /\ s.kept = st.kept
                               /\ \A c \in Chunks : D < c => s.off[c] = st.off[c]
    BY <1>5
  <2>2. PICK b \in Chunks : b = rx_buffers[e][k] /\ b <= D
    BY <1>1, <1>2
  <2>3. PICK r : r = f[k] /\ r = ReadKept(e, s, b, len)
    BY <1>3, <2>1, <2>2
  <2>4. r \in Call(len) /\ r.kept = s.kept /\ \A c \in Chunks : c # b => r.off[c] = s.off[c]
    BY <1>2, <2>3, ReadKeptIs
  <2>5. ASSUME NEW c \in Chunks, D < c PROVE r.off[c] = st.off[c]
    <3>1. c \in Nat /\ b \in Nat
      BY Consts DEF Chunks
    <3>2. c # b
      BY <2>2, <2>5, <3>1
    <3> QED  BY <2>1, <2>4, <2>5, <3>2
  <2>6. k \in 0 .. n
    OBVIOUS
  <2> QED  BY <2>1, <2>3, <2>4, <2>5, <2>6
<1>6. n \in 0 .. n
  OBVIOUS
<1>7. n \in G
  <2> HIDE DEF G
  <2> QED  BY <1>4, <1>5, <1>6, StepByStep
<1>8. rx_buffers[e] = <<>> => n = 0
  BY <1>1
<1> QED  BY <1>3, <1>7, <1>8

\* One completion: its chunk is kept, or what came in it was read.
Takes(e, st, d, r) ==
    /\ \A k \in Chunks : k # d.chunk => r.off[k] = st.off[k]
    /\ \E w \in Seq(Byte) :
          /\ r.out = st.out \o w
          /\ \/ r.kept = Append(st.kept, d.chunk)
             \/ r.kept = st.kept /\ (st.off[d.chunk] = 0 => w = SubSeq(buffer[e][d.chunk], 1, d.byte_len))

LEMMA TakeIs ==
    ASSUME NEW e, buffer[e] \in [Chunks -> [1 .. ChunkSize -> Byte]], NEW len \in Nat, NEW st \in Call(len),
           NEW d \in RxDone
    PROVE  Take(e, st, d, len) \in Call(len) /\ Takes(e, st, d, Take(e, st, d, len))
<1>0. PICK C \in Nat : C = ChunkSize
  BY Consts
<1>1. PICK c \in Chunks, l \in Nat : c = d.chunk /\ l = d.byte_len /\ l <= C
  BY <1>0 DEF RxDone
<1>2. PICK a \in Nat : a = st.read /\ a <= len
  BY CallFields
<1>3. st.kept \in Seq(Chunks) /\ st.out \in Seq(Byte)
  BY CallFields
<1>4. Append(st.kept, c) \in Seq(Chunks)
  BY <1>3, AppendProperties
<1>5. ASSUME NEW s \in Call(len), NEW r, r = [s EXCEPT !.kept = Append(@, c)], s.kept = st.kept
      PROVE  r \in Call(len) /\ r.off = s.off /\ r.out = s.out /\ r.kept = Append(st.kept, c)
  <2>1. Append(s.kept, c) \in Seq(Chunks) /\ r = [s EXCEPT !.kept = Append(s.kept, c)]
    BY <1>4, <1>5 DEF Call
  <2>2. PICK q \in Seq(Chunks) : q = Append(s.kept, c) /\ r = [s EXCEPT !.kept = q]
    BY <2>1
  <2>3. r \in Call(len)
    BY <2>2 DEF Call
  <2>4. r.off = s.off /\ r.out = s.out /\ r.kept = q
    BY <2>2 DEF Call
  <2> QED  BY <1>5, <2>2, <2>3, <2>4
<1>6. CASE a = len
  <2>1. PICK r : r = Take(e, st, d, len) /\ r = [st EXCEPT !.kept = Append(@, c)]
    BY <1>1, <1>2, <1>6 DEF Take
  <2>2. r \in Call(len) /\ r.off = st.off /\ r.out = st.out /\ r.kept = Append(st.kept, c)
    BY <1>5, <2>1
  <2>3. <<>> \in Seq(Byte) /\ st.out = st.out \o <<>>
    BY <1>3, ConcatEmptySeq, EmptySeq
  <2> QED  BY <1>1, <2>1, <2>2, <2>3 DEF Takes
<1>7. CASE a # len /\ a + l >= len
  <2>1. PICK want \in Nat : want = len - a /\ st.read + want <= len
    BY <1>2
  <2>2. PICK s : s = ChunkRead(e, st, c, want)
    OBVIOUS
  <2>3. /\ s \in Call(len) /\ s.kept = st.kept
        /\ \A k \in Chunks : k # c => s.off[k] = st.off[k]
        /\ \E w \in Seq(Byte) : s.out = st.out \o w
    <3>1. Advances(e, len, st, c, want, s)
      BY <2>1, <2>2, ChunkReadIs
    <3> QED  BY <3>1, Zenon DEF Advances
  <2>4. PICK r : r = Take(e, st, d, len) /\ r = [s EXCEPT !.kept = Append(@, c)]
    BY <1>1, <1>2, <1>7, <2>1, <2>2 DEF Take
  <2>5. r \in Call(len) /\ r.off = s.off /\ r.out = s.out /\ r.kept = Append(st.kept, c)
    BY <1>5, <2>3, <2>4
  <2> QED  BY <1>1, <2>3, <2>4, <2>5 DEF Takes
<1>8. CASE a # len /\ ~(a + l >= len)
  <2>1. st.read + l <= len
    BY <1>2, <1>8
  <2>2. PICK r : r = Take(e, st, d, len) /\ r = ChunkRead(e, st, c, l)
    BY <1>1, <1>2, <1>8 DEF Take
  <2>3. /\ r \in Call(len) /\ r.kept = st.kept
        /\ \A k \in Chunks : k # c => r.off[k] = st.off[k]
        /\ \E w \in Seq(Byte) : /\ r.out = st.out \o w
                                /\ st.off[c] = 0 /\ l <= ChunkSize => w = SubSeq(buffer[e][c], 1, l)
    <3>1. Advances(e, len, st, c, l, r)
      BY <2>1, <2>2, ChunkReadIs
    <3> QED  BY <3>1, Zenon DEF Advances
  <2> QED  BY <1>0, <1>1, <2>2, <2>3 DEF Takes
<1> QED  BY <1>6, <1>7, <1>8

\* The call after k completions that lie in the chunks behind the first D.
Taking(len, st, D, k, s) ==
    /\ s \in Call(len)
    /\ \A c \in Chunks : D + k < c => s.off[c] = st.off[c]
    /\ \A i \in 1 .. Len(s.kept) : s.kept[i] <= D + k
    /\ \A i \in 1 .. Len(st.kept) : \E j \in 1 .. Len(s.kept) : s.kept[j] = st.kept[i]

LEMMA TakingOn ==
    ASSUME NEW len, NEW st, NEW D \in Nat, NEW k \in Nat, NEW s, Taking(len, st, D, k, s),
           NEW e, NEW r \in Call(len), NEW d \in RxDone, d.chunk = D + (k + 1), Takes(e, s, d, r)
    PROVE  Taking(len, st, D, k + 1, r)
<1>0. PICK c \in Chunks : c = d.chunk /\ c = D + (k + 1) /\ c \in Nat
  BY DEF RxDone, Chunks
<1>1. s.kept \in Seq(Chunks) /\ Len(s.kept) \in Nat /\ s \in Call(len)
  BY CallFields, LenProperties DEF Taking
<1>2. ASSUME NEW b \in Chunks, D + (k + 1) < b PROVE r.off[b] = st.off[b]
  <2>1. b # c /\ D + k < b
    <3>1. b \in Nat
      BY DEF Chunks
    <3> QED  BY <1>0, <1>2, <3>1
  <2> QED  BY <1>0, <2>1 DEF Taking, Takes
<1>3. r.kept = Append(s.kept, c) \/ r.kept = s.kept
  BY <1>0 DEF Takes
<1>4. Append(s.kept, c) \in Seq(Chunks) /\ Len(Append(s.kept, c)) = Len(s.kept) + 1
      /\ (\A i \in 1 .. Len(s.kept) : Append(s.kept, c)[i] = s.kept[i]) /\ Append(s.kept, c)[Len(s.kept) + 1] = c
  BY <1>1, AppendProperties
<1>5. ASSUME NEW i \in 1 .. Len(r.kept) PROVE r.kept[i] <= D + (k + 1)
  <2>1. \A j \in 1 .. Len(s.kept) : s.kept[j] <= D + (k + 1)
    <3>1. ASSUME NEW j \in 1 .. Len(s.kept) PROVE s.kept[j] <= D + (k + 1)
      <4>1. PICK b \in Nat : b = s.kept[j] /\ b <= D + k
        <5>1. s.kept[j] \in Chunks
          BY <1>1, ElementOfSeq
        <5> QED  BY <5>1 DEF Taking, Chunks
      <4>2. b <= D + (k + 1)
        BY <4>1
      <4> QED  BY <4>1, <4>2
    <3> QED  BY <3>1
  <2>2. CASE r.kept = s.kept
    BY <2>1, <2>2
  <2>3. CASE r.kept = Append(s.kept, c)
    <3>1. i \in 1 .. Len(s.kept) + 1
      BY <1>4, <2>3
    <3>2. CASE i = Len(s.kept) + 1
      <4>1. c <= D + (k + 1)
        BY <1>0
      <4> QED  BY <1>4, <2>3, <3>2, <4>1
    <3>3. CASE i # Len(s.kept) + 1
      <4>1. i \in 1 .. Len(s.kept)
        BY <1>1, <3>1, <3>3
      <4> QED  BY <1>4, <2>1, <2>3, <4>1
    <3> QED  BY <3>2, <3>3
  <2> QED  BY <1>3, <2>2, <2>3
<1>6. ASSUME NEW i \in 1 .. Len(st.kept) PROVE \E j \in 1 .. Len(r.kept) : r.kept[j] = st.kept[i]
  <2>1. PICK j \in 1 .. Len(s.kept) : s.kept[j] = st.kept[i]
    BY DEF Taking
  <2>2. CASE r.kept = s.kept
    BY <2>1, <2>2
  <2>3. CASE r.kept = Append(s.kept, c)
    <3>1. j \in 1 .. Len(s.kept) + 1
      BY <1>1
    <3> QED  BY <1>4, <2>1, <2>3, <3>1
  <2> QED  BY <1>3, <2>2, <2>3
<1> QED  BY <1>2, <1>5, <1>6 DEF Taking

\* The call that has n completions before it, and its states in turn.
AtStart(e, st, D, n) ==
    /\ n = Len(rxcq[e]) /\ \A k \in 1 .. n : rxcq[e][k].chunk = D + k
    /\ \A i \in 1 .. Len(st.kept) : st.kept[i] <= D

InTurn(e, len, st, D, n, f) ==
    /\ TakeAll(e, st, len) = f[n] /\ f[0] = st
    /\ \A k \in 0 .. n : Taking(len, st, D, k, f[k])
    /\ \A k \in 1 .. n : Takes(e, f[k - 1], rxcq[e][k], f[k])

LEMMA TakeAllKeeps ==
    ASSUME TypeOK, NEW e \in Ends, NEW len \in Nat, NEW st \in Call(len), NEW D \in Nat, NEW n \in Nat,
           AtStart(e, st, D, n)
    PROVE  \E f : InTurn(e, len, st, D, n, f)
<1>1. /\ n = Len(rxcq[e]) /\ \A k \in 1 .. n : rxcq[e][k].chunk = D + k
      /\ \A i \in 1 .. Len(st.kept) : st.kept[i] <= D
  BY DEF AtStart
<1>2. buffer[e] \in [Chunks -> [1 .. ChunkSize -> Byte]] /\ \A k \in 1 .. n : rxcq[e][k] \in RxDone
  BY <1>1, TypedEnds, ElementOfSeq DEF Typed
<1>3. PICK f : /\ TakeAll(e, st, len) = f[n] /\ f[0] = st
               /\ \A k \in 1 .. n : f[k] = Take(e, f[k - 1], rxcq[e][k], len)
  <2>1. \E f : TakenInTurn(f, e, st, len, n)
    BY <1>1, TakeAllIs
  <2> QED  BY <2>1 DEF TakenInTurn
<1>4. ASSUME NEW k \in 1 .. n, f[k - 1] \in Call(len)
      PROVE  f[k] \in Call(len) /\ Takes(e, f[k - 1], rxcq[e][k], f[k])
  <2>1. PICK s \in Call(len), d \in RxDone : s = f[k - 1] /\ d = rxcq[e][k]
    BY <1>2, <1>4
  <2>2. PICK r : r = f[k] /\ r = Take(e, s, d, len)
    BY <1>3, <2>1
  <2>3. r \in Call(len) /\ Takes(e, s, d, r)
    <3>1. Take(e, s, d, len) \in Call(len) /\ Takes(e, s, d, Take(e, s, d, len))
      BY <1>2, TakeIs
    <3> QED  BY <2>2, <3>1
  <2> QED  BY <2>1, <2>2, <2>3
<1> DEFINE G == {k \in 0 .. n : Taking(len, st, D, k, f[k])}
<1>5. 0 \in G
  <2>1. D + 0 = D /\ 0 \in 0 .. n
    OBVIOUS
  <2>2. Taking(len, st, D, 0, st)
    BY <1>1, <2>1 DEF Taking
  <2> QED  BY <1>3, <2>1, <2>2
<1>6. ASSUME NEW k \in 1 .. n, k - 1 \in G PROVE k \in G
  <2>1. Taking(len, st, D, k - 1, f[k - 1]) /\ f[k - 1] \in Call(len)
    BY <1>6 DEF Taking
  <2>2. k - 1 \in Nat /\ (k - 1) + 1 = k /\ k \in 0 .. n
    OBVIOUS
  <2>3. f[k] \in Call(len) /\ Takes(e, f[k - 1], rxcq[e][k], f[k])
    BY <1>4, <2>1
  <2>4. rxcq[e][k] \in RxDone /\ rxcq[e][k].chunk = D + ((k - 1) + 1)
    BY <1>1, <1>2, <2>2
  <2>5. Taking(len, st, D, (k - 1) + 1, f[k])
    BY <2>1, <2>2, <2>3, <2>4, TakingOn
  <2> QED  BY <2>2, <2>5
<1>7. \A k \in 0 .. n : Taking(len, st, D, k, f[k])
  <2>1. \A k \in 0 .. n : k \in G
    <3> HIDE DEF G
    <3> QED  BY <1>5, <1>6, StepByStep
  <2> QED  BY <2>1
<1>8. ASSUME NEW k \in 1 .. n PROVE Takes(e, f[k - 1], rxcq[e][k], f[k])
  <2>1. k - 1 \in 0 .. n
    OBVIOUS
  <2>2. f[k - 1] \in Call(len)
    BY <1>7, <2>1 DEF Taking
  <2> QED  BY <1>4, <2>2
<1> QED  BY <1>3, <1>7, <1>8 DEF InTurn

\* A byte of a run is in it, and in the chunk that the run is a part of.
LEMMA RunHolds ==
    ASSUME NEW q \in Ends, NEW x \in Nat, NEW y \in Nat, NEW b \in Nat, x < b, b <= y
    PROVE  Len(Run(q, x, y)) = y - x /\ b - x \in 1 .. (y - x) /\ Run(q, x, y)[b - x] = <<q, b>>
<1>1. x <= y /\ b - x \in 1 .. (y - x) /\ x + (b - x) = b
  OBVIOUS
<1>2. Len(Run(q, x, y)) = y - x
  BY <1>1, RunSeq
<1>3. Run(q, x, y)[b - x] = <<q, b>>
  BY <1>1 DEF Run
<1> QED  BY <1>1, <1>2, <1>3

IsPart(s, l, q, x, y) ==
    s \in [1 .. ChunkSize -> Byte] /\ l \in 0 .. ChunkSize /\ SubSeq(s, 1, l) = Run(q, x, y)

LEMMA PartHolds ==
    ASSUME NEW s, NEW l, NEW q \in Ends, NEW x \in Nat, NEW y \in Nat, IsPart(s, l, q, x, y),
           NEW b \in Nat, x < b, b <= y
    PROVE  b - x \in 1 .. ChunkSize /\ s[b - x] = <<q, b>>
<1>1. PICK j : j = b - x
  OBVIOUS
<1>2. PICK w : w = Run(q, x, y) /\ w = SubSeq(s, 1, l)
  BY DEF IsPart
<1>3. Len(w) = y - x /\ j \in 1 .. (y - x) /\ w[j] = <<q, b>>
  <2>1. Len(Run(q, x, y)) = y - x /\ b - x \in 1 .. (y - x) /\ Run(q, x, y)[b - x] = <<q, b>>
    BY RunHolds, Zenon
  <2> QED  BY <1>1, <1>2, <2>1, Zenon
<1>4. Len(w) = l /\ \A k \in 1 .. l : w[k] = s[k]
  BY <1>2, BeginOf DEF IsPart
<1>5. l = y - x
  BY <1>3, <1>4
<1>6. j \in 1 .. l /\ j \in 1 .. ChunkSize
  <2>1. j \in 1 .. l
    BY <1>3, <1>5
  <2> QED  BY <2>1, Consts DEF IsPart
<1> QED  BY <1>1, <1>3, <1>4, <1>6

\* Byte b is in the caller's buffer or in a chunk that is kept.
InHand(e, out, kept, b) ==
    \/ \E i \in 1 .. Len(out) : out[i] = b
    \/ \E i \in 1 .. Len(kept) : \E j \in 1 .. ChunkSize : buffer[e][kept[i]][j] = b

LEMMA InHandStays ==
    ASSUME NEW e, NEW o \in Seq(Byte), NEW w \in Seq(Byte), NEW kept \in Seq(Chunks), NEW c \in Chunks,
           NEW kept2, kept2 = kept \/ kept2 = Append(kept, c), NEW b, InHand(e, o, kept, b)
    PROVE  InHand(e, o \o w, kept2, b)
<1>1. /\ Len(o) \in Nat /\ Len(w) \in Nat /\ Len(kept) \in Nat
      /\ Len(o \o w) = Len(o) + Len(w)
      /\ \A i \in 1 .. Len(o) + Len(w) : (o \o w)[i] = IF i <= Len(o) THEN o[i] ELSE w[i - Len(o)]
      /\ Len(Append(kept, c)) = Len(kept) + 1 /\ \A i \in 1 .. Len(kept) : Append(kept, c)[i] = kept[i]
  BY ConcatProperties, AppendProperties, LenProperties
<1>2. CASE \E i \in 1 .. Len(o) : o[i] = b
  <2>1. PICK i \in 1 .. Len(o) : o[i] = b
    BY <1>2
  <2>2. i \in 1 .. Len(o) + Len(w) /\ i <= Len(o)
    BY <1>1
  <2>3. (o \o w)[i] = b /\ i \in 1 .. Len(o \o w)
    BY <1>1, <2>1, <2>2
  <2> QED  BY <2>3 DEF InHand
<1>3. CASE \E i \in 1 .. Len(kept) : \E j \in 1 .. ChunkSize : buffer[e][kept[i]][j] = b
  <2>1. PICK i \in 1 .. Len(kept) : \E j \in 1 .. ChunkSize : buffer[e][kept[i]][j] = b
    BY <1>3
  <2>2. i \in 1 .. Len(kept) + 1
    BY <1>1
  <2>3. i \in 1 .. Len(kept2) /\ kept2[i] = kept[i]
    BY <1>1, <2>2
  <2>4. \E k \in 1 .. Len(kept2) : \E j \in 1 .. ChunkSize : buffer[e][kept2[k]][j] = b
    BY <2>1, <2>3, Zenon
  <2> QED  BY <2>4 DEF InHand
<1> QED  BY <1>2, <1>3 DEF InHand

\* The call has the bytes x + 1 .. y, in order while it keeps no chunk.
Holds(e, q, x, y, s) ==
    /\ s.kept = <<>> => s.out = Run(q, x, y)
    /\ \A b \in Nat : x < b /\ b <= y => InHand(e, s.out, s.kept, <<q, b>>)

LEMMA HoldsOn ==
    ASSUME NEW e, buffer[e] \in [Chunks -> [1 .. ChunkSize -> Byte]], NEW q \in Ends,
           NEW len, NEW s \in Call(len), NEW r \in Call(len), NEW d \in RxDone, Takes(e, s, d, r),
           s.off[d.chunk] = 0, NEW x0 \in Nat, NEW x \in Nat, NEW y \in Nat, x0 <= x, x <= y,
           Holds(e, q, x0, x, s), IsPart(buffer[e][d.chunk], d.byte_len, q, x, y)
    PROVE  Holds(e, q, x0, y, r)
<1>0. PICK c \in Chunks, l \in 0 .. ChunkSize : c = d.chunk /\ l = d.byte_len
  BY DEF RxDone
<1>1. PICK o \in Seq(Byte), kept \in Seq(Chunks) : o = s.out /\ kept = s.kept
  BY CallFields
<1>2. PICK w \in Seq(Byte) : /\ r.out = o \o w
                             /\ \/ r.kept = Append(kept, c)
                                \/ r.kept = kept /\ w = SubSeq(buffer[e][c], 1, l)
  BY <1>0, <1>1 DEF Takes
<1>3. IsPart(buffer[e][c], l, q, x, y)
  BY <1>0
<1>6. ASSUME NEW b \in Nat, x < b, b <= y PROVE b - x \in 1 .. ChunkSize /\ buffer[e][c][b - x] = <<q, b>>
  <2>1. PICK t : t = buffer[e][c]
    OBVIOUS
  <2>2. IsPart(t, l, q, x, y)
    BY <1>3, <2>1
  <2>3. b - x \in 1 .. ChunkSize
    BY <1>6, <2>2, PartHolds
  <2>4. t[b - x] = <<q, b>>
    BY <1>6, <2>2, PartHolds
  <2> QED  BY <2>1, <2>3, <2>4
<1>4. ASSUME NEW b \in Nat, x0 < b, b <= y PROVE InHand(e, r.out, r.kept, <<q, b>>)
  <2>1. CASE b <= x
    <3>1. InHand(e, o, kept, <<q, b>>)
      BY <1>1, <1>4, <2>1 DEF Holds
    <3>2. r.kept = kept \/ r.kept = Append(kept, c)
      BY <1>2
    <3>3. InHand(e, o \o w, r.kept, <<q, b>>)
      BY <3>1, <3>2, InHandStays
    <3> QED  BY <1>2, <3>3
  <2>2. CASE ~(b <= x)
    <3>0. x < b
      BY <2>2
    <3>1. CASE r.kept = Append(kept, c)
      <4>1. PICK j \in 1 .. ChunkSize : buffer[e][c][j] = <<q, b>>
        <5>1. b - x \in 1 .. ChunkSize /\ buffer[e][c][b - x] = <<q, b>>
          BY <1>4, <1>6, <3>0
        <5> QED  BY <5>1, Zenon
      <4>2. Len(kept) \in Nat /\ Len(r.kept) = Len(kept) + 1 /\ r.kept[Len(kept) + 1] = c
        BY <3>1, AppendProperties, LenProperties
      <4>3. Len(kept) + 1 \in 1 .. Len(r.kept)
        BY <4>2
      <4>4. \E i \in 1 .. Len(r.kept) : \E h \in 1 .. ChunkSize : buffer[e][r.kept[i]][h] = <<q, b>>
        BY <4>1, <4>2, <4>3, Zenon
      <4> QED  BY <4>4 DEF InHand
    <3>2. CASE r.kept = kept /\ w = SubSeq(buffer[e][c], 1, l)
      <4>1. w = Run(q, x, y)
        BY <1>3, <3>2 DEF IsPart
      <4>2. PICK j \in Nat : j = b - x
        BY <3>0
      <4>3. j \in 1 .. Len(w) /\ w[j] = <<q, b>>
        <5>1. Len(Run(q, x, y)) = y - x /\ b - x \in 1 .. (y - x) /\ Run(q, x, y)[b - x] = <<q, b>>
          BY <1>4, <3>0, RunHolds
        <5> QED  BY <4>1, <4>2, <5>1, Zenon
      <4>4. /\ Len(o) \in Nat /\ Len(w) \in Nat /\ Len(o \o w) = Len(o) + Len(w)
            /\ \A i \in 1 .. Len(o) + Len(w) : (o \o w)[i] = IF i <= Len(o) THEN o[i] ELSE w[i - Len(o)]
        BY ConcatProperties, LenProperties
      <4>5. Len(o) + j \in 1 .. Len(o) + Len(w) /\ ~(Len(o) + j <= Len(o)) /\ (Len(o) + j) - Len(o) = j
        <5>1. PICK h \in Nat, g \in Nat : h = Len(o) /\ g = Len(w)
          BY <4>4
        <5>2. j \in 1 .. g
          BY <4>3, <5>1
        <5>3. h + j \in 1 .. h + g /\ ~(h + j <= h) /\ (h + j) - h = j
          BY <5>2
        <5> QED  BY <5>1, <5>3
      <4>6. (o \o w)[Len(o) + j] = <<q, b>> /\ Len(o) + j \in 1 .. Len(o \o w)
        BY <4>3, <4>4, <4>5
      <4>7. \E i \in 1 .. Len(r.out) : r.out[i] = <<q, b>>
        BY <1>2, <4>6
      <4> QED  BY <4>7 DEF InHand
    <3> QED  BY <1>2, <3>1, <3>2
  <2> QED  BY <2>1, <2>2
<1>5. ASSUME r.kept = <<>> PROVE r.out = Run(q, x0, y)
  <2>1. r.kept # Append(kept, c)
    BY <1>5, AppendProperties
  <2>2. kept = <<>> /\ w = Run(q, x, y)
    BY <1>2, <1>3, <1>5, <2>1 DEF IsPart
  <2>3. o = Run(q, x0, x)
    BY <1>1, <2>2 DEF Holds
  <2>4. Run(q, x0, x) \o Run(q, x, y) = Run(q, x0, y)
    BY RunGoesOn
  <2> QED  BY <1>2, <2>2, <2>3, <2>4
<1> QED  BY <1>4, <1>5 DEF Holds

\* What a call of read() ends with: the whole of what arrived, in hand.
LEMMA TakeAllHolds ==
    ASSUME TypeOK, NEW e \in Ends, NEW len \in Nat, NEW st \in Call(len), NEW D \in Nat, NEW n \in Nat,
           AtStart(e, st, D, n), \A c \in Chunks : D < c /\ c <= D + n => st.off[c] = 0,
           st.kept = <<>> => st.out = <<>>,
           NEW q \in Ends, NEW cs, IsChain(cs, Arrived(e), n, q)
    PROVE  Holds(e, q, cs[1], cs[n + 1], TakeAll(e, st, len))
<1>0. PICK f : InTurn(e, len, st, D, n, f)
  BY TakeAllKeeps
<1>1. /\ TakeAll(e, st, len) = f[n] /\ f[0] = st
      /\ \A k \in 0 .. n : Taking(len, st, D, k, f[k])
      /\ \A k \in 1 .. n : Takes(e, f[k - 1], rxcq[e][k], f[k])
  BY <1>0 DEF InTurn
<1>9. n = Len(rxcq[e]) /\ \A k \in 1 .. n : rxcq[e][k].chunk = D + k
  BY DEF AtStart
<1>2. buffer[e] \in [Chunks -> [1 .. ChunkSize -> Byte]] /\ \A k \in 1 .. n : rxcq[e][k] \in RxDone
  BY <1>9, TypedEnds, ElementOfSeq DEF Typed
<1>3. \A k \in 1 .. n + 1 : cs[k] \in Nat
  BY DEF IsChain
<1>4. PICK x0 \in Nat : x0 = cs[1]
  <2>1. 1 \in 1 .. n + 1
    OBVIOUS
  <2> QED  BY <1>3, <2>1
<1> DEFINE G == {k \in 0 .. n : x0 <= cs[k + 1] /\ Holds(e, q, x0, cs[k + 1], f[k])}
<1>5. 0 \in G
  <2>1. 0 + 1 = 1 /\ 0 \in 0 .. n /\ x0 <= x0 /\ \A b \in Nat : ~(x0 < b /\ b <= x0)
    OBVIOUS
  <2>2. Run(q, x0, x0) = <<>>
    BY EmptyRun
  <2>3. Holds(e, q, x0, x0, st)
    BY <2>1, <2>2 DEF Holds
  <2> QED  BY <1>1, <1>4, <2>1, <2>3
<1>6. ASSUME NEW k \in 1 .. n, k - 1 \in G PROVE k \in G
  <2>1. (k - 1) + 1 = k /\ k \in 0 .. n /\ k - 1 \in 0 .. n /\ k \in 1 .. n + 1 /\ k + 1 \in 1 .. n + 1
    OBVIOUS
  <2>2. x0 <= cs[k] /\ Holds(e, q, x0, cs[k], f[k - 1])
    BY <1>6, <2>1
  <2> HIDE DEF G
  <2>3. PICK x \in Nat, y \in Nat : x = cs[k] /\ y = cs[k + 1]
    BY <1>3, <2>1
  <2>4. x <= y /\ Arrived(e)[k] = Run(q, x, y)
    BY <2>3 DEF IsChain
  <2>5. PICK d \in RxDone : d = rxcq[e][k] /\ d.chunk = D + k
    BY <1>2, <1>9
  <2>6. IsPart(buffer[e][d.chunk], d.byte_len, q, x, y)
    <3>1. d.chunk \in Chunks /\ d.byte_len \in 0 .. ChunkSize
      BY DEF RxDone
    <3>2. Arrived(e)[k] = SubSeq(buffer[e][d.chunk], 1, d.byte_len)
      BY <1>9, <2>5 DEF Arrived
    <3> QED  BY <1>2, <2>4, <3>1, <3>2 DEF IsPart
  <2>7. PICK s, r : /\ s = f[k - 1] /\ r = f[k] /\ Taking(len, st, D, k - 1, s) /\ Taking(len, st, D, k, r)
                    /\ Takes(e, s, d, r)
    BY <1>1, <2>1, <2>5
  <2>8. s \in Call(len) /\ r \in Call(len)
    BY <2>7 DEF Taking
  <2>9. s.off[d.chunk] = 0
    <3>1. PICK c \in Chunks : c = d.chunk /\ c = D + k
      BY <2>5 DEF RxDone
    <3>2. D + (k - 1) < c /\ D < c /\ c <= D + n
      BY <3>1
    <3>3. s.off[c] = st.off[c]
      BY <2>7, <3>2 DEF Taking
    <3> QED  BY <3>1, <3>2, <3>3
  <2>10. Holds(e, q, x0, y, r)
    <3>1. x0 <= x /\ Holds(e, q, x0, x, s)
      BY <2>2, <2>3, <2>7
    <3>2. Takes(e, s, d, r) /\ x <= y
      BY <2>4, <2>7
    <3> QED  BY <1>2, <2>6, <2>8, <2>9, <3>1, <3>2, HoldsOn
  <2>11. x0 <= y
    BY <2>2, <2>3, <2>4
  <2> QED  BY <2>1, <2>3, <2>7, <2>10, <2>11 DEF G
<1>7. n \in 0 .. n
  OBVIOUS
<1>8. n \in G
  <2> HIDE DEF G
  <2> QED  BY <1>5, <1>6, <1>7, StepByStep
<1> QED  BY <1>1, <1>4, <1>8

-----------------------------------------------------------------------------
(* A call of read().                                                        *)

\* What it leaves behind: s is the call before the completions, end the one after.
ReadDoes(x, len, D, n, s, end) ==
    /\ D \in Nat /\ D = DoneWith(x) /\ n \in Nat /\ s \in Call(len) /\ end \in Call(len)
    /\ AtStart(x, s, D, n) /\ end = TakeAll(x, s, len) /\ Taking(len, s, D, n, end)
    /\ s.kept = rx_buffers[x] /\ (rx_buffers[x] = <<>> => s.out = <<>>)
    /\ \A c \in Chunks : D < c => s.off[c] = offset[x][c]
    /\ offset' = [offset EXCEPT ![x] = end.off] /\ rx_buffers' = [rx_buffers EXCEPT ![x] = end.kept]
    /\ got' = [got EXCEPT ![x] = got[x] \o end.out] /\ rxcq' = [rxcq EXCEPT ![x] = <<>>]
    /\ event' \in [Ends -> BOOLEAN] /\ deaf' \subseteq Ends
    /\ UNCHANGED <<buffer, channel, taken, srq, sq, given, empties, posted, refused, echoed, broken, crash>>

LEMMA ReadEffect ==
    ASSUME FlowInv, NEW x \in Ends, NEW len \in Nat, Read(x, len),
           ~\E k \in DOMAIN rxcq[x] : ~rxcq[x][k].ok
    PROVE  \E D, n, s, end : ReadDoes(x, len, D, n, s, end)
<1>0. TypeOK /\ InPlace(x) /\ Typed(x)
  BY TypedEnds DEF FlowInv
<1>1. PICK start : start = [read |-> 0, out |-> <<>>, off |-> offset[x], kept |-> rx_buffers[x]]
  OBVIOUS
<1>2. PICK s : s = ReadBuffers(x, start, len)
  OBVIOUS
<1>3. PICK end : end = TakeAll(x, s, len)
  OBVIOUS
<1>4. /\ offset' = [offset EXCEPT ![x] = end.off] /\ rx_buffers' = [rx_buffers EXCEPT ![x] = end.kept]
      /\ got' = [got EXCEPT ![x] = @ \o end.out]
      /\ rxcq' = [rxcq EXCEPT ![x] = SubSeq(@, Len(rxcq[x]) + 1, Len(@))]
      /\ \E again \in {FALSE, rxcq[x] # <<>>} : event' = [event EXCEPT ![x] = again]
      /\ deaf' = deaf \/ deaf' = deaf \cup {x}
      /\ UNCHANGED <<buffer, channel, taken, srq, sq, given, empties, posted, refused, echoed, broken, crash>>
  BY <1>1, <1>2, <1>3, Zenon DEF Read, Polled, poolVars, appVars
<1>5. start \in Call(len) /\ start.kept = rx_buffers[x] /\ start.off = offset[x] /\ start.out = <<>>
  <2>1. 0 \in 0 .. len /\ <<>> \in Seq(Byte)
    OBVIOUS
  <2> QED  BY <1>0, <1>1, <2>1 DEF Call, Typed
<1>6. PICK D \in Nat, n \in Nat : D = DoneWith(x) /\ n = Len(rxcq[x])
  BY <1>0 DEF InPlace, Typed
<1>7. /\ \A k \in 1 .. n : rxcq[x][k].chunk = D + k
      /\ \A k \in 1 .. Len(rx_buffers[x]) : rx_buffers[x][k] <= D
  BY <1>0, <1>6 DEF InPlace
<1>8. /\ s \in Call(len) /\ s.kept = start.kept
      /\ \A c \in Chunks : D < c => s.off[c] = start.off[c]
      /\ rx_buffers[x] = <<>> => s = start
  BY <1>0, <1>2, <1>5, <1>7, ReadBuffersKeeps
<1>9. AtStart(x, s, D, n)
  BY <1>5, <1>6, <1>7, <1>8 DEF AtStart
<1>10. Taking(len, s, D, n, end) /\ end \in Call(len)
  <2>1. PICK f : InTurn(x, len, s, D, n, f)
    BY <1>0, <1>8, <1>9, TakeAllKeeps
  <2>2. n \in 0 .. n
    OBVIOUS
  <2>3. Taking(len, s, D, n, end)
    BY <1>3, <2>1, <2>2 DEF InTurn
  <2> QED  BY <2>3 DEF Taking
<1>11. rxcq' = [rxcq EXCEPT ![x] = <<>>]
  <2>1. SubSeq(rxcq[x], n + 1, n) = <<>>
    <3>1. n + 1 \in Int /\ n \in Int /\ ~(n + 1 <= n) /\ \A k \in (n + 1) .. n : FALSE
      OBVIOUS
    <3>2. PICK w : w = SubSeq(rxcq[x], n + 1, n)
      OBVIOUS
    <3>3. w \in Seq(RxDone) /\ Len(w) = IF n + 1 <= n THEN n - (n + 1) + 1 ELSE 0
      BY <3>1, <3>2, SubSeqProperties
    <3>4. Len(w) = 0
      BY <3>1, <3>3
    <3> QED  BY <3>2, <3>3, <3>4, EmptySeq
  <2> QED  BY <1>4, <1>6, <2>1
<1>12. event' \in [Ends -> BOOLEAN]
  BY <1>0, <1>4 DEF TypeOK
<1>13. deaf' \subseteq Ends
  BY <1>0, <1>4 DEF TypeOK
<1>14. got' = [got EXCEPT ![x] = got[x] \o end.out]
  BY <1>4
<1>15. ReadDoes(x, len, D, n, s, end)
  BY <1>3, <1>4, <1>5, <1>6, <1>8, <1>9, <1>10, <1>11, <1>12, <1>13, <1>14 DEF ReadDoes
<1> QED  BY <1>15

LEMMA ReadTypeOK ==
    ASSUME TypeOK, NEW x \in Ends, NEW len, NEW D, NEW n, NEW s, NEW end, ReadDoes(x, len, D, n, s, end)
    PROVE  TypeOK'
<1>1. end.out \in Seq(Byte) /\ end.off \in [Chunks -> 0 .. ChunkSize] /\ end.kept \in Seq(Chunks)
  BY CallFields DEF ReadDoes
<1>2. got[x] \o end.out \in Seq(Byte)
  BY <1>1, TypedEnds, ConcatProperties DEF Typed
<1>3. PICK o \in Seq(Byte) : o = got[x] \o end.out
  BY <1>2
<1>4. got' = [got EXCEPT ![x] = o]
  BY <1>3 DEF ReadDoes
<1>5. got' \in [Ends -> Seq(Byte)]
  BY <1>4 DEF TypeOK
<1>6. offset' \in [Ends -> [Chunks -> 0 .. ChunkSize]] /\ rx_buffers' \in [Ends -> Seq(Chunks)]
  BY <1>1 DEF ReadDoes, TypeOK
<1>7. rxcq' \in [Ends -> Seq(RxDone)]
  <2>1. <<>> \in Seq(RxDone)
    OBVIOUS
  <2> QED  BY <2>1 DEF ReadDoes, TypeOK
<1> QED  BY <1>5, <1>6, <1>7 DEF ReadDoes, TypeOK

\* What read() did to the end that called it.
LEMMA ReadInPlace ==
    ASSUME TypeOK, NEW x \in Ends, NEW len, NEW D, NEW n, NEW s, NEW end, ReadDoes(x, len, D, n, s, end),
           InPlace(x), Unmoved(x), OwnChunks(x)
    PROVE  InPlace(x)' /\ Unmoved(x)' /\ OwnChunks(x)'
<1>0. n = Len(rxcq[x]) /\ D = DoneWith(x) /\ D \in Nat /\ n \in Nat
  BY DEF ReadDoes, AtStart
<1>1. /\ offset'[x] = end.off /\ rx_buffers'[x] = end.kept /\ rxcq'[x] = <<>>
      /\ channel'[x] = channel[x] /\ taken'[x] = taken[x] /\ srq'[x] = srq[x] /\ posted'[x] = posted[x]
      /\ sq'[x] = sq[x] /\ (Torn(x)' <=> Torn(x))
  BY DEF ReadDoes, TypeOK, Torn
<1>2. UsedUp(x)' = UsedUp(x) /\ Len(rxcq'[x]) = 0
  BY <1>1 DEF UsedUp
<1>3. DoneWith(x)' = D + n
  <2>1. PICK P \in Nat, L \in Nat : P = posted[x] /\ L = Len(srq[x])
    BY TypedEnds DEF Typed
  <2>2. D = (P - L) - n
    BY <1>0, <2>1 DEF DoneWith, UsedUp
  <2>3. (P - L) - 0 = D + n
    BY <1>0, <2>2
  <2> QED  BY <1>1, <1>2, <2>1, <2>3 DEF DoneWith, UsedUp
<1>4. D + n \in Nat
  BY <1>0
<1>5. \A k \in 1 .. Len(rx_buffers'[x]) : rx_buffers'[x][k] <= D + n
  BY <1>1 DEF ReadDoes, Taking
<1>6. \A k \in 1 .. 0 : FALSE
  OBVIOUS
<1>7. InPlace(x)'
  BY <1>1, <1>2, <1>3, <1>4, <1>5, <1>6 DEF InPlace
<1>8. Unmoved(x)'
  <2>1. ASSUME NEW c \in Chunks, D + n < c, c <= RxNum - taken[x] PROVE end.off[c] = 0
    <3>1. D < c
      <4>1. c \in Nat
        BY DEF Chunks
      <4> QED  BY <1>0, <2>1, <4>1
    <3>2. end.off[c] = s.off[c] /\ s.off[c] = offset[x][c]
      BY <2>1, <3>1 DEF ReadDoes, Taking
    <3> QED  BY <1>0, <2>1, <3>1, <3>2 DEF Unmoved
  <2> QED  BY <1>1, <1>3, <2>1 DEF Unmoved
<1>9. OwnChunks(x)'
  BY <1>1 DEF OwnChunks
<1> QED  BY <1>7, <1>8, <1>9

\* A chain without its first n parts.
Rest(cs, n, j) == [k \in 1 .. j + 1 |-> cs[n + k]]
LEMMA ChainRest ==
    ASSUME NEW q, NEW cs, NEW n \in Nat, NEW j \in Nat, NEW w, NEW w2, IsChain(cs, w, n + j, q),
           \A k \in 1 .. j : w2[k] = w[n + k]
    PROVE  /\ IsChain(Rest(cs, n, j), w2, j, q)
           /\ Rest(cs, n, j)[1] = cs[n + 1] /\ Rest(cs, n, j)[j + 1] = cs[(n + j) + 1]
<1>1. PICK r : r = Rest(cs, n, j)
  OBVIOUS
<1>2. \A k \in 1 .. j + 1 : r[k] = cs[n + k]
  BY <1>1 DEF Rest
<1>3. /\ 1 \in 1 .. j + 1 /\ j + 1 \in 1 .. j + 1 /\ n + (j + 1) = (n + j) + 1
      /\ \A k \in 1 .. j + 1 : n + k \in 1 .. (n + j) + 1
      /\ \A k \in 1 .. j : /\ k \in 1 .. j + 1 /\ k + 1 \in 1 .. j + 1 /\ n + k \in 1 .. n + j
                           /\ n + (k + 1) = (n + k) + 1
  OBVIOUS
<1>4. r[1] = cs[n + 1] /\ r[j + 1] = cs[(n + j) + 1]
  <2>1. r[1] = cs[n + 1] /\ r[j + 1] = cs[n + (j + 1)]
    BY <1>2, <1>3, Zenon
  <2>2. n + (j + 1) = (n + j) + 1
    OBVIOUS
  <2>3. cs[n + (j + 1)] = cs[(n + j) + 1]
    BY <2>2, Zenon
  <2> QED  BY <2>1, <2>3, Zenon
<1>5. \A k \in 1 .. j + 1 : r[k] \in Nat
  BY <1>2, <1>3, Zenon DEF IsChain
<1>6. ASSUME NEW k \in 1 .. j PROVE r[k] <= r[k + 1] /\ w2[k] = Run(q, r[k], r[k + 1])
  <2>2. r[k] = cs[n + k] /\ r[k + 1] = cs[n + (k + 1)] /\ n + k \in 1 .. n + j
    BY <1>2, <1>3, Zenon
  <2>3. n + (k + 1) = (n + k) + 1
    OBVIOUS
  <2>1. r[k] = cs[n + k] /\ r[k + 1] = cs[(n + k) + 1] /\ n + k \in 1 .. n + j
    <3>1. cs[n + (k + 1)] = cs[(n + k) + 1]
      BY <2>3, Zenon
    <3> QED  BY <2>2, <3>1, Zenon
  <2> QED  BY <2>1, Zenon DEF IsChain
<1> QED  BY <1>1, <1>4, <1>5, <1>6 DEF IsChain

\* What is in hand is known, and what was known stays so.
LEMMA KnownAfter ==
    ASSUME NEW x, got[x] \in Seq(Byte), NEW o \in Seq(Byte), NEW kept \in Seq(Chunks),
           got'[x] = got[x] \o o, rx_buffers'[x] = kept, buffer'[x] = buffer[x],
           \A i \in 1 .. Len(rx_buffers[x]) : \E j \in 1 .. Len(kept) : kept[j] = rx_buffers[x][i],
           NEW b, Known(x, b) \/ InHand(x, o, kept, b)
    PROVE  Known(x, b)'
<1>0. PICK g \in Seq(Byte) : g = got[x] /\ got'[x] = g \o o
  OBVIOUS
<1>1. PICK l \in Nat, m \in Nat : l = Len(g) /\ m = Len(o)
  BY LenProperties
<1>2. Len(g \o o) = l + m /\ \A i \in 1 .. l + m : (g \o o)[i] = IF i <= l THEN g[i] ELSE o[i - l]
  <2>1. /\ Len(g \o o) = Len(g) + Len(o)
        /\ \A i \in 1 .. Len(g) + Len(o) : (g \o o)[i] = IF i <= Len(g) THEN g[i] ELSE o[i - Len(g)]
    BY ConcatProperties, Zenon
  <2> QED  BY <1>1, <2>1, Zenon
<1>3. (\E i \in 1 .. l + m : (g \o o)[i] = b) => Known(x, b)'
  BY <1>0, <1>2 DEF Known
<1>4. (\E i \in 1 .. Len(kept) : \E j \in 1 .. ChunkSize : buffer[x][kept[i]][j] = b) => Known(x, b)'
  BY DEF Known
<1>5. CASE \E i \in 1 .. l : g[i] = b
  <2>1. PICK i \in 1 .. l : g[i] = b
    BY <1>5
  <2>2. i \in 1 .. l + m /\ i <= l
    OBVIOUS
  <2> QED  BY <1>2, <1>3, <2>1, <2>2
<1>6. CASE \E i \in 1 .. m : o[i] = b
  <2>1. PICK i \in 1 .. m : o[i] = b
    BY <1>6
  <2>2. l + i \in 1 .. l + m /\ ~(l + i <= l) /\ (l + i) - l = i
    OBVIOUS
  <2>3. (g \o o)[l + i] = b
    BY <1>2, <2>1, <2>2
  <2> QED  BY <1>3, <2>2, <2>3
<1>7. CASE \E k \in 1 .. Len(rx_buffers[x]) : \E j \in 1 .. ChunkSize : buffer[x][rx_buffers[x][k]][j] = b
  BY <1>4, <1>7, Zenon
<1>8. CASE \E i \in 1 .. Len(kept) : \E j \in 1 .. ChunkSize : buffer[x][kept[i]][j] = b
  BY <1>4, <1>8
<1> QED  BY <1>0, <1>1, <1>5, <1>6, <1>7, <1>8 DEF Known, InHand

\* The stream towards the end that reads: what had arrived is in the caller's hands.
LEMMA ReadKeepsFlow ==
    ASSUME FlowInv, TypeOK', NEW x \in Ends, NEW len \in Nat, NEW D, NEW n, NEW s, NEW end,
           ReadDoes(x, len, D, n, s, end), NEW q \in Ends, Peer[q] = x, Fresh(x), Flows(q)
    PROVE  Flows(q)'
<1>0. /\ TypeOK /\ Typed(x) /\ Unmoved(x) /\ D \in Nat /\ n \in Nat /\ n = Len(rxcq[x]) /\ AtStart(x, s, D, n)
      /\ D = DoneWith(x) /\ s \in Call(len)
  BY TypedEnds DEF FlowInv, ReadDoes, AtStart
<1>1. /\ rx_buffers'[x] = end.kept /\ got'[x] = got[x] \o end.out /\ rxcq'[x] = <<>> /\ buffer' = buffer
      /\ sq' = sq /\ given' = given /\ broken' = broken
  BY <1>0 DEF ReadDoes, TypeOK
<1>2. end.out \in Seq(Byte) /\ end.kept \in Seq(Chunks)
  BY CallFields DEF ReadDoes
<1>3. PICK cs : /\ IsChain(cs, Way(q), OnWay(q), q)
                /\ IF broken THEN cs[OnWay(q) + 1] <= given[q] ELSE cs[OnWay(q) + 1] = given[q]
                /\ HasRead(q, cs[1])
  BY DEF Flows
<1>4. /\ IsChain(cs, Arrived(x), n, q) /\ cs[1] <= cs[n + 1] /\ cs[1] \in Nat /\ cs[n + 1] \in Nat
  BY <1>0, <1>3, WaySplits
<1>5. PICK l \in Nat : l = Len(sq[q])
  BY <1>0, TypedEnds DEF Typed
<1>6. PICK j \in Nat : j = IF broken THEN 0 ELSE l
  OBVIOUS
<1>7. OnWay(q) = n + j /\ \A k \in 1 .. j : Way(q)[n + k] = SubSeq(buffer[q][sq[q][k].chunk], 1, sq[q][k].length)
  <2>1. WayIs(q, x, n, l)
    BY WayParts, Zenon
  <2>2. n + 0 = n /\ \A k \in 1 .. 0 : FALSE
    BY <1>0
  <2> QED  BY <1>0, <1>5, <1>6, <2>1, <2>2 DEF WayIs
<1>8. OnWay(q)' = j /\ \A k \in 1 .. j : Way(q)'[k] = SubSeq(buffer[q][sq[q][k].chunk], 1, sq[q][k].length)
  <2>1. WayIs(q, x, 0, l)'
    BY WayPartsNext, Zenon
  <2>2. 0 \in Nat /\ 0 + l = l /\ (\A k \in 1 .. 0 : FALSE) /\ \A k \in 1 .. l : 0 + k = k
    OBVIOUS
  <2>3. Len(rxcq'[x]) = 0
    BY <1>1
  <2> QED  BY <1>1, <1>5, <1>6, <2>1, <2>2, <2>3 DEF WayIs
<1>9. \A k \in 1 .. j : Way(q)'[k] = Way(q)[n + k]
  BY <1>7, <1>8, Zenon
<1>10. PICK r : /\ IsChain(r, Way(q)', j, q) /\ r[1] = cs[n + 1] /\ r[j + 1] = cs[(n + j) + 1]
  <2>1. IsChain(cs, Way(q), n + j, q)
    BY <1>3, <1>7
  <2>2. /\ IsChain(Rest(cs, n, j), Way(q)', j, q)
        /\ Rest(cs, n, j)[1] = cs[n + 1] /\ Rest(cs, n, j)[j + 1] = cs[(n + j) + 1]
    <3>1. PICK w, w2 : w = Way(q) /\ w2 = Way(q)'
      OBVIOUS
    <3>2. n \in Nat /\ IsChain(cs, w, n + j, q) /\ \A k \in 1 .. j : w2[k] = w[n + k]
      BY <1>0, <1>9, <2>1, <3>1
    <3>3. /\ IsChain(Rest(cs, n, j), w2, j, q)
          /\ Rest(cs, n, j)[1] = cs[n + 1] /\ Rest(cs, n, j)[j + 1] = cs[(n + j) + 1]
      BY <3>2, ChainRest
    <3> QED  BY <3>1, <3>3, Zenon
  <2> QED  BY <2>2, Zenon
<1>11. PICK a \in Nat, c \in Nat : a = cs[1] /\ c = cs[n + 1] /\ a <= c
  BY <1>4
<1>12. Holds(x, q, a, c, end)
  <2>1. \A b \in Chunks : D < b /\ b <= D + n => s.off[b] = 0
    <3>1. PICK t \in Nat, R \in Nat : t = taken[x] /\ R = RxNum
      BY <1>0, Consts DEF Typed
    <3>2. UsedUp(x) = D + n
      <4>1. PICK P \in Nat, L \in Nat : P = posted[x] /\ L = Len(srq[x])
        BY <1>0 DEF Typed
      <4>2. D = (P - L) - n /\ UsedUp(x) = P - L
        BY <1>0, <4>1 DEF DoneWith, UsedUp
      <4> QED  BY <1>0, <4>2
    <3>3. D + n <= R - t
      BY <1>0, <3>1, <3>2, FreshIs
    <3>4. ASSUME NEW b \in Chunks, D < b, b <= D + n PROVE s.off[b] = 0
      <4>1. b \in Nat
        BY DEF Chunks
      <4>2. b <= R - t
        BY <1>0, <3>3, <3>4, <4>1
      <4>3. offset[x][b] = 0
        BY <1>0, <3>1, <3>4, <4>2 DEF Unmoved
      <4> QED  BY <3>4, <4>3 DEF ReadDoes
    <3> QED  BY <3>4
  <2>2. s.kept = <<>> => s.out = <<>>
    BY DEF ReadDoes
  <2>3. Holds(x, q, cs[1], cs[n + 1], TakeAll(x, s, len))
    BY <1>0, <1>4, <2>1, <2>2, TakeAllHolds
  <2> QED  BY <1>11, <2>3 DEF ReadDoes
<1>13. \A i \in 1 .. Len(rx_buffers[x]) : \E k \in 1 .. Len(end.kept) : end.kept[k] = rx_buffers[x][i]
  BY DEF ReadDoes, Taking
<1>14. HasRead(q, a)
  BY <1>3, <1>11
<1>15. ASSUME NEW k \in 1 .. c PROVE Known(x, <<q, k>>)'
  <2>1. Known(x, <<q, k>>) \/ InHand(x, end.out, end.kept, <<q, k>>)
    <3>1. CASE k <= a
      <4>1. k \in 1 .. a
        BY <3>1
      <4> QED  BY <1>14, <4>1 DEF HasRead
    <3>2. CASE ~(k <= a)
      <4>1. k \in Nat /\ a < k /\ k <= c
        BY <3>2
      <4> QED  BY <1>12, <4>1 DEF Holds
    <3> QED  BY <3>1, <3>2
  <2>2. got[x] \in Seq(Byte)
    BY <1>0 DEF Typed
  <2>3. buffer'[x] = buffer[x]
    BY <1>1
  <2> QED  BY <1>1, <1>2, <1>13, <2>1, <2>2, <2>3, KnownAfter
<1>16. ASSUME rx_buffers'[x] = <<>> PROVE got'[x] = Run(q, 0, c)
  <2>1. end.kept = <<>>
    BY <1>1, <1>16
  <2>2. rx_buffers[x] = <<>>
    <3>1. \A k \in 1 .. Len(end.kept) : FALSE
      BY <2>1
    <3>2. \A i \in 1 .. Len(rx_buffers[x]) : FALSE
      BY <1>13, <3>1, Zenon
    <3>3. PICK h \in Nat : h = Len(rx_buffers[x])
      BY <1>0 DEF Typed
    <3>4. h = 0
      <4>1. h # 0 => 1 \in 1 .. h
        OBVIOUS
      <4> QED  BY <3>2, <3>3, <4>1
    <3> QED  BY <1>0, <3>3, <3>4, EmptySeq DEF Typed
  <2>3. got[x] = Run(q, 0, a)
    BY <1>14, <2>2 DEF HasRead
  <2>4. end.out = Run(q, a, c)
    BY <1>12, <2>1 DEF Holds
  <2>5. Run(q, 0, a) \o Run(q, a, c) = Run(q, 0, c)
    <3>1. 0 \in Nat /\ 0 <= a
      OBVIOUS
    <3>2. a <= c /\ a \in Nat /\ c \in Nat
      BY <1>11
    <3> QED  BY <3>1, <3>2, RunGoesOn
  <2> QED  BY <1>1, <2>3, <2>4, <2>5
<1>17. HasRead(q, c)'
  BY <1>15, <1>16 DEF HasRead, Run
<1>18. IsChain(r, Way(q), OnWay(q), q)'
  BY <1>8, <1>10, Zenon DEF IsChain, Run
<1>19. HasRead(q, r[1])'
  <2>1. r[1] = c
    BY <1>10, <1>11
  <2> QED  BY <1>17, <2>1
<1>20. IF broken' THEN r[OnWay(q)' + 1] <= given'[q] ELSE r[OnWay(q)' + 1] = given'[q]
  BY <1>1, <1>3, <1>7, <1>8, <1>10
<1> QED  BY <1>18, <1>19, <1>20 DEF Flows

LEMMA ReadFlows ==
    ASSUME FlowInv, NEW x \in Ends, NEW len \in Lens[x], Read(x, len)
    PROVE  FlowInv'
<1>0. TypeOK /\ len \in Nat /\ \A e \in Ends : InPlace(e) /\ Unmoved(e) /\ OwnChunks(e)
  BY DataPathAssumption DEF FlowInv
<1>1. CASE \E k \in DOMAIN rxcq[x] : ~rxcq[x][k].ok
  <2>1. /\ crash' = "assert"
        /\ UNCHANGED <<offset, rxcq, event, rx_buffers, got, deaf>>
        /\ UNCHANGED <<buffer, poolVars, srq, sq, appVars, posted, refused, echoed, broken>>
    BY <1>1, Zenon DEF Read
  <2>2. TypeOK'
    BY <1>0, <2>1 DEF TypeOK, poolVars, appVars, CrashWay
  <2>3. UNCHANGED <<memVars, poolVars, srq, sq, rxcq, rx_buffers, given, got, posted, refused, echoed, broken>>
    BY <2>1 DEF appVars, memVars
  <2> QED  BY <2>2, <2>3, StillFlows
<1>2. CASE ~\E k \in DOMAIN rxcq[x] : ~rxcq[x][k].ok
  <2>1. PICK D, n, s, end : ReadDoes(x, len, D, n, s, end)
    BY <1>0, <1>2, ReadEffect
  <2>2. TypeOK'
    BY <1>0, <2>1, ReadTypeOK
  <2>3. /\ UNCHANGED <<buffer, channel, taken, srq, sq, given, empties, posted, refused, echoed, broken, crash>>
        /\ \A d \in Ends : d # x => /\ offset'[d] = offset[d] /\ rx_buffers'[d] = rx_buffers[d]
                                    /\ got'[d] = got[d] /\ rxcq'[d] = rxcq[d]
    BY <1>0, <2>1 DEF ReadDoes, TypeOK
  <2>4. ASSUME NEW e \in Ends PROVE InPlace(e)' /\ Unmoved(e)' /\ OwnChunks(e)'
    <3>1. CASE e = x
      BY <1>0, <2>1, <3>1, ReadInPlace
    <3>2. CASE e # x
      <4>1. Torn(e) => Torn(e)'
        BY <2>3 DEF Torn
      <4> QED  BY <1>0, <2>3, <3>2, <4>1, EndFrame
    <3> QED  BY <3>1, <3>2
  <2>5. ASSUME NEW e \in Ends, Fresh(e)', Fresh(Peer[e])', ~Torn(e)' PROVE Flows(e)'
    <3>1. PICK p \in Ends : p = Peer[e]
      BY Consts
    <3>2. Fresh(e) /\ Fresh(p) /\ ~Torn(e)
      BY <2>3, <2>5, <3>1 DEF Fresh, Torn
    <3>3. Flows(e)
      BY <3>1, <3>2 DEF FlowInv
    <3>4. CASE p = x
      BY <1>0, <2>1, <2>2, <3>1, <3>2, <3>3, <3>4, ReadKeepsFlow
    <3>5. CASE p # x
      BY <1>0, <2>2, <2>3, <3>1, <3>3, <3>5, FlowsFrame
    <3> QED  BY <3>4, <3>5
  <2> QED  BY <2>2, <2>4, <2>5 DEF FlowInv
<1> QED  BY <1>1, <1>2

-----------------------------------------------------------------------------
(* send(): the room of the chunks it takes.                                 *)

RoomStep(f, e, tx, k) == IF k = 0 THEN 0 ELSE f[k - 1] + (ChunkSize - offset[e][tx[k]])
IsRoom(f, e, tx, n) == f = [k \in 0 .. n |-> RoomStep(f, e, tx, k)]

\* The sum over the chunks is well defined.
LEMMA RoomExists ==
    ASSUME NEW e, NEW tx, NEW n \in Nat
    PROVE  \E f : IsRoom(f, e, tx, n)
<1> DEFINE G == {m \in 0 .. n : \E f : IsRoom(f, e, tx, m)}
<1>1. 0 \in G
  <2> DEFINE g == [k \in 0 .. 0 |-> 0]
  <2>1. IsRoom(g, e, tx, 0)
    BY DEF IsRoom, RoomStep
  <2> QED  BY <2>1
<1>2. ASSUME NEW m \in 1 .. n, m - 1 \in G PROVE m \in G
  <2>1. PICK f : IsRoom(f, e, tx, m - 1)
    BY <1>2
  <2> DEFINE g == [k \in 0 .. m |-> IF k = m THEN RoomStep(f, e, tx, k) ELSE f[k]]
  <2>2. ASSUME NEW k \in 0 .. m PROVE g[k] = RoomStep(g, e, tx, k)
    <3>1. k # 0 => k - 1 \in 0 .. m /\ k - 1 # m
      OBVIOUS
    <3>2. k # 0 => g[k - 1] = f[k - 1]
      BY <3>1
    <3>3. RoomStep(g, e, tx, k) = RoomStep(f, e, tx, k)
      <4> HIDE DEF g
      <4> QED  BY <3>2 DEF RoomStep
    <3>4. CASE k = m
      BY <3>3, <3>4
    <3>5. CASE k # m
      <4>1. k \in 0 .. (m - 1)
        BY <3>5
      <4>2. f[k] = RoomStep(f, e, tx, k)
        BY <2>1, <4>1 DEF IsRoom
      <4> QED  BY <3>3, <3>5, <4>2
    <3> QED  BY <3>4, <3>5
  <2>3. IsRoom(g, e, tx, m)
    BY <2>2 DEF IsRoom
  <2> QED  BY <2>3
<1>3. n \in 0 .. n
  OBVIOUS
<1>4. n \in G
  <2> HIDE DEF G
  <2> QED  BY <1>1, <1>2, <1>3, StepByStep
<1> QED  BY <1>4

LEMMA RoomIs ==
    ASSUME NEW e, NEW tx, NEW n \in Nat
    PROVE  \E f : IsRoom(f, e, tx, n) /\ Room(e, tx, n) = f[n]
<1>1. \E f : IsRoom(f, e, tx, n)
  BY RoomExists
<1> QED  BY <1>1 DEF Room, IsRoom, RoomStep

LEMMA RoomNone ==
    ASSUME NEW e, NEW tx
    PROVE  Room(e, tx, 0) = 0
<1>1. PICK f : IsRoom(f, e, tx, 0) /\ Room(e, tx, 0) = f[0]
  BY RoomIs
<1>2. 0 \in 0 .. 0
  OBVIOUS
<1> QED  BY <1>1, <1>2 DEF IsRoom, RoomStep

LEMMA RoomMore ==
    ASSUME NEW e, NEW tx, NEW n \in Nat
    PROVE  Room(e, tx, n + 1) = Room(e, tx, n) + (ChunkSize - offset[e][tx[n + 1]])
<1>0. n + 1 \in Nat /\ n + 1 # 0 /\ (n + 1) - 1 = n /\ n + 1 \in 0 .. n + 1 /\ n \in 0 .. n
  OBVIOUS
<1>1. PICK f : IsRoom(f, e, tx, n + 1) /\ Room(e, tx, n + 1) = f[n + 1]
  BY <1>0, RoomIs
<1>2. PICK g : IsRoom(g, e, tx, n) /\ Room(e, tx, n) = g[n]
  BY RoomIs
<1> DEFINE G == {k \in 0 .. n : f[k] = g[k]}
<1>3. 0 \in G
  <2>1. 0 \in 0 .. n /\ 0 \in 0 .. n + 1
    OBVIOUS
  <2>2. f[0] = 0 /\ g[0] = 0
    BY <1>1, <1>2, <2>1 DEF IsRoom, RoomStep
  <2> QED  BY <2>1, <2>2
<1>4. ASSUME NEW k \in 1 .. n, k - 1 \in G PROVE k \in G
  <2>1. k \in 0 .. n /\ k \in 0 .. n + 1 /\ k # 0
    OBVIOUS
  <2>2. f[k - 1] = g[k - 1]
    BY <1>4
  <2>3. f[k] = f[k - 1] + (ChunkSize - offset[e][tx[k]]) /\ g[k] = g[k - 1] + (ChunkSize - offset[e][tx[k]])
    BY <1>1, <1>2, <2>1 DEF IsRoom, RoomStep
  <2> QED  BY <2>1, <2>2, <2>3
<1>5. n \in G
  <2> HIDE DEF G
  <2> QED  BY <1>0, <1>3, <1>4, StepByStep
<1>6. f[n + 1] = f[n] + (ChunkSize - offset[e][tx[n + 1]])
  BY <1>0, <1>1, Zenon DEF IsRoom, RoomStep
<1> QED  BY <1>1, <1>2, <1>5, <1>6

\* Chunks of the cluster have room for what is left of them.
ChunksOf(e, tx, n) ==
    n \in Nat /\ offset[e] \in [Chunks -> 0 .. ChunkSize] /\ \A j \in 1 .. n : tx[j] \in Chunks

LEMMA RoomNat ==
    ASSUME NEW e, NEW tx, NEW n, ChunksOf(e, tx, n)
    PROVE  \A k \in 0 .. n : Room(e, tx, k) \in Nat
<1>0. n \in Nat /\ ChunkSize \in Nat /\ \A j \in 1 .. n : offset[e][tx[j]] \in 0 .. ChunkSize
  BY Consts DEF ChunksOf
<1> DEFINE G == {k \in 0 .. n : Room(e, tx, k) \in Nat}
<1>1. 0 \in G
  <2>1. 0 \in 0 .. n /\ 0 \in Nat
    BY <1>0
  <2> QED  BY <2>1, RoomNone
<1>2. ASSUME NEW k \in 1 .. n, k - 1 \in G PROVE k \in G
  <2>1. k - 1 \in Nat /\ (k - 1) + 1 = k /\ k \in 0 .. n
    BY <1>0
  <2>2. PICK a \in Nat : a = Room(e, tx, k - 1)
    BY <1>2
  <2>3. PICK o \in 0 .. ChunkSize : o = offset[e][tx[k]]
    BY <1>0
  <2>4. Room(e, tx, (k - 1) + 1) = Room(e, tx, k - 1) + (ChunkSize - offset[e][tx[(k - 1) + 1]])
    BY <2>1, RoomMore, Zenon
  <2>5. Room(e, tx, k) = a + (ChunkSize - o)
    BY <2>1, <2>2, <2>3, <2>4
  <2>6. a + (ChunkSize - o) \in Nat
    BY <1>0
  <2> QED  BY <2>1, <2>5, <2>6
<1>3. \A k \in 0 .. n : k \in G
  <2> HIDE DEF G
  <2> QED  BY <1>0, <1>1, <1>2, StepByStep
<1> QED  BY <1>3

\* Chunk::write: what the first chunks take, up to b bytes.
Upto(e, tx, b, k) == Least(Room(e, tx, k), b)

Share(R, s, b) == IF b <= R THEN 0 ELSE Least(b - R, s)
LEMMA LeastAdds ==
    ASSUME NEW R \in Nat, NEW s \in Nat, NEW b \in Nat
    PROVE  /\ Share(R, s, b) \in 0 .. s /\ Least(R, b) \in Nat
           /\ Least(R + s, b) = Least(R, b) + Share(R, s, b)
           /\ Share(R, s, b) > 0 => Least(R, b) = R
  BY DEF Least, Share

LEMMA WrittenIs ==
    ASSUME NEW e, NEW tx, NEW n, ChunksOf(e, tx, n), NEW b \in Nat, NEW k \in 1 .. n
    PROVE  /\ Written(e, tx, k, b) \in 0 .. (ChunkSize - offset[e][tx[k]])
           /\ Upto(e, tx, b, k - 1) \in Nat
           /\ Upto(e, tx, b, k) = Upto(e, tx, b, k - 1) + Written(e, tx, k, b)
           /\ Written(e, tx, k, b) > 0 => Upto(e, tx, b, k - 1) = Room(e, tx, k - 1)
<1>0. n \in Nat /\ ChunkSize \in Nat /\ offset[e][tx[k]] \in 0 .. ChunkSize
  BY Consts DEF ChunksOf
<1>1. k - 1 \in Nat /\ (k - 1) + 1 = k /\ k - 1 \in 0 .. n
  BY <1>0
<1>2. PICK R \in Nat : R = Room(e, tx, k - 1)
  BY <1>1, RoomNat
<1>3. PICK s \in Nat : s = ChunkSize - offset[e][tx[k]]
  <2>1. \A o \in 0 .. ChunkSize : ChunkSize - o \in Nat
    BY <1>0
  <2> QED  BY <1>0, <2>1
<1>4. Room(e, tx, k) = R + s
  <2>1. Room(e, tx, (k - 1) + 1) = Room(e, tx, k - 1) + (ChunkSize - offset[e][tx[(k - 1) + 1]])
    BY <1>1, RoomMore, Zenon
  <2> QED  BY <1>1, <1>2, <1>3, <2>1
<1>5. PICK w : w = Written(e, tx, k, b) /\ w = Share(R, s, b)
  BY <1>2, <1>3 DEF Written, Share
<1>6. /\ w \in 0 .. s /\ Least(R, b) \in Nat /\ Least(R + s, b) = Least(R, b) + w
      /\ w > 0 => Least(R, b) = R
  BY <1>5, LeastAdds
<1> QED  BY <1>2, <1>3, <1>4, <1>5, <1>6, Zenon DEF Upto

-----------------------------------------------------------------------------
(* get_buffers, on a list that holds the chunks 1 .. L.                     *)

IsList(free, L) == L \in Nat /\ free \in Seq(Chunks) /\ Len(free) = L /\ \A k \in 1 .. L : free[k] = k

\* The n chunks tx are the last of the list, the last first, or all of it if there is
\* nothing to send.
Gets(L, b, tx, rest, n) ==
    /\ n \in 0 .. L /\ tx \in Seq(Chunks) /\ Len(tx) = n
    /\ \A j \in 1 .. n : tx[j] \in Chunks /\ tx[j] = IF b = 0 THEN j ELSE (L - j) + 1
    /\ IsList(rest, IF b = 0 THEN L ELSE L - n)

LEMMA ListPrefix ==
    ASSUME NEW free, NEW L, IsList(free, L), NEW m \in 0 .. L
    PROVE  IsList(SubSeq(free, 1, m), m)
<1>1. L \in Nat /\ m \in Nat /\ m \in Int /\ 1 \in Int
  BY DEF IsList
<1>2. \A k \in 1 .. m : k \in 1 .. L
  BY <1>1
<1>3. \A k \in 1 .. m : free[k] \in Chunks
  BY <1>2, ElementOfSeq DEF IsList
<1>4. PICK w : w = SubSeq(free, 1, m)
  OBVIOUS
<1>5. /\ w \in Seq(Chunks) /\ Len(w) = IF 1 <= m THEN m - 1 + 1 ELSE 0
      /\ \A k \in 1 .. m - 1 + 1 : w[k] = free[1 + k - 1]
  BY <1>1, <1>3, <1>4, SubSeqProperties
<1>6. Len(w) = m
  BY <1>1, <1>5
<1>7. ASSUME NEW k \in 1 .. m PROVE w[k] = k
  <2>1. k \in 1 .. m - 1 + 1 /\ 1 + k - 1 = k
    BY <1>1
  <2>2. w[k] = free[k]
    BY <1>5, <2>1
  <2> QED  BY <1>2, <2>2 DEF IsList
<1> QED  BY <1>1, <1>4, <1>5, <1>6, <1>7 DEF IsList

LEMMA ListEnd ==
    ASSUME NEW free, NEW L, IsList(free, L), NEW m \in 0 .. L
    PROVE  LET r == Reverse(SubSeq(free, m + 1, L))
           IN  /\ r \in Seq(Chunks) /\ Len(r) = L - m
               /\ \A j \in 1 .. (L - m) : r[j] \in Chunks /\ r[j] = (L - j) + 1
<1>1. L \in Nat /\ m \in Nat /\ m + 1 \in Int /\ L \in Int /\ L - m \in Nat
  BY DEF IsList
<1>2. \A k \in (m + 1) .. L : k \in 1 .. L
  BY <1>1
<1>3. \A k \in (m + 1) .. L : free[k] \in Chunks
  BY <1>2, ElementOfSeq DEF IsList
<1>4. PICK s : s = SubSeq(free, m + 1, L)
  OBVIOUS
<1>5. /\ Len(s) = IF m + 1 <= L THEN L - (m + 1) + 1 ELSE 0
      /\ \A k \in 1 .. L - (m + 1) + 1 : s[k] = free[(m + 1) + k - 1]
  BY <1>1, <1>3, <1>4, SubSeqProperties
<1>6. Len(s) = L - m
  BY <1>1, <1>5
<1>7. ASSUME NEW k \in 1 .. (L - m) PROVE s[k] = m + k
  <2>1. k \in 1 .. L - (m + 1) + 1 /\ (m + 1) + k - 1 = m + k /\ m + k \in 1 .. L
    BY <1>1
  <2>2. s[k] = free[m + k]
    BY <1>5, <2>1
  <2> QED  BY <2>1, <2>2 DEF IsList
<1>8. PICK r : r = Reverse(s)
  OBVIOUS
<1>9. r = [i \in 1 .. (L - m) |-> s[((L - m) - i) + 1]]
  BY <1>6, <1>8 DEF Reverse
<1>10. ASSUME NEW j \in 1 .. (L - m) PROVE r[j] = (L - j) + 1 /\ r[j] \in Chunks
  <2>1. PICK i : i = ((L - m) - j) + 1
    OBVIOUS
  <2>2. i \in 1 .. (L - m) /\ m + i = (L - j) + 1 /\ (L - j) + 1 \in 1 .. L
    BY <1>1, <2>1
  <2>3. r[j] = s[i]
    BY <1>9, <2>1
  <2>4. s[i] = m + i
    BY <1>7, <2>2
  <2>5. free[(L - j) + 1] \in Chunks /\ free[(L - j) + 1] = (L - j) + 1
    BY <2>2, ElementOfSeq DEF IsList
  <2> QED  BY <2>2, <2>3, <2>4, <2>5
<1>11. r \in [1 .. (L - m) -> Chunks]
  BY <1>9, <1>10
<1>12. r \in Seq(Chunks)
  BY <1>1, <1>11, SeqDef
<1>13. Len(r) = L - m
  BY <1>1, <1>11, <1>12, LenProperties
<1> QED  BY <1>4, <1>8, <1>10, <1>12, <1>13

LEMMA NumBuffersNat ==
    ASSUME NEW b \in Nat
    PROVE  NumBuffers(b) \in Nat
<1>1. PICK x \in Nat, C \in Nat \ {0} : x = b + ChunkSize - 1 /\ C = ChunkSize
  <2>1. PICK C \in Nat \ {0} : C = ChunkSize
    BY Consts
  <2>2. b + C - 1 \in Nat
    OBVIOUS
  <2> QED  BY <2>1, <2>2
<1>2. x \div C \in Nat
  OBVIOUS
<1> QED  BY <1>1, <1>2 DEF NumBuffers

LEMMA GetBuffersIs ==
    ASSUME NEW free, NEW L, IsList(free, L), NEW b \in Nat
    PROVE  \E n : Gets(L, b, GetBuffers(free, b).tx, GetBuffers(free, b).rest, n)
<1>1. PICK num \in Nat : num = NumBuffers(b)
  BY NumBuffersNat
<1>2. L \in Nat /\ Len(free) = L
  BY DEF IsList
<1>3. PICK tx, rest : tx = GetBuffers(free, b).tx /\ rest = GetBuffers(free, b).rest
  OBVIOUS
<1>4. CASE b = 0
  <2>1. tx = free /\ rest = SubSeq(free, 1, L)
    BY <1>2, <1>3, <1>4 DEF GetBuffers
  <2>2. L \in 0 .. L
    BY <1>2
  <2>3. IsList(rest, L)
    BY <2>1, <2>2, ListPrefix
  <2>4. \A j \in 1 .. L : tx[j] \in Chunks /\ tx[j] = j
    BY <2>1, ElementOfSeq DEF IsList
  <2>5. tx \in Seq(Chunks) /\ Len(tx) = L
    BY <2>1 DEF IsList
  <2> QED  BY <1>3, <1>4, <2>2, <2>3, <2>4, <2>5 DEF Gets
<1>5. CASE b # 0
  <2>1. PICK n \in 0 .. L : n = Least(L, num)
    BY <1>2 DEF Least
  <2>2. L - n \in 0 .. L /\ L - (L - n) = n
    BY <1>2
  <2>3. tx = Reverse(SubSeq(free, (L - n) + 1, L)) /\ rest = SubSeq(free, 1, L - n)
    BY <1>1, <1>2, <1>3, <1>5, <2>1 DEF GetBuffers
  <2>4. IsList(rest, L - n)
    BY <2>2, <2>3, ListPrefix
  <2>5. PICK m \in 0 .. L : m = L - n /\ L - m = n
    BY <2>2
  <2>6. tx \in Seq(Chunks) /\ Len(tx) = L - m /\ \A j \in 1 .. (L - m) : tx[j] \in Chunks /\ tx[j] = (L - j) + 1
    <3>1. tx = Reverse(SubSeq(free, m + 1, L))
      BY <2>3, <2>5
    <3> QED  BY <3>1, ListEnd
  <2>7. tx \in Seq(Chunks) /\ Len(tx) = n /\ \A j \in 1 .. n : tx[j] \in Chunks /\ tx[j] = (L - j) + 1
    BY <2>5, <2>6
  <2> QED  BY <1>3, <1>5, <2>1, <2>4, <2>7 DEF Gets
<1> QED  BY <1>4, <1>5

-----------------------------------------------------------------------------
(* Fill: the bytes that each chunk gets.                                    *)

\* A chunk from offset o on, with w bytes that follow the first a of the stream.
Patched(e, s, o, w, a) ==
    [k \in 1 .. ChunkSize |-> IF k > o /\ k <= o + w THEN <<e, a + k - o>> ELSE s[k]]

Filling(e, tx, n, b) ==
    /\ \A j \in 1 .. n :
          /\ offset'[e][tx[j]] = offset[e][tx[j]] + Written(e, tx, j, b)
          /\ buffer'[e][tx[j]] = Patched(e, buffer[e][tx[j]], offset[e][tx[j]], Written(e, tx, j, b),
                                         given[e] + Room(e, tx, j - 1))
    /\ \A c \in Chunks : (\A j \in 1 .. n : tx[j] # c) =>
          offset'[e][c] = offset[e][c] /\ buffer'[e][c] = buffer[e][c]
    /\ \A d \in Ends : d # e => offset'[d] = offset[d] /\ buffer'[d] = buffer[d]
    /\ offset' = [d \in Ends |-> offset'[d]] /\ offset'[e] = [c \in Chunks |-> offset'[e][c]]
    /\ buffer' = [d \in Ends |-> buffer'[d]] /\ buffer'[e] = [c \in Chunks |-> buffer'[e][c]]

\* No chunk is given out twice.
Distinct(tx, n) ==
    /\ DOMAIN tx = 1 .. n
    /\ \A i \in 1 .. n : tx[i] \in Chunks /\ \A j \in 1 .. n : tx[i] = tx[j] => i = j

LEMMA GetsDistinct ==
    ASSUME NEW L \in Nat, NEW b \in Nat, NEW tx, NEW rest, NEW n, Gets(L, b, tx, rest, n)
    PROVE  Distinct(tx, n) /\ n \in Nat /\ n <= L
<1>1. /\ n \in 0 .. L /\ tx \in Seq(Chunks) /\ Len(tx) = n
      /\ \A j \in 1 .. n : tx[j] \in Chunks /\ tx[j] = IF b = 0 THEN j ELSE (L - j) + 1
  BY DEF Gets
<1>2. DOMAIN tx = 1 .. n
  BY <1>1, LenProperties
<1>3. ASSUME NEW i \in 1 .. n, NEW j \in 1 .. n, tx[i] = tx[j] PROVE i = j
  <2>1. CASE b = 0
    BY <1>1, <1>3, <2>1
  <2>2. CASE b # 0
    <3>1. (L - i) + 1 = (L - j) + 1
      BY <1>1, <1>3, <2>2
    <3>2. i \in Int /\ j \in Int
      BY <1>1
    <3> QED  BY <3>1, <3>2
  <2> QED  BY <2>1, <2>2
<1> QED  BY <1>1, <1>2, <1>3 DEF Distinct

LEMMA FillIs ==
    ASSUME TypeOK, NEW e \in Ends, NEW tx, NEW n, Distinct(tx, n), NEW b, Fill(e, tx, b)
    PROVE  Filling(e, tx, n, b)
<1> DEFINE at(c) == CHOOSE k \in DOMAIN tx : tx[k] = c
           used  == {tx[k] : k \in DOMAIN tx}
           num(c) == Written(e, tx, at(c), b)
           first(c) == given[e] + Room(e, tx, at(c) - 1)
           off(c) == IF c \in used THEN offset[e][c] + num(c) ELSE offset[e][c]
           buf(c) == IF c \notin used THEN buffer[e][c]
                     ELSE [k \in 1 .. ChunkSize |->
                             IF k > offset[e][c] /\ k <= offset[e][c] + num(c)
                             THEN <<e, first(c) + k - offset[e][c]>>
                             ELSE buffer[e][c][k]]
<1>1. offset' = [offset EXCEPT ![e] = [c \in Chunks |-> off(c)]]
  BY DEF Fill
<1>2. buffer' = [buffer EXCEPT ![e] = [c \in Chunks |-> buf(c)]]
  BY DEF Fill
<1>3. ASSUME NEW j \in 1 .. n PROVE at(tx[j]) = j /\ tx[j] \in used /\ tx[j] \in Chunks
  <2>1. j \in DOMAIN tx /\ \A i \in DOMAIN tx : tx[i] = tx[j] => i = j
    BY DEF Distinct
  <2> QED  BY <2>1 DEF Distinct
<1>4. \A c : c \in used => \E j \in 1 .. n : tx[j] = c
  BY DEF Distinct
<1>5. \A c : c \notin used => off(c) = offset[e][c] /\ buf(c) = buffer[e][c]
  OBVIOUS
<1>6. ASSUME NEW j \in 1 .. n
      PROVE  /\ off(tx[j]) = offset[e][tx[j]] + Written(e, tx, j, b)
             /\ buf(tx[j]) = Patched(e, buffer[e][tx[j]], offset[e][tx[j]], Written(e, tx, j, b),
                                     given[e] + Room(e, tx, j - 1))
  <2>1. PICK c : c = tx[j] /\ at(c) = j /\ c \in used
    BY <1>3
  <2> HIDE DEF at, used
  <2>2. off(c) = offset[e][c] + Written(e, tx, j, b)
    BY <2>1
  <2>3. buf(c) = Patched(e, buffer[e][c], offset[e][c], Written(e, tx, j, b), given[e] + Room(e, tx, j - 1))
    BY <2>1 DEF Patched
  <2> QED  BY <2>1, <2>2, <2>3
<1> HIDE DEF off, buf, used, at
<1>7. PICK o, s : o = [c \in Chunks |-> off(c)] /\ s = [c \in Chunks |-> buf(c)]
  OBVIOUS
<1>8. /\ offset'[e] = o /\ buffer'[e] = s
      /\ \A d \in Ends : d # e => offset'[d] = offset[d] /\ buffer'[d] = buffer[d]
      /\ offset' = [d \in Ends |-> offset'[d]] /\ buffer' = [d \in Ends |-> buffer'[d]]
  <2>1. offset' = [offset EXCEPT ![e] = o] /\ buffer' = [buffer EXCEPT ![e] = s]
    BY <1>1, <1>2, <1>7
  <2> QED  BY <2>1 DEF TypeOK
<1>9. o = [c \in Chunks |-> o[c]] /\ s = [c \in Chunks |-> s[c]]
      /\ \A c \in Chunks : o[c] = off(c) /\ s[c] = buf(c)
  BY <1>7
<1>10. \A c \in Chunks : (\A j \in 1 .. n : tx[j] # c) => o[c] = offset[e][c] /\ s[c] = buffer[e][c]
  BY <1>4, <1>5, <1>9
<1>11. ASSUME NEW j \in 1 .. n
       PROVE  /\ o[tx[j]] = offset[e][tx[j]] + Written(e, tx, j, b)
              /\ s[tx[j]] = Patched(e, buffer[e][tx[j]], offset[e][tx[j]], Written(e, tx, j, b),
                                    given[e] + Room(e, tx, j - 1))
  <2>1. tx[j] \in Chunks
    BY <1>3
  <2> QED  BY <1>6, <1>9, <2>1, Zenon
<1> QED  BY <1>8, <1>9, <1>10, <1>11 DEF Filling

-----------------------------------------------------------------------------
(* A call of send().                                                        *)

Requests(x, tx, k) == [j \in 1 .. k |-> [chunk |-> tx[j], length |-> offset'[x][tx[j]]]]

\* What send() of b bytes does when it has room for them: n chunks of the list, which
\* holds L, are filled, and the first k are accepted by ibv_post_send.
SendDoes(x, b, L, tx, rest, n, k) ==
    /\ L \in Nat /\ taken[x] + L = RxNum /\ IsList(channel[x], L) /\ Gets(L, b, tx, rest, n) /\ k \in 0 .. n
    /\ Filling(x, tx, n, b) /\ ~(Room(x, tx, n) < b)
    /\ channel' = [channel EXCEPT ![x] = rest]
    /\ taken' = [taken EXCEPT ![x] = IF b = 0 THEN taken[x] ELSE taken[x] + n]
    /\ sq' = [sq EXCEPT ![x] = sq[x] \o Requests(x, tx, k)]
    /\ refused' = IF k = n THEN refused ELSE refused \cup {x}
    /\ echoed' = IF Echoes(x, tx, b) THEN echoed \cup {x} ELSE echoed
    /\ given' = [given EXCEPT ![x] = given[x] + b]
    /\ empties' \in [Ends -> 0 .. MaxEmpty]
    /\ UNCHANGED <<srq, rxcq, event, rx_buffers, got, posted, deaf, broken, crash>>

\* What is left of it otherwise.
SendFails(x) ==
    /\ crash' \in CrashWay /\ empties' \in [Ends -> 0 .. MaxEmpty]
    /\ UNCHANGED <<memVars, poolVars, sq, given, refused, echoed>>
    /\ UNCHANGED <<srq, rxcq, event, rx_buffers, got, posted, deaf, broken>>

LEMMA SendEffect ==
    ASSUME FlowInv, NEW x \in Ends, NEW b \in Nat, Send(x, b)
    PROVE  SendFails(x) \/ \E L, tx, rest, n, k : SendDoes(x, b, L, tx, rest, n, k)
<1>0. TypeOK /\ InPlace(x) /\ Typed(x)
  BY TypedEnds DEF FlowInv
<1>1. PICK L \in Nat : L = RxNum - taken[x] /\ taken[x] + L = RxNum
  <2>1. PICK t \in Nat, R \in Nat : t = taken[x] /\ R = RxNum /\ t <= R
    BY <1>0, Consts DEF Typed
  <2>2. R - t \in Nat /\ t + (R - t) = R
    BY <2>1
  <2> QED  BY <2>1, <2>2
<1>2. IsList(channel[x], L)
  BY <1>0, <1>1 DEF InPlace, Typed, IsList
<1>3. PICK tx, rest : tx = GetBuffers(channel[x], b).tx /\ rest = GetBuffers(channel[x], b).rest
  OBVIOUS
<1>4. PICK n : Gets(L, b, tx, rest, n)
  BY <1>2, <1>3, GetBuffersIs
<1>5. Len(tx) = n /\ Distinct(tx, n) /\ n \in Nat
  BY <1>4, GetsDistinct DEF Gets
<1>6. empties' \in [Ends -> 0 .. MaxEmpty]
  <2>1. empties \in [Ends -> 0 .. MaxEmpty] /\ MaxEmpty \in Nat
    BY <1>0, DataPathAssumption DEF TypeOK
  <2>2. /\ b = 0 => empties[x] < MaxEmpty
        /\ empties' = [empties EXCEPT ![x] = IF b = 0 THEN @ + 1 ELSE @]
    BY DEF Send
  <2>3. PICK v : v = (IF b = 0 THEN empties[x] + 1 ELSE empties[x]) /\ empties' = [empties EXCEPT ![x] = v]
    BY <2>2
  <2>4. v \in 0 .. MaxEmpty
    BY <2>1, <2>2, <2>3
  <2> QED  BY <2>1, <2>3, <2>4
<1>7. UNCHANGED <<srq, rxcq, event, rx_buffers, got, posted, deaf, broken>>
  BY DEF Send
<1>8. CASE n = 0 \/ n < NumBuffers(b) \/ Room(x, tx, n) < b
  <2>1. /\ crash' = IF n = 0 \/ n < NumBuffers(b) THEN "no_buffer" ELSE "past_end"
        /\ UNCHANGED <<memVars, poolVars, sq, given, refused, echoed>>
    BY <1>3, <1>5, <1>8 DEF Send
  <2>2. crash' \in CrashWay
    BY <2>1 DEF CrashWay
  <2> QED  BY <1>6, <1>7, <2>1, <2>2 DEF SendFails
<1>9. CASE ~(n = 0 \/ n < NumBuffers(b) \/ Room(x, tx, n) < b)
  <2>1. /\ Fill(x, tx, b)
        /\ channel' = [channel EXCEPT ![x] = GetBuffers(@, b).rest]
        /\ taken' = [taken EXCEPT ![x] = IF b = 0 THEN @ ELSE @ + n]
        /\ \E k \in 0 .. n :
              /\ sq' = [sq EXCEPT ![x] = @ \o
                          [j \in 1 .. k |-> [chunk |-> tx[j], length |-> offset'[x][tx[j]]]]]
              /\ refused' = IF k = n THEN refused ELSE refused \cup {x}
        /\ echoed' = IF Echoes(x, tx, b) THEN echoed \cup {x} ELSE echoed
        /\ given' = [given EXCEPT ![x] = @ + b]
        /\ UNCHANGED crash
    BY <1>3, <1>5, <1>9, Zenon DEF Send
  <2>2. PICK k \in 0 .. n : /\ sq' = [sq EXCEPT ![x] = @ \o Requests(x, tx, k)]
                            /\ refused' = IF k = n THEN refused ELSE refused \cup {x}
    BY <2>1, Zenon DEF Requests
  <2>3. Filling(x, tx, n, b)
    BY <1>0, <1>5, <2>1, FillIs
  <2>4. /\ channel' = [channel EXCEPT ![x] = rest] /\ given' = [given EXCEPT ![x] = given[x] + b]
        /\ taken' = [taken EXCEPT ![x] = IF b = 0 THEN taken[x] ELSE taken[x] + n]
    BY <1>3, <2>1
  <2>5. PICK w : w = Requests(x, tx, k)
    OBVIOUS
  <2>6. sq' = [sq EXCEPT ![x] = sq[x] \o w]
    BY <2>2, <2>5
  <2>7. sq' = [sq EXCEPT ![x] = sq[x] \o Requests(x, tx, k)]
    BY <2>5, <2>6, Zenon
  <2>8. SendDoes(x, b, L, tx, rest, n, k)
    BY <1>1, <1>2, <1>4, <1>6, <1>7, <1>9, <2>1, <2>2, <2>3, <2>4, <2>7, Zenon DEF SendDoes
  <2> QED  BY <2>8
<1> QED  BY <1>8, <1>9

\* A chunk that bytes were put into.
LEMMA PatchedIs ==
    ASSUME NEW e \in Ends, NEW s \in [1 .. ChunkSize -> Byte], NEW o \in Nat, NEW w \in Nat, NEW a \in Nat
    PROVE  /\ Patched(e, s, o, w, a) \in [1 .. ChunkSize -> Byte]
           /\ w = 0 => Patched(e, s, o, w, a) = s
<1>0. ChunkSize \in Nat
  BY Consts
<1>1. ASSUME NEW k \in 1 .. ChunkSize
      PROVE  (IF k > o /\ k <= o + w THEN <<e, a + k - o>> ELSE s[k]) \in Byte
  <2>1. CASE k > o
    <3>1. a + k - o \in Nat \ {0}
      BY <1>0, <2>1
    <3>2. <<e, a + k - o>> \in Byte
      BY <3>1 DEF Byte
    <3> QED  BY <3>2
  <2>2. CASE ~(k > o)
    BY <2>2
  <2> QED  BY <2>1, <2>2
<1>2. Patched(e, s, o, w, a) \in [1 .. ChunkSize -> Byte]
  BY <1>1 DEF Patched
<1>3. ASSUME w = 0 PROVE Patched(e, s, o, w, a) = s
  <2>1. \A k \in 1 .. ChunkSize : ~(k > o /\ k <= o + w)
    BY <1>0, <1>3
  <2>2. PICK f : f = Patched(e, s, o, w, a)
    OBVIOUS
  <2>3. f = [k \in 1 .. ChunkSize |-> s[k]]
    BY <2>1, <2>2 DEF Patched
  <2>5. s = [k \in 1 .. ChunkSize |-> s[k]]
    OBVIOUS
  <2>4. f = s
    BY <2>3, <2>5, Zenon
  <2> QED  BY <2>2, <2>4
<1> QED  BY <1>2, <1>3

\* The chunks that keep what they hold: all of them if there is nothing to send, else
\* those in front of the ones that are taken and those that were taken before.
Spared(x, b, L, n) ==
    \A c \in Chunks : b = 0 \/ c <= L - n \/ L < c =>
        offset'[x][c] = offset[x][c] /\ buffer'[x][c] = buffer[x][c]

\* What Filling says of one chunk.
Fills(x, tx, b, j, o, w, a) ==
    /\ o \in 0 .. ChunkSize /\ w \in Nat /\ a \in Nat
    /\ o = offset[x][tx[j]] /\ w = Written(x, tx, j, b) /\ a = Room(x, tx, j - 1) /\ o + w <= ChunkSize
    /\ offset'[x][tx[j]] = o + w /\ given[x] + a \in Nat
    /\ buffer'[x][tx[j]] = Patched(x, buffer[x][tx[j]], o, w, given[x] + a)

LEMMA FillingChunk ==
    ASSUME TypeOK, NEW x \in Ends, NEW tx, NEW n, ChunksOf(x, tx, n), NEW b \in Nat, Filling(x, tx, n, b),
           NEW j \in 1 .. n
    PROVE  \E o, w, a : Fills(x, tx, b, j, o, w, a)
<1>0. n \in Nat /\ ChunkSize \in Nat /\ given[x] \in Nat /\ offset[x][tx[j]] \in 0 .. ChunkSize
  BY Consts, TypedEnds DEF ChunksOf, Typed
<1>1. PICK o \in 0 .. ChunkSize : o = offset[x][tx[j]]
  BY <1>0
<1>2. Written(x, tx, j, b) \in 0 .. (ChunkSize - o)
  BY <1>1, WrittenIs
<1>3. PICK w \in 0 .. (ChunkSize - o) : w = Written(x, tx, j, b)
  BY <1>2
<1>4. w \in Nat /\ o + w <= ChunkSize
  BY <1>0
<1>5. PICK a \in Nat : a = Room(x, tx, j - 1)
  <2>1. j - 1 \in 0 .. n
    BY <1>0
  <2> QED  BY <2>1, RoomNat
<1>6. given[x] + a \in Nat
  BY <1>0
<1>7. /\ offset'[x][tx[j]] = o + w
      /\ buffer'[x][tx[j]] = Patched(x, buffer[x][tx[j]], o, w, given[x] + a)
  BY <1>1, <1>3, <1>5, Zenon DEF Filling
<1>8. Fills(x, tx, b, j, o, w, a)
  BY <1>1, <1>3, <1>4, <1>5, <1>6, <1>7 DEF Fills
<1> QED  BY <1>8

LEMMA SendSpares ==
    ASSUME TypeOK, NEW x \in Ends, NEW b \in Nat, NEW L, NEW tx, NEW rest, NEW n, NEW k,
           SendDoes(x, b, L, tx, rest, n, k)
    PROVE  Spared(x, b, L, n) /\ ChunksOf(x, tx, n) /\ n \in Nat /\ n <= L /\ L \in Nat
<1>0. /\ L \in Nat /\ n \in Nat /\ n <= L /\ Distinct(tx, n) /\ Gets(L, b, tx, rest, n) /\ Filling(x, tx, n, b)
  BY GetsDistinct DEF SendDoes
<1>1. ChunksOf(x, tx, n)
  BY <1>0, TypedEnds DEF Typed, ChunksOf, Distinct
<1>2. ASSUME NEW c \in Chunks, b = 0 \/ c <= L - n \/ L < c
      PROVE  offset'[x][c] = offset[x][c] /\ buffer'[x][c] = buffer[x][c]
  <2>1. CASE \A j \in 1 .. n : tx[j] # c
    BY <1>0, <2>1 DEF Filling
  <2>2. CASE \E j \in 1 .. n : tx[j] = c
    <3>1. PICK j \in 1 .. n : tx[j] = c
      BY <2>2
    <3>2. b = 0
      <4> SUFFICES ASSUME b # 0 PROVE FALSE
        OBVIOUS
      <4>1. c = (L - j) + 1
        BY <1>0, <3>1 DEF Gets
      <4>2. ~(c <= L - n) /\ ~(L < c)
        BY <1>0, <4>1
      <4> QED  BY <1>2, <4>2
    <3>7. PICK o \in 0 .. ChunkSize, w \in Nat, a \in Nat : Fills(x, tx, b, j, o, w, a)
      <4>1. \E o, w, a : Fills(x, tx, b, j, o, w, a)
        BY <1>0, <1>1, FillingChunk
      <4> QED  BY <4>1 DEF Fills
    <3>3. /\ o = offset[x][tx[j]] /\ w = Written(x, tx, j, b) /\ a = Room(x, tx, j - 1) /\ o + w <= ChunkSize
          /\ offset'[x][tx[j]] = o + w /\ given[x] + a \in Nat
          /\ buffer'[x][tx[j]] = Patched(x, buffer[x][tx[j]], o, w, given[x] + a)
      BY <3>7 DEF Fills
    <3>4. w = 0
      <4>1. 0 <= a
        OBVIOUS
      <4> QED  BY <3>2, <3>3, <4>1 DEF Written
    <3>5. offset'[x][c] = offset[x][c]
      <4>1. o + 0 = o
        BY Consts
      <4> QED  BY <3>1, <3>3, <3>4, <4>1
    <3>6. buffer'[x][c] = buffer[x][c]
      <4>1. PICK s \in [1 .. ChunkSize -> Byte] : s = buffer[x][c]
        BY TypedEnds DEF Typed
      <4>2. PICK h \in Nat : h = given[x] + a
        BY <3>3
      <4>3. buffer'[x][c] = Patched(x, s, o, w, h)
        BY <3>1, <3>3, <4>1, <4>2
      <4>4. o \in Nat
        BY Consts
      <4>5. Patched(x, s, o, w, h) = s
        BY <3>4, <4>4, PatchedIs
      <4> QED  BY <4>1, <4>3, <4>5
    <3> QED  BY <3>5, <3>6
  <2> QED  BY <2>1, <2>2
<1> QED  BY <1>0, <1>1, <1>2 DEF Spared

\* The counters of the end that sends.
SendTakes(x, b, L, n, u) ==
    /\ u \in Nat /\ u = (IF b = 0 THEN 0 ELSE n) /\ u <= L /\ taken'[x] = taken[x] + u
    /\ taken'[x] \in 0 .. RxNum /\ RxNum - taken[x] = L /\ RxNum - taken'[x] = L - u
    /\ IsList(channel'[x], L - u)

LEMMA SendCounters ==
    ASSUME TypeOK, NEW x \in Ends, NEW b \in Nat, NEW L, NEW tx, NEW rest, NEW n, NEW k,
           SendDoes(x, b, L, tx, rest, n, k)
    PROVE  \E u : SendTakes(x, b, L, n, u)
<1>1. n \in Nat /\ n <= L /\ L \in Nat
  BY SendSpares
<1>2. PICK t \in Nat, R \in Nat : t = taken[x] /\ R = RxNum /\ t + L = R
  BY TypedEnds, Consts DEF Typed, SendDoes
<1>3. PICK u \in Nat : u = (IF b = 0 THEN 0 ELSE n) /\ u <= L
  BY <1>1
<1>4. taken'[x] = t + u /\ channel'[x] = rest
  <2>1. taken'[x] = (IF b = 0 THEN taken[x] ELSE taken[x] + n) /\ channel'[x] = rest
    BY DEF SendDoes, TypeOK
  <2>2. t + 0 = t
    OBVIOUS
  <2> QED  BY <1>2, <1>3, <2>1, <2>2
<1>5. t + u \in 0 .. R /\ R - t = L /\ R - (t + u) = L - u
  BY <1>1, <1>2, <1>3
<1>6. IsList(rest, L - u)
  <2>1. IsList(rest, IF b = 0 THEN L ELSE L - n)
    BY DEF SendDoes, Gets
  <2>2. L - 0 = L
    BY <1>1
  <2> QED  BY <1>3, <2>1, <2>2
<1>7. SendTakes(x, b, L, n, u)
  BY <1>2, <1>3, <1>4, <1>5, <1>6 DEF SendTakes
<1> QED  BY <1>7

LEMMA SendTypeOK ==
    ASSUME TypeOK, NEW x \in Ends, NEW b \in Nat, NEW L, NEW tx, NEW rest, NEW n, NEW k,
           SendDoes(x, b, L, tx, rest, n, k)
    PROVE  TypeOK'
<1>0. Typed(x) /\ Filling(x, tx, n, b) /\ ChunksOf(x, tx, n) /\ n \in Nat /\ k \in 0 .. n
  BY TypedEnds, SendSpares DEF SendDoes
<1>1. ASSUME NEW j \in 1 .. n
      PROVE  offset'[x][tx[j]] \in 0 .. ChunkSize /\ buffer'[x][tx[j]] \in [1 .. ChunkSize -> Byte]
  <2>7. PICK o \in 0 .. ChunkSize, w \in Nat, a \in Nat : Fills(x, tx, b, j, o, w, a)
    <3>1. \E o, w, a : Fills(x, tx, b, j, o, w, a)
      BY <1>0, FillingChunk
    <3> QED  BY <3>1 DEF Fills
  <2>1. /\ o = offset[x][tx[j]] /\ w = Written(x, tx, j, b) /\ a = Room(x, tx, j - 1) /\ o + w <= ChunkSize
        /\ offset'[x][tx[j]] = o + w /\ given[x] + a \in Nat
        /\ buffer'[x][tx[j]] = Patched(x, buffer[x][tx[j]], o, w, given[x] + a)
    BY <2>7 DEF Fills
  <2>2. o + w \in 0 .. ChunkSize /\ o \in Nat
    BY <2>1, Consts
  <2>3. PICK s \in [1 .. ChunkSize -> Byte] : s = buffer[x][tx[j]]
    BY <1>0 DEF Typed, ChunksOf
  <2>4. PICK h \in Nat : h = given[x] + a
    BY <2>1
  <2>5. Patched(x, s, o, w, h) \in [1 .. ChunkSize -> Byte]
    BY <2>2, PatchedIs
  <2> QED  BY <2>1, <2>2, <2>3, <2>4, <2>5
<1>2. \A c \in Chunks : offset'[x][c] \in 0 .. ChunkSize /\ buffer'[x][c] \in [1 .. ChunkSize -> Byte]
  <2>1. ASSUME NEW c \in Chunks
        PROVE  offset'[x][c] \in 0 .. ChunkSize /\ buffer'[x][c] \in [1 .. ChunkSize -> Byte]
    <3>1. CASE \E j \in 1 .. n : tx[j] = c
      BY <1>1, <3>1
    <3>2. CASE \A j \in 1 .. n : tx[j] # c
      BY <1>0, <3>2 DEF Filling, Typed
    <3> QED  BY <3>1, <3>2
  <2> QED  BY <2>1
<1>3. offset' \in [Ends -> [Chunks -> 0 .. ChunkSize]]
  <2>1. PICK f : f = offset'[x] /\ f = [c \in Chunks |-> f[c]]
    BY <1>0 DEF Filling
  <2>2. f \in [Chunks -> 0 .. ChunkSize]
    BY <1>2, <2>1
  <2>3. \A d \in Ends : offset'[d] \in [Chunks -> 0 .. ChunkSize]
    BY <1>0, <2>1, <2>2, TypedEnds DEF Filling, Typed
  <2>4. offset' = [d \in Ends |-> offset'[d]]
    BY <1>0 DEF Filling
  <2> QED  BY <2>3, <2>4
<1>4. buffer' \in [Ends -> [Chunks -> [1 .. ChunkSize -> Byte]]]
  <2>1. PICK f : f = buffer'[x] /\ f = [c \in Chunks |-> f[c]]
    BY <1>0 DEF Filling
  <2>2. f \in [Chunks -> [1 .. ChunkSize -> Byte]]
    BY <1>2, <2>1
  <2>3. \A d \in Ends : buffer'[d] \in [Chunks -> [1 .. ChunkSize -> Byte]]
    BY <1>0, <2>1, <2>2, TypedEnds DEF Filling, Typed
  <2>4. buffer' = [d \in Ends |-> buffer'[d]]
    BY <1>0 DEF Filling
  <2> QED  BY <2>3, <2>4
<1>5. channel' \in [Ends -> Seq(Chunks)] /\ taken' \in [Ends -> 0 .. RxNum]
  <2>1. rest \in Seq(Chunks) /\ channel' = [channel EXCEPT ![x] = rest]
    BY DEF SendDoes, Gets, IsList
  <2>2. PICK v : taken' = [taken EXCEPT ![x] = v]
    BY DEF SendDoes
  <2>3. taken'[x] \in 0 .. RxNum
    <3>1. PICK u : SendTakes(x, b, L, n, u)
      BY SendCounters
    <3> QED  BY <3>1 DEF SendTakes
  <2>4. v \in 0 .. RxNum
    BY <2>2, <2>3 DEF TypeOK
  <2> QED  BY <2>1, <2>2, <2>4 DEF TypeOK
<1>6. sq' \in [Ends -> Seq(Request)]
  <2>1. PICK f : f = Requests(x, tx, k)
    OBVIOUS
  <2>2. k \in Nat /\ \A j \in 1 .. k : j \in 1 .. n
    BY <1>0
  <2>3. f \in [1 .. k -> Request]
    <3>1. ASSUME NEW j \in 1 .. k PROVE [chunk |-> tx[j], length |-> offset'[x][tx[j]]] \in Request
      BY <1>0, <1>1, <2>2 DEF Request, ChunksOf
    <3> QED  BY <2>1, <3>1 DEF Requests
  <2>4. f \in Seq(Request)
    BY <2>2, <2>3, SeqDef
  <2>5. sq[x] \o f \in Seq(Request)
    BY <1>0, <2>4, ConcatProperties DEF Typed
  <2>6. PICK g \in Seq(Request) : g = sq[x] \o f
    BY <2>5
  <2>7. sq' = [sq EXCEPT ![x] = g]
    BY <2>1, <2>6, Zenon DEF SendDoes
  <2> QED  BY <2>7 DEF TypeOK
<1>7. given' \in [Ends -> Nat]
  <2>1. PICK g \in Nat : g = given[x] + b
    BY <1>0 DEF Typed
  <2>2. given' = [given EXCEPT ![x] = g]
    BY <2>1 DEF SendDoes
  <2> QED  BY <2>2 DEF TypeOK
<1>8. refused' \subseteq Ends /\ echoed' \subseteq Ends
  <2>1. refused' \in {refused, refused \cup {x}} /\ echoed' \in {echoed, echoed \cup {x}}
    BY DEF SendDoes
  <2> QED  BY <2>1 DEF TypeOK
<1>9. empties' \in [Ends -> 0 .. MaxEmpty] /\ UNCHANGED <<srq, rxcq, event, rx_buffers, got, posted, deaf, broken, crash>>
  BY DEF SendDoes
<1> QED  BY <1>3, <1>4, <1>5, <1>6, <1>7, <1>8, <1>9 DEF TypeOK

\* The requests of send() stand behind the l that are posted.
Queued(x, tx, k, l) ==
    /\ l \in Nat /\ k \in Nat /\ Len(sq[x]) = l /\ Len(sq'[x]) = l + k
    /\ \A i \in 1 .. l : sq'[x][i] = sq[x][i]
    /\ \A j \in 1 .. k : sq'[x][l + j].chunk = tx[j] /\ sq'[x][l + j].length = offset'[x][tx[j]]

HasLen(f, l) == Len(f) = l
IsBehind(h, f, l, g, k) ==
    Len(h) = l + k /\ (\A i \in 1 .. l : h[i] = f[i]) /\ \A j \in 1 .. k : h[l + j] = g[j]
LEMMA ConcatParts ==
    ASSUME NEW S, NEW f \in Seq(S), NEW g \in Seq(S), NEW l \in Nat, NEW k \in Nat, HasLen(f, l), HasLen(g, k)
    PROVE  IsBehind(f \o g, f, l, g, k)
<1>0. Len(f) = l /\ Len(g) = k
  BY DEF HasLen
<1>1. Len(f \o g) = l + k /\ \A i \in 1 .. l + k : (f \o g)[i] = IF i <= l THEN f[i] ELSE g[i - l]
  <2>1. Len(f \o g) = Len(f) + Len(g)
        /\ \A i \in 1 .. Len(f) + Len(g) : (f \o g)[i] = IF i <= Len(f) THEN f[i] ELSE g[i - Len(f)]
    BY ConcatProperties, Zenon
  <2> QED  BY <1>0, <2>1, Zenon
<1>2. PICK h : h = f \o g
  OBVIOUS
<1>3. \A i \in 1 .. l : i \in 1 .. l + k /\ i <= l
  OBVIOUS
<1>4. \A j \in 1 .. k : l + j \in 1 .. l + k /\ ~(l + j <= l) /\ (l + j) - l = j
  OBVIOUS
<1>5. \A i \in 1 .. l : h[i] = f[i]
  BY <1>1, <1>2, <1>3
<1>6. \A j \in 1 .. k : h[l + j] = g[j]
  BY <1>1, <1>2, <1>4
<1>7. IsBehind(h, f, l, g, k)
  BY <1>1, <1>2, <1>5, <1>6 DEF IsBehind
<1> QED  BY <1>2, <1>7

LEMMA SendQueues ==
    ASSUME TypeOK, TypeOK', NEW x \in Ends, NEW b \in Nat, NEW L, NEW tx, NEW rest, NEW n, NEW k,
           SendDoes(x, b, L, tx, rest, n, k)
    PROVE  \E l : Queued(x, tx, k, l)
<1>0. n \in Nat /\ k \in 0 .. n /\ Typed(x)
  BY TypedEnds, SendSpares DEF SendDoes
<1>1. PICK l \in Nat, K \in Nat : l = Len(sq[x]) /\ K = k
  BY <1>0 DEF Typed
<1>2. PICK f : f = Requests(x, tx, K)
  OBVIOUS
<1> DEFINE S == {f[j] : j \in 1 .. K} \cup Request
<1>3. f \in [1 .. K -> S]
  BY <1>2 DEF Requests
<1>4. sq[x] \in Seq(S)
  <2>1. Request \subseteq S
    OBVIOUS
  <2> HIDE DEF S
  <2> QED  BY <1>0, <2>1, SeqMonotonic DEF Typed
<1> HIDE DEF S
<1>5. f \in Seq(S)
  BY <1>3, SeqDef
<1>6. Len(f) = K
  BY <1>3, <1>5, LenProperties
<1>7. PICK q \in Seq(S) : q = sq[x] /\ Len(q) = l
  BY <1>1, <1>4
<1>8. /\ Len(q \o f) = l + K
      /\ \A i \in 1 .. l : (q \o f)[i] = q[i]
      /\ \A j \in 1 .. K : (q \o f)[l + j] = f[j]
  <2>1. HasLen(q, l) /\ HasLen(f, K)
    BY <1>6, <1>7 DEF HasLen
  <2>2. IsBehind(q \o f, q, l, f, K)
    BY <1>5, <2>1, ConcatParts
  <2> QED  BY <2>2 DEF IsBehind
<1>9. sq'[x] = q \o f
  <2>1. sq' = [sq EXCEPT ![x] = q \o f]
    BY <1>1, <1>2, <1>7, Zenon DEF SendDoes
  <2> QED  BY <2>1 DEF TypeOK
<1>10. \A j \in 1 .. K : f[j].chunk = tx[j] /\ f[j].length = offset'[x][tx[j]]
  BY <1>2 DEF Requests
<1>11. Queued(x, tx, K, l)
  BY <1>1, <1>7, <1>8, <1>9, <1>10 DEF Queued
<1> QED  BY <1>1, <1>11

\* A stream that is not torn afterwards: everything was accepted and nothing echoed.
LEMMA SendWhole ==
    ASSUME NEW x \in Ends, NEW b, NEW L, NEW tx, NEW rest, NEW n, NEW k, SendDoes(x, b, L, tx, rest, n, k),
           ~Torn(x)'
    PROVE  ~Torn(x) /\ k = n /\ ~Echoes(x, tx, b)
<1>1. x \notin refused' /\ x \notin echoed'
  BY DEF Torn
<1>2. k = n /\ x \notin refused
  BY <1>1 DEF SendDoes
<1>3. ~Echoes(x, tx, b) /\ x \notin echoed
  BY <1>1 DEF SendDoes
<1> QED  BY <1>2, <1>3 DEF Torn

LEMMA SendInPlace ==
    ASSUME FlowInv, TypeOK', NEW x \in Ends, NEW b \in Nat, NEW L, NEW tx, NEW rest, NEW n, NEW k,
           SendDoes(x, b, L, tx, rest, n, k)
    PROVE  InPlace(x)' /\ Unmoved(x)' /\ OwnChunks(x)'
<1>0. TypeOK /\ InPlace(x) /\ Unmoved(x) /\ OwnChunks(x) /\ Typed(x)
  BY TypedEnds DEF FlowInv
<1>1. Spared(x, b, L, n) /\ ChunksOf(x, tx, n) /\ n \in Nat /\ n <= L /\ L \in Nat
  BY <1>0, SendSpares
<1>2. PICK u \in Nat : /\ u = (IF b = 0 THEN 0 ELSE n) /\ u <= L /\ taken'[x] = taken[x] + u
                       /\ taken'[x] \in 0 .. RxNum /\ RxNum - taken[x] = L /\ RxNum - taken'[x] = L - u
                       /\ IsList(channel'[x], L - u)
  <2>1. PICK u : SendTakes(x, b, L, n, u)
    BY <1>0, SendCounters
  <2> QED  BY <2>1 DEF SendTakes
<1>3. /\ srq'[x] = srq[x] /\ rxcq'[x] = rxcq[x] /\ rx_buffers'[x] = rx_buffers[x] /\ posted'[x] = posted[x]
  BY DEF SendDoes
<1>4. UsedUp(x)' = UsedUp(x) /\ DoneWith(x)' = DoneWith(x)
  BY <1>3 DEF UsedUp, DoneWith
<1>5. InPlace(x)'
  <2>1. taken'[x] <= RxNum /\ Len(channel'[x]) = RxNum - taken'[x] /\ \A i \in 1 .. Len(channel'[x]) : channel'[x][i] = i
    <3>1. taken'[x] <= RxNum
      BY <1>2, Consts
    <3>2. Len(channel'[x]) = L - u /\ \A i \in 1 .. (L - u) : channel'[x][i] = i
      BY <1>2 DEF IsList
    <3> QED  BY <1>2, <3>1, <3>2
  <2> QED  BY <1>0, <1>3, <1>4, <2>1 DEF InPlace
<1>6. Unmoved(x)'
  <2>1. ASSUME NEW c \in Chunks, DoneWith(x) < c, c <= L - u PROVE offset'[x][c] = 0
    <3>1. c \in Nat
      BY DEF Chunks
    <3>2. c <= L
      BY <1>1, <1>2, <2>1, <3>1
    <3>3. offset[x][c] = 0
      BY <1>0, <1>2, <2>1, <3>2 DEF Unmoved
    <3>4. b = 0 \/ c <= L - n
      BY <1>2, <2>1
    <3> QED  BY <1>1, <3>3, <3>4 DEF Spared
  <2> QED  BY <1>2, <1>4, <2>1 DEF Unmoved
<1>7. OwnChunks(x)'
  <2> SUFFICES ASSUME ~Torn(x)', NEW i \in 1 .. Len(sq'[x]), sq'[x][i].length > 0
               PROVE  sq'[x][i].chunk > L - u
    BY <1>2 DEF OwnChunks
  <2>1. ~Torn(x) /\ k = n /\ ~Echoes(x, tx, b)
    BY SendWhole
  <2>2. PICK l : Queued(x, tx, k, l)
    BY <1>0, SendQueues
  <2>3. /\ l \in Nat /\ Len(sq[x]) = l /\ Len(sq'[x]) = l + n
        /\ \A h \in 1 .. l : sq'[x][h] = sq[x][h]
        /\ \A j \in 1 .. n : sq'[x][l + j].chunk = tx[j] /\ sq'[x][l + j].length = offset'[x][tx[j]]
    BY <2>1, <2>2 DEF Queued
  <2>4. CASE i <= l
    <3>1. i \in 1 .. l /\ i \in 1 .. Len(sq[x])
      BY <1>1, <2>3, <2>4
    <3>2. PICK c \in Chunks : c = sq[x][i].chunk /\ c = sq'[x][i].chunk
      BY <1>0, <2>3, <3>1, Parts
    <3>3. c > L
      BY <1>0, <1>2, <2>1, <2>3, <3>1, <3>2 DEF OwnChunks
    <3>4. c \in Nat
      BY DEF Chunks
    <3>5. c > L - u
      BY <1>1, <3>3, <3>4
    <3> QED  BY <3>2, <3>5
  <2>5. CASE ~(i <= l)
    <3>1. PICK j \in 1 .. n : i = l + j
      <4>1. i \in 1 .. (l + n)
        BY <2>3
      <4>2. i - l \in 1 .. n /\ i = l + (i - l)
        BY <1>1, <2>3, <2>5, <4>1
      <4> QED  BY <4>2
    <3>2. sq'[x][i].chunk = tx[j] /\ offset'[x][tx[j]] > 0 /\ tx[j] \in Chunks
      BY <1>1, <2>3, <3>1 DEF ChunksOf
    <3>3. CASE b = 0
      <4>1. offset[x][tx[j]] > 0
        BY <1>1, <3>2, <3>3 DEF Spared
      <4>2. j \in DOMAIN tx
        BY <1>1, GetsDistinct DEF SendDoes, Distinct
      <4> QED  BY <2>1, <3>3, <4>1, <4>2 DEF Echoes
    <3>4. CASE b # 0
      <4>1. tx[j] = (L - j) + 1
        BY <3>4 DEF SendDoes, Gets
      <4>2. (L - j) + 1 > L - n
        BY <1>1
      <4> QED  BY <1>2, <3>2, <3>4, <4>1, <4>2
    <3> QED  BY <3>3, <3>4
  <2>6. i \in Nat /\ l \in Nat
    BY <2>3
  <2> QED  BY <2>4, <2>5
<1> QED  BY <1>5, <1>6, <1>7

\* One chain behind another.
Both(cs, N, ds, M) == [k \in 1 .. (N + M) + 1 |-> IF k <= N THEN cs[k] ELSE ds[k - N]]
Meet(cs, N, ds) == cs[N + 1] = ds[1]
Follows(w2, w, N, v, M) == (\A k \in 1 .. N : w2[k] = w[k]) /\ \A j \in 1 .. M : w2[N + j] = v[j]
GoesOn(cs, N, ds, M, w2, q) ==
    /\ IsChain(Both(cs, N, ds, M), w2, N + M, q)
    /\ Both(cs, N, ds, M)[1] = cs[1] /\ Both(cs, N, ds, M)[(N + M) + 1] = ds[M + 1]
LEMMA ChainOn ==
    ASSUME NEW q, NEW N \in Nat, NEW M \in Nat, NEW cs, NEW w, IsChain(cs, w, N, q), NEW ds, NEW v,
           IsChain(ds, v, M, q), Meet(cs, N, ds), NEW w2, Follows(w2, w, N, v, M)
    PROVE  GoesOn(cs, N, ds, M, w2, q)
<1>0. (\A k \in 1 .. N : w2[k] = w[k]) /\ \A j \in 1 .. M : w2[N + j] = v[j]
  BY DEF Follows
<1>1. PICK r : r = Both(cs, N, ds, M)
  OBVIOUS
<1>2. \A k \in 1 .. N : r[k] = cs[k]
  <2>1. \A k \in 1 .. N : k \in 1 .. (N + M) + 1 /\ k <= N
    OBVIOUS
  <2> QED  BY <1>1, <2>1 DEF Both
<1>3. \A j \in 1 .. M + 1 : r[N + j] = ds[j]
  <2>1. \A j \in 1 .. M + 1 : N + j \in 1 .. (N + M) + 1 /\ ~(N + j <= N) /\ (N + j) - N = j
    OBVIOUS
  <2> QED  BY <1>1, <2>1 DEF Both
<1>4. 1 \in 1 .. M + 1 /\ M + 1 \in 1 .. M + 1
  OBVIOUS
<1>5. r[N + 1] = cs[N + 1]
  BY <1>3, <1>4, Zenon DEF Meet
<1>6. \A k \in 1 .. N + 1 : r[k] = cs[k]
  <2>1. \A k \in 1 .. N + 1 : k \in 1 .. N \/ k = N + 1
    OBVIOUS
  <2> QED  BY <1>2, <1>5, <2>1, Zenon
<1>7. r[1] = cs[1]
  <2>1. 1 \in 1 .. N + 1
    OBVIOUS
  <2> QED  BY <1>6, <2>1, Zenon
<1>8. r[(N + M) + 1] = ds[M + 1]
  <2>1. (N + M) + 1 = N + (M + 1)
    OBVIOUS
  <2>2. r[(N + M) + 1] = r[N + (M + 1)]
    BY <2>1, Zenon
  <2> QED  BY <1>3, <1>4, <2>2, Zenon
<1>9. ASSUME NEW k \in 1 .. (N + M) + 1 PROVE r[k] \in Nat
  <2>1. CASE k <= N
    <3>1. k \in 1 .. N /\ k \in 1 .. N + 1
      BY <2>1
    <3> QED  BY <1>2, <3>1, Zenon DEF IsChain
  <2>2. CASE ~(k <= N)
    <3>1. k - N \in 1 .. M + 1 /\ k = N + (k - N)
      BY <2>2
    <3>2. PICK j \in 1 .. M + 1 : k = N + j
      BY <3>1
    <3>3. r[k] = ds[j]
      BY <1>3, <3>2, Zenon
    <3> QED  BY <3>3 DEF IsChain
  <2> QED  BY <2>1, <2>2
<1>10. ASSUME NEW k \in 1 .. N + M PROVE r[k] <= r[k + 1] /\ w2[k] = Run(q, r[k], r[k + 1])
  <2>1. CASE k <= N
    <3>1. k \in 1 .. N /\ k \in 1 .. N + 1 /\ k + 1 \in 1 .. N + 1
      BY <2>1
    <3>2. r[k] = cs[k] /\ r[k + 1] = cs[k + 1] /\ w2[k] = w[k]
      BY <1>0, <1>6, <3>1, Zenon
    <3>3. cs[k] <= cs[k + 1] /\ w[k] = Run(q, cs[k], cs[k + 1])
      BY <3>1, Zenon DEF IsChain
    <3> QED  BY <3>2, <3>3, Zenon
  <2>2. CASE ~(k <= N)
    <3>1. k - N \in 1 .. M /\ k = N + (k - N)
      BY <2>2
    <3>2. PICK j \in 1 .. M : k = N + j
      BY <3>1
    <3>3. j \in 1 .. M + 1 /\ j + 1 \in 1 .. M + 1 /\ (N + j) + 1 = N + (j + 1)
      OBVIOUS
    <3>4. r[N + j] = ds[j] /\ r[N + (j + 1)] = ds[j + 1] /\ w2[N + j] = v[j]
      BY <1>0, <1>3, <3>3, Zenon
    <3>5. r[k] = ds[j] /\ r[k + 1] = ds[j + 1] /\ w2[k] = v[j]
      <4>1. k + 1 = N + (j + 1)
        BY <3>2, <3>3, Zenon
      <4> QED  BY <3>2, <3>4, <4>1, Zenon
    <3>6. ds[j] <= ds[j + 1] /\ v[j] = Run(q, ds[j], ds[j + 1])
      BY Zenon DEF IsChain
    <3> QED  BY <3>5, <3>6, Zenon
  <2> QED  BY <2>1, <2>2
<1> QED  BY <1>1, <1>7, <1>8, <1>9, <1>10 DEF IsChain, GoesOn

\* A chunk filled from its beginning.
LEMMA PatchedRun ==
    ASSUME NEW e \in Ends, NEW s \in [1 .. ChunkSize -> Byte], NEW w \in 0 .. ChunkSize, NEW a \in Nat
    PROVE  SubSeq(Patched(e, s, 0, w, a), 1, w) = Run(e, a, a + w)
<1>0. ChunkSize \in Nat /\ w \in Nat /\ w <= ChunkSize
  BY Consts
<1>1. PICK t : t = Patched(e, s, 0, w, a)
  OBVIOUS
<1>2. t \in [1 .. ChunkSize -> Byte]
  <2>1. 0 \in Nat
    OBVIOUS
  <2> QED  BY <1>0, <1>1, <2>1, PatchedIs
<1>3. PICK f, g : f = SubSeq(t, 1, w) /\ g = Run(e, a, a + w)
  OBVIOUS
<1>4. f \in Seq(Byte) /\ Len(f) = w /\ \A k \in 1 .. w : f[k] = t[k]
  BY <1>2, <1>3, BeginOf
<1>5. g \in Seq(Byte) /\ Len(g) = w
  <2>1. a + w \in Nat /\ a <= a + w /\ (a + w) - a = w
    BY <1>0
  <2>2. Run(e, a, a + w) \in Seq(Byte) /\ Len(Run(e, a, a + w)) = (a + w) - a
    BY <2>1, RunSeq
  <2> QED  BY <1>3, <2>1, <2>2
<1>6. ASSUME NEW k \in 1 .. w PROVE f[k] = g[k]
  <2>1. k \in 1 .. ChunkSize /\ k > 0 /\ k <= 0 + w /\ a + k - 0 = a + k /\ k \in 1 .. ((a + w) - a)
    BY <1>0
  <2>2. t[k] = <<e, a + k - 0>>
    BY <1>1, <2>1 DEF Patched
  <2>3. g[k] = <<e, a + k>>
    BY <1>3, <2>1 DEF Run
  <2> QED  BY <1>4, <2>1, <2>2, <2>3
<1>7. f = g
  BY <1>4, <1>5, <1>6, SeqEqual
<1> QED  BY <1>1, <1>3, <1>7

\* The parts that send() adds to a stream of g bytes, from chunks at offset 0.
Marks(x, tx, b, n, g) == [j \in 1 .. n + 1 |-> g + Upto(x, tx, b, j - 1)]
NewParts(x, tx, n) == [j \in 1 .. n |-> SubSeq(buffer'[x][tx[j]], 1, offset'[x][tx[j]])]

LEMMA SendAdds ==
    ASSUME TypeOK, NEW x \in Ends, NEW b \in Nat, NEW tx, NEW n, ChunksOf(x, tx, n), Filling(x, tx, n, b),
           ~(Room(x, tx, n) < b), \A j \in 1 .. n : offset[x][tx[j]] = 0
    PROVE  /\ IsChain(Marks(x, tx, b, n, given[x]), NewParts(x, tx, n), n, x)
           /\ Marks(x, tx, b, n, given[x])[1] = given[x]
           /\ Marks(x, tx, b, n, given[x])[n + 1] = given[x] + b
<1>0. n \in Nat /\ ChunkSize \in Nat
  BY Consts DEF ChunksOf
<1>1. PICK g \in Nat : g = given[x]
  BY TypedEnds DEF Typed
<1>2. PICK ds : ds = Marks(x, tx, b, n, g)
  OBVIOUS
<1>3. \A j \in 1 .. n + 1 : ds[j] = g + Upto(x, tx, b, j - 1)
  BY <1>2 DEF Marks
<1>4. ASSUME NEW i \in 0 .. n PROVE Upto(x, tx, b, i) \in Nat
  <2>1. PICK R \in Nat : R = Room(x, tx, i)
    BY RoomNat
  <2>2. Least(R, b) \in Nat
    BY DEF Least
  <2> QED  BY <2>1, <2>2 DEF Upto
<1>5. \A j \in 1 .. n + 1 : ds[j] \in Nat
  <2>1. \A j \in 1 .. n + 1 : j - 1 \in 0 .. n
    BY <1>0
  <2>2. \A i \in Nat : g + i \in Nat
    OBVIOUS
  <2> QED  BY <1>3, <1>4, <2>1, <2>2
<1>6. ds[1] = g
  <2>1. 1 \in 1 .. n + 1 /\ 1 - 1 = 0 /\ g + 0 = g
    BY <1>0
  <2>2. Upto(x, tx, b, 0) = 0
    <3>1. Room(x, tx, 0) = 0
      BY RoomNone
    <3>2. Least(0, b) = 0
      BY DEF Least
    <3> QED  BY <3>1, <3>2 DEF Upto
  <2> QED  BY <1>3, <2>1, <2>2
<1>7. ds[n + 1] = g + b
  <2>1. n + 1 \in 1 .. n + 1 /\ (n + 1) - 1 = n /\ n \in 0 .. n
    BY <1>0
  <2>2. PICK R \in Nat : R = Room(x, tx, n) /\ ~(R < b)
    BY <2>1, RoomNat
  <2>3. Least(R, b) = b
    BY <2>2 DEF Least
  <2>4. Upto(x, tx, b, n) = b
    BY <2>2, <2>3 DEF Upto
  <2> QED  BY <1>3, <2>1, <2>4
<1>8. ASSUME NEW j \in 1 .. n
      PROVE  ds[j] <= ds[j + 1] /\ NewParts(x, tx, n)[j] = Run(x, ds[j], ds[j + 1])
  <2>1. j \in 1 .. n + 1 /\ j + 1 \in 1 .. n + 1 /\ (j + 1) - 1 = j /\ j - 1 \in 0 .. n
    BY <1>0
  <2>2. PICK o, w, a : Fills(x, tx, b, j, o, w, a)
    BY FillingChunk
  <2>3. /\ w \in Nat /\ a \in Nat /\ w = Written(x, tx, j, b) /\ a = Room(x, tx, j - 1) /\ o = 0 /\ 0 + w <= ChunkSize
        /\ offset'[x][tx[j]] = 0 + w
        /\ buffer'[x][tx[j]] = Patched(x, buffer[x][tx[j]], 0, w, g + a)
    <3>1. o = 0
      BY <2>2 DEF Fills
    <3> QED  BY <1>1, <2>2, <3>1 DEF Fills
  <2>4. w \in 0 .. ChunkSize /\ 0 + w = w /\ g + a \in Nat
    BY <1>0, <2>3
  <2>5. PICK s \in [1 .. ChunkSize -> Byte] : s = buffer[x][tx[j]]
    BY TypedEnds DEF Typed, ChunksOf
  <2>6. PICK p, h : p = NewParts(x, tx, n)[j] /\ p = SubSeq(Patched(x, s, 0, w, h), 1, w) /\ h = g + a /\ h \in Nat
    <3>1. NewParts(x, tx, n)[j] = SubSeq(buffer'[x][tx[j]], 1, offset'[x][tx[j]])
      BY DEF NewParts
    <3> QED  BY <2>3, <2>4, <2>5, <3>1
  <2>7. p = Run(x, h, h + w)
    BY <2>4, <2>6, PatchedRun
  <2>8. PICK v \in Nat : v = Upto(x, tx, b, j - 1) /\ Upto(x, tx, b, j) = v + w /\ (w > 0 => v = a)
    <3>1. /\ Upto(x, tx, b, j - 1) \in Nat
          /\ Upto(x, tx, b, j) = Upto(x, tx, b, j - 1) + Written(x, tx, j, b)
          /\ Written(x, tx, j, b) > 0 => Upto(x, tx, b, j - 1) = Room(x, tx, j - 1)
      BY WrittenIs
    <3> QED  BY <2>3, <3>1
  <2>9. ds[j] = g + v /\ ds[j + 1] = g + (v + w)
    BY <1>3, <2>1, <2>8
  <2>10. CASE w > 0
    <3>1. h = g + v /\ h + w = g + (v + w) /\ g + v <= g + (v + w)
      BY <2>3, <2>6, <2>8, <2>10
    <3> QED  BY <2>6, <2>7, <2>9, <3>1
  <2>11. CASE ~(w > 0)
    <3>1. w = 0 /\ v + w = v /\ h + w = h /\ g + v \in Nat /\ g + v <= g + v
      BY <2>3, <2>6, <2>8, <2>11
    <3>2. Run(x, h, h) = <<>> /\ Run(x, g + v, g + v) = <<>>
      BY <2>6, <3>1, EmptyRun
    <3> QED  BY <2>6, <2>7, <2>9, <3>1, <3>2
  <2> QED  BY <2>10, <2>11
<1>9. IsChain(ds, NewParts(x, tx, n), n, x)
  BY <1>5, <1>8 DEF IsChain
<1> QED  BY <1>1, <1>2, <1>6, <1>7, <1>9

\* Counting the receives.
LEMMA UsedIs ==
    ASSUME TypeOK, NEW x \in Ends, InPlace(x)
    PROVE  \E D \in Nat, m \in Nat : D = DoneWith(x) /\ m = Len(rxcq[x]) /\ UsedUp(x) = D + m
<1>1. PICK P \in Nat, L \in Nat, m \in Nat : P = posted[x] /\ L = Len(srq[x]) /\ m = Len(rxcq[x])
  BY TypedEnds DEF Typed
<1>2. DoneWith(x) = (P - L) - m /\ UsedUp(x) = P - L /\ DoneWith(x) \in Nat
  BY <1>1 DEF DoneWith, UsedUp, InPlace
<1>3. P - L = ((P - L) - m) + m
  OBVIOUS
<1> QED  BY <1>1, <1>2, <1>3

\* While the two paths of x have not met, send() takes chunks behind all receives
\* that were used up.
LEMMA SendBehind ==
    ASSUME TypeOK, TypeOK', NEW x \in Ends, NEW b \in Nat, NEW L, NEW tx, NEW rest, NEW n, NEW k,
           SendDoes(x, b, L, tx, rest, n, k), Fresh(x)'
    PROVE  Fresh(x) /\ UsedUp(x) <= L /\ (b # 0 => UsedUp(x) <= L - n)
<1>1. n \in Nat /\ n <= L /\ L \in Nat
  BY SendSpares
<1>2. PICK u \in Nat : /\ u = (IF b = 0 THEN 0 ELSE n) /\ u <= L
                       /\ RxNum - taken[x] = L /\ RxNum - taken'[x] = L - u
  <2>1. PICK u : SendTakes(x, b, L, n, u)
    BY SendCounters
  <2> QED  BY <2>1 DEF SendTakes
<1>3. UsedUp(x)' = UsedUp(x)
  BY DEF UsedUp, SendDoes
<1>4. PICK U \in Int : U = UsedUp(x) /\ (Fresh(x) <=> U <= L)
  BY <1>2, FreshIs
<1>5. U <= L - u
  BY <1>2, <1>3, <1>4, FreshIsNext
<1>6. U <= L
  BY <1>1, <1>2, <1>5
<1>7. b # 0 => u = n
  BY <1>2
<1> QED  BY <1>4, <1>5, <1>6, <1>7

\* Then it finds the chunks at offset 0.
LEMMA SendAtZero ==
    ASSUME FlowInv, TypeOK', NEW x \in Ends, NEW b \in Nat, NEW L, NEW tx, NEW rest, NEW n, NEW k,
           SendDoes(x, b, L, tx, rest, n, k), Fresh(x)', ~Torn(x)', NEW j \in 1 .. n
    PROVE  offset[x][tx[j]] = 0
<1>0. TypeOK /\ InPlace(x) /\ Unmoved(x)
  BY DEF FlowInv
<1>1. ChunksOf(x, tx, n) /\ n \in Nat /\ n <= L /\ L \in Nat
  BY <1>0, SendSpares
<1>2. tx[j] \in Chunks /\ offset[x][tx[j]] \in 0 .. ChunkSize /\ ChunkSize \in Nat
  BY <1>1, Consts DEF ChunksOf
<1>3. CASE b = 0
  <2>1. ~Echoes(x, tx, b)
    BY SendWhole
  <2>2. j \in DOMAIN tx
    BY <1>1, GetsDistinct DEF SendDoes, Distinct
  <2>3. ~(offset[x][tx[j]] > 0)
    BY <1>3, <2>1, <2>2 DEF Echoes
  <2> QED  BY <1>2, <2>3
<1>4. CASE b # 0
  <2>1. tx[j] = (L - j) + 1
    BY <1>4 DEF SendDoes, Gets
  <2>2. PICK D \in Nat, m \in Nat : D = DoneWith(x) /\ UsedUp(x) = D + m
    BY <1>0, UsedIs
  <2>3. D + m <= L - n
    BY <1>0, <1>4, <2>2, SendBehind
  <2>4. D < (L - j) + 1 /\ (L - j) + 1 <= L
    BY <1>1, <2>3
  <2>5. RxNum - taken[x] = L
    <3>1. PICK u : SendTakes(x, b, L, n, u)
      BY <1>0, SendCounters
    <3> QED  BY <3>1 DEF SendTakes
  <2> QED  BY <1>0, <1>2, <2>1, <2>2, <2>4, <2>5 DEF Unmoved
<1> QED  BY <1>3, <1>4

\* The parts that were on their way stay as they are.
LEMMA SendKeepsParts ==
    ASSUME FlowInv, TypeOK', NEW x \in Ends, NEW b \in Nat, NEW L, NEW tx, NEW rest, NEW n, NEW k,
           SendDoes(x, b, L, tx, rest, n, k), ~Torn(x), NEW i \in 1 .. Len(sq[x]), sq'[x][i] = sq[x][i],
           i \in 1 .. Len(sq'[x])
    PROVE  SubSeq(buffer'[x][sq[x][i].chunk], 1, sq[x][i].length) = SubSeq(buffer[x][sq[x][i].chunk], 1, sq[x][i].length)
<1>0. TypeOK /\ OwnChunks(x)
  BY DEF FlowInv
<1>1. Spared(x, b, L, n) /\ RxNum - taken[x] = L
  <2>1. Spared(x, b, L, n)
    BY <1>0, SendSpares
  <2>2. PICK u : SendTakes(x, b, L, n, u)
    BY <1>0, SendCounters
  <2> QED  BY <2>1, <2>2 DEF SendTakes
<1>2. /\ sq[x][i].chunk \in Chunks /\ sq[x][i].length \in 0 .. ChunkSize
      /\ buffer[x][sq[x][i].chunk] \in [1 .. ChunkSize -> Byte]
  BY <1>0, Parts
<1>3. buffer'[x][sq[x][i].chunk] \in [1 .. ChunkSize -> Byte]
  BY PartsNext
<1>4. ASSUME sq[x][i].length > 0 PROVE buffer'[x][sq[x][i].chunk] = buffer[x][sq[x][i].chunk]
  <2>1. PICK c \in Chunks : c = sq[x][i].chunk
    BY <1>2
  <2>2. c > L
    BY <1>0, <1>1, <1>4, <2>1 DEF OwnChunks
  <2>3. c \in Nat /\ L \in Nat
    <3>1. L \in Nat
      BY <1>0, SendSpares
    <3> QED  BY <3>1 DEF Chunks
  <2>4. L < c
    BY <2>2, <2>3
  <2> QED  BY <1>1, <2>1, <2>4 DEF Spared
<1> QED  BY <1>2, <1>3, <1>4, PartSame

\* The stream of the end that sends: the new parts go on where it ended.
LEMMA SendKeepsFlow ==
    ASSUME FlowInv, TypeOK', NEW x \in Ends, NEW b \in Nat, NEW L, NEW tx, NEW rest, NEW n, NEW k,
           SendDoes(x, b, L, tx, rest, n, k), Fresh(x)', ~Torn(x)', Flows(x)
    PROVE  Flows(x)'
<1>0. TypeOK /\ ~Torn(x) /\ k = n
  BY SendWhole DEF FlowInv
<1>1. ChunksOf(x, tx, n) /\ n \in Nat
  BY <1>0, SendSpares
<1>2. PICK p \in Ends : p = Peer[x] /\ p # x
  BY Consts
<1>3. PICK m \in Nat, g \in Nat : m = Len(rxcq[p]) /\ g = given[x]
  BY <1>0, TypedEnds DEF Typed
<1>4. PICK l \in Nat : /\ Len(sq[x]) = l /\ Len(sq'[x]) = l + n
                       /\ \A i \in 1 .. l : sq'[x][i] = sq[x][i]
                       /\ \A j \in 1 .. n : sq'[x][l + j].chunk = tx[j] /\ sq'[x][l + j].length = offset'[x][tx[j]]
  <2>1. PICK l : Queued(x, tx, k, l)
    BY <1>0, SendQueues
  <2> QED  BY <1>0, <2>1 DEF Queued
<1>5. /\ rxcq' = rxcq /\ rx_buffers' = rx_buffers /\ got' = got /\ broken' = broken
      /\ buffer'[p] = buffer[p] /\ given'[x] = g + b
  BY <1>0, <1>2, <1>3 DEF SendDoes, Filling, TypeOK
<1>6. PICK cs : /\ IsChain(cs, Way(x), OnWay(x), x)
                /\ IF broken THEN cs[OnWay(x) + 1] <= given[x] ELSE cs[OnWay(x) + 1] = given[x]
                /\ HasRead(x, cs[1])
  BY DEF Flows
<1>7. HasRead(x, cs[1])'
  BY <1>2, <1>5, <1>6, HasReadFrame
<1>8. /\ OnWay(x) \in Nat /\ OnWay(x) = IF broken THEN m ELSE m + l
      /\ \A i \in 1 .. m : Way(x)[i] = SubSeq(buffer[p][rxcq[p][i].chunk], 1, rxcq[p][i].byte_len)
      /\ ~broken => \A i \in 1 .. l :
            Way(x)[m + i] = SubSeq(buffer[x][sq[x][i].chunk], 1, sq[x][i].length)
  <2>1. WayIs(x, p, m, l)
    BY WayParts, Zenon
  <2> QED  BY <1>2, <1>3, <1>4, <2>1, Zenon DEF WayIs
<1>9. /\ OnWay(x)' = IF broken THEN m ELSE m + (l + n)
      /\ \A i \in 1 .. m : Way(x)'[i] = SubSeq(buffer[p][rxcq[p][i].chunk], 1, rxcq[p][i].byte_len)
      /\ ~broken => \A i \in 1 .. l + n :
            Way(x)'[m + i] = SubSeq(buffer'[x][sq'[x][i].chunk], 1, sq'[x][i].length)
  <2>1. WayIs(x, p, m, l + n)'
    BY WayPartsNext, Zenon
  <2>2. m = Len(rxcq'[p]) /\ l + n = Len(sq'[x]) /\ l + n \in Nat
    BY <1>1, <1>3, <1>4, <1>5
  <2> QED  BY <1>2, <1>5, <2>1, <2>2 DEF WayIs
<1>10. \A i \in 1 .. m : Way(x)'[i] = Way(x)[i]
  BY <1>8, <1>9, Zenon
<1>11. CASE broken
  <2>1. OnWay(x) = m /\ OnWay(x)' = m
    BY <1>8, <1>9, <1>11
  <2>2. IsChain(cs, Way(x)', m, x)
    <3>1. IsChain(cs, Way(x), m, x)
      BY <1>6, <2>1
    <3> QED  BY <1>10, <3>1, ChainSame
  <2>3. IsChain(cs, Way(x), OnWay(x), x)'
    BY <2>1, <2>2, Zenon DEF IsChain, Run
  <2>4. cs[m + 1] <= g + b
    <3>1. cs[m + 1] \in Nat
      <4>1. m + 1 \in 1 .. m + 1
        OBVIOUS
      <4> QED  BY <1>6, <2>1, <4>1 DEF IsChain
    <3>2. cs[m + 1] <= g
      BY <1>3, <1>6, <1>11, <2>1
    <3> QED  BY <3>1, <3>2
  <2>5. IF broken' THEN cs[OnWay(x)' + 1] <= given'[x] ELSE cs[OnWay(x)' + 1] = given'[x]
    BY <1>5, <1>11, <2>1, <2>4
  <2> QED  BY <1>7, <2>3, <2>5 DEF Flows
<1>12. CASE ~broken
  <2>1. PICK N \in Nat : N = m + l /\ OnWay(x) = N /\ OnWay(x)' = N + n
    <3>1. m + l \in Nat /\ m + (l + n) = (m + l) + n
      BY <1>1
    <3> QED  BY <1>8, <1>9, <1>12, <3>1
  <2>2. ASSUME NEW i \in 1 .. N PROVE Way(x)'[i] = Way(x)[i]
    <3>1. CASE i <= m
      <4>1. i \in 1 .. m
        BY <2>1, <3>1
      <4> QED  BY <1>10, <4>1
    <3>2. CASE ~(i <= m)
      <4>1. PICK h \in 1 .. l : i = m + h
        <5>1. i - m \in 1 .. l /\ i = m + (i - m)
          BY <2>1, <3>2
        <5> QED  BY <5>1
      <4>2. h \in 1 .. l + n
        BY <1>1
      <4>3. sq'[x][h] = sq[x][h] /\ h \in 1 .. Len(sq[x]) /\ h \in 1 .. Len(sq'[x])
        BY <1>4, <4>2
      <4>4. SubSeq(buffer'[x][sq[x][h].chunk], 1, sq[x][h].length) = SubSeq(buffer[x][sq[x][h].chunk], 1, sq[x][h].length)
        BY <1>0, <4>3, SendKeepsParts
      <4> QED  BY <1>8, <1>9, <1>12, <4>1, <4>2, <4>3, <4>4
    <3> QED  BY <3>1, <3>2
  <2>3. ASSUME NEW j \in 1 .. n PROVE Way(x)'[N + j] = NewParts(x, tx, n)[j]
    <3>1. l + j \in 1 .. l + n /\ m + (l + j) = N + j
      BY <1>1, <2>1
    <3>2. Way(x)'[m + (l + j)] = SubSeq(buffer'[x][sq'[x][l + j].chunk], 1, sq'[x][l + j].length)
      BY <1>9, <1>12, <3>1, Zenon
    <3>3. sq'[x][l + j].chunk = tx[j] /\ sq'[x][l + j].length = offset'[x][tx[j]]
      BY <1>4
    <3>4. NewParts(x, tx, n)[j] = SubSeq(buffer'[x][tx[j]], 1, offset'[x][tx[j]])
      BY DEF NewParts
    <3> QED  BY <3>1, <3>2, <3>3, <3>4
  <2>4. PICK ds : /\ IsChain(ds, NewParts(x, tx, n), n, x) /\ ds[1] = g /\ ds[n + 1] = g + b
    <3>1. \A j \in 1 .. n : offset[x][tx[j]] = 0
      BY SendAtZero
    <3>2. Filling(x, tx, n, b) /\ ~(Room(x, tx, n) < b)
      BY DEF SendDoes
    <3> QED  BY <1>0, <1>1, <1>3, <3>1, <3>2, SendAdds
  <2>5. Meet(cs, N, ds)
    BY <1>3, <1>6, <1>12, <2>1, <2>4 DEF Meet
  <2>6. PICK r : IsChain(r, Way(x)', N + n, x) /\ r[1] = cs[1] /\ r[(N + n) + 1] = ds[n + 1]
    <3>1. PICK w, w2, v : w = Way(x) /\ w2 = Way(x)' /\ v = NewParts(x, tx, n)
      OBVIOUS
    <3>2. IsChain(cs, w, N, x) /\ IsChain(ds, v, n, x)
      BY <1>6, <2>1, <2>4, <3>1
    <3>3. (\A i \in 1 .. N : w2[i] = w[i]) /\ \A j \in 1 .. n : w2[N + j] = v[j]
      BY <2>2, <2>3, <3>1
    <3>4. /\ IsChain(Both(cs, N, ds, n), w2, N + n, x)
          /\ Both(cs, N, ds, n)[1] = cs[1] /\ Both(cs, N, ds, n)[(N + n) + 1] = ds[n + 1]
      <4>1. N \in Nat /\ n \in Nat /\ Meet(cs, N, ds) /\ IsChain(cs, w, N, x) /\ IsChain(ds, v, n, x)
        BY <1>1, <2>5, <3>2
      <4>2. Follows(w2, w, N, v, n)
        BY <3>3 DEF Follows
      <4>3. GoesOn(cs, N, ds, n, w2, x)
        BY <4>1, <4>2, ChainOn
      <4> QED  BY <4>3 DEF GoesOn
    <3> QED  BY <3>1, <3>4, Zenon
  <2>7. IsChain(r, Way(x), OnWay(x), x)'
    BY <2>1, <2>6, Zenon DEF IsChain, Run
  <2>8. IF broken' THEN r[OnWay(x)' + 1] <= given'[x] ELSE r[OnWay(x)' + 1] = given'[x]
    BY <1>5, <1>12, <2>1, <2>4, <2>6
  <2>9. HasRead(x, r[1])'
    BY <1>7, <2>6
  <2> QED  BY <2>7, <2>8, <2>9 DEF Flows
<1> QED  BY <1>11, <1>12

\* send() of x leaves alone what x has received.
LEMMA SendLeavesReceived ==
    ASSUME FlowInv, TypeOK', NEW x \in Ends, NEW b \in Nat, NEW L, NEW tx, NEW rest, NEW n, NEW k,
           SendDoes(x, b, L, tx, rest, n, k), Fresh(x)'
    PROVE  /\ \A i \in 1 .. Len(rxcq[x]) : buffer'[x][rxcq[x][i].chunk] = buffer[x][rxcq[x][i].chunk]
           /\ \A i \in 1 .. Len(rx_buffers[x]) : buffer'[x][rx_buffers[x][i]] = buffer[x][rx_buffers[x][i]]
<1>0. TypeOK /\ InPlace(x)
  BY DEF FlowInv
<1>1. Spared(x, b, L, n) /\ n \in Nat /\ n <= L /\ L \in Nat
  BY <1>0, SendSpares
<1>2. PICK D \in Nat, m \in Nat : D = DoneWith(x) /\ m = Len(rxcq[x]) /\ UsedUp(x) = D + m
  BY <1>0, UsedIs
<1>3. b # 0 => D + m <= L - n
  BY <1>0, <1>2, SendBehind
<1>4. ASSUME NEW c \in Chunks, c <= D + m PROVE buffer'[x][c] = buffer[x][c]
  <2>1. c \in Nat
    BY DEF Chunks
  <2>2. b = 0 \/ c <= L - n
    BY <1>1, <1>3, <1>4, <2>1
  <2> QED  BY <1>1, <2>2 DEF Spared
<1>5. ASSUME NEW i \in 1 .. m PROVE rxcq[x][i].chunk \in Chunks /\ rxcq[x][i].chunk <= D + m
  <2>1. rxcq[x][i].chunk = D + i
    BY <1>0, <1>2 DEF InPlace
  <2>2. D + i <= D + m
    OBVIOUS
  <2> QED  BY <1>0, <1>2, <2>1, <2>2, Parts
<1>6. ASSUME NEW i \in 1 .. Len(rx_buffers[x]) PROVE rx_buffers[x][i] \in Chunks /\ rx_buffers[x][i] <= D + m
  <2>1. PICK c \in Chunks : c = rx_buffers[x][i]
    BY <1>0, Parts
  <2>2. c <= D
    BY <1>0, <1>2, <2>1 DEF InPlace
  <2>3. c \in Nat
    BY DEF Chunks
  <2>4. c <= D + m
    BY <2>2, <2>3
  <2> QED  BY <2>1, <2>4
<1> QED  BY <1>2, <1>4, <1>5, <1>6

LEMMA SendFlows ==
    ASSUME FlowInv, NEW x \in Ends, NEW b \in Nat, Send(x, b)
    PROVE  FlowInv'
<1>0. TypeOK /\ \A e \in Ends : InPlace(e) /\ Unmoved(e) /\ OwnChunks(e)
  BY DEF FlowInv
<1>1. CASE SendFails(x)
  <2>1. TypeOK'
    BY <1>0, <1>1 DEF TypeOK, SendFails, memVars, poolVars
  <2>2. UNCHANGED <<memVars, poolVars, srq, sq, rxcq, rx_buffers, given, got, posted, refused, echoed, broken>>
    BY <1>1 DEF SendFails
  <2> QED  BY <2>1, <2>2, StillFlows
<1>2. CASE ~SendFails(x)
  <2>1. PICK L, tx, rest, n, k : SendDoes(x, b, L, tx, rest, n, k)
    BY <1>2, SendEffect
  <2>2. TypeOK'
    BY <1>0, <2>1, SendTypeOK
  <2>3. /\ UNCHANGED <<srq, rxcq, rx_buffers, got, posted, broken>>
        /\ \A d \in Ends : d # x => /\ channel'[d] = channel[d] /\ taken'[d] = taken[d] /\ sq'[d] = sq[d]
                                    /\ given'[d] = given[d] /\ offset'[d] = offset[d] /\ buffer'[d] = buffer[d]
        /\ refused \subseteq refused' /\ echoed \subseteq echoed'
    <3>1. /\ UNCHANGED <<srq, rxcq, rx_buffers, got, posted, broken>>
          /\ refused \subseteq refused' /\ echoed \subseteq echoed'
      BY <2>1 DEF SendDoes
    <3>2. \A d \in Ends : d # x => /\ channel'[d] = channel[d] /\ taken'[d] = taken[d] /\ sq'[d] = sq[d]
                                   /\ given'[d] = given[d]
      BY <1>0, <2>1 DEF SendDoes, TypeOK
    <3>3. \A d \in Ends : d # x => offset'[d] = offset[d] /\ buffer'[d] = buffer[d]
      BY <2>1 DEF SendDoes, Filling
    <3> QED  BY <3>1, <3>2, <3>3
  <2>4. \A e \in Ends : Torn(e) => Torn(e)'
    BY <2>3 DEF Torn
  <2>5. ASSUME NEW e \in Ends PROVE InPlace(e)' /\ Unmoved(e)' /\ OwnChunks(e)'
    <3>1. CASE e = x
      BY <2>1, <2>2, <3>1, SendInPlace
    <3>2. CASE e # x
      BY <1>0, <2>3, <2>4, <3>2, EndFrame
    <3> QED  BY <3>1, <3>2
  <2>6. ASSUME NEW e \in Ends, Fresh(e)' PROVE Fresh(e)
    <3>1. CASE e = x
      BY <1>0, <2>1, <2>2, <2>6, <3>1, SendBehind
    <3>2. CASE e # x
      BY <2>3, <2>6, <3>2 DEF Fresh
    <3> QED  BY <3>1, <3>2
  <2>7. ASSUME NEW e \in Ends, Fresh(e)', Fresh(Peer[e])', ~Torn(e)' PROVE Flows(e)'
    <3>1. PICK p \in Ends : p = Peer[e] /\ p # e
      BY Consts
    <3>2. Flows(e)
      BY <2>4, <2>6, <2>7, <3>1 DEF FlowInv
    <3>3. CASE e = x
      BY <2>1, <2>2, <2>7, <3>2, <3>3, SendKeepsFlow
    <3>4. CASE e # x
      <4>1. /\ \A i \in 1 .. Len(rxcq[p]) : buffer'[p][rxcq[p][i].chunk] = buffer[p][rxcq[p][i].chunk]
            /\ \A i \in 1 .. Len(rx_buffers[p]) : buffer'[p][rx_buffers[p][i]] = buffer[p][rx_buffers[p][i]]
        <5>1. CASE p = x
          BY <2>1, <2>2, <2>7, <3>1, <5>1, SendLeavesReceived
        <5>2. CASE p # x
          BY <2>3, <5>2
        <5> QED  BY <5>1, <5>2
      <4>2. buffer'[e] = buffer[e] /\ given'[e] = given[e] /\ sq'[e] = sq[e]
        BY <2>3, <3>4
      <4> QED  BY <1>0, <2>2, <2>3, <3>1, <3>2, <4>1, <4>2, FlowsFrame
    <3> QED  BY <3>3, <3>4
  <2> QED  BY <2>2, <2>5, <2>7 DEF FlowInv
<1> QED  BY <1>1, <1>2

-----------------------------------------------------------------------------
(* The theorems.                                                            *)

LEMMA NextFlowInv == FlowInv /\ [Next]_vars => FlowInv'
<1> SUFFICES ASSUME FlowInv, [Next]_vars PROVE FlowInv'
  OBVIOUS
<1>1. CASE UNCHANGED vars
  <2>1. UNCHANGED <<memVars, poolVars, srq, sq, rxcq, rx_buffers, given, got, posted, refused, echoed, broken>>
    BY <1>1 DEF vars, appVars, history
  <2>2. TypeOK'
    BY <1>1 DEF FlowInv, TypeOK, vars, memVars, poolVars, appVars, history
  <2> QED  BY <2>1, <2>2, StillFlows
<1>2. ASSUME NEW x \in Ends, NEW b \in Lengths[x], Send(x, b) PROVE FlowInv'
  <2>1. b \in Nat
    BY DataPathAssumption
  <2> QED  BY <1>2, <2>1, SendFlows
<1>3. ASSUME NEW x \in Ends, Transmit(x) PROVE FlowInv'
  BY <1>3, TransmitFlows
<1>4. ASSUME NEW x \in Ends, Flush(x) PROVE FlowInv'
  BY <1>4, FlushFlows
<1>5. ASSUME NEW x \in Ends, NEW len \in Lens[x], Read(x, len) PROVE FlowInv'
  BY <1>5, ReadFlows
<1>6. CASE Break
  BY <1>6, BreakFlows
<1> QED  BY <1>1, <1>2, <1>3, <1>4, <1>5, <1>6 DEF Next

LEMMA FlowInvTheorem == Spec => []FlowInv
  BY InitFlowInv, NextFlowInv, PTL DEF Spec

\* Lists, requests and completions only ever hold chunks of the cluster, and no
\* offset leaves its chunk, whether send() or Chunk::read moved it last.
THEOREM TypeCorrect == Spec => []TypeOK
<1>1. FlowInv => TypeOK
  BY DEF FlowInv
<1> QED  BY <1>1, FlowInvTheorem, PTL

\* What read() has returned at one end, what it has not read yet and what send() has
\* posted make up the stream that send() was given at the other end, once and in
\* order, as long as neither end has come to use its chunks twice.
THEOREM StreamIntactTheorem == Spec => []StreamIntact
  BY FlowIntact, FlowInvTheorem, PTL

\* Every byte that send() accepted was returned by read() of the peer, is in a chunk
\* that the peer holds, or is posted, the chunks kept in rx_buffers included.
THEOREM NothingLostTheorem == Spec => []NothingLost
  BY FlowNothingLost, FlowInvTheorem, PTL
=============================================================================
