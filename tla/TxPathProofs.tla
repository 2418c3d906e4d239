---------------------------- MODULE TxPathProofs ----------------------------
(***************************************************************************)
(* Theorems about TxPath, for every set of workers and sockets, every      *)
(* assignment of sockets to threads and queues, and every size of the      *)
(* pools, of the polls and of the messages.                                *)
(***************************************************************************)
EXTENDS TxPath, FiniteSetTheorems, SequenceTheorems, TLAPS

\* A worker reaps only entries that were filled, and types: together they are
\* inductive.
TypeInv == TypeOK /\ ReapsFilledEntries

\* The count of chunks get_buffers computes is the quotient rounded up: the
\* chunks hold the message, and one chunk less would not.
LEMMA NumBuffersRoundsUp ==
    ASSUME NEW b \in Nat
    PROVE  /\ NumBuffers(b) \in Nat
           /\ b <= NumBuffers(b) * ChunkSize
           /\ b > 0 => (NumBuffers(b) - 1) * ChunkSize < b
<1> DEFINE q == b \div ChunkSize
           r == b % ChunkSize
<1>1. q \in Nat /\ r \in 0 .. (ChunkSize - 1) /\ ChunkSize \in Nat \ {0}
  BY TxPathAssumption
<1>2. b = (ChunkSize * q) + r
  BY TxPathAssumption
<1>3. CASE r = 0
  <2>1. NumBuffers(b) = q
    BY <1>3, <1>1 DEF NumBuffers
  <2>2. (q - 1) * ChunkSize = (ChunkSize * q) - ChunkSize
    BY <1>1
  <2> HIDE DEF q, r
  <2> QED  BY <1>1, <1>2, <1>3, <2>1, <2>2
<1>4. CASE r # 0
  <2>1. NumBuffers(b) = q + 1
    BY <1>4 DEF NumBuffers
  <2>2. (q + 1) * ChunkSize = (ChunkSize * q) + ChunkSize
    BY <1>1
  <2> HIDE DEF q, r
  <2> QED  BY <1>1, <1>2, <1>4, <2>1, <2>2
<1> QED  BY <1>3, <1>4

\* The state register_rx_tx and initialize() leave behind is well typed, and no
\* worker is in the loop over the completions.
LEMMA InitTypeInv == Init => TypeInv
<1> SUFFICES ASSUME Init PROVE TypeInv
  OBVIOUS
<1>1. PoolTypeOK /\ QpTypeOK
  BY TxPathAssumption DEF Init, PoolTypeOK, QpTypeOK, Chunks
<1>2. CqTypeOK
  BY TxPathAssumption DEF Init, CqTypeOK
<1>3. ReapTypeOK
  BY TxPathAssumption DEF Init, ReapTypeOK
<1>4. SendTypeOK
  BY TxPathAssumption DEF Init, SendTypeOK
<1>5. crash \in CrashWay /\ raced \in BOOLEAN /\ pc = [w \in Workers |-> "loop"]
  BY DEF Init, CrashWay
<1>6. pc \in [Workers -> Steps] /\ \A w \in Workers : pc[w] = "loop"
  BY <1>5 DEF Steps
<1>7. CopyTypeOK
  BY <1>6, TxPathAssumption DEF Init, CopyTypeOK
<1>8. ReapsFilledEntries
  BY <1>6 DEF ReapsFilledEntries, Reaping
<1> QED  BY <1>1, <1>2, <1>3, <1>4, <1>5, <1>6, <1>7, <1>8 DEF TypeInv, TypeOK

\* A step that leaves the handler's locals alone and takes no thread into the
\* loop over the completions keeps ReapsFilledEntries.
LEMMA KeepsReap ==
    ASSUME TypeOK, ReapsFilledEntries, NEW w \in Workers, NEW l,
           l \notin Reaping, UNCHANGED <<wc, n, i>>,
           \/ UNCHANGED <<pc, this>>
           \/ pc' = [pc EXCEPT ![w] = l] /\ \A v \in Workers \ {w} : this'[v] = this[v]
    PROVE  ReapsFilledEntries'
<1>1. pc \in [Workers -> Steps]
  BY DEF TypeOK
<1>2. ASSUME NEW v \in Workers, pc'[v] \in Reaping
      PROVE  pc[v] = pc'[v] /\ this'[v] = this[v]
  BY <1>1, <1>2
<1> QED  BY <1>2 DEF ReapsFilledEntries, Reaping

\* A step that leaves the locals of Chunk::write and Chunk::read alone and takes no
\* thread into them.
LEMMA KeepsCopy ==
    ASSUME TypeOK, NEW w \in Workers, NEW l, l \notin {"write", "full", "read"},
           UNCHANGED <<this, len, seen, reads>>,
           \/ UNCHANGED <<pc, todo>>
           \/ pc' = [pc EXCEPT ![w] = l] /\ \A v \in Workers \ {w} : todo'[v] = todo[v]
    PROVE  CopyTypeOK'
<1>1. pc \in [Workers -> Steps] /\ CopyTypeOK
  BY DEF TypeOK
<1>2. ASSUME NEW v \in Workers, pc'[v] \in {"write", "full", "read"}
      PROVE  pc[v] = pc'[v] /\ todo'[v] = todo[v]
  BY <1>1, <1>2
<1> QED  BY <1>1, <1>2 DEF CopyTypeOK

\* Chunk::write or Chunk::read of w has returned.
LEMMA DoneTypes ==
    ASSUME TypeOK, NEW w \in Workers, ChunkDone(w), pc'[w] \notin {"write", "full", "read"},
           \A v \in Workers \ {w} : pc'[v] = pc[v], todo' = todo
    PROVE  CopyTypeOK'
<1>1. CopyTypeOK
  BY DEF TypeOK
<1>2. /\ this' = [this EXCEPT ![w] = 0] /\ len' = [len EXCEPT ![w] = 0]
      /\ seen' = [seen EXCEPT ![w] = 0] /\ reads' = reads
  BY DEF ChunkDone
<1>3. /\ this' \in [Workers -> Chunks \cup {0}] /\ len' \in [Workers -> Nat]
      /\ seen' \in [Workers -> Nat]
  BY <1>1, <1>2 DEF CopyTypeOK
<1>4. ASSUME NEW v \in Workers, pc'[v] \in {"write", "full", "read"}
      PROVE  pc'[v] = pc[v] /\ this'[v] = this[v] /\ len'[v] = len[v]
  <2>1. v # w
    BY <1>4
  <2> QED  BY <1>1, <1>2, <2>1 DEF CopyTypeOK
<1> QED  BY <1>1, <1>2, <1>3, <1>4 DEF CopyTypeOK

\* The steps of send() keep the types.
LEMMA SendTypeInv ==
    ASSUME TypeInv, NEW w \in Workers, SendSteps(w)
    PROVE  TypeInv'
<1>0. /\ PoolTypeOK /\ QpTypeOK /\ CqTypeOK /\ ReapTypeOK /\ CopyTypeOK /\ SendTypeOK
      /\ pc \in [Workers -> Steps]
      /\ raced \in BOOLEAN /\ crash \in CrashWay
      /\ ReapsFilledEntries /\ TypeOK
  BY DEF TypeInv, TypeOK
<1>1. ASSUME NEW s \in Sockets, NEW b \in Lengths, SendBegin(w, s, b)
      PROVE  TypeInv'
  <2>1. b \in Nat /\ UNCHANGED <<poolVars, qpVars, notifyVars, copyVars>>
    BY <1>1, TxPathAssumption DEF SendBegin
  <2>2. PoolTypeOK' /\ QpTypeOK' /\ CqTypeOK' /\ ReapTypeOK'
    BY <1>0, <2>1 DEF PoolTypeOK, QpTypeOK, CqTypeOK, ReapTypeOK, poolVars, qpVars, notifyVars
  <2>3. \/ UNCHANGED <<pc, tx_buffers, cur, raced>> /\ crash' = "no_buffer"
        \/ \E l \in {"post", "back"}, bs \in {channel, <<>>} :
              /\ pc' = [pc EXCEPT ![w] = l] /\ raced' \in BOOLEAN
              /\ tx_buffers' = [tx_buffers EXCEPT ![w] = bs]
              /\ cur' = [cur EXCEPT ![w] = 1]
              /\ crash' = crash
    BY <1>1 DEF SendBegin
  <2>4. SendTypeOK'
    <3>1. channel \in Seq(Chunks) /\ <<>> \in Seq(Chunks)
      BY <1>0 DEF PoolTypeOK
    <3>2. tx_buffers' \in [Workers -> Seq(Chunks)] /\ cur' \in [Workers -> Nat \ {0}]
      <4>1. tx_buffers \in [Workers -> Seq(Chunks)] /\ cur \in [Workers -> Nat \ {0}]
        BY <1>0 DEF SendTypeOK
      <4>2. tx_buffers' = tx_buffers \/ tx_buffers' = [tx_buffers EXCEPT ![w] = channel]
               \/ tx_buffers' = [tx_buffers EXCEPT ![w] = <<>>]
        BY <2>3
      <4>3. cur' = cur \/ cur' = [cur EXCEPT ![w] = 1]
        BY <2>3
      <4>4. tx_buffers' \in [Workers -> Seq(Chunks)]
        BY <3>1, <4>1, <4>2
      <4>5. cur' \in [Workers -> Nat \ {0}]
        BY <4>1, <4>3
      <4> QED  BY <4>4, <4>5
    <3>3. empties' \in 0 .. MaxEmpty
      <4>1. empties \in 0 .. MaxEmpty /\ MaxEmpty \in Nat
        BY <1>0, TxPathAssumption DEF SendTypeOK
      <4>2. empties' = empties \/ (empties < MaxEmpty /\ empties' = empties + 1)
        BY <1>1 DEF SendBegin
      <4> QED  BY <4>1, <4>2
    <3>4. /\ sock' = [sock EXCEPT ![w] = s]
          /\ bytes' = [bytes EXCEPT ![w] = b]
          /\ todo' = [todo EXCEPT ![w] = b]
      BY <1>1 DEF SendBegin
    <3> QED  BY <1>0, <2>1, <3>2, <3>3, <3>4 DEF SendTypeOK
  <2>5. pc' \in [Workers -> Steps] /\ crash' \in CrashWay
    BY <1>0, <2>3 DEF Steps, Sending, FromList, CrashWay
  <2>6. \E l \in {"loop", "post", "back"} : pc' = [pc EXCEPT ![w] = l]
    <3>1. pc = [pc EXCEPT ![w] = "loop"]
      BY <1>0, <1>1 DEF SendBegin, At
    <3> QED  BY <2>3, <3>1
  <2>7. ReapsFilledEntries'
    BY <1>0, <2>1, <2>6, KeepsReap DEF notifyVars, copyVars, Reaping
  <2>8. CopyTypeOK'
    <3>1. todo' = [todo EXCEPT ![w] = b] /\ todo \in [Workers -> Nat]
      BY <1>0, <1>1 DEF SendBegin, SendTypeOK
    <3>2. \A v \in Workers \ {w} : todo'[v] = todo[v]
      BY <3>1
    <3> QED  BY <1>0, <2>1, <2>6, <3>2, KeepsCopy DEF copyVars
  <2>9. raced' \in BOOLEAN
    BY <1>0, <2>3
  <2> QED  BY <2>2, <2>4, <2>5, <2>7, <2>8, <2>9 DEF TypeInv, TypeOK
<1>2. CASE TakeBack(w)
  <2>1. UNCHANGED <<poolVars, qpVars, notifyVars, copyVars, sock, bytes, todo, cur, empties, raced>>
    BY <1>2 DEF TakeBack
  <2>2. \/ UNCHANGED <<tx_buffers, pc>> /\ crash' = "past_end"
        \/ /\ channel # <<>>
           /\ tx_buffers' = [tx_buffers EXCEPT ![w] = Append(@, channel[Len(channel)])]
           /\ pc' = [pc EXCEPT ![w] = "pop"]
           /\ crash' = crash
    BY <1>2 DEF TakeBack
  <2>3. PoolTypeOK' /\ QpTypeOK' /\ CqTypeOK' /\ ReapTypeOK'
    BY <1>0, <2>1 DEF PoolTypeOK, QpTypeOK, CqTypeOK, ReapTypeOK, poolVars, qpVars, notifyVars
  <2>4. channel # <<>> => channel[Len(channel)] \in Chunks
    BY <1>0 DEF PoolTypeOK
  <2>5. SendTypeOK'
    <3>1. tx_buffers \in [Workers -> Seq(Chunks)]
      BY <1>0 DEF SendTypeOK
    <3>2. channel # <<>> => Append(tx_buffers[w], channel[Len(channel)]) \in Seq(Chunks)
      BY <2>4, <3>1
    <3>3. tx_buffers' \in [Workers -> Seq(Chunks)]
      BY <2>2, <3>1, <3>2
    <3> QED  BY <1>0, <2>1, <3>3 DEF SendTypeOK
  <2>6. pc' \in [Workers -> Steps] /\ crash' \in CrashWay
    BY <1>0, <2>2 DEF Steps, Sending, FromList, CrashWay
  <2>7. ReapsFilledEntries' /\ CopyTypeOK'
    BY <1>0, <2>1, <2>2, KeepsReap, KeepsCopy DEF notifyVars, copyVars, Reaping
  <2> QED  BY <1>0, <2>1, <2>3, <2>5, <2>6, <2>7 DEF TypeInv, TypeOK
<1>3. CASE PopBack(w)
  <2>1. UNCHANGED <<send, offset, leaked, touched, qpVars, notifyVars, copyVars, sendVars, raced>>
    BY <1>3 DEF PopBack
  <2>2. \/ UNCHANGED <<channel, pc>> /\ crash' = "past_end"
        \/ \E l \in {"fill", "back"} :
              /\ channel # <<>>
              /\ channel' = SubSeq(channel, 1, Len(channel) - 1)
              /\ pc' = [pc EXCEPT ![w] = l]
              /\ crash' = crash
    BY <1>3 DEF PopBack
  <2>3. QpTypeOK' /\ CqTypeOK' /\ ReapTypeOK' /\ SendTypeOK'
    BY <1>0, <2>1 DEF QpTypeOK, CqTypeOK, ReapTypeOK, SendTypeOK, qpVars, notifyVars, sendVars
  <2>4. PoolTypeOK'
    <3>1. channel \in Seq(Chunks)
      BY <1>0 DEF PoolTypeOK
    <3>2. channel # <<>> => SubSeq(channel, 1, Len(channel) - 1) \in Seq(Chunks)
      BY <3>1
    <3> QED  BY <1>0, <2>1, <2>2, <3>2 DEF PoolTypeOK
  <2>5. pc' \in [Workers -> Steps] /\ crash' \in CrashWay
    BY <1>0, <2>2 DEF Steps, Sending, FromList, CrashWay
  <2>6. ReapsFilledEntries' /\ CopyTypeOK'
    BY <1>0, <2>1, <2>2, KeepsReap, KeepsCopy DEF notifyVars, copyVars, sendVars, Reaping
  <2> QED  BY <1>0, <2>1, <2>3, <2>4, <2>5, <2>6 DEF TypeInv, TypeOK
<1>4. ASSUME NEW piece \in 1 .. todo[w], WriteBegin(w, piece)
      PROVE  TypeInv'
  <2>1. UNCHANGED <<poolVars, qpVars, notifyVars, reads, sendVars, raced>> /\ pc[w] = "fill"
    BY <1>4 DEF WriteBegin, At
  <2>2. PoolTypeOK' /\ QpTypeOK' /\ CqTypeOK' /\ ReapTypeOK' /\ SendTypeOK'
    BY <1>0, <2>1 DEF PoolTypeOK, QpTypeOK, CqTypeOK, ReapTypeOK, SendTypeOK, poolVars, qpVars,
       notifyVars, sendVars
  <2>3. CASE cur[w] > Len(tx_buffers[w])
    <3>1. UNCHANGED <<this, len, seen, pc>> /\ crash' = "past_end"
      BY <1>4, <2>3 DEF WriteBegin
    <3>2. CopyTypeOK' /\ ReapsFilledEntries'
      BY <1>0, <2>1, <3>1, KeepsReap, KeepsCopy DEF notifyVars, sendVars, Reaping
    <3> QED  BY <1>0, <2>1, <2>2, <3>1, <3>2 DEF TypeInv, TypeOK, CrashWay
  <2>4. CASE cur[w] <= Len(tx_buffers[w])
    <3>1. PICK c : c = tx_buffers[w][cur[w]]
      OBVIOUS
    <3>2. c \in Chunks /\ offset[c] \in Nat /\ piece \in Nat /\ piece <= todo[w]
      <4>1. c \in Chunks
        BY <1>0, <2>4, <3>1 DEF SendTypeOK
      <4>2. todo[w] \in Nat
        BY <1>0 DEF SendTypeOK
      <4> QED  BY <1>0, <4>1, <4>2 DEF PoolTypeOK
    <3>3. /\ this' = [this EXCEPT ![w] = c] /\ len' = [len EXCEPT ![w] = piece]
          /\ seen' = [seen EXCEPT ![w] = offset[c]] /\ pc' = [pc EXCEPT ![w] = "write"]
          /\ crash' = crash
      <4>1. ~(cur[w] > Len(tx_buffers[w]))
        BY <1>0, <2>4 DEF SendTypeOK
      <4> QED  BY <1>4, <3>1, <4>1 DEF WriteBegin
    <3>4. ReapsFilledEntries'
      <4>1. \A v \in Workers \ {w} : this'[v] = this[v]
        BY <1>0, <3>3 DEF CopyTypeOK
      <4>2. "write" \notin Reaping /\ UNCHANGED <<wc, n, i>>
        BY <2>1 DEF notifyVars, Reaping
      <4> QED  BY <1>0, <3>3, <4>1, <4>2, KeepsReap
    <3>5. CopyTypeOK'
      <4>1. /\ this' \in [Workers -> Chunks \cup {0}] /\ len' \in [Workers -> Nat]
            /\ seen' \in [Workers -> Nat] /\ reads' \in 0 .. MaxReads
        BY <1>0, <2>1, <3>2, <3>3 DEF CopyTypeOK
      <4>2. ASSUME NEW v \in Workers
            PROVE  /\ pc'[v] \in {"write", "full", "read"} => this'[v] \in Chunks
                   /\ pc'[v] = "write" => len'[v] <= todo'[v]
        <5>1. todo' = todo
          BY <2>1 DEF sendVars
        <5>2. CASE v = w
          BY <1>0, <3>2, <3>3, <5>1, <5>2 DEF CopyTypeOK
        <5>3. CASE v # w
          BY <1>0, <3>3, <5>1, <5>3 DEF CopyTypeOK
        <5> QED  BY <5>2, <5>3
      <4> QED  BY <4>1, <4>2 DEF CopyTypeOK
    <3>6. pc' \in [Workers -> Steps]
      BY <1>0, <3>3 DEF Steps, Sending
    <3> QED  BY <1>0, <2>1, <2>2, <3>3, <3>4, <3>5, <3>6 DEF TypeInv, TypeOK
  <2> QED  BY <1>0, <2>3, <2>4 DEF SendTypeOK
<1>7. CASE WriteEnd(w)
  <2>1. /\ UNCHANGED <<channel, send, leaked, touched, qpVars, notifyVars, copyVars, sock, bytes,
                       tx_buffers, cur, empties, raced, crash>>
        /\ pc[w] = "write" /\ pc' = [pc EXCEPT ![w] = "full"]
        /\ todo' = [todo EXCEPT ![w] = @ - Ret(w)]
    BY <1>7 DEF WriteEnd, At
  <2>2. QpTypeOK' /\ CqTypeOK' /\ ReapTypeOK'
    BY <1>0, <2>1 DEF QpTypeOK, CqTypeOK, ReapTypeOK, qpVars, notifyVars
  <2>3. /\ this[w] \in Chunks /\ len[w] \in Nat /\ seen[w] \in Nat /\ len[w] <= todo[w]
        /\ offset[this[w]] \in Nat /\ todo[w] \in Nat /\ ChunkSize \in Nat
    BY <1>0, <2>1, TxPathAssumption DEF CopyTypeOK, PoolTypeOK, SendTypeOK
  <2>4. PoolTypeOK'
    <3>1. PICK m \in Nat : offset' = [offset EXCEPT ![this[w]] = m]
      <4>1. PICK o \in {offset[this[w]], seen[w]} :
               offset' = [offset EXCEPT ![this[w]] =
                              IF Fits(seen[w], len[w]) THEN o + len[w] ELSE ChunkSize]
        BY <1>7 DEF WriteEnd
      <4>2. (IF Fits(seen[w], len[w]) THEN o + len[w] ELSE ChunkSize) \in Nat
        BY <2>3
      <4> QED  BY <4>1, <4>2
    <3>2. offset' \in [Chunks -> Nat]
      BY <1>0, <3>1 DEF PoolTypeOK
    <3> QED  BY <1>0, <2>1, <3>2 DEF PoolTypeOK
  <2>5. SendTypeOK'
    <3>1. todo[w] - Ret(w) \in Nat
      BY <2>3 DEF Ret, Fits
    <3>2. todo' \in [Workers -> Nat]
      BY <1>0, <2>1, <3>1 DEF SendTypeOK
    <3> QED  BY <1>0, <2>1, <3>2 DEF SendTypeOK
  <2>6. ReapsFilledEntries'
    BY <1>0, <2>1, KeepsReap DEF notifyVars, copyVars, Reaping
  <2>7. CopyTypeOK'
    <3>1. ASSUME NEW v \in Workers
          PROVE  /\ pc'[v] \in {"write", "full", "read"} => pc[v] \in {"write", "full", "read"}
                 /\ pc'[v] = "write" => pc[v] = "write" /\ todo'[v] = todo[v]
      <4>1. todo \in [Workers -> Nat]
        BY <1>0 DEF SendTypeOK
      <4>2. CASE v = w
        BY <1>0, <2>1, <4>2
      <4>3. CASE v # w
        BY <1>0, <2>1, <4>1, <4>3
      <4> QED  BY <4>2, <4>3
    <3>2. this' = this /\ len' = len /\ seen' = seen /\ reads' = reads
      BY <2>1 DEF copyVars
    <3> QED  BY <1>0, <3>1, <3>2 DEF CopyTypeOK
  <2>8. pc' \in [Workers -> Steps]
    BY <1>0, <2>1 DEF Steps, Sending
  <2> QED  BY <1>0, <2>1, <2>2, <2>4, <2>5, <2>6, <2>7, <2>8 DEF TypeInv, TypeOK
<1>8. CASE FullTest(w)
  <2>1. /\ UNCHANGED <<poolVars, qpVars, notifyVars, sock, bytes, todo, tx_buffers, empties, raced,
                       crash>>
        /\ ChunkDone(w)
        /\ cur' = cur \/ cur' = [cur EXCEPT ![w] = @ + 1]
        /\ \E l \in {"post", "fill"} : pc' = [pc EXCEPT ![w] = l]
    <3>1. cur \in [Workers -> Nat \ {0}]
      BY <1>0 DEF SendTypeOK
    <3> QED  BY <1>8, <3>1 DEF FullTest
  <2>2. PICK l \in {"post", "fill"} : pc' = [pc EXCEPT ![w] = l]
    BY <2>1
  <2>3. PoolTypeOK' /\ QpTypeOK' /\ CqTypeOK' /\ ReapTypeOK'
    BY <1>0, <2>1 DEF PoolTypeOK, QpTypeOK, CqTypeOK, ReapTypeOK, poolVars, qpVars, notifyVars
  <2>4. SendTypeOK'
    <3>1. cur' \in [Workers -> Nat \ {0}]
      <4>1. cur \in [Workers -> Nat \ {0}]
        BY <1>0 DEF SendTypeOK
      <4> QED  BY <2>1, <4>1
    <3> QED  BY <1>0, <2>1, <3>1 DEF SendTypeOK
  <2>5. \A v \in Workers \ {w} : this'[v] = this[v]
    BY <1>0, <2>1 DEF ChunkDone, CopyTypeOK
  <2>6. ReapsFilledEntries'
    BY <1>0, <2>1, <2>2, <2>5, KeepsReap DEF notifyVars, Reaping
  <2>7. CopyTypeOK'
    BY <1>0, <2>1, <2>2, DoneTypes
  <2>8. pc' \in [Workers -> Steps]
    BY <1>0, <2>2 DEF Steps, Sending
  <2> QED  BY <1>0, <2>1, <2>3, <2>4, <2>6, <2>7, <2>8 DEF TypeInv, TypeOK
<1>5. ASSUME NEW k \in 0 .. Len(tx_buffers[w]), PostFail(w, k) \/ Post(w)
      PROVE  TypeInv'
  <2>1. /\ UNCHANGED <<channel, send, offset, touched, failed, notifyVars, copyVars, raced, crash>>
        /\ Return(w)
    BY <1>5 DEF PostFail, Post, poolVars
  <2>2. /\ \/ sq' = [sq EXCEPT ![sock[w]] = @ \o tx_buffers[w]]
           \/ sq' = [sq EXCEPT ![sock[w]] = @ \o SubSeq(tx_buffers[w], 1, k)]
        /\ \/ leaked' = leaked
           \/ leaked' = leaked \cup {tx_buffers[w][j] : j \in (k + 1) .. Len(tx_buffers[w])}
    BY <1>5 DEF PostFail, Post, poolVars
  <2>3. CqTypeOK' /\ ReapTypeOK'
    BY <1>0, <2>1 DEF CqTypeOK, ReapTypeOK, notifyVars
  <2>4. SendTypeOK'
    BY <1>0, <2>1 DEF SendTypeOK, Return
  <2>5. /\ tx_buffers[w] \in Seq(Chunks) /\ sock[w] \in Sockets
        /\ SubSeq(tx_buffers[w], 1, k) \in Seq(Chunks)
        /\ \A j \in (k + 1) .. Len(tx_buffers[w]) : tx_buffers[w][j] \in Chunks
    BY <1>0 DEF SendTypeOK
  <2>6. QpTypeOK'
    <3>1. sq[sock[w]] \in Seq(Chunks)
      BY <1>0, <2>5 DEF QpTypeOK
    <3>2. /\ sq[sock[w]] \o tx_buffers[w] \in Seq(Chunks)
          /\ sq[sock[w]] \o SubSeq(tx_buffers[w], 1, k) \in Seq(Chunks)
      BY <2>5, <3>1
    <3> QED  BY <1>0, <2>1, <2>2, <2>5, <3>2 DEF QpTypeOK
  <2>7. PoolTypeOK'
    BY <1>0, <2>1, <2>2, <2>5 DEF PoolTypeOK
  <2>8. pc' \in [Workers -> Steps]
    BY <1>0, <2>1 DEF Return, Steps
  <2>9. ReapsFilledEntries' /\ CopyTypeOK'
    <3>1. /\ UNCHANGED <<wc, n, i>> /\ UNCHANGED <<this, len, seen, reads>>
          /\ pc' = [pc EXCEPT ![w] = "loop"]
          /\ \A v \in Workers \ {w} : this'[v] = this[v]
          /\ \A v \in Workers \ {w} : todo'[v] = todo[v]
      BY <2>1 DEF notifyVars, copyVars, Return
    <3>2. ReapsFilledEntries'
      <4>1. "loop" \notin Reaping
        BY DEF Reaping
      <4>2. /\ UNCHANGED <<wc, n, i>> /\ pc' = [pc EXCEPT ![w] = "loop"]
            /\ \A v \in Workers \ {w} : this'[v] = this[v]
        BY <3>1
      <4> QED  BY <1>0, <4>1, <4>2, KeepsReap
    <3>3. CopyTypeOK'
      BY <1>0, <3>1, KeepsCopy
    <3> QED  BY <3>2, <3>3
  <2> QED  BY <1>0, <2>1, <2>3, <2>4, <2>6, <2>7, <2>8, <2>9 DEF TypeInv, TypeOK
<1>6. 0 \in 0 .. Len(tx_buffers[w])
  BY <1>0 DEF SendTypeOK
<1> QED  BY <1>1, <1>2, <1>3, <1>4, <1>5, <1>6, <1>7, <1>8 DEF SendSteps

\* The steps of Chunk::read keep the types.
LEMMA ReadTypeInv ==
    ASSUME TypeInv, NEW w \in Workers, ReadSteps(w)
    PROVE  TypeInv'
<1>0. /\ PoolTypeOK /\ QpTypeOK /\ CqTypeOK /\ ReapTypeOK /\ CopyTypeOK /\ SendTypeOK
      /\ pc \in [Workers -> Steps]
      /\ raced \in BOOLEAN /\ crash \in CrashWay
      /\ ReapsFilledEntries /\ TypeOK
  BY DEF TypeInv, TypeOK
<1>1. ASSUME NEW c \in RxChunks, NEW b \in ReadLens, ReadBegin(w, c, b)
      PROVE  TypeInv'
  <2>1. /\ UNCHANGED <<channel, send, offset, leaked, qpVars, notifyVars, sendVars, raced, crash>>
        /\ this' = [this EXCEPT ![w] = c] /\ len' = [len EXCEPT ![w] = b]
        /\ seen' = [seen EXCEPT ![w] = offset[c]] /\ pc' = [pc EXCEPT ![w] = "read"]
        /\ reads < MaxReads /\ reads' = reads + 1 /\ touched' = touched \cup {c}
    BY <1>1 DEF ReadBegin
  <2>2. QpTypeOK' /\ CqTypeOK' /\ ReapTypeOK' /\ SendTypeOK' /\ PoolTypeOK'
    BY <1>0, <2>1 DEF PoolTypeOK, QpTypeOK, CqTypeOK, ReapTypeOK, SendTypeOK, qpVars, notifyVars,
       sendVars
  <2>3. c \in Chunks /\ offset[c] \in Nat /\ b \in Nat
    <3>1. c \in Chunks
      BY TxPathAssumption DEF RxChunks, Chunks
    <3> QED  BY <1>0, <3>1, TxPathAssumption DEF PoolTypeOK
  <2>4. ReapsFilledEntries'
    <3>1. \A v \in Workers \ {w} : this'[v] = this[v]
      BY <1>0, <2>1 DEF CopyTypeOK
    <3> QED  BY <1>0, <2>1, <3>1, KeepsReap DEF notifyVars, Reaping
  <2>5. CopyTypeOK'
    <3>1. /\ this' \in [Workers -> Chunks \cup {0}] /\ len' \in [Workers -> Nat]
          /\ seen' \in [Workers -> Nat]
      BY <1>0, <2>1, <2>3 DEF CopyTypeOK
    <3>2. reads' \in 0 .. MaxReads
      BY <1>0, <2>1, TxPathAssumption DEF CopyTypeOK
    <3>3. ASSUME NEW v \in Workers
          PROVE  /\ pc'[v] \in {"write", "full", "read"} => this'[v] \in Chunks
                 /\ pc'[v] = "write" => len'[v] <= todo'[v]
      <4>1. todo' = todo
        BY <2>1 DEF sendVars
      <4>2. CASE v = w
        BY <1>0, <2>1, <2>3, <4>2 DEF CopyTypeOK
      <4>3. CASE v # w
        BY <1>0, <2>1, <4>1, <4>3 DEF CopyTypeOK
      <4> QED  BY <4>2, <4>3
    <3> QED  BY <3>1, <3>2, <3>3 DEF CopyTypeOK
  <2>6. pc' \in [Workers -> Steps]
    BY <1>0, <2>1 DEF Steps
  <2> QED  BY <1>0, <2>1, <2>2, <2>4, <2>5, <2>6 DEF TypeInv, TypeOK
<1>2. CASE ReadEnd(w)
  <2>1. /\ UNCHANGED <<channel, send, leaked, touched, qpVars, notifyVars, sendVars, raced, crash>>
        /\ ChunkDone(w) /\ pc[w] = "read" /\ pc' = [pc EXCEPT ![w] = "loop"]
    BY <1>2 DEF ReadEnd, At
  <2>2. QpTypeOK' /\ CqTypeOK' /\ ReapTypeOK' /\ SendTypeOK'
    BY <1>0, <2>1 DEF QpTypeOK, CqTypeOK, ReapTypeOK, SendTypeOK, qpVars, notifyVars, sendVars
  <2>3. /\ this[w] \in Chunks /\ len[w] \in Nat /\ seen[w] \in Nat /\ offset[this[w]] \in Nat
    BY <1>0, <2>1 DEF CopyTypeOK, PoolTypeOK
  <2>4. PoolTypeOK'
    <3>1. PICK m \in Nat : offset' = [offset EXCEPT ![this[w]] = m]
      <4>1. PICK o \in {offset[this[w]], seen[w]} :
               offset' = [offset EXCEPT ![this[w]] =
                              IF Fits(seen[w], len[w]) THEN o + len[w] ELSE 0]
        BY <1>2 DEF ReadEnd
      <4>2. (IF Fits(seen[w], len[w]) THEN o + len[w] ELSE 0) \in Nat
        BY <2>3
      <4> QED  BY <4>1, <4>2
    <3>2. offset' \in [Chunks -> Nat]
      BY <1>0, <3>1 DEF PoolTypeOK
    <3> QED  BY <1>0, <2>1, <3>2 DEF PoolTypeOK
  <2>5. \A v \in Workers \ {w} : this'[v] = this[v] /\ pc'[v] = pc[v]
    BY <1>0, <2>1 DEF ChunkDone, CopyTypeOK
  <2>6. ReapsFilledEntries'
    <3>1. UNCHANGED <<wc, n, i>> /\ \A v \in Workers \ {w} : this'[v] = this[v]
      BY <2>1, <2>5 DEF notifyVars
    <3> QED  BY <1>0, <2>1, <3>1, KeepsReap DEF Reaping
  <2>7. CopyTypeOK'
    <3>1. pc'[w] = "loop" /\ todo' = todo
      BY <1>0, <2>1 DEF sendVars
    <3> QED  BY <1>0, <2>1, <2>5, <3>1, DoneTypes
  <2>8. pc' \in [Workers -> Steps]
    BY <1>0, <2>1 DEF Steps
  <2> QED  BY <1>0, <2>1, <2>2, <2>4, <2>6, <2>7, <2>8 DEF TypeInv, TypeOK
<1> QED  BY <1>1, <1>2 DEF ReadSteps

\* The steps of handle_tx_event keep the types.
LEMMA HandlerTypeInv ==
    ASSUME TypeInv, NEW w \in Workers, HandlerSteps(w)
    PROVE  TypeInv'
<1>0. /\ PoolTypeOK /\ QpTypeOK /\ CqTypeOK /\ ReapTypeOK /\ CopyTypeOK /\ SendTypeOK
      /\ pc \in [Workers -> Steps]
      /\ raced \in BOOLEAN /\ crash \in CrashWay
      /\ ReapsFilledEntries /\ TypeOK
  BY DEF TypeInv, TypeOK
<1>1. CASE GetCqEvent(w) \/ Rearm(w)
  <2>1. /\ UNCHANGED <<poolVars, qpVars, copyVars, sendVars, cq, wc, n, i, raced, crash>>
        /\ rearmed' \in {[rearmed EXCEPT ![w] = TRUE], [rearmed EXCEPT ![w] = FALSE]}
        /\ pc' = [pc EXCEPT ![w] = "poll"]
    BY <1>1 DEF GetCqEvent, Rearm
  <2>2. PoolTypeOK' /\ QpTypeOK' /\ SendTypeOK' /\ ReapTypeOK'
    BY <1>0, <2>1 DEF PoolTypeOK, QpTypeOK, SendTypeOK, ReapTypeOK, poolVars, qpVars, sendVars
  <2>3. ASSUME GetCqEvent(w)
        PROVE  CqTypeOK'
    <3>1. /\ events' = [events EXCEPT ![w] = @ - 1] /\ events[w] > 0
          /\ need_ack' = [need_ack EXCEPT ![w] = Ack(@)]
          /\ UNCHANGED <<cq, armed, stuck>>
      BY <2>3 DEF GetCqEvent
    <3>2. Ack(need_ack[w]) \in 0 .. (MAX_ACK_EVENT - 1)
      <4>1. need_ack[w] \in 0 .. (MAX_ACK_EVENT - 1) /\ MAX_ACK_EVENT \in Nat \ {0, 1}
        BY <1>0, TxPathAssumption DEF CqTypeOK
      <4> QED  BY <4>1 DEF Ack
    <3>3. need_ack' \in [Workers -> 0 .. (MAX_ACK_EVENT - 1)]
      BY <1>0, <3>1, <3>2 DEF CqTypeOK
    <3>4. events' \in [Workers -> Nat]
      BY <1>0, <3>1 DEF CqTypeOK
    <3> QED  BY <1>0, <3>1, <3>3, <3>4 DEF CqTypeOK
  <2>4. ASSUME Rearm(w)
        PROVE  CqTypeOK'
    BY <1>0, <2>4 DEF CqTypeOK, Rearm
  <2>5. pc' \in [Workers -> Steps]
    BY <1>0, <2>1 DEF Steps, Handler
  <2>6. ReapsFilledEntries' /\ CopyTypeOK'
    <3>1. /\ UNCHANGED <<wc, n, i>> /\ UNCHANGED <<this, len, seen, reads>>
          /\ pc' = [pc EXCEPT ![w] = "poll"]
          /\ \A v \in Workers \ {w} : this'[v] = this[v]
          /\ \A v \in Workers \ {w} : todo'[v] = todo[v]
      BY <2>1 DEF copyVars, sendVars
    <3>2. ReapsFilledEntries'
      <4>1. "poll" \notin Reaping
        BY DEF Reaping
      <4>2. /\ UNCHANGED <<wc, n, i>> /\ pc' = [pc EXCEPT ![w] = "poll"]
            /\ \A v \in Workers \ {w} : this'[v] = this[v]
        BY <3>1
      <4> QED  BY <1>0, <4>1, <4>2, KeepsReap
    <3>3. CopyTypeOK'
      BY <1>0, <3>1, KeepsCopy
    <3> QED  BY <3>2, <3>3
  <2> QED  BY <1>0, <1>1, <2>1, <2>2, <2>3, <2>4, <2>5, <2>6 DEF TypeInv, TypeOK
<1>2. CASE PollCq(w)
  <2> DEFINE got == IF Len(cq[w]) < MAX_COMPLETIONS THEN Len(cq[w]) ELSE MAX_COMPLETIONS
  <2>1. cq[w] \in Seq(Completion) /\ MAX_COMPLETIONS \in Nat \ {0}
    BY <1>0, TxPathAssumption DEF CqTypeOK
  <2>2. got \in 0 .. MAX_COMPLETIONS /\ got <= Len(cq[w])
    BY <2>1
  <2>3. /\ n' = [n EXCEPT ![w] = got]
        /\ i' = [i EXCEPT ![w] = 1]
        /\ UNCHANGED <<poolVars, qpVars, armed, events, stuck, need_ack, rearmed, copyVars, sendVars,
                       crash>>
        /\ cq' = [cq EXCEPT ![w] = SubSeq(@, got + 1, Len(@))]
        /\ wc' = [k \in DOMAIN wc |-> IF k <= got THEN cq[w][k] ELSE wc[k]]
        /\ raced' \in BOOLEAN
    BY <1>0, <1>2 DEF PollCq, Polled
  <2>4. PoolTypeOK' /\ QpTypeOK' /\ SendTypeOK'
    BY <1>0, <2>3 DEF PoolTypeOK, QpTypeOK, SendTypeOK, poolVars, qpVars, sendVars
  <2>5. n' \in [Workers -> 0 .. MAX_COMPLETIONS] /\ i' \in [Workers -> 1 .. (MAX_COMPLETIONS + 1)]
    <3>1. n \in [Workers -> 0 .. MAX_COMPLETIONS] /\ i \in [Workers -> 1 .. (MAX_COMPLETIONS + 1)]
      BY <1>0 DEF ReapTypeOK
    <3>2. 1 \in 1 .. (MAX_COMPLETIONS + 1)
      BY <2>1
    <3> HIDE DEF got
    <3> QED  BY <2>2, <2>3, <3>1, <3>2
  <2>6. CASE got = 0
    <3>1. \E l \in {"loop", "rearm"} : pc' = [pc EXCEPT ![w] = l]
      BY <1>2, <2>6 DEF PollCq, AfterEmptyPoll
    <3>2. wc' = wc
      <4>1. wc \in [1 .. MAX_COMPLETIONS -> Completion \cup {NoEntry}]
        BY <1>0 DEF ReapTypeOK
      <4>2. \A k \in DOMAIN wc : ~(k <= 0)
        BY <4>1
      <4> QED  BY <2>3, <2>6, <4>1, <4>2
    <3>3. CqTypeOK' /\ ReapTypeOK'
      <4>1. SubSeq(cq[w], got + 1, Len(cq[w])) \in Seq(Completion)
        BY <2>1, <2>2
      <4> HIDE DEF got
      <4> QED  BY <1>0, <2>3, <2>5, <3>2, <4>1 DEF CqTypeOK, ReapTypeOK
    <3>4. pc' \in [Workers -> Steps]
      BY <1>0, <3>1 DEF Steps, Handler
    <3>5. ReapsFilledEntries'
      <4>1. ASSUME NEW v \in Workers, pc'[v] \in Reaping
            PROVE  v # w
        BY <1>0, <3>1, <4>1 DEF Reaping
      <4>2. \A v \in Workers \ {w} : n'[v] = n[v] /\ i'[v] = i[v] /\ pc'[v] = pc[v]
        BY <1>0, <2>3, <3>1 DEF ReapTypeOK
      <4>3. this' = this
        BY <2>3 DEF copyVars
      <4> QED  BY <1>0, <3>2, <4>1, <4>2, <4>3 DEF ReapsFilledEntries, Reaping
    <3>6. CopyTypeOK'
      BY <1>0, <2>3, <3>1, KeepsCopy DEF copyVars, sendVars
    <3> QED  BY <1>0, <2>3, <2>4, <3>3, <3>4, <3>5, <3>6 DEF TypeInv, TypeOK
  <2>7. CASE got # 0
    <3>1. /\ cq' = [cq EXCEPT ![w] = SubSeq(@, got + 1, Len(@))]
          /\ wc' = [k \in DOMAIN wc |-> IF k <= got THEN cq[w][k] ELSE wc[k]]
          /\ pc' = [pc EXCEPT ![w] = "reap"]
      BY <1>2, <2>3, <2>7 DEF PollCq
    <3> HIDE DEF got
    <3>2. SubSeq(cq[w], got + 1, Len(cq[w])) \in Seq(Completion)
      BY <2>1, <2>2
    <3>3. CqTypeOK'
      BY <1>0, <2>3, <3>1, <3>2 DEF CqTypeOK
    <3>4. \A k \in 1 .. got : cq[w][k] \in Completion
      BY <2>1, <2>2
    <3>5. /\ DOMAIN wc = 1 .. MAX_COMPLETIONS
          /\ \A k \in 1 .. MAX_COMPLETIONS : wc[k] \in Completion \cup {NoEntry}
      BY <1>0 DEF ReapTypeOK
    <3>6. wc' \in [1 .. MAX_COMPLETIONS -> Completion \cup {NoEntry}]
      <4>1. ASSUME NEW k \in 1 .. MAX_COMPLETIONS
            PROVE  (IF k <= got THEN cq[w][k] ELSE wc[k]) \in Completion \cup {NoEntry}
        BY <2>2, <3>4, <3>5
      <4> QED  BY <3>1, <3>5, <4>1
    <3>7. ReapTypeOK'
      BY <1>0, <2>3, <2>5, <3>6 DEF ReapTypeOK
    <3>8. ASSUME NEW v \in Workers, pc'[v] \in Reaping
          PROVE  i'[v] <= n'[v] /\ \A k \in 1 .. n'[v] : wc'[k] \in Completion
      <4>1. CASE v = w
        <5>1. n'[v] = got /\ i'[v] = 1
          BY <1>0, <2>3, <4>1 DEF ReapTypeOK
        <5>2. 1 <= got
          BY <2>2, <2>7
        <5>3. \A k \in 1 .. got : k \in DOMAIN wc /\ k <= got
          BY <2>1, <2>2, <3>5
        <5> QED  BY <3>1, <3>4, <5>1, <5>2, <5>3
      <4>2. CASE v # w
        <5>1. pc[v] \in Reaping /\ n'[v] = n[v] /\ i'[v] = i[v]
          BY <1>0, <2>3, <3>1, <3>8, <4>2 DEF ReapTypeOK
        <5>2. i[v] <= n[v] /\ n[v] \in 0 .. MAX_COMPLETIONS
              /\ \A k \in 1 .. n[v] : wc[k] \in Completion
          BY <1>0, <5>1 DEF ReapsFilledEntries, ReapTypeOK
        <5>3. ASSUME NEW k \in 1 .. n[v]
              PROVE  wc'[k] \in Completion
          <6>1. k \in DOMAIN wc /\ (k <= got => k \in 1 .. got)
            BY <2>1, <2>2, <3>5, <5>2
          <6> QED  BY <3>1, <3>4, <5>2, <6>1
        <5> QED  BY <5>1, <5>2, <5>3
      <4> QED  BY <4>1, <4>2
    <3>9. pc' \in [Workers -> Steps]
      BY <1>0, <3>1 DEF Steps, Handler, Reaping
    <3>10. CopyTypeOK'
      <4>1. UNCHANGED <<this, len, seen, reads>> /\ pc' = [pc EXCEPT ![w] = "reap"]
            /\ \A v \in Workers \ {w} : todo'[v] = todo[v]
        BY <2>3, <3>1 DEF copyVars, sendVars
      <4> QED  BY <1>0, <4>1, KeepsCopy
    <3>11. \A v \in Workers : pc'[v] = "status" => this'[v] \in Chunks
      <4>1. \A v \in Workers : pc'[v] = "status" => pc[v] = "status"
        BY <1>0, <3>1
      <4> QED  BY <1>0, <2>3, <4>1 DEF ReapsFilledEntries, copyVars
    <3>12. ReapsFilledEntries'
      BY <3>8, <3>11 DEF ReapsFilledEntries
    <3> QED  BY <1>0, <2>3, <2>4, <3>3, <3>7, <3>9, <3>10, <3>12 DEF TypeInv, TypeOK
  <2> QED  BY <2>6, <2>7
<1>4. CASE ReapBegin(w)
  <2>1. /\ pc[w] = "reap" /\ pc' = [pc EXCEPT ![w] = "status"]
        /\ this' = [this EXCEPT ![w] = wc[i[w]].chunk]
        /\ UNCHANGED <<poolVars, qpVars, notifyVars, len, seen, reads, sendVars, raced, crash>>
    BY <1>4 DEF ReapBegin, At
  <2>2. PoolTypeOK' /\ QpTypeOK' /\ CqTypeOK' /\ ReapTypeOK' /\ SendTypeOK'
    BY <1>0, <2>1 DEF PoolTypeOK, QpTypeOK, CqTypeOK, ReapTypeOK, SendTypeOK, poolVars, qpVars,
                      notifyVars, sendVars
  <2>3. wc[i[w]].chunk \in Chunks
    <3>1. /\ i[w] \in Nat \ {0} /\ n[w] \in Nat /\ i[w] <= n[w]
          /\ \A k \in 1 .. n[w] : wc[k] \in Completion
      BY <1>0, <2>1, TxPathAssumption DEF ReapsFilledEntries, ReapTypeOK, Reaping
    <3>2. wc[i[w]] \in Completion
      BY <3>1
    <3> QED  BY <3>2 DEF Completion
  <2>4. pc' \in [Workers -> Steps]
    BY <1>0, <2>1 DEF Steps, Handler, Reaping
  <2>5. ReapsFilledEntries'
    <3>1. \A v \in Workers : pc'[v] \in Reaping => pc[v] \in Reaping
      BY <1>0, <2>1 DEF Reaping
    <3>2. \A v \in Workers : pc'[v] = "status" => this'[v] \in Chunks
      <4>1. this \in [Workers -> Chunks \cup {0}]
        BY <1>0 DEF CopyTypeOK
      <4>2. \A v \in Workers : v # w => this'[v] = this[v] /\ pc'[v] = pc[v]
        BY <1>0, <2>1, <4>1
      <4>3. this'[w] \in Chunks
        BY <2>1, <2>3, <4>1
      <4> QED  BY <1>0, <4>2, <4>3 DEF ReapsFilledEntries
    <3> QED  BY <1>0, <2>1, <3>1, <3>2 DEF ReapsFilledEntries, notifyVars
  <2>6. CopyTypeOK'
    <3>1. CopyTypeOK /\ todo' = todo /\ UNCHANGED <<len, seen, reads>>
      BY <1>0, <2>1 DEF sendVars
    <3>2. this' \in [Workers -> Chunks \cup {0}] /\ \A v \in Workers : v # w => this'[v] = this[v]
      BY <2>1, <2>3, <3>1 DEF CopyTypeOK
    <3>3. \A v \in Workers : pc'[v] \in {"write", "full", "read"} => v # w /\ pc'[v] = pc[v]
      BY <1>0, <2>1
    <3> QED  BY <3>1, <3>2, <3>3 DEF CopyTypeOK
  <2> QED  BY <1>0, <2>1, <2>2, <2>4, <2>5, <2>6 DEF TypeInv, TypeOK
<1>3. CASE ReapEnd(w)
  <2>1. /\ pc[w] = "status"
        /\ UNCHANGED <<qpVars, cq, armed, events, stuck, need_ack, wc, rearmed, n, sendVars, raced>>
    BY <1>3 DEF ReapEnd, At
  <2>2. QpTypeOK' /\ CqTypeOK' /\ SendTypeOK'
    BY <1>0, <2>1 DEF QpTypeOK, CqTypeOK, SendTypeOK, qpVars, sendVars
  <2>3. CASE ~wc[i[w]].ok
    <3>1. UNCHANGED <<poolVars, copyVars, i, pc>> /\ crash' = "assert"
      BY <1>3, <2>3 DEF ReapEnd
    <3>2. PoolTypeOK' /\ ReapTypeOK' /\ crash' \in CrashWay
      BY <1>0, <2>1, <3>1 DEF PoolTypeOK, ReapTypeOK, poolVars, CrashWay
    <3>3. ReapsFilledEntries' /\ CopyTypeOK'
      BY <1>0, <2>1, <3>1 DEF ReapsFilledEntries, CopyTypeOK, copyVars, sendVars
    <3> QED  BY <1>0, <2>1, <2>2, <3>1, <3>2, <3>3 DEF TypeInv, TypeOK
  <2>4. CASE wc[i[w]].ok
    <3>1. /\ send' = Append(send, this[w])
          /\ UNCHANGED <<channel, offset, leaked, touched, crash>>
          /\ i' = [i EXCEPT ![w] = @ + 1]
          /\ pc' = [pc EXCEPT ![w] = IF i[w] = n[w] THEN "poll" ELSE "reap"]
          /\ ChunkDone(w)
      BY <1>3, <2>4 DEF ReapEnd, ReturnChannel
    <3>2. /\ i[w] \in Nat \ {0} /\ n[w] \in 0 .. MAX_COMPLETIONS /\ i[w] <= n[w]
          /\ \A k \in 1 .. n[w] : wc[k] \in Completion
      BY <1>0, <2>1, TxPathAssumption DEF ReapsFilledEntries, ReapTypeOK, Reaping
    <3>3. this[w] \in Chunks
      BY <1>0, <2>1 DEF ReapsFilledEntries
    <3>4. PoolTypeOK'
      BY <1>0, <3>1, <3>3 DEF PoolTypeOK
    <3>5. i[w] + 1 \in 1 .. (MAX_COMPLETIONS + 1)
      BY <3>2, TxPathAssumption
    <3>6. ReapTypeOK'
      BY <1>0, <2>1, <3>1, <3>5 DEF ReapTypeOK
    <3>7. pc' \in [Workers -> Steps]
      BY <1>0, <3>1 DEF Steps, Handler, Reaping
    <3>8. ASSUME NEW v \in Workers, pc'[v] \in Reaping
          PROVE  i'[v] <= n'[v] /\ \A k \in 1 .. n'[v] : wc'[k] \in Completion
      <4>1. CASE v = w
        <5>1. i[w] # n[w] /\ i'[w] = i[w] + 1
          BY <1>0, <3>1, <3>8, <4>1 DEF ReapTypeOK, Reaping
        <5> QED  BY <2>1, <3>2, <4>1, <5>1, TxPathAssumption
      <4>2. CASE v # w
        BY <1>0, <2>1, <3>1, <3>8, <4>2 DEF ReapsFilledEntries, ReapTypeOK
      <4> QED  BY <4>1, <4>2
    <3>9. this' = [this EXCEPT ![w] = 0] /\ this \in [Workers -> Chunks \cup {0}]
      BY <1>0, <3>1 DEF ChunkDone, CopyTypeOK
    <3>10. \A v \in Workers : pc'[v] = "status" => this'[v] \in Chunks
      <4>1. \A v \in Workers : pc'[v] = "status" => v # w /\ pc[v] = "status"
        BY <1>0, <3>1
      <4>2. \A v \in Workers : v # w => this'[v] = this[v]
        BY <3>9
      <4> QED  BY <1>0, <4>1, <4>2 DEF ReapsFilledEntries
    <3>11. ReapsFilledEntries'
      BY <3>8, <3>10 DEF ReapsFilledEntries
    <3>12. CopyTypeOK'
      <4>1. pc'[w] \in {"poll", "reap"} /\ todo' = todo
        BY <1>0, <2>1, <3>1 DEF sendVars
      <4> QED  BY <1>0, <3>1, <4>1, DoneTypes
    <3> QED  BY <1>0, <2>1, <2>2, <3>1, <3>4, <3>6, <3>7, <3>11, <3>12 DEF TypeInv, TypeOK
  <2> QED  BY <2>3, <2>4
<1> QED  BY <1>1, <1>2, <1>3, <1>4 DEF HandlerSteps

\* The steps of the adapter keep the types.
LEMMA AdapterTypeInv ==
    ASSUME TypeInv, NEW s \in Sockets, QpError(s) \/ Complete(s)
    PROVE  TypeInv'
<1>0. /\ PoolTypeOK /\ QpTypeOK /\ CqTypeOK /\ ReapTypeOK /\ CopyTypeOK /\ SendTypeOK
      /\ TypeOK /\ ReapsFilledEntries
  BY DEF TypeInv, TypeOK
<1>1. UNCHANGED <<poolVars, need_ack, wc, rearmed, n, i, pc, copyVars, sendVars, stuck, raced, crash>>
  BY DEF QpError, Complete, notifyVars
<1>2. PoolTypeOK' /\ ReapTypeOK' /\ CopyTypeOK' /\ SendTypeOK' /\ ReapsFilledEntries'
  BY <1>0, <1>1 DEF PoolTypeOK, ReapTypeOK, CopyTypeOK, SendTypeOK, ReapsFilledEntries, poolVars,
                    copyVars, sendVars
<1>3. CASE QpError(s)
  <2>1. QpTypeOK' /\ CqTypeOK'
    BY <1>0, <1>3 DEF QpError, QpTypeOK, CqTypeOK, notifyVars
  <2> QED  BY <1>0, <1>1, <1>2, <2>1 DEF TypeInv, TypeOK
<1>4. CASE Complete(s)
  <2> DEFINE w == TxCq[s]
             e == [chunk |-> Head(sq[s]), ok |-> s \notin failed]
  <2>1. w \in Workers
    BY TxPathAssumption
  <2>2. /\ sq[s] # <<>>
        /\ sq' = [sq EXCEPT ![s] = Tail(@)]
        /\ failed' = failed
        /\ cq' = [cq EXCEPT ![w] = Append(@, e)]
        /\ Notify(w)
    BY <1>4 DEF Complete
  <2>3. sq[s] \in Seq(Chunks)
    BY <1>0 DEF QpTypeOK
  <2>4. Head(sq[s]) \in Chunks /\ Tail(sq[s]) \in Seq(Chunks)
    BY <2>2, <2>3
  <2>5. QpTypeOK'
    BY <1>0, <2>2, <2>4 DEF QpTypeOK
  <2>6. e \in Completion
    BY <2>4 DEF Completion
  <2> HIDE DEF w, e
  <2>7. Append(cq[w], e) \in Seq(Completion)
    BY <1>0, <2>1, <2>6 DEF CqTypeOK
  <2>8. events' \in [Workers -> Nat] /\ armed' \in [Workers -> BOOLEAN]
    <3>1. events \in [Workers -> Nat] /\ armed \in [Workers -> BOOLEAN]
      BY <1>0 DEF CqTypeOK
    <3>2. \/ UNCHANGED <<events, armed>>
          \/ /\ events' = [events EXCEPT ![w] = @ + 1]
             /\ armed' = [armed EXCEPT ![w] = FALSE]
      BY <2>2 DEF Notify
    <3>3. events' = events \/ events' = [events EXCEPT ![w] = @ + 1]
      BY <3>2
    <3>4. armed' = armed \/ armed' = [armed EXCEPT ![w] = FALSE]
      BY <3>2
    <3>5. events' \in [Workers -> Nat]
      BY <2>1, <3>1, <3>3
    <3>6. armed' \in [Workers -> BOOLEAN]
      BY <2>1, <3>1, <3>4
    <3> QED  BY <3>5, <3>6
  <2>9. CqTypeOK'
    BY <1>0, <1>1, <2>2, <2>7, <2>8 DEF CqTypeOK
  <2> QED  BY <1>0, <1>1, <1>2, <2>5, <2>9 DEF TypeInv, TypeOK
<1> QED  BY <1>3, <1>4

\* Every step of the program, of the adapter or of neither keeps TypeInv.
LEMMA NextTypeInv == TypeInv /\ [Next]_vars => TypeInv'
<1> SUFFICES ASSUME TypeInv, [Next]_vars PROVE TypeInv'
  OBVIOUS
<1>1. CASE UNCHANGED vars
  BY <1>1 DEF TypeInv, TypeOK, PoolTypeOK, QpTypeOK, CqTypeOK, ReapTypeOK, CopyTypeOK, SendTypeOK,
              ReapsFilledEntries, vars, poolVars, qpVars, notifyVars, copyVars, sendVars
<1> QED  BY <1>1, SendTypeInv, ReadTypeInv, HandlerTypeInv, AdapterTypeInv
         DEF Next, WorkerSteps, Crashed

\* The state of the transmit path is well typed whatever the workers do to each
\* other: what is listed, posted, completed and returned are chunks, no thread
\* copies more than it has left to copy, and acknowledgements never fall behind.
THEOREM TypeCorrect == Spec => []TypeOK
<1>1. TypeInv => TypeOK
  BY DEF TypeInv
<1> QED  BY InitTypeInv, NextTypeInv, <1>1, PTL DEF Spec

\* The handler never follows the wr_id of an entry that no poll has filled,
\* although all the workers poll into the same array.
THEOREM ReapsOnlyFilled == Spec => []ReapsFilledEntries
<1>1. TypeInv => ReapsFilledEntries
  BY DEF TypeInv
<1> QED  BY InitTypeInv, NextTypeInv, <1>1, PTL DEF Spec

-----------------------------------------------------------------------------
(* No lost wakeup.                                                          *)

\* A worker whose queue, events and place in the handler a step leaves alone
\* keeps its part of the invariant.
LEMMA NotifyOther ==
    ASSUME NEW v \in Workers, NotifyOK(v),
           armed'[v] = armed[v], events'[v] = events[v], cq'[v] = cq[v],
           rearmed'[v] = rearmed[v], v \in stuck <=> v \in stuck',
           \/ pc'[v] = pc[v]
           \/ pc[v] \notin Handler /\ pc'[v] \notin Handler
    PROVE  NotifyOK(v)'
BY DEF NotifyOK, Handler, Reaping

\* The steps of send() do not touch the notification state and stay outside
\* the handler.
LEMMA SendStepsShape ==
    ASSUME pc \in [Workers -> Steps],
           NEW w \in Workers, SendSteps(w) \/ ReadSteps(w)
    PROVE  /\ pc[w] \notin Handler
           /\ UNCHANGED <<cq, armed, events, stuck, rearmed>>
           /\ \E l \in {"loop", "read"} \cup Sending : pc' \in {pc, [pc EXCEPT ![w] = l]}
<1> DEFINE Shape == /\ pc[w] \notin Handler
                    /\ UNCHANGED <<cq, armed, events, stuck, rearmed>>
                    /\ \E l \in {"loop", "read"} \cup Sending : pc' \in {pc, [pc EXCEPT ![w] = l]}
<1>1. ASSUME NEW s \in Sockets, NEW b \in Lengths, SendBegin(w, s, b)
      PROVE  Shape
  BY <1>1 DEF SendBegin, At, Handler, Reaping, Steps, Sending, FromList, notifyVars
<1>2. CASE TakeBack(w)
  BY <1>2 DEF TakeBack, At, Handler, Reaping, Steps, Sending, FromList, notifyVars
<1>3. CASE PopBack(w)
  BY <1>3 DEF PopBack, At, Handler, Reaping, Steps, Sending, FromList, notifyVars
<1>4. CASE (\E piece \in 1 .. todo[w] : WriteBegin(w, piece)) \/ WriteEnd(w) \/ FullTest(w)
  BY <1>4 DEF WriteBegin, WriteEnd, FullTest, At, Handler, Reaping, Steps, Sending, FromList, notifyVars
<1>5. CASE Post(w) \/ \E k \in 0 .. Len(tx_buffers[w]) : PostFail(w, k)
  BY <1>5 DEF Post, PostFail, Return, At, Handler, Reaping, Steps, Sending, FromList, notifyVars
<1>6. CASE ReadSteps(w)
  BY <1>6 DEF ReadSteps, ReadBegin, ReadEnd, At, Handler, Reaping, Steps, notifyVars
<1> QED  BY <1>1, <1>2, <1>3, <1>4, <1>5, <1>6 DEF SendSteps

\* The steps of send() and Chunk::read keep the notification invariant.
LEMMA SendNotifyInv ==
    ASSUME TypeInv, NotifyInv, NEW w \in Workers, SendSteps(w) \/ ReadSteps(w)
    PROVE  NotifyInv'
<1>1. pc \in [Workers -> Steps]
  BY DEF TypeInv, TypeOK
<1>2. /\ pc[w] \notin Handler
      /\ UNCHANGED <<cq, armed, events, stuck, rearmed>>
      /\ \E l \in {"loop", "read"} \cup Sending : pc' \in {pc, [pc EXCEPT ![w] = l]}
  BY <1>1, SendStepsShape
<1>3. ASSUME NEW v \in Workers
      PROVE  NotifyOK(v)'
  <2>1. pc'[v] = pc[v] \/ (pc[v] \notin Handler /\ pc'[v] \notin Handler)
    BY <1>1, <1>2 DEF Handler, Reaping, Steps, Sending, FromList
  <2> QED  BY <1>2, <2>1, NotifyOther DEF NotifyInv
<1> QED  BY <1>3 DEF NotifyInv

\* A step of the handler of w touches no other worker's notification state.
LEMMA HandlerStepsOthers ==
    ASSUME TypeInv, NEW w \in Workers, HandlerSteps(w), NEW v \in Workers \ {w}
    PROVE  /\ armed'[v] = armed[v] /\ events'[v] = events[v] /\ cq'[v] = cq[v]
           /\ rearmed'[v] = rearmed[v] /\ (v \in stuck <=> v \in stuck')
           /\ pc'[v] = pc[v]
<1>1. /\ pc \in [Workers -> Steps]
      /\ cq \in [Workers -> Seq(Completion)]
      /\ armed \in [Workers -> BOOLEAN]
      /\ events \in [Workers -> Nat]
      /\ rearmed \in [Workers -> BOOLEAN]
  BY DEF TypeInv, TypeOK, CqTypeOK, ReapTypeOK
<1>2. CASE GetCqEvent(w)
  BY <1>1, <1>2 DEF GetCqEvent
<1>3. CASE PollCq(w)
  BY <1>1, <1>3 DEF PollCq
<1>4. CASE ReapBegin(w) \/ ReapEnd(w)
  BY <1>1, <1>4 DEF ReapBegin, ReapEnd, notifyVars
<1>5. CASE Rearm(w)
  BY <1>1, <1>5 DEF Rearm
<1> QED  BY <1>2, <1>3, <1>4, <1>5 DEF HandlerSteps

\* The steps of handle_tx_event: reading the event leaves the queue unarmed and
\* without events, and only a handler that re-armed it returns to the loop, after
\* a poll that found it empty.
LEMMA HandlerNotifyInv ==
    ASSUME TypeInv, NotifyInv, NEW w \in Workers, HandlerSteps(w)
    PROVE  NotifyInv'
<1>1. /\ pc \in [Workers -> Steps]
      /\ cq \in [Workers -> Seq(Completion)]
      /\ armed \in [Workers -> BOOLEAN]
      /\ events \in [Workers -> Nat]
      /\ rearmed \in [Workers -> BOOLEAN]
      /\ stuck \subseteq Workers
  BY DEF TypeInv, TypeOK, CqTypeOK, ReapTypeOK
<1>2. NotifyOK(w)
  BY DEF NotifyInv
<1>3. ASSUME NEW v \in Workers \ {w}
      PROVE  NotifyOK(v)'
  BY HandlerStepsOthers, NotifyOther DEF NotifyInv
<1>4. NotifyOK(w)'
  <2>1. CASE GetCqEvent(w)
    <3>1. /\ pc[w] = "loop" /\ events[w] > 0 /\ armed' = armed /\ cq' = cq
          /\ events'[w] = events[w] - 1 /\ rearmed'[w] = FALSE /\ pc'[w] = "poll"
      BY <1>1, <2>1 DEF GetCqEvent, At
    <3>2. events[w] = 1 /\ ~armed[w]
      BY <1>2, <3>1 DEF NotifyOK
    <3> QED  BY <3>1, <3>2 DEF NotifyOK, Handler, Reaping
  <2>2. CASE PollCq(w)
    <3>1. pc[w] = "poll" /\ UNCHANGED <<armed, events, stuck, rearmed>>
      BY <2>2 DEF PollCq, At
    <3>2. \/ /\ rearmed[w] /\ pc'[w] = "loop" /\ cq[w] = <<>> /\ cq' = cq
          \/ ~rearmed[w] /\ pc'[w] = "rearm"
          \/ pc'[w] = "reap"
      <4> DEFINE got == IF Len(cq[w]) < MAX_COMPLETIONS THEN Len(cq[w]) ELSE MAX_COMPLETIONS
      <4>1. CASE got = 0
        <5>1. Len(cq[w]) = 0
          BY <1>1, <4>1, TxPathAssumption
        <5>2. cq[w] = <<>>
          BY <1>1, <5>1
        <5>3. cq' = [cq EXCEPT ![w] = SubSeq(@, got + 1, Len(@))]
              /\ pc' = [pc EXCEPT ![w] = AfterEmptyPoll(w)]
          BY <2>2, <4>1 DEF PollCq
        <5>4. cq' = cq
          <6> HIDE DEF got
          <6>1. SubSeq(cq[w], got + 1, Len(cq[w])) = cq[w]
            BY <4>1, <5>1, <5>2
          <6> QED  BY <1>1, <5>3, <6>1
        <5> QED  BY <1>1, <5>2, <5>3, <5>4 DEF AfterEmptyPoll
      <4>2. CASE got # 0
        BY <1>1, <2>2, <4>2 DEF PollCq
      <4> QED  BY <4>1, <4>2
    <3> QED  BY <1>2, <3>1, <3>2 DEF NotifyOK, Handler, Reaping
  <2>3. CASE ReapBegin(w) \/ ReapEnd(w)
    <3>1. pc[w] \in Reaping /\ UNCHANGED <<armed, events, stuck, rearmed, cq>>
      BY <2>3 DEF ReapBegin, ReapEnd, At, Reaping, notifyVars
    <3>2. pc'[w] \in {"poll"} \cup Reaping
      BY <1>1, <2>3, <3>1 DEF ReapBegin, ReapEnd, Reaping
    <3> QED  BY <1>2, <3>1, <3>2 DEF NotifyOK, Handler, Reaping
  <2>4. CASE Rearm(w)
    <3>1. /\ pc[w] = "rearm" /\ UNCHANGED events
          /\ pc'[w] = "poll" /\ rearmed'[w] = TRUE
          /\ armed'[w] = TRUE \/ (armed' = armed /\ w \in stuck')
      BY <1>1, <2>4 DEF Rearm, At
    <3>2. events[w] = 0 /\ ~armed[w]
      BY <1>2, <3>1 DEF NotifyOK, Handler, Reaping
    <3> QED  BY <3>1, <3>2 DEF NotifyOK, Handler, Reaping
  <2> QED  BY <2>1, <2>2, <2>3, <2>4 DEF HandlerSteps
<1> QED  BY <1>3, <1>4 DEF NotifyInv

\* A completion raises an event when the queue is armed; a sleeping worker has
\* armed its queue or has an event to read.
LEMMA AdapterNotifyInv ==
    ASSUME TypeInv, NotifyInv, NEW s \in Sockets, QpError(s) \/ Complete(s)
    PROVE  NotifyInv'
<1>1. CASE QpError(s)
  BY <1>1, NotifyOther DEF QpError, NotifyInv, notifyVars
<1>2. CASE Complete(s)
  <2> DEFINE w == TxCq[s]
  <2>1. /\ w \in Workers
        /\ cq \in [Workers -> Seq(Completion)]
        /\ armed \in [Workers -> BOOLEAN]
        /\ events \in [Workers -> Nat]
    BY TxPathAssumption DEF TypeInv, TypeOK, CqTypeOK
  <2>2. /\ UNCHANGED <<stuck, rearmed, pc>>
        /\ cq' = [cq EXCEPT ![w] = Append(@, [chunk |-> Head(sq[s]), ok |-> s \notin failed])]
        /\ Notify(w)
    BY <1>2 DEF Complete
  <2> HIDE DEF w
  <2>3. \/ /\ armed[w]
           /\ events' = [events EXCEPT ![w] = @ + 1]
           /\ armed' = [armed EXCEPT ![w] = FALSE]
        \/ ~armed[w] /\ events' = events /\ armed' = armed
    BY <2>2 DEF Notify
  <2>4. ASSUME NEW v \in Workers \ {w}
        PROVE  NotifyOK(v)'
    <3>1. armed'[v] = armed[v] /\ events'[v] = events[v] /\ cq'[v] = cq[v]
      BY <2>1, <2>2, <2>3
    <3> QED  BY <2>2, <3>1, NotifyOther DEF NotifyInv
  <2>5. NotifyOK(w)'
    <3>1. NotifyOK(w)
      BY <2>1 DEF NotifyInv
    <3>2. CASE armed[w]
      <4>1. events[w] = 0
        BY <3>1, <3>2 DEF NotifyOK
      <4>2. events'[w] = 1 /\ ~armed'[w]
        BY <2>1, <2>3, <3>2, <4>1
      <4>3. pc[w] \in Handler => rearmed[w]
        BY <3>1, <3>2 DEF NotifyOK
      <4>4. pc[w] # "rearm"
        BY <3>1, <3>2 DEF NotifyOK, Handler, Reaping
      <4> QED  BY <2>2, <4>2, <4>3, <4>4 DEF NotifyOK
    <3>3. CASE ~armed[w]
      <4>1. events' = events /\ armed' = armed
        BY <2>3, <3>3
      <4> QED  BY <2>2, <3>1, <3>3, <4>1 DEF NotifyOK
    <3> QED  BY <3>2, <3>3
  <2> QED  BY <2>4, <2>5 DEF NotifyInv
<1> QED  BY <1>1, <1>2

\* CompletionQueue::init has armed every queue before its first completion.
LEMMA InitNotifyInv == Init => NotifyInv
BY DEF Init, NotifyInv, NotifyOK, Handler, Reaping

\* Every step keeps the notification invariant of every worker.
LEMMA NextNotifyInv == TypeInv /\ NotifyInv /\ [Next]_vars => NotifyInv'
<1> SUFFICES ASSUME TypeInv, NotifyInv, [Next]_vars PROVE NotifyInv'
  OBVIOUS
<1>1. CASE UNCHANGED vars
  BY <1>1, NotifyOther DEF NotifyInv, vars, notifyVars
<1> QED
  BY <1>1, SendNotifyInv, HandlerNotifyInv, AdapterNotifyInv DEF Next, Crashed, WorkerSteps

\* The notification state of every worker stays consistent.
THEOREM NotifyCorrect == Spec => []NotifyInv
BY InitTypeInv, NextTypeInv, InitNotifyInv, NextNotifyInv, PTL DEF Spec

\* No completion is stranded in the transmit queue of a worker: outside the
\* handler, a queue that is not empty has an event to read, whatever the order of
\* completions, polls, sends and arming, unless an arming request was refused.
THEOREM NeverStranded == Spec => []NoLostWakeup
<1>1. NotifyInv => NoLostWakeup
  BY DEF NotifyInv, NotifyOK, NoLostWakeup
<1> QED  BY <1>1, NotifyCorrect, PTL

-----------------------------------------------------------------------------
(* The transmit queue implements Wakeup.                                    *)

\* What the refinement mapping reads of worker v is not changed.
LEMMA WakeupStutters ==
    ASSUME NEW v \in Workers,
           cq'[v] = cq[v], events'[v] = events[v], v \in stuck <=> v \in stuck',
           pc[v] \in Handler <=> pc'[v] \in Handler
    PROVE  UNCHANGED Wk(v)!vars
BY DEF Wk!vars

\* Every step is, for every worker, a step of Wakeup or none.
LEMMA WakeupStep ==
    ASSUME TypeInv, NotifyInv, [Next]_vars, NEW v \in Workers
    PROVE  [Wk(v)!Next]_(Wk(v)!vars)
<1>1. /\ pc \in [Workers -> Steps]
      /\ cq \in [Workers -> Seq(Completion)]
      /\ armed \in [Workers -> BOOLEAN]
      /\ events \in [Workers -> Nat]
      /\ rearmed \in [Workers -> BOOLEAN]
      /\ stuck \subseteq Workers
      /\ NotifyOK(v)
  BY DEF TypeInv, TypeOK, CqTypeOK, ReapTypeOK, NotifyInv
<1>2. ASSUME NEW w \in Workers, SendSteps(w) \/ ReadSteps(w)
      PROVE  UNCHANGED Wk(v)!vars
  <2>1. /\ pc[w] \notin Handler
        /\ UNCHANGED <<cq, events, stuck>>
        /\ \E l \in {"loop", "read"} \cup Sending : pc' \in {pc, [pc EXCEPT ![w] = l]}
    BY <1>1, <1>2, SendStepsShape
  <2>2. pc[v] \in Handler <=> pc'[v] \in Handler
    BY <1>1, <2>1 DEF Handler, Reaping, Steps, Sending, FromList
  <2> QED  BY <2>1, <2>2, WakeupStutters
<1>3. CASE GetCqEvent(v)
  <2>1. /\ pc[v] = "loop" /\ events[v] > 0 /\ cq' = cq /\ stuck' = stuck
        /\ events'[v] = events[v] - 1 /\ pc'[v] = "poll"
    BY <1>1, <1>3 DEF GetCqEvent, At
  <2>2. events[v] = 1
    BY <1>1, <2>1 DEF NotifyOK
  <2>3. Wk(v)!Wake
    BY <2>1, <2>2 DEF Wk!Wake, Handler, Reaping
  <2> QED  BY <2>3 DEF Wk!Next
<1>4. CASE PollCq(v)
  <2> DEFINE got == IF Len(cq[v]) < MAX_COMPLETIONS THEN Len(cq[v]) ELSE MAX_COMPLETIONS
  <2>1. pc[v] = "poll" /\ UNCHANGED <<events, stuck>>
    BY <1>4 DEF PollCq, At
  <2>2. CASE got = 0
    <3>1. Len(cq[v]) = 0 /\ cq' = cq
      <4>1. Len(cq[v]) = 0
        BY <1>1, <2>2, TxPathAssumption
      <4>2. cq[v] = <<>>
        BY <1>1, <4>1
      <4>3. cq' = [cq EXCEPT ![v] = SubSeq(@, got + 1, Len(@))]
        BY <1>4, <2>2 DEF PollCq
      <4>4. cq' = cq
        <5> HIDE DEF got
        <5>1. SubSeq(cq[v], got + 1, Len(cq[v])) = cq[v]
          BY <2>2, <4>1, <4>2
        <5> QED  BY <1>1, <4>3, <5>1
      <4> QED  BY <4>1, <4>4
    <3>2. CASE rearmed[v]
      <4>1. pc'[v] = "loop"
        BY <1>1, <1>4, <2>2, <3>2 DEF PollCq, AfterEmptyPoll
      <4>2. Wk(v)!Sleep
        BY <2>1, <3>1, <4>1 DEF Wk!Sleep, Handler, Reaping
      <4> QED  BY <4>2 DEF Wk!Next
    <3>3. CASE ~rearmed[v]
      <4>1. pc'[v] = "rearm"
        BY <1>1, <1>4, <2>2, <3>3 DEF PollCq, AfterEmptyPoll
      <4> QED  BY <2>1, <3>1, <4>1, WakeupStutters DEF Handler, Reaping
    <3> QED  BY <3>2, <3>3
  <2>3. CASE got # 0
    <3>1. /\ cq'[v] = SubSeq(cq[v], got + 1, Len(cq[v]))
          /\ pc'[v] = "reap"
      BY <1>1, <1>4, <2>3 DEF PollCq
    <3>2. got \in 1 .. Len(cq[v])
      BY <1>1, <2>3, TxPathAssumption
    <3> HIDE DEF got
    <3>3. Len(cq[v]) \in Nat /\ Len(cq'[v]) = Len(cq[v]) - got
      BY <1>1, <3>1, <3>2
    <3>4. Len(cq[v]) > 0 /\ Len(cq'[v]) \in 0 .. (Len(cq[v]) - 1)
      BY <3>2, <3>3
    <3>5. pc[v] \in Handler /\ pc'[v] \in Handler
      BY <2>1, <3>1 DEF Handler, Reaping
    <3>6. UNCHANGED <<events[v] > 0, pc[v] \in Handler, v \in stuck>>
      BY <2>1, <3>5
    <3>7. Wk(v)!Take
      BY <3>4, <3>5, <3>6 DEF Wk!Take
    <3> QED  BY <3>7 DEF Wk!Next
  <2> QED  BY <2>2, <2>3
<1>5. CASE ReapBegin(v) \/ ReapEnd(v)
  <2>1. pc[v] \in Reaping /\ UNCHANGED <<cq, events, stuck>> /\ pc'[v] \in {"poll"} \cup Reaping
    BY <1>1, <1>5 DEF ReapBegin, ReapEnd, At, Reaping, notifyVars
  <2> QED  BY <2>1, WakeupStutters DEF Handler, Reaping
<1>6. CASE Rearm(v)
  <2>1. /\ pc[v] = "rearm" /\ UNCHANGED <<cq, events>> /\ pc'[v] = "poll"
        /\ stuck' = stuck \/ v \in stuck'
    BY <1>1, <1>6 DEF Rearm, At
  <2>2. CASE stuck' = stuck
    BY <2>1, <2>2, WakeupStutters DEF Handler, Reaping
  <2>3. CASE v \in stuck'
    <3>1. Wk(v)!Refuse
      BY <2>1, <2>3 DEF Wk!Refuse, Handler, Reaping
    <3> QED  BY <3>1 DEF Wk!Next
  <2> QED  BY <2>1, <2>2, <2>3
<1>7. ASSUME NEW w \in Workers \ {v}, HandlerSteps(w)
      PROVE  UNCHANGED Wk(v)!vars
  <2>1. /\ events'[v] = events[v] /\ cq'[v] = cq[v] /\ pc'[v] = pc[v]
        /\ v \in stuck <=> v \in stuck'
    BY <1>1, <1>7, HandlerStepsOthers
  <2> QED  BY <2>1, WakeupStutters
<1>8. ASSUME NEW s \in Sockets, Complete(s)
      PROVE  [Wk(v)!Next]_(Wk(v)!vars)
  <2>1. /\ UNCHANGED <<stuck, pc>>
        /\ cq' = [cq EXCEPT ![TxCq[s]] =
                    Append(@, [chunk |-> Head(sq[s]), ok |-> s \notin failed])]
        /\ Notify(TxCq[s])
    BY <1>8 DEF Complete
  <2>2. CASE v # TxCq[s]
    <3>1. cq'[v] = cq[v] /\ events'[v] = events[v]
      BY <1>1, <2>1, <2>2, TxPathAssumption DEF Notify
    <3> QED  BY <2>1, <3>1, WakeupStutters
  <2>3. CASE v = TxCq[s]
    <3>1. Len(cq'[v]) = Len(cq[v]) + 1
      BY <1>1, <2>1, <2>3
    <3>2. events'[v] = IF armed[v] THEN events[v] + 1 ELSE events[v]
      BY <1>1, <2>1, <2>3 DEF Notify
    <3>3. events[v] > 0 => events'[v] > 0
      BY <1>1, <3>2 DEF NotifyOK
    <3>4. pc[v] \notin Handler => events'[v] > 0 \/ v \in stuck
      BY <1>1, <3>2 DEF NotifyOK
    <3>5. Wk(v)!Arrive
      BY <2>1, <3>1, <3>3, <3>4 DEF Wk!Arrive
    <3> QED  BY <3>5 DEF Wk!Next
  <2> QED  BY <2>2, <2>3
<1>9. ASSUME NEW s \in Sockets, QpError(s)
      PROVE  UNCHANGED Wk(v)!vars
  BY <1>9, WakeupStutters DEF QpError, notifyVars
<1>10. CASE UNCHANGED vars
  BY <1>10, WakeupStutters DEF vars, notifyVars
<1> QED
  BY <1>2, <1>3, <1>4, <1>5, <1>6, <1>7, <1>8, <1>9, <1>10
     DEF Next, WorkerSteps, HandlerSteps, Crashed

\* The transmit completion queue of every worker implements the abstract
\* promise of Wakeup: from the first state on, and step by step.
THEOREM ImplementsWakeup == Spec => WakeupRefined
<1>1. Init => \A w \in Workers : Wk(w)!Init
  BY DEF Init, Wk!Init, Handler, Reaping
<1>2. TypeInv /\ NotifyInv /\ [Next]_vars
        => [\A w \in Workers : [Wk(w)!Next]_(Wk(w)!vars)]_vars
  BY WakeupStep
<1> QED
  BY <1>1, <1>2, InitTypeInv, NextTypeInv, InitNotifyInv, NextNotifyInv, PTL
     DEF Spec, WakeupRefined

-----------------------------------------------------------------------------
(* One worker: what it takes from the free list and copies is what it posts. *)

\* The free list is what is left of the one add() made, and nothing was copied
\* into a chunk of it, unless Chunk::read moved its offset.
FreeList == \A k \in 1 .. Len(channel) : channel[k] = k /\ (k \in touched \/ offset[k] = 0)

\* w is in send() with something to copy; the chunks it has taken and removed.
Copies(w) == pc[w] \in {"back", "pop", "fill", "write", "full"} \/ (pc[w] = "post" /\ bytes[w] > 0)
Left(w)   == IF pc[w] = "pop" THEN Len(channel) - 1 ELSE Len(channel)
Got(w)    == Len(tx_buffers[w])
Off(w, k) == offset[tx_buffers[w][k]]

\* The loop of get_buffers: the chunks come from the back, one after the other,
\* and there are enough.
Taking(w) ==
    /\ Copies(w) =>
          bytes[w] > 0 /\ \A k \in 1 .. Got(w) : tx_buffers[w][k] = Left(w) + Got(w) - k + 1
    /\ pc[w] = "back" => Got(w) < NumBuffers(bytes[w])
    /\ pc[w] = "pop" => Got(w) \in 1 .. NumBuffers(bytes[w]) /\ channel # <<>>
    /\ pc[w] \in {"back", "pop"} =>
          cur[w] = 1 /\ todo[w] = bytes[w] /\ Left(w) + Got(w) >= NumBuffers(bytes[w])
    /\ Copies(w) /\ pc[w] \in {"fill", "write", "full", "post"} => Got(w) = NumBuffers(bytes[w])

\* The copy loop: chunks before current_buffer are full, those behind it empty, and
\* what is copied and what is left add up, as long as no chunk of it was read.
Copying(w) ==
    Copies(w) /\ Clean(w) =>
        /\ cur[w] <= Got(w) + 1
        /\ \A k \in 1 .. Got(w) :
              /\ k < cur[w] => Off(w, k) = ChunkSize
              /\ k = cur[w] => Off(w, k) < ChunkSize \/ (pc[w] = "full" /\ Off(w, k) = ChunkSize)
              /\ k > cur[w] => Off(w, k) = 0
        /\ todo[w] + (cur[w] - 1) * ChunkSize
             + (IF cur[w] <= Got(w) THEN Off(w, cur[w]) ELSE 0) = bytes[w]
        /\ pc[w] \in {"fill", "write"} => todo[w] > 0
        /\ pc[w] = "post" => todo[w] = 0

\* Chunk::write and Chunk::read work on the chunk they were called on.
Calling(w) ==
    /\ pc[w] \in {"write", "full"} => cur[w] <= Got(w) /\ this[w] = tx_buffers[w][cur[w]]
    /\ pc[w] = "write" => seen[w] = Off(w, cur[w]) /\ len[w] \in 1 .. todo[w]
    /\ pc[w] = "read" => this[w] \in touched

SendInv(w) ==
    /\ TypeInv
    /\ FreeList
    /\ Taking(w)
    /\ Copying(w)
    /\ Calling(w)
    /\ crash = "past_end" => ~Clean(w)

\* The types send() relies on.
LEMMA SendTypes ==
    ASSUME TypeInv, NEW w \in Workers
    PROVE  /\ channel \in Seq(Chunks) /\ Len(channel) \in Nat
           /\ offset \in [Chunks -> Nat]
           /\ pc \in [Workers -> Steps]
           /\ tx_buffers \in [Workers -> Seq(Chunks)] /\ Got(w) \in Nat
           /\ cur \in [Workers -> Nat \ {0}] /\ todo \in [Workers -> Nat] /\ bytes \in [Workers -> Nat]
           /\ ChunkSize \in Nat \ {0}
           /\ NumBuffers(bytes[w]) \in Nat
<1>1. /\ channel \in Seq(Chunks) /\ offset \in [Chunks -> Nat]
      /\ pc \in [Workers -> Steps]
      /\ tx_buffers \in [Workers -> Seq(Chunks)]
      /\ cur \in [Workers -> Nat \ {0}] /\ todo \in [Workers -> Nat] /\ bytes \in [Workers -> Nat]
  BY DEF TypeInv, TypeOK, PoolTypeOK, SendTypeOK
<1>2. Len(channel) \in Nat /\ Got(w) \in Nat
  BY <1>1, LenProperties DEF Got
<1>3. NumBuffers(bytes[w]) \in Nat
  BY <1>1, NumBuffersRoundsUp
<1> QED  BY <1>1, <1>2, <1>3, TxPathAssumption

\* Outside send(), and in a send() without bytes, there is nothing to say.
LEMMA NotCopying ==
    ASSUME NEW w \in Workers, ~Copies(w)
    PROVE  Taking(w) /\ Copying(w)
  BY DEF Copies, Taking, Copying

\* Nobody is in Chunk::write or Chunk::read.
LEMMA NotCalling ==
    ASSUME NEW w \in Workers, pc'[w] \notin {"write", "full", "read"}
    PROVE  Calling(w)'
  BY DEF Calling

\* A step of the handler or of the adapter leaves the buffers of send() alone.
LEMMA SendFrame ==
    ASSUME NEW w \in Workers, SendInv(w), TypeInv', crash' = "past_end" => crash = "past_end",
           UNCHANGED <<channel, offset, touched, tx_buffers, cur, todo, bytes>>,
           \/ pc'[w] = pc[w] /\ UNCHANGED <<this, len, seen>>
           \/ pc'[w] \in {"loop"} \cup Handler
    PROVE  SendInv(w)'
<1>1. FreeList' /\ (Clean(w)' <=> Clean(w))
  BY DEF SendInv, FreeList, Clean
<1>2. CASE pc'[w] = pc[w] /\ UNCHANGED <<this, len, seen>>
  <2>1. Taking(w)'
    BY <1>2 DEF SendInv, Taking, Copies, Left, Got
  <2>2. Copying(w)'
    BY <1>1, <1>2 DEF SendInv, Copying, Copies, Got, Off
  <2>3. Calling(w)'
    BY <1>2 DEF SendInv, Calling, Got, Off
  <2> QED  BY <1>1, <2>1, <2>2, <2>3 DEF SendInv
<1>3. CASE pc'[w] \in {"loop"} \cup Handler
  <2>1. ~Copies(w)'
    BY <1>3 DEF Copies, Handler, Reaping
  <2>2. Taking(w)' /\ Copying(w)'
    BY <2>1 DEF Copies, Taking, Copying
  <2>3. Calling(w)'
    BY <1>3, NotCalling DEF Handler, Reaping
  <2> QED  BY <1>1, <2>2, <2>3 DEF SendInv
<1> QED  BY <1>2, <1>3

LEMMA InitSendInv ==
    ASSUME NEW w \in Workers
    PROVE  Init => SendInv(w)
<1> SUFFICES ASSUME Init PROVE SendInv(w)
  OBVIOUS
<1>1. FreeList
  <2>1. Len(channel) = RxNum /\ RxNum \in Nat
    BY TxPathAssumption DEF Init
  <2>2. \A k \in 1 .. RxNum : k \in Chunks
    BY TxPathAssumption DEF Chunks
  <2> QED  BY <2>1, <2>2 DEF Init, FreeList
<1>2. ~Copies(w) /\ Calling(w) /\ crash # "past_end"
  BY DEF Init, Copies, Calling
<1> QED  BY <1>1, <1>2, NotCopying, InitTypeInv DEF SendInv

\* send() begins: there are enough chunks, or the process ends without any.
LEMMA SendBeginInv ==
    ASSUME NEW w \in Workers, SendInv(w), TypeInv', NEW s \in Sockets, NEW b \in Lengths,
           SendBegin(w, s, b)
    PROVE  SendInv(w)'
<1>0. /\ channel \in Seq(Chunks) /\ Len(channel) \in Nat
      /\ pc \in [Workers -> Steps]
      /\ tx_buffers \in [Workers -> Seq(Chunks)]
      /\ cur \in [Workers -> Nat \ {0}] /\ todo \in [Workers -> Nat] /\ bytes \in [Workers -> Nat]
      /\ ChunkSize \in Nat \ {0} /\ b \in Nat
  BY SendTypes, TxPathAssumption DEF SendInv
<1>1. /\ pc[w] = "loop" /\ crash = "no" /\ bytes' = [bytes EXCEPT ![w] = b]
      /\ todo' = [todo EXCEPT ![w] = b] /\ UNCHANGED <<channel, offset, touched>>
  BY DEF SendBegin, At, poolVars
<1>2. FreeList'
  BY <1>1 DEF SendInv, FreeList
<1>3. CASE Len(channel) < NumBuffers(b) \/ (b = 0 /\ channel = <<>>)
  <2>1. crash' = "no_buffer" /\ pc' = pc
    BY <1>3 DEF SendBegin
  <2>2. ~Copies(w)'
    BY <1>1, <2>1 DEF Copies
  <2>3. Calling(w)'
    BY <1>1, <2>1, NotCalling
  <2>4. Taking(w)' /\ Copying(w)'
    BY <2>2 DEF Copies, Taking, Copying
  <2> QED  BY <1>2, <2>1, <2>3, <2>4 DEF SendInv
<1>4. CASE ~(Len(channel) < NumBuffers(b) \/ (b = 0 /\ channel = <<>>))
  <2>1. /\ pc' = [pc EXCEPT ![w] = IF b = 0 THEN "post" ELSE "back"]
        /\ tx_buffers' = [tx_buffers EXCEPT ![w] = IF b = 0 THEN channel ELSE <<>>]
        /\ cur' = [cur EXCEPT ![w] = 1] /\ crash' = crash
    BY <1>4 DEF SendBegin
  <2>2. bytes'[w] = b /\ todo'[w] = b /\ cur'[w] = 1
    BY <1>0, <1>1, <2>1
  <2>3. CASE b = 0
    <3>1. pc'[w] = "post"
      BY <1>0, <2>1, <2>3
    <3>2. ~Copies(w)'
      BY <2>2, <2>3, <3>1 DEF Copies
    <3>3. Calling(w)'
      BY <3>1, NotCalling
    <3>4. Taking(w)' /\ Copying(w)'
      BY <3>2 DEF Copies, Taking, Copying
    <3> QED  BY <1>1, <1>2, <2>1, <3>3, <3>4 DEF SendInv
  <2>4. CASE b # 0
    <3>1. pc'[w] = "back" /\ tx_buffers'[w] = <<>>
      BY <1>0, <2>1, <2>4
    <3>2. Got(w)' = 0 /\ Left(w)' = Len(channel)
      BY <1>1, <3>1, EmptySeq DEF Got, Left
    <3>3. NumBuffers(b) \in Nat /\ b <= NumBuffers(b) * ChunkSize
      BY <1>0, NumBuffersRoundsUp
    <3>4. NumBuffers(b) # 0
      <4> SUFFICES ASSUME NumBuffers(b) = 0 PROVE FALSE
        OBVIOUS
      <4>1. 0 * ChunkSize = 0
        BY <1>0
      <4> QED  BY <1>0, <2>4, <3>3, <4>1
    <3>5. Len(channel) + 0 >= NumBuffers(b) /\ 0 < NumBuffers(b) /\ b > 0
      BY <1>0, <1>4, <2>4, <3>3, <3>4
    <3>6. Taking(w)'
      BY <2>2, <3>1, <3>2, <3>5 DEF Taking, Copies
    <3>7. b + (1 - 1) * ChunkSize + 0 = b
      BY <1>0
    <3>8. Copying(w)'
      BY <2>2, <3>1, <3>2, <3>7 DEF Copying, Copies
    <3>9. Calling(w)'
      BY <3>1, NotCalling
    <3> QED  BY <1>1, <1>2, <2>1, <3>6, <3>8, <3>9 DEF SendInv
  <2> QED  BY <2>3, <2>4
<1> QED  BY <1>3, <1>4

\* back(): the last chunk of the list, which is empty.
LEMMA TakeBackInv ==
    ASSUME NEW w \in Workers, SendInv(w), TypeInv', TakeBack(w)
    PROVE  SendInv(w)'
<1>0. /\ channel \in Seq(Chunks) /\ Len(channel) \in Nat
      /\ offset \in [Chunks -> Nat]
      /\ pc \in [Workers -> Steps]
      /\ tx_buffers \in [Workers -> Seq(Chunks)] /\ Got(w) \in Nat
      /\ bytes \in [Workers -> Nat] /\ ChunkSize \in Nat \ {0} /\ NumBuffers(bytes[w]) \in Nat
  BY SendTypes DEF SendInv
<1> DEFINE top == Len(channel)
<1>1. /\ pc[w] = "back" /\ crash = "no" /\ UNCHANGED <<channel, offset, touched, bytes, todo, cur>>
  BY DEF TakeBack, At, poolVars
<1>2. /\ bytes[w] > 0 /\ \A k \in 1 .. Got(w) : tx_buffers[w][k] = top + Got(w) - k + 1
      /\ Got(w) < NumBuffers(bytes[w]) /\ cur[w] = 1 /\ todo[w] = bytes[w]
      /\ top + Got(w) >= NumBuffers(bytes[w])
  BY <1>1 DEF SendInv, Taking, Copies, Left
<1>3. top \in Nat /\ top > 0 /\ channel # <<>>
  <2>1. top \in Nat /\ top > 0
    BY <1>0, <1>2
  <2> QED  BY <2>1, EmptySeq
<1>4. /\ tx_buffers' = [tx_buffers EXCEPT ![w] = Append(@, channel[top])]
      /\ pc' = [pc EXCEPT ![w] = "pop"] /\ crash' = crash
  BY <1>3 DEF TakeBack
<1>5. channel[top] = top /\ top \in Chunks /\ (top \in touched \/ offset[top] = 0)
  <2>1. top \in 1 .. Len(channel)
    BY <1>0, <1>3
  <2>2. channel[top] \in Chunks
    BY <1>0, <2>1, ElementOfSeq
  <2>3. channel[top] = top /\ (top \in touched \/ offset[top] = 0)
    BY <2>1 DEF SendInv, FreeList
  <2> QED  BY <2>2, <2>3
<1>6. /\ pc'[w] = "pop" /\ Got(w)' = Got(w) + 1
      /\ \A k \in 1 .. Got(w) : tx_buffers'[w][k] = tx_buffers[w][k]
      /\ tx_buffers'[w][Got(w) + 1] = top
  <2>1. tx_buffers'[w] = Append(tx_buffers[w], top) /\ pc'[w] = "pop" /\ tx_buffers[w] \in Seq(Chunks)
    BY <1>0, <1>4, <1>5
  <2> QED  BY <1>5, <2>1, AppendProperties DEF Got
<1>7. Left(w)' = top - 1
  BY <1>1, <1>6 DEF Left
<1> HIDE DEF top
<1>8. FreeList'
  BY <1>1 DEF SendInv, FreeList
<1>9. Taking(w)'
  <2>1. ASSUME NEW k \in 1 .. Got(w)' PROVE tx_buffers'[w][k] = Left(w)' + Got(w)' - k + 1
    <3>1. CASE k = Got(w) + 1
      <4>1. tx_buffers'[w][k] = top /\ Left(w)' + Got(w)' - k + 1 = (top - 1) + (Got(w) + 1) - k + 1
        BY <1>6, <1>7, <3>1
      <4> QED  BY <1>0, <1>3, <3>1, <4>1
    <3>2. CASE k # Got(w) + 1
      <4>1. k \in 1 .. Got(w)
        BY <1>0, <1>6, <3>2
      <4>2. tx_buffers'[w][k] = top + Got(w) - k + 1
        BY <1>2, <1>6, <4>1
      <4>3. Left(w)' + Got(w)' - k + 1 = (top - 1) + (Got(w) + 1) - k + 1
        BY <1>6, <1>7
      <4> QED  BY <1>0, <1>3, <4>1, <4>2, <4>3
    <3> QED  BY <3>1, <3>2
  <2>2. Got(w)' \in 1 .. NumBuffers(bytes[w])
    BY <1>0, <1>2, <1>6
  <2>3. Left(w)' + Got(w)' >= NumBuffers(bytes[w])
    BY <1>0, <1>2, <1>3, <1>6, <1>7
  <2>4. bytes'[w] > 0 /\ cur'[w] = 1 /\ todo'[w] = bytes'[w] /\ channel' # <<>> /\ bytes'[w] = bytes[w]
    BY <1>1, <1>2, <1>3
  <2> QED  BY <1>6, <2>1, <2>2, <2>3, <2>4 DEF Taking, Copies
<1>12. ASSUME Clean(w)' PROVE Clean(w) /\ top \notin touched
  <2>1. \A k \in 1 .. Got(w)' : tx_buffers'[w][k] \notin touched
    <3>1. DOMAIN tx_buffers'[w] = 1 .. Got(w)'
      <4>1. tx_buffers'[w] \in Seq(Chunks)
        BY SendTypes DEF TypeInv, TypeOK, SendTypeOK
      <4> QED  BY <4>1, LenProperties DEF Got
    <3> QED  BY <1>1, <1>12, <3>1 DEF Clean
  <2>2. \A k \in 1 .. Got(w) : tx_buffers[w][k] \notin touched
    <3>1. \A k \in 1 .. Got(w) : k \in 1 .. Got(w)'
      BY <1>0, <1>6
    <3> QED  BY <1>6, <2>1, <3>1
  <2>3. DOMAIN tx_buffers[w] = 1 .. Got(w)
    BY <1>0, LenProperties DEF Got
  <2>4. Got(w) + 1 \in 1 .. Got(w)'
    BY <1>0, <1>6
  <2> QED  BY <1>6, <2>1, <2>2, <2>3, <2>4 DEF Clean
<1>10. ASSUME Clean(w)', NEW k \in 1 .. Got(w)' PROVE Off(w, k)' = 0
  <2>1. CASE k = Got(w) + 1
    BY <1>1, <1>5, <1>6, <1>10, <1>12, <2>1 DEF Off
  <2>2. CASE k # Got(w) + 1
    <3>1. k \in 1 .. Got(w) /\ tx_buffers'[w][k] = tx_buffers[w][k]
      BY <1>0, <1>6, <2>2
    <3>2. Off(w, k)' = Off(w, k)
      BY <1>1, <3>1 DEF Off
    <3>3. Copying(w) /\ Copies(w) /\ Clean(w)
      BY <1>1, <1>10, <1>12 DEF SendInv, Copies
    <3>4. k > 1 => Off(w, k) = 0
      BY <1>2, <3>1, <3>3 DEF Copying
    <3>5. k = 1 => Off(w, k) = 0
      <4>1. 1 <= Got(w) => todo[w] + (1 - 1) * ChunkSize + Off(w, 1) = bytes[w]
        BY <1>2, <3>3 DEF Copying
      <4>2. k = 1 => Off(w, 1) \in Nat
        BY <1>0, <3>1, ElementOfSeq DEF Off, Got
      <4>3. (1 - 1) * ChunkSize = 0 /\ bytes[w] \in Nat
        BY <1>0
      <4> QED  BY <1>0, <1>2, <3>1, <4>1, <4>2, <4>3
    <3> QED  BY <3>1, <3>2, <3>4, <3>5
  <2> QED  BY <2>1, <2>2
<1>11. Copying(w)'
  <2> SUFFICES ASSUME Clean(w)' PROVE Copying(w)'
    BY DEF Copying
  <2>1. bytes[w] + (1 - 1) * ChunkSize + 0 = bytes[w]
    BY <1>0
  <2>2. 1 <= Got(w)' /\ 1 \in 1 .. Got(w)'
    BY <1>0, <1>6
  <2>3. bytes'[w] = bytes[w] /\ cur'[w] = 1 /\ todo'[w] = bytes[w]
    BY <1>1, <1>2
  <2>4. Off(w, 1)' = 0 /\ 1 <= Got(w)' + 1 /\ 0 < ChunkSize
    BY <1>0, <1>6, <1>10, <2>2
  <2> QED  BY <1>6, <1>10, <2>1, <2>2, <2>3, <2>4 DEF Copying
<1>13. Calling(w)'
  BY <1>6, NotCalling
<1> QED  BY <1>1, <1>4, <1>8, <1>9, <1>11, <1>13 DEF SendInv

\* pop_back() removes the chunk that back() returned.
LEMMA PopBackInv ==
    ASSUME NEW w \in Workers, SendInv(w), TypeInv', PopBack(w)
    PROVE  SendInv(w)'
<1>0. /\ channel \in Seq(Chunks) /\ Len(channel) \in Nat
      /\ pc \in [Workers -> Steps]
      /\ Got(w) \in Nat /\ NumBuffers(bytes[w]) \in Nat
      /\ bytes \in [Workers -> Nat] /\ todo \in [Workers -> Nat]
  BY SendTypes DEF SendInv
<1>1. /\ pc[w] = "pop" /\ crash = "no"
      /\ UNCHANGED <<offset, touched, bytes, todo, cur, tx_buffers>>
  BY DEF PopBack, At, sendVars
<1>2. /\ bytes[w] > 0 /\ \A k \in 1 .. Got(w) : tx_buffers[w][k] = Left(w) + Got(w) - k + 1
      /\ Got(w) \in 1 .. NumBuffers(bytes[w]) /\ channel # <<>>
      /\ cur[w] = 1 /\ todo[w] = bytes[w] /\ Left(w) + Got(w) >= NumBuffers(bytes[w])
  BY <1>1 DEF SendInv, Taking, Copies
<1>3. /\ channel' = SubSeq(channel, 1, Len(channel) - 1) /\ crash' = crash
      /\ pc' = [pc EXCEPT ![w] = IF Got(w) = NumBuffers(bytes[w]) THEN "fill" ELSE "back"]
  BY <1>2 DEF PopBack, Got
<1>4. /\ Len(channel') = Len(channel) - 1
      /\ \A k \in 1 .. Len(channel') : channel'[k] = channel[k] /\ k \in 1 .. Len(channel)
  <2>1. Len(channel) > 0
    BY <1>0, <1>2, EmptySeq
  <2>2. \A k \in 1 .. (Len(channel) - 1) : k \in 1 .. Len(channel)
    BY <1>0
  <2>3. \A k \in 1 .. (Len(channel) - 1) : channel[k] \in Chunks
    BY <1>0, <2>2, ElementOfSeq
  <2>4. 1 \in Int /\ Len(channel) - 1 \in Int
    BY <1>0
  <2>5. /\ Len(channel') = IF 1 <= Len(channel) - 1 THEN Len(channel) - 1 - 1 + 1 ELSE 0
        /\ \A k \in 1 .. Len(channel) - 1 - 1 + 1 : channel'[k] = channel[1 + k - 1]
    BY <1>3, <2>3, <2>4, SubSeqProperties
  <2>6. Len(channel') = Len(channel) - 1
    <3> DEFINE l == Len(channel)
    <3>1. l \in Nat /\ l > 0
      BY <1>0, <2>1
    <3>2. Len(channel') = IF 1 <= l - 1 THEN l - 1 - 1 + 1 ELSE 0
      BY <2>5
    <3> HIDE DEF l
    <3>3. (IF 1 <= l - 1 THEN l - 1 - 1 + 1 ELSE 0) = l - 1
      BY <3>1
    <3>4. Len(channel') = l - 1
      BY <3>2, <3>3
    <3> QED  BY <3>4 DEF l
  <2>7. ASSUME NEW k \in 1 .. Len(channel') PROVE channel'[k] = channel[k] /\ k \in 1 .. Len(channel)
    <3>0. Len(channel) \in Nat /\ k \in 1 .. (Len(channel) - 1)
      BY <1>0, <2>6
    <3>1. k \in 1 .. Len(channel) - 1 - 1 + 1 /\ 1 + k - 1 = k /\ k \in 1 .. Len(channel)
      BY <3>0
    <3> QED  BY <2>5, <3>1
  <2> QED  BY <2>6, <2>7
<1>5. FreeList'
  BY <1>1, <1>4 DEF SendInv, FreeList
<1>6. /\ pc'[w] \in {"fill", "back"} /\ (pc'[w] = "fill" <=> Got(w) = NumBuffers(bytes[w]))
      /\ Left(w)' = Left(w) /\ Got(w)' = Got(w)
  <2>1. pc'[w] \in {"fill", "back"} /\ (pc'[w] = "fill" <=> Got(w) = NumBuffers(bytes[w]))
    BY <1>0, <1>3
  <2>2. Left(w)' = Left(w)
    BY <1>1, <1>4, <2>1 DEF Left
  <2>3. Got(w)' = Got(w)
    BY <1>1 DEF Got
  <2> QED  BY <2>1, <2>2, <2>3
<1>7. Taking(w)'
  <2>1. Got(w) # NumBuffers(bytes[w]) => Got(w) < NumBuffers(bytes[w])
    BY <1>0, <1>2
  <2> QED  BY <1>1, <1>2, <1>6, <2>1 DEF Taking, Copies
<1>8. Copying(w)'
  <2>1. \A k : Off(w, k)' = Off(w, k)
    BY <1>1 DEF Off
  <2>2. Copies(w) /\ Copying(w) /\ (Clean(w)' <=> Clean(w))
    BY <1>1 DEF SendInv, Copies, Clean
  <2> QED  BY <1>1, <1>2, <1>6, <2>1, <2>2 DEF Copying
<1>9. Calling(w)'
  BY <1>6, NotCalling
<1> QED  BY <1>1, <1>3, <1>5, <1>7, <1>8, <1>9 DEF SendInv

\* What the copy loop knows when it starts a turn: current_buffer is one of the
\* chunks, and it has room.
LEMMA Room ==
    ASSUME NEW w \in Workers, SendInv(w), Clean(w), pc[w] \in {"fill", "write"}
    PROVE  /\ cur[w] \in 1 .. Got(w) /\ Off(w, cur[w]) \in 0 .. (ChunkSize - 1)
           /\ todo[w] + (cur[w] - 1) * ChunkSize + Off(w, cur[w]) = bytes[w]
<1>0. /\ offset \in [Chunks -> Nat] /\ tx_buffers[w] \in Seq(Chunks) /\ Got(w) \in Nat
      /\ cur[w] \in Nat \ {0} /\ todo[w] \in Nat /\ bytes[w] \in Nat /\ ChunkSize \in Nat \ {0}
  BY SendTypes DEF SendInv
<1>1. /\ cur[w] <= Got(w) + 1 /\ todo[w] > 0 /\ Got(w) = NumBuffers(bytes[w])
      /\ \A k \in 1 .. Got(w) : k = cur[w] => Off(w, k) < ChunkSize
      /\ todo[w] + (cur[w] - 1) * ChunkSize
           + (IF cur[w] <= Got(w) THEN Off(w, cur[w]) ELSE 0) = bytes[w]
  BY DEF SendInv, Taking, Copying, Copies
<1>2. cur[w] # Got(w) + 1
  <2> SUFFICES ASSUME cur[w] = Got(w) + 1 PROVE FALSE
    OBVIOUS
  <2>1. bytes[w] <= Got(w) * ChunkSize
    BY <1>0, <1>1, NumBuffersRoundsUp
  <2>0. cur[w] \in Nat /\ Got(w) \in Nat
    BY <1>0
  <2>2. ~(cur[w] <= Got(w)) /\ cur[w] - 1 = Got(w)
    BY <2>0
  <2>3. todo[w] + Got(w) * ChunkSize + 0 = bytes[w]
    BY <1>1, <2>2
  <2>4. Got(w) * ChunkSize \in Nat
    BY <1>0
  <2> QED  BY <1>0, <1>1, <2>1, <2>3, <2>4
<1>3. cur[w] \in 1 .. Got(w) /\ cur[w] <= Got(w)
  BY <1>0, <1>1, <1>2
<1>4. Off(w, cur[w]) \in Nat
  <2>1. tx_buffers[w][cur[w]] \in Chunks
    BY <1>0, <1>3, ElementOfSeq DEF Got
  <2> QED  BY <1>0, <2>1 DEF Off
<1>5. Off(w, cur[w]) < ChunkSize
  BY <1>1, <1>3
<1>6. Off(w, cur[w]) \in 0 .. (ChunkSize - 1)
  BY <1>0, <1>4, <1>5
<1> QED  BY <1>1, <1>3, <1>6

\* Chunk::write is called on the chunk that current_buffer points to.
LEMMA WriteBeginInv ==
    ASSUME NEW w \in Workers, SendInv(w), TypeInv', NEW piece \in 1 .. todo[w], WriteBegin(w, piece)
    PROVE  SendInv(w)'
<1>0. /\ Len(channel) \in Nat /\ pc \in [Workers -> Steps] /\ Got(w) \in Nat
      /\ cur \in [Workers -> Nat \ {0}] /\ todo[w] \in Nat
      /\ this \in [Workers -> Chunks \cup {0}] /\ len \in [Workers -> Nat] /\ seen \in [Workers -> Nat]
  BY SendTypes DEF SendInv, TypeInv, TypeOK, CopyTypeOK, SendTypeOK
<1>1. /\ pc[w] = "fill" /\ crash = "no"
      /\ UNCHANGED <<channel, offset, touched, bytes, todo, tx_buffers, cur>>
  BY DEF WriteBegin, At, poolVars, sendVars
<1>2. FreeList' /\ (Clean(w)' <=> Clean(w))
  BY <1>1 DEF SendInv, FreeList, Clean
<1>3. Got(w)' = Got(w) /\ \A k : Off(w, k)' = Off(w, k)
  BY <1>1 DEF Got, Off
<1>4. CASE cur[w] > Len(tx_buffers[w])
  <2>1. pc' = pc /\ crash' = "past_end" /\ UNCHANGED <<this, len, seen>>
    BY <1>4 DEF WriteBegin
  <2>2. ~Clean(w)
    <3> SUFFICES ASSUME Clean(w) PROVE FALSE
      OBVIOUS
    <3>1. cur[w] \in 1 .. Got(w)
      BY <1>1, Room
    <3> QED  BY <1>0, <1>4, <3>1 DEF Got
  <2>3. Calling(w)'
    BY <1>1, <2>1, NotCalling
  <2>4. Taking(w)'
    BY <1>1, <2>1 DEF SendInv, Taking, Copies, Left, Got
  <2>5. Copying(w)'
    BY <1>2, <2>2 DEF Copying
  <2> QED  BY <1>2, <2>1, <2>2, <2>3, <2>4, <2>5 DEF SendInv
<1>5. CASE cur[w] <= Len(tx_buffers[w])
  <2>1. /\ this' = [this EXCEPT ![w] = tx_buffers[w][cur[w]]] /\ len' = [len EXCEPT ![w] = piece]
        /\ seen' = [seen EXCEPT ![w] = offset[tx_buffers[w][cur[w]]]]
        /\ pc' = [pc EXCEPT ![w] = "write"] /\ crash' = crash
    <3>1. ~(cur[w] > Len(tx_buffers[w]))
      BY <1>0, <1>5 DEF Got
    <3> QED  BY <3>1 DEF WriteBegin
  <2>2. /\ this'[w] = tx_buffers[w][cur[w]] /\ len'[w] = piece /\ seen'[w] = Off(w, cur[w])
        /\ pc'[w] = "write"
    BY <1>0, <2>1 DEF Off
  <2>3. Calling(w)'
    BY <1>1, <1>3, <1>5, <2>2 DEF Calling, Got
  <2>4. Taking(w)'
    BY <1>1, <1>3, <2>2 DEF SendInv, Taking, Copies, Left
  <2>5. Copying(w)'
    <3> SUFFICES ASSUME Clean(w)' PROVE Copying(w)'
      BY DEF Copying
    <3>1. Clean(w) /\ Copies(w) /\ Copying(w)
      BY <1>1, <1>2 DEF SendInv, Copies
    <3> QED  BY <1>1, <1>3, <2>2, <3>1 DEF Copying
  <2> QED  BY <1>1, <1>2, <2>1, <2>3, <2>4, <2>5 DEF SendInv
<1> QED  BY <1>0, <1>4, <1>5 DEF Got

\* The chunk that current_buffer points to gets what fits.
LEMMA WriteEndInv ==
    ASSUME NEW w \in Workers, SendInv(w), TypeInv', WriteEnd(w)
    PROVE  SendInv(w)'
<1> DEFINE c == this[w]
           r == Ret(w)
<1>0. /\ offset \in [Chunks -> Nat] /\ Len(channel) \in Nat
      /\ pc \in [Workers -> Steps]
      /\ tx_buffers[w] \in Seq(Chunks) /\ Got(w) \in Nat /\ channel \in Seq(Chunks)
      /\ cur \in [Workers -> Nat \ {0}] /\ todo \in [Workers -> Nat] /\ bytes[w] \in Nat
      /\ ChunkSize \in Nat \ {0}
  BY SendTypes DEF SendInv
<1>1. /\ pc[w] = "write" /\ crash = "no" /\ crash' = crash
      /\ UNCHANGED <<channel, touched, bytes, tx_buffers, cur, this, len, seen>>
  BY DEF WriteEnd, At, copyVars
<1>2. /\ cur[w] \in 1 .. Got(w) /\ c = tx_buffers[w][cur[w]]
      /\ seen[w] = offset[c] /\ len[w] \in 1 .. todo[w]
  BY <1>0, <1>1 DEF SendInv, Calling, Off
<1>3. /\ pc'[w] = "full" /\ todo'[w] = todo[w] - r
      /\ offset' = [offset EXCEPT ![c] = IF Fits(seen[w], len[w]) THEN offset[c] + len[w] ELSE ChunkSize]
  BY <1>0, <1>2 DEF WriteEnd
<1>4. /\ bytes[w] > 0 /\ \A k \in 1 .. Got(w) : tx_buffers[w][k] = Len(channel) + Got(w) - k + 1
      /\ Got(w) = NumBuffers(bytes[w])
  BY <1>1 DEF SendInv, Taking, Copies, Left
<1>5. c \in Chunks /\ c = Len(channel) + Got(w) - cur[w] + 1
  BY <1>0, <1>2, <1>4, ElementOfSeq DEF Got
<1>6. \A d \in Chunks : d # c => offset'[d] = offset[d]
  BY <1>0, <1>3
<1>7. FreeList'
  <2> SUFFICES ASSUME NEW k \in 1 .. Len(channel)
               PROVE  channel[k] = k /\ (k \in touched \/ offset'[k] = 0)
    BY <1>1 DEF FreeList
  <2>1. channel[k] = k /\ (k \in touched \/ offset[k] = 0)
    BY DEF SendInv, FreeList
  <2>2. k # c
    <3>1. cur[w] \in Nat /\ cur[w] <= Got(w)
      BY <1>0, <1>2
    <3> HIDE DEF c
    <3> QED  BY <1>0, <1>5, <3>1
  <2>3. k \in Chunks
    BY <1>0, <2>1, ElementOfSeq
  <2> QED  BY <1>6, <2>1, <2>2, <2>3
<1>8. Got(w)' = Got(w) /\ Left(w)' = Len(channel) /\ (Clean(w)' <=> Clean(w))
  BY <1>1, <1>3 DEF Got, Left, Clean
<1>9. Taking(w)'
  BY <1>1, <1>3, <1>4, <1>8 DEF Taking, Copies
<1>10. Calling(w)'
  BY <1>0, <1>1, <1>2, <1>3, <1>8 DEF Calling
<1>11. ASSUME NEW k \in 1 .. Got(w)
       PROVE  /\ k = cur[w] => Off(w, k)' = offset'[c] /\ Off(w, k) = offset[c]
              /\ k # cur[w] => Off(w, k)' = Off(w, k)
  <2>1. tx_buffers[w][k] \in Chunks /\ tx_buffers'[w][k] = tx_buffers[w][k]
    BY <1>0, <1>1, <1>11, ElementOfSeq DEF Got
  <2>2. k # cur[w] => tx_buffers[w][k] # c
    <3>1. tx_buffers[w][k] = Len(channel) + Got(w) - k + 1
      BY <1>4
    <3>2. cur[w] \in Nat /\ k \in Nat
      BY <1>0
    <3> HIDE DEF c
    <3> QED  BY <1>0, <1>5, <3>1, <3>2
  <2>3. Off(w, k)' = offset'[tx_buffers[w][k]] /\ Off(w, k) = offset[tx_buffers[w][k]]
    BY <2>1 DEF Off
  <2> QED  BY <1>2, <1>6, <2>1, <2>2, <2>3
<1>12. ASSUME Clean(w) PROVE Copying(w)'
  <2>1. /\ Off(w, cur[w]) \in 0 .. (ChunkSize - 1)
        /\ todo[w] + (cur[w] - 1) * ChunkSize + Off(w, cur[w]) = bytes[w]
    BY <1>1, <1>12, Room
  <2>2. Off(w, cur[w]) = offset[c] /\ Off(w, cur[w])' = offset'[c]
    BY <1>1, <1>2 DEF Off
  <2>3. offset[c] \in Nat /\ offset[c] < ChunkSize /\ len[w] \in Nat /\ todo[w] \in Nat
        /\ len[w] <= todo[w] /\ ChunkSize \in Nat
    <3> HIDE DEF c
    <3>1. todo[w] \in Nat /\ ChunkSize \in Nat
      BY <1>0
    <3>2. offset[c] \in 0 .. (ChunkSize - 1)
      BY <2>1, <2>2
    <3> QED  BY <1>2, <3>1, <3>2
  <2>4. offset'[c] = IF offset[c] + len[w] <= ChunkSize THEN offset[c] + len[w] ELSE ChunkSize
    BY <1>0, <1>2, <1>3, <1>5, <2>3 DEF Fits
  <2>5. r = IF offset[c] + len[w] <= ChunkSize THEN len[w] ELSE ChunkSize - offset[c]
    BY <1>2, <2>3 DEF Ret, Fits
  <2> HIDE DEF r, c
  <2>6. r \in Nat /\ offset'[c] = offset[c] + r /\ offset'[c] \in Nat /\ offset'[c] <= ChunkSize
    BY <2>3, <2>4, <2>5
  <2>7. \A k \in 1 .. Got(w) : /\ k < cur[w] => Off(w, k) = ChunkSize
                               /\ k > cur[w] => Off(w, k) = 0
    BY <1>1, <1>12 DEF SendInv, Copying, Copies
  <2>8. ASSUME NEW k \in 1 .. Got(w)
        PROVE  /\ k < cur[w] => Off(w, k)' = ChunkSize
               /\ k = cur[w] => Off(w, k)' < ChunkSize \/ Off(w, k)' = ChunkSize
               /\ k > cur[w] => Off(w, k)' = 0
    <3>1. cur[w] \in Nat /\ k \in Nat
      BY <1>0
    <3>2. k < cur[w] \/ k > cur[w] => k # cur[w]
      BY <3>1
    <3>3. offset'[c] < ChunkSize \/ offset'[c] = ChunkSize
      BY <2>3, <2>6
    <3> QED  BY <1>11, <2>7, <3>2, <3>3
  <2>9. (todo[w] - r) + (cur[w] - 1) * ChunkSize + (offset[c] + r) = bytes[w]
    <3>1. PICK f : f = (cur[w] - 1) * ChunkSize
      OBVIOUS
    <3>2. f \in Int
      BY <1>0, <3>1
    <3>3. todo[w] + f + offset[c] = bytes[w]
      BY <2>1, <2>2, <3>1
    <3>4. (todo[w] - r) + f + (offset[c] + r) = bytes[w]
      BY <2>3, <2>6, <3>2, <3>3
    <3> QED  BY <3>1, <3>4
  <2>10. cur[w] <= Got(w) /\ cur[w] <= Got(w) + 1
    BY <1>0, <1>2
  <2>11. todo'[w] + (cur'[w] - 1) * ChunkSize + (IF cur'[w] <= Got(w)' THEN Off(w, cur[w])' ELSE 0)
           = bytes'[w]
    BY <1>1, <1>3, <1>8, <2>2, <2>6, <2>9, <2>10
  <2> QED  BY <1>1, <1>3, <1>8, <2>8, <2>10, <2>11 DEF Copying
<1>13. Copying(w)'
  <2>1. ~Clean(w)' => Copying(w)'
    BY DEF Copying
  <2> QED  BY <1>8, <1>12, <2>1
<1> QED  BY <1>1, <1>7, <1>9, <1>10, <1>13 DEF SendInv

\* current_buffer moves on when its chunk is full.
LEMMA FullTestInv ==
    ASSUME NEW w \in Workers, SendInv(w), TypeInv', FullTest(w)
    PROVE  SendInv(w)'
<1>0. /\ pc \in [Workers -> Steps] /\ Got(w) \in Nat
      /\ cur \in [Workers -> Nat \ {0}] /\ todo[w] \in Nat /\ bytes[w] \in Nat
      /\ ChunkSize \in Nat \ {0} /\ offset \in [Chunks -> Nat] /\ tx_buffers[w] \in Seq(Chunks)
  BY SendTypes DEF SendInv
<1>1. /\ pc[w] = "full" /\ crash = "no" /\ crash' = crash
      /\ UNCHANGED <<channel, offset, touched, bytes, todo, tx_buffers>>
      /\ pc' = [pc EXCEPT ![w] = IF todo[w] = 0 THEN "post" ELSE "fill"]
      /\ cur' = [cur EXCEPT ![w] = IF offset[this[w]] = ChunkSize THEN @ + 1 ELSE @]
  BY DEF FullTest, At, poolVars
<1>2. cur[w] \in 1 .. Got(w) /\ offset[this[w]] = Off(w, cur[w])
  BY <1>0, <1>1 DEF SendInv, Calling, Off
<1>3. /\ pc'[w] = IF todo[w] = 0 THEN "post" ELSE "fill"
      /\ cur'[w] = IF Off(w, cur[w]) = ChunkSize THEN cur[w] + 1 ELSE cur[w]
  BY <1>0, <1>1, <1>2
<1>4. FreeList' /\ (Clean(w)' <=> Clean(w))
  BY <1>1 DEF SendInv, FreeList, Clean
<1>5. /\ Got(w)' = Got(w) /\ (\A k : Off(w, k)' = offset[tx_buffers[w][k]])
      /\ Left(w)' = Len(channel) /\ Left(w) = Len(channel)
  BY <1>1, <1>3 DEF Got, Off, Left
<1>6. Calling(w)'
  BY <1>3, NotCalling
<1>7. Taking(w)'
  <2>1. /\ bytes[w] > 0 /\ \A k \in 1 .. Got(w) : tx_buffers[w][k] = Left(w) + Got(w) - k + 1
        /\ Got(w) = NumBuffers(bytes[w])
    BY <1>1 DEF SendInv, Taking, Copies
  <2> QED  BY <1>1, <1>3, <1>5, <2>1 DEF Taking, Copies
<1>8. ASSUME Clean(w) PROVE Copying(w)'
  <2>1. /\ \A k \in 1 .. Got(w) :
             /\ k < cur[w] => Off(w, k) = ChunkSize
             /\ k = cur[w] => Off(w, k) < ChunkSize \/ Off(w, k) = ChunkSize
             /\ k > cur[w] => Off(w, k) = 0
        /\ todo[w] + (cur[w] - 1) * ChunkSize
             + (IF cur[w] <= Got(w) THEN Off(w, cur[w]) ELSE 0) = bytes[w]
    BY <1>1, <1>8 DEF SendInv, Copying, Copies
  <2>2. \A k \in 1 .. Got(w) : Off(w, k) \in Nat
    BY <1>0, ElementOfSeq DEF Off, Got
  <2>3. PICK N : N = Got(w)
    OBVIOUS
  <2>4. PICK C : C = cur[w]
    OBVIOUS
  <2>5. N \in Nat /\ C \in 1 .. N /\ ChunkSize \in Nat \ {0}
    BY <1>0, <1>2, <2>3, <2>4
  <2>6. \A k : Off(w, k)' = Off(w, k)
    BY <1>5 DEF Off
  <2>7. cur'[w] <= N + 1
    BY <1>3, <2>4, <2>5
  <2>8. ASSUME NEW k \in 1 .. N
        PROVE  /\ k < cur'[w] => Off(w, k) = ChunkSize
               /\ k = cur'[w] => Off(w, k) < ChunkSize
               /\ k > cur'[w] => Off(w, k) = 0
    <3>1. Off(w, k) \in Nat /\ k \in Nat
      BY <2>2, <2>3
    <3>2. /\ k < C => Off(w, k) = ChunkSize
          /\ k = C => Off(w, k) < ChunkSize \/ Off(w, k) = ChunkSize
          /\ k > C => Off(w, k) = 0
      BY <2>1, <2>3, <2>4
    <3>3. CASE Off(w, C) = ChunkSize
      <4>1. cur'[w] = C + 1
        BY <1>3, <2>4, <3>3
      <4>2. 0 < ChunkSize
        BY <2>5
      <4> QED  BY <2>5, <3>1, <3>2, <3>3, <4>1, <4>2
    <3>4. CASE Off(w, C) # ChunkSize
      <4>1. cur'[w] = C
        BY <1>3, <2>4, <3>4
      <4> QED  BY <3>2, <3>4, <4>1
    <3> QED  BY <3>3, <3>4
  <2>9. todo[w] + (cur'[w] - 1) * ChunkSize
          + (IF cur'[w] <= N THEN Off(w, cur'[w]) ELSE 0) = bytes[w]
    <3>1. PICK f : f = (C - 1) * ChunkSize
      OBVIOUS
    <3>2. f \in Int /\ C * ChunkSize = f + ChunkSize
      BY <2>5, <3>1
    <3>3. todo[w] + f + Off(w, C) = bytes[w]
      BY <2>1, <2>3, <2>4, <2>5, <3>1
    <3>4. CASE Off(w, C) = ChunkSize
      <4>1. cur'[w] = C + 1 /\ (C + 1) - 1 = C
        BY <1>3, <2>4, <2>5, <3>4
      <4>2. cur'[w] <= N => Off(w, cur'[w]) = 0
        <5>1. cur'[w] <= N => cur'[w] \in 1 .. N /\ cur'[w] > C
          BY <2>5, <4>1
        <5> QED  BY <2>1, <2>3, <2>4, <5>1
      <4>3. todo[w] + C * ChunkSize + 0 = bytes[w]
        BY <1>0, <3>2, <3>3, <3>4
      <4> QED  BY <4>1, <4>2, <4>3
    <3>5. CASE Off(w, C) # ChunkSize
      <4>1. cur'[w] = C /\ C <= N
        BY <1>3, <2>4, <2>5, <3>5
      <4> QED  BY <3>1, <3>3, <4>1
    <3> QED  BY <3>4, <3>5
  <2>10. /\ pc'[w] \in {"fill", "write"} => todo'[w] > 0
         /\ pc'[w] = "post" => todo'[w] = 0
    BY <1>0, <1>1, <1>3
  <2>11. todo'[w] = todo[w] /\ bytes'[w] = bytes[w] /\ Got(w)' = N
    BY <1>1, <1>5, <2>3
  <2>12. PICK D : D = cur'[w]
    OBVIOUS
  <2>13. Off(w, D)' = Off(w, D)
    BY <2>6
  <2>14. todo'[w] + (D - 1) * ChunkSize + (IF D <= N THEN Off(w, D)' ELSE 0) = bytes'[w]
    BY <2>9, <2>11, <2>12, <2>13
  <2>15. Copying(w)' <=>
           (Copies(w)' /\ Clean(w)' =>
              /\ D <= N + 1
              /\ \A k \in 1 .. N :
                    /\ k < D => Off(w, k)' = ChunkSize
                    /\ k = D => Off(w, k)' < ChunkSize \/ (pc'[w] = "full" /\ Off(w, k)' = ChunkSize)
                    /\ k > D => Off(w, k)' = 0
              /\ todo'[w] + (D - 1) * ChunkSize + (IF D <= N THEN offset'[tx_buffers'[w][D]] ELSE 0)
                   = bytes'[w]
              /\ pc'[w] \in {"fill", "write"} => todo'[w] > 0
              /\ pc'[w] = "post" => todo'[w] = 0)
    BY <2>11, <2>12 DEF Copying, Off
  <2>16. Off(w, D)' = offset'[tx_buffers'[w][D]]
    BY DEF Off
  <2> QED  BY <2>6, <2>7, <2>8, <2>10, <2>12, <2>14, <2>15, <2>16
<1>9. Copying(w)'
  <2>1. ~Clean(w)' => Copying(w)'
    BY DEF Copying
  <2> QED  BY <1>4, <1>8, <2>1
<1> QED  BY <1>1, <1>4, <1>6, <1>7, <1>9 DEF SendInv

\* Chunk::read moves the offset of a chunk that is touched from then on.
LEMMA ReadInv ==
    ASSUME NEW w \in Workers, SendInv(w), TypeInv', ReadSteps(w)
    PROVE  SendInv(w)'
<1>0. /\ offset \in [Chunks -> Nat] /\ pc \in [Workers -> Steps] /\ channel \in Seq(Chunks)
      /\ this \in [Workers -> Chunks \cup {0}]
  BY SendTypes DEF SendInv, TypeInv, TypeOK, CopyTypeOK
<1>1. CASE \E c \in RxChunks, b \in ReadLens : ReadBegin(w, c, b)
  <2>1. PICK c \in RxChunks, b \in ReadLens : ReadBegin(w, c, b)
    BY <1>1
  <2>2. /\ pc'[w] = "read" /\ this'[w] = c /\ touched' = touched \cup {c}
        /\ UNCHANGED <<channel, offset>> /\ crash = "no" /\ crash' = crash
    BY <1>0, <2>1 DEF ReadBegin, At
  <2>3. FreeList'
    BY <2>2 DEF SendInv, FreeList
  <2>4. Taking(w)' /\ Copying(w)' /\ Calling(w)'
    BY <2>2 DEF Taking, Copying, Calling, Copies
  <2> QED  BY <2>2, <2>3, <2>4 DEF SendInv
<1>2. CASE ReadEnd(w)
  <2>1. /\ pc[w] = "read" /\ pc'[w] = "loop" /\ UNCHANGED <<channel, touched>>
        /\ crash = "no" /\ crash' = crash
    BY <1>0, <1>2 DEF ReadEnd, At
  <2>2. PICK m : offset' = [offset EXCEPT ![this[w]] = m]
    BY <1>2 DEF ReadEnd
  <2>3. this[w] \in touched
    BY <2>1 DEF SendInv, Calling
  <2>4. FreeList'
    <3> SUFFICES ASSUME NEW k \in 1 .. Len(channel)
                 PROVE  channel[k] = k /\ (k \in touched \/ offset'[k] = 0)
      BY <2>1 DEF FreeList
    <3>1. channel[k] = k /\ (k \in touched \/ offset[k] = 0)
      BY DEF SendInv, FreeList
    <3>2. k \in Chunks
      BY <1>0, <3>1, ElementOfSeq
    <3> QED  BY <1>0, <2>2, <2>3, <3>1, <3>2
  <2>5. Taking(w)' /\ Copying(w)' /\ Calling(w)'
    BY <2>1 DEF Taking, Copying, Calling, Copies
  <2> QED  BY <2>1, <2>4, <2>5 DEF SendInv
<1> QED  BY <1>1, <1>2 DEF ReadSteps

\* ibv_post_send ends send(), whether it posts all the requests or some.
LEMMA PostInv ==
    ASSUME NEW w \in Workers, SendInv(w), TypeInv', Return(w), crash = "no", crash' = crash,
           UNCHANGED <<channel, offset, touched>>
    PROVE  SendInv(w)'
<1>1. pc'[w] = "loop"
  BY SendTypes DEF Return, SendInv
<1>2. ~Copies(w)'
  BY <1>1 DEF Copies
<1>3. Taking(w)' /\ Copying(w)'
  BY <1>2 DEF Copies, Taking, Copying
<1>4. FreeList' /\ Calling(w)'
  BY <1>1, NotCalling DEF SendInv, FreeList
<1> QED  BY <1>3, <1>4 DEF SendInv

\* With one worker nobody else touches the free list.
LEMMA NextSendInv ==
    ASSUME NEW w \in Workers, Workers = {w}
    PROVE  SendInv(w) /\ [Next]_vars => SendInv(w)'
<1> SUFFICES ASSUME SendInv(w), [Next]_vars PROVE SendInv(w)'
  OBVIOUS
<1>0. TypeInv' /\ pc \in [Workers -> Steps]
  BY NextTypeInv, SendTypes DEF SendInv
<1>1. CASE SendSteps(w)
  <2>1. CASE \E s \in Sockets, b \in Lengths : SendBegin(w, s, b)
    BY <1>0, <2>1, SendBeginInv
  <2>2. CASE TakeBack(w)
    BY <1>0, <2>2, TakeBackInv
  <2>3. CASE PopBack(w)
    BY <1>0, <2>3, PopBackInv
  <2>4. CASE \E piece \in 1 .. todo[w] : WriteBegin(w, piece)
    BY <1>0, <2>4, WriteBeginInv
  <2>7. CASE WriteEnd(w)
    BY <1>0, <2>7, WriteEndInv
  <2>8. CASE FullTest(w)
    BY <1>0, <2>8, FullTestInv
  <2>5. CASE Post(w)
    <3>1. Return(w) /\ crash = "no" /\ crash' = crash /\ UNCHANGED <<channel, offset, touched>>
      BY <2>5 DEF Post, At, poolVars
    <3> QED  BY <1>0, <3>1, PostInv
  <2>6. CASE \E k \in 0 .. Len(tx_buffers[w]) : PostFail(w, k)
    <3>1. Return(w) /\ crash = "no" /\ crash' = crash /\ UNCHANGED <<channel, offset, touched>>
      BY <2>6 DEF PostFail, At
    <3> QED  BY <1>0, <3>1, PostInv
  <2> QED  BY <1>1, <2>1, <2>2, <2>3, <2>4, <2>5, <2>6, <2>7, <2>8 DEF SendSteps
<1>5. CASE ReadSteps(w)
  BY <1>0, <1>5, ReadInv
<1>2. CASE HandlerSteps(w)
  <2>1. /\ UNCHANGED <<channel, offset, touched, tx_buffers, cur, todo, bytes>>
        /\ crash' = "past_end" => crash = "past_end"
    BY <1>0, <1>2 DEF HandlerSteps, GetCqEvent, PollCq, ReapBegin, ReapEnd, ReturnChannel, Rearm,
       poolVars, sendVars
  <2>2. pc'[w] \in {"loop"} \cup Handler \/ (pc'[w] = pc[w] /\ UNCHANGED <<this, len, seen>>)
    BY <1>0, <1>2 DEF HandlerSteps, GetCqEvent, PollCq, AfterEmptyPoll, ReapBegin, ReapEnd, Rearm,
       Handler, Reaping, copyVars
  <2> QED  BY <1>0, <2>1, <2>2, SendFrame
<1>3. CASE \E s \in Sockets : QpError(s) \/ Complete(s)
  <2>1. /\ UNCHANGED <<channel, offset, touched, tx_buffers, cur, todo, bytes, pc, this, len, seen>>
        /\ crash' = crash
    BY <1>3 DEF QpError, Complete, poolVars, sendVars, copyVars
  <2> QED  BY <1>0, <2>1, SendFrame
<1>4. CASE UNCHANGED vars
  <2>1. /\ UNCHANGED <<channel, offset, touched, tx_buffers, cur, todo, bytes, pc, this, len, seen>>
        /\ crash' = crash
    BY <1>4 DEF vars, poolVars, sendVars, copyVars
  <2> QED  BY <1>0, <2>1, SendFrame
<1> QED  BY <1>1, <1>2, <1>3, <1>4, <1>5 DEF Next, Crashed, WorkerSteps

\* The loops of send() stay inside the vectors they walk: with one worker, neither
\* back() nor pop_back() meets an empty list and current_buffer never passes the
\* chunks that were taken, however long the message and however it is cut up, unless
\* one of those chunks was received into and read, which leaves its offset moved.
THEOREM NeverPastEndTheorem ==
    ASSUME NEW w \in Workers, Workers = {w}
    PROVE  Spec => []NeverPastEnd
<1>1. SendInv(w) => NeverPastEnd
  BY DEF SendInv, NeverPastEnd
<1> QED  BY <1>1, InitSendInv, NextSendInv, PTL DEF Spec

\* A chunk less than `k` is at least a whole chunk less.
LEMMA ChunkMultiples ==
    ASSUME NEW j \in Nat, NEW k \in Nat, j < k
    PROVE  j * ChunkSize <= (k - 1) * ChunkSize
<1>1. PICK d \in Nat : k - 1 = j + d
  <2>1. k - 1 - j \in Nat /\ k - 1 = j + (k - 1 - j)
    OBVIOUS
  <2> QED  BY <2>1
<1>2. ChunkSize \in Nat
  BY TxPathAssumption
<1>3. (j + d) * ChunkSize = j * ChunkSize + d * ChunkSize
  BY <1>2
<1>4. j * ChunkSize \in Nat /\ d * ChunkSize \in Nat
  BY <1>2
<1>5. (k - 1) * ChunkSize = j * ChunkSize + d * ChunkSize
  BY <1>1, <1>3
<1> QED  BY <1>4, <1>5

\* What the copy loop has done when it is left: the chunks hold the message.
LEMMA CopiedAll ==
    ASSUME NEW w \in Workers, SendInv(w), Clean(w), pc[w] = "post", bytes[w] > 0
    PROVE  /\ todo[w] = 0 /\ Got(w) > 0
           /\ \A k \in 1 .. (Got(w) - 1) : Off(w, k) = ChunkSize
           /\ Off(w, Got(w)) > 0
           /\ (Got(w) - 1) * ChunkSize + Off(w, Got(w)) = bytes[w]
<1> DEFINE N == Got(w)
           C == cur[w]
           B == bytes[w]
<1>1. Copies(w)
  BY DEF Copies
<1>2. N \in Nat /\ C \in Nat \ {0} /\ B \in Nat /\ todo[w] \in Nat /\ ChunkSize \in Nat \ {0}
  BY SendTypes DEF SendInv
<1>3. N = NumBuffers(B) /\ todo[w] = 0 /\ C <= N + 1
  BY <1>1 DEF SendInv, Taking, Copying
<1>4. /\ \A k \in 1 .. N : /\ k < C => Off(w, k) = ChunkSize
                           /\ k = C => Off(w, k) < ChunkSize
      /\ todo[w] + (C - 1) * ChunkSize + (IF C <= N THEN Off(w, C) ELSE 0) = B
  BY <1>1 DEF SendInv, Copying
<1>5. B <= N * ChunkSize /\ (N - 1) * ChunkSize < B
  BY <1>2, <1>3, NumBuffersRoundsUp
<1>6. ASSUME NEW k \in 1 .. N PROVE Off(w, k) \in Nat
  <2>1. offset \in [Chunks -> Nat] /\ tx_buffers[w] \in Seq(Chunks)
    BY SendTypes DEF SendInv
  <2>2. tx_buffers[w][k] \in Chunks
    BY <2>1, ElementOfSeq DEF Got
  <2> QED  BY <2>1, <2>2 DEF Off
<1>7. (N - 1) * ChunkSize \in Int /\ N * ChunkSize = (N - 1) * ChunkSize + ChunkSize
  BY <1>2
<1> HIDE DEF N, C, B
<1>8. N > 0
  <2> SUFFICES ASSUME N = 0 PROVE FALSE
    BY <1>2
  <2>1. N * ChunkSize = 0
    BY <1>2
  <2> QED  BY <1>2, <1>5, <2>1 DEF B
<1>9. N \in 1 .. N /\ N - 1 \in Nat
  BY <1>2, <1>8
<1>10. CASE C = N + 1
  <2>1. \A k \in 1 .. N : k < C
    BY <1>2, <1>10
  <2>2. \A k \in 1 .. N : Off(w, k) = ChunkSize
    BY <1>4, <2>1
  <2>3. ~(C <= N) /\ C - 1 = N
    BY <1>2, <1>10
  <2>4. 0 + N * ChunkSize + 0 = B
    BY <1>3, <1>4, <2>3
  <2>5. (N - 1) * ChunkSize + Off(w, N) = B
    <3>1. N * ChunkSize = B
      <4>1. N * ChunkSize \in Int
        BY <1>2
      <4> QED  BY <2>4, <4>1
    <3> QED  BY <1>7, <1>9, <2>2, <3>1
  <2>6. Off(w, N) > 0
    BY <1>2, <1>9, <2>2
  <2>7. \A k \in 1 .. (N - 1) : k \in 1 .. N
    BY <1>2
  <2> QED  BY <1>3, <1>8, <2>2, <2>5, <2>6, <2>7 DEF N, B
<1>11. CASE C # N + 1
  <2>1. C <= N /\ C \in 1 .. N
    BY <1>2, <1>3, <1>11
  <2>2. Off(w, C) \in Nat /\ Off(w, C) < ChunkSize
    BY <1>4, <1>6, <2>1
  <2>3. 0 + (C - 1) * ChunkSize + Off(w, C) = B
    BY <1>3, <1>4, <2>1
  <2>4. C = N
    <3> SUFFICES ASSUME C < N PROVE FALSE
      BY <1>2, <2>1
    <3>1. C * ChunkSize <= (N - 1) * ChunkSize
      BY <1>2, ChunkMultiples
    <3>2. C * ChunkSize = (C - 1) * ChunkSize + ChunkSize /\ (C - 1) * ChunkSize \in Int
      BY <1>2
    <3> DEFINE x == C * ChunkSize
               y == (C - 1) * ChunkSize
               z == (N - 1) * ChunkSize
    <3>3. x = y + ChunkSize /\ x <= z /\ z < B /\ 0 + y + Off(w, C) = B /\ y \in Int /\ z \in Int
      BY <1>5, <1>7, <2>3, <3>1, <3>2
    <3> HIDE DEF x, y, z
    <3> QED  BY <1>2, <2>2, <3>3
  <2>5. (N - 1) * ChunkSize + Off(w, N) = B /\ Off(w, N) > 0
    <3> DEFINE z == (N - 1) * ChunkSize
    <3>1. z \in Int /\ 0 + z + Off(w, N) = B /\ z < B /\ Off(w, N) \in Nat
      BY <1>5, <1>7, <2>2, <2>3, <2>4
    <3> HIDE DEF z
    <3>2. z + Off(w, N) = B /\ Off(w, N) > 0
      BY <1>2, <3>1
    <3> QED  BY <3>2 DEF z
  <2>6. \A k \in 1 .. (N - 1) : k \in 1 .. N /\ k < C
    BY <1>2, <2>4
  <2>7. \A k \in 1 .. (N - 1) : Off(w, k) = ChunkSize
    BY <1>4, <2>6
  <2> QED  BY <1>3, <1>8, <2>5, <2>7 DEF N, B
<1> QED  BY <1>10, <1>11

\* send() posts exactly what it was given, for every length of the message and
\* every way its bufferlist is cut into pieces: with one worker, and chunks that were
\* not received into and read, the ones about to be posted are full up to the last,
\* the last one is not empty, and together they hold `bytes` bytes.
THEOREM PostedBytesMatchTheorem ==
    ASSUME NEW w \in Workers, Workers = {w}
    PROVE  Spec => []PostedBytesMatch
<1>1. SendInv(w) => PostedBytesMatch
  <2> SUFFICES ASSUME SendInv(w), Clean(w), pc[w] = "post", bytes[w] > 0
               PROVE  LET last == Len(tx_buffers[w])
                      IN  /\ todo[w] = 0
                          /\ last > 0
                          /\ \A k \in 1 .. (last - 1) : offset[tx_buffers[w][k]] = ChunkSize
                          /\ offset[tx_buffers[w][last]] > 0
                          /\ (last - 1) * ChunkSize + offset[tx_buffers[w][last]] = bytes[w]
    BY DEF PostedBytesMatch
  <2> QED  BY CopiedAll DEF Got, Off
<1> QED  BY <1>1, InitSendInv, NextSendInv, PTL DEF Spec

-----------------------------------------------------------------------------
(***************************************************************************)
(* The conservation of chunks: for one worker, and for every number of     *)
(* sockets and chunks and every size of the polls and of the messages, no  *)
(* chunk is lost and none is in two places.                                *)
(***************************************************************************)

\* How many of the chunks in tx_buffers have left the free list.
Held(w) == IF pc[w] = "pop" THEN Len(tx_buffers[w]) - 1 ELSE Len(tx_buffers[w])

\* The places of Refs, one operator for each: y is a place where c is.
InChannel(c, y) == \E k \in 1 .. Len(channel) : channel[k] = c /\ y = <<"channel", 0, k>>
InSend(c, y)    == \E k \in 1 .. Len(send) : send[k] = c /\ y = <<"send", 0, k>>
InSq(c, y)      == \E s \in Sockets : \E k \in 1 .. Len(sq[s]) : sq[s][k] = c /\ y = <<"sq", s, k>>
InCq(w, c, y)   == \E k \in 1 .. Len(cq[w]) : cq[w][k].chunk = c /\ y = <<"cq", w, k>>
InWc(w, c, y)   == pc[w] \in Reaping /\ \E k \in i[w] .. n[w] : wc[k].chunk = c /\ y = <<"wc", w, k>>
InTx(w, c, y)   == \E k \in 1 .. Held(w) : tx_buffers[w][k] = c /\ y = <<"tx", w, k>>
InLeaked(c, y)  == c \in leaked /\ y = <<"leaked", 0, c>>

Place(w, c, y) ==
    \/ InChannel(c, y) \/ InSend(c, y) \/ InSq(c, y) \/ InCq(w, c, y)
    \/ InWc(w, c, y) \/ InTx(w, c, y) \/ InLeaked(c, y)

\* The first m elements of a sequence.
LEMMA SubSeqDomain ==
    ASSUME NEW S, NEW t \in Seq(S), NEW m \in Int, m <= Len(t)
    PROVE  /\ SubSeq(t, 1, m) \in Seq(S)
           /\ DOMAIN SubSeq(t, 1, m) = 1 .. m
           /\ \A k \in 1 .. m : SubSeq(t, 1, m)[k] = t[k]
<1>0. Len(t) \in Nat /\ \A k \in 1 .. Len(t) : t[k] \in S
  BY LenProperties, ElementOfSeq
<1>1. \A k \in 1 .. m : k \in 1 .. Len(t)
  BY <1>0
<1>2. \A k \in 1 .. m : t[k] \in S
  BY <1>0, <1>1
<1>3. 1 \in Int
  OBVIOUS
<1>4. /\ SubSeq(t, 1, m) \in Seq(S)
      /\ Len(SubSeq(t, 1, m)) = IF 1 <= m THEN m - 1 + 1 ELSE 0
      /\ \A k \in 1 .. (m - 1 + 1) : SubSeq(t, 1, m)[k] = t[1 + k - 1]
  BY <1>2, <1>3, SubSeqProperties
<1>5. 1 .. (IF 1 <= m THEN m - 1 + 1 ELSE 0) = 1 .. m /\ 1 .. (m - 1 + 1) = 1 .. m
  OBVIOUS
<1>6. DOMAIN SubSeq(t, 1, m) = 1 .. m
  <2>1. DOMAIN SubSeq(t, 1, m) = 1 .. Len(SubSeq(t, 1, m))
    BY <1>4, LenProperties
  <2> QED  BY <1>4, <1>5, <2>1
<1>7. \A k \in 1 .. m : 1 + k - 1 = k
  OBVIOUS
<1> QED  BY <1>4, <1>5, <1>6, <1>7

\* With one worker, Refs(c) are the places of c.
LEMMA RefsArePlaces ==
    ASSUME NEW w \in Workers, Workers = {w}, TypeInv, NEW c, NEW y
    PROVE  y \in Refs(c) <=> Place(w, c, y)
<1> DEFINE In(name, o, s) == {<<name, o, k>> : k \in {j \in DOMAIN s : s[j] = c}}
           cqs(v) == In("cq", v, [k \in DOMAIN cq[v] |-> cq[v][k].chunk])
           wcs(v) == In("wc", v, [k \in i[v] .. n[v] |-> wc[k].chunk])
           txs(v) == In("tx", v, SubSeq(tx_buffers[v], 1, Held(v)))
           sqs(s) == In("sq", s, sq[s])
           chs == In("channel", 0, channel)
           sns == In("send", 0, send)
           lks == {<<"leaked", 0, k>> : k \in leaked \cap {c}}
<1>1. Refs(c) = UNION ( {chs, sns}
          \cup {sqs(s) : s \in Sockets}
          \cup {cqs(v) : v \in Workers}
          \cup {wcs(v) : v \in {u \in Workers : pc[u] \in Reaping}}
          \cup {txs(v) : v \in Workers}
          \cup {lks} )
  BY DEF Refs, Held
<1> HIDE DEF In, cqs, wcs, txs, sqs, chs, sns, lks
<1>2. y \in Refs(c) <=>
        \/ y \in chs \/ y \in sns
        \/ \E s \in Sockets : y \in sqs(s)
        \/ y \in cqs(w)
        \/ pc[w] \in Reaping /\ y \in wcs(w)
        \/ y \in txs(w)
        \/ y \in lks
  <2>1. y \in Refs(c) <=> \E z \in {chs, sns}
          \cup {sqs(s) : s \in Sockets}
          \cup {cqs(v) : v \in Workers}
          \cup {wcs(v) : v \in {u \in Workers : pc[u] \in Reaping}}
          \cup {txs(v) : v \in Workers}
          \cup {lks} : y \in z
    BY <1>1
  <2>2. \A v : v \in Workers <=> v = w
    OBVIOUS
  <2> QED  BY <2>1, <2>2
<1>3. \A name, o, s : y \in In(name, o, s) <=> \E k \in DOMAIN s : s[k] = c /\ y = <<name, o, k>>
  BY DEF In
<1>0. /\ channel \in Seq(Chunks) /\ send \in Seq(Chunks) /\ sq \in [Sockets -> Seq(Chunks)]
      /\ cq \in [Workers -> Seq(Completion)] /\ tx_buffers \in [Workers -> Seq(Chunks)]
  BY DEF TypeInv, TypeOK, PoolTypeOK, QpTypeOK, CqTypeOK, SendTypeOK
<1>4. y \in chs <=> InChannel(c, y)
  <2>1. DOMAIN channel = 1 .. Len(channel)
    BY <1>0
  <2> QED  BY <1>3, <2>1 DEF chs, InChannel
<1>5. y \in sns <=> InSend(c, y)
  <2>1. DOMAIN send = 1 .. Len(send)
    BY <1>0
  <2> QED  BY <1>3, <2>1 DEF sns, InSend
<1>6. (\E s \in Sockets : y \in sqs(s)) <=> InSq(c, y)
  <2>1. \A s \in Sockets : DOMAIN sq[s] = 1 .. Len(sq[s])
    BY <1>0
  <2> QED  BY <1>3, <2>1 DEF sqs, InSq
<1>7. y \in cqs(w) <=> InCq(w, c, y)
  <2> DEFINE f == [k \in DOMAIN cq[w] |-> cq[w][k].chunk]
  <2>1. DOMAIN f = 1 .. Len(cq[w]) /\ \A k \in DOMAIN f : f[k] = cq[w][k].chunk
    BY <1>0
  <2>2. y \in cqs(w) <=> \E k \in DOMAIN f : f[k] = c /\ y = <<"cq", w, k>>
    BY <1>3 DEF cqs
  <2> HIDE DEF f
  <2> QED  BY <2>1, <2>2 DEF InCq
<1>8. (pc[w] \in Reaping /\ y \in wcs(w)) <=> InWc(w, c, y)
  <2> DEFINE f == [k \in i[w] .. n[w] |-> wc[k].chunk]
  <2>1. DOMAIN f = i[w] .. n[w] /\ \A k \in DOMAIN f : f[k] = wc[k].chunk
    OBVIOUS
  <2>2. y \in wcs(w) <=> \E k \in DOMAIN f : f[k] = c /\ y = <<"wc", w, k>>
    BY <1>3 DEF wcs
  <2> HIDE DEF f
  <2> QED  BY <2>1, <2>2 DEF InWc
<1>9. y \in txs(w) <=> InTx(w, c, y)
  <2> DEFINE t == tx_buffers[w]
             f == SubSeq(t, 1, Held(w))
  <2>1. t \in Seq(Chunks) /\ Len(t) \in Nat /\ Held(w) \in Int /\ Held(w) <= Len(t)
    BY <1>0, LenProperties DEF Held
  <2>2. DOMAIN f = 1 .. Held(w) /\ \A k \in DOMAIN f : f[k] = t[k]
    BY <2>1, SubSeqDomain
  <2>3. y \in txs(w) <=> \E k \in DOMAIN f : f[k] = c /\ y = <<"tx", w, k>>
    BY <1>3 DEF txs
  <2>4. \A k : t[k] = tx_buffers[w][k]
    OBVIOUS
  <2> HIDE DEF f, t
  <2> QED  BY <2>2, <2>3, <2>4 DEF InTx
<1>10. y \in lks <=> InLeaked(c, y)
  BY DEF lks, InLeaked
<1> QED  BY <1>2, <1>4, <1>5, <1>6, <1>7, <1>8, <1>9, <1>10 DEF Place

\* Every chunk has exactly one place.
Unique(w) == \A c \in Chunks : \E x : \A y : Place(w, c, y) <=> y = x

\* Outside send() nothing is held, and without empty messages what is posted was
\* taken from the list.
ChunkInv(w) ==
    /\ SendInv(w)
    /\ pc[w] \notin Sending => tx_buffers[w] = <<>>
    /\ empties = 0 => (pc[w] = "post" => bytes[w] > 0)
    /\ empties = 0 => Unique(w)
    /\ pc[w] = "status" => this[w] = wc[i[w]].chunk

\* A place tells which operator it is of.
LEMMA PlaceNames ==
    ASSUME NEW w, NEW c, NEW y
    PROVE  /\ InChannel(c, y) => y[1] = "channel"
           /\ InSend(c, y) => y[1] = "send"
           /\ InSq(c, y) => y[1] = "sq"
           /\ InCq(w, c, y) => y[1] = "cq"
           /\ InWc(w, c, y) => y[1] = "wc"
           /\ InTx(w, c, y) => y[1] = "tx"
           /\ InLeaked(c, y) => y[1] = "leaked"
  BY DEF InChannel, InSend, InSq, InCq, InWc, InTx, InLeaked

\* A step after which every chunk has the places it had before.
SameEverywhere(w) == \A c, y : Place(w, c, y)' <=> Place(w, c, y)

LEMMA SamePlaces ==
    ASSUME NEW w, Unique(w), SameEverywhere(w)
    PROVE  Unique(w)'
<1>1. ASSUME NEW c \in Chunks PROVE \E x : \A y : Place(w, c, y)' <=> y = x
  <2>1. PICK x : \A y : Place(w, c, y) <=> y = x
    BY DEF Unique
  <2>2. \A y : Place(w, c, y)' <=> y = x
    BY <2>1 DEF SameEverywhere
  <2> QED  BY <2>2
<1> QED  BY <1>1 DEF Unique

\* A step that moves no chunk.
LEMMA QuietPlaces ==
    ASSUME NEW w, Unique(w), UNCHANGED <<channel, send, sq, cq, leaked>>,
           Held(w)' = Held(w), \A k \in 1 .. Held(w) : tx_buffers'[w][k] = tx_buffers[w][k],
           \/ pc[w] \notin Reaping /\ pc'[w] \notin Reaping
           \/ (pc'[w] \in Reaping <=> pc[w] \in Reaping) /\ UNCHANGED <<i, n, wc>>
    PROVE  Unique(w)'
<1>1. ASSUME NEW c, NEW y PROVE Place(w, c, y)' <=> Place(w, c, y)
  <2>1. InChannel(c, y)' <=> InChannel(c, y)
    BY DEF InChannel
  <2>2. InSend(c, y)' <=> InSend(c, y)
    BY DEF InSend
  <2>3. InSq(c, y)' <=> InSq(c, y)
    BY DEF InSq
  <2>4. InCq(w, c, y)' <=> InCq(w, c, y)
    BY DEF InCq
  <2>5. InWc(w, c, y)' <=> InWc(w, c, y)
    BY DEF InWc
  <2>6. InTx(w, c, y)' <=> InTx(w, c, y)
    BY DEF InTx
  <2>7. InLeaked(c, y)' <=> InLeaked(c, y)
    BY DEF InLeaked
  <2> QED  BY <2>1, <2>2, <2>3, <2>4, <2>5, <2>6, <2>7 DEF Place
<1> QED  BY <1>1, SamePlaces DEF SameEverywhere

\* pop_back() takes the last chunk off the list; back() has put it in tx_buffers.
LEMMA PopBackPlaces ==
    ASSUME NEW w \in Workers, SendInv(w), Unique(w), PopBack(w)
    PROVE  Unique(w)'
<1> DEFINE L == Len(channel)
           t == tx_buffers[w]
           from == <<"channel", 0, L>>
           to   == <<"tx", w, Len(t)>>
           F(z) == IF z = from THEN to ELSE z
<1>0. /\ channel \in Seq(Chunks) /\ L \in Nat /\ t \in Seq(Chunks) /\ Len(t) \in Nat
      /\ pc \in [Workers -> Steps]
  BY SendTypes DEF SendInv, Got
<1>1. pc[w] = "pop"
  BY DEF PopBack, At
<1>2. /\ channel # <<>> /\ Len(t) >= 1 /\ FreeList
      /\ \A k \in 1 .. Len(t) : t[k] = (L - 1) + Len(t) - k + 1
  BY <1>0, <1>1 DEF SendInv, Taking, Copies, Left, Got
<1>3. L >= 1
  BY <1>0, <1>2, EmptySeq
<1>4. t[Len(t)] = channel[L]
  <2>1. t[Len(t)] = (L - 1) + Len(t) - Len(t) + 1 /\ channel[L] = L
    BY <1>0, <1>2, <1>3 DEF FreeList
  <2> QED  BY <1>0, <2>1
<1>5. /\ channel' = SubSeq(channel, 1, L - 1)
      /\ UNCHANGED <<send, sq, cq, leaked, tx_buffers, i, n, wc>>
      /\ pc' = [pc EXCEPT ![w] = IF Len(t) = NumBuffers(bytes[w]) THEN "fill" ELSE "back"]
  BY <1>2 DEF PopBack, notifyVars, qpVars, sendVars
<1>6. pc'[w] # "pop" /\ pc[w] \notin Reaping /\ pc'[w] \notin Reaping
  BY <1>0, <1>1, <1>5 DEF Reaping
<1>7. Len(channel') = L - 1 /\ \A k \in 1 .. (L - 1) : channel'[k] = channel[k]
  <2>1. L - 1 \in Int /\ L - 1 <= Len(channel) /\ L - 1 \in Nat
    BY <1>0, <1>3
  <2>2. /\ channel' \in Seq(Chunks) /\ DOMAIN channel' = 1 .. (L - 1)
        /\ \A k \in 1 .. (L - 1) : channel'[k] = channel[k]
    BY <1>0, <1>5, <2>1, SubSeqDomain
  <2>3. Len(channel') = L - 1
    BY <2>1, <2>2
  <2> QED  BY <2>2, <2>3
<1>8. Held(w) = Len(t) - 1 /\ Held(w)' = Len(t)
  BY <1>1, <1>5, <1>6 DEF Held
<1>9. ASSUME NEW c, NEW y
      PROVE  Place(w, c, y)' <=> \E z : Place(w, c, z) /\ y = F(z)
  <2>1. \A z : InChannel(c, z)' <=> InChannel(c, z) /\ z # from
    <3>1. \A k \in 1 .. L : k \in 1 .. (L - 1) <=> k # L
      BY <1>0, <1>3
    <3>2. \A k \in 1 .. (L - 1) : k \in 1 .. L
      BY <1>0
    <3> HIDE DEF L
    <3>3. \A k : <<"channel", 0, k>> = from <=> k = L
      OBVIOUS
    <3> QED  BY <1>7, <3>1, <3>2, <3>3 DEF InChannel, L
  <2>2. InChannel(c, from) <=> channel[L] = c
    BY <1>0, <1>3 DEF InChannel
  <2>3. InTx(w, c, y)' <=> InTx(w, c, y) \/ (channel[L] = c /\ y = to)
    <3>1. \A k : k \in 1 .. Len(t) <=> k \in 1 .. (Len(t) - 1) \/ k = Len(t)
      BY <1>0, <1>2
    <3> HIDE DEF L
    <3> QED  BY <1>4, <1>5, <1>8, <3>1 DEF InTx
  <2>4. /\ InSend(c, y)' <=> InSend(c, y)
        /\ InSq(c, y)' <=> InSq(c, y)
        /\ InCq(w, c, y)' <=> InCq(w, c, y)
        /\ InWc(w, c, y)' <=> InWc(w, c, y)
        /\ InLeaked(c, y)' <=> InLeaked(c, y)
    BY <1>1, <1>5, <1>6 DEF InSend, InSq, InCq, InWc, InLeaked
  <2>5. from[1] = "channel"
    OBVIOUS
  <2> HIDE DEF from, to, L
  <2>6. ASSUME Place(w, c, y)' PROVE \E z : Place(w, c, z) /\ y = F(z)
    <3>1. CASE channel[L] = c /\ y = to
      BY <2>2, <3>1 DEF Place
    <3>2. CASE ~(channel[L] = c /\ y = to)
      <4>1. Place(w, c, y) /\ y # from
        BY <2>1, <2>3, <2>4, <2>5, <2>6, <3>2, PlaceNames DEF Place
      <4> QED  BY <4>1
    <3> QED  BY <3>1, <3>2
  <2>7. ASSUME NEW z, Place(w, c, z), y = F(z) PROVE Place(w, c, y)'
    <3>1. CASE z = from
      <4>1. InChannel(c, z)
        BY <2>5, <2>7, <3>1, PlaceNames DEF Place
      <4> QED  BY <2>2, <2>3, <2>7, <3>1, <4>1 DEF Place
    <3>2. CASE z # from
      BY <2>1, <2>3, <2>4, <2>7, <3>2 DEF Place
    <3> QED  BY <3>1, <3>2
  <2> QED  BY <2>6, <2>7
<1> HIDE DEF F
<1>10. ASSUME NEW c \in Chunks PROVE \E x : \A y : Place(w, c, y)' <=> y = x
  <2>1. PICK x : \A y : Place(w, c, y) <=> y = x
    BY DEF Unique
  <2>2. PICK f : f = F(x)
    OBVIOUS
  <2>3. \A y : Place(w, c, y)' <=> y = f
    BY <1>9, <2>1, <2>2
  <2> QED  BY <2>3
<1> QED  BY <1>10 DEF Unique

\* ibv_post_send moves the first m chunks of tx_buffers to the send queue and drops
\* the others.
Posts(w, m) ==
    /\ pc[w] = "post" /\ pc'[w] = "loop" /\ tx_buffers'[w] = <<>>
    /\ m \in 0 .. Len(tx_buffers[w])
    /\ sq' = [sq EXCEPT ![sock[w]] = @ \o SubSeq(tx_buffers[w], 1, m)]
    /\ leaked' = leaked \cup {tx_buffers[w][j] : j \in (m + 1) .. Len(tx_buffers[w])}
    /\ UNCHANGED <<channel, send, cq>>

LEMMA PostPlaces ==
    ASSUME NEW w \in Workers, TypeInv, Unique(w), NEW m, Posts(w, m)
    PROVE  Unique(w)'
<1> DEFINE S == sock[w]
           t == tx_buffers[w]
           u == SubSeq(t, 1, m)
           l == Len(sq[S])
           to(k) == IF k <= m THEN <<"sq", S, l + k>> ELSE <<"leaked", 0, t[k]>>
           F(z)  == IF z[1] = "tx" THEN to(z[3]) ELSE z
<1>0. /\ sq \in [Sockets -> Seq(Chunks)] /\ S \in Sockets /\ t \in Seq(Chunks)
  BY DEF TypeInv, TypeOK, QpTypeOK, SendTypeOK
<1>1. sq[S] \in Seq(Chunks) /\ l \in Nat /\ Len(t) \in Nat /\ m \in Nat /\ m <= Len(t)
  BY <1>0, LenProperties DEF Posts
<1>2. u \in Seq(Chunks) /\ Len(u) = m /\ \A k \in 1 .. m : u[k] = t[k]
  <2>1. m \in Int /\ m <= Len(t)
    BY <1>1
  <2>2. u \in Seq(Chunks) /\ DOMAIN u = 1 .. m /\ \A k \in 1 .. m : u[k] = t[k]
    BY <1>0, <2>1, SubSeqDomain
  <2>3. Len(u) = m
    BY <1>1, <2>2
  <2> QED  BY <2>2, <2>3
<1> HIDE DEF u, l, S
<1>3. /\ \A s \in Sockets : s # S => sq'[s] = sq[s]
      /\ sq'[S] = sq[S] \o u
  BY <1>0 DEF u, S, Posts
<1>4. /\ Len(sq'[S]) = l + m
      /\ \A k \in 1 .. l : sq'[S][k] = sq[S][k]
      /\ \A k \in 1 .. m : sq'[S][l + k] = t[k]
  <2>1. /\ Len(sq'[S]) = l + Len(u)
        /\ \A k \in 1 .. l + Len(u) :
              sq'[S][k] = IF k <= l THEN sq[S][k] ELSE u[k - l]
    <3> DEFINE a == sq[S]
    <3>1. a \in Seq(Chunks)
      BY <1>1
    <3> HIDE DEF a
    <3>2. /\ Len(a \o u) = Len(a) + Len(u)
          /\ \A k \in 1 .. Len(a) + Len(u) : (a \o u)[k] = IF k <= Len(a) THEN a[k] ELSE u[k - Len(a)]
      BY <1>2, <3>1, ConcatProperties
    <3> QED  BY <1>3, <3>2 DEF a, l
  <2>2. Len(sq'[S]) = l + m
    BY <1>2, <2>1
  <2>3. ASSUME NEW k \in 1 .. l PROVE sq'[S][k] = sq[S][k]
    <3>1. k \in 1 .. l + Len(u) /\ k <= l
      BY <1>1, <1>2
    <3> QED  BY <2>1, <3>1
  <2>4. ASSUME NEW k \in 1 .. m PROVE sq'[S][l + k] = t[k]
    <3> DEFINE j == l + k
    <3>1. j \in 1 .. l + Len(u) /\ ~(j <= l) /\ j - l = k
      BY <1>1, <1>2
    <3> HIDE DEF j
    <3>2. sq'[S][j] = u[j - l]
      BY <2>1, <3>1
    <3> QED  BY <1>2, <3>1, <3>2 DEF j
  <2> QED  BY <2>2, <2>3, <2>4
<1>5. Held(w) = Len(t) /\ Held(w)' = 0
  BY DEF Held, Posts
<1> HIDE DEF t
<1>6. ASSUME NEW c, NEW y
      PROVE  Place(w, c, y)' <=> \E z : Place(w, c, z) /\ y = F(z)
  <2>1. /\ InChannel(c, y)' <=> InChannel(c, y)
        /\ InSend(c, y)' <=> InSend(c, y)
        /\ InCq(w, c, y)' <=> InCq(w, c, y)
        /\ ~InWc(w, c, y)' /\ \A z : ~InWc(w, c, z)
    BY DEF InChannel, InSend, InCq, InWc, Reaping, Posts
  <2>2. ~InTx(w, c, y)'
    BY <1>5 DEF InTx
  <2>3. \A z : InTx(w, c, z) <=> \E k \in 1 .. Len(t) : t[k] = c /\ z = <<"tx", w, k>>
    BY <1>5 DEF InTx, t
  <2>4. InSq(c, y)' <=> InSq(c, y) \/ \E k \in 1 .. m : t[k] = c /\ y = <<"sq", S, l + k>>
    <3>1. ASSUME InSq(c, y)' PROVE InSq(c, y) \/ \E k \in 1 .. m : t[k] = c /\ y = <<"sq", S, l + k>>
      <4>0. PICK s \in Sockets : \E k \in 1 .. Len(sq'[s]) : sq'[s][k] = c /\ y = <<"sq", s, k>>
        BY <3>1 DEF InSq
      <4>1. PICK k \in 1 .. Len(sq'[s]) : sq'[s][k] = c /\ y = <<"sq", s, k>>
        BY <4>0
      <4>2. CASE s # S
        BY <1>3, <4>1, <4>2 DEF InSq
      <4>3. CASE s = S /\ k <= l
        <5>1. k \in 1 .. l
          BY <1>1, <4>3
        <5> QED  BY <1>4, <4>1, <4>3, <5>1 DEF InSq, l
      <4>4. CASE s = S /\ ~(k <= l)
        <5>1. k \in 1 .. (l + m)
          BY <1>4, <4>4
        <5>2. k - l \in 1 .. m /\ l + (k - l) = k
          BY <1>1, <4>4, <5>1
        <5> QED  BY <1>4, <4>1, <4>4, <5>2
      <4> QED  BY <4>2, <4>3, <4>4
    <3>2. ASSUME InSq(c, y) PROVE InSq(c, y)'
      <4>0. PICK s \in Sockets : \E k \in 1 .. Len(sq[s]) : sq[s][k] = c /\ y = <<"sq", s, k>>
        BY <3>2 DEF InSq
      <4>1. PICK k \in 1 .. Len(sq[s]) : sq[s][k] = c /\ y = <<"sq", s, k>>
        BY <4>0
      <4>2. CASE s # S
        BY <1>3, <4>1, <4>2 DEF InSq
      <4>3. CASE s = S
        <5>1. k \in 1 .. l
          BY <4>3 DEF l
        <5>2. k \in 1 .. (l + m)
          BY <1>1, <5>1
        <5> QED  BY <1>4, <4>1, <4>3, <5>1, <5>2 DEF InSq
      <4> QED  BY <4>2, <4>3
    <3>3. ASSUME NEW k \in 1 .. m, t[k] = c, y = <<"sq", S, l + k>> PROVE InSq(c, y)'
      <4>1. l + k \in 1 .. (l + m)
        BY <1>1
      <4> QED  BY <1>0, <1>4, <3>3, <4>1 DEF InSq
    <3> QED  BY <3>1, <3>2, <3>3
  <2>5. InLeaked(c, y)' <=>
          InLeaked(c, y) \/ \E k \in (m + 1) .. Len(t) : t[k] = c /\ y = <<"leaked", 0, t[k]>>
    BY DEF InLeaked, t, Posts
  <2>6. ASSUME Place(w, c, y)' PROVE \E z : Place(w, c, z) /\ y = F(z)
    <3>1. CASE \E k \in 1 .. m : t[k] = c /\ y = <<"sq", S, l + k>>
      <4>1. PICK k \in 1 .. m : t[k] = c /\ y = <<"sq", S, l + k>>
        BY <3>1
      <4>2. k \in 1 .. Len(t) /\ k <= m
        BY <1>1
      <4>3. InTx(w, c, <<"tx", w, k>>) /\ y = F(<<"tx", w, k>>)
        BY <2>3, <4>1, <4>2
      <4> QED  BY <4>3 DEF Place
    <3>2. CASE \E k \in (m + 1) .. Len(t) : t[k] = c /\ y = <<"leaked", 0, t[k]>>
      <4>1. PICK k \in (m + 1) .. Len(t) : t[k] = c /\ y = <<"leaked", 0, t[k]>>
        BY <3>2
      <4>2. k \in 1 .. Len(t) /\ ~(k <= m)
        BY <1>1
      <4>3. InTx(w, c, <<"tx", w, k>>) /\ y = F(<<"tx", w, k>>)
        BY <2>3, <4>1, <4>2
      <4> QED  BY <4>3 DEF Place
    <3>3. CASE InChannel(c, y) \/ InSend(c, y) \/ InCq(w, c, y) \/ InSq(c, y) \/ InLeaked(c, y)
      <4>1. Place(w, c, y)
        BY <3>3 DEF Place
      <4>2. y[1] # "tx"
        BY <3>3, PlaceNames
      <4> QED  BY <4>1, <4>2
    <3> QED  BY <2>1, <2>2, <2>4, <2>5, <2>6, <3>1, <3>2, <3>3 DEF Place
  <2>7. ASSUME NEW z, Place(w, c, z), y = F(z) PROVE Place(w, c, y)'
    <3>1. CASE InTx(w, c, z)
      <4>1. PICK k \in 1 .. Len(t) : t[k] = c /\ z = <<"tx", w, k>>
        BY <2>3, <3>1
      <4>2. y = to(k)
        BY <2>7, <4>1
      <4>3. CASE k <= m
        <5>1. k \in 1 .. m
          BY <1>1, <4>3
        <5> QED  BY <2>4, <4>1, <4>2, <4>3, <5>1 DEF Place
      <4>4. CASE ~(k <= m)
        <5>1. k \in (m + 1) .. Len(t)
          BY <1>1, <4>4
        <5> QED  BY <2>5, <4>1, <4>2, <4>4, <5>1 DEF Place
      <4> QED  BY <4>3, <4>4
    <3>2. CASE ~InTx(w, c, z)
      <4>1. InChannel(c, z) \/ InSend(c, z) \/ InCq(w, c, z) \/ InSq(c, z) \/ InLeaked(c, z)
        BY <2>1, <2>7, <3>2 DEF Place
      <4>2. z[1] # "tx"
        BY <4>1, PlaceNames
      <4>3. y = z
        BY <2>7, <4>2
      <4> QED  BY <2>1, <2>4, <2>5, <4>1, <4>3 DEF Place
    <3> QED  BY <3>1, <3>2
  <2> QED  BY <2>6, <2>7
<1> HIDE DEF F, to
<1>7. ASSUME NEW c \in Chunks PROVE \E x : \A y : Place(w, c, y)' <=> y = x
  <2>1. PICK x : \A y : Place(w, c, y) <=> y = x
    BY DEF Unique
  <2>2. PICK f : f = F(x)
    OBVIOUS
  <2>3. \A y : Place(w, c, y)' <=> y = f
    BY <1>6, <2>1, <2>2
  <2> QED  BY <2>3
<1> QED  BY <1>7 DEF Unique

\* A completion takes the first request of s to the end of the completion queue.
LEMMA CompletePlaces ==
    ASSUME NEW w \in Workers, Workers = {w}, TypeInv, Unique(w), NEW s \in Sockets, Complete(s)
    PROVE  Unique(w)'
<1> DEFINE q == sq[s]
           l == Len(cq[w])
           to   == <<"cq", w, l + 1>>
           F(z) == IF z[1] = "sq" /\ z[2] = s
                   THEN IF z[3] = 1 THEN to ELSE <<"sq", s, z[3] - 1>>
                   ELSE z
<1>0. /\ sq \in [Sockets -> Seq(Chunks)] /\ cq \in [Workers -> Seq(Completion)]
      /\ q \in Seq(Chunks) /\ Len(q) \in Nat /\ cq[w] \in Seq(Completion) /\ l \in Nat
  <2>1. sq \in [Sockets -> Seq(Chunks)] /\ cq \in [Workers -> Seq(Completion)]
    BY DEF TypeInv, TypeOK, QpTypeOK, CqTypeOK
  <2> QED  BY <2>1, LenProperties
<1>1. TxCq[s] = w /\ q # <<>>
  BY TxPathAssumption DEF Complete
<1>2. Len(q) >= 1
  BY <1>0, <1>1, EmptySeq
<1>3. /\ sq' = [sq EXCEPT ![s] = Tail(q)]
      /\ cq' = [cq EXCEPT ![w] = Append(cq[w], [chunk |-> Head(q), ok |-> s \notin failed])]
      /\ UNCHANGED <<channel, send, leaked, tx_buffers, pc, i, n, wc>>
  BY <1>1 DEF Complete, poolVars, sendVars
<1>4. /\ \A r \in Sockets : r # s => sq'[r] = sq[r]
      /\ Len(sq'[s]) = Len(q) - 1
      /\ \A k \in 1 .. (Len(q) - 1) : sq'[s][k] = q[k + 1]
  <2>1. sq'[s] = Tail(q) /\ \A r \in Sockets : r # s => sq'[r] = sq[r]
    BY <1>0, <1>3
  <2>2. Len(Tail(q)) = Len(q) - 1 /\ \A k \in 1 .. Len(Tail(q)) : Tail(q)[k] = q[k + 1]
    BY <1>0, <1>1, HeadTailProperties
  <2> QED  BY <2>1, <2>2
<1>5. /\ Len(cq'[w]) = l + 1
      /\ \A k \in 1 .. l : cq'[w][k] = cq[w][k]
      /\ cq'[w][l + 1].chunk = q[1]
  <2> DEFINE e == [chunk |-> Head(q), ok |-> s \notin failed]
  <2>1. Head(q) = q[1] /\ q[1] \in Chunks
    BY <1>0, <1>1, <1>2, ElementOfSeq
  <2>2. e \in Completion /\ e.chunk = q[1]
    BY <2>1 DEF Completion
  <2> HIDE DEF e
  <2>3. cq'[w] = Append(cq[w], e)
    BY <1>0, <1>3 DEF e
  <2>4. /\ Len(Append(cq[w], e)) = l + 1
        /\ \A k \in 1 .. l : Append(cq[w], e)[k] = cq[w][k]
        /\ Append(cq[w], e)[l + 1] = e
    BY <1>0, <2>2, AppendProperties
  <2> QED  BY <2>2, <2>3, <2>4
<1> HIDE DEF q, l
<1>6. ASSUME NEW c, NEW y
      PROVE  Place(w, c, y)' <=> \E z : Place(w, c, z) /\ y = F(z)
  <2>1. /\ InChannel(c, y)' <=> InChannel(c, y)
        /\ InSend(c, y)' <=> InSend(c, y)
        /\ InWc(w, c, y)' <=> InWc(w, c, y)
        /\ InTx(w, c, y)' <=> InTx(w, c, y)
        /\ InLeaked(c, y)' <=> InLeaked(c, y)
    BY <1>3 DEF InChannel, InSend, InWc, InTx, InLeaked, Held
  <2>2. InCq(w, c, y)' <=> InCq(w, c, y) \/ (q[1] = c /\ y = to)
    <3>1. \A k : k \in 1 .. (l + 1) <=> k \in 1 .. l \/ k = l + 1
      BY <1>0
    <3>2. InCq(w, c, y)' <=> \E k \in 1 .. (l + 1) : cq'[w][k].chunk = c /\ y = <<"cq", w, k>>
      BY <1>5 DEF InCq
    <3>3. InCq(w, c, y) <=> \E k \in 1 .. l : cq[w][k].chunk = c /\ y = <<"cq", w, k>>
      BY DEF InCq, l
    <3> QED  BY <1>5, <3>1, <3>2, <3>3
  <2>3. \A z : InSq(c, z) => \E r \in Sockets : z[1] = "sq" /\ z[2] = r
    BY DEF InSq
  <2>4. \A z : z[2] # s => (InSq(c, z)' <=> InSq(c, z))
    BY <1>4 DEF InSq
  <2>5. \A z : z[2] = s =>
          (InSq(c, z) <=> \E k \in 1 .. Len(q) : q[k] = c /\ z = <<"sq", s, k>>)
    BY DEF InSq, q
  <2>6. \A z : z[2] = s =>
          (InSq(c, z)' <=> \E k \in 1 .. (Len(q) - 1) : q[k + 1] = c /\ z = <<"sq", s, k>>)
    BY <1>4 DEF InSq
  <2>7. ASSUME Place(w, c, y)' PROVE \E z : Place(w, c, z) /\ y = F(z)
    <3>1. CASE q[1] = c /\ y = to
      <4> DEFINE z == <<"sq", s, 1>>
      <4>1. z[1] = "sq" /\ z[2] = s /\ z[3] = 1
        OBVIOUS
      <4>2. InSq(c, z)
        <5>1. 1 \in 1 .. Len(q)
          BY <1>0, <1>2
        <5> QED  BY <2>5, <3>1, <4>1, <5>1
      <4> QED  BY <3>1, <4>1, <4>2 DEF Place
    <3>2. CASE InSq(c, y)' /\ y[2] = s
      <4>1. PICK k \in 1 .. (Len(q) - 1) : q[k + 1] = c /\ y = <<"sq", s, k>>
        BY <2>6, <3>2
      <4> DEFINE z == <<"sq", s, k + 1>>
      <4>2. z[1] = "sq" /\ z[2] = s /\ z[3] = k + 1
        OBVIOUS
      <4>3. k + 1 \in 1 .. Len(q) /\ k + 1 # 1 /\ (k + 1) - 1 = k
        BY <1>0
      <4>4. InSq(c, z)
        BY <2>5, <4>1, <4>2, <4>3
      <4>5. F(z) = <<"sq", s, k>>
        BY <4>2, <4>3
      <4> QED  BY <4>1, <4>4, <4>5 DEF Place
    <3>3. CASE InChannel(c, y) \/ InSend(c, y) \/ InCq(w, c, y) \/ InWc(w, c, y) \/ InTx(w, c, y)
                 \/ InLeaked(c, y)
      <4>1. Place(w, c, y)
        BY <3>3 DEF Place
      <4>2. y[1] # "sq"
        BY <3>3, PlaceNames
      <4> QED  BY <4>1, <4>2
    <3>4. CASE InSq(c, y)' /\ y[2] # s
      <4>1. Place(w, c, y)
        BY <2>4, <3>4 DEF Place
      <4> QED  BY <3>4, <4>1
    <3> QED  BY <2>1, <2>2, <2>7, <3>1, <3>2, <3>3, <3>4 DEF Place
  <2>8. ASSUME NEW z, Place(w, c, z), y = F(z) PROVE Place(w, c, y)'
    <3>1. CASE InSq(c, z) /\ z[2] = s
      <4>1. PICK k \in 1 .. Len(q) : q[k] = c /\ z = <<"sq", s, k>>
        BY <2>5, <3>1
      <4>2. z[1] = "sq" /\ z[2] = s /\ z[3] = k
        BY <4>1
      <4>3. CASE k = 1
        <5>1. y = to /\ q[1] = c
          BY <2>8, <4>1, <4>2, <4>3
        <5> QED  BY <2>2, <5>1 DEF Place
      <4>4. CASE k # 1
        <5>1. y = <<"sq", s, k - 1>>
          BY <2>8, <4>2, <4>4
        <5>2. k - 1 \in 1 .. (Len(q) - 1) /\ (k - 1) + 1 = k
          BY <1>0, <4>4
        <5>3. y[2] = s /\ q[(k - 1) + 1] = c
          BY <4>1, <5>1, <5>2
        <5>4. InSq(c, y)'
          BY <2>6, <5>1, <5>2, <5>3
        <5> QED  BY <5>4 DEF Place
      <4> QED  BY <4>3, <4>4
    <3>2. CASE InSq(c, z) /\ z[2] # s
      BY <2>4, <2>8, <3>2 DEF Place
    <3>3. CASE ~InSq(c, z)
      <4>1. z[1] # "sq"
        BY <2>8, <3>3, PlaceNames DEF Place
      <4>2. y = z
        BY <2>8, <4>1
      <4> QED  BY <2>1, <2>2, <2>8, <3>3, <4>2 DEF Place
    <3> QED  BY <3>1, <3>2, <3>3
  <2> QED  BY <2>7, <2>8
<1> HIDE DEF F, to
<1>7. ASSUME NEW c \in Chunks PROVE \E x : \A y : Place(w, c, y)' <=> y = x
  <2>1. PICK x : \A y : Place(w, c, y) <=> y = x
    BY DEF Unique
  <2>2. PICK f : f = F(x)
    OBVIOUS
  <2>3. \A y : Place(w, c, y)' <=> y = f
    BY <1>6, <2>1, <2>2
  <2> QED  BY <2>3
<1> QED  BY <1>7 DEF Unique

\* poll_cq moves the first completions into the static array.
LEMMA PollPlaces ==
    ASSUME NEW w \in Workers, TypeInv, Unique(w), PollCq(w)
    PROVE  Unique(w)'
<1> DEFINE q == cq[w]
           got == IF Len(q) < MAX_COMPLETIONS THEN Len(q) ELSE MAX_COMPLETIONS
           F(z) == IF z[1] = "cq"
                   THEN IF z[3] <= got THEN <<"wc", w, z[3]>> ELSE <<"cq", w, z[3] - got>>
                   ELSE z
<1>0. /\ cq \in [Workers -> Seq(Completion)] /\ pc \in [Workers -> Steps]
      /\ i \in [Workers -> 1 .. (MAX_COMPLETIONS + 1)] /\ n \in [Workers -> 0 .. MAX_COMPLETIONS]
      /\ DOMAIN wc = 1 .. MAX_COMPLETIONS
  BY DEF TypeInv, TypeOK, CqTypeOK, ReapTypeOK
<1>1. /\ q \in Seq(Completion) /\ Len(q) \in Nat /\ MAX_COMPLETIONS \in Nat \ {0}
      /\ got \in Nat /\ got <= Len(q) /\ got <= MAX_COMPLETIONS
  <2>1. q \in Seq(Completion) /\ Len(q) \in Nat /\ MAX_COMPLETIONS \in Nat \ {0}
    BY <1>0, LenProperties, TxPathAssumption
  <2> HIDE DEF q
  <2> QED  BY <2>1
<1> HIDE DEF got
<1>2. /\ pc[w] = "poll" /\ UNCHANGED <<channel, send, sq, leaked, tx_buffers>>
      /\ i' = [i EXCEPT ![w] = 1] /\ n' = [n EXCEPT ![w] = got]
  BY DEF PollCq, At, poolVars, qpVars, sendVars, got
<1>3. CASE got = 0
  <2>1. pc' = [pc EXCEPT ![w] = AfterEmptyPoll(w)] /\ cq' = cq
    <3>1. /\ pc' = [pc EXCEPT ![w] = AfterEmptyPoll(w)]
          /\ cq' = [cq EXCEPT ![w] = SubSeq(q, got + 1, Len(q))]
      BY <1>3 DEF PollCq, got
    <3>2. Len(q) = 0
      BY <1>1, <1>3 DEF got
    <3>3. q = <<>>
      BY <1>1, <3>2, EmptySeq
    <3>4. SubSeq(q, got + 1, Len(q)) = q
      BY <1>3, <3>2, <3>3
    <3> QED  BY <1>0, <3>1, <3>4
  <2>2. pc'[w] \notin Reaping /\ pc'[w] # "pop" /\ pc[w] \notin Reaping
    BY <1>0, <1>2, <2>1 DEF AfterEmptyPoll, Reaping
  <2>3. Held(w)' = Held(w)
    BY <1>2, <2>2 DEF Held
  <2> QED  BY <1>2, <2>1, <2>2, <2>3, QuietPlaces
<1>4. CASE got # 0
  <2>1. /\ cq' = [cq EXCEPT ![w] = SubSeq(q, got + 1, Len(q))]
        /\ wc' = [k \in DOMAIN wc |-> IF k <= got THEN q[k] ELSE wc[k]]
        /\ pc' = [pc EXCEPT ![w] = "reap"]
    BY <1>4 DEF PollCq, Polled, got
  <2>2. pc'[w] = "reap" /\ i'[w] = 1 /\ n'[w] = got
    BY <1>0, <1>2, <2>1
  <2>3. \A k \in 1 .. got : wc'[k] = q[k]
    <3>1. \A k \in 1 .. got : k \in 1 .. MAX_COMPLETIONS /\ k <= got
      BY <1>1
    <3> QED  BY <1>0, <2>1, <3>1
  <2>4. /\ Len(cq'[w]) = Len(q) - got
        /\ \A k \in 1 .. (Len(q) - got) : cq'[w][k] = q[got + k]
    <3> DEFINE r == SubSeq(q, got + 1, Len(q))
    <3>1. cq'[w] = r
      BY <1>0, <2>1
    <3>2. got + 1 \in Int /\ Len(q) \in Int /\ \A k \in (got + 1) .. Len(q) : k \in 1 .. Len(q)
      BY <1>1
    <3>3. \A k \in (got + 1) .. Len(q) : q[k] \in Completion
      BY <1>1, <3>2, ElementOfSeq
    <3>4. /\ Len(r) = IF got + 1 <= Len(q) THEN Len(q) - (got + 1) + 1 ELSE 0
          /\ \A k \in 1 .. Len(q) - (got + 1) + 1 : r[k] = q[(got + 1) + k - 1]
      BY <3>2, <3>3, SubSeqProperties
    <3> HIDE DEF r, q
    <3>5. /\ (IF got + 1 <= Len(q) THEN Len(q) - (got + 1) + 1 ELSE 0) = Len(q) - got
          /\ Len(q) - (got + 1) + 1 = Len(q) - got
      BY <1>1
    <3>6. Len(r) = Len(q) - got
      BY <3>4, <3>5
    <3>7. ASSUME NEW k \in 1 .. (Len(q) - got) PROVE r[k] = q[got + k]
      <4>1. k \in 1 .. Len(q) - (got + 1) + 1 /\ (got + 1) + k - 1 = got + k
        BY <1>1
      <4>2. r[k] = q[(got + 1) + k - 1]
        BY <3>4, <4>1
      <4> QED  BY <4>1, <4>2
    <3> QED  BY <3>1, <3>6, <3>7
  <2>5. Held(w)' = Held(w)
    BY <1>2, <2>2 DEF Held
  <2>6. ASSUME NEW c, NEW y
        PROVE  Place(w, c, y)' <=> \E z : Place(w, c, z) /\ y = F(z)
    <3>1. /\ InChannel(c, y)' <=> InChannel(c, y)
          /\ InSend(c, y)' <=> InSend(c, y)
          /\ InSq(c, y)' <=> InSq(c, y)
          /\ InTx(w, c, y)' <=> InTx(w, c, y)
          /\ InLeaked(c, y)' <=> InLeaked(c, y)
          /\ \A z : ~InWc(w, c, z)
      BY <1>2, <2>5 DEF InChannel, InSend, InSq, InTx, InLeaked, InWc, Reaping
    <3>2. InWc(w, c, y)' <=> \E k \in 1 .. got : q[k].chunk = c /\ y = <<"wc", w, k>>
      <4>1. InWc(w, c, y)' <=> \E k \in 1 .. got : wc'[k].chunk = c /\ y = <<"wc", w, k>>
        BY <2>2 DEF InWc, Reaping
      <4> QED  BY <2>3, <4>1
    <3>3. InCq(w, c, y)' <=>
            \E k \in 1 .. (Len(q) - got) : q[got + k].chunk = c /\ y = <<"cq", w, k>>
      BY <2>4 DEF InCq
    <3>4. \A z : InCq(w, c, z) <=> \E k \in 1 .. Len(q) : q[k].chunk = c /\ z = <<"cq", w, k>>
      BY DEF InCq
    <3> HIDE DEF q
    <3>5. ASSUME Place(w, c, y)' PROVE \E z : Place(w, c, z) /\ y = F(z)
      <4>1. CASE InWc(w, c, y)'
        <5>1. PICK k \in 1 .. got : q[k].chunk = c /\ y = <<"wc", w, k>>
          BY <3>2, <4>1
        <5> DEFINE z == <<"cq", w, k>>
        <5>2. z[1] = "cq" /\ z[3] = k /\ k <= got /\ k \in 1 .. Len(q)
          BY <1>1
        <5>3. InCq(w, c, z)
          BY <3>4, <5>1, <5>2
        <5>4. F(z) = y
          BY <5>1, <5>2
        <5> QED  BY <5>3, <5>4 DEF Place
      <4>2. CASE InCq(w, c, y)'
        <5>1. PICK k \in 1 .. (Len(q) - got) : q[got + k].chunk = c /\ y = <<"cq", w, k>>
          BY <3>3, <4>2
        <5> DEFINE z == <<"cq", w, got + k>>
        <5>2. z[1] = "cq" /\ z[3] = got + k
          OBVIOUS
        <5>3. ~(got + k <= got) /\ got + k \in 1 .. Len(q) /\ (got + k) - got = k
          BY <1>1
        <5>4. InCq(w, c, z)
          BY <3>4, <5>1, <5>3
        <5>5. F(z) = y
          BY <5>1, <5>2, <5>3
        <5> QED  BY <5>4, <5>5 DEF Place
      <4>3. CASE InChannel(c, y) \/ InSend(c, y) \/ InSq(c, y) \/ InTx(w, c, y) \/ InLeaked(c, y)
        <5>1. Place(w, c, y)
          BY <4>3 DEF Place
        <5>2. y[1] # "cq"
          BY <4>3, PlaceNames
        <5> QED  BY <5>1, <5>2
      <4> QED  BY <3>1, <3>5, <4>1, <4>2, <4>3 DEF Place
    <3>6. ASSUME NEW z, Place(w, c, z), y = F(z) PROVE Place(w, c, y)'
      <4>1. CASE InCq(w, c, z)
        <5>1. PICK k \in 1 .. Len(q) : q[k].chunk = c /\ z = <<"cq", w, k>>
          BY <3>4, <4>1
        <5>2. z[1] = "cq" /\ z[3] = k
          BY <5>1
        <5>3. CASE k <= got
          <6>1. y = <<"wc", w, k>> /\ k \in 1 .. got
            BY <1>1, <3>6, <5>2, <5>3
          <6> QED  BY <3>2, <5>1, <6>1 DEF Place
        <5>4. CASE ~(k <= got)
          <6>1. y = <<"cq", w, k - got>>
            BY <3>6, <5>2, <5>4
          <6>2. k - got \in 1 .. (Len(q) - got) /\ got + (k - got) = k
            BY <1>1, <5>4
          <6>3. q[got + (k - got)].chunk = c
            BY <5>1, <6>2
          <6> QED  BY <3>3, <6>1, <6>2, <6>3 DEF Place
        <5> QED  BY <5>3, <5>4
      <4>2. CASE ~InCq(w, c, z)
        <5>1. z[1] # "cq"
          BY <3>6, <4>2, PlaceNames DEF Place
        <5>2. y = z
          BY <3>6, <5>1
        <5> QED  BY <3>1, <3>6, <4>2, <5>2 DEF Place
      <4> QED  BY <4>1, <4>2
    <3> QED  BY <3>5, <3>6
  <2> HIDE DEF F, q
  <2>7. ASSUME NEW c \in Chunks PROVE \E x : \A y : Place(w, c, y)' <=> y = x
    <3>1. PICK x : \A y : Place(w, c, y) <=> y = x
      BY DEF Unique
    <3>2. PICK f : f = F(x)
      OBVIOUS
    <3>3. \A y : Place(w, c, y)' <=> y = f
      BY <2>6, <3>1, <3>2
    <3> QED  BY <3>3
  <2> QED  BY <2>7 DEF Unique
<1> QED  BY <1>3, <1>4

\* One turn of the handler: the chunk of wc[i] goes to the list of `send`.
LEMMA ReapPlaces ==
    ASSUME NEW w \in Workers, TypeInv, Unique(w), this[w] = wc[i[w]].chunk, ReapEnd(w)
    PROVE  Unique(w)'
<1> DEFINE j == i[w]
           l == Len(send)
           e == wc[j]
           from == <<"wc", w, j>>
           to   == <<"send", 0, l + 1>>
           F(z) == IF z = from THEN to ELSE z
<1>0. /\ send \in Seq(Chunks) /\ l \in Nat /\ i \in [Workers -> 1 .. (MAX_COMPLETIONS + 1)]
      /\ n[w] \in Nat /\ j \in Nat \ {0} /\ pc \in [Workers -> Steps]
  <2>1. /\ send \in Seq(Chunks) /\ i \in [Workers -> 1 .. (MAX_COMPLETIONS + 1)]
        /\ n \in [Workers -> 0 .. MAX_COMPLETIONS]
        /\ pc \in [Workers -> Steps]
    BY DEF TypeInv, TypeOK, PoolTypeOK, ReapTypeOK
  <2>2. MAX_COMPLETIONS \in Nat
    BY TxPathAssumption
  <2> QED  BY <2>1, <2>2, LenProperties
<1>1. pc[w] = "status" /\ pc[w] \in Reaping /\ UNCHANGED <<sq, cq, wc, n, tx_buffers>>
  BY DEF ReapEnd, At, qpVars, sendVars, Reaping
<1>2. j <= n[w] /\ e \in Completion
  <2>1. j <= n[w] /\ \A k \in 1 .. n[w] : wc[k] \in Completion
    BY <1>1 DEF TypeInv, ReapsFilledEntries
  <2>2. j \in 1 .. n[w]
    BY <1>0, <2>1
  <2> QED  BY <2>1, <2>2
<1>3. CASE ~e.ok
  <2>1. UNCHANGED <<channel, send, leaked, i, pc>>
    BY <1>3 DEF ReapEnd, poolVars
  <2>2. Held(w)' = Held(w)
    BY <1>1, <2>1 DEF Held
  <2> QED  BY <1>1, <2>1, <2>2, QuietPlaces
<1>4. CASE e.ok
  <2>1. /\ send' = Append(send, e.chunk) /\ UNCHANGED <<channel, leaked>>
        /\ i' = [i EXCEPT ![w] = @ + 1]
        /\ pc' = [pc EXCEPT ![w] = IF j = n[w] THEN "poll" ELSE "reap"]
    BY <1>4 DEF ReapEnd, ReturnChannel
  <2>2. i'[w] = j + 1 /\ pc'[w] = IF j = n[w] THEN "poll" ELSE "reap"
    BY <1>0, <1>1, <2>1
  <2>3. /\ Len(send') = l + 1 /\ send'[l + 1] = e.chunk
        /\ \A k \in 1 .. l : send'[k] = send[k]
    <3>1. e.chunk \in Chunks
      BY <1>2 DEF Completion
    <3> QED  BY <1>0, <2>1, <3>1, AppendProperties
  <2>4. Held(w)' = Held(w)
    BY <1>1, <2>2 DEF Held
  <2> HIDE DEF j, l, e
  <2>5. ASSUME NEW c, NEW y
        PROVE  Place(w, c, y)' <=> \E z : Place(w, c, z) /\ y = F(z)
    <3>1. /\ InChannel(c, y)' <=> InChannel(c, y)
          /\ InSq(c, y)' <=> InSq(c, y)
          /\ InCq(w, c, y)' <=> InCq(w, c, y)
          /\ InTx(w, c, y)' <=> InTx(w, c, y)
          /\ InLeaked(c, y)' <=> InLeaked(c, y)
      BY <1>1, <2>1, <2>4 DEF InChannel, InSq, InCq, InTx, InLeaked
    <3>2. InSend(c, y)' <=> InSend(c, y) \/ (e.chunk = c /\ y = to)
      <4>1. \A k : k \in 1 .. (l + 1) <=> k \in 1 .. l \/ k = l + 1
        BY <1>0
      <4>2. InSend(c, y)' <=> \E k \in 1 .. (l + 1) : send'[k] = c /\ y = <<"send", 0, k>>
        BY <2>3 DEF InSend
      <4>3. InSend(c, y) <=> \E k \in 1 .. l : send[k] = c /\ y = <<"send", 0, k>>
        BY DEF InSend, l
      <4> QED  BY <2>3, <4>1, <4>2, <4>3
    <3>3. \A z : InWc(w, c, z) <=> \E k \in j .. n[w] : wc[k].chunk = c /\ z = <<"wc", w, k>>
      BY <1>1 DEF InWc, j
    <3>4. \A z : InWc(w, c, z)' <=> \E k \in (j + 1) .. n[w] : wc[k].chunk = c /\ z = <<"wc", w, k>>
      <4>1. CASE j = n[w]
        <5>1. \A k : k \notin (j + 1) .. n[w]
          BY <1>0, <4>1
        <5>2. pc'[w] \notin Reaping
          BY <2>2, <4>1 DEF Reaping
        <5> QED  BY <5>1, <5>2 DEF InWc
      <4>2. CASE j # n[w]
        <5>1. pc'[w] \in Reaping
          BY <2>2, <4>2 DEF Reaping
        <5> QED  BY <1>1, <2>2, <5>1 DEF InWc
      <4> QED  BY <4>1, <4>2
    <3>5. \A k : k \in j .. n[w] <=> k \in (j + 1) .. n[w] \/ k = j
      BY <1>0, <1>2
    <3>6. j \notin (j + 1) .. n[w]
      BY <1>0
    <3>7. InWc(w, c, from) <=> e.chunk = c
      <4>1. \A k : from = <<"wc", w, k>> <=> k = j
        OBVIOUS
      <4> QED  BY <3>3, <3>5, <4>1 DEF e
    <3>8. \A z : InWc(w, c, z)' <=> InWc(w, c, z) /\ z # from
      <4>1. \A k : from = <<"wc", w, k>> <=> k = j
        OBVIOUS
      <4> HIDE DEF from
      <4> QED  BY <3>3, <3>4, <3>5, <3>6, <4>1
    <3>9. from[1] = "wc"
      OBVIOUS
    <3> HIDE DEF from, to
    <3>10. ASSUME Place(w, c, y)' PROVE \E z : Place(w, c, z) /\ y = F(z)
      <4>1. CASE e.chunk = c /\ y = to
        BY <3>7, <4>1 DEF Place
      <4>2. CASE ~(e.chunk = c /\ y = to)
        <5>1. Place(w, c, y) /\ y # from
          BY <3>1, <3>2, <3>8, <3>9, <3>10, <4>2, PlaceNames DEF Place
        <5> QED  BY <5>1
      <4> QED  BY <4>1, <4>2
    <3>11. ASSUME NEW z, Place(w, c, z), y = F(z) PROVE Place(w, c, y)'
      <4>1. CASE z = from
        <5>1. InWc(w, c, z)
          BY <3>9, <3>11, <4>1, PlaceNames DEF Place
        <5> QED  BY <3>2, <3>7, <3>11, <4>1, <5>1 DEF Place
      <4>2. CASE z # from
        BY <3>1, <3>2, <3>8, <3>11, <4>2 DEF Place
      <4> QED  BY <4>1, <4>2
    <3> QED  BY <3>10, <3>11
  <2> HIDE DEF F, from, to
  <2>6. ASSUME NEW c \in Chunks PROVE \E x : \A y : Place(w, c, y)' <=> y = x
    <3>1. PICK x : \A y : Place(w, c, y) <=> y = x
      BY DEF Unique
    <3>2. PICK f : f = F(x)
      OBVIOUS
    <3>3. \A y : Place(w, c, y)' <=> y = f
      BY <2>5, <3>1, <3>2
    <3> QED  BY <3>3
  <2> QED  BY <2>6 DEF Unique
<1> QED  BY <1>3, <1>4

\* add() carves every chunk once.
LEMMA InitChunkInv ==
    ASSUME NEW w \in Workers
    PROVE  Init => ChunkInv(w)
<1> SUFFICES ASSUME Init PROVE ChunkInv(w)
  OBVIOUS
<1>0. RxNum \in Nat /\ TxNum \in Nat
  BY TxPathAssumption
<1>1. /\ Len(channel) = RxNum /\ \A k \in 1 .. RxNum : channel[k] = k
      /\ Len(send) = TxNum /\ \A k \in 1 .. TxNum : send[k] = RxNum + k
  BY <1>0 DEF Init
<1>2. /\ pc[w] = "loop" /\ tx_buffers[w] = <<>> /\ cq[w] = <<>> /\ leaked = {}
      /\ \A s \in Sockets : sq[s] = <<>>
  BY DEF Init
<1>3. ASSUME NEW c \in Chunks PROVE \E x : \A y : Place(w, c, y) <=> y = x
  <2> DEFINE x == IF c <= RxNum THEN <<"channel", 0, c>> ELSE <<"send", 0, c - RxNum>>
  <2>1. c \in Nat /\ 1 <= c /\ c <= RxNum + TxNum
    BY <1>0 DEF Chunks
  <2>2. ASSUME NEW y PROVE Place(w, c, y) <=> y = x
    <3>1. ~InSq(c, y) /\ ~InCq(w, c, y) /\ ~InWc(w, c, y) /\ ~InTx(w, c, y) /\ ~InLeaked(c, y)
      <4>1. Held(w) = 0
        BY <1>2 DEF Held
      <4> QED  BY <1>2, <4>1 DEF InSq, InCq, InWc, InTx, InLeaked, Reaping
    <3>2. InChannel(c, y) <=> c <= RxNum /\ y = <<"channel", 0, c>>
      <4>1. c \in 1 .. RxNum <=> c <= RxNum
        BY <1>0, <2>1
      <4> QED  BY <1>1, <4>1 DEF InChannel
    <3>3. InSend(c, y) <=> ~(c <= RxNum) /\ y = <<"send", 0, c - RxNum>>
      <4>1. \A k \in 1 .. TxNum : RxNum + k = c => ~(c <= RxNum) /\ k = c - RxNum
        BY <1>0, <2>1
      <4>2. ~(c <= RxNum) => c - RxNum \in 1 .. TxNum /\ RxNum + (c - RxNum) = c
        BY <1>0, <2>1
      <4> QED  BY <1>1, <4>1, <4>2 DEF InSend
    <3> QED  BY <3>1, <3>2, <3>3 DEF Place
  <2> HIDE DEF x
  <2> QED  BY <2>2
<1>4. Unique(w)
  BY <1>3 DEF Unique
<1> QED  BY <1>2, <1>4, InitSendInv DEF ChunkInv

\* What a step of send() does to the places of the chunks.
LEMMA SendStepsChunkInv ==
    ASSUME NEW w \in Workers, ChunkInv(w), SendInv(w)', SendSteps(w)
    PROVE  ChunkInv(w)'
<1>0. /\ tx_buffers \in [Workers -> Seq(Chunks)]
      /\ pc \in [Workers -> Steps]
      /\ bytes \in [Workers -> Nat] /\ tx_buffers[w] \in Seq(Chunks) /\ Len(tx_buffers[w]) \in Nat
      /\ empties \in Nat /\ TypeInv /\ SendInv(w)
  <2>1. /\ tx_buffers \in [Workers -> Seq(Chunks)]
        /\ pc \in [Workers -> Steps]
        /\ bytes \in [Workers -> Nat] /\ TypeInv /\ SendInv(w) /\ empties \in 0 .. MaxEmpty
    BY SendTypes DEF ChunkInv, SendInv, TypeInv, TypeOK, SendTypeOK
  <2>2. empties \in Nat
    BY <2>1, TxPathAssumption
  <2> QED  BY <2>1, <2>2, LenProperties
<1>1. ASSUME NEW s \in Sockets, NEW b \in Lengths, SendBegin(w, s, b) PROVE ChunkInv(w)'
  <2>1. /\ pc[w] = "loop" /\ tx_buffers[w] = <<>>
        /\ UNCHANGED <<channel, send, leaked, sq, cq, wc, i, n>>
        /\ bytes' = [bytes EXCEPT ![w] = b]
    BY <1>1 DEF SendBegin, At, ChunkInv, Steps, Sending, FromList, poolVars, qpVars, notifyVars
  <2>2. b = 0 => empties' # 0
    BY <1>0, <1>1 DEF SendBegin
  <2>3. b # 0 => empties' = empties
    BY <1>1 DEF SendBegin
  <2>4. /\ pc'[w] = "loop" \/ pc'[w] = (IF b = 0 THEN "post" ELSE "back")
        /\ tx_buffers'[w] = <<>> \/ (b = 0 /\ pc'[w] = "post")
    BY <1>0, <1>1, <2>1 DEF SendBegin
  <2>5. CASE b = 0
    BY <2>1, <2>2, <2>4, <2>5 DEF ChunkInv, Steps, Sending, FromList
  <2>6. CASE b # 0
    <3>1. /\ pc'[w] \in {"loop", "back"} /\ tx_buffers'[w] = <<>>
      BY <2>4, <2>6
    <3>2. Held(w)' = 0 /\ Held(w) = 0
      BY <2>1, <3>1 DEF Held
    <3>3. Unique(w) => Unique(w)'
      <4>1. pc[w] \notin Reaping /\ pc'[w] \notin Reaping
        BY <2>1, <3>1 DEF Reaping
      <4>2. \A k \in 1 .. Held(w) : tx_buffers'[w][k] = tx_buffers[w][k]
        BY <3>2
      <4> QED  BY <2>1, <3>2, <4>1, <4>2, QuietPlaces
    <3> QED  BY <2>3, <2>6, <3>1, <3>3 DEF ChunkInv
  <2> QED  BY <2>5, <2>6
<1>2. CASE TakeBack(w)
  <2>1. /\ pc[w] = "back" /\ UNCHANGED <<channel, send, leaked, sq, cq, wc, i, n, empties, bytes>>
        /\ \/ UNCHANGED <<tx_buffers, pc>>
           \/ /\ channel # <<>>
              /\ tx_buffers' = [tx_buffers EXCEPT ![w] = Append(@, channel[Len(channel)])]
              /\ pc' = [pc EXCEPT ![w] = "pop"]
    BY <1>2 DEF TakeBack, At, poolVars, qpVars, notifyVars
  <2>2. CASE UNCHANGED <<tx_buffers, pc>>
    <3>1. Held(w)' = Held(w)
      BY <2>2 DEF Held
    <3>2. Unique(w) => Unique(w)'
      BY <2>1, <2>2, <3>1, QuietPlaces
    <3> QED  BY <2>1, <2>2, <3>2 DEF ChunkInv
  <2>3. CASE /\ channel # <<>>
             /\ tx_buffers' = [tx_buffers EXCEPT ![w] = Append(@, channel[Len(channel)])]
             /\ pc' = [pc EXCEPT ![w] = "pop"]
    <3> DEFINE t == tx_buffers[w]
               e == channel[Len(channel)]
    <3>1. tx_buffers'[w] = Append(t, e) /\ pc'[w] = "pop"
      BY <1>0, <2>3
    <3>2. e \in Chunks
      <4>1. channel \in Seq(Chunks) /\ Len(channel) \in Nat
        BY <1>0, SendTypes
      <4>2. Len(channel) \in 1 .. Len(channel)
        <5>1. Len(channel) # 0
          BY <2>3, <4>1, EmptySeq
        <5> QED  BY <4>1, <5>1
      <4> QED  BY <4>1, <4>2, ElementOfSeq
    <3> HIDE DEF e
    <3>3. Len(Append(t, e)) = Len(t) + 1 /\ \A k \in 1 .. Len(t) : Append(t, e)[k] = t[k]
      BY <1>0, <3>2, AppendProperties
    <3>4. Held(w) = Len(t) /\ Held(w)' = Len(tx_buffers'[w]) - 1
      BY <2>1, <3>1 DEF Held
    <3>5. Held(w)' = Held(w)
      <4>1. Len(tx_buffers'[w]) = Len(t) + 1 /\ Len(t) \in Nat
        BY <1>0, <3>1, <3>3
      <4> HIDE DEF t
      <4>2. Len(tx_buffers'[w]) - 1 = Len(t)
        BY <4>1
      <4> QED  BY <3>4, <4>2
    <3>6. Unique(w) => Unique(w)'
      <4>1. \A k \in 1 .. Held(w) : tx_buffers'[w][k] = tx_buffers[w][k]
        BY <3>1, <3>3, <3>4
      <4>2. pc[w] \notin Reaping /\ pc'[w] \notin Reaping
        BY <2>1, <3>1 DEF Reaping
      <4> QED  BY <2>1, <3>5, <4>1, <4>2, QuietPlaces
    <3> QED  BY <2>1, <3>1, <3>6 DEF ChunkInv, Steps, Sending, FromList
  <2> QED  BY <2>1, <2>2, <2>3
<1>3. CASE PopBack(w)
  <2>1. /\ pc[w] = "pop" /\ UNCHANGED <<tx_buffers, empties, bytes>> /\ channel # <<>>
    BY <1>0, <1>3 DEF PopBack, At, sendVars, SendInv, Taking
  <2>2. pc'[w] \in {"fill", "back"}
    BY <1>0, <1>3, <2>1 DEF PopBack
  <2>3. Unique(w) => Unique(w)'
    BY <1>0, <1>3, PopBackPlaces
  <2> QED  BY <2>1, <2>2, <2>3 DEF ChunkInv, Steps, Sending, FromList
<1>4. CASE (\E piece \in 1 .. todo[w] : WriteBegin(w, piece)) \/ WriteEnd(w) \/ FullTest(w)
  <2>1. /\ pc[w] \in {"fill", "write", "full"}
        /\ UNCHANGED <<channel, send, leaked, sq, cq, wc, i, n, bytes, tx_buffers, empties>>
    BY <1>4 DEF WriteBegin, WriteEnd, FullTest, At, poolVars, sendVars, qpVars, notifyVars
  <2>2. pc'[w] \in {"fill", "write", "full", "post"}
    BY <1>0, <1>4, <2>1 DEF WriteBegin, WriteEnd, FullTest
  <2>3. Held(w)' = Held(w)
    BY <2>1, <2>2 DEF Held
  <2>4. Unique(w) => Unique(w)'
    <3>1. pc[w] \notin Reaping /\ pc'[w] \notin Reaping
      BY <2>1, <2>2 DEF Reaping
    <3>2. \A k \in 1 .. Held(w) : tx_buffers'[w][k] = tx_buffers[w][k]
      BY <2>1
    <3> QED  BY <2>1, <2>3, <3>1, <3>2, QuietPlaces
  <2>5. bytes'[w] > 0
    BY <1>0, <2>1 DEF SendInv, Taking, Copies
  <2> QED  BY <2>1, <2>2, <2>4, <2>5 DEF ChunkInv, Steps, Sending, FromList
<1>5. ASSUME Return(w), empties = 0 => \E m : Posts(w, m) PROVE ChunkInv(w)'
  <2>1. pc'[w] = "loop" /\ tx_buffers'[w] = <<>> /\ empties' = empties
    BY <1>0, <1>5 DEF Return
  <2>2. empties = 0 => Unique(w)'
    BY <1>0, <1>5, PostPlaces DEF ChunkInv
  <2> QED  BY <2>1, <2>2 DEF ChunkInv
<1>6. CASE Post(w)
  <2> DEFINE t == tx_buffers[w]
  <2>1. /\ pc[w] = "post" /\ sq' = [sq EXCEPT ![sock[w]] = @ \o t] /\ Return(w)
        /\ UNCHANGED <<channel, send, leaked, cq>>
    BY <1>6 DEF Post, At, poolVars, notifyVars
  <2>2. pc'[w] = "loop" /\ tx_buffers'[w] = <<>>
    BY <1>0, <2>1 DEF Return
  <2>3. SubSeq(t, 1, Len(t)) = t
    BY <1>0, SubSeqFull
  <2>4. leaked = leaked \cup {t[j] : j \in (Len(t) + 1) .. Len(t)}
    <3>1. \A j : j \notin (Len(t) + 1) .. Len(t)
      BY <1>0
    <3> QED  BY <3>1
  <2>5. Len(t) \in 0 .. Len(t)
    BY <1>0
  <2>6. Posts(w, Len(t))
    BY <2>1, <2>2, <2>3, <2>4, <2>5 DEF Posts
  <2> QED  BY <1>5, <2>1, <2>6
<1>7. ASSUME NEW k \in 0 .. Len(tx_buffers[w]), PostFail(w, k) PROVE ChunkInv(w)'
  <2>1. /\ pc[w] = "post" /\ Return(w) /\ UNCHANGED <<channel, send, cq>>
        /\ sq' = [sq EXCEPT ![sock[w]] = @ \o SubSeq(tx_buffers[w], 1, k)]
        /\ leaked' = IF bytes[w] = 0 THEN leaked
                     ELSE leaked \cup {tx_buffers[w][j] : j \in (k + 1) .. Len(tx_buffers[w])}
    BY <1>7 DEF PostFail, At, notifyVars
  <2>2. pc'[w] = "loop" /\ tx_buffers'[w] = <<>>
    BY <1>0, <2>1 DEF Return
  <2>3. empties = 0 => bytes[w] # 0
    BY <1>0, <2>1 DEF ChunkInv
  <2>4. empties = 0 => Posts(w, k)
    BY <2>1, <2>2, <2>3 DEF Posts
  <2> QED  BY <1>5, <2>1, <2>4
<1> QED  BY <1>1, <1>2, <1>3, <1>4, <1>6, <1>7 DEF SendSteps

\* With one worker, every step keeps every chunk in one place.
LEMMA NextChunkInv ==
    ASSUME NEW w \in Workers, Workers = {w}
    PROVE  ChunkInv(w) /\ [Next]_vars => ChunkInv(w)'
<1> SUFFICES ASSUME ChunkInv(w), [Next]_vars PROVE ChunkInv(w)'
  OBVIOUS
<1>0. /\ pc \in [Workers -> Steps] /\ TypeInv /\ SendInv(w)
  BY SendTypes DEF ChunkInv, SendInv
<1>1. SendInv(w)'
  BY <1>0, NextSendInv
<1>2. CASE SendSteps(w)
  BY <1>1, <1>2, SendStepsChunkInv
<1>3. ASSUME UNCHANGED <<tx_buffers, bytes, empties>>, pc[w] \notin Sending, pc'[w] \notin Sending,
             Unique(w) => Unique(w)', pc'[w] = "status" => this'[w] = wc'[i'[w]].chunk
      PROVE  ChunkInv(w)'
  BY <1>1, <1>3 DEF ChunkInv, Steps, Sending, FromList
<1>4. CASE HandlerSteps(w)
  <2>1. UNCHANGED <<tx_buffers, bytes, empties>> /\ pc[w] \in {"loop"} \cup Handler
    BY <1>4 DEF HandlerSteps, GetCqEvent, PollCq, ReapBegin, ReapEnd, Rearm, At, Handler, Reaping,
       sendVars
  <2>2. pc'[w] \in {"loop"} \cup Handler
    BY <1>0, <1>4 DEF HandlerSteps, GetCqEvent, PollCq, AfterEmptyPoll, ReapBegin, ReapEnd, Rearm, At,
       Handler, Reaping
  <2>3. pc[w] \notin Sending /\ pc'[w] \notin Sending /\ pc[w] # "pop" /\ pc'[w] # "pop"
    BY <2>1, <2>2 DEF Steps, Sending, FromList, Handler, Reaping
  <2>4. Held(w)' = Held(w)
    BY <2>1, <2>3 DEF Held
  <2>5. ASSUME Unique(w), GetCqEvent(w) \/ Rearm(w) PROVE Unique(w)'
    <3>1. /\ UNCHANGED <<channel, send, sq, cq, leaked, tx_buffers>>
          /\ pc[w] \notin Reaping /\ pc'[w] \notin Reaping
      BY <1>0, <2>5 DEF GetCqEvent, Rearm, At, poolVars, qpVars, sendVars, Reaping
    <3> QED  BY <2>4, <2>5, <3>1, QuietPlaces
  <2>6. ASSUME ReapBegin(w)
        PROVE  (Unique(w) => Unique(w)') /\ this'[w] = wc'[i'[w]].chunk
    <3>1. /\ UNCHANGED <<channel, send, sq, cq, leaked, tx_buffers, i, n, wc>>
          /\ pc[w] \in Reaping /\ pc'[w] \in Reaping /\ this'[w] = wc[i[w]].chunk
      <4>1. this \in [Workers -> Chunks \cup {0}]
        BY <1>0 DEF TypeInv, TypeOK, CopyTypeOK
      <4> QED  BY <1>0, <2>6, <4>1 DEF ReapBegin, At, poolVars, qpVars, notifyVars, sendVars, Reaping
    <3>2. Unique(w) => Unique(w)'
      BY <2>4, <3>1, QuietPlaces
    <3> QED  BY <3>1, <3>2
  <2>7. ASSUME ReapEnd(w)
        PROVE  (Unique(w) => Unique(w)') /\ (pc'[w] = "status" => this'[w] = wc'[i'[w]].chunk)
    <3>1. pc[w] = "status" /\ this[w] = wc[i[w]].chunk
      BY <2>7 DEF ReapEnd, At, ChunkInv
    <3>2. Unique(w) => Unique(w)'
      BY <1>0, <2>7, <3>1, ReapPlaces
    <3>3. CASE ~wc[i[w]].ok
      BY <2>7, <3>1, <3>2, <3>3 DEF ReapEnd, copyVars
    <3>4. CASE wc[i[w]].ok
      <4>1. pc'[w] # "status"
        BY <1>0, <2>7, <3>4 DEF ReapEnd
      <4> QED  BY <3>2, <4>1
    <3> QED  BY <3>3, <3>4
  <2>8. CASE GetCqEvent(w) \/ Rearm(w)
    <3>1. pc'[w] # "status"
      BY <1>0, <2>8 DEF GetCqEvent, Rearm
    <3> QED  BY <1>3, <2>1, <2>3, <2>5, <2>8, <3>1
  <2>9. CASE PollCq(w)
    <3>1. pc'[w] # "status"
      BY <1>0, <2>9 DEF PollCq, AfterEmptyPoll
    <3>2. Unique(w) => Unique(w)'
      BY <1>0, <2>9, PollPlaces
    <3> QED  BY <1>3, <2>1, <2>3, <3>1, <3>2
  <2> QED  BY <1>3, <1>4, <2>1, <2>3, <2>6, <2>7, <2>8, <2>9 DEF HandlerSteps
<1>7. CASE ReadSteps(w)
  <2>1. /\ UNCHANGED <<tx_buffers, bytes, empties, channel, send, sq, cq, leaked>>
        /\ pc[w] \in {"loop", "read"}
    BY <1>7 DEF ReadSteps, ReadBegin, ReadEnd, At, qpVars, notifyVars, sendVars
  <2>2. pc'[w] \in {"loop", "read"}
    BY <1>0, <1>7 DEF ReadSteps, ReadBegin, ReadEnd
  <2>3. /\ pc[w] \notin Sending /\ pc'[w] \notin Sending /\ pc'[w] # "status"
        /\ pc[w] \notin Reaping /\ pc'[w] \notin Reaping
    BY <2>1, <2>2 DEF Sending, FromList, Reaping
  <2>4. Held(w)' = Held(w)
    BY <2>1, <2>2 DEF Held
  <2>5. Unique(w) => Unique(w)'
    BY <2>1, <2>3, <2>4, QuietPlaces
  <2> QED  BY <1>3, <2>1, <2>3, <2>5
<1>5. CASE \E s \in Sockets : Complete(s)
  <2>1. UNCHANGED <<tx_buffers, bytes, empties, pc, this, i, wc>>
    BY <1>5 DEF Complete, sendVars, copyVars
  <2>2. Unique(w) => Unique(w)'
    BY <1>0, <1>5, CompletePlaces
  <2> QED  BY <1>1, <2>1, <2>2 DEF ChunkInv
<1>6. CASE (\E s \in Sockets : QpError(s)) \/ UNCHANGED vars
  <2>1. UNCHANGED <<channel, send, sq, cq, leaked, tx_buffers, i, n, wc, bytes, empties, pc, this>>
    BY <1>6 DEF QpError, vars, poolVars, qpVars, notifyVars, sendVars, copyVars
  <2>2. Held(w)' = Held(w)
    BY <2>1 DEF Held
  <2>3. Unique(w) => Unique(w)'
    BY <2>1, <2>2, QuietPlaces
  <2> QED  BY <1>1, <2>1, <2>3 DEF ChunkInv
<1> QED  BY <1>2, <1>4, <1>5, <1>6, <1>7 DEF Next, WorkerSteps, Crashed

\* Between get_tx_buffers and return_channel no chunk is lost and none is in two
\* places: with one worker, for every number of sockets and chunks and however the
\* adapter, the handler and send() interleave and fail, every chunk is on a free list,
\* or held by exactly one send(), request or completion, or was dropped by a failed
\* ibv_post_send, as long as no empty message was sent.
THEOREM ChunkConservationTheorem ==
    ASSUME NEW w \in Workers, Workers = {w}
    PROVE  Spec => []ChunkConservation
<1>1. ChunkInv(w) => ChunkConservation
  <2> SUFFICES ASSUME ChunkInv(w), empties = 0, NEW c \in Chunks
               PROVE  Cardinality(Refs(c)) = 1
    BY DEF ChunkConservation
  <2>1. TypeInv /\ Unique(w)
    BY DEF ChunkInv, SendInv
  <2>2. PICK x : \A y : Place(w, c, y) <=> y = x
    BY <2>1 DEF Unique
  <2>3. \A y : y \in Refs(c) <=> y = x
    BY <2>1, <2>2, RefsArePlaces
  <2>4. Refs(c) = {x}
    BY <2>3
  <2> QED  BY <2>4, FS_Singleton
<1> QED  BY <1>1, InitChunkInv, NextChunkInv, PTL DEF Spec

=============================================================================
