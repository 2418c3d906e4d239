---------------------------- MODULE RxPathProofs ----------------------------
(***************************************************************************)
(* Theorems about RxPath, for every set of workers and sockets, every      *)
(* assignment of sockets to threads, and every size of the cluster, of the *)
(* polls and of the reads.  The workers share the static array of read(),  *)
(* so an entry may change between any two looks at it.  The theorems about *)
(* the bytes of the stream are about one worker thread, whose array nobody *)
(* else writes; its send() may take any chunk.                             *)
(***************************************************************************)
EXTENDS RxPath, SequenceTheorems, NaturalsInduction, WellFoundedInduction, TLAPS

\* What the length of a copy rests on between its check and its use: the entry still
\* says what it said, and what is asked for has room in the caller's buffer.
LocalOK(w) ==
    /\ pc[w] = "again" => read[w] + wc[i[w]].byte_len < len[w]
    /\ pc[w] \in {"copy", "move", "reread"} => read[w] + want[w] <= len[w]

\* Types, that only filled entries of the array are followed, and, until a poll
\* overwrites what another worker is taking, LocalOK: inductive together.
TypeInv ==
    /\ TypeOK
    /\ TakesFilledEntries
    /\ raced \/ \A w \in Workers : LocalOK(w)

\* What TypeInv says of one worker.
LEMMA WorkerTypes ==
    ASSUME TypeInv, NEW w \in Workers
    PROVE  /\ MemTypeOK /\ CqTypeOK /\ TakeTypeOK /\ CopyTypeOK /\ TypeOK /\ TakesFilledEntries
           /\ pc \in [Workers -> {"loop", "event"} \cup Draining]
           /\ raced \in BOOLEAN /\ mixed \in BOOLEAN /\ crash \in BOOLEAN
           /\ sock[w] \in Sockets
           /\ read[w] \in Nat /\ len[w] \in Nat /\ (raced \/ read[w] <= len[w])
           /\ chunk[w] \in Chunks \cup {0} /\ want[w] \in Nat /\ keep[w] \in BOOLEAN
           /\ seen[w] \in Nat
           /\ raced \/ LocalOK(w)
<1>1. TypeOK /\ CopyTypeOK /\ TakesFilledEntries /\ (raced \/ LocalOK(w))
  BY DEF TypeInv, TypeOK
<1>2. len[w] \in Nat
  <2>1. len[w] \in Lens \cup {0}
    BY <1>1 DEF CopyTypeOK
  <2>2. Lens \cup {0} \subseteq Nat
    BY RxPathAssumption
  <2> QED  BY <2>1, <2>2
<1>3. raced \/ read[w] <= len[w]
  BY <1>1 DEF CopyTypeOK
<1>4. sock[w] \in Sockets /\ read[w] \in Nat
  BY <1>1 DEF CopyTypeOK
<1>5. chunk[w] \in Chunks \cup {0} /\ want[w] \in Nat /\ keep[w] \in BOOLEAN /\ seen[w] \in Nat
  BY <1>1 DEF CopyTypeOK
<1> QED  BY <1>1, <1>2, <1>3, <1>4, <1>5 DEF TypeOK

\* The entry a worker is taking was filled by some poll.
LEMMA EntryFilled ==
    ASSUME TypeInv, NEW w \in Workers, pc[w] \in Taking
    PROVE  /\ i[w] \in Nat \ {0} /\ n[w] \in 0 .. MAX_COMPLETIONS /\ i[w] <= n[w]
           /\ wc[i[w]] \in Completion
           /\ wc[i[w]].chunk \in Chunks /\ wc[i[w]].byte_len \in 0 .. ChunkSize
           /\ wc[i[w]].byte_len \in Nat
<1>1. i[w] \in Nat \ {0} /\ n[w] \in 0 .. MAX_COMPLETIONS
  BY RxPathAssumption DEF TypeInv, TypeOK, TakeTypeOK
<1>2. i[w] <= n[w] /\ \A k \in 1 .. n[w] : wc[k] \in Completion
  BY DEF TypeInv, TakesFilledEntries
<1>3. i[w] \in 1 .. n[w]
  BY <1>1, <1>2
<1>4. wc[i[w]] \in Completion
  BY <1>2, <1>3
<1>5. wc[i[w]].chunk \in Chunks /\ wc[i[w]].byte_len \in 0 .. ChunkSize
  BY <1>4 DEF Completion
<1>6. 0 .. ChunkSize \subseteq Nat
  BY RxPathAssumption
<1> QED  BY <1>1, <1>2, <1>4, <1>5, <1>6

\* Chunk::read takes no more than it is asked for, and the bytes it takes are bytes.
LEMMA ChunkReadBounds ==
    ASSUME MemTypeOK, NEW w \in Workers, seen[w] \in Nat, want[w] \in Nat
    PROVE  /\ Taken(w) \in 0 .. want[w]
           /\ \A c \in Chunks, o \in Nat : Bytes(c, o, Taken(w)) \in Seq(Nat)
<1>1. ChunkSize \in Nat \ {0}
  BY RxPathAssumption
<1>2. Taken(w) \in 0 .. want[w]
  BY <1>1 DEF Taken, Fits
<1>3. ASSUME NEW c \in Chunks, NEW o \in Nat, NEW m \in Nat
      PROVE  Bytes(c, o, m) \in Seq(Nat)
  <2>1. buffer[c] \in [1 .. ChunkSize -> Nat]
    BY DEF MemTypeOK
  <2>2. ASSUME NEW k \in 1 .. m
        PROVE  (IF o + k <= ChunkSize THEN buffer[c][o + k] ELSE 0) \in Nat
    <3>1. o + k <= ChunkSize => o + k \in 1 .. ChunkSize
      BY <1>1
    <3> QED  BY <2>1, <3>1
  <2>3. Bytes(c, o, m) \in [1 .. m -> Nat]
    BY <2>2 DEF Bytes
  <2> QED  BY <2>3
<1> QED  BY <1>2, <1>3

\* Its second half keeps the types: above all, read() never writes past the caller's
\* buffer, unless an entry was overwritten under it.
LEMMA ChunkReadTypes ==
    ASSUME TypeInv, NEW w \in Workers, pc[w] \in {"move", "reread"}, ChunkReadEnd(w)
    PROVE  /\ read' \in [Workers -> Nat]
           /\ raced \/ \A v \in Workers : read'[v] <= len[v]
           /\ \A v \in Workers \ {w} : read'[v] = read[v]
           /\ offset' \in [Chunks -> Nat]
           /\ got' \in [Sockets -> Seq(Nat)]
<1>1. chunk[w] \in Chunks
  BY DEF TypeInv, TakesFilledEntries, Taking
<1>2. /\ MemTypeOK /\ CopyTypeOK /\ sock[w] \in Sockets
      /\ read[w] \in Nat /\ len[w] \in Nat /\ want[w] \in Nat /\ seen[w] \in Nat
      /\ raced \/ LocalOK(w)
  BY WorkerTypes
<1>3. /\ read \in [Workers -> Nat] /\ got \in [Sockets -> Seq(Nat)]
      /\ offset \in [Chunks -> Nat]
      /\ raced \/ \A v \in Workers : read[v] <= len[v]
  BY <1>2 DEF MemTypeOK, CopyTypeOK
<1>4. offset[chunk[w]] \in Nat
  BY <1>1, <1>3
<1>5. PICK o \in {offset[chunk[w]], seen[w]}, p \in {offset[chunk[w]], seen[w]} :
         /\ read' = [read EXCEPT ![w] = @ + Taken(w)]
         /\ offset' = [offset EXCEPT ![chunk[w]] =
                          IF Fits(seen[w], want[w]) THEN p + want[w] ELSE 0]
         /\ got' = [got EXCEPT ![sock[w]] = @ \o Bytes(chunk[w], o, Taken(w))]
  BY DEF ChunkReadEnd
<1>6. o \in Nat /\ p \in Nat
  BY <1>2, <1>4
<1>7. Taken(w) \in 0 .. want[w] /\ Bytes(chunk[w], o, Taken(w)) \in Seq(Nat)
  BY <1>1, <1>2, <1>6, ChunkReadBounds
<1>8. got' \in [Sockets -> Seq(Nat)]
  <2>1. got[sock[w]] \o Bytes(chunk[w], o, Taken(w)) \in Seq(Nat)
    BY <1>2, <1>3, <1>7
  <2> QED  BY <1>2, <1>3, <1>5, <2>1
<1>9. offset' \in [Chunks -> Nat]
  <2>1. (IF Fits(seen[w], want[w]) THEN p + want[w] ELSE 0) \in Nat
    BY <1>2, <1>6
  <2> QED  BY <1>1, <1>3, <1>5, <2>1
<1>10. /\ read' \in [Workers -> Nat] /\ read'[w] = read[w] + Taken(w)
       /\ \A v \in Workers \ {w} : read'[v] = read[v]
  <2>1. read[w] + Taken(w) \in Nat
    BY <1>2, <1>7
  <2> QED  BY <1>3, <1>5, <2>1
<1>11. raced \/ read'[w] <= len[w]
  <2>1. raced \/ read[w] + want[w] <= len[w]
    BY <1>2 DEF LocalOK
  <2> QED  BY <1>2, <1>7, <1>10, <2>1
<1> QED  BY <1>3, <1>8, <1>9, <1>10, <1>11

\* The state after the cluster was posted is well typed.
LEMMA InitTypeInv == Init => TypeInv
<1> SUFFICES ASSUME Init PROVE TypeInv
  OBVIOUS
<1>1. MemTypeOK
  <2>1. PICK k \in 0 .. RxNum : srq = [c \in 1 .. k |-> c]
    BY DEF Init, PostChannelCluster
  <2>2. srq \in Seq(Chunks)
    BY <2>1, RxPathAssumption DEF Chunks
  <2> QED  BY <2>2, RxPathAssumption DEF Init, MemTypeOK
<1>2. CqTypeOK
  BY RxPathAssumption DEF Init, CqTypeOK
<1>3. TakeTypeOK
  BY RxPathAssumption DEF Init, TakeTypeOK
<1>4. CopyTypeOK
  <2>1. (CHOOSE s \in Sockets : TRUE) \in Sockets
    BY RxPathAssumption
  <2> QED  BY <2>1, RxPathAssumption DEF Init, CopyTypeOK
<1>5. /\ crash \in BOOLEAN /\ raced \in BOOLEAN /\ mixed \in BOOLEAN
      /\ pc \in [Workers -> {"loop"}]
  BY DEF Init
<1>6. TakesFilledEntries /\ \A w \in Workers : LocalOK(w)
  BY <1>5 DEF TakesFilledEntries, LocalOK, Taking
<1> QED  BY <1>1, <1>2, <1>3, <1>4, <1>5, <1>6 DEF TypeInv, TypeOK

\* A step of the thread of w that leaves the array alone, and enters the loop over the
\* completions from nowhere but the loop.
LEMMA KeepsFilled ==
    ASSUME TypeInv, NEW w \in Workers, NEW l,
           pc' = [pc EXCEPT ![w] = l], pc[w] # "loop" \/ l = "loop",
           UNCHANGED <<wc, n, sock>>,
           \A v \in Workers \ {w} : i'[v] = i[v] /\ chunk'[v] = chunk[v],
           l \in Taking => pc[w] \in Taking /\ i'[w] <= n[w],
           l \in {"reread"} \cup (Taking \ {"take"}) => chunk'[w] \in Chunks
    PROVE  TakesFilledEntries'
<1>1. TakesFilledEntries /\ pc \in [Workers -> {"loop", "event"} \cup Draining]
  BY DEF TypeInv, TypeOK
<1>2. ASSUME NEW v \in Workers
      PROVE  /\ pc'[v] # "loop" => Owner[sock'[v]] = v
             /\ pc'[v] \in Taking => /\ i'[v] <= n'[v]
                                     /\ \A k \in 1 .. n'[v] : wc'[k] \in Completion
             /\ pc'[v] \in {"reread"} \cup (Taking \ {"take"}) => chunk'[v] \in Chunks
  <2>1. CASE v = w
    BY <1>1, <2>1 DEF TakesFilledEntries
  <2>2. CASE v # w
    <3>1. pc'[v] = pc[v] /\ i'[v] = i[v] /\ chunk'[v] = chunk[v]
      BY <1>1, <2>2
    <3> QED  BY <1>1, <3>1 DEF TakesFilledEntries
  <2> QED  BY <2>1, <2>2
<1> QED  BY <1>2 DEF TakesFilledEntries

\* The same for what the length of a copy rests on.
LEMMA KeepsLocal ==
    ASSUME TypeInv, NEW w \in Workers, UNCHANGED <<wc, raced>>,
           \A v \in Workers \ {w} : /\ pc'[v] = pc[v] /\ i'[v] = i[v] /\ want'[v] = want[v]
                                    /\ read'[v] = read[v] /\ len'[v] = len[v],
           raced \/ LocalOK(w)'
    PROVE  (raced \/ \A v \in Workers : LocalOK(v))'
<1>1. CASE raced
  BY <1>1
<1>2. CASE ~raced
  <2>1. ASSUME NEW v \in Workers PROVE LocalOK(v)'
    <3>1. CASE v = w
      BY <1>2, <3>1
    <3>2. CASE v # w
      <4>1. LocalOK(v)
        BY <1>2 DEF TypeInv
      <4> QED  BY <3>2, <4>1 DEF LocalOK
    <3> QED  BY <3>1, <3>2
  <2> QED  BY <2>1
<1> QED  BY <1>1, <1>2

\* The adapter keeps the types.
LEMMA AdapterTypeInv ==
    ASSUME TypeInv, NEW s \in Sockets,
           ReceiveError(s) \/ \E b \in 0 .. ChunkSize : Receive(s, b)
    PROVE  TypeInv'
<1>0. MemTypeOK /\ CqTypeOK /\ TakeTypeOK /\ CopyTypeOK /\ TypeOK /\ TakesFilledEntries
  BY DEF TypeInv, TypeOK
<1>1. PICK b \in 0 .. ChunkSize, ok \in BOOLEAN :
         /\ srq # <<>> /\ srq' = Tail(srq)
         /\ AddCompletion(s, [chunk |-> Head(srq), byte_len |-> b, ok |-> ok])
         /\ buffer' \in {buffer, [buffer EXCEPT ![Head(srq)] =
                     [k \in 1 .. ChunkSize |-> IF k <= b THEN sent[s] + k ELSE @[k]]]}
         /\ sent' \in {sent, [sent EXCEPT ![s] = @ + b]}
  <2>2. 0 \in 0 .. ChunkSize /\ FALSE \in BOOLEAN /\ TRUE \in BOOLEAN
    BY RxPathAssumption
  <2>3. CASE ReceiveError(s)
    BY <2>2, <2>3 DEF ReceiveError
  <2>4. CASE \E b \in 0 .. ChunkSize : Receive(s, b)
    BY <2>2, <2>4 DEF Receive
  <2> QED  BY <2>3, <2>4
<1>2. UNCHANGED <<offset, used, wc, rx_buffers, got, pc, readVars, read, rearmed, n, i, at,
                  copyVars, history, crash>>
  BY DEF ReceiveError, Receive
<1>3. Head(srq) \in Chunks /\ Tail(srq) \in Seq(Chunks)
  BY <1>0, <1>1 DEF MemTypeOK
<1>4. MemTypeOK'
  <2>1. buffer' \in [Chunks -> [1 .. ChunkSize -> Nat]]
    <3>1. [k \in 1 .. ChunkSize |-> IF k <= b THEN sent[s] + k ELSE buffer[Head(srq)][k]]
             \in [1 .. ChunkSize -> Nat]
      <4>1. buffer[Head(srq)] \in [1 .. ChunkSize -> Nat] /\ sent[s] \in Nat
        BY <1>0, <1>3 DEF MemTypeOK
      <4> QED  BY <4>1, RxPathAssumption
    <3>2. \/ buffer' = buffer
          \/ buffer' = [buffer EXCEPT ![Head(srq)] =
                [k \in 1 .. ChunkSize |-> IF k <= b THEN sent[s] + k ELSE @[k]]]
      BY <1>1
    <3>3. buffer \in [Chunks -> [1 .. ChunkSize -> Nat]]
      BY <1>0 DEF MemTypeOK
    <3> QED  BY <1>3, <3>1, <3>2, <3>3
  <2>2. sent' \in [Sockets -> Nat]
    <3>1. sent' = sent \/ sent' = [sent EXCEPT ![s] = @ + b]
      BY <1>1
    <3>2. sent \in [Sockets -> Nat] /\ b \in Nat
      BY <1>0, RxPathAssumption DEF MemTypeOK
    <3> QED  BY <3>1, <3>2
  <2> QED  BY <1>0, <1>1, <1>2, <1>3, <2>1, <2>2 DEF MemTypeOK
<1>5. CqTypeOK'
  <2> DEFINE e == [chunk |-> Head(srq), byte_len |-> b, ok |-> ok]
  <2>1. e \in Completion
    BY <1>3 DEF Completion
  <2>2. AddCompletion(s, e)
    BY <1>1
  <2> HIDE DEF e
  <2>3. Append(cq[s], e) \in Seq(Completion)
    BY <1>0, <2>1 DEF CqTypeOK
  <2>4. cq' \in [Sockets -> Seq(Completion)]
    BY <1>0, <2>2, <2>3 DEF CqTypeOK, AddCompletion
  <2>5. events' \in [Sockets -> Nat]
    <3>1. events' = events \/ events' = [events EXCEPT ![s] = @ + 1]
      BY <2>2 DEF AddCompletion
    <3>2. events \in [Sockets -> Nat]
      BY <1>0 DEF CqTypeOK
    <3> QED  BY <3>1, <3>2
  <2>6. armed' = armed \/ armed' = [armed EXCEPT ![s] = FALSE]
    BY <2>2 DEF AddCompletion
  <2>7. armed' \in [Sockets -> BOOLEAN]
    BY <1>0, <2>6 DEF CqTypeOK
  <2> QED  BY <1>0, <2>2, <2>4, <2>5, <2>7 DEF CqTypeOK, AddCompletion
<1>6. TakeTypeOK' /\ CopyTypeOK' /\ TakesFilledEntries'
  BY <1>0, <1>2 DEF TakeTypeOK, CopyTypeOK, TakesFilledEntries, readVars, copyVars, history
<1>7. (raced \/ \A w \in Workers : LocalOK(w))'
  BY <1>2 DEF TypeInv, LocalOK, readVars, copyVars, history
<1> QED  BY <1>0, <1>2, <1>4, <1>5, <1>6, <1>7 DEF TypeInv, TypeOK, history

\* A send() that writes into a chunk keeps the types; its offset stays a number,
\* whatever read() left it at.
LEMMA SendTypeInv ==
    ASSUME TypeInv, NEW w \in Workers, NEW c \in Chunks, NEW b \in WriteLens, SendWrite(w, c, b)
    PROVE  TypeInv'
<1>0. MemTypeOK /\ CqTypeOK /\ TakeTypeOK /\ CopyTypeOK /\ TypeOK /\ TakesFilledEntries
  BY DEF TypeInv, TypeOK
<1> DEFINE end == IF Fits(offset[c], b) THEN offset[c] + b ELSE ChunkSize
           new == [k \in 1 .. ChunkSize |-> IF k \in (offset[c] + 1) .. end THEN 0
                                            ELSE buffer[c][k]]
<1>1. /\ used' = used \cup {c}
      /\ buffer' = [buffer EXCEPT ![c] = new]
      /\ offset' = [offset EXCEPT ![c] = end]
      /\ mixed' = (mixed \/ Awaited(c))
  BY DEF SendWrite
<1>2. UNCHANGED <<srq, sent, notifyVars, wc, rx_buffers, got, pc, readVars, read, rearmed,
                  n, i, at, copyVars, raced, crash>>
  BY DEF SendWrite
<1>3. end \in Nat
  <2>1. offset[c] \in Nat
    BY <1>0 DEF MemTypeOK
  <2>2. b \in Nat /\ ChunkSize \in Nat
    BY RxPathAssumption
  <2> QED  BY <2>1, <2>2
<1>4. new \in [1 .. ChunkSize -> Nat]
  <2>1. buffer[c] \in [1 .. ChunkSize -> Nat]
    BY <1>0 DEF MemTypeOK
  <2> QED  BY <2>1
<1> HIDE DEF end, new
<1>5. MemTypeOK'
  BY <1>0, <1>1, <1>2, <1>3, <1>4 DEF MemTypeOK
<1>6. CqTypeOK' /\ TakeTypeOK' /\ CopyTypeOK' /\ TakesFilledEntries'
  BY <1>0, <1>2 DEF CqTypeOK, TakeTypeOK, CopyTypeOK, TakesFilledEntries, notifyVars, readVars,
                    copyVars
<1>7. (raced \/ \A v \in Workers : LocalOK(v))'
  BY <1>2 DEF TypeInv, LocalOK, readVars, copyVars
<1>8. mixed' \in BOOLEAN
  BY <1>0, <1>1 DEF Awaited, TypeOK
<1> QED  BY <1>0, <1>2, <1>5, <1>6, <1>7, <1>8 DEF TypeInv, TypeOK

\* A call of read() keeps the types.
LEMMA ReadCallTypeInv ==
    ASSUME TypeInv, NEW s \in Sockets, NEW b \in Lens, ReadCall(s, b)
    PROVE  TypeInv'
<1>0. /\ MemTypeOK /\ CqTypeOK /\ TakeTypeOK /\ CopyTypeOK /\ TypeOK /\ TakesFilledEntries
      /\ pc \in [Workers -> {"loop", "event"} \cup Draining]
  BY DEF TypeInv, TypeOK
<1> DEFINE w == Owner[s]
<1>1. w \in Workers /\ b \in Nat
  BY RxPathAssumption
<1>2. /\ UNCHANGED <<memVars, notifyVars, wc, rx_buffers, got, n, i, copyVars, history, crash>>
      /\ pc' = [pc EXCEPT ![w] = "event"]
      /\ sock' = [sock EXCEPT ![w] = s]
      /\ len' = [len EXCEPT ![w] = b]
      /\ read' = [read EXCEPT ![w] = 0]
      /\ rearmed' = [rearmed EXCEPT ![w] = FALSE]
      /\ at' = [at EXCEPT ![w] = 1]
  BY DEF ReadCall, Goto
<1>3. Owner[s] = w
  OBVIOUS
<1> HIDE DEF w
<1>4. MemTypeOK' /\ CqTypeOK'
  BY <1>0, <1>2 DEF MemTypeOK, CqTypeOK, memVars, notifyVars
<1>5. TakeTypeOK'
  BY <1>0, <1>1, <1>2 DEF TakeTypeOK
<1>6. CopyTypeOK'
  <2>1. sock' \in [Workers -> Sockets] /\ len' \in [Workers -> Lens \cup {0}]
    BY <1>0, <1>1, <1>2 DEF CopyTypeOK
  <2>2. read' \in [Workers -> Nat] /\ at' \in [Workers -> Nat \ {0}]
    BY <1>0, <1>1, <1>2 DEF CopyTypeOK
  <2>3. raced \/ \A v \in Workers : read'[v] <= len'[v]
    BY <1>0, <1>1, <1>2 DEF CopyTypeOK
  <2> QED  BY <1>0, <1>2, <2>1, <2>2, <2>3 DEF CopyTypeOK, copyVars, history
<1>7. TakesFilledEntries'
  <2>1. ASSUME NEW v \in Workers
        PROVE  /\ pc'[v] # "loop" => Owner[sock'[v]] = v
               /\ pc'[v] \in Taking => /\ i'[v] <= n'[v]
                                       /\ \A k \in 1 .. n'[v] : wc'[k] \in Completion
               /\ pc'[v] \in {"reread"} \cup (Taking \ {"take"}) => chunk'[v] \in Chunks
    <3>1. CASE v = w
      <4>1. pc'[v] = "event" /\ sock'[v] = s
        BY <1>0, <1>1, <1>2, <3>1 DEF CopyTypeOK
      <4> QED  BY <1>3, <3>1, <4>1 DEF Taking
    <3>2. CASE v # w
      <4>1. pc'[v] = pc[v] /\ sock'[v] = sock[v] /\ i'[v] = i[v] /\ n'[v] = n[v]
            /\ chunk'[v] = chunk[v] /\ wc' = wc
        BY <1>0, <1>1, <1>2, <3>2 DEF CopyTypeOK, copyVars
      <4> QED  BY <1>0, <4>1 DEF TakesFilledEntries
    <3> QED  BY <3>1, <3>2
  <2> QED  BY <2>1 DEF TakesFilledEntries
<1>8. /\ pc' \in [Workers -> {"loop", "event"} \cup Draining]
      /\ crash' \in BOOLEAN /\ raced' \in BOOLEAN /\ mixed' \in BOOLEAN
  BY <1>0, <1>1, <1>2 DEF TypeOK, history
<1>9. (raced \/ \A v \in Workers : LocalOK(v))'
  <2>1. LocalOK(w)'
    BY <1>0, <1>1, <1>2 DEF LocalOK
  <2>2. UNCHANGED <<wc, raced>>
    BY <1>2 DEF history
  <2>3. \A v \in Workers \ {w} : /\ pc'[v] = pc[v] /\ i'[v] = i[v] /\ want'[v] = want[v]
                                 /\ read'[v] = read[v] /\ len'[v] = len[v]
    BY <1>0, <1>2 DEF copyVars, CopyTypeOK
  <2> QED  BY <1>1, <2>1, <2>2, <2>3, KeepsLocal
<1> QED  BY <1>4, <1>5, <1>6, <1>7, <1>8, <1>9 DEF TypeInv, TypeOK

\* A look at the entry, or at the offset of its chunk, by the thread of w, and where it
\* leaves the thread and its locals.
Look(w, l, c, m, b, o) ==
    /\ pc' = [pc EXCEPT ![w] = l]
    /\ chunk' = [chunk EXCEPT ![w] = c]
    /\ want' = [want EXCEPT ![w] = m]
    /\ keep' = [keep EXCEPT ![w] = b]
    /\ seen' = [seen EXCEPT ![w] = o]
    /\ UNCHANGED <<memVars, notifyVars, wc, rx_buffers, got, readVars, read, rearmed, n, i, at,
                   history, crash>>

\* A look keeps the types.
LEMMA LookTypeInv ==
    ASSUME TypeInv, NEW w \in Workers, pc[w] \in Taking, NEW l \in Taking \ {"take"},
           NEW c \in Chunks, NEW m \in Nat, NEW b \in BOOLEAN, NEW o \in Nat,
           Look(w, l, c, m, b, o),
           raced \/ (l = "again" => read[w] + wc[i[w]].byte_len < len[w]),
           raced \/ (l \in {"copy", "move"} => read[w] + m <= len[w])
    PROVE  TypeInv'
<1>a. /\ pc' = [pc EXCEPT ![w] = l] /\ chunk' = [chunk EXCEPT ![w] = c]
      /\ want' = [want EXCEPT ![w] = m] /\ keep' = [keep EXCEPT ![w] = b]
      /\ seen' = [seen EXCEPT ![w] = o]
      /\ UNCHANGED <<memVars, notifyVars, wc, rx_buffers, got, readVars, read, rearmed, n, i, at,
                     history, crash>>
  BY DEF Look
<1>0. /\ MemTypeOK /\ CqTypeOK /\ TakeTypeOK /\ CopyTypeOK /\ TypeOK
      /\ pc \in [Workers -> {"loop", "event"} \cup Draining]
  BY DEF TypeInv, TypeOK
<1>1. MemTypeOK' /\ CqTypeOK' /\ TakeTypeOK'
  BY <1>a, <1>0 DEF MemTypeOK, CqTypeOK, TakeTypeOK, memVars, notifyVars
<1>2. CopyTypeOK'
  <2>1. /\ chunk' \in [Workers -> Chunks \cup {0}] /\ want' \in [Workers -> Nat]
        /\ keep' \in [Workers -> BOOLEAN] /\ seen' \in [Workers -> Nat]
    BY <1>a, <1>0 DEF CopyTypeOK
  <2> QED  BY <1>a, <1>0, <2>1 DEF CopyTypeOK, readVars, history
<1>3. /\ pc' \in [Workers -> {"loop", "event"} \cup Draining]
      /\ crash' \in BOOLEAN /\ raced' \in BOOLEAN /\ mixed' \in BOOLEAN
  BY <1>a, <1>0 DEF TypeOK, Draining, history
<1>4. TakesFilledEntries'
  <2>1. pc[w] # "loop" \/ l = "loop"
    BY DEF Taking
  <2>2. UNCHANGED <<wc, n, sock>>
    BY <1>a DEF readVars
  <2>3. \A v \in Workers \ {w} : i'[v] = i[v] /\ chunk'[v] = chunk[v]
    BY <1>a, <1>0 DEF CopyTypeOK
  <2>4. l \in Taking => pc[w] \in Taking /\ i'[w] <= n[w]
    BY <1>a, EntryFilled
  <2>5. l \in {"reread"} \cup (Taking \ {"take"}) => chunk'[w] \in Chunks
    BY <1>a, <1>0 DEF CopyTypeOK
  <2> QED  BY <2>1, <2>2, <2>3, <2>4, <2>5, <1>a, KeepsFilled
<1>5. (raced \/ \A v \in Workers : LocalOK(v))'
  <2>1. raced \/ LocalOK(w)'
    <3>1. pc'[w] = l /\ want'[w] = m
      BY <1>a, <1>0 DEF CopyTypeOK
    <3>2. l # "reread"
      BY DEF Taking
    <3>3. UNCHANGED <<read, len, wc, i>>
      BY <1>a DEF readVars
    <3> QED  BY <3>1, <3>2, <3>3 DEF LocalOK
  <2>2. UNCHANGED <<wc, raced>>
    BY <1>a DEF history
  <2>3. \A v \in Workers \ {w} : /\ pc'[v] = pc[v] /\ i'[v] = i[v] /\ want'[v] = want[v]
                                 /\ read'[v] = read[v] /\ len'[v] = len[v]
    BY <1>a, <1>0 DEF readVars, CopyTypeOK
  <2> QED  BY <2>1, <2>2, <2>3, KeepsLocal
<1> QED  BY <1>1, <1>2, <1>3, <1>4, <1>5 DEF TypeInv, TypeOK

\* The locals of a turn go out of scope in their types.
LEMMA ForgetTypes ==
    ASSUME CopyTypeOK, NEW w \in Workers, ForgetChunk(w)
    PROVE  /\ chunk' \in [Workers -> Chunks \cup {0}] /\ want' \in [Workers -> Nat]
           /\ keep' \in [Workers -> BOOLEAN] /\ seen' \in [Workers -> Nat]
           /\ \A v \in Workers \ {w} : chunk'[v] = chunk[v] /\ want'[v] = want[v]
           /\ want'[w] = 0
BY DEF CopyTypeOK, ForgetChunk

\* The end of a turn of the loop over the completions, and of one over the kept chunks.
LEMMA TurnTypeInv ==
    ASSUME TypeInv, NEW w \in Workers, ForgetChunk(w),
           NEW l \in {"buffers", "take", "poll"}, pc' = [pc EXCEPT ![w] = l],
           pc[w] # "loop",
           l = "take" => pc[w] \in Taking /\ i'[w] <= n[w],
           i' \in [Workers -> 1 .. (MAX_COMPLETIONS + 1)],
           at' \in [Workers -> Nat \ {0}],
           \A v \in Workers \ {w} : i'[v] = i[v] /\ read'[v] = read[v],
           read' \in [Workers -> Nat], raced \/ \A v \in Workers : read'[v] <= len[v],
           offset' \in [Chunks -> Nat], got' \in [Sockets -> Seq(Nat)],
           rx_buffers' \in [Sockets -> Seq(Chunks)],
           UNCHANGED <<srq, buffer, sent, used, notifyVars, wc, readVars, rearmed, n,
                       history, crash>>
    PROVE  TypeInv'
<1>0. /\ MemTypeOK /\ CqTypeOK /\ TakeTypeOK /\ CopyTypeOK /\ TypeOK
      /\ pc \in [Workers -> {"loop", "event"} \cup Draining]
  BY DEF TypeInv, TypeOK
<1>1. MemTypeOK' /\ CqTypeOK' /\ TakeTypeOK'
  BY <1>0 DEF MemTypeOK, CqTypeOK, TakeTypeOK, notifyVars
<1>2. /\ chunk' \in [Workers -> Chunks \cup {0}] /\ want' \in [Workers -> Nat]
      /\ keep' \in [Workers -> BOOLEAN] /\ seen' \in [Workers -> Nat]
      /\ \A v \in Workers \ {w} : chunk'[v] = chunk[v] /\ want'[v] = want[v]
      /\ want'[w] = 0
  BY <1>0, ForgetTypes
<1>3. CopyTypeOK'
  BY <1>0, <1>2 DEF CopyTypeOK, readVars, history
<1>4. /\ pc' \in [Workers -> {"loop", "event"} \cup Draining]
      /\ crash' \in BOOLEAN /\ raced' \in BOOLEAN /\ mixed' \in BOOLEAN
  BY <1>0 DEF TypeOK, Draining, Taking, history
<1>5. TakesFilledEntries'
  <2>1. UNCHANGED <<wc, n, sock>>
    BY DEF readVars
  <2>2. l \in Taking => pc[w] \in Taking /\ i'[w] <= n[w]
    BY DEF Taking
  <2>3. l \in {"reread"} \cup (Taking \ {"take"}) => chunk'[w] \in Chunks
    BY DEF Taking
  <2>4. \A v \in Workers \ {w} : i'[v] = i[v] /\ chunk'[v] = chunk[v]
    BY <1>2
  <2> QED  BY <2>1, <2>2, <2>3, <2>4, KeepsFilled
<1>6. (raced \/ \A v \in Workers : LocalOK(v))'
  <2>1. LocalOK(w)'
    BY <1>0 DEF LocalOK
  <2>2. UNCHANGED <<wc, raced>>
    BY DEF history
  <2>3. \A v \in Workers \ {w} : /\ pc'[v] = pc[v] /\ i'[v] = i[v] /\ want'[v] = want[v]
                                 /\ read'[v] = read[v] /\ len'[v] = len[v]
    BY <1>0, <1>2 DEF readVars
  <2> QED  BY <2>1, <2>2, <2>3, KeepsLocal
<1> QED  BY <1>1, <1>3, <1>4, <1>5, <1>6 DEF TypeInv, TypeOK

\* NextCompletion goes on inside the array.
LEMMA NextTypes ==
    ASSUME TypeInv, NEW w \in Workers, pc[w] \in Taking, NextCompletion(w)
    PROVE  /\ i' \in [Workers -> 1 .. (MAX_COMPLETIONS + 1)]
           /\ \A v \in Workers \ {w} : i'[v] = i[v]
           /\ ForgetChunk(w)
           /\ \E l \in {"take", "poll"} : /\ pc' = [pc EXCEPT ![w] = l]
                                          /\ l = "take" => i'[w] <= n[w]
<1>1. /\ i' = [i EXCEPT ![w] = @ + 1]
      /\ pc' = [pc EXCEPT ![w] = IF i[w] = n[w] THEN "poll" ELSE "take"]
      /\ ForgetChunk(w)
  BY DEF NextCompletion, Goto
<1>2. i \in [Workers -> 1 .. (MAX_COMPLETIONS + 1)]
  BY DEF TypeInv, TypeOK, TakeTypeOK
<1>3. i[w] \in Nat \ {0} /\ n[w] \in 0 .. MAX_COMPLETIONS /\ i[w] <= n[w]
  BY EntryFilled
<1>4. i[w] + 1 \in 1 .. (MAX_COMPLETIONS + 1)
  BY <1>3, RxPathAssumption
<1>5. i' \in [Workers -> 1 .. (MAX_COMPLETIONS + 1)] /\ \A v \in Workers \ {w} : i'[v] = i[v]
  BY <1>1, <1>2, <1>4
<1>6. i'[w] = i[w] + 1 /\ (i[w] # n[w] => i[w] + 1 <= n[w])
  BY <1>1, <1>2, <1>3
<1> QED  BY <1>1, <1>5, <1>6

\* The event is taken, and the types kept.
LEMMA EventTypeInv ==
    ASSUME TypeInv, NEW w \in Workers, GetCqEvent(w)
    PROVE  TypeInv'
<1>0. /\ MemTypeOK /\ CqTypeOK /\ TakeTypeOK /\ CopyTypeOK /\ TypeOK /\ sock[w] \in Sockets
      /\ pc \in [Workers -> {"loop", "event"} \cup Draining]
  BY WorkerTypes
<1>1. /\ pc[w] = "event" /\ events[sock[w]] > 0
      /\ events' = [events EXCEPT ![sock[w]] = @ - 1]
      /\ need_ack' = [need_ack EXCEPT ![sock[w]] = IF @ + 1 = MAX_ACK_EVENT THEN 0 ELSE @ + 1]
      /\ pc' = [pc EXCEPT ![w] = "buffers"]
      /\ UNCHANGED <<memVars, cq, armed, stuck, wc, rx_buffers, got, readVars, read, rearmed,
                     n, i, at, copyVars, history, crash>>
  BY DEF GetCqEvent, At, Goto
<1>2. MemTypeOK' /\ TakeTypeOK' /\ CopyTypeOK'
  BY <1>0, <1>1 DEF MemTypeOK, TakeTypeOK, CopyTypeOK, memVars, readVars, copyVars, history
<1>3. events' \in [Sockets -> Nat]
  BY <1>0, <1>1 DEF CqTypeOK
<1>4. need_ack' \in [Sockets -> 0 .. (MAX_ACK_EVENT - 1)]
  <2>1. need_ack \in [Sockets -> 0 .. (MAX_ACK_EVENT - 1)] /\ MAX_ACK_EVENT \in Nat \ {0, 1}
    BY <1>0, RxPathAssumption DEF CqTypeOK
  <2>2. (IF need_ack[sock[w]] + 1 = MAX_ACK_EVENT THEN 0 ELSE need_ack[sock[w]] + 1)
           \in 0 .. (MAX_ACK_EVENT - 1)
    BY <1>0, <2>1
  <2> QED  BY <1>0, <1>1, <2>1, <2>2
<1>5. CqTypeOK'
  BY <1>0, <1>1, <1>3, <1>4 DEF CqTypeOK
<1>6. /\ pc' \in [Workers -> {"loop", "event"} \cup Draining]
      /\ crash' \in BOOLEAN /\ raced' \in BOOLEAN /\ mixed' \in BOOLEAN
  BY <1>0, <1>1 DEF TypeOK, Draining, history
<1>7. TakesFilledEntries'
  <2>1. UNCHANGED <<wc, n, sock>> /\ \A v \in Workers \ {w} : i'[v] = i[v] /\ chunk'[v] = chunk[v]
    BY <1>1 DEF readVars, copyVars
  <2>2. "buffers" \notin Taking
    BY DEF Taking
  <2> QED  BY <1>1, <2>1, <2>2, KeepsFilled
<1>8. (raced \/ \A v \in Workers : LocalOK(v))'
  <2>1. LocalOK(w)'
    BY <1>0, <1>1 DEF LocalOK
  <2>2. UNCHANGED <<wc, raced>>
    BY <1>1 DEF history
  <2>3. \A v \in Workers \ {w} : /\ pc'[v] = pc[v] /\ i'[v] = i[v] /\ want'[v] = want[v]
                                 /\ read'[v] = read[v] /\ len'[v] = len[v]
    BY <1>0, <1>1 DEF readVars, copyVars
  <2> QED  BY <2>1, <2>2, <2>3, KeepsLocal
<1> QED  BY <1>2, <1>5, <1>6, <1>7, <1>8 DEF TypeInv, TypeOK

\* A look at the kept chunks asks for no more than the caller's buffer has room for.
LEMMA BuffersTypeInv ==
    ASSUME TypeInv, NEW w \in Workers, ReadBuffers(w)
    PROVE  TypeInv'
<1>0. /\ MemTypeOK /\ CqTypeOK /\ TakeTypeOK /\ CopyTypeOK /\ TypeOK /\ sock[w] \in Sockets
      /\ pc \in [Workers -> {"loop", "event"} \cup Draining]
      /\ read[w] \in Nat /\ len[w] \in Nat /\ (raced \/ read[w] <= len[w])
  BY WorkerTypes
<1> DEFINE kept == rx_buffers[sock[w]]
<1>1. /\ pc[w] = "buffers"
      /\ UNCHANGED <<memVars, notifyVars, wc, rx_buffers, got, readVars, read, rearmed, n, i, at,
                     keep, history, crash>>
  BY DEF ReadBuffers, At
<1>2. PICK l \in {"poll", "reread"} :
        /\ pc' = [pc EXCEPT ![w] = l]
        /\ l = "poll" => UNCHANGED <<chunk, want, seen>>
        /\ l = "reread" => /\ at[w] <= Len(kept)
                           /\ chunk' = [chunk EXCEPT ![w] = kept[at[w]]]
                           /\ want' = [want EXCEPT ![w] = Room(w)]
                           /\ seen' = [seen EXCEPT ![w] = offset[kept[at[w]]]]
  <2>0. at[w] \in Nat /\ Len(kept) \in Nat
    BY <1>0 DEF CopyTypeOK, MemTypeOK
  <2>1. CASE at[w] > Len(kept) \/ read[w] = len[w]
    BY <2>1 DEF ReadBuffers, Goto
  <2>2. CASE ~(at[w] > Len(kept) \/ read[w] = len[w])
    BY <2>0, <2>2 DEF ReadBuffers, Goto, ChunkReadBegin
  <2> QED  BY <2>1, <2>2
<1>3. l = "reread" => kept[at[w]] \in Chunks /\ offset[kept[at[w]]] \in Nat
  <2>1. kept \in Seq(Chunks) /\ at[w] \in Nat \ {0} /\ offset \in [Chunks -> Nat]
    BY <1>0 DEF MemTypeOK, CopyTypeOK
  <2> HIDE DEF kept
  <2> QED  BY <1>2, <2>1
<1>4. Room(w) \in Nat /\ (raced \/ read[w] + Room(w) <= len[w])
  BY <1>0, RxPathAssumption DEF Room
<1> HIDE DEF kept
<1>5. /\ chunk' \in [Workers -> Chunks \cup {0}] /\ want' \in [Workers -> Nat]
      /\ seen' \in [Workers -> Nat]
      /\ \A v \in Workers \ {w} : chunk'[v] = chunk[v] /\ want'[v] = want[v]
      /\ l = "reread" => chunk'[w] \in Chunks /\ want'[w] = Room(w)
  <2>1. /\ chunk \in [Workers -> Chunks \cup {0}] /\ want \in [Workers -> Nat]
        /\ seen \in [Workers -> Nat]
    BY <1>0 DEF CopyTypeOK
  <2>2. CASE l = "poll"
    BY <1>2, <2>1, <2>2
  <2>3. CASE l = "reread"
    BY <1>2, <1>3, <1>4, <2>1, <2>3
  <2> QED  BY <2>2, <2>3
<1>6. MemTypeOK' /\ CqTypeOK' /\ TakeTypeOK'
  BY <1>0, <1>1 DEF MemTypeOK, CqTypeOK, TakeTypeOK, memVars, notifyVars
<1>7. CopyTypeOK'
  BY <1>0, <1>1, <1>5 DEF CopyTypeOK, readVars, history
<1>8. /\ pc' \in [Workers -> {"loop", "event"} \cup Draining]
      /\ crash' \in BOOLEAN /\ raced' \in BOOLEAN /\ mixed' \in BOOLEAN
  BY <1>0, <1>1, <1>2 DEF TypeOK, Draining, history
<1>9. TakesFilledEntries'
  <2>1. UNCHANGED <<wc, n, sock>> /\ \A v \in Workers \ {w} : i'[v] = i[v] /\ chunk'[v] = chunk[v]
    BY <1>1, <1>5 DEF readVars
  <2>2. l \notin Taking /\ (l \in {"reread"} \cup (Taking \ {"take"}) => chunk'[w] \in Chunks)
    BY <1>5 DEF Taking
  <2> QED  BY <1>1, <1>2, <2>1, <2>2, KeepsFilled
<1>10. (raced \/ \A v \in Workers : LocalOK(v))'
  <2>1. raced \/ LocalOK(w)'
    <3>1. pc'[w] = l /\ read'[w] = read[w] /\ len'[w] = len[w]
      BY <1>0, <1>1, <1>2 DEF readVars
    <3> QED  BY <1>4, <1>5, <3>1 DEF LocalOK
  <2>2. UNCHANGED <<wc, raced>>
    BY <1>1 DEF history
  <2>3. \A v \in Workers \ {w} : /\ pc'[v] = pc[v] /\ i'[v] = i[v] /\ want'[v] = want[v]
                                 /\ read'[v] = read[v] /\ len'[v] = len[v]
    BY <1>0, <1>1, <1>2, <1>5 DEF readVars
  <2> QED  BY <2>1, <2>2, <2>3, KeepsLocal
<1> QED  BY <1>6, <1>7, <1>8, <1>9, <1>10 DEF TypeInv, TypeOK

\* A poll leaves completions wherever it or another poll has put some, and notes when
\* it overwrites entries that another worker is taking.
LEMMA PollTypeInv ==
    ASSUME TypeInv, NEW w \in Workers, PollCq(w)
    PROVE  TypeInv'
<1>0. /\ MemTypeOK /\ CqTypeOK /\ TakeTypeOK /\ CopyTypeOK /\ TypeOK /\ TakesFilledEntries
      /\ sock[w] \in Sockets
      /\ pc \in [Workers -> {"loop", "event"} \cup Draining]
      /\ raced \in BOOLEAN /\ mixed \in BOOLEAN /\ crash \in BOOLEAN
  BY WorkerTypes
<1> DEFINE s   == sock[w]
           num == IF Len(cq[s]) < MAX_COMPLETIONS THEN Len(cq[s]) ELSE MAX_COMPLETIONS
           l   == IF num = 0 THEN AfterEmptyPoll(w) ELSE "take"
<1>1. /\ pc[w] = "poll"
      /\ cq' = [cq EXCEPT ![s] = SubSeq(@, num + 1, Len(@))]
      /\ wc' = [j \in DOMAIN wc |-> IF j <= num THEN cq[s][j] ELSE wc[j]]
      /\ n' = [n EXCEPT ![w] = num]
      /\ i' = [i EXCEPT ![w] = 1]
      /\ pc' = [pc EXCEPT ![w] = l]
      /\ raced' = (raced \/ (num > 0 /\ OtherTaking(w)))
      /\ UNCHANGED <<memVars, armed, events, stuck, need_ack, rx_buffers, got, readVars, read,
                     rearmed, at, copyVars, mixed, crash>>
  BY DEF PollCq, Polled, At, Goto
<1>2. cq[s] \in Seq(Completion) /\ MAX_COMPLETIONS \in Nat \ {0} /\ s \in Sockets
  BY <1>0, RxPathAssumption DEF CqTypeOK
<1>3. num \in 0 .. MAX_COMPLETIONS /\ num <= Len(cq[s]) /\ Len(cq[s]) \in Nat
  BY <1>2
<1>l. /\ l \in {"loop", "rearm", "take"} /\ (l = "take" => num # 0)
  BY DEF AfterEmptyPoll
<1> HIDE DEF s, num, l
<1>4. SubSeq(cq[s], num + 1, Len(cq[s])) \in Seq(Completion)
  BY <1>2, <1>3
<1>5. \A k \in 1 .. num : cq[s][k] \in Completion
  BY <1>2, <1>3
<1>6. CqTypeOK'
  BY <1>0, <1>1, <1>2, <1>4 DEF CqTypeOK
<1>7. MemTypeOK' /\ CopyTypeOK'
  <2>1. raced => raced'
    BY <1>1
  <2> QED  BY <1>0, <1>1, <2>1 DEF MemTypeOK, CopyTypeOK, memVars, readVars, copyVars
<1>8. wc' \in [1 .. MAX_COMPLETIONS -> Completion \cup {NoEntry}]
  <2>1. wc \in [1 .. MAX_COMPLETIONS -> Completion \cup {NoEntry}]
    BY <1>0 DEF TakeTypeOK
  <2>2. ASSUME NEW k \in 1 .. MAX_COMPLETIONS
        PROVE  (IF k <= num THEN cq[s][k] ELSE wc[k]) \in Completion \cup {NoEntry}
    <3>1. k <= num => k \in 1 .. num
      BY <1>2, <1>3
    <3> QED  BY <1>5, <2>1, <3>1
  <2>3. DOMAIN wc = 1 .. MAX_COMPLETIONS
    BY <2>1
  <2> QED  BY <1>1, <2>2, <2>3
<1>9. TakeTypeOK'
  <2>1. n' \in [Workers -> 0 .. MAX_COMPLETIONS]
    BY <1>0, <1>1, <1>3 DEF TakeTypeOK
  <2>2. i' \in [Workers -> 1 .. (MAX_COMPLETIONS + 1)]
    BY <1>0, <1>1, <1>2 DEF TakeTypeOK
  <2> QED  BY <1>0, <1>1, <1>8, <2>1, <2>2 DEF TakeTypeOK
<1>10. /\ pc' \in [Workers -> {"loop", "event"} \cup Draining]
       /\ crash' \in BOOLEAN /\ raced' \in BOOLEAN /\ mixed' \in BOOLEAN
  <2>1. raced' \in BOOLEAN
    BY <1>0, <1>1 DEF OtherTaking
  <2> QED  BY <1>0, <1>1, <1>l, <2>1 DEF Draining, Taking
<1>11. \A k \in 1 .. MAX_COMPLETIONS :
          wc'[k] = IF k <= num THEN cq[s][k] ELSE wc[k]
  BY <1>0, <1>1 DEF TakeTypeOK
<1>12. ASSUME NEW v \in Workers
       PROVE  /\ pc'[v] # "loop" => Owner[sock'[v]] = v
              /\ pc'[v] \in Taking => /\ i'[v] <= n'[v]
                                      /\ \A k \in 1 .. n'[v] : wc'[k] \in Completion
              /\ pc'[v] \in {"reread"} \cup (Taking \ {"take"}) => chunk'[v] \in Chunks
  <2>1. CASE v = w
    <3>1. pc[w] # "loop" /\ Owner[sock'[w]] = w
      BY <1>0, <1>1 DEF TakesFilledEntries, readVars
    <3>2. i'[w] = 1 /\ n'[w] = num /\ pc'[w] = l
      BY <1>0, <1>1 DEF TakeTypeOK
    <3>3. \A k \in 1 .. num : k \in 1 .. MAX_COMPLETIONS /\ k <= num
      BY <1>2, <1>3
    <3>4. \A k \in 1 .. num : wc'[k] \in Completion
      BY <1>5, <1>11, <3>3
    <3>5. l \in Taking => l = "take"
      BY <1>l DEF Taking
    <3>6. l # "reread" /\ (l = "take" => 1 <= num)
      BY <1>3, <1>l
    <3> QED  BY <2>1, <3>1, <3>2, <3>4, <3>5, <3>6
  <2>2. CASE v # w
    <3>1. /\ pc'[v] = pc[v] /\ i'[v] = i[v] /\ n'[v] = n[v] /\ sock'[v] = sock[v]
          /\ chunk'[v] = chunk[v]
      BY <1>0, <1>1, <2>2 DEF TakeTypeOK, readVars, copyVars
    <3>2. n[v] \in 0 .. MAX_COMPLETIONS
      BY <1>0 DEF TakeTypeOK
    <3>3. ASSUME pc[v] \in Taking, NEW k \in 1 .. n[v]
          PROVE  wc'[k] \in Completion
      <4>1. wc[k] \in Completion /\ k \in 1 .. MAX_COMPLETIONS
        BY <1>0, <1>2, <3>2, <3>3 DEF TakesFilledEntries
      <4>2. k <= num => k \in 1 .. num
        BY <1>3
      <4> QED  BY <1>5, <1>11, <4>1, <4>2
    <3> QED  BY <1>0, <3>1, <3>3 DEF TakesFilledEntries
  <2> QED  BY <2>1, <2>2
<1>13. (raced \/ \A v \in Workers : LocalOK(v))'
  <2>1. CASE raced'
    BY <2>1
  <2>2. CASE ~raced'
    <3>1. ~raced /\ (num > 0 => ~OtherTaking(w))
      BY <1>1, <2>2
    <3>2. ASSUME NEW v \in Workers PROVE LocalOK(v)'
      <4>1. CASE v = w
        BY <1>0, <1>1, <1>l, <4>1 DEF LocalOK
      <4>2. CASE v # w
        <5>1. LocalOK(v)
          BY <3>1 DEF TypeInv
        <5>2. /\ pc'[v] = pc[v] /\ i'[v] = i[v] /\ want'[v] = want[v]
              /\ read'[v] = read[v] /\ len'[v] = len[v]
          BY <1>0, <1>1, <4>2 DEF TakeTypeOK, readVars, copyVars
        <5>3. pc[v] = "again" => wc'[i[v]] = wc[i[v]]
          <6>1. CASE num > 0
            BY <3>1, <4>2, <6>1 DEF OtherTaking, Taking
          <6>2. CASE ~(num > 0)
            <7>1. \A k \in 1 .. MAX_COMPLETIONS : wc'[k] = wc[k]
              BY <1>3, <1>11, <6>2
            <7>2. pc[v] = "again" => i[v] \in 1 .. MAX_COMPLETIONS
              BY EntryFilled, <1>2 DEF Taking
            <7> QED  BY <7>1, <7>2
          <6> QED  BY <6>1, <6>2
        <5> QED  BY <5>1, <5>2, <5>3 DEF LocalOK
      <4> QED  BY <4>1, <4>2
    <3> QED  BY <3>2
  <2> QED  BY <2>1, <2>2
<1> QED  BY <1>6, <1>7, <1>9, <1>10, <1>12, <1>13 DEF TypeInv, TypeOK, TakesFilledEntries

\* Arming the queue, or failing to.
LEMMA RearmTypeInv ==
    ASSUME TypeInv, NEW w \in Workers, Rearm(w)
    PROVE  TypeInv'
<1>0. /\ MemTypeOK /\ CqTypeOK /\ TakeTypeOK /\ CopyTypeOK /\ TypeOK /\ sock[w] \in Sockets
      /\ pc \in [Workers -> {"loop", "event"} \cup Draining]
  BY WorkerTypes
<1>1. /\ pc[w] = "rearm"
      /\ armed' = armed \/ armed' = [armed EXCEPT ![sock[w]] = TRUE]
      /\ stuck' = stuck \/ stuck' = stuck \cup {sock[w]}
      /\ rearmed' = [rearmed EXCEPT ![w] = TRUE]
      /\ pc' = [pc EXCEPT ![w] = "poll"]
      /\ UNCHANGED <<memVars, cq, events, need_ack, wc, rx_buffers, got, readVars, read,
                     n, i, at, copyVars, history, crash>>
  BY DEF Rearm, At, Goto
<1>2. MemTypeOK' /\ CopyTypeOK'
  BY <1>0, <1>1 DEF MemTypeOK, CopyTypeOK, memVars, readVars, copyVars, history
<1>3. armed' \in [Sockets -> BOOLEAN] /\ stuck' \subseteq Sockets
  BY <1>0, <1>1 DEF CqTypeOK
<1>4. CqTypeOK'
  BY <1>0, <1>1, <1>3 DEF CqTypeOK
<1>5. TakeTypeOK'
  BY <1>0, <1>1 DEF TakeTypeOK
<1>6. /\ pc' \in [Workers -> {"loop", "event"} \cup Draining]
      /\ crash' \in BOOLEAN /\ raced' \in BOOLEAN /\ mixed' \in BOOLEAN
  BY <1>0, <1>1 DEF TypeOK, Draining, history
<1>7. TakesFilledEntries'
  <2>1. UNCHANGED <<wc, n, sock>> /\ \A v \in Workers \ {w} : i'[v] = i[v] /\ chunk'[v] = chunk[v]
    BY <1>1 DEF readVars, copyVars
  <2>2. "poll" \notin Taking
    BY DEF Taking
  <2> QED  BY <1>1, <2>1, <2>2, KeepsFilled
<1>8. (raced \/ \A v \in Workers : LocalOK(v))'
  <2>1. LocalOK(w)'
    BY <1>0, <1>1 DEF LocalOK
  <2>2. UNCHANGED <<wc, raced>>
    BY <1>1 DEF history
  <2>3. \A v \in Workers \ {w} : /\ pc'[v] = pc[v] /\ i'[v] = i[v] /\ want'[v] = want[v]
                                 /\ read'[v] = read[v] /\ len'[v] = len[v]
    BY <1>0, <1>1 DEF readVars, copyVars
  <2> QED  BY <2>1, <2>2, <2>3, KeepsLocal
<1> QED  BY <1>2, <1>4, <1>5, <1>6, <1>7, <1>8 DEF TypeInv, TypeOK

\* The process dies in the middle of a turn.
LEMMA DieTypeInv ==
    ASSUME TypeInv, crash' = TRUE,
           UNCHANGED <<memVars, notifyVars, wc, rx_buffers, got, pc, readVars, read, rearmed, n,
                       i, at, copyVars, history>>
    PROVE  TypeInv'
BY DEF TypeInv, TypeOK, MemTypeOK, CqTypeOK, TakeTypeOK, CopyTypeOK, TakesFilledEntries, LocalOK,
       memVars, notifyVars, readVars, copyVars, history

\* The looks of one turn, each at whatever the entry says by then: the chunk, the
\* status, the length that decides and the length of the copy, the offset.
LEMMA LooksTypeInv ==
    ASSUME TypeInv, NEW w \in Workers,
           TakeChunk(w) \/ TakeStatus(w) \/ TakeLength(w) \/ TakeLengthAgain(w) \/ TakeCopy(w)
    PROVE  TypeInv'
<1>0. /\ MemTypeOK /\ CopyTypeOK
      /\ read[w] \in Nat /\ len[w] \in Nat /\ (raced \/ read[w] <= len[w])
      /\ want[w] \in Nat /\ keep[w] \in BOOLEAN /\ seen[w] \in Nat
      /\ raced \/ LocalOK(w)
  BY WorkerTypes
<1>1. pc[w] \in Taking
  BY DEF TakeChunk, TakeStatus, TakeLength, TakeLengthAgain, TakeCopy, At, Taking
<1>2. wc[i[w]].chunk \in Chunks /\ wc[i[w]].byte_len \in Nat
  BY <1>1, EntryFilled
<1>3. /\ chunk = [chunk EXCEPT ![w] = chunk[w]] /\ want = [want EXCEPT ![w] = want[w]]
      /\ keep = [keep EXCEPT ![w] = keep[w]] /\ seen = [seen EXCEPT ![w] = seen[w]]
  BY <1>0 DEF CopyTypeOK
<1>4. CASE TakeChunk(w)
  <2>1. /\ pc' = [pc EXCEPT ![w] = "status"] /\ chunk' = [chunk EXCEPT ![w] = wc[i[w]].chunk]
        /\ UNCHANGED <<memVars, notifyVars, wc, rx_buffers, got, readVars, read, rearmed, n, i,
                       at, history, crash>>
        /\ UNCHANGED <<want, keep, seen>>
    BY <1>4 DEF TakeChunk, Goto
  <2>2. "status" \in Taking \ {"take"} /\ "status" \notin {"again", "copy", "move"}
    BY DEF Taking
  <2>3. /\ want' = [want EXCEPT ![w] = want[w]] /\ keep' = [keep EXCEPT ![w] = keep[w]]
        /\ seen' = [seen EXCEPT ![w] = seen[w]]
    BY <1>3, <2>1
  <2>4. Look(w, "status", wc[i[w]].chunk, want[w], keep[w], seen[w])
    BY <2>1, <2>3 DEF Look
  <2> QED  BY <1>0, <1>1, <1>2, <2>2, <2>4, LookTypeInv
<1>5. ASSUME pc[w] # "take" PROVE chunk[w] \in Chunks
  BY <1>1, <1>5 DEF TypeInv, TakesFilledEntries
<1>6. CASE TakeStatus(w)
  <2>1. /\ pc[w] = "status"
        /\ UNCHANGED <<memVars, notifyVars, wc, rx_buffers, got, readVars, read, rearmed, n, i,
                       at, history>>
        /\ UNCHANGED <<chunk, want, keep, seen>>
    BY <1>6 DEF TakeStatus, At, copyVars
  <2>2. CASE crash' = TRUE /\ pc' = pc
    BY <2>1, <2>2, DieTypeInv DEF copyVars
  <2>3. CASE pc' = [pc EXCEPT ![w] = "length"] /\ crash' = crash
    <3>1. /\ "length" \in Taking \ {"take"} /\ chunk[w] \in Chunks
          /\ "length" \notin {"again", "copy", "move"}
      BY <1>5, <2>1 DEF Taking
    <3>2. UNCHANGED <<memVars, notifyVars, wc, rx_buffers, got, readVars, read, rearmed, n, i,
                      at, history, crash>>
      BY <2>1, <2>3
    <3>3. /\ chunk' = [chunk EXCEPT ![w] = chunk[w]] /\ want' = [want EXCEPT ![w] = want[w]]
          /\ keep' = [keep EXCEPT ![w] = keep[w]] /\ seen' = [seen EXCEPT ![w] = seen[w]]
      BY <1>3, <2>1
    <3>4. Look(w, "length", chunk[w], want[w], keep[w], seen[w])
      BY <2>3, <3>2, <3>3 DEF Look
    <3> QED  BY <1>0, <1>1, <3>1, <3>4, LookTypeInv
  <2> QED  BY <1>6, <2>2, <2>3 DEF TakeStatus, Goto
<1>7. CASE TakeLength(w)
  <2>1. /\ pc[w] = "length" /\ read[w] # len[w]
        /\ keep' = [keep EXCEPT ![w] = Fills(w)]
        /\ UNCHANGED <<memVars, notifyVars, wc, rx_buffers, got, readVars, read, rearmed, n, i,
                       at, history, crash>>
        /\ UNCHANGED <<chunk, seen>>
    BY <1>7 DEF TakeLength, At
  <2>2. Fills(w) \in BOOLEAN /\ chunk[w] \in Chunks
    BY <1>5, <2>1 DEF Fills
  <2>3. CASE Fills(w)
    <3>1. pc' = [pc EXCEPT ![w] = "copy"] /\ want' = [want EXCEPT ![w] = Room(w)]
      BY <1>7, <2>3 DEF TakeLength, Goto
    <3>2. Room(w) \in Nat /\ (raced \/ read[w] + Room(w) <= len[w])
      BY <1>0, RxPathAssumption DEF Room
    <3>3. "copy" \in Taking \ {"take"} /\ "copy" # "again"
      BY DEF Taking
    <3>4. chunk' = [chunk EXCEPT ![w] = chunk[w]] /\ seen' = [seen EXCEPT ![w] = seen[w]]
      BY <1>3, <2>1
    <3>5. Look(w, "copy", chunk[w], Room(w), Fills(w), seen[w])
      BY <2>1, <3>1, <3>4 DEF Look
    <3> QED  BY <1>0, <1>1, <2>2, <3>2, <3>3, <3>5, LookTypeInv
  <2>4. CASE ~Fills(w)
    <3>1. pc' = [pc EXCEPT ![w] = "again"] /\ want' = want
      BY <1>7, <2>4 DEF TakeLength, Goto
    <3>2. read[w] + wc[i[w]].byte_len < len[w]
      BY <1>0, <1>2, <2>4 DEF Fills
    <3>3. "again" \in Taking \ {"take"} /\ "again" \notin {"copy", "move"}
      BY DEF Taking
    <3>4. /\ chunk' = [chunk EXCEPT ![w] = chunk[w]] /\ want' = [want EXCEPT ![w] = want[w]]
          /\ seen' = [seen EXCEPT ![w] = seen[w]]
      BY <1>3, <2>1, <3>1
    <3>5. Look(w, "again", chunk[w], want[w], Fills(w), seen[w])
      BY <2>1, <3>1, <3>4 DEF Look
    <3> QED  BY <1>0, <1>1, <2>2, <3>2, <3>3, <3>5, LookTypeInv
  <2> QED  BY <2>3, <2>4
<1>8. CASE TakeLengthAgain(w)
  <2>1. /\ pc[w] = "again" /\ pc' = [pc EXCEPT ![w] = "copy"]
        /\ want' = [want EXCEPT ![w] = wc[i[w]].byte_len]
        /\ UNCHANGED <<memVars, notifyVars, wc, rx_buffers, got, readVars, read, rearmed, n, i,
                       at, history, crash>>
        /\ UNCHANGED <<chunk, keep, seen>>
    BY <1>8 DEF TakeLengthAgain, LengthAgain, At, Goto
  <2>2. "copy" \in Taking \ {"take"} /\ chunk[w] \in Chunks /\ "copy" # "again"
    BY <1>5, <2>1 DEF Taking
  <2>3. raced \/ read[w] + wc[i[w]].byte_len <= len[w]
    BY <1>0, <1>2, <2>1 DEF LocalOK
  <2>4. /\ chunk' = [chunk EXCEPT ![w] = chunk[w]] /\ keep' = [keep EXCEPT ![w] = keep[w]]
        /\ seen' = [seen EXCEPT ![w] = seen[w]]
    BY <1>3, <2>1
  <2>5. Look(w, "copy", chunk[w], wc[i[w]].byte_len, keep[w], seen[w])
    BY <2>1, <2>4 DEF Look
  <2> QED  BY <1>0, <1>1, <1>2, <2>2, <2>3, <2>5, LookTypeInv
<1>9. CASE TakeCopy(w)
  <2>1. /\ pc[w] = "copy" /\ pc' = [pc EXCEPT ![w] = "move"]
        /\ seen' = [seen EXCEPT ![w] = offset[chunk[w]]]
        /\ UNCHANGED <<memVars, notifyVars, wc, rx_buffers, got, readVars, read, rearmed, n, i,
                       at, history, crash>>
        /\ UNCHANGED <<chunk, want, keep>>
    BY <1>9 DEF TakeCopy, ChunkReadBegin, At, Goto
  <2>2. "move" \in Taking \ {"take"} /\ chunk[w] \in Chunks /\ "move" # "again"
    BY <1>5, <2>1 DEF Taking
  <2>3. offset[chunk[w]] \in Nat
    BY <1>0, <2>2 DEF MemTypeOK
  <2>4. raced \/ read[w] + want[w] <= len[w]
    BY <1>0, <2>1 DEF LocalOK
  <2>5. /\ chunk' = [chunk EXCEPT ![w] = chunk[w]] /\ want' = [want EXCEPT ![w] = want[w]]
        /\ keep' = [keep EXCEPT ![w] = keep[w]]
    BY <1>3, <2>1
  <2>6. Look(w, "move", chunk[w], want[w], keep[w], offset[chunk[w]])
    BY <2>1, <2>5 DEF Look
  <2> QED  BY <1>0, <1>1, <2>2, <2>3, <2>4, <2>6, LookTypeInv
<1> QED  BY <1>4, <1>6, <1>7, <1>8, <1>9

\* The copy itself, or the chunk kept as it is.
LEMMA CopyTypeInv ==
    ASSUME TypeInv, NEW w \in Workers, KeepChunk(w) \/ TakeMove(w) \/ Reread(w)
    PROVE  TypeInv'
<1>0. /\ MemTypeOK /\ CopyTypeOK /\ TakeTypeOK /\ sock[w] \in Sockets
      /\ pc \in [Workers -> {"loop", "event"} \cup Draining]
  BY WorkerTypes
<1>1. ASSUME pc[w] \in {"reread"} \cup (Taking \ {"take"})
      PROVE  /\ chunk[w] \in Chunks
             /\ Append(rx_buffers[sock[w]], chunk[w]) \in Seq(Chunks)
             /\ [rx_buffers EXCEPT ![sock[w]] = Append(@, chunk[w])] \in [Sockets -> Seq(Chunks)]
             /\ rx_buffers \in [Sockets -> Seq(Chunks)]
  <2>1. chunk[w] \in Chunks
    BY <1>1 DEF TypeInv, TakesFilledEntries
  <2>2. rx_buffers \in [Sockets -> Seq(Chunks)]
    BY <1>0 DEF MemTypeOK
  <2>3. Append(rx_buffers[sock[w]], chunk[w]) \in Seq(Chunks)
    BY <1>0, <2>1, <2>2
  <2> QED  BY <1>0, <2>1, <2>2, <2>3
<1>2. /\ i \in [Workers -> 1 .. (MAX_COMPLETIONS + 1)]
      /\ at \in [Workers -> Nat \ {0}] /\ read \in [Workers -> Nat]
      /\ offset \in [Chunks -> Nat] /\ got \in [Sockets -> Seq(Nat)]
      /\ raced \/ \A v \in Workers : read[v] <= len[v]
  BY <1>0 DEF TakeTypeOK, CopyTypeOK, MemTypeOK
<1>3. CASE KeepChunk(w)
  <2>1. /\ pc[w] = "length"
        /\ rx_buffers' = [rx_buffers EXCEPT ![sock[w]] = Append(@, chunk[w])]
        /\ NextCompletion(w)
        /\ UNCHANGED <<srq, buffer, sent, used, notifyVars, wc, readVars, rearmed, n,
                       history, crash>>
        /\ UNCHANGED <<read, offset, got, at>>
    BY <1>3 DEF KeepChunk, At, memVars
  <2>2. pc[w] \in Taking /\ pc[w] \in {"reread"} \cup (Taking \ {"take"}) /\ pc[w] # "loop"
    BY <2>1 DEF Taking
  <2>3. PICK l \in {"take", "poll"} : /\ pc' = [pc EXCEPT ![w] = l]
                                      /\ l = "take" => i'[w] <= n[w]
    BY <2>1, <2>2, NextTypes
  <2>4. /\ i' \in [Workers -> 1 .. (MAX_COMPLETIONS + 1)]
        /\ \A v \in Workers \ {w} : i'[v] = i[v]
        /\ ForgetChunk(w)
    BY <2>1, <2>2, NextTypes
  <2>5. /\ rx_buffers' \in [Sockets -> Seq(Chunks)]
        /\ at' \in [Workers -> Nat \ {0}] /\ read' \in [Workers -> Nat]
        /\ offset' \in [Chunks -> Nat] /\ got' \in [Sockets -> Seq(Nat)]
        /\ raced \/ \A v \in Workers : read'[v] <= len[v]
    BY <1>1, <1>2, <2>1, <2>2
  <2> QED  BY <2>1, <2>2, <2>3, <2>4, <2>5, TurnTypeInv
<1>4. CASE TakeMove(w)
  <2>1. /\ pc[w] = "move"
        /\ UNCHANGED <<srq, buffer, sent, used, notifyVars, wc, readVars, rearmed, n, at, history>>
    BY <1>4 DEF TakeMove, At
  <2>2. CASE Endless(w)
    <3>1. crash' = TRUE /\ UNCHANGED <<read, offset, got, rx_buffers, copyVars, i, pc>>
      BY <1>4, <2>2 DEF TakeMove
    <3>2. UNCHANGED <<memVars, notifyVars, wc, rx_buffers, got, pc, readVars, read, rearmed, n,
                      i, at, copyVars, history>>
      BY <2>1, <3>1 DEF memVars
    <3> QED  BY <3>1, <3>2, DieTypeInv
  <2>3. CASE ~Endless(w)
    <3>1. ChunkReadEnd(w) /\ rx_buffers' = Kept(w) /\ NextCompletion(w) /\ crash' = crash
      BY <1>4, <2>3 DEF TakeMove
    <3>2. pc[w] \in Taking /\ pc[w] \in {"reread"} \cup (Taking \ {"take"}) /\ pc[w] # "loop"
      BY <2>1 DEF Taking
    <3>3. PICK l \in {"take", "poll"} : /\ pc' = [pc EXCEPT ![w] = l]
                                        /\ l = "take" => i'[w] <= n[w]
      BY <3>1, <3>2, NextTypes
    <3>4. /\ i' \in [Workers -> 1 .. (MAX_COMPLETIONS + 1)]
          /\ \A v \in Workers \ {w} : i'[v] = i[v]
          /\ ForgetChunk(w)
      BY <3>1, <3>2, NextTypes
    <3>5. /\ read' \in [Workers -> Nat]
          /\ raced \/ \A v \in Workers : read'[v] <= len[v]
          /\ \A v \in Workers \ {w} : read'[v] = read[v]
          /\ offset' \in [Chunks -> Nat]
          /\ got' \in [Sockets -> Seq(Nat)]
      BY <2>1, <3>1, ChunkReadTypes
    <3>6. rx_buffers' \in [Sockets -> Seq(Chunks)] /\ at' \in [Workers -> Nat \ {0}]
      BY <1>1, <1>2, <2>1, <3>1, <3>2 DEF Kept
    <3>7. UNCHANGED <<srq, buffer, sent, used, notifyVars, wc, readVars, rearmed, n,
                      history, crash>>
      BY <2>1, <3>1
    <3> QED  BY <3>2, <3>3, <3>4, <3>5, <3>6, <3>7, TurnTypeInv
  <2> QED  BY <2>2, <2>3
<1>5. CASE Reread(w)
  <2>1. /\ pc[w] = "reread" /\ ChunkReadEnd(w) /\ ForgetChunk(w)
        /\ pc' = [pc EXCEPT ![w] = "buffers"]
        /\ at' = [at EXCEPT ![w] = @ + 1]
        /\ UNCHANGED <<srq, buffer, sent, used, notifyVars, wc, readVars, rearmed, n,
                       history, crash>>
        /\ UNCHANGED <<rx_buffers, i>>
    BY <1>5 DEF Reread, At, Goto
  <2>2. /\ read' \in [Workers -> Nat]
        /\ raced \/ \A v \in Workers : read'[v] <= len[v]
        /\ \A v \in Workers \ {w} : read'[v] = read[v]
        /\ offset' \in [Chunks -> Nat]
        /\ got' \in [Sockets -> Seq(Nat)]
    BY <2>1, ChunkReadTypes
  <2>3. at' \in [Workers -> Nat \ {0}]
    BY <1>2, <2>1
  <2>4. /\ i' \in [Workers -> 1 .. (MAX_COMPLETIONS + 1)]
        /\ \A v \in Workers \ {w} : i'[v] = i[v]
        /\ rx_buffers' \in [Sockets -> Seq(Chunks)]
    BY <1>1, <1>2, <2>1
  <2> QED  BY <2>1, <2>2, <2>3, <2>4, TurnTypeInv
<1> QED  BY <1>3, <1>4, <1>5

\* The steps of read() keep the types, whatever another worker polled into the
\* shared array in between.
LEMMA ReadTypeInv ==
    ASSUME TypeInv, NEW w \in Workers, ReadSteps(w)
    PROVE  TypeInv'
BY EventTypeInv, BuffersTypeInv, PollTypeInv, RearmTypeInv, LooksTypeInv, CopyTypeInv
   DEF ReadSteps

\* Every step keeps TypeInv.
LEMMA NextTypeInv == TypeInv /\ [Next]_vars => TypeInv'
<1> SUFFICES ASSUME TypeInv, [Next]_vars PROVE TypeInv'
  OBVIOUS
<1>1. CASE UNCHANGED vars
  BY <1>1 DEF TypeInv, TypeOK, MemTypeOK, CqTypeOK, TakeTypeOK, CopyTypeOK, LocalOK,
              TakesFilledEntries, vars, memVars, notifyVars, readVars, copyVars, history
<1> QED
  BY <1>1, AdapterTypeInv, SendTypeInv, ReadCallTypeInv, ReadTypeInv DEF Next, Crashed

\* The state of the receive path is well typed for any number of workers, and with it:
\* until one of them polls into the array another is taking from, read() never copies
\* more than the caller asked for, whatever state send() left the chunks in.
THEOREM TypeCorrect == Spec => []TypeOK
<1>1. TypeInv => TypeOK
  BY DEF TypeInv
<1> QED  BY InitTypeInv, NextTypeInv, <1>1, PTL DEF Spec

\* read() never looks at an entry that no poll has filled, and always copies out of a
\* chunk, although all the workers poll into the same array between any two looks.
THEOREM TakesOnlyFilled == Spec => []TakesFilledEntries
<1>1. TypeInv => TakesFilledEntries
  BY DEF TypeInv
<1> QED  BY InitTypeInv, NextTypeInv, <1>1, PTL DEF Spec

-----------------------------------------------------------------------------
(* No lost wakeup.                                                          *)

\* A socket whose queue, events and place in read() a step leaves alone keeps
\* its part of the invariant.
LEMMA NotifyOther ==
    ASSUME NEW s \in Sockets, NotifyOK(s),
           armed'[s] = armed[s], events'[s] = events[s], cq'[s] = cq[s],
           s \in stuck <=> s \in stuck', DrainedBy(s) <=> DrainedBy(s)',
           DrainedBy(s) => rearmed'[Owner[s]] = rearmed[Owner[s]],
           sock'[Owner[s]] = s /\ pc'[Owner[s]] \in {"event", "rearm"}
               => ~rearmed'[Owner[s]]
    PROVE  NotifyOK(s)'
BY DEF NotifyOK

\* A step of the thread of w inside read() touches the notification state of the
\* socket it reads and of no other, and no other thread.
LEMMA ReadStepsOthers ==
    ASSUME TypeInv, NEW w \in Workers, ReadSteps(w)
    PROVE  /\ sock' = sock
           /\ \A v \in Workers \ {w} : pc'[v] = pc[v] /\ rearmed'[v] = rearmed[v]
           /\ \A s \in Sockets \ {sock[w]} :
                 /\ armed'[s] = armed[s] /\ events'[s] = events[s] /\ cq'[s] = cq[s]
                 /\ (s \in stuck <=> s \in stuck')
<1>1. /\ pc \in [Workers -> {"loop", "event"} \cup Draining]
      /\ cq \in [Sockets -> Seq(Completion)]
      /\ armed \in [Sockets -> BOOLEAN]
      /\ events \in [Sockets -> Nat]
      /\ rearmed \in [Workers -> BOOLEAN]
  BY DEF TypeInv, TypeOK, CqTypeOK, TakeTypeOK
<1>2. CASE GetCqEvent(w)
  BY <1>1, <1>2 DEF GetCqEvent, Goto, readVars
<1>3. CASE ReadBuffers(w) \/ Reread(w)
  BY <1>1, <1>3 DEF ReadBuffers, Reread, Goto, readVars, notifyVars
<1>4. CASE PollCq(w)
  BY <1>1, <1>4 DEF PollCq, Goto, readVars
<1>5. CASE TakeChunk(w) \/ TakeStatus(w) \/ TakeLength(w) \/ TakeLengthAgain(w) \/ TakeCopy(w)
  BY <1>1, <1>5 DEF TakeChunk, TakeStatus, TakeLength, TakeLengthAgain, TakeCopy, Goto, readVars,
                    notifyVars
<1>6. CASE KeepChunk(w) \/ TakeMove(w)
  BY <1>1, <1>6 DEF KeepChunk, TakeMove, NextCompletion, Goto, readVars, notifyVars
<1>7. CASE Rearm(w)
  BY <1>1, <1>7 DEF Rearm, Goto, readVars
<1> QED  BY <1>2, <1>3, <1>4, <1>5, <1>6, <1>7 DEF ReadSteps

\* Where read() is between the event and the poll, or takes what it polled.
Working == {"buffers", "reread"} \cup Taking

\* What each step of read() does to the socket it works on: the event is read
\* before anything is drained, and only a thread that armed the queue leaves,
\* after a poll that found it empty.
LEMMA ReadStepShape ==
    ASSUME TypeInv, NEW w \in Workers, ReadSteps(w)
    PROVE  LET s == sock[w]
           IN  \/ /\ pc[w] = "event" /\ pc'[w] = "buffers"
                  /\ events[s] > 0 /\ events'[s] = events[s] - 1
                  /\ UNCHANGED <<cq, armed, stuck, rearmed>>
               \/ /\ pc[w] \in Working /\ pc'[w] \in Working \cup {"poll"}
                  /\ UNCHANGED <<cq, events, armed, stuck, rearmed>>
               \/ /\ pc[w] = "poll" /\ pc'[w] = "take"
                  /\ Len(cq[s]) > 0 /\ Len(cq'[s]) \in 0 .. (Len(cq[s]) - 1)
                  /\ UNCHANGED <<events, armed, stuck, rearmed>>
               \/ /\ pc[w] = "poll" /\ cq[s] = <<>> /\ cq'[s] = <<>>
                  /\ pc'[w] = IF rearmed[w] THEN "loop" ELSE "rearm"
                  /\ UNCHANGED <<events, armed, stuck, rearmed>>
               \/ /\ pc[w] = "rearm" /\ pc'[w] = "poll" /\ rearmed'[w] = TRUE
                  /\ \/ armed'[s] = TRUE /\ stuck' = stuck
                     \/ armed' = armed /\ s \in stuck'
                  /\ UNCHANGED <<cq, events>>
<1> DEFINE s == sock[w]
<1>1. /\ pc \in [Workers -> {"loop", "event"} \cup Draining]
      /\ cq \in [Sockets -> Seq(Completion)]
      /\ armed \in [Sockets -> BOOLEAN]
      /\ events \in [Sockets -> Nat]
      /\ rearmed \in [Workers -> BOOLEAN]
      /\ s \in Sockets
  BY DEF TypeInv, TypeOK, CqTypeOK, TakeTypeOK, CopyTypeOK
<1>2. CASE GetCqEvent(w)
  BY <1>1, <1>2 DEF GetCqEvent, At, Goto
<1>3. CASE ReadBuffers(w) \/ Reread(w)
  BY <1>1, <1>3 DEF ReadBuffers, Reread, At, Goto, notifyVars, Working
<1>4. CASE PollCq(w)
  <2> DEFINE num == IF Len(cq[s]) < MAX_COMPLETIONS THEN Len(cq[s]) ELSE MAX_COMPLETIONS
  <2>1. /\ pc[w] = "poll"
        /\ cq'[s] = SubSeq(cq[s], num + 1, Len(cq[s]))
        /\ pc'[w] = IF num = 0 THEN AfterEmptyPoll(w) ELSE "take"
        /\ UNCHANGED <<events, armed, stuck, rearmed>>
    BY <1>1, <1>4 DEF PollCq, At, Goto
  <2>2. cq[s] \in Seq(Completion) /\ MAX_COMPLETIONS \in Nat \ {0}
    BY <1>1, RxPathAssumption
  <2>3. Len(cq[s]) \in Nat /\ num \in 0 .. Len(cq[s]) /\ (num = 0 => Len(cq[s]) = 0)
    BY <2>2
  <2> HIDE DEF num, s
  <2>4. Len(cq'[s]) = Len(cq[s]) - num /\ cq'[s] \in Seq(Completion)
    BY <2>1, <2>2, <2>3
  <2>5. CASE num = 0
    <3>1. cq[s] = <<>> /\ cq'[s] = <<>>
      BY <2>2, <2>3, <2>4, <2>5
    <3> QED  BY <2>1, <2>5, <3>1 DEF AfterEmptyPoll, s
  <2>6. CASE num # 0
    <3>1. Len(cq[s]) > 0 /\ Len(cq'[s]) \in 0 .. (Len(cq[s]) - 1)
      BY <2>3, <2>4, <2>6
    <3> QED  BY <2>1, <2>6, <3>1 DEF s
  <2> QED  BY <2>5, <2>6
<1>5. CASE TakeChunk(w) \/ TakeStatus(w) \/ TakeLength(w) \/ TakeLengthAgain(w) \/ TakeCopy(w)
  BY <1>1, <1>5 DEF TakeChunk, TakeStatus, TakeLength, TakeLengthAgain, TakeCopy, At, Goto,
                    notifyVars, Working, Taking
<1>6. CASE KeepChunk(w) \/ TakeMove(w)
  BY <1>1, <1>6 DEF KeepChunk, TakeMove, NextCompletion, At, Goto, notifyVars, Working, Taking
<1>7. CASE Rearm(w)
  BY <1>1, <1>7 DEF Rearm, At, Goto
<1> QED  BY <1>2, <1>3, <1>4, <1>5, <1>6, <1>7 DEF ReadSteps

\* The steps of read() keep the notification invariant of every socket.
LEMMA ReadNotifyInv ==
    ASSUME TypeInv, NotifyInv, NEW w \in Workers, ReadSteps(w)
    PROVE  NotifyInv'
<1>0. PICK s \in Sockets : s = sock[w]
  BY DEF TypeInv, TypeOK, CopyTypeOK
<1>1. /\ sock' = sock
      /\ \A v \in Workers \ {w} : pc'[v] = pc[v] /\ rearmed'[v] = rearmed[v]
      /\ \A t \in Sockets \ {s} :
            /\ armed'[t] = armed[t] /\ events'[t] = events[t] /\ cq'[t] = cq[t]
            /\ (t \in stuck <=> t \in stuck')
  BY <1>0, ReadStepsOthers
<1>2. /\ s \in Sockets /\ events[s] \in Nat /\ pc[w] # "loop"
      /\ rearmed[w] \in BOOLEAN /\ armed[s] \in BOOLEAN
  <2>1. s \in Sockets /\ events \in [Sockets -> Nat] /\ armed \in [Sockets -> BOOLEAN]
        /\ rearmed \in [Workers -> BOOLEAN]
    BY DEF TypeInv, TypeOK, CopyTypeOK, CqTypeOK, TakeTypeOK
  <2>2. pc[w] # "loop"
    BY ReadStepShape DEF Working, Taking
  <2> QED  BY <2>1, <2>2
<1>3. Owner[s] = w
  BY <1>0, <1>2 DEF TypeInv, TakesFilledEntries
<1>4. ASSUME NEW t \in Sockets \ {s}
      PROVE  NotifyOK(t)'
  <2>1. Owner[t] \in Workers /\ NotifyOK(t)
    BY RxPathAssumption DEF NotifyInv
  <2>2. CASE Owner[t] = w
    <3>1. ~DrainedBy(t) /\ ~DrainedBy(t)' /\ sock'[Owner[t]] # t
      BY <1>0, <1>1, <1>4, <2>2 DEF DrainedBy
    <3> QED  BY <1>1, <2>1, <3>1, NotifyOther
  <2>3. CASE Owner[t] # w
    <3>1. /\ pc'[Owner[t]] = pc[Owner[t]] /\ rearmed'[Owner[t]] = rearmed[Owner[t]]
          /\ sock'[Owner[t]] = sock[Owner[t]]
      BY <1>1, <2>1, <2>3
    <3>2. DrainedBy(t) <=> DrainedBy(t)'
      BY <3>1 DEF DrainedBy
    <3>3. sock'[Owner[t]] = t /\ pc'[Owner[t]] \in {"event", "rearm"} => ~rearmed'[Owner[t]]
      BY <2>1, <3>1 DEF NotifyOK
    <3> QED  BY <1>1, <2>1, <3>1, <3>2, <3>3, NotifyOther
  <2> QED  BY <2>2, <2>3
<1>5. NotifyOK(s)'
  <2>1. /\ NotifyOK(s)
        /\ DrainedBy(s) <=> pc[w] \in Draining
        /\ DrainedBy(s)' <=> pc'[w] \in Draining
    BY <1>0, <1>1, <1>3 DEF NotifyInv, DrainedBy
  <2>2. CASE /\ pc[w] = "event" /\ pc'[w] = "buffers"
             /\ events[s] > 0 /\ events'[s] = events[s] - 1
             /\ UNCHANGED <<cq, armed, stuck, rearmed>>
    BY <1>0, <1>2, <1>3, <2>1, <2>2 DEF NotifyOK, Draining, Taking
  <2>3. CASE /\ pc[w] \in Working /\ pc'[w] \in Working \cup {"poll"}
             /\ UNCHANGED <<events, armed, stuck, rearmed>>
    BY <1>2, <1>3, <2>1, <2>3 DEF NotifyOK, Draining, Working, Taking
  <2>4. CASE /\ pc[w] = "poll" /\ pc'[w] = "take"
             /\ UNCHANGED <<events, armed, stuck, rearmed>>
    BY <1>2, <1>3, <2>1, <2>4 DEF NotifyOK, Draining, Taking
  <2>5. CASE /\ pc[w] = "poll" /\ cq'[s] = <<>>
             /\ pc'[w] = IF rearmed[w] THEN "loop" ELSE "rearm"
             /\ UNCHANGED <<events, armed, stuck, rearmed>>
    BY <1>2, <1>3, <2>1, <2>5 DEF NotifyOK, Draining, Taking
  <2>6. CASE /\ pc[w] = "rearm" /\ pc'[w] = "poll" /\ rearmed'[w] = TRUE
             /\ armed'[s] = TRUE \/ (armed' = armed /\ s \in stuck')
             /\ UNCHANGED <<cq, events>>
    <3>1. ~rearmed[w] /\ ~armed[s] /\ events[s] = 0
      BY <1>0, <1>1, <1>2, <1>3, <2>1, <2>6 DEF NotifyOK, Draining
    <3> QED  BY <1>2, <1>3, <2>1, <2>6, <3>1 DEF NotifyOK, Draining
  <2> QED  BY <2>2, <2>3, <2>4, <2>5, <2>6, <1>0, ReadStepShape
<1> QED  BY <1>4, <1>5 DEF NotifyInv

\* A call of read() changes nothing the invariant speaks of: its thread was in
\* the event loop, and is now in front of the wait for an event.
LEMMA CallNotifyInv ==
    ASSUME TypeInv, NotifyInv, NEW s \in Sockets, NEW b \in Lens, ReadCall(s, b)
    PROVE  NotifyInv'
<1> DEFINE w == Owner[s]
<1>1. /\ w \in Workers /\ pc \in [Workers -> {"loop", "event"} \cup Draining]
      /\ rearmed \in [Workers -> BOOLEAN] /\ sock \in [Workers -> Sockets]
  BY RxPathAssumption DEF TypeInv, TypeOK, TakeTypeOK, CopyTypeOK
<1>2. /\ pc[w] = "loop"
      /\ pc' = [pc EXCEPT ![w] = "event"]
      /\ sock' = [sock EXCEPT ![w] = s]
      /\ rearmed' = [rearmed EXCEPT ![w] = FALSE]
      /\ UNCHANGED <<cq, armed, events, stuck>>
  BY DEF ReadCall, At, Goto, notifyVars
<1> HIDE DEF w
<1>3. ASSUME NEW t \in Sockets
      PROVE  NotifyOK(t)'
  <2>1. Owner[t] \in Workers /\ NotifyOK(t)
    BY RxPathAssumption DEF NotifyInv
  <2>2. CASE Owner[t] = w
    <3>1. ~DrainedBy(t) /\ ~DrainedBy(t)' /\ ~rearmed'[Owner[t]]
      BY <1>1, <1>2, <2>2 DEF DrainedBy, Draining, Taking
    <3> QED  BY <1>2, <2>1, <3>1, NotifyOther
  <2>3. CASE Owner[t] # w
    <3>1. /\ pc'[Owner[t]] = pc[Owner[t]] /\ rearmed'[Owner[t]] = rearmed[Owner[t]]
          /\ sock'[Owner[t]] = sock[Owner[t]]
      BY <1>1, <1>2, <2>1, <2>3
    <3>2. DrainedBy(t) <=> DrainedBy(t)'
      BY <3>1 DEF DrainedBy
    <3>3. sock'[Owner[t]] = t /\ pc'[Owner[t]] \in {"event", "rearm"} => ~rearmed'[Owner[t]]
      BY <2>1, <3>1 DEF NotifyOK
    <3> QED  BY <1>2, <2>1, <3>1, <3>2, <3>3, NotifyOther
  <2> QED  BY <2>2, <2>3
<1> QED  BY <1>3 DEF NotifyInv

\* What the adapter does to the notification state: one completion for s.
LEMMA AdapterShape ==
    ASSUME TypeInv, NEW s \in Sockets,
           ReceiveError(s) \/ \E b \in 0 .. ChunkSize : Receive(s, b)
    PROVE  /\ UNCHANGED <<stuck, pc, sock, rearmed>>
           /\ Len(cq'[s]) = Len(cq[s]) + 1
           /\ \/ armed[s] /\ ~armed'[s] /\ events'[s] = events[s] + 1
              \/ ~armed[s] /\ ~armed'[s] /\ events'[s] = events[s]
           /\ \A t \in Sockets \ {s} :
                 cq'[t] = cq[t] /\ armed'[t] = armed[t] /\ events'[t] = events[t]
<1>1. UNCHANGED <<pc, sock, rearmed>> /\ \E e : AddCompletion(s, e)
  BY DEF ReceiveError, Receive, readVars
<1>2. PICK e : AddCompletion(s, e)
  BY <1>1
<1>3. /\ cq \in [Sockets -> Seq(Completion)]
      /\ armed \in [Sockets -> BOOLEAN]
      /\ events \in [Sockets -> Nat]
  BY DEF TypeInv, TypeOK, CqTypeOK
<1>4. cq' = [cq EXCEPT ![s] = Append(@, e)] /\ stuck' = stuck
  BY <1>2 DEF AddCompletion
<1>5. \/ /\ armed[s]
         /\ events' = [events EXCEPT ![s] = @ + 1]
         /\ armed' = [armed EXCEPT ![s] = FALSE]
      \/ ~armed[s] /\ events' = events /\ armed' = armed
  BY <1>2 DEF AddCompletion
<1>6. cq'[s] = Append(cq[s], e) /\ Len(cq'[s]) = Len(cq[s]) + 1
  BY <1>3, <1>4
<1>7. \/ armed[s] /\ ~armed'[s] /\ events'[s] = events[s] + 1
      \/ ~armed[s] /\ ~armed'[s] /\ events'[s] = events[s]
  BY <1>3, <1>5
<1>8. \A t \in Sockets \ {s} :
         cq'[t] = cq[t] /\ armed'[t] = armed[t] /\ events'[t] = events[t]
  BY <1>3, <1>4, <1>5
<1> QED  BY <1>1, <1>4, <1>6, <1>7, <1>8

\* A completion raises an event when its queue is armed.
LEMMA AdapterNotifyInv ==
    ASSUME TypeInv, NotifyInv, NEW s \in Sockets,
           ReceiveError(s) \/ \E b \in 0 .. ChunkSize : Receive(s, b)
    PROVE  NotifyInv'
<1>1. /\ UNCHANGED <<stuck, pc, sock, rearmed>>
      /\ \/ armed[s] /\ ~armed'[s] /\ events'[s] = events[s] + 1
         \/ ~armed[s] /\ ~armed'[s] /\ events'[s] = events[s]
      /\ \A t \in Sockets \ {s} :
            cq'[t] = cq[t] /\ armed'[t] = armed[t] /\ events'[t] = events[t]
  BY AdapterShape
<1>2. \A t \in Sockets : DrainedBy(t) <=> DrainedBy(t)'
  BY <1>1 DEF DrainedBy
<1>3. ASSUME NEW t \in Sockets \ {s}
      PROVE  NotifyOK(t)'
  <2>1. NotifyOK(t)
    BY DEF NotifyInv
  <2>2. sock'[Owner[t]] = t /\ pc'[Owner[t]] \in {"event", "rearm"} => ~rearmed'[Owner[t]]
    BY <1>1, <2>1 DEF NotifyOK
  <2> QED  BY <1>1, <1>2, <2>1, <2>2, NotifyOther
<1>4. NotifyOK(s)'
  <2>1. NotifyOK(s) /\ (DrainedBy(s) <=> DrainedBy(s)')
    BY <1>2 DEF NotifyInv
  <2> QED  BY <1>1, <2>1 DEF NotifyOK
<1> QED  BY <1>3, <1>4 DEF NotifyInv

\* CompletionQueue::init has armed every queue before its first completion.
LEMMA InitNotifyInv == Init => NotifyInv
BY RxPathAssumption DEF Init, NotifyInv, NotifyOK, DrainedBy, Draining, Taking

\* Every step keeps the notification invariant of every socket.
LEMMA NextNotifyInv == TypeInv /\ NotifyInv /\ [Next]_vars => NotifyInv'
<1> SUFFICES ASSUME TypeInv, NotifyInv, [Next]_vars PROVE NotifyInv'
  OBVIOUS
<1>1. CASE UNCHANGED vars
  BY <1>1 DEF NotifyInv, NotifyOK, DrainedBy, vars, notifyVars, readVars
<1>2. ASSUME NEW w \in Workers, NEW c \in Chunks, NEW b \in WriteLens, SendWrite(w, c, b)
      PROVE  NotifyInv'
  BY <1>2 DEF SendWrite, NotifyInv, NotifyOK, DrainedBy, notifyVars, readVars
<1> QED
  BY <1>1, <1>2, ReadNotifyInv, CallNotifyInv, AdapterNotifyInv DEF Next, Crashed

\* The notification state of every socket stays consistent.
THEOREM NotifyCorrect == Spec => []NotifyInv
BY InitTypeInv, NextTypeInv, InitNotifyInv, NextNotifyInv, PTL DEF Spec

\* No completion is stranded in the receive queue of a socket whose owner is not
\* draining it, however many workers and sockets there are, unless an arming
\* request was refused.
THEOREM NeverStranded == Spec => []NoLostWakeup
<1>1. NotifyInv => NoLostWakeup
  BY DEF NotifyInv, NotifyOK, NoLostWakeup
<1> QED  BY <1>1, NotifyCorrect, PTL

-----------------------------------------------------------------------------
(* The receive queue implements Wakeup.                                     *)

\* What the refinement mapping reads of socket t is not changed.
LEMMA WakeupStutters ==
    ASSUME NEW t \in Sockets,
           cq'[t] = cq[t], events'[t] = events[t], t \in stuck <=> t \in stuck',
           DrainedBy(t) <=> DrainedBy(t)'
    PROVE  UNCHANGED Wk(t)!vars
BY DEF Wk!vars, DrainedBy

\* Every step is, for every socket, a step of Wakeup or none.
LEMMA WakeupStep ==
    ASSUME TypeInv, NotifyInv, [Next]_vars, NEW t \in Sockets
    PROVE  [Wk(t)!Next]_(Wk(t)!vars)
<1>1. /\ pc \in [Workers -> {"loop", "event"} \cup Draining]
      /\ cq \in [Sockets -> Seq(Completion)]
      /\ events \in [Sockets -> Nat]
      /\ sock \in [Workers -> Sockets]
      /\ Owner[t] \in Workers
      /\ NotifyOK(t)
  BY RxPathAssumption DEF TypeInv, TypeOK, CqTypeOK, CopyTypeOK, NotifyInv
<1>2. ASSUME NEW w \in Workers, ReadSteps(w), sock[w] # t
      PROVE  UNCHANGED Wk(t)!vars
  <2>1. /\ events'[t] = events[t] /\ cq'[t] = cq[t] /\ (t \in stuck <=> t \in stuck')
        /\ sock' = sock
        /\ \A v \in Workers \ {w} : pc'[v] = pc[v]
    BY <1>2, ReadStepsOthers
  <2>2. DrainedBy(t) <=> DrainedBy(t)'
    BY <1>1, <1>2, <2>1 DEF DrainedBy
  <2> QED  BY <2>1, <2>2, WakeupStutters
<1>3. ASSUME NEW w \in Workers, ReadSteps(w), sock[w] = t
      PROVE  [Wk(t)!Next]_(Wk(t)!vars)
  <2>1. sock' = sock
    BY <1>3, ReadStepsOthers
  <2>2. pc[w] # "loop"
    BY <1>3, ReadStepShape DEF Working, Taking
  <2>3. Owner[t] = w
    BY <1>3, <2>2 DEF TypeInv, TakesFilledEntries
  <2>4. (DrainedBy(t) <=> pc[w] \in Draining) /\ (DrainedBy(t)' <=> pc'[w] \in Draining)
    BY <1>3, <2>1, <2>3 DEF DrainedBy
  <2>5. CASE /\ pc[w] = "event" /\ pc'[w] = "buffers"
             /\ events[t] > 0 /\ events'[t] = events[t] - 1
             /\ UNCHANGED <<cq, armed, stuck, rearmed>>
    <3>1. ~DrainedBy(t) /\ DrainedBy(t)'
      BY <2>4, <2>5 DEF Draining, Working, Taking
    <3>2. ~(events'[t] > 0)
      BY <1>1, <2>5 DEF NotifyOK
    <3>3. Wk(t)!Wake
      BY <2>5, <3>1, <3>2 DEF Wk!Wake
    <3> QED  BY <3>3 DEF Wk!Next
  <2>6. CASE /\ pc[w] \in Working /\ pc'[w] \in Working \cup {"poll"}
             /\ UNCHANGED <<cq, events, armed, stuck, rearmed>>
    <3>1. DrainedBy(t) <=> DrainedBy(t)'
      BY <2>4, <2>6 DEF Draining, Working, Taking
    <3> QED  BY <2>6, <3>1, WakeupStutters
  <2>7. CASE /\ pc[w] = "poll" /\ pc'[w] = "take"
             /\ Len(cq[t]) > 0 /\ Len(cq'[t]) \in 0 .. (Len(cq[t]) - 1)
             /\ UNCHANGED <<events, armed, stuck, rearmed>>
    <3>1. DrainedBy(t) /\ DrainedBy(t)'
      BY <2>4, <2>7 DEF Draining, Working, Taking
    <3>2. UNCHANGED <<events[t] > 0, DrainedBy(t), t \in stuck>>
      BY <2>7, <3>1
    <3>3. Wk(t)!Take
      BY <2>7, <3>1, <3>2 DEF Wk!Take
    <3> QED  BY <3>3 DEF Wk!Next
  <2>8. CASE /\ pc[w] = "poll" /\ cq[t] = <<>> /\ cq'[t] = <<>>
             /\ pc'[w] = IF rearmed[w] THEN "loop" ELSE "rearm"
             /\ UNCHANGED <<events, armed, stuck, rearmed>>
    <3>1. CASE pc'[w] = "loop"
      <4>1. DrainedBy(t) /\ ~DrainedBy(t)' /\ Len(cq[t]) = 0
        BY <1>1, <2>4, <2>8, <3>1 DEF Draining, Taking
      <4>2. Wk(t)!Sleep
        BY <2>8, <4>1 DEF Wk!Sleep
      <4> QED  BY <4>2 DEF Wk!Next
    <3>2. CASE pc'[w] = "rearm"
      <4>1. DrainedBy(t) <=> DrainedBy(t)'
        BY <2>4, <2>8, <3>2 DEF Draining
      <4> QED  BY <2>8, <4>1, WakeupStutters
    <3> QED  BY <2>8, <3>1, <3>2
  <2>9. CASE /\ pc[w] = "rearm" /\ pc'[w] = "poll"
             /\ stuck' = stuck \/ t \in stuck'
             /\ UNCHANGED <<cq, events>>
    <3>1. DrainedBy(t) /\ DrainedBy(t)'
      BY <2>4, <2>9 DEF Draining, Working, Taking
    <3>2. CASE stuck' = stuck
      BY <2>9, <3>1, <3>2, WakeupStutters
    <3>3. CASE t \in stuck'
      <4>1. Wk(t)!Refuse
        BY <2>9, <3>1, <3>3 DEF Wk!Refuse
      <4> QED  BY <4>1 DEF Wk!Next
    <3> QED  BY <2>9, <3>2, <3>3
  <2> QED  BY <1>3, <2>5, <2>6, <2>7, <2>8, <2>9, ReadStepShape
<1>4. ASSUME NEW s \in Sockets, NEW b \in Lens, ReadCall(s, b)
      PROVE  UNCHANGED Wk(t)!vars
  <2>1. /\ pc[Owner[s]] = "loop" /\ pc' = [pc EXCEPT ![Owner[s]] = "event"]
        /\ sock' = [sock EXCEPT ![Owner[s]] = s] /\ UNCHANGED <<cq, events, stuck>>
    BY <1>4 DEF ReadCall, At, Goto, notifyVars
  <2>2. DrainedBy(t) <=> DrainedBy(t)'
    BY <1>1, <2>1 DEF DrainedBy, Draining, Taking
  <2> QED  BY <2>1, <2>2, WakeupStutters
<1>5. ASSUME NEW s \in Sockets,
             ReceiveError(s) \/ \E b \in 0 .. ChunkSize : Receive(s, b)
      PROVE  [Wk(t)!Next]_(Wk(t)!vars)
  <2>1. /\ UNCHANGED <<stuck, pc, sock>>
        /\ Len(cq'[s]) = Len(cq[s]) + 1
        /\ \/ armed[s] /\ events'[s] = events[s] + 1
           \/ ~armed[s] /\ events'[s] = events[s]
        /\ \A v \in Sockets \ {s} : cq'[v] = cq[v] /\ events'[v] = events[v]
    BY <1>5, AdapterShape
  <2>2. DrainedBy(t) <=> DrainedBy(t)'
    BY <2>1 DEF DrainedBy
  <2>3. CASE t # s
    BY <2>1, <2>2, <2>3, WakeupStutters
  <2>4. CASE t = s
    <3>1. /\ events[t] > 0 => events'[t] > 0
          /\ ~DrainedBy(t) => events'[t] > 0 \/ t \in stuck
      BY <1>1, <2>1, <2>4 DEF NotifyOK
    <3>2. Wk(t)!Arrive
      <4>1. UNCHANGED <<DrainedBy(t), t \in stuck>>
        BY <2>1, <2>2 DEF DrainedBy
      <4> QED  BY <2>1, <2>4, <3>1, <4>1 DEF Wk!Arrive
    <3> QED  BY <3>2 DEF Wk!Next
  <2> QED  BY <2>3, <2>4
<1>6. ASSUME NEW w \in Workers, NEW c \in Chunks, NEW b \in WriteLens, SendWrite(w, c, b)
      PROVE  UNCHANGED Wk(t)!vars
  <2>1. UNCHANGED <<cq, events, stuck, pc, sock>>
    BY <1>6 DEF SendWrite, notifyVars, readVars
  <2>2. DrainedBy(t) <=> DrainedBy(t)'
    BY <2>1 DEF DrainedBy
  <2> QED  BY <2>1, <2>2, WakeupStutters
<1>7. CASE UNCHANGED vars
  <2>1. UNCHANGED <<cq, events, stuck, pc, sock>>
    BY <1>7 DEF vars, notifyVars, readVars
  <2>2. DrainedBy(t) <=> DrainedBy(t)'
    BY <2>1 DEF DrainedBy
  <2> QED  BY <2>1, <2>2, WakeupStutters
<1> QED  BY <1>2, <1>3, <1>4, <1>5, <1>6, <1>7 DEF Next, Crashed

\* The receive completion queue of every socket implements the abstract promise
\* of Wakeup: from the first state on, and step by step.
THEOREM ImplementsWakeup == Spec => WakeupRefined
<1>1. Init => \A s \in Sockets : Wk(s)!Init
  BY RxPathAssumption DEF Init, Wk!Init, DrainedBy, Draining, Taking
<1>2. TypeInv /\ NotifyInv /\ [Next]_vars
        => [\A s \in Sockets : [Wk(s)!Next]_(Wk(s)!vars)]_vars
  BY WakeupStep
<1> QED
  BY <1>1, <1>2, InitTypeInv, NextTypeInv, InitNotifyInv, NextNotifyInv, PTL
     DEF Spec, WakeupRefined

-----------------------------------------------------------------------------
(***************************************************************************)
(* The stream of bytes, for one worker, until a send() writes into a chunk *)
(* whose bytes are still to be read.                                       *)
(***************************************************************************)

\* What a poll moves to the array, and what it leaves in the queue, is the queue.
LEMMA PolledAndLeft ==
    ASSUME NEW S, NEW q \in Seq(S), NEW m \in 0 .. Len(q), NEW v, \A k \in 1 .. m : v[k] = q[k]
    PROVE  SubSeq(v, 1, m) \o SubSeq(q, m + 1, Len(q)) = q
<1>0. Len(q) \in Nat /\ m \in Nat /\ 1 \in Int /\ m \in Int
  BY LenProperties
<1>1. \A k \in 1 .. m : q[k] \in S /\ v[k] \in S
  BY <1>0, ElementOfSeq
<1>2. /\ SubSeq(v, 1, m) \in Seq(S)
      /\ Len(SubSeq(v, 1, m)) = IF 1 <= m THEN m - 1 + 1 ELSE 0
      /\ \A k \in 1 .. m - 1 + 1 : SubSeq(v, 1, m)[k] = v[1 + k - 1]
  BY <1>0, <1>1, SubSeqProperties
<1>3. /\ SubSeq(q, 1, m) \in Seq(S)
      /\ Len(SubSeq(q, 1, m)) = IF 1 <= m THEN m - 1 + 1 ELSE 0
      /\ \A k \in 1 .. m - 1 + 1 : SubSeq(q, 1, m)[k] = q[1 + k - 1]
  BY <1>0, <1>1, SubSeqProperties
<1>4. SubSeq(v, 1, m) = SubSeq(q, 1, m)
  <2> DEFINE x == SubSeq(v, 1, m)
             y == SubSeq(q, 1, m)
  <2>1. Len(x) = m /\ Len(y) = m
    BY <1>0, <1>2, <1>3
  <2>2. \A k \in 1 .. m : 1 + k - 1 = k /\ k \in 1 .. m - 1 + 1
    BY <1>0
  <2>3. \A k \in 1 .. m : x[k] = y[k]
    BY <1>2, <1>3, <2>2
  <2>4. x \in Seq(S) /\ y \in Seq(S)
    BY <1>2, <1>3
  <2> HIDE DEF x, y
  <2>5. x = y
    BY <2>1, <2>3, <2>4, SeqEqual
  <2> QED  BY <2>5 DEF x, y
<1>5. SubSeq(q, 1, m) \o SubSeq(q, m + 1, Len(q)) = SubSeq(q, 1, Len(q))
  <2>1. 1 \in 1 .. Len(q) + 1 /\ m \in 1 - 1 .. Len(q) /\ Len(q) \in m .. Len(q)
    BY <1>0
  <2> QED  BY <2>1, ConcatAdjacentSubSeq
<1>6. SubSeq(q, 1, Len(q)) = q
  BY SubSeqFull
<1> QED  BY <1>4, <1>5, <1>6

\* Going on by one in the array takes the first element away.
LEMMA NextInArray ==
    ASSUME NEW S, NEW q \in Seq(S), NEW v, NEW a \in Nat, NEW b \in Nat, a <= b,
           \A k \in a .. b : v[k] \in S
    PROVE  /\ SubSeq(v, a, b) \o q \in Seq(S)
           /\ Len(SubSeq(v, a, b) \o q) > 0
           /\ Head(SubSeq(v, a, b) \o q) = v[a]
           /\ Tail(SubSeq(v, a, b) \o q) = SubSeq(v, a + 1, b) \o q
<1> DEFINE x == SubSeq(v, a, b)
           y == SubSeq(v, a + 1, b)
           s == x \o q
           t == y \o q
<1>1. /\ x \in Seq(S) /\ Len(x) = b - a + 1 /\ \A k \in 1 .. b - a + 1 : x[k] = v[a + k - 1]
  <2>1. a \in Int /\ b \in Int
    OBVIOUS
  <2> QED  BY <2>1, SubSeqProperties
<1>2. /\ y \in Seq(S) /\ Len(y) = b - a /\ \A k \in 1 .. b - a : y[k] = v[a + k]
  <2>1. a + 1 \in Int /\ b \in Int /\ \A k \in (a + 1) .. b : v[k] \in S
    OBVIOUS
  <2>2. /\ y \in Seq(S) /\ Len(y) = IF a + 1 <= b THEN b - (a + 1) + 1 ELSE 0
        /\ \A k \in 1 .. b - (a + 1) + 1 : y[k] = v[(a + 1) + k - 1]
    BY <2>1, SubSeqProperties
  <2> HIDE DEF y
  <2>3. Len(y) = b - a
    BY <2>2
  <2>4. ASSUME NEW k \in 1 .. b - a PROVE y[k] = v[a + k]
    <3>1. k \in 1 .. b - (a + 1) + 1 /\ (a + 1) + k - 1 = a + k
      OBVIOUS
    <3> QED  BY <2>2, <3>1
  <2> QED  BY <2>2, <2>3, <2>4
<1> HIDE DEF x, y
<1>3. Len(q) \in Nat
  BY LenProperties
<1>4. /\ s \in Seq(S) /\ Len(s) = Len(x) + Len(q)
      /\ \A k \in 1 .. Len(x) + Len(q) : s[k] = IF k <= Len(x) THEN x[k] ELSE q[k - Len(x)]
  BY <1>1, ConcatProperties
<1>5. /\ t \in Seq(S) /\ Len(t) = Len(y) + Len(q)
      /\ \A k \in 1 .. Len(y) + Len(q) : t[k] = IF k <= Len(y) THEN y[k] ELSE q[k - Len(y)]
  BY <1>2, ConcatProperties
<1> HIDE DEF s, t
<1>6. Len(s) \in Nat \ {0} /\ Len(t) = Len(s) - 1 /\ Len(x) = Len(y) + 1 /\ Len(y) \in Nat
  BY <1>1, <1>2, <1>3, <1>4, <1>5
<1>7. s # <<>>
  BY <1>6, EmptySeq
<1>8. Head(s) = v[a]
  <2>1. Head(s) = s[1]
    BY <1>4, <1>7
  <2>2. 1 \in 1 .. Len(x) + Len(q) /\ 1 <= Len(x) /\ 1 \in 1 .. b - a + 1 /\ a + 1 - 1 = a
    BY <1>1, <1>3
  <2> QED  BY <1>1, <1>4, <2>1, <2>2
<1>9. /\ Tail(s) \in Seq(S) /\ Len(Tail(s)) = Len(s) - 1
      /\ \A k \in 1 .. Len(Tail(s)) : Tail(s)[k] = s[k + 1]
  BY <1>4, <1>7, HeadTailProperties
<1> DEFINE u == Tail(s)
<1> HIDE DEF u
<1>10. ASSUME NEW k \in 1 .. Len(u) PROVE u[k] = t[k]
  <2>0. k \in Nat /\ k \in 1 .. Len(t) /\ u[k] = s[k + 1]
    BY <1>6, <1>9 DEF u
  <2>1. k + 1 \in 1 .. Len(x) + Len(q) /\ k \in 1 .. Len(y) + Len(q)
    BY <1>3, <1>5, <1>6, <2>0
  <2>2. CASE k <= Len(y)
    <3>1. k + 1 <= Len(x) /\ k + 1 \in 1 .. b - a + 1 /\ k \in 1 .. b - a /\ a + (k + 1) - 1 = a + k
      BY <1>1, <1>2, <1>6, <2>0, <2>2
    <3>2. s[k + 1] = x[k + 1] /\ t[k] = y[k]
      BY <1>4, <1>5, <2>1, <2>2, <3>1
    <3>3. x[k + 1] = v[a + k] /\ y[k] = v[a + k]
      BY <1>1, <1>2, <3>1
    <3> QED  BY <2>0, <3>2, <3>3
  <2>3. CASE ~(k <= Len(y))
    <3>1. ~(k + 1 <= Len(x)) /\ (k + 1) - Len(x) = k - Len(y)
      BY <1>6, <2>0, <2>3
    <3>2. s[k + 1] = q[(k + 1) - Len(x)] /\ t[k] = q[k - Len(y)]
      BY <1>4, <1>5, <2>1, <2>3, <3>1
    <3> QED  BY <2>0, <3>1, <3>2
  <2> QED  BY <2>2, <2>3
<1>11. u = t
  <2>1. u \in Seq(S) /\ Len(u) = Len(t)
    BY <1>6, <1>9 DEF u
  <2> QED  BY <1>5, <1>10, <2>1, SeqEqual
<1> QED  BY <1>4, <1>6, <1>8, <1>11 DEF s, t, u, x, y

\* What is appended to the second of two sequences ends their concatenation.
LEMMA AppendBehind ==
    ASSUME NEW S, NEW p \in Seq(S), NEW q \in Seq(S), NEW e \in S
    PROVE  p \o Append(q, e) = Append(p \o q, e)
<1>1. <<e>> \in Seq(S) /\ p \o q \in Seq(S)
  BY ConcatProperties
<1>2. Append(q, e) = q \o <<e>> /\ Append(p \o q, e) = (p \o q) \o <<e>>
  BY <1>1, AppendIsConcat
<1> QED  BY <1>1, <1>2, ConcatAssociative

\* The completions that read() of s has not looked at yet, in the order in which it
\* will: those it has polled and those still in the queue.
Now(w, s) == IF pc[w] \in Taking /\ sock[w] = s THEN SubSeq(wc, i[w], n[w]) ELSE <<>>
Coming(w, s) == Now(w, s) \o cq[s]

\* They are completions, since only entries that a poll filled are in them.
LEMMA ComingType ==
    ASSUME TypeInv, NEW w \in Workers, NEW s \in Sockets
    PROVE  /\ Now(w, s) \in Seq(Completion) /\ cq[s] \in Seq(Completion)
           /\ Coming(w, s) \in Seq(Completion)
           /\ Len(Coming(w, s)) \in Nat
<1>1. cq[s] \in Seq(Completion)
  BY DEF TypeInv, TypeOK, CqTypeOK
<1>2. Now(w, s) \in Seq(Completion)
  <2>1. CASE pc[w] \in Taking /\ sock[w] = s
    <3>1. i[w] \in Nat /\ n[w] \in Nat /\ i[w] >= 1
      <4>1. i[w] \in 1 .. (MAX_COMPLETIONS + 1) /\ n[w] \in 0 .. MAX_COMPLETIONS
        BY DEF TypeInv, TypeOK, TakeTypeOK
      <4> QED  BY <4>1, RxPathAssumption
    <3>2. \A k \in 1 .. n[w] : wc[k] \in Completion
      BY <2>1 DEF TypeInv, TakesFilledEntries
    <3>3. \A k \in i[w] .. n[w] : wc[k] \in Completion
      BY <3>1, <3>2
    <3>4. SubSeq(wc, i[w], n[w]) \in Seq(Completion)
      <4>1. i[w] \in Int /\ n[w] \in Int
        BY <3>1
      <4> QED  BY <3>3, <4>1, SubSeqProperties
    <3> QED  BY <2>1, <3>4 DEF Now
  <2>2. CASE ~(pc[w] \in Taking /\ sock[w] = s)
    BY <2>2, EmptySeq DEF Now
  <2> QED  BY <2>1, <2>2
<1>3. Coming(w, s) \in Seq(Completion)
  BY <1>1, <1>2, ConcatProperties DEF Coming
<1> QED  BY <1>1, <1>2, <1>3, LenProperties

\* The first b bytes of a chunk.
Prefix(c, b) == SubSeq(buffer[c], 1, b)

\* How a step moves bytes.  Nothing happens to them;
Stays(w) ==
    /\ UNCHANGED <<srq, buffer, sent, rx_buffers, offset, got>>
    /\ \A t \in Sockets : Coming(w, t)' = Coming(w, t)

\* a chunk that was kept is read once more;
Rereads(w) ==
    /\ UNCHANGED <<srq, buffer, sent, rx_buffers>>
    /\ \A t \in Sockets : Coming(w, t)' = Coming(w, t)
    /\ \E s \in Sockets : \E k \in 1 .. Len(rx_buffers[s]) : \E x \in Seq(Nat) :
          /\ \A c \in Chunks : c # rx_buffers[s][k] => offset'[c] = offset[c]
          /\ got' = [got EXCEPT ![s] = @ \o x]

\* a message arrives in the oldest posted chunk;
Arrives(w, s, e) ==
    /\ srq # <<>> /\ e.chunk = Head(srq) /\ srq' = Tail(srq)
    /\ UNCHANGED <<rx_buffers, offset, got>>
    /\ sent' = [sent EXCEPT ![s] = @ + e.byte_len]
    /\ \A c \in Chunks : c # e.chunk => buffer'[c] = buffer[c]
    /\ \A k \in 1 .. e.byte_len : buffer'[e.chunk][k] = sent[s] + k
    /\ Coming(w, s)' = Append(Coming(w, s), e)
    /\ \A t \in Sockets \ {s} : Coming(w, t)' = Coming(w, t)

\* a send() writes into a chunk that is not, or no longer, of interest to read();
Free(w, c) ==
    /\ \A k \in 1 .. Len(srq) : srq[k] # c
    /\ \A t \in Sockets : \A k \in 1 .. Len(Coming(w, t)) : Coming(w, t)[k].chunk # c
    /\ \A t \in Sockets : \A k \in 1 .. Len(rx_buffers[t]) : rx_buffers[t][k] # c
Writes(w) ==
    /\ UNCHANGED <<srq, sent, rx_buffers, got>>
    /\ \A t \in Sockets : Coming(w, t)' = Coming(w, t)
    /\ \E c \in Chunks : /\ Free(w, c)
                         /\ \A d \in Chunks : d # c => /\ buffer'[d] = buffer[d]
                                                      /\ offset'[d] = offset[d]

\* the next completion is taken, and its chunk kept or its bytes copied.
Takes(w, s) ==
    /\ UNCHANGED <<srq, buffer, sent>>
    /\ Coming(w, s) # <<>>
    /\ Coming(w, s)' = Tail(Coming(w, s))
    /\ \A t \in Sockets \ {s} : Coming(w, t)' = Coming(w, t)
    /\ LET e == Head(Coming(w, s))
       IN  /\ \A c \in Chunks : c # e.chunk => offset'[c] = offset[c]
           /\ \/ /\ rx_buffers' = [rx_buffers EXCEPT ![s] = Append(@, e.chunk)]
                 /\ \E x \in Seq(Nat) : got' = [got EXCEPT ![s] = @ \o x]
              \/ /\ rx_buffers' = rx_buffers
                 /\ offset[e.chunk] = 0 =>
                       got' = [got EXCEPT ![s] = @ \o Prefix(e.chunk, e.byte_len)]

\* The completions of all sockets stay where they are while neither the queues nor
\* the loop over the array move.
LEMMA ComingFrame ==
    ASSUME NEW w \in Workers, cq' = cq, wc' = wc, i' = i, n' = n, sock'[w] = sock[w],
           pc'[w] \in Taking <=> pc[w] \in Taking
    PROVE  \A t \in Sockets : Coming(w, t)' = Coming(w, t)
BY DEF Coming, Now

\* A worker outside the loop over the array has taken nothing out of the queues.
LEMMA ComingOutside ==
    ASSUME TypeInv, NEW w \in Workers, cq' = cq, pc[w] \notin Taking, pc'[w] \notin Taking
    PROVE  \A t \in Sockets : Coming(w, t)' = Coming(w, t)
BY DEF Coming, Now

\* PollCq moves completions from the queue to the array and no byte at all.
LEMMA PollStays ==
    ASSUME NEW w \in Workers, TypeInv, PollCq(w)
    PROVE  Stays(w)
<1>a. PICK s : s = sock[w]
  OBVIOUS
<1>b. PICK num : num = IF Len(cq[s]) < MAX_COMPLETIONS THEN Len(cq[s]) ELSE MAX_COMPLETIONS
  OBVIOUS
<1>0. s \in Sockets /\ pc \in [Workers -> {"loop", "event"} \cup Draining] /\ n \in [Workers -> 0 .. MAX_COMPLETIONS]
      /\ i \in [Workers -> 1 .. (MAX_COMPLETIONS + 1)] /\ cq \in [Sockets -> Seq(Completion)]
      /\ DOMAIN wc = 1 .. MAX_COMPLETIONS /\ MAX_COMPLETIONS \in Nat
  BY <1>a, RxPathAssumption DEF TypeInv, TypeOK, CopyTypeOK, CqTypeOK, TakeTypeOK
<1>1. cq[s] \in Seq(Completion) /\ Len(cq[s]) \in Nat
  BY <1>0, LenProperties
<1>2. num \in 0 .. Len(cq[s]) /\ num \in 0 .. MAX_COMPLETIONS
  BY <1>0, <1>1, <1>b
<1>3. /\ pc[w] = "poll" /\ sock' = sock
      /\ cq' = [cq EXCEPT ![s] = SubSeq(@, num + 1, Len(@))]
      /\ wc' = [k \in DOMAIN wc |-> IF k <= num THEN cq[s][k] ELSE wc[k]]
      /\ n' = [n EXCEPT ![w] = num] /\ i' = [i EXCEPT ![w] = 1]
      /\ pc' = [pc EXCEPT ![w] = IF num = 0 THEN AfterEmptyPoll(w) ELSE "take"]
      /\ UNCHANGED <<srq, buffer, sent, rx_buffers, offset, got>>
  BY <1>a, <1>b DEF PollCq, Polled, At, Goto, memVars, readVars
<1>4. AfterEmptyPoll(w) \notin Taking /\ "take" \in Taking /\ "poll" \notin Taking
  BY DEF AfterEmptyPoll, Taking
<1>5. n'[w] = num /\ i'[w] = 1 /\ pc'[w] = IF num = 0 THEN AfterEmptyPoll(w) ELSE "take"
  BY <1>0, <1>3
<1>6. /\ cq'[s] = SubSeq(cq[s], num + 1, Len(cq[s]))
      /\ \A t \in Sockets : t # s => cq'[t] = cq[t]
  BY <1>0, <1>3
<1>7. \A k \in 1 .. num : wc'[k] = cq[s][k]
  <2>1. \A k \in 1 .. num : k \in 1 .. MAX_COMPLETIONS /\ k <= num
    BY <1>0, <1>2
  <2> QED  BY <1>0, <1>3, <2>1
<1>8. SubSeq(wc', 1, num) \o SubSeq(cq[s], num + 1, Len(cq[s])) = cq[s]
  BY <1>1, <1>2, <1>7, PolledAndLeft
<1>9. Coming(w, s) = cq[s]
  <2>1. Now(w, s) = <<>>
    BY <1>3, <1>4 DEF Now
  <2> QED  BY <1>1, <2>1, ConcatEmptySeq DEF Coming
<1>10. Coming(w, s)' = cq[s]
  <2>1. CASE num = 0
    <3>1. Coming(w, s)' = <<>> \o cq'[s]
      BY <1>4, <1>5, <2>1 DEF Coming, Now
    <3>2. SubSeq(wc', 1, 0) = <<>>
      <4>1. 1 \in Int /\ 0 \in Int /\ 0 < 1
        OBVIOUS
      <4> QED  BY <4>1, SubSeqEmpty
    <3> QED  BY <1>6, <1>8, <2>1, <3>1, <3>2
  <2>2. CASE num # 0
    <3>1. sock'[w] = s
      BY <1>a, <1>3
    <3>2. Coming(w, s)' = SubSeq(wc', 1, num) \o cq'[s]
      BY <1>4, <1>5, <2>2, <3>1 DEF Coming, Now
    <3> QED  BY <1>6, <1>8, <3>2
  <2> QED  BY <2>1, <2>2
<1>11. ASSUME NEW t \in Sockets, t # s PROVE Coming(w, t)' = Coming(w, t)
  <2>1. sock'[w] # t
    BY <1>a, <1>3, <1>11
  <2> QED  BY <1>3, <1>4, <1>6, <1>11, <2>1 DEF Coming, Now
<1> QED  BY <1>3, <1>9, <1>10, <1>11 DEF Stays

\* The first bytes of a chunk, as a sequence.
LEMMA PrefixBytes ==
    ASSUME TypeInv, NEW c \in Chunks, NEW l \in 0 .. ChunkSize
    PROVE  /\ Prefix(c, l) \in Seq(Nat) /\ Len(Prefix(c, l)) = l
           /\ \A k \in 1 .. l : Prefix(c, l)[k] = buffer[c][k]
<1>0. buffer[c] \in [1 .. ChunkSize -> Nat] /\ ChunkSize \in Nat
  BY RxPathAssumption DEF TypeInv, TypeOK, MemTypeOK
<1>1. l \in Int /\ 1 \in Int /\ l \in Nat
  BY <1>0
<1>2. \A k \in 1 .. l : buffer[c][k] \in Nat
  <2>1. \A k \in 1 .. l : k \in 1 .. ChunkSize
    BY <1>0
  <2> QED  BY <1>0, <2>1
<1>3. PICK p, v : p = Prefix(c, l) /\ v = buffer[c]
  OBVIOUS
<1>4. /\ p \in Seq(Nat) /\ Len(p) = IF 1 <= l THEN l - 1 + 1 ELSE 0
      /\ \A k \in 1 .. l - 1 + 1 : p[k] = v[1 + k - 1]
  <2>1. p = SubSeq(v, 1, l)
    BY <1>3 DEF Prefix
  <2>2. \A k \in 1 .. l : v[k] \in Nat
    BY <1>2, <1>3
  <2> QED  BY <1>1, <2>1, <2>2, SubSeqProperties
<1>5. Len(p) = l
  BY <1>1, <1>4
<1>6. ASSUME NEW k \in 1 .. l PROVE p[k] = v[k]
  <2>1. k \in 1 .. l - 1 + 1 /\ 1 + k - 1 = k
    BY <1>1
  <2> QED  BY <1>4, <2>1
<1> QED  BY <1>3, <1>4, <1>5, <1>6

\* The bytes behind offset 0 are those.
LEMMA BytesPrefix ==
    ASSUME TypeInv, NEW c \in Chunks, NEW l \in 0 .. ChunkSize
    PROVE  Bytes(c, 0, l) = Prefix(c, l)
<1>0. l \in Nat /\ ChunkSize \in Nat
  BY RxPathAssumption
<1>1. PICK p : p = Prefix(c, l)
  OBVIOUS
<1>2. p \in Seq(Nat) /\ Len(p) = l /\ \A k \in 1 .. l : p[k] = buffer[c][k]
  BY <1>1, PrefixBytes
<1>3. p \in [1 .. l -> Nat]
  BY <1>2, LenProperties
<1>4. \A k \in 1 .. l : 0 + k = k /\ k <= ChunkSize
  BY <1>0
<1>5. p = [k \in 1 .. l |-> IF 0 + k <= ChunkSize THEN buffer[c][0 + k] ELSE 0]
  BY <1>2, <1>3, <1>4
<1> QED  BY <1>1, <1>5 DEF Bytes

\* What a turn of the loop rests on with one worker: the chunk and the length are those
\* of the entry, the offset has not moved, and a chunk read again is a kept one.
TurnOK(w) ==
    /\ pc[w] \in Taking \ {"take"} => chunk[w] = wc[i[w]].chunk
    /\ pc[w] \in {"copy", "move"} /\ ~keep[w] => want[w] = wc[i[w]].byte_len
    /\ pc[w] = "move" => seen[w] = offset[chunk[w]]
    /\ pc[w] = "reread" => /\ at[w] \in 1 .. Len(rx_buffers[sock[w]])
                           /\ chunk[w] = rx_buffers[sock[w]][at[w]]

\* The looks of a turn set it up,
LEMMA LookTurnOK ==
    ASSUME TypeInv, NEW w \in Workers, TurnOK(w),
           TakeChunk(w) \/ TakeStatus(w) \/ TakeLength(w) \/ TakeLengthAgain(w) \/ TakeCopy(w)
    PROVE  TurnOK(w)'
<1>0. /\ pc \in [Workers -> {"loop", "event"} \cup Draining]
      /\ chunk \in [Workers -> Chunks \cup {0}] /\ want \in [Workers -> Nat]
      /\ keep \in [Workers -> BOOLEAN] /\ seen \in [Workers -> Nat]
  BY DEF TypeInv, TypeOK, CopyTypeOK
<1>1. CASE TakeChunk(w)
  <2>1. pc'[w] = "status" /\ chunk'[w] = wc[i[w]].chunk /\ UNCHANGED <<wc, i>>
    BY <1>0, <1>1 DEF TakeChunk, Goto
  <2> QED  BY <2>1 DEF TurnOK
<1>2. CASE TakeStatus(w)
  <2>1. /\ pc[w] = "status" /\ pc'[w] \in {"status", "length"}
        /\ UNCHANGED <<wc, i, chunk>>
    BY <1>0, <1>2 DEF TakeStatus, At, Goto, copyVars
  <2>2. chunk[w] = wc[i[w]].chunk
    BY <2>1 DEF TurnOK, Taking
  <2> QED  BY <2>1, <2>2 DEF TurnOK
<1>3. CASE TakeLength(w)
  <2>1. /\ pc[w] = "length" /\ pc'[w] \in {"copy", "again"} /\ keep'[w] = Fills(w)
        /\ pc'[w] = "copy" => Fills(w)
        /\ UNCHANGED <<wc, i, chunk>>
    BY <1>0, <1>3 DEF TakeLength, At, Goto
  <2>2. chunk[w] = wc[i[w]].chunk
    BY <2>1 DEF TurnOK, Taking
  <2> QED  BY <2>1, <2>2 DEF TurnOK
<1>4. CASE TakeLengthAgain(w)
  <2>1. /\ pc[w] = "again" /\ pc'[w] = "copy" /\ want'[w] = wc[i[w]].byte_len
        /\ UNCHANGED <<wc, i, chunk>>
    BY <1>0, <1>4 DEF TakeLengthAgain, LengthAgain, At, Goto
  <2>2. chunk[w] = wc[i[w]].chunk
    BY <2>1 DEF TurnOK, Taking
  <2> QED  BY <2>1, <2>2 DEF TurnOK
<1>5. CASE TakeCopy(w)
  <2>1. /\ pc[w] = "copy" /\ pc'[w] = "move" /\ seen'[w] = offset[chunk[w]]
        /\ UNCHANGED <<wc, i, chunk, want, keep, offset>>
    BY <1>0, <1>5 DEF TakeCopy, ChunkReadBegin, At, Goto, memVars
  <2>2. chunk[w] = wc[i[w]].chunk /\ (~keep[w] => want[w] = wc[i[w]].byte_len)
    BY <2>1 DEF TurnOK, Taking
  <2> QED  BY <2>1, <2>2 DEF TurnOK
<1> QED  BY <1>1, <1>2, <1>3, <1>4, <1>5

\* and every step keeps it: nobody else polls, and nobody sends in the middle of a turn.
LEMMA NextTurnOK ==
    ASSUME TypeInv, NEW w \in Workers, Workers = {w}, TurnOK(w), [Next]_vars
    PROVE  TurnOK(w)'
<1>0. pc \in [Workers -> {"loop", "event"} \cup Draining]
  BY DEF TypeInv, TypeOK
<1>1. CASE UNCHANGED vars
  BY <1>1 DEF TurnOK, vars, memVars, notifyVars, readVars, copyVars
<1>2. ASSUME NEW s \in Sockets,
             ReceiveError(s) \/ \E b \in 0 .. ChunkSize : Receive(s, b)
      PROVE  TurnOK(w)'
  <2>1. UNCHANGED <<pc, chunk, wc, i, keep, want, seen, offset, at, rx_buffers, sock>>
    BY <1>2 DEF ReceiveError, Receive, readVars, copyVars
  <2> QED  BY <2>1 DEF TurnOK
<1>3. ASSUME NEW s \in Sockets, NEW b \in Lens, ReadCall(s, b)
      PROVE  TurnOK(w)'
  <2>1. Owner[s] = w
    BY RxPathAssumption
  <2>2. pc'[w] = "event"
    BY <1>0, <1>3, <2>1 DEF ReadCall, Goto
  <2> QED  BY <2>2 DEF TurnOK, Taking
<1>4. ASSUME NEW c \in Chunks, NEW b \in WriteLens, SendWrite(w, c, b)
      PROVE  TurnOK(w)'
  <2>1. pc'[w] = "loop"
    BY <1>0, <1>4 DEF SendWrite, At
  <2> QED  BY <2>1 DEF TurnOK, Taking
<1>5. CASE TakeChunk(w) \/ TakeStatus(w) \/ TakeLength(w) \/ TakeLengthAgain(w) \/ TakeCopy(w)
  BY <1>5, LookTurnOK
<1>6. CASE GetCqEvent(w) \/ Rearm(w) \/ PollCq(w) \/ Reread(w) \/ KeepChunk(w)
  <2>1. pc'[w] \in {"buffers", "poll", "rearm", "loop", "take"}
    BY <1>0, <1>6 DEF GetCqEvent, Rearm, PollCq, Reread, KeepChunk, NextCompletion, AfterEmptyPoll,
                      Goto
  <2> QED  BY <2>1 DEF TurnOK, Taking
<1>7. CASE TakeMove(w)
  <2>1. CASE Endless(w)
    <3>1. UNCHANGED <<pc, chunk, wc, i, keep, want, seen, offset, at, rx_buffers, sock>>
      BY <1>7, <2>1 DEF TakeMove, readVars, copyVars
    <3> QED  BY <3>1 DEF TurnOK
  <2>2. CASE ~Endless(w)
    <3>1. pc'[w] \in {"poll", "take"}
      BY <1>0, <1>7, <2>2 DEF TakeMove, NextCompletion, Goto
    <3> QED  BY <3>1 DEF TurnOK, Taking
  <2> QED  BY <2>1, <2>2
<1>8. CASE ReadBuffers(w)
  <2> DEFINE kept == rx_buffers[sock[w]]
  <2>1. CASE at[w] > Len(kept) \/ read[w] = len[w]
    <3>1. pc'[w] = "poll"
      BY <1>0, <1>8, <2>1 DEF ReadBuffers, Goto
    <3> QED  BY <3>1 DEF TurnOK, Taking
  <2>2. CASE ~(at[w] > Len(kept) \/ read[w] = len[w])
    <3>1. /\ pc'[w] = "reread" /\ chunk' = [chunk EXCEPT ![w] = kept[at[w]]]
          /\ UNCHANGED <<rx_buffers, sock, at>>
      BY <1>0, <1>8, <2>2 DEF ReadBuffers, Goto, readVars
    <3>2. kept \in Seq(Chunks) /\ at[w] \in Nat \ {0} /\ Len(kept) \in Nat
      BY DEF TypeInv, TypeOK, MemTypeOK, CopyTypeOK
    <3>3. at[w] \in 1 .. Len(kept)
      BY <2>2, <3>2
    <3>4. chunk'[w] = kept[at[w]]
      BY <3>1 DEF TypeInv, TypeOK, CopyTypeOK
    <3> QED  BY <3>1, <3>3, <3>4 DEF TurnOK, Taking
  <2> QED  BY <2>1, <2>2
<1>9. ASSUME NEW v \in Workers PROVE v = w
  OBVIOUS
<1> QED
  BY <1>1, <1>2, <1>3, <1>4, <1>5, <1>6, <1>7, <1>8, <1>9 DEF Next, ReadSteps, Crashed

\* What a copy leaves alone, and what it adds to what callers got.
LEMMA CopyShape ==
    ASSUME TypeInv, NEW w \in Workers, pc[w] \in {"move", "reread"}, ChunkReadEnd(w)
    PROVE  /\ \A d \in Chunks : d # chunk[w] => offset'[d] = offset[d]
           /\ \E x \in Seq(Nat) : got' = [got EXCEPT ![sock[w]] = @ \o x]
           /\ offset[chunk[w]] = 0 /\ seen[w] = 0 /\ want[w] <= ChunkSize =>
                 got' = [got EXCEPT ![sock[w]] = @ \o Prefix(chunk[w], want[w])]
<1>0. /\ MemTypeOK /\ offset \in [Chunks -> Nat] /\ ChunkSize \in Nat
      /\ want[w] \in Nat /\ seen[w] \in Nat
  BY WorkerTypes, RxPathAssumption DEF MemTypeOK
<1>1. chunk[w] \in Chunks
  BY DEF TypeInv, TakesFilledEntries, Taking
<1>2. PICK o \in {offset[chunk[w]], seen[w]}, p \in {offset[chunk[w]], seen[w]} :
         /\ offset' = [offset EXCEPT ![chunk[w]] =
                          IF Fits(seen[w], want[w]) THEN p + want[w] ELSE 0]
         /\ got' = [got EXCEPT ![sock[w]] = @ \o Bytes(chunk[w], o, Taken(w))]
  BY DEF ChunkReadEnd
<1>3. o \in Nat
  BY <1>0, <1>1
<1>4. Bytes(chunk[w], o, Taken(w)) \in Seq(Nat)
  BY <1>0, <1>1, <1>3, ChunkReadBounds
<1>5. ASSUME offset[chunk[w]] = 0, seen[w] = 0, want[w] <= ChunkSize
      PROVE  Bytes(chunk[w], o, Taken(w)) = Prefix(chunk[w], want[w])
  <2>1. o = 0
    BY <1>5
  <2>2. Taken(w) = want[w]
    BY <1>0, <1>5 DEF Taken, Fits
  <2>3. want[w] \in 0 .. ChunkSize
    BY <1>0, <1>5
  <2> QED  BY <1>1, <2>1, <2>2, <2>3, BytesPrefix
<1>6. \A d \in Chunks : d # chunk[w] => offset'[d] = offset[d]
  BY <1>0, <1>2
<1> QED  BY <1>2, <1>4, <1>5, <1>6

\* The end of a turn leaves what comes behind the completion.
LEMMA TurnComing ==
    ASSUME TypeInv, NEW w \in Workers, pc[w] \in Taking, NextCompletion(w),
           UNCHANGED <<sock, cq, wc, n>>, NEW s \in Sockets, s = sock[w]
    PROVE  /\ Coming(w, s) # <<>> /\ Head(Coming(w, s)) = wc[i[w]]
           /\ Coming(w, s)' = Tail(Coming(w, s))
           /\ \A t \in Sockets \ {s} : Coming(w, t)' = Coming(w, t)
<1>0. /\ pc \in [Workers -> {"loop", "event"} \cup Draining]
      /\ i \in [Workers -> 1 .. (MAX_COMPLETIONS + 1)] /\ cq[s] \in Seq(Completion)
  BY DEF TypeInv, TypeOK, CqTypeOK, TakeTypeOK
<1>1. i[w] \in Nat \ {0} /\ n[w] \in Nat /\ i[w] <= n[w]
  BY EntryFilled, RxPathAssumption
<1>2. \A k \in i[w] .. n[w] : wc[k] \in Completion
  <2>1. \A k \in 1 .. n[w] : wc[k] \in Completion
    BY DEF TypeInv, TakesFilledEntries
  <2> QED  BY <1>1, <2>1
<1>3. i'[w] = i[w] + 1 /\ pc'[w] = (IF i[w] = n[w] THEN "poll" ELSE "take")
  BY <1>0 DEF NextCompletion, Goto
<1>4. /\ Coming(w, s) # <<>> /\ Head(Coming(w, s)) = wc[i[w]]
      /\ Tail(Coming(w, s)) = SubSeq(wc, i[w] + 1, n[w]) \o cq[s]
  <2>1. Coming(w, s) = SubSeq(wc, i[w], n[w]) \o cq[s]
    BY DEF Coming, Now
  <2>2. /\ Len(SubSeq(wc, i[w], n[w]) \o cq[s]) > 0
        /\ Head(SubSeq(wc, i[w], n[w]) \o cq[s]) = wc[i[w]]
        /\ Tail(SubSeq(wc, i[w], n[w]) \o cq[s]) = SubSeq(wc, i[w] + 1, n[w]) \o cq[s]
    <3>1. PICK a, b, q, v : a = i[w] /\ b = n[w] /\ q = cq[s] /\ v = wc
      OBVIOUS
    <3>2. /\ a \in Nat /\ b \in Nat /\ a <= b /\ q \in Seq(Completion)
          /\ \A k \in a .. b : v[k] \in Completion
      BY <1>0, <1>1, <1>2, <3>1
    <3>3. /\ Len(SubSeq(v, a, b) \o q) > 0 /\ Head(SubSeq(v, a, b) \o q) = v[a]
          /\ Tail(SubSeq(v, a, b) \o q) = SubSeq(v, a + 1, b) \o q
      BY <3>2, NextInArray
    <3> QED  BY <3>1, <3>3
  <2>3. Coming(w, s) # <<>>
    <3>1. Len(Coming(w, s)) > 0 /\ Len(<<>>) = 0
      BY <2>1, <2>2, EmptySeq
    <3>2. ASSUME Coming(w, s) = <<>> PROVE FALSE
      <4>1. Len(<<>>) > 0
        BY <3>1, <3>2
      <4> QED  BY <3>1, <4>1
    <3> QED  BY <3>2
  <2> QED  BY <2>1, <2>2, <2>3
<1>5. Coming(w, s)' = SubSeq(wc, i[w] + 1, n[w]) \o cq[s]
  <2>1. sock'[w] = s /\ n'[w] = n[w] /\ cq'[s] = cq[s]
    OBVIOUS
  <2>2. CASE i[w] = n[w]
    <3>1. SubSeq(wc, i[w] + 1, n[w]) = <<>>
      <4>1. i[w] + 1 \in Int /\ n[w] \in Int /\ n[w] < i[w] + 1
        BY <1>1, <2>2
      <4> QED  BY <4>1, SubSeqEmpty
    <3>2. Coming(w, s)' = <<>> \o cq[s]
      BY <1>3, <2>1, <2>2 DEF Coming, Now, Taking
    <3> QED  BY <3>1, <3>2
  <2>3. CASE i[w] # n[w]
    <3>0. pc'[w] \in Taking
      BY <1>3, <2>3 DEF Taking
    <3>1. Coming(w, s)' = SubSeq(wc', i'[w], n'[w]) \o cq'[s]
      BY <2>1, <3>0 DEF Coming, Now
    <3> QED  BY <1>3, <2>1, <3>1
  <2> QED  BY <2>2, <2>3
<1>6. \A t \in Sockets \ {s} : Coming(w, t)' = Coming(w, t)
  BY DEF Coming, Now
<1> QED  BY <1>4, <1>5, <1>6

\* KeepChunk and TakeMove take the next completion, or copy without end.
LEMMA TakeMoves ==
    ASSUME NEW w \in Workers, TypeInv, TurnOK(w), KeepChunk(w) \/ TakeMove(w)
    PROVE  Stays(w) \/ \E s \in Sockets : Takes(w, s)
<1>a. PICK s : s = sock[w]
  OBVIOUS
<1>b. PICK e : e = wc[i[w]]
  OBVIOUS
<1>0. s \in Sockets /\ got \in [Sockets -> Seq(Nat)]
  BY <1>a, WorkerTypes DEF CopyTypeOK
<1>1. /\ pc[w] \in {"length", "move"} /\ pc[w] \in Taking
      /\ UNCHANGED <<sock, cq, wc, n>> /\ UNCHANGED <<srq, buffer, sent>>
  BY DEF KeepChunk, TakeMove, At, notifyVars, memVars, readVars, Taking
<1>2. e.chunk \in Chunks /\ e.byte_len \in Nat /\ e.byte_len <= ChunkSize
  <2>1. e.chunk \in Chunks /\ e.byte_len \in 0 .. ChunkSize
    BY <1>b, <1>1, EntryFilled
  <2> QED  BY <2>1, RxPathAssumption
<1>3. chunk[w] = e.chunk
  BY <1>b, <1>1 DEF TurnOK, Taking
<1>4. CASE KeepChunk(w)
  <2>1. /\ rx_buffers' = [rx_buffers EXCEPT ![s] = Append(@, e.chunk)] /\ NextCompletion(w)
        /\ UNCHANGED <<offset, got>>
    BY <1>a, <1>3, <1>4 DEF KeepChunk, memVars
  <2>2. /\ Coming(w, s) # <<>> /\ Head(Coming(w, s)) = e
        /\ Coming(w, s)' = Tail(Coming(w, s))
        /\ \A t \in Sockets \ {s} : Coming(w, t)' = Coming(w, t)
    BY <1>a, <1>b, <1>0, <1>1, <2>1, TurnComing
  <2>3. \E x \in Seq(Nat) : got' = [got EXCEPT ![s] = @ \o x]
    <3>1. got[s] \in Seq(Nat)
      BY <1>0
    <3>2. <<>> \in Seq(Nat) /\ got[s] \o <<>> = got[s]
      BY <3>1, EmptySeq, ConcatEmptySeq
    <3>3. got' = [got EXCEPT ![s] = @ \o <<>>]
      BY <1>0, <2>1, <3>2
    <3> QED  BY <3>2, <3>3
  <2>4. \A c \in Chunks : c # e.chunk => offset'[c] = offset[c]
    BY <2>1
  <2> QED  BY <1>0, <1>1, <2>1, <2>2, <2>3, <2>4 DEF Takes
<1>5. CASE TakeMove(w) /\ Endless(w)
  <2>1. UNCHANGED <<offset, got, rx_buffers, i, pc>>
    BY <1>5 DEF TakeMove
  <2>2. \A t \in Sockets : Coming(w, t)' = Coming(w, t)
    BY <1>1, <2>1, ComingFrame
  <2> QED  BY <1>1, <2>1, <2>2 DEF Stays
<1>6. CASE TakeMove(w) /\ ~Endless(w)
  <2>1. pc[w] = "move" /\ ChunkReadEnd(w) /\ rx_buffers' = Kept(w) /\ NextCompletion(w)
    BY <1>6 DEF TakeMove, At
  <2>2. /\ Coming(w, s) # <<>> /\ Head(Coming(w, s)) = e
        /\ Coming(w, s)' = Tail(Coming(w, s))
        /\ \A t \in Sockets \ {s} : Coming(w, t)' = Coming(w, t)
    BY <1>a, <1>b, <1>0, <1>1, <2>1, TurnComing
  <2>3. /\ \A d \in Chunks : d # e.chunk => offset'[d] = offset[d]
        /\ \E x \in Seq(Nat) : got' = [got EXCEPT ![s] = @ \o x]
        /\ offset[e.chunk] = 0 /\ seen[w] = 0 /\ want[w] <= ChunkSize =>
              got' = [got EXCEPT ![s] = @ \o Prefix(e.chunk, want[w])]
    <3>1. /\ \A d \in Chunks : d # chunk[w] => offset'[d] = offset[d]
          /\ \E x \in Seq(Nat) : got' = [got EXCEPT ![sock[w]] = @ \o x]
          /\ offset[chunk[w]] = 0 /\ seen[w] = 0 /\ want[w] <= ChunkSize =>
                got' = [got EXCEPT ![sock[w]] = @ \o Prefix(chunk[w], want[w])]
      BY <2>1, CopyShape
    <3> QED  BY <1>a, <1>3, <3>1
  <2>4. CASE keep[w]
    <3>1. rx_buffers' = [rx_buffers EXCEPT ![s] = Append(@, e.chunk)]
      BY <1>a, <1>3, <2>1, <2>4 DEF Kept
    <3> QED  BY <1>0, <1>1, <2>2, <2>3, <3>1 DEF Takes
  <2>5. CASE ~keep[w]
    <3>1. rx_buffers' = rx_buffers
      BY <2>1, <2>5 DEF Kept
    <3>2. want[w] = e.byte_len /\ seen[w] = offset[e.chunk]
      BY <1>b, <1>3, <2>1, <2>5 DEF TurnOK
    <3>3. offset[e.chunk] = 0 => got' = [got EXCEPT ![s] = @ \o Prefix(e.chunk, e.byte_len)]
      BY <1>2, <2>3, <3>2
    <3> QED  BY <1>0, <1>1, <2>2, <2>3, <3>1, <3>3 DEF Takes
  <2> QED  BY <2>4, <2>5
<1> QED  BY <1>4, <1>5, <1>6

\* Looking at an entry moves nothing.
LEMMA LookStays ==
    ASSUME NEW w \in Workers, TypeInv,
           TakeChunk(w) \/ TakeStatus(w) \/ TakeLength(w) \/ TakeLengthAgain(w) \/ TakeCopy(w)
    PROVE  Stays(w)
<1>0. pc \in [Workers -> {"loop", "event"} \cup Draining]
  BY DEF TypeInv, TypeOK
<1>1. /\ cq' = cq /\ wc' = wc /\ i' = i /\ n' = n /\ sock' = sock
      /\ UNCHANGED <<srq, buffer, sent, rx_buffers, offset, got>>
  BY DEF TakeChunk, TakeStatus, TakeLength, TakeLengthAgain, TakeCopy, notifyVars, memVars, readVars
<1>2. pc[w] \in Taking /\ pc'[w] \in Taking
  BY <1>0 DEF TakeChunk, TakeStatus, TakeLength, TakeLengthAgain, TakeCopy, At, Goto, Taking
<1>3. \A t \in Sockets : Coming(w, t)' = Coming(w, t)
  BY <1>1, <1>2, ComingFrame
<1> QED  BY <1>1, <1>3 DEF Stays

\* ReadBuffers looks at a chunk that was kept, or goes on to the poll; Reread reads it.
LEMMA BuffersMove ==
    ASSUME NEW w \in Workers, TypeInv, TurnOK(w), ReadBuffers(w) \/ Reread(w)
    PROVE  Stays(w) \/ Rereads(w)
<1>a. PICK s : s = sock[w]
  OBVIOUS
<1>0. s \in Sockets /\ pc \in [Workers -> {"loop", "event"} \cup Draining]
  BY <1>a, WorkerTypes
<1>1. /\ cq' = cq /\ UNCHANGED <<srq, buffer, sent, rx_buffers>>
      /\ pc[w] \in {"buffers", "reread"} /\ pc'[w] \in {"buffers", "poll", "reread"}
  BY <1>0 DEF ReadBuffers, Reread, At, Goto, notifyVars, memVars
<1>2. \A t \in Sockets : Coming(w, t)' = Coming(w, t)
  <2>1. pc[w] \notin Taking /\ pc'[w] \notin Taking
    BY <1>1 DEF Taking
  <2> QED  BY <1>1, <2>1, ComingOutside
<1>3. CASE ReadBuffers(w)
  <2>1. UNCHANGED <<offset, got>>
    BY <1>3 DEF ReadBuffers, memVars
  <2> QED  BY <1>1, <1>2, <2>1 DEF Stays
<1>4. CASE Reread(w)
  <2>1. pc[w] = "reread" /\ ChunkReadEnd(w)
    BY <1>4 DEF Reread, At
  <2>2. /\ \A d \in Chunks : d # chunk[w] => offset'[d] = offset[d]
        /\ \E x \in Seq(Nat) : got' = [got EXCEPT ![sock[w]] = @ \o x]
    BY <2>1, CopyShape
  <2>3. PICK k : k = at[w]
    OBVIOUS
  <2>4. PICK x \in Seq(Nat) : got' = [got EXCEPT ![s] = @ \o x]
    BY <1>a, <2>2
  <2>5. /\ k \in 1 .. Len(rx_buffers[s])
        /\ \A d \in Chunks : d # rx_buffers[s][k] => offset'[d] = offset[d]
    BY <1>a, <2>1, <2>2, <2>3 DEF TurnOK
  <2> QED  BY <1>0, <1>1, <1>2, <2>4, <2>5 DEF Rereads
<1> QED  BY <1>3, <1>4

\* A send() writes into a chunk that is free, or mixes.
LEMMA SendWrites ==
    ASSUME NEW w \in Workers, TypeInv, NEW c \in Chunks, NEW b \in WriteLens, SendWrite(w, c, b)
    PROVE  mixed' \/ Writes(w)
<1> SUFFICES ASSUME ~mixed' PROVE Writes(w)
  OBVIOUS
<1>1. /\ pc[w] = "loop" /\ ~Awaited(c)
      /\ UNCHANGED <<srq, sent, rx_buffers, got>> /\ UNCHANGED <<cq, wc, i, n, sock, pc>>
      /\ buffer' = [buffer EXCEPT ![c] = buffer'[c]] /\ offset' = [offset EXCEPT ![c] = offset'[c]]
  <2>1. buffer \in [Chunks -> [1 .. ChunkSize -> Nat]] /\ offset \in [Chunks -> Nat]
    BY DEF TypeInv, TypeOK, MemTypeOK
  <2> QED  BY <2>1 DEF SendWrite, At, notifyVars, readVars
<1>2. \A d \in Chunks : d # c => buffer'[d] = buffer[d] /\ offset'[d] = offset[d]
  BY <1>1 DEF TypeInv, TypeOK, MemTypeOK
<1>3. \A t \in Sockets : Coming(w, t)' = Coming(w, t)
  BY <1>1, ComingFrame
<1>4. ASSUME NEW t \in Sockets PROVE Coming(w, t) = cq[t]
  <2>1. Now(w, t) = <<>> /\ cq[t] \in Seq(Completion)
    BY <1>1, ComingType DEF Now, Taking
  <2> QED  BY <2>1, ConcatEmptySeq DEF Coming
<1>5. Free(w, c)
  <2>1. /\ DOMAIN srq = 1 .. Len(srq)
        /\ \A t \in Sockets : /\ DOMAIN cq[t] = 1 .. Len(cq[t])
                              /\ DOMAIN rx_buffers[t] = 1 .. Len(rx_buffers[t])
    BY LenProperties DEF TypeInv, TypeOK, MemTypeOK, CqTypeOK
  <2>2. \A k \in 1 .. Len(srq) : srq[k] # c
    BY <1>1, <2>1 DEF Awaited
  <2>3. ASSUME NEW t \in Sockets
        PROVE  /\ \A k \in 1 .. Len(cq[t]) : cq[t][k].chunk # c
               /\ \A k \in 1 .. Len(rx_buffers[t]) : rx_buffers[t][k] # c
    BY <1>1, <2>1 DEF Awaited
  <2> QED  BY <1>4, <2>2, <2>3 DEF Free
<1> QED  BY <1>1, <1>2, <1>3, <1>5 DEF Writes

\* A completion that joins the queue of s is the last that read() will meet.
LEMMA QueueGrows ==
    ASSUME TypeInv, NEW w \in Workers, NEW s \in Sockets, NEW e \in Completion,
           cq' = [cq EXCEPT ![s] = Append(@, e)], UNCHANGED <<wc, i, n, pc, sock>>
    PROVE  /\ Coming(w, s)' = Append(Coming(w, s), e)
           /\ \A t \in Sockets \ {s} : Coming(w, t)' = Coming(w, t)
<1>1. cq \in [Sockets -> Seq(Completion)]
  BY DEF TypeInv, TypeOK, CqTypeOK
<1>2. cq'[s] = Append(cq[s], e) /\ \A t \in Sockets \ {s} : cq'[t] = cq[t]
  BY <1>1
<1>3. \A t \in Sockets : Now(w, t)' = Now(w, t)
  BY DEF Now
<1>4. Now(w, s) \in Seq(Completion) /\ cq[s] \in Seq(Completion)
  BY ComingType
<1>5. Now(w, s) \o Append(cq[s], e) = Append(Now(w, s) \o cq[s], e)
  BY <1>4, AppendBehind
<1> QED  BY <1>2, <1>3, <1>5 DEF Coming

\* Receive and ReceiveError are arrivals, of some bytes or of none.
LEMMA ReceiveArrives ==
    ASSUME TypeInv, NEW w \in Workers, NEW s \in Sockets,
           (\E b \in 0 .. ChunkSize : Receive(s, b)) \/ ReceiveError(s)
    PROVE  \E e \in Completion : Arrives(w, s, e)
<1>0. srq \in Seq(Chunks) /\ buffer \in [Chunks -> [1 .. ChunkSize -> Nat]] /\ ChunkSize \in Nat
  BY RxPathAssumption DEF TypeInv, TypeOK, MemTypeOK
<1>1. CASE \E b \in 0 .. ChunkSize : Receive(s, b)
  <2>1. PICK b \in 0 .. ChunkSize : Receive(s, b)
    BY <1>1
  <2>2. PICK c : c = Head(srq)
    OBVIOUS
  <2>3. srq # <<>> /\ srq' = Tail(srq) /\ c \in Chunks
    BY <1>0, <2>1, <2>2, HeadTailProperties DEF Receive
  <2>4. PICK e : e = [chunk |-> c, byte_len |-> b, ok |-> TRUE]
    OBVIOUS
  <2>5. e \in Completion /\ e.chunk = c /\ e.byte_len = b
    <3>1. b \in 0 .. ChunkSize
      BY <1>0
    <3> QED  BY <2>3, <2>4, <3>1 DEF Completion
  <2>6. /\ cq' = [cq EXCEPT ![s] = Append(@, e)] /\ UNCHANGED <<wc, i, n, pc, sock>>
        /\ UNCHANGED <<rx_buffers, offset, got>>
        /\ sent' = [sent EXCEPT ![s] = @ + b]
        /\ buffer' = [buffer EXCEPT ![c] = [k \in 1 .. ChunkSize |-> IF k <= b THEN sent[s] + k ELSE @[k]]]
    BY <2>1, <2>2, <2>4 DEF Receive, AddCompletion, readVars
  <2>7. /\ Coming(w, s)' = Append(Coming(w, s), e)
        /\ \A t \in Sockets \ {s} : Coming(w, t)' = Coming(w, t)
    BY <2>5, <2>6, QueueGrows
  <2>8. \A d \in Chunks : d # c => buffer'[d] = buffer[d]
    BY <1>0, <2>6
  <2>9. ASSUME NEW k \in 1 .. b PROVE buffer'[c][k] = sent[s] + k
    <3>1. buffer'[c] = [j \in 1 .. ChunkSize |-> IF j <= b THEN sent[s] + j ELSE buffer[c][j]]
      BY <1>0, <2>3, <2>6
    <3>2. k \in 1 .. ChunkSize /\ k <= b
      BY <1>0
    <3> QED  BY <3>1, <3>2
  <2> QED  BY <2>2, <2>3, <2>5, <2>6, <2>7, <2>8, <2>9 DEF Arrives
<1>2. CASE ReceiveError(s)
  <2>2. PICK c : c = Head(srq)
    OBVIOUS
  <2>3. srq # <<>> /\ srq' = Tail(srq) /\ c \in Chunks
    BY <1>0, <1>2, <2>2, HeadTailProperties DEF ReceiveError
  <2>4. PICK e : e = [chunk |-> c, byte_len |-> 0, ok |-> FALSE]
    OBVIOUS
  <2>5. e \in Completion /\ e.chunk = c /\ e.byte_len = 0
    <3>1. 0 \in 0 .. ChunkSize
      BY <1>0
    <3> QED  BY <2>3, <2>4, <3>1 DEF Completion
  <2>6. /\ cq' = [cq EXCEPT ![s] = Append(@, e)] /\ UNCHANGED <<wc, i, n, pc, sock>>
        /\ UNCHANGED <<rx_buffers, offset, got, sent, buffer>>
    BY <1>2, <2>2, <2>4 DEF ReceiveError, AddCompletion, readVars
  <2>7. /\ Coming(w, s)' = Append(Coming(w, s), e)
        /\ \A t \in Sockets \ {s} : Coming(w, t)' = Coming(w, t)
    BY <2>5, <2>6, QueueGrows
  <2>8. sent' = [sent EXCEPT ![s] = @ + e.byte_len]
    <3>1. sent \in [Sockets -> Nat]
      BY DEF TypeInv, TypeOK, MemTypeOK
    <3>2. sent[s] + 0 = sent[s]
      BY <3>1
    <3> QED  BY <2>5, <2>6, <3>1, <3>2
  <2>9. \A k \in 1 .. e.byte_len : FALSE
    BY <2>5
  <2> QED  BY <2>2, <2>3, <2>5, <2>6, <2>7, <2>8, <2>9 DEF Arrives
<1> QED  BY <1>1, <1>2

\* Every step moves bytes in one of the five ways, or has a send() write where it
\* should not.
LEMMA StepMoves ==
    ASSUME TypeInv, NEW w \in Workers, TurnOK(w), Workers = {w}, [Next]_vars
    PROVE  \/ mixed' \/ Stays(w) \/ Rereads(w) \/ Writes(w)
           \/ \E s \in Sockets : \E e \in Completion : Arrives(w, s, e)
           \/ \E s \in Sockets : Takes(w, s)
<1>0. pc \in [Workers -> {"loop", "event"} \cup Draining]
  BY DEF TypeInv, TypeOK
<1>1. CASE \E s \in Sockets : (\E b \in 0 .. ChunkSize : Receive(s, b)) \/ ReceiveError(s)
  BY <1>1, ReceiveArrives
<1>2. CASE \E s \in Sockets : \E b \in Lens : ReadCall(s, b)
  <2>1. PICK s \in Sockets, b \in Lens : ReadCall(s, b)
    BY <1>2
  <2>2. Owner[s] = w
    BY RxPathAssumption
  <2>3. pc[w] = "loop" /\ pc' = [pc EXCEPT ![w] = "event"] /\ cq' = cq /\ UNCHANGED <<srq, buffer, sent, rx_buffers, offset, got>>
    BY <2>1, <2>2 DEF ReadCall, At, Goto, notifyVars, memVars
  <2>4. pc[w] \notin Taking /\ pc'[w] \notin Taking
    BY <1>0, <2>3 DEF Taking
  <2> QED  BY <2>3, <2>4, ComingOutside DEF Stays
<1>3. CASE GetCqEvent(w) \/ Rearm(w)
  <2>1. /\ pc[w] \notin Taking /\ cq' = cq
        /\ UNCHANGED <<srq, buffer, sent, rx_buffers, offset, got>>
        /\ pc' = [pc EXCEPT ![w] = "buffers"] \/ pc' = [pc EXCEPT ![w] = "poll"]
    BY <1>3 DEF GetCqEvent, Rearm, At, Goto, notifyVars, memVars, Taking
  <2>2. pc'[w] \notin Taking
    BY <1>0, <2>1 DEF Taking
  <2> QED  BY <2>1, <2>2, ComingOutside DEF Stays
<1>4. CASE UNCHANGED vars
  <2>1. UNCHANGED <<srq, buffer, sent, rx_buffers, offset, got, cq, wc, i, n, sock, pc>>
    BY <1>4 DEF vars, memVars, notifyVars, readVars
  <2> QED  BY <2>1, ComingFrame DEF Stays
<1>5. CASE PollCq(w)
  BY <1>5, PollStays
<1>6. CASE KeepChunk(w) \/ TakeMove(w)
  BY <1>6, TakeMoves
<1>7. CASE ReadBuffers(w) \/ Reread(w)
  BY <1>7, BuffersMove
<1>8. CASE TakeChunk(w) \/ TakeStatus(w) \/ TakeLength(w) \/ TakeLengthAgain(w) \/ TakeCopy(w)
  BY <1>8, LookStays
<1>9. CASE \E c \in Chunks, b \in WriteLens : SendWrite(w, c, b)
  BY <1>9, SendWrites
<1>10. ASSUME NEW v \in Workers PROVE v = w
  OBVIOUS
<1> QED
  BY <1>1, <1>2, <1>3, <1>4, <1>5, <1>6, <1>7, <1>8, <1>9, <1>10 DEF Next, ReadSteps, Crashed

-----------------------------------------------------------------------------
\* No chunk is in two places: posted, received and not looked at yet, or kept.
Separate(w) ==
    /\ \A j, k \in 1 .. Len(srq) : srq[j] = srq[k] => j = k
    /\ \A s \in Sockets : \A j \in 1 .. Len(Coming(w, s)) : \A k \in 1 .. Len(srq) :
          Coming(w, s)[j].chunk # srq[k]
    /\ \A s, t \in Sockets : \A j \in 1 .. Len(Coming(w, s)) : \A k \in 1 .. Len(Coming(w, t)) :
          Coming(w, s)[j].chunk = Coming(w, t)[k].chunk => s = t /\ j = k
    /\ \A s, t \in Sockets : \A j \in 1 .. Len(Coming(w, s)) : \A k \in 1 .. Len(rx_buffers[t]) :
          Coming(w, s)[j].chunk # rx_buffers[t][k]
    /\ \A t \in Sockets : \A j \in 1 .. Len(rx_buffers[t]) : \A k \in 1 .. Len(srq) :
          rx_buffers[t][j] # srq[k]

\* A chunk that has not been read has its offset at the start.
Untouched(w) ==
    /\ \A k \in 1 .. Len(srq) : offset[srq[k]] = 0
    /\ \A s \in Sockets : \A j \in 1 .. Len(Coming(w, s)) : offset[Coming(w, s)[j].chunk] = 0

\* Where the elements of the queues come from when a message arrives,
ArrivedFrom(w, s, e) ==
    /\ \A t \in Sockets : \A j \in 1 .. Len(Coming(w, t)') :
          \/ j \in 1 .. Len(Coming(w, t)) /\ Coming(w, t)'[j] = Coming(w, t)[j]
          \/ t = s /\ j = Len(Coming(w, s)) + 1 /\ Coming(w, t)'[j] = e
    /\ \A k \in 1 .. Len(srq') : k + 1 \in 1 .. Len(srq) /\ srq'[k] = srq[k + 1]
    /\ 1 \in 1 .. Len(srq) /\ srq[1] = e.chunk

\* and that they do come from there.
LEMMA ArrivesFrom ==
    ASSUME TypeInv, NEW w \in Workers, NEW s \in Sockets, NEW e \in Completion, Arrives(w, s, e)
    PROVE  ArrivedFrom(w, s, e)
<1>0. srq \in Seq(Chunks) /\ srq # <<>> /\ srq' = Tail(srq) /\ e.chunk = Head(srq)
  BY DEF TypeInv, TypeOK, MemTypeOK, Arrives
<1>1. Len(srq) \in Nat \ {0} /\ Head(srq) = srq[1]
  BY <1>0, EmptySeq
<1>2. /\ Len(srq') = Len(srq) - 1
      /\ \A k \in 1 .. Len(srq') : srq'[k] = srq[k + 1]
  BY <1>0, HeadTailProperties
<1>3. \A k \in 1 .. Len(srq') : k + 1 \in 1 .. Len(srq)
  BY <1>1, <1>2
<1>4. 1 \in 1 .. Len(srq)
  BY <1>1
<1>5. ASSUME NEW t \in Sockets, NEW j \in 1 .. Len(Coming(w, t)')
      PROVE  \/ j \in 1 .. Len(Coming(w, t)) /\ Coming(w, t)'[j] = Coming(w, t)[j]
             \/ t = s /\ j = Len(Coming(w, s)) + 1 /\ Coming(w, t)'[j] = e
  <2>1. CASE t # s
    BY <1>5, <2>1 DEF Arrives
  <2>2. CASE t = s
    <3>1. PICK q : q = Coming(w, s)
      OBVIOUS
    <3>2. q \in Seq(Completion) /\ Len(q) \in Nat
      BY <3>1, ComingType
    <3>3. Coming(w, t)' = Append(q, e)
      BY <2>2, <3>1 DEF Arrives
    <3>4. /\ Len(Append(q, e)) = Len(q) + 1 /\ Append(q, e)[Len(q) + 1] = e
          /\ \A k \in 1 .. Len(q) : Append(q, e)[k] = q[k]
      BY <3>2, AppendProperties
    <3>5. j \in 1 .. Len(q) + 1
      BY <3>3, <3>4
    <3>6. j \in 1 .. Len(q) \/ j = Len(q) + 1
      BY <3>2, <3>5
    <3> QED  BY <2>2, <3>1, <3>3, <3>4, <3>6
  <2> QED  BY <2>1, <2>2
<1> QED  BY <1>0, <1>1, <1>2, <1>3, <1>4, <1>5 DEF ArrivedFrom

\* and when one is taken.
TakenFrom(w, s, e) ==
    /\ \A t \in Sockets : \A j \in 1 .. Len(Coming(w, t)') :
          \/ t # s /\ j \in 1 .. Len(Coming(w, t)) /\ Coming(w, t)'[j] = Coming(w, t)[j]
          \/ t = s /\ j + 1 \in 1 .. Len(Coming(w, t)) /\ Coming(w, t)'[j] = Coming(w, t)[j + 1]
    /\ 1 \in 1 .. Len(Coming(w, s)) /\ Coming(w, s)[1] = e /\ e \in Completion
    /\ \A t \in Sockets : \A k \in 1 .. Len(rx_buffers'[t]) :
          \/ k \in 1 .. Len(rx_buffers[t]) /\ rx_buffers'[t][k] = rx_buffers[t][k]
          \/ rx_buffers'[t][k] = e.chunk

\* The same when a completion is taken.
LEMMA TakesFrom ==
    ASSUME TypeInv, NEW w \in Workers, NEW s \in Sockets, NEW e, e = Head(Coming(w, s)), Takes(w, s)
    PROVE  TakenFrom(w, s, e)
<1>1. PICK q : q = Coming(w, s)
  OBVIOUS
<1>2. q \in Seq(Completion) /\ q # <<>> /\ Coming(w, s)' = Tail(q) /\ e = Head(q)
  BY <1>1, ComingType DEF Takes
<1>3. Len(q) \in Nat \ {0} /\ Head(q) = q[1] /\ e \in Completion
  BY <1>2, EmptySeq, HeadTailProperties
<1>4. Len(Tail(q)) = Len(q) - 1 /\ \A k \in 1 .. Len(Tail(q)) : Tail(q)[k] = q[k + 1]
  BY <1>2, HeadTailProperties
<1>5. \A k \in 1 .. Len(Tail(q)) : k + 1 \in 1 .. Len(q)
  BY <1>3, <1>4
<1>6. 1 \in 1 .. Len(q)
  BY <1>3
<1>7. ASSUME NEW t \in Sockets, NEW j \in 1 .. Len(Coming(w, t)')
      PROVE  \/ t # s /\ j \in 1 .. Len(Coming(w, t)) /\ Coming(w, t)'[j] = Coming(w, t)[j]
             \/ t = s /\ j + 1 \in 1 .. Len(Coming(w, t)) /\ Coming(w, t)'[j] = Coming(w, t)[j + 1]
  <2>1. CASE t # s
    BY <1>7, <2>1 DEF Takes
  <2>2. CASE t = s
    BY <1>1, <1>2, <1>4, <1>5, <1>7, <2>2
  <2> QED  BY <2>1, <2>2
<1>8. ASSUME NEW t \in Sockets, NEW k \in 1 .. Len(rx_buffers'[t])
      PROVE  \/ k \in 1 .. Len(rx_buffers[t]) /\ rx_buffers'[t][k] = rx_buffers[t][k]
             \/ rx_buffers'[t][k] = e.chunk
  <2>0. rx_buffers \in [Sockets -> Seq(Chunks)] /\ e.chunk \in Chunks
    BY <1>3 DEF TypeInv, TypeOK, MemTypeOK, Completion
  <2>1. CASE rx_buffers' = rx_buffers
    BY <1>8, <2>1
  <2>2. CASE rx_buffers' = [rx_buffers EXCEPT ![s] = Append(@, e.chunk)]
    <3>1. CASE t # s
      <4>1. rx_buffers'[t] = rx_buffers[t]
        BY <2>0, <2>2, <3>1
      <4> QED  BY <1>8, <4>1
    <3>2. CASE t = s
      <4>1. PICK r \in Seq(Chunks), c \in Chunks : r = rx_buffers[s] /\ c = e.chunk
        BY <2>0
      <4>2. rx_buffers'[t] = Append(r, c)
        BY <2>0, <2>2, <3>2, <4>1
      <4>3. /\ Len(Append(r, c)) = Len(r) + 1 /\ Append(r, c)[Len(r) + 1] = c
            /\ \A m \in 1 .. Len(r) : Append(r, c)[m] = r[m]
        BY AppendProperties
      <4>4. Len(r) \in Nat
        BY LenProperties
      <4>5. k \in 1 .. Len(r) + 1
        BY <4>2, <4>3
      <4>6. k \in 1 .. Len(r) \/ k = Len(r) + 1
        BY <4>4, <4>5
      <4> QED  BY <3>2, <4>1, <4>2, <4>3, <4>6
    <3> QED  BY <3>1, <3>2
  <2> QED  BY <2>1, <2>2 DEF Takes
<1> QED  BY <1>1, <1>2, <1>3, <1>6, <1>7, <1>8 DEF TakenFrom

\* While no chunk moves, no two places come to hold the same chunk;
LEMMA QuietSeparate ==
    ASSUME NEW w \in Workers, Separate(w), UNCHANGED <<srq, rx_buffers>>,
           \A t \in Sockets : Coming(w, t)' = Coming(w, t)
    PROVE  Separate(w)'
BY DEF Separate

\* and reading a kept chunk again, or writing into one that is free, moves the offset
\* of no other.
LEMMA QuietUntouched ==
    ASSUME TypeInv, NEW w \in Workers, Separate(w), Untouched(w),
           Stays(w) \/ Rereads(w) \/ Writes(w)
    PROVE  Untouched(w)'
<1>1. CASE Stays(w)
  BY <1>1 DEF Stays, Untouched
<1>2. CASE Rereads(w)
  <2>0. PICK s \in Sockets : \E k \in 1 .. Len(rx_buffers[s]) :
           \A c \in Chunks : c # rx_buffers[s][k] => offset'[c] = offset[c]
    BY <1>2 DEF Rereads
  <2>1. PICK m \in 1 .. Len(rx_buffers[s]) :
           \A c \in Chunks : c # rx_buffers[s][m] => offset'[c] = offset[c]
    BY <2>0
  <2>2. srq' = srq /\ \A t \in Sockets : Coming(w, t)' = Coming(w, t)
    BY <1>2 DEF Rereads
  <2>3. ASSUME NEW k \in 1 .. Len(srq) PROVE offset'[srq[k]] = 0
    <3>1. srq[k] \in Chunks
      BY ElementOfSeq DEF TypeInv, TypeOK, MemTypeOK
    <3>2. srq[k] # rx_buffers[s][m]
      BY DEF Separate
    <3> QED  BY <2>1, <3>1, <3>2 DEF Untouched
  <2>4. ASSUME NEW t \in Sockets, NEW j \in 1 .. Len(Coming(w, t)) PROVE offset'[Coming(w, t)[j].chunk] = 0
    <3>1. Coming(w, t)[j] \in Completion
      BY ComingType, ElementOfSeq
    <3>2. Coming(w, t)[j].chunk \in Chunks
      BY <3>1 DEF Completion
    <3>3. Coming(w, t)[j].chunk # rx_buffers[s][m]
      BY DEF Separate
    <3> QED  BY <2>1, <3>2, <3>3 DEF Untouched
  <2> QED  BY <2>2, <2>3, <2>4 DEF Untouched
<1>3. CASE Writes(w)
  <2>1. PICK c \in Chunks : Free(w, c) /\ \A d \in Chunks : d # c => offset'[d] = offset[d]
    BY <1>3 DEF Writes
  <2>2. srq' = srq /\ \A t \in Sockets : Coming(w, t)' = Coming(w, t)
    BY <1>3 DEF Writes
  <2>3. ASSUME NEW k \in 1 .. Len(srq) PROVE offset'[srq[k]] = 0
    <3>1. srq[k] \in Chunks
      BY ElementOfSeq DEF TypeInv, TypeOK, MemTypeOK
    <3> QED  BY <2>1, <3>1 DEF Untouched, Free
  <2>4. ASSUME NEW t \in Sockets, NEW j \in 1 .. Len(Coming(w, t))
        PROVE  offset'[Coming(w, t)[j].chunk] = 0
    <3>1. Coming(w, t)[j] \in Completion
      BY ComingType, ElementOfSeq
    <3>2. Coming(w, t)[j].chunk \in Chunks
      BY <3>1 DEF Completion
    <3> QED  BY <2>1, <3>2 DEF Untouched, Free
  <2> QED  BY <2>2, <2>3, <2>4 DEF Untouched
<1> QED  BY <1>1, <1>2, <1>3

\* The chunk of an arrival leaves the shared queue for one other place.
LEMMA ArriveSeparate ==
    ASSUME TypeInv, NEW w \in Workers, NEW s \in Sockets, NEW e \in Completion,
           Separate(w), Untouched(w), Arrives(w, s, e)
    PROVE  Separate(w)' /\ Untouched(w)'
<1>1. ArrivedFrom(w, s, e)
  BY ArrivesFrom
<1>2. rx_buffers' = rx_buffers /\ offset' = offset
  BY DEF Arrives
<1>0. \A k \in 1 .. Len(srq') : k \in Nat
  OBVIOUS
<1>3. ASSUME NEW j \in 1 .. Len(srq'), NEW k \in 1 .. Len(srq'), srq'[j] = srq'[k] PROVE j = k
  <2>1. j + 1 = k + 1
    BY <1>1, <1>3 DEF ArrivedFrom, Separate
  <2> QED  BY <2>1
<1>4. ASSUME NEW t \in Sockets, NEW j \in 1 .. Len(Coming(w, t)'), NEW k \in 1 .. Len(srq')
      PROVE  Coming(w, t)'[j].chunk # srq'[k]
  <2>0. k + 1 \in 1 .. Len(srq) /\ srq'[k] = srq[k + 1] /\ 1 \in 1 .. Len(srq) /\ srq[1] = e.chunk
    BY <1>1 DEF ArrivedFrom
  <2>1. CASE j \in 1 .. Len(Coming(w, t)) /\ Coming(w, t)'[j] = Coming(w, t)[j]
    BY <2>0, <2>1 DEF Separate
  <2>2. CASE Coming(w, t)'[j] = e
    <3>1. 1 # k + 1
      OBVIOUS
    <3> QED  BY <2>0, <2>2, <3>1 DEF Separate
  <2> QED  BY <1>1, <2>1, <2>2 DEF ArrivedFrom
<1>5. ASSUME NEW t \in Sockets, NEW u \in Sockets, NEW j \in 1 .. Len(Coming(w, t)'), NEW k \in 1 .. Len(Coming(w, u)'),
             Coming(w, t)'[j].chunk = Coming(w, u)'[k].chunk
      PROVE  t = u /\ j = k
  <2>0. 1 \in 1 .. Len(srq) /\ srq[1] = e.chunk
    BY <1>1 DEF ArrivedFrom
  <2>1. CASE /\ j \in 1 .. Len(Coming(w, t)) /\ Coming(w, t)'[j] = Coming(w, t)[j]
             /\ k \in 1 .. Len(Coming(w, u)) /\ Coming(w, u)'[k] = Coming(w, u)[k]
    BY <1>5, <2>1 DEF Separate
  <2>2. CASE /\ j \in 1 .. Len(Coming(w, t)) /\ Coming(w, t)'[j] = Coming(w, t)[j] /\ Coming(w, u)'[k] = e
    BY <1>5, <2>0, <2>2 DEF Separate
  <2>3. CASE /\ k \in 1 .. Len(Coming(w, u)) /\ Coming(w, u)'[k] = Coming(w, u)[k] /\ Coming(w, t)'[j] = e
    BY <1>5, <2>0, <2>3 DEF Separate
  <2>4. CASE t = s /\ j = Len(Coming(w, s)) + 1 /\ u = s /\ k = Len(Coming(w, s)) + 1
    BY <2>4
  <2> QED  BY <1>1, <2>1, <2>2, <2>3, <2>4 DEF ArrivedFrom
<1>6. ASSUME NEW t \in Sockets, NEW u \in Sockets, NEW j \in 1 .. Len(Coming(w, t)'), NEW k \in 1 .. Len(rx_buffers'[u])
      PROVE  Coming(w, t)'[j].chunk # rx_buffers'[u][k]
  <2>0. 1 \in 1 .. Len(srq) /\ srq[1] = e.chunk
    BY <1>1 DEF ArrivedFrom
  <2>1. CASE j \in 1 .. Len(Coming(w, t)) /\ Coming(w, t)'[j] = Coming(w, t)[j]
    BY <1>2, <2>1 DEF Separate
  <2>2. CASE Coming(w, t)'[j] = e
    BY <1>2, <2>0, <2>2 DEF Separate
  <2> QED  BY <1>1, <2>1, <2>2 DEF ArrivedFrom
<1>7. ASSUME NEW t \in Sockets, NEW j \in 1 .. Len(rx_buffers'[t]), NEW k \in 1 .. Len(srq')
      PROVE  rx_buffers'[t][j] # srq'[k]
  BY <1>1, <1>2 DEF ArrivedFrom, Separate
<1>8. ASSUME NEW k \in 1 .. Len(srq') PROVE offset'[srq'[k]] = 0
  BY <1>1, <1>2 DEF ArrivedFrom, Untouched
<1>9. ASSUME NEW t \in Sockets, NEW j \in 1 .. Len(Coming(w, t)') PROVE offset'[Coming(w, t)'[j].chunk] = 0
  BY <1>1, <1>2 DEF ArrivedFrom, Untouched
<1>10. Separate(w)'
  BY <1>3, <1>4, <1>5, <1>6, <1>7 DEF Separate
<1>11. Untouched(w)'
  BY <1>8, <1>9 DEF Untouched
<1> QED  BY <1>10, <1>11

\* The chunk of the completion taken goes to rx_buffers or nowhere.
LEMMA TakeSeparate ==
    ASSUME TypeInv, NEW w \in Workers, NEW s \in Sockets, Separate(w), Untouched(w), Takes(w, s)
    PROVE  Separate(w)' /\ Untouched(w)'
<1>0. PICK e : e = Head(Coming(w, s))
  OBVIOUS
<1>1. TakenFrom(w, s, e)
  BY <1>0, TakesFrom
<1>2. srq' = srq /\ \A c \in Chunks : c # e.chunk => offset'[c] = offset[c]
  BY <1>0 DEF Takes
<1>3. 1 \in 1 .. Len(Coming(w, s)) /\ Coming(w, s)[1] = e
  BY <1>1 DEF TakenFrom
\* What is still to come was there before, and is not the chunk that was taken.
<1>4. ASSUME NEW t \in Sockets, NEW j \in 1 .. Len(Coming(w, t)')
      PROVE  \E m \in 1 .. Len(Coming(w, t)) :
                /\ Coming(w, t)'[j] = Coming(w, t)[m] /\ m = (IF t = s THEN j + 1 ELSE j)
                /\ Coming(w, t)[m].chunk # e.chunk
  <2>1. CASE t # s
    BY <1>1, <1>3, <2>1 DEF TakenFrom, Separate
  <2>2. CASE t = s
    <3>1. j + 1 # 1
      OBVIOUS
    <3> QED  BY <1>1, <1>3, <2>2, <3>1 DEF TakenFrom, Separate
  <2> QED  BY <2>1, <2>2
<1>5. ASSUME NEW t \in Sockets, NEW j \in 1 .. Len(Coming(w, t)'), NEW k \in 1 .. Len(srq')
      PROVE  Coming(w, t)'[j].chunk # srq'[k]
  <2>1. PICK m \in 1 .. Len(Coming(w, t)) : Coming(w, t)'[j] = Coming(w, t)[m]
    BY <1>4
  <2> QED  BY <1>2, <2>1 DEF Separate
<1>6. ASSUME NEW t \in Sockets, NEW u \in Sockets, NEW j \in 1 .. Len(Coming(w, t)'), NEW k \in 1 .. Len(Coming(w, u)'),
             Coming(w, t)'[j].chunk = Coming(w, u)'[k].chunk
      PROVE  t = u /\ j = k
  <2>1. PICK m \in 1 .. Len(Coming(w, t)) : Coming(w, t)'[j] = Coming(w, t)[m] /\ m = (IF t = s THEN j + 1 ELSE j)
    BY <1>4
  <2>2. PICK l \in 1 .. Len(Coming(w, u)) : Coming(w, u)'[k] = Coming(w, u)[l] /\ l = (IF u = s THEN k + 1 ELSE k)
    BY <1>4
  <2>3. t = u /\ m = l
    BY <1>6, <2>1, <2>2 DEF Separate
  <2> QED  BY <2>1, <2>2, <2>3
<1>7. ASSUME NEW t \in Sockets, NEW u \in Sockets, NEW j \in 1 .. Len(Coming(w, t)'), NEW k \in 1 .. Len(rx_buffers'[u])
      PROVE  Coming(w, t)'[j].chunk # rx_buffers'[u][k]
  <2>1. PICK m \in 1 .. Len(Coming(w, t)) : Coming(w, t)'[j] = Coming(w, t)[m] /\ Coming(w, t)[m].chunk # e.chunk
    BY <1>4
  <2>2. CASE k \in 1 .. Len(rx_buffers[u]) /\ rx_buffers'[u][k] = rx_buffers[u][k]
    BY <2>1, <2>2 DEF Separate
  <2>3. CASE rx_buffers'[u][k] = e.chunk
    BY <2>1, <2>3
  <2> QED  BY <1>1, <2>2, <2>3 DEF TakenFrom
<1>8. ASSUME NEW t \in Sockets, NEW j \in 1 .. Len(rx_buffers'[t]), NEW k \in 1 .. Len(srq')
      PROVE  rx_buffers'[t][j] # srq'[k]
  <2>1. CASE j \in 1 .. Len(rx_buffers[t]) /\ rx_buffers'[t][j] = rx_buffers[t][j]
    BY <1>2, <2>1 DEF Separate
  <2>2. CASE rx_buffers'[t][j] = e.chunk
    BY <1>2, <1>3, <2>2 DEF Separate
  <2> QED  BY <1>1, <2>1, <2>2 DEF TakenFrom
<1>9. ASSUME NEW k \in 1 .. Len(srq') PROVE offset'[srq'[k]] = 0
  <2>1. srq[k] \in Chunks
    BY <1>2, ElementOfSeq DEF TypeInv, TypeOK, MemTypeOK
  <2>2. srq[k] # e.chunk
    BY <1>2, <1>3 DEF Separate
  <2> QED  BY <1>2, <2>1, <2>2 DEF Untouched
<1>10. ASSUME NEW t \in Sockets, NEW j \in 1 .. Len(Coming(w, t)') PROVE offset'[Coming(w, t)'[j].chunk] = 0
  <2>1. PICK m \in 1 .. Len(Coming(w, t)) : Coming(w, t)'[j] = Coming(w, t)[m] /\ Coming(w, t)[m].chunk # e.chunk
    BY <1>4
  <2>2. Coming(w, t)[m] \in Completion
    BY ComingType, ElementOfSeq
  <2>3. Coming(w, t)[m].chunk \in Chunks
    BY <2>2 DEF Completion
  <2> QED  BY <1>2, <2>1, <2>3 DEF Untouched
<1>11. \A j, k \in 1 .. Len(srq') : srq'[j] = srq'[k] => j = k
  BY <1>2 DEF Separate
<1>12. Separate(w)'
  BY <1>5, <1>6, <1>7, <1>8, <1>11 DEF Separate
<1>13. Untouched(w)'
  BY <1>9, <1>10 DEF Untouched
<1> QED  BY <1>12, <1>13

-----------------------------------------------------------------------------
\* The messages in q carry the bytes behind st[1], one after the other and up to z:
\* st[k] is the last byte before message k.
IsChain(st, q, buf, z) ==
    /\ st \in [1 .. (Len(q) + 1) -> Nat]
    /\ \A k \in 1 .. Len(q) : st[k + 1] = st[k] + q[k].byte_len
    /\ \A k \in 1 .. Len(q) : \A j \in 1 .. q[k].byte_len : buf[q[k].chunk][j] = st[k] + j
    /\ st[Len(q) + 1] = z

\* Taking the first message of a chain leaves a chain that starts behind it.
LEMMA ChainTail ==
    ASSUME NEW q \in Seq(Completion), q # <<>>, NEW st, NEW buf, NEW z, IsChain(st, q, buf, z)
    PROVE  \E u : /\ IsChain(u, Tail(q), buf, z)
                  /\ u[1] = st[1] + Head(q).byte_len
                  /\ \A j \in 1 .. Head(q).byte_len : buf[Head(q).chunk][j] = st[1] + j
<1>1. Len(q) \in Nat \ {0} /\ Head(q) = q[1]
  BY EmptySeq
<1>2. Len(Tail(q)) = Len(q) - 1 /\ \A k \in 1 .. Len(Tail(q)) : Tail(q)[k] = q[k + 1]
  BY HeadTailProperties
<1>3. PICK l \in Nat : Len(q) = l + 1
  <2>1. Len(q) - 1 \in Nat /\ Len(q) = (Len(q) - 1) + 1
    BY <1>1
  <2> QED  BY <2>1
<1>4. Len(Tail(q)) = l
  BY <1>2, <1>3
<1>5. PICK t : t = Tail(q)
  OBVIOUS
<1>6. Len(t) = l /\ \A k \in 1 .. l : t[k] = q[k + 1]
  BY <1>2, <1>4, <1>5
<1> DEFINE u == [k \in 1 .. (l + 1) |-> st[k + 1]]
<1>7. st \in [1 .. ((l + 1) + 1) -> Nat]
  BY <1>3 DEF IsChain
<1>8. \A k \in 1 .. (l + 1) : k + 1 \in 1 .. ((l + 1) + 1)
  OBVIOUS
<1>9. u \in [1 .. (l + 1) -> Nat] /\ \A k \in 1 .. (l + 1) : u[k] = st[k + 1]
  BY <1>7, <1>8
<1> HIDE DEF u
<1>10. ASSUME NEW k \in 1 .. l
       PROVE  /\ u[k + 1] = u[k] + t[k].byte_len
              /\ \A j \in 1 .. t[k].byte_len : buf[t[k].chunk][j] = u[k] + j
  <2>1. k \in 1 .. (l + 1) /\ k + 1 \in 1 .. (l + 1) /\ k + 1 \in 1 .. Len(q)
    BY <1>3
  <2>2. u[k] = st[k + 1] /\ u[k + 1] = st[(k + 1) + 1] /\ t[k] = q[k + 1]
    BY <1>6, <1>9, <2>1
  <2>3. /\ st[(k + 1) + 1] = st[k + 1] + q[k + 1].byte_len
        /\ \A j \in 1 .. q[k + 1].byte_len : buf[q[k + 1].chunk][j] = st[k + 1] + j
    BY <2>1 DEF IsChain
  <2> QED  BY <2>2, <2>3
<1>11. u[l + 1] = z
  <2>1. l + 1 \in 1 .. (l + 1)
    OBVIOUS
  <2>2. u[l + 1] = st[(l + 1) + 1]
    BY <1>9, <2>1
  <2> QED  BY <1>3, <2>2 DEF IsChain
<1>12. IsChain(u, t, buf, z)
  BY <1>6, <1>9, <1>10, <1>11 DEF IsChain
<1>13. /\ u[1] = st[1] + q[1].byte_len
       /\ \A j \in 1 .. q[1].byte_len : buf[q[1].chunk][j] = st[1] + j
  <2>1. 1 \in 1 .. (l + 1) /\ 1 \in 1 .. Len(q)
    BY <1>3
  <2>2. u[1] = st[1 + 1]
    BY <1>9, <2>1
  <2>3. st[1 + 1] = st[1] + q[1].byte_len /\ \A j \in 1 .. q[1].byte_len : buf[q[1].chunk][j] = st[1] + j
    BY <2>1 DEF IsChain
  <2> QED  BY <2>2, <2>3
<1> QED  BY <1>1, <1>5, <1>12, <1>13

\* Message e comes behind byte z, and the messages of q stay as they are.
Behind(q, e, buf, new, z) ==
    /\ \A k \in 1 .. Len(q) : new[q[k].chunk] = buf[q[k].chunk]
    /\ \A j \in 1 .. e.byte_len : new[e.chunk][j] = z + j

ChainFrom(a, q, buf, z) == \E u : IsChain(u, q, buf, z) /\ u[1] = a

\* A message that holds the next bytes makes a chain longer.
LEMMA ChainAppend ==
    ASSUME NEW q \in Seq(Completion), NEW e \in Completion, NEW st, NEW buf, NEW new, NEW z \in Nat,
           IsChain(st, q, buf, z), Behind(q, e, buf, new, z)
    PROVE  ChainFrom(st[1], Append(q, e), new, z + e.byte_len)
<1>1. PICK l \in Nat : Len(q) = l
  BY LenProperties
<1>2. PICK t : t = Append(q, e)
  OBVIOUS
<1>3. Len(t) = l + 1 /\ t[l + 1] = e /\ \A k \in 1 .. l : t[k] = q[k]
  BY <1>1, <1>2, AppendProperties
<1>4. e.byte_len \in Nat
  BY RxPathAssumption DEF Completion
<1> DEFINE u == [k \in 1 .. ((l + 1) + 1) |-> IF k <= l + 1 THEN st[k] ELSE z + e.byte_len]
<1>5. st \in [1 .. (l + 1) -> Nat] /\ st[l + 1] = z
  BY <1>1 DEF IsChain
<1>6. /\ u \in [1 .. ((l + 1) + 1) -> Nat]
      /\ \A k \in 1 .. (l + 1) : u[k] = st[k]
      /\ u[(l + 1) + 1] = z + e.byte_len
  <2>1. z + e.byte_len \in Nat
    BY <1>4
  <2>2. \A k \in 1 .. ((l + 1) + 1) : k <= l + 1 => k \in 1 .. (l + 1)
    OBVIOUS
  <2>3. \A k \in 1 .. (l + 1) : k <= l + 1 /\ k \in 1 .. ((l + 1) + 1)
    OBVIOUS
  <2>4. ~((l + 1) + 1 <= l + 1) /\ (l + 1) + 1 \in 1 .. ((l + 1) + 1)
    OBVIOUS
  <2>5. u \in [1 .. ((l + 1) + 1) -> Nat]
    BY <1>5, <2>1, <2>2
  <2> QED  BY <2>3, <2>4, <2>5
<1> HIDE DEF u
<1>7. ASSUME NEW k \in 1 .. (l + 1)
      PROVE  /\ u[k + 1] = u[k] + t[k].byte_len
             /\ \A j \in 1 .. t[k].byte_len : new[t[k].chunk][j] = u[k] + j
  <2>1. CASE k \in 1 .. l
    <3>1. k + 1 \in 1 .. (l + 1) /\ k \in 1 .. Len(q)
      BY <1>1, <2>1
    <3>2. u[k] = st[k] /\ u[k + 1] = st[k + 1] /\ t[k] = q[k] /\ new[q[k].chunk] = buf[q[k].chunk]
      BY <1>3, <1>6, <2>1, <3>1 DEF Behind
    <3>3. /\ st[k + 1] = st[k] + q[k].byte_len
          /\ \A j \in 1 .. q[k].byte_len : buf[q[k].chunk][j] = st[k] + j
      BY <3>1 DEF IsChain
    <3> QED  BY <3>2, <3>3
  <2>2. CASE k = l + 1
    BY <1>3, <1>5, <1>6, <2>2 DEF Behind
  <2>3. k \in 1 .. l \/ k = l + 1
    OBVIOUS
  <2> QED  BY <2>1, <2>2, <2>3
<1>8. IsChain(u, t, new, z + e.byte_len)
  BY <1>3, <1>6, <1>7 DEF IsChain
<1>9. u[1] = st[1]
  <2>1. 1 \in 1 .. (l + 1)
    OBVIOUS
  <2> QED  BY <1>6, <2>1
<1> QED  BY <1>2, <1>8, <1>9 DEF ChainFrom

\* The numbers up to a, and behind them those up to a + l.
LEMMA CountOn ==
    ASSUME NEW a \in Nat, NEW l \in Nat, NEW p \in Seq(Nat), Len(p) = l, \A k \in 1 .. l : p[k] = a + k,
           NEW g, g = [k \in 1 .. a |-> k]
    PROVE  g \o p = [k \in 1 .. (a + l) |-> k]
<1>1. g \in [1 .. a -> Nat]
  OBVIOUS
<1>2. g \in Seq(Nat)
  BY <1>1, SeqDef
<1>3. Len(g) = a
  <2>1. DOMAIN g = 1 .. Len(g) /\ Len(g) \in Nat /\ DOMAIN g = 1 .. a
    BY <1>1, <1>2, LenProperties
  <2> QED  BY <2>1
<1>4. /\ g \o p \in Seq(Nat) /\ Len(g \o p) = Len(g) + Len(p)
      /\ \A k \in 1 .. Len(g) + Len(p) : (g \o p)[k] = IF k <= Len(g) THEN g[k] ELSE p[k - Len(g)]
  BY <1>2, ConcatProperties
<1>5. PICK r : r = g \o p
  OBVIOUS
<1>6. /\ r \in Seq(Nat) /\ Len(r) = a + l
      /\ \A k \in 1 .. (a + l) : r[k] = IF k <= a THEN g[k] ELSE p[k - a]
  BY <1>3, <1>4, <1>5
<1>7. ASSUME NEW k \in 1 .. (a + l) PROVE r[k] = k
  <2>1. CASE k <= a
    <3>1. k \in 1 .. a
      BY <2>1
    <3> QED  BY <1>6, <2>1, <3>1
  <2>2. CASE ~(k <= a)
    <3>1. k - a \in 1 .. l /\ a + (k - a) = k
      BY <2>2
    <3>2. r[k] = p[k - a]
      BY <1>6, <2>2
    <3> QED  BY <3>1, <3>2
  <2> QED  BY <2>1, <2>2
<1>8. r \in [1 .. (a + l) -> Nat]
  BY <1>6, LenProperties
<1>9. r = [k \in 1 .. (a + l) |-> k]
  BY <1>7, <1>8
<1> QED  BY <1>5, <1>9

\* The first a bytes of a stream.
UpTo(a) == [k \in 1 .. a |-> k]

\* They are a sequence;
LEMMA UpToSeq ==
    ASSUME NEW a \in Nat
    PROVE  UpTo(a) \in Seq(Nat)
<1>1. UpTo(a) \in [1 .. a -> Nat]
  BY DEF UpTo
<1> QED  BY <1>1, SeqDef

\* and the next b bytes behind them make the first a + b.
LEMMA UpToGoesOn ==
    ASSUME NEW a \in Nat, NEW b \in Nat, NEW p \in Seq(Nat), Len(p) = b,
           \A k \in 1 .. b : p[k] = a + k
    PROVE  UpTo(a) \o p = UpTo(a + b)
BY CountOn DEF UpTo

\* Byte b of s was returned by read(), or is in a chunk that was kept.
Known(s, b) ==
    \/ \E k \in DOMAIN got[s] : got[s][k] = b
    \/ \E k \in 1 .. Len(rx_buffers[s]) : \E j \in 1 .. ChunkSize : buffer[rx_buffers[s][k]][j] = b

\* What read() of s has taken so far is the stream up to st[1], exactly so while
\* no chunk was kept, and what is to come is the rest.
Streamed(w, s) ==
    \E st : /\ IsChain(st, Coming(w, s), buffer, sent[s])
            /\ rx_buffers[s] = <<>> => got[s] = UpTo(st[1])
            /\ \A b \in 1 .. st[1] : Known(s, b)

\* What was returned stays returned, and what was kept stays kept.
KeepsKnown(s) ==
    /\ \A k \in DOMAIN got[s] : k \in DOMAIN got'[s] /\ got'[s][k] = got[s][k]
    /\ \A k \in 1 .. Len(rx_buffers[s]) :
          /\ k \in 1 .. Len(rx_buffers'[s]) /\ rx_buffers'[s][k] = rx_buffers[s][k]
          /\ buffer'[rx_buffers[s][k]] = buffer[rx_buffers[s][k]]

\* A byte that was accounted for stays so.
LEMMA KnownStays ==
    ASSUME NEW s \in Sockets, KeepsKnown(s), NEW b, Known(s, b)
    PROVE  Known(s, b)'
<1>1. CASE \E k \in DOMAIN got[s] : got[s][k] = b
  BY <1>1 DEF KeepsKnown, Known
<1>2. CASE \E k \in 1 .. Len(rx_buffers[s]) : \E j \in 1 .. ChunkSize : buffer[rx_buffers[s][k]][j] = b
  <2>1. PICK k \in 1 .. Len(rx_buffers[s]) : \E j \in 1 .. ChunkSize : buffer[rx_buffers[s][k]][j] = b
    BY <1>2
  <2>2. /\ k \in 1 .. Len(rx_buffers'[s])
        /\ \E j \in 1 .. ChunkSize : buffer'[rx_buffers'[s][k]][j] = b
    BY <2>1 DEF KeepsKnown
  <2> QED  BY <2>2 DEF Known
<1> QED  BY <1>1, <1>2 DEF Known

\* A socket on which nothing happens.
LEMMA StreamStays ==
    ASSUME NEW w \in Workers, NEW s \in Sockets, Streamed(w, s), KeepsKnown(s),
           Coming(w, s)' = Coming(w, s), sent'[s] = sent[s], rx_buffers'[s] = rx_buffers[s],
           rx_buffers[s] = <<>> => got'[s] = got[s],
           \A k \in 1 .. Len(Coming(w, s)) : buffer'[Coming(w, s)[k].chunk] = buffer[Coming(w, s)[k].chunk]
    PROVE  Streamed(w, s)'
<1>1. PICK st : /\ IsChain(st, Coming(w, s), buffer, sent[s])
                /\ rx_buffers[s] = <<>> => got[s] = UpTo(st[1])
                /\ \A b \in 1 .. st[1] : Known(s, b)
  BY DEF Streamed
<1>2. IsChain(st, Coming(w, s), buffer', sent'[s])
  BY <1>1 DEF IsChain
<1>3. \A b \in 1 .. st[1] : Known(s, b)'
  BY <1>1, KnownStays
<1>4. rx_buffers'[s] = <<>> => got'[s] = UpTo(st[1])
  BY <1>1
<1>5. IsChain(st, Coming(w, s)', buffer', sent'[s])
  BY <1>2
<1> QED  BY <1>3, <1>4, <1>5 DEF Streamed

\* Bytes added to what callers got leave the others where they are.
LEMMA GotGrows ==
    ASSUME TypeInv, NEW s \in Sockets, NEW x \in Seq(Nat), got' = [got EXCEPT ![s] = @ \o x]
    PROVE  /\ \A t \in Sockets \ {s} : got'[t] = got[t]
           /\ got'[s] = got[s] \o x
           /\ \A t \in Sockets : \A k \in DOMAIN got[t] : k \in DOMAIN got'[t] /\ got'[t][k] = got[t][k]
           /\ \A k \in 1 .. Len(x) : \E m \in DOMAIN got'[s] : got'[s][m] = x[k]
<1>1. got \in [Sockets -> Seq(Nat)]
  BY DEF TypeInv, TypeOK, CopyTypeOK
<1>2. got'[s] = got[s] \o x /\ \A t \in Sockets \ {s} : got'[t] = got[t]
  BY <1>1
<1>a. PICK g \in Seq(Nat) : g = got[s]
  BY <1>1
<1>b. PICK h : h = got'[s]
  OBVIOUS
<1>3. g = got[s] /\ h = got'[s]
  BY <1>a, <1>b
<1>4. h = g \o x /\ Len(g) \in Nat /\ Len(x) \in Nat
  BY <1>2, <1>3, LenProperties
<1>5. /\ h \in Seq(Nat) /\ Len(h) = Len(g) + Len(x)
      /\ \A k \in 1 .. Len(g) + Len(x) : h[k] = IF k <= Len(g) THEN g[k] ELSE x[k - Len(g)]
  BY <1>4, ConcatProperties
<1>6. DOMAIN g = 1 .. Len(g) /\ DOMAIN h = 1 .. Len(g) + Len(x)
  BY <1>5, LenProperties
<1>7. ASSUME NEW k \in DOMAIN g PROVE k \in DOMAIN h /\ h[k] = g[k]
  <2>1. k \in 1 .. Len(g) + Len(x) /\ k <= Len(g)
    BY <1>4, <1>6
  <2> QED  BY <1>5, <1>6, <2>1
<1>8. ASSUME NEW k \in 1 .. Len(x) PROVE \E m \in DOMAIN h : h[m] = x[k]
  <2>1. /\ Len(g) + k \in 1 .. Len(g) + Len(x) /\ ~(Len(g) + k <= Len(g))
        /\ (Len(g) + k) - Len(g) = k
    BY <1>4
  <2>2. h[Len(g) + k] = x[k]
    BY <1>5, <2>1
  <2> QED  BY <1>6, <2>1, <2>2
<1>9. ASSUME NEW t \in Sockets, NEW k \in DOMAIN got[t] PROVE k \in DOMAIN got'[t] /\ got'[t][k] = got[t][k]
  <2>1. CASE t = s
    BY <1>3, <1>7, <1>9, <2>1
  <2>2. CASE t # s
    <3>1. got'[t] = got[t]
      BY <1>2, <2>2
    <3> QED  BY <1>9, <3>1
  <2> QED  BY <2>1, <2>2
<1>10. \A k \in 1 .. Len(x) : \E m \in DOMAIN got'[s] : got'[s][m] = x[k]
  BY <1>3, <1>8
<1> QED  BY <1>2, <1>9, <1>10

\* The stream of a socket survives the steps that move no new byte,
LEMMA QuietStream ==
    ASSUME TypeInv, NEW w \in Workers, NEW t \in Sockets, Streamed(w, t),
           Stays(w) \/ Rereads(w) \/ Writes(w)
    PROVE  Streamed(w, t)'
<1>a. UNCHANGED <<sent, rx_buffers>> /\ Coming(w, t)' = Coming(w, t)
  BY DEF Stays, Rereads, Writes
<1>1. Stays(w) \/ Rereads(w) => UNCHANGED <<buffer, sent, rx_buffers>> /\ Coming(w, t)' = Coming(w, t)
  BY DEF Stays, Rereads
<1>2. CASE Stays(w)
  <2>1. got' = got
    BY <1>2 DEF Stays
  <2>2. KeepsKnown(t)
    BY <1>1, <1>2, <2>1 DEF KeepsKnown
  <2> QED  BY <1>1, <1>2, <2>1, <2>2, StreamStays
<1>3. CASE Rereads(w)
  <2>1. PICK s \in Sockets : \E k \in 1 .. Len(rx_buffers[s]) : \E x \in Seq(Nat) : got' = [got EXCEPT ![s] = @ \o x]
    BY <1>3 DEF Rereads
  <2>2. PICK m \in 1 .. Len(rx_buffers[s]) : \E x \in Seq(Nat) : got' = [got EXCEPT ![s] = @ \o x]
    BY <2>1
  <2>3. PICK x \in Seq(Nat) : got' = [got EXCEPT ![s] = @ \o x]
    BY <2>2
  <2>4. /\ \A u \in Sockets \ {s} : got'[u] = got[u]
        /\ \A k \in DOMAIN got[t] : k \in DOMAIN got'[t] /\ got'[t][k] = got[t][k]
    BY <2>3, GotGrows
  <2>5. KeepsKnown(t)
    BY <1>1, <1>3, <2>4 DEF KeepsKnown
  <2>6. ASSUME rx_buffers[t] = <<>> PROVE got'[t] = got[t]
    <3>1. CASE t = s
      <4>1. Len(<<>>) = 0
        BY EmptySeq
      <4>2. m \in 1 .. Len(<<>>)
        BY <2>6, <3>1
      <4>3. m \in 1 .. 0
        BY <4>1, <4>2
      <4> QED  BY <4>3
    <3>2. CASE t # s
      BY <2>4, <3>2
    <3> QED  BY <3>1, <3>2
  <2> QED  BY <1>1, <1>3, <2>5, <2>6, StreamStays
<1>4. CASE Writes(w)
  <2>1. got' = got
    BY <1>4 DEF Writes
  <2>2. PICK c \in Chunks : Free(w, c) /\ \A d \in Chunks : d # c => buffer'[d] = buffer[d]
    BY <1>4 DEF Writes
  <2>3. ASSUME NEW k \in 1 .. Len(Coming(w, t))
        PROVE  buffer'[Coming(w, t)[k].chunk] = buffer[Coming(w, t)[k].chunk]
    <3>1. Coming(w, t)[k] \in Completion
      BY ComingType, ElementOfSeq
    <3>2. Coming(w, t)[k].chunk \in Chunks
      BY <3>1 DEF Completion
    <3> QED  BY <2>2, <3>2 DEF Free
  <2>4. ASSUME NEW k \in 1 .. Len(rx_buffers[t])
        PROVE  buffer'[rx_buffers[t][k]] = buffer[rx_buffers[t][k]]
    <3>1. rx_buffers[t] \in Seq(Chunks)
      BY DEF TypeInv, TypeOK, MemTypeOK
    <3>2. rx_buffers[t][k] \in Chunks
      BY <3>1, ElementOfSeq
    <3> QED  BY <2>2, <3>2 DEF Free
  <2>5. KeepsKnown(t)
    BY <1>a, <2>1, <2>4 DEF KeepsKnown
  <2> QED  BY <1>a, <2>1, <2>3, <2>5, StreamStays
<1> QED  BY <1>2, <1>3, <1>4

\* an arrival, on this socket or on another,
LEMMA ArriveStream ==
    ASSUME TypeInv, NEW w \in Workers, NEW s \in Sockets, NEW e \in Completion, NEW t \in Sockets,
           Separate(w), Streamed(w, t), Arrives(w, s, e)
    PROVE  Streamed(w, t)'
<1>0. 1 \in 1 .. Len(srq) /\ srq[1] = e.chunk
  BY ArrivesFrom DEF ArrivedFrom
<1>1. UNCHANGED <<rx_buffers, got>> /\ \A c \in Chunks : c # e.chunk => buffer'[c] = buffer[c]
  BY DEF Arrives
<1>2. ASSUME NEW k \in 1 .. Len(Coming(w, t))
      PROVE  buffer'[Coming(w, t)[k].chunk] = buffer[Coming(w, t)[k].chunk]
  <2>1. Coming(w, t)[k] \in Completion
    BY ComingType, ElementOfSeq
  <2>2. Coming(w, t)[k].chunk \in Chunks
    BY <2>1 DEF Completion
  <2>3. Coming(w, t)[k].chunk # e.chunk
    BY <1>0 DEF Separate
  <2> QED  BY <1>1, <2>2, <2>3
<1>3. ASSUME NEW k \in 1 .. Len(rx_buffers[t]) PROVE buffer'[rx_buffers[t][k]] = buffer[rx_buffers[t][k]]
  <2>1. rx_buffers[t] \in Seq(Chunks)
    BY DEF TypeInv, TypeOK, MemTypeOK
  <2>2. rx_buffers[t][k] \in Chunks
    BY <2>1, ElementOfSeq
  <2>3. rx_buffers[t][k] # e.chunk
    BY <1>0 DEF Separate
  <2> QED  BY <1>1, <2>2, <2>3
<1>4. KeepsKnown(t)
  BY <1>1, <1>3 DEF KeepsKnown
<1>5. sent \in [Sockets -> Nat] /\ sent' = [sent EXCEPT ![s] = @ + e.byte_len]
  BY DEF TypeInv, TypeOK, MemTypeOK, Arrives
<1>6. CASE t # s
  <2>1. sent'[t] = sent[t] /\ Coming(w, t)' = Coming(w, t)
    BY <1>5, <1>6 DEF Arrives
  <2> QED  BY <1>1, <1>2, <1>4, <2>1, StreamStays
<1>7. CASE t = s
  <2>1. PICK st : /\ IsChain(st, Coming(w, s), buffer, sent[s])
                  /\ rx_buffers[s] = <<>> => got[s] = UpTo(st[1])
                  /\ \A b \in 1 .. st[1] : Known(s, b)
    BY <1>7 DEF Streamed
  <2>2. Coming(w, s) \in Seq(Completion) /\ sent[s] \in Nat
    BY <1>5, ComingType
  <2>3. \A j \in 1 .. e.byte_len : buffer'[e.chunk][j] = sent[s] + j
    BY DEF Arrives
  <2>4. PICK u : IsChain(u, Append(Coming(w, s), e), buffer', sent[s] + e.byte_len) /\ u[1] = st[1]
    <3>1. PICK q, z, buf, new : q = Coming(w, s) /\ z = sent[s] /\ buf = buffer /\ new = buffer'
      OBVIOUS
    <3>2. q \in Seq(Completion) /\ z \in Nat /\ IsChain(st, q, buf, z)
      BY <2>1, <2>2, <3>1
    <3>3. Behind(q, e, buf, new, z)
      BY <1>2, <1>7, <2>3, <3>1 DEF Behind
    <3>4. ChainFrom(st[1], Append(q, e), new, z + e.byte_len)
      BY <3>2, <3>3, ChainAppend
    <3> QED  BY <3>1, <3>4 DEF ChainFrom
  <2>5. IsChain(u, Coming(w, s)', buffer', sent'[s])
    <3>1. sent'[s] = sent[s] + e.byte_len /\ Coming(w, s)' = Append(Coming(w, s), e)
      BY <1>5 DEF Arrives
    <3> QED  BY <2>4, <3>1
  <2>6. \A b \in 1 .. u[1] : Known(s, b)'
    BY <1>4, <1>7, <2>1, <2>4, KnownStays
  <2>7. rx_buffers'[s] = <<>> => got'[s] = UpTo(u[1])
    BY <1>1, <2>1, <2>4
  <2> QED  BY <1>7, <2>5, <2>6, <2>7 DEF Streamed
<1> QED  BY <1>6, <1>7

\* and the step that takes a completion.
LEMMA TakeStream ==
    ASSUME TypeInv, NEW w \in Workers, NEW s \in Sockets, NEW t \in Sockets,
           Untouched(w), Streamed(w, t), Takes(w, s)
    PROVE  Streamed(w, t)'
<1>0. PICK e : e = Head(Coming(w, s))
  OBVIOUS
<1>1. TakenFrom(w, s, e)
  BY <1>0, TakesFrom
<1>2. /\ buffer' = buffer /\ sent' = sent /\ Coming(w, s)' = Tail(Coming(w, s)) /\ Coming(w, s) # <<>>
      /\ \A v \in Sockets \ {s} : Coming(w, v)' = Coming(w, v)
  BY DEF Takes
<1>3. e.chunk \in Chunks /\ e.byte_len \in 0 .. ChunkSize /\ e.byte_len \in Nat /\ ChunkSize \in Nat
  <2>1. e \in Completion
    BY <1>1 DEF TakenFrom
  <2>2. e.chunk \in Chunks /\ e.byte_len \in 0 .. ChunkSize
    BY <2>1 DEF Completion
  <2> QED  BY <2>2, RxPathAssumption
<1>4. offset[e.chunk] = 0
  BY <1>1 DEF TakenFrom, Untouched
<1>5. PICK p : p = Prefix(e.chunk, e.byte_len)
  OBVIOUS
<1>6. p \in Seq(Nat) /\ Len(p) = e.byte_len /\ \A k \in 1 .. e.byte_len : p[k] = buffer[e.chunk][k]
  BY <1>3, <1>5, PrefixBytes
<1>7. \/ /\ rx_buffers' = [rx_buffers EXCEPT ![s] = Append(@, e.chunk)]
         /\ \E x \in Seq(Nat) : got' = [got EXCEPT ![s] = @ \o x]
      \/ /\ rx_buffers' = rx_buffers
         /\ got' = [got EXCEPT ![s] = @ \o p]
  BY <1>0, <1>4, <1>5 DEF Takes
<1>8. PICK x \in Seq(Nat) : /\ got' = [got EXCEPT ![s] = @ \o x]
                            /\ \/ rx_buffers' = [rx_buffers EXCEPT ![s] = Append(@, e.chunk)]
                               \/ rx_buffers' = rx_buffers /\ x = p
  BY <1>6, <1>7
<1>9. rx_buffers \in [Sockets -> Seq(Chunks)]
  BY DEF TypeInv, TypeOK, MemTypeOK
<1>10. /\ \A v \in Sockets \ {s} : got'[v] = got[v]
       /\ got'[s] = got[s] \o x
       /\ \A v \in Sockets : \A k \in DOMAIN got[v] : k \in DOMAIN got'[v] /\ got'[v][k] = got[v][k]
       /\ \A k \in 1 .. Len(x) : \E m \in DOMAIN got'[s] : got'[s][m] = x[k]
  BY <1>8, GotGrows
<1>11. CASE t # s
  <2>1. rx_buffers'[t] = rx_buffers[t] /\ Coming(w, t)' = Coming(w, t) /\ got'[t] = got[t]
    BY <1>2, <1>8, <1>9, <1>10, <1>11
  <2>2. KeepsKnown(t)
    BY <1>2, <2>1 DEF KeepsKnown
  <2> QED  BY <1>2, <2>1, <2>2, StreamStays
<1>12. CASE t = s
  <2>1. PICK st : /\ IsChain(st, Coming(w, s), buffer, sent[s])
                  /\ rx_buffers[s] = <<>> => got[s] = UpTo(st[1])
                  /\ \A b \in 1 .. st[1] : Known(s, b)
    BY <1>12 DEF Streamed
  <2>2. PICK u : /\ IsChain(u, Tail(Coming(w, s)), buffer, sent[s])
                 /\ u[1] = st[1] + e.byte_len
                 /\ \A j \in 1 .. e.byte_len : buffer[e.chunk][j] = st[1] + j
    <3>1. PICK q, z, buf : q = Coming(w, s) /\ z = sent[s] /\ buf = buffer
      OBVIOUS
    <3>2. q \in Seq(Completion) /\ q # <<>> /\ IsChain(st, q, buf, z) /\ e = Head(q)
      BY <1>0, <1>2, <2>1, <3>1, ComingType
    <3>3. \E u : /\ IsChain(u, Tail(q), buf, z)
                 /\ u[1] = st[1] + Head(q).byte_len
                 /\ \A j \in 1 .. Head(q).byte_len : buf[Head(q).chunk][j] = st[1] + j
      BY <3>2, ChainTail
    <3> QED  BY <3>1, <3>2, <3>3
  <2>3. IsChain(u, Coming(w, s)', buffer', sent'[s])
    BY <1>2, <2>2
  <2>4. st[1] \in Nat
    <3>1. Len(Coming(w, s)) \in Nat
      BY ComingType
    <3>2. 1 \in 1 .. (Len(Coming(w, s)) + 1)
      BY <3>1
    <3> QED  BY <2>1, <3>2 DEF IsChain
  <2>5. rx_buffers[s] \in Seq(Chunks) /\ Len(rx_buffers[s]) \in Nat
    BY <1>9, LenProperties
  <2>6. CASE rx_buffers' = [rx_buffers EXCEPT ![s] = Append(@, e.chunk)]
    <3>1. rx_buffers'[s] = Append(rx_buffers[s], e.chunk)
      BY <1>9, <2>6
    <3>2. /\ Len(rx_buffers'[s]) = Len(rx_buffers[s]) + 1
          /\ rx_buffers'[s][Len(rx_buffers[s]) + 1] = e.chunk
          /\ \A k \in 1 .. Len(rx_buffers[s]) : rx_buffers'[s][k] = rx_buffers[s][k]
          /\ rx_buffers'[s] # <<>>
      <4>1. PICK f \in Seq(Chunks), c \in Chunks : f = rx_buffers[s] /\ c = e.chunk
        BY <1>3, <2>5
      <4>2. PICK h : h = rx_buffers'[s]
        OBVIOUS
      <4>3. /\ Len(Append(f, c)) = Len(f) + 1 /\ Append(f, c)[Len(f) + 1] = c
            /\ \A k \in 1 .. Len(f) : Append(f, c)[k] = f[k]
        BY AppendProperties
      <4>4. h = Append(f, c)
        BY <3>1, <4>1, <4>2
      <4>5. Len(h) = Len(f) + 1 /\ h[Len(f) + 1] = c /\ \A k \in 1 .. Len(f) : h[k] = f[k]
        BY <4>3, <4>4
      <4>6. h # <<>>
        <5>1. Append(f, c) # <<>>
          BY AppendProperties
        <5> QED  BY <4>4, <5>1
      <4> QED  BY <4>1, <4>2, <4>5, <4>6
    <3>3. KeepsKnown(s)
      <4>1. \A k \in 1 .. Len(rx_buffers[s]) : k \in 1 .. Len(rx_buffers'[s])
        BY <2>5, <3>2
      <4> QED  BY <1>2, <1>10, <3>2, <4>1 DEF KeepsKnown
    <3>4. ASSUME NEW b \in 1 .. u[1] PROVE Known(s, b)'
      <4>1. CASE b \in 1 .. st[1]
        BY <2>1, <3>3, <4>1, KnownStays
      <4>2. CASE b \notin 1 .. st[1]
        <5>1. b - st[1] \in 1 .. e.byte_len /\ st[1] + (b - st[1]) = b /\ b - st[1] \in 1 .. ChunkSize
          BY <1>3, <2>2, <2>4, <4>2
        <5>2. buffer'[e.chunk][b - st[1]] = b
          BY <1>2, <2>2, <5>1
        <5>3. Len(rx_buffers[s]) + 1 \in 1 .. Len(rx_buffers'[s])
          BY <2>5, <3>2
        <5> QED  BY <3>2, <5>1, <5>2, <5>3 DEF Known
      <4> QED  BY <4>1, <4>2
    <3> QED  BY <1>12, <2>3, <3>2, <3>4 DEF Streamed
  <2>7. CASE rx_buffers' = rx_buffers /\ x = p
    <3>1. KeepsKnown(s)
      BY <1>2, <1>10, <2>7 DEF KeepsKnown
    <3>2. \A k \in 1 .. e.byte_len : p[k] = st[1] + k
      BY <1>6, <2>2
    <3>3. ASSUME NEW b \in 1 .. u[1] PROVE Known(s, b)'
      <4>1. CASE b \in 1 .. st[1]
        BY <2>1, <3>1, <4>1, KnownStays
      <4>2. CASE b \notin 1 .. st[1]
        <5>1. b - st[1] \in 1 .. e.byte_len /\ st[1] + (b - st[1]) = b
          BY <1>3, <2>2, <2>4, <4>2
        <5>2. p[b - st[1]] = b
          BY <3>2, <5>1
        <5>3. b - st[1] \in 1 .. Len(x)
          BY <1>6, <2>7, <5>1
        <5>4. \E m \in DOMAIN got'[s] : got'[s][m] = b
          BY <1>10, <2>7, <5>2, <5>3
        <5> QED  BY <5>4 DEF Known
      <4> QED  BY <4>1, <4>2
    <3>4. ASSUME rx_buffers'[s] = <<>> PROVE got'[s] = UpTo(u[1])
      <4>1. got[s] = UpTo(st[1])
        BY <2>1, <2>7, <3>4
      <4>2. got[s] \o p = UpTo(st[1] + e.byte_len)
        <5>1. PICK a \in Nat, l \in Nat : a = st[1] /\ l = e.byte_len
          BY <1>3, <2>4
        <5>2. PICK g : g = got[s]
          OBVIOUS
        <5>3. Len(p) = l /\ g = UpTo(a) /\ \A k \in 1 .. l : p[k] = a + k
          BY <1>6, <3>2, <4>1, <5>1, <5>2
        <5>4. UpTo(a) \o p = UpTo(a + l)
          BY <1>6, <5>3, UpToGoesOn
        <5> QED  BY <5>1, <5>2, <5>3, <5>4
      <4> QED  BY <1>10, <2>2, <2>7, <4>2
    <3> QED  BY <1>12, <2>3, <3>3, <3>4 DEF Streamed
  <2> QED  BY <1>8, <2>6, <2>7
<1> QED  BY <1>11, <1>12

\* Where the bytes are.
StreamOK(w) == Separate(w) /\ Untouched(w) /\ \A s \in Sockets : Streamed(w, s)

\* The inductive invariant: they are there until a send() writes where it should not.
StreamInv(w) ==
    /\ TypeInv /\ TurnOK(w)
    /\ mixed \/ StreamOK(w)

\* It holds when nothing has arrived,
LEMMA InitStreamInv ==
    ASSUME NEW w \in Workers, Init
    PROVE  StreamInv(w)
<1>1. TypeInv
  BY InitTypeInv
<1>2. ASSUME NEW s \in Sockets PROVE Coming(w, s) = <<>>
  <2>1. pc[w] = "loop" /\ cq[s] = <<>>
    BY DEF Init
  <2>2. Coming(w, s) = <<>> \o <<>>
    BY <2>1 DEF Coming, Now, Taking
  <2>3. <<>> \in Seq(Completion)
    BY EmptySeq
  <2> QED  BY <2>2, <2>3, ConcatEmptySeq
<1>3. Len(<<>>) = 0 /\ 1 .. 0 = {}
  BY EmptySeq
<1>4. \A s \in Sockets : 1 .. Len(Coming(w, s)) = {} /\ 1 .. Len(rx_buffers[s]) = {}
  BY <1>2, <1>3 DEF Init
<1>5. \A k \in 1 .. Len(srq) : srq[k] = k /\ srq[k] \in Chunks
  <2>1. PICK m \in 0 .. RxNum : srq = [c \in 1 .. m |-> c]
    BY DEF Init, PostChannelCluster
  <2>2. m \in Nat /\ RxNum \in Nat
    BY RxPathAssumption
  <2>3. srq \in Seq(Chunks)
    BY <1>1 DEF TypeInv, TypeOK, MemTypeOK
  <2>4. DOMAIN srq = 1 .. Len(srq) /\ DOMAIN srq = 1 .. m
    BY <2>1, <2>3, LenProperties
  <2>5. \A k \in 1 .. m : k \in 1 .. RxNum
    BY <2>1, <2>2
  <2> QED  BY <2>1, <2>4, <2>5 DEF Chunks
<1>6. Separate(w)
  BY <1>4, <1>5 DEF Separate
<1>7. Untouched(w)
  BY <1>4, <1>5 DEF Untouched, Init
<1>8. ASSUME NEW s \in Sockets PROVE Streamed(w, s)
  <2> DEFINE st == [k \in 1 .. 1 |-> 0]
  <2>1. st \in [1 .. (0 + 1) -> Nat] /\ st[1] = 0
    OBVIOUS
  <2>2. sent[s] = 0 /\ got[s] = <<>>
    BY DEF Init
  <2> HIDE DEF st
  <2>3. IsChain(st, <<>>, buffer, 0)
    BY <1>3, <2>1 DEF IsChain
  <2>4. got[s] = UpTo(st[1])
    BY <1>3, <2>1, <2>2 DEF UpTo
  <2>5. 1 .. st[1] = {}
    BY <1>3, <2>1
  <2>6. IsChain(st, Coming(w, s), buffer, sent[s])
    BY <1>2, <2>2, <2>3
  <2> QED  BY <2>4, <2>5, <2>6 DEF Streamed
<1>9. TurnOK(w)
  BY DEF TurnOK, Init, Taking
<1> QED  BY <1>1, <1>6, <1>7, <1>8, <1>9 DEF StreamInv, StreamOK

\* and every step preserves it, being one of the five moves.
LEMMA MixedStays ==
    ASSUME [Next]_vars, mixed
    PROVE  mixed'
<1>1. CASE UNCHANGED vars
  BY <1>1 DEF vars, history
<1>2. ASSUME NEW w \in Workers, NEW c, NEW b, SendWrite(w, c, b) PROVE mixed'
  BY <1>2 DEF SendWrite
<1>3. ASSUME NEW s \in Sockets,
             \/ \E b \in 0 .. ChunkSize : Receive(s, b)
             \/ ReceiveError(s)
             \/ \E b \in Lens : ReadCall(s, b)
      PROVE  mixed'
  BY <1>3 DEF Receive, ReceiveError, ReadCall, history
<1>4. ASSUME NEW w \in Workers,
             \/ GetCqEvent(w) \/ ReadBuffers(w) \/ Reread(w) \/ PollCq(w) \/ Rearm(w)
             \/ TakeChunk(w) \/ TakeStatus(w)
      PROVE  mixed'
  BY <1>4 DEF GetCqEvent, ReadBuffers, Reread, PollCq, Rearm, TakeChunk, TakeStatus, history
<1>5. ASSUME NEW w \in Workers,
             \/ KeepChunk(w) \/ TakeLength(w) \/ TakeLengthAgain(w)
             \/ TakeCopy(w) \/ TakeMove(w)
      PROVE  mixed'
  BY <1>5 DEF KeepChunk, TakeLength, TakeLengthAgain, TakeCopy, TakeMove, history
<1> QED  BY <1>1, <1>2, <1>3, <1>4, <1>5 DEF Next, ReadSteps, Crashed

LEMMA NextStreamInv ==
    ASSUME NEW w \in Workers, Workers = {w}, StreamInv(w), [Next]_vars
    PROVE  StreamInv(w)'
<1>0. TypeInv /\ TurnOK(w)
  BY DEF StreamInv
<1>1. TypeInv'
  BY <1>0, NextTypeInv
<1>2. TurnOK(w)'
  BY <1>0, NextTurnOK
<1>3. CASE mixed'
  BY <1>1, <1>2, <1>3 DEF StreamInv
<1>4. CASE ~mixed'
  <2>1. Separate(w) /\ Untouched(w) /\ \A t \in Sockets : Streamed(w, t)
    <3>1. ~mixed
      BY <1>4, MixedStays
    <3> QED  BY <3>1 DEF StreamInv, StreamOK
  <2>2. CASE Stays(w) \/ Rereads(w) \/ Writes(w)
    <3>1. UNCHANGED <<srq, rx_buffers>> /\ \A t \in Sockets : Coming(w, t)' = Coming(w, t)
      BY <2>2 DEF Stays, Rereads, Writes
    <3>2. Separate(w)'
      BY <2>1, <3>1, QuietSeparate
    <3>3. Untouched(w)'
      BY <1>0, <2>1, <2>2, QuietUntouched
    <3>4. ASSUME NEW t \in Sockets PROVE Streamed(w, t)'
      BY <1>0, <2>1, <2>2, QuietStream
    <3> QED  BY <1>1, <1>2, <3>2, <3>3, <3>4 DEF StreamInv, StreamOK
  <2>3. CASE \E s \in Sockets : \E e \in Completion : Arrives(w, s, e)
    <3>1. PICK s \in Sockets, e \in Completion : Arrives(w, s, e)
      BY <2>3
    <3>2. Separate(w)' /\ Untouched(w)'
      BY <1>0, <2>1, <3>1, ArriveSeparate
    <3>3. ASSUME NEW t \in Sockets PROVE Streamed(w, t)'
      BY <1>0, <2>1, <3>1, ArriveStream
    <3> QED  BY <1>1, <1>2, <3>2, <3>3 DEF StreamInv, StreamOK
  <2>4. CASE \E s \in Sockets : Takes(w, s)
    <3>1. PICK s \in Sockets : Takes(w, s)
      BY <2>4
    <3>2. Separate(w)' /\ Untouched(w)'
      BY <1>0, <2>1, <3>1, TakeSeparate
    <3>3. ASSUME NEW t \in Sockets PROVE Streamed(w, t)'
      BY <1>0, <2>1, <3>1, TakeStream
    <3> QED  BY <1>1, <1>2, <3>2, <3>3 DEF StreamInv, StreamOK
  <2> QED  BY <1>0, <1>4, <2>2, <2>3, <2>4, StepMoves
<1> QED  BY <1>3, <1>4

\* A set of naturals that is not empty has a least element.
LEMMA LeastNatural ==
    ASSUME NEW T \in SUBSET Nat, T # {}
    PROVE  \E m \in T : \A k \in T : m <= k
<1>1. PICK m \in T : \A k \in T : <<k, m>> \notin OpToRel(<, Nat)
  BY NatLessThanWellFounded, WFMin
<1>2. \A k \in T : ~(k < m)
  BY <1>1, Zenon DEF OpToRel
<1> QED  BY <1>2

\* A byte of the stream past what was taken is in one of the messages to come.
LEMMA InChain ==
    ASSUME NEW q \in Seq(Completion), NEW st, NEW buf, NEW z, IsChain(st, q, buf, z),
           NEW b \in Nat, st[1] < b, b <= z
    PROVE  \E k \in 1 .. Len(q) : \E j \in 1 .. q[k].byte_len : buf[q[k].chunk][j] = b
<1>1. Len(q) \in Nat /\ \A k \in 1 .. Len(q) : q[k] \in Completion
  BY LenProperties, ElementOfSeq
<1>2. /\ \A k \in 1 .. (Len(q) + 1) : st[k] \in Nat
      /\ \A k \in 1 .. Len(q) : st[k + 1] = st[k] + q[k].byte_len
      /\ \A k \in 1 .. Len(q) : \A j \in 1 .. q[k].byte_len : buf[q[k].chunk][j] = st[k] + j
      /\ st[Len(q) + 1] = z
  BY DEF IsChain
<1> DEFINE T == {k \in 1 .. (Len(q) + 1) : b <= st[k]}
<1>3. T \in SUBSET Nat /\ T # {}
  <2>1. Len(q) + 1 \in T
    BY <1>1, <1>2
  <2> QED  BY <2>1
<1>4. \A k : k \in T <=> k \in 1 .. (Len(q) + 1) /\ b <= st[k]
  OBVIOUS
<1> HIDE DEF T
<1>5. PICK m \in T : \A k \in T : m <= k
  BY <1>3, LeastNatural
<1>6. m \in 1 .. (Len(q) + 1) /\ b <= st[m] /\ m # 1
  <2>1. m \in 1 .. (Len(q) + 1) /\ b <= st[m]
    BY <1>4, <1>5
  <2>2. 1 \in 1 .. (Len(q) + 1)
    BY <1>1
  <2>3. st[1] \in Nat
    BY <1>2, <2>2
  <2>4. ~(b <= st[1])
    BY <2>3
  <2> QED  BY <2>1, <2>4
<1>7. PICK k : k = m - 1
  OBVIOUS
<1>8. k \in 1 .. Len(q) /\ k + 1 = m /\ k \in 1 .. (Len(q) + 1) /\ ~(m <= k)
  BY <1>1, <1>6, <1>7
<1>9. ~(b <= st[k]) /\ st[k] \in Nat
  BY <1>2, <1>4, <1>5, <1>8
<1>10. q[k].byte_len \in Nat
  <2>1. q[k] \in Completion
    BY <1>1, <1>8
  <2>2. q[k].byte_len \in 0 .. ChunkSize
    BY <2>1 DEF Completion
  <2> QED  BY <2>2, RxPathAssumption
<1>11. b <= st[k] + q[k].byte_len
  BY <1>2, <1>6, <1>8
<1>12. b - st[k] \in 1 .. q[k].byte_len /\ st[k] + (b - st[k]) = b
  BY <1>9, <1>10, <1>11
<1>13. buf[q[k].chunk][b - st[k]] = b
  BY <1>2, <1>8, <1>12
<1> QED  BY <1>8, <1>12, <1>13

\* The inductive invariant gives the property: a byte already taken was copied out
\* or its chunk was kept, and any other is in a message to come.
LEMMA KnownOrComing ==
    ASSUME NEW w \in Workers, StreamInv(w), ~mixed, NEW s \in Sockets, NEW b \in 1 .. sent[s]
    PROVE  \/ Known(s, b)
           \/ \E k \in 1 .. Len(Coming(w, s)) : \E j \in 1 .. ChunkSize : buffer[Coming(w, s)[k].chunk][j] = b
<1>0. TypeInv /\ Streamed(w, s)
  BY DEF StreamInv, StreamOK
<1>1. PICK st : /\ IsChain(st, Coming(w, s), buffer, sent[s])
                /\ \A d \in 1 .. st[1] : Known(s, d)
  BY <1>0 DEF Streamed
<1>2. Coming(w, s) \in Seq(Completion) /\ Len(Coming(w, s)) \in Nat
  BY <1>0, ComingType
<1>3. sent[s] \in Nat /\ b \in Nat /\ b >= 1 /\ b <= sent[s]
  <2>1. sent[s] \in Nat
    BY <1>0 DEF TypeInv, TypeOK, MemTypeOK
  <2> QED  BY <2>1
<1>4. st[1] \in Nat
  <2>1. 1 \in 1 .. (Len(Coming(w, s)) + 1)
    BY <1>2
  <2> QED  BY <1>1, <2>1 DEF IsChain
<1>5. CASE b <= st[1]
  <2>1. b \in 1 .. st[1]
    BY <1>3, <1>4, <1>5
  <2> QED  BY <1>1, <2>1
<1>6. CASE ~(b <= st[1])
  <2>1. st[1] < b
    BY <1>3, <1>4, <1>6
  <2>2. PICK q, z, buf : q = Coming(w, s) /\ z = sent[s] /\ buf = buffer
    OBVIOUS
  <2>3. q \in Seq(Completion) /\ IsChain(st, q, buf, z) /\ b <= z
    BY <1>1, <1>2, <1>3, <2>2
  <2>4. PICK k \in 1 .. Len(q) : \E j \in 1 .. q[k].byte_len : buf[q[k].chunk][j] = b
    BY <1>3, <2>1, <2>3, InChain
  <2>5. PICK j \in 1 .. q[k].byte_len : buf[q[k].chunk][j] = b
    BY <2>4
  <2>6. j \in 1 .. ChunkSize
    <3>1. q[k] \in Completion
      BY <2>3, ElementOfSeq
    <3>2. q[k].byte_len \in 0 .. ChunkSize
      BY <3>1 DEF Completion
    <3> QED  BY <3>2, RxPathAssumption
  <2> QED  BY <2>2, <2>4, <2>5, <2>6
<1> QED  BY <1>5, <1>6

\* A message to come is in the array or in the queue.
LEMMA ComingIsHere ==
    ASSUME TypeInv, NEW w \in Workers, NEW s \in Sockets, NEW k \in 1 .. Len(Coming(w, s))
    PROVE  \/ \E m \in DOMAIN cq[s] : Coming(w, s)[k] = cq[s][m]
           \/ pc[w] \in Taking /\ sock[w] = s /\ \E m \in i[w] .. n[w] : Coming(w, s)[k] = wc[m]
<1>1. Now(w, s) \in Seq(Completion) /\ cq[s] \in Seq(Completion)
  BY ComingType
<1>2. PICK x \in Seq(Completion), q \in Seq(Completion) : x = Now(w, s) /\ q = cq[s]
  BY <1>1
<1>3. PICK c : c = Coming(w, s)
  OBVIOUS
<1>4. c = x \o q
  BY <1>2, <1>3 DEF Coming
<1>5. /\ Len(c) = Len(x) + Len(q)
      /\ \A j \in 1 .. Len(x) + Len(q) : c[j] = IF j <= Len(x) THEN x[j] ELSE q[j - Len(x)]
  BY <1>4, ConcatProperties
<1>6. Len(x) \in Nat /\ Len(q) \in Nat /\ DOMAIN q = 1 .. Len(q)
  BY LenProperties
<1>7. k \in 1 .. Len(x) + Len(q) /\ k \in Nat
  BY <1>3, <1>5, <1>6
<1>8. CASE k <= Len(x)
  <2>1. c[k] = x[k]
    BY <1>5, <1>7, <1>8
  <2>2. x # <<>>
    <3>1. Len(x) # 0
      BY <1>7, <1>8
    <3> QED  BY <3>1, EmptySeq
  <2>3. pc[w] \in Taking /\ sock[w] = s /\ x = SubSeq(wc, i[w], n[w])
    BY <1>2, <2>2 DEF Now
  <2>4. i[w] \in Nat /\ n[w] \in Nat /\ i[w] >= 1
    <3>1. i[w] \in 1 .. (MAX_COMPLETIONS + 1) /\ n[w] \in 0 .. MAX_COMPLETIONS
      BY DEF TypeInv, TypeOK, TakeTypeOK
    <3> QED  BY <3>1, RxPathAssumption
  <2>5. \A j \in 1 .. n[w] : wc[j] \in Completion
    BY <2>3 DEF TypeInv, TakesFilledEntries
  <2>6. PICK a \in Nat, d \in Nat : a = i[w] /\ d = n[w]
    BY <2>4
  <2>7. x = SubSeq(wc, a, d) /\ \A j \in a .. d : wc[j] \in Completion
    BY <2>3, <2>4, <2>5, <2>6
  <2>8. /\ Len(x) = IF a <= d THEN d - a + 1 ELSE 0
        /\ \A j \in 1 .. d - a + 1 : x[j] = wc[a + j - 1]
    <3>1. a \in Int /\ d \in Int
      OBVIOUS
    <3> QED  BY <2>7, <3>1, SubSeqProperties
  <2>9. k \in 1 .. d - a + 1 /\ a + k - 1 \in a .. d
    BY <1>7, <1>8, <2>8
  <2>10. c[k] = wc[a + k - 1]
    BY <2>1, <2>8, <2>9
  <2> QED  BY <1>3, <2>3, <2>6, <2>9, <2>10
<1>9. CASE ~(k <= Len(x))
  <2>1. c[k] = q[k - Len(x)]
    BY <1>5, <1>7, <1>9
  <2>2. k - Len(x) \in 1 .. Len(q)
    BY <1>6, <1>7, <1>9
  <2> QED  BY <1>2, <1>3, <1>6, <2>1, <2>2
<1> QED  BY <1>8, <1>9

\* So every byte sent is where NoByteDropped looks for it,
LEMMA StreamInvNoByteDropped ==
    ASSUME NEW w \in Workers, StreamInv(w)
    PROVE  NoByteDropped
<1> DEFINE here(s, c) == \/ c \in {rx_buffers[s][k] : k \in DOMAIN rx_buffers[s]}
                         \/ c \in {cq[s][k].chunk : k \in DOMAIN cq[s]}
                         \/ \E v \in Workers : /\ pc[v] \in Taking /\ sock[v] = s
                                               /\ c \in {wc[k].chunk : k \in i[v] .. n[v]}
<1>0. TypeInv
  BY DEF StreamInv
<1>1. ASSUME ~mixed, NEW s \in Sockets, NEW b \in 1 .. sent[s]
      PROVE  \/ \E k \in DOMAIN got[s] : got[s][k] = b
             \/ \E c \in Chunks : here(s, c) /\ \E k \in 1 .. ChunkSize : buffer[c][k] = b
  <2>1. rx_buffers[s] \in Seq(Chunks) /\ DOMAIN rx_buffers[s] = 1 .. Len(rx_buffers[s])
    <3>1. rx_buffers[s] \in Seq(Chunks)
      BY <1>0 DEF TypeInv, TypeOK, MemTypeOK
    <3> QED  BY <3>1, LenProperties
  <2>2. CASE Known(s, b)
    <3>1. CASE \E k \in DOMAIN got[s] : got[s][k] = b
      BY <3>1
    <3>2. CASE ~\E k \in DOMAIN got[s] : got[s][k] = b
      <4>1. PICK k \in 1 .. Len(rx_buffers[s]) : \E j \in 1 .. ChunkSize : buffer[rx_buffers[s][k]][j] = b
        BY <2>2, <3>2 DEF Known
      <4>2. rx_buffers[s][k] \in Chunks
        BY <2>1, ElementOfSeq
      <4>3. here(s, rx_buffers[s][k])
        BY <2>1
      <4> HIDE DEF here
      <4> QED  BY <4>1, <4>2, <4>3
    <3> QED  BY <3>1, <3>2
  <2>3. CASE ~Known(s, b)
    <3>1. PICK k \in 1 .. Len(Coming(w, s)) : \E j \in 1 .. ChunkSize : buffer[Coming(w, s)[k].chunk][j] = b
      BY <1>1, <2>3, KnownOrComing
    <3>2. PICK e : e = Coming(w, s)[k]
      OBVIOUS
    <3>3. e \in Completion
      BY <1>0, <3>2, ComingType, ElementOfSeq
    <3>4. e.chunk \in Chunks
      BY <3>3 DEF Completion
    <3>5. \/ \E m \in DOMAIN cq[s] : e = cq[s][m]
          \/ pc[w] \in Taking /\ sock[w] = s /\ \E m \in i[w] .. n[w] : e = wc[m]
      BY <1>0, <3>2, ComingIsHere
    <3>6. here(s, e.chunk)
      <4>1. CASE \E m \in DOMAIN cq[s] : e = cq[s][m]
        BY <4>1
      <4>2. CASE pc[w] \in Taking /\ sock[w] = s /\ \E m \in i[w] .. n[w] : e = wc[m]
        BY <4>2
      <4> QED  BY <3>5, <4>1, <4>2
    <3> HIDE DEF here
    <3> QED  BY <3>1, <3>2, <3>4, <3>6
  <2> QED  BY <2>2, <2>3
<1> QED  BY <1>1 DEF NoByteDropped

\* No byte is dropped: with one worker thread, however the arrivals interleave with
\* the steps of read() and whatever lengths callers ask for, every byte that a peer
\* sent was copied out to a caller or is still in a chunk that read() will look at, until
\* a send() writes into a chunk whose bytes are still to be read.
THEOREM NoByteDroppedTheorem ==
    ASSUME NEW w \in Workers, Workers = {w}
    PROVE  Spec => []NoByteDropped
<1>1. Init => StreamInv(w)
  BY InitStreamInv
<1>2. StreamInv(w) /\ [Next]_vars => StreamInv(w)'
  BY NextStreamInv
<1>3. StreamInv(w) => NoByteDropped
  BY StreamInvNoByteDropped
<1> QED  BY <1>1, <1>2, <1>3, PTL DEF Spec

\* The bytes of the first k messages of q, one message after the other.
CatStep(f, q, k) ==
    IF k = 0 THEN <<>> ELSE f[k - 1] \o SubSeq(buffer[q[k].chunk], 1, q[k].byte_len)
IsCat(f, q, m) == f = [k \in 0 .. m |-> CatStep(f, q, k)]

\* They are well defined.
LEMMA CatExists ==
    ASSUME NEW q, NEW l \in Nat
    PROVE  \E f : IsCat(f, q, l)
<1> DEFINE Bad == {m \in 0 .. l : ~\E f : IsCat(f, q, m)}
<1>1. Bad = {}
  <2> SUFFICES ASSUME Bad # {} PROVE FALSE
    OBVIOUS
  <2>1. PICK m \in Bad : \A k \in Bad : m <= k
    <3>1. Bad \in SUBSET Nat
      OBVIOUS
    <3> HIDE DEF Bad
    <3> QED  BY <3>1, LeastNatural
  <2>2. m \in 0 .. l /\ ~\E f : IsCat(f, q, m)
    BY <2>1
  <2>3. CASE m = 0
    <3> DEFINE g == [k \in 0 .. 0 |-> <<>>]
    <3>1. IsCat(g, q, 0)
      BY DEF IsCat, CatStep
    <3> QED  BY <2>2, <2>3, <3>1
  <2>4. CASE m > 0
    <3>1. m - 1 \in 0 .. l /\ m - 1 \notin Bad
      <4>1. m - 1 \in 0 .. l /\ ~(m <= m - 1)
        BY <2>2, <2>4
      <4> HIDE DEF Bad
      <4> QED  BY <2>1, <4>1
    <3>2. PICK f : IsCat(f, q, m - 1)
      BY <3>1
    <3> DEFINE g == [k \in 0 .. m |-> IF k = m THEN CatStep(f, q, k) ELSE f[k]]
    <3>3. ASSUME NEW k \in 0 .. m PROVE g[k] = CatStep(g, q, k)
      <4>1. k # 0 => k - 1 \in 0 .. m /\ k - 1 # m
        BY <2>2
      <4>2. k # 0 => g[k - 1] = f[k - 1]
        BY <4>1
      <4>3. CatStep(g, q, k) = CatStep(f, q, k)
        <5> HIDE DEF g
        <5> QED  BY <4>2 DEF CatStep
      <4>4. CASE k = m
        BY <4>3, <4>4
      <4>5. CASE k # m
        <5>1. k \in 0 .. (m - 1)
          BY <2>2, <4>5
        <5>2. f[k] = CatStep(f, q, k)
          BY <3>2, <5>1 DEF IsCat
        <5> QED  BY <4>3, <4>5, <5>2
      <4> QED  BY <4>4, <4>5
    <3>4. IsCat(g, q, m)
      BY <3>3 DEF IsCat
    <3> QED  BY <2>2, <3>4
  <2> QED  BY <2>2, <2>3, <2>4
<1>2. l \in 0 .. l /\ l \notin Bad
  <2>1. l \in 0 .. l
    OBVIOUS
  <2> HIDE DEF Bad
  <2> QED  BY <1>1, <2>1
<1> QED  BY <1>2

\* What is unread, with one worker.
LEMMA UnreadDef ==
    ASSUME TypeInv, NEW w \in Workers, Workers = {w}, NEW s \in Sockets
    PROVE  \E f : IsCat(f, Coming(w, s), Len(Coming(w, s))) /\ Unread(s) = f[Len(Coming(w, s))]
<1> DEFINE busy == {v \in Workers : pc[v] \in Taking /\ sock[v] = s}
           now  == IF busy = {} THEN <<>>
                   ELSE LET v == CHOOSE v \in busy : TRUE IN SubSeq(wc, i[v], n[v])
           all  == now \o cq[s]
<1>1. now = Now(w, s)
  <2>1. CASE pc[w] \in Taking /\ sock[w] = s
    <3>1. busy = {w}
      BY <2>1
    <3> HIDE DEF busy
    <3>2. (CHOOSE v \in busy : TRUE) = w
      BY <3>1
    <3> QED  BY <2>1, <3>1, <3>2 DEF Now
  <2>2. CASE ~(pc[w] \in Taking /\ sock[w] = s)
    <3>1. busy = {}
      BY <2>2
    <3> HIDE DEF busy
    <3> QED  BY <2>2, <3>1 DEF Now
  <2> QED  BY <2>1, <2>2
<1>2. all = Coming(w, s)
  <2> HIDE DEF now
  <2> QED  BY <1>1 DEF Coming
<1>3. Len(all) \in Nat
  <2> HIDE DEF all
  <2> QED  BY <1>2, ComingType
<1>4. \E f : IsCat(f, all, Len(all))
  <2> HIDE DEF all
  <2> QED  BY <1>3, CatExists
<1>5. \E f : IsCat(f, all, Len(all)) /\ Unread(s) = f[Len(all)]
  BY <1>4 DEF Unread, IsCat, CatStep
<1> HIDE DEF all
<1> QED  BY <1>2, <1>5

\* Concatenation of bytes is associative.
Byte == Nat
LEMMA BytesAssociative ==
    \A x, y, z \in Seq(Byte) : (x \o y) \o z = x \o (y \o z)
BY ConcatAssociative

\* A run of numbers from 1, followed by the messages of a chain, counts on.
LEMMA CatCounts ==
    ASSUME TypeInv, NEW q \in Seq(Completion), NEW st, NEW z, IsChain(st, q, buffer, z),
           NEW f, IsCat(f, q, Len(q))
    PROVE  UpTo(st[1]) \o f[Len(q)] = UpTo(z)
<1>0. PICK l \in Nat : l = Len(q)
  BY LenProperties
<1>1. /\ \A k \in 1 .. (l + 1) : st[k] \in Nat
      /\ \A k \in 1 .. l : st[k + 1] = st[k] + q[k].byte_len
      /\ \A k \in 1 .. l : \A j \in 1 .. q[k].byte_len : buffer[q[k].chunk][j] = st[k] + j
      /\ st[l + 1] = z
  BY <1>0 DEF IsChain
<1>2. \A k \in 0 .. l : f[k] = CatStep(f, q, k)
  BY <1>0 DEF IsCat
<1>3. PICK g \in Seq(Nat) : g = UpTo(st[1])
  <2>1. 1 \in 1 .. (l + 1)
    OBVIOUS
  <2> QED  BY <1>1, <2>1, UpToSeq
<1> DEFINE Good(m) == f[m] \in Seq(Nat) /\ g \o f[m] = UpTo(st[m + 1])
           Bad == {m \in 0 .. l : ~Good(m)}
<1>4. Bad = {}
  <2> SUFFICES ASSUME Bad # {} PROVE FALSE
    OBVIOUS
  <2>1. PICK m \in Bad : \A k \in Bad : m <= k
    <3>1. Bad \in SUBSET Nat
      OBVIOUS
    <3> HIDE DEF Bad
    <3> QED  BY <3>1, LeastNatural
  <2>2. m \in 0 .. l /\ ~Good(m)
    BY <2>1
  <2>3. CASE m = 0
    <3>1. f[0] = <<>>
      BY <1>2, <2>2, <2>3 DEF CatStep
    <3>2. g \o <<>> = g /\ <<>> \in Seq(Nat)
      BY ConcatEmptySeq, EmptySeq
    <3>3. 0 + 1 = 1
      OBVIOUS
    <3>4. f[0] \in Seq(Nat) /\ g \o f[0] = UpTo(st[0 + 1])
      BY <1>3, <3>1, <3>2, <3>3
    <3> QED  BY <2>2, <2>3, <3>4
  <2>4. CASE m > 0
    <3>1. m \in 1 .. l /\ m - 1 \in 0 .. l /\ ~(m <= m - 1) /\ (m - 1) + 1 = m /\ m \in 1 .. (l + 1) /\ m # 0
      BY <2>2, <2>4
    <3>2. m - 1 \notin Bad
      <4> HIDE DEF Bad
      <4> QED  BY <2>1, <3>1
    <3>3. Good(m - 1)
      BY <3>1, <3>2
    <3>4. PICK p : p = Prefix(q[m].chunk, q[m].byte_len)
      OBVIOUS
    <3>5. f[m] = f[m - 1] \o p
      <4>1. f[m] = CatStep(f, q, m)
        BY <1>2, <2>2
      <4> QED  BY <3>1, <3>4, <4>1 DEF CatStep, Prefix
    <3>6. q[m].chunk \in Chunks /\ q[m].byte_len \in 0 .. ChunkSize /\ q[m].byte_len \in Nat
      <4>1. q[m] \in Completion
        BY <1>0, <3>1, ElementOfSeq
      <4>2. q[m].chunk \in Chunks /\ q[m].byte_len \in 0 .. ChunkSize
        BY <4>1 DEF Completion
      <4> QED  BY <4>2, RxPathAssumption
    <3>7. /\ p \in Seq(Nat) /\ Len(p) = q[m].byte_len
          /\ \A j \in 1 .. q[m].byte_len : p[j] = buffer[q[m].chunk][j]
      BY <3>4, <3>6, PrefixBytes
    <3>8. PICK a \in Nat, b \in Nat : a = st[m] /\ b = q[m].byte_len
      BY <1>1, <3>1, <3>6
    <3>9. PICK h : h = f[m - 1]
      OBVIOUS
    <3>10. h \in Seq(Nat) /\ g \o h = UpTo(a)
      BY <3>1, <3>3, <3>8, <3>9
    <3>11. Len(p) = b /\ \A j \in 1 .. b : p[j] = a + j
      BY <1>1, <3>1, <3>7, <3>8
    <3>12. (g \o h) \o p = UpTo(a + b)
      <4>1. PICK gh : gh = g \o h
        OBVIOUS
      <4>2. gh = UpTo(a)
        BY <3>10, <4>1
      <4>3. gh \o p = UpTo(a + b)
        BY <3>7, <3>11, <4>2, UpToGoesOn
      <4> QED  BY <4>1, <4>3
    <3>13. (g \o h) \o p = g \o (h \o p) /\ h \o p \in Seq(Nat)
      <4> HIDE DEF Good, Bad
      <4>1. g \in Seq(Nat) /\ h \in Seq(Nat) /\ p \in Seq(Nat)
        BY <3>7, <3>10
      <4>2. (g \o h) \o p = g \o (h \o p)
        <5>1. g \in Seq(Byte) /\ h \in Seq(Byte) /\ p \in Seq(Byte)
          BY <4>1 DEF Byte
        <5> QED  BY <5>1, BytesAssociative
      <4>3. h \o p \in Seq(Nat)
        BY <4>1, ConcatProperties, Zenon
      <4> QED  BY <4>2, <4>3
    <3>14. f[m] = h \o p /\ st[m + 1] = a + b
      BY <1>1, <3>1, <3>5, <3>8, <3>9
    <3>15. f[m] \in Seq(Nat) /\ g \o f[m] = UpTo(st[m + 1])
      BY <3>12, <3>13, <3>14
    <3> QED  BY <2>2, <3>15
  <2> QED  BY <2>2, <2>3, <2>4
<1>5. Good(l)
  <2>1. l \in 0 .. l
    OBVIOUS
  <2> QED  BY <1>4, <2>1
<1>6. g \o f[l] = UpTo(st[l + 1])
  BY <1>5
<1> QED  BY <1>0, <1>1, <1>3, <1>6

\* and what was copied out, followed by what is unread, counts up to the last.
LEMMA StreamInvExact ==
    ASSUME NEW w \in Workers, Workers = {w}, StreamInv(w)
    PROVE  StreamExact
<1> SUFFICES ASSUME ~mixed, NEW s \in Sockets, rx_buffers[s] = <<>>
             PROVE  got[s] \o Unread(s) = [k \in 1 .. sent[s] |-> k]
  BY DEF StreamExact
<1>0. TypeInv /\ Streamed(w, s)
  BY DEF StreamInv, StreamOK
<1>1. PICK st : /\ IsChain(st, Coming(w, s), buffer, sent[s])
                /\ got[s] = UpTo(st[1])
  BY <1>0 DEF Streamed
<1>2. PICK f : IsCat(f, Coming(w, s), Len(Coming(w, s))) /\ Unread(s) = f[Len(Coming(w, s))]
  BY <1>0, UnreadDef
<1>3. PICK q, z : q = Coming(w, s) /\ z = sent[s]
  OBVIOUS
<1>4. q \in Seq(Completion) /\ IsChain(st, q, buffer, z) /\ IsCat(f, q, Len(q))
  BY <1>0, <1>1, <1>2, <1>3, ComingType
<1>5. UpTo(st[1]) \o f[Len(q)] = UpTo(z)
  BY <1>0, <1>4, CatCounts
<1>6. Unread(s) = f[Len(q)] /\ got[s] = UpTo(st[1])
  BY <1>1, <1>2, <1>3
<1>7. got[s] \o Unread(s) = UpTo(sent[s])
  BY <1>3, <1>5, <1>6
<1> QED  BY <1>7 DEF UpTo

\* The stream is exact: with one worker thread, as long as no chunk of a socket was
\* kept for a later call, what the callers of read() got followed by what is still to
\* be read is every byte the peer sent, once and in order, until a send() writes into a
\* chunk whose bytes are still to be read.
THEOREM StreamExactTheorem ==
    ASSUME NEW w \in Workers, Workers = {w}
    PROVE  Spec => []StreamExact
<1>1. Init => StreamInv(w)
  BY InitStreamInv
<1>2. StreamInv(w) /\ [Next]_vars => StreamInv(w)'
  BY NextStreamInv
<1>3. StreamInv(w) => StreamExact
  BY StreamInvExact
<1> QED  BY <1>1, <1>2, <1>3, PTL DEF Spec
=============================================================================
