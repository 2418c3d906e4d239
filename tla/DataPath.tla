------------------------------ MODULE DataPath ------------------------------
(***************************************************************************)
(* Two processes with a connected socket each, seen from the application:  *)
(* what send() is given at one end and what read() returns at the other.   *)
(* The two paths meet in the MemoryManager: the chunks of `channel` are    *)
(* all posted for receiving when the stack starts, stay on the free list   *)
(* nevertheless, and are the ones send() takes, from the other end of the  *)
(* list.                                                                   *)
(*                                                                         *)
(* A process has one worker here, so a call of send(), read() or the       *)
(* transmit handler is one step: between its polls the adapter only adds   *)
(* completions, which a later call takes as well.  (The interleavings      *)
(* inside the calls, of several workers too, are those of TxPath and       *)
(* RxPath.)  Completed sends go to the list of `send`, from which nothing  *)
(* is taken; they are left to TxPath, all but their bad status.            *)
(*                                                                         *)
(* Byte <<e, k>> is the k-th byte that end e was asked to send.            *)
(***************************************************************************)
EXTENDS Naturals, Sequences, SequencesExt, FiniteSets

CONSTANTS
    Ends,             \* the two processes
    Peer,             \* Peer[e]: the process at the other end
    ChunkSize,        \* bytes of a chunk (8*1024 in the code)
    RxNum,            \* chunks of the RECV cluster (256)
    Lengths,          \* bound: Lengths[e] of the bufferlists e hands to send()
    Lens,             \* bound: Lens[e] that e asks read() for
    MaxEmpty,         \* bound: empty bufferlists handed to send() by an end
    MaxFaults         \* bound: refusals of verbs and broken connections

ASSUME DataPathAssumption ==
    /\ Peer \in [Ends -> Ends]
    /\ \A e \in Ends : Peer[e] # e /\ Peer[Peer[e]] = e
    /\ ChunkSize \in Nat \ {0}
    /\ RxNum \in Nat \ {0}
    /\ Lengths \in [Ends -> SUBSET Nat]
    /\ Lens \in [Ends -> SUBSET (Nat \ {0})]
    /\ MaxEmpty \in Nat
    /\ MaxFaults \in Nat

VARIABLES
    channel,     \* channel[e]: free_chunks of the cluster `channel`
    buffer,      \* buffer[e][c]: the bytes of chunk c
    offset,      \* offset[e][c]: Chunk::offset
    srq,         \* srq[e]: chunks posted to the shared receive queue
    sq,          \* sq[e]: posted requests, their sge being chunk and length
    rxcq,        \* rxcq[e]: completions of receives
    event,       \* event[e]: the channel of the receive queue is readable
    rx_buffers,  \* rx_buffers[e]: chunks kept for later calls of read()
    given,       \* given[e]: bytes handed to send() so far
    got,         \* got[e]: the bytes read() returned
    taken,       \* taken[e]: chunks send() took from the free list
    posted,      \* posted[e]: chunks post_channel_cluster posted (history)
    deaf,        \* ends whose receive queue could not be armed (history)
    refused,     \* ends where ibv_post_send refused a request (history)
    echoed,      \* ends where an empty message sent bytes (history)
    empties,     \* empties[e]: empty bufferlists handed to send()
    broken,      \* the queue pairs are in the error state
    crash        \* how a process ended, "no" while both run

memVars  == <<buffer, offset>>
poolVars == <<channel, taken>>
appVars  == <<given, empties>>
history  == <<posted, deaf, refused, echoed>>
vars     == <<memVars, poolVars, srq, sq, rxcq, event, rx_buffers, appVars, got,
              history, broken, crash>>

-----------------------------------------------------------------------------
Chunks   == 1 .. RxNum
Blank    == <<"blank", 0>>
Byte     == {Blank} \cup (Ends \X (Nat \ {0}))
Request  == [chunk : Chunks, length : 0 .. ChunkSize]
RxDone   == [chunk : Chunks, byte_len : 0 .. ChunkSize, ok : BOOLEAN]
CrashWay == {"no", "assert", "no_buffer", "past_end"}

\* The model ends with the first process: what the other one still sees is a
\* broken connection, and that can happen without a crash too.
Runs == crash = "no"

Short == {e \in Ends : posted[e] < RxNum}

\* What went wrong outside the program so far.
Faults == Cardinality(Short) + Cardinality(deaf) + Cardinality(refused)
              + IF broken THEN 1 ELSE 0

Least(a, b) == IF a < b THEN a ELSE b

-----------------------------------------------------------------------------
\* post_channel_cluster, called once by the constructor of Infiniband: the
\* chunks in the order of the free list, until ibv_post_srq_recv refuses one,
\* which the constructor ignores.
PostChannelClusterMutant(free, k) == SubSeq(free, 1, IF k = Len(free) THEN k - 1 ELSE k)
PostChannelCluster(free, k) == SubSeq(free, 1, k)

Init ==
    /\ channel = [e \in Ends |-> [k \in 1 .. RxNum |-> k]]
    /\ buffer = [e \in Ends |-> [c \in Chunks |-> [k \in 1 .. ChunkSize |-> Blank]]]
    /\ offset = [e \in Ends |-> [c \in Chunks |-> 0]]
    /\ posted \in [Ends -> 0 .. RxNum]
    /\ Cardinality(Short) <= MaxFaults
    /\ srq = [e \in Ends |-> PostChannelCluster(channel[e], posted[e])]
    /\ sq = [e \in Ends |-> <<>>]
    /\ rxcq = [e \in Ends |-> <<>>]
    /\ event = [e \in Ends |-> FALSE]
    /\ rx_buffers = [e \in Ends |-> <<>>]
    /\ given = [e \in Ends |-> 0]
    /\ got = [e \in Ends |-> <<>>]
    /\ taken = [e \in Ends |-> 0]
    /\ deaf = {}
    /\ refused = {}
    /\ echoed = {}
    /\ empties = [e \in Ends |-> 0]
    /\ broken = FALSE
    /\ crash = "no"

-----------------------------------------------------------------------------
(* RDMAConnectedSocketImpl::send                                            *)

\* How many chunks get_buffers removes for b bytes.
NumBuffers(b) == (b + ChunkSize - 1) \div ChunkSize

\* get_buffers: the chunks it returns for b > 0 bytes are taken one by one from the
\* back of the free list; for 0 bytes it copies the whole list and removes nothing.
GetBuffersMutant(free, b) ==
    LET count == IF b = 0 THEN 0 ELSE Least(Len(free), NumBuffers(b))
    IN  [tx |-> IF b = 0 THEN free ELSE SubSeq(free, 1, count),
         rest |-> SubSeq(free, count + 1, Len(free))]
GetBuffers(free, b) ==
    LET left == IF b = 0 THEN Len(free) ELSE Len(free) - Least(Len(free), NumBuffers(b))
    IN  [tx |-> IF b = 0 THEN free ELSE Reverse(SubSeq(free, left + 1, Len(free))),
         rest |-> SubSeq(free, 1, left)]

\* The room that the first k of the chunks tx have, their offsets being what
\* earlier uses left behind.
Room(e, tx, k) ==
    LET room[j \in 0 .. k] == IF j = 0 THEN 0 ELSE room[j - 1] + (ChunkSize - offset[e][tx[j]])
    IN  room[k]

\* Chunk::write puts the next bytes behind the offset, as many as fit.
Written(e, tx, k, b) ==
    LET before == Room(e, tx, k - 1)
    IN  IF b <= before THEN 0 ELSE Least(b - before, ChunkSize - offset[e][tx[k]])
Fill(e, tx, b) ==
    LET at(c) == CHOOSE k \in DOMAIN tx : tx[k] = c
        used  == {tx[k] : k \in DOMAIN tx}
        num(c) == Written(e, tx, at(c), b)
        first(c) == given[e] + Room(e, tx, at(c) - 1)
    IN  /\ offset' = [offset EXCEPT ![e] =
                         [c \in Chunks |-> IF c \in used THEN @[c] + num(c) ELSE @[c]]]
        /\ buffer' = [buffer EXCEPT ![e] =
                         [c \in Chunks |->
                            IF c \notin used THEN @[c]
                            ELSE [k \in 1 .. ChunkSize |->
                                    IF k > offset[e][c] /\ k <= offset[e][c] + num(c)
                                    THEN <<e, first(c) + k - offset[e][c]>>
                                    ELSE @[c][k]]]]

\* An empty message posts every free chunk with the offset it has, so one that
\* was received into and read goes back to the peer.
Echoes(e, tx, b) == b = 0 /\ \E k \in DOMAIN tx : offset[e][tx[k]] > 0

\* send() of b bytes.  Too few free chunks give an empty vector, whose begin()
\* is dereferenced; a copy loop that finds no room runs past the vector.  The
\* requests are posted with the offsets of their chunks as lengths, up to one
\* that ibv_post_send refuses.
Send(e, b) ==
    LET tx    == GetBuffers(channel[e], b).tx
        count == Len(tx)
    IN  /\ Runs
        /\ b = 0 => empties[e] < MaxEmpty
        /\ empties' = [empties EXCEPT ![e] = IF b = 0 THEN @ + 1 ELSE @]
        /\ IF count = 0 \/ count < NumBuffers(b) \/ Room(e, tx, count) < b
           THEN /\ crash' = IF count = 0 \/ count < NumBuffers(b) THEN "no_buffer"
                                                                  ELSE "past_end"
                /\ UNCHANGED <<memVars, poolVars, sq, given, refused, echoed>>
           ELSE /\ Fill(e, tx, b)
                /\ channel' = [channel EXCEPT ![e] = GetBuffers(@, b).rest]
                /\ taken' = [taken EXCEPT ![e] = IF b = 0 THEN @ ELSE @ + count]
                /\ \E k \in 0 .. count :
                      /\ sq' = [sq EXCEPT ![e] = @ \o
                                  [j \in 1 .. k |-> [chunk |-> tx[j], length |-> offset'[e][tx[j]]]]]
                      /\ k < count => Faults < MaxFaults
                      /\ refused' = IF k = count THEN refused ELSE refused \cup {e}
                /\ echoed' = IF Echoes(e, tx, b) THEN echoed \cup {e} ELSE echoed
                /\ given' = [given EXCEPT ![e] = @ + b]
                /\ UNCHANGED crash
        /\ UNCHANGED <<srq, rxcq, event, rx_buffers, got, posted, deaf, broken>>

-----------------------------------------------------------------------------
(* The adapters (external: libibverbs and the HCA).                         *)

\* The bytes a request sends: those in the chunk when the adapter reads it.
OnWire(e, r) == SubSeq(buffer[e][r.chunk], 1, r.length)

\* A completion of the receive queue raises an event, or finds one waiting,
\* unless the queue could not be armed after the last event.
Receive(p, done) ==
    /\ rxcq' = [rxcq EXCEPT ![p] = Append(@, done)]
    /\ event' = [event EXCEPT ![p] = @ \/ p \notin deaf]

\* The oldest request of e is sent into the oldest chunk posted by the peer; a
\* peer that has none makes the sender retry for ever (rnr_retry 7).
Transmit(e) ==
    LET p == Peer[e]
        r == Head(sq[e])
        c == Head(srq[p])
    IN  /\ Runs /\ ~broken
        /\ sq[e] # <<>>
        /\ srq[p] # <<>>
        /\ sq' = [sq EXCEPT ![e] = Tail(@)]
        /\ srq' = [srq EXCEPT ![p] = Tail(@)]
        /\ buffer' = [buffer EXCEPT ![p][c] =
                         OnWire(e, r) \o SubSeq(@, r.length + 1, ChunkSize)]
        /\ Receive(p, [chunk |-> c, byte_len |-> r.length, ok |-> TRUE])
        /\ UNCHANGED <<offset, poolVars, rx_buffers, appVars, got, history, broken, crash>>

\* The connection breaks, perhaps while a chunk is being filled.
Break ==
    /\ Runs /\ ~broken
    /\ Faults < MaxFaults
    /\ broken' = TRUE
    /\ \/ UNCHANGED <<srq, rxcq, event>>
       \/ \E p \in Ends :
             /\ sq[Peer[p]] # <<>>
             /\ srq[p] # <<>>
             /\ srq' = [srq EXCEPT ![p] = Tail(@)]
             /\ Receive(p, [chunk |-> Head(srq[p]), byte_len |-> 0, ok |-> FALSE])
    /\ UNCHANGED <<memVars, poolVars, sq, rx_buffers, appVars, got, history, crash>>

\* A broken queue pair flushes its requests, and handle_tx_event meets the bad
\* status with assert(0).
Flush(e) ==
    /\ Runs /\ broken
    /\ sq[e] # <<>>
    /\ crash' = "assert"
    /\ UNCHANGED <<memVars, poolVars, srq, sq, rxcq, event, rx_buffers, appVars, got, history,
                   broken>>

-----------------------------------------------------------------------------
(* RDMAConnectedSocketImpl::read.  st is the state of the call: bytes read,  *)
(* the bytes themselves, the offsets and rx_buffers.                        *)

\* Chunk::read of `want` bytes; asking for more than is left starts the chunk
\* again.
ChunkRead(e, st, c, want) ==
    LET left == ChunkSize - st.off[c]
        num  == Least(left, want)
    IN  [st EXCEPT !.read = @ + num,
                   !.out = @ \o SubSeq(buffer[e][c], st.off[c] + 1, st.off[c] + num),
                   !.off[c] = IF left >= want THEN @ + want ELSE 0]

\* read_buffers: the kept chunks in turn until the caller's buffer is full.
ReadKept(e, st, c, len) == IF st.read = len THEN st ELSE ChunkRead(e, st, c, len - st.read)
ReadBuffers(e, st, len) ==
    LET after[k \in 0 .. Len(rx_buffers[e])] ==
            IF k = 0 THEN st ELSE ReadKept(e, after[k - 1], rx_buffers[e][k], len)
    IN  after[Len(rx_buffers[e])]

\* One completion: its chunk is kept unless the message surely ended within len.
TakeMutant(e, st, d, len) ==
    IF st.read = len THEN st
    ELSE IF st.read + d.byte_len >= len
    THEN [ChunkRead(e, st, d.chunk, len - st.read) EXCEPT !.kept = Append(@, d.chunk)]
    ELSE ChunkRead(e, st, d.chunk, d.byte_len)
Take(e, st, d, len) ==
    IF st.read = len THEN [st EXCEPT !.kept = Append(@, d.chunk)]
    ELSE IF st.read + d.byte_len >= len
    THEN [ChunkRead(e, st, d.chunk, len - st.read) EXCEPT !.kept = Append(@, d.chunk)]
    ELSE ChunkRead(e, st, d.chunk, d.byte_len)

\* The loop polls until the queue is empty, and takes the completions in turn.
PolledMutant(e) == SubSeq(rxcq[e], 1, Least(1, Len(rxcq[e])))
Polled(e) == rxcq[e]
TakeAll(e, st, len) ==
    LET after[k \in 0 .. Len(Polled(e))] ==
            IF k = 0 THEN st ELSE Take(e, after[k - 1], Polled(e)[k], len)
    IN  after[Len(Polled(e))]

\* read() spins until there is an event, then empties rx_buffers and the queue
\* into the caller's buffer.  It ends by arming the queue: a completion between
\* that and the last poll leaves an event behind, and a refusal is ignored.
Read(e, len) ==
    LET start == [read |-> 0, out |-> <<>>, off |-> offset[e], kept |-> rx_buffers[e]]
        end   == TakeAll(e, ReadBuffers(e, start, len), len)
    IN  /\ Runs
        /\ event[e]
        /\ IF \E k \in DOMAIN rxcq[e] : ~rxcq[e][k].ok
           THEN /\ crash' = "assert"
                /\ UNCHANGED <<offset, rxcq, event, rx_buffers, got, deaf>>
           ELSE /\ offset' = [offset EXCEPT ![e] = end.off]
                /\ rx_buffers' = [rx_buffers EXCEPT ![e] = end.kept]
                /\ got' = [got EXCEPT ![e] = @ \o end.out]
                /\ rxcq' = [rxcq EXCEPT ![e] = SubSeq(@, Len(Polled(e)) + 1, Len(@))]
                /\ \E again \in {FALSE, rxcq[e] # <<>>} :
                      event' = [event EXCEPT ![e] = again]
                /\ \/ deaf' = deaf
                   \/ ~event'[e] /\ Faults < MaxFaults /\ deaf' = deaf \cup {e}
                /\ UNCHANGED crash
        /\ UNCHANGED <<buffer, poolVars, srq, sq, appVars, posted, refused, echoed, broken>>

-----------------------------------------------------------------------------
Next ==
    \/ \E e \in Ends : \/ \E b \in Lengths[e] : Send(e, b)
                       \/ Transmit(e)
                       \/ Flush(e)
                       \/ \E len \in Lens[e] : Read(e, len)
    \/ Break

Spec == Init /\ [][Next]_vars

\* A reliable connection delivers what is posted while receives are posted, and
\* the event loop calls read() on a socket whose channel is readable.
Fairness ==
    \A e \in Ends : /\ WF_vars(Transmit(e))
                    /\ WF_vars(\E len \in Lens[e] : Read(e, len))

FairSpec == Spec /\ Fairness

-----------------------------------------------------------------------------
(* Properties.                                                              *)

\* Types of the state: lists, requests and completions hold chunks of the
\* cluster, and no offset leaves its chunk, whichever path moved it last.
TypeOK ==
    /\ channel \in [Ends -> Seq(Chunks)]
    /\ buffer \in [Ends -> [Chunks -> [1 .. ChunkSize -> Byte]]]
    /\ offset \in [Ends -> [Chunks -> 0 .. ChunkSize]]
    /\ srq \in [Ends -> Seq(Chunks)]
    /\ sq \in [Ends -> Seq(Request)]
    /\ rxcq \in [Ends -> Seq(RxDone)]
    /\ event \in [Ends -> BOOLEAN]
    /\ rx_buffers \in [Ends -> Seq(Chunks)]
    /\ given \in [Ends -> Nat]
    /\ got \in [Ends -> Seq(Byte)]
    /\ taken \in [Ends -> 0 .. RxNum]
    /\ posted \in [Ends -> 0 .. RxNum]
    /\ deaf \subseteq Ends
    /\ refused \subseteq Ends
    /\ echoed \subseteq Ends
    /\ empties \in [Ends -> 0 .. MaxEmpty]
    /\ broken \in BOOLEAN
    /\ crash \in CrashWay

\* The two paths of e have not met: the chunks that were received into and those
\* that send() took are still different ones.
Fresh(e) == taken[e] + posted[e] - Len(srq[e]) <= RxNum

\* A refused request cuts the stream of e, an echo adds to it.
Torn(e) == e \in refused \cup echoed

\* What is posted by e, and what arrived at p and was not read, in order.
Posted(e)  == [k \in 1 .. Len(sq[e]) |-> OnWire(e, sq[e][k])]
Arrived(p) == [k \in 1 .. Len(rxcq[p]) |-> SubSeq(buffer[p][rxcq[p][k].chunk], 1, rxcq[p][k].byte_len)]
Joined(parts) ==
    LET upto[k \in 0 .. Len(parts)] == IF k = 0 THEN <<>> ELSE upto[k - 1] \o parts[k]
    IN  upto[Len(parts)]
InFlight(e) == Joined(Posted(e))
Unread(p)   == Joined(Arrived(p))
Stream(e) == [k \in 1 .. given[e] |-> <<e, k>>]

\* The bytes that go in at one end come out at the other, once and in order, even
\* though every chunk send() fills is posted for receiving as well: as long as no
\* end has used its chunks twice, what read() returned, what it has not read and
\* what is posted make up the stream send() was given (its beginning, once the
\* connection broke).  A refused request cuts the stream, an empty message does
\* no harm unless it echoes, and a chunk kept in rx_buffers is read again to its
\* full size.
StreamIntact ==
    \A e \in Ends :
        LET p       == Peer[e]
            arrived == got[p] \o Unread(p)
        IN  Fresh(e) /\ Fresh(p) /\ ~Torn(e) /\ rx_buffers[p] = <<>> =>
                IF broken THEN IsPrefix(arrived, Stream(e))
                          ELSE arrived \o InFlight(e) = Stream(e)

\* Leftovers included, nothing that send() accepted is lost: each byte was
\* returned by the peer's read(), is in a chunk the peer holds, or is posted.
NothingLost ==
    \A e \in Ends :
        LET p    == Peer[e]
            held == {rx_buffers[p][k] : k \in DOMAIN rx_buffers[p]}
                        \cup {rxcq[p][k].chunk : k \in DOMAIN rxcq[p]}
        IN  Fresh(e) /\ Fresh(p) /\ ~Torn(e) /\ ~broken =>
                \A k \in 1 .. given[e] :
                    \/ <<e, k>> \in ToSet(got[p])
                    \/ <<e, k>> \in ToSet(InFlight(e))
                    \/ \E c \in held : <<e, k>> \in ToSet(buffer[p][c])

\* The receives that are posted once, and never again, outlast the chunks the
\* peer can send: an end that has requests posted finds a receive, unless the
\* other end could not post all of its own or empty messages used them up.
ReceivesSuffice ==
    \A e \in Ends :
        sq[e] # <<>> /\ ~broken /\ posted[Peer[e]] = RxNum /\ empties[e] = 0
            => srq[Peer[e]] # <<>>

\* Every posted message is taken out of the peer's queue by a read() in the end,
\* unless a process died, the connection broke, the queue could not be armed or
\* the receives ran out.
Outstanding(e) == sq[e] # <<>> \/ rxcq[Peer[e]] # <<>>
MessagesRead ==
    \A e \in Ends :
        Outstanding(e) ~> \/ ~Outstanding(e)
                          \/ broken \/ ~Runs
                          \/ Peer[e] \in deaf
                          \/ posted[Peer[e]] < RxNum \/ empties[e] > 0
=============================================================================
