------------------------------- MODULE TxPath -------------------------------
(***************************************************************************)
(* The transmit path of the Ceph RDMA stack: a worker thread that copies a *)
(* bufferlist into registered chunks and posts them                        *)
(* (RDMAConnectedSocketImpl::send), the adapter that completes the posted  *)
(* work requests, and the worker's handler that polls the transmit         *)
(* completion queue and gives the chunks back                              *)
(* (RDMAWorker::handle_tx_event).  The two free lists of the MemoryManager *)
(* and the static array of work completions are shared by all the workers  *)
(* of a process and are not locked, so every access to them is a step of   *)
(* its own.  So are the accesses to the offset of a chunk: two workers may *)
(* hold one chunk, and the chunks of the RECV cluster, which send() takes, *)
(* are also the ones that messages arrive in and that Chunk::read reads.   *)
(***************************************************************************)
EXTENDS Naturals, Sequences, FiniteSets

CONSTANTS
    Workers,          \* worker threads of the process (RDMAWorker)
    Sockets,          \* connected sockets (RDMAConnectedSocketImpl)
    Owner,            \* Owner[s]: the worker whose thread calls s.send()
    TxCq,             \* TxCq[s]: the worker whose tx_cq the queue pair of s uses
    ChunkSize,        \* bytes of a chunk (8*1024 in the code)
    RxNum, TxNum,     \* chunks of the RECV and the SEND cluster (256 and 256)
    MAX_COMPLETIONS,  \* completions taken by one poll (16)
    MAX_ACK_EVENT,    \* events acknowledged together (128)
    Lengths,          \* bound: the lengths of the bufferlists handed to send()
    MaxEmpty,         \* bound: how many of them are empty
    ReadLens,         \* bound: the lengths Chunk::read is asked for
    MaxReads          \* bound: how often

ASSUME TxPathAssumption ==
    /\ Sockets # {}
    /\ Owner \in [Sockets -> Workers]
    /\ TxCq \in [Sockets -> Workers]
    /\ ChunkSize \in Nat \ {0}
    /\ RxNum \in Nat
    /\ TxNum \in Nat
    /\ MAX_COMPLETIONS \in Nat \ {0}
    /\ MAX_ACK_EVENT \in Nat \ {0, 1}
    /\ Lengths \subseteq Nat
    /\ MaxEmpty \in Nat
    /\ ReadLens \subseteq Nat
    /\ MaxReads \in Nat

VARIABLES
    channel,     \* free_chunks of the cluster `channel` (RECV)
    send,        \* free_chunks of the cluster `send` (SEND)
    offset,      \* offset[c]: Chunk::offset
    leaked,      \* chunks that no list, request or thread refers to any more
    touched,     \* chunks that Chunk::read was called on (history)
    sq,          \* sq[s]: chunks of posted, uncompleted work requests of s
    failed,      \* sockets whose queue pair is in the error state
    cq,          \* cq[w]: completions in the tx_cq of w
    armed,       \* armed[w]: the next completion of tx_cq raises an event
    events,      \* events[w]: events readable on tx_cc of w
    stuck,       \* workers whose ibv_req_notify_cq was refused once (history)
    need_ack,    \* need_ack[w]: cq_events_that_need_ack of tx_cc
    wc,          \* the static array `wc` of handle_tx_event, one per process
    pc,          \* pc[w]: what the thread of w does next
    rearmed,     \* locals of handle_tx_event: rearmed, n and i
    n, i,
    sock,        \* locals of send: this, the length of the bufferlist, what is
    bytes, todo, \*   not copied yet, tx_buffers and the index of
    tx_buffers,  \*   current_buffer
    cur,
    this,        \* the chunk a thread works on, the length it asks for, and
    len, seen,   \*   the offset it computed `left` from
    empties,     \* empty bufferlists handed to send() so far
    reads,       \* calls of Chunk::read so far
    raced,       \* two workers used a free list or wc at once (history)
    crash        \* how the process ended, "no" while it runs

notifyVars == <<cq, armed, events, stuck, need_ack, wc, rearmed, n, i>>
poolVars   == <<channel, send, offset, leaked, touched>>
copyVars   == <<this, len, seen, reads>>
sendVars   == <<sock, bytes, todo, tx_buffers, cur, empties>>
qpVars     == <<sq, failed>>
vars       == <<poolVars, qpVars, notifyVars, pc, copyVars, sendVars, raced, crash>>

-----------------------------------------------------------------------------
(* Data.  A chunk is a number: 1..RxNum are carved by channel->add(rx_num), *)
(* the next TxNum by send->add(tx_num).  0 is the NULL a zeroed wr_id holds. *)

RxChunks == 1 .. RxNum
Chunks   == 1 .. (RxNum + TxNum)

\* The fields of an ibv_wc the handler looks at: wr_id and status.
Completion == [chunk : Chunks, ok : BOOLEAN]
NoEntry    == [chunk |-> 0, ok |-> TRUE]

Reaping  == {"reap", "status"}
Handler  == {"poll", "rearm"} \cup Reaping
FromList == {"back", "pop"}
Sending  == {"fill", "write", "full", "post"} \cup FromList
Steps    == {"loop", "read"} \cup Sending \cup Handler
CrashWay == {"no", "assert", "no_buffer", "past_end"}

\* The cluster's count of chunks for a message: the quotient rounded up.
NumBuffersMutant(b) == b \div ChunkSize + 1
NumBuffers(b) ==
    LET q == b \div ChunkSize + 1
    IN  IF b % ChunkSize = 0 THEN q - 1 ELSE q

\* The process runs and the thread of w is about to take the step l.
At(w, l) == crash = "no" /\ pc[w] = l

\* A thread other than that of w is in one of the steps ls.
OtherIn(w, ls) == \E v \in Workers : v # w /\ pc[v] \in ls

\* The adapter's side of ibv_req_notify_cq: an armed queue raises one event
\* for its next completion, and is disarmed by it.
Notify(w) ==
    IF armed[w]
    THEN /\ events' = [events EXCEPT ![w] = @ + 1]
         /\ armed' = [armed EXCEPT ![w] = FALSE]
    ELSE UNCHANGED <<events, armed>>

-----------------------------------------------------------------------------
Init ==
    /\ channel = [k \in 1 .. RxNum |-> k]
    /\ send = [k \in 1 .. TxNum |-> RxNum + k]
    /\ offset = [c \in Chunks |-> 0]
    /\ leaked = {}
    /\ touched = {}
    /\ sq = [s \in Sockets |-> <<>>]
    /\ failed = {}
    /\ cq = [w \in Workers |-> <<>>]
    /\ armed = [w \in Workers |-> TRUE]
    /\ events = [w \in Workers |-> 0]
    /\ stuck = {}
    /\ need_ack = [w \in Workers |-> 0]
    /\ wc = [k \in 1 .. MAX_COMPLETIONS |-> NoEntry]
    /\ pc = [w \in Workers |-> "loop"]
    /\ rearmed = [w \in Workers |-> FALSE]
    /\ n = [w \in Workers |-> 0]
    /\ i = [w \in Workers |-> 1]
    /\ sock = [w \in Workers |-> CHOOSE s \in Sockets : TRUE]
    /\ bytes = [w \in Workers |-> 0]
    /\ todo = [w \in Workers |-> 0]
    /\ tx_buffers = [w \in Workers |-> <<>>]
    /\ cur = [w \in Workers |-> 1]
    /\ this = [w \in Workers |-> 0]
    /\ len = [w \in Workers |-> 0]
    /\ seen = [w \in Workers |-> 0]
    /\ empties = 0
    /\ reads = 0
    /\ raced = FALSE
    /\ crash = "no"

-----------------------------------------------------------------------------
(* RDMAConnectedSocketImpl::send, run by the thread of Owner[s].            *)

\* get_buffers compares the size of the free list with the count it needs.
\* When there are too few it returns an empty vector, whose begin() send()
\* dereferences.  The length 0 is its "all chunks" request: it returns a copy of
\* the free list and removes nothing, and there is nothing to copy into it.
SendBegin(w, s, b) ==
    /\ At(w, "loop")
    /\ Owner[s] = w
    /\ IF b = 0 THEN empties < MaxEmpty /\ empties' = empties + 1
                ELSE UNCHANGED empties
    /\ IF Len(channel) < NumBuffers(b) \/ (b = 0 /\ channel = <<>>)
       THEN /\ crash' = "no_buffer"
            /\ UNCHANGED <<pc, tx_buffers, cur, raced>>
       ELSE /\ pc' = [pc EXCEPT ![w] = IF b = 0 THEN "post" ELSE "back"]
            /\ tx_buffers' = [tx_buffers EXCEPT ![w] = IF b = 0 THEN channel ELSE <<>>]
            /\ cur' = [cur EXCEPT ![w] = 1]
            /\ raced' = (raced \/ OtherIn(w, FromList))
            /\ UNCHANGED crash
    /\ sock' = [sock EXCEPT ![w] = s]
    /\ bytes' = [bytes EXCEPT ![w] = b]
    /\ todo' = [todo EXCEPT ![w] = b]
    /\ UNCHANGED <<poolVars, qpVars, notifyVars, copyVars>>

\* ret.push_back(free_chunks.back()); back() of an emptied list is undefined.
TakeBack(w) ==
    /\ At(w, "back")
    /\ IF channel = <<>>
       THEN /\ crash' = "past_end"
            /\ UNCHANGED <<tx_buffers, pc>>
       ELSE /\ tx_buffers' = [tx_buffers EXCEPT ![w] = Append(@, channel[Len(channel)])]
            /\ pc' = [pc EXCEPT ![w] = "pop"]
            /\ UNCHANGED crash
    /\ UNCHANGED <<poolVars, qpVars, notifyVars, copyVars, sock, bytes, todo, cur, empties, raced>>

PopBackMutant(w) ==
    /\ At(w, "pop")
    /\ channel # <<>>
    /\ pc' = [pc EXCEPT ![w] =
                 IF Len(tx_buffers[w]) = NumBuffers(bytes[w]) THEN "fill" ELSE "back"]
    /\ UNCHANGED <<poolVars, qpVars, notifyVars, copyVars, sendVars, raced, crash>>

\* free_chunks.pop_back(), then the test of the loop.
PopBack(w) ==
    /\ At(w, "pop")
    /\ IF channel = <<>>
       THEN /\ crash' = "past_end"
            /\ UNCHANGED <<channel, pc>>
       ELSE /\ channel' = SubSeq(channel, 1, Len(channel) - 1)
            /\ pc' = [pc EXCEPT ![w] =
                         IF Len(tx_buffers[w]) = NumBuffers(bytes[w]) THEN "fill" ELSE "back"]
            /\ UNCHANGED crash
    /\ UNCHANGED <<send, offset, leaked, touched, qpVars, notifyVars, copyVars, sendVars, raced>>

\* left >= len in Chunk::write and Chunk::read, for a chunk at offset o.  The
\* subtraction is unsigned: a chunk past its end has endless room.
Fits(o, b) == o > ChunkSize \/ o + b <= ChunkSize

\* Chunk::write or Chunk::read of w returns; its locals go out of scope.
ChunkDone(w) ==
    /\ this' = [this EXCEPT ![w] = 0]
    /\ len' = [len EXCEPT ![w] = 0]
    /\ seen' = [seen EXCEPT ![w] = 0]
    /\ UNCHANGED reads

\* What Chunk::write returns.
Ret(w) == IF Fits(seen[w], len[w]) THEN len[w] ELSE ChunkSize - seen[w]

\* One turn of the copy loop begins: Chunk::write computes what is left of the chunk
\* that current_buffer points to.  A piece is any part of the bytes that are left.
WriteBegin(w, piece) ==
    /\ At(w, "fill")
    /\ IF cur[w] > Len(tx_buffers[w])
       THEN /\ crash' = "past_end"
            /\ UNCHANGED <<this, len, seen, pc>>
       ELSE /\ this' = [this EXCEPT ![w] = tx_buffers[w][cur[w]]]
            /\ len' = [len EXCEPT ![w] = piece]
            /\ seen' = [seen EXCEPT ![w] = offset[tx_buffers[w][cur[w]]]]
            /\ pc' = [pc EXCEPT ![w] = "write"]
            /\ UNCHANGED crash
    /\ UNCHANGED <<poolVars, qpVars, notifyVars, reads, sendVars, raced>>

\* Chunk::write copies and moves the offset; offset += len starts from what is in
\* memory now, or from what was there when `left` was computed.
WriteEnd(w) ==
    /\ At(w, "write")
    /\ \E o \in {offset[this[w]], seen[w]} :
          offset' = [offset EXCEPT ![this[w]] =
                        IF Fits(seen[w], len[w]) THEN o + len[w] ELSE ChunkSize]
    /\ todo' = [todo EXCEPT ![w] = @ - Ret(w)]
    /\ pc' = [pc EXCEPT ![w] = "full"]
    /\ UNCHANGED <<channel, send, leaked, touched, qpVars, notifyVars, copyVars, sock, bytes,
                   tx_buffers, cur, empties, raced, crash>>

\* Chunk::full: current_buffer moves on.  The loop ends with the last byte.
FullTest(w) ==
    /\ At(w, "full")
    /\ cur' = [cur EXCEPT ![w] = IF offset[this[w]] = ChunkSize THEN @ + 1 ELSE @]
    /\ pc' = [pc EXCEPT ![w] = IF todo[w] = 0 THEN "post" ELSE "fill"]
    /\ ChunkDone(w)
    /\ UNCHANGED <<poolVars, qpVars, notifyVars, sock, bytes, todo, tx_buffers, empties, raced, crash>>

\* send() returns; its locals go out of scope.
Return(w) ==
    /\ pc' = [pc EXCEPT ![w] = "loop"]
    /\ tx_buffers' = [tx_buffers EXCEPT ![w] = <<>>]
    /\ bytes' = [bytes EXCEPT ![w] = 0]
    /\ cur' = [cur EXCEPT ![w] = 1]
    /\ UNCHANGED <<sock, todo, empties>>

\* ibv_post_send of one linked list of requests, one chunk each.
Post(w) ==
    /\ At(w, "post")
    /\ sq' = [sq EXCEPT ![sock[w]] = @ \o tx_buffers[w]]
    /\ Return(w)
    /\ UNCHANGED <<poolVars, failed, notifyVars, copyVars, raced, crash>>

\* ibv_post_send stops at a bad request: the ones before it are posted, the
\* chunks of the others are dropped with tx_buffers, and send() returns -1.  An
\* empty message still has its chunks on the free list.
PostFail(w, k) ==
    /\ At(w, "post")
    /\ k < Len(tx_buffers[w])
    /\ sq' = [sq EXCEPT ![sock[w]] = @ \o SubSeq(tx_buffers[w], 1, k)]
    /\ leaked' = IF bytes[w] = 0 THEN leaked
                 ELSE leaked \cup {tx_buffers[w][j] : j \in (k + 1) .. Len(tx_buffers[w])}
    /\ Return(w)
    /\ UNCHANGED <<channel, send, offset, touched, failed, notifyVars, copyVars, raced, crash>>

-----------------------------------------------------------------------------
(* Chunk::read, which RxPath has in full: read() on the thread of w copies  *)
(* out of a chunk of the RECV cluster and moves its offset, whether the     *)
(* chunk is still on the free list or send() has taken it.                  *)

ReadBegin(w, c, b) ==
    /\ At(w, "loop")
    /\ reads < MaxReads
    /\ reads' = reads + 1
    /\ touched' = touched \cup {c}
    /\ this' = [this EXCEPT ![w] = c]
    /\ len' = [len EXCEPT ![w] = b]
    /\ seen' = [seen EXCEPT ![w] = offset[c]]
    /\ pc' = [pc EXCEPT ![w] = "read"]
    /\ UNCHANGED <<channel, send, offset, leaked, qpVars, notifyVars, sendVars, raced, crash>>

ReadEnd(w) ==
    /\ At(w, "read")
    /\ \E o \in {offset[this[w]], seen[w]} :
          offset' = [offset EXCEPT ![this[w]] = IF Fits(seen[w], len[w]) THEN o + len[w] ELSE 0]
    /\ pc' = [pc EXCEPT ![w] = "loop"]
    /\ ChunkDone(w)
    /\ UNCHANGED <<channel, send, leaked, touched, qpVars, notifyVars, sendVars, raced, crash>>

-----------------------------------------------------------------------------
(* The adapter (external: libibverbs and the HCA).                          *)

\* The queue pair of s enters the error state (retries exhausted, peer gone).
QpError(s) ==
    /\ crash = "no"
    /\ s \notin failed
    /\ failed' = failed \cup {s}
    /\ UNCHANGED <<poolVars, sq, notifyVars, pc, copyVars, sendVars, raced, crash>>

\* The oldest request of s completes; a failed queue pair flushes it.
Complete(s) ==
    /\ crash = "no"
    /\ sq[s] # <<>>
    /\ sq' = [sq EXCEPT ![s] = Tail(@)]
    /\ cq' = [cq EXCEPT ![TxCq[s]] =
                 Append(@, [chunk |-> Head(sq[s]), ok |-> s \notin failed])]
    /\ Notify(TxCq[s])
    /\ UNCHANGED <<poolVars, failed, stuck, need_ack, wc, rearmed, n, i, pc, copyVars, sendVars,
                   raced, crash>>

-----------------------------------------------------------------------------
(* RDMAWorker::handle_tx_event, run by the thread of w.                     *)

\* Events are acknowledged MAX_ACK_EVENT at a time.
AckMutant(k) == IF k + 1 > MAX_ACK_EVENT THEN 0 ELSE k + 1
Ack(k) == IF k + 1 = MAX_ACK_EVENT THEN 0 ELSE k + 1

\* CompletionChannel::get_cq_event reads one event and acknowledges them in
\* batches.  Without an event the handler returns at once, which is no step.
GetCqEvent(w) ==
    /\ At(w, "loop")
    /\ events[w] > 0
    /\ events' = [events EXCEPT ![w] = @ - 1]
    /\ need_ack' = [need_ack EXCEPT ![w] = Ack(@)]
    /\ rearmed' = [rearmed EXCEPT ![w] = FALSE]
    /\ pc' = [pc EXCEPT ![w] = "poll"]
    /\ UNCHANGED <<poolVars, qpVars, cq, armed, stuck, wc, n, i, copyVars, sendVars, raced, crash>>

\* Where the handler goes after a poll that found nothing.
AfterEmptyPollMutant(w) == IF rearmed[w] THEN "rearm" ELSE "loop"
AfterEmptyPoll(w) == IF rearmed[w] THEN "loop" ELSE "rearm"

\* The array after a poll that got k completions: the entries behind them stay.
PolledMutant(w, k) == [j \in DOMAIN wc |-> IF j <= k THEN cq[w][j] ELSE NoEntry]
Polled(w, k) == [j \in DOMAIN wc |-> IF j <= k THEN cq[w][j] ELSE wc[j]]

\* poll_cq moves up to MAX_COMPLETIONS completions into the static array.  A poll
\* that fails returns -1 and is tried again, which is no step.
PollCq(w) ==
    LET got == IF Len(cq[w]) < MAX_COMPLETIONS THEN Len(cq[w]) ELSE MAX_COMPLETIONS
    IN  /\ At(w, "poll")
        /\ IF got = 0
           THEN /\ pc' = [pc EXCEPT ![w] = AfterEmptyPoll(w)]
                /\ UNCHANGED raced
           ELSE /\ pc' = [pc EXCEPT ![w] = "reap"]
                /\ raced' = (raced \/ OtherIn(w, Reaping))
        /\ cq' = [cq EXCEPT ![w] = SubSeq(@, got + 1, Len(@))]
        /\ wc' = Polled(w, got)
        /\ i' = [i EXCEPT ![w] = 1]
        /\ n' = [n EXCEPT ![w] = got]
        /\ UNCHANGED <<poolVars, qpVars, armed, events, stuck, need_ack, rearmed, copyVars,
                       sendVars, crash>>

\* MemoryManager::return_channel: the chunk joins the list of `send`.
ReturnChannelMutant(c) ==
    /\ channel' = Append(channel, c)
    /\ UNCHANGED <<send, offset, leaked, touched>>
ReturnChannel(c) ==
    /\ send' = Append(send, c)
    /\ UNCHANGED <<channel, offset, leaked, touched>>

\* One turn of the loop over the completions begins: wr_id of the i-th entry.
ReapBegin(w) ==
    /\ At(w, "reap")
    /\ this' = [this EXCEPT ![w] = wc[i[w]].chunk]
    /\ pc' = [pc EXCEPT ![w] = "status"]
    /\ UNCHANGED <<poolVars, qpVars, notifyVars, len, seen, reads, sendVars, raced, crash>>

\* Its status is looked at later: a bad one is assert(0), with a good one the chunk
\* is given back.
ReapEnd(w) ==
    /\ At(w, "status")
    /\ IF ~wc[i[w]].ok
       THEN /\ crash' = "assert"
            /\ UNCHANGED <<poolVars, copyVars, i, pc>>
       ELSE /\ ReturnChannel(this[w])
            /\ ChunkDone(w)
            /\ i' = [i EXCEPT ![w] = @ + 1]
            /\ pc' = [pc EXCEPT ![w] = IF i[w] = n[w] THEN "poll" ELSE "reap"]
            /\ UNCHANGED crash
    /\ UNCHANGED <<qpVars, cq, armed, events, stuck, need_ack, wc, rearmed, n, sendVars, raced>>

RearmMutant(w) ==
    /\ At(w, "rearm")
    /\ armed' = [armed EXCEPT ![w] = TRUE]
    /\ rearmed' = [rearmed EXCEPT ![w] = TRUE]
    /\ pc' = [pc EXCEPT ![w] = "loop"]
    /\ UNCHANGED <<poolVars, qpVars, cq, events, stuck, need_ack, wc, n, i, copyVars, sendVars,
                   raced, crash>>

\* rearm_notify, after which the queue is polled once more.  Its result is
\* ignored: when ibv_req_notify_cq fails the queue stays unarmed.
Rearm(w) ==
    /\ At(w, "rearm")
    /\ \/ /\ armed' = [armed EXCEPT ![w] = TRUE]
          /\ UNCHANGED stuck
       \/ /\ stuck' = stuck \cup {w}
          /\ UNCHANGED armed
    /\ rearmed' = [rearmed EXCEPT ![w] = TRUE]
    /\ pc' = [pc EXCEPT ![w] = "poll"]
    /\ UNCHANGED <<poolVars, qpVars, cq, events, need_ack, wc, n, i, copyVars, sendVars, raced, crash>>

-----------------------------------------------------------------------------
SendSteps(w) ==
    \/ \E s \in Sockets, b \in Lengths : SendBegin(w, s, b)
    \/ TakeBack(w)
    \/ PopBack(w)
    \/ \E piece \in 1 .. todo[w] : WriteBegin(w, piece)
    \/ WriteEnd(w)
    \/ FullTest(w)
    \/ Post(w)
    \/ \E k \in 0 .. Len(tx_buffers[w]) : PostFail(w, k)

ReadSteps(w) == (\E c \in RxChunks, b \in ReadLens : ReadBegin(w, c, b)) \/ ReadEnd(w)

HandlerSteps(w) == GetCqEvent(w) \/ PollCq(w) \/ ReapBegin(w) \/ ReapEnd(w) \/ Rearm(w)

WorkerSteps(w) == SendSteps(w) \/ ReadSteps(w) \/ HandlerSteps(w)

\* A process that crashed stays down.
Crashed == crash # "no" /\ UNCHANGED vars

Next ==
    \/ \E w \in Workers : WorkerSteps(w)
    \/ \E s \in Sockets : QpError(s) \/ Complete(s)
    \/ Crashed

Spec == Init /\ [][Next]_vars

\* A worker thread inside send(), read() or the handler runs on; its event loop looks
\* at the channel between two calls of send(); and a reliable connection whose peer
\* has receives posted completes what was posted.
Running(w) == pc[w] # "loop" /\ WorkerSteps(w)
Fairness ==
    /\ \A w \in Workers :
          WF_vars(Running(w)) /\ SF_vars(GetCqEvent(w))
    /\ \A s \in Sockets : WF_vars(Complete(s))

FairSpec == Spec /\ Fairness

-----------------------------------------------------------------------------
(* Properties.                                                              *)

PoolTypeOK ==
    /\ channel \in Seq(Chunks)
    /\ send \in Seq(Chunks)
    /\ offset \in [Chunks -> Nat]
    /\ leaked \subseteq Chunks
    /\ touched \subseteq RxChunks
QpTypeOK ==
    /\ sq \in [Sockets -> Seq(Chunks)]
    /\ failed \subseteq Sockets
CqTypeOK ==
    /\ cq \in [Workers -> Seq(Completion)]
    /\ armed \in [Workers -> BOOLEAN]
    /\ events \in [Workers -> Nat]
    /\ stuck \subseteq Workers
    /\ need_ack \in [Workers -> 0 .. (MAX_ACK_EVENT - 1)]
ReapTypeOK ==
    /\ wc \in [1 .. MAX_COMPLETIONS -> Completion \cup {NoEntry}]
    /\ rearmed \in [Workers -> BOOLEAN]
    /\ n \in [Workers -> 0 .. MAX_COMPLETIONS]
    /\ i \in [Workers -> 1 .. (MAX_COMPLETIONS + 1)]
CopyTypeOK ==
    /\ this \in [Workers -> Chunks \cup {0}]
    /\ len \in [Workers -> Nat]
    /\ seen \in [Workers -> Nat]
    /\ reads \in 0 .. MaxReads
    /\ \A w \in Workers : pc[w] \in {"write", "full", "read"} => this[w] \in Chunks
    /\ \A w \in Workers : pc[w] = "write" => len[w] <= todo[w]
SendTypeOK ==
    /\ sock \in [Workers -> Sockets]
    /\ bytes \in [Workers -> Nat]
    /\ todo \in [Workers -> Nat]
    /\ tx_buffers \in [Workers -> Seq(Chunks)]
    /\ cur \in [Workers -> Nat \ {0}]
    /\ empties \in 0 .. MaxEmpty

\* Types of the state: free lists, requests and completions hold chunks only, no
\* thread copies more than it has left to copy, and unacknowledged events stay
\* below the count at which get_cq_event acknowledges them.  (An offset may leave
\* its chunk when two workers hold it.)
TypeOK ==
    /\ PoolTypeOK /\ QpTypeOK /\ CqTypeOK /\ ReapTypeOK /\ CopyTypeOK /\ SendTypeOK
    /\ pc \in [Workers -> Steps]
    /\ raced \in BOOLEAN
    /\ crash \in CrashWay

\* The handler only looks at entries of wc that some poll has filled, although
\* another worker may overwrite them at any time, wr_id and status apart: what goes
\* to the free list is always a chunk, never the NULL of an unused entry.
ReapsFilledEntries ==
    \A w \in Workers :
        /\ pc[w] \in Reaping => /\ i[w] <= n[w]
                                /\ \A k \in 1 .. n[w] : wc[k] \in Completion
        /\ pc[w] = "status" => this[w] \in Chunks

\* No completion is stranded: when the thread of w is out of handle_tx_event
\* and its queue still holds completions, an event is readable on tx_cc, so the
\* event loop calls the handler again.  The only exception is a worker whose
\* rearm_notify failed, a result the handler ignores.
NoLostWakeup ==
    \A w \in Workers :
        pc[w] \notin Handler /\ cq[w] # <<>> => events[w] > 0 \/ w \in stuck

\* The strengthening that makes NoLostWakeup inductive: at most one event is
\* outstanding, an armed queue has raised none since it was armed, and a worker
\* that may go back to its loop has armed its queue.
NotifyOK(w) ==
    /\ armed[w] => events[w] = 0
    /\ events[w] \in {0, 1}
    /\ pc[w] \notin Handler => (armed[w] /\ cq[w] = <<>>) \/ events[w] = 1 \/ w \in stuck
    /\ pc[w] \in Handler /\ ~rearmed[w] => ~armed[w] /\ events[w] = 0
    /\ pc[w] = "rearm" => ~rearmed[w]
    /\ pc[w] \in Handler /\ rearmed[w] => armed[w] \/ events[w] = 1 \/ w \in stuck
NotifyInv == \A w \in Workers : NotifyOK(w)

\* Where chunk c is referred to: a free list, a request, a completion, the part
\* of wc the handler has not looked at, the buffers of a running send() (except
\* the one back() returned and pop_back() has not removed), or lost.
Refs(c) ==
    LET In(name, o, s) == {<<name, o, k>> : k \in {j \in DOMAIN s : s[j] = c}}
    IN  UNION ( {In("channel", 0, channel), In("send", 0, send)}
          \cup {In("sq", s, sq[s]) : s \in Sockets}
          \cup {In("cq", w, [k \in DOMAIN cq[w] |-> cq[w][k].chunk]) : w \in Workers}
          \cup {In("wc", w, [k \in i[w] .. n[w] |-> wc[k].chunk]) :
                    w \in {v \in Workers : pc[v] \in Reaping}}
          \cup {In("tx", w,
                   SubSeq(tx_buffers[w], 1,
                          IF pc[w] = "pop" THEN Len(tx_buffers[w]) - 1
                                           ELSE Len(tx_buffers[w]))) : w \in Workers}
          \cup {{<<"leaked", 0, k>> : k \in leaked \cap {c}}} )

\* Between get_tx_buffers and return_channel no chunk is lost and none is in two
\* places: every chunk is on a free list, or held by exactly one send(), request
\* or completion, or is one of those a failed ibv_post_send dropped.  The free lists
\* and wc are not locked, so it ends where two workers take chunks, or look at
\* completions, at the same time.  So does it with an empty message, whose chunks
\* stay on the free list.
ChunkConservation ==
    empties = 0 /\ ~raced => \A c \in Chunks : Cardinality(Refs(c)) = 1

\* The chunks of the send() of w were not read, before or since it took them.
Clean(w) == \A k \in DOMAIN tx_buffers[w] : tx_buffers[w][k] \notin touched

\* What send() is about to post is what it was given: every chunk but the last
\* is full, the last one is not empty, and their lengths add up to `bytes`.  A
\* stale offset or a chunk too many would change the stream the peer reads, and a
\* chunk that a message arrived in and that was read has one: no more is said of it.
PostedBytesMatch ==
    \A w \in Workers :
        pc[w] = "post" /\ bytes[w] > 0 /\ Clean(w) /\ ~raced =>
            LET last == Len(tx_buffers[w])
            IN  /\ todo[w] = 0
                /\ last > 0
                /\ \A k \in 1 .. (last - 1) : offset[tx_buffers[w][k]] = ChunkSize
                /\ offset[tx_buffers[w][last]] > 0
                /\ (last - 1) * ChunkSize + offset[tx_buffers[w][last]] = bytes[w]

\* The copy loop runs past the buffers get_tx_buffers returned, or get_buffers past the
\* free list, only after a race or in a send() that took a chunk that was read.
NeverPastEnd ==
    crash = "past_end" => raced \/ \E w \in Workers : ~Clean(w)

\* A send() finds no buffers only when the cluster declared for SEND is short
\* of them (Infiniband.h:400).
SendClusterServesSends ==
    crash = "no_buffer" => \E w \in Workers : Len(send) < NumBuffers(bytes[w])

\* Every posted chunk is given back in the end, however the completions, the
\* events and the sends of the same thread interleave, unless the process
\* crashes, a worker could not arm its queue, or two of them raced.
SentChunksComeBack ==
    \A c \in RxChunks :
        (\E s \in Sockets : c \in {sq[s][k] : k \in DOMAIN sq[s]})
            ~> (c \in {send[k] : k \in DOMAIN send} \/ crash # "no" \/ stuck # {} \/ raced)

\* The transmit queue of each worker implements the promise of Wakeup.
Wk(w) == INSTANCE Wakeup WITH
             pending <- Len(cq[w]), signal <- events[w] > 0,
             awake <- pc[w] \in Handler, deaf <- w \in stuck
WakeupRefined ==
    /\ \A w \in Workers : Wk(w)!Init
    /\ [][\A w \in Workers : [Wk(w)!Next]_(Wk(w)!vars)]_vars
=============================================================================
