------------------------------- MODULE RxPath -------------------------------
(***************************************************************************)
(* The receive path of the Ceph RDMA stack: the chunks of the RECV cluster *)
(* posted to the shared receive queue (Infiniband::post_channel_cluster),  *)
(* the adapter that fills them, and a worker thread that copies what came  *)
(* in to the caller's buffer (RDMAConnectedSocketImpl::read).  Every       *)
(* socket has a completion queue of its own; the array of work completions *)
(* that read() polls into is static, so all the workers share one and      *)
(* every look at one of its entries is a step of its own.  The chunks are  *)
(* also the ones that send() takes and writes into (TxPath has send() in   *)
(* full), posted for receiving or not.                                     *)
(*                                                                         *)
(* The bytes a peer sends on a socket are numbered 1, 2, 3, ...; byte 0 is *)
(* anything else that is in a chunk or behind it.                          *)
(***************************************************************************)
EXTENDS Naturals, Sequences, FiniteSets

CONSTANTS
    Workers,          \* worker threads (RDMAWorker)
    Sockets,          \* connected sockets (RDMAConnectedSocketImpl)
    Owner,            \* Owner[s]: the worker whose thread calls s.read()
    ChunkSize,        \* bytes of a chunk (8*1024 in the code)
    RxNum,            \* chunks of the RECV cluster (256)
    MAX_COMPLETIONS,  \* completions taken by one poll (16)
    MAX_ACK_EVENT,    \* events acknowledged together (128)
    Lens,             \* bound: the lengths read() is asked for
    WriteLens,        \* bound: the lengths Chunk::write is asked for by send()
    MaxUsed           \* bound: the chunks that send() takes

ASSUME RxPathAssumption ==
    /\ Sockets # {}
    /\ Owner \in [Sockets -> Workers]
    /\ ChunkSize \in Nat \ {0}
    /\ RxNum \in Nat
    /\ MAX_COMPLETIONS \in Nat \ {0}
    /\ MAX_ACK_EVENT \in Nat \ {0, 1}
    /\ Lens \subseteq Nat \ {0}
    /\ WriteLens \subseteq Nat
    /\ MaxUsed \in Nat

VARIABLES
    srq,         \* chunks posted to the shared receive queue
    buffer,      \* buffer[c]: the ChunkSize bytes of chunk c
    offset,      \* offset[c]: Chunk::offset
    used,        \* chunks that a send() took
    sent,        \* sent[s]: bytes received on s so far
    cq,          \* cq[s]: completions in the rx queue of s
    armed,       \* armed[s]: its next completion raises an event
    events,      \* events[s]: events readable on the channel of s
    stuck,       \* sockets whose ibv_req_notify_cq was refused once (history)
    need_ack,    \* need_ack[s]: cq_events_that_need_ack of the channel
    wc,          \* the static array `wc` of read, one per process
    rx_buffers,  \* rx_buffers[s]: chunks kept for later calls
    got,         \* got[s]: the bytes copied out to the callers of s.read()
    pc,          \* pc[w]: what the thread of w does next
    sock,        \* locals of read: this, len, read, rearmed, n and i, and the
    len, read,   \*   index of the iterator of read_buffers
    rearmed,
    n, i, at,
    chunk, want, \* the chunk read() works on, the length it asks Chunk::read for,
    keep, seen,  \*   that it is to be kept, the offset `left` was computed from
    raced,       \* a poll overwrote entries another worker was taking (history)
    mixed,       \* a send() wrote into a chunk before its bytes were read (history)
    crash        \* read() hit assert(0), or copied without end

notifyVars == <<cq, armed, events, stuck, need_ack>>
memVars    == <<srq, buffer, offset, sent, used>>
readVars   == <<sock, len>>
copyVars   == <<chunk, want, keep, seen>>
history    == <<raced, mixed>>
vars       == <<memVars, notifyVars, wc, rx_buffers, got, pc, readVars, read, rearmed,
                n, i, at, copyVars, history, crash>>

-----------------------------------------------------------------------------
Chunks == 1 .. RxNum

\* The fields of an ibv_wc that read() looks at: wr_id, byte_len and status.
Completion == [chunk : Chunks, byte_len : 0 .. ChunkSize, ok : BOOLEAN]
NoEntry    == [chunk |-> 0, byte_len |-> 0, ok |-> TRUE]

\* The worker is in the loop over the completions it polled; it is past the loop that
\* waits for an event.
Taking   == {"take", "status", "length", "again", "copy", "move"}
Draining == {"buffers", "reread", "poll", "rearm"} \cup Taking

At(w, l) == ~crash /\ pc[w] = l

Goto(w, l) == pc' = [pc EXCEPT ![w] = l]

\* Another worker is in the loop over the completions.
OtherTaking(w) == \E v \in Workers : v # w /\ pc[v] \in Taking

-----------------------------------------------------------------------------
\* post_channel_cluster posts the chunks in order and stops at the first that
\* ibv_post_srq_recv refuses; the constructor of Infiniband ignores the result.
PostChannelCluster == \E k \in 0 .. RxNum : srq = [c \in 1 .. k |-> c]

Init ==
    /\ PostChannelCluster
    /\ buffer = [c \in Chunks |-> [k \in 1 .. ChunkSize |-> 0]]
    /\ offset = [c \in Chunks |-> 0]
    /\ sent = [s \in Sockets |-> 0]
    /\ used = {}
    /\ cq = [s \in Sockets |-> <<>>]
    /\ armed = [s \in Sockets |-> TRUE]
    /\ events = [s \in Sockets |-> 0]
    /\ stuck = {}
    /\ need_ack = [s \in Sockets |-> 0]
    /\ wc = [k \in 1 .. MAX_COMPLETIONS |-> NoEntry]
    /\ rx_buffers = [s \in Sockets |-> <<>>]
    /\ got = [s \in Sockets |-> <<>>]
    /\ pc = [w \in Workers |-> "loop"]
    /\ sock = [w \in Workers |-> CHOOSE s \in Sockets : TRUE]
    /\ len = [w \in Workers |-> 0]
    /\ read = [w \in Workers |-> 0]
    /\ rearmed = [w \in Workers |-> FALSE]
    /\ n = [w \in Workers |-> 0]
    /\ i = [w \in Workers |-> 1]
    /\ at = [w \in Workers |-> 1]
    /\ chunk = [w \in Workers |-> 0]
    /\ want = [w \in Workers |-> 0]
    /\ keep = [w \in Workers |-> FALSE]
    /\ seen = [w \in Workers |-> 0]
    /\ raced = FALSE
    /\ mixed = FALSE
    /\ crash = FALSE

-----------------------------------------------------------------------------
(* The adapter (external: libibverbs and the HCA).                          *)

\* A completion joins the queue of s; an armed queue raises one event for it.
AddCompletion(s, e) ==
    /\ cq' = [cq EXCEPT ![s] = Append(@, e)]
    /\ IF armed[s]
       THEN /\ events' = [events EXCEPT ![s] = @ + 1]
            /\ armed' = [armed EXCEPT ![s] = FALSE]
       ELSE UNCHANGED <<events, armed>>
    /\ UNCHANGED <<stuck, need_ack>>

\* The peer's next send of b bytes, perhaps none, takes the oldest posted chunk.
Receive(s, b) ==
    /\ ~crash
    /\ srq # <<>>
    /\ srq' = Tail(srq)
    /\ buffer' = [buffer EXCEPT ![Head(srq)] =
                     [k \in 1 .. ChunkSize |-> IF k <= b THEN sent[s] + k ELSE @[k]]]
    /\ sent' = [sent EXCEPT ![s] = @ + b]
    /\ AddCompletion(s, [chunk |-> Head(srq), byte_len |-> b, ok |-> TRUE])
    /\ UNCHANGED <<offset, used, wc, rx_buffers, got, pc, readVars, read, rearmed, n, i, at,
                   copyVars, history, crash>>

\* The connection breaks while a chunk is being filled.
ReceiveError(s) ==
    /\ ~crash
    /\ srq # <<>>
    /\ srq' = Tail(srq)
    /\ AddCompletion(s, [chunk |-> Head(srq), byte_len |-> 0, ok |-> FALSE])
    /\ UNCHANGED <<buffer, offset, sent, used, wc, rx_buffers, got, pc, readVars, read, rearmed,
                   n, i, at, copyVars, history, crash>>

-----------------------------------------------------------------------------
(* RDMAConnectedSocketImpl::send, as far as the chunks of the RECV cluster  *)
(* go, which get_tx_buffers hands out whether or not they are posted.       *)

\* A byte of c is still to be read: c is posted, or its completion has not been looked
\* at, or it was kept.
Awaited(c) ==
    \/ c \in {srq[k] : k \in DOMAIN srq}
    \/ \E s \in Sockets : \/ c \in {cq[s][k].chunk : k \in DOMAIN cq[s]}
                          \/ c \in {rx_buffers[s][k] : k \in DOMAIN rx_buffers[s]}
    \/ \E w \in Workers : pc[w] \in Taking /\ c \in {wc[k].chunk : k \in i[w] .. n[w]}

\* left >= len in Chunk::write and Chunk::read, for a chunk at offset o.  The
\* subtraction is unsigned: a chunk past its end has endless room.
Fits(o, b) == o > ChunkSize \/ o + b <= ChunkSize

\* A send() on the thread of w takes the last chunk of the free list, once and for all
\* since return_channel gives it to the other cluster, and Chunk::write puts b bytes of
\* its own behind the offset.
SendWrite(w, c, b) ==
    LET end == IF Fits(offset[c], b) THEN offset[c] + b ELSE ChunkSize
    IN  /\ At(w, "loop")
        /\ c \notin used
        /\ \A d \in Chunks \ used : d <= c
        /\ Cardinality(used) < MaxUsed
        /\ used' = used \cup {c}
        /\ buffer' = [buffer EXCEPT ![c] =
                         [k \in 1 .. ChunkSize |-> IF k \in (offset[c] + 1) .. end THEN 0 ELSE @[k]]]
        /\ offset' = [offset EXCEPT ![c] = end]
        /\ mixed' = (mixed \/ Awaited(c))
        /\ UNCHANGED <<srq, sent, notifyVars, wc, rx_buffers, got, pc, readVars, read, rearmed,
                       n, i, at, copyVars, raced, crash>>

-----------------------------------------------------------------------------
(* RDMAConnectedSocketImpl::read, run by the thread of Owner[s].            *)

\* read() is called by the event loop, or by a caller that wants more.
ReadCall(s, b) ==
    /\ At(Owner[s], "loop")
    /\ Goto(Owner[s], "event")
    /\ sock' = [sock EXCEPT ![Owner[s]] = s]
    /\ len' = [len EXCEPT ![Owner[s]] = b]
    /\ read' = [read EXCEPT ![Owner[s]] = 0]
    /\ rearmed' = [rearmed EXCEPT ![Owner[s]] = FALSE]
    /\ at' = [at EXCEPT ![Owner[s]] = 1]
    /\ UNCHANGED <<memVars, notifyVars, wc, rx_buffers, got, n, i, copyVars, history, crash>>

\* while(!cc->get_cq_event()): the thread spins until the channel has an event,
\* and acknowledges events MAX_ACK_EVENT at a time.
GetCqEvent(w) ==
    LET s == sock[w]
    IN  /\ At(w, "event")
        /\ events[s] > 0
        /\ events' = [events EXCEPT ![s] = @ - 1]
        /\ need_ack' = [need_ack EXCEPT ![s] = IF @ + 1 = MAX_ACK_EVENT THEN 0 ELSE @ + 1]
        /\ Goto(w, "buffers")
        /\ UNCHANGED <<memVars, cq, armed, stuck, wc, rx_buffers, got, readVars, read, rearmed,
                       n, i, at, copyVars, history, crash>>

\* len-read, the room in the caller's buffer.  It is unsigned: after a copy past the
\* end of the buffer it is more than any chunk holds.
RoomMutant(w) == len[w]
Room(w) == IF read[w] <= len[w] THEN len[w] - read[w] ELSE ChunkSize + 1

\* Chunk::read of c begins: it computes what is left of the chunk.
ChunkReadBegin(w, c) == seen' = [seen EXCEPT ![w] = offset[c]]

\* How many bytes it takes.  A request for more than the chunk has left is cut short
\* and starts the chunk again.
Taken(w) == IF Fits(seen[w], want[w]) THEN want[w] ELSE ChunkSize - seen[w]

\* The m bytes of c behind offset o; those behind the end of the chunk are others'.
Bytes(c, o, m) == [k \in 1 .. m |-> IF o + k <= ChunkSize THEN buffer[c][o + k] ELSE 0]

\* Chunk::read copies to the caller's buffer and moves the offset.  Both look at the
\* offset once more: at what is in memory now, or what was there for `left`.
ChunkReadEnd(w) ==
    LET c == chunk[w]
    IN  \E o, p \in {offset[c], seen[w]} :
          /\ read' = [read EXCEPT ![w] = @ + Taken(w)]
          /\ offset' = [offset EXCEPT ![c] = IF Fits(seen[w], want[w]) THEN p + want[w] ELSE 0]
          /\ got' = [got EXCEPT ![sock[w]] = @ \o Bytes(c, o, Taken(w))]

\* The locals of one turn of a loop go out of scope.
ForgetChunk(w) ==
    /\ chunk' = [chunk EXCEPT ![w] = 0]
    /\ want' = [want EXCEPT ![w] = 0]
    /\ keep' = [keep EXCEPT ![w] = FALSE]
    /\ seen' = [seen EXCEPT ![w] = 0]

\* The loop of read_buffers over the chunks that were kept.
ReadBuffers(w) ==
    LET kept == rx_buffers[sock[w]]
    IN  /\ At(w, "buffers")
        /\ IF at[w] > Len(kept) \/ read[w] = len[w]
           THEN /\ Goto(w, "poll")
                /\ UNCHANGED <<chunk, want, seen>>
           ELSE /\ Goto(w, "reread")
                /\ chunk' = [chunk EXCEPT ![w] = kept[at[w]]]
                /\ want' = [want EXCEPT ![w] = Room(w)]
                /\ ChunkReadBegin(w, kept[at[w]])
        /\ UNCHANGED <<memVars, notifyVars, wc, rx_buffers, got, readVars, read, rearmed, n, i,
                       at, keep, history, crash>>

\* One of them is read, from wherever it was left; none leaves rx_buffers.
Reread(w) ==
    /\ At(w, "reread")
    /\ ChunkReadEnd(w)
    /\ at' = [at EXCEPT ![w] = @ + 1]
    /\ Goto(w, "buffers")
    /\ ForgetChunk(w)
    /\ UNCHANGED <<srq, buffer, sent, used, notifyVars, wc, rx_buffers, readVars, rearmed, n, i,
                   history, crash>>

\* Where read() goes after a poll that found nothing.
AfterEmptyPollMutant(w) == "loop"
AfterEmptyPoll(w) == IF rearmed[w] THEN "loop" ELSE "rearm"

\* The array after a poll of s that got k completions: the entries behind them stay.
PolledMutant(s, k) == [j \in DOMAIN wc |-> IF j <= k THEN cq[s][j] ELSE NoEntry]
Polled(s, k) == [j \in DOMAIN wc |-> IF j <= k THEN cq[s][j] ELSE wc[j]]

\* poll_cq into the static array; a poll that fails is tried again, which is no step.
PollCq(w) ==
    LET s   == sock[w]
        num == IF Len(cq[s]) < MAX_COMPLETIONS THEN Len(cq[s]) ELSE MAX_COMPLETIONS
    IN  /\ At(w, "poll")
        /\ cq' = [cq EXCEPT ![s] = SubSeq(@, num + 1, Len(@))]
        /\ wc' = Polled(s, num)
        /\ n' = [n EXCEPT ![w] = num]
        /\ i' = [i EXCEPT ![w] = 1]
        /\ Goto(w, IF num = 0 THEN AfterEmptyPoll(w) ELSE "take")
        /\ raced' = (raced \/ (num > 0 /\ OtherTaking(w)))
        /\ UNCHANGED <<memVars, armed, events, stuck, need_ack, rx_buffers, got, readVars, read,
                       rearmed, at, copyVars, mixed, crash>>

\* One turn of the loop over the completions begins: wr_id of the i-th entry.
TakeChunk(w) ==
    /\ At(w, "take")
    /\ chunk' = [chunk EXCEPT ![w] = wc[i[w]].chunk]
    /\ Goto(w, "status")
    /\ UNCHANGED <<memVars, notifyVars, wc, rx_buffers, got, readVars, read, rearmed, n, i, at,
                   want, keep, seen, history, crash>>

\* Its status: a bad one is assert(0).
TakeStatus(w) ==
    /\ At(w, "status")
    /\ IF wc[i[w]].ok THEN Goto(w, "length") /\ UNCHANGED crash
                      ELSE crash' = TRUE /\ UNCHANGED pc
    /\ UNCHANGED <<memVars, notifyVars, wc, rx_buffers, got, readVars, read, rearmed, n, i, at,
                   copyVars, history>>

\* The next completion, or the next poll.
NextCompletion(w) ==
    /\ i' = [i EXCEPT ![w] = @ + 1]
    /\ Goto(w, IF i[w] = n[w] THEN "poll" ELSE "take")
    /\ ForgetChunk(w)

\* The caller's buffer is full: the chunk is kept as it is.
KeepChunk(w) ==
    /\ At(w, "length")
    /\ read[w] = len[w]
    /\ rx_buffers' = [rx_buffers EXCEPT ![sock[w]] = Append(@, chunk[w])]
    /\ NextCompletion(w)
    /\ UNCHANGED <<memVars, notifyVars, wc, got, readVars, read, rearmed, n, at, history, crash>>

\* read+byte_len >= len: the message fills the caller's buffer.
Fills(w) == read[w] + wc[i[w]].byte_len >= len[w]

\* byte_len decides: a message that fills the buffer is cut to the room that is left
\* and its chunk kept, perhaps with a rest; any other is to be read in full.
TakeLength(w) ==
    /\ At(w, "length")
    /\ read[w] # len[w]
    /\ keep' = [keep EXCEPT ![w] = Fills(w)]
    /\ IF Fills(w)
       THEN want' = [want EXCEPT ![w] = Room(w)] /\ Goto(w, "copy")
       ELSE UNCHANGED want /\ Goto(w, "again")
    /\ UNCHANGED <<memVars, notifyVars, wc, rx_buffers, got, readVars, read, rearmed, n, i, at,
                   chunk, seen, history, crash>>

\* byte_len is looked at again for the length of the copy.
LengthAgainMutant(w) == Room(w)
LengthAgain(w) == wc[i[w]].byte_len
TakeLengthAgain(w) ==
    /\ At(w, "again")
    /\ want' = [want EXCEPT ![w] = LengthAgain(w)]
    /\ Goto(w, "copy")
    /\ UNCHANGED <<memVars, notifyVars, wc, rx_buffers, got, readVars, read, rearmed, n, i, at,
                   chunk, keep, seen, history, crash>>

\* Chunk::read of the chunk begins.
TakeCopy(w) ==
    /\ At(w, "copy")
    /\ ChunkReadBegin(w, chunk[w])
    /\ Goto(w, "move")
    /\ UNCHANGED <<memVars, notifyVars, wc, rx_buffers, got, readVars, read, rearmed, n, i, at,
                   chunk, want, keep, history, crash>>

\* The caller's buffer was overrun and the chunk is past its end: the request and what
\* is left have both wrapped around, and the copy runs out of memory.
Endless(w) == read[w] > len[w] /\ seen[w] > ChunkSize

\* It ends, and the chunk is kept or not.
KeptMutant(w) == rx_buffers
Kept(w) == IF keep[w] THEN [rx_buffers EXCEPT ![sock[w]] = Append(@, chunk[w])] ELSE rx_buffers
TakeMove(w) ==
    /\ At(w, "move")
    /\ IF Endless(w)
       THEN crash' = TRUE /\ UNCHANGED <<read, offset, got, rx_buffers, copyVars, i, pc>>
       ELSE /\ ChunkReadEnd(w)
            /\ rx_buffers' = Kept(w)
            /\ NextCompletion(w)
            /\ UNCHANGED crash
    /\ UNCHANGED <<srq, buffer, sent, used, notifyVars, wc, readVars, rearmed, n, at, history>>

\* rearm_notify, whose result is ignored, and one more poll.
RearmMutant(w) ==
    /\ At(w, "rearm")
    /\ armed' = [armed EXCEPT ![sock[w]] = TRUE]
    /\ rearmed' = [rearmed EXCEPT ![w] = TRUE]
    /\ Goto(w, "loop")
    /\ UNCHANGED <<memVars, cq, events, stuck, need_ack, wc, rx_buffers, got, readVars, read,
                   n, i, at, copyVars, history, crash>>
Rearm(w) ==
    /\ At(w, "rearm")
    /\ \/ /\ armed' = [armed EXCEPT ![sock[w]] = TRUE]
          /\ UNCHANGED stuck
       \/ /\ stuck' = stuck \cup {sock[w]}
          /\ UNCHANGED armed
    /\ rearmed' = [rearmed EXCEPT ![w] = TRUE]
    /\ Goto(w, "poll")
    /\ UNCHANGED <<memVars, cq, events, need_ack, wc, rx_buffers, got, readVars, read,
                   n, i, at, copyVars, history, crash>>

-----------------------------------------------------------------------------
ReadSteps(w) ==
    \/ GetCqEvent(w) \/ ReadBuffers(w) \/ Reread(w) \/ PollCq(w) \/ Rearm(w)
    \/ TakeChunk(w) \/ TakeStatus(w) \/ KeepChunk(w) \/ TakeLength(w) \/ TakeLengthAgain(w)
    \/ TakeCopy(w) \/ TakeMove(w)

Crashed == crash /\ UNCHANGED vars

Next ==
    \/ \E s \in Sockets : \/ \E b \in 0 .. ChunkSize : Receive(s, b)
                          \/ ReceiveError(s)
                          \/ \E b \in Lens : ReadCall(s, b)
    \/ \E w \in Workers : \/ \E c \in Chunks, b \in WriteLens : SendWrite(w, c, b)
                          \/ ReadSteps(w)
    \/ Crashed

Spec == Init /\ [][Next]_vars

\* A thread inside read() runs on, and the event loop calls read() on a socket
\* whose channel stays readable whenever the worker is idle.
Readable(s) == events[s] > 0 /\ \E b \in Lens : ReadCall(s, b)
Fairness ==
    /\ \A w \in Workers : WF_vars(ReadSteps(w))
    /\ \A s \in Sockets : SF_vars(Readable(s))

FairSpec == Spec /\ Fairness

-----------------------------------------------------------------------------
(* Properties.                                                              *)

MemTypeOK ==
    /\ srq \in Seq(Chunks)
    /\ buffer \in [Chunks -> [1 .. ChunkSize -> Nat]]
    /\ offset \in [Chunks -> Nat]
    /\ sent \in [Sockets -> Nat]
    /\ used \subseteq Chunks
    /\ rx_buffers \in [Sockets -> Seq(Chunks)]
CqTypeOK ==
    /\ cq \in [Sockets -> Seq(Completion)]
    /\ armed \in [Sockets -> BOOLEAN]
    /\ events \in [Sockets -> Nat]
    /\ stuck \subseteq Sockets
    /\ need_ack \in [Sockets -> 0 .. (MAX_ACK_EVENT - 1)]
TakeTypeOK ==
    /\ wc \in [1 .. MAX_COMPLETIONS -> Completion \cup {NoEntry}]
    /\ rearmed \in [Workers -> BOOLEAN]
    /\ n \in [Workers -> 0 .. MAX_COMPLETIONS]
    /\ i \in [Workers -> 1 .. (MAX_COMPLETIONS + 1)]
CopyTypeOK ==
    /\ sock \in [Workers -> Sockets]
    /\ len \in [Workers -> Lens \cup {0}]
    /\ read \in [Workers -> Nat]
    /\ raced \/ \A w \in Workers : read[w] <= len[w]
    /\ at \in [Workers -> Nat \ {0}]
    /\ got \in [Sockets -> Seq(Nat)]
    /\ chunk \in [Workers -> Chunks \cup {0}]
    /\ want \in [Workers -> Nat]
    /\ keep \in [Workers -> BOOLEAN]
    /\ seen \in [Workers -> Nat]

\* Types of the state; what read() has copied never exceeds what the caller's buffer
\* holds, whatever chunks it came from, until a worker polls into the array while
\* another is taking from it: byte_len is checked and then looked at again.
TypeOK ==
    /\ MemTypeOK /\ CqTypeOK /\ TakeTypeOK /\ CopyTypeOK
    /\ pc \in [Workers -> {"loop", "event"} \cup Draining]
    /\ raced \in BOOLEAN
    /\ mixed \in BOOLEAN
    /\ crash \in BOOLEAN

\* A worker is in read() of a socket of its own, and looks only at entries of wc that
\* some poll has filled, although another worker may overwrite them at any time,
\* wr_id, status and byte_len apart: what it reads is always a chunk.
TakesFilledEntries ==
    \A w \in Workers :
        /\ pc[w] # "loop" => Owner[sock[w]] = w
        /\ pc[w] \in Taking => /\ i[w] <= n[w]
                               /\ \A k \in 1 .. n[w] : wc[k] \in Completion
        /\ pc[w] \in {"reread"} \cup (Taking \ {"take"}) => chunk[w] \in Chunks

\* What arrived and has not been copied out yet, in the order read() meets it.
Unread(s) ==
    LET Msg(e) == SubSeq(buffer[e.chunk], 1, e.byte_len)
        busy == {w \in Workers : pc[w] \in Taking /\ sock[w] = s}
        now  == IF busy = {} THEN <<>>
                ELSE LET w == CHOOSE v \in busy : TRUE IN SubSeq(wc, i[w], n[w])
        all  == now \o cq[s]
        cat[k \in 0 .. Len(all)] == IF k = 0 THEN <<>> ELSE cat[k - 1] \o Msg(all[k])
    IN  cat[Len(all)]

\* As long as every chunk was used up by the call that took it, the stream is
\* exact: what the callers got followed by what is still unread is every byte the
\* peer sent, once and in order.  (Chunks kept in rx_buffers are read again to
\* their full size, so nothing of the kind holds after the first of them.)  Its
\* limits are the two things the workers share without a lock: no poll overwrote
\* entries another worker was taking, and no send() has written into a chunk that is
\* posted, filled or kept.
StreamExact ==
    ~raced /\ ~mixed =>
        \A s \in Sockets :
            rx_buffers[s] = <<>> => got[s] \o Unread(s) = [k \in 1 .. sent[s] |-> k]

\* No byte is dropped, leftovers included: every byte that arrived was copied out,
\* or its chunk is in the queue, in the part of wc that is still to be looked at,
\* or in rx_buffers, where the next read() finds it.  The limits are the same.
NoByteDropped ==
    ~raced /\ ~mixed =>
        \A s \in Sockets :
            LET here(c) == \/ c \in {rx_buffers[s][k] : k \in DOMAIN rx_buffers[s]}
                           \/ c \in {cq[s][k].chunk : k \in DOMAIN cq[s]}
                           \/ \E w \in Workers : /\ pc[w] \in Taking /\ sock[w] = s
                                                 /\ c \in {wc[k].chunk : k \in i[w] .. n[w]}
            IN  \A b \in 1 .. sent[s] :
                   \/ \E k \in DOMAIN got[s] : got[s][k] = b
                   \/ \E c \in Chunks : here(c) /\ \E k \in 1 .. ChunkSize : buffer[c][k] = b

\* No completion is stranded: when the owner of s is not draining its queue and
\* completions are there, an event is readable, unless rearm_notify failed.
DrainedBy(s) == pc[Owner[s]] \in Draining /\ sock[Owner[s]] = s
NoLostWakeup ==
    \A s \in Sockets :
        ~DrainedBy(s) /\ cq[s] # <<>> => events[s] > 0 \/ s \in stuck

\* The strengthening that makes NoLostWakeup inductive: at most one event is
\* outstanding, an armed queue has raised none since it was armed, and a thread
\* that may leave read() has armed the queue.
NotifyOK(s) ==
    LET w == Owner[s]
    IN  /\ armed[s] => events[s] = 0
        /\ events[s] \in {0, 1}
        /\ ~DrainedBy(s) => (armed[s] /\ cq[s] = <<>>) \/ events[s] = 1 \/ s \in stuck
        /\ DrainedBy(s) /\ ~rearmed[w] => ~armed[s] /\ events[s] = 0
        /\ DrainedBy(s) /\ rearmed[w] => armed[s] \/ events[s] = 1 \/ s \in stuck
        /\ sock[w] = s /\ pc[w] \in {"event", "rearm"} => ~rearmed[w]
NotifyInv == \A s \in Sockets : NotifyOK(s)

\* Every message is taken out of its queue in the end, unless the process died,
\* the queue could not be armed, or the worker spins for ever in read() of
\* another socket, which has no event to wait for.
MessagesTaken ==
    \A s \in Sockets :
        cq[s] # <<>> ~> \/ cq[s] = <<>> \/ crash \/ s \in stuck
                        \/ [](pc[Owner[s]] = "event" /\ sock[Owner[s]] # s)

\* The receive queue of each socket implements the promise of Wakeup.
Wk(s) == INSTANCE Wakeup WITH
             pending <- Len(cq[s]), signal <- events[s] > 0,
             awake <- DrainedBy(s), deaf <- s \in stuck
WakeupRefined ==
    /\ \A s \in Sockets : Wk(s)!Init
    /\ [][\A s \in Sockets : [Wk(s)!Next]_(Wk(s)!vars)]_vars
=============================================================================
