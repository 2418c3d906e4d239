-------------------------- MODULE SessionTransfer --------------------------
(***************************************************************************)
(* Transfers over an open rdma_session (debug): bulk() writes a buffer in  *)
(* pieces into the remote slices, latency() sends one message, and the     *)
(* benchmark xx streams messages from its client to its server.  One end   *)
(* sends and the other receives; the session has just been opened (see     *)
(* SessionOpen), so receive 0 and the completions of the key exchange are  *)
(* used up.                                                                *)
(*                                                                         *)
(* A piece of a bulk is <<call, number>>.  A message is a number too: that *)
(* of the call of latency(), or its place in the stream of xx.             *)
(***************************************************************************)
EXTENDS Integers, Sequences

CONSTANTS
    RdmaGap,    \* bytes of a slice and of a full piece (2*1024*1024)
    Slices,     \* slices of the remote buffer (512)
    RecvNums,   \* receive buffers (1024)
    RecvPosts,  \* receives that one post_recv posts at most (16000)
    MaxCqe,     \* completions of one poll (recv_nums)
    Gap,        \* bytes of a receive buffer (32*1024)
    Sizes,      \* bound: the sizes given to bulk()
    MsgSize,    \* bytes of a message of xx, its argument `size`
    Iter,       \* messages of xx, its argument `iter`
    MaxCalls,   \* bound: calls of bulk() and latency()
    MaxPosts    \* bound: calls of post_recv() by the receiver's application

ASSUME SessionTransferAssumption ==
    /\ {RdmaGap, Slices, RecvNums, RecvPosts, MaxCqe, Gap, Iter} \subseteq Nat \ {0}
    /\ Sizes \subseteq Nat
    /\ MsgSize \in 1 .. Gap
    /\ {MaxCalls, MaxPosts} \subseteq Nat

VARIABLES
    app,         \* the sender's application: "calls" of the session, or "xx"
    pc,          \* what the sender's thread does next
    call,        \* calls of bulk() and latency() so far
    lens, num,   \* locals of bulk: sizes of bulk_mems, num, i and ack
    i, ack,
    regs,        \* pieces whose memory is registered
    rdma_index,  \* the slice the next piece goes to
    sbuf,        \* the message in the send buffer
    sent,        \* messages the client of xx has put there
    sq,          \* requests posted and not completed
    scq,         \* scq[k]: the k-th completion of send_cq succeeded
    qp_ok,       \* the queue pairs are not in the error state
    rq,          \* buffers of the receives posted, oldest first
    rcq,         \* rcq[k]: byte_len of the k-th completion of the peer's recv_cq
    slice,       \* slice[s]: the piece last written there
    rbuf,        \* rbuf[b]: the message last received there
    came,        \* the messages that arrived, as they were when posted (history)
    recv_index,  \* the receiver's recv_index
    cur,         \* bytes read() gave the server of xx
    posts,       \* calls of post_recv() since the session was opened
    failed,      \* a call returned -1 (history)
    spoiled      \* a call left requests or completions behind (history)

bulkVars == <<lens, num, i, ack, rdma_index>>
xVars    == <<sbuf, sent>>
queues   == <<sq, scq, qp_ok>>
recvVars == <<rq, rcq, slice, rbuf, came, recv_index, cur, posts>>
history  == <<failed, spoiled>>
vars     == <<app, pc, call, bulkVars, regs, xVars, queues, recvVars, history>>

-----------------------------------------------------------------------------
Least(a, b) == IF a < b THEN a ELSE b

Piece   == (1 .. MaxCalls) \X (Nat \ {0})
NoPiece == <<0, 0>>
Write   == [op : {"write"}, piece : Piece, dest : 0 .. (Slices - 1)]
SendOp  == [op : {"send"}, size : 1 .. Gap, msg : Nat]
Busy    == {"write", "ack", "dereg", "reap", "stream"}

\* post_recv(nums): the buffers in turn, from the first one on every call.
RecvQueue(nums) == [k \in 1 .. Least(RecvPosts, nums) |-> (k - 1) % RecvNums]

Init ==
    /\ app \in {"calls", "xx"}
    /\ pc = "idle"
    /\ call = 0
    /\ lens = <<>> /\ num = 0 /\ i = 1 /\ ack = 0
    /\ regs = {}
    /\ rdma_index = 0
    /\ sbuf = 0 /\ sent = 0
    /\ sq = <<>> /\ scq = <<>> /\ qp_ok = TRUE
    /\ rq = Tail(RecvQueue(RecvPosts))
    /\ rcq = <<>>
    /\ slice = [s \in 0 .. (Slices - 1) |-> NoPiece]
    /\ rbuf = [b \in 0 .. (RecvNums - 1) |-> 0]
    /\ came = <<>>
    /\ recv_index = 1 % RecvNums
    /\ cur = 0
    /\ posts = 0
    /\ failed = FALSE /\ spoiled = FALSE

-----------------------------------------------------------------------------
(* The verbs the session uses.                                              *)

\* rdma_post_send: the request joins the queue.
Post(r) == sq' = Append(sq, r)

\* A message of the send buffer, which holds m now.
Message(m, size) == [op |-> "send", size |-> size, msg |-> m]

\* rdma_query_cq(..., 1): polls until something is there and takes up to max of
\* it; -1 for a bad status among it.
Taken(max) == Least(max, Len(scq))
AllOk(max) == \A k \in 1 .. Taken(max) : scq[k]
Query(max) == /\ scq # <<>>
              /\ scq' = SubSeq(scq, Taken(max) + 1, Len(scq))
              /\ UNCHANGED <<sq, qp_ok>>

\* A call returns -1 and leaves behind whatever it had posted.
ReturnError(left) ==
    /\ pc' = "idle"
    /\ failed' = TRUE
    /\ spoiled' = (spoiled \/ left)

-----------------------------------------------------------------------------
(* rdma_session::bulk                                                       *)

\* How many pieces it expects: the quotient rounded up.
NumPiecesMutant(size) == size \div RdmaGap + 1
NumPieces(size) ==
    IF size % RdmaGap = 0 THEN size \div RdmaGap ELSE size \div RdmaGap + 1

\* The pieces the loop over cursor makes: full ones and what is left.
Split(size) ==
    LET from[cursor \in 0 .. size] ==
            IF cursor >= size THEN <<>>
            ELSE LET len == Least(RdmaGap, size - cursor)
                 IN  <<len>> \o from[cursor + len]
    IN  from[0]

\* bulk(size) registers its pieces one by one; a refusal returns -1 with the
\* ones before registered.  Nothing is to be done for 0 bytes.
Bulk(size) ==
    LET pieces == Split(size)
        first(k) == {<<call + 1, j>> : j \in 1 .. k}
    IN  /\ app = "calls" /\ pc = "idle" /\ call < MaxCalls
        /\ call' = call + 1
        /\ lens' = pieces
        /\ num' = NumPieces(size)
        /\ i' = 1
        /\ ack' = 0
        /\ \/ /\ regs' = regs \cup first(Len(pieces))
              /\ pc' = IF num' = 0 THEN "idle" ELSE "write"
              /\ UNCHANGED history
           \/ \E k \in 0 .. (Len(pieces) - 1) :
                 /\ regs' = regs \cup first(k)
                 /\ ReturnError(FALSE)
        /\ UNCHANGED <<app, rdma_index, xVars, queues, recvVars>>

NextSlice(s) == (s + 1) % Slices

\* rdma(bulk_mems[i]): the slice is used up even if the post is refused.
Rdma ==
    LET request == [op |-> "write", piece |-> <<call, i>>, dest |-> rdma_index]
    IN  /\ pc = "write"
        /\ rdma_index' = NextSlice(rdma_index)
        /\ \/ /\ Post(request)
              /\ i' = i + 1
              /\ pc' = IF i = num THEN "ack" ELSE pc
              /\ UNCHANGED history
           \/ /\ ReturnError(i > 1)
              /\ UNCHANGED <<sq, i>>
        /\ UNCHANGED <<app, call, lens, num, ack, regs, xVars, scq, qp_ok, recvVars>>

\* while(ack != num): every completion of send_cq counts, whatever it is for.
AckedMutant(a) == a >= 1
Acked(a) == a = num
CountedMutant(max) == 1
Counted(max) == Taken(max)
WaitAck ==
    /\ pc = "ack"
    /\ Query(MaxCqe)
    /\ IF AllOk(MaxCqe)
       THEN /\ ack' = ack + Counted(MaxCqe)
            /\ pc' = IF Acked(ack') THEN "dereg" ELSE pc
            /\ UNCHANGED history
       ELSE ReturnError(TRUE) /\ UNCHANGED ack
    /\ UNCHANGED <<app, call, lens, num, i, regs, rdma_index, xVars, recvVars>>

\* The pieces are deregistered in turn, until one is refused.
AllPiecesMutant == {<<call, j>> : j \in 1 .. (num - 1)}
AllPieces == {<<call, j>> : j \in 1 .. num}
Dereg ==
    LET first(k) == {<<call, j>> : j \in 1 .. k}
    IN  /\ pc = "dereg"
        /\ \/ /\ regs' = regs \ AllPieces
              /\ pc' = "idle"
              /\ UNCHANGED history
           \/ \E k \in 0 .. (num - 1) :
                 /\ regs' = regs \ first(k)
                 /\ ReturnError(FALSE)
        /\ UNCHANGED <<app, call, bulkVars, xVars, queues, recvVars>>

-----------------------------------------------------------------------------
(* rdma_session::latency.  A size beyond the gap returns -1 at once.        *)

\* The application has filled the send buffer.  latency(0) posts nothing and yet
\* waits for a completion, that of another call if there is one.
Latency(size) ==
    /\ app = "calls" /\ pc = "idle" /\ call < MaxCalls
    /\ call' = call + 1
    /\ sbuf' = call + 1
    /\ \/ size > 0 /\ Post(Message(call + 1, size)) /\ pc' = "reap" /\ UNCHANGED history
       \/ size = 0 /\ pc' = "reap" /\ spoiled' = TRUE /\ UNCHANGED <<sq, failed>>
       \/ size > 0 /\ ReturnError(FALSE) /\ UNCHANGED sq
    /\ UNCHANGED <<app, bulkVars, regs, sent, scq, qp_ok, recvVars>>

\* Whatever completions there are, they are taken for that of the message.
LatencyDone ==
    /\ pc = "reap"
    /\ Query(MaxCqe)
    /\ IF AllOk(MaxCqe) THEN pc' = "idle" /\ UNCHANGED history
                        ELSE ReturnError(TRUE)
    /\ UNCHANGED <<app, call, bulkVars, regs, xVars, recvVars>>

\* ibv_poll_cq fails: a waiting call returns -1.
PollFails ==
    /\ pc \in {"ack", "reap"}
    /\ ReturnError(TRUE)
    /\ UNCHANGED <<app, call, bulkVars, regs, xVars, queues, recvVars>>

-----------------------------------------------------------------------------
(* The client of xx.  "gone" is a process that returned from client() or    *)
(* that close() ended: it frees buffers of malloc_huge_pages with free().   *)

\* The first message; when it is refused, client() returns.
XStart ==
    /\ app = "xx" /\ pc = "idle"
    /\ sbuf' = 1
    /\ sent' = 1
    /\ \/ Post(Message(1, MsgSize)) /\ pc' = "stream" /\ UNCHANGED history
       \/ pc' = "gone" /\ failed' = TRUE /\ UNCHANGED <<sq, spoiled>>
    /\ UNCHANGED <<app, call, bulkVars, regs, scq, qp_ok, recvVars>>

\* One turn of the loop: one completion, then the buffer is filled again and
\* posted.  A refused post is ignored: no completion will come for it.
XNextMutant ==
    /\ pc = "stream" /\ sent < Iter
    /\ sbuf' = sent + 1
    /\ sent' = sent + 1
    /\ Post(Message(sent + 1, MsgSize))
    /\ UNCHANGED <<app, pc, call, bulkVars, regs, scq, qp_ok, recvVars, history>>
XNext ==
    /\ pc = "stream" /\ sent < Iter
    /\ scq # <<>>
    /\ scq' = Tail(scq)
    /\ IF Head(scq)
       THEN /\ sbuf' = sent + 1
            /\ sent' = sent + 1
            /\ \/ Post(Message(sent + 1, MsgSize)) /\ UNCHANGED history
               \/ spoiled' = TRUE /\ UNCHANGED <<sq, failed>>
            /\ UNCHANGED pc
       ELSE /\ pc' = "gone"
            /\ failed' = TRUE
            /\ sq' = <<>>
            /\ UNCHANGED <<xVars, spoiled>>
    /\ UNCHANGED <<app, call, bulkVars, regs, qp_ok, recvVars>>

\* ibv_poll_cq fails: client() returns.
XPollFails ==
    /\ pc = "stream" /\ sent < Iter
    /\ pc' = "gone"
    /\ failed' = TRUE
    /\ sq' = <<>>
    /\ UNCHANGED <<app, call, bulkVars, regs, xVars, scq, qp_ok, recvVars, spoiled>>

\* The loop ends when every message has been posted.
StreamDoneMutant == sent >= Iter - 1
StreamDone == sent >= Iter

\* close(), after the loop without a look at the last completion.  The memory is
\* deregistered and the process ends, and with it what is still to be sent.
Close ==
    /\ \/ app = "xx" /\ pc = "stream" /\ StreamDone
       \/ app = "calls" /\ pc = "idle"
    /\ pc' = "gone"
    /\ regs' = {}
    /\ sq' = <<>>
    /\ UNCHANGED <<app, call, bulkVars, xVars, scq, qp_ok, recvVars, history>>

-----------------------------------------------------------------------------
(* The adapters (external: libibverbs and the HCA).                         *)

Completed(ok) == sq' = Tail(sq) /\ scq' = Append(scq, ok)

\* The oldest request is done: a write lands in its slice, a message, as it is in
\* the send buffer now, in the oldest receive; without a receive it is tried for
\* ever (rnr_retry 7).
Transmit ==
    LET r == Head(sq)
    IN  /\ sq # <<>> /\ qp_ok
        /\ \/ /\ r.op = "write"
              /\ r.piece \in regs
              /\ slice' = [slice EXCEPT ![r.dest] = r.piece]
              /\ UNCHANGED <<rq, rcq, rbuf, came>>
           \/ /\ r.op = "send"
              /\ rq # <<>>
              /\ rbuf' = [rbuf EXCEPT ![Head(rq)] = sbuf]
              /\ rq' = Tail(rq)
              /\ rcq' = Append(rcq, r.size)
              /\ came' = Append(came, [msg |-> r.msg, size |-> r.size])
              /\ UNCHANGED slice
        /\ Completed(TRUE)
        /\ UNCHANGED <<app, pc, call, bulkVars, regs, xVars, qp_ok, recv_index, cur, posts,
                       history>>

\* The connection breaks; a request on memory that is no longer registered
\* breaks it too.
QpError ==
    /\ qp_ok
    /\ qp_ok' = FALSE
    /\ UNCHANGED <<app, pc, call, bulkVars, regs, xVars, sq, scq, recvVars, history>>

Flush ==
    /\ sq # <<>> /\ ~qp_ok
    /\ Completed(FALSE)
    /\ UNCHANGED <<app, pc, call, bulkVars, regs, xVars, qp_ok, recvVars, history>>

-----------------------------------------------------------------------------
(* The receiver.                                                            *)

\* query_sr(): the completions are counted and dropped, the flushed receives of a
\* broken connection too.
QuerySr ==
    /\ app = "calls"
    /\ rcq # <<>>
    /\ rcq' = SubSeq(rcq, Least(MaxCqe, Len(rcq)) + 1, Len(rcq))
    /\ UNCHANGED <<app, pc, call, bulkVars, regs, xVars, queues, rq, slice, rbuf, came,
                   recv_index, cur, posts, history>>

\* post_recv(nums) by the application; it stops where ibv_post_recv refuses.
PostRecv(nums) ==
    /\ app = "calls" /\ posts < MaxPosts
    /\ posts' = posts + 1
    /\ \E k \in 0 .. Len(RecvQueue(nums)) : rq' = rq \o SubSeq(RecvQueue(nums), 1, k)
    /\ UNCHANGED <<app, pc, call, bulkVars, regs, xVars, queues, rcq, slice, rbuf, came,
                   recv_index, cur, history>>

\* The bytes of the receive buffers, which lie one behind the other.
Memory(a) == IF a < RecvNums * Gap THEN <<rbuf[a \div Gap], a % Gap>> ELSE <<0, 0>>
Copy(a, n) == [k \in 1 .. n |-> Memory(a + k - 1)]

\* The copy of `full` whole buffers and n more bytes, from the buffer index on:
\* in one piece, or in two where the buffers wrap around.
WrapsMutant(index, full) == index + full > RecvNums
Wraps(index, full) == index + full >= RecvNums
CopyOut(index, full, n) ==
    LET len  == full * Gap + n
        tlen == (RecvNums - index) * Gap
    IN  IF Wraps(index, full) THEN Copy(index * Gap, tlen) \o Copy(0, len - tlen)
                              ELSE Copy(index * Gap, len)

\* The loop of read(): a message shorter than the gap ends a run of full ones.
ReadOne(st, len) ==
    IF len < Gap
    THEN [out |-> st.out \o CopyOut(st.index, st.full, len),
          index |-> (st.index + st.full + 1) % RecvNums, full |-> 0]
    ELSE [st EXCEPT !.full = @ + 1]
ReadOut(index, done) ==
    LET st[k \in 0 .. Len(done)] ==
            IF k = 0 THEN [out |-> <<>>, index |-> index, full |-> 0]
                     ELSE ReadOne(st[k - 1], done[k])
        end == st[Len(done)]
    IN  [out |-> IF end.full = 0 THEN end.out ELSE end.out \o CopyOut(end.index, end.full, 0),
         index |-> (end.index + end.full) % RecvNums]

\* query() asks rdma_query_cq for a completion queue 3, of which there is none:
\* it returns -1 without polling.
QueryFlag == 3
Polled == IF QueryFlag = 2 THEN SubSeq(rcq, 1, Least(MaxCqe, Len(rcq))) ELSE <<>>

\* read() by the server of xx, until it has all the bytes; -1 counts as nothing
\* to copy.
Read ==
    LET result == ReadOut(recv_index, Polled)
    IN  /\ app = "xx" /\ cur < Iter * MsgSize
        /\ QueryFlag = 2 => rcq # <<>>
        /\ rcq' = SubSeq(rcq, Len(Polled) + 1, Len(rcq))
        /\ recv_index' = result.index
        /\ cur' = cur + Len(result.out)
        /\ UNCHANGED <<app, pc, call, bulkVars, regs, xVars, queues, rq, slice, rbuf, came,
                       posts, history>>

-----------------------------------------------------------------------------
SenderSteps ==
    \/ Rdma \/ WaitAck \/ Dereg \/ LatencyDone \/ XNext
    \/ app = "xx" /\ (XStart \/ Close)

Next ==
    \/ \E size \in Sizes : Bulk(size)
    \/ \E size \in 0 .. Gap : Latency(size)
    \/ SenderSteps
    \/ PollFails \/ XPollFails
    \/ app = "calls" /\ Close
    \/ Transmit \/ QpError \/ Flush
    \/ QuerySr
    \/ \E nums \in {1, RecvPosts} : PostRecv(nums)
    \/ Read

Spec == Init /\ [][Next]_vars

\* A thread inside a call runs on, a connection completes what is posted, and
\* the server of xx reads in a loop.
FairSpec == Spec /\ WF_vars(SenderSteps) /\ WF_vars(Transmit) /\ WF_vars(Flush) /\ WF_vars(Read)

-----------------------------------------------------------------------------
(* Properties.                                                              *)

\* Types of the state.
TypeOK ==
    /\ app \in {"calls", "xx"}
    /\ pc \in {"idle", "gone"} \cup Busy
    /\ call \in 0 .. MaxCalls
    /\ lens \in Seq(1 .. RdmaGap)
    /\ num \in Nat /\ i \in Nat \ {0} /\ ack \in Nat
    /\ regs \subseteq Piece
    /\ rdma_index \in 0 .. (Slices - 1)
    /\ sbuf \in Nat /\ sent \in 0 .. Iter
    /\ sq \in Seq(Write \cup SendOp)
    /\ scq \in Seq(BOOLEAN)
    /\ qp_ok \in BOOLEAN
    /\ rq \in Seq(0 .. (RecvNums - 1))
    /\ rcq \in Seq(1 .. Gap)
    /\ slice \in [0 .. (Slices - 1) -> Piece \cup {NoPiece}]
    /\ rbuf \in [0 .. (RecvNums - 1) -> Nat]
    /\ came \in Seq([msg : Nat, size : 1 .. Gap])
    /\ recv_index \in 0 .. (RecvNums - 1)
    /\ cur \in Nat
    /\ posts \in 0 .. MaxPosts
    /\ failed \in BOOLEAN /\ spoiled \in BOOLEAN

\* A bulk that has counted its completions is in the peer's memory (the last
\* Slices pieces of it, where it wraps around), unless an earlier call left
\* requests or completions behind.
LandedIn(k) == slice[(rdma_index + num * Slices - (num - k) - 1) % Slices]
BulkLanded ==
    pc = "dereg" /\ ~spoiled =>
        \A k \in 1 .. num : k + Slices > num => LandedIn(k) = <<call, k>>

\* What bulk() posts is what it registered, sizes that are a multiple of the gap
\* included, and stays registered until it is written: a bulk does not break its
\* own connection, whatever was refused before.
InFlightRegistered ==
    ~spoiled => \A k \in DOMAIN sq : sq[k].op = "write" => sq[k].piece \in regs

\* One call ends where the next begins: no request and no completion is left for
\* the next call to count, unless one failed half way, and no memory stays
\* registered unless one returned -1.
IdleIsClean ==
    pc = "idle" => /\ ~spoiled => sq = <<>> /\ scq = <<>>
                   /\ ~failed => regs = {}

\* The one send buffer is filled again while the adapter sends from it, and 16000
\* receives share 1024 buffers: still, as long as the receives of the opening last,
\* the last RecvNums messages are in their buffers, each as it was when posted.
StreamLands ==
    ~spoiled /\ Len(came) < RecvPosts =>
        \A k \in 1 .. Len(came) :
            k + RecvNums > Len(came) => rbuf[k % RecvNums] = came[k].msg

\* What read() makes of the completions it polls: the messages put together in
\* order, runs of full buffers and the wrap around included, as long as no buffer
\* was used twice and nobody else took completions.
Bytes(m) == [k \in 1 .. m.size |-> <<m.msg, k - 1>>]
Joined(q) ==
    LET upto[k \in 0 .. Len(q)] == IF k = 0 THEN <<>> ELSE upto[k - 1] \o Bytes(q[k])
    IN  upto[Len(q)]
ReadInOrder ==
    ~spoiled /\ Len(rcq) = Len(came) /\ Len(came) <= RecvNums /\ posts = 0 =>
        ReadOut(recv_index, rcq).out = Joined(came)

\* close() does not wait for the last message of xx, and only that one can be
\* lost with it.
OnlyLastLost ==
    app = "xx" /\ pc = "gone" /\ ~failed /\ ~spoiled => Len(came) >= Iter - 1

\* Every call returns, with the connection up or broken, unless the receives ran
\* out or an earlier call left its completions uncounted.
CallsReturn ==
    pc \in Busy ~> pc \notin Busy \/ spoiled \/ rq = <<>>

\* The server of xx reads what was sent: query(), which read() goes by, asks for
\* the queue that rdma_query_cq's comment gives for receives (rdma_socket.c:587).
ServerReceivesAll ==
    (app = "xx" /\ Len(came) = Iter) ~> cur = Iter * MsgSize
=============================================================================
