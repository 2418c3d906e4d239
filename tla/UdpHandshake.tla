---------------------------- MODULE UdpHandshake ----------------------------
(***************************************************************************)
(* How the RDMA stack connects two queue pairs.  The connecting worker     *)
(* sends its queue pair's address in a UDP datagram and blocks in recvfrom *)
(* (RDMAWorker::connect); the listening worker creates a queue pair for    *)
(* the datagram, answers with its address and only then brings the queue   *)
(* pair up (RDMAServerSocketImpl::accept); the connecting worker brings    *)
(* its own up with what it received.  A datagram is delivered to the UDP   *)
(* socket it is addressed to and nobody looks at who it was meant for:     *)
(* what tells the answers of two calls apart is the socket connect() makes *)
(* for each.  Each worker is one thread: while it is blocked in connect()  *)
(* or accept() it does nothing else.  Datagrams are lost and reordered,    *)
(* and both ends may fail at every system call.                            *)
(***************************************************************************)
EXTENDS Naturals, FiniteSets

CONSTANTS
    Threads,      \* workers, each with a listening socket of its own
    Callers,      \* the workers that call connect()
    MaxRetry,     \* resends of send_udp_msg (3 in the code)
    Interrupted,  \* bound: the queue pairs whose sendto may meet EINTR or EAGAIN
    MaxConnect,   \* bound: calls of connect(), by all the workers together
    Junk          \* an IBSYNMsg that was never sent: uninitialised memory

\* Bound: queue pairs.  A call makes one and every datagram at most one at the
\* server, so there is always room for the next.
MaxQp == MaxConnect * (MaxRetry + 2)
Qps   == 1 .. MaxQp

ASSUME UdpHandshakeAssumption ==
    /\ Callers \subseteq Threads
    /\ Interrupted \subseteq Nat
    /\ MaxRetry \in Nat
    /\ MaxConnect \in Nat
    /\ Junk \notin Nat

VARIABLES
    listening,   \* workers whose server_setup_socket is bound
    nq,          \* queue pairs made so far
    state,       \* state[q]: the ibv_qp_state of q
    owner,       \* owner[q]: the worker that made q
    target,      \* target[q]: the worker the client queue pair q connects to
    peer,        \* peer[q]: the queue pair peer_msg names, 0 before it is set
    addr,        \* addr[q]: the UDP socket the datagrams of a client queue pair come
                 \*   from, and the one the answer of a server queue pair goes to
    broken,      \* queue pairs for which ibv_modify_qp failed (history)
    syn,         \* syn[q]: datagrams of client q on their way to its target
    rep,         \* rep[s]: answers of server queue pair s on their way to its client
    dropped,     \* clients one of whose datagrams or answers was lost (history)
    pc,          \* pc[w]: what the thread of w does next
    qp,          \* qp[w]: the queue pair of the socket being set up
    retry,       \* retry[w]: the local of send_udp_msg
    sd,          \* sd[w]: client_setup_socket of w, 0 before the first connect()
    calls,       \* calls of connect() so far, and so of ::socket
    established  \* client queue pairs whose connect() returned 0

qpVars  == <<nq, state, owner, target, peer, addr, broken>>
netVars == <<syn, rep, dropped>>
vars    == <<listening, qpVars, netVars, pc, qp, retry, sd, calls, established>>

-----------------------------------------------------------------------------
Connecting == {"c_send", "c_recv", "c_rtr", "c_rts"}
Accepting  == {"a_recv", "a_send", "a_rtr", "a_rts"}

\* A worker is in connect(), or in accept().
IsClient(w) == pc[w] \in Connecting

Goto(w, l) == pc' = [pc EXCEPT ![w] = l]

\* Infiniband::create_queue_pair as far as the handshake sees it: the next queue
\* pair, in the INIT state, whose socket was given the message m; its datagrams are
\* sent from or to the UDP socket a.
NewQp(w, t, m, a) ==
    /\ nq < MaxQp
    /\ nq' = nq + 1
    /\ state' = [state EXCEPT ![nq + 1] = "INIT"]
    /\ owner' = [owner EXCEPT ![nq + 1] = w]
    /\ target' = [target EXCEPT ![nq + 1] = t]
    /\ peer' = [peer EXCEPT ![nq + 1] = m]
    /\ addr' = [addr EXCEPT ![nq + 1] = a]
    /\ qp' = [qp EXCEPT ![w] = nq + 1]
    /\ retry' = [retry EXCEPT ![w] = 0]
    /\ UNCHANGED broken

Init ==
    /\ listening = {}
    /\ nq = 0
    /\ state = [q \in Qps |-> "none"]
    /\ owner = [q \in Qps |-> 0] /\ target = [q \in Qps |-> 0]
    /\ peer = [q \in Qps |-> 0] /\ addr = [q \in Qps |-> 0]
    /\ broken = {} /\ dropped = {} /\ established = {}
    /\ syn = [q \in Qps |-> 0]
    /\ rep = [q \in Qps |-> 0]
    /\ pc = [w \in Threads |-> "loop"]
    /\ qp = [w \in Threads |-> 0]
    /\ retry = [w \in Threads |-> 0]
    /\ sd = [w \in Threads |-> 0]
    /\ calls = 0

-----------------------------------------------------------------------------
\* RDMAWorker::listen and RDMAServerSocketImpl::listen, when socket, setsockopt
\* and bind succeed; when one fails the socket is closed and nothing has changed.
Listen(w) ==
    /\ pc[w] = "loop"
    /\ listening' = listening \cup {w}
    /\ w \notin listening
    /\ UNCHANGED <<qpVars, netVars, pc, qp, retry, sd, calls, established>>

\* RDMAWorker::connect(peer_addr): every call makes a UDP socket, the calls-th, and
\* leaves the one of the call before open, with what is still to arrive there.  (That
\* ::connect lets only the peer's datagrams in, or fails and lets in all, changes
\* nothing: only the peer learns the address of a new socket.)
SetupSocketMutant(w) == IF sd[w] # 0 THEN sd[w] ELSE calls + 1
SetupSocket(w) == calls + 1

\* RDMAWorker::connect up to send_udp_msg: the queue pair is made first, and a
\* failed ::socket is only noticed by the assert(sd >= 0) of send_udp_msg.
Connect(w, t) ==
    /\ pc[w] = "loop"
    /\ w \in Callers /\ t # w
    /\ calls < MaxConnect
    /\ calls' = calls + 1
    /\ sd' = [sd EXCEPT ![w] = SetupSocket(w)]
    /\ NewQp(w, t, 0, SetupSocket(w))
    /\ \E l \in {"c_send", "assert"} : Goto(w, l)
    /\ UNCHANGED <<listening, netVars, established>>

\* Another turn of the retry loop is allowed.
MayRetryMutant(w) == retry[w] <= MaxRetry
MayRetry(w) == retry[w] < MaxRetry

\* Where the thread goes when send_udp_msg has returned: connect() gives up on an
\* error, accept() brings its queue pair up whatever the result was.
AfterSendMutant(w, ok) ==
    IF IsClient(w) THEN IF ok THEN "c_recv" ELSE "loop"
                   ELSE IF ok THEN "a_rtr" ELSE "loop"
AfterSend(w, ok) ==
    IF IsClient(w) THEN IF ok THEN "c_recv" ELSE "loop" ELSE "a_rtr"

\* One ::sendto of send_udp_msg.  An injected failure overwrites the result of a
\* sendto that did send, so the datagram may be out whatever the result says; the
\* result is a success, an error with EINTR or EAGAIN, or another error.
SendTo(w, sent, result) ==
    LET q == qp[w]
        client == IF IsClient(w) THEN q ELSE peer[q]
        reached == IF IsClient(w) THEN target[q] \in listening ELSE TRUE
    IN  /\ pc[w] \in {"c_send", "a_send"}
        /\ result = "ok" => sent
        /\ result = "again" => q \in Interrupted /\ MayRetry(w)
        /\ syn' = [syn EXCEPT ![q] = IF IsClient(w) /\ sent /\ reached THEN @ + 1 ELSE @]
        /\ rep' = [rep EXCEPT ![q] = IF ~IsClient(w) /\ sent THEN @ + 1 ELSE @]
        /\ dropped' = IF (sent /\ reached) \/ (~sent /\ result = "again")
                      THEN dropped ELSE dropped \cup {client}
        /\ IF result = "again"
           THEN /\ retry' = [retry EXCEPT ![w] = @ + 1]
                /\ UNCHANGED pc
           ELSE /\ Goto(w, AfterSend(w, result = "ok"))
                /\ retry' = [retry EXCEPT ![w] = 0]
        /\ UNCHANGED <<listening, qpVars, qp, sd, calls, established>>

\* recv_udp_msg in connect(): the next datagram at the socket, whatever it answers.  A
\* datagram that an injected failure turns into the result 1 was parsed all the same,
\* and connect() only looks for a negative result; -1 makes connect() return with the
\* datagram gone.
ConnectRecv(w, s) ==
    /\ pc[w] = "c_recv"
    /\ rep[s] > 0 /\ addr[s] = sd[w]
    /\ rep' = [rep EXCEPT ![s] = @ - 1]
    /\ \/ /\ peer' = [peer EXCEPT ![qp[w]] = s]
          /\ Goto(w, "c_rtr")
       \/ /\ Goto(w, "loop")
          /\ UNCHANGED peer
    /\ UNCHANGED <<listening, nq, state, owner, target, addr, broken, syn, dropped,
                   qp, retry, sd, calls, established>>

\* ::recvfrom itself fails in connect().  For EINTR and EAGAIN the result is 1,
\* and the message is what sscanf made of the uninitialised buffer.
ConnectRecvError(w) ==
    /\ pc[w] = "c_recv"
    /\ \/ /\ peer' = [peer EXCEPT ![qp[w]] = Junk]
          /\ Goto(w, "c_rtr")
       \/ /\ Goto(w, "loop")
          /\ UNCHANGED peer
    /\ UNCHANGED <<listening, nq, state, owner, target, addr, broken, netVars,
                   qp, retry, sd, calls, established>>

\* The event loop calls accept() when the listening socket is readable.
Accept(w) ==
    /\ pc[w] = "loop"
    /\ \E q \in Qps : target[q] = w /\ syn[q] > 0
    /\ Goto(w, "a_recv")
    /\ UNCHANGED <<listening, qpVars, netVars, qp, retry, sd, calls, established>>

\* recv_udp_msg in accept(): a datagram addressed to w makes a socket, whose answer
\* goes to where the datagram came from; or it is dropped and the loop blocks in
\* recvfrom again (result 1), or is dropped and accept() returns -1.
AcceptRecvMutant(w, q) ==
    /\ pc[w] = "a_recv"
    /\ target[q] = w /\ syn[q] > 0
    /\ syn' = [syn EXCEPT ![q] = @ - 1]
    /\ NewQp(w, w, q, addr[q])
    /\ Goto(w, "a_rtr")
    /\ UNCHANGED <<listening, rep, dropped, sd, calls, established>>
AcceptRecv(w, q) ==
    /\ pc[w] = "a_recv"
    /\ target[q] = w /\ syn[q] > 0
    /\ syn' = [syn EXCEPT ![q] = @ - 1]
    /\ \/ /\ NewQp(w, w, q, addr[q])
          /\ Goto(w, "a_send")
          /\ UNCHANGED dropped
       \/ /\ \E l \in {"a_recv", "loop"} : Goto(w, l)
          /\ dropped' = dropped \cup {q}
          /\ UNCHANGED <<qpVars, qp, retry>>
    /\ UNCHANGED <<listening, rep, sd, calls, established>>

\* ::recvfrom itself fails in accept(): EINTR and EAGAIN are tried again, which is
\* no step, another error ends accept().
AcceptRecvError(w) ==
    /\ pc[w] = "a_recv"
    /\ Goto(w, "loop")
    /\ UNCHANGED <<listening, qpVars, netVars, qp, retry, sd, calls, established>>

\* RDMAConnectedSocketImpl::activate, its two ibv_modify_qp calls.  connect()
\* asserts that they succeed, accept() ignores the result and returns the socket.
Modify(w, from, to, next) ==
    /\ pc[w] = from
    /\ \/ /\ state' = [state EXCEPT ![qp[w]] = to]
          /\ Goto(w, next)
          /\ established' = IF from = "c_rts" THEN established \cup {qp[w]} ELSE established
          /\ UNCHANGED broken
       \/ /\ broken' = broken \cup {qp[w]}
          /\ Goto(w, IF IsClient(w) THEN "assert" ELSE "loop")
          /\ UNCHANGED <<state, established>>
    /\ UNCHANGED <<listening, nq, owner, target, peer, addr, netVars, qp, retry, sd, calls>>

Activate(w) ==
    \/ Modify(w, "c_rtr", "RTR", "c_rts")
    \/ Modify(w, "a_rtr", "RTR", "a_rts")
    \/ Modify(w, "c_rts", "RTS", "loop")
    \/ Modify(w, "a_rts", "RTS", "loop")

\* The network loses a datagram.
Lose(q) ==
    /\ \/ /\ syn[q] > 0
          /\ syn' = [syn EXCEPT ![q] = @ - 1]
          /\ dropped' = dropped \cup {q}
          /\ UNCHANGED rep
       \/ /\ rep[q] > 0
          /\ rep' = [rep EXCEPT ![q] = @ - 1]
          /\ dropped' = dropped \cup {peer[q]}
          /\ UNCHANGED syn
    /\ UNCHANGED <<listening, qpVars, pc, qp, retry, sd, calls, established>>

-----------------------------------------------------------------------------
Results == {"ok", "again", "error"}

Next ==
    \/ \E w \in Threads :
          \/ Listen(w)
          \/ \E t \in Threads : Connect(w, t)
          \/ \E sent \in BOOLEAN, result \in Results : SendTo(w, sent, result)
          \/ \E s \in Qps : ConnectRecv(w, s)
          \/ ConnectRecvError(w)
          \/ Accept(w)
          \/ \E q \in Qps : AcceptRecv(w, q)
          \/ AcceptRecvError(w)
          \/ Activate(w)
    \/ \E q \in Qps : Lose(q)

Spec == Init /\ [][Next]_vars

\* A thread that is not blocked goes on, and a recvfrom in connect() returns when
\* a datagram is there; the event loop looks at the listening socket again and
\* again; and recvfrom does not fail for ever while a datagram is there.
Running(w) ==
    \/ \E sent \in BOOLEAN, result \in Results : SendTo(w, sent, result)
    \/ \E s \in Qps : ConnectRecv(w, s)
    \/ Activate(w)
Fairness ==
    \A w \in Threads : /\ WF_vars(Running(w))
                       /\ SF_vars(Accept(w))
                       /\ SF_vars(\E q \in Qps : AcceptRecv(w, q))

FairSpec == Spec /\ Fairness

-----------------------------------------------------------------------------
(* Properties.                                                              *)

\* Types of the state; no more queue pairs than datagrams and calls allow.
TypeOK ==
    /\ listening \subseteq Threads
    /\ nq \in 0 .. MaxQp
    /\ state \in [Qps -> {"none", "INIT", "RTR", "RTS"}]
    /\ owner \in [Qps -> Threads \cup {0}] /\ target \in [Qps -> Threads \cup {0}]
    /\ peer \in [Qps -> 0 .. MaxQp \cup {Junk}]
    /\ syn \in [Qps -> 0 .. (MaxRetry + 1)] /\ rep \in [Qps -> 0 .. (MaxRetry + 1)]
    /\ broken \subseteq Qps /\ dropped \subseteq Qps /\ established \subseteq Qps
    /\ pc \in [Threads -> {"loop", "assert"} \cup Connecting \cup Accepting]
    /\ qp \in [Threads -> 0 .. MaxQp]
    /\ retry \in [Threads -> 0 .. MaxRetry]
    /\ addr \in [Qps -> 0 .. MaxConnect] /\ sd \in [Threads -> 0 .. MaxConnect]
    /\ calls \in 0 .. MaxConnect

\* The two ends agree: a client that connect() brought up with a message it did
\* receive names a queue pair of the worker it called, and that queue pair was
\* made for this client, whatever was lost, resent or delivered late, to this call of
\* connect() or to an earlier one that gave up.
Paired ==
    \A q \in established :
        peer[q] # Junk => /\ peer[q] \in Qps
                          /\ owner[peer[q]] = target[q]
                          /\ peer[peer[q]] = q
                          /\ state[peer[q]] # "none"

\* Server queue pairs made for client q, of which at most one is ever used.
Served(q) == {s \in 1 .. nq : peer[s] = q /\ s # q /\ owner[s] = target[q]}

\* Resending has a price: every datagram of a client makes a socket at the server,
\* so one connect() leaves at most MaxRetry + 1 of them, queued ones included.
BoundedDuplicates ==
    \A q \in 1 .. nq : Cardinality(Served(q)) + syn[q] <= MaxRetry + 1

\* connect() blocks for ever only when a datagram was lost (there is no timeout
\* and no retransmission), or when the worker it called is itself gone or blocked
\* for ever in a connect(): two workers that call each other deadlock.
Unanswered(w) == pc[w] = "c_recv" /\ qp[w] \notin dropped
ConnectReturns ==
    \A w \in Threads :
        Unanswered(w) ~> \/ ~Unanswered(w)
                         \/ [](Unanswered(w) /\ pc[target[qp[w]]] \in {"c_recv", "assert"})

\* The server answers before it brings its queue pair up, so a client may be
\* connected first; the server's end follows, unless ibv_modify_qp fails there.
Ahead == {q \in established : /\ peer[q] \in Qps
                              /\ state[peer[q]] # "RTS"
                              /\ peer[q] \notin broken}
PeerComesUp == Ahead # {} ~> Ahead = {}

\* A result of 1 means that no valid message was read (Infiniband.cc:224): no
\* connection is set up with such a message.
NoJunkPeer == \A q \in established : peer[q] # Junk
=============================================================================
