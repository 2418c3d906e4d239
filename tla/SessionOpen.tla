---------------------------- MODULE SessionOpen -----------------------------
(***************************************************************************)
(* How two rdma_session objects of debug/ come up.  Each end makes a queue *)
(* pair; the ends exchange its address over TCP and connect it; each end   *)
(* posts its receives; and at the door() each sends the other the list of  *)
(* its registered slices, the first message of the queue pair.  After that *)
(* both send and receive messages.  Several clients may call one server,   *)
(* whose rdma_portal accepts one.                                          *)
(*                                                                         *)
(* A failure in create_context gives a session without a context, and its  *)
(* init() follows the null pointer: the process is gone.  A failure at the *)
(* door is ignored, and the session opens with what it has.                *)
(***************************************************************************)
EXTENDS Naturals, Sequences, FiniteSets

CONSTANTS
    Clients,   \* the processes that call the server
    Server,    \* the process of the portal
    Junk,      \* keys parsed from a buffer nothing was received into
    RecvNums,  \* recv_nums, the number of receive buffers (1024)
    MaxData    \* bound: MaxData[p] calls of latency() by end p

Ends == Clients \cup {Server}
None == 0

ASSUME SessionOpenAssumption ==
    /\ Clients # {} /\ IsFiniteSet(Clients)
    /\ Server \notin Clients
    /\ MaxData \in [Ends -> Nat] /\ RecvNums \in Nat \ {0}
    /\ None \notin Ends /\ Junk \notin Ends \cup {None}
    /\ {"data", "err"} \cap Ends = {}

VARIABLES
    pc,         \* pc[p]: the next step of process p
    flag,       \* flag[p]: whether flag is 1; only the server's constructor sets it
    backlog,    \* clients whose TCP connection waits for accept(), oldest first
    served,     \* the client of the accepted connection
    toServer,   \* toServer[c]: what client c wrote and the server has not read
    toClient,   \* toClient[c]: what the server wrote and client c has not read
    qp,         \* qp[p]: the state of the queue pair
    remote,     \* remote[p]: the end whose address remote_info holds
    ready,      \* ends whose receives are posted
    wire,       \* wire[p]: messages p posted that the adapter has not completed: "data",
                \*   or the end whose slices it lists
    scq,        \* scq[p]: status of the entries of send_cq
    rcq,        \* rcq[p]: entries of recv_cq
    received,   \* received[p]: messages p has received
    buffer0,    \* buffer0[p]: the one that rbuf, the first receive buffer, holds
    listed,     \* listed[p]: the end whose list the entry wc[0] of door() announces
    keys,       \* keys[p]: the end whose slices raddrs and rkeys name
    sent,       \* sent[p]: calls of latency() since p is open
    swallowed,  \* swallowed[p]: messages polled and never reported (history)
    broken      \* ends whose adapter refused or gave up on something (history)

tcpVars  == <<backlog, served, toServer, toClient>>
qpVars   == <<qp, remote, ready>>
cqVars   == <<wire, scq, rcq>>
bufVars  == <<received, buffer0>>
appVars  == <<listed, keys, sent, swallowed>>
vars     == <<pc, flag, tcpVars, qpVars, cqVars, bufVars, appVars, broken>>

Goto(p, l) == pc' = [pc EXCEPT ![p] = l]
Gone(p)    == pc[p] = "gone"
Break(p)   == broken' = broken \cup {p}

\* The messages among the entries s of a receive queue.
Data(s) == Cardinality({i \in DOMAIN s : s[i] = "data"})

\* flag is not initialised by the constructor of a client.
Init ==
    /\ pc = [p \in Ends |-> "create"]
    /\ flag \in {f \in [Ends -> BOOLEAN] : f[Server]}
    /\ backlog = <<>> /\ served = None
    /\ toServer = [c \in Clients |-> <<>>] /\ toClient = [c \in Clients |-> <<>>]
    /\ qp = [p \in Ends |-> "none"] /\ remote = [p \in Ends |-> None]
    /\ ready = {}
    /\ wire = [p \in Ends |-> <<>>]
    /\ scq = [p \in Ends |-> <<>>] /\ rcq = [p \in Ends |-> <<>>]
    /\ received = [p \in Ends |-> 0] /\ buffer0 = [p \in Ends |-> None]
    /\ listed = [p \in Ends |-> None] /\ keys = [p \in Ends |-> None]
    /\ sent = [p \in Ends |-> 0] /\ swallowed = [p \in Ends |-> 0]
    /\ broken = {}

-----------------------------------------------------------------------------
(* create_context: the queue pair, then the exchange of addresses.          *)

\* A step of create_context fails: it returns NULL, and init() of the session
\* follows the null context.
Fail(p) ==
    /\ pc[p] \in {"create", "listen", "accept", "connect", "write", "read", "rtr", "rts"}
    /\ Goto(p, "gone")
    /\ UNCHANGED <<flag, tcpVars, qpVars, cqVars, bufVars, appVars, broken>>

\* rdma_socket_p, create_context and init_rdma_context up to the exchange.
CreateContext(p) ==
    /\ pc[p] = "create"
    /\ qp' = [qp EXCEPT ![p] = "INIT"]
    /\ Goto(p, IF p = Server THEN "listen" ELSE "connect")
    /\ UNCHANGED <<flag, tcpVars, remote, ready, cqVars, bufVars, appVars, broken>>

\* rdma_server_exch_dest: listen().
Listen ==
    /\ pc[Server] = "listen"
    /\ Goto(Server, "accept")
    /\ UNCHANGED <<flag, tcpVars, qpVars, cqVars, bufVars, appVars, broken>>

Listening == pc[Server] \notin {"create", "listen", "gone"}

\* rdma_client_exch_dest: connect().  getaddrinfo is asked for sockets of any type,
\* so when TCP is refused the loop goes on to a UDP socket, whose connect() succeeds.
Connect(c) ==
    /\ pc[c] = "connect"
    /\ IF Listening
       THEN /\ backlog' = Append(backlog, c)
            /\ Goto(c, "write")
       ELSE /\ Goto(c, "udp")
            /\ UNCHANGED backlog
    /\ UNCHANGED <<flag, served, toServer, toClient, qpVars, cqVars, bufVars, appVars, broken>>

\* The read() on the UDP socket is refused, or never returns.
UdpRefused(c) ==
    /\ pc[c] = "udp"
    /\ Goto(c, "gone")
    /\ UNCHANGED <<flag, tcpVars, qpVars, cqVars, bufVars, appVars, broken>>

\* rdma_client_exch_dest: the client writes its own address.
ClientWrite(c) ==
    /\ pc[c] = "write" /\ c # Server
    /\ toServer' = [toServer EXCEPT ![c] = Append(@, c)]
    /\ Goto(c, "read")
    /\ UNCHANGED <<flag, backlog, served, toClient, qpVars, cqVars, bufVars, appVars, broken>>

\* rdma_server_exch_dest: accept().
Accept ==
    /\ pc[Server] = "accept"
    /\ backlog # <<>>
    /\ served' = Head(backlog)
    /\ backlog' = Tail(backlog)
    /\ Goto(Server, "read")
    /\ UNCHANGED <<flag, toServer, toClient, qpVars, cqVars, bufVars, appVars, broken>>

\* rdma_server_exch_dest: the server reads the client's address, and goes on with
\* rdma_connect_ctx.  When the client is gone read() returns 0, which is Fail.
AfterServerReadMutant == "write"
AfterServerRead == "rtr"
ServerRead ==
    /\ pc[Server] = "read"
    /\ toServer[served] # <<>>
    /\ remote' = [remote EXCEPT ![Server] = Head(toServer[served])]
    /\ toServer' = [toServer EXCEPT ![served] = Tail(@)]
    /\ Goto(Server, AfterServerRead)
    /\ UNCHANGED <<flag, backlog, served, toClient, qp, ready, cqVars, bufVars, appVars, broken>>

\* rdma_server_exch_dest: the server's queue pair is up, it writes its own address.
ServerWrite ==
    /\ pc[Server] = "write"
    /\ toClient' = [toClient EXCEPT ![served] = Append(@, Server)]
    /\ Goto(Server, "done")
    /\ UNCHANGED <<flag, backlog, served, toServer, qpVars, cqVars, bufVars, appVars, broken>>

\* rdma_client_exch_dest: the client reads the server's address, and writes "done"
\* before it connects its queue pair.
ClientRead(c) ==
    /\ pc[c] = "read" /\ c # Server
    /\ toClient[c] # <<>>
    /\ remote' = [remote EXCEPT ![c] = Head(toClient[c])]
    /\ toClient' = [toClient EXCEPT ![c] = Tail(@)]
    /\ toServer' = [toServer EXCEPT ![c] = Append(@, "done")]
    /\ Goto(c, "rtr")
    /\ UNCHANGED <<flag, backlog, served, qp, ready, cqVars, bufVars, appVars, broken>>

\* rdma_server_exch_dest: the second read(), whose result nobody looks at.
ServerDone ==
    /\ pc[Server] = "done"
    /\ toServer[served] # <<>> \/ Gone(served)
    /\ toServer' = [toServer EXCEPT ![served] = <<>>]
    /\ Goto(Server, "init")
    /\ UNCHANGED <<flag, backlog, served, toClient, qpVars, cqVars, bufVars, appVars, broken>>

\* rdma_connect_ctx: ibv_modify_qp to RTR and to RTS.
ConnectCtx(p) ==
    /\ \/ /\ pc[p] = "rtr"
          /\ qp' = [qp EXCEPT ![p] = "RTR"]
          /\ Goto(p, "rts")
       \/ /\ pc[p] = "rts"
          /\ qp' = [qp EXCEPT ![p] = "RTS"]
          /\ Goto(p, IF p = Server THEN "write" ELSE "init")
    /\ UNCHANGED <<flag, tcpVars, remote, ready, cqVars, bufVars, appVars, broken>>

-----------------------------------------------------------------------------
(* rdma_session::init: the receives, then the door.                         *)

\* door(): who sends the list of slices first.
FirstStepMutant(p) == "d_recv"
FirstStep(p) == IF flag[p] THEN "d_send" ELSE "d_recv"

\* door(): what follows the sending, and what follows the receiving.
AfterListMutant(p) == "open"
AfterList(p) == IF flag[p] THEN "d_recv" ELSE "open"
AfterPeer(p) == IF flag[p] THEN "open" ELSE "d_send"

\* reg_mem and post_recv.  A failed registration is followed as a pointer; a
\* refused receive ends post_recv, whose result is ignored.
PostRecv(p) ==
    /\ pc[p] = "init"
    /\ \/ /\ ready' = ready \cup {p}
          /\ Goto(p, FirstStep(p))
          /\ UNCHANGED broken
       \/ /\ Goto(p, FirstStep(p))
          /\ Break(p)
          /\ UNCHANGED ready
       \/ /\ Goto(p, "gone")
          /\ UNCHANGED <<ready, broken>>
    /\ UNCHANGED <<flag, tcpVars, qp, remote, cqVars, bufVars, appVars>>

\* ibv_post_send of message m by p.  A queue pair in the error state completes the
\* request with an error at once.
Post(p, m) ==
    /\ wire' = [wire EXCEPT ![p] = IF qp[p] = "RTS" THEN Append(@, m) ELSE @]
    /\ scq' = [scq EXCEPT ![p] = IF qp[p] = "ERR" THEN Append(@, "err") ELSE @]

\* start_rw: the slices are registered and their list is posted.  A failed
\* allocation or registration is followed as a pointer; the result of send() is
\* ignored, so after a refused request the next step waits for nothing.
AfterPostListMutant(p) == AfterList(p)
AfterPostList(p) == "d_wait"
StartRw(p) ==
    /\ pc[p] = "d_send"
    /\ \/ /\ Post(p, p)
          /\ Goto(p, AfterPostList(p))
          /\ UNCHANGED broken
       \/ /\ Goto(p, "d_wait")
          /\ Break(p)
          /\ UNCHANGED <<wire, scq>>
       \/ /\ Goto(p, "gone")
          /\ UNCHANGED <<wire, scq, broken>>
    /\ UNCHANGED <<flag, tcpVars, qpVars, rcq, bufVars, appVars>>

\* rdma_query_cq on send_cq spins until there is an entry; a completion that failed
\* and an error of ibv_poll_cq give -1, and the latter leaves the entries there.
QuerySendCq(p) ==
    \/ /\ scq[p] # <<>>
       /\ scq' = [scq EXCEPT ![p] = <<>>]
       /\ UNCHANGED broken
    \/ /\ Break(p)
       /\ UNCHANGED scq

\* start_rw: the result of rdma_query_cq is ignored.
StartRwDone(p) ==
    /\ pc[p] = "d_wait"
    /\ QuerySendCq(p)
    /\ Goto(p, AfterList(p))
    /\ UNCHANGED <<flag, tcpVars, qpVars, wire, rcq, bufVars, appVars>>

\* door(): the length of the list is the byte_len of the first entry polled.
ListEntryMutant(s) == s[Len(s)]
ListEntry(s) == s[1]
ListedBy(s) == IF ListEntry(s) \in Ends THEN ListEntry(s) ELSE Junk

\* door(): rdma_query_cq on recv_cq spins until there is an entry and takes all
\* there are (up to maxCQE, 1024); its result is ignored, and when ibv_poll_cq
\* fails wc[0] is not initialised.
QueryDoor(p) ==
    /\ pc[p] = "d_recv"
    /\ \/ /\ rcq[p] # <<>>
          /\ listed' = [listed EXCEPT ![p] = ListedBy(rcq[p])]
          /\ swallowed' = [swallowed EXCEPT ![p] = @ + Data(rcq[p])]
          /\ rcq' = [rcq EXCEPT ![p] = <<>>]
          /\ UNCHANGED broken
       \/ /\ listed' = [listed EXCEPT ![p] = Junk]
          /\ Break(p)
          /\ UNCHANGED <<swallowed, rcq>>
    /\ Goto(p, "d_parse")
    /\ UNCHANGED <<flag, tcpVars, qpVars, wire, scq, bufVars, keys, sent>>

\* start_remote: the list is parsed from rbuf, whatever that holds by now, up to the
\* length of the first entry.
StartRemote(p) ==
    /\ pc[p] = "d_parse"
    /\ keys' = [keys EXCEPT ![p] = IF buffer0[p] = listed[p] THEN listed[p] ELSE Junk]
    /\ Goto(p, AfterPeer(p))
    /\ UNCHANGED <<flag, tcpVars, qpVars, cqVars, bufVars, listed, sent, swallowed, broken>>

-----------------------------------------------------------------------------
(* An open session.                                                         *)

\* latency(): a message is posted and its completion awaited.  A size of 0 posts
\* nothing and is awaited all the same; a refused request is reported, which is no
\* step.
Latency(p) ==
    /\ pc[p] = "open"
    /\ sent[p] < MaxData[p]
    /\ sent' = [sent EXCEPT ![p] = @ + 1]
    /\ \/ Post(p, "data")
       \/ UNCHANGED <<wire, scq>>
    /\ Goto(p, "o_wait")
    /\ UNCHANGED <<flag, tcpVars, qpVars, rcq, bufVars, listed, keys, swallowed, broken>>

\* latency(): the result of rdma_query_cq is reported to the caller.
LatencyDone(p) ==
    /\ pc[p] = "o_wait"
    /\ QuerySendCq(p)
    /\ Goto(p, "open")
    /\ UNCHANGED <<flag, tcpVars, qpVars, wire, rcq, bufVars, appVars>>

\* query_sr(): rdma_query_cq on recv_cq; one entry that failed makes the result -1
\* and the messages polled with it are not reported.
QuerySr(p) ==
    /\ pc[p] = "open"
    /\ rcq[p] # <<>>
    /\ swallowed' = [swallowed EXCEPT ![p] =
           IF \E i \in DOMAIN rcq[p] : rcq[p][i] = "err" THEN @ + Data(rcq[p]) ELSE @]
    /\ rcq' = [rcq EXCEPT ![p] = <<>>]
    /\ UNCHANGED <<pc, flag, tcpVars, qpVars, wire, scq, bufVars, listed, keys, sent, broken>>

\* close(): the regions are deregistered (when that fails it returns early, which is
\* no step here), and then free() is called with a pointer into the middle of a
\* block of malloc_huge_pages, which aborts the process before rdma_close_ctx.
Close(p) ==
    /\ pc[p] = "open"
    /\ Goto(p, "gone")
    /\ UNCHANGED <<flag, tcpVars, qpVars, cqVars, bufVars, appVars, broken>>

-----------------------------------------------------------------------------
(* The adapters (external).                                                 *)

Receives(p) == qp[p] \in {"RTR", "RTS"} /\ ~Gone(p)

\* Receive n, counted from 0, goes into buffer n % recv_nums (post_recv).
Slot(n) == n % RecvNums

\* The oldest message of p reaches its peer and is acknowledged.  A peer without
\* receives is tried again for ever (rnr_retry is 7).
Deliver(p) ==
    LET q == remote[p]
    IN  /\ wire[p] # <<>> /\ qp[p] = "RTS"
        /\ Receives(q) /\ q \in ready /\ remote[q] = p
        /\ rcq' = [rcq EXCEPT ![q] = Append(@, Head(wire[p]))]
        /\ received' = [received EXCEPT ![q] = @ + 1]
        /\ buffer0' = [buffer0 EXCEPT ![q] = IF Slot(received[q]) = 0 THEN Head(wire[p]) ELSE @]
        /\ scq' = [scq EXCEPT ![p] = Append(@, "ok")]
        /\ wire' = [wire EXCEPT ![p] = Tail(@)]
        /\ UNCHANGED <<pc, flag, tcpVars, qpVars, appVars, broken>>

\* A peer that is not ready to receive, or gone, does not answer: after retry_cnt
\* attempts the message fails, the queue pair goes to the error state and the
\* posted receives are flushed.
GiveUp(p) ==
    /\ wire[p] # <<>> /\ ~Gone(p)
    /\ ~Receives(remote[p])
    /\ scq' = [scq EXCEPT ![p] = Append(@, "err")]
    /\ rcq' = [rcq EXCEPT ![p] = IF p \in ready THEN Append(@, "err") ELSE @]
    /\ wire' = [wire EXCEPT ![p] = <<>>]
    /\ qp' = [qp EXCEPT ![p] = "ERR"]
    /\ Break(p)
    /\ UNCHANGED <<pc, flag, tcpVars, remote, ready, bufVars, appVars>>

-----------------------------------------------------------------------------
Program(p) ==
    \/ CreateContext(p) \/ ConnectCtx(p) \/ PostRecv(p)
    \/ StartRw(p) \/ StartRwDone(p) \/ QueryDoor(p) \/ StartRemote(p)
    \/ LatencyDone(p)

ClientStep(c) == Connect(c) \/ ClientWrite(c) \/ ClientRead(c)
ServerStep == Listen \/ Accept \/ ServerRead \/ ServerWrite \/ ServerDone

Next ==
    \/ \E p \in Ends : \/ Program(p) \/ Fail(p)
                       \/ Latency(p) \/ QuerySr(p) \/ Close(p)
                       \/ Deliver(p) \/ GiveUp(p)
    \/ \E c \in Clients : ClientStep(c) \/ UdpRefused(c)
    \/ ServerStep

Spec == Init /\ [][Next]_vars

\* Processes run, TCP delivers, and so do the adapters of processes that run; an
\* adapter may fail but is never obliged to.  Every step of a process moves its pc,
\* every delivery takes a message off a wire.
Fairness ==
    /\ \A c \in Clients : WF_pc((Program(c) \/ ClientStep(c)) /\ UNCHANGED broken)
    /\ WF_pc((Program(Server) \/ ServerStep) /\ UNCHANGED broken)
    /\ \A p \in Ends : WF_wire(~Gone(p) /\ Deliver(p))

FairSpec == Spec /\ Fairness

-----------------------------------------------------------------------------
(* Properties.                                                              *)

Labels == {"create", "listen", "accept", "connect", "udp", "write", "read", "done",
           "rtr", "rts", "init", "d_send", "d_wait", "d_recv", "d_parse", "open", "o_wait", "gone"}

\* Types of the state of the exchange and of the queues; at most one message of an
\* end is unacknowledged, and a send_cq never holds more than the one entry that
\* latency() and start_rw reap, as long as nothing broke.
EndTypes ==
    /\ pc \in [Ends -> Labels]
    /\ flag \in [Ends -> BOOLEAN]
    /\ \A i \in DOMAIN backlog : backlog[i] \in Clients
    /\ served \in Clients \cup {None}
    /\ \A c \in Clients : Len(toServer[c]) <= 2 /\ Len(toClient[c]) <= 1
    /\ qp \in [Ends -> {"none", "INIT", "RTR", "RTS", "ERR"}]
    /\ remote \in [Ends -> Ends \cup {None}]
    /\ ready \subseteq Ends /\ broken \subseteq Ends
    /\ listed \in [Ends -> Ends \cup {None, Junk}]
    /\ sent \in [Ends -> Nat]
    /\ \A p \in Ends \ broken : Len(wire[p]) + Len(scq[p]) <= 1

\* Types of what was received and of the keys taken from it.
BufferTypes ==
    /\ received \in [Ends -> Nat]
    /\ buffer0 \in [Ends -> Ends \cup {None, "data"}]
    /\ keys \in [Ends -> Ends \cup {None, Junk}]

\* Types of the state.
TypeOK == EndTypes /\ BufferTypes

\* The order of the exchange protects the client: once its queue pair can send,
\* the server's is up and connected to it, so no message of a client is dropped
\* because the server was not ready.
ServerReadyFirst ==
    \A c \in Clients :
        qp[c] \in {"RTR", "RTS"} =>
            /\ remote[c] = Server /\ remote[Server] = c
            /\ qp[Server] \in {"RTS", "ERR"}

\* Nothing failed in the adapter of p or of its peer.
Sound(p) == p \notin broken /\ remote[p] \notin broken

\* The keys an end opens with are its peer's, although door() polls all entries,
\* trusts the first and parses the first buffer a moment later: only a failure of
\* an adapter makes them junk, or a peer so far ahead that its messages went once
\* around the receive buffers.
KeysOfPeer ==
    \A p \in Ends :
        /\ keys[p] \in Ends => keys[p] = remote[p]
        /\ keys[p] = Junk => ~Sound(p) \/ received[p] > RecvNums

\* door() throws away the entries behind the first.  The server may lose messages
\* that way, which the client sends as soon as it is open; a client that waits for
\* the server's list first loses none, because the server is still waiting for its.
ClientLosesNothing ==
    \A c \in Clients : ~flag[c] /\ Sound(c) => swallowed[c] = 0

\* A session that is open and idle has nothing in flight and no completion left,
\* so the next completion is that of the next message.
IdleIsDrained ==
    \A p \in Ends \ broken :
        pc[p] = "open" => wire[p] = <<>> /\ scq[p] = <<>>

\* Some client and the server open their session, whatever the client's
\* uninitialised flag holds: unless a process died, an adapter gave up, or a client
\* that came before listen() ended up on a UDP socket.
Open(p) == pc[p] \in {"open", "o_wait"}
Trouble == broken # {} \/ \E p \in Ends : pc[p] \in {"gone", "udp"}
SessionOpens == <>(Trouble \/ (Open(Server) /\ \E c \in Clients : Open(c)))
=============================================================================
