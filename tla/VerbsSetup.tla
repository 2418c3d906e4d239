----------------------------- MODULE VerbsSetup -----------------------------
(***************************************************************************)
(* How the Ceph RDMA stack builds its verbs objects, and what it does when *)
(* a verbs call fails: the choice of device and port, the constructor of   *)
(* Infiniband, RDMAWorker::initialize in every worker thread, and the      *)
(* constructor of RDMAConnectedSocketImpl, which calls create_queue_pair.  *)
(* An object that failed to initialise is deleted by its factory, and the  *)
(* failure paths of init() have often destroyed the verbs handle already,  *)
(* without clearing the pointer the destructor looks at.                   *)
(***************************************************************************)
EXTENDS Naturals, Sequences, FiniteSets

CONSTANTS
    Workers,     \* worker threads (RDMAWorker)
    MaxSockets,  \* bound: connected sockets that are constructed
    MaxPort,     \* bound: the largest port number (255, a uint8_t, in the code)
    DeviceLists  \* bound: the lists ibv_get_device_list may return

\* A device: whether its name is "mlx4_0", and which of its ports are
\* IBV_PORT_ACTIVE.
Device == [wanted : BOOLEAN, active : Seq(BOOLEAN)]

ASSUME VerbsSetupAssumption ==
    /\ MaxSockets \in Nat /\ MaxPort \in Nat
    /\ Workers \cap Nat = {}
    /\ \A list \in DeviceLists : /\ list \in Seq(Device)
                                 /\ \A d \in DOMAIN list : Len(list[d].active) <= MaxPort

VARIABLES
    devices,   \* what ibv_get_device_list found
    device,    \* index of the device in use, 0 before there is one
    port,      \* ib_physical_port
    srq,       \* the shared receive queue exists
    boot,      \* what the constructor of Infiniband does next
    channel,   \* channel[o], cq[o]: the ibv objects of o, a worker (tx) or a
    cq,        \*   socket (rx)
    armed,     \* objects whose completion queue was armed
    qp,        \* qp[k]: the queue pair of socket k
    txcq,      \* txcq[k]: the worker whose tx_cq it uses, 0 before there is one
    ready,     \* sockets whose constructor has returned
    started,   \* workers that have run initialize()
    nsock,     \* constructors entered so far
    pc,        \* pc[w]: what the thread of w does next
    obj,       \* obj[w]: the object it is setting up
    crash      \* how the process ended, "no" while it runs

bootVars == <<devices, device, port, srq, boot>>
cqVars   == <<channel, cq, armed>>
vars     == <<bootVars, cqVars, qp, txcq, ready, started, nsock, pc, obj, crash>>

SocketIds == 1 .. MaxSockets
Objects   == Workers \cup SocketIds

\* Life of a verbs object; a queue pair is in RESET when it is made.
Life     == {"none", "live", "gone"}
QpStates == {"none", "RESET", "INIT"}

CrashWay == {"no", "assert", "wild_pointer", "null_context", "null_srq", "null_channel",
             "null_cq", "null_qp", "double_destroy"}

-----------------------------------------------------------------------------
Init ==
    /\ devices \in DeviceLists
    /\ device = 0 /\ port = 0
    /\ srq = FALSE
    /\ boot = "device"
    /\ channel = [o \in Objects |-> "none"]
    /\ cq = [o \in Objects |-> "none"]
    /\ armed = {}
    /\ qp = [k \in SocketIds |-> "none"]
    /\ txcq = [k \in SocketIds |-> 0]
    /\ ready = {} /\ started = {}
    /\ nsock = 0
    /\ pc = [w \in Workers |-> "start"]
    /\ obj = [w \in Workers |-> w]
    /\ crash = "no"

Crash(way) == /\ crash' = way
              /\ UNCHANGED <<bootVars, cqVars, qp, txcq, ready, started, nsock, pc, obj>>

Goto(w, l) == pc' = [pc EXCEPT ![w] = l]

\* init() destroyed the handle and failed; the factory deletes the object, whose
\* destructor finds the pointer still set and destroys the handle again.
DeleteDestroyed == Crash("double_destroy")

-----------------------------------------------------------------------------
(* The constructor of Infiniband, before there are worker threads.          *)

ActivePorts(d) == {k \in DOMAIN devices[d].active : devices[d].active[k]}

\* The ports whose state reads IBV_PORT_ACTIVE to the constructor of Device.  The
\* results of ibv_query_device and ibv_query_port are at most logged, and the
\* attributes they should fill are not initialised: when one of them fails, any
\* port may be there and look active.
PortsSeen == {ActivePorts(1)} \cup SUBSET (1 .. MaxPort)

\* ib_physical_port is read through active_port.
UsePort(p) ==
    /\ device' = 1
    /\ port' = p
    /\ boot' = "resources"
    /\ UNCHANGED <<devices, srq, cqVars, qp, txcq, ready, started, nsock, pc, obj, crash>>

\* DeviceList opens every device; for one that ibv_open_device refuses it logs the
\* failure and looks into the NULL context.  get_device steps through memory from
\* the first device on: only that one can be found.  The constructor of Device
\* keeps the last port that looks active; without one, active_port is not
\* initialised, and following it yields any number or ends the process.
GetDevice ==
    /\ boot = "device" /\ crash = "no"
    /\ \/ devices # <<>> /\ Crash("null_context")
       \/ /\ devices # <<>> /\ devices[1].wanted
          /\ \E seen \in PortsSeen :
                \/ \E p \in 0 .. MaxPort : /\ seen # {} => p \in seen /\ \A j \in seen : j <= p
                                           /\ UsePort(p)
                \/ seen = {} /\ Crash("wild_pointer")
       \/ /\ devices # <<>> => ~devices[1].wanted
          /\ Crash("wild_pointer")

\* ProtectionDomain, set_nonblocking of the async fd and register_rx_tx assert
\* that each of their calls succeeds.
Resources ==
    /\ boot = "resources" /\ crash = "no"
    /\ \/ Crash("assert")
       \/ /\ boot' = "srq"
          /\ UNCHANGED <<devices, device, port, srq, cqVars, qp, txcq, ready, started, nsock,
                         pc, obj, crash>>

\* create_shared_receive_queue; post_channel_cluster posts to it unchecked.
CreateSrq ==
    /\ boot = "srq" /\ crash = "no"
    /\ \/ Crash("null_srq")
       \/ /\ srq' = TRUE
          /\ boot' = "done"
          /\ UNCHANGED <<devices, device, port, cqVars, qp, txcq, ready, started, nsock,
                         pc, obj, crash>>

-----------------------------------------------------------------------------
(* What a worker thread does.                                               *)

\* RDMAWorker::initialize.
Initialize(w) ==
    /\ boot = "done" /\ crash = "no"
    /\ pc[w] = "start"
    /\ Goto(w, "cc")
    /\ UNCHANGED <<bootVars, cqVars, qp, txcq, ready, started, nsock, obj, crash>>

\* The constructor of RDMAConnectedSocketImpl.  The stack hands out no sockets
\* before all its workers are initialised (external: NetworkStack::start).
NewSocket(w) ==
    /\ crash = "no"
    /\ started = Workers
    /\ pc[w] = "idle"
    /\ nsock < MaxSockets
    /\ nsock' = nsock + 1
    /\ obj' = [obj EXCEPT ![w] = nsock + 1]
    /\ Goto(w, "cc")
    /\ UNCHANGED <<bootVars, cqVars, qp, txcq, ready, started, crash>>

\* The thread is in initialize(), not in the constructor of a socket.
IsTx(w) == obj[w] = w

\* CompletionChannel::init, ibv_create_comp_channel.  When it fails the factory
\* returns NULL: initialize() hands it to create_comp_queue, which looks into it,
\* and create_queue_pair returns NULL, which the socket's constructor looks into.
CreateChannel(w) ==
    /\ crash = "no" /\ pc[w] = "cc"
    /\ \/ /\ channel' = [channel EXCEPT ![obj[w]] = "live"]
          /\ Goto(w, "nonblock")
          /\ UNCHANGED <<bootVars, cq, armed, qp, txcq, ready, started, nsock, obj, crash>>
       \/ Crash(IF IsTx(w) THEN "null_channel" ELSE "null_qp")

\* set_nonblocking of the channel.  When it fails init() destroys the channel,
\* and the destructor, which the factory calls, destroys it again.
SetNonblocking(w) ==
    /\ crash = "no" /\ pc[w] = "nonblock"
    /\ \/ /\ Goto(w, "cq")
          /\ UNCHANGED <<bootVars, cqVars, qp, txcq, ready, started, nsock, obj, crash>>
       \/ DeleteDestroyed

\* CompletionQueue::init, ibv_create_cq.  When it fails initialize() goes on with
\* a NULL tx_cq; create_queue_pair destroys the channel, goes on as well, and
\* QueuePair::init looks into the NULL rxcq.
CreateCq(w) ==
    /\ crash = "no" /\ pc[w] = "cq"
    /\ \/ /\ cq' = [cq EXCEPT ![obj[w]] = "live"]
          /\ Goto(w, "arm")
          /\ UNCHANGED <<started, channel, crash>>
       \/ /\ IsTx(w)
          /\ Goto(w, "idle")
          /\ started' = started \cup {w}
          /\ UNCHANGED <<cq, channel, crash>>
       \/ /\ ~IsTx(w)
          /\ channel' = [channel EXCEPT ![obj[w]] = "gone"]
          /\ crash' = "null_cq"
          /\ UNCHANGED <<cq, started, pc>>
    /\ UNCHANGED <<bootVars, armed, qp, txcq, ready, nsock, obj>>

\* CompletionQueue::init, ibv_req_notify_cq; a failure ends as in SetNonblocking.
ArmCq(w) ==
    /\ crash = "no" /\ pc[w] = "arm"
    /\ \/ /\ armed' = armed \cup {obj[w]}
          /\ Goto(w, IF IsTx(w) THEN "idle" ELSE "qp")
          /\ started' = IF IsTx(w) THEN started \cup {w} ELSE started
          /\ UNCHANGED <<bootVars, channel, cq, qp, txcq, ready, nsock, obj, crash>>
       \/ DeleteDestroyed

\* A worker whose tx_cq is NULL crashes the socket that is given it.
HasCqMutant(v) == TRUE
HasCq(v) == cq[v] = "live"

\* The QueuePair is given the transmit queue of worker v, which get_worker chose,
\* and QueuePair::init creates it; a failure returns NULL.

CreateQp(w, v) ==
    /\ crash = "no" /\ pc[w] = "qp"
    /\ \/ /\ HasCq(v)
          /\ qp' = [qp EXCEPT ![obj[w]] = "RESET"]
          /\ txcq' = [txcq EXCEPT ![obj[w]] = v]
          /\ Goto(w, "init")
          /\ UNCHANGED <<bootVars, cqVars, ready, started, nsock, obj, crash>>
       \/ HasCq(v) /\ Crash("null_qp")
       \/ ~HasCq(v) /\ Crash("null_cq")

\* QueuePair::init, the change to INIT.  A failure destroys the queue pair, and the
\* destructor destroys it again.
ModifyToInit(w) ==
    /\ crash = "no" /\ pc[w] = "init"
    /\ \/ /\ qp' = [qp EXCEPT ![obj[w]] = "INIT"]
          /\ ready' = ready \cup {obj[w]}
          /\ Goto(w, "idle")
          /\ UNCHANGED <<bootVars, cqVars, txcq, started, nsock, obj, crash>>
       \/ DeleteDestroyed

Crashed == crash # "no" /\ UNCHANGED vars

Next ==
    \/ GetDevice \/ Resources \/ CreateSrq
    \/ \E w \in Workers :
          \/ Initialize(w) \/ NewSocket(w)
          \/ CreateChannel(w) \/ SetNonblocking(w) \/ CreateCq(w) \/ ArmCq(w)
          \/ \E v \in Workers : CreateQp(w, v)
          \/ ModifyToInit(w)
    \/ Crashed

Spec == Init /\ [][Next]_vars

-----------------------------------------------------------------------------
(* Properties.                                                              *)

\* Types of the state.
TypeOK ==
    /\ devices \in DeviceLists
    /\ device \in 0 .. Len(devices) /\ port \in 0 .. MaxPort
    /\ srq \in BOOLEAN
    /\ boot \in {"device", "resources", "srq", "done"}
    /\ channel \in [Objects -> Life] /\ cq \in [Objects -> Life]
    /\ armed \subseteq Objects
    /\ qp \in [SocketIds -> QpStates]
    /\ txcq \in [SocketIds -> Workers \cup {0}]
    /\ ready \subseteq SocketIds /\ started \subseteq Workers
    /\ nsock \in 0 .. MaxSockets
    /\ pc \in [Workers -> {"start", "cc", "nonblock", "cq", "arm", "qp", "init", "idle"}]
    /\ obj \in [Workers -> Objects]
    /\ crash \in CrashWay

\* A socket that was constructed is complete, whatever failed around it and
\* however its construction interleaved with that of others: its queue pair is in
\* INIT, its channel and its receive queue exist, and both its queues are armed,
\* so that their first completion wakes a worker.
SocketsComplete ==
    \A k \in ready :
        /\ qp[k] = "INIT"
        /\ channel[k] = "live" /\ cq[k] = "live" /\ k \in armed
        /\ txcq[k] \in armed /\ cq[txcq[k]] = "live" /\ channel[txcq[k]] = "live"


\* The asserts of the destructors hold (Infiniband.cc:325, 331, 338): no handle is
\* destroyed a second time.
DestroyedOnce == crash # "double_destroy"
=============================================================================
