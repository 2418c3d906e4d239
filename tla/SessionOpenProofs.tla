------------------------- MODULE SessionOpenProofs --------------------------
(***************************************************************************)
(* Theorems about SessionOpen, for every number of clients and messages:   *)
(* the server is connected before a client can send, door() gives each end *)
(* the keys of its peer, a client that receives first loses no message,    *)
(* and an idle session has nothing left in its queues.                     *)
(***************************************************************************)
EXTENDS SessionOpen, SequenceTheorems, FiniteSetTheorems, TLAPS

-----------------------------------------------------------------------------
(* The inductive invariant.                                                 *)

\* Places of a session before init(), and from init() on.
PreDoor == {"create", "listen", "accept", "connect", "udp", "write", "read", "done",
            "rtr", "rts"}
AtDoor  == {"init", "d_send", "d_wait", "d_recv", "d_parse", "open", "o_wait"}

\* What EndTypes leaves out: the contents of the queues.
Contents ==
    /\ backlog \in Seq(Clients)
    /\ toServer \in [Clients -> Seq(Clients \cup {"done"})]
    /\ toClient \in [Clients -> Seq({Server})]
    /\ wire \in [Ends -> Seq(Ends \cup {"data"})]
    /\ scq \in [Ends -> Seq({"ok", "err"})]
    /\ rcq \in [Ends -> Seq(Ends \cup {"data", "err"})]
    /\ swallowed \in [Ends -> Nat]
    /\ flag[Server]

\* The server learns of one client, connects to it, and only then writes.
ServerExchange ==
    /\ pc[Server] \notin {"connect", "udp"}
    /\ remote[Server] \in Clients \cup {None}
    /\ pc[Server] \in {"create", "listen", "accept", "read"} => remote[Server] = None
    /\ pc[Server] \in {"create", "listen", "accept", "read", "rtr", "rts", "write"} =>
          \A c \in Clients : toClient[c] = <<>> /\ remote[c] = None
    /\ pc[Server] \notin {"create", "listen", "accept", "gone"} => served \in Clients
    /\ pc[Server] \notin {"create", "listen", "accept", "read", "gone"} => remote[Server] = served

\* A client learns of the server from what a connected server wrote to it; and
\* while it waits for that, the server waits as well.
ClientExchange(c) ==
    /\ pc[c] \notin {"listen", "accept", "done"}
    /\ toClient[c] \in {<<>>, <<Server>>} /\ remote[c] \in {None, Server}
    /\ toClient[c] # <<>> \/ remote[c] # None =>
          remote[Server] = c /\ qp[Server] \in {"RTS", "ERR"}
    /\ pc[c] \in {"create", "connect", "udp", "write", "read"} => remote[c] = None
    /\ pc[c] \in {"rtr", "rts"} \cup AtDoor => remote[c] = Server
    /\ toServer[c] \in {<<>>, <<c>>, <<"done">>, <<c, "done">>}
    /\ remote[c] = None => toServer[c] \in {<<>>, <<c>>}
    /\ pc[c] \in {"create", "connect", "udp", "write"} =>
          toServer[c] = <<>> /\ remote[Server] # c
    /\ pc[c] = "read" /\ remote[Server] = c =>
          /\ toServer[c] = <<>> /\ wire[Server] = <<>>
          /\ pc[Server] \in {"rtr", "rts", "write", "done", "gone"}

\* The queue pair of p.
QpUp(p) ==
    /\ pc[p] \in AtDoor \/ (p = Server /\ pc[p] \in {"write", "done"}) => qp[p] \in {"RTS", "ERR"}
    /\ qp[p] = "ERR" => p \in broken
    /\ wire[p] # <<>> => qp[p] = "RTS"
    /\ qp[p] \in {"RTR", "RTS", "ERR"} => remote[p] \in Ends
    /\ pc[p] \in PreDoor \cup {"init"} => wire[p] = <<>> /\ listed[p] = None

\* What p sent, what it received, and what it knows of its peer's slices.
Door(p) ==
    /\ \A i \in DOMAIN wire[p] : /\ wire[p][i] \in Ends => wire[p][i] = p
                                 /\ wire[p][i] = "data" => listed[p] # None
    /\ \A i \in DOMAIN rcq[p] : /\ rcq[p][i] \in Ends => rcq[p][i] = remote[p]
                                /\ rcq[p][i] = "data" => listed[remote[p]] # None
                                /\ rcq[p][i] = "err" => p \in broken
    /\ rcq[p] # <<>> => remote[p] \in Ends
    /\ pc[p] = "d_recv" \/ (flag[p] /\ pc[p] \in {"d_send", "d_wait"}) => listed[p] = None
    /\ pc[p] \in {"d_parse", "open", "o_wait"} \/ (~flag[p] /\ pc[p] \in {"d_send", "d_wait"}) =>
          listed[p] # None

\* q has not sent its list; q has.
NotYet(q)  == \/ pc[q] \in PreDoor \cup {"init", "d_send"}
              \/ pc[q] \in {"d_recv", "d_parse"} /\ ~flag[q]
ListOut(q) == \/ pc[q] \in {"d_wait", "open", "o_wait"}
              \/ pc[q] \in {"d_recv", "d_parse"} /\ flag[q]

\* The list is the first thing p receives from q.
ListFirst(p, q) ==
    /\ NotYet(q) => wire[q] = <<>> /\ rcq[p] = <<>> /\ listed[p] = None
    /\ ListOut(q) /\ listed[p] = None => rcq[p] # <<>> \/ wire[q] # <<>>
    /\ listed[p] = None /\ rcq[p] # <<>> => rcq[p][1] = q
    /\ listed[p] = None /\ rcq[p] = <<>> /\ wire[q] # <<>> => wire[q][1] = q

Lists == \A p \in Ends : Sound(p) /\ remote[p] \in Ends => ListFirst(p, remote[p])

\* Nothing waits in the queues of a session that awaits nothing.
Drained ==
    \A p \in Ends \ broken :
        pc[p] \notin {"d_wait", "o_wait", "gone"} => wire[p] = <<>> /\ scq[p] = <<>>

\* The entry door() trusts is the peer's list, unless an adapter failed.
ListedIsPeer ==
    \A p \in Ends :
        /\ listed[p] \in Ends => listed[p] = remote[p]
        /\ listed[p] = Junk => ~Sound(p)

OpenInv ==
    /\ EndTypes /\ Contents
    /\ ServerExchange
    /\ \A c \in Clients : ClientExchange(c)
    /\ \A p \in Ends : QpUp(p) /\ Door(p)
    /\ Lists
    /\ Drained
    /\ ListedIsPeer
    /\ ClientLosesNothing

-----------------------------------------------------------------------------
(* Facts about the state.                                                   *)

LEMMA StateTypes ==
    ASSUME OpenInv
    PROVE  /\ pc \in [Ends -> Labels] /\ qp \in [Ends -> {"none", "INIT", "RTR", "RTS", "ERR"}]
           /\ remote \in [Ends -> Ends \cup {None}]
           /\ listed \in [Ends -> Ends \cup {None, Junk}]
           /\ toServer \in [Clients -> Seq(Clients \cup {"done"})]
           /\ toClient \in [Clients -> Seq({Server})]
           /\ wire \in [Ends -> Seq(Ends \cup {"data"})]
           /\ scq \in [Ends -> Seq({"ok", "err"})]
           /\ rcq \in [Ends -> Seq(Ends \cup {"data", "err"})]
           /\ swallowed \in [Ends -> Nat]
           /\ broken \subseteq Ends
  BY DEF OpenInv, EndTypes, Contents

LEMMA ConstantFacts ==
    /\ Server \in Ends /\ Clients \subseteq Ends
    /\ \A c \in Clients : c # Server /\ c # None
    /\ \A p \in Ends : p # None /\ p # Junk /\ p # "data" /\ p # "err"
    /\ \A p \in Ends : p # Server => p \in Clients
    /\ None \notin Ends /\ Junk \notin Ends /\ Junk # None
  BY SessionOpenAssumption DEF Ends

\* The number of messages in a receive queue.
LEMMA DataCount ==
    ASSUME NEW S, NEW s \in Seq(S)
    PROVE  /\ Data(s) \in Nat
           /\ (\A i \in DOMAIN s : s[i] # "data") => Data(s) = 0
<1> DEFINE D == {i \in DOMAIN s : s[i] = "data"}
<1>1. DOMAIN s = 1 .. Len(s) /\ Len(s) \in Nat
  BY LenProperties
<1>2. IsFiniteSet(1 .. Len(s)) /\ D \in SUBSET (1 .. Len(s))
  BY <1>1, FS_Interval
<1>3. Cardinality(D) \in Nat
  BY <1>2, FS_Subset, FS_CardinalityType
<1>4. (\A i \in DOMAIN s : s[i] # "data") => D = {}
  OBVIOUS
<1> HIDE DEF D
<1>5. D = {} => Cardinality(D) = 0
  BY FS_EmptySet
<1>6. Data(s) = Cardinality(D)
  BY DEF Data, D
<1> QED  BY <1>3, <1>4, <1>5, <1>6

LEMMA InitOpenInv == Init => OpenInv
<1> SUFFICES ASSUME Init PROVE OpenInv
  OBVIOUS
<1>1. EndTypes
  <2>1. /\ pc \in [Ends -> Labels] /\ flag \in [Ends -> BOOLEAN]
        /\ qp \in [Ends -> {"none", "INIT", "RTR", "RTS", "ERR"}]
        /\ remote \in [Ends -> Ends \cup {None}] /\ listed \in [Ends -> Ends \cup {None, Junk}]
    BY DEF Init, Labels
  <2>2. sent \in [Ends -> Nat]
    BY SessionOpenAssumption DEF Init
  <2>3. \A c \in Clients : Len(toServer[c]) <= 2 /\ Len(toClient[c]) <= 1
    BY DEF Init
  <2>4. \A p \in Ends : Len(wire[p]) + Len(scq[p]) <= 1
    BY DEF Init
  <2>5. \A i \in DOMAIN backlog : backlog[i] \in Clients
    BY DEF Init
  <2> QED  BY <2>1, <2>2, <2>3, <2>4, <2>5 DEF Init, EndTypes
<1>2. Contents
  BY ConstantFacts DEF Init, Contents
<1>3. ServerExchange
  BY ConstantFacts DEF Init, ServerExchange
<1>4. \A c \in Clients : ClientExchange(c)
  BY ConstantFacts DEF Init, ClientExchange, AtDoor
<1>5. \A p \in Ends : QpUp(p) /\ Door(p)
  BY DEF Init, QpUp, Door, AtDoor
<1>6. Lists /\ Drained
  BY ConstantFacts DEF Init, Lists, Drained
<1>7. ListedIsPeer /\ ClientLosesNothing
  BY ConstantFacts DEF Init, ListedIsPeer, ClientLosesNothing, Ends
<1> QED  BY <1>1, <1>2, <1>3, <1>4, <1>5, <1>6, <1>7 DEF OpenInv

-----------------------------------------------------------------------------
(* Steps that leave the queues of the adapters and the polled list alone.   *)

\* Process p goes to l.
Quiet(p, l) ==
    /\ pc' = [pc EXCEPT ![p] = l]
    /\ \/ l = "gone"
       \/ pc[p] \in PreDoor /\ l \in PreDoor \cup {"init"}
       \/ pc[p] = "init" /\ l = FirstStep(p)
    /\ UNCHANGED <<flag, wire, scq, rcq, listed, swallowed>>
    /\ broken \subseteq broken' /\ broken' \subseteq Ends

LEMMA QuietDoor ==
    ASSUME OpenInv, NEW p \in Ends, NEW l, Quiet(p, l),
           remote' \in [Ends -> Ends \cup {None}],
           \A r \in Ends : \/ remote'[r] = remote[r]
                           \/ /\ r = p /\ remote[p] = None /\ pc[p] \in PreDoor
                              /\ Sound(p)' /\ remote'[p] \in Ends => ListFirst(p, remote[p])'
    PROVE  /\ \A r \in Ends : Door(r)'
           /\ Lists' /\ Drained' /\ ListedIsPeer' /\ ClientLosesNothing'
<1>0. /\ pc \in [Ends -> Labels] /\ remote \in [Ends -> Ends \cup {None}]
      /\ broken \subseteq Ends
  BY StateTypes
<1>1. /\ pc'[p] = l /\ \A r \in Ends : r # p => pc'[r] = pc[r]
      /\ UNCHANGED <<flag, wire, scq, rcq, listed, swallowed>>
      /\ broken \subseteq broken'
  BY <1>0 DEF Quiet
<1>2. ASSUME NEW r \in Ends PROVE Door(r)'
  <2>1. Door(r)
    BY DEF OpenInv
  <2>2. rcq[r] # <<>> => remote'[r] = remote[r]
    BY <2>1, ConstantFacts DEF Door
  <2>3. \A i \in DOMAIN wire'[r] : /\ wire'[r][i] \in Ends => wire'[r][i] = r
                                   /\ wire'[r][i] = "data" => listed'[r] # None
    BY <1>1, <2>1 DEF Door
  <2>4. \A i \in DOMAIN rcq'[r] : /\ rcq'[r][i] \in Ends => rcq'[r][i] = remote'[r]
                                  /\ rcq'[r][i] = "data" => listed'[remote'[r]] # None
                                  /\ rcq'[r][i] = "err" => r \in broken'
    <3>1. CASE rcq[r] = <<>>
      BY <1>1, <3>1
    <3>2. CASE rcq[r] # <<>>
      BY <1>1, <2>1, <2>2, <3>2 DEF Door
    <3> QED  BY <3>1, <3>2
  <2>5. rcq'[r] # <<>> => remote'[r] \in Ends
    BY <1>1, <2>1, <2>2 DEF Door
  <2>6. /\ pc'[r] = "d_recv" \/ (flag'[r] /\ pc'[r] \in {"d_send", "d_wait"}) => listed'[r] = None
        /\ pc'[r] \in {"d_parse", "open", "o_wait"} \/ (~flag'[r] /\ pc'[r] \in {"d_send", "d_wait"}) =>
              listed'[r] # None
    <3>1. CASE r = p
      <4>1. l \in {"d_send", "d_recv", "d_wait", "d_parse", "open", "o_wait"} =>
               pc[p] = "init" /\ l = FirstStep(p)
        BY DEF Quiet, PreDoor
      <4>2. pc[p] = "init" => listed[p] = None
        BY DEF OpenInv, QpUp
      <4> QED  BY <1>1, <3>1, <4>1, <4>2 DEF FirstStep
    <3>2. CASE r # p
      BY <1>1, <2>1, <3>2 DEF Door
    <3> QED  BY <3>1, <3>2
  <2> QED  BY <2>3, <2>4, <2>5, <2>6 DEF Door
<1>3. \A r \in Ends : Sound(r)' => Sound(r)
  <2> SUFFICES ASSUME NEW r \in Ends, Sound(r)' PROVE Sound(r)
    OBVIOUS
  <2>1. remote'[r] = remote[r] \/ remote[r] = None
    OBVIOUS
  <2> QED  BY <1>0, <1>1, <2>1, ConstantFacts DEF Sound
<1>4. Lists'
  <2> SUFFICES ASSUME NEW r \in Ends, Sound(r)', remote'[r] \in Ends,
                      remote'[r] = remote[r]
               PROVE  ListFirst(r, remote[r])'
    BY DEF Lists
  <2> DEFINE q == remote[r]
  <2>1. ListFirst(r, q) /\ q \in Ends
    BY <1>3 DEF OpenInv, Lists
  <2>2. /\ NotYet(q)' => NotYet(q)
        /\ ListOut(q)' => ListOut(q)
    <3>1. CASE q = p
      BY <1>1, <2>1, <3>1 DEF NotYet, ListOut, Quiet, PreDoor, FirstStep
    <3>2. CASE q # p
      BY <1>1, <2>1, <3>2 DEF NotYet, ListOut
    <3> QED  BY <3>1, <3>2
  <2> QED  BY <1>1, <2>1, <2>2 DEF ListFirst
<1>5. Drained'
  <2> SUFFICES ASSUME NEW r \in Ends \ broken', pc'[r] \notin {"d_wait", "o_wait", "gone"}
               PROVE  wire'[r] = <<>> /\ scq'[r] = <<>>
    BY DEF Drained
  <2>1. pc[r] \notin {"d_wait", "o_wait", "gone"}
    BY <1>1 DEF Quiet, PreDoor
  <2> QED  BY <1>1, <2>1 DEF OpenInv, Drained
<1>6. ListedIsPeer'
  <2> SUFFICES ASSUME NEW r \in Ends
               PROVE  /\ listed'[r] \in Ends => listed'[r] = remote'[r]
                      /\ listed'[r] = Junk => ~Sound(r)'
    BY DEF ListedIsPeer
  <2>1. r = p /\ pc[p] \in PreDoor => listed[r] = None
    BY DEF OpenInv, QpUp
  <2>2. remote'[r] = remote[r] \/ listed[r] = None
    BY <2>1
  <2> QED  BY <1>1, <1>3, <2>2, ConstantFacts DEF OpenInv, ListedIsPeer
<1>7. ClientLosesNothing'
  BY <1>1, <1>3, ConstantFacts DEF OpenInv, ClientLosesNothing
<1> QED  BY <1>2, <1>4, <1>5, <1>6, <1>7

\* A process dies where it is.
LEMMA GoneInv ==
    ASSUME OpenInv, NEW p \in Ends, pc' = [pc EXCEPT ![p] = "gone"],
           UNCHANGED <<flag, tcpVars, qpVars, cqVars, appVars, broken>>
    PROVE  OpenInv'
<1>0. /\ pc \in [Ends -> Labels] /\ remote \in [Ends -> Ends \cup {None}]
      /\ broken \subseteq Ends
  BY StateTypes
<1>1. /\ UNCHANGED <<flag, backlog, served, toServer, toClient, qp, remote, ready, wire, scq, rcq,
                     listed, sent, swallowed, broken>>
      /\ pc'[p] = "gone" /\ \A r \in Ends : r # p => pc'[r] = pc[r]
      /\ pc' \in [Ends -> Labels]
  BY <1>0 DEF tcpVars, qpVars, cqVars, appVars, Labels
<1>2. EndTypes' /\ Contents'
  BY <1>1 DEF OpenInv, EndTypes, Contents
<1>3. ServerExchange'
  BY <1>1, ConstantFacts DEF OpenInv, ServerExchange
<1>4. ASSUME NEW c \in Clients PROVE ClientExchange(c)'
  <2>1. pc'[c] = pc[c] \/ pc'[c] = "gone"
    BY <1>1, ConstantFacts
  <2>2. pc'[Server] = pc[Server] \/ pc'[Server] = "gone"
    BY <1>1, ConstantFacts
  <2> QED  BY <1>1, <2>1, <2>2 DEF OpenInv, ClientExchange, AtDoor
<1>5. ASSUME NEW r \in Ends PROVE QpUp(r)'
  BY <1>1 DEF OpenInv, QpUp, AtDoor, PreDoor
<1>6. Quiet(p, "gone")
  BY <1>0, <1>1 DEF Quiet
<1>7. /\ \A r \in Ends : Door(r)'
      /\ Lists' /\ Drained' /\ ListedIsPeer' /\ ClientLosesNothing'
  BY <1>0, <1>1, <1>6, QuietDoor
<1> QED  BY <1>2, <1>3, <1>4, <1>5, <1>7 DEF OpenInv

\* The steps on the queue pair alone: it is made, or brought up.
LEMMA QpStepInv ==
    ASSUME OpenInv, NEW p \in Ends, CreateContext(p) \/ ConnectCtx(p)
    PROVE  OpenInv'
<1>0. /\ pc \in [Ends -> Labels] /\ remote \in [Ends -> Ends \cup {None}]
      /\ qp \in [Ends -> {"none", "INIT", "RTR", "RTS", "ERR"}]
      /\ broken \subseteq Ends /\ Server \in Ends
  BY StateTypes, ConstantFacts
<1>1. PICK l, s :
         /\ pc' = [pc EXCEPT ![p] = l] /\ qp' = [qp EXCEPT ![p] = s]
         /\ \/ pc[p] = "create" /\ s = "INIT" /\ l = IF p = Server THEN "listen" ELSE "connect"
            \/ pc[p] = "rtr" /\ s = "RTR" /\ l = "rts"
            \/ pc[p] = "rts" /\ s = "RTS" /\ l = IF p = Server THEN "write" ELSE "init"
  BY DEF CreateContext, ConnectCtx, Goto
<1>2. UNCHANGED <<flag, backlog, served, toServer, toClient, remote, ready, wire, scq, rcq,
                  listed, sent, swallowed, broken>>
  BY DEF CreateContext, ConnectCtx, tcpVars, cqVars, appVars
<1>3. /\ pc'[p] = l /\ qp'[p] = s
      /\ \A r \in Ends : r # p => pc'[r] = pc[r] /\ qp'[r] = qp[r]
      /\ pc' \in [Ends -> Labels]
      /\ qp' \in [Ends -> {"none", "INIT", "RTR", "RTS", "ERR"}]
  BY <1>0, <1>1 DEF Labels
<1>4. EndTypes' /\ Contents'
  BY <1>2, <1>3 DEF OpenInv, EndTypes, Contents
<1>5. ServerExchange'
  <2>1. CASE p = Server
    BY <1>1, <1>2, <1>3, <2>1 DEF OpenInv, ServerExchange
  <2>2. CASE p # Server
    BY <1>0, <1>2, <1>3, <2>2 DEF OpenInv, ServerExchange
  <2> QED  BY <2>1, <2>2
<1>6. ASSUME NEW c \in Clients PROVE ClientExchange(c)'
  <2>0. ClientExchange(c) /\ c \in Ends /\ c # Server
    BY ConstantFacts DEF OpenInv
  <2>1. CASE p = Server
    <3>1. toClient[c] = <<>> /\ remote[c] = None
      BY <1>1, <2>1 DEF OpenInv, ServerExchange
    <3>2. pc'[c] = pc[c]
      BY <1>3, <2>0, <2>1
    <3>3. pc[c] = "read" /\ remote[Server] = c => pc'[Server] \in {"rtr", "rts", "write", "done", "gone"}
      BY <1>1, <1>3, <2>0, <2>1 DEF ClientExchange
    <3> QED  BY <1>2, <2>0, <3>1, <3>2, <3>3 DEF ClientExchange
  <2>2. CASE p # Server /\ p # c
    BY <1>0, <1>2, <1>3, <2>0, <2>2 DEF ClientExchange
  <2>3. CASE p = c
    <3>1. pc'[Server] = pc[Server] /\ qp'[Server] = qp[Server] /\ pc'[c] = l
      BY <1>0, <1>3, <2>0, <2>3
    <3> QED  BY <1>1, <1>2, <2>0, <2>3, <3>1 DEF ClientExchange, AtDoor
  <2> QED  BY <2>1, <2>2, <2>3
<1>7. ASSUME NEW r \in Ends PROVE QpUp(r)'
  <2>0. QpUp(r)
    BY DEF OpenInv
  <2>1. CASE r = p
    <3>1. pc[p] \in {"rtr", "rts"} => remote[p] \in Ends
      <4>1. CASE p = Server
        BY <4>1, ConstantFacts DEF OpenInv, ServerExchange
      <4>2. CASE p # Server
        BY <4>2, ConstantFacts DEF OpenInv, ClientExchange
      <4> QED  BY <4>1, <4>2
    <3> QED  BY <1>1, <1>2, <1>3, <2>0, <2>1, <3>1 DEF QpUp, PreDoor, AtDoor
  <2>2. CASE r # p
    BY <1>2, <1>3, <2>0, <2>2 DEF QpUp
  <2> QED  BY <2>1, <2>2
<1>8. Quiet(p, l)
  BY <1>0, <1>1, <1>2 DEF Quiet, PreDoor
<1>9. /\ \A r \in Ends : Door(r)'
      /\ Lists' /\ Drained' /\ ListedIsPeer' /\ ClientLosesNothing'
  BY <1>0, <1>2, <1>8, QuietDoor
<1> QED  BY <1>4, <1>5, <1>6, <1>7, <1>9 DEF OpenInv

\* The server listens, or a client connects: over TCP, or to a UDP socket.
LEMMA ListenConnectInv ==
    ASSUME OpenInv, Listen \/ \E c \in Clients : Connect(c)
    PROVE  OpenInv'
<1>0. /\ pc \in [Ends -> Labels] /\ remote \in [Ends -> Ends \cup {None}]
      /\ broken \subseteq Ends
  BY StateTypes
<1>1. PICK p \in Ends, l \in Labels :
         /\ pc' = [pc EXCEPT ![p] = l]
         /\ \/ p = Server /\ pc[p] = "listen" /\ l = "accept"
            \/ p \in Clients /\ pc[p] = "connect" /\ l \in {"write", "udp"}
  BY ConstantFacts DEF Listen, Connect, Goto, Labels
<1>2. /\ UNCHANGED <<flag, served, toServer, toClient, qp, remote, ready, wire, scq, rcq,
                     listed, sent, swallowed, broken>>
      /\ backlog' \in Seq(Clients)
  <2>1. backlog \in Seq(Clients)
    BY DEF OpenInv, Contents
  <2> QED  BY <2>1 DEF Listen, Connect, tcpVars, qpVars, cqVars, appVars
<1>3. /\ pc'[p] = l /\ \A r \in Ends : r # p => pc'[r] = pc[r]
      /\ pc' \in [Ends -> Labels]
  BY <1>0, <1>1 DEF Labels
<1>4. EndTypes' /\ Contents'
  <2>1. \A i \in DOMAIN backlog' : backlog'[i] \in Clients
    BY <1>2
  <2> QED  BY <1>2, <1>3, <2>1 DEF OpenInv, EndTypes, Contents
<1>5. ServerExchange'
  BY <1>1, <1>2, <1>3, ConstantFacts DEF OpenInv, ServerExchange
<1>6. ASSUME NEW c \in Clients PROVE ClientExchange(c)'
  <2>0. ClientExchange(c) /\ c \in Ends /\ c # Server /\ Server \in Ends
    BY ConstantFacts DEF OpenInv
  <2>1. CASE p = Server
    BY <1>1, <1>2, <1>3, <2>0, <2>1 DEF ClientExchange
  <2>2. CASE p = c
    BY <1>1, <1>2, <1>3, <2>0, <2>2 DEF ClientExchange, AtDoor
  <2>3. CASE p # Server /\ p # c
    BY <1>2, <1>3, <2>0, <2>3 DEF ClientExchange
  <2> QED  BY <2>1, <2>2, <2>3
<1>7. ASSUME NEW r \in Ends PROVE QpUp(r)'
  BY <1>1, <1>2, <1>3, ConstantFacts DEF OpenInv, QpUp, PreDoor, AtDoor
<1>8. Quiet(p, l)
  BY <1>0, <1>1, <1>2 DEF Quiet, PreDoor
<1>9. /\ \A r \in Ends : Door(r)'
      /\ Lists' /\ Drained' /\ ListedIsPeer' /\ ClientLosesNothing'
  BY <1>0, <1>2, <1>8, QuietDoor
<1> QED  BY <1>4, <1>5, <1>6, <1>7, <1>9 DEF OpenInv

\* The sequences of the exchange.
LEMMA OneMessage ==
    ASSUME NEW x
    PROVE  /\ <<x>> # <<>> /\ Len(<<x>>) = 1 /\ Head(<<x>>) = x
           /\ Tail(<<x>>) = <<>> /\ Append(<<>>, x) = <<x>>
<1>1. <<x>> \in Seq({x}) /\ Len(<<x>>) = 1 /\ <<x>> # <<>>
  OBVIOUS
<1>2. Append(<<>>, x) = <<x>>
  OBVIOUS
<1>3. Head(Append(<<>>, x)) = x /\ Tail(Append(<<>>, x)) = <<>>
  BY HeadTailAppend, EmptySeq
<1> QED  BY <1>1, <1>2, <1>3

\* A client writes its address, which nobody has asked for yet.
LEMMA ClientWriteInv ==
    ASSUME OpenInv, NEW c \in Clients, ClientWrite(c)
    PROVE  OpenInv'
<1>0. /\ pc \in [Ends -> Labels] /\ remote \in [Ends -> Ends \cup {None}]
      /\ broken \subseteq Ends /\ c \in Ends /\ c # Server /\ Server \in Ends
      /\ toServer \in [Clients -> Seq(Clients \cup {"done"})]
  BY StateTypes, ConstantFacts
<1>1. /\ pc[c] = "write" /\ pc' = [pc EXCEPT ![c] = "read"]
      /\ toServer[c] = <<>> /\ remote[c] = None /\ remote[Server] # c
      /\ toServer' = [toServer EXCEPT ![c] = <<c>>]
  <2>1. toServer[c] = <<>> /\ remote[c] = None /\ remote[Server] # c
    BY DEF ClientWrite, OpenInv, ClientExchange
  <2>2. Append(toServer[c], c) = <<c>>
    BY <2>1, OneMessage
  <2> QED  BY <2>1, <2>2 DEF ClientWrite, Goto
<1>2. UNCHANGED <<flag, backlog, served, toClient, qp, remote, ready, wire, scq, rcq,
                  listed, sent, swallowed, broken>>
  BY DEF ClientWrite, qpVars, cqVars, appVars
<1>3. /\ pc'[c] = "read" /\ \A r \in Ends : r # c => pc'[r] = pc[r]
      /\ pc' \in [Ends -> Labels]
      /\ toServer'[c] = <<c>> /\ \A d \in Clients : d # c => toServer'[d] = toServer[d]
      /\ toServer' \in [Clients -> Seq(Clients \cup {"done"})]
  BY <1>0, <1>1 DEF Labels
<1>4. EndTypes' /\ Contents'
  <2>1. ASSUME NEW d \in Clients PROVE Len(toServer'[d]) <= 2
    <3>1. CASE d = c
      <4>1. toServer'[d] = <<c>> /\ Len(<<c>>) = 1
        BY <1>3, <3>1, OneMessage
      <4> QED  BY <4>1
    <3>2. CASE d # c
      BY <1>3, <3>2 DEF OpenInv, EndTypes
    <3> QED  BY <3>1, <3>2
  <2> QED  BY <1>2, <1>3, <2>1 DEF OpenInv, EndTypes, Contents
<1>5. ServerExchange'
  BY <1>0, <1>2, <1>3 DEF OpenInv, ServerExchange
<1>6. ASSUME NEW d \in Clients PROVE ClientExchange(d)'
  <2>0. ClientExchange(d) /\ d \in Ends /\ pc'[Server] = pc[Server]
    BY <1>0, <1>3, ConstantFacts DEF OpenInv
  <2>1. CASE d = c
    BY <1>1, <1>2, <1>3, <2>0, <2>1 DEF ClientExchange, AtDoor
  <2>2. CASE d # c
    BY <1>2, <1>3, <2>0, <2>2 DEF ClientExchange
  <2> QED  BY <2>1, <2>2
<1>7. ASSUME NEW r \in Ends PROVE QpUp(r)'
  BY <1>0, <1>1, <1>2, <1>3 DEF OpenInv, QpUp, PreDoor, AtDoor
<1>8. Quiet(c, "read")
  BY <1>0, <1>1, <1>2 DEF Quiet, PreDoor
<1>9. /\ \A r \in Ends : Door(r)'
      /\ Lists' /\ Drained' /\ ListedIsPeer' /\ ClientLosesNothing'
  BY <1>0, <1>2, <1>8, QuietDoor
<1> QED  BY <1>4, <1>5, <1>6, <1>7, <1>9 DEF OpenInv

\* The server accepts a connection.
LEMMA AcceptInv ==
    ASSUME OpenInv, Accept
    PROVE  OpenInv'
<1>0. /\ pc \in [Ends -> Labels] /\ remote \in [Ends -> Ends \cup {None}]
      /\ broken \subseteq Ends /\ Server \in Ends
  BY StateTypes, ConstantFacts
<1>1. /\ pc[Server] = "accept" /\ pc' = [pc EXCEPT ![Server] = "read"]
      /\ served' \in Clients /\ backlog' \in Seq(Clients)
  <2>1. backlog \in Seq(Clients)
    BY DEF OpenInv, Contents
  <2>2. Head(backlog) \in Clients /\ Tail(backlog) \in Seq(Clients)
    BY <2>1 DEF Accept
  <2> QED  BY <2>2 DEF Accept, Goto
<1>2. UNCHANGED <<flag, toServer, toClient, qp, remote, ready, wire, scq, rcq,
                  listed, sent, swallowed, broken>>
  BY DEF Accept, qpVars, cqVars, appVars
<1>3. /\ pc'[Server] = "read" /\ \A r \in Ends : r # Server => pc'[r] = pc[r]
      /\ pc' \in [Ends -> Labels]
  BY <1>0, <1>1 DEF Labels
<1>4. EndTypes' /\ Contents'
  <2>1. \A i \in DOMAIN backlog' : backlog'[i] \in Clients
    BY <1>1
  <2> QED  BY <1>1, <1>2, <1>3, <2>1 DEF OpenInv, EndTypes, Contents
<1>5. ServerExchange'
  BY <1>1, <1>2, <1>3 DEF OpenInv, ServerExchange
<1>6. ASSUME NEW d \in Clients PROVE ClientExchange(d)'
  <2>0. ClientExchange(d) /\ d \in Ends /\ pc'[d] = pc[d]
    BY <1>0, <1>3, ConstantFacts DEF OpenInv
  <2> QED  BY <1>1, <1>2, <1>3, <2>0 DEF ClientExchange
<1>7. ASSUME NEW r \in Ends PROVE QpUp(r)'
  BY <1>0, <1>1, <1>2, <1>3 DEF OpenInv, QpUp, PreDoor, AtDoor
<1>8. Quiet(Server, "read")
  BY <1>0, <1>1, <1>2 DEF Quiet, PreDoor
<1>9. /\ \A r \in Ends : Door(r)'
      /\ Lists' /\ Drained' /\ ListedIsPeer' /\ ClientLosesNothing'
  BY <1>0, <1>2, <1>8, QuietDoor
<1> QED  BY <1>4, <1>5, <1>6, <1>7, <1>9 DEF OpenInv

\* The server reads the address of its client, which has sent nothing over the
\* queue pair yet.
LEMMA ServerReadInv ==
    ASSUME OpenInv, ServerRead
    PROVE  OpenInv'
<1> DEFINE c == served
<1>0. /\ pc \in [Ends -> Labels] /\ remote \in [Ends -> Ends \cup {None}]
      /\ broken \subseteq Ends /\ Server \in Ends
      /\ toServer \in [Clients -> Seq(Clients \cup {"done"})]
  BY StateTypes, ConstantFacts
<1>1. /\ pc[Server] = "read" /\ pc' = [pc EXCEPT ![Server] = "rtr"]
      /\ c \in Clients /\ c \in Ends /\ c # Server
      /\ remote[Server] = None /\ \A d \in Clients : toClient[d] = <<>> /\ remote[d] = None
      /\ toServer[c] = <<c>> /\ toServer' = [toServer EXCEPT ![c] = <<>>]
      /\ remote' = [remote EXCEPT ![Server] = c]
  <2>1. /\ pc[Server] = "read" /\ pc' = [pc EXCEPT ![Server] = "rtr"]
        /\ toServer[c] # <<>> /\ toServer' = [toServer EXCEPT ![c] = Tail(@)]
        /\ remote' = [remote EXCEPT ![Server] = Head(toServer[c])]
    BY DEF ServerRead, AfterServerRead, Goto
  <2>2. /\ c \in Clients /\ remote[Server] = None
        /\ \A d \in Clients : toClient[d] = <<>> /\ remote[d] = None
    BY <2>1 DEF OpenInv, ServerExchange
  <2>3. c \in Ends /\ c # Server
    BY <2>2, ConstantFacts
  <2>4. toServer[c] = <<c>>
    BY <2>1, <2>2 DEF OpenInv, ClientExchange
  <2>5. Head(<<c>>) = c /\ Tail(<<c>>) = <<>>
    BY OneMessage
  <2>6. toServer' = [toServer EXCEPT ![c] = <<>>]
    BY <2>1, <2>4, <2>5
  <2>7. remote' = [remote EXCEPT ![Server] = c]
    BY <2>1, <2>4, <2>5
  <2> QED  BY <2>1, <2>2, <2>3, <2>4, <2>6, <2>7
<1>2. UNCHANGED <<flag, backlog, served, toClient, qp, ready, wire, scq, rcq,
                  listed, sent, swallowed, broken>>
  BY DEF ServerRead, cqVars, appVars
<1> HIDE DEF c
<1>3. /\ pc'[Server] = "rtr" /\ \A r \in Ends : r # Server => pc'[r] = pc[r]
      /\ pc' \in [Ends -> Labels]
      /\ remote'[Server] = c /\ \A r \in Ends : r # Server => remote'[r] = remote[r]
      /\ remote' \in [Ends -> Ends \cup {None}]
      /\ toServer'[c] = <<>> /\ \A d \in Clients : d # c => toServer'[d] = toServer[d]
      /\ toServer' \in [Clients -> Seq(Clients \cup {"done"})]
  BY <1>0, <1>1 DEF Labels
<1>4. EndTypes' /\ Contents'
  <2>1. ASSUME NEW d \in Clients PROVE Len(toServer'[d]) <= 2
    <3>1. CASE d = c
      BY <1>3, <3>1, OneMessage, EmptySeq
    <3>2. CASE d # c
      BY <1>3, <3>2 DEF OpenInv, EndTypes
    <3> QED  BY <3>1, <3>2
  <2> QED  BY <1>2, <1>3, <2>1 DEF OpenInv, EndTypes, Contents
<1>5. ServerExchange'
  <2>1. \A d \in Clients : remote'[d] = None
    BY <1>1, <1>3, ConstantFacts
  <2> QED  BY <1>1, <1>2, <1>3, <2>1 DEF OpenInv, ServerExchange, c
<1>6. ASSUME NEW d \in Clients PROVE ClientExchange(d)'
  <2>0. ClientExchange(d) /\ d \in Ends /\ pc'[d] = pc[d] /\ remote'[d] = None /\ remote[d] = None
    BY <1>0, <1>1, <1>3, ConstantFacts DEF OpenInv
  <2>1. pc[c] \notin {"create", "connect", "udp", "write"}
    BY <1>1, OneMessage DEF OpenInv, ClientExchange
  <2>2. wire[Server] = <<>>
    BY <1>0, <1>1 DEF OpenInv, QpUp, PreDoor
  <2>3. toClient'[d] = <<>>
    BY <1>1, <1>2
  <2>4. CASE d = c
    BY <1>1, <1>2, <1>3, <2>0, <2>1, <2>2, <2>3, <2>4 DEF ClientExchange
  <2>5. CASE d # c
    BY <1>1, <1>2, <1>3, <2>0, <2>3, <2>5 DEF ClientExchange
  <2> QED  BY <2>4, <2>5
<1>7. ASSUME NEW r \in Ends PROVE QpUp(r)'
  <2>1. remote[r] \in Ends => remote'[r] \in Ends
    BY <1>1, <1>3
  <2> QED  BY <1>0, <1>1, <1>2, <1>3, <2>1 DEF OpenInv, QpUp, PreDoor, AtDoor
<1>8. Quiet(Server, "rtr")
  BY <1>0, <1>1, <1>2 DEF Quiet, PreDoor
<1>9. ListFirst(Server, remote[Server])'
  <2>1. rcq[Server] = <<>> /\ listed[Server] = None
    BY <1>0, <1>1, ConstantFacts DEF OpenInv, Door, QpUp, PreDoor
  <2>2. qp[c] \notin {"RTR", "RTS", "ERR"}
    BY <1>1, ConstantFacts DEF OpenInv, QpUp
  <2>3. wire[c] = <<>>
    BY <1>1, <2>2 DEF OpenInv, QpUp
  <2>4. pc[c] \notin AtDoor
    BY <1>1, ConstantFacts DEF OpenInv, ClientExchange
  <2>5. ~ListOut(remote[Server])'
    BY <1>1, <1>3, <2>4 DEF ListOut, AtDoor
  <2> QED  BY <1>2, <1>3, <2>1, <2>3, <2>5 DEF ListFirst
<1>10. /\ \A r \in Ends : Door(r)'
       /\ Lists' /\ Drained' /\ ListedIsPeer' /\ ClientLosesNothing'
  <2>1. pc[Server] \in PreDoor
    BY <1>1 DEF PreDoor
  <2> QED  BY <1>0, <1>1, <1>3, <1>8, <1>9, <2>1, QuietDoor
<1> QED  BY <1>4, <1>5, <1>6, <1>7, <1>10 DEF OpenInv

\* The server writes its address; its queue pair is up.
LEMMA ServerWriteInv ==
    ASSUME OpenInv, ServerWrite
    PROVE  OpenInv'
<1> DEFINE c == served
<1>0. /\ pc \in [Ends -> Labels] /\ remote \in [Ends -> Ends \cup {None}]
      /\ broken \subseteq Ends /\ Server \in Ends
      /\ toClient \in [Clients -> Seq({Server})]
  BY StateTypes, ConstantFacts
<1>1. /\ pc[Server] = "write" /\ pc' = [pc EXCEPT ![Server] = "done"]
      /\ c \in Clients /\ remote[Server] = c
      /\ \A d \in Clients : toClient[d] = <<>> /\ remote[d] = None
      /\ qp[Server] \in {"RTS", "ERR"}
      /\ toClient' = [toClient EXCEPT ![c] = <<Server>>]
  <2>1. /\ pc[Server] = "write" /\ pc' = [pc EXCEPT ![Server] = "done"]
        /\ toClient' = [toClient EXCEPT ![c] = Append(@, Server)]
    BY DEF ServerWrite, Goto
  <2>2. /\ c \in Clients /\ remote[Server] = c
        /\ \A d \in Clients : toClient[d] = <<>> /\ remote[d] = None
    BY <2>1 DEF OpenInv, ServerExchange
  <2>3. Append(toClient[c], Server) = <<Server>>
    BY <2>2, OneMessage
  <2>4. qp[Server] \in {"RTS", "ERR"}
    BY <1>0, <2>1 DEF OpenInv, QpUp
  <2> QED  BY <2>1, <2>2, <2>3, <2>4
<1>2. UNCHANGED <<flag, backlog, served, toServer, qp, remote, ready, wire, scq, rcq,
                  listed, sent, swallowed, broken>>
  BY DEF ServerWrite, qpVars, cqVars, appVars
<1> HIDE DEF c
<1>3. /\ pc'[Server] = "done" /\ \A r \in Ends : r # Server => pc'[r] = pc[r]
      /\ pc' \in [Ends -> Labels]
      /\ toClient'[c] = <<Server>> /\ \A d \in Clients : d # c => toClient'[d] = toClient[d]
      /\ toClient' \in [Clients -> Seq({Server})]
  BY <1>0, <1>1 DEF Labels
<1>4. EndTypes' /\ Contents'
  <2>1. ASSUME NEW d \in Clients PROVE Len(toClient'[d]) <= 1
    <3>1. CASE d = c
      <4>1. toClient'[d] = <<Server>> /\ Len(<<Server>>) = 1
        BY <1>3, <3>1, OneMessage
      <4> QED  BY <4>1
    <3>2. CASE d # c
      BY <1>3, <3>2 DEF OpenInv, EndTypes
    <3> QED  BY <3>1, <3>2
  <2> QED  BY <1>2, <1>3, <2>1 DEF OpenInv, EndTypes, Contents
<1>5. ServerExchange'
  BY <1>1, <1>2, <1>3 DEF OpenInv, ServerExchange
<1>6. ASSUME NEW d \in Clients PROVE ClientExchange(d)'
  <2>0. ClientExchange(d) /\ d \in Ends /\ pc'[d] = pc[d] /\ remote[d] = None
    BY <1>0, <1>1, <1>3, ConstantFacts DEF OpenInv
  <2>1. toClient'[d] \in {<<>>, <<Server>>} /\ (toClient'[d] # <<>> => d = c)
    BY <1>1, <1>3
  <2>2. /\ toClient'[d] # <<>> \/ remote'[d] # None =>
              remote'[Server] = d /\ qp'[Server] \in {"RTS", "ERR"}
        /\ pc'[Server] = "done"
    BY <1>1, <1>2, <1>3, <2>0, <2>1
  <2> QED  BY <1>2, <2>0, <2>1, <2>2 DEF ClientExchange
<1>7. ASSUME NEW r \in Ends PROVE QpUp(r)'
  BY <1>0, <1>1, <1>2, <1>3 DEF OpenInv, QpUp, PreDoor, AtDoor
<1>8. Quiet(Server, "done")
  BY <1>0, <1>1, <1>2 DEF Quiet, PreDoor
<1>9. /\ \A r \in Ends : Door(r)'
      /\ Lists' /\ Drained' /\ ListedIsPeer' /\ ClientLosesNothing'
  BY <1>0, <1>2, <1>8, QuietDoor
<1> QED  BY <1>4, <1>5, <1>6, <1>7, <1>9 DEF OpenInv

\* A client reads the server's address; the server has sent nothing over the queue
\* pair yet, because it waits for the client's "done".
LEMMA ClientReadInv ==
    ASSUME OpenInv, NEW c \in Clients, ClientRead(c)
    PROVE  OpenInv'
<1>0. /\ pc \in [Ends -> Labels] /\ remote \in [Ends -> Ends \cup {None}]
      /\ broken \subseteq Ends /\ Server \in Ends /\ c \in Ends /\ c # Server
      /\ toClient \in [Clients -> Seq({Server})]
      /\ toServer \in [Clients -> Seq(Clients \cup {"done"})]
  BY StateTypes, ConstantFacts
<1>1. /\ pc[c] = "read" /\ pc' = [pc EXCEPT ![c] = "rtr"]
      /\ toClient[c] # <<>>
      /\ remote' = [remote EXCEPT ![c] = Head(toClient[c])]
      /\ toClient' = [toClient EXCEPT ![c] = Tail(@)]
      /\ toServer' = [toServer EXCEPT ![c] = Append(@, "done")]
  BY DEF ClientRead, Goto
<1>2. UNCHANGED <<flag, backlog, served, qp, ready, wire, scq, rcq,
                  listed, sent, swallowed, broken>>
  BY DEF ClientRead, cqVars, appVars
<1>3. /\ toClient[c] = <<Server>> /\ remote[c] = None
      /\ remote[Server] = c /\ qp[Server] \in {"RTS", "ERR"}
      /\ toServer[c] = <<>> /\ wire[Server] = <<>>
      /\ pc[Server] \in {"rtr", "rts", "write", "done", "gone"}
  BY <1>1 DEF OpenInv, ClientExchange
<1>4. pc[Server] \in {"done", "gone"}
  BY <1>1, <1>3 DEF OpenInv, ServerExchange
<1>5. /\ Head(toClient[c]) = Server /\ Tail(toClient[c]) = <<>>
      /\ Append(toServer[c], "done") = <<"done">>
  BY <1>3, OneMessage
<1>6. /\ pc'[c] = "rtr" /\ \A r \in Ends : r # c => pc'[r] = pc[r]
      /\ pc' \in [Ends -> Labels]
      /\ remote'[c] = Server /\ \A r \in Ends : r # c => remote'[r] = remote[r]
      /\ remote' \in [Ends -> Ends \cup {None}]
      /\ toClient'[c] = <<>> /\ toServer'[c] = <<"done">>
      /\ \A d \in Clients : d # c => toClient'[d] = toClient[d] /\ toServer'[d] = toServer[d]
  BY <1>0, <1>1, <1>5 DEF Labels
<1>7. /\ toClient' \in [Clients -> Seq({Server})]
      /\ toServer' \in [Clients -> Seq(Clients \cup {"done"})]
  BY <1>0, <1>1, <1>5
<1>8. EndTypes' /\ Contents'
  <2>1. ASSUME NEW d \in Clients PROVE Len(toServer'[d]) <= 2 /\ Len(toClient'[d]) <= 1
    <3>1. CASE d = c
      <4>1. toServer'[d] = <<"done">> /\ Len(<<"done">>) = 1
        BY <1>6, <3>1, OneMessage
      <4>2. toClient'[d] = <<>> /\ Len(<<>>) = 0
        BY <1>6, <3>1, EmptySeq
      <4> QED  BY <4>1, <4>2
    <3>2. CASE d # c
      BY <1>6, <3>2 DEF OpenInv, EndTypes
    <3> QED  BY <3>1, <3>2
  <2> QED  BY <1>2, <1>6, <1>7, <2>1 DEF OpenInv, EndTypes, Contents
<1>9. ServerExchange'
  BY <1>0, <1>2, <1>4, <1>6 DEF OpenInv, ServerExchange
<1>10. ASSUME NEW d \in Clients PROVE ClientExchange(d)'
  <2>0. /\ ClientExchange(d) /\ d \in Ends
        /\ pc'[Server] = pc[Server] /\ remote'[Server] = remote[Server]
    BY <1>0, <1>6, ConstantFacts DEF OpenInv
  <2>1. CASE d = c
    <3>1. /\ pc'[d] = "rtr" /\ toClient'[d] = <<>> /\ remote'[d] = Server /\ Server # None
          /\ toServer'[d] = <<"done">>
      BY <1>0, <1>6, <2>1, ConstantFacts
    <3>2. remote'[Server] = d /\ qp'[Server] \in {"RTS", "ERR"}
      BY <1>2, <1>3, <2>0, <2>1
    <3> QED  BY <3>1, <3>2 DEF ClientExchange
  <2>2. CASE d # c
    BY <1>2, <1>6, <2>0, <2>2 DEF ClientExchange
  <2> QED  BY <2>1, <2>2
<1>11. ASSUME NEW r \in Ends PROVE QpUp(r)'
  <2>1. remote[r] \in Ends => remote'[r] \in Ends
    BY <1>0, <1>6
  <2> QED  BY <1>0, <1>1, <1>2, <1>6, <2>1 DEF OpenInv, QpUp, PreDoor, AtDoor
<1>12. Quiet(c, "rtr")
  BY <1>0, <1>1, <1>2 DEF Quiet, PreDoor
<1>13. ListFirst(c, remote[c])'
  <2>1. rcq[c] = <<>> /\ listed[c] = None
    BY <1>0, <1>1, <1>3, ConstantFacts DEF OpenInv, Door, QpUp, PreDoor
  <2>2. ~ListOut(remote[c])'
    BY <1>0, <1>4, <1>6 DEF ListOut
  <2> QED  BY <1>2, <1>3, <1>6, <2>1, <2>2 DEF ListFirst
<1>14. /\ \A r \in Ends : Door(r)'
       /\ Lists' /\ Drained' /\ ListedIsPeer' /\ ClientLosesNothing'
  <2>1. pc[c] \in PreDoor
    BY <1>1 DEF PreDoor
  <2> QED  BY <1>0, <1>3, <1>6, <1>12, <1>13, <2>1, QuietDoor
<1> QED  BY <1>8, <1>9, <1>10, <1>11, <1>14 DEF OpenInv

\* The server has heard from its client again, or the client is gone.
LEMMA ServerDoneInv ==
    ASSUME OpenInv, ServerDone
    PROVE  OpenInv'
<1> DEFINE c == served
<1>0. /\ pc \in [Ends -> Labels] /\ remote \in [Ends -> Ends \cup {None}]
      /\ broken \subseteq Ends /\ Server \in Ends
      /\ toServer \in [Clients -> Seq(Clients \cup {"done"})]
  BY StateTypes, ConstantFacts
<1>1. /\ pc[Server] = "done" /\ pc' = [pc EXCEPT ![Server] = "init"]
      /\ toServer[c] # <<>> \/ pc[c] = "gone"
      /\ toServer' = [toServer EXCEPT ![c] = <<>>]
  BY DEF ServerDone, Goto, Gone
<1>2. UNCHANGED <<flag, backlog, served, toClient, qp, remote, ready, wire, scq, rcq,
                  listed, sent, swallowed, broken>>
  BY DEF ServerDone, qpVars, cqVars, appVars
<1>3. c \in Clients /\ remote[Server] = c
  BY <1>1 DEF OpenInv, ServerExchange
<1> HIDE DEF c
<1>4. pc[c] \notin {"create", "connect", "udp", "write", "read"}
  BY <1>1, <1>3 DEF OpenInv, ClientExchange
<1>5. /\ pc'[Server] = "init" /\ \A r \in Ends : r # Server => pc'[r] = pc[r]
      /\ pc' \in [Ends -> Labels]
      /\ toServer'[c] = <<>> /\ \A d \in Clients : d # c => toServer'[d] = toServer[d]
      /\ toServer' \in [Clients -> Seq(Clients \cup {"done"})]
  BY <1>0, <1>1, <1>3 DEF Labels
<1>6. EndTypes' /\ Contents'
  <2>1. ASSUME NEW d \in Clients PROVE Len(toServer'[d]) <= 2
    <3>1. CASE d = c
      BY <1>5, <3>1, EmptySeq
    <3>2. CASE d # c
      BY <1>5, <3>2 DEF OpenInv, EndTypes
    <3> QED  BY <3>1, <3>2
  <2> QED  BY <1>2, <1>5, <2>1 DEF OpenInv, EndTypes, Contents
<1>7. ServerExchange'
  BY <1>1, <1>2, <1>5 DEF OpenInv, ServerExchange
<1>8. ASSUME NEW d \in Clients PROVE ClientExchange(d)'
  <2>0. ClientExchange(d) /\ d \in Ends /\ pc'[d] = pc[d]
    BY <1>0, <1>5, ConstantFacts DEF OpenInv
  <2>1. CASE d = c
    BY <1>2, <1>3, <1>4, <1>5, <2>0, <2>1 DEF ClientExchange
  <2>2. CASE d # c
    BY <1>2, <1>3, <1>5, <2>0, <2>2 DEF ClientExchange
  <2> QED  BY <2>1, <2>2
<1>9. ASSUME NEW r \in Ends PROVE QpUp(r)'
  BY <1>0, <1>1, <1>2, <1>5 DEF OpenInv, QpUp, PreDoor, AtDoor
<1>10. Quiet(Server, "init")
  BY <1>0, <1>1, <1>2 DEF Quiet, PreDoor
<1>11. /\ \A r \in Ends : Door(r)'
       /\ Lists' /\ Drained' /\ ListedIsPeer' /\ ClientLosesNothing'
  BY <1>0, <1>2, <1>10, QuietDoor
<1> QED  BY <1>6, <1>7, <1>8, <1>9, <1>11 DEF OpenInv

-----------------------------------------------------------------------------
(* Steps from init() on.                                                    *)

\* A step of the session or the adapter of p that changes nothing of the others'.
Local(p) ==
    /\ UNCHANGED <<flag, backlog, served, toServer, toClient, remote>>
    /\ \/ pc' = pc
       \/ pc[p] \in AtDoor /\ \E l \in AtDoor : pc' = [pc EXCEPT ![p] = l]
    /\ qp' = qp \/ (qp[p] = "RTS" /\ qp' = [qp EXCEPT ![p] = "ERR"])
    /\ \A r \in Ends : r # p => /\ wire'[r] = wire[r] /\ scq'[r] = scq[r] /\ rcq'[r] = rcq[r]
                                /\ listed'[r] = listed[r] /\ swallowed'[r] = swallowed[r]
    /\ wire'[p] = wire[p] \/ pc[p] \in AtDoor \/ wire[p] # <<>>
    /\ listed[p] # None => listed'[p] # None
    /\ broken \subseteq broken' /\ broken' \subseteq Ends

\* It does not disturb the exchange of addresses, which is over for p.
LEMMA LocalExchange ==
    ASSUME OpenInv, NEW p \in Ends, Local(p)
    PROVE  ServerExchange' /\ \A c \in Clients : ClientExchange(c)'
<1>0. /\ pc \in [Ends -> Labels] /\ qp \in [Ends -> {"none", "INIT", "RTR", "RTS", "ERR"}]
      /\ Server \in Ends
  BY StateTypes, ConstantFacts
<1>1. /\ \A r \in Ends : pc'[r] = pc[r] \/ (pc[r] \in AtDoor /\ pc'[r] \in AtDoor)
      /\ qp'[Server] = qp[Server] \/ (qp[Server] = "RTS" /\ qp'[Server] = "ERR")
      /\ wire'[Server] = wire[Server] \/ pc[Server] \in AtDoor \/ wire[Server] # <<>>
      /\ UNCHANGED <<served, toServer, toClient, remote>>
  BY <1>0 DEF Local
<1>2. ServerExchange'
  <2>1. pc'[Server] = pc[Server] \/ (pc[Server] \in AtDoor /\ pc'[Server] \in AtDoor)
    BY <1>0, <1>1
  <2> QED  BY <1>1, <2>1 DEF OpenInv, ServerExchange, AtDoor
<1>3. ASSUME NEW c \in Clients PROVE ClientExchange(c)'
  <2>0. ClientExchange(c) /\ c \in Ends
    BY ConstantFacts DEF OpenInv
  <2>1. pc'[c] = pc[c] \/ (pc[c] \in AtDoor /\ pc'[c] \in AtDoor)
    BY <1>1, <2>0
  <2>2. pc[c] = "read" /\ remote[Server] = c =>
           pc'[Server] = pc[Server] /\ wire'[Server] = wire[Server]
    BY <1>0, <1>1, <2>0 DEF ClientExchange, AtDoor
  <2>3. pc'[c] \in AtDoor => pc[c] \in AtDoor
    BY <2>1
  <2>4. pc[c] \notin AtDoor => pc'[c] = pc[c]
    BY <2>1
  <2>5. pc[c] \in AtDoor => remote[c] = Server
    BY <2>0 DEF ClientExchange
  <2>6. CASE pc[c] \in AtDoor
    <3>1. pc'[c] \in AtDoor
      BY <2>1, <2>6
    <3> QED  BY <1>1, <2>0, <2>5, <2>6, <3>1 DEF ClientExchange, AtDoor
  <2>7. CASE pc[c] \notin AtDoor
    BY <1>1, <2>0, <2>2, <2>4, <2>7 DEF ClientExchange
  <2> QED  BY <2>6, <2>7
<1> QED  BY <1>2, <1>3

\* What remains to be shown of such a step is about p, and about its peer's and its
\* own list as long as neither is broken.
LEMMA LocalInv ==
    ASSUME OpenInv, NEW p \in Ends, Local(p), EndTypes', Contents', QpUp(p)', Door(p)',
           p \notin broken' /\ pc'[p] \notin {"d_wait", "o_wait", "gone"} =>
              wire'[p] = <<>> /\ scq'[p] = <<>>,
           listed'[p] \in Ends => listed'[p] = remote[p],
           listed'[p] = Junk => listed[p] = Junk \/ ~Sound(p)',
           p \in Clients /\ ~flag[p] /\ Sound(p)' => swallowed'[p] = swallowed[p],
           p \notin broken' /\ Sound(p)' /\ remote[p] \in Ends => ListFirst(p, remote[p])',
           \A r \in Ends : p \notin broken' /\ Sound(r)' /\ remote[r] = p => ListFirst(r, remote[r])'
    PROVE  OpenInv'
<1>0. /\ pc \in [Ends -> Labels] /\ qp \in [Ends -> {"none", "INIT", "RTR", "RTS", "ERR"}]
      /\ remote \in [Ends -> Ends \cup {None}]
  BY StateTypes
<1>1. /\ UNCHANGED <<flag, remote>> /\ broken \subseteq broken'
      /\ listed[p] # None => listed'[p] # None
      /\ \A r \in Ends : r # p => /\ pc'[r] = pc[r] /\ qp'[r] = qp[r]
                                  /\ wire'[r] = wire[r] /\ scq'[r] = scq[r] /\ rcq'[r] = rcq[r]
                                  /\ listed'[r] = listed[r] /\ swallowed'[r] = swallowed[r]
  BY <1>0 DEF Local
<1>2. \A r \in Ends : /\ Sound(r)' => Sound(r)
                      /\ Sound(r)' /\ (r = p \/ remote[r] = p) => p \notin broken'
                      /\ listed[r] # None => listed'[r] # None
  BY <1>1 DEF Sound
<1>3. ASSUME NEW r \in Ends PROVE QpUp(r)' /\ Door(r)'
  <2>1. CASE r = p
    BY <2>1
  <2>2. CASE r # p
    <3>0. QpUp(r) /\ Door(r)
      BY DEF OpenInv
    <3>1. QpUp(r)'
      BY <1>1, <2>2, <3>0 DEF QpUp
    <3>2. rcq[r] # <<>> => remote[r] \in Ends
      BY <3>0 DEF Door
    <3>3. \A i \in DOMAIN rcq'[r] : /\ rcq'[r][i] \in Ends => rcq'[r][i] = remote'[r]
                                    /\ rcq'[r][i] = "data" => listed'[remote'[r]] # None
                                    /\ rcq'[r][i] = "err" => r \in broken'
      <4>1. CASE rcq[r] = <<>>
        BY <1>1, <2>2, <4>1
      <4>2. CASE rcq[r] # <<>>
        <5>1. remote[r] \in Ends
          BY <3>2, <4>2
        <5>2. listed[remote[r]] # None => listed'[remote[r]] # None
          BY <1>2, <5>1
        <5> QED  BY <1>1, <2>2, <3>0, <5>2 DEF Door
      <4> QED  BY <4>1, <4>2
    <3>4. Door(r)'
      BY <1>1, <2>2, <3>0, <3>3 DEF Door
    <3> QED  BY <3>1, <3>4
  <2> QED  BY <2>1, <2>2
<1>4. Lists'
  <2> SUFFICES ASSUME NEW r \in Ends, Sound(r)', remote'[r] \in Ends
               PROVE  ListFirst(r, remote[r])'
    BY DEF Lists
  <2>1. CASE r = p
    BY <1>1, <1>2, <2>1
  <2>2. CASE remote[r] = p
    BY <1>2, <2>2
  <2>3. CASE r # p /\ remote[r] # p
    <3>1. ListFirst(r, remote[r]) /\ remote[r] \in Ends
      BY <1>1, <1>2 DEF OpenInv, Lists
    <3> QED  BY <1>1, <2>3, <3>1 DEF ListFirst, NotYet, ListOut
  <2> QED  BY <2>1, <2>2, <2>3
<1>5. Drained'
  <2> SUFFICES ASSUME NEW r \in Ends \ broken', pc'[r] \notin {"d_wait", "o_wait", "gone"}
               PROVE  wire'[r] = <<>> /\ scq'[r] = <<>>
    BY DEF Drained
  <2>1. CASE r = p
    BY <2>1
  <2>2. CASE r # p
    BY <1>1, <2>2 DEF OpenInv, Drained
  <2> QED  BY <2>1, <2>2
<1>6. ListedIsPeer'
  <2> SUFFICES ASSUME NEW r \in Ends
               PROVE  /\ listed'[r] \in Ends => listed'[r] = remote'[r]
                      /\ listed'[r] = Junk => ~Sound(r)'
    BY DEF ListedIsPeer
  <2>0. /\ listed[r] \in Ends => listed[r] = remote[r]
        /\ listed[r] = Junk => ~Sound(r)
    BY DEF OpenInv, ListedIsPeer
  <2>1. CASE r = p
    BY <1>1, <1>2, <2>0, <2>1
  <2>2. CASE r # p
    BY <1>1, <1>2, <2>0, <2>2
  <2> QED  BY <2>1, <2>2
<1>7. ClientLosesNothing'
  <2> SUFFICES ASSUME NEW c \in Clients, ~flag'[c], Sound(c)' PROVE swallowed'[c] = 0
    BY DEF ClientLosesNothing
  <2>1. c \in Ends /\ swallowed[c] = 0
    BY <1>1, <1>2, ConstantFacts DEF OpenInv, ClientLosesNothing
  <2> QED  BY <1>1, <2>1
<1> QED  BY <1>3, <1>4, <1>5, <1>6, <1>7, LocalExchange DEF OpenInv

\* The receives are posted, or not all of them.
LEMMA PostRecvInv ==
    ASSUME OpenInv, NEW p \in Ends, PostRecv(p)
    PROVE  OpenInv'
<1>0. /\ pc \in [Ends -> Labels] /\ remote \in [Ends -> Ends \cup {None}]
      /\ broken \subseteq Ends /\ ready \subseteq Ends
  BY StateTypes DEF OpenInv, EndTypes
<1>1. CASE Goto(p, "gone") /\ UNCHANGED <<ready, broken>>
  BY <1>1, GoneInv DEF PostRecv, Goto, qpVars
<1>2. CASE /\ Goto(p, FirstStep(p))
           /\ ready' \subseteq ready \cup {p} /\ broken \subseteq broken'
           /\ broken' \subseteq broken \cup {p}
  <2>1. /\ pc[p] = "init" /\ pc' = [pc EXCEPT ![p] = FirstStep(p)]
        /\ UNCHANGED <<flag, backlog, served, toServer, toClient, qp, remote, wire, scq, rcq,
                       listed, sent, swallowed>>
        /\ ready' \subseteq Ends /\ broken \subseteq broken' /\ broken' \subseteq Ends
    BY <1>0, <1>2 DEF PostRecv, Goto, tcpVars, cqVars, appVars
  <2>2. FirstStep(p) \in {"d_send", "d_recv"}
    BY DEF FirstStep
  <2>3. /\ pc'[p] = FirstStep(p) /\ \A r \in Ends : r # p => pc'[r] = pc[r]
        /\ pc' \in [Ends -> Labels]
    BY <1>0, <2>1, <2>2 DEF Labels
  <2>4. EndTypes' /\ Contents'
    BY <2>1, <2>3 DEF OpenInv, EndTypes, Contents
  <2>5. Local(p)
    BY <2>1, <2>2 DEF Local, AtDoor
  <2>6. ServerExchange' /\ \A c \in Clients : ClientExchange(c)'
    BY <2>5, LocalExchange
  <2>7. ASSUME NEW r \in Ends PROVE QpUp(r)'
    <3>0. QpUp(r)
      BY DEF OpenInv
    <3>1. CASE r = p
      BY <2>1, <2>2, <2>3, <3>0, <3>1 DEF QpUp, PreDoor, AtDoor
    <3>2. CASE r # p
      BY <2>1, <2>3, <3>0, <3>2 DEF QpUp
    <3> QED  BY <3>1, <3>2
  <2>8. Quiet(p, FirstStep(p))
    BY <2>1 DEF Quiet
  <2>9. /\ \A r \in Ends : Door(r)'
        /\ Lists' /\ Drained' /\ ListedIsPeer' /\ ClientLosesNothing'
    BY <1>0, <2>1, <2>8, QuietDoor
  <2> QED  BY <2>4, <2>6, <2>7, <2>9 DEF OpenInv
<1> QED  BY <1>1, <1>2 DEF PostRecv, Break

-----------------------------------------------------------------------------
(* Facts the remaining steps share.                                         *)

\* No end is connected to itself, and an end that names p is the one p names.
LEMMA Peers ==
    ASSUME OpenInv, NEW p \in Ends
    PROVE  /\ remote[p] # p
           /\ \A r \in Ends : remote[r] = p /\ remote[p] \in Ends => r = remote[p]
<1>1. \A c \in Clients : /\ remote[c] \in {None, Server}
                         /\ remote[c] # None => remote[Server] = c
  BY DEF OpenInv, ClientExchange
<1>2. remote[Server] \in Clients \cup {None}
  BY DEF OpenInv, ServerExchange
<1> QED  BY <1>1, <1>2, ConstantFacts

\* An unbroken end has one message unacknowledged or one completion to reap.
LEMMA OneOutstanding ==
    ASSUME OpenInv, NEW p \in Ends, p \notin broken
    PROVE  /\ scq[p] # <<>> => wire[p] = <<>>
           /\ wire[p] # <<>> => scq[p] = <<>>
<1>1. wire[p] \in Seq(Ends \cup {"data"}) /\ scq[p] \in Seq({"ok", "err"})
  BY StateTypes
<1>2. Len(wire[p]) \in Nat /\ Len(scq[p]) \in Nat /\ Len(wire[p]) + Len(scq[p]) <= 1
  BY <1>1, LenProperties DEF OpenInv, EndTypes
<1>3. (wire[p] # <<>> => Len(wire[p]) # 0) /\ (scq[p] # <<>> => Len(scq[p]) # 0)
  BY <1>1, EmptySeq
<1>4. \A m, n \in Nat : m + n <= 1 => m = 0 \/ n = 0
  OBVIOUS
<1>5. Len(wire[p]) = 0 \/ Len(scq[p]) = 0
  BY <1>2, <1>4
<1> QED  BY <1>3, <1>5

\* The types after a local step.
LEMMA LocalTypes ==
    ASSUME OpenInv, NEW p \in Ends, Local(p), ready' = ready,
           sent' \in [Ends -> Nat],
           listed' \in [Ends -> Ends \cup {None, Junk}],
           wire' \in [Ends -> Seq(Ends \cup {"data"})],
           scq' \in [Ends -> Seq({"ok", "err"})],
           rcq' \in [Ends -> Seq(Ends \cup {"data", "err"})],
           swallowed' \in [Ends -> Nat],
           p \notin broken' => Len(wire'[p]) + Len(scq'[p]) <= 1
    PROVE  EndTypes' /\ Contents'
<1>0. /\ pc \in [Ends -> Labels] /\ qp \in [Ends -> {"none", "INIT", "RTR", "RTS", "ERR"}]
  BY StateTypes
<1>1. /\ pc' \in [Ends -> Labels] /\ qp' \in [Ends -> {"none", "INIT", "RTR", "RTS", "ERR"}]
  <2>1. AtDoor \subseteq Labels
    BY DEF AtDoor, Labels
  <2>2. pc' \in [Ends -> Labels]
    BY <1>0, <2>1 DEF Local
  <2>3. qp' \in [Ends -> {"none", "INIT", "RTR", "RTS", "ERR"}]
    BY <1>0 DEF Local
  <2> QED  BY <2>2, <2>3
<1>2. /\ UNCHANGED <<flag, backlog, served, toServer, toClient, remote>>
      /\ broken \subseteq broken' /\ broken' \subseteq Ends
      /\ \A r \in Ends : r # p => wire'[r] = wire[r] /\ scq'[r] = scq[r]
  BY DEF Local
<1>3. ASSUME NEW r \in Ends \ broken' PROVE Len(wire'[r]) + Len(scq'[r]) <= 1
  <2>1. CASE r = p
    BY <2>1
  <2>2. CASE r # p
    BY <1>2, <2>2 DEF OpenInv, EndTypes
  <2> QED  BY <2>1, <2>2
<1>4. EndTypes'
  BY <1>1, <1>2, <1>3 DEF OpenInv, EndTypes
<1>5. Contents'
  BY <1>2 DEF OpenInv, Contents
<1> QED  BY <1>4, <1>5

\* What p receives is as before when its queue and what it polled are.
LEMMA PeerListKept ==
    ASSUME OpenInv, NEW p \in Ends, Local(p), rcq'[p] = rcq[p], listed'[p] = listed[p],
           Sound(p)', remote[p] \in Ends
    PROVE  ListFirst(p, remote[p])'
<1>1. remote[p] # p
  BY Peers
<1>2. pc \in [Ends -> Labels]
  BY StateTypes
<1>3. /\ UNCHANGED <<flag, remote>> /\ wire'[remote[p]] = wire[remote[p]]
      /\ pc'[remote[p]] = pc[remote[p]] /\ broken \subseteq broken'
  BY <1>1, <1>2 DEF Local
<1>4. ListFirst(p, remote[p])
  BY <1>3 DEF OpenInv, Lists, Sound
<1> QED  BY <1>3, <1>4 DEF ListFirst, NotYet, ListOut

\* What p sends is as before when it has not posted its list just now.
LEMMA OwnListKept ==
    ASSUME OpenInv, NEW p \in Ends, Local(p), wire'[p] = wire[p],
           NotYet(p)' => NotYet(p), ListOut(p)' => ListOut(p),
           NEW r \in Ends, Sound(r)', remote[r] = p
    PROVE  ListFirst(r, remote[r])'
<1>1. r # p
  BY Peers
<1>3. /\ UNCHANGED <<flag, remote>> /\ rcq'[r] = rcq[r] /\ listed'[r] = listed[r]
      /\ broken \subseteq broken'
  BY <1>1 DEF Local
<1>4. ListFirst(r, p)
  BY <1>3 DEF OpenInv, Lists, Sound
<1>5. /\ NotYet(remote[r])' => NotYet(p)
      /\ ListOut(remote[r])' => ListOut(p)
      /\ wire'[remote'[r]] = wire[p]
  BY <1>3 DEF NotYet, ListOut
<1> QED  BY <1>3, <1>4, <1>5 DEF ListFirst

\* A message m joins the requests of p.
LEMMA PostedWire ==
    ASSUME OpenInv, NEW p \in Ends, NEW m \in Ends \cup {"data"},
           wire' = [wire EXCEPT ![p] = Append(@, m)]
    PROVE  /\ wire' \in [Ends -> Seq(Ends \cup {"data"})]
           /\ \A r \in Ends : r # p => wire'[r] = wire[r]
           /\ wire'[p] # <<>>
           /\ \A i \in DOMAIN wire'[p] : wire'[p][i] = m \/ (i \in DOMAIN wire[p] /\ wire'[p][i] = wire[p][i])
           /\ wire[p] = <<>> => wire'[p] = <<m>> /\ Len(wire'[p]) = 1
<1>1. wire \in [Ends -> Seq(Ends \cup {"data"})] /\ wire[p] \in Seq(Ends \cup {"data"})
  BY StateTypes
<1>2. /\ Append(wire[p], m) \in Seq(Ends \cup {"data"})
      /\ Append(wire[p], m) # <<>>
      /\ \A i \in 1 .. Len(wire[p]) : Append(wire[p], m)[i] = wire[p][i]
      /\ Append(wire[p], m)[Len(wire[p]) + 1] = m
      /\ DOMAIN Append(wire[p], m) = 1 .. Len(wire[p]) + 1
      /\ DOMAIN wire[p] = 1 .. Len(wire[p]) /\ Len(wire[p]) \in Nat
  BY <1>1, AppendProperties, LenProperties
<1>3. wire'[p] = Append(wire[p], m)
  BY <1>1
<1>4. \A i \in DOMAIN wire'[p] : i \in 1 .. Len(wire[p]) \/ i = Len(wire[p]) + 1
  BY <1>2, <1>3
<1>5. wire[p] = <<>> => wire'[p] = <<m>> /\ Len(wire'[p]) = 1
  BY <1>3, OneMessage
<1> QED  BY <1>1, <1>2, <1>3, <1>4, <1>5

\* start_rw posts the list, which the peer receives before anything else.
LEMMA StartRwInv ==
    ASSUME OpenInv, NEW p \in Ends, StartRw(p)
    PROVE  OpenInv'
<1>0. /\ pc \in [Ends -> Labels] /\ remote \in [Ends -> Ends \cup {None}]
      /\ listed \in [Ends -> Ends \cup {None, Junk}]
      /\ wire \in [Ends -> Seq(Ends \cup {"data"})]
      /\ scq \in [Ends -> Seq({"ok", "err"})]
      /\ rcq \in [Ends -> Seq(Ends \cup {"data", "err"})]
      /\ swallowed \in [Ends -> Nat] /\ sent \in [Ends -> Nat]
      /\ broken \subseteq Ends /\ QpUp(p) /\ Door(p) /\ p # "data"
  BY StateTypes, ConstantFacts DEF OpenInv, EndTypes
<1>1. CASE Goto(p, "gone") /\ UNCHANGED <<wire, scq, broken>>
  BY <1>1, GoneInv DEF StartRw, Goto, cqVars
<1>2. CASE Goto(p, "d_wait") /\ ~(Goto(p, "gone") /\ UNCHANGED <<wire, scq, broken>>)
  <2>1. /\ pc[p] = "d_send" /\ pc' = [pc EXCEPT ![p] = "d_wait"]
        /\ UNCHANGED <<flag, backlog, served, toServer, toClient, qp, remote, ready, rcq,
                       listed, sent, swallowed>>
    BY <1>2 DEF StartRw, Goto, tcpVars, qpVars, appVars
  <2>2. /\ pc'[p] = "d_wait" /\ \A r \in Ends : r # p => pc'[r] = pc[r]
        /\ qp[p] \in {"RTS", "ERR"}
    BY <1>0, <2>1 DEF QpUp, AtDoor
  <2>3. CASE qp[p] = "RTS" /\ Post(p, p) /\ UNCHANGED broken
    <3>1. /\ wire' = [wire EXCEPT ![p] = Append(@, p)]
          /\ scq' = scq /\ broken' = broken
      BY <1>0, <2>3 DEF Post
    <3>2. /\ wire' \in [Ends -> Seq(Ends \cup {"data"})]
          /\ \A r \in Ends : r # p => wire'[r] = wire[r]
          /\ wire'[p] # <<>>
          /\ \A i \in DOMAIN wire'[p] : wire'[p][i] = p \/ (i \in DOMAIN wire[p] /\ wire'[p][i] = wire[p][i])
          /\ wire[p] = <<>> => wire'[p] = <<p>> /\ Len(wire'[p]) = 1
      BY <3>1, PostedWire
    <3>3. p \notin broken' => wire[p] = <<>> /\ scq[p] = <<>>
      BY <2>1, <3>1 DEF OpenInv, Drained
    <3>4. Local(p)
      BY <1>0, <2>1, <3>1, <3>2 DEF Local, AtDoor
    <3>5. EndTypes' /\ Contents'
      <4>1. p \notin broken' => Len(wire'[p]) + Len(scq'[p]) <= 1
        <5> SUFFICES ASSUME p \notin broken' PROVE Len(wire'[p]) + Len(scq'[p]) <= 1
          OBVIOUS
        <5>1. Len(wire'[p]) = 1 /\ Len(scq'[p]) = 0
          BY <3>1, <3>2, <3>3, EmptySeq
        <5> QED  BY <5>1
      <4> QED  BY <1>0, <2>1, <3>1, <3>2, <3>4, <4>1, LocalTypes
    <3>6. QpUp(p)'
      BY <1>0, <2>1, <2>2, <2>3 DEF QpUp, PreDoor, AtDoor
    <3>7. Door(p)'
      BY <1>0, <2>1, <2>2, <3>1, <3>2 DEF Door
    <3>8. ASSUME NEW r \in Ends, p \notin broken', Sound(r)', remote[r] = p
          PROVE  ListFirst(r, remote[r])'
      <4>1. NotYet(p) /\ ListFirst(r, p)
        BY <2>1, <3>1, <3>8 DEF NotYet, OpenInv, Lists, Sound
      <4>2. rcq'[r] = <<>> /\ ~NotYet(remote[r])' /\ wire'[remote'[r]] = <<p>>
        BY <2>1, <2>2, <3>2, <3>3, <3>8, <4>1 DEF ListFirst, NotYet, PreDoor
      <4>3. <<p>> # <<>> /\ <<p>>[1] = p
        OBVIOUS
      <4> QED  BY <2>1, <3>8, <4>2, <4>3 DEF ListFirst
    <3>9. Sound(p)' /\ remote[p] \in Ends => ListFirst(p, remote[p])'
      BY <2>1, <3>4, PeerListKept
    <3> QED  BY <2>1, <2>2, <3>4, <3>5, <3>6, <3>7, <3>8, <3>9, LocalInv DEF OpenInv, ListedIsPeer
  <2>4. CASE ~(qp[p] = "RTS" /\ Post(p, p) /\ UNCHANGED broken)
    <3>1. \/ Post(p, p) /\ qp[p] = "ERR" /\ broken' = broken
          \/ Break(p) /\ UNCHANGED <<wire, scq>>
      BY <1>2, <2>2, <2>4 DEF StartRw
    <3>2. /\ p \in broken' /\ broken \subseteq broken' /\ broken' \subseteq Ends
          /\ wire' = wire
          /\ scq' = scq \/ scq' = [scq EXCEPT ![p] = Append(@, "err")]
      BY <1>0, <3>1 DEF Post, Break, QpUp
    <3>3. /\ scq' \in [Ends -> Seq({"ok", "err"})]
          /\ \A r \in Ends : r # p => scq'[r] = scq[r]
      <4>1. Append(scq[p], "err") \in Seq({"ok", "err"})
        BY <1>0, AppendProperties
      <4> QED  BY <1>0, <3>2, <4>1
    <3>4. Local(p)
      BY <1>0, <2>1, <3>2, <3>3 DEF Local, AtDoor
    <3>5. EndTypes' /\ Contents'
      BY <1>0, <2>1, <3>2, <3>3, <3>4, LocalTypes
    <3>6. QpUp(p)'
      BY <1>0, <2>1, <2>2, <3>2 DEF QpUp, PreDoor, AtDoor
    <3>7. Door(p)'
      BY <1>0, <2>1, <2>2, <3>2 DEF Door
    <3> QED  BY <2>1, <2>2, <3>2, <3>4, <3>5, <3>6, <3>7, LocalInv DEF OpenInv, ListedIsPeer
  <2> QED  BY <2>3, <2>4
<1> QED  BY <1>1, <1>2 DEF StartRw, AfterPostList

\* The completion is reaped, by start_rw or by latency(): of an unbroken end it was
\* the only one, and that of its only message.
LEMMA QuerySendInv ==
    ASSUME OpenInv, NEW p \in Ends, StartRwDone(p) \/ LatencyDone(p)
    PROVE  OpenInv'
<1>0. /\ pc \in [Ends -> Labels] /\ remote \in [Ends -> Ends \cup {None}]
      /\ listed \in [Ends -> Ends \cup {None, Junk}]
      /\ wire \in [Ends -> Seq(Ends \cup {"data"})]
      /\ scq \in [Ends -> Seq({"ok", "err"})]
      /\ rcq \in [Ends -> Seq(Ends \cup {"data", "err"})]
      /\ swallowed \in [Ends -> Nat] /\ sent \in [Ends -> Nat]
      /\ broken \subseteq Ends /\ QpUp(p) /\ Door(p)
  BY StateTypes DEF OpenInv, EndTypes
<1>1. /\ QuerySendCq(p)
      /\ UNCHANGED <<flag, backlog, served, toServer, toClient, qp, remote, ready, wire, rcq,
                     listed, sent, swallowed>>
  BY DEF StartRwDone, LatencyDone, tcpVars, qpVars, appVars
<1>2. PICK l : /\ pc' = [pc EXCEPT ![p] = l]
               /\ \/ pc[p] = "d_wait" /\ l = AfterList(p)
                  \/ pc[p] = "o_wait" /\ l = "open"
  BY DEF StartRwDone, LatencyDone, Goto
<1>3. l \in {"d_recv", "open"} /\ l \in AtDoor /\ pc[p] \in AtDoor
  BY <1>2 DEF AfterList, AtDoor
<1>4. pc'[p] = l /\ \A r \in Ends : r # p => pc'[r] = pc[r]
  BY <1>0, <1>2
<1>5. /\ broken \subseteq broken' /\ broken' \subseteq Ends
      /\ \A r \in Ends : r # p => scq'[r] = scq[r]
      /\ scq' \in [Ends -> Seq({"ok", "err"})]
      /\ p \notin broken' => scq[p] # <<>> /\ scq'[p] = <<>>
  <2>1. CASE scq[p] # <<>> /\ scq' = [scq EXCEPT ![p] = <<>>] /\ broken' = broken
    BY <1>0, <2>1
  <2>2. CASE broken' = broken \cup {p} /\ scq' = scq
    BY <1>0, <2>2
  <2> QED  BY <1>1, <2>1, <2>2 DEF QuerySendCq, Break
<1>6. p \notin broken' => wire'[p] = <<>> /\ scq'[p] = <<>>
  BY <1>1, <1>5, OneOutstanding
<1>7. Local(p)
  BY <1>1, <1>2, <1>3, <1>5 DEF Local
<1>8. EndTypes' /\ Contents'
  <2>1. p \notin broken' => Len(wire'[p]) + Len(scq'[p]) <= 1
    <3> SUFFICES ASSUME p \notin broken' PROVE Len(wire'[p]) + Len(scq'[p]) <= 1
      OBVIOUS
    <3>1. Len(wire'[p]) = 0 /\ Len(scq'[p]) = 0
      BY <1>6, EmptySeq
    <3> QED  BY <3>1
  <2> QED  BY <1>0, <1>1, <1>5, <1>7, <2>1, LocalTypes
<1>9. QpUp(p)'
  BY <1>0, <1>1, <1>3, <1>4, <1>5 DEF QpUp, PreDoor, AtDoor
<1>10. Door(p)'
  BY <1>0, <1>1, <1>2, <1>4, <1>5 DEF Door, AfterList
<1>11. Sound(p)' /\ remote[p] \in Ends => ListFirst(p, remote[p])'
  BY <1>1, <1>7, PeerListKept
<1>12. ASSUME NEW r \in Ends, Sound(r)', remote[r] = p PROVE ListFirst(r, remote[r])'
  <2>1. ~NotYet(p)' /\ (ListOut(p)' => ListOut(p))
    BY <1>1, <1>2, <1>4 DEF NotYet, ListOut, AfterList, PreDoor
  <2> QED  BY <1>1, <1>7, <1>12, <2>1, OwnListKept
<1> QED  BY <1>1, <1>6, <1>7, <1>8, <1>9, <1>10, <1>11, <1>12, LocalInv DEF OpenInv, ListedIsPeer

\* door() trusts the first entry it polled: the peer's list.  Behind it a
\* client that receives first finds no message, because the server, which has not
\* its list yet, is not open.
LEMMA QueryDoorInv ==
    ASSUME OpenInv, NEW p \in Ends, QueryDoor(p)
    PROVE  OpenInv'
<1>0. /\ pc \in [Ends -> Labels] /\ remote \in [Ends -> Ends \cup {None}]
      /\ listed \in [Ends -> Ends \cup {None, Junk}]
      /\ wire \in [Ends -> Seq(Ends \cup {"data"})]
      /\ scq \in [Ends -> Seq({"ok", "err"})]
      /\ rcq \in [Ends -> Seq(Ends \cup {"data", "err"})]
      /\ swallowed \in [Ends -> Nat] /\ sent \in [Ends -> Nat]
      /\ broken \subseteq Ends /\ QpUp(p) /\ Door(p) /\ remote[p] # p
  BY StateTypes, Peers DEF OpenInv, EndTypes
<1>1. /\ pc[p] = "d_recv" /\ pc' = [pc EXCEPT ![p] = "d_parse"]
      /\ UNCHANGED <<flag, backlog, served, toServer, toClient, qp, remote, ready, wire, scq, sent>>
  BY DEF QueryDoor, Goto, tcpVars, qpVars
<1>2. listed[p] = None
  BY <1>0, <1>1 DEF Door
<1>3. pc'[p] = "d_parse" /\ \A r \in Ends : r # p => pc'[r] = pc[r]
  BY <1>0, <1>1
<1>4. p \notin broken => wire[p] = <<>> /\ scq[p] = <<>>
  BY <1>1 DEF OpenInv, Drained
<1>5. /\ listed'[p] # None
      /\ listed'[p] \in Ends => listed'[p] = remote[p]
      /\ listed'[p] = Junk => ~Sound(p)'
      /\ \A r \in Ends : r # p => listed'[r] = listed[r] /\ swallowed'[r] = swallowed[r] /\ rcq'[r] = rcq[r]
      /\ listed' \in [Ends -> Ends \cup {None, Junk}]
      /\ swallowed' \in [Ends -> Nat]
      /\ rcq' \in [Ends -> Seq(Ends \cup {"data", "err"})]
      /\ broken \subseteq broken' /\ broken' \subseteq Ends
      /\ p \notin broken' => rcq[p] # <<>> /\ rcq'[p] = <<>>
      /\ p \in Clients /\ ~flag[p] /\ Sound(p)' => swallowed'[p] = swallowed[p]
      /\ rcq'[p] \in {<<>>, rcq[p]}
  <2>1. CASE /\ rcq[p] # <<>>
             /\ listed' = [listed EXCEPT ![p] = ListedBy(rcq[p])]
             /\ swallowed' = [swallowed EXCEPT ![p] = @ + Data(rcq[p])]
             /\ rcq' = [rcq EXCEPT ![p] = <<>>]
             /\ broken' = broken
    <3>1. listed'[p] = ListedBy(rcq[p]) /\ rcq'[p] = <<>>
          /\ swallowed'[p] = swallowed[p] + Data(rcq[p])
      BY <1>0, <2>1
    <3>2. 1 \in DOMAIN rcq[p] /\ remote[p] \in Ends
      BY <1>0, <2>1, EmptySeq, LenProperties DEF Door
    <3>3. ListedBy(rcq[p]) = IF rcq[p][1] \in Ends THEN rcq[p][1] ELSE Junk
      BY DEF ListedBy, ListEntry
    <3>4. listed'[p] # None /\ listed'[p] \in Ends \cup {Junk}
      BY <3>1, <3>3, ConstantFacts
    <3>5. listed'[p] \in Ends => listed'[p] = remote[p]
      BY <1>0, <3>1, <3>2, <3>3, ConstantFacts DEF Door
    <3>6. Sound(p)' => listed'[p] = remote[p]
      <4>1. Sound(p)' => ListFirst(p, remote[p])
        BY <1>1, <2>1, <3>2 DEF OpenInv, Lists, Sound
      <4> QED  BY <1>2, <2>1, <3>1, <3>2, <3>3, <4>1 DEF ListFirst
    <3>7. Data(rcq[p]) \in Nat /\ ((\A i \in DOMAIN rcq[p] : rcq[p][i] # "data") => Data(rcq[p]) = 0)
      BY <1>0, DataCount
    <3>8. ASSUME p \in Clients, ~flag[p], Sound(p)' PROVE swallowed'[p] = swallowed[p]
      <4>1. remote[p] = Server /\ remote[Server] = p
        BY <1>0, <3>2, <3>8, ConstantFacts DEF OpenInv, ClientExchange
      <4>2. Sound(Server)
        BY <1>1, <2>1, <3>8, <4>1 DEF Sound
      <4>3. ListFirst(Server, p)
        BY <4>1, <4>2, ConstantFacts DEF OpenInv, Lists
      <4>4. listed[Server] = None
        BY <1>1, <3>8, <4>3 DEF ListFirst, NotYet
      <4>5. \A i \in DOMAIN rcq[p] : rcq[p][i] # "data"
        BY <1>0, <4>1, <4>4 DEF Door
      <4> QED  BY <1>0, <3>1, <3>7, <4>5
    <3>9. listed' \in [Ends -> Ends \cup {None, Junk}]
      BY <1>0, <2>1, <3>1, <3>4
    <3>10. swallowed' \in [Ends -> Nat]
      <4>1. swallowed[p] + Data(rcq[p]) \in Nat
        BY <1>0, <3>7
      <4> QED  BY <1>0, <2>1, <4>1
    <3>11. rcq' \in [Ends -> Seq(Ends \cup {"data", "err"})]
      BY <1>0, <2>1
    <3>12. listed'[p] = Junk => ~Sound(p)'
      BY <3>2, <3>6, ConstantFacts
    <3> QED  BY <1>0, <2>1, <3>1, <3>4, <3>5, <3>8, <3>9, <3>10, <3>11, <3>12
  <2>2. CASE /\ listed' = [listed EXCEPT ![p] = Junk]
             /\ Break(p)
             /\ UNCHANGED <<swallowed, rcq>>
    BY <1>0, <2>2, ConstantFacts DEF Break, Sound
  <2> QED  BY <2>1, <2>2 DEF QueryDoor
<1>6. Local(p)
  BY <1>0, <1>1, <1>2, <1>5 DEF Local, AtDoor
<1>7. EndTypes' /\ Contents'
  <2>1. p \notin broken' => Len(wire'[p]) + Len(scq'[p]) <= 1
    BY <1>1, <1>5 DEF OpenInv, EndTypes
  <2> QED  BY <1>0, <1>1, <1>5, <1>6, <2>1, LocalTypes
<1>8. QpUp(p)'
  BY <1>0, <1>1, <1>2, <1>3, <1>5 DEF QpUp, PreDoor, AtDoor
<1>9. Door(p)'
  <2>1. \A i \in DOMAIN rcq'[p] : /\ rcq'[p][i] \in Ends => rcq'[p][i] = remote'[p]
                                  /\ rcq'[p][i] = "data" => listed'[remote'[p]] # None
                                  /\ rcq'[p][i] = "err" => p \in broken'
    <3>1. CASE rcq'[p] = <<>>
      BY <3>1
    <3>2. CASE rcq'[p] = rcq[p] /\ rcq[p] # <<>>
      <4>1. remote[p] \in Ends /\ listed'[remote[p]] = listed[remote[p]]
        BY <1>0, <1>5, <3>2 DEF Door
      <4> QED  BY <1>0, <1>1, <1>5, <3>2, <4>1 DEF Door
    <3> QED  BY <1>5, <3>1, <3>2
  <2>2. rcq'[p] # <<>> => remote'[p] \in Ends
    BY <1>0, <1>1, <1>5 DEF Door
  <2>3. \A i \in DOMAIN wire'[p] : /\ wire'[p][i] \in Ends => wire'[p][i] = p
                                   /\ wire'[p][i] = "data" => listed'[p] # None
    BY <1>0, <1>1, <1>5 DEF Door
  <2> QED  BY <1>1, <1>3, <1>5, <2>1, <2>2, <2>3 DEF Door
<1>10. ASSUME Sound(p)', remote[p] \in Ends PROVE ListFirst(p, remote[p])'
  <2>1. ListFirst(p, remote[p]) /\ p \notin broken'
    BY <1>1, <1>5, <1>10 DEF OpenInv, Lists, Sound
  <2>2. ~NotYet(remote[p])
    BY <1>5, <2>1 DEF ListFirst
  <2>3. ~NotYet(remote[p])'
    BY <1>0, <1>1, <1>3, <1>10, <2>2 DEF NotYet
  <2> QED  BY <1>5, <2>3 DEF ListFirst
<1>11. ASSUME NEW r \in Ends, Sound(r)', remote[r] = p PROVE ListFirst(r, remote[r])'
  <2>1. (NotYet(p)' => NotYet(p)) /\ (ListOut(p)' => ListOut(p))
    BY <1>1, <1>3 DEF NotYet, ListOut, PreDoor
  <2> QED  BY <1>1, <1>6, <1>11, <2>1, OwnListKept
<1> QED  BY <1>1, <1>4, <1>5, <1>6, <1>7, <1>8, <1>9, <1>10, <1>11, LocalInv

\* start_remote parses the list, which changes nothing but the keys.
LEMMA StartRemoteInv ==
    ASSUME OpenInv, NEW p \in Ends, StartRemote(p)
    PROVE  OpenInv'
<1>0. /\ pc \in [Ends -> Labels] /\ remote \in [Ends -> Ends \cup {None}]
      /\ listed \in [Ends -> Ends \cup {None, Junk}]
      /\ wire \in [Ends -> Seq(Ends \cup {"data"})]
      /\ scq \in [Ends -> Seq({"ok", "err"})]
      /\ rcq \in [Ends -> Seq(Ends \cup {"data", "err"})]
      /\ swallowed \in [Ends -> Nat] /\ sent \in [Ends -> Nat]
      /\ broken \subseteq Ends /\ QpUp(p) /\ Door(p) /\ remote[p] # p
  BY StateTypes, Peers DEF OpenInv, EndTypes
<1>1. /\ pc[p] = "d_parse" /\ pc' = [pc EXCEPT ![p] = AfterPeer(p)]
      /\ UNCHANGED <<flag, backlog, served, toServer, toClient, qp, remote, ready, wire, scq, rcq,
                     listed, sent, swallowed, broken>>
  BY DEF StartRemote, Goto, tcpVars, qpVars, cqVars
<1>2. AfterPeer(p) \in {"open", "d_send"} /\ listed[p] # None
  BY <1>0, <1>1 DEF AfterPeer, Door
<1>3. pc'[p] = AfterPeer(p) /\ \A r \in Ends : r # p => pc'[r] = pc[r]
  BY <1>0, <1>1
<1>4. p \notin broken => wire[p] = <<>> /\ scq[p] = <<>>
  BY <1>1 DEF OpenInv, Drained
<1>5. Local(p)
  BY <1>0, <1>1, <1>2 DEF Local, AtDoor
<1>6. EndTypes' /\ Contents'
  <2>1. p \notin broken' => Len(wire'[p]) + Len(scq'[p]) <= 1
    BY <1>1 DEF OpenInv, EndTypes
  <2> QED  BY <1>0, <1>1, <1>5, <2>1, LocalTypes
<1>7. QpUp(p)'
  BY <1>0, <1>1, <1>2, <1>3 DEF QpUp, PreDoor, AtDoor
<1>8. Door(p)'
  BY <1>0, <1>1, <1>2, <1>3 DEF Door, AfterPeer
<1>9. ASSUME Sound(p)', remote[p] \in Ends PROVE ListFirst(p, remote[p])'
  BY <1>0, <1>1, <1>5, <1>9, PeerListKept
<1>10. ASSUME NEW r \in Ends, Sound(r)', remote[r] = p PROVE ListFirst(r, remote[r])'
  <2>1. (NotYet(p)' => NotYet(p)) /\ (ListOut(p)' => ListOut(p))
    BY <1>1, <1>3 DEF NotYet, ListOut, AfterPeer, PreDoor
  <2> QED  BY <1>1, <1>5, <1>10, <2>1, OwnListKept
<1> QED  BY <1>1, <1>4, <1>5, <1>6, <1>7, <1>8, <1>9, <1>10, LocalInv DEF OpenInv, ListedIsPeer

\* latency() posts a message of an open session: the list has gone before it.
LEMMA LatencyInv ==
    ASSUME OpenInv, NEW p \in Ends, Latency(p)
    PROVE  OpenInv'
<1>0. /\ pc \in [Ends -> Labels] /\ remote \in [Ends -> Ends \cup {None}]
      /\ listed \in [Ends -> Ends \cup {None, Junk}]
      /\ wire \in [Ends -> Seq(Ends \cup {"data"})]
      /\ scq \in [Ends -> Seq({"ok", "err"})]
      /\ rcq \in [Ends -> Seq(Ends \cup {"data", "err"})]
      /\ swallowed \in [Ends -> Nat] /\ sent \in [Ends -> Nat]
      /\ broken \subseteq Ends /\ QpUp(p) /\ Door(p) /\ "data" \notin Ends
  BY StateTypes, ConstantFacts DEF OpenInv, EndTypes
<1>1. /\ pc[p] = "open" /\ pc' = [pc EXCEPT ![p] = "o_wait"]
      /\ sent[p] < MaxData[p] /\ sent' = [sent EXCEPT ![p] = @ + 1]
      /\ Post(p, "data") \/ UNCHANGED <<wire, scq>>
      /\ UNCHANGED <<flag, backlog, served, toServer, toClient, qp, remote, ready, rcq,
                     listed, swallowed, broken>>
  BY DEF Latency, Goto, tcpVars, qpVars
<1>2. /\ pc'[p] = "o_wait" /\ \A r \in Ends : r # p => pc'[r] = pc[r]
      /\ qp[p] \in {"RTS", "ERR"} /\ listed[p] # None
  BY <1>0, <1>1 DEF QpUp, AtDoor, Door
<1>3. sent' \in [Ends -> Nat]
  <2>1. sent[p] + 1 \in Nat
    BY <1>0, <1>1, SessionOpenAssumption
  <2> QED  BY <1>0, <1>1, <2>1
<1>4. p \notin broken => wire[p] = <<>> /\ scq[p] = <<>>
  BY <1>1 DEF OpenInv, Drained
<1>5. CASE qp[p] = "RTS" /\ Post(p, "data")
  <2>1. wire' = [wire EXCEPT ![p] = Append(@, "data")] /\ scq' = scq
    BY <1>0, <1>5 DEF Post
  <2>2. /\ wire' \in [Ends -> Seq(Ends \cup {"data"})]
        /\ \A r \in Ends : r # p => wire'[r] = wire[r]
        /\ wire'[p] # <<>>
        /\ \A i \in DOMAIN wire'[p] : \/ wire'[p][i] = "data"
                                      \/ (i \in DOMAIN wire[p] /\ wire'[p][i] = wire[p][i])
        /\ wire[p] = <<>> => wire'[p] = <<"data">> /\ Len(wire'[p]) = 1
    BY <2>1, PostedWire
  <2>3. Local(p)
    BY <1>0, <1>1, <2>1, <2>2 DEF Local, AtDoor
  <2>4. EndTypes' /\ Contents'
    <3>1. p \notin broken' => Len(wire'[p]) + Len(scq'[p]) <= 1
      <4> SUFFICES ASSUME p \notin broken' PROVE Len(wire'[p]) + Len(scq'[p]) <= 1
        OBVIOUS
      <4>1. Len(wire'[p]) = 1 /\ Len(scq'[p]) = 0
        BY <1>1, <1>4, <2>1, <2>2, EmptySeq
      <4> QED  BY <4>1
    <3> QED  BY <1>0, <1>1, <1>3, <2>1, <2>2, <2>3, <3>1, LocalTypes
  <2>5. QpUp(p)'
    BY <1>0, <1>1, <1>2, <1>5 DEF QpUp, PreDoor, AtDoor
  <2>6. Door(p)'
    <3>1. \A i \in DOMAIN wire'[p] : /\ wire'[p][i] \in Ends => wire'[p][i] = p
                                     /\ wire'[p][i] = "data" => listed'[p] # None
      BY <1>0, <1>1, <1>2, <2>2, ConstantFacts DEF Door
    <3>2. UNCHANGED <<flag, rcq, remote, listed, broken>>
      BY <1>1
    <3> QED  BY <1>0, <1>2, <3>1, <3>2 DEF Door
  <2>7. ASSUME NEW r \in Ends, p \notin broken', Sound(r)', remote[r] = p
        PROVE  ListFirst(r, remote[r])'
    <3>1. ListOut(p) /\ ListFirst(r, p)
      BY <1>1, <2>7 DEF ListOut, OpenInv, Lists, Sound
    <3>2. listed[r] = None => rcq[r] # <<>> /\ rcq[r][1] = p
      BY <1>1, <1>4, <2>7, <3>1 DEF ListFirst
    <3>3. ~NotYet(remote[r])'
      BY <1>1, <1>2, <2>7 DEF NotYet, PreDoor
    <3> QED  BY <1>1, <2>7, <3>2, <3>3 DEF ListFirst
  <2>8. Sound(p)' /\ remote[p] \in Ends => ListFirst(p, remote[p])'
    BY <1>1, <2>3, PeerListKept
  <2> QED  BY <1>1, <1>2, <2>3, <2>4, <2>5, <2>6, <2>7, <2>8, LocalInv DEF OpenInv, ListedIsPeer
<1>6. CASE ~(qp[p] = "RTS" /\ Post(p, "data"))
  <2>1. /\ wire' = wire
        /\ scq' = scq \/ (p \in broken /\ scq' = [scq EXCEPT ![p] = Append(@, "err")])
    <3>1. CASE Post(p, "data") /\ qp[p] = "ERR"
      <4>1. p \in broken
        BY <1>0, <3>1 DEF QpUp
      <4>2. wire' = [wire EXCEPT ![p] = @] /\ scq' = [scq EXCEPT ![p] = Append(@, "err")]
        BY <3>1 DEF Post
      <4> QED  BY <1>0, <4>1, <4>2
    <3>2. CASE UNCHANGED <<wire, scq>>
      BY <3>2
    <3> QED  BY <1>1, <1>2, <1>6, <3>1, <3>2
  <2>2. /\ scq' \in [Ends -> Seq({"ok", "err"})]
        /\ \A r \in Ends : r # p => scq'[r] = scq[r]
    <3>1. Append(scq[p], "err") \in Seq({"ok", "err"})
      BY <1>0, AppendProperties
    <3>2. CASE scq' = scq
      BY <1>0, <3>2
    <3>3. CASE scq' = [scq EXCEPT ![p] = Append(@, "err")]
      BY <1>0, <3>1, <3>3
    <3> QED  BY <2>1, <3>2, <3>3
  <2>3. Local(p)
    BY <1>0, <1>1, <2>1, <2>2 DEF Local, AtDoor
  <2>4. EndTypes' /\ Contents'
    <3>1. p \notin broken' => Len(wire'[p]) + Len(scq'[p]) <= 1
      BY <1>1, <2>1 DEF OpenInv, EndTypes
    <3> QED  BY <1>0, <1>1, <1>3, <2>1, <2>2, <2>3, <3>1, LocalTypes
  <2>5. QpUp(p)'
    BY <1>0, <1>1, <1>2, <2>1 DEF QpUp, PreDoor, AtDoor
  <2>6. Door(p)'
    BY <1>0, <1>1, <1>2, <2>1 DEF Door
  <2>7. ASSUME NEW r \in Ends, Sound(r)', remote[r] = p PROVE ListFirst(r, remote[r])'
    <3>1. ~NotYet(p)' /\ ListOut(p)
      BY <1>1, <1>2 DEF NotYet, ListOut, PreDoor
    <3> QED  BY <2>1, <2>3, <2>7, <3>1, OwnListKept
  <2>8. Sound(p)' /\ remote[p] \in Ends => ListFirst(p, remote[p])'
    BY <1>1, <2>3, PeerListKept
  <2> QED  BY <1>1, <1>2, <2>3, <2>4, <2>5, <2>6, <2>7, <2>8, LocalInv DEF OpenInv, ListedIsPeer
<1> QED  BY <1>5, <1>6

\* query_sr() takes all entries; without a failure it reports them.
LEMMA QuerySrInv ==
    ASSUME OpenInv, NEW p \in Ends, QuerySr(p)
    PROVE  OpenInv'
<1>0. /\ listed \in [Ends -> Ends \cup {None, Junk}]
      /\ wire \in [Ends -> Seq(Ends \cup {"data"})]
      /\ scq \in [Ends -> Seq({"ok", "err"})]
      /\ rcq \in [Ends -> Seq(Ends \cup {"data", "err"})]
      /\ swallowed \in [Ends -> Nat] /\ sent \in [Ends -> Nat]
      /\ broken \subseteq Ends /\ QpUp(p) /\ Door(p)
  BY StateTypes DEF OpenInv, EndTypes
<1>1. /\ pc[p] = "open" /\ rcq[p] # <<>> /\ rcq' = [rcq EXCEPT ![p] = <<>>]
      /\ swallowed' = [swallowed EXCEPT ![p] =
             IF \E i \in DOMAIN rcq[p] : rcq[p][i] = "err" THEN @ + Data(rcq[p]) ELSE @]
      /\ UNCHANGED <<pc, flag, backlog, served, toServer, toClient, qp, remote, ready, wire, scq,
                     listed, sent, broken>>
  BY DEF QuerySr, tcpVars, qpVars
<1>2. /\ listed[p] # None
      /\ p \notin broken => ~\E i \in DOMAIN rcq[p] : rcq[p][i] = "err"
  BY <1>0, <1>1 DEF Door
<1>3. Data(rcq[p]) \in Nat
  BY <1>0, DataCount
<1>4. /\ \A r \in Ends : r # p => rcq'[r] = rcq[r] /\ swallowed'[r] = swallowed[r]
      /\ rcq'[p] = <<>> /\ rcq' \in [Ends -> Seq(Ends \cup {"data", "err"})]
      /\ p \notin broken => swallowed'[p] = swallowed[p]
  BY <1>0, <1>1, <1>2
<1>5. swallowed' \in [Ends -> Nat]
  <2>1. swallowed[p] + Data(rcq[p]) \in Nat
    BY <1>0, <1>3
  <2> QED  BY <1>0, <1>1, <2>1
<1>6. Local(p)
  BY <1>0, <1>1, <1>4 DEF Local
<1>7. EndTypes' /\ Contents'
  <2>1. p \notin broken' => Len(wire'[p]) + Len(scq'[p]) <= 1
    BY <1>1 DEF OpenInv, EndTypes
  <2> QED  BY <1>0, <1>1, <1>4, <1>5, <1>6, <2>1, LocalTypes
<1>8. QpUp(p)'
  BY <1>0, <1>1 DEF QpUp
<1>9. Door(p)'
  BY <1>0, <1>1, <1>4 DEF Door
<1>10. ASSUME Sound(p)', remote[p] \in Ends PROVE ListFirst(p, remote[p])'
  <2>1. ListFirst(p, remote[p])
    BY <1>1, <1>10 DEF OpenInv, Lists, Sound
  <2>2. ~NotYet(remote[p])'
    BY <1>1, <2>1 DEF ListFirst, NotYet
  <2> QED  BY <1>1, <1>2, <2>2 DEF ListFirst
<1>11. ASSUME NEW r \in Ends, Sound(r)', remote[r] = p PROVE ListFirst(r, remote[r])'
  <2>1. (NotYet(p)' => NotYet(p)) /\ (ListOut(p)' => ListOut(p))
    BY <1>1 DEF NotYet, ListOut
  <2> QED  BY <1>1, <1>6, <1>11, <2>1, OwnListKept
<1>12. p \notin broken' /\ pc'[p] \notin {"d_wait", "o_wait", "gone"} =>
          wire'[p] = <<>> /\ scq'[p] = <<>>
  BY <1>1 DEF OpenInv, Drained
<1>13. Sound(p)' => swallowed'[p] = swallowed[p]
  BY <1>1, <1>4 DEF Sound
<1> QED  BY <1>1, <1>6, <1>7, <1>8, <1>9, <1>10, <1>11, <1>12, <1>13, LocalInv DEF OpenInv, ListedIsPeer

\* The adapter of p gives up: p is broken from now on.
LEMMA GiveUpInv ==
    ASSUME OpenInv, NEW p \in Ends, GiveUp(p)
    PROVE  OpenInv'
<1>0. /\ qp \in [Ends -> {"none", "INIT", "RTR", "RTS", "ERR"}]
      /\ listed \in [Ends -> Ends \cup {None, Junk}]
      /\ wire \in [Ends -> Seq(Ends \cup {"data"})]
      /\ scq \in [Ends -> Seq({"ok", "err"})]
      /\ rcq \in [Ends -> Seq(Ends \cup {"data", "err"})]
      /\ swallowed \in [Ends -> Nat] /\ sent \in [Ends -> Nat]
      /\ broken \subseteq Ends /\ QpUp(p) /\ Door(p) /\ "err" \notin Ends
  BY StateTypes, ConstantFacts DEF OpenInv, EndTypes
<1>1. /\ wire[p] # <<>> /\ wire' = [wire EXCEPT ![p] = <<>>]
      /\ scq' = [scq EXCEPT ![p] = Append(@, "err")]
      /\ rcq' = [rcq EXCEPT ![p] = IF p \in ready THEN Append(@, "err") ELSE @]
      /\ qp' = [qp EXCEPT ![p] = "ERR"] /\ broken' = broken \cup {p}
      /\ UNCHANGED <<pc, flag, backlog, served, toServer, toClient, remote, ready,
                     listed, sent, swallowed>>
  BY DEF GiveUp, Break, tcpVars, appVars
<1>2. qp[p] = "RTS" /\ remote[p] \in Ends
  BY <1>0, <1>1 DEF QpUp
<1>3. /\ Append(scq[p], "err") \in Seq({"ok", "err"})
      /\ Append(rcq[p], "err") \in Seq(Ends \cup {"data", "err"})
      /\ \A i \in DOMAIN Append(rcq[p], "err") :
            \/ Append(rcq[p], "err")[i] = "err"
            \/ i \in DOMAIN rcq[p] /\ Append(rcq[p], "err")[i] = rcq[p][i]
  BY <1>0, AppendProperties, LenProperties
<1>4. /\ wire'[p] = <<>> /\ qp'[p] = "ERR"
      /\ \A r \in Ends : r # p => wire'[r] = wire[r] /\ scq'[r] = scq[r] /\ rcq'[r] = rcq[r]
      /\ wire' \in [Ends -> Seq(Ends \cup {"data"})]
      /\ scq' \in [Ends -> Seq({"ok", "err"})]
      /\ rcq' \in [Ends -> Seq(Ends \cup {"data", "err"})]
      /\ p \in broken' /\ broken \subseteq broken' /\ broken' \subseteq Ends
  BY <1>0, <1>1, <1>3
<1>5. \A i \in DOMAIN rcq'[p] : rcq'[p][i] = "err" \/ (i \in DOMAIN rcq[p] /\ rcq'[p][i] = rcq[p][i])
  BY <1>0, <1>1, <1>3
<1>6. Local(p)
  BY <1>1, <1>2, <1>4 DEF Local
<1>7. EndTypes' /\ Contents'
  BY <1>0, <1>1, <1>4, <1>6, LocalTypes
<1>8. QpUp(p)'
  BY <1>0, <1>1, <1>2, <1>4 DEF QpUp
<1>9. Door(p)'
  <2>1. \A i \in DOMAIN rcq'[p] : /\ rcq'[p][i] \in Ends => rcq'[p][i] = remote'[p]
                                  /\ rcq'[p][i] = "data" => listed'[remote'[p]] # None
                                  /\ rcq'[p][i] = "err" => p \in broken'
    BY <1>0, <1>1, <1>4, <1>5 DEF Door
  <2>2. \A i \in DOMAIN wire'[p] : FALSE
    BY <1>4
  <2> QED  BY <1>0, <1>1, <1>2, <2>1, <2>2 DEF Door
<1> QED  BY <1>1, <1>4, <1>6, <1>7, <1>8, <1>9, LocalInv DEF OpenInv, ListedIsPeer

-----------------------------------------------------------------------------
(* A message of p reaches its peer.                                         *)

\* The message q receives is the first one p posted.
LEMMA DeliverInv ==
    ASSUME OpenInv, NEW p \in Ends, Deliver(p)
    PROVE  OpenInv'
<1>0. /\ remote \in [Ends -> Ends \cup {None}]
      /\ wire \in [Ends -> Seq(Ends \cup {"data"})]
      /\ scq \in [Ends -> Seq({"ok", "err"})]
      /\ rcq \in [Ends -> Seq(Ends \cup {"data", "err"})]
      /\ "err" \notin Ends /\ QpUp(p) /\ Door(p)
  BY StateTypes, ConstantFacts DEF OpenInv
<1>1. wire[p] # <<>> /\ qp[p] = "RTS" /\ remote[remote[p]] = p
  BY DEF Deliver
<1>2. PICK q \in Ends : q = remote[p] /\ q # p
  BY <1>0, <1>1, Peers DEF QpUp
<1>3. /\ rcq' = [rcq EXCEPT ![q] = Append(@, Head(wire[p]))]
      /\ scq' = [scq EXCEPT ![p] = Append(@, "ok")]
      /\ wire' = [wire EXCEPT ![p] = Tail(@)]
      /\ remote[q] = p
      /\ UNCHANGED <<pc, flag, backlog, served, toServer, toClient, qp, remote, ready,
                     listed, sent, swallowed, broken>>
  BY <1>2 DEF Deliver, tcpVars, qpVars, appVars
<1>4. /\ 1 \in DOMAIN wire[p] /\ Head(wire[p]) = wire[p][1]
      /\ Head(wire[p]) \in Ends \cup {"data"}
      /\ Tail(wire[p]) \in Seq(Ends \cup {"data"})
      /\ Len(Tail(wire[p])) = Len(wire[p]) - 1 /\ Len(wire[p]) \in Nat
      /\ \A i \in DOMAIN Tail(wire[p]) : i + 1 \in DOMAIN wire[p] /\ Tail(wire[p])[i] = wire[p][i + 1]
  BY <1>0, <1>1, HeadTailProperties, LenProperties, EmptySeq
<1>5. /\ Append(scq[p], "ok") \in Seq({"ok", "err"})
      /\ Len(Append(scq[p], "ok")) = Len(scq[p]) + 1 /\ Len(scq[p]) \in Nat
  BY <1>0, AppendProperties, LenProperties
<1> DEFINE m == Head(wire[p])
<1>6. /\ Append(rcq[q], m) \in Seq(Ends \cup {"data", "err"})
      /\ Append(rcq[q], m) # <<>>
      /\ rcq[q] = <<>> => Append(rcq[q], m)[1] = m
      /\ rcq[q] # <<>> => Append(rcq[q], m)[1] = rcq[q][1]
      /\ \A i \in DOMAIN Append(rcq[q], m) :
            \/ Append(rcq[q], m)[i] = m
            \/ i \in DOMAIN rcq[q] /\ Append(rcq[q], m)[i] = rcq[q][i]
  <2>1. rcq[q] \in Seq(Ends \cup {"data", "err"}) /\ m \in Ends \cup {"data", "err"}
    BY <1>0, <1>4
  <2> HIDE DEF m
  <2>2. /\ Append(rcq[q], m) \in Seq(Ends \cup {"data", "err"})
        /\ Append(rcq[q], m) # <<>>
        /\ \A i \in 1 .. Len(rcq[q]) : Append(rcq[q], m)[i] = rcq[q][i]
        /\ Append(rcq[q], m)[Len(rcq[q]) + 1] = m
        /\ DOMAIN Append(rcq[q], m) = 1 .. Len(rcq[q]) + 1
        /\ DOMAIN rcq[q] = 1 .. Len(rcq[q]) /\ Len(rcq[q]) \in Nat
    BY <2>1, AppendProperties, LenProperties
  <2>3. (rcq[q] = <<>> => Len(rcq[q]) = 0) /\ (rcq[q] # <<>> => Len(rcq[q]) >= 1)
    BY <2>1, <2>2, EmptySeq
  <2> QED  BY <2>2, <2>3
<1>7. /\ rcq'[q] = Append(rcq[q], m) /\ \A r \in Ends : r # q => rcq'[r] = rcq[r]
      /\ rcq' \in [Ends -> Seq(Ends \cup {"data", "err"})]
      /\ scq'[p] = Append(scq[p], "ok") /\ \A r \in Ends : r # p => scq'[r] = scq[r]
      /\ scq' \in [Ends -> Seq({"ok", "err"})]
      /\ wire'[p] = Tail(wire[p]) /\ \A r \in Ends : r # p => wire'[r] = wire[r]
      /\ wire' \in [Ends -> Seq(Ends \cup {"data"})]
  BY <1>0, <1>3, <1>4, <1>5, <1>6
<1>8. EndTypes' /\ Contents'
  <2>1. ASSUME NEW r \in Ends \ broken' PROVE Len(wire'[r]) + Len(scq'[r]) <= 1
    <3>1. CASE r = p
      <4>1. Len(wire[p]) + Len(scq[p]) <= 1
        BY <1>3, <2>1, <3>1 DEF OpenInv, EndTypes
      <4>2. Len(wire'[r]) = Len(wire[p]) - 1 /\ Len(scq'[r]) = Len(scq[p]) + 1
        BY <1>4, <1>5, <1>7, <3>1
      <4>3. \A x, y \in Nat : x + y <= 1 => (x - 1) + (y + 1) <= 1
        OBVIOUS
      <4> QED  BY <1>4, <1>5, <4>1, <4>2, <4>3
    <3>2. CASE r # p
      BY <1>3, <1>7, <2>1, <3>2 DEF OpenInv, EndTypes
    <3> QED  BY <3>1, <3>2
  <2>2. EndTypes'
    BY <1>3, <2>1 DEF OpenInv, EndTypes
  <2>3. Contents'
    BY <1>3, <1>7 DEF OpenInv, Contents
  <2> QED  BY <2>2, <2>3
<1>9. ServerExchange'
  BY <1>3 DEF OpenInv, ServerExchange
<1>10. ASSUME NEW c \in Clients PROVE ClientExchange(c)'
  <2>1. wire[Server] = <<>> => wire'[Server] = <<>>
    BY <1>1, <1>7, ConstantFacts
  <2> QED  BY <1>3, <2>1 DEF OpenInv, ClientExchange
<1>11. \A r \in Ends : wire[r] = <<>> => wire'[r] = <<>>
  BY <1>1, <1>7
<1>12. ASSUME NEW r \in Ends PROVE QpUp(r)'
  BY <1>3, <1>11 DEF OpenInv, QpUp
<1>13. ASSUME NEW r \in Ends PROVE Door(r)'
  <2>0. Door(r)
    BY DEF OpenInv
  <2>1. \A i \in DOMAIN wire'[r] : /\ wire'[r][i] \in Ends => wire'[r][i] = r
                                   /\ wire'[r][i] = "data" => listed'[r] # None
    <3>1. CASE r = p
      BY <1>3, <1>4, <1>7, <2>0, <3>1 DEF Door
    <3>2. CASE r # p
      BY <1>3, <1>7, <2>0, <3>2 DEF Door
    <3> QED  BY <3>1, <3>2
  <2>2. \A i \in DOMAIN rcq'[r] : /\ rcq'[r][i] \in Ends => rcq'[r][i] = remote'[r]
                                  /\ rcq'[r][i] = "data" => listed'[remote'[r]] # None
                                  /\ rcq'[r][i] = "err" => r \in broken'
    <3>1. CASE r = q
      <4>1. (m \in Ends => m = remote'[q]) /\ (m = "data" => listed'[remote'[q]] # None) /\ m # "err"
        BY <1>0, <1>3, <1>4 DEF Door
      <4> HIDE DEF m
      <4> QED  BY <1>3, <1>6, <1>7, <2>0, <3>1, <4>1 DEF Door
    <3>2. CASE r # q
      BY <1>3, <1>7, <2>0, <3>2 DEF Door
    <3> QED  BY <3>1, <3>2
  <2>3. rcq'[r] # <<>> => remote'[r] \in Ends
    BY <1>3, <1>7, <2>0 DEF Door
  <2> QED  BY <1>3, <2>0, <2>1, <2>2, <2>3 DEF Door
<1>14. \A r \in Ends : Sound(r)' <=> Sound(r)
  BY <1>3 DEF Sound
<1>15. Lists'
  <2> SUFFICES ASSUME NEW r \in Ends, Sound(r), remote[r] \in Ends PROVE ListFirst(r, remote[r])'
    BY <1>3, <1>14 DEF Lists
  <2>0. ListFirst(r, remote[r])
    BY DEF OpenInv, Lists
  <2>1. CASE r = q
    <3>1. ~NotYet(remote[r])'
      BY <1>1, <1>3, <2>0, <2>1 DEF ListFirst, NotYet
    <3>2. rcq'[r] # <<>>
      BY <1>6, <1>7, <2>1
    <3>3. listed[r] = None => rcq'[r][1] = p
      <4>1. CASE rcq[q] = <<>>
        BY <1>1, <1>3, <1>4, <1>6, <1>7, <2>0, <2>1, <4>1 DEF ListFirst
      <4>2. CASE rcq[q] # <<>>
        BY <1>3, <1>6, <1>7, <2>0, <2>1, <4>2 DEF ListFirst
      <4> QED  BY <4>1, <4>2
    <3> QED  BY <1>3, <2>1, <3>1, <3>2, <3>3 DEF ListFirst
  <2>2. CASE r # q
    <3>1. remote[r] # p
      BY <1>2, <2>2, Peers
    <3>2. wire'[remote'[r]] = wire[remote[r]] /\ rcq'[r] = rcq[r]
      BY <1>3, <1>7, <2>2, <3>1
    <3> QED  BY <1>3, <2>0, <3>2 DEF ListFirst, NotYet, ListOut
  <2> QED  BY <2>1, <2>2
<1>16. Drained'
  <2> SUFFICES ASSUME NEW r \in Ends \ broken, pc[r] \notin {"d_wait", "o_wait", "gone"}
               PROVE  wire'[r] = <<>> /\ scq'[r] = <<>>
    BY <1>3 DEF Drained
  <2>1. wire[r] = <<>> /\ scq[r] = <<>>
    BY DEF OpenInv, Drained
  <2> QED  BY <1>1, <1>7, <2>1
<1>17. ListedIsPeer' /\ ClientLosesNothing'
  BY <1>3, <1>14, ConstantFacts DEF OpenInv, ListedIsPeer, ClientLosesNothing
<1> QED  BY <1>8, <1>9, <1>10, <1>12, <1>13, <1>15, <1>16, <1>17 DEF OpenInv

-----------------------------------------------------------------------------
(* Every step keeps the invariant.                                         *)

LEMMA NextOpenInv ==
    ASSUME OpenInv, [Next]_vars
    PROVE  OpenInv'
<1>1. CASE UNCHANGED vars
  <2>1. UNCHANGED <<pc, flag, backlog, served, toServer, toClient, qp, remote, ready, wire, scq, rcq,
                    listed, sent, swallowed, broken>>
    BY <1>1 DEF vars, tcpVars, qpVars, cqVars, appVars
  <2>2. (EndTypes /\ Contents)' /\ ServerExchange' /\ (\A c \in Clients : ClientExchange(c))'
    <3>1. EndTypes' /\ Contents'
      BY <2>1 DEF OpenInv, EndTypes, Contents
    <3>2. ServerExchange'
      BY <2>1 DEF OpenInv, ServerExchange
    <3>3. (\A c \in Clients : ClientExchange(c))'
      BY <2>1 DEF OpenInv, ClientExchange
    <3> QED  BY <3>1, <3>2, <3>3
  <2>3. (\A p \in Ends : QpUp(p) /\ Door(p))' /\ Drained'
    BY <2>1 DEF OpenInv, QpUp, Door, Drained
  <2>4. Lists' /\ ListedIsPeer' /\ ClientLosesNothing'
    BY <2>1 DEF OpenInv, Lists, ListFirst, NotYet, ListOut, ListedIsPeer, ClientLosesNothing, Sound
  <2> QED  BY <2>2, <2>3, <2>4 DEF OpenInv
<1>2. ASSUME NEW p \in Ends, Fail(p) \/ Close(p) PROVE OpenInv'
  BY <1>2, GoneInv DEF Fail, Close, Goto
<1>3. ASSUME NEW c \in Clients, UdpRefused(c) PROVE OpenInv'
  BY <1>3, GoneInv, ConstantFacts DEF UdpRefused, Goto
<1>4. ASSUME NEW p \in Ends, Program(p) PROVE OpenInv'
  BY <1>4, QpStepInv, PostRecvInv, StartRwInv, QuerySendInv, QueryDoorInv, StartRemoteInv
     DEF Program
<1>5. ASSUME NEW c \in Clients, ClientStep(c) PROVE OpenInv'
  BY <1>5, ListenConnectInv, ClientWriteInv, ClientReadInv DEF ClientStep
<1>6. ASSUME ServerStep PROVE OpenInv'
  BY <1>6, ListenConnectInv, AcceptInv, ServerReadInv, ServerWriteInv, ServerDoneInv DEF ServerStep
<1>7. ASSUME NEW p \in Ends, Latency(p) \/ QuerySr(p) \/ Deliver(p) \/ GiveUp(p) PROVE OpenInv'
  BY <1>7, LatencyInv, QuerySrInv, DeliverInv, GiveUpInv
<1> QED  BY <1>1, <1>2, <1>3, <1>4, <1>5, <1>6, <1>7 DEF Next

\* The invariant of the opening of a session, for any number of clients that call the
\* server and of messages sent, whatever fails on the way.
THEOREM OpenInvariance == Spec => []OpenInv
<1>1. Init => OpenInv
  BY InitOpenInv
<1>2. OpenInv /\ [Next]_vars => OpenInv'
  BY NextOpenInv
<1> QED  BY <1>1, <1>2, PTL DEF Spec

-----------------------------------------------------------------------------
(* What the first receive buffer holds when start_remote parses it.         *)

\* Until the messages have gone once around the receive buffers, the first one holds
\* the first message p received.
FirstBuffer(p) ==
    /\ received[p] # 0 => remote[p] \in Ends
    /\ Sound(p) /\ received[p] = 0 => rcq[p] = <<>> /\ listed[p] = None
    /\ Sound(p) /\ received[p] \in 1 .. RecvNums => buffer0[p] = remote[p]

BufferInv ==
    /\ BufferTypes
    /\ \A p \in Ends : FirstBuffer(p)
    /\ KeysOfPeer

\* A step of the program or of an adapter that neither receives nor parses.
LEMMA BufferKept ==
    ASSUME OpenInv, BufferInv, UNCHANGED <<received, buffer0, keys>>,
           \A r \in Ends : remote'[r] = remote[r] \/ remote[r] = None,
           broken \subseteq broken',
           \A r \in Ends : Sound(r)' /\ received[r] = 0 => rcq'[r] = <<>> /\ listed'[r] = None
    PROVE  BufferInv'
<1>1. BufferTypes'
  BY DEF BufferInv, BufferTypes
<1>2. ASSUME NEW r \in Ends
      PROVE  /\ Sound(r)' => Sound(r)
             /\ remote'[r] = remote[r] \/ (received[r] = 0 /\ keys[r] \notin Ends)
             /\ received[r] \in Nat
  <2>1. remote[r] = None => remote[r] \notin broken /\ remote[r] \notin Ends
    BY StateTypes, ConstantFacts
  <2>2. Sound(r)' => Sound(r)
    BY <2>1 DEF Sound
  <2>3. FirstBuffer(r) /\ (keys[r] \in Ends => keys[r] = remote[r]) /\ received[r] \in Nat
    BY DEF BufferInv, BufferTypes, KeysOfPeer
  <2> QED  BY <2>1, <2>2, <2>3 DEF FirstBuffer
<1>3. ASSUME NEW r \in Ends PROVE FirstBuffer(r)'
  <2>1. FirstBuffer(r)
    BY DEF BufferInv
  <2> QED  BY <1>2, <2>1 DEF FirstBuffer
<1>4. KeysOfPeer'
  <2> SUFFICES ASSUME NEW r \in Ends
               PROVE  /\ keys'[r] \in Ends => keys'[r] = remote'[r]
                      /\ keys'[r] = Junk => ~Sound(r)' \/ received'[r] > RecvNums
    BY DEF KeysOfPeer
  <2>1. /\ keys[r] \in Ends => keys[r] = remote[r]
        /\ keys[r] = Junk => ~Sound(r) \/ received[r] > RecvNums
    BY DEF BufferInv, KeysOfPeer
  <2> QED  BY <1>2, <2>1
<1> QED  BY <1>1, <1>3, <1>4 DEF BufferInv

\* Receives before the buffers are used up go to another buffer than the first.
LEMMA OtherSlot ==
    ASSUME NEW n \in 1 .. (RecvNums - 1)
    PROVE  Slot(n) # 0
<1> DEFINE d == n \div RecvNums
           e == n % RecvNums
<1>0. RecvNums \in Nat \ {0} /\ n \in Nat
  BY SessionOpenAssumption
<1>1. d \in Int /\ e \in 0 .. (RecvNums - 1) /\ n = (RecvNums * d) + e
  BY <1>0
<1> HIDE DEF d, e
<1>2. CASE d <= 0
  <2>1. RecvNums * d <= 0
    BY <1>0, <1>1, <1>2
  <2> QED  BY <1>0, <1>1, <2>1 DEF Slot, e
<1>3. CASE d >= 1
  <2>1. RecvNums * d >= RecvNums
    BY <1>0, <1>1, <1>3
  <2>2. RecvNums * d \in Int
    BY <1>0, <1>1
  <2> QED  BY <1>0, <1>1, <2>1, <2>2
<1> QED  BY <1>1, <1>2, <1>3

\* Nothing but the list of the peer is in buffer 0 after the first message, and
\* later ones go elsewhere until they have gone around.
LEMMA DeliverBuffer ==
    ASSUME OpenInv, BufferInv, NEW p \in Ends, Deliver(p)
    PROVE  BufferInv'
<1> DEFINE q == remote[p]
<1>0. /\ received \in [Ends -> Nat] /\ buffer0 \in [Ends -> Ends \cup {None, "data"}]
      /\ wire \in [Ends -> Seq(Ends \cup {"data"})]
      /\ remote \in [Ends -> Ends \cup {None}]
      /\ RecvNums \in Nat \ {0}
  BY StateTypes, SessionOpenAssumption DEF BufferInv, BufferTypes
<1>1. /\ q \in Ends /\ remote[q] = p /\ wire[p] # <<>>
      /\ received' = [received EXCEPT ![q] = @ + 1]
      /\ buffer0' = [buffer0 EXCEPT ![q] = IF Slot(received[q]) = 0 THEN Head(wire[p]) ELSE @]
      /\ UNCHANGED <<remote, broken, listed, keys>>
      /\ \A r \in Ends : r # q => rcq'[r] = rcq[r]
  <2>1. q \in ready /\ ready \subseteq Ends /\ rcq \in [Ends -> Seq(Ends \cup {"data", "err"})]
    BY StateTypes DEF Deliver, OpenInv, EndTypes
  <2> QED  BY <2>1 DEF Deliver, qpVars, appVars
<1>2. Head(wire[p]) \in Ends \cup {"data"} /\ Head(wire[p]) = wire[p][1]
  BY <1>0, <1>1
<1> HIDE DEF q
<1>3. BufferTypes'
  <2>1. received' \in [Ends -> Nat]
    BY <1>0, <1>1
  <2>2. buffer0' \in [Ends -> Ends \cup {None, "data"}]
    BY <1>0, <1>1, <1>2
  <2> QED  BY <1>1, <2>1, <2>2 DEF BufferInv, BufferTypes
<1>4. /\ received'[q] = received[q] + 1
      /\ \A r \in Ends : r # q => received'[r] = received[r] /\ buffer0'[r] = buffer0[r]
      /\ received[q] \in Nat
  BY <1>0, <1>1
<1>5. \A r \in Ends : Sound(r)' <=> Sound(r)
  BY <1>1 DEF Sound
<1>6. ASSUME Sound(q), received'[q] \in 1 .. RecvNums PROVE buffer0'[q] = remote[q]
  <2>1. FirstBuffer(q)
    BY <1>1 DEF BufferInv
  <2>2. CASE received[q] = 0
    <3>1. ListFirst(q, p)
      BY <1>1, <1>6 DEF OpenInv, Lists
    <3>2. wire[p][1] = p
      BY <1>1, <1>6, <2>1, <2>2, <3>1 DEF FirstBuffer, ListFirst
    <3>3. Slot(received[q]) = 0
      BY <1>0, <2>2 DEF Slot
    <3> QED  BY <1>0, <1>1, <1>2, <3>2, <3>3
  <2>3. CASE received[q] # 0
    <3>1. received[q] \in 1 .. RecvNums /\ received[q] < RecvNums
      BY <1>0, <1>4, <1>6, <2>3
    <3>2. Slot(received[q]) # 0
      <4>1. received[q] \in 1 .. (RecvNums - 1)
        BY <1>0, <3>1
      <4> QED  BY <4>1, OtherSlot
    <3>3. buffer0[q] = remote[q]
      BY <1>6, <2>1, <3>1 DEF FirstBuffer
    <3> QED  BY <1>0, <1>1, <3>2, <3>3
  <2> QED  BY <2>2, <2>3
<1>7. ASSUME NEW r \in Ends PROVE FirstBuffer(r)'
  <2>1. FirstBuffer(r)
    BY DEF BufferInv
  <2>2. CASE r = q
    <3>1. remote'[r] \in Ends /\ received'[r] # 0
      BY <1>1, <1>4, <2>2
    <3> QED  BY <1>1, <1>5, <1>6, <2>2, <3>1 DEF FirstBuffer
  <2>3. CASE r # q
    BY <1>1, <1>4, <1>5, <2>1, <2>3 DEF FirstBuffer
  <2> QED  BY <2>2, <2>3
<1>8. KeysOfPeer'
  <2> SUFFICES ASSUME NEW r \in Ends
               PROVE  /\ keys'[r] \in Ends => keys'[r] = remote'[r]
                      /\ keys'[r] = Junk => ~Sound(r)' \/ received'[r] > RecvNums
    BY DEF KeysOfPeer
  <2>1. /\ keys[r] \in Ends => keys[r] = remote[r]
        /\ keys[r] = Junk => ~Sound(r) \/ received[r] > RecvNums
    BY DEF BufferInv, KeysOfPeer
  <2>2. received[r] > RecvNums => received'[r] > RecvNums
    <3>1. CASE r = q
      BY <1>0, <1>4, <3>1
    <3>2. CASE r # q
      BY <1>4, <3>2
    <3> QED  BY <3>1, <3>2
  <2> QED  BY <1>1, <1>5, <2>1, <2>2
<1> QED  BY <1>3, <1>7, <1>8 DEF BufferInv

\* start_remote finds the list of the peer where it looks for it.
LEMMA StartRemoteBuffer ==
    ASSUME OpenInv, BufferInv, NEW p \in Ends, StartRemote(p)
    PROVE  BufferInv'
<1>0. keys \in [Ends -> Ends \cup {None, Junk}] /\ received \in [Ends -> Nat]
      /\ RecvNums \in Nat \ {0}
  BY SessionOpenAssumption DEF BufferInv, BufferTypes
<1>1. /\ keys' = [keys EXCEPT ![p] = IF buffer0[p] = listed[p] THEN listed[p] ELSE Junk]
      /\ UNCHANGED <<remote, rcq, received, buffer0, listed, broken>>
      /\ listed[p] # None /\ listed[p] \in Ends \cup {Junk}
  <2>1. listed[p] # None /\ listed[p] \in Ends \cup {None, Junk}
    BY StateTypes DEF StartRemote, OpenInv, Door
  <2> QED  BY <2>1 DEF StartRemote, qpVars, cqVars, bufVars
<1>2. BufferTypes'
  BY <1>0, <1>1 DEF BufferInv, BufferTypes
<1>3. \A r \in Ends : FirstBuffer(r)' /\ (Sound(r)' <=> Sound(r))
  BY <1>1 DEF BufferInv, FirstBuffer, Sound
<1>4. ASSUME Sound(p), ~(received[p] > RecvNums)
      PROVE  listed[p] \in Ends /\ buffer0[p] = listed[p]
  <2>1. listed[p] \in Ends /\ listed[p] = remote[p]
    BY <1>1, <1>4 DEF OpenInv, ListedIsPeer
  <2>2. received[p] # 0
    BY <1>1, <1>4 DEF BufferInv, FirstBuffer
  <2>3. received[p] \in 1 .. RecvNums
    BY <1>0, <1>4, <2>2
  <2> QED  BY <1>4, <2>1, <2>3 DEF BufferInv, FirstBuffer
<1>5. KeysOfPeer'
  <2> SUFFICES ASSUME NEW r \in Ends
               PROVE  /\ keys'[r] \in Ends => keys'[r] = remote'[r]
                      /\ keys'[r] = Junk => ~Sound(r)' \/ received'[r] > RecvNums
    BY DEF KeysOfPeer
  <2>1. CASE r = p
    <3>1. keys'[r] = IF buffer0[p] = listed[p] THEN listed[p] ELSE Junk
      BY <1>0, <1>1, <2>1
    <3>2. listed[p] \in Ends => listed[p] = remote[p]
      BY DEF OpenInv, ListedIsPeer
    <3> QED  BY <1>1, <1>3, <1>4, <2>1, <3>1, <3>2, ConstantFacts
  <2>2. CASE r # p
    <3>1. keys'[r] = keys[r]
      BY <1>0, <1>1, <2>2
    <3> QED  BY <1>1, <1>3, <3>1 DEF BufferInv, KeysOfPeer
  <2> QED  BY <2>1, <2>2
<1> QED  BY <1>2, <1>3, <1>5 DEF BufferInv

LEMMA InitBuffer == Init => BufferInv
<1> SUFFICES ASSUME Init PROVE BufferInv
  OBVIOUS
<1>1. BufferTypes
  BY DEF Init, BufferTypes
<1>2. \A p \in Ends : FirstBuffer(p)
  BY DEF Init, FirstBuffer
<1>3. KeysOfPeer
  BY ConstantFacts DEF Init, KeysOfPeer
<1> QED  BY <1>1, <1>2, <1>3 DEF BufferInv

LEMMA NextBuffer ==
    ASSUME OpenInv, BufferInv, [Next]_vars
    PROVE  BufferInv'
<1>0. \A r \in Ends : Sound(r) /\ received[r] = 0 => rcq[r] = <<>> /\ listed[r] = None
  BY DEF BufferInv, FirstBuffer
<1>1. ASSUME UNCHANGED <<received, buffer0, keys, listed, rcq>>,
             \A r \in Ends : remote'[r] = remote[r] \/ remote[r] = None,
             broken \subseteq broken'
      PROVE  BufferInv'
  <2>1. \A r \in Ends : Sound(r)' => Sound(r)
    BY <1>1, StateTypes, ConstantFacts DEF Sound
  <2>2. \A r \in Ends : Sound(r)' /\ received[r] = 0 => rcq'[r] = <<>> /\ listed'[r] = None
    BY <1>0, <1>1, <2>1
  <2> QED  BY <1>1, <2>2, BufferKept
<1>2. CASE UNCHANGED vars
  BY <1>1, <1>2 DEF vars, bufVars, appVars, cqVars, qpVars
<1>3. ASSUME NEW p \in Ends, Fail(p) \/ Close(p) PROVE BufferInv'
  BY <1>1, <1>3 DEF Fail, Close, bufVars, appVars, cqVars, qpVars
<1>4. ASSUME NEW p \in Ends,
             \/ CreateContext(p) \/ ConnectCtx(p) \/ PostRecv(p)
             \/ StartRw(p) \/ StartRwDone(p) \/ LatencyDone(p) \/ Latency(p)
      PROVE  BufferInv'
  <2>1. UNCHANGED <<received, buffer0, keys, listed, rcq, remote>>
    BY <1>4 DEF CreateContext, ConnectCtx, PostRecv, StartRw, StartRwDone, LatencyDone, Latency,
       bufVars, appVars, cqVars, qpVars
  <2>2. broken \subseteq broken'
    BY <1>4 DEF CreateContext, ConnectCtx, PostRecv, StartRw, StartRwDone, LatencyDone, Latency,
       QuerySendCq, Break
  <2> QED  BY <1>1, <2>1, <2>2
<1>5. ASSUME NEW p \in Ends, QueryDoor(p) PROVE BufferInv'
  <2>0. listed \in [Ends -> Ends \cup {None, Junk}]
        /\ rcq \in [Ends -> Seq(Ends \cup {"data", "err"})] /\ broken \subseteq Ends
    BY StateTypes
  <2>1. /\ UNCHANGED <<received, buffer0, keys, remote>> /\ broken \subseteq broken'
        /\ \A r \in Ends : r # p => rcq'[r] = rcq[r] /\ listed'[r] = listed[r]
        /\ p \in broken' \/ rcq[p] # <<>>
    BY <1>5, <2>0 DEF QueryDoor, Break, bufVars, qpVars
  <2>2. ASSUME NEW r \in Ends, Sound(r)', received[r] = 0
        PROVE  rcq'[r] = <<>> /\ listed'[r] = None
    <3>1. Sound(r)
      BY <2>1, <2>2 DEF Sound
    <3>2. r # p
      BY <1>0, <2>1, <2>2, <3>1 DEF Sound
    <3> QED  BY <1>0, <2>1, <2>2, <3>1, <3>2
  <2> QED  BY <2>1, <2>2, BufferKept
<1>6. ASSUME NEW p \in Ends, QuerySr(p) \/ GiveUp(p) PROVE BufferInv'
  <2>0. rcq \in [Ends -> Seq(Ends \cup {"data", "err"})]
    BY StateTypes
  <2>1. /\ UNCHANGED <<received, buffer0, keys, listed, remote>> /\ broken \subseteq broken'
        /\ \A r \in Ends : r # p => rcq'[r] = rcq[r]
        /\ p \in broken' \/ rcq'[p] = <<>>
    BY <1>6, <2>0 DEF QuerySr, GiveUp, Break, bufVars, appVars, qpVars
  <2>2. ASSUME NEW r \in Ends, Sound(r)', received[r] = 0
        PROVE  rcq'[r] = <<>> /\ listed'[r] = None
    <3>1. Sound(r)
      BY <2>1, <2>2 DEF Sound
    <3> QED  BY <1>0, <2>1, <2>2, <3>1 DEF Sound
  <2> QED  BY <2>1, <2>2, BufferKept
<1>7. ASSUME NEW c \in Clients, Connect(c) \/ ClientWrite(c) \/ UdpRefused(c) PROVE BufferInv'
  BY <1>1, <1>7 DEF Connect, ClientWrite, UdpRefused, bufVars, appVars, cqVars, qpVars
<1>8. ASSUME Listen \/ Accept \/ ServerWrite \/ ServerDone PROVE BufferInv'
  BY <1>1, <1>8 DEF Listen, Accept, ServerWrite, ServerDone, bufVars, appVars, cqVars, qpVars
<1>9. ASSUME NEW c \in Clients, ClientRead(c) PROVE BufferInv'
  <2>1. remote[c] = None
    BY <1>9 DEF OpenInv, ClientExchange, ClientRead
  <2>2. \A r \in Ends : remote'[r] = remote[r] \/ remote[r] = None
    BY <1>9, <2>1, StateTypes DEF ClientRead
  <2> QED  BY <1>1, <1>9, <2>2 DEF ClientRead, bufVars, appVars, cqVars
<1>10. ASSUME ServerRead PROVE BufferInv'
  <2>1. remote[Server] = None
    BY <1>10 DEF OpenInv, ServerExchange, ServerRead
  <2>2. \A r \in Ends : remote'[r] = remote[r] \/ remote[r] = None
    BY <1>10, <2>1, StateTypes DEF ServerRead
  <2> QED  BY <1>1, <1>10, <2>2 DEF ServerRead, bufVars, appVars, cqVars
<1> QED
  BY <1>2, <1>3, <1>4, <1>5, <1>6, <1>7, <1>8, <1>9, <1>10, DeliverBuffer, StartRemoteBuffer
     DEF Next, Program, ClientStep, ServerStep

\* The first receive buffer holds the peer's list until the messages have gone once
\* around the buffers, for any number of buffers.
THEOREM BufferInvariance == Spec => []BufferInv
<1>1. Init => BufferInv
  BY InitBuffer
<1>2. OpenInv /\ BufferInv /\ [Next]_vars => BufferInv'
  BY NextBuffer
<1> QED  BY <1>1, <1>2, OpenInvariance, PTL DEF Spec

-----------------------------------------------------------------------------
(* The theorems.                                                            *)

\* rdma_server_exch_dest connects the server's queue pair before it writes its
\* address, so a client whose queue pair can send has a server that can receive.
THEOREM ServerReadyFirstTheorem == Spec => [](TypeOK /\ ServerReadyFirst)
<1>0. OpenInv /\ BufferInv => TypeOK
  BY DEF OpenInv, BufferInv, TypeOK
<1>1. OpenInv => ServerReadyFirst
  <2> SUFFICES ASSUME OpenInv, NEW c \in Clients, qp[c] \in {"RTR", "RTS"}
               PROVE  /\ remote[c] = Server /\ remote[Server] = c
                      /\ qp[Server] \in {"RTS", "ERR"}
    BY DEF OpenInv, ServerReadyFirst
  <2>1. remote[c] \in Ends
    BY ConstantFacts DEF OpenInv, QpUp
  <2> QED  BY <2>1, ConstantFacts DEF OpenInv, ClientExchange
<1> QED  BY <1>0, <1>1, OpenInvariance, BufferInvariance, PTL

\* start_remote trusts the first entry door() polled and parses the first buffer: that
\* gives the peer's keys unless an adapter failed or more messages than there are
\* buffers came before it got there.
THEOREM KeysOfPeerTheorem == Spec => []KeysOfPeer
<1>1. BufferInv => KeysOfPeer
  BY DEF BufferInv
<1> QED  BY <1>1, BufferInvariance, PTL

\* door() throws away what it polled behind the list; a client that receives before it
\* sends has nothing there.
THEOREM ClientLosesNothingTheorem == Spec => []ClientLosesNothing
<1>1. OpenInv => ClientLosesNothing
  BY DEF OpenInv
<1> QED  BY <1>1, OpenInvariance, PTL

\* start_rw and latency() reap the completion of what they post, so none is left in
\* send_cq when the session is idle.
THEOREM IdleIsDrainedTheorem == Spec => []IdleIsDrained
<1>1. OpenInv => IdleIsDrained
  BY DEF OpenInv, Drained, IdleIsDrained
<1> QED  BY <1>1, OpenInvariance, PTL
=============================================================================
