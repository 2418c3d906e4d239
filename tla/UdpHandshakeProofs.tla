------------------------- MODULE UdpHandshakeProofs -------------------------
(***************************************************************************)
(* Theorems about UdpHandshake, for every number of workers, of calls and  *)
(* of resends: the two ends of a connection name each other, and what one  *)
(* connect() costs the server is bounded.                                  *)
(***************************************************************************)
EXTENDS UdpHandshake, FiniteSetTheorems, TLAPS

-----------------------------------------------------------------------------
(* The inductive invariant.                                                 *)

\* A queue pair that connect() made, and one that accept() made.
Client(q) == q \in 1 .. nq /\ owner[q] # target[q]
Server(s) == s \in 1 .. nq /\ owner[s] = target[s]

\* A server queue pair was made for a client of its worker; a client has no peer,
\* one that was never sent, or a server queue pair that was made for it.
Ends ==
    /\ \A q \in 1 .. nq : state[q] # "none" /\ owner[q] \in Threads /\ target[q] \in Threads
    /\ \A s \in 1 .. nq : Server(s) => Client(peer[s]) /\ target[peer[s]] = owner[s]
    /\ \A q \in 1 .. nq : Client(q) => \/ peer[q] \in {0, Junk}
                                       \/ Server(peer[q]) /\ peer[peer[q]] = q

\* Clients send requests and servers answers.
Traffic ==
    /\ \A q \in Qps : syn[q] > 0 => Client(q)
    /\ \A s \in Qps : rep[s] > 0 => Server(s)

\* The queue pair a thread is busy with is its own.
Places ==
    \A w \in Threads :
        /\ pc[w] \in Connecting => Client(qp[w]) /\ owner[qp[w]] = w
        /\ pc[w] \in {"c_rtr", "c_rts"} => peer[qp[w]] # 0
        /\ pc[w] \in {"a_send", "a_rtr", "a_rts"} => Server(qp[w]) /\ owner[qp[w]] = w

\* A client that is established has a peer.
HasPeer == \A q \in established : Client(q) /\ peer[q] # 0

\* The datagrams queue pair q may have sent by now.
Sent(q) ==
    IF pc[owner[q]] \in {"c_send", "a_send"} /\ qp[owner[q]] = q
    THEN retry[owner[q]] ELSE MaxRetry + 1

\* No client has more datagrams and sockets than it sent datagrams, and no server
\* more answers.
Budget ==
    /\ \A q \in 1 .. nq : Client(q) => Cardinality(Served(q)) + syn[q] <= Sent(q)
    /\ \A s \in 1 .. nq : Server(s) => rep[s] <= Sent(s)

\* Every client has a UDP socket of its own, the one its call of connect() made and
\* reads from, and a server answers to the socket of its client.
Addresses ==
    /\ \A q \in 1 .. nq : Client(q) => addr[q] \in 1 .. calls
    /\ \A q, r \in 1 .. nq : Client(q) /\ Client(r) /\ addr[q] = addr[r] => q = r
    /\ \A s \in 1 .. nq : Server(s) => addr[s] = addr[peer[s]]
    /\ \A w \in Threads : pc[w] \in Connecting => addr[qp[w]] = sd[w]

\* All of it but the sockets.
HandshakeInv ==
    /\ TypeOK
    /\ Ends
    /\ Traffic
    /\ Places
    /\ HasPeer
    /\ Budget

\* The invariant of the handshake.
FullInv == HandshakeInv /\ Addresses

-----------------------------------------------------------------------------
(* Facts about the bounds, and about Served.                                *)

\* The places of a thread.
Labels == {"loop", "assert"} \cup Connecting \cup Accepting

LEMMA BoundNat == MaxQp \in Nat /\ MaxRetry \in Nat
BY UdpHandshakeAssumption DEF MaxQp

\* The sockets made for a queue pair can be counted.
LEMMA ServedFinite ==
    ASSUME TypeOK, NEW q \in 1 .. nq
    PROVE  IsFiniteSet(Served(q)) /\ Cardinality(Served(q)) \in Nat
<1>1. nq \in Nat
  BY BoundNat DEF TypeOK
<1>2. IsFiniteSet(1 .. nq) /\ Served(q) \in SUBSET (1 .. nq)
  BY <1>1, FS_Interval DEF Served
<1> QED  BY <1>2, FS_Subset, FS_CardinalityType

\* What the bounds say of the counters.
LEMMA Counters ==
    ASSUME HandshakeInv
    PROVE  /\ nq \in Nat /\ nq <= MaxQp
           /\ \A q \in Qps : syn[q] \in Nat /\ rep[q] \in Nat
           /\ \A q \in 1 .. nq : q \in Qps /\ Sent(q) \in Nat /\ Sent(q) <= MaxRetry + 1
           /\ \A w \in Threads : retry[w] \in Nat /\ retry[w] <= MaxRetry
<1>1. /\ nq \in Nat /\ nq <= MaxQp
      /\ \A q \in Qps : syn[q] \in Nat /\ rep[q] \in Nat
      /\ \A w \in Threads : retry[w] \in Nat /\ retry[w] <= MaxRetry
  BY BoundNat DEF HandshakeInv, TypeOK
<1>2. \A q \in 1 .. nq : q \in Qps
  BY <1>1, BoundNat DEF Qps
<1>3. ASSUME NEW q \in 1 .. nq
      PROVE  Sent(q) \in Nat /\ Sent(q) <= MaxRetry + 1
  <2>1. owner[q] \in Threads
    BY DEF HandshakeInv, Ends
  <2> QED  BY <1>1, <2>1, BoundNat DEF Sent
<1> QED  BY <1>1, <1>2, <1>3

LEMMA InitHandshakeInv == Init => HandshakeInv
<1> SUFFICES ASSUME Init PROVE HandshakeInv
  OBVIOUS
<1>1. nq = 0 /\ 1 .. nq = {}
  BY DEF Init
<1>2. TypeOK
  <2>1. 0 \in 0 .. MaxQp /\ 0 \in 0 .. (MaxRetry + 1) /\ 0 \in 0 .. MaxRetry
        /\ 0 \in 0 .. MaxConnect
    BY BoundNat, UdpHandshakeAssumption
  <2>2. /\ owner \in [Qps -> Threads \cup {0}] /\ target \in [Qps -> Threads \cup {0}]
        /\ state \in [Qps -> {"none", "INIT", "RTR", "RTS"}]
    BY DEF Init
  <2>3. /\ peer \in [Qps -> 0 .. MaxQp \cup {Junk}]
        /\ syn \in [Qps -> 0 .. (MaxRetry + 1)] /\ rep \in [Qps -> 0 .. (MaxRetry + 1)]
    BY <2>1 DEF Init
  <2>4. /\ pc \in [Threads -> {"loop", "assert"} \cup Connecting \cup Accepting]
        /\ qp \in [Threads -> 0 .. MaxQp] /\ retry \in [Threads -> 0 .. MaxRetry]
    BY <2>1 DEF Init
  <2>5. /\ addr \in [Qps -> 0 .. MaxConnect] /\ sd \in [Threads -> 0 .. MaxConnect]
        /\ calls \in 0 .. MaxConnect
    BY <2>1 DEF Init
  <2> QED  BY <1>1, <2>1, <2>2, <2>3, <2>4, <2>5 DEF Init, TypeOK
<1>3. Ends /\ Budget
  BY <1>1 DEF Ends, Budget
<1>4. Traffic /\ Places /\ HasPeer
  BY DEF Init, Traffic, Places, HasPeer, Connecting
<1> QED  BY <1>2, <1>3, <1>4 DEF HandshakeInv

-----------------------------------------------------------------------------
(* Steps that make no queue pair and set no peer.                           *)

\* The queue pairs and their ends are as they were.
Fixed == /\ UNCHANGED <<nq, owner, target, peer>>
         /\ \A q \in 1 .. nq : state[q] # "none" => state'[q] # "none"

LEMMA FixedEnds ==
    ASSUME HandshakeInv, Fixed
    PROVE  /\ Ends'
           /\ \A q : (Client(q)' <=> Client(q)) /\ (Server(q)' <=> Server(q))
           /\ \A q \in 1 .. nq : Served(q)' = Served(q)
<1>1. \A q : (Client(q)' <=> Client(q)) /\ (Server(q)' <=> Server(q))
  BY DEF Fixed, Client, Server
<1>2. \A q \in 1 .. nq : Served(q)' = Served(q)
  BY DEF Fixed, Served
<1>3. Ends'
  <2>1. \A q \in 1 .. nq' : state'[q] # "none" /\ owner'[q] \in Threads /\ target'[q] \in Threads
    BY DEF HandshakeInv, Ends, Fixed
  <2>2. \A s \in 1 .. nq' : Server(s)' => Client(peer[s])' /\ target'[peer'[s]] = owner'[s]
    BY DEF HandshakeInv, Ends, Fixed, Client, Server
  <2>3. ASSUME NEW q \in 1 .. nq', Client(q)'
        PROVE  \/ peer'[q] \in {0, Junk}
               \/ Server(peer[q])' /\ peer'[peer'[q]] = q
    <3>1. q \in 1 .. nq /\ peer' = peer
      BY DEF Fixed
    <3>2. Client(q)
      BY <1>1, <2>3
    <3>3. peer[q] \in {0, Junk} \/ (Server(peer[q]) /\ peer[peer[q]] = q)
      BY <3>1, <3>2 DEF HandshakeInv, Ends
    <3>4. Server(peer[q]) => Server(peer[q])'
      BY DEF Fixed, Server
    <3> QED  BY <3>1, <3>3, <3>4
  <2> QED  BY <2>1, <2>2, <2>3 DEF Ends
<1> QED  BY <1>1, <1>2, <1>3

\* A thread goes on without beginning to send; its retry counter may change.
Move(w, l) ==
    /\ pc' = [pc EXCEPT ![w] = l]
    /\ l \in Labels \ {"c_send", "a_send"}
    /\ UNCHANGED <<nq, owner, target, qp>>
    /\ \A v \in Threads : v # w => retry'[v] = retry[v]

\* It may have sent one more datagram than before, and nobody else less.
LEMMA MoveSent ==
    ASSUME HandshakeInv, NEW w \in Threads, NEW l, Move(w, l)
    PROVE  /\ \A q \in 1 .. nq : Sent(q)' >= Sent(q) /\ Sent(q)' \in Nat
           /\ pc[w] \in {"c_send", "a_send"} /\ qp[w] \in 1 .. nq /\ owner[qp[w]] = w =>
                 Sent(qp[w])' >= Sent(qp[w]) + 1
<1>0. /\ pc \in [Threads -> Labels]
      /\ \A v \in Threads : retry[v] \in Nat /\ retry[v] <= MaxRetry
      /\ \A q \in 1 .. nq : Sent(q) \in Nat /\ Sent(q) <= MaxRetry + 1
  BY Counters DEF HandshakeInv, TypeOK, Labels
<1>1. /\ pc'[w] = l /\ l \notin {"c_send", "a_send"}
      /\ \A v \in Threads : v # w => pc'[v] = pc[v]
  BY <1>0 DEF Move
<1>2. ASSUME NEW q \in 1 .. nq
      PROVE  Sent(q)' >= Sent(q) /\ Sent(q)' \in Nat
  <2>1. owner[q] \in Threads /\ owner' = owner /\ qp' = qp
    BY DEF HandshakeInv, Ends, Move
  <2>2. CASE owner[q] = w
    <3>1. Sent(q)' = MaxRetry + 1
      BY <1>1, <2>1, <2>2 DEF Sent
    <3> QED  BY <1>0, <3>1, BoundNat
  <2>3. CASE owner[q] # w
    <3>1. Sent(q)' = Sent(q)
      BY <1>1, <2>1, <2>3 DEF Sent, Move
    <3> QED  BY <1>0, <3>1
  <2> QED  BY <2>2, <2>3
<1>3. ASSUME pc[w] \in {"c_send", "a_send"}, qp[w] \in 1 .. nq, owner[qp[w]] = w
      PROVE  Sent(qp[w])' >= Sent(qp[w]) + 1
  <2>1. Sent(qp[w]) = retry[w]
    BY <1>3 DEF Sent
  <2>2. Sent(qp[w])' = MaxRetry + 1
    BY <1>1, <1>3 DEF Sent, Move
  <2> QED  BY <1>0, <2>1, <2>2, BoundNat
<1> QED  BY <1>2, <1>3

\* It keeps Places when it stays on its way.
LEMMA MovePlaces ==
    ASSUME HandshakeInv, Fixed, NEW w \in Threads, NEW l, Move(w, l),
           l \in Connecting => pc[w] \in Connecting,
           l \in {"c_rtr", "c_rts"} => pc[w] \in {"c_rtr", "c_rts"},
           l \in {"a_rtr", "a_rts"} => pc[w] \in {"a_send", "a_rtr", "a_rts"}
    PROVE  Places' /\ pc' \in [Threads -> Labels]
<1>0. pc \in [Threads -> Labels]
  BY DEF HandshakeInv, TypeOK, Labels
<1>1. \A v \in Threads : pc'[v] = IF v = w THEN l ELSE pc[v]
  BY <1>0 DEF Move
<1>2. \A q : (Client(q)' <=> Client(q)) /\ (Server(q)' <=> Server(q))
  BY FixedEnds
<1>3. pc' \in [Threads -> Labels]
  BY <1>0 DEF Move
<1>4. Places'
  <2> SUFFICES ASSUME NEW v \in Threads
               PROVE  /\ pc'[v] \in Connecting => Client(qp[v])' /\ owner'[qp'[v]] = v
                      /\ pc'[v] \in {"c_rtr", "c_rts"} => peer'[qp'[v]] # 0
                      /\ pc'[v] \in {"a_send", "a_rtr", "a_rts"} =>
                            Server(qp[v])' /\ owner'[qp'[v]] = v
    BY DEF Places
  <2>1. UNCHANGED <<owner, qp, peer>> /\ (Client(qp[v])' <=> Client(qp[v]))
        /\ (Server(qp[v])' <=> Server(qp[v]))
    BY <1>2 DEF Move, Fixed, Client, Server
  <2>2. CASE v = w
    BY <1>1, <2>1, <2>2 DEF HandshakeInv, Places, Move
  <2>3. CASE v # w
    BY <1>1, <2>1, <2>3 DEF HandshakeInv, Places
  <2> QED  BY <2>2, <2>3
<1> QED  BY <1>3, <1>4

\* What remains to be shown of a step that makes no queue pair and sets no peer.
LEMMA FixedInv ==
    ASSUME HandshakeInv, Fixed, TypeOK', Places', Traffic', HasPeer',
           \A q \in 1 .. nq : Client(q) => /\ syn'[q] - syn[q] <= Sent(q)' - Sent(q)
                                           /\ Sent(q)' \in Nat,
           \A s \in 1 .. nq : Server(s) => /\ rep'[s] - rep[s] <= Sent(s)' - Sent(s)
                                             /\ Sent(s)' \in Nat
    PROVE  HandshakeInv'
<1>0. /\ \A q \in 1 .. nq : Sent(q) \in Nat /\ q \in Qps
      /\ \A q \in Qps : syn[q] \in Nat /\ rep[q] \in Nat
      /\ nq' = nq
  BY Counters DEF Fixed
<1>1. \A q \in 1 .. nq : syn'[q] \in Nat /\ rep'[q] \in Nat
  BY <1>0, BoundNat DEF TypeOK
<1>2. /\ Ends'
      /\ \A q : (Client(q)' <=> Client(q)) /\ (Server(q)' <=> Server(q))
      /\ \A q \in 1 .. nq : Served(q)' = Served(q)
  BY FixedEnds
<1>3. ASSUME NEW q \in 1 .. nq', Client(q)'
      PROVE  Cardinality(Served(q))' + syn'[q] <= Sent(q)'
  <2>1. Client(q) /\ q \in 1 .. nq
    BY <1>0, <1>2, <1>3
  <2>2. Cardinality(Served(q)) \in Nat
    BY <2>1, ServedFinite DEF HandshakeInv
  <2>3. Cardinality(Served(q)) + syn[q] <= Sent(q)
    BY <2>1 DEF HandshakeInv, Budget
  <2>4. syn'[q] - syn[q] <= Sent(q)' - Sent(q) /\ Sent(q)' \in Nat
    BY <2>1
  <2>5. Cardinality(Served(q))' = Cardinality(Served(q))
    BY <1>2, <2>1
  <2> HIDE DEF Sent, Served
  <2> QED  BY <1>0, <1>1, <2>1, <2>2, <2>3, <2>4, <2>5
<1>4. ASSUME NEW s \in 1 .. nq', Server(s)'
      PROVE  rep'[s] <= Sent(s)'
  <2>1. Server(s) /\ s \in 1 .. nq
    BY <1>0, <1>2, <1>4
  <2>2. rep[s] <= Sent(s)
    BY <2>1 DEF HandshakeInv, Budget
  <2> QED  BY <1>0, <1>1, <2>1, <2>2
<1>5. Budget'
  BY <1>3, <1>4 DEF Budget
<1> QED  BY <1>2, <1>5 DEF HandshakeInv

\* listen(), the event loop's call of accept(), and an accept() that gives up.
LEMMA IdleInv ==
    ASSUME HandshakeInv, NEW w \in Threads,
           \/ Listen(w) \/ Accept(w) \/ AcceptRecvError(w) \/ UNCHANGED vars
    PROVE  HandshakeInv'
<1>0. pc \in [Threads -> Labels] /\ listening \subseteq Threads
  BY DEF HandshakeInv, TypeOK, Labels
<1>1. /\ UNCHANGED <<qpVars, netVars, qp, retry, sd, calls, established>>
      /\ listening' \subseteq Threads
      /\ UNCHANGED pc \/ (pc[w] = "loop" /\ pc' = [pc EXCEPT ![w] = "a_recv"])
                      \/ (pc[w] = "a_recv" /\ pc' = [pc EXCEPT ![w] = "loop"])
  BY <1>0 DEF Listen, Accept, AcceptRecvError, Goto, vars
<1>2. Fixed
  BY <1>1 DEF Fixed, qpVars
<1>3. /\ pc' \in [Threads -> Labels] /\ Places'
      /\ \A q \in 1 .. nq : Sent(q)' >= Sent(q) /\ Sent(q)' \in Nat
  <2>1. CASE UNCHANGED pc
    <3>1. \A q \in 1 .. nq : Sent(q)' = Sent(q)
      BY <1>1, <2>1 DEF Sent, qpVars
    <3>2. Places'
      BY <1>1, <2>1 DEF HandshakeInv, Places, Client, Server, qpVars
    <3> QED  BY <1>0, <2>1, <3>1, <3>2, Counters
  <2>2. CASE pc[w] = "loop" /\ pc' = [pc EXCEPT ![w] = "a_recv"]
    <3>1. Move(w, "a_recv")
      BY <1>1, <2>2 DEF Move, qpVars, Labels, Accepting
    <3> QED  BY <1>2, <3>1, MoveSent, MovePlaces DEF Connecting
  <2>3. CASE pc[w] = "a_recv" /\ pc' = [pc EXCEPT ![w] = "loop"]
    <3>1. Move(w, "loop")
      BY <1>1, <2>3 DEF Move, qpVars, Labels
    <3> QED  BY <1>2, <3>1, MoveSent, MovePlaces DEF Connecting
  <2> QED  BY <1>1, <2>1, <2>2, <2>3
<1>4. TypeOK'
  BY <1>1, <1>3 DEF HandshakeInv, TypeOK, Labels, qpVars, netVars
<1>5. Traffic' /\ HasPeer'
  BY <1>1 DEF HandshakeInv, Traffic, HasPeer, Client, Server, qpVars, netVars
<1>6. \A q \in 1 .. nq : /\ syn'[q] - syn[q] <= Sent(q)' - Sent(q)
                         /\ rep'[q] - rep[q] <= Sent(q)' - Sent(q)
  <2>1. \A q \in 1 .. nq : /\ Sent(q) \in Nat /\ syn[q] \in Nat /\ rep[q] \in Nat
                           /\ syn'[q] = syn[q] /\ rep'[q] = rep[q]
    BY <1>1, Counters DEF netVars
  <2> HIDE DEF Sent
  <2> QED  BY <1>3, <2>1
<1> QED  BY <1>2, <1>3, <1>4, <1>5, <1>6, FixedInv

\* The network loses a datagram.
LEMMA LoseInv ==
    ASSUME HandshakeInv, NEW q \in Qps, Lose(q)
    PROVE  HandshakeInv'
<1>0. /\ syn \in [Qps -> 0 .. (MaxRetry + 1)] /\ rep \in [Qps -> 0 .. (MaxRetry + 1)]
      /\ peer \in [Qps -> 0 .. MaxQp \cup {Junk}] /\ dropped \subseteq Qps
      /\ MaxRetry \in Nat
  BY BoundNat DEF HandshakeInv, TypeOK
<1>1. /\ UNCHANGED <<listening, qpVars, pc, qp, retry, sd, calls, established>>
      /\ \/ /\ syn[q] > 0 /\ syn' = [syn EXCEPT ![q] = @ - 1]
            /\ rep' = rep /\ dropped' = dropped \cup {q}
         \/ /\ rep[q] > 0 /\ rep' = [rep EXCEPT ![q] = @ - 1]
            /\ syn' = syn /\ dropped' = dropped \cup {peer[q]}
  BY DEF Lose
<1>2. Fixed
  BY <1>1 DEF Fixed, qpVars
<1>3. /\ syn' \in [Qps -> 0 .. (MaxRetry + 1)] /\ rep' \in [Qps -> 0 .. (MaxRetry + 1)]
      /\ \A k \in Qps : syn'[k] <= syn[k] /\ rep'[k] <= rep[k]
  BY <1>0, <1>1
<1>4. dropped' \subseteq Qps
  <2>1. rep[q] > 0 => peer[q] \in Qps
    <3>1. rep[q] > 0 => Server(q)
      BY DEF HandshakeInv, Traffic
    <3>2. Server(q) => peer[q] \in 1 .. nq
      BY DEF HandshakeInv, Ends, Server, Client
    <3> QED  BY <3>1, <3>2, Counters
  <2> QED  BY <1>0, <1>1, <2>1
<1>5. TypeOK'
  BY <1>1, <1>3, <1>4 DEF HandshakeInv, TypeOK, qpVars
<1>6. Traffic'
  <2>1. \A k \in Qps : (syn'[k] > 0 => syn[k] > 0) /\ (rep'[k] > 0 => rep[k] > 0)
    BY <1>0, <1>3
  <2> QED  BY <1>1, <2>1 DEF HandshakeInv, Traffic, Client, Server, qpVars
<1>7. Places' /\ HasPeer'
  BY <1>1 DEF HandshakeInv, Places, HasPeer, Client, Server, qpVars
<1>8. \A k \in 1 .. nq : /\ syn'[k] - syn[k] <= Sent(k)' - Sent(k)
                         /\ rep'[k] - rep[k] <= Sent(k)' - Sent(k)
                         /\ Sent(k)' \in Nat
  <2> SUFFICES ASSUME NEW k \in 1 .. nq
               PROVE  /\ syn'[k] - syn[k] <= Sent(k)' - Sent(k)
                      /\ rep'[k] - rep[k] <= Sent(k)' - Sent(k)
                      /\ Sent(k)' \in Nat
    OBVIOUS
  <2>1. Sent(k)' = Sent(k) /\ Sent(k) \in Nat /\ k \in Qps
    BY <1>1, Counters DEF Sent, qpVars
  <2>2. syn[k] \in Nat /\ rep[k] \in Nat /\ syn'[k] \in Nat /\ rep'[k] \in Nat
    BY <1>0, <1>3, <2>1
  <2> QED  BY <1>3, <2>1, <2>2
<1> QED  BY <1>2, <1>5, <1>6, <1>7, <1>8, FixedInv

\* A thread sends a datagram, or fails to, and tries again or goes on.
LEMMA SendToInv ==
    ASSUME HandshakeInv, NEW w \in Threads, NEW sent \in BOOLEAN, NEW result \in Results,
           SendTo(w, sent, result)
    PROVE  HandshakeInv'
<1> DEFINE q == qp[w]
<1>0. /\ syn \in [Qps -> 0 .. (MaxRetry + 1)] /\ rep \in [Qps -> 0 .. (MaxRetry + 1)]
      /\ retry \in [Threads -> 0 .. MaxRetry] /\ pc \in [Threads -> Labels]
      /\ peer \in [Qps -> 0 .. MaxQp \cup {Junk}] /\ dropped \subseteq Qps
      /\ MaxRetry \in Nat
  BY BoundNat DEF HandshakeInv, TypeOK, Labels
<1>1. /\ pc[w] \in {"c_send", "a_send"}
      /\ UNCHANGED <<listening, qpVars, qp, sd, calls, established>>
      /\ \E a \in {0, 1} : /\ syn' = [syn EXCEPT ![q] = @ + a]
                           /\ a = 1 => IsClient(w)
      /\ \E b \in {0, 1} : /\ rep' = [rep EXCEPT ![q] = @ + b]
                           /\ b = 1 => ~IsClient(w)
      /\ dropped' \subseteq dropped \cup {IF IsClient(w) THEN q ELSE peer[q]}
      /\ \/ /\ retry[w] < MaxRetry
            /\ retry' = [retry EXCEPT ![w] = @ + 1]
            /\ pc' = pc
         \/ /\ pc' = [pc EXCEPT ![w] = AfterSend(w, result = "ok")]
            /\ retry' = [retry EXCEPT ![w] = 0]
  <2>1. /\ pc[w] \in {"c_send", "a_send"}
        /\ UNCHANGED <<listening, qpVars, qp, sd, calls, established>>
        /\ dropped' \subseteq dropped \cup {IF IsClient(w) THEN q ELSE peer[q]}
        /\ \/ /\ retry[w] < MaxRetry
              /\ retry' = [retry EXCEPT ![w] = @ + 1]
              /\ pc' = pc
           \/ /\ pc' = [pc EXCEPT ![w] = AfterSend(w, result = "ok")]
              /\ retry' = [retry EXCEPT ![w] = 0]
    BY DEF SendTo, Goto, MayRetry
  <2>2. /\ syn' = [syn EXCEPT ![q] = IF IsClient(w) /\ sent /\ target[q] \in listening
                                     THEN @ + 1 ELSE @]
        /\ rep' = [rep EXCEPT ![q] = IF ~IsClient(w) /\ sent THEN @ + 1 ELSE @]
    BY DEF SendTo
  <2>3. \A k \in Qps : syn[k] + 0 = syn[k] /\ rep[k] + 0 = rep[k]
    BY <1>0
  <2>4. q \in Qps
    BY <2>1, Counters DEF HandshakeInv, Places, Client, Server, Connecting
  <2>5. \E a \in {0, 1} : /\ syn' = [syn EXCEPT ![q] = @ + a]
                          /\ a = 1 => IsClient(w)
    <3>1. CASE IsClient(w) /\ sent /\ target[q] \in listening
      BY <2>2, <3>1
    <3>2. CASE ~(IsClient(w) /\ sent /\ target[q] \in listening)
      <4>1. syn' = [syn EXCEPT ![q] = @ + 0]
        BY <2>2, <2>3, <2>4, <3>2
      <4> QED  BY <4>1
    <3> QED  BY <3>1, <3>2
  <2>6. \E b \in {0, 1} : /\ rep' = [rep EXCEPT ![q] = @ + b]
                          /\ b = 1 => ~IsClient(w)
    <3>1. CASE ~IsClient(w) /\ sent
      BY <2>2, <3>1
    <3>2. CASE ~(~IsClient(w) /\ sent)
      <4>1. rep' = [rep EXCEPT ![q] = @ + 0]
        BY <2>2, <2>3, <2>4, <3>2
      <4> QED  BY <4>1
    <3> QED  BY <3>1, <3>2
  <2> QED  BY <2>1, <2>5, <2>6
<1>2. PICK a \in {0, 1} : syn' = [syn EXCEPT ![q] = @ + a] /\ (a = 1 => IsClient(w))
  BY <1>1
<1>3. PICK b \in {0, 1} : rep' = [rep EXCEPT ![q] = @ + b] /\ (b = 1 => ~IsClient(w))
  BY <1>1
<1>4. /\ q \in 1 .. nq /\ q \in Qps /\ owner[q] = w
      /\ IsClient(w) => Client(q) /\ pc[w] = "c_send"
      /\ ~IsClient(w) => Server(q) /\ pc[w] = "a_send"
  BY <1>1, Counters DEF HandshakeInv, Places, Client, Server, Connecting, IsClient
<1>5. Fixed
  BY <1>1 DEF Fixed, qpVars
<1>6. Sent(q) = retry[w] /\ retry[w] \in Nat /\ retry[w] <= MaxRetry
  BY <1>1, <1>4, Counters DEF Sent
<1>7. /\ Places' /\ pc' \in [Threads -> Labels]
      /\ retry' \in [Threads -> 0 .. MaxRetry]
      /\ \A k \in 1 .. nq : Sent(k)' >= Sent(k) /\ Sent(k)' \in Nat
      /\ Sent(q)' >= Sent(q) + 1
  <2>1. CASE retry[w] < MaxRetry /\ retry' = [retry EXCEPT ![w] = @ + 1] /\ pc' = pc
    <3>1. Places'
      BY <1>1, <2>1 DEF HandshakeInv, Places, Client, Server, qpVars
    <3>2. retry' \in [Threads -> 0 .. MaxRetry]
      BY <1>0, <1>6, <2>1
    <3>3. Sent(q)' = retry[w] + 1
      BY <1>0, <1>1, <1>4, <2>1 DEF Sent, qpVars
    <3>4. ASSUME NEW k \in 1 .. nq, k # q PROVE Sent(k)' = Sent(k)
      <4>1. owner[k] \in Threads
        BY DEF HandshakeInv, Ends
      <4> QED  BY <1>0, <1>1, <2>1, <3>4, <4>1 DEF Sent, qpVars
    <3>5. ASSUME NEW k \in 1 .. nq PROVE Sent(k)' >= Sent(k) /\ Sent(k)' \in Nat
      <4>1. Sent(k) \in Nat
        BY Counters
      <4>2. CASE k = q
        <5>1. Sent(k)' = Sent(q)'
          BY <1>1, <4>2 DEF Sent
        <5> QED  BY <1>6, <3>3, <4>2, <5>1
      <4>3. CASE k # q
        BY <3>4, <4>1, <4>3
      <4> QED  BY <4>2, <4>3
    <3> QED  BY <1>0, <1>6, <2>1, <3>1, <3>2, <3>3, <3>5
  <2>2. CASE /\ pc' = [pc EXCEPT ![w] = AfterSend(w, result = "ok")]
             /\ retry' = [retry EXCEPT ![w] = 0]
    <3> DEFINE l == AfterSend(w, result = "ok")
    <3>1. /\ l \in {"c_recv", "loop", "a_rtr"}
          /\ l = "c_recv" => pc[w] = "c_send"
          /\ l = "a_rtr" => pc[w] = "a_send"
      BY <1>4 DEF AfterSend
    <3> HIDE DEF l
    <3>2. Move(w, l)
      BY <1>0, <1>1, <2>2, <3>1 DEF Move, Labels, Connecting, Accepting, qpVars, l
    <3>3. Places' /\ pc' \in [Threads -> Labels]
      BY <1>5, <3>1, <3>2, MovePlaces DEF Connecting
    <3>4. retry' \in [Threads -> 0 .. MaxRetry]
      BY <1>0, <2>2
    <3> QED  BY <1>1, <1>4, <3>2, <3>3, <3>4, MoveSent
  <2> QED  BY <1>1, <2>1, <2>2
<1>8. /\ syn[q] + a <= MaxRetry + 1
      /\ rep[q] + b <= MaxRetry + 1
  <2>1. Cardinality(Served(q)) \in Nat
    BY <1>4, ServedFinite DEF HandshakeInv
  <2>2. Client(q) => Cardinality(Served(q)) + syn[q] <= retry[w]
    BY <1>4, <1>6 DEF HandshakeInv, Budget
  <2>3. Server(q) => rep[q] <= retry[w]
    BY <1>4, <1>6 DEF HandshakeInv, Budget
  <2>4. syn[q] \in 0 .. (MaxRetry + 1) /\ rep[q] \in 0 .. (MaxRetry + 1)
    BY <1>0, <1>4
  <2>5. a = 1 => Client(q)
    BY <1>2, <1>4
  <2>6. b = 1 => Server(q)
    BY <1>3, <1>4
  <2> HIDE DEF q, Served
  <2> QED  BY <1>0, <1>6, <2>1, <2>2, <2>3, <2>4, <2>5, <2>6
<1>9. TypeOK'
  <2>1. syn' \in [Qps -> 0 .. (MaxRetry + 1)] /\ rep' \in [Qps -> 0 .. (MaxRetry + 1)]
    BY <1>0, <1>2, <1>3, <1>4, <1>8
  <2>2. dropped' \subseteq Qps
    <3>1. ~IsClient(w) => peer[q] \in Qps
      BY <1>4, Counters DEF HandshakeInv, Ends, Client
    <3> QED  BY <1>0, <1>1, <1>4, <3>1
  <2> QED  BY <1>1, <1>7, <2>1, <2>2 DEF HandshakeInv, TypeOK, qpVars, Labels
<1>10. Traffic'
  <2>1. \A k \in Qps : syn'[k] > 0 => syn[k] > 0 \/ (k = q /\ Client(q))
    BY <1>0, <1>2, <1>4
  <2>2. \A k \in Qps : rep'[k] > 0 => rep[k] > 0 \/ (k = q /\ Server(q))
    BY <1>0, <1>3, <1>4
  <2>3. \A k : (Client(k)' <=> Client(k)) /\ (Server(k)' <=> Server(k))
    BY <1>5, FixedEnds
  <2> QED  BY <2>1, <2>2, <2>3 DEF HandshakeInv, Traffic
<1>11. HasPeer'
  BY <1>1 DEF HandshakeInv, HasPeer, Client, Server, qpVars
<1>12. ASSUME NEW k \in 1 .. nq
       PROVE  /\ syn'[k] - syn[k] <= Sent(k)' - Sent(k)
              /\ rep'[k] - rep[k] <= Sent(k)' - Sent(k)
              /\ Sent(k)' \in Nat
  <2>1. Sent(k) \in Nat /\ k \in Qps /\ syn[k] \in Nat /\ rep[k] \in Nat
    BY Counters
  <2>2. Sent(k)' >= Sent(k) /\ Sent(k)' \in Nat /\ (k = q => Sent(k)' >= Sent(k) + 1)
    <3>1. k = q => Sent(k)' = Sent(q)'
      BY <1>1 DEF Sent
    <3> QED  BY <1>7, <3>1
  <2>3. /\ syn'[k] = IF k = q THEN syn[k] + a ELSE syn[k]
        /\ rep'[k] = IF k = q THEN rep[k] + b ELSE rep[k]
    BY <1>0, <1>2, <1>3, <2>1
  <2> HIDE DEF q, Sent
  <2> QED  BY <2>1, <2>2, <2>3
<1> QED  BY <1>5, <1>7, <1>9, <1>10, <1>11, <1>12, FixedInv

\* activate(): a queue pair goes up one state, or its thread gives up.
LEMMA ActivateInv ==
    ASSUME HandshakeInv, NEW w \in Threads, Activate(w)
    PROVE  HandshakeInv'
<1>0. /\ pc \in [Threads -> Labels]
      /\ state \in [Qps -> {"none", "INIT", "RTR", "RTS"}]
      /\ broken \subseteq Qps /\ established \subseteq Qps
  BY DEF HandshakeInv, TypeOK, Labels
<1>1. PICK from \in {"c_rtr", "a_rtr", "c_rts", "a_rts"}, to \in {"RTR", "RTS"},
           next \in {"c_rts", "a_rts", "loop"} :
         /\ Modify(w, from, to, next)
         /\ next = "c_rts" => from = "c_rtr"
         /\ next = "a_rts" => from = "a_rtr"
  BY DEF Activate
<1>2. PICK l \in {"c_rts", "a_rts", "loop", "assert"} :
         /\ pc' = [pc EXCEPT ![w] = l]
         /\ l = "c_rts" => from = "c_rtr"
         /\ l = "a_rts" => from = "a_rtr"
  BY <1>1 DEF Modify, Goto
<1>3. /\ pc[w] = from
      /\ UNCHANGED <<listening, nq, owner, target, peer, addr, netVars, qp, retry, sd, calls>>
      /\ state' = state \/ state' = [state EXCEPT ![qp[w]] = to]
      /\ broken' \subseteq broken \cup {qp[w]}
      /\ established' \subseteq established \cup {qp[w]}
      /\ from # "c_rts" => established' = established
  BY <1>1 DEF Modify
<1>4. qp[w] \in 1 .. nq /\ qp[w] \in Qps
  BY <1>1, <1>3, Counters DEF HandshakeInv, Places, Client, Server, Connecting
<1>5. Fixed
  <2>1. \A q \in 1 .. nq : q \in Qps
    BY Counters
  <2>2. \A q \in 1 .. nq : state[q] # "none" => state'[q] # "none"
    BY <1>0, <1>1, <1>3, <2>1
  <2> QED  BY <1>3, <2>2 DEF Fixed
<1>6. Move(w, l)
  BY <1>2, <1>3 DEF Move, Labels, Connecting, Accepting
<1>7. Places' /\ pc' \in [Threads -> Labels]
  BY <1>2, <1>3, <1>5, <1>6, MovePlaces DEF Connecting
<1>8. TypeOK'
  <2>1. state' \in [Qps -> {"none", "INIT", "RTR", "RTS"}]
    BY <1>0, <1>1, <1>3
  <2>2. broken' \subseteq Qps /\ established' \subseteq Qps
    BY <1>0, <1>3, <1>4
  <2> QED  BY <1>3, <1>7, <2>1, <2>2 DEF HandshakeInv, TypeOK, Labels, netVars
<1>9. Traffic'
  BY <1>3 DEF HandshakeInv, Traffic, Client, Server, netVars
<1>10. HasPeer'
  <2>1. from = "c_rts" => Client(qp[w]) /\ peer[qp[w]] # 0
    BY <1>3 DEF HandshakeInv, Places, Connecting
  <2>2. \A q \in established' : Client(q) /\ peer[q] # 0
    BY <1>3, <2>1 DEF HandshakeInv, HasPeer
  <2> QED  BY <1>3, <2>2 DEF HasPeer, Client
<1>11. ASSUME NEW k \in 1 .. nq
       PROVE  /\ syn'[k] - syn[k] <= Sent(k)' - Sent(k)
              /\ rep'[k] - rep[k] <= Sent(k)' - Sent(k)
              /\ Sent(k)' \in Nat
  <2>1. Sent(k) \in Nat /\ syn[k] \in Nat /\ rep[k] \in Nat
    BY Counters
  <2>2. Sent(k)' >= Sent(k) /\ Sent(k)' \in Nat
    BY <1>6, MoveSent
  <2>3. syn'[k] = syn[k] /\ rep'[k] = rep[k]
    BY <1>3 DEF netVars
  <2> HIDE DEF Sent
  <2> QED  BY <2>1, <2>2, <2>3
<1> QED  BY <1>5, <1>7, <1>8, <1>9, <1>10, <1>11, FixedInv

-----------------------------------------------------------------------------
(* connect() takes its answer.                                              *)

\* Setting the peer of a client makes no socket of anybody's: a client is in no
\* Served set.
LEMMA SetPeerInv ==
    ASSUME HandshakeInv, NEW w \in Threads, NEW m, NEW l \in {"c_rtr", "loop"},
           pc[w] = "c_recv",
           m \in {0, Junk} \/ (Server(m) /\ peer[m] = qp[w]),
           l = "c_rtr" => m # 0,
           \/ peer' = peer /\ l = "loop"
           \/ peer' = [peer EXCEPT ![qp[w]] = m] /\ l = "c_rtr",
           pc' = [pc EXCEPT ![w] = l],
           rep' \in [Qps -> 0 .. (MaxRetry + 1)],
           \A s \in Qps : rep'[s] <= rep[s],
           UNCHANGED <<listening, nq, state, owner, target, addr, broken, syn, dropped, qp,
                       retry, sd, calls, established>>
    PROVE  HandshakeInv'
<1>0. /\ pc \in [Threads -> Labels] /\ nq \in Nat /\ nq <= MaxQp
      /\ peer \in [Qps -> 0 .. MaxQp \cup {Junk}]
      /\ rep \in [Qps -> 0 .. (MaxRetry + 1)] /\ MaxRetry \in Nat /\ MaxQp \in Nat
  BY BoundNat, Counters DEF HandshakeInv, TypeOK, Labels
<1>1. Client(qp[w]) /\ owner[qp[w]] = w /\ qp[w] \in 1 .. nq /\ qp[w] \in Qps
  BY Counters DEF HandshakeInv, Places, Connecting, Client
<1>2. \A q : (Client(q)' <=> Client(q)) /\ (Server(q)' <=> Server(q))
  BY DEF Client, Server
<1>3. /\ \A q \in 1 .. nq : q # qp[w] => peer'[q] = peer[q]
      /\ \A s : Server(s) => s \in Qps /\ s # qp[w] /\ peer'[s] = peer[s]
      /\ l = "c_rtr" => peer'[qp[w]] = m
      /\ l = "loop" => peer' = peer
  <2>1. \A q \in 1 .. nq : q \in Qps
    BY Counters
  <2>2. \A s : Server(s) => s \in 1 .. nq /\ s # qp[w]
    BY <1>1 DEF Server, Client
  <2> QED  BY <1>0, <1>1, <2>1, <2>2
<1>4. Move(w, l)
  BY DEF Move, Labels, Connecting
<1>5. Ends'
  <2>1. \A q \in 1 .. nq' : state'[q] # "none" /\ owner'[q] \in Threads /\ target'[q] \in Threads
    BY DEF HandshakeInv, Ends
  <2>2. ASSUME NEW s \in 1 .. nq', Server(s)'
        PROVE  Client(peer[s])' /\ target'[peer'[s]] = owner'[s]
    <3>1. Server(s) /\ peer'[s] = peer[s]
      BY <1>2, <1>3, <2>2
    <3>2. Client(peer[s]) /\ target[peer[s]] = owner[s]
      BY <3>1 DEF HandshakeInv, Ends, Server
    <3> QED  BY <3>1, <3>2 DEF Client
  <2>3. ASSUME NEW q \in 1 .. nq', Client(q)'
        PROVE  \/ peer'[q] \in {0, Junk}
               \/ Server(peer[q])' /\ peer'[peer'[q]] = q
    <3>1. Client(q) /\ q \in 1 .. nq
      BY <1>2, <2>3
    <3>2. peer[q] \in {0, Junk} \/ (Server(peer[q]) /\ peer[peer[q]] = q)
      BY <3>1 DEF HandshakeInv, Ends
    <3>3. CASE q = qp[w] /\ l = "c_rtr"
      <4>1. peer'[q] = m
        BY <1>3, <3>3
      <4>2. Server(m) => Server(peer[q])' /\ peer'[m] = peer[m]
        BY <1>3, <4>1 DEF Server
      <4> QED  BY <3>3, <4>1, <4>2
    <3>4. CASE ~(q = qp[w] /\ l = "c_rtr")
      <4>1. peer'[q] = peer[q]
        BY <1>3, <3>1, <3>4
      <4>2. Server(peer[q]) => Server(peer[q])' /\ peer'[peer[q]] = peer[peer[q]]
        BY <1>3, <4>1 DEF Server
      <4> QED  BY <3>2, <4>1, <4>2
    <3> QED  BY <3>3, <3>4
  <2> QED  BY <2>1, <2>2, <2>3 DEF Ends
<1>6. TypeOK'
  <2>1. m \in 0 .. MaxQp \cup {Junk}
    BY <1>0 DEF Server
  <2>2. peer' \in [Qps -> 0 .. MaxQp \cup {Junk}]
    BY <1>0, <2>1
  <2>3. pc' \in [Threads -> Labels]
    BY <1>0 DEF Labels, Connecting
  <2> QED  BY <2>2, <2>3 DEF HandshakeInv, TypeOK, Labels
<1>7. Traffic'
  <2>1. \A s \in Qps : rep'[s] > 0 => rep[s] > 0
    BY <1>0
  <2> QED  BY <1>2, <2>1 DEF HandshakeInv, Traffic
<1>8. Places'
  <2> SUFFICES ASSUME NEW v \in Threads
               PROVE  /\ pc'[v] \in Connecting => Client(qp[v])' /\ owner'[qp'[v]] = v
                      /\ pc'[v] \in {"c_rtr", "c_rts"} => peer'[qp'[v]] # 0
                      /\ pc'[v] \in {"a_send", "a_rtr", "a_rts"} =>
                            Server(qp[v])' /\ owner'[qp'[v]] = v
    BY DEF Places
  <2>1. /\ UNCHANGED <<owner, qp>>
        /\ Client(qp[v])' <=> Client(qp[v])
        /\ Server(qp[v])' <=> Server(qp[v])
    BY DEF Client, Server
  <2>2. CASE v = w
    <3>1. pc'[v] = l
      BY <1>0, <2>2
    <3> QED  BY <1>1, <1>3, <2>1, <2>2, <3>1 DEF Connecting
  <2>3. CASE v # w
    <3>1. pc'[v] = pc[v]
      BY <1>0, <2>3
    <3>2. pc[v] \in Connecting => Client(qp[v]) /\ owner[qp[v]] = v
      BY DEF HandshakeInv, Places
    <3>3. pc[v] \in {"c_rtr", "c_rts"} => peer'[qp[v]] = peer[qp[v]]
      BY <1>1, <1>3, <2>3, <3>2 DEF Connecting, Client
    <3> QED  BY <2>1, <3>1, <3>3 DEF HandshakeInv, Places
  <2> QED  BY <2>2, <2>3
<1>9. HasPeer'
  <2> SUFFICES ASSUME NEW q \in established PROVE Client(q)' /\ peer'[q] # 0
    BY DEF HasPeer
  <2>1. Client(q) /\ peer[q] # 0
    BY DEF HandshakeInv, HasPeer
  <2>2. q \in 1 .. nq
    BY <2>1 DEF Client
  <2>3. peer'[q] # 0
    BY <1>3, <2>1, <2>2
  <2> QED  BY <1>2, <2>1, <2>3
<1>10. Budget'
  <2>1. ASSUME NEW q \in 1 .. nq', Client(q)'
        PROVE  Cardinality(Served(q))' + syn'[q] <= Sent(q)'
    <3>1. Client(q) /\ q \in 1 .. nq
      BY <1>2, <2>1
    <3>2. Cardinality(Served(q)) \in Nat
      BY <3>1, ServedFinite DEF HandshakeInv
    <3>3. peer[qp[w]] # q /\ peer'[qp[w]] # q
      <4>1. q \notin {0, Junk} /\ ~Server(q)
        BY <1>0, <3>1, UdpHandshakeAssumption DEF Client, Server
      <4>2. peer[qp[w]] \in {0, Junk} \/ Server(peer[qp[w]])
        BY <1>1 DEF HandshakeInv, Ends
      <4> QED  BY <1>3, <4>1, <4>2
    <3>4. \A s \in 1 .. nq : peer'[s] = q <=> peer[s] = q
      BY <1>3, <3>3
    <3>5. Sent(q)' >= Sent(q) /\ Sent(q)' \in Nat /\ Sent(q) \in Nat /\ syn[q] \in Nat
      BY <1>4, <3>1, MoveSent, Counters
    <3>6. Cardinality(Served(q)) + syn[q] <= Sent(q)
      BY <3>1 DEF HandshakeInv, Budget
    <3>7. Served(q)' = Served(q)
      BY <3>4 DEF Served
    <3> HIDE DEF Sent, Served
    <3> QED  BY <3>2, <3>5, <3>6, <3>7
  <2>2. ASSUME NEW s \in 1 .. nq', Server(s)'
        PROVE  rep'[s] <= Sent(s)'
    <3>1. Server(s) /\ s \in 1 .. nq /\ s \in Qps
      BY <1>2, <1>3, <2>2
    <3>2. rep[s] <= Sent(s)
      BY <3>1 DEF HandshakeInv, Budget
    <3>3. Sent(s)' >= Sent(s) /\ Sent(s)' \in Nat /\ Sent(s) \in Nat
      BY <1>4, <3>1, MoveSent, Counters
    <3>4. rep'[s] <= rep[s] /\ rep'[s] \in Nat /\ rep[s] \in Nat
      BY <1>0, <3>1
    <3> QED  BY <3>2, <3>3, <3>4
  <2> QED  BY <2>1, <2>2 DEF Budget
<1> QED  BY <1>5, <1>6, <1>7, <1>8, <1>9, <1>10 DEF HandshakeInv

-----------------------------------------------------------------------------
(* connect() and accept() make a queue pair.                                *)

\* A new queue pair is nobody's peer, and belongs to one client at most: connect()
\* makes one without a peer (m = 0), accept() one for the datagram of client m.
LEMMA NewQpInv ==
    ASSUME HandshakeInv, NEW w \in Threads, NEW t \in Threads, NEW m,
           NEW l \in {"c_send", "assert", "a_send"},
           NEW a \in 0 .. MaxConnect, NewQp(w, t, m, a),
           pc[w] \in {"loop", "a_recv"}, pc' = [pc EXCEPT ![w] = l],
           \/ t # w /\ m = 0 /\ l # "a_send" /\ syn' = syn
           \/ /\ t = w /\ l = "a_send"
              /\ Client(m) /\ target[m] = w
              /\ syn[m] > 0 /\ syn' = [syn EXCEPT ![m] = @ - 1],
           calls' \in 0 .. MaxConnect, sd' \in [Threads -> 0 .. MaxConnect],
           UNCHANGED <<listening, rep, dropped, established>>
    PROVE  HandshakeInv'
<1> DEFINE n == nq + 1
<1>0. /\ nq \in Nat /\ MaxQp \in Nat /\ MaxRetry \in Nat /\ Junk \notin Nat
      /\ pc \in [Threads -> Labels] /\ qp \in [Threads -> 0 .. MaxQp]
      /\ retry \in [Threads -> 0 .. MaxRetry]
      /\ state \in [Qps -> {"none", "INIT", "RTR", "RTS"}]
      /\ owner \in [Qps -> Threads \cup {0}] /\ target \in [Qps -> Threads \cup {0}]
      /\ peer \in [Qps -> 0 .. MaxQp \cup {Junk}]
      /\ syn \in [Qps -> 0 .. (MaxRetry + 1)] /\ rep \in [Qps -> 0 .. (MaxRetry + 1)]
  BY BoundNat, Counters, UdpHandshakeAssumption DEF HandshakeInv, TypeOK, Labels
<1>1. /\ n \in Qps /\ n \in Nat /\ n \notin 1 .. nq /\ nq' = n
      /\ 1 .. nq' = (1 .. nq) \cup {n}
      /\ \A q \in 1 .. nq : q \in Qps /\ q \in Nat /\ q # n
      /\ nq' \in 0 .. MaxQp
  <2>1. nq < MaxQp /\ nq' = n
    BY DEF NewQp
  <2>2. n \in Qps /\ n \in Nat /\ n \notin 1 .. nq /\ nq' \in 0 .. MaxQp
    BY <1>0, <2>1 DEF Qps
  <2>3. 1 .. nq' = (1 .. nq) \cup {n}
    BY <1>0, <2>1
  <2>4. \A q \in 1 .. nq : q \in Qps /\ q \in Nat /\ q # n
    BY <1>0, <2>1 DEF Qps
  <2> QED  BY <2>1, <2>2, <2>3, <2>4
<1>2. /\ state' = [state EXCEPT ![n] = "INIT"]
      /\ owner' = [owner EXCEPT ![n] = w] /\ target' = [target EXCEPT ![n] = t]
      /\ peer' = [peer EXCEPT ![n] = m] /\ qp' = [qp EXCEPT ![w] = n]
      /\ retry' = [retry EXCEPT ![w] = 0] /\ broken' = broken
      /\ addr' = [addr EXCEPT ![n] = a]
  BY DEF NewQp
<1> HIDE DEF n
<1>3. /\ state'[n] = "INIT" /\ owner'[n] = w /\ target'[n] = t /\ peer'[n] = m
      /\ \A q \in 1 .. nq : /\ state'[q] = state[q] /\ owner'[q] = owner[q]
                            /\ target'[q] = target[q] /\ peer'[q] = peer[q]
  BY <1>0, <1>1, <1>2
<1>4. /\ \A q \in 1 .. nq : (Client(q)' <=> Client(q)) /\ (Server(q)' <=> Server(q))
      /\ \A q : (Client(q) => Client(q)' /\ q \in 1 .. nq)
      /\ \A q : (Server(q) => Server(q)' /\ q \in 1 .. nq)
  BY <1>1, <1>3 DEF Client, Server
<1>5. /\ pc'[w] = l /\ qp'[w] = n /\ retry'[w] = 0
      /\ \A v \in Threads : v # w => pc'[v] = pc[v] /\ qp'[v] = qp[v] /\ retry'[v] = retry[v]
  BY <1>0, <1>2
<1>6. /\ syn[n] = 0 /\ rep[n] = 0 /\ syn'[n] = 0 /\ rep' = rep
      /\ \A q \in Qps : syn'[q] = IF t = w /\ q = m THEN syn[q] - 1 ELSE syn[q]
      /\ syn' \in [Qps -> 0 .. (MaxRetry + 1)]
  <2>1. ~Client(n) /\ ~Server(n)
    BY <1>1 DEF Client, Server
  <2>2. syn[n] = 0 /\ rep[n] = 0
    BY <1>0, <1>1, <2>1 DEF HandshakeInv, Traffic
  <2>3. t = w => m \in Qps /\ m # n /\ syn[m] > 0
    BY <1>1 DEF Client
  <2> QED  BY <1>0, <1>1, <2>2, <2>3
<1>7. TypeOK'
  <2>1. m \in 0 .. MaxQp \cup {Junk}
    BY <1>0, Counters DEF Client
  <2>2. /\ state' \in [Qps -> {"none", "INIT", "RTR", "RTS"}]
        /\ owner' \in [Qps -> Threads \cup {0}] /\ target' \in [Qps -> Threads \cup {0}]
    BY <1>0, <1>2
  <2>3. peer' \in [Qps -> 0 .. MaxQp \cup {Junk}]
    BY <1>0, <1>2, <2>1
  <2>4. /\ pc' \in [Threads -> Labels] /\ qp' \in [Threads -> 0 .. MaxQp]
        /\ retry' \in [Threads -> 0 .. MaxRetry]
    BY <1>0, <1>1, <1>2 DEF Labels, Connecting, Accepting
  <2>5. addr' \in [Qps -> 0 .. MaxConnect]
    BY <1>2 DEF HandshakeInv, TypeOK
  <2> QED  BY <1>1, <1>2, <1>6, <2>2, <2>3, <2>4, <2>5 DEF HandshakeInv, TypeOK, Labels
<1>8. \A q \in 1 .. nq : peer[q] # n
  <2> SUFFICES ASSUME NEW q \in 1 .. nq PROVE peer[q] # n
    OBVIOUS
  <2>1. Client(q) \/ Server(q)
    BY DEF Client, Server
  <2>2. peer[q] \in {0, Junk} \/ Client(peer[q]) \/ Server(peer[q])
    BY <2>1 DEF HandshakeInv, Ends
  <2>3. n # 0 /\ n # Junk /\ n \notin 1 .. nq
    BY <1>0, <1>1 DEF n
  <2> QED  BY <2>2, <2>3 DEF Client, Server
<1>9. Ends'
  <2>1. \A q \in 1 .. nq' : state'[q] # "none" /\ owner'[q] \in Threads /\ target'[q] \in Threads
    BY <1>1, <1>3 DEF HandshakeInv, Ends
  <2>2. ASSUME NEW s \in 1 .. nq', Server(s)'
        PROVE  Client(peer[s])' /\ target'[peer'[s]] = owner'[s]
    <3>1. CASE s = n
      <4>1. t = w
        BY <1>3, <2>2, <3>1 DEF Server
      <4>2. peer'[s] = m /\ Client(m) /\ m \in 1 .. nq /\ target[m] = w /\ owner'[s] = w
        BY <1>3, <3>1, <4>1 DEF Client
      <4>3. Client(m)' /\ target'[m] = target[m]
        BY <1>3, <1>4, <4>2
      <4> QED  BY <4>2, <4>3 DEF Client
    <3>2. CASE s # n
      <4>1. s \in 1 .. nq /\ Server(s) /\ peer'[s] = peer[s] /\ owner'[s] = owner[s]
        BY <1>1, <1>3, <1>4, <2>2, <3>2
      <4>2. Client(peer[s]) /\ target[peer[s]] = owner[s]
        BY <4>1 DEF HandshakeInv, Ends
      <4>3. peer[s] \in 1 .. nq /\ target'[peer[s]] = target[peer[s]]
            /\ owner'[peer[s]] = owner[peer[s]]
        BY <1>3, <4>2 DEF Client
      <4>4. Client(peer[s])'
        BY <1>1, <4>1, <4>2, <4>3 DEF Client
      <4> QED  BY <4>1, <4>2, <4>3, <4>4
    <3> QED  BY <3>1, <3>2
  <2>3. ASSUME NEW q \in 1 .. nq', Client(q)'
        PROVE  \/ peer'[q] \in {0, Junk}
               \/ Server(peer[q])' /\ peer'[peer'[q]] = q
    <3>1. CASE q = n
      BY <1>3, <2>3, <3>1 DEF Client
    <3>2. CASE q # n
      <4>1. q \in 1 .. nq /\ Client(q) /\ peer'[q] = peer[q]
        BY <1>1, <1>3, <1>4, <2>3, <3>2
      <4>2. peer[q] \in {0, Junk} \/ (Server(peer[q]) /\ peer[peer[q]] = q)
        BY <4>1 DEF HandshakeInv, Ends
      <4>3. ASSUME Server(peer[q])
            PROVE  Server(peer[q])' /\ peer'[peer[q]] = peer[peer[q]]
        <5>1. peer[q] \in 1 .. nq
          BY <4>3 DEF Server
        <5> QED  BY <1>1, <1>3, <4>1, <4>3, <5>1 DEF Server
      <4> QED  BY <4>1, <4>2, <4>3
    <3> QED  BY <3>1, <3>2
  <2> QED  BY <2>1, <2>2, <2>3 DEF Ends
<1>10. Traffic'
  <2>1. \A q \in Qps : (syn'[q] > 0 => syn[q] > 0) /\ rep'[q] = rep[q]
    BY <1>0, <1>6
  <2> QED  BY <1>4, <2>1 DEF HandshakeInv, Traffic
<1>11. Places'
  <2> SUFFICES ASSUME NEW v \in Threads
               PROVE  /\ pc'[v] \in Connecting => Client(qp[v])' /\ owner'[qp'[v]] = v
                      /\ pc'[v] \in {"c_rtr", "c_rts"} => peer'[qp'[v]] # 0
                      /\ pc'[v] \in {"a_send", "a_rtr", "a_rts"} =>
                            Server(qp[v])' /\ owner'[qp'[v]] = v
    BY DEF Places
  <2>1. CASE v = w
    <3>1. (t # w => Client(qp[v])') /\ (t = w => Server(qp[v])') /\ owner'[qp'[v]] = v
      BY <1>1, <1>3, <1>5, <2>1 DEF Client, Server
    <3> QED  BY <1>5, <2>1, <3>1 DEF Connecting
  <2>2. CASE v # w
    <3>1. pc'[v] = pc[v] /\ qp'[v] = qp[v]
      BY <1>5, <2>2
    <3>2. qp[v] \in 1 .. nq => /\ Client(qp[v])' <=> Client(qp[v])
                               /\ Server(qp[v])' <=> Server(qp[v])
                               /\ owner'[qp[v]] = owner[qp[v]] /\ peer'[qp[v]] = peer[qp[v]]
      BY <1>1, <1>3, <3>1 DEF Client, Server
    <3>3. pc[v] \in Connecting \cup {"a_send", "a_rtr", "a_rts"} => qp[v] \in 1 .. nq
      BY DEF HandshakeInv, Places, Client, Server
    <3> QED  BY <3>1, <3>2, <3>3 DEF HandshakeInv, Places, Connecting
  <2> QED  BY <2>1, <2>2
<1>12. HasPeer'
  <2> SUFFICES ASSUME NEW q \in established PROVE Client(q)' /\ peer'[q] # 0
    BY DEF HasPeer
  <2>1. Client(q) /\ peer[q] # 0 /\ q \in 1 .. nq
    BY DEF HandshakeInv, HasPeer, Client
  <2> QED  BY <1>3, <1>4, <2>1
<1>13. ASSUME NEW q \in 1 .. nq PROVE Sent(q)' = Sent(q) /\ Sent(q) \in Nat
  <2>1. owner[q] \in Threads /\ owner'[q] = owner[q] /\ q # n
    BY <1>1, <1>3 DEF HandshakeInv, Ends
  <2>2. CASE owner[q] = w
    BY <1>5, <2>1, <2>2, Counters DEF Sent
  <2>3. CASE owner[q] # w
    BY <1>5, <2>1, <2>3, Counters DEF Sent
  <2> QED  BY <2>2, <2>3
<1>14. Budget'
  <2>1. ASSUME NEW q \in 1 .. nq', Client(q)'
        PROVE  Cardinality(Served(q))' + syn'[q] <= Sent(q)'
    <3>1. CASE q = n
      <4>1. Served(q)' = {}
        BY <1>1, <1>3, <1>8, <3>1 DEF Served
      <4>2. Sent(q)' >= 0 /\ Sent(q)' \in Nat
        BY <1>0, <1>3, <1>5, <3>1 DEF Sent
      <4>3. Cardinality(Served(q))' = 0
        BY <4>1, FS_EmptySet
      <4> HIDE DEF Served, Sent
      <4> QED  BY <1>6, <3>1, <4>2, <4>3
    <3>2. CASE q # n
      <4>1. q \in 1 .. nq /\ Client(q) /\ q \in Qps
        BY <1>1, <1>4, <2>1, <3>2
      <4>2. IsFiniteSet(Served(q)) /\ Cardinality(Served(q)) \in Nat
            /\ n \notin Served(q) /\ syn[q] \in Nat
        BY <1>1, <4>1, ServedFinite, Counters DEF HandshakeInv, Served
      <4>3. Cardinality(Served(q)) + syn[q] <= Sent(q)
        BY <4>1 DEF HandshakeInv, Budget
      <4>4. Sent(q)' = Sent(q) /\ Sent(q) \in Nat
        BY <1>13, <4>1
      <4>5. CASE t = w /\ q = m
        <5>1. Served(q)' = Served(q) \cup {n}
          <6>1. n \in Served(q)'
            BY <1>1, <1>3, <3>2, <4>1, <4>5 DEF Served
          <6>2. \A s \in 1 .. nq : s \in Served(q)' <=> s \in Served(q)
            BY <1>1, <1>3, <4>1 DEF Served
          <6>3. Served(q) \subseteq 1 .. nq /\ Served(q)' \subseteq (1 .. nq) \cup {n}
            BY <1>1 DEF Served
          <6> QED  BY <6>1, <6>2, <6>3
        <5>2. Cardinality(Served(q))' = Cardinality(Served(q)) + 1
          BY <4>2, <5>1, FS_AddElement
        <5>3. syn'[q] = syn[q] - 1
          BY <1>6, <4>1, <4>5
        <5> HIDE DEF Served, Sent
        <5> QED  BY <4>2, <4>3, <4>4, <5>2, <5>3
      <4>6. CASE ~(t = w /\ q = m)
        <5>1. Served(q)' = Served(q)
          <6>1. n \notin Served(q)'
            <7>1. peer'[n] # q
              BY <1>0, <1>1, <1>3, <4>1, <4>6
            <7> QED  BY <7>1 DEF Served
          <6>2. \A s \in 1 .. nq : s \in Served(q)' <=> s \in Served(q)
            BY <1>1, <1>3, <4>1 DEF Served
          <6>3. Served(q) \subseteq 1 .. nq /\ Served(q)' \subseteq (1 .. nq) \cup {n}
            BY <1>1 DEF Served
          <6> QED  BY <6>1, <6>2, <6>3
        <5>2. syn'[q] = syn[q]
          BY <1>6, <4>1, <4>6
        <5>3. Cardinality(Served(q))' = Cardinality(Served(q))
          BY <5>1
        <5> HIDE DEF Served, Sent
        <5> QED  BY <4>2, <4>3, <4>4, <5>2, <5>3
      <4> QED  BY <4>5, <4>6
    <3> QED  BY <3>1, <3>2
  <2>2. ASSUME NEW s \in 1 .. nq', Server(s)'
        PROVE  rep'[s] <= Sent(s)'
    <3>1. CASE s = n
      <4>1. Sent(s)' >= 0
        BY <1>0, <1>3, <1>5, <3>1 DEF Sent
      <4> QED  BY <1>6, <3>1, <4>1
    <3>2. CASE s # n
      <4>1. s \in 1 .. nq /\ Server(s)
        BY <1>1, <1>4, <2>2, <3>2
      <4>2. rep[s] <= Sent(s)
        BY <4>1 DEF HandshakeInv, Budget
      <4> QED  BY <1>6, <1>13, <4>1, <4>2
    <3> QED  BY <3>1, <3>2
  <2> QED  BY <2>1, <2>2 DEF Budget
<1> QED  BY <1>7, <1>9, <1>10, <1>11, <1>12, <1>14 DEF HandshakeInv

\* connect() receives an answer, or fails to.
LEMMA ConnectRecvInv ==
    ASSUME HandshakeInv, Addresses, NEW w \in Threads,
           ConnectRecvError(w) \/ \E s \in Qps : ConnectRecv(w, s)
    PROVE  HandshakeInv'
<1>0. /\ rep \in [Qps -> 0 .. (MaxRetry + 1)] /\ MaxRetry \in Nat /\ Junk # 0
  BY BoundNat, UdpHandshakeAssumption DEF HandshakeInv, TypeOK
<1>1. CASE ConnectRecvError(w)
  <2>1. rep' = rep /\ syn' = syn /\ dropped' = dropped /\ pc[w] = "c_recv"
    BY <1>1 DEF ConnectRecvError, netVars
  <2>2. \A s \in Qps : rep'[s] <= rep[s]
    BY <1>0, <2>1
  <2>3. \/ peer' = [peer EXCEPT ![qp[w]] = Junk] /\ pc' = [pc EXCEPT ![w] = "c_rtr"]
        \/ peer' = peer /\ pc' = [pc EXCEPT ![w] = "loop"]
    BY <1>1 DEF ConnectRecvError, Goto
  <2>4. UNCHANGED <<listening, nq, state, owner, target, addr, broken, syn, dropped, qp,
                    retry, sd, calls, established>>
    BY <1>1, <2>1 DEF ConnectRecvError
  <2>5. rep' \in [Qps -> 0 .. (MaxRetry + 1)]
    BY <1>0, <2>1
  <2> QED  BY <1>0, <2>1, <2>2, <2>3, <2>4, <2>5, SetPeerInv
<1>2. ASSUME NEW s \in Qps, ConnectRecv(w, s)
      PROVE  HandshakeInv'
  <2>1. /\ pc[w] = "c_recv" /\ rep[s] > 0 /\ addr[s] = sd[w]
        /\ rep' = [rep EXCEPT ![s] = @ - 1]
        /\ UNCHANGED <<listening, nq, state, owner, target, addr, broken, syn, dropped, qp,
                       retry, sd, calls, established>>
    BY <1>2 DEF ConnectRecv
  <2>2. Server(s) /\ s # 0
    BY <2>1, BoundNat DEF HandshakeInv, Traffic, Qps
  <2>3. rep' \in [Qps -> 0 .. (MaxRetry + 1)] /\ \A k \in Qps : rep'[k] <= rep[k]
    BY <1>0, <2>1
  <2>4. \/ peer' = [peer EXCEPT ![qp[w]] = s] /\ pc' = [pc EXCEPT ![w] = "c_rtr"]
        \/ peer' = peer /\ pc' = [pc EXCEPT ![w] = "loop"]
    BY <1>2 DEF ConnectRecv, Goto
  <2>5. peer[s] = qp[w]
    <3>1. Client(qp[w]) /\ qp[w] \in 1 .. nq /\ addr[qp[w]] = sd[w]
      BY <2>1 DEF HandshakeInv, Places, Addresses, Connecting, Client
    <3>2. Client(peer[s]) /\ peer[s] \in 1 .. nq /\ addr[peer[s]] = addr[s]
      BY <2>2 DEF HandshakeInv, Ends, Addresses, Server, Client
    <3> QED  BY <2>1, <3>1, <3>2 DEF Addresses
  <2> QED  BY <2>1, <2>2, <2>3, <2>4, <2>5, SetPeerInv
<1> QED  BY <1>1, <1>2

\* connect() makes its queue pair.
LEMMA ConnectInv ==
    ASSUME HandshakeInv, NEW w \in Threads, NEW t \in Threads, Connect(w, t)
    PROVE  HandshakeInv'
<1>1. PICK l \in {"c_send", "assert"} : pc' = [pc EXCEPT ![w] = l]
  BY DEF Connect, Goto
<1>2. /\ pc[w] = "loop" /\ t # w /\ NewQp(w, t, 0, calls + 1)
      /\ UNCHANGED <<listening, syn, rep, dropped, established>>
      /\ calls < MaxConnect /\ calls' = calls + 1 /\ sd' = [sd EXCEPT ![w] = calls + 1]
  BY DEF Connect, SetupSocket, netVars
<1>3. calls + 1 \in 0 .. MaxConnect
  <2>1. calls \in 0 .. MaxConnect /\ MaxConnect \in Nat
    BY UdpHandshakeAssumption DEF HandshakeInv, TypeOK
  <2> QED  BY <1>2, <2>1
<1>4. sd' \in [Threads -> 0 .. MaxConnect]
  BY <1>2, <1>3 DEF HandshakeInv, TypeOK
<1> QED  BY <1>1, <1>2, <1>3, <1>4, NewQpInv

\* accept() takes a datagram, and makes a queue pair for it or drops it.
LEMMA AcceptRecvInv ==
    ASSUME HandshakeInv, NEW w \in Threads, NEW q \in Qps, AcceptRecv(w, q)
    PROVE  HandshakeInv'
<1>0. /\ syn \in [Qps -> 0 .. (MaxRetry + 1)] /\ rep \in [Qps -> 0 .. (MaxRetry + 1)]
      /\ dropped \subseteq Qps /\ MaxRetry \in Nat /\ pc \in [Threads -> Labels]
      /\ calls \in 0 .. MaxConnect /\ sd \in [Threads -> 0 .. MaxConnect]
      /\ addr[q] \in 0 .. MaxConnect
  BY BoundNat DEF HandshakeInv, TypeOK, Labels
<1>1. /\ pc[w] = "a_recv" /\ target[q] = w /\ syn[q] > 0
      /\ syn' = [syn EXCEPT ![q] = @ - 1]
      /\ UNCHANGED <<listening, rep, sd, calls, established>>
  BY DEF AcceptRecv
<1>2. Client(q)
  BY <1>1 DEF HandshakeInv, Traffic
<1>3. CASE NewQp(w, w, q, addr[q]) /\ pc' = [pc EXCEPT ![w] = "a_send"] /\ UNCHANGED dropped
  BY <1>0, <1>1, <1>2, <1>3, NewQpInv
<1>4. CASE /\ \E l \in {"a_recv", "loop"} : Goto(w, l)
           /\ dropped' = dropped \cup {q}
           /\ UNCHANGED <<qpVars, qp, retry>>
  <2>1. PICK l \in {"a_recv", "loop"} : pc' = [pc EXCEPT ![w] = l]
    BY <1>4 DEF Goto
  <2>2. Fixed /\ Move(w, l)
    BY <1>4, <2>1 DEF Fixed, Move, qpVars, Labels, Accepting
  <2>3. Places' /\ pc' \in [Threads -> Labels]
    BY <2>1, <2>2, MovePlaces DEF Connecting
  <2>4. /\ syn' \in [Qps -> 0 .. (MaxRetry + 1)]
        /\ \A k \in Qps : syn'[k] <= syn[k] /\ rep'[k] <= rep[k]
    BY <1>0, <1>1
  <2>5. TypeOK'
    BY <1>0, <1>1, <1>4, <2>3, <2>4 DEF HandshakeInv, TypeOK, qpVars, Labels
  <2>6. Traffic'
    <3>1. \A k \in Qps : (syn'[k] > 0 => syn[k] > 0) /\ rep'[k] = rep[k]
      BY <1>0, <1>1, <2>4
    <3> QED  BY <1>4, <3>1 DEF HandshakeInv, Traffic, Client, Server, qpVars
  <2>7. HasPeer'
    BY <1>1, <1>4 DEF HandshakeInv, HasPeer, Client, qpVars
  <2>8. ASSUME NEW k \in 1 .. nq
        PROVE  /\ syn'[k] - syn[k] <= Sent(k)' - Sent(k)
               /\ rep'[k] - rep[k] <= Sent(k)' - Sent(k)
               /\ Sent(k)' \in Nat
    <3>1. Sent(k) \in Nat /\ k \in Qps /\ syn[k] \in Nat /\ rep[k] \in Nat
      BY Counters
    <3>2. Sent(k)' >= Sent(k) /\ Sent(k)' \in Nat
      BY <2>2, MoveSent
    <3>3. syn'[k] \in Nat /\ syn'[k] <= syn[k] /\ rep'[k] = rep[k]
      BY <1>0, <1>1, <2>4, <3>1
    <3> HIDE DEF Sent
    <3> QED  BY <3>1, <3>2, <3>3
  <2> QED  BY <2>2, <2>3, <2>5, <2>6, <2>7, <2>8, FixedInv
<1> QED  BY <1>3, <1>4 DEF AcceptRecv, Goto

LEMMA NextHandshakeInv ==
    ASSUME HandshakeInv, Addresses, [Next]_vars
    PROVE  HandshakeInv'
<1>1. ASSUME NEW w \in Threads,
             \/ Listen(w)
             \/ \E t \in Threads : Connect(w, t)
             \/ \E sent \in BOOLEAN, result \in Results : SendTo(w, sent, result)
             \/ \E s \in Qps : ConnectRecv(w, s)
             \/ ConnectRecvError(w)
             \/ Accept(w)
             \/ \E q \in Qps : AcceptRecv(w, q)
             \/ AcceptRecvError(w)
             \/ Activate(w)
      PROVE  HandshakeInv'
  BY <1>1, IdleInv, ConnectInv, SendToInv, ConnectRecvInv, AcceptRecvInv, ActivateInv
<1>2. ASSUME NEW q \in Qps, Lose(q) PROVE HandshakeInv'
  BY <1>2, LoseInv
<1>3. ASSUME UNCHANGED vars PROVE HandshakeInv'
  <2>1. Ends' /\ Fixed
    <3>1. Fixed
      BY <1>3 DEF Fixed, vars, qpVars
    <3> QED  BY <3>1, FixedEnds
  <2>2. TypeOK' /\ Traffic' /\ Places' /\ HasPeer'
    BY <1>3 DEF HandshakeInv, TypeOK, Traffic, Places, HasPeer, Client, Server, vars, qpVars,
       netVars
  <2>3. Budget'
    BY <1>3 DEF HandshakeInv, Budget, Client, Server, Served, Sent, vars, qpVars, netVars
  <2> QED  BY <2>1, <2>2, <2>3 DEF HandshakeInv
<1> QED  BY <1>1, <1>2, <1>3 DEF Next

-----------------------------------------------------------------------------
(* The sockets.                                                             *)

\* They stay as they are while nobody makes one,
LEMMA KeepAddresses ==
    ASSUME HandshakeInv, Addresses,
           UNCHANGED <<nq, owner, target, addr, qp, sd, calls>>,
           \A s : Server(s) => peer'[s] = peer[s],
           \A v \in Threads : pc'[v] \in Connecting => pc[v] \in Connecting
    PROVE  Addresses'
<1>1. \A q : (Client(q)' <=> Client(q)) /\ (Server(q)' <=> Server(q))
  BY DEF Client, Server
<1>2. \A s \in 1 .. nq : Server(s) => addr'[s] = addr'[peer'[s]]
  BY DEF Addresses
<1> QED  BY <1>1, <1>2 DEF Addresses

\* connect() makes one that no other client has,
LEMMA ConnectAddresses ==
    ASSUME HandshakeInv, Addresses, NEW w \in Threads, NEW t \in Threads, Connect(w, t)
    PROVE  Addresses'
<1>0. /\ nq \in Nat /\ calls \in Nat /\ addr \in [Qps -> 0 .. MaxConnect]
      /\ owner \in [Qps -> Threads \cup {0}] /\ target \in [Qps -> Threads \cup {0}]
      /\ peer \in [Qps -> 0 .. MaxQp \cup {Junk}] /\ qp \in [Threads -> 0 .. MaxQp]
      /\ sd \in [Threads -> 0 .. MaxConnect] /\ pc \in [Threads -> Labels]
  BY Counters, UdpHandshakeAssumption DEF HandshakeInv, TypeOK, Labels
<1>1. PICK k \in Nat : k = nq + 1
  BY <1>0
<1>2. /\ nq' = k /\ owner' = [owner EXCEPT ![k] = w] /\ target' = [target EXCEPT ![k] = t]
      /\ peer' = [peer EXCEPT ![k] = 0] /\ addr' = [addr EXCEPT ![k] = calls + 1]
      /\ qp' = [qp EXCEPT ![w] = k] /\ sd' = [sd EXCEPT ![w] = calls + 1]
      /\ calls' = calls + 1 /\ t # w /\ nq < MaxQp
  BY <1>1 DEF Connect, NewQp, SetupSocket
<1>3. /\ k \in Qps /\ 1 .. nq' = (1 .. nq) \cup {k} /\ k \notin 1 .. nq
      /\ \A q \in 1 .. nq : q \in Qps /\ q # k
  <2>1. MaxQp \in Nat
    BY BoundNat
  <2> QED  BY <1>0, <1>1, <1>2, <2>1 DEF Qps
<1>4. /\ owner'[k] = w /\ target'[k] = t /\ addr'[k] = calls + 1
      /\ \A q \in 1 .. nq : /\ owner'[q] = owner[q] /\ target'[q] = target[q]
                            /\ peer'[q] = peer[q] /\ addr'[q] = addr[q]
  BY <1>0, <1>2, <1>3
<1>5. /\ \A q \in 1 .. nq : (Client(q)' <=> Client(q)) /\ (Server(q)' <=> Server(q))
      /\ Client(k)' /\ ~Server(k)'
  BY <1>2, <1>3, <1>4 DEF Client, Server
<1>6. \A q \in 1 .. nq : Client(q) => addr[q] \in Nat /\ addr[q] <= calls /\ addr[q] >= 1
  BY <1>0 DEF Addresses
<1>7. \A q \in 1 .. nq' : Client(q)' => addr'[q] \in 1 .. calls'
  <2>1. calls + 1 \in 1 .. calls' /\ \A x \in 1 .. calls : x \in 1 .. calls'
    BY <1>0, <1>2
  <2>2. \A q \in 1 .. nq : Client(q) => addr'[q] \in 1 .. calls
    BY <1>4 DEF Addresses
  <2> QED  BY <1>3, <1>4, <1>5, <2>1, <2>2
<1>8. \A q, r \in 1 .. nq' : Client(q)' /\ Client(r)' /\ addr'[q] = addr'[r] => q = r
  <2>1. \A q \in 1 .. nq : Client(q) => addr'[q] # addr'[k]
    BY <1>0, <1>4, <1>6
  <2>2. \A q, r \in 1 .. nq : Client(q) /\ Client(r) /\ addr'[q] = addr'[r] => q = r
    BY <1>4 DEF Addresses
  <2> QED  BY <1>3, <1>5, <2>1, <2>2
<1>9. ASSUME NEW s \in 1 .. nq', Server(s)' PROVE addr'[s] = addr'[peer'[s]]
  <2>1. s \in 1 .. nq /\ Server(s)
    BY <1>3, <1>5, <1>9
  <2>2. peer[s] \in 1 .. nq /\ addr[s] = addr[peer[s]]
    BY <2>1 DEF HandshakeInv, Ends, Addresses, Client
  <2> QED  BY <1>4, <2>1, <2>2
<1>10. ASSUME NEW v \in Threads, pc'[v] \in Connecting PROVE addr'[qp'[v]] = sd'[v]
  <2>1. CASE v = w
    BY <1>0, <1>2, <1>4, <2>1
  <2>2. CASE v # w
    <3>1. pc'[v] = pc[v] /\ qp'[v] = qp[v] /\ sd'[v] = sd[v]
      BY <1>0, <1>2, <2>2 DEF Connect, Goto
    <3>2. qp[v] \in 1 .. nq /\ addr[qp[v]] = sd[v]
      BY <1>10, <3>1 DEF HandshakeInv, Places, Addresses, Client
    <3> QED  BY <1>4, <3>1, <3>2
  <2> QED  BY <2>1, <2>2
<1> QED  BY <1>7, <1>8, <1>9, <1>10 DEF Addresses

\* and accept() makes a queue pair that answers to one.
LEMMA AcceptAddresses ==
    ASSUME HandshakeInv, Addresses, NEW w \in Threads, NEW m \in Qps, AcceptRecv(w, m)
    PROVE  Addresses'
<1>0. /\ nq \in Nat /\ addr \in [Qps -> 0 .. MaxConnect]
      /\ owner \in [Qps -> Threads \cup {0}] /\ target \in [Qps -> Threads \cup {0}]
      /\ peer \in [Qps -> 0 .. MaxQp \cup {Junk}] /\ qp \in [Threads -> 0 .. MaxQp]
      /\ pc \in [Threads -> Labels]
  BY Counters DEF HandshakeInv, TypeOK, Labels
<1>1. Client(m) /\ m \in 1 .. nq
  BY DEF AcceptRecv, HandshakeInv, Traffic, Client
<1>2. CASE NewQp(w, w, m, addr[m]) /\ Goto(w, "a_send")
  <2>1. PICK k \in Nat : k = nq + 1
    BY <1>0
  <2>2. /\ nq' = k /\ owner' = [owner EXCEPT ![k] = w] /\ target' = [target EXCEPT ![k] = w]
        /\ peer' = [peer EXCEPT ![k] = m] /\ addr' = [addr EXCEPT ![k] = addr[m]]
        /\ qp' = [qp EXCEPT ![w] = k] /\ nq < MaxQp /\ UNCHANGED <<sd, calls>>
    BY <1>2, <2>1 DEF NewQp, AcceptRecv
  <2>3. /\ k \in Qps /\ 1 .. nq' = (1 .. nq) \cup {k} /\ k \notin 1 .. nq
        /\ \A q \in 1 .. nq : q \in Qps /\ q # k
    <3>1. MaxQp \in Nat
      BY BoundNat
    <3> QED  BY <1>0, <2>1, <2>2, <3>1 DEF Qps
  <2>4. /\ owner'[k] = w /\ target'[k] = w /\ addr'[k] = addr[m] /\ peer'[k] = m
        /\ \A q \in 1 .. nq : /\ owner'[q] = owner[q] /\ target'[q] = target[q]
                              /\ peer'[q] = peer[q] /\ addr'[q] = addr[q]
    BY <1>0, <2>2, <2>3
  <2>5. /\ \A q \in 1 .. nq : (Client(q)' <=> Client(q)) /\ (Server(q)' <=> Server(q))
        /\ ~Client(k)'
    BY <2>2, <2>3, <2>4 DEF Client, Server
  <2>6. \A q \in 1 .. nq' : Client(q)' => addr'[q] \in 1 .. calls'
    BY <2>2, <2>3, <2>4, <2>5 DEF Addresses
  <2>7. \A q, r \in 1 .. nq' : Client(q)' /\ Client(r)' /\ addr'[q] = addr'[r] => q = r
    BY <2>3, <2>4, <2>5 DEF Addresses
  <2>8. ASSUME NEW s \in 1 .. nq', Server(s)' PROVE addr'[s] = addr'[peer'[s]]
    <3>1. CASE s = k
      BY <1>1, <2>4, <3>1
    <3>2. CASE s # k
      <4>1. s \in 1 .. nq /\ Server(s)
        BY <2>3, <2>5, <2>8, <3>2
      <4>2. peer[s] \in 1 .. nq /\ addr[s] = addr[peer[s]]
        BY <4>1 DEF HandshakeInv, Ends, Addresses, Client
      <4> QED  BY <2>4, <4>1, <4>2
    <3> QED  BY <3>1, <3>2
  <2>9. ASSUME NEW v \in Threads, pc'[v] \in Connecting PROVE addr'[qp'[v]] = sd'[v]
    <3>1. v # w
      BY <1>0, <1>2, <2>9 DEF Goto, Connecting
    <3>2. pc'[v] = pc[v] /\ qp'[v] = qp[v] /\ sd' = sd
      BY <1>0, <1>2, <2>2, <3>1 DEF Goto
    <3>3. qp[v] \in 1 .. nq /\ addr[qp[v]] = sd[v]
      BY <2>9, <3>2 DEF HandshakeInv, Places, Addresses, Client
    <3> QED  BY <2>4, <3>2, <3>3
  <2> QED  BY <2>6, <2>7, <2>8, <2>9 DEF Addresses
<1>3. CASE (\E l \in {"a_recv", "loop"} : Goto(w, l)) /\ UNCHANGED <<qpVars, qp, retry>>
  <2>1. UNCHANGED <<nq, owner, target, addr, qp, sd, calls>> /\ peer' = peer
    BY <1>3 DEF AcceptRecv, qpVars
  <2>2. \A v \in Threads : pc'[v] \in Connecting => pc[v] \in Connecting
    BY <1>0, <1>3 DEF Goto, Connecting
  <2> QED  BY <2>1, <2>2, KeepAddresses
<1> QED  BY <1>2, <1>3 DEF AcceptRecv

LEMMA NextAddresses ==
    ASSUME HandshakeInv, Addresses, [Next]_vars
    PROVE  Addresses'
<1>0. pc \in [Threads -> Labels]
  BY DEF HandshakeInv, TypeOK, Labels
<1>1. CASE UNCHANGED vars \/ \E q \in Qps : Lose(q)
  <2>1. UNCHANGED <<nq, owner, target, addr, qp, sd, calls>> /\ peer' = peer /\ pc' = pc
    BY <1>1 DEF vars, qpVars, Lose
  <2> QED  BY <2>1, KeepAddresses
<1>2. ASSUME NEW w \in Threads, Listen(w) \/ Accept(w) \/ AcceptRecvError(w)
      PROVE  Addresses'
  <2>1. UNCHANGED <<nq, owner, target, addr, qp, sd, calls>> /\ peer' = peer
    BY <1>2 DEF Listen, Accept, AcceptRecvError, qpVars
  <2>2. \A v \in Threads : pc'[v] \in Connecting => pc[v] \in Connecting
    BY <1>0, <1>2 DEF Listen, Accept, AcceptRecvError, Goto, Connecting
  <2> QED  BY <2>1, <2>2, KeepAddresses
<1>3. ASSUME NEW w \in Threads, NEW sent \in BOOLEAN, NEW result \in Results,
             SendTo(w, sent, result)
      PROVE  Addresses'
  <2>1. UNCHANGED <<nq, owner, target, addr, qp, sd, calls>> /\ peer' = peer
    BY <1>3 DEF SendTo, qpVars
  <2>2. pc' = pc \/ pc' = [pc EXCEPT ![w] = AfterSend(w, result = "ok")]
    BY <1>3 DEF SendTo, Goto
  <2>3. AfterSend(w, result = "ok") \in Connecting => pc[w] \in Connecting
    BY DEF AfterSend, IsClient, Connecting
  <2>4. \A v \in Threads : pc'[v] \in Connecting => pc[v] \in Connecting
    BY <1>0, <2>2, <2>3
  <2> QED  BY <2>1, <2>4, KeepAddresses
<1>4. ASSUME NEW w \in Threads, ConnectRecvError(w) \/ \E s \in Qps : ConnectRecv(w, s)
      PROVE  Addresses'
  <2>1. /\ UNCHANGED <<nq, owner, target, addr, qp, sd, calls>> /\ pc[w] = "c_recv"
        /\ pc' = [pc EXCEPT ![w] = "c_rtr"] \/ pc' = [pc EXCEPT ![w] = "loop"]
        /\ peer' = peer \/ \E m : peer' = [peer EXCEPT ![qp[w]] = m]
    BY <1>4 DEF ConnectRecvError, ConnectRecv, Goto
  <2>2. \A v \in Threads : pc'[v] \in Connecting => pc[v] \in Connecting
    BY <1>0, <2>1 DEF Connecting
  <2>3. ASSUME NEW s, Server(s) PROVE peer'[s] = peer[s]
    <3>1. Client(qp[w])
      BY <2>1 DEF HandshakeInv, Places, Connecting
    <3>2. s # qp[w] /\ s \in Qps
      BY <2>3, <3>1, Counters DEF Client, Server
    <3>3. peer \in [Qps -> 0 .. MaxQp \cup {Junk}]
      BY DEF HandshakeInv, TypeOK
    <3> QED  BY <2>1, <3>2, <3>3
  <2> QED  BY <2>1, <2>2, <2>3, KeepAddresses
<1>5. ASSUME NEW w \in Threads, Activate(w) PROVE Addresses'
  <2>1. /\ UNCHANGED <<nq, owner, target, addr, qp, sd, calls>> /\ peer' = peer
        /\ \E l \in {"c_rts", "a_rts", "loop", "assert"} :
              pc' = [pc EXCEPT ![w] = l] /\ (l = "c_rts" => pc[w] \in Connecting)
    BY <1>5 DEF Activate, Modify, Goto, Connecting
  <2>2. \A v \in Threads : pc'[v] \in Connecting => pc[v] \in Connecting
    BY <1>0, <2>1 DEF Connecting
  <2> QED  BY <2>1, <2>2, KeepAddresses
<1> QED
  BY <1>1, <1>2, <1>3, <1>4, <1>5, ConnectAddresses, AcceptAddresses DEF Next

-----------------------------------------------------------------------------
(* The theorems.                                                            *)

\* In every state the types are right, server queue pairs belong to clients of
\* their worker, clients to servers made for them, every client has a socket of its own,
\* and nobody has more datagrams under way than were sent.
THEOREM HandshakeInvariance == Spec => []FullInv
<1>1. Init => FullInv
  <2> SUFFICES ASSUME Init PROVE FullInv
    OBVIOUS
  <2>1. 1 .. nq = {} /\ \A w \in Threads : pc[w] \notin Connecting
    BY DEF Init, Connecting
  <2>2. Addresses
    BY <2>1 DEF Addresses
  <2> QED  BY <2>2, InitHandshakeInv DEF FullInv
<1>2. FullInv /\ [Next]_vars => FullInv'
  BY NextHandshakeInv, NextAddresses DEF FullInv
<1> QED  BY <1>1, <1>2, PTL DEF Spec

\* The two ends of a connection agree on each other, however the datagrams of any
\* number of workers and calls were lost, resent, delayed and interleaved: an answer
\* that is late for its own call stays at a socket that no later call reads from.
THEOREM PairedTheorem == Spec => []Paired
<1>1. FullInv => Paired
  <2> SUFFICES ASSUME HandshakeInv, NEW q \in established, peer[q] # Junk
               PROVE  /\ peer[q] \in Qps
                      /\ owner[peer[q]] = target[q]
                      /\ peer[peer[q]] = q
                      /\ state[peer[q]] # "none"
    BY DEF Paired, FullInv
  <2>1. Client(q) /\ peer[q] # 0 /\ q \in 1 .. nq
    BY DEF HandshakeInv, HasPeer, Client
  <2>2. Server(peer[q]) /\ peer[peer[q]] = q /\ peer[q] \in 1 .. nq
    BY <2>1 DEF HandshakeInv, Ends, Server
  <2>3. peer[q] \in Qps
    BY <2>2, Counters
  <2> QED  BY <2>2, <2>3 DEF HandshakeInv, Ends
<1> QED  BY <1>1, HandshakeInvariance, PTL

\* One connect() costs the server at most MaxRetry + 1 sockets, those it has yet to
\* make for datagrams under way included.
THEOREM BoundedDuplicatesTheorem == Spec => []BoundedDuplicates
<1>1. FullInv => BoundedDuplicates
  <2> SUFFICES ASSUME HandshakeInv, NEW q \in 1 .. nq
               PROVE  Cardinality(Served(q)) + syn[q] <= MaxRetry + 1
    BY DEF BoundedDuplicates, FullInv
  <2>0. /\ Cardinality(Served(q)) \in Nat /\ syn[q] \in Nat /\ q \in Qps
        /\ Sent(q) \in Nat /\ Sent(q) <= MaxRetry + 1 /\ MaxRetry \in Nat
    BY ServedFinite, Counters, BoundNat DEF HandshakeInv
  <2>1. CASE Client(q)
    <3>1. Cardinality(Served(q)) + syn[q] <= Sent(q)
      BY <2>1 DEF HandshakeInv, Budget
    <3> HIDE DEF Served, Sent
    <3> QED  BY <2>0, <3>1
  <2>2. CASE ~Client(q)
    <3>1. Server(q) /\ syn[q] = 0
      BY <2>0, <2>2 DEF Client, Server, HandshakeInv, Traffic
    <3>2. Served(q) = {}
      <4> SUFFICES ASSUME NEW s \in 1 .. nq, peer[s] = q, owner[s] = target[q]
                   PROVE  FALSE
        BY DEF Served
      <4>1. Client(s)
        BY <2>2 DEF HandshakeInv, Ends, Client, Server
      <4>2. Server(q) /\ peer[q] = s
        BY <2>0, <3>1, <4>1, Counters, UdpHandshakeAssumption DEF HandshakeInv, Ends
      <4>3. target[s] = owner[q]
        BY <4>2 DEF HandshakeInv, Ends
      <4> QED  BY <3>1, <4>1, <4>3 DEF Client, Server
    <3>3. Cardinality(Served(q)) = 0
      BY <3>2, FS_EmptySet
    <3> HIDE DEF Served
    <3> QED  BY <2>0, <3>1, <3>3
  <2> QED  BY <2>1, <2>2
<1> QED  BY <1>1, HandshakeInvariance, PTL
=============================================================================
