-------------------------- MODULE VerbsSetupProofs --------------------------
(***************************************************************************)
(* Theorems about VerbsSetup, for every set of workers, every number of    *)
(* sockets and every list of devices: what a constructed socket has,       *)
(* whichever of the calls around it failed.                                *)
(***************************************************************************)
EXTENDS VerbsSetup, SequenceTheorems, TLAPS

-----------------------------------------------------------------------------
(* The inductive invariant.                                                 *)

\* The transmit side of worker v is complete.
TxUp(v) == v \in armed /\ cq[v] = "live" /\ channel[v] = "live"

\* Threads set up different objects: each its own transmit side first, and then
\* sockets nobody else has, once all the workers are started.
Ownership ==
    /\ \A w \in Workers : /\ obj[w] = w \/ obj[w] \in SocketIds
                          /\ obj[w] \in SocketIds => obj[w] <= nsock /\ started = Workers
                          /\ obj[w] \in ready => pc[w] = "idle"
                          /\ obj[w] = w /\ w \in started => pc[w] = "idle"
                          /\ pc[w] \in {"qp", "init"} => obj[w] \in SocketIds
    /\ \A v, w \in Workers : v # w => obj[v] # obj[w]
    /\ \A k \in ready : k <= nsock
    /\ ready # {} => started = Workers

\* A worker that is started has a complete transmit side or no queue at all.
TxSides == \A v \in started : cq[v] = "live" => TxUp(v)

\* What thread w has made of its object when it gets to each place.
Reached(w) ==
    /\ pc[w] \in {"start", "cc", "nonblock", "cq"} /\ obj[w] = w => cq[w] # "live"
    /\ pc[w] \in {"nonblock", "cq", "arm", "qp", "init"} => channel[obj[w]] = "live"
    /\ pc[w] \in {"arm", "qp", "init"} => cq[obj[w]] = "live"
    /\ pc[w] \in {"qp", "init"} => obj[w] \in armed
    /\ pc[w] = "init" => txcq[obj[w]] \in Workers /\ TxUp(txcq[obj[w]])
Progress == \A w \in Workers : Reached(w)

\* SocketsComplete holds in a crashed process too, whose thread may have stopped
\* half way through a failure path.
SetupInv ==
    /\ TypeOK
    /\ Ownership
    /\ TxSides
    /\ SocketsComplete
    /\ crash = "no" => Progress

-----------------------------------------------------------------------------
(* Every step keeps the invariant.                                          *)

LEMMA InitSetupInv == Init => SetupInv
<1> SUFFICES ASSUME Init PROVE SetupInv
  OBVIOUS
<1>1. devices \in Seq(Device) /\ Len(devices) \in Nat
  BY VerbsSetupAssumption DEF Init
<1>2. TypeOK
  <2>1. devices \in DeviceLists /\ device \in 0 .. Len(devices) /\ port \in 0 .. MaxPort
    BY <1>1, VerbsSetupAssumption DEF Init
  <2>2. channel \in [Objects -> Life] /\ cq \in [Objects -> Life] /\ obj \in [Workers -> Objects]
    BY DEF Init, Life, Objects
  <2>3. qp \in [SocketIds -> QpStates] /\ txcq \in [SocketIds -> Workers \cup {0}]
    BY DEF Init, QpStates
  <2>4. nsock \in 0 .. MaxSockets
    BY VerbsSetupAssumption DEF Init
  <2> QED  BY <2>1, <2>2, <2>3, <2>4 DEF Init, TypeOK, CrashWay
<1>3. Ownership
  <2>1. \A w \in Workers : w \notin SocketIds
    BY VerbsSetupAssumption DEF SocketIds
  <2> QED  BY <2>1 DEF Init, Ownership
<1>4. TxSides /\ SocketsComplete /\ Progress
  BY DEF Init, TxSides, SocketsComplete, Progress, Reached, Objects
<1> QED  BY <1>2, <1>3, <1>4 DEF SetupInv

\* The constructor of Infiniband, and a crash that leaves everything as it is.
LEMMA BootSetupInv ==
    ASSUME SetupInv, GetDevice \/ Resources \/ CreateSrq \/ UNCHANGED vars
    PROVE  SetupInv'
<1>1. UNCHANGED <<devices, cqVars, qp, txcq, ready, started, nsock, pc, obj>>
  BY DEF GetDevice, UsePort, Resources, CreateSrq, Crash, vars, bootVars
<1>2. Ownership' /\ TxSides' /\ SocketsComplete' /\ (Progress <=> Progress')
  BY <1>1 DEF SetupInv, Ownership, TxSides, SocketsComplete, Progress, Reached, TxUp, cqVars
<1>3. crash' = "no" => crash = "no"
  BY DEF GetDevice, Resources, CreateSrq, vars
<1>4. TypeOK'
  <2>1. CASE GetDevice
    <3>1. ASSUME NEW p \in 0 .. MaxPort, devices # <<>>, UsePort(p)
          PROVE  TypeOK'
      <4>1. 1 \in 0 .. Len(devices)
        BY <3>1, VerbsSetupAssumption, EmptySeq, LenProperties DEF SetupInv, TypeOK
      <4> QED  BY <3>1, <4>1 DEF SetupInv, TypeOK, UsePort, cqVars
    <3>2. CASE Crash("null_context") \/ Crash("wild_pointer")
      BY <3>2 DEF SetupInv, TypeOK, Crash, cqVars, bootVars, CrashWay
    <3> QED  BY <2>1, <3>1, <3>2 DEF GetDevice
  <2>2. CASE Resources
    BY <1>1, <2>2 DEF SetupInv, TypeOK, Resources, Crash, cqVars, bootVars, CrashWay
  <2>3. CASE CreateSrq
    BY <1>1, <2>3 DEF SetupInv, TypeOK, CreateSrq, Crash, cqVars, bootVars, CrashWay
  <2>4. CASE UNCHANGED vars
    BY <1>1, <2>4 DEF SetupInv, TypeOK, vars, bootVars, cqVars
  <2> QED  BY <2>1, <2>2, <2>3, <2>4
<1> QED  BY <1>2, <1>3, <1>4 DEF SetupInv

\* A thread dies in a verbs call and takes the process with it.
LEMMA CrashSetupInv ==
    ASSUME SetupInv, NEW way \in CrashWay \ {"no"}, Crash(way)
    PROVE  SetupInv'
<1>1. TypeOK'
  BY DEF SetupInv, TypeOK, Crash, bootVars, cqVars
<1>2. Ownership' /\ TxSides' /\ SocketsComplete'
  BY DEF SetupInv, Ownership, TxSides, SocketsComplete, TxUp, Crash, cqVars
<1>3. crash' # "no"
  BY DEF Crash
<1> QED  BY <1>1, <1>2, <1>3 DEF SetupInv

\* No thread is setting up another thread's object, or one that is ready.
LEMMA OthersUntouched ==
    ASSUME SetupInv, NEW w \in Workers, pc[w] # "idle"
    PROVE  /\ obj[w] \notin ready
           /\ obj[w] \in Objects
           /\ \A v \in Workers : v # w => obj[v] # obj[w]
           /\ \A v \in started : v # obj[w]
           /\ \A k \in ready : txcq[k] # obj[w]
<1>1. obj[w] \notin ready /\ \A v \in Workers : v # w => obj[v] # obj[w]
  BY DEF SetupInv, Ownership
<1>2. \A v \in started : v # obj[w]
  <2> SUFFICES ASSUME NEW v \in started, v = obj[w] PROVE FALSE
    OBVIOUS
  <2>1. v \in Workers
    BY DEF SetupInv, TypeOK
  <2>2. v \notin SocketIds
    BY <2>1, VerbsSetupAssumption DEF SocketIds
  <2>3. obj[w] = w
    BY <2>2 DEF SetupInv, Ownership
  <2> QED  BY <2>3 DEF SetupInv, Ownership
<1>3. \A k \in ready : txcq[k] # obj[w]
  <2> SUFFICES ASSUME NEW k \in ready PROVE txcq[k] # obj[w]
    OBVIOUS
  <2>1. started = Workers
    BY DEF SetupInv, Ownership
  <2>2. txcq[k] \in Workers \cup {0} /\ txcq[k] \in armed /\ armed \subseteq Objects
    BY DEF SetupInv, TypeOK, SocketsComplete
  <2>3. txcq[k] # 0
    <3>1. 0 \notin Objects
      BY VerbsSetupAssumption DEF Objects, SocketIds
    <3> QED  BY <2>2, <3>1
  <2> QED  BY <1>2, <2>1, <2>2, <2>3
<1> QED  BY <1>1, <1>2, <1>3 DEF SetupInv, TypeOK

\* A thread enters initialize().
LEMMA InitializeSetupInv ==
    ASSUME SetupInv, NEW w \in Workers, Initialize(w)
    PROVE  SetupInv'
<1>1. TypeOK'
  BY DEF SetupInv, TypeOK, Initialize, Goto, bootVars, cqVars
<1>2. Ownership'
  BY DEF SetupInv, TypeOK, Ownership, Initialize, Goto, bootVars, cqVars
<1>3. TxSides' /\ SocketsComplete'
  BY DEF SetupInv, TxSides, SocketsComplete, TxUp, Initialize, cqVars
<1>4. Progress'
  BY DEF SetupInv, TypeOK, Progress, Reached, TxUp, Initialize, Goto, cqVars
<1> QED  BY <1>1, <1>2, <1>3, <1>4 DEF SetupInv

\* A thread begins to construct a socket nobody has.
LEMMA NewSocketSetupInv ==
    ASSUME SetupInv, NEW w \in Workers, NewSocket(w)
    PROVE  SetupInv'
<1>0. /\ nsock \in Nat /\ nsock + 1 \in SocketIds /\ nsock' = nsock + 1
      /\ obj' = [obj EXCEPT ![w] = nsock + 1] /\ pc' = [pc EXCEPT ![w] = "cc"]
      /\ started = Workers /\ crash = "no"
      /\ UNCHANGED <<bootVars, cqVars, qp, txcq, ready, started, crash>>
  BY VerbsSetupAssumption DEF SetupInv, TypeOK, NewSocket, Goto, SocketIds
<1>t. /\ pc \in [Workers -> {"start", "cc", "nonblock", "cq", "arm", "qp", "init", "idle"}]
      /\ obj \in [Workers -> Objects] /\ ready \subseteq SocketIds
  BY DEF SetupInv, TypeOK
<1>1. TypeOK'
  <2>1. obj' \in [Workers -> Objects]
    BY <1>0, <1>t DEF Objects
  <2>2. nsock' \in 0 .. MaxSockets
    BY <1>0, VerbsSetupAssumption DEF SocketIds
  <2>3. pc' \in [Workers -> {"start", "cc", "nonblock", "cq", "arm", "qp", "init", "idle"}]
    BY <1>0, <1>t
  <2> QED  BY <1>0, <2>1, <2>2, <2>3 DEF SetupInv, TypeOK, bootVars, cqVars
<1>2. Ownership'
  <2>1. \A v \in Workers : obj[v] # nsock + 1
    <3>1. \A v \in Workers : v # nsock + 1
      BY <1>0, VerbsSetupAssumption
    <3>2. \A v \in Workers : obj[v] \in SocketIds => obj[v] <= nsock
      BY DEF SetupInv, Ownership
    <3>3. \A v \in Workers : obj[v] = v \/ obj[v] \in SocketIds
      BY DEF SetupInv, Ownership
    <3> QED  BY <1>0, <3>1, <3>2, <3>3
  <2>2. \A u, v \in Workers : u # v => obj'[u] # obj'[v]
    <3> SUFFICES ASSUME NEW u \in Workers, NEW v \in Workers, u # v
                 PROVE  obj'[u] # obj'[v]
      OBVIOUS
    <3>1. obj[u] # obj[v]
      BY DEF SetupInv, Ownership
    <3> QED  BY <1>0, <1>t, <2>1, <3>1
  <2>3. nsock + 1 \notin ready /\ \A k \in ready : k <= nsock + 1
    <3>1. \A k \in ready : k \in Nat /\ k <= nsock
      BY <1>t DEF SetupInv, Ownership, SocketIds
    <3> QED  BY <1>0, <3>1
  <2>4. ASSUME NEW v \in Workers
        PROVE  /\ obj'[v] = v \/ obj'[v] \in SocketIds
               /\ obj'[v] \in SocketIds => obj'[v] <= nsock' /\ started' = Workers
               /\ obj'[v] \in ready' => pc'[v] = "idle"
               /\ obj'[v] = v /\ v \in started' => pc'[v] = "idle"
               /\ pc'[v] \in {"qp", "init"} => obj'[v] \in SocketIds
    <3>1. CASE v = w
      <4>1. obj'[v] = nsock + 1 /\ pc'[v] = "cc"
        BY <1>0, <1>t, <3>1
      <4>2. v # nsock + 1
        BY <1>0, VerbsSetupAssumption
      <4> QED  BY <1>0, <2>3, <4>1, <4>2
    <3>2. CASE v # w
      <4>1. obj'[v] = obj[v] /\ pc'[v] = pc[v]
        BY <1>0, <1>t, <3>2
      <4>2. obj[v] \in SocketIds => obj[v] \in Nat /\ obj[v] <= nsock
        BY DEF SetupInv, Ownership, SocketIds
      <4>3. obj[v] \in SocketIds => obj[v] <= nsock + 1
        BY <1>0, <4>2
      <4> QED  BY <1>0, <4>1, <4>3 DEF SetupInv, Ownership
    <3> QED  BY <3>1, <3>2
  <2>5. \A k \in ready' : k <= nsock'
    BY <1>0, <2>3
  <2>6. ready' # {} => started' = Workers
    BY <1>0
  <2> QED  BY <2>2, <2>4, <2>5, <2>6 DEF Ownership
<1>3. TxSides' /\ SocketsComplete'
  BY <1>0 DEF SetupInv, TxSides, SocketsComplete, TxUp, cqVars
<1>4. Progress'
  <2> SUFFICES ASSUME NEW v \in Workers PROVE Reached(v)'
    BY DEF Progress
  <2>1. CASE v = w
    <3>1. w # nsock + 1
      BY <1>0, VerbsSetupAssumption
    <3> QED  BY <1>0, <1>t, <2>1, <3>1 DEF Reached
  <2>2. CASE v # w
    <3>1. obj'[v] = obj[v] /\ pc'[v] = pc[v]
      BY <1>0, <1>t, <2>2
    <3> QED  BY <1>0, <3>1 DEF SetupInv, Progress, Reached, TxUp, cqVars
  <2> QED  BY <2>1, <2>2
<1> QED  BY <1>1, <1>2, <1>3, <1>4 DEF SetupInv

\* A step of thread w that touches nothing but w's object, and moves w to l.
AtObject(w, l) ==
    /\ crash = "no" /\ crash' = "no"
    /\ pc[w] # "idle"
    /\ pc' = [pc EXCEPT ![w] = l]
    /\ UNCHANGED <<bootVars, obj, nsock>>
    /\ \A o \in Objects \ {obj[w]} : /\ channel'[o] = channel[o]
                                     /\ cq'[o] = cq[o]
                                     /\ o \in armed' <=> o \in armed
    /\ \A k \in SocketIds \ {obj[w]} : qp'[k] = qp[k] /\ txcq'[k] = txcq[k]

\* Such a step disturbs no other thread, no socket that is ready and no worker
\* that is started.
LEMMA AtObjectKeeps ==
    ASSUME SetupInv, NEW w \in Workers, NEW l, AtObject(w, l)
    PROVE  /\ \A v \in Workers \ {w} : Reached(v)'
           /\ \A v \in started : cq'[v] = "live" => TxUp(v)'
           /\ \A k \in ready :
                 /\ qp'[k] = "INIT"
                 /\ channel'[k] = "live" /\ cq'[k] = "live" /\ k \in armed'
                 /\ txcq'[k] \in armed' /\ cq'[txcq'[k]] = "live" /\ channel'[txcq'[k]] = "live"
<1>0. /\ pc \in [Workers -> {"start", "cc", "nonblock", "cq", "arm", "qp", "init", "idle"}]
      /\ obj \in [Workers -> Objects] /\ ready \subseteq SocketIds /\ started \subseteq Workers
      /\ armed \subseteq Objects
  BY DEF SetupInv, TypeOK
<1>1. /\ obj[w] \notin ready
      /\ \A v \in Workers : v # w => obj[v] # obj[w]
      /\ \A v \in started : v # obj[w]
      /\ \A k \in ready : txcq[k] # obj[w]
  BY OthersUntouched DEF AtObject
<1>2. \A v \in started : cq'[v] = "live" => TxUp(v)'
  <2> SUFFICES ASSUME NEW v \in started, cq'[v] = "live" PROVE TxUp(v)'
    OBVIOUS
  <2>1. v \in Objects \ {obj[w]}
    BY <1>0, <1>1 DEF Objects
  <2>2. cq[v] = "live"
    BY <2>1 DEF AtObject
  <2>3. TxUp(v)
    BY <2>2 DEF SetupInv, TxSides
  <2> QED  BY <2>1, <2>3 DEF AtObject, TxUp
<1>3. ASSUME NEW v \in Workers \ {w}
      PROVE  Reached(v)'
  <2>1. obj'[v] = obj[v] /\ pc'[v] = pc[v] /\ obj[v] \in Objects \ {obj[w]}
    BY <1>0, <1>1 DEF AtObject
  <2>2. Reached(v)
    BY DEF SetupInv, AtObject, Progress
  <2>3. /\ pc'[v] \in {"start", "cc", "nonblock", "cq"} /\ obj'[v] = v => cq'[v] # "live"
        /\ pc'[v] \in {"nonblock", "cq", "arm", "qp", "init"} => channel'[obj'[v]] = "live"
        /\ pc'[v] \in {"arm", "qp", "init"} => cq'[obj'[v]] = "live"
        /\ pc'[v] \in {"qp", "init"} => obj'[v] \in armed'
    BY <2>1, <2>2 DEF AtObject, Reached
  <2>4. ASSUME pc'[v] = "init"
        PROVE  txcq'[obj'[v]] \in Workers /\ TxUp(txcq[obj[v]])'
    <3>1. obj[v] \in SocketIds \ {obj[w]} /\ started = Workers
      BY <2>1, <2>4 DEF SetupInv, Ownership
    <3>2. txcq'[obj'[v]] = txcq[obj[v]]
      BY <2>1, <3>1 DEF AtObject
    <3>3. txcq[obj[v]] \in Workers /\ TxUp(txcq[obj[v]])
      BY <2>1, <2>2, <2>4 DEF Reached
    <3>4. txcq[obj[v]] \in Objects \ {obj[w]}
      BY <1>1, <3>1, <3>3 DEF Objects
    <3> QED  BY <3>2, <3>3, <3>4 DEF AtObject, TxUp
  <2> QED  BY <2>3, <2>4 DEF Reached
<1>4. ASSUME NEW k \in ready
      PROVE  /\ qp'[k] = "INIT"
             /\ channel'[k] = "live" /\ cq'[k] = "live" /\ k \in armed'
             /\ txcq'[k] \in armed' /\ cq'[txcq'[k]] = "live" /\ channel'[txcq'[k]] = "live"
  <2>1. k \in SocketIds \ {obj[w]} /\ k \in Objects
    BY <1>0, <1>1 DEF Objects
  <2>2. txcq'[k] = txcq[k] /\ qp'[k] = qp[k]
    BY <2>1 DEF AtObject
  <2>3. txcq[k] \in armed
    BY DEF SetupInv, SocketsComplete
  <2>4. txcq[k] \in Objects \ {obj[w]}
    BY <1>0, <1>1, <2>3
  <2> QED  BY <2>1, <2>2, <2>4 DEF SetupInv, SocketsComplete, AtObject
<1> QED  BY <1>2, <1>3, <1>4

\* Such a step keeps the invariant if the types are right, w gets where it has
\* reached, and a worker that becomes started, or a socket that becomes ready, is
\* w's, is left alone by w from now on, and is complete.
LEMMA AtObjectSetupInv ==
    ASSUME SetupInv, NEW w \in Workers, NEW l, AtObject(w, l), TypeOK',
           Reached(w)',
           l \in {"qp", "init"} => obj[w] \in SocketIds,
           \/ started' = started
           \/ /\ started' = started \cup {w} /\ obj[w] = w /\ l = "idle"
              /\ cq'[w] = "live" => TxUp(w)',
           \/ ready' = ready
           \/ /\ ready' = ready \cup {obj[w]} /\ l = "idle" /\ obj[w] \in SocketIds
              /\ qp'[obj[w]] = "INIT"
              /\ channel'[obj[w]] = "live" /\ cq'[obj[w]] = "live" /\ obj[w] \in armed'
              /\ TxUp(txcq[obj[w]])'
    PROVE  SetupInv'
<1>0. /\ pc \in [Workers -> {"start", "cc", "nonblock", "cq", "arm", "qp", "init", "idle"}]
      /\ started \subseteq Workers /\ started' \subseteq Workers
      /\ obj' = obj /\ nsock' = nsock
      /\ pc'[w] = l /\ \A v \in Workers : v # w => pc'[v] = pc[v]
  BY DEF SetupInv, TypeOK, AtObject, bootVars
<1>1. /\ \A v \in Workers \ {w} : Reached(v)'
      /\ \A v \in started : cq'[v] = "live" => TxUp(v)'
      /\ \A k \in ready :
            /\ qp'[k] = "INIT"
            /\ channel'[k] = "live" /\ cq'[k] = "live" /\ k \in armed'
            /\ txcq'[k] \in armed' /\ cq'[txcq'[k]] = "live" /\ channel'[txcq'[k]] = "live"
  BY AtObjectKeeps
<1>2. Ownership'
  <2>1. obj[w] \notin ready /\ \A v \in Workers : v # w => obj[v] # obj[w]
    BY OthersUntouched DEF AtObject
  <2>2. obj[w] \in ready' => l = "idle"
    BY <2>1
  <2>3. obj[w] = w /\ w \in started' => l = "idle"
    <3>1. obj[w] = w /\ w \in started => FALSE
      BY DEF SetupInv, Ownership, AtObject
    <3> QED  BY <3>1
  <2>4. started = Workers => started' = Workers
    BY <1>0
  <2>5. ASSUME NEW v \in Workers
        PROVE  /\ obj'[v] = v \/ obj'[v] \in SocketIds
               /\ obj'[v] \in SocketIds => obj'[v] <= nsock' /\ started' = Workers
               /\ obj'[v] \in ready' => pc'[v] = "idle"
               /\ obj'[v] = v /\ v \in started' => pc'[v] = "idle"
               /\ pc'[v] \in {"qp", "init"} => obj'[v] \in SocketIds
    <3>1. CASE v = w
      BY <1>0, <2>2, <2>3, <2>4, <3>1 DEF SetupInv, Ownership
    <3>2. CASE v # w
      <4>1. obj[v] \in ready' => obj[v] \in ready
        BY <2>1, <3>2
      <4>2. v \in started' => v \in started
        BY <3>2
      <4> QED  BY <1>0, <2>4, <3>2, <4>1, <4>2 DEF SetupInv, Ownership
    <3> QED  BY <3>1, <3>2
  <2>6. \A k \in ready' : k <= nsock'
    BY <1>0 DEF SetupInv, Ownership
  <2>7. ready' # {} => started' = Workers
    BY <2>4 DEF SetupInv, Ownership
  <2>8. \A u, v \in Workers : u # v => obj'[u] # obj'[v]
    BY <1>0 DEF SetupInv, Ownership
  <2> QED  BY <2>5, <2>6, <2>7, <2>8 DEF Ownership
<1>3. TxSides'
  BY <1>1 DEF TxSides
<1>4. SocketsComplete'
  <2> SUFFICES ASSUME NEW k \in ready', k \notin ready
               PROVE  /\ qp'[k] = "INIT"
                      /\ channel'[k] = "live" /\ cq'[k] = "live" /\ k \in armed'
                      /\ txcq'[k] \in armed' /\ cq'[txcq'[k]] = "live"
                      /\ channel'[txcq'[k]] = "live"
    BY <1>1 DEF SocketsComplete
  <2>1. k = obj[w] /\ obj' = obj
    BY <1>0
  <2> QED  BY <2>1 DEF TxUp
<1>5. Progress'
  BY <1>1 DEF Progress
<1> QED  BY <1>2, <1>3, <1>4, <1>5 DEF SetupInv

\* The types that the steps below start from.
LEMMA SetupTypes ==
    ASSUME SetupInv, NEW w \in Workers
    PROVE  /\ pc \in [Workers -> {"start", "cc", "nonblock", "cq", "arm", "qp", "init", "idle"}]
           /\ channel \in [Objects -> Life] /\ cq \in [Objects -> Life]
           /\ qp \in [SocketIds -> QpStates] /\ txcq \in [SocketIds -> Workers \cup {0}]
           /\ armed \subseteq Objects /\ started \subseteq Workers
           /\ obj[w] \in Objects
           /\ w \in Objects
           /\ pc[w] \in {"qp", "init"} => obj[w] \in SocketIds
           /\ obj[w] = w \/ obj[w] \in SocketIds
           /\ crash = "no" => Reached(w)
  BY DEF SetupInv, TypeOK, Ownership, Progress, Objects

LEMMA CreateChannelSetupInv ==
    ASSUME SetupInv, NEW w \in Workers, CreateChannel(w)
    PROVE  SetupInv'
<1>1. CASE Crash(IF IsTx(w) THEN "null_channel" ELSE "null_qp")
  BY <1>1, CrashSetupInv DEF CrashWay
<1>2. CASE ~Crash(IF IsTx(w) THEN "null_channel" ELSE "null_qp")
  <2>1. /\ channel' = [channel EXCEPT ![obj[w]] = "live"]
        /\ pc' = [pc EXCEPT ![w] = "nonblock"]
        /\ crash = "no" /\ pc[w] = "cc"
        /\ UNCHANGED <<bootVars, cq, armed, qp, txcq, ready, started, nsock, obj, crash>>
    BY <1>2 DEF CreateChannel, Goto
  <2>2. AtObject(w, "nonblock")
    BY <2>1, SetupTypes DEF AtObject
  <2>3. Reached(w)'
    BY <2>1, SetupTypes DEF Reached
  <2>4. TypeOK'
    <3>1. /\ channel' \in [Objects -> Life]
          /\ pc' \in [Workers -> {"start", "cc", "nonblock", "cq", "arm", "qp", "init", "idle"}]
      BY <2>1, SetupTypes DEF Life
    <3> QED  BY <2>1, <3>1 DEF SetupInv, TypeOK, bootVars
  <2> QED  BY <2>1, <2>2, <2>3, <2>4, AtObjectSetupInv
<1> QED  BY <1>1, <1>2

LEMMA SetNonblockingSetupInv ==
    ASSUME SetupInv, NEW w \in Workers, SetNonblocking(w)
    PROVE  SetupInv'
<1>1. CASE DeleteDestroyed
  BY <1>1, CrashSetupInv DEF DeleteDestroyed, CrashWay
<1>2. CASE ~DeleteDestroyed
  <2>1. /\ pc' = [pc EXCEPT ![w] = "cq"]
        /\ crash = "no" /\ pc[w] = "nonblock"
        /\ UNCHANGED <<bootVars, channel, cq, armed, qp, txcq, ready, started, nsock, obj, crash>>
    BY <1>2 DEF SetNonblocking, Goto, cqVars
  <2>2. AtObject(w, "cq")
    BY <2>1, SetupTypes DEF AtObject
  <2>3. Reached(w)'
    BY <2>1, SetupTypes DEF Reached
  <2>4. TypeOK'
    <3>1. pc' \in [Workers -> {"start", "cc", "nonblock", "cq", "arm", "qp", "init", "idle"}]
      BY <2>1, SetupTypes
    <3> QED  BY <2>1, <3>1 DEF SetupInv, TypeOK, bootVars
  <2> QED  BY <2>1, <2>2, <2>3, <2>4, AtObjectSetupInv
<1> QED  BY <1>1, <1>2

\* The failure of ibv_create_cq destroys the channel of a socket nobody has seen,
\* so even the state the process dies in has no incomplete socket in it.
LEMMA CreateCqSetupInv ==
    ASSUME SetupInv, NEW w \in Workers, CreateCq(w)
    PROVE  SetupInv'
<1>0. /\ crash = "no" /\ pc[w] = "cq"
      /\ UNCHANGED <<bootVars, armed, qp, txcq, ready, nsock, obj>>
  BY DEF CreateCq
<1>1. CASE /\ cq' = [cq EXCEPT ![obj[w]] = "live"]
           /\ pc' = [pc EXCEPT ![w] = "arm"]
           /\ UNCHANGED <<started, channel, crash>>
  <2>1. AtObject(w, "arm")
    BY <1>0, <1>1, SetupTypes DEF AtObject
  <2>2. Reached(w)'
    BY <1>0, <1>1, SetupTypes DEF Reached
  <2>3. TypeOK'
    <3>1. /\ cq' \in [Objects -> Life]
          /\ pc' \in [Workers -> {"start", "cc", "nonblock", "cq", "arm", "qp", "init", "idle"}]
      BY <1>1, SetupTypes DEF Life
    <3> QED  BY <1>0, <1>1, <3>1 DEF SetupInv, TypeOK, bootVars
  <2> QED  BY <1>0, <1>1, <2>1, <2>2, <2>3, AtObjectSetupInv
<1>2. CASE /\ obj[w] = w
           /\ pc' = [pc EXCEPT ![w] = "idle"]
           /\ started' = started \cup {w}
           /\ UNCHANGED <<cq, channel, crash>>
  <2>1. AtObject(w, "idle")
    BY <1>0, <1>2, SetupTypes DEF AtObject
  <2>2. Reached(w)'
    BY <1>0, <1>2, SetupTypes DEF Reached
  <2>3. TypeOK'
    <3>1. /\ started' \subseteq Workers
          /\ pc' \in [Workers -> {"start", "cc", "nonblock", "cq", "arm", "qp", "init", "idle"}]
      BY <1>2, SetupTypes
    <3> QED  BY <1>0, <1>2, <3>1 DEF SetupInv, TypeOK, bootVars
  <2>4. cq'[w] = "live" => TxUp(w)'
    BY <1>0, <1>2, SetupTypes DEF Reached
  <2> QED  BY <1>0, <1>2, <2>1, <2>2, <2>3, <2>4, AtObjectSetupInv
<1>3. CASE /\ channel' = [channel EXCEPT ![obj[w]] = "gone"]
           /\ crash' = "null_cq"
           /\ UNCHANGED <<cq, started, pc>>
  <2>1. TypeOK'
    <3>1. channel' \in [Objects -> Life] /\ crash' \in CrashWay
      BY <1>3, SetupTypes DEF Life, CrashWay
    <3> QED  BY <1>0, <1>3, <3>1 DEF SetupInv, TypeOK, bootVars
  <2>2. Ownership'
    BY <1>0, <1>3 DEF SetupInv, Ownership
  <2>3. \A o \in Objects : o # obj[w] => channel'[o] = channel[o]
    BY <1>3, SetupTypes
  <2>4. /\ obj[w] \notin ready
        /\ \A v \in started : v # obj[w]
        /\ \A k \in ready : txcq[k] # obj[w]
    BY <1>0, OthersUntouched
  <2>5. started \subseteq Objects /\ ready \subseteq Objects /\ armed \subseteq Objects
    BY SetupTypes DEF SetupInv, TypeOK, Objects
  <2>6. TxSides'
    BY <1>0, <1>3, <2>3, <2>4, <2>5 DEF SetupInv, TxSides, TxUp
  <2>7. SocketsComplete'
    BY <1>0, <1>3, <2>3, <2>4, <2>5 DEF SetupInv, SocketsComplete
  <2> QED  BY <1>3, <2>1, <2>2, <2>6, <2>7 DEF SetupInv
<1> QED  BY <1>1, <1>2, <1>3 DEF CreateCq, Goto, IsTx

LEMMA ArmCqSetupInv ==
    ASSUME SetupInv, NEW w \in Workers, ArmCq(w)
    PROVE  SetupInv'
<1>1. CASE DeleteDestroyed
  BY <1>1, CrashSetupInv DEF DeleteDestroyed, CrashWay
<1>2. CASE ~DeleteDestroyed
  <2> DEFINE l == IF obj[w] = w THEN "idle" ELSE "qp"
  <2>1. /\ armed' = armed \cup {obj[w]}
        /\ pc' = [pc EXCEPT ![w] = l]
        /\ started' = IF obj[w] = w THEN started \cup {w} ELSE started
        /\ crash = "no" /\ pc[w] = "arm"
        /\ UNCHANGED <<bootVars, channel, cq, qp, txcq, ready, nsock, obj, crash>>
    BY <1>2 DEF ArmCq, Goto, IsTx
  <2>2. AtObject(w, l)
    BY <2>1, SetupTypes DEF AtObject
  <2>3. pc'[w] = l
    BY <2>1, SetupTypes
  <2>4. Reached(w)'
    BY <2>1, <2>3, SetupTypes DEF Reached
  <2>5. TypeOK'
    <3>1. /\ armed' \subseteq Objects /\ started' \subseteq Workers
          /\ pc' \in [Workers -> {"start", "cc", "nonblock", "cq", "arm", "qp", "init", "idle"}]
      BY <2>1, SetupTypes
    <3> QED  BY <2>1, <3>1 DEF SetupInv, TypeOK, bootVars
  <2>6. obj[w] = w => TxUp(w)'
    BY <2>1, SetupTypes DEF TxUp, Reached
  <2>7. l \in {"qp", "init"} => obj[w] \in SocketIds
    BY SetupTypes
  <2> HIDE DEF l
  <2>8. \/ started' = started
        \/ started' = started \cup {w} /\ obj[w] = w /\ l = "idle"
    BY <2>1 DEF l
  <2> QED  BY <2>1, <2>2, <2>4, <2>5, <2>6, <2>7, <2>8, AtObjectSetupInv
<1> QED  BY <1>1, <1>2

\* The worker whose queue the socket uses is started, so a live queue of it is
\* armed.
LEMMA CreateQpSetupInv ==
    ASSUME SetupInv, NEW w \in Workers, NEW v \in Workers, CreateQp(w, v)
    PROVE  SetupInv'
<1>1. CASE Crash("null_qp") \/ Crash("null_cq")
  BY <1>1, CrashSetupInv DEF CrashWay
<1>2. CASE ~(Crash("null_qp") \/ Crash("null_cq"))
  <2>1. /\ qp' = [qp EXCEPT ![obj[w]] = "RESET"]
        /\ txcq' = [txcq EXCEPT ![obj[w]] = v]
        /\ pc' = [pc EXCEPT ![w] = "init"]
        /\ cq[v] = "live"
        /\ crash = "no" /\ pc[w] = "qp"
        /\ UNCHANGED <<bootVars, channel, cq, armed, ready, started, nsock, obj, crash>>
    BY <1>2 DEF CreateQp, Goto, HasCq, cqVars
  <2>2. AtObject(w, "init")
    BY <2>1, SetupTypes DEF AtObject
  <2>3. TxUp(v)'
    <3>1. started = Workers
      BY <2>1, SetupTypes DEF SetupInv, Ownership
    <3> QED  BY <2>1, <3>1 DEF SetupInv, TxSides, TxUp
  <2>4. Reached(w)'
    <3>1. txcq'[obj'[w]] = v /\ obj[w] \in SocketIds
      BY <2>1, SetupTypes
    <3>2. TxUp(txcq[obj[w]])'
      BY <2>3, <3>1 DEF TxUp
    <3> QED  BY <2>1, <3>1, <3>2, SetupTypes DEF Reached
  <2>5. TypeOK'
    <3>1. /\ qp' \in [SocketIds -> QpStates] /\ txcq' \in [SocketIds -> Workers \cup {0}]
          /\ pc' \in [Workers -> {"start", "cc", "nonblock", "cq", "arm", "qp", "init", "idle"}]
      BY <2>1, SetupTypes DEF QpStates
    <3> QED  BY <2>1, <3>1 DEF SetupInv, TypeOK, bootVars
  <2>6. obj[w] \in SocketIds
    BY <2>1, SetupTypes
  <2> QED  BY <2>1, <2>2, <2>4, <2>5, <2>6, AtObjectSetupInv
<1> QED  BY <1>1, <1>2

LEMMA ModifyToInitSetupInv ==
    ASSUME SetupInv, NEW w \in Workers, ModifyToInit(w)
    PROVE  SetupInv'
<1>1. CASE DeleteDestroyed
  BY <1>1, CrashSetupInv DEF DeleteDestroyed, CrashWay
<1>2. CASE ~DeleteDestroyed
  <2>1. /\ qp' = [qp EXCEPT ![obj[w]] = "INIT"]
        /\ ready' = ready \cup {obj[w]}
        /\ pc' = [pc EXCEPT ![w] = "idle"]
        /\ crash = "no" /\ pc[w] = "init"
        /\ UNCHANGED <<bootVars, channel, cq, armed, txcq, started, nsock, obj, crash>>
    BY <1>2 DEF ModifyToInit, Goto, cqVars
  <2>2. AtObject(w, "idle")
    BY <2>1, SetupTypes DEF AtObject
  <2>3. Reached(w)'
    BY <2>1, SetupTypes DEF Reached
  <2>4. obj[w] \in SocketIds /\ Reached(w)
    BY <2>1, SetupTypes
  <2>5. TypeOK'
    <3>1. /\ qp' \in [SocketIds -> QpStates]
          /\ pc' \in [Workers -> {"start", "cc", "nonblock", "cq", "arm", "qp", "init", "idle"}]
      BY <2>1, SetupTypes DEF QpStates
    <3> QED  BY <2>1, <2>4, <3>1 DEF SetupInv, TypeOK, bootVars
  <2>6. /\ qp'[obj[w]] = "INIT"
        /\ channel'[obj[w]] = "live" /\ cq'[obj[w]] = "live" /\ obj[w] \in armed'
        /\ TxUp(txcq[obj[w]])'
    BY <2>1, <2>4, SetupTypes DEF Reached, TxUp
  <2> QED  BY <2>1, <2>2, <2>3, <2>4, <2>5, <2>6, AtObjectSetupInv
<1> QED  BY <1>1, <1>2

LEMMA NextSetupInv ==
    ASSUME SetupInv, [Next]_vars
    PROVE  SetupInv'
<1>1. CASE GetDevice \/ Resources \/ CreateSrq \/ UNCHANGED vars
  BY <1>1, BootSetupInv
<1>2. ASSUME NEW w \in Workers,
             \/ Initialize(w) \/ NewSocket(w)
             \/ CreateChannel(w) \/ SetNonblocking(w) \/ CreateCq(w) \/ ArmCq(w)
             \/ \E v \in Workers : CreateQp(w, v)
             \/ ModifyToInit(w)
      PROVE  SetupInv'
  BY <1>2, InitializeSetupInv, NewSocketSetupInv, CreateChannelSetupInv,
     SetNonblockingSetupInv, CreateCqSetupInv, ArmCqSetupInv, CreateQpSetupInv,
     ModifyToInitSetupInv
<1> QED  BY <1>1, <1>2 DEF Next, Crashed

-----------------------------------------------------------------------------
(* The theorems.                                                            *)

\* In every state the types are right, threads set up different objects and have
\* made of them what their place says, and sockets and transmit sides are complete.
THEOREM SetupInvariance == Spec => []SetupInv
<1>1. Init => SetupInv
  BY InitSetupInv
<1>2. SetupInv /\ [Next]_vars => SetupInv'
  BY NextSetupInv
<1> QED  BY <1>1, <1>2, PTL DEF Spec

\* A socket whose constructor returned is complete, whichever verbs calls failed
\* around it and however the threads interleaved.
THEOREM SocketsCompleteTheorem == Spec => [](TypeOK /\ SocketsComplete)
<1>1. SetupInv => TypeOK /\ SocketsComplete
  BY DEF SetupInv
<1> QED  BY <1>1, SetupInvariance, PTL
=============================================================================
