# workd: a TLA+ model of its RDMA messaging code

The repository holds two bodies of code that talk to InfiniBand/RoCE adapters through
libibverbs:

* `src/rdma/`: an RDMA network stack in the style of Ceph's async messenger (workers, connected
  and server sockets, registered chunks, completion queues);
* `src/debug/`: an older, self-contained library of *sessions* (`rdma_session`, `rdma_portal`)
  with benchmark programs on top of it.

This directory models both, checks the models with TLC and proves most of the safety properties
with TLAPS: of the transmit and the receive path, of the UDP handshake, of the construction of the
verbs objects, of the wire format, and of sessions from their opening to their end. Nothing here is generated from the
code; `PROJECT.json` maps every definition to the lines it stands for.

## Inventory

### src/rdma

| Component | State | Operations | Interacts with |
|---|---|---|---|
| Device choice (`ResourceManager.h`) | list of devices, the device in use, its active port | `DeviceList`, `Device`, `get_device` | the constructor of `Infiniband` |
| Verbs objects (`Infiniband`, `CompletionChannel`, `CompletionQueue`, `QueuePair`, `RDMAWorker::initialize`) | handles of channels, queues, queue pairs, the shared receive queue | `init()` of each class, `create_*` factories, destructors | every worker and every socket; the transmit queue of one worker serves sockets of others |
| Memory (`MemoryManager`, `Cluster`, `Chunk`) | two free lists (`channel`, `send`), offset and bytes of each chunk | `get_tx_buffers`, `return_channel`, `Chunk::write/read` | shared by all workers, without a lock |
| Transmit path (`RDMAConnectedSocketImpl::send`, `RDMAWorker::handle_tx_event`) | requests in flight, `tx_cq`, its armed bit and its events, the static array of completions | `send`, `get_cq_event`, `poll_cq`, `rearm_notify` | the memory manager; the adapter; the event loop |
| Receive path (`RDMAConnectedSocketImpl::read`, `read_buffers`) | shared receive queue, one receive queue per socket, `rx_buffers`, a static array of completions | `read`, `post_channel_cluster` | the adapter; the event loop; the RECV cluster |
| Connection setup (`RDMAWorker::listen/connect`, `RDMAServerSocketImpl`, `activate`) | UDP sockets, state of each queue pair, `peer_msg` | `listen`, `accept`, `connect`, `send_udp_msg`, `recv_udp_msg`, `activate` | the peer's stack, by datagrams |
| Wire format (`IBSYNMsg`, `gid_to_wire_gid`, `wire_gid_to_gid`) | none | printing and scanning of an address | connection setup |
| Stack plumbing (`RDMAStack`, core ids) | lists of numbers and threads | `spawn_workers`, `get_core_id` | starts the workers |

### src/debug

| Component | State | Operations | Interacts with |
|---|---|---|---|
| Address exchange (`create_context`, `rdma_client_exch_dest`, `rdma_server_exch_dest`, `rdma_portal`) | TCP socket, queue pair, `remote_info` | `rdma_socket_p`, `rdma_connect_ctx`, `open_server`, `accept` | the peer, over TCP |
| Sessions (`rdma_session`) | receive buffers and their index, `send_cq`, `recv_cq`, keys of the peer's slices | `init`, `door`, `send`, `latency`, `bulk`, `read`, `query_sr`, `close` | the peer, over the queue pair |
| Huge pages, ping-pong helpers, benchmarks | none of their own | `malloc_huge_pages`, `xx`, `regread`, `cpyread`, `migration` | callers of sessions |

### What is hard

* **Notification.** A completion queue raises one event after it was armed. A handler polls,
  arms, and must poll once more, or a completion that came in between waits for ever. Two
  handlers do this (`RDMAStack.cc:143`, `RDMAConnectedSocketImpl.cc:84`); both ignore a failed
  arming.
* **Shared state without locks.** All workers use the same free lists and the same `static`
  completion arrays. `back()` and `pop_back()` are two accesses, `read()` fetches `wr_id`, `status`
  and twice `byte_len` from an entry that another worker's poll may replace in between, and
  `Chunk::write` and `Chunk::read` compute what is left of a chunk before they move its offset.
* **Buffers at their boundary.** Chunk counts are rounded up by hand, chunks carry an offset
  from their last use, and sends take their chunks from the cluster meant for receives.
* **Unreliable setup.** The UDP handshake has no timeout; datagrams are lost, resent and come
  late; the server answers before its queue pair is up; errors are injected on purpose.
* **Half-failed construction.** Each of a dozen verbs calls may fail, with a different cleanup.
* **One pool for both directions.** Every chunk of the RECV cluster is posted for receiving when
  the stack starts, stays on the free list all the same, and is what `send()` takes.
* **Ordering of the session exchange.** Which end is ready first, whose message comes first, and
  what an end does with messages that arrive too early; an uninitialised `flag` decides.
* **Counting completions.** `bulk()` and `latency()` count whatever completes. A call that fails
  half-way leaves requests and completions to the next one; one send buffer and 1024 receive
  buffers are used again and again without flow control.

The list of hazards, each at its line and with the properties aimed at it, is in
`PROJECT.json`.

### What makes each component correct

* Transmit: no chunk is used twice, and none is lost but those of a refused post; what is posted is
  what was given; completions are reaped only from filled entries; none is stranded; every posted
  chunk comes back.
* Receive: bytes reach the caller once and in order; none is dropped; the caller's buffer is not
  overrun; completions are taken only from filled entries; none is stranded.
* Connection setup: both ends name each other, also when answers to an earlier call come late;
  duplicates are bounded; `connect()` returns unless something was lost.
* Wire format: an address survives the round trip.
* Verbs objects: a socket that the program goes on to use is complete and armed, whatever failed
  in the thread that made it or in the one whose transmit queue it shares.
* Both paths together: the bytes given to `send()` come out of the peer's `read()` once and in
  order; none is lost; posted requests find a receive; messages are read in the end.
* Sessions: the server is ready before the client can send; the keys are the peer's; an idle
  session has nothing in flight; both ends open. A bulk that returns is in the peer's memory;
  memory stays registered while it is written from; messages land in order; calls return.

## Modules

| Module | Models | State and actions |
|---|---|---|
| `Wakeup` | abstract: what a queue with a channel promises its thread | `pending`, `signal`, `awake`, `deaf`; a thread goes to sleep only when nothing is pending or a signal waits |
| `TxPath` | transmit path and memory manager | free lists, offsets, send queues, completion queues, the static array, one program counter per worker; one action per access to shared state, `Chunk::read` of received chunks included |
| `TxPathProofs` | theorems about `TxPath` | |
| `RxPath` | receive path | shared receive queue, bytes and offset of each chunk, per-socket queues, the static array, `rx_buffers`, what callers got; one action per look at shared state, and what `send()` writes into the same chunks |
| `RxPathProofs` | theorems about `RxPath` | |
| `DataPath` | both paths over one memory manager, between two processes | free list, bytes and offset of each chunk, posted receives and requests, completions, `rx_buffers`; a call of `send()` or `read()` is one action |
| `DataPathProofs` | theorems about `DataPath` | |
| `UdpHandshake` | connection setup | queue pairs, the UDP socket of each call, datagrams on their way, one program counter per worker |
| `UdpHandshakeProofs` | theorems about `UdpHandshake` | |
| `SynMsg` | wire format | the packed struct byte by byte, one action per conversion of `sscanf` |
| `SynMsgProofs` | theorems about `SynMsg` | |
| `VerbsSetup` | device choice and construction | a state for each handle, one program counter per worker, how the process ended |
| `VerbsSetupProofs` | theorems about `VerbsSetup` | |
| `SessionOpen` | address exchange and opening of sessions of `src/debug` | TCP connections, queue pairs, completion queues, the first receive buffer, keys, one program counter per process |
| `SessionOpenProofs` | theorems about `SessionOpen` | |
| `SessionTransfer` | an open session: `bulk`, `latency`, `read`, `query_sr`, `post_recv`, `close`, and the benchmark `xx` | locals of `bulk`, registered pieces, send and receive queues and completions, remote slices, receive buffers |
| `SessionTransferProofs` | theorems about `SessionTransfer` | |
| `MC*` | instances for TLC | constants only |

`TxPath` and `RxPath` instantiate `Wakeup` once per queue, with a refinement mapping; the
mapping of the armed bit and of the number of polls is what the abstraction hides.

### Correspondence with the code

*TxPath.* `SendBegin` is `send()` up to the size test of `get_buffers`; `TakeBack` and `PopBack`
are the two accesses of its loop. One turn of the copy loop, for a piece of the bufferlist of any
length, is three steps, since another worker may hold the same chunk: `WriteBegin` computes `left`,
`WriteEnd` copies and moves the offset (a data race, so `offset += len` starts from what is in memory
or from what was seen before), `FullTest` is `full()` and the iterator. `ReadBegin` and `ReadEnd` are
`Chunk::read` in the same way: chunks of the RECV cluster are received into and read while they are
on the free list of `send()`, or taken from it, and reading moves their offset. What was received,
and when, is `RxPath`; here any chunk of the cluster may be read. `Post` and `PostFail` are
`ibv_post_send`. `GetCqEvent`, `PollCq`, `ReapBegin`, `ReapEnd` and `Rearm` are the steps of
`handle_tx_event`; the two in the middle fetch `wr_id` and `status` of one entry. `QpError`,
`Complete` and `Notify` are the adapter (external). The ways the process can end are values of
`crash`: an `assert(0)` on a bad completion, a `begin()` of an empty vector, an access past the end.
Locals of a thread are functions of the worker. `leaked`, `stuck`, `touched` and `raced` are history:
chunks dropped by a failed `ibv_post_send`, workers whose `ibv_req_notify_cq` was refused, chunks that
were read, and that two workers took chunks, or one polled while the other looked at completions, at
the same time.

*RxPath.* Bytes sent on a socket are numbered, so that the contents of the caller's buffer tell
order, loss and repetition. `ReadCall` and `GetCqEvent` are the spinning wait of `read()`,
`ReadBuffers` and `Reread` one turn of `read_buffers`, `PollCq` and `Rearm` the frame of its main loop.
One turn over a completion is a step for every look at the shared entry: `TakeChunk` (`wr_id`),
`TakeStatus`, `KeepChunk` or `TakeLength` (the test with `byte_len`), `TakeLengthAgain` (`byte_len` as the
length of the copy), then `TakeCopy` and `TakeMove`, which are the two halves of `Chunk::read`, which
goes by the size of a chunk. Differences of unsigned numbers that the code lets wrap around are modelled
as what they amount to: endless room (`Fits`, `Room`), or a copy out of memory (`Endless`). `SendWrite` is
what a `send()` does to a chunk of this cluster, posted or not; `mixed` records that it did so to bytes
still to be read, `raced` that a worker polled while another was taking. Messages may be empty.
`PostChannelCluster` posts the chunks once, and may stop early.

*DataPath.* Composes the two paths where they meet, in the memory manager. With one worker per
process nothing but the adapter runs inside a call, and the adapter only adds completions, so
`Send` and `Read` are whole calls; what happens between their accesses is the business of
`TxPath` and `RxPath`. `GetBuffers` is `get_buffers` with its special case for 0 bytes, `Fill` the
copy loop with `Chunk::write`, `Take` one turn of the loop of `read()` and `TakeAll` the loop,
`ReadBuffers` and `ChunkRead` the functions of that name. `OnWire` reads a chunk when the adapter sends it, not when
it was posted. Bytes carry the end that sent them and their place in its stream. `deaf`,
`refused`, `echoed` and `posted` are history: a refused arming, a refused post, an empty message
that sent received bytes back, how much of the cluster was posted at the start.

*UdpHandshake.* A worker is one thread: in `connect()` it blocks in `recvfrom` and serves nobody.
Every call makes a UDP socket (`SetupSocket`), leaves the one before open, and takes whatever arrives at
its own: nothing in a message says which call it answers. `addr` is where a server's answer goes.
`SendTo` is one turn of the retry loop, in which an injected failure may hide a datagram that
was sent; `ConnectRecv` and `AcceptRecv` cover the three results of `recv_udp_msg`; `Activate`
is the two `ibv_modify_qp`. A result of `recv_udp_msg` without a datagram is `Junk`, since the
buffer it scans was never written. `Lose` is the network. Datagrams of a client are a count, so
they are unordered.

*SynMsg.* The fields are scanned into the packed `IBSYNMsg` in the order of the format: the
32-bit store of `lid` runs over `qpn`, which is stored next.

*VerbsSetup.* Each action is one verbs call with its success and its failure path, as the code
has it: a handle that `init()` destroyed and the destructor destroys again ends the process
(`double_destroy`), a missing queue is dereferenced (`null_cq`). `GetDevice` is the choice of a
device and a port, whose calls may all fail without the code noticing: `ibv_open_device` leaves a NULL
context (`null_context`), `ibv_query_device` and `ibv_query_port` uninitialised attributes in which any
port may look active (`PortsSeen`), and without an active port an uninitialised `active_port` is followed
to any number or to the end of the process. A failed `ibv_query_gid` leaves the gid unwritten, which is
no state here. `Initialize` and `NewSocket` start a construction in the thread of a worker.

*SessionOpen.* `CreateContext` to `ConnectCtx` follow `create_context` and the two exchange
functions; `Fail` is every `return NULL` of theirs, after which `init()` follows a null pointer
and the process is gone. A client refused by TCP goes on to a UDP socket, because
`getaddrinfo` is asked for any socket type. `StartRw`, `StartRwDone`, `QueryDoor` and `StartRemote` are
the door in the order `flag` chooses; a client's `flag` is uninitialised and therefore any value.
`QueryDoor` polls and goes by the first entry, `StartRemote` then parses the first receive buffer,
`buffer0`, which receive number `RecvNums` uses again (`Slot`).
`Latency`, `QuerySr` and `Close` are the operations of an open session. `Deliver` and `GiveUp`
are the adapter: reliable in-order delivery, receiver-not-ready retried for ever
(`rnr_retry = 7`), a silent peer given up on after `retry_cnt`.

*SessionTransfer.* Starts where `SessionOpen` ends, with one end that sends and one that
receives. `Bulk` registers the pieces, `Rdma` posts one, `WaitAck` is one turn of the loop that
counts completions, `Dereg` the end; `Latency` and `LatencyDone` are the two halves of
`latency()`. Each may return -1 as the code does, with the cleanup it leaves out. `XStart`, `XNext`
and `Close` are the client of `xx`, `Read` its server. `Transmit` sends what is in the send buffer
at that time. `ReadOut` is the copying of `read()` with its two cases of wrap-around; `QueryFlag` is
the flag `query()` passes. `spoiled` and `failed` are history: a call left requests or completions
behind, a call returned -1.

## Runs

| Run | Question | Properties |
|---|---|---|
| `TxPathTwoWorkers` | two workers with a socket each, messages of 2 and 3 bytes in chunks of 2, one `Chunk::read` | `TypeOK`, `ReapsFilledEntries`, `NoLostWakeup`, `NotifyInv`, `ChunkConservation`, `PostedBytesMatch`, `NeverPastEnd`, `SentChunksComeBack`, `WakeupRefined` |
| `TxPathSendCluster` | does the SEND cluster serve sends? (violated) | `SendClusterServesSends` |
| `RxPathTwoWorkers` | two workers read a socket each, two chunks, messages of 0 to 2 bytes, reads of 1 and 3, one `send()` into a chunk | `TypeOK`, `StreamExact`, `NoByteDropped`, `TakesFilledEntries`, `NoLostWakeup`, `MessagesTaken`, `WakeupRefined` |
| `DataPath` | two processes send and read over their one pool of chunks each | `StreamIntact`, `NothingLost`, `ReceivesSuffice`, `MessagesRead` |
| `UdpHandshake` | two calls by two workers that may call each other, a resend, losses, failing calls | `Paired`, `BoundedDuplicates`, `ConnectReturns`, `PeerComesUp` |
| `UdpHandshakeJunk` | is a message that was not read ever used? (violated) | `NoJunkPeer` |
| `SynMsg` | every `lid` and `qpn` over one-bit bytes, stale contents of the struct | `RoundTrip` |
| `VerbsSetup` | all lists of up to two devices with up to two ports, two workers, two sockets | `SocketsComplete` |
| `VerbsSetupDestroy` | is a handle ever destroyed twice? (violated) | `DestroyedOnce` |
| `SessionOpen` | a server and two clients with two receive buffers, a `latency()` call of one client and one of the server | `ServerReadyFirst`, `KeysOfPeer`, `ClientLosesNothing`, `IdleIsDrained`, `SessionOpens` |
| `SessionTransfer` | two calls of `bulk()` or `latency()` in any order, or a stream of four messages | `BulkLanded`, `InFlightRegistered`, `IdleIsClean`, `StreamLands`, `ReadInOrder`, `OnlyLastLost`, `CallsReturn` |
| `SessionRead` | does the server of `xx` receive what was sent? (violated) | `ServerReceivesAll` |

The runs of `TxPath` and `RxPath` have two workers, so that the races on the free lists, the chunks and
the arrays happen; what holds in spite of them (filled entries, wakeups, refinement) is also proved for
any number of workers. `TypeOK` is checked where it says something about the code (acknowledgements,
copies inside the caller's buffer), in these two runs; in the other modules it documents the types of
the variables.

Each property of a passing run has a mutant in `PROJECT.json`: an operator that changes the model
as a plausible slip in the code would (the second poll left out, an offset kept, a resend too
many), under which the property fails. The mutants stand beside the definitions they change.

### What the passing runs show, and its limits

* `ChunkConservation` holds until two workers take chunks, or look at completions, at the same time
  (`raced`); after that chunks are in two places or in none. It counts the chunks that a refused post
  drops as a place of their own, so it says that no others are lost, not that these are not. With an
  empty bufferlist `get_buffers(0)` returns every free chunk without removing it and it fails too; empty
  messages are in the model (`MaxEmpty`) and in the theorems, and are run in `DataPath`. The code and its
  comments promise none of this. What survives is proved: the handler reaps only filled entries, and no
  completion is stranded.
* `NeverPastEnd` and `PostedBytesMatch` hold because returned chunks go to the list sends
  do not draw from: if they came back to `channel` with their old offset, `NeverPastEnd` would break (that
  is its mutant). They are about chunks that were not read (`Clean`). A chunk that was received into
  and read is still on the list of `send()`, and its offset was moved: such a `send()` posts bytes it was
  not given, or runs past the last buffer, with one worker too. `DataPath` reaches this as `past_end`.
* `StreamExact` holds until the first chunk is kept in `rx_buffers`. Afterwards the code re-reads
  kept chunks to their full size and never removes them; only `NoByteDropped` is left. Both end where
  the state that is shared without a lock is used by two: a poll that replaces entries another worker
  has yet to take (`raced`), and a `send()` that writes into a chunk whose bytes are still to be read
  (`mixed`), which needs no second worker.
* That `read()` stays inside the caller's buffer (`TypeOK` of `RxPath`) ends with the first such poll:
  `byte_len` is checked and then fetched again, and two workers do overrun the buffer.
* `MessagesTaken` excepts a worker that spins in `read()` of another socket without an event,
  which the code allows. In the run each worker has one socket, so there the exception cannot arise and
  the property holds without it.
* `Paired` rests on the new socket of every call (its mutant uses the old one again); answers to a call
  that gave up stay where they are for ever, with the socket.
* `StreamIntact` and `NothingLost` hold while no chunk was both received into and taken by
  `send()` (`Fresh`): receives go through the list from the front and sends from the back, which is
  the only thing that keeps them apart (the mutant that takes sends from the front breaks the stream
  with the first answer). An empty message is harmless until a chunk was received into; then it
  echoes that chunk to the peer.
* `ReceivesSuffice` is the reason why posting receives once is enough between two peers of the
  same size: the sender's pool, which is never refilled either, ends first. Empty messages, which
  cost no chunk, and a cluster that could be posted only in part break it.
* `BulkLanded`, `InFlightRegistered` and `StreamLands` are about sessions in which no call left
  requests or completions behind (`~spoiled`), `StreamLands` while the receives of the opening last.
  After such a call `bulk()` counts foreign completions: it deregisters memory that is still being
  written from, or waits for ever.
* `ReadInOrder` says what `read()` would make of the completions if it got them; that it gets none is
  the finding of `SessionRead`.
* `ConnectReturns` excepts a lost datagram and a called worker that is itself blocked or dead;
  two workers that call each other are such a case.
* `KeysOfPeer`, `ClientLosesNothing` and `IdleIsDrained` are about ends whose adapter (and
  whose peer's) has not failed; the door ignores such failures. `KeysOfPeer` also ends where a peer has
  sent more messages than there are receive buffers before its list was parsed; the run stays below
  that, the theorem does not. `SessionOpens` excepts an adapter that gives up and a client that fell back to
  UDP. The server has no counterpart of
  `ClientLosesNothing`: messages the client sends as soon as it is open may be polled together
  with its list and are then thrown away.

### Bounds, and why they are enough

Chunks of 2 bytes distinguish empty, partly filled and full; messages of 2 and 3 bytes are exactly
one chunk and one and a half, cut into pieces in every way (`TxPathSendCluster` has 1 to 4). Polls of 2
completions with up to two chunks in flight give full, partial and empty polls; `MAX_ACK_EVENT = 2`
reaches the acknowledgement. Two workers are needed for every race, and two chunks for them to race
for; one `Chunk::read`, and on the other side one `send()`, bring in the chunk that is used in both
directions. One resend makes a duplicate at the server; the bound of `BoundedDuplicates` is stated in
`MaxRetry`. Two calls are a deadlock when they are of two workers, and when they are of one, the second
may meet an answer to the first. `Interrupted` names the queue pairs whose `sendto` may meet `EINTR` or
`EAGAIN`, and so be resent: in the run the third, a server's or that of the second call. In `VerbsSetup` port numbers go up to 2, so that an inactive port and one that does not exist can
be chosen. In `DataPath` two
chunks per process are enough for the two ends of the list to meet; the client sends one or two
chunks at a time to a reader that can take them, the server one byte or none to a reader that must
keep leftovers; one fault of any kind happens per behaviour. In `SessionTransfer` three pieces wrap
around two slices, four messages around two receive buffers, and the sizes 0, 2, 3 and 6 are nothing,
one piece, a piece and a rest, and an exact multiple of the gap; a second call finds what the first
left behind. For the session, a second client exercises the backlog
of a portal that accepts once; one message is enough to arrive behind the list, and the two of them
fill two receive buffers. One-bit
bytes distinguish every position of the packed struct. `Lengths`, `MaxEmpty`, `ReadLens`, `MaxReads`,
`Lens`, `WriteLens`, `MaxUsed`, `MaxFaults`, `MaxRetry`, `MaxConnect`, `Interrupted`, `MaxSockets`,
`MaxPort`, `MaxData`, `Sizes`, `MaxCalls` and `MaxPosts` are the only bounds; all are constants.

Deadlock checking is on for `TxPath` and `SynMsg`. It is off where the program may really
stop: `read()` may spin for ever, `connect()` may block for ever, construction and sessions end,
and in `DataPath` the chunks run out.

### Fairness

* `TxPath`, `RxPath`: a thread inside `send()`, the handler or `read()` runs on (weak fairness);
  the event loop, which calls the handler for a readable channel between other work, reaches it
  again and again (strong fairness of `GetCqEvent`, of a read on a readable socket); the adapter
  completes what was posted on a reliable connection (weak fairness of `Complete`).
* `DataPath`: the adapter delivers a posted request while the peer has a receive posted (weak
  fairness of `Transmit`), and the event loop calls `read()` on a readable socket.
* `UdpHandshake`: a thread that is not blocked goes on; the event loop looks at the listening
  socket again and again; `recvfrom` does not fail for ever while a datagram is there. The network
  owes nothing.
* `SessionOpen`: each process runs, TCP delivers, the adapter of a running process delivers to a
  peer that can receive. A failure is never forced: fairness is of the steps in which no adapter
  fails.
* `SessionTransfer`: a thread inside a call runs on, the adapter completes or flushes what is posted,
  the server of `xx` calls `read()` in its loop. Applications owe no further call, so `Bulk`, `Latency`
  and the receiver's `QuerySr` have no fairness.

## Proofs

`TxPathProofs` proves, for every set of workers and sockets, every assignment of sockets to
threads and to queues, and all sizes, from `TxPathAssumption` (the sizes are positive, `Owner` and
`TxCq` are functions, acknowledgement is in batches of at least 2):

* `TypeCorrect`: `Spec => []TypeOK`; lists, requests and completions hold chunks, no thread copies
  more than it has left to copy, and the count of unacknowledged events stays below `MAX_ACK_EVENT`.
  That an offset stays in its chunk is not part of it: two workers that hold one chunk can both find
  room and move it past the end.
* `ReapsOnlyFilled`: `Spec => []ReapsFilledEntries`. Types alone are not inductive: the handler puts
  `wc[i].chunk` on a free list, which is a chunk only when the entry was filled. `TypeInv`, the
  conjunction of both, is the inductive invariant. That another worker overwrites the array, between
  `wr_id` and `status` too, is harmless here because a poll only ever replaces entries by filled ones.
* `NotifyCorrect`: `Spec => []NotifyInv`, and from it `NeverStranded`:
  `Spec => []NoLostWakeup`. `NoLostWakeup` says nothing about a thread inside its handler, so it
  does not survive the step that leaves it. `NotifyInv` adds what the handler knows at each
  place: before it has re-armed, the queue is unarmed and no event waits; after it has, the queue
  is armed or has raised its event; outside, the queue is armed and empty, or an event waits.
* `ImplementsWakeup`: `Spec => WakeupRefined`. Each step is, for each worker, a step of
  `Wakeup` or leaves its variables alone; `NotifyInv` supplies the guard of `Sleep` and the
  signal of `Arrive`.
* `NumBuffersRoundsUp` (a lemma): the hand-written rounding gives the least number of chunks
  that hold the message.
* `NeverPastEndTheorem` and `PostedBytesMatchTheorem`, for one worker (`Workers = {w}`; after a race
  between two neither claims anything) and all sizes: `[]NeverPastEnd` and `[]PostedBytesMatch`. `SendInv(w)`
  is their inductive invariant. The free list is still a prefix of the one `add()` made, and the offset of
  a chunk on it moved only if the chunk was read (`FreeList`), since returned chunks go to the other list;
  what `get_buffers` has taken are the chunks just behind it, and enough are left (`Taking`); as long as
  none of them was read, chunks before `current_buffer` are full, those behind it empty, and what is
  copied and what is not add up to the length (`Copying`); the two halves of `Chunk::write` work on the
  same chunk with the same offset (`Calling`). With the rounding of `NumBuffersRoundsUp` this gives room in
  every turn of the copy loop (`Room`) and the exact sum at its end (`CopiedAll`).

* `ChunkConservationTheorem`, for one worker and no empty messages: `[]ChunkConservation`, where the
  chunks of a refused post have the place `leaked`. The property counts references,
  and a proof about cardinalities of sequences would be hopeless; instead `Place(w, c, y)` names the
  places where chunk `c` is (a position of a list, of a queue, of the array, of `tx_buffers`), and `Unique`
  says that every chunk has exactly one. Each action that moves chunks is described by a function from the
  old places to the new ones (`PopBackPlaces`, `PostPlaces`, `CompletePlaces`, `PollPlaces`, `ReapPlaces`),
  the others leave them alone (`QuietPlaces`). While `back()` has been called and `pop_back()` has not, the
  chunk still counts as being on the list (`Held`).

The proofs have one lemma per group of actions (`send()`, the handler, the adapter), and under it
one step per action and per conjunct it can disturb.

`RxPathProofs` does the same for the receive path, from `RxPathAssumption`, for any number of
workers, sockets and chunks:

* `TypeCorrect`: `Spec => []TypeOK`. Its core is that the copy stays inside the caller's buffer until a
  worker polls into entries another is taking (`raced`). `Chunk::read` is asked for `len - read` or for
  `byte_len` bytes, the latter fetched twice; `LocalOK` keeps what the first look found until the second,
  and `ChunkReadBounds` shows that no more is copied than was asked for, wherever `send()` moved the
  offset. `TypeOK` needs `TakesFilledEntries` beside it to be inductive, since the chunk comes from the
  entry.
* `TakesOnlyFilled`: `Spec => []TakesFilledEntries`.
* `NotifyCorrect` and `NeverStranded`: `Spec => []NotifyInv` and `Spec => []NoLostWakeup`, per socket
  instead of per worker: `read()` has the same loop as the handler, but `read_buffers` runs between
  the event and the first poll.
* `ImplementsWakeup`: `Spec => WakeupRefined`, the same abstract specification as for the transmit
  path.
* `NoByteDroppedTheorem` and `StreamExactTheorem`, for one worker (`Workers = {w}`; a second one polls into
  the same array and breaks both) and any number of sockets and chunks: `[]NoByteDropped` and
  `[]StreamExact`, until a `send()` writes into a chunk that is still to be read (`mixed`). What `read()` has
  polled and what is still in the queue are taken as one sequence, `Coming`, so that a poll changes
  nothing; `TurnOK` says that with one worker the looks of a turn see one entry and one offset; and every
  step is one of five moves (`StepMoves`): nothing happens to the bytes, a kept chunk is read again, a
  message arrives behind the others, a `send()` writes into a chunk nobody awaits, or the first message is
  taken. `StreamInv` is the inductive invariant: no chunk is in two of the shared queue, `Coming` and
  `rx_buffers` (`Separate`), so an arrival overwrites nothing unread; a chunk not read yet has its offset at
  the start (`Untouched`), so taking it copies its message from the first byte; and the messages to come form a
  chain whose first bytes follow each other up to `sent` (`Streamed`, `IsChain`). `NoByteDropped` follows by
  looking up a byte in the chain (`InChain`), `StreamExact` by adding its messages up (`CatCounts`), an
  induction done by hand as the least counterexample.

`DataPathProofs`, from `DataPathAssumption`, for all sizes, lists of lengths and numbers of chunks:

* `ReceivesSufficeTheorem`: `Spec => []ReceivesSuffice`. `CountInv` is the balance it rests on: the chunks
  an end has taken and those on its free list are always `RxNum` together (`GetBuffersCounts`), and as long
  as it sent no empty message, the receives it used up at its peer and its posted requests are together
  no more than the chunks it took. Since a chunk that was sent is never taken again, a peer that
  posted all `RxNum` receives has one left for every request.
* `TypeCorrect`, `StreamIntactTheorem` and `NothingLostTheorem`: `Spec => []TypeOK`, `[]StreamIntact` and
  `[]NothingLost`. Their inductive invariant is `FlowInv`. Neither property survives a step by itself: they
  say what bytes the queues hold and not in which chunks, and `send()` writes into chunks that are posted
  for receiving. `InPlace` therefore gives every chunk of a list or a queue by its number: the free list
  is `1 .. RxNum - taken`, completions and receives follow each other from `DoneWith + 1` on, kept chunks
  come before. `Unmoved` says that the chunks between the two paths are at offset 0, so that `send()`
  fills and `read()` copies them from their first byte, and `OwnChunks` that requests with bytes in them
  are in chunks off the list, so that no later `send()` changes them before the adapter reads them.
  `Flows` is about the bytes: what arrived and what is posted are runs of the stream, one behind the
  other, the first beginning where the bytes that were read end, the last ending at what `send()` was
  given (`IsChain`, `HasRead`). A receive moves a run from one queue to the other (`TransmitFlows`), a call of
  `read()` takes the runs that arrived off the chain (`ReadFlows`), a call of `send()` adds as many as it
  fills chunks (`SendFlows`, `SendAdds`). `Flows` is claimed under the conditions of the two properties only;
  the rest of `FlowInv` holds always. What the loops compute (the room of the chunks, the copies of
  `read()`, the concatenation of the queues) is written as recursive functions, and each induction over
  them is done by hand (`StepByStep`, from the least counterexample).

`SynMsgProofs`, from `SynMsgAssumption` (the fields have the sizes of `IBSYNMsg`), whatever the values
of a byte are and for gids of any number of words:

* `RoundTripTheorem`: `Spec => []RoundTrip`. `ByteInv` says which prefix of the struct is right before each
  conversion (`Scanned`): the scan of `lid` leaves two bytes right and spoils the next two, so the prefix
  grows to 2, 6, 10 bytes and then to all. The lemmas are about the conversions: printing and scanning 32
  bits is the identity (`ScanHexWord`), of 16 bits only the first half is (`ScanHexLid`), the two swaps of
  a word of the gid cancel (`GidWord`).

`UdpHandshakeProofs`, from `UdpHandshakeAssumption` (the bounds are numbers, `Junk` is none),
for any number of workers, calls and resends:

* `HandshakeInvariance`: `Spec => []FullInv`. `Ends` says what a queue pair may name as its peer,
  `Traffic` which ends have datagrams on their way, `Places` that a thread is busy with a queue pair of
  its own, `Budget` how many datagrams a client can have sent at its place in the retry loop, and
  `Addresses` that every client has a UDP socket of its own, which its call reads from and to which the
  servers made for it answer.
* `PairedTheorem`: `Spec => []Paired`. `Paired` alone is lost when a late answer is received: `connect()`
  takes what arrives, and that it was meant for this client and no earlier one of the same worker is
  `Addresses`; that the answer comes from a queue pair made for a client of the called worker is `Ends`
  and `Traffic`.
* `BoundedDuplicatesTheorem`: `Spec => []BoundedDuplicates`. The datagrams still queued and the sockets
  already made are counted together in `Budget`, since `accept()` turns one into the other.

The guard `nq < MaxQp` with which queue pairs are numbered never decides anything: `MaxQp` is the
number the calls and resends can make.

`VerbsSetupProofs`, from `VerbsSetupAssumption` (a list of devices is a sequence of devices, workers
are not numbers), for any lists of devices, workers and number of sockets:

* `SetupInvariance`: `Spec => []SetupInv`. `Ownership` says which thread constructs which object, so
  that no step of another thread reaches it; `Reached` what `init()` has made of it at each place;
  `TxSides` that a started worker has a complete transmit side or none.
* `SocketsCompleteTheorem`: `Spec => [](TypeOK /\ SocketsComplete)`. The step that makes a socket ready
  depends on the transmit queue of another worker, which only `TxSides` and `Progress` describe.
  `Progress` is claimed only while the process runs: a crash stops a thread between two steps of a
  failure path.

`SessionOpenProofs`, from `SessionOpenAssumption` (finitely many clients; the names of processes, of
messages and of missing values differ), for any number of clients and messages:

* `OpenInvariance`: `Spec => []OpenInv`. `ServerExchange` and `ClientExchange` follow the TCP exchange
  step by step, `QpUp` ties the state of a queue pair to the place of its process, `Door` says what may
  be in the queues of an end, `ListFirst` that the list of slices is the first thing an end receives,
  `ListedIsPeer` that the first entry `door()` polled is that list, `Drained` that nothing waits at an end
  that awaits nothing.
* `ServerReadyFirstTheorem`: `Spec => [](TypeOK /\ ServerReadyFirst)`. The order of the two ends is
  nowhere tested by the code; it follows from what the client must have read before it goes on.
* `BufferInvariance` and `KeysOfPeerTheorem`: `door()` goes by the first entry and parses the first
  buffer, later. `FirstBuffer` says that this buffer holds the first message received until more than
  `RecvNums` have come, since the receives in between go to other buffers (`OtherSlot`); with
  `ListedIsPeer`, entry and buffer are of the same message, and the keys are the peer's.
* `ClientLosesNothingTheorem` needs `ListFirst`, because `door()` polls everything;
  `IdleIsDrainedTheorem` is `Drained`.

`SessionTransferProofs`, from `SessionTransferAssumption` (positive sizes, a message of `xx` fits a
receive buffer), for all sizes and any number of slices, receives, calls and messages:

* `TransferInvariance`: `Spec => []TransferInv`. `Loops` is where `bulk()` is and what it registered;
  `Outstanding` that requests, completions and the count add up at every place; `Requests` that what is
  in flight are the last pieces of this bulk, each bound for its slice; `Landed` that the pieces before
  them are in the peer's memory; `Streamed` that `xx` never runs ahead of its messages; `Receives` that
  the receives of the opening are used in turn. All but `Loops` and `Receives` are claimed of sessions in
  which no call left anything behind.
* `BulkLandedTheorem`, `InFlightRegisteredTheorem`, `IdleIsCleanTheorem`: when the count equals `num`
  nothing can be in flight, by `Outstanding`. Slices and buffers are used over again, which takes facts
  about remainders (`ModDistinct`, `SlicesDistinct`): pieces fewer than `Slices` apart do not overwrite
  each other.
* `SplitPieces` (a lemma): the loop over `cursor` makes exactly `NumPieces(size)` pieces, none empty and
  none longer than the gap. It is an induction over the size, done by hand as the least counterexample.
* `StreamLandsTheorem` and `OnlyLastLostTheorem`: a second message is posted only after the completion
  of the first was counted, so the one send buffer still holds what was posted.
* `ReadInOrderTheorem` and `TypeCorrect`: `Spec => []ReadInOrder` and `Spec => []TypeOK`. `Completions`, beside
  `TransferInv`, says that the completions nobody has taken are those of the last messages, and that
  `read()` has not moved. The loop of `read()` counts full buffers and copies them together with the next
  short one, in two pieces where the ring of buffers wraps; the proof follows it message by message, with
  what was copied and what is only counted making up the messages so far.

The proof of `StreamLands` corrected its statement. It used to speak of all messages, which is true
only where `RecvPosts` is a multiple of `RecvNums`: a second `post_recv()` starts again at the first
buffer, while the receives of the opening end in the middle (16000 receives, 1024 buffers). It now speaks
of the messages that arrive while those last.

Only model-checked: every liveness property (`SentChunksComeBack`, `MessagesTaken`, `MessagesRead`,
`ConnectReturns`, `PeerComesUp`, `SessionOpens`, `CallsReturn`), since fairness and `ENABLED` are beyond the
prover. Every invariant and every refinement that a run checks is stated by a theorem; those of
`ChunkConservation`, `PostedBytesMatch`, `NeverPastEnd`, `StreamExact` and `NoByteDropped` are for one worker,
and that two workers keep them until they race is checked by the runs only. The library's
rules of induction cannot be used either, because they take an operator as a parameter; where a loop
needs one, it is made from the least element of a set of naturals, which the library states without such
a parameter, and the loop is written as a recursive function rather than as a fold.

## Findings

1. `TxPathSendCluster`: the comments of `Infiniband.h:398-400` name `channel` the RECV and
   `send` the SEND cluster, but sends take chunks from `channel` and completed chunks go to `send`.
   After as many sends as there are chunks in `channel`, `send()` dereferences an empty vector
   while the SEND cluster is full.
2. `UdpHandshakeJunk`: `recv_udp_msg` returns 1 for "no valid buffer read" (`Infiniband.cc:224`),
   and `connect()` tests only for a negative result.
3. `VerbsSetupDestroy`: the failure paths of `init()` destroy a handle which the destructor
   destroys again, under an `assert` that it succeeds.
4. `SessionRead`: `rdma_query_cq` knows the flags 1 and 2 (`rdma_socket.c:587`), `rdma_session::query`
   passes 3. `read()` therefore returns 0 on every call, and the server of `xx` spins for ever on
   messages that have all arrived.

Seen while modelling, without a run: `create_queue_pair` goes on after `create_comp_queue` failed,
although its comment promises NULL (`Infiniband.cc:58-76`, the `null_cq` crash of `VerbsSetup`);
`connect()` returns an error without deleting the socket it made (`RDMAStack.cc:93-102`), whose queue
pair stays for the life of the process, as every UDP socket does; without an active port, or after a
failed `ibv_query_port`, the stack goes on with an uninitialised port (`GetDevice`);
`close()` calls `free()` on a block of `malloc_huge_pages`; `latency(0)` posts nothing and waits for a
completion; `xx` ignores a refused post and then waits for its completion, and closes without
waiting for its last message.

## Not modelled

* Queries of a queue pair (`get_state`, `is_error`, ...): nothing calls them and they change
  nothing.
* `RDMAStack` itself, core ids and `spawn_workers`: the models assume their result, threads that
  run. They also assume that sockets are created after all workers were initialised, which the
  stack's caller, not in this repository, has to see to.
* Arithmetic of `huge_page.c` and the helpers of `pingpong.c` (their conversion of a gid is that of
  `SynMsg`).
* The benchmarks `cpyread`, `regread` and `migration`: they use members that `rdma_session.h` does not
  declare, so there is no program to be faithful to. `xx` is modelled.
* `register_rdma`, `return_rx`, `return_rdma` and `zero_copy_read`: nothing calls the first three, the
  last returns 0.
* Logging, `printf` and timing.

## Plan

Done in this order: `Wakeup`, `TxPath`, its proofs, `RxPath`, `UdpHandshake`, `SynMsg`,
`VerbsSetup`, `SessionOpen`, `DataPath`, `SessionTransfer`, the proofs of `RxPath`, `VerbsSetup`,
`UdpHandshake`, `SessionOpen`, `SessionTransfer`, `DataPath` and `SynMsg`. What the code does is
modelled as far as it can be, and every invariant that a run checks is proved. What would come next is
outside these tools: the liveness properties, for which a prover would need fairness and `ENABLED`.
