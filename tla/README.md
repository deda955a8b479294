# Formal verification of the server's core

This directory holds TLA+ specifications of the parts of the engine whose
correctness depends on order: the MTP network protocol (its reliable channels, split
messages and peers), the login of a client, the queue of map blocks to load or
generate, the sending of map blocks and of their changes, the entities of the world
between objects and static data, node timers, and the map the active objects are
kept in. TLC checks them on small instances; TLAPS proves the properties that matter
most for every value of the constants.

To check one run, inside this directory: `tlc -config channel_window.cfg
MCReliableChannel.tla` (the module of each run is in `PROJECT.json`, under
`runs`); to check the proofs of a module: `tlapm ReliableChannelProofs.tla`.
`PROJECT.json` also maps each definition to the source lines it stands for and
lists, under `mutants`, a plausible bug for each property that the property
finds.

Paths below are relative to `src/src/` unless they begin with `src/`.

## 1. The system

The engine is a client and a server in one code base. The parts with core logic of
their own, what state they keep, and what makes them correct:

| Component | State | Operations | Must hold |
|---|---|---|---|
| **MTP reliable channel** (`network/mtp/`) | per peer and channel: commands not yet split, packets numbered but not sent, packets sent and not acknowledged, early packets, two 16-bit counters, window | send commands, number, send, resend, acknowledge, buffer, process | order kept, nothing lost or doubled, also across the wrap of the numbers; delivery forced |
| **MTP split packets** (`network/mtp/impl.cpp`) | unfinished splits by split number | insert chunk, complete, time out | a message is assembled from its own chunks only |
| **MTP peers and handshake** | peers, usage counts, half-open state, event queue | create, knock, open, delete, time out | a peer in use is not freed; events of a peer come after its creation and before its removal |
| **Emerge threads** (`emerge.cpp`) | map of queued blocks, counters per peer, a queue and an event per thread | enqueue, merge, pop, generate, call back, cancel, start, stop | map, queues and counters agree; limits hold; no lost wake-up; each callback called once; stop ends |
| **Client interface** (`server/clientiface.cpp`) | connection state; sets of blocks sent, in flight, modified, hidden; where the search begins | state events, GetNextBlocks, GotBlock, SetBlockNotSent | legal order of handshake; what the client has is up to date, or known not to be |
| **Server loop** (`server.cpp`) | queue of edit events, timers, shutdown | step, dispatch packets, send blocks, stop | every event reaches the clients that hold the block |
| **Server environment and map** (`serverenvironment.cpp`, `servermap.cpp`) | loaded blocks, active blocks, objects, blocks being generated | activate, deactivate, save, start and finish generation | an object is stored in the block it stands in; no block is generated by two threads |
| **Active object manager** (`activeobjectmgr.h`) | objects by id, new objects | register, remove, iterate | ids unique, iteration survives removal |
| **Node timers** (`nodetimer.cpp`) | timers by time and by position | set, remove, step | the two indexes agree |
| **Mod channels** (`modchannels.cpp`) | channels and who joined them | join, leave, write | consumers are registered peers |
| **Inventory** (`inventorymanager.cpp`) | lists of stacks | move, swap, callbacks | no item is created or lost |
| **Asynchronous jobs** (`script/cpp_api/s_async.cpp`, `httpfetch.cpp`) | job queue, result queue, workers | queue, take, return, stop | each job once, each result to its owner |
| **Threading primitives** (`threading/`, `util/thread.h`, `util/container.h`) | `Event`, `ordered_mutex`, `Thread` | signal, wait, lock, start, stop | no lost signal, first come first served |
| Ban list, rollback, databases | tables | read and write | pure I/O around a map |
| Map generation, lighting | voxel volumes | numeric algorithms | state spaces no model checker enumerates |
| Scripting, client, GUI, vendored and Lua code | – | bindings, rendering, game code | data and layout |

How they interact. The server thread runs `Server::AsyncRunStep` about every 50 ms
and processes packets in between; nearly all it does happens under the environment's
mutex. The connection has a send and a receive thread of its own, with a command
queue towards it and an event queue back. Emerge threads take blocks from queues
under `m_queue_mutex`, and the environment's mutex to load a block, to finish
generating it, and to call back Lua. A search for blocks (`RemoteClient::GetNextBlocks`)
asks the emerge queue for blocks that are not in memory; a block that is emerged
becomes an edit event; the event takes the block out of the client's sets, so the next
search sends it, over channel 2 of the connection, while node changes, metadata and
what the player does go over channel 0. The client acknowledges a block when its mesh
is made.

What is hard: messages lost, doubled and reordered under 16-bit numbers; two channels
nothing orders; state that two threads share under two mutexes, with calls into Lua
that come back to the same code; acknowledgements that arrive after the block changed;
a search that remembers where it left off while the map changes behind it; counters
kept beside the queues they count; stopping while callbacks are pending. Every one of
these is listed at its line under `hazards` in `PROJECT.json`, with the properties that
would catch it or the reason none does.

## 2. Plan

The order was: what everything else relies on first. The reliable channel and the peers
it belongs to; the emerge queue; the sending of blocks; the login, which rests on the
peers' events; then the parts that are sequential but keep two views of one thing
(split buffer, timers, object map, entities).

Where a component makes a promise to another one, the promise is a module of its own, and
the detailed module is shown to implement it: `FifoChannel`, `PeerEvents`, `TimerSet`,
`PlainMap`.

What could follow, in this order:

1. The map under the emerge threads: `initBlockMake`/`finishBlockMake`,
   `m_chunks_in_progress`, two threads whose chunks overlap, and the reading of a block
   from the database without the environment's mutex.
2. The asynchronous jobs of scripts: a queue of jobs and one of results.

Mod channels are not worth a model: a table which only the server thread touches, each
operation a lookup and one insertion or removal.

## 3. Modules

| Module | What it is |
|---|---|
| `SeqNum` | The arithmetic of 16-bit sequence numbers: pure operators, the ring scaled by `MAX_RELIABLE_WINDOW_SIZE` |
| `ReliableChannel` | One direction of a reliable channel, both ends and the network, as an implementation of `FifoChannel` |
| `FifoChannel` | What a reliable channel promises |
| `MCReliableChannel`, `ReliableChannelProofs` | Fairness; theorems, those about `SeqNum` included |
| `Peers` | The peers of a server's `Connection`, its two threads and its owner, as an implementation of `PeerEvents` |
| `PeerEvents` | What the owner of a `Connection` may rely on |
| `MCPeers`, `PeersProofs` | Fairness; theorems |
| `SplitPackets`, `SplitPacketsProofs` | Messages cut in chunks and put together again; theorems |
| `Emerge`, `MCEmerge`, `EmergeProofs` | The emerge queue: model, symmetry and fairness, theorems |
| `BlockSend`, `MCBlockSend`, `BlockSendProofs` | Sending of blocks: model, maps and fairness, theorems |
| `Sessions`, `MCSessions`, `SessionsProofs` | The server's side of the login, on top of `PeerEvents`; fairness; theorems |
| `ActiveObjects`, `ActiveObjectsProofs` | Entities as objects and as static data; theorems |
| `SafeMap`, `PlainMap` | `ActiveObjectMgr` with `ModifySafeMap`, and the map it promises to be |
| `NodeTimers`, `TimerSet`, `MCTimers` | The timers of a block, and the set of timers it promises to be; what Lua sets in the runs |
| `ContainerProofs` | Theorems about these two containers |
| `MCParts` | `Peers`, `SplitPackets`, `NodeTimers`, `SafeMap` and `ActiveObjects`, each by itself in one run |

The modules meet at their borders:

- `SplitPackets` and `BlockSend` assume of a reliable channel what `FifoChannel` states, and
  `ReliableChannel` is shown to implement that.
- `Sessions` EXTENDS `PeerEvents`: its network is the promise that `Peers` is shown to
  implement (`EventsInOrder`). It assumes that a peer it asks to disconnect leaves; that
  is `AskedIsFreed` of `Peers`.
- `BlockSend` assumes of the emerge queue that a block asked for is emerged in the end, which
  `Emerge` shows for blocks within the map's limit (`AllCalledBack`, `NoLostWakeup`).

The detailed modules are not composed into one state space, which TLC could not
enumerate. `MCParts` is no composition: its parts share no state in the code either, and
each behaviour of it is one of the part that the variable `part` chooses.

### SeqNum

`U16` is the conversion to `u16`, `CRem` the remainder of C, which is negative for a
negative dividend: `WindowBase` translates the expression
`(next - 0x8000) % (0x8000 + 1)` of `network/mtp/threads.cpp:319` as the machine computes
it. `seqnum_higher` and `seqnum_in_window` are the functions of `network/mtp/internal.h`.
`IsFuture`, `IsOld` and `Insertable` are the tests made with them.

### ReliableChannel

Variables have the names of the fields of `Channel` and `UDPPeer`. `life` stands for
`m_pending_disconnect` and for the peer being in `m_peers`. `wire` and `acks` are the
network. `submitted`, `log` and `delivered` are history: what the user handed over, what
was numbered and what the other end processed. A packet carries its number `seq`, which
is all the code reads, and its position `n` in `log`, which only properties read.

| Action | Code |
|---|---|
| `PutReliableSendCommand`, `RunCommandQueues` | `UDPPeer::PutReliableSendCommand`, `processReliableSendCommand`, `RunCommandQueues` |
| `SendQueued` | `ConnectionSendThread::sendPackets`, `sendAsPacketReliable` |
| `CreatePeer`, `Ping` | `rawSendAsPacket` of a control packet, which overtakes what waits in `queued_reliables` |
| `Resend`, `ResendOne` | `runTimeouts`; the answer to a half-open peer that knocks |
| `UpdateTimers` | the window follows the loss rate |
| `ReceiveAck`, `SetFullyOpen` | `handlePacketType_Control`, `receive` |
| `ReceiveReliable`, `Unbuffer` | `handlePacketType_Reliable`, `checkIncomingBuffers` |
| `DisconnectPeer`, `DeletePeer` | `CONNCMD_DISCONNECT_PEER`, `deletePeer` |
| `Lose` | the network; duplication is receiving with `keep = TRUE` |

Assumed of the network (`Alive`): no copy of a packet is still under way when the sender
has numbered half a ring of packets more. Without it 16-bit numbers cannot be told apart
by any code.

### Peers and PeerEvents

A peer is the n-th `UDPPeer` created. `m_peers` is the table under its mutex; a `PeerHelper`
is a slot in `helper`, and `m_usage` the count it keeps up: `receive()` holds one (`rx`) and
the `processPacket` it calls another (`rx2`), the send thread (`tx`) and the owner (`sv`) one
each. A deleted peer whose count is not zero is kept (`m_pending_deletion`) and freed by the
last that lets go. `dropping` is the peer that a thread has taken out of the table and has
not yet announced as gone: `deletePeer` unlocks the table first, puts the event next and
frees the peer last, three steps between which the other thread and the owner run.

| Action | Code |
|---|---|
| `ReceiveNew`, `ReceiveKnock`, `ReceiveKnown` | `ConnectionReceiveThread::receive` with `createPeer`, the answer to a half-open peer, the test of the address |
| `Find`, `ProcessPacket`, `HandleDisco`, `HandleOther` | `processPacket` and its handlers, corrupt packets that throw included |
| `Unbuffer` | `getFromBuffers`, which keeps a peer's id and looks it up again |
| `RxEvent`, `RxDrop`, `RxUnwind`, `RxReturn`, `RxPut`, `RxLeave`, `RxStop` | the rest of `deletePeer` and of `receive`, in the order of the destructors |
| `LookTimeout`, `JudgeTimeout`, `LookPending`, `JudgePending`, ... | `runTimeouts` and `sendPackets`, which copy the ids, then look each one up |
| `TxErase`, `TxEvent`, `TxDrop`, `TxGoOn`, `TxStop` | their `deletePeer`, at the end of the loop |
| `Command`, `Mark`, `EndCommands` | `processNonReliableCommand` with `CONNCMD_DISCONNECT_PEER` |
| `PopEvent`, `DisconnectPeer`, `GetPeerAddress`, `GotPeerAddress`, `Close`, `Destroy` | the owner: `ReceiveTimeoutMs`, `DisconnectPeer`, `GetPeerAddress`, `~Connection` |

`PeerEvents` has three variables: for each id whether its peer is to come, there or gone; the
packet the receive thread has in its hands; the events. It promises one arrival and at
most one departure per id, with data between them, but for the packet in hand, which may
follow the departure. This exception is real, and `Sessions` lives with it.

### SplitPackets

Reliable and unreliable messages draw split numbers from one counter and meet in one
`IncomingSplitBuffer`. Reliable chunks come as `FifoChannel` promises, unreliable ones
are lost, doubled and overtaken. `FailToSend` is a reliable command that finds too few
sequence numbers: it has used up a split number and is tried again. A message of one chunk
is not split and carries no split number (`HasNumber`). `NotAround` stands for the 30 seconds
after which an unfinished unreliable split is forgotten: no chunk of a number is still under
way, or waiting, when the counter comes round to it; only reliable messages may follow each
other under one number, since the stream keeps them in order.

| Action | Code |
|---|---|
| `SendReliable`, `FailToSend` | `UDPPeer::processReliableSendCommand` with `makeAutoSplitPacket` |
| `SendUnreliable` | `ConnectionSendThread::send` |
| `ReceiveReliable`, `ReceiveUnreliable` | `handlePacketType_Original`, `handlePacketType_Split` with `IncomingSplitBuffer::insert` |
| `RemoveUnreliableTimedOut` | `removeUnreliableTimedOuts` |
| `Lose` | the network |

### Emerge

A critical section is one step unless Lua runs in it or it waits for the second mutex;
then `queue_lock` or `env_lock` stays held. `pc` says where in `EmergeThread::run` each
thread is. A `refcount` is that of a `ScriptCallbackState`, one for each call of
`core.emerge_area`; `job` is what such a call has yet to queue, `to_signal` a thread
that is to be signalled after the queue's mutex is released. Threads and the server are
alike `Actors` that can be inside `emerge_area`: Lua runs on both.

| Action | Code |
|---|---|
| `ServerEnqueue`, `EmergeArea`, `EmergeAreaBlock`, `Signal` | `enqueueBlockEmergeEx`, `pushBlockEmergeData`, `getOptimalThread`, `l_emerge_area` |
| `StartThreads`, `BeginStop`, `StopThread`, `EndStop` | `startThreads`, `stopThreads`, `~Server` |
| `PopBlock`, `FindNone`, `Wait`, `WakeUp`, `SkipOverLimit`, `GetBlockOrStartGen`, `FinishGen`, `GenerationError`, `EndBlock`, `LeaveLoop` | `EmergeThread::run` |
| `BeginCallback`, `EndLua` | `runCompletionCallbacks`, `LuaEmergeAreaCallback`, and Lua's `on_generated` |
| `BeginCancel`, `CancelBlock`, `EndCancel` | `cancelPendingItems` |

### BlockSend

One client. Blocks are numbered in the order of the search, with their distance `Dist` in
cubes and `Euclid` as `getDistanceFrom` gives it. The content of a block is a version of
its nodes changed one at a time, of its bulk and of its metadata, for these three reach
the client in three ways. `told` is history: what was last put into messages. A search
is one step, since `GetNextBlocks` runs under the environment's mutex; the loop over edit
events is a step per event, with `flushing` set. Nothing else changes the map meanwhile,
so this split costs nothing and shows each message on its own.

Two more variables are history, for blocks of which the code does not do what it says
(section 7). `passed` has the blocks that the last search to come that way could not take:
hidden ones, ones dropped for the cap over all clients while it goes on from a block it asked
for, and modified ones that lie nearer in cubes than it began and not nearer by
`getDistanceFrom` (`Left`). A search that begins nearer looks at them anew. `stuck` has the
blocks in which the client predicted a node and which the refusal did not send again; a block
that is sent leaves it. The happenings outside the code
(edits, a turn of the player, a time-out, a block deleted on the client...) are bounded
by `MaxTimes`.

| Action | Code |
|---|---|
| `MapEdit`, `FlushEvent`, `FlushEnd` | `onMapEditEvent` and the loop of `AsyncRunStep`, `sendAddNode`, `sendRemoveNode`, `sendMetadataChanged` |
| `EmergeDone`, `EmergeReport` | `getBlockOrStartGen`/`finishGen`; then, under a second hold of the mutex, the event that `EmergeThread::run` dispatches |
| `SendBlocks` | `Server::SendBlocks` with `RemoteClient::GetNextBlocks` |
| `PauseOver`, `CompletionTimeout` | the client's two timers |
| `SendBlock` | `player:send_mapblock` |
| `ServerReceive2` | `handleCommand_GotBlocks`, `handleCommand_DeletedBlocks` |
| `Predict`, `ServerInteract` | the client's prediction and `handleCommand_Interact` with its verdicts |
| `ClientReceive0`, `ClientReceive2`, `ClientAck`, `ClientDelete` | `handleCommand_AddNode`, `_NodemetaChanged`, `_BlockData`, `Client::step` |
| `Reveal` | a block stops being hidden |

### Sessions

`clients` is `ClientInterface::m_clients` with each client's state, mechanism and
`auth_data` (the SRP verifier); `m_players` the players of the environment, connected or
not yet removed; `database` their stored data; `asked` the peers the server asked to
disconnect. One step is one event of the connection, as in `Server::Receive`; the
handlers of `network/serverpackethandler.cpp` are actions with their states, checks,
denials and `notifyEvent`.

A name with an account logs in by SRP. A name without one registers (`FirstSrp`), or, where
the setting `default_password` is not empty, logs in by SRP against that password, and
`SrpBytesM` makes the account at the end (`create_player_on_auth_success`, `Accounts`); either
may happen for each client, as the setting may change between two of them. Accounts with
passwords of the legacy format take the same steps with the same states. `Unlimited` are
the names that the limit on users does not hold for: the administrator's, and those a script
lets pass. Assumed of the handler of accounts: it keeps each account it is given and none is
removed while the server runs.

| Action | Code |
|---|---|
| `PeerAdded`, `DeletingPeer` | `CreateClient`, `DeleteClient` |
| `Init_Packet`, `FirstSrp`, `SrpBytesA`, `SrpBytesM`, `Init2`, `ClientReady` | the handlers of these names |
| `Play` | any command of the game |
| `Kick`, `DisconnectLingering` | `DenyAccess` and its callers, `ClientInterface::step` |
| `RemovePlayer`, `SavePlayers` | `removeRemovedObjects` with `PlayerSAO::removingFromEnvironment`, `saveLoadedPlayers` |

### ActiveObjects

For each block: the entities it stores (`stored`), the copies of active objects under their
identifiers (`active`), whether it is in memory and modified, and what the `database` has. An
object knows its block, whether it waits for removal or deactivation (`pending`), how many
clients know it, and where its copy is. Actions are `addActiveObject`, a move,
`markForRemoval`, `removeRemovedObjects`, one management of the active blocks
(`activateBlock`, `deactivateFarObjects`), loading, saving and unloading of blocks,
`SendActiveObjectRemoveAdd`, the end of a client, and the shutdown.

The management of active blocks and the shutdown call Lua's `on_deactivate` between storing an
object and deleting it, and it may remove its own object then: `removing` are the objects
whose callback does so, of those that are deactivated. One that no client knows is deleted in
the same step with its stored copy left (`undone`, history); one that clients know waits for
removal, and its copy is deleted with it. What callbacks do to other objects is a
`MarkForRemoval` before or after the step.

### SafeMap and PlainMap

`m_values`, `m_new` and `m_garbage` of `ModifySafeMap` with nested iterations: while one runs,
additions go to the second map and removals leave a null. `PlainMap` says what the user of it
sees: one map, whose iteration comes to each object that was there when the outermost one
began and still is, once, in order. `clear` removes in rounds, since destructors may add.

### NodeTimers and TimerSet

`list` is `m_timers` (ordered by trigger time), `m_iterators` and `m_next_trigger_time`;
`elapsed_timers` what `step` returned and `MapBlock::step` has not yet called back.
`UpperBound` is where the multimap puts a timer, and where `step` stops. `SaveAndLoad` writes
what is left of each timer and inserts it anew in a list whose clock begins at 0, but for those
whose timeout is not above 0 (`Loaded`).
`TimerSet` keeps for each node what is left of its timer, says when it runs out, and which
timers loading forgets (`Reload`); `Timers` is how the list is seen as one. `Settings` are the
pairs of timeout and elapsed time that Lua sets, of either sign, as in the code.

## 4. Runs

Nine runs pass and three end with a violation (section 7). The bounds are in the `.cfg`
files.

- **channel_window** – a ring of 14 numbers instead of 65536, which begin two before the
  wrap, as those of the program begin shortly before it (`SEQNUM_INITIAL` is 65500); window 1
  to 2, changed by ±1; six commands of two chunks, so the numbers pass round nearly the whole
  ring; a ping, a peer that may be half open, disconnect and deletion; two packets and one
  ACK in flight, which is what reordering needs and gives late and repeated ACKs and early
  packets. The code uses the size of the ring only through `MAX_RELIABLE_WINDOW_SIZE`, and
  the theorems hold for every size. `InOrder`: packets are processed in the order numbered,
  each once. `NoLoss`: no packet is forgotten by both ends. `AckedIsHeld`: an ACK under way is
  for a packet the receiver has. `SpreadOK`: numbering is less than half a ring ahead of the
  receiver, which the theorem of section 6 assumes.
- **channel_live** – fairness; two commands of one or three chunks; the window begins at 2
  and may grow to 4, so a command is numbered at once, or waits for numbers, or is larger
  than the window. `ImplementsFifo`: each step is one of `FifoChannel` or none.
  `ForcedDelivery`: what that channel has accepted it delivers, as long as it stays open.
  `EventuallyIdle`: everything is acknowledged, so a command larger than the window, which
  needs an empty list, is sent. `CommandOrder`: the chunks numbered are those of the
  commands accepted, in their order; a command that waited or was retried is not overtaken,
  doubled or cut.
- **emerge_queue** – two blocks (one over the map's limit), two threads, a client and the
  environment, limits 2/1/1, so that two blocks reach each of them; loading and scripts may
  fail; one call of `emerge_area`, whose callbacks may call it again. `QueuesAgree`,
  `CountsExact`, `PeerLimits`, `NoLostWakeup`; `StateAlive`: no callback is called with a freed
  state. Two threads are what choosing a queue, stealing a wake-up or stopping at different
  places needs.
- **emerge_live** – two blocks, one request, fairness. `CallsRemaining`: a callback is told
  how many are still to come. `AllCalledBack`: each comes, by the loop or by cancellation.
  `StopFinishes`.
- **blocks_race** – one block; node, bulk and metadata edits (two), one `send_mapblock`, one
  turn, one deletion by the client, one prediction with any verdict. `Announced`: what a block
  counted as sent or in flight contains has been put into messages, or its event waits.
  `BulkUpToDate`: once nothing is under way, a client has the server's content of
  a block whose nodes and metadata were never changed singly. One block is enough: the sets
  treat blocks apart; two edits give one between a send and its acknowledgement and another
  after it. With one block no refusal leaves a prediction behind; `blocks_pair.cfg`, run by
  hand, has two blocks with one bulk edit, and passes (1.2 million states).
- **blocks_live** – three blocks at distances 0, 2, 5, of which a search that begins at 0
  reaches the first two; the second on a diagonal, so that it is 3 away by
  `getDistanceFrom`, not generated yet and hidden until revealed, the third beyond
  `d_max_gen`; one in flight at most; a building player, a full emerge queue, a turn, an
  edit; fairness. `Throttled`: a block is sent or in flight, not both, and the limit holds.
  `NothingBehind`: no block that could be sent is nearer than where the next search begins,
  but for those in `passed`. `blocks_search.cfg`, run by hand, checks the same with a cap
  over all clients that drops blocks, and passes (26,000 states). `AllSent`: every block
  that can be had and seen is sent and acknowledged.
- **peers_life** – two addresses, two ids (symmetric), two peers, data and DISCO packets,
  time-outs, one disconnect command, one event waiting while another packet comes.
  `UsageCounts`: a count is the number of helpers on the peer. `NoDangling`: no freed peer
  is in the table or in use. `NoLeak`: what is in neither is freed. `OnePeerPerAddress`.
  `OwnerInformed`: the owner, once it has read its events, has the clients the table has.
  `EventsInOrder`: `Peers` implements `PeerEvents`. Two peers are enough: a thread works on
  one at a time, and a second one takes the first one's address or comes while it goes.
- **sessions_join** – two peers that send seven kinds of messages in any order, one name
  that is not registered, a limit of two users; kicks, lingering, one change of a player's
  data. `ClientPerPeer`: the clients are the peers that came and did not leave.
  `VerifierThere`: a proof is checked only against a verifier. `LoggedIn`: nobody is past
  the login without an account, by whichever of the three ways it came.
  `OnePlayerPerClient`. `DeniedGoes`: a client that was denied leaves for good.
  `SessionEnds`: a player whose client is gone is removed.
- **parts** – the five parts of `MCParts`.
  *Peers*: one address and one peer, data, pings and DISCO, and one command, with fairness:
  `AskedIsFreed`, a peer that the owner asks to disconnect is freed, whoever else deletes it
  meanwhile. With a second peer of the address, and pings and DISCO, run by hand, the same
  holds in 238,942 states.
  *SplitPackets*: two split numbers, three messages of one or two chunks, so a number comes
  round once: `Reassembled`, a delivered message is one that was sent, whole, and reliable ones
  come in order with none left out.
  *ActiveObjects*: one entity, two identifiers, two blocks, two clients, one move: `KnownExact`,
  an object's count is the number of clients that know it; `EachOnce`, the entity is there
  exactly once, as an object, in a block or in the database. With two moves, run by hand, the
  same holds in 61,316 states, and with two entities, three identifiers, one client and no
  move in 449,004; entities meet only in a block's list and in the choice of identifiers.
  *NodeTimers*: two nodes, times up to two, a timeout of 0 among the settings, whose timer
  does not survive a save, and a negative elapsed time: `TimersAreSet`, the list implements
  `TimerSet`.
  *SafeMap*: three identifiers, two objects, two nested iterations: `SafeToModify`, the map
  implements `PlainMap`.
- **sessions_twice**, **timers_never**, **objects_shutdown** – violations, section 7.

`CHECK_DEADLOCK FALSE` is in the channel, emerge, sessions, timers and parts runs, the
violations `sessions_twice` and `timers_never` included, because there the system really may
stop: the bounded commands are delivered, the server has stopped, everyone has left, no timer
is set. The blocks and peers runs and `objects_shutdown` check deadlock.

Run by hand as well: `peers_life.cfg` with `Kinds = {"disco", "corrupt"}` passes too (2.4
million states).

## 5. Fairness

- Channel: the send thread runs at least every 50 ms (`network/mtp/threads.cpp:86`) and gives
  each peer a quota of at least one packet, so sending, retrying commands and resending
  the oldest packet are weakly fair; so are emptying the receive buffer, knocking of a
  half-open peer, and its first packet. The network is strongly fair to one packet at a time
  (the one the receiver waits for, the oldest of the sender's list, its ACK): one that is sent
  again and again gets through some time.
- Peers: both threads run their loops (weak). A deletion that packets still waiting for the
  peer put off is not put off for ever (strong), for the quota of a round is at least one
  packet (`network/mtp/threads.cpp:100`). The owner's short calls return. No fairness for what
  is received, for time-outs or for the owner's wishes. With corrupt packets without end
  `AskedIsFreed` does not hold: each one ends as a command to the send thread, whose loop goes
  on while there are commands; the run has none. `MCParts` asks this fairness of the peers'
  part alone.
- Sessions: the receive thread puts what it has in hand, the server handles events, looks for
  lingering clients and removes players (weak). A peer asked to disconnect leaves, which is
  `AskedIsFreed`. No fairness for what clients send.
- Emerge: one strong fairness per thread and one for the server's calls and stop. A
  thread is always running or waiting for a mutex; the environment's is an
  `ordered_mutex`, which serves in order of arrival, and the queue's is held shortly,
  but for cancellation, which ends. No fairness for asking for blocks or for stopping:
  nobody has to.
- Blocks: the server's step takes all queued events and packets each 50 ms (weak for the
  event loop, strong for handling messages, which the loop interrupts). A search by a player
  who is not building with room in the emerge queue (`FreePass`) is strongly fair: a player
  does not build for ever, and the queue drains. The client reads its messages and makes its
  meshes. Emerge threads are strongly fair, as `Emerge` shows. No fairness for edits, turns,
  deletions, predictions or reveals.

## 6. Theorems

All are proved by TLAPS for every value of the constants that the named assumptions of
the modules allow.

**Sequence numbers** (`ReliableChannelProofs`). `InWindowIsDistance`: the window test with
the full window is "less than half the ring ahead". `WindowBaseIsHalfRingBack`: the C
expression for the window base is exactly half a ring behind the counter, the wrap and the
signed remainder included. `OutsideWindowIsFutureOrOld`: no packet falls through the
receiver's three tests unhandled, and "future" is left for the distance of exactly half the
ring.

**Channel** (`ReliableChannelProofs`). `TypeCorrect`: types. `ChannelSafe`:
`Spec /\ []SpreadOK => [](InOrder /\ NoLoss /\ AckedIsHeld)`, with `NoLossHolds` and
`AckedIsHeldHolds` for two of them alone. None of the three is
inductive: the code decides by `seq`, the properties speak of `n`. The inductive
invariant `IInv` says that the two agree: every packet anywhere is less than half a ring
behind the counter and its distance from the counter tells its place in the log
(`Placed`); queued packets are in order, not processed and in no other place
(`QueueOrder`); the receiver's counter is as far behind as it has processed less
(`ReceiverPlace`).

The premise `SpreadOK` is a real one: with commands of up to 0x8000 - 1 chunks the code does
not ensure it (`channel_max_chunks.cfg`). `SpreadHolds` says when it does:
`Spec /\ []PingsAtMost(P) => []SpreadOK` under `RingIsWide(K, P)`, where `K` is the size of
the largest command and `P` how many pings may be numbered after a packet that has not been
processed. The ring must be more than four times as wide as what may be under way at once,
`Reach(K, P)`: a quota of requeued packets, a window, a command and the pings. The reason for
four: the receiver may hold packets that are one reach ahead of what it has processed, and
the sender counts its own reach from its oldest unacknowledged packet, which may be behind
those. In the program half the ring is 32768, the window at most 2048 and the quota 256, so
the condition is `K + P` below some 14000: commands of that many chunks are messages of 7
megabytes, and a ping comes every 5 seconds, while a peer of which nothing is heard for 30
seconds is deleted. The inductive invariant is `SpreadInv`: each packet numbered and not
processed is waiting to be sent, waiting for its ACK or held by the receiver (`Covered`),
what waits to be sent is within a window, a quota and a command of what is unacknowledged but for
pings (`WaitingNear`), and what waits for an ACK, or is held early, is within a reach
(`SentNear`, `HeldNear`). `ChannelHolds` puts the theorems together, without the premise and
with `MaxPings` for `P`.

`CommandOrderHolds` has no premise. Its invariant is `CommandOrder` itself, with the types of
what is queued: `LogOrder` states the order of chunks without a fold over the log, by what
comes before what, so that a command that gets its numbers adds to both sides of it and
one whose numbers are put back to neither.

`FifoHolds` proves the refinement, `Spec /\ []SpreadOK => ImplementsFifo`, and
`FifoOnWideRing` the same under `RingIsWide`. `FifoChannel` is seen through the
last chunk of the user's that was processed (`LastReceived`). By `InOrder` the packets
processed are a prefix of the log; by `CommandOrder` the next entry of the log that is not a
control packet is the chunk that comes after that one. A control packet is a stutter, and so
is all else but a command accepted, a packet processed and the end of the peer.

**Peers** (`PeersProofs`). `TypeCorrect`, `UsageCountsHold`, `NoDanglingHolds`,
`NoLeakHolds`, `OnePeerPerAddressHolds`. No peer is freed while it is in the table or in
use, by any interleaving of the two threads and the owner, and none is left behind. The
inductive invariant `IInv` adds two things to the properties. `Control` ties the helpers and
the peers under deletion to the program counters: what a thread may hold where. `Placed`
says that each peer ever created is in exactly one place: in the table, with the thread that
deletes it, waiting for the last of its users, or freed; `FreedWhenUnused`, that the last
place is reached only with a count of zero. The proof does not go through thirty actions
for each conjunct: `StepEffect` shows that a step does one of seven things to table, counts
and ends (`Effect`: nothing, create, take, release, erase, drop, destroy), and each conjunct
is preserved by each of them.

`EventsInOrderHold` and `OwnerInformedHolds` say what the owner gets to see, under
`~ ReuseIds`: the first that `Peers` implements `PeerEvents`, the second that the owner knows
the table when no event is on its way. The refinement rests on the same `Effect`, and on what
the receive thread has in hand while it hands over a packet (`Handing`); the events on their
way are shown to be what separates the owner's knowledge from the table, peer by peer
(`Informed`). Ids that come round make the second false (`peers_reuse.cfg`).

**Sessions** (`SessionsProofs`). `TypeCorrect`, `ClientPerPeerHolds`, `VerifierThereHolds`,
`LoggedInHolds`, `OnePlayerPerClientHolds`, for any number of peers, names and users and any
packets in any order. The inductive invariant `IInv` adds `QueueOK`, that the
queue has each peer's arrival and departure at most once, in order and not before they
happened, which `ClientPerPeer` needs; and `ClientsOK`, which ties a client's chosen
mechanism to its verifier, to the mechanism allowed and to its state: `HelloSent` alone may
lead past the login, and only with an account or with `create_player_on_auth_success`, which
makes one on the way. The invariant does not say that who may log in by SRP has an account,
for with a `default_password` that is not so. The handlers are not compared with each
conjunct one by one: each is shown to change one client by a step that keeps its name, and
who may have a player (`Served`, `Step`); `ClientReady`, which adds a player, is the exception.

**Emerge queue** (`EmergeProofs`). `EmergeTypeCorrect`, `QueueConsistent` (map, queues and
counters agree), `CountsHold`, `LimitsHold`, `WakeupsKept`. The inductive invariant is the control
part of the types, that jobs name requests that exist, and `QueueOK`: agreement of the
three structures with queues free of repetition. The type of the counters needs it: a
counter stays a natural number only because it counts what is in the map.
`NoLostWakeup` is carried through by cases of who is between the queue's mutex and the
signal.

**Callbacks of emerging** (`EmergeProofs`). `CallsInvariant`, `StateAliveHolds`,
`CallsRemainingHolds`. For each request, the blocks still to be called back are in three
places: asked for and not yet queued, in the map, in a thread's hand; `Outstanding` is their
number, and a step moves a block between them or takes it out together with one of the count.
The invariant `CallsInv` names what keeps the places apart: a request belongs to one
caller (`CallsNamed`, `CallsApart`), a thread that is about to take a block has none
(`HandsFree`), and the sum is not above the count (`Balanced`). It is equal to the count
if no block is skipped without its callbacks, for which `CallsRemainingHolds` assumes that
`OverLimit` is empty, and nothing fails; `emerge_over_limit.cfg` shows the first is needed.

**Block sending** (`BlockSendProofs`). `ThrottledHolds`: by the argument that the blocks a
search selects, with those in flight, fit the limit; the lemma `SelectionFits` takes the
last block selected (`HasLast`), at which the search was not yet full. `AnnouncedHolds`:
under the assumption `"unmeta" \notin EditKinds`, with the invariant that the newest
event about a node carries its present content (`LastNodeKnown`), metadata that was
announced exists (`MetaThere`), and only generated blocks are sent (`ReadyInv`): a block
that is changed by generation is in nobody's set. Without the assumption it is false
(`blocks_unmeta.cfg`).

`NothingBehindHolds` says that a search never goes past a block it could send, but for those
in `passed`, on every map, with either distance and whatever is sent to other clients. It has
no assumption beyond those of the module. Its invariant `SearchInv` has to speak of blocks that
are coming as well, those in memory or with the emerge threads (`NothingMissed`), since it is
their distance that holds the search back until they are there, and has to keep them in sight
and out of the cache of hidden blocks (`InSight`). That there is something in `passed` is where
the code does less than its comments say: `NothingPassed`, the same for every block in sight, is
false (`blocks_diagonal.cfg`, `blocks_cap.cfg`).

`BulkUpToDateHolds` goes on from `AnnouncedHolds` to the client: when nothing about a block
is under way, the client has the server's content of it. Two kinds of blocks are left out:
those whose nodes or metadata were ever changed one by one, for such a change travels on
another channel than the block and may be overtaken (`blocks_overtaken.cfg`), and those in
`stuck`, in which a refusal has left a prediction (`blocks_revert.cfg`), until they are sent
again. So the theorem is about the block messages, their acknowledgements, deletions by the
client and the sets they change, and not about ADDNODE. The invariant `CopiesInv` says that
the last BLOCKDATA of each block on channel 2, or the client's copy when there is none, is
the content last sent (`BulkKept`); that a block which counts as sent is on its way, there,
or reported gone (`Held`); that what the client has predicted will be replaced by a block in
flight, is asked of the server, or is in a block that is stuck (`GuessAsked`); and that what
was never changed is so everywhere (`Clean`). The verdicts of the server are all those of
the code, each with the blocks it sends again. The one assumption is that of
`AnnouncedHolds`.

`BlockSendTypeCorrect` says that every variable keeps its type, on any map and without that
assumption. No run of the standard set checks it.

**Entities** (`ActiveObjectsProofs`). `TypeCorrect`, `KnownExactHolds`, `EachOnceHolds`. The
invariant behind `EachOnce` (`SteadyUp`) says where each of an entity's copies may be: an
object and its entry in the active list of its block, a stored entry in memory, the entry
in the database of a block that is not in memory or not saved since; and that these
agree but for a block marked modified. Each operation is shown to move an entity between
them. The theorem assumes `~ UnloadRaces`, without which it is false (`objects_unload.cfg`).
It counts an entity in `undone`, which its own `on_deactivate` removed while no client knew
it, as one that was not removed, for that is what becomes of it: it exists once, and the next
removal that is not of this kind ends it. That a removed entity is nowhere at all,
`RemovedForGood`, is false (`objects_deactivate.cfg`).

**Object map** (`ContainerProofs`). `MapTypeCorrect`, `SafeToModifyHolds`: `SafeMap` implements
`PlainMap`, for any number of identifiers and any nesting. The invariant is small: the second
map is empty when nobody iterates, and what is in it is null in the first (`Apart`). With it
`put`, `take`, `merge_new` and the end of an iteration are each shown to change the two maps
seen as one in one entry or not at all, and each step of the manager to be one of
`PlainMap` or none.

**Node timers** (`ContainerProofs`). `TimersAreSetHolds`, `TimersAreSetUnlessNoTrigger`,
`NoneLateUnlessNoTrigger`, for any nodes, timeouts, elapsed times and steps. The inductive
invariant is `ListOK`: the list is in the order in which timers run out (`Ordered`), a node
has one of them (`OnePerNode`), the index has the same timers (`Indexed`) and the time of the
first is known (`FirstKnown`). The last is lost when a timer runs out at -1, which
stands for "no timer", so the refinement has the premise `NoneAtNoTrigger`: no timer does,
neither now nor counted from the clock of a block loaded again. `timers_never.cfg` shows that
it is needed, and `NoneLateUnlessNoTrigger` that nothing else keeps a timer from running out.
The premise follows where Lua never sets a negative timeout or more elapsed time than the
timeout (`ElapsedWithin`): then no timer is ever overdue (`NoneOverdue`). The code does not
check this, which is why it is an assumption of `TimersAreSetHolds` and not of the model.
Loading is a recursion over the saved timers; `LoadedIs` gives its value after each number of
them in closed form and takes the least number at which that would be wrong, which needs the
order of naturals but no induction theorem.

**Split packets** (`SplitPacketsProofs`). `SplitTypeCorrect`, `ReassembledHolds`, for any
number of split numbers, messages and chunks. The receiver sees a split number, the property
speaks of messages; the inductive invariant `SplitInv` says that a number tells its message
wherever it is looked at. `NumbersApart`: the unreliable chunks under way with one number
are of one message, and no reliable one has it. `StreamOK`: the stream is the chunks of the
reliable messages one after the other, each message's in order and no message passed over.
`HeadOK`: the messages before the head of the stream have been handed on, and no others.
`BufferOK`: the buffer holds at most one reliable message, exactly the part of it that has
come, and each unreliable entry is of one message, with which all that may still join it
agrees. The code never looks whether chunks 1 to n are there, it counts them;
`AllReceivedIsAll` shows that counting suffices. The proof assumes nothing beyond
`NotAround`, which is a guard of the model: the code has no such test, only a counter wide
enough for the time-out.

Only model-checked: liveness and everything that needs ENABLED, which TLAPS does not handle:
`ForcedDelivery`, `EventuallyIdle`, `AllCalledBack`, `StopFinishes`, `AllSent`, `AskedIsFreed`,
`DeniedGoes` and `SessionEnds`. Every invariant, action property and refinement that a passing
run checks is a theorem, under the assumptions named above.

## 7. Where the code does not do what it says

Three are runs of the standard set, which TLC ends with a counterexample; `findings` in
`PROJECT.json` has the quotations.

- **sessions_twice** (`OneSessionPerName`): `getPlayer(name)` leaves its loop at the first
  player of that name even when its session is over (`serverenvironment.cpp:604`). Such a
  player stays in front of the list until its object is deleted; until then two clients of
  that name that are both in the login both emerge.
- **timers_never** (`NoneLate`): -1 stands for "no timer" in `m_next_trigger_time`
  (`nodetimer.h:107`) and is also a time a timer may have: `set(1, 2)` while the block's time
  is 0. Neither that timer nor the others of the block run out until one is set or removed.
  That this is the only way is proved (section 6).
- **objects_shutdown** (`RemovedStays`): an entity removed and not yet deleted when the
  server shuts down is stored by `deactivateFarObjects(true)` (`serverenvironment.cpp:2155`)
  and is there again after the restart.

The others are configurations to be run by hand, each of which makes TLC find the property
violated. They delimit what the passing runs and the theorems say.

- `channel_max_chunks.cfg` (`NoLoss`): `processReliableSendCommand` admits any command of
  fewer than 0x8000 chunks (`network/mtp/impl.cpp:1075`) and numbers them all while nothing
  is unacknowledged (641). With one packet waiting unsent, a command of 0x8000 - 1 chunks
  pushes that packet out of the outgoing buffer's window (`threads.cpp:319`): it is sent
  once, never kept, and lost with that copy. This is why `ChannelSafe` assumes `SpreadOK` and
  `SpreadHolds` a limit on the size of commands.
- `peers_reuse.cfg` (`OwnerInformed`): when `createPeer` draws an id that a peer just removed
  had, the new peer's arrival may be put before the old one's departure; the owner then
  takes the new one for gone.
- `sessions_stale.cfg` (`NothingForgotten`): a player that logs in again before the object of
  its last session is deleted gets the data from the database, which
  does not have the changes of that session yet; `server.cpp:4017` lists "save data before free".
- `sessions_account.cfg` (`NoSecondAccount`): two clients log in under one name that has no
  account, with a `default_password`; the account that the first one gets is created once more
  when the second one's login ends. `handleCommand_SrpBytesM` does not look whether there is an
  account (`network/serverpackethandler.cpp:1708`), as `handleCommand_FirstSrp` does, which
  says at 1484 "It is possible for multiple connections to get this far with the same player
  name [...] we still have to be careful here". With accounts in files the second creation
  overwrites the first; an SQL table whose names are unique raises an error instead.
- `objects_unload.cfg` (`EachOnce`): with `UnloadRaces = TRUE` a block whose objects are active
  is unloaded before they are managed; loaded again it activates what it stored, and the
  entity is there twice. `unittest/test_sao.cpp` knows of it (its FIXME).
- `objects_deactivate.cfg` (`RemovedForGood`): `deactivateFarObjects` stores an object
  (`serverenvironment.cpp:2241`) before it calls `on_deactivate` (2250). A handler that calls
  `self.object:remove()` there succeeds, since the object is not gone yet
  (`script/lua_api/l_object.cpp:80`); an object no client knows is then deleted at once (2264)
  and `removeRemovedObjects` never sees it. Its stored copy stays, and the entity is there again
  when the block becomes active, against `src/doc/lua_api.md:8348`, "remove object".
- `emerge_stop.cfg` (`StopFinishes`): a callback that `cancelPendingItems` calls under the
  queue's mutex calls `core.emerge_area`, which locks that mutex again.
- `emerge_over_limit.cfg` (`CallsRemaining`): a block over the map's limit is skipped
  without its callbacks (`emerge.cpp:696`), while `l_emerge_area` has counted it, so
  `calls_remaining` (`src/doc/lua_api.md:6546`) never gets to 0.
- `blocks_overtaken.cfg` (`UpToDate`): a late GOTBLOCKS for an earlier copy lets a node change
  overtake the later copy, on another channel; the older block then replaces the node.
- `blocks_unmeta.cfg` (`Announced`): `reportMetadataChange` removes metadata that a mod has
  emptied, and `sendMetadataChanged` then finds none and continues (`server.cpp:2381`): the
  removal is neither sent nor the block taken for unsent.
- `blocks_diagonal.cfg` (`NothingPassed`): the search counts distances in cubes but goes
  back for a modified block by its Euclidean distance (`server/clientiface.cpp:201`), which
  is larger on a diagonal: the block waits until the search starts over.
- `blocks_cap.cfg` (`NothingPassed`): a selected block that the cap over all clients drops
  (`server.cpp:2492`) is behind the start of the next search when a farther one was queued
  for emerging (`server/clientiface.cpp:391`).
- `blocks_revert.cfg` (`UpToDate`): of a placement out of reach only the block pointed at
  is sent again (`network/serverpackethandler.cpp:1019`), while the client may have
  predicted the node in the neighbouring block.
- `blocks_absent.cfg` (`AllSent`): a block that is neither stored nor near enough to
  generate is queued for emerging at every search and holds the search at its distance.
- `blocks_hidden.cfg` (`AllSent`): with a view of two blocks the cache of hidden blocks is
  not cleared while the player stands still (`server/clientiface.cpp:411`).

Seen in reading and not modelled: an object whose deactivation waits, because a client knows
it, in a block that is active again stays asleep until another deactivation; when
`saveStaticToBlock` fails the object is deleted although clients know it; when
`registerObject` fails in `activateObjects` the stored object is lost;
`MMVManip::blitBackAll` overwrites edits made while a chunk was being generated.

## 8. Left out, and why

Channel: the other two channels (the same code), unreliable packets, the values of
timers and of loss statistics (any waiting packet may be resent at any time, the window
may change by any allowed step), splits below the chunk (`SplitPackets` has them), deletion of
the receiver's peer; the exception for a packet that differs from the one buffered under its
number (`IncomingDataCorruption`), which needs a sender that gives a number to two packets.
`channel_live` has no pings: that a command larger than the window gets its turn is checked
without them.

Peers: the client's end (one peer, the same code), the limit on new peers per second, and ids
that come round after 65535 peers (`peers_reuse.cfg` shows what happens then). Data are
reliable or not without a difference here.

Splits: the clock. The time-out of unreliable splits may come at any time, and the 30 seconds
that keep numbers apart are the assumption `NotAround`.

Sessions: what a password is (any proof may succeed or fail), the removal of accounts and a
handler of accounts that loses them, sudo mode's change of password, media, and what
messages of the game do (`Play`); a denial that asks the client to reconnect.

Emerge: what is in a block and `m_chunks_in_progress`, callbacks
other than those of `emerge_area`, requests by shutdown hooks after `stopThreads`.

Blocks: more than one client (they share only the map, the event queue and the cap,
which `OthersBusy` stands for); distances that change as the player moves (a turn or a
move resets the search, which is what the code's sets see of it); the cone of sight, the
culling of air blocks and the limit of the map, which remove blocks from the search by
geometry; lighting and generation that spill to neighbouring blocks; a second emerge of
the same block before the first is reported; unloading of blocks on the server; private
metadata; node changes that drop metadata; the cache of serialized blocks; the early
return of `handleCommand_Interact` for a bad hotbar slot. Node changes travel on another
channel than blocks, so the client's node may be old (`blocks_overtaken.cfg`): `BulkUpToDate`
says what holds, that its blocks are not.

Objects: entities without `static_save`, the limit on objects of a block, `clearObjects`, the
order of what a block stores, attachment, and blocks activated because they were just
generated.

Components not modelled are listed with their reason in section 1 and in `PROJECT.json`:
mod channels, inventory, asynchronous jobs, threading primitives, ban list, rollback,
databases, map generation, scripting, client, GUI, and vendored and Lua code. These are most
of the repository's lines; the models stand for the parts where order decides.
