------------------------------- MODULE Emerge -------------------------------
(***************************************************************************)
(* The emerge queue (emerge.cpp): the blocks that clients, the environment *)
(* and mods ask for, the threads that load or generate them, the callbacks *)
(* of core.emerge_area, and the locks and events all of these share.       *)
(*                                                                         *)
(* A critical section of m_queue_mutex or of the environment's mutex is    *)
(* one step, unless Lua runs in it or it waits for the other mutex; then   *)
(* queue_lock or env_lock is held across steps.                            *)
(***************************************************************************)
EXTENDS Integers, Sequences, FiniteSets

CONSTANTS
    Blocks,
    OverLimit,            \* the blocks beyond blockpos_over_max_limit
    Peers,                \* the peers that ask for blocks
    PEER_ID_INEXISTENT,   \* the environment and the mods
    NThreads,             \* num_emerge_threads
    qlimit_total, qlimit_diskonly, qlimit_generate,
    LuaEmerges,           \* do callbacks of mods call core.emerge_area?
    CanFail,              \* may scripts fail to load and blocks to be read?
    MaxRequests           \* bound: calls of core.emerge_area

ASSUME EmergeAssumption ==
    /\ IsFiniteSet(Blocks)
    /\ OverLimit \subseteq Blocks
    /\ PEER_ID_INEXISTENT \in Peers
    /\ NThreads \in Nat \ {0}
    /\ {qlimit_total, qlimit_diskonly, qlimit_generate} \subseteq Nat \ {0}
    /\ {LuaEmerges, CanFail} \subseteq BOOLEAN
    /\ MaxRequests \in Nat

Threads == 1 .. NThreads
Server == 0
Nobody == -1
Actors == {Server} \cup Threads     \* who may ask for blocks
Requests == 1 .. MaxRequests        \* ScriptCallbackState, one per emerge_area

VARIABLES
    phase,               \* of the server: "up", "stopping", "stopped"
    m_blocks_enqueued,   \* a set of BlockEmergeData for each block, {} or one
    m_peer_queue_count,
    m_block_queue,       \* of each thread
    notified,            \* the Event each thread waits for
    m_request_stop,      \* of each thread
    pc,                  \* where each thread is in run()
    bedata,              \* what each thread works on: {} or one BlockWork
    job,                 \* blocks an actor's emerge_area still has to queue
    to_signal,           \* the thread an actor has yet to signal, or Nobody
    env_lock, queue_lock,
    refcount,            \* of each ScriptCallbackState
    requests             \* how many emerge_area were called

queue == << m_blocks_enqueued, m_peer_queue_count, m_block_queue >>
lua == << job, refcount, requests >>
vars == << phase, queue, notified, m_request_stop, pc, bedata, to_signal,
           env_lock, queue_lock, lua >>

BlockEmergeData ==
    [peer_requested : Peers, allow_gen : BOOLEAN, callbacks : SUBSET Requests]
Work == [pos : Blocks, allow_gen : BOOLEAN, callbacks : SUBSET Requests]
Job == [request : Requests \cup {0}, todo : SUBSET Blocks]

\* Where in EmergeThread::run a thread can be.
Places == {"off", "top", "idle", "waiting", "popped", "generating", "on_generated",
           "callbacks", "in_callback", "exiting", "cancel", "done"}

AtMostOne(S) == {{}} \cup {{x} : x \in S}

TypeOK ==
    /\ phase \in {"up", "stopping", "stopped"}
    /\ m_blocks_enqueued \in [Blocks -> AtMostOne(BlockEmergeData)]
    /\ m_peer_queue_count \in [Peers -> Nat]
    /\ m_block_queue \in [Threads -> Seq(Blocks)]
    /\ notified \in [Threads -> BOOLEAN]
    /\ m_request_stop \in [Threads -> BOOLEAN]
    /\ pc \in [Threads -> Places]
    /\ bedata \in [Threads -> AtMostOne(Work)]
    /\ job \in [Actors -> Job]
    /\ to_signal \in [Actors -> Threads \cup {Nobody}]
    /\ env_lock \in Actors \cup {Nobody}
    /\ queue_lock \in Threads \cup {Nobody}
    /\ refcount \in [Requests -> Int]
    /\ requests \in 0 .. MaxRequests

NoJob == [request |-> 0, todo |-> {}]

Init ==
    /\ phase = "up"
    /\ m_blocks_enqueued = [b \in Blocks |-> {}]
    /\ m_peer_queue_count = [p \in Peers |-> 0]
    /\ m_block_queue = [t \in Threads |-> <<>>]
    /\ notified = [t \in Threads |-> FALSE]
    /\ m_request_stop = [t \in Threads |-> FALSE]
    /\ pc = [t \in Threads |-> "off"]
    /\ bedata = [t \in Threads |-> {}]
    /\ job = [x \in Actors |-> NoJob]
    /\ to_signal = [x \in Actors |-> Nobody]
    /\ env_lock = Nobody
    /\ queue_lock = Nobody
    /\ refcount = [r \in Requests |-> 0]
    /\ requests = 0

-----------------------------------------------------------------------------
(* Queueing a block *)

Enqueued == {b \in Blocks : m_blocks_enqueued[b] # {}}

\* Mutant: one block more than the limit.
Bug_WithinLimits(peer, gen) ==
    /\ Cardinality(Enqueued) <= qlimit_total
    /\ m_peer_queue_count[peer] <= (IF gen THEN qlimit_generate ELSE qlimit_diskonly)

(* pushBlockEmergeData: the limits, for all but core.emerge_area, which    *)
(* sets BLOCK_EMERGE_FORCE_QUEUE.                                          *)
WithinLimits(peer, gen) ==
    /\ Cardinality(Enqueued) < qlimit_total
    /\ IF peer # PEER_ID_INEXISTENT
       THEN m_peer_queue_count[peer] < (IF gen THEN qlimit_generate ELSE qlimit_diskonly)
       ELSE m_peer_queue_count[peer] * 2 < qlimit_total

\* getOptimalThread: the first of those with the shortest queue.
IsOptimalThread(t) ==
    \A u \in Threads :
        \/ Len(m_block_queue[t]) < Len(m_block_queue[u])
        \/ Len(m_block_queue[t]) = Len(m_block_queue[u]) /\ t <= u

\* Mutant: the callbacks of the last request replace the others.
Bug_Merged(e, gen, callbacks) ==
    [e EXCEPT !.allow_gen = @ \/ gen, !.callbacks = callbacks]

Merged(e, gen, callbacks) ==
    [e EXCEPT !.allow_gen = @ \/ gen, !.callbacks = @ \cup callbacks]

\* Mutant: a block that is queued already is queued again.
Bug_Merge(b, gen, callbacks) ==
    /\ m_blocks_enqueued[b] # {}
    /\ \E t \in Threads : m_block_queue' = [m_block_queue EXCEPT ![t] = Append(@, b)]
    /\ UNCHANGED << m_blocks_enqueued, m_peer_queue_count, to_signal >>

(* A block that is queued already only gets more callbacks and flags.      *)
Merge(b, gen, callbacks) ==
    /\ m_blocks_enqueued[b] # {}
    /\ m_blocks_enqueued' = [m_blocks_enqueued EXCEPT ![b] =
           {Merged(e, gen, callbacks) : e \in @}]
    /\ UNCHANGED << m_peer_queue_count, m_block_queue, to_signal >>

\* Mutant: blocks of clients are counted for the environment.
Bug_CountUpOther(peer) == [m_peer_queue_count EXCEPT ![PEER_ID_INEXISTENT] = @ + 1]

CountUp(peer) == [m_peer_queue_count EXCEPT ![peer] = @ + 1]

AddNew(x, b, peer, gen, callbacks) ==
    /\ m_blocks_enqueued[b] = {}
    /\ m_blocks_enqueued' = [m_blocks_enqueued EXCEPT ![b] =
           {[peer_requested |-> peer, allow_gen |-> gen, callbacks |-> callbacks]}]
    /\ m_peer_queue_count' = CountUp(peer)
    /\ \E t \in Threads :
           /\ IsOptimalThread(t)
           /\ m_block_queue' = [m_block_queue EXCEPT ![t] = Append(@, b)]
           /\ to_signal' = [to_signal EXCEPT ![x] = t]

(* enqueueBlockEmergeEx by actor x, up to the signal.                      *)
EnqueueBlock(x, b, peer, gen, callbacks) ==
    /\ queue_lock = Nobody
    /\ Merge(b, gen, callbacks) \/ AddNew(x, b, peer, gen, callbacks)

\* Mutant: only a thread that waits already is notified.
Bug_Notified(t) == IF pc[t] = "waiting" THEN [notified EXCEPT ![t] = TRUE] ELSE notified

\* Event::signal.
Notified(t) == [notified EXCEPT ![t] = TRUE]

\* thread->signal(), after the queue's mutex is released.
Signal(x) ==
    /\ to_signal[x] # Nobody
    /\ notified' = Notified(to_signal[x])
    /\ to_signal' = [to_signal EXCEPT ![x] = Nobody]
    /\ UNCHANGED << phase, queue, m_request_stop, pc, bedata, env_lock,
                    queue_lock, lua >>

\* Actor x is in none of the calls below.
Idle(x) == job[x].todo = {} /\ to_signal[x] = Nobody

(* core.emerge_area with a callback, called by Lua code of actor x under   *)
(* the environment's lock.                                                 *)
EmergeArea(x, area) ==
    /\ env_lock = x
    /\ Idle(x)
    /\ x \in Threads => LuaEmerges
    /\ requests < MaxRequests
    /\ requests' = requests + 1
    /\ refcount' = [refcount EXCEPT ![requests + 1] = Cardinality(area)]
    /\ job' = [job EXCEPT ![x] = [request |-> requests + 1, todo |-> area]]
    /\ UNCHANGED << phase, queue, notified, m_request_stop, pc, bedata,
                    to_signal, env_lock, queue_lock >>

EmergeAreaBlock(x, b) ==
    /\ b \in job[x].todo
    /\ to_signal[x] = Nobody
    /\ EnqueueBlock(x, b, PEER_ID_INEXISTENT, TRUE, {job[x].request})
    /\ job' = [job EXCEPT ![x] =
           IF @.todo = {b} THEN NoJob
           ELSE [request |-> @.request, todo |-> @.todo \ {b}]]
    /\ UNCHANGED << phase, notified, m_request_stop, pc, bedata, env_lock,
                    queue_lock, refcount, requests >>

-----------------------------------------------------------------------------
(* The server thread *)

ServerLock ==
    /\ phase = "up"
    /\ env_lock = Nobody
    /\ env_lock' = Server
    /\ UNCHANGED << phase, queue, notified, m_request_stop, pc, bedata,
                    to_signal, queue_lock, lua >>

ServerUnlock ==
    /\ env_lock = Server
    /\ Idle(Server)
    /\ env_lock' = Nobody
    /\ UNCHANGED << phase, queue, notified, m_request_stop, pc, bedata,
                    to_signal, queue_lock, lua >>

(* enqueueBlockEmerge for a client or for the environment: refused over    *)
(* the limits (no step), and the caller tries again later.                 *)
ServerEnqueue(peer, b, gen) ==
    /\ env_lock = Server
    /\ Idle(Server)
    /\ WithinLimits(peer, gen)
    /\ EnqueueBlock(Server, b, peer, gen, {})
    /\ UNCHANGED << phase, notified, m_request_stop, pc, bedata, env_lock,
                    queue_lock, lua >>

(* startThreads.  A thread whose scripts fail to load never enters its     *)
(* loop.                                                                   *)
StartThreads ==
    /\ phase = "up"
    /\ pc = [t \in Threads |-> "off"]
    /\ pc' \in [Threads -> {"top"} \cup (IF CanFail THEN {"exiting"} ELSE {})]
    /\ m_request_stop' = [t \in Threads |-> pc'[t] = "exiting"]
    /\ UNCHANGED << phase, queue, notified, bedata, to_signal, env_lock,
                    queue_lock, lua >>

(* ~Server: the server thread has stopped.  stopThreads asks each thread   *)
(* to stop and signals it, then waits for all of them.                     *)
BeginStop ==
    /\ phase = "up"
    /\ env_lock # Server
    /\ pc # [t \in Threads |-> "off"]
    /\ phase' = "stopping"
    /\ UNCHANGED << queue, notified, m_request_stop, pc, bedata, to_signal,
                    env_lock, queue_lock, lua >>

\* Mutant: a thread is asked to stop but not woken.
Bug_StopThread(t) ==
    /\ phase = "stopping"
    /\ ~ m_request_stop[t]
    /\ m_request_stop' = [m_request_stop EXCEPT ![t] = TRUE]
    /\ UNCHANGED << phase, queue, notified, pc, bedata, to_signal, env_lock,
                    queue_lock, lua >>

StopThread(t) ==
    /\ phase = "stopping"
    /\ to_signal[Server] = Nobody
    /\ ~ m_request_stop[t]
    /\ \A u \in 1 .. t - 1 : m_request_stop[u]
    /\ m_request_stop' = [m_request_stop EXCEPT ![t] = TRUE]
    /\ to_signal' = [to_signal EXCEPT ![Server] = t]
    /\ UNCHANGED << phase, queue, notified, pc, bedata, env_lock, queue_lock, lua >>

EndStop ==
    /\ phase = "stopping"
    /\ to_signal[Server] = Nobody
    /\ pc = [t \in Threads |-> "done"]
    /\ phase' = "stopped"
    /\ UNCHANGED << queue, notified, m_request_stop, pc, bedata, to_signal,
                    env_lock, queue_lock, lua >>

-----------------------------------------------------------------------------
(* A thread *)

Goto(t, where) == pc' = [pc EXCEPT ![t] = where]

\* Mutant: the entry of a block that is popped is not erased.
Bug_Erased(b) == m_blocks_enqueued

Erased(b) == [m_blocks_enqueued EXCEPT ![b] = {}]

(* The front of the thread's queue, with its data (popBlockEmergeData).    *)
TakeFront(t) ==
    LET b == Head(m_block_queue[t])
    IN  /\ m_block_queue[t] # <<>>
        /\ m_block_queue' = [m_block_queue EXCEPT ![t] = Tail(@)]
        /\ bedata' = [bedata EXCEPT ![t] =
               {[pos |-> b, allow_gen |-> e.allow_gen, callbacks |-> e.callbacks]
                   : e \in m_blocks_enqueued[b]}]
        /\ m_blocks_enqueued' = Erased(b)
        /\ m_peer_queue_count' = [p \in Peers |->
               m_peer_queue_count[p]
                   - Cardinality({e \in m_blocks_enqueued[b] : e.peer_requested = p})]

\* The head of the loop: popBlockEmerge finds a block or none.
PopBlock(t) ==
    /\ pc[t] = "top"
    /\ ~ m_request_stop[t]
    /\ queue_lock = Nobody
    /\ TakeFront(t)
    /\ Goto(t, "popped")
    /\ UNCHANGED << phase, notified, m_request_stop, to_signal, env_lock,
                    queue_lock, lua >>

FindNone(t) ==
    /\ pc[t] = "top"
    /\ ~ m_request_stop[t]
    /\ queue_lock = Nobody
    /\ m_block_queue[t] = <<>>
    /\ Goto(t, "idle")
    /\ UNCHANGED << phase, queue, notified, m_request_stop, bedata, to_signal,
                    env_lock, queue_lock, lua >>

(* Event::wait: returns at once if the event was signalled meanwhile.      *)
Wait(t) ==
    /\ pc[t] = "idle"
    /\ ~ notified[t]
    /\ Goto(t, "waiting")
    /\ UNCHANGED << phase, queue, notified, m_request_stop, bedata, to_signal,
                    env_lock, queue_lock, lua >>

WakeUp(t) ==
    /\ pc[t] \in {"idle", "waiting"}
    /\ notified[t]
    /\ notified' = [notified EXCEPT ![t] = FALSE]
    /\ Goto(t, "top")
    /\ UNCHANGED << phase, queue, m_request_stop, bedata, to_signal, env_lock,
                    queue_lock, lua >>

\* Mutant: a thread that stops forgets what is queued for it.
Bug_LeaveLoop(t) ==
    /\ pc[t] = "top"
    /\ m_request_stop[t]
    /\ Goto(t, "done")
    /\ UNCHANGED << phase, queue, notified, m_request_stop, bedata, to_signal,
                    env_lock, queue_lock, lua >>

LeaveLoop(t) ==
    /\ pc[t] = "top"
    /\ m_request_stop[t]
    /\ Goto(t, "exiting")
    /\ UNCHANGED << phase, queue, notified, m_request_stop, bedata, to_signal,
                    env_lock, queue_lock, lua >>

\* A block beyond the limit is skipped, callbacks and all.
SkipOverLimit(t) ==
    /\ pc[t] = "popped"
    /\ \E w \in bedata[t] : w.pos \in OverLimit
    /\ bedata' = [bedata EXCEPT ![t] = {}]
    /\ Goto(t, "top")
    /\ UNCHANGED << phase, queue, notified, m_request_stop, to_signal, env_lock,
                    queue_lock, lua >>

(* getBlockOrStartGen: the block is there, is loaded or cannot be had, or  *)
(* has to be generated; one that cannot be read ends the thread.           *)
GetBlockOrStartGen(t) ==
    /\ pc[t] = "popped"
    /\ env_lock = Nobody
    /\ \E w \in bedata[t] :
           /\ w.pos \notin OverLimit
           /\ \/ Goto(t, "callbacks") /\ UNCHANGED bedata
              \/ w.allow_gen /\ Goto(t, "generating") /\ UNCHANGED bedata
              \/ /\ CanFail
                 /\ Goto(t, "exiting")
                 /\ bedata' = [bedata EXCEPT ![t] = {}]
    /\ UNCHANGED << phase, queue, notified, m_request_stop, to_signal, env_lock,
                    queue_lock, lua >>

\* finishGen, in which Lua's on_generated runs under the environment's lock.
FinishGen(t) ==
    /\ pc[t] = "generating"
    /\ env_lock = Nobody
    /\ env_lock' = t
    /\ Goto(t, "on_generated")
    /\ UNCHANGED << phase, queue, notified, m_request_stop, bedata, to_signal,
                    queue_lock, lua >>

\* on_generated of the thread's own scripts failed.
GenerationError(t) ==
    /\ pc[t] = "generating"
    /\ CanFail
    /\ Goto(t, "callbacks")
    /\ UNCHANGED << phase, queue, notified, m_request_stop, bedata, to_signal,
                    env_lock, queue_lock, lua >>

(* LuaEmergeAreaCallback: refcount is decremented, then Lua is called.     *)
BeginCallback(t) ==
    /\ pc[t] = "callbacks"
    /\ env_lock = Nobody
    /\ \E w \in bedata[t], r \in Requests :
           /\ r \in w.callbacks
           /\ bedata' = [bedata EXCEPT ![t] = {[w EXCEPT !.callbacks = @ \ {r}]}]
           /\ refcount' = [refcount EXCEPT ![r] = @ - 1]
    /\ env_lock' = t
    /\ Goto(t, "in_callback")
    /\ UNCHANGED << phase, queue, notified, m_request_stop, to_signal,
                    queue_lock, job, requests >>

\* Lua returns.
EndLua(t) ==
    /\ pc[t] \in {"on_generated", "in_callback"}
    /\ Idle(t)
    /\ env_lock' = Nobody
    /\ Goto(t, "callbacks")
    /\ UNCHANGED << phase, queue, notified, m_request_stop, bedata, to_signal,
                    queue_lock, lua >>

\* All callbacks of a block are called; back to the loop it came from.
EndBlock(t) ==
    /\ pc[t] = "callbacks"
    /\ \A w \in bedata[t] : w.callbacks = {}
    /\ bedata' = [bedata EXCEPT ![t] = {}]
    /\ Goto(t, IF queue_lock = t THEN "cancel" ELSE "top")
    /\ UNCHANGED << phase, queue, notified, m_request_stop, to_signal, env_lock,
                    queue_lock, lua >>

(* cancelPendingItems: the queue's mutex is held to the end, callbacks     *)
(* included.                                                               *)
BeginCancel(t) ==
    /\ pc[t] = "exiting"
    /\ queue_lock = Nobody
    /\ queue_lock' = t
    /\ Goto(t, "cancel")
    /\ UNCHANGED << phase, queue, notified, m_request_stop, bedata, to_signal,
                    env_lock, lua >>

CancelBlock(t) ==
    /\ pc[t] = "cancel"
    /\ TakeFront(t)
    /\ Goto(t, "callbacks")
    /\ UNCHANGED << phase, notified, m_request_stop, to_signal, env_lock,
                    queue_lock, lua >>

EndCancel(t) ==
    /\ pc[t] = "cancel"
    /\ m_block_queue[t] = <<>>
    /\ queue_lock' = Nobody
    /\ Goto(t, "done")
    /\ UNCHANGED << phase, queue, notified, m_request_stop, bedata, to_signal,
                    env_lock, lua >>

-----------------------------------------------------------------------------
ThreadStep(t) ==
    \/ PopBlock(t) \/ FindNone(t) \/ Wait(t) \/ WakeUp(t) \/ LeaveLoop(t)
    \/ SkipOverLimit(t) \/ GetBlockOrStartGen(t)
    \/ FinishGen(t) \/ GenerationError(t)
    \/ BeginCallback(t) \/ EndLua(t) \/ EndBlock(t)
    \/ BeginCancel(t) \/ CancelBlock(t) \/ EndCancel(t)

LuaStep(x) ==
    \/ Signal(x)
    \/ \E area \in SUBSET Blocks \ {{}} : EmergeArea(x, area)
    \/ \E b \in job[x].todo : EmergeAreaBlock(x, b)

ServerStep ==
    \/ ServerLock \/ ServerUnlock \/ StartThreads \/ BeginStop \/ EndStop
    \/ \E p \in Peers, b \in Blocks, gen \in BOOLEAN : ServerEnqueue(p, b, gen)
    \/ \E t \in Threads : StopThread(t)

Next ==
    \/ ServerStep
    \/ \E x \in Actors : LuaStep(x)
    \/ \E t \in Threads : ThreadStep(t)

Spec == Init /\ [][Next]_vars

-----------------------------------------------------------------------------
(* Properties *)

(* emerge.h:203: the blocks of m_blocks_enqueued are those of the threads' *)
(* queues, and no block is queued twice, in one queue or in two.           *)
QueuesAgree ==
    /\ \A t \in Threads : \A i \in DOMAIN m_block_queue[t] :
           m_block_queue[t][i] \in Enqueued
    /\ \A b \in Enqueued : \E t \in Threads : \E i \in DOMAIN m_block_queue[t] :
           m_block_queue[t][i] = b
    /\ \A t, u \in Threads : \A i \in DOMAIN m_block_queue[t], j \in DOMAIN m_block_queue[u] :
           m_block_queue[t][i] = m_block_queue[u][j] => t = u /\ i = j

QueuedBy(p) == {b \in Blocks : \E e \in m_blocks_enqueued[b] : e.peer_requested = p}

(* emerge.h:204: the counters beside the queue are the number of blocks    *)
(* each peer has in it, so the limits are about what is really queued.     *)
CountsExact ==
    \A p \in Peers : m_peer_queue_count[p] = Cardinality(QueuedBy(p))

(* emerge.cpp:365: a client never has more blocks queued than its larger   *)
(* limit, whatever requests were merged meanwhile.                         *)
PeerLimits ==
    \A p \in Peers \ {PEER_ID_INEXISTENT} :
        \/ m_peer_queue_count[p] <= qlimit_diskonly
        \/ m_peer_queue_count[p] <= qlimit_generate

(* The blocks whose callback a call of core.emerge_area still waits for:   *)
(* not queued yet, queued, or in the hands of a thread.                    *)
Outstanding(r) ==
    Cardinality({xb \in Actors \X Blocks :
                    job[xb[1]].request = r /\ xb[2] \in job[xb[1]].todo})
    + Cardinality({b \in Blocks : \E e \in m_blocks_enqueued[b] : r \in e.callbacks})
    + Cardinality({t \in Threads : \E w \in bedata[t] : r \in w.callbacks})

(* l_env.cpp:144 asserts refcount > 0: the state a callback is called with *)
(* is not freed while any thread, queue or merged request still points to  *)
(* it, and no block calls it twice.                                        *)
StateAlive == \A r \in Requests : Outstanding(r) <= refcount[r]

(* lua_api.md, emerge_area: "calls_remaining is the number of callbacks to *)
(* be expected after this one"; the counter is what is handed to Lua.      *)
CallsRemaining == \A r \in Requests : Outstanding(r) = refcount[r]

(* emerge.cpp:298, 690: a thread never sleeps on work.  The signal comes   *)
(* after the queue's mutex is released, so a thread that finds its queue   *)
(* empty and then waits is woken, or is about to be.                       *)
NoLostWakeup ==
    \A t \in Threads : pc[t] \in {"idle", "waiting"} /\ ~ notified[t] =>
        \/ m_block_queue[t] = <<>> /\ ~ m_request_stop[t]
        \/ \E x \in Actors : to_signal[x] = t
=============================================================================
