---------------------------- MODULE EmergeProofs ----------------------------
(***************************************************************************)
(* What is proved of Emerge for every number of blocks, peers, threads and *)
(* requests and every limit: the queue's structures agree, its counters    *)
(* are exact, a client stays within its limits, no thread sleeps on work,  *)
(* and the callbacks of core.emerge_area are each called at most once, on  *)
(* a state that is still there.                                            *)
(***************************************************************************)
EXTENDS Emerge, FiniteSetTheorems, SequenceTheorems, TLAPS

QueueTypeOK ==
    /\ m_blocks_enqueued \in [Blocks -> AtMostOne(BlockEmergeData)]
    /\ m_peer_queue_count \in [Peers -> Nat]
    /\ m_block_queue \in [Threads -> Seq(Blocks)]

\* What the operations on the queue, under its mutex, keep.
QueueOK == QueueTypeOK /\ QueuesAgree /\ CountsExact

-----------------------------------------------------------------------------
(* Lemmas on the queue *)

\* A set of at most one element is empty or has exactly one.
LEMMA OneOrNone ==
    ASSUME NEW S, NEW D \in AtMostOne(S)
    PROVE  D = {} \/ \E x \in S : D = {x}
BY DEF AtMostOne

\* The blocks a peer has queued are finitely many.
LEMMA QueuedFinite ==
    ASSUME NEW p
    PROVE  IsFiniteSet(QueuedBy(p)) /\ Cardinality(QueuedBy(p)) \in Nat
BY EmergeAssumption, FS_Subset, FS_CardinalityType DEF QueuedBy

\* Merging a request changes no structure, only the entry's flags and callbacks.
LEMMA MergeKeeps ==
    ASSUME QueueOK, NEW b \in Blocks, NEW gen \in BOOLEAN,
           NEW callbacks \in SUBSET Requests, Merge(b, gen, callbacks)
    PROVE  QueueOK'
<1>1. PICK e \in BlockEmergeData : m_blocks_enqueued[b] = {e}
  BY OneOrNone DEF Merge, QueueOK, QueueTypeOK
<1> DEFINE new == Merged(e, gen, callbacks)
<1>2. new \in BlockEmergeData /\ new.peer_requested = e.peer_requested
  BY <1>1 DEF Merged, BlockEmergeData
<1>3. m_blocks_enqueued' = [m_blocks_enqueued EXCEPT ![b] = {new}]
  BY <1>1 DEF Merge
<1>4. QueueTypeOK'
  BY <1>2, <1>3 DEF Merge, QueueOK, QueueTypeOK, AtMostOne
<1>5. Enqueued' = Enqueued
  BY <1>1, <1>3 DEF Enqueued, QueueOK, QueueTypeOK
<1>6. QueuesAgree'
  BY <1>5 DEF Merge, QueueOK, QueuesAgree
<1>7. \A p : QueuedBy(p)' = QueuedBy(p)
  BY <1>1, <1>2, <1>3 DEF QueuedBy, QueueOK, QueueTypeOK
<1>8. CountsExact'
  BY <1>7 DEF Merge, QueueOK, CountsExact
<1>9. QED
  BY <1>4, <1>6, <1>8 DEF QueueOK

\* A new block joins one queue, the map and its peer's count.
LEMMA AddNewKeeps ==
    ASSUME QueueOK, NEW x \in Actors, NEW b \in Blocks, NEW peer \in Peers,
           NEW gen \in BOOLEAN, NEW callbacks \in SUBSET Requests,
           AddNew(x, b, peer, gen, callbacks)
    PROVE  QueueOK'
<1> DEFINE new == [peer_requested |-> peer, allow_gen |-> gen, callbacks |-> callbacks]
<1>1. PICK t \in Threads : m_block_queue' = [m_block_queue EXCEPT ![t] = Append(@, b)]
  BY DEF AddNew
<1>2. /\ m_blocks_enqueued[b] = {}
      /\ m_blocks_enqueued' = [m_blocks_enqueued EXCEPT ![b] = {new}]
      /\ m_peer_queue_count' = [m_peer_queue_count EXCEPT ![peer] = @ + 1]
  BY DEF AddNew, CountUp
<1>3. m_block_queue[t] \in Seq(Blocks) /\ Len(m_block_queue[t]) \in Nat
  BY LenProperties DEF QueueOK, QueueTypeOK
<1>4. /\ Append(m_block_queue[t], b) \in Seq(Blocks)
      /\ DOMAIN Append(m_block_queue[t], b) = 1 .. Len(m_block_queue[t]) + 1
      /\ \A i \in 1 .. Len(m_block_queue[t]) :
            Append(m_block_queue[t], b)[i] = m_block_queue[t][i]
      /\ Append(m_block_queue[t], b)[Len(m_block_queue[t]) + 1] = b
  BY <1>3
<1>5. QueueTypeOK'
  <2>1. new \in BlockEmergeData
    BY DEF BlockEmergeData
  <2>2. m_blocks_enqueued' \in [Blocks -> AtMostOne(BlockEmergeData)]
    BY <1>2, <2>1 DEF QueueOK, QueueTypeOK, AtMostOne
  <2>3. m_peer_queue_count' \in [Peers -> Nat]
    BY <1>2 DEF QueueOK, QueueTypeOK
  <2>4. m_block_queue' \in [Threads -> Seq(Blocks)]
    BY <1>1, <1>4 DEF QueueOK, QueueTypeOK
  <2> QED BY <2>2, <2>3, <2>4 DEF QueueTypeOK
<1>6. Enqueued' = Enqueued \cup {b} /\ b \notin Enqueued
  BY <1>2 DEF Enqueued, QueueOK, QueueTypeOK
<1>7. QueuesAgree'
  <2>1. \A u \in Threads \ {t} : m_block_queue'[u] = m_block_queue[u]
    BY <1>1 DEF QueueOK, QueueTypeOK
  <2>2. m_block_queue'[t] = Append(m_block_queue[t], b)
    BY <1>1 DEF QueueOK, QueueTypeOK
  <2>3. DOMAIN m_block_queue[t] = 1 .. Len(m_block_queue[t])
    BY <1>3
  <2>4. \A u \in Threads : \A i \in DOMAIN m_block_queue[u] :
           /\ m_block_queue[u][i] \in Enqueued
           /\ i \in DOMAIN m_block_queue'[u]
           /\ m_block_queue'[u][i] = m_block_queue[u][i]
    BY <1>3, <1>4, <2>1, <2>2, <2>3 DEF QueueOK, QueuesAgree
  <2>5. \A u \in Threads : \A i \in DOMAIN m_block_queue'[u] :
           \/ i \in DOMAIN m_block_queue[u]
           \/ u = t /\ i = Len(m_block_queue[t]) + 1 /\ m_block_queue'[u][i] = b
    BY <1>3, <1>4, <2>1, <2>2, <2>3
  <2>6. \A u \in Threads : \A i \in DOMAIN m_block_queue'[u] :
           m_block_queue'[u][i] \in Enqueued'
    BY <1>6, <2>4, <2>5
  <2>7. \A c \in Enqueued' : \E u \in Threads : \E i \in DOMAIN m_block_queue'[u] :
           m_block_queue'[u][i] = c
    <3> TAKE c \in Enqueued'
    <3>1. CASE c = b
      <4>1. Len(m_block_queue[t]) + 1 \in DOMAIN m_block_queue'[t]
        BY <1>3, <1>4, <2>2
      <4> QED BY <1>4, <2>2, <3>1, <4>1
    <3>2. CASE c \in Enqueued
      <4>1. PICK u \in Threads : \E i \in DOMAIN m_block_queue[u] : m_block_queue[u][i] = c
        BY <3>2 DEF QueueOK, QueuesAgree
      <4>2. PICK i \in DOMAIN m_block_queue[u] : m_block_queue[u][i] = c
        BY <4>1
      <4> QED BY <2>4, <4>2
    <3> QED BY <1>6, <3>1, <3>2
  <2>8. \A u, v \in Threads :
           \A i \in DOMAIN m_block_queue'[u], j \in DOMAIN m_block_queue'[v] :
              m_block_queue'[u][i] = m_block_queue'[v][j] => u = v /\ i = j
    <3> SUFFICES ASSUME NEW u \in Threads, NEW v \in Threads,
                        NEW i \in DOMAIN m_block_queue'[u],
                        NEW j \in DOMAIN m_block_queue'[v],
                        m_block_queue'[u][i] = m_block_queue'[v][j]
                 PROVE  u = v /\ i = j
      OBVIOUS
    <3>1. CASE i \in DOMAIN m_block_queue[u] /\ j \in DOMAIN m_block_queue[v]
      <4>1. m_block_queue[u][i] = m_block_queue[v][j]
        BY <2>4, <3>1
      <4> QED BY <3>1, <4>1 DEF QueueOK, QueuesAgree
    <3>2. CASE i \notin DOMAIN m_block_queue[u]
      BY <1>6, <2>4, <2>5, <3>2
    <3>3. CASE j \notin DOMAIN m_block_queue[v]
      BY <1>6, <2>4, <2>5, <3>3
    <3> QED BY <3>1, <3>2, <3>3
  <2> QED BY <2>6, <2>7, <2>8 DEF QueuesAgree
<1>8. CountsExact'
  <2> SUFFICES ASSUME NEW p \in Peers
               PROVE  m_peer_queue_count'[p] = Cardinality(QueuedBy(p)')
    BY DEF CountsExact
  <2>1. m_peer_queue_count[p] = Cardinality(QueuedBy(p))
    BY DEF QueueOK, CountsExact
  <2>2. CASE p = peer
    <3>1. QueuedBy(p)' = QueuedBy(p) \cup {b} /\ b \notin QueuedBy(p)
      BY <1>2, <2>2 DEF QueuedBy, QueueOK, QueueTypeOK
    <3>2. Cardinality(QueuedBy(p) \cup {b}) = Cardinality(QueuedBy(p)) + 1
      BY <3>1, QueuedFinite, FS_AddElement
    <3> QED BY <1>2, <2>1, <2>2, <3>1, <3>2 DEF QueueOK, QueueTypeOK
  <2>3. CASE p # peer
    <3>1. QueuedBy(p)' = QueuedBy(p)
      BY <1>2, <2>3 DEF QueuedBy, QueueOK, QueueTypeOK
    <3> QED BY <1>2, <2>1, <2>3, <3>1 DEF QueueOK, QueueTypeOK
  <2> QED BY <2>2, <2>3
<1>9. QED
  BY <1>5, <1>7, <1>8 DEF QueueOK

\* The front of a queue is in the map with its data: popBlockEmergeData
\* succeeds, and its assertion count_peer != 0 holds.
LEMMA FrontEnqueued ==
    ASSUME QueueOK, NEW t \in Threads, m_block_queue[t] # <<>>
    PROVE  \E e \in BlockEmergeData :
              /\ Head(m_block_queue[t]) \in Blocks
              /\ m_blocks_enqueued[Head(m_block_queue[t])] = {e}
              /\ Head(m_block_queue[t]) \in QueuedBy(e.peer_requested)
              /\ m_peer_queue_count[e.peer_requested] > 0
<1> DEFINE b == Head(m_block_queue[t])
<1>1. m_block_queue[t] \in Seq(Blocks)
  BY DEF QueueOK, QueueTypeOK
<1>2. b \in Blocks /\ 1 \in DOMAIN m_block_queue[t] /\ b = m_block_queue[t][1]
  BY <1>1
<1>3. b \in Enqueued
  BY <1>2 DEF QueueOK, QueuesAgree
<1>4. PICK e \in BlockEmergeData : m_blocks_enqueued[b] = {e}
  BY <1>2, <1>3, OneOrNone DEF Enqueued, QueueOK, QueueTypeOK
<1>5. b \in QueuedBy(e.peer_requested)
  BY <1>2, <1>4 DEF QueuedBy
<1>6. e.peer_requested \in Peers
  BY DEF BlockEmergeData
<1>7. m_peer_queue_count[e.peer_requested] = Cardinality(QueuedBy(e.peer_requested))
  BY <1>6 DEF QueueOK, CountsExact
<1>8. Cardinality(QueuedBy(e.peer_requested)) # 0
  BY <1>5, QueuedFinite, FS_EmptySet
<1>9. QED
  BY <1>2, <1>4, <1>5, <1>7, <1>8, QueuedFinite

\* Taking the front of a queue leaves the queue, the map and the count.
LEMMA TakeFrontKeeps ==
    ASSUME QueueOK, NEW t \in Threads, TakeFront(t)
    PROVE  QueueOK'
<1> DEFINE b == Head(m_block_queue[t])
<1>1. m_block_queue[t] # <<>> /\ m_block_queue[t] \in Seq(Blocks)
  BY DEF TakeFront, QueueOK, QueueTypeOK
<1>2. PICK e \in BlockEmergeData :
         /\ b \in Blocks
         /\ m_blocks_enqueued[b] = {e}
         /\ b \in QueuedBy(e.peer_requested)
         /\ m_peer_queue_count[e.peer_requested] > 0
  BY <1>1, FrontEnqueued
<1>3. /\ m_block_queue' = [m_block_queue EXCEPT ![t] = Tail(@)]
      /\ m_blocks_enqueued' = [m_blocks_enqueued EXCEPT ![b] = {}]
      /\ m_peer_queue_count' = [p \in Peers |->
             m_peer_queue_count[p]
                 - Cardinality({d \in m_blocks_enqueued[b] : d.peer_requested = p})]
  BY DEF TakeFront, Erased
<1>4. e.peer_requested \in Peers
  BY DEF BlockEmergeData
<1>5. \A p \in Peers : m_peer_queue_count'[p] =
         IF p = e.peer_requested THEN m_peer_queue_count[p] - 1 ELSE m_peer_queue_count[p]
  <2> TAKE p \in Peers
  <2>0. m_peer_queue_count[p] \in Nat
    BY DEF QueueOK, QueueTypeOK
  <2>1. CASE p = e.peer_requested
    <3>1. {d \in m_blocks_enqueued[b] : d.peer_requested = p} = {e}
      BY <1>2, <2>1
    <3> QED BY <1>3, <2>1, <3>1, FS_Singleton
  <2>2. CASE p # e.peer_requested
    <3>1. {d \in m_blocks_enqueued[b] : d.peer_requested = p} = {}
      BY <1>2, <2>2
    <3> QED BY <1>3, <2>0, <2>2, <3>1, FS_EmptySet
  <2> QED BY <2>1, <2>2
<1>6. /\ Tail(m_block_queue[t]) \in Seq(Blocks)
      /\ DOMAIN m_block_queue[t] = 1 .. Len(m_block_queue[t])
      /\ Len(m_block_queue[t]) \in Nat \ {0}
      /\ DOMAIN Tail(m_block_queue[t]) = 1 .. Len(m_block_queue[t]) - 1
      /\ \A i \in 1 .. Len(m_block_queue[t]) - 1 :
            Tail(m_block_queue[t])[i] = m_block_queue[t][i + 1]
      /\ b = m_block_queue[t][1]
  BY <1>1
<1>7. QueueTypeOK'
  <2>1. m_peer_queue_count' \in [Peers -> Nat]
    <3>1. DOMAIN m_peer_queue_count' = Peers
      BY <1>3
    <3>2. \A p \in Peers : m_peer_queue_count'[p] \in Nat
      BY <1>2, <1>5 DEF QueueOK, QueueTypeOK
    <3> QED BY <1>3, <3>1, <3>2
  <2>2. m_blocks_enqueued' \in [Blocks -> AtMostOne(BlockEmergeData)]
    BY <1>3 DEF AtMostOne, QueueOK, QueueTypeOK
  <2> QED BY <1>3, <1>6, <2>1, <2>2 DEF QueueOK, QueueTypeOK
<1>8. Enqueued' = Enqueued \ {b} /\ b \in Enqueued
  BY <1>2, <1>3 DEF Enqueued, QueueOK, QueueTypeOK
<1>9. QueuesAgree'
  <2>1. \A u \in Threads \ {t} : m_block_queue'[u] = m_block_queue[u]
    BY <1>3 DEF QueueOK, QueueTypeOK
  <2>2. m_block_queue'[t] = Tail(m_block_queue[t])
    BY <1>3 DEF QueueOK, QueueTypeOK
  \* Every place of a queue was a place of it before, but never the front.
  <2> DEFINE old(u, i) == IF u = t THEN i + 1 ELSE i
  <2>3. \A u \in Threads : \A i \in DOMAIN m_block_queue'[u] :
           /\ old(u, i) \in DOMAIN m_block_queue[u]
           /\ m_block_queue'[u][i] = m_block_queue[u][old(u, i)]
           /\ ~ (u = t /\ old(u, i) = 1)
    <3> TAKE u \in Threads
    <3> TAKE i \in DOMAIN m_block_queue'[u]
    <3>1. CASE u = t
      <4>1. i \in 1 .. Len(m_block_queue[t]) - 1
        BY <1>6, <2>2, <3>1
      <4>2. old(u, i) = i + 1 /\ i + 1 \in 2 .. Len(m_block_queue[t])
        BY <1>6, <3>1, <4>1
      <4>3. m_block_queue'[u][i] = m_block_queue[t][i + 1]
        BY <1>6, <2>2, <3>1, <4>1
      <4>4. i + 1 \in DOMAIN m_block_queue[t] /\ i + 1 # 1
        BY <1>6, <4>2
      <4> HIDE DEF old
      <4> QED BY <3>1, <4>2, <4>3, <4>4
    <3>2. CASE u # t
      <4>1. m_block_queue'[u] = m_block_queue[u] /\ old(u, i) = i
        BY <2>1, <3>2
      <4> HIDE DEF old
      <4> QED BY <3>2, <4>1
    <3> QED BY <3>1, <3>2
  <2>4. 1 \in DOMAIN m_block_queue[t]
    BY <1>6
  <2>5. \A u \in Threads : \A i \in DOMAIN m_block_queue'[u] :
           m_block_queue'[u][i] \in Enqueued'
    <3> TAKE u \in Threads
    <3> TAKE i \in DOMAIN m_block_queue'[u]
    <3>1. m_block_queue[u][old(u, i)] \in Enqueued
      BY <2>3 DEF QueueOK, QueuesAgree
    <3>2. m_block_queue[u][old(u, i)] # m_block_queue[t][1]
      BY <2>3, <2>4 DEF QueueOK, QueuesAgree
    <3> QED BY <1>6, <1>8, <2>3, <3>1, <3>2
  <2>6. \A c \in Enqueued' : \E u \in Threads : \E i \in DOMAIN m_block_queue'[u] :
           m_block_queue'[u][i] = c
    <3> TAKE c \in Enqueued'
    <3>1. c \in Enqueued /\ c # b
      BY <1>8
    <3>2. PICK u \in Threads : \E i \in DOMAIN m_block_queue[u] : m_block_queue[u][i] = c
      BY <3>1 DEF QueueOK, QueuesAgree
    <3>5. PICK i \in DOMAIN m_block_queue[u] : m_block_queue[u][i] = c
      BY <3>2
    <3>3. CASE u = t
      <4>1. i \in 2 .. Len(m_block_queue[t])
        BY <1>6, <3>1, <3>5, <3>3
      <4>2. i - 1 \in 1 .. Len(m_block_queue[t]) - 1 /\ (i - 1) + 1 = i
        BY <1>6, <4>1
      <4>3. i - 1 \in DOMAIN m_block_queue'[t] /\ m_block_queue'[t][i - 1] = c
        BY <1>6, <2>2, <3>5, <3>3, <4>2
      <4> QED BY <4>3
    <3>4. CASE u # t
      BY <2>1, <3>5, <3>4
    <3> QED BY <3>3, <3>4
  <2>7. \A u, v \in Threads :
           \A i \in DOMAIN m_block_queue'[u], j \in DOMAIN m_block_queue'[v] :
              m_block_queue'[u][i] = m_block_queue'[v][j] => u = v /\ i = j
    <3> SUFFICES ASSUME NEW u \in Threads, NEW v \in Threads,
                        NEW i \in DOMAIN m_block_queue'[u],
                        NEW j \in DOMAIN m_block_queue'[v],
                        m_block_queue'[u][i] = m_block_queue'[v][j]
                 PROVE  u = v /\ i = j
      OBVIOUS
    <3>1. m_block_queue[u][old(u, i)] = m_block_queue[v][old(v, j)]
      BY <2>3
    <3>2. u = v /\ old(u, i) = old(v, j)
      BY <2>3, <3>1 DEF QueueOK, QueuesAgree
    <3>3. CASE u = t
      <4>1. i \in 1 .. Len(m_block_queue[t]) - 1 /\ j \in 1 .. Len(m_block_queue[t]) - 1
        BY <1>6, <2>2, <3>2, <3>3
      <4> QED BY <3>2, <3>3, <4>1, <1>6
    <3>4. CASE u # t
      BY <3>2, <3>4
    <3> QED BY <3>2, <3>3, <3>4
  <2> QED BY <2>5, <2>6, <2>7 DEF QueuesAgree
<1>10. CountsExact'
  <2> SUFFICES ASSUME NEW p \in Peers
               PROVE  m_peer_queue_count'[p] = Cardinality(QueuedBy(p)')
    BY DEF CountsExact
  <2>1. m_peer_queue_count[p] = Cardinality(QueuedBy(p))
    BY DEF QueueOK, CountsExact
  <2>2. CASE p = e.peer_requested
    <3>1. QueuedBy(p)' = QueuedBy(p) \ {b} /\ b \in QueuedBy(p)
      BY <1>2, <1>3, <2>2 DEF QueuedBy, QueueOK, QueueTypeOK
    <3>2. Cardinality(QueuedBy(p) \ {b}) = Cardinality(QueuedBy(p)) - 1
      BY <3>1, QueuedFinite, FS_RemoveElement
    <3> QED BY <1>5, <2>1, <2>2, <3>1, <3>2
  <2>3. CASE p # e.peer_requested
    <3>1. QueuedBy(p)' = QueuedBy(p)
      BY <1>2, <1>3, <2>3 DEF QueuedBy, QueueOK, QueueTypeOK
    <3> QED BY <1>5, <2>1, <2>3, <3>1
  <2> QED BY <2>2, <2>3
<1>11. QED
  BY <1>7, <1>9, <1>10 DEF QueueOK

LEMMA QueueUnchanged ==
    ASSUME QueueOK, UNCHANGED queue
    PROVE  QueueOK'
<1>1. /\ m_blocks_enqueued' = m_blocks_enqueued
      /\ m_peer_queue_count' = m_peer_queue_count
      /\ m_block_queue' = m_block_queue
  BY DEF queue
<1>2. QueueTypeOK'
  BY <1>1 DEF QueueOK, QueueTypeOK
<1>3. QueuesAgree'
  BY <1>1 DEF QueueOK, QueuesAgree, Enqueued
<1>4. CountsExact'
  BY <1>1 DEF QueueOK, CountsExact, QueuedBy
<1>5. QED
  BY <1>2, <1>3, <1>4 DEF QueueOK

-----------------------------------------------------------------------------
(* The inductive invariant *)

ControlTypeOK ==
    /\ phase \in {"up", "stopping", "stopped"}
    /\ notified \in [Threads -> BOOLEAN]
    /\ m_request_stop \in [Threads -> BOOLEAN]
    /\ pc \in [Threads -> Places]
    /\ bedata \in [Threads -> AtMostOne(Work)]
    /\ job \in [Actors -> Job]
    /\ to_signal \in [Actors -> Threads \cup {Nobody}]
    /\ env_lock \in Actors \cup {Nobody}
    /\ queue_lock \in Threads \cup {Nobody}
    /\ refcount \in [Requests -> Int]
    /\ requests \in 0 .. MaxRequests

\* An actor that has blocks left to queue is in a call of core.emerge_area.
JobsNamed == \A x \in Actors : job[x].todo # {} => job[x].request \in Requests

IInv == ControlTypeOK /\ JobsNamed /\ QueueOK

LEMMA InitInvariant ==
    ASSUME Init
    PROVE  IInv
<1>1. ControlTypeOK
  BY EmergeAssumption
     DEF Init, ControlTypeOK, Places, AtMostOne, Job, NoJob, Actors, Nobody, Server
<1>2. JobsNamed
  BY DEF Init, JobsNamed, NoJob
<1>3. QueueTypeOK
  BY DEF Init, QueueTypeOK, AtMostOne
<1>4. Enqueued = {} /\ \A p : QueuedBy(p) = {}
  BY DEF Init, Enqueued, QueuedBy
<1>5. QueuesAgree
  BY <1>4 DEF Init, QueuesAgree
<1>6. CountsExact
  BY <1>4, FS_EmptySet DEF Init, CountsExact
<1>7. QED
  BY <1>1, <1>2, <1>3, <1>5, <1>6 DEF IInv, QueueOK

\* What an emerge_area queues a block with.
LEMMA RequestQueued ==
    ASSUME IInv, NEW x \in Actors, NEW b \in Blocks, EmergeAreaBlock(x, b)
    PROVE  /\ {job[x].request} \in SUBSET Requests
           /\ PEER_ID_INEXISTENT \in Peers
           /\ EnqueueBlock(x, b, PEER_ID_INEXISTENT, TRUE, {job[x].request})
           /\ to_signal[x] = Nobody
BY EmergeAssumption DEF IInv, JobsNamed, EmergeAreaBlock

\* A thread is done with its block, or with one callback of it.
Releases(t) ==
    \/ bedata' = [bedata EXCEPT ![t] = {}]
    \/ \E w \in bedata[t], r \in Requests :
          bedata' = [bedata EXCEPT ![t] =
              {[w EXCEPT !.callbacks = w.callbacks \ {r}]}]

(* The queue changes in three ways only: it does not, a thread takes the   *)
(* front of its queue, or an actor with nobody to signal queues a block,   *)
(* for a peer within its limits or for a mod.                              *)
LEMMA QueueSteps ==
    ASSUME IInv, [Next]_vars
    PROVE  \/ UNCHANGED queue /\ UNCHANGED bedata
           \/ UNCHANGED queue /\ \E t \in Threads : Releases(t)
           \/ \E t \in Threads : TakeFront(t)
           \/ /\ UNCHANGED bedata
              /\ \E x \in Actors, b \in Blocks, peer \in Peers, gen \in BOOLEAN,
                    callbacks \in SUBSET Requests :
                 /\ EnqueueBlock(x, b, peer, gen, callbacks)
                 /\ to_signal[x] = Nobody
                 /\ peer = PEER_ID_INEXISTENT \/ WithinLimits(peer, gen)
<1>1. CASE UNCHANGED vars
  BY <1>1 DEF vars, queue
<1>2. CASE ServerStep
  <2>1. CASE \E p \in Peers, b \in Blocks, gen \in BOOLEAN : ServerEnqueue(p, b, gen)
    <3>1. PICK p \in Peers, b \in Blocks, gen \in BOOLEAN : ServerEnqueue(p, b, gen)
      BY <2>1
    <3>2. Server \in Actors /\ {} \in SUBSET Requests
      BY DEF Actors
    <3> QED BY <3>1, <3>2 DEF ServerEnqueue, Idle
  <2>2. CASE ServerLock \/ ServerUnlock \/ StartThreads \/ BeginStop \/ EndStop
    BY <2>2 DEF ServerLock, ServerUnlock, StartThreads, BeginStop, EndStop, queue
  <2>3. CASE \E t \in Threads : StopThread(t)
    BY <2>3 DEF StopThread, queue
  <2> QED BY <1>2, <2>1, <2>2, <2>3 DEF ServerStep
<1>3. ASSUME NEW x \in Actors, LuaStep(x)
      PROVE  \/ UNCHANGED queue /\ UNCHANGED bedata
             \/ /\ UNCHANGED bedata
                /\ \E b \in Blocks, peer \in Peers, gen \in BOOLEAN,
                      callbacks \in SUBSET Requests :
                   /\ EnqueueBlock(x, b, peer, gen, callbacks)
                   /\ to_signal[x] = Nobody
                   /\ peer = PEER_ID_INEXISTENT \/ WithinLimits(peer, gen)
  <2>1. CASE Signal(x)
    BY <2>1 DEF Signal, queue
  <2>2. CASE \E area \in SUBSET Blocks \ {{}} : EmergeArea(x, area)
    BY <2>2 DEF EmergeArea, queue
  <2>3. CASE \E b \in job[x].todo : EmergeAreaBlock(x, b)
    <3>1. job[x].todo \subseteq Blocks
      BY <1>3 DEF IInv, ControlTypeOK, Job
    <3>2. PICK b \in Blocks : EmergeAreaBlock(x, b)
      BY <2>3, <3>1
    <3> QED BY <3>2, RequestQueued DEF EmergeAreaBlock
  <2> QED BY <1>3, <2>1, <2>2, <2>3 DEF LuaStep
<1>4. ASSUME NEW t \in Threads, ThreadStep(t)
      PROVE  \/ UNCHANGED queue /\ UNCHANGED bedata
             \/ UNCHANGED queue /\ Releases(t)
             \/ TakeFront(t)
  <2>1. CASE PopBlock(t) \/ CancelBlock(t)
    BY <2>1 DEF PopBlock, CancelBlock
  <2>2. CASE \/ FindNone(t) \/ Wait(t) \/ WakeUp(t) \/ LeaveLoop(t) \/ FinishGen(t)
             \/ GenerationError(t) \/ EndLua(t) \/ BeginCancel(t) \/ EndCancel(t)
    BY <2>2 DEF FindNone, Wait, WakeUp, LeaveLoop, FinishGen, GenerationError,
                EndLua, BeginCancel, EndCancel, queue
  <2>3. CASE SkipOverLimit(t) \/ EndBlock(t)
    BY <2>3 DEF SkipOverLimit, EndBlock, queue, Releases
  <2>4. CASE GetBlockOrStartGen(t)
    BY <2>4 DEF GetBlockOrStartGen, queue, Releases
  <2>5. CASE BeginCallback(t)
    <3>1. PICK w \in bedata[t], r \in Requests :
             bedata' = [bedata EXCEPT ![t] = {[w EXCEPT !.callbacks = w.callbacks \ {r}]}]
      BY <2>5 DEF BeginCallback
    <3>2. UNCHANGED queue
      BY <2>5 DEF BeginCallback
    <3> QED BY <3>1, <3>2 DEF Releases
  <2> QED BY <1>4, <2>1, <2>2, <2>3, <2>4, <2>5 DEF ThreadStep
<1>5. QED
  BY <1>1, <1>2, <1>3, <1>4 DEF Next

LEMMA QueueInductive ==
    ASSUME IInv, [Next]_vars
    PROVE  QueueOK'
<1>1. QueueOK
  BY DEF IInv
<1>2. CASE UNCHANGED queue
  BY <1>1, <1>2, QueueUnchanged
<1>3. ASSUME NEW t \in Threads, TakeFront(t)
      PROVE  QueueOK'
  BY <1>1, <1>3, TakeFrontKeeps
<1>4. ASSUME NEW x \in Actors, NEW b \in Blocks, NEW peer \in Peers, NEW gen \in BOOLEAN,
             NEW callbacks \in SUBSET Requests, EnqueueBlock(x, b, peer, gen, callbacks)
      PROVE  QueueOK'
  BY <1>1, <1>4, MergeKeeps, AddNewKeeps DEF EnqueueBlock
<1>5. QED
  BY <1>2, <1>3, <1>4, QueueSteps

\* What a thread works on stays a block of the map with known callbacks.
LEMMA WorkInductive ==
    ASSUME IInv, [Next]_vars
    PROVE  bedata' \in [Threads -> AtMostOne(Work)]
<1>1. bedata \in [Threads -> AtMostOne(Work)]
  BY DEF IInv, ControlTypeOK
<1>2. CASE UNCHANGED bedata
  BY <1>1, <1>2
<1>3. ASSUME NEW t \in Threads, TakeFront(t)
      PROVE  bedata' \in [Threads -> AtMostOne(Work)]
  <2> DEFINE b == Head(m_block_queue[t])
  <2>1. PICK e \in BlockEmergeData : b \in Blocks /\ m_blocks_enqueued[b] = {e}
    BY <1>3, FrontEnqueued DEF IInv, TakeFront
  <2> DEFINE w == [pos |-> b, allow_gen |-> e.allow_gen, callbacks |-> e.callbacks]
  <2>2. w \in Work
    BY <2>1 DEF Work, BlockEmergeData
  <2>3. bedata' = [bedata EXCEPT ![t] = {w}]
    BY <1>3, <2>1 DEF TakeFront
  <2> QED BY <1>1, <2>2, <2>3 DEF AtMostOne
<1>4. ASSUME NEW t \in Threads, NEW w \in bedata[t], NEW r \in Requests,
             bedata' = [bedata EXCEPT ![t] = {[w EXCEPT !.callbacks = w.callbacks \ {r}]}]
      PROVE  bedata' \in [Threads -> AtMostOne(Work)]
  <2>1. w \in Work
    BY <1>1 DEF AtMostOne
  <2>2. [w EXCEPT !.callbacks = w.callbacks \ {r}] \in Work
    BY <2>1 DEF Work
  <2> QED BY <1>1, <1>4, <2>2 DEF AtMostOne
<1>5. ASSUME NEW t \in Threads, bedata' = [bedata EXCEPT ![t] = {}]
      PROVE  bedata' \in [Threads -> AtMostOne(Work)]
  BY <1>1, <1>5 DEF AtMostOne
<1>6. QED
  BY <1>2, <1>3, <1>4, <1>5, QueueSteps DEF Releases

LEMMA ControlInductive ==
    ASSUME IInv, [Next]_vars
    PROVE  ControlTypeOK' /\ JobsNamed'
<1> USE DEF ControlTypeOK, JobsNamed, Places
<1>1. ControlTypeOK /\ JobsNamed
  BY DEF IInv
<1>2. bedata' \in [Threads -> AtMostOne(Work)]
  BY WorkInductive
<1>3. CASE UNCHANGED vars
  BY <1>1, <1>3 DEF vars, lua
<1>4. CASE ServerStep
  <2>1. CASE ServerLock
    BY <1>1, <1>2, <2>1 DEF ServerLock, lua, Actors
  <2>2. CASE ServerUnlock
    BY <1>1, <1>2, <2>2 DEF ServerUnlock, lua
  <2>3. CASE StartThreads
    <3>1. pc' \in [Threads -> {"top", "exiting"}]
      BY <2>3 DEF StartThreads
    <3> QED BY <1>1, <1>2, <2>3, <3>1 DEF StartThreads, lua
  <2>4. CASE BeginStop
    BY <1>1, <1>2, <2>4 DEF BeginStop, lua
  <2>5. CASE EndStop
    BY <1>1, <1>2, <2>5 DEF EndStop, lua
  <2>6. ASSUME NEW p \in Peers, NEW b \in Blocks, NEW gen \in BOOLEAN,
               ServerEnqueue(p, b, gen)
        PROVE  ControlTypeOK' /\ JobsNamed'
    <3>1. to_signal' \in [Actors -> Threads \cup {Nobody}]
      BY <1>1, <2>6 DEF ServerEnqueue, EnqueueBlock, Merge, AddNew
    <3> QED BY <1>1, <1>2, <2>6, <3>1 DEF ServerEnqueue, lua
  <2>7. ASSUME NEW t \in Threads, StopThread(t)
        PROVE  ControlTypeOK' /\ JobsNamed'
    BY <1>1, <1>2, <2>7 DEF StopThread, lua
  <2> QED BY <1>4, <2>1, <2>2, <2>3, <2>4, <2>5, <2>6, <2>7 DEF ServerStep
<1>5. ASSUME NEW x \in Actors, LuaStep(x)
      PROVE  ControlTypeOK' /\ JobsNamed'
  <2>1. CASE Signal(x)
    BY <1>1, <1>2, <2>1 DEF Signal, Notified, lua
  <2>2. ASSUME NEW area \in SUBSET Blocks \ {{}}, EmergeArea(x, area)
        PROVE  ControlTypeOK' /\ JobsNamed'
    <3>1. requests + 1 \in Requests /\ requests' \in 0 .. MaxRequests
      BY <1>1, <2>2, EmergeAssumption DEF EmergeArea, Requests
    <3>2. Cardinality(area) \in Nat
      BY EmergeAssumption, FS_Subset, FS_CardinalityType
    <3>3. refcount' \in [Requests -> Int]
      BY <1>1, <2>2, <3>1, <3>2 DEF EmergeArea
    <3>4. [request |-> requests + 1, todo |-> area] \in Job
      BY <3>1 DEF Job
    <3>5. job' \in [Actors -> Job] /\ JobsNamed'
      BY <1>1, <2>2, <3>1, <3>4 DEF EmergeArea
    <3> QED BY <1>1, <1>2, <2>2, <3>1, <3>3, <3>5 DEF EmergeArea
  <2>3. ASSUME NEW b \in Blocks, EmergeAreaBlock(x, b)
        PROVE  ControlTypeOK' /\ JobsNamed'
    <3>1. to_signal' \in [Actors -> Threads \cup {Nobody}]
      BY <1>1, <2>3 DEF EmergeAreaBlock, EnqueueBlock, Merge, AddNew
    <3>2. job[x] \in Job /\ NoJob \in Job /\ NoJob.todo = {}
      BY <1>1 DEF NoJob, Job
    <3> DEFINE left == [request |-> job[x].request, todo |-> job[x].todo \ {b}]
    <3>3. /\ left \in Job
          /\ left.request = job[x].request
          /\ job[x].todo # {}
      BY <2>3, <3>2 DEF Job, EmergeAreaBlock
    <3>4. \/ job' = [job EXCEPT ![x] = NoJob]
          \/ job' = [job EXCEPT ![x] = left]
      <4>1. CASE job[x].todo = {b}
        BY <2>3, <4>1 DEF EmergeAreaBlock
      <4>2. CASE job[x].todo # {b}
        BY <2>3, <4>2 DEF EmergeAreaBlock
      <4> QED BY <4>1, <4>2
    <3> HIDE DEF left
    <3>5. job' \in [Actors -> Job] /\ JobsNamed'
      BY <1>1, <3>2, <3>3, <3>4
    <3> QED BY <1>1, <1>2, <2>3, <3>1, <3>5 DEF EmergeAreaBlock
  <2>4. job[x].todo \subseteq Blocks
    BY <1>1 DEF Job
  <2> QED BY <1>5, <2>1, <2>2, <2>3, <2>4 DEF LuaStep
<1>6. ASSUME NEW t \in Threads, ThreadStep(t)
      PROVE  ControlTypeOK' /\ JobsNamed'
  <2> USE <1>1, <1>2 DEF Goto, lua
  <2>0. t \in Actors
    BY DEF Actors
  <2>1. CASE PopBlock(t)
    BY <2>1 DEF PopBlock
  <2>2. CASE FindNone(t) \/ Wait(t) \/ LeaveLoop(t) \/ GenerationError(t)
    BY <2>2 DEF FindNone, Wait, LeaveLoop, GenerationError
  <2>3. CASE WakeUp(t)
    BY <2>3 DEF WakeUp
  <2>4. CASE SkipOverLimit(t)
    BY <2>4 DEF SkipOverLimit
  <2>5. CASE GetBlockOrStartGen(t)
    BY <2>5 DEF GetBlockOrStartGen
  <2>6. CASE FinishGen(t)
    BY <2>0, <2>6 DEF FinishGen
  <2>7. CASE BeginCallback(t)
    BY <2>0, <2>7 DEF BeginCallback
  <2>8. CASE EndLua(t)
    BY <2>8 DEF EndLua
  <2>9. CASE EndBlock(t)
    BY <2>9 DEF EndBlock
  <2>10. CASE BeginCancel(t)
    BY <2>10 DEF BeginCancel
  <2>11. CASE CancelBlock(t)
    BY <2>11 DEF CancelBlock
  <2>12. CASE EndCancel(t)
    BY <2>12 DEF EndCancel
  <2> QED BY <1>6, <2>1, <2>2, <2>3, <2>4, <2>5, <2>6, <2>7, <2>8, <2>9, <2>10,
             <2>11, <2>12 DEF ThreadStep
<1>7. QED
  BY <1>3, <1>4, <1>5, <1>6 DEF Next

(* The types, the jobs and the agreement of map, queues and counters hold  *)
(* in every state, whatever threads, clients and scripts do.               *)
THEOREM EmergeInvariant == Spec => []IInv
<1>1. Init => IInv
  BY InitInvariant
<1>2. IInv /\ [Next]_vars => IInv'
  BY QueueInductive, ControlInductive DEF IInv
<1>3. QED
  BY <1>1, <1>2, PTL DEF Spec

-----------------------------------------------------------------------------
(* Theorems *)

(* The variables keep their types: no counter of m_peer_queue_count ever   *)
(* goes below zero, and every queue holds blocks.                          *)
THEOREM EmergeTypeCorrect == Spec => []TypeOK
<1>1. IInv => TypeOK
  BY DEF IInv, QueueOK, QueueTypeOK, ControlTypeOK, TypeOK
<1>2. QED
  BY <1>1, EmergeInvariant, PTL

(* The map, the queues of the threads and the counters of the peers always *)
(* tell the same story.                                                    *)
THEOREM QueueConsistent == Spec => [](QueuesAgree /\ CountsExact)
<1>1. IInv => QueuesAgree /\ CountsExact
  BY DEF IInv, QueueOK
<1>2. QED
  BY <1>1, EmergeInvariant, PTL

(* The counters beside the queue are the numbers of blocks the peers have  *)
(* in it, so that the limits are about what is really queued.              *)
COROLLARY CountsHold == Spec => []CountsExact
BY QueueConsistent, PTL

\* The counter of a client grows only below the limit of the request.
LEMMA LimitsInductive ==
    ASSUME IInv, PeerLimits, [Next]_vars
    PROVE  PeerLimits'
<1> SUFFICES ASSUME NEW p \in Peers \ {PEER_ID_INEXISTENT}
             PROVE  \/ m_peer_queue_count'[p] <= qlimit_diskonly
                    \/ m_peer_queue_count'[p] <= qlimit_generate
  BY DEF PeerLimits
<1>1. /\ m_peer_queue_count \in [Peers -> Nat]
      /\ qlimit_diskonly \in Nat /\ qlimit_generate \in Nat
      /\ \/ m_peer_queue_count[p] <= qlimit_diskonly
         \/ m_peer_queue_count[p] <= qlimit_generate
  BY EmergeAssumption DEF IInv, QueueOK, QueueTypeOK, PeerLimits
<1>2. CASE UNCHANGED queue
  BY <1>1, <1>2 DEF queue
<1>3. ASSUME NEW t \in Threads, TakeFront(t)
      PROVE  m_peer_queue_count'[p] <= m_peer_queue_count[p] /\ m_peer_queue_count'[p] \in Int
  <2> DEFINE b == Head(m_block_queue[t])
             D == {e \in m_blocks_enqueued[b] : e.peer_requested = p}
  <2>1. PICK e \in BlockEmergeData : m_blocks_enqueued[b] = {e}
    BY <1>3, FrontEnqueued DEF IInv, TakeFront
  <2>2. D \in {{}, {e}}
    BY <2>1
  <2>3. Cardinality(D) \in Nat
    <3> HIDE DEF D
    <3>1. CASE D = {}
      BY <3>1, FS_EmptySet
    <3>2. CASE D = {e}
      BY <3>2, FS_Singleton
    <3> QED BY <2>2, <3>1, <3>2
  <2>4. m_peer_queue_count'[p] = m_peer_queue_count[p] - Cardinality(D)
    BY <1>3 DEF TakeFront
  <2> QED BY <1>1, <2>3, <2>4
<1>4. ASSUME NEW x \in Actors, NEW b \in Blocks, NEW peer \in Peers, NEW gen \in BOOLEAN,
             NEW callbacks \in SUBSET Requests, EnqueueBlock(x, b, peer, gen, callbacks),
             peer = PEER_ID_INEXISTENT \/ WithinLimits(peer, gen)
      PROVE  \/ m_peer_queue_count'[p] <= qlimit_diskonly
             \/ m_peer_queue_count'[p] <= qlimit_generate
  <2>1. CASE Merge(b, gen, callbacks)
    BY <1>1, <2>1 DEF Merge
  <2>2. CASE AddNew(x, b, peer, gen, callbacks) /\ p # peer
    BY <1>1, <2>2 DEF AddNew, CountUp
  <2>3. CASE AddNew(x, b, peer, gen, callbacks) /\ p = peer
    <3>1. m_peer_queue_count'[p] = m_peer_queue_count[p] + 1
      BY <1>1, <2>3 DEF AddNew, CountUp
    <3>2. \/ m_peer_queue_count[p] < qlimit_generate
          \/ m_peer_queue_count[p] < qlimit_diskonly
      BY <1>4, <2>3 DEF WithinLimits
    <3> QED BY <1>1, <3>1, <3>2
  <2> QED BY <1>4, <2>1, <2>2, <2>3 DEF EnqueueBlock
<1>5. CASE \E t \in Threads : TakeFront(t)
  <2>1. PICK t \in Threads : TakeFront(t)
    BY <1>5
  <2> QED BY <1>1, <1>3, <2>1
<1>6. QED
  BY <1>2, <1>4, <1>5, QueueSteps

(* No sequence of requests, merged or new, lets a client have more blocks  *)
(* in the queue than the larger of its limits.                             *)
THEOREM LimitsHold == Spec => []PeerLimits
<1>1. Init => PeerLimits
  BY EmergeAssumption DEF Init, PeerLimits
<1>2. IInv /\ PeerLimits /\ [Next]_vars => PeerLimits'
  BY LimitsInductive
<1>3. QED
  BY <1>1, <1>2, EmergeInvariant, PTL DEF Spec

-----------------------------------------------------------------------------
(* No thread sleeps on work *)

Asleep(t) == pc[t] \in {"idle", "waiting"} /\ ~ notified[t]
ToBeWoken(t) == \E x \in Actors : to_signal[x] = t

(* A thread falls asleep only on an empty queue, and who puts a block into *)
(* it, or asks it to stop, does so with a signal still to give.            *)
LEMMA WakeupInductive ==
    ASSUME IInv, NoLostWakeup, [Next]_vars
    PROVE  NoLostWakeup'
<1> DEFINE Safe(t) == \/ m_block_queue[t] = <<>> /\ ~ m_request_stop[t]
                      \/ ToBeWoken(t)
<1> SUFFICES ASSUME NEW t \in Threads, Asleep(t)'
             PROVE  Safe(t)'
  BY DEF NoLostWakeup, Asleep, ToBeWoken
<1>1. Asleep(t) => Safe(t)
  BY DEF NoLostWakeup, Asleep, ToBeWoken
<1>2. /\ pc \in [Threads -> Places] /\ notified \in [Threads -> BOOLEAN]
      /\ m_request_stop \in [Threads -> BOOLEAN]
      /\ to_signal \in [Actors -> Threads \cup {Nobody}]
      /\ m_block_queue \in [Threads -> Seq(Blocks)]
      /\ Nobody \notin Threads
  BY DEF IInv, ControlTypeOK, QueueOK, QueueTypeOK, Nobody, Threads
<1>3. CASE UNCHANGED vars
  BY <1>1, <1>3 DEF vars, queue, Asleep, ToBeWoken
\* A block that is queued wakes the thread it is queued for.
<1>4. ASSUME NEW x \in Actors, NEW b \in Blocks, NEW peer, NEW gen, NEW callbacks,
             EnqueueBlock(x, b, peer, gen, callbacks), to_signal[x] = Nobody,
             UNCHANGED << pc, notified, m_request_stop >>
      PROVE  Safe(t)'
  <2>1. Asleep(t)
    BY <1>4 DEF Asleep
  <2>2. CASE Merge(b, gen, callbacks)
    BY <1>1, <1>4, <2>1, <2>2 DEF Merge, ToBeWoken
  <2>3. ASSUME NEW u \in Threads,
               m_block_queue' = [m_block_queue EXCEPT ![u] = Append(@, b)],
               to_signal' = [to_signal EXCEPT ![x] = u]
        PROVE  Safe(t)'
    <3>1. CASE t = u
      BY <1>2, <2>3, <3>1 DEF ToBeWoken
    <3>2. CASE t # u
      <4>1. m_block_queue'[t] = m_block_queue[t]
        BY <1>2, <2>3, <3>2
      <4>2. ToBeWoken(t) => ToBeWoken(t)'
        BY <1>2, <1>4, <2>3 DEF ToBeWoken
      <4> QED BY <1>1, <1>4, <2>1, <4>1, <4>2
    <3> QED BY <3>1, <3>2
  <2>4. CASE AddNew(x, b, peer, gen, callbacks)
    BY <2>3, <2>4 DEF AddNew
  <2> QED BY <1>4, <2>2, <2>4 DEF EnqueueBlock
<1>5. CASE ServerStep
  <2>1. CASE ServerLock \/ ServerUnlock \/ BeginStop \/ EndStop
    BY <1>1, <2>1 DEF ServerLock, ServerUnlock, BeginStop, EndStop, queue, Asleep, ToBeWoken
  <2>2. CASE StartThreads
    BY <2>2 DEF StartThreads, Asleep
  <2>3. ASSUME NEW p \in Peers, NEW b \in Blocks, NEW gen \in BOOLEAN,
               ServerEnqueue(p, b, gen)
        PROVE  Safe(t)'
    <3>1. Server \in Actors
      BY DEF Actors
    <3> QED BY <1>4, <2>3, <3>1 DEF ServerEnqueue, Idle
  <2>4. ASSUME NEW u \in Threads, StopThread(u)
        PROVE  Safe(t)'
    <3>1. Server \in Actors /\ to_signal' = [to_signal EXCEPT ![Server] = u]
      BY <2>4 DEF StopThread, Actors
    <3>2. CASE t = u
      BY <1>2, <3>1, <3>2 DEF ToBeWoken
    <3>3. CASE t # u
      <4>1. Asleep(t) /\ m_request_stop'[t] = m_request_stop[t] /\ UNCHANGED m_block_queue
        BY <1>2, <2>4, <3>3 DEF StopThread, queue, Asleep
      <4>2. ToBeWoken(t) => ToBeWoken(t)'
        BY <1>2, <2>4, <3>1 DEF StopThread, ToBeWoken
      <4> QED BY <1>1, <4>1, <4>2
    <3> QED BY <3>2, <3>3
  <2> QED BY <1>5, <2>1, <2>2, <2>3, <2>4 DEF ServerStep
<1>6. ASSUME NEW x \in Actors, LuaStep(x)
      PROVE  Safe(t)'
  <2>1. CASE Signal(x)
    <3>1. to_signal[x] \in Threads /\ notified' = [notified EXCEPT ![to_signal[x]] = TRUE]
      BY <1>2, <2>1 DEF Signal, Notified
    <3>2. to_signal[x] # t
      BY <1>2, <3>1 DEF Asleep
    <3>3. Asleep(t)
      BY <1>2, <2>1, <3>1, <3>2 DEF Signal, Asleep
    <3>4. ToBeWoken(t) => ToBeWoken(t)'
      BY <1>2, <2>1, <3>2 DEF Signal, ToBeWoken
    <3> QED BY <1>1, <2>1, <3>3, <3>4 DEF Signal, queue
  <2>2. ASSUME NEW area, EmergeArea(x, area)
        PROVE  Safe(t)'
    BY <1>1, <2>2 DEF EmergeArea, queue, Asleep, ToBeWoken
  <2>3. ASSUME NEW b \in Blocks, EmergeAreaBlock(x, b)
        PROVE  Safe(t)'
    BY <1>4, <2>3 DEF EmergeAreaBlock
  <2>4. job[x].todo \subseteq Blocks
    BY DEF IInv, ControlTypeOK, Job
  <2>5. \/ Signal(x)
        \/ \E area : EmergeArea(x, area)
        \/ \E b \in Blocks : EmergeAreaBlock(x, b)
    BY <1>6, <2>4 DEF LuaStep
  <2> QED BY <2>1, <2>2, <2>3, <2>5
<1>7. ASSUME NEW u \in Threads, ThreadStep(u)
      PROVE  Safe(t)'
  <2>1. to_signal' = to_signal /\ m_request_stop' = m_request_stop
    BY <1>7 DEF ThreadStep, PopBlock, FindNone, Wait, WakeUp, LeaveLoop, SkipOverLimit,
                GetBlockOrStartGen, FinishGen, GenerationError, BeginCallback, EndLua,
                EndBlock, BeginCancel, CancelBlock, EndCancel
  <2>2. CASE FindNone(u)
    <3>1. CASE t = u
      BY <2>1, <2>2, <3>1 DEF FindNone, queue, Asleep
    <3>2. CASE t # u
      BY <1>1, <1>2, <2>1, <2>2, <3>2 DEF FindNone, Goto, queue, Asleep, ToBeWoken
    <3> QED BY <3>1, <3>2
  <2>3. CASE Wait(u)
    BY <1>1, <1>2, <2>1, <2>3 DEF Wait, Goto, queue, Asleep, ToBeWoken
  <2>4. CASE WakeUp(u)
    BY <1>1, <1>2, <2>1, <2>4 DEF WakeUp, Goto, queue, Asleep, ToBeWoken
  \* Every other step leads away from the event; a thread that takes the
  \* front of its queue is not asleep.
  <2>5. ASSUME pc'[u] \notin {"idle", "waiting"}, UNCHANGED notified,
               \A v \in Threads \ {u} : pc'[v] = pc[v] /\ m_block_queue'[v] = m_block_queue[v]
        PROVE  Safe(t)'
    BY <1>1, <2>1, <2>5 DEF Asleep, ToBeWoken
  <2>6. CASE PopBlock(u) \/ CancelBlock(u)
    BY <1>2, <2>5, <2>6 DEF PopBlock, CancelBlock, TakeFront, Goto
  <2>7. CASE LeaveLoop(u) \/ SkipOverLimit(u) \/ FinishGen(u) \/ GenerationError(u)
    BY <1>2, <2>5, <2>7 DEF LeaveLoop, SkipOverLimit, FinishGen, GenerationError, Goto, queue
  <2>8. CASE BeginCallback(u) \/ EndLua(u) \/ EndBlock(u) \/ BeginCancel(u) \/ EndCancel(u)
    BY <1>2, <2>5, <2>8
       DEF BeginCallback, EndLua, EndBlock, BeginCancel, EndCancel, Goto, queue
  <2>9. CASE GetBlockOrStartGen(u)
    BY <1>2, <2>5, <2>9 DEF GetBlockOrStartGen, Goto, queue
  <2> QED BY <1>7, <2>2, <2>3, <2>4, <2>6, <2>7, <2>8, <2>9 DEF ThreadStep
<1>8. \/ UNCHANGED vars
      \/ ServerStep
      \/ \E x \in Actors : LuaStep(x)
      \/ \E u \in Threads : ThreadStep(u)
  BY DEF Next
<1> HIDE DEF Safe
<1>9. QED
  BY <1>3, <1>5, <1>6, <1>7, <1>8

(* A thread that found its queue empty and waits is never left with a      *)
(* block queued, or a request to stop, that nobody will wake it for.       *)
THEOREM WakeupsKept == Spec => []NoLostWakeup
<1>1. Init => NoLostWakeup
  BY DEF Init, NoLostWakeup
<1>2. IInv /\ NoLostWakeup /\ [Next]_vars => NoLostWakeup'
  BY WakeupInductive
<1>3. QED
  BY <1>1, <1>2, EmergeInvariant, PTL DEF Spec

-----------------------------------------------------------------------------
(* The callbacks *)

\* The three places where a callback of a request is outstanding: in the call of
\* emerge_area, in the queue, and with a thread.
Asked(jobs, r) == {xb \in Actors \X Blocks :
                      jobs[xb[1]].request = r /\ xb[2] \in jobs[xb[1]].todo}
Waiting(enqueued, r) == {b \in Blocks : \E e \in enqueued[b] : r \in e.callbacks}
InHands(work, r) == {t \in Threads : \E w \in work[t] : r \in w.callbacks}
Sum(jobs, enqueued, work, r) ==
    Cardinality(Asked(jobs, r)) + Cardinality(Waiting(enqueued, r))
    + Cardinality(InHands(work, r))

\* No block is dropped with its callbacks.
NothingDropped == OverLimit = {} /\ ~ CanFail

Balanced == \A r \in Requests :
                /\ Outstanding(r) <= refcount[r]
                /\ NothingDropped => Outstanding(r) = refcount[r]

\* Callbacks are of requests that were made.
CallsNamed ==
    /\ \A x \in Actors : job[x].todo # {} => job[x].request \in 1 .. requests
    /\ \A b \in Blocks : \A e \in m_blocks_enqueued[b] : e.callbacks \subseteq 1 .. requests
    /\ \A t \in Threads : \A w \in bedata[t] : w.callbacks \subseteq 1 .. requests

\* A request is one actor's, and its callback is in no queue for a block that
\* is still to be queued.
CallsApart ==
    /\ \A x, y \in Actors :
          job[x].todo # {} /\ job[y].todo # {} /\ job[x].request = job[y].request => x = y
    /\ \A x \in Actors : \A b \in job[x].todo : \A e \in m_blocks_enqueued[b] :
          job[x].request \notin e.callbacks

\* A thread that takes a block has no other.
HandsFree ==
    \A t \in Threads :
        pc[t] \in {"off", "top", "idle", "waiting", "exiting", "cancel", "done"}
            => bedata[t] = {}

CallsInv == CallsNamed /\ CallsApart /\ HandsFree /\ Balanced

LEMMA OutstandingIs ==
    ASSUME NEW r
    PROVE  /\ Outstanding(r) = Sum(job, m_blocks_enqueued, bedata, r)
           /\ Outstanding(r)' = Sum(job', m_blocks_enqueued', bedata', r)
BY DEF Outstanding, Sum, Asked, Waiting, InHands

\* Each of them is a finite set.
LEMMA CallsFinite ==
    ASSUME NEW jobs, NEW enqueued, NEW work, NEW r
    PROVE  /\ IsFiniteSet(Asked(jobs, r)) /\ Cardinality(Asked(jobs, r)) \in Nat
           /\ IsFiniteSet(Waiting(enqueued, r)) /\ Cardinality(Waiting(enqueued, r)) \in Nat
           /\ IsFiniteSet(InHands(work, r)) /\ Cardinality(InHands(work, r)) \in Nat
<1>1. IsFiniteSet(Threads)
  BY EmergeAssumption, FS_Interval DEF Threads
<1>2. IsFiniteSet(Actors)
  <2>1. Actors = Threads \cup {Server}
    BY DEF Actors
  <2>2. QED
    BY <1>1, <2>1, FS_AddElement
<1>3. IsFiniteSet(Blocks)
  BY EmergeAssumption
<1>4. IsFiniteSet(Actors \X Blocks)
  BY <1>2, <1>3, FS_Product
<1>5. Asked(jobs, r) \in SUBSET (Actors \X Blocks) /\ Waiting(enqueued, r) \in SUBSET Blocks
      /\ InHands(work, r) \in SUBSET Threads
  BY DEF Asked, Waiting, InHands
<1>6. IsFiniteSet(Asked(jobs, r)) /\ IsFiniteSet(Waiting(enqueued, r)) /\ IsFiniteSet(InHands(work, r))
  BY <1>1, <1>3, <1>4, <1>5, FS_Subset
<1>7. QED
  BY <1>6, FS_CardinalityType

-----------------------------------------------------------------------------
(* What steps do to callbacks *)

\* core.emerge_area is called.
Calls(x, area) ==
    /\ job[x].todo = {} /\ area \subseteq Blocks
    /\ requests < MaxRequests /\ requests' = requests + 1
    /\ refcount' = [refcount EXCEPT ![requests + 1] = Cardinality(area)]
    /\ job' = [job EXCEPT ![x] = [request |-> requests + 1, todo |-> area]]
    /\ UNCHANGED << m_blocks_enqueued, bedata >>

\* A block is queued, for an emerge_area or without callbacks.
Adds(b, callbacks) ==
    /\ \/ \E e \in m_blocks_enqueued[b] : \E f : /\ f.callbacks = e.callbacks \cup callbacks
                                                /\ m_blocks_enqueued[b] = {e}
                                                /\ m_blocks_enqueued' =
                                                       [m_blocks_enqueued EXCEPT ![b] = {f}]
       \/ /\ m_blocks_enqueued[b] = {}
          /\ \E f : /\ f.callbacks = callbacks
                    /\ m_blocks_enqueued' = [m_blocks_enqueued EXCEPT ![b] = {f}]
    /\ UNCHANGED << bedata, refcount, requests >>

Queues(x, b) ==
    /\ b \in job[x].todo
    /\ Adds(b, {job[x].request})
    /\ job' = [job EXCEPT ![x] = IF @.todo = {b} THEN NoJob
                                 ELSE [request |-> @.request, todo |-> @.todo \ {b}]]

\* A thread takes a block, calls one callback, or is done with its block.
Takes(t) ==
    /\ TakeFront(t) /\ bedata[t] = {}
    /\ UNCHANGED << job, refcount, requests >>
CallsBack(t, r) ==
    /\ \E w \in bedata[t] : /\ r \in w.callbacks
                            /\ bedata' = [bedata EXCEPT ![t] =
                                             {[w EXCEPT !.callbacks = @ \ {r}]}]
    /\ refcount' = [refcount EXCEPT ![r] = @ - 1]
    /\ UNCHANGED << m_blocks_enqueued, job, requests >>
Leaves(t) ==
    /\ bedata' = [bedata EXCEPT ![t] = {}]
    /\ NothingDropped => \A w \in bedata[t] : w.callbacks = {}
    /\ UNCHANGED << m_blocks_enqueued, job, refcount, requests >>

CallStep ==
    \/ UNCHANGED << m_blocks_enqueued, bedata, job, refcount, requests >>
    \/ \E x \in Actors, area \in SUBSET Blocks : Calls(x, area)
    \/ \E b \in Blocks : Adds(b, {}) /\ UNCHANGED job
    \/ \E x \in Actors, b \in Blocks : Queues(x, b)
    \/ \E t \in Threads : Takes(t) \/ Leaves(t) \/ \E r \in Requests : CallsBack(t, r)

LEMMA QueueAdds ==
    ASSUME IInv, NEW x \in Actors, NEW b \in Blocks, NEW peer, NEW gen, NEW callbacks,
           EnqueueBlock(x, b, peer, gen, callbacks), UNCHANGED << bedata, refcount, requests >>
    PROVE  Adds(b, callbacks)
<1>1. CASE Merge(b, gen, callbacks)
  <2>1. PICK e \in BlockEmergeData : m_blocks_enqueued[b] = {e}
    BY <1>1, OneOrNone DEF Merge, IInv, QueueOK, QueueTypeOK
  <2> DEFINE f == Merged(e, gen, callbacks)
  <2>2. f.callbacks = e.callbacks \cup callbacks
    BY DEF Merged, BlockEmergeData
  <2>3. m_blocks_enqueued' = [m_blocks_enqueued EXCEPT ![b] = {f}]
    BY <1>1, <2>1 DEF Merge
  <2> HIDE DEF f
  <2>4. QED
    BY <2>1, <2>2, <2>3 DEF Adds
<1>2. CASE AddNew(x, b, peer, gen, callbacks)
  <2> DEFINE f == [peer_requested |-> peer, allow_gen |-> gen, callbacks |-> callbacks]
  <2>1. f.callbacks = callbacks /\ m_blocks_enqueued[b] = {}
        /\ m_blocks_enqueued' = [m_blocks_enqueued EXCEPT ![b] = {f}]
    BY <1>2 DEF AddNew
  <2> HIDE DEF f
  <2>2. QED
    BY <2>1 DEF Adds
<1>3. QED
  BY <1>1, <1>2 DEF EnqueueBlock

\* Every step is one of these, as far as callbacks go.
LEMMA CallSteps ==
    ASSUME IInv, CallsInv, [Next]_vars
    PROVE  CallStep
<1>1. CASE UNCHANGED vars
  BY <1>1 DEF vars, queue, lua, CallStep
<1>2. CASE ServerStep
  <2>1. CASE \E p \in Peers, b \in Blocks, gen \in BOOLEAN : ServerEnqueue(p, b, gen)
    <3>1. PICK p \in Peers, b \in Blocks, gen \in BOOLEAN : ServerEnqueue(p, b, gen)
      BY <2>1
    <3>2. Server \in Actors
      BY DEF Actors
    <3>3. Adds(b, {}) /\ UNCHANGED job
      BY <3>1, <3>2, QueueAdds DEF ServerEnqueue, lua
    <3> QED BY <3>3 DEF CallStep
  <2>2. CASE \/ ServerLock \/ ServerUnlock \/ StartThreads \/ BeginStop \/ EndStop
             \/ \E t \in Threads : StopThread(t)
    BY <2>2 DEF ServerLock, ServerUnlock, StartThreads, BeginStop, EndStop, StopThread,
                queue, lua, CallStep
  <2> QED BY <1>2, <2>1, <2>2 DEF ServerStep
<1>3. ASSUME NEW x \in Actors, LuaStep(x) PROVE CallStep
  <2>1. CASE Signal(x)
    BY <2>1 DEF Signal, queue, lua, CallStep
  <2>2. CASE \E area \in SUBSET Blocks \ {{}} : EmergeArea(x, area)
    BY <2>2 DEF EmergeArea, Idle, Calls, queue, CallStep
  <2>3. CASE \E b \in job[x].todo : EmergeAreaBlock(x, b)
    <3>1. job[x].todo \subseteq Blocks
      BY DEF IInv, ControlTypeOK, Job
    <3>2. PICK b \in Blocks : EmergeAreaBlock(x, b)
      BY <2>3, <3>1
    <3>3. Adds(b, {job[x].request})
      BY <3>2, QueueAdds DEF EmergeAreaBlock
    <3>4. Queues(x, b)
      BY <3>2, <3>3 DEF EmergeAreaBlock, Queues
    <3> QED BY <3>4 DEF CallStep
  <2> QED BY <1>3, <2>1, <2>2, <2>3 DEF LuaStep
<1>4. ASSUME NEW t \in Threads, ThreadStep(t) PROVE CallStep
  <2>1. CASE PopBlock(t) \/ CancelBlock(t)
    <3>1. Takes(t)
      BY <2>1 DEF PopBlock, CancelBlock, Takes, CallsInv, HandsFree, lua
    <3> QED BY <3>1 DEF CallStep
  <2>2. CASE \/ FindNone(t) \/ Wait(t) \/ WakeUp(t) \/ LeaveLoop(t) \/ FinishGen(t)
             \/ GenerationError(t) \/ EndLua(t) \/ BeginCancel(t) \/ EndCancel(t)
    BY <2>2 DEF FindNone, Wait, WakeUp, LeaveLoop, FinishGen, GenerationError,
                EndLua, BeginCancel, EndCancel, queue, lua, CallStep
  <2>3. CASE SkipOverLimit(t) \/ EndBlock(t)
    <3>1. Leaves(t)
      BY <2>3 DEF SkipOverLimit, EndBlock, Leaves, NothingDropped, queue, lua
    <3> QED BY <3>1 DEF CallStep
  <2>4. CASE GetBlockOrStartGen(t)
    <3>1. Leaves(t) \/ UNCHANGED << m_blocks_enqueued, bedata, job, refcount, requests >>
      BY <2>4 DEF GetBlockOrStartGen, Leaves, NothingDropped, queue, lua
    <3> QED BY <3>1 DEF CallStep
  <2>5. CASE BeginCallback(t)
    <3>1. PICK r \in Requests : CallsBack(t, r)
      BY <2>5 DEF BeginCallback, CallsBack, queue
    <3> QED BY <3>1 DEF CallStep
  <2> QED BY <1>4, <2>1, <2>2, <2>3, <2>4, <2>5 DEF ThreadStep
<1>5. QED
  BY <1>1, <1>2, <1>3, <1>4 DEF Next
-----------------------------------------------------------------------------
(* What they do to the invariant *)

CallsTypeOK ==
    /\ m_blocks_enqueued \in [Blocks -> AtMostOne(BlockEmergeData)]
    /\ bedata \in [Threads -> AtMostOne(Work)] /\ job \in [Actors -> Job]
    /\ refcount \in [Requests -> Int] /\ requests \in 0 .. MaxRequests

CallsOK == CallsTypeOK /\ CallsNamed /\ CallsApart /\ Balanced

\* What is called, waits or is at work is a request that was made.
LEMMA NewRequest ==
    ASSUME CallsNamed, NEW r, r \notin 1 .. requests
    PROVE  Asked(job, r) = {} /\ Waiting(m_blocks_enqueued, r) = {} /\ InHands(bedata, r) = {}
BY DEF CallsNamed, Asked, Waiting, InHands

LEMMA CallsKeeps ==
    ASSUME CallsOK, NEW x \in Actors, NEW area \in SUBSET Blocks, Calls(x, area)
    PROVE  (CallsNamed /\ CallsApart /\ Balanced)'
<1> DEFINE new == requests + 1
<1>1. /\ requests \in Nat /\ requests' = new /\ new \in Requests /\ new \notin 1 .. requests
      /\ \A r \in 1 .. requests : r \in 1 .. new
      /\ new \in 1 .. new
  BY EmergeAssumption DEF CallsOK, CallsTypeOK, Calls, Requests
<1>2. /\ \A y \in Actors : y # x => job'[y] = job[y]
      /\ job'[x] = [request |-> new, todo |-> area] /\ job[x].todo = {}
      /\ UNCHANGED << m_blocks_enqueued, bedata >>
  BY DEF Calls, CallsOK, CallsTypeOK
<1>3. refcount'[new] = Cardinality(area) /\ \A r \in Requests : r # new => refcount'[r] = refcount[r]
  BY <1>1 DEF Calls, CallsOK, CallsTypeOK
<1> HIDE DEF new
<1>4. CallsNamed'
  BY <1>1, <1>2 DEF CallsOK, CallsNamed
<1>5. CallsApart'
  <2>1. \A y \in Actors : y # x /\ job[y].todo # {} => job[y].request # new
    BY <1>1 DEF CallsOK, CallsNamed
  <2>2. \A b \in Blocks : \A e \in m_blocks_enqueued[b] : new \notin e.callbacks
    BY <1>1 DEF CallsOK, CallsNamed
  <2>3. ASSUME NEW y \in Actors, NEW z \in Actors, job'[y].todo # {}, job'[z].todo # {},
               job'[y].request = job'[z].request
        PROVE  y = z
    <3>1. CASE y = x \/ z = x
      BY <1>2, <2>1, <2>3, <3>1
    <3>2. CASE y # x /\ z # x
      BY <1>2, <2>3, <3>2 DEF CallsOK, CallsApart
    <3>3. QED
      BY <3>1, <3>2
  <2>4. \A y \in Actors : \A b \in job'[y].todo : \A e \in m_blocks_enqueued[b] :
           job'[y].request \notin e.callbacks
    BY <1>2, <2>2 DEF CallsOK, CallsApart
  <2>5. QED
    BY <1>2, <2>3, <2>4 DEF CallsApart
<1>6. ASSUME NEW r \in Requests
      PROVE  (Outstanding(r) <= refcount[r] /\ (NothingDropped => Outstanding(r) = refcount[r]))'
  <2> DEFINE A == Asked(job, r)
             A2 == Asked(job', r)
             W == Waiting(m_blocks_enqueued, r)
             H == InHands(bedata, r)
  <2>1. /\ Outstanding(r) = Cardinality(A) + Cardinality(W) + Cardinality(H)
        /\ Outstanding(r)' = Cardinality(A2) + Cardinality(W) + Cardinality(H)
    BY <1>2, OutstandingIs DEF Sum
  <2>2. CASE r # new
    <3>1. A2 = A
      BY <1>2, <2>2 DEF Asked
    <3>2. QED
      BY <1>3, <2>1, <2>2, <3>1 DEF CallsOK, Balanced, NothingDropped
  <2>3. CASE r = new
    <3>1. A = {} /\ W = {} /\ H = {}
      BY <1>1, <2>3, NewRequest DEF CallsOK
    <3>2. A2 = {x} \X area
      BY <1>2, <2>3, <3>1 DEF Asked
    <3>3. IsFiniteSet(area) /\ Cardinality(area) \in Nat
      BY EmergeAssumption, FS_Subset, FS_CardinalityType
    <3>4. Cardinality(A2) = Cardinality({x}) * Cardinality(area) /\ Cardinality({x}) = 1
      BY <3>2, <3>3, FS_Singleton, FS_Product
    <3>5. Cardinality(W) = 0 /\ Cardinality(H) = 0
      BY <3>1, FS_EmptySet
    <3> HIDE DEF A, A2, W, H
    <3>6. Outstanding(r)' = Cardinality(area)
      BY <2>1, <3>3, <3>4, <3>5
    <3>7. refcount'[r] = Cardinality(area)
      BY <1>3, <2>3
    <3>8. QED
      BY <3>3, <3>6, <3>7
  <2>4. QED
    BY <2>2, <2>3
<1>7. QED
  BY <1>4, <1>5, <1>6 DEF Balanced, NothingDropped

\* A block is queued: its callbacks and no others wait with it.
LEMMA AddedIs ==
    ASSUME CallsTypeOK, NEW b \in Blocks, NEW callbacks, Adds(b, callbacks)
    PROVE  /\ \A c \in Blocks : c # b => m_blocks_enqueued'[c] = m_blocks_enqueued[c]
           /\ \A r : Waiting(m_blocks_enqueued', r) =
                 Waiting(m_blocks_enqueued, r) \cup (IF r \in callbacks THEN {b} ELSE {})
           /\ \A f \in m_blocks_enqueued'[b] : \A r \in f.callbacks :
                 r \in callbacks \/ \E e \in m_blocks_enqueued[b] : r \in e.callbacks
           /\ UNCHANGED << bedata, refcount, requests >>
<1>1. CASE \E e \in m_blocks_enqueued[b] : \E f :
              /\ f.callbacks = e.callbacks \cup callbacks
              /\ m_blocks_enqueued[b] = {e}
              /\ m_blocks_enqueued' = [m_blocks_enqueued EXCEPT ![b] = {f}]
  <2>1. PICK e, f : /\ f.callbacks = e.callbacks \cup callbacks
                    /\ m_blocks_enqueued[b] = {e}
                    /\ m_blocks_enqueued' = [m_blocks_enqueued EXCEPT ![b] = {f}]
    BY <1>1
  <2>2. m_blocks_enqueued'[b] = {f}
        /\ \A c \in Blocks : c # b => m_blocks_enqueued'[c] = m_blocks_enqueued[c]
    BY <2>1 DEF CallsTypeOK
  <2>3. QED
    BY <2>1, <2>2 DEF Waiting, Adds
<1>2. CASE /\ m_blocks_enqueued[b] = {}
           /\ \E f : /\ f.callbacks = callbacks
                     /\ m_blocks_enqueued' = [m_blocks_enqueued EXCEPT ![b] = {f}]
  <2>1. PICK f : /\ f.callbacks = callbacks
                 /\ m_blocks_enqueued' = [m_blocks_enqueued EXCEPT ![b] = {f}]
    BY <1>2
  <2>2. m_blocks_enqueued'[b] = {f}
        /\ \A c \in Blocks : c # b => m_blocks_enqueued'[c] = m_blocks_enqueued[c]
    BY <2>1 DEF CallsTypeOK
  <2>3. QED
    BY <1>2, <2>1, <2>2 DEF Waiting, Adds
<1>3. QED
  BY <1>1, <1>2 DEF Adds

LEMMA AddsKeeps ==
    ASSUME CallsOK, NEW b \in Blocks, Adds(b, {}), UNCHANGED job
    PROVE  (CallsNamed /\ CallsApart /\ Balanced)'
<1>1. /\ \A c \in Blocks : c # b => m_blocks_enqueued'[c] = m_blocks_enqueued[c]
      /\ \A r : Waiting(m_blocks_enqueued', r) =
            Waiting(m_blocks_enqueued, r) \cup (IF r \in {} THEN {b} ELSE {})
      /\ \A f \in m_blocks_enqueued'[b] : \A r \in f.callbacks :
            r \in {} \/ \E e \in m_blocks_enqueued[b] : r \in e.callbacks
      /\ UNCHANGED << bedata, refcount, requests >>
  BY AddedIs DEF CallsOK
<1>2. \A r : Waiting(m_blocks_enqueued', r) = Waiting(m_blocks_enqueued, r)
  BY <1>1
<1>3. \A r : Outstanding(r)' = Outstanding(r)
  BY <1>1, <1>2, OutstandingIs DEF Sum
<1>4. CallsNamed'
  BY <1>1 DEF CallsOK, CallsNamed
<1>5. CallsApart'
  <2>1. \A x \in Actors : job[x].todo \subseteq Blocks
    BY DEF CallsOK, CallsTypeOK, Job
  <2>2. QED
    BY <1>1, <2>1 DEF CallsOK, CallsApart
<1>6. QED
  BY <1>1, <1>3, <1>4, <1>5 DEF CallsOK, Balanced, NothingDropped

LEMMA QueuesKeeps ==
    ASSUME CallsOK, NEW x \in Actors, NEW b \in Blocks, Queues(x, b)
    PROVE  (CallsNamed /\ CallsApart /\ Balanced)'
<1> DEFINE mine == job[x].request
           callbacks == {job[x].request}
<1>1. /\ \A c \in Blocks : c # b => m_blocks_enqueued'[c] = m_blocks_enqueued[c]
      /\ \A r : Waiting(m_blocks_enqueued', r) =
            Waiting(m_blocks_enqueued, r) \cup (IF r \in callbacks THEN {b} ELSE {})
      /\ \A f \in m_blocks_enqueued'[b] : \A r \in f.callbacks :
            r \in callbacks \/ \E e \in m_blocks_enqueued[b] : r \in e.callbacks
      /\ UNCHANGED << bedata, refcount, requests >>
  <2>1. Adds(b, callbacks) /\ CallsTypeOK
    BY DEF Queues, CallsOK
  <2> HIDE DEF callbacks
  <2>2. QED
    BY <2>1, AddedIs
<1>2. /\ b \in job[x].todo /\ mine \in 1 .. requests
      /\ \A y \in Actors : y # x => job'[y] = job[y]
      /\ job'[x].todo = job[x].todo \ {b}
      /\ job'[x].todo # {} => job'[x].request = mine
      /\ \A y \in Actors : job[y].todo \subseteq Blocks
  <2>1. b \in job[x].todo /\ mine \in 1 .. requests
    BY DEF Queues, CallsOK, CallsNamed
  <2>2. job' = [job EXCEPT ![x] = IF job[x].todo = {b} THEN NoJob
                                  ELSE [request |-> job[x].request, todo |-> job[x].todo \ {b}]]
    BY DEF Queues
  <2>3. job'[x] = (IF job[x].todo = {b} THEN NoJob
                   ELSE [request |-> job[x].request, todo |-> job[x].todo \ {b}])
        /\ \A y \in Actors : y # x => job'[y] = job[y]
    BY <2>2 DEF CallsOK, CallsTypeOK
  <2>4. \A y \in Actors : job[y].todo \subseteq Blocks
    BY DEF CallsOK, CallsTypeOK, Job
  <2>5. CASE job[x].todo = {b}
    BY <2>1, <2>3, <2>4, <2>5 DEF NoJob
  <2>6. CASE job[x].todo # {b}
    BY <2>1, <2>3, <2>4, <2>6
  <2>7. QED
    BY <2>5, <2>6
<1> HIDE DEF mine
<1>3. CallsNamed'
  BY <1>1, <1>2 DEF CallsOK, CallsNamed, mine
\* Nobody else has this request, and nobody has asked for the block with it.
<1>4. \A y \in Actors : y # x /\ job[y].todo # {} => job[y].request # mine
  BY <1>2 DEF CallsOK, CallsApart, mine
<1>5. \A e \in m_blocks_enqueued[b] : mine \notin e.callbacks
  BY <1>2 DEF CallsOK, CallsApart, mine
<1>6. CallsApart'
  <2>1. ASSUME NEW y \in Actors, NEW z \in Actors, job'[y].todo # {}, job'[z].todo # {},
               job'[y].request = job'[z].request
        PROVE  y = z
    <3>1. ASSUME NEW u \in Actors, job'[u].todo # {}
          PROVE  job[u].todo # {} /\ job'[u].request = job[u].request
      <4>1. CASE u = x
        BY <1>2, <3>1, <4>1 DEF mine
      <4>2. CASE u # x
        BY <1>2, <3>1, <4>2
      <4>3. QED
        BY <4>1, <4>2
    <3>2. job[y].todo # {} /\ job[z].todo # {} /\ job[y].request = job[z].request
      BY <2>1, <3>1
    <3>3. QED
      BY <3>2 DEF CallsOK, CallsApart
  <2>2. ASSUME NEW y \in Actors, NEW c \in job'[y].todo, NEW f \in m_blocks_enqueued'[c]
        PROVE  job'[y].request \notin f.callbacks
    <3>1. /\ c \in job[y].todo /\ c \in Blocks /\ job'[y].request = job[y].request
          /\ y = x => c # b
      BY <1>2 DEF mine
    <3>2. CASE c # b
      BY <1>1, <3>1, <3>2 DEF CallsOK, CallsApart
    <3>3. CASE c = b
      <4>1. y # x /\ job[y].request # mine
        BY <1>4, <3>1, <3>3
      <4>2. \A e \in m_blocks_enqueued[b] : job[y].request \notin e.callbacks
        BY <3>1, <3>3 DEF CallsOK, CallsApart
      <4>3. \A q \in f.callbacks : q = mine \/ \E e \in m_blocks_enqueued[b] : q \in e.callbacks
        BY <1>1, <3>3 DEF mine
      <4>4. QED
        BY <3>1, <4>1, <4>2, <4>3
    <3>4. QED
      BY <3>2, <3>3
  <2>3. QED
    BY <2>1, <2>2 DEF CallsApart
<1>7. ASSUME NEW r \in Requests
      PROVE  Outstanding(r)' = Outstanding(r) /\ Outstanding(r) \in Nat
  <2> DEFINE A == Asked(job, r)
             A2 == Asked(job', r)
             W == Waiting(m_blocks_enqueued, r)
             W2 == Waiting(m_blocks_enqueued', r)
             H == InHands(bedata, r)
  <2>1. /\ Outstanding(r) = Cardinality(A) + Cardinality(W) + Cardinality(H)
        /\ Outstanding(r)' = Cardinality(A2) + Cardinality(W2) + Cardinality(H)
    BY <1>1, OutstandingIs DEF Sum
  <2>2. /\ IsFiniteSet(A) /\ Cardinality(A) \in Nat /\ IsFiniteSet(W) /\ Cardinality(W) \in Nat
        /\ IsFiniteSet(H) /\ Cardinality(H) \in Nat
    BY CallsFinite
  <2>3. CASE r # mine
    <3>1. W2 = W
      BY <1>1, <2>3 DEF mine
    <3>2. A2 = A
      <4>1. ASSUME NEW y \in Actors, NEW c \in Blocks
            PROVE  job'[y].request = r /\ c \in job'[y].todo <=> job[y].request = r /\ c \in job[y].todo
        BY <1>2, <2>3 DEF mine
      <4>2. QED
        BY <4>1 DEF Asked
    <3> HIDE DEF A, A2, W, W2, H
    <3>3. QED
      BY <2>1, <2>2, <3>1, <3>2
  <2>4. CASE r = mine
    <3>1. W2 = W \cup {b} /\ b \notin W
      BY <1>1, <1>5, <2>4 DEF Waiting, mine
    <3>2. A2 = A \ {<< x, b >>} /\ << x, b >> \in A
      <4>1. ASSUME NEW y \in Actors, NEW c \in Blocks
            PROVE  job'[y].request = r /\ c \in job'[y].todo
                      <=> (job[y].request = r /\ c \in job[y].todo) /\ ~ (y = x /\ c = b)
        BY <1>2, <2>4 DEF mine
      <4>2. << x, b >> \in A
        BY <1>2, <2>4 DEF Asked, mine
      <4>3. QED
        BY <4>1, <4>2 DEF Asked
    <3> HIDE DEF A, A2, W, W2, H
    <3>3. Cardinality(A2) = Cardinality(A) - 1
      BY <2>2, <3>2, FS_RemoveElement
    <3>4. Cardinality(W2) = Cardinality(W) + 1
      BY <2>2, <3>1, FS_AddElement
    <3>5. QED
      BY <2>1, <2>2, <3>3, <3>4
  <2>5. QED
    BY <2>3, <2>4
<1>8. QED
  BY <1>1, <1>3, <1>6, <1>7 DEF CallsOK, Balanced, NothingDropped
\* A block is taken: what waited with it is in the thread's hands.
LEMMA TakesKeeps ==
    ASSUME CallsOK, QueueOK, NEW t \in Threads, Takes(t)
    PROVE  (CallsNamed /\ CallsApart /\ Balanced)'
<1> DEFINE b == Head(m_block_queue[t])
<1>1. m_block_queue[t] # <<>> /\ bedata[t] = {} /\ UNCHANGED << job, refcount, requests >>
  BY DEF Takes, TakeFront
<1>2. PICK e \in BlockEmergeData : b \in Blocks /\ m_blocks_enqueued[b] = {e}
  BY <1>1, FrontEnqueued
<1>3. /\ m_blocks_enqueued' = [m_blocks_enqueued EXCEPT ![b] = {}]
      /\ bedata' = [bedata EXCEPT ![t] =
             {[pos |-> b, allow_gen |-> e.allow_gen, callbacks |-> e.callbacks]}]
  BY <1>2 DEF Takes, TakeFront, Erased
<1> DEFINE w == [pos |-> b, allow_gen |-> e.allow_gen, callbacks |-> e.callbacks]
<1> HIDE DEF b
<1>4. /\ m_blocks_enqueued'[b] = {}
      /\ \A c \in Blocks : c # b => m_blocks_enqueued'[c] = m_blocks_enqueued[c]
      /\ bedata'[t] = {w} /\ w.callbacks = e.callbacks
      /\ \A u \in Threads : u # t => bedata'[u] = bedata[u]
  BY <1>2, <1>3 DEF CallsOK, CallsTypeOK
<1> HIDE DEF w
<1>5. CallsNamed'
  <2>1. e.callbacks \subseteq 1 .. requests
    BY <1>2 DEF CallsOK, CallsNamed
  <2>2. \A c \in Blocks : \A f \in m_blocks_enqueued'[c] : f.callbacks \subseteq 1 .. requests
    BY <1>4 DEF CallsOK, CallsNamed
  <2>3. \A u \in Threads : \A v \in bedata'[u] : v.callbacks \subseteq 1 .. requests
    BY <1>4, <2>1 DEF CallsOK, CallsNamed
  <2>4. QED
    BY <1>1, <2>2, <2>3 DEF CallsOK, CallsNamed
<1>6. CallsApart'
  <2>1. \A x \in Actors : job[x].todo \subseteq Blocks
    BY DEF CallsOK, CallsTypeOK, Job
  <2>2. \A c \in Blocks : \A f \in m_blocks_enqueued'[c] : f \in m_blocks_enqueued[c]
    BY <1>4
  <2>3. QED
    BY <1>1, <2>1, <2>2 DEF CallsOK, CallsApart
<1>7. ASSUME NEW r \in Requests
      PROVE  Outstanding(r)' = Outstanding(r)
  <2> DEFINE A == Asked(job, r)
             W == Waiting(m_blocks_enqueued, r)
             W2 == Waiting(m_blocks_enqueued', r)
             H == InHands(bedata, r)
             H2 == InHands(bedata', r)
  <2>1. /\ Outstanding(r) = Cardinality(A) + Cardinality(W) + Cardinality(H)
        /\ Outstanding(r)' = Cardinality(A) + Cardinality(W2) + Cardinality(H2)
    BY <1>1, OutstandingIs DEF Sum
  <2>2. /\ Cardinality(A) \in Nat /\ IsFiniteSet(W) /\ Cardinality(W) \in Nat
        /\ IsFiniteSet(H) /\ Cardinality(H) \in Nat
    BY CallsFinite
  <2>3. t \notin H
    BY <1>1 DEF InHands
  <2>4. CASE r \in e.callbacks
    <3>1. b \in W /\ W2 = W \ {b}
      BY <1>2, <1>4, <2>4 DEF Waiting
    <3>2. H2 = H \cup {t}
      BY <1>4, <2>4 DEF InHands
    <3> HIDE DEF A, W, W2, H, H2
    <3>3. Cardinality(W2) = Cardinality(W) - 1
      BY <2>2, <3>1, FS_RemoveElement
    <3>4. Cardinality(H2) = Cardinality(H) + 1
      BY <2>2, <2>3, <3>2, FS_AddElement
    <3>5. QED
      BY <2>1, <2>2, <3>3, <3>4
  <2>5. CASE r \notin e.callbacks
    <3>1. W2 = W
      BY <1>2, <1>4, <2>5 DEF Waiting
    <3>2. H2 = H
      BY <1>1, <1>4, <2>5 DEF InHands
    <3>3. QED
      BY <2>1, <3>1, <3>2
  <2>6. QED
    BY <2>4, <2>5
<1>8. QED
  BY <1>1, <1>5, <1>6, <1>7 DEF CallsOK, Balanced, NothingDropped

\* A callback is called: it is no longer in the thread's hands, and is counted.
LEMMA CallsBackKeeps ==
    ASSUME CallsOK, NEW t \in Threads, NEW s \in Requests, CallsBack(t, s)
    PROVE  (CallsNamed /\ CallsApart /\ Balanced)'
<1>1. UNCHANGED << m_blocks_enqueued, job, requests >>
      /\ refcount' = [refcount EXCEPT ![s] = @ - 1]
  BY DEF CallsBack
<1>2. PICK w \in bedata[t] : s \in w.callbacks
                             /\ bedata' = [bedata EXCEPT ![t] = {[w EXCEPT !.callbacks = @ \ {s}]}]
  BY DEF CallsBack
<1>3. w \in Work /\ bedata[t] = {w}
  BY <1>2, OneOrNone DEF CallsOK, CallsTypeOK
<1> DEFINE v == [w EXCEPT !.callbacks = @ \ {s}]
<1>4. v.callbacks = w.callbacks \ {s}
  BY <1>3 DEF Work
<1>5. bedata'[t] = {v} /\ \A u \in Threads : u # t => bedata'[u] = bedata[u]
  BY <1>2 DEF CallsOK, CallsTypeOK
<1>6. /\ refcount'[s] = refcount[s] - 1 /\ refcount[s] \in Int
      /\ \A r \in Requests : r # s => refcount'[r] = refcount[r]
  BY <1>1 DEF CallsOK, CallsTypeOK
<1> HIDE DEF v
<1>7. CallsNamed'
  BY <1>1, <1>3, <1>4, <1>5 DEF CallsOK, CallsNamed
<1>8. CallsApart'
  BY <1>1 DEF CallsOK, CallsApart
<1>9. ASSUME NEW r \in Requests
      PROVE  /\ Outstanding(r)' = (IF r = s THEN Outstanding(r) - 1 ELSE Outstanding(r))
             /\ Outstanding(r) \in Int
  <2> DEFINE A == Asked(job, r)
             W == Waiting(m_blocks_enqueued, r)
             H == InHands(bedata, r)
             H2 == InHands(bedata', r)
  <2>1. /\ Outstanding(r) = Cardinality(A) + Cardinality(W) + Cardinality(H)
        /\ Outstanding(r)' = Cardinality(A) + Cardinality(W) + Cardinality(H2)
    BY <1>1, OutstandingIs DEF Sum
  <2>2. /\ Cardinality(A) \in Nat /\ Cardinality(W) \in Nat
        /\ IsFiniteSet(H) /\ Cardinality(H) \in Nat
    BY CallsFinite
  <2>3. CASE r = s
    <3>1. t \in H /\ H2 = H \ {t}
      BY <1>2, <1>3, <1>4, <1>5, <2>3 DEF InHands
    <3> HIDE DEF A, W, H, H2
    <3>2. Cardinality(H2) = Cardinality(H) - 1
      BY <2>2, <3>1, FS_RemoveElement
    <3>3. QED
      BY <2>1, <2>2, <2>3, <3>2
  <2>4. CASE r # s
    <3>1. H2 = H
      BY <1>3, <1>4, <1>5, <2>4 DEF InHands
    <3> HIDE DEF A, W, H, H2
    <3>2. QED
      BY <2>1, <2>2, <2>4, <3>1
  <2>5. QED
    BY <2>3, <2>4
<1>10. ASSUME NEW r \in Requests
       PROVE  (Outstanding(r) <= refcount[r] /\ (NothingDropped => Outstanding(r) = refcount[r]))'
  <2>1. /\ Outstanding(r) <= refcount[r] /\ (NothingDropped => Outstanding(r) = refcount[r])
        /\ refcount[r] \in Int
    BY DEF CallsOK, CallsTypeOK, Balanced
  <2>2. NothingDropped' = NothingDropped
    BY DEF NothingDropped
  <2>3. CASE r = s
    BY <1>6, <1>9, <2>1, <2>2, <2>3
  <2>4. CASE r # s
    BY <1>6, <1>9, <2>1, <2>2, <2>4
  <2>5. QED
    BY <2>3, <2>4
<1>11. QED
  BY <1>7, <1>8, <1>10 DEF Balanced

\* A thread is done with its block: what it held is dropped, if it held anything.
LEMMA LeavesKeeps ==
    ASSUME CallsOK, NEW t \in Threads, Leaves(t)
    PROVE  (CallsNamed /\ CallsApart /\ Balanced)'
<1>1. /\ bedata'[t] = {} /\ \A u \in Threads : u # t => bedata'[u] = bedata[u]
      /\ UNCHANGED << m_blocks_enqueued, job, refcount, requests >>
      /\ NothingDropped => \A w \in bedata[t] : w.callbacks = {}
  BY DEF Leaves, CallsOK, CallsTypeOK
<1>2. CallsNamed'
  BY <1>1 DEF CallsOK, CallsNamed
<1>3. CallsApart'
  BY <1>1 DEF CallsOK, CallsApart
<1>4. ASSUME NEW r \in Requests
      PROVE  /\ Outstanding(r)' <= Outstanding(r) /\ Outstanding(r) \in Int /\ Outstanding(r)' \in Int
             /\ NothingDropped => Outstanding(r)' = Outstanding(r)
  <2> DEFINE A == Asked(job, r)
             W == Waiting(m_blocks_enqueued, r)
             H == InHands(bedata, r)
             H2 == InHands(bedata', r)
  <2>1. /\ Outstanding(r) = Cardinality(A) + Cardinality(W) + Cardinality(H)
        /\ Outstanding(r)' = Cardinality(A) + Cardinality(W) + Cardinality(H2)
    BY <1>1, OutstandingIs DEF Sum
  <2>2. /\ Cardinality(A) \in Nat /\ Cardinality(W) \in Nat
        /\ IsFiniteSet(H) /\ Cardinality(H) \in Nat /\ Cardinality(H2) \in Nat
    BY CallsFinite
  <2>3. H2 = H \ {t} /\ (NothingDropped => t \notin H)
    BY <1>1 DEF InHands
  <2> HIDE DEF A, W, H, H2
  <2>4. CASE t \in H
    <3>1. Cardinality(H2) = Cardinality(H) - 1
      BY <2>2, <2>3, <2>4, FS_RemoveElement
    <3>2. QED
      BY <2>1, <2>2, <2>3, <2>4, <3>1
  <2>5. CASE t \notin H
    <3>1. H2 = H
      BY <2>3, <2>5
    <3>2. QED
      BY <2>1, <2>2, <3>1
  <2>6. QED
    BY <2>4, <2>5
<1>5. ASSUME NEW r \in Requests
      PROVE  (Outstanding(r) <= refcount[r] /\ (NothingDropped => Outstanding(r) = refcount[r]))'
  <2>1. /\ Outstanding(r) <= refcount[r] /\ (NothingDropped => Outstanding(r) = refcount[r])
        /\ refcount[r] \in Int /\ refcount'[r] = refcount[r]
    BY <1>1 DEF CallsOK, CallsTypeOK, Balanced
  <2>2. NothingDropped' = NothingDropped
    BY DEF NothingDropped
  <2>3. QED
    BY <1>4, <2>1, <2>2
<1>6. QED
  BY <1>2, <1>3, <1>5 DEF Balanced

-----------------------------------------------------------------------------
(* Threads without a block *)

\* Wherever a thread goes without a block, it has just given one up or had none.
LEMMA HandsFreeKept ==
    ASSUME IInv, HandsFree, [Next]_vars
    PROVE  HandsFree'
<1>1. pc \in [Threads -> Places] /\ bedata \in [Threads -> AtMostOne(Work)]
  BY DEF IInv, ControlTypeOK
<1>2. CASE UNCHANGED << pc, bedata >>
  BY <1>2 DEF HandsFree
<1>3. CASE StartThreads
  <2>1. UNCHANGED bedata /\ \A t \in Threads : pc[t] = "off"
    BY <1>3 DEF StartThreads
  <2>2. \A t \in Threads : bedata[t] = {}
    BY <2>1 DEF HandsFree
  <2>3. QED
    BY <2>1, <2>2 DEF HandsFree
<1>4. CASE \E t \in Threads : ThreadStep(t)
  <2>1. PICK t \in Threads : ThreadStep(t)
    BY <1>4
  <2>2. CASE \/ PopBlock(t) \/ CancelBlock(t) \/ BeginCallback(t) \/ GetBlockOrStartGen(t)
    <3>1. /\ \A u \in Threads : u # t => pc'[u] = pc[u] /\ bedata'[u] = bedata[u]
          /\ pc'[t] \in {"popped", "callbacks", "in_callback", "generating"} \/ bedata'[t] = {}
      BY <1>1, <2>2 DEF PopBlock, CancelBlock, BeginCallback, GetBlockOrStartGen, TakeFront, Goto
    <3>2. QED
      BY <3>1 DEF HandsFree
  <2>3. CASE \/ FindNone(t) \/ Wait(t) \/ WakeUp(t) \/ LeaveLoop(t) \/ BeginCancel(t) \/ EndCancel(t)
    <3>1. /\ UNCHANGED bedata /\ \A u \in Threads : u # t => pc'[u] = pc[u]
          /\ pc[t] \in {"top", "idle", "waiting", "exiting", "cancel"}
      BY <1>1, <2>3 DEF FindNone, Wait, WakeUp, LeaveLoop, BeginCancel, EndCancel, Goto
    <3>2. QED
      BY <3>1 DEF HandsFree
  <2>4. CASE FinishGen(t) \/ GenerationError(t) \/ EndLua(t)
    <3>1. /\ UNCHANGED bedata /\ \A u \in Threads : u # t => pc'[u] = pc[u]
          /\ pc'[t] \in {"on_generated", "callbacks"}
      BY <1>1, <2>4 DEF FinishGen, GenerationError, EndLua, Goto
    <3>2. QED
      BY <3>1 DEF HandsFree
  <2>5. CASE SkipOverLimit(t) \/ EndBlock(t)
    <3>1. bedata'[t] = {} /\ \A u \in Threads : u # t => pc'[u] = pc[u] /\ bedata'[u] = bedata[u]
      BY <1>1, <2>5 DEF SkipOverLimit, EndBlock, Goto
    <3>2. QED
      BY <3>1 DEF HandsFree
  <2>6. QED
    BY <2>1, <2>2, <2>3, <2>4, <2>5 DEF ThreadStep
<1>5. CASE \E x \in Actors : LuaStep(x)
  <2>1. UNCHANGED << pc, bedata >>
    BY <1>5 DEF LuaStep, Signal, EmergeArea, EmergeAreaBlock
  <2>2. QED
    BY <1>2, <2>1
<1>6. CASE ServerStep
  <2>1. StartThreads \/ UNCHANGED << pc, bedata >>
    BY <1>6 DEF ServerStep, ServerLock, ServerUnlock, BeginStop, EndStop, ServerEnqueue, StopThread
  <2>2. QED
    BY <1>2, <1>3, <2>1
<1>7. CASE UNCHANGED vars
  BY <1>2, <1>7 DEF vars
<1>8. QED
  BY <1>4, <1>5, <1>6, <1>7 DEF Next

\* Every step keeps them, whatever it does to callbacks.
LEMMA CallsInductive ==
    ASSUME IInv, CallsInv, [Next]_vars
    PROVE  CallsInv'
<1>1. CallsOK /\ QueueOK
  BY DEF IInv, CallsInv, CallsOK, CallsTypeOK, ControlTypeOK, QueueOK, QueueTypeOK
<1>2. CallStep
  BY CallSteps
<1>3. CASE UNCHANGED << m_blocks_enqueued, bedata, job, refcount, requests >>
  <2>1. \A r : Outstanding(r)' = Outstanding(r)
    BY <1>3, OutstandingIs
  <2>2. (CallsNamed /\ CallsApart /\ Balanced)'
    BY <1>1, <1>3, <2>1 DEF CallsOK, CallsNamed, CallsApart, Balanced, NothingDropped
  <2>3. QED
    BY <2>2, HandsFreeKept DEF CallsInv
<1>4. CASE \E x \in Actors, area \in SUBSET Blocks : Calls(x, area)
  BY <1>1, <1>4, CallsKeeps, HandsFreeKept DEF CallsInv
<1>5. CASE \E b \in Blocks : Adds(b, {}) /\ UNCHANGED job
  BY <1>1, <1>5, AddsKeeps, HandsFreeKept DEF CallsInv
<1>6. CASE \E x \in Actors, b \in Blocks : Queues(x, b)
  BY <1>1, <1>6, QueuesKeeps, HandsFreeKept DEF CallsInv
<1>7. CASE \E t \in Threads : Takes(t) \/ Leaves(t) \/ \E r \in Requests : CallsBack(t, r)
  BY <1>1, <1>7, TakesKeeps, LeavesKeeps, CallsBackKeeps, HandsFreeKept DEF CallsInv
<1>8. QED
  BY <1>2, <1>3, <1>4, <1>5, <1>6, <1>7 DEF CallStep

\* At the start no callback is outstanding.
LEMMA InitCalls ==
    ASSUME Init
    PROVE  CallsInv
<1>1. CallsNamed /\ CallsApart /\ HandsFree
  <2>1. \A x \in Actors : job[x].todo = {}
    BY DEF Init, NoJob
  <2>2. (\A b \in Blocks : m_blocks_enqueued[b] = {}) /\ (\A t \in Threads : bedata[t] = {})
    BY DEF Init
  <2>3. QED
    BY <2>1, <2>2 DEF CallsNamed, CallsApart, HandsFree
<1>2. ASSUME NEW r \in Requests
      PROVE  Outstanding(r) = 0 /\ refcount[r] = 0
  <2>1. Asked(job, r) = {} /\ Waiting(m_blocks_enqueued, r) = {} /\ InHands(bedata, r) = {}
    BY DEF Init, Asked, Waiting, InHands, NoJob
  <2>2. Outstanding(r) = 0
    BY <2>1, OutstandingIs, FS_EmptySet DEF Sum
  <2>3. QED
    BY <2>2 DEF Init
<1>3. QED
  BY <1>1, <1>2 DEF CallsInv, Balanced

\* What is outstanding of a request is named, apart from that of others, and never
\* more than its counter says: the inductive invariant of the callbacks.
THEOREM CallsInvariant == Spec => []CallsInv
<1>1. Init => CallsInv
  BY InitCalls
<1>2. IInv /\ CallsInv /\ [Next]_vars => CallsInv'
  BY CallsInductive
<1>3. QED
  BY <1>1, <1>2, EmergeInvariant, PTL DEF Spec

(* The state a callback is called with (ScriptCallbackState) is not freed  *)
(* while a block of its emerge_area is still to be queued, waits in the    *)
(* queue or is with a thread, and no block's callback is called twice,     *)
(* whatever blocks are beyond the limits, whatever fails and whoever calls *)
(* core.emerge_area meanwhile (l_env.cpp:144).                             *)
THEOREM StateAliveHolds == Spec => []StateAlive
<1>1. CallsInv => StateAlive
  BY DEF CallsInv, Balanced, StateAlive
<1>2. QED
  BY <1>1, CallsInvariant, PTL

(* The number handed to a callback is exact: where no block is skipped for *)
(* being over the limits and nothing fails, every callback that was        *)
(* promised is still on its way, so emerge_area counts down to zero.       *)
THEOREM CallsRemainingHolds == OverLimit = {} /\ ~ CanFail => (Spec => []CallsRemaining)
<1> SUFFICES ASSUME OverLimit = {}, ~ CanFail PROVE Spec => []CallsRemaining
  OBVIOUS
<1>1. CallsInv => CallsRemaining
  BY DEF CallsInv, Balanced, CallsRemaining, NothingDropped
<1>2. QED
  BY <1>1, CallsInvariant, PTL
=============================================================================
