---------------------------- MODULE PeersProofs -----------------------------
(***************************************************************************)
(* What is proved of Peers for every number of peers, addresses and ids    *)
(* and every bound: the usage counts are exact, no peer is used after it   *)
(* is freed or leaked, an address has one peer in the table, and, where no *)
(* id is used twice, the peers implement PeerEvents and the owner of the   *)
(* Connection knows of those in the table.                                 *)
(*                                                                         *)
(* The steps of the three threads do seven things to the peers (Effect);   *)
(* the invariants about the peers are proved for these, and which step     *)
(* does which of them follows from where the threads are (Control).  What  *)
(* a step is to PeerEvents is said by Told.                                *)
(***************************************************************************)
EXTENDS Peers, FiniteSetTheorems, SequenceTheorems, TLAPS

\* Which helpers hold a peer, and who is in the middle of deletePeer, by where
\* the threads are.
Control ==
    /\ helper["rx"] # 0 <=>
          \/ rxpc \in {"process", "handle", "event", "drop", "unwind", "return", "leave"}
          \/ rxpc = "put" /\ packet.from # "buffer"
    /\ rxpc = "return" => packet.from = "buffer"
    /\ rxpc \notin {"idle", "stopped"} => packet # NoPacket
    /\ helper["rx2"] # 0 <=> rxpc \in {"handle", "event", "drop", "unwind"}
    /\ helper["tx"] # 0 <=> txpc \in {"timed_out", "pending", "mark"}
    /\ dropping["rx"] # 0 <=> rxpc \in {"event", "drop"}
    /\ dropping["tx"] # 0 <=> txpc \in {"event", "drop"}
    /\ phase # "up" => helper["sv"] = 0
    /\ phase = "closed" => rxpc = "stopped" /\ txpc = "stopped"

\* Where a peer can be: in the table, with a thread that deletes it, deleted
\* but held, or freed; and never in two of these places.
Placed ==
    /\ Created \subseteq InTable \cup Dropped \cup m_pending_deletion \cup freed
    /\ (m_pending_deletion \cup freed) \cap (InTable \cup Dropped) = {}
    /\ InTable \cap Dropped = {}
    /\ \A t, u \in Deleters : dropping[t] # 0 /\ dropping[t] = dropping[u] => t = u
    /\ \A id \in DOMAIN m_peers : born[m_peers[id]].id = id

\* A deleted peer is freed exactly when nobody holds it.
FreedWhenUnused ==
    /\ \A p \in m_pending_deletion : m_usage[p] = 0 => p \in freed
    /\ \A p \in freed : m_usage[p] = 0

IInv == /\ TypeOK /\ Control
        /\ UsageCounts /\ Placed /\ FreedWhenUnused /\ OnePeerPerAddress
-----------------------------------------------------------------------------
(* What a step does to the peers. *)

Nothing == UNCHANGED << born, m_peers, counts, ends >>

Takes == \E s \in Slots, p \in InTable \ m_pending_deletion :
    helper[s] = 0 /\ Take(s, p) /\ UNCHANGED << born, m_peers, ends >>

Releases == \E s \in Slots :
    helper[s] # 0 /\ Release(s) /\ UNCHANGED << born, m_peers, m_pending_deletion, dropping >>

Creates == \E addr \in Addrs, id \in Ids :
    Known(addr) = {} /\ CreatePeer(addr, id) /\ UNCHANGED << counts, ends >>

Erases == \E t \in Deleters, id \in DOMAIN m_peers :
    /\ dropping[t] = 0 /\ Erase(t, id)
    /\ UNCHANGED << born, counts, m_pending_deletion, freed >>

Drops == \E t \in Deleters :
    dropping[t] # 0 /\ Drop(t) /\ UNCHANGED << born, m_peers, counts >>

Destroys ==
    /\ \A s \in Slots : helper[s] = 0
    /\ \A t \in Deleters : dropping[t] = 0
    /\ m_peers' = << >> /\ freed' = freed \cup InTable
    /\ UNCHANGED << born, counts, m_pending_deletion, dropping >>

Effect == \/ Nothing \/ Takes \/ Releases \/ Creates \/ Erases \/ Drops \/ Destroys
-----------------------------------------------------------------------------
(* Types and control. *)

\* A peer is its number; the numbers are positive and at most MaxPeers.
LEMMA CreatedPeers ==
    ASSUME TypeOK
    PROVE  /\ Created = 1 .. Len(born) /\ Created \subseteq Peer
           /\ Len(born) \in Nat /\ 0 \notin Created
           /\ InTable \subseteq Created /\ Held \subseteq Created
           /\ Dropped \subseteq Created
BY PeersAssumption DEF TypeOK, Created, Peer, InTable, Held, Dropped

\* Every peer created has an id and an address.
LEMMA BornTypes ==
    ASSUME TypeOK
    PROVE  \A p \in Created : born[p].id \in Ids /\ born[p].addr \in Addrs
<1> SUFFICES ASSUME NEW p \in Created
             PROVE  born[p].id \in Ids /\ born[p].addr \in Addrs
  OBVIOUS
<1>1. p \in 1 .. Len(born) /\ born \in Seq([id : Ids, addr : Addrs])
  BY CreatedPeers DEF TypeOK
<1>2. born[p] \in [id : Ids, addr : Addrs]
  BY <1>1, ElementOfSeq
<1>3. QED
  BY <1>2

\* Only finitely many helpers hold a peer.
LEMMA HoldersFinite == \A p : IsFiniteSet({s \in Slots : helper[s] = p})
<1>1. IsFiniteSet({"rx"})
  BY FS_Singleton
<1>2. IsFiniteSet({"rx"} \cup {"rx2"})
  BY <1>1, FS_AddElement
<1>3. IsFiniteSet(({"rx"} \cup {"rx2"}) \cup {"tx"})
  BY <1>2, FS_AddElement
<1>4. IsFiniteSet((({"rx"} \cup {"rx2"}) \cup {"tx"}) \cup {"sv"})
  BY <1>3, FS_AddElement
<1>5. Slots = ((({"rx"} \cup {"rx2"}) \cup {"tx"}) \cup {"sv"})
  BY DEF Slots
<1>6. QED
  BY <1>4, <1>5, FS_Subset

\* getPeerNoEx finds a peer of the table that is not being deleted, or none.
LEMMA GetPeerFinds ==
    ASSUME TypeOK, NEW id, GetPeer(id) # 0
    PROVE  /\ GetPeer(id) \in InTable \ m_pending_deletion
           /\ GetPeer(id) \in Created
BY DEF TypeOK, GetPeer, InTable

LEMMA InitInv == Init => IInv
<1> SUFFICES ASSUME Init PROVE IInv
  OBVIOUS
<1>1. TypeOK
  BY PeersAssumption DEF Init, TypeOK, Peer, Slots, Deleters, Created
<1>2. Control
  BY DEF Init, Control, Slots, Deleters
<1>3. Created = {} /\ InTable = {} /\ Dropped = {}
  BY DEF Init, Created, InTable, Dropped, Deleters
<1>4. Placed /\ FreedWhenUnused /\ OnePeerPerAddress
  BY <1>3 DEF Init, Placed, FreedWhenUnused, OnePeerPerAddress, Deleters
<1>5. UsageCounts
  <2>1. \A p \in Peer : {s \in Slots : helper[s] = p} = {}
    BY PeersAssumption DEF Init, Peer
  <2>2. QED
    BY <2>1, FS_EmptySet DEF Init, UsageCounts
<1>6. QED
  BY <1>1, <1>2, <1>4, <1>5 DEF IInv
-----------------------------------------------------------------------------
(* Steps keep the types. *)

USE DEF Deleters

LEMMA TakeTypes ==
    ASSUME TypeOK, NEW s \in Slots, NEW id, GetPeer(id) # 0, Take(s, GetPeer(id))
    PROVE  /\ m_usage' \in [Peer -> Nat]
           /\ helper' \in [Slots -> Created \cup {0}]
<1>1. GetPeer(id) \in Created /\ GetPeer(id) \in Peer
  BY GetPeerFinds, CreatedPeers
<1>2. QED
  BY <1>1 DEF Take, TypeOK

LEMMA CreatesTypes ==
    ASSUME TypeOK, NEW addr \in Addrs, NEW id \in Ids, CreatePeer(addr, id)
    PROVE  /\ born' \in Seq([id : Ids, addr : Addrs]) /\ Len(born') <= MaxPeers
           /\ DOMAIN m_peers' \subseteq Ids
           /\ \A i \in DOMAIN m_peers' : m_peers'[i] \in Created'
           /\ Created \subseteq Created' /\ half_open' \subseteq Created'
           /\ Created' = Created \cup {Len(born) + 1} /\ Len(born) + 1 \notin Created
<1>1. /\ born' = Append(born, [id |-> id, addr |-> addr])
      /\ Len(born) + 1 \in Peer /\ Len(born) \in Nat
  BY DEF CreatePeer, TypeOK
<1>2. /\ born' \in Seq([id : Ids, addr : Addrs]) /\ Len(born') = Len(born) + 1
      /\ Created = 1 .. Len(born) /\ Created' = 1 .. (Len(born) + 1)
  BY <1>1 DEF TypeOK, Created
<1>3. /\ Created \subseteq Created' /\ Len(born) + 1 \in Created'
      /\ Created' = Created \cup {Len(born) + 1} /\ Len(born) + 1 \notin Created
      /\ Len(born') <= MaxPeers
  BY <1>1, <1>2, PeersAssumption DEF Peer
<1>4. QED
  BY <1>2, <1>3 DEF CreatePeer, TypeOK

LEMMA TypeReceive == TypeOK /\ Receive => TypeOK'
<1> SUFFICES ASSUME TypeOK, Receive PROVE TypeOK'
  OBVIOUS
<1>1. PICK kind \in Kinds :
         \/ \E addr \in Addrs : ReceiveKnock(addr, kind)
         \/ \E addr \in Addrs, id \in Ids :
               ReceiveNew(addr, id, kind) \/ ReceiveKnown(addr, id, kind)
         \/ \E id \in Ids : Unbuffer(id, kind)
  BY DEF Receive
<1>2. ASSUME NEW addr \in Addrs, ReceiveKnock(addr, kind) PROVE TypeOK'
  BY <1>2 DEF ReceiveKnock, Work, Known, Packet, TypeOK, Created, table, counts,
     ends, owner, tx
<1>3. ASSUME NEW addr \in Addrs, NEW id \in Ids, ReceiveNew(addr, id, kind)
      PROVE  TypeOK'
  <2>1. CreatePeer(addr, id)
    BY <1>3 DEF ReceiveNew
  <2>2. packet' \in Packet /\ rxpc' = "find"
    BY <1>3 DEF ReceiveNew, Work, Packet
  <2>3. m_event_queue' \in Seq([type : {"added", "removed"}, id : Ids]
                              \cup [type : {"data"}, id : Ids, msg : {"data"}])
    BY <2>1 DEF CreatePeer, Put, TypeOK
  <2>4. QED
    BY <1>3, <2>1, <2>2, <2>3, CreatesTypes DEF ReceiveNew, TypeOK, counts, ends, owner, tx
<1>4. ASSUME NEW addr \in Addrs, NEW id \in Ids, ReceiveKnown(addr, id, kind)
      PROVE  TypeOK'
  BY <1>4 DEF ReceiveKnown, Work, Packet, TypeOK, Created, table, counts, ends, owner, tx
<1>5. ASSUME NEW id \in Ids, Unbuffer(id, kind) PROVE TypeOK'
  <2>1. GetPeer(id) # 0 /\ Take("rx", GetPeer(id))
    BY <1>5 DEF Unbuffer
  <2>2. /\ m_usage' \in [Peer -> Nat]
        /\ helper' \in [Slots -> Created \cup {0}]
    BY <2>1, TakeTypes DEF Slots
  <2>3. born[GetPeer(id)].addr \in Addrs
    BY <2>1, GetPeerFinds, BornTypes
  <2>4. packet' \in Packet /\ rxpc' = "process"
    BY <1>5, <2>3 DEF Unbuffer, Work, Packet
  <2>5. QED
    BY <1>5, <2>2, <2>4 DEF Unbuffer, TypeOK, Created, table, ends, owner, tx
<1>6. QED
  BY <1>1, <1>2, <1>3, <1>4, <1>5

\* Releasing a helper and putting an event keep the types they change.
LEMMA ReleaseTypes ==
    ASSUME TypeOK, UsageCounts, NEW s \in Slots, helper[s] # 0, Release(s)
    PROVE  /\ m_usage' \in [Peer -> Nat]
           /\ helper' \in [Slots -> Created \cup {0}]
           /\ freed' \subseteq Created
<1>1. helper[s] \in Created /\ helper[s] \in Peer
  BY CreatedPeers DEF TypeOK
<1>2. m_usage[helper[s]] # 0
  <2>1. s \in {u \in Slots : helper[u] = helper[s]}
    OBVIOUS
  <2>2. QED
    BY <1>1, <2>1, HoldersFinite, FS_EmptySet DEF UsageCounts
<1>3. m_usage[helper[s]] - 1 \in Nat
  BY <1>1, <1>2 DEF TypeOK
<1>4. QED
  BY <1>1, <1>3 DEF Release, TypeOK

\* A helper or a dropping thread that is set takes its value, the others theirs.
LEMMA HelperExcept ==
    ASSUME TypeOK, NEW s \in Slots, NEW p, helper' = [helper EXCEPT ![s] = p]
    PROVE  \A u \in Slots : helper'[u] = IF u = s THEN p ELSE helper[u]
BY DEF TypeOK

LEMMA DroppingExcept ==
    ASSUME TypeOK, NEW t \in Deleters, NEW p, dropping' = [dropping EXCEPT ![t] = p]
    PROVE  \A u \in Deleters : dropping'[u] = IF u = t THEN p ELSE dropping[u]
BY DEF TypeOK

\* Putting an event for an id keeps the type of the queue.
EventQueueOK ==
    m_event_queue \in Seq([type : {"added", "removed"}, id : Ids]
                           \cup [type : {"data"}, id : Ids, msg : {"data"}])

LEMMA PutRemovedTypes ==
    ASSUME TypeOK, NEW t \in Deleters, dropping[t] # 0, PutRemoved(t)
    PROVE  EventQueueOK'
<1>1. dropping[t] \in Created
  BY DEF TypeOK
<1>2. born[dropping[t]].id \in Ids
  BY <1>1, BornTypes
<1>3. QED
  BY <1>2 DEF PutRemoved, Put, TypeOK, EventQueueOK
-----------------------------------------------------------------------------
(* The receive thread's steps keep types and control. *)

TypeControl == TypeOK /\ Control

\* What is being worked on has an id.
LEMMA WorkReal ==
    ASSUME NEW addr, NEW id \in Ids, NEW from, NEW kind, Work(addr, id, from, kind)
    PROVE  packet' # NoPacket
<1>1. packet'.id = id
  BY DEF Work
<1>2. id # 0
  BY PeersAssumption
<1>3. QED
  BY <1>1, <1>2 DEF NoPacket

LEMMA ControlReceive == TypeControl /\ Receive => Control'
<1> SUFFICES ASSUME TypeOK, Control, Receive PROVE Control'
  BY DEF TypeControl
<1>1. PICK kind \in Kinds :
         \/ \E addr \in Addrs : ReceiveKnock(addr, kind)
         \/ \E addr \in Addrs, id \in Ids :
               ReceiveNew(addr, id, kind) \/ ReceiveKnown(addr, id, kind)
         \/ \E id \in Ids : Unbuffer(id, kind)
  BY DEF Receive
<1>2. ASSUME NEW addr \in Addrs, ReceiveKnock(addr, kind) PROVE Control'
  <2>1. PICK id \in Known(addr) : Work(addr, id, "stranger", kind)
    BY <1>2 DEF ReceiveKnock
  <2>2. id \in Ids
    BY DEF Known, TypeOK
  <2>3. packet' # NoPacket
    BY <2>1, <2>2, WorkReal
  <2>4. QED
    BY <1>2, <2>3 DEF ReceiveKnock, MayReceive, Control, table, counts, ends, owner, tx
<1>3. ASSUME NEW addr \in Addrs, NEW id \in Ids, ReceiveNew(addr, id, kind)
      PROVE  Control'
  <2>1. packet' # NoPacket
    BY <1>3, WorkReal DEF ReceiveNew
  <2>2. QED
    BY <1>3, <2>1 DEF ReceiveNew, MayReceive, Control, counts, ends, owner, tx
<1>4. ASSUME NEW addr \in Addrs, NEW id \in Ids, ReceiveKnown(addr, id, kind)
      PROVE  Control'
  <2>1. packet' # NoPacket
    BY <1>4, WorkReal DEF ReceiveKnown
  <2>2. QED
    BY <1>4, <2>1 DEF ReceiveKnown, MayReceive, Control, table, counts, ends, owner, tx
<1>5. ASSUME NEW id \in Ids, Unbuffer(id, kind) PROVE Control'
  <2>1. GetPeer(id) # 0 /\ Take("rx", GetPeer(id)) /\ rxpc' = "process"
    BY <1>5 DEF Unbuffer
  <2>2. \A u \in Slots : helper'[u] = IF u = "rx" THEN GetPeer(id) ELSE helper[u]
    BY <2>1, HelperExcept DEF Take, Slots
  <2>3. packet' # NoPacket
    BY <1>5, WorkReal DEF Unbuffer
  <2>4. QED
    BY <1>5, <2>1, <2>2, <2>3 DEF Unbuffer, MayReceive, Control, table, ends, owner, tx, Slots
<1>6. QED
  BY <1>1, <1>2, <1>3, <1>4, <1>5

LEMMA RxSteps == TypeControl /\ UsageCounts /\ Rx => TypeControl'
<1> SUFFICES ASSUME TypeOK, Control, UsageCounts, Rx PROVE TypeOK' /\ Control'
  BY DEF TypeControl
<1>1. CASE Find
  <2> DEFINE p == GetPeer(packet.id)
  <2>1. CASE Accepted(p) /\ Take("rx", p) /\ rxpc' = "process" /\ UNCHANGED packet
    <3>1. p # 0
      BY <2>1 DEF Accepted
    <3>2. /\ m_usage' \in [Peer -> Nat]
          /\ helper' \in [Slots -> Created \cup {0}]
      BY <2>1, <3>1, TakeTypes DEF Slots
    <3>3. half_open' \subseteq Created
      BY <1>1 DEF Find, TypeOK, counts
    <3>4. TypeOK'
      BY <1>1, <2>1, <3>2, <3>3 DEF Find, TypeOK, Created, ends, owner, tx
    <3>5. \A u \in Slots : helper'[u] = IF u = "rx" THEN p ELSE helper[u]
      BY <2>1, HelperExcept DEF Take, Slots
    <3>6. Control'
      BY <1>1, <2>1, <3>1, <3>5 DEF Find, Control, ends, owner, tx, Slots
    <3>7. QED
      BY <3>4, <3>6
  <2>2. CASE rxpc' = "idle" /\ packet' = NoPacket /\ UNCHANGED << counts, half_open >>
    <3>1. TypeOK'
      BY <1>1, <2>2 DEF Find, TypeOK, Created, counts, ends, owner, tx
    <3>2. Control'
      BY <1>1, <2>2 DEF Find, Control, counts, ends, owner, tx
    <3>3. QED
      BY <3>1, <3>2
  <2>3. QED
    BY <1>1, <2>1, <2>2 DEF Find
<1>2. CASE ProcessPacket
  <2> DEFINE p == GetPeer(packet.id)
  <2>1. CASE p # 0 /\ Take("rx2", p) /\ rxpc' = "handle"
    <3>2. /\ m_usage' \in [Peer -> Nat]
          /\ helper' \in [Slots -> Created \cup {0}]
      BY <2>1, TakeTypes DEF Slots
    <3>4. TypeOK'
      BY <1>2, <2>1, <3>2 DEF ProcessPacket, TypeOK, Created, table, ends, owner, tx
    <3>5. \A u \in Slots : helper'[u] = IF u = "rx2" THEN p ELSE helper[u]
      BY <2>1, HelperExcept DEF Take, Slots
    <3>6. Control'
      BY <1>2, <2>1, <3>5 DEF ProcessPacket, Control, table, ends, owner, tx, Slots
    <3>7. QED
      BY <3>4, <3>6
  <2>2. CASE rxpc' = "leave" /\ UNCHANGED counts
    <3>1. TypeOK'
      BY <1>2, <2>2 DEF ProcessPacket, TypeOK, Created, table, counts, ends, owner, tx
    <3>2. Control'
      BY <1>2, <2>2 DEF ProcessPacket, Control, table, counts, ends, owner, tx
    <3>3. QED
      BY <3>1, <3>2
  <2>3. QED
    BY <1>2, <2>1, <2>2 DEF ProcessPacket
<1>3. CASE HandleDisco
  <2>1. CASE packet.id \in DOMAIN m_peers /\ Erase("rx", packet.id) /\ rxpc' = "event"
             /\ UNCHANGED << freed, counts >>
    <3>1. /\ DOMAIN m_peers' \subseteq DOMAIN m_peers
          /\ \A id \in DOMAIN m_peers' : m_peers'[id] = m_peers[id]
      BY <2>1 DEF Erase, Restrict
    <3>2. m_peers[packet.id] \in Created /\ m_peers[packet.id] # 0
      BY <2>1, CreatedPeers DEF TypeOK
    <3>3. dropping' \in [Deleters -> Created \cup {0}]
      BY <2>1, <3>2 DEF Erase, TypeOK
    <3>4. TypeOK'
      BY <1>3, <2>1, <3>1, <3>3 DEF HandleDisco, TypeOK, Created, counts, owner, tx
    <3>5. \A u \in Deleters :
             dropping'[u] = IF u = "rx" THEN m_peers[packet.id] ELSE dropping[u]
      BY <2>1, DroppingExcept DEF Erase
    <3>6. Control'
      BY <1>3, <2>1, <3>2, <3>5 DEF HandleDisco, Control, counts, owner, tx
    <3>7. QED
      BY <3>4, <3>6
  <2>2. CASE Release("rx2") /\ rxpc' = "leave" /\ UNCHANGED << m_peers, dropping >>
    <3>1. helper["rx2"] # 0
      BY <1>3 DEF HandleDisco, Control
    <3>2. /\ m_usage' \in [Peer -> Nat] /\ freed' \subseteq Created
          /\ helper' \in [Slots -> Created \cup {0}]
      BY <2>2, <3>1, ReleaseTypes DEF Slots
    <3>3. TypeOK'
      BY <1>3, <2>2, <3>2 DEF HandleDisco, TypeOK, Created, owner, tx
    <3>4. \A u \in Slots : helper'[u] = IF u = "rx2" THEN 0 ELSE helper[u]
      BY <2>2, HelperExcept DEF Release, Slots
    <3>5. Control'
      BY <1>3, <2>2, <3>4 DEF HandleDisco, Control, owner, tx, Slots
    <3>6. QED
      BY <3>3, <3>5
  <2>3. QED
    BY <1>3, <2>1, <2>2 DEF HandleDisco
<1>4. CASE HandleOther
  <2>1. helper["rx2"] # 0 /\ helper["rx"] # 0 /\ Release("rx2")
    BY <1>4 DEF HandleOther, Control
  <2>2. /\ m_usage' \in [Peer -> Nat] /\ freed' \subseteq Created
        /\ helper' \in [Slots -> Created \cup {0}]
    BY <2>1, ReleaseTypes DEF Slots
  <2>3. m_command_queue' \in Seq(Ids)
    <3>1. CASE packet.kind = "corrupt"
      <4>1. packet # NoPacket
        BY <3>1 DEF NoPacket
      <4>2. packet.id \in Ids
        BY <4>1 DEF TypeOK, Packet
      <4>3. QED
        <5>1. m_command_queue \in Seq(Ids)
          BY DEF TypeOK
        <5>2. Append(m_command_queue, packet.id) \in Seq(Ids)
          BY <4>2, <5>1
        <5>3. PutCommand(packet.id)
          BY <1>4, <3>1 DEF HandleOther
        <5>4. QED
          BY <5>1, <5>2, <5>3 DEF PutCommand
    <3>2. QED
      BY <1>4, <3>1 DEF HandleOther, TypeOK
  <2>4. /\ rxpc' = IF packet.kind = "ping" THEN "leave"
                   ELSE IF packet.from = "buffer" THEN "return" ELSE "put"
        /\ UNCHANGED packet /\ rxpc = "handle"
    BY <1>4 DEF HandleOther
  <2>5. TypeOK'
    BY <1>4, <2>2, <2>3, <2>4 DEF HandleOther, TypeOK, Created, table, owner, tx
  <2>6. \A u \in Slots : helper'[u] = IF u = "rx2" THEN 0 ELSE helper[u]
    BY <2>1, HelperExcept DEF Release, Slots
  <2>7. Control'
    BY <1>4, <2>1, <2>4, <2>6 DEF HandleOther, Control, owner, tx, Slots
  <2>8. QED
    BY <2>5, <2>7
<1>5. CASE RxEvent
  <2>1. dropping["rx"] # 0
    BY <1>5 DEF RxEvent, Control
  <2>2. EventQueueOK'
    BY <1>5, <2>1, PutRemovedTypes DEF RxEvent
  <2>3. TypeOK'
    BY <1>5, <2>2 DEF RxEvent, EventQueueOK, TypeOK, Created, table, counts, ends, owner, tx
  <2>4. Control'
    BY <1>5 DEF RxEvent, Control, table, counts, ends, owner, tx
  <2>5. QED
    BY <2>3, <2>4
<1>6. CASE RxDrop
  <2>1. dropping["rx"] # 0 /\ Drop("rx")
    BY <1>6 DEF RxDrop, Control
  <2>2. /\ dropping["rx"] \in Created
        /\ dropping' \in [Deleters -> Created \cup {0}]
    BY <2>1 DEF Drop, TypeOK
  <2>3. TypeOK'
    BY <1>6, <2>1, <2>2 DEF RxDrop, Drop, TypeOK, Created, table, counts, owner, tx
  <2>4. \A u \in Deleters : dropping'[u] = IF u = "rx" THEN 0 ELSE dropping[u]
    BY <2>1, DroppingExcept DEF Drop
  <2>5. Control'
    BY <1>6, <2>4 DEF RxDrop, Control, table, counts, owner, tx
  <2>6. QED
    BY <2>3, <2>5
<1>7. CASE RxUnwind
  <2>1. helper["rx2"] # 0 /\ Release("rx2")
    BY <1>7 DEF RxUnwind, Control
  <2>2. /\ m_usage' \in [Peer -> Nat] /\ freed' \subseteq Created
        /\ helper' \in [Slots -> Created \cup {0}]
    BY <2>1, ReleaseTypes DEF Slots
  <2>3. TypeOK'
    BY <1>7, <2>2 DEF RxUnwind, TypeOK, Created, table, owner, tx
  <2>4. \A u \in Slots : helper'[u] = IF u = "rx2" THEN 0 ELSE helper[u]
    BY <2>1, HelperExcept DEF Release, Slots
  <2>5. Control'
    BY <1>7, <2>4 DEF RxUnwind, Control, table, owner, tx, Slots
  <2>6. QED
    BY <2>3, <2>5
<1>8. CASE RxReturn
  <2>1. helper["rx"] # 0 /\ Release("rx")
    BY <1>8 DEF RxReturn, Control
  <2>2. /\ m_usage' \in [Peer -> Nat] /\ freed' \subseteq Created
        /\ helper' \in [Slots -> Created \cup {0}]
    BY <2>1, ReleaseTypes DEF Slots
  <2>3. TypeOK'
    BY <1>8, <2>2 DEF RxReturn, TypeOK, Created, table, owner, tx
  <2>4. \A u \in Slots : helper'[u] = IF u = "rx" THEN 0 ELSE helper[u]
    BY <2>1, HelperExcept DEF Release, Slots
  <2>5. Control'
    BY <1>8, <2>4 DEF RxReturn, Control, table, owner, tx, Slots
  <2>6. QED
    BY <2>3, <2>5
<1>9. CASE RxPut
  <2>1. EventQueueOK'
    <3>1. packet.id \in Ids
      BY <1>9 DEF RxPut, Control, TypeOK, Packet
    <3>2. QED
      BY <1>9, <3>1 DEF RxPut, Put, EventQueueOK, TypeOK
  <2>2. TypeOK'
    BY <1>9, <2>1 DEF RxPut, EventQueueOK, TypeOK, Created, table, counts, ends, owner, tx
  <2>3. Control'
    BY <1>9 DEF RxPut, Control, table, counts, ends, owner, tx
  <2>4. QED
    BY <2>2, <2>3
<1>10. CASE RxLeave
  <2>1. helper["rx"] # 0 /\ Release("rx")
    BY <1>10 DEF RxLeave, Control
  <2>2. /\ m_usage' \in [Peer -> Nat] /\ freed' \subseteq Created
        /\ helper' \in [Slots -> Created \cup {0}]
    BY <2>1, ReleaseTypes DEF Slots
  <2>3. TypeOK'
    BY <1>10, <2>2 DEF RxLeave, TypeOK, Created, table, owner, tx
  <2>4. \A u \in Slots : helper'[u] = IF u = "rx" THEN 0 ELSE helper[u]
    BY <2>1, HelperExcept DEF Release, Slots
  <2>5. Control'
    BY <1>10, <2>4 DEF RxLeave, Control, table, owner, tx, Slots
  <2>6. QED
    BY <2>3, <2>5
<1>11. CASE RxStop
  <2>1. TypeOK'
    BY <1>11 DEF RxStop, TypeOK, Created, table, counts, ends, owner, tx
  <2>2. Control'
    BY <1>11 DEF RxStop, Control, table, counts, ends, owner, tx
  <2>3. QED
    BY <2>1, <2>2
<1>12. QED
  BY <1>1, <1>2, <1>3, <1>4, <1>5, <1>6, <1>7, <1>8, <1>9, <1>10, <1>11 DEF Rx
-----------------------------------------------------------------------------
(* The send thread's and the owner's steps keep types and control. *)

\* A look at a peer takes it or passes it over.
LEMMA LookSteps ==
    ASSUME TypeOK, Control, NEW from \in {"timeouts", "send"}, NEW to,
           Look(from, to),
           \/ from = "timeouts" /\ to = "timed_out"
           \/ from = "send" /\ to = "pending"
    PROVE  TypeOK' /\ Control'
<1>1. PICK id \in todo :
         /\ todo' = todo \ {id}
         /\ LET p == GetPeer(id) IN
            \/ p = 0 /\ UNCHANGED << counts, txpc >>
            \/ p # 0 /\ Take("tx", p) /\ txpc' = to
  BY DEF Look
<1>2. CASE UNCHANGED << counts, txpc >>
  <2>1. TypeOK'
    BY <1>1, <1>2 DEF Look, TypeOK, Created, table, counts, ends, owner, rx
  <2>2. Control'
    BY <1>2 DEF Look, Control, table, counts, ends, owner, rx
  <2>3. QED
    BY <2>1, <2>2
<1>3. CASE GetPeer(id) # 0 /\ Take("tx", GetPeer(id)) /\ txpc' = to
  <2>1. /\ m_usage' \in [Peer -> Nat]
        /\ helper' \in [Slots -> Created \cup {0}]
    BY <1>3, TakeTypes DEF Slots
  <2>2. TypeOK'
    BY <1>1, <1>3, <2>1 DEF Look, TypeOK, Created, table, ends, owner, rx
  <2>3. \A u \in Slots : helper'[u] = IF u = "tx" THEN GetPeer(id) ELSE helper[u]
    BY <1>3, HelperExcept DEF Take, Slots
  <2>4. Control'
    BY <1>3, <2>3 DEF Look, Control, table, ends, owner, rx, Slots
  <2>5. QED
    BY <2>2, <2>4
<1>4. QED
  BY <1>1, <1>2, <1>3

LEMMA LookedSteps ==
    ASSUME TypeOK, Control, NEW from \in {"timeouts", "send"},
           NEW next \in {"commands", "timeouts"}, Looked(from, next)
    PROVE  TypeOK' /\ Control'
<1>1. TypeOK'
  BY DEF Looked, TypeOK, Created, table, counts, ends, owner, rx
<1>2. Control'
  BY DEF Looked, Control, table, counts, ends, owner, rx
<1>3. QED
  BY <1>1, <1>2

\* The look ends with the peer released, whatever is decided about it.
LEMMA JudgeSteps ==
    ASSUME TypeOK, Control, UsageCounts, NEW from \in {"timed_out", "pending"},
           NEW to \in {"timeouts", "send"}, NEW dies, Judge(from, to, dies)
    PROVE  TypeOK' /\ Control'
<1>1. helper["tx"] # 0 /\ Release("tx")
  BY DEF Judge, Control
<1>2. /\ m_usage' \in [Peer -> Nat] /\ freed' \subseteq Created
      /\ helper' \in [Slots -> Created \cup {0}]
  BY <1>1, ReleaseTypes DEF Slots
<1>3. helper["tx"] \in Created
  BY <1>1 DEF TypeOK, Slots
<1>4. born[helper["tx"]].id \in Ids
  BY <1>3, BornTypes
<1>5. doomed' \subseteq Ids
  BY <1>4 DEF Judge, TypeOK
<1>6. TypeOK'
  BY <1>2, <1>5 DEF Judge, TypeOK, Created, table, owner, rx
<1>7. \A u \in Slots : helper'[u] = IF u = "tx" THEN 0 ELSE helper[u]
  BY <1>1, HelperExcept DEF Release, Slots
<1>8. Control'
  BY <1>7 DEF Judge, Control, table, owner, rx, Slots
<1>9. QED
  BY <1>6, <1>8

LEMMA TxSteps == TypeControl /\ UsageCounts /\ Tx => TypeControl'
<1> SUFFICES ASSUME TypeOK, Control, UsageCounts, Tx PROVE TypeOK' /\ Control'
  BY DEF TypeControl
<1>1. CASE LookTimeout
  BY <1>1, LookSteps DEF LookTimeout
<1>2. CASE LookPending
  BY <1>2, LookSteps DEF LookPending
<1>3. CASE EndTimeouts
  BY <1>3, LookedSteps DEF EndTimeouts
<1>4. CASE EndPending
  BY <1>4, LookedSteps DEF EndPending
<1>5. ASSUME NEW dies \in BOOLEAN, JudgeTimeout(dies) PROVE TypeOK' /\ Control'
  BY <1>5, JudgeSteps DEF JudgeTimeout
<1>6. ASSUME NEW dies \in BOOLEAN, JudgePending(dies) PROVE TypeOK' /\ Control'
  BY <1>6, JudgeSteps DEF JudgePending
<1>7. CASE TxErase
  <2>1. PICK id \in doomed :
          /\ doomed' = doomed \ {id}
          /\ \/ id \notin DOMAIN m_peers /\ UNCHANGED << m_peers, dropping, txpc >>
             \/ id \in DOMAIN m_peers /\ Erase("tx", id) /\ txpc' = "event"
    BY <1>7 DEF TxErase
  <2>2. CASE UNCHANGED << m_peers, dropping, txpc >>
    <3>1. TypeOK'
      BY <1>7, <2>1, <2>2 DEF TxErase, TypeOK, Created, counts, owner, rx
    <3>2. Control'
      BY <1>7, <2>2 DEF TxErase, Control, counts, owner, rx
    <3>3. QED
      BY <3>1, <3>2
  <2>3. CASE id \in DOMAIN m_peers /\ Erase("tx", id) /\ txpc' = "event"
    <3>1. /\ DOMAIN m_peers' \subseteq DOMAIN m_peers
          /\ \A i \in DOMAIN m_peers' : m_peers'[i] = m_peers[i]
      BY <2>3 DEF Erase, Restrict
    <3>2. m_peers[id] \in Created /\ m_peers[id] # 0
      BY <2>3, CreatedPeers DEF TypeOK
    <3>3. dropping' \in [Deleters -> Created \cup {0}]
      BY <2>3, <3>2 DEF Erase, TypeOK
    <3>4. TypeOK'
      BY <1>7, <2>1, <2>3, <3>1, <3>3 DEF TxErase, TypeOK, Created, counts, owner, rx
    <3>5. \A u \in Deleters : dropping'[u] = IF u = "tx" THEN m_peers[id] ELSE dropping[u]
      BY <2>3, DroppingExcept DEF Erase
    <3>6. Control'
      BY <1>7, <2>3, <3>2, <3>5 DEF TxErase, Control, counts, owner, rx
    <3>7. QED
      BY <3>4, <3>6
  <2>4. QED
    BY <2>1, <2>2, <2>3
<1>8. CASE TxEvent
  <2>1. dropping["tx"] # 0
    BY <1>8 DEF TxEvent, Control
  <2>2. EventQueueOK'
    BY <1>8, <2>1, PutRemovedTypes DEF TxEvent
  <2>3. TypeOK'
    BY <1>8, <2>2 DEF TxEvent, EventQueueOK, TypeOK, Created, table, counts, ends, owner, rx
  <2>4. Control'
    BY <1>8 DEF TxEvent, Control, table, counts, ends, owner, rx
  <2>5. QED
    BY <2>3, <2>4
<1>9. CASE TxDrop
  <2>1. dropping["tx"] # 0 /\ Drop("tx")
    BY <1>9 DEF TxDrop, Control
  <2>2. /\ dropping["tx"] \in Created
        /\ dropping' \in [Deleters -> Created \cup {0}]
    BY <2>1 DEF Drop, TypeOK
  <2>3. TypeOK'
    BY <1>9, <2>1, <2>2 DEF TxDrop, Drop, TypeOK, Created, table, counts, owner, rx
  <2>4. \A u \in Deleters : dropping'[u] = IF u = "tx" THEN 0 ELSE dropping[u]
    BY <2>1, DroppingExcept DEF Drop
  <2>5. Control'
    BY <1>9, <2>4 DEF TxDrop, Control, table, counts, owner, rx
  <2>6. QED
    BY <2>3, <2>5
<1>10. CASE TxGoOn
  <2>1. TypeOK'
    BY <1>10 DEF TxGoOn, TypeOK, Created, table, counts, ends, owner, rx
  <2>2. Control'
    BY <1>10 DEF TxGoOn, Control, table, counts, ends, owner, rx
  <2>3. QED
    BY <2>1, <2>2
<1>11. CASE TxStop
  <2>1. TypeOK'
    BY <1>11 DEF TxStop, TypeOK, Created, table, counts, ends, owner, rx
  <2>2. Control'
    BY <1>11 DEF TxStop, Control, table, counts, ends, owner, rx
  <2>3. QED
    BY <2>1, <2>2
<1>12. CASE Command
  <2> DEFINE p == GetPeer(Head(m_command_queue))
  <2>1. m_command_queue' \in Seq(Ids)
    BY <1>12 DEF Command, TypeOK
  <2>2. CASE UNCHANGED << counts, txpc >>
    <3>1. TypeOK'
      BY <1>12, <2>1, <2>2 DEF Command, TypeOK, Created, table, counts, ends, owner, rx
    <3>2. Control'
      BY <1>12, <2>2 DEF Command, Control, table, counts, ends, owner, rx
    <3>3. QED
      BY <3>1, <3>2
  <2>3. CASE p # 0 /\ Take("tx", p) /\ txpc' = "mark"
    <3>1. /\ m_usage' \in [Peer -> Nat]
          /\ helper' \in [Slots -> Created \cup {0}]
      BY <2>3, TakeTypes DEF Slots
    <3>2. TypeOK'
      BY <1>12, <2>1, <2>3, <3>1 DEF Command, TypeOK, Created, table, ends, owner, rx
    <3>3. \A u \in Slots : helper'[u] = IF u = "tx" THEN p ELSE helper[u]
      BY <2>3, HelperExcept DEF Take, Slots
    <3>4. Control'
      BY <1>12, <2>3, <3>3 DEF Command, Control, table, ends, owner, rx, Slots
    <3>5. QED
      BY <3>2, <3>4
  <2>4. QED
    BY <1>12, <2>2, <2>3 DEF Command
<1>13. CASE Mark
  <2>1. helper["tx"] # 0 /\ Release("tx")
    BY <1>13 DEF Mark, Control
  <2>2. /\ m_usage' \in [Peer -> Nat] /\ freed' \subseteq Created
        /\ helper' \in [Slots -> Created \cup {0}]
    BY <2>1, ReleaseTypes DEF Slots
  <2>3. helper["tx"] \in Created
    BY <2>1 DEF TypeOK, Slots
  <2>4. TypeOK'
    BY <1>13, <2>2, <2>3 DEF Mark, TypeOK, Created, table, owner, rx
  <2>5. \A u \in Slots : helper'[u] = IF u = "tx" THEN 0 ELSE helper[u]
    BY <2>1, HelperExcept DEF Release, Slots
  <2>6. Control'
    BY <1>13, <2>5 DEF Mark, Control, table, owner, rx, Slots
  <2>7. QED
    BY <2>4, <2>6
<1>14. CASE EndCommands
  <2>1. TypeOK'
    BY <1>14 DEF EndCommands, TypeOK, Created, table, counts, ends, owner, rx
  <2>2. Control'
    BY <1>14 DEF EndCommands, Control, table, counts, ends, owner, rx
  <2>3. QED
    BY <2>1, <2>2
<1>15. QED
  BY <1>1, <1>2, <1>3, <1>4, <1>5, <1>6, <1>7, <1>8, <1>9, <1>10, <1>11, <1>12,
     <1>13, <1>14 DEF Tx

LEMMA OwnerSteps == TypeControl /\ UsageCounts /\ Owner => TypeControl'
<1> SUFFICES ASSUME TypeOK, Control, UsageCounts, Owner PROVE TypeOK' /\ Control'
  BY DEF TypeControl
<1>1. CASE PopEvent
  <2>1. Head(m_event_queue).id \in Ids
    <3>1. Head(m_event_queue) \in [type : {"added", "removed"}, id : Ids]
                              \cup [type : {"data"}, id : Ids, msg : {"data"}]
      BY <1>1, HeadTailProperties DEF PopEvent, TypeOK
    <3>2. QED
      BY <3>1
  <2>2. EventQueueOK'
    BY <1>1, HeadTailProperties DEF PopEvent, TypeOK, EventQueueOK
  <2>3. clients' \subseteq clients \cup {Head(m_event_queue).id}
    BY <1>1 DEF PopEvent
  <2>4. TypeOK'
    BY <1>1, <2>1, <2>2, <2>3
       DEF PopEvent, EventQueueOK, TypeOK, Created, table, counts, ends, rx, tx
  <2>5. Control'
    BY <1>1 DEF PopEvent, Control, table, counts, ends, rx, tx
  <2>6. QED
    BY <2>4, <2>5
<1>2. ASSUME NEW id \in Ids, DisconnectPeer(id) PROVE TypeOK' /\ Control'
  <2>1. m_command_queue' \in Seq(Ids)
    <3>1. m_command_queue \in Seq(Ids)
      BY DEF TypeOK
    <3>2. Append(m_command_queue, id) \in Seq(Ids)
      BY <3>1
    <3>3. QED
      BY <1>2, <3>1, <3>2 DEF DisconnectPeer, PutCommand
  <2>2. asks' \in 0 .. MaxAsks
    BY <1>2, PeersAssumption DEF DisconnectPeer, TypeOK
  <2>3. TypeOK'
    BY <1>2, <2>1, <2>2 DEF DisconnectPeer, TypeOK, Created, table, counts, ends, rx, tx
  <2>4. Control'
    BY <1>2 DEF DisconnectPeer, Control, table, counts, ends, rx, tx
  <2>5. QED
    BY <2>3, <2>4
<1>3. ASSUME NEW id \in Ids, GetPeerAddress(id) PROVE TypeOK' /\ Control'
  <2>1. GetPeer(id) # 0 /\ Take("sv", GetPeer(id)) /\ phase = "up"
    BY <1>3 DEF GetPeerAddress, Free
  <2>2. /\ m_usage' \in [Peer -> Nat]
        /\ helper' \in [Slots -> Created \cup {0}]
    BY <2>1, TakeTypes DEF Slots
  <2>3. TypeOK'
    BY <1>3, <2>2 DEF GetPeerAddress, TypeOK, Created, table, ends, owner, rx, tx
  <2>4. \A u \in Slots : helper'[u] = IF u = "sv" THEN GetPeer(id) ELSE helper[u]
    BY <2>1, HelperExcept DEF Take, Slots
  <2>5. Control'
    BY <1>3, <2>1, <2>4 DEF GetPeerAddress, Control, table, ends, owner, rx, tx, Slots
  <2>6. QED
    BY <2>3, <2>5
<1>4. CASE GotPeerAddress
  <2>1. helper["sv"] # 0 /\ Release("sv")
    BY <1>4 DEF GotPeerAddress
  <2>2. /\ m_usage' \in [Peer -> Nat] /\ freed' \subseteq Created
        /\ helper' \in [Slots -> Created \cup {0}]
    BY <2>1, ReleaseTypes DEF Slots
  <2>3. TypeOK'
    BY <1>4, <2>2 DEF GotPeerAddress, TypeOK, Created, table, owner, rx, tx
  <2>4. \A u \in Slots : helper'[u] = IF u = "sv" THEN 0 ELSE helper[u]
    BY <2>1, HelperExcept DEF Release, Slots
  <2>5. Control'
    BY <1>4, <2>4 DEF GotPeerAddress, Control, table, owner, rx, tx, Slots
  <2>6. QED
    BY <2>3, <2>5
<1>5. CASE Close
  <2>1. TypeOK'
    BY <1>5 DEF Close, TypeOK, Created, table, counts, ends, owner, rx, tx
  <2>2. Control'
    BY <1>5 DEF Close, Free, Control, table, counts, ends, owner, rx, tx
  <2>3. QED
    BY <2>1, <2>2
<1>6. CASE Destroy
  <2>1. DOMAIN m_peers' = {}
    BY <1>6 DEF Destroy
  <2>2. freed' \subseteq Created
    BY <1>6 DEF Destroy, TypeOK
  <2>3. TypeOK'
    BY <1>6, <2>1, <2>2 DEF Destroy, TypeOK, Created, counts, owner, rx, tx
  <2>4. Control'
    BY <1>6 DEF Destroy, Control, counts, owner, rx, tx
  <2>5. QED
    BY <2>3, <2>4
<1>7. QED
  BY <1>1, <1>2, <1>3, <1>4, <1>5, <1>6 DEF Owner

\* Every step keeps the types and the places the threads can be in.
LEMMA TypeControlSteps == TypeControl /\ UsageCounts /\ [Next]_vars => TypeControl'
<1> SUFFICES ASSUME TypeControl, UsageCounts, [Next]_vars PROVE TypeControl'
  OBVIOUS
<1>1. CASE Receive
  BY <1>1, TypeReceive, ControlReceive DEF TypeControl
<1>2. CASE UNCHANGED vars
  BY <1>2 DEF vars, table, counts, ends, rx, owner, tx, TypeControl, TypeOK, Control, Created
<1>3. QED
  BY <1>1, <1>2, RxSteps, TxSteps, OwnerSteps DEF Next, Done
-----------------------------------------------------------------------------
(* Every step has one of the seven effects. *)

LEMMA TakeEffect ==
    ASSUME TypeOK, NEW s \in Slots, helper[s] = 0, NEW id, GetPeer(id) # 0,
           Take(s, GetPeer(id)), UNCHANGED << born, m_peers, ends >>
    PROVE  Effect
<1>1. GetPeer(id) \in InTable \ m_pending_deletion
  BY GetPeerFinds
<1>2. QED
  BY <1>1 DEF Effect, Takes

LEMMA ReleaseEffect ==
    ASSUME NEW s \in Slots, helper[s] # 0, Release(s),
           UNCHANGED << born, m_peers, m_pending_deletion, dropping >>
    PROVE  Effect
BY DEF Effect, Releases

LEMMA NothingEffect ==
    ASSUME UNCHANGED << table, counts, ends >>
    PROVE  Effect
BY DEF Effect, Nothing, table

LEMMA EraseEffect ==
    ASSUME NEW t \in Deleters, NEW id \in DOMAIN m_peers, dropping[t] = 0, Erase(t, id),
           UNCHANGED << born, counts, m_pending_deletion, freed >>
    PROVE  Effect
BY DEF Effect, Erases

LEMMA DropEffect ==
    ASSUME NEW t \in Deleters, dropping[t] # 0, Drop(t),
           UNCHANGED << born, m_peers, counts >>
    PROVE  Effect
BY DEF Effect, Drops

LEMMA ReceiveEffect == TypeControl /\ Receive => Effect
<1> SUFFICES ASSUME TypeOK, Control, Receive PROVE Effect
  BY DEF TypeControl
<1>1. PICK kind \in Kinds :
         \/ \E addr \in Addrs : ReceiveKnock(addr, kind)
         \/ \E addr \in Addrs, id \in Ids :
               ReceiveNew(addr, id, kind) \/ ReceiveKnown(addr, id, kind)
         \/ \E id \in Ids : Unbuffer(id, kind)
  BY DEF Receive
<1>2. ASSUME NEW addr \in Addrs, ReceiveKnock(addr, kind) PROVE Effect
  BY <1>2, NothingEffect DEF ReceiveKnock
<1>3. ASSUME NEW addr \in Addrs, NEW id \in Ids, ReceiveNew(addr, id, kind)
      PROVE  Effect
  BY <1>3 DEF ReceiveNew, Effect, Creates
<1>4. ASSUME NEW addr \in Addrs, NEW id \in Ids, ReceiveKnown(addr, id, kind)
      PROVE  Effect
  BY <1>4, NothingEffect DEF ReceiveKnown
<1>5. ASSUME NEW id \in Ids, Unbuffer(id, kind) PROVE Effect
  <2>1. GetPeer(id) # 0 /\ Take("rx", GetPeer(id)) /\ helper["rx"] = 0
    BY <1>5 DEF Unbuffer, MayReceive, Control
  <2>2. QED
    BY <1>5, <2>1, TakeEffect DEF Unbuffer, Slots, table
<1>6. QED
  BY <1>1, <1>2, <1>3, <1>4, <1>5

LEMMA RxEffect == TypeControl /\ Rx => Effect
<1> SUFFICES ASSUME TypeOK, Control, Rx PROVE Effect
  BY DEF TypeControl
<1>1. CASE Find
  <2> DEFINE p == GetPeer(packet.id)
  <2>1. CASE Accepted(p) /\ Take("rx", p)
    <3>1. helper["rx"] = 0 /\ p # 0
      BY <1>1, <2>1 DEF Find, Control, Accepted
    <3>2. QED
      BY <1>1, <2>1, <3>1, TakeEffect DEF Find, Slots
  <2>2. CASE UNCHANGED << counts, half_open >>
    BY <1>1, <2>2, NothingEffect DEF Find, table
  <2>3. QED
    BY <1>1, <2>1, <2>2 DEF Find
<1>2. CASE ProcessPacket
  <2> DEFINE p == GetPeer(packet.id)
  <2>1. CASE p # 0 /\ Take("rx2", p)
    <3>1. helper["rx2"] = 0
      BY <1>2 DEF ProcessPacket, Control
    <3>2. QED
      BY <1>2, <2>1, <3>1, TakeEffect DEF ProcessPacket, Slots, table
  <2>2. CASE UNCHANGED counts
    BY <1>2, <2>2, NothingEffect DEF ProcessPacket
  <2>3. QED
    BY <1>2, <2>1, <2>2 DEF ProcessPacket
<1>3. CASE HandleDisco
  <2>1. CASE packet.id \in DOMAIN m_peers /\ Erase("rx", packet.id)
             /\ UNCHANGED << freed, counts >>
    <3>1. dropping["rx"] = 0
      BY <1>3 DEF HandleDisco, Control
    <3>2. QED
      BY <1>3, <2>1, <3>1, EraseEffect DEF HandleDisco
  <2>2. CASE Release("rx2") /\ UNCHANGED << m_peers, dropping >>
    <3>1. helper["rx2"] # 0
      BY <1>3 DEF HandleDisco, Control
    <3>2. QED
      BY <1>3, <2>2, <3>1, ReleaseEffect DEF HandleDisco, Slots
  <2>3. QED
    BY <1>3, <2>1, <2>2 DEF HandleDisco
<1>4. CASE HandleOther
  BY <1>4, ReleaseEffect DEF HandleOther, Control, Slots, table
<1>5. CASE RxEvent
  BY <1>5, NothingEffect DEF RxEvent
<1>6. CASE RxDrop
  BY <1>6, DropEffect DEF RxDrop, Control, table
<1>7. CASE RxUnwind
  BY <1>7, ReleaseEffect DEF RxUnwind, Control, Slots, table
<1>8. CASE RxReturn
  BY <1>8, ReleaseEffect DEF RxReturn, Control, Slots, table
<1>9. CASE RxPut
  BY <1>9, NothingEffect DEF RxPut
<1>10. CASE RxLeave
  BY <1>10, ReleaseEffect DEF RxLeave, Control, Slots, table
<1>11. CASE RxStop
  BY <1>11, NothingEffect DEF RxStop
<1>12. QED
  BY <1>1, <1>2, <1>3, <1>4, <1>5, <1>6, <1>7, <1>8, <1>9, <1>10, <1>11 DEF Rx

LEMMA LookEffect ==
    ASSUME TypeOK, Control, NEW from \in {"timeouts", "send"}, NEW to, Look(from, to)
    PROVE  Effect
<1>1. PICK id \in todo :
         LET p == GetPeer(id) IN
         \/ p = 0 /\ UNCHANGED << counts, txpc >>
         \/ p # 0 /\ Take("tx", p) /\ txpc' = to
  BY DEF Look
<1>2. helper["tx"] = 0
  BY DEF Look, Control
<1>3. CASE UNCHANGED counts
  BY <1>3, NothingEffect DEF Look
<1>4. CASE GetPeer(id) # 0 /\ Take("tx", GetPeer(id))
  BY <1>2, <1>4, TakeEffect DEF Look, Slots, table
<1>5. QED
  BY <1>1, <1>3, <1>4

LEMMA JudgeEffect ==
    ASSUME Control, NEW from \in {"timed_out", "pending"}, NEW to, NEW dies,
           Judge(from, to, dies)
    PROVE  Effect
BY ReleaseEffect DEF Judge, Control, Slots, table

LEMMA TxEffect == TypeControl /\ Tx => Effect
<1> SUFFICES ASSUME TypeOK, Control, Tx PROVE Effect
  BY DEF TypeControl
<1>1. CASE LookTimeout \/ LookPending
  BY <1>1, LookEffect DEF LookTimeout, LookPending
<1>2. CASE EndTimeouts \/ EndPending
  BY <1>2, NothingEffect DEF EndTimeouts, EndPending, Looked
<1>3. ASSUME NEW dies \in BOOLEAN, JudgeTimeout(dies) \/ JudgePending(dies)
      PROVE  Effect
  BY <1>3, JudgeEffect DEF JudgeTimeout, JudgePending
<1>4. CASE TxErase
  <2>1. PICK id \in doomed :
           \/ id \notin DOMAIN m_peers /\ UNCHANGED << m_peers, dropping, txpc >>
           \/ id \in DOMAIN m_peers /\ Erase("tx", id) /\ txpc' = "event"
    BY <1>4 DEF TxErase
  <2>2. CASE UNCHANGED << m_peers, dropping >>
    BY <1>4, <2>2, NothingEffect DEF TxErase, table, ends
  <2>3. CASE id \in DOMAIN m_peers /\ Erase("tx", id)
    BY <1>4, <2>3, EraseEffect DEF TxErase, Control
  <2>4. QED
    BY <2>1, <2>2, <2>3
<1>5. CASE TxEvent
  BY <1>5, NothingEffect DEF TxEvent
<1>6. CASE TxDrop
  BY <1>6, DropEffect DEF TxDrop, Control, table
<1>7. CASE TxGoOn
  BY <1>7, NothingEffect DEF TxGoOn
<1>8. CASE TxStop
  BY <1>8, NothingEffect DEF TxStop
<1>9. CASE Command
  <2> DEFINE p == GetPeer(Head(m_command_queue))
  <2>1. CASE UNCHANGED counts
    BY <1>9, <2>1, NothingEffect DEF Command
  <2>2. CASE p # 0 /\ Take("tx", p)
    BY <1>9, <2>2, TakeEffect DEF Command, Control, Slots, table
  <2>3. QED
    BY <1>9, <2>1, <2>2 DEF Command
<1>10. CASE Mark
  BY <1>10, ReleaseEffect DEF Mark, Control, Slots, table
<1>11. CASE EndCommands
  BY <1>11, NothingEffect DEF EndCommands
<1>12. QED
  BY <1>1, <1>2, <1>3, <1>4, <1>5, <1>6, <1>7, <1>8, <1>9, <1>10, <1>11 DEF Tx

LEMMA OwnerEffect == TypeControl /\ Owner => Effect
<1> SUFFICES ASSUME TypeOK, Control, Owner PROVE Effect
  BY DEF TypeControl
<1>1. CASE PopEvent
  BY <1>1, NothingEffect DEF PopEvent
<1>2. ASSUME NEW id \in Ids, DisconnectPeer(id) PROVE Effect
  BY <1>2, NothingEffect DEF DisconnectPeer
<1>3. ASSUME NEW id \in Ids, GetPeerAddress(id) PROVE Effect
  BY <1>3, TakeEffect DEF GetPeerAddress, Free, Slots, table
<1>4. CASE GotPeerAddress
  BY <1>4, ReleaseEffect DEF GotPeerAddress, Slots, table
<1>5. CASE Close
  BY <1>5, NothingEffect DEF Close
<1>6. CASE Destroy
  <2>1. \A s \in Slots : helper[s] = 0
    BY <1>6 DEF Destroy, Control, Slots
  <2>2. \A t \in Deleters : dropping[t] = 0
    BY <1>6 DEF Destroy, Control
  <2>3. QED
    BY <1>6, <2>1, <2>2 DEF Destroy, Effect, Destroys, InTable
<1>7. QED
  BY <1>1, <1>2, <1>3, <1>4, <1>5, <1>6 DEF Owner

LEMMA StepEffect == TypeControl /\ [Next]_vars => Effect
<1> SUFFICES ASSUME TypeControl, [Next]_vars PROVE Effect
  OBVIOUS
<1>1. CASE UNCHANGED vars
  BY <1>1 DEF vars, table, Effect, Nothing
<1>2. QED
  BY <1>1, ReceiveEffect, RxEffect, TxEffect, OwnerEffect DEF Next, Done
-----------------------------------------------------------------------------
(* The effects keep the invariants about the peers. *)

\* Nobody holds a peer whose count is 0, somebody one whose count is not.
LEMMA CountMeaning ==
    ASSUME TypeOK, UsageCounts, NEW p \in Peer
    PROVE  m_usage[p] = 0 <=> \A s \in Slots : helper[s] # p
<1>1. m_usage[p] = Cardinality({s \in Slots : helper[s] = p})
  BY DEF UsageCounts
<1>2. m_usage[p] = 0 <=> {s \in Slots : helper[s] = p} = {}
  BY <1>1, HoldersFinite, FS_EmptySet
<1>3. QED
  BY <1>2

LEMMA CountsKept == TypeOK /\ UsageCounts /\ Effect => UsageCounts'
<1> SUFFICES ASSUME TypeOK, UsageCounts, Effect PROVE UsageCounts'
  OBVIOUS
<1>1. CASE Takes
  <2>1. PICK s \in Slots, p \in InTable \ m_pending_deletion :
           helper[s] = 0 /\ Take(s, p)
    BY <1>1 DEF Takes
  <2>2. p \in Peer
    BY CreatedPeers
  <2>3. \A u \in Slots : helper'[u] = IF u = s THEN p ELSE helper[u]
    BY <2>1, HelperExcept DEF Take
  <2> SUFFICES ASSUME NEW q \in Peer
               PROVE  m_usage'[q] = Cardinality({u \in Slots : helper'[u] = q})
    BY DEF UsageCounts
  <2> DEFINE H == {u \in Slots : helper[u] = q}
  <2>4. m_usage[q] = Cardinality(H) /\ IsFiniteSet(H)
    BY HoldersFinite DEF UsageCounts
  <2>5. CASE q = p
    <3>1. s \notin H
      BY <2>1, <2>2, <2>5 DEF Peer
    <3>2. {u \in Slots : helper'[u] = q} = H \cup {s}
      BY <2>3, <2>5
    <3>3. Cardinality(H \cup {s}) = Cardinality(H) + 1
      BY <2>4, <3>1, FS_AddElement
    <3>4. m_usage'[q] = m_usage[q] + 1
      BY <2>1, <2>5 DEF Take, TypeOK
    <3>5. QED
      BY <2>4, <3>2, <3>3, <3>4
  <2>6. CASE q # p
    <3>1. {u \in Slots : helper'[u] = q} = H
      BY <2>1, <2>3, <2>6 DEF Peer
    <3>2. m_usage'[q] = m_usage[q]
      BY <2>1, <2>6 DEF Take, TypeOK
    <3>3. QED
      BY <2>4, <3>1, <3>2
  <2>7. QED
    BY <2>5, <2>6
<1>2. CASE Releases
  <2>1. PICK s \in Slots : helper[s] # 0 /\ Release(s)
    BY <1>2 DEF Releases
  <2>2. helper[s] \in Peer
    BY <2>1, CreatedPeers DEF TypeOK
  <2>3. \A u \in Slots : helper'[u] = IF u = s THEN 0 ELSE helper[u]
    BY <2>1, HelperExcept DEF Release
  <2> SUFFICES ASSUME NEW q \in Peer
               PROVE  m_usage'[q] = Cardinality({u \in Slots : helper'[u] = q})
    BY DEF UsageCounts
  <2> DEFINE H == {u \in Slots : helper[u] = q}
  <2>4. m_usage[q] = Cardinality(H) /\ IsFiniteSet(H)
    BY HoldersFinite DEF UsageCounts
  <2>5. CASE q = helper[s]
    <3>1. s \in H
      BY <2>5
    <3>2. {u \in Slots : helper'[u] = q} = H \ {s}
      BY <2>3, <2>5 DEF Peer
    <3>3. Cardinality(H \ {s}) = Cardinality(H) - 1
      BY <2>4, <3>1, FS_RemoveElement
    <3>4. m_usage'[q] = m_usage[q] - 1
      BY <2>1, <2>5 DEF Release, TypeOK
    <3>5. QED
      BY <2>4, <3>2, <3>3, <3>4
  <2>6. CASE q # helper[s]
    <3>1. {u \in Slots : helper'[u] = q} = H
      BY <2>3, <2>6 DEF Peer
    <3>2. m_usage'[q] = m_usage[q]
      BY <2>1, <2>6 DEF Release, TypeOK
    <3>3. QED
      BY <2>4, <3>1, <3>2
  <2>7. QED
    BY <2>5, <2>6
<1>3. CASE UNCHANGED counts
  BY <1>3 DEF counts, UsageCounts
<1>4. QED
  BY <1>1, <1>2, <1>3
     DEF Effect, Nothing, Creates, Erases, Drops, Destroys

\* A peer is in the table under one id only.
LEMMA TableInjective ==
    ASSUME Placed, NEW i \in DOMAIN m_peers, NEW j \in DOMAIN m_peers,
           m_peers[i] = m_peers[j]
    PROVE  i = j
<1>1. born[m_peers[i]].id = i /\ born[m_peers[j]].id = j
  BY DEF Placed
<1>2. QED
  BY <1>1

\* What createPeer adds to the table.
LEMMA CreatesTable ==
    ASSUME TypeOK, NEW addr \in Addrs, NEW id \in Ids, CreatePeer(addr, id)
    PROVE  /\ \A p \in Created : born'[p] = born[p]
           /\ born'[Len(born) + 1] = [id |-> id, addr |-> addr]
           /\ DOMAIN m_peers' = DOMAIN m_peers \cup {id} /\ id \notin DOMAIN m_peers
           /\ m_peers'[id] = Len(born) + 1
           /\ \A i \in DOMAIN m_peers : m_peers'[i] = m_peers[i]
           /\ InTable' = InTable \cup {Len(born) + 1}
<1>1. Len(born) \in Nat /\ born \in Seq([id : Ids, addr : Addrs])
  BY DEF TypeOK
<1>2. /\ \A p \in Created : born'[p] = born[p]
      /\ born'[Len(born) + 1] = [id |-> id, addr |-> addr]
  BY <1>1 DEF CreatePeer, Created
<1>3. /\ DOMAIN m_peers' = DOMAIN m_peers \cup {id} /\ id \notin DOMAIN m_peers
      /\ m_peers'[id] = Len(born) + 1
      /\ \A i \in DOMAIN m_peers : m_peers'[i] = m_peers[i]
  BY DEF CreatePeer
<1>4. InTable' = InTable \cup {Len(born) + 1}
  BY <1>3 DEF InTable
<1>5. QED
  BY <1>2, <1>3, <1>4

LEMMA PlacedKept == TypeOK /\ Placed /\ Effect => Placed'
<1> SUFFICES ASSUME TypeOK, Placed, Effect PROVE Placed'
  OBVIOUS
<1>1. CASE Nothing
  BY <1>1 DEF Nothing, Placed, Created, InTable, Dropped, ends
<1>2. CASE Takes
  BY <1>2 DEF Takes, Placed, Created, InTable, Dropped, ends
<1>3. CASE Releases
  <2>1. PICK s \in Slots :
           Release(s) /\ UNCHANGED << born, m_peers, m_pending_deletion, dropping >>
    BY <1>3 DEF Releases
  <2>2. freed \subseteq freed' /\ freed' \subseteq freed \cup m_pending_deletion
    BY <2>1 DEF Release
  <2>3. InTable' = InTable /\ Dropped' = Dropped /\ Created' = Created
    BY <2>1 DEF InTable, Dropped, Created
  <2>4. QED
    BY <2>1, <2>2, <2>3 DEF Placed
<1>4. CASE Creates
  <2>1. PICK addr \in Addrs, id \in Ids : CreatePeer(addr, id) /\ UNCHANGED << counts, ends >>
    BY <1>4 DEF Creates
  <2> DEFINE n == Len(born) + 1
  <2>2. Created' = Created \cup {n} /\ n \notin Created
    BY <2>1, CreatesTypes
  <2>3. Dropped' = Dropped
    BY <2>1 DEF Dropped, ends
  <2>4. InTable' = InTable \cup {n}
    BY <2>1, CreatesTable
  <2>5. /\ Created' \subseteq InTable' \cup Dropped' \cup m_pending_deletion' \cup freed'
        /\ (m_pending_deletion' \cup freed') \cap (InTable' \cup Dropped') = {}
        /\ InTable' \cap Dropped' = {}
    BY <2>1, <2>2, <2>3, <2>4, CreatedPeers DEF Placed, TypeOK, ends
  <2>6. \A i \in DOMAIN m_peers' : born'[m_peers'[i]].id = i
    <3> SUFFICES ASSUME NEW i \in DOMAIN m_peers' PROVE born'[m_peers'[i]].id = i
      OBVIOUS
    <3>1. /\ \A p \in Created : born'[p] = born[p]
          /\ born'[n] = [id |-> id, addr |-> addr] /\ m_peers'[id] = n
          /\ DOMAIN m_peers' = DOMAIN m_peers \cup {id}
          /\ \A j \in DOMAIN m_peers : m_peers'[j] = m_peers[j]
      BY <2>1, CreatesTable
    <3>2. CASE i = id
      BY <3>1, <3>2
    <3>3. CASE i # id
      <4>1. i \in DOMAIN m_peers /\ m_peers'[i] = m_peers[i] /\ m_peers[i] \in Created
        BY <3>1, <3>3 DEF TypeOK
      <4>2. born'[m_peers[i]] = born[m_peers[i]]
        BY <3>1, <4>1
      <4>3. QED
        BY <4>1, <4>2 DEF Placed
    <3>4. QED
      BY <3>2, <3>3
  <2>7. QED
    BY <2>1, <2>5, <2>6 DEF Placed, ends
<1>5. CASE Erases
  <2>1. PICK t \in Deleters, id \in DOMAIN m_peers :
           /\ dropping[t] = 0 /\ Erase(t, id)
           /\ UNCHANGED << born, counts, m_pending_deletion, freed >>
    BY <1>5 DEF Erases
  <2> DEFINE p == m_peers[id]
  <2>2. \A u \in Deleters : dropping'[u] = IF u = t THEN p ELSE dropping[u]
    BY <2>1, DroppingExcept DEF Erase
  <2>3. p \in InTable /\ p # 0 /\ p \notin Dropped
    BY <2>1, CreatedPeers DEF InTable, Placed
  <2>4. /\ DOMAIN m_peers' = DOMAIN m_peers \ {id}
        /\ \A i \in DOMAIN m_peers' : m_peers'[i] = m_peers[i]
    BY <2>1 DEF Erase, Restrict
  <2>5. InTable' = InTable \ {p}
    BY <2>1, <2>4, TableInjective DEF InTable
  <2>6. Dropped' = Dropped \cup {p}
    BY <2>1, <2>2, <2>3 DEF Dropped
  <2>7. \A u, v \in Deleters : dropping'[u] # 0 /\ dropping'[u] = dropping'[v] => u = v
    BY <2>2, <2>3 DEF Placed, Dropped
  <2>8. \A i \in DOMAIN m_peers' : born'[m_peers'[i]].id = i
    BY <2>1, <2>4 DEF Placed
  <2>9. /\ Created' \subseteq InTable' \cup Dropped' \cup m_pending_deletion' \cup freed'
        /\ (m_pending_deletion' \cup freed') \cap (InTable' \cup Dropped') = {}
        /\ InTable' \cap Dropped' = {}
    BY <2>1, <2>3, <2>5, <2>6 DEF Placed, Created
  <2>10. QED
    BY <2>7, <2>8, <2>9 DEF Placed
<1>6. CASE Drops
  <2>1. PICK t \in Deleters :
           dropping[t] # 0 /\ Drop(t) /\ UNCHANGED << born, m_peers, counts >>
    BY <1>6 DEF Drops
  <2> DEFINE p == dropping[t]
  <2>2. \A u \in Deleters : dropping'[u] = IF u = t THEN 0 ELSE dropping[u]
    BY <2>1, DroppingExcept DEF Drop
  <2>3. p \in Dropped
    BY <2>1 DEF Dropped
  <2>4. Dropped' = Dropped \ {p}
    BY <2>1, <2>2 DEF Dropped, Placed
  <2>5. /\ m_pending_deletion' = m_pending_deletion \cup {p}
        /\ freed \subseteq freed' /\ freed' \subseteq freed \cup {p}
    BY <2>1 DEF Drop
  <2>6. InTable' = InTable /\ Created' = Created
    BY <2>1 DEF InTable, Created
  <2>7. /\ Created' \subseteq InTable' \cup Dropped' \cup m_pending_deletion' \cup freed'
        /\ (m_pending_deletion' \cup freed') \cap (InTable' \cup Dropped') = {}
        /\ InTable' \cap Dropped' = {}
    BY <2>3, <2>4, <2>5, <2>6 DEF Placed
  <2>8. \A u, v \in Deleters : dropping'[u] # 0 /\ dropping'[u] = dropping'[v] => u = v
    BY <2>2 DEF Placed
  <2>9. QED
    BY <2>1, <2>7, <2>8 DEF Placed
<1>7. CASE Destroys
  <2>1. InTable' = {}
    BY <1>7 DEF Destroys, InTable
  <2>2. Dropped = {} /\ Dropped' = {} /\ Created' = Created
    BY <1>7 DEF Destroys, Dropped, Created
  <2>3. /\ Created' \subseteq InTable' \cup Dropped' \cup m_pending_deletion' \cup freed'
        /\ (m_pending_deletion' \cup freed') \cap (InTable' \cup Dropped') = {}
        /\ InTable' \cap Dropped' = {}
    BY <1>7, <2>1, <2>2 DEF Destroys, Placed
  <2>4. DOMAIN m_peers' = {} /\ \A t \in Deleters : dropping'[t] = 0
    BY <1>7 DEF Destroys
  <2>5. QED
    BY <2>3, <2>4 DEF Placed
<1>8. QED
  BY <1>1, <1>2, <1>3, <1>4, <1>5, <1>6, <1>7 DEF Effect

LEMMA FreedKept ==
    TypeOK /\ UsageCounts /\ Placed /\ FreedWhenUnused /\ Effect => FreedWhenUnused'
<1> SUFFICES ASSUME TypeOK, UsageCounts, Placed, FreedWhenUnused, Effect
             PROVE  FreedWhenUnused'
  OBVIOUS
<1> USE CreatedPeers
<1>1. CASE Takes
  <2>1. PICK s \in Slots, p \in InTable \ m_pending_deletion :
           Take(s, p) /\ UNCHANGED << born, m_peers, ends >>
    BY <1>1 DEF Takes
  <2>2. p \notin m_pending_deletion \cup freed
    BY <2>1 DEF Placed
  <2>3. \A q \in Created : q # p => m_usage'[q] = m_usage[q]
    BY <2>1 DEF Take, TypeOK
  <2>4. QED
    BY <2>1, <2>2, <2>3 DEF FreedWhenUnused, TypeOK, ends
<1>2. CASE Releases
  <2>1. PICK s \in Slots :
           /\ helper[s] # 0 /\ Release(s)
           /\ UNCHANGED << born, m_peers, m_pending_deletion, dropping >>
    BY <1>2 DEF Releases
  <2> DEFINE p == helper[s]
  <2>2. p \in Peer /\ p \in Created
    BY <2>1 DEF TypeOK
  <2>3. m_usage[p] # 0 /\ p \notin freed
    BY <2>1, <2>2, CountMeaning DEF FreedWhenUnused
  <2>4. m_usage'[p] = m_usage[p] - 1 /\ m_usage[p] \in Nat
    BY <2>1, <2>2 DEF Release, TypeOK
  <2>5. \A q \in Created : q # p => m_usage'[q] = m_usage[q]
    BY <2>1 DEF Release, TypeOK
  <2>6. freed' = IF p \in m_pending_deletion /\ m_usage[p] = 1 THEN freed \cup {p} ELSE freed
    BY <2>1 DEF Release
  <2>7. \A q \in m_pending_deletion' : m_usage'[q] = 0 => q \in freed'
    BY <2>1, <2>4, <2>5, <2>6 DEF FreedWhenUnused, TypeOK
  <2>8. \A q \in freed' : m_usage'[q] = 0
    BY <2>3, <2>4, <2>5, <2>6 DEF FreedWhenUnused, TypeOK
  <2>9. QED
    BY <2>7, <2>8 DEF FreedWhenUnused
<1>3. CASE Drops
  <2>1. PICK t \in Deleters :
           dropping[t] # 0 /\ Drop(t) /\ UNCHANGED << born, m_peers, counts >>
    BY <1>3 DEF Drops
  <2>2. QED
    BY <2>1 DEF Drop, FreedWhenUnused, counts
<1>4. CASE Destroys
  <2>1. \A q \in Peer : m_usage[q] = 0
    BY <1>4, CountMeaning, PeersAssumption DEF Destroys, Peer
  <2>2. \A q \in freed' : m_usage'[q] = 0
    BY <1>4, <2>1 DEF Destroys, TypeOK, counts
  <2>3. QED
    BY <1>4, <2>2 DEF Destroys, FreedWhenUnused, counts
<1>5. CASE Nothing \/ Creates \/ Erases
  BY <1>5 DEF Nothing, Creates, Erases, FreedWhenUnused, counts, ends
<1>6. QED
  BY <1>1, <1>2, <1>3, <1>4, <1>5 DEF Effect

LEMMA AddressesKept == TypeOK /\ Placed /\ OnePeerPerAddress /\ Effect => OnePeerPerAddress'
<1> SUFFICES ASSUME TypeOK, Placed, OnePeerPerAddress, Effect PROVE OnePeerPerAddress'
  OBVIOUS
<1>1. CASE Creates
  <2>1. PICK addr \in Addrs, id \in Ids : Known(addr) = {} /\ CreatePeer(addr, id)
    BY <1>1 DEF Creates
  <2>2. \A i \in DOMAIN m_peers : born[m_peers[i]].addr # addr
    <3>1. \A i \in DOMAIN m_peers : m_peers[i] \notin m_pending_deletion
      BY DEF Placed, InTable
    <3>2. QED
      BY <2>1, <3>1 DEF Known
  <2>3. \A i \in DOMAIN m_peers : born'[m_peers'[i]] = born[m_peers[i]]
    <3>1. /\ \A p \in Created : born'[p] = born[p]
          /\ \A i \in DOMAIN m_peers : m_peers'[i] = m_peers[i]
      BY <2>1, CreatesTable
    <3>2. \A i \in DOMAIN m_peers : m_peers[i] \in Created
      BY DEF TypeOK
    <3>3. QED
      BY <3>1, <3>2
  <2>4. born'[m_peers'[id]].addr = addr
    <3>1. /\ born'[Len(born) + 1] = [id |-> id, addr |-> addr]
          /\ m_peers'[id] = Len(born) + 1
      BY <2>1, CreatesTable
    <3>2. QED
      BY <3>1
  <2>5. DOMAIN m_peers' = DOMAIN m_peers \cup {id}
    BY <2>1, CreatesTable
  <2>6. QED
    BY <2>2, <2>3, <2>4, <2>5 DEF OnePeerPerAddress
<1>2. CASE Erases
  <2>1. PICK t \in Deleters, id \in DOMAIN m_peers : Erase(t, id) /\ UNCHANGED born
    BY <1>2 DEF Erases
  <2>2. /\ DOMAIN m_peers' \subseteq DOMAIN m_peers
        /\ \A i \in DOMAIN m_peers' : m_peers'[i] = m_peers[i]
    BY <2>1 DEF Erase, Restrict
  <2>3. QED
    BY <2>1, <2>2 DEF OnePeerPerAddress
<1>3. CASE Destroys
  BY <1>3 DEF Destroys, OnePeerPerAddress
<1>4. CASE Nothing \/ Takes \/ Releases \/ Drops
  BY <1>4 DEF Nothing, Takes, Releases, Drops, OnePeerPerAddress
<1>5. QED
  BY <1>1, <1>2, <1>3, <1>4 DEF Effect
-----------------------------------------------------------------------------
(* The theorems. *)

LEMMA InductiveStep == IInv /\ [Next]_vars => IInv'
<1> SUFFICES ASSUME IInv, [Next]_vars PROVE IInv'
  OBVIOUS
<1>1. TypeControl /\ Effect
  BY StepEffect DEF IInv, TypeControl
<1>2. TypeControl'
  BY <1>1, TypeControlSteps DEF IInv
<1>3. UsageCounts' /\ Placed' /\ FreedWhenUnused' /\ OnePeerPerAddress'
  BY <1>1, CountsKept, PlacedKept, FreedKept, AddressesKept DEF IInv
<1>4. QED
  BY <1>2, <1>3 DEF IInv, TypeControl

LEMMA Invariance == Spec => []IInv
<1>1. QED
  BY InitInv, InductiveStep, PTL DEF Spec

\* The variables keep their types, and the threads are where they say.
THEOREM TypeCorrect == Spec => []TypeOK
<1>1. IInv => TypeOK
  BY DEF IInv
<1>2. QED
  BY <1>1, Invariance, PTL

\* The usage count of a peer is the number of helpers that hold it, so that it
\* is never decremented below 0 (impl.h:102).
THEOREM UsageCountsHold == Spec => []UsageCounts
<1>1. IInv => UsageCounts
  BY DEF IInv
<1>2. QED
  BY <1>1, Invariance, PTL

\* No thread uses a peer that has been freed: not from a helper, from the
\* table, nor in the middle of deletePeer.
THEOREM NoDanglingHolds == Spec => []NoDangling
<1>1. IInv => NoDangling
  <2> SUFFICES ASSUME IInv PROVE NoDangling
    OBVIOUS
  <2>1. freed \cap Held = {}
    <3>1. ASSUME NEW s \in Slots, helper[s] # 0, helper[s] \in freed PROVE FALSE
      <4>1. helper[s] \in Peer /\ m_usage[helper[s]] = 0
        BY <3>1, CreatedPeers DEF IInv, TypeOK, FreedWhenUnused
      <4>2. QED
        BY <4>1, CountMeaning DEF IInv
    <3>2. QED
      BY <3>1 DEF Held
  <2>2. freed \cap (InTable \cup Dropped) = {}
    BY DEF IInv, Placed
  <2>3. QED
    BY <2>1, <2>2 DEF NoDangling
<1>2. QED
  BY <1>1, Invariance, PTL

\* A peer that nobody has a pointer to has been freed.
THEOREM NoLeakHolds == Spec => []NoLeak
<1>1. IInv => NoLeak
  <2> SUFFICES ASSUME IInv PROVE NoLeak
    OBVIOUS
  <2> USE CreatedPeers DEF IInv
  <2>1. m_pending_deletion \subseteq freed \cup Held
    <3> SUFFICES ASSUME NEW p \in m_pending_deletion, p \notin freed PROVE p \in Held
      OBVIOUS
    <3>1. p \in Peer /\ p # 0 /\ m_usage[p] # 0
      BY DEF TypeOK, FreedWhenUnused
    <3>2. PICK s \in Slots : helper[s] = p
      BY <3>1, CountMeaning
    <3>3. QED
      BY <3>1, <3>2 DEF Held
  <2>2. freed \subseteq Created
    BY DEF TypeOK
  <2>3. QED
    BY <2>1, <2>2 DEF NoLeak, Placed
<1>2. QED
  BY <1>1, Invariance, PTL

\* An address never has two peers in the table.
THEOREM OnePeerPerAddressHolds == Spec => []OnePeerPerAddress
<1>1. IInv => OnePeerPerAddress
  BY DEF IInv
<1>2. QED
  BY <1>1, Invariance, PTL
-----------------------------------------------------------------------------
(* The refinement: what each step is to PeerEvents.                        *)

Linked == [id \in Ids |-> Link(id)]

\* Ids given away once, and what the receive thread is about to put is data.
UniqueIds == \A p, q \in Created : born[p].id = born[q].id => p = q
Handing == rxpc \in {"return", "put"} => packet.kind \in {"data", "corrupt"}
OrderInv == IInv /\ UniqueIds /\ Handing

\* The steps of PeerEvents, and what clients does in each.
Quiet == UNCHANGED << Linked, InHand, m_event_queue, clients >>
Announces == \E id \in Ids : Abstract!Arrives(id) /\ UNCHANGED clients
Farewells == \E id \in Ids : Abstract!Leaves(id) /\ UNCHANGED clients
Grabs == \E id \in Ids : Abstract!Grab(id, "data") /\ UNCHANGED clients
Hands == Abstract!Hand /\ UNCHANGED clients
Pops == Abstract!Pop /\ PopEvent
Ends == Abstract!Close /\ UNCHANGED clients /\ phase' = "closed"
Told == \/ Quiet \/ Announces \/ Farewells \/ Grabs \/ Hands \/ Pops \/ Ends

LEMMA UniqueKept ==
    ASSUME ~ ReuseIds, TypeOK, UniqueIds, Effect
    PROVE  UniqueIds'
<1>1. CASE Creates
  <2>1. PICK addr \in Addrs, id \in Ids : CreatePeer(addr, id)
    BY <1>1 DEF Creates
  <2> DEFINE n == Len(born) + 1
  <2>2. Created' = Created \cup {n} /\ n \notin Created
    BY <2>1, CreatesTypes
  <2>3. (\A p \in Created : born'[p] = born[p]) /\ born'[n] = [id |-> id, addr |-> addr]
    BY <2>1, CreatesTable
  <2>4. \A q \in Created : born[q].id # id
    BY <2>1 DEF CreatePeer, Created
  <2> HIDE DEF n
  <2>5. \A q \in Created : born'[q].id # born'[n].id
    BY <2>3, <2>4
  <2>6. QED
    BY <2>2, <2>3, <2>5 DEF UniqueIds
<1>2. CASE Nothing \/ Takes \/ Releases \/ Erases \/ Drops \/ Destroys
  BY <1>2 DEF Nothing, Takes, Releases, Erases, Drops, Destroys, UniqueIds, Created
<1>3. QED
  BY <1>1, <1>2 DEF Effect

\* Links that do not change, and those that change as in PeerEvents.
LEMMA LinkSame ==
    ASSUME born' = born, Up' = Up
    PROVE  Linked' = Linked
BY DEF Linked, Link, Created

LEMMA LinkArrives ==
    ASSUME OrderInv, ~ ReuseIds, NEW addr \in Addrs, NEW id \in Ids, CreatePeer(addr, id),
           UNCHANGED << rxpc, txpc, dropping >> \/ (rxpc # "event" /\ rxpc' # "event"
                                                    /\ UNCHANGED << txpc, dropping >>)
    PROVE  Linked[id] = "none" /\ Linked' = [Linked EXCEPT ![id] = "up"]
<1> DEFINE n == Len(born) + 1
<1>1. Created' = Created \cup {n} /\ n \notin Created
  BY CreatesTypes DEF OrderInv, IInv
<1>2. /\ \A p \in Created : born'[p] = born[p]
      /\ born'[n] = [id |-> id, addr |-> addr]
      /\ InTable' = InTable \cup {n}
  BY CreatesTable DEF OrderInv, IInv
<1>3. Up' = Up \cup {n}
  BY <1>2 DEF Up, Leaving
<1>4. \A q \in Created : born[q].id # id
  BY DEF CreatePeer, Created
<1>5. Up \subseteq Created
  BY CreatedPeers DEF Up, Leaving, OrderInv, IInv, TypeOK, Control
<1> HIDE DEF n
<1>6. Link(id) = "none" /\ Link(id)' = "up"
  BY <1>1, <1>2, <1>3, <1>4 DEF Link
<1>7. ASSUME NEW j \in Ids, j # id PROVE Link(j)' = Link(j)
  <2>1. (\A p \in Created' : born'[p].id # j) <=> (\A p \in Created : born[p].id # j)
    BY <1>1, <1>2, <1>7
  <2>2. (\E p \in Up' : born'[p].id = j) <=> (\E p \in Up : born[p].id = j)
    BY <1>2, <1>3, <1>5, <1>7
  <2>3. QED
    BY <2>1, <2>2 DEF Link
<1>8. QED
  BY <1>6, <1>7 DEF Linked

LEMMA LinkLeaves ==
    ASSUME OrderInv, NEW p \in Up, p \in Created, born' = born, Up' = Up \ {p}
    PROVE  /\ born[p].id \in Ids /\ Linked[born[p].id] = "up"
           /\ Linked' = [Linked EXCEPT ![born[p].id] = "gone"]
<1> DEFINE id == born[p].id
<1>1. id \in Ids
  BY BornTypes DEF OrderInv, IInv
<1>2. Created' = Created /\ Up \subseteq Created
  BY CreatedPeers DEF Created, Up, Leaving, OrderInv, IInv, TypeOK, Control
<1>3. \A q \in Up' : born[q].id # id
  BY <1>2 DEF OrderInv, UniqueIds
<1>4. Link(id) = "up" /\ Link(id)' = "gone"
  BY <1>2, <1>3 DEF Link
<1>5. ASSUME NEW j \in Ids, j # id PROVE Link(j)' = Link(j)
  BY <1>2, <1>5 DEF Link
<1>6. QED
  BY <1>1, <1>4, <1>5 DEF Linked

\* What is erased from the table is being dropped, and still up.
LEMMA EraseTable ==
    ASSUME TypeOK, Placed, NEW t \in Deleters, NEW id \in DOMAIN m_peers, Erase(t, id)
    PROVE  /\ InTable' = InTable \ {m_peers[id]} /\ m_peers[id] \in InTable
           /\ \A u \in Deleters : dropping'[u] = IF u = t THEN m_peers[id] ELSE dropping[u]
<1>1. \A u \in Deleters : dropping'[u] = IF u = t THEN m_peers[id] ELSE dropping[u]
  BY DroppingExcept DEF Erase
<1>2. /\ DOMAIN m_peers' = DOMAIN m_peers \ {id}
      /\ \A i \in DOMAIN m_peers' : m_peers'[i] = m_peers[i]
  BY DEF Erase, Restrict
<1>3. InTable' = InTable \ {m_peers[id]}
  BY <1>2, TableInjective DEF InTable
<1>4. QED
  BY <1>1, <1>3 DEF InTable

LEMMA QuietStep ==
    ASSUME born' = born, Up' = Up, InHand' = InHand, UNCHANGED << m_event_queue, clients >>
    PROVE  Told
BY LinkSame DEF Told, Quiet

\* A step that leaves alone the table and who is being dropped.
LEMMA IdleStep ==
    ASSUME UNCHANGED << born, m_peers, dropping, m_event_queue, clients >>,
           rxpc' = rxpc \/ "event" \notin {rxpc, rxpc'},
           txpc' = txpc \/ "event" \notin {txpc, txpc'},
           InHand' = InHand
    PROVE  Told
<1>1. Up' = Up
  BY DEF Up, Leaving, InTable
<1>2. QED
  BY <1>1, QuietStep

LEMMA RemovedStep ==
    ASSUME OrderInv, NEW t \in Deleters, dropping[t] # 0, PutRemoved(t),
           dropping[t] \in Up, Up' = Up \ {dropping[t]}, born' = born,
           InHand' = InHand, clients' = clients
    PROVE  Told
<1> DEFINE p == dropping[t]
<1>1. p \in Created
  BY DEF OrderInv, IInv, TypeOK
<1>2. /\ born[p].id \in Ids /\ Linked[born[p].id] = "up"
      /\ Linked' = [Linked EXCEPT ![born[p].id] = "gone"]
  BY <1>1, LinkLeaves
<1>3. Abstract!Leaves(born[p].id)
  BY <1>2 DEF Abstract!Leaves, Abstract!Put, PutRemoved, Put, Linked
<1>4. QED
  BY <1>2, <1>3 DEF Told, Farewells
-----------------------------------------------------------------------------
LEMMA ToldReceive == OrderInv /\ ~ ReuseIds /\ Receive => Told
<1> SUFFICES ASSUME OrderInv, ~ ReuseIds, Receive PROVE Told
  OBVIOUS
<1>1. PICK kind \in Kinds :
         \/ \E addr \in Addrs : ReceiveKnock(addr, kind)
         \/ \E addr \in Addrs, id \in Ids :
               ReceiveNew(addr, id, kind) \/ ReceiveKnown(addr, id, kind)
         \/ \E id \in Ids : Unbuffer(id, kind)
  BY DEF Receive
<1>2. ASSUME NEW addr \in Addrs, ReceiveKnock(addr, kind) PROVE Told
  BY <1>2, IdleStep DEF ReceiveKnock, MayReceive, InHand, table, ends, owner, tx
<1>3. ASSUME NEW addr \in Addrs, NEW id \in Ids, ReceiveNew(addr, id, kind)
      PROVE  Told
  <2>1. /\ CreatePeer(addr, id) /\ rxpc = "idle" /\ rxpc' = "find"
        /\ UNCHANGED << txpc, dropping, clients >>
    BY <1>3 DEF ReceiveNew, MayReceive, ends, tx, owner
  <2>2. Linked[id] = "none" /\ Linked' = [Linked EXCEPT ![id] = "up"]
    BY <2>1, LinkArrives
  <2>3. InHand' = InHand
    BY <2>1 DEF InHand
  <2>4. m_event_queue' = Append(m_event_queue, [type |-> "added", id |-> id])
    BY <2>1 DEF CreatePeer, Put
  <2>5. Abstract!Arrives(id)
    BY <2>2, <2>3, <2>4 DEF Abstract!Arrives, Abstract!Put, Linked
  <2>6. QED
    BY <2>1, <2>5 DEF Told, Announces
<1>4. ASSUME NEW addr \in Addrs, NEW id \in Ids, ReceiveKnown(addr, id, kind)
      PROVE  Told
  BY <1>4, IdleStep DEF ReceiveKnown, MayReceive, InHand, table, ends, owner, tx
<1>5. ASSUME NEW id \in Ids, Unbuffer(id, kind) PROVE Told
  BY <1>5, IdleStep DEF Unbuffer, MayReceive, InHand, table, ends, owner, tx
<1>6. QED
  BY <1>1, <1>2, <1>3, <1>4, <1>5

LEMMA ToldRx == OrderInv /\ Rx => Told
<1> SUFFICES ASSUME OrderInv, Rx PROVE Told
  OBVIOUS
<1>1. CASE Find
  BY <1>1, IdleStep DEF Find, InHand, ends, owner, tx
<1>2. CASE ProcessPacket
  <2> DEFINE p == GetPeer(packet.id)
  <2>1. /\ UNCHANGED << born, m_peers, dropping, m_event_queue, clients, packet, txpc >>
        /\ rxpc = "process" /\ rxpc' \in {"leave", "handle"}
    BY <1>2 DEF ProcessPacket, table, ends, owner, tx
  <2>2. CASE InHand' = InHand
    BY <2>1, <2>2, IdleStep
  <2>3. CASE InHand' # InHand
    <3>1. InHand = <<>> /\ InHand' = << [type |-> "data", id |-> packet.id, msg |-> "data"] >>
      BY <2>1, <2>3 DEF InHand
    <3>2. rxpc' = "handle" /\ p # 0
      BY <1>2, <2>3 DEF ProcessPacket, InHand
    <3>3. packet.id \in DOMAIN m_peers /\ packet.id \in Ids
      BY <3>2 DEF GetPeer, OrderInv, IInv, TypeOK
    <3>4. m_peers[packet.id] \in Up /\ born[m_peers[packet.id]].id = packet.id
          /\ m_peers[packet.id] \in Created
      BY <3>3 DEF Up, InTable, OrderInv, IInv, Placed, TypeOK
    <3>5. Linked[packet.id] = "up"
      BY <3>3, <3>4 DEF Link, Linked
    <3>6. Linked' = Linked
      <4>1. Up' = Up
        BY <2>1 DEF Up, Leaving, InTable
      <4>2. QED
        BY <2>1, <4>1, LinkSame
    <3>7. Abstract!Grab(packet.id, "data")
      BY <2>1, <3>1, <3>5, <3>6 DEF Abstract!Grab, Linked
    <3>8. QED
      BY <2>1, <3>3, <3>7 DEF Told, Grabs
  <2>4. QED
    BY <2>2, <2>3
<1>3. CASE HandleDisco
  <2>1. InHand' = InHand
    BY <1>3 DEF HandleDisco, InHand
  <2>2. CASE packet.id \in DOMAIN m_peers /\ Erase("rx", packet.id) /\ rxpc' = "event"
    <3>1. /\ InTable' = InTable \ {m_peers[packet.id]} /\ m_peers[packet.id] \in InTable
          /\ \A u \in Deleters : dropping'[u] = IF u = "rx" THEN m_peers[packet.id]
                                                ELSE dropping[u]
      BY <2>2, EraseTable DEF OrderInv, IInv
    <3>2. Up' = Up
      BY <1>3, <2>2, <3>1 DEF HandleDisco, Up, Leaving, tx
    <3>3. QED
      BY <1>3, <2>1, <3>2, QuietStep DEF HandleDisco, owner
  <2>3. CASE rxpc' = "leave" /\ UNCHANGED << m_peers, dropping >>
    BY <1>3, <2>1, <2>3, IdleStep DEF HandleDisco, owner, tx
  <2>4. QED
    BY <1>3, <2>2, <2>3 DEF HandleDisco
<1>4. CASE HandleOther
  <2>1. packet \in Packet
    BY <1>4 DEF HandleOther, OrderInv, IInv, TypeOK, Control
  <2>2. packet.kind \in {"data", "corrupt", "ping"}
    BY <1>4, <2>1, PeersAssumption DEF HandleOther, Packet
  <2>3. InHand' = InHand
    BY <1>4, <2>2 DEF HandleOther, InHand
  <2>4. QED
    BY <1>4, <2>3, IdleStep DEF HandleOther, table, owner, tx
<1>5. CASE RxEvent
  <2>1. dropping["rx"] # 0 /\ dropping["rx"] \in Up /\ dropping["rx"] \notin InTable
    BY <1>5 DEF RxEvent, OrderInv, IInv, Control, Placed, Up, Leaving, Dropped
  <2>2. txpc = "event" => dropping["tx"] # dropping["rx"]
    BY <2>1 DEF OrderInv, IInv, Placed
  <2>3. Up' = Up \ {dropping["rx"]}
    BY <1>5, <2>1, <2>2 DEF RxEvent, Up, Leaving, InTable, table, ends, tx
  <2>4. InHand' = InHand /\ born' = born /\ clients' = clients
    BY <1>5 DEF RxEvent, InHand, table, owner
  <2>5. QED
    BY <1>5, <2>1, <2>3, <2>4, RemovedStep DEF RxEvent
<1>6. CASE RxDrop
  <2>1. Up' = Up /\ InHand' = InHand
    BY <1>6 DEF RxDrop, Drop, Up, Leaving, InTable, InHand, OrderInv, IInv, TypeOK,
       table, tx
  <2>2. QED
    BY <1>6, <2>1, QuietStep DEF RxDrop, table, owner
<1>7. CASE RxUnwind
  BY <1>7, IdleStep DEF RxUnwind, InHand, table, owner, tx
<1>8. CASE RxReturn
  BY <1>8, IdleStep DEF RxReturn, InHand, table, owner, tx
<1>9. CASE RxPut
  <2>1. InHand = << [type |-> "data", id |-> packet.id, msg |-> "data"] >>
    BY <1>9 DEF RxPut, InHand, OrderInv, Handing
  <2>2. InHand' = <<>>
    BY <1>9 DEF RxPut, InHand
  <2>3. Linked' = Linked
    <3>1. Up' = Up /\ born' = born
      BY <1>9 DEF RxPut, Up, Leaving, InTable, table, ends, tx
    <3>2. QED
      BY <3>1, LinkSame
  <2>4. InHand # <<>> /\ InHand[1] = [type |-> "data", id |-> packet.id, msg |-> "data"]
    BY <2>1
  <2>5. m_event_queue' = Append(m_event_queue, InHand[1]) /\ clients' = clients
    BY <1>9, <2>4 DEF RxPut, Put, owner
  <2>6. Abstract!Hand
    BY <2>2, <2>3, <2>4, <2>5 DEF Abstract!Hand, Abstract!Put, Linked
  <2>7. QED
    BY <2>5, <2>6 DEF Told, Hands
<1>10. CASE RxLeave
  BY <1>10, IdleStep DEF RxLeave, InHand, table, owner, tx
<1>11. CASE RxStop
  BY <1>11, IdleStep DEF RxStop, InHand, table, ends, owner, tx
<1>12. QED
  BY <1>1, <1>2, <1>3, <1>4, <1>5, <1>6, <1>7, <1>8, <1>9, <1>10, <1>11 DEF Rx

LEMMA ToldTx == OrderInv /\ Tx => Told
<1> SUFFICES ASSUME OrderInv, Tx PROVE Told
  OBVIOUS
<1> USE DEF InHand
<1>1. CASE LookTimeout \/ LookPending
  BY <1>1, IdleStep DEF LookTimeout, LookPending, Look, table, ends, owner, rx
<1>2. CASE EndTimeouts \/ EndPending
  BY <1>2, IdleStep DEF EndTimeouts, EndPending, Looked, table, ends, owner, rx
<1>3. ASSUME NEW dies \in BOOLEAN, JudgeTimeout(dies) \/ JudgePending(dies)
      PROVE  Told
  BY <1>3, IdleStep DEF JudgeTimeout, JudgePending, Judge, table, owner, rx
<1>4. CASE TxErase
  <2>1. PICK id \in doomed :
           \/ id \notin DOMAIN m_peers /\ UNCHANGED << m_peers, dropping, txpc >>
           \/ id \in DOMAIN m_peers /\ Erase("tx", id) /\ txpc' = "event"
    BY <1>4 DEF TxErase
  <2>2. CASE UNCHANGED << m_peers, dropping, txpc >>
    BY <1>4, <2>2, IdleStep DEF TxErase, owner, rx
  <2>3. CASE id \in DOMAIN m_peers /\ Erase("tx", id) /\ txpc' = "event"
    <3>1. /\ InTable' = InTable \ {m_peers[id]} /\ m_peers[id] \in InTable
          /\ \A u \in Deleters : dropping'[u] = IF u = "tx" THEN m_peers[id]
                                                ELSE dropping[u]
      BY <2>3, EraseTable DEF OrderInv, IInv
    <3>2. Up' = Up
      BY <1>4, <2>3, <3>1 DEF TxErase, Up, Leaving, rx
    <3>3. QED
      BY <1>4, <3>2, QuietStep DEF TxErase, owner, rx
  <2>4. QED
    BY <2>1, <2>2, <2>3
<1>5. CASE TxEvent
  <2>1. dropping["tx"] # 0 /\ dropping["tx"] \in Up /\ dropping["tx"] \notin InTable
    BY <1>5 DEF TxEvent, OrderInv, IInv, Control, Placed, Up, Leaving, Dropped
  <2>2. rxpc = "event" => dropping["rx"] # dropping["tx"]
    BY <2>1 DEF OrderInv, IInv, Placed
  <2>3. Up' = Up \ {dropping["tx"]}
    BY <1>5, <2>1, <2>2 DEF TxEvent, Up, Leaving, InTable, table, ends, rx
  <2>4. InHand' = InHand /\ born' = born /\ clients' = clients
    BY <1>5 DEF TxEvent, table, owner, rx
  <2>5. QED
    BY <1>5, <2>1, <2>3, <2>4, RemovedStep DEF TxEvent
<1>6. CASE TxDrop
  <2>1. Up' = Up /\ InHand' = InHand
    BY <1>6 DEF TxDrop, Drop, Up, Leaving, InTable, OrderInv, IInv, TypeOK,
       table, rx
  <2>2. QED
    BY <1>6, <2>1, QuietStep DEF TxDrop, table, owner
<1>7. CASE TxGoOn \/ TxStop \/ EndCommands
  BY <1>7, IdleStep DEF TxGoOn, TxStop, EndCommands, table, ends, owner, rx
<1>8. CASE Command
  BY <1>8, IdleStep DEF Command, table, ends, owner, rx
<1>9. CASE Mark
  BY <1>9, IdleStep DEF Mark, table, owner, rx
<1>10. QED
  BY <1>1, <1>2, <1>3, <1>4, <1>5, <1>6, <1>7, <1>8, <1>9 DEF Tx

LEMMA ToldOwner == OrderInv /\ Owner => Told
<1> SUFFICES ASSUME OrderInv, Owner PROVE Told
  OBVIOUS
<1> USE DEF InHand
<1>1. CASE PopEvent
  <2>1. Linked' = Linked
    <3>1. Up' = Up /\ born' = born
      BY <1>1 DEF PopEvent, Up, Leaving, InTable, table, ends, rx, tx
    <3>2. QED
      BY <3>1, LinkSame
  <2>2. Abstract!Pop
    BY <1>1, <2>1 DEF PopEvent, Abstract!Pop, Linked, rx
  <2>3. QED
    BY <1>1, <2>2 DEF Told, Pops
<1>2. ASSUME NEW id \in Ids, DisconnectPeer(id) PROVE Told
  BY <1>2, IdleStep DEF DisconnectPeer, table, ends, rx, tx
<1>3. ASSUME NEW id \in Ids, GetPeerAddress(id) PROVE Told
  BY <1>3, IdleStep DEF GetPeerAddress, table, ends, owner, rx, tx
<1>4. CASE GotPeerAddress
  BY <1>4, IdleStep DEF GotPeerAddress, table, owner, rx, tx
<1>5. CASE Close
  BY <1>5, IdleStep DEF Close, table, ends, owner, rx, tx
<1>6. CASE Destroy
  <2>1. InHand = <<>> /\ InHand' = InHand /\ UNCHANGED << born, m_event_queue, clients >>
    BY <1>6 DEF Destroy, rx, owner
  <2>2. Up' = {} /\ Created' = Created
    BY <1>6 DEF Destroy, Up, Leaving, InTable, Created, rx, tx
  <2>3. \A id \in Ids : Link(id)' = IF Link(id) = "up" THEN "gone" ELSE Link(id)
    BY <2>1, <2>2 DEF Link
  <2>4. Linked' = [id \in Ids |-> IF Linked[id] = "up" THEN "gone" ELSE Linked[id]]
    BY <2>3 DEF Linked
  <2>5. Abstract!Close
    BY <2>1, <2>4 DEF Abstract!Close, Linked
  <2>6. QED
    BY <1>6, <2>1, <2>5 DEF Told, Ends, Destroy
<1>7. QED
  BY <1>1, <1>2, <1>3, <1>4, <1>5, <1>6 DEF Owner

LEMMA ToldStep == OrderInv /\ ~ ReuseIds /\ [Next]_vars => Told
<1> SUFFICES ASSUME OrderInv, ~ ReuseIds, [Next]_vars PROVE Told
  OBVIOUS
<1>1. CASE UNCHANGED vars
  BY <1>1, IdleStep DEF vars, table, ends, owner, rx, tx, InHand
<1>2. QED
  BY <1>1, ToldReceive, ToldRx, ToldTx, ToldOwner DEF Next, Done

LEMMA HandingKept == OrderInv /\ [Next]_vars => Handing'
<1> SUFFICES ASSUME OrderInv, [Next]_vars, rxpc' \in {"return", "put"}
             PROVE  packet'.kind \in {"data", "corrupt"}
  BY DEF Handing
<1>1. CASE HandleOther
  <2>1. packet \in Packet
    BY <1>1 DEF HandleOther, OrderInv, IInv, TypeOK, Control
  <2>2. packet.kind \in {"data", "corrupt", "ping"}
    BY <1>1, <2>1, PeersAssumption DEF HandleOther, Packet
  <2>3. QED
    BY <1>1, <2>2 DEF HandleOther
<1>2. CASE RxReturn
  BY <1>2 DEF RxReturn, OrderInv, Handing
<1>3. CASE UNCHANGED rx
  BY <1>3 DEF rx, OrderInv, Handing
<1>4. Tx \/ Owner \/ Done \/ UNCHANGED vars => UNCHANGED rx
  <2>1. Tx => UNCHANGED rx
    BY DEF Tx, LookTimeout, LookPending, Look, EndTimeouts, EndPending, Looked,
       JudgeTimeout, JudgePending, Judge, TxErase, TxEvent, TxDrop, TxGoOn, TxStop,
       Command, Mark, EndCommands
  <2>2. Owner => UNCHANGED rx
    BY DEF Owner, PopEvent, DisconnectPeer, GetPeerAddress, GotPeerAddress, Close, Destroy
  <2>3. QED
    BY <2>1, <2>2 DEF Done, vars
<1>5. Receive => rxpc' \in {"find", "process"}
  BY DEF Receive, ReceiveKnock, ReceiveNew, ReceiveKnown, Unbuffer
<1>6. Rx => HandleOther \/ RxReturn \/ rxpc' \notin {"return", "put"}
  BY DEF Rx, Find, ProcessPacket, HandleDisco, RxEvent, RxDrop, RxUnwind, RxPut,
     RxLeave, RxStop
<1>7. QED
  BY <1>1, <1>2, <1>3, <1>4, <1>5, <1>6 DEF Next

LEMMA OrderInit == Init => OrderInv
<1> SUFFICES ASSUME Init PROVE OrderInv
  OBVIOUS
<1>1. UniqueIds /\ Handing
  BY DEF Init, UniqueIds, Created, Handing
<1>2. QED
  BY <1>1, InitInv DEF OrderInv

LEMMA OrderStep == ~ ReuseIds /\ OrderInv /\ [Next]_vars => OrderInv'
<1> SUFFICES ASSUME ~ ReuseIds, OrderInv, [Next]_vars PROVE OrderInv'
  OBVIOUS
<1>1. Effect
  BY StepEffect DEF OrderInv, IInv, TypeControl
<1>2. UniqueIds'
  BY <1>1, UniqueKept DEF OrderInv, IInv
<1>3. QED
  BY <1>2, InductiveStep, HandingKept DEF OrderInv

\* A server that gives each id away once implements PeerEvents: to the thread
\* that calls ReceiveTimeoutMs (impl.cpp:1450) the peers come and go in order,
\* whatever the receive and send threads do.
THEOREM EventsInOrderHold == ~ ReuseIds => (Spec => EventsInOrder)
<1> SUFFICES ASSUME ~ ReuseIds PROVE Spec => EventsInOrder
  OBVIOUS
<1>1. Init => Abstract!PInit
  BY DEF Init, Abstract!PInit, Link, Created, InHand
<1>2. OrderInv /\ [Next]_vars => [Abstract!PNext]_(Abstract!pvars)
  <2> SUFFICES ASSUME OrderInv, [Next]_vars, Told
               PROVE  Abstract!PNext \/ UNCHANGED Abstract!pvars
    BY ToldStep
  <2>1. CASE Quiet
    BY <2>1 DEF Quiet, Abstract!pvars, Linked
  <2>2. CASE Announces \/ Farewells \/ Grabs \/ Hands \/ Pops \/ Ends
    BY <2>2 DEF Announces, Farewells, Grabs, Hands, Pops, Ends, Abstract!PNext
  <2>3. QED
    BY <2>1, <2>2 DEF Told
<1>3. OrderInv /\ [Next]_vars => OrderInv'
  BY OrderStep
<1>4. QED
  BY OrderInit, <1>1, <1>2, <1>3, PTL DEF Spec, EventsInOrder, Abstract!PSpec
-----------------------------------------------------------------------------
(* What the owner has been told, and will be told by the events on their   *)
(* way to it.                                                              *)

Events(type, id) ==
    {i \in DOMAIN m_event_queue : m_event_queue[i].type = type /\ m_event_queue[i].id = id}
Added(id) == Events("added", id)
Removed(id) == Events("removed", id)

Once(id) ==
    /\ \A i, j \in Added(id) : i = j
    /\ \A i, j \in Removed(id) : i = j
    /\ \A i \in Added(id), j \in Removed(id) : i < j
    /\ id \in clients => Added(id) = {}

\* The events of an id and the owner's knowledge, by where its peer is.
Informed(id) ==
    /\ Linked[id] = "none" => Added(id) = {} /\ Removed(id) = {} /\ id \notin clients
    /\ Linked[id] = "up" => Removed(id) = {} /\ (id \in clients \/ Added(id) # {})
    /\ Linked[id] = "gone" /\ phase # "closed" =>
          (id \in clients \/ Added(id) # {} => Removed(id) # {})

InformedInv == \A id \in Ids : Once(id) /\ Informed(id)

LEMMA StaysClosed == [Next]_vars /\ phase = "closed" => phase' = "closed"
<1> SUFFICES ASSUME [Next]_vars, phase = "closed" PROVE phase' = "closed"
  OBVIOUS
<1>1. Receive => phase' = phase
  BY DEF Receive, ReceiveKnock, ReceiveNew, ReceiveKnown, Unbuffer
<1>2. Rx => phase' = phase
  BY DEF Rx, Find, ProcessPacket, HandleDisco, HandleOther, RxEvent, RxDrop, RxUnwind,
     RxReturn, RxPut, RxLeave, RxStop
<1>3. Tx => phase' = phase
  BY DEF Tx, LookTimeout, LookPending, Look, EndTimeouts, EndPending, Looked,
     JudgeTimeout, JudgePending, Judge, TxErase, TxEvent, TxDrop, TxGoOn, TxStop,
     Command, Mark, EndCommands
<1>4. Owner => phase' = phase
  BY DEF Owner, PopEvent, DisconnectPeer, GetPeerAddress, GotPeerAddress, Close, Destroy, Free
<1>5. QED
  BY <1>1, <1>2, <1>3, <1>4 DEF Next, Done, vars

\* An event that is put is the last of the queue.
LEMMA PutEvents ==
    ASSUME TypeOK, NEW e, m_event_queue' = Append(m_event_queue, e), NEW type, NEW id
    PROVE  Events(type, id)' = IF e.type = type /\ e.id = id
                               THEN Events(type, id) \cup {Len(m_event_queue) + 1}
                               ELSE Events(type, id)
<1> DEFINE n == Len(m_event_queue)
<1>1. n \in Nat /\ DOMAIN m_event_queue = 1 .. n
  BY DEF TypeOK
<1>2. /\ DOMAIN m_event_queue' = 1 .. (n + 1) /\ m_event_queue'[n + 1] = e
      /\ \A i \in 1 .. n : m_event_queue'[i] = m_event_queue[i]
  BY <1>1 DEF TypeOK
<1> HIDE DEF n
<1>3. DOMAIN m_event_queue' = DOMAIN m_event_queue \cup {n + 1}
  BY <1>1, <1>2
<1>4. QED
  BY <1>1, <1>2, <1>3 DEF Events, n

LEMMA EventPlaces ==
    ASSUME TypeOK, NEW type, NEW id, NEW i \in Events(type, id)
    PROVE  /\ i \in 1 .. Len(m_event_queue) /\ Len(m_event_queue) \in Nat
           /\ i # Len(m_event_queue) + 1 /\ i < Len(m_event_queue) + 1
BY DEF TypeOK, Events

\* What remains of the queue when its first event is taken.
LEMMA PopEvents ==
    ASSUME TypeOK, m_event_queue # <<>>, m_event_queue' = Tail(m_event_queue), NEW type, NEW id
    PROVE  /\ \A i \in Events(type, id)' : i \in Nat /\ i + 1 \in Events(type, id)
           /\ \A i \in Events(type, id) : i # 1 => i - 1 \in Events(type, id)'
           /\ 1 \in Events(type, id) <=>
                 Head(m_event_queue).type = type /\ Head(m_event_queue).id = id
<1> DEFINE n == Len(m_event_queue)
<1>1. n \in Nat /\ n # 0 /\ DOMAIN m_event_queue = 1 .. n
  BY DEF TypeOK
<1>2. /\ DOMAIN m_event_queue' = 1 .. (n - 1)
      /\ \A i \in 1 .. (n - 1) : m_event_queue'[i] = m_event_queue[i + 1]
  BY <1>1 DEF TypeOK
<1>3. Head(m_event_queue) = m_event_queue[1]
  BY <1>1 DEF TypeOK
<1> HIDE DEF n
<1>4. \A i \in Events(type, id)' : i \in Nat /\ i + 1 \in Events(type, id)
  BY <1>1, <1>2 DEF Events
<1>5. \A i \in Events(type, id) : i # 1 => i - 1 \in Events(type, id)'
  <2> SUFFICES ASSUME NEW i \in Events(type, id), i # 1 PROVE i - 1 \in Events(type, id)'
    OBVIOUS
  <2>1. i \in 1 .. n /\ i - 1 \in 1 .. (n - 1) /\ (i - 1) + 1 = i
    BY <1>1 DEF Events
  <2>2. QED
    BY <1>2, <2>1 DEF Events
<1>6. 1 \in DOMAIN m_event_queue
  BY <1>1
<1>7. QED
  BY <1>3, <1>4, <1>5, <1>6 DEF Events

LEMMA InformedArrives ==
    ASSUME OrderInv, InformedInv, NEW a \in Ids, Abstract!Arrives(a), clients' = clients,
           phase = "closed" => phase' = "closed", NEW id \in Ids
    PROVE  Once(id)' /\ Informed(id)'
<1>1. Linked[a] = "none" /\ Linked' = [Linked EXCEPT ![a] = "up"]
  BY DEF Abstract!Arrives, Linked
<1>2. m_event_queue' = Append(m_event_queue, [type |-> "added", id |-> a])
  BY DEF Abstract!Arrives, Abstract!Put
<1> DEFINE n == Len(m_event_queue) + 1
<1>3. Removed(id)' = Removed(id) /\ Added(id)' = IF id = a THEN Added(id) \cup {n} ELSE Added(id)
  BY <1>2, PutEvents DEF OrderInv, IInv, Removed, Added
<1> HIDE DEF n
<1>4. Linked \in [Ids -> {"none", "up", "gone"}]
  BY DEF Linked, Link
<1>5. CASE id = a
  <2>1. Added(id) = {} /\ Removed(id) = {} /\ id \notin clients
    BY <1>1, <1>5 DEF InformedInv, Informed
  <2>2. Added(id)' = {n} /\ Removed(id)' = {} /\ id \notin clients' /\ Linked'[id] = "up"
    BY <1>1, <1>3, <1>4, <1>5, <2>1
  <2>3. QED
    BY <2>2 DEF Once, Informed
<1>6. CASE id # a
  <2>1. Added(id)' = Added(id) /\ Removed(id)' = Removed(id) /\ Linked'[id] = Linked[id]
    BY <1>1, <1>3, <1>4, <1>6
  <2>2. QED
    BY <2>1 DEF InformedInv, Once, Informed
<1>7. QED
  BY <1>5, <1>6

LEMMA InformedLeaves ==
    ASSUME OrderInv, InformedInv, NEW a \in Ids, Abstract!Leaves(a), clients' = clients,
           phase = "closed" => phase' = "closed", NEW id \in Ids
    PROVE  Once(id)' /\ Informed(id)'
<1>1. Linked[a] = "up" /\ Linked' = [Linked EXCEPT ![a] = "gone"]
  BY DEF Abstract!Leaves, Linked
<1>2. m_event_queue' = Append(m_event_queue, [type |-> "removed", id |-> a])
  BY DEF Abstract!Leaves, Abstract!Put
<1> DEFINE n == Len(m_event_queue) + 1
<1>3. Added(id)' = Added(id) /\ Removed(id)' = IF id = a THEN Removed(id) \cup {n} ELSE Removed(id)
  BY <1>2, PutEvents DEF OrderInv, IInv, Removed, Added
<1>4. \A i \in Added(id) : i < n
  BY EventPlaces DEF OrderInv, IInv, Added
<1> HIDE DEF n
<1>5. Linked \in [Ids -> {"none", "up", "gone"}]
  BY DEF Linked, Link
<1>6. CASE id = a
  <2>1. Removed(id) = {} /\ (id \in clients \/ Added(id) # {})
    BY <1>1, <1>6 DEF InformedInv, Informed
  <2>2. Added(id)' = Added(id) /\ Removed(id)' = {n} /\ Linked'[id] = "gone"
    BY <1>1, <1>3, <1>5, <1>6, <2>1
  <2>3. QED
    BY <1>4, <2>2 DEF InformedInv, Once, Informed
<1>7. CASE id # a
  <2>1. Added(id)' = Added(id) /\ Removed(id)' = Removed(id) /\ Linked'[id] = Linked[id]
    BY <1>1, <1>3, <1>5, <1>7
  <2>2. QED
    BY <2>1 DEF InformedInv, Once, Informed
<1>8. QED
  BY <1>6, <1>7

LEMMA InformedPop ==
    ASSUME OrderInv, InformedInv, Abstract!Pop, PopEvent,
           phase = "closed" => phase' = "closed", NEW id \in Ids
    PROVE  Once(id)' /\ Informed(id)'
<1> DEFINE e == Head(m_event_queue)
<1>1. Linked' = Linked
  BY DEF Abstract!Pop, Linked
<1>2. m_event_queue # <<>> /\ m_event_queue' = Tail(m_event_queue) /\ TypeOK
  BY DEF PopEvent, OrderInv, IInv
<1>3. clients' = CASE e.type = "added" -> clients \cup {e.id}
                   [] e.type = "removed" -> clients \ {e.id}
                   [] OTHER -> clients
  BY DEF PopEvent
<1> DEFINE Arrived == e.type = "added" /\ e.id = id
           Left == e.type = "removed" /\ e.id = id
<1>4. /\ \A i \in Added(id)' : i \in Nat /\ i + 1 \in Added(id)
      /\ \A i \in Added(id) : i # 1 => i - 1 \in Added(id)'
      /\ 1 \in Added(id) <=> Arrived
  BY <1>2, PopEvents DEF Added
<1>5. /\ \A i \in Removed(id)' : i \in Nat /\ i + 1 \in Removed(id)
      /\ \A i \in Removed(id) : i # 1 => i - 1 \in Removed(id)'
      /\ 1 \in Removed(id) <=> Left
  BY <1>2, PopEvents DEF Removed
<1>6. /\ Arrived => id \in clients'
      /\ Left => id \notin clients'
      /\ ~ Arrived /\ ~ Left => (id \in clients' <=> id \in clients)
  BY <1>3
<1>7. \A i \in Added(id) \cup Removed(id) : i \in Nat /\ i >= 1
  BY <1>2, EventPlaces DEF Added, Removed
<1> HIDE DEF Arrived, Left, e
<1>8. Once(id) /\ Informed(id)
  BY DEF InformedInv
<1>9. \A i, j \in Added(id)' : i = j
  BY <1>4, <1>8 DEF Once
<1>10. \A i, j \in Removed(id)' : i = j
  BY <1>5, <1>8 DEF Once
<1>11. \A i \in Added(id)', j \in Removed(id)' : i < j
  BY <1>4, <1>5, <1>8 DEF Once
<1>12. Arrived => Added(id)' = {}
  <2> SUFFICES ASSUME Arrived, NEW i \in Added(id)' PROVE FALSE
    OBVIOUS
  <2>1. 1 \in Added(id) /\ i + 1 \in Added(id) /\ i \in Nat /\ i + 1 = 1
    BY <1>4, <1>8 DEF Once
  <2>2. i = 0
    BY <2>1
  <2>3. 0 \notin Added(id)'
    BY <1>2 DEF Added, Events, TypeOK
  <2>4. QED
    BY <2>2, <2>3
<1>13. Left => Removed(id)' = {} /\ Added(id) = {} /\ Added(id)' = {}
  <2> SUFFICES ASSUME Left PROVE Removed(id)' = {} /\ Added(id) = {} /\ Added(id)' = {}
    OBVIOUS
  <2>1. 1 \in Removed(id)
    BY <1>5
  <2>2. Added(id) = {}
    BY <1>7, <1>8, <2>1 DEF Once
  <2>3. ASSUME NEW i \in Removed(id)' PROVE FALSE
    <3>1. i \in Nat /\ i + 1 = 1
      BY <1>5, <1>8, <2>1, <2>3 DEF Once
    <3>2. 0 \notin Removed(id)'
      BY <1>2 DEF Removed, Events, TypeOK
    <3>3. i = 0
      BY <3>1
    <3>4. QED
      BY <2>3, <3>2, <3>3
  <2>4. QED
    BY <1>4, <2>2, <2>3
<1>14. ~ Arrived => (Added(id)' = {} <=> Added(id) = {})
  BY <1>4
<1>15. ~ Left => (Removed(id)' = {} <=> Removed(id) = {})
  BY <1>5
<1>16. Once(id)'
  <2>1. id \in clients' => Added(id)' = {}
    BY <1>6, <1>8, <1>12, <1>13, <1>14 DEF Once
  <2>2. QED
    BY <1>9, <1>10, <1>11, <2>1 DEF Once
<1>17. ~ (Arrived /\ Left)
  BY DEF Arrived, Left
<1>18. Informed(id)'
  <2>1. CASE Arrived
    <3>1. id \in clients' /\ Added(id)' = {} /\ Added(id) # {}
          /\ (Removed(id)' = {} <=> Removed(id) = {})
      BY <1>4, <1>6, <1>12, <1>15, <1>17, <2>1
    <3>2. QED
      BY <1>1, <1>8, <3>1 DEF Informed
  <2>2. CASE Left
    <3>1. id \notin clients' /\ Added(id)' = {} /\ Removed(id) # {} /\ Removed(id)' = {}
      BY <1>5, <1>6, <1>13, <2>2
    <3>2. QED
      BY <1>1, <1>8, <3>1 DEF Informed
  <2>3. CASE ~ Arrived /\ ~ Left
    BY <1>1, <1>6, <1>8, <1>14, <1>15, <2>3 DEF Informed
  <2>4. QED
    BY <2>1, <2>2, <2>3
<1>19. QED
  BY <1>16, <1>18

\* Data events are not about who is there; and the rest changes no event.
LEMMA InformedOther ==
    ASSUME OrderInv, InformedInv, phase = "closed" => phase' = "closed", NEW id \in Ids,
           Quiet \/ Grabs \/ Hands \/ Ends
    PROVE  Once(id)' /\ Informed(id)'
<1>1. Once(id) /\ Informed(id)
  BY DEF InformedInv
<1>2. CASE Hands
  <2>1. Linked' = Linked /\ clients' = clients
    BY <1>2 DEF Hands, Abstract!Hand, Linked
  <2>2. m_event_queue' = Append(m_event_queue, InHand[1]) /\ InHand # <<>>
    BY <1>2 DEF Hands, Abstract!Hand, Abstract!Put
  <2>3. InHand[1].type = "data"
    BY <2>2 DEF InHand
  <2>4. Added(id)' = Added(id) /\ Removed(id)' = Removed(id)
    BY <2>2, <2>3, PutEvents DEF Added, Removed, OrderInv, IInv
  <2>5. QED
    BY <1>1, <2>1, <2>4 DEF Once, Informed
<1>3. CASE Quiet \/ Grabs
  <2>1. Linked' = Linked /\ clients' = clients /\ m_event_queue' = m_event_queue
    BY <1>3 DEF Quiet, Grabs, Abstract!Grab, Linked
  <2>2. Added(id)' = Added(id) /\ Removed(id)' = Removed(id)
    BY <2>1 DEF Added, Removed, Events
  <2>3. QED
    BY <1>1, <2>1, <2>2 DEF Once, Informed
<1>4. CASE Ends
  <2>1. Linked' = [i \in Ids |-> IF Linked[i] = "up" THEN "gone" ELSE Linked[i]]
    BY <1>4 DEF Ends, Abstract!Close, Linked
  <2>2. clients' = clients /\ m_event_queue' = m_event_queue /\ phase' = "closed"
    BY <1>4 DEF Ends, Abstract!Close
  <2>3. Added(id)' = Added(id) /\ Removed(id)' = Removed(id)
    BY <2>2 DEF Added, Removed, Events
  <2>4. Linked'[id] # "up" /\ (Linked'[id] = "none" => Linked[id] = "none")
    BY <2>1
  <2>5. QED
    BY <1>1, <2>2, <2>3, <2>4 DEF Once, Informed
<1>5. QED
  BY <1>2, <1>3, <1>4

LEMMA InformedStep ==
    ~ ReuseIds /\ OrderInv /\ InformedInv /\ [Next]_vars => InformedInv'
<1> SUFFICES ASSUME ~ ReuseIds, OrderInv, InformedInv, [Next]_vars, NEW id \in Ids
             PROVE  Once(id)' /\ Informed(id)'
  BY DEF InformedInv
<1>1. Told /\ (phase = "closed" => phase' = "closed")
  BY ToldStep, StaysClosed
<1>2. CASE Announces
  BY <1>1, <1>2, InformedArrives DEF Announces
<1>3. CASE Farewells
  BY <1>1, <1>3, InformedLeaves DEF Farewells
<1>4. CASE Pops
  BY <1>1, <1>4, InformedPop DEF Pops
<1>5. QED
  BY <1>1, <1>2, <1>3, <1>4, InformedOther DEF Told

LEMMA InformedInit == Init => InformedInv
<1> SUFFICES ASSUME Init, NEW id \in Ids PROVE Once(id) /\ Informed(id)
  BY DEF InformedInv
<1>1. Added(id) = {} /\ Removed(id) = {} /\ clients = {} /\ Linked[id] = "none"
  BY DEF Init, Added, Removed, Events, Linked, Link, Created
<1>2. QED
  BY <1>1 DEF Once, Informed

\* With no event on its way the owner of the Connection knows of the peers in
\* the table and of no others (peerhandler.h:24), as long as no id is used twice.
THEOREM OwnerInformedHolds == ~ ReuseIds => (Spec => []OwnerInformed)
<1> SUFFICES ASSUME ~ ReuseIds PROVE Spec => []OwnerInformed
  OBVIOUS
<1>1. OrderInv /\ InformedInv => OwnerInformed
  <2> SUFFICES ASSUME OrderInv, InformedInv, m_event_queue = <<>>, rxpc # "event",
                      txpc # "event", phase # "closed"
               PROVE  clients = DOMAIN m_peers
    BY DEF OwnerInformed
  <2>1. clients \subseteq Ids /\ DOMAIN m_peers \subseteq Ids
    BY DEF OrderInv, IInv, TypeOK
  <2>2. Up = InTable
    BY DEF Up, Leaving
  <2>3. \A id \in Ids : Added(id) = {} /\ Removed(id) = {}
    BY DEF Added, Removed, Events
  <2>4. \A id \in Ids : id \in clients <=> Linked[id] = "up"
    <3> SUFFICES ASSUME NEW id \in Ids PROVE id \in clients <=> Linked[id] = "up"
      OBVIOUS
    <3>1. Linked[id] \in {"none", "up", "gone"}
      BY DEF Linked, Link
    <3>2. QED
      BY <2>3, <3>1 DEF InformedInv, Informed
  <2>5. \A id \in Ids : Linked[id] = "up" <=> \E p \in InTable : born[p].id = id
    <3>1. \A p \in InTable : p \in Created
      BY CreatedPeers DEF OrderInv, IInv
    <3>2. QED
      BY <2>2, <3>1 DEF Linked, Link
  <2>6. \A id \in Ids : (\E p \in InTable : born[p].id = id) <=> id \in DOMAIN m_peers
    BY DEF InTable, OrderInv, IInv, Placed
  <2>7. QED
    BY <2>1, <2>4, <2>5, <2>6
<1>2. OrderInv /\ [Next]_vars => OrderInv'
  BY OrderStep
<1>3. OrderInv /\ InformedInv /\ [Next]_vars => InformedInv'
  BY InformedStep
<1>4. QED
  BY OrderInit, InformedInit, <1>1, <1>2, <1>3, PTL DEF Spec
=============================================================================
