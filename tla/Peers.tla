-------------------------------- MODULE Peers --------------------------------
(***************************************************************************)
(* The peers of a serving Connection (network/mtp/impl.cpp): m_peers under *)
(* its mutex, the usage count that keeps a deleted peer in memory while    *)
(* some thread still works on it, and the events and commands between the  *)
(* Connection's receive thread ("rx"), its send thread ("tx") and the      *)
(* thread that owns it ("sv").                                             *)
(*                                                                         *)
(* A peer is the n-th UDPPeer created.  A PeerHelper is a slot that holds  *)
(* a peer: receive() has one and the processPacket it calls another, the   *)
(* send thread and the owner have one each.  0 stands for no peer, and for *)
(* PEER_ID_INEXISTENT.                                                     *)
(***************************************************************************)
EXTENDS Naturals, Sequences, FiniteSets, Functions

CONSTANTS
    Addrs,       \* remote addresses
    Ids,         \* the ids createPeer draws from
    ReuseIds,    \* whether it may draw an id that a removed peer had
    Kinds,       \* what is received: "data", "ping", "disco" or "corrupt"
    MaxPeers,    \* bound: UDPPeers created
    MaxEvents,   \* bound: events waiting while another packet is received
    MaxAsks,     \* bound: calls of DisconnectPeer
    MaxCommands  \* bound: commands waiting while a corrupt packet is received

ASSUME PeersAssumption ==
    /\ 0 \notin Ids
    /\ ReuseIds \in BOOLEAN
    /\ Kinds \subseteq {"data", "ping", "disco", "corrupt"}
    /\ MaxPeers \in Nat /\ MaxEvents \in Nat /\ MaxAsks \in Nat
    /\ MaxCommands \in Nat

Peer == 1 .. MaxPeers
Slots == {"rx", "rx2", "tx", "sv"}
Deleters == {"rx", "tx"}

VARIABLES
    born,                \* [id, addr] of every UDPPeer created
    m_peers,             \* id -> peer
    half_open,           \* peers that have not used their id yet
    m_pending_disconnect, m_pending_deletion, freed,   \* sets of peers
    m_usage,             \* the usage count of every peer
    helper,              \* the peer each PeerHelper holds
    dropping,            \* the peer a thread has erased and not dropped yet
    m_event_queue,       \* to the owner
    m_command_queue,     \* ids of DISCONNECT_PEER commands, to the send thread
    clients,             \* ids the owner was told of by peerAdded
    asks,                \* how often it has called DisconnectPeer
    rxpc, packet,        \* receive thread: where it is, what it works on
    txpc, after,         \* send thread: where it is, where deleting goes on
    todo, doomed,        \* ids it has still to look at, and to delete
    phase                \* "up", "closing" (~Connection has begun), "closed"

table == << born, m_peers, half_open >>
counts == << m_usage, helper >>
ends == << m_pending_deletion, freed, dropping >>
rx == << rxpc, packet >>
owner == << clients, asks >>
tx == << txpc, after, todo, doomed >>
vars == << table, m_pending_disconnect, counts, ends, m_event_queue,
           m_command_queue, owner, rx, tx, phase >>

\* from: "stranger" has not put its id in the packet, "friend" has; "buffer" is
\* a packet that waited for an earlier one.
NoPacket == [id |-> 0, addr |-> 0, from |-> "none", kind |-> "none"]
Packet == [id : Ids, addr : Addrs, from : {"stranger", "friend", "buffer"},
           kind : Kinds]

Init ==
    /\ born = <<>> /\ m_peers = << >> /\ half_open = {}
    /\ m_pending_disconnect = {} /\ m_pending_deletion = {} /\ freed = {}
    /\ m_usage = [p \in Peer |-> 0]
    /\ helper = [s \in Slots |-> 0]
    /\ dropping = [t \in Deleters |-> 0]
    /\ m_event_queue = <<>> /\ m_command_queue = <<>> /\ clients = {} /\ asks = 0
    /\ rxpc = "idle" /\ packet = NoPacket
    /\ txpc = "timeouts" /\ after = "timeouts" /\ todo = {} /\ doomed = {}
    /\ phase = "up"
-----------------------------------------------------------------------------
Put(e) == m_event_queue' = Append(m_event_queue, e)

\* putCommand(disconnect_peer): nothing once the Connection shuts down.
PutCommand(id) ==
    m_command_queue' = IF phase = "up" THEN Append(m_command_queue, id)
                       ELSE m_command_queue

\* getPeerNoEx: 0 unless the id is in the table and the peer may be used.
GetPeer(id) ==
    IF id \in DOMAIN m_peers /\ m_peers[id] \notin m_pending_deletion
    THEN m_peers[id] ELSE 0

\* PeerHelper's constructor (IncUseCount) and destructor (DecUseCount).
Bug_Take(s, p) ==
    /\ helper' = [helper EXCEPT ![s] = p]
    /\ m_usage' = [m_usage EXCEPT ![p] = IF @ = 0 THEN 1 ELSE @]

Take(s, p) ==
    /\ helper' = [helper EXCEPT ![s] = p]
    /\ m_usage' = [m_usage EXCEPT ![p] = @ + 1]

Bug_Release(s) ==
    /\ helper' = [helper EXCEPT ![s] = 0]
    /\ m_usage' = [m_usage EXCEPT ![helper[s]] = @ - 1]
    /\ freed' = IF helper[s] \in m_pending_deletion
                THEN freed \cup {helper[s]} ELSE freed

Leak_Release(s) ==
    /\ helper' = [helper EXCEPT ![s] = 0]
    /\ m_usage' = [m_usage EXCEPT ![helper[s]] = @ - 1]
    /\ UNCHANGED freed

Release(s) ==
    /\ helper' = [helper EXCEPT ![s] = 0]
    /\ m_usage' = [m_usage EXCEPT ![helper[s]] = @ - 1]
    /\ freed' = IF helper[s] \in m_pending_deletion /\ m_usage[helper[s]] = 1
                THEN freed \cup {helper[s]} ELSE freed

\* deletePeer in three parts: off the table, the event, Peer::Drop.
Erase(t, id) ==
    /\ dropping' = [dropping EXCEPT ![t] = m_peers[id]]
    /\ m_peers' = Restrict(m_peers, DOMAIN m_peers \ {id})

Bug_PutRemoved(t) ==
    IF t = "rx" THEN UNCHANGED m_event_queue
    ELSE Put([type |-> "removed", id |-> born[dropping[t]].id])
PutRemoved(t) == Put([type |-> "removed", id |-> born[dropping[t]].id])

Drop(t) ==
    /\ m_pending_deletion' = m_pending_deletion \cup {dropping[t]}
    /\ freed' = IF m_usage[dropping[t]] = 0
                THEN freed \cup {dropping[t]} ELSE freed
    /\ dropping' = [dropping EXCEPT ![t] = 0]
-----------------------------------------------------------------------------
(* The receive thread. *)

\* lookupPeer: the peer of an address, told again of its id if it knocks.
Known(addr) ==
    {id \in DOMAIN m_peers :
        /\ m_peers[id] \notin m_pending_deletion
        /\ born[m_peers[id]].addr = addr}

\* createPeer: an id that is not in the table, the peer, and its event.
CreatePeer(addr, id) ==
    LET p == Len(born) + 1 IN
    /\ p \in Peer
    /\ id \notin DOMAIN m_peers
    /\ ReuseIds \/ \A q \in DOMAIN born : born[q].id # id
    /\ born' = Append(born, [id |-> id, addr |-> addr])
    /\ m_peers' = [i \in DOMAIN m_peers \cup {id} |->
                     IF i = id THEN p ELSE m_peers[i]]
    /\ half_open' = half_open \cup {p}
    /\ Put([type |-> "added", id |-> id])

MayReceive == rxpc = "idle" /\ phase = "up" /\ Len(m_event_queue) < MaxEvents

Work(addr, id, from, kind) ==
    packet' = [id |-> id, addr |-> addr, from |-> from, kind |-> kind]

\* A packet without an id from an address the table does not have.
Bug_ReceiveNew(addr, id, kind) ==
    /\ MayReceive
    /\ CreatePeer(addr, id)
    /\ Work(addr, id, "stranger", kind) /\ rxpc' = "find"
    /\ UNCHANGED << m_pending_disconnect, counts, ends, m_command_queue,
                    owner, tx, phase >>

ReceiveNew(addr, id, kind) ==
    /\ MayReceive
    /\ Known(addr) = {}
    /\ CreatePeer(addr, id)
    /\ Work(addr, id, "stranger", kind) /\ rxpc' = "find"
    /\ UNCHANGED << m_pending_disconnect, counts, ends, m_command_queue,
                    owner, tx, phase >>

\* A packet without an id from an address the table has.
ReceiveKnock(addr, kind) ==
    /\ MayReceive
    /\ \E id \in Known(addr) : Work(addr, id, "stranger", kind)
    /\ rxpc' = "find"
    /\ UNCHANGED << table, m_pending_disconnect, counts, ends, m_event_queue,
                    m_command_queue, owner, tx, phase >>

\* A packet with an id, from the peer that got it or from elsewhere.
ReceiveKnown(addr, id, kind) ==
    /\ MayReceive
    /\ \E p \in DOMAIN born : born[p].id = id
    /\ Work(addr, id, "friend", kind) /\ rxpc' = "find"
    /\ UNCHANGED << table, m_pending_disconnect, counts, ends, m_event_queue,
                    m_command_queue, owner, tx, phase >>

\* getFromBuffers: a packet whose turn has come.
Unbuffer(id, kind) ==
    /\ MayReceive
    /\ LET p == GetPeer(id) IN
       /\ p # 0
       /\ Take("rx", p)
       /\ Work(born[p].addr, id, "buffer", kind) /\ rxpc' = "process"
    /\ UNCHANGED << table, m_pending_disconnect, ends, m_event_queue,
                    m_command_queue, owner, tx, phase >>

\* The checks on the sender that follow getPeerNoEx in receive().
Accepted(p) ==
    /\ p # 0
    /\ packet.addr = born[p].addr
    /\ packet.from = "friend" \/ p \in half_open

Find ==
    /\ rxpc = "find"
    /\ LET p == GetPeer(packet.id) IN
       \/ /\ Accepted(p)
          /\ Take("rx", p)
          /\ half_open' = IF packet.from = "friend" THEN half_open \ {p} ELSE half_open
          /\ rxpc' = "process"
          /\ UNCHANGED packet
       \/ /\ ~ Accepted(p)
          /\ rxpc' = "idle"
          /\ packet' = NoPacket
          /\ UNCHANGED << counts, half_open >>
    /\ UNCHANGED << born, m_peers, m_pending_disconnect, ends, m_event_queue,
                    m_command_queue, owner, tx, phase >>

\* processPacket looks the peer up again and may find it gone.
Bug_ProcessPacket ==
    /\ rxpc = "process"
    /\ Take("rx2", helper["rx"]) /\ rxpc' = "handle"
    /\ UNCHANGED << table, m_pending_disconnect, ends, m_event_queue,
                    m_command_queue, owner, packet, tx, phase >>

ProcessPacket ==
    /\ rxpc = "process"
    /\ LET p == GetPeer(packet.id) IN
       \/ p = 0 /\ rxpc' = "leave" /\ UNCHANGED counts
       \/ p # 0 /\ Take("rx2", p) /\ rxpc' = "handle"
    /\ UNCHANGED << table, m_pending_disconnect, ends, m_event_queue,
                    m_command_queue, owner, packet, tx, phase >>

\* DISCO begins to delete the peer, unless it is off the table by now.
HandleDisco ==
    /\ rxpc = "handle" /\ packet.kind = "disco"
    /\ \/ /\ packet.id \in DOMAIN m_peers
          /\ Erase("rx", packet.id)
          /\ rxpc' = "event"
          /\ UNCHANGED << freed, counts >>
       \/ /\ packet.id \notin DOMAIN m_peers
          /\ Release("rx2")
          /\ rxpc' = "leave"
          /\ UNCHANGED << m_peers, dropping >>
    /\ UNCHANGED << born, half_open, m_pending_disconnect, m_pending_deletion,
                    m_event_queue, m_command_queue, owner, packet, tx, phase >>

\* Any other packet: data goes on to the owner, and a packet that contradicts
\* one that is buffered has its peer disconnected as well.
HandleOther ==
    /\ rxpc = "handle" /\ packet.kind # "disco"
    /\ Release("rx2")
    /\ rxpc' = IF packet.kind = "ping" THEN "leave"
               ELSE IF packet.from = "buffer" THEN "return" ELSE "put"
    /\ IF packet.kind = "corrupt" THEN PutCommand(packet.id)
       ELSE UNCHANGED m_command_queue
    /\ UNCHANGED << table, m_pending_disconnect, m_pending_deletion, dropping,
                    m_event_queue, owner, packet, tx, phase >>

RxEvent ==
    /\ rxpc = "event"
    /\ PutRemoved("rx")
    /\ rxpc' = "drop"
    /\ UNCHANGED << table, m_pending_disconnect, counts, ends,
                    m_command_queue, owner, packet, tx, phase >>

RxDrop ==
    /\ rxpc = "drop"
    /\ Drop("rx")
    /\ rxpc' = "unwind"
    /\ UNCHANGED << table, m_pending_disconnect, counts, m_event_queue,
                    m_command_queue, owner, packet, tx, phase >>

\* ProcessedSilentlyException leaves processPacket, then receive() ends.
RxUnwind ==
    /\ rxpc = "unwind"
    /\ Release("rx2")
    /\ rxpc' = "leave"
    /\ UNCHANGED << table, m_pending_disconnect, m_pending_deletion, dropping,
                    m_event_queue, m_command_queue, owner, packet, tx, phase >>

\* getFromBuffers lets go of the peer before its data is put.
RxReturn ==
    /\ rxpc = "return"
    /\ Release("rx")
    /\ rxpc' = "put"
    /\ UNCHANGED << table, m_pending_disconnect, m_pending_deletion, dropping,
                    m_event_queue, m_command_queue, owner, packet, tx, phase >>

RxPut ==
    /\ rxpc = "put"
    /\ Put([type |-> "data", id |-> packet.id, msg |-> "data"])
    /\ IF packet.from = "buffer" THEN rxpc' = "idle" /\ packet' = NoPacket
       ELSE rxpc' = "leave" /\ UNCHANGED packet
    /\ UNCHANGED << table, m_pending_disconnect, counts, ends,
                    m_command_queue, owner, tx, phase >>

RxLeave ==
    /\ rxpc = "leave"
    /\ Release("rx")
    /\ rxpc' = "idle" /\ packet' = NoPacket
    /\ UNCHANGED << table, m_pending_disconnect, m_pending_deletion, dropping,
                    m_event_queue, m_command_queue, owner, tx, phase >>

RxStop ==
    /\ rxpc = "idle" /\ phase = "closing"
    /\ rxpc' = "stopped"
    /\ UNCHANGED << table, m_pending_disconnect, counts, ends, m_event_queue,
                    m_command_queue, owner, packet, tx, phase >>
-----------------------------------------------------------------------------
(* The send thread: time-outs, commands, packets, over and over. *)

\* It looks at the ids that were in the table when it began, one by one; those
\* that are gone by now it passes over.
Look(from, to) ==
    /\ txpc = from
    /\ \E id \in todo :
          /\ todo' = todo \ {id}
          /\ LET p == GetPeer(id) IN
             \/ p = 0 /\ UNCHANGED << counts, txpc >>
             \/ p # 0 /\ Take("tx", p) /\ txpc' = to
    /\ UNCHANGED << table, m_pending_disconnect, ends, m_event_queue,
                    m_command_queue, owner, rx, after, doomed, phase >>

Looked(from, next) ==
    /\ txpc = from /\ todo = {}
    /\ txpc' = "delete" /\ after' = next
    /\ UNCHANGED << table, m_pending_disconnect, counts, ends, m_event_queue,
                    m_command_queue, owner, rx, todo, doomed, phase >>

\* What a look at a peer ends with: it is to be deleted or not.
Judge(from, to, dies) ==
    /\ txpc = from
    /\ doomed' = IF dies THEN doomed \cup {born[helper["tx"]].id} ELSE doomed
    /\ Release("tx")
    /\ txpc' = to
    /\ UNCHANGED << table, m_pending_disconnect, m_pending_deletion, dropping,
                    m_event_queue, m_command_queue, owner, rx, after, todo,
                    phase >>

\* runTimeouts
LookTimeout == Look("timeouts", "timed_out")
JudgeTimeout(dies) == Judge("timed_out", "timeouts", dies)
EndTimeouts == Looked("timeouts", "commands")

\* sendPackets: a peer to be disconnected is spared while packets for it wait.
LookPending == Look("send", "pending")
JudgePending(dies) ==
    /\ dies => helper["tx"] \in m_pending_disconnect
    /\ Judge("pending", "send", dies)
EndPending == Looked("send", "timeouts")

\* One of the peers to delete, unless it has been deleted by now.
TxErase ==
    /\ txpc = "delete"
    /\ \E id \in doomed :
          /\ doomed' = doomed \ {id}
          /\ \/ id \notin DOMAIN m_peers /\ UNCHANGED << m_peers, dropping, txpc >>
             \/ id \in DOMAIN m_peers /\ Erase("tx", id) /\ txpc' = "event"
    /\ UNCHANGED << born, half_open, m_pending_disconnect, counts,
                    m_pending_deletion, freed, m_event_queue, m_command_queue,
                    owner, rx, after, todo, phase >>

TxEvent ==
    /\ txpc = "event"
    /\ PutRemoved("tx")
    /\ txpc' = "drop"
    /\ UNCHANGED << table, m_pending_disconnect, counts, ends,
                    m_command_queue, owner, rx, after, todo, doomed, phase >>

TxDrop ==
    /\ txpc = "drop"
    /\ Drop("tx")
    /\ txpc' = "delete"
    /\ UNCHANGED << table, m_pending_disconnect, counts, m_event_queue,
                    m_command_queue, owner, rx, after, todo, doomed, phase >>

\* The next part of the loop; asked to stop, it may end here, and with no
\* packets queued it does.
TxGoOn ==
    /\ txpc = "delete" /\ doomed = {}
    /\ \/ after = "commands" /\ txpc' = "commands" /\ UNCHANGED todo
       \/ after = "timeouts" /\ txpc' = "timeouts" /\ todo' = DOMAIN m_peers
    /\ UNCHANGED << table, m_pending_disconnect, counts, ends, m_event_queue,
                    m_command_queue, owner, rx, after, doomed, phase >>

TxStop ==
    /\ txpc = "delete" /\ doomed = {} /\ after = "timeouts"
    /\ phase = "closing"
    /\ txpc' = "stopped"
    /\ UNCHANGED << table, m_pending_disconnect, counts, ends, m_event_queue,
                    m_command_queue, owner, rx, after, todo, doomed, phase >>

\* disconnect_peer, the only command that matters here.
Command ==
    /\ txpc = "commands" /\ m_command_queue # <<>>
    /\ m_command_queue' = Tail(m_command_queue)
    /\ LET p == GetPeer(Head(m_command_queue)) IN
       \/ p = 0 /\ UNCHANGED << counts, txpc >>
       \/ p # 0 /\ Take("tx", p) /\ txpc' = "mark"
    /\ UNCHANGED << table, m_pending_disconnect, ends, m_event_queue, owner,
                    rx, after, todo, doomed, phase >>

Bug_Mark ==
    /\ txpc = "mark"
    /\ m_pending_disconnect' = IF helper["tx"] \in half_open THEN m_pending_disconnect
                               ELSE m_pending_disconnect \cup {helper["tx"]}
    /\ Release("tx")
    /\ txpc' = "commands"
    /\ UNCHANGED << table, m_pending_deletion, dropping, m_event_queue,
                    m_command_queue, owner, rx, after, todo, doomed, phase >>

Mark ==
    /\ txpc = "mark"
    /\ m_pending_disconnect' = m_pending_disconnect \cup {helper["tx"]}
    /\ Release("tx")
    /\ txpc' = "commands"
    /\ UNCHANGED << table, m_pending_deletion, dropping, m_event_queue,
                    m_command_queue, owner, rx, after, todo, doomed, phase >>

EndCommands ==
    /\ txpc = "commands" /\ m_command_queue = <<>>
    /\ txpc' = "send" /\ todo' = DOMAIN m_peers
    /\ UNCHANGED << table, m_pending_disconnect, counts, ends, m_event_queue,
                    m_command_queue, owner, rx, after, doomed, phase >>
-----------------------------------------------------------------------------
(* The owner. *)

Free == helper["sv"] = 0 /\ phase = "up"

\* ReceiveTimeoutMs
PopEvent ==
    /\ Free /\ m_event_queue # <<>>
    /\ m_event_queue' = Tail(m_event_queue)
    /\ LET e == Head(m_event_queue) IN
       clients' = CASE e.type = "added" -> clients \cup {e.id}
                    [] e.type = "removed" -> clients \ {e.id}
                    [] OTHER -> clients
    /\ UNCHANGED << table, m_pending_disconnect, counts, ends,
                    m_command_queue, asks, rx, tx, phase >>

DisconnectPeer(id) ==
    /\ Free /\ id \in clients
    /\ asks < MaxAsks /\ asks' = asks + 1
    /\ PutCommand(id)
    /\ UNCHANGED << table, m_pending_disconnect, counts, ends, m_event_queue,
                    clients, rx, tx, phase >>

\* GetPeerAddress, getPeerStat: a helper for the time of the call.
GetPeerAddress(id) ==
    /\ Free /\ id \in clients
    /\ GetPeer(id) # 0 /\ Take("sv", GetPeer(id))
    /\ UNCHANGED << table, m_pending_disconnect, ends, m_event_queue,
                    m_command_queue, owner, rx, tx, phase >>

GotPeerAddress ==
    /\ helper["sv"] # 0
    /\ Release("sv")
    /\ UNCHANGED << table, m_pending_disconnect, m_pending_deletion, dropping,
                    m_event_queue, m_command_queue, owner, rx, tx, phase >>

\* ~Connection: ask the threads to stop, join them, delete who is left.
Close ==
    /\ Free
    /\ phase' = "closing"
    /\ UNCHANGED << table, m_pending_disconnect, counts, ends, m_event_queue,
                    m_command_queue, owner, rx, tx >>

Destroy ==
    /\ phase = "closing" /\ rxpc = "stopped" /\ txpc = "stopped"
    /\ freed' = freed \cup {m_peers[id] : id \in DOMAIN m_peers}
    /\ m_peers' = << >>
    /\ phase' = "closed"
    /\ UNCHANGED << born, half_open, m_pending_disconnect, counts,
                    m_pending_deletion, dropping, m_event_queue,
                    m_command_queue, owner, rx, tx >>

Done == phase = "closed" /\ UNCHANGED vars

Receive ==
    \E kind \in Kinds :
       /\ kind = "corrupt" => Len(m_command_queue) < MaxCommands
       /\ \/ \E addr \in Addrs : ReceiveKnock(addr, kind)
          \/ \E addr \in Addrs, id \in Ids :
                ReceiveNew(addr, id, kind) \/ ReceiveKnown(addr, id, kind)
          \/ \E id \in Ids : Unbuffer(id, kind)
Rx == \/ Find \/ ProcessPacket \/ HandleDisco \/ HandleOther \/ RxEvent
      \/ RxDrop \/ RxUnwind \/ RxReturn \/ RxPut \/ RxLeave \/ RxStop
Tx == \/ LookTimeout \/ EndTimeouts \/ LookPending \/ EndPending
      \/ \E dies \in BOOLEAN : JudgeTimeout(dies) \/ JudgePending(dies)
      \/ TxErase \/ TxEvent \/ TxDrop \/ TxGoOn \/ TxStop
      \/ Command \/ Mark \/ EndCommands
Owner == \/ PopEvent \/ GotPeerAddress \/ Close \/ Destroy
         \/ \E id \in Ids : DisconnectPeer(id) \/ GetPeerAddress(id)

Next == Receive \/ Rx \/ Tx \/ Owner \/ Done

Spec == Init /\ [][Next]_vars
-----------------------------------------------------------------------------
Created == DOMAIN born

TypeOK ==
    /\ born \in Seq([id : Ids, addr : Addrs]) /\ Len(born) <= MaxPeers
    /\ DOMAIN m_peers \subseteq Ids
    /\ \A id \in DOMAIN m_peers : m_peers[id] \in Created
    /\ half_open \subseteq Created
    /\ m_pending_disconnect \subseteq Created
    /\ m_pending_deletion \subseteq Created /\ freed \subseteq Created
    /\ m_usage \in [Peer -> Nat]
    /\ helper \in [Slots -> Created \cup {0}]
    /\ dropping \in [Deleters -> Created \cup {0}]
    /\ m_event_queue \in Seq([type : {"added", "removed"}, id : Ids]
                              \cup [type : {"data"}, id : Ids, msg : {"data"}])
    /\ m_command_queue \in Seq(Ids) /\ clients \subseteq Ids /\ asks \in 0 .. MaxAsks
    /\ rxpc \in {"idle", "find", "process", "handle", "event", "drop",
                 "unwind", "return", "put", "leave", "stopped"}
    /\ packet \in Packet \cup {NoPacket}
    /\ txpc \in {"timeouts", "timed_out", "delete", "event", "drop",
                 "commands", "mark", "send", "pending", "stopped"}
    /\ after \in {"commands", "timeouts"}
    /\ todo \subseteq Ids /\ doomed \subseteq Ids
    /\ phase \in {"up", "closing", "closed"}

\* The peers some thread has a pointer to, or will find in the table.
InTable == {m_peers[id] : id \in DOMAIN m_peers}
Held == {helper[s] : s \in Slots} \ {0}
Dropped == {dropping[t] : t \in Deleters} \ {0}

\* impl.h:102 "Reference counting failure": the usage count is the number of
\* helpers that hold the peer.
UsageCounts ==
    \A p \in Peer : m_usage[p] = Cardinality({s \in Slots : helper[s] = p})

\* No thread is left with a pointer to a peer that has been freed, be it from a
\* helper, from the table or in the middle of deletePeer.
NoDangling == freed \cap (InTable \cup Held \cup Dropped) = {}

\* A peer is freed once nobody has a pointer to it: none is leaked.
NoLeak == Created = freed \cup InTable \cup Held \cup Dropped

\* impl.cpp:1356 createPeer is for somebody new: an address has one peer.
OnePeerPerAddress ==
    \A i, j \in DOMAIN m_peers :
        born[m_peers[i]].addr = born[m_peers[j]].addr => i = j

\* peerhandler.h:24 peerAdded and deletingPeer: with no event on its way, the owner
\* knows of the peers in the table and of no others.
OwnerInformed ==
    m_event_queue = <<>> /\ rxpc # "event" /\ txpc # "event" /\ phase # "closed"
        => clients = DOMAIN m_peers
-----------------------------------------------------------------------------
(* The peers as an implementation of PeerEvents. *)

\* A peer is up from the event that announces it to the one that ends it.
Leaving(t, pc) == IF pc = "event" THEN {dropping[t]} ELSE {}
Up == InTable \cup Leaving("rx", rxpc) \cup Leaving("tx", txpc)

Link(id) ==
    IF \A p \in Created : born[p].id # id THEN "none"
    ELSE IF \E p \in Up : born[p].id = id THEN "up" ELSE "gone"

InHand ==
    IF rxpc \in {"handle", "return", "put"} /\ packet.kind \in {"data", "corrupt"}
    THEN << [type |-> "data", id |-> packet.id, msg |-> "data"] >> ELSE <<>>

Abstract == INSTANCE PeerEvents
            WITH Msgs <- {"data"}, link <- [id \in Ids |-> Link(id)], hand <- InHand

\* Whatever the threads do, the owner sees what PeerEvents promises.
EventsInOrder == Abstract!PSpec
=============================================================================
