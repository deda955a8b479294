------------------------------ MODULE BlockSend ------------------------------
(***************************************************************************)
(* Which blocks of the map a client holds, and how changes of the map      *)
(* reach it: RemoteClient (clientiface.cpp), the queue of map edit events  *)
(* and the sending of blocks (server.cpp), the handlers of GOTBLOCKS,      *)
(* DELETEDBLOCKS and INTERACT, and the client's side of these messages.    *)
(*                                                                         *)
(* One client.  A step of the server is what it does under one hold of the *)
(* environment's mutex, but for the loop over the edit events, which is a  *)
(* step per event.  Messages of one channel arrive in order                *)
(* (ReliableChannel); nothing orders two channels.                         *)
(***************************************************************************)
EXTENDS Integers, Sequences, FiniteSets, FiniteSetsExt

CONSTANTS
    N,                \* blocks 1 .. N, in the order of the search
    Dist,             \* Chebyshev distance from the player, in blocks
    Euclid,           \* the same by v3s16::getDistanceFrom, rounded down
    Stored,           \* each block in the database: "none", "blank", "ready"
    Loaded,           \* blocks in memory at first
    Hideable,         \* blocks that may be behind others at first
    m_max_simul_sends,
    full_d_max,       \* how far blocks are sent
    d_max_gen,        \* how far blocks are generated
    OthersBusy,       \* may sending to others use up max_blocks_to_send?
    EditKinds,        \* of changes, among "node", "bulk", "meta", "unmeta"
    Verdicts,         \* of the server on what the player does
    MaxTimes          \* bound: how often each thing outside the code happens

Blocks == 1 .. N

ASSUME BlockSendAssumption ==
    /\ N \in Nat
    /\ Dist \in [Blocks -> Nat] /\ Euclid \in [Blocks -> Nat]
    /\ \A b, c \in Blocks : b < c => Dist[b] <= Dist[c]
    /\ \A b \in Blocks : Dist[b] <= Euclid[b] /\ Dist[b] <= full_d_max
    /\ Stored \in [Blocks -> {"none", "blank", "ready"}]
    /\ Loaded \subseteq Blocks /\ Hideable \subseteq Blocks
    /\ m_max_simul_sends \in Nat \ {0}
    /\ full_d_max \in Nat /\ d_max_gen \in Int
    /\ OthersBusy \in BOOLEAN
    /\ EditKinds \subseteq {"node", "bulk", "meta", "unmeta"}
    /\ Verdicts \subseteq {"dead", "no_priv", "too_far", "refused", "done"}

LIMITED_MAX_SIMULTANEOUS_BLOCK_SENDS == 0
BLOCK_SEND_DISABLE_LIMITS_MAX_D == 1

\* What is outside this code and happens a bounded number of times.
Happenings == {"edit", "script", "turn", "timeout", "reveal", "delete", "predict"}

(* The content of a block, as a version of its nodes that are changed one  *)
(* at a time, of what is changed in bulk, and of its metadata, 0 = none.   *)
Guess == -1                               \* a node the client has predicted
Content == [node : Nat \cup {Guess}, bulk : Nat, meta : Nat]
Fresh == [node |-> 0, bulk |-> 0, meta |-> 0]
NoBlock == {}

VARIABLES
    content,          \* the server's map
    mem,              \* of each block, as Stored; "blank" is not generated
    emerging,         \* blocks this client's searches have queued
    emerged,          \* of these, done, but the map's event is still to come
    hidden,           \* blocks for which isBlockOccluded holds
    events,           \* m_unsent_map_edit_queue
    flushing,         \* is the server in the loop over events?
    node_meta_updates,
    m_blocks_sent, m_blocks_sending, m_blocks_modified, m_blocks_occ,
    m_nearest_unsent_d,
    passed,           \* history: blocks the search went past without taking them
    pausing,          \* m_nothing_to_send_pause_timer >= 0
    toClient0, toClient2, toServer0, toServer2,     \* channels 0 and 2
    copy,             \* the client's blocks: {} or the content
    unacked,          \* BLOCKDATA of each block whose mesh is not made yet
    stuck,            \* history: blocks with a prediction nobody corrects
    told,             \* history: the content last put into messages
    times             \* how often each of Happenings occurred

mapvars == << content, mem, emerging, emerged, hidden >>
remote == << m_blocks_sent, m_blocks_sending, m_blocks_modified, pausing >>
search == << m_nearest_unsent_d, m_blocks_occ, passed >>
eventvars == << events, flushing, node_meta_updates >>
client == << copy, unacked, stuck >>
net == << toClient0, toClient2, toServer0, toServer2 >>
vars == << mapvars, remote, search, eventvars, client, net, told, times >>

Event == [kind : {"node", "bulk", "meta"}, block : Blocks, node : Nat]
Message0 == [type : {"ADDNODE"}, block : Blocks, node : Nat]
            \cup [type : {"NODEMETA_CHANGED"}, metas : SUBSET (Blocks \X Nat)]
Message2 == [block : Blocks, data : Content]
Reply == [type : {"GOTBLOCKS", "DELETEDBLOCKS"}, block : Blocks]
Interact == [under : Blocks, above : Blocks, at : Blocks \cup {0}, dig : BOOLEAN]

TypeOK ==
    /\ content \in [Blocks -> Content]
    /\ mem \in [Blocks -> {"none", "blank", "ready"}]
    /\ emerging \in SUBSET Blocks /\ emerged \in SUBSET Blocks
    /\ hidden \in SUBSET Blocks
    /\ events \in Seq(Event)
    /\ flushing \in BOOLEAN
    /\ node_meta_updates \in SUBSET Blocks
    /\ m_blocks_sent \in SUBSET Blocks
    /\ m_blocks_sending \in SUBSET Blocks
    /\ m_blocks_modified \in SUBSET Blocks
    /\ m_blocks_occ \in SUBSET Blocks
    /\ m_nearest_unsent_d \in Nat /\ passed \in SUBSET Blocks
    /\ pausing \in BOOLEAN
    /\ toClient0 \in Seq(Message0) /\ toClient2 \in Seq(Message2)
    /\ toServer0 \in Seq(Interact) /\ toServer2 \in Seq(Reply)
    /\ copy \in [Blocks -> SUBSET Content]
    /\ \A b \in Blocks : \A c, d \in copy[b] : c = d
    /\ unacked \in [Blocks -> Nat]
    /\ stuck \in SUBSET Blocks
    /\ told \in [Blocks -> Content]
    /\ times \in [Happenings -> Nat]

Init ==
    /\ content = [b \in Blocks |-> Fresh]
    /\ mem = [b \in Blocks |-> IF b \in Loaded THEN Stored[b] ELSE "none"]
    /\ emerging = {} /\ emerged = {} /\ hidden = Hideable
    /\ events = <<>> /\ flushing = FALSE /\ node_meta_updates = {}
    /\ m_blocks_sent = {} /\ m_blocks_sending = {}
    /\ m_blocks_modified = {} /\ m_blocks_occ = {}
    /\ m_nearest_unsent_d = 0 /\ passed = {} /\ pausing = FALSE
    /\ toClient0 = <<>> /\ toClient2 = <<>> /\ toServer0 = <<>> /\ toServer2 = <<>>
    /\ copy = [b \in Blocks |-> NoBlock]
    /\ unacked = [b \in Blocks |-> 0]
    /\ stuck = {}
    /\ told = [b \in Blocks |-> Fresh]
    /\ times = [h \in Happenings |-> 0]

May(h) == times[h] < MaxTimes[h]
Count(h) == times' = [times EXCEPT ![h] = times[h] + 1]

-----------------------------------------------------------------------------
(* RemoteClient's sets of blocks *)

\* Mutant: a block in flight is left to arrive.
Bug_KeepSending(S) ==
    /\ pausing' = FALSE
    /\ m_blocks_sent' = m_blocks_sent \ S
    /\ m_blocks_modified' = m_blocks_modified \cup (S \cap m_blocks_sent)
    /\ UNCHANGED m_blocks_sending

(* SetBlockNotSent and SetBlocksNotSent. *)
SetNotSent(S) ==
    /\ pausing' = FALSE
    /\ m_blocks_sent' = m_blocks_sent \ S
    /\ m_blocks_sending' = m_blocks_sending \ S
    /\ m_blocks_modified' =
           m_blocks_modified \cup (S \cap (m_blocks_sent \cup m_blocks_sending))

(* ResendBlockIfOnWire, for each block of S. *)
ResendIfOnWire(S) ==
    IF S \cap m_blocks_sending # {}
    THEN SetNotSent(S \cap m_blocks_sending)
    ELSE UNCHANGED remote

\* Mutant: an acknowledgement always counts.
Bug_GotBlock(b) ==
    /\ m_blocks_sending' = m_blocks_sending \ {b}
    /\ m_blocks_sent' = m_blocks_sent \cup {b}
    /\ UNCHANGED << m_blocks_modified, pausing >>

GotBlock(b) ==
    /\ m_blocks_sending' = m_blocks_sending \ {b}
    /\ m_blocks_sent' = IF b \in m_blocks_sending THEN m_blocks_sent \cup {b}
                                                  ELSE m_blocks_sent
    /\ UNCHANGED << m_blocks_modified, pausing >>

-----------------------------------------------------------------------------
(* The map changes *)

(* A change of a block in memory, and the event the map dispatches of it.  *)
Changed(b, kind) ==
    [content EXCEPT ![b] =
        [node |-> IF kind = "node" THEN content[b].node + 1 ELSE content[b].node,
         bulk |-> IF kind = "bulk" THEN content[b].bulk + 1 ELSE content[b].bulk,
         meta |-> IF kind = "meta" THEN times["edit"] + 1
                  ELSE IF kind = "unmeta" THEN 0 ELSE content[b].meta]]

OfKind(b, kind) ==
    [kind |-> IF kind = "unmeta" THEN "meta" ELSE kind, block |-> b,
     node |-> IF kind = "node" THEN content[b].node + 1 ELSE 0]

Edit(b, kind) ==
    /\ ~flushing
    /\ mem[b] = "ready"
    /\ kind = "unmeta" => content[b].meta # 0
    /\ May("edit") /\ Count("edit")
    /\ content' = Changed(b, kind)
    /\ events' = Append(events, OfKind(b, kind))
    /\ UNCHANGED << mem, emerging, emerged, hidden, flushing, node_meta_updates >>

(* A mod, an ABM or another player changes something. *)
MapEdit(b, kind) ==
    /\ Edit(b, kind)
    /\ UNCHANGED << remote, search, client, net, told >>

(* EmergeThread::getBlockOrStartGen has loaded a block, generated it or     *)
(* given up.                                                               *)
EmergeDone(b) ==
    LET generated == mem[b] = "blank" /\ Dist[b] <= d_max_gen
        there == CASE mem[b] = "ready" \/ Dist[b] <= d_max_gen -> "ready"
                   [] mem[b] = "none" -> Stored[b]
                   [] OTHER -> mem[b]
    IN  /\ ~flushing
        /\ b \in emerging
        /\ emerging' = emerging \ {b}
        /\ mem' = [mem EXCEPT ![b] = there]
        /\ content' = IF generated THEN [content EXCEPT ![b].bulk = content[b].bulk + 1]
                                   ELSE content
        /\ emerged' = IF there = "none" THEN emerged ELSE emerged \cup {b}
        /\ UNCHANGED << hidden, remote, search, eventvars, client, net, told, times >>

(* Having called the callbacks, the thread takes the mutex again and       *)
(* reports the block as modified.                                          *)
EmergeReport(b) ==
    /\ ~flushing
    /\ b \in emerged
    /\ emerged' = emerged \ {b}
    /\ events' = Append(events, [kind |-> "bulk", block |-> b, node |-> 0])
    /\ UNCHANGED << content, mem, emerging, hidden, flushing, node_meta_updates, remote,
                    search, client, net, told, times >>

(* What stood before a block is gone, or the camera has moved. *)
Reveal(b) ==
    /\ ~flushing
    /\ b \in hidden
    /\ May("reveal") /\ Count("reveal")
    /\ hidden' = hidden \ {b}
    /\ UNCHANGED << content, mem, emerging, emerged, remote, search, eventvars, client,
                    net, told >>

-----------------------------------------------------------------------------
(* Server::AsyncRunStep: the queued map edit events *)

(* sendNodeChangePkt: a single node is sent to a near client that has the  *)
(* block; far depends on where the node is and how many events there are.  *)
SendsNode(b, far) == b \in m_blocks_sent /\ ~far

\* Whether the block of an event is set not sent.
Marks(e, far) == e.kind = "bulk" \/ (e.kind = "node" /\ ~SendsNode(e.block, far))

(* One round of the loop over the events. *)
FlushEvent(far) ==
    /\ events # <<>>
    /\ flushing' = TRUE
    /\ events' = Tail(events)
    /\ LET e == Head(events)
           sends == e.kind = "node" /\ SendsNode(e.block, far)
       IN  /\ toClient0' = IF ~sends THEN toClient0
                           ELSE Append(toClient0, [type |-> "ADDNODE", block |-> e.block,
                                                   node |-> e.node])
           /\ told' = IF ~sends THEN told ELSE [told EXCEPT ![e.block].node = e.node]
           /\ IF Marks(e, far) THEN SetNotSent({e.block}) ELSE UNCHANGED remote
           /\ node_meta_updates' = IF e.kind = "meta" THEN node_meta_updates \cup {e.block}
                                                      ELSE node_meta_updates
    /\ UNCHANGED << mapvars, search, client, toClient2, toServer0, toServer2, times >>

(* The queue is empty: sendMetadataChanged for the positions gathered.     *)
(* Metadata that is gone is neither sent nor marked.                       *)
FlushEnd(far) ==
    LET present == {b \in node_meta_updates : content[b].meta # 0}
        unsent == {b \in present : b \notin m_blocks_sent \/ b \in far}
        updates == present \ unsent
    IN  /\ flushing /\ events = <<>>
        /\ flushing' = FALSE
        /\ node_meta_updates' = {}
        /\ IF unsent # {} THEN SetNotSent(unsent) ELSE UNCHANGED remote
        /\ toClient0' = IF updates = {} THEN toClient0
                        ELSE Append(toClient0,
                                    [type |-> "NODEMETA_CHANGED",
                                     metas |-> {<<b, content[b].meta>> : b \in updates}])
        /\ told' = [b \in Blocks |-> IF b \in updates
                                     THEN [told[b] EXCEPT !.meta = content[b].meta]
                                     ELSE told[b]]
        /\ UNCHANGED << mapvars, search, events, client, toClient2, toServer0, toServer2,
                        times >>

-----------------------------------------------------------------------------
(* Server::SendBlocks: RemoteClient::GetNextBlocks and what is sent of it *)

\* The blocks of S as messages, in the order of the search.
BlockData(S) ==
    LET at(i) == CHOOSE b \in S : Cardinality({c \in S : c < b}) = i - 1
    IN  [i \in 1 .. Cardinality(S) |-> [block |-> at(i), data |-> content[at(i)]]]

\* How many may be in flight once a block at distance d is added.
Limit(d, building) ==
    IF building /\ d > BLOCK_SEND_DISABLE_LIMITS_MAX_D
    THEN LIMITED_MAX_SIMULTANEOUS_BLOCK_SENDS ELSE m_max_simul_sends

Generate(b) == Dist[b] <= d_max_gen

\* Neither in flight nor sent, wanted and not known to be hidden.
Lacking(b) ==
    /\ b \notin m_blocks_sending \cup m_blocks_sent
    /\ mem[b] = "blank" => Generate(b)
    /\ b \notin m_blocks_occ

Selectable(b) == Lacking(b) /\ b \notin hidden /\ mem[b] = "ready"
Emergeable(b) == Lacking(b) /\ b \notin hidden /\ mem[b] # "ready"

\* Mutant: the search does not go back for what was modified.
Bug_Start(turned) == IF turned THEN 0 ELSE m_nearest_unsent_d

(* Where a search begins: at the player when he has moved to another block *)
(* or turned, else at the nearest block that is unsent or was modified.    *)
Start(turned) ==
    IF turned \/ m_nearest_unsent_d = 0 THEN 0
    ELSE Min({m_nearest_unsent_d} \cup {Euclid[b] : b \in m_blocks_modified})

\* Mutant: one more than the limit.
Bug_Full(b, start, building) ==
    Cardinality(m_blocks_sending)
        + Cardinality({c \in Blocks : start <= Dist[c] /\ c < b /\ Selectable(c)})
      > Limit(Dist[b], building)

\* Enough blocks are in flight or selected when the search comes to b.
Full(b, start, building) ==
    Cardinality(m_blocks_sending)
        + Cardinality({c \in Blocks : start <= Dist[c] /\ c < b /\ Selectable(c)})
      >= Limit(Dist[b], building)

(* Where the next search begins. *)
Nearest(requested, refused_d, chosen, d) ==
    IF requested # {} THEN Min({Dist[b] : b \in requested})
    ELSE IF refused_d # {} THEN Min(refused_d)
    ELSE IF d > full_d_max THEN 0
    ELSE Min({d} \cup {Dist[b] : b \in chosen})

\* Mutant: the cache is kept.
Bug_Culled(nearest, start, culled) == m_blocks_occ \cup culled

\* The blocks known to be hidden, until the distance changes.
Culled(nearest, start, culled) ==
    IF nearest # start THEN {} ELSE m_blocks_occ \cup culled

(* What a search beginning at start leaves behind: of what it reached, the *)
(* blocks that are hidden, and those it selected but did not send when it  *)
(* goes on from a block it asked for; and what was modified nearer than it *)
(* looks, where the two distances differ.                                  *)
Left(start, reached, dropped) ==
    {b \in reached : b \in hidden \cup m_blocks_occ} \cup dropped
    \cup {b \in m_blocks_modified : Dist[b] < start /\ start <= Euclid[b]}

(* One pass.  refuse is the first block the emerge queue has no room for,  *)
(* N + 1 if there is room; sent is what the cap over all clients leaves of *)
(* the selected blocks.                                                    *)
SendBlocks(turned, building, refuse, sent) ==
    LET start == Start(turned)
        range == {b \in Blocks : start <= Dist[b] /\ Dist[b] <= start + 2}
        stops == {b \in range : \/ Full(b, start, building)
                                \/ Emergeable(b) /\ b >= refuse}
        reached == {b \in range : \A s \in stops : b < s}
        chosen == {b \in reached : Selectable(b)}
        requested == {b \in reached : Emergeable(b)}
        d == IF stops # {} THEN Dist[Min(stops)] ELSE Min({start + 2, full_d_max}) + 1
        refused_d == IF stops # {} /\ ~Full(Min(stops), start, building) THEN {d} ELSE {}
        nearest == Nearest(requested, refused_d, chosen, d)
        send == IF OthersBusy THEN chosen \cap sent ELSE chosen
        dropped == IF requested \cup refused_d = {} THEN {} ELSE chosen \ send
    IN  /\ ~flushing
        /\ ~pausing
        /\ Cardinality(m_blocks_sending) < m_max_simul_sends
        /\ IF turned THEN May("turn") /\ Count("turn") ELSE UNCHANGED times
        /\ m_nearest_unsent_d' = nearest
        /\ m_blocks_occ' = Culled(nearest, start, {b \in reached \cap hidden : Lacking(b)})
        /\ passed' = {b \in passed : Dist[b] < start} \cup Left(start, reached, dropped)
        /\ pausing' = (requested = {} /\ refused_d = {} /\ d > full_d_max)
        /\ m_blocks_modified' = {}
        /\ emerging' = emerging \cup requested
        /\ m_blocks_sending' = m_blocks_sending \cup send
        /\ toClient2' = toClient2 \o BlockData(send)
        /\ told' = [b \in Blocks |-> IF b \in send THEN content[b] ELSE told[b]]
        /\ stuck' = stuck \ send
        /\ UNCHANGED << content, mem, emerged, hidden, m_blocks_sent, eventvars, copy,
                        unacked, toClient0, toServer0, toServer2 >>

(* The 2 s without a search after one that found nothing more. *)
PauseOver ==
    /\ pausing
    /\ pausing' = FALSE
    /\ UNCHANGED << mapvars, m_blocks_sent, m_blocks_sending, m_blocks_modified, search,
                    eventvars, client, net, told, times >>

(* m_map_send_completion_timer: the whole takes too long, start again. *)
CompletionTimeout ==
    /\ ~flushing
    /\ May("timeout") /\ Count("timeout")
    /\ m_nearest_unsent_d' = 0
    /\ UNCHANGED << mapvars, remote, m_blocks_occ, passed, eventvars, client, net, told >>

(* Server::SendBlock, of player:send_mapblock: the block is sent but is    *)
(* not noted as in flight.                                                 *)
SendBlock(b) ==
    /\ ~flushing
    /\ mem[b] # "none"
    /\ b \notin m_blocks_sent
    /\ May("script") /\ Count("script")
    /\ toClient2' = toClient2 \o BlockData({b})
    /\ told' = [told EXCEPT ![b] = content[b]]
    /\ stuck' = stuck \ {b}
    /\ UNCHANGED << mapvars, remote, search, eventvars, copy, unacked, toClient0,
                    toServer0, toServer2 >>

-----------------------------------------------------------------------------
(* The client *)

(* handleCommand_AddNode, handleCommand_NodemetaChanged: what the client   *)
(* does not have is not changed.                                           *)
ClientReceive0 ==
    /\ toClient0 # <<>>
    /\ toClient0' = Tail(toClient0)
    /\ LET m == Head(toClient0)
           new(b, c) ==
               IF m.type = "ADDNODE"
               THEN IF m.block = b THEN [c EXCEPT !.node = m.node] ELSE c
               ELSE IF \E v \in m.metas : v[1] = b
                    THEN [c EXCEPT !.meta = (CHOOSE v \in m.metas : v[1] = b)[2]]
                    ELSE c
       IN  copy' = [b \in Blocks |-> {new(b, c) : c \in copy[b]}]
    /\ UNCHANGED << mapvars, remote, search, eventvars, unacked, stuck, toClient2,
                    toServer0, toServer2, told, times >>

(* handleCommand_BlockData: the block is acknowledged when its mesh is made. *)
ClientReceive2 ==
    /\ toClient2 # <<>>
    /\ toClient2' = Tail(toClient2)
    /\ LET m == Head(toClient2) IN
       /\ copy' = [copy EXCEPT ![m.block] = {m.data}]
       /\ unacked' = [unacked EXCEPT ![m.block] = unacked[m.block] + 1]
    /\ UNCHANGED << mapvars, remote, search, eventvars, stuck, toClient0, toServer0,
                    toServer2, told, times >>

(* Client::step: a mesh is made, and the blocks waiting for it acknowledged. *)
ClientAck(b) ==
    /\ unacked[b] > 0
    /\ unacked' = [unacked EXCEPT ![b] = unacked[b] - 1]
    /\ toServer2' = Append(toServer2, [type |-> "GOTBLOCKS", block |-> b])
    /\ UNCHANGED << mapvars, remote, search, eventvars, copy, stuck, toClient0, toClient2,
                    toServer0, told, times >>

(* Map::timerUpdate on the client: a block unused for long is dropped, but *)
(* not while a mesh made of it holds a reference.                          *)
ClientDelete(b) ==
    /\ copy[b] # NoBlock /\ unacked[b] = 0
    /\ May("delete") /\ Count("delete")
    /\ copy' = [copy EXCEPT ![b] = NoBlock]
    /\ toServer2' = Append(toServer2, [type |-> "DELETEDBLOCKS", block |-> b])
    /\ UNCHANGED << mapvars, remote, search, eventvars, unacked, stuck, toClient0,
                    toClient2, toServer0, told >>

(* The player digs or places a node.  The client predicts the result where *)
(* it expects it (at; 0: no prediction) and tells the server.              *)
Predict(under, above, at, dig) ==
    /\ May("predict") /\ Count("predict")
    /\ copy[under] # NoBlock
    /\ at \in (IF dig THEN {under, 0} ELSE {under, above, 0})
    /\ copy' = [b \in Blocks |-> IF b = at THEN {[c EXCEPT !.node = Guess] : c \in copy[b]}
                                           ELSE copy[b]]
    /\ toServer0' = Append(toServer0, [under |-> under, above |-> above, at |-> at, dig |-> dig])
    /\ UNCHANGED << mapvars, remote, search, eventvars, unacked, stuck, toClient0,
                    toClient2, toServer2, told >>

-----------------------------------------------------------------------------
(* Server: handlers of the client's messages *)

(* handleCommand_GotBlocks, handleCommand_DeletedBlocks. *)
ServerReceive2 ==
    /\ ~flushing
    /\ toServer2 # <<>>
    /\ toServer2' = Tail(toServer2)
    /\ LET m == Head(toServer2) IN
       IF m.type = "GOTBLOCKS" THEN GotBlock(m.block) ELSE SetNotSent({m.block})
    /\ UNCHANGED << mapvars, search, eventvars, client, toClient0, toClient2, toServer0,
                    told, times >>

(* The blocks sent again whatever the client has: to revert a prediction   *)
(* or to confirm a placement.                                              *)
Resent(verdict, m) ==
    IF verdict \in {"dead", "too_far"} THEN {m.under}
    ELSE IF verdict = "no_priv" THEN {IF m.dig THEN m.under ELSE m.above}
    ELSE IF m.dig /\ verdict = "refused" THEN {m.under}
    ELSE IF ~m.dig /\ m.at # 0 THEN {m.under, m.above}
    ELSE {}

\* Where a dig or a placement that succeeds changes a node.
Target(m) == IF m.at # 0 THEN m.at ELSE IF m.dig THEN m.under ELSE m.above

(* handleCommand_Interact, of a dig or a placement. *)
ServerInteract(verdict) ==
    /\ ~flushing
    /\ toServer0 # <<>>
    /\ toServer0' = Tail(toServer0)
    /\ LET m == Head(toServer0) IN
       /\ IF verdict = "done" THEN Edit(Target(m), "node")
                              ELSE UNCHANGED << mapvars, eventvars, times >>
       /\ IF Resent(verdict, m) # {} THEN SetNotSent(Resent(verdict, m))
          ELSE ResendIfOnWire(IF m.dig THEN {m.under} ELSE {m.under, m.above})
       /\ stuck' = IF verdict = "done" \/ m.at = 0 THEN stuck
                   ELSE stuck \cup ({m.at} \ Resent(verdict, m))
    /\ UNCHANGED << search, copy, unacked, toClient0, toClient2, toServer2, told >>

-----------------------------------------------------------------------------
FreePass == SendBlocks(FALSE, FALSE, N + 1, Blocks)

Next ==
    \/ \E b \in Blocks, kind \in EditKinds : MapEdit(b, kind)
    \/ \E b \in Blocks : EmergeDone(b) \/ EmergeReport(b) \/ Reveal(b)
    \/ \E far \in BOOLEAN : FlushEvent(far)
    \/ \E far \in SUBSET node_meta_updates : FlushEnd(far)
    \/ \E turned, building \in BOOLEAN,
          refuse \in {b \in Blocks : Emergeable(b)} \cup {N + 1},
          sent \in IF OthersBusy THEN SUBSET Blocks ELSE {{}} :
           SendBlocks(turned, building, refuse, sent)
    \/ PauseOver
    \/ CompletionTimeout
    \/ \E b \in Blocks : SendBlock(b) \/ ClientAck(b) \/ ClientDelete(b)
    \/ ClientReceive0
    \/ ClientReceive2
    \/ \E under, above \in Blocks, at \in 0 .. N, dig \in BOOLEAN :
           Predict(under, above, at, dig)
    \/ ServerReceive2
    \/ \E verdict \in Verdicts : ServerInteract(verdict)

Spec == Init /\ [][Next]_vars

-----------------------------------------------------------------------------
(* Properties *)

(* A block is in flight or sent, not both, and no more are in flight than  *)
(* the client's limit (max_simultaneous_block_sends_per_client), whatever  *)
(* is acknowledged late or twice.                                          *)
Throttled ==
    /\ m_blocks_sent \cap m_blocks_sending = {}
    /\ Cardinality(m_blocks_sending) <= m_max_simul_sends

Pending(b, kind) == \E i \in DOMAIN events : events[i].kind = kind /\ events[i].block = b

(* clientiface.h:350, "blocks that have been sent to client; these don't   *)
(* have to be sent again": what a block in m_blocks_sent or in flight      *)
(* contains has been put into messages, or an edit event will see to it.   *)
Announced ==
    \A b \in m_blocks_sent \cup m_blocks_sending :
        /\ told[b].node = content[b].node \/ Pending(b, "node")
        /\ told[b].bulk = content[b].bulk \/ Pending(b, "bulk")
        /\ told[b].meta = content[b].meta \/ Pending(b, "meta") \/ b \in node_meta_updates

\* Nothing about b is under way between the two.
Settled(b) ==
    /\ ~flushing
    /\ \A i \in DOMAIN events : events[i].block # b
    /\ \A i \in DOMAIN toClient0 : toClient0[i].type = "ADDNODE" /\ toClient0[i].block # b
    /\ \A i \in DOMAIN toClient2 : toClient2[i].block # b
    /\ \A i \in DOMAIN toServer0 : b \notin {toServer0[i].under, toServer0[i].above}
    /\ \A i \in DOMAIN toServer2 : ~(/\ toServer2[i].type = "DELETEDBLOCKS"
                                     /\ toServer2[i].block = b)

(* The same for the client: once nothing is under way, it has the server's *)
(* content of every block the server counts as sent.                       *)
UpToDate ==
    \A b \in m_blocks_sent : Settled(b) => copy[b] = {content[b]}

(* The same for blocks that were only ever changed in bulk: the others may *)
(* be older at the client, as single nodes and metadata travel on another  *)
(* channel than blocks (blocks_overtaken.cfg).  All messages about blocks, *)
(* their acknowledgements and deletions and the answers to what the player *)
(* does together see to it, but for what he predicted in a block that a    *)
(* refusal does not send again, until it is sent (blocks_revert.cfg).      *)
BulkUpToDate ==
    \A b \in m_blocks_sent \ stuck :
        Settled(b) /\ content[b].node = 0 /\ content[b].meta = 0
            => copy[b] = {content[b]}

\* A block that could be sent and is nearer than where the next search begins.
Behind(b) ==
    /\ mem[b] = "ready"
    /\ b \notin m_blocks_sent \cup m_blocks_sending \cup m_blocks_modified
    /\ Dist[b] < m_nearest_unsent_d

(* clientiface.cpp:165 and 199: the search goes on where it found the      *)
(* nearest unsent block, and goes back for blocks modified since.  So it   *)
(* is past a block that could be sent only if it found the block hidden or *)
(* could not find it modified (blocks_diagonal.cfg), or Server::SendBlocks *)
(* dropped it when the search went on from a block it asked for            *)
(* (blocks_cap.cfg).                                                       *)
NothingBehind == \A b \in Blocks \ passed : ~ Behind(b)

(* What the comments say: it is past no block in sight. *)
NothingPassed == \A b \in Blocks \ hidden : ~ Behind(b)

\* Blocks that can be loaded or generated.
Obtainable == {b \in Blocks : Stored[b] = "ready" \/ Dist[b] <= d_max_gen}

(* settingtypes.txt:2218, "from how far blocks are sent to clients": with  *)
(* nothing changing any more, every block in range that can be had and is  *)
(* not hidden is sent and acknowledged.                                    *)
AllSent == <>[](Obtainable \ hidden \subseteq m_blocks_sent)
=============================================================================
