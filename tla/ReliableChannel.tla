--------------------------- MODULE ReliableChannel ---------------------------
(***************************************************************************)
(* One direction of the reliable MTP channel 0: the sender's Channel of a  *)
(* UDPPeer, worked by its ConnectionSendThread and, for ACKs, by its       *)
(* ConnectionReceiveThread; the network; and the receiver's Channel,       *)
(* worked by its ConnectionReceiveThread.                                  *)
(*                                                                         *)
(* A packet carries a 16-bit seq, which is all the code ever reads, and    *)
(* the position n its payload has in log, which only the properties read.  *)
(***************************************************************************)
EXTENDS SeqNum, Sequences, FiniteSets

CONSTANTS
    SEQNUM_INITIAL,                  \* first sequence number of both ends
    MIN_RELIABLE_WINDOW_SIZE, START_RELIABLE_WINDOW_SIZE,
    MAX_RELIABLE_WINDOW_SIZE_SEND,   \* bounds and start of m_window_size
    WindowSteps,                     \* the changes UpdateTimers may make to it
    MaxPacketsRequeued,              \* m_max_packets_requeued
    ChunkCounts,                     \* chunks a command may be split into
    MaxCommands, MaxPings,           \* bounds: user commands, pings
    MaxInFlight, MaxAcksInFlight     \* bounds: packets and ACKs in the network

ASSUME ChannelAssumption ==
    /\ SEQNUM_INITIAL \in SeqNums
    /\ MIN_RELIABLE_WINDOW_SIZE \in Nat \ {0}
    /\ START_RELIABLE_WINDOW_SIZE \in Nat
    /\ MAX_RELIABLE_WINDOW_SIZE_SEND \in Nat
    /\ MIN_RELIABLE_WINDOW_SIZE <= START_RELIABLE_WINDOW_SIZE
    /\ START_RELIABLE_WINDOW_SIZE <= MAX_RELIABLE_WINDOW_SIZE_SEND
    /\ MAX_RELIABLE_WINDOW_SIZE_SEND + 2 < MAX_RELIABLE_WINDOW_SIZE
    /\ WindowSteps \subseteq Int
    /\ MaxPacketsRequeued \in Nat
    /\ ChunkCounts \subseteq 1 .. MAX_RELIABLE_WINDOW_SIZE - 1
    /\ MaxCommands \in Nat
    /\ MaxPings \in Nat
    /\ MaxInFlight \in Nat \ {0}
    /\ MaxAcksInFlight \in Nat \ {0}

VARIABLES
    life,                    \* "live", "pending" (m_pending_disconnect), "deleted"
    half_open,               \* the peer has not used its peer id yet
    submitted,               \* history: chunk count of each command accepted
    queued_commands,         \* commands not split into packets yet
    log,                     \* history: payload of each packet given a number
    next_outgoing_seqnum,
    queued_reliables,        \* packets with a number, not sent yet
    outgoing_reliables_sent, \* packets waiting for their ACK
    m_window_size,
    wire,                    \* reliable packets in the network
    acks,                    \* ACKs in the network
    next_incoming_seqnum,
    incoming_reliables,      \* packets that arrived early
    delivered                \* history: the n of each packet processed, in order

sender == << life, half_open, submitted, queued_commands, log,
             next_outgoing_seqnum, queued_reliables,
             outgoing_reliables_sent, m_window_size >>
receiver == << next_incoming_seqnum, incoming_reliables, delivered >>
vars == << sender, wire, acks, receiver >>

Packet == [n : Nat, seq : SeqNums]
Payload == [cmd : Nat, chunk : Nat]
PING == [cmd |-> 0, chunk |-> 0]         \* the two reliable packets that are
SET_PEER_ID == [cmd |-> 0, chunk |-> 1]  \* no chunk of a command
Command == [id : Nat, size : ChunkCounts]

Ns(S) == {p.n : p \in S}
Queued == {queued_reliables[i] : i \in DOMAIN queued_reliables}

TypeOK ==
    /\ life \in {"live", "pending", "deleted"}
    /\ half_open \in BOOLEAN
    /\ submitted \in Seq(ChunkCounts)
    /\ queued_commands \in Seq(Command)
    /\ log \in Seq(Payload)
    /\ next_outgoing_seqnum \in SeqNums
    /\ queued_reliables \in Seq(Packet)
    /\ outgoing_reliables_sent \in SUBSET Packet
    /\ m_window_size \in MIN_RELIABLE_WINDOW_SIZE .. MAX_RELIABLE_WINDOW_SIZE_SEND
    /\ wire \in SUBSET Packet
    /\ acks \in SUBSET Packet
    /\ next_incoming_seqnum \in SeqNums
    /\ incoming_reliables \in SUBSET Packet
    /\ delivered \in Seq(Nat)

Init ==
    /\ life = "live"
    /\ half_open \in BOOLEAN  \* a server's new peer is half open, a client's is not
    /\ submitted = <<>>
    /\ queued_commands = <<>>
    /\ log = <<>>
    /\ next_outgoing_seqnum = SEQNUM_INITIAL
    /\ queued_reliables = <<>>
    /\ outgoing_reliables_sent = {}
    /\ m_window_size = START_RELIABLE_WINDOW_SIZE
    /\ wire = {}
    /\ acks = {}
    /\ next_incoming_seqnum = SEQNUM_INITIAL
    /\ incoming_reliables = {}
    /\ delivered = <<>>

-----------------------------------------------------------------------------
(* The network: an unordered set of copies, lost by Lose, duplicated by    *)
(* receiving without removing.  What is put on a full one displaces        *)
(* another: the bound loses packets, as the network may.                   *)
Put(net, p, capacity) ==
    IF p \in net THEN {net}
    ELSE IF Cardinality(net) < capacity THEN {net \cup {p}}
         ELSE {(net \ {q}) \cup {p} : q \in net}

Transmit(p) == wire' \in Put(wire, p, MaxInFlight)

(* Assumed of the network: no copy of a packet is still under way when the *)
(* sender has gone on by half the ring since it was numbered.              *)
Alive(net, len) == {p \in net : len + 1 - p.n < MAX_RELIABLE_WINDOW_SIZE}

-----------------------------------------------------------------------------
(* Sender *)

(* The front of the outgoing list: it is kept in the order of the distance *)
(* from the window base, so its front is the packet furthest behind.       *)
IsFront(p) ==
    /\ p \in outgoing_reliables_sent
    /\ \A q \in outgoing_reliables_sent :
           Dist(p.seq, next_outgoing_seqnum) >= Dist(q.seq, next_outgoing_seqnum)

\* Mutant: no window at all.
Bug_SeqNumAvailable(next) == TRUE

(* getOutgoingSequenceNumber: is there a number when the next one is next? *)
(* The two branches of the code differ by one.                             *)
SeqNumAvailable(next) ==
    outgoing_reliables_sent # {} =>
        \E p \in outgoing_reliables_sent :
            /\ IsFront(p)
            /\ IF p.seq < next
               THEN next - p.seq <= m_window_size
               ELSE next + (SEQNUM_MAX - p.seq) <= m_window_size

(* Numbers for k packets, or none: the ones taken before a failure are put *)
(* back.  ACKs can only make more of them available meanwhile.             *)
CanNumber(k) ==
    \A i \in 0 .. k - 1 : SeqNumAvailable(U16(next_outgoing_seqnum + i))

Numbered(payloads) ==
    [i \in 1 .. Len(payloads) |->
        [n |-> Len(log) + i, seq |-> U16(next_outgoing_seqnum + i - 1)]]

\* Number the payloads: what every sender of reliable packets does first.
Number(payloads) ==
    /\ CanNumber(Len(payloads))
    /\ log' = log \o payloads
    /\ next_outgoing_seqnum' = U16(next_outgoing_seqnum + Len(payloads))

Chunks(c) == [i \in 1 .. c.size |-> [cmd |-> c.id, chunk |-> i]]

ProcessReliableSendCommand(c) ==
    /\ Number(Chunks(c))
    /\ queued_reliables' = queued_reliables \o Numbered(Chunks(c))
    /\ wire' = Alive(wire, Len(log) + c.size)
    /\ acks' = Alive(acks, Len(log) + c.size)

\* Mutant: a command may overtake the ones that wait.
Bug_AtOnce(k) ==
    Len(queued_reliables) + 1 < m_window_size \div 2 /\ CanNumber(k)

AtOnce(k) ==
    /\ queued_commands = <<>>
    /\ Len(queued_reliables) + 1 < m_window_size \div 2
    /\ CanNumber(k)

(* A command of the application reaches the peer, after CONCMD_CREATE_PEER *)
(* if there is one.  It is dropped when the peer is about to be            *)
(* disconnected (no step), processed at once when no other waits and       *)
(* little is queued, and queued otherwise.                                 *)
PutReliableSendCommand(k) ==
    LET c == [id |-> Len(submitted) + 1, size |-> k]
    IN  /\ life = "live"
        /\ half_open => log # <<>>
        /\ Len(submitted) < MaxCommands
        /\ submitted' = Append(submitted, k)
        /\ \/ /\ AtOnce(k)
              /\ ProcessReliableSendCommand(c)
              /\ UNCHANGED queued_commands
           \/ /\ ~ AtOnce(k)
              /\ queued_commands' = Append(queued_commands, c)
              /\ UNCHANGED << log, next_outgoing_seqnum, queued_reliables,
                              wire, acks >>
        /\ UNCHANGED << life, half_open, outgoing_reliables_sent, m_window_size,
                        receiver >>

(* The head of queued_commands is retried every turn of the send thread;   *)
(* one that cannot be numbered stays at the head.  A peer about to be      *)
(* disconnected drops it.                                                  *)
RunCommandQueues ==
    /\ life # "deleted"
    /\ queued_commands # <<>>
    /\ Len(queued_reliables) < MaxPacketsRequeued
    /\ \/ /\ life = "live"
          /\ ProcessReliableSendCommand(Head(queued_commands))
       \/ /\ life = "pending"
          /\ UNCHANGED << log, next_outgoing_seqnum, queued_reliables, wire, acks >>
    /\ queued_commands' = Tail(queued_commands)
    /\ UNCHANGED << life, half_open, submitted, outgoing_reliables_sent,
                    m_window_size, receiver >>

(* ReliablePacketBuffer::insert on the outgoing list: a packet outside the *)
(* window, at its base, or already there is not inserted.                  *)
BufferedSent(p, next) ==
    IF /\ Insertable(p.seq, WindowBase(next))
       /\ \A q \in outgoing_reliables_sent : q.seq # p.seq
    THEN outgoing_reliables_sent \cup {p}
    ELSE outgoing_reliables_sent

\* sendPackets, one packet: sendAsPacketReliable sends it, buffered or not.
SendQueued ==
    /\ life # "deleted"
    /\ queued_reliables # <<>>
    /\ Cardinality(outgoing_reliables_sent) < m_window_size
    /\ LET p == Head(queued_reliables)
       IN  /\ outgoing_reliables_sent' = BufferedSent(p, next_outgoing_seqnum)
           /\ Transmit(p)
    /\ queued_reliables' = Tail(queued_reliables)
    /\ UNCHANGED << life, half_open, submitted, queued_commands, log,
                    next_outgoing_seqnum, m_window_size, acks, receiver >>

(* rawSendAsPacket: a control packet takes the next number and is sent at  *)
(* once if the window allows, ahead of all that wait in queued_reliables.  *)
RawSendAsPacket(control) ==
    /\ Number(<<control>>)
    /\ acks' = Alive(acks, Len(log) + 1)
    /\ LET p == Numbered(<<control>>)[1]
       IN  IF Cardinality(outgoing_reliables_sent) < m_window_size
           THEN /\ outgoing_reliables_sent' =
                       BufferedSent(p, U16(next_outgoing_seqnum + 1))
                /\ wire' \in Put(Alive(wire, Len(log) + 1), p, MaxInFlight)
                /\ UNCHANGED queued_reliables
           ELSE /\ queued_reliables' = Append(queued_reliables, p)
                /\ wire' = Alive(wire, Len(log) + 1)
                /\ UNCHANGED outgoing_reliables_sent
    /\ UNCHANGED << life, half_open, submitted, queued_commands, m_window_size,
                    receiver >>

(* CONCMD_CREATE_PEER: a server tells its new peer its id.  createPeer     *)
(* queues this command before anyone else knows of the peer, so it is the  *)
(* first the send thread runs for it: the window is open.                  *)
CreatePeer ==
    /\ life # "deleted"
    /\ half_open
    /\ log = <<>>
    /\ RawSendAsPacket(SET_PEER_ID)

\* runTimeouts pings a peer that is fully open.
Ping ==
    /\ life # "deleted"
    /\ ~ half_open
    /\ Cardinality({i \in DOMAIN log : log[i] = PING}) < MaxPings
    /\ RawSendAsPacket(PING)

(* runTimeouts resends what has waited too long, unless the peer is half   *)
(* open; how long is up to the clock, so any waiting packet may be resent. *)
Resend(p) ==
    /\ life # "deleted"
    /\ ~ half_open
    /\ p \in outgoing_reliables_sent
    /\ Transmit(p)
    /\ UNCHANGED << sender, acks, receiver >>

(* CONNCMD_RESEND_ONE: the answer to a half-open peer that knocks again.   *)
ResendOne ==
    /\ life # "deleted"
    /\ half_open
    /\ \E p \in outgoing_reliables_sent : IsFront(p) /\ Transmit(p)
    /\ UNCHANGED << sender, acks, receiver >>

\* Mutant: the size is not limited.
Bug_WindowSize(size) == size

WindowSize(size) ==
    IF size < MIN_RELIABLE_WINDOW_SIZE THEN MIN_RELIABLE_WINDOW_SIZE
    ELSE IF size > MAX_RELIABLE_WINDOW_SIZE_SEND
         THEN MAX_RELIABLE_WINDOW_SIZE_SEND ELSE size

\* UpdateTimers: the window follows the loss rate, within its limits.
UpdateTimers(d) ==
    /\ life # "deleted"
    /\ ~ half_open
    /\ m_window_size' = WindowSize(m_window_size + d)
    /\ UNCHANGED << life, half_open, submitted, queued_commands, log,
                    next_outgoing_seqnum, queued_reliables,
                    outgoing_reliables_sent, wire, acks, receiver >>

\* Mutant: an ACK takes the front packet, whatever its number.
Bug_PopSeqnum(seqnum) ==
    {p \in outgoing_reliables_sent : ~ IsFront(p)}

\* What is left of the outgoing list; a number that is not there throws.
PopSeqnum(seqnum) == {p \in outgoing_reliables_sent : p.seq # seqnum}

\* handlePacketType_Control, CONTROLTYPE_ACK, on time or too late.
ReceiveAck(a, keep) ==
    /\ life # "deleted"
    /\ a \in acks
    /\ acks' = IF keep THEN acks ELSE acks \ {a}
    /\ outgoing_reliables_sent' = PopSeqnum(a.seq)
    /\ UNCHANGED << life, half_open, submitted, queued_commands, log,
                    next_outgoing_seqnum, queued_reliables, m_window_size,
                    wire, receiver >>

(* The first packet that bears its peer id makes a peer fully open; it     *)
(* knows the id from the SET_PEER_ID it has processed.                     *)
SetFullyOpen ==
    /\ life # "deleted"
    /\ half_open
    /\ delivered # <<>>
    /\ half_open' = FALSE
    /\ UNCHANGED << life, submitted, queued_commands, log, next_outgoing_seqnum,
                    queued_reliables, outgoing_reliables_sent, m_window_size,
                    wire, acks, receiver >>

DisconnectPeer ==
    /\ life = "live"
    /\ life' = "pending"
    /\ UNCHANGED << half_open, submitted, queued_commands, log,
                    next_outgoing_seqnum, queued_reliables,
                    outgoing_reliables_sent, m_window_size, wire, acks, receiver >>

(* deletePeer, after a time-out, a DISCO or a pending disconnect: the peer *)
(* and its channels are freed.                                             *)
DeletePeer ==
    /\ life # "deleted"
    /\ life' = "deleted"
    /\ queued_commands' = <<>>
    /\ queued_reliables' = <<>>
    /\ outgoing_reliables_sent' = {}
    /\ UNCHANGED << half_open, submitted, log, next_outgoing_seqnum,
                    m_window_size, wire, acks, receiver >>

-----------------------------------------------------------------------------
(* Receiver *)

CanUnbuffer == \E p \in incoming_reliables : p.seq = next_incoming_seqnum

BufferedIncoming(p) ==
    IF /\ Insertable(p.seq, next_incoming_seqnum)
       /\ \A q \in incoming_reliables : q.seq # p.seq
    THEN incoming_reliables \cup {p}
    ELSE incoming_reliables

Process(p) ==
    /\ incoming_reliables' =
           {q \in incoming_reliables : q.seq # next_incoming_seqnum}
    /\ next_incoming_seqnum' = U16(next_incoming_seqnum + 1)
    /\ delivered' = Append(delivered, p.n)

(* handlePacketType_Reliable.  The receive thread takes packets out of its *)
(* buffers as long as it can before it reads the socket again.             *)
ReceiveReliable(p, keep) ==
    LET inWindow == seqnum_in_window(p.seq, next_incoming_seqnum,
                                     MAX_RELIABLE_WINDOW_SIZE)
    IN  /\ p \in wire
        /\ ~ CanUnbuffer
        /\ wire' = IF keep THEN wire ELSE wire \ {p}
        /\ acks' \in IF inWindow \/ IsOld(p.seq, next_incoming_seqnum)
                     THEN Put(acks, p, MaxAcksInFlight) ELSE {acks}
        /\ \/ /\ inWindow
              /\ p.seq = next_incoming_seqnum
              /\ Process(p)
           \/ /\ inWindow
              /\ p.seq # next_incoming_seqnum
              /\ incoming_reliables' = BufferedIncoming(p)
              /\ UNCHANGED << next_incoming_seqnum, delivered >>
           \/ /\ ~ inWindow
              /\ UNCHANGED receiver
        /\ UNCHANGED sender

\* Mutant: the front of the buffer is taken without a look at its number.
Bug_Unbuffer ==
    \E p \in incoming_reliables :
        /\ Process(p)
        /\ UNCHANGED << sender, wire, acks >>

\* checkIncomingBuffers: the next packet is in the buffer.
Unbuffer ==
    \E p \in incoming_reliables :
        /\ p.seq = next_incoming_seqnum
        /\ Process(p)
        /\ UNCHANGED << sender, wire, acks >>

-----------------------------------------------------------------------------
Lose ==
    \/ \E p \in wire : wire' = wire \ {p} /\ UNCHANGED << sender, acks, receiver >>
    \/ \E a \in acks : acks' = acks \ {a} /\ UNCHANGED << sender, wire, receiver >>

Next ==
    \/ \E k \in ChunkCounts : PutReliableSendCommand(k)
    \/ RunCommandQueues
    \/ SendQueued
    \/ CreatePeer
    \/ Ping
    \/ \E p \in outgoing_reliables_sent : Resend(p)
    \/ ResendOne
    \/ \E d \in WindowSteps : UpdateTimers(d)
    \/ \E a \in acks, keep \in BOOLEAN : ReceiveAck(a, keep)
    \/ SetFullyOpen
    \/ DisconnectPeer
    \/ DeletePeer
    \/ \E p \in wire, keep \in BOOLEAN : ReceiveReliable(p, keep)
    \/ Unbuffer
    \/ Lose

Spec == Init /\ [][Next]_vars

-----------------------------------------------------------------------------
(* Properties *)

(* internal.h:86, "delivered in the same order as sent": the receiver      *)
(* processes packet 1, 2, 3, ... of the log, each exactly once, whatever   *)
(* the network does and wherever the 16-bit numbers wrap.                  *)
InOrder == \A i \in 1 .. Len(delivered) : delivered[i] = i

(* internal.h:86, "delivery shall be forced": a packet that has a number   *)
(* and is not processed yet is still held by someone who will act on it;   *)
(* no ACK, resend, duplicate or window test makes both ends forget it.     *)
NoLoss ==
    life # "deleted" => \A n \in 1 .. Len(log) :
        \/ n <= Len(delivered)
        \/ n \in Ns(incoming_reliables)
        \/ n \in Ns(Queued) \cup Ns(outgoing_reliables_sent)

(* threads.cpp:1309-1335: the ACK goes out before the packet is buffered,  *)
(* and again for "old" packets; an ACK under way is always for a packet    *)
(* the receiver really has.                                                *)
AckedIsHeld ==
    \A a \in acks : a.n <= Len(delivered) \/ a.n \in Ns(incoming_reliables)

(* How far the numbering may run ahead of the receiver for 16-bit numbers  *)
(* to be unambiguous: less than half the ring.                             *)
SpreadOK == Len(log) - Len(delivered) < MAX_RELIABLE_WINDOW_SIZE

\* The chunks of the commands accepted, and their order.
IsChunk(x) == x.cmd \in 1 .. Len(submitted) /\ x.chunk \in 1 .. submitted[x.cmd]
Before(x, y) == x.cmd < y.cmd \/ (x.cmd = y.cmd /\ x.chunk < y.chunk)
InLog(x) == \E n \in 1 .. Len(log) : log[n] = x

\* How many commands have been given their numbers, while the peer lives.
NumberedCommands == Len(submitted) - Len(queued_commands)

(* What is numbered of the user's commands, while the control packets come *)
(* in between: chunks of commands accepted, in their order, none twice and *)
(* none left out before another.                                           *)
LogOrder ==
    /\ \A n \in 1 .. Len(log) : log[n].cmd # 0 => IsChunk(log[n])
    /\ \A m, n \in 1 .. Len(log) :
          m < n /\ log[m].cmd # 0 /\ log[n].cmd # 0 => Before(log[m], log[n])
    /\ \A n \in 1 .. Len(log) : \A c \in 1 .. Len(submitted) : \A k \in 1 .. submitted[c] :
          log[n].cmd # 0 /\ Before([cmd |-> c, chunk |-> k], log[n])
              => InLog([cmd |-> c, chunk |-> k])

(* impl.cpp:1020-1180: a command that is retried because the window is     *)
(* full is neither overtaken by a later command nor numbered twice or in   *)
(* part: numbered chunks, then queued commands, are the commands accepted. *)
CommandOrder ==
    /\ LogOrder
    /\ life = "live" =>
          /\ Len(queued_commands) <= Len(submitted)
          /\ \A i \in 1 .. Len(queued_commands) :
                queued_commands[i] = [id |-> NumberedCommands + i,
                                      size |-> submitted[NumberedCommands + i]]
          /\ \A c \in 1 .. Len(submitted) : \A k \in 1 .. submitted[c] :
                InLog([cmd |-> c, chunk |-> k]) <=> c <= NumberedCommands

-----------------------------------------------------------------------------
(* The channel as its user sees it: what was accepted, and the last chunk  *)
(* of it that the other end has processed.                                 *)
UsersDelivered == {i \in 1 .. Len(delivered) : log[delivered[i]].cmd # 0}

LastReceived ==
    IF UsersDelivered = {} THEN [cmd |-> 0, chunk |-> 0]
    ELSE log[delivered[CHOOSE i \in UsersDelivered : \A j \in UsersDelivered : j <= i]]

Fifo == INSTANCE FifoChannel
        WITH accepted <- submitted, received <- LastReceived, closed <- (life # "live")

(* internal.h:86, "delivered in the same order as sent": every step of the *)
(* two ends and of the network between them is a step of a first-in        *)
(* first-out channel or none at all.                                       *)
ImplementsFifo == Fifo!FSpec

-----------------------------------------------------------------------------
(* Why InOrder, NoLoss and AckedIsHeld hold: as long as SpreadOK does, the *)
(* distance of a packet's number from the counter, which is all the code   *)
(* can see, tells its place in the log.                                    *)
Placed(p) ==
    /\ p.n \in 1 .. Len(log)
    /\ Len(log) + 1 - p.n < MAX_RELIABLE_WINDOW_SIZE
    /\ Dist(p.seq, next_outgoing_seqnum) = Len(log) + 1 - p.n

Underway == wire \cup acks \cup outgoing_reliables_sent \cup incoming_reliables

QueueOrder ==
    /\ \A i \in 1 .. Len(queued_reliables) :
          /\ Placed(queued_reliables[i])
          /\ queued_reliables[i].n > Len(delivered)
          /\ \A p \in Underway : p.n # queued_reliables[i].n
    /\ \A i, j \in 1 .. Len(queued_reliables) :
          i < j => queued_reliables[i].n < queued_reliables[j].n

ReceiverPlace ==
    /\ Len(delivered) <= Len(log)
    /\ Dist(next_incoming_seqnum, next_outgoing_seqnum)
          = Len(log) - Len(delivered)
    /\ \A p \in incoming_reliables : p.n > Len(delivered)

(* The inductive invariant. *)
IInv ==
    /\ TypeOK
    /\ \A p \in Underway : Placed(p)
    /\ QueueOrder
    /\ ReceiverPlace
    /\ InOrder
    /\ NoLoss
    /\ AckedIsHeld
=============================================================================
