---------------------------- MODULE SplitPackets ----------------------------
(***************************************************************************)
(* Messages that do not fit one packet (src/src/network/mtp/impl.cpp): the *)
(* sender cuts them in chunks under a split number, the IncomingSplitBuffer *)
(* of the receiver puts them together again.  Reliable and unreliable      *)
(* messages of a channel draw from one 16 bit counter and meet in one      *)
(* buffer.  Reliable chunks come through the reliable channel, in order    *)
(* and once (FifoChannel); unreliable ones are lost, doubled and           *)
(* overtaken.                                                              *)
(*                                                                         *)
(* A chunk is the number of its message in sent.                           *)
(***************************************************************************)
EXTENDS Naturals, Sequences, FiniteSets, Functions

CONSTANTS
    SplitNumbers,   \* how many split numbers there are: 65536
    ChunkCounts,    \* how many chunks a message may have; 1 is not split
    MaxMessages,    \* bound: messages sent
    MaxTries        \* bound: reliable messages that find no sequence number

ASSUME SplitPacketsAssumption ==
    /\ SplitNumbers \in Nat \ {0} /\ ChunkCounts \subseteq Nat \ {0}
    /\ MaxMessages \in Nat /\ MaxTries \in Nat

VARIABLES
    next_outgoing_split_seqnum,
    sent,           \* every message sent: [reliable, chunk_count]
    stream,         \* reliable chunks on their way
    datagrams,      \* unreliable chunks on their way
    m_buf,          \* of the IncomingSplitBuffer: split number -> unfinished message
    delivered,      \* messages handed on, as what they were put together from
    tries           \* bound

splitvars == << next_outgoing_split_seqnum, sent, stream, datagrams, m_buf,
                delivered, tries >>

InitSplitPackets ==
    /\ next_outgoing_split_seqnum \in 0 .. SplitNumbers - 1
    /\ sent = << >> /\ stream = << >> /\ datagrams = {}
    /\ m_buf = [n \in {} |-> 0]
    /\ delivered = [reliable |-> << >>, unreliable |-> {}]
    /\ tries = 0

-----------------------------------------------------------------------------
(* The sender *)

\* makeSplitPacket
Chunks(count) ==
    [num \in 1 .. count |->
        [seqnum |-> next_outgoing_split_seqnum, chunk_count |-> count,
         chunk_num |-> num, message |-> Len(sent) + 1]]

\* makeAutoSplitPacket spends a split number on a message that is split.
NumberSpent(count) ==
    next_outgoing_split_seqnum' =
        IF count = 1 THEN next_outgoing_split_seqnum
        ELSE (next_outgoing_split_seqnum + 1) % SplitNumbers

\* A packet that is not split carries no split number.
HasNumber(chunk, n) == chunk.chunk_count > 1 /\ chunk.seqnum = n

\* What the width of the counter is for: the sender does not come back to a
\* number within the 30 seconds after which the receiver forgets an unreliable
\* message that had it, nor with an unreliable message while a reliable one that
\* had it is unfinished.
NotAround(reliable) ==
    LET n == next_outgoing_split_seqnum
    IN  /\ \A chunk \in datagrams : ~ HasNumber(chunk, n)
        /\ n \in DOMAIN m_buf => reliable /\ m_buf[n].reliable
        /\ reliable \/ \A i \in DOMAIN stream : ~ HasNumber(stream[i], n)

Accept(count, reliable) ==
    /\ Len(sent) < MaxMessages
    /\ count > 1 => NotAround(reliable)
    /\ sent' = Append(sent, [reliable |-> reliable, chunk_count |-> count])
    /\ NumberSpent(count)

(* processReliableSendCommand, with sequence numbers for every chunk *)
SendReliable(count) ==
    /\ Accept(count, TRUE)
    /\ stream' = stream \o Chunks(count)
    /\ UNCHANGED << datagrams, m_buf, delivered, tries >>

(* the same without: the command waits, its split number is gone *)
FailToSend(count) ==
    /\ tries < MaxTries /\ tries' = tries + 1
    /\ NumberSpent(count)
    /\ UNCHANGED << sent, stream, datagrams, m_buf, delivered >>

(* ConnectionSendThread::send *)
SendUnreliable(count) ==
    /\ Accept(count, FALSE)
    /\ datagrams' = datagrams \cup Range(Chunks(count))
    /\ UNCHANGED << stream, m_buf, delivered, tries >>

-----------------------------------------------------------------------------
(* The receiver *)

Deliver(reliable, chunks) ==
    delivered' = IF reliable
        THEN [delivered EXCEPT !.reliable = Append(@, chunks)]
        ELSE [delivered EXCEPT !.unreliable = @ \cup {chunks}]

\* The entry a chunk belongs to, made for it if there is none.
EntryOf(chunk, reliable) ==
    IF chunk.seqnum \in DOMAIN m_buf THEN m_buf[chunk.seqnum]
    ELSE [reliable |-> reliable, chunk_count |-> chunk.chunk_count,
          chunks |-> [num \in {} |-> 0]]

With(f, x, y) == [z \in DOMAIN f \cup {x} |-> IF z = x THEN y ELSE f[z]]
Without(f, x) == Restrict(f, DOMAIN f \ {x})

\* Mutant: a message is complete when its last chunk is there.
Bug_AllReceived(chunks, chunk_count) == chunk_count \in DOMAIN chunks

AllReceived(chunks, chunk_count) == Cardinality(DOMAIN chunks) = chunk_count

(* IncomingSplitBuffer::insert *)
Insert(chunk, reliable) ==
    LET n == chunk.seqnum
        entry == EntryOf(chunk, reliable)
        chunks == With(entry.chunks, chunk.chunk_num, chunk.message)
    IN  IF \/ chunk.chunk_count # entry.chunk_count
           \/ chunk.chunk_num \in DOMAIN entry.chunks
        THEN UNCHANGED << m_buf, delivered >>
        ELSE IF AllReceived(chunks, entry.chunk_count)
        THEN /\ m_buf' = Without(m_buf, n)
             /\ Deliver(reliable, chunks)
        ELSE /\ m_buf' = With(m_buf, n, [entry EXCEPT !.chunks = chunks])
             /\ UNCHANGED delivered

(* handlePacketType_Original and handlePacketType_Split *)
Handle(chunk, reliable) ==
    IF chunk.chunk_count = 1
    THEN Deliver(reliable, [num \in {1} |-> chunk.message]) /\ UNCHANGED m_buf
    ELSE Insert(chunk, reliable)

ReceiveReliable ==
    /\ stream # << >>
    /\ stream' = Tail(stream)
    /\ Handle(Head(stream), TRUE)
    /\ UNCHANGED << next_outgoing_split_seqnum, sent, datagrams, tries >>

\* A datagram may come again; copies are not counted.
ReceiveUnreliable(chunk, again) ==
    /\ datagrams' = IF again THEN datagrams ELSE datagrams \ {chunk}
    /\ Handle(chunk, FALSE)
    /\ UNCHANGED << next_outgoing_split_seqnum, sent, stream, tries >>

Lose(chunk) ==
    /\ datagrams' = datagrams \ {chunk}
    /\ UNCHANGED << next_outgoing_split_seqnum, sent, stream, m_buf, delivered, tries >>

TimesOut(n) == n \in DOMAIN m_buf /\ ~ m_buf[n].reliable

(* removeUnreliableTimedOuts; how long a message has waited is left out *)
RemoveUnreliableTimedOut(n) ==
    /\ TimesOut(n)
    /\ m_buf' = Without(m_buf, n)
    /\ UNCHANGED << next_outgoing_split_seqnum, sent, stream, datagrams, delivered, tries >>

NextSplitPackets ==
    \/ \E count \in ChunkCounts : SendReliable(count) \/ SendUnreliable(count)
    \/ \E count \in ChunkCounts \ {1} : FailToSend(count)
    \/ ReceiveReliable
    \/ \E chunk \in datagrams :
          Lose(chunk) \/ \E again \in BOOLEAN : ReceiveUnreliable(chunk, again)
    \/ \E n \in DOMAIN m_buf : RemoveUnreliableTimedOut(n)

SpecSplitPackets == InitSplitPackets /\ [][NextSplitPackets]_splitvars

-----------------------------------------------------------------------------
\* What message m is when it is put together from its own chunks, in order.
Whole(m) == [num \in 1 .. sent[m].chunk_count |-> m]

\* The message that was handed on as the i-th reliable one, by its first chunk.
Message(i) == delivered.reliable[i][1]
IsDelivered(m) == \E i \in DOMAIN delivered.reliable : Message(i) = m

\* internal.h:286 "a full split packet is constructed": nobody is handed a message
\* made of another's chunks; reliable messages, split or not, are handed on in the
\* order they were sent, none left out, and all of them once their chunks have come.
Reassembled ==
    /\ \A chunks \in delivered.unreliable :
          \E m \in DOMAIN sent : ~ sent[m].reliable /\ chunks = Whole(m)
    /\ \A i \in DOMAIN delivered.reliable :
          \E m \in DOMAIN sent : sent[m].reliable /\ delivered.reliable[i] = Whole(m)
    /\ \A i, j \in DOMAIN delivered.reliable : i < j => Message(i) < Message(j)
    /\ \A m \in DOMAIN sent : sent[m].reliable =>
          \/ IsDelivered(m)
          \/ stream # << >> /\ \A i \in DOMAIN delivered.reliable : Message(i) < m
=============================================================================
