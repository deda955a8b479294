------------------------ MODULE ReliableChannelProofs ------------------------
(***************************************************************************)
(* What is proved of SeqNum and ReliableChannel for every ring size,       *)
(* window, number of commands and network capacity.                        *)
(***************************************************************************)
EXTENDS ReliableChannel, FiniteSetTheorems, SequenceTheorems,
        WellFoundedInduction, TLAPS

-----------------------------------------------------------------------------
(* Facts about the sequence numbers *)

RW == MAX_RELIABLE_WINDOW_SIZE

(* The size of the ring: every value of a u16 is a sequence number.        *)
LEMMA RingSize == RW \in Nat /\ RW >= 2 /\ SEQNUM_MAX \in Nat /\ SEQNUM_MAX = 2 * RW - 1
BY WindowAssumption DEF SEQNUM_MAX, RW

(* internal.h:129: the window test is the circular distance test, with the *)
(* wrapped and the unwrapped window told apart correctly at the edges.     *)
LEMMA InWindowIsDistance ==
    ASSUME NEW s \in SeqNums, NEW next \in SeqNums, NEW w \in 1 .. RW
    PROVE  seqnum_in_window(s, next, w) <=> Dist(next, s) < w
BY WindowAssumption DEF seqnum_in_window, Dist, U16, SeqNums, SEQNUM_MAX, RW

(* The odd calculation of threads.cpp:320 ("wtf is this calculation??"):   *)
(* for every value of the counter it is the counter less half the ring.    *)
LEMMA WindowBaseIsHalfRingBack ==
    ASSUME NEW next \in SeqNums
    PROVE  /\ WindowBase(next) = U16(next - RW)
           /\ WindowBase(next) \in SeqNums
<1>1. next - RW \in Int /\ -RW <= next - RW /\ next - RW <= RW
  BY WindowAssumption DEF SeqNums, SEQNUM_MAX, RW
<1>2. \A a \in Nat : a < RW + 1 => a % (RW + 1) = a
  BY WindowAssumption DEF RW
<1>3. CRem(next - RW, RW + 1) = next - RW
  BY <1>1, <1>2, WindowAssumption DEF CRem, RW
<1>4. U16(next - RW) \in SeqNums
  BY <1>1, WindowAssumption DEF U16, SeqNums, SEQNUM_MAX, RW
<1>5. QED
  BY <1>3, <1>4 DEF WindowBase, RW

(* impl.cpp:254-263 under the base of threads.cpp:320: the outgoing buffer *)
(* takes exactly the packets less than half a ring behind the counter.     *)
LEMMA InsertableInSent ==
    ASSUME NEW s \in SeqNums, NEW next \in SeqNums
    PROVE  Insertable(s, WindowBase(next)) <=> Dist(s, next) \in 1 .. RW - 1
<1>1. WindowBase(next) = U16(next - RW) /\ WindowBase(next) \in SeqNums
  BY WindowBaseIsHalfRingBack
<1>2. seqnum_in_window(s, WindowBase(next), RW)
        <=> Dist(U16(next - RW), s) < RW
  BY <1>1, InWindowIsDistance, WindowAssumption DEF RW
<1>3. QED
  BY <1>1, <1>2, WindowAssumption
     DEF Insertable, Dist, U16, SeqNums, SEQNUM_MAX, RW

(* threads.cpp:1309-1335: a sequence number outside the receive window is  *)
(* always judged "future" or "old", so none falls through to be processed; *)
(* "future" is left for the single distance of exactly half the ring.      *)
LEMMA OutsideWindowIsFutureOrOld ==
    ASSUME NEW s \in SeqNums, NEW next \in SeqNums,
           ~ seqnum_in_window(s, next, RW)
    PROVE  /\ IsFuture(s, next) \/ IsOld(s, next)
           /\ IsFuture(s, next) <=> Dist(s, next) = RW /\ s < next
<1>1. Dist(next, s) >= RW
  BY InWindowIsDistance, WindowAssumption DEF RW, Dist, SeqNums, SEQNUM_MAX
<1>2. QED
  BY <1>1, WindowAssumption
     DEF IsFuture, IsOld, seqnum_higher, HalfMax, Dist, SeqNums, SEQNUM_MAX, RW

(* threads.cpp:1316,1325: everything less than half a ring behind the      *)
(* expected number is old, and is acknowledged again, never processed.     *)
LEMMA BehindIsOld ==
    ASSUME NEW s \in SeqNums, NEW next \in SeqNums, Dist(s, next) \in 1 .. RW - 1
    PROVE  IsOld(s, next) /\ ~ seqnum_in_window(s, next, RW)
<1>1. ~ seqnum_in_window(s, next, RW)
  BY InWindowIsDistance, WindowAssumption DEF RW, Dist, SeqNums, SEQNUM_MAX
<1>2. QED
  BY <1>1, WindowAssumption
     DEF IsOld, seqnum_higher, HalfMax, Dist, SeqNums, SEQNUM_MAX, RW

(* A number stays on the ring, however far (but less than a lap) it moves. *)
LEMMA U16OnRing ==
    ASSUME NEW s \in SeqNums, NEW k \in 0 .. SEQNUM_MAX
    PROVE  U16(s + k) \in SeqNums
BY WindowAssumption DEF U16, SeqNums, SEQNUM_MAX

(* A distance is less than a lap, and zero only between equal numbers.     *)
LEMMA DistOnRing ==
    ASSUME NEW a \in SeqNums, NEW b \in SeqNums
    PROVE  /\ Dist(a, b) \in Nat
           /\ Dist(a, b) <= SEQNUM_MAX
           /\ Dist(a, b) = 0 <=> a = b
BY WindowAssumption DEF Dist, SeqNums, SEQNUM_MAX

(* The counter going on by k adds k to every distance behind it, as long   *)
(* as that stays under a lap.                                              *)
LEMMA DistGrows ==
    ASSUME NEW a \in SeqNums, NEW c \in SeqNums, NEW k \in Nat,
           Dist(a, c) + k <= SEQNUM_MAX
    PROVE  Dist(a, U16(c + k)) = Dist(a, c) + k
BY WindowAssumption DEF Dist, U16, SeqNums, SEQNUM_MAX

(* Two numbers behind the same counter: the one further behind is behind   *)
(* the other by the difference.                                            *)
LEMMA DistDifference ==
    ASSUME NEW a \in SeqNums, NEW b \in SeqNums, NEW c \in SeqNums,
           Dist(a, c) >= Dist(b, c)
    PROVE  Dist(a, b) = Dist(a, c) - Dist(b, c)
BY WindowAssumption DEF Dist, SeqNums, SEQNUM_MAX

(* Likewise for two numbers ahead of the same one.                         *)
LEMMA DistRemaining ==
    ASSUME NEW a \in SeqNums, NEW b \in SeqNums, NEW c \in SeqNums,
           Dist(a, b) <= Dist(a, c)
    PROVE  Dist(b, c) = Dist(a, c) - Dist(a, b)
BY WindowAssumption DEF Dist, SeqNums, SEQNUM_MAX

(* Behind the same counter, equal distance means the same number.          *)
LEMMA DistInjective ==
    ASSUME NEW a \in SeqNums, NEW b \in SeqNums, NEW c \in SeqNums,
           Dist(a, c) = Dist(b, c)
    PROVE  a = b
BY WindowAssumption DEF Dist, SeqNums, SEQNUM_MAX

(* The receiver's counter going on by one comes one nearer to the sender's.*)
LEMMA DistShrinks ==
    ASSUME NEW a \in SeqNums, NEW c \in SeqNums, Dist(a, c) >= 1
    PROVE  Dist(U16(a + 1), c) = Dist(a, c) - 1
BY WindowAssumption DEF Dist, U16, SeqNums, SEQNUM_MAX

-----------------------------------------------------------------------------
(* Lemmas on the helpers *)

(* Putting a packet on the network adds no other.                          *)
LEMMA PutAddsAtMost ==
    ASSUME NEW net, NEW p, NEW capacity, NEW result \in Put(net, p, capacity)
    PROVE  result \subseteq net \cup {p}
BY DEF Put

(* Numbering drops packets from the network that are half a ring behind.   *)
LEMMA AliveKeeps ==
    ASSUME NEW net, NEW len
    PROVE  /\ Alive(net, len) \subseteq net
           /\ \A p \in Alive(net, len) : len + 1 - p.n < MAX_RELIABLE_WINDOW_SIZE
BY DEF Alive

(* A command becomes as many payloads as it has chunks.                    *)
LEMMA ChunksType ==
    ASSUME NEW c \in Command
    PROVE  /\ Chunks(c) \in Seq(Payload)
           /\ Len(Chunks(c)) = c.size
           /\ c.size \in 1 .. RW - 1
<1>1. c.id \in Nat /\ c.size \in ChunkCounts /\ c.size \in 1 .. RW - 1
  BY ChannelAssumption DEF Command, RW
<1>2. c.size \in Nat
  BY <1>1, WindowAssumption DEF RW
<1>3. \A i \in 1 .. c.size : [cmd |-> c.id, chunk |-> i] \in Payload
  BY <1>1 DEF Payload
<1>4. QED
  BY <1>1, <1>2, <1>3 DEF Chunks

(* PING and SET_PEER_ID are payloads, sent one at a time.                  *)
LEMMA ControlType ==
    /\ PING \in Payload /\ SET_PEER_ID \in Payload
    /\ \A control \in Payload :
          <<control>> \in Seq(Payload) /\ Len(<<control>>) = 1
BY DEF PING, SET_PEER_ID, Payload

(* The numbers of k payloads: consecutive places in the log, sequence      *)
(* numbers that go on from the counter around the ring.                    *)
LEMMA NumberedType ==
    ASSUME TypeOK, NEW payloads \in Seq(Payload), Len(payloads) \in 1 .. RW - 1
    PROVE  /\ Numbered(payloads) \in Seq(Packet)
           /\ Len(Numbered(payloads)) = Len(payloads)
           /\ \A i \in 1 .. Len(payloads) :
                 /\ Numbered(payloads)[i] \in Packet
                 /\ Numbered(payloads)[i].n = Len(log) + i
                 /\ Numbered(payloads)[i].seq = U16(next_outgoing_seqnum + (i - 1))
<1> DEFINE k == Len(payloads)
           e(i) == [n |-> Len(log) + i, seq |-> U16(next_outgoing_seqnum + i - 1)]
<1>1. k \in Nat /\ Len(log) \in Nat /\ next_outgoing_seqnum \in SeqNums
  BY WindowAssumption DEF TypeOK, RW
<1>2. \A i \in 1 .. k : next_outgoing_seqnum + i - 1 = next_outgoing_seqnum + (i - 1)
  BY <1>1 DEF SeqNums
<1>3. \A i \in 1 .. k : U16(next_outgoing_seqnum + i - 1) \in SeqNums
  <2> TAKE i \in 1 .. k
  <2>1. i - 1 \in 0 .. SEQNUM_MAX
    BY <1>1, WindowAssumption DEF SEQNUM_MAX, RW
  <2>2. U16(next_outgoing_seqnum + (i - 1)) \in SeqNums
    BY <1>1, <2>1, U16OnRing
  <2> QED BY <1>2, <2>2
<1>4. \A i \in 1 .. k : e(i) \in Packet
  BY <1>1, <1>3 DEF Packet
<1>5. Numbered(payloads) = [i \in 1 .. k |-> e(i)]
  BY DEF Numbered
<1>6. Numbered(payloads) \in Seq(Packet) /\ Len(Numbered(payloads)) = k
  BY <1>1, <1>4, <1>5
<1>7. QED
  BY <1>2, <1>4, <1>5, <1>6

(* Numbering extends the log and moves the counter along the ring.         *)
LEMMA NumberType ==
    ASSUME TypeOK, NEW payloads \in Seq(Payload), Len(payloads) \in 1 .. RW - 1,
           Number(payloads)
    PROVE  /\ log' \in Seq(Payload)
           /\ Len(log') = Len(log) + Len(payloads)
           /\ next_outgoing_seqnum' \in SeqNums
<1>1. Len(payloads) \in 0 .. SEQNUM_MAX
  BY WindowAssumption DEF SEQNUM_MAX, RW
<1>2. next_outgoing_seqnum' \in SeqNums
  BY <1>1, U16OnRing DEF Number, TypeOK
<1>3. QED
  BY <1>2 DEF Number, TypeOK

-----------------------------------------------------------------------------
(* Types *)

(* The outgoing list takes at most the packet it is given.                 *)
LEMMA BufferedSentType ==
    ASSUME TypeOK, NEW p \in Packet, NEW next
    PROVE  /\ BufferedSent(p, next) \in SUBSET Packet
           /\ BufferedSent(p, next) \subseteq outgoing_reliables_sent \cup {p}
BY DEF BufferedSent, TypeOK

(* Numbering a command keeps the types.                                    *)
LEMMA ProcessCommandType ==
    ASSUME TypeOK, NEW c \in Command, ProcessReliableSendCommand(c)
    PROVE  /\ log' \in Seq(Payload)
           /\ next_outgoing_seqnum' \in SeqNums
           /\ queued_reliables' \in Seq(Packet)
           /\ wire' \in SUBSET Packet
           /\ acks' \in SUBSET Packet
<1>1. Chunks(c) \in Seq(Payload) /\ Len(Chunks(c)) \in 1 .. RW - 1
  BY ChunksType
<1>2. Number(Chunks(c))
  BY DEF ProcessReliableSendCommand
<1>3. log' \in Seq(Payload) /\ next_outgoing_seqnum' \in SeqNums
  BY <1>1, <1>2, NumberType
<1>4. queued_reliables' \in Seq(Packet)
  BY <1>1, NumberedType DEF ProcessReliableSendCommand, TypeOK
<1>5. wire' \in SUBSET Packet /\ acks' \in SUBSET Packet
  BY AliveKeeps DEF ProcessReliableSendCommand, TypeOK
<1>6. QED
  BY <1>3, <1>4, <1>5

(* Processing a packet keeps the types of the receiver.                    *)
LEMMA ProcessType ==
    ASSUME TypeOK, NEW p \in Packet, Process(p)
    PROVE  /\ next_incoming_seqnum' \in SeqNums
           /\ incoming_reliables' \in SUBSET Packet
           /\ delivered' \in Seq(Nat)
<1>1. next_incoming_seqnum' \in SeqNums
  <2>1. 1 \in 0 .. SEQNUM_MAX
    BY WindowAssumption DEF SEQNUM_MAX
  <2> QED BY <2>1, U16OnRing DEF Process, TypeOK
<1>2. QED
  BY <1>1 DEF Process, TypeOK, Packet

(* Every step of the channel keeps the types.                              *)
LEMMA TypeStep == ASSUME TypeOK, [Next]_vars PROVE TypeOK'
<1> USE DEF TypeOK
<1>1. ASSUME NEW k \in ChunkCounts, PutReliableSendCommand(k) PROVE TypeOK'
  <2> DEFINE c == [id |-> Len(submitted) + 1, size |-> k]
  <2>1. c \in Command
    BY DEF Command
  <2>2. submitted' \in Seq(ChunkCounts)
    BY <1>1 DEF PutReliableSendCommand
  <2>3. CASE AtOnce(k) /\ ProcessReliableSendCommand(c) /\ UNCHANGED queued_commands
    BY <1>1, <2>1, <2>2, <2>3, ProcessCommandType DEF PutReliableSendCommand, receiver
  <2>4. CASE /\ queued_commands' = Append(queued_commands, c)
             /\ UNCHANGED << log, next_outgoing_seqnum, queued_reliables, wire, acks >>
    BY <1>1, <2>1, <2>2, <2>4 DEF PutReliableSendCommand, receiver
  <2>5. QED
    BY <1>1, <2>3, <2>4 DEF PutReliableSendCommand
<1>2. ASSUME RunCommandQueues PROVE TypeOK'
  <2>1. Head(queued_commands) \in Command /\ queued_commands' \in Seq(Command)
    BY <1>2 DEF RunCommandQueues
  <2>2. CASE life = "live" /\ ProcessReliableSendCommand(Head(queued_commands))
    BY <1>2, <2>1, <2>2, ProcessCommandType DEF RunCommandQueues, receiver
  <2>3. CASE UNCHANGED << log, next_outgoing_seqnum, queued_reliables, wire, acks >>
    BY <1>2, <2>1, <2>3 DEF RunCommandQueues, receiver
  <2>4. QED
    BY <1>2, <2>2, <2>3 DEF RunCommandQueues
<1>3. ASSUME SendQueued PROVE TypeOK'
  <2>1. Head(queued_reliables) \in Packet /\ queued_reliables' \in Seq(Packet)
    BY <1>3 DEF SendQueued
  <2>2. outgoing_reliables_sent' \in SUBSET Packet
    BY <1>3, <2>1, BufferedSentType DEF SendQueued
  <2>3. wire' \in SUBSET Packet
    BY <1>3, <2>1, PutAddsAtMost DEF SendQueued, Transmit
  <2>4. QED
    BY <1>3, <2>1, <2>2, <2>3 DEF SendQueued, receiver
<1>4. ASSUME NEW control \in Payload, RawSendAsPacket(control) PROVE TypeOK'
  <2> DEFINE p == Numbered(<<control>>)[1]
  <2>1. Len(<<control>>) \in 1 .. RW - 1
    BY ControlType, WindowAssumption DEF RW
  <2>2. log' \in Seq(Payload) /\ next_outgoing_seqnum' \in SeqNums
    BY <1>4, <2>1, ControlType, NumberType DEF RawSendAsPacket
  <2>3. p \in Packet
    <3>1. 1 \in 1 .. Len(<<control>>)
      BY ControlType
    <3>2. QED
      BY <2>1, <3>1, ControlType, NumberedType
  <2> HIDE DEF p
  <2>4. queued_reliables' \in Seq(Packet)
    <3>1. queued_reliables' = queued_reliables \/ queued_reliables' = Append(queued_reliables, p)
      BY <1>4 DEF RawSendAsPacket, p
    <3>2. \A q \in Seq(Packet), x \in Packet : Append(q, x) \in Seq(Packet)
      OBVIOUS
    <3>3. QED
      BY <2>3, <3>1, <3>2
  <2>5. outgoing_reliables_sent' \in SUBSET Packet
    BY <1>4, <2>3, BufferedSentType DEF RawSendAsPacket, p
  <2>6. wire' \in SUBSET Packet /\ acks' \in SUBSET Packet
    BY <1>4, <2>3, AliveKeeps, PutAddsAtMost DEF RawSendAsPacket, p
  <2>7. QED
    BY <1>4, <2>2, <2>4, <2>5, <2>6 DEF RawSendAsPacket, receiver
<1>5. ASSUME NEW p \in outgoing_reliables_sent, Resend(p) PROVE TypeOK'
  <2>1. wire' \in SUBSET Packet
    BY <1>5, PutAddsAtMost DEF Resend, Transmit
  <2>2. QED
    BY <1>5, <2>1 DEF Resend, sender, receiver
<1>6. ASSUME ResendOne PROVE TypeOK'
  <2>1. wire' \in SUBSET Packet
    BY <1>6, PutAddsAtMost DEF ResendOne, Transmit
  <2>2. QED
    BY <1>6, <2>1 DEF ResendOne, sender, receiver
<1>7. ASSUME NEW d \in WindowSteps, UpdateTimers(d) PROVE TypeOK'
  <2>1. m_window_size' \in MIN_RELIABLE_WINDOW_SIZE .. MAX_RELIABLE_WINDOW_SIZE_SEND
    <3>1. d \in Int
      BY ChannelAssumption
    <3>2. QED
      BY <1>7, <3>1, ChannelAssumption DEF UpdateTimers, WindowSize
  <2>2. QED
    BY <1>7, <2>1 DEF UpdateTimers, receiver
<1>8. ASSUME NEW a \in acks, NEW keep \in BOOLEAN, ReceiveAck(a, keep) PROVE TypeOK'
  BY <1>8 DEF ReceiveAck, PopSeqnum, receiver
<1>9. ASSUME SetFullyOpen \/ DisconnectPeer \/ DeletePeer PROVE TypeOK'
  <2>1. CASE SetFullyOpen
    BY <2>1 DEF SetFullyOpen, receiver
  <2>2. CASE DisconnectPeer
    BY <2>2 DEF DisconnectPeer, receiver
  <2>3. CASE DeletePeer
    BY <2>3 DEF DeletePeer, receiver
  <2>4. QED
    BY <1>9, <2>1, <2>2, <2>3
<1>10. ASSUME NEW p \in wire, NEW keep \in BOOLEAN, ReceiveReliable(p, keep)
       PROVE TypeOK'
  <2>1. wire' \in SUBSET Packet
    BY <1>10 DEF ReceiveReliable
  <2>2. acks' \in SUBSET Packet
    BY <1>10, PutAddsAtMost DEF ReceiveReliable
  <2>3. /\ next_incoming_seqnum' \in SeqNums
        /\ incoming_reliables' \in SUBSET Packet
        /\ delivered' \in Seq(Nat)
    <3>1. CASE Process(p)
      BY <3>1, ProcessType
    <3>2. CASE /\ incoming_reliables' = BufferedIncoming(p)
               /\ UNCHANGED << next_incoming_seqnum, delivered >>
      BY <3>2 DEF BufferedIncoming
    <3>3. CASE UNCHANGED receiver
      BY <3>3 DEF receiver
    <3>4. QED
      BY <1>10, <3>1, <3>2, <3>3 DEF ReceiveReliable
  <2>4. QED
    BY <1>10, <2>1, <2>2, <2>3 DEF ReceiveReliable, sender
<1>11. ASSUME Unbuffer PROVE TypeOK'
  BY <1>11, ProcessType DEF Unbuffer, sender
<1>12. ASSUME Lose PROVE TypeOK'
  BY <1>12 DEF Lose, sender, receiver
<1>13. ASSUME UNCHANGED vars PROVE TypeOK'
  BY <1>13 DEF vars, sender, receiver
<1>14. QED
  BY <1>1, <1>2, <1>3, <1>4, <1>5, <1>6, <1>7, <1>8, <1>9, <1>10, <1>11, <1>12,
     <1>13, ControlType DEF Next, CreatePeer, Ping

(* Every variable keeps its type: in particular the 16-bit counters of     *)
(* both ends stay on the ring and the window within its limits.            *)
THEOREM TypeCorrect == Spec => []TypeOK
<1>1. Init => TypeOK
  BY ChannelAssumption DEF Init, TypeOK
<1>2. TypeOK /\ [Next]_vars => TypeOK'
  BY TypeStep
<1>3. QED
  BY <1>1, <1>2, PTL DEF Spec

-----------------------------------------------------------------------------
(* Numbering *)

(* The window test lets the counter go on only so far that every packet    *)
(* waiting for its ACK stays at most the window and two behind it.         *)
LEMMA WindowReach ==
    ASSUME TypeOK, NEW k \in 1 .. RW - 1, CanNumber(k),
           NEW p \in outgoing_reliables_sent,
           \A q \in outgoing_reliables_sent : Dist(q.seq, next_outgoing_seqnum) < RW
    PROVE  Dist(p.seq, next_outgoing_seqnum) + k <= MAX_RELIABLE_WINDOW_SIZE_SEND + 2
<1> DEFINE next == next_outgoing_seqnum
           last == U16(next + (k - 1))
<1>1. next \in SeqNums /\ k \in Nat /\ k - 1 \in 0 .. SEQNUM_MAX /\ m_window_size \in Nat
      /\ m_window_size <= MAX_RELIABLE_WINDOW_SIZE_SEND
  BY WindowAssumption, ChannelAssumption DEF TypeOK, RW, SEQNUM_MAX
<1>2. last \in SeqNums
  BY <1>1, U16OnRing
<1>3. SeqNumAvailable(last)
  <2>1. k - 1 \in 0 .. k - 1
    BY <1>1
  <2>2. QED
    BY <2>1 DEF CanNumber
<1>4. PICK f \in outgoing_reliables_sent :
          /\ IsFront(f)
          /\ IF f.seq < last
             THEN last - f.seq <= m_window_size
             ELSE last + (SEQNUM_MAX - f.seq) <= m_window_size
  BY <1>3 DEF SeqNumAvailable
<1>5. f.seq \in SeqNums /\ p.seq \in SeqNums
  BY DEF TypeOK, Packet
<1>6. Dist(f.seq, last) <= m_window_size + 1
  BY <1>1, <1>2, <1>4, <1>5, WindowAssumption DEF Dist, SeqNums, SEQNUM_MAX
<1>7. Dist(f.seq, last) = Dist(f.seq, next) + (k - 1)
  <2>1. Dist(f.seq, next) + (k - 1) <= SEQNUM_MAX /\ k - 1 \in Nat
    <3>1. Dist(f.seq, next) < RW /\ Dist(f.seq, next) \in Int
      BY <1>1, <1>5, DistOnRing
    <3>2. QED
      BY <1>1, <3>1, RingSize
  <2>2. QED
    BY <1>1, <1>5, <2>1, DistGrows
<1>8. Dist(p.seq, next) <= Dist(f.seq, next)
  BY <1>4 DEF IsFront
<1>9. Dist(p.seq, next) \in Int /\ Dist(f.seq, next) \in Int
  BY <1>1, <1>5, DistOnRing
<1>10. QED
  BY <1>1, <1>6, <1>7, <1>8, <1>9, ChannelAssumption, RingSize DEF RW

(* That is less than half the ring.                                        *)
LEMMA WindowHoldsSent ==
    ASSUME TypeOK, NEW k \in 1 .. RW - 1, CanNumber(k),
           NEW p \in outgoing_reliables_sent,
           \A q \in outgoing_reliables_sent : Dist(q.seq, next_outgoing_seqnum) < RW
    PROVE  Dist(p.seq, next_outgoing_seqnum) + k < RW
<1>1. Dist(p.seq, next_outgoing_seqnum) + k <= MAX_RELIABLE_WINDOW_SIZE_SEND + 2
  BY WindowReach
<1>2. Dist(p.seq, next_outgoing_seqnum) \in Nat /\ k \in Nat
  BY DistOnRing, RingSize DEF TypeOK, Packet
<1>3. QED
  BY <1>1, <1>2, ChannelAssumption, RingSize DEF RW

(* Numbering k payloads moves every packet k further behind the counter;   *)
(* those that stay less than half the ring behind keep their place.        *)
LEMMA PlacedAfterNumber ==
    ASSUME TypeOK, NEW payloads \in Seq(Payload), Len(payloads) \in 1 .. RW - 1,
           Number(payloads), NEW p \in Packet, Placed(p),
           Len(log) + Len(payloads) + 1 - p.n < RW
    PROVE  Placed(p)'
<1> DEFINE k == Len(payloads)
<1>1. k \in Nat /\ Len(log) \in Nat /\ Len(log') = Len(log) + k
  BY NumberType DEF TypeOK
<1>2. p.n \in Nat /\ p.seq \in SeqNums
  BY DEF Packet
<1>3. Dist(p.seq, next_outgoing_seqnum) + k <= SEQNUM_MAX
  BY <1>1, <1>2, WindowAssumption DEF Placed, SEQNUM_MAX, RW
<1>4. Dist(p.seq, next_outgoing_seqnum') = Dist(p.seq, next_outgoing_seqnum) + k
  BY <1>1, <1>2, <1>3, DistGrows DEF Number, TypeOK
<1>5. QED
  BY <1>1, <1>2, <1>4 DEF Placed, RW

(* The packets just numbered are where the counter says they are.          *)
LEMMA NumberedArePlaced ==
    ASSUME TypeOK, NEW payloads \in Seq(Payload), Len(payloads) \in 1 .. RW - 1,
           Number(payloads), NEW i \in 1 .. Len(payloads),
           NEW p, p = Numbered(payloads)[i]
    PROVE  Placed(p)'
<1> DEFINE k == Len(payloads)
           next == next_outgoing_seqnum
<1>1. k \in Nat /\ Len(log) \in Nat /\ Len(log') = Len(log) + k /\ i \in Nat
      /\ next \in SeqNums
  BY NumberType DEF TypeOK
<1>2. p \in Packet /\ p.n = Len(log) + i /\ p.seq = U16(next + (i - 1))
  BY NumberedType
<1>3. Dist(p.seq, next') = k - (i - 1)
  <2>1. i - 1 \in Nat /\ k - (i - 1) \in 1 .. RW - 1 /\ k <= SEQNUM_MAX
    BY <1>1, RingSize
  <2>2. Dist(next, next) = 0
    BY <1>1, DistOnRing
  <2>3. Dist(next, next') = k
    <3>1. Dist(next, next) + k <= SEQNUM_MAX /\ Dist(next, next) + k = k
      BY <1>1, <2>1, <2>2
    <3>2. Dist(next, U16(next + k)) = Dist(next, next) + k
      BY <1>1, <3>1, DistGrows
    <3>3. QED
      BY <3>1, <3>2 DEF Number
  <2>4. Dist(next, p.seq) = i - 1
    <3>1. /\ Dist(next, next) + (i - 1) <= SEQNUM_MAX
          /\ Dist(next, next) + (i - 1) = i - 1
      BY <1>1, <2>1, <2>2, RingSize
    <3>2. Dist(next, U16(next + (i - 1))) = Dist(next, next) + (i - 1)
      BY <1>1, <2>1, <3>1, DistGrows
    <3>3. QED
      BY <1>2, <3>1, <3>2
  <2>5. next' \in SeqNums /\ p.seq \in SeqNums
    BY <1>2, NumberType DEF Packet
  <2>6. QED
    <3>1. i - 1 <= k
      BY <1>1
    <3>2. QED
      BY <1>1, <2>3, <2>4, <2>5, <3>1, DistRemaining
<1>4. QED
  BY <1>1, <1>2, <1>3, WindowAssumption DEF Placed, RW

-----------------------------------------------------------------------------
(* The inductive invariant, step by step *)

(* A packet is queued iff it has an index in the queue.                    *)
LEMMA QueuedMembers ==
    ASSUME TypeOK, NEW n
    PROVE  n \in Ns(Queued) <=> \E i \in 1 .. Len(queued_reliables) :
                                    queued_reliables[i].n = n
BY DEF Ns, Queued, TypeOK

(* The same after a step.                                                  *)
LEMMA QueuedMembersPrime ==
    ASSUME TypeOK', NEW n
    PROVE  n \in Ns(Queued)' <=> \E i \in 1 .. Len(queued_reliables') :
                                    queued_reliables'[i].n = n
BY DEF Ns, Queued, TypeOK

(* The invariant holds when the channel is new.                            *)
LEMMA InitIInv == Init => IInv
<1> SUFFICES ASSUME Init PROVE IInv
  OBVIOUS
<1>1. TypeOK
  BY ChannelAssumption DEF Init, TypeOK
<1>2. Dist(next_incoming_seqnum, next_outgoing_seqnum) = 0
  BY ChannelAssumption, DistOnRing DEF Init
<1>3. QED
  BY <1>1, <1>2 DEF Init, IInv, Underway, QueueOrder, ReceiverPlace, InOrder,
                    NoLoss, AckedIsHeld

(* A step that leaves the numbering, the sender's lists and the receiver   *)
(* alone, and at most drops or repeats packets in the network.             *)
LEMMA QuietStep ==
    ASSUME IInv, TypeOK',
           UNCHANGED << log, next_outgoing_seqnum, queued_reliables,
                        outgoing_reliables_sent, receiver >>,
           life' # "deleted" => life # "deleted",
           wire' \subseteq Underway, acks' \subseteq acks
    PROVE  IInv'
<1> USE DEF IInv
<1>1. Underway' \subseteq Underway
  BY DEF Underway, receiver
<1>2. \A p \in Underway' : Placed(p)'
  BY <1>1 DEF Placed
<1>3. QueueOrder'
  BY <1>1 DEF QueueOrder, Placed, receiver
<1>4. ReceiverPlace' /\ InOrder'
  BY DEF ReceiverPlace, InOrder, receiver
<1>5. NoLoss' /\ AckedIsHeld'
  BY DEF NoLoss, AckedIsHeld, Ns, Queued, receiver
<1>6. QED
  BY <1>2, <1>3, <1>4, <1>5

(* What every numbering step does to the packets there are.                *)
LEMMA NumberStep ==
    ASSUME IInv, NEW payloads \in Seq(Payload), Len(payloads) \in 1 .. RW - 1,
           Number(payloads), UNCHANGED receiver, SpreadOK'
    PROVE  /\ Len(log') = Len(log) + Len(payloads)
           /\ \A p \in Packet :
                 Placed(p) /\ Len(log) + Len(payloads) + 1 - p.n < RW => Placed(p)'
           /\ \A p \in outgoing_reliables_sent : Placed(p)'
           /\ \A p \in incoming_reliables : Placed(p)'
           /\ \A i \in 1 .. Len(queued_reliables) : \A p :
                 p = queued_reliables[i] => Placed(p)'
           /\ ReceiverPlace'
<1> DEFINE k == Len(payloads)
<1>1. TypeOK
  BY DEF IInv
<1>2. Len(log') = Len(log) + k /\ k \in Nat /\ Len(log) \in Nat /\ Len(delivered) \in Nat
  BY <1>1, NumberType DEF TypeOK
<1>3. \A p \in Packet : Placed(p) /\ Len(log) + k + 1 - p.n < RW => Placed(p)'
  BY <1>1, PlacedAfterNumber
<1>4. Len(log) + k - Len(delivered) < RW
  BY <1>2 DEF SpreadOK, receiver, RW
<1>5. \A p \in outgoing_reliables_sent : Placed(p)'
  <2> TAKE p \in outgoing_reliables_sent
  <2>1. p \in Packet /\ Placed(p)
    BY <1>1 DEF IInv, Underway, TypeOK
  <2>2. \A q \in outgoing_reliables_sent : Dist(q.seq, next_outgoing_seqnum) < RW
    BY DEF IInv, Underway, Placed, RW
  <2>3. CanNumber(k)
    BY DEF Number
  <2>4. Dist(p.seq, next_outgoing_seqnum) + k < RW
    BY <1>1, <2>2, <2>3, WindowHoldsSent
  <2>5. Len(log) + k + 1 - p.n < RW
    BY <1>2, <2>1, <2>4 DEF Placed, Packet
  <2>6. QED
    BY <1>3, <2>1, <2>5
<1>6. \A p \in Packet : Placed(p) /\ p.n > Len(delivered) => Placed(p)'
  <2> SUFFICES ASSUME NEW p \in Packet, Placed(p), p.n > Len(delivered)
               PROVE  Placed(p)'
    OBVIOUS
  <2>1. Len(log) + k + 1 - p.n < RW
    BY <1>2, <1>4, RingSize DEF Packet
  <2>2. QED
    BY <1>3, <2>1
<1>7. \A p \in incoming_reliables : Placed(p)'
  BY <1>1, <1>6 DEF IInv, Underway, ReceiverPlace, TypeOK
<1>8. \A i \in 1 .. Len(queued_reliables) : \A p : p = queued_reliables[i] => Placed(p)'
  <2> TAKE i \in 1 .. Len(queued_reliables)
  <2> TAKE p
  <2> HAVE p = queued_reliables[i]
  <2>1. p \in Packet
    BY <1>1 DEF TypeOK
  <2>2. Placed(p) /\ p.n > Len(delivered)
    BY DEF IInv, QueueOrder
  <2>3. QED
    BY <1>6, <2>1, <2>2
<1>9. ReceiverPlace'
  <2>1. Dist(next_incoming_seqnum, next_outgoing_seqnum) = Len(log) - Len(delivered)
    BY DEF IInv, ReceiverPlace
  <2>2. Dist(next_incoming_seqnum, next_outgoing_seqnum) + k <= SEQNUM_MAX
    BY <1>2, <1>4, <2>1, RingSize
  <2>3. Dist(next_incoming_seqnum, next_outgoing_seqnum')
          = Dist(next_incoming_seqnum, next_outgoing_seqnum) + k
    BY <1>1, <1>2, <2>2, DistGrows DEF Number, TypeOK
  <2>4. QED
    BY <1>2, <2>1, <2>3 DEF IInv, ReceiverPlace, receiver
<1>10. QED
  BY <1>2, <1>3, <1>5, <1>7, <1>8, <1>9

(* Numbering a command puts its packets at the end of the queue.           *)
LEMMA ProcessCommandStep ==
    ASSUME IInv, TypeOK', NEW c \in Command, ProcessReliableSendCommand(c),
           UNCHANGED << life, outgoing_reliables_sent, receiver >>, SpreadOK'
    PROVE  IInv'
<1> DEFINE payloads == Chunks(c)
           k == Len(payloads)
           new == Numbered(payloads)
<1>0. /\ TypeOK /\ QueueOrder /\ ReceiverPlace /\ InOrder /\ NoLoss /\ AckedIsHeld
      /\ \A p \in Underway : Placed(p)
  BY DEF IInv
<1> USE <1>0
<1>1. payloads \in Seq(Payload) /\ k \in 1 .. RW - 1 /\ k = c.size /\ k \in Nat
  BY ChunksType, RingSize
<1>2. Number(payloads) /\ queued_reliables' = queued_reliables \o new
  BY DEF ProcessReliableSendCommand
<1>3. /\ new \in Seq(Packet) /\ Len(new) = k
      /\ \A i \in 1 .. k : new[i].n = Len(log) + i
  BY <1>1, NumberedType
<1>4. /\ Len(log') = Len(log) + k
      /\ \A p \in Packet : Placed(p) /\ Len(log) + k + 1 - p.n < RW => Placed(p)'
      /\ \A p \in outgoing_reliables_sent : Placed(p)'
      /\ \A p \in incoming_reliables : Placed(p)'
      /\ \A i \in 1 .. Len(queued_reliables) : \A p :
            p = queued_reliables[i] => Placed(p)'
      /\ ReceiverPlace'
  <2>1. UNCHANGED receiver
    OBVIOUS
  <2> HIDE DEF payloads, k
  <2>2. QED
    BY <1>1, <1>2, <2>1, NumberStep DEF k
<1>4a. Len(log) \in Nat /\ Len(delivered) \in Nat
  BY DEF TypeOK
<1> USE <1>4a
<1>4b. Len(log') = Len(log) + k /\ k \in Nat
  BY <1>1, <1>4
<1>5. Underway' \subseteq Underway
  BY AliveKeeps DEF Underway, ProcessReliableSendCommand, receiver
<1>6. \A p \in Underway' : Placed(p)'
  <2> TAKE p \in Underway'
  <2>1. CASE p \in wire' \cup acks'
    <3>1. p \in Packet /\ Placed(p)
      BY <1>5, <2>1 DEF TypeOK, Underway
    <3>2. Len(log) + k + 1 - p.n < RW
      BY <1>1, <2>1, AliveKeeps DEF ProcessReliableSendCommand, RW
    <3>3. QED
      BY <1>4, <3>1, <3>2
  <2>2. CASE p \in outgoing_reliables_sent \cup incoming_reliables
    BY <1>4, <2>2
  <2>3. QED
    BY <2>1, <2>2 DEF Underway, receiver
<1>7. Len(queued_reliables') = Len(queued_reliables) + k
      /\ Len(queued_reliables) \in Nat
  <2>1. queued_reliables \in Seq(Packet)
    BY DEF TypeOK
  <2>2. queued_reliables' = queued_reliables \o new /\ new \in Seq(Packet) /\ Len(new) = k
    BY <1>2, <1>3
  <2> HIDE DEF new, k
  <2>3. Len(queued_reliables \o new) = Len(queued_reliables) + Len(new)
    BY <2>1, <2>2, ConcatProperties
  <2>4. QED
    BY <2>1, <2>2, <2>3
<1>8. \A i \in 1 .. Len(queued_reliables') :
          \/ /\ i \in 1 .. Len(queued_reliables)
             /\ queued_reliables'[i] = queued_reliables[i]
          \/ /\ i - Len(queued_reliables) \in 1 .. k
             /\ queued_reliables'[i] = new[i - Len(queued_reliables)]
  BY <1>2, <1>3, <1>7 DEF TypeOK
<1>9. \A i \in 1 .. Len(queued_reliables) :
          /\ queued_reliables[i].n \in 1 .. Len(log)
          /\ queued_reliables[i].n > Len(delivered)
          /\ \A p \in Underway : p.n # queued_reliables[i].n
  BY DEF QueueOrder, Placed
<1>10. QueueOrder'
  <2>1. ASSUME NEW i \in 1 .. Len(queued_reliables')
        PROVE  /\ \A p : p = queued_reliables'[i] => Placed(p)'
               /\ queued_reliables'[i].n > Len(delivered)
               /\ \A p \in Underway' : p.n # queued_reliables'[i].n
    <3>1. CASE /\ i \in 1 .. Len(queued_reliables)
               /\ queued_reliables'[i] = queued_reliables[i]
      BY <1>4, <1>5, <1>9, <3>1
    <3>2. CASE /\ i - Len(queued_reliables) \in 1 .. k
               /\ queued_reliables'[i] = new[i - Len(queued_reliables)]
      <4>1. \A p : p = queued_reliables'[i] => Placed(p)'
        BY <1>1, <1>2, <3>2, NumberedArePlaced
      <4>2. queued_reliables'[i].n > Len(log)
        <5> HIDE <1>0
        <5>1. queued_reliables'[i].n = Len(log) + (i - Len(queued_reliables))
          BY <1>3, <3>2
        <5>2. QED
          BY <1>4b, <3>2, <5>1
      <4>3. \A p \in Underway' : p.n <= Len(log)
        BY <1>4, <1>5 DEF Placed
      <4>4. queued_reliables'[i].n \in Nat
        <5> HIDE <1>0
        <5>1. queued_reliables'[i].n = Len(log) + (i - Len(queued_reliables))
          BY <1>3, <3>2
        <5>2. QED
          BY <1>4b, <3>2, <5>1
      <4>5. \A p \in Underway' : p.n # queued_reliables'[i].n
        <5> SUFFICES ASSUME NEW p \in Underway' PROVE p.n # queued_reliables'[i].n
          OBVIOUS
        <5>1. p.n <= Len(log) /\ p.n \in Int
          BY <1>4, <1>5, <4>3 DEF Placed
        <5>2. QED
          BY <1>4, <4>2, <4>4, <5>1
      <4>6. queued_reliables'[i].n > Len(delivered)
        BY <1>4, <4>2, <4>4 DEF ReceiverPlace
      <4>7. QED
        BY <4>1, <4>5, <4>6
    <3>3. QED
      BY <1>8, <3>1, <3>2
  <2>2. ASSUME NEW i \in 1 .. Len(queued_reliables'),
               NEW j \in 1 .. Len(queued_reliables'), i < j
        PROVE  queued_reliables'[i].n < queued_reliables'[j].n
    <3>1. CASE i \in 1 .. Len(queued_reliables) /\ j \in 1 .. Len(queued_reliables)
      BY <1>7, <1>8, <2>2, <3>1 DEF QueueOrder
    <3>2. CASE i \in 1 .. Len(queued_reliables) /\ j \notin 1 .. Len(queued_reliables)
      <4>1. queued_reliables'[i].n \in 1 .. Len(log)
        <5>1. queued_reliables'[i] = queued_reliables[i]
          BY <1>7, <1>8, <3>2
        <5>2. QED
          BY <1>9, <3>2, <5>1
      <4>2. queued_reliables'[j].n = Len(log) + (j - Len(queued_reliables))
            /\ j - Len(queued_reliables) \in 1 .. k
        BY <1>3, <1>8, <3>2
      <4>3. Len(log) \in Nat /\ Len(queued_reliables) \in Nat /\ j \in Int
        BY <1>1, <2>2 DEF TypeOK
      <4>4. QED
        BY <4>1, <4>2, <4>3
    <3>3. CASE i \notin 1 .. Len(queued_reliables)
      <4>1. j \notin 1 .. Len(queued_reliables)
        BY <1>7, <2>2, <3>3
      <4>2. /\ queued_reliables'[i].n = Len(log) + (i - Len(queued_reliables))
            /\ queued_reliables'[j].n = Len(log) + (j - Len(queued_reliables))
        BY <1>3, <1>8, <3>3, <4>1
      <4>3. QED
        BY <1>4, <1>7, <2>2, <4>2
    <3>4. QED
      BY <3>1, <3>2, <3>3
  <2>3. QED
    BY <2>1, <2>2 DEF QueueOrder, receiver
<1>11. ReceiverPlace' /\ InOrder'
  BY <1>4 DEF InOrder, receiver
<1>12. NoLoss'
  <2> SUFFICES ASSUME life # "deleted", NEW n \in 1 .. Len(log')
               PROVE  \/ n <= Len(delivered)
                      \/ n \in Ns(incoming_reliables)
                      \/ n \in Ns(Queued)'
                      \/ n \in Ns(outgoing_reliables_sent)
    BY DEF NoLoss, Ns, receiver
  <2>1. CASE n \in 1 .. Len(log)
    <3>1. n \in Ns(Queued) => n \in Ns(Queued)'
      <4> SUFFICES ASSUME NEW i \in 1 .. Len(queued_reliables),
                          queued_reliables[i].n = n
                   PROVE  n \in Ns(Queued)'
        BY QueuedMembers
      <4>1. i \in 1 .. Len(queued_reliables') /\ queued_reliables'[i] = queued_reliables[i]
        BY <1>1, <1>7, <1>8
      <4>2. QED
        BY <4>1, QueuedMembersPrime
    <3>2. QED
      BY <2>1, <3>1 DEF NoLoss
  <2>2. CASE n \notin 1 .. Len(log)
    <3> DEFINE i == Len(queued_reliables) + (n - Len(log))
    <3> HIDE <1>0
    <3>1. n - Len(log) \in 1 .. k
      BY <1>4b, <2>2
    <3>2. i \in 1 .. Len(queued_reliables') /\ i \notin 1 .. Len(queued_reliables)
          /\ i - Len(queued_reliables) = n - Len(log)
      BY <1>4b, <1>7, <3>1
    <3> HIDE DEF i, new, k
    <3>3. queued_reliables'[i].n = n
      <4>1. queued_reliables'[i] = new[n - Len(log)]
        BY <1>8, <3>2
      <4>2. new[n - Len(log)].n = Len(log) + (n - Len(log))
        BY <1>3, <3>1
      <4>3. n \in Nat /\ Len(log) + (n - Len(log)) = n
        BY <1>4b
      <4>4. QED
        BY <4>1, <4>2, <4>3
    <3>4. \E j \in 1 .. Len(queued_reliables') : queued_reliables'[j].n = n
      BY <3>2, <3>3
    <3>5. QED
      BY <3>4, QueuedMembersPrime
  <2>3. QED
    BY <2>1, <2>2
<1>13. AckedIsHeld'
  BY AliveKeeps DEF AckedIsHeld, Ns, ProcessReliableSendCommand, receiver
<1>14. QED
  BY <1>6, <1>10, <1>11, <1>12, <1>13 DEF IInv

(* The distance a packet's number has from the counter tells it from the   *)
(* other packets: the code may compare sequence numbers only.              *)
LEMMA SameSeqSamePlace ==
    ASSUME NEW next \in SeqNums, NEW len \in Nat, NEW p \in Packet, NEW q \in Packet,
           Dist(p.seq, next) = len + 1 - p.n, Dist(q.seq, next) = len + 1 - q.n,
           p.seq = q.seq
    PROVE  p.n = q.n
<1>1. p.n \in Nat /\ q.n \in Nat /\ len + 1 - p.n = len + 1 - q.n
  BY DEF Packet
<1>2. QED
  BY <1>1

(* The outgoing list takes every packet less than half a ring behind the   *)
(* counter, unless its number is there already.                            *)
LEMMA SentTakes ==
    ASSUME NEW p \in Packet, NEW next \in SeqNums, Dist(p.seq, next) \in 1 .. RW - 1,
           \A q \in outgoing_reliables_sent : q.seq # p.seq
    PROVE  BufferedSent(p, next) = outgoing_reliables_sent \cup {p}
BY InsertableInSent DEF BufferedSent, Packet

(* What the invariant says of the packets there are. *)
LEMMA IInvFacts ==
    ASSUME IInv
    PROVE  /\ TypeOK
           /\ Len(log) \in Nat
           /\ Len(delivered) \in Nat
           /\ Len(delivered) <= Len(log)
           /\ Underway \subseteq Packet
           /\ \A p \in Underway :
                 /\ p.n \in 1 .. Len(log)
                 /\ Len(log) + 1 - p.n < RW
                 /\ Dist(p.seq, next_outgoing_seqnum) = Len(log) + 1 - p.n
           /\ \A i \in 1 .. Len(queued_reliables) :
                 /\ queued_reliables[i] \in Packet
                 /\ queued_reliables[i].n \in 1 .. Len(log)
                 /\ queued_reliables[i].n > Len(delivered)
                 /\ \A p \in Underway : p.n # queued_reliables[i].n
<1>1. /\ TypeOK
      /\ Len(log) \in Nat /\ Len(delivered) \in Nat
      /\ Underway \subseteq Packet
  BY DEF IInv, TypeOK, Underway
<1>2. Len(delivered) <= Len(log)
  BY DEF IInv, ReceiverPlace
<1>3. \A p \in Underway :
         /\ p.n \in 1 .. Len(log)
         /\ Len(log) + 1 - p.n < RW
         /\ Dist(p.seq, next_outgoing_seqnum) = Len(log) + 1 - p.n
  BY DEF IInv, Placed, RW
<1>4. \A i \in 1 .. Len(queued_reliables) : queued_reliables[i] \in Packet
  BY <1>1 DEF TypeOK
<1>5. \A i \in 1 .. Len(queued_reliables) :
         /\ queued_reliables[i].n \in 1 .. Len(log)
         /\ queued_reliables[i].n > Len(delivered)
         /\ \A p \in Underway : p.n # queued_reliables[i].n
  BY DEF IInv, QueueOrder, Placed
<1>6. QED
  BY <1>1, <1>2, <1>3, <1>4, <1>5

(* Sending the head of the queue: the outgoing list always takes it.       *)
LEMMA SendQueuedStep ==
    ASSUME IInv, TypeOK', SendQueued
    PROVE  IInv'
<1> DEFINE p == Head(queued_reliables)
<1>1. /\ queued_reliables \in Seq(Packet) /\ queued_reliables # <<>>
      /\ outgoing_reliables_sent \subseteq Packet
      /\ next_outgoing_seqnum \in SeqNums
  BY IInvFacts DEF TypeOK, SendQueued
<1>2. /\ p = queued_reliables[1] /\ 1 \in 1 .. Len(queued_reliables)
      /\ Len(queued_reliables) \in Nat
  BY <1>1
<1>3. /\ queued_reliables' = Tail(queued_reliables)
      /\ Len(queued_reliables') = Len(queued_reliables) - 1
      /\ \A i \in 1 .. Len(queued_reliables') :
            /\ i + 1 \in 1 .. Len(queued_reliables)
            /\ queued_reliables'[i] = queued_reliables[i + 1]
  BY <1>1 DEF SendQueued
<1> HIDE DEF p
<1>4. p \in Packet /\ Placed(p) /\ \A q \in Underway : q.n # p.n
  BY <1>1, <1>2, IInvFacts DEF IInv, QueueOrder
<1>5. \A q \in outgoing_reliables_sent : q.seq # p.seq
  <2> SUFFICES ASSUME NEW q \in outgoing_reliables_sent, q.seq = p.seq PROVE FALSE
    OBVIOUS
  <2>1. q \in Underway /\ q \in Packet
    BY <1>1 DEF Underway
  <2>2. Dist(q.seq, next_outgoing_seqnum) = Len(log) + 1 - q.n
    BY <2>1, IInvFacts
  <2>3. Dist(p.seq, next_outgoing_seqnum) = Len(log) + 1 - p.n
    BY <1>4 DEF Placed
  <2>4. q.n = p.n
    BY <1>1, <1>4, <2>1, <2>2, <2>3, IInvFacts, SameSeqSamePlace
  <2>5. QED
    BY <1>4, <2>1, <2>4
<1>6. outgoing_reliables_sent' = outgoing_reliables_sent \cup {p}
  <2>1. Dist(p.seq, next_outgoing_seqnum) \in 1 .. RW - 1
    BY <1>4, IInvFacts, RingSize DEF Placed, RW
  <2>2. outgoing_reliables_sent' = BufferedSent(p, next_outgoing_seqnum)
    BY DEF SendQueued, p
  <2>3. QED
    BY <1>1, <1>4, <1>5, <2>1, <2>2, SentTakes
<1>7. UNCHANGED << log, next_outgoing_seqnum, life, acks, receiver >>
  BY DEF SendQueued
<1>8. Underway' \subseteq Underway \cup {p}
  <2>1. wire' \subseteq wire \cup {p}
    BY PutAddsAtMost DEF SendQueued, Transmit, p
  <2>2. QED
    BY <1>6, <1>7, <2>1 DEF Underway, receiver
<1>9. \A q \in Underway' : Placed(q)'
  BY <1>4, <1>7, <1>8 DEF IInv, Placed
<1>10. QueueOrder'
  <2>1. ASSUME NEW i \in 1 .. Len(queued_reliables')
        PROVE  /\ \A x : x = queued_reliables'[i] => Placed(x)'
               /\ queued_reliables'[i].n > Len(delivered')
               /\ \A q \in Underway' : q.n # queued_reliables'[i].n
    <3>1. i + 1 \in 1 .. Len(queued_reliables) /\ 1 < i + 1
          /\ queued_reliables'[i] = queued_reliables[i + 1]
      BY <1>2, <1>3
    <3>2. \A x : x = queued_reliables[i + 1] => Placed(x)'
      BY <1>7, <3>1 DEF IInv, QueueOrder, Placed
    <3>3. p.n < queued_reliables[i + 1].n
      BY <1>2, <3>1 DEF IInv, QueueOrder
    <3>4. p.n # queued_reliables[i + 1].n
      BY <1>4, <3>1, <3>3, IInvFacts DEF Packet
    <3>5. \A q \in Underway : q.n # queued_reliables[i + 1].n
      BY <3>1, IInvFacts
    <3>6. queued_reliables[i + 1].n > Len(delivered')
      BY <1>7, <3>1, IInvFacts DEF receiver
    <3>7. QED
      BY <1>8, <3>1, <3>2, <3>4, <3>5, <3>6
  <2>2. ASSUME NEW i \in 1 .. Len(queued_reliables'),
               NEW j \in 1 .. Len(queued_reliables'), i < j
        PROVE  queued_reliables'[i].n < queued_reliables'[j].n
    <3>1. /\ i + 1 \in 1 .. Len(queued_reliables) /\ j + 1 \in 1 .. Len(queued_reliables)
          /\ i + 1 < j + 1
          /\ queued_reliables'[i] = queued_reliables[i + 1]
          /\ queued_reliables'[j] = queued_reliables[j + 1]
      BY <1>2, <1>3, <2>2
    <3>2. queued_reliables[i + 1].n < queued_reliables[j + 1].n
      BY <3>1 DEF IInv, QueueOrder
    <3>3. QED
      BY <3>1, <3>2
  <2>3. QED
    BY <1>7, <2>1, <2>2 DEF QueueOrder
<1>11. ReceiverPlace' /\ InOrder' /\ AckedIsHeld'
  BY <1>7 DEF IInv, ReceiverPlace, InOrder, AckedIsHeld, Ns, receiver
<1>12. NoLoss'
  <2> SUFFICES ASSUME life # "deleted", NEW n \in 1 .. Len(log)
               PROVE  \/ n <= Len(delivered)
                      \/ n \in Ns(incoming_reliables)
                      \/ n \in Ns(Queued)'
                      \/ n \in Ns(outgoing_reliables_sent)'
    BY <1>7 DEF NoLoss, Ns, receiver
  <2>1. n \in Ns(outgoing_reliables_sent) => n \in Ns(outgoing_reliables_sent)'
    BY <1>6 DEF Ns
  <2>2. n \in Ns(Queued) => n \in Ns(Queued)' \cup Ns(outgoing_reliables_sent)'
    <3> SUFFICES ASSUME NEW i \in 1 .. Len(queued_reliables),
                        queued_reliables[i].n = n
                 PROVE  n \in Ns(Queued)' \cup Ns(outgoing_reliables_sent)'
      BY QueuedMembers, IInvFacts
    <3>1. CASE i = 1
      BY <1>2, <1>6, <3>1 DEF Ns
    <3>2. CASE i # 1
      <4>1. i - 1 \in 1 .. Len(queued_reliables')
        BY <1>2, <1>3, <3>2
      <4>2. queued_reliables'[i - 1] = queued_reliables[i]
        <5>1. (i - 1) + 1 = i
          BY <1>2
        <5>2. QED
          BY <1>3, <4>1, <5>1
      <4>3. \E j \in 1 .. Len(queued_reliables') : queued_reliables'[j].n = n
        BY <4>1, <4>2
      <4>4. QED
        BY <4>3, QueuedMembersPrime
    <3>3. QED
      BY <3>1, <3>2
  <2>3. QED
    BY <2>1, <2>2 DEF IInv, NoLoss
<1>13. QED
  BY <1>9, <1>10, <1>11, <1>12 DEF IInv

(* An ACK removes the packet it is for and no other, and that one the      *)
(* receiver has.                                                           *)
LEMMA ReceiveAckStep ==
    ASSUME IInv, TypeOK', NEW a \in acks, NEW keep \in BOOLEAN, ReceiveAck(a, keep)
    PROVE  IInv'
<1>1. /\ UNCHANGED << log, next_outgoing_seqnum, queued_reliables, life, receiver >>
      /\ wire' = wire /\ acks' \subseteq acks
      /\ outgoing_reliables_sent' = {p \in outgoing_reliables_sent : p.seq # a.seq}
  BY DEF ReceiveAck, PopSeqnum
<1>2. Underway' \subseteq Underway
  BY <1>1 DEF Underway, receiver
<1>3. \A p \in Underway' : Placed(p)'
  BY <1>1, <1>2 DEF IInv, Placed
<1>4. QueueOrder'
  BY <1>1, <1>2 DEF IInv, QueueOrder, Placed, receiver
<1>5. ReceiverPlace' /\ InOrder' /\ AckedIsHeld'
  BY <1>1 DEF IInv, ReceiverPlace, InOrder, AckedIsHeld, Ns, receiver
<1>6. \A p \in outgoing_reliables_sent : p.n = a.n \/ p \in outgoing_reliables_sent'
  <2> SUFFICES ASSUME NEW p \in outgoing_reliables_sent, p.seq = a.seq
               PROVE  p.n = a.n
    BY <1>1
  <2>1. p \in Underway /\ a \in Underway
    BY DEF Underway
  <2>2. next_outgoing_seqnum \in SeqNums
    BY IInvFacts DEF TypeOK
  <2>3. QED
    BY <2>1, <2>2, IInvFacts, SameSeqSamePlace
<1>7. a.n <= Len(delivered) \/ a.n \in Ns(incoming_reliables)
  BY DEF IInv, AckedIsHeld
<1>8. NoLoss'
  <2> SUFFICES ASSUME life # "deleted", NEW n \in 1 .. Len(log)
               PROVE  \/ n <= Len(delivered)
                      \/ n \in Ns(incoming_reliables)
                      \/ n \in Ns(Queued)
                      \/ n \in Ns(outgoing_reliables_sent')
    BY <1>1 DEF NoLoss, Ns, Queued, receiver
  <2>1. CASE n \in Ns(outgoing_reliables_sent)
    BY <1>6, <1>7, <2>1 DEF Ns
  <2>2. CASE n \notin Ns(outgoing_reliables_sent)
    BY <2>2 DEF IInv, NoLoss
  <2>3. QED
    BY <2>1, <2>2
<1>9. QED
  BY <1>3, <1>4, <1>5, <1>8 DEF IInv

(* Deleting the peer empties the sender and leaves the receiver alone.     *)
LEMMA DeletePeerStep ==
    ASSUME IInv, TypeOK', DeletePeer
    PROVE  IInv'
<1>1. /\ UNCHANGED << log, next_outgoing_seqnum, wire, acks, receiver >>
      /\ life' = "deleted" /\ queued_reliables' = <<>> /\ outgoing_reliables_sent' = {}
  BY DEF DeletePeer
<1>2. Underway' \subseteq Underway
  BY <1>1 DEF Underway, receiver
<1>3. \A p \in Underway' : Placed(p)'
  BY <1>1, <1>2 DEF IInv, Placed
<1>4. QueueOrder' /\ NoLoss'
  BY <1>1 DEF QueueOrder, NoLoss
<1>5. ReceiverPlace' /\ InOrder' /\ AckedIsHeld'
  BY <1>1 DEF IInv, ReceiverPlace, InOrder, AckedIsHeld, Ns, receiver
<1>6. QED
  BY <1>3, <1>4, <1>5 DEF IInv

(* A packet bears the expected number iff it is the next one of the log.   *)
LEMMA ExpectedIsNext ==
    ASSUME IInv, NEW p \in Underway
    PROVE  p.seq = next_incoming_seqnum <=> p.n = Len(delivered) + 1
<1>1. Dist(p.seq, next_outgoing_seqnum) = Len(log) + 1 - p.n /\ p.n \in Nat
  BY IInvFacts
<1>2. Dist(next_incoming_seqnum, next_outgoing_seqnum) = Len(log) - Len(delivered)
  BY DEF IInv, ReceiverPlace
<1>3. Len(log) \in Nat /\ Len(delivered) \in Nat
  BY IInvFacts
<1>4. p.seq \in SeqNums /\ next_incoming_seqnum \in SeqNums /\ next_outgoing_seqnum \in SeqNums
  BY IInvFacts DEF Packet, TypeOK
<1>5. p.n = Len(delivered) + 1 =>
        Dist(p.seq, next_outgoing_seqnum) = Dist(next_incoming_seqnum, next_outgoing_seqnum)
  BY <1>1, <1>2, <1>3
<1>6. p.n = Len(delivered) + 1 => p.seq = next_incoming_seqnum
  BY <1>4, <1>5, DistInjective
<1>7. p.seq = next_incoming_seqnum => p.n = Len(delivered) + 1
  BY <1>1, <1>2, <1>3
<1>8. QED
  BY <1>6, <1>7

(* Processing the next packet, from the network or from the buffer.        *)
LEMMA ProcessStep ==
    ASSUME IInv, TypeOK', NEW p \in Underway, p.seq = next_incoming_seqnum,
           Process(p), UNCHANGED sender,
           wire' \subseteq wire, acks' \subseteq acks \cup {p}
    PROVE  IInv'
<1>1. p.n = Len(delivered) + 1
  BY ExpectedIsNext
<1>2. /\ Len(log) \in Nat /\ Len(delivered) \in Nat
      /\ p.n \in 1 .. Len(log)
      /\ next_incoming_seqnum \in SeqNums /\ next_outgoing_seqnum \in SeqNums
      /\ delivered \in Seq(Nat)
  BY IInvFacts DEF TypeOK
<1>3. /\ delivered' = Append(delivered, p.n)
      /\ Len(delivered') = Len(delivered) + 1
      /\ \A i \in 1 .. Len(delivered) : delivered'[i] = delivered[i]
      /\ delivered'[Len(delivered) + 1] = p.n
  BY <1>2 DEF Process
<1>4. UNCHANGED << log, next_outgoing_seqnum, queued_reliables,
                   outgoing_reliables_sent, life >>
  BY DEF sender
<1>5. incoming_reliables' \subseteq incoming_reliables
  BY DEF Process
<1>6. Underway' \subseteq Underway
  BY <1>4, <1>5 DEF Underway
<1>7. \A q \in Underway' : Placed(q)'
  BY <1>4, <1>6 DEF IInv, Placed
<1>8. QueueOrder'
  <2>1. \A i \in 1 .. Len(queued_reliables) :
            queued_reliables[i].n > Len(delivered')
    <3> TAKE i \in 1 .. Len(queued_reliables)
    <3>1. queued_reliables[i].n > Len(delivered) /\ queued_reliables[i].n \in Nat
          /\ p.n # queued_reliables[i].n
      BY IInvFacts
    <3>2. QED
      BY <1>1, <1>2, <1>3, <3>1
  <2>2. QED
    BY <1>4, <1>6, <2>1 DEF IInv, QueueOrder, Placed
<1>9. \A q \in incoming_reliables :
          \/ q.n = Len(delivered')
          \/ q \in incoming_reliables'
  <2> TAKE q \in incoming_reliables
  <2>1. q \in Underway
    BY DEF Underway
  <2>2. QED
    BY <1>3, <2>1, ExpectedIsNext DEF Process
<1>10. \A q \in incoming_reliables' : q.n > Len(delivered')
  <2> TAKE q \in incoming_reliables'
  <2>1. q \in incoming_reliables /\ q.seq # next_incoming_seqnum /\ q \in Underway
    BY DEF Process, Underway
  <2>2. q.n > Len(delivered) /\ q.n # Len(delivered) + 1 /\ q.n \in Nat
    BY <2>1, ExpectedIsNext, IInvFacts DEF IInv, ReceiverPlace
  <2>3. QED
    BY <1>2, <1>3, <2>2
<1>11. ReceiverPlace'
  <2>1. Dist(next_incoming_seqnum, next_outgoing_seqnum) = Len(log) - Len(delivered)
    BY DEF IInv, ReceiverPlace
  <2>2. Dist(next_incoming_seqnum', next_outgoing_seqnum')
          = Len(log) - Len(delivered) - 1
    <3>1. /\ Len(log) - Len(delivered) > 0
          /\ next_incoming_seqnum' = U16(next_incoming_seqnum + 1)
          /\ next_outgoing_seqnum' = next_outgoing_seqnum
      BY <1>1, <1>2, <1>4 DEF Process
    <3>2. QED
      BY <1>2, <2>1, <3>1, DistShrinks
  <2>3. QED
    BY <1>1, <1>2, <1>3, <1>4, <1>10, <2>2 DEF ReceiverPlace
<1>12. InOrder'
  BY <1>1, <1>2, <1>3 DEF IInv, InOrder
<1>13. \A n \in Ns(incoming_reliables) :
          n <= Len(delivered') \/ n \in Ns(incoming_reliables')
  BY <1>2, <1>3, <1>9 DEF Ns
<1>14. NoLoss'
  <2> SUFFICES ASSUME life # "deleted", NEW n \in 1 .. Len(log)
               PROVE  \/ n <= Len(delivered')
                      \/ n \in Ns(incoming_reliables')
                      \/ n \in Ns(Queued) \cup Ns(outgoing_reliables_sent)
    BY <1>4 DEF NoLoss, Ns, Queued
  <2>1. n <= Len(delivered) => n <= Len(delivered')
    BY <1>2, <1>3
  <2>2. QED
    BY <1>13, <2>1 DEF IInv, NoLoss
<1>15. AckedIsHeld'
  <2> SUFFICES ASSUME NEW a \in acks'
               PROVE  a.n <= Len(delivered') \/ a.n \in Ns(incoming_reliables')
    BY DEF AckedIsHeld, Ns
  <2>1. CASE a = p
    BY <1>1, <1>2, <1>3, <2>1
  <2>2. CASE a \in acks
    <3>1. a.n \in Nat
      BY <2>2, IInvFacts DEF Underway
    <3>2. a.n <= Len(delivered) => a.n <= Len(delivered')
      BY <1>2, <1>3, <3>1
    <3>3. QED
      BY <1>13, <2>2, <3>2 DEF IInv, AckedIsHeld
  <2>3. QED
    BY <2>1, <2>2
<1>16. QED
  BY <1>7, <1>8, <1>11, <1>12, <1>14, <1>15 DEF IInv

(* What the receiver's tests of a sequence number say of the packet: in    *)
(* the window means not processed yet, and old means processed.            *)
LEMMA WindowIsAhead ==
    ASSUME IInv, SpreadOK, NEW p \in Underway
    PROVE  seqnum_in_window(p.seq, next_incoming_seqnum, RW) <=> p.n > Len(delivered)
<1> DEFINE d == Dist(p.seq, next_outgoing_seqnum)
           e == Dist(next_incoming_seqnum, next_outgoing_seqnum)
<1>1. d = Len(log) + 1 - p.n /\ p.n \in Nat /\ Len(log) + 1 - p.n < RW
      /\ p.n <= Len(log)
  BY IInvFacts
<1>2. e = Len(log) - Len(delivered)
  BY DEF IInv, ReceiverPlace
<1>3. Len(log) \in Nat /\ Len(delivered) \in Nat /\ Len(delivered) <= Len(log)
  BY IInvFacts
<1>4. p.seq \in SeqNums /\ next_incoming_seqnum \in SeqNums /\ next_outgoing_seqnum \in SeqNums
  BY IInvFacts DEF Packet, TypeOK
<1> HIDE DEF d, e
<1>5. ASSUME p.n > Len(delivered)
      PROVE  seqnum_in_window(p.seq, next_incoming_seqnum, RW)
  <2>1. e >= d
    BY <1>1, <1>2, <1>3, <1>5
  <2>2. Dist(next_incoming_seqnum, p.seq) = e - d
    BY <1>4, <2>1, DistDifference DEF d, e
  <2>3. e - d < RW
    BY <1>1, <1>2, <1>3, RingSize DEF SpreadOK, RW
  <2>4. RW \in 1 .. RW
    BY RingSize
  <2>5. QED
    BY <1>4, <2>2, <2>3, <2>4, InWindowIsDistance
<1>6. ASSUME ~ (p.n > Len(delivered))
      PROVE  ~ seqnum_in_window(p.seq, next_incoming_seqnum, RW)
  <2>1. d >= e
    BY <1>1, <1>2, <1>3, <1>6
  <2>2. Dist(p.seq, next_incoming_seqnum) = d - e
    BY <1>4, <2>1, DistDifference DEF d, e
  <2>3. d - e \in 1 .. RW - 1
    BY <1>1, <1>2, <1>3, <1>6, RingSize
  <2>4. QED
    BY <1>4, <2>2, <2>3, BehindIsOld
<1>7. QED
  BY <1>5, <1>6

(* A packet from the network, whether processed, buffered, old or refused. *)
LEMMA ReceiveReliableStep ==
    ASSUME IInv, SpreadOK, TypeOK', NEW p \in wire, NEW keep \in BOOLEAN,
           ReceiveReliable(p, keep)
    PROVE  IInv'
<1> DEFINE inWindow == seqnum_in_window(p.seq, next_incoming_seqnum, RW)
<1>1. p \in Underway
  BY DEF Underway
<1>2. inWindow <=> p.n > Len(delivered)
  BY <1>1, WindowIsAhead
<1>3. wire' \subseteq wire /\ acks' \subseteq acks \cup {p} /\ UNCHANGED sender
  BY PutAddsAtMost DEF ReceiveReliable
<1>4. CASE inWindow /\ p.seq = next_incoming_seqnum
  <2>1. Process(p)
    BY <1>4 DEF ReceiveReliable, RW
  <2>2. QED
    BY <1>1, <1>3, <1>4, <2>1, ProcessStep
<1>5. CASE ~ (inWindow /\ p.seq = next_incoming_seqnum)
  <2>1. \/ /\ inWindow
           /\ p.seq # next_incoming_seqnum
           /\ incoming_reliables' = BufferedIncoming(p)
           /\ UNCHANGED << next_incoming_seqnum, delivered >>
        \/ /\ ~ inWindow
           /\ UNCHANGED receiver
    BY <1>5 DEF ReceiveReliable, RW
  <2>2. UNCHANGED << log, next_outgoing_seqnum, queued_reliables,
                     outgoing_reliables_sent, life, next_incoming_seqnum, delivered >>
    BY <1>3, <2>1 DEF sender, receiver
  <2>3. /\ incoming_reliables \subseteq incoming_reliables'
        /\ \A q \in incoming_reliables' :
              q \in incoming_reliables \/ (q = p /\ p.n > Len(delivered))
    BY <1>2, <2>1 DEF BufferedIncoming, receiver
  <2>4. p.n <= Len(delivered) \/ p.n \in Ns(incoming_reliables')
    <3>1. CASE inWindow
      <4>1. Insertable(p.seq, next_incoming_seqnum)
        BY <1>5, <3>1 DEF Insertable, RW
      <4>2. incoming_reliables' = BufferedIncoming(p)
        BY <2>1, <3>1
      <4>3. \A q \in incoming_reliables : q.seq = p.seq => q.n = p.n
        <5> TAKE q \in incoming_reliables
        <5>1. q \in Underway /\ next_outgoing_seqnum \in SeqNums
          BY IInvFacts DEF Underway, TypeOK
        <5>2. QED
          BY <1>1, <5>1, IInvFacts, SameSeqSamePlace
      <4>4. QED
        BY <4>1, <4>2, <4>3 DEF BufferedIncoming, Ns
    <3>2. CASE ~ inWindow
      BY <1>1, <1>2, <3>2, IInvFacts
    <3>3. QED
      BY <3>1, <3>2
  <2>5. Underway' \subseteq Underway
    BY <1>1, <1>3, <2>2, <2>3 DEF Underway
  <2>6. \A q \in Underway' : Placed(q)'
    BY <2>2, <2>5 DEF IInv, Placed
  <2>7. QueueOrder'
    BY <2>2, <2>5 DEF IInv, QueueOrder, Placed
  <2>8. ReceiverPlace' /\ InOrder'
    BY <2>2, <2>3 DEF IInv, ReceiverPlace, InOrder
  <2>9. Ns(incoming_reliables) \subseteq Ns(incoming_reliables')
    BY <2>3 DEF Ns
  <2>10. NoLoss'
    <3> SUFFICES ASSUME life # "deleted", NEW n \in 1 .. Len(log)
                 PROVE  \/ n <= Len(delivered)
                        \/ n \in Ns(incoming_reliables')
                        \/ n \in Ns(Queued) \cup Ns(outgoing_reliables_sent)
      BY <2>2 DEF NoLoss, Ns, Queued
    <3>1. QED
      BY <2>9 DEF IInv, NoLoss
  <2>11. AckedIsHeld'
    <3> SUFFICES ASSUME NEW a \in acks'
                 PROVE  a.n <= Len(delivered) \/ a.n \in Ns(incoming_reliables')
      BY <2>2 DEF AckedIsHeld, Ns
    <3>1. CASE a = p
      BY <2>4, <3>1
    <3>2. CASE a \in acks
      BY <2>9, <3>2 DEF IInv, AckedIsHeld
    <3>3. QED
      BY <1>3, <3>1, <3>2
  <2>12. QED
    BY <2>6, <2>7, <2>8, <2>10, <2>11 DEF IInv
<1>6. QED
  BY <1>4, <1>5

(* A control packet takes the next number; it goes to the outgoing     *)
(* list at once, past the queue, or to the end of the queue.               *)
LEMMA ControlStep ==
    ASSUME IInv, TypeOK', NEW control \in Payload, RawSendAsPacket(control), SpreadOK'
    PROVE  IInv'
<1> DEFINE p == Numbered(<<control>>)[1]
           next == U16(next_outgoing_seqnum + 1)
<1>1. /\ <<control>> \in Seq(Payload) /\ Len(<<control>>) = 1
      /\ Len(<<control>>) \in 1 .. RW - 1 /\ 1 \in 1 .. Len(<<control>>)
      /\ Number(<<control>>)
  BY ControlType, RingSize DEF RawSendAsPacket
<1>2. UNCHANGED << life, delivered, next_incoming_seqnum, incoming_reliables, receiver >>
  BY DEF RawSendAsPacket, receiver
<1>3. /\ Len(log') = Len(log) + 1
      /\ \A q \in Packet : Placed(q) /\ Len(log) + 1 + 1 - q.n < RW => Placed(q)'
      /\ \A q \in outgoing_reliables_sent : Placed(q)'
      /\ \A q \in incoming_reliables : Placed(q)'
      /\ \A i \in 1 .. Len(queued_reliables) : \A q :
            q = queued_reliables[i] => Placed(q)'
      /\ ReceiverPlace'
  BY <1>1, <1>2, NumberStep
<1>4. TypeOK /\ next_outgoing_seqnum' = next
  BY <1>1, IInvFacts DEF Number
<1>5. /\ p \in Packet /\ p.n = Len(log) + 1
      /\ \A q : q = p => Placed(q)'
  BY <1>1, <1>4, NumberedType, NumberedArePlaced
<1>6. /\ \/ /\ outgoing_reliables_sent' = BufferedSent(p, next)
            /\ wire' \subseteq Alive(wire, Len(log) + 1) \cup {p}
            /\ queued_reliables' = queued_reliables
         \/ /\ queued_reliables' = Append(queued_reliables, p)
            /\ wire' = Alive(wire, Len(log) + 1)
            /\ outgoing_reliables_sent' = outgoing_reliables_sent
      /\ acks' = Alive(acks, Len(log) + 1)
  BY PutAddsAtMost DEF RawSendAsPacket
<1>7. /\ Len(log) \in Nat /\ Len(delivered) \in Nat /\ Len(delivered) <= Len(log)
      /\ queued_reliables \in Seq(Packet)
  BY IInvFacts DEF TypeOK
<1> HIDE DEF p, next
<1>8. outgoing_reliables_sent' \in
          {outgoing_reliables_sent, outgoing_reliables_sent \cup {p}}
  BY <1>6 DEF BufferedSent
<1>9. Underway' \subseteq Underway \cup {p}
  BY <1>2, <1>6, <1>8, AliveKeeps DEF Underway
<1>10. \A q \in Underway' : Placed(q)'
  <2> TAKE q \in Underway'
  <2>1. CASE q = p
    BY <1>5, <2>1
  <2>2. CASE q \in outgoing_reliables_sent \cup incoming_reliables
    BY <1>3, <2>2
  <2>3. CASE q \in Alive(wire, Len(log) + 1) \cup Alive(acks, Len(log) + 1)
    <3>1. q \in Underway /\ q \in Packet /\ Placed(q)
      BY <2>3, AliveKeeps, IInvFacts DEF Underway, IInv
    <3>2. Len(log) + 1 + 1 - q.n < RW
      BY <2>3, AliveKeeps DEF RW
    <3>3. QED
      BY <1>3, <3>1, <3>2
  <2>4. QED
    BY <1>2, <1>6, <1>8, <2>1, <2>2, <2>3 DEF Underway
<1>11. ASSUME outgoing_reliables_sent' = BufferedSent(p, next),
              queued_reliables' = queued_reliables
       PROVE  QueueOrder' /\ NoLoss'
  <2>1. \A q \in outgoing_reliables_sent : q.seq # p.seq
    <3> SUFFICES ASSUME NEW q \in outgoing_reliables_sent, q.seq = p.seq PROVE FALSE
      OBVIOUS
    <3>1. q \in Underway
      BY DEF Underway
    <3>2. Dist(q.seq, next) = Len(log) + 1 + 1 - q.n
      BY <1>3, <1>4 DEF Placed
    <3>3. Dist(p.seq, next) = Len(log) + 1 + 1 - p.n
      BY <1>3, <1>4, <1>5 DEF Placed
    <3>4. q.n \in 1 .. Len(log)
      BY <3>1, IInvFacts
    <3>5. QED
      BY <1>5, <1>7, <3>2, <3>3, <3>4
  <2>2. Dist(p.seq, next) \in 1 .. RW - 1
    <3>1. Dist(p.seq, next) = Len(log) + 1 + 1 - p.n
      BY <1>3, <1>4, <1>5 DEF Placed
    <3>2. QED
      BY <1>5, <1>7, <3>1, RingSize
  <2>3. next \in SeqNums
    BY <1>4 DEF TypeOK
  <2>4. outgoing_reliables_sent' = outgoing_reliables_sent \cup {p}
    BY <1>5, <1>11, <2>1, <2>2, <2>3, SentTakes
  <2>5. QueueOrder'
    <3>1. \A i \in 1 .. Len(queued_reliables) : queued_reliables[i].n # p.n
      BY <1>5, <1>7, IInvFacts
    <3>2. QED
      BY <1>2, <1>3, <1>9, <1>11, <3>1 DEF IInv, QueueOrder
  <2>6. NoLoss'
    <3> SUFFICES ASSUME life # "deleted", NEW n \in 1 .. Len(log')
                 PROVE  \/ n <= Len(delivered)
                        \/ n \in Ns(incoming_reliables)
                        \/ n \in Ns(Queued)
                        \/ n \in Ns(outgoing_reliables_sent')
      BY <1>2, <1>11 DEF NoLoss, Ns, Queued
    <3>1. CASE n = p.n
      BY <2>4, <3>1 DEF Ns
    <3>2. CASE n # p.n
      <4>1. n \in 1 .. Len(log)
        BY <1>3, <1>5, <1>7, <3>2
      <4>2. QED
        BY <2>4, <4>1 DEF IInv, NoLoss, Ns
    <3>3. QED
      BY <3>1, <3>2
  <2>7. QED
    BY <2>5, <2>6
<1>12. ASSUME queued_reliables' = Append(queued_reliables, p),
              outgoing_reliables_sent' = outgoing_reliables_sent,
              wire' = Alive(wire, Len(log) + 1)
       PROVE  QueueOrder' /\ NoLoss'
  <2>1. /\ Len(queued_reliables') = Len(queued_reliables) + 1
        /\ Len(queued_reliables) \in Nat
        /\ \A i \in 1 .. Len(queued_reliables) : queued_reliables'[i] = queued_reliables[i]
        /\ queued_reliables'[Len(queued_reliables) + 1] = p
    BY <1>5, <1>7, <1>12
  <2>2. Underway' \subseteq Underway
    BY <1>2, <1>6, <1>12, AliveKeeps DEF Underway
  <2>3. ASSUME NEW i \in 1 .. Len(queued_reliables')
        PROVE  /\ \A q : q = queued_reliables'[i] => Placed(q)'
               /\ queued_reliables'[i].n > Len(delivered)
               /\ \A q \in Underway' : q.n # queued_reliables'[i].n
    <3>1. CASE i \in 1 .. Len(queued_reliables)
      BY <1>3, <2>1, <2>2, <3>1, IInvFacts
    <3>2. CASE i = Len(queued_reliables) + 1
      <4>1. \A q \in Underway : q.n # p.n
        BY <1>5, <1>7, IInvFacts
      <4>2. QED
        BY <1>5, <1>7, <2>1, <2>2, <3>2, <4>1
    <3>3. QED
      BY <2>1, <3>1, <3>2
  <2>4. ASSUME NEW i \in 1 .. Len(queued_reliables'),
               NEW j \in 1 .. Len(queued_reliables'), i < j
        PROVE  queued_reliables'[i].n < queued_reliables'[j].n
    <3>1. CASE j \in 1 .. Len(queued_reliables)
      BY <2>1, <2>4, <3>1 DEF IInv, QueueOrder
    <3>2. CASE j = Len(queued_reliables) + 1
      <4>1. i \in 1 .. Len(queued_reliables)
        BY <2>1, <2>4, <3>2
      <4>2. queued_reliables[i].n \in 1 .. Len(log)
        BY <4>1, IInvFacts
      <4>3. QED
        BY <1>5, <1>7, <2>1, <3>2, <4>1, <4>2
    <3>3. QED
      BY <2>1, <3>1, <3>2
  <2>5. QueueOrder'
    BY <1>2, <2>3, <2>4 DEF QueueOrder
  <2>6. NoLoss'
    <3> SUFFICES ASSUME life # "deleted", NEW n \in 1 .. Len(log')
                 PROVE  \/ n <= Len(delivered)
                        \/ n \in Ns(incoming_reliables)
                        \/ n \in Ns(Queued)'
                        \/ n \in Ns(outgoing_reliables_sent)
      BY <1>2, <1>12 DEF NoLoss, Ns
    <3>1. CASE n = p.n
      <4>1. \E i \in 1 .. Len(queued_reliables') : queued_reliables'[i].n = n
        BY <2>1, <3>1
      <4>2. QED
        BY <4>1, QueuedMembersPrime
    <3>2. CASE n # p.n
      <4>1. n \in 1 .. Len(log)
        BY <1>3, <1>5, <1>7, <3>2
      <4>2. n \in Ns(Queued) => n \in Ns(Queued)'
        <5> SUFFICES ASSUME NEW i \in 1 .. Len(queued_reliables),
                            queued_reliables[i].n = n
                     PROVE  n \in Ns(Queued)'
          BY <1>4, QueuedMembers
        <5>1. i \in 1 .. Len(queued_reliables') /\ queued_reliables'[i].n = n
          BY <2>1
        <5>2. QED
          BY <5>1, QueuedMembersPrime
      <4>3. QED
        BY <4>1, <4>2 DEF IInv, NoLoss
    <3>3. QED
      BY <3>1, <3>2
  <2>7. QED
    BY <2>5, <2>6
<1>13. QueueOrder' /\ NoLoss'
  BY <1>6, <1>11, <1>12
<1>14. InOrder' /\ AckedIsHeld'
  BY <1>2, <1>6, AliveKeeps DEF IInv, InOrder, AckedIsHeld, Ns
<1>15. QED
  BY <1>3, <1>10, <1>13, <1>14 DEF IInv

-----------------------------------------------------------------------------
(* Safety *)

(* Every step of the channel keeps the invariant.                          *)
LEMMA IInvStep ==
    ASSUME IInv, [Next]_vars, SpreadOK, SpreadOK'
    PROVE  IInv'
<1>1. TypeOK'
  BY TypeStep, IInvFacts
<1> DEFINE Quiet ==
               /\ UNCHANGED << log, next_outgoing_seqnum, queued_reliables,
                               outgoing_reliables_sent, receiver >>
               /\ life' # "deleted" => life # "deleted"
               /\ wire' \subseteq Underway /\ acks' \subseteq acks
<1>2. Quiet => IInv'
  BY <1>1, QuietStep
<1>3. ASSUME NEW k \in ChunkCounts, PutReliableSendCommand(k) PROVE IInv'
  <2> DEFINE c == [id |-> Len(submitted) + 1, size |-> k]
  <2>1. c \in Command
    BY IInvFacts DEF Command, TypeOK
  <2>2. CASE ProcessReliableSendCommand(c)
    <3>1. UNCHANGED << life, outgoing_reliables_sent, receiver >>
      BY <1>3 DEF PutReliableSendCommand
    <3> HIDE DEF c
    <3>2. QED
      BY <1>1, <2>1, <2>2, <3>1, ProcessCommandStep
  <2>3. CASE ~ ProcessReliableSendCommand(c)
    BY <1>2, <1>3, <2>3 DEF PutReliableSendCommand, Underway
  <2>4. QED
    BY <2>2, <2>3
<1>4. ASSUME RunCommandQueues PROVE IInv'
  <2>1. CASE ProcessReliableSendCommand(Head(queued_commands))
    <3>1. Head(queued_commands) \in Command
      BY <1>4, IInvFacts DEF RunCommandQueues, TypeOK
    <3>2. UNCHANGED << life, outgoing_reliables_sent, receiver >>
      BY <1>4 DEF RunCommandQueues
    <3>3. QED
      BY <1>1, <2>1, <3>1, <3>2, ProcessCommandStep
  <2>2. CASE ~ ProcessReliableSendCommand(Head(queued_commands))
    BY <1>2, <1>4, <2>2 DEF RunCommandQueues, Underway
  <2>3. QED
    BY <2>1, <2>2
<1>5. ASSUME NEW p \in outgoing_reliables_sent, Resend(p) PROVE IInv'
  <2>1. wire' \subseteq Underway
    BY <1>5, PutAddsAtMost DEF Resend, Transmit, Underway
  <2>2. QED
    BY <1>2, <1>5, <2>1 DEF Resend, sender
<1>6. ASSUME ResendOne PROVE IInv'
  <2>1. wire' \subseteq Underway
    BY <1>6, PutAddsAtMost DEF ResendOne, Transmit, Underway
  <2>2. QED
    BY <1>2, <1>6, <2>1 DEF ResendOne, sender
<1>7. ASSUME \/ \E d \in WindowSteps : UpdateTimers(d)
             \/ SetFullyOpen
             \/ DisconnectPeer
      PROVE  IInv'
  BY <1>2, <1>7 DEF UpdateTimers, SetFullyOpen, DisconnectPeer, Underway
<1>8. ASSUME Lose PROVE IInv'
  BY <1>2, <1>8 DEF Lose, sender, Underway
<1>9. ASSUME UNCHANGED vars PROVE IInv'
  BY <1>2, <1>9 DEF vars, sender, Underway
<1>10. ASSUME Unbuffer PROVE IInv'
  <2>1. PICK p \in incoming_reliables :
            /\ p.seq = next_incoming_seqnum
            /\ Process(p)
            /\ UNCHANGED << sender, wire, acks >>
    BY <1>10 DEF Unbuffer
  <2>2. p \in Underway /\ wire' \subseteq wire /\ acks' \subseteq acks \cup {p}
    BY <2>1 DEF Underway
  <2>3. QED
    BY <1>1, <2>1, <2>2, ProcessStep
<1>11. QED
  BY <1>1, <1>3, <1>4, <1>5, <1>6, <1>7, <1>8, <1>9, <1>10, SendQueuedStep,
     ControlStep, ControlType, ReceiveAckStep, DeletePeerStep, ReceiveReliableStep
     DEF Next, CreatePeer, Ping

(* As long as the numbering stays less than half the ring ahead of the     *)
(* receiver, the channel delivers in order and exactly once (InOrder),     *)
(* forgets nothing (NoLoss), and acknowledges only what it has             *)
(* (AckedIsHeld): the promises of internal.h:86-89, for every window.      *)
THEOREM ChannelSafe == Spec /\ []SpreadOK => [](InOrder /\ NoLoss /\ AckedIsHeld)
<1>1. Init => IInv
  BY InitIInv
<1>2. IInv /\ [Next]_vars /\ SpreadOK /\ SpreadOK' => IInv'
  BY IInvStep
<1>3. IInv => InOrder /\ NoLoss /\ AckedIsHeld
  BY DEF IInv
<1>4. QED
  BY <1>1, <1>2, <1>3, PTL DEF Spec

(* No packet that has a number is forgotten by both ends before it is      *)
(* processed, whatever ACKs, resends and duplicates there are.             *)
COROLLARY NoLossHolds == Spec /\ []SpreadOK => []NoLoss
BY ChannelSafe, PTL

(* An ACK under way is for a packet the receiver has processed or holds.   *)
COROLLARY AckedIsHeldHolds == Spec /\ []SpreadOK => []AckedIsHeld
BY ChannelSafe, PTL

-----------------------------------------------------------------------------
(* How far the numbering runs ahead of the receiver *)

\* The pings numbered after packet n.
PingsAfter(n) == {m \in n + 1 .. Len(log) : log[m] = PING}

(* A ping may be sent ahead of packets that wait in queued_reliables.  The *)
(* code pings every 5 s (impl.cpp, threads.cpp:193) and sends from the     *)
(* queue at every turn: a packet has few pings after it before it is sent. *)
PingsAtMost(P) ==
    \A i \in 1 .. Len(queued_reliables) :
        Cardinality(PingsAfter(queued_reliables[i].n)) <= P

\* What is numbered after a packet that waits is a ping or waits as well.
Covered ==
    \A i \in 1 .. Len(queued_reliables) : \A m \in queued_reliables[i].n .. Len(log) :
        log[m] = PING \/ \E j \in 1 .. Len(queued_reliables) : queued_reliables[j].n = m

\* How many numbers are given before the first packet of them is sent, but for
\* pings: one command on top of what may be queued for another to be taken.
Ahead(K) == MaxPacketsRequeued + MAX_RELIABLE_WINDOW_SIZE_SEND + K

WaitingNear(K) ==
    \A i \in 1 .. Len(queued_reliables) :
        Len(log) + 1 - queued_reliables[i].n
            <= Ahead(K) + Cardinality(PingsAfter(queued_reliables[i].n))

\* How far behind the counter the first packet not received is.
Reach(K, P) == Ahead(K) + P + 2

SentNear(K, P) ==
    \A p \in outgoing_reliables_sent : Len(log) + 1 - p.n <= Reach(K, P)

\* While a packet can be processed the receiver takes no other: what it holds
\* came when the packet next in order had not been received.
HeldNear(K, P) ==
    life # "deleted" =>
        \A p \in incoming_reliables : p.n - Len(delivered) <= Reach(K, P)

SpreadInv(K, P) ==
    /\ Covered
    /\ WaitingNear(K)
    /\ SentNear(K, P)
    /\ HeldNear(K, P)
    /\ Len(log) - Len(delivered) <= 2 * Reach(K, P)

\* The ring is wide against what may be under way at once, for commands of at
\* most K chunks and P pings ahead of a packet that waits.
RingIsWide(K, P) ==
    /\ K \in Nat /\ P \in Nat
    /\ ChunkCounts \subseteq 1 .. K
    /\ 2 * Reach(K, P) < MAX_RELIABLE_WINDOW_SIZE

(* The numbers the assumption speaks of are natural numbers.               *)
LEMMA SpreadNumbers ==
    ASSUME NEW K, NEW P, RingIsWide(K, P)
    PROVE  /\ K \in Nat /\ P \in Nat /\ RW \in Nat
           /\ MaxPacketsRequeued \in Nat /\ MAX_RELIABLE_WINDOW_SIZE_SEND \in Nat
           /\ Ahead(K) \in Nat /\ Reach(K, P) \in Nat
           /\ Ahead(K) = MaxPacketsRequeued + MAX_RELIABLE_WINDOW_SIZE_SEND + K
           /\ Reach(K, P) = Ahead(K) + P + 2
           /\ 2 * Reach(K, P) < RW
BY ChannelAssumption, WindowAssumption DEF RingIsWide, Ahead, Reach, RW

(* The pings after a packet are finitely many.                             *)
LEMMA PingsCounted ==
    ASSUME Len(log) \in Nat, NEW n \in Nat
    PROVE  IsFiniteSet(PingsAfter(n)) /\ Cardinality(PingsAfter(n)) \in Nat
<1>1. IsFiniteSet(n + 1 .. Len(log))
  BY FS_Interval
<1>2. PingsAfter(n) \in SUBSET (n + 1 .. Len(log))
  BY DEF PingsAfter
<1>3. QED
  BY <1>1, <1>2, FS_Subset, FS_CardinalityType

(* The window test, in places of the log: what waits for its ACK is at     *)
(* most the window and two behind the counter when numbers are given.      *)
LEMMA SentAfterNumber ==
    ASSUME IInv, NEW k \in 1 .. RW - 1, CanNumber(k), NEW p \in outgoing_reliables_sent
    PROVE  Len(log) + k + 1 - p.n <= MAX_RELIABLE_WINDOW_SIZE_SEND + 2
<1>1. \A q \in outgoing_reliables_sent : Dist(q.seq, next_outgoing_seqnum) < RW
  BY DEF IInv, Underway, Placed, RW
<1>2. /\ TypeOK /\ Len(log) \in Nat /\ p.n \in Nat
      /\ Dist(p.seq, next_outgoing_seqnum) = Len(log) + 1 - p.n
  BY IInvFacts DEF Underway
<1>3. Dist(p.seq, next_outgoing_seqnum) + k <= MAX_RELIABLE_WINDOW_SIZE_SEND + 2
  BY <1>1, <1>2, WindowReach
<1>4. k \in Nat /\ MAX_RELIABLE_WINDOW_SIZE_SEND \in Nat
  BY ChannelAssumption, RingSize
<1>5. QED
  BY <1>2, <1>3, <1>4

(* A set of natural numbers has a least one.                               *)
LEMMA LeastNumber ==
    ASSUME NEW S \in SUBSET Nat, S # {}
    PROVE  \E x \in S : \A y \in S : x <= y
<1>1. PICK x \in S : \A y \in S : ~ (<<y, x>> \in OpToRel(<, Nat))
  BY NatLessThanWellFounded, WFMin
<1>2. \A y \in S : x <= y
  <2> SUFFICES ASSUME NEW y \in S PROVE x <= y
    OBVIOUS
  <2>1. y \in Nat /\ x \in Nat /\ ~ (y < x)
    BY <1>1 DEF OpToRel
  <2>2. QED
    BY <2>1
<1>3. QED
  BY <1>2

(* The first packet not received is with the sender, and the receiver      *)
(* holds all before it; if there is none it holds all there are.           *)
LEMMA FirstMissing ==
    ASSUME IInv, NEW D \in Nat, life # "deleted",
           \A p \in incoming_reliables : p.n - Len(delivered) <= D
    PROVE  \/ Len(log) - Len(delivered) <= D
           \/ \E f \in Ns(Queued) \cup Ns(outgoing_reliables_sent) :
                 f \in 1 .. Len(log) /\ f - 1 - Len(delivered) <= D
<1> DEFINE d == Len(delivered)
           Missing == {n \in Nat : d < n /\ n <= Len(log) /\ n \notin Ns(incoming_reliables)}
<1>1. Len(log) \in Nat /\ d \in Nat /\ d <= Len(log)
  BY IInvFacts
<1>2. \A n \in Nat : d < n /\ n <= Len(log) /\ n \notin Missing => n - d <= D
  BY DEF Ns
<1>3. CASE Missing = {}
  <2>1. CASE d = Len(log)
    BY <1>1, <2>1
  <2>2. CASE d # Len(log)
    BY <1>1, <1>2, <1>3, <2>2
  <2>3. QED
    BY <2>1, <2>2
<1>4. CASE Missing # {}
  <2>1. PICK f \in Missing : \A y \in Missing : f <= y
    <3> HIDE DEF Missing
    <3>1. Missing \in SUBSET Nat
      BY DEF Missing
    <3>2. QED
      BY <1>4, <3>1, LeastNumber
  <2>2. f \in 1 .. Len(log) /\ f > d /\ f \notin Ns(incoming_reliables)
    BY <1>1, <2>1
  <2>3. f \in Ns(Queued) \cup Ns(outgoing_reliables_sent)
    BY <1>1, <2>2 DEF IInv, NoLoss
  <2>4. f - 1 - d <= D
    <3>1. CASE f = d + 1
      BY <1>1, <3>1
    <3>2. CASE f # d + 1
      <4>1. f - 1 \in Nat /\ d < f - 1 /\ f - 1 <= Len(log) /\ f - 1 \notin Missing
        BY <1>1, <2>1, <2>2, <3>2
      <4>2. QED
        BY <1>2, <4>1
    <3>3. QED
      BY <3>1, <3>2
  <2>5. QED
    BY <2>2, <2>3, <2>4
<1>5. QED
  BY <1>3, <1>4

(* A receiver that cannot process has not received the packet next in      *)
(* order, and so holds none that is far ahead.                             *)
LEMMA BlockedReceiver ==
    ASSUME NEW K, NEW P, RingIsWide(K, P), IInv, SpreadInv(K, P), PingsAtMost(P),
           life # "deleted", ~ CanUnbuffer
    PROVE  Len(log) - Len(delivered) <= Reach(K, P)
<1> DEFINE f == Len(delivered) + 1
<1>1. Len(log) \in Nat /\ Len(delivered) \in Nat /\ Len(delivered) <= Len(log) /\ Reach(K, P) \in Nat
  BY IInvFacts, SpreadNumbers
<1>2. f \notin Ns(incoming_reliables)
  <2> SUFFICES ASSUME NEW p \in incoming_reliables, p.n = f PROVE FALSE
    BY DEF Ns
  <2>1. p.seq = next_incoming_seqnum
    BY ExpectedIsNext DEF Underway
  <2>2. QED
    BY <2>1 DEF CanUnbuffer
<1>3. CASE f > Len(log)
  BY <1>1, <1>3
<1>4. CASE f \in Ns(Queued)
  <2>1. PICK i \in 1 .. Len(queued_reliables) : queued_reliables[i].n = f
    BY <1>4, IInvFacts, QueuedMembers
  <2>2. Cardinality(PingsAfter(f)) \in Nat
    <3>1. f \in Nat
      BY <1>1
    <3> HIDE DEF f
    <3>2. QED
      BY <1>1, <3>1, PingsCounted
  <2>3. Cardinality(PingsAfter(f)) <= P
    BY <2>1 DEF PingsAtMost
  <2>4. Len(log) + 1 - f <= Ahead(K) + Cardinality(PingsAfter(f))
    BY <2>1 DEF SpreadInv, WaitingNear
  <2>5. /\ Len(log) + 1 - f <= Reach(K, P)
    <3>1. Ahead(K) \in Nat /\ P \in Nat /\ Reach(K, P) = Ahead(K) + P + 2 /\ f \in Nat
      BY <1>1, SpreadNumbers
    <3> HIDE DEF f
    <3>2. QED
      BY <1>1, <2>2, <2>3, <2>4, <3>1
  <2>6. QED
    BY <1>1, <2>5
<1>5. CASE f \in Ns(outgoing_reliables_sent)
  BY <1>1, <1>5 DEF SpreadInv, SentNear, Ns
<1>6. QED
  BY <1>1, <1>2, <1>3, <1>4, <1>5 DEF IInv, NoLoss

(* What waits covers, with the pings, all numbers up to the counter: there *)
(* are no more of them than packets that wait and pings after the first.   *)
LEMMA WaitingCounted ==
    ASSUME IInv, Covered, NEW i \in 1 .. Len(queued_reliables)
    PROVE  Len(log) + 1 - queued_reliables[i].n
             <= Len(queued_reliables) + Cardinality(PingsAfter(queued_reliables[i].n))
<1> DEFINE n == queued_reliables[i].n
           I == 1 .. Len(queued_reliables)
           f == [j \in I |-> queued_reliables[j].n]
           A == {f[j] : j \in I}
<1>1. /\ TypeOK /\ Len(queued_reliables) \in Nat /\ Len(log) \in Nat
      /\ n \in 1 .. Len(log)
  BY IInvFacts DEF TypeOK
<1> HIDE DEF n
<1>2. IsFiniteSet(I) /\ Cardinality(I) = Len(queued_reliables)
  <2>1. /\ IsFiniteSet(I)
        /\ Cardinality(I) = IF 1 > Len(queued_reliables) THEN 0
                             ELSE Len(queued_reliables) - 1 + 1
    BY <1>1, FS_Interval
  <2> HIDE DEF I
  <2>2. QED
    BY <1>1, <2>1
<1>3. IsFiniteSet(A) /\ Cardinality(A) <= Len(queued_reliables) /\ Cardinality(A) \in Nat
  <2>1. f \in Surjection(I, A)
    BY DEF Surjection
  <2> HIDE DEF f, A, I
  <2>2. QED
    BY <1>2, <2>1, FS_Surjection, FS_CardinalityType
<1>4. IsFiniteSet(PingsAfter(n)) /\ Cardinality(PingsAfter(n)) \in Nat
  BY <1>1, PingsCounted
<1>5. n .. Len(log) \subseteq A \cup PingsAfter(n)
  <2> SUFFICES ASSUME NEW m \in n .. Len(log), m \notin A PROVE m \in PingsAfter(n)
    OBVIOUS
  <2>1. n \in A
    BY DEF n
  <2>2. log[m] = PING
    BY DEF Covered, n
  <2>3. QED
    BY <1>1, <2>1, <2>2 DEF PingsAfter
<1> HIDE DEF A
<1>6. /\ IsFiniteSet(A \cup PingsAfter(n))
      /\ Cardinality(A \cup PingsAfter(n)) <= Cardinality(A) + Cardinality(PingsAfter(n))
  <2>1. IsFiniteSet(A \cap PingsAfter(n))
    BY <1>3, FS_Subset
  <2>2. Cardinality(A \cap PingsAfter(n)) \in Nat
    BY <2>1, FS_CardinalityType
  <2>3. /\ IsFiniteSet(A \cup PingsAfter(n))
        /\ Cardinality(A \cup PingsAfter(n)) =
              Cardinality(A) + Cardinality(PingsAfter(n)) - Cardinality(A \cap PingsAfter(n))
    BY <1>3, <1>4, FS_Union
  <2>4. QED
    BY <1>3, <1>4, <2>2, <2>3
<1>7. Cardinality(n .. Len(log)) = Len(log) - n + 1
  BY <1>1, FS_Interval
<1>8. Cardinality(n .. Len(log)) <= Cardinality(A \cup PingsAfter(n))
  BY <1>5, <1>6, FS_Subset
<1>9. Cardinality(A \cup PingsAfter(n)) \in Nat
  BY <1>6, FS_CardinalityType
<1>10. QED
  BY <1>1, <1>3, <1>4, <1>6, <1>7, <1>8, <1>9 DEF n

(* Steps that give no number: of what waits at most the head goes, to the  *)
(* outgoing list, and the receiver only goes on.                           *)
LEMMA SpreadStay ==
    ASSUME NEW K, NEW P, RingIsWide(K, P), IInv, SpreadInv(K, P), PingsAtMost(P),
           log' = log,
           queued_reliables' \in {queued_reliables, Tail(queued_reliables), <<>>},
           outgoing_reliables_sent' \subseteq outgoing_reliables_sent \cup Queued,
           Len(delivered') \in Nat, Len(delivered) <= Len(delivered'),
           life' # "deleted" =>
               /\ life # "deleted"
               /\ \A p \in incoming_reliables' :
                     p \in incoming_reliables \/ p.n - Len(delivered') <= Reach(K, P)
    PROVE  SpreadInv(K, P)'
<1> DEFINE q == queued_reliables
<1>1. /\ TypeOK /\ Len(log) \in Nat /\ Len(delivered) \in Nat /\ q \in Seq(Packet)
      /\ \A i \in 1 .. Len(q) : q[i] \in Packet /\ q[i].n \in 1 .. Len(log)
      /\ \A i, j \in 1 .. Len(q) : i < j => q[i].n < q[j].n
  BY IInvFacts DEF TypeOK, IInv, QueueOrder
<1>2. /\ K \in Nat /\ P \in Nat /\ Ahead(K) \in Nat /\ Reach(K, P) \in Nat
      /\ Reach(K, P) = Ahead(K) + P + 2
  BY SpreadNumbers
<1>3. PICK s \in {0, 1} :
          \/ Len(q') = 0
          \/ /\ Len(q') = Len(q) - s
             /\ \A i \in 1 .. Len(q') : i + s \in 1 .. Len(q) /\ q'[i] = q[i + s]
  <2>1. CASE q' = q
    BY <1>1, <2>1
  <2>2. CASE q' = <<>>
    BY <2>2
  <2>3. CASE q' = Tail(q) /\ q # <<>>
    <3>1. Len(q') = Len(q) - 1 /\ Len(q) \in Nat /\ \A i \in 1 .. Len(q') : q'[i] = q[i + 1]
      BY <1>1, <2>3
    <3>2. QED
      BY <3>1
  <2>4. CASE q = <<>> /\ q' = Tail(q)
    BY <1>1, <2>4
  <2>5. QED
    BY <2>1, <2>2, <2>3, <2>4
<1>4. \A n : PingsAfter(n)' = PingsAfter(n)
  BY DEF PingsAfter
<1>5. Covered'
  <2> SUFFICES ASSUME NEW i \in 1 .. Len(q'), NEW m \in q'[i].n .. Len(log), log[m] # PING
               PROVE  \E j \in 1 .. Len(q') : q'[j].n = m
    BY DEF Covered
  <2>1. /\ Len(q') = Len(q) - s /\ i + s \in 1 .. Len(q) /\ q'[i] = q[i + s]
        /\ Len(q) \in Nat /\ i \in Nat
    BY <1>1, <1>3
  <2>2. PICK j \in 1 .. Len(q) : q[j].n = m
    BY <2>1 DEF SpreadInv, Covered
  <2>3. ~ j < i + s
    <3>1. q[i + s].n \in Nat /\ m \in Nat /\ q[i + s].n <= m
      BY <1>1, <2>1
    <3>2. QED
      BY <1>1, <2>1, <2>2, <3>1
  <2>4. j - s \in 1 .. Len(q') /\ (j - s) + s = j
    BY <2>1, <2>3
  <2>5. q'[j - s] = q[j]
    BY <1>3, <2>1, <2>4
  <2>6. QED
    BY <2>2, <2>4, <2>5
<1>6. WaitingNear(K)'
  <2> SUFFICES ASSUME NEW i \in 1 .. Len(q')
               PROVE  Len(log) + 1 - q'[i].n <= Ahead(K) + Cardinality(PingsAfter(q'[i].n))
    BY <1>4 DEF WaitingNear, Ahead
  <2>1. i + s \in 1 .. Len(q) /\ q'[i] = q[i + s]
    BY <1>3
  <2>2. QED
    BY <2>1 DEF SpreadInv, WaitingNear
<1>7. SentNear(K, P)'
  <2> SUFFICES ASSUME NEW p \in outgoing_reliables_sent \cup Queued
               PROVE  Len(log) + 1 - p.n <= Reach(K, P)
    BY DEF SentNear, Reach, Ahead
  <2>1. CASE p \in outgoing_reliables_sent
    BY <2>1 DEF SpreadInv, SentNear
  <2>2. CASE p \in Queued
    <3>1. PICK i \in 1 .. Len(q) : p = q[i]
      BY <1>1, <2>2 DEF Queued
    <3>2. p.n \in Nat
      BY <1>1, <3>1
    <3>3. Cardinality(PingsAfter(p.n)) \in Nat
      BY <1>1, <3>2, PingsCounted
    <3>4. Cardinality(PingsAfter(p.n)) <= P
      BY <3>1 DEF PingsAtMost
    <3>5. Len(log) + 1 - p.n <= Ahead(K) + Cardinality(PingsAfter(p.n))
      BY <3>1 DEF SpreadInv, WaitingNear
    <3>6. QED
      BY <1>1, <1>2, <3>2, <3>3, <3>4, <3>5
  <2>3. QED
    BY <2>1, <2>2
<1>8. HeldNear(K, P)'
  <2> SUFFICES ASSUME life' # "deleted", NEW p \in incoming_reliables'
               PROVE  p.n - Len(delivered') <= Reach(K, P)
    BY DEF HeldNear, Reach, Ahead
  <2>1. CASE p \in incoming_reliables
    <3>1. p.n - Len(delivered) <= Reach(K, P) /\ p.n \in Nat
      BY <2>1, IInvFacts DEF SpreadInv, HeldNear, Underway
    <3>2. QED
      BY <1>1, <1>2, <3>1
  <2>2. QED
    BY <2>1
<1>9. Len(log') - Len(delivered') <= 2 * Reach(K, P)
  BY <1>1, <1>2 DEF SpreadInv
<1>10. QED
  BY <1>5, <1>6, <1>7, <1>8, <1>9 DEF SpreadInv, Reach, Ahead

\* The same of any log and queue.
PingsIn(lg, n) == {m \in n + 1 .. Len(lg) : lg[m] = PING}

CoveredIn(lg, q) ==
    \A i \in 1 .. Len(q) : \A m \in q[i].n .. Len(lg) :
        lg[m] = PING \/ \E j \in 1 .. Len(q) : q[j].n = m

\* The queue goes from q to r when numbers are given to payloads that make
\* the log lg the log mg.
Grows(lg, mg, q, r, payloads) ==
    /\ Len(mg) = Len(lg) + Len(payloads)
    /\ \A m \in 1 .. Len(lg) : mg[m] = lg[m]
    /\ \A m \in 1 .. Len(payloads) : mg[Len(lg) + m] = payloads[m]
    /\ Len(r) \in Nat /\ Len(q) <= Len(r)
    /\ \A i \in 1 .. Len(q) : r[i] = q[i] /\ q[i].n \in 1 .. Len(lg)
    /\ \A i \in 1 .. Len(r) : i <= Len(q) \/ r[i].n \in Len(lg) + 1 .. Len(mg)
    /\ \A m \in Len(lg) + 1 .. Len(mg) :
          \/ Len(r) = 0
          \/ mg[m] = PING
          \/ \E j \in 1 .. Len(r) : r[j].n = m

(* A queue that grows so stays covered.                                    *)
LEMMA GrowsCovered ==
    ASSUME NEW lg, NEW mg, NEW q, NEW r, NEW payloads, Grows(lg, mg, q, r, payloads),
           Len(lg) \in Nat, Len(payloads) \in Nat, Len(q) \in Nat, CoveredIn(lg, q)
    PROVE  CoveredIn(mg, r)
<1> SUFFICES ASSUME NEW i \in 1 .. Len(r), NEW m \in r[i].n .. Len(mg), mg[m] # PING
             PROVE  \E j \in 1 .. Len(r) : r[j].n = m
  BY DEF CoveredIn
<1>1. CASE m \in Len(lg) + 1 .. Len(mg)
  BY <1>1 DEF Grows
<1>2. CASE ~ m \in Len(lg) + 1 .. Len(mg)
  <2>1. r[i].n \in Nat /\ Len(mg) \in Nat
    BY DEF Grows
  <2>2. m <= Len(lg) /\ m \in Int /\ r[i].n <= m
    BY <1>2, <2>1
  <2>3. i \in 1 .. Len(q) /\ r[i] = q[i]
    BY <2>1, <2>2 DEF Grows
  <2>4. m \in q[i].n .. Len(lg) /\ m \in 1 .. Len(lg)
    BY <2>1, <2>2, <2>3 DEF Grows
  <2>5. lg[m] # PING
    BY <2>4 DEF Grows
  <2>6. PICK j \in 1 .. Len(q) : q[j].n = m
    BY <2>3, <2>4, <2>5 DEF CoveredIn
  <2>7. j \in 1 .. Len(r) /\ r[j] = q[j]
    BY <2>6 DEF Grows
  <2>8. QED
    BY <2>6, <2>7
<1>3. QED
  BY <1>1, <1>2

(* A log that grows keeps its pings; a ping at its end is one more.        *)
LEMMA PingsGrow ==
    ASSUME NEW lg, NEW mg, Len(lg) \in Nat, Len(mg) \in Nat, Len(lg) <= Len(mg),
           \A m \in 1 .. Len(lg) : mg[m] = lg[m], NEW n \in Nat
    PROVE  /\ Cardinality(PingsIn(lg, n)) \in Nat /\ Cardinality(PingsIn(mg, n)) \in Nat
           /\ Cardinality(PingsIn(lg, n)) <= Cardinality(PingsIn(mg, n))
           /\ n <= Len(lg) /\ Len(mg) = Len(lg) + 1 /\ mg[Len(mg)] = PING =>
                 Cardinality(PingsIn(mg, n)) = Cardinality(PingsIn(lg, n)) + 1
<1>1. PingsIn(lg, n) \subseteq PingsIn(mg, n)
  BY DEF PingsIn
<1>2. IsFiniteSet(PingsIn(lg, n)) /\ IsFiniteSet(PingsIn(mg, n))
  <2>1. IsFiniteSet(n + 1 .. Len(mg))
    <3>1. n + 1 \in Int /\ Len(mg) \in Int
      OBVIOUS
    <3>2. QED
      BY <3>1, FS_Interval
  <2>2. PingsIn(mg, n) \in SUBSET (n + 1 .. Len(mg))
    BY DEF PingsIn
  <2>3. IsFiniteSet(PingsIn(mg, n))
    BY <2>1, <2>2, FS_Subset
  <2>4. QED
    BY <1>1, <2>3, FS_Subset
<1>3. /\ Cardinality(PingsIn(lg, n)) \in Nat /\ Cardinality(PingsIn(mg, n)) \in Nat
      /\ Cardinality(PingsIn(lg, n)) <= Cardinality(PingsIn(mg, n))
  BY <1>1, <1>2, FS_Subset, FS_CardinalityType
<1>4. ASSUME n <= Len(lg), Len(mg) = Len(lg) + 1, mg[Len(mg)] = PING
      PROVE  Cardinality(PingsIn(mg, n)) = Cardinality(PingsIn(lg, n)) + 1
  <2>1. PingsIn(mg, n) = PingsIn(lg, n) \cup {Len(mg)}
    <3>1. n + 1 .. Len(mg) = (n + 1 .. Len(lg)) \cup {Len(mg)}
      BY <1>4
    <3>2. \A m \in n + 1 .. Len(lg) : mg[m] = lg[m]
      OBVIOUS
    <3>3. QED
      BY <1>4, <3>1, <3>2 DEF PingsIn
  <2>2. Len(mg) \notin PingsIn(lg, n)
    BY <1>4 DEF PingsIn
  <2>3. QED
    BY <1>2, <2>1, <2>2, FS_AddElement
<1>5. QED
  BY <1>3, <1>4

(* Facts of numbers alone: a ping is one number further and one ping more. *)
LEMMA NearAfterPing ==
    ASSUME NEW len \in Nat, NEW n \in Nat, NEW a \in Nat, NEW c \in Nat, NEW e \in Nat,
           len + 1 - n <= a + c, e = c + 1
    PROVE  len + 1 + 1 - n <= a + e
OBVIOUS

(* What waits is not more with a command, which was let in.                *)
LEMMA NearAfterCommand ==
    ASSUME NEW len \in Nat, NEW k \in Nat, NEW n \in Nat, NEW a \in Nat, NEW w \in Nat,
           NEW c \in Nat, NEW e \in Nat, len + 1 - n <= w + c, c <= e, w + k <= a
    PROVE  len + k + 1 - n <= a + e
OBVIOUS

(* The new numbers are as near as their command is small.                  *)
LEMMA NearNew ==
    ASSUME NEW len \in Nat, NEW k \in Nat, NEW n \in len + 1 .. len + k, NEW a \in Nat,
           NEW e \in Nat, k <= a
    PROVE  len + k + 1 - n <= a + e /\ len + k + 1 - n <= a
OBVIOUS

(* What the window keeps near is near.                                     *)
LEMMA AtMostTrans ==
    ASSUME NEW len \in Nat, NEW k \in Nat, NEW n \in Nat, NEW w \in Nat, NEW reach \in Nat,
           len + k + 1 - n <= w + 2, w + 2 <= reach
    PROVE  len + k + 1 - n <= reach
OBVIOUS

(* What is ahead by little is within reach.                                *)
LEMMA AtMostReach ==
    ASSUME NEW len \in Nat, NEW k \in Nat, NEW n \in len + 1 .. len + k, NEW a \in Nat,
           NEW ps \in Nat, NEW reach, reach = a + ps + 2, NEW len2, len2 = len + k,
           len + k + 1 - n <= a
    PROVE  len2 + 1 - n <= reach
OBVIOUS

(* So is what has few pings after it.                                      *)
LEMMA NearReach ==
    ASSUME NEW len \in Nat, NEW n \in Nat, NEW a \in Nat, NEW c \in Nat, NEW ps \in Nat,
           NEW reach, reach = a + ps + 2, len + 1 - n <= a + c, c <= ps
    PROVE  len + 1 - n <= reach
OBVIOUS

(* The first packet missing is near the counter, what came near it.        *)
LEMMA MissingBounds ==
    ASSUME NEW len \in Nat, NEW d \in Nat, NEW f \in 1 .. len, NEW reach \in Nat,
           f - 1 - d <= reach, len + 1 - f <= reach, NEW d2, d2 = d
    PROVE  len - d2 <= 2 * reach
OBVIOUS


(* A receiver near the counter stays near enough.                          *)
LEMMA SumBounds ==
    ASSUME NEW len \in Nat, NEW k \in Nat, NEW d \in Nat, NEW reach \in Nat,
           len - d <= reach, k <= reach, NEW len2, len2 = len + k, NEW d2, d2 = d
    PROVE  len2 - d2 <= 2 * reach
OBVIOUS

(* Steps that give numbers: what waits for its ACK is held near by the     *)
(* window, what waits to be sent by what is admitted to the queue.         *)
LEMMA SpreadNumber ==
    ASSUME NEW K, NEW P, RingIsWide(K, P), IInv, SpreadInv(K, P), PingsAtMost(P)',
           NEW payloads \in Seq(Payload), Len(payloads) \in 1 .. RW - 1,
           Len(payloads) <= Ahead(K), Number(payloads),
           Grows(log, log', queued_reliables, queued_reliables', payloads),
           \/ Len(queued_reliables) = 0
           \/ payloads = <<PING>>
           \/ Len(queued_reliables) + Len(payloads) <= Ahead(K),
           \A p \in outgoing_reliables_sent' :
              \/ p \in outgoing_reliables_sent
              \/ p.n \in Len(log) + 1 .. Len(log) + Len(payloads),
           UNCHANGED << life, receiver >>, life # "deleted"
    PROVE  SpreadInv(K, P)' /\ SpreadOK'
<1>1. /\ TypeOK /\ Len(log) \in Nat /\ Len(delivered) \in Nat
      /\ Len(queued_reliables) \in Nat /\ Len(payloads) \in Nat /\ Len(payloads) >= 1
      /\ \A i \in 1 .. Len(queued_reliables) : queued_reliables[i].n \in 1 .. Len(log)
  <2>1. TypeOK /\ Len(log) \in Nat /\ Len(delivered) \in Nat /\ RW \in Nat
        /\ \A i \in 1 .. Len(queued_reliables) : queued_reliables[i].n \in 1 .. Len(log)
    BY IInvFacts, SpreadNumbers
  <2>2. queued_reliables \in Seq(Packet)
    BY <2>1 DEF TypeOK
  <2>3. Len(queued_reliables) \in Nat
    BY <2>2
  <2>4. QED
    BY <2>1, <2>3
<1>2. /\ Ahead(K) \in Nat /\ P \in Nat /\ Reach(K, P) \in Nat
      /\ Reach(K, P) = Ahead(K) + P + 2
      /\ MAX_RELIABLE_WINDOW_SIZE_SEND \in Nat
      /\ MAX_RELIABLE_WINDOW_SIZE_SEND + 2 <= Reach(K, P)
      /\ RW \in Nat /\ 2 * Reach(K, P) < RW
  <2>1. /\ K \in Nat /\ P \in Nat /\ Ahead(K) \in Nat /\ Reach(K, P) \in Nat
        /\ Reach(K, P) = Ahead(K) + P + 2
        /\ Ahead(K) = MaxPacketsRequeued + MAX_RELIABLE_WINDOW_SIZE_SEND + K
        /\ MaxPacketsRequeued \in Nat /\ MAX_RELIABLE_WINDOW_SIZE_SEND \in Nat
        /\ RW \in Nat /\ 2 * Reach(K, P) < RW
    BY SpreadNumbers
  <2>2. QED
    BY <2>1
<1>3. Len(log') = Len(log) + Len(payloads) /\ Len(log') \in Nat
  BY <1>1 DEF Grows
<1>4. Covered'
  <2>1. CoveredIn(log, queued_reliables)
    BY DEF SpreadInv, Covered, CoveredIn
  <2>2. CoveredIn(log', queued_reliables')
    BY <1>1, <2>1, GrowsCovered
  <2>3. QED
    BY <2>2 DEF Covered, CoveredIn
<1>5. ASSUME NEW i \in 1 .. Len(queued_reliables'), NEW n, n = queued_reliables'[i].n
      PROVE  /\ n \in 1 .. Len(log') /\ Cardinality(PingsIn(log', n)) \in Nat
             /\ Len(log) + Len(payloads) + 1 - n <= Ahead(K) + Cardinality(PingsIn(log', n))
  <2>1. CASE i \in 1 .. Len(queued_reliables)
    <3>1. n = queued_reliables[i].n /\ n \in 1 .. Len(log) /\ n \in Nat
      BY <1>1, <1>5, <2>1 DEF Grows
    <3>2. /\ Cardinality(PingsIn(log, n)) \in Nat /\ Cardinality(PingsIn(log', n)) \in Nat
          /\ Cardinality(PingsIn(log, n)) <= Cardinality(PingsIn(log', n))
          /\ n <= Len(log) /\ Len(log') = Len(log) + 1 /\ log'[Len(log')] = PING =>
                Cardinality(PingsIn(log', n)) = Cardinality(PingsIn(log, n)) + 1
      <4>1. Len(log) <= Len(log') /\ \A m \in 1 .. Len(log) : log'[m] = log[m]
        BY <1>1, <1>3 DEF Grows
      <4>2. QED
        BY <1>1, <1>3, <3>1, <4>1, PingsGrow
    <3>3. Len(log) + 1 - n <= Ahead(K) + Cardinality(PingsIn(log, n))
      BY <2>1, <3>1 DEF SpreadInv, WaitingNear, PingsAfter, PingsIn
    <3>4. CASE payloads = <<PING>>
      <4>1. Len(payloads) = 1 /\ log'[Len(log')] = PING
        BY <1>1, <1>3, <3>4 DEF Grows
      <4>2. n <= Len(log)
        BY <1>1, <3>1
      <4>3. Cardinality(PingsIn(log', n)) = Cardinality(PingsIn(log, n)) + 1
        BY <1>3, <3>2, <4>1, <4>2
      <4>4. Len(log) + 1 + 1 - n <= Ahead(K) + Cardinality(PingsIn(log', n))
        BY <1>1, <1>2, <3>1, <3>2, <3>3, <4>3, NearAfterPing
      <4>5. QED
        BY <1>1, <1>3, <3>1, <3>2, <4>1, <4>4
    <3>5. CASE Len(queued_reliables) + Len(payloads) <= Ahead(K)
      <4>1. Len(log) + 1 - n <= Len(queued_reliables) + Cardinality(PingsIn(log, n))
        BY <2>1, <3>1, WaitingCounted DEF SpreadInv, PingsAfter, PingsIn
      <4>2. Len(log) + Len(payloads) + 1 - n <= Ahead(K) + Cardinality(PingsIn(log', n))
        BY <1>1, <1>2, <3>1, <3>2, <3>5, <4>1, NearAfterCommand
      <4>3. QED
        BY <1>1, <1>3, <3>1, <3>2, <4>2
    <3>6. QED
      BY <1>1, <2>1, <3>4, <3>5
  <2>2. CASE ~ i \in 1 .. Len(queued_reliables)
    <3>1. n \in Len(log) + 1 .. Len(log')
      BY <1>1, <1>5, <2>2 DEF Grows
    <3>2. n \in Nat /\ n \in 1 .. Len(log') /\ n \in Len(log) + 1 .. Len(log) + Len(payloads)
      BY <1>1, <1>3, <3>1
    <3>3. Cardinality(PingsIn(log', n)) \in Nat
      <4>1. Len(log') <= Len(log') /\ \A m \in 1 .. Len(log') : log'[m] = log'[m]
        BY <1>3
      <4>2. QED
        BY <1>3, <3>2, <4>1, PingsGrow
    <3>4. QED
      BY <1>1, <1>2, <3>2, <3>3, NearNew
  <2>3. QED
    BY <2>1, <2>2
<1>6. WaitingNear(K)'
  BY <1>3, <1>5 DEF WaitingNear, Ahead, PingsAfter, PingsIn
<1>7. \A p \in outgoing_reliables_sent :
         p.n \in Nat /\ Len(log) + Len(payloads) + 1 - p.n <= Reach(K, P)
  <2> TAKE p \in outgoing_reliables_sent
  <2>1. Len(log) + Len(payloads) + 1 - p.n <= MAX_RELIABLE_WINDOW_SIZE_SEND + 2
    BY SentAfterNumber DEF Number
  <2>2. p.n \in Nat
    BY IInvFacts DEF Underway
  <2>3. QED
    BY <1>1, <1>2, <2>1, <2>2, AtMostTrans
<1>8. \A p \in outgoing_reliables_sent' : Len(log') + 1 - p.n <= Reach(K, P)
  <2> TAKE p \in outgoing_reliables_sent'
  <2>1. CASE p.n \in Len(log) + 1 .. Len(log) + Len(payloads)
    <3>1. Len(log) + Len(payloads) + 1 - p.n <= Ahead(K)
      BY <1>1, <1>2, <2>1, NearNew
    <3>2. QED
      BY <1>1, <1>2, <1>3, <2>1, <3>1, AtMostReach
  <2>2. CASE p \in outgoing_reliables_sent
    BY <1>3, <1>7, <2>2
  <2>3. QED
    BY <2>1, <2>2
<1>9. SentNear(K, P)'
  BY <1>8 DEF SentNear, Reach, Ahead
<1>10. HeldNear(K, P)'
  BY DEF SpreadInv, HeldNear, Reach, Ahead, receiver
<1>11. Len(log') - Len(delivered') <= 2 * Reach(K, P)
  <2>1. Len(delivered') = Len(delivered)
    BY DEF receiver
  <2>2. \A p \in incoming_reliables : p.n - Len(delivered) <= Reach(K, P)
    BY DEF SpreadInv, HeldNear
  <2>3. \/ Len(log) - Len(delivered) <= Reach(K, P)
        \/ \E f \in Ns(Queued) \cup Ns(outgoing_reliables_sent) :
              f \in 1 .. Len(log) /\ f - 1 - Len(delivered) <= Reach(K, P)
    BY <1>2, <2>2, FirstMissing
  <2>4. CASE Len(log) - Len(delivered) <= Reach(K, P)
    <3>1. Len(payloads) <= Reach(K, P)
      BY <1>1, <1>2
    <3>2. QED
      BY <1>1, <1>2, <1>3, <2>1, <2>4, <3>1, SumBounds
  <2>5. ASSUME NEW f \in 1 .. Len(log), f - 1 - Len(delivered) <= Reach(K, P),
               Len(log') + 1 - f <= Reach(K, P)
        PROVE  Len(log') - Len(delivered') <= 2 * Reach(K, P)
    <3>1. f \in 1 .. Len(log')
      BY <1>1, <1>3
    <3>2. QED
      BY <1>1, <1>2, <1>3, <2>1, <2>5, <3>1, MissingBounds
  <2>6. ASSUME NEW f \in 1 .. Len(log), f \in Ns(Queued)
        PROVE  Len(log') + 1 - f <= Reach(K, P)
    <3>1. PICK i \in 1 .. Len(queued_reliables) : queued_reliables[i].n = f
      BY <1>1, <2>6, QueuedMembers
    <3>2. i \in 1 .. Len(queued_reliables') /\ f = queued_reliables'[i].n
      BY <1>1, <3>1 DEF Grows
    <3>3. /\ f \in 1 .. Len(log') /\ Cardinality(PingsIn(log', f)) \in Nat
          /\ Len(log) + Len(payloads) + 1 - f <= Ahead(K) + Cardinality(PingsIn(log', f))
      BY <1>5, <3>2
    <3>4. Cardinality(PingsIn(log', f)) <= P
      BY <3>2 DEF PingsAtMost, PingsAfter, PingsIn
    <3>5. f \in Nat /\ Len(log') + 1 - f <= Ahead(K) + Cardinality(PingsIn(log', f))
      BY <1>3, <3>3
    <3>6. QED
      BY <1>2, <1>3, <3>3, <3>4, <3>5, NearReach
  <2>7. ASSUME NEW f \in 1 .. Len(log), f \in Ns(outgoing_reliables_sent)
        PROVE  Len(log') + 1 - f <= Reach(K, P)
    BY <1>3, <1>7, <2>7 DEF Ns
  <2>8. QED
    BY <2>3, <2>4, <2>5, <2>6, <2>7
<1>12. SpreadOK'
  BY <1>2, <1>3, <1>1, <1>11 DEF SpreadOK, RW, receiver
<1>13. QED
  BY <1>4, <1>6, <1>9, <1>10, <1>11, <1>12 DEF SpreadInv, Reach, Ahead

(* The payloads of a log that was added to.                                *)
LEMMA LogConcat ==
    ASSUME NEW s \in Seq(Payload), NEW t \in Seq(Payload)
    PROVE  /\ Len(s \o t) = Len(s) + Len(t)
           /\ \A i \in 1 .. Len(s) : (s \o t)[i] = s[i]
           /\ \A i \in 1 .. Len(t) : (s \o t)[Len(s) + i] = t[i]
OBVIOUS

(* The packets of a queue that was added to.                               *)
LEMMA QueueConcat ==
    ASSUME NEW s \in Seq(Packet), NEW t \in Seq(Packet)
    PROVE  /\ Len(s \o t) = Len(s) + Len(t)
           /\ \A i \in 1 .. Len(s) : (s \o t)[i] = s[i]
           /\ \A i \in 1 .. Len(t) : (s \o t)[Len(s) + i] = t[i]
OBVIOUS

(* The packets that wait have places in the log.                           *)
LEMMA QueuedPlaces ==
    ASSUME IInv
    PROVE  /\ TypeOK /\ Len(log) \in Nat /\ log \in Seq(Payload)
           /\ queued_reliables \in Seq(Packet) /\ Len(queued_reliables) \in Nat
           /\ \A i \in 1 .. Len(queued_reliables) : queued_reliables[i].n \in 1 .. Len(log)
<1>1. TypeOK /\ \A i \in 1 .. Len(queued_reliables) : queued_reliables[i].n \in 1 .. Len(log)
  BY IInvFacts
<1>2. log \in Seq(Payload) /\ queued_reliables \in Seq(Packet)
  BY <1>1 DEF TypeOK
<1>3. Len(log) \in Nat /\ Len(queued_reliables) \in Nat
  BY <1>2
<1>4. QED
  BY <1>1, <1>2, <1>3

(* A command adds its packets to the end of a queue that held little.      *)
LEMMA SpreadCommand ==
    ASSUME NEW K, NEW P, RingIsWide(K, P), IInv, SpreadInv(K, P), PingsAtMost(P)',
           NEW c \in Command, ProcessReliableSendCommand(c),
           Len(queued_reliables) <= MaxPacketsRequeued + MAX_RELIABLE_WINDOW_SIZE_SEND,
           UNCHANGED << life, outgoing_reliables_sent, receiver >>, life # "deleted"
    PROVE  SpreadInv(K, P)' /\ SpreadOK'
<1> DEFINE payloads == Chunks(c)
           new == Numbered(payloads)
<1>1. /\ TypeOK /\ Len(log) \in Nat /\ log \in Seq(Payload)
      /\ queued_reliables \in Seq(Packet) /\ Len(queued_reliables) \in Nat
      /\ \A i \in 1 .. Len(queued_reliables) : queued_reliables[i].n \in 1 .. Len(log)
  BY QueuedPlaces
<1>2. /\ payloads \in Seq(Payload) /\ Len(payloads) = c.size /\ Len(payloads) \in 1 .. RW - 1
      /\ Number(payloads)
  BY ChunksType DEF ProcessReliableSendCommand
<1>3. /\ Len(payloads) \in 1 .. K /\ Len(payloads) <= Ahead(K) /\ Len(payloads) \in Nat
      /\ Len(queued_reliables) + Len(payloads) <= Ahead(K)
  <2>1. Len(payloads) \in 1 .. K
    BY <1>2 DEF Command, RingIsWide
  <2>2. /\ K \in Nat /\ MaxPacketsRequeued \in Nat /\ MAX_RELIABLE_WINDOW_SIZE_SEND \in Nat
        /\ Ahead(K) = MaxPacketsRequeued + MAX_RELIABLE_WINDOW_SIZE_SEND + K
    BY SpreadNumbers
  <2>3. QED
    BY <1>1, <2>1, <2>2
<1>4. /\ new \in Seq(Packet) /\ Len(new) = Len(payloads)
      /\ \A i \in 1 .. Len(payloads) : new[i].n = Len(log) + i
  BY <1>1, <1>2, NumberedType
<1>5. log' = log \o payloads /\ queued_reliables' = queued_reliables \o new
  BY DEF ProcessReliableSendCommand, Number
<1> HIDE DEF payloads, new
<1>6. Grows(log, log', queued_reliables, queued_reliables', payloads)
  <2>1. /\ Len(log') = Len(log) + Len(payloads)
        /\ \A m \in 1 .. Len(log) : log'[m] = log[m]
        /\ \A m \in 1 .. Len(payloads) : log'[Len(log) + m] = payloads[m]
    <3>1. /\ Len(log \o payloads) = Len(log) + Len(payloads)
          /\ \A m \in 1 .. Len(log) : (log \o payloads)[m] = log[m]
          /\ \A m \in 1 .. Len(payloads) : (log \o payloads)[Len(log) + m] = payloads[m]
      BY <1>1, <1>2, LogConcat
    <3>2. QED
      BY <1>5, <3>1
  <2>2. /\ Len(queued_reliables') = Len(queued_reliables) + Len(payloads)
        /\ \A i \in 1 .. Len(queued_reliables) : queued_reliables'[i] = queued_reliables[i]
        /\ \A i \in 1 .. Len(payloads) :
              queued_reliables'[Len(queued_reliables) + i] = new[i]
    <3>1. /\ Len(queued_reliables \o new) = Len(queued_reliables) + Len(new)
          /\ \A i \in 1 .. Len(queued_reliables) :
                (queued_reliables \o new)[i] = queued_reliables[i]
          /\ \A i \in 1 .. Len(new) :
                (queued_reliables \o new)[Len(queued_reliables) + i] = new[i]
      BY <1>1, <1>4, QueueConcat
    <3>2. QED
      BY <1>4, <1>5, <3>1
  <2>3. ASSUME NEW i \in 1 .. Len(queued_reliables'), ~ i <= Len(queued_reliables)
        PROVE  queued_reliables'[i].n \in Len(log) + 1 .. Len(log')
    <3>1. i - Len(queued_reliables) \in 1 .. Len(payloads)
      BY <1>1, <1>3, <2>2, <2>3
    <3>2. queued_reliables'[i] = new[i - Len(queued_reliables)]
      BY <1>1, <2>2, <3>1
    <3>3. queued_reliables'[i].n = Len(log) + (i - Len(queued_reliables))
      BY <1>4, <3>1, <3>2
    <3>4. QED
      BY <1>1, <1>3, <2>1, <3>1, <3>3
  <2>4. ASSUME NEW m \in Len(log) + 1 .. Len(log')
        PROVE  \E j \in 1 .. Len(queued_reliables') : queued_reliables'[j].n = m
    <3>1. m - Len(log) \in 1 .. Len(payloads)
      BY <1>1, <1>3, <2>1
    <3>2. Len(queued_reliables) + (m - Len(log)) \in 1 .. Len(queued_reliables')
      BY <1>1, <1>3, <2>2, <3>1
    <3>3. queued_reliables'[Len(queued_reliables) + (m - Len(log))].n = Len(log) + (m - Len(log))
      BY <1>4, <2>2, <3>1
    <3>4. QED
      BY <1>1, <3>1, <3>2, <3>3
  <2>5. Len(queued_reliables') \in Nat /\ Len(queued_reliables) <= Len(queued_reliables')
    BY <1>1, <1>3, <2>2
  <2>6. QED
    BY <1>1, <2>1, <2>2, <2>3, <2>4, <2>5 DEF Grows
<1>7. QED
  BY <1>2, <1>3, <1>6, SpreadNumber

(* A control packet goes out at once or to the end of the queue: it is a   *)
(* ping, or the first packet of all.                                       *)
LEMMA SpreadControl ==
    ASSUME NEW K, NEW P, RingIsWide(K, P), IInv, SpreadInv(K, P), PingsAtMost(P)',
           NEW control \in Payload, RawSendAsPacket(control), life # "deleted",
           control = PING \/ log = <<>>
    PROVE  SpreadInv(K, P)' /\ SpreadOK'
<1> DEFINE payloads == <<control>>
           p == Numbered(payloads)[1]
<1>1. /\ TypeOK /\ Len(log) \in Nat /\ log \in Seq(Payload)
      /\ queued_reliables \in Seq(Packet) /\ Len(queued_reliables) \in Nat
      /\ \A i \in 1 .. Len(queued_reliables) : queued_reliables[i].n \in 1 .. Len(log)
  BY QueuedPlaces
<1>2. /\ payloads \in Seq(Payload) /\ Len(payloads) = 1 /\ Len(payloads) \in 1 .. RW - 1
      /\ payloads[1] = control /\ Number(payloads)
  BY ControlType, RingSize DEF RawSendAsPacket
<1>3. 1 <= Ahead(K)
  BY SpreadNumbers, ChannelAssumption
<1>4. /\ p \in Packet /\ p.n = Len(log) + 1
  <2>1. 1 \in 1 .. Len(payloads)
    BY <1>2
  <2>2. QED
    BY <1>1, <1>2, <2>1, NumberedType
<1>5. log' = log \o payloads
  BY DEF RawSendAsPacket, Number
<1>6. control = PING \/ Len(queued_reliables) = 0
  <2>1. log = <<>> => Len(queued_reliables) = 0
    <3> SUFFICES ASSUME log = <<>>, Len(queued_reliables) # 0 PROVE FALSE
      OBVIOUS
    <3>1. Len(log) = 0 /\ 1 \in 1 .. Len(queued_reliables)
      BY <1>1
    <3>2. QED
      BY <1>1, <3>1
  <2>2. QED
    BY <2>1
<1>7. /\ UNCHANGED << life, receiver >>
      /\ \/ /\ outgoing_reliables_sent' \subseteq outgoing_reliables_sent \cup {p}
            /\ queued_reliables' = queued_reliables
         \/ /\ queued_reliables' = Append(queued_reliables, p)
            /\ outgoing_reliables_sent' = outgoing_reliables_sent
  BY DEF RawSendAsPacket, BufferedSent
<1> HIDE DEF payloads, p
<1>8. Grows(log, log', queued_reliables, queued_reliables', payloads)
  <2>1. /\ Len(log') = Len(log) + 1
        /\ \A m \in 1 .. Len(log) : log'[m] = log[m]
        /\ log'[Len(log) + 1] = control
    <3>1. 1 \in 1 .. Len(payloads)
      BY <1>2
    <3>2. QED
      <4>1. /\ Len(log \o payloads) = Len(log) + Len(payloads)
            /\ \A m \in 1 .. Len(log) : (log \o payloads)[m] = log[m]
            /\ \A m \in 1 .. Len(payloads) : (log \o payloads)[Len(log) + m] = payloads[m]
        BY <1>1, <1>2, LogConcat
      <4>2. QED
        BY <1>2, <1>5, <3>1, <4>1
  <2>2. \A m \in 1 .. Len(payloads) : log'[Len(log) + m] = payloads[m]
    BY <1>2, <2>1
  <2>3. CASE queued_reliables' = queued_reliables
    BY <1>1, <1>2, <1>6, <2>1, <2>2, <2>3 DEF Grows
  <2>4. CASE queued_reliables' = Append(queued_reliables, p)
    <3>1. /\ Len(queued_reliables') = Len(queued_reliables) + 1
          /\ \A i \in 1 .. Len(queued_reliables) : queued_reliables'[i] = queued_reliables[i]
          /\ queued_reliables'[Len(queued_reliables) + 1] = p
      BY <1>1, <1>4, <2>4
    <3>2. \A i \in 1 .. Len(queued_reliables') :
             i <= Len(queued_reliables) \/ queued_reliables'[i].n = Len(log) + 1
      BY <1>1, <1>4, <3>1
    <3>3. Len(queued_reliables) + 1 \in 1 .. Len(queued_reliables')
          /\ queued_reliables'[Len(queued_reliables) + 1].n = Len(log) + 1
      BY <1>1, <1>4, <3>1
    <3>4. Len(log) + 1 .. Len(log') = {Len(log) + 1}
      BY <1>1, <2>1
    <3>5. QED
      BY <1>1, <1>2, <2>1, <2>2, <3>1, <3>2, <3>3, <3>4 DEF Grows
  <2>5. QED
    BY <1>7, <2>3, <2>4
<1>9. \A s \in outgoing_reliables_sent' :
          \/ s \in outgoing_reliables_sent
          \/ s.n \in Len(log) + 1 .. Len(log) + Len(payloads)
  BY <1>1, <1>2, <1>4, <1>7
<1>10. Len(queued_reliables) = 0 \/ payloads = <<PING>>
  BY <1>6 DEF payloads
<1>11. Len(payloads) <= Ahead(K)
  BY <1>2, <1>3
<1>12. QED
  BY <1>2, <1>7, <1>8, <1>9, <1>10, <1>11, SpreadNumber

(* Every step keeps the numbering near the receiver.                       *)
LEMMA SpreadStep ==
    ASSUME NEW K, NEW P, RingIsWide(K, P), IInv, SpreadInv(K, P),
           PingsAtMost(P), PingsAtMost(P)', [Next]_vars
    PROVE  SpreadInv(K, P)' /\ SpreadOK'
<1>1. /\ TypeOK /\ Len(log) \in Nat /\ Len(delivered) \in Nat
      /\ queued_reliables \in Seq(Packet) /\ Len(queued_reliables) \in Nat
      /\ MaxPacketsRequeued \in Nat /\ MAX_RELIABLE_WINDOW_SIZE_SEND \in Nat
  BY QueuedPlaces, IInvFacts, SpreadNumbers
<1>2. Len(delivered') \in Nat /\ TypeOK'
  BY <1>1, TypeStep DEF TypeOK
<1>3. ASSUME SpreadInv(K, P)', Len(log') = Len(log), Len(delivered) <= Len(delivered')
      PROVE  SpreadOK'
  <2>1. Len(log) - Len(delivered) <= 2 * Reach(K, P)
    BY DEF SpreadInv
  <2>2. Reach(K, P) \in Nat /\ RW \in Nat /\ 2 * Reach(K, P) < RW
    BY SpreadNumbers
  <2>3. QED
    BY <1>1, <1>2, <1>3, <2>1, <2>2 DEF SpreadOK, RW
<1> DEFINE Stays ==
               /\ log' = log
               /\ queued_reliables' \in {queued_reliables, Tail(queued_reliables), <<>>}
               /\ outgoing_reliables_sent' \subseteq outgoing_reliables_sent \cup Queued
               /\ Len(delivered) <= Len(delivered')
               /\ life' # "deleted" =>
                     /\ life # "deleted"
                     /\ \A p \in incoming_reliables' :
                           p \in incoming_reliables \/ p.n - Len(delivered') <= Reach(K, P)
<1>4. Stays => SpreadInv(K, P)' /\ SpreadOK'
  <2> SUFFICES ASSUME Stays PROVE SpreadInv(K, P)' /\ SpreadOK'
    OBVIOUS
  <2>1. SpreadInv(K, P)'
    BY <1>2, SpreadStay
  <2>2. QED
    BY <1>3, <2>1
<1>5. ASSUME NEW k \in ChunkCounts, PutReliableSendCommand(k)
      PROVE  SpreadInv(K, P)' /\ SpreadOK'
  <2> DEFINE c == [id |-> Len(submitted) + 1, size |-> k]
  <2>1. c \in Command
    BY <1>1 DEF Command, TypeOK
  <2>2. CASE AtOnce(k) /\ ProcessReliableSendCommand(c)
    <3>1. UNCHANGED << life, outgoing_reliables_sent, receiver >> /\ life # "deleted"
      BY <1>5 DEF PutReliableSendCommand
    <3>2. Len(queued_reliables) <= MaxPacketsRequeued + MAX_RELIABLE_WINDOW_SIZE_SEND
      <4>1. m_window_size \in Nat /\ m_window_size <= MAX_RELIABLE_WINDOW_SIZE_SEND
        BY <1>1, ChannelAssumption DEF TypeOK
      <4>2. Len(queued_reliables) + 1 < m_window_size \div 2
        BY <2>2 DEF AtOnce
      <4>3. QED
        BY <1>1, <4>1, <4>2
    <3> HIDE DEF c
    <3>3. QED
      BY <2>1, <2>2, <3>1, <3>2, SpreadCommand
  <2>3. CASE ~ (AtOnce(k) /\ ProcessReliableSendCommand(c))
    <3>1. Stays
      BY <1>1, <1>5, <2>3 DEF PutReliableSendCommand, receiver
    <3>2. QED
      BY <1>4, <3>1
  <2>4. QED
    BY <2>2, <2>3
<1>6. ASSUME RunCommandQueues PROVE SpreadInv(K, P)' /\ SpreadOK'
  <2>1. CASE ProcessReliableSendCommand(Head(queued_commands))
    <3>1. Head(queued_commands) \in Command
      BY <1>1, <1>6 DEF RunCommandQueues, TypeOK
    <3>2. UNCHANGED << life, outgoing_reliables_sent, receiver >> /\ life # "deleted"
      BY <1>6 DEF RunCommandQueues
    <3>3. Len(queued_reliables) <= MaxPacketsRequeued + MAX_RELIABLE_WINDOW_SIZE_SEND
      BY <1>1, <1>6 DEF RunCommandQueues
    <3>4. QED
      BY <2>1, <3>1, <3>2, <3>3, SpreadCommand
  <2>2. CASE ~ ProcessReliableSendCommand(Head(queued_commands))
    <3>1. Stays
      BY <1>1, <1>6, <2>2 DEF RunCommandQueues, receiver
    <3>2. QED
      BY <1>4, <3>1
  <2>3. QED
    BY <2>1, <2>2
<1>7. ASSUME SendQueued PROVE SpreadInv(K, P)' /\ SpreadOK'
  <2>1. Head(queued_reliables) \in Queued
    <3>1. queued_reliables # <<>>
      BY <1>7 DEF SendQueued
    <3>2. Head(queued_reliables) = queued_reliables[1] /\ 1 \in DOMAIN queued_reliables
      BY <1>1, <3>1
    <3>3. QED
      BY <3>2 DEF Queued
  <2>2. BufferedSent(Head(queued_reliables), next_outgoing_seqnum)
            \subseteq outgoing_reliables_sent \cup {Head(queued_reliables)}
    BY DEF BufferedSent
  <2>3. Stays
    BY <1>1, <1>7, <2>1, <2>2 DEF SendQueued, receiver
  <2>4. QED
    BY <1>4, <2>3
<1>8. ASSUME CreatePeer \/ Ping PROVE SpreadInv(K, P)' /\ SpreadOK'
  BY <1>8, SpreadControl, ControlType DEF CreatePeer, Ping
<1>9. ASSUME \/ \E p \in outgoing_reliables_sent : Resend(p)
             \/ ResendOne
             \/ \E d \in WindowSteps : UpdateTimers(d)
             \/ SetFullyOpen
             \/ DisconnectPeer
             \/ DeletePeer
             \/ Lose
             \/ UNCHANGED vars
      PROVE  SpreadInv(K, P)' /\ SpreadOK'
  <2>1. Stays
    BY <1>1, <1>9 DEF Resend, ResendOne, UpdateTimers, SetFullyOpen, DisconnectPeer,
          DeletePeer, Lose, vars, sender, receiver
  <2>2. QED
    BY <1>4, <2>1
<1>10. ASSUME NEW a \in acks, NEW keep \in BOOLEAN, ReceiveAck(a, keep)
       PROVE  SpreadInv(K, P)' /\ SpreadOK'
  <2>1. Stays
    BY <1>1, <1>10 DEF ReceiveAck, PopSeqnum, receiver
  <2>2. QED
    BY <1>4, <2>1
<1>11. ASSUME NEW p, Process(p) PROVE /\ Len(delivered) <= Len(delivered')
                                      /\ incoming_reliables' \subseteq incoming_reliables
  <2>1. delivered \in Seq(Nat) /\ delivered' = Append(delivered, p.n)
    BY <1>1, <1>11 DEF Process, TypeOK
  <2>2. Len(delivered') = Len(delivered) + 1
    BY <2>1
  <2>3. QED
    BY <1>1, <1>11, <2>2 DEF Process
<1>12. ASSUME Unbuffer PROVE SpreadInv(K, P)' /\ SpreadOK'
  <2>1. Stays
    BY <1>1, <1>11, <1>12 DEF Unbuffer, sender
  <2>2. QED
    BY <1>4, <2>1
<1>13. ASSUME NEW p \in wire, NEW keep \in BOOLEAN, ReceiveReliable(p, keep)
       PROVE  SpreadInv(K, P)' /\ SpreadOK'
  <2>1. UNCHANGED sender
    BY <1>13 DEF ReceiveReliable
  <2>2. CASE Process(p)
    <3>1. Stays
      BY <1>1, <1>11, <2>1, <2>2 DEF sender
    <3>2. QED
      BY <1>4, <3>1
  <2>3. CASE incoming_reliables' = BufferedIncoming(p) /\ delivered' = delivered
    <3>1. ASSUME life # "deleted"
          PROVE  p.n - Len(delivered) <= Reach(K, P)
      <4>1. Len(log) - Len(delivered) <= Reach(K, P)
        BY <1>13, <3>1, BlockedReceiver DEF ReceiveReliable
      <4>2. p.n \in 1 .. Len(log)
        BY IInvFacts DEF Underway
      <4>3. Reach(K, P) \in Nat
        BY SpreadNumbers
      <4>4. QED
        BY <1>1, <4>1, <4>2, <4>3
    <3>2. Stays
      BY <1>1, <2>1, <2>3, <3>1 DEF sender, BufferedIncoming
    <3>3. QED
      BY <1>4, <3>2
  <2>4. CASE UNCHANGED receiver
    <3>1. Stays
      BY <1>1, <2>1, <2>4 DEF sender, receiver
    <3>2. QED
      BY <1>4, <3>1
  <2>5. QED
    BY <1>13, <2>2, <2>3, <2>4 DEF ReceiveReliable
<1>14. QED
  BY <1>5, <1>6, <1>7, <1>8, <1>9, <1>10, <1>12, <1>13 DEF Next

(* Nothing is numbered when the channel is new.                            *)
LEMMA InitSpread ==
    ASSUME NEW K, NEW P, RingIsWide(K, P), Init
    PROVE  SpreadInv(K, P) /\ SpreadOK
<1>1. Reach(K, P) \in Nat /\ RW \in Nat /\ 2 * Reach(K, P) < RW
  BY SpreadNumbers
<1>2. log = <<>> /\ queued_reliables = <<>> /\ outgoing_reliables_sent = {}
      /\ incoming_reliables = {} /\ delivered = <<>>
  BY DEF Init
<1>3. QED
  BY <1>1, <1>2 DEF SpreadInv, Covered, WaitingNear, SentNear, HeldNear, SpreadOK, RW

(* The numbering stays less than half a ring ahead of the receiver, for    *)
(* every ring that is wide against the window, the queue, the largest      *)
(* command and the pings that go ahead of a packet that waits: what all of *)
(* the above rests on, and what command size and window test are for.      *)
THEOREM SpreadHolds ==
    ASSUME NEW K, NEW P, RingIsWide(K, P)
    PROVE  Spec /\ []PingsAtMost(P) => []SpreadOK
<1> DEFINE I == IInv /\ SpreadInv(K, P) /\ SpreadOK
<1>1. Init => I
  BY InitIInv, InitSpread
<1>2. I /\ PingsAtMost(P) /\ PingsAtMost(P)' /\ [Next]_vars => I'
  BY SpreadStep, IInvStep
<1>3. QED
  BY <1>1, <1>2, PTL DEF Spec

-----------------------------------------------------------------------------
(* The order of the commands *)

\* The chunk of a place, as a payload.
Piece(c, k) == [cmd |-> c, chunk |-> k]

(* A payload of the log is its command and its chunk.                      *)
LEMMA LogPayload ==
    ASSUME TypeOK, NEW n \in 1 .. Len(log)
    PROVE  /\ log[n].cmd \in Nat /\ log[n].chunk \in Nat
           /\ log[n] = Piece(log[n].cmd, log[n].chunk)
<1>1. log[n] \in Payload
  BY DEF TypeOK
<1>2. QED
  BY <1>1 DEF Payload, Piece

(* Numbering the command that is next keeps the order.                     *)
LEMMA AddCommand ==
    ASSUME TypeOK, LogOrder, NEW c \in Command,
           log' = log \o Chunks(c), submitted' \in Seq(ChunkCounts),
           \/ submitted' = submitted
           \/ /\ submitted' = Append(submitted, c.size)
              /\ c.id = Len(submitted) + 1,
           c.id \in 1 .. Len(submitted'), submitted'[c.id] = c.size,
           \A d \in 1 .. Len(submitted) : \A k \in 1 .. submitted[d] :
              InLog(Piece(d, k)) <=> d < c.id
    PROVE  /\ LogOrder'
           /\ \A d \in 1 .. Len(submitted') : \A k \in 1 .. submitted'[d] :
                 InLog(Piece(d, k))' <=> d <= c.id
<1>1. /\ log \in Seq(Payload) /\ Len(log) \in Nat
      /\ submitted \in Seq(ChunkCounts) /\ Len(submitted) \in Nat
      /\ Chunks(c) \in Seq(Payload) /\ Len(Chunks(c)) = c.size
      /\ c.id \in Nat /\ c.id >= 1 /\ c.size \in Nat /\ c.size >= 1
  <2>1. c.size \in 1 .. RW - 1 /\ RW \in Nat
    BY ChunksType, ChannelAssumption, WindowAssumption DEF RW
  <2>2. c.id \in Nat
    BY DEF Command
  <2>3. QED
    BY <2>1, <2>2, ChunksType DEF TypeOK
<1>2. /\ Len(log') = Len(log) + c.size /\ Len(log') \in Nat
      /\ \A n \in 1 .. Len(log) : log'[n] = log[n]
      /\ \A j \in 1 .. c.size : log'[Len(log) + j] = Piece(c.id, j)
  <2>1. /\ Len(log') = Len(log) + Len(Chunks(c))
        /\ \A n \in 1 .. Len(log) : log'[n] = log[n]
        /\ \A j \in 1 .. Len(Chunks(c)) : log'[Len(log) + j] = Chunks(c)[j]
    BY <1>1, LogConcat
  <2>2. \A j \in 1 .. c.size : Chunks(c)[j] = Piece(c.id, j)
    BY <1>1 DEF Chunks, Piece
  <2>3. QED
    BY <1>1, <2>1, <2>2
<1>3. /\ Len(submitted') \in Nat /\ Len(submitted) <= Len(submitted')
      /\ \A d \in 1 .. Len(submitted) : submitted'[d] = submitted[d]
      /\ \A d \in 1 .. Len(submitted') : d \in 1 .. Len(submitted) \/ d = c.id
  <2>1. CASE submitted' = submitted
    BY <1>1, <2>1
  <2>2. CASE submitted' = Append(submitted, c.size) /\ c.id = Len(submitted) + 1
    <3>1. /\ Len(submitted') = Len(submitted) + 1
          /\ \A d \in 1 .. Len(submitted) : submitted'[d] = submitted[d]
      BY <1>1, <2>2
    <3>2. QED
      BY <1>1, <2>2, <3>1
  <2>3. QED
    BY <2>1, <2>2
<1>4. \A n \in 1 .. Len(log') :
         \/ n \in 1 .. Len(log) /\ log'[n] = log[n]
         \/ /\ n - Len(log) \in 1 .. c.size /\ n > Len(log)
            /\ log'[n] = Piece(c.id, n - Len(log))
  <2> TAKE n \in 1 .. Len(log')
  <2>1. CASE n <= Len(log)
    BY <1>1, <1>2, <2>1
  <2>2. CASE ~ n <= Len(log)
    <3>1. n - Len(log) \in 1 .. c.size /\ Len(log) + (n - Len(log)) = n
      BY <1>1, <1>2, <2>2
    <3>2. QED
      BY <1>2, <3>1, <1>1, <2>2
  <2>3. QED
    BY <2>1, <2>2
<1>5. \A n \in 1 .. Len(log) : log[n].cmd # 0 =>
         /\ log[n].cmd \in 1 .. Len(submitted) /\ log[n].cmd < c.id
         /\ log[n].chunk \in 1 .. submitted[log[n].cmd]
  <2> SUFFICES ASSUME NEW n \in 1 .. Len(log), log[n].cmd # 0
               PROVE  /\ log[n].cmd \in 1 .. Len(submitted) /\ log[n].cmd < c.id
                      /\ log[n].chunk \in 1 .. submitted[log[n].cmd]
    OBVIOUS
  <2>1. log[n].cmd \in 1 .. Len(submitted) /\ log[n].chunk \in 1 .. submitted[log[n].cmd]
    BY DEF LogOrder, IsChunk
  <2>2. InLog(Piece(log[n].cmd, log[n].chunk))
    BY LogPayload DEF InLog
  <2>3. QED
    BY <2>1, <2>2
<1>6. \A d, k : InLog(Piece(d, k)) => InLog(Piece(d, k))'
  <2> SUFFICES ASSUME NEW d, NEW k, NEW n \in 1 .. Len(log), log[n] = Piece(d, k)
               PROVE  \E m \in 1 .. Len(log') : log'[m] = Piece(d, k)
    BY DEF InLog, Piece
  <2>1. n \in 1 .. Len(log') /\ log'[n] = Piece(d, k)
    BY <1>1, <1>2
  <2>2. QED
    BY <2>1
<1>7. \A k \in 1 .. c.size : InLog(Piece(c.id, k))'
  <2> SUFFICES ASSUME NEW k \in 1 .. c.size
               PROVE  \E m \in 1 .. Len(log') : log'[m] = Piece(c.id, k)
    BY DEF InLog, Piece
  <2>1. Len(log) + k \in 1 .. Len(log')
    BY <1>1, <1>2
  <2>2. QED
    BY <1>2, <2>1
<1>8. ASSUME NEW d \in 1 .. Len(submitted'), NEW k \in 1 .. submitted'[d]
      PROVE  InLog(Piece(d, k))' <=> d <= c.id
  <2>1. ASSUME d <= c.id PROVE InLog(Piece(d, k))'
    <3>1. CASE d = c.id
      BY <1>7, <3>1
    <3>2. CASE d # c.id
      <4>1. d \in 1 .. Len(submitted) /\ k \in 1 .. submitted[d] /\ d < c.id
        BY <1>1, <1>3, <2>1, <3>2
      <4>2. QED
        BY <1>6, <4>1
    <3>3. QED
      BY <3>1, <3>2
  <2>2. ASSUME InLog(Piece(d, k))' PROVE d <= c.id
    <3>1. PICK n \in 1 .. Len(log') : log'[n] = Piece(d, k)
      BY <2>2 DEF InLog, Piece
    <3>2. CASE n \in 1 .. Len(log) /\ log'[n] = log[n]
      <4>1. log[n].cmd = d
        BY <3>1, <3>2 DEF Piece
      <4>2. d # 0
        OBVIOUS
      <4>3. QED
        BY <1>1, <1>5, <3>2, <4>1, <4>2
    <3>3. CASE log'[n] = Piece(c.id, n - Len(log))
      <4>1. d = c.id
        BY <3>1, <3>3 DEF Piece
      <4>2. QED
        BY <1>1, <4>1
    <3>4. QED
      BY <1>4, <3>2, <3>3
  <2>3. QED
    BY <2>1, <2>2
<1>9. ASSUME NEW n \in 1 .. Len(log'), log'[n].cmd # 0
      PROVE  log'[n].cmd \in 1 .. Len(submitted') /\ log'[n].chunk \in 1 .. submitted'[log'[n].cmd]
  <2>1. CASE n \in 1 .. Len(log) /\ log'[n] = log[n]
    <3>1. log[n].cmd \in 1 .. Len(submitted) /\ log[n].chunk \in 1 .. submitted[log[n].cmd]
      BY <1>5, <1>9, <2>1
    <3>2. QED
      BY <1>1, <1>3, <2>1, <3>1
  <2>2. CASE n - Len(log) \in 1 .. c.size /\ log'[n] = Piece(c.id, n - Len(log))
    <3>1. log'[n].cmd = c.id /\ log'[n].chunk = n - Len(log)
      BY <2>2 DEF Piece
    <3>2. QED
      BY <2>2, <3>1
  <2>3. QED
    BY <1>4, <2>1, <2>2
<1>10. ASSUME NEW m \in 1 .. Len(log'), NEW n \in 1 .. Len(log'), m < n,
              log'[m].cmd # 0, log'[n].cmd # 0
       PROVE  Before(log'[m], log'[n])
  <2>1. CASE n \in 1 .. Len(log)
    <3>1. m \in 1 .. Len(log)
      BY <1>1, <1>10, <2>1
    <3>2. log'[m] = log[m] /\ log'[n] = log[n]
      BY <1>2, <2>1, <3>1
    <3>3. QED
      BY <1>10, <2>1, <3>1, <3>2 DEF LogOrder
  <2>2. CASE n - Len(log) \in 1 .. c.size /\ log'[n] = Piece(c.id, n - Len(log))
    <3>1. log'[n].cmd = c.id /\ log'[n].chunk = n - Len(log)
      BY <2>2 DEF Piece
    <3>2. CASE m \in 1 .. Len(log) /\ log'[m] = log[m]
      <4>1. log'[m].cmd < c.id
        BY <1>5, <1>10, <3>2
      <4>2. QED
        BY <3>1, <4>1 DEF Before
    <3>3. CASE log'[m] = Piece(c.id, m - Len(log))
      <4>1. log'[m].cmd = c.id /\ log'[m].chunk = m - Len(log)
        BY <3>3 DEF Piece
      <4>2. m - Len(log) < n - Len(log)
        BY <1>1, <1>10
      <4>3. QED
        BY <3>1, <4>1, <4>2 DEF Before
    <3>4. QED
      BY <1>4, <3>2, <3>3
  <2>3. QED
    BY <1>4, <2>1, <2>2
<1>11. ASSUME NEW n \in 1 .. Len(log'), log'[n].cmd # 0,
              NEW d \in 1 .. Len(submitted'), NEW k \in 1 .. submitted'[d],
              Before(Piece(d, k), log'[n])
       PROVE  InLog(Piece(d, k))'
  <2>1. log'[n].cmd <= c.id /\ log'[n].cmd \in Nat
    <3>1. CASE n \in 1 .. Len(log) /\ log'[n] = log[n]
      BY <1>1, <1>5, <1>11, <3>1
    <3>2. CASE log'[n] = Piece(c.id, n - Len(log))
      BY <1>1, <3>2 DEF Piece
    <3>3. QED
      BY <1>4, <3>1, <3>2
  <2>2. d <= log'[n].cmd
    BY <1>1, <1>3, <1>11, <2>1 DEF Before, Piece
  <2>3. d <= c.id
    BY <1>1, <2>1, <2>2
  <2>4. QED
    BY <1>8, <2>3
<1>12. LogOrder'
  <2>1. (\A n \in 1 .. Len(log) : log[n].cmd # 0 => IsChunk(log[n]))'
    BY <1>9 DEF IsChunk
  <2>2. (\A m, n \in 1 .. Len(log) :
            m < n /\ log[m].cmd # 0 /\ log[n].cmd # 0 => Before(log[m], log[n]))'
    BY <1>10
  <2>3. (\A n \in 1 .. Len(log) : \A d \in 1 .. Len(submitted) : \A k \in 1 .. submitted[d] :
            log[n].cmd # 0 /\ Before([cmd |-> d, chunk |-> k], log[n])
                => InLog([cmd |-> d, chunk |-> k]))'
    BY <1>11 DEF Piece
  <2>4. QED
    BY <2>1, <2>2, <2>3 DEF LogOrder
<1>13. QED
  BY <1>8, <1>12

(* So does a log that control packets are added to, or nothing.            *)
LEMMA KeepOrder ==
    ASSUME LogOrder, Len(log') \in Nat, Len(log) \in Nat, Len(submitted) \in Nat,
           Len(log) <= Len(log'),
           \A n \in 1 .. Len(log) : log'[n] = log[n],
           \A n \in 1 .. Len(log') : n \in 1 .. Len(log) \/ log'[n].cmd = 0,
           Len(submitted') \in Nat, Len(submitted) <= Len(submitted'),
           \A d \in 1 .. Len(submitted) : submitted'[d] = submitted[d]
    PROVE  /\ LogOrder'
           /\ \A d, k : d # 0 => (InLog(Piece(d, k))' <=> InLog(Piece(d, k)))
<1>1. \A d, k : d # 0 => (InLog(Piece(d, k))' <=> InLog(Piece(d, k)))
  <2> SUFFICES ASSUME NEW d, NEW k, d # 0
               PROVE  (\E n \in 1 .. Len(log') : log'[n] = Piece(d, k))
                          <=> (\E n \in 1 .. Len(log) : log[n] = Piece(d, k))
    BY DEF InLog, Piece
  <2>1. ASSUME NEW n \in 1 .. Len(log'), log'[n] = Piece(d, k)
        PROVE  \E m \in 1 .. Len(log) : log[m] = Piece(d, k)
    <3>1. log'[n].cmd = d
      BY <2>1 DEF Piece
    <3>2. n \in 1 .. Len(log)
      BY <3>1
    <3>3. QED
      BY <2>1, <3>2
  <2>2. ASSUME NEW n \in 1 .. Len(log), log[n] = Piece(d, k)
        PROVE  \E m \in 1 .. Len(log') : log'[m] = Piece(d, k)
    <3>1. n \in 1 .. Len(log')
      OBVIOUS
    <3>2. QED
      BY <2>2, <3>1
  <2>3. QED
    BY <2>1, <2>2
<1>2. ASSUME NEW n \in 1 .. Len(log'), log'[n].cmd # 0
      PROVE  /\ n \in 1 .. Len(log) /\ log'[n] = log[n]
             /\ log[n].cmd \in 1 .. Len(submitted) /\ log[n].chunk \in 1 .. submitted[log[n].cmd]
  <2>1. n \in 1 .. Len(log) /\ log'[n] = log[n]
    BY <1>2
  <2>2. QED
    BY <1>2, <2>1 DEF LogOrder, IsChunk
<1>3. ASSUME NEW n \in 1 .. Len(log'), log'[n].cmd # 0
      PROVE  log'[n].cmd \in 1 .. Len(submitted') /\ log'[n].chunk \in 1 .. submitted'[log'[n].cmd]
  <2>1. log[n].cmd \in 1 .. Len(submitted) /\ log'[n] = log[n]
        /\ log[n].chunk \in 1 .. submitted[log[n].cmd]
    BY <1>2, <1>3
  <2>2. QED
    BY <2>1
<1>4. ASSUME NEW m \in 1 .. Len(log'), NEW n \in 1 .. Len(log'), m < n,
             log'[m].cmd # 0, log'[n].cmd # 0
      PROVE  Before(log'[m], log'[n])
  <2>1. m \in 1 .. Len(log) /\ n \in 1 .. Len(log) /\ log'[m] = log[m] /\ log'[n] = log[n]
    BY <1>2, <1>4
  <2>2. QED
    BY <1>4, <2>1 DEF LogOrder
<1>5. ASSUME NEW n \in 1 .. Len(log'), log'[n].cmd # 0,
             NEW d \in 1 .. Len(submitted'), NEW k \in 1 .. submitted'[d],
             Before(Piece(d, k), log'[n])
      PROVE  InLog(Piece(d, k))'
  <2>1. n \in 1 .. Len(log) /\ log'[n] = log[n] /\ log[n].cmd \in 1 .. Len(submitted)
    BY <1>2, <1>5
  <2>2. d <= log[n].cmd
    BY <1>5, <2>1 DEF Before, Piece
  <2>3. d \in 1 .. Len(submitted) /\ k \in 1 .. submitted[d]
    BY <2>1, <2>2
  <2>4. InLog(Piece(d, k))
    BY <1>5, <2>1, <2>3 DEF LogOrder, Piece
  <2>5. QED
    BY <1>1, <2>4
<1>6. LogOrder'
  BY <1>3, <1>4, <1>5 DEF LogOrder, IsChunk, Piece, InLog, Before
<1>7. QED
  BY <1>1, <1>6

\* The part of CommandOrder that is about a peer that lives.
Waiting(subs, queue, len) ==
    /\ Len(queue) <= Len(subs)
    /\ \A i \in 1 .. Len(queue) :
          queue[i] = [id |-> len + i, size |-> subs[len + i]]

(* A step that takes and numbers no command keeps the order.               *)
LEMMA OrderKept ==
    ASSUME TypeOK, TypeOK', CommandOrder,
           \/ log' = log
           \/ \E control \in {PING, SET_PEER_ID} : log' = Append(log, control),
           UNCHANGED << submitted, queued_commands >>, life' = "live" => life = "live"
    PROVE  CommandOrder'
<1>1. /\ log \in Seq(Payload) /\ Len(log) \in Nat /\ Len(log') \in Nat
      /\ Len(submitted) \in Nat
  BY DEF TypeOK
<1>2. /\ Len(log) <= Len(log')
      /\ \A n \in 1 .. Len(log) : log'[n] = log[n]
      /\ \A n \in 1 .. Len(log') : n \in 1 .. Len(log) \/ log'[n].cmd = 0
  <2>1. CASE log' = log
    BY <1>1, <2>1
  <2>2. ASSUME NEW control \in {PING, SET_PEER_ID}, log' = Append(log, control)
        PROVE  /\ Len(log') = Len(log) + 1
               /\ \A n \in 1 .. Len(log) : log'[n] = log[n]
               /\ log'[Len(log) + 1].cmd = 0
    <3>1. control \in Payload /\ control.cmd = 0
      BY DEF PING, SET_PEER_ID, Payload
    <3>2. QED
      BY <1>1, <2>2, <3>1
  <2>3. QED
    BY <1>1, <2>1, <2>2
<1>3. /\ LogOrder'
      /\ \A d, k : d # 0 => (InLog(Piece(d, k))' <=> InLog(Piece(d, k)))
  BY <1>1, <1>2, KeepOrder DEF CommandOrder
<1>4. \A d \in 1 .. Len(submitted) : \A k : InLog(Piece(d, k))' <=> InLog(Piece(d, k))
  <2> SUFFICES ASSUME NEW d \in 1 .. Len(submitted), NEW k
               PROVE  InLog(Piece(d, k))' <=> InLog(Piece(d, k))
    OBVIOUS
  <2>1. d # 0
    BY <1>1
  <2>2. QED
    BY <1>3, <2>1
<1>5. QED
  BY <1>3, <1>4 DEF CommandOrder, NumberedCommands, Piece, InLog

(* So does a command that arrives, numbered at once or made to wait.       *)
LEMMA OrderOfCommand ==
    ASSUME TypeOK, TypeOK', CommandOrder, life = "live",
           NEW k \in ChunkCounts, PutReliableSendCommand(k)
    PROVE  CommandOrder'
<1> DEFINE c == [id |-> Len(submitted) + 1, size |-> k]
<1>1. /\ submitted \in Seq(ChunkCounts) /\ Len(submitted) \in Nat
      /\ queued_commands \in Seq(Command) /\ Len(queued_commands) \in Nat
      /\ log \in Seq(Payload) /\ Len(log) \in Nat
      /\ submitted' = Append(submitted, k) /\ submitted' \in Seq(ChunkCounts)
  BY DEF TypeOK, PutReliableSendCommand
<1>2. /\ Len(submitted') = Len(submitted) + 1
      /\ \A d \in 1 .. Len(submitted) : submitted'[d] = submitted[d]
      /\ submitted'[Len(submitted) + 1] = k
  BY <1>1
<1>3. c \in Command /\ c.id = Len(submitted) + 1 /\ c.size = k
  BY <1>1 DEF Command
<1>4. /\ LogOrder /\ Len(queued_commands) <= Len(submitted)
      /\ \A i \in 1 .. Len(queued_commands) :
            queued_commands[i] = [id |-> Len(submitted) - Len(queued_commands) + i,
                                  size |-> submitted[Len(submitted) - Len(queued_commands) + i]]
      /\ \A d \in 1 .. Len(submitted) : \A j \in 1 .. submitted[d] :
            InLog(Piece(d, j)) <=> d <= Len(submitted) - Len(queued_commands)
  BY DEF CommandOrder, NumberedCommands, Piece
<1>5. CASE /\ AtOnce(k)
           /\ ProcessReliableSendCommand(c)
           /\ UNCHANGED queued_commands
  <2>1. queued_commands = <<>> /\ Len(queued_commands) = 0
    BY <1>5 DEF AtOnce
  <2>2. log' = log \o Chunks(c)
    BY <1>5 DEF ProcessReliableSendCommand, Number
  <2>3. \A d \in 1 .. Len(submitted) : \A j \in 1 .. submitted[d] :
           InLog(Piece(d, j)) <=> d < c.id
    BY <1>1, <1>3, <1>4, <2>1
  <2>4. c.id \in 1 .. Len(submitted') /\ submitted'[c.id] = c.size
        /\ submitted' = Append(submitted, c.size)
    BY <1>1, <1>2, <1>3
  <2> HIDE DEF c
  <2>5. /\ LogOrder'
        /\ \A d \in 1 .. Len(submitted') : \A j \in 1 .. submitted'[d] :
              InLog(Piece(d, j))' <=> d <= c.id
    BY <1>1, <1>3, <1>4, <2>2, <2>3, <2>4, AddCommand
  <2>6. /\ Len(queued_commands') = 0 /\ c.id = Len(submitted') - Len(queued_commands')
    BY <1>1, <1>2, <1>3, <1>5, <2>1
  <2>7. QED
    BY <1>1, <1>2, <2>5, <2>6 DEF CommandOrder, NumberedCommands, Piece, InLog
<1>6. CASE queued_commands' = Append(queued_commands, c) /\ log' = log
  <2>1. /\ LogOrder'
        /\ \A d, j : d # 0 => (InLog(Piece(d, j))' <=> InLog(Piece(d, j)))
    BY <1>1, <1>2, <1>4, <1>6, KeepOrder
  <2>2. /\ Len(queued_commands') = Len(queued_commands) + 1
        /\ \A i \in 1 .. Len(queued_commands) : queued_commands'[i] = queued_commands[i]
        /\ queued_commands'[Len(queued_commands) + 1] = c
    BY <1>1, <1>3, <1>6
  <2>3. Len(submitted') - Len(queued_commands') = Len(submitted) - Len(queued_commands)
    BY <1>1, <1>2, <2>2
  <2> DEFINE numbered == Len(submitted) - Len(queued_commands)
  <2>4. numbered \in Nat /\ numbered <= Len(submitted)
    BY <1>1, <1>4
  <2>5. ASSUME NEW i \in 1 .. Len(queued_commands')
        PROVE  queued_commands'[i] = [id |-> numbered + i, size |-> submitted'[numbered + i]]
    <3>1. CASE i \in 1 .. Len(queued_commands)
      <4>1. numbered + i \in 1 .. Len(submitted)
        BY <1>1, <2>4, <3>1
      <4>2. queued_commands'[i] = queued_commands[i]
            /\ submitted'[numbered + i] = submitted[numbered + i]
        BY <1>2, <2>2, <3>1, <4>1
      <4>3. QED
        BY <1>4, <3>1, <4>2
    <3>2. CASE i = Len(queued_commands) + 1
      <4>1. numbered + i = Len(submitted) + 1
        BY <1>1, <2>4, <3>2
      <4>2. QED
        BY <1>2, <2>2, <3>2, <4>1
    <3>3. i \in 1 .. Len(queued_commands) \/ i = Len(queued_commands) + 1
      BY <1>1, <2>2
    <3>4. QED
      BY <3>1, <3>2, <3>3
  <2>6. ASSUME NEW d \in 1 .. Len(submitted'), NEW j \in 1 .. submitted'[d]
        PROVE  InLog(Piece(d, j))' <=> d <= numbered
    <3>0. d # 0
      BY <1>1, <1>2
    <3>1. CASE d \in 1 .. Len(submitted)
      <4>1. j \in 1 .. submitted[d]
        BY <1>2, <3>1
      <4>2. QED
        BY <1>4, <2>1, <3>0, <3>1, <4>1
    <3>2. CASE d = Len(submitted) + 1
      <4>1. ~ d <= numbered
        BY <1>1, <2>4, <3>2
      <4>2. ASSUME InLog(Piece(d, j)) PROVE FALSE
        <5>1. PICK n \in 1 .. Len(log) : log[n] = Piece(d, j)
          BY <4>2 DEF InLog
        <5>2. log[n].cmd = d
          BY <5>1 DEF Piece
        <5>3. d \in 1 .. Len(submitted)
          BY <1>4, <3>0, <5>2 DEF LogOrder, IsChunk
        <5>4. QED
          BY <1>1, <3>2, <5>3
      <4>3. QED
        BY <2>1, <3>0, <4>1, <4>2
    <3>3. QED
      BY <1>1, <1>2, <3>1, <3>2
  <2>7. Len(queued_commands') <= Len(submitted')
    BY <1>1, <1>2, <1>4, <2>2
  <2> HIDE DEF numbered
  <2>8. Len(submitted') - Len(queued_commands') = numbered
    BY <2>3 DEF numbered
  <2>9. QED
    BY <2>1, <2>5, <2>6, <2>7, <2>8 DEF CommandOrder, NumberedCommands, Piece, InLog
<1>7. QED
  BY <1>5, <1>6 DEF PutReliableSendCommand

(* So does the head of queued_commands, numbered or dropped.               *)
LEMMA OrderOfQueue ==
    ASSUME TypeOK, TypeOK', CommandOrder, RunCommandQueues
    PROVE  CommandOrder'
<1> DEFINE c == Head(queued_commands)
<1>1. /\ submitted \in Seq(ChunkCounts) /\ Len(submitted) \in Nat /\ submitted' = submitted
      /\ queued_commands \in Seq(Command) /\ Len(queued_commands) \in Nat
      /\ queued_commands # <<>> /\ queued_commands' = Tail(queued_commands)
      /\ log \in Seq(Payload) /\ Len(log) \in Nat /\ life' = life
  BY DEF TypeOK, RunCommandQueues
<1>2. LogOrder
  BY DEF CommandOrder
<1>3. CASE life # "live"
  <2>1. log' = log
    BY <1>3 DEF RunCommandQueues
  <2>2. LogOrder'
    BY <1>1, <1>2, <2>1, KeepOrder
  <2>3. QED
    BY <1>1, <1>3, <2>2 DEF CommandOrder
<1>4. CASE life = "live"
  <2>1. /\ Len(queued_commands) <= Len(submitted)
        /\ \A i \in 1 .. Len(queued_commands) :
              queued_commands[i] = [id |-> Len(submitted) - Len(queued_commands) + i,
                                    size |-> submitted[Len(submitted) - Len(queued_commands) + i]]
        /\ \A d \in 1 .. Len(submitted) : \A j \in 1 .. submitted[d] :
              InLog(Piece(d, j)) <=> d <= Len(submitted) - Len(queued_commands)
    BY <1>4 DEF CommandOrder, NumberedCommands, Piece
  <2> DEFINE numbered == Len(submitted) - Len(queued_commands)
  <2>2. /\ Len(queued_commands) >= 1 /\ 1 \in 1 .. Len(queued_commands)
        /\ c = queued_commands[1] /\ c \in Command
        /\ Len(queued_commands') = Len(queued_commands) - 1
        /\ \A i \in 1 .. Len(queued_commands') : queued_commands'[i] = queued_commands[i + 1]
    BY <1>1
  <2>3. numbered \in Nat /\ numbered + 1 <= Len(submitted)
    BY <1>1, <2>1, <2>2
  <2>4. c.id = numbered + 1 /\ c.size = submitted[numbered + 1]
    <3>1. queued_commands[1] = [id |-> numbered + 1, size |-> submitted[numbered + 1]]
      BY <2>1, <2>2
    <3> HIDE DEF c, numbered
    <3>2. QED
      BY <2>2, <3>1
  <2>5. log' = log \o Chunks(c)
    BY <1>4 DEF RunCommandQueues, ProcessReliableSendCommand, Number
  <2>6. c.id \in 1 .. Len(submitted') /\ submitted'[c.id] = c.size
        /\ submitted' \in Seq(ChunkCounts)
    BY <1>1, <2>3, <2>4
  <2>7. \A d \in 1 .. Len(submitted) : \A j \in 1 .. submitted[d] :
           InLog(Piece(d, j)) <=> d < c.id
    BY <1>1, <2>1, <2>3, <2>4
  <2> HIDE DEF c, numbered
  <2>8. /\ LogOrder'
        /\ \A d \in 1 .. Len(submitted') : \A j \in 1 .. submitted'[d] :
              InLog(Piece(d, j))' <=> d <= c.id
    BY <1>1, <1>2, <2>2, <2>5, <2>6, <2>7, AddCommand
  <2>9. Len(submitted') - Len(queued_commands') = numbered + 1
    BY <1>1, <2>2 DEF numbered
  <2>10. ASSUME NEW i \in 1 .. Len(queued_commands')
         PROVE  queued_commands'[i] = [id |-> (numbered + 1) + i,
                                       size |-> submitted'[(numbered + 1) + i]]
    <3>1. i + 1 \in 1 .. Len(queued_commands) /\ numbered + (i + 1) = (numbered + 1) + i
      BY <1>1, <2>2, <2>3
    <3>2. queued_commands[i + 1] = [id |-> numbered + (i + 1), size |-> submitted[numbered + (i + 1)]]
      BY <2>1, <3>1 DEF numbered
    <3>3. QED
      BY <1>1, <2>2, <3>1, <3>2
  <2>11. Len(queued_commands') <= Len(submitted')
    BY <1>1, <2>1, <2>2
  <2>12. NumberedCommands' = numbered + 1
    BY <2>9 DEF NumberedCommands
  <2>13. \A d \in 1 .. Len(submitted') : \A j \in 1 .. submitted'[d] :
            InLog(Piece(d, j))' <=> d <= NumberedCommands'
    BY <2>4, <2>8, <2>12
  <2>14. \A i \in 1 .. Len(queued_commands') :
            queued_commands'[i] = [id |-> NumberedCommands' + i,
                                   size |-> submitted'[NumberedCommands' + i]]
    BY <2>10, <2>12
  <2>15. QED
    BY <2>8, <2>11, <2>13, <2>14 DEF CommandOrder, NumberedCommands, Piece, InLog
<1>5. QED
  BY <1>3, <1>4

(* Every step keeps the order.                                             *)
LEMMA OrderStep ==
    ASSUME TypeOK, CommandOrder, [Next]_vars
    PROVE  CommandOrder'
<1>1. TypeOK'
  BY TypeStep
<1>2. ASSUME NEW k \in ChunkCounts, PutReliableSendCommand(k) PROVE CommandOrder'
  BY <1>1, <1>2, OrderOfCommand DEF PutReliableSendCommand
<1>3. ASSUME CreatePeer \/ Ping PROVE CommandOrder'
  <2>1. \E control \in {PING, SET_PEER_ID} : log' = log \o <<control>>
    BY <1>3 DEF CreatePeer, Ping, RawSendAsPacket, Number
  <2>2. \A control \in {PING, SET_PEER_ID} : log \o <<control>> = Append(log, control)
    <3>1. log \in Seq(Payload) /\ {PING, SET_PEER_ID} \subseteq Payload
      BY ControlType DEF TypeOK
    <3>2. QED
      BY <3>1
  <2>3. UNCHANGED << submitted, queued_commands, life >>
    BY <1>3 DEF CreatePeer, Ping, RawSendAsPacket
  <2>4. QED
    BY <1>1, <2>1, <2>2, <2>3, OrderKept
<1>4. ASSUME DeletePeer PROVE CommandOrder'
  <2>1. /\ life' = "deleted" /\ log' = log /\ submitted' = submitted
        /\ Len(log) \in Nat /\ Len(submitted) \in Nat
    BY <1>4 DEF DeletePeer, TypeOK
  <2>2. LogOrder'
    BY <2>1, KeepOrder DEF CommandOrder
  <2>3. QED
    BY <2>1, <2>2 DEF CommandOrder
<1>5. ASSUME /\ log' = log
             /\ UNCHANGED << submitted, queued_commands >>
             /\ life' = "live" => life = "live"
      PROVE  CommandOrder'
  BY <1>1, <1>5, OrderKept
<1>6. ASSUME \/ SendQueued
             \/ \E p \in outgoing_reliables_sent : Resend(p)
             \/ ResendOne
             \/ \E d \in WindowSteps : UpdateTimers(d)
             \/ \E a \in acks, keep \in BOOLEAN : ReceiveAck(a, keep)
             \/ SetFullyOpen
             \/ DisconnectPeer
             \/ \E p \in wire, keep \in BOOLEAN : ReceiveReliable(p, keep)
             \/ Unbuffer
             \/ Lose
             \/ UNCHANGED vars
      PROVE  CommandOrder'
  BY <1>5, <1>6 DEF SendQueued, Resend, ResendOne, UpdateTimers, ReceiveAck, SetFullyOpen,
        DisconnectPeer, ReceiveReliable, Unbuffer, Lose, vars, sender
<1>7. QED
  BY <1>1, <1>2, <1>3, <1>4, <1>6, OrderOfQueue DEF Next

(* A command that waits is neither overtaken nor numbered twice or in      *)
(* part, for any number of commands of any size.                           *)
THEOREM CommandOrderHolds == Spec => []CommandOrder
<1>1. Init => TypeOK /\ CommandOrder
  BY ChannelAssumption DEF Init, TypeOK, CommandOrder, LogOrder, NumberedCommands
<1>2. TypeOK /\ CommandOrder /\ [Next]_vars => (TypeOK /\ CommandOrder)'
  BY TypeStep, OrderStep
<1>3. QED
  BY <1>1, <1>2, PTL DEF Spec

-----------------------------------------------------------------------------
(* The channel as a first-in first-out channel *)

(* The chunk that is numbered next after a chunk, or first of all, is the  *)
(* one that comes after it.                                                *)
LEMMA NextChunk ==
    ASSUME TypeOK, LogOrder, NEW n \in 1 .. Len(log), log[n].cmd # 0, NEW x,
           \/ /\ x = Piece(0, 0)
              /\ \A j \in 1 .. n - 1 : log[j].cmd = 0
           \/ \E i \in 1 .. n - 1 :
                 /\ x = log[i] /\ log[i].cmd # 0
                 /\ \A j \in i + 1 .. n - 1 : log[j].cmd = 0
    PROVE  log[n] = Fifo!After(x) /\ log[n].cmd <= Len(submitted)
<1>1. /\ Len(log) \in Nat /\ Len(submitted) \in Nat
      /\ \A d \in 1 .. Len(submitted) : submitted[d] \in Nat /\ submitted[d] >= 1
  <2>1. /\ log \in Seq(Payload) /\ submitted \in Seq(ChunkCounts)
        /\ \A s \in ChunkCounts : s \in Nat /\ s >= 1
    BY ChannelAssumption, WindowAssumption DEF TypeOK
  <2>2. QED
    BY <2>1
<1>2. \A m \in 1 .. Len(log) : log[m].cmd # 0 =>
         /\ log[m].cmd \in 1 .. Len(submitted)
         /\ log[m].chunk \in 1 .. submitted[log[m].cmd]
         /\ log[m] = Piece(log[m].cmd, log[m].chunk)
  BY LogPayload DEF LogOrder, IsChunk
<1> DEFINE c == log[n].cmd
           k == log[n].chunk
<1>3. /\ c \in 1 .. Len(submitted) /\ k \in 1 .. submitted[c] /\ log[n] = Piece(c, k)
      /\ submitted[c] \in Nat /\ c \in Nat /\ k \in Nat
  BY <1>1, <1>2
<1>4. ASSUME NEW d \in 1 .. Len(submitted), NEW l \in 1 .. submitted[d],
             d < c \/ (d = c /\ l < k)
      PROVE  \E j \in 1 .. n - 1 : log[j] = Piece(d, l)
  <2>1. Before(Piece(d, l), log[n])
    BY <1>4 DEF Before, Piece
  <2>2. PICK j \in 1 .. Len(log) : log[j] = Piece(d, l)
    BY <2>1 DEF LogOrder, InLog, Piece
  <2>3. log[j].cmd = d /\ log[j].chunk = l /\ d # 0
    BY <2>2 DEF Piece
  <2>4. j # n
    BY <1>4, <1>3, <2>3
  <2>5. ~ n < j
    <3> SUFFICES ASSUME n < j PROVE FALSE
      OBVIOUS
    <3>1. Before(log[n], log[j])
      BY <2>3 DEF LogOrder
    <3>2. c < d \/ (c = d /\ k < l)
      BY <2>3, <3>1 DEF Before
    <3>3. d \in Nat /\ l \in Nat
      BY <1>1
    <3>4. QED
      BY <1>3, <1>4, <3>2, <3>3
  <2>6. QED
    BY <1>1, <2>2, <2>4, <2>5
<1> HIDE DEF c, k
<1>5. CASE /\ x = Piece(0, 0)
           /\ \A j \in 1 .. n - 1 : log[j].cmd = 0
  <2>1. 1 \in 1 .. Len(submitted) /\ 1 \in 1 .. submitted[1]
    BY <1>1, <1>3
  <2>2. ~ (1 < c \/ (1 = c /\ 1 < k))
    <3> SUFFICES ASSUME 1 < c \/ (1 = c /\ 1 < k) PROVE FALSE
      OBVIOUS
    <3>1. PICK j \in 1 .. n - 1 : log[j] = Piece(1, 1)
      BY <1>4, <2>1
    <3>2. log[j].cmd = 1
      BY <3>1 DEF Piece
    <3>3. QED
      BY <1>5, <3>2
  <2>3. c = 1 /\ k = 1
    BY <1>3, <2>2
  <2>4. x.cmd = 0
    BY <1>5 DEF Piece
  <2>5. Fifo!After(x) = Piece(1, 1)
    BY <2>4 DEF Fifo!After, Piece
  <2>6. QED
    BY <1>3, <2>3, <2>5 DEF c
<1>6. ASSUME NEW i \in 1 .. n - 1, x = log[i], log[i].cmd # 0,
             \A j \in i + 1 .. n - 1 : log[j].cmd = 0
      PROVE  log[n] = Fifo!After(x)
  <2> DEFINE d == log[i].cmd
             l == log[i].chunk
  <2>1. i \in 1 .. Len(log) /\ i < n
    BY <1>1
  <2>2. /\ d \in 1 .. Len(submitted) /\ l \in 1 .. submitted[d]
        /\ submitted[d] \in Nat /\ d \in Nat /\ l \in Nat
    BY <1>1, <1>2, <1>6, <2>1
  <2>3. d < c \/ (d = c /\ l < k)
    BY <1>6, <2>1 DEF LogOrder, Before, c, k
  <2> HIDE DEF d, l
  <2>4. ASSUME NEW e \in 1 .. Len(submitted), NEW h \in 1 .. submitted[e],
               d < e \/ (d = e /\ l < h)
        PROVE  ~ (e < c \/ (e = c /\ h < k))
    <3> SUFFICES ASSUME e < c \/ (e = c /\ h < k) PROVE FALSE
      OBVIOUS
    <3>1. PICK j \in 1 .. n - 1 : log[j] = Piece(e, h)
      BY <1>4
    <3>2. log[j].cmd = e /\ log[j].chunk = h /\ e # 0 /\ j \in 1 .. Len(log)
      BY <1>1, <3>1 DEF Piece
    <3>3. ~ i < j
      BY <1>6, <3>2
    <3>4. j # i
      BY <1>1, <2>2, <2>4, <3>2 DEF d, l
    <3>5. Before(log[j], log[i])
      BY <1>6, <2>1, <3>2, <3>3, <3>4 DEF LogOrder
    <3>6. e < d \/ (e = d /\ h < l)
      BY <3>2, <3>5 DEF Before, d, l
    <3>7. e \in Nat /\ h \in Nat
      BY <1>1
    <3>8. QED
      BY <2>2, <2>4, <3>6, <3>7
  <2>5. CASE l < submitted[d]
    <3>1. l + 1 \in 1 .. submitted[d] /\ (d < d \/ (d = d /\ l < l + 1))
      BY <2>2, <2>5
    <3>2. ~ (d < c \/ (d = c /\ l + 1 < k))
      BY <2>2, <2>4, <3>1
    <3>3. c = d /\ k = l + 1
      BY <1>3, <2>2, <2>3, <3>2
    <3>4. x.cmd = d /\ x.chunk = l /\ d # 0
      BY <1>6 DEF d, l
    <3>5. Fifo!After(x) = Piece(d, l + 1)
      BY <2>5, <3>4 DEF Fifo!After, Piece
    <3>6. QED
      BY <1>3, <3>3, <3>5
  <2>6. CASE ~ l < submitted[d]
    <3>1. d < c
      BY <1>3, <2>2, <2>3, <2>6
    <3>2. d + 1 \in 1 .. Len(submitted) /\ 1 \in 1 .. submitted[d + 1] /\ d < d + 1
      BY <1>1, <1>3, <2>2, <3>1
    <3>3. ~ (d + 1 < c \/ (d + 1 = c /\ 1 < k))
      BY <2>4, <3>2
    <3>4. c = d + 1 /\ k = 1
      BY <1>3, <2>2, <3>1, <3>3
    <3>5. x.cmd = d /\ x.chunk = l
      BY <1>6 DEF d, l
    <3>6. Fifo!After(x) = Piece(d + 1, 1)
      BY <2>6, <3>5 DEF Fifo!After, Piece
    <3>7. QED
      BY <1>3, <3>4, <3>6
  <2>7. QED
    BY <2>5, <2>6
<1>7. log[n] = Fifo!After(x)
  BY <1>5, <1>6
<1>8. QED
  BY <1>3, <1>7 DEF c

(* A set of numbers that are at most N has a greatest one.                 *)
LEMMA GreatestNumber ==
    ASSUME NEW N \in Nat, NEW S \in SUBSET (1 .. N), S # {}
    PROVE  \E x \in S : \A y \in S : y <= x
<1> DEFINE T == {N - x : x \in S}
<1>1. T \in SUBSET Nat /\ T # {}
  <2>1. \A x \in S : N - x \in Nat
    OBVIOUS
  <2>2. QED
    BY <2>1
<1>2. PICK t \in T : \A u \in T : t <= u
  <2> HIDE DEF T
  <2>1. QED
    BY <1>1, LeastNumber
<1>3. PICK x \in S : t = N - x
  BY <1>2
<1>4. \A y \in S : N - x <= N - y
  BY <1>2, <1>3
<1>5. QED
  BY <1>4

(* What LastReceived is: the last chunk among the packets processed.       *)
LEMMA LastIs ==
    ASSUME IInv
    PROVE  \/ /\ UsersDelivered = {}
              /\ LastReceived = Piece(0, 0)
              /\ \A j \in 1 .. Len(delivered) : log[j].cmd = 0
           \/ \E i \in UsersDelivered :
                 /\ i \in 1 .. Len(delivered) /\ delivered[i] = i /\ log[i].cmd # 0
                 /\ i = CHOOSE j \in UsersDelivered : \A m \in UsersDelivered : m <= j
                 /\ LastReceived = log[i]
                 /\ \A j \in i + 1 .. Len(delivered) : log[j].cmd = 0
<1>1. /\ Len(delivered) \in Nat
      /\ \A i \in 1 .. Len(delivered) : delivered[i] = i
  BY IInvFacts DEF IInv, InOrder
<1>2. UsersDelivered = {i \in 1 .. Len(delivered) : log[i].cmd # 0}
  BY <1>1 DEF UsersDelivered
<1>3. CASE UsersDelivered = {}
  BY <1>2, <1>3 DEF LastReceived, Piece
<1>4. CASE UsersDelivered # {}
  <2> DEFINE i == CHOOSE j \in UsersDelivered : \A m \in UsersDelivered : m <= j
  <2>1. \E j \in UsersDelivered : \A m \in UsersDelivered : m <= j
    <3>1. UsersDelivered \in SUBSET (1 .. Len(delivered))
      BY <1>2
    <3>2. QED
      BY <1>1, <1>4, <3>1, GreatestNumber
  <2>2. i \in UsersDelivered /\ \A m \in UsersDelivered : m <= i
    BY <2>1
  <2>3. LastReceived = log[delivered[i]]
    BY <1>4 DEF LastReceived
  <2> HIDE DEF i
  <2>4. i \in 1 .. Len(delivered) /\ delivered[i] = i /\ log[i].cmd # 0
    BY <1>1, <1>2, <2>2
  <2>5. \A j \in i + 1 .. Len(delivered) : log[j].cmd = 0
    BY <1>1, <1>2, <2>2, <2>4
  <2>6. QED
    BY <2>2, <2>3, <2>4, <2>5 DEF i
<1>5. QED
  BY <1>3, <1>4

(* As long as no chunk is processed, the last one stays the last.          *)
LEMMA SameReceived ==
    ASSUME IInv, UsersDelivered' = UsersDelivered,
           \A i \in 1 .. Len(delivered) :
              delivered'[i] = delivered[i] /\ log'[delivered[i]] = log[delivered[i]]
    PROVE  LastReceived' = LastReceived
<1>1. CASE UsersDelivered = {}
  BY <1>1 DEF LastReceived
<1>2. CASE UsersDelivered # {}
  <2>1. PICK i \in 1 .. Len(delivered) :
            /\ i = CHOOSE j \in UsersDelivered : \A m \in UsersDelivered : m <= j
            /\ LastReceived = log[i] /\ delivered[i] = i
    BY <1>2, LastIs
  <2>2. LastReceived' = log'[delivered'[i]]
    BY <1>2, <2>1 DEF LastReceived
  <2>3. QED
    BY <2>1, <2>2
<1>3. QED
  BY <1>1, <1>2

(* The receiver keeps still and the log only grows.                        *)
LEMMA ReceivedStays ==
    ASSUME IInv, delivered' = delivered,
           \A n \in 1 .. Len(log) : log'[n] = log[n]
    PROVE  LastReceived' = LastReceived
<1>1. \A i \in 1 .. Len(delivered) : log'[delivered[i]] = log[delivered[i]]
  <2>1. \A i \in 1 .. Len(delivered) : delivered[i] = i /\ i \in 1 .. Len(log)
    BY IInvFacts DEF IInv, InOrder
  <2>2. QED
    BY <2>1
<1>2. UsersDelivered' = UsersDelivered
  BY <1>1 DEF UsersDelivered
<1>3. QED
  BY <1>1, <1>2, SameReceived

(* Processing the next packet is receiving the next chunk, or no step at   *)
(* all for a control packet.                                               *)
LEMMA ProcessIsReceive ==
    ASSUME IInv, CommandOrder, NEW p \in Underway, p.seq = next_incoming_seqnum,
           Process(p), UNCHANGED sender
    PROVE  Fifo!Receive \/ UNCHANGED Fifo!fvars
<1> DEFINE n == Len(delivered) + 1
<1>1. p.n = n
  BY ExpectedIsNext
<1>2. /\ TypeOK /\ Len(delivered) \in Nat /\ n \in 1 .. Len(log) /\ Len(log) \in Nat
      /\ \A i \in 1 .. Len(delivered) : delivered[i] = i
  BY <1>1, IInvFacts DEF IInv, InOrder
<1>3. /\ Len(delivered') = n /\ delivered'[n] = n
      /\ \A i \in 1 .. Len(delivered) : delivered'[i] = delivered[i]
      /\ log' = log
  BY <1>1, <1>2 DEF Process, TypeOK, sender
<1>4. \A i \in 1 .. n : delivered'[i] = i
  BY <1>2, <1>3
<1> HIDE DEF n
<1>5. UsersDelivered' = {i \in 1 .. n : log[i].cmd # 0}
  BY <1>3, <1>4 DEF UsersDelivered
<1>6. UsersDelivered = {i \in 1 .. Len(delivered) : log[i].cmd # 0}
  BY <1>2 DEF UsersDelivered
<1>7. CASE log[n].cmd = 0
  <2>1. UsersDelivered' = UsersDelivered
    BY <1>2, <1>5, <1>6, <1>7 DEF n
  <2>2. LastReceived' = LastReceived
    BY <1>3, <2>1, SameReceived
  <2>3. QED
    BY <2>2 DEF Fifo!fvars, sender
<1>8. CASE log[n].cmd # 0
  <2>1. n \in UsersDelivered' /\ \A m \in UsersDelivered' : m <= n
    BY <1>2, <1>5, <1>8 DEF n
  <2>2. n = CHOOSE j \in UsersDelivered' : \A m \in UsersDelivered' : m <= j
    <3>1. \A j \in UsersDelivered' : (\A m \in UsersDelivered' : m <= j) => j = n
      BY <1>2, <1>5, <2>1 DEF n
    <3>2. QED
      BY <2>1, <3>1
  <2>3. LastReceived' = log[n]
    <3>1. LastReceived' = log'[delivered'[n]]
      BY <2>1, <2>2 DEF LastReceived
    <3>2. QED
      BY <1>3, <3>1
  <2>4. /\ log[n] = Fifo!After(LastReceived) /\ log[n].cmd <= Len(submitted)
    <3>1. n - 1 = Len(delivered)
      BY <1>2 DEF n
    <3>2. \/ /\ LastReceived = Piece(0, 0)
             /\ \A j \in 1 .. n - 1 : log[j].cmd = 0
          \/ \E i \in 1 .. n - 1 :
                /\ LastReceived = log[i] /\ log[i].cmd # 0
                /\ \A j \in i + 1 .. n - 1 : log[j].cmd = 0
      BY <3>1, LastIs
    <3>3. QED
      BY <1>2, <1>8, <3>2, NextChunk DEF CommandOrder
  <2>5. QED
    BY <2>3, <2>4 DEF Fifo!Receive, sender
<1>9. QED
  BY <1>7, <1>8

(* Every step of the channel is one of the first-in first-out channel, or  *)
(* none at all.                                                            *)
LEMMA FifoStep ==
    ASSUME IInv, CommandOrder, [Next]_vars
    PROVE  Fifo!FNext \/ UNCHANGED Fifo!fvars
<1>1. /\ TypeOK /\ TypeOK' /\ log \in Seq(Payload) /\ submitted \in Seq(ChunkCounts)
  BY IInvFacts, TypeStep DEF TypeOK
<1>2. ASSUME delivered' = delivered,
             log' = log \/ \E s \in Seq(Payload) : log' = log \o s
      PROVE  LastReceived' = LastReceived
  <2>1. \A n \in 1 .. Len(log) : log'[n] = log[n]
    BY <1>1, <1>2, LogConcat
  <2>2. QED
    BY <1>2, <2>1, ReceivedStays
<1>3. ASSUME NEW k \in ChunkCounts, PutReliableSendCommand(k) PROVE Fifo!Accept
  <2> DEFINE c == [id |-> Len(submitted) + 1, size |-> k]
  <2>1. c \in Command
    BY <1>1 DEF Command
  <2>2. Chunks(c) \in Seq(Payload)
    BY <2>1, ChunksType
  <2>3. log' = log \/ log' = log \o Chunks(c)
    BY <1>3 DEF PutReliableSendCommand, ProcessReliableSendCommand, Number
  <2>4. LastReceived' = LastReceived
    BY <1>2, <1>3, <2>2, <2>3 DEF PutReliableSendCommand, receiver
  <2>5. /\ submitted' = Append(submitted, k) /\ Len(submitted') = Len(submitted) + 1
        /\ submitted'[Len(submitted')] = k /\ Len(submitted) \in Nat
    BY <1>1, <1>3 DEF PutReliableSendCommand
  <2>6. k \in Nat \ {0}
    BY ChannelAssumption, WindowAssumption
  <2>7. life = "live" /\ life' = life
    BY <1>3 DEF PutReliableSendCommand
  <2>8. QED
    BY <2>4, <2>5, <2>6, <2>7 DEF Fifo!Accept
<1>4. ASSUME RunCommandQueues PROVE UNCHANGED Fifo!fvars
  <2>1. Head(queued_commands) \in Command
    BY <1>1, <1>4 DEF RunCommandQueues, TypeOK
  <2>2. Chunks(Head(queued_commands)) \in Seq(Payload)
    BY <2>1, ChunksType
  <2>3. log' = log \/ log' = log \o Chunks(Head(queued_commands))
    BY <1>4 DEF RunCommandQueues, ProcessReliableSendCommand, Number
  <2>4. LastReceived' = LastReceived
    BY <1>2, <1>4, <2>2, <2>3 DEF RunCommandQueues, receiver
  <2>5. QED
    BY <1>4, <2>4 DEF RunCommandQueues, Fifo!fvars
<1>5. ASSUME CreatePeer \/ Ping PROVE UNCHANGED Fifo!fvars
  <2>1. \E control \in {PING, SET_PEER_ID} :
           log' = log \o <<control>> /\ <<control>> \in Seq(Payload)
    BY <1>5, ControlType DEF CreatePeer, Ping, RawSendAsPacket, Number
  <2>2. UNCHANGED << submitted, life, receiver >>
    BY <1>5 DEF CreatePeer, Ping, RawSendAsPacket
  <2>3. LastReceived' = LastReceived
    BY <1>2, <2>1, <2>2 DEF receiver
  <2>4. QED
    BY <2>2, <2>3 DEF Fifo!fvars
<1>6. ASSUME DisconnectPeer \/ DeletePeer PROVE Fifo!Close \/ UNCHANGED Fifo!fvars
  <2>1. /\ log' = log /\ submitted' = submitted /\ delivered' = delivered
        /\ life' # "live"
    BY <1>6 DEF DisconnectPeer, DeletePeer, receiver
  <2>2. LastReceived' = LastReceived
    BY <1>2, <2>1
  <2>3. QED
    BY <2>1, <2>2 DEF Fifo!Close, Fifo!fvars
<1>7. ASSUME log' = log, delivered' = delivered, UNCHANGED << submitted, life >>
      PROVE  UNCHANGED Fifo!fvars
  BY <1>2, <1>7 DEF Fifo!fvars
<1>8. ASSUME \/ SendQueued
             \/ \E p \in outgoing_reliables_sent : Resend(p)
             \/ ResendOne
             \/ \E d \in WindowSteps : UpdateTimers(d)
             \/ \E a \in acks, keep \in BOOLEAN : ReceiveAck(a, keep)
             \/ SetFullyOpen
             \/ Lose
             \/ UNCHANGED vars
      PROVE  UNCHANGED Fifo!fvars
  BY <1>7, <1>8 DEF SendQueued, Resend, ResendOne, UpdateTimers, ReceiveAck, SetFullyOpen,
        Lose, vars, sender, receiver
<1>9. ASSUME Unbuffer PROVE Fifo!Receive \/ UNCHANGED Fifo!fvars
  <2>1. PICK p \in incoming_reliables :
            p.seq = next_incoming_seqnum /\ Process(p) /\ UNCHANGED sender
    BY <1>9 DEF Unbuffer
  <2>2. QED
    BY <2>1, ProcessIsReceive DEF Underway
<1>10. ASSUME NEW p \in wire, NEW keep \in BOOLEAN, ReceiveReliable(p, keep)
       PROVE  Fifo!Receive \/ UNCHANGED Fifo!fvars
  <2>1. UNCHANGED sender /\ p \in Underway
    BY <1>10 DEF ReceiveReliable, Underway
  <2>2. CASE p.seq = next_incoming_seqnum /\ Process(p)
    BY <2>1, <2>2, ProcessIsReceive
  <2>3. CASE delivered' = delivered
    BY <1>7, <2>1, <2>3 DEF sender
  <2>4. QED
    BY <1>10, <2>2, <2>3 DEF ReceiveReliable, receiver
<1>11. QED
  BY <1>3, <1>4, <1>5, <1>6, <1>8, <1>9, <1>10 DEF Next, Fifo!FNext

(* A new channel is a new first-in first-out channel.                      *)
LEMMA FifoInit == Init => Fifo!FInit
<1> SUFFICES ASSUME Init PROVE Fifo!FInit
  OBVIOUS
<1>1. UsersDelivered = {}
  BY DEF Init, UsersDelivered
<1>2. QED
  BY <1>1 DEF Init, Fifo!FInit, LastReceived

\* The pings there are: the model bounds them.
PingsNumbered == Cardinality({i \in DOMAIN log : log[i] = PING}) <= MaxPings

(* The log of a step, and how many of its packets are pings.               *)
LEMMA PingsStep ==
    ASSUME TypeOK, CommandOrder, PingsNumbered, [Next]_vars
    PROVE  PingsNumbered'
<1> DEFINE Pings(lg) == {i \in DOMAIN lg : lg[i] = PING}
<1>1. /\ TypeOK' /\ log \in Seq(Payload) /\ log' \in Seq(Payload)
      /\ submitted \in Seq(ChunkCounts) /\ queued_commands \in Seq(Command)
  BY TypeStep DEF TypeOK
<1>2. ASSUME NEW s \in Seq(Payload), log' = log \o s,
             \A j \in 1 .. Len(s) : s[j] # PING
      PROVE  PingsNumbered'
  <2>1. /\ Len(log') = Len(log) + Len(s) /\ Len(log) \in Nat /\ Len(s) \in Nat
        /\ \A i \in 1 .. Len(log) : log'[i] = log[i]
        /\ \A j \in 1 .. Len(s) : log'[Len(log) + j] = s[j]
    BY <1>1, <1>2, LogConcat
  <2>2. \A i \in 1 .. Len(log') : log'[i] = PING => i \in 1 .. Len(log)
    <3> SUFFICES ASSUME NEW i \in 1 .. Len(log'), ~ i \in 1 .. Len(log)
                 PROVE  log'[i] # PING
      OBVIOUS
    <3>1. i - Len(log) \in 1 .. Len(s) /\ Len(log) + (i - Len(log)) = i
      BY <2>1
    <3>2. QED
      BY <1>2, <2>1, <3>1
  <2>3. DOMAIN log' = 1 .. Len(log') /\ DOMAIN log = 1 .. Len(log)
    BY <1>1
  <2>4. Pings(log') = Pings(log)
    BY <2>1, <2>2, <2>3
  <2>5. QED
    BY <2>4 DEF PingsNumbered
<1>3. ASSUME log' = log PROVE PingsNumbered'
  BY <1>3 DEF PingsNumbered
<1>4. ASSUME NEW c \in Command, c.id # 0, log' = log \o Chunks(c) PROVE PingsNumbered'
  <2>1. Chunks(c) \in Seq(Payload) /\ Len(Chunks(c)) = c.size
    BY ChunksType
  <2>2. \A j \in 1 .. Len(Chunks(c)) : Chunks(c)[j] # PING
    BY <1>4, <2>1 DEF Chunks, PING
  <2>3. QED
    BY <1>2, <1>4, <2>1, <2>2
<1>5. ASSUME NEW k \in ChunkCounts, PutReliableSendCommand(k) PROVE PingsNumbered'
  <2> DEFINE c == [id |-> Len(submitted) + 1, size |-> k]
  <2>1. c \in Command /\ c.id # 0
    BY <1>1 DEF Command
  <2>2. log' = log \/ log' = log \o Chunks(c)
    BY <1>5 DEF PutReliableSendCommand, ProcessReliableSendCommand, Number
  <2> HIDE DEF c
  <2>3. QED
    BY <1>3, <1>4, <2>1, <2>2
<1>6. ASSUME RunCommandQueues PROVE PingsNumbered'
  <2>1. CASE log' = log
    BY <1>3, <2>1
  <2>2. CASE life = "live" /\ log' = log \o Chunks(Head(queued_commands))
    <3>1. /\ 1 \in 1 .. Len(queued_commands) /\ Head(queued_commands) = queued_commands[1]
          /\ Head(queued_commands) \in Command
      BY <1>1, <1>6 DEF RunCommandQueues
    <3>2. /\ Len(queued_commands) <= Len(submitted)
          /\ queued_commands[1] = [id |-> NumberedCommands + 1,
                                   size |-> submitted[NumberedCommands + 1]]
      BY <2>2, <3>1 DEF CommandOrder
    <3>3. NumberedCommands + 1 # 0
      BY <1>1, <3>2 DEF NumberedCommands
    <3>4. Head(queued_commands).id # 0
      BY <3>1, <3>2, <3>3
    <3>5. QED
      BY <1>4, <2>2, <3>1, <3>4
  <2>3. QED
    BY <1>6, <2>1, <2>2 DEF RunCommandQueues, ProcessReliableSendCommand, Number
<1>7. ASSUME CreatePeer PROVE PingsNumbered'
  <2>1. log' = log \o <<SET_PEER_ID>>
    BY <1>7 DEF CreatePeer, RawSendAsPacket, Number
  <2>2. <<SET_PEER_ID>> \in Seq(Payload) /\ \A j \in 1 .. Len(<<SET_PEER_ID>>) : <<SET_PEER_ID>>[j] # PING
    BY ControlType DEF PING, SET_PEER_ID
  <2>3. QED
    BY <1>2, <2>1, <2>2
<1>8. ASSUME Ping PROVE PingsNumbered'
  <2>1. /\ log' = log \o <<PING>> /\ Cardinality(Pings(log)) < MaxPings
    BY <1>8 DEF Ping, RawSendAsPacket, Number
  <2>2. PING \in Payload
    BY ControlType
  <2>3. /\ Len(log') = Len(log) + 1 /\ Len(log) \in Nat
        /\ \A i \in 1 .. Len(log) : log'[i] = log[i]
        /\ log'[Len(log) + 1] = PING
        /\ DOMAIN log' = 1 .. Len(log') /\ DOMAIN log = 1 .. Len(log)
    <3>1. log' = Append(log, PING)
      BY <1>1, <2>1, <2>2
    <3>2. QED
      BY <1>1, <2>2, <3>1
  <2>4. Pings(log') = Pings(log) \cup {Len(log) + 1} /\ Len(log) + 1 \notin Pings(log)
    BY <2>3
  <2>5. IsFiniteSet(Pings(log))
    <3>1. IsFiniteSet(1 .. Len(log)) /\ Pings(log) \in SUBSET (1 .. Len(log))
      BY <2>3, FS_Interval
    <3>2. QED
      BY <3>1, FS_Subset
  <2> HIDE DEF Pings
  <2>6. Cardinality(Pings(log')) = Cardinality(Pings(log)) + 1
        /\ Cardinality(Pings(log)) \in Nat
    BY <2>4, <2>5, FS_AddElement, FS_CardinalityType
  <2>7. Cardinality(Pings(log')) <= MaxPings
    BY <2>1, <2>6, ChannelAssumption
  <2>8. QED
    BY <2>7 DEF PingsNumbered, Pings
<1>9. ASSUME \/ SendQueued
             \/ \E p \in outgoing_reliables_sent : Resend(p)
             \/ ResendOne
             \/ \E d \in WindowSteps : UpdateTimers(d)
             \/ \E a \in acks, keep \in BOOLEAN : ReceiveAck(a, keep)
             \/ SetFullyOpen \/ DisconnectPeer \/ DeletePeer
             \/ \E p \in wire, keep \in BOOLEAN : ReceiveReliable(p, keep)
             \/ Unbuffer
             \/ Lose
             \/ UNCHANGED vars
      PROVE  PingsNumbered'
  BY <1>3, <1>9 DEF SendQueued, Resend, ResendOne, UpdateTimers, ReceiveAck, SetFullyOpen,
        DisconnectPeer, DeletePeer, ReceiveReliable, Unbuffer, Lose, vars, sender
<1>10. QED
  BY <1>5, <1>6, <1>7, <1>8, <1>9 DEF Next

(* No packet has more pings after it than there are.                       *)
LEMMA FewPings ==
    ASSUME NEW lg \in Seq(Payload), NEW q \in Seq(Packet),
           Cardinality({m \in DOMAIN lg : lg[m] = PING}) <= MaxPings
    PROVE  \A i \in 1 .. Len(q) : Cardinality(PingsIn(lg, q[i].n)) <= MaxPings
<1> SUFFICES ASSUME NEW i \in 1 .. Len(q)
             PROVE  Cardinality(PingsIn(lg, q[i].n)) <= MaxPings
  OBVIOUS
<1> DEFINE n == q[i].n
           Pings == {m \in DOMAIN lg : lg[m] = PING}
<1>1. n \in Nat /\ Len(lg) \in Nat /\ DOMAIN lg = 1 .. Len(lg)
  <2>1. q[i] \in Packet
    OBVIOUS
  <2>2. QED
    BY <2>1 DEF Packet
<1> HIDE DEF n
<1>2. PingsIn(lg, n) \subseteq Pings
  BY <1>1 DEF PingsIn
<1>3. IsFiniteSet(Pings)
  <2>1. IsFiniteSet(1 .. Len(lg)) /\ Pings \in SUBSET (1 .. Len(lg))
    BY <1>1, FS_Interval
  <2>2. QED
    BY <2>1, FS_Subset
<1>4. Cardinality(Pings) <= MaxPings
  OBVIOUS
<1> HIDE DEF Pings
<1>5. /\ Cardinality(PingsIn(lg, n)) <= Cardinality(Pings)
      /\ Cardinality(PingsIn(lg, n)) \in Nat /\ Cardinality(Pings) \in Nat
  BY <1>2, <1>3, FS_Subset, FS_CardinalityType
<1>6. QED
  BY <1>4, <1>5, ChannelAssumption DEF n

(* With no assumption on the run: on a ring that is wide against the       *)
(* window, the queue, the largest command and the pings, the channel       *)
(* delivers in order and exactly once, forgets nothing and acknowledges    *)
(* only what it has.                                                       *)
THEOREM ChannelHolds ==
    ASSUME NEW K, RingIsWide(K, MaxPings)
    PROVE  Spec => [](SpreadOK /\ InOrder /\ NoLoss /\ AckedIsHeld)
<1> DEFINE I == /\ IInv /\ SpreadInv(K, MaxPings) /\ SpreadOK
                /\ CommandOrder /\ PingsNumbered
<1>1. Init => I
  <2> SUFFICES ASSUME Init PROVE I
    OBVIOUS
  <2>1. IInv /\ SpreadInv(K, MaxPings) /\ SpreadOK
    BY InitIInv, InitSpread
  <2>2. CommandOrder
    BY DEF Init, CommandOrder, LogOrder, NumberedCommands
  <2>3. PingsNumbered
    <3>1. {i \in DOMAIN log : log[i] = PING} = {}
      BY DEF Init
    <3>2. QED
      BY <3>1, FS_EmptySet, ChannelAssumption DEF PingsNumbered
  <2>4. QED
    BY <2>1, <2>2, <2>3
<1>2. I /\ [Next]_vars => I'
  <2> SUFFICES ASSUME I, [Next]_vars PROVE I'
    OBVIOUS
  <2>1. TypeOK /\ TypeOK' /\ CommandOrder' /\ PingsNumbered'
    BY IInvFacts, TypeStep, OrderStep, PingsStep
  <2>2. PingsAtMost(MaxPings)
    BY <2>1, FewPings DEF TypeOK, PingsNumbered, PingsAtMost, PingsAfter, PingsIn
  <2>3. PingsAtMost(MaxPings)'
    BY <2>1, FewPings DEF TypeOK, PingsNumbered, PingsAtMost, PingsAfter, PingsIn
  <2>4. SpreadInv(K, MaxPings)' /\ SpreadOK'
    BY <2>2, <2>3, SpreadStep
  <2>5. IInv'
    BY <2>4, IInvStep
  <2>6. QED
    BY <2>1, <2>4, <2>5
<1>3. I => SpreadOK /\ InOrder /\ NoLoss /\ AckedIsHeld
  BY DEF IInv
<1>4. QED
  BY <1>1, <1>2, <1>3, PTL DEF Spec

(* The channel implements the first-in first-out channel as long as the    *)
(* numbering stays less than half a ring ahead.                            *)
THEOREM FifoHolds == Spec /\ []SpreadOK => ImplementsFifo
<1>1. Init => IInv /\ CommandOrder /\ Fifo!FInit
  <2> SUFFICES ASSUME Init PROVE IInv /\ CommandOrder /\ Fifo!FInit
    OBVIOUS
  <2>1. CommandOrder
    BY DEF Init, CommandOrder, LogOrder, NumberedCommands
  <2>2. QED
    BY <2>1, InitIInv, FifoInit
<1>2. IInv /\ CommandOrder /\ [Next]_vars /\ SpreadOK /\ SpreadOK'
          => /\ IInv' /\ CommandOrder'
             /\ [Fifo!FNext]_(Fifo!fvars)
  BY IInvFacts, IInvStep, OrderStep, FifoStep
<1>3. QED
  BY <1>1, <1>2, PTL DEF Spec, ImplementsFifo, Fifo!FSpec

(* So it does with no assumption on the run, on a ring that is wide.       *)
COROLLARY FifoOnWideRing ==
    ASSUME NEW K, RingIsWide(K, MaxPings)
    PROVE  Spec => ImplementsFifo
<1>1. Spec => []SpreadOK
  BY ChannelHolds, PTL
<1>2. QED
  BY <1>1, FifoHolds
=============================================================================
