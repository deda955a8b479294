------------------------- MODULE SplitPacketsProofs -------------------------
(***************************************************************************)
(* Theorems about SplitPackets: nobody is handed a message made of         *)
(* another's chunks, and reliable messages are handed on in order, none    *)
(* left out, though they share numbers and buffer with unreliable ones.    *)
(***************************************************************************)
EXTENDS SplitPackets, FiniteSetTheorems, TLAPS

Chunk == [seqnum : 0 .. SplitNumbers - 1, chunk_count : Nat \ {0},
          chunk_num : Nat \ {0}, message : Nat \ {0}]

Told == [reliable : BOOLEAN, chunk_count : Nat \ {0}]

\* The chunks of a message that have come: their numbers, and where from.
Parts == UNION {[nums -> Nat \ {0}] : nums \in SUBSET (Nat \ {0})}

Entry == [reliable : BOOLEAN, chunk_count : Nat \ {0}, chunks : Parts]

SplitTypes ==
    /\ next_outgoing_split_seqnum \in 0 .. SplitNumbers - 1
    /\ sent \in Seq(Told)
    /\ stream \in Seq(Chunk)
    /\ datagrams \subseteq Chunk
    /\ m_buf \in [DOMAIN m_buf -> Entry]
    /\ delivered \in [reliable : Seq(Parts), unreliable : SUBSET Parts]

-----------------------------------------------------------------------------
(* The invariant *)

\* A chunk is one of the message it says, among the messages msgs.
IsOf(msgs, chunk, reliable) ==
    /\ chunk.message \in DOMAIN msgs /\ msgs[chunk.message].reliable = reliable
    /\ chunk.chunk_count = msgs[chunk.message].chunk_count
    /\ chunk.chunk_num \in 1 .. chunk.chunk_count

ChunksOK ==
    /\ \A i \in DOMAIN stream : IsOf(sent, stream[i], TRUE)
    /\ \A chunk \in datagrams : IsOf(sent, chunk, FALSE)

\* Unreliable chunks under way with one number are of one message, and no
\* reliable chunk has that number meanwhile.
NumbersApart ==
    /\ \A c, d \in datagrams : \A n \in 0 .. SplitNumbers - 1 :
          HasNumber(c, n) /\ HasNumber(d, n) => c.message = d.message
    /\ \A c \in datagrams : \A i \in DOMAIN stream : \A n \in 0 .. SplitNumbers - 1 :
          HasNumber(c, n) => ~ HasNumber(stream[i], n)

\* Message m is the next reliable one after message l.
NextReliable(msgs, l, m) ==
    l < m /\ \A k \in DOMAIN msgs : msgs[k].reliable /\ l < k => m <= k

\* The chunk that the stream has after chunk c.
Follows(msgs, c, d) ==
    \/ /\ c.chunk_num < c.chunk_count
       /\ d = [c EXCEPT !.chunk_num = @ + 1]
    \/ /\ c.chunk_num = c.chunk_count
       /\ d.chunk_num = 1
       /\ NextReliable(msgs, c.message, d.message)

StreamOK ==
    /\ \A i \in DOMAIN stream :
          i + 1 \in DOMAIN stream => Follows(sent, stream[i], stream[i + 1])
    /\ stream # << >> =>
          /\ stream[Len(stream)].chunk_num = stream[Len(stream)].chunk_count
          /\ \A m \in DOMAIN sent : sent[m].reliable => m <= stream[Len(stream)].message

\* What the receiver has of the stream is what was sent before its head.
HeadOK ==
    stream # << >> =>
        /\ \A m \in DOMAIN sent : sent[m].reliable /\ m < stream[1].message => IsDelivered(m)
        /\ \A i \in DOMAIN delivered.reliable : Message(i) < stream[1].message
        /\ stream[1].chunk_num > 1 =>
              stream[1].seqnum \in DOMAIN m_buf /\ m_buf[stream[1].seqnum].reliable

\* The only reliable message in the buffer is the one at the stream's head.
ReliableEntry(n) ==
    /\ stream # << >> /\ HasNumber(stream[1], n) /\ stream[1].chunk_num > 1
    /\ m_buf[n].chunk_count = stream[1].chunk_count
    /\ m_buf[n].chunks = [num \in 1 .. stream[1].chunk_num - 1 |-> stream[1].message]
    /\ \A c \in datagrams : ~ HasNumber(c, n)

\* An unreliable one is of one message, and so is what may still come for it.
UnreliableEntry(n) ==
    \E m \in DOMAIN sent :
        /\ ~ sent[m].reliable
        /\ m_buf[n].chunk_count = sent[m].chunk_count
        /\ DOMAIN m_buf[n].chunks \subseteq 1 .. sent[m].chunk_count
        /\ \A num \in DOMAIN m_buf[n].chunks : m_buf[n].chunks[num] = m
        /\ \A c \in datagrams : HasNumber(c, n) => c.message = m
        /\ \A i \in DOMAIN stream : ~ HasNumber(stream[i], n)

BufferOK ==
    \A n \in DOMAIN m_buf :
        IF m_buf[n].reliable THEN ReliableEntry(n) ELSE UnreliableEntry(n)

SplitInv ==
    /\ SplitTypes /\ ChunksOK /\ NumbersApart /\ StreamOK /\ HeadOK /\ BufferOK
    /\ Reassembled

-----------------------------------------------------------------------------
(* The code's helpers *)

(* One more chunk of a message.                                            *)
LEMMA WithIsParts ==
    ASSUME NEW f \in Parts, NEW x \in Nat \ {0}, NEW y \in Nat \ {0}
    PROVE  With(f, x, y) \in Parts
<1>1. PICK nums \in SUBSET (Nat \ {0}) : f \in [nums -> Nat \ {0}]
  BY DEF Parts
<1>2. With(f, x, y) \in [nums \cup {x} -> Nat \ {0}]
  BY <1>1 DEF With
<1>3. nums \cup {x} \in SUBSET (Nat \ {0})
  OBVIOUS
<1>4. QED
  BY <1>2, <1>3 DEF Parts

(* A message put together, or begun: all its chunks come from it.          *)
LEMMA UniformIsParts ==
    ASSUME NEW k \in Nat, NEW m \in Nat \ {0}
    PROVE  [num \in 1 .. k |-> m] \in Parts
<1>1. [num \in 1 .. k |-> m] \in [1 .. k -> Nat \ {0}]
  OBVIOUS
<1>2. 1 .. k \in SUBSET (Nat \ {0})
  OBVIOUS
<1>3. QED
  BY <1>1, <1>2 DEF Parts

(* IncomingSplitPacket::allReceived counts the chunks: that many different *)
(* ones of that many are all of them.                                      *)
LEMMA AllReceivedIsAll ==
    ASSUME NEW chunks, NEW k \in Nat, DOMAIN chunks \subseteq 1 .. k
    PROVE  AllReceived(chunks, k) <=> DOMAIN chunks = 1 .. k
<1>1. IsFiniteSet(1 .. k) /\ Cardinality(1 .. k) = k
  BY FS_Interval
<1>2. QED
  BY <1>1, FS_Subset DEF AllReceived

(* The invariant's first state.                                            *)
LEMMA InitSplit == InitSplitPackets => SplitInv
<1> SUFFICES ASSUME InitSplitPackets PROVE SplitInv
  OBVIOUS
<1> USE SplitPacketsAssumption DEF InitSplitPackets
<1>1. SplitTypes
  BY DEF SplitTypes
<1>2. ChunksOK /\ NumbersApart /\ StreamOK /\ HeadOK /\ BufferOK
  BY DEF ChunksOK, NumbersApart, StreamOK, HeadOK, BufferOK
<1>3. Reassembled
  BY DEF Reassembled, IsDelivered, Message
<1>4. QED
  BY <1>1, <1>2, <1>3 DEF SplitInv

-----------------------------------------------------------------------------
(* The sender *)

(* What is known of the messages sent.                                     *)
LEMMA SentTypes ==
    ASSUME SplitTypes
    PROVE  /\ Len(sent) \in Nat /\ DOMAIN sent = 1 .. Len(sent)
           /\ \A m \in DOMAIN sent : m \in Nat \ {0} /\ m < Len(sent) + 1
           /\ \A m \in DOMAIN sent : /\ sent[m].reliable \in BOOLEAN
                                     /\ sent[m].chunk_count \in Nat \ {0}
<1>1. sent \in Seq(Told)
  BY DEF SplitTypes
<1>2. Len(sent) \in Nat /\ DOMAIN sent = 1 .. Len(sent)
  BY <1>1
<1>3. \A m \in DOMAIN sent : sent[m] \in Told
  BY <1>1
<1>4. QED
  BY <1>2, <1>3 DEF Told

(* A message is accepted: what a step of the sender does to sent.          *)
LEMMA Accepted ==
    ASSUME SplitTypes, NEW count \in ChunkCounts, NEW reliable \in BOOLEAN,
           Accept(count, reliable)
    PROVE  /\ sent' \in Seq(Told)
           /\ Len(sent) \in Nat /\ DOMAIN sent = 1 .. Len(sent)
           /\ DOMAIN sent' = 1 .. Len(sent) + 1
           /\ \A m \in DOMAIN sent : sent'[m] = sent[m]
           /\ sent'[Len(sent) + 1] = [reliable |-> reliable, chunk_count |-> count]
           /\ next_outgoing_split_seqnum' \in 0 .. SplitNumbers - 1
           /\ count \in Nat \ {0}
<1>1. count \in Nat \ {0} /\ SplitNumbers \in Nat \ {0}
  BY SplitPacketsAssumption
<1>2. next_outgoing_split_seqnum' \in 0 .. SplitNumbers - 1
  BY <1>1 DEF Accept, NumberSpent, SplitTypes
<1>3. [reliable |-> reliable, chunk_count |-> count] \in Told
  BY <1>1 DEF Told
<1>4. QED
  BY <1>1, <1>2, <1>3 DEF Accept, SplitTypes

\* makeSplitPacket's chunk number num.
Made(count, num) ==
    [seqnum |-> next_outgoing_split_seqnum, chunk_count |-> count,
     chunk_num |-> num, message |-> Len(sent) + 1]

(* The chunks the sender makes of it.                                      *)
LEMMA ChunksMade ==
    ASSUME SplitTypes, NEW count \in Nat \ {0}
    PROVE  /\ Chunks(count) \in Seq(Chunk)
           /\ Len(Chunks(count)) = count
           /\ \A num \in 1 .. count :
                 Chunks(count)[num] = Made(count, num) /\ Made(count, num) \in Chunk
           /\ Range(Chunks(count)) = {Made(count, num) : num \in 1 .. count}
<1>1. Len(sent) + 1 \in Nat \ {0}
  BY DEF SplitTypes
<1>2. \A num \in 1 .. count : Made(count, num) \in Chunk
  BY <1>1 DEF Chunk, SplitTypes, Made
<1>3. Chunks(count) = [num \in 1 .. count |-> Made(count, num)]
  BY DEF Chunks, Made
<1>4. Chunks(count) \in Seq(Chunk) /\ Len(Chunks(count)) = count
  BY <1>2, <1>3
<1>5. QED
  BY <1>2, <1>3, <1>4 DEF Range

(* What was sent before is as it was; the properties of messages are, too. *)
LEMMA SentKept ==
    ASSUME SplitTypes, NEW count \in ChunkCounts, NEW reliable \in BOOLEAN,
           Accept(count, reliable)
    PROVE  /\ \A m \in DOMAIN sent : m \in DOMAIN sent' /\ m < Len(sent) + 1
           /\ \A m \in DOMAIN sent : Whole(m)' = Whole(m)
           /\ \A c : \A r \in BOOLEAN : IsOf(sent, c, r) => IsOf(sent', c, r)
<1>1. \A m \in DOMAIN sent : m \in DOMAIN sent' /\ m < Len(sent) + 1
  <2>1. DOMAIN sent = 1 .. Len(sent) /\ DOMAIN sent' = 1 .. Len(sent) + 1 /\ Len(sent) \in Nat
    BY Accepted
  <2>2. QED
    BY <2>1
<1>2. \A m \in DOMAIN sent : Whole(m)' = Whole(m)
  BY Accepted DEF Whole
<1>3. ASSUME NEW c, NEW r \in BOOLEAN, IsOf(sent, c, r) PROVE IsOf(sent', c, r)
  <2>1. c.message \in DOMAIN sent /\ sent[c.message].reliable = r
        /\ c.chunk_count = sent[c.message].chunk_count /\ c.chunk_num \in 1 .. c.chunk_count
    BY <1>3 DEF IsOf
  <2>2. sent'[c.message] = sent[c.message] /\ c.message \in DOMAIN sent'
    BY <1>1, <2>1, Accepted
  <2>3. QED
    BY <2>1, <2>2 DEF IsOf
<1>4. QED
  BY <1>1, <1>2, <1>3

(* The chunks of a message just accepted are its own.                      *)
LEMMA MadeIsOf ==
    ASSUME SplitTypes, NEW count \in ChunkCounts, NEW reliable \in BOOLEAN,
           Accept(count, reliable), NEW num \in 1 .. count
    PROVE  IsOf(sent', Made(count, num), reliable)
<1>1. /\ Len(sent) \in Nat /\ DOMAIN sent' = 1 .. Len(sent) + 1
      /\ sent'[Len(sent) + 1] = [reliable |-> reliable, chunk_count |-> count]
  BY Accepted
<1>2. QED
  BY <1>1 DEF IsOf, Made

(* What has been handed on stays so when messages are accepted.            *)
LEMMA DeliveredKept ==
    ASSUME SplitTypes, Reassembled, NEW count \in ChunkCounts, NEW reliable \in BOOLEAN,
           Accept(count, reliable), UNCHANGED delivered
    PROVE  /\ \A chunks \in delivered'.unreliable :
                 \E m \in DOMAIN sent' : ~ sent'[m].reliable /\ chunks = Whole(m)'
           /\ \A i \in DOMAIN delivered'.reliable :
                 \E m \in DOMAIN sent' : sent'[m].reliable /\ delivered'.reliable[i] = Whole(m)'
           /\ \A i \in DOMAIN delivered.reliable :
                 Message(i)' = Message(i) /\ Message(i) \in DOMAIN sent
           /\ \A m : IsDelivered(m)' <=> IsDelivered(m)
<1>1. \A m \in DOMAIN sent : m \in DOMAIN sent' /\ sent'[m] = sent[m] /\ Whole(m)' = Whole(m)
  BY SentKept, Accepted
<1>2. ASSUME NEW chunks \in delivered'.unreliable
      PROVE  \E m \in DOMAIN sent' : ~ sent'[m].reliable /\ chunks = Whole(m)'
  BY <1>1, <1>2 DEF Reassembled
<1>3. ASSUME NEW i \in DOMAIN delivered'.reliable
      PROVE  \E m \in DOMAIN sent' : sent'[m].reliable /\ delivered'.reliable[i] = Whole(m)'
  BY <1>1, <1>3 DEF Reassembled
<1>4. ASSUME NEW i \in DOMAIN delivered.reliable
      PROVE  Message(i)' = Message(i) /\ Message(i) \in DOMAIN sent
  <2>1. PICK m \in DOMAIN sent : delivered.reliable[i] = Whole(m)
    BY <1>4 DEF Reassembled
  <2>2. 1 \in 1 .. sent[m].chunk_count
    <3>1. sent[m].chunk_count \in Nat \ {0}
      BY SentTypes
    <3>2. QED
      BY <3>1
  <2>3. Message(i) = m
    BY <2>1, <2>2 DEF Message, Whole
  <2>4. QED
    BY <2>3 DEF Message
<1>5. ASSUME NEW m PROVE IsDelivered(m)' <=> IsDelivered(m)
  BY DEF IsDelivered, Message
<1>6. QED
  BY <1>2, <1>3, <1>4, <1>5

(* Chunks put after others.                                                *)
LEMMA ChunksJoined ==
    ASSUME NEW s \in Seq(Chunk), NEW t \in Seq(Chunk)
    PROVE  /\ s \o t \in Seq(Chunk) /\ Len(s) \in Nat /\ Len(t) \in Nat
           /\ DOMAIN s = 1 .. Len(s) /\ Len(s \o t) = Len(s) + Len(t)
           /\ DOMAIN (s \o t) = 1 .. Len(s) + Len(t)
           /\ \A i \in 1 .. Len(s) : (s \o t)[i] = s[i]
           /\ \A i \in 1 .. Len(s) + Len(t) : i > Len(s) => (s \o t)[i] = t[i - Len(s)]
OBVIOUS

(* The reliable stream with the chunks of a message at its end.            *)
LEMMA StreamGrows ==
    ASSUME SplitTypes, NEW count \in ChunkCounts, SendReliable(count)
    PROVE  /\ stream' \in Seq(Chunk) /\ Len(stream) \in Nat /\ count \in Nat \ {0}
           /\ DOMAIN stream = 1 .. Len(stream)
           /\ Len(stream') = Len(stream) + count
           /\ DOMAIN stream' = 1 .. Len(stream) + count
           /\ \A i \in DOMAIN stream : i \in DOMAIN stream' /\ stream'[i] = stream[i]
           /\ \A i \in DOMAIN stream' :
                 \/ i \in DOMAIN stream
                 \/ i - Len(stream) \in 1 .. count /\ stream'[i] = Made(count, i - Len(stream))
           /\ stream' # << >>
<1>1. count \in Nat \ {0}
  BY SplitPacketsAssumption
<1>2. stream \in Seq(Chunk) /\ stream' = stream \o Chunks(count)
  BY DEF SplitTypes, SendReliable
<1>3. Chunks(count) \in Seq(Chunk) /\ Len(Chunks(count)) = count
      /\ \A num \in 1 .. count : Chunks(count)[num] = Made(count, num)
  BY <1>1, ChunksMade
<1>4. stream' \in Seq(Chunk) /\ Len(stream') = Len(stream) + count /\ Len(stream) \in Nat
      /\ DOMAIN stream = 1 .. Len(stream) /\ DOMAIN stream' = 1 .. Len(stream) + count
  BY <1>2, <1>3, ChunksJoined
<1>5. \A i \in DOMAIN stream : i \in DOMAIN stream' /\ stream'[i] = stream[i]
  BY <1>1, <1>2, <1>3, <1>4, ChunksJoined
<1>6. ASSUME NEW i \in DOMAIN stream', i \notin DOMAIN stream
      PROVE  i - Len(stream) \in 1 .. count /\ stream'[i] = Made(count, i - Len(stream))
  <2>1. i \in Nat /\ i > Len(stream) /\ i <= Len(stream) + count
    BY <1>1, <1>4, <1>6
  <2>2. i - Len(stream) \in 1 .. count
    BY <1>1, <1>4, <2>1
  <2>3. stream'[i] = Chunks(count)[i - Len(stream)]
    BY <1>2, <1>3, <1>4, <2>1, ChunksJoined
  <2>4. QED
    BY <1>3, <2>2, <2>3
<1>7. stream' # << >>
  BY <1>1, <1>4
<1>8. QED
  BY <1>1, <1>4, <1>5, <1>6, <1>7

(* Sending a reliable message keeps the invariant.                         *)
LEMMA SendReliableKeeps ==
    ASSUME SplitInv, NEW count \in ChunkCounts, SendReliable(count)
    PROVE  SplitInv'
<1>0. /\ SplitTypes /\ ChunksOK /\ NumbersApart /\ StreamOK /\ HeadOK /\ BufferOK /\ Reassembled
      /\ Accept(count, TRUE) /\ UNCHANGED << datagrams, m_buf, delivered >>
      /\ count \in Nat \ {0}
  BY SplitPacketsAssumption DEF SplitInv, SendReliable
<1> DEFINE n0 == next_outgoing_split_seqnum
           new == Len(sent) + 1
           l == Len(stream)
<1>1. /\ Len(sent) \in Nat /\ DOMAIN sent = 1 .. Len(sent) /\ DOMAIN sent' = 1 .. new
      /\ \A m \in DOMAIN sent : sent'[m] = sent[m] /\ m \in DOMAIN sent' /\ m < new
      /\ sent'[new] = [reliable |-> TRUE, chunk_count |-> count]
      /\ sent' \in Seq(Told) /\ next_outgoing_split_seqnum' \in 0 .. SplitNumbers - 1
  BY <1>0, Accepted, SentKept
<1>2. /\ stream' \in Seq(Chunk) /\ l \in Nat /\ DOMAIN stream = 1 .. l /\ Len(stream') = l + count
      /\ DOMAIN stream' = 1 .. l + count /\ stream' # << >>
      /\ \A i \in DOMAIN stream : i \in DOMAIN stream' /\ stream'[i] = stream[i]
      /\ \A i \in DOMAIN stream' : i \in DOMAIN stream
            \/ (i - l \in 1 .. count /\ stream'[i] = Made(count, i - l))
  BY <1>0, StreamGrows
<1>3. SplitTypes'
  BY <1>0, <1>1, <1>2 DEF SplitTypes
<1>4. ChunksOK'
  <2>1. ASSUME NEW i \in DOMAIN stream' PROVE IsOf(sent', stream'[i], TRUE)
    <3>1. CASE i \in DOMAIN stream
      BY <1>0, <1>2, <3>1, SentKept DEF ChunksOK
    <3>2. CASE i - l \in 1 .. count /\ stream'[i] = Made(count, i - l)
      BY <1>0, <3>2, MadeIsOf
    <3>3. QED
      BY <1>2, <3>1, <3>2
  <2>2. ASSUME NEW c \in datagrams' PROVE IsOf(sent', c, FALSE)
    BY <1>0, <2>2, SentKept DEF ChunksOK
  <2>3. QED
    BY <2>1, <2>2 DEF ChunksOK
<1>5. \A c \in datagrams : \A n : HasNumber(c, n) => \A i \in DOMAIN stream' \ DOMAIN stream :
         ~ HasNumber(stream'[i], n)
  <2> SUFFICES ASSUME NEW c \in datagrams, NEW n, HasNumber(c, n),
                      NEW i \in DOMAIN stream' \ DOMAIN stream, HasNumber(stream'[i], n)
               PROVE  FALSE
    OBVIOUS
  <2>1. stream'[i] = Made(count, i - l)
    BY <1>2
  <2>2. n = n0 /\ count > 1
    BY <2>1 DEF HasNumber, Made
  <2>3. QED
    BY <1>0, <2>2 DEF Accept, NotAround
<1>6. NumbersApart'
  <2>1. (\A c, d \in datagrams : \A n \in 0 .. SplitNumbers - 1 :
            HasNumber(c, n) /\ HasNumber(d, n) => c.message = d.message)'
    BY <1>0 DEF NumbersApart, HasNumber
  <2>2. ASSUME NEW c \in datagrams', NEW i \in DOMAIN stream', NEW n \in 0 .. SplitNumbers - 1,
               HasNumber(c, n)
        PROVE  ~ HasNumber(stream'[i], n)
    <3>1. CASE i \in DOMAIN stream
      BY <1>0, <1>2, <2>2, <3>1 DEF NumbersApart
    <3>2. CASE i \notin DOMAIN stream
      BY <1>0, <1>5, <2>2, <3>2
    <3>3. QED
      BY <3>1, <3>2
  <2>3. QED
    BY <2>1, <2>2 DEF NumbersApart, HasNumber
<1>7. \A c, d : c.message \in DOMAIN sent /\ d.message \in DOMAIN sent /\ Follows(sent, c, d)
         => Follows(sent', c, d)
  <2> SUFFICES ASSUME NEW c, NEW d, c.message \in DOMAIN sent, d.message \in DOMAIN sent,
                      Follows(sent, c, d)
               PROVE  Follows(sent', c, d)
    OBVIOUS
  <2>1. NextReliable(sent, c.message, d.message) => NextReliable(sent', c.message, d.message)
    <3> SUFFICES ASSUME NextReliable(sent, c.message, d.message),
                        NEW k \in DOMAIN sent', sent'[k].reliable, c.message < k
                 PROVE  d.message <= k
      BY DEF NextReliable
    <3>1. d.message \in Nat /\ d.message < new
      BY <1>1
    <3>2. CASE k = new
      BY <1>1, <3>1, <3>2
    <3>3. CASE k \in DOMAIN sent
      BY <1>1, <3>3 DEF NextReliable
    <3>4. QED
      BY <1>1, <3>2, <3>3
  <2>2. QED
    BY <2>1 DEF Follows
<1>8. \A i \in DOMAIN stream : stream[i].message \in DOMAIN sent
  BY <1>0 DEF ChunksOK, IsOf
<1>9. StreamOK'
  <2>1. ASSUME NEW i \in DOMAIN stream', i + 1 \in DOMAIN stream'
        PROVE  Follows(sent', stream'[i], stream'[i + 1])
    <3>1. CASE i \in DOMAIN stream /\ i + 1 \in DOMAIN stream
      BY <1>0, <1>2, <1>7, <1>8, <3>1 DEF StreamOK
    <3>2. CASE i \in DOMAIN stream /\ i + 1 \notin DOMAIN stream
      <4>1. i = l /\ stream'[i + 1] = Made(count, 1) /\ stream'[i] = stream[l] /\ stream # << >>
        BY <1>2, <2>1, <3>2
      <4>2. stream[l].chunk_num = stream[l].chunk_count
            /\ \A m \in DOMAIN sent : sent[m].reliable => m <= stream[l].message
        BY <1>0, <4>1 DEF StreamOK
      <4>3. stream[l].message \in DOMAIN sent
        BY <1>8, <3>2, <4>1
      <4>4. stream'[i + 1].chunk_num = 1 /\ stream'[i + 1].message = new
        BY <4>1 DEF Made
      <4>5. NextReliable(sent', stream[l].message, new)
        BY <1>1, <4>2, <4>3 DEF NextReliable
      <4>6. QED
        BY <4>1, <4>2, <4>4, <4>5 DEF Follows
    <3>3. CASE i \notin DOMAIN stream
      <4>1. i - l \in 1 .. count /\ i + 1 - l \in 1 .. count /\ i \in Nat
            /\ stream'[i] = Made(count, i - l) /\ stream'[i + 1] = Made(count, i + 1 - l)
        BY <1>0, <1>2, <2>1, <3>3
      <4>2. i - l < count /\ (i - l) + 1 = i + 1 - l
        BY <1>0, <1>2, <4>1
      <4>3. Made(count, i + 1 - l) = [Made(count, i - l) EXCEPT !.chunk_num = @ + 1]
        BY <4>2 DEF Made
      <4>4. Made(count, i - l).chunk_num = i - l /\ Made(count, i - l).chunk_count = count
        BY DEF Made
      <4>5. QED
        BY <4>1, <4>2, <4>3, <4>4 DEF Follows
    <3>4. QED
      BY <3>1, <3>2, <3>3
  <2>2. stream'[Len(stream')] = Made(count, count)
    <3>1. Len(stream') \in DOMAIN stream' /\ Len(stream') \notin DOMAIN stream
          /\ Len(stream') - l = count
      BY <1>0, <1>2
    <3>2. QED
      BY <1>2, <3>1
  <2>3. \A m \in DOMAIN sent' : m <= new
    BY <1>1
  <2>4. Made(count, count).chunk_num = count /\ Made(count, count).chunk_count = count
        /\ Made(count, count).message = new
    BY DEF Made
  <2>5. QED
    BY <2>1, <2>2, <2>3, <2>4 DEF StreamOK
<1>10. /\ \A i \in DOMAIN delivered.reliable : Message(i)' = Message(i) /\ Message(i) \in DOMAIN sent
       /\ \A m : IsDelivered(m)' <=> IsDelivered(m)
  BY <1>0, DeliveredKept
<1>11. stream = << >> => stream'[1] = Made(count, 1)
  <2>1. stream = << >> => l = 0
    BY <1>0
  <2>2. 1 \in DOMAIN stream'
    BY <1>0, <1>2
  <2>3. QED
    BY <1>2, <2>1, <2>2
<1>12. stream # << >> => stream'[1] = stream[1]
  <2>1. stream # << >> => 1 \in DOMAIN stream
    BY <1>0 DEF SplitTypes
  <2>2. QED
    BY <1>2, <2>1
<1>13. HeadOK'
  <2>1. CASE stream = << >>
    <3>1. stream'[1].message = new /\ stream'[1].chunk_num = 1
      BY <1>11, <2>1 DEF Made
    <3>2. ASSUME NEW m \in DOMAIN sent', sent'[m].reliable, m < new PROVE IsDelivered(m)'
      <4>1. m \in DOMAIN sent /\ sent[m].reliable
        BY <1>1, <3>2
      <4>2. QED
        BY <1>0, <1>10, <2>1, <4>1 DEF Reassembled
    <3>3. ASSUME NEW i \in DOMAIN delivered'.reliable PROVE Message(i)' < new
      BY <1>0, <1>1, <1>10
    <3>4. QED
      BY <3>1, <3>2, <3>3 DEF HeadOK
  <2>2. CASE stream # << >>
    <3>1. stream'[1] = stream[1] /\ stream[1].message \in DOMAIN sent
      <4>1. 1 \in DOMAIN stream
        BY <1>0, <2>2 DEF SplitTypes
      <4>2. QED
        BY <1>8, <1>12, <2>2, <4>1
    <3>2. ASSUME NEW m \in DOMAIN sent', sent'[m].reliable, m < stream[1].message
          PROVE  IsDelivered(m)'
      <4>1. m \in DOMAIN sent /\ sent[m].reliable
        BY <1>1, <3>1, <3>2
      <4>2. QED
        BY <1>0, <1>10, <2>2, <3>2, <4>1 DEF HeadOK
    <3>3. ASSUME NEW i \in DOMAIN delivered'.reliable PROVE Message(i)' < stream[1].message
      BY <1>0, <1>10, <2>2 DEF HeadOK
    <3>4. stream[1].chunk_num > 1 =>
             stream[1].seqnum \in DOMAIN m_buf' /\ m_buf'[stream[1].seqnum].reliable
      BY <1>0, <2>2 DEF HeadOK
    <3>5. QED
      BY <3>1, <3>2, <3>3, <3>4 DEF HeadOK
  <2>3. QED
    BY <2>1, <2>2
<1>14. BufferOK'
  <2> SUFFICES ASSUME NEW n \in DOMAIN m_buf'
               PROVE  IF m_buf'[n].reliable THEN ReliableEntry(n)' ELSE UnreliableEntry(n)'
    BY DEF BufferOK
  <2>1. CASE m_buf[n].reliable
    <3>1. ReliableEntry(n)
      BY <1>0, <2>1 DEF BufferOK
    <3>2. ReliableEntry(n)'
      BY <1>0, <1>2, <1>12, <3>1 DEF ReliableEntry
    <3>3. QED
      BY <1>0, <2>1, <3>2
  <2>2. CASE ~ m_buf[n].reliable
    <3>1. UnreliableEntry(n)
      BY <1>0, <2>2 DEF BufferOK
    <3>2. PICK m \in DOMAIN sent :
              /\ ~ sent[m].reliable
              /\ m_buf[n].chunk_count = sent[m].chunk_count
              /\ DOMAIN m_buf[n].chunks \subseteq 1 .. sent[m].chunk_count
              /\ \A num \in DOMAIN m_buf[n].chunks : m_buf[n].chunks[num] = m
              /\ \A c \in datagrams : HasNumber(c, n) => c.message = m
              /\ \A i \in DOMAIN stream : ~ HasNumber(stream[i], n)
      BY <3>1 DEF UnreliableEntry
    <3>3. ASSUME NEW i \in DOMAIN stream' PROVE ~ HasNumber(stream'[i], n)
      <4>1. CASE i \in DOMAIN stream
        BY <1>2, <3>2, <4>1
      <4>2. CASE stream'[i] = Made(count, i - l)
        <5>1. HasNumber(stream'[i], n) => n = n0 /\ count > 1
          BY <4>2 DEF HasNumber, Made
        <5>2. QED
          BY <1>0, <2>2, <5>1 DEF Accept, NotAround
      <4>3. QED
        BY <1>2, <4>1, <4>2
    <3>4. UnreliableEntry(n)'
      BY <1>0, <1>1, <3>2, <3>3 DEF UnreliableEntry
    <3>5. QED
      BY <1>0, <2>2, <3>4
  <2>3. QED
    BY <2>1, <2>2
<1>15. Reassembled'
  <2>1. \A i, j \in DOMAIN delivered'.reliable : i < j => Message(i)' < Message(j)'
    BY <1>0, <1>10 DEF Reassembled
  <2>2. ASSUME NEW m \in DOMAIN sent', sent'[m].reliable
        PROVE  \/ IsDelivered(m)'
               \/ stream' # << >> /\ \A i \in DOMAIN delivered'.reliable : Message(i)' < m
    <3>1. CASE m \in DOMAIN sent
      BY <1>0, <1>1, <1>2, <1>10, <2>2, <3>1 DEF Reassembled
    <3>2. CASE m = new
      BY <1>0, <1>1, <1>2, <1>10, <3>2
    <3>3. QED
      BY <1>1, <3>1, <3>2
  <2>3. QED
    BY <1>0, <2>1, <2>2, DeliveredKept DEF Reassembled
<1>16. QED
  BY <1>3, <1>4, <1>6, <1>9, <1>13, <1>14, <1>15 DEF SplitInv

(* Sending an unreliable message keeps the invariant.                      *)
LEMMA SendUnreliableKeeps ==
    ASSUME SplitInv, NEW count \in ChunkCounts, SendUnreliable(count)
    PROVE  SplitInv'
<1>0. /\ SplitTypes /\ ChunksOK /\ NumbersApart /\ StreamOK /\ HeadOK /\ BufferOK /\ Reassembled
      /\ Accept(count, FALSE) /\ UNCHANGED << stream, m_buf, delivered >>
      /\ datagrams' = datagrams \cup Range(Chunks(count))
      /\ count \in Nat \ {0}
  BY SplitPacketsAssumption DEF SplitInv, SendUnreliable
<1> DEFINE n0 == next_outgoing_split_seqnum
           new == Len(sent) + 1
<1>1. /\ Len(sent) \in Nat /\ DOMAIN sent = 1 .. Len(sent) /\ DOMAIN sent' = 1 .. new
      /\ \A m \in DOMAIN sent : sent'[m] = sent[m] /\ m \in DOMAIN sent' /\ m < new
      /\ sent'[new] = [reliable |-> FALSE, chunk_count |-> count]
      /\ sent' \in Seq(Told) /\ next_outgoing_split_seqnum' \in 0 .. SplitNumbers - 1
  BY <1>0, Accepted, SentKept
<1>2. \A num \in 1 .. count : Made(count, num) \in Chunk
  BY <1>0, ChunksMade
<1>3. \A c \in datagrams' : c \in datagrams \/ \E num \in 1 .. count : c = Made(count, num)
  BY <1>0, ChunksMade
<1>4. \A c \in datagrams' : c \in datagrams
         \/ /\ c.message = new
            /\ \A n : HasNumber(c, n) => n = n0 /\ count > 1
  BY <1>3 DEF Made, HasNumber
<1>5. SplitTypes'
  BY <1>0, <1>1, <1>2, <1>3 DEF SplitTypes
<1>6. ChunksOK'
  <2>1. ASSUME NEW i \in DOMAIN stream' PROVE IsOf(sent', stream'[i], TRUE)
    BY <1>0, SentKept DEF ChunksOK
  <2>2. ASSUME NEW c \in datagrams' PROVE IsOf(sent', c, FALSE)
    <3>1. CASE c \in datagrams
      BY <1>0, <3>1, SentKept DEF ChunksOK
    <3>2. CASE \E num \in 1 .. count : c = Made(count, num)
      BY <1>0, <3>2, MadeIsOf
    <3>3. QED
      BY <1>3, <3>1, <3>2
  <2>3. QED
    BY <2>1, <2>2 DEF ChunksOK
<1>7. count > 1 => /\ \A c \in datagrams : ~ HasNumber(c, n0)
                   /\ n0 \notin DOMAIN m_buf
                   /\ \A i \in DOMAIN stream : ~ HasNumber(stream[i], n0)
  BY <1>0 DEF Accept, NotAround
<1>8. NumbersApart'
  <2>1. ASSUME NEW c \in datagrams', NEW d \in datagrams', NEW n \in 0 .. SplitNumbers - 1,
               HasNumber(c, n), HasNumber(d, n)
        PROVE  c.message = d.message
    BY <1>0, <1>4, <1>7, <2>1 DEF NumbersApart
  <2>2. ASSUME NEW c \in datagrams', NEW i \in DOMAIN stream', NEW n \in 0 .. SplitNumbers - 1,
               HasNumber(c, n)
        PROVE  ~ HasNumber(stream'[i], n)
    BY <1>0, <1>4, <1>7, <2>2 DEF NumbersApart
  <2>3. QED
    BY <2>1, <2>2 DEF NumbersApart
<1>9. \A i \in DOMAIN stream : stream[i].message \in DOMAIN sent
  BY <1>0 DEF ChunksOK, IsOf
<1>10. \A m \in DOMAIN sent' : sent'[m].reliable => m \in DOMAIN sent /\ sent[m].reliable
  BY <1>1
<1>11. StreamOK'
  <2>1. ASSUME NEW i \in DOMAIN stream, i + 1 \in DOMAIN stream
        PROVE  Follows(sent', stream[i], stream[i + 1])
    BY <1>0, <1>10, <2>1 DEF StreamOK, Follows, NextReliable
  <2>2. QED
    BY <1>0, <1>10, <2>1 DEF StreamOK
<1>12. /\ \A i \in DOMAIN delivered.reliable : Message(i)' = Message(i)
       /\ \A m : IsDelivered(m)' <=> IsDelivered(m)
  BY <1>0, DeliveredKept
<1>13. HeadOK'
  <2> SUFFICES ASSUME stream # << >> PROVE HeadOK'
    BY <1>0 DEF HeadOK
  <2>1. ASSUME NEW m \in DOMAIN sent', sent'[m].reliable, m < stream[1].message
        PROVE  IsDelivered(m)'
    BY <1>0, <1>10, <1>12, <2>1 DEF HeadOK
  <2>2. ASSUME NEW i \in DOMAIN delivered'.reliable PROVE Message(i)' < stream[1].message
    BY <1>0, <1>12 DEF HeadOK
  <2>3. stream[1].chunk_num > 1 =>
           stream[1].seqnum \in DOMAIN m_buf' /\ m_buf'[stream[1].seqnum].reliable
    BY <1>0 DEF HeadOK
  <2>4. QED
    BY <1>0, <2>1, <2>2, <2>3 DEF HeadOK
<1>14. \A n \in DOMAIN m_buf : \A c \in datagrams' : HasNumber(c, n) => c \in datagrams
  BY <1>4, <1>7
<1>15. BufferOK'
  <2> SUFFICES ASSUME NEW n \in DOMAIN m_buf'
               PROVE  IF m_buf'[n].reliable THEN ReliableEntry(n)' ELSE UnreliableEntry(n)'
    BY DEF BufferOK
  <2>1. CASE m_buf[n].reliable
    <3>1. ReliableEntry(n)
      BY <1>0, <2>1 DEF BufferOK
    <3>2. ReliableEntry(n)'
      BY <1>0, <1>14, <3>1 DEF ReliableEntry
    <3>3. QED
      BY <1>0, <2>1, <3>2
  <2>2. CASE ~ m_buf[n].reliable
    <3>1. UnreliableEntry(n)
      BY <1>0, <2>2 DEF BufferOK
    <3>2. UnreliableEntry(n)'
      BY <1>0, <1>1, <1>14, <3>1 DEF UnreliableEntry
    <3>3. QED
      BY <1>0, <2>2, <3>2
  <2>3. QED
    BY <2>1, <2>2
<1>16. Reassembled'
  <2>1. \A i, j \in DOMAIN delivered'.reliable : i < j => Message(i)' < Message(j)'
    BY <1>0, <1>12 DEF Reassembled
  <2>2. ASSUME NEW m \in DOMAIN sent', sent'[m].reliable
        PROVE  \/ IsDelivered(m)'
               \/ stream' # << >> /\ \A i \in DOMAIN delivered'.reliable : Message(i)' < m
    BY <1>0, <1>10, <1>12, <2>2 DEF Reassembled
  <2>3. QED
    BY <1>0, <2>1, <2>2, DeliveredKept DEF Reassembled
<1>17. QED
  BY <1>5, <1>6, <1>8, <1>11, <1>13, <1>15, <1>16 DEF SplitInv

-----------------------------------------------------------------------------
(* The network and the clock *)

(* Datagrams that are lost, unreliable messages that are forgotten, split  *)
(* numbers that are used up: the invariant allows less of everything that  *)
(* is unreliable.                                                          *)
LEMMA LessKeeps ==
    ASSUME SplitInv, UNCHANGED << sent, stream, delivered >>,
           next_outgoing_split_seqnum' \in 0 .. SplitNumbers - 1,
           datagrams' \subseteq datagrams,
           m_buf' \in [DOMAIN m_buf' -> Entry],
           \A n \in DOMAIN m_buf' : n \in DOMAIN m_buf /\ m_buf'[n] = m_buf[n],
           \A n \in DOMAIN m_buf : m_buf[n].reliable => n \in DOMAIN m_buf'
    PROVE  SplitInv'
<1>0. /\ SplitTypes /\ ChunksOK /\ NumbersApart /\ StreamOK /\ HeadOK /\ BufferOK /\ Reassembled
  BY DEF SplitInv
<1>1. SplitTypes'
  BY <1>0 DEF SplitTypes
<1>2. ChunksOK' /\ StreamOK'
  BY <1>0 DEF ChunksOK, StreamOK
<1>3. NumbersApart'
  BY <1>0 DEF NumbersApart
<1>4. HeadOK'
  BY <1>0 DEF HeadOK, IsDelivered, Message
<1>5. BufferOK'
  <2> SUFFICES ASSUME NEW n \in DOMAIN m_buf'
               PROVE  IF m_buf'[n].reliable THEN ReliableEntry(n)' ELSE UnreliableEntry(n)'
    BY DEF BufferOK
  <2>1. CASE m_buf[n].reliable
    <3>1. ReliableEntry(n)
      BY <1>0, <2>1 DEF BufferOK
    <3>2. ReliableEntry(n)'
      BY <3>1 DEF ReliableEntry
    <3>3. QED
      BY <2>1, <3>2
  <2>2. CASE ~ m_buf[n].reliable
    <3>1. UnreliableEntry(n)
      BY <1>0, <2>2 DEF BufferOK
    <3>2. UnreliableEntry(n)'
      BY <3>1 DEF UnreliableEntry
    <3>3. QED
      BY <2>2, <3>2
  <2>3. QED
    BY <2>1, <2>2
<1>6. Reassembled'
  BY <1>0 DEF Reassembled, IsDelivered, Message, Whole
<1>7. QED
  BY <1>1, <1>2, <1>3, <1>4, <1>5, <1>6 DEF SplitInv

(* The buffer without one entry.                                           *)
LEMMA WithoutEntry ==
    ASSUME NEW f, NEW n, f \in [DOMAIN f -> Entry]
    PROVE  /\ Without(f, n) \in [DOMAIN Without(f, n) -> Entry]
           /\ DOMAIN Without(f, n) = DOMAIN f \ {n}
           /\ \A k \in DOMAIN f \ {n} : Without(f, n)[k] = f[k]
BY DEF Without, Restrict

(* A command that finds too few sequence numbers keeps the invariant.      *)
LEMMA FailToSendKeeps ==
    ASSUME SplitInv, NEW count \in ChunkCounts \ {1}, FailToSend(count)
    PROVE  SplitInv'
<1>1. next_outgoing_split_seqnum' \in 0 .. SplitNumbers - 1
  BY SplitPacketsAssumption DEF FailToSend, NumberSpent, SplitInv, SplitTypes
<1>2. m_buf \in [DOMAIN m_buf -> Entry]
  BY DEF SplitInv, SplitTypes
<1>3. QED
  BY <1>1, <1>2, LessKeeps DEF FailToSend

(* So does the loss of a datagram.                                         *)
LEMMA LoseKeeps ==
    ASSUME SplitInv, NEW chunk \in datagrams, Lose(chunk)
    PROVE  SplitInv'
<1>1. /\ next_outgoing_split_seqnum \in 0 .. SplitNumbers - 1
      /\ m_buf \in [DOMAIN m_buf -> Entry]
  BY DEF SplitInv, SplitTypes
<1>2. QED
  BY <1>1, LessKeeps DEF Lose

(* And so does the time-out of an unreliable message.                      *)
LEMMA TimeOutKeeps ==
    ASSUME SplitInv, NEW n \in DOMAIN m_buf, RemoveUnreliableTimedOut(n)
    PROVE  SplitInv'
<1>1. /\ next_outgoing_split_seqnum \in 0 .. SplitNumbers - 1
      /\ m_buf \in [DOMAIN m_buf -> Entry]
  BY DEF SplitInv, SplitTypes
<1>2. /\ m_buf' \in [DOMAIN m_buf' -> Entry]
      /\ DOMAIN m_buf' = DOMAIN m_buf \ {n}
      /\ \A k \in DOMAIN m_buf' : m_buf'[k] = m_buf[k]
  BY <1>1, WithoutEntry DEF RemoveUnreliableTimedOut
<1>3. ~ m_buf[n].reliable
  BY DEF RemoveUnreliableTimedOut, TimesOut
<1>4. QED
  BY <1>1, <1>2, <1>3, LessKeeps DEF RemoveUnreliableTimedOut

-----------------------------------------------------------------------------
(* The receiver of unreliable chunks *)

(* The entry a datagram belongs to is one of its own message.              *)
LEMMA EntryOfDatagram ==
    ASSUME SplitInv, NEW c \in datagrams, c.chunk_count > 1
    PROVE  LET entry == EntryOf(c, FALSE)
           IN  /\ entry \in Entry
               /\ ~ entry.reliable
               /\ entry.chunk_count = c.chunk_count
               /\ DOMAIN entry.chunks \subseteq 1 .. c.chunk_count
               /\ \A num \in DOMAIN entry.chunks : entry.chunks[num] = c.message
<1> DEFINE n == c.seqnum
<1>0. SplitTypes /\ ChunksOK /\ BufferOK
  BY DEF SplitInv
<1>1. c \in Chunk /\ IsOf(sent, c, FALSE) /\ HasNumber(c, n)
  BY <1>0 DEF SplitTypes, ChunksOK, HasNumber
<1>2. CASE n \in DOMAIN m_buf
  <2>1. ~ m_buf[n].reliable
    BY <1>0, <1>1, <1>2 DEF BufferOK, ReliableEntry
  <2>2. UnreliableEntry(n)
    BY <1>0, <1>2, <2>1 DEF BufferOK
  <2>3. /\ m_buf[n].chunk_count = sent[c.message].chunk_count
        /\ DOMAIN m_buf[n].chunks \subseteq 1 .. sent[c.message].chunk_count
        /\ \A num \in DOMAIN m_buf[n].chunks : m_buf[n].chunks[num] = c.message
    BY <1>1, <2>2 DEF UnreliableEntry
  <2>4. sent[c.message].chunk_count = c.chunk_count
    BY <1>1 DEF IsOf
  <2>5. m_buf[n] \in Entry
    BY <1>0, <1>2 DEF SplitTypes
  <2>6. EntryOf(c, FALSE) = m_buf[n]
    BY <1>2 DEF EntryOf
  <2>7. QED
    BY <2>1, <2>3, <2>4, <2>5, <2>6
<1>3. CASE n \notin DOMAIN m_buf
  <2> DEFINE none == [num \in {} |-> 0]
  <2>1. EntryOf(c, FALSE) = [reliable |-> FALSE, chunk_count |-> c.chunk_count, chunks |-> none]
    BY <1>3 DEF EntryOf
  <2>2. none \in [{} -> Nat \ {0}] /\ DOMAIN none = {}
    OBVIOUS
  <2>3. {} \in SUBSET (Nat \ {0})
    OBVIOUS
  <2>4. none \in Parts
    BY <2>2, <2>3 DEF Parts
  <2>5. c.chunk_count \in Nat \ {0}
    BY <1>1 DEF Chunk
  <2> DEFINE entry == EntryOf(c, FALSE)
  <2>6. entry = [reliable |-> FALSE, chunk_count |-> c.chunk_count, chunks |-> none]
    BY <2>1
  <2> HIDE DEF none, entry
  <2>7. entry \in Entry
    BY <2>4, <2>5, <2>6 DEF Entry
  <2>8. /\ ~ entry.reliable /\ entry.chunk_count = c.chunk_count
        /\ DOMAIN entry.chunks \subseteq 1 .. c.chunk_count
        /\ \A num \in DOMAIN entry.chunks : entry.chunks[num] = c.message
    BY <2>2, <2>6
  <2>9. QED
    BY <2>7, <2>8 DEF entry
<1>4. QED
  BY <1>2, <1>3

(* What a datagram does: nothing, or it fills an entry of its own message, *)
(* or completes that message, which is handed on whole.                    *)
LEMMA DatagramEffect ==
    ASSUME SplitInv, NEW c \in datagrams, Handle(c, FALSE)
    PROVE  /\ m_buf' \in [DOMAIN m_buf' -> Entry]
           /\ \A n \in DOMAIN m_buf : m_buf[n].reliable =>
                 n \in DOMAIN m_buf' /\ m_buf'[n] = m_buf[n]
           /\ \A n \in DOMAIN m_buf' :
                 \/ n \in DOMAIN m_buf /\ m_buf'[n] = m_buf[n]
                 \/ /\ HasNumber(c, n)
                    /\ ~ m_buf'[n].reliable
                    /\ m_buf'[n].chunk_count = c.chunk_count
                    /\ DOMAIN m_buf'[n].chunks \subseteq 1 .. c.chunk_count
                    /\ \A num \in DOMAIN m_buf'[n].chunks : m_buf'[n].chunks[num] = c.message
           /\ \/ delivered' = delivered
              \/ delivered' = [delivered EXCEPT !.unreliable = @ \cup {Whole(c.message)}]
<1> DEFINE n0 == c.seqnum
           entry == EntryOf(c, FALSE)
           chunks == With(entry.chunks, c.chunk_num, c.message)
<1>0. SplitTypes /\ ChunksOK /\ m_buf \in [DOMAIN m_buf -> Entry]
  BY DEF SplitInv, SplitTypes
<1>1. c \in Chunk /\ IsOf(sent, c, FALSE)
  BY <1>0 DEF SplitTypes, ChunksOK
<1>2. c.chunk_count = sent[c.message].chunk_count /\ c.chunk_num \in 1 .. c.chunk_count
      /\ c.chunk_count \in Nat \ {0} /\ c.message \in Nat \ {0} /\ c.chunk_num \in Nat \ {0}
  BY <1>1 DEF IsOf, Chunk
<1>3. CASE c.chunk_count = 1
  <2>1. Whole(c.message) = [num \in {1} |-> c.message]
    <3>1. 1 .. 1 = {1}
      OBVIOUS
    <3>2. QED
      BY <1>2, <1>3, <3>1 DEF Whole
  <2>2. m_buf' = m_buf
        /\ delivered' = [delivered EXCEPT !.unreliable = @ \cup {[num \in {1} |-> c.message]}]
    BY <1>3 DEF Handle, Deliver
  <2>3. QED
    BY <1>0, <2>1, <2>2
<1>4. CASE c.chunk_count # 1
  <2>1. Insert(c, FALSE) /\ c.chunk_count > 1
    <3>1. Insert(c, FALSE)
      BY <1>4 DEF Handle
    <3>2. c.chunk_count > 1
      BY <1>2, <1>4
    <3>3. QED
      BY <3>1, <3>2
  <2>2. /\ entry \in Entry /\ ~ entry.reliable /\ entry.chunk_count = c.chunk_count
        /\ DOMAIN entry.chunks \subseteq 1 .. c.chunk_count
        /\ \A num \in DOMAIN entry.chunks : entry.chunks[num] = c.message
    BY <2>1, EntryOfDatagram
  <2>3. /\ DOMAIN chunks \subseteq 1 .. c.chunk_count
        /\ \A num \in DOMAIN chunks : chunks[num] = c.message
    BY <1>2, <2>2 DEF With
  <2>4. chunks \in Parts
    BY <1>2, <2>2, WithIsParts DEF Entry
  <2>5. CASE c.chunk_num \in DOMAIN entry.chunks
    <3>1. m_buf' = m_buf /\ delivered' = delivered
      BY <2>1, <2>5 DEF Insert
    <3>2. QED
      BY <1>0, <3>1
  <2>6. CASE c.chunk_num \notin DOMAIN entry.chunks /\ AllReceived(chunks, entry.chunk_count)
    <3>1. m_buf' = Without(m_buf, n0) /\ Deliver(FALSE, chunks)
      BY <2>1, <2>2, <2>6 DEF Insert
    <3>2. DOMAIN chunks = 1 .. c.chunk_count
      BY <1>2, <2>2, <2>3, <2>6, AllReceivedIsAll
    <3>3. chunks = Whole(c.message)
      BY <1>2, <2>3, <3>2 DEF Whole, With
    <3>4. delivered' = [delivered EXCEPT !.unreliable = @ \cup {Whole(c.message)}]
      BY <3>1, <3>3 DEF Deliver
    <3>5. /\ m_buf' \in [DOMAIN m_buf' -> Entry]
          /\ DOMAIN m_buf' = DOMAIN m_buf \ {n0}
          /\ \A k \in DOMAIN m_buf' : m_buf'[k] = m_buf[k]
      BY <1>0, <3>1, WithoutEntry
    <3>6. n0 \in DOMAIN m_buf => ~ m_buf[n0].reliable
      BY <2>2 DEF EntryOf
    <3>7. QED
      BY <3>4, <3>5, <3>6
  <2>7. CASE c.chunk_num \notin DOMAIN entry.chunks /\ ~ AllReceived(chunks, entry.chunk_count)
    <3> DEFINE filled == [entry EXCEPT !.chunks = chunks]
    <3>1. m_buf' = With(m_buf, n0, filled) /\ delivered' = delivered
      BY <2>1, <2>2, <2>7 DEF Insert
    <3>2. filled \in Entry /\ ~ filled.reliable /\ filled.chunk_count = c.chunk_count
          /\ filled.chunks = chunks
      BY <2>2, <2>4 DEF Entry
    <3> HIDE DEF filled, chunks, entry
    <3>3. /\ DOMAIN m_buf' = DOMAIN m_buf \cup {n0} /\ m_buf'[n0] = filled
          /\ \A k \in DOMAIN m_buf \ {n0} : m_buf'[k] = m_buf[k]
          /\ m_buf' \in [DOMAIN m_buf' -> Entry]
      BY <1>0, <3>1, <3>2 DEF With
    <3>4. n0 \in DOMAIN m_buf => ~ m_buf[n0].reliable
      BY <2>2 DEF EntryOf, entry
    <3>5. HasNumber(c, n0)
      BY <2>1 DEF HasNumber
    <3>6. QED
      BY <2>3, <3>1, <3>2, <3>3, <3>4, <3>5
  <2>8. QED
    BY <2>5, <2>6, <2>7
<1>5. QED
  BY <1>3, <1>4

(* A datagram, once or again, keeps the invariant.                         *)
LEMMA ReceiveUnreliableKeeps ==
    ASSUME SplitInv, NEW c \in datagrams, NEW again \in BOOLEAN, ReceiveUnreliable(c, again)
    PROVE  SplitInv'
<1>0. /\ SplitTypes /\ ChunksOK /\ NumbersApart /\ StreamOK /\ HeadOK /\ BufferOK /\ Reassembled
      /\ datagrams' \subseteq datagrams /\ Handle(c, FALSE)
      /\ UNCHANGED << next_outgoing_split_seqnum, sent, stream >>
  BY DEF SplitInv, ReceiveUnreliable
<1>1. /\ m_buf' \in [DOMAIN m_buf' -> Entry]
      /\ \A n \in DOMAIN m_buf : m_buf[n].reliable =>
            n \in DOMAIN m_buf' /\ m_buf'[n] = m_buf[n]
      /\ \A n \in DOMAIN m_buf' :
            \/ n \in DOMAIN m_buf /\ m_buf'[n] = m_buf[n]
            \/ /\ HasNumber(c, n)
               /\ ~ m_buf'[n].reliable
               /\ m_buf'[n].chunk_count = c.chunk_count
               /\ DOMAIN m_buf'[n].chunks \subseteq 1 .. c.chunk_count
               /\ \A num \in DOMAIN m_buf'[n].chunks : m_buf'[n].chunks[num] = c.message
      /\ \/ delivered' = delivered
         \/ delivered' = [delivered EXCEPT !.unreliable = @ \cup {Whole(c.message)}]
  BY <1>0, DatagramEffect
<1>2. /\ c.message \in DOMAIN sent /\ sent[c.message].reliable = FALSE
      /\ c.chunk_count = sent[c.message].chunk_count /\ c \in Chunk
  BY <1>0 DEF ChunksOK, IsOf, SplitTypes
<1>3. /\ delivered' \in [reliable : Seq(Parts), unreliable : SUBSET Parts]
      /\ delivered'.reliable = delivered.reliable
      /\ \A chunks \in delivered'.unreliable :
            chunks \in delivered.unreliable \/ chunks = Whole(c.message)
  <2>1. Whole(c.message) \in Parts
    BY <1>0, <1>2, SentTypes, UniformIsParts DEF Whole
  <2>2. delivered \in [reliable : Seq(Parts), unreliable : SUBSET Parts]
    BY <1>0 DEF SplitTypes
  <2>3. QED
    BY <1>1, <2>1, <2>2
<1>4. SplitTypes'
  BY <1>0, <1>1, <1>3 DEF SplitTypes
<1>5. ChunksOK' /\ StreamOK'
  BY <1>0 DEF ChunksOK, StreamOK
<1>6. NumbersApart'
  BY <1>0 DEF NumbersApart
<1>7. HeadOK'
  BY <1>0, <1>1, <1>3 DEF HeadOK, IsDelivered, Message
<1>8. BufferOK'
  <2> SUFFICES ASSUME NEW n \in DOMAIN m_buf'
               PROVE  IF m_buf'[n].reliable THEN ReliableEntry(n)' ELSE UnreliableEntry(n)'
    BY DEF BufferOK
  <2>1. CASE n \in DOMAIN m_buf /\ m_buf'[n] = m_buf[n]
    <3>1. CASE m_buf[n].reliable
      <4>1. ReliableEntry(n)
        BY <1>0, <2>1, <3>1 DEF BufferOK
      <4>2. ReliableEntry(n)'
        BY <1>0, <2>1, <4>1 DEF ReliableEntry
      <4>3. QED
        BY <2>1, <3>1, <4>2
    <3>2. CASE ~ m_buf[n].reliable
      <4>1. UnreliableEntry(n)
        BY <1>0, <2>1, <3>2 DEF BufferOK
      <4>2. UnreliableEntry(n)'
        BY <1>0, <2>1, <4>1 DEF UnreliableEntry
      <4>3. QED
        BY <2>1, <3>2, <4>2
    <3>3. QED
      BY <3>1, <3>2
  <2>2. CASE /\ HasNumber(c, n)
             /\ ~ m_buf'[n].reliable
             /\ m_buf'[n].chunk_count = c.chunk_count
             /\ DOMAIN m_buf'[n].chunks \subseteq 1 .. c.chunk_count
             /\ \A num \in DOMAIN m_buf'[n].chunks : m_buf'[n].chunks[num] = c.message
    <3>1. n \in 0 .. SplitNumbers - 1
      BY <1>2, <2>2 DEF HasNumber, Chunk
    <3>2. \A d \in datagrams' : HasNumber(d, n) => d.message = c.message
      BY <1>0, <2>2, <3>1 DEF NumbersApart
    <3>3. \A i \in DOMAIN stream' : ~ HasNumber(stream'[i], n)
      BY <1>0, <2>2, <3>1 DEF NumbersApart
    <3>4. UnreliableEntry(n)'
      BY <1>0, <1>2, <2>2, <3>2, <3>3 DEF UnreliableEntry
    <3>5. QED
      BY <2>2, <3>4
  <2>3. QED
    BY <1>1, <2>1, <2>2
<1>9. Reassembled'
  <2>1. ASSUME NEW chunks \in delivered'.unreliable
        PROVE  \E m \in DOMAIN sent : ~ sent[m].reliable /\ chunks = Whole(m)
    BY <1>0, <1>2, <1>3 DEF Reassembled
  <2>2. QED
    BY <1>0, <1>3, <2>1 DEF Reassembled, IsDelivered, Message, Whole
<1>10. QED
  BY <1>4, <1>5, <1>6, <1>7, <1>8, <1>9 DEF SplitInv

-----------------------------------------------------------------------------
(* The receiver of reliable chunks *)

(* The stream without its head.                                            *)
LEMMA TailOfStream ==
    ASSUME NEW s \in Seq(Chunk), s # << >>
    PROVE  /\ Len(s) \in Nat \ {0} /\ DOMAIN s = 1 .. Len(s) /\ Head(s) = s[1] /\ s[1] \in Chunk
           /\ Tail(s) \in Seq(Chunk) /\ Len(Tail(s)) = Len(s) - 1
           /\ DOMAIN Tail(s) = 1 .. Len(s) - 1
           /\ \A i \in DOMAIN Tail(s) :
                 i + 1 \in DOMAIN s /\ i \in Nat /\ Tail(s)[i] = s[i + 1]
           /\ Tail(s) # << >> <=> Len(s) > 1
<1>1. Len(s) \in Nat \ {0} /\ DOMAIN s = 1 .. Len(s) /\ Head(s) = s[1] /\ s[1] \in Chunk
  OBVIOUS
<1>2. Tail(s) \in Seq(Chunk) /\ Len(Tail(s)) = Len(s) - 1
  OBVIOUS
<1>3. DOMAIN Tail(s) = 1 .. Len(s) - 1
  BY <1>1, <1>2
<1>4. ASSUME NEW i \in DOMAIN Tail(s)
      PROVE  i + 1 \in DOMAIN s /\ i \in Nat /\ Tail(s)[i] = s[i + 1]
  BY <1>1, <1>2, <1>3
<1>5. Tail(s) # << >> <=> Len(s) > 1
  <2>1. \A t \in Seq(Chunk) : t # << >> <=> Len(t) # 0
    OBVIOUS
  <2>2. Tail(s) # << >> <=> Len(s) - 1 # 0
    BY <1>2, <2>1
  <2>3. QED
    BY <1>1, <2>2
<1>6. QED
  BY <1>1, <1>2, <1>3, <1>4, <1>5

(* What is known of the stream's head.                                     *)
LEMMA HeadKnown ==
    ASSUME SplitInv, stream # << >>
    PROVE  /\ stream[1] \in Chunk /\ Head(stream) = stream[1] /\ 1 \in DOMAIN stream
           /\ IsOf(sent, stream[1], TRUE)
           /\ stream[1].chunk_num \in 1 .. stream[1].chunk_count
           /\ stream[1].chunk_count = sent[stream[1].message].chunk_count
           /\ stream[1].message \in DOMAIN sent /\ sent[stream[1].message].reliable
           /\ stream[1].chunk_count \in Nat \ {0} /\ stream[1].message \in Nat \ {0}
           /\ stream[1].chunk_num \in Nat \ {0}
<1>1. stream \in Seq(Chunk) /\ \A i \in DOMAIN stream : IsOf(sent, stream[i], TRUE)
  BY DEF SplitInv, SplitTypes, ChunksOK
<1>2. stream[1] \in Chunk /\ Head(stream) = stream[1] /\ 1 \in DOMAIN stream
  BY <1>1, TailOfStream
<1>3. IsOf(sent, stream[1], TRUE)
  BY <1>1, <1>2
<1>4. QED
  BY <1>2, <1>3 DEF IsOf, Chunk

(* The entry the stream's head belongs to has what was sent before of its  *)
(* message; no other reliable message is in the buffer.                    *)
LEMMA EntryOfHead ==
    ASSUME SplitInv, stream # << >>, stream[1].chunk_count > 1
    PROVE  EntryOf(stream[1], TRUE) =
              [reliable |-> TRUE, chunk_count |-> stream[1].chunk_count,
               chunks |-> [num \in 1 .. stream[1].chunk_num - 1 |-> stream[1].message]]
<1> DEFINE c == stream[1]
           n == c.seqnum
<1>0. /\ c.chunk_num \in Nat \ {0} /\ 1 \in DOMAIN stream /\ c \in Chunk
      /\ HeadOK /\ BufferOK /\ m_buf \in [DOMAIN m_buf -> Entry]
      /\ HasNumber(c, n)
  BY HeadKnown DEF SplitInv, SplitTypes, HasNumber
<1>1. CASE n \in DOMAIN m_buf
  <2>1. m_buf[n].reliable
    BY <1>0, <1>1 DEF BufferOK, UnreliableEntry
  <2>2. ReliableEntry(n)
    BY <1>0, <1>1, <2>1 DEF BufferOK
  <2>3. m_buf[n].chunk_count = c.chunk_count
        /\ m_buf[n].chunks = [num \in 1 .. c.chunk_num - 1 |-> c.message]
    BY <2>2 DEF ReliableEntry
  <2>4. m_buf[n] \in Entry
    BY <1>0, <1>1
  <2>5. m_buf[n] = [reliable |-> TRUE, chunk_count |-> c.chunk_count,
                    chunks |-> [num \in 1 .. c.chunk_num - 1 |-> c.message]]
    BY <2>1, <2>3, <2>4 DEF Entry
  <2>6. EntryOf(c, TRUE) = m_buf[n]
    BY <1>1 DEF EntryOf
  <2>7. QED
    BY <2>5, <2>6
<1>2. CASE n \notin DOMAIN m_buf
  <2>1. c.chunk_num = 1
    BY <1>0, <1>2 DEF HeadOK
  <2>2. [num \in 1 .. c.chunk_num - 1 |-> c.message] = [num \in {} |-> 0]
    BY <2>1
  <2>3. EntryOf(c, TRUE) = [reliable |-> TRUE, chunk_count |-> c.chunk_count,
                            chunks |-> [num \in {} |-> 0]]
    BY <1>2 DEF EntryOf
  <2>4. QED
    BY <2>2, <2>3
<1>3. QED
  BY <1>1, <1>2

(* What the stream's head does: it is kept with what came before it of its *)
(* message, or completes that message, which is handed on whole.           *)
LEMMA HeadEffect ==
    ASSUME SplitInv, stream # << >>, Handle(Head(stream), TRUE)
    PROVE  /\ m_buf' \in [DOMAIN m_buf' -> Entry]
           /\ \/ /\ stream[1].chunk_num = stream[1].chunk_count
                 /\ delivered' = [delivered EXCEPT !.reliable = Append(@, Whole(stream[1].message))]
                 /\ \A n \in DOMAIN m_buf' :
                       n \in DOMAIN m_buf /\ m_buf'[n] = m_buf[n] /\ ~ m_buf[n].reliable
              \/ /\ stream[1].chunk_num < stream[1].chunk_count
                 /\ delivered' = delivered
                 /\ stream[1].seqnum \in DOMAIN m_buf'
                 /\ m_buf'[stream[1].seqnum].reliable
                 /\ m_buf'[stream[1].seqnum].chunk_count = stream[1].chunk_count
                 /\ m_buf'[stream[1].seqnum].chunks =
                       [num \in 1 .. stream[1].chunk_num |-> stream[1].message]
                 /\ \A n \in DOMAIN m_buf' : n # stream[1].seqnum =>
                       n \in DOMAIN m_buf /\ m_buf'[n] = m_buf[n] /\ ~ m_buf[n].reliable
<1> DEFINE c == stream[1]
           n0 == c.seqnum
           entry == EntryOf(c, TRUE)
           chunks == With(entry.chunks, c.chunk_num, c.message)
<1>0. /\ m_buf \in [DOMAIN m_buf -> Entry] /\ BufferOK
  BY DEF SplitInv, SplitTypes
<1>1. /\ c \in Chunk /\ Head(stream) = c
      /\ c.chunk_num \in 1 .. c.chunk_count
      /\ c.chunk_count = sent[c.message].chunk_count
      /\ c.chunk_count \in Nat \ {0} /\ c.message \in Nat \ {0} /\ c.chunk_num \in Nat \ {0}
  BY HeadKnown
<1>2. \A n \in DOMAIN m_buf : m_buf[n].reliable => HasNumber(c, n)
  BY <1>0 DEF BufferOK, ReliableEntry
<1>3. CASE c.chunk_count = 1
  <2>1. Whole(c.message) = [num \in {1} |-> c.message]
    <3>1. 1 .. 1 = {1}
      OBVIOUS
    <3>2. QED
      BY <1>1, <1>3, <3>1 DEF Whole
  <2>2. m_buf' = m_buf
        /\ delivered' = [delivered EXCEPT !.reliable = Append(@, [num \in {1} |-> c.message])]
    BY <1>1, <1>3 DEF Handle, Deliver
  <2>3. \A n \in DOMAIN m_buf : ~ m_buf[n].reliable
    BY <1>2, <1>3 DEF HasNumber
  <2>4. c.chunk_num = c.chunk_count
    BY <1>1, <1>3
  <2>5. QED
    BY <1>0, <2>1, <2>2, <2>3, <2>4
<1>4. CASE c.chunk_count # 1
  <2>1. Insert(c, TRUE)
    BY <1>1, <1>4 DEF Handle
  <2>2. c.chunk_count > 1
    BY <1>1, <1>4
  <2>3. entry = [reliable |-> TRUE, chunk_count |-> c.chunk_count,
                 chunks |-> [num \in 1 .. c.chunk_num - 1 |-> c.message]]
    BY <2>2, EntryOfHead
  <2>insert. Insert(c, TRUE) =>
           IF c.chunk_count # entry.chunk_count \/ c.chunk_num \in DOMAIN entry.chunks
           THEN UNCHANGED << m_buf, delivered >>
           ELSE IF AllReceived(chunks, entry.chunk_count)
           THEN m_buf' = Without(m_buf, n0) /\ Deliver(TRUE, chunks)
           ELSE m_buf' = With(m_buf, n0, [entry EXCEPT !.chunks = chunks]) /\ UNCHANGED delivered
    BY DEF Insert
  <2>chunks. chunks = With(entry.chunks, c.chunk_num, c.message)
    OBVIOUS
  <2> HIDE DEF entry, chunks
  <2>4. chunks = [num \in 1 .. c.chunk_num |-> c.message]
    <3>1. (1 .. c.chunk_num - 1) \cup {c.chunk_num} = 1 .. c.chunk_num
      BY <1>1
    <3>2. entry.chunks = [num \in 1 .. c.chunk_num - 1 |-> c.message]
      BY <2>3
    <3>3. QED
      BY <2>chunks, <3>1, <3>2 DEF With
  <2>5. entry.chunk_count = c.chunk_count /\ c.chunk_num \notin DOMAIN entry.chunks
    BY <1>1, <2>3
  <2>6. DOMAIN chunks = 1 .. c.chunk_num /\ DOMAIN chunks \subseteq 1 .. c.chunk_count
    BY <1>1, <2>4
  <2>7. AllReceived(chunks, c.chunk_count) <=> c.chunk_num = c.chunk_count
    <3>1. AllReceived(chunks, c.chunk_count) <=> DOMAIN chunks = 1 .. c.chunk_count
      BY <1>1, <2>6, AllReceivedIsAll
    <3>2. 1 .. c.chunk_num = 1 .. c.chunk_count <=> c.chunk_num = c.chunk_count
      BY <1>1
    <3>3. QED
      BY <2>6, <3>1, <3>2
  <2>8. CASE c.chunk_num = c.chunk_count
    <3>1. m_buf' = Without(m_buf, n0) /\ Deliver(TRUE, chunks)
      BY <2>1, <2>5, <2>7, <2>8, <2>insert
    <3>2. chunks = Whole(c.message)
      BY <1>1, <2>4, <2>8 DEF Whole
    <3>3. delivered' = [delivered EXCEPT !.reliable = Append(@, Whole(c.message))]
      BY <3>1, <3>2 DEF Deliver
    <3>4. /\ m_buf' \in [DOMAIN m_buf' -> Entry]
          /\ DOMAIN m_buf' = DOMAIN m_buf \ {n0}
          /\ \A k \in DOMAIN m_buf' : m_buf'[k] = m_buf[k]
      BY <1>0, <3>1, WithoutEntry
    <3>5. \A k \in DOMAIN m_buf' : ~ m_buf[k].reliable
      BY <1>2, <3>4 DEF HasNumber
    <3>6. QED
      BY <2>8, <3>3, <3>4, <3>5
  <2>9. CASE c.chunk_num # c.chunk_count
    <3> DEFINE filled == [entry EXCEPT !.chunks = chunks]
    <3>1. m_buf' = With(m_buf, n0, filled) /\ delivered' = delivered
      BY <2>1, <2>5, <2>7, <2>9, <2>insert
    <3>2. chunks \in Parts
      BY <1>1, <2>4, UniformIsParts
    <3>3. entry \in Entry
      <4> DEFINE had == [num \in 1 .. c.chunk_num - 1 |-> c.message]
      <4>1. had \in Parts
        <5>1. c.chunk_num - 1 \in Nat
          BY <1>1
        <5>2. QED
          BY <1>1, <5>1, UniformIsParts
      <4>2. entry = [reliable |-> TRUE, chunk_count |-> c.chunk_count, chunks |-> had]
        BY <2>3
      <4> HIDE DEF had
      <4>3. QED
        BY <1>1, <4>1, <4>2 DEF Entry
    <3>4. filled \in Entry /\ filled.reliable /\ filled.chunk_count = c.chunk_count
          /\ filled.chunks = chunks
      BY <2>3, <3>2, <3>3 DEF Entry
    <3> HIDE DEF filled
    <3>5. /\ DOMAIN m_buf' = DOMAIN m_buf \cup {n0} /\ m_buf'[n0] = filled
          /\ \A k \in DOMAIN m_buf \ {n0} : m_buf'[k] = m_buf[k]
          /\ m_buf' \in [DOMAIN m_buf' -> Entry]
      BY <1>0, <3>1, <3>4 DEF With
    <3>6. \A k \in DOMAIN m_buf \ {n0} : ~ m_buf[k].reliable
      BY <1>2 DEF HasNumber
    <3>7. c.chunk_num < c.chunk_count
      BY <1>1, <2>9
    <3>8. QED
      BY <2>4, <3>1, <3>4, <3>5, <3>6, <3>7
  <2>10. QED
    BY <2>8, <2>9
<1>5. QED
  BY <1>3, <1>4

(* What comes next in the stream when its head is taken.                   *)
LEMMA NextHead ==
    ASSUME SplitInv, ReceiveReliable
    PROVE  /\ stream # << >> /\ stream' \in Seq(Chunk)
           /\ \A i \in DOMAIN stream' :
                 i + 1 \in DOMAIN stream /\ stream'[i] = stream[i + 1]
           /\ stream' = << >> =>
                 /\ stream[1].chunk_num = stream[1].chunk_count
                 /\ \A m \in DOMAIN sent : sent[m].reliable => m <= stream[1].message
           /\ stream' # << >> =>
                 /\ stream'[1] = stream[2] /\ 2 \in DOMAIN stream
                 /\ Follows(sent, stream[1], stream'[1])
                 /\ stream'[Len(stream')] = stream[Len(stream)]
           /\ StreamOK'
<1>1. stream # << >> /\ stream' = Tail(stream) /\ sent' = sent /\ stream \in Seq(Chunk) /\ StreamOK
  BY DEF ReceiveReliable, SplitInv, SplitTypes
<1>2. /\ Len(stream) \in Nat \ {0} /\ DOMAIN stream = 1 .. Len(stream)
      /\ stream' \in Seq(Chunk) /\ Len(stream') = Len(stream) - 1
      /\ DOMAIN stream' = 1 .. Len(stream) - 1
      /\ \A i \in DOMAIN stream' :
            i + 1 \in DOMAIN stream /\ i \in Nat /\ stream'[i] = stream[i + 1]
      /\ stream' # << >> <=> Len(stream) > 1
  BY <1>1, TailOfStream
<1>3. ASSUME stream' = << >>
      PROVE  /\ stream[1].chunk_num = stream[1].chunk_count
             /\ \A m \in DOMAIN sent : sent[m].reliable => m <= stream[1].message
  <2>1. Len(stream) = 1
    BY <1>2, <1>3
  <2>2. QED
    BY <1>1, <2>1 DEF StreamOK
<1>4. ASSUME stream' # << >>
      PROVE  /\ stream'[1] = stream[2] /\ 2 \in DOMAIN stream
             /\ Follows(sent, stream[1], stream'[1])
             /\ stream'[Len(stream')] = stream[Len(stream)]
  <2>1. 1 \in DOMAIN stream' /\ Len(stream') \in DOMAIN stream' /\ 1 \in DOMAIN stream
        /\ 1 + 1 = 2 /\ Len(stream') + 1 = Len(stream)
    BY <1>2, <1>4
  <2>2. stream'[1] = stream[2] /\ 2 \in DOMAIN stream /\ stream'[Len(stream')] = stream[Len(stream)]
    BY <1>2, <2>1
  <2>3. Follows(sent, stream[1], stream[1 + 1])
    BY <1>1, <2>1, <2>2 DEF StreamOK
  <2>4. QED
    BY <2>1, <2>2, <2>3
<1>5. StreamOK'
  <2>1. ASSUME NEW i \in DOMAIN stream', i + 1 \in DOMAIN stream'
        PROVE  Follows(sent', stream'[i], stream'[i + 1])
    <3>1. i + 1 \in DOMAIN stream /\ (i + 1) + 1 \in DOMAIN stream
          /\ stream'[i] = stream[i + 1] /\ stream'[i + 1] = stream[(i + 1) + 1]
      BY <1>2, <2>1
    <3>2. QED
      BY <1>1, <3>1 DEF StreamOK
  <2>2. QED
    BY <1>1, <1>4, <2>1 DEF StreamOK
<1>6. QED
  BY <1>1, <1>2, <1>3, <1>4, <1>5

(* What is handed on: the reliable messages one by one.                    *)
LEMMA DeliveredGrows ==
    ASSUME SplitInv, NEW m \in DOMAIN sent, sent[m].reliable, sent' = sent,
           \A i \in DOMAIN delivered.reliable : Message(i) < m,
           \A k \in DOMAIN sent : sent[k].reliable /\ k < m => IsDelivered(k),
           delivered' = [delivered EXCEPT !.reliable = Append(@, Whole(m))]
    PROVE  /\ delivered' \in [reliable : Seq(Parts), unreliable : SUBSET Parts]
           /\ delivered'.unreliable = delivered.unreliable
           /\ \A i \in DOMAIN delivered'.reliable :
                 \E k \in DOMAIN sent : sent[k].reliable /\ delivered'.reliable[i] = Whole(k)
           /\ \A i, j \in DOMAIN delivered'.reliable : i < j => Message(i)' < Message(j)'
           /\ \A i \in DOMAIN delivered'.reliable : Message(i)' <= m
           /\ \A k \in DOMAIN sent : sent[k].reliable /\ k <= m => IsDelivered(k)'
<1> DEFINE old == delivered.reliable
           last == Len(old) + 1
<1>0. /\ SplitTypes /\ Reassembled
      /\ delivered \in [reliable : Seq(Parts), unreliable : SUBSET Parts]
      /\ m \in Nat \ {0} /\ sent[m].chunk_count \in Nat \ {0}
  BY SentTypes DEF SplitInv, SplitTypes
<1>1. Whole(m) \in Parts /\ Whole(m)[1] = m
  <2>1. 1 \in 1 .. sent[m].chunk_count
    BY <1>0
  <2>2. QED
    BY <1>0, <2>1, UniformIsParts DEF Whole
<1> DEFINE w == Whole(m)
<1> HIDE DEF w
<1>2. w \in Parts /\ w[1] = m /\ delivered' = [delivered EXCEPT !.reliable = Append(@, w)]
  BY <1>1 DEF w
<1>3. /\ old \in Seq(Parts) /\ Len(old) \in Nat /\ DOMAIN old = 1 .. Len(old)
      /\ delivered'.reliable = Append(old, w) /\ delivered'.unreliable = delivered.unreliable
      /\ delivered' \in [reliable : Seq(Parts), unreliable : SUBSET Parts]
  <2>1. old \in Seq(Parts) /\ delivered.unreliable \in SUBSET Parts
    BY <1>0
  <2>2. Append(old, w) \in Seq(Parts)
    BY <1>2, <2>1
  <2>3. delivered' = [delivered EXCEPT !.reliable = Append(old, w)]
    BY <1>2
  <2> DEFINE grown == Append(old, w)
  <2> HIDE DEF grown
  <2>4. grown \in Seq(Parts) /\ delivered' = [delivered EXCEPT !.reliable = grown]
    BY <2>2, <2>3 DEF grown
  <2>5. /\ delivered'.reliable = grown /\ delivered'.unreliable = delivered.unreliable
        /\ delivered' \in [reliable : Seq(Parts), unreliable : SUBSET Parts]
    BY <1>0, <2>4
  <2>6. Len(old) \in Nat /\ DOMAIN old = 1 .. Len(old)
    BY <2>1
  <2>7. QED
    BY <2>1, <2>5, <2>6 DEF grown
<1>4. /\ DOMAIN delivered'.reliable = 1 .. last
      /\ \A i \in DOMAIN old : delivered'.reliable[i] = old[i]
      /\ delivered'.reliable[last] = w
  BY <1>2, <1>3
<1>5. \A i \in DOMAIN delivered'.reliable : i \in DOMAIN old \/ i = last
  BY <1>3, <1>4
<1>6. /\ \A i \in DOMAIN old : Message(i)' = Message(i)
      /\ \A i : i = last => Message(i)' = m
  <2>1. ASSUME NEW i \in DOMAIN old PROVE Message(i)' = Message(i)
    BY <1>4 DEF Message
  <2>2. ASSUME NEW i, i = last PROVE Message(i)' = m
    BY <1>2, <1>4, <2>2 DEF Message
  <2>3. QED
    BY <2>1, <2>2
<1>7. ASSUME NEW i \in DOMAIN delivered'.reliable
      PROVE  \E k \in DOMAIN sent : sent[k].reliable /\ delivered'.reliable[i] = Whole(k)
  BY <1>0, <1>4, <1>5 DEF Reassembled, w
<1>8. ASSUME NEW i \in DOMAIN delivered'.reliable, NEW j \in DOMAIN delivered'.reliable, i < j
      PROVE  Message(i)' < Message(j)'
  <2>1. i \in DOMAIN old
    BY <1>3, <1>4, <1>8
  <2>2. CASE j \in DOMAIN old
    BY <1>0, <1>6, <1>8, <2>1, <2>2 DEF Reassembled
  <2>3. CASE j = last
    BY <1>6, <2>1, <2>3
  <2>4. QED
    BY <1>5, <2>2, <2>3
<1>9. ASSUME NEW i \in DOMAIN delivered'.reliable PROVE Message(i)' <= m
  <2>1. CASE i \in DOMAIN old
    <3>1. PICK k \in DOMAIN sent : old[i] = Whole(k)
      BY <1>0, <2>1 DEF Reassembled
    <3>2. k \in Nat /\ 1 \in 1 .. sent[k].chunk_count
      <4>1. k \in Nat \ {0} /\ sent[k].chunk_count \in Nat \ {0}
        BY <1>0, SentTypes
      <4>2. QED
        BY <4>1
    <3>3. Message(i) = k
      BY <3>1, <3>2 DEF Message, Whole
    <3>4. QED
      BY <1>0, <1>6, <2>1, <3>2, <3>3
  <2>2. CASE i = last
    BY <1>0, <1>6, <2>2
  <2>3. QED
    BY <1>5, <2>1, <2>2
<1>10. ASSUME NEW k \in DOMAIN sent, sent[k].reliable, k <= m PROVE IsDelivered(k)'
  <2>1. CASE k = m
    BY <1>3, <1>4, <1>6, <2>1 DEF IsDelivered
  <2>2. CASE k # m
    <3>1. k < m
      BY <1>0, <1>10, <2>2, SentTypes
    <3>2. PICK i \in DOMAIN old : Message(i) = k
      BY <1>10, <3>1 DEF IsDelivered
    <3>3. i \in DOMAIN delivered'.reliable
      BY <1>3, <1>4
    <3>4. QED
      BY <1>6, <3>2, <3>3 DEF IsDelivered
  <2>3. QED
    BY <2>1, <2>2
<1>11. QED
  BY <1>3, <1>7, <1>8, <1>9, <1>10

(* A reliable chunk keeps the invariant.                                   *)
LEMMA ReceiveReliableKeeps ==
    ASSUME SplitInv, ReceiveReliable
    PROVE  SplitInv'
<1> DEFINE c == stream[1]
           n0 == c.seqnum
           m == c.message
<1>0. /\ SplitTypes /\ ChunksOK /\ NumbersApart /\ StreamOK /\ HeadOK /\ BufferOK /\ Reassembled
      /\ UNCHANGED << next_outgoing_split_seqnum, sent, datagrams >>
      /\ stream # << >> /\ Handle(Head(stream), TRUE)
  BY DEF SplitInv, ReceiveReliable
<1>1. /\ c \in Chunk /\ 1 \in DOMAIN stream
      /\ c.chunk_num \in Nat \ {0} /\ c.chunk_count \in Nat \ {0} /\ m \in Nat \ {0}
      /\ m \in DOMAIN sent /\ sent[m].reliable
  BY <1>0, HeadKnown
<1>2. /\ stream' \in Seq(Chunk)
      /\ \A i \in DOMAIN stream' : i + 1 \in DOMAIN stream /\ stream'[i] = stream[i + 1]
      /\ stream' = << >> =>
            /\ c.chunk_num = c.chunk_count
            /\ \A k \in DOMAIN sent : sent[k].reliable => k <= m
      /\ stream' # << >> =>
            stream'[1] = stream[2] /\ 2 \in DOMAIN stream /\ Follows(sent, c, stream'[1])
      /\ StreamOK'
  BY NextHead
<1>3. ChunksOK'
  BY <1>0, <1>2 DEF ChunksOK
<1>4. NumbersApart'
  BY <1>0, <1>2 DEF NumbersApart
<1>5. /\ \A k \in DOMAIN sent : sent[k].reliable /\ k < m => IsDelivered(k)
      /\ \A i \in DOMAIN delivered.reliable : Message(i) < m
  BY <1>0 DEF HeadOK
<1>6. \A n \in DOMAIN m_buf' :
         n \in DOMAIN m_buf /\ m_buf'[n] = m_buf[n] /\ ~ m_buf[n].reliable =>
             UnreliableEntry(n)'
  <2> SUFFICES ASSUME NEW n \in DOMAIN m_buf', n \in DOMAIN m_buf, m_buf'[n] = m_buf[n],
                      ~ m_buf[n].reliable
               PROVE  UnreliableEntry(n)'
    OBVIOUS
  <2>1. UnreliableEntry(n)
    BY <1>0 DEF BufferOK
  <2>2. QED
    BY <1>0, <1>2, <2>1 DEF UnreliableEntry
<1>7. m_buf' \in [DOMAIN m_buf' -> Entry]
  BY <1>0, HeadEffect
<1>8. CASE /\ c.chunk_num = c.chunk_count
           /\ delivered' = [delivered EXCEPT !.reliable = Append(@, Whole(m))]
           /\ \A n \in DOMAIN m_buf' :
                 n \in DOMAIN m_buf /\ m_buf'[n] = m_buf[n] /\ ~ m_buf[n].reliable
  <2>1. /\ delivered' \in [reliable : Seq(Parts), unreliable : SUBSET Parts]
        /\ delivered'.unreliable = delivered.unreliable
        /\ \A i \in DOMAIN delivered'.reliable :
              \E k \in DOMAIN sent : sent[k].reliable /\ delivered'.reliable[i] = Whole(k)
        /\ \A i, j \in DOMAIN delivered'.reliable : i < j => Message(i)' < Message(j)'
        /\ \A i \in DOMAIN delivered'.reliable : Message(i)' <= m
        /\ \A k \in DOMAIN sent : sent[k].reliable /\ k <= m => IsDelivered(k)'
    BY <1>0, <1>1, <1>5, <1>8, DeliveredGrows
  <2>2. SplitTypes'
    BY <1>0, <1>2, <1>7, <2>1 DEF SplitTypes
  <2>3. \A i \in DOMAIN delivered'.reliable : Message(i)' \in Nat
    <3> SUFFICES ASSUME NEW i \in DOMAIN delivered'.reliable PROVE Message(i)' \in Nat
      OBVIOUS
    <3>1. PICK k \in DOMAIN sent : delivered'.reliable[i] = Whole(k)
      BY <2>1
    <3>2. k \in Nat /\ sent[k].chunk_count \in Nat \ {0}
      BY <1>0, SentTypes
    <3>3. 1 \in 1 .. sent[k].chunk_count
      BY <3>2
    <3>4. QED
      BY <3>1, <3>2, <3>3 DEF Message, Whole
  <2>4. stream' # << >> =>
           /\ stream'[1].chunk_num = 1 /\ m < stream'[1].message
           /\ \A k \in DOMAIN sent : sent[k].reliable /\ m < k => stream'[1].message <= k
           /\ stream'[1].message \in Nat
    <3>1. stream' # << >> => stream'[1] \in Chunk
      BY <1>2
    <3>2. QED
      BY <1>1, <1>2, <1>8, <3>1 DEF Follows, NextReliable, Chunk
  <2>5. HeadOK'
    <3> SUFFICES ASSUME stream' # << >> PROVE HeadOK'
      BY DEF HeadOK
    <3>1. ASSUME NEW k \in DOMAIN sent', sent'[k].reliable, k < stream'[1].message
          PROVE  IsDelivered(k)'
      <4>1. k \in Nat
        BY <1>0, SentTypes
      <4>2. k <= m
        BY <1>0, <1>1, <2>4, <3>1, <4>1
      <4>3. QED
        BY <1>0, <2>1, <3>1, <4>2
    <3>2. ASSUME NEW i \in DOMAIN delivered'.reliable PROVE Message(i)' < stream'[1].message
      BY <1>1, <2>1, <2>3, <2>4
    <3>3. QED
      BY <2>4, <3>1, <3>2 DEF HeadOK
  <2>6. BufferOK'
    BY <1>6, <1>8 DEF BufferOK
  <2>7. Reassembled'
    <3>1. ASSUME NEW k \in DOMAIN sent', sent'[k].reliable
          PROVE  \/ IsDelivered(k)'
                 \/ stream' # << >> /\ \A i \in DOMAIN delivered'.reliable : Message(i)' < k
      <4>1. k \in Nat
        BY <1>0, SentTypes
      <4>2. CASE k <= m
        BY <1>0, <2>1, <3>1, <4>2
      <4>3. CASE m < k
        <5>1. stream' # << >>
          BY <1>0, <1>1, <1>2, <3>1, <4>1, <4>3
        <5>2. \A i \in DOMAIN delivered'.reliable : Message(i)' < k
          BY <1>1, <2>1, <2>3, <4>1, <4>3
        <5>3. QED
          BY <5>1, <5>2
      <4>4. QED
        BY <1>1, <4>1, <4>2, <4>3
    <3>2. \A k \in DOMAIN sent : Whole(k)' = Whole(k)
      BY <1>0 DEF Whole
    <3>3. ASSUME NEW chunks \in delivered'.unreliable
          PROVE  \E k \in DOMAIN sent' : ~ sent'[k].reliable /\ chunks = Whole(k)'
      BY <1>0, <2>1, <3>2 DEF Reassembled
    <3>4. ASSUME NEW i \in DOMAIN delivered'.reliable
          PROVE  \E k \in DOMAIN sent' : sent'[k].reliable /\ delivered'.reliable[i] = Whole(k)'
      BY <1>0, <2>1, <3>2
    <3>5. QED
      BY <2>1, <3>1, <3>3, <3>4 DEF Reassembled
  <2>8. QED
    BY <1>2, <1>3, <1>4, <2>2, <2>5, <2>6, <2>7 DEF SplitInv
<1>9. CASE /\ c.chunk_num < c.chunk_count
           /\ delivered' = delivered
           /\ n0 \in DOMAIN m_buf'
           /\ m_buf'[n0].reliable
           /\ m_buf'[n0].chunk_count = c.chunk_count
           /\ m_buf'[n0].chunks = [num \in 1 .. c.chunk_num |-> m]
           /\ \A n \in DOMAIN m_buf' : n # n0 =>
                 n \in DOMAIN m_buf /\ m_buf'[n] = m_buf[n] /\ ~ m_buf[n].reliable
  <2>1. SplitTypes'
    BY <1>0, <1>2, <1>7, <1>9 DEF SplitTypes
  <2>2. stream' # << >>
    BY <1>1, <1>2, <1>9
  <2>3. stream'[1] = [c EXCEPT !.chunk_num = @ + 1]
    BY <1>1, <1>2, <1>9, <2>2 DEF Follows
  <2>4. /\ stream'[1].chunk_num = c.chunk_num + 1 /\ stream'[1].seqnum = n0
        /\ stream'[1].message = m /\ stream'[1].chunk_count = c.chunk_count
    BY <1>1, <2>3 DEF Chunk
  <2>5. /\ \A i \in DOMAIN delivered.reliable : Message(i)' = Message(i)
        /\ \A k : IsDelivered(k)' <=> IsDelivered(k)
    BY <1>9 DEF IsDelivered, Message
  <2>6. HeadOK'
    BY <1>0, <1>5, <1>9, <2>4, <2>5 DEF HeadOK
  <2>7. ASSUME NEW n, n = n0 PROVE ReliableEntry(n)'
    <3>1. c.chunk_count > 1 /\ c.chunk_num + 1 > 1 /\ (c.chunk_num + 1) - 1 = c.chunk_num
      BY <1>1, <1>9
    <3>2. HasNumber(stream'[1], n0) /\ HasNumber(c, n0)
      BY <2>4, <3>1 DEF HasNumber
    <3>3. n0 \in 0 .. SplitNumbers - 1
      BY <1>1 DEF Chunk
    <3>4. ASSUME NEW d \in datagrams' PROVE ~ HasNumber(d, n0)
      BY <1>0, <1>1, <3>2, <3>3 DEF NumbersApart
    <3>5. m_buf'[n0].chunks = [num \in 1 .. stream'[1].chunk_num - 1 |-> stream'[1].message]
      BY <1>9, <2>4, <3>1
    <3>6. stream'[1].chunk_num > 1 /\ m_buf'[n0].chunk_count = stream'[1].chunk_count
      BY <1>9, <2>4, <3>1
    <3>7. QED
      BY <2>2, <2>7, <3>2, <3>4, <3>5, <3>6 DEF ReliableEntry
  <2>8. BufferOK'
    BY <1>6, <1>9, <2>7 DEF BufferOK
  <2>9. Reassembled'
    BY <1>0, <1>9, <2>2, <2>5 DEF Reassembled, Whole
  <2>10. QED
    BY <1>2, <1>3, <1>4, <2>1, <2>6, <2>8, <2>9 DEF SplitInv
<1>10. QED
  BY <1>0, <1>8, <1>9, HeadEffect

-----------------------------------------------------------------------------
(* Every step keeps the invariant.                                         *)
LEMMA SplitStep == SplitInv /\ [NextSplitPackets]_splitvars => SplitInv'
<1> SUFFICES ASSUME SplitInv, [NextSplitPackets]_splitvars PROVE SplitInv'
  OBVIOUS
<1>1. CASE UNCHANGED splitvars
  <2>1. /\ next_outgoing_split_seqnum \in 0 .. SplitNumbers - 1
        /\ m_buf \in [DOMAIN m_buf -> Entry]
    BY DEF SplitInv, SplitTypes
  <2>2. QED
    BY <1>1, <2>1, LessKeeps DEF splitvars
<1>2. ASSUME NEW count \in ChunkCounts, SendReliable(count) PROVE SplitInv'
  BY <1>2, SendReliableKeeps
<1>3. ASSUME NEW count \in ChunkCounts, SendUnreliable(count) PROVE SplitInv'
  BY <1>3, SendUnreliableKeeps
<1>4. ASSUME NEW count \in ChunkCounts \ {1}, FailToSend(count) PROVE SplitInv'
  BY <1>4, FailToSendKeeps
<1>5. CASE ReceiveReliable
  BY <1>5, ReceiveReliableKeeps
<1>6. ASSUME NEW chunk \in datagrams, Lose(chunk) PROVE SplitInv'
  BY <1>6, LoseKeeps
<1>7. ASSUME NEW chunk \in datagrams, NEW again \in BOOLEAN, ReceiveUnreliable(chunk, again)
      PROVE  SplitInv'
  BY <1>7, ReceiveUnreliableKeeps
<1>8. ASSUME NEW n \in DOMAIN m_buf, RemoveUnreliableTimedOut(n) PROVE SplitInv'
  BY <1>8, TimeOutKeeps
<1>9. QED
  BY <1>1, <1>2, <1>3, <1>4, <1>5, <1>6, <1>7, <1>8 DEF NextSplitPackets

(* The variables keep their types.                                         *)
THEOREM SplitTypeCorrect == SpecSplitPackets => []SplitTypes
<1>1. SplitInv => SplitTypes
  BY DEF SplitInv
<1>2. QED
  BY <1>1, InitSplit, SplitStep, PTL DEF SpecSplitPackets

(* A message handed on is one that was sent, put together from all of its  *)
(* own chunks and no others, whatever is lost, doubled or overtaken and    *)
(* though split numbers come round; reliable ones come in the order they   *)
(* were sent, none left out (internal.h:286, impl.cpp:438).                *)
THEOREM ReassembledHolds == SpecSplitPackets => []Reassembled
<1>1. SplitInv => Reassembled
  BY DEF SplitInv
<1>2. QED
  BY <1>1, InitSplit, SplitStep, PTL DEF SpecSplitPackets
=============================================================================
