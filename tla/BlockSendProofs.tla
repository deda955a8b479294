--------------------------- MODULE BlockSendProofs ---------------------------
(***************************************************************************)
(* What is proved of BlockSend for every number of blocks, their distances *)
(* and every limit: no more blocks are in flight than a client is allowed; *)
(* as long as no metadata is removed, what the server counts as sent has   *)
(* been put into messages, and the client gets it as it is; the search     *)
(* leaves no block behind; and every variable keeps its type.              *)
(***************************************************************************)
EXTENDS BlockSend, FiniteSetTheorems, WellFoundedInduction, SequenceTheorems, TLAPS

-----------------------------------------------------------------------------
(* Blocks in flight *)

SetsTypeOK == m_blocks_sent \subseteq Blocks /\ m_blocks_sending \subseteq Blocks

ThrottledInv == SetsTypeOK /\ Throttled

\* Every set of blocks is finite.
LEMMA BlocksFinite ==
    /\ Blocks \subseteq Nat
    /\ \A S \in SUBSET Blocks : IsFiniteSet(S) /\ Cardinality(S) \in Nat
<1>1. N \in Int /\ 1 \in Int
  BY BlockSendAssumption
<1>2. IsFiniteSet(Blocks)
  BY <1>1, FS_Interval DEF Blocks
<1>3. Blocks \subseteq Nat
  BY <1>1 DEF Blocks
<1> QED BY <1>2, <1>3, FS_Subset, FS_CardinalityType

\* A strict subset comes before its superset.
LEMMA StrictPair ==
    ASSUME NEW S, NEW A \in SUBSET S, NEW X \in SUBSET S, A \subseteq X, A # X
    PROVE  <<A, X>> \in StrictSubsetOrdering(S)
<1> DEFINE p == <<A, X>>
<1>1. p \in (SUBSET S) \X (SUBSET S) /\ p[1] = A /\ p[2] = X
  OBVIOUS
<1> HIDE DEF p
<1>2. p \in StrictSubsetOrdering(S)
  BY <1>1 DEF StrictSubsetOrdering
<1> QED BY <1>2 DEF p

\* A nonempty set of blocks has a last one in the order of the search.
LEMMA HasLast ==
    ASSUME NEW S \in SUBSET Blocks, S # {}
    PROVE  \E m \in S : \A c \in S : c <= m
<1> DEFINE After(m) == {c \in S : c > m}
           T == {After(m) : m \in S}
<1>1. IsFiniteSet(S)
  BY BlocksFinite
<1>2. IsWellFoundedOn(StrictSubsetOrdering(S), SUBSET S)
  BY <1>1, FS_StrictSubsetOrderingWellFounded, FS_FiniteSubsetsOfFinite
<1>3. T \subseteq SUBSET S /\ T # {}
  OBVIOUS
<1>4. PICK X \in T : \A Y \in T : ~ (<<Y, X>> \in StrictSubsetOrdering(S))
  BY <1>2, <1>3, WFMin
<1>5. PICK m \in S : X = After(m)
  OBVIOUS
<1>6. \A c \in S : c <= m
  <2> SUFFICES ASSUME NEW c \in S, ~(c <= m)
               PROVE  FALSE
    OBVIOUS
  <2>1. c \in Int /\ m \in Int /\ \A d \in S : d \in Int
    BY BlocksFinite
  <2>2. c \in After(m) /\ c \notin After(c) /\ After(c) \subseteq After(m)
    <3>1. c > m /\ ~(c > c) /\ \A d \in S : d > c => d > m
      BY <2>1
    <3> QED BY <3>1
  <2>3. << After(c), X >> \in StrictSubsetOrdering(S)
    <3>1. /\ After(c) \in SUBSET S /\ X \in SUBSET S
          /\ After(c) \subseteq X /\ After(c) # X
      BY <1>5, <2>2
    <3> HIDE DEF After, T
    <3> QED BY <3>1, StrictPair
  <2>4. After(c) \in T
    OBVIOUS
  <2> HIDE DEF After, T
  <2> QED BY <1>4, <2>3, <2>4
<1> QED BY <1>6

\* Taking blocks out of the two sets, or moving one from sending to sent,
\* keeps the invariant.
LEMMA ShrinkKeeps ==
    ASSUME ThrottledInv,
           m_blocks_sending' \subseteq m_blocks_sending,
           m_blocks_sent' \subseteq Blocks,
           m_blocks_sent' \cap m_blocks_sending' = {}
    PROVE  ThrottledInv'
<1>1. IsFiniteSet(m_blocks_sending)
  BY BlocksFinite DEF ThrottledInv, SetsTypeOK
<1>2. /\ IsFiniteSet(m_blocks_sending') 
      /\ Cardinality(m_blocks_sending') <= Cardinality(m_blocks_sending)
  BY <1>1, FS_Subset
<1>3. Cardinality(m_blocks_sending') \in Nat /\ Cardinality(m_blocks_sending) \in Nat
  BY <1>1, <1>2, FS_CardinalityType
<1>4. Cardinality(m_blocks_sending') <= m_max_simul_sends
  BY <1>2, <1>3, BlockSendAssumption DEF ThrottledInv, Throttled
<1> QED BY <1>4 DEF ThrottledInv, SetsTypeOK, Throttled

LEMMA SetNotSentKeeps ==
    ASSUME ThrottledInv, NEW S, SetNotSent(S) \/ ResendIfOnWire(S) \/ UNCHANGED remote
    PROVE  ThrottledInv'
<1>1. /\ m_blocks_sending' \subseteq m_blocks_sending
      /\ m_blocks_sent' \subseteq m_blocks_sent
  BY DEF SetNotSent, ResendIfOnWire, remote
<1> QED BY <1>1, ShrinkKeeps DEF ThrottledInv, SetsTypeOK, Throttled

\* What one search selects fits into the limit.
LEMMA SelectionFits ==
    ASSUME ThrottledInv, NEW start, NEW building \in BOOLEAN,
           NEW chosen \in SUBSET Blocks,
           Cardinality(m_blocks_sending) < m_max_simul_sends,
           \A c \in chosen : Selectable(c) /\ start <= Dist[c],
           \A c \in chosen : ~Full(c, start, building)
    PROVE  Cardinality(m_blocks_sending \cup chosen) <= m_max_simul_sends
<1>1. /\ IsFiniteSet(m_blocks_sending) /\ IsFiniteSet(chosen)
      /\ \A S \in SUBSET Blocks : IsFiniteSet(S) /\ Cardinality(S) \in Nat
  BY BlocksFinite DEF ThrottledInv, SetsTypeOK
<1>2. CASE chosen = {}
  <2>1. m_blocks_sending \cup chosen = m_blocks_sending
    BY <1>2
  <2> QED BY <2>1 DEF ThrottledInv, Throttled
<1>3. CASE chosen # {}
  <2>1. PICK m \in chosen : \A c \in chosen : c <= m
    BY <1>3, HasLast
  <2> DEFINE before == {c \in Blocks : start <= Dist[c] /\ c < m /\ Selectable(c)}
  <2>2. m_max_simul_sends \in Nat /\ Limit(Dist[m], building) \in Nat
        /\ Limit(Dist[m], building) <= m_max_simul_sends
    BY BlockSendAssumption DEF Limit, LIMITED_MAX_SIMULTANEOUS_BLOCK_SENDS
  <2>3. Cardinality(before) \in Nat /\ Cardinality(m_blocks_sending) \in Nat
        /\ IsFiniteSet(before)
    BY <1>1 DEF ThrottledInv, SetsTypeOK
  <2>4. ~(Cardinality(m_blocks_sending) + Cardinality(before) >= Limit(Dist[m], building))
    BY DEF Full
  <2>5. Cardinality(m_blocks_sending) + Cardinality(before) < m_max_simul_sends
    BY <2>2, <2>3, <2>4
  <2>6. chosen \subseteq before \cup {m}
    BY <2>1, BlocksFinite
  <2>7. /\ IsFiniteSet(before \cup {m})
        /\ Cardinality(before \cup {m}) <= Cardinality(before) + 1
    BY <2>3, FS_AddElement
  <2>8. Cardinality(chosen) <= Cardinality(before) + 1
    <3>1. Cardinality(chosen) <= Cardinality(before \cup {m})
      BY <2>6, <2>7, FS_Subset
    <3>2. Cardinality(chosen) \in Nat /\ Cardinality(before \cup {m}) \in Nat
      BY <1>1, <2>7, FS_CardinalityType
    <3> QED BY <2>3, <2>7, <3>1, <3>2
  <2>9. Cardinality(m_blocks_sending \cup chosen)
          <= Cardinality(m_blocks_sending) + Cardinality(chosen)
    <3>1. Cardinality(m_blocks_sending \cup chosen)
            = Cardinality(m_blocks_sending) + Cardinality(chosen)
              - Cardinality(m_blocks_sending \cap chosen)
      BY <1>1, FS_Union
    <3>2. /\ Cardinality(m_blocks_sending \cap chosen) \in Nat
          /\ Cardinality(chosen) \in Nat
      BY <1>1, FS_Intersection, FS_CardinalityType
    <3> QED BY <2>3, <3>1, <3>2
  <2>10. Cardinality(m_blocks_sending \cup chosen) \in Nat /\ Cardinality(chosen) \in Nat
    BY <1>1 DEF ThrottledInv, SetsTypeOK
  <2> QED BY <2>2, <2>3, <2>5, <2>8, <2>9, <2>10
<1> QED BY <1>2, <1>3

LEMMA SendBlocksKeepsThrottled ==
    ASSUME ThrottledInv, NEW turned \in BOOLEAN, NEW building \in BOOLEAN,
           NEW refuse, NEW sent, SendBlocks(turned, building, refuse, sent)
    PROVE  ThrottledInv'
<1> DEFINE start == Start(turned)
           range == {b \in Blocks : start <= Dist[b] /\ Dist[b] <= start + 2}
           stops == {b \in range : \/ Full(b, start, building)
                                   \/ Emergeable(b) /\ b >= refuse}
           reached == {b \in range : \A s \in stops : b < s}
           chosen == {b \in reached : Selectable(b)}
           send == IF OthersBusy THEN chosen \cap sent ELSE chosen
<1>1. /\ Cardinality(m_blocks_sending) < m_max_simul_sends
      /\ m_blocks_sending' = m_blocks_sending \cup send
      /\ m_blocks_sent' = m_blocks_sent
  BY DEF SendBlocks
<1>2. chosen \in SUBSET Blocks /\ send \subseteq chosen
  OBVIOUS
<1>3. \A c \in chosen : Selectable(c) /\ start <= Dist[c] /\ c \notin m_blocks_sent
  BY DEF Selectable, Lacking
<1>4. \A c \in chosen : ~Full(c, start, building)
  BY BlocksFinite
<1> HIDE DEF start, chosen, send
<1>5. Cardinality(m_blocks_sending \cup chosen) <= m_max_simul_sends
  BY <1>1, <1>2, <1>3, <1>4, SelectionFits
<1>6. Cardinality(m_blocks_sending \cup send) <= m_max_simul_sends
  <2>1. (m_blocks_sending \cup chosen) \in SUBSET Blocks
        /\ (m_blocks_sending \cup send) \in SUBSET (m_blocks_sending \cup chosen)
    BY <1>2 DEF ThrottledInv, SetsTypeOK
  <2>2. /\ IsFiniteSet(m_blocks_sending \cup chosen)
        /\ Cardinality(m_blocks_sending \cup chosen) \in Nat
        /\ Cardinality(m_blocks_sending \cup send) \in Nat
    BY <2>1, BlocksFinite
  <2>3. Cardinality(m_blocks_sending \cup send) <= Cardinality(m_blocks_sending \cup chosen)
    BY <2>1, <2>2, FS_Subset
  <2> QED BY <1>5, <2>2, <2>3, BlockSendAssumption
<1>7. QED
  BY <1>1, <1>2, <1>3, <1>6 DEF ThrottledInv, SetsTypeOK, Throttled

(* Every step keeps the sets apart and within the limit: only a search     *)
(* adds to the blocks in flight, and only GOTBLOCKS moves one of them.     *)
THEOREM ThrottledHolds == Spec => []Throttled
<1>1. Init => ThrottledInv
  <2> SUFFICES ASSUME Init PROVE ThrottledInv
    OBVIOUS
  <2>1. m_blocks_sent = {} /\ m_blocks_sending = {}
    BY DEF Init
  <2> QED BY <2>1, BlockSendAssumption, FS_EmptySet DEF ThrottledInv, SetsTypeOK, Throttled
<1>2. ThrottledInv /\ [Next]_vars => ThrottledInv'
  <2> SUFFICES ASSUME ThrottledInv, [Next]_vars PROVE ThrottledInv'
    OBVIOUS
  <2>1. CASE UNCHANGED remote
    BY <2>1, SetNotSentKeeps
  <2>2. CASE \E far \in BOOLEAN : FlushEvent(far)
    BY <2>2, SetNotSentKeeps DEF FlushEvent
  <2>3. CASE \E far \in SUBSET node_meta_updates : FlushEnd(far)
    BY <2>3, SetNotSentKeeps DEF FlushEnd
  <2>4. CASE \E turned, building \in BOOLEAN,
                refuse \in {b \in Blocks : Emergeable(b)} \cup {N + 1},
                sent \in IF OthersBusy THEN SUBSET Blocks ELSE {{}} :
                 SendBlocks(turned, building, refuse, sent)
    BY <2>4, SendBlocksKeepsThrottled
  <2>5. CASE PauseOver
    BY <2>5, ShrinkKeeps DEF PauseOver, ThrottledInv, SetsTypeOK, Throttled
  <2>6. CASE ServerReceive2
    <3> DEFINE m == Head(toServer2)
    <3>1. CASE GotBlock(m.block)
      BY <3>1, ShrinkKeeps DEF GotBlock, ThrottledInv, SetsTypeOK, Throttled
    <3>2. CASE SetNotSent({m.block})
      BY <3>2, SetNotSentKeeps
    <3> QED BY <2>6, <3>1, <3>2 DEF ServerReceive2
  <2>7. CASE \E verdict \in Verdicts : ServerInteract(verdict)
    BY <2>7, SetNotSentKeeps DEF ServerInteract
  <2>8. UNCHANGED remote \/ (\E far \in BOOLEAN : FlushEvent(far))
        \/ (\E far \in SUBSET node_meta_updates : FlushEnd(far))
        \/ (\E turned, building \in BOOLEAN,
                refuse \in {b \in Blocks : Emergeable(b)} \cup {N + 1},
                sent \in IF OthersBusy THEN SUBSET Blocks ELSE {{}} :
                 SendBlocks(turned, building, refuse, sent))
        \/ PauseOver \/ ServerReceive2
        \/ \E verdict \in Verdicts : ServerInteract(verdict)
    BY DEF Next, vars, MapEdit, EmergeDone, EmergeReport, Reveal, CompletionTimeout, SendBlock,
           ClientAck, ClientDelete, ClientReceive0, ClientReceive2, Predict
  <2> QED BY <2>1, <2>2, <2>3, <2>4, <2>5, <2>6, <2>7, <2>8
<1>3. ThrottledInv => Throttled
  BY DEF ThrottledInv
<1> QED BY <1>1, <1>2, <1>3, PTL DEF Spec

-----------------------------------------------------------------------------
(* What is counted as sent has been sent *)

ContentTypeOK ==
    /\ content \in [Blocks -> Content]
    /\ told \in [Blocks -> Content]
    /\ events \in Seq(Event)
    /\ toServer0 \in Seq(Interact)
    /\ times \in [Happenings -> Nat]
    /\ node_meta_updates \subseteq Blocks
    /\ SetsTypeOK

\* The last event of a block about a node carries what the map has.
LastNodeKnown ==
    \A i \in DOMAIN events :
        (/\ events[i].kind = "node"
         /\ \A j \in DOMAIN events :
               j > i /\ events[j].kind = "node" => events[j].block # events[i].block)
        => events[i].node = content[events[i].block].node

\* Metadata that an event is about is there.
MetaThere ==
    \A b \in Blocks :
        Pending(b, "meta") \/ b \in node_meta_updates => content[b].meta # 0

AnnouncedInv == ContentTypeOK /\ LastNodeKnown /\ MetaThere /\ Announced

\* Steps that leave the map, the events and the messages' contents alone and
\* add nothing to what is sent or in flight.
LEMMA QuietKeeps ==
    ASSUME AnnouncedInv, UNCHANGED << content, told, events, node_meta_updates >>,
           toServer0' \in Seq(Interact), times' \in [Happenings -> Nat], SetsTypeOK',
           (m_blocks_sent' \cup m_blocks_sending') \subseteq (m_blocks_sent \cup m_blocks_sending)
    PROVE  AnnouncedInv'
<1>1. \A b, k : Pending(b, k)' <=> Pending(b, k)
  BY DEF Pending
<1>2. Announced'
  BY <1>1 DEF AnnouncedInv, Announced
<1>3. LastNodeKnown' /\ MetaThere'
  BY <1>1 DEF AnnouncedInv, LastNodeKnown, MetaThere
<1> QED BY <1>2, <1>3 DEF AnnouncedInv, ContentTypeOK

\* SetBlockNotSent and its kind only take blocks away.
LEMMA SetNotSentShrinks ==
    ASSUME SetsTypeOK, NEW S, SetNotSent(S) \/ ResendIfOnWire(S) \/ UNCHANGED remote
    PROVE  /\ SetsTypeOK'
           /\ m_blocks_sent' \subseteq m_blocks_sent
           /\ m_blocks_sending' \subseteq m_blocks_sending
BY DEF SetsTypeOK, SetNotSent, ResendIfOnWire, remote

\* A happening is counted.
LEMMA CountType ==
    ASSUME times \in [Happenings -> Nat], NEW h \in Happenings, Count(h)
    PROVE  times' \in [Happenings -> Nat]
BY DEF Count

(* An event at the end of the queue, about what has changed of one block:  *)
(* whoever has the block will be told.                                     *)
LEMMA AppendKeeps ==
    ASSUME AnnouncedInv, NEW e \in Event, events' = Append(events, e),
           UNCHANGED << told, node_meta_updates >>,
           content' \in [Blocks -> Content],
           \A c \in Blocks \ {e.block} : content'[c] = content[c],
           e.kind = "node" \/ content'[e.block].node = content[e.block].node,
           e.kind = "bulk" \/ content'[e.block].bulk = content[e.block].bulk,
           e.kind = "meta" \/ content'[e.block].meta = content[e.block].meta,
           e.kind = "node" => e.node = content'[e.block].node,
           e.kind = "meta" => content'[e.block].meta # 0,
           toServer0' \in Seq(Interact), times' \in [Happenings -> Nat], SetsTypeOK',
           (m_blocks_sent' \cup m_blocks_sending') \subseteq (m_blocks_sent \cup m_blocks_sending)
    PROVE  AnnouncedInv'
<1> DEFINE n == Len(events)
           b == e.block
<1>1. /\ events \in Seq(Event) /\ n \in Nat
      /\ DOMAIN events = 1 .. n
  BY DEF AnnouncedInv, ContentTypeOK
<1>2. b \in Blocks
  BY DEF Event
<1> HIDE DEF n, b
<1>3. /\ events' \in Seq(Event)
      /\ DOMAIN events' = 1 .. n + 1
      /\ \A i \in 1 .. n : events'[i] = events[i]
      /\ events'[n + 1] = e
  BY <1>1 DEF n
<1>4. ContentTypeOK'
  BY <1>3 DEF AnnouncedInv, ContentTypeOK
<1>5. \A c, k : Pending(c, k)' <=> Pending(c, k) \/ (c = b /\ k = e.kind)
  BY <1>1, <1>3 DEF Pending, b
<1>6. MetaThere'
  <2> SUFFICES ASSUME NEW c \in Blocks, Pending(c, "meta")' \/ c \in node_meta_updates'
               PROVE  content'[c].meta # 0
    BY DEF MetaThere
  <2>1. CASE c = b /\ e.kind = "meta"
    BY <2>1 DEF b
  <2>2. CASE ~(c = b /\ e.kind = "meta")
    <3>1. content[c].meta # 0
      BY <1>5, <2>2 DEF AnnouncedInv, MetaThere
    <3>2. content'[c].meta = content[c].meta
      BY <2>2 DEF b
    <3> QED BY <3>1, <3>2
  <2> QED BY <2>1, <2>2
<1>7. LastNodeKnown'
  <2> SUFFICES ASSUME NEW i \in DOMAIN events', events'[i].kind = "node",
                      \A j \in DOMAIN events' : j > i /\ events'[j].kind = "node"
                          => events'[j].block # events'[i].block
               PROVE  events'[i].node = content'[events'[i].block].node
    BY DEF LastNodeKnown
  <2>1. CASE i = n + 1
    BY <1>3, <2>1
  <2>2. CASE i \in 1 .. n
    <3>1. events'[i] = events[i] /\ events[i] \in Event /\ events[i].block \in Blocks
      <4>1. events'[i] = events[i] /\ events[i] \in Event
        BY <1>1, <1>3, <2>2
      <4> QED BY <4>1 DEF Event
    <3>2. e.kind = "node" => events[i].block # b
      <4>1. n + 1 \in DOMAIN events' /\ n + 1 > i
        BY <1>1, <1>3, <2>2
      <4> QED BY <1>3, <3>1, <4>1 DEF b
    <3>3. \A j \in DOMAIN events : j > i /\ events[j].kind = "node"
              => events[j].block # events[i].block
      BY <1>1, <1>3, <3>1
    <3>4. events[i].node = content[events[i].block].node
      BY <1>1, <2>2, <3>1, <3>3 DEF AnnouncedInv, LastNodeKnown
    <3>5. content'[events[i].block].node = content[events[i].block].node
      BY <3>1, <3>2 DEF b
    <3> QED BY <3>1, <3>4, <3>5
  <2> QED BY <1>1, <1>3, <2>1, <2>2
<1>8. Announced'
  <2> SUFFICES ASSUME NEW c \in m_blocks_sent \cup m_blocks_sending
               PROVE  /\ told[c].node = content'[c].node \/ Pending(c, "node")'
                      /\ told[c].bulk = content'[c].bulk \/ Pending(c, "bulk")'
                      /\ \/ told[c].meta = content'[c].meta
                         \/ Pending(c, "meta")' \/ c \in node_meta_updates
    BY DEF Announced
  <2>1. /\ told[c].node = content[c].node \/ Pending(c, "node")
        /\ told[c].bulk = content[c].bulk \/ Pending(c, "bulk")
        /\ told[c].meta = content[c].meta \/ Pending(c, "meta") \/ c \in node_meta_updates
    BY DEF AnnouncedInv, Announced
  <2>2. c \in Blocks
    BY DEF AnnouncedInv, ContentTypeOK, SetsTypeOK
  <2>3. c # b => content'[c] = content[c]
    BY <2>2 DEF b
  <2> QED BY <1>5, <2>1, <2>3 DEF b
<1> QED BY <1>4, <1>6, <1>7, <1>8 DEF AnnouncedInv

(* A change of the map is followed by its event.                           *)
LEMMA EditKeeps ==
    ASSUME AnnouncedInv, NEW b \in Blocks, NEW kind \in {"node", "bulk", "meta"},
           Edit(b, kind), UNCHANGED told,
           toServer0' \in Seq(Interact), SetsTypeOK',
           (m_blocks_sent' \cup m_blocks_sending') \subseteq (m_blocks_sent \cup m_blocks_sending)
    PROVE  AnnouncedInv'
<1> DEFINE e == OfKind(b, kind)
<1>1. /\ content' = Changed(b, kind)
      /\ events' = Append(events, e)
      /\ node_meta_updates' = node_meta_updates
      /\ Count("edit")
  BY DEF Edit
<1>2. /\ content \in [Blocks -> Content]
      /\ times["edit"] \in Nat
      /\ times' \in [Happenings -> Nat]
  BY <1>1, CountType DEF AnnouncedInv, ContentTypeOK, Happenings
<1>3. /\ content[b] \in Content
      /\ content[b].node + 1 \in Nat
  BY <1>2 DEF Content, Guess
<1>4. /\ e \in Event /\ e.block = b /\ e.kind = kind
      /\ kind = "node" => e.node = content[b].node + 1
  BY <1>3 DEF OfKind, Event
<1>5. /\ content' \in [Blocks -> Content]
      /\ \A c \in Blocks \ {b} : content'[c] = content[c]
      /\ content'[b].node = IF kind = "node" THEN content[b].node + 1 ELSE content[b].node
      /\ content'[b].bulk = IF kind = "bulk" THEN content[b].bulk + 1 ELSE content[b].bulk
      /\ content'[b].meta = IF kind = "meta" THEN times["edit"] + 1 ELSE content[b].meta
  BY <1>1, <1>2, <1>3 DEF Changed, Content
<1> HIDE DEF e
<1>6. kind = "meta" => content'[b].meta # 0
  BY <1>2, <1>5
<1> QED BY <1>1, <1>2, <1>4, <1>5, <1>6, AppendKeeps

\* A block that is sent or in flight is in memory, whole.
MemTypeOK == mem \in [Blocks -> {"none", "blank", "ready"}]
ReadyInv ==
    /\ MemTypeOK /\ SetsTypeOK
    /\ \A b \in m_blocks_sent \cup m_blocks_sending : mem[b] = "ready"

(* An emerge thread only touches a block that is not whole yet, and nobody *)
(* counts that as sent.                                                    *)
LEMMA EmergeDoneKeeps ==
    ASSUME AnnouncedInv, ReadyInv, NEW b \in Blocks, EmergeDone(b)
    PROVE  AnnouncedInv'
<1>1. /\ UNCHANGED << told, events, node_meta_updates, toServer0, times,
                      m_blocks_sent, m_blocks_sending >>
      /\ \/ content' = content
         \/ /\ mem[b] = "blank"
            /\ content' = [content EXCEPT ![b].bulk = content[b].bulk + 1]
  BY Zenon DEF EmergeDone, remote, eventvars, net
<1>2. content \in [Blocks -> Content] /\ content[b] \in Content
  BY DEF AnnouncedInv, ContentTypeOK
<1>3. /\ content' \in [Blocks -> Content]
      /\ \A c \in Blocks : /\ content'[c].node = content[c].node
                           /\ content'[c].meta = content[c].meta
                           /\ c \in m_blocks_sent \cup m_blocks_sending
                              => content'[c] = content[c]
  <2>1. CASE content' = content
    BY <1>2, <2>1
  <2>2. CASE mem[b] = "blank" /\ content' = [content EXCEPT ![b].bulk = content[b].bulk + 1]
    <3> DEFINE new == [content[b] EXCEPT !.bulk = content[b].bulk + 1]
    <3>1. content' = [content EXCEPT ![b] = new]
      BY <2>2
    <3>2. new \in Content /\ new.node = content[b].node /\ new.meta = content[b].meta
      BY <1>2 DEF Content
    <3>3. b \notin m_blocks_sent \cup m_blocks_sending
      BY <2>2 DEF ReadyInv
    <3> HIDE DEF new
    <3> QED BY <1>2, <3>1, <3>2, <3>3
  <2> QED BY <1>1, <2>1, <2>2
<1>4. \A c, k : Pending(c, k)' <=> Pending(c, k)
  BY <1>1 DEF Pending
<1>5. ContentTypeOK'
  BY <1>1, <1>3 DEF AnnouncedInv, ContentTypeOK, SetsTypeOK
<1>6. MetaThere'
  BY <1>1, <1>3, <1>4 DEF AnnouncedInv, MetaThere
<1>7. LastNodeKnown'
  <2>1. \A i \in DOMAIN events : events[i].block \in Blocks
    <3>1. \A i \in DOMAIN events : events[i] \in Event
      BY DEF AnnouncedInv, ContentTypeOK
    <3> QED BY <3>1 DEF Event
  <2> QED BY <1>1, <1>3, <2>1 DEF AnnouncedInv, LastNodeKnown
<1>8. Announced'
  <2>1. m_blocks_sent \cup m_blocks_sending \subseteq Blocks
    BY DEF ReadyInv, SetsTypeOK
  <2> QED BY <1>1, <1>3, <1>4, <2>1 DEF AnnouncedInv, Announced
<1> QED BY <1>5, <1>6, <1>7, <1>8 DEF AnnouncedInv

LEMMA EmergeReportKeeps ==
    ASSUME AnnouncedInv, NEW b \in Blocks, EmergeReport(b)
    PROVE  AnnouncedInv'
<1> DEFINE e == [kind |-> "bulk", block |-> b, node |-> 0]
<1>1. /\ events' = Append(events, e)
      /\ UNCHANGED << content, told, node_meta_updates, toServer0, times,
                      m_blocks_sent, m_blocks_sending >>
  BY DEF EmergeReport, remote, net
<1>2. e \in Event /\ e.block = b /\ e.kind = "bulk"
  BY DEF Event
<1>3. /\ content' \in [Blocks -> Content] /\ toServer0' \in Seq(Interact)
      /\ times' \in [Happenings -> Nat] /\ SetsTypeOK'
  BY <1>1 DEF AnnouncedInv, ContentTypeOK, SetsTypeOK
<1> HIDE DEF e
<1> QED BY <1>1, <1>2, <1>3, AppendKeeps

(* An event leaves the queue: the client is told, or the block is no       *)
(* longer counted as sent.                                                 *)
LEMMA FlushEventKeeps ==
    ASSUME AnnouncedInv, NEW far \in BOOLEAN, FlushEvent(far)
    PROVE  AnnouncedInv'
<1> DEFINE e == Head(events)
           n == Len(events)
           sends == e.kind = "node" /\ SendsNode(e.block, far)
<1>1. /\ events # <<>> /\ events' = Tail(events)
      /\ content' = content /\ toServer0' = toServer0 /\ times' = times
      /\ told' = IF ~sends THEN told ELSE [told EXCEPT ![e.block].node = e.node]
      /\ IF Marks(e, far) THEN SetNotSent({e.block}) ELSE UNCHANGED remote
      /\ node_meta_updates' = IF e.kind = "meta" THEN node_meta_updates \cup {e.block}
                                                 ELSE node_meta_updates
  BY DEF FlushEvent, mapvars
<1>2. /\ events \in Seq(Event) /\ n \in Nat \ {0} /\ DOMAIN events = 1 .. n
      /\ e = events[1] /\ e \in Event
      /\ events' \in Seq(Event) /\ DOMAIN events' = 1 .. n - 1
      /\ \A i \in 1 .. n - 1 : events'[i] = events[i + 1]
  BY <1>1 DEF AnnouncedInv, ContentTypeOK
<1>3. e.block \in Blocks /\ e.kind \in {"node", "bulk", "meta"} /\ e.node \in Nat
  BY <1>2 DEF Event
<1> HIDE DEF e, n
<1>4. /\ SetsTypeOK'
      /\ m_blocks_sent' \subseteq m_blocks_sent
      /\ m_blocks_sending' \subseteq m_blocks_sending
      /\ Marks(e, far) => e.block \notin m_blocks_sent' \cup m_blocks_sending'
  BY <1>1, SetNotSentShrinks DEF AnnouncedInv, ContentTypeOK, SetNotSent
<1>5. told' \in [Blocks -> Content]
      /\ \A c \in Blocks : /\ c # e.block => told'[c] = told[c]
                           /\ told'[c].bulk = told[c].bulk /\ told'[c].meta = told[c].meta
                           /\ ~sends => told'[c] = told[c]
                           /\ c = e.block /\ sends => told'[c].node = e.node
  BY <1>1, <1>3 DEF AnnouncedInv, ContentTypeOK, Content
<1>6. ContentTypeOK'
  BY <1>1, <1>2, <1>3, <1>4, <1>5 DEF AnnouncedInv, ContentTypeOK
<1>7. \A c, k : Pending(c, k) => Pending(c, k)' \/ (c = e.block /\ k = e.kind)
  <2> SUFFICES ASSUME NEW c, NEW k, NEW i \in DOMAIN events,
                      events[i].kind = k, events[i].block = c, i # 1
               PROVE  Pending(c, k)'
    BY <1>2 DEF Pending
  <2>1. i - 1 \in DOMAIN events' /\ events'[i - 1] = events[i]
    BY <1>2
  <2> QED BY <2>1 DEF Pending
<1>8. \A c, k : Pending(c, k)' => Pending(c, k)
  <2> SUFFICES ASSUME NEW c, NEW k, NEW i \in DOMAIN events',
                      events'[i].kind = k, events'[i].block = c
               PROVE  Pending(c, k)
    BY DEF Pending
  <2>1. i + 1 \in DOMAIN events /\ events'[i] = events[i + 1]
    BY <1>2
  <2> QED BY <2>1 DEF Pending
<1>9. e.kind = "meta" => Pending(e.block, "meta")
  BY <1>2 DEF Pending
<1>10. MetaThere'
  BY <1>1, <1>8, <1>9 DEF AnnouncedInv, MetaThere
<1>11. LastNodeKnown'
  <2> SUFFICES ASSUME NEW i \in DOMAIN events', events'[i].kind = "node",
                      \A j \in DOMAIN events' : j > i /\ events'[j].kind = "node"
                          => events'[j].block # events'[i].block
               PROVE  events'[i].node = content[events'[i].block].node
    BY <1>1 DEF LastNodeKnown
  <2>1. i + 1 \in DOMAIN events /\ events'[i] = events[i + 1]
    BY <1>2
  <2>2. \A j \in DOMAIN events : j > i + 1 /\ events[j].kind = "node"
            => events[j].block # events[i + 1].block
    <3> SUFFICES ASSUME NEW j \in DOMAIN events, j > i + 1, events[j].kind = "node"
                 PROVE  events[j].block # events[i + 1].block
      OBVIOUS
    <3>1. j - 1 \in DOMAIN events' /\ j - 1 > i /\ events'[j - 1] = events[j]
      BY <1>2
    <3> QED BY <2>1, <3>1
  <2> QED BY <2>1, <2>2 DEF AnnouncedInv, LastNodeKnown
<1>12. Announced'
  <2> SUFFICES ASSUME NEW c \in m_blocks_sent' \cup m_blocks_sending'
               PROVE  /\ told'[c].node = content[c].node \/ Pending(c, "node")'
                      /\ told'[c].bulk = content[c].bulk \/ Pending(c, "bulk")'
                      /\ \/ told'[c].meta = content[c].meta
                         \/ Pending(c, "meta")' \/ c \in node_meta_updates'
    BY <1>1 DEF Announced
  <2>1. c \in Blocks /\ c \in m_blocks_sent \cup m_blocks_sending
    BY <1>4 DEF AnnouncedInv, ContentTypeOK, SetsTypeOK
  <2>2. /\ told[c].node = content[c].node \/ Pending(c, "node")
        /\ told[c].bulk = content[c].bulk \/ Pending(c, "bulk")
        /\ told[c].meta = content[c].meta \/ Pending(c, "meta") \/ c \in node_meta_updates
    BY <2>1 DEF AnnouncedInv, Announced
  <2>3. told'[c].node = content[c].node \/ Pending(c, "node")'
    <3>1. CASE c = e.block /\ e.kind = "node"
      <4>1. sends
        BY <1>4, <3>1 DEF Marks
      <4>2. CASE Pending(c, "node")'
        BY <4>2
      <4>3. CASE ~Pending(c, "node")'
        <5>1. \A j \in DOMAIN events : j > 1 /\ events[j].kind = "node" => events[j].block # c
          <6> SUFFICES ASSUME NEW j \in DOMAIN events, j > 1, events[j].kind = "node",
                              events[j].block = c
                       PROVE  FALSE
            OBVIOUS
          <6>1. j - 1 \in DOMAIN events' /\ events'[j - 1] = events[j]
            BY <1>2
          <6> QED BY <4>3, <6>1 DEF Pending
        <5>2. e.node = content[c].node
          BY <1>2, <3>1, <5>1 DEF AnnouncedInv, LastNodeKnown
        <5> QED BY <1>5, <2>1, <3>1, <4>1, <5>2
      <4> QED BY <4>2, <4>3
    <3>2. CASE ~(c = e.block /\ e.kind = "node")
      <4>1. told'[c].node = told[c].node
        BY <1>5, <2>1, <3>2
      <4> QED BY <1>7, <2>2, <3>2, <4>1
    <3> QED BY <3>1, <3>2
  <2>4. told'[c].bulk = content[c].bulk \/ Pending(c, "bulk")'
    <3>1. c = e.block => e.kind # "bulk"
      BY <1>4 DEF Marks
    <3> QED BY <1>5, <1>7, <2>1, <2>2, <3>1
  <2>5. \/ told'[c].meta = content[c].meta
        \/ Pending(c, "meta")' \/ c \in node_meta_updates'
    BY <1>1, <1>5, <1>7, <2>1, <2>2
  <2> QED BY <2>3, <2>4, <2>5
<1> QED BY <1>6, <1>10, <1>11, <1>12 DEF AnnouncedInv

(* The metadata gathered is sent, or the blocks are taken out.             *)
LEMMA FlushEndKeeps ==
    ASSUME AnnouncedInv, NEW far \in SUBSET node_meta_updates, FlushEnd(far)
    PROVE  AnnouncedInv'
<1> DEFINE present == {b \in node_meta_updates : content[b].meta # 0}
           unsent == {b \in present : b \notin m_blocks_sent \/ b \in far}
           updates == present \ unsent
<1>1. /\ events' = events /\ content' = content /\ toServer0' = toServer0 /\ times' = times
      /\ node_meta_updates' = {}
      /\ IF unsent # {} THEN SetNotSent(unsent) ELSE UNCHANGED remote
      /\ told' = [b \in Blocks |-> IF b \in updates
                                   THEN [told[b] EXCEPT !.meta = content[b].meta]
                                   ELSE told[b]]
  BY DEF FlushEnd, mapvars
<1>2. present = node_meta_updates
  BY DEF AnnouncedInv, ContentTypeOK, MetaThere
<1>3. /\ SetsTypeOK'
      /\ m_blocks_sent' \subseteq m_blocks_sent
      /\ m_blocks_sending' \subseteq m_blocks_sending
      /\ unsent \cap (m_blocks_sent' \cup m_blocks_sending') = {}
  BY <1>1, SetNotSentShrinks DEF AnnouncedInv, ContentTypeOK, SetNotSent
<1> HIDE DEF present, unsent
<1>4. /\ told' \in [Blocks -> Content]
      /\ \A c \in Blocks : /\ told'[c].node = told[c].node /\ told'[c].bulk = told[c].bulk
                           /\ c \notin updates => told'[c].meta = told[c].meta
                           /\ c \in updates => told'[c].meta = content[c].meta
  BY <1>1 DEF AnnouncedInv, ContentTypeOK, Content
<1>5. ContentTypeOK'
  BY <1>1, <1>3, <1>4 DEF AnnouncedInv, ContentTypeOK
<1>6. \A c, k : Pending(c, k)' <=> Pending(c, k)
  BY <1>1 DEF Pending
<1>7. MetaThere' /\ LastNodeKnown'
  BY <1>1, <1>6 DEF AnnouncedInv, MetaThere, LastNodeKnown
<1>8. Announced'
  <2> SUFFICES ASSUME NEW c \in m_blocks_sent' \cup m_blocks_sending'
               PROVE  /\ told'[c].node = content[c].node \/ Pending(c, "node")
                      /\ told'[c].bulk = content[c].bulk \/ Pending(c, "bulk")
                      /\ told'[c].meta = content[c].meta \/ Pending(c, "meta")
    BY <1>1, <1>6 DEF Announced
  <2>1. c \in Blocks /\ c \in m_blocks_sent \cup m_blocks_sending /\ c \notin unsent
    BY <1>3 DEF AnnouncedInv, ContentTypeOK, SetsTypeOK
  <2>2. /\ told[c].node = content[c].node \/ Pending(c, "node")
        /\ told[c].bulk = content[c].bulk \/ Pending(c, "bulk")
        /\ told[c].meta = content[c].meta \/ Pending(c, "meta") \/ c \in node_meta_updates
    BY <2>1 DEF AnnouncedInv, Announced
  <2>3. c \in node_meta_updates => c \in updates
    BY <1>2, <2>1
  <2> QED BY <1>4, <2>1, <2>2, <2>3
<1> QED BY <1>5, <1>7, <1>8 DEF AnnouncedInv

(* A block that is sent is told as it is.                                  *)
LEMMA SendingKeeps ==
    ASSUME AnnouncedInv, UNCHANGED << content, events, node_meta_updates, toServer0 >>,
           times' \in [Happenings -> Nat], NEW send \in SUBSET Blocks,
           told' = [b \in Blocks |-> IF b \in send THEN content[b] ELSE told[b]],
           m_blocks_sent' = m_blocks_sent,
           m_blocks_sending' \subseteq m_blocks_sending \cup send
    PROVE  AnnouncedInv'
<1>1. ContentTypeOK'
  BY DEF AnnouncedInv, ContentTypeOK, SetsTypeOK
<1>2. \A c, k : Pending(c, k)' <=> Pending(c, k)
  BY DEF Pending
<1>3. MetaThere' /\ LastNodeKnown'
  BY <1>2 DEF AnnouncedInv, MetaThere, LastNodeKnown
<1>4. Announced'
  BY <1>2 DEF AnnouncedInv, Announced, ContentTypeOK, SetsTypeOK
<1> QED BY <1>1, <1>3, <1>4 DEF AnnouncedInv

\* A message of the client is taken from its queue.
LEMMA InteractTaken ==
    ASSUME toServer0 \in Seq(Interact), toServer0 # <<>>
    PROVE  Head(toServer0) \in Interact /\ Tail(toServer0) \in Seq(Interact)
BY HeadTailProperties

\* What the player does changes one node, and takes blocks out.
LEMMA ServerInteractKeeps ==
    ASSUME AnnouncedInv, NEW verdict \in Verdicts, ServerInteract(verdict)
    PROVE  AnnouncedInv'
<1> DEFINE m == Head(toServer0)
           b == Target(m)
<1>1. /\ toServer0 # <<>> /\ toServer0' = Tail(toServer0)
      /\ UNCHANGED told
      /\ IF verdict = "done" THEN Edit(b, "node") ELSE UNCHANGED << mapvars, eventvars, times >>
      /\ \E S : SetNotSent(S) \/ ResendIfOnWire(S)
  BY DEF ServerInteract
<1>2. m \in Interact /\ toServer0' \in Seq(Interact)
  BY <1>1, InteractTaken DEF AnnouncedInv, ContentTypeOK
<1>3. /\ SetsTypeOK'
      /\ m_blocks_sent' \subseteq m_blocks_sent
      /\ m_blocks_sending' \subseteq m_blocks_sending
  BY <1>1, SetNotSentShrinks DEF AnnouncedInv, ContentTypeOK
<1>4. b \in Blocks
  BY <1>2 DEF Interact, Target
<1> HIDE DEF m, b
<1>5. CASE verdict = "done"
  BY <1>1, <1>2, <1>3, <1>4, <1>5, EditKeeps
<1>6. CASE verdict # "done"
  <2>1. /\ UNCHANGED << content, told, events, node_meta_updates >>
        /\ times' \in [Happenings -> Nat]
    BY <1>1, <1>6 DEF mapvars, eventvars, AnnouncedInv, ContentTypeOK
  <2> QED BY <2>1, <1>2, <1>3, QuietKeeps
<1> QED BY <1>5, <1>6

\* Only whole blocks are sent, and a whole block stays so.
LEMMA SentReady == Spec => []ReadyInv
<1>1. Init => ReadyInv
  <2> SUFFICES ASSUME Init PROVE ReadyInv
    OBVIOUS
  <2>1. m_blocks_sent = {} /\ m_blocks_sending = {}
        /\ mem = [b \in Blocks |-> IF b \in Loaded THEN Stored[b] ELSE "none"]
    BY DEF Init
  <2> QED BY <2>1, BlockSendAssumption DEF ReadyInv, MemTypeOK, SetsTypeOK
<1>2. ReadyInv /\ [Next]_vars => ReadyInv'
  <2> SUFFICES ASSUME ReadyInv, [Next]_vars PROVE ReadyInv'
    OBVIOUS
  <2> USE DEF mapvars, remote, search, eventvars, client, net
  <2>1. SetsTypeOK
    BY DEF ReadyInv
  <2>2. ASSUME mem' = mem, SetsTypeOK',
               m_blocks_sent' \cup m_blocks_sending'
                   \subseteq m_blocks_sent \cup m_blocks_sending
        PROVE  ReadyInv'
    BY <2>2 DEF ReadyInv, MemTypeOK
  <2>3. ASSUME mem' = mem, UNCHANGED remote \/ \E S : SetNotSent(S) \/ ResendIfOnWire(S)
        PROVE  ReadyInv'
    BY <2>1, <2>2, <2>3, SetNotSentShrinks
  <2>4. CASE \E b \in Blocks : EmergeDone(b)
    <3>1. PICK b \in Blocks : EmergeDone(b)
      BY <2>4
    <3>2. UNCHANGED << m_blocks_sent, m_blocks_sending >>
          /\ mem' = [mem EXCEPT ![b] =
                         CASE mem[b] = "ready" \/ Dist[b] <= d_max_gen -> "ready"
                           [] mem[b] = "none" -> Stored[b]
                           [] OTHER -> mem[b]]
      BY <3>1 DEF EmergeDone
    <3>3. mem' \in [Blocks -> {"none", "blank", "ready"}]
          /\ \A c \in Blocks : mem[c] = "ready" => mem'[c] = "ready"
      BY <3>2, BlockSendAssumption DEF ReadyInv, MemTypeOK
    <3> QED BY <3>2, <3>3 DEF ReadyInv, MemTypeOK, SetsTypeOK
  <2>5. CASE \E turned, building \in BOOLEAN,
                refuse \in {b \in Blocks : Emergeable(b)} \cup {N + 1},
                sent \in IF OthersBusy THEN SUBSET Blocks ELSE {{}} :
                 SendBlocks(turned, building, refuse, sent)
    <3> DEFINE ready == {b \in Blocks : Selectable(b)}
    <3>1. /\ mem' = mem /\ m_blocks_sent' = m_blocks_sent
          /\ m_blocks_sending' \subseteq m_blocks_sending \cup ready
      BY <2>5 DEF SendBlocks
    <3>2. ready \subseteq Blocks /\ \A b \in ready : mem[b] = "ready"
      BY DEF Selectable
    <3> HIDE DEF ready
    <3>3. /\ mem \in [Blocks -> {"none", "blank", "ready"}]
          /\ m_blocks_sent \subseteq Blocks /\ m_blocks_sending \subseteq Blocks
          /\ \A b \in m_blocks_sent \cup m_blocks_sending : mem[b] = "ready"
      BY DEF ReadyInv, MemTypeOK, SetsTypeOK
    <3>4. /\ m_blocks_sent' \subseteq Blocks /\ m_blocks_sending' \subseteq Blocks
          /\ \A b \in m_blocks_sent' \cup m_blocks_sending' : mem[b] = "ready"
      BY <3>1, <3>2, <3>3
    <3> QED BY <3>1, <3>3, <3>4 DEF ReadyInv, MemTypeOK, SetsTypeOK
  <2>6. CASE ServerReceive2
    <3> DEFINE m == Head(toServer2)
    <3>1. CASE GotBlock(m.block)
      BY <2>6, <3>1 DEF ServerReceive2, GotBlock, ReadyInv, MemTypeOK, SetsTypeOK
    <3>2. CASE SetNotSent({m.block})
      BY <2>3, <2>6, <3>2 DEF ServerReceive2
    <3> QED BY <2>6, <3>1, <3>2 DEF ServerReceive2
  <2>7. CASE PauseOver
    BY <2>2, <2>7, <2>1 DEF PauseOver, SetsTypeOK
  <2>8. CASE \/ UNCHANGED vars
             \/ \E b \in Blocks, kind \in EditKinds : MapEdit(b, kind)
             \/ \E b \in Blocks : EmergeReport(b) \/ Reveal(b) \/ SendBlock(b)
                                   \/ ClientAck(b) \/ ClientDelete(b)
             \/ CompletionTimeout \/ ClientReceive0 \/ ClientReceive2
             \/ \E under, above \in Blocks, at \in 0 .. N, dig \in BOOLEAN :
                    Predict(under, above, at, dig)
    <3>1. mem' = mem /\ UNCHANGED remote
      BY <2>8 DEF vars, MapEdit, Edit, EmergeReport, Reveal, SendBlock, ClientAck,
             ClientDelete, CompletionTimeout, ClientReceive0, ClientReceive2, Predict
    <3> QED BY <2>3, <3>1
  <2>9. CASE \/ \E far \in BOOLEAN : FlushEvent(far)
             \/ \E far \in SUBSET node_meta_updates : FlushEnd(far)
             \/ \E verdict \in Verdicts : ServerInteract(verdict)
    <3>1. mem' = mem /\ (UNCHANGED remote \/ \E S : SetNotSent(S) \/ ResendIfOnWire(S))
      BY <2>9 DEF FlushEvent, FlushEnd, ServerInteract, Edit
    <3> QED BY <2>3, <3>1
  <2> QED BY <2>4, <2>5, <2>6, <2>7, <2>8, <2>9 DEF Next
<1> QED BY <1>1, <1>2, PTL DEF Spec

LEMMA AnnouncedInvHolds ==
    ASSUME "unmeta" \notin EditKinds
    PROVE  Spec => []AnnouncedInv
<1>1. Init => AnnouncedInv
  <2> SUFFICES ASSUME Init PROVE AnnouncedInv
    OBVIOUS
  <2>1. Fresh \in Content
    BY DEF Fresh, Content
  <2>2. ContentTypeOK
    BY <2>1 DEF Init, ContentTypeOK, SetsTypeOK
  <2>3. events = <<>> /\ node_meta_updates = {} /\ m_blocks_sent = {} /\ m_blocks_sending = {}
    BY DEF Init
  <2> QED BY <2>2, <2>3 DEF AnnouncedInv, LastNodeKnown, MetaThere, Pending, Announced
<1>2. AnnouncedInv /\ ReadyInv /\ [Next]_vars => AnnouncedInv'
  <2> SUFFICES ASSUME AnnouncedInv, ReadyInv, [Next]_vars PROVE AnnouncedInv'
    OBVIOUS
  <2> USE DEF mapvars, remote, search, eventvars, client, net
  <2>1. /\ SetsTypeOK /\ toServer0 \in Seq(Interact)
        /\ times \in [Happenings -> Nat]
        /\ \A h \in Happenings : Count(h) => times' \in [Happenings -> Nat]
    BY CountType DEF AnnouncedInv, ContentTypeOK
  <2>2. CASE UNCHANGED vars
    <3>1. /\ UNCHANGED << content, told, events, node_meta_updates, toServer0, times,
                          m_blocks_sent, m_blocks_sending >>
      BY <2>2 DEF vars
    <3> QED BY <3>1, <2>1, QuietKeeps DEF SetsTypeOK
  <2>3. CASE \E b \in Blocks, kind \in EditKinds : MapEdit(b, kind)
    <3>1. PICK b \in Blocks, kind \in EditKinds : MapEdit(b, kind)
      BY <2>3
    <3>2. kind \in {"node", "bulk", "meta"}
      BY BlockSendAssumption
    <3>3. Edit(b, kind) /\ UNCHANGED << told, toServer0, m_blocks_sent, m_blocks_sending >>
      BY <3>1 DEF MapEdit
    <3> QED BY <2>1, <3>2, <3>3, EditKeeps DEF SetsTypeOK
  <2>4a. CASE \E b \in Blocks : EmergeDone(b) \/ EmergeReport(b)
    BY <2>4a, EmergeDoneKeeps, EmergeReportKeeps
  <2>4. CASE \E b \in Blocks : Reveal(b)
    <3>1. /\ UNCHANGED << content, told, events, node_meta_updates, toServer0,
                          m_blocks_sent, m_blocks_sending >>
          /\ UNCHANGED times \/ Count("reveal")
      BY <2>4 DEF Reveal
    <3> QED BY <2>1, <3>1, QuietKeeps DEF SetsTypeOK, Happenings
  <2>5. CASE \E far \in BOOLEAN : FlushEvent(far)
    BY <2>5, FlushEventKeeps
  <2>6. CASE \E far \in SUBSET node_meta_updates : FlushEnd(far)
    BY <2>6, FlushEndKeeps
  <2>7. CASE \E turned, building \in BOOLEAN,
                refuse \in {b \in Blocks : Emergeable(b)} \cup {N + 1},
                sent \in IF OthersBusy THEN SUBSET Blocks ELSE {{}} :
                 SendBlocks(turned, building, refuse, sent)
    <3>1. PICK turned \in BOOLEAN, building \in BOOLEAN,
               refuse \in {b \in Blocks : Emergeable(b)} \cup {N + 1},
               sent \in IF OthersBusy THEN SUBSET Blocks ELSE {{}} :
                 SendBlocks(turned, building, refuse, sent)
      BY <2>7
    <3> DEFINE start == Start(turned)
               range == {b \in Blocks : start <= Dist[b] /\ Dist[b] <= start + 2}
               stops == {b \in range : \/ Full(b, start, building)
                                       \/ Emergeable(b) /\ b >= refuse}
               reached == {b \in range : \A s \in stops : b < s}
               chosen == {b \in reached : Selectable(b)}
               send == IF OthersBusy THEN chosen \cap sent ELSE chosen
    <3>2. send \in SUBSET Blocks
      OBVIOUS
    <3>3. /\ UNCHANGED << content, events, node_meta_updates, toServer0, m_blocks_sent >>
          /\ UNCHANGED times \/ Count("turn")
          /\ m_blocks_sending' = m_blocks_sending \cup send
          /\ told' = [b \in Blocks |-> IF b \in send THEN content[b] ELSE told[b]]
      BY <3>1 DEF SendBlocks
    <3>4. times' \in [Happenings -> Nat]
      BY <2>1, <3>3 DEF Happenings
    <3> HIDE DEF send
    <3> QED BY <3>2, <3>3, <3>4, SendingKeeps
  <2>8. CASE PauseOver \/ CompletionTimeout
    <3>1. /\ UNCHANGED << content, told, events, node_meta_updates, toServer0,
                          m_blocks_sent, m_blocks_sending >>
          /\ UNCHANGED times \/ Count("timeout")
      BY <2>8 DEF PauseOver, CompletionTimeout
    <3> QED BY <2>1, <3>1, QuietKeeps DEF SetsTypeOK, Happenings
  <2>9. CASE \E b \in Blocks : SendBlock(b)
    <3>1. PICK b \in Blocks : SendBlock(b)
      BY <2>9
    <3>2. /\ UNCHANGED << content, events, node_meta_updates, toServer0, m_blocks_sent,
                          m_blocks_sending >>
          /\ Count("script")
          /\ told' = [told EXCEPT ![b] = content[b]]
      BY <3>1 DEF SendBlock
    <3>3. told' = [c \in Blocks |-> IF c \in {b} THEN content[c] ELSE told[c]]
      BY <3>2 DEF AnnouncedInv, ContentTypeOK
    <3>4. times' \in [Happenings -> Nat]
      BY <2>1, <3>2 DEF Happenings
    <3> QED BY <3>2, <3>3, <3>4, SendingKeeps
  <2>10. CASE (\E b \in Blocks : ClientAck(b) \/ ClientDelete(b))
              \/ ClientReceive0 \/ ClientReceive2
    <3>1. /\ UNCHANGED << content, told, events, node_meta_updates, toServer0,
                          m_blocks_sent, m_blocks_sending >>
          /\ UNCHANGED times \/ Count("delete")
      BY <2>10 DEF ClientAck, ClientDelete, ClientReceive0, ClientReceive2
    <3> QED BY <2>1, <3>1, QuietKeeps DEF SetsTypeOK, Happenings
  <2>11. CASE \E under, above \in Blocks, at \in 0 .. N, dig \in BOOLEAN :
                 Predict(under, above, at, dig)
    <3>1. PICK under \in Blocks, above \in Blocks, at \in 0 .. N, dig \in BOOLEAN :
                 Predict(under, above, at, dig)
      BY <2>11
    <3> DEFINE r == [under |-> under, above |-> above, at |-> at, dig |-> dig]
    <3>2. /\ UNCHANGED << content, told, events, node_meta_updates,
                          m_blocks_sent, m_blocks_sending >>
          /\ Count("predict")
          /\ toServer0' = Append(toServer0, r)
          /\ at \in {under, above, 0}
      BY <3>1 DEF Predict
    <3>3. r \in Interact
      BY <3>2 DEF Interact
    <3>4. toServer0' \in Seq(Interact)
      BY <2>1, <3>2, <3>3
    <3> QED BY <2>1, <3>2, <3>4, QuietKeeps DEF SetsTypeOK, Happenings
  <2>12. CASE ServerReceive2
    <3> DEFINE m == Head(toServer2)
    <3>1. /\ UNCHANGED << content, told, events, node_meta_updates, toServer0, times >>
          /\ GotBlock(m.block) \/ SetNotSent({m.block})
      BY <2>12 DEF ServerReceive2
    <3>2. /\ SetsTypeOK'
          /\ (m_blocks_sent' \cup m_blocks_sending') \subseteq (m_blocks_sent \cup m_blocks_sending)
      BY <2>1, <3>1, SetNotSentShrinks DEF GotBlock, SetsTypeOK
    <3> QED BY <2>1, <3>1, <3>2, QuietKeeps
  <2>13. CASE \E verdict \in Verdicts : ServerInteract(verdict)
    BY <2>13, ServerInteractKeeps
  <2> QED BY <2>2, <2>3, <2>4a, <2>4, <2>5, <2>6, <2>7, <2>8, <2>9, <2>10, <2>11, <2>12,
             <2>13
             DEF Next
<1> QED BY <1>1, <1>2, SentReady, PTL DEF Spec

(* What the server keeps in m_blocks_sent and m_blocks_sending is true of  *)
(* the messages it has sent, whatever the order of edits, searches and     *)
(* messages of the client, if no metadata is removed.                      *)
THEOREM AnnouncedHolds ==
    ASSUME "unmeta" \notin EditKinds
    PROVE  Spec => []Announced
<1>1. AnnouncedInv => Announced
  BY DEF AnnouncedInv
<1> QED BY <1>1, AnnouncedInvHolds, PTL

-----------------------------------------------------------------------------
(* No block is left behind by the search *)

SearchTypeOK ==
    /\ m_nearest_unsent_d \in Nat
    /\ hidden \subseteq Blocks /\ emerging \subseteq Blocks /\ m_blocks_occ \subseteq Blocks
    /\ m_blocks_modified \subseteq Blocks

\* A block that is there, or that the emerge threads are working on.
Coming(b) == mem[b] = "ready" \/ b \in emerging

\* What was asked for is in sight and was not there.
InSight ==
    \A b \in emerging : /\ b \notin hidden \cup m_blocks_occ
                        /\ mem[b] # "ready" /\ (mem[b] = "blank" => Generate(b))

\* The search has not gone past a block that the client should get, but for those
\* it could not take.
NothingMissed ==
    \A b \in Blocks \ passed :
        Coming(b) /\ b \notin m_blocks_sent \cup m_blocks_sending \cup m_blocks_modified
            => m_nearest_unsent_d <= Dist[b]

SearchInv == SearchTypeOK /\ InSight /\ NothingMissed

\* A set of numbers that is not empty has a least one.
LEMMA LeastOf ==
    ASSUME NEW S \in SUBSET Nat, S # {}
    PROVE  Min(S) \in S /\ \A y \in S : Min(S) <= y
<1>1. PICK x \in S : \A y \in S : ~ (<<y, x>> \in OpToRel(<, Nat))
  BY NatLessThanWellFounded, WFMin
<1>2. \A y \in S : x <= y
  <2> SUFFICES ASSUME NEW y \in S PROVE x <= y
    OBVIOUS
  <2>1. y \in Nat /\ x \in Nat
    OBVIOUS
  <2>2. ~ (y < x)
    BY <1>1, <2>1 DEF OpToRel
  <2>3. QED
    BY <2>1, <2>2
<1>3. QED
  BY <1>2 DEF Min

\* A search begins no farther than anything that is coming and was not sent, and
\* no farther than what was modified is by the other distance.
LEMMA StartIs ==
    ASSUME SearchInv, NEW turned \in BOOLEAN
    PROVE  /\ Start(turned) \in Nat
           /\ \A b \in m_blocks_modified : Start(turned) <= Euclid[b]
           /\ \A b \in Blocks \ passed :
                  Coming(b) /\ b \notin m_blocks_sent \cup m_blocks_sending \cup m_blocks_modified
                      => Start(turned) <= Dist[b]
<1> DEFINE S == {m_nearest_unsent_d} \cup {Euclid[b] : b \in m_blocks_modified}
<1>1. \A b \in Blocks : Dist[b] \in Nat /\ Euclid[b] \in Nat
  BY BlockSendAssumption
<1>2. S \in SUBSET Nat /\ S # {} /\ m_nearest_unsent_d \in S
      /\ \A b \in m_blocks_modified : Euclid[b] \in S
  BY <1>1 DEF SearchInv, SearchTypeOK
<1>3. Start(turned) = IF turned \/ m_nearest_unsent_d = 0 THEN 0 ELSE Min(S)
  BY DEF Start
<1> HIDE DEF S
<1>4. Min(S) \in S /\ \A y \in S : Min(S) <= y
  BY <1>2, LeastOf
<1>5. CASE turned \/ m_nearest_unsent_d = 0
  <2>1. Start(turned) = 0 /\ m_blocks_modified \subseteq Blocks
    BY <1>3, <1>5 DEF SearchInv, SearchTypeOK
  <2>2. QED
    BY <1>1, <2>1
<1>6. CASE ~ (turned \/ m_nearest_unsent_d = 0)
  <2>1. Start(turned) = Min(S) /\ Min(S) \in Nat /\ m_nearest_unsent_d \in Nat
    BY <1>2, <1>3, <1>4, <1>6
  <2>2. Min(S) <= m_nearest_unsent_d /\ \A b \in m_blocks_modified : Min(S) <= Euclid[b]
    BY <1>2, <1>4
  <2>3. ASSUME NEW b \in Blocks \ passed, Coming(b),
               b \notin m_blocks_sent \cup m_blocks_sending \cup m_blocks_modified
        PROVE  Min(S) <= Dist[b]
    <3>1. m_nearest_unsent_d <= Dist[b]
      BY <2>3 DEF SearchInv, NothingMissed
    <3>2. QED
      BY <1>1, <2>1, <2>2, <3>1
  <2>4. QED
    BY <2>1, <2>2, <2>3
<1>7. QED
  BY <1>5, <1>6

\* The least of the distances of some blocks.
LEMMA LeastDist ==
    ASSUME NEW S \in SUBSET Blocks, NEW d \in Nat
    PROVE  LET T == {d} \cup {Dist[b] : b \in S}
           IN  Min(T) \in Nat /\ Min(T) <= d /\ \A b \in S : Min(T) <= Dist[b]
<1> DEFINE T == {d} \cup {Dist[b] : b \in S}
<1>1. T \in SUBSET Nat /\ T # {} /\ d \in T /\ \A b \in S : Dist[b] \in T
  BY BlockSendAssumption
<1>2. Min(T) \in T /\ \A y \in T : Min(T) <= y
  BY <1>1, LeastOf
<1>3. QED
  BY <1>1, <1>2

LEMMA LeastRequested ==
    ASSUME NEW S \in SUBSET Blocks, S # {}
    PROVE  LET T == {Dist[b] : b \in S}
           IN  Min(T) \in Nat /\ \A b \in S : Min(T) <= Dist[b]
<1> DEFINE T == {Dist[b] : b \in S}
<1>1. T \in SUBSET Nat /\ T # {} /\ \A b \in S : Dist[b] \in T
  BY BlockSendAssumption
<1>2. Min(T) \in T /\ \A y \in T : Min(T) <= y
  BY <1>1, LeastOf
<1>3. QED
  BY <1>1, <1>2

\* Where the next search begins: no farther than what was requested or chosen,
\* nor than where this one ended.
LEMMA NearestIs ==
    ASSUME NEW requested \in SUBSET Blocks, NEW chosen \in SUBSET Blocks, NEW d \in Nat,
           NEW refused_d, refused_d = {} \/ refused_d = {d}
    PROVE  /\ Nearest(requested, refused_d, chosen, d) \in Nat
           /\ \A r \in requested : Nearest(requested, refused_d, chosen, d) <= Dist[r]
           /\ \/ Nearest(requested, refused_d, chosen, d) <= d
              \/ \E r \in requested : Nearest(requested, refused_d, chosen, d) <= Dist[r]
           /\ requested \cup refused_d = {}
                  => \A c \in chosen : Nearest(requested, refused_d, chosen, d) <= Dist[c]
<1>1. CASE requested # {}
  <2>1. Nearest(requested, refused_d, chosen, d) = Min({Dist[b] : b \in requested})
    BY <1>1 DEF Nearest
  <2>2. QED
    BY <1>1, <2>1, LeastRequested
<1>2. CASE requested = {} /\ refused_d # {}
  <2>1. Nearest(requested, refused_d, chosen, d) = Min({d})
    BY <1>2 DEF Nearest
  <2>2. Min({d}) = d
    BY LeastOf
  <2>3. QED
    BY <1>2, <2>1, <2>2
<1>3. CASE requested = {} /\ refused_d = {} /\ d > full_d_max
  <2>1. Nearest(requested, refused_d, chosen, d) = 0
    BY <1>3 DEF Nearest
  <2>2. \A c \in chosen : 0 <= Dist[c]
    BY BlockSendAssumption
  <2>3. QED
    BY <1>3, <2>1, <2>2
<1>4. CASE requested = {} /\ refused_d = {} /\ ~ (d > full_d_max)
  <2> DEFINE T == {d} \cup {Dist[b] : b \in chosen}
  <2>1. Nearest(requested, refused_d, chosen, d) = Min(T)
    BY <1>4 DEF Nearest
  <2>2. Min(T) \in Nat /\ Min(T) <= d /\ \A b \in chosen : Min(T) <= Dist[b]
    BY LeastDist
  <2> HIDE DEF T
  <2>3. QED
    BY <1>4, <2>1, <2>2
<1>5. QED
  BY <1>1, <1>2, <1>3, <1>4

(* One search.  What is coming and in range is sent, asked for or left     *)
(* behind, or the search stopped before it; what is beyond is still ahead. *)
LEMMA SearchKeeps ==
    ASSUME SearchInv, ReadyInv,
           NEW turned \in BOOLEAN, NEW building \in BOOLEAN, NEW refuse, NEW sent,
           SendBlocks(turned, building, refuse, sent)
    PROVE  SearchInv'
<1> DEFINE start == Start(turned)
           range == {b \in Blocks : start <= Dist[b] /\ Dist[b] <= start + 2}
           stops == {b \in range : \/ Full(b, start, building)
                                   \/ Emergeable(b) /\ b >= refuse}
           reached == {b \in range : \A s \in stops : b < s}
           chosen == {b \in reached : Selectable(b)}
           requested == {b \in reached : Emergeable(b)}
           d == IF stops # {} THEN Dist[Min(stops)] ELSE Min({start + 2, full_d_max}) + 1
           refused_d == IF stops # {} /\ ~Full(Min(stops), start, building) THEN {d} ELSE {}
           nearest == Nearest(requested, refused_d, chosen, d)
           culled == {b \in reached \cap hidden : Lacking(b)}
           send == IF OthersBusy THEN chosen \cap sent ELSE chosen
           dropped == IF requested \cup refused_d = {} THEN {} ELSE chosen \ send
<1>1. /\ m_nearest_unsent_d' = nearest
      /\ m_blocks_occ' = Culled(nearest, start, culled)
      /\ m_blocks_modified' = {}
      /\ emerging' = emerging \cup requested
      /\ m_blocks_sending' = m_blocks_sending \cup send
      /\ passed' = {b \in passed : Dist[b] < start} \cup Left(start, reached, dropped)
      /\ UNCHANGED << mem, hidden, m_blocks_sent >>
  BY Zenon DEF SendBlocks
<1>2. /\ start \in Nat
      /\ \A b \in m_blocks_modified : start <= Euclid[b]
      /\ \A b \in Blocks \ passed :
             Coming(b) /\ b \notin m_blocks_sent \cup m_blocks_sending \cup m_blocks_modified
                 => start <= Dist[b]
  BY StartIs
<1>3. /\ \A b \in Blocks : b \in Nat /\ Dist[b] \in Nat
      /\ \A b, c \in Blocks : b < c => Dist[b] <= Dist[c]
      /\ full_d_max \in Nat
  BY BlockSendAssumption, BlocksFinite
<1>4. /\ range \subseteq Blocks /\ stops \subseteq range /\ chosen \subseteq reached
      /\ reached \subseteq range /\ requested \subseteq reached
      /\ \A b \in reached : \A s \in stops : b < s
      /\ \A b \in range : b \in reached \/ \E s \in stops : ~ (b < s)
      /\ \A b \in Blocks : b \in range <=> start <= Dist[b] /\ Dist[b] <= start + 2
      /\ \A b \in requested : Emergeable(b)
      /\ \A b \in reached : (Selectable(b) => b \in chosen) /\ (Emergeable(b) => b \in requested)
      /\ culled \subseteq hidden
      /\ requested \cup refused_d = {} \/ dropped = chosen \ send
  OBVIOUS
<1>5. /\ d = IF stops # {} THEN Dist[Min(stops)] ELSE Min({start + 2, full_d_max}) + 1
      /\ refused_d = {} \/ refused_d = {d}
      /\ nearest = Nearest(requested, refused_d, chosen, d)
  OBVIOUS
<1> HIDE DEF start, range, stops, reached, chosen, requested, d, refused_d, nearest, culled,
         send, dropped
\* Where the search ends.
<1>6. /\ d \in Nat
      /\ \A s \in stops : d <= Dist[s]
      /\ d <= start + 3
  <2>1. CASE stops # {}
    <3>1. stops \in SUBSET Nat
      BY <1>3, <1>4
    <3>2. Min(stops) \in stops /\ \A s \in stops : Min(stops) <= s
      BY <2>1, <3>1, LeastOf
    <3>3. \A s \in stops : Dist[Min(stops)] <= Dist[s]
      <4> SUFFICES ASSUME NEW s \in stops PROVE Dist[Min(stops)] <= Dist[s]
        OBVIOUS
      <4>1. Min(stops) \in Blocks /\ s \in Blocks /\ Min(stops) <= s
        BY <1>4, <3>2
      <4>2. CASE Min(stops) = s
        BY <1>3, <4>1, <4>2
      <4>3. CASE Min(stops) # s
        BY <1>3, <4>1, <4>3
      <4>4. QED
        BY <4>2, <4>3
    <3>4. Min(stops) \in Blocks /\ Dist[Min(stops)] \in Nat /\ Dist[Min(stops)] <= start + 2
      BY <1>3, <1>4, <3>2
    <3>5. QED
      BY <1>2, <1>5, <2>1, <3>3, <3>4
  <2>2. CASE stops = {}
    <3>1. {start + 2, full_d_max} \in SUBSET Nat /\ {start + 2, full_d_max} # {}
      BY <1>2, <1>3
    <3>2. Min({start + 2, full_d_max}) \in Nat /\ Min({start + 2, full_d_max}) <= start + 2
      BY <3>1, LeastOf
    <3>3. QED
      BY <1>2, <1>5, <2>2, <3>2
  <2>3. QED
    BY <2>1, <2>2
<1>7. /\ requested \in SUBSET Blocks /\ chosen \in SUBSET Blocks
      /\ nearest \in Nat
      /\ \A r \in requested : nearest <= Dist[r]
      /\ nearest <= d \/ \E r \in requested : nearest <= Dist[r]
      /\ requested \cup refused_d = {} => \A c \in chosen : nearest <= Dist[c]
  <2>1. requested \in SUBSET Blocks /\ chosen \in SUBSET Blocks
    BY <1>4
  <2>2. d \in Nat /\ (refused_d = {} \/ refused_d = {d})
    BY <1>5, <1>6
  <2>3. /\ Nearest(requested, refused_d, chosen, d) \in Nat
        /\ \A r \in requested : Nearest(requested, refused_d, chosen, d) <= Dist[r]
        /\ \/ Nearest(requested, refused_d, chosen, d) <= d
           \/ \E r \in requested : Nearest(requested, refused_d, chosen, d) <= Dist[r]
        /\ requested \cup refused_d = {}
               => \A c \in chosen : Nearest(requested, refused_d, chosen, d) <= Dist[c]
    BY <2>1, <2>2, NearestIs, Zenon
  <2>4. QED
    BY <1>5, <2>1, <2>3
<1>8. SearchTypeOK'
  BY <1>1, <1>4, <1>7 DEF SearchInv, SearchTypeOK, Culled
<1>9. \A b \in requested : /\ b \notin hidden /\ b \notin m_blocks_occ /\ mem[b] # "ready"
                           /\ mem[b] = "blank" => Generate(b)
                           /\ b \notin m_blocks_sent \cup m_blocks_sending
  BY <1>4 DEF Emergeable, Lacking
<1>10. InSight'
  <2>1. m_blocks_occ' \subseteq m_blocks_occ \cup hidden
    BY <1>1, <1>4 DEF Culled
  <2>2. \A b \in emerging' : /\ b \notin hidden \cup m_blocks_occ
                             /\ mem[b] # "ready" /\ (mem[b] = "blank" => Generate(b))
    BY <1>1, <1>9 DEF SearchInv, InSight
  <2>3. QED
    BY <1>1, <2>1, <2>2 DEF InSight
\* What is left behind.
<1>11. /\ \A b \in reached : b \in hidden \cup m_blocks_occ => b \in passed'
       /\ dropped \subseteq passed'
       /\ \A b \in m_blocks_modified : Dist[b] < start => b \in passed'
       /\ \A b \in passed : Dist[b] < start => b \in passed'
  BY <1>1, <1>2 DEF Left
<1>12. ASSUME NEW b \in Blocks \ passed', Coming(b)', b \notin m_blocks_sent' \cup m_blocks_sending'
       PROVE  nearest <= Dist[b]
  <2>1. CASE b \in requested
    BY <1>7, <2>1
  <2>2. CASE b \notin requested
    <3>1. Coming(b) /\ b \notin m_blocks_sent \cup m_blocks_sending /\ b \notin send
      BY <1>1, <1>12, <2>2 DEF Coming
    <3>2. start <= Dist[b]
      <4>1. CASE b \in m_blocks_modified \cup passed
        BY <1>2, <1>3, <1>11, <1>12, <4>1
      <4>2. CASE b \notin m_blocks_modified \cup passed
        BY <1>2, <3>1, <4>2
      <4>3. QED
        BY <4>1, <4>2
    <3>3. CASE b \in reached
      <4>1. b \notin hidden \cup m_blocks_occ
        BY <1>11, <1>12, <3>3
      <4>2. mem[b] = "blank" => Generate(b)
        BY <3>1 DEF SearchInv, InSight, Coming
      <4>3. b \in chosen
        BY <1>4, <2>2, <3>1, <3>3, <4>1, <4>2 DEF Selectable, Emergeable, Lacking
      <4>4. requested \cup refused_d = {}
        BY <1>4, <1>11, <1>12, <3>1, <4>3
      <4>5. QED
        BY <1>7, <4>3, <4>4
    <3>4. ASSUME b \notin reached
          PROVE  d <= Dist[b] /\ \A r \in requested : Dist[r] <= Dist[b]
      <4>1. CASE b \in range
        <5>1. PICK s \in stops : ~ (b < s)
          BY <1>4, <3>4, <4>1
        <5>2. s \in Blocks /\ (s = b \/ s < b)
          <6>1. s \in Blocks
            BY <1>4
          <6>2. QED
            BY <1>3, <5>1, <6>1
        <5>3. d <= Dist[b]
          <6>1. Dist[s] <= Dist[b] /\ d <= Dist[s]
            BY <1>3, <1>6, <5>2
          <6>2. QED
            BY <1>3, <1>6, <5>2, <6>1
        <5>4. ASSUME NEW r \in requested PROVE Dist[r] <= Dist[b]
          <6>1. r \in Blocks /\ r < s
            BY <1>4
          <6>2. r < b
            BY <1>3, <5>2, <6>1
          <6>3. QED
            BY <1>3, <6>1, <6>2
        <5>5. QED
          BY <5>3, <5>4
      <4>2. CASE b \notin range
        <5>1. start + 2 < Dist[b]
          BY <1>2, <1>3, <1>4, <3>2, <4>2
        <5>2. \A r \in requested : r \in Blocks /\ Dist[r] <= start + 2
          BY <1>4
        <5>3. QED
          BY <1>2, <1>3, <1>6, <5>1, <5>2
      <4>3. QED
        BY <4>1, <4>2
    <3>5. CASE b \notin reached
      <4>1. d <= Dist[b] /\ \A r \in requested : Dist[r] <= Dist[b] /\ r \in Blocks
        BY <1>4, <3>4, <3>5
      <4>2. CASE nearest <= d
        BY <1>3, <1>6, <1>7, <4>1, <4>2
      <4>3. CASE \E r \in requested : nearest <= Dist[r]
        BY <1>3, <1>7, <4>1, <4>3
      <4>4. QED
        BY <1>7, <4>2, <4>3
    <3>6. QED
      BY <3>3, <3>5
  <2>3. QED
    BY <2>1, <2>2
<1>13. NothingMissed'
  BY <1>1, <1>12 DEF NothingMissed
<1>14. QED
  BY <1>8, <1>10, <1>13 DEF SearchInv

\* Whoever takes blocks out of the two sets notes them as modified.
LEMMA TakenAreModified ==
    ASSUME SearchInv, ReadyInv, NEW S \in SUBSET Blocks,
           SetNotSent(S) \/ ResendIfOnWire(S) \/ UNCHANGED remote,
           UNCHANGED << mem, hidden, emerging, search >>
    PROVE  SearchInv'
<1>1. /\ m_blocks_modified \subseteq m_blocks_modified'
      /\ m_blocks_modified' \subseteq Blocks
      /\ m_blocks_sent \cup m_blocks_sending \cup m_blocks_modified
             \subseteq m_blocks_sent' \cup m_blocks_sending' \cup m_blocks_modified'
  BY DEF SetNotSent, ResendIfOnWire, remote, SearchInv, SearchTypeOK
<1>2. QED
  BY <1>1 DEF SearchInv, SearchTypeOK, InSight, NothingMissed, Coming, search

\* A block the threads are done with was in sight and asked for.
LEMMA DoneKeepsSearch ==
    ASSUME SearchInv, ReadyInv, NEW b \in Blocks, EmergeDone(b)
    PROVE  SearchInv'
<1>1. /\ b \in emerging /\ emerging' = emerging \ {b}
      /\ \E there : mem' = [mem EXCEPT ![b] = there]
      /\ UNCHANGED << hidden, remote, search >>
  BY DEF EmergeDone
<1>2. \A c \in Blocks : c # b => mem'[c] = mem[c]
  BY <1>1 DEF ReadyInv, MemTypeOK
<1>3. \A c \in Blocks : Coming(c)' => Coming(c)
  BY <1>1, <1>2 DEF Coming
<1>4. QED
  BY <1>1, <1>2, <1>3 DEF SearchInv, SearchTypeOK, InSight, NothingMissed, search, remote

LEMMA SearchInductive ==
    ASSUME SearchInv, ReadyInv, ReadyInv', [Next]_vars
    PROVE  SearchInv'
<1> USE DEF mapvars, eventvars, client, net
<1>1. CASE \E b \in Blocks : EmergeDone(b)
  BY <1>1, DoneKeepsSearch
<1>2. CASE \E turned, building \in BOOLEAN,
              refuse \in {b \in Blocks : Emergeable(b)} \cup {N + 1},
              sent \in IF OthersBusy THEN SUBSET Blocks ELSE {{}} :
               SendBlocks(turned, building, refuse, sent)
  BY <1>2, SearchKeeps
<1>3. CASE \E b \in Blocks : Reveal(b)
  <2>1. hidden' \subseteq hidden /\ UNCHANGED << mem, emerging, remote, search >>
    BY <1>3 DEF Reveal
  <2>2. QED
    BY <2>1 DEF SearchInv, SearchTypeOK, InSight, NothingMissed, Coming, search, remote
<1>4. CASE CompletionTimeout
  <2>1. m_nearest_unsent_d' = 0 /\ UNCHANGED << mem, hidden, emerging, remote, m_blocks_occ, passed >>
    BY <1>4 DEF CompletionTimeout
  <2>2. \A b \in Blocks : 0 <= Dist[b]
    BY BlockSendAssumption
  <2>3. QED
    BY <2>1, <2>2 DEF SearchInv, SearchTypeOK, InSight, NothingMissed, Coming, remote
<1>5. CASE PauseOver
  <2>1. UNCHANGED << mem, hidden, emerging, search, m_blocks_sent, m_blocks_sending,
                     m_blocks_modified >>
    BY <1>5 DEF PauseOver
  <2>2. QED
    BY <2>1 DEF SearchInv, SearchTypeOK, InSight, NothingMissed, Coming, search
<1>6. CASE ServerReceive2
  <2> DEFINE m == Head(toServer2)
  <2>1. GotBlock(m.block) \/ SetNotSent({m.block})
    BY <1>6 DEF ServerReceive2
  <2>2. UNCHANGED << mem, hidden, emerging, search >>
    BY <1>6 DEF ServerReceive2
  <2>3. CASE GotBlock(m.block)
    <3>1. /\ UNCHANGED m_blocks_modified
          /\ m_blocks_sent \cup m_blocks_sending \subseteq m_blocks_sent' \cup m_blocks_sending'
      BY <2>3 DEF GotBlock
    <3>2. QED
      BY <2>2, <3>1 DEF SearchInv, SearchTypeOK, InSight, NothingMissed, Coming, search
  <2>4. CASE SetNotSent({m.block})
    <3>1. /\ m_blocks_modified' \subseteq Blocks
          /\ m_blocks_sent \cup m_blocks_sending \cup m_blocks_modified
                 \subseteq m_blocks_sent' \cup m_blocks_sending' \cup m_blocks_modified'
      BY <2>4 DEF SetNotSent, ReadyInv, SetsTypeOK, SearchInv, SearchTypeOK
    <3>2. QED
      BY <2>2, <3>1 DEF SearchInv, SearchTypeOK, InSight, NothingMissed, Coming, search
  <2>5. QED
    BY <2>1, <2>3, <2>4
<1>7. CASE \/ UNCHANGED vars
           \/ \E b \in Blocks, kind \in EditKinds : MapEdit(b, kind)
           \/ \E b \in Blocks : EmergeReport(b) \/ SendBlock(b)
                                 \/ ClientAck(b) \/ ClientDelete(b)
           \/ ClientReceive0 \/ ClientReceive2
           \/ \E under, above \in Blocks, at \in 0 .. N, dig \in BOOLEAN :
                  Predict(under, above, at, dig)
  <2>1. UNCHANGED << mem, hidden, emerging, search, remote >>
    BY <1>7 DEF vars, MapEdit, Edit, EmergeReport, SendBlock, ClientAck,
           ClientDelete, ClientReceive0, ClientReceive2, Predict
  <2>2. QED
    BY <2>1, TakenAreModified
<1>8. CASE \/ \E far \in BOOLEAN : FlushEvent(far)
           \/ \E far \in SUBSET node_meta_updates : FlushEnd(far)
           \/ \E verdict \in Verdicts : ServerInteract(verdict)
  <2>1. /\ UNCHANGED << mem, hidden, emerging, search >>
        /\ UNCHANGED remote \/ \E S : SetNotSent(S) \/ ResendIfOnWire(S)
    BY <1>8 DEF FlushEvent, FlushEnd, ServerInteract, Edit
  <2>2. /\ m_blocks_modified' \subseteq Blocks
        /\ m_blocks_sent \cup m_blocks_sending \cup m_blocks_modified
               \subseteq m_blocks_sent' \cup m_blocks_sending' \cup m_blocks_modified'
    BY <2>1 DEF SetNotSent, ResendIfOnWire, remote, ReadyInv, SetsTypeOK, SearchInv, SearchTypeOK
  <2>3. QED
    BY <2>1, <2>2 DEF SearchInv, SearchTypeOK, InSight, NothingMissed, Coming, search
<1>9. QED
  BY <1>1, <1>2, <1>3, <1>4, <1>5, <1>6, <1>7, <1>8 DEF Next

(* Nothing that could be sent is nearer than where the next search begins, *)
(* but what a search left behind as NothingBehind says (clientiface.cpp:165 *)
(* and 199), for every map, every limit and whatever is sent to others,    *)
(* however the searches, edits, emerged blocks and acknowledgements        *)
(* interleave.                                                             *)
THEOREM NothingBehindHolds == Spec => []NothingBehind
<1>1. Init => SearchInv
  <2> SUFFICES ASSUME Init PROVE SearchInv
    OBVIOUS
  <2>1. /\ emerging = {} /\ hidden = Hideable /\ m_blocks_occ = {} /\ m_blocks_modified = {}
        /\ m_nearest_unsent_d = 0
    BY DEF Init
  <2>2. Hideable \subseteq Blocks /\ \A b \in Blocks : 0 <= Dist[b]
    BY BlockSendAssumption
  <2>3. QED
    BY <2>1, <2>2 DEF SearchInv, SearchTypeOK, InSight, NothingMissed
<1>2. SearchInv /\ ReadyInv /\ ReadyInv' /\ [Next]_vars => SearchInv'
  BY SearchInductive
<1>3. SearchInv => NothingBehind
  <2> SUFFICES ASSUME SearchInv, NEW b \in Blocks \ passed, Behind(b) PROVE FALSE
    BY DEF NothingBehind
  <2>1. m_nearest_unsent_d <= Dist[b] /\ Dist[b] < m_nearest_unsent_d
    BY DEF SearchInv, NothingMissed, Coming, Behind
  <2>2. m_nearest_unsent_d \in Nat /\ Dist[b] \in Nat
    BY BlockSendAssumption DEF SearchInv, SearchTypeOK
  <2>3. QED
    BY <2>1, <2>2
<1>4. QED
  BY <1>1, <1>2, <1>3, SentReady, PTL DEF Spec

-----------------------------------------------------------------------------
(* Messages *)

Items(s) == {s[i] : i \in DOMAIN s}

LEMMA ItemsAppend ==
    ASSUME NEW T, NEW s \in Seq(T), NEW e
    PROVE  Items(Append(s, e)) = Items(s) \cup {e}
<1>1. /\ DOMAIN s = 1 .. Len(s) /\ Len(s) \in Nat
      /\ DOMAIN Append(s, e) = 1 .. Len(s) + 1
      /\ \A i \in 1 .. Len(s) : Append(s, e)[i] = s[i]
      /\ Append(s, e)[Len(s) + 1] = e
  OBVIOUS
<1>2. Items(Append(s, e)) \subseteq Items(s) \cup {e}
  BY <1>1 DEF Items
<1>3. Len(s) + 1 \in DOMAIN Append(s, e) /\ \A i \in DOMAIN s : i \in DOMAIN Append(s, e)
  BY <1>1
<1>4. Items(s) \cup {e} \subseteq Items(Append(s, e))
  BY <1>1, <1>3 DEF Items
<1>5. QED
  BY <1>2, <1>4

LEMMA ItemsTail ==
    ASSUME NEW T, NEW s \in Seq(T), s # <<>>
    PROVE  /\ Head(s) \in T /\ Tail(s) \in Seq(T) /\ Head(s) \in Items(s)
           /\ Items(s) = Items(Tail(s)) \cup {Head(s)}
<1>1. /\ DOMAIN s = 1 .. Len(s) /\ Len(s) \in Nat /\ Len(s) > 0
      /\ Tail(s) \in Seq(T) /\ Head(s) = s[1] /\ Head(s) \in T
      /\ DOMAIN Tail(s) = 1 .. Len(s) - 1
      /\ \A i \in 1 .. Len(s) - 1 : Tail(s)[i] = s[i + 1]
  OBVIOUS
<1>2. Items(Tail(s)) \subseteq Items(s) /\ Head(s) \in Items(s)
  BY <1>1 DEF Items
<1>3. ASSUME NEW i \in DOMAIN s
      PROVE  s[i] \in Items(Tail(s)) \cup {Head(s)}
  <2>1. CASE i = 1
    BY <1>1, <2>1
  <2>2. CASE i # 1
    <3>1. i - 1 \in DOMAIN Tail(s) /\ Tail(s)[i - 1] = s[i]
      BY <1>1, <2>2
    <3>2. QED
      BY <3>1 DEF Items
  <2>3. QED
    BY <2>1, <2>2
<1>4. QED
  BY <1>1, <1>2, <1>3 DEF Items

LEMMA ItemsConcat ==
    ASSUME NEW T, NEW s \in Seq(T), NEW t \in Seq(T)
    PROVE  s \o t \in Seq(T) /\ Items(s \o t) = Items(s) \cup Items(t)
<1>1. /\ DOMAIN s = 1 .. Len(s) /\ Len(s) \in Nat /\ DOMAIN t = 1 .. Len(t) /\ Len(t) \in Nat
      /\ s \o t \in Seq(T) /\ DOMAIN (s \o t) = 1 .. Len(s) + Len(t)
      /\ \A i \in 1 .. Len(s) + Len(t) :
            (s \o t)[i] = IF i <= Len(s) THEN s[i] ELSE t[i - Len(s)]
  OBVIOUS
<1>2. ASSUME NEW i \in DOMAIN (s \o t)
      PROVE  (s \o t)[i] \in Items(s) \cup Items(t)
  <2>1. CASE i <= Len(s)
    <3>1. i \in DOMAIN s /\ (s \o t)[i] = s[i]
      BY <1>1, <2>1
    <3>2. QED
      BY <3>1 DEF Items
  <2>2. CASE ~ (i <= Len(s))
    <3>1. i - Len(s) \in DOMAIN t /\ (s \o t)[i] = t[i - Len(s)]
      BY <1>1, <2>2
    <3>2. QED
      BY <3>1 DEF Items
  <2>3. QED
    BY <2>1, <2>2
<1>3. ASSUME NEW i \in DOMAIN s
      PROVE  s[i] \in Items(s \o t)
  <2>1. i \in DOMAIN (s \o t) /\ (s \o t)[i] = s[i]
    BY <1>1
  <2>2. QED
    BY <2>1 DEF Items
<1>4. ASSUME NEW i \in DOMAIN t
      PROVE  t[i] \in Items(s \o t)
  <2>1. Len(s) + i \in DOMAIN (s \o t) /\ (s \o t)[Len(s) + i] = t[i]
    BY <1>1
  <2>2. QED
    BY <2>1 DEF Items
<1>5. QED
  BY <1>1, <1>2, <1>3, <1>4 DEF Items

\* The last BLOCKDATA of each block carries the bulk of f.
LastIs(q, f) ==
    \A i \in DOMAIN q :
        (\A j \in DOMAIN q : j > i => q[j].block # q[i].block)
            => q[i].data.bulk = f[q[i].block].bulk

\* When the first of them arrives, the others are as they were.
LEMMA LastTail ==
    ASSUME NEW q \in Seq(Message2), q # <<>>, NEW f, LastIs(q, f)
    PROVE  /\ LastIs(Tail(q), f)
           /\ (\A m \in Items(Tail(q)) : m.block # Head(q).block)
                  => Head(q).data.bulk = f[Head(q).block].bulk
<1>1. /\ DOMAIN q = 1 .. Len(q) /\ Len(q) \in Nat /\ Len(q) > 0
      /\ Head(q) = q[1] /\ DOMAIN Tail(q) = 1 .. Len(q) - 1
      /\ \A i \in 1 .. Len(q) - 1 : Tail(q)[i] = q[i + 1]
  OBVIOUS
<1>2. ASSUME NEW i \in DOMAIN Tail(q),
             \A j \in DOMAIN Tail(q) : j > i => Tail(q)[j].block # Tail(q)[i].block
      PROVE  Tail(q)[i].data.bulk = f[Tail(q)[i].block].bulk
  <2>1. i + 1 \in DOMAIN q /\ Tail(q)[i] = q[i + 1]
    BY <1>1
  <2>2. ASSUME NEW j \in DOMAIN q, j > i + 1
        PROVE  q[j].block # q[i + 1].block
    <3>1. j - 1 \in DOMAIN Tail(q) /\ j - 1 > i /\ Tail(q)[j - 1] = q[j]
      BY <1>1, <2>2
    <3>2. QED
      BY <1>2, <2>1, <3>1
  <2>3. QED
    BY <2>1, <2>2 DEF LastIs
<1>3. ASSUME \A m \in Items(Tail(q)) : m.block # Head(q).block
      PROVE  Head(q).data.bulk = f[Head(q).block].bulk
  <2>1. ASSUME NEW j \in DOMAIN q, j > 1
        PROVE  q[j].block # q[1].block
    <3>1. j - 1 \in DOMAIN Tail(q) /\ Tail(q)[j - 1] = q[j]
      BY <1>1, <2>1
    <3>2. QED
      BY <1>1, <1>3, <3>1 DEF Items
  <2>2. 1 \in DOMAIN q
    BY <1>1
  <2>3. QED
    BY <1>1, <2>1, <2>2 DEF LastIs
<1>4. QED
  BY <1>2, <1>3 DEF LastIs

\* More of them are sent, of blocks as f2 has them.
Continues(q, d, f, f2) ==
    /\ q \in Seq(Message2) /\ d \in Seq(Message2)
    /\ LastIs(q, f)
    /\ \A m \in Items(d) : m.data.bulk = f2[m.block].bulk
    /\ \A b \in Blocks : f2[b].bulk = f[b].bulk \/ \E m \in Items(d) : m.block = b

LEMMA LastConcat ==
    ASSUME NEW q, NEW d, NEW f, NEW f2, Continues(q, d, f, f2)
    PROVE  LastIs(q \o d, f2)
<1>0. /\ q \in Seq(Message2) /\ d \in Seq(Message2)
      /\ LastIs(q, f)
      /\ \A m \in Items(d) : m.data.bulk = f2[m.block].bulk
      /\ \A b \in Blocks : f2[b].bulk = f[b].bulk \/ \E m \in Items(d) : m.block = b
  BY DEF Continues
<1>1. /\ DOMAIN q = 1 .. Len(q) /\ Len(q) \in Nat /\ DOMAIN d = 1 .. Len(d) /\ Len(d) \in Nat
      /\ DOMAIN (q \o d) = 1 .. Len(q) + Len(d)
      /\ \A i \in 1 .. Len(q) + Len(d) :
            (q \o d)[i] = IF i <= Len(q) THEN q[i] ELSE d[i - Len(q)]
  BY <1>0
<1>2. \A i \in DOMAIN q : q[i].block \in Blocks
  <2>1. \A i \in DOMAIN q : q[i] \in Message2
    BY <1>0, <1>1
  <2>2. \A m \in Message2 : m.block \in Blocks
    BY DEF Message2
  <2>3. QED
    BY <2>1, <2>2
<1> DEFINE qd == q \o d
<1>3. /\ DOMAIN qd = 1 .. Len(q) + Len(d)
      /\ \A i \in 1 .. Len(q) + Len(d) : qd[i] = IF i <= Len(q) THEN q[i] ELSE d[i - Len(q)]
  BY <1>1
<1> HIDE DEF qd
<1>4. ASSUME NEW i \in DOMAIN qd, \A j \in DOMAIN qd : j > i => qd[j].block # qd[i].block
      PROVE  qd[i].data.bulk = f2[qd[i].block].bulk
  <2>1. CASE i <= Len(q)
    <3>1. i \in DOMAIN q /\ qd[i] = q[i]
      BY <1>1, <1>3, <2>1
    <3>2. ASSUME NEW j \in DOMAIN q, j > i
          PROVE  q[j].block # q[i].block
      <4>1. j \in DOMAIN qd /\ qd[j] = q[j]
        BY <1>1, <1>3
      <4>2. QED
        BY <1>4, <3>1, <3>2, <4>1
    <3>3. q[i].data.bulk = f[q[i].block].bulk
      BY <1>0, <3>1, <3>2 DEF LastIs
    <3>4. ASSUME NEW m \in Items(d)
          PROVE  m.block # q[i].block
      <4>1. PICK j \in DOMAIN d : m = d[j]
        BY DEF Items
      <4>2. Len(q) + j \in DOMAIN qd /\ qd[Len(q) + j] = d[j] /\ Len(q) + j > i
        BY <1>1, <1>3, <2>1
      <4>3. QED
        BY <1>4, <3>1, <4>1, <4>2
    <3>5. QED
      BY <1>0, <1>2, <3>1, <3>3, <3>4
  <2>2. CASE ~ (i <= Len(q))
    <3>1. i - Len(q) \in DOMAIN d /\ qd[i] = d[i - Len(q)]
      BY <1>1, <1>3, <2>2
    <3>2. QED
      BY <1>0, <3>1 DEF Items
  <2>3. QED
    BY <2>1, <2>2
<1>5. QED
  BY <1>4 DEF LastIs, qd

-----------------------------------------------------------------------------
(* What a search sends *)

\* How many blocks of S come before b: it tells them apart.
LEMMA RankIs ==
    ASSUME NEW S \in SUBSET Blocks
    PROVE  /\ Cardinality(S) \in Nat
           /\ \A i \in 1 .. Cardinality(S) :
                 \E b \in S : Cardinality({c \in S : c < b}) = i - 1
           /\ \A b \in S : \E i \in 1 .. Cardinality(S) :
                 /\ Cardinality({c \in S : c < b}) = i - 1
                 /\ \A e \in S : Cardinality({c \in S : c < e}) = i - 1 => e = b
<1> DEFINE below(b) == {c \in S : c < b}
           n == Cardinality(S)
           rank == [b \in S |-> Cardinality(below(b)) + 1]
<1>1. /\ IsFiniteSet(S) /\ n \in Nat
      /\ \A b : below(b) \subseteq S /\ IsFiniteSet(below(b)) /\ Cardinality(below(b)) \in Nat
  BY BlocksFinite
<1>2. \A b \in S : b \in Int
  BY BlocksFinite
<1>3. ASSUME NEW b \in S
      PROVE  Cardinality(below(b)) < n
  <2>1. below(b) \in SUBSET S /\ below(b) # S
    BY <1>2
  <2>2. Cardinality(below(b)) <= n /\ (Cardinality(below(b)) = n => below(b) = S)
    BY <1>1, <2>1, FS_Subset
  <2>3. QED
    BY <1>1, <2>1, <2>2
<1>4. ASSUME NEW a \in S, NEW b \in S, a < b
      PROVE  Cardinality(below(a)) < Cardinality(below(b))
  <2>1. below(a) \in SUBSET below(b) /\ below(a) # below(b)
    <3>1. a \in below(b) /\ a \notin below(a)
      BY <1>2, <1>4
    <3>2. \A c \in S : c < a => c < b
      BY <1>2, <1>4
    <3>3. QED
      BY <3>1, <3>2
  <2>2. /\ Cardinality(below(a)) <= Cardinality(below(b))
        /\ Cardinality(below(a)) = Cardinality(below(b)) => below(a) = below(b)
    BY <1>1, <2>1, FS_Subset
  <2>3. QED
    BY <1>1, <2>1, <2>2
<1> HIDE DEF below
<1>5. ASSUME NEW a \in S, NEW b \in S, Cardinality(below(a)) = Cardinality(below(b))
      PROVE  a = b
  BY <1>1, <1>2, <1>4, <1>5
<1>6. rank \in Injection(S, 1 .. n)
  <2>1. rank \in [S -> 1 .. n]
    BY <1>1, <1>3
  <2>2. QED
    BY <1>1, <1>5, <2>1 DEF Injection, IsInjective
<1>7. IsFiniteSet(1 .. n) /\ Cardinality(1 .. n) = n
  BY <1>1, FS_Interval
<1>8. rank \in Surjection(S, 1 .. n)
  <2> HIDE DEF rank
  <2>1. QED
    BY <1>6, <1>7, FS_Injection DEF n
<1>9. \A i \in 1 .. n : \E b \in S : Cardinality(below(b)) + 1 = i
  BY <1>8 DEF Surjection
<1>10. \A b \in S : \E i \in 1 .. n :
           Cardinality(below(b)) = i - 1 /\ \A e \in S : Cardinality(below(e)) = i - 1 => e = b
  <2> SUFFICES ASSUME NEW b \in S
               PROVE  \E i \in 1 .. n : /\ Cardinality(below(b)) = i - 1
                                        /\ \A e \in S : Cardinality(below(e)) = i - 1 => e = b
    OBVIOUS
  <2>1. Cardinality(below(b)) + 1 \in 1 .. n
    BY <1>1, <1>3
  <2>2. Cardinality(below(b)) = (Cardinality(below(b)) + 1) - 1
    BY <1>1
  <2>3. QED
    BY <1>5, <2>1, <2>2
<1>11. \A i \in 1 .. n : \E b \in S : Cardinality(below(b)) = i - 1
  BY <1>1, <1>9
<1>12. QED
  BY <1>1, <1>10, <1>11 DEF below

\* Each block that is sent is in one message, as it is.
LEMMA BlockDataIs ==
    ASSUME NEW S \in SUBSET Blocks, content \in [Blocks -> Content]
    PROVE  /\ BlockData(S) \in Seq(Message2)
           /\ \A m \in Items(BlockData(S)) : m.block \in S /\ m.data = content[m.block]
           /\ \A b \in S : \E m \in Items(BlockData(S)) : m.block = b
<1> DEFINE at(i) == CHOOSE b \in S : Cardinality({c \in S : c < b}) = i - 1
           n == Cardinality(S)
           d == [i \in 1 .. n |-> [block |-> at(i), data |-> content[at(i)]]]
<1>1. BlockData(S) = d
  BY DEF BlockData
<1>2. n \in Nat /\ \A i \in 1 .. n : at(i) \in S
  BY RankIs
<1>3. \A b \in S : \E i \in 1 .. n : at(i) = b
  <2> SUFFICES ASSUME NEW b \in S PROVE \E i \in 1 .. n : at(i) = b
    OBVIOUS
  <2>1. PICK i \in 1 .. n :
            /\ Cardinality({c \in S : c < b}) = i - 1
            /\ \A e \in S : Cardinality({c \in S : c < e}) = i - 1 => e = b
    BY RankIs
  <2>2. at(i) = b
    BY <2>1
  <2>3. QED
    BY <2>2
<1> HIDE DEF at
<1>4. d \in Seq(Message2)
  <2>1. \A i \in 1 .. n : d[i] \in Message2
    BY <1>2 DEF Message2
  <2>2. QED
    BY <1>2, <2>1
<1>5. \A i \in DOMAIN d : d[i].block = at(i) /\ d[i].data = content[at(i)]
  OBVIOUS
<1>6. DOMAIN d = 1 .. n
  OBVIOUS
<1> HIDE DEF d, n
<1>7. QED
  BY <1>1, <1>2, <1>3, <1>4, <1>5, <1>6 DEF Items

-----------------------------------------------------------------------------
(* What the client has *)

\* The block where the client predicts.
Predicted(m) == {m.at} \cap (IF m.dig THEN {m.under} ELSE {m.under, m.above})

CopiesTypeOK ==
    /\ toClient0 \in Seq(Message0) /\ toClient2 \in Seq(Message2) /\ toServer2 \in Seq(Reply)
    /\ copy \in [Blocks -> SUBSET Content]
    /\ \A b \in Blocks : \A c, d \in copy[b] : c = d
    /\ \A b \in Blocks : content[b].node \in Nat
    /\ \A m \in Items(toServer0) : m.at # 0 => m.at \in Predicted(m)

Counted == m_blocks_sent \cup m_blocks_sending
InFlight(b) == \E m \in Items(toClient2) : m.block = b
Deleted(b) == \E m \in Items(toServer2) : m.type = "DELETEDBLOCKS" /\ m.block = b
Asked(b) == \E m \in Items(toServer0) : m.at = b

\* A node that was never changed is so in every message and copy, but for what
\* the client predicts.
NodeClean(b) ==
    /\ told[b].node = 0
    /\ \A c \in copy[b] : c.node \in {0, Guess}
    /\ \A m \in Items(toClient2) : m.block = b => m.data.node = 0
    /\ \A m \in Items(toClient0) : m.type = "ADDNODE" => m.block # b
    /\ \A e \in Items(events) : e.kind = "node" => e.block # b

\* Metadata that was never set is so in every message and copy.
MetaClean(b) ==
    /\ told[b].meta = 0
    /\ \A c \in copy[b] : c.meta = 0
    /\ \A m \in Items(toClient2) : m.block = b => m.data.meta = 0
    /\ \A m \in Items(toClient0) : m.type = "NODEMETA_CHANGED" => \A v \in m.metas : v[1] # b

Clean == \A b \in Blocks : /\ content[b].node = 0 => NodeClean(b)
                           /\ content[b].meta = 0 => MetaClean(b)

\* The block last sent is the one the client has or will have.
BulkKept ==
    /\ LastIs(toClient2, told)
    /\ \A b \in Blocks : ~ InFlight(b) => \A c \in copy[b] : c.bulk = told[b].bulk

\* A block that counts as sent is on its way or there, or the server will learn
\* that it is gone.
Held == \A b \in Counted : InFlight(b) \/ copy[b] # {} \/ Deleted(b)

\* What the client has predicted of it will be replaced, or the server is asked, or
\* has refused and not sent the block again.
GuessAsked ==
    \A b \in Counted : \A c \in copy[b] :
        c.node = Guess /\ content[b].node = 0 => InFlight(b) \/ Asked(b) \/ b \in stuck

CopiesInv == CopiesTypeOK /\ Clean /\ BulkKept /\ Held /\ GuessAsked

\* Steps that send the client nothing.
Quiet ==
    /\ UNCHANGED << toClient0, toClient2, copy, told >>
    /\ toServer2' \in Seq(Reply)
    /\ Counted' \subseteq Counted
    /\ \A b \in Blocks : /\ content'[b].node \in Nat
                         /\ content'[b].node = 0 => content[b].node = 0
                         /\ content'[b].meta = 0 => content[b].meta = 0
    /\ \A e \in Items(events') :
          e \in Items(events) \/ (e.kind = "node" => content'[e.block].node # 0)
    /\ \A m \in Items(toServer0') : m \in Items(toServer0)
    /\ \A b \in Counted' : Deleted(b) => Deleted(b)'
    /\ stuck \subseteq stuck'
    /\ \A b \in Counted' : Asked(b) /\ content'[b].node = 0 => Asked(b)' \/ b \in stuck'

LEMMA CopiesQuiet ==
    ASSUME CopiesInv, ContentTypeOK, Quiet
    PROVE  CopiesInv'
<1>1. CopiesTypeOK'
  BY DEF Quiet, CopiesInv, CopiesTypeOK
<1>2. Clean'
  <2> SUFFICES ASSUME NEW b \in Blocks
               PROVE  /\ content'[b].node = 0 => NodeClean(b)'
                      /\ content'[b].meta = 0 => MetaClean(b)'
    BY DEF Clean
  <2>2. content'[b].meta = 0 => MetaClean(b)'
    BY DEF Quiet, CopiesInv, Clean, MetaClean
  <2>3. content'[b].node = 0 => NodeClean(b)'
    <3>1. CASE content'[b].node = 0
      <4>1. content[b].node = 0 /\ NodeClean(b)
        BY <3>1 DEF Quiet, CopiesInv, Clean
      <4>2. \A e \in Items(events') : e.kind = "node" => e.block # b
        BY <3>1, <4>1 DEF Quiet, NodeClean
      <4>3. QED
        BY <4>1, <4>2 DEF Quiet, NodeClean
    <3>2. QED
      BY <3>1
  <2>4. QED
    BY <2>2, <2>3
<1>3. \A b : InFlight(b)' <=> InFlight(b)
  BY DEF Quiet, InFlight
<1>4. BulkKept'
  BY <1>3 DEF Quiet, CopiesInv, BulkKept
<1>5. Held'
  BY <1>3 DEF Quiet, CopiesInv, Held
<1>6. GuessAsked'
  <2>1. Counted \subseteq Blocks
    BY DEF Counted, ContentTypeOK, SetsTypeOK
  <2>2. QED
    BY <1>3, <2>1 DEF Quiet, CopiesInv, GuessAsked
<1>7. QED
  BY <1>1, <1>2, <1>4, <1>5, <1>6 DEF CopiesInv

\* Blocks of the map are sent.
LEMMA CopiesSent ==
    ASSUME CopiesInv, ContentTypeOK, NEW S \in SUBSET Blocks,
           toClient2' = toClient2 \o BlockData(S),
           told' = [b \in Blocks |-> IF b \in S THEN content[b] ELSE told[b]],
           stuck' = stuck \ S,
           UNCHANGED << content, events, toClient0, toServer0, toServer2, copy >>,
           Counted' \subseteq Counted \cup S
    PROVE  CopiesInv'
<1> DEFINE d == BlockData(S)
<1>1. /\ content \in [Blocks -> Content] /\ told \in [Blocks -> Content]
      /\ toClient2 \in Seq(Message2) /\ Counted \subseteq Blocks
  BY DEF ContentTypeOK, SetsTypeOK, CopiesInv, CopiesTypeOK, Counted
<1>2. /\ d \in Seq(Message2)
      /\ \A m \in Items(d) : m.block \in S /\ m.data = content[m.block]
      /\ \A b \in S : \E m \in Items(d) : m.block = b
  BY <1>1, BlockDataIs
<1> HIDE DEF d
<1>3. toClient2' = toClient2 \o d
  BY DEF d
<1>4. /\ toClient2' \in Seq(Message2)
      /\ Items(toClient2') = Items(toClient2) \cup Items(d)
  BY <1>1, <1>2, <1>3, ItemsConcat
<1>5. \A b \in Blocks : told'[b] = IF b \in S THEN content[b] ELSE told[b]
  OBVIOUS
<1>6. \A b \in Blocks : InFlight(b)' <=> InFlight(b) \/ b \in S
  BY <1>2, <1>4 DEF InFlight
<1>7. CopiesTypeOK'
  BY <1>4 DEF CopiesInv, CopiesTypeOK
<1>8. Clean'
  <2> SUFFICES ASSUME NEW b \in Blocks
               PROVE  /\ content[b].node = 0 => NodeClean(b)'
                      /\ content[b].meta = 0 => MetaClean(b)'
    BY DEF Clean
  <2>1. ASSUME content[b].node = 0
        PROVE  NodeClean(b)'
    <3>1. NodeClean(b)
      BY <2>1 DEF CopiesInv, Clean
    <3>2. \A m \in Items(toClient2') : m.block = b => m.data.node = 0
      BY <1>2, <1>4, <2>1, <3>1 DEF NodeClean
    <3>3. told'[b].node = 0
      BY <1>5, <2>1, <3>1 DEF NodeClean
    <3>4. QED
      BY <3>1, <3>2, <3>3 DEF NodeClean
  <2>2. ASSUME content[b].meta = 0
        PROVE  MetaClean(b)'
    <3>1. MetaClean(b)
      BY <2>2 DEF CopiesInv, Clean
    <3>2. \A m \in Items(toClient2') : m.block = b => m.data.meta = 0
      BY <1>2, <1>4, <2>2, <3>1 DEF MetaClean
    <3>3. told'[b].meta = 0
      BY <1>5, <2>2, <3>1 DEF MetaClean
    <3>4. QED
      BY <3>1, <3>2, <3>3 DEF MetaClean
  <2>3. QED
    BY <2>1, <2>2
<1>9. BulkKept'
  <2>1. LastIs(toClient2', told')
    <3>1. PICK q, e, f, g : q = toClient2 /\ e = d /\ f = told /\ g = told'
      OBVIOUS
    <3>2. LastIs(q, f) /\ q \in Seq(Message2) /\ e \in Seq(Message2)
      BY <1>1, <1>2, <3>1 DEF CopiesInv, BulkKept
    <3>3. \A m \in Items(e) : m.data.bulk = g[m.block].bulk
      <4>1. \A b \in S : g[b] = content[b]
        BY <1>5, <3>1
      <4>2. QED
        BY <1>2, <3>1, <4>1
    <3>4. \A b \in Blocks : g[b].bulk = f[b].bulk \/ \E m \in Items(e) : m.block = b
      BY <1>2, <1>5, <3>1
    <3>5. Continues(q, e, f, g)
      BY <3>2, <3>3, <3>4 DEF Continues
    <3>6. LastIs(q \o e, g)
      BY <3>5, LastConcat
    <3>7. QED
      BY <1>3, <3>1, <3>6
  <2>2. \A b \in Blocks : ~ InFlight(b)' => \A c \in copy'[b] : c.bulk = told'[b].bulk
    BY <1>5, <1>6 DEF CopiesInv, BulkKept
  <2>3. QED
    BY <2>1, <2>2 DEF BulkKept
<1>10. \A b : (Deleted(b)' <=> Deleted(b)) /\ (Asked(b)' <=> Asked(b))
  BY DEF Deleted, Asked
<1>11. Held'
  BY <1>1, <1>6, <1>10 DEF CopiesInv, Held
<1>12. GuessAsked'
  BY <1>1, <1>6, <1>10 DEF CopiesInv, GuessAsked
<1>13. QED
  BY <1>7, <1>8, <1>9, <1>11, <1>12 DEF CopiesInv

\* A message of channel 0 is sent: of a node that was changed, or of metadata
\* that is there.
Tells(m) ==
    /\ m \in Message0
    /\ m.type = "ADDNODE" => content[m.block].node # 0
    /\ m.type = "NODEMETA_CHANGED" => \A v \in m.metas : content[v[1]].meta # 0
    /\ toClient0' = Append(toClient0, m)

LEMMA CopiesTold ==
    ASSUME CopiesInv, ContentTypeOK,
           toClient0' = toClient0 \/ \E m : Tells(m),
           \A b \in Blocks : /\ told'[b].bulk = told[b].bulk
                             /\ content[b].node = 0 => told'[b].node = told[b].node
                             /\ content[b].meta = 0 => told'[b].meta = told[b].meta,
           \A e \in Items(events') : e \in Items(events),
           UNCHANGED << content, toClient2, toServer0, toServer2, copy, stuck >>,
           Counted' \subseteq Counted
    PROVE  CopiesInv'
<1>1. toClient0 \in Seq(Message0)
  BY DEF CopiesInv, CopiesTypeOK
<1>2. /\ toClient0' \in Seq(Message0)
      /\ \A n \in Items(toClient0') :
            \/ n \in Items(toClient0)
            \/ /\ n.type = "ADDNODE" => content[n.block].node # 0
               /\ n.type = "NODEMETA_CHANGED" => \A v \in n.metas : content[v[1]].meta # 0
  <2>1. CASE toClient0' = toClient0
    BY <1>1, <2>1
  <2>2. CASE \E m : Tells(m)
    <3>1. PICK m : Tells(m)
      BY <2>2
    <3>2. toClient0' = Append(toClient0, m) /\ m \in Message0
      BY <3>1 DEF Tells
    <3>3. toClient0' \in Seq(Message0) /\ Items(toClient0') = Items(toClient0) \cup {m}
      BY <1>1, <3>2, ItemsAppend
    <3>4. QED
      BY <3>1, <3>3 DEF Tells
  <2>3. QED
    BY <2>1, <2>2
<1>3. CopiesTypeOK'
  BY <1>2 DEF CopiesInv, CopiesTypeOK
<1>4. Clean'
  <2> SUFFICES ASSUME NEW b \in Blocks
               PROVE  /\ content[b].node = 0 => NodeClean(b)'
                      /\ content[b].meta = 0 => MetaClean(b)'
    BY DEF Clean
  <2>1. ASSUME content[b].node = 0
        PROVE  NodeClean(b)'
    <3>1. NodeClean(b)
      BY <2>1 DEF CopiesInv, Clean
    <3>2. \A m \in Items(toClient0') : m.type = "ADDNODE" => m.block # b
      BY <1>2, <2>1, <3>1 DEF NodeClean
    <3>3. QED
      BY <2>1, <3>1, <3>2 DEF NodeClean
  <2>2. ASSUME content[b].meta = 0
        PROVE  MetaClean(b)'
    <3>1. MetaClean(b)
      BY <2>2 DEF CopiesInv, Clean
    <3>2. \A m \in Items(toClient0') : m.type = "NODEMETA_CHANGED" => \A v \in m.metas : v[1] # b
      BY <1>2, <2>2, <3>1 DEF MetaClean
    <3>3. QED
      BY <2>2, <3>1, <3>2 DEF MetaClean
  <2>3. QED
    BY <2>1, <2>2
<1>5. \A b : /\ InFlight(b)' <=> InFlight(b)
             /\ Deleted(b)' <=> Deleted(b)
             /\ Asked(b)' <=> Asked(b)
  BY DEF InFlight, Deleted, Asked
<1>6. BulkKept'
  <2>1. LastIs(toClient2', told')
    <3>1. toClient2 \in Seq(Message2) /\ LastIs(toClient2, told)
      BY DEF CopiesInv, BulkKept, CopiesTypeOK
    <3>2. \A i \in DOMAIN toClient2 : toClient2[i].block \in Blocks
      <4>1. \A i \in DOMAIN toClient2 : toClient2[i] \in Message2
        BY <3>1
      <4>2. \A m \in Message2 : m.block \in Blocks
        BY DEF Message2
      <4>3. QED
        BY <4>1, <4>2
    <3>3. QED
      BY <3>1, <3>2 DEF LastIs
  <2>2. QED
    BY <1>5, <2>1 DEF CopiesInv, BulkKept
<1>7. Held' /\ GuessAsked'
  BY <1>5 DEF CopiesInv, Held, GuessAsked
<1>8. QED
  BY <1>3, <1>4, <1>6, <1>7 DEF CopiesInv

-----------------------------------------------------------------------------
(* The steps of the server *)

\* Nothing but the sets of blocks changes, and they only shrink.
LEMMA QuietIfLess ==
    ASSUME CopiesInv,
           UNCHANGED << content, events, toClient0, toClient2, toServer0, toServer2, copy, stuck,
                        told >>,
           Counted' \subseteq Counted
    PROVE  Quiet
<1>1. \A b : (Deleted(b)' <=> Deleted(b)) /\ (Asked(b)' <=> Asked(b))
  BY DEF Deleted, Asked
<1>2. QED
  BY <1>1 DEF Quiet, CopiesInv, CopiesTypeOK

\* A change of the map, but no removal of metadata: content only gets newer.
LEMMA EditIs ==
    ASSUME CopiesInv, ContentTypeOK, "unmeta" \notin EditKinds,
           NEW b \in Blocks, NEW kind \in {"node", "bulk", "meta"}, Edit(b, kind)
    PROVE  /\ \A c \in Blocks : /\ content'[c].node \in Nat
                                /\ content'[c].node = 0 => content[c].node = 0
                                /\ content'[c].meta = 0 => content[c].meta = 0
           /\ kind = "node" => content'[b].node # 0
           /\ \A e \in Items(events') :
                 e \in Items(events) \/ (e.kind = "node" => content'[e.block].node # 0)
<1>1. /\ content[b].node \in Nat /\ times["edit"] \in Nat /\ events \in Seq(Event)
      /\ content \in [Blocks -> Content]
  BY DEF CopiesInv, CopiesTypeOK, ContentTypeOK, Happenings
<1>2. content' = Changed(b, kind) /\ events' = Append(events, OfKind(b, kind))
  BY DEF Edit
<1>3. \A c \in Blocks : c # b => content'[c] = content[c]
  BY <1>1, <1>2 DEF Changed
<1>4. /\ content'[b].node = IF kind = "node" THEN content[b].node + 1 ELSE content[b].node
      /\ content'[b].meta = IF kind = "meta" THEN times["edit"] + 1 ELSE content[b].meta
  BY <1>1, <1>2 DEF Changed
<1>5. Items(events') = Items(events) \cup {OfKind(b, kind)}
  BY <1>1, <1>2, ItemsAppend
<1>6. OfKind(b, kind).kind = kind /\ OfKind(b, kind).block = b
  BY DEF OfKind
<1>7. /\ content'[b].node \in Nat
      /\ content'[b].node = 0 => content[b].node = 0
      /\ content'[b].meta = 0 => content[b].meta = 0
      /\ kind = "node" => content'[b].node # 0
  BY <1>1, <1>4
<1>8. \A c \in Blocks : /\ content'[c].node \in Nat
                        /\ content'[c].node = 0 => content[c].node = 0
                        /\ content'[c].meta = 0 => content[c].meta = 0
  BY <1>3, <1>7 DEF CopiesInv, CopiesTypeOK
<1>9. QED
  BY <1>5, <1>6, <1>7, <1>8

LEMMA MapEditQuiet ==
    ASSUME CopiesInv, ContentTypeOK, "unmeta" \notin EditKinds,
           NEW b \in Blocks, NEW kind \in EditKinds, MapEdit(b, kind)
    PROVE  Quiet
<1>1. kind \in {"node", "bulk", "meta"}
  BY BlockSendAssumption
<1>2. /\ Edit(b, kind)
      /\ UNCHANGED << toClient0, toClient2, toServer0, toServer2, copy, stuck, told, Counted >>
  BY DEF MapEdit, remote, client, net, Counted
<1>3. \A c : (Deleted(c)' <=> Deleted(c)) /\ (Asked(c)' <=> Asked(c))
  BY <1>2 DEF Deleted, Asked
<1>4. QED
  BY <1>1, <1>2, <1>3, EditIs DEF Quiet, CopiesInv, CopiesTypeOK

LEMMA EmergeQuiet ==
    ASSUME CopiesInv, ContentTypeOK, NEW b \in Blocks, EmergeDone(b) \/ EmergeReport(b)
    PROVE  Quiet
<1>1. UNCHANGED << toClient0, toClient2, toServer0, toServer2, copy, stuck, told, Counted >>
  BY DEF EmergeDone, EmergeReport, remote, client, net, Counted
<1>2. \A c \in Blocks : content'[c].node = content[c].node /\ content'[c].meta = content[c].meta
  <2>1. CASE content' = content
    BY <2>1
  <2>2. CASE content' = [content EXCEPT ![b].bulk = content[b].bulk + 1]
    <3>1. content \in [Blocks -> Content]
      BY DEF ContentTypeOK
    <3>2. \A c \in Blocks : \/ content'[c] = content[c]
                            \/ content'[c] = [content[c] EXCEPT !.bulk = content[c].bulk + 1]
      BY <2>2, <3>1
    <3>3. QED
      BY <3>1, <3>2 DEF Content
  <2>3. QED
    BY <2>1, <2>2 DEF EmergeDone, EmergeReport
<1>3. ASSUME NEW e \in Items(events')
      PROVE  e \in Items(events) \/ e.kind = "bulk"
  <2>1. CASE EmergeDone(b)
    BY <2>1 DEF EmergeDone, eventvars
  <2>2. CASE EmergeReport(b)
    <3>1. events' = Append(events, [kind |-> "bulk", block |-> b, node |-> 0])
      BY <2>2 DEF EmergeReport
    <3>2. Items(events') = Items(events) \cup {[kind |-> "bulk", block |-> b, node |-> 0]}
      BY <3>1, ItemsAppend DEF ContentTypeOK
    <3>3. QED
      BY <3>2
  <2>3. QED
    BY <2>1, <2>2
<1>4. \A c : (Deleted(c)' <=> Deleted(c)) /\ (Asked(c)' <=> Asked(c))
  BY <1>1 DEF Deleted, Asked
<1>5. QED
  BY <1>1, <1>2, <1>3, <1>4 DEF Quiet, CopiesInv, CopiesTypeOK

\* The server sends a node only of an event about it, and metadata that is there.
LEMMA FlushEventCopies ==
    ASSUME CopiesInv, ContentTypeOK, NEW far \in BOOLEAN, FlushEvent(far)
    PROVE  CopiesInv'
<1> DEFINE e == Head(events)
           sends == e.kind = "node" /\ SendsNode(e.block, far)
           m == [type |-> "ADDNODE", block |-> e.block, node |-> e.node]
<1>1. /\ events \in Seq(Event) /\ events # <<>> /\ events' = Tail(events)
      /\ toClient0' = IF ~sends THEN toClient0 ELSE Append(toClient0, m)
      /\ told' = IF ~sends THEN told ELSE [told EXCEPT ![e.block].node = e.node]
      /\ IF Marks(e, far) THEN SetNotSent({e.block}) ELSE UNCHANGED remote
      /\ UNCHANGED << content, toClient2, toServer0, toServer2, copy, stuck >>
  BY DEF FlushEvent, ContentTypeOK, mapvars, client
<1>2. /\ e \in Event /\ e \in Items(events)
      /\ \A f \in Items(events') : f \in Items(events)
  BY <1>1, ItemsTail
<1>3. Counted' \subseteq Counted
  BY <1>1 DEF SetNotSent, remote, Counted
<1> HIDE DEF e
<1>4. e.block \in Blocks /\ e.node \in Nat
  BY <1>2 DEF Event
<1>5. sends => content[e.block].node # 0
  BY <1>2, <1>4 DEF CopiesInv, Clean, NodeClean
<1>6. m \in Message0 /\ m.type = "ADDNODE" /\ m.block = e.block
  BY <1>4 DEF Message0
<1>7. toClient0' = toClient0 \/ \E n : Tells(n)
  BY <1>1, <1>5, <1>6 DEF Tells
<1>8. \A b \in Blocks : /\ told'[b].bulk = told[b].bulk
                        /\ content[b].node = 0 => told'[b].node = told[b].node
                        /\ content[b].meta = 0 => told'[b].meta = told[b].meta
  <2>1. told \in [Blocks -> Content]
    BY DEF ContentTypeOK
  <2>2. CASE ~ sends
    BY <1>1, <2>2
  <2>3. CASE sends
    <3>1. told' = [told EXCEPT ![e.block].node = e.node]
      BY <1>1, <2>3
    <3>2. \A b \in Blocks : told'[b] = IF b = e.block THEN [told[b] EXCEPT !.node = e.node]
                                                   ELSE told[b]
      BY <1>4, <2>1, <3>1
    <3>3. content[e.block].node # 0
      BY <1>5, <2>3
    <3>4. QED
      BY <2>1, <3>2, <3>3 DEF Content
  <2>4. QED
    BY <2>2, <2>3
<1>9. QED
  BY <1>1, <1>2, <1>3, <1>7, <1>8, CopiesTold

LEMMA FlushEndCopies ==
    ASSUME CopiesInv, ContentTypeOK, NEW far \in SUBSET node_meta_updates, FlushEnd(far)
    PROVE  CopiesInv'
<1> DEFINE present == {b \in node_meta_updates : content[b].meta # 0}
           unsent == {b \in present : b \notin m_blocks_sent \/ b \in far}
           updates == present \ unsent
           m == [type |-> "NODEMETA_CHANGED", metas |-> {<<b, content[b].meta>> : b \in updates}]
<1>1. /\ toClient0' = IF updates = {} THEN toClient0 ELSE Append(toClient0, m)
      /\ told' = [b \in Blocks |-> IF b \in updates
                                   THEN [told[b] EXCEPT !.meta = content[b].meta]
                                   ELSE told[b]]
      /\ IF unsent # {} THEN SetNotSent(unsent) ELSE UNCHANGED remote
      /\ UNCHANGED << content, events, toClient2, toServer0, toServer2, copy, stuck >>
  BY DEF FlushEnd, mapvars, client
<1>2. updates \subseteq Blocks /\ \A b \in updates : content[b].meta # 0
  BY DEF ContentTypeOK
<1> HIDE DEF updates, unsent
<1>3. Counted' \subseteq Counted
  BY <1>1 DEF SetNotSent, remote, Counted
<1>4. \A b \in Blocks : content[b].meta \in Nat
  BY DEF ContentTypeOK, Content
<1>5. m \in Message0 /\ m.type = "NODEMETA_CHANGED" /\ m.metas = {<<b, content[b].meta>> : b \in updates}
  BY <1>2, <1>4 DEF Message0
<1>6. \A v \in m.metas : content[v[1]].meta # 0
  BY <1>2, <1>5
<1> HIDE DEF m
<1>7. toClient0' = toClient0 \/ \E n : Tells(n)
  BY <1>1, <1>5, <1>6 DEF Tells
<1>8. \A b \in Blocks : /\ told'[b].bulk = told[b].bulk
                        /\ content[b].node = 0 => told'[b].node = told[b].node
                        /\ content[b].meta = 0 => told'[b].meta = told[b].meta
  BY <1>1, <1>2 DEF ContentTypeOK, Content
<1>9. QED
  BY <1>1, <1>3, <1>7, <1>8, CopiesTold

\* A message about a block counts, or the block does no longer.
LEMMA Receive2Quiet ==
    ASSUME CopiesInv, ContentTypeOK, ServerReceive2
    PROVE  Quiet
<1> DEFINE m == Head(toServer2)
<1>1. /\ toServer2 \in Seq(Reply) /\ toServer2 # <<>> /\ toServer2' = Tail(toServer2)
      /\ IF m.type = "GOTBLOCKS" THEN GotBlock(m.block) ELSE SetNotSent({m.block})
      /\ UNCHANGED << content, events, toClient0, toClient2, toServer0, copy, stuck, told >>
  BY DEF ServerReceive2, CopiesInv, CopiesTypeOK, mapvars, eventvars, client
<1>2. /\ toServer2' \in Seq(Reply)
      /\ Items(toServer2) = Items(toServer2') \cup {m}
  BY <1>1, ItemsTail
<1> HIDE DEF m
<1>3. Counted' \subseteq Counted /\ (m.type = "DELETEDBLOCKS" => m.block \notin Counted')
  BY <1>1 DEF GotBlock, SetNotSent, Counted
<1>4. \A b : Asked(b)' <=> Asked(b)
  BY <1>1 DEF Asked
<1>5. \A b \in Counted' : Deleted(b) => Deleted(b)'
  BY <1>2, <1>3 DEF Deleted
<1>6. QED
  BY <1>1, <1>2, <1>3, <1>4, <1>5 DEF Quiet, CopiesInv, CopiesTypeOK

\* What the client asked for is done, or the block is sent again, or it is stuck.
LEMMA InteractQuiet ==
    ASSUME CopiesInv, ContentTypeOK, "unmeta" \notin EditKinds,
           NEW verdict \in Verdicts, ServerInteract(verdict)
    PROVE  Quiet
<1> DEFINE m == Head(toServer0)
           b == Target(m)
<1>1. /\ toServer0 \in Seq(Interact) /\ toServer0 # <<>> /\ toServer0' = Tail(toServer0)
      /\ IF verdict = "done" THEN Edit(b, "node") ELSE UNCHANGED << mapvars, eventvars, times >>
      /\ IF Resent(verdict, m) # {} THEN SetNotSent(Resent(verdict, m))
         ELSE ResendIfOnWire(IF m.dig THEN {m.under} ELSE {m.under, m.above})
      /\ stuck' = IF verdict = "done" \/ m.at = 0 THEN stuck
                  ELSE stuck \cup ({m.at} \ Resent(verdict, m))
      /\ UNCHANGED << toClient0, toClient2, toServer2, copy, told >>
  BY DEF ServerInteract, ContentTypeOK
<1>2. /\ m \in Interact /\ m \in Items(toServer0)
      /\ Items(toServer0) = Items(toServer0') \cup {m}
  BY <1>1, ItemsTail
<1>3. Counted' \subseteq Counted /\ Resent(verdict, m) \cap Counted' = {}
  BY <1>1 DEF SetNotSent, ResendIfOnWire, remote, Counted
<1>4. b \in Blocks
  BY <1>2 DEF Target, Interact
<1>5. m.at # 0 => m.at \in Predicted(m) /\ b = m.at
  BY <1>2 DEF CopiesInv, CopiesTypeOK, Target
<1> HIDE DEF m, b
<1>6. /\ \A c \in Blocks : /\ content'[c].node \in Nat
                           /\ content'[c].node = 0 => content[c].node = 0
                           /\ content'[c].meta = 0 => content[c].meta = 0
      /\ verdict = "done" => content'[b].node # 0
      /\ \A e \in Items(events') :
            e \in Items(events) \/ (e.kind = "node" => content'[e.block].node # 0)
  <2>1. CASE verdict = "done"
    <3>1. Edit(b, "node") /\ "node" \in {"node", "bulk", "meta"}
      BY <1>1, <2>1
    <3>2. QED
      BY <1>4, <3>1, EditIs
  <2>2. CASE verdict # "done"
    <3>1. content' = content /\ events' = events
      BY <1>1, <2>2 DEF mapvars, eventvars
    <3>2. QED
      BY <2>2, <3>1 DEF CopiesInv, CopiesTypeOK
  <2>3. QED
    BY <2>1, <2>2
<1>7. \A c : Deleted(c)' <=> Deleted(c)
  BY <1>1 DEF Deleted
<1>8. ASSUME NEW c \in Counted', Asked(c), content'[c].node = 0
      PROVE  Asked(c)' \/ c \in stuck'
  <2>1. c \in Blocks /\ c # 0
    <3>1. c \in Counted
      BY <1>3, <1>8
    <3>2. c \in Blocks
      BY <3>1 DEF Counted, ContentTypeOK, SetsTypeOK
    <3>3. c \in Blocks => c # 0
      BY BlockSendAssumption DEF Blocks
    <3>4. QED
      BY <3>2, <3>3
  <2>2. CASE m.at = c
    <3>1. verdict # "done"
      BY <1>5, <1>6, <1>8, <2>1, <2>2
    <3>2. c \notin Resent(verdict, m)
      BY <1>3, <1>8
    <3>3. QED
      BY <1>1, <2>1, <2>2, <3>1, <3>2
  <2>3. CASE m.at # c
    BY <1>2, <1>8, <2>3 DEF Asked
  <2>4. QED
    BY <2>2, <2>3
<1>9. stuck \subseteq stuck'
  BY <1>1
<1>10. QED
  BY <1>1, <1>2, <1>3, <1>6, <1>7, <1>8, <1>9 DEF Quiet, CopiesInv, CopiesTypeOK

-----------------------------------------------------------------------------
(* The steps of the client *)

LEMMA AckQuiet ==
    ASSUME CopiesInv, NEW b \in Blocks, ClientAck(b)
    PROVE  Quiet
<1> DEFINE m == [type |-> "GOTBLOCKS", block |-> b]
<1>1. /\ toServer2' = Append(toServer2, m) /\ m \in Reply
      /\ UNCHANGED << content, events, toClient0, toClient2, toServer0, copy, stuck, told, Counted >>
  BY DEF ClientAck, mapvars, eventvars, remote, Reply, Counted
<1>2. /\ toServer2' \in Seq(Reply) /\ Items(toServer2') = Items(toServer2) \cup {m}
  <2> HIDE DEF m
  <2>1. toServer2 \in Seq(Reply)
    BY DEF CopiesInv, CopiesTypeOK
  <2>2. QED
    BY <1>1, <2>1, ItemsAppend
<1>3. \A c : (Deleted(c) => Deleted(c)') /\ (Asked(c)' <=> Asked(c))
  BY <1>1, <1>2 DEF Deleted, Asked
<1>4. QED
  BY <1>1, <1>2, <1>3 DEF Quiet, CopiesInv, CopiesTypeOK

\* The client drops a block, and says so.
LEMMA DeleteCopies ==
    ASSUME CopiesInv, ContentTypeOK, NEW b \in Blocks, ClientDelete(b)
    PROVE  CopiesInv'
<1> DEFINE m == [type |-> "DELETEDBLOCKS", block |-> b]
<1>1. /\ toServer2' = Append(toServer2, m) /\ m \in Reply
      /\ copy' = [copy EXCEPT ![b] = {}]
      /\ UNCHANGED << content, events, toClient0, toClient2, toServer0, stuck, told, Counted >>
  BY DEF ClientDelete, mapvars, eventvars, remote, Reply, Counted, NoBlock
<1>2. /\ toServer2' \in Seq(Reply) /\ Items(toServer2') = Items(toServer2) \cup {m}
  <2> HIDE DEF m
  <2>1. toServer2 \in Seq(Reply)
    BY DEF CopiesInv, CopiesTypeOK
  <2>2. QED
    BY <1>1, <2>1, ItemsAppend
<1>3. /\ copy' \in [Blocks -> SUBSET Content] /\ copy'[b] = {}
      /\ \A c \in Blocks : c # b => copy'[c] = copy[c]
  BY <1>1 DEF CopiesInv, CopiesTypeOK
<1>4. \A c \in Blocks : copy'[c] \subseteq copy[c]
  BY <1>3
<1>5. \A c : /\ InFlight(c)' <=> InFlight(c)
             /\ Deleted(c) => Deleted(c)'
             /\ Asked(c)' <=> Asked(c)
  BY <1>1, <1>2 DEF InFlight, Deleted, Asked
<1>6. Deleted(b)'
  <2>1. m.type = "DELETEDBLOCKS" /\ m.block = b
    OBVIOUS
  <2> HIDE DEF m
  <2>2. m \in Items(toServer2)'
    BY <1>2
  <2>3. QED
    BY <2>1, <2>2 DEF Deleted
<1>7. CopiesTypeOK'
  BY <1>1, <1>2, <1>3, <1>4 DEF CopiesInv, CopiesTypeOK
<1>8. Clean'
  <2>1. \A c \in Blocks : NodeClean(c) => NodeClean(c)'
    BY <1>1, <1>4 DEF NodeClean
  <2>2. \A c \in Blocks : MetaClean(c) => MetaClean(c)'
    BY <1>1, <1>4 DEF MetaClean
  <2>3. QED
    BY <1>1, <2>1, <2>2 DEF CopiesInv, Clean
<1>9. BulkKept'
  <2>1. LastIs(toClient2', told')
    BY <1>1 DEF CopiesInv, BulkKept
  <2>2. \A c \in Blocks : ~ InFlight(c)' => \A d \in copy'[c] : d.bulk = told'[c].bulk
    BY <1>1, <1>4, <1>5 DEF CopiesInv, BulkKept
  <2>3. QED
    BY <2>1, <2>2 DEF BulkKept
<1>10. Counted \subseteq Blocks
  BY DEF Counted, ContentTypeOK, SetsTypeOK
<1>11. Held'
  <2> SUFFICES ASSUME NEW c \in Counted PROVE InFlight(c)' \/ copy'[c] # {} \/ Deleted(c)'
    BY <1>1 DEF Held
  <2>1. CASE c = b
    BY <1>6, <2>1
  <2>2. CASE c # b
    BY <1>3, <1>5, <1>10, <2>2 DEF CopiesInv, Held
  <2>3. QED
    BY <2>1, <2>2
<1>12. GuessAsked'
  BY <1>1, <1>4, <1>5, <1>10 DEF CopiesInv, GuessAsked
<1>13. QED
  BY <1>7, <1>8, <1>9, <1>11, <1>12 DEF CopiesInv

\* The client predicts a node, and asks the server.
LEMMA PredictCopies ==
    ASSUME CopiesInv, ContentTypeOK, NEW under \in Blocks, NEW above \in Blocks,
           NEW at \in 0 .. N, NEW dig \in BOOLEAN, Predict(under, above, at, dig)
    PROVE  CopiesInv'
<1> DEFINE m == [under |-> under, above |-> above, at |-> at, dig |-> dig]
<1>1. /\ toServer0' = Append(toServer0, m)
      /\ at \in (IF dig THEN {under, 0} ELSE {under, above, 0})
      /\ copy' = [b \in Blocks |-> IF b = at THEN {[c EXCEPT !.node = Guess] : c \in copy[b]}
                                             ELSE copy[b]]
      /\ UNCHANGED << content, events, toClient0, toClient2, toServer2, stuck, told, Counted >>
  BY DEF Predict, mapvars, eventvars, remote, Counted
<1>2. Items(toServer0') = Items(toServer0) \cup {m} /\ m.at = at
  <2>1. m.at = at
    OBVIOUS
  <2> HIDE DEF m
  <2>2. toServer0 \in Seq(Interact)
    BY DEF ContentTypeOK
  <2>3. QED
    BY <1>1, <2>1, <2>2, ItemsAppend
<1>3. m.at # 0 => m.at \in Predicted(m)
  BY <1>1 DEF Predicted
<1>4. Guess \in Nat \cup {Guess}
  OBVIOUS
<1>5. \A b \in Blocks : copy'[b] = IF b = at THEN {[c EXCEPT !.node = Guess] : c \in copy[b]}
                                   ELSE copy[b]
  BY <1>1
<1>6. copy \in [Blocks -> SUBSET Content] /\ \A b \in Blocks : \A c, d \in copy[b] : c = d
  BY DEF CopiesInv, CopiesTypeOK
<1>7. ASSUME NEW b \in Blocks, NEW c \in copy'[b]
      PROVE  /\ c \in Content
             /\ \E d \in copy[b] : /\ c.bulk = d.bulk /\ c.meta = d.meta
                                   /\ c.node = d.node \/ (c.node = Guess /\ b = at)
  <2>1. CASE b = at
    <3>0. copy'[b] = {[d EXCEPT !.node = Guess] : d \in copy[b]}
      BY <1>5, <2>1
    <3> HIDE DEF m
    <3>1. PICK d \in copy[b] : c = [d EXCEPT !.node = Guess]
      <4>1. c \in {[d EXCEPT !.node = Guess] : d \in copy[b]}
        BY <3>0, <1>7, Zenon
      <4>2. QED
        BY <4>1
    <3>2. d \in Content
      BY <1>6
    <3>3. c \in Content /\ c.bulk = d.bulk /\ c.meta = d.meta /\ c.node = Guess
      BY <3>1, <3>2 DEF Content
    <3>4. QED
      BY <2>1, <3>3
  <2>2. CASE b # at
    BY <1>5, <1>6, <1>7, <2>2
  <2>3. QED
    BY <2>1, <2>2
<1>8. ASSUME NEW b \in Blocks
      PROVE  /\ \A c, d \in copy'[b] : c = d
             /\ copy[b] # {} => copy'[b] # {}
  <2>1. CASE b = at
    <3>1. copy'[b] = {[c EXCEPT !.node = Guess] : c \in copy[b]}
      BY <1>5, <2>1
    <3>2. ASSUME NEW c \in copy'[b], NEW d \in copy'[b]
          PROVE  c = d
      <4>1. PICK c0 \in copy[b] : c = [c0 EXCEPT !.node = Guess]
        BY <3>1, <3>2
      <4>2. PICK d0 \in copy[b] : d = [d0 EXCEPT !.node = Guess]
        BY <3>1, <3>2
      <4>3. c0 = d0
        BY <1>6
      <4>4. QED
        BY <4>1, <4>2, <4>3
    <3>3. ASSUME copy[b] # {} PROVE copy'[b] # {}
      <4>1. PICK c \in copy[b] : TRUE
        BY <3>3
      <4>2. [c EXCEPT !.node = Guess] \in copy'[b]
        BY <3>1, <4>1
      <4>3. QED
        BY <4>2
    <3>4. QED
      BY <3>2, <3>3
  <2>2. CASE b # at
    BY <1>5, <1>6, <2>2
  <2>3. QED
    BY <2>1, <2>2
<1>9. copy' \in [Blocks -> SUBSET Content]
  <2>1. DOMAIN copy' = Blocks /\ copy' = [b \in Blocks |-> copy'[b]]
    BY <1>1
  <2>2. \A b \in Blocks : copy'[b] \subseteq Content
    BY <1>7
  <2>3. QED
    BY <2>1, <2>2
<1>10. \A b : /\ InFlight(b)' <=> InFlight(b)
              /\ Deleted(b)' <=> Deleted(b)
              /\ Asked(b) => Asked(b)'
  BY <1>1, <1>2 DEF InFlight, Deleted, Asked
<1>11. Asked(at)'
  BY <1>2 DEF Asked
<1>12. CopiesTypeOK'
  <2>1. \A n \in Items(toServer0') : n.at # 0 => n.at \in Predicted(n)
    BY <1>2, <1>3 DEF CopiesInv, CopiesTypeOK
  <2>2. QED
    BY <1>1, <1>8, <1>9, <2>1 DEF CopiesInv, CopiesTypeOK
<1>13. Clean'
  <2> SUFFICES ASSUME NEW b \in Blocks
               PROVE  /\ content[b].node = 0 => NodeClean(b)'
                      /\ content[b].meta = 0 => MetaClean(b)'
    BY <1>1 DEF Clean
  <2>1. ASSUME content[b].node = 0
        PROVE  NodeClean(b)'
    <3>1. NodeClean(b)
      BY <2>1 DEF CopiesInv, Clean
    <3>2. \A c \in copy'[b] : c.node \in {0, Guess}
      BY <1>7, <3>1 DEF NodeClean
    <3>3. QED
      BY <1>1, <3>1, <3>2 DEF NodeClean
  <2>2. ASSUME content[b].meta = 0
        PROVE  MetaClean(b)'
    <3>1. MetaClean(b)
      BY <2>2 DEF CopiesInv, Clean
    <3>2. \A c \in copy'[b] : c.meta = 0
      BY <1>7, <3>1 DEF MetaClean
    <3>3. QED
      BY <1>1, <3>1, <3>2 DEF MetaClean
  <2>3. QED
    BY <2>1, <2>2
<1>14. BulkKept'
  <2>1. \A b \in Blocks : ~ InFlight(b)' => \A c \in copy'[b] : c.bulk = told[b].bulk
    BY <1>7, <1>10 DEF CopiesInv, BulkKept
  <2>2. QED
    BY <1>1, <2>1 DEF CopiesInv, BulkKept
<1>15. Counted \subseteq Blocks
  BY DEF Counted, ContentTypeOK, SetsTypeOK
<1>16. Held'
  BY <1>1, <1>8, <1>10, <1>15 DEF CopiesInv, Held
<1>17. GuessAsked'
  <2> SUFFICES ASSUME NEW b \in Counted, NEW c \in copy'[b], c.node = Guess, content[b].node = 0
               PROVE  InFlight(b)' \/ Asked(b)' \/ b \in stuck
    BY <1>1 DEF GuessAsked
  <2>1. CASE b = at
    BY <1>11, <2>1
  <2>2. CASE b # at
    BY <1>5, <1>10, <1>15, <2>2 DEF CopiesInv, GuessAsked
  <2>3. QED
    BY <2>1, <2>2
<1>18. QED
  BY <1>12, <1>13, <1>14, <1>16, <1>17 DEF CopiesInv

-----------------------------------------------------------------------------
\* A node or metadata arrives, of a block where it was changed on the server.
LEMMA Receive0Copies ==
    ASSUME CopiesInv, ContentTypeOK, ClientReceive0
    PROVE  CopiesInv'
<1> DEFINE m == Head(toClient0)
           new(b, c) ==
               IF m.type = "ADDNODE"
               THEN IF m.block = b THEN [c EXCEPT !.node = m.node] ELSE c
               ELSE IF \E v \in m.metas : v[1] = b
                    THEN [c EXCEPT !.meta = (CHOOSE v \in m.metas : v[1] = b)[2]]
                    ELSE c
<1>1. /\ toClient0 \in Seq(Message0) /\ toClient0 # <<>> /\ toClient0' = Tail(toClient0)
      /\ copy' = [b \in Blocks |-> {new(b, c) : c \in copy[b]}]
      /\ UNCHANGED << content, events, toClient2, toServer0, toServer2, stuck, told, Counted >>
  BY DEF ClientReceive0, CopiesInv, CopiesTypeOK, mapvars, eventvars, remote, Counted
<1>2. /\ m \in Message0 /\ m \in Items(toClient0) /\ toClient0' \in Seq(Message0)
      /\ Items(toClient0') \subseteq Items(toClient0)
  BY <1>1, ItemsTail
<1> HIDE DEF m
<1>3. copy \in [Blocks -> SUBSET Content] /\ \A b \in Blocks : \A c, d \in copy[b] : c = d
  BY DEF CopiesInv, CopiesTypeOK
<1>4. ASSUME NEW b \in Blocks, NEW d \in copy[b]
      PROVE  /\ new(b, d) \in Content /\ new(b, d).bulk = d.bulk
             /\ content[b].node = 0 => new(b, d).node = d.node
             /\ content[b].meta = 0 => new(b, d).meta = d.meta
  <2>1. d \in Content
    BY <1>3
  <2>2. CASE m.type = "ADDNODE"
    <3>1. m.node \in Nat
      BY <1>2, <2>2 DEF Message0
    <3>2. CASE m.block = b
      <4>1. content[b].node # 0
        BY <1>2, <2>2, <3>2 DEF CopiesInv, Clean, NodeClean
      <4>2. new(b, d) = [d EXCEPT !.node = m.node]
        BY <2>2, <3>2
      <4>3. QED
        BY <2>1, <3>1, <4>1, <4>2 DEF Content
    <3>3. CASE m.block # b
      BY <2>1, <2>2, <3>3
    <3>4. QED
      BY <3>2, <3>3
  <2>3. CASE m.type # "ADDNODE"
    <3>1. m.type = "NODEMETA_CHANGED" /\ m.metas \subseteq Blocks \X Nat
      BY <1>2, <2>3 DEF Message0
    <3>2. CASE \E v \in m.metas : v[1] = b
      <4> DEFINE w == CHOOSE v \in m.metas : v[1] = b
      <4>1. w \in m.metas /\ w[1] = b
        BY <3>2
      <4>2. new(b, d) = [d EXCEPT !.meta = w[2]]
        BY <2>3, <3>2
      <4> HIDE DEF w
      <4>3. w[2] \in Nat
        BY <3>1, <4>1
      <4>4. content[b].meta # 0
        BY <1>2, <3>1, <4>1 DEF CopiesInv, Clean, MetaClean
      <4>5. QED
        BY <2>1, <4>2, <4>3, <4>4 DEF Content
    <3>3. CASE ~ \E v \in m.metas : v[1] = b
      BY <2>1, <2>3, <3>3
    <3>4. QED
      BY <3>2, <3>3
  <2>4. QED
    BY <2>2, <2>3
<1> HIDE DEF new
<1>5. ASSUME NEW b \in Blocks, NEW c \in copy'[b]
      PROVE  \E d \in copy[b] : c = new(b, d)
  BY <1>1, <1>5
<1>6. ASSUME NEW b \in Blocks
      PROVE  /\ copy'[b] \subseteq Content /\ \A c, d \in copy'[b] : c = d
             /\ copy[b] # {} => copy'[b] # {}
  <2>1. copy'[b] = {new(b, c) : c \in copy[b]}
    BY <1>1
  <2>2. QED
    BY <1>3, <1>4, <2>1
<1>7. copy' \in [Blocks -> SUBSET Content]
  <2>1. copy' = [b \in Blocks |-> copy'[b]]
    BY <1>1
  <2>2. QED
    BY <1>6, <2>1
<1>8. \A b : /\ InFlight(b)' <=> InFlight(b)
             /\ Deleted(b)' <=> Deleted(b)
             /\ Asked(b)' <=> Asked(b)
  BY <1>1 DEF InFlight, Deleted, Asked
<1>9. CopiesTypeOK'
  BY <1>1, <1>2, <1>6, <1>7 DEF CopiesInv, CopiesTypeOK
<1>10. Clean'
  <2> SUFFICES ASSUME NEW b \in Blocks
               PROVE  /\ content[b].node = 0 => NodeClean(b)'
                      /\ content[b].meta = 0 => MetaClean(b)'
    BY <1>1 DEF Clean
  <2>1. ASSUME content[b].node = 0
        PROVE  NodeClean(b)'
    <3>1. NodeClean(b)
      BY <2>1 DEF CopiesInv, Clean
    <3>2. \A c \in copy'[b] : c.node \in {0, Guess}
      BY <1>4, <1>5, <2>1, <3>1 DEF NodeClean
    <3>3. QED
      BY <1>1, <1>2, <3>1, <3>2 DEF NodeClean
  <2>2. ASSUME content[b].meta = 0
        PROVE  MetaClean(b)'
    <3>1. MetaClean(b)
      BY <2>2 DEF CopiesInv, Clean
    <3>2. \A c \in copy'[b] : c.meta = 0
      BY <1>4, <1>5, <2>2, <3>1 DEF MetaClean
    <3>3. QED
      BY <1>1, <1>2, <3>1, <3>2 DEF MetaClean
  <2>3. QED
    BY <2>1, <2>2
<1>11. BulkKept'
  <2>1. \A b \in Blocks : ~ InFlight(b)' => \A c \in copy'[b] : c.bulk = told[b].bulk
    BY <1>4, <1>5, <1>8 DEF CopiesInv, BulkKept
  <2>2. QED
    BY <1>1, <2>1 DEF CopiesInv, BulkKept
<1>12. Counted \subseteq Blocks
  BY DEF Counted, ContentTypeOK, SetsTypeOK
<1>13. Held'
  BY <1>1, <1>6, <1>8, <1>12 DEF CopiesInv, Held
<1>14. GuessAsked'
  <2> SUFFICES ASSUME NEW b \in Counted, NEW c \in copy'[b], c.node = Guess, content[b].node = 0
               PROVE  InFlight(b) \/ Asked(b) \/ b \in stuck
    BY <1>1, <1>8 DEF GuessAsked
  <2>1. b \in Blocks
    BY <1>12
  <2>2. PICK d \in copy[b] : c = new(b, d)
    BY <1>5, <2>1
  <2>3. d.node = Guess
    BY <1>4, <2>1, <2>2
  <2>4. QED
    BY <2>3 DEF CopiesInv, GuessAsked
<1>15. QED
  BY <1>9, <1>10, <1>11, <1>13, <1>14 DEF CopiesInv

\* A block arrives.
LEMMA Receive2Copies ==
    ASSUME CopiesInv, ContentTypeOK, ClientReceive2
    PROVE  CopiesInv'
<1>0. PICK m : m = Head(toClient2)
  OBVIOUS
<1>1. /\ toClient2 \in Seq(Message2) /\ toClient2 # <<>> /\ toClient2' = Tail(toClient2)
      /\ copy' = [copy EXCEPT ![m.block] = {m.data}]
      /\ UNCHANGED << content, events, toClient0, toServer0, toServer2, stuck, told, Counted >>
  BY <1>0 DEF ClientReceive2, CopiesInv, CopiesTypeOK, mapvars, eventvars, remote, Counted
<1>2. /\ m \in Message2 /\ toClient2' \in Seq(Message2) /\ m \in Items(toClient2)
      /\ Items(toClient2) = Items(toClient2') \cup {m}
  BY <1>0, <1>1, ItemsTail
<1>3. LastIs(toClient2', told') /\ (~ InFlight(m.block)' => m.data.bulk = told[m.block].bulk)
  <2>1. PICK q, f : q = toClient2 /\ f = told
    OBVIOUS
  <2>2. q \in Seq(Message2) /\ q # <<>> /\ LastIs(q, f)
    BY <1>1, <2>1 DEF CopiesInv, BulkKept
  <2>3. /\ LastIs(Tail(q), f)
        /\ (\A n \in Items(Tail(q)) : n.block # Head(q).block)
               => Head(q).data.bulk = f[Head(q).block].bulk
    BY <2>2, LastTail
  <2>4. Tail(q) = toClient2' /\ f = told' /\ Head(q) = m
    BY <1>0, <1>1, <2>1
  <2>5. QED
    BY <2>1, <2>3, <2>4 DEF InFlight
<1>4. m.block \in Blocks /\ m.data \in Content
  BY <1>2 DEF Message2
<1>5. /\ copy \in [Blocks -> SUBSET Content]
      /\ \A b \in Blocks : \A c, d \in copy[b] : c = d
  BY DEF CopiesInv, CopiesTypeOK
<1>6. /\ copy'[m.block] = {m.data} /\ copy' \in [Blocks -> SUBSET Content]
      /\ \A b \in Blocks : b # m.block => copy'[b] = copy[b]
  BY <1>1, <1>4, <1>5
<1>7. \A b \in Blocks : \A c, d \in copy'[b] : c = d
  BY <1>5, <1>6
<1>8. \A b : /\ b # m.block => (InFlight(b)' <=> InFlight(b))
             /\ Deleted(b)' <=> Deleted(b)
             /\ Asked(b)' <=> Asked(b)
  BY <1>1, <1>2 DEF InFlight, Deleted, Asked
<1>9. CopiesTypeOK'
  BY <1>1, <1>2, <1>6, <1>7 DEF CopiesInv, CopiesTypeOK
<1>10. Clean'
  <2> SUFFICES ASSUME NEW b \in Blocks
               PROVE  /\ content[b].node = 0 => NodeClean(b)'
                      /\ content[b].meta = 0 => MetaClean(b)'
    BY <1>1 DEF Clean
  <2>1. ASSUME content[b].node = 0
        PROVE  NodeClean(b)'
    <3>1. NodeClean(b)
      BY <2>1 DEF CopiesInv, Clean
    <3>2. \A c \in copy'[b] : c.node \in {0, Guess}
      BY <1>2, <1>6, <3>1 DEF NodeClean
    <3>3. QED
      BY <1>1, <1>2, <3>1, <3>2 DEF NodeClean
  <2>2. ASSUME content[b].meta = 0
        PROVE  MetaClean(b)'
    <3>1. MetaClean(b)
      BY <2>2 DEF CopiesInv, Clean
    <3>2. \A c \in copy'[b] : c.meta = 0
      BY <1>2, <1>6, <3>1 DEF MetaClean
    <3>3. QED
      BY <1>1, <1>2, <3>1, <3>2 DEF MetaClean
  <2>3. QED
    BY <2>1, <2>2
<1>11. BulkKept'
  <2>1. ASSUME NEW b \in Blocks, ~ InFlight(b)', NEW c \in copy'[b]
        PROVE  c.bulk = told'[b].bulk
    <3>1. CASE b = m.block
      BY <1>1, <1>3, <1>6, <2>1, <3>1
    <3>2. CASE b # m.block
      BY <1>1, <1>6, <1>8, <2>1, <3>2 DEF CopiesInv, BulkKept
    <3>3. QED
      BY <3>1, <3>2
  <2>2. QED
    BY <1>3, <2>1 DEF BulkKept
<1>12. Counted \subseteq Blocks
  BY DEF Counted, ContentTypeOK, SetsTypeOK
<1>13. Held'
  <2> SUFFICES ASSUME NEW b \in Counted
               PROVE  InFlight(b)' \/ copy'[b] # {} \/ Deleted(b)'
    BY <1>1 DEF Held
  <2>1. CASE b = m.block
    BY <1>6, <2>1
  <2>2. CASE b # m.block
    BY <1>6, <1>8, <1>12, <2>2 DEF CopiesInv, Held
  <2>3. QED
    BY <2>1, <2>2
<1>14. GuessAsked'
  <2> SUFFICES ASSUME NEW b \in Counted, NEW c \in copy'[b], c.node = Guess, content[b].node = 0
               PROVE  InFlight(b)' \/ Asked(b)' \/ b \in stuck
    BY <1>1 DEF GuessAsked
  <2>1. CASE b = m.block
    <3>1. m.data.node = 0
      BY <1>2, <1>4, <2>1 DEF CopiesInv, Clean, NodeClean
    <3>2. QED
      BY <1>6, <2>1, <3>1 DEF Guess
  <2>2. CASE b # m.block
    BY <1>6, <1>8, <1>12, <2>2 DEF CopiesInv, GuessAsked
  <2>3. QED
    BY <2>1, <2>2
<1>15. QED
  BY <1>9, <1>10, <1>11, <1>13, <1>14 DEF CopiesInv

-----------------------------------------------------------------------------
\* Every step.
LEMMA CopiesStep ==
    ASSUME "unmeta" \notin EditKinds, CopiesInv, ContentTypeOK, [Next]_vars
    PROVE  CopiesInv'
<1>1. CASE UNCHANGED vars
  <2>1. /\ UNCHANGED << content, events, toClient0, toClient2, toServer0, toServer2, copy, stuck, told >>
        /\ Counted' = Counted
    BY <1>1 DEF vars, mapvars, eventvars, net, client, remote, Counted
  <2>2. QED
    BY <2>1, QuietIfLess, CopiesQuiet
<1>2. CASE \E b \in Blocks, kind \in EditKinds : MapEdit(b, kind)
  BY <1>2, MapEditQuiet, CopiesQuiet
<1>3. CASE \E b \in Blocks : EmergeDone(b) \/ EmergeReport(b)
  BY <1>3, EmergeQuiet, CopiesQuiet
<1>4. CASE (\E b \in Blocks : Reveal(b)) \/ PauseOver \/ CompletionTimeout
  <2>1. /\ UNCHANGED << content, events, toClient0, toClient2, toServer0, toServer2, copy, stuck, told >>
        /\ Counted' = Counted
    BY <1>4 DEF Reveal, PauseOver, CompletionTimeout, mapvars, eventvars, net, client, remote,
                Counted
  <2>2. QED
    BY <2>1, QuietIfLess, CopiesQuiet
<1>5. CASE \E far \in BOOLEAN : FlushEvent(far)
  BY <1>5, FlushEventCopies
<1>6. CASE \E far \in SUBSET node_meta_updates : FlushEnd(far)
  BY <1>6, FlushEndCopies
<1>7. CASE \E turned, building \in BOOLEAN,
              refuse \in {b \in Blocks : Emergeable(b)} \cup {N + 1},
              sent \in IF OthersBusy THEN SUBSET Blocks ELSE {{}} :
               SendBlocks(turned, building, refuse, sent)
  <2>1. PICK turned \in BOOLEAN, building \in BOOLEAN,
             refuse \in {b \in Blocks : Emergeable(b)} \cup {N + 1},
             sent \in IF OthersBusy THEN SUBSET Blocks ELSE {{}} :
               SendBlocks(turned, building, refuse, sent)
    BY <1>7
  <2> DEFINE start == Start(turned)
             range == {b \in Blocks : start <= Dist[b] /\ Dist[b] <= start + 2}
             stops == {b \in range : \/ Full(b, start, building)
                                     \/ Emergeable(b) /\ b >= refuse}
             reached == {b \in range : \A s \in stops : b < s}
             chosen == {b \in reached : Selectable(b)}
             send == IF OthersBusy THEN chosen \cap sent ELSE chosen
  <2>2. send \in SUBSET Blocks
    OBVIOUS
  <2>3. /\ UNCHANGED << content, events, toClient0, toServer0, toServer2, copy, m_blocks_sent >>
        /\ m_blocks_sending' = m_blocks_sending \cup send
        /\ toClient2' = toClient2 \o BlockData(send)
        /\ told' = [b \in Blocks |-> IF b \in send THEN content[b] ELSE told[b]]
        /\ stuck' = stuck \ send
    BY <2>1 DEF SendBlocks, eventvars
  <2> HIDE DEF send
  <2>4. Counted' \subseteq Counted \cup send
    BY <2>3 DEF Counted
  <2>5. QED
    BY <2>2, <2>3, <2>4, CopiesSent
<1>8. CASE \E b \in Blocks : SendBlock(b)
  <2>1. PICK b \in Blocks : SendBlock(b)
    BY <1>8
  <2>2. /\ UNCHANGED << content, events, toClient0, toServer0, toServer2, copy >>
        /\ Counted' = Counted
        /\ toClient2' = toClient2 \o BlockData({b})
        /\ told' = [told EXCEPT ![b] = content[b]]
        /\ stuck' = stuck \ {b}
    BY <2>1 DEF SendBlock, mapvars, eventvars, remote, Counted
  <2>3. told' = [c \in Blocks |-> IF c \in {b} THEN content[c] ELSE told[c]]
    BY <2>2 DEF ContentTypeOK
  <2>4. PICK S \in SUBSET Blocks : S = {b}
    OBVIOUS
  <2>5. QED
    BY <2>2, <2>3, <2>4, CopiesSent
<1>9. CASE \E b \in Blocks : ClientAck(b)
  BY <1>9, AckQuiet, CopiesQuiet
<1>10. CASE \E b \in Blocks : ClientDelete(b)
  BY <1>10, DeleteCopies
<1>11. CASE ClientReceive0
  BY <1>11, Receive0Copies
<1>12. CASE ClientReceive2
  BY <1>12, Receive2Copies
<1>13. CASE \E under, above \in Blocks, at \in 0 .. N, dig \in BOOLEAN :
                Predict(under, above, at, dig)
  BY <1>13, PredictCopies
<1>14. CASE ServerReceive2
  BY <1>14, Receive2Quiet, CopiesQuiet
<1>15. CASE \E verdict \in Verdicts : ServerInteract(verdict)
  BY <1>15, InteractQuiet, CopiesQuiet
<1>16. QED
  BY <1>1, <1>2, <1>3, <1>4, <1>5, <1>6, <1>7, <1>8, <1>9, <1>10, <1>11, <1>12, <1>13, <1>14,
     <1>15 DEF Next

LEMMA CopiesInit ==
    ASSUME Init
    PROVE  CopiesInv
<1>1. /\ content = [b \in Blocks |-> Fresh] /\ told = [b \in Blocks |-> Fresh]
      /\ copy = [b \in Blocks |-> {}] /\ events = <<>>
      /\ toClient0 = <<>> /\ toClient2 = <<>> /\ toServer0 = <<>> /\ toServer2 = <<>>
      /\ Counted = {}
  BY DEF Init, NoBlock, Counted
<1>2. /\ Items(events) = {} /\ Items(toClient0) = {} /\ Items(toClient2) = {}
      /\ Items(toServer0) = {}
  BY <1>1 DEF Items
<1>3. \A b \in Blocks : /\ content[b].node = 0 /\ told[b].node = 0 /\ told[b].meta = 0
                        /\ copy[b] = {}
  BY <1>1 DEF Fresh
<1>4. CopiesTypeOK
  BY <1>1, <1>2, <1>3 DEF CopiesTypeOK
<1>5. Clean
  BY <1>2, <1>3 DEF Clean, NodeClean, MetaClean
<1>6. BulkKept
  BY <1>1, <1>3 DEF BulkKept, LastIs
<1>7. Held /\ GuessAsked
  BY <1>1 DEF Held, GuessAsked
<1>8. QED
  BY <1>4, <1>5, <1>6, <1>7 DEF CopiesInv

LEMMA CopiesUpToDate ==
    ASSUME CopiesInv, AnnouncedInv
    PROVE  BulkUpToDate
<1> SUFFICES ASSUME NEW b \in m_blocks_sent \ stuck, Settled(b), content[b].node = 0, content[b].meta = 0
             PROVE  copy[b] = {content[b]}
  BY DEF BulkUpToDate
<1>1. ContentTypeOK /\ Announced
  BY DEF AnnouncedInv
<1>2. b \in Blocks /\ b \in Counted /\ content[b] \in Content
  BY <1>1 DEF ContentTypeOK, SetsTypeOK, Counted
<1>3. ~ InFlight(b) /\ ~ Deleted(b)
  BY DEF Settled, InFlight, Deleted, Items
<1>4. ~ Asked(b)
  <2> SUFFICES ASSUME NEW i \in DOMAIN toServer0, toServer0[i].at = b
               PROVE  FALSE
    BY DEF Asked, Items
  <2>1. toServer0[i].at # 0
    BY <1>2, BlockSendAssumption DEF Blocks
  <2>2. toServer0[i].at \in Predicted(toServer0[i])
    BY <2>1 DEF CopiesInv, CopiesTypeOK, Items
  <2>3. b \in {toServer0[i].under, toServer0[i].above}
    BY <2>2 DEF Predicted
  <2>4. QED
    BY <2>3 DEF Settled
<1>5. told[b].bulk = content[b].bulk
  BY <1>1, <1>2 DEF Announced, Pending, Settled
<1>6. PICK c \in copy[b] : TRUE
  BY <1>2, <1>3 DEF CopiesInv, Held
<1>7. c \in Content /\ copy[b] = {c}
  BY <1>2, <1>6 DEF CopiesInv, CopiesTypeOK
<1>8. c.bulk = content[b].bulk
  BY <1>2, <1>3, <1>5 DEF CopiesInv, BulkKept
<1>9. c.node = 0 /\ c.meta = 0
  <2>1. c.node \in {0, Guess} /\ c.meta = 0
    BY <1>2 DEF CopiesInv, Clean, NodeClean, MetaClean
  <2>2. c.node # Guess
    BY <1>2, <1>3, <1>4 DEF CopiesInv, GuessAsked
  <2>3. QED
    BY <2>1, <2>2
<1>10. c = content[b]
  BY <1>2, <1>7, <1>8, <1>9 DEF Content
<1>11. QED
  BY <1>7, <1>10

(* Once nothing about a block is under way the client has the server's     *)
(* content of it, if it was only changed in bulk and no refusal has left a *)
(* prediction in it, however often it was sent, dropped, predicted in and  *)
(* sent again: SendBlock, the order of BLOCKDATA on channel 2 and          *)
(* SetBlockNotSent in handleCommand_Interact.                              *)
THEOREM BulkUpToDateHolds ==
    ASSUME "unmeta" \notin EditKinds
    PROVE  Spec => []BulkUpToDate
<1>1. Init => CopiesInv
  BY CopiesInit
<1>2. CopiesInv /\ AnnouncedInv /\ [Next]_vars => CopiesInv'
  BY CopiesStep DEF AnnouncedInv
<1>3. CopiesInv /\ AnnouncedInv => BulkUpToDate
  BY CopiesUpToDate
<1>4. Spec => []AnnouncedInv
  BY AnnouncedInvHolds
<1> QED BY <1>1, <1>2, <1>3, <1>4, PTL DEF Spec

-----------------------------------------------------------------------------
(* Types *)

RemoteTypeOK ==
    /\ m_blocks_sent \in SUBSET Blocks
    /\ m_blocks_sending \in SUBSET Blocks
    /\ m_blocks_modified \in SUBSET Blocks
    /\ pausing \in BOOLEAN

\* SetBlockNotSent and its kind keep to blocks of the map, whatever they are given.
LEMMA RemoteTypes ==
    ASSUME RemoteTypeOK, NEW S, SetNotSent(S) \/ ResendIfOnWire(S) \/ UNCHANGED remote
    PROVE  RemoteTypeOK'
BY DEF RemoteTypeOK, SetNotSent, ResendIfOnWire, remote

\* GOTBLOCKS moves a block from those in flight to those sent.
LEMMA GotBlockTypes ==
    ASSUME RemoteTypeOK, NEW b \in Blocks, GotBlock(b)
    PROVE  RemoteTypeOK'
BY DEF RemoteTypeOK, GotBlock

\* The content of a block with one part changed.
LEMMA ContentIs ==
    ASSUME NEW c \in Content
    PROVE  /\ c.node \in Nat \cup {Guess} /\ c.bulk \in Nat /\ c.meta \in Nat
           /\ c.node + 1 \in Nat
           /\ \A n \in Nat \cup {Guess} : [c EXCEPT !.node = n] \in Content
           /\ \A n \in Nat : /\ [c EXCEPT !.bulk = n] \in Content
                             /\ [c EXCEPT !.meta = n] \in Content
BY DEF Content, Guess

\* A change of the map is a content, and its event an event.
LEMMA EditTypes ==
    ASSUME TypeOK, NEW b \in Blocks, NEW kind \in {"node", "bulk", "meta", "unmeta"}, Edit(b, kind)
    PROVE  /\ content' \in [Blocks -> Content] /\ events' \in Seq(Event)
           /\ times' \in [Happenings -> Nat]
           /\ UNCHANGED << mem, emerging, emerged, hidden, flushing, node_meta_updates >>
<1>1. /\ content \in [Blocks -> Content] /\ events \in Seq(Event)
      /\ times \in [Happenings -> Nat]
  BY DEF TypeOK
<1>2. /\ content' = Changed(b, kind) /\ events' = Append(events, OfKind(b, kind))
      /\ Count("edit")
      /\ UNCHANGED << mem, emerging, emerged, hidden, flushing, node_meta_updates >>
  BY DEF Edit
<1>3. "edit" \in Happenings
  BY DEF Happenings
<1>4. times["edit"] \in Nat /\ times' \in [Happenings -> Nat]
  BY <1>1, <1>2, <1>3, CountType
<1>5. content[b] \in Content
  BY <1>1
<1>6. content[b].node \in Nat \cup {Guess} /\ content[b].bulk \in Nat /\ content[b].meta \in Nat
      /\ content[b].node + 1 \in Nat
  BY <1>5, ContentIs
<1>7. content' \in [Blocks -> Content]
  <2> DEFINE new == [node |-> IF kind = "node" THEN content[b].node + 1 ELSE content[b].node,
                     bulk |-> IF kind = "bulk" THEN content[b].bulk + 1 ELSE content[b].bulk,
                     meta |-> IF kind = "meta" THEN times["edit"] + 1
                              ELSE IF kind = "unmeta" THEN 0 ELSE content[b].meta]
  <2>1. new \in Content
    BY <1>4, <1>6 DEF Content
  <2>2. content' = [content EXCEPT ![b] = new]
    BY <1>2 DEF Changed
  <2> HIDE DEF new
  <2>3. QED
    BY <1>1, <2>1, <2>2
<1>8. OfKind(b, kind) \in Event
  <2>1. (IF kind = "unmeta" THEN "meta" ELSE kind) \in {"node", "bulk", "meta"}
    OBVIOUS
  <2>2. (IF kind = "node" THEN content[b].node + 1 ELSE 0) \in Nat
    BY <1>6
  <2>3. QED
    BY <2>1, <2>2 DEF OfKind, Event
<1>9. events' \in Seq(Event)
  BY <1>1, <1>2, <1>8
<1>10. QED
  BY <1>2, <1>4, <1>7, <1>9

\* A mod, an ABM or another player changes the map.
LEMMA MapEditTypes ==
    ASSUME TypeOK, NEW b \in Blocks, NEW kind \in EditKinds, MapEdit(b, kind)
    PROVE  TypeOK'
<1>1. Edit(b, kind) /\ UNCHANGED << remote, search, client, net, told >>
  BY DEF MapEdit
<1>2. /\ content' \in [Blocks -> Content] /\ events' \in Seq(Event)
      /\ times' \in [Happenings -> Nat]
      /\ UNCHANGED << mem, emerging, emerged, hidden, flushing, node_meta_updates >>
  BY <1>1, EditTypes, BlockSendAssumption
<1>3. QED
  BY <1>1, <1>2 DEF TypeOK, remote, search, client, net

\* A block is loaded or generated.
LEMMA EmergeDoneTypes ==
    ASSUME TypeOK, NEW b \in Blocks, EmergeDone(b)
    PROVE  TypeOK'
<1>1. /\ content \in [Blocks -> Content] /\ mem \in [Blocks -> {"none", "blank", "ready"}]
      /\ emerging \in SUBSET Blocks /\ emerged \in SUBSET Blocks
  BY DEF TypeOK
<1>2. /\ emerging' = emerging \ {b}
      /\ mem' = [mem EXCEPT ![b] =
                    CASE mem[b] = "ready" \/ Dist[b] <= d_max_gen -> "ready"
                      [] mem[b] = "none" -> Stored[b]
                      [] OTHER -> mem[b]]
      /\ content' = content \/ content' = [content EXCEPT ![b].bulk = content[b].bulk + 1]
      /\ emerged' = emerged \/ emerged' = emerged \cup {b}
      /\ UNCHANGED << hidden, remote, search, eventvars, client, net, told, times >>
  BY DEF EmergeDone
<1>3. mem' \in [Blocks -> {"none", "blank", "ready"}]
  BY <1>1, <1>2, BlockSendAssumption
<1>4. content' \in [Blocks -> Content]
  <2>1. PICK c \in Content : c = content[b]
    BY <1>1
  <2>2. c.bulk + 1 \in Nat
    BY ContentIs
  <2>3. [c EXCEPT !.bulk = c.bulk + 1] \in Content
    BY <2>2, ContentIs
  <2>4. content' = content \/ content' = [content EXCEPT ![b] = [c EXCEPT !.bulk = c.bulk + 1]]
    BY <1>1, <1>2, <2>1
  <2>5. QED
    BY <1>1, <2>3, <2>4
<1>5. emerging' \in SUBSET Blocks /\ emerged' \in SUBSET Blocks
  BY <1>1, <1>2
<1>6. QED
  BY <1>2, <1>3, <1>4, <1>5 DEF TypeOK, remote, search, eventvars, client, net

\* What was generated is reported as modified.
LEMMA EmergeReportTypes ==
    ASSUME TypeOK, NEW b \in Blocks, EmergeReport(b)
    PROVE  TypeOK'
<1>1. [kind |-> "bulk", block |-> b, node |-> 0] \in Event
  BY DEF Event
<1>2. /\ emerged' = emerged \ {b}
      /\ events' = Append(events, [kind |-> "bulk", block |-> b, node |-> 0])
      /\ UNCHANGED << content, mem, emerging, hidden, flushing, node_meta_updates, remote,
                      search, client, net, told, times >>
  BY DEF EmergeReport
<1>3. events' \in Seq(Event) /\ emerged' \in SUBSET Blocks
  BY <1>1, <1>2 DEF TypeOK
<1>4. QED
  BY <1>2, <1>3 DEF TypeOK, remote, search, client, net

\* An event is taken, and its block is set not sent or the client told.
LEMMA FlushEventTypes ==
    ASSUME TypeOK, NEW far \in BOOLEAN, FlushEvent(far)
    PROVE  TypeOK'
<1> DEFINE e == Head(events)
           sends == e.kind = "node" /\ SendsNode(e.block, far)
           message == [type |-> "ADDNODE", block |-> e.block, node |-> e.node]
<1>1. /\ events # <<>> /\ flushing' = TRUE /\ events' = Tail(events)
      /\ toClient0' = IF ~sends THEN toClient0 ELSE Append(toClient0, message)
      /\ told' = IF ~sends THEN told ELSE [told EXCEPT ![e.block].node = e.node]
      /\ SetNotSent({e.block}) \/ UNCHANGED remote
      /\ node_meta_updates' = IF e.kind = "meta" THEN node_meta_updates \cup {e.block}
                              ELSE node_meta_updates
      /\ UNCHANGED << mapvars, search, client, toClient2, toServer0, toServer2, times >>
  BY DEF FlushEvent
<1>2. e \in Event /\ events' \in Seq(Event)
  BY <1>1, HeadTailProperties DEF TypeOK
<1> HIDE DEF e
<1>3. e.block \in Blocks /\ e.node \in Nat /\ message \in Message0
  BY <1>2 DEF Event, Message0
<1> HIDE DEF sends, message
<1>4. toClient0' \in Seq(Message0)
  BY <1>1, <1>3 DEF TypeOK
<1>5. told' \in [Blocks -> Content]
  <2>1. told \in [Blocks -> Content]
    BY DEF TypeOK
  <2>2. [told[e.block] EXCEPT !.node = e.node] \in Content
    BY <1>3, <2>1, ContentIs
  <2>3. told' = told \/ told' = [told EXCEPT ![e.block] = [told[e.block] EXCEPT !.node = e.node]]
    BY <1>1, <1>3, <2>1
  <2>4. QED
    BY <1>3, <2>1, <2>2, <2>3
<1>6. RemoteTypeOK'
  BY <1>1, RemoteTypes DEF TypeOK, RemoteTypeOK
<1>7. node_meta_updates' \in SUBSET Blocks /\ flushing' \in BOOLEAN
  BY <1>1, <1>3 DEF TypeOK
<1>8. QED
  BY <1>1, <1>2, <1>4, <1>5, <1>6, <1>7 DEF TypeOK, RemoteTypeOK, mapvars, search, client

\* The metadata gathered is sent, of the blocks that the client has.
LEMMA FlushEndTypes ==
    ASSUME TypeOK, NEW far, FlushEnd(far)
    PROVE  TypeOK'
<1> DEFINE present == {b \in node_meta_updates : content[b].meta # 0}
           unsent == {b \in present : b \notin m_blocks_sent \/ b \in far}
           updates == present \ unsent
           message == [type |-> "NODEMETA_CHANGED",
                       metas |-> {<<b, content[b].meta>> : b \in updates}]
<1>1. /\ flushing' = FALSE /\ node_meta_updates' = {}
      /\ SetNotSent(unsent) \/ UNCHANGED remote
      /\ toClient0' = IF updates = {} THEN toClient0 ELSE Append(toClient0, message)
      /\ told' = [b \in Blocks |-> IF b \in updates
                                   THEN [told[b] EXCEPT !.meta = content[b].meta]
                                   ELSE told[b]]
      /\ UNCHANGED << mapvars, search, events, client, toClient2, toServer0, toServer2, times >>
  BY DEF FlushEnd
<1>2. /\ content \in [Blocks -> Content] /\ told \in [Blocks -> Content]
      /\ \A b \in updates : b \in Blocks
  BY DEF TypeOK
<1>3. \A b \in Blocks : content[b].meta \in Nat
  BY <1>2, ContentIs
<1> HIDE DEF present, unsent, updates
<1>4. message \in Message0
  <2>1. {<<b, content[b].meta>> : b \in updates} \in SUBSET (Blocks \X Nat)
    BY <1>2, <1>3
  <2>2. QED
    BY <2>1 DEF Message0
<1> HIDE DEF message
<1>5. toClient0' \in Seq(Message0)
  BY <1>1, <1>4 DEF TypeOK
<1>6. told' \in [Blocks -> Content]
  <2>1. \A b \in Blocks : [told[b] EXCEPT !.meta = content[b].meta] \in Content
    BY <1>2, <1>3, ContentIs
  <2>2. QED
    BY <1>1, <1>2, <2>1
<1>7. RemoteTypeOK'
  BY <1>1, RemoteTypes DEF TypeOK, RemoteTypeOK
<1>8. QED
  BY <1>1, <1>5, <1>6, <1>7 DEF TypeOK, RemoteTypeOK, mapvars, search, client
\* A search begins at a distance.
LEMMA StartType ==
    ASSUME m_nearest_unsent_d \in Nat, m_blocks_modified \in SUBSET Blocks, NEW turned
    PROVE  Start(turned) \in Nat
<1> DEFINE S == {m_nearest_unsent_d} \cup {Euclid[b] : b \in m_blocks_modified}
<1>1. S \in SUBSET Nat /\ S # {}
  BY BlockSendAssumption
<1>2. Start(turned) = IF turned \/ m_nearest_unsent_d = 0 THEN 0 ELSE Min(S)
  BY DEF Start
<1> HIDE DEF S
<1>3. Min(S) \in Nat
  BY <1>1, LeastOf
<1>4. QED
  BY <1>2, <1>3

\* A search, where the next begins, and the blocks it sends.
LEMMA SendBlocksTypes ==
    ASSUME TypeOK, NEW turned \in BOOLEAN, NEW building \in BOOLEAN, NEW refuse, NEW sent,
           SendBlocks(turned, building, refuse, sent)
    PROVE  TypeOK'
<1> DEFINE start == Start(turned)
           range == {b \in Blocks : start <= Dist[b] /\ Dist[b] <= start + 2}
           stops == {b \in range : \/ Full(b, start, building)
                                   \/ Emergeable(b) /\ b >= refuse}
           reached == {b \in range : \A s \in stops : b < s}
           chosen == {b \in reached : Selectable(b)}
           requested == {b \in reached : Emergeable(b)}
           d == IF stops # {} THEN Dist[Min(stops)] ELSE Min({start + 2, full_d_max}) + 1
           refused_d == IF stops # {} /\ ~Full(Min(stops), start, building) THEN {d} ELSE {}
           nearest == Nearest(requested, refused_d, chosen, d)
           culled == {b \in reached \cap hidden : Lacking(b)}
           send == IF OthersBusy THEN chosen \cap sent ELSE chosen
           dropped == IF requested \cup refused_d = {} THEN {} ELSE chosen \ send
<1>1. /\ IF turned THEN Count("turn") ELSE UNCHANGED times
      /\ m_nearest_unsent_d' = nearest
      /\ m_blocks_occ' = Culled(nearest, start, culled)
      /\ passed' = {b \in passed : Dist[b] < start} \cup Left(start, reached, dropped)
      /\ pausing' = (requested = {} /\ refused_d = {} /\ d > full_d_max)
      /\ m_blocks_modified' = {}
      /\ emerging' = emerging \cup requested
      /\ m_blocks_sending' = m_blocks_sending \cup send
      /\ toClient2' = toClient2 \o BlockData(send)
      /\ told' = [b \in Blocks |-> IF b \in send THEN content[b] ELSE told[b]]
      /\ stuck' = stuck \ send
      /\ UNCHANGED << content, mem, emerged, hidden, m_blocks_sent, eventvars, copy,
                      unacked, toClient0, toServer0, toServer2 >>
  BY Zenon DEF SendBlocks
<1>2. start \in Nat
  BY StartType DEF TypeOK
<1>3. /\ stops \in SUBSET Blocks /\ chosen \in SUBSET Blocks /\ requested \in SUBSET Blocks
      /\ culled \in SUBSET Blocks /\ send \in SUBSET Blocks
      /\ reached \in SUBSET Blocks /\ dropped \in SUBSET Blocks
  OBVIOUS
<1>4. /\ d = IF stops # {} THEN Dist[Min(stops)] ELSE Min({start + 2, full_d_max}) + 1
      /\ refused_d = {} \/ refused_d = {d}
      /\ nearest = Nearest(requested, refused_d, chosen, d)
  OBVIOUS
<1> HIDE DEF start, range, stops, reached, chosen, requested, d, refused_d, nearest, culled, send,
         dropped
<1>5. d \in Nat
  <2>1. CASE stops # {}
    <3>1. stops \in SUBSET Nat
      BY <1>3, BlocksFinite
    <3>2. Min(stops) \in Blocks
      BY <1>3, <2>1, <3>1, LeastOf
    <3>3. QED
      BY <1>4, <2>1, <3>2, BlockSendAssumption
  <2>2. CASE stops = {}
    <3>1. {start + 2, full_d_max} \in SUBSET Nat /\ {start + 2, full_d_max} # {}
      BY <1>2, BlockSendAssumption
    <3>2. Min({start + 2, full_d_max}) \in Nat
      BY <3>1, LeastOf
    <3>3. QED
      BY <1>4, <2>2, <3>2
  <2>3. QED
    BY <2>1, <2>2
<1>6. m_nearest_unsent_d' \in Nat
  BY <1>1, <1>3, <1>4, <1>5, NearestIs
<1>7. m_blocks_occ' \in SUBSET Blocks
  BY <1>1, <1>3 DEF TypeOK, Culled
<1>8. times' \in [Happenings -> Nat]
  <2>1. "turn" \in Happenings
    BY DEF Happenings
  <2>2. QED
    BY <1>1, <2>1, CountType DEF TypeOK
<1>9. toClient2' \in Seq(Message2)
  <2>1. BlockData(send) \in Seq(Message2)
    BY <1>3, BlockDataIs DEF TypeOK
  <2>2. QED
    BY <1>1, <2>1, ItemsConcat DEF TypeOK
<1>10. told' \in [Blocks -> Content]
  BY <1>1 DEF TypeOK
<1>11. /\ emerging' \in SUBSET Blocks /\ m_blocks_sending' \in SUBSET Blocks
       /\ m_blocks_modified' \in SUBSET Blocks /\ pausing' \in BOOLEAN
       /\ passed' \in SUBSET Blocks /\ stuck' \in SUBSET Blocks
  BY <1>1, <1>3 DEF TypeOK, Left
<1>12. QED
  BY <1>1, <1>6, <1>7, <1>8, <1>9, <1>10, <1>11 DEF TypeOK, eventvars

\* A script sends a block.
LEMMA SendBlockTypes ==
    ASSUME TypeOK, NEW b \in Blocks, SendBlock(b)
    PROVE  TypeOK'
<1>1. /\ Count("script")
      /\ toClient2' = toClient2 \o BlockData({b})
      /\ told' = [told EXCEPT ![b] = content[b]]
      /\ stuck' = stuck \ {b}
      /\ UNCHANGED << mapvars, remote, search, eventvars, copy, unacked, toClient0,
                      toServer0, toServer2 >>
  BY DEF SendBlock
<1>2. times' \in [Happenings -> Nat]
  <2>1. "script" \in Happenings
    BY DEF Happenings
  <2>2. QED
    BY <1>1, <2>1, CountType DEF TypeOK
<1>3. toClient2' \in Seq(Message2)
  <2>1. PICK S \in SUBSET Blocks : S = {b}
    OBVIOUS
  <2>2. BlockData(S) \in Seq(Message2)
    BY BlockDataIs DEF TypeOK
  <2>3. QED
    BY <1>1, <2>1, <2>2, ItemsConcat DEF TypeOK
<1>4. told' \in [Blocks -> Content]
  BY <1>1 DEF TypeOK
<1>5. QED
  BY <1>1, <1>2, <1>3, <1>4 DEF TypeOK, mapvars, remote, search, eventvars

\* The two timers of the search, and what comes to light.
LEMMA TimersTypes ==
    ASSUME TypeOK, PauseOver \/ CompletionTimeout \/ \E b \in Blocks : Reveal(b)
    PROVE  TypeOK'
<1>1. CASE PauseOver
  BY <1>1 DEF PauseOver, TypeOK, mapvars, search, eventvars, client, net
<1>2. CASE CompletionTimeout
  <2>1. "timeout" \in Happenings
    BY DEF Happenings
  <2>2. times' \in [Happenings -> Nat]
    BY <1>2, <2>1, CountType DEF TypeOK, CompletionTimeout
  <2>3. QED
    BY <1>2, <2>2 DEF CompletionTimeout, TypeOK, mapvars, remote, eventvars, client, net
<1>3. CASE \E b \in Blocks : Reveal(b)
  <2>1. PICK b \in Blocks : Reveal(b)
    BY <1>3
  <2>2. "reveal" \in Happenings
    BY DEF Happenings
  <2>3. times' \in [Happenings -> Nat]
    BY <2>1, <2>2, CountType DEF TypeOK, Reveal
  <2>4. QED
    BY <2>1, <2>3 DEF Reveal, TypeOK, remote, search, eventvars, client, net
<1>4. QED
  BY <1>1, <1>2, <1>3


\* A message about a node or metadata changes a block the client has, if it does.
LEMMA Receive0Types ==
    ASSUME TypeOK, ClientReceive0
    PROVE  TypeOK'
<1> DEFINE m == Head(toClient0)
           new(b, c) ==
               IF m.type = "ADDNODE"
               THEN IF m.block = b THEN [c EXCEPT !.node = m.node] ELSE c
               ELSE IF \E v \in m.metas : v[1] = b
                    THEN [c EXCEPT !.meta = (CHOOSE v \in m.metas : v[1] = b)[2]]
                    ELSE c
<1>1. /\ toClient0 # <<>> /\ toClient0' = Tail(toClient0)
      /\ copy' = [b \in Blocks |-> {new(b, c) : c \in copy[b]}]
      /\ UNCHANGED << mapvars, remote, search, eventvars, unacked, stuck, toClient2,
                      toServer0, toServer2, told, times >>
  BY DEF ClientReceive0
<1>2. m \in Message0 /\ toClient0' \in Seq(Message0)
  BY <1>1, ItemsTail DEF TypeOK
<1> HIDE DEF m
<1>3. copy \in [Blocks -> SUBSET Content] /\ \A b \in Blocks : \A c, d \in copy[b] : c = d
  BY DEF TypeOK
<1>4. ASSUME NEW b \in Blocks, NEW c \in copy[b]
      PROVE  new(b, c) \in Content
  <2>1. c \in Content
    BY <1>3
  <2>2. CASE m.type = "ADDNODE"
    <3>1. m.node \in Nat
      BY <1>2, <2>2 DEF Message0
    <3>2. [c EXCEPT !.node = m.node] \in Content
      BY <2>1, <3>1, ContentIs
    <3>3. QED
      BY <2>1, <2>2, <3>2
  <2>3. CASE m.type # "ADDNODE" /\ \E v \in m.metas : v[1] = b
    <3>1. m.metas \in SUBSET (Blocks \X Nat)
      BY <1>2, <2>3 DEF Message0
    <3>2. PICK v : v = CHOOSE w \in m.metas : w[1] = b
      OBVIOUS
    <3>3. v[2] \in Nat
      BY <2>3, <3>1, <3>2
    <3>4. [c EXCEPT !.meta = v[2]] \in Content
      BY <2>1, <3>3, ContentIs
    <3>5. QED
      BY <2>3, <3>2, <3>4
  <2>4. CASE m.type # "ADDNODE" /\ ~ \E v \in m.metas : v[1] = b
    BY <2>1, <2>4
  <2>5. QED
    BY <2>2, <2>3, <2>4
<1> HIDE DEF new
<1>5. /\ copy' \in [Blocks -> SUBSET Content]
      /\ \A b \in Blocks : \A c, d \in copy'[b] : c = d
  <2>1. \A b \in Blocks : copy'[b] = {new(b, c) : c \in copy[b]}
    BY <1>1
  <2>2. \A b \in Blocks : copy'[b] \in SUBSET Content
    BY <1>4, <2>1
  <2>3. QED
    BY <1>1, <1>3, <2>1, <2>2
<1>6. QED
  BY <1>1, <1>2, <1>5 DEF TypeOK, mapvars, remote, search, eventvars

\* A block arrives, in the place of one the client has.
LEMMA Receive2Types ==
    ASSUME TypeOK, ClientReceive2
    PROVE  TypeOK'
<1>1. PICK m : m = Head(toClient2)
  OBVIOUS
<1>2. /\ toClient2 # <<>> /\ toClient2' = Tail(toClient2)
      /\ copy' = [copy EXCEPT ![m.block] = {m.data}]
      /\ unacked' = [unacked EXCEPT ![m.block] = unacked[m.block] + 1]
      /\ UNCHANGED << mapvars, remote, search, eventvars, stuck, toClient0, toServer0,
                      toServer2, told, times >>
  BY <1>1 DEF ClientReceive2
<1>3. m \in Message2 /\ toClient2' \in Seq(Message2)
  BY <1>1, <1>2, ItemsTail DEF TypeOK
<1>4. m.block \in Blocks /\ m.data \in Content
  BY <1>3 DEF Message2
<1>5. unacked' \in [Blocks -> Nat]
  BY <1>2, <1>4 DEF TypeOK
<1>6. /\ copy' \in [Blocks -> SUBSET Content]
      /\ \A b \in Blocks : \A c, d \in copy'[b] : c = d
  BY <1>2, <1>4 DEF TypeOK
<1>7. QED
  BY <1>2, <1>3, <1>5, <1>6 DEF TypeOK, mapvars, remote, search, eventvars

\* What the client reports: a block it has meshed, and one it has dropped.
LEMMA ReportTypes ==
    ASSUME TypeOK, NEW b \in Blocks, ClientAck(b) \/ ClientDelete(b)
    PROVE  TypeOK'
<1>1. CASE ClientAck(b)
  <2>1. /\ unacked[b] > 0 /\ unacked' = [unacked EXCEPT ![b] = unacked[b] - 1]
        /\ toServer2' = Append(toServer2, [type |-> "GOTBLOCKS", block |-> b])
        /\ UNCHANGED << mapvars, remote, search, eventvars, copy, stuck, toClient0,
                        toClient2, toServer0, told, times >>
    BY <1>1 DEF ClientAck
  <2>2. [type |-> "GOTBLOCKS", block |-> b] \in Reply
    BY DEF Reply
  <2>3. toServer2' \in Seq(Reply) /\ unacked' \in [Blocks -> Nat]
    BY <2>1, <2>2 DEF TypeOK
  <2>4. QED
    BY <2>1, <2>3 DEF TypeOK, mapvars, remote, search, eventvars
<1>2. CASE ClientDelete(b)
  <2>1. /\ Count("delete") /\ copy' = [copy EXCEPT ![b] = {}]
        /\ toServer2' = Append(toServer2, [type |-> "DELETEDBLOCKS", block |-> b])
        /\ UNCHANGED << mapvars, remote, search, eventvars, unacked, stuck, toClient0,
                        toClient2, toServer0, told >>
    BY <1>2 DEF ClientDelete, NoBlock
  <2>2. [type |-> "DELETEDBLOCKS", block |-> b] \in Reply /\ "delete" \in Happenings
    BY DEF Reply, Happenings
  <2>3. toServer2' \in Seq(Reply) /\ times' \in [Happenings -> Nat]
    BY <2>1, <2>2, CountType DEF TypeOK
  <2>4. /\ copy' \in [Blocks -> SUBSET Content]
        /\ \A e \in Blocks : \A c, d \in copy'[e] : c = d
    BY <2>1 DEF TypeOK
  <2>5. QED
    BY <2>1, <2>3, <2>4 DEF TypeOK, mapvars, remote, search, eventvars
<1>3. QED
  BY <1>1, <1>2

\* The client predicts a node in a block, and tells the server.
LEMMA PredictTypes ==
    ASSUME TypeOK, NEW under \in Blocks, NEW above \in Blocks, NEW at \in 0 .. N,
           NEW dig \in BOOLEAN, Predict(under, above, at, dig)
    PROVE  TypeOK'
<1> DEFINE m == [under |-> under, above |-> above, at |-> at, dig |-> dig]
<1>1. /\ Count("predict")
      /\ copy' = [b \in Blocks |-> IF b = at THEN {[c EXCEPT !.node = Guess] : c \in copy[b]}
                                             ELSE copy[b]]
      /\ toServer0' = Append(toServer0, m)
      /\ UNCHANGED << mapvars, remote, search, eventvars, unacked, stuck, toClient0,
                      toClient2, toServer2, told >>
  BY DEF Predict
<1>2. m \in Interact /\ "predict" \in Happenings
  BY DEF Interact, Happenings, Blocks
<1> HIDE DEF m
<1>3. toServer0' \in Seq(Interact) /\ times' \in [Happenings -> Nat]
  BY <1>1, <1>2, CountType DEF TypeOK
<1>4. /\ copy' \in [Blocks -> SUBSET Content]
      /\ \A b \in Blocks : \A c, d \in copy'[b] : c = d
  <2>1. copy \in [Blocks -> SUBSET Content] /\ \A b \in Blocks : \A c, d \in copy[b] : c = d
    BY DEF TypeOK
  <2>2. \A c \in Content : [c EXCEPT !.node = Guess] \in Content
    BY ContentIs
  <2>3. QED
    BY <1>1, <2>1, <2>2
<1>5. QED
  BY <1>1, <1>3, <1>4 DEF TypeOK, mapvars, remote, search, eventvars

\* What the client reports is noted, and its own changes are made.
LEMMA ServerTypes ==
    ASSUME TypeOK, ServerReceive2 \/ \E verdict \in Verdicts : ServerInteract(verdict)
    PROVE  TypeOK'
<1>1. CASE ServerReceive2
  <2>1. PICK m : m = Head(toServer2)
    OBVIOUS
  <2>2. /\ toServer2 # <<>> /\ toServer2' = Tail(toServer2)
        /\ GotBlock(m.block) \/ SetNotSent({m.block})
        /\ UNCHANGED << mapvars, search, eventvars, client, toClient0, toClient2, toServer0,
                        told, times >>
    BY <1>1, <2>1 DEF ServerReceive2
  <2>3. m \in Reply /\ toServer2' \in Seq(Reply)
    BY <2>1, <2>2, ItemsTail DEF TypeOK
  <2>4. m.block \in Blocks
    BY <2>3 DEF Reply
  <2>5. RemoteTypeOK'
    BY <2>2, <2>4, RemoteTypes, GotBlockTypes DEF TypeOK, RemoteTypeOK
  <2>6. QED
    BY <2>2, <2>3, <2>5 DEF TypeOK, RemoteTypeOK, mapvars, search, eventvars, client
<1>2. ASSUME NEW verdict \in Verdicts, ServerInteract(verdict)
      PROVE  TypeOK'
  <2>1. PICK m : m = Head(toServer0)
    OBVIOUS
  <2>2. /\ toServer0 # <<>> /\ toServer0' = Tail(toServer0)
        /\ Edit(Target(m), "node") \/ UNCHANGED << mapvars, eventvars, times >>
        /\ \E S : SetNotSent(S) \/ ResendIfOnWire(S)
        /\ stuck' = stuck \/ (m.at # 0 /\ stuck' \subseteq stuck \cup {m.at})
        /\ UNCHANGED << search, copy, unacked, toClient0, toClient2, toServer2, told >>
    BY <1>2, <2>1 DEF ServerInteract
  <2>3. m \in Interact /\ toServer0' \in Seq(Interact)
    BY <2>1, <2>2, InteractTaken DEF TypeOK
  <2>4. Target(m) \in Blocks
    BY <2>3 DEF Interact, Target
  <2>5. RemoteTypeOK' /\ stuck' \in SUBSET Blocks
    <3>1. m.at # 0 => m.at \in Blocks
      BY <2>3 DEF Interact
    <3>2. stuck' \in SUBSET Blocks
      BY <2>2, <3>1 DEF TypeOK
    <3>3. QED
      BY <2>2, <3>2, RemoteTypes DEF TypeOK, RemoteTypeOK
  <2>6. CASE Edit(Target(m), "node")
    <3>1. /\ content' \in [Blocks -> Content] /\ events' \in Seq(Event)
          /\ times' \in [Happenings -> Nat]
          /\ UNCHANGED << mem, emerging, emerged, hidden, flushing, node_meta_updates >>
      BY <2>4, <2>6, EditTypes
    <3>2. QED
      BY <2>2, <2>3, <2>5, <3>1 DEF TypeOK, RemoteTypeOK, search
  <2>7. CASE UNCHANGED << mapvars, eventvars, times >>
    BY <2>2, <2>3, <2>5, <2>7 DEF TypeOK, RemoteTypeOK, mapvars, search, eventvars
  <2>8. QED
    BY <2>2, <2>6, <2>7
<1>3. QED
  BY <1>1, <1>2

\* A client that knows no block.
LEMMA TypesAtFirst == Init => TypeOK
<1> SUFFICES ASSUME Init PROVE TypeOK
  OBVIOUS
<1>1. Fresh \in Content /\ NoBlock \in SUBSET Content /\ \A c, d \in NoBlock : c = d
  BY DEF Fresh, Content, NoBlock
<1>2. /\ content \in [Blocks -> Content] /\ told \in [Blocks -> Content]
      /\ copy \in [Blocks -> SUBSET Content]
      /\ \A b \in Blocks : \A c, d \in copy[b] : c = d
  BY <1>1 DEF Init
<1>3. mem \in [Blocks -> {"none", "blank", "ready"}] /\ hidden \in SUBSET Blocks
  BY BlockSendAssumption DEF Init
<1>4. unacked \in [Blocks -> Nat] /\ times \in [Happenings -> Nat]
  BY DEF Init
<1>5. /\ events \in Seq(Event) /\ toClient0 \in Seq(Message0) /\ toClient2 \in Seq(Message2)
      /\ toServer0 \in Seq(Interact) /\ toServer2 \in Seq(Reply)
  BY DEF Init
<1>6. QED
  BY <1>2, <1>3, <1>4, <1>5 DEF Init, TypeOK

(* Every variable keeps its type, for any number of blocks and whatever    *)
(* the client and the map do: the search begins at a distance and knows    *)
(* blocks of the map only, messages are about blocks, and the client has   *)
(* a block once or not at all.                                             *)
THEOREM BlockSendTypeCorrect == Spec => []TypeOK
<1>1. TypeOK /\ [Next]_vars => TypeOK'
  <2> SUFFICES ASSUME TypeOK, [Next]_vars PROVE TypeOK'
    OBVIOUS
  <2>1. CASE UNCHANGED vars
    BY <2>1 DEF TypeOK, vars, mapvars, remote, search, eventvars, client, net
  <2>2. CASE \E b \in Blocks, kind \in EditKinds : MapEdit(b, kind)
    BY <2>2, MapEditTypes
  <2>3. CASE \E b \in Blocks : EmergeDone(b) \/ EmergeReport(b)
    BY <2>3, EmergeDoneTypes, EmergeReportTypes
  <2>4. CASE PauseOver \/ CompletionTimeout \/ \E b \in Blocks : Reveal(b)
    BY <2>4, TimersTypes
  <2>5. CASE \E far \in BOOLEAN : FlushEvent(far)
    BY <2>5, FlushEventTypes
  <2>6. CASE \E far \in SUBSET node_meta_updates : FlushEnd(far)
    BY <2>6, FlushEndTypes
  <2>7. CASE \E turned, building \in BOOLEAN,
                refuse \in {b \in Blocks : Emergeable(b)} \cup {N + 1},
                sent \in IF OthersBusy THEN SUBSET Blocks ELSE {{}} :
                 SendBlocks(turned, building, refuse, sent)
    BY <2>7, SendBlocksTypes
  <2>8. CASE \E b \in Blocks : SendBlock(b) \/ ClientAck(b) \/ ClientDelete(b)
    BY <2>8, SendBlockTypes, ReportTypes
  <2>9. CASE ClientReceive0 \/ ClientReceive2
    BY <2>9, Receive0Types, Receive2Types
  <2>10. CASE \E under, above \in Blocks, at \in 0 .. N, dig \in BOOLEAN :
                 Predict(under, above, at, dig)
    BY <2>10, PredictTypes
  <2>11. CASE ServerReceive2 \/ \E verdict \in Verdicts : ServerInteract(verdict)
    BY <2>11, ServerTypes
  <2>12. QED
    BY <2>1, <2>2, <2>3, <2>4, <2>5, <2>6, <2>7, <2>8, <2>9, <2>10, <2>11 DEF Next
<1>2. QED
  BY <1>1, TypesAtFirst, PTL DEF Spec
=============================================================================
