----------------------------- MODULE PeerEvents -----------------------------
(***************************************************************************)
(* What a serving Connection promises the thread that calls                *)
(* ReceiveTimeoutMs (impl.cpp:1450): every peer is announced by one event  *)
(* and taken leave of by at most one, and what it sent while it was there  *)
(* comes in between, but for the one packet the receive thread had in hand *)
(* when the send thread removed the peer: that one follows the farewell.   *)
(***************************************************************************)
EXTENDS Naturals, Sequences

CONSTANTS Ids,      \* peer ids, each given away once
          Msgs      \* what a peer may send

VARIABLES link,            \* "none", "up" or "gone", for every id
          hand,            \* the packet in the receive thread's hands: <<>> or one
          m_event_queue    \* Connection::m_event_queue

pvars == << link, hand, m_event_queue >>

PeerEvent == [type : {"added", "removed"}, id : Ids]
DataEvent == [type : {"data"}, id : Ids, msg : Msgs]

PInit ==
    /\ link = [id \in Ids |-> "none"]
    /\ hand = <<>>
    /\ m_event_queue = <<>>

Put(e) == m_event_queue' = Append(m_event_queue, e)

Arrives(id) ==
    /\ link[id] = "none"
    /\ link' = [link EXCEPT ![id] = "up"]
    /\ Put([type |-> "added", id |-> id])
    /\ UNCHANGED hand

Grab(id, m) ==
    /\ link[id] = "up"
    /\ hand = <<>>
    /\ hand' = << [type |-> "data", id |-> id, msg |-> m] >>
    /\ UNCHANGED << link, m_event_queue >>

Hand ==
    /\ hand # <<>>
    /\ Put(hand[1])
    /\ hand' = <<>>
    /\ UNCHANGED link

Leaves(id) ==
    /\ link[id] = "up"
    /\ link' = [link EXCEPT ![id] = "gone"]
    /\ Put([type |-> "removed", id |-> id])
    /\ UNCHANGED hand

Pop ==
    /\ m_event_queue # <<>>
    /\ m_event_queue' = Tail(m_event_queue)
    /\ UNCHANGED << link, hand >>

\* The Connection is destroyed: whoever is left goes without an event.
Close ==
    /\ hand = <<>>
    /\ link' = [id \in Ids |-> IF link[id] = "up" THEN "gone" ELSE link[id]]
    /\ UNCHANGED << hand, m_event_queue >>

PNext ==
    \/ \E id \in Ids : Arrives(id) \/ Leaves(id) \/ \E m \in Msgs : Grab(id, m)
    \/ Hand \/ Pop \/ Close

PSpec == PInit /\ [][PNext]_pvars
=============================================================================
