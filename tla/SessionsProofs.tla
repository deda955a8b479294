---------------------------- MODULE SessionsProofs ----------------------------
(***************************************************************************)
(* Theorems about Sessions, for any number of peers, names and users.      *)
(*                                                                         *)
(* What a packet does to a client is a step of notifyEvent, or the choice  *)
(* or the end of a mechanism (Served); the invariants about clients and    *)
(* players are proved for these.  That a client is there as long as its    *)
(* peer needs the order of the events that wait (QueueOK).                 *)
(***************************************************************************)
EXTENDS Sessions, FiniteSetTheorems, WellFoundedInduction, SequenceTheorems,
        TLAPS

\* Past the login, in play, and where a client may have a player.
Past == {"AwaitingInit2", "InitDone", "DefinitionsSent", "Active", "SudoMode"}
InPlay == {"Active", "SudoMode"}
MayPlay == {"Active", "SudoMode", "Denied"}

(* A mechanism is chosen exactly while there is a verifier; it takes an    *)
(* account to choose one, or one that is still to be made, and all         *)
(* transitions past the login but the one to the game and from it leave    *)
(* the mechanism behind.                                                   *)
ClientOK(c, known) ==
    /\ c.chosen_mech # "none" <=> c.auth_data
    /\ c.chosen_mech # "none" =>
          c.allowed = "srp" /\ c.state \notin (Past \ {"Active"}) \cup {"Created"}
    /\ c.create_player_on_auth_success => c.allowed = "srp"
    /\ c.state = "Created" => c.allowed = "none"
    /\ \/ c.allowed = "srp" /\ ~ c.create_player_on_auth_success
       \/ c.state \in Past
       => c.name \in known
    /\ c.allowed # "none" => c.name \in Names

ClientsOK == \A id \in DOMAIN clients : ClientOK(clients[id], auth)

\* The events about a peer: each once, in order, and none before its time.
QueueOK ==
    /\ \A i \in DOMAIN m_event_queue : LET e == m_event_queue[i] IN
          /\ e.type = "added" => link[e.id] # "none"
          /\ e.type = "removed" => link[e.id] = "gone"
    /\ \A i, j \in DOMAIN m_event_queue :
          LET e == m_event_queue[i]
              f == m_event_queue[j]
          IN e.id = f.id =>
                /\ e.type = f.type /\ e.type # "data" => i = j
                /\ e.type = "added" /\ f.type = "removed" => i < j
    /\ \A id \in Ids :
          link[id] = "gone" /\ Queued("added", id) => Queued("removed", id)

IInv == TypeOK /\ QueueOK /\ ClientPerPeer /\ ClientsOK /\ OnePlayerPerClient
-----------------------------------------------------------------------------
(* The states and their transitions. *)

LEMMA StateSet ==
    Range(States) = {"Disconnecting", "Denied", "Created", "HelloSent",
                     "AwaitingInit2", "InitDone", "DefinitionsSent", "Active",
                     "SudoMode"}
<1>1. DOMAIN States = 1 .. 9
  BY DEF States
<1>2. 1 .. 9 = {1, 2, 3, 4, 5, 6, 7, 8, 9}
  OBVIOUS
<1>3. Range(States) = {States[i] : i \in {1, 2, 3, 4, 5, 6, 7, 8, 9}}
  BY <1>1, <1>2 DEF Range
<1>4. Range(States) = {States[1], States[2], States[3], States[4], States[5],
                       States[6], States[7], States[8], States[9]}
  BY <1>3
<1>5. QED
  BY <1>4 DEF States

LEMMA Ranks ==
    /\ Rank("Disconnecting") = 1 /\ Rank("Denied") = 2 /\ Rank("Created") = 3
    /\ Rank("HelloSent") = 4 /\ Rank("AwaitingInit2") = 5
    /\ Rank("InitDone") = 6 /\ Rank("DefinitionsSent") = 7
    /\ Rank("Active") = 8 /\ Rank("SudoMode") = 9
<1>1. DOMAIN States = 1 .. 9
  BY DEF States
<1>2. \A i, j \in 1 .. 9 : States[i] = States[j] => i = j
  BY DEF States
<1>3. \A i \in 1 .. 9 : Rank(States[i]) = i
  BY <1>1, <1>2 DEF Rank
<1>4. QED
  BY <1>3 DEF States

LEMMA PastRank ==
    ASSUME NEW s \in Range(States)
    PROVE  /\ Rank(s) >= Rank("AwaitingInit2") <=> s \in Past
           /\ Rank(s) >= Rank("InitDone") <=> s \in Past \ {"AwaitingInit2"}
BY StateSet, Ranks DEF Past

\* What an event leaves of a client: the same, or its next state.
LEMMA NotifiedCases ==
    ASSUME NEW c, NEW e, ~ Throws(c, e), ~ Absorbing(c)
    PROVE  \E t \in Forward :
              /\ t[1] = c.state /\ t[2] = e
              /\ Notified(c, e) = IF e \in {"AuthAccept", "SudoSuccess"}
                                  THEN Reset([c EXCEPT !.state = t[3]])
                                  ELSE [c EXCEPT !.state = t[3]]
<1>1. \E t \in Forward : t[1] = c.state /\ t[2] = e
  BY DEF Throws
<1>2. QED
  BY <1>1 DEF Notified

\* What handling a packet may do to a client that has d afterwards.
Step(c, d) ==
    /\ d.name = c.name \/ c.state = "Created"
    /\ c.state \in MayPlay => d.state \in MayPlay
    /\ d.state \in InPlay => c.state \in InPlay

LEMMA NotifiedGood ==
    ASSUME NEW c \in Client, NEW known, ClientOK(c, known), NEW e, ~ Throws(c, e),
           e = "AuthAccept" => c.name \in known
    PROVE  LET d == Notified(c, e) IN
           /\ d \in Client /\ ClientOK(d, known)
           /\ d.name = c.name /\ d.allowed = c.allowed
           /\ d.create_player_on_auth_success = c.create_player_on_auth_success
           /\ e # "SetClientReady" => Step(c, d)
           /\ e = "AuthAccept" /\ c.state = "HelloSent" => d.chosen_mech = "none"
<1> DEFINE d == Notified(c, e)
<1>1. CASE Absorbing(c)
  BY <1>1 DEF Notified, Step, Absorbing, InPlay, MayPlay
<1>2. CASE ~ Absorbing(c)
  <2>1. PICK t \in Forward :
           /\ t[1] = c.state /\ t[2] = e
           /\ d = IF e \in {"AuthAccept", "SudoSuccess"}
                  THEN Reset([c EXCEPT !.state = t[3]])
                  ELSE [c EXCEPT !.state = t[3]]
    BY <1>2, NotifiedCases
  <2>2. t[3] \in Range(States)
    BY StateSet DEF Forward
  <2>3. /\ d \in Client /\ d.state = t[3]
        /\ d.name = c.name /\ d.allowed = c.allowed
        /\ d.create_player_on_auth_success = c.create_player_on_auth_success
        /\ IF e \in {"AuthAccept", "SudoSuccess"}
           THEN d.chosen_mech = "none" /\ d.auth_data = FALSE
           ELSE d.chosen_mech = c.chosen_mech /\ d.auth_data = c.auth_data
    BY <2>1, <2>2 DEF Client, Reset
  <2>4. ClientOK(d, known)
    BY <2>1, <2>3 DEF ClientOK, Forward, Past
  <2>5. e # "SetClientReady" => Step(c, d)
    BY <2>1, <2>3 DEF Step, Forward, InPlay, MayPlay
  <2>6. QED
    BY <2>1, <2>3, <2>4, <2>5
<1>3. QED
  BY <1>1, <1>2

LEMMA DeniedGood ==
    ASSUME NEW c \in Client, NEW known, ClientOK(c, known)
    PROVE  LET d == Denied(c) IN
           /\ d \in Client /\ ClientOK(d, known) /\ Step(c, d)
           /\ d.name = c.name /\ d.allowed = c.allowed
           /\ d.create_player_on_auth_success = c.create_player_on_auth_success
           /\ ~ Absorbing(c) => d.state = "Denied"
<1> DEFINE d == Denied(c)
<1>1. "Denied" \in Range(States)
  BY StateSet
<1>2. CASE Absorbing(c)
  BY <1>2 DEF Denied, Step, Absorbing, InPlay, MayPlay
<1>3. CASE ~ Absorbing(c)
  <2>1. /\ d \in Client /\ d.state = "Denied"
        /\ d.name = c.name /\ d.allowed = c.allowed
        /\ d.create_player_on_auth_success = c.create_player_on_auth_success
        /\ \/ d.chosen_mech = "none" /\ d.auth_data = FALSE
           \/ d.chosen_mech = c.chosen_mech /\ d.auth_data = c.auth_data
    BY <1>1, <1>3 DEF Denied, Client, Reset
  <2>2. QED
    BY <2>1 DEF ClientOK, Step, InPlay, MayPlay, Past
<1>4. QED
  BY <1>2, <1>3
-----------------------------------------------------------------------------
(* Sequences of events and of players. *)

LEMMA TailFacts ==
    ASSUME NEW S, NEW q \in Seq(S), q # << >>
    PROVE  /\ Tail(q) \in Seq(S) /\ Head(q) = q[1] /\ Head(q) \in S
           /\ DOMAIN q = 1 .. Len(q) /\ Len(q) \in Nat /\ Len(q) >= 1
           /\ Len(Tail(q)) = Len(q) - 1 /\ DOMAIN Tail(q) = 1 .. Len(q) - 1
           /\ \A i \in 1 .. Len(q) - 1 : Tail(q)[i] = q[i + 1]
OBVIOUS

LEMMA AppendFacts ==
    ASSUME NEW S, NEW q \in Seq(S), NEW e \in S
    PROVE  /\ Append(q, e) \in Seq(S)
           /\ DOMAIN q = 1 .. Len(q) /\ Len(q) \in Nat
           /\ Len(Append(q, e)) = Len(q) + 1
           /\ DOMAIN Append(q, e) = 1 .. Len(q) + 1
           /\ Append(q, e)[Len(q) + 1] = e
           /\ \A i \in 1 .. Len(q) : Append(q, e)[i] = q[i]
OBVIOUS

Event == PeerEvent \cup DataEvent

LEMMA EventTypes ==
    ASSUME NEW e \in Event
    PROVE  /\ e.id \in Ids /\ e.type \in {"added", "removed", "data"}
           /\ e.type = "data" => e.msg \in Msgs
BY DEF Event, PeerEvent, DataEvent

LEMMA PopQueued ==
    ASSUME TypeOK, Pop, NEW type, NEW id
    PROVE  Queued(type, id) <=> \/ Head(m_event_queue).type = type
                                   /\ Head(m_event_queue).id = id
                                \/ Queued(type, id)'
<1>1. m_event_queue \in Seq(Event) /\ m_event_queue # << >>
      /\ m_event_queue' = Tail(m_event_queue)
  BY DEF TypeOK, Pop, Event
<1>2. \A i \in 1 .. Len(m_event_queue) : i = 1 \/ i - 1 \in 1 .. Len(m_event_queue) - 1
  BY <1>1, TailFacts
<1>3. ASSUME Queued(type, id)
      PROVE  \/ Head(m_event_queue).type = type /\ Head(m_event_queue).id = id
             \/ Queued(type, id)'
  <2>1. PICK i \in 1 .. Len(m_event_queue) :
           m_event_queue[i].type = type /\ m_event_queue[i].id = id
    BY <1>1, <1>3, TailFacts DEF Queued
  <2>2. CASE i = 1
    BY <1>1, <2>1, <2>2, TailFacts
  <2>3. CASE i # 1
    <3>1. i - 1 \in DOMAIN Tail(m_event_queue)
          /\ Tail(m_event_queue)[i - 1] = m_event_queue[i]
      BY <1>1, <1>2, <2>3, TailFacts
    <3>2. QED
      BY <1>1, <2>1, <3>1 DEF Queued
  <2>4. QED
    BY <2>2, <2>3
<1>4. ASSUME Queued(type, id)'
      PROVE  Queued(type, id)
  <2>1. PICK i \in 1 .. Len(m_event_queue) - 1 :
           Tail(m_event_queue)[i].type = type /\ Tail(m_event_queue)[i].id = id
    BY <1>1, <1>4, TailFacts DEF Queued
  <2>2. i + 1 \in DOMAIN m_event_queue
        /\ Tail(m_event_queue)[i] = m_event_queue[i + 1]
    BY <1>1, <2>1, TailFacts
  <2>3. QED
    BY <2>1, <2>2 DEF Queued
<1>5. ASSUME Head(m_event_queue).type = type, Head(m_event_queue).id = id
      PROVE  Queued(type, id)
  BY <1>1, <1>5, TailFacts DEF Queued
<1>6. QED
  BY <1>3, <1>4, <1>5

LEMMA PutQueued ==
    ASSUME TypeOK, NEW e \in Event, Put(e), NEW type, NEW id
    PROVE  Queued(type, id)' <=> Queued(type, id) \/ (e.type = type /\ e.id = id)
<1>1. m_event_queue \in Seq(Event) /\ m_event_queue' = Append(m_event_queue, e)
  BY DEF TypeOK, Put, Event
<1>2. \A i \in 1 .. Len(m_event_queue) + 1 :
         i = Len(m_event_queue) + 1 \/ i \in 1 .. Len(m_event_queue)
  BY <1>1, AppendFacts
<1>3. ASSUME Queued(type, id)'
      PROVE  Queued(type, id) \/ (e.type = type /\ e.id = id)
  <2>1. PICK i \in 1 .. Len(m_event_queue) + 1 :
           /\ Append(m_event_queue, e)[i].type = type
           /\ Append(m_event_queue, e)[i].id = id
    BY <1>1, <1>3, AppendFacts DEF Queued
  <2>2. QED
    BY <1>1, <1>2, <2>1, AppendFacts DEF Queued
<1>4. ASSUME Queued(type, id)
      PROVE  Queued(type, id)'
  <2>1. PICK i \in 1 .. Len(m_event_queue) :
           m_event_queue[i].type = type /\ m_event_queue[i].id = id
    BY <1>1, <1>4, AppendFacts DEF Queued
  <2>2. i \in DOMAIN Append(m_event_queue, e)
        /\ Append(m_event_queue, e)[i] = m_event_queue[i]
    BY <1>1, <2>1, AppendFacts
  <2>3. QED
    BY <1>1, <2>1, <2>2 DEF Queued
<1>5. ASSUME e.type = type, e.id = id
      PROVE  Queued(type, id)'
  <2>1. Len(m_event_queue) + 1 \in DOMAIN Append(m_event_queue, e)
        /\ Append(m_event_queue, e)[Len(m_event_queue) + 1] = e
    BY <1>1, AppendFacts
  <2>2. QED
    BY <1>1, <1>5, <2>1 DEF Queued
<1>6. QED
  BY <1>3, <1>4, <1>5

\* The queue's part of the invariant when its first event is taken.
LEMMA PopQueue ==
    ASSUME TypeOK, QueueOK, Pop
    PROVE  QueueOK' /\ m_event_queue' \in Seq(Event)
<1>1. m_event_queue \in Seq(Event) /\ m_event_queue # << >>
      /\ m_event_queue' = Tail(m_event_queue) /\ link' = link
  BY DEF TypeOK, Pop, Event
<1> DEFINE q == m_event_queue
           r == Tail(m_event_queue)
<1>2. /\ DOMAIN q = 1 .. Len(q) /\ Len(q) \in Nat /\ DOMAIN r = 1 .. Len(q) - 1
      /\ r \in Seq(Event)
      /\ \A i \in DOMAIN r : i + 1 \in DOMAIN q /\ r[i] = q[i + 1]
  BY <1>1, TailFacts
<1>3. \A i \in DOMAIN r : /\ r[i].type = "added" => link[r[i].id] # "none"
                          /\ r[i].type = "removed" => link[r[i].id] = "gone"
  BY <1>2 DEF QueueOK
<1>4. ASSUME NEW i \in DOMAIN r, NEW j \in DOMAIN r, r[i].id = r[j].id
      PROVE  /\ r[i].type = r[j].type /\ r[i].type # "data" => i = j
             /\ r[i].type = "added" /\ r[j].type = "removed" => i < j
  <2>1. /\ i + 1 \in DOMAIN q /\ r[i] = q[i + 1]
        /\ j + 1 \in DOMAIN q /\ r[j] = q[j + 1]
        /\ i \in Nat /\ j \in Nat
    BY <1>2
  <2>2. /\ q[i + 1].type = q[j + 1].type /\ q[i + 1].type # "data" => i + 1 = j + 1
        /\ q[i + 1].type = "added" /\ q[j + 1].type = "removed" => i + 1 < j + 1
    BY <1>4, <2>1 DEF QueueOK
  <2>3. QED
    BY <2>1, <2>2
<1>5. ASSUME NEW id \in Ids, link[id] = "gone", Queued("added", id)'
      PROVE  Queued("removed", id)'
  <2>1. Queued("added", id) /\ Queued("removed", id)
    BY <1>1, <1>5, PopQueued DEF QueueOK
  <2>2. ~ (Head(q).type = "removed" /\ Head(q).id = id)
    <3>1. PICK i \in DOMAIN r : r[i].type = "added" /\ r[i].id = id
      BY <1>1, <1>5 DEF Queued
    <3>2. i + 1 \in DOMAIN q /\ r[i] = q[i + 1] /\ ~ (i + 1 < 1)
          /\ 1 \in DOMAIN q /\ Head(q) = q[1]
      BY <1>1, <1>2
    <3>3. QED
      BY <3>1, <3>2 DEF QueueOK
  <2>3. QED
    BY <2>1, <2>2, PopQueued
<1>6. QED
  BY <1>1, <1>2, <1>3, <1>4, <1>5 DEF QueueOK

\* And when the Connection puts another one.
LEMMA PutQueue ==
    ASSUME TypeOK, QueueOK, NEW e \in Event, Put(e),
           \A id \in Ids : /\ link[id] # "none" => link'[id] # "none"
                           /\ link[id] = "gone" => link'[id] = "gone",
           e.type = "added" => /\ link'[e.id] = "up" /\ link[e.id] = "none",
           e.type = "removed" => link'[e.id] = "gone" /\ link[e.id] = "up",
           \A id \in Ids : link'[id] = "gone" =>
              link[id] = "gone" \/ (e.type = "removed" /\ e.id = id)
    PROVE  QueueOK' /\ m_event_queue' \in Seq(Event)
<1>1. m_event_queue \in Seq(Event) /\ m_event_queue' = Append(m_event_queue, e)
  BY DEF TypeOK, Put, Event
<1> DEFINE q == m_event_queue
           r == Append(m_event_queue, e)
<1>2. /\ DOMAIN q = 1 .. Len(q) /\ Len(q) \in Nat /\ DOMAIN r = 1 .. Len(q) + 1
      /\ r \in Seq(Event) /\ r[Len(q) + 1] = e
      /\ \A i \in DOMAIN r : i # Len(q) + 1 =>
            i \in DOMAIN q /\ r[i] = q[i] /\ i < Len(q) + 1
  BY <1>1, AppendFacts
<1>3. \A i \in DOMAIN q : q[i].id \in Ids /\ q[i] \in Event
  BY <1>1, <1>2, EventTypes
<1>4. \A i \in DOMAIN q : /\ q[i].type = "added" => link[q[i].id] # "none"
                          /\ q[i].type = "removed" => link[q[i].id] = "gone"
  BY DEF QueueOK
<1>5. \A i \in DOMAIN r : /\ r[i].type = "added" => link'[r[i].id] # "none"
                          /\ r[i].type = "removed" => link'[r[i].id] = "gone"
  BY <1>2, <1>3, <1>4
<1>6. ASSUME NEW i \in DOMAIN r, NEW j \in DOMAIN r, r[i].id = r[j].id
      PROVE  /\ r[i].type = r[j].type /\ r[i].type # "data" => i = j
             /\ r[i].type = "added" /\ r[j].type = "removed" => i < j
  <2>1. e.type \in {"added", "removed", "data"}
    BY EventTypes
  <2>2. CASE i = Len(q) + 1 /\ j = Len(q) + 1
    BY <1>2, <2>2
  <2>3. CASE i = Len(q) + 1 /\ j # Len(q) + 1
    <3>1. j \in DOMAIN q /\ r[j] = q[j] /\ r[i] = e
      BY <1>2, <2>3
    <3>2. ~ (e.type = "added" /\ q[j].type \in {"added", "removed"})
      BY <1>4, <1>6, <3>1
    <3>3. ~ (e.type = "removed" /\ q[j].type = "removed")
      BY <1>4, <1>6, <3>1
    <3>4. QED
      BY <2>1, <3>1, <3>2, <3>3
  <2>4. CASE i # Len(q) + 1 /\ j = Len(q) + 1
    <3>1. i \in DOMAIN q /\ r[i] = q[i] /\ r[j] = e /\ i < j
      BY <1>2, <2>4
    <3>2. ~ (e.type = "added" /\ q[i].type = "added")
      BY <1>4, <1>6, <3>1
    <3>3. ~ (e.type = "removed" /\ q[i].type = "removed")
      BY <1>4, <1>6, <3>1
    <3>4. QED
      BY <2>1, <3>1, <3>2, <3>3
  <2>5. CASE i # Len(q) + 1 /\ j # Len(q) + 1
    <3>1. i \in DOMAIN q /\ r[i] = q[i] /\ j \in DOMAIN q /\ r[j] = q[j]
      BY <1>2, <2>5
    <3>2. QED
      BY <1>6, <3>1 DEF QueueOK
  <2>6. QED
    BY <2>2, <2>3, <2>4, <2>5
<1>7. ASSUME NEW id \in Ids, link'[id] = "gone", Queued("added", id)'
      PROVE  Queued("removed", id)'
  <2>1. CASE e.type = "removed" /\ e.id = id
    BY <2>1, PutQueued
  <2>2. CASE ~ (e.type = "removed" /\ e.id = id)
    <3>1. link[id] = "gone"
      BY <1>7, <2>2
    <3>2. ~ (e.type = "added" /\ e.id = id)
      BY <3>1
    <3>3. Queued("added", id)
      BY <1>7, <3>2, PutQueued
    <3>4. Queued("removed", id)
      BY <3>1, <3>3 DEF QueueOK
    <3>5. QED
      BY <3>4, PutQueued
  <2>3. QED
    BY <2>1, <2>2
<1>8. QED
  BY <1>1, <1>2, <1>5, <1>6, <1>7 DEF QueueOK
-----------------------------------------------------------------------------
(* What the handling of a packet, or a kick, does to the clients. *)

Served ==
    /\ auth \subseteq auth' /\ auth' \subseteq Names
    /\ \/ UNCHANGED clients
       \/ \E id \in DOMAIN clients : \E d \in Client :
             /\ clients' = [clients EXCEPT ![id] = d]
             /\ ClientOK(d, auth') /\ Step(clients[id], d)

\* Players change at most their data.
SamePlayers ==
    /\ m_players' \in Seq(Player) /\ DOMAIN m_players' = DOMAIN m_players
    /\ \A i \in DOMAIN m_players : /\ m_players'[i].name = m_players[i].name
                                   /\ m_players'[i].peer = m_players[i].peer

LEMMA ServedClients ==
    ASSUME TypeOK, ClientsOK, Served
    PROVE  /\ DOMAIN clients' = DOMAIN clients
           /\ \A id \in DOMAIN clients : /\ clients'[id] \in Client
                                         /\ ClientOK(clients'[id], auth')
                                         /\ Step(clients[id], clients'[id])
<1>1. \A id \in DOMAIN clients : ClientOK(clients[id], auth')
  BY DEF ClientsOK, ClientOK, Served
<1>2. \A id \in DOMAIN clients : Step(clients[id], clients[id])
  BY DEF Step
<1>3. CASE UNCHANGED clients
  BY <1>1, <1>2, <1>3 DEF TypeOK
<1>4. CASE ~ UNCHANGED clients
  <2>1. PICK id \in DOMAIN clients, d \in Client :
           /\ clients' = [clients EXCEPT ![id] = d]
           /\ ClientOK(d, auth') /\ Step(clients[id], d)
    BY <1>4 DEF Served
  <2>2. QED
    BY <1>1, <1>2, <2>1 DEF TypeOK
<1>5. QED
  BY <1>3, <1>4

LEMMA ServedPlayers ==
    ASSUME TypeOK, ClientsOK, OnePlayerPerClient, Served, SamePlayers
    PROVE  OnePlayerPerClient'
<1>1. \A id : Playing(id)' = Playing(id)
  BY DEF Playing, SamePlayers
<1>2. /\ DOMAIN clients' = DOMAIN clients
      /\ \A id \in DOMAIN clients : Step(clients[id], clients'[id])
  BY ServedClients
<1>3. ASSUME NEW id \in DOMAIN clients', clients'[id].state \in {"Active", "SudoMode"}
      PROVE  Playing(id)' # {}
  BY <1>1, <1>2, <1>3 DEF Step, InPlay, OnePlayerPerClient
<1>4. ASSUME NEW i \in DOMAIN m_players', m_players'[i].peer # 0
      PROVE  /\ m_players'[i].peer \in DOMAIN clients'
             /\ clients'[m_players'[i].peer].name = m_players'[i].name
             /\ clients'[m_players'[i].peer].state \in {"Active", "SudoMode", "Denied"}
  <2>1. /\ i \in DOMAIN m_players /\ m_players'[i].peer = m_players[i].peer
        /\ m_players'[i].name = m_players[i].name
    BY DEF SamePlayers
  <2>2. /\ m_players[i].peer \in DOMAIN clients
        /\ clients[m_players[i].peer].name = m_players[i].name
        /\ clients[m_players[i].peer].state \in {"Active", "SudoMode", "Denied"}
    BY <1>4, <2>1 DEF OnePlayerPerClient
  <2>3. QED
    BY <1>2, <2>1, <2>2 DEF Step, MayPlay
<1>5. \A id \in Ids : \A i, j \in Playing(id)' : i = j
  BY <1>1 DEF OnePlayerPerClient
<1>6. QED
  BY <1>3, <1>4, <1>5 DEF OnePlayerPerClient
-----------------------------------------------------------------------------
(* The handlers. *)

\* The parts of the invariant a handler relies on, and what it makes of them.
Before == TypeOK /\ ClientsOK /\ OnePlayerPerClient
Handled == Pop /\ Head(m_event_queue).type = "data" /\ asked' \subseteq Ids
           /\ UNCHANGED database

LEMMA SenderIs ==
    ASSUME Before, m_event_queue # << >>
    PROVE  /\ Sender \in Ids
           /\ Exists => /\ clients[Sender] \in Client
                        /\ ClientOK(clients[Sender], auth)
                        /\ State = clients[Sender].state
           /\ Head(m_event_queue) \in Event
<1>1. m_event_queue \in Seq(Event) /\ Head(m_event_queue) \in Event
  BY TailFacts DEF Before, TypeOK, Event
<1>2. QED
  BY <1>1, EventTypes DEF Before, TypeOK, ClientsOK, Sender, Exists, State

\* A packet leaves the players as they are unless it says otherwise.
LEMMA SameUnchanged == Before /\ UNCHANGED m_players => SamePlayers
BY DEF Before, TypeOK, SamePlayers

LEMMA KeepServed == Before /\ Keep /\ UNCHANGED auth => Served /\ asked' \subseteq Ids
BY DEF Before, TypeOK, Keep, Served

LEMMA SetServed ==
    ASSUME Before, Exists, NEW d \in Client, Set(d), auth \subseteq auth',
           auth' \subseteq Names, ClientOK(d, auth'), Step(clients[Sender], d)
    PROVE  Served
BY DEF Served, Set, Exists

LEMMA DenyServed ==
    ASSUME Before, m_event_queue # << >>, Exists, Deny, UNCHANGED auth
    PROVE  /\ Served /\ asked' \subseteq Ids
           /\ clients' = [clients EXCEPT ![Sender] = Denied(clients[Sender])]
<1>1. /\ Denied(clients[Sender]) \in Client
      /\ ClientOK(Denied(clients[Sender]), auth)
      /\ Step(clients[Sender], Denied(clients[Sender]))
  BY SenderIs, DeniedGood
<1>2. auth \subseteq auth' /\ auth' \subseteq Names
  BY DEF Before, TypeOK
<1>3. Served
  BY <1>1, <1>2, SetServed DEF Deny
<1>4. asked' \subseteq Ids
  BY SenderIs DEF Deny, Disconnect, Before, TypeOK
<1>5. QED
  BY <1>3, <1>4 DEF Deny, Set

LEMMA NotifyServed ==
    ASSUME Before, m_event_queue # << >>, Exists, NEW e, e # "SetClientReady",
           e = "AuthAccept" => clients[Sender].name \in auth,
           Notify(e), UNCHANGED auth
    PROVE  Served /\ asked' \subseteq Ids
<1>1. CASE Deny
  BY <1>1, DenyServed
<1>2. CASE ~ Throws(clients[Sender], e) /\ Set(Notified(clients[Sender], e))
           /\ UNCHANGED asked
  <2>1. LET d == Notified(clients[Sender], e) IN
        d \in Client /\ ClientOK(d, auth) /\ Step(clients[Sender], d)
    BY <1>2, SenderIs, NotifiedGood
  <2>2. auth \subseteq auth' /\ auth' \subseteq Names /\ asked' \subseteq Ids
    BY <1>2 DEF Before, TypeOK
  <2>3. QED
    BY <1>2, <2>1, <2>2, SetServed
<1>3. QED
  BY <1>1, <1>2 DEF Notify

LEMMA PacketPops ==
    ASSUME NEW cmd, Packet(cmd)
    PROVE  Pop /\ m_event_queue # << >> /\ Head(m_event_queue).type = "data"
BY DEF Packet

LEMMA InitPacketServed ==
    ASSUME Before, Init_Packet
    PROVE  Served /\ SamePlayers /\ Handled
<1> DEFINE n == Head(m_event_queue).msg.name
           c == clients[Sender]
<1>1. /\ Pop /\ m_event_queue # << >> /\ Head(m_event_queue).type = "data"
      /\ Head(m_event_queue).msg.cmd = "INIT"
      /\ UNCHANGED << auth, m_players, database >>
  BY DEF Init_Packet, Packet
<1>2. SamePlayers
  BY <1>1, SameUnchanged
<1>3. CASE Keep
  BY <1>1, <1>2, <1>3, KeepServed DEF Handled
<1>4. CASE In({"Created"}) /\ Deny
  BY <1>1, <1>2, <1>4, DenyServed DEF Handled, In
<1>5. ASSUME In({"Created"})
      PROVE  /\ Exists /\ c \in Client /\ ClientOK(c, auth) /\ c.state = "Created"
             /\ n \in Names
  <2>1. /\ Exists /\ c \in Client /\ ClientOK(c, auth) /\ c.state = "Created"
        /\ Head(m_event_queue) \in Event
    BY <1>1, <1>5, SenderIs DEF In
  <2>2. Head(m_event_queue).msg \in Msgs
    BY <1>1, <2>1, EventTypes
  <2>3. QED
    BY <1>1, <2>1, <2>2, SessionsAssumption
<1>6. ASSUME In({"Created"}), Set([Denied(c) EXCEPT !.name = n]), Disconnect(Sender)
      PROVE  Served /\ SamePlayers /\ Handled
  <2> DEFINE b == Denied(c)
             d == [b EXCEPT !.name = n]
  <2>1. Exists /\ c \in Client /\ ClientOK(c, auth) /\ c.state = "Created" /\ n \in Names
    BY <1>5, <1>6
  <2>2. /\ b \in Client /\ b.state = "Denied" /\ ClientOK(b, auth)
        /\ b.allowed = c.allowed
        /\ b.create_player_on_auth_success = c.create_player_on_auth_success
    BY <2>1, DeniedGood DEF Absorbing
  <2> HIDE DEF b
  <2>3. /\ d \in Client /\ d.state = "Denied" /\ d.chosen_mech = b.chosen_mech
        /\ d.name = n /\ d.auth_data = b.auth_data /\ d.allowed = b.allowed
        /\ d.create_player_on_auth_success = b.create_player_on_auth_success
    BY <2>1, <2>2 DEF Client
  <2>4. c.allowed = "none"
    BY <2>1 DEF ClientOK
  <2>5. ClientOK(d, auth) /\ Step(c, d)
    BY <2>1, <2>2, <2>3, <2>4 DEF ClientOK, Step, Past, InPlay, MayPlay
  <2>6. auth \subseteq auth' /\ auth' \subseteq Names /\ asked' \subseteq Ids
    BY <1>1, <1>6, SenderIs DEF Before, TypeOK, Disconnect
  <2>7. Served
    BY <1>1, <1>6, <2>1, <2>3, <2>5, <2>6, SetServed DEF b
  <2>8. QED
    BY <1>1, <1>2, <2>6, <2>7 DEF Handled
<1>7. ASSUME In({"Created"}), NEW default_password \in BOOLEAN,
             Set(Hello(c, n, default_password)), UNCHANGED asked
      PROVE  Served /\ SamePlayers /\ Handled
  <2> DEFINE b == Notified(c, "Hello")
             d == Hello(c, n, default_password)
  <2>1. Exists /\ c \in Client /\ ClientOK(c, auth) /\ c.state = "Created" /\ n \in Names
    BY <1>5, <1>7
  <2>2. << "Created", "Hello", "HelloSent" >> \in Forward
    BY DEF Forward
  <2>3. ~ Throws(c, "Hello") /\ ~ Absorbing(c)
    BY <2>1, <2>2 DEF Throws, Absorbing
  <2>4. PICK t \in Forward :
           /\ t[1] = c.state /\ t[2] = "Hello"
           /\ b = [c EXCEPT !.state = t[3]]
    BY <2>3, NotifiedCases
  <2>5. t[3] = "HelloSent" /\ "HelloSent" \in Range(States)
    BY <2>1, <2>4, StateSet DEF Forward
  <2>6. /\ b \in Client /\ b.state = "HelloSent" /\ b.auth_data = FALSE
    BY <2>1, <2>4, <2>5 DEF ClientOK, Client
  <2> HIDE DEF b
  <2>7. /\ d \in Client /\ d.state = "HelloSent" /\ d.name = n
        /\ d.chosen_mech = "none" /\ d.auth_data = FALSE
        /\ d.create_player_on_auth_success <=> n \notin auth /\ default_password
        /\ d.allowed = "srp" <=> n \in auth \/ default_password
    <3> DEFINE allowed == IF n \in auth \/ default_password THEN "srp" ELSE "first_srp"
               create == n \notin auth /\ default_password
    <3>1. /\ allowed \in {"none", "srp", "first_srp"} /\ create \in BOOLEAN
          /\ allowed = "srp" <=> n \in auth \/ default_password
      OBVIOUS
    <3>2. d = [b EXCEPT !.name = n, !.chosen_mech = "none", !.allowed = allowed,
                        !.create_player_on_auth_success = create]
      BY DEF Hello, b
    <3> HIDE DEF allowed, create, d
    <3>3. /\ d \in Client /\ d.state = "HelloSent" /\ d.name = n
          /\ d.chosen_mech = "none" /\ d.auth_data = FALSE
          /\ d.create_player_on_auth_success = create /\ d.allowed = allowed
      BY <2>1, <2>6, <3>1, <3>2 DEF Client
    <3>4. QED
      BY <3>1, <3>3 DEF create
  <2> HIDE DEF d
  <2>8. ClientOK(d, auth)
    BY <2>1, <2>7 DEF ClientOK, Past
  <2>9. Step(c, d)
    BY <2>1, <2>7 DEF Step, InPlay, MayPlay
  <2>10. auth \subseteq auth' /\ auth' \subseteq Names /\ asked' \subseteq Ids
    BY <1>1, <1>7 DEF Before, TypeOK
  <2>11. Served
    BY <1>1, <1>7, <2>1, <2>7, <2>8, <2>9, <2>10, SetServed DEF d
  <2>12. QED
    BY <1>1, <1>2, <2>10, <2>11 DEF Handled
<1>8. QED
  BY <1>3, <1>4, <1>6, <1>7 DEF Init_Packet

LEMMA FirstSrpServed ==
    ASSUME Before, FirstSrp
    PROVE  Served /\ SamePlayers /\ Handled
<1> DEFINE c == clients[Sender]
           d == [Notified(c, "AuthAccept") EXCEPT !.allowed = "srp"]
<1>1. /\ Pop /\ m_event_queue # << >> /\ Head(m_event_queue).type = "data"
      /\ UNCHANGED << m_players, database >>
  BY DEF FirstSrp, Packet
<1>2. SamePlayers
  BY <1>1, SameUnchanged
<1>3. CASE Keep /\ UNCHANGED auth
  BY <1>1, <1>2, <1>3, KeepServed DEF Handled
<1>4. CASE In({"HelloSent"}) /\ Deny /\ UNCHANGED auth
  BY <1>1, <1>2, <1>4, DenyServed DEF Handled, In
<1>5. CASE In({"SudoMode"}) /\ Notify("SudoLeave") /\ UNCHANGED auth
  BY <1>1, <1>2, <1>5, NotifyServed DEF Handled, In
<1>6. CASE In({"HelloSent"}) /\ c.allowed = "first_srp" /\ auth' = auth \cup {c.name}
           /\ Set(d) /\ UNCHANGED asked
  <2>1. Exists /\ c \in Client /\ ClientOK(c, auth) /\ c.state = "HelloSent"
    BY <1>1, <1>6, SenderIs DEF In
  <2>2. << "HelloSent", "AuthAccept", "AwaitingInit2" >> \in Forward
    BY DEF Forward
  <2>3. ~ Throws(c, "AuthAccept") /\ ~ Absorbing(c)
    BY <2>1, <2>2 DEF Throws, Absorbing
  <2>4. PICK t \in Forward :
           /\ t[1] = c.state /\ t[2] = "AuthAccept"
           /\ Notified(c, "AuthAccept") = Reset([c EXCEPT !.state = t[3]])
    BY <2>3, NotifiedCases
  <2>5. t[3] = "AwaitingInit2" /\ "AwaitingInit2" \in Range(States)
    BY <2>1, <2>4, StateSet DEF Forward
  <2>6. c.name \in Names
    BY <1>6, <2>1 DEF ClientOK
  <2>7. /\ d \in Client /\ d.state = "AwaitingInit2" /\ d.name = c.name
        /\ d.chosen_mech = "none" /\ d.auth_data = FALSE /\ d.allowed = "srp"
        /\ d.create_player_on_auth_success = c.create_player_on_auth_success
    <3> DEFINE b == [c EXCEPT !.state = t[3]]
    <3>1. /\ b \in Client /\ b.state = "AwaitingInit2" /\ b.name = c.name
          /\ b.create_player_on_auth_success = c.create_player_on_auth_success
      BY <2>1, <2>5 DEF Client
    <3> HIDE DEF b
    <3>2. /\ Reset(b) \in Client /\ Reset(b).state = b.state
          /\ Reset(b).name = b.name /\ Reset(b).chosen_mech = "none"
          /\ Reset(b).auth_data = FALSE
          /\ Reset(b).create_player_on_auth_success = b.create_player_on_auth_success
      BY <3>1 DEF Client, Reset
    <3>3. d = [Reset(b) EXCEPT !.allowed = "srp"]
      BY <2>4 DEF b
    <3>4. QED
      BY <3>1, <3>2, <3>3 DEF Client
  <2>8. auth \subseteq auth' /\ auth' \subseteq Names /\ c.name \in auth'
        /\ asked' \subseteq Ids
    BY <1>6, <2>6 DEF Before, TypeOK
  <2>9. ClientOK(d, auth') /\ Step(c, d)
    BY <2>1, <2>6, <2>7, <2>8 DEF ClientOK, Step, Past, InPlay, MayPlay
  <2>10. Served
    BY <1>6, <2>1, <2>7, <2>8, <2>9, SetServed
  <2>11. QED
    BY <1>1, <1>2, <2>8, <2>10 DEF Handled
<1>7. QED
  BY <1>3, <1>4, <1>5, <1>6 DEF FirstSrp

LEMMA SrpBytesAServed ==
    ASSUME Before, SrpBytesA
    PROVE  Served /\ SamePlayers /\ Handled
<1> DEFINE c == clients[Sender]
           d == [c EXCEPT !.chosen_mech = "srp", !.auth_data = TRUE]
<1>1. /\ Pop /\ m_event_queue # << >> /\ Head(m_event_queue).type = "data"
      /\ UNCHANGED << auth, m_players, database >>
  BY DEF SrpBytesA, Packet
<1>2. SamePlayers
  BY <1>1, SameUnchanged
<1>3. CASE Keep
  BY <1>1, <1>2, <1>3, KeepServed DEF Handled
<1>4. CASE In({"HelloSent", "Active"}) /\ Deny
  BY <1>1, <1>2, <1>4, DenyServed DEF Handled, In
<1>5. CASE In({"HelloSent", "Active"}) /\ c.allowed = "srp" /\ Set(d) /\ UNCHANGED asked
  <2>1. /\ Exists /\ c \in Client /\ ClientOK(c, auth)
        /\ c.state \in {"HelloSent", "Active"}
    BY <1>1, <1>5, SenderIs DEF In
  <2>2. /\ d \in Client /\ d.state = c.state /\ d.name = c.name
        /\ d.chosen_mech = "srp" /\ d.auth_data = TRUE /\ d.allowed = "srp"
        /\ d.create_player_on_auth_success = c.create_player_on_auth_success
    BY <1>5, <2>1 DEF Client
  <2>3. ClientOK(d, auth) /\ Step(c, d)
    BY <1>5, <2>1, <2>2 DEF ClientOK, Step, Past, InPlay, MayPlay
  <2>4. auth \subseteq auth' /\ auth' \subseteq Names /\ asked' \subseteq Ids
    BY <1>1, <1>5 DEF Before, TypeOK
  <2>5. Served
    BY <1>1, <1>5, <2>1, <2>2, <2>3, <2>4, SetServed
  <2>6. QED
    BY <1>1, <1>2, <2>4, <2>5 DEF Handled
<1>6. QED
  BY <1>3, <1>4, <1>5 DEF SrpBytesA

LEMMA SrpBytesMServed ==
    ASSUME Before, SrpBytesM
    PROVE  Served /\ SamePlayers /\ Handled
<1> DEFINE c == clients[Sender]
           accepted == IF In({"Active"}) THEN "SudoSuccess" ELSE "AuthAccept"
<1>1. /\ Pop /\ m_event_queue # << >> /\ Head(m_event_queue).type = "data"
      /\ UNCHANGED << m_players, database >>
  BY DEF SrpBytesM, Packet
<1>2. SamePlayers
  BY <1>1, SameUnchanged
<1>3. CASE Keep /\ UNCHANGED auth
  BY <1>1, <1>2, <1>3, KeepServed DEF Handled
<1>4. CASE /\ UNCHANGED auth
           /\ (In({"HelloSent", "Active"}) /\ Deny) \/ (In({"HelloSent"}) /\ Deny)
  BY <1>1, <1>2, <1>4, DenyServed DEF Handled, In
<1>5. CASE In({"Active"}) /\ Set(Reset(c)) /\ UNCHANGED << asked, auth >>
  <2>1. Exists /\ c \in Client /\ ClientOK(c, auth) /\ c.state = "Active"
    BY <1>1, <1>5, SenderIs DEF In
  <2>2. /\ Reset(c) \in Client /\ Reset(c).state = c.state
        /\ Reset(c).name = c.name /\ Reset(c).allowed = c.allowed
        /\ Reset(c).chosen_mech = "none" /\ Reset(c).auth_data = FALSE
        /\ Reset(c).create_player_on_auth_success = c.create_player_on_auth_success
    BY <2>1 DEF Client, Reset
  <2>3. ClientOK(Reset(c), auth) /\ Step(c, Reset(c))
    BY <2>1, <2>2 DEF ClientOK, Step
  <2>4. auth \subseteq auth' /\ auth' \subseteq Names /\ asked' \subseteq Ids
    BY <1>1, <1>5 DEF Before, TypeOK
  <2>5. Served
    BY <1>1, <1>5, <2>1, <2>2, <2>3, <2>4, SetServed
  <2>6. QED
    BY <1>1, <1>2, <2>4, <2>5 DEF Handled
<1>6. CASE /\ In({"HelloSent", "Active"}) /\ c.chosen_mech # "none"
           /\ auth' = Accounts(c)
           /\ Set([Notified(c, accepted) EXCEPT !.create_player_on_auth_success = FALSE])
           /\ UNCHANGED asked
  <2> DEFINE b == Notified(c, accepted)
             d == [b EXCEPT !.create_player_on_auth_success = FALSE]
  <2>1. /\ Exists /\ c \in Client /\ ClientOK(c, auth)
        /\ c.state \in {"HelloSent", "Active"} /\ (In({"Active"}) <=> c.state = "Active")
    BY <1>1, <1>6, SenderIs DEF In
  <2>2. /\ << "HelloSent", "AuthAccept", "AwaitingInit2" >> \in Forward
        /\ << "Active", "SudoSuccess", "SudoMode" >> \in Forward
    BY DEF Forward
  <2>3. ~ Throws(c, accepted)
    <3>1. /\ c.state = "Active" => accepted = "SudoSuccess"
          /\ c.state = "HelloSent" => accepted = "AuthAccept"
      BY <2>1
    <3> HIDE DEF c, accepted
    <3>2. QED
      BY <2>1, <2>2, <3>1 DEF Throws
  <2>4. c.name \in Names /\ c.allowed = "srp"
    BY <1>6, <2>1 DEF ClientOK
  <2>5. auth \subseteq auth' /\ auth' \subseteq Names /\ c.name \in auth'
    <3>1. auth \subseteq Names
      BY DEF Before, TypeOK
    <3>2. CASE c.create_player_on_auth_success
      BY <1>6, <2>4, <3>1, <3>2 DEF Accounts
    <3>3. CASE ~ c.create_player_on_auth_success
      <4>1. c.name \in auth
        BY <2>1, <2>4, <3>3 DEF ClientOK
      <4>2. QED
        BY <1>6, <3>1, <3>3, <4>1 DEF Accounts
    <3>4. QED
      BY <3>2, <3>3
  <2>6. ClientOK(c, auth')
    BY <2>1, <2>5 DEF ClientOK
  <2>7. /\ b \in Client /\ ClientOK(b, auth') /\ Step(c, b)
        /\ b.name = c.name /\ b.allowed = c.allowed
    <3> HIDE DEF c, b
    <3>1. accepted # "SetClientReady"
      OBVIOUS
    <3> HIDE DEF accepted
    <3>2. QED
      BY <2>1, <2>3, <2>5, <2>6, <3>1, NotifiedGood DEF b
  <2> HIDE DEF b
  <2>8. /\ d \in Client /\ d.state = b.state /\ d.name = b.name
        /\ d.chosen_mech = b.chosen_mech /\ d.auth_data = b.auth_data
        /\ d.allowed = b.allowed /\ d.create_player_on_auth_success = FALSE
    BY <2>7 DEF Client
  <2>9. ClientOK(d, auth') /\ Step(c, d)
    BY <2>5, <2>7, <2>8 DEF ClientOK, Step
  <2>10. asked' \subseteq Ids
    BY <1>6 DEF Before, TypeOK
  <2>11. Served
    BY <1>6, <2>1, <2>5, <2>8, <2>9, SetServed DEF b
  <2>12. QED
    BY <1>1, <1>2, <2>10, <2>11 DEF Handled
<1>7. QED
  BY <1>3, <1>4, <1>5, <1>6 DEF SrpBytesM

LEMMA Init2Served ==
    ASSUME Before, Init2
    PROVE  Served /\ SamePlayers /\ Handled
<1> DEFINE c == clients[Sender]
           d == Notified(c, "GotInit2")
           f == Notified(d, "SetDefinitionsSent")
<1>1. /\ Pop /\ m_event_queue # << >> /\ Head(m_event_queue).type = "data"
      /\ UNCHANGED << auth, m_players, database >>
  BY DEF Init2, Packet
<1>2. SamePlayers
  BY <1>1, SameUnchanged
<1>3. CASE Keep
  BY <1>1, <1>2, <1>3, KeepServed DEF Handled
<1>4. CASE Exists /\ Notify("GotInit2")
  BY <1>1, <1>2, <1>4, NotifyServed DEF Handled
<1>5. CASE Exists /\ ~ Throws(c, "GotInit2") /\ Set(f) /\ UNCHANGED asked
  <2>1. c \in Client /\ ClientOK(c, auth)
    BY <1>1, <1>5, SenderIs
  <2>2. d \in Client /\ ClientOK(d, auth) /\ Step(c, d) /\ d.name = c.name
    BY <1>5, <2>1, NotifiedGood
  <2>3. ~ Throws(d, "SetDefinitionsSent")
    <3>1. CASE Absorbing(c)
      BY <3>1 DEF Notified, Throws
    <3>2. CASE ~ Absorbing(c)
      <4>1. PICK t \in Forward :
               t[2] = "GotInit2" /\ d = [c EXCEPT !.state = t[3]]
        BY <1>5, <3>2, NotifiedCases
      <4>2. d.state = "InitDone"
        BY <2>1, <4>1 DEF Forward, Client
      <4>3. << "InitDone", "SetDefinitionsSent", "DefinitionsSent" >> \in Forward
        BY DEF Forward
      <4>4. QED
        BY <4>2, <4>3 DEF Throws
    <3>3. QED
      BY <3>1, <3>2
  <2>4. f \in Client /\ ClientOK(f, auth) /\ Step(d, f) /\ f.name = d.name
    BY <2>2, <2>3, NotifiedGood
  <2>5. Step(c, f)
    BY <2>2, <2>4 DEF Step
  <2>6. auth \subseteq auth' /\ auth' \subseteq Names /\ asked' \subseteq Ids
    BY <1>1, <1>5 DEF Before, TypeOK
  <2>7. Served
    BY <1>1, <1>5, <2>4, <2>5, <2>6, SetServed
  <2>8. QED
    BY <1>1, <1>2, <2>6, <2>7 DEF Handled
<1>6. QED
  BY <1>3, <1>4, <1>5 DEF Init2

LEMMA Changed ==
    ASSUME NEW r \in Player, r.data < MaxChanges
    PROVE  LET p == [r EXCEPT !.data = @ + 1, !.modified = TRUE] IN
           p \in Player /\ p.name = r.name /\ p.peer = r.peer
<1>1. r.data + 1 \in 0 .. MaxChanges /\ MaxChanges \in Nat
  BY SessionsAssumption DEF Player
<1>2. \A k \in 0 .. MaxChanges :
         LET p == [r EXCEPT !.data = k, !.modified = TRUE] IN
         p \in Player /\ p.name = r.name /\ p.peer = r.peer
  BY DEF Player
<1>3. QED
  BY <1>1, <1>2

LEMMA PlayServed ==
    ASSUME Before, Play
    PROVE  Served /\ SamePlayers /\ Handled
<1>1. /\ Pop /\ Keep /\ Head(m_event_queue).type = "data"
      /\ UNCHANGED << auth, database >>
  BY DEF Play, Packet
<1>2. SamePlayers
  <2>1. CASE UNCHANGED m_players
    BY <2>1, SameUnchanged
  <2>2. CASE \E i \in Playing(Sender) :
                /\ m_players[i].data < MaxChanges
                /\ m_players' = [m_players EXCEPT ![i].data = @ + 1,
                                                  ![i].modified = TRUE]
    <3>1. PICK i \in Playing(Sender) :
             /\ m_players[i].data < MaxChanges
             /\ m_players' = [m_players EXCEPT ![i].data = @ + 1,
                                               ![i].modified = TRUE]
      BY <2>2
    <3>2. i \in DOMAIN m_players /\ m_players \in Seq(Player)
      BY DEF Playing, Before, TypeOK
    <3>3. m_players[i] \in Player /\ MaxChanges \in Nat
      BY <3>2, SessionsAssumption
    <3> DEFINE p == [m_players[i] EXCEPT !.data = @ + 1, !.modified = TRUE]
    <3>4. /\ p \in Player /\ p.name = m_players[i].name
          /\ p.peer = m_players[i].peer
      BY <3>1, <3>3, Changed
    <3>5. m_players' = [m_players EXCEPT ![i] = p]
      BY <3>1, <3>2, <3>3 DEF Player
    <3> HIDE DEF p
    <3>6. QED
      BY <3>2, <3>4, <3>5 DEF SamePlayers
  <2>3. QED
    BY <2>1, <2>2 DEF Play
<1>3. QED
  BY <1>1, <1>2, KeepServed DEF Handled

\* CLIENT_READY: the one packet that adds a player.
LEMMA ClientReadySteps ==
    ASSUME Before, ClientReady
    PROVE  /\ Handled /\ UNCHANGED auth /\ m_players' \in Seq(Player)
           /\ DOMAIN clients' = DOMAIN clients
           /\ ClientsOK' /\ OnePlayerPerClient'
           /\ \A id \in DOMAIN clients : clients'[id] \in Client
<1> DEFINE c == clients[Sender]
           d == clients'[Sender]
<1>1. /\ Pop /\ m_event_queue # << >> /\ Head(m_event_queue).type = "data"
      /\ UNCHANGED << auth, database >>
  BY DEF ClientReady, Packet
<1>2. CASE UNCHANGED m_players /\ (Keep \/ (Exists /\ Deny))
  <2>1. Served /\ asked' \subseteq Ids
    BY <1>1, <1>2, KeepServed, DenyServed
  <2>2. SamePlayers
    BY <1>2, SameUnchanged
  <2>3. QED
    BY <1>1, <2>1, <2>2, ServedClients, ServedPlayers
       DEF Handled, Before, ClientsOK, SamePlayers
<1>3. CASE /\ AtLeast("InitDone") /\ CanEmerge(Sender, c.name)
           /\ m_players' = Emerged(Sender, c.name) /\ Notify("SetClientReady")
  <2>1. Exists /\ c \in Client /\ ClientOK(c, auth) /\ State = c.state /\ Sender \in Ids
    BY <1>1, <1>3, SenderIs DEF AtLeast
  <2>2. c.state \in Past
    BY <1>3, <2>1, PastRank DEF AtLeast, Client
  <2>3. c.name \in Names
    BY <2>1, <2>2 DEF ClientOK, Before, TypeOK
  <2>4. Playing(Sender) = {} /\ c.state \notin InPlay
    BY <1>3, <2>1 DEF CanEmerge, Before, OnePlayerPerClient, InPlay, Exists
  <2>5. /\ clients' = [clients EXCEPT ![Sender] = d] /\ asked' \subseteq Ids
        /\ d \in Client /\ ClientOK(d, auth) /\ d.name = c.name
        /\ d.state \in MayPlay
    <3>1. CASE Deny
      <4>1. /\ clients' = [clients EXCEPT ![Sender] = Denied(c)]
            /\ asked' \subseteq Ids
        BY <1>1, <2>1, <3>1, DenyServed
      <4>2. ~ Absorbing(c)
        BY <2>2 DEF Absorbing, Past
      <4>3. d = Denied(c)
        BY <2>1, <4>1 DEF Exists, Before, TypeOK
      <4>4. QED
        BY <2>1, <4>1, <4>2, <4>3, DeniedGood DEF MayPlay
    <3>2. CASE /\ ~ Throws(c, "SetClientReady") /\ UNCHANGED asked
               /\ Set(Notified(c, "SetClientReady"))
      <4>1. d = Notified(c, "SetClientReady")
            /\ clients' = [clients EXCEPT ![Sender] = d]
        BY <2>1, <3>2 DEF Set, Exists, Before, TypeOK
      <4>2. d \in Client /\ ClientOK(d, auth) /\ d.name = c.name
        BY <2>1, <3>2, <4>1, NotifiedGood
      <4>3. ~ Absorbing(c)
        BY <2>2 DEF Absorbing, Past
      <4>4. PICK t \in Forward :
               t[2] = "SetClientReady" /\ d = [c EXCEPT !.state = t[3]]
        BY <3>2, <4>1, <4>3, NotifiedCases
      <4>5. d.state = "Active"
        BY <2>1, <4>4 DEF Forward, Client
      <4>6. QED
        BY <3>2, <4>1, <4>2, <4>5 DEF MayPlay, Before, TypeOK
    <3>3. QED
      BY <1>3, <3>1, <3>2 DEF Notify
  <2> DEFINE p == [name |-> c.name, peer |-> Sender, data |-> database[c.name],
                   modified |-> database[c.name] = 0]
             k == Len(m_players) + 1
  <2>6. p \in Player /\ p.name = c.name /\ p.peer = Sender
    BY <2>1, <2>3 DEF Player, Before, TypeOK
  <2>7. /\ m_players \in Seq(Player) /\ m_players' = Append(m_players, p)
    BY <1>3 DEF Emerged, Before, TypeOK
  <2> HIDE DEF p
  <2>8. /\ m_players' \in Seq(Player)
        /\ DOMAIN m_players = 1 .. Len(m_players) /\ Len(m_players) \in Nat
        /\ DOMAIN m_players' = 1 .. k /\ m_players'[k] = p
        /\ \A i \in 1 .. Len(m_players) : m_players'[i] = m_players[i]
    BY <2>6, <2>7, AppendFacts
  <2>9. \A i \in DOMAIN m_players' :
           \/ i = k /\ i \notin DOMAIN m_players
           \/ i \in DOMAIN m_players /\ m_players'[i] = m_players[i]
    BY <2>8
  <2>10. PICK s \in Ids : s = Sender
    BY <2>1
  <2>11. /\ Playing(s)' = {k}
         /\ \A id : id # s => Playing(id)' = Playing(id)
    <3>1. \A i \in DOMAIN m_players : m_players[i].peer # s
      BY <2>4, <2>10 DEF Playing
    <3>2. {i \in DOMAIN m_players' : m_players'[i].peer = s} = {k}
      BY <2>6, <2>8, <2>9, <2>10, <3>1
    <3>3. \A id : id # s =>
             {i \in DOMAIN m_players' : m_players'[i].peer = id}
                = {i \in DOMAIN m_players : m_players[i].peer = id}
      BY <2>6, <2>8, <2>9, <2>10
    <3>4. QED
      BY <3>2, <3>3 DEF Playing
  <2>12. /\ DOMAIN clients' = DOMAIN clients
         /\ \A id \in DOMAIN clients : id # Sender => clients'[id] = clients[id]
    BY <2>5
  <2>13. ClientsOK' /\ \A id \in DOMAIN clients : clients'[id] \in Client
    BY <1>1, <2>1, <2>5, <2>12 DEF ClientsOK, Before, TypeOK
  <2>14. ASSUME NEW id \in DOMAIN clients', clients'[id].state \in {"Active", "SudoMode"}
         PROVE  Playing(id)' # {}
    <3>1. CASE id = s
      BY <2>11, <3>1
    <3>2. CASE id # s
      BY <2>10, <2>11, <2>12, <2>14, <3>2 DEF Before, OnePlayerPerClient
    <3>3. QED
      BY <3>1, <3>2
  <2>15. \A id \in Ids : \A i, j \in Playing(id)' : i = j
    <3>1. \A id \in Ids : \A i, j \in Playing(id) : i = j
      BY DEF Before, OnePlayerPerClient
    <3>2. QED
      BY <2>11, <3>1
  <2>16. ASSUME NEW i \in DOMAIN m_players', m_players'[i].peer # 0
         PROVE  /\ m_players'[i].peer \in DOMAIN clients'
                /\ clients'[m_players'[i].peer].name = m_players'[i].name
                /\ clients'[m_players'[i].peer].state
                      \in {"Active", "SudoMode", "Denied"}
    <3>1. CASE i = k
      BY <2>1, <2>5, <2>6, <2>8, <2>12, <3>1 DEF Exists, MayPlay
    <3>2. CASE i # k
      <4>1. i \in DOMAIN m_players /\ m_players'[i] = m_players[i]
        BY <2>9, <3>2
      <4>2. m_players[i].peer # Sender
        BY <2>4, <4>1 DEF Playing
      <4>3. /\ m_players[i].peer \in DOMAIN clients
            /\ clients[m_players[i].peer].name = m_players[i].name
            /\ clients[m_players[i].peer].state \in {"Active", "SudoMode", "Denied"}
        BY <2>16, <4>1 DEF Before, OnePlayerPerClient
      <4>4. QED
        BY <2>12, <4>1, <4>2, <4>3
    <3>3. QED
      BY <3>1, <3>2
  <2>17. OnePlayerPerClient'
    BY <2>14, <2>15, <2>16 DEF OnePlayerPerClient
  <2>18. QED
    BY <1>1, <2>5, <2>8, <2>12, <2>13, <2>17 DEF Handled
<1>4. QED
  <2>1. Exists => State = clients[Sender].state
    BY <1>1, SenderIs
  <2>2. QED
    BY <1>2, <1>3, <2>1 DEF ClientReady, AtLeast

(* Handled leaves the peers alone: who has a client has one still. *)
LEMMA HandledKeepsPeers ==
    ASSUME TypeOK, QueueOK, ClientPerPeer, Handled, DOMAIN clients' = DOMAIN clients
    PROVE  QueueOK' /\ ClientPerPeer' /\ m_event_queue' \in Seq(Event)
<1>1. QueueOK' /\ m_event_queue' \in Seq(Event)
  BY PopQueue DEF Handled
<1>2. \A id : /\ Queued("added", id)' <=> Queued("added", id)
              /\ Queued("removed", id)' <=> Queued("removed", id)
  BY PopQueued DEF Handled
<1>3. link' = link
  BY DEF Handled, Pop
<1>4. QED
  BY <1>1, <1>2, <1>3 DEF ClientPerPeer

LEMMA PacketSteps == IInv /\ HandlePacket => IInv'
<1> SUFFICES ASSUME IInv, HandlePacket PROVE IInv'
  OBVIOUS
<1>1. Before /\ TypeOK /\ QueueOK /\ ClientPerPeer
  BY DEF IInv, Before
<1>2. /\ Handled /\ auth' \subseteq Names /\ m_players' \in Seq(Player)
      /\ DOMAIN clients' = DOMAIN clients /\ ClientsOK' /\ OnePlayerPerClient'
      /\ \A id \in DOMAIN clients : clients'[id] \in Client
  <2>1. CASE ClientReady
    BY <1>1, <2>1, ClientReadySteps DEF TypeOK
  <2>2. CASE ~ ClientReady
    <3>1. Served /\ SamePlayers /\ Handled
      BY <1>1, <2>2, InitPacketServed, FirstSrpServed, SrpBytesAServed,
         SrpBytesMServed, Init2Served, PlayServed DEF HandlePacket
    <3>2. QED
      BY <1>1, <3>1, ServedClients, ServedPlayers
         DEF Before, Served, SamePlayers, ClientsOK
  <2>3. QED
    BY <2>1, <2>2
<1>3. QueueOK' /\ ClientPerPeer' /\ m_event_queue' \in Seq(Event)
  BY <1>1, <1>2, HandledKeepsPeers
<1>4. TypeOK'
  BY <1>1, <1>2, <1>3 DEF TypeOK, Handled, Pop, Event
<1>5. QED
  BY <1>2, <1>3, <1>4 DEF IInv
-----------------------------------------------------------------------------
(* The steps of the Connection. *)

\* A step that leaves the server's own state alone.
LEMMA ServerUnchanged ==
    ASSUME IInv, UNCHANGED svars, QueueOK', ClientPerPeer',
           m_event_queue' \in Seq(Event),
           link' \in [Ids -> {"none", "up", "gone"}],
           hand' \in Seq(DataEvent) /\ Len(hand') <= 1
    PROVE  IInv'
<1>1. TypeOK'
  BY DEF IInv, TypeOK, svars, Event
<1>2. ClientsOK'
  BY DEF IInv, ClientsOK, svars
<1>3. OnePlayerPerClient'
  BY DEF IInv, OnePlayerPerClient, Playing, svars
<1>4. QED
  BY <1>1, <1>2, <1>3 DEF IInv

LEMMA ArrivingStep ==
    ASSUME IInv, NEW id \in Ids, Arriving(id)
    PROVE  IInv'
<1> DEFINE e == [type |-> "added", id |-> id]
<1>1. /\ TypeOK /\ QueueOK /\ ClientPerPeer /\ UNCHANGED svars
      /\ link[id] = "none" /\ link' = [link EXCEPT ![id] = "up"]
      /\ Put(e) /\ hand' = hand /\ link \in [Ids -> {"none", "up", "gone"}]
  BY DEF IInv, Arriving, Arrives, TypeOK
<1>2. e \in Event /\ e.type = "added" /\ e.id = id
  BY DEF Event, PeerEvent
<1> HIDE DEF e
<1>3. /\ link' \in [Ids -> {"none", "up", "gone"}] /\ link'[id] = "up"
      /\ \A j \in Ids : j # id => link'[j] = link[j]
  BY <1>1
<1>4. QueueOK' /\ m_event_queue' \in Seq(Event)
  BY <1>1, <1>2, <1>3, PutQueue
<1>5. /\ \A j : Queued("added", j)' <=> Queued("added", j) \/ id = j
      /\ \A j : Queued("removed", j)' <=> Queued("removed", j)
  BY <1>1, <1>2, PutQueued
<1>6. ClientPerPeer'
  <2>1. \A j \in Ids :
           (/\ link'[j] # "none" /\ ~ Queued("added", j)'
            /\ link'[j] = "up" \/ Queued("removed", j)')
           <=> (/\ link[j] # "none" /\ ~ Queued("added", j)
                /\ link[j] = "up" \/ Queued("removed", j))
    BY <1>1, <1>3, <1>5
  <2>2. clients' = clients
    BY <1>1 DEF svars
  <2>3. QED
    BY <1>1, <2>1, <2>2 DEF ClientPerPeer
<1>7. QED
  BY <1>1, <1>3, <1>4, <1>6, ServerUnchanged DEF TypeOK

LEMMA LeavingStep ==
    ASSUME IInv, NEW id \in Ids, Leaving(id)
    PROVE  IInv'
<1> DEFINE e == [type |-> "removed", id |-> id]
<1>1. /\ TypeOK /\ QueueOK /\ ClientPerPeer /\ UNCHANGED svars
      /\ link[id] = "up" /\ link' = [link EXCEPT ![id] = "gone"]
      /\ Put(e) /\ hand' = hand /\ link \in [Ids -> {"none", "up", "gone"}]
  BY DEF IInv, Leaving, Leaves, TypeOK
<1>2. e \in Event /\ e.type = "removed" /\ e.id = id
  BY DEF Event, PeerEvent
<1> HIDE DEF e
<1>3. /\ link' \in [Ids -> {"none", "up", "gone"}] /\ link'[id] = "gone"
      /\ \A j \in Ids : j # id => link'[j] = link[j]
  BY <1>1
<1>4. QueueOK' /\ m_event_queue' \in Seq(Event)
  BY <1>1, <1>2, <1>3, PutQueue
<1>5. /\ \A j : Queued("removed", j)' <=> Queued("removed", j) \/ id = j
      /\ \A j : Queued("added", j)' <=> Queued("added", j)
  BY <1>1, <1>2, PutQueued
<1>6. ClientPerPeer'
  <2>1. \A j \in Ids :
           (/\ link'[j] # "none" /\ ~ Queued("added", j)'
            /\ link'[j] = "up" \/ Queued("removed", j)')
           <=> (/\ link[j] # "none" /\ ~ Queued("added", j)
                /\ link[j] = "up" \/ Queued("removed", j))
    BY <1>1, <1>3, <1>5
  <2>2. clients' = clients
    BY <1>1 DEF svars
  <2>3. QED
    BY <1>1, <2>1, <2>2 DEF ClientPerPeer
<1>7. QED
  BY <1>1, <1>3, <1>4, <1>6, ServerUnchanged DEF TypeOK

LEMMA TakesPacketStep ==
    ASSUME IInv, NEW id \in Ids, NEW m \in Msgs, TakesPacket(id, m)
    PROVE  IInv'
<1> DEFINE e == [type |-> "data", id |-> id, msg |-> m]
<1>1. /\ hand' = << e >> /\ UNCHANGED << link, m_event_queue, svars >>
      /\ e \in DataEvent
  BY DEF TakesPacket, Grab, DataEvent
<1> HIDE DEF e
<1>2. hand' \in Seq(DataEvent) /\ Len(hand') <= 1
  BY <1>1
<1>3. QueueOK' /\ ClientPerPeer' /\ m_event_queue' \in Seq(Event)
  BY <1>1 DEF IInv, QueueOK, ClientPerPeer, Queued, TypeOK, Event, svars
<1>4. QED
  BY <1>1, <1>2, <1>3, ServerUnchanged DEF IInv, TypeOK

LEMMA PutsPacketStep ==
    ASSUME IInv, PutsPacket
    PROVE  IInv'
<1> DEFINE e == hand[1]
<1>1. /\ TypeOK /\ QueueOK /\ ClientPerPeer /\ UNCHANGED << link, svars >>
      /\ Put(e) /\ hand' = << >> /\ hand \in Seq(DataEvent) /\ hand # << >>
  BY DEF IInv, PutsPacket, Hand, TypeOK
<1>2. e \in Event /\ e.type = "data"
  <2>1. e \in DataEvent
    BY <1>1, TailFacts
  <2>2. QED
    BY <2>1 DEF Event, DataEvent
<1> HIDE DEF e
<1>3. QueueOK' /\ m_event_queue' \in Seq(Event)
  BY <1>1, <1>2, PutQueue
<1>4. /\ \A j : Queued("added", j)' <=> Queued("added", j)
      /\ \A j : Queued("removed", j)' <=> Queued("removed", j)
  BY <1>1, <1>2, PutQueued
<1>5. ClientPerPeer'
  BY <1>1, <1>4 DEF ClientPerPeer, svars
<1>6. hand' \in Seq(DataEvent) /\ Len(hand') <= 1
  BY <1>1
<1>7. QED
  BY <1>1, <1>3, <1>5, <1>6, ServerUnchanged DEF TypeOK
-----------------------------------------------------------------------------
(* A client comes, goes, and is shown out. *)

\* No event about a peer's coming or going is put twice.
LEMMA HeadOnce ==
    ASSUME TypeOK, QueueOK, Pop, NEW type, NEW id, type # "data",
           Head(m_event_queue).type = type, Head(m_event_queue).id = id
    PROVE  /\ Queued(type, id) /\ ~ Queued(type, id)'
           /\ type = "removed" => ~ Queued("added", id) /\ link[id] = "gone"
           /\ type = "added" => link[id] # "none"
           /\ id \in Ids
<1> DEFINE q == m_event_queue
<1>1. q \in Seq(Event) /\ q # << >> /\ q' = Tail(q)
  BY DEF TypeOK, Pop, Event
<1>2. /\ 1 \in DOMAIN q /\ Head(q) = q[1] /\ Head(q) \in Event
      /\ \A i \in DOMAIN Tail(q) :
            i + 1 \in DOMAIN q /\ Tail(q)[i] = q[i + 1] /\ i + 1 # 1
      /\ \A i \in DOMAIN q : ~ (i < 1)
  BY <1>1, TailFacts
<1>3. q[1].type = type /\ q[1].id = id
  BY <1>2
<1>4. Queued(type, id)
  BY <1>2, <1>3 DEF Queued
<1>5. ~ Queued(type, id)'
  <2> SUFFICES ASSUME NEW i \in DOMAIN Tail(q), Tail(q)[i].type = type,
                      Tail(q)[i].id = id
               PROVE  FALSE
    BY <1>1 DEF Queued
  <2>1. q[i + 1].type = type /\ q[i + 1].id = id /\ i + 1 \in DOMAIN q
        /\ i + 1 # 1
    BY <1>2
  <2>2. QED
    BY <1>2, <1>3, <2>1 DEF QueueOK
<1>6. type = "removed" => ~ Queued("added", id)
  BY <1>2, <1>3 DEF QueueOK, Queued
<1>7. id \in Ids
  BY <1>2, <1>3, EventTypes
<1>8. /\ type = "added" => link[id] # "none"
      /\ type = "removed" => link[id] = "gone"
  BY <1>2, <1>3 DEF QueueOK
<1>9. QED
  BY <1>4, <1>5, <1>6, <1>7, <1>8

LEMMA PeerAddedStep ==
    ASSUME IInv, PeerAdded
    PROVE  IInv'
<1>1. /\ TypeOK /\ QueueOK /\ ClientPerPeer /\ ClientsOK /\ OnePlayerPerClient
      /\ Pop /\ Head(m_event_queue).type = "added"
      /\ UNCHANGED << link, hand, auth, m_players, database, asked >>
  BY DEF IInv, PeerAdded, Pop
<1>2. PICK s : s = Sender
  OBVIOUS
<1>3. Head(m_event_queue).id = s
  BY <1>2 DEF Sender
<1>4. /\ clients' = [id \in DOMAIN clients \cup {s} |->
                      IF id \in DOMAIN clients THEN clients[id] ELSE Created]
  BY <1>2 DEF PeerAdded
<1>5. /\ s \in Ids /\ link[s] # "none"
      /\ Queued("added", s) /\ ~ Queued("added", s)'
  BY <1>1, <1>3, HeadOnce
<1>6. /\ \A id : id # s => (Queued("added", id)' <=> Queued("added", id))
      /\ \A id : Queued("removed", id)' <=> Queued("removed", id)
  BY <1>1, <1>3, PopQueued
<1>7. link[s] = "up" \/ Queued("removed", s)
  BY <1>1, <1>5 DEF QueueOK, TypeOK
<1>8. s \notin DOMAIN clients
  BY <1>1, <1>5 DEF ClientPerPeer
<1>9. /\ DOMAIN clients' = DOMAIN clients \cup {s} /\ clients'[s] = Created
      /\ \A id \in DOMAIN clients : clients'[id] = clients[id]
  BY <1>4, <1>8
<1>10. Created \in Client /\ ClientOK(Created, auth)
  BY StateSet DEF Created, Client, ClientOK, Past
<1>11. QueueOK' /\ m_event_queue' \in Seq(Event)
  BY <1>1, PopQueue
<1>12. TypeOK'
  BY <1>1, <1>5, <1>9, <1>10, <1>11 DEF TypeOK, Event
<1>13. ClientPerPeer'
  BY <1>1, <1>5, <1>6, <1>7, <1>9 DEF ClientPerPeer
<1>14. ClientsOK'
  BY <1>1, <1>9, <1>10 DEF ClientsOK
<1>15. OnePlayerPerClient'
  <2>1. \A id : Playing(id)' = Playing(id)
    BY <1>1 DEF Playing
  <2>2. clients'[s].state = "Created"
    BY <1>9 DEF Created
  <2>3. QED
    BY <1>1, <1>9, <2>1, <2>2 DEF OnePlayerPerClient
<1>16. QED
  BY <1>11, <1>12, <1>13, <1>14, <1>15 DEF IInv

LEMMA DeletingPeerStep ==
    ASSUME IInv, DeletingPeer
    PROVE  IInv'
<1>1. /\ TypeOK /\ QueueOK /\ ClientPerPeer /\ ClientsOK /\ OnePlayerPerClient
      /\ Pop /\ Head(m_event_queue).type = "removed"
      /\ UNCHANGED << link, hand, auth, database, asked >>
  BY DEF IInv, DeletingPeer, Pop
<1>2. PICK s : s = Sender
  OBVIOUS
<1>3. Head(m_event_queue).id = s
  BY <1>2 DEF Sender
<1>4. clients' = Restrict(clients, DOMAIN clients \ {s}) /\ m_players' = Over(s)
  BY <1>2 DEF DeletingPeer
<1>5. /\ s \in Ids /\ link[s] = "gone" /\ ~ Queued("removed", s)'
  BY <1>1, <1>3, HeadOnce
<1>6. /\ \A id : id # s => (Queued("removed", id)' <=> Queued("removed", id))
      /\ \A id : Queued("added", id)' <=> Queued("added", id)
  BY <1>1, <1>3, PopQueued
<1>7. /\ DOMAIN clients' = DOMAIN clients \ {s}
      /\ \A id \in DOMAIN clients \ {s} : clients'[id] = clients[id]
  BY <1>4 DEF Restrict
<1>8. QueueOK' /\ m_event_queue' \in Seq(Event)
  BY <1>1, PopQueue
<1>9. ClientPerPeer'
  BY <1>1, <1>5, <1>6, <1>7 DEF ClientPerPeer
<1>10. ClientsOK'
  BY <1>1, <1>7 DEF ClientsOK
<1>11. /\ m_players' \in Seq(Player) /\ DOMAIN m_players' = DOMAIN m_players
       /\ \A i \in DOMAIN m_players :
             /\ m_players'[i].name = m_players[i].name
             /\ m_players'[i].peer = IF m_players[i].peer = s
                                     THEN 0 ELSE m_players[i].peer
  <2>1. m_players \in Seq(Player)
    BY <1>1 DEF TypeOK
  <2>2. \A r \in Player : /\ [r EXCEPT !.peer = 0] \in Player
                          /\ [r EXCEPT !.peer = 0].name = r.name
                          /\ [r EXCEPT !.peer = 0].peer = 0
    BY DEF Player
  <2>3. \A i \in DOMAIN m_players :
           m_players'[i] = IF m_players[i].peer = s
                           THEN [m_players[i] EXCEPT !.peer = 0]
                           ELSE m_players[i]
    BY <1>4 DEF Over
  <2>4. \A i \in DOMAIN m_players : m_players[i] \in Player
    BY <2>1
  <2>5. m_players' = [i \in DOMAIN m_players |-> m_players'[i]]
        /\ DOMAIN m_players = 1 .. Len(m_players) /\ Len(m_players) \in Nat
    BY <1>4, <2>1 DEF Over
  <2>6. \A i \in DOMAIN m_players : m_players'[i] \in Player
    BY <2>2, <2>3, <2>4
  <2>7. m_players' \in [1 .. Len(m_players) -> Player]
    BY <2>5, <2>6
  <2>8. m_players' \in Seq(Player)
    BY <2>5, <2>7, SeqDef
  <2>9. ASSUME NEW i \in DOMAIN m_players
        PROVE  /\ m_players'[i].name = m_players[i].name
               /\ m_players'[i].peer = IF m_players[i].peer = s
                                       THEN 0 ELSE m_players[i].peer
    <3>1. PICK r \in Player : r = m_players[i]
      BY <2>4
    <3>2. CASE r.peer = s
      <4>1. m_players'[i] = [r EXCEPT !.peer = 0]
        BY <2>3, <3>1, <3>2
      <4>2. m_players'[i].name = r.name /\ m_players'[i].peer = 0
        BY <2>2, <4>1
      <4>3. QED
        BY <3>1, <3>2, <4>2
    <3>3. CASE r.peer # s
      BY <2>3, <3>1, <3>3
    <3>4. QED
      BY <3>2, <3>3
  <2>10. DOMAIN m_players' = DOMAIN m_players
    BY <1>4 DEF Over
  <2>11. QED
    BY <2>8, <2>9, <2>10
<1>12. OnePlayerPerClient'
  <2>1. \A id : id # s /\ id # 0 => Playing(id)' = Playing(id)
    <3>1. \A id : id # s /\ id # 0 => \A i \in DOMAIN m_players :
             m_players'[i].peer = id <=> m_players[i].peer = id
      BY <1>11
    <3>2. QED
      BY <1>11, <3>1 DEF Playing
  <2>2. Playing(s)' = {}
    BY <1>5, <1>11, SessionsAssumption DEF Playing
  <2>3. ASSUME NEW id \in DOMAIN clients', clients'[id].state \in {"Active", "SudoMode"}
        PROVE  Playing(id)' # {}
    <3>1. id # s /\ id # 0
      BY <1>1, <1>7, SessionsAssumption DEF TypeOK
    <3>2. QED
      BY <1>1, <1>7, <2>1, <2>3, <3>1 DEF OnePlayerPerClient
  <2>4. \A id \in Ids : \A i, j \in Playing(id)' : i = j
    BY <1>1, <2>1, <2>2, SessionsAssumption DEF OnePlayerPerClient
  <2>5. ASSUME NEW i \in DOMAIN m_players', m_players'[i].peer # 0
        PROVE  /\ m_players'[i].peer \in DOMAIN clients'
               /\ clients'[m_players'[i].peer].name = m_players'[i].name
               /\ clients'[m_players'[i].peer].state
                     \in {"Active", "SudoMode", "Denied"}
    <3>1. /\ i \in DOMAIN m_players /\ m_players[i].peer # s
          /\ m_players'[i].peer = m_players[i].peer
          /\ m_players'[i].name = m_players[i].name
      BY <1>11, <2>5
    <3>2. /\ m_players[i].peer \in DOMAIN clients
          /\ clients[m_players[i].peer].name = m_players[i].name
          /\ clients[m_players[i].peer].state \in {"Active", "SudoMode", "Denied"}
      BY <1>1, <2>5, <3>1 DEF OnePlayerPerClient
    <3>3. QED
      BY <1>7, <3>1, <3>2
  <2>6. QED
    BY <2>3, <2>4, <2>5 DEF OnePlayerPerClient
<1>13. TypeOK'
  BY <1>1, <1>7, <1>8, <1>11 DEF TypeOK, Event
<1>14. QED
  BY <1>8, <1>9, <1>10, <1>12, <1>13 DEF IInv

LEMMA KickStep ==
    ASSUME IInv, NEW id \in Ids, Kick(id)
    PROVE  IInv'
<1>1. /\ TypeOK /\ QueueOK /\ ClientPerPeer /\ ClientsOK /\ OnePlayerPerClient
      /\ UNCHANGED << pvars, auth, m_players, database >>
      /\ id \in DOMAIN clients /\ asked' = asked \cup {id}
      /\ clients' = [clients EXCEPT ![id] = Denied(clients[id])]
  BY DEF IInv, Kick, Disconnect
<1>2. /\ Denied(clients[id]) \in Client /\ ClientOK(Denied(clients[id]), auth)
      /\ Step(clients[id], Denied(clients[id]))
  BY <1>1, DeniedGood DEF TypeOK, ClientsOK
<1>3. Served /\ SamePlayers
  BY <1>1, <1>2 DEF Served, SamePlayers, TypeOK
<1>4. /\ DOMAIN clients' = DOMAIN clients /\ ClientsOK' /\ OnePlayerPerClient'
      /\ \A j \in DOMAIN clients : clients'[j] \in Client
  BY <1>1, <1>3, ServedClients, ServedPlayers DEF ClientsOK
<1>5. QueueOK' /\ ClientPerPeer'
  BY <1>1, <1>4 DEF QueueOK, ClientPerPeer, Queued, pvars
<1>6. TypeOK'
  BY <1>1, <1>4 DEF TypeOK, pvars
<1>7. QED
  BY <1>4, <1>5, <1>6 DEF IInv

\* A step that leaves the Connection and the clients alone.
LEMMA ClientsUnchanged ==
    ASSUME IInv, UNCHANGED << pvars, clients, auth >>
    PROVE  QueueOK' /\ ClientPerPeer' /\ ClientsOK'
BY DEF IInv, QueueOK, ClientPerPeer, ClientsOK, Queued, pvars

LEMMA DisconnectLingeringStep ==
    ASSUME IInv, NEW id \in Ids, DisconnectLingering(id)
    PROVE  IInv'
<1>1. /\ TypeOK /\ OnePlayerPerClient
      /\ UNCHANGED << pvars, clients, auth, m_players, database >>
      /\ asked' = asked \cup {id}
  BY DEF IInv, DisconnectLingering, Disconnect
<1>2. QueueOK' /\ ClientPerPeer' /\ ClientsOK'
  BY <1>1, ClientsUnchanged
<1>3. TypeOK' /\ OnePlayerPerClient'
  BY <1>1 DEF TypeOK, OnePlayerPerClient, Playing, pvars
<1>4. QED
  BY <1>2, <1>3 DEF IInv
-----------------------------------------------------------------------------
(* A player is taken out, or all are saved. *)

\* A sequence without its i-th element, and where the others have gone.
Without(q, i) == SubSeq(q, 1, i - 1) \o SubSeq(q, i + 1, Len(q))
Old(i, k) == IF k < i THEN k ELSE k + 1
Moved(q, i, r) ==
    /\ \A k \in DOMAIN r : Old(i, k) \in DOMAIN q /\ r[k] = q[Old(i, k)]
    /\ \A j \in DOMAIN q : j # i => \E k \in DOMAIN r : r[k] = q[j]
    /\ \A k, l \in DOMAIN r : Old(i, k) = Old(i, l) => k = l

LEMMA WithoutFacts ==
    ASSUME NEW S, NEW q \in Seq(S), NEW i \in DOMAIN q
    PROVE  Without(q, i) \in Seq(S) /\ Moved(q, i, Without(q, i))
<1> DEFINE n == Len(q)
           a == SubSeq(q, 1, i - 1)
           b == SubSeq(q, i + 1, n)
           r == Without(q, i)
<1>1. n \in Nat /\ DOMAIN q = 1 .. n /\ i \in 1 .. n /\ \A j \in 1 .. n : q[j] \in S
  BY LenProperties, ElementOfSeq
<1>2. /\ a \in Seq(S) /\ Len(a) = i - 1
      /\ \A k \in 1 .. i - 1 : a[k] = q[k]
  <2>1. \A k \in 1 .. i - 1 : q[k] \in S
    BY <1>1
  <2>2. 1 \in Int /\ i - 1 \in Int
    BY <1>1
  <2>3. /\ a \in Seq(S) /\ Len(a) = IF 1 <= i - 1 THEN (i - 1) - 1 + 1 ELSE 0
        /\ \A k \in 1 .. (i - 1) - 1 + 1 : a[k] = q[1 + k - 1]
    BY <2>1, <2>2, SubSeqProperties
  <2> HIDE DEF a
  <2>4. QED
    BY <1>1, <2>3
<1>3. /\ b \in Seq(S) /\ Len(b) = n - i
      /\ \A k \in 1 .. n - i : b[k] = q[k + i]
  <2>1. \A k \in i + 1 .. n : q[k] \in S
    BY <1>1
  <2>2. i + 1 \in Int /\ n \in Int
    BY <1>1
  <2>3. /\ b \in Seq(S) /\ Len(b) = IF i + 1 <= n THEN n - (i + 1) + 1 ELSE 0
        /\ \A k \in 1 .. n - (i + 1) + 1 : b[k] = q[(i + 1) + k - 1]
    BY <2>1, <2>2, SubSeqProperties
  <2> HIDE DEF b
  <2>4. n - (i + 1) + 1 = n - i /\ \A k \in 1 .. n - i : (i + 1) + k - 1 = k + i
    BY <1>1
  <2>5. Len(b) = n - i
    BY <1>1, <2>3
  <2>6. QED
    BY <2>3, <2>4, <2>5
<1> HIDE DEF a, b, r
<1>4. /\ r \in Seq(S) /\ Len(r) = n - 1 /\ DOMAIN r = 1 .. n - 1
      /\ \A k \in 1 .. n - 1 : r[k] = IF k <= i - 1 THEN a[k] ELSE b[k - (i - 1)]
  <2> DEFINE ab == a \o b
  <2>0. r = ab
    BY DEF r, a, b, Without
  <2>1. /\ ab \in Seq(S) /\ Len(ab) = Len(a) + Len(b)
        /\ \A k \in 1 .. Len(a) + Len(b) :
              ab[k] = IF k <= Len(a) THEN a[k] ELSE b[k - Len(a)]
    BY <1>2, <1>3, ConcatProperties
  <2> HIDE DEF ab
  <2>2. Len(a) + Len(b) = n - 1
    BY <1>1, <1>2, <1>3
  <2>3. DOMAIN r = 1 .. n - 1
    BY <2>0, <2>1, <2>2, LenProperties
  <2>4. QED
    BY <1>2, <2>0, <2>1, <2>2, <2>3
<1>5. ASSUME NEW k \in 1 .. n - 1
      PROVE  /\ k < i => k \in 1 .. n /\ r[k] = q[k]
             /\ ~ (k < i) => k + 1 \in 1 .. n /\ r[k] = q[k + 1]
  <2>1. CASE k < i
    BY <1>1, <1>2, <1>4, <2>1
  <2>2. CASE ~ (k < i)
    <3>1. k - (i - 1) \in 1 .. n - i /\ k - (i - 1) + i = k + 1 /\ ~ (k <= i - 1)
          /\ k + 1 \in 1 .. n
      BY <1>1, <2>2
    <3>2. r[k] = b[k - (i - 1)]
      BY <1>4, <3>1
    <3>3. QED
      BY <1>3, <2>2, <3>1, <3>2
  <2>3. QED
    BY <2>1, <2>2
<1>6. ASSUME NEW j \in 1 .. n, j # i
      PROVE  /\ j < i => j \in 1 .. n - 1 /\ r[j] = q[j]
             /\ ~ (j < i) => j - 1 \in 1 .. n - 1 /\ r[j - 1] = q[j]
  <2>1. CASE j < i
    <3>1. j \in 1 .. n - 1
      BY <1>1, <2>1
    <3>2. QED
      BY <1>5, <2>1, <3>1
  <2>2. CASE ~ (j < i)
    <3>1. j - 1 \in 1 .. n - 1 /\ ~ (j - 1 < i) /\ j - 1 + 1 = j
      BY <1>1, <1>6, <2>2
    <3>2. QED
      BY <1>5, <2>2, <3>1
  <2>3. QED
    BY <2>1, <2>2
<1>7. \A k \in DOMAIN r : Old(i, k) \in DOMAIN q /\ r[k] = q[Old(i, k)]
  BY <1>1, <1>4, <1>5 DEF Old
<1>8. \A j \in DOMAIN q : j # i => \E k \in DOMAIN r : r[k] = q[j]
  BY <1>1, <1>4, <1>6
<1>9. \A k, l \in DOMAIN r : Old(i, k) = Old(i, l) => k = l
  BY <1>1, <1>4 DEF Old
<1>10. QED
  BY <1>4, <1>7, <1>8, <1>9 DEF Moved, r

LEMMA RemovePlayerStep ==
    ASSUME IInv, NEW i \in DOMAIN m_players, RemovePlayer(i)
    PROVE  IInv'
<1>1. /\ TypeOK /\ OnePlayerPerClient /\ m_players \in Seq(Player)
      /\ UNCHANGED << pvars, clients, auth, asked >>
      /\ m_players[i].peer = 0
      /\ database' = [database EXCEPT ![m_players[i].name] = m_players[i].data]
      /\ m_players' = Without(m_players, i)
  BY DEF IInv, RemovePlayer, TypeOK, Without
<1>2. m_players' \in Seq(Player) /\ Moved(m_players, i, m_players')
  BY <1>1, WithoutFacts
<1>3. /\ \A k \in DOMAIN m_players' :
            /\ Old(i, k) \in DOMAIN m_players
            /\ m_players'[k] = m_players[Old(i, k)]
      /\ \A j \in DOMAIN m_players : j # i =>
            \E k \in DOMAIN m_players' : m_players'[k] = m_players[j]
      /\ \A k, l \in DOMAIN m_players' : Old(i, k) = Old(i, l) => k = l
  BY <1>2 DEF Moved
<1>4. database' \in [Names -> 0 .. MaxChanges]
  <2>1. m_players[i] \in Player /\ database \in [Names -> 0 .. MaxChanges]
    BY <1>1 DEF TypeOK
  <2>2. QED
    BY <1>1, <2>1 DEF Player
<1>5. TypeOK'
  BY <1>1, <1>2, <1>4 DEF TypeOK, pvars
<1>6. ASSUME NEW id \in DOMAIN clients', clients'[id].state \in {"Active", "SudoMode"}
      PROVE  Playing(id)' # {}
  <2>1. id \in Ids /\ id # 0 /\ Playing(id) # {}
    BY <1>1, <1>6, SessionsAssumption DEF TypeOK, OnePlayerPerClient
  <2>2. PICK j \in DOMAIN m_players : m_players[j].peer = id
    BY <2>1 DEF Playing
  <2>3. \E k \in DOMAIN m_players' : m_players'[k].peer = id
    BY <1>1, <1>3, <2>1, <2>2
  <2>4. QED
    BY <2>3 DEF Playing
<1>7. ASSUME NEW id \in Ids, NEW k \in Playing(id)', NEW l \in Playing(id)'
      PROVE  k = l
  <2>1. /\ k \in DOMAIN m_players' /\ m_players'[k].peer = id
        /\ l \in DOMAIN m_players' /\ m_players'[l].peer = id
    BY DEF Playing
  <2>2. Old(i, k) \in Playing(id) /\ Old(i, l) \in Playing(id)
    BY <1>3, <2>1 DEF Playing
  <2>3. Old(i, k) = Old(i, l)
    BY <1>1, <2>2 DEF OnePlayerPerClient
  <2>4. QED
    BY <1>3, <2>1, <2>3
<1>8. ASSUME NEW k \in DOMAIN m_players', m_players'[k].peer # 0
      PROVE  /\ m_players'[k].peer \in DOMAIN clients'
             /\ clients'[m_players'[k].peer].name = m_players'[k].name
             /\ clients'[m_players'[k].peer].state
                   \in {"Active", "SudoMode", "Denied"}
  <2>1. PICK j \in DOMAIN m_players : m_players'[k] = m_players[j]
    BY <1>3
  <2>2. /\ m_players[j].peer \in DOMAIN clients
        /\ clients[m_players[j].peer].name = m_players[j].name
        /\ clients[m_players[j].peer].state \in {"Active", "SudoMode", "Denied"}
    BY <1>1, <1>8, <2>1 DEF OnePlayerPerClient
  <2>3. QED
    BY <1>1, <2>1, <2>2
<1>9. OnePlayerPerClient'
  BY <1>6, <1>7, <1>8 DEF OnePlayerPerClient
<1>10. QED
  BY <1>1, <1>5, <1>9, ClientsUnchanged DEF IInv

\* A strict subset comes before its superset.
LEMMA SmallerSet ==
    ASSUME NEW S, NEW A \in SUBSET S, NEW X \in SUBSET S, A \subseteq X, A # X
    PROVE  << A, X >> \in StrictSubsetOrdering(S)
<1> DEFINE p == << A, X >>
<1>1. p \in (SUBSET S) \X (SUBSET S) /\ p[1] = A /\ p[2] = X
  OBVIOUS
<1> HIDE DEF p
<1>2. p \in StrictSubsetOrdering(S)
  BY <1>1 DEF StrictSubsetOrdering
<1>3. QED
  BY <1>2 DEF p

\* Of some indices one is the last.
LEMMA LastIndex ==
    ASSUME NEW n \in Nat, NEW S \in SUBSET (1 .. n), S # {}
    PROVE  \E m \in S : \A c \in S : c <= m
<1> DEFINE Later(m) == {c \in S : c > m}
           T == {Later(m) : m \in S}
<1>1. IsFiniteSet(S)
  <2>1. IsFiniteSet(1 .. n)
    <3>1. 1 \in Int /\ n \in Int
      OBVIOUS
    <3>2. QED
      BY <3>1, FS_Interval
  <2>2. QED
    BY <2>1, FS_Subset
<1>2. IsWellFoundedOn(StrictSubsetOrdering(S), SUBSET S)
  BY <1>1, FS_StrictSubsetOrderingWellFounded, FS_FiniteSubsetsOfFinite
<1>3. T \subseteq SUBSET S /\ T # {}
  OBVIOUS
<1>4. PICK X \in T : \A Y \in T : ~ (<< Y, X >> \in StrictSubsetOrdering(S))
  BY <1>2, <1>3, WFMin
<1>5. PICK m \in S : X = Later(m)
  OBVIOUS
<1>6. \A c \in S : c <= m
  <2> SUFFICES ASSUME NEW c \in S, ~ (c <= m)
               PROVE  FALSE
    OBVIOUS
  <2>1. c \in Later(m) /\ c \notin Later(c) /\ Later(c) \subseteq Later(m)
    <3>1. \A d \in S : d \in Int
      OBVIOUS
    <3>2. c > m /\ ~ (c > c) /\ \A d \in S : d > c => d > m
      BY <3>1
    <3>3. QED
      BY <3>2
  <2>2. Later(c) \in SUBSET S /\ X \in SUBSET S /\ Later(c) \subseteq X /\ Later(c) # X
        /\ Later(c) \in T
    BY <1>5, <2>1
  <2> HIDE DEF Later, T
  <2>3. << Later(c), X >> \in StrictSubsetOrdering(S)
    BY <2>2, SmallerSet
  <2>4. QED
    BY <1>4, <2>2, <2>3
<1>7. QED
  BY <1>6

LEMMA SavePlayersStep ==
    ASSUME IInv, SavePlayers
    PROVE  IInv'
<1>1. /\ TypeOK /\ ClientsOK /\ OnePlayerPerClient /\ m_players \in Seq(Player)
      /\ UNCHANGED << pvars, clients, auth, asked >>
      /\ m_players' = [i \in DOMAIN m_players |->
                         [m_players[i] EXCEPT !.modified = FALSE]]
      /\ database' = [n \in Names |->
            IF Modified(n) = {} THEN database[n]
            ELSE m_players[CHOOSE i \in Modified(n) :
                             \A j \in Modified(n) : j <= i].data]
      /\ database \in [Names -> 0 .. MaxChanges]
  BY DEF IInv, SavePlayers, TypeOK
<1>2. /\ DOMAIN m_players = 1 .. Len(m_players) /\ Len(m_players) \in Nat
      /\ \A i \in DOMAIN m_players : m_players[i] \in Player
  BY <1>1
<1>3. SamePlayers
  <2>1. \A r \in Player : /\ [r EXCEPT !.modified = FALSE] \in Player
                          /\ [r EXCEPT !.modified = FALSE].name = r.name
                          /\ [r EXCEPT !.modified = FALSE].peer = r.peer
    BY DEF Player
  <2>2. m_players' \in [1 .. Len(m_players) -> Player]
    BY <1>1, <1>2, <2>1
  <2>3. m_players' \in Seq(Player)
    BY <1>2, <2>2, SeqDef
  <2>4. QED
    BY <1>1, <1>2, <2>1, <2>3 DEF SamePlayers
<1>4. database' \in [Names -> 0 .. MaxChanges]
  <2> SUFFICES ASSUME NEW n \in Names, Modified(n) # {}
               PROVE  m_players[CHOOSE i \in Modified(n) :
                                  \A j \in Modified(n) : j <= i].data
                         \in 0 .. MaxChanges
    BY <1>1
  <2>1. Modified(n) \subseteq 1 .. Len(m_players)
    BY <1>2 DEF Modified, Named
  <2>2. \E i \in Modified(n) : \A j \in Modified(n) : j <= i
    BY <1>2, <2>1, LastIndex
  <2>3. PICK i \in Modified(n) : i = CHOOSE k \in Modified(n) :
                                       \A j \in Modified(n) : j <= k
    BY <2>2
  <2>4. m_players[i] \in Player
    BY <1>2, <2>1
  <2>5. QED
    BY <2>3, <2>4 DEF Player
<1>5. Served
  BY <1>1 DEF Served, TypeOK
<1>6. OnePlayerPerClient'
  BY <1>1, <1>3, <1>5, ServedPlayers
<1>7. TypeOK'
  BY <1>1, <1>3, <1>4 DEF TypeOK, SamePlayers, pvars
<1>8. QED
  BY <1>1, <1>6, <1>7, ClientsUnchanged DEF IInv
-----------------------------------------------------------------------------
(* The theorems. *)

LEMMA InitIInv == Init => IInv
<1> SUFFICES ASSUME Init PROVE IInv
  OBVIOUS
<1>1. /\ link = [id \in Ids |-> "none"] /\ hand = << >> /\ m_event_queue = << >>
      /\ clients = << >> /\ auth = Registered /\ m_players = << >>
      /\ database = [n \in Names |-> 0] /\ asked = {}
  BY DEF Init, PInit
<1>2. DOMAIN m_event_queue = {} /\ DOMAIN clients = {} /\ DOMAIN m_players = {}
  BY <1>1
<1>3. hand \in Seq(DataEvent) /\ Len(hand) <= 1
      /\ m_event_queue \in Seq(PeerEvent \cup DataEvent) /\ m_players \in Seq(Player)
  BY <1>1
<1>4. 0 \in 0 .. MaxChanges /\ Registered \subseteq Names
  BY SessionsAssumption
<1>5. TypeOK
  BY <1>1, <1>2, <1>3, <1>4 DEF TypeOK
<1>6. QueueOK
  BY <1>1, <1>2 DEF QueueOK, Queued
<1>7. ClientPerPeer
  BY <1>1, <1>2 DEF ClientPerPeer
<1>8. ClientsOK /\ OnePlayerPerClient
  BY <1>2 DEF ClientsOK, OnePlayerPerClient, Playing
<1>9. QED
  BY <1>5, <1>6, <1>7, <1>8 DEF IInv

LEMMA InductiveStep == IInv /\ [Next]_vars => IInv'
<1> SUFFICES ASSUME IInv, [Next]_vars PROVE IInv'
  OBVIOUS
<1>1. CASE UNCHANGED vars
  <2>1. UNCHANGED pvars /\ UNCHANGED svars
    BY <1>1 DEF vars
  <2>2. QueueOK' /\ ClientPerPeer'
    BY <2>1 DEF IInv, QueueOK, ClientPerPeer, Queued, pvars, svars
  <2>3. QED
    BY <2>1, <2>2, ServerUnchanged DEF IInv, TypeOK, pvars, Event
<1>2. ASSUME NEW id \in Ids, Arriving(id) PROVE IInv'
  BY <1>2, ArrivingStep
<1>3. ASSUME NEW id \in Ids, Leaving(id) PROVE IInv'
  BY <1>3, LeavingStep
<1>4. ASSUME NEW id \in Ids, NEW m \in Msgs, TakesPacket(id, m) PROVE IInv'
  BY <1>4, TakesPacketStep
<1>5. ASSUME NEW id \in Ids, Kick(id) PROVE IInv'
  BY <1>5, KickStep
<1>6. ASSUME NEW id \in Ids, DisconnectLingering(id) PROVE IInv'
  BY <1>6, DisconnectLingeringStep
<1>7. CASE PutsPacket
  BY <1>7, PutsPacketStep
<1>8. CASE HandlePacket
  BY <1>8, PacketSteps
<1>9. CASE PeerAdded
  BY <1>9, PeerAddedStep
<1>10. CASE DeletingPeer
  BY <1>10, DeletingPeerStep
<1>11. CASE SavePlayers
  BY <1>11, SavePlayersStep
<1>12. ASSUME NEW i \in DOMAIN m_players, RemovePlayer(i) PROVE IInv'
  BY <1>12, RemovePlayerStep
<1>13. QED
  BY <1>1, <1>2, <1>3, <1>4, <1>5, <1>6, <1>7, <1>8, <1>9, <1>10, <1>11,
     <1>12 DEF Next, HandleEvent

LEMMA Invariance == Spec => []IInv
BY InitIInv, InductiveStep, PTL DEF Spec

\* Every variable keeps its type, whatever the clients send and in what order.
THEOREM TypeCorrect == Spec => []TypeOK
<1>1. IInv => TypeOK
  BY DEF IInv
<1>2. QED
  BY <1>1, Invariance, PTL

\* A peer has a client from the event that adds it to the one that removes it
\* (ClientInterface::CreateClient, DeleteClient), for any number of peers.
THEOREM ClientPerPeerHolds == Spec => []ClientPerPeer
<1>1. IInv => ClientPerPeer
  BY DEF IInv
<1>2. QED
  BY <1>1, Invariance, PTL

\* handleCommand_SrpBytesM finds a verifier wherever it looks for one, and no
\* login leaves one behind.
THEOREM VerifierThereHolds == Spec => []VerifierThere
<1>1. IInv => VerifierThere
  BY DEF IInv, ClientsOK, ClientOK, VerifierThere, Past
<1>2. QED
  BY <1>1, Invariance, PTL

\* acceptAuth is reached with an account only, the one that a login by the
\* password for new users makes included: who is past the login has one.
THEOREM LoggedInHolds == Spec => []LoggedIn
<1>1. IInv => LoggedIn
  <2> SUFFICES ASSUME IInv, NEW id \in DOMAIN clients,
                      Rank(clients[id].state) >= Rank("AwaitingInit2")
               PROVE  clients[id].name \in auth
    BY DEF LoggedIn
  <2>1. clients[id] \in Client /\ ClientOK(clients[id], auth)
    BY DEF IInv, TypeOK, ClientsOK
  <2>2. clients[id].state \in Past
    BY <2>1, PastRank DEF Client
  <2>3. QED
    BY <2>1, <2>2 DEF ClientOK
<1>2. QED
  BY <1>1, Invariance, PTL

\* "peer ids are unique" (serverenvironment.cpp): an active client has exactly
\* one player, and a player in play belongs to a client that is still there.
THEOREM OnePlayerPerClientHolds == Spec => []OnePlayerPerClient
<1>1. IInv => OnePlayerPerClient
  BY DEF IInv
<1>2. QED
  BY <1>1, Invariance, PTL
=============================================================================
