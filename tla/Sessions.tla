------------------------------ MODULE Sessions ------------------------------
(***************************************************************************)
(* The server's side of a login: Server::Receive, the handlers of the      *)
(* handshake (network/serverpackethandler.cpp), RemoteClient's state       *)
(* machine (server/clientiface.cpp) and the players in the environment,    *)
(* on top of a Connection that keeps the promises of PeerEvents.           *)
(*                                                                         *)
(* One step handles one event of the Connection, as the server thread      *)
(* does.  What a script, a setting or a password decides is a free choice, *)
(* but that the auth handler keeps the accounts it is given; a player's    *)
(* data is the number of changes made to it.                               *)
(***************************************************************************)
EXTENDS PeerEvents, FiniteSets, Functions

CONSTANTS
    Names,           \* player names
    Registered,      \* names that have an account to begin with
    Commands,        \* TOSERVER_ commands the clients send
    max_users,       \* user limit
    Unlimited,       \* names it does not hold for: the admin's, and a script's
    MaxPending,      \* bound: events waiting while another packet is taken
    MaxChanges       \* bound: changes made to a player's data

ASSUME SessionsAssumption ==
    /\ 0 \notin Ids
    /\ Registered \subseteq Names /\ Unlimited \subseteq Names
    /\ Msgs = [cmd : Commands \cap {"INIT"}, name : Names]
              \cup [cmd : Commands \ {"INIT"}]
    /\ max_users \in Nat /\ MaxPending \in Nat /\ MaxChanges \in Nat

States == << "Disconnecting", "Denied", "Created", "HelloSent",
             "AwaitingInit2", "InitDone", "DefinitionsSent", "Active",
             "SudoMode" >>
Rank(s) == CHOOSE i \in DOMAIN States : States[i] = s

VARIABLES
    clients,     \* m_clients: id -> RemoteClient
    auth,        \* names the auth database knows
    m_players,   \* the environment's players, in order; peer 0: session over
    database,    \* data of each player as last saved, 0 when never
    asked        \* ids given to DisconnectPeer

svars == << clients, auth, m_players, database, asked >>
vars == << pvars, svars >>

Client == [state : Range(States), name : Names \cup {"none"},
           chosen_mech : {"none", "srp"}, auth_data : BOOLEAN,
           allowed : {"none", "srp", "first_srp"},
           create_player_on_auth_success : BOOLEAN]
Player == [name : Names, peer : Ids \cup {0}, data : 0 .. MaxChanges,
           modified : BOOLEAN]

Init ==
    /\ PInit
    /\ clients = << >>
    /\ auth = Registered
    /\ m_players = <<>>
    /\ database = [n \in Names |-> 0]
    /\ asked = {}
-----------------------------------------------------------------------------
(* RemoteClient. *)

Created == [state |-> "Created", name |-> "none", chosen_mech |-> "none",
            auth_data |-> FALSE, allowed |-> "none",
            create_player_on_auth_success |-> FALSE]

Bug_Reset(c) == [c EXCEPT !.auth_data = FALSE]
Reset(c) == [c EXCEPT !.chosen_mech = "none", !.auth_data = FALSE]

\* The transitions of notifyEvent that lead on: <<state, event, state>>.
Forward == { << "Created", "Hello", "HelloSent" >>,
             << "HelloSent", "AuthAccept", "AwaitingInit2" >>,
             << "AwaitingInit2", "GotInit2", "InitDone" >>,
             << "InitDone", "SetDefinitionsSent", "DefinitionsSent" >>,
             << "DefinitionsSent", "SetClientReady", "Active" >>,
             << "Active", "SudoSuccess", "SudoMode" >>,
             << "SudoMode", "SudoLeave", "Active" >> }

Absorbing(c) == c.state \in {"Denied", "Disconnecting"}

\* notifyEvent throws ClientStateError on an event it has no transition for.
Throws(c, e) ==
    ~ Absorbing(c) /\ \A t \in Forward : t[1] # c.state \/ t[2] # e

\* The chosen mechanism is forgotten by the transitions that end an exchange.
Notified(c, e) ==
    IF Absorbing(c) THEN c
    ELSE LET t == CHOOSE t \in Forward : t[1] = c.state /\ t[2] = e
             d == [c EXCEPT !.state = t[3]]
         IN IF e \in {"AuthAccept", "SudoSuccess"} THEN Reset(d) ELSE d

Denied(c) ==
    IF Absorbing(c) THEN c
    ELSE LET d == [c EXCEPT !.state = "Denied"]
         IN IF c.state = "HelloSent" THEN Reset(d) ELSE d
-----------------------------------------------------------------------------
(* The players in the environment. *)

\* getPlayer(name, match_invalid_peer): only the first of a name is looked at.
Named(n) == {i \in DOMAIN m_players : m_players[i].name = n}
First(n) == CHOOSE i \in Named(n) : \A j \in Named(n) : i <= j
Connected(n) == Named(n) # {} /\ m_players[First(n)].peer # 0

\* getPlayer(peer_id)
Playing(id) == {i \in DOMAIN m_players : m_players[i].peer = id}

\* emergePlayer and addActiveObject: what the database has of the player.
CanEmerge(id, n) == ~ Connected(n) /\ Playing(id) = {}
Emerged(id, n) ==
    Append(m_players, [name |-> n, peer |-> id, data |-> database[n],
                       modified |-> database[n] = 0])

\* PlayerSAO::disconnected
Bug_Over(id) ==
    IF id \in DOMAIN clients /\ Absorbing(clients[id]) THEN m_players
    ELSE [i \in DOMAIN m_players |->
            IF m_players[i].peer = id
            THEN [m_players[i] EXCEPT !.peer = 0] ELSE m_players[i]]
Over(id) == [i \in DOMAIN m_players |->
               IF m_players[i].peer = id
               THEN [m_players[i] EXCEPT !.peer = 0] ELSE m_players[i]]
-----------------------------------------------------------------------------
(* Server::ProcessData: the next event is a packet with some command. *)

Packet(cmd) ==
    /\ m_event_queue # <<>>
    /\ Head(m_event_queue).type = "data"
    /\ Head(m_event_queue).msg.cmd = cmd
    /\ Pop

Sender == Head(m_event_queue).id
Exists == Sender \in DOMAIN clients
State == IF Exists THEN clients[Sender].state ELSE "Invalid"
In(states) == Exists /\ State \in states
AtLeast(s) == Exists /\ Rank(State) >= Rank(s)

Set(c) == clients' = [clients EXCEPT ![Sender] = c]
Keep == UNCHANGED << clients, asked >>

Bug_Disconnect(id) ==
    asked' = asked \cup {IF Playing(id) = {} THEN id ELSE 0}
Disconnect(id) == asked' = asked \cup {id}

\* DenyAccess: the client is denied and its peer is to be disconnected.
Deny == Set(Denied(clients[Sender])) /\ Disconnect(Sender)

\* Receive answers a ClientStateError with DenyAccess.
Notify(e) ==
    \/ Throws(clients[Sender], e) /\ Deny
    \/ /\ ~ Throws(clients[Sender], e)
       /\ Set(Notified(clients[Sender], e)) /\ UNCHANGED asked

\* Clients past TOCLIENT_HELLO count towards the user limit.
UserLimitReached ==
    Cardinality({id \in DOMAIN clients :
                   Rank(clients[id].state) >= Rank("HelloSent")}) >= max_users

\* TOCLIENT_HELLO: a name with an account logs in by SRP; one without makes an
\* account, or logs in by the password for new users, if there is one.
Hello(c, n, default_password) ==
    [Notified(c, "Hello") EXCEPT
        !.name = n, !.chosen_mech = "none",
        !.allowed = IF n \in auth \/ default_password THEN "srp" ELSE "first_srp",
        !.create_player_on_auth_success = n \notin auth /\ default_password]

\* A late, repeated or malformed INIT is ignored.  The address, the versions,
\* the name, a ban or a script may deny access, before or after the client has
\* its name; a connected player's name does before.
Init_Packet ==
    /\ Packet("INIT")
    /\ LET n == Head(m_event_queue).msg.name
           c == clients[Sender]
           heard == In({"Created"}) /\ link[Sender] = "up"
       IN \/ Keep
          \/ heard /\ Deny
          \/ /\ heard /\ ~ Connected(n)
             /\ Set([Denied(c) EXCEPT !.name = n]) /\ Disconnect(Sender)
          \/ /\ heard /\ ~ Connected(n)
             /\ UserLimitReached => n \in Unlimited
             /\ \E default_password \in BOOLEAN : Set(Hello(c, n, default_password))
             /\ UNCHANGED asked
    /\ UNCHANGED << auth, m_players, database >>

\* A new account; or, in sudo mode, a new password.
FirstSrp ==
    /\ Packet("FIRST_SRP")
    /\ LET c == clients[Sender]
           allowed == /\ In({"HelloSent"}) /\ c.allowed = "first_srp"
                      /\ c.name \notin auth
       IN \/ /\ ~ In({"HelloSent", "SudoMode"})
             /\ Keep /\ UNCHANGED auth
          \/ /\ In({"HelloSent"})
             /\ Deny /\ UNCHANGED auth
          \/ /\ allowed
             /\ auth' = auth \cup {c.name}
             /\ Set([Notified(c, "AuthAccept") EXCEPT !.allowed = "srp"])
             /\ UNCHANGED asked
          \/ /\ In({"SudoMode"})
             /\ Notify("SudoLeave") /\ UNCHANGED auth
    /\ UNCHANGED << m_players, database >>

\* The first half of an SRP exchange.  Out of turn it costs a client that logs
\* in its access, and a player only the right to sudo mode.
SrpBytesA ==
    /\ Packet("SRP_BYTES_A")
    /\ LET c == clients[Sender]
           begin == c.chosen_mech = "none" /\ c.allowed = "srp"
       IN \/ ~ In({"HelloSent", "Active"}) /\ Keep
          \/ In({"Active"}) /\ Keep
          \/ In({"HelloSent", "Active"}) /\ Deny
          \/ /\ In({"HelloSent", "Active"}) /\ begin
             /\ Set([c EXCEPT !.chosen_mech = "srp", !.auth_data = TRUE])
             /\ UNCHANGED asked
    /\ UNCHANGED << auth, m_players, database >>

\* The second half.  A name that was let in by the password for new users gets
\* its account only now, whoever has made one under that name meanwhile.
Bug_Accounts(c) == auth
Accounts(c) == IF c.create_player_on_auth_success THEN auth \cup {c.name} ELSE auth

SrpBytesM ==
    /\ Packet("SRP_BYTES_M")
    /\ LET c == clients[Sender]
           ends == In({"HelloSent", "Active"}) /\ c.chosen_mech # "none"
           accepted == IF In({"Active"}) THEN "SudoSuccess" ELSE "AuthAccept"
       IN \/ ~ In({"HelloSent", "Active"}) /\ Keep /\ UNCHANGED auth
          \/ In({"Active"}) /\ c.chosen_mech = "none" /\ Keep /\ UNCHANGED auth
          \/ In({"HelloSent"}) /\ c.chosen_mech = "none" /\ Deny /\ UNCHANGED auth
          \/ In({"Active"}) /\ ends /\ Set(Reset(c)) /\ UNCHANGED << asked, auth >>
          \/ ends /\ Deny /\ UNCHANGED auth
          \/ /\ ends
             /\ auth' = Accounts(c)
             /\ Set([Notified(c, accepted) EXCEPT
                       !.create_player_on_auth_success = FALSE])
             /\ UNCHANGED asked
    /\ UNCHANGED << m_players, database >>

\* INIT2 reports two events, the second unless the language cannot be read.
Init2 ==
    /\ Packet("INIT2")
    /\ LET c == clients[Sender] IN
       \/ ~ Exists /\ Keep
       \/ Exists /\ Notify("GotInit2")
       \/ /\ Exists /\ ~ Throws(c, "GotInit2")
          /\ Set(Notified(Notified(c, "GotInit2"), "SetDefinitionsSent"))
          /\ UNCHANGED asked
    /\ UNCHANGED << auth, m_players, database >>

\* CLIENT_READY: StageTwoClientInit emerges the player, or denies access.
ClientReady ==
    /\ Packet("CLIENT_READY")
    /\ LET c == clients[Sender] IN
       \/ ~ AtLeast("InitDone") /\ Keep /\ UNCHANGED m_players
       \/ /\ AtLeast("InitDone") /\ ~ CanEmerge(Sender, c.name)
          /\ Deny /\ UNCHANGED m_players
       \/ /\ AtLeast("InitDone") /\ CanEmerge(Sender, c.name)
          /\ m_players' = Emerged(Sender, c.name)
          /\ Notify("SetClientReady")
    /\ UNCHANGED << auth, database >>

\* A command of the game proper changes the player's data.
Play ==
    /\ Packet("INTERACT")
    /\ Keep
    /\ \/ ~ AtLeast("Active") /\ UNCHANGED m_players
       \/ /\ AtLeast("Active")
          /\ \E i \in Playing(Sender) :
                /\ m_players[i].data < MaxChanges
                /\ m_players' = [m_players EXCEPT ![i].data = @ + 1,
                                                  ![i].modified = TRUE]
       \/ /\ AtLeast("Active")
          /\ \A i \in Playing(Sender) : m_players[i].data = MaxChanges
          /\ UNCHANGED m_players
    /\ UNCHANGED << auth, database >>
-----------------------------------------------------------------------------
(* The other events, and what else the server thread does. *)

PeerAdded ==
    /\ m_event_queue # <<>> /\ Head(m_event_queue).type = "added"
    /\ Pop
    /\ clients' = [id \in DOMAIN clients \cup {Sender} |->
                     IF id \in DOMAIN clients THEN clients[id] ELSE Created]
    /\ UNCHANGED << auth, m_players, database, asked >>

Bug_DeletingPeer ==
    /\ m_event_queue # <<>> /\ Head(m_event_queue).type = "removed"
    /\ Pop
    /\ clients' = IF Exists /\ ~ Absorbing(clients[Sender])
                  THEN Restrict(clients, DOMAIN clients \ {Sender}) ELSE clients
    /\ m_players' = Over(Sender)
    /\ UNCHANGED << auth, database, asked >>

DeletingPeer ==
    /\ m_event_queue # <<>> /\ Head(m_event_queue).type = "removed"
    /\ Pop
    /\ clients' = Restrict(clients, DOMAIN clients \ {Sender})
    /\ m_players' = Over(Sender)
    /\ UNCHANGED << auth, database, asked >>

\* A player or an address is banned, kicked, or all are at shutdown.
Kick(id) ==
    /\ id \in DOMAIN clients
    /\ ~ Absorbing(clients[id])
    /\ clients' = [clients EXCEPT ![id] = Denied(clients[id])]
    /\ Disconnect(id)
    /\ UNCHANGED << pvars, auth, m_players, database >>

\* ClientInterface::step: a client that never got as far as HELLO, or is
\* denied, is disconnected after a while, if its peer is still there.
DisconnectLingering(id) ==
    /\ id \in DOMAIN clients \ asked
    /\ Rank(clients[id].state) < Rank("HelloSent")
    /\ link[id] = "up"
    /\ Disconnect(id)
    /\ UNCHANGED << pvars, clients, auth, m_players, database >>

Bug_RemovePlayer(i) ==
    /\ i \in DOMAIN m_players /\ m_players[i].peer = 0
    /\ ~ m_players[i].modified
    /\ m_players' = SubSeq(m_players, 1, i - 1)
                    \o SubSeq(m_players, i + 1, Len(m_players))
    /\ UNCHANGED << pvars, clients, auth, database, asked >>

\* removeRemovedObjects: once no client knows the object of a player whose
\* session is over, the player is saved and taken out of the environment.
RemovePlayer(i) ==
    /\ i \in DOMAIN m_players /\ m_players[i].peer = 0
    /\ database' = [database EXCEPT ![m_players[i].name] = m_players[i].data]
    /\ m_players' = SubSeq(m_players, 1, i - 1)
                    \o SubSeq(m_players, i + 1, Len(m_players))
    /\ UNCHANGED << pvars, clients, auth, asked >>

\* saveLoadedPlayers: the modified ones, in order.
Modified(n) == {i \in Named(n) : m_players[i].modified}
SavePlayers ==
    /\ \E n \in Names : Modified(n) # {}
    /\ database' = [n \in Names |->
          IF Modified(n) = {} THEN database[n]
          ELSE m_players[CHOOSE i \in Modified(n) :
                           \A j \in Modified(n) : j <= i].data]
    /\ m_players' = [i \in DOMAIN m_players |->
                       [m_players[i] EXCEPT !.modified = FALSE]]
    /\ UNCHANGED << pvars, clients, auth, asked >>
-----------------------------------------------------------------------------
(* The Connection. *)
TakesPacket(id, m) ==
    Len(m_event_queue) < MaxPending /\ Grab(id, m) /\ UNCHANGED svars
PutsPacket == Hand /\ UNCHANGED svars
Arriving(id) == Arrives(id) /\ UNCHANGED svars
Leaving(id) == Leaves(id) /\ UNCHANGED svars

HandlePacket == \/ Init_Packet \/ FirstSrp \/ SrpBytesA \/ SrpBytesM
                \/ Init2 \/ ClientReady \/ Play
HandleEvent == HandlePacket \/ PeerAdded \/ DeletingPeer

Next ==
    \/ \E id \in Ids : \/ Arriving(id) \/ Leaving(id)
                       \/ \E m \in Msgs : TakesPacket(id, m)
                       \/ Kick(id) \/ DisconnectLingering(id)
    \/ PutsPacket \/ HandleEvent \/ SavePlayers
    \/ \E i \in DOMAIN m_players : RemovePlayer(i)

Spec == Init /\ [][Next]_vars
-----------------------------------------------------------------------------
TypeOK ==
    /\ link \in [Ids -> {"none", "up", "gone"}]
    /\ hand \in Seq(DataEvent) /\ Len(hand) <= 1
    /\ m_event_queue \in Seq(PeerEvent \cup DataEvent)
    /\ DOMAIN clients \subseteq Ids
    /\ \A id \in DOMAIN clients : clients[id] \in Client
    /\ auth \subseteq Names
    /\ m_players \in Seq(Player)
    /\ database \in [Names -> 0 .. MaxChanges]
    /\ asked \subseteq Ids

Queued(type, id) ==
    \E i \in DOMAIN m_event_queue :
        m_event_queue[i].type = type /\ m_event_queue[i].id = id

\* server.cpp:1335 A peer has a client from the event that adds it to the event
\* that removes it, however far its login got and whatever it sends afterwards.
ClientPerPeer ==
    DOMAIN clients = {id \in Ids :
        /\ link[id] # "none" /\ ~ Queued("added", id)
        /\ link[id] = "up" \/ Queued("removed", id)}

\* serverpackethandler.cpp:1684 reads auth_data: whenever a handler may take
\* the second half of an SRP exchange there is a verifier for it, and a client
\* that logs in has none left over from an exchange that has ended.
VerifierThere ==
    \A id \in DOMAIN clients : LET c == clients[id] IN
        /\ c.state \in {"HelloSent", "Active"} /\ c.chosen_mech # "none"
              => c.auth_data
        /\ c.state \in {"AwaitingInit2", "InitDone", "DefinitionsSent"}
              => ~ c.auth_data

\* serverpackethandler.cpp:1708 Whoever is past the login has an account under
\* its name, by whichever way it came: an account it had, one it registered
\* itself, or one made for it when it knew the password for new users.
LoggedIn ==
    \A id \in DOMAIN clients :
        Rank(clients[id].state) >= Rank("AwaitingInit2")
            => clients[id].name \in auth

\* serverpackethandler.cpp:1484 "It is possible for multiple connections to get
\* this far with the same player name [...] we still have to be careful here": an
\* account is only made for a name that has none.
NoSecondAccount ==
    [][\A id \in DOMAIN clients \cap DOMAIN clients' :
          /\ clients[id].create_player_on_auth_success
          /\ ~ clients'[id].create_player_on_auth_success
          => clients[id].name \notin auth]_vars

\* serverenvironment.cpp "peer ids are unique": an active client plays exactly
\* one player, of its name, and a player in play belongs to a client that has
\* been active and is still there.
OnePlayerPerClient ==
    /\ \A id \in DOMAIN clients :
          clients[id].state \in {"Active", "SudoMode"} => Playing(id) # {}
    /\ \A id \in Ids : \A i, j \in Playing(id) : i = j
    /\ \A i \in DOMAIN m_players : LET id == m_players[i].peer IN
          id # 0 => /\ id \in DOMAIN clients
                    /\ clients[id].name = m_players[i].name
                    /\ clients[id].state \in {"Active", "SudoMode", "Denied"}

\* serverpackethandler.cpp:1485 "In the end only one player with a given name
\* will be emerged".
OneSessionPerName ==
    \A i, j \in DOMAIN m_players :
        /\ m_players[i].peer # 0 /\ m_players[j].peer # 0
        /\ m_players[i].name = m_players[j].name
        => i = j

\* server.cpp:4017 "PlayerSAO save data before free": who plays under a name has
\* the data that the last session under that name left behind.
NothingForgotten ==
    \A i, j \in DOMAIN m_players :
        m_players[i].name = m_players[j].name /\ i < j
            => m_players[i].data <= m_players[j].data
=============================================================================
