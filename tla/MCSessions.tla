----------------------------- MODULE MCSessions -----------------------------
(***************************************************************************)
(* Model checking of Sessions: the messages and the fairness.              *)
(***************************************************************************)
EXTENDS Sessions, TLC

LoginCommands == {"INIT", "SRP_BYTES_A", "SRP_BYTES_M", "INIT2", "CLIENT_READY"}
MCCommands == LoginCommands \cup {"FIRST_SRP", "INTERACT"}
MCMsgs == [cmd : {"INIT"}, name : Names] \cup [cmd : Commands \ {"INIT"}]

IdSymmetry == Permutations(Ids)
Symmetry == Permutations(Ids) \cup Permutations(Names)

(* The receive thread goes on; the server thread takes one event after     *)
(* another, looks for lingering clients every second and for players to    *)
(* remove in its step.  A peer it asked to disconnect leaves: Peers shows  *)
(* that of the Connection (AskedIsFreed).                                  *)
Fairness ==
    /\ WF_vars(PutsPacket)
    /\ WF_vars(HandleEvent)
    /\ \A id \in Ids : /\ WF_vars(id \in asked /\ Leaving(id))
                       /\ WF_vars(DisconnectLingering(id))
    /\ WF_vars(\E i \in DOMAIN m_players : RemovePlayer(i))

FairSpec == Spec /\ Fairness

\* server.cpp:2881 DenyAccess: a client that is denied access is gone in the end,
\* with its player, whatever it still sends.
DeniedGoes ==
    \A id \in Ids :
        id \in DOMAIN clients /\ clients[id].state = "Denied"
            ~> id \notin DOMAIN clients /\ Playing(id) = {}

\* server.cpp:4017 A session that is over leaves its player's data in the
\* database and no player behind, so its name can be used again.
SessionEnds ==
    \A n \in Names :
        (\E i \in Named(n) : m_players[i].peer = 0)
            ~> ~ \E i \in Named(n) : m_players[i].peer = 0
=============================================================================
