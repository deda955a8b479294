------------------------------ MODULE MCPeers ------------------------------
(***************************************************************************)
(* Model checking of Peers: the fairness of its threads.                   *)
(***************************************************************************)
EXTENDS Peers, TLC

Symmetry == Permutations(Addrs) \cup Permutations(Ids)

\* Both threads run their loops; a deletion that packets for the peer put off
\* is not put off for ever, for the quota is at least one packet a round
\* (threads.cpp:100).
Fairness ==
    /\ WF_vars(Rx)
    /\ WF_vars(Tx)
    /\ SF_vars(txpc = "pending" /\ JudgePending(TRUE))
    /\ WF_vars(GotPeerAddress)

FairSpec == Spec /\ Fairness
-----------------------------------------------------------------------------
\* A peer the owner asked to disconnect is deleted in the end.
Asked(p) ==
    \/ p \in m_pending_disconnect
    \/ \E i \in DOMAIN m_command_queue : m_command_queue[i] = born[p].id
AskedIsFreed ==
    \A p \in Peer : p \in Created /\ Asked(p) ~> p \in freed \/ phase # "up"
=============================================================================
