------------------------------ MODULE MCParts ------------------------------
(***************************************************************************)
(* Model checking of parts of the server that share no state, each by      *)
(* itself: a behaviour is one of the part its initial state says.          *)
(***************************************************************************)
EXTENDS MCPeers, MCTimers, SafeMap, SplitPackets, ActiveObjects

CONSTANT Parts   \* of "peers", "timers", "map", "split", "objects"

VARIABLE part

peervars == vars
partvars == << part, peervars, timervars, safemapvars, splitvars, aovars >>

InitParts ==
    /\ part \in Parts
    /\ Init /\ InitTimers /\ InitSafeMap /\ InitSplitPackets /\ InitActiveObjects
    /\ part # "split" => next_outgoing_split_seqnum = 0

NextParts ==
    \/ /\ part = "peers" /\ Next
       /\ UNCHANGED << part, timervars, safemapvars, splitvars, aovars >>
    \/ /\ part = "timers" /\ NextTimers
       /\ UNCHANGED << part, peervars, safemapvars, splitvars, aovars >>
    \/ /\ part = "map" /\ NextSafeMap
       /\ UNCHANGED << part, peervars, timervars, splitvars, aovars >>
    \/ /\ part = "split" /\ NextSplitPackets
       /\ UNCHANGED << part, peervars, timervars, safemapvars, aovars >>
    \/ /\ part = "objects" /\ NextActiveObjects
       /\ UNCHANGED << part, peervars, timervars, safemapvars, splitvars >>

\* The fairness of MCPeers, for the peers' part, the only one whose liveness is
\* checked.
InPeers(action) == part = "peers" /\ action
PartsFairness ==
    /\ WF_peervars(InPeers(Rx)) /\ WF_peervars(InPeers(Tx))
    /\ SF_peervars(InPeers(txpc = "pending" /\ JudgePending(TRUE)))
    /\ WF_peervars(InPeers(GotPeerAddress))

PartsSpec == InitParts /\ [][NextParts]_partvars
FairPartsSpec == PartsSpec /\ PartsFairness
=============================================================================
