----------------------------- MODULE MCBlockSend -----------------------------
(***************************************************************************)
(* Model checking of BlockSend: maps, bounds and fairness.                 *)
(***************************************************************************)
EXTENDS BlockSend

\* One block next to the player.
OneDist == <<0>>
OneStored == <<"ready">>

\* Two neighbours.
TwoDist == <<0, 0>>
TwoStored == <<"ready", "ready">>

\* A row: the second block is made when it is near enough, the third is beyond
\* what one search covers.
RowDist == <<0, 2, 5>>
RowStored == <<"ready", "none", "ready">>
BlankStored == <<"ready", "blank", "ready">>

\* The same with the second block on a diagonal: (2, 2, 2) is 3.46 away.
DiagonalEuclid == <<0, 3, 5>>

\* A view of two blocks.
NearDist == <<0, 1, 2>>

Happen(e, s, tu, ti, r, d, p) ==
    [h \in Happenings |->
        CASE h = "edit" -> e [] h = "script" -> s [] h = "turn" -> tu [] h = "timeout" -> ti
          [] h = "reveal" -> r [] h = "delete" -> d [] h = "predict" -> p]

RaceTimes == Happen(2, 1, 1, 0, 0, 1, 1)
CopyTimes == Happen(3, 1, 1, 0, 0, 1, 1)
PairTimes == Happen(1, 1, 0, 0, 0, 1, 1)
RacingTimes == Happen(2, 0, 0, 0, 0, 0, 0)
ScanTimes == Happen(1, 0, 1, 1, 0, 0, 0)
LiveTimes == Happen(1, 0, 0, 0, 1, 0, 0)
WalkTimes == Happen(1, 0, 1, 1, 1, 0, 0)
HiddenTimes == Happen(0, 0, 1, 0, 1, 0, 0)

(* The server's step runs every 50 ms and takes all that is queued; it     *)
(* comes again and again to a search when the player does not build and    *)
(* the emerge queue has room.  The client reads its packets and makes its  *)
(* meshes, and the emerge threads work through their queue.                *)
Fairness ==
    /\ WF_vars(\E far \in BOOLEAN : FlushEvent(far))
    /\ WF_vars(\E far \in SUBSET node_meta_updates : FlushEnd(far))
    /\ WF_vars(PauseOver)
    /\ SF_vars(FreePass)
    /\ WF_vars(ClientReceive0) /\ WF_vars(ClientReceive2)
    /\ \A b \in Blocks : /\ SF_vars(EmergeDone(b)) /\ SF_vars(EmergeReport(b))
                        /\ WF_vars(ClientAck(b))
    /\ SF_vars(ServerReceive2)
    /\ SF_vars(\E verdict \in Verdicts : ServerInteract(verdict))

FairSpec == Spec /\ Fairness
=============================================================================
