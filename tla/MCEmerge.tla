------------------------------ MODULE MCEmerge ------------------------------
(***************************************************************************)
(* Model checking of Emerge: symmetry and fairness.                        *)
(***************************************************************************)
EXTENDS Emerge, TLC

BlockSymmetry == Permutations(Blocks \ OverLimit)

(* The threads run, Lua returns and the server goes on.  Each of them does *)
(* one thing at a time, and gets the mutex it waits for if that is free    *)
(* again and again: the environment's is an ordered_mutex, which serves in *)
(* order of arrival, and the queue's is held shortly, but for callbacks.   *)
Call(x) == Signal(x) \/ \E b \in job[x].todo : EmergeAreaBlock(x, b)

Fairness ==
    /\ \A t \in Threads : SF_vars(ThreadStep(t) \/ Call(t))
    /\ SF_vars(\/ Call(Server) \/ ServerUnlock \/ EndStop
               \/ \E t \in Threads : StopThread(t))

FairSpec == Spec /\ Fairness

(* lua_api.md, emerge_area: "this will be called for each block emerged";  *)
(* every callback of every request is called in the end, by the loop or by *)
(* cancelPendingItems, whatever merges with the request and however the    *)
(* server's stop interferes.                                               *)
AllCalledBack ==
    \A r \in Requests :
        refcount[r] > 0 /\ pc # [t \in Threads |-> "off"] ~> refcount[r] = 0

(* server.cpp:349, "Stop all emerge activity and finish off mapgen         *)
(* callbacks": once asked to, all threads stop.                            *)
StopFinishes == phase = "stopping" ~> phase = "stopped"
=============================================================================
