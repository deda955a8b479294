-------------------------- MODULE MCReliableChannel --------------------------
(***************************************************************************)
(* Model checking of ReliableChannel: what a run bounds, its fairness, and *)
(* what it must do in the end.                                             *)
(***************************************************************************)
EXTENDS ReliableChannel

MCWindowSteps == {-1, 1}

(* The send thread runs at least every 50 ms (threads.cpp:86) and gives    *)
(* every peer a quota of at least one packet (threads.cpp:100); the receive *)
(* thread empties its buffers before it reads on.  A half-open peer knocks *)
(* until it knows its id (threads.cpp:960), then uses it.  The network     *)
(* delivers a packet that is sent again and again, and an ACK likewise.    *)
Fairness ==
    /\ WF_vars(SendQueued)
    /\ WF_vars(RunCommandQueues)
    /\ WF_vars(\E p \in outgoing_reliables_sent : IsFront(p) /\ Resend(p))
    /\ WF_vars(CreatePeer)
    /\ WF_vars(ResendOne)
    /\ WF_vars(SetFullyOpen)
    /\ WF_vars(Unbuffer)
    /\ SF_vars(\E p \in wire :
                  p.n = Len(delivered) + 1 /\ ReceiveReliable(p, FALSE))
    /\ SF_vars(\E p \in wire \cap outgoing_reliables_sent :
                  IsFront(p) /\ ReceiveReliable(p, FALSE))
    /\ SF_vars(\E a \in acks \cap outgoing_reliables_sent :
                  IsFront(a) /\ ReceiveAck(a, FALSE))

FairSpec == Spec /\ Fairness

-----------------------------------------------------------------------------
(* internal.h:86, "delivery shall be forced by ACKs": while the peer is    *)
(* neither disconnected nor timed out, every chunk accepted is received.   *)
ForcedDelivery == Fifo!Forced

(* Everything that is sent is acknowledged in the end, so the window opens *)
(* again and a command larger than the window gets its turn.               *)
EventuallyIdle ==
    <>[](\/ life # "live"
         \/ /\ queued_commands = <<>>
            /\ queued_reliables = <<>>
            /\ outgoing_reliables_sent = {})
=============================================================================
