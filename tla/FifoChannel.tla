----------------------------- MODULE FifoChannel -----------------------------
(***************************************************************************)
(* What a reliable channel promises its user (internal.h:86): the chunks   *)
(* of the messages accepted reach the other end in the order they were     *)
(* accepted in, each once, and all of them while the channel stays open.   *)
(***************************************************************************)
EXTENDS Naturals, Sequences

VARIABLES
    accepted,  \* how many chunks each message accepted has
    received,  \* the last chunk received: its message (0: none yet), its number
    closed

fvars == << accepted, received, closed >>

FInit ==
    /\ accepted = <<>>
    /\ received = [cmd |-> 0, chunk |-> 0]
    /\ closed = FALSE

\* The chunk that comes after x: the next one of its message, or the first one
\* of the next message.
After(x) ==
    IF x.cmd # 0 /\ x.chunk < accepted[x.cmd]
    THEN [cmd |-> x.cmd, chunk |-> x.chunk + 1]
    ELSE [cmd |-> x.cmd + 1, chunk |-> 1]

\* A message of at least one chunk is accepted.
Accept ==
    /\ ~ closed
    /\ Len(accepted') > Len(accepted)
    /\ LET k == accepted'[Len(accepted')]
       IN  k \in Nat \ {0} /\ accepted' = Append(accepted, k)
    /\ UNCHANGED << received, closed >>

Receive ==
    /\ After(received).cmd <= Len(accepted)
    /\ received' = After(received)
    /\ UNCHANGED << accepted, closed >>

Close == ~ closed /\ closed' = TRUE /\ UNCHANGED << accepted, received >>

FNext == Accept \/ Receive \/ Close

FSpec == FInit /\ [][FNext]_fvars

Forced == WF_fvars(~ closed /\ Receive)
=============================================================================
