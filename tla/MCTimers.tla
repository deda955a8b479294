------------------------------ MODULE MCTimers ------------------------------
(***************************************************************************)
(* What Lua sets in the model checking of NodeTimers.                      *)
(***************************************************************************)
EXTENDS NodeTimers

Setting(timeout, elapsed) == [timeout |-> timeout, elapsed |-> elapsed]

\* No more has elapsed of a timer than it has, and no timeout is negative.
Settled == {Setting(0, 0), Setting(1, 0), Setting(2, 1), Setting(2, -1)}

\* More may have elapsed than there is.
Overdue == {Setting(1, 0), Setting(2, 0), Setting(1, 2)}
=============================================================================
