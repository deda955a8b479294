------------------------------ MODULE TimerSet ------------------------------
(***************************************************************************)
(* What the timers of a map block promise: each node has at most one       *)
(* timer; time takes as much from each; every timer with nothing left runs *)
(* out at that step and at no other, the earlier ones first; and saving    *)
(* and loading the block forgets none whose timeout is above 0.            *)
(***************************************************************************)
EXTENDS Integers, Sequences

CONSTANTS Positions, Settings, Steps

VARIABLES
    timers,   \* the nodes with a timer: its timeout and what is left of it
    runout    \* the timers that ran out and whose callback has not returned

timersetvars == << timers, runout >>

\* A timer whose callback is to run, and what it is told has passed.
Run == [position : Positions, timeout : {s.timeout : s \in Settings}, elapsed : Int]

NoTimers == [p \in {} |-> [left |-> 0, timeout |-> 0]]

TimerSetInit == timers = NoTimers /\ runout = << >>

WithTimer(p, timeout, elapsed) ==
    [q \in DOMAIN timers \cup {p} |->
        IF q = p THEN [left |-> timeout - elapsed, timeout |-> timeout] ELSE timers[q]]

\* NodeTimerRef's set(timeout, elapsed)
SetTimer(p, timeout, elapsed) ==
    /\ timers' = WithTimer(p, timeout, elapsed)
    /\ UNCHANGED runout

\* NodeTimerRef's stop()
StopTimer(p) ==
    /\ timers' = [q \in DOMAIN timers \ {p} |-> timers[q]]
    /\ UNCHANGED runout

\* What the callback of p's timer is told, dtime after now.
RunOut(p, dtime) ==
    [position |-> p, timeout |-> timers[p].timeout,
     elapsed |-> timers[p].timeout + dtime - timers[p].left]

PassTime(dtime) ==
    LET out == {p \in DOMAIN timers : timers[p].left <= dtime}
        place == [i \in DOMAIN runout' |-> runout'[i].position]
    IN  /\ runout = << >>
        /\ timers' = [p \in DOMAIN timers \ out |->
                         [timers[p] EXCEPT !.left = @ - dtime]]
        /\ runout' \in Seq(Run)
        /\ {place[i] : i \in DOMAIN place} = out
        /\ \A i \in DOMAIN runout' : runout'[i] = RunOut(place[i], dtime)
        /\ \A i, j \in DOMAIN runout' : i < j =>
              place[i] # place[j] /\ timers[place[i]].left <= timers[place[j]].left

\* The block is saved and loaded: a timer whose timeout is not above 0 is forgotten.
Reload ==
    /\ runout = << >>
    /\ timers' = [q \in {p \in DOMAIN timers : timers[p].timeout > 0} |-> timers[q]]
    /\ UNCHANGED runout

\* The callback returns whether the timer goes on for another cycle.
CallbackReturns(again) ==
    /\ runout # << >>
    /\ runout' = Tail(runout)
    /\ timers' = IF again THEN WithTimer(Head(runout).position, Head(runout).timeout, 0)
                 ELSE timers

TimerSetNext ==
    \/ \E p \in Positions : \/ \E s \in Settings : SetTimer(p, s.timeout, s.elapsed)
                            \/ StopTimer(p)
    \/ \E dtime \in Steps : PassTime(dtime)
    \/ \E again \in BOOLEAN : CallbackReturns(again)
    \/ Reload

TimerSetSpec == TimerSetInit /\ [][TimerSetNext]_timersetvars
=============================================================================
