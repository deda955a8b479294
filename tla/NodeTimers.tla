----------------------------- MODULE NodeTimers -----------------------------
(***************************************************************************)
(* NodeTimerList (src/src/nodetimer.h, nodetimer.cpp): the timers of the   *)
(* nodes of one map block, as a list ordered by the time they run out,     *)
(* with an index by position and the time of the first one, and            *)
(* MapBlock::step, which runs the callbacks of those that ran out.         *)
(* Time is counted in whole units; the block is saved and loaded again     *)
(* with what is left of each timer, unless its timeout is not above 0.     *)
(***************************************************************************)
EXTENDS Integers, Sequences, SequencesExt

CONSTANTS
    Positions,   \* nodes of the block
    Settings,    \* the timeouts and elapsed times Lua sets, of either sign
    Steps,       \* how far one step moves the time
    MaxTime      \* bound: the time at which a block is saved and loaded anew

ASSUME TimersAssumption ==
    /\ Settings \subseteq [timeout : Int, elapsed : Int]
    /\ Steps \subseteq Nat \ {0} /\ MaxTime \in Nat

VARIABLES
    list,            \* the fields m_timers, m_iterators, m_next_trigger_time
    m_time,
    elapsed_timers   \* MapBlock::step's copy of those whose callback is to run

timervars == << list, m_time, elapsed_timers >>

\* m_next_trigger_time when there is no timer
NoTrigger == -1

Cleared == [m_timers |-> << >>, m_iterators |-> [p \in {} |-> 0],
            m_next_trigger_time |-> NoTrigger]

InitTimers == list = Cleared /\ m_time = 0 /\ elapsed_timers = << >>

-----------------------------------------------------------------------------
FirstTrigger(timers) == IF timers = << >> THEN NoTrigger ELSE Head(timers).trigger

\* Of a multimap: where the first timer is that runs out after the given time.
UpperBound(timers, time) ==
    CHOOSE i \in 1 .. Len(timers) + 1 :
        /\ \A j \in 1 .. i - 1 : timers[j].trigger <= time
        /\ i <= Len(timers) => timers[i].trigger > time

(* NodeTimerList::remove *)
Removed(l, p) ==
    IF p \notin DOMAIN l.m_iterators THEN l
    ELSE LET entry == l.m_iterators[p]
             left == RemoveAt(l.m_timers,
                              CHOOSE i \in DOMAIN l.m_timers : l.m_timers[i] = entry)
         IN  [m_timers |-> left,
              m_iterators |-> [q \in DOMAIN l.m_iterators \ {p} |-> l.m_iterators[q]],
              m_next_trigger_time |-> IF entry.trigger = l.m_next_trigger_time
                                      THEN FirstTrigger(left)
                                      ELSE l.m_next_trigger_time]

\* Mutant: the time of the first timer is only set by the first one inserted.
Bug_Inserted(l, p, timeout, trigger) ==
    LET entry == [trigger |-> trigger, timeout |-> timeout, position |-> p]
    IN  [m_timers |-> InsertAt(l.m_timers, UpperBound(l.m_timers, trigger), entry),
         m_iterators |-> [q \in DOMAIN l.m_iterators \cup {p} |->
                             IF q \in DOMAIN l.m_iterators THEN l.m_iterators[q] ELSE entry],
         m_next_trigger_time |-> IF l.m_next_trigger_time = NoTrigger THEN trigger
                                 ELSE l.m_next_trigger_time]

(* NodeTimerList::insert; of equal times, the one inserted last comes last. *)
Inserted(l, p, timeout, trigger) ==
    LET entry == [trigger |-> trigger, timeout |-> timeout, position |-> p]
    IN  [m_timers |-> InsertAt(l.m_timers, UpperBound(l.m_timers, trigger), entry),
         m_iterators |-> [q \in DOMAIN l.m_iterators \cup {p} |->
                             IF q \in DOMAIN l.m_iterators THEN l.m_iterators[q] ELSE entry],
         m_next_trigger_time |->
             IF l.m_next_trigger_time = NoTrigger \/ trigger < l.m_next_trigger_time
             THEN trigger ELSE l.m_next_trigger_time]

(* NodeTimerList::set *)
Renewed(l, p, timeout, elapsed) ==
    Inserted(Removed(l, p), p, timeout, m_time + timeout - elapsed)

-----------------------------------------------------------------------------
(* NodeTimerRef::l_set and l_start *)
LuaSet(p, timeout, elapsed) ==
    /\ list' = Renewed(list, p, timeout, elapsed)
    /\ UNCHANGED << m_time, elapsed_timers >>

(* NodeTimerRef::l_stop *)
LuaStop(p) ==
    /\ list' = Removed(list, p)
    /\ UNCHANGED << m_time, elapsed_timers >>

(* NodeTimerList::step, and MapBlock::step up to its first callback *)
StepTimers(dtime) ==
    LET now == m_time + dtime
        i == UpperBound(list.m_timers, now)
        out == SubSeq(list.m_timers, 1, i - 1)
        left == SubSeq(list.m_timers, i, Len(list.m_timers))
        runs == list.m_next_trigger_time # NoTrigger /\ now >= list.m_next_trigger_time
    IN  /\ elapsed_timers = << >>
        /\ now <= MaxTime
        /\ m_time' = now
        /\ IF ~runs THEN UNCHANGED << list, elapsed_timers >>
           ELSE /\ list' = [m_timers |-> left,
                            m_iterators |-> [p \in DOMAIN list.m_iterators
                                               \ {out[j].position : j \in DOMAIN out} |->
                                                   list.m_iterators[p]],
                            m_next_trigger_time |-> FirstTrigger(left)]
                /\ elapsed_timers' = [j \in DOMAIN out |->
                       [position |-> out[j].position, timeout |-> out[j].timeout,
                        elapsed |-> out[j].timeout + now - out[j].trigger]]

(* MapBlock::step: the callback of the first returns and may ask for       *)
(* another cycle.  What callbacks set or stop meanwhile are other actions. *)
TimerCallback(again) ==
    /\ elapsed_timers # << >>
    /\ elapsed_timers' = Tail(elapsed_timers)
    /\ list' = IF again
               THEN Renewed(list, Head(elapsed_timers).position,
                            Head(elapsed_timers).timeout, 0)
               ELSE list
    /\ UNCHANGED m_time

\* deSerialize: a new list, with the clock at 0, into which the saved timers are
\* inserted one after the other, each with what is left of it; one whose timeout
\* is not above 0, or whose node has a timer already, is ignored.
Loaded(timers) ==
    LET Ignored(n, l) == timers[n].timeout <= 0 \/ timers[n].position \in DOMAIN l.m_iterators
        upto[n \in 0 .. Len(timers)] ==
            IF n = 0 THEN Cleared
            ELSE IF Ignored(n, upto[n - 1]) THEN upto[n - 1]
            ELSE Inserted(upto[n - 1], timers[n].position, timers[n].timeout,
                          timers[n].trigger - m_time)
    IN  upto[Len(timers)]

(* serialize and, in a new block, deSerialize *)
SaveAndLoad ==
    /\ elapsed_timers = << >>
    /\ m_time' = 0
    /\ list' = Loaded(list.m_timers)
    /\ UNCHANGED elapsed_timers

NextTimers ==
    \/ \E p \in Positions : \/ \E s \in Settings : LuaSet(p, s.timeout, s.elapsed)
                            \/ LuaStop(p)
    \/ \E dtime \in Steps : StepTimers(dtime)
    \/ \E again \in BOOLEAN : TimerCallback(again)
    \/ SaveAndLoad

SpecTimers == InitTimers /\ [][NextTimers]_timervars

-----------------------------------------------------------------------------
\* For each node with a timer what is left of it.
Timers ==
    [p \in DOMAIN list.m_iterators |->
        [left |-> list.m_iterators[p].trigger - m_time,
         timeout |-> list.m_iterators[p].timeout]]

TimerSet == INSTANCE TimerSet WITH timers <- Timers, runout <- elapsed_timers

(* nodetimer.h:62-102: the list, its index and its first time together  *)
(* are a set of timers, each of which runs out exactly when nothing is     *)
(* left of it, however often the block is saved and loaded; only a timer   *)
(* whose timeout is not above 0 does not survive that (nodetimer.cpp:93).   *)
TimersAreSet == TimerSet!TimerSetSpec

(* doc/lua_api.md:8101, "will trigger the node's `on_timer` function after *)
(* `(timeout - elapsed)` seconds": when the time moves on, no timer whose  *)
(* time has come is left in the list.                                      *)
NoneLate ==
    [][m_time' > m_time => \A t \in Range(list'.m_timers) : t.trigger > m_time']_timervars
=============================================================================
