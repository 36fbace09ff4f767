----------------------------- MODULE MCTodStore -----------------------------
(***************************************************************************)
(* Instances of TodStore for TLC: windows around a month's end and a year's *)
(* end, so that files get old enough to be deleted, and a short minute.     *)
(***************************************************************************)
EXTENDS TodStore

At(year, mon, min) == [year |-> year, mon |-> mon, win |-> Win(1, 0, FloorFive(min))]
Key(t, trno) == [t |-> t, trno |-> trno]
Keyed(keys, secs) == {[key |-> k, sec |-> s] : k \in keys, s \in secs}

(* A window of November and two neighbours in January: the month before     *)
(* January is December, so the November file gets old enough to be deleted. *)
MCKeys == {Key(At(20, 11, 0), 1), Key(At(21, 1, 0), 1), Key(At(21, 1, 7), 2)}
MCForwardHeaders == Keyed(MCKeys, {0})
MCForward == {p \in MCForwardHeaders \X MCForwardHeaders :
                 p[1].key = p[2].key \/ Earlier(p[1].key.t, p[2].key.t)}

(* The same with every second of one short minute in the last window, and   *)
(* a clock that stood at year 0 until then.                                 *)
MCUnset == Key(At(0, 5, 0), 1)
MCTimed == Key(At(21, 1, 7), 2)
MCSecondsHeaders ==
    MCForwardHeaders \cup Keyed({MCTimed}, 0..2) \cup Keyed({MCUnset}, {0})
MCSeconds == {p \in MCSecondsHeaders \X MCSecondsHeaders :
                IF p[1].key = MCUnset THEN p[2] = p[1] \/ (p[2].key = MCTimed /\ p[2].sec = 0)
                ELSE p[1].key = p[2].key \/ Earlier(p[1].key.t, p[2].key.t)}

(* Seconds without a gap, in one window and the next. *)
MCSecHeaders == Keyed({Key(At(20, 12, 0), 1), Key(At(20, 12, 5), 1)}, 0..3)
MCSecOneByOne == {p \in MCSecHeaders \X MCSecHeaders :
                    /\ p[1].key = p[2].key \/ Earlier(p[1].key.t, p[2].key.t)
                    /\ p[2].sec = (p[1].sec + 1) % 4}
=============================================================================
