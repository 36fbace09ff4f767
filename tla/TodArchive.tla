----------------------------- MODULE TodArchive -----------------------------
(***************************************************************************)
(* What the storage of train operation data promises, without its threads, *)
(* files, semaphore and zip: frames are accepted in order, the latest one   *)
(* may be recorded, and a recorded frame disappears only once the window it *)
(* is filed under is more than a month behind the latest stamp, in months   *)
(* of the calendar.                                                         *)
(***************************************************************************)
EXTENDS TodStamp

CONSTANT Fids       \* identities a file can have

VARIABLES
    accepted,       \* number of frames accepted
    now,            \* stamp of the latest one
    kept            \* recorded frames, with the identity of their file

vars == <<accepted, now, kept>>

Init == accepted = 0 /\ now = ZeroStamp /\ kept = {}

Accept ==
    /\ accepted' = accepted + 1
    /\ now' \in {k.t : k \in Fids}
    /\ UNCHANGED kept

Record(k) ==
    /\ kept' = kept \cup {[id |-> accepted, key |-> k]}
    /\ UNCHANGED <<accepted, now>>

Expire ==
    /\ kept' \subseteq kept
    /\ \A r \in kept \ kept' : OverAMonth(r.key.t, now)
    /\ UNCHANGED <<accepted, now>>

Next == Accept \/ (\E k \in Fids : Record(k)) \/ Expire

Spec == Init /\ [][Next]_vars
=============================================================================
