------------------------------ MODULE TodStamp ------------------------------
(***************************************************************************)
(* Time stamps of train operation data (TOD).  A TODTHEX packs year, month,*)
(* day, hour and minute into one 32-bit word; sm and dn only ever compare   *)
(* those words and step one of them back by a month.  Here day, hour and    *)
(* minute stay packed together, as the low 16 bits, in the field win.       *)
(***************************************************************************)
EXTENDS Integers

(* Field widths of TODTHEX: min 6, hour 5, day 5, mon 4, year 12 bits. *)
Win(day, hour, min) == ((day % 32) * 32 + (hour % 32)) * 64 + (min % 64)

Stamp == [year : Nat, mon : Nat, win : Nat]
Packs(t) == t.year < 4096 /\ t.mon < 16 /\ t.win < 65536

(* The word dw of the union: what the code compares with < and <=. *)
Dw(t) == (t.year * 16 + t.mon) * 65536 + t.win

(* The order of the words, field by field. *)
Earlier(s, t) ==
    \/ s.year < t.year
    \/ s.year = t.year /\ s.mon < t.mon
    \/ s.year = t.year /\ s.mon = t.mon /\ s.win < t.win

(* Mutant: January goes to the December of the same year. *)
MonthBackSameYear(t) ==
    IF t.mon > 1 THEN [t EXCEPT !.mon = @ - 1]
                 ELSE [t EXCEPT !.mon = 12]

(* FileAlign's horizon: the stamp one month before t, January going to the  *)
(* December of the year before.  The caller has returned when year is 0.    *)
MonthBack(t) ==
    IF t.mon > 1 THEN [t EXCEPT !.mon = @ - 1]
                 ELSE [t EXCEPT !.mon = 12, !.year = @ - 1]

(* The age the horizon is meant to tell, counted on the calendar: s is over *)
(* a month before t.                                                        *)
OverAMonth(s, t) ==
    LET months == (12 * t.year + t.mon) - (12 * s.year + s.mon)
    IN  months > 1 \/ (months = 1 /\ s.win < t.win)

(* A file identity: the stamp rounded down to five minutes and the train    *)
(* number (TODFINDEX).  qw = 0 is the program's "no file yet".              *)
ZeroStamp == [year |-> 0, mon |-> 0, win |-> 0]
ZeroFid == [t |-> ZeroStamp, trno |-> 0]

(* AppendTod rounds the minute before it builds the identity. *)
FloorFive(min) == (min \div 5) * 5

(* Mutant: a repeated second looks like a full minute. *)
SecGapRoundUp(prev, sec, minute) ==
    ((sec + (IF prev >= sec THEN minute ELSE 0)) - prev) % 256

(* AppendTod's distance in seconds between two frames, in a BYTE; minute is *)
(* 60 in the program.                                                       *)
SecGap(prev, sec, minute) ==
    ((sec + (IF prev > sec THEN minute ELSE 0)) - prev) % 256
=============================================================================
