----------------------------- MODULE MCDownload -----------------------------
(***************************************************************************)
(* Instances of Download for TLC.                                           *)
(***************************************************************************)
EXTENDS Download

MCOne == {"a1"}
MCSigned == {"a1", "a2"}
MCThree == {"a1", "a2", "a3"}
MCOdd == {"x1"}
MCOthers == {"o1"}
MCEnds == {"recv"}
MCAny == {"recv", "look", "dead"}
=============================================================================
