---------------------------- MODULE ReportProofs ----------------------------
(***************************************************************************)
(* Proofs about Report: its types; that up never meets a command whose flag *)
(* is still up, whatever the pace of the frames and whatever fails; and     *)
(* that without an early frame and without a failure every frame from the   *)
(* first report on is reported once and whole.                              *)
(***************************************************************************)
EXTENDS Report, TLAPS, SequenceTheorems

(* Which flags may be up where up is. *)
FlagInv ==
    /\ upc = "recv" => wRepState \subseteq {"connected"}
    /\ upc \in {"bridge", "bridged"} => "sending" \notin wRepState
    /\ upc \in {"head", "tail", "socket", "sendto", "failed", "sent"} =>
        "connecting" \notin wRepState /\ "sending" \in wRepState

LEMMA SeqWiden == ASSUME NEW S, NEW T, S \subseteq T, NEW s \in Seq(S) PROVE s \in Seq(T)
PROOF
<1>1. PICK k \in Nat : s \in [1..k -> S]
  BY SeqDef
<1>2. s \in [1..k -> T]
  BY <1>1
<1> QED
  BY <1>2, SeqDef

LEMMA TypeStep == TypeOK /\ [Next]_vars => TypeOK'
PROOF
<1> SUFFICES ASSUME TypeOK, [Next]_vars PROVE TypeOK'
  OBVIOUS
<1> USE ReportAssumption DEF TypeOK, Flags, tagVars, pulseVars, upVars
<1> DEFINE Cmds == {"connect", "report"}
<1>1. (0..n) \subseteq 0..(n + 1) /\ n \in 0..n /\ (n < MaxFrames => n + 1 \in 0..MaxFrames)
  OBVIOUS
<1>2. Halves \subseteq [head : 0..(n + 1), tail : 0..(n + 1)]
  BY <1>1 DEF Halves
<1>3. CASE AcceptHead
  <2>1. n' = n + 1 /\ n' \in 0..MaxFrames /\ UNCHANGED <<buf, sent, utq, wRepState, upc, iSock, faults, ppc, bServer>> /\ rpc' = "tail"
    BY <1>3, <1>1 DEF AcceptHead
  <2>5. early' \in 0..MaxEarly
    BY <1>3 DEF AcceptHead
  <2>2. Halves' = [head : 0..(n + 1), tail : 0..(n + 1)]
    BY <2>1 DEF Halves
  <2>3. sent \in Seq([head : 0..(n + 1), tail : 0..(n + 1)])
    <3> HIDE DEF TypeOK
    <3>1. sent \in Seq(Halves)
      BY DEF TypeOK
    <3> QED
      BY ONLY <1>2, <3>1, SeqWiden
  <2>4. slot' \in Halves'
    <3>1. slot' = [slot EXCEPT !.head = n + 1] /\ n + 1 \in 0..(n + 1)
      BY <1>3 DEF AcceptHead
    <3>2. slot \in [head : 0..(n + 1), tail : 0..(n + 1)]
      BY <1>2
    <3> QED
      BY <3>1, <3>2, <2>2
  <2> QED
    BY <2>1, <2>2, <2>3, <2>4, <2>5, <1>2
<1>4. CASE TakeReceiveAsync
  <2>1. CASE AcceptTail
    BY <2>1, <1>1 DEF AcceptTail, Halves
  <2>2. CASE TestReport
    BY <2>2 DEF TestReport, Halves
  <2>3. CASE AskReport
    BY <2>3 DEF AskReport, TaskCmd, Halves
  <2>4. CASE PutReport
    <3>1. utq' \in Seq(Cmds) /\ Len(utq') <= MaxCmd
      BY <2>4 DEF PutReport, Put
    <3> QED
      BY <2>4, <3>1 DEF PutReport, Halves
  <2> QED
    BY <1>4, <2>1, <2>2, <2>3, <2>4 DEF TakeReceiveAsync
<1>5. CASE Pulsate
  <2>1. CASE ShowServer
    BY <2>1 DEF ShowServer, Halves
  <2>2. CASE NotDue
    BY <2>2 DEF NotDue, Halves
  <2>3. CASE Due
    BY <2>3 DEF Due, Halves
  <2>4. CASE AskConnect
    BY <2>4 DEF AskConnect, TaskCmd, Halves
  <2>5. CASE PutConnect
    <3>1. utq' \in Seq(Cmds) /\ Len(utq') <= MaxCmd
      BY <2>5 DEF PutConnect, Put
    <3> QED
      BY <2>5, <3>1 DEF PutConnect, Halves
  <2> QED
    BY <1>5, <2>1, <2>2, <2>3, <2>4, <2>5 DEF Pulsate
<1>6. CASE Watch
  <2>1. CASE WatchReceive
    <3>1. utq' \in Seq(Cmds) /\ Len(utq') <= MaxCmd
      BY <2>1 DEF WatchReceive
    <3>2. upc' \in {"recv", "bridge", "head"} /\ wRepState' \subseteq Flags
      BY <2>1 DEF WatchReceive, Entry, Raised
    <3> QED
      BY <2>1, <3>1, <3>2 DEF WatchReceive, Halves
  <2>2. CASE Bridge
    BY <2>2 DEF Bridge, Halves
  <2>3. CASE Bridged
    BY <2>3 DEF Bridged, Halves
  <2>4. CASE CopyHead
    BY <2>4 DEF CopyHead, Halves
  <2>5. CASE CopyTail
    BY <2>5 DEF CopyTail, Halves
  <2>6. CASE OpenSocket
    BY <2>6 DEF OpenSocket, Fails, Halves
  <2>7. CASE SendTo
    <3>1. sent' \in Seq(Halves) /\ faults' \in 0..MaxFaults /\ upc' \in {"sent", "failed"}
      BY <2>7 DEF SendTo, Fails
    <3>2. Halves' = Halves /\ UNCHANGED <<tagVars, utq, pulseVars, buf, iSock, wRepState>>
      BY <2>7 DEF SendTo, Halves
    <3> QED
      BY <3>1, <3>2
  <2>8. CASE ReportFailed
    BY <2>8 DEF ReportFailed, Halves
  <2>9. CASE Reported
    BY <2>9 DEF Reported, Halves
  <2> QED
    BY <1>6, <2>1, <2>2, <2>3, <2>4, <2>5, <2>6, <2>7, <2>8, <2>9 DEF Watch
<1>7. CASE UNCHANGED vars
  BY <1>7 DEF vars, Halves
<1> QED
  BY <1>3, <1>4, <1>5, <1>6, <1>7 DEF Next

(* Every variable of Report stays in its domain; in particular the queue    *)
(* never holds more than MAX_TASKCMD commands, though two threads look at   *)
(* its fill before either sends.                                            *)
THEOREM TypeCorrect == Spec => []TypeOK
PROOF
<1>1. Init => TypeOK
  <2> SUFFICES ASSUME Init PROVE TypeOK
    OBVIOUS
  <2>1. 0 \in 0..0 /\ 0 \in 0..MaxFrames /\ 0 \in 0..MaxFaults /\ 0 \in 0..MaxEarly /\ MaxCmd \in Nat /\ n = 0
    BY ReportAssumption DEF Init
  <2>2. Frame(0) \in Halves
    BY <2>1 DEF Frame, Halves
  <2>3. utq \in Seq({"connect", "report"}) /\ Len(utq) <= MaxCmd /\ sent \in Seq(Halves)
    BY <2>1 DEF Init
  <2> QED
    BY <2>1, <2>2, <2>3 DEF Init, TypeOK, Flags
<1> QED
  BY <1>1, TypeStep, PTL DEF Spec

-----------------------------------------------------------------------------
LEMMA FlagStep == TypeOK /\ FlagInv /\ [Next]_vars => FlagInv'
PROOF
<1> SUFFICES ASSUME TypeOK, FlagInv, [Next]_vars PROVE FlagInv'
  OBVIOUS
<1> USE DEF FlagInv, tagVars, pulseVars, upVars
<1>1. CASE AcceptHead \/ TakeReceiveAsync
  BY <1>1 DEF AcceptHead, TakeReceiveAsync, AcceptTail, TestReport, AskReport, PutReport
<1>2. CASE Pulsate
  BY <1>2 DEF Pulsate, ShowServer, NotDue, Due, AskConnect, PutConnect
<1>3. CASE WatchReceive
  <2>1. Head(utq) \in {"connect", "report"}
    BY <1>3 DEF WatchReceive, TypeOK
  <2>2. wRepState \subseteq {"connected"}
    BY <1>3 DEF WatchReceive
  <2> QED
    BY <1>3, <2>1, <2>2 DEF WatchReceive, Raised, Entry
<1>4. CASE Bridge \/ Bridged
  BY <1>4 DEF Bridge, Bridged, TypeOK, Flags
<1>5. CASE CopyHead \/ CopyTail
  BY <1>5 DEF CopyHead, CopyTail
<1>6. CASE OpenSocket \/ SendTo
  BY <1>6 DEF OpenSocket, SendTo, Fails
<1>7. CASE ReportFailed \/ Reported
  BY <1>7 DEF ReportFailed, Reported, TypeOK, Flags
<1>8. CASE UNCHANGED vars
  BY <1>8 DEF vars
<1> QED
  BY <1>1, <1>2, <1>3, <1>4, <1>5, <1>6, <1>7, <1>8 DEF Next, Watch

(* up waits for a command only with "connecting" and "sending" down: the    *)
(* tests of CUp::Watch never throw a CONNECT or a REPORT away, and a        *)
(* failure in the middle of a report leaves no flag behind.                 *)
THEOREM NoFlagLeftUp == Spec => []FlagsDown
PROOF
<1>1. Init => FlagInv
  BY DEF Init, FlagInv
<1>2. FlagInv => FlagsDown
  BY DEF FlagInv, FlagsDown
<1> QED
  BY <1>1, <1>2, TypeCorrect, FlagStep, PTL DEF Spec

-----------------------------------------------------------------------------
(* While no frame was early and nothing failed: the tag thread works on a   *)
(* frame only while no report is under way, so the frame in the slot is the *)
(* one up copies; the flag "connected" stays up once a report was asked     *)
(* for; and from then on the pulse thread adds one more CONNECT at most,    *)
(* the one it had made up its mind to before, which leaves room in a queue  *)
(* of two.                                                                  *)
Copying == upc \in {"head", "tail", "socket", "sendto"}
Reporting == Copying \/ upc = "sent"
HasReport == \E p \in 1..Len(utq) : utq[p] = "report"
Stale == IF ppc \in {"connect", "put"} \/ (ppc = "due" /\ ~bServer) THEN 1 ELSE 0
Owed == IF rpc # "idle" \/ HasReport \/ Copying THEN 1 ELSE 0

Undisturbed ==
    /\ upc # "failed" /\ iSock # "closed"
    /\ rpc # "idle" => ~HasReport /\ ~Reporting
    /\ Reporting => ~HasReport

OneReport == \A p, q \in 1..Len(utq) : utq[p] = "report" /\ utq[q] = "report" => p = q

Whole ==
    /\ slot.head = n /\ (rpc # "tail" => slot.tail = n)
    /\ upc = "tail" => buf.head = n
    /\ upc \in {"socket", "sendto"} => buf = Frame(n)

Begun == sent # <<>> \/ Reporting
StaysConnected == Begun \/ HasReport \/ rpc \in {"ask", "put"} => "connected" \in wRepState

Room ==
    /\ Begun /\ ~HasReport => Len(utq) + Stale <= 1
    /\ Begun /\ HasReport => Len(utq) + Stale <= 2
    /\ \A p \in 1..Len(utq) : utq[p] = "report" => Len(utq) - p + Stale <= 1

Row == \A i \in 1..Len(sent) : sent[i] = Frame(n - Owed - Len(sent) + i)

PacedInv ==
    early = 0 /\ faults = 0 => Undisturbed /\ OneReport /\ Whole /\ StaysConnected /\ Room /\ Row

LEMMA PacedStep ==
    ASSUME MaxCmd >= 2, TypeOK, FlagInv, PacedInv, [Next]_vars, early' = 0, faults' = 0
    PROVE  Undisturbed' /\ OneReport' /\ Whole' /\ StaysConnected' /\ Room' /\ Row'
PROOF
<1> DEFINE Inv == Undisturbed /\ OneReport /\ Whole /\ StaysConnected /\ Room /\ Row
<1>t. /\ n \in Nat /\ slot \in [head : 0..n, tail : 0..n] /\ buf \in [head : 0..n, tail : 0..n]
      /\ utq \in Seq({"connect", "report"}) /\ Len(utq) \in Nat
      /\ sent \in Seq(Halves) /\ Len(sent) \in Nat
      /\ early \in Nat /\ faults \in Nat
  BY ReportAssumption DEF TypeOK, Halves
<1>0. early = 0 /\ faults = 0
  <2>1. early' = early \/ early' = early + 1
    BY DEF Next, vars, AcceptHead, TakeReceiveAsync, AcceptTail, TestReport, AskReport, PutReport,
           Pulsate, ShowServer, NotDue, Due, AskConnect, PutConnect, Watch, WatchReceive, Bridge,
           Bridged, CopyHead, CopyTail, OpenSocket, SendTo, ReportFailed, Reported,
           tagVars, pulseVars, upVars
  <2>2. faults' = faults \/ faults' = faults + 1
    BY DEF Next, vars, AcceptHead, TakeReceiveAsync, AcceptTail, TestReport, AskReport, PutReport,
           Pulsate, ShowServer, NotDue, Due, AskConnect, PutConnect, Watch, WatchReceive, Bridge,
           Bridged, CopyHead, CopyTail, OpenSocket, SendTo, ReportFailed, Reported, Fails,
           tagVars, pulseVars, upVars
  <2> QED
    BY <1>t, <2>1, <2>2
<1>i. Inv
  BY <1>0 DEF PacedInv
<1>s. Stale \in {0, 1} /\ Owed \in {0, 1}
  BY DEF Stale, Owed
<1>u. (UNCHANGED utq) => (HasReport' <=> HasReport) /\ (OneReport => OneReport')
  BY DEF HasReport, OneReport
<1>1. CASE AcceptHead
  <2>1. ReportDone /\ UNCHANGED early
    BY <1>0, <1>1, <1>t DEF AcceptHead
  <2>2. ~HasReport /\ ~Reporting
    BY <2>1 DEF ReportDone, HasReport, Reporting, Copying, FlagInv
  <2>3. UNCHANGED <<utq, ppc, bServer, upc, buf, iSock, sent, wRepState>> /\ n' = n + 1 /\ rpc' = "tail"
        /\ rpc = "idle" /\ slot' = [slot EXCEPT !.head = n + 1]
    BY <1>1 DEF AcceptHead, pulseVars, upVars
  <2>4. Owed = 0 /\ Owed' = 1 /\ Stale' = Stale
    BY <2>2, <2>3 DEF Owed, Stale, Reporting, Copying
  <2>5. Undisturbed' /\ OneReport' /\ StaysConnected'
    BY <1>i, <1>u, <2>2, <2>3 DEF Undisturbed, StaysConnected, Begun, Reporting, Copying
  <2>6. Whole'
    BY <1>t, <2>2, <2>3 DEF Whole, Reporting, Copying
  <2>7. Room'
    BY <1>i, <1>u, <2>3, <2>4 DEF Room, Begun, Reporting, Copying
  <2>8. Row'
    <3>1. SUFFICES ASSUME NEW i \in 1..Len(sent) PROVE sent[i] = Frame(n' - Owed' - Len(sent) + i)
      BY <2>3 DEF Row
    <3>2. n' - Owed' - Len(sent) + i = n - Owed - Len(sent) + i
      BY <1>t, <2>3, <2>4
    <3> QED
      BY <1>i, <3>2 DEF Row
  <2> QED
    BY <2>5, <2>6, <2>7, <2>8
<1>2. CASE AcceptTail
  <2>1. UNCHANGED <<n, utq, ppc, bServer, upc, buf, iSock, sent, wRepState>> /\ rpc = "tail" /\ rpc' = "test"
        /\ slot' = [slot EXCEPT !.tail = n]
    BY <1>2 DEF AcceptTail, pulseVars, upVars
  <2>2. Owed' = Owed /\ Stale' = Stale
    BY <1>u, <2>1 DEF Owed, Stale, Copying
  <2>3. Undisturbed' /\ OneReport' /\ StaysConnected'
    BY <1>i, <1>u, <2>1 DEF Undisturbed, StaysConnected, Begun, Reporting, Copying
  <2>4. Whole'
    BY <1>i, <1>t, <2>1 DEF Whole
  <2>5. Room' /\ Row'
    BY <1>i, <1>u, <2>1, <2>2 DEF Room, Row, Begun, Reporting, Copying
  <2> QED
    BY <2>3, <2>4, <2>5
<1>3. CASE TestReport \/ AskReport
  <2>1. /\ UNCHANGED <<n, slot, utq, ppc, bServer, upc, buf, iSock, sent, wRepState>>
        /\ rpc \in {"test", "ask"} /\ rpc' \in {"ask", "put", "idle"}
    BY <1>3 DEF TestReport, AskReport, TaskCmd, pulseVars, upVars
  <2>2. ~HasReport /\ ~Reporting
    BY <1>i, <2>1 DEF Undisturbed
  <2>3. rpc' # "idle" => "connected" \in wRepState
    BY <1>i, <1>3 DEF TestReport, AskReport, StaysConnected
  <2>4. sent # <<>> => rpc' # "idle"
    <3>1. SUFFICES ASSUME sent # <<>> PROVE rpc' # "idle"
      OBVIOUS
    <3>2. "connected" \in wRepState /\ "sending" \notin wRepState
      BY <1>i, <2>2, <3>1 DEF StaysConnected, Begun, Reporting, Copying, FlagInv, TypeOK, Undisturbed
    <3>3. Len(utq) + Stale <= 1
      BY <1>i, <2>2, <3>1 DEF Room, Begun
    <3>4. Len(utq) < MaxCmd
      BY <1>s, <1>t, <3>3, ReportAssumption
    <3> QED
      BY <1>3, <3>2, <3>4 DEF TestReport, AskReport, TaskCmd
  <2>5. Undisturbed' /\ OneReport' /\ Whole'
    BY <1>i, <1>u, <2>1, <2>2 DEF Undisturbed, Whole, Reporting, Copying
  <2>6. StaysConnected'
    BY <1>i, <1>u, <2>1, <2>2, <2>3 DEF StaysConnected, Begun, Reporting, Copying
  <2>7. Room'
    BY <1>i, <1>u, <2>1 DEF Room, Begun, Reporting, Copying, Stale
  <2>8. Row'
    <3>1. CASE sent = <<>>
      BY <2>1, <3>1 DEF Row
    <3>2. CASE sent # <<>>
      <4>1. Owed = 1 /\ Owed' = 1
        BY <2>1, <2>4, <3>2 DEF Owed
      <4> QED
        BY <1>i, <2>1, <4>1 DEF Row
    <3> QED
      BY <3>1, <3>2
  <2> QED
    BY <2>5, <2>6, <2>7, <2>8
<1>4. CASE PutReport
  <2>1. /\ UNCHANGED <<n, slot, ppc, bServer, upc, buf, iSock, sent, wRepState>>
        /\ utq' = Append(utq, "report") /\ rpc = "put" /\ rpc' = "idle"
    BY <1>4 DEF PutReport, Put, pulseVars, upVars
  <2>2. ~HasReport /\ ~Reporting /\ "connected" \in wRepState
    BY <1>i, <2>1 DEF Undisturbed, StaysConnected
  <2>3. /\ Len(utq') = Len(utq) + 1
        /\ \A p \in 1..Len(utq') : utq'[p] = "report" <=> p = Len(utq')
    BY <1>t, <2>1, <2>2 DEF HasReport
  <2>4. HasReport' /\ Owed = 1 /\ Owed' = 1 /\ Stale' = Stale
    BY <1>t, <2>1, <2>3 DEF HasReport, Owed, Stale
  <2>5. Undisturbed' /\ OneReport' /\ Whole' /\ StaysConnected'
    BY <1>i, <2>1, <2>2, <2>3 DEF Undisturbed, OneReport, Whole, StaysConnected, Reporting, Copying
  <2>6. Room'
    <3>1. \A p \in 1..Len(utq') : utq'[p] = "report" => Len(utq') - p + Stale' <= 1
      BY <1>s, <1>t, <2>3, <2>4
    <3>2. Begun' => Len(utq') + Stale' <= 2
      BY <1>i, <1>s, <1>t, <2>1, <2>2, <2>3, <2>4 DEF Room, Begun, Reporting, Copying
    <3> QED
      BY <2>4, <3>1, <3>2 DEF Room
  <2>7. Row'
    BY <1>i, <2>1, <2>4 DEF Row
  <2> QED
    BY <2>5, <2>6, <2>7
<1>5. CASE Pulsate
  <2>1. UNCHANGED <<n, slot, rpc, upc, buf, iSock, sent, wRepState>>
    BY <1>5 DEF Pulsate, ShowServer, NotDue, Due, AskConnect, PutConnect, tagVars, upVars
  <2>2. CASE PutConnect
    <3>1. utq' = Append(utq, "connect") /\ Stale = 1 /\ Stale' = 0
      BY <2>2 DEF PutConnect, Put, Stale
    <3>2. Len(utq') = Len(utq) + 1 /\ \A p \in 1..Len(utq') : utq'[p] = "report" <=> p \in 1..Len(utq) /\ utq[p] = "report"
      BY <1>t, <3>1
    <3>3. (HasReport' <=> HasReport) /\ OneReport'
      BY <1>i, <1>t, <3>2 DEF HasReport, OneReport
    <3>4. Undisturbed' /\ Whole' /\ StaysConnected'
      BY <1>i, <2>1, <3>3 DEF Undisturbed, Whole, StaysConnected, Begun, Reporting, Copying
    <3>5. Room'
      <4>1. \A p \in 1..Len(utq') : utq'[p] = "report" => Len(utq') - p + Stale' <= 1
        BY <1>i, <1>t, <3>1, <3>2 DEF Room
      <4>2. Begun' => Begun
        BY <2>1 DEF Begun, Reporting, Copying
      <4>3. /\ Begun' /\ ~HasReport' => Len(utq') + Stale' <= 1
            /\ Begun' /\ HasReport' => Len(utq') + Stale' <= 2
        BY <1>i, <1>t, <3>1, <3>2, <3>3, <4>2 DEF Room
      <4> QED
        BY <4>1, <4>3 DEF Room
    <3>6. Row'
      BY <1>i, <2>1, <3>3 DEF Row, Owed, Copying
    <3> QED
      BY <3>3, <3>4, <3>5, <3>6
  <2>3. CASE ~PutConnect
    <3>1. UNCHANGED utq
      BY <1>5, <2>3 DEF Pulsate, ShowServer, NotDue, Due, AskConnect
    <3>2. Stale' <= Stale \/ "connected" \notin wRepState
      <4>1. CASE ShowServer
        <5>1. "connected" \in wRepState => ppc' = "due" /\ bServer'
          BY <4>1 DEF ShowServer
        <5>2. "connected" \in wRepState => Stale' = 0
          BY <5>1 DEF Stale
        <5> QED
          BY <1>s, <5>2
      <4>2. CASE NotDue
        BY <1>s, <4>2 DEF NotDue, Stale
      <4>3. CASE Due
        <5>a. ppc = "due" /\ UNCHANGED bServer
          BY <4>3 DEF Due
        <5>b. ppc' = "rest" \/ ~bServer
          BY <4>3, Zenon DEF Due
        <5>1. ppc = "due" /\ UNCHANGED bServer /\ (ppc' = "rest" \/ ~bServer)
          BY <5>a, <5>b
        <5>2. Stale' = 0 \/ Stale = 1
          <6>1. CASE ppc' = "rest"
            BY <6>1 DEF Stale
          <6>2. CASE ~bServer
            BY <5>1, <6>2 DEF Stale
          <6> QED
            BY <5>1, <6>1, <6>2
        <5>3. Stale' \in {0, 1}
          BY DEF Stale
        <5> QED
          BY <1>s, <5>2, <5>3
      <4>4. CASE AskConnect
        BY <1>s, <4>4 DEF AskConnect, TaskCmd, Stale
      <4> QED
        BY <1>5, <2>3, <4>1, <4>2, <4>3, <4>4 DEF Pulsate
    <3>3. Stale' \in {0, 1}
      BY DEF Stale
    <3>4. Undisturbed' /\ OneReport' /\ Whole' /\ StaysConnected' /\ Row'
      BY <1>i, <1>u, <2>1, <3>1 DEF Undisturbed, Whole, StaysConnected, Begun, Reporting, Copying, Row, Owed
    <3>5. Room'
      <4>1. CASE "connected" \notin wRepState
        BY <1>i, <1>u, <2>1, <3>1, <4>1 DEF Room, StaysConnected, Begun, Reporting, Copying, HasReport
      <4>2. CASE Stale' <= Stale
        <5>1. Room /\ (HasReport' <=> HasReport) /\ (Begun' <=> Begun)
          BY <1>i, <1>u, <2>1, <3>1 DEF Begun, Reporting, Copying
        <5> QED
          BY <1>s, <1>t, <3>1, <3>3, <4>2, <5>1 DEF Room
      <4> QED
        BY <3>2, <4>1, <4>2
    <3> QED
      BY <3>4, <3>5
  <2> QED
    BY <2>2, <2>3
<1>6. CASE WatchReceive
  <2>1. /\ UNCHANGED <<n, slot, rpc, ppc, bServer, buf, iSock, sent>>
        /\ upc = "recv" /\ utq # <<>> /\ utq' = Tail(utq)
        /\ wRepState \subseteq {"connected"} /\ wRepState \subseteq wRepState'
    BY <1>6 DEF WatchReceive, tagVars, pulseVars, FlagInv
  <2>2. Len(utq') = Len(utq) - 1 /\ \A p \in 1..Len(utq') : utq'[p] = utq[p + 1]
    BY <1>t, <2>1
  <2>3. OneReport' /\ (HasReport' => HasReport) /\ Stale' = Stale
    BY <1>i, <1>t, <2>1, <2>2 DEF OneReport, HasReport, Stale
  <2>4. \A p \in 1..Len(utq') : utq'[p] = "report" => Len(utq') - p + Stale' <= 1
    BY <1>i, <1>t, <2>2, <2>3 DEF Room
  <2>5. CASE Head(utq) = "report"
    <3>1. upc' = "head" /\ utq[1] = "report"
      BY <1>6, <1>t, <2>1, <2>5 DEF WatchReceive, Raised, Entry
    <3>2. HasReport /\ ~HasReport'
      BY <1>i, <1>t, <2>1, <2>2, <3>1 DEF HasReport, OneReport
    <3>3. rpc = "idle"
      BY <1>i, <3>2 DEF Undisturbed
    <3>4. Undisturbed' /\ Whole' /\ StaysConnected'
      BY <1>i, <2>1, <3>1, <3>2, <3>3 DEF Undisturbed, Whole, StaysConnected
    <3>5. Len(utq') + Stale' <= 1
      BY <1>i, <1>s, <1>t, <2>1, <2>2, <2>3, <3>1 DEF Room
    <3>6. Room'
      BY <2>4, <3>2, <3>5 DEF Room
    <3>7. Row'
      BY <1>i, <2>1, <3>1, <3>2 DEF Row, Owed, Copying
    <3> QED
      BY <2>3, <3>4, <3>6, <3>7
  <2>6. CASE Head(utq) # "report"
    <3>1. upc' \in {"recv", "bridge"} /\ utq[1] # "report"
      BY <1>6, <1>t, <2>1, <2>6 DEF WatchReceive, Raised, Entry
    <3>2. HasReport => HasReport'
      <4>1. SUFFICES ASSUME NEW p \in 1..Len(utq), utq[p] = "report" PROVE HasReport'
        BY DEF HasReport
      <4>2. p - 1 \in 1..Len(utq') /\ p - 1 + 1 = p
        BY <1>t, <2>2, <3>1, <4>1
      <4>3. utq'[p - 1] = "report"
        BY <2>2, <4>1, <4>2
      <4> QED
        BY <4>2, <4>3 DEF HasReport
    <3>3. (Begun' <=> Begun) /\ ~Reporting' /\ ~Reporting /\ ~Copying /\ ~Copying'
      BY <2>1, <3>1 DEF Begun, Reporting, Copying
    <3>4. Undisturbed' /\ Whole' /\ StaysConnected'
      BY <1>i, <2>1, <2>3, <3>1, <3>3 DEF Undisturbed, Whole, StaysConnected
    <3>5. Room'
      <4>1. Room /\ (HasReport' <=> HasReport)
        BY <1>i, <2>3, <3>2
      <4>2. /\ Begun' /\ ~HasReport' => Len(utq') + Stale' <= 1
            /\ Begun' /\ HasReport' => Len(utq') + Stale' <= 2
        BY <1>s, <1>t, <2>2, <2>3, <3>3, <4>1 DEF Room
      <4> QED
        BY <2>4, <4>2 DEF Room
    <3>6. Row'
      BY <1>i, <2>1, <2>3, <3>2, <3>3 DEF Row, Owed
    <3> QED
      BY <2>3, <3>4, <3>5, <3>6
  <2> QED
    BY <2>5, <2>6
<1>7. CASE Bridge \/ Bridged
  <2>1. /\ UNCHANGED <<n, slot, rpc, utq, ppc, bServer, buf, iSock, sent>>
        /\ upc \in {"bridge", "bridged"} /\ upc' \in {"bridged", "recv"}
        /\ wRepState \ {"connecting"} \subseteq wRepState'
    BY <1>7 DEF Bridge, Bridged, tagVars, pulseVars
  <2>2. (HasReport' <=> HasReport) /\ OneReport' /\ (Begun' <=> Begun) /\ ~Reporting' /\ ~Copying /\ ~Copying' /\ Stale' = Stale
    BY <1>i, <1>u, <2>1 DEF Begun, Reporting, Copying, Stale
  <2>3. Undisturbed' /\ Whole' /\ StaysConnected'
    BY <1>i, <2>1, <2>2 DEF Undisturbed, Whole, StaysConnected
  <2>4. Room' /\ Row'
    BY <1>i, <2>1, <2>2 DEF Room, Row, Owed
  <2> QED
    BY <2>2, <2>3, <2>4
<1>8. CASE CopyHead \/ CopyTail \/ OpenSocket
  <2>1. /\ UNCHANGED <<n, slot, rpc, utq, ppc, bServer, sent, wRepState>>
        /\ upc \in {"head", "tail", "socket"} /\ upc' \in {"tail", "socket", "sendto"}
        /\ iSock' \in {iSock, "open"}
    BY <1>0, <1>8 DEF CopyHead, CopyTail, OpenSocket, Fails, tagVars, pulseVars
  <2>2. (HasReport' <=> HasReport) /\ OneReport' /\ Begun' /\ Begun /\ Reporting' /\ Reporting
        /\ Copying /\ Copying' /\ Stale' = Stale
    BY <1>i, <1>u, <2>1 DEF Begun, Reporting, Copying, Stale
  <2>3. rpc = "idle" /\ ~HasReport
    BY <1>i, <2>2 DEF Undisturbed
  <2>4. Undisturbed' /\ StaysConnected'
    BY <1>i, <2>1, <2>2, <2>3 DEF Undisturbed, StaysConnected
  <2>5. Whole'
    <3>1. slot = Frame(n)
      BY <1>i, <1>t, <2>3 DEF Whole, Frame
    <3>2. CASE CopyHead
      BY <1>i, <1>t, <2>1, <3>1, <3>2 DEF Whole, CopyHead, Frame
    <3>3. CASE CopyTail
      <4>1. buf.head = n /\ buf' = [buf EXCEPT !.tail = n]
        BY <1>i, <3>1, <3>3 DEF Whole, CopyTail, Frame
      <4>2. buf' = Frame(n)
        BY <1>t, <4>1 DEF Frame
      <4>3. upc' \in {"socket", "sendto"}
        BY <3>3 DEF CopyTail
      <4> QED
        BY <1>i, <2>1, <4>2, <4>3 DEF Whole
    <3>4. CASE OpenSocket
      <4>1. upc = "socket" /\ upc' = "sendto" /\ UNCHANGED buf
        BY <1>0, <2>1, <3>4 DEF OpenSocket, Fails
      <4> QED
        BY <1>i, <2>1, <4>1 DEF Whole, Frame
    <3> QED
      BY <1>8, <3>2, <3>3, <3>4
  <2>6. Room' /\ Row'
    BY <1>i, <2>1, <2>2 DEF Room, Row, Owed
  <2> QED
    BY <2>2, <2>4, <2>5, <2>6
<1>9. CASE SendTo
  <2>1. /\ UNCHANGED <<n, slot, rpc, utq, ppc, bServer, iSock, wRepState>>
        /\ upc = "sendto" /\ upc' = "sent" /\ sent' = Append(sent, buf)
    BY <1>0, <1>9, <1>i, <1>t DEF SendTo, Fails, tagVars, pulseVars, Undisturbed
  <2>2. (HasReport' <=> HasReport) /\ OneReport' /\ Begun' /\ Begun /\ Reporting' /\ Reporting
        /\ Stale' = Stale
    BY <1>i, <1>u, <2>1 DEF Begun, Reporting, Copying, Stale
  <2>3. rpc = "idle" /\ ~HasReport /\ buf = Frame(n)
    BY <1>i, <2>1, <2>2 DEF Undisturbed, Whole
  <2>4. Undisturbed' /\ StaysConnected' /\ Whole' /\ Room'
    BY <1>i, <2>1, <2>2, <2>3 DEF Undisturbed, StaysConnected, Whole, Room
  <2>5. Owed = 1 /\ Owed' = 0
    BY <2>1, <2>2, <2>3 DEF Owed, Copying
  <2>6. Len(sent') = Len(sent) + 1 /\ sent'[Len(sent) + 1] = Frame(n)
        /\ \A i \in 1..Len(sent) : sent'[i] = sent[i]
    BY <1>t, <2>1, <2>3
  <2>7. Row'
    <3>1. SUFFICES ASSUME NEW i \in 1..Len(sent') PROVE sent'[i] = Frame(n' - Owed' - Len(sent') + i)
      BY DEF Row
    <3>2. CASE i = Len(sent) + 1
      BY <1>t, <2>1, <2>5, <2>6, <3>2
    <3>3. CASE i # Len(sent) + 1
      <4>1. i \in 1..Len(sent)
        BY <1>t, <2>6, <3>3
      <4>2. sent'[i] = Frame(n - 1 - Len(sent) + i)
        BY <1>i, <2>5, <2>6, <4>1 DEF Row
      <4>3. n - 1 - Len(sent) + i = n' - Owed' - Len(sent') + i
        BY <1>t, <2>1, <2>5, <2>6
      <4> QED
        BY <4>2, <4>3
    <3> QED
      BY <3>2, <3>3
  <2> QED
    BY <2>2, <2>4, <2>7
<1>10. CASE ReportFailed
  BY <1>10, <1>i DEF ReportFailed, Undisturbed
<1>11. CASE Reported
  <2>1. /\ UNCHANGED <<n, slot, rpc, utq, ppc, bServer, buf, iSock, sent>>
        /\ upc = "sent" /\ upc' = "recv" /\ wRepState' = wRepState \ {"sending"}
    BY <1>11 DEF Reported, tagVars, pulseVars
  <2>2. (HasReport' <=> HasReport) /\ OneReport' /\ Begun /\ ~Reporting' /\ ~Copying' /\ ~Copying /\ Stale' = Stale
    BY <1>i, <1>u, <2>1 DEF Begun, Reporting, Copying, Stale
  <2>3. Undisturbed' /\ StaysConnected' /\ Whole'
    BY <1>i, <2>1, <2>2 DEF Undisturbed, StaysConnected, Whole
  <2>4. Room' /\ Row'
    BY <1>i, <2>1, <2>2 DEF Room, Row, Owed
  <2> QED
    BY <2>2, <2>3, <2>4
<1>12. CASE UNCHANGED vars
  <2>1. UNCHANGED <<n, slot, rpc, utq, ppc, bServer, upc, buf, iSock, sent, wRepState>>
    BY <1>12 DEF vars, tagVars, pulseVars, upVars
  <2>2. (HasReport' <=> HasReport) /\ OneReport' /\ Owed' = Owed /\ Stale' = Stale
    BY <1>i, <1>u, <2>1 DEF Owed, Stale, Copying
  <2> QED
    BY <1>i, <2>1, <2>2 DEF Undisturbed, Whole, StaysConnected, Room, Row, Begun, Reporting, Copying
<1> QED
  BY <1>1, <1>2, <1>3, <1>4, <1>5, <1>6, <1>7, <1>8, <1>9, <1>10, <1>11, <1>12
     DEF Next, TakeReceiveAsync, Watch

(* With room for two commands, without an early frame and without a failure *)
(* of a socket, the frames reported are the last ones accepted, each once   *)
(* and none of them torn, whenever tdc's tag thread and up are done with    *)
(* the latest (TakeReceiveAsync, CUp::Report).                              *)
THEOREM ReportedOnce == ASSUME MaxCmd >= 2 PROVE Spec => []EachReportedOnce
PROOF
<1>1. Init => FlagInv /\ PacedInv
  <2> SUFFICES ASSUME Init PROVE FlagInv /\ PacedInv
    OBVIOUS
  <2>1. Len(utq) = 0 /\ Len(sent) = 0 /\ sent = <<>>
    BY DEF Init
  <2> QED
    BY <2>1 DEF Init, FlagInv, PacedInv, Undisturbed, OneReport, Whole, StaysConnected, Room, Row,
                Begun, Reporting, Copying, HasReport, Frame
<1>2. TypeOK /\ FlagInv /\ PacedInv /\ [Next]_vars => PacedInv'
  BY PacedStep DEF PacedInv
<1>3. TypeOK /\ FlagInv /\ PacedInv => EachReportedOnce
  <2> SUFFICES ASSUME TypeOK, FlagInv, PacedInv, early = 0, faults = 0, Settled,
                      NEW i \in 1..Len(sent)
               PROVE  sent[i] = Frame(n - Len(sent) + i)
    BY DEF EachReportedOnce
  <2>1. Owed = 0
    BY DEF Settled, ReportDone, Owed, HasReport, Copying, FlagInv
  <2> QED
    BY <2>1 DEF PacedInv, Row, TypeOK
<1> QED
  BY <1>1, <1>2, <1>3, TypeCorrect, FlagStep, PTL DEF Spec
=============================================================================
