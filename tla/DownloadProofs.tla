--------------------------- MODULE DownloadProofs ---------------------------
(***************************************************************************)
(* Theorems about Download for every value of its constants.                *)
(***************************************************************************)
EXTENDS Download, FiniteSetTheorems, TLAPS

(* Every set of files is finite, so it can be counted. *)
LEMMA FilesFinite ==
    /\ IsFiniteSet(ArcFiles) /\ IsFiniteSet(Others)
    /\ \A S \in SUBSET Files : IsFiniteSet(S) /\ Cardinality(S) \in Nat
  <1>1. IsFiniteSet(Files) /\ ArcFiles \subseteq Files /\ Others \subseteq Files
    BY DownloadAssumption DEF Files
  <1>2. QED BY <1>1, FS_Subset, FS_CardinalityType

(* Two counts of files, not both 0, do not add up to 0. *)
LEMMA TotalPositive ==
    ASSUME NEW A \in SUBSET ArcFiles, NEW B \in SUBSET Others, A \cup B # {}
    PROVE  Cardinality(A) + Cardinality(B) \in Nat \ {0}
  <1>1. A \in SUBSET Files /\ B \in SUBSET Files
    BY DEF Files
  <1>2. IsFiniteSet(A) /\ IsFiniteSet(B) /\ Cardinality(A) \in Nat /\ Cardinality(B) \in Nat
    BY <1>1, FilesFinite
  <1>3. Cardinality(A) # 0 \/ Cardinality(B) # 0
    BY <1>2, FS_EmptySet
  <1>4. QED BY <1>2, <1>3

(* The rate shown is never above a thousand, whatever the counter is. *)
LEMMA RateType ==
    ASSUME iTotal \in Nat \ {0}, NEW n \in Nat
    PROVE  Rate(n) \in 0..1000
  <1>1. \A q \in Int : (IF q % 65536 >= 1000 THEN 1000 ELSE q % 65536) \in 0..1000
    OBVIOUS
  <1>2. (n * 1000) \div iTotal \in Int
    OBVIOUS
  <1>3. QED BY <1>1, <1>2 DEF Rate

-----------------------------------------------------------------------------
(* Type correctness: a rate is only computed while there is a total.        *)
TypeInv ==
    /\ TypeOK
    /\ dpc \in DownSteps \ {"count"} => iTotal # 0
    /\ dpc \in {"open", "copy"} => name \in Files

LEMMA TypeInit == Init => TypeInv
  <1>1. ASSUME Init PROVE TypeInv
    <2>1. QueueType
      BY <1>1, DownloadAssumption DEF Init, QueueType
    <2>2. WorldType
      BY <1>1, DownloadAssumption DEF Init, WorldType, Files
    <2>a. cmd \in BOOLEAN
      BY <1>1, Zenon DEF Init
    <2>b. result \in 0..7 /\ ratio \in 0..1000 /\ wState \subseteq Flags /\ TdcType
      BY <1>1 DEF Init, TdcType
    <2>3. BailType /\ TdcType
      BY <2>a, <2>b DEF BailType
    <2>4. DnType
      BY <1>1 DEF Init, DnType
    <2>5. dpc \notin DownSteps /\ dpc \notin {"open", "copy"}
      BY <1>1 DEF Init, DownSteps
    <2>6. QED BY <2>1, <2>2, <2>3, <2>4, <2>5 DEF TypeInv, TypeOK
  <1>2. QED BY <1>1

(* What a step of dn within ScanUsb leaves alone. *)
LEMMA ScanFrame ==
    ASSUME ScanUsb
    PROVE  /\ UNCHANGED <<cmd, result, ratio, dtq, tpc, tw, locals, pulls, fileVars>>
           /\ dpc \in ScanSteps
           /\ dpc' \in {"recv", "dead"} \cup ScanSteps
  <1> USE DEF bailVars, tdcVars, stickVars, ScanSteps, DnStores
  <1>1. CASE ScanBegin \/ ScanProbe \/ ScanLook
    BY <1>1 DEF ScanBegin, ScanProbe, ScanLook
  <1>2. CASE ScanUnseize \/ ScanMark
    BY <1>2 DEF ScanUnseize, ScanMark, ScanStore
  <1>3. CASE ScanUnmark \/ ScanSeize
    BY <1>3 DEF ScanUnmark, ScanSeize, ScanStore
  <1>4. CASE ScanMount
    BY <1>4 DEF ScanMount
  <1>5. CASE ScanCheck
    BY <1>5, DownloadAssumption DEF ScanCheck
  <1>6. QED BY <1>1, <1>2, <1>3, <1>4, <1>5 DEF ScanUsb

(* A step of Download goes on without a result, or ends with one. *)
LEMMA DownFrame ==
    ASSUME Downloading
    PROVE  /\ UNCHANGED <<cmd, wState, dtq, tpc, tw, dw, stick, pulls, made, gone>>
           /\ dpc \in DownSteps
           /\ \/ dpc' \in DownSteps \ {"count"} /\ result' = result
              \/ \E r \in 1..7 : Ends(r)
  <1> USE DEF tdcVars, locals, stickVars, DownSteps, NoFiles, Success, CannotMakeDir1,
              CannotMakeDir2, CannotMakeDir3, Fail1, Fail2
  <1>1. CASE Count
    BY <1>1 DEF Count
  <1>2. CASE MakeDirectory
    BY <1>2 DEF MakeDirectory, fileVars
  <1>3. CASE FindArchive \/ FindAnother
    BY <1>3 DEF FindArchive, FindAnother, AfterArchive
  <1>4. CASE MoveOpen
    BY <1>4 DEF MoveOpen, MoveFails
  <1>5. CASE MoveEnd
    BY <1>5 DEF MoveEnd, MoveFails
  <1>6. QED BY <1>1, <1>2, <1>3, <1>4, <1>5 DEF Downloading

LEMMA PulseFrame ==
    ASSUME Pulsate
    PROVE  UNCHANGED <<dnVars, locals, stickVars, fileVars>>
  BY DEF Pulsate, PulseDone, PulseLoad, PulseUnseize, PulseLook, PulseFind, PulseSend

LEMMA WorldFrame ==
    ASSUME World
    PROVE  UNCHANGED <<bailVars, wState, dtq, tdcVars, dnVars, locals, usb, cut, unread>>
  BY DEF World, PlugIn, Pull, NewFile, DeleteOld, fileVars

LEMMA PulseType == TypeInv /\ Pulsate => BailType' /\ QueueType' /\ TdcType'
  <1> SUFFICES ASSUME TypeInv, Pulsate PROVE BailType' /\ QueueType' /\ TdcType'
    OBVIOUS
  <1>1. cmd' \in BOOLEAN
    BY Zenon DEF TypeInv, TypeOK, BailType, Pulsate, PulseDone, PulseLoad, PulseUnseize,
                 PulseLook, PulseFind, PulseSend, bailVars
  <1>2. result' \in 0..7 /\ ratio' \in 0..1000
    <2>1. (result' = result \/ result' = 0) /\ (ratio' = ratio \/ ratio' = 0)
      BY DEF Pulsate, PulseDone, PulseLoad, PulseUnseize, PulseLook, PulseFind, PulseSend, bailVars
    <2>2. QED BY <2>1 DEF TypeInv, TypeOK, BailType
  <1>3. wState' \subseteq Flags /\ tw' \subseteq Flags
    BY DEF TypeInv, TypeOK, BailType, TdcType, Pulsate, PulseDone, PulseLoad, PulseUnseize,
           PulseLook, PulseFind, PulseSend, tdcVars, Flags
  <1>4. tpc' \in {"rest", "load", "unseize", "find", "scan", "down"}
    BY DEF Pulsate, PulseDone, PulseLoad, PulseUnseize, PulseLook, PulseFind, PulseSend
  <1>5. QueueType'
    <2>1. CASE PulseSend
      <3>1. tpc \in {"scan", "down"} /\ dtq' = IF Len(dtq) < MaxCmd THEN Append(dtq, tpc) ELSE dtq
        BY <2>1 DEF PulseSend
      <3>2. dtq \in Seq({"scan", "down"}) /\ Len(dtq) <= MaxCmd
        BY DEF TypeInv, TypeOK, QueueType
      <3>3. QED BY <3>1, <3>2, DownloadAssumption DEF QueueType
    <2>2. CASE ~PulseSend
      BY <2>2 DEF Pulsate, PulseDone, PulseLoad, PulseUnseize, PulseLook, PulseFind,
                  TypeInv, TypeOK, QueueType
    <2>3. QED BY <2>1, <2>2
  <1>6. QED BY <1>1, <1>2, <1>3, <1>4, <1>5 DEF BailType, TdcType

LEMMA ReceiveType == TypeInv /\ WatchReceive => TypeInv'
  <1> SUFFICES ASSUME TypeInv, WatchReceive PROVE TypeInv'
    OBVIOUS
  <1>1. QueueType'
    <2>1. dtq # <<>> /\ dtq' = Tail(dtq)
      BY DEF WatchReceive
    <2>2. dtq \in Seq({"scan", "down"}) /\ Len(dtq) <= MaxCmd
      BY DEF TypeInv, TypeOK, QueueType
    <2>3. QED BY <2>1, <2>2, DownloadAssumption DEF QueueType
  <1> USE DEF WatchReceive
  <1>2. BailType' /\ TdcType' /\ WorldType'
    BY DEF TypeInv, TypeOK, BailType, TdcType, WorldType, tdcVars, stickVars, fileVars
  <1>3. dpc' \in {"scan", "count"}
    OBVIOUS
  <1>4. DnType'
    BY <1>3 DEF TypeInv, TypeOK, DnType, DownSteps, ScanSteps, locals
  <1>5. QED BY <1>1, <1>2, <1>3, <1>4 DEF TypeInv, TypeOK, DownSteps

LEMMA ScanType == TypeInv /\ ScanUsb => TypeInv'
  <1> SUFFICES ASSUME TypeInv, ScanUsb PROVE TypeInv'
    OBVIOUS
  <1>1. wState' \subseteq Flags /\ dw' \subseteq Flags /\ stick' \in {"out", "in", "mounted"}
    BY DEF TypeInv, TypeOK, BailType, DnType, WorldType, Flags, stickVars,
           ScanUsb, ScanBegin, ScanProbe, ScanStore, ScanUnseize, ScanMark,
           ScanUnmark, ScanSeize, ScanLook, ScanMount, ScanCheck
  <1>2. BailType' /\ QueueType' /\ TdcType'
    BY <1>1, ScanFrame DEF TypeInv, TypeOK, BailType, QueueType, TdcType
  <1>3. DnType' /\ WorldType'
    BY <1>1, ScanFrame DEF TypeInv, TypeOK, DnType, WorldType, locals, fileVars
  <1>4. dpc' \notin DownSteps
    BY ScanFrame DEF DownSteps, ScanSteps, DnStores
  <1>5. QED BY <1>2, <1>3, <1>4 DEF TypeInv, TypeOK, DownSteps

(* What a step of Download does to its locals, the rate and the files. *)
LEMMA DownLocals ==
    ASSUME TypeInv, Downloading
    PROVE  /\ iFiles' \in Nat /\ iTotal' \in Nat /\ ratio' \in 0..1000
           /\ name' \in Files \cup {"none"} /\ counted' \subseteq Files
           /\ archive' \subseteq archive /\ another' \subseteq another /\ usb' \subseteq Files
           /\ cut' \subseteq Files /\ unread' \subseteq Files
           /\ dpc' \in DownSteps \ {"count"} => iTotal' # 0
           /\ dpc' \in {"open", "copy"} => name' \in Files
  <1> USE DEF TypeInv, TypeOK, BailType, DnType, WorldType, locals, fileVars
  <1>1. archive \subseteq Files /\ another \subseteq Files
    BY DEF Files
  <1>2. CASE Count
    <2>1. CASE Ends(NoFiles)
      BY <1>2, <2>1 DEF Count, Ends, DownSteps
    <2>2. CASE ~Ends(NoFiles)
      <3>1. PICK a \in Seen(archive), o \in Seen(another) :
                  /\ a \cup o # {}
                  /\ iTotal' = SearchOtherFile(a) + SearchOtherFile(o)
                  /\ counted' = a \cup o
                  /\ UNCHANGED <<iFiles, name>>
        BY <1>2, <2>2 DEF Count
      <3>2. a \in SUBSET ArcFiles /\ o \in SUBSET Others /\ a \cup o \subseteq Files
        BY <1>1 DEF Seen
      <3>3. Cardinality(a) + Cardinality(o) \in Nat \ {0}
        BY <3>1, <3>2, TotalPositive
      <3>4. ratio' = 0 /\ unread' = {} /\ UNCHANGED <<archive, another, usb, cut>>
        BY <1>2 DEF Count
      <3>5. dpc' \notin {"open", "copy"}
        BY <1>2 DEF Count, Ends
      <3>6. iTotal' \in Nat \ {0}
        BY <3>1, <3>3 DEF SearchOtherFile
      <3>7. QED BY <3>1, <3>2, <3>4, <3>5, <3>6
    <2>3. QED BY <2>1, <2>2
  <1>3. CASE MakeDirectory
    BY <1>3 DEF MakeDirectory, Ends, DownSteps
  <1>4. CASE FindArchive
    BY <1>1, <1>4 DEF FindArchive, AfterArchive, Ends, DownSteps
  <1>5. CASE FindAnother
    BY <1>1, <1>5 DEF FindAnother, Ends, DownSteps
  <1>6. CASE MoveOpen
    BY <1>6 DEF MoveOpen, MoveFails, Ends, DownSteps
  <1>7. CASE MoveEnd
    <2>1. dpc = "copy" /\ iTotal # 0 /\ name \in Files
      BY <1>7 DEF MoveEnd, DownSteps
    <2>2. Rate(iFiles + 1) \in 0..1000 /\ iFiles + 2 \in Nat
      BY <2>1, RateType
    <2>3. CASE MoveFails
      BY <1>7, <2>1, <2>3 DEF MoveEnd, MoveFails, Written, Ends, DownSteps
    <2>4. CASE ~MoveFails
      BY <1>7, <2>1, <2>2, <2>4 DEF MoveEnd, Written
    <2>5. QED BY <2>3, <2>4
  <1>8. QED BY <1>2, <1>3, <1>4, <1>5, <1>6, <1>7 DEF Downloading

LEMMA DownType == TypeInv /\ Downloading => TypeInv'
  <1> SUFFICES ASSUME TypeInv, Downloading PROVE TypeInv'
    OBVIOUS
  <1>1. dpc' \in {"recv"} \cup DownSteps /\ result' \in 0..7
    BY DownFrame DEF Ends, TypeInv, TypeOK, BailType
  <1>a. QueueType' /\ TdcType' /\ UNCHANGED <<cmd, wState>>
    BY DownFrame DEF TypeInv, TypeOK, QueueType, TdcType
  <1>2. BailType' /\ QueueType' /\ TdcType'
    BY <1>1, <1>a, DownLocals DEF TypeInv, TypeOK, BailType
  <1>3. DnType' /\ WorldType'
    BY <1>1, DownFrame, DownLocals DEF TypeInv, TypeOK, DnType, WorldType
  <1>4. QED BY <1>2, <1>3, DownLocals DEF TypeInv, TypeOK

LEMMA EnvironmentType == TypeInv /\ World => WorldType'
  <1> SUFFICES ASSUME TypeInv, World PROVE WorldType'
    OBVIOUS
  <1> USE DEF TypeInv, TypeOK, WorldType, stickVars, fileVars
  <1>1. CASE PlugIn \/ Pull
    BY <1>1, DownloadAssumption DEF PlugIn, Pull
  <1>2. CASE \E f \in Files : NewFile(f) \/ DeleteOld(f)
    BY <1>2 DEF NewFile, DeleteOld
  <1>3. QED BY <1>1, <1>2 DEF World

LEMMA TypeStep == TypeInv /\ [Next]_vars => TypeInv'
  <1> SUFFICES ASSUME TypeInv, [Next]_vars PROVE TypeInv'
    OBVIOUS
  <1>1. CASE Pulsate
    BY <1>1, PulseFrame, PulseType
       DEF TypeInv, TypeOK, DnType, WorldType, dnVars, locals, stickVars, fileVars
  <1>2. CASE Watch
    BY <1>2, ReceiveType, ScanType, DownType DEF Watch
  <1>3. CASE World
    BY <1>3, WorldFrame, EnvironmentType
       DEF TypeInv, TypeOK, BailType, QueueType, TdcType, DnType, bailVars, tdcVars, dnVars, locals
  <1>4. CASE UNCHANGED vars
    BY <1>4 DEF TypeInv, TypeOK, BailType, QueueType, TdcType, DnType, WorldType, vars,
                bailVars, tdcVars, dnVars, locals, stickVars, fileVars
  <1>5. QED BY <1>1, <1>2, <1>3, <1>4 DEF Next

(* Every variable keeps its type: no thread leaves the steps the model      *)
(* names, the queue stays within its capacity and the rate within 1000.     *)
THEOREM TypeCorrect == Spec => []TypeOK
  <1>1. TypeInv => TypeOK
    BY DEF TypeInv
  <1>2. QED BY <1>1, TypeInit, TypeStep, PTL DEF Spec

LEMMA TypeHeld == Spec => []TypeInv
  BY TypeInit, TypeStep, PTL DEF Spec

-----------------------------------------------------------------------------
(* The handshake.  A DOWNLOAD command is the last in the queue, since tdc   *)
(* sends nothing while its flag is up; so when the result is in, dn has     *)
(* nothing left to do until tdc has dealt with it.                          *)
Quiet == dtq = <<>> /\ dpc \in {"recv", "dead"}

HandInv ==
    /\ OneDownload
    /\ \A i \in Ordered : i = Len(dtq)
    /\ dpc \in DownSteps => dtq = <<>>
    /\ cmd => tpc \in {"rest", "down"}
    /\ cmd /\ result # 0 => Quiet
    /\ tpc \in {"load", "unseize"} => Quiet

LEMMA HandInit == Init => HandInv
  BY DEF Init, HandInv, OneDownload, Ordered, Quiet, DownSteps

LEMMA HandStep == TypeInv /\ HandInv /\ [Next]_vars => HandInv'
  <1> SUFFICES ASSUME TypeInv, HandInv, [Next]_vars PROVE HandInv'
    OBVIOUS
  <1> USE DEF HandInv, OneDownload, Ordered, Quiet, bailVars, tdcVars, dnVars
  <1>1. ASSUME PulseDone PROVE HandInv'
    BY <1>1 DEF PulseDone, Pulse, DownSteps
  <1>2. ASSUME PulseLoad \/ PulseUnseize \/ PulseLook PROVE HandInv'
    BY <1>2 DEF PulseLoad, PulseUnseize, PulseLook, Pulse, DownSteps
  <1>3. ASSUME PulseFind PROVE HandInv'
    BY <1>3 DEF PulseFind, DownSteps
  <1>4. ASSUME PulseSend PROVE HandInv'
    <2>1. dtq \in Seq({"scan", "down"})
      BY DEF TypeInv, TypeOK, QueueType
    <2>2. CASE Len(dtq) < MaxCmd
      <3>1. dtq' = Append(dtq, tpc)
        BY <1>4, <2>2 DEF PulseSend
      <3>0. tpc \in {"scan", "down"}
        BY <1>4 DEF PulseSend
      <3>2. /\ Len(dtq') = Len(dtq) + 1
            /\ dtq'[Len(dtq')] = tpc
            /\ \A i \in 1..Len(dtq) : dtq'[i] = dtq[i]
        <4> HIDE DEF HandInv
        <4>1. QED BY <2>1, <3>0, <3>1
      <3>3. CASE tpc = "down"
        BY <1>4, <2>1, <3>2, <3>3 DEF PulseSend, DownSteps
      <3>4. CASE tpc = "scan"
        BY <1>4, <2>1, <3>2, <3>4 DEF PulseSend, DownSteps
      <3>5. QED BY <1>4, <3>3, <3>4 DEF PulseSend
    <2>3. CASE ~(Len(dtq) < MaxCmd)
      BY <1>4, <2>3 DEF PulseSend, DownSteps
    <2>4. QED BY <2>2, <2>3
  <1>5. ASSUME WatchReceive PROVE HandInv'
    <2>1. dtq \in Seq({"scan", "down"}) /\ dtq # <<>>
      BY <1>5 DEF WatchReceive, TypeInv, TypeOK, QueueType
    <2>2. /\ dtq' = Tail(dtq) /\ Len(dtq') = Len(dtq) - 1
          /\ Head(dtq) = dtq[1] /\ Len(dtq) >= 1
          /\ \A i \in 1..Len(dtq') : dtq'[i] = dtq[i + 1]
      BY <1>5, <2>1 DEF WatchReceive
    <2>3. CASE Head(dtq) = "scan"
      <3>1. dpc' = "scan" /\ UNCHANGED <<cmd, result, tpc>>
        BY <1>5, <2>3 DEF WatchReceive
      <3>2. dpc = "recv"
        BY <1>5 DEF WatchReceive
      <3>3. \A i \in Ordered' : i + 1 \in Ordered
        BY <2>2
      <3>4. \A i, j \in Ordered' : i = j
        BY <2>2, <3>3
      <3>5. \A i \in Ordered' : i = Len(dtq')
        BY <2>2, <3>3
      <3>6. Ordered' # {} => Ordered # {}
        BY <3>3
      <3>7. tpc = "down" => Ordered' = {}
        BY <3>3
      <3> HIDE DEF Ordered
      <3>8. QED BY <2>1, <3>1, <3>2, <3>4, <3>5, <3>6, <3>7 DEF DownSteps
    <2>4. CASE Head(dtq) = "down"
      <3>0. 1 \in Ordered
        <4> HIDE DEF HandInv
        <4>1. 1 \in 1..Len(dtq) /\ dtq[1] = "down"
          BY <2>1, <2>2, <2>4
        <4>2. QED BY <4>1
      <3>1. 1 \in Ordered /\ Len(dtq) = 1
        BY <3>0
      <3>2. dtq' = <<>>
        BY <2>1, <2>2, <3>1
      <3>3. dpc' = "count" /\ result' = 0 /\ UNCHANGED <<cmd, tpc>>
        BY <1>5, <2>4 DEF WatchReceive
      <3>4. QED BY <3>1, <3>2, <3>3 DEF DownSteps
    <2>5. QED BY <1>5, <2>3, <2>4 DEF WatchReceive
  <1>6. ASSUME ScanUsb PROVE HandInv'
    <2>1. dpc \notin DownSteps /\ dpc' \notin DownSteps /\ ~Quiet
      BY <1>6, ScanFrame DEF ScanSteps, DnStores, DownSteps
    <2> HIDE DEF Ordered
    <2>2. Ordered' = Ordered
      BY <1>6, ScanFrame DEF Ordered
    <2>3. QED BY <1>6, <2>1, <2>2, ScanFrame
  <1>7. ASSUME Downloading PROVE HandInv'
    <2>1. dpc \in DownSteps /\ UNCHANGED <<cmd, dtq, tpc>> /\ ~Quiet
      BY <1>7, DownFrame DEF DownSteps
    <2> HIDE DEF Ordered
    <2>2. Ordered' = Ordered
      BY <2>1 DEF Ordered
    <2>3. (dpc' \in DownSteps /\ result' = result) \/ dpc' = "recv"
      BY <1>7, DownFrame DEF Ends
    <2>4. QED BY <2>1, <2>2, <2>3 DEF DownSteps
  <1>8. ASSUME World PROVE HandInv'
    BY <1>8, WorldFrame
  <1>9. ASSUME UNCHANGED vars PROVE HandInv'
    BY <1>9 DEF vars
  <1>10. QED BY <1>1, <1>2, <1>3, <1>4, <1>5, <1>6, <1>7, <1>8, <1>9 DEF Next, Pulsate, Watch

LEMMA HandHeld == Spec => []HandInv
  BY TypeHeld, HandInit, HandStep, PTL DEF Spec

(* One download at a time, and only under tdc's flag: the single bit wCmd   *)
(* and the word wResult are handshake enough, for any queue length and any  *)
(* delay of dn.                                                             *)
THEOREM OneAtATime == Spec => []OneDownload
  <1>1. HandInv => OneDownload
    BY DEF HandInv
  <1>2. QED BY <1>1, HandHeld, PTL

(* The unlocked changes of wState by tdc and by dn never overlap.           *)
THEOREM FlagsNotLost == Spec => []FlagsAlone
  <1>1. HandInv => FlagsAlone
    BY DEF HandInv, Quiet, FlagsAlone, DnStores
  <1>2. QED BY <1>1, HandHeld, PTL

(* No one overwrites a result before tdc has seen it.                       *)
THEOREM ResultSeen == Spec => ResultKept
  <1>1. TypeInv /\ HandInv /\ [Next]_vars => [cmd /\ cmd' /\ result # 0 => result' = result]_vars
    <2> SUFFICES ASSUME TypeInv, HandInv, Next, cmd, cmd', result # 0
                 PROVE  result' = result
      BY DEF vars, bailVars
    <2>1. Quiet /\ tpc # "find"
      BY DEF HandInv
    <2>2. CASE Pulsate
      BY <2>1, <2>2 DEF Pulsate, PulseDone, PulseLoad, PulseUnseize, PulseLook, PulseFind,
                        PulseSend, bailVars
    <2>3. CASE Watch
      BY <2>1, <2>3, ScanFrame, DownFrame
         DEF Watch, WatchReceive, Quiet, DownSteps, ScanSteps, DnStores
    <2>4. CASE World
      BY <2>4, WorldFrame DEF bailVars
    <2>5. QED BY <2>2, <2>3, <2>4 DEF Next
  <1>2. QED BY <1>1, TypeHeld, HandHeld, PTL DEF Spec, ResultKept

-----------------------------------------------------------------------------
(* Where the files are.  While dn works through a directory, the files it   *)
(* counted there are still in it, on a stick, deleted or cut short; once it *)
(* has left the archive for ANOTHER_PATH, none of them is in the archive,   *)
(* unless a failed opendir hid it.                                          *)
InOthers == dpc \in {"mkdirc", "not"} \/ (dpc \in {"open", "copy"} /\ name \in Others)

FileInv ==
    /\ FilesKept
    /\ archive \cup another \cup counted \subseteq made
    /\ InOthers => counted \cap ArcFiles \subseteq usb \cup gone \cup cut \cup unread

LEMMA FileInit == Init => FileInv
  BY DEF Init, FileInv, FilesKept, InOthers

LEMMA FileStep == TypeInv /\ FileInv /\ [Next]_vars => FileInv'
  <1> SUFFICES ASSUME TypeInv, FileInv, [Next]_vars PROVE FileInv'
    OBVIOUS
  <1> USE DownloadAssumption DEF FileInv, FilesKept, InOthers, locals, fileVars, stickVars, dnVars
  <1>0. archive \subseteq ArcFiles /\ another \subseteq Others
        /\ archive \cap another = {} /\ ArcFiles \cap Others = {}
    BY DEF TypeInv, TypeOK, WorldType
  <1>1. ASSUME Pulsate PROVE FileInv'
    BY <1>1, PulseFrame
  <1>2. ASSUME WatchReceive PROVE FileInv'
    BY <1>2 DEF WatchReceive
  <1>3. ASSUME ScanUsb PROVE FileInv'
    <2>1. dpc' \notin DownSteps /\ UNCHANGED <<locals, fileVars>>
      BY <1>3, ScanFrame DEF DownSteps, ScanSteps, DnStores
    <2>2. QED BY <2>1 DEF DownSteps
  <1>4. ASSUME Count PROVE FileInv'
    <2>0. UNCHANGED <<made, archive, another, usb, gone, cut>>
      BY <1>4 DEF Count
    <2>1. CASE Ends(NoFiles)
      BY <2>0, <2>1 DEF Ends
    <2>2. CASE ~Ends(NoFiles)
      <3>1. PICK a \in Seen(archive), o \in Seen(another) :
                  /\ counted' = a \cup o
                  /\ dpc' = IF a # {} THEN "mkdirb" ELSE "mkdirc"
        BY <1>4, <2>2 DEF Count
      <3>2. a \subseteq archive /\ o \subseteq another
        BY DEF Seen
      <3>3. counted' \subseteq made'
        BY <2>0, <3>1, <3>2
      <3>4. dpc' = "mkdirb" \/ counted' \cap ArcFiles = {}
        BY <1>0, <3>1, <3>2
      <3>5. QED BY <2>0, <3>1, <3>3, <3>4
    <2>3. QED BY <2>1, <2>2
  <1>5. ASSUME MakeDirectory PROVE FileInv'
    BY <1>5 DEF MakeDirectory, Ends
  <1>a. ASSUME MoveOpen PROVE FileInv'
    <2>0. UNCHANGED <<made, archive, another, gone, cut, unread>>
      BY <1>a DEF MoveOpen
    <2>1. CASE MoveFails /\ UNCHANGED usb
      BY <2>0, <2>1 DEF MoveFails, Ends
    <2>2. CASE ~(MoveFails /\ UNCHANGED usb)
      <3>1. name \in archive \cup another /\ usb \ {name} \subseteq usb'
            /\ dpc = "open" /\ dpc' = "copy" /\ UNCHANGED <<name, counted>>
        BY <1>a, <2>2 DEF MoveOpen
      <3>2. made' \subseteq archive' \cup another' \cup usb' \cup gone' \cup cut'
        BY <2>0, <3>1
      <3>3. InOthers' => InOthers /\ name \notin ArcFiles
        BY <1>0, <3>1
      <3>4. QED BY <2>0, <3>1, <3>2, <3>3
    <2>3. QED BY <2>1, <2>2
  <1>6. ASSUME FindArchive PROVE FileInv'
    <2>1. UNCHANGED <<made, archive, another, usb, gone, cut>>
      BY <1>6 DEF FindArchive
    <2>2. CASE unread' = unread \cup (counted \cap archive) /\ AfterArchive
      <3>1. counted \cap ArcFiles \subseteq usb \cup gone \cup cut \cup unread'
        BY <1>0, <2>2
      <3>2. counted' \subseteq made /\ (counted' = counted \/ counted' = {})
        BY <2>2 DEF AfterArchive, Ends
      <3>3. QED BY <2>1, <3>1, <3>2
    <2>3. ASSUME NEW n \in archive, dpc' = "open", name' = n, UNCHANGED counted PROVE FileInv'
      BY <1>0, <2>1, <2>3
    <2>4. CASE Ends(CannotMakeDir2)
      BY <2>1, <2>4 DEF Ends
    <2>5. QED BY <1>6, <2>2, <2>3, <2>4 DEF FindArchive
  <1>7. ASSUME FindAnother PROVE FileInv'
    <2>1. UNCHANGED <<made, archive, another, usb, gone, cut>> /\ unread \subseteq unread'
          /\ dpc = "not"
      BY <1>7 DEF FindAnother
    <2>2. counted' = counted \/ counted' = {}
      BY <1>7 DEF FindAnother, Ends
    <2>3. QED BY <2>1, <2>2
  <1>8. ASSUME MoveEnd PROVE FileInv'
    <2>1. usb \subseteq usb' /\ cut \subseteq cut' /\ UNCHANGED <<made, gone, unread>>
      BY <1>8 DEF MoveEnd, Written
    <2>2. archive \cup another \cup usb \cup cut
              \subseteq archive' \cup another' \cup usb' \cup cut'
      BY <1>8 DEF MoveEnd, Written
    <2>3. counted' = counted \/ counted' = {}
      BY <1>8 DEF MoveEnd, MoveFails, Ends
    <2>4. InOthers' => InOthers
      BY <1>8 DEF MoveEnd, MoveFails, Ends
    <2>5. archive' \subseteq archive /\ another' \subseteq another
      BY <1>8 DEF MoveEnd
    <2>6. QED BY <2>1, <2>2, <2>3, <2>4, <2>5
  <1>9. ASSUME PlugIn \/ Pull PROVE FileInv'
    BY <1>9 DEF PlugIn, Pull
  <1>10. ASSUME NEW f \in Files, NewFile(f) \/ DeleteOld(f) PROVE FileInv'
    BY <1>10 DEF NewFile, DeleteOld
  <1>11. ASSUME UNCHANGED vars PROVE FileInv'
    BY <1>11 DEF vars
  <1>12. QED BY <1>1, <1>2, <1>3, <1>4, <1>5, <1>a, <1>6, <1>7, <1>8, <1>9, <1>10, <1>11
             DEF Next, Watch, Downloading, World

LEMMA FileHeld == Spec => []FileInv
  BY TypeHeld, FileInit, FileStep, PTL DEF Spec

(* No file is lost on its way to a stick, however the stick is pulled, the  *)
(* copy fails or sm deletes the file under dn, but one whose copy a full    *)
(* stick cut short without an error.                                        *)
THEOREM NoFileLost == Spec => []FilesKept
  <1>1. FileInv => FilesKept
    BY DEF FileInv
  <1>2. QED BY <1>1, FileHeld, PTL

(* Success means success: when dn stores it, every file counted is on a     *)
(* stick or deleted, was cut short by a full stick or was hidden from the   *)
(* search by an opendir that failed.                                        *)
THEOREM SuccessTrue == Spec => SuccessHonest
  <1>1. TypeInv /\ FileInv /\ [Next]_vars
            => [result' = Success /\ result # Success
                    => counted \subseteq usb \cup gone \cup cut \cup unread']_vars
    <2> SUFFICES ASSUME TypeInv, FileInv, Next, result' = Success, result # Success
                 PROVE  counted \subseteq usb \cup gone \cup cut \cup unread'
      BY DEF vars, bailVars
    <2> USE DEF Success, NoFiles, CannotMakeDir1, CannotMakeDir2, CannotMakeDir3, Fail1, Fail2
    <2>1. counted \subseteq archive \cup another \cup usb \cup gone \cup cut
          /\ counted \subseteq ArcFiles \cup Others
          /\ archive \subseteq ArcFiles /\ another \subseteq Others
      BY DEF FileInv, FilesKept, TypeInv, TypeOK, WorldType, DnType, Files
    <2>2. ~Pulsate /\ ~World
      BY WorldFrame DEF Pulsate, PulseDone, PulseLoad, PulseUnseize, PulseLook, PulseFind,
                        PulseSend, bailVars
    <2>3. ~WatchReceive /\ ~ScanUsb
      BY ScanFrame DEF WatchReceive
    <2>4. ~Count /\ ~MakeDirectory /\ ~MoveOpen /\ ~MoveEnd
      BY DEF Count, MakeDirectory, MoveOpen, MoveEnd, MoveFails, Ends
    <2>5. CASE FindArchive
      <3>1. unread' = unread \cup (counted \cap archive) /\ counted \cap Others = {}
        BY <2>5 DEF FindArchive, AfterArchive, Ends
      <3>2. QED BY <2>1, <3>1
    <2>6. CASE FindAnother
      <3>1. unread' = unread \cup (counted \cap another) /\ InOthers
        BY <2>6 DEF FindAnother, Ends, InOthers
      <3>2. counted \cap ArcFiles \subseteq usb \cup gone \cup cut \cup unread
        BY <3>1 DEF FileInv
      <3>3. ArcFiles \cap Others = {}
        BY DownloadAssumption
      <3>4. QED BY <2>1, <3>1, <3>2, <3>3
    <2>7. QED BY <2>2, <2>3, <2>4, <2>5, <2>6 DEF Next, Watch, Downloading
  <1>2. QED BY <1>1, TypeHeld, FileHeld, PTL DEF Spec, SuccessHonest
=============================================================================
