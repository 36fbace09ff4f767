------------------------------ MODULE Download ------------------------------
(***************************************************************************)
(* Downloading to a USB stick: tdc's pulse thread (Pulsate, every 20 ms)   *)
(* drives dn through the shared block c_pDtp->bail and a command queue.     *)
(*                                                                          *)
(*  - wCmd has one flag, set by tdc when it queues a DOWNLOAD command and   *)
(*    cleared by tdc once wResult is not 0;                                 *)
(*  - wResult is reset by both and stored by dn when a download ends;       *)
(*  - wState has two flags, MOUNTING and SEIZEUSB.  dn and tdc both change  *)
(*    it with |= and &=, without a lock, so each change is a load and a     *)
(*    store here;                                                           *)
(*  - the stick is pulled and plugged in at any time, and sm adds files to  *)
(*    the archive and deletes old ones meanwhile.                           *)
(*                                                                          *)
(* A pulse that finds a download under way only repaints the rate, and the  *)
(* pause and warm-up timers only make pulses rarer: neither is a step.      *)
(***************************************************************************)
EXTENDS Integers, Sequences, FiniteSets

CONSTANTS
    Signed,         \* archive files named "a..." or "n..."
    Odd,            \* other files of the archive directory, not named "c..."
    Others,         \* files in ANOTHER_PATH
    MaxCmd,         \* capacity of the command queue (MAX_TASKCMD)
    Lag,            \* FALSE: dn keeps the queue from filling up
    Faults,         \* TRUE: opendir, mount, mkdir, write and remove may fail
    ReaddirClosed,  \* where readdir on a closed directory may lead ScanUsb
    MaxPulls        \* bound: times the stick is pulled

ArcFiles == Signed \cup Odd
Files == ArcFiles \cup Others

(* enDNRESULT; 0 is "no result yet". *)
Success == 1
NoFiles == 2
CannotMakeDir1 == 3
CannotMakeDir2 == 4
CannotMakeDir3 == 5
Fail1 == 6
Fail2 == 7

ASSUME DownloadAssumption ==
    /\ IsFiniteSet(Files)
    /\ ArcFiles \cap Others = {} /\ Signed \cap Odd = {}
    /\ MaxCmd \in Nat \ {0} /\ MaxPulls \in Nat
    /\ {Lag, Faults} \subseteq BOOLEAN
    /\ ReaddirClosed \subseteq {"recv", "look", "dead"} /\ ReaddirClosed # {}

VARIABLES
    cmd,        \* the DOWNLOAD flag of wCmd
    result,     \* wResult
    ratio,      \* wRatioT
    wState,     \* the flags of wState
    dtq,        \* queued commands
    tpc, tw,    \* tdc's pulse thread, and the wState it has loaded
    dpc, dw,    \* dn's watch thread, and the wState it has loaded
    iFiles, iTotal, name,   \* locals of Download
    stick,      \* "out", "in" the slot, or "mounted"
    pulls,      \* times it was pulled
    made,       \* files there have been so far
    archive, another, usb,
    gone,       \* files sm has deleted
    cut,        \* history: files removed after a copy that was cut short
    unread,     \* history: counted files the download's later searches did not see
    counted     \* files there were when the running download counted them

bailVars == <<cmd, result, ratio>>
tdcVars == <<tpc, tw>>
dnVars == <<dpc, dw>>
locals == <<iFiles, iTotal, name, counted>>
stickVars == <<stick, pulls>>
fileVars == <<made, archive, another, usb, gone, cut, unread>>
vars == <<bailVars, wState, dtq, tdcVars, dnVars, locals, stickVars, fileVars>>

Init ==
    /\ cmd = FALSE /\ result = 0 /\ ratio = 0
    /\ wState = {} /\ dtq = <<>>
    /\ tpc = "rest" /\ tw = {}
    /\ dpc = "recv" /\ dw = {}
    /\ iFiles = 0 /\ iTotal = 0 /\ name = "none" /\ counted = {}
    /\ stick \in {"out", "in"} /\ pulls = 0
    /\ archive \in SUBSET ArcFiles /\ another \in SUBSET Others
    /\ made = archive \cup another
    /\ usb = {} /\ gone = {} /\ cut = {} /\ unread = {}

-----------------------------------------------------------------------------
(* tdc, Pulsate. *)
Pulse ==
    /\ tpc = "rest"
    /\ ~Lag => Len(dtq) < MaxCmd

(* Mutant: no result is taken for a failure. *)
PulseDoneEarly ==
    /\ Pulse /\ cmd
    /\ cmd' = FALSE
    /\ tpc' = IF result \notin {Success, NoFiles} THEN "load" ELSE "rest"
    /\ UNCHANGED <<result, ratio, wState, dtq, tw, dnVars, locals, stickVars, fileVars>>

(* Mutant: SEIZEUSB stays up after a failure. *)
PulseDoneKeepsFlag ==
    /\ Pulse /\ cmd /\ result # 0
    /\ cmd' = FALSE
    /\ UNCHANGED <<result, ratio, wState, dtq, tdcVars, dnVars, locals, stickVars, fileVars>>

(* The download is over.  After a failure the stick has to be found again. *)
PulseDone ==
    /\ Pulse /\ cmd /\ result # 0
    /\ cmd' = FALSE
    /\ tpc' = IF result > NoFiles THEN "load" ELSE "rest"
    /\ UNCHANGED <<result, ratio, wState, dtq, tw, dnVars, locals, stickVars, fileVars>>

PulseLoad ==
    /\ tpc = "load"
    /\ tw' = wState
    /\ tpc' = "unseize"
    /\ UNCHANGED <<bailVars, wState, dtq, dnVars, locals, stickVars, fileVars>>

PulseUnseize ==
    /\ tpc = "unseize"
    /\ wState' = tw \ {"seizeusb"}
    /\ tpc' = "rest" /\ tw' = {}
    /\ UNCHANGED <<bailVars, dtq, dnVars, locals, stickVars, fileVars>>

(* Mutant: no look at the flag of a download under way. *)
PulseLookAlways ==
    /\ Pulse
    /\ tpc' = IF "seizeusb" \in wState THEN "find" ELSE "scan"
    /\ UNCHANGED <<bailVars, wState, dtq, tw, dnVars, locals, stickVars, fileVars>>

(* No download: look for files if there is a stick, else for a stick. *)
PulseLook ==
    /\ Pulse /\ ~cmd
    /\ tpc' = IF "seizeusb" \in wState THEN "find" ELSE "scan"
    /\ UNCHANGED <<bailVars, wState, dtq, tw, dnVars, locals, stickVars, fileVars>>

(* The files FindFile finds: signed names only. *)
FindFile == archive \cap Signed

(* Mutant: the result of the download before is left standing. *)
PulseFindKeepsResult ==
    /\ tpc = "find"
    /\ IF FindFile # {}
         THEN ratio' = 0 /\ cmd' = TRUE /\ tpc' = "down"
         ELSE UNCHANGED <<ratio, cmd>> /\ tpc' = "scan"
    /\ UNCHANGED <<result, wState, dtq, tw, dnVars, locals, stickVars, fileVars>>

(* Order a download if there is a file for it, else look for the stick.     *)
PulseFind ==
    /\ tpc = "find"
    /\ \/ /\ FindFile # {}
          /\ result' = 0 /\ ratio' = 0 /\ cmd' = TRUE
          /\ tpc' = "down"
       \/ /\ FindFile = {} \/ Faults
          /\ tpc' = "scan"
          /\ UNCHANGED bailVars
    /\ UNCHANGED <<wState, dtq, tw, dnVars, locals, stickVars, fileVars>>

(* TaskCmd: a command for a full queue is dropped. *)
PulseSend ==
    /\ tpc \in {"scan", "down"}
    /\ dtq' = IF Len(dtq) < MaxCmd THEN Append(dtq, tpc) ELSE dtq
    /\ tpc' = "rest"
    /\ UNCHANGED <<bailVars, wState, tw, dnVars, locals, stickVars, fileVars>>

Pulsate == PulseDone \/ PulseLoad \/ PulseUnseize \/ PulseLook \/ PulseFind \/ PulseSend

-----------------------------------------------------------------------------
(* dn, Watch: the next command. *)
WatchReceive ==
    /\ dpc = "recv" /\ dtq # <<>>
    /\ dtq' = Tail(dtq)
    /\ \/ Head(dtq) = "scan" /\ dpc' = "scan" /\ UNCHANGED result
       \/ Head(dtq) = "down" /\ dpc' = "count" /\ result' = 0
    /\ UNCHANGED <<cmd, ratio, wState, tdcVars, dw, locals, stickVars, fileVars>>

(* dn, ScanUsb: a stick thought to be mounted is probed first. *)
ScanBegin ==
    /\ dpc = "scan"
    /\ dpc' = IF "seizeusb" \in wState THEN "probe" ELSE "look"
    /\ UNCHANGED <<bailVars, wState, dtq, tdcVars, dw, locals, stickVars, fileVars>>

ScanProbe ==
    /\ dpc = "probe"
    /\ \/ stick = "mounted" /\ dpc' = "recv" /\ UNCHANGED dw
       \/ (stick # "mounted" \/ Faults) /\ dpc' = "unseize" /\ dw' = wState
    /\ UNCHANGED <<bailVars, wState, dtq, tdcVars, locals, stickVars, fileVars>>

(* A change of wState loads it in one step and stores it in the next. *)
ScanStore(from, to, flags) ==
    /\ dpc = from
    /\ wState' = flags
    /\ dpc' = to /\ dw' = {}
    /\ UNCHANGED <<bailVars, dtq, tdcVars, locals, stickVars, fileVars>>

ScanUnseize == ScanStore("unseize", "look", dw \ {"seizeusb"})
ScanMark == ScanStore("mark", "mount", dw \cup {"mounting"})
ScanUnmark == ScanStore("unmark", "check", dw \ {"mounting"})
ScanSeize == ScanStore("seize", "recv", dw \cup {"seizeusb"})

(* A stick shows as hd1t... in /dev. *)
ScanLook ==
    /\ dpc = "look"
    /\ \/ (stick = "out" \/ Faults) /\ dpc' = "recv" /\ UNCHANGED dw
       \/ stick # "out" /\ dpc' = "mark" /\ dw' = wState
    /\ UNCHANGED <<bailVars, wState, dtq, tdcVars, locals, stickVars, fileVars>>

(* system("mount ..."), however it ends. *)
ScanMount ==
    /\ dpc = "mount"
    /\ \/ stick' = IF stick = "in" THEN "mounted" ELSE stick
       \/ Faults /\ UNCHANGED stick
    /\ dpc' = "unmark" /\ dw' = wState
    /\ UNCHANGED <<bailVars, wState, dtq, tdcVars, locals, pulls, fileVars>>

(* Not mounted: the loop goes on reading the directory it has closed. *)
ScanCheck ==
    /\ dpc = "check"
    /\ \/ stick = "mounted" /\ dpc' = "seize" /\ dw' = wState
       \/ (stick # "mounted" \/ Faults) /\ dpc' \in ReaddirClosed /\ UNCHANGED dw
    /\ UNCHANGED <<bailVars, wState, dtq, tdcVars, locals, stickVars, fileVars>>

ScanUsb ==
    \/ ScanBegin \/ ScanProbe \/ ScanUnseize \/ ScanLook
    \/ ScanMark \/ ScanMount \/ ScanUnmark \/ ScanCheck \/ ScanSeize

-----------------------------------------------------------------------------
(* dn, Download.  Every way out stores a result. *)
Ends(r) ==
    /\ result' = r
    /\ dpc' = "recv"
    /\ iFiles' = 0 /\ iTotal' = 0 /\ name' = "none" /\ counted' = {}

SearchOtherFile(directory) == Cardinality(directory)

(* What a search finds in a directory: a failed opendir shows nothing. *)
Seen(directory) == IF Faults THEN {directory, {}} ELSE {directory}

(* Mutant: nothing to download, and no result either. *)
CountSilent ==
    /\ dpc = "count"
    /\ ratio' = 0 /\ unread' = {}
    /\ \E a \in Seen(archive), o \in Seen(another) :
          \/ a \cup o = {} /\ dpc' = "recv" /\ UNCHANGED locals
          \/ /\ a \cup o # {}
             /\ iTotal' = SearchOtherFile(a) + SearchOtherFile(o)
             /\ counted' = a \cup o
             /\ dpc' = IF a # {} THEN "mkdirb" ELSE "mkdirc"
             /\ UNCHANGED <<iFiles, name>>
    /\ UNCHANGED <<cmd, result, wState, dtq, tdcVars, dw, stickVars,
                   made, archive, another, usb, gone, cut>>

Count ==
    /\ dpc = "count"
    /\ ratio' = 0 /\ unread' = {}
    /\ \E a \in Seen(archive), o \in Seen(another) :
          \/ a \cup o = {} /\ Ends(NoFiles)
          \/ /\ a \cup o # {}
             /\ iTotal' = SearchOtherFile(a) + SearchOtherFile(o)
             /\ counted' = a \cup o
             /\ dpc' = IF a # {} THEN "mkdirb" ELSE "mkdirc"
             /\ UNCHANGED <<result, iFiles, name>>
    /\ UNCHANGED <<cmd, wState, dtq, tdcVars, dw, stickVars,
                   made, archive, another, usb, gone, cut>>

(* MakeDirectory of the two directories on the stick. *)
MakeDirectory ==
    /\ dpc \in {"mkdirb", "mkdirc"}
    /\ \/ /\ stick = "mounted"
          /\ dpc' = IF dpc = "mkdirb" THEN "arc" ELSE "not"
          /\ UNCHANGED <<result, locals>>
       \/ /\ stick # "mounted" \/ Faults
          /\ Ends(IF dpc = "mkdirb" THEN CannotMakeDir1 ELSE CannotMakeDir3)
    /\ UNCHANGED <<cmd, ratio, wState, dtq, tdcVars, dw, stickVars, fileVars>>

(* After the archive comes ANOTHER_PATH, if it had files when counted. *)
AfterArchive ==
    IF counted \cap Others # {}
      THEN dpc' = "mkdirc" /\ UNCHANGED <<result, locals>>
      ELSE Ends(Success)

(* FindOtherFile on the archive, and the directory its file belongs in; a   *)
(* name without an extension needs none.  A failed opendir ends the loop as  *)
(* an empty directory does.                                                  *)
FindArchive ==
    /\ dpc = "arc"
    /\ \/ {} \in Seen(archive) /\ unread' = unread \cup (counted \cap archive) /\ AfterArchive
       \/ /\ UNCHANGED unread
          /\ \E n \in archive :
                \/ /\ stick = "mounted" \/ n \in Odd
                   /\ dpc' = "open" /\ name' = n
                   /\ UNCHANGED <<result, iFiles, iTotal, counted>>
                \/ (stick # "mounted" \/ Faults) /\ n \notin Odd /\ Ends(CannotMakeDir2)
    /\ UNCHANGED <<cmd, ratio, wState, dtq, tdcVars, dw, stickVars,
                   made, archive, another, usb, gone, cut>>

FindAnother ==
    /\ dpc = "not"
    /\ \/ {} \in Seen(another) /\ unread' = unread \cup (counted \cap another) /\ Ends(Success)
       \/ /\ UNCHANGED unread
          /\ \E n \in another :
                /\ dpc' = "open" /\ name' = n
                /\ UNCHANGED <<result, iFiles, iTotal, counted>>
    /\ UNCHANGED <<cmd, ratio, wState, dtq, tdcVars, dw, stickVars,
                   made, archive, another, usb, gone, cut>>

MoveFails == Ends(IF name \in Others THEN Fail2 ELSE Fail1)

(* MoveFile opens both files, which truncates a copy of an earlier try on    *)
(* this stick,                                                               *)
MoveOpen ==
    /\ dpc = "open"
    /\ \/ /\ name \in archive \cup another /\ stick = "mounted"
          /\ usb' \in {usb, usb \ {name}}
          /\ dpc' = "copy"
          /\ UNCHANGED <<result, locals>>
       \/ /\ name \notin archive \cup another \/ stick # "mounted" \/ Faults
          /\ MoveFails
          /\ UNCHANGED usb
    /\ UNCHANGED <<cmd, ratio, wState, dtq, tdcVars, dw, stickVars,
                   made, archive, another, gone, cut, unread>>

(* Mutant: no cap at 1000. *)
RateUncapped(n) == ((n * 1000) \div iTotal) % 65536

(* The rate shown; the file counter goes up before and after its use. *)
Rate(n) == LET w == ((n * 1000) \div iTotal) % 65536
           IN  IF w >= 1000 THEN 1000 ELSE w

(* write: the whole file, or, unnoticed, as much as a full stick takes.      *)
Written ==
    \/ usb' = usb \cup {name} /\ UNCHANGED cut
    \/ Faults /\ cut' = cut \cup {name} /\ UNCHANGED usb

(* Mutant: the loop over the archive is left after one file. *)
MoveEndOnce ==
    /\ dpc = "copy"
    /\ \/ /\ stick = "mounted" /\ name \in archive \cup another
          /\ Written
          /\ archive' = archive \ {name} /\ another' = another \ {name}
          /\ ratio' = Rate(iFiles + 1)
          /\ AfterArchive
       \/ /\ stick # "mounted" \/ name \notin archive \cup another \/ Faults
          /\ MoveFails
          /\ UNCHANGED <<ratio, usb, archive, another, cut>>
    /\ UNCHANGED <<cmd, wState, dtq, tdcVars, dw, stickVars, made, gone, unread>>

(* Mutant: the source is removed whether the copy was written or not. *)
MoveEndAnyway ==
    /\ dpc = "copy"
    /\ IF stick = "mounted" THEN Written ELSE UNCHANGED <<usb, cut>>
    /\ archive' = archive \ {name} /\ another' = another \ {name}
    /\ ratio' = Rate(iFiles + 1)
    /\ iFiles' = iFiles + 2
    /\ dpc' = IF name \in Others THEN "not" ELSE "arc"
    /\ name' = "none"
    /\ UNCHANGED <<cmd, result, wState, dtq, tdcVars, dw, iTotal, counted, stickVars,
                   made, gone, unread>>

(* then copies, and removes the source unless sm has deleted it meanwhile.   *)
MoveEnd ==
    /\ dpc = "copy"
    /\ \/ /\ stick = "mounted" /\ name \in archive \cup another
          /\ Written
          /\ archive' = archive \ {name} /\ another' = another \ {name}
          /\ ratio' = Rate(iFiles + 1)
          /\ iFiles' = iFiles + 2
          /\ dpc' = IF name \in Others THEN "not" ELSE "arc"
          /\ name' = "none"
          /\ UNCHANGED <<result, iTotal, counted>>
       \/ /\ stick = "mounted" /\ (name \notin archive \cup another \/ Faults)
          /\ usb' = usb \cup {name}
          /\ MoveFails
          /\ UNCHANGED <<ratio, archive, another, cut>>
       \/ /\ stick # "mounted" \/ Faults
          /\ MoveFails
          /\ UNCHANGED <<ratio, usb, archive, another, cut>>
    /\ UNCHANGED <<cmd, wState, dtq, tdcVars, dw, stickVars, made, gone, unread>>

Downloading == Count \/ MakeDirectory \/ FindArchive \/ FindAnother \/ MoveOpen \/ MoveEnd

Watch == WatchReceive \/ ScanUsb \/ Downloading

-----------------------------------------------------------------------------
(* The world around: the stick, and sm on the archive. *)
PlugIn ==
    /\ stick = "out" /\ stick' = "in"
    /\ UNCHANGED <<bailVars, wState, dtq, tdcVars, dnVars, locals, pulls, fileVars>>

Pull ==
    /\ stick # "out" /\ stick' = "out"
    /\ pulls < MaxPulls /\ pulls' = pulls + 1
    /\ UNCHANGED <<bailVars, wState, dtq, tdcVars, dnVars, locals, fileVars>>

NewFile(f) ==
    /\ f \in ArcFiles \ made
    /\ made' = made \cup {f} /\ archive' = archive \cup {f}
    /\ UNCHANGED <<bailVars, wState, dtq, tdcVars, dnVars, locals, stickVars,
                   another, usb, gone, cut, unread>>

DeleteOld(f) ==
    /\ f \in archive
    /\ archive' = archive \ {f} /\ gone' = gone \cup {f}
    /\ UNCHANGED <<bailVars, wState, dtq, tdcVars, dnVars, locals, stickVars,
                   made, another, usb, cut, unread>>

World == PlugIn \/ Pull \/ \E f \in Files : NewFile(f) \/ DeleteOld(f)

Next == Pulsate \/ Watch \/ World

Spec == Init /\ [][Next]_vars

(* The pulse timer never stops and dn's thread runs between pulses. *)
FairSpec == Spec /\ WF_vars(Pulsate) /\ WF_vars(Watch)

-----------------------------------------------------------------------------
DownSteps == {"count", "mkdirb", "arc", "mkdirc", "not", "open", "copy"}
DnStores == {"unseize", "mark", "unmark", "seize"}
ScanSteps == {"scan", "probe", "look", "mount", "check"} \cup DnStores
Flags == {"mounting", "seizeusb"}

BailType ==
    /\ cmd \in BOOLEAN /\ result \in 0..7 /\ ratio \in 0..1000
    /\ wState \subseteq Flags
QueueType == dtq \in Seq({"scan", "down"}) /\ Len(dtq) <= MaxCmd
TdcType ==
    tpc \in {"rest", "load", "unseize", "find", "scan", "down"} /\ tw \subseteq Flags
DnType ==
    /\ dpc \in {"recv", "dead"} \cup DownSteps \cup ScanSteps /\ dw \subseteq Flags
    /\ iFiles \in Nat /\ iTotal \in Nat /\ name \in Files \cup {"none"}
    /\ counted \subseteq Files
WorldType ==
    /\ stick \in {"out", "in", "mounted"} /\ pulls \in 0..MaxPulls
    /\ made \subseteq Files /\ archive \subseteq ArcFiles /\ another \subseteq Others
    /\ usb \subseteq Files /\ gone \subseteq Files
    /\ cut \subseteq Files /\ unread \subseteq Files
TypeOK == BailType /\ QueueType /\ TdcType /\ DnType /\ WorldType

(* At most one download is ordered or running, and only while tdc's flag is *)
(* up and no result is in: stale results, resets on both sides and delayed  *)
(* commands never let a second one start.                                   *)
Ordered == {i \in 1..Len(dtq) : dtq[i] = "down"}
OneDownload ==
    /\ Ordered # {} \/ dpc \in DownSteps \/ tpc = "down" => cmd /\ result = 0
    /\ \A i, j \in Ordered : i = j
    /\ Ordered # {} => dpc \notin DownSteps
    /\ tpc = "down" => Ordered = {} /\ dpc \notin DownSteps

(* tdc and dn never change wState at the same time, so neither loses a flag *)
(* the other has just changed, though no lock guards the word.              *)
FlagsAlone == tpc = "unseize" => dpc \notin DnStores

(* A result stays where it is until tdc has seen it. *)
ResultKept == [][cmd /\ cmd' /\ result # 0 => result' = result]_vars

(* When dn reports success, every file it had counted is on a stick or was   *)
(* deleted by sm, or it is one of the two the code does not notice: copied   *)
(* in part to a full stick, or hidden by an opendir that failed.             *)
SuccessHonest ==
    [][result' = Success /\ result # Success
          => counted \subseteq usb \cup gone \cup cut \cup unread']_vars

(* No file is lost between the archive and the sticks, whenever the stick is *)
(* pulled, but by a write that a full stick cuts short.                      *)
FilesKept == made \subseteq archive \cup another \cup usb \cup gone \cup cut

(* Every download comes to an end that tdc notices. *)
DownloadEnds == cmd ~> ~cmd

(* A stick that stays in gets everything tdc looks for. *)
StickServed == <>[](stick # "out") => <>[](FindFile = {})

(* The comment in Pulsate calls the state with the flag up "downloading". *)
FlagMeansDownloading ==
    cmd => tpc = "down" \/ Ordered # {} \/ dpc \in DownSteps \/ result # 0

(* DnRefer.h calls wRatioT the rate per thousand: of the files counted,     *)
(* those that have been moved.                                              *)
RatioIsRate ==
    dpc \in DownSteps /\ iTotal # 0 => ratio * iTotal <= 1000 * Cardinality(usb)
=============================================================================
