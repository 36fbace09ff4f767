------------------------------ MODULE TodStore ------------------------------
(***************************************************************************)
(* The storage manager sm, with the ends of tdc and dn that it meets:       *)
(*                                                                          *)
(*  - tdc's tag thread copies each accepted frame into the one slot         *)
(*    c_pStp->todt and then queues an APPENDTOD command (TakeReceiveAsync); *)
(*  - sm's watch thread takes a command and appends what is in the slot by  *)
(*    then to the file of its five-minute window (AppendTod); when the      *)
(*    window changes it hands the file just closed to the align thread,     *)
(*    through the single variable c_alignFid and a semaphore;               *)
(*  - sm's align thread (FileAlign) walks the archive, deletes what is older*)
(*    than a month and zips the closed files;                               *)
(*  - dn's watch thread moves zipped files to the USB stick (MoveFile).     *)
(*                                                                          *)
(* Frames are numbered in the order tdc accepts them.  A file is a pair of  *)
(* a sign ("c" being appended, "a" zipped) and a file identity.             *)
(***************************************************************************)
EXTENDS TodStamp, Sequences, FiniteSets

CONSTANTS
    Headers,    \* stamps and seconds a frame can carry: [key, sec] records
    Follows,    \* pairs <<g, h>>: a frame with h may come right after g
    MaxCmd,     \* capacity of the command queue (MAX_TASKCMD)
    Minute,     \* seconds in a minute
    WordMax,    \* where a WORD counter stops (INCWORD)
    Paced,      \* TRUE: sm is done with a frame before the next arrives
    Faults,     \* TRUE: file operations may fail
    UsbFull,    \* TRUE: the USB stick may run out of space during a copy
    MaxFrames,  \* bound: frames received
    MaxPower    \* bound: power cycles

Fids == {h.key : h \in Headers}
Names == [sign : {"c", "a"}, key : Fids]
CurName(k) == [sign |-> "c", key |-> k]
ZipName(k) == [sign |-> "a", key |-> k]
NoName == [sign |-> "-", key |-> ZeroFid]

ASSUME HeadersAssumption ==
    /\ Headers \subseteq [key : [t : Stamp, trno : Nat], sec : Nat]
    /\ \A h \in Headers : Packs(h.key.t) /\ h.key.t.mon \in 1..12
    /\ Follows \subseteq Headers \X Headers

ASSUME BoundsAssumption ==
    /\ MaxCmd \in Nat \ {0}
    /\ Minute \in Nat
    /\ WordMax \in Nat
    /\ MaxFrames \in Nat
    /\ MaxPower \in Nat
    /\ {Paced, Faults, UsbFull} \subseteq BOOLEAN

VARIABLES
    hdr,        \* headers of the frames accepted so far, in order
    slot,       \* number of the frame in c_pStp->todt, 0 before the first
    txpc,       \* tdc's tag thread: "idle", or "cmd" between copy and command
    stq,        \* APPENDTOD commands in the queue
    wpc,        \* sm's watch thread
    wSec, wKey, \* locals sec and ti of AppendTod
    curFid, prevSec, alignFid, sem,
    err,        \* bail.wRecvErr: [same, miss]
    apc,        \* sm's align thread
    old,        \* local todtOld of FileAlign
    pend, seen, \* directory entries the scan must still return, has returned
    zfid, zbuf, \* the file zip works on and what it has read of it
    dir, data,  \* archive: names present, and the frames in each file
    dnpc, dnName, dnBuf,
    usb,        \* frames in the copy of each name on the USB stick
    taken,      \* history: frames in the files of each name that dn has removed
    power       \* power cycles so far

tdcVars == <<hdr, slot, txpc>>
watchVars == <<wpc, wSec, wKey, curFid, prevSec, err>>
alignVars == <<apc, old, pend, seen, zfid, zbuf>>
fileVars == <<dir, data>>
dnVars == <<dnpc, dnName, dnBuf, usb, taken>>
vars == <<tdcVars, stq, watchVars, alignFid, sem, alignVars, fileVars, dnVars, power>>

ZeroHeader == [key |-> ZeroFid, sec |-> 0]
Header(i) == IF i = 0 THEN ZeroHeader ELSE hdr[i]
Latest == Header(Len(hdr))
IncWord(n) == IF n < WordMax THEN n + 1 ELSE n

Init ==
    /\ hdr = <<>> /\ slot = 0 /\ txpc = "idle"
    /\ stq = 0
    /\ wpc = "recv" /\ wSec = 0 /\ wKey = ZeroFid
    /\ curFid = ZeroFid /\ prevSec = 0 /\ alignFid = ZeroFid /\ sem = 0
    /\ err = [same |-> 0, miss |-> 0]
    /\ apc = "wait" /\ old = ZeroStamp /\ pend = {} /\ seen = {}
    /\ zfid = ZeroFid /\ zbuf = {}
    /\ dir = {} /\ data = [n \in Names |-> {}]
    /\ dnpc = "idle" /\ dnName = NoName /\ dnBuf = {}
    /\ usb = [n \in Names |-> {}] /\ taken = [n \in Names |-> {}]
    /\ power = 0

-----------------------------------------------------------------------------
(* tdc, tag thread: an accepted frame goes into the slot whatever is there. *)
CopyFrame(h) ==
    /\ txpc = "idle"
    /\ Len(hdr) < MaxFrames
    /\ hdr # <<>> => <<hdr[Len(hdr)], h>> \in Follows
    /\ Paced => stq = 0 /\ wpc = "recv"
    /\ hdr' = Append(hdr, h)
    /\ slot' = Len(hdr) + 1
    /\ txpc' = "cmd"
    /\ UNCHANGED <<stq, watchVars, alignFid, sem, alignVars, fileVars, dnVars, power>>

(* Mutant: no look at the fill of the queue. *)
TaskCmdUnchecked ==
    /\ txpc = "cmd"
    /\ stq' = stq + 1
    /\ txpc' = "idle"
    /\ UNCHANGED <<hdr, slot, watchVars, alignFid, sem, alignVars, fileVars, dnVars, power>>

(* Mutant: no command while sm is at work on an earlier one. *)
TaskCmdUnlessBusy ==
    /\ txpc = "cmd"
    /\ stq' = IF stq < MaxCmd /\ wpc = "recv" THEN stq + 1 ELSE stq
    /\ txpc' = "idle"
    /\ UNCHANGED <<hdr, slot, watchVars, alignFid, sem, alignVars, fileVars, dnVars, power>>

(* TaskCmd: the command is dropped when the queue is full. *)
TaskCmd ==
    /\ txpc = "cmd"
    /\ stq' = IF stq < MaxCmd THEN stq + 1 ELSE stq
    /\ txpc' = "idle"
    /\ UNCHANGED <<hdr, slot, watchVars, alignFid, sem, alignVars, fileVars, dnVars, power>>

-----------------------------------------------------------------------------
(* sm, watch thread: take a command and read the second.  Local variables   *)
(* are reset where their scope ends, here and below.                        *)
WatchReceive ==
    /\ wpc = "recv" /\ stq > 0
    /\ stq' = stq - 1
    /\ wSec' = Header(slot).sec
    /\ wpc' = "stamp"
    /\ UNCHANGED <<tdcVars, wKey, curFid, prevSec, err, alignFid, sem, alignVars, fileVars, dnVars, power>>

(* Mutant: once a file is open, its name is kept. *)
ReadStampOnce ==
    /\ wpc = "stamp"
    /\ wKey' = IF curFid = ZeroFid THEN Header(slot).key ELSE curFid
    /\ wpc' = "write"
    /\ UNCHANGED <<tdcVars, stq, wSec, curFid, prevSec, err, alignFid, sem, alignVars, fileVars, dnVars, power>>

(* Read the date and train number from the slot, a second look at it. *)
ReadStamp ==
    /\ wpc = "stamp"
    /\ wKey' = Header(slot).key
    /\ wpc' = "write"
    /\ UNCHANGED <<tdcVars, stq, wSec, curFid, prevSec, err, alignFid, sem, alignVars, fileVars, dnVars, power>>

(* Mutant: the frame written is the one before. *)
WriteTodBehind ==
    /\ wpc = "write"
    /\ dir' = dir \cup {CurName(wKey)}
    /\ data' = [data EXCEPT ![CurName(wKey)] = @ \cup {IF slot > 1 THEN slot - 1 ELSE slot}]
    /\ wpc' = "roll"
    /\ UNCHANGED <<tdcVars, stq, wSec, wKey, curFid, prevSec, err, alignFid, sem, alignVars, dnVars, power>>

(* Open the file of that date for append and write what the slot holds now. *)
(* A file that cannot be opened or written does not stop AppendTod.         *)
WriteTod ==
    /\ wpc = "write"
    /\ \/ /\ dir' = dir \cup {CurName(wKey)}
          /\ data' = [data EXCEPT ![CurName(wKey)] = @ \cup {slot}]
       \/ Faults /\ UNCHANGED fileVars
       \/ Faults /\ dir' = dir \cup {CurName(wKey)} /\ UNCHANGED data
    /\ wpc' = "roll"
    /\ UNCHANGED <<tdcVars, stq, wSec, wKey, curFid, prevSec, err, alignFid, sem, alignVars, dnVars, power>>

(* Mutant: the file just opened is handed over instead of the one closed. *)
RollNew ==
    /\ wpc = "roll"
    /\ IF curFid # ZeroFid /\ curFid # wKey
         THEN alignFid' = wKey /\ sem' = sem + 1
         ELSE UNCHANGED <<alignFid, sem>>
    /\ prevSec' = wSec /\ curFid' = wKey
    /\ wSec' = 0 /\ wKey' = ZeroFid
    /\ wpc' = "recv"
    /\ UNCHANGED <<tdcVars, stq, err, alignVars, fileVars, dnVars, power>>

(* Count a repeated or a skipped second, and hand a closed file over. *)
Roll ==
    /\ wpc = "roll"
    /\ LET gap == SecGap(prevSec, wSec, Minute) IN
         err' = IF curFid = ZeroFid THEN err
                ELSE [same |-> IF gap = 0 THEN IncWord(err.same) ELSE err.same,
                      miss |-> IF gap > 1 THEN IncWord(err.miss) ELSE err.miss]
    /\ IF curFid # ZeroFid /\ curFid # wKey
         THEN alignFid' = curFid /\ sem' = sem + 1
         ELSE UNCHANGED <<alignFid, sem>>
    /\ prevSec' = wSec /\ curFid' = wKey
    /\ wSec' = 0 /\ wKey' = ZeroFid
    /\ wpc' = "recv"
    /\ UNCHANGED <<tdcVars, stq, alignVars, fileVars, dnVars, power>>

Watch == WatchReceive \/ ReadStamp \/ WriteTod \/ Roll

-----------------------------------------------------------------------------
(* sm, align thread: woken once per closed file, it takes whatever          *)
(* c_alignFid holds by then; a stamp of year 0 ends the thread for good.    *)
AlignBegin ==
    /\ apc = "wait" /\ sem > 0
    /\ sem' = sem - 1
    /\ \/ /\ alignFid.t.year = 0
          /\ apc' = "exit"
          /\ UNCHANGED <<old, pend, seen>>
       \/ /\ alignFid.t.year # 0
          /\ old' = MonthBack(alignFid.t)
          /\ pend' = dir \/ (Faults /\ pend' = {})
          /\ seen' = {}
          /\ apc' = "scan"
    /\ UNCHANGED <<tdcVars, stq, watchVars, alignFid, zfid, zbuf, fileVars, dnVars, power>>

(* The next name readdir returns: every entry there was at opendir, and     *)
(* perhaps one created since.                                               *)
Returned(n) ==
    /\ apc = "scan"
    /\ n \in pend \/ n \in dir \ seen
    /\ pend' = pend \ {n}
    /\ seen' = seen \cup {n}

Expired(n) == Earlier(n.key.t, old)

(* Mutant: every open file is zipped. *)
ToZipAny(n) == ~Expired(n) /\ n.sign = "c"

(* Mutant: the closed file itself is left out. *)
ToZipBefore(n) ==
    /\ ~Expired(n)
    /\ n.sign = "c"
    /\ Earlier(n.key.t, alignFid.t)

(* The horizon is read once per scan, c_alignFid again for each entry. *)
ToZip(n) ==
    /\ ~Expired(n)
    /\ n.sign = "c"
    /\ ~Earlier(alignFid.t, n.key.t)

DeleteOld(n) ==
    /\ Returned(n)
    /\ Expired(n)
    /\ \/ dir' = dir \ {n} /\ data' = [data EXCEPT ![n] = {}]
       \/ Faults /\ UNCHANGED fileVars
    /\ UNCHANGED <<tdcVars, stq, watchVars, alignFid, sem, apc, old, zfid, zbuf, dnVars, power>>

Skip(n) ==
    /\ Returned(n)
    /\ ~Expired(n) /\ (ToZip(n) => n \notin dir)
    /\ UNCHANGED <<tdcVars, stq, watchVars, alignFid, sem, apc, old, zfid, zbuf, fileVars, dnVars, power>>

(* zip -m reads the file, writes the archive (in place of one of that name, *)
(* all at once: it works on a temporary file), then removes the file.       *)
ZipBegin(n) ==
    /\ Returned(n)
    /\ ToZip(n) /\ n \in dir
    /\ apc' = "zip"
    /\ zfid' = n.key
    /\ zbuf' = data[n]
    /\ UNCHANGED <<tdcVars, stq, watchVars, alignFid, sem, old, fileVars, dnVars, power>>

(* Mutant: the file is removed though no archive was written. *)
ZipWriteAnyway ==
    /\ apc = "zip"
    /\ \/ /\ dir' = dir \cup {ZipName(zfid)}
          /\ data' = [data EXCEPT ![ZipName(zfid)] = zbuf]
       \/ Faults /\ UNCHANGED fileVars
    /\ apc' = "unlink"
    /\ UNCHANGED <<tdcVars, stq, watchVars, alignFid, sem, old, pend, seen, zfid, zbuf, dnVars, power>>

(* zip is done with the file, or has given up on it. *)
ZipDone == apc' = "scan" /\ zfid' = ZeroFid /\ zbuf' = {}

ZipWrite ==
    /\ apc = "zip"
    /\ \/ /\ dir' = dir \cup {ZipName(zfid)}
          /\ data' = [data EXCEPT ![ZipName(zfid)] = zbuf]
          /\ apc' = "unlink" /\ UNCHANGED <<zfid, zbuf>>
       \/ Faults /\ UNCHANGED fileVars /\ ZipDone
    /\ UNCHANGED <<tdcVars, stq, watchVars, alignFid, sem, old, pend, seen, dnVars, power>>

(* With the archive written the file goes; one that cannot be removed stays *)
(* beside it and is zipped again by the next scan.                          *)
ZipRemove ==
    /\ apc = "unlink"
    /\ \/ /\ dir' = dir \ {CurName(zfid)}
          /\ data' = [data EXCEPT ![CurName(zfid)] = {}]
       \/ Faults /\ UNCHANGED fileVars
    /\ ZipDone
    /\ UNCHANGED <<tdcVars, stq, watchVars, alignFid, sem, old, pend, seen, dnVars, power>>

AlignEnd ==
    /\ apc = "scan" /\ pend = {}
    /\ apc' = "wait" /\ old' = ZeroStamp /\ seen' = {}
    /\ UNCHANGED <<tdcVars, stq, watchVars, alignFid, sem, pend, zfid, zbuf, fileVars, dnVars, power>>

Align ==
    \/ AlignBegin
    \/ \E n \in Names : DeleteOld(n) \/ Skip(n) \/ ZipBegin(n)
    \/ ZipWrite
    \/ ZipRemove
    \/ AlignEnd

-----------------------------------------------------------------------------
(* dn, MoveFile of one archive entry: copy, then remove the source. *)
MoveBegin(n) ==
    /\ dnpc = "idle"
    /\ n \in dir /\ n.sign # "c"
    /\ dnpc' = "copy"
    /\ dnName' = n
    /\ dnBuf' = data[n]
    /\ UNCHANGED <<tdcVars, stq, watchVars, alignFid, sem, alignVars, fileVars, usb, taken, power>>

(* The copy replaces one of that name on the stick.  A write that stores    *)
(* less than it was given is not noticed; an error leaves a truncated copy  *)
(* and the source; so does a source that cannot be removed, with a whole    *)
(* copy.  A source the align thread has deleted meanwhile cannot be removed *)
(* either, with the outcome of the first disjunct.                          *)
Taken ==
    /\ dir' = dir \ {dnName} /\ data' = [data EXCEPT ![dnName] = {}]
    /\ taken' = [taken EXCEPT ![dnName] = @ \cup data[dnName]]

MoveEnd ==
    /\ dnpc = "copy"
    /\ \/ /\ usb' = [usb EXCEPT ![dnName] = dnBuf]
          /\ Taken
       \/ /\ UsbFull
          /\ usb' = [usb EXCEPT ![dnName] = {}]
          /\ Taken
       \/ Faults /\ usb' = [usb EXCEPT ![dnName] = {}] /\ UNCHANGED <<fileVars, taken>>
       \/ Faults /\ usb' = [usb EXCEPT ![dnName] = dnBuf] /\ UNCHANGED <<fileVars, taken>>
    /\ dnpc' = "idle" /\ dnName' = NoName /\ dnBuf' = {}
    /\ UNCHANGED <<tdcVars, stq, watchVars, alignFid, sem, alignVars, power>>

-----------------------------------------------------------------------------
(* Power is cut and comes back: only the files survive. *)
PowerCycle ==
    /\ power < MaxPower
    /\ power' = power + 1
    /\ slot' = 0 /\ txpc' = "idle" /\ stq' = 0
    /\ wpc' = "recv" /\ wSec' = 0 /\ wKey' = ZeroFid
    /\ curFid' = ZeroFid /\ prevSec' = 0 /\ alignFid' = ZeroFid /\ sem' = 0
    /\ err' = [same |-> 0, miss |-> 0]
    /\ apc' = "wait" /\ old' = ZeroStamp /\ pend' = {} /\ seen' = {}
    /\ zfid' = ZeroFid /\ zbuf' = {}
    /\ dnpc' = "idle" /\ dnName' = NoName /\ dnBuf' = {}
    /\ UNCHANGED <<hdr, fileVars, usb, taken>>

Next ==
    \/ \E h \in Headers : CopyFrame(h)
    \/ TaskCmd
    \/ Watch
    \/ Align
    \/ \E n \in Names : MoveBegin(n)
    \/ MoveEnd
    \/ PowerCycle

(* Every thread runs at a fixed priority and blocks between its jobs, so    *)
(* each of them gets the processor again; frames, moves and power cuts are  *)
(* the environment's.                                                       *)
Fairness ==
    /\ WF_vars(TaskCmd)
    /\ WF_vars(Watch)
    /\ WF_vars(AlignBegin)
    /\ WF_vars(\E n \in Names : DeleteOld(n) \/ Skip(n) \/ ZipBegin(n))
    /\ WF_vars(ZipWrite)
    /\ WF_vars(ZipRemove)
    /\ WF_vars(AlignEnd)

Spec == Init /\ [][Next]_vars

FairSpec == Spec /\ Fairness

-----------------------------------------------------------------------------
(* What can still be found under name n: in the archive, on the USB stick,  *)
(* or in the copy dn is making, which outlives a deletion of its source.    *)
InCopy(n) == IF dnName = n THEN dnBuf ELSE {}
Found(n) == data[n] \cup usb[n] \cup InCopy(n)

(* The frames found, each with the identity of its file. *)
Kept == UNION {{[id |-> i, key |-> n.key] : i \in Found(n)} : n \in Names}

(* What sm promises, whatever its threads, dn and the power supply do. *)
Archive == INSTANCE TodArchive WITH
    accepted <- Len(hdr),
    now <- Latest.key.t,
    kept <- Kept

(* No stamp goes back, and the train number changes only with the window:   *)
(* the condition under which several properties below hold.                 *)
ForwardOnly ==
    \A p \in Follows : p[1].key = p[2].key \/ Earlier(p[1].key.t, p[2].key.t)

TypeOK ==
    /\ hdr \in Seq(Headers) /\ slot \in {0, Len(hdr)} /\ txpc \in {"idle", "cmd"}
    /\ stq \in 0..MaxCmd
    /\ wpc \in {"recv", "stamp", "write", "roll"}
    /\ wSec \in Nat /\ wKey \in Fids \cup {ZeroFid}
    /\ curFid \in Fids \cup {ZeroFid} /\ prevSec \in Nat
    /\ alignFid \in Fids \cup {ZeroFid} /\ sem \in Nat
    /\ err \in [same : 0..WordMax, miss : 0..WordMax]
    /\ apc \in {"wait", "scan", "zip", "unlink", "exit"} /\ old \in Stamp
    /\ pend \subseteq Names /\ seen \subseteq Names
    /\ zfid \in Fids \cup {ZeroFid} /\ zbuf \subseteq 1..Len(hdr)
    /\ dir \subseteq Names /\ data \in [Names -> SUBSET (1..Len(hdr))]
    /\ dnpc \in {"idle", "copy"} /\ dnName \in Names \cup {NoName}
    /\ dnBuf \subseteq 1..Len(hdr)
    /\ usb \in [Names -> SUBSET (1..Len(hdr))] /\ taken \in [Names -> SUBSET (1..Len(hdr))]
    /\ power \in 0..MaxPower

(* A file that sm may still append to is never being zipped: AppendTod and  *)
(* FileAlign share no lock, only c_alignFid and the semaphore keep them off *)
(* the same file.                                                           *)
CurrentNotZipped ==
    apc \in {"zip", "unlink"} => zfid # curFid /\ (wpc \in {"write", "roll"} => zfid # wKey)

(* A window may be both open and archived: the power was cut, or the file   *)
(* could not be removed, between the two steps of zip -m.  The two are then *)
(* equal, so zip -m, at it again in a later scan, never replaces an archive *)
(* by one with other frames.                                                *)
OpenAsZipped ==
    \A k \in Fids : {CurName(k), ZipName(k)} \subseteq dir
                       => data[ZipName(k)] = data[CurName(k)]

(* Once sm has caught up, the frame accepted last is in the open file of    *)
(* its own window, though commands may have been dropped on a full queue    *)
(* and the slot overwritten in between.                                     *)
LatestStored ==
    stq = 0 /\ wpc = "recv" /\ txpc = "idle" /\ slot # 0
        => slot \in data[CurName(Latest.key)]

(* A frame lies in the file of its own window and train, in the archive and *)
(* on the USB stick: AppendTod builds the file name and the contents from   *)
(* two looks at the slot.                                                   *)
FiledUnderOwnStamp ==
    \A n \in Names : \A i \in data[n] \cup usb[n] : hdr[i].key = n.key

(* When sm lags, the slot may change between those looks, but a frame can   *)
(* only slip into the file of an earlier window, never into a later one.    *)
NeverFiledAhead ==
    \A n \in Names : \A i \in data[n] \cup usb[n] :
        hdr[i].key = n.key \/ Earlier(n.key.t, hdr[i].key.t)

(* The counters of repeated and of skipped seconds agree with the frames    *)
(* accepted since power-up: the BYTE arithmetic over the minute boundary    *)
(* counts each repetition and each hole once.                               *)
Steps(S) == {i \in 2..Len(hdr) : (hdr[i].sec - hdr[i - 1].sec) % Minute \in S}
Upto(n) == IF n < WordMax THEN n ELSE WordMax
CountersExact ==
    power = 0 /\ stq = 0 /\ wpc = "recv" /\ txpc = "idle" =>
        /\ err.same = Upto(Cardinality(Steps({0})))
        /\ err.miss = Upto(Cardinality(Steps(2..(Minute - 1))))

(* A frame in an open or zipped file stays in one of the two, in spite of   *)
(* failing file operations and of power cuts between any two steps, until   *)
(* dn has removed the zipped file or the window is over a month behind the  *)
(* latest stamp, counted in months of the calendar.                         *)
SmKeepsFrames ==
    [][\A k \in Fids : \A i \in data[CurName(k)] \cup data[ZipName(k)] :
          \/ i \in data'[CurName(k)] \cup data'[ZipName(k)]
          \/ i \in taken'[ZipName(k)]
          \/ OverAMonth(k.t, Latest.key.t)]_vars

(* Every accepted frame that was ever recorded can still be found, in the   *)
(* archive or on the USB stick, until its window is over a month old.       *)
KeepsArchive == Archive!Spec

(* A closed file is zipped or deleted in the end, unless the power fails:   *)
(* the single c_alignFid may be overwritten before the align thread looks,  *)
(* but no closed file is forgotten.                                         *)
Closed(k) ==
    /\ CurName(k) \in dir
    /\ curFid \notin {k, ZeroFid} /\ alignFid # ZeroFid
    /\ ~Earlier(alignFid.t, k.t)
ClosedFileLeaves == \A k \in Fids : Closed(k) ~> ~Closed(k)

(* The log line behind the second counter says a frame was not received. *)
MissMeansNotReceived ==
    err.miss > 0 => \E i \in 2..Len(hdr) : (hdr[i].sec - hdr[i - 1].sec) % Minute # 1
=============================================================================
