# TLA+ models of the TDC/TDRD train-data recorder (`src/by_qnx3`) and its serial controller

The repository holds the software of several generations of a train data recorder and of the
boards and tools around it. This project models the current recorder, `src/by_qnx3`: a set of
QNX processes on one unit of a train that receive *train operation data* (TOD) frames from a
serial line, archive them on a memory card, move the archive to a USB stick, and report the
frames to a server. Paths below are relative to `src/by_qnx3`. One module, `Hdlc`, models the serial
controller of the link board, written in VHDL under `src/Port/code`.

1. [The system](#1-the-system) - parts, interaction, what is hard, what makes each part correct
2. [The modules](#2-the-modules) - which module stands for which code, and how
3. [The runs](#3-the-runs) - what TLC checks, with which bounds and fairness
4. [The proofs](#4-the-proofs) - what TLAPS proves, from what, and along which argument
5. [Where the code and its words disagree](#5-where-the-code-and-its-words-disagree)
6. [What is not modelled](#6-what-is-not-modelled)
7. [Plan](#7-plan)

## 1. The system

### 1.1 Processes

| process | source | state it keeps | operations |
|---|---|---|---|
| **tdc** | `tdc/CTdc.cpp`, `tdc/CGate.cpp` | last frame of each serial channel, receive watchdog, download machine, connect timer, page shown | `TakeReceiveAsync` (a frame arrived), `RecvError`, `Pulsate` (every 20 ms), `PrintV`, `TaskCmd`, the link from wm |
| **sm** | `sm/CSm.cpp` | open file (`c_curFid`), file to archive (`c_alignFid`), semaphore, counters | `Watch` / `AppendTod`, `Align` / `FileAlign`, `DeleteTod` |
| **dn** | `dn/CDn.cpp` | the USB stick's mount point, progress in shared memory | `Watch`, `ScanUsb`, `Download`, `MoveFile` |
| **up** | `up/CUp.cpp` | socket to the server, connection status | `Watch`, `Bridge`, `Report`, `Send`, (`Upload` / `Transfer`) |
| **wm** | `wm/CWm.cpp`, `wm/CSock.cpp`, `CServer`, `CClient` | server socket, one selected client | accept, receive, close, link / unlink to tdc |
| **pi** | `pi/CPi.cpp` | front panel shape | pings and keys; not started in this build |

Every process is built from the parts in `Base/` and `Part/`: `CPump` (message loop with a tag
table), `CPop.h` (mutex and semaphore), `CTimer` (one thread per timer), `CAsync` (serial
receiver), `CFio` (front panel), `Track.c` (log).

### 1.2 How they interact

```
 serial line
     |  CAsync: receive thread, settle timer, tag queue
     v
 +---------------- tdc ----------------+        c_pUtp->todt + REPORT      +-- up --+  UDP
 |  tag thread    TakeReceiveAsync     | --------------------------------> | Watch  | -----> server
 |  pulse thread  Pulsate              | --------- CONNECT --------------> |        |
 +-------------------------------------+                                   +--------+
     | c_pStp->todt        | c_pDtp->bail
     | + APPENDTOD         | + SCANUSB, DOWNLOAD
     v                     v
 +-------- sm --------+   +--- dn ---+
 | watch: AppendTod   |   | ScanUsb  |
 | align: FileAlign   |   | Download |---> USB stick
 +---------+----------+   +----+-----+
           |  c<stamp>_<train> |
           +---> archive <-----+
                 a<stamp>_<train>.zip
```

* One block of shared memory per peer of tdc (`c_pStp` with sm, `c_pDtp` with dn, `c_pUtp` with
  up) and one POSIX message queue per process, of 4096 commands (`Common/Refer.h:73`). tdc writes
  a command into the queue and the data it is about into the block; status words and progress come
  back through the block. Nothing in a block is locked.
* `TaskCmd` looks at the fill of the queue and drops the command when it is full; otherwise it
  sends, and two threads of tdc that look at the same time may both go on to send.
* sm's two threads share `c_alignFid`, a counting semaphore and the archive directory; dn works on
  the same directory.
* Threads run at fixed priorities (`Common/Refer.h:19-37`), so which interleavings happen depends
  on the load of the unit. The models allow all of them.

### 1.3 What is hard, and what makes each part correct

* **tdc to sm.** A frame goes through *one* slot of shared memory, announced by a command that does
  not say which frame it is about. sm reads the slot three times for one command. When sm lags (a
  slow card, a zip at work), the slot changes under it.
  *Correct:* the latest frame is stored once sm has caught up; a frame lies in the file of its own
  window when sm keeps pace, and never in the file of a later window; the counters of repeated and
  missed seconds count what happened.
* **Watch and Align, two threads of sm.** No lock: the closed file is handed over through one
  variable and a semaphore, and the align thread reads the variable again for every directory entry.
  `zip -m` writes the archive first and removes the file then.
  *Correct:* the file being appended to is never zipped; an archive is replaced only by one that holds
  the same frames, after a cut between zip's two steps; every closed file is zipped or deleted in the end.
* **sm and dn on one directory, and power cuts.** dn moves zipped files to the stick while sm
  deletes and zips; the unit is switched off with the train and only the files survive.
  *Correct:* a recorded frame can be found, in the archive or on a stick, until it is a month old.
* **tdc and dn.** A handshake of flags in shared memory, polled every 20 ms, with a stick that is
  pulled at any time.
  *Correct:* at most one download is ordered or running; a result stays until tdc has seen it;
  neither process loses a flag the other has just changed; success means what it says, unless a
  directory could not be opened; no file is lost but by a short write on a full stick; every download
  ends; a stick that stays gets the archive.
* **tdc and up.** Two threads of tdc feed one queue; the tag thread looks at two flags up changes.
  *Correct:* no command of up meets a flag left up; at a pace up can follow every frame is reported
  once and whole; a lost connection is made again; tdc never stays in `mq_send` for good.
* **Serial receiver** (`CAsync`, `CTimer`, the checks of `TakeReceiveAsync`). The receive thread and
  the timer's thread share the write index of one buffer and call `Trigger` and `Release` of one
  periodic timer; only the accesses to the timer's flag are locked, a pulse cannot be taken back, and
  the buffer is copied by a third thread when it comes to the tag.
  *Correct:* at the pace of the line every whole frame is accepted once and in order, every other one
  counts as an error, and no read leaves a buffer that takes the frame; a breach of the timing costs two frames at
  most, if the channel comes to rest again; bytes that were read are handed over; a silent line is noticed, and reported once.
* **Monitor gateway** (wm, `CGate`). Tags carry no client, notification threads race with the pump,
  a socket is armed for a transition only (`_NOTIFY_ACTION_TRANARM`, `CSock.cpp:133`), a new client
  replaces the old one, and two threads of tdc build their messages in one buffer.
  *Correct:* tdc's gate is open exactly while wm holds the link for selected; a monitor that asked
  and was heard gets a whole INIT message first; wm hangs up only on a monitor that left, and does once
  it has heard of it; no thread of tdc stays in `mq_send` for good.
* **HDLC channel** (`src/Port/code`). A dozen clocked processes and two clocks: bytes cross between
  them one at a time, each in a handshake of four edges through two flops, while the line goes on; one
  bit on the line decides where a frame begins; and the firmware (`src/Tes32c/src/Fpgam.c:360`) writes
  the next frame without asking whether the last one has left.
  *Correct:* every undisturbed frame arrives whole whatever its bits; a falsified bit or a frame written
  too early costs a known number of frames, and the bit forges none; the crossing keeps up with the line; the
  request to send covers the frame and falls again.
* **Message pump** (`CPump`): one handler at a time, tags in order. It is part of `Receiver` and
  `Link`.

`PROJECT.json` lists every hazard at its line, with the properties that cover it.

## 2. The modules

| module | models | extends |
|---|---|---|
| `TodStamp` | stamps, their packed order, the month step, the gap in seconds (`Common/Refer.h`, `sm/CSm.cpp`) | |
| `TodStore` | sm, with the ends of tdc and dn it meets | `TodStamp` |
| `TodArchive` | the abstract archive `TodStore` implements | `TodStamp` |
| `Download` | tdc's pulse thread and dn, the USB stick, sm as environment | |
| `Report` | tdc's tag and pulse threads, and up | |
| `Receiver` | one serial channel: receive thread, timer, tag thread's checks, watchdog | |
| `Link` | monitors, wm, tdc's gate | |
| `Hdlc` | one HDLC channel of the serial controller, looped back | |
| `MCTodStore`, `MCDownload`, `MCReport`, `MCReceiver`, `MCLink`, `MCHdlc` | instances for TLC | one each |
| `TodStoreProofs`, `TodArchiveProofs` | theorems about `TodStore` | `TodStore` |
| `DownloadProofs`, `ReportProofs`, `ReceiverProofs`, `LinkProofs`, `HdlcProofs` | theorems about the module of that name | one each |
| `LinkCalmProofs` | theorems about `Link` while the priorities hold | `LinkProofs` |

The operators marked *Mutant* in the modules are not part of a model: each is a definition changed
the way a plausible bug would change it, and `PROJECT.json` names the property it breaks.

### 2.1 TodStore

| TLA+ | code |
|---|---|
| `hdr`, `slot`, `txpc` | frames accepted so far; the number of the one in `c_pStp->todt`; where tdc's tag thread is |
| `CopyFrame`, `TaskCmd` | `CTdc::TakeReceiveAsync`, copy and command (`CTdc.cpp:889-893`, `456-470`) |
| `stq` | the APPENDTOD commands queued: they carry no data, a count is enough |
| `WatchReceive`, `ReadStamp`, `WriteTod`, `Roll` | `CSm::Watch` and the looks `CSm::AppendTod` takes at the slot: second, stamp and train, contents; then the gap and the handover |
| `AlignBegin`, `DeleteOld`, `Skip`, `AlignEnd` | `CSm::Align`, `FileAlign`, `DeleteTod` |
| `ZipBegin`, `ZipWrite`, `ZipRemove` | `zip -m` (`CSm.cpp:384`): read the file, replace the archive, remove the file; each may fail, and the power be cut between any two |
| `pend`, `seen` | what `readdir` must still return, and has returned: it returns each entry that was there at `opendir`, and perhaps entries made since |
| `MoveBegin`, `MoveEnd` | `CDn::MoveFile` on one archive entry: copy, then remove; also with a full stick (a short `write` is not noticed, `CDn.cpp:351`) |
| `PowerCycle` | every process starts again; files and stick survive |

A frame is its number, its window with train number, and its second. A file is a sign (`c` being
appended, `a` zipped) and a `TODFINDEX`; its contents are a set of frame numbers. Stamps keep year
and month apart, because the month step needs them, and pack day, hour and minute as the low 16 bits
of the word. What `readdir` lists beside them is left out: zip's temporary file, whose name reads as a stamp
of year 0, is deleted by the next scan. `OverAMonth` counts calendar months independently of the code's
`MonthBack`; the properties use the count, `FileAlign` the step. `taken` keeps, for `SmKeepsFrames`, what dn took out.

### 2.2 Download

| TLA+ | code |
|---|---|
| `cmd`, `result`, `ratio`, `wState` | `wCmd`, `wResult`, `wRatioT`, `wState` of `DTBAIL` (`dn/DnRefer.h`) |
| `PulseDone` ... `PulseSend` | the download machine of `CTdc::Pulsate` (`CTdc.cpp:502-547`) and `TaskCmd` |
| `ScanBegin` ... `ScanSeize` | `CDn::ScanUsb`; each `\|=` and `&=` on `wState` is a load and a store, on both sides |
| `Count`, `MakeDirectory`, `FindArchive`, `FindAnother`, `MoveOpen`, `MoveEnd` | `CDn::Download`, `SearchOtherFile`, `FindOtherFile`, `MakeDirectory`, `MoveFile`, with each result code |
| `Seen`, `Written` | a directory that cannot be opened reads as empty (`CDn.cpp:285`, `304`); a `write` that stores less is not noticed (`351`) and the file counts as `cut` |
| `PlugIn`, `Pull`, `NewFile`, `DeleteOld` | the stick, and sm on the archive |

`ScanUsb` goes on calling `readdir` on a directory it has closed after a mount that failed
(`CDn.cpp:148-176`): undefined behaviour. The constant `ReaddirClosed` holds the places it may lead
to: out of the loop, back to another entry, or nowhere. The safety runs and the proofs take all of
them; the liveness run takes the one a build produces whose `readdir` then returns nothing.
What `write` has accepted counts as on the stick: the code neither syncs nor unmounts it before it reports
success, and what a stick pulled then holds is up to the file system.

### 2.3 Report

| TLA+ | code |
|---|---|
| `slot`, `buf` | `c_pUtp->todt` and `c_cTodBuf`, copied in two halves so that a copy may be torn |
| `AcceptHead` ... `PutReport` | `CTdc::TakeReceiveAsync` (`CTdc.cpp:892-896`) and `TaskCmd`: look, then send |
| `ShowServer`, `NotDue`, `Due`, `AskConnect`, `PutConnect` | the connect timer of `CTdc::Pulsate` (`CTdc.cpp:549-561`) |
| `WatchReceive`, `Bridge`, `Bridged` | `CUp::Watch`, `Bridge` |
| `CopyHead`, `CopyTail`, `OpenSocket`, `SendTo`, `ReportFailed`, `Reported` | `CUp::Report`, `Send` |
| `iSock` | `c_iSock`: none, open, or closed with its number kept (`CUp.cpp:263`) |

The build is the one of the sources: `_ONLY_REPORT_` is defined, so UPLOAD is never queued, and
`Bridge` cannot fail because the report is a datagram. A frame accepted before up is done with the
one before is *early*, and a socket or datagram that fails is a *fault*; both are counted.

### 2.4 Receiver

| TLA+ | code |
|---|---|
| `left`, `fifo` | bytes of the present frame still on the line, and in the driver |
| `Begin`, `Arrive` | a frame comes whole, damaged, a byte short, or longer than the buffer |
| `cBuf`, `wi`, `wLength` | `c_mag` of `CAsync` |
| `Overrun` | a full buffer and more to come: `read` is asked for 0 bytes and tried again (`CAsync.cpp:115-117`) |
| `Call`, `Trigger` | `CTimer::Trigger` and `Release`: flag down, timer set or stopped, flag up (`CTimer.cpp:197-222`) |
| `Expire`, `TimerPulse` | the periodic timer's pulse, and the first half of `CTimer::Watcher` |
| `ReceiveSelect` ... `ReceiveArmed` | `CAsync::Receive`: each look at `wi` by itself |
| `TimerReleased`, `SettleLength`, `SettleZero`, `SettleSend` | the rest of `Watcher`, `CAsync::Settle`, `SendTag` |
| `TakeTag`, `Bunch`, `AcceptState` ... `AcceptInterval` | `CTdc::TakeReceiveAsync`, `CAsync::Bunch`: length, control characters and BCC, then the state of the channel |
| `Tick` ... `TickSink` | the watchdog of `CTdc::Pulsate` (`CTdc.cpp:630-637`) |

The code relies on time: no gap of 100 ms within a frame, and the next frame when all work on the last
is done. An expiry at `Overrun` keeps to that, for reads of 0 bytes do not start the timer again: a frame longer
than the buffer (`overlong` counts them) is handed over in two parts, at any pace. The model lets the timer expire anywhere and a frame begin anywhere, and counts a *hiccup*
when that breaches the timing. A byte is its frame, its place and whether it is undamaged; the checks
of a frame accept it exactly when all its bytes stand in their place.

### 2.5 Link

| TLA+ | code |
|---|---|
| `peer`, `text`, `first` | the monitors: outside the repository's process, as its protocol expects them |
| `Heard` | what comes at a socket starts its thread if the socket is armed and nothing was there before (`CSock.cpp:133`); else it makes no transition, or may make none |
| `Accept`, `AcceptTag`, `ServerRework` | `CSock::SockHandler`, `CServer::DoAccept` for the listening socket: one call for each notification, then armed again |
| `HandlerLook`, `HandlerRework` | `CSock::SockHandler` for a client's socket: queue a tag, arm again |
| `TakeSockAccept`, `TakeSockReceive`, `TakeSockClose`, `PushQueue` | wm's pump thread (`CWm.cpp:195-275`) |
| `WatchReceive`, `WatchHost`, `WatchSend` | wm's watch thread, `CWm::Watcher` |
| `TakeLinkWm`, `TakeUnlinkWm`, `TakeLinked`, `PulseSend` | tdc's tag and pulse thread |
| `SendLook` ... `SendPut` | `CGate::Send` of either thread, the message built in two halves in `c_wmm` |

`Calm` is the regime of the fixed priorities (`Common/Refer.h:19-37`): a pump thread with work is not
overtaken by the threads below it on the one processor. A *breach* is a monitor that calls before the
last one is done with, is looked at before its ACCEPT tag is queued, or asks again before it was read.
`LinkAgrees` and `TypeOK` hold in every regime, and are proved so.

A monitor is *unheard* if it asked or left before its socket was armed, between `accept` and
`Listening` (`CServer.cpp:35-40`), or before it was armed again, between the tag and `Listening`
(`CSock.cpp:27-35`). What it did stays in the socket and no thread ever looks: one that left keeps its
place, and tdc's gate open, until the next one calls; one that asked gets nothing until it does
something again. A call that comes while the listening socket is not armed waits for the next call, and each call is then
taken one call late. That is what the code does, and `LetsGo` and `Served` except it (`Unheard`).

### 2.6 Hdlc

Each process of the VHDL is one variable, a record of its registers, and one operator `Next...` that
gives its value after the clock edge from the values before it, as signals are read.

| TLA+ | code, in `src/Port/code` |
|---|---|
| `buff`, `rest` | `TxBuffer` (`main/core/TxBuff.vhd:186`): idle, being written, being read; the bytes left in it |
| `NextTxFcs`, `NextRxFcs`, `NextGot` | the two state machines on the system clock (`tx/core/TxFcs.vhd`, `rx/core/RxFcs.vhd`), and what `RxBuffer` takes |
| `rdy`, `wr`, `va`, `rdb`, `rv`, `rr` | the pairs of flops of `TxSynch.vhd`, `RxSynch.vhd` |
| `NextAbt`, `NextCtl` | `AbortProc`, `FlagProc` of `TxController.vhd` |
| `NextP2s`, `NextLat` | zero insertion and its latch (`ZeroInsert.vhd`) |
| `Opened`, `Resting`, `NextFlg` | flag insertion (`FlagInsert.vhd`), with the count of 16 bits after a frame |
| `NextLine` | `Nrz` or `Nrzi` (`lib/Node.vhd`), both ends, and the bit the line falsifies |
| `NextDet`, `NextRxc` | `FlagDetector.vhd`, `RxController.vhd` |
| `NextZero`, `NextOut` | zero deletion and its latch (`ZeroDetector.vhd`) |
| `SystemClock`, `BitClock` | an edge of either clock |
| `WriteBuffer`, `Enable` | `SendPort` of the firmware, and what `MemMap.vhd:269-289` does for it |

A bit of the line is 16 edges of a faster clock and the system clock is faster again; the model lets the
system side come to rest (`Settled`, seven edges at most) before the next bit. `seen` keeps the frames due, lost, and those
that passed the FCS without having been sent. `Ports` gives each instance its flag length, line code,
frames, and the number of *harms*: bits falsified and frames written while the one before is on the line.

### 2.7 TodArchive

What the storage promises, without threads, files, semaphore or zip: frames are accepted in order,
the latest may be recorded, and a recorded frame disappears only once its window is more than a
month behind the latest stamp. `TodStore!Archive` is the refinement mapping: a frame is kept while
it is in a file of the archive, in a file on the stick, or in the copy dn is making.

## 3. The runs

`tlc -config <cfg> <module>` in this directory. "holds" means TLC explored every reachable state of
the instance; "violated" runs are those of [section 5](#5-where-the-code-and-its-words-disagree).

| run | configuration | what it asks | states |
|---|---|---|---|
| `store_forward` | stamps go forward, sm lags at will, queue of 2, one power cut | the two threads of sm keep off each other's files, an archive is replaced only by its equal, `TodStore` implements `TodArchive`, closed files leave | 388 k |
| `store_faults` | sm keeps pace; opening, writing, each step of zip, removing, copying may fail; the stick may fill up; one power cut; seconds 0..2 of a minute of 3; a year 0 before | sm itself loses no frame of the last month and misfiles none; exact counters | 1.1 M |
| `store_miss` | seconds without a gap, sm lags, violated | a missed second was not received | |
| `download_safe` | dn lags, commands dropped, operations fail, short writes, directories not opened, one pull, `readdir` anywhere | one download, no flag or result lost, no file but by a short write, success is honest | 1.9 M |
| `download_live` | dn keeps the queue from filling, no faults, one pull | downloads end, a stick is served | 308 k |
| `download_drop` | dn lags, violated | the flag means downloading | |
| `download_rate` | three files at once, violated | the rate shown is the rate | |
| `report` | queue of 2, 4 frames, two of them early, two failures | flags down, reconnection, no thread stuck in `mq_send`; undisturbed, each frame reported once and whole | 278 k |
| `report_lost` | two failures, violated | a connected up can send | |
| `receiver` | frames of 2 bytes, a buffer of 3, 3 frames of which one is not whole, one hiccup | every frame accounted for, losses bounded where the channel comes to rest, bytes settle, silence noticed once | 705 k |
| `hdlc` | five ports: flag lengths 3, 4 and 7 with frames of 1 to 3 bytes, 0 and 2 with 4 bytes, NRZ and NRZI; one harm at any bit; rests of 0, 5, 30 bits | frames are transparent, damage is bounded, the crossing is in time, the line is covered and released | 320 k |
| `link` | two monitors, two demands, one breach, tag queues of 3, message queue of 1 | both ends agree; polite monitors get INIT first and are kept; those heard are served and let go | 396 k |

### 3.1 Why some properties need a condition

* *Forward stamps* (`store_forward`): a stamp that goes back makes sm open a file that may be
  archived already or under zip. That is what the code does; the properties say what holds when the
  clock of the train does not go back and the train number changes only with the window
  (`ForwardOnly`).
* *Paced* (`store_faults`): frames come about once a second. When the
  consumer is not done with one before the next is copied, one slot cannot hold both. What holds
  *without* the pace is checked and proved too: `LatestStored`, `NeverFiledAhead`, `FlagsDown` and
  everything else in `store_forward`.
* `download_live` takes a dn that keeps its queue from filling (`Lag = FALSE`): with a drop a
  download never ends, which is what `download_drop` shows. It takes no operation that fails for
  ever, but keeps a pull at any moment.
* `EachReportedOnce` speaks of behaviours without early frames and failures so far, in a run that has
  both; and it needs a queue of at least two: with a queue of one, a stale CONNECT fills it and a
  REPORT is dropped. The real queue holds 4096.
* `Accounted` and `ReadInside` speak of behaviours without a hiccup so far. After one, `Settle` may cut
  a frame in two, a tag may meet another frame in the buffer, and a read that took `wi` twice may ask
  for more than fits. What holds then is `LossBounded`, where the channel comes to rest again. It need
  not: a hiccup may leave the timer stopped over the bytes of one frame; the next one fills the buffer,
  `read` is asked for 0 bytes (`CAsync.cpp:115`) and tried again for ever. TLC reaches that state with one
  hiccup and whole frames only (with `~Standstill` of `ReceiverProofs` as an invariant), for 2 bytes of 2 or 3
  as for 3 of 4; that nothing leads out of it is the theorem `StandsStill`.
* `Accounted` counts two errors for a frame longer than the buffer, and `ReadInside` speaks of lines without one.
  The timer expires under such a frame while the receive thread reads 0 bytes again and again; if `wi` is reset
  between its two looks of one read, it asks for a whole buffer at the end of the buffer. A frame of the code
  has 1412 of the buffer's 2048 bytes, so that takes a sender that does not keep to the format, or a pause lost.
* `LossBounded` needs a buffer that does not take two frames (`OneFrameAssumption`, 2048 < 2824). In a larger one
  a hiccup may leave two frames with the timer stopped, and the next one is lost with them: TLC finds it
  for 2 bytes of 5 with one hiccup and three whole frames, without the assumption.
* `SuccessHonest` excepts the files of a directory that could not be opened, `FilesKept` those a short write has cut:
  `FindOtherFile` tells an unreadable directory from an empty one as little as `MoveFile` a short
  write from a full one, so with either the code reports success and has left, or lost, files it counted.
* `OpenForMonitor`, `InitFirst`, `KeepsMonitor`, `LetsGo` and `Served` speak of `Calm` and of monitors
  without a breach so far. With one, a close tag may close the wrong client, a replaced client leaves
  tdc's gate open so that the next one begins with NORL, and two demands read at once are not known.

* `HarmBounded` speaks of ports with a flag length of three or more. With the one opening flag of the
  reset value, a closing flag with a falsified bit in its frame can be taken for an opening one; the ones
  of the idle line are then not seen as an abort, for `FlagDetector.vhd:50` does not look within eight bits of a
  flag, and each later opening flag ends what the receiver takes for a frame: without the condition TLC
  finds a run in which one falsified bit costs every frame that follows.
* `Transparent` and `LineCovered` speak of such a flag length or frames of four bytes: with less, the
  buffer is read empty before the first flag has raised `frameDefence`, and the request to send drops for
  some bits.
* `NoneForged` and `LineCovered` speak of frames that were not cut. A frame written while the FCS
  of the last one is pending continues it, and may pass as one frame of both.
* `NoneForged` is about the error flag of `RxFcs`. `SccCtrl` of the firmware (`src/Tes32c/src/Fpgam.c`) takes every
  frame it is told of and does not look at that flag.
* `NoneForged` holds for the frames of the instances, not for all: let the first byte of a frame be followed by
  the FCS of that one byte and by `0x76`. One falsified bit turns the last into a flag, and the first
  byte alone is accepted; TLC finds this run when such a frame is among those of a port. It is a limit of the
  format, for the FCS speaks of what lies between two flags and the flags are not part of it.

### 3.2 Bounds

| constant | code | instances | why it is enough |
|---|---|---|---|
| `MaxCmd` | 4096 | 1, 2 | empty, partly filled and full queues all occur; commands carry no data |
| `MaxFrames` | - | 3, 4 | a file open, one closed, one zipped; with 4, two rolls and a frame in between: a file open, one closed, one zipped; in `Receiver`, a frame before, at and after a hiccup |
| `Minute` | 60 | 3, 4 | the arithmetic only distinguishes before and after the minute boundary; the BYTE never wraps, for 59 + 60 < 256 |
| `WordMax` | 0xffff | 1, 2, 3 | the counter stops during the run |
| `MaxPower`, `MaxPulls` | - | 0, 1 | once in every state; what is left over is again a start |
| `MaxFaults`, `MaxEarly` | - | 2 | a failure, and one after recovering; an early frame on an early frame |
| `F`, `Size` | 1412, 2048 | 2, 3 | a frame in one read or in two, fitting; an overlong one fills the buffer and goes on; not two in one buffer |
| `MaxTags`, `MaxMsg` | `MAX_TAG`, `MAX_WMMSG` | 3, 1 | full queues occur, and a thread that waits in `mq_send`; the safety properties are proved for every size |
| `MaxInterval` | `MAX_RECVINTERVAL` | 2 | a count on the way and at its end |
| `MaxHiccups`, `MaxBroken`, `MaxBreaches` | - | 1 | what follows one breach of the timing; a second begins from the same states |
| `Last`, `MaxAsks` | - | 2 | one monitor replaces another; a demand again, or by the other |
| `Headers` | - | 3-9 | a window of November and two of January, so that the month before January is December and the November file expires; two trains, a year 0 |
| `Ports` | flag length 0..7, frames up to 1024 bytes | 5 | the shortest lead-in, the longest and those between; bytes that are flags, aborts and five ones across a boundary; at each byte the machines are where they were |
| `Pauses`, `Holds` | - | 0, 5, 30; 0, 12 | the next frame at once, within the closing flag's count, after the receiver came to rest; enabled at once or after a byte |
| `Quiet` | - | 40 | the last bit has passed all registers after 30 |
| `harms` of a port | - | 1 | anywhere, in the frame, the flags, the FCS or the rest |
| files | - | 1-3 signed, 1 odd, 1 other | both loops of `Download`, each with and without files, and names of every kind |

### 3.3 Fairness

Weak fairness for each thread's steps: every thread of the recorder runs at a fixed priority and
blocks between its jobs (`mq_receive`, `sem_wait`, `MsgReceivePulse`), so none keeps the processor
from another for good. In `TodStore` frames, moves and power cuts are not fair. In `Download`, pulses
are fair: the timer of 20 ms is periodic; the stick and sm are not. In `Report` the choice between
`NotDue` and `Due` stands for a counter of 250 pulses, so `Due` has strong fairness: the pulse thread
reaches it again and again and the counter reaches 0 each 250th time; accepting frames is not fair.
In `Receiver` bytes of a frame that has begun arrive and an armed timer expires; frames need not begin.
In `Link` the monitors need not do anything, nor must the pulse thread find the gate open, and nothing makes an
unheard socket heard; wm's watch thread is fair, which takes it that `send` to a monitor that does not read returns.
In `Hdlc` both clocks run, and the firmware, which writes a frame in one function, comes to its end.

Deadlock is checked in the runs of `Report`, where the pulse thread never stops. In `TodStore`,
`Receiver`, `Link` and `Hdlc` frames, demands and monitors are bounded and all wait at the end, and in
`Download` dn may hang for good in `readdir`; their configurations say `CHECK_DEADLOCK FALSE`.

## 4. The proofs

`tlapm <module>.tla` proves all obligations (about 12,300 in eight modules). The theorems hold for every
value of the constants that satisfies the assumptions in the modules.

| theorem | property | needs |
|---|---|---|
| `TodStoreProofs!TypeCorrect` | `TypeOK` | - |
| `TodStoreProofs!CurrentSafe` | `CurrentNotZipped` | `ForwardOnly` |
| `TodStoreProofs!FiledSafe` | `NeverFiledAhead` | `ForwardOnly` |
| `TodStoreProofs!FiledUnderOwn` | `FiledUnderOwnStamp` | `Paced` |
| `TodStoreProofs!ArchiveReplacedByEqual` | `OpenAsZipped` | `ForwardOnly` |
| `TodStoreProofs!LatestSafe` | `LatestStored` | `ForwardOnly`, no faults |
| `TodStoreProofs!CountersCorrect` | `CountersExact`, which speaks of the time until the power fails | `Paced`, `SecondsFit` |
| `TodArchiveProofs!ImplementsArchive` | `KeepsArchive` | `ForwardOnly`, no faults, no full stick |
| `TodArchiveProofs!FramesKept` | `SmKeepsFrames` | `ForwardOnly` |
| `DownloadProofs!TypeCorrect`, `OneAtATime`, `FlagsNotLost`, `ResultSeen`, `NoFileLost`, `SuccessTrue` | `TypeOK`, `OneDownload`, `FlagsAlone`, `ResultKept`, `FilesKept`, `SuccessHonest` | - |
| `ReportProofs!TypeCorrect`, `NoFlagLeftUp` | `TypeOK`, `FlagsDown` | - |
| `ReportProofs!ReportedOnce` | `EachReportedOnce` | `MaxCmd >= 2` |
| `ReceiverProofs!TypeCorrect`, `SilenceReportedOnce`, `ReadsInside`, `EveryFrameAccounted` | `TypeOK`, `SinkOnce`, `ReadInside`, `Accounted` | - |
| `ReceiverProofs!LossesBounded` | `LossBounded`, for any number of hiccups | - |
| `ReceiverProofs!StandsStill` | a full buffer with the timer stopped is the end of the channel | - |
| `LinkProofs!TypeCorrect`, `BothAgree` | `TypeOK`, `LinkAgrees` | - |
| `LinkCalmProofs!InitComesFirst`, `GateForMonitor`, `MonitorKept` | `InitFirst`, `OpenForMonitor`, `KeepsMonitor` | `Calm` |
| `HdlcProofs!LineStaysCovered` | `LineCovered` | - |
| `HdlcProofs!CrossingInTime` | `InTime`, for `Steady` ports and frames that are not cut | - |
| `HdlcProofs!EveryByteRead` | the half of `InTime` that is the receiver's, in every behaviour | - |
| `HdlcProofs!TypeCorrect` | every register keeps its width (`TypeOK`) | - |
| `HdlcProofs!NoSixOnes` | nothing of a frame looks like a flag or an abort, the sender's half of `Transparent` | - |
| `HdlcProofs!FrameHandedOver` | the bit clock takes the bytes of the frame and its FCS, each once and in order | frames not cut |
| `HdlcProofs!AcceptedByFcs` | the receiver accepts exactly what ends in its FCS, whatever the line falsifies | - |
| `HdlcProofs!ResidueDecides`, `BurstTold` | the FCS: one pair of bytes closes a sum, and two falsified bytes side by side show | - |

The `TypeOK` of `Report`, `Receiver`, `Link` and `Hdlc` is proved and no run's property: the runs of these modules
spend their time on what the theorems do not reach.

`SecondsFit` says that the seconds in the frames lie below `Minute` and that `Minute` fits a BYTE. The second
half is true of the code's 60; the first is a trust in the train's clock, for `AppendTod` takes the second
from the frame without looking at its range (`CSm.cpp:199-225`). With a second of 60 or more the BYTE
difference is no distance on the dial.

The arguments:

* **Types** (`TypeInv` in each module). `TypeOK` is not inductive: a command under way needs a frame
  in the slot, a rate is computed only while there is a total.
* **Keeping off the open file** (`OrderInv`). Along the path of a frame - slot, local stamp, open
  file, `c_alignFid`, file under zip - the stamps never increase, and `c_alignFid` is strictly
  earlier than the open file. `FileAlign` zips only what is not later than `c_alignFid`, however
  stale the value it read. `AheadInv` carries the same order to the frames in the files.
* **One file for a window** (`HorizonInv`, `RetiredInv`). A window whose archive is in the directory,
  in dn's hands or on the stick is *retired*: it is earlier than every frame still to be written, so
  the watch thread never opens its file again. A file that is to be deleted is behind the closed one.
  If the power is cut between zip's two steps, or the removal fails, the archive holds what zip has read, and the file is never
  appended to again (`FileInv`): the two are equal, and zipping once more changes nothing.
* **Own window** (`OwnInv`). At the pace, all looks at the slot see one frame.
* **The latest frame** (`StoredInv`). Either a command is still queued, or the watch thread is still
  before its write, or the slot's frame is in its file: a command is dropped only while another is
  in the queue, and a later look at the slot sees the later frame.
* **Counters** (`CountInv`). At the pace sm is at one frame at a time: its command is to be sent, is
  queued, or is worked on. So the open file and the second sm remembers are those of the frame before,
  and the counters are those of the frames done. `GapIsDistance` is the arithmetic: the BYTE difference
  of two seconds, with a minute added where it would be negative, is their difference modulo the minute.
* **No frame taken by sm** (`FileInv`, `UnlinkInv`, `HorizonOld`). What zip has read is what the file still holds when
  the archive replaces it and when it is removed (`UnlinkInv`), since sm appends to another file by then and dn takes no open one;
  and what a scan deletes is behind its horizon, which is a month by the calendar (`HorizonIsMonth`, `GoneIsOverAMonth`). It needs nothing of the file operations: each may fail.
* **Refinement** (`HorizonOld`, `BufferInv`, `ArchiveInv`). The horizon of a scan is not behind the
  month before the latest stamp, since `MonthBack` is monotone, so what a scan deletes may expire.
  What zip has read is what the file still holds; a name lies in the archive or on the stick; what
  dn copies is the file, or the file has expired. Each action then maps to `Accept`, `Record`,
  `Expire` or a stutter: `ArchiveAccept` to `ArchivePower`, one lemma per kind of step.
* **The handshake** (`HandInv`). A DOWNLOAD is ordered only with the flag up and no result, and is
  the *last* command in the queue, since tdc sends no command while the flag is up; so once a result
  is in, dn is quiet and the queue is empty. From that follow all three: one download, no flag lost,
  no result lost.
* **Files** (`FileInv`). Each file made is in the archive, on a stick, cut by a short write or deleted, and the
  loops end only when the files counted have left the directories or are in one that was not opened (`unread`).
* **Flags of up** (`FlagInv`). Which flags may be up is a function of where up is.
* **Each frame once** (`PacedInv`). At the pace one REPORT is under way at most, and it is about the
  frame in the slot; once a report was asked for, up is connected, and at most one CONNECT is stale,
  in the queue or on its way there, since the pulse thread looks again before it sends another. So a
  queue of two has room for the REPORT, and the tag thread does not drop it.
* **The channel** (`Meeting`, `Flow`, `Carried`). While the timing holds, whatever works on a frame finds the
  others at rest: the timer's thread runs only when the line is quiet or the buffer full, so `wi` is what the
  receive thread read it to be (`Handshake`), and the bytes of a frame lie in order, in the buffer, the driver and on the
  line (`OnWay`), or are handed over (`InHand`). A frame that came is there or it is accounted for (`Counted`).
* **The price of a breach** (`LossInv`). A hiccup may leave timer, flag and buffer in any state; what holds in
  all of them is only where each thread is in `Trigger` (`Calls`). Two frames are charged to it, and it loses one,
  the last begun; so one of the charge is left, and it pays for the next frame that begins at rest. From then on the
  channel is *closing*: whatever state the timer is in, at the next rest the buffer is empty, since either the
  frame finds its way to the timer (`Handshake`), or what is in the buffer and the frame do not go in
  and the buffer starts over first (`Full`; `StaleAdd` for an addition that writes the old `wi` back). The frame
  after that meets a clean channel, and is accepted or on its way (`Flow`) when the next hiccup comes. A frame that
  begins under one on its way costs both at once, with nothing left for a third: the channel is closing
  because the two do not go into the buffer (`EarlyCloses`), and that is where `OneFrameAssumption` is needed.
* **Silence** (`SinkInv`). The state of the channel is taken back only where a report is made, and set
  only by an accepted frame, though the two threads change it and the count without a lock.
* **The link** (`AgreeInv`). What tdc's gate will be once its queued tags are taken is what the last
  push told it, and wm pushes in the same step in which it changes its mind. It needs neither the
  priorities nor any manners of the monitors.
* **The monitor** (`CalmInv`, from types and `AgreeInv`). Under the priorities, and until the first breach,
  the monitors come one after the other (`OneByOne`): who has called finds its predecessors gone and
  closed. An open socket is at one of three stages (`Staged`): its ACCEPT tag to be queued, queued, or
  taken; so a close tag is about the one client there is, and that has left. And the INIT of a monitor is at
  one place (`Started`): not asked for, being built, at the head of tdc's queue to wm, on its way
  out, or received; while it is built the pulse thread rests, so no other thread writes to the one buffer.
* **A channel at its end** (`Standstill`). The buffer is full, so a read asks for nothing; only a read
  that returned bytes starts the timer, and only the timer empties the buffer.
* **The crossing** (`TxInv`, for frames that are not cut; `RxInv`, always). After a byte was loaded at
  least seven bits pass before the next load, whatever zeros are inserted. The exchange with `TxFcs` takes
  five of them (`ExchangeInv`: each pair of latch and flops comes with the bits that have passed at most),
  `valid` falls within the same five after the last byte (`ValidInv`), and so no load meets an empty
  latch. `StageInv` and `FcsInv` say how far `TxFcs` may be at each stage of the frame; the model's
  guard that the system side rests before the next bit is what makes its stages few. On the receiving side a
  byte that is ready is read within three bits.
* **The request to send** (`FlgInv`, `CoverInv`). At each stage either the buffer still holds bytes or the
  flags, the frame or the count after it hold the request. With two opening flags or fewer, it is the bytes
  still in the buffer that bridge the gap until `frameDefence` is up: `CoverInv` counts them, and that is
  what the four bytes of `Steady` are for. Once the count is out the register holds ones.

* **Widths** (`TypeOK` in `HdlcProofs`). Not one register alone needs more than its own range before the
  edge, except the bytes that `TxFcs` reads: it reads only while `TxBuffer` is being read, and the last
  byte is the one with which the buffer falls idle.
* **Zero insertion** (`StuffInv`). Lay the register of `FlagInsert`, the bit on its way to it and the next
  bits of `ZeroInsert` end to end: among six neighbours there is a zero wherever the frame is. What is loaded
  behind comes with the five bits before it still in sight, so the test for five ones sees across the bytes; the
  flag in front and the FCS behind are covered alike.
* **The sender's bytes** (`SendInv`, for frames that are not cut). What `TxFcs` holds and what is left in
  the buffer make up the frame, its sum is the FCS of what it holds (`FcsOf`, a chain of sums, one
  for each byte), and it moves on only when the flop of `readyO` shows that the latch has taken the byte. That the
  latch has taken *this* byte is where the crossing in time comes in.
* **The receiver's sum** (`SumInv`). `RxFcs` sums up a byte two steps before it hands it over; what has gone to
  `RxBuffer` and what was summed up stay the same bytes through waiting, reading and the end of a frame,
  with no assumption about what comes.
* **The FCS** (`CrcBits`, `CrcTells`, `TwoBytesTold`). A step of the sum is linear in its bits; written out bit by
  bit it can be undone for a known byte, and two unknown ones fill the sixteen bits exactly, so each
  sum is closed by one pair and every other pair differs. `BurstTold` finds the sums equal up to the burst, different
  behind it, and different ever after, by the least byte at which that would fail (`LeastNumber`, from
  the library's theorem that strict inclusion of finite sets is well-founded).

Only model-checked: `ClosedFileLeaves`, `DownloadEnds`, `StickServed`, `Reconnects`, `SendReturns`,
`BytesSettle`, `SilenceNoticed`, `LetsGo`, `Served`, `LineReleased` (liveness under fairness is beyond the prover), and
three safety properties of `Hdlc`:

* `Transparent`, that frames arrive whole and in order. Proved are its parts: the bytes and their FCS reach the
  bit clock in order (`FrameHandedOver`), no flag is among their bits (`NoSixOnes`), no byte is late
  (`CrossingInTime`), and the receiver accepts exactly what ends in its FCS (`AcceptedByFcs`). What is
  left between them is that each bit passes the registers of both ends and that the receiver deletes
  the zeros that were inserted; its invariant would have to name the place of every bit of three
  frames at once.
* `HarmBounded`, for the same reason, with a falsified bit on top.
* `NoneForged`, which no theorem can state for every frame (3.1). What is true of every frame is
  `AcceptedByFcs`, with `BurstTold` for what a short burst cannot do.

Without `Calm` the instance of `Link` is too large for TLC; there only the proofs speak.

## 5. Where the code and its words disagree

| run | code | what it says |
|---|---|---|
| `store_miss` | `sm/CSm.cpp:234`: an overwritten frame raises the counter of missed ones, although tdc received and answered it | `sm/CSm.cpp:237`: "do not receive one or more frame!" |
| `download_drop` | `tdc/CTdc.cpp:533`: the flag goes up before a command that may be dropped | `tdc/CTdc.cpp:503`: "downloading" |
| `download_rate` | `dn/CDn.cpp:244`: the file counter goes up twice for each file | `dn/DnRefer.h:25`: "rate per thousand" |
| `report_lost` | `up/CUp.cpp:263`: the socket is closed and its number kept, so no later report leaves | `tdc/CTdc.cpp:252`: the panel shows "Serv.con" |

With 4096 commands to a queue, `download_drop` needs a dn that stands still for over a minute of
pulses, for instance in a mount; `store_miss` needs a sm that is late by one frame.

## 6. What is not modelled

Within the modelled processes:

* Setting the system clock from a frame (`CSm.cpp:246-271`), status bits nobody tests, time logs.
* The start-up order: sm, dn and up start their threads before they map the shared memory.
* `AppendTod`'s `fwrite` of the slot is one step in `TodStore`, so a frame torn by a concurrent
  `memcpy` does not occur there; `Report` models the same kind of copy in two halves.
* `TestReport` reads both flags in one step: up changes one at a time, and the second test only
  matters while the first holds.
* In `Download`, pulses that only repaint, and the warm-up and pause timers, which only make pulses
  rarer; probing the stick's path succeeds exactly when it is mounted.
* The front panel pages of tdc, and the tags of its keys.
* `CAsync`'s opening, its sending half and `Watch`; `Open` starts the receive thread before it creates
  the timer that thread uses (`CAsync.cpp:173`).
* `c_mtxr` (`CTdc.cpp:836`) is locked for each frame and not unlocked on the normal way out; only one
  thread takes it, and the error of its second lock is not looked at, so it has no effect.
* Start and end of wm and of the gate. `CGate::Open` announces the queue once; when wm ends with the
  gate open, `mq_send` (`CGate.cpp:121`) waits for ever once the queue is full. `SendContinue` has no
  caller. A push between `OpenPushQueue` and the assignment of `c_pHost` (`CWm.cpp:55`) is dropped:
  that is in the model (`lost`).
* What the messages of the gate hold, and the demands the monitor may send apart from REPTU and a debug
  command. The desktop tool expects `NORM>` (`src/Watcher/Watcher/WatcherDlg.cpp:506`) where tdc sends
  `NORL>` (`CGate.cpp:17`). `c_recvBuf[iLen] = 0` (`CWm.cpp`, `TakeSockReceive`) after a
  whole buffer writes one byte behind it, into memory the model does not have.
* In `Hdlc`: the asynchronous channel, Manchester and the DPLL, baud rates, the address match, the abort
  register (the firmware never writes it), running without FCS, the time-out flag of `RxController.vhd:160`
  and the other status bits. `RxBuffer` hands a frame on at once; a bus that reads slowly loses it to the next
  one (`main/core/RxBuff.vhd:283`).
* In `Hdlc`: a buffer written while `TxBuffer` is in STATE_READ, which is most of a frame's time. Its words
  are not stored, but each write strobe advances the read address (`main/core/TxBuff.vhd:110`, `137-141`), so bytes
  of the frame being sent are skipped, under an FCS that is valid for what is left; and the new
  length takes the place of the one the address is compared with for equality (`main/core/MemMap.vhd:363-368`), so a frame
  may also run on beyond its bytes. It takes the contents of the memory behind the buffer, and the model has only
  the bytes still to be read. `HarmBounded`, `LineReleased` and the theorems say nothing of it.
* UPLOAD, in `up` and in `Pulsate`: compiled out or never queued with `_ONLY_REPORT_`.

Other parts, each with its reason in `PROJECT.json`: the front panel, command-line utilities, Windows
hosts, the earlier generations `by_qnx` and `by_qnx2`, the rest of the VHDL, firmware of test
equipment and the desktop tools.

## 7. Plan

Done: `TodStore` with `TodArchive`, `Download`, `Report`, `Receiver`, `Link` and `Hdlc`, each with its proofs.
Left, in this order:

1. An abstract job of one slot - order, work, result, seen - that both `Download` and, without a
   result, `Report` refine.
2. A composition of `Receiver` and `TodStore`: from bytes on the line to frames in the archive.
3. A proof of the rest of `Transparent`: that the receiver deletes the zeros the sender inserted, bit by bit
   through the registers between them.
4. `Upload` and `Transfer` of up (`CUp.cpp`), for a build that queues the command; the keys of the
   front panel (`CFio.cpp`).
5. The asynchronous channel of the serial controller (`TxAsync.vhd`, `RxAsync.vhd`) beside `Hdlc`, and
   the receive buffer with a bus that reads slowly.
6. Names of files as `dn` and `sm` format and parse them, as a round trip over bounded inputs.
