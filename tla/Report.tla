------------------------------- MODULE Report -------------------------------
(***************************************************************************)
(* Reporting to the server: two threads of tdc command up's watch thread.   *)
(*                                                                          *)
(*  - The tag thread copies an accepted frame into the one slot             *)
(*    c_pUtp->todt and, when up is connected and not sending, queues REPORT *)
(*    (TakeReceiveAsync).                                                   *)
(*  - The pulse thread shows the state of the connection and queues CONNECT *)
(*    every 250 pulses while there is none (Pulsate).                       *)
(*  - up copies the slot and sends the copy as a datagram (Report, Send).   *)
(*                                                                          *)
(* Neither the slot nor the queue is locked: a copy of the slot is made in  *)
(* two halves, and TaskCmd is a look at the fill of the queue followed by   *)
(* an mq_send that waits while the queue is full.  Only up writes           *)
(* wRepState.  Frames are numbered in the order they are accepted.          *)
(***************************************************************************)
EXTENDS Integers, Sequences

CONSTANTS
    MaxCmd,     \* capacity of the command queue (MAX_TASKCMD)
    MaxFrames,  \* bound: frames accepted
    MaxEarly,   \* bound: frames accepted before up was done with the one before
    MaxFaults   \* bound: sockets that fail to open, datagrams that fail to leave

ASSUME ReportAssumption ==
    /\ MaxCmd \in Nat \ {0} /\ MaxFrames \in Nat
    /\ MaxEarly \in Nat /\ MaxFaults \in Nat

VARIABLES
    n,          \* frames accepted
    slot,       \* c_pUtp->todt: the frames its two halves are of
    wRepState,  \* flags "connecting", "connected", "sending"
    utq,        \* queued commands
    rpc,        \* tdc's tag thread
    ppc,        \* tdc's pulse thread
    bServer,    \* c_bServer, what the front panel shows: Serv.con or Serv.non
    upc,        \* up's watch thread
    buf,        \* c_cTodBuf
    iSock,      \* c_iSock: "none", "open", or "closed" but still in c_iSock
    sent,       \* datagrams sent
    early,      \* early frames so far
    faults      \* failures so far

tagVars == <<n, slot, rpc, early>>
pulseVars == <<ppc, bServer>>
upVars == <<upc, buf, iSock, sent, faults, wRepState>>
vars == <<tagVars, utq, pulseVars, upVars>>

Frame(i) == [head |-> i, tail |-> i]

Init ==
    /\ n = 0 /\ slot = Frame(0) /\ rpc = "idle"
    /\ utq = <<>>
    /\ ppc = "rest" /\ bServer = FALSE
    /\ upc = "recv" /\ buf = Frame(0) /\ iSock = "none" /\ sent = <<>>
    /\ early = 0 /\ faults = 0 /\ wRepState = {}

-----------------------------------------------------------------------------
(* TaskCmd of either thread: drop the command, or go on to send it, *)
TaskCmd(dropped) == IF Len(utq) < MaxCmd THEN "put" ELSE dropped

(* waiting for room that was there a moment ago. *)
Put(c) == Len(utq) < MaxCmd /\ utq' = Append(utq, c)

-----------------------------------------------------------------------------
(* tdc, tag thread: TakeReceiveAsync. *)
ReportDone ==
    /\ "sending" \notin wRepState
    /\ \A i \in 1..Len(utq) : utq[i] # "report"

AcceptHead ==
    /\ rpc = "idle" /\ n < MaxFrames
    /\ \/ ReportDone /\ UNCHANGED early
       \/ ~ReportDone /\ early < MaxEarly /\ early' = early + 1
    /\ n' = n + 1
    /\ slot' = [slot EXCEPT !.head = n + 1]
    /\ rpc' = "tail"
    /\ UNCHANGED <<utq, pulseVars, upVars>>

AcceptTail ==
    /\ rpc = "tail"
    /\ slot' = [slot EXCEPT !.tail = n]
    /\ rpc' = "test"
    /\ UNCHANGED <<n, early, utq, pulseVars, upVars>>

TestReport ==
    /\ rpc = "test"
    /\ rpc' = IF "connected" \in wRepState /\ "sending" \notin wRepState THEN "ask" ELSE "idle"
    /\ UNCHANGED <<n, slot, early, utq, pulseVars, upVars>>

AskReport ==
    /\ rpc = "ask" /\ rpc' = TaskCmd("idle")
    /\ UNCHANGED <<n, slot, early, utq, pulseVars, upVars>>

PutReport ==
    /\ rpc = "put" /\ Put("report")
    /\ rpc' = "idle"
    /\ UNCHANGED <<n, slot, early, pulseVars, upVars>>

TakeReceiveAsync == AcceptTail \/ TestReport \/ AskReport \/ PutReport

-----------------------------------------------------------------------------
(* tdc, pulse thread: Pulsate, while no download is under way. *)
ShowServer ==
    /\ ppc = "rest"
    /\ bServer' = ("connected" \in wRepState)
    /\ ppc' = "due"
    /\ UNCHANGED <<tagVars, utq, upVars>>

(* The interval has not run out, *)
NotDue ==
    /\ ppc = "due" /\ ppc' = "rest"
    /\ UNCHANGED <<tagVars, utq, bServer, upVars>>

(* or it has. *)
Due ==
    /\ ppc = "due"
    /\ ppc' = IF ~bServer /\ "connecting" \notin wRepState THEN "connect" ELSE "rest"
    /\ UNCHANGED <<tagVars, utq, bServer, upVars>>

AskConnect ==
    /\ ppc = "connect" /\ ppc' = TaskCmd("rest")
    /\ UNCHANGED <<tagVars, utq, bServer, upVars>>

PutConnect ==
    /\ ppc = "put" /\ Put("connect")
    /\ ppc' = "rest"
    /\ UNCHANGED <<tagVars, bServer, upVars>>

Pulsate == ShowServer \/ NotDue \/ Due \/ AskConnect \/ PutConnect

-----------------------------------------------------------------------------
(* up, Watch.  A command that finds its flag up is thrown away. *)
Raised(c) == IF c = "connect" THEN "connecting" ELSE "sending"
Entry(c) == IF c = "connect" THEN "bridge" ELSE "head"

WatchReceive ==
    /\ upc = "recv" /\ utq # <<>>
    /\ utq' = Tail(utq)
    /\ LET c == Head(utq) IN
         /\ upc' = IF Raised(c) \in wRepState THEN "recv" ELSE Entry(c)
         /\ wRepState' = wRepState \cup {Raised(c)}
    /\ UNCHANGED <<tagVars, pulseVars, buf, iSock, sent, faults>>

(* Mutant: a connection is refused once the socket was closed. *)
BridgeRefused ==
    /\ upc = "bridge"
    /\ wRepState' = IF iSock = "closed" THEN wRepState ELSE wRepState \cup {"connected"}
    /\ upc' = "bridged"
    /\ UNCHANGED <<tagVars, utq, pulseVars, buf, iSock, sent, faults>>

(* Bridge always succeeds: a datagram needs no connection. *)
Bridge ==
    /\ upc = "bridge"
    /\ wRepState' = wRepState \cup {"connected"}
    /\ upc' = "bridged"
    /\ UNCHANGED <<tagVars, utq, pulseVars, buf, iSock, sent, faults>>

Bridged ==
    /\ upc = "bridged"
    /\ wRepState' = wRepState \ {"connecting"}
    /\ upc' = "recv"
    /\ UNCHANGED <<tagVars, utq, pulseVars, buf, iSock, sent, faults>>

(* up, Report: the copy of the slot. *)
CopyHead ==
    /\ upc = "head"
    /\ buf' = [buf EXCEPT !.head = slot.head]
    /\ upc' = "tail"
    /\ UNCHANGED <<tagVars, utq, pulseVars, iSock, sent, faults, wRepState>>

CopyTail ==
    /\ upc = "tail"
    /\ buf' = [buf EXCEPT !.tail = slot.tail]
    /\ upc' = IF iSock = "none" THEN "socket" ELSE "sendto"
    /\ UNCHANGED <<tagVars, utq, pulseVars, iSock, sent, faults, wRepState>>

Fails(to) ==
    /\ faults < MaxFaults
    /\ faults' = faults + 1
    /\ upc' = to

(* up, Send: a socket is opened when c_iSock is -1. *)
OpenSocket ==
    /\ upc = "socket"
    /\ \/ upc' = "sendto" /\ iSock' = "open" /\ UNCHANGED faults
       \/ Fails("failed") /\ UNCHANGED iSock
    /\ UNCHANGED <<tagVars, utq, pulseVars, buf, sent, wRepState>>

(* A descriptor that was closed sends nothing. *)
SendTo ==
    /\ upc = "sendto"
    /\ \/ /\ iSock = "open"
          /\ sent' = Append(sent, buf)
          /\ upc' = "sent" /\ UNCHANGED faults
       \/ iSock = "closed" /\ upc' = "failed" /\ UNCHANGED <<sent, faults>>
       \/ Fails("failed") /\ UNCHANGED sent
    /\ UNCHANGED <<tagVars, utq, pulseVars, buf, iSock, wRepState>>

(* After a failure the socket is closed, and c_iSock keeps its number. *)
ReportFailed ==
    /\ upc = "failed"
    /\ wRepState' = wRepState \ {"connected"}
    /\ iSock' = IF iSock = "none" THEN "none" ELSE "closed"
    /\ upc' = "sent"
    /\ UNCHANGED <<tagVars, utq, pulseVars, buf, sent, faults>>

(* Mutants: the number of the flag is used as its mask, *)
ReportedWrongMask ==
    /\ upc = "sent"
    /\ wRepState' = wRepState \ {"connected"}
    /\ upc' = "recv"
    /\ UNCHANGED <<tagVars, utq, pulseVars, buf, iSock, sent, faults>>

(* or the connection ends with the report. *)
ReportedDisconnects ==
    /\ upc = "sent"
    /\ wRepState' = wRepState \ {"connected", "sending"}
    /\ upc' = "recv"
    /\ UNCHANGED <<tagVars, utq, pulseVars, buf, iSock, sent, faults>>

Reported ==
    /\ upc = "sent"
    /\ wRepState' = wRepState \ {"sending"}
    /\ upc' = "recv"
    /\ UNCHANGED <<tagVars, utq, pulseVars, buf, iSock, sent, faults>>

Watch ==
    \/ WatchReceive \/ Bridge \/ Bridged
    \/ CopyHead \/ CopyTail \/ OpenSocket \/ SendTo \/ ReportFailed \/ Reported

-----------------------------------------------------------------------------
Next == AcceptHead \/ TakeReceiveAsync \/ Pulsate \/ Watch

Spec == Init /\ [][Next]_vars

(* All threads keep running, and the interval of 250 pulses runs out again  *)
(* and again: NotDue is not fair, Due is, each time it is reached.          *)
FairSpec ==
    /\ Spec
    /\ WF_vars(TakeReceiveAsync) /\ WF_vars(Watch)
    /\ WF_vars(ShowServer) /\ SF_vars(Due) /\ WF_vars(AskConnect) /\ WF_vars(PutConnect)

-----------------------------------------------------------------------------
Halves == [head : 0..n, tail : 0..n]
Flags == {"connecting", "connected", "sending"}
TypeOK ==
    /\ n \in 0..MaxFrames /\ slot \in Halves
    /\ wRepState \subseteq Flags
    /\ utq \in Seq({"connect", "report"}) /\ Len(utq) <= MaxCmd
    /\ rpc \in {"idle", "tail", "test", "ask", "put"}
    /\ ppc \in {"rest", "due", "connect", "put"} /\ bServer \in BOOLEAN
    /\ upc \in {"recv", "bridge", "bridged", "head", "tail", "socket", "sendto", "failed", "sent"}
    /\ buf \in Halves /\ iSock \in {"none", "open", "closed"}
    /\ sent \in Seq(Halves) /\ early \in 0..MaxEarly /\ faults \in 0..MaxFaults

(* No command finds its flag up: up takes one command at a time and leaves  *)
(* both flags down, so the tests in Watch never throw a command away.       *)
FlagsDown == upc = "recv" => wRepState \subseteq {"connected"}

(* As long as no frame was early and nothing failed, and from the first     *)
(* report on, every frame is reported, once and whole, though the flags the *)
(* tag thread reads, the slot and the queue are three pieces of state no    *)
(* lock keeps together and the pulse thread may go on asking for a          *)
(* connection that is already made.                                         *)
Settled == rpc = "idle" /\ ReportDone
EachReportedOnce ==
    early = 0 /\ faults = 0 /\ Settled =>
        \A i \in 1..Len(sent) : sent[i] = Frame(n - Len(sent) + i)

(* A lost connection is made again in the end, whatever commands the queue  *)
(* has dropped.                                                             *)
Reconnects == "connected" \notin wRepState ~> "connected" \in wRepState

(* tdc's tag thread never stays in mq_send for good, though the pulse       *)
(* thread competes for the same room and no lock is fair.                   *)
SendReturns == rpc = "put" ~> rpc = "idle"

(* While the front panel is told Serv.con, up has a socket it can send on.  *)
ConnectedCanSend == "connected" \in wRepState => iSock # "closed"
=============================================================================
