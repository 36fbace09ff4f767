-------------------------------- MODULE Link --------------------------------
(***************************************************************************)
(* The monitor's link: a monitor talks to wm over TCP, wm passes its        *)
(* demands to tdc, tdc's gate sends its state back through wm.              *)
(*                                                                          *)
(*  - wm's server and client sockets are served by notification threads     *)
(*    (SockHandler), which only queue tags; wm's pump thread takes the tags *)
(*    in order and keeps the one client (TakeSock...).  A socket is armed   *)
(*    for a transition (_NOTIFY_ACTION_TRANARM): what had come before the   *)
(*    arming is not heard.                                                  *)
(*  - The pump pushes LINK and UNLINK into tdc's tag queue; tdc's tag       *)
(*    thread opens and closes the gate (TakeLinkWm, TakeUnlinkWm).          *)
(*  - The gate builds every message in the one c_wmm, for the tag thread    *)
(*    and for the pulse thread (Send), and queues it for wm's watch thread, *)
(*    which sends it to the client of that moment (Watcher).                *)
(*                                                                          *)
(* Calm: both pump threads have the highest priority of what runs beside    *)
(* them, on one processor.  A breach: a monitor that calls before the last  *)
(* one is done with, is heard before its ACCEPT tag is queued, or asks      *)
(* again before it was read.  Monitors are numbered in the order they call. *)
(***************************************************************************)
EXTENDS Integers, Sequences

CONSTANTS
    Calm,         \* TRUE: the priorities hold
    Last,         \* bound: monitors that call
    MaxAsks,      \* bound: demands of all monitors
    MaxBreaches,  \* bound: breaches
    MaxTags,      \* capacity of wm's and of tdc's tag queue, MAX_TAG
    MaxMsg        \* capacity of wm's message queue, MAX_WMMSG

ASSUME LinkAssumption ==
    /\ {Last, MaxAsks, MaxBreaches} \subseteq Nat
    /\ {MaxTags, MaxMsg} \subseteq Nat \ {0} /\ Calm \in BOOLEAN

VARIABLES
    breaches, asks,     \* so far
    peer, text, first,  \* of each monitor: where it is, what it sent and wm has
                        \* not read, the first message it got after a demand
    sock, note,         \* wm's socket of it, and its notification thread
    server,             \* the listening socket's notification thread
    accepting,          \* the monitor whose ACCEPT tag is still to be queued
    wtags,              \* wm's tag queue
    client,             \* c_pClient
    selected,           \* c_bSelectedByMon
    hPush, pHost,       \* c_hPush is valid, c_pHost is set
    lost,               \* TRUE: a push had no host
    wpc, wmsg, wto,     \* wm's watch thread, its message, the client it sends to
    main,               \* tdc's tag queue: "link" and "unlink" for the gate
    bOpen, bIdle,       \* c_bOpen, c_bIdle
    wmm,                \* c_wmm: what its two halves are of
    spc, kind,          \* the gate's two threads, and what they send
    pull                \* wm's message queue

monVars == <<breaches, asks, peer, text, first>>
sockVars == <<sock, note, server, accepting>>
pumpVars == <<client, selected, lost>>
watchVars == <<hPush, pHost, wpc, wmsg, wto>>
gateVars == <<bOpen, bIdle, wmm, spc, kind>>
vars == <<monVars, sockVars, wtags, pumpVars, watchVars, main, gateVars, pull>>

Monitors == 1..Last
Senders == {"tag", "pulse"}
Message(k) == <<k, k>>

(* wm runs, and tdc has just opened its gate (CGate::Open). *)
Init ==
    /\ breaches = 0 /\ asks = 0
    /\ peer = [c \in Monitors |-> "away"] /\ text = [c \in Monitors |-> <<>>]
    /\ first = [c \in Monitors |-> <<>>]
    /\ sock = [c \in Monitors |-> "none"] /\ note = [c \in Monitors |-> "off"]
    /\ server = "armed" /\ accepting = 0 /\ wtags = <<>> /\ client = 0 /\ selected = FALSE /\ lost = FALSE
    /\ hPush = FALSE /\ pHost = FALSE
    /\ wpc = "recv" /\ wmsg = Message("none") /\ wto = 0
    /\ main = <<>> /\ bOpen = FALSE /\ bIdle = FALSE
    /\ wmm = Message("none")
    /\ spc = [t \in Senders |-> "rest"] /\ kind = [t \in Senders |-> "none"]
    /\ pull = <<Message("conts")>>

-----------------------------------------------------------------------------
(* Who may run while a pump thread has work. *)
PumpIdle == wtags = <<>>
TagIdle == main = <<>> /\ (spc["tag"] = "rest" \/ (spc["tag"] = "put" /\ Len(pull) >= MaxMsg))

Allowed(ok) ==
    /\ ok \/ breaches < MaxBreaches
    /\ breaches' = IF ok THEN breaches ELSE breaches + 1

Drained ==
    /\ wtags = <<>> /\ main = <<>> /\ pull = <<>> /\ server = "armed"
    /\ wpc = "recv" /\ \A t \in Senders : spc[t] = "rest"
    /\ \A c \in Monitors : note[c] \in {"off", "armed"} /\ (sock[c] = "open" => peer[c] = "here")

-----------------------------------------------------------------------------
(* A transition starts the thread of an armed socket; one that comes while  *)
(* something is there already may count as one or not.                      *)
Heard(armed, pending, started, still) ==
    \/ armed /\ started
    \/ (armed => pending) /\ still

HeardAt(c) ==
    /\ Heard(note[c] = "armed" /\ sock[c] = "open", text[c] # <<>>,
             note' = [note EXCEPT ![c] = "look"], UNCHANGED note)
    /\ UNCHANGED <<sock, server, accepting>>

Waiting == {c \in Monitors : peer[c] # "away" /\ sock[c] = "none"}

(* The monitors: one calls, *)
CallIn(c) ==
    /\ peer[c] = "away" /\ \A d \in 1..(c - 1) : peer[d] # "away"
    /\ Allowed(/\ Drained /\ hPush /\ pHost
               /\ \A d \in 1..(c - 1) : peer[d] = "gone" /\ sock[d] = "closed")
    /\ peer' = [peer EXCEPT ![c] = "here"]
    /\ Heard(server = "armed", Waiting # {}, server' = "accept", UNCHANGED server)
    /\ UNCHANGED <<asks, text, first, sock, note, accepting, wtags, pumpVars, watchVars,
                   main, gateVars, pull>>

(* asks for the state or sends a debug command, *)
Ask(c, what) ==
    /\ peer[c] = "here" /\ asks < MaxAsks
    /\ Allowed(text[c] = <<>>)
    /\ asks' = asks + 1
    /\ text' = [text EXCEPT ![c] = Append(@, what)]
    /\ HeardAt(c)
    /\ UNCHANGED <<peer, first, wtags, pumpVars, watchVars, main, gateVars, pull>>

(* and goes. *)
Leave(c) ==
    /\ peer[c] = "here"
    /\ peer' = [peer EXCEPT ![c] = "gone"]
    /\ HeardAt(c)
    /\ UNCHANGED <<breaches, asks, text, first, wtags, pumpVars, watchVars, main, gateVars, pull>>

-----------------------------------------------------------------------------
(* CSock::SockHandler and CServer::DoAccept: one call is taken for each     *)
(* notification, the client's socket is armed, its tag is queued,           *)
Accept(c) ==
    /\ Calm => PumpIdle
    /\ server = "accept" /\ c \in Waiting /\ \A d \in 1..(c - 1) : d \notin Waiting
    /\ sock' = [sock EXCEPT ![c] = "open"] /\ note' = [note EXCEPT ![c] = "armed"]
    /\ accepting' = c /\ server' = "rework"
    /\ UNCHANGED <<monVars, wtags, pumpVars, watchVars, main, gateVars, pull>>

SendTag(tag) == Len(wtags) < MaxTags /\ wtags' = Append(wtags, tag)

AcceptTag ==
    /\ accepting # 0 /\ SendTag(<<"accept", accepting>>)
    /\ accepting' = 0
    /\ UNCHANGED <<monVars, sock, note, server, pumpVars, watchVars, main, gateVars, pull>>

(* and the server is armed again. *)
ServerRework ==
    /\ Calm => PumpIdle
    /\ server = "rework" /\ accepting = 0
    /\ server' = "armed"
    /\ UNCHANGED <<monVars, sock, note, accepting, wtags, pumpVars, watchVars, main, gateVars, pull>>

(* The client's thread asks for the length of the input: none is taken for  *)
(* a close, and then the socket is not armed again.                         *)
HandlerLook(c) ==
    /\ Calm => PumpIdle
    /\ note[c] = "look" /\ Allowed(accepting # c)
    /\ IF sock[c] # "open"
         THEN note' = [note EXCEPT ![c] = "off"] /\ UNCHANGED wtags
         ELSE IF text[c] # <<>>
                THEN note' = [note EXCEPT ![c] = "rework"] /\ SendTag(<<"recv", 0>>)
                ELSE note' = [note EXCEPT ![c] = "off"] /\ SendTag(<<"close", 0>>)
    /\ UNCHANGED <<asks, peer, text, first, sock, server, accepting, pumpVars, watchVars,
                   main, gateVars, pull>>

(* Mutant: the socket is armed once only. *)
HandlerReworkNot(c) ==
    /\ Calm => PumpIdle
    /\ note[c] = "rework"
    /\ note' = [note EXCEPT ![c] = "off"]
    /\ UNCHANGED <<monVars, sock, server, accepting, wtags, pumpVars, watchVars, main, gateVars, pull>>

(* Mutant: the thread looks again for more. *)
HandlerReworkLooks(c) ==
    /\ Calm => PumpIdle
    /\ note[c] = "rework"
    /\ note' = [note EXCEPT ![c] = IF sock[c] = "open" THEN "look" ELSE "off"]
    /\ UNCHANGED <<monVars, sock, server, accepting, wtags, pumpVars, watchVars, main, gateVars, pull>>

HandlerRework(c) ==
    /\ Calm => PumpIdle
    /\ note[c] = "rework"
    /\ note' = [note EXCEPT ![c] = IF sock[c] = "open" THEN "armed" ELSE "off"]
    /\ UNCHANGED <<monVars, sock, server, accepting, wtags, pumpVars, watchVars, main, gateVars, pull>>

-----------------------------------------------------------------------------
(* wm's pump thread.  A push without a host is dropped by tdc's pump.  *)
PushQueue(tag) ==
    IF hPush /\ pHost
    THEN Len(main) < MaxTags /\ main' = Append(main, tag) /\ UNCHANGED lost
    ELSE UNCHANGED main /\ lost' = (lost \/ hPush)

Closed(c) == IF c = 0 THEN sock ELSE [sock EXCEPT ![c] = "closed"]

TakeSockAccept ==
    /\ wtags # <<>> /\ Head(wtags)[1] = "accept"
    /\ wtags' = Tail(wtags)
    /\ sock' = Closed(client)
    /\ client' = Head(wtags)[2]
    /\ UNCHANGED <<monVars, note, server, accepting, selected, lost, watchVars, main, gateVars, pull>>

(* One read takes all that has come; only a demand that stands alone is     *)
(* known, a debug command is known by its beginning.                        *)
TakeSockReceive ==
    /\ wtags # <<>> /\ Head(wtags)[1] = "recv"
    /\ wtags' = Tail(wtags)
    /\ IF client = 0 THEN UNCHANGED <<text, selected, lost, main>>
       ELSE /\ text' = [text EXCEPT ![client] = <<>>]
            /\ IF text[client] = <<"REPTU">>
                 THEN PushQueue("link") /\ selected' = hPush
                 ELSE /\ UNCHANGED selected
                      /\ IF text[client] # <<>> /\ Head(text[client]) = "FRXBP"
                           THEN PushQueue("debug") ELSE UNCHANGED <<lost, main>>
    /\ UNCHANGED <<breaches, asks, peer, first, sockVars, client, watchVars, gateVars, pull>>

(* Mutant: selected is taken back before it is looked at. *)
TakeSockCloseForgets ==
    /\ wtags # <<>> /\ Head(wtags)[1] = "close"
    /\ wtags' = Tail(wtags)
    /\ sock' = Closed(client) /\ client' = 0
    /\ selected' = (selected /\ client = 0)
    /\ UNCHANGED <<monVars, note, server, accepting, lost, watchVars, main, gateVars, pull>>

TakeSockClose ==
    /\ wtags # <<>> /\ Head(wtags)[1] = "close"
    /\ wtags' = Tail(wtags)
    /\ IF client = 0 THEN UNCHANGED <<sock, pumpVars, main>>
       ELSE /\ sock' = Closed(client) /\ client' = 0
            /\ selected' = FALSE
            /\ IF selected THEN PushQueue("unlink") ELSE UNCHANGED <<lost, main>>
    /\ UNCHANGED <<monVars, note, server, accepting, watchVars, gateVars, pull>>

Pump == TakeSockAccept \/ TakeSockReceive \/ TakeSockClose

-----------------------------------------------------------------------------
(* Mutant: the thread ends with the client. *)
WatchReceiveEnds ==
    /\ wpc = "recv" /\ pull # <<>>
    /\ pull' = Tail(pull)
    /\ IF Head(pull) = Message("conts")
         THEN hPush' = TRUE /\ wpc' = "host" /\ UNCHANGED <<wmsg, wto>>
         ELSE /\ wto' = client /\ UNCHANGED hPush
              /\ IF client = 0
                   THEN wpc' = "ended" /\ UNCHANGED wmsg
                   ELSE wpc' = "send" /\ wmsg' = Head(pull)
    /\ UNCHANGED <<monVars, sockVars, wtags, pumpVars, pHost, main, gateVars>>

(* wm's watch thread: CWm::Watcher. *)
WatchReceive ==
    /\ wpc = "recv" /\ pull # <<>>
    /\ pull' = Tail(pull)
    /\ IF Head(pull) = Message("conts")
         THEN hPush' = TRUE /\ wpc' = "host" /\ UNCHANGED <<wmsg, wto>>
         ELSE /\ wto' = client /\ UNCHANGED hPush
              /\ IF client = 0
                   THEN UNCHANGED <<wpc, wmsg>>
                   ELSE wpc' = "send" /\ wmsg' = Head(pull)
    /\ UNCHANGED <<monVars, sockVars, wtags, pumpVars, pHost, main, gateVars>>

WatchHost ==
    /\ wpc = "host"
    /\ pHost' = TRUE /\ wpc' = "recv"
    /\ UNCHANGED <<monVars, sockVars, wtags, pumpVars, hPush, wmsg, wto, main, gateVars, pull>>

(* A client closed meanwhile sends nothing. *)
WatchSend ==
    /\ wpc = "send"
    /\ first' = IF sock[wto] = "open" /\ first[wto] = <<>> THEN [first EXCEPT ![wto] = wmsg] ELSE first
    /\ wpc' = "recv" /\ wto' = 0 /\ wmsg' = Message("none")
    /\ UNCHANGED <<breaches, asks, peer, text, sockVars, wtags, pumpVars, hPush, pHost,
                   main, gateVars, pull>>

Watcher == WatchReceive \/ WatchHost \/ WatchSend

-----------------------------------------------------------------------------
(* Mutant: the gate is opened before it is asked whether it was. *)
TakeLinkWmOpened ==
    /\ spc["tag"] = "rest" /\ main # <<>> /\ Head(main) = "link"
    /\ main' = Tail(main)
    /\ kind' = [kind EXCEPT !["tag"] = "NORL"]
    /\ bOpen' = TRUE
    /\ spc' = [spc EXCEPT !["tag"] = "look"]
    /\ UNCHANGED <<monVars, sockVars, wtags, pumpVars, watchVars, bIdle, wmm, pull>>

(* tdc's tag thread: TakeLinkWm, TakeUnlinkWm, TakeDebugWm. *)
TakeLinkWm ==
    /\ spc["tag"] = "rest" /\ main # <<>> /\ Head(main) = "link"
    /\ main' = Tail(main)
    /\ kind' = [kind EXCEPT !["tag"] = IF bOpen THEN "NORL" ELSE "INIT"]
    /\ bOpen' = TRUE
    /\ spc' = [spc EXCEPT !["tag"] = "look"]
    /\ UNCHANGED <<monVars, sockVars, wtags, pumpVars, watchVars, bIdle, wmm, pull>>

(* Mutant: the gate stays open. *)
TakeUnlinkWmOpen ==
    /\ spc["tag"] = "rest" /\ main # <<>> /\ Head(main) # "link"
    /\ main' = Tail(main)
    /\ UNCHANGED <<monVars, sockVars, wtags, pumpVars, watchVars, bOpen, bIdle, wmm, spc, kind, pull>>

TakeUnlinkWm ==
    /\ spc["tag"] = "rest" /\ main # <<>> /\ Head(main) # "link"
    /\ main' = Tail(main)
    /\ bOpen' = (Head(main) = "debug" /\ bOpen)
    /\ UNCHANGED <<monVars, sockVars, wtags, pumpVars, watchVars, bIdle, wmm, spc, kind, pull>>

TakeLinked ==
    /\ spc["tag"] = "done"
    /\ bIdle' = TRUE
    /\ spc' = [spc EXCEPT !["tag"] = "rest"]
    /\ UNCHANGED <<monVars, sockVars, wtags, pumpVars, watchVars, main, bOpen, wmm, kind, pull>>

(* The pulse thread, every 500 ms. *)
PulseSend ==
    /\ Calm => TagIdle
    /\ spc["pulse"] = "rest" /\ bOpen
    /\ kind' = [kind EXCEPT !["pulse"] = "NORL"]
    /\ spc' = [spc EXCEPT !["pulse"] = "look"]
    /\ UNCHANGED <<monVars, sockVars, wtags, pumpVars, watchVars, main, bOpen, bIdle, wmm, pull>>

-----------------------------------------------------------------------------
(* CGate::Send of either thread. *)
Runs(t) == t = "pulse" /\ Calm => TagIdle
Goes(t, to) == spc' = [spc EXCEPT ![t] = to]
Returns(t) == Goes(t, IF t = "tag" THEN "done" ELSE "rest") /\ kind' = [kind EXCEPT ![t] = "none"]

(* Mutant: INIT is held back as well. *)
SendLookIdle(t) ==
    /\ Runs(t) /\ spc[t] = "look" /\ wmm' = Message("none")
    /\ \/ ~bIdle /\ Goes(t, "head") /\ UNCHANGED <<bIdle, kind>>
       \/ bIdle /\ Goes(t, "head") /\ bIdle' = FALSE /\ UNCHANGED kind
       \/ bIdle /\ Returns(t) /\ UNCHANGED bIdle
    /\ UNCHANGED <<monVars, sockVars, wtags, pumpVars, watchVars, main, bOpen, pull>>

(* The buffer is cleared; within a second of a link nothing but INIT is     *)
(* sent.                                                                    *)
SendLook(t) ==
    /\ Runs(t) /\ spc[t] = "look" /\ wmm' = Message("none")
    /\ \/ (kind[t] = "INIT" \/ ~bIdle) /\ Goes(t, "head") /\ UNCHANGED <<bIdle, kind>>
       \/ kind[t] # "INIT" /\ bIdle /\ Goes(t, "head") /\ bIdle' = FALSE /\ UNCHANGED kind
       \/ kind[t] # "INIT" /\ bIdle /\ Returns(t) /\ UNCHANGED bIdle
    /\ UNCHANGED <<monVars, sockVars, wtags, pumpVars, watchVars, main, bOpen, pull>>

SendHead(t) ==
    /\ Runs(t) /\ spc[t] = "head"
    /\ wmm' = <<kind[t], "none">>
    /\ Goes(t, "tail")
    /\ UNCHANGED <<monVars, sockVars, wtags, pumpVars, watchVars, main, bOpen, bIdle, kind, pull>>

SendTail(t) ==
    /\ Runs(t) /\ spc[t] = "tail"
    /\ wmm' = <<wmm[1], kind[t]>>
    /\ Goes(t, "put")
    /\ UNCHANGED <<monVars, sockVars, wtags, pumpVars, watchVars, main, bOpen, bIdle, kind, pull>>

SendPut(t) ==
    /\ Runs(t) /\ spc[t] = "put" /\ Len(pull) < MaxMsg
    /\ pull' = Append(pull, wmm)
    /\ Returns(t)
    /\ UNCHANGED <<monVars, sockVars, wtags, pumpVars, watchVars, main, bOpen, bIdle, wmm>>

Send(t) == SendLook(t) \/ SendHead(t) \/ SendTail(t) \/ SendPut(t)

-----------------------------------------------------------------------------
Next ==
    \/ \E c \in Monitors :
         \/ CallIn(c) \/ Leave(c) \/ \E what \in {"REPTU", "FRXBP"} : Ask(c, what)
         \/ Accept(c) \/ HandlerLook(c) \/ HandlerRework(c)
    \/ AcceptTag \/ ServerRework \/ Pump \/ Watcher
    \/ TakeLinkWm \/ TakeUnlinkWm \/ TakeLinked \/ PulseSend
    \/ \E t \in Senders : Send(t)

Spec == Init /\ [][Next]_vars

(* All threads of wm and tdc keep running; monitors need not, nor must the  *)
(* pulse thread ever find the gate open.                                    *)
FairSpec ==
    /\ Spec
    /\ \A c \in Monitors :
         WF_vars(Accept(c)) /\ WF_vars(HandlerLook(c)) /\ WF_vars(HandlerRework(c))
    /\ WF_vars(AcceptTag) /\ WF_vars(ServerRework) /\ WF_vars(Pump) /\ WF_vars(Watcher)
    /\ WF_vars(TakeLinkWm) /\ WF_vars(TakeUnlinkWm) /\ WF_vars(TakeLinked)
    /\ \A t \in Senders : WF_vars(Send(t))

-----------------------------------------------------------------------------
Kinds == {"none", "INIT", "NORL", "conts"}
Messages == Kinds \X Kinds
TypeOK ==
    /\ breaches \in 0..MaxBreaches /\ asks \in 0..MaxAsks
    /\ peer \in [Monitors -> {"away", "here", "gone"}]
    /\ text \in [Monitors -> Seq({"REPTU", "FRXBP"})]
    /\ first \in [Monitors -> Messages \cup {<<>>}]
    /\ sock \in [Monitors -> {"none", "open", "closed"}]
    /\ note \in [Monitors -> {"off", "armed", "look", "rework"}]
    /\ server \in {"armed", "accept", "rework"}
    /\ accepting \in 0..Last /\ client \in 0..Last /\ wto \in 0..Last
    /\ wtags \in Seq({"accept", "recv", "close"} \X (0..Last)) /\ Len(wtags) <= MaxTags
    /\ main \in Seq({"link", "unlink", "debug"}) /\ Len(main) <= MaxTags
    /\ selected \in BOOLEAN /\ lost \in BOOLEAN /\ hPush \in BOOLEAN /\ pHost \in BOOLEAN
    /\ bOpen \in BOOLEAN /\ bIdle \in BOOLEAN
    /\ wpc \in {"recv", "host", "send"} /\ wmsg \in Messages /\ wmm \in Messages
    /\ wpc = "send" => wto # 0
    /\ spc \in [Senders -> {"rest", "look", "head", "tail", "put", "done"}]
    /\ kind \in [Senders -> Kinds]
    /\ pull \in Seq(Messages) /\ Len(pull) <= MaxMsg

(* The gate of tdc is open exactly while wm holds the link for selected,    *)
(* once tdc has taken what wm pushed, whatever the monitors do and in       *)
(* whatever order the notifications come; only a push made while the host   *)
(* was not known yet is forgotten.                                          *)
LinkAgrees == main = <<>> /\ ~lost => bOpen = selected

(* With monitors that call one at a time, an open gate means a monitor that *)
(* is still there and got its INIT message first and whole.                 *)
OpenForMonitor ==
    Drained /\ breaches = 0 /\ bOpen =>
        client # 0 /\ peer[client] = "here" /\ first[client] = Message("INIT")

(* Whatever the pulse thread was doing in the one message buffer, the first *)
(* message a monitor gets is a whole INIT.                                  *)
InitFirst == breaches = 0 => \A c \in Monitors : first[c] \in {<<>>, Message("INIT")}

(* wm never hangs up on a monitor that is still there. *)
KeepsMonitor ==
    [][\A c \in Monitors :
         breaches = 0 /\ sock[c] = "open" /\ sock'[c] = "closed" => peer[c] = "gone"]_vars

(* What a monitor did before its socket was armed. *)
Unheard(c) == note[c] = "armed" /\ sock[c] = "open" /\ (text[c] # <<>> \/ peer[c] = "gone")

(* A monitor that left is let go, and one that asked is served, unless it   *)
(* did so before its socket was armed or armed again: those wm never hears. *)
LetsGo == \A c \in Monitors :
    (peer[c] = "gone" /\ sock[c] = "open") ~> (sock[c] = "closed" \/ Unheard(c) \/ breaches > 0)
Served == \A c \in Monitors :
    text[c] = <<"REPTU">> ~>
        (first[c] # <<>> \/ peer[c] = "gone" \/ Unheard(c) \/ breaches > 0)

(* The gate's threads never stay in mq_send for good. *)
SendReturns == \A t \in Senders : spc[t] = "put" ~> spc[t] # "put"
=============================================================================
