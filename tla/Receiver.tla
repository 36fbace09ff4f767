------------------------------ MODULE Receiver ------------------------------
(***************************************************************************)
(* One serial channel of tdc, from the line to the accepted frame.          *)
(*                                                                          *)
(*  - CAsync's receive thread appends what the driver has to one buffer and *)
(*    starts the settler, a CTimer of 100 ms, again after every read.       *)
(*  - The settler's own thread takes the expiry for the end of a frame: it  *)
(*    queues a tag with the length and lets the buffer start over (Settle). *)
(*  - tdc's tag thread copies the buffer when it comes to the tag and       *)
(*    accepts the frame, or counts an error (TakeReceiveAsync).             *)
(*  - tdc's pulse thread counts the time since the last frame (Pulsate).    *)
(*                                                                          *)
(* Receive and timer thread share the buffer's write index and both call    *)
(* Trigger and Release of the one timer; no lock covers a whole call.  The  *)
(* code relies on time instead: a frame comes without gaps of 100 ms, and   *)
(* the next one when all work on it is done.  A hiccup is a breach of       *)
(* that: the timer expires under a frame, or again before its thread is     *)
(* done with the last expiry, or a frame comes early.                       *)
(***************************************************************************)
EXTENDS Integers, Sequences, FiniteSets

CONSTANTS
    F,            \* bytes of a frame, sizeof(_TODF) = 1412
    Size,         \* bytes of the buffer, SIZE_GENSBUF = 2048
    MaxTags,      \* capacity of the tag queue, MAX_TAG
    MaxInterval,  \* MAX_RECVINTERVAL
    MaxFrames,    \* bound: frames sent
    MaxBroken,    \* bound: frames that do not come whole
    MaxHiccups    \* bound: hiccups

ASSUME ReceiverAssumption ==
    /\ F \in Nat \ {0, 1} /\ Size \in Nat /\ F < Size
    /\ MaxTags \in Nat \ {0} /\ MaxInterval \in Nat \ {0}
    /\ {MaxFrames, MaxBroken, MaxHiccups} \subseteq Nat

(* The buffer does not take two frames. *)
ASSUME OneFrameAssumption == Size < 2 * F

VARIABLES
    left,      \* bytes of the present frame still to come
    fifo,      \* bytes in the driver
    n,         \* frames begun
    whole,     \* those of them that come whole and undamaged
    overlong,  \* number of those that are longer than the buffer
    hiccups,   \* hiccups so far
    rpc, base, res,          \* receive thread, index it reads to, bytes read
    cBuf, wi, wLength,       \* c_mag
    stage, on,               \* of each thread's call of Trigger: progress, ms > 0
    armed, bTrig, pulses,    \* the timer: running, c_bTrig, queued pulses
    tpc, hit,                \* timer thread, its copy of c_bTrig
    tags,                    \* lengths queued with TAG_RECEIVEASYNC
    xpc, taken, errs,        \* tag thread, frames accepted, errors counted
    wpc, old, interval, recving, sinks   \* pulse thread, c_wRecvInterval, STATE_RECVING

lineVars == <<left, n, whole, overlong, hiccups>>
magVars == <<cBuf, wi, wLength>>
recvVars == <<rpc, base, res>>
callVars == <<stage, on>>
tagVars == <<xpc, taken, errs>>
dogVars == <<wpc, old, interval, recving, sinks>>
vars == <<lineVars, fifo, recvVars, magVars, callVars, armed, bTrig, pulses,
          tpc, hit, tags, tagVars, dogVars>>

Threads == {"receive", "timer"}
NoByte == [f |-> 0, i |-> 0, ok |-> FALSE]
Bytes == [f : 1..MaxFrames, i : 1..(Size + 1), ok : BOOLEAN]

Init ==
    /\ left = <<>> /\ fifo = <<>> /\ n = 0 /\ whole = {} /\ overlong = 0
    /\ hiccups = 0
    /\ rpc = "select" /\ base = 0 /\ res = 0
    /\ cBuf = [k \in 1..Size |-> NoByte] /\ wi = 0 /\ wLength = 0
    /\ stage = [t \in Threads |-> "no"] /\ on = [t \in Threads |-> FALSE]
    /\ armed = FALSE /\ bTrig = FALSE /\ pulses = 0
    /\ tpc = "recv" /\ hit = FALSE
    /\ tags = <<>> /\ xpc = "idle" /\ taken = <<>> /\ errs = 0
    /\ wpc = "rest" /\ old = 0 /\ interval = 0 /\ recving = FALSE /\ sinks = 0

-----------------------------------------------------------------------------
(* The line. *)
LineQuiet == left = <<>> /\ fifo = <<>> /\ rpc = "select"
Quiet ==
    /\ LineQuiet /\ ~armed /\ pulses = 0 /\ tpc = "recv"
    /\ tags = <<>> /\ xpc = "idle"

(* What breaches the timing the code relies on counts as a hiccup. *)
Timely(inTime) ==
    /\ inTime \/ hiccups < MaxHiccups
    /\ hiccups' = IF inTime THEN hiccups ELSE hiccups + 1

(* A frame comes whole, with a damaged byte, with a byte missing, or with   *)
(* more bytes than the buffer takes.                                        *)
Length(sort) == CASE sort = "short" -> F - 1 [] sort = "long" -> Size + 1 [] OTHER -> F

Begin(sort) ==
    /\ left = <<>> /\ n < MaxFrames
    /\ sort = "whole" \/ n - Cardinality(whole) < MaxBroken
    /\ Timely(Quiet)
    /\ n' = n + 1
    /\ left' = [i \in 1..Length(sort) |-> [f |-> n + 1, i |-> i, ok |-> sort # "damaged" \/ i < F]]
    /\ whole' = IF sort = "whole" THEN whole \cup {n + 1} ELSE whole
    /\ overlong' = IF sort = "long" THEN overlong + 1 ELSE overlong
    /\ UNCHANGED <<fifo, recvVars, magVars, callVars, armed, bTrig, pulses,
                   tpc, hit, tags, tagVars, dogVars>>

Arrive ==
    /\ left # <<>>
    /\ left' = Tail(left) /\ fifo' = Append(fifo, Head(left))
    /\ UNCHANGED <<n, whole, overlong, hiccups, recvVars, magVars, callVars, armed, bTrig,
                   pulses, tpc, hit, tags, tagVars, dogVars>>

-----------------------------------------------------------------------------
(* CTimer::Trigger.  The flag goes down, the timer is set or stopped, the   *)
(* flag goes up or stays down; only the two accesses to the flag are        *)
(* locked.  Release is Trigger(0).                                          *)
Call(t, ms) ==
    /\ stage' = [stage EXCEPT ![t] = "clear"]
    /\ on' = [on EXCEPT ![t] = ms]

Returned(t) == stage[t] = "no"

Trigger(t) ==
    /\ \/ /\ stage[t] = "clear" /\ stage' = [stage EXCEPT ![t] = "set"]
          /\ bTrig' = FALSE /\ UNCHANGED armed
       \/ /\ stage[t] = "set" /\ stage' = [stage EXCEPT ![t] = "raise"]
          /\ armed' = on[t] /\ UNCHANGED bTrig
       \/ /\ stage[t] = "raise" /\ stage' = [stage EXCEPT ![t] = "no"]
          /\ bTrig' = on[t] /\ UNCHANGED armed
    /\ UNCHANGED <<lineVars, fifo, recvVars, magVars, on, pulses, tpc, hit,
                   tags, tagVars, dogVars>>

(* More bytes than the buffer takes: the receive thread is told again and   *)
(* again that there is one, and asks for none.                              *)
Overrun == fifo # <<>> /\ wi = Size /\ (rpc = "select" \/ (rpc = "read" /\ base = Size))

(* The timer is periodic: it goes on until it is stopped, and stopping it   *)
(* does not take back a pulse.  Reads of 0 bytes do not start it again.     *)
Expire ==
    /\ armed
    /\ Timely((LineQuiet \/ Overrun) /\ pulses = 0 /\ tpc = "recv")
    /\ pulses' = pulses + 1
    /\ UNCHANGED <<left, n, whole, overlong, fifo, recvVars, magVars, callVars, armed, bTrig,
                   tpc, hit, tags, tagVars, dogVars>>

-----------------------------------------------------------------------------
(* CAsync::Receive.  The two uses of wi in the call of read need not see    *)
(* the same value, nor need the test and the addition after it.             *)
ReceiveSelect ==
    /\ rpc = "select" /\ fifo # <<>>
    /\ base' = wi /\ rpc' = "read"
    /\ UNCHANGED <<lineVars, fifo, res, magVars, callVars, armed, bTrig, pulses,
                   tpc, hit, tags, tagVars, dogVars>>

Lesser(a, b) == IF a < b THEN a ELSE b

(* What the driver had, up to what the buffer can take.  A read of 0 bytes  *)
(* is tried again.                                                          *)
ReceiveRead ==
    /\ rpc = "read"
    /\ \E from \in {base, wi} :
         LET got == Lesser(Len(fifo), Size - from) IN
           /\ res' = got
           /\ cBuf' = [k \in 1..Size |->
                         IF k > base /\ k <= base + got THEN fifo[k - base] ELSE cBuf[k]]
           /\ fifo' = SubSeq(fifo, got + 1, Len(fifo))
           /\ IF got = 0
                THEN rpc' = "select" /\ UNCHANGED callVars
                ELSE rpc' = "test" /\ Call("receive", FALSE)
    /\ UNCHANGED <<lineVars, base, wi, wLength, armed, bTrig, pulses, tpc, hit,
                   tags, tagVars, dogVars>>

ReceiveTest ==
    /\ rpc = "test" /\ Returned("receive")
    /\ IF wi < Size
         THEN rpc' = "add" /\ base' = wi /\ UNCHANGED wi
         ELSE rpc' = "select" /\ wi' = 0 /\ UNCHANGED base
    /\ UNCHANGED <<lineVars, fifo, res, cBuf, wLength, callVars, armed, bTrig, pulses,
                   tpc, hit, tags, tagVars, dogVars>>

(* Mutant: the timer is started for the first bytes of a frame only. *)
ReceiveAddFirst ==
    /\ rpc = "add"
    /\ \E was \in {base, wi} :
         wi' = was + res /\ IF was = 0 THEN Call("receive", TRUE) ELSE UNCHANGED callVars
    /\ rpc' = "armed" /\ base' = 0 /\ res' = 0
    /\ UNCHANGED <<lineVars, fifo, cBuf, wLength, armed, bTrig, pulses,
                   tpc, hit, tags, tagVars, dogVars>>

(* Mutant: what was asked for is added, not what came. *)
ReceiveAddAsked ==
    /\ rpc = "add"
    /\ wi' = Size
    /\ Call("receive", TRUE)
    /\ rpc' = "armed" /\ base' = 0 /\ res' = 0
    /\ UNCHANGED <<lineVars, fifo, cBuf, wLength, armed, bTrig, pulses,
                   tpc, hit, tags, tagVars, dogVars>>

ReceiveAdd ==
    /\ rpc = "add"
    /\ \E was \in {base, wi} : wi' = was + res
    /\ Call("receive", TRUE)
    /\ rpc' = "armed" /\ base' = 0 /\ res' = 0
    /\ UNCHANGED <<lineVars, fifo, cBuf, wLength, armed, bTrig, pulses,
                   tpc, hit, tags, tagVars, dogVars>>

ReceiveArmed ==
    /\ rpc = "armed" /\ Returned("receive")
    /\ rpc' = "select"
    /\ UNCHANGED <<lineVars, fifo, base, res, magVars, callVars, armed, bTrig, pulses,
                   tpc, hit, tags, tagVars, dogVars>>

Receive == ReceiveSelect \/ ReceiveRead \/ ReceiveTest \/ ReceiveAdd \/ ReceiveArmed

-----------------------------------------------------------------------------
(* Mutant: the flag is read after the release. *)
TimerPulseLate ==
    /\ tpc = "recv" /\ pulses > 0
    /\ pulses' = pulses - 1
    /\ hit' = FALSE
    /\ Call("timer", FALSE)
    /\ tpc' = "released"
    /\ UNCHANGED <<lineVars, fifo, recvVars, magVars, armed, bTrig, tags, tagVars, dogVars>>

(* CTimer::Watcher.  It releases the timer whatever the flag says, *)
TimerPulse ==
    /\ tpc = "recv" /\ pulses > 0
    /\ pulses' = pulses - 1
    /\ hit' = bTrig
    /\ Call("timer", FALSE)
    /\ tpc' = "released"
    /\ UNCHANGED <<lineVars, fifo, recvVars, magVars, armed, bTrig, tags, tagVars, dogVars>>

(* and calls Settle, which releases a timer that was triggered meanwhile. *)
TimerReleased ==
    /\ tpc = "released" /\ Returned("timer")
    /\ tpc' = IF hit THEN "settle" ELSE "recv"
    /\ hit' = FALSE
    /\ IF hit /\ bTrig THEN Call("timer", FALSE) ELSE UNCHANGED callVars
    /\ UNCHANGED <<lineVars, fifo, recvVars, magVars, armed, bTrig, pulses,
                   tags, tagVars, dogVars>>

(* CAsync::Settle *)
SettleLength ==
    /\ tpc = "settle" /\ Returned("timer")
    /\ IF wi > 0 THEN wLength' = wi /\ tpc' = "zero" ELSE tpc' = "recv" /\ UNCHANGED wLength
    /\ UNCHANGED <<lineVars, fifo, recvVars, cBuf, wi, callVars, armed, bTrig, pulses,
                   hit, tags, tagVars, dogVars>>

(* Mutant: the buffer does not start over. *)
SettleZeroKeeps ==
    /\ tpc = "zero"
    /\ tpc' = "send"
    /\ UNCHANGED <<lineVars, fifo, recvVars, magVars, callVars, armed, bTrig, pulses,
                   hit, tags, tagVars, dogVars>>

SettleZero ==
    /\ tpc = "zero"
    /\ wi' = 0 /\ tpc' = "send"
    /\ UNCHANGED <<lineVars, fifo, recvVars, cBuf, wLength, callVars, armed, bTrig, pulses,
                   hit, tags, tagVars, dogVars>>

SettleSend ==
    /\ tpc = "send" /\ Len(tags) < MaxTags
    /\ tags' = Append(tags, wLength)
    /\ tpc' = "recv"
    /\ UNCHANGED <<lineVars, fifo, recvVars, magVars, callVars, armed, bTrig, pulses,
                   hit, tagVars, dogVars>>

Settle == TimerReleased \/ SettleLength \/ SettleZero \/ SettleSend

-----------------------------------------------------------------------------
(* CTdc::TakeReceiveAsync: the length is tested first, *)
TakeTag ==
    /\ xpc = "idle" /\ tags # <<>>
    /\ tags' = Tail(tags)
    /\ IF Head(tags) = F
         THEN xpc' = "bunch" /\ UNCHANGED errs
         ELSE xpc' = "idle" /\ errs' = errs + 1
    /\ UNCHANGED <<lineVars, fifo, recvVars, magVars, callVars, armed, bTrig, pulses,
                   tpc, hit, taken, dogVars>>

(* then the control characters and the check bytes of what the buffer now holds. *)
Intact(f) == \A k \in 1..F : cBuf[k] = [f |-> f, i |-> k, ok |-> TRUE]

Bunch ==
    /\ xpc = "bunch"
    /\ IF Intact(cBuf[1].f)
         THEN taken' = Append(taken, cBuf[1].f) /\ xpc' = "state" /\ UNCHANGED errs
         ELSE errs' = errs + 1 /\ xpc' = "idle" /\ UNCHANGED taken
    /\ UNCHANGED <<lineVars, fifo, recvVars, magVars, callVars, armed, bTrig, pulses,
                   tpc, hit, tags, dogVars>>

AcceptState ==
    /\ xpc = "state"
    /\ xpc' = IF recving THEN "interval" ELSE "recving"
    /\ UNCHANGED <<lineVars, fifo, recvVars, magVars, callVars, armed, bTrig, pulses,
                   tpc, hit, tags, taken, errs, dogVars>>

AcceptRecving ==
    /\ xpc = "recving"
    /\ recving' = TRUE /\ xpc' = "interval"
    /\ UNCHANGED <<lineVars, fifo, recvVars, magVars, callVars, armed, bTrig, pulses,
                   tpc, hit, tags, taken, errs, wpc, old, interval, sinks>>

AcceptInterval ==
    /\ xpc = "interval"
    /\ interval' = 0 /\ xpc' = "idle"
    /\ UNCHANGED <<lineVars, fifo, recvVars, magVars, callVars, armed, bTrig, pulses,
                   tpc, hit, tags, taken, errs, wpc, old, recving, sinks>>

TakeReceiveAsync == TakeTag \/ Bunch \/ AcceptState \/ AcceptRecving \/ AcceptInterval

-----------------------------------------------------------------------------
(* CTdc::Pulsate, every 100 ms: the silence is counted, *)
Tick ==
    /\ wpc = "rest" /\ recving
    /\ old' = interval /\ wpc' = "count"
    /\ UNCHANGED <<lineVars, fifo, recvVars, magVars, callVars, armed, bTrig, pulses,
                   tpc, hit, tags, tagVars, interval, recving, sinks>>

(* Mutant: the count stands still. *)
TickCountStill ==
    /\ wpc = "count"
    /\ interval' = old /\ old' = 0
    /\ wpc' = IF old + 1 >= MaxInterval THEN "zero" ELSE "rest"
    /\ UNCHANGED <<lineVars, fifo, recvVars, magVars, callVars, armed, bTrig, pulses,
                   tpc, hit, tags, tagVars, recving, sinks>>

TickCount ==
    /\ wpc = "count"
    /\ interval' = old + 1 /\ old' = 0
    /\ wpc' = IF old + 1 >= MaxInterval THEN "zero" ELSE "rest"
    /\ UNCHANGED <<lineVars, fifo, recvVars, magVars, callVars, armed, bTrig, pulses,
                   tpc, hit, tags, tagVars, recving, sinks>>

TickZero ==
    /\ wpc = "zero"
    /\ interval' = 0 /\ wpc' = "sink"
    /\ UNCHANGED <<lineVars, fifo, recvVars, magVars, callVars, armed, bTrig, pulses,
                   tpc, hit, tags, tagVars, old, recving, sinks>>

(* Mutant: the state is not taken back. *)
TickSinkKeeps ==
    /\ wpc = "sink"
    /\ sinks' = sinks + 1 /\ wpc' = "rest"
    /\ UNCHANGED <<lineVars, fifo, recvVars, magVars, callVars, armed, bTrig, pulses,
                   tpc, hit, tags, tagVars, old, interval, recving>>

(* and reported when it lasts. *)
TickSink ==
    /\ wpc = "sink"
    /\ recving' = FALSE /\ sinks' = sinks + 1 /\ wpc' = "rest"
    /\ UNCHANGED <<lineVars, fifo, recvVars, magVars, callVars, armed, bTrig, pulses,
                   tpc, hit, tags, tagVars, old, interval>>

Watchdog == Tick \/ TickCount \/ TickZero \/ TickSink

-----------------------------------------------------------------------------
Sorts == {"whole", "damaged", "short", "long"}
Next ==
    \/ \E sort \in Sorts : Begin(sort)
    \/ Arrive \/ Expire
    \/ Receive \/ TimerPulse \/ Settle
    \/ \E t \in Threads : Trigger(t)
    \/ TakeReceiveAsync
    \/ Watchdog

Spec == Init /\ [][Next]_vars

(* All threads keep running, the timer expires, and a frame that has begun  *)
(* comes to its end.                                                        *)
FairSpec ==
    /\ Spec
    /\ WF_vars(Arrive) /\ WF_vars(Expire) /\ WF_vars(Receive)
    /\ WF_vars(TimerPulse) /\ WF_vars(Settle)
    /\ \A t \in Threads : WF_vars(Trigger(t))
    /\ WF_vars(TakeReceiveAsync) /\ WF_vars(Watchdog)

-----------------------------------------------------------------------------
TypeOK ==
    /\ left \in Seq(Bytes) /\ fifo \in Seq(Bytes)
    /\ n \in 0..MaxFrames /\ whole \subseteq 1..MaxFrames
    /\ overlong \in 0..n /\ hiccups \in 0..MaxHiccups
    /\ rpc \in {"select", "read", "test", "add", "armed"} /\ base \in Nat /\ res \in Nat
    /\ cBuf \in [1..Size -> Bytes \cup {NoByte}] /\ wi \in 0..Size /\ wLength \in 0..Size
    /\ stage \in [Threads -> {"no", "clear", "set", "raise"}]
    /\ on \in [Threads -> BOOLEAN]
    /\ armed \in BOOLEAN /\ bTrig \in BOOLEAN /\ pulses \in Nat
    /\ tpc \in {"recv", "released", "settle", "zero", "send"} /\ hit \in BOOLEAN
    /\ tags \in Seq(1..Size) /\ Len(tags) <= MaxTags
    /\ xpc \in {"idle", "bunch", "state", "recving", "interval"}
    /\ taken \in Seq(1..MaxFrames) /\ errs \in Nat
    /\ wpc \in {"rest", "count", "zero", "sink"}
    /\ old \in 0..(MaxInterval - 1) /\ interval \in 0..MaxInterval
    /\ recving \in BOOLEAN /\ sinks \in Nat

(* While the timing holds, every frame that came whole has been accepted,   *)
(* once and in order, by the time the channel is quiet, and every other     *)
(* frame has counted as one error, one that the buffer does not take as two *)
(* (it is handed over in two parts).                                        *)
Accounted ==
    Quiet /\ hiccups = 0 =>
        /\ Len(taken) + errs = n + overlong
        /\ {taken[k] : k \in 1..Len(taken)} = whole
        /\ \A j, k \in 1..Len(taken) : j < k => taken[j] < taken[k]

(* A hiccup costs two frames at most, the one it hits and the next one, if  *)
(* the channel comes to rest with nothing on the line again. It need not: a *)
(* hiccup may leave the buffer to be filled with the timer stopped, and the *)
(* channel stands still for good (Standstill in ReceiverProofs).  In a      *)
(* buffer that takes two frames, a hiccup might leave two of them with the  *)
(* timer stopped, and the next one would be lost with them.                 *)
LossBounded ==
    Quiet => Cardinality({f \in whole : \A k \in 1..Len(taken) : taken[k] # f}) <= 2 * hiccups

(* While the timing holds and no frame is longer than the buffer, a read    *)
(* stays inside it.                                                         *)
ReadInside == rpc = "test" /\ hiccups = 0 /\ overlong = 0 => base + res <= Size

(* A silence is reported once: a second report takes a frame in between. *)
SinkOnce == sinks + (IF recving THEN 1 ELSE 0) <= Len(taken)

(* While the timing holds, what is in the buffer is handed over. *)
BytesSettle == wi > 0 ~> (wi = 0 \/ hiccups > 0)

(* When the line falls silent for good, tdc notices and stays with it. *)
SilenceNoticed == (n = MaxFrames /\ left = <<>>) ~> [](~recving)
=============================================================================
