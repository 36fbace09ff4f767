--------------------------- MODULE ReceiverProofs ---------------------------
(***************************************************************************)
(* Proofs about Receiver: its types and that every index stays inside the   *)
(* buffer, that a silence is reported once, what the timing guarantees,     *)
(* where a channel ends that a breach of it left with a full buffer, and    *)
(* what a breach of it costs in all the other cases.                        *)
(***************************************************************************)
EXTENDS Receiver, TLAPS, SequenceTheorems, FiniteSetTheorems

(* What is read, and what is handed over, fits in the buffer; wi only falls *)
(* under the receive thread's feet.                                         *)
Room ==
    /\ rpc = "read" => wi <= base /\ base <= Size
    /\ rpc \in {"test", "add"} => wi + res <= Size
    /\ rpc = "add" => base + res <= Size
    /\ tpc \in {"zero", "send"} => wLength \in 1..Size

(* Below the limit, the count of the silence is left at less than it. *)
Patience == wpc # "zero" => interval < MaxInterval

TypeInv == TypeOK /\ Room /\ Patience

LEMMA ByteFacts ==
    ASSUME NEW cb \in [1..Size -> Bytes \cup {NoByte}], NEW f, cb[1] = [f |-> f, i |-> 1, ok |-> TRUE]
    PROVE  f \in 1..MaxFrames
PROOF
<1>1. 1 \in 1..Size
  BY ReceiverAssumption
<1> DEFINE b == [f |-> f, i |-> 1, ok |-> TRUE]
<1>4. b.f = f /\ b.ok = TRUE
  OBVIOUS
<1>5. b = cb[1]
  OBVIOUS
<1> HIDE DEF b
<1>2. cb[1] \in Bytes \cup {NoByte} /\ cb[1].f = f /\ cb[1].ok = TRUE
  BY <1>1, <1>4, <1>5
<1>3. cb[1] # NoByte
  BY <1>2 DEF NoByte
<1> QED
  BY <1>2, <1>3 DEF Bytes

(* A read fits, whichever of the two values of wi it counted with. *)
LEMMA ReadFits ==
    ASSUME TypeOK, Room, rpc = "read", NEW from \in {base, wi}, NEW got, got = Lesser(Len(fifo), Size - from)
    PROVE  got \in Nat /\ got <= Len(fifo) /\ wi + got <= Size
PROOF
<1>1. Len(fifo) \in Nat /\ Size \in Nat
  BY ReceiverAssumption, LenProperties DEF TypeOK
<1>2. base \in Nat /\ wi \in Nat /\ wi <= base /\ base <= Size /\ wi <= Size
  BY ReceiverAssumption DEF TypeOK, Room
<1>3. Size - from \in Nat /\ Size - from <= Size - wi
  BY <1>1, <1>2
<1> QED
  BY <1>1, <1>2, <1>3 DEF Lesser

LEMMA FrameType ==
    ASSUME NEW sort \in Sorts, n \in Nat, n < MaxFrames
    PROVE  [i \in 1..Length(sort) |-> [f |-> n + 1, i |-> i, ok |-> sort # "damaged" \/ i < F]] \in Seq(Bytes)
PROOF
<1>1. Length(sort) \in Nat /\ Length(sort) <= Size + 1
  BY ReceiverAssumption DEF Length, Sorts
<1>2. \A i \in 1..Length(sort) : [f |-> n + 1, i |-> i, ok |-> sort # "damaged" \/ i < F] \in Bytes
  <2> SUFFICES ASSUME NEW i \in 1..Length(sort)
               PROVE  [f |-> n + 1, i |-> i, ok |-> sort # "damaged" \/ i < F] \in Bytes
    OBVIOUS
  <2>1. n + 1 \in 1..MaxFrames /\ i \in 1..(Size + 1)
    BY <1>1, ReceiverAssumption
  <2>2. (sort # "damaged" \/ i < F) \in BOOLEAN
    OBVIOUS
  <2> QED
    BY <2>1, <2>2 DEF Bytes
<1> QED
  BY <1>1, <1>2, SeqDef

LEMMA TypeStep == TypeInv /\ [Next]_vars => TypeInv'
PROOF
<1> SUFFICES ASSUME TypeInv, [Next]_vars PROVE TypeInv'
  OBVIOUS
<1> USE ReceiverAssumption DEF TypeInv, TypeOK, Room, Patience, Threads, lineVars, magVars, recvVars, callVars, tagVars, dogVars
<1>1. ASSUME NEW sort \in Sorts, Begin(sort) PROVE TypeInv'
  <2>1. left' \in Seq(Bytes) /\ n' \in Nat /\ n' <= MaxFrames
    BY <1>1, FrameType DEF Begin
  <2>2. whole' \subseteq 1..MaxFrames
    BY <1>1 DEF Begin
  <2>3. hiccups' \in Nat /\ hiccups' <= MaxHiccups
    BY <1>1 DEF Begin, Timely
  <2>4. overlong' \in 0..n'
    BY <1>1 DEF Begin
  <2> QED
    BY <1>1, <2>1, <2>2, <2>3, <2>4 DEF Begin
<1>2. CASE Arrive
  <2>1. Head(left) \in Bytes /\ left' \in Seq(Bytes)
    BY <1>2 DEF Arrive
  <2>2. fifo' \in Seq(Bytes)
    BY <1>2, <2>1 DEF Arrive
  <2> QED
    BY <1>2, <2>1, <2>2 DEF Arrive
<1>3. CASE Expire
  BY <1>3 DEF Expire, Timely
<1>4. ASSUME NEW t \in Threads, Trigger(t) PROVE TypeInv'
  <2>1. stage' \in [Threads -> {"no", "clear", "set", "raise"}] /\ armed' \in BOOLEAN /\ bTrig' \in BOOLEAN
    <3>1. CASE stage[t] = "clear"
      BY <1>4, <3>1 DEF Trigger
    <3>2. CASE stage[t] = "set"
      BY <1>4, <3>2 DEF Trigger
    <3>3. CASE stage[t] = "raise"
      BY <1>4, <3>3 DEF Trigger
    <3> QED
      BY <1>4, <3>1, <3>2, <3>3 DEF Trigger
  <2>2. UNCHANGED <<lineVars, fifo, recvVars, magVars, on, pulses, tpc, hit, tags, tagVars, dogVars>>
    BY <1>4 DEF Trigger
  <2> QED
    BY <2>1, <2>2
<1>5. CASE ReceiveSelect
  BY <1>5 DEF ReceiveSelect
<1>6. CASE ReceiveRead
  <2>1. PICK from \in {base, wi} : LET got == Lesser(Len(fifo), Size - from) IN
           /\ res' = got
           /\ cBuf' = [k \in 1..Size |->
                         IF k > base /\ k <= base + got THEN fifo[k - base] ELSE cBuf[k]]
           /\ fifo' = SubSeq(fifo, got + 1, Len(fifo))
           /\ IF got = 0
                THEN rpc' = "select" /\ UNCHANGED callVars
                ELSE rpc' = "test" /\ Call("receive", FALSE)
    BY <1>6 DEF ReceiveRead
  <2> DEFINE got == Lesser(Len(fifo), Size - from)
  <2>2. got \in Nat /\ got <= Len(fifo) /\ wi + got <= Size
    BY <1>6, ReadFits DEF ReceiveRead
  <2>3. /\ res' = got /\ fifo' = SubSeq(fifo, got + 1, Len(fifo))
        /\ cBuf' = [k \in 1..Size |->
                      IF k > base /\ k <= base + got THEN fifo[k - base] ELSE cBuf[k]]
        /\ rpc' \in {"select", "test"}
    BY <2>1
  <2>4. stage' \in [Threads -> {"no", "clear", "set", "raise"}] /\ on' \in [Threads -> BOOLEAN]
    BY <2>1 DEF Call
  <2> HIDE DEF got
  <2>5. cBuf' \in [1..Size -> Bytes \cup {NoByte}]
    <3> SUFFICES ASSUME NEW k \in 1..Size, k > base, k <= base + got PROVE fifo[k - base] \in Bytes
      BY <2>3
    <3>1. k - base \in 1..Len(fifo)
      BY <2>2, LenProperties
    <3> QED
      BY <3>1, ElementOfSeq
  <2>6. fifo' \in Seq(Bytes)
    BY <2>2, <2>3, LenProperties, SubSeqProperties
  <2>7. UNCHANGED <<lineVars, base, wi, wLength, armed, bTrig, pulses, tpc, hit, tags, tagVars, dogVars>>
    BY <1>6 DEF ReceiveRead
  <2>8. res' \in Nat /\ wi' + res' <= Size
    BY <2>2, <2>3, <2>7
  <2>9. TypeOK'
    BY <2>3, <2>4, <2>5, <2>6, <2>7, <2>8
  <2> QED
    BY <2>3, <2>7, <2>8, <2>9
<1>7. CASE ReceiveTest
  BY <1>7 DEF ReceiveTest
<1>8. CASE ReceiveAdd
  BY <1>8 DEF ReceiveAdd, Call
<1>9. CASE ReceiveArmed
  BY <1>9 DEF ReceiveArmed
<1>10. CASE TimerPulse
  BY <1>10 DEF TimerPulse, Call
<1>11. CASE TimerReleased
  <2>1. stage' \in [Threads -> {"no", "clear", "set", "raise"}] /\ on' \in [Threads -> BOOLEAN]
    BY <1>11 DEF TimerReleased, Call
  <2>2. tpc' \in {"settle", "recv"}
    BY <1>11 DEF TimerReleased
  <2> QED
    <3>1. hit' \in BOOLEAN /\ UNCHANGED <<lineVars, fifo, recvVars, magVars, armed, bTrig, pulses, tags, tagVars, dogVars>>
      BY <1>11 DEF TimerReleased
    <3> QED
      BY <2>1, <2>2, <3>1
<1>12. CASE SettleLength \/ SettleZero
  <2>1. CASE SettleLength
    BY <2>1 DEF SettleLength
  <2>2. CASE SettleZero
    BY <2>2 DEF SettleZero
  <2> QED
    BY <1>12, <2>1, <2>2
<1>13. CASE SettleSend
  <2>1. tags' \in Seq(1..Size) /\ Len(tags') <= MaxTags
    BY <1>13 DEF SettleSend
  <2> QED
    BY <1>13, <2>1 DEF SettleSend
<1>14. CASE TakeTag
  <2>1. tags' \in Seq(1..Size) /\ Len(tags') <= MaxTags
    BY <1>14 DEF TakeTag
  <2> QED
    BY SMTT(30), <1>14, <2>1 DEF TakeTag
<1>15. CASE Bunch
  <2>1. taken' \in Seq(1..MaxFrames)
    <3>1. CASE Intact(cBuf[1].f)
      <4>1. 1 \in 1..F
        OBVIOUS
      <4>2. cBuf[1].f \in 1..MaxFrames
        BY <3>1, <4>1, ByteFacts DEF Intact
      <4> QED
        <5>1. taken' = Append(taken, cBuf[1].f)
          BY <1>15, <3>1 DEF Bunch
        <5> QED
          BY <5>1, <4>2, AppendProperties
    <3>2. CASE ~Intact(cBuf[1].f)
      BY <1>15, <3>2 DEF Bunch
    <3> QED
      BY <3>1, <3>2
  <2> QED
    BY SMTT(30), <1>15, <2>1 DEF Bunch
<1>16. CASE AcceptState \/ AcceptRecving \/ AcceptInterval
  <2>1. CASE AcceptState
    BY <2>1 DEF AcceptState
  <2>2. CASE AcceptRecving
    BY <2>2 DEF AcceptRecving
  <2>3. CASE AcceptInterval
    BY <2>3 DEF AcceptInterval
  <2> QED
    BY <1>16, <2>1, <2>2, <2>3
<1>17. CASE Tick \/ TickCount
  <2>1. CASE Tick
    BY <2>1 DEF Tick
  <2>2. CASE TickCount
    BY <2>2 DEF TickCount
  <2> QED
    BY <1>17, <2>1, <2>2
<1>18. CASE TickZero \/ TickSink
  <2>1. CASE TickZero
    BY <2>1 DEF TickZero
  <2>2. CASE TickSink
    <3>1. sinks' = sinks + 1 /\ wpc' = "rest" /\ wpc = "sink"
      BY <2>2 DEF TickSink
    <3>3. recving' \in BOOLEAN
      BY <2>2 DEF TickSink
    <3>4. interval < MaxInterval /\ sinks' \in Nat
      BY <3>1
    <3>2. UNCHANGED <<lineVars, fifo, recvVars, magVars, callVars, armed, bTrig, pulses,
                   tpc, hit, tags, tagVars, old, interval>>
      BY <2>2 DEF TickSink
    <3> QED
      BY <3>1, <3>2, <3>3, <3>4
  <2> QED
    BY <1>18, <2>1, <2>2
<1>19. CASE UNCHANGED vars
  BY <1>19 DEF vars
<1> QED
  BY <1>1, <1>2, <1>3, <1>4, <1>5, <1>6, <1>7, <1>8, <1>9, <1>10, <1>11, <1>12, <1>13,
     <1>14, <1>15, <1>16, <1>17, <1>18, <1>19
     DEF Next, Receive, Settle, TakeReceiveAsync, Watchdog

LEMMA StaysTyped == Spec => []TypeInv
PROOF
<1>1. Init => TypeInv
  <2> SUFFICES ASSUME Init PROVE TypeInv
    OBVIOUS
  <2> USE ReceiverAssumption
  <2>1. left \in Seq(Bytes) /\ fifo \in Seq(Bytes) /\ tags \in Seq(1..Size) /\ taken \in Seq(1..MaxFrames) /\ Len(tags) = 0
    BY DEF Init
  <2>2. stage \in [Threads -> {"no", "clear", "set", "raise"}] /\ on \in [Threads -> BOOLEAN]
    BY DEF Init
  <2>3. cBuf \in [1..Size -> Bytes \cup {NoByte}]
    BY DEF Init
  <2>4. 0 \in 0..MaxFrames /\ 0 \in 0..MaxHiccups /\ 0 \in 0..Size /\ 0 \in 0..(MaxInterval - 1) /\ 0 \in 0..MaxInterval /\ 0 < MaxInterval
    OBVIOUS
  <2>5. TypeOK
    <3>1. /\ n = 0 /\ whole = {} /\ overlong = 0 /\ hiccups = 0 /\ rpc = "select" /\ base = 0 /\ res = 0 /\ wi = 0 /\ wLength = 0
          /\ armed \in BOOLEAN /\ bTrig \in BOOLEAN /\ pulses = 0 /\ tpc = "recv" /\ hit \in BOOLEAN /\ xpc = "idle"
          /\ errs = 0 /\ wpc = "rest" /\ old = 0 /\ interval = 0 /\ recving \in BOOLEAN /\ sinks = 0
      BY DEF Init
    <3>2. MaxTags \in Nat
      OBVIOUS
    <3> HIDE ReceiverAssumption
    <3> QED
      BY <2>1, <2>2, <2>3, <2>4, <3>1, <3>2 DEF TypeOK
  <2> QED
    BY <2>4, <2>5 DEF Init, TypeInv, Room, Patience
<1> QED
  BY <1>1, TypeStep, PTL DEF Spec

(* Every variable stays in its domain: above all, wi never leaves the       *)
(* buffer, in whatever order the receive and the timer thread write it, and *)
(* the queue of tags never holds more than its capacity.                    *)
THEOREM TypeCorrect == Spec => []TypeOK
PROOF
<1>1. TypeInv => TypeOK
  BY DEF TypeInv
<1> QED
  BY <1>1, StaysTyped, PTL

-----------------------------------------------------------------------------
(* Each silence that was reported has a frame accepted before it, and one   *)
(* more frame for the state that stands or is about to be set.              *)
Frames(k) == sinks + k <= Len(taken)

SinkInv ==
    /\ Frames(IF recving THEN 1 ELSE 0)
    /\ xpc = "state" => Frames(IF recving THEN 2 ELSE 1)
    /\ xpc = "recving" => ~recving /\ Frames(1)
    /\ wpc # "rest" => recving

LEMMA SinkStep == TypeInv /\ SinkInv /\ [Next]_vars => SinkInv'
PROOF
<1> SUFFICES ASSUME TypeInv, SinkInv, [Next]_vars PROVE SinkInv'
  OBVIOUS
<1> DEFINE same == <<taken, xpc, wpc, recving, sinks>>
<1>1. sinks \in Nat /\ Len(taken) \in Nat /\ taken \in Seq(1..MaxFrames) /\ recving \in BOOLEAN
  BY LenProperties DEF TypeInv, TypeOK
<1>2. ASSUME UNCHANGED same PROVE SinkInv'
  BY <1>2 DEF SinkInv, Frames
<1> USE DEF lineVars, magVars, recvVars, callVars, tagVars, dogVars
<1>3. ASSUME NEW sort \in Sorts, Begin(sort) PROVE SinkInv'
  BY <1>2, <1>3 DEF Begin
<1>4. CASE Arrive \/ Expire
  BY <1>2, <1>4 DEF Arrive, Expire
<1>5. ASSUME NEW t \in Threads, Trigger(t) PROVE SinkInv'
  BY <1>2, <1>5 DEF Trigger
<1>6. CASE Receive
  BY <1>2, <1>6 DEF Receive, ReceiveSelect, ReceiveRead, ReceiveTest, ReceiveAdd, ReceiveArmed
<1>7. CASE TimerPulse \/ Settle
  BY <1>2, <1>7 DEF TimerPulse, Settle, TimerReleased, SettleLength, SettleZero, SettleSend
<1>8. CASE TakeTag
  BY <1>8, <1>1 DEF TakeTag, SinkInv, Frames
<1>9. CASE Bunch
  <2>1. CASE Intact(cBuf[1].f)
    <3>1. taken' = Append(taken, cBuf[1].f) /\ xpc' = "state" /\ UNCHANGED <<wpc, recving, sinks>>
      BY <1>9, <2>1 DEF Bunch
    <3>2. Len(taken') = Len(taken) + 1
      BY <3>1, <1>1 DEF TypeInv, TypeOK
    <3> QED
      BY <3>1, <3>2, <1>1 DEF SinkInv, Frames
  <2>2. CASE ~Intact(cBuf[1].f)
    BY <1>9, <2>2, <1>1 DEF Bunch, SinkInv, Frames
  <2> QED
    BY <2>1, <2>2
<1>10. CASE AcceptState
  BY <1>10, <1>1 DEF AcceptState, SinkInv, Frames
<1>11. CASE AcceptRecving
  BY <1>11, <1>1 DEF AcceptRecving, SinkInv, Frames
<1>12. CASE AcceptInterval
  BY <1>12, <1>1 DEF AcceptInterval, SinkInv, Frames
<1>13. CASE Tick
  BY <1>13, <1>1 DEF Tick, SinkInv, Frames
<1>14. CASE TickCount \/ TickZero
  BY <1>14, <1>1 DEF TickCount, TickZero, SinkInv, Frames
<1>15. CASE TickSink
  BY <1>15, <1>1 DEF TickSink, SinkInv, Frames
<1>16. CASE UNCHANGED vars
  BY <1>2, <1>16 DEF vars
<1> QED
  BY <1>3, <1>4, <1>5, <1>6, <1>7, <1>8, <1>9, <1>10, <1>11, <1>12, <1>13, <1>14, <1>15, <1>16
     DEF Next, TakeReceiveAsync, Watchdog

(* tdc never reports one silence twice: between two reports a frame was     *)
(* accepted, though the tag thread sets STATE_RECVING while the pulse       *)
(* thread may be about to take it back.                                     *)
THEOREM SilenceReportedOnce == Spec => []SinkOnce
PROOF
<1>1. Init => SinkInv
  <2> SUFFICES ASSUME Init PROVE SinkInv
    OBVIOUS
  <2>1. Len(taken) = 0 /\ sinks = 0 /\ recving = FALSE /\ xpc = "idle" /\ wpc = "rest"
    BY DEF Init
  <2> QED
    BY <2>1 DEF SinkInv, Frames
<1>2. TypeInv /\ SinkInv => SinkOnce
  BY DEF SinkInv, Frames, SinkOnce
<1> QED
  BY <1>1, <1>2, StaysTyped, SinkStep, PTL DEF Spec

-----------------------------------------------------------------------------
(* A breach of the timing may fill the buffer with the timer stopped. Then  *)
(* the read of 0 bytes is all that is left to do: nobody starts the timer,  *)
(* which alone could empty the buffer.                                      *)
Standstill ==
    /\ wi = Size /\ (rpc = "select" \/ (rpc = "read" /\ base = Size))
    /\ ~armed /\ pulses = 0 /\ tpc = "recv"
    /\ \A t \in Threads : Returned(t)
    /\ tags = <<>> /\ xpc = "idle"

Deaf == Standstill => UNCHANGED <<taken, errs>>

LEMMA NoRoomNoByte ==
    ASSUME TypeInv, Standstill, ReceiveRead
    PROVE  rpc' = "select" /\ UNCHANGED callVars
PROOF
<1>1. PICK from \in {base, wi} :
        LET got == Lesser(Len(fifo), Size - from) IN
          IF got = 0
            THEN rpc' = "select" /\ UNCHANGED callVars
            ELSE rpc' = "test" /\ Call("receive", FALSE)
  BY DEF ReceiveRead
<1>2. from = Size
  BY DEF Standstill, ReceiveRead
<1>3. Size - from = 0 /\ Len(fifo) \in Nat
  BY <1>2, ReceiverAssumption, LenProperties DEF TypeInv, TypeOK
<1>4. Lesser(Len(fifo), Size - from) = 0
  BY <1>3 DEF Lesser
<1> QED
  BY <1>1, <1>4

LEMMA StillStep == TypeInv /\ Standstill /\ [Next]_vars => Standstill' /\ UNCHANGED <<taken, errs>>
PROOF
<1> SUFFICES ASSUME TypeInv, Standstill, [Next]_vars PROVE Standstill' /\ UNCHANGED <<taken, errs>>
  OBVIOUS
<1>1. CASE \E sort \in Sorts : Begin(sort)
  BY <1>1 DEF Begin, Standstill, Returned, recvVars, magVars, callVars, tagVars
<1>2. CASE Arrive
  BY <1>2 DEF Arrive, Standstill, Returned, recvVars, magVars, callVars, tagVars
<1>3. CASE ReceiveSelect
  BY <1>3 DEF ReceiveSelect, Standstill, Returned, magVars, callVars, tagVars
<1>4. CASE ReceiveRead
  BY <1>4, NoRoomNoByte DEF ReceiveRead, Standstill, Returned, callVars, tagVars
<1>5. CASE Tick \/ TickCount \/ TickZero \/ TickSink
  BY <1>5 DEF Tick, TickCount, TickZero, TickSink, Standstill, Returned, recvVars, magVars, callVars, tagVars
<1>6. CASE UNCHANGED vars
  BY <1>6 DEF vars, Standstill, Returned, recvVars, magVars, callVars, tagVars
<1>7. ~Expire /\ ~TimerPulse /\ ~Settle /\ \A t \in Threads : ~Trigger(t)
  BY DEF Standstill, Returned, Expire, TimerPulse, Settle, TimerReleased, SettleLength, SettleZero, SettleSend, Trigger
<1>8. ~ReceiveTest /\ ~ReceiveAdd /\ ~ReceiveArmed /\ ~TakeReceiveAsync
  BY DEF Standstill, ReceiveTest, ReceiveAdd, ReceiveArmed, TakeReceiveAsync, TakeTag, Bunch, AcceptState,
         AcceptRecving, AcceptInterval
<1> QED
  BY <1>1, <1>2, <1>3, <1>4, <1>5, <1>6, <1>7, <1>8 DEF Next, Receive, Watchdog

(* A channel whose buffer is full while its timer stands and its threads    *)
(* rest never comes out of it: whatever the line sends, it is not read, and *)
(* no frame is accepted or counted as an error any more.                    *)
THEOREM StandsStill == Spec => [](Standstill => []Standstill) /\ [][Deaf]_vars
PROOF
<1>1. Standstill /\ TypeInv /\ [Next]_vars => Standstill'
  BY StillStep
<1>2. TypeInv /\ [Next]_vars => [Deaf]_vars
  BY StillStep DEF Deaf
<1> QED
  BY <1>1, <1>2, StaysTyped, PTL DEF Spec

-----------------------------------------------------------------------------
(* Whatever the timing, a thread is inside Trigger only where it calls it.  *)
Calls ==
    /\ stage["receive"] # "no" => rpc \in {"test", "armed"}
    /\ stage["timer"] # "no" => tpc \in {"released", "settle"} /\ ~on["timer"]
    /\ rpc = "test" => ~on["receive"]
    /\ rpc = "armed" => on["receive"]
    /\ rpc \in {"test", "add"} => res > 0
    /\ rpc = "add" => wi \in {0, base}

(* The bytes that wi does not count yet. *)
Got == IF rpc \in {"test", "add"} THEN res ELSE 0
Rest == Len(left) + Len(fifo) + Got

LEMMA Domains ==
    ASSUME TypeInv
    PROVE  /\ wi \in Nat /\ wi <= Size /\ res \in Nat /\ base \in Nat /\ pulses \in Nat /\ hiccups \in Nat
           /\ n \in Nat /\ errs \in Nat /\ overlong \in Nat /\ Size \in Nat /\ F \in Nat /\ F > 1 /\ F < Size
           /\ stage \in [Threads -> {"no", "clear", "set", "raise"}] /\ on \in [Threads -> BOOLEAN]
           /\ "receive" \in Threads /\ "timer" \in Threads
           /\ armed \in BOOLEAN /\ bTrig \in BOOLEAN /\ hit \in BOOLEAN
           /\ left \in Seq(Bytes) /\ fifo \in Seq(Bytes) /\ taken \in Seq(1..MaxFrames) /\ tags \in Seq(1..Size)
           /\ rpc \in {"select", "read", "test", "add", "armed"}
           /\ tpc \in {"recv", "released", "settle", "zero", "send"}
           /\ rpc = "read" => wi <= base /\ base <= Size
           /\ rpc \in {"test", "add"} => wi + res <= Size
           /\ rpc = "add" => base + res <= Size
PROOF
  BY ReceiverAssumption DEF TypeInv, TypeOK, Room, Threads

LEMMA RestFacts ==
    ASSUME TypeInv
    PROVE  /\ Rest \in Nat /\ Got \in Nat /\ Len(left) \in Nat /\ Len(fifo) \in Nat
           /\ LineQuiet => Rest = 0
           /\ left # <<>> \/ fifo # <<>> => Rest > 0
PROOF
<1>1. Got \in Nat
  BY Domains DEF Got
<1>2. /\ Len(left) \in Nat /\ Len(fifo) \in Nat
      /\ left # <<>> => Len(left) > 0
      /\ fifo # <<>> => Len(fifo) > 0
  BY Domains, LenProperties, EmptySeq
<1>3. LineQuiet => Len(left) = 0 /\ Len(fifo) = 0 /\ Got = 0
  BY DEF LineQuiet, Got
<1> QED
  BY <1>1, <1>2, <1>3 DEF Rest

RestPart == Rest \in Nat /\ (left # <<>> => Rest > 0)

LEMMA RestTyped == TypeInv => RestPart
PROOF
  BY RestFacts DEF RestPart

LEMMA RestNext == ASSUME TypeInv' PROVE Rest' \in Nat /\ (left' # <<>> => Rest' > 0)
PROOF
<1>1. RestPart'
  BY RestTyped, PTL
<1> QED
  BY <1>1 DEF RestPart

(* What the receive thread takes from the driver, and when it takes nothing. *)
Takes(got, from) ==
    /\ res' = got
    /\ cBuf' = [k \in 1..Size |->
                  IF k > base /\ k <= base + got THEN fifo[k - base] ELSE cBuf[k]]
    /\ fifo' = SubSeq(fifo, got + 1, Len(fifo))
    /\ IF got = 0
         THEN rpc' = "select" /\ UNCHANGED callVars
         ELSE rpc' = "test" /\ Call("receive", FALSE)

LEMMA ReadTakes ==
    ASSUME TypeInv, ReceiveRead
    PROVE  \E from \in {base, wi}, got \in Nat :
             /\ got = Lesser(Len(fifo), Size - from)
             /\ Takes(got, from)
             /\ got <= Len(fifo) /\ wi + got <= Size
             /\ Len(fifo') = Len(fifo) - got
             /\ \A k \in 1..Len(fifo') : fifo'[k] = fifo[k + got]
             /\ got = 0 => fifo' = fifo
PROOF
<1>1. PICK from \in {base, wi} : Takes(Lesser(Len(fifo), Size - from), from)
  BY DEF ReceiveRead, Takes
<1> DEFINE got == Lesser(Len(fifo), Size - from)
<1>2. got \in Nat /\ got <= Len(fifo) /\ wi + got <= Size
  BY ReadFits DEF ReceiveRead, TypeInv
<1>3. fifo' = SubSeq(fifo, got + 1, Len(fifo))
  BY <1>1 DEF Takes
<1> HIDE DEF got
<1>4. fifo \in Seq(Bytes) /\ Len(fifo) \in Nat
  BY RestFacts, Domains
<1>5. Len(fifo') = Len(fifo) - got /\ \A k \in 1..Len(fifo') : fifo'[k] = fifo[k + got]
  BY <1>2, <1>3, <1>4, SubSeqProperties
<1>6. got = 0 => fifo' = fifo
  BY <1>3, <1>4
<1> QED
  BY <1>1, <1>2, <1>5, <1>6 DEF got

LEMMA CallsStep == TypeInv /\ Calls /\ [Next]_vars => Calls'
PROOF
<1> SUFFICES ASSUME TypeInv, Calls, [Next]_vars PROVE Calls'
  OBVIOUS
<1> USE Domains DEF Calls, lineVars, magVars, recvVars, callVars, tagVars, dogVars
<1>1. ASSUME UNCHANGED <<rpc, res, base, wi, stage, on, tpc>> PROVE Calls'
  BY <1>1
<1>2. CASE \E sort \in Sorts : Begin(sort)
  BY <1>1, <1>2 DEF Begin
<1>3. CASE Arrive \/ Expire
  BY <1>1, <1>3 DEF Arrive, Expire
<1>4. ASSUME NEW t \in Threads, Trigger(t) PROVE Calls'
  <2>1. UNCHANGED <<rpc, res, base, wi, on, tpc>> /\ stage[t] # "no"
        /\ \A u \in Threads : u # t => stage'[u] = stage[u]
    BY <1>4 DEF Trigger
  <2> QED
    BY <2>1 DEF Threads
<1>5. CASE ReceiveSelect
  BY <1>5 DEF ReceiveSelect
<1>6. CASE ReceiveRead
  <2>1. PICK from \in {base, wi}, got \in Nat : Takes(got, from)
    BY <1>6, ReadTakes
  <2>2. stage["receive"] = "no" /\ UNCHANGED <<base, wi, tpc>>
    BY <1>6 DEF ReceiveRead
  <2>3. CASE got = 0
    BY <2>1, <2>2, <2>3 DEF Takes
  <2>4. CASE got # 0
    <3>1. res' = got /\ got > 0 /\ rpc' = "test"
      BY <2>1, <2>4 DEF Takes
    <3>2. stage' = [stage EXCEPT !["receive"] = "clear"] /\ on' = [on EXCEPT !["receive"] = FALSE]
      BY <2>1, <2>4 DEF Takes, Call
    <3> QED
      BY <2>2, <3>1, <3>2
  <2> QED
    BY <2>3, <2>4
<1>7. CASE ReceiveTest
  BY <1>7 DEF ReceiveTest, Returned
<1>8. CASE ReceiveAdd
  BY <1>8 DEF ReceiveAdd, Call
<1>9. CASE ReceiveArmed
  BY <1>9 DEF ReceiveArmed, Returned
<1>10. CASE TimerPulse
  BY <1>10 DEF TimerPulse, Call
<1>11. CASE TimerReleased
  BY <1>11 DEF TimerReleased, Returned, Call
<1>12. CASE SettleLength \/ SettleZero \/ SettleSend
  BY <1>12 DEF SettleLength, SettleZero, SettleSend, Returned
<1>13. CASE TakeReceiveAsync
  BY <1>1, <1>13 DEF TakeReceiveAsync, TakeTag, Bunch, AcceptState, AcceptRecving, AcceptInterval
<1>14. CASE Watchdog
  BY <1>1, <1>14 DEF Watchdog, Tick, TickCount, TickZero, TickSink
<1>15. CASE UNCHANGED vars
  BY <1>1, <1>15 DEF vars
<1> QED
  BY <1>2, <1>3, <1>4, <1>5, <1>6, <1>7, <1>8, <1>9, <1>10, <1>11, <1>12, <1>13, <1>14, <1>15
     DEF Next, Receive, Settle

(* A byte is counted once, by the addition, or when the buffer starts over. *)
LEMMA RestStep ==
    ASSUME TypeInv, Calls, [Next]_vars, \A sort \in Sorts : ~Begin(sort), ~ReceiveAdd, ~SettleZero
    PROVE  Rest' = Rest /\ wi' = wi
PROOF
<1> USE Domains DEF Calls, lineVars, magVars, recvVars, callVars, tagVars, dogVars
<1>1. ASSUME UNCHANGED <<left, fifo, rpc, res, wi>> PROVE Rest' = Rest /\ wi' = wi
  BY <1>1 DEF Rest, Got
<1>3. CASE Arrive
  <2>1. Len(left') = Len(left) - 1 /\ Len(fifo') = Len(fifo) + 1 /\ UNCHANGED <<rpc, res, wi>>
    BY <1>3 DEF Arrive
  <2> QED
    BY <2>1, RestFacts DEF Rest, Got
<1>4. CASE Expire
  BY <1>1, <1>4 DEF Expire
<1>5. ASSUME NEW t \in Threads, Trigger(t) PROVE Rest' = Rest /\ wi' = wi
  BY <1>1, <1>5 DEF Trigger
<1>6. CASE ReceiveSelect \/ ReceiveArmed
  BY <1>6 DEF ReceiveSelect, ReceiveArmed, Rest, Got
<1>7. CASE ReceiveRead
  <2>1. PICK from \in {base, wi}, got \in Nat : Takes(got, from) /\ Len(fifo') = Len(fifo) - got
    BY <1>7, ReadTakes
  <2>2. Got = 0 /\ UNCHANGED <<left, wi>>
    BY <1>7 DEF ReceiveRead, Got
  <2>3. Got' = got
    BY <2>1 DEF Takes, Got
  <2> QED
    BY <2>1, <2>2, <2>3, RestFacts DEF Rest
<1>8. CASE ReceiveTest
  <2>1. wi < Size
    BY <1>8 DEF ReceiveTest
  <2> QED
    BY <1>8, <2>1 DEF ReceiveTest, Rest, Got
<1>9. CASE TimerPulse \/ TimerReleased \/ SettleLength \/ SettleSend
  BY <1>1, <1>9 DEF TimerPulse, TimerReleased, SettleLength, SettleSend
<1>10. CASE TakeReceiveAsync
  BY <1>1, <1>10 DEF TakeReceiveAsync, TakeTag, Bunch, AcceptState, AcceptRecving, AcceptInterval
<1>11. CASE Watchdog
  BY <1>1, <1>11 DEF Watchdog, Tick, TickCount, TickZero, TickSink
<1>12. CASE UNCHANGED vars
  BY <1>1, <1>12 DEF vars
<1> QED
  BY <1>3, <1>4, <1>5, <1>6, <1>7, <1>8, <1>9, <1>10, <1>11, <1>12 DEF Next, Receive, Settle

LEMMA RestAdd ==
    ASSUME TypeInv, Calls, ReceiveAdd
    PROVE  /\ Rest = Rest' + res /\ res > 0 /\ wi' \in {base + res, wi + res} /\ wi' > 0
           /\ rpc = "add" /\ rpc' = "armed" /\ stage' = [stage EXCEPT !["receive"] = "clear"]
           /\ UNCHANGED <<left, fifo, wLength, armed, bTrig, pulses, tpc, hit>>
PROOF
<1>1. rpc = "add" /\ rpc' = "armed" /\ wi' \in {base + res, wi + res}
      /\ UNCHANGED <<left, fifo, wLength, armed, bTrig, pulses, tpc, hit>>
      /\ stage' = [stage EXCEPT !["receive"] = "clear"]
  BY DEF ReceiveAdd, Call, lineVars
<1>2. res > 0
  BY <1>1 DEF Calls
<1>3. Got = res /\ Got' = 0
  BY <1>1 DEF Got
<1>4. Rest = Rest' + res
  BY <1>1, <1>3, RestFacts, Domains DEF Rest
<1> QED
  BY <1>1, <1>2, <1>4, Domains

-----------------------------------------------------------------------------
(* How the two threads meet at the timer while the timing holds: when all   *)
(* bytes are counted, the timer runs with its flag up as long as there is   *)
(* something in the buffer, but for the moments when a thread is at it; and *)
(* the timer thread is at work only while the receive thread has nothing.   *)
Held == rpc \in {"select", "read"}
Settling == tpc \in {"released", "settle", "zero"}
Single == pulses <= 1 /\ (pulses = 1 => tpc = "recv")

Handshake ==
    /\ Single
    /\ pulses = 1 => LineQuiet /\ wi > 0 /\ bTrig
    /\ Settling => LineQuiet /\ wi > 0
    /\ tpc = "released" =>
         /\ hit
         /\ stage["timer"] # "clear" => ~bTrig
         /\ stage["timer"] \in {"raise", "no"} => ~armed
    /\ tpc \in {"settle", "zero"} => ~armed /\ stage["timer"] = "no"
    /\ tpc = "zero" => wLength = wi
    /\ rpc = "add" => base = wi
    /\ rpc = "armed" =>
         IF wi = 0
           THEN Rest > 0
           ELSE /\ stage["receive"] = "raise" => armed
                /\ stage["receive"] = "no" => armed /\ bTrig
    /\ Held /\ tpc \in {"recv", "send"} /\ pulses = 0 =>
         Rest > 0 \/ ((armed <=> wi > 0) /\ (wi > 0 => bTrig))

(* More bytes than the buffer takes: whatever state the timer is in, the    *)
(* channel does not come to rest before the buffer has started over.        *)
Full == Single /\ wi + Rest > Size

(* The same, but for an addition that has still to write back the old wi.   *)
StaleAdd ==
    /\ rpc = "add" /\ wi = 0 /\ base > 0 /\ base + Rest > Size
    /\ tpc \in {"recv", "send"} /\ pulses = 0

(* When the channel comes to rest from here, its buffer is empty. *)
Closing == Handshake \/ Full \/ StaleAdd

LEMMA ClosedEmpty == ASSUME TypeInv, Closing, Quiet PROVE wi = 0 /\ Handshake
PROOF
<1>1. Rest = 0 /\ rpc = "select"
  BY RestFacts DEF Quiet, LineQuiet
<1>2. ~Full /\ ~StaleAdd
  BY <1>1, Domains DEF Full, StaleAdd
<1> QED
  BY <1>1, <1>2, Domains DEF Closing, Handshake, Held, Quiet

LEMMA InTime == ASSUME TypeInv, NEW t \in BOOLEAN, Timely(t), hiccups' = hiccups PROVE t
PROOF
  BY Domains DEF Timely

(* A frame that begins in time finds the threads at rest. *)
LEMMA BeginMeets ==
    ASSUME TypeInv, TypeInv', Calls, NEW sort \in Sorts, Begin(sort), pulses = 0, rpc = "select",
           tpc \in {"recv", "send"}
    PROVE  Handshake'
PROOF
<1>1. Len(left') > 0
  <2>1. Length(sort) \in Nat /\ Length(sort) > 0
    BY Domains DEF Length, Sorts
  <2> QED
    BY <2>1 DEF Begin
<1>2. left' # <<>>
  BY <1>1
<1>3. Rest' > 0
  BY <1>2, RestNext
<1>4. UNCHANGED <<rpc, base, wi, pulses, tpc, stage>>
  BY DEF Begin, recvVars, magVars, callVars
<1>5. stage["timer"] = "no" /\ stage["receive"] = "no"
  BY DEF Calls
<1> QED
  BY <1>3, <1>4, <1>5 DEF Handshake, Held, Settling, Single

LEMMA HandshakeStep ==
    ASSUME TypeInv, TypeInv', Calls, Handshake, hiccups' = hiccups, [Next]_vars
    PROVE  Handshake' \/ Full'
PROOF
<1> USE DEF Handshake, Held, Settling, Single, LineQuiet
<1>0. Rest \in Nat /\ Rest' \in Nat
  BY RestFacts, RestNext
<1>1. ASSUME NEW sort \in Sorts, Begin(sort) PROVE Handshake'
  <2>1. Quiet
    BY <1>1, InTime DEF Begin, Quiet
  <2> QED
    BY <1>1, <2>1, BeginMeets DEF Quiet
<1> USE Domains DEF lineVars, magVars, recvVars, callVars, tagVars, dogVars
<1>2. CASE Arrive
  <2>1. Rest' = Rest
    BY <1>2, RestStep DEF Next, Arrive, Begin, ReceiveAdd, SettleZero
  <2> QED
    BY <1>2, <2>1 DEF Arrive
<1>3. CASE Expire
  <2>1. armed /\ pulses = 0 /\ tpc = "recv" /\ (LineQuiet \/ Overrun)
    BY <1>3, InTime DEF Expire, Overrun
  <2>2. pulses' = 1 /\ UNCHANGED <<left, fifo, recvVars, magVars, callVars, armed, bTrig, tpc, hit>>
    BY <1>3, <2>1 DEF Expire
  <2>3. CASE LineQuiet
    BY <2>1, <2>2, <2>3, RestFacts
  <2>4. CASE Overrun
    <3>1. Rest > 0 /\ wi = Size /\ UNCHANGED <<wi, Rest>>
      BY <2>2, <2>4, RestFacts DEF Overrun, Rest, Got
    <3>2. wi' = Size /\ Rest' > 0
      BY <3>1
    <3>3. pulses' = 1 /\ tpc' = "recv"
      BY <2>1, <2>2
    <3>4. Full'
      BY <3>2, <3>3, <1>0 DEF Full
    <3> QED
      BY <3>4
  <2> QED
    BY <2>1, <2>3, <2>4
<1>4. CASE Trigger("receive")
  <2>1. rpc \in {"test", "armed"} /\ pulses = 0 /\ tpc \in {"recv", "send"}
    BY <1>4 DEF Trigger, Calls
  <2>2. UNCHANGED <<left, fifo, recvVars, magVars, on, pulses, tpc, hit, Rest>>
    BY <1>4 DEF Trigger, Rest, Got
  <2>3. rpc = "armed" => on["receive"]
    BY DEF Calls
  <2>4. rpc = "armed" => /\ stage'["receive"] = "raise" => armed'
                         /\ stage'["receive"] = "no" /\ wi > 0 => armed' /\ bTrig'
    <3>1. CASE stage["receive"] = "clear"
      BY <1>4, <3>1 DEF Trigger
    <3>2. CASE stage["receive"] = "set"
      BY <1>4, <2>3, <3>2 DEF Trigger
    <3>3. CASE stage["receive"] = "raise"
      BY <1>4, <2>3, <3>3 DEF Trigger
    <3> QED
      BY <1>4, <3>1, <3>2, <3>3 DEF Trigger
  <2> QED
    BY <2>1, <2>2, <2>4
<1>5. CASE Trigger("timer")
  <2>1. tpc = "released" /\ ~on["timer"] /\ stage["receive"] = "no" /\ rpc = "select" /\ pulses = 0
    BY <1>5 DEF Trigger, Calls
  <2>2. UNCHANGED <<left, fifo, recvVars, magVars, on, pulses, tpc, hit, Rest>> /\ stage'["receive"] = "no"
    BY <1>5, <2>1 DEF Trigger, Rest, Got
  <2>3. ~bTrig' /\ (stage'["timer"] \in {"raise", "no"} => ~armed')
    <3>1. CASE stage["timer"] = "clear"
      BY <1>5, <3>1 DEF Trigger
    <3>2. CASE stage["timer"] = "set"
      BY <1>5, <2>1, <3>2 DEF Trigger
    <3>3. CASE stage["timer"] = "raise"
      BY <1>5, <2>1, <3>3 DEF Trigger
    <3> QED
      BY <1>5, <3>1, <3>2, <3>3 DEF Trigger
  <2> QED
    BY <2>1, <2>2, <2>3
<1>6. CASE ReceiveSelect
  <2>1. fifo # <<>> /\ UNCHANGED <<left, fifo, wi, wLength, stage, armed, bTrig, pulses, tpc, hit, res>>
        /\ rpc = "select" /\ rpc' = "read"
    BY <1>6 DEF ReceiveSelect
  <2>2. Rest' = Rest /\ Rest > 0
    BY <2>1, RestFacts DEF Rest, Got
  <2> QED
    BY <2>1, <2>2
<1>7. CASE ReceiveRead
  <2>1. PICK from \in {base, wi}, got \in Nat : Takes(got, from) /\ (got = 0 => fifo' = fifo)
    BY <1>7, ReadTakes
  <2>2. rpc = "read" /\ UNCHANGED <<left, base, wi, wLength, armed, bTrig, pulses, tpc, hit>>
    BY <1>7 DEF ReceiveRead
  <2>3. pulses = 0 /\ tpc \in {"recv", "send"}
    BY <2>2
  <2>4. CASE got = 0
    <3>1. rpc' = "select" /\ UNCHANGED <<stage, on, left, fifo>>
      BY <2>1, <2>2, <2>4 DEF Takes
    <3>2. Rest' = Rest
      BY <2>2, <3>1 DEF Rest, Got
    <3> QED
      BY <2>2, <2>3, <3>1, <3>2
  <2>5. CASE got # 0
    <3>1. rpc' = "test"
      BY <2>1, <2>5 DEF Takes
    <3> QED
      BY <2>2, <2>3, <3>1
  <2> QED
    BY <2>4, <2>5
<1>8. CASE ReceiveTest
  <2>1. wi < Size
    BY <1>8 DEF Calls, ReceiveTest
  <2> QED
    BY <1>8, <2>1, Domains DEF ReceiveTest, Calls
<1>9. CASE ReceiveAdd
  BY <1>9, RestAdd, Domains
<1>10. CASE ReceiveArmed
  <2>1. Rest' = Rest
    BY <1>10 DEF ReceiveArmed, Rest, Got
  <2> QED
    BY <1>10, <2>1 DEF ReceiveArmed, Returned
<1>11. CASE TimerPulse
  <2>1. stage' = [stage EXCEPT !["timer"] = "clear"]
    BY <1>11 DEF TimerPulse, Call
  <2>2. pulses = 1 /\ pulses' = 0 /\ hit' = bTrig /\ tpc' = "released"
    BY <1>11 DEF TimerPulse
  <2> QED
    BY <1>11, <2>1, <2>2 DEF TimerPulse
<1>12. CASE TimerReleased
  BY <1>12 DEF TimerReleased, Returned
<1>13. CASE SettleLength
  BY <1>13 DEF SettleLength
<1>14. CASE SettleZero
  BY <1>14 DEF SettleZero
<1>15. CASE SettleSend
  <2>1. Rest' = Rest
    BY <1>15 DEF SettleSend, Rest, Got
  <2> QED
    BY <1>15, <2>1 DEF SettleSend
<1>16. ASSUME UNCHANGED <<left, fifo, recvVars, magVars, stage, armed, bTrig, pulses, tpc, hit>>
       PROVE  Handshake'
  <2>1. Rest' = Rest
    BY <1>16 DEF Rest, Got
  <2> QED
    BY <1>16, <2>1
<1>17. CASE TakeReceiveAsync
  BY <1>16, <1>17 DEF TakeReceiveAsync, TakeTag, Bunch, AcceptState, AcceptRecving, AcceptInterval
<1>18. CASE Watchdog
  BY <1>16, <1>18 DEF Watchdog, Tick, TickCount, TickZero, TickSink
<1>19. CASE UNCHANGED vars
  BY <1>16, <1>19 DEF vars
<1> QED
  BY <1>1, <1>2, <1>3, <1>4, <1>5, <1>6, <1>7, <1>8, <1>9, <1>10, <1>11, <1>12, <1>13, <1>14,
     <1>15, <1>17, <1>18, <1>19 DEF Next, Receive, Settle, Threads

LEMMA SingleStep ==
    ASSUME TypeInv, Single, hiccups' = hiccups, [Next]_vars
    PROVE  Single'
PROOF
<1> USE Domains DEF Single, lineVars, magVars, recvVars, callVars, tagVars, dogVars
<1>1. ASSUME UNCHANGED <<pulses, tpc>> PROVE Single'
  BY <1>1
<1>2. CASE \E sort \in Sorts : Begin(sort)
  BY <1>1, <1>2 DEF Begin
<1>3. CASE Arrive
  BY <1>1, <1>3 DEF Arrive
<1>4. CASE Expire
  <2>1. pulses = 0 /\ tpc = "recv"
    BY <1>4, InTime DEF Expire
  <2> QED
    BY <1>4, <2>1 DEF Expire
<1>5. ASSUME NEW t \in Threads, Trigger(t) PROVE Single'
  BY <1>1, <1>5 DEF Trigger
<1>6. CASE Receive
  BY <1>1, <1>6 DEF Receive, ReceiveSelect, ReceiveRead, ReceiveTest, ReceiveAdd, ReceiveArmed
<1>7. CASE TimerPulse
  BY <1>7 DEF TimerPulse
<1>8. CASE Settle
  BY <1>8 DEF Settle, TimerReleased, SettleLength, SettleZero, SettleSend
<1>9. CASE TakeReceiveAsync
  BY <1>1, <1>9 DEF TakeReceiveAsync, TakeTag, Bunch, AcceptState, AcceptRecving, AcceptInterval
<1>10. CASE Watchdog
  BY <1>1, <1>10 DEF Watchdog, Tick, TickCount, TickZero, TickSink
<1>11. CASE UNCHANGED vars
  BY <1>1, <1>11 DEF vars
<1> QED
  BY <1>2, <1>3, <1>4, <1>5, <1>6, <1>7, <1>8, <1>9, <1>10, <1>11 DEF Next

(* What is in the buffer and what is to come: only a frame that begins adds *)
(* to it, and only the start over takes from it.                            *)
LEMMA LoadStep ==
    ASSUME TypeInv, TypeInv', Calls, [Next]_vars, ~SettleZero, \A sort \in Sorts : ~Begin(sort)
    PROVE  /\ wi' + Rest' = wi + Rest \/ (rpc = "add" /\ wi = 0 /\ wi' + Rest' = base + Rest)
           /\ Rest' <= Rest
PROOF
<1>1. Rest \in Nat /\ Rest' \in Nat
  BY RestFacts, RestNext
<1>2. CASE ~ReceiveAdd
  BY <1>1, <1>2, RestStep, Domains
<1>3. CASE ReceiveAdd
  <2>1. Rest = Rest' + res /\ wi' \in {base + res, wi + res} /\ rpc = "add"
    BY <1>3, RestAdd
  <2>2. wi \in {0, base} /\ wi \in Nat /\ base \in Nat /\ res \in Nat
    BY <2>1, Domains DEF Calls
  <2>3. \A b, r, s \in Nat : (b + r) + s = b + (s + r) /\ s <= s + r
    OBVIOUS
  <2>4. (base + res) + Rest' = base + Rest /\ (wi + res) + Rest' = wi + Rest /\ Rest' <= Rest
    BY ONLY <2>1, <2>2, <2>3, <1>1, Zenon
  <2> QED
    BY ONLY <2>1, <2>2, <2>4, Zenon
<1> QED
  BY <1>2, <1>3

LEMMA FullStep ==
    ASSUME TypeInv, TypeInv', Calls, Full, hiccups' = hiccups, [Next]_vars
    PROVE  IF SettleZero THEN Handshake' \/ StaleAdd' ELSE Full'
PROOF
<1>1. Single'
  BY SingleStep DEF Full
<1>2. Rest \in Nat /\ Rest' \in Nat /\ wi \in Nat /\ wi <= Size /\ base \in Nat /\ Size \in Nat
  BY RestFacts, RestNext, Domains
<1>3. Rest > 0
  BY <1>2 DEF Full
<1>4. ASSUME NEW sort \in Sorts, Begin(sort) PROVE FALSE
  <2>1. Quiet
    BY <1>4, InTime DEF Begin, Quiet
  <2> QED
    BY <2>1, <1>3, RestFacts DEF Quiet
<1>5. CASE SettleZero
  <2>1. wi' = 0 /\ tpc = "zero" /\ tpc' = "send"
        /\ UNCHANGED <<left, fifo, rpc, base, res, stage, armed, bTrig, pulses>>
    BY <1>5 DEF SettleZero, lineVars, recvVars, callVars
  <2>2. Rest' = Rest
    BY <2>1 DEF Rest, Got
  <2>5. pulses' = 0
    BY <2>1, Domains DEF Full, Single
  <2>3. CASE rpc = "add" /\ base > 0
    <3>1. base + Rest > Size
      BY <2>3, <1>2 DEF Full, Calls
    <3> QED
      BY <1>5, <2>1, <2>2, <2>3, <2>5, <3>1, Domains DEF StaleAdd, Full, Calls
  <2>4. CASE ~(rpc = "add" /\ base > 0)
    <3>1. rpc = "add" => base = 0
      BY <2>4, <1>2
    <3>2. Handshake'
      BY <2>1, <2>2, <2>5, <3>1, <1>1, <1>3 DEF Handshake, Held, Settling
    <3> QED
      BY <1>5, <3>2
  <2> QED
    BY <2>3, <2>4
<1>6. CASE ~SettleZero
  <2>1. wi' + Rest' > Size
    <3>1. wi' + Rest' = wi + Rest \/ (wi = 0 /\ wi' + Rest' = base + Rest)
      BY <1>4, <1>6, LoadStep
    <3>2. wi + Rest > Size
      BY DEF Full
    <3> QED
      BY <3>1, <3>2, <1>2
  <2> QED
    BY <1>1, <1>6, <2>1 DEF Full
<1> QED
  BY <1>5, <1>6

LEMMA StaleStep ==
    ASSUME TypeInv, TypeInv', Calls, StaleAdd, hiccups' = hiccups, [Next]_vars
    PROVE  Closing'
PROOF
<1> USE DEF StaleAdd, lineVars, magVars, recvVars, callVars, tagVars, dogVars
<1>0. /\ Rest \in Nat /\ Rest' \in Nat /\ wi \in Nat /\ base \in Nat /\ Size \in Nat
      /\ res \in Nat /\ pulses \in Nat
  BY RestFacts, RestNext, Domains
<1>1. stage["timer"] = "no" /\ stage["receive"] = "no"
  BY DEF Calls
<1>2. ASSUME NEW sort \in Sorts, Begin(sort) PROVE FALSE
  <2>1. Quiet
    BY <1>2, InTime DEF Begin, Quiet
  <2> QED
    BY <2>1 DEF Quiet, LineQuiet
<1>3. ~Expire
  <2>1. ASSUME Expire PROVE LineQuiet \/ Overrun
    BY <2>1, InTime DEF Expire, LineQuiet, Overrun
  <2> QED
    BY <2>1 DEF LineQuiet, Overrun
<1>4. CASE ReceiveAdd
  <2>1. Rest = Rest' + res /\ res > 0 /\ wi' \in {base + res, wi + res} /\ wi' > 0
        /\ rpc' = "armed" /\ stage' = [stage EXCEPT !["receive"] = "clear"]
        /\ UNCHANGED <<pulses, tpc>>
    BY <1>4, RestAdd
  <2>2. Single'
    BY <2>1 DEF Single
  <2>3. CASE wi' = base + res
    <3>1. wi' + Rest' > Size
      <4>1. base + Rest > Size /\ Rest = Rest' + res /\ wi' = base + res
        BY <2>1, <2>3
      <4>2. \A b, r, s, z \in Nat : b + (s + r) > z => (b + r) + s > z
        OBVIOUS
      <4> QED
        BY ONLY <4>1, <4>2, <1>0, Zenon
    <3> QED
      BY <2>2, <3>1 DEF Closing, Full
  <2>4. CASE wi' = wi + res
    <3>1. stage'["receive"] = "clear"
      BY <2>1, Domains
    <3>2. Handshake'
      BY <2>1, <2>2, <3>1 DEF Handshake, Held, Settling
    <3> QED
      BY <3>2 DEF Closing
  <2> QED
    BY <2>1, <2>3, <2>4
<1>5. CASE ~ReceiveAdd
  <2>0. ~SettleZero /\ ~TimerReleased /\ ~SettleLength /\ ~TimerPulse
    <3>1. ~SettleZero /\ ~TimerReleased /\ ~SettleLength
      BY DEF SettleZero, TimerReleased, SettleLength
    <3>2. ~(pulses > 0)
      BY <1>0
    <3>3. ~TimerPulse
      BY <3>2 DEF TimerPulse
    <3> QED
      BY <3>1, <3>3
  <2>10. \A t \in Threads : ~Trigger(t)
    <3>1. \A t \in Threads : stage[t] = "no"
      BY <1>1 DEF Threads
    <3> QED
      BY <3>1 DEF Trigger
  <2>1. ~SettleZero /\ ~TimerPulse /\ ~TimerReleased /\ ~SettleLength
        /\ \A t \in Threads : ~Trigger(t)
    BY <2>0, <2>10
  <2>2. Rest' = Rest /\ wi' = wi
    BY <1>2, <1>5, <2>1, RestStep
  <2>3. CASE SettleSend
    BY <2>2, <2>3 DEF SettleSend, Closing
  <2>4. ~ReceiveSelect /\ ~ReceiveRead /\ ~ReceiveTest /\ ~ReceiveArmed
    BY DEF ReceiveSelect, ReceiveRead, ReceiveTest, ReceiveArmed
  <2>5. ASSUME UNCHANGED <<rpc, base, tpc, pulses>> PROVE Closing'
    BY <2>2, <2>5 DEF Closing
  <2>6. CASE Arrive
    BY <2>5, <2>6 DEF Arrive
  <2>7. CASE TakeReceiveAsync
    BY <2>5, <2>7 DEF TakeReceiveAsync, TakeTag, Bunch, AcceptState, AcceptRecving, AcceptInterval
  <2>8. CASE Watchdog
    BY <2>5, <2>8 DEF Watchdog, Tick, TickCount, TickZero, TickSink
  <2>9. CASE UNCHANGED vars
    BY <2>5, <2>9 DEF vars
  <2> QED
    BY <1>2, <1>3, <1>5, <2>1, <2>3, <2>4, <2>6, <2>7, <2>8, <2>9 DEF Next, Receive, Settle
<1> QED
  BY <1>4, <1>5

LEMMA ClosingStep ==
    ASSUME TypeInv, TypeInv', Calls, Closing, hiccups' = hiccups, [Next]_vars
    PROVE  Closing'
PROOF
  BY HandshakeStep, FullStep, StaleStep DEF Closing

-----------------------------------------------------------------------------
(* In a stretch without a hiccup the timer expires only when the line is    *)
(* quiet or the buffer is full; the old wi is then never written back.      *)
Timed == pulses > 0 \/ Settling => LineQuiet \/ Overrun
Meeting == (Handshake \/ Full) /\ Timed

LEMMA OverrunReads == ASSUME TypeInv, Overrun, ReceiveRead PROVE Overrun' /\ fifo' = fifo /\ rpc' = "select"
PROOF
<1>1. PICK from \in {base, wi}, got \in Nat :
        got = Lesser(Len(fifo), Size - from) /\ Takes(got, from) /\ (got = 0 => fifo' = fifo)
  BY ReadTakes
<1>2. from = Size /\ rpc = "read" /\ UNCHANGED wi
  BY DEF Overrun, ReceiveRead
<1>3. Size - from = 0 /\ Len(fifo) \in Nat
  BY <1>2, Domains, RestFacts
<1>4. got = 0
  BY <1>1, <1>3 DEF Lesser
<1> QED
  BY <1>1, <1>2, <1>4 DEF Takes, Overrun

LEMMA TimedStep ==
    ASSUME TypeInv, Single, Timed, hiccups' = hiccups, [Next]_vars
    PROVE  Timed'
PROOF
<1> USE Domains DEF Single, Timed, Settling, lineVars, magVars, recvVars, callVars, tagVars, dogVars
<1>1. ASSUME UNCHANGED <<left, fifo, rpc, base, wi, pulses, tpc>> PROVE Timed'
  BY <1>1 DEF LineQuiet, Overrun
<1>2. ASSUME NEW sort \in Sorts, Begin(sort) PROVE Timed'
  <2>1. Quiet
    BY <1>2, InTime DEF Begin, Quiet
  <2> QED
    BY <1>2, <2>1 DEF Begin, Quiet
<1>3. CASE Arrive
  <2>0. Len(fifo') = Len(fifo) + 1
    BY <1>3 DEF Arrive
  <2>1. fifo' # <<>>
    BY <2>0, RestFacts
  <2> QED
    BY <1>3, <2>1 DEF Arrive, LineQuiet, Overrun
<1>4. CASE Expire
  <2>1. LineQuiet \/ Overrun
    BY <1>4, InTime DEF Expire, LineQuiet, Overrun
  <2> QED
    BY <1>4, <2>1 DEF Expire, LineQuiet, Overrun
<1>5. ASSUME NEW t \in Threads, Trigger(t) PROVE Timed'
  BY <1>1, <1>5 DEF Trigger
<1>6. CASE ReceiveSelect
  BY <1>6 DEF ReceiveSelect, LineQuiet, Overrun
<1>7. CASE ReceiveRead
  BY <1>7, OverrunReads DEF ReceiveRead, LineQuiet
<1>8. CASE ReceiveTest \/ ReceiveAdd \/ ReceiveArmed
  BY <1>8 DEF ReceiveTest, ReceiveAdd, ReceiveArmed, LineQuiet, Overrun
<1>9. CASE TimerPulse
  BY <1>9 DEF TimerPulse, LineQuiet, Overrun
<1>10. CASE TimerReleased \/ SettleLength
  BY <1>10 DEF TimerReleased, SettleLength, LineQuiet, Overrun
<1>11. CASE SettleZero \/ SettleSend
  BY <1>11 DEF SettleZero, SettleSend
<1>12. CASE TakeReceiveAsync
  BY <1>1, <1>12 DEF TakeReceiveAsync, TakeTag, Bunch, AcceptState, AcceptRecving, AcceptInterval
<1>13. CASE Watchdog
  BY <1>1, <1>13 DEF Watchdog, Tick, TickCount, TickZero, TickSink
<1>14. CASE UNCHANGED vars
  BY <1>1, <1>14 DEF vars
<1> QED
  BY <1>2, <1>3, <1>4, <1>5, <1>6, <1>7, <1>8, <1>9, <1>10, <1>11, <1>12, <1>13, <1>14
     DEF Next, Receive, Settle

LEMMA MeetingStep ==
    ASSUME TypeInv, TypeInv', Calls, Meeting, hiccups' = hiccups, [Next]_vars
    PROVE  Meeting'
PROOF
<1>1. Timed'
  BY TimedStep DEF Meeting, Handshake, Full
<1>2. CASE Handshake
  BY <1>1, <1>2, HandshakeStep DEF Meeting
<1>3. CASE Full /\ SettleZero
  <2>1. rpc # "add"
    BY <1>3 DEF Meeting, Timed, Settling, SettleZero, LineQuiet, Overrun
  <2>2. rpc' = rpc
    BY <1>3 DEF SettleZero, recvVars
  <2> QED
    BY <1>1, <1>3, <2>1, <2>2, FullStep DEF Meeting, StaleAdd
<1>4. CASE Full /\ ~SettleZero
  BY <1>1, <1>4, FullStep DEF Meeting
<1> QED
  BY <1>2, <1>3, <1>4 DEF Meeting

-----------------------------------------------------------------------------
(* As long as no frame was longer than the buffer, all bytes have room, and *)
(* a read begins with what wi still is.                                     *)
Fits ==
    overlong = 0 =>
        /\ wi + Rest <= Size
        /\ rpc = "read" => wi = base
        /\ rpc = "test" => base + res <= Size

Calm == hiccups = 0 => Meeting /\ Fits

LEMMA HiccupsStay == TypeInv /\ [Next]_vars /\ hiccups' = 0 => hiccups = 0
PROOF
<1> SUFFICES ASSUME TypeInv, [Next]_vars, hiccups' = 0 PROVE hiccups = 0
  OBVIOUS
<1> USE DEF lineVars
<1>1. hiccups \in Nat
  BY DEF TypeInv, TypeOK
<1>2. ASSUME NEW sort \in Sorts, Begin(sort) PROVE hiccups = 0
  BY <1>1, <1>2 DEF Begin, Timely
<1>3. CASE Arrive
  BY <1>3 DEF Arrive
<1>4. CASE Expire
  BY <1>1, <1>4 DEF Expire, Timely
<1>5. ASSUME NEW t \in Threads, Trigger(t) PROVE hiccups = 0
  BY <1>5 DEF Trigger
<1>6. CASE Receive
  BY <1>6 DEF Receive, ReceiveSelect, ReceiveRead, ReceiveTest, ReceiveAdd, ReceiveArmed
<1>7. CASE TimerPulse \/ Settle
  BY <1>7 DEF TimerPulse, Settle, TimerReleased, SettleLength, SettleZero, SettleSend
<1>8. CASE TakeReceiveAsync
  BY <1>8 DEF TakeReceiveAsync, TakeTag, Bunch, AcceptState, AcceptRecving, AcceptInterval
<1>9. CASE Watchdog
  BY <1>9 DEF Watchdog, Tick, TickCount, TickZero, TickSink
<1>10. CASE UNCHANGED vars
  BY <1>10 DEF vars
<1> QED
  BY <1>2, <1>3, <1>4, <1>5, <1>6, <1>7, <1>8, <1>9, <1>10 DEF Next

LEMMA FitsStep ==
    ASSUME TypeInv, TypeInv', Calls, Meeting, Fits, hiccups' = hiccups, [Next]_vars
    PROVE  Fits'
PROOF
<1> USE DEF lineVars, magVars, recvVars, callVars, tagVars, dogVars
<1>0. /\ Rest \in Nat /\ Rest' \in Nat /\ wi \in Nat /\ base \in Nat /\ res \in Nat /\ Size \in Nat
      /\ overlong \in Nat
  BY RestFacts, RestNext, Domains
<1>1. ASSUME NEW sort \in Sorts, Begin(sort) PROVE Fits'
  <2>1. Quiet
    BY <1>1, InTime DEF Begin, Quiet
  <2>2. wi = 0 /\ fifo = <<>> /\ rpc = "select"
    BY <2>1, ClosedEmpty DEF Closing, Meeting, Quiet, LineQuiet
  <2>3. UNCHANGED <<fifo, rpc, wi, base, res>>
    BY <1>1 DEF Begin
  <2>4. CASE sort = "long"
    <3>1. overlong' # 0
      BY <1>0, <1>1, <2>4 DEF Begin
    <3> QED
      BY <3>1 DEF Fits
  <2>5. CASE sort # "long"
    <3>1. Length(sort) \in Nat /\ Length(sort) <= Size
      BY <2>5, Domains DEF Length, Sorts
    <3>2. Len(left') = Length(sort)
      BY <1>1, <3>1 DEF Begin
    <3>3. Len(fifo') = 0 /\ Got' = 0
      BY <2>2, <2>3 DEF Got
    <3>4. wi' + Rest' <= Size
      BY <2>2, <2>3, <3>1, <3>2, <3>3 DEF Rest
    <3> QED
      BY <2>2, <2>3, <3>4 DEF Fits
  <2> QED
    BY <2>4, <2>5
<1>2. ASSUME \A sort \in Sorts : ~Begin(sort), overlong' = 0 PROVE Fits'
  <2>1. overlong' = overlong
    BY <1>2 DEF Next, Arrive, Expire, Receive, ReceiveSelect, ReceiveRead, ReceiveTest, ReceiveAdd, ReceiveArmed,
       TimerPulse, Settle, TimerReleased, SettleLength, SettleZero, SettleSend, Trigger, TakeReceiveAsync,
       TakeTag, Bunch, AcceptState, AcceptRecving, AcceptInterval, Watchdog, Tick, TickCount, TickZero, TickSink, vars
  <2>2. overlong = 0 /\ wi + Rest <= Size /\ (rpc = "read" => wi = base) /\ (rpc = "test" => base + res <= Size)
    BY <1>2, <2>1 DEF Fits
  <2>3. Handshake
    BY <2>2, <1>0 DEF Meeting, Full
  <2>4. wi' + Rest' <= Size
    <3>1. CASE SettleZero
      <4>1. wi' = 0 /\ Rest' = Rest
        BY <3>1 DEF SettleZero, Rest, Got
      <4> QED
        BY <4>1, <2>2, <1>0
    <3>2. CASE ~SettleZero
      BY <1>2, <2>2, <2>3, <3>2, LoadStep DEF Handshake
    <3> QED
      BY <3>1, <3>2
  <2>5. ASSUME UNCHANGED <<rpc, base, res, wi>> PROVE Fits'
    BY <2>2, <2>4, <2>5 DEF Fits
  <2>6. CASE Arrive \/ Expire
    BY <2>5, <2>6 DEF Arrive, Expire
  <2>7. ASSUME NEW t \in Threads, Trigger(t) PROVE Fits'
    BY <2>5, <2>7 DEF Trigger
  <2>8. CASE ReceiveSelect
    BY <2>4, <2>8 DEF ReceiveSelect, Fits
  <2>9. CASE ReceiveRead
    <3>1. PICK from \in {base, wi}, got \in Nat : Takes(got, from) /\ wi + got <= Size
      BY <2>9, ReadTakes
    <3>2. wi = base /\ UNCHANGED <<base, wi>>
      BY <2>2, <2>9 DEF ReceiveRead
    <3>3. res' = got /\ rpc' # "read"
      BY <3>1 DEF Takes
    <3> QED
      BY <2>4, <3>1, <3>2, <3>3 DEF Fits
  <2>10. CASE ReceiveTest \/ ReceiveAdd \/ ReceiveArmed
    BY <2>4, <2>10 DEF ReceiveTest, ReceiveAdd, ReceiveArmed, Fits
  <2>11. CASE TimerPulse \/ TimerReleased \/ SettleLength \/ SettleSend
    BY <2>5, <2>11 DEF TimerPulse, TimerReleased, SettleLength, SettleSend
  <2>12. CASE SettleZero
    BY <2>3, <2>4, <2>12 DEF SettleZero, Handshake, Settling, LineQuiet, Fits
  <2>13. CASE TakeReceiveAsync
    BY <2>5, <2>13 DEF TakeReceiveAsync, TakeTag, Bunch, AcceptState, AcceptRecving, AcceptInterval
  <2>14. CASE Watchdog
    BY <2>5, <2>14 DEF Watchdog, Tick, TickCount, TickZero, TickSink
  <2>15. CASE UNCHANGED vars
    BY <2>5, <2>15 DEF vars
  <2> QED
    BY <1>2, <2>6, <2>7, <2>8, <2>9, <2>10, <2>11, <2>12, <2>13, <2>14, <2>15 DEF Next, Receive, Settle
<1> QED
  BY <1>1, <1>2 DEF Fits

LEMMA CallsInit == Init => Calls /\ Handshake /\ Timed
PROOF
<1>1. ASSUME Init PROVE Rest = 0
  <2>1. Len(left) = 0 /\ Len(fifo) = 0 /\ Got = 0
    BY <1>1 DEF Init, Got
  <2> QED
    BY <2>1 DEF Rest
<1> QED
  BY <1>1 DEF Init, Calls, Handshake, Held, Settling, Single, Timed, LineQuiet, Threads

LEMMA CallsStay == Spec => []Calls
PROOF
<1>1. Init => Calls
  BY CallsInit
<1> QED
  BY <1>1, StaysTyped, CallsStep, PTL DEF Spec

LEMMA CalmStays == Spec => []Calm
PROOF
<1>1. Init => Calm
  <2> SUFFICES ASSUME Init PROVE Calm
    OBVIOUS
  <2>1. Len(left) = 0 /\ Len(fifo) = 0 /\ Got = 0 /\ wi = 0 /\ rpc = "select"
    BY DEF Init, Got
  <2>2. wi + Rest = 0
    BY <2>1 DEF Rest
  <2> QED
    BY <2>1, <2>2, CallsInit, ReceiverAssumption DEF Calm, Meeting, Fits
<1>2. TypeInv /\ TypeInv' /\ Calls /\ Calm /\ [Next]_vars => Calm'
  BY HiccupsStay, MeetingStep, FitsStep DEF Calm
<1> QED
  BY <1>1, <1>2, StaysTyped, CallsStay, PTL DEF Spec

(* As long as no timer expires under a frame and no frame is longer than    *)
(* the buffer, no read of the driver passes the end of the buffer, though   *)
(* its place and its room are loaded from wi one after the other and        *)
(* without a lock.                                                          *)
THEOREM ReadsInside == Spec => []ReadInside
PROOF
<1>1. Calm => ReadInside
  BY DEF Calm, Fits, ReadInside
<1> QED
  BY <1>1, CalmStays, PTL

-----------------------------------------------------------------------------
(* A frame on its way: its bytes in their order over buffer, driver and     *)
(* line, total in all, the last one damaged or not.                         *)
Stored == wi + Got
Byte(k, bad) == [f |-> n, i |-> k, ok |-> ~bad \/ k < F]
Sort(total, bad) ==
    /\ total \in {F - 1, F, Size + 1} /\ bad \in BOOLEAN
    /\ n \in whole <=> total = F /\ ~bad
InOrder(total, bad) ==
    /\ total = Stored + Len(fifo) + Len(left)
    /\ \A k \in 1..Stored : cBuf[k] = Byte(k, bad)
    /\ \A k \in 1..Len(fifo) : fifo[k] = Byte(Stored + k, bad)
    /\ \A k \in 1..Len(left) : left[k] = Byte(Stored + Len(fifo) + k, bad)

OnWay(total, bad) ==
    /\ n > 0 /\ tags = <<>> /\ xpc = "idle" /\ tpc # "send"
    /\ rpc \in {"read", "add"} => base = wi
    /\ tpc = "zero" => wLength = wi
    /\ Sort(total, bad) /\ InOrder(total, bad)

(* The frame in the buffer, from the end of Settle to the test of its bytes. *)
InHand(total, bad) ==
    /\ n > 0 /\ LineQuiet /\ wi = 0 /\ total <= Size
    /\ Sort(total, bad) /\ \A k \in 1..total : cBuf[k] = Byte(k, bad)
    /\ \/ tpc = "send" /\ wLength = total /\ tags = <<>> /\ xpc = "idle"
       \/ tpc = "recv" /\ tags = <<total>> /\ xpc = "idle"
       \/ tpc = "recv" /\ tags = <<>> /\ xpc = "bunch" /\ total = F

Flow(total, bad) == OnWay(total, bad) \/ InHand(total, bad)

(* What becomes of it in the end, and what an overlong one leaves behind.   *)
Rested == LineQuiet /\ wi = 0 /\ tpc = "recv" /\ tags = <<>> /\ xpc # "bunch"
Accepts == n \in whole /\ taken' = Append(taken, n) /\ errs' = errs /\ Rested'
Refuses == n \notin whole /\ taken' = taken /\ errs' = errs + 1 /\ Rested'
Parts ==
    /\ UNCHANGED <<taken, errs>> /\ n \notin whole
    /\ wi' = 0 /\ Rest' = 1 /\ tpc' = "send" /\ wLength' = Size /\ tags' = <<>> /\ xpc' = "idle"

LEMMA FlowFacts ==
    ASSUME TypeInv
    PROVE  /\ Stored \in Nat /\ n \in Nat /\ wi \in Nat /\ res \in Nat /\ Got \in Nat
           /\ Len(fifo) \in Nat /\ Len(left) \in Nat
           /\ left \in Seq(Bytes) /\ fifo \in Seq(Bytes)
           /\ F \in Nat /\ F > 1 /\ Size \in Nat /\ F < Size /\ wi <= Size
           /\ Stored + Len(fifo) + Len(left) = wi + Rest
           /\ Stored <= Size
PROOF
<1>1. Got \in Nat /\ wi + Got <= Size /\ wi \in Nat /\ Len(fifo) \in Nat /\ Len(left) \in Nat
  BY Domains, RestFacts DEF Got
<1>2. Stored \in Nat /\ Stored <= Size /\ Stored + Len(fifo) + Len(left) = wi + Rest
  BY <1>1 DEF Stored, Rest
<1> QED
  BY <1>1, <1>2, Domains

LEMMA OnWayBusy == ASSUME TypeInv, NEW total, NEW bad, OnWay(total, bad) PROVE wi + Rest > 0 /\ wi + Rest = total
PROOF
  BY FlowFacts DEF OnWay, Sort, InOrder

LEMMA OnWayStep ==
    ASSUME TypeInv, TypeInv', Calls, Meeting, hiccups' = hiccups, [Next]_vars,
           NEW total, NEW bad, OnWay(total, bad)
    PROVE  /\ UNCHANGED <<n, whole, overlong>>
           /\ \/ Flow(total, bad)' /\ UNCHANGED <<taken, errs>>
              \/ total = Size + 1 /\ Parts
PROOF
<1> DEFINE frame == <<n, whole, overlong, taken, errs, tags, xpc>>
           Goes == UNCHANGED <<n, whole, overlong>> /\ Flow(total, bad)' /\ UNCHANGED <<taken, errs>>
<1>0. /\ Stored \in Nat /\ n \in Nat /\ wi \in Nat /\ res \in Nat /\ Got \in Nat
      /\ Len(fifo) \in Nat /\ Len(left) \in Nat
      /\ left \in Seq(Bytes) /\ fifo \in Seq(Bytes)
      /\ F \in Nat /\ F > 1 /\ Size \in Nat /\ F < Size /\ wi <= Size
      /\ Stored + Len(fifo) + Len(left) = wi + Rest
      /\ Stored <= Size
  BY FlowFacts
<1>a. /\ n > 0 /\ tags = <<>> /\ xpc = "idle" /\ tpc # "send"
      /\ rpc \in {"read", "add"} => base = wi
      /\ tpc = "zero" => wLength = wi
      /\ Sort(total, bad) /\ InOrder(total, bad)
  BY DEF OnWay
<1>b. ASSUME UNCHANGED frame, UNCHANGED <<left, fifo, cBuf>>, Stored' = Stored, tpc' # "send",
             rpc' \in {"read", "add"} => base' = wi', tpc' = "zero" => wLength' = wi'
      PROVE  Goes
  <2>1. Sort(total, bad)' /\ InOrder(total, bad)'
    BY <1>a, <1>b DEF Sort, InOrder, Byte
  <2> QED
    BY <1>a, <1>b, <2>1 DEF OnWay, Flow
<1>c. ASSUME UNCHANGED <<rpc, base, res, wi, wLength, tpc>>
      PROVE  Stored' = Stored /\ (rpc' \in {"read", "add"} => base' = wi') /\ (tpc' = "zero" => wLength' = wi')
             /\ tpc' # "send"
  BY <1>a, <1>c DEF Stored, Got
<1> USE DEF lineVars, magVars, recvVars, callVars, tagVars, dogVars
<1>1. \A sort \in Sorts : ~Begin(sort)
  <2> SUFFICES ASSUME NEW sort \in Sorts, Begin(sort) PROVE FALSE
    OBVIOUS
  <2>1. Quiet
    BY InTime DEF Begin, Quiet
  <2>2. wi = 0 /\ Rest = 0
    BY <2>1, ClosedEmpty, RestFacts DEF Closing, Meeting, Quiet
  <2> QED
    BY <2>2, OnWayBusy
<1>2. CASE Arrive
  <2>1. left # <<>> /\ fifo' = Append(fifo, Head(left)) /\ left' = Tail(left)
    BY <1>2 DEF Arrive
  <2>2. UNCHANGED frame /\ UNCHANGED <<rpc, base, res, wi, wLength, cBuf, tpc>> /\ Stored' = Stored
    BY <1>2 DEF Arrive, Stored, Got
  <2>5. Sort(total, bad)'
    BY <1>a, <2>2 DEF Sort
  <2>6. InOrder(total, bad)'
    <3>1. Len(fifo') = Len(fifo) + 1 /\ Len(left') = Len(left) - 1 /\ Len(left) > 0
      BY <2>1, <1>0
    <3>2. \A k \in 1..Len(fifo') : fifo'[k] = IF k = Len(fifo) + 1 THEN left[1] ELSE fifo[k]
      BY <2>1, <1>0
    <3>3. \A k \in 1..Len(left') : left'[k] = left[k + 1]
      BY <2>1, <3>1, <1>0
    <3>4. \A k \in 1..Len(fifo') : fifo'[k] = Byte(Stored + k, bad)
      <4> SUFFICES ASSUME NEW k \in 1..Len(fifo') PROVE fifo'[k] = Byte(Stored + k, bad)
        OBVIOUS
      <4>1. CASE k = Len(fifo) + 1
        <5>1. 1 \in 1..Len(left) /\ Stored + k = Stored + Len(fifo) + 1
          BY <4>1, <3>1, <1>0
        <5>2. left[1] = Byte(Stored + Len(fifo) + 1, bad)
          BY <5>1, <1>a DEF InOrder
        <5> QED
          BY <4>1, <5>1, <5>2, <3>2
      <4>2. CASE k # Len(fifo) + 1
        <5>1. k \in 1..Len(fifo) /\ fifo'[k] = fifo[k]
          BY <4>2, <3>1, <3>2, <1>0
        <5> QED
          BY <5>1, <1>a DEF InOrder
      <4> QED
        BY <4>1, <4>2
    <3>5. \A k \in 1..Len(left') : left'[k] = Byte(Stored + Len(fifo') + k, bad)
      <4> SUFFICES ASSUME NEW k \in 1..Len(left') PROVE left'[k] = Byte(Stored + Len(fifo') + k, bad)
        OBVIOUS
      <4>1. k + 1 \in 1..Len(left) /\ Stored + Len(fifo) + (k + 1) = Stored + Len(fifo') + k
        BY <3>1, <1>0
      <4>2. left[k + 1] = Byte(Stored + Len(fifo) + (k + 1), bad)
        BY <4>1, <1>a DEF InOrder
      <4> QED
        BY <3>3, <4>1, <4>2
    <3>6. total = Stored' + Len(fifo') + Len(left')
      BY <2>2, <1>a, <3>1, <1>0 DEF InOrder
    <3> QED
      BY <2>2, <1>a, <3>4, <3>5, <3>6 DEF InOrder, Byte
  <2> QED
    BY <1>a, <2>2, <2>5, <2>6 DEF OnWay, Flow, Goes
<1>3. CASE Expire
  <2>1. UNCHANGED frame /\ UNCHANGED <<left, fifo, cBuf, rpc, base, res, wi, wLength, tpc>>
    BY <1>3 DEF Expire
  <2> QED
    BY <2>1, <1>b, <1>c
<1>4. ASSUME NEW t \in Threads, Trigger(t) PROVE Goes
  BY <1>4, <1>b, <1>c DEF Trigger
<1>5. CASE ReceiveSelect
  <2>1. UNCHANGED frame /\ UNCHANGED <<left, fifo, cBuf, res, wi, wLength, tpc>> /\ rpc = "select"
        /\ rpc' = "read" /\ base' = wi
    BY <1>5 DEF ReceiveSelect
  <2>2. Stored' = Stored
    BY <2>1 DEF Stored, Got
  <2> QED
    BY <2>1, <2>2, <1>b, <1>a
<1>6. CASE ReceiveRead
  <2>1. rpc = "read" /\ wi = base /\ Stored = wi
    BY <1>6, <1>a, <1>0 DEF ReceiveRead, Stored, Got
  <2>2. PICK from \in {base, wi}, got \in Nat :
           /\ Takes(got, from)
           /\ got <= Len(fifo) /\ wi + got <= Size
           /\ Len(fifo') = Len(fifo) - got
           /\ \A k \in 1..Len(fifo') : fifo'[k] = fifo[k + got]
    BY <1>6, ReadTakes
  <2>3. /\ res' = got /\ rpc' \in {"select", "test"} /\ (got = 0 => rpc' = "select") /\ (got # 0 => rpc' = "test")
        /\ cBuf' = [k \in 1..Size |-> IF k > base /\ k <= base + got THEN fifo[k - base] ELSE cBuf[k]]
    BY <2>2 DEF Takes
  <2>4. UNCHANGED frame /\ UNCHANGED <<left, wi, wLength, tpc>>
    BY <1>6 DEF ReceiveRead
  <2>6. Stored' = wi + got
    BY <2>3, <2>4, <1>0 DEF Stored, Got
  <2>8. Sort(total, bad)'
    BY <1>a, <2>4 DEF Sort
  <2>9. InOrder(total, bad)'
    <3>3. \A k \in 1..Stored' : cBuf'[k] = Byte(k, bad)
      <4> SUFFICES ASSUME NEW k \in 1..(wi + got) PROVE cBuf'[k] = Byte(k, bad)
        BY <2>6
      <4>1. k \in 1..Size /\ cBuf'[k] = IF k > wi /\ k <= wi + got THEN fifo[k - wi] ELSE cBuf[k]
        BY <2>1, <2>2, <2>3, <1>0
      <4>2. CASE k > wi
        <5>1. k - wi \in 1..Len(fifo) /\ Stored + (k - wi) = k
          <6>1. \A w, r, len \in Nat : \A j \in 1..(w + r) :
                   r <= len /\ j > w => j - w \in 1..len /\ w + (j - w) = j
            OBVIOUS
          <6>2. wi \in Nat /\ got \in Nat /\ Len(fifo) \in Nat /\ got <= Len(fifo) /\ k > wi /\ k \in 1..(wi + got)
            BY <4>2, <2>2, <1>0
          <6>3. k - wi \in 1..Len(fifo) /\ wi + (k - wi) = k
            BY ONLY <6>1, <6>2, Zenon
          <6> QED
            BY <6>3, <2>1
        <5>2. fifo[k - wi] = Byte(Stored + (k - wi), bad)
          BY <5>1, <1>a DEF InOrder
        <5> QED
          BY <4>1, <4>2, <5>1, <5>2, <1>0
      <4>3. CASE ~(k > wi)
        BY <4>1, <4>3, <2>1, <1>a, <1>0 DEF InOrder
      <4> QED
        BY <4>2, <4>3
    <3>4. \A k \in 1..Len(fifo') : fifo'[k] = Byte(Stored' + k, bad)
      <4> SUFFICES ASSUME NEW k \in 1..Len(fifo') PROVE fifo'[k] = Byte(Stored' + k, bad)
        OBVIOUS
      <4>1. k + got \in 1..Len(fifo) /\ Stored + (k + got) = Stored' + k
        <5>1. \A w, r, len \in Nat : \A j \in 1..(len - r) :
                 r <= len => j + r \in 1..len /\ w + (j + r) = (w + r) + j
          OBVIOUS
        <5>2. wi \in Nat /\ got \in Nat /\ Len(fifo) \in Nat /\ got <= Len(fifo) /\ k \in 1..(Len(fifo) - got)
          BY <2>2, <1>0
        <5>3. k + got \in 1..Len(fifo) /\ wi + (k + got) = (wi + got) + k
          BY ONLY <5>1, <5>2, Zenon
        <5> QED
          BY <5>3, <2>1, <2>6
      <4>2. fifo[k + got] = Byte(Stored + (k + got), bad)
        BY <4>1, <1>a DEF InOrder
      <4> QED
        BY <4>1, <4>2, <2>2
    <3>5. Stored' + Len(fifo') = Stored + Len(fifo)
      BY <2>1, <2>2, <2>6, <1>0
    <3> QED
      BY <2>4, <1>a, <3>3, <3>4, <3>5 DEF InOrder, Byte
  <2> QED
    BY <1>a, <2>3, <2>4, <2>8, <2>9 DEF OnWay, Flow, Goes
<1>7. CASE ReceiveTest
  <2>1. wi < Size /\ rpc = "test"
    BY <1>7, Domains DEF ReceiveTest, Calls
  <2>2. UNCHANGED frame /\ UNCHANGED <<left, fifo, cBuf, tpc, wLength, wi>> /\ Stored' = Stored /\ base' = wi
    BY <1>7, <2>1 DEF ReceiveTest, Stored, Got
  <2>3. rpc' = "add" /\ wi' = wi /\ (tpc' = "zero" => wLength' = wi') /\ tpc' # "send"
    BY <1>7, <2>1, <2>2, <1>a DEF ReceiveTest
  <2> QED
    BY <2>2, <2>3, <1>b
<1>8. CASE ReceiveAdd
  <2>1. wi' = wi + res /\ rpc = "add" /\ rpc' = "armed"
    BY <1>8, <1>a DEF ReceiveAdd
  <2>2. UNCHANGED frame /\ UNCHANGED <<left, fifo, cBuf, tpc>> /\ Stored' = Stored
    BY <1>8, <1>0, <2>1 DEF ReceiveAdd, Stored, Got
  <2>3. tpc # "zero"
    BY <2>1 DEF Meeting, Timed, Settling, LineQuiet, Overrun
  <2>4. rpc' \notin {"read", "add"} /\ tpc' # "zero" /\ tpc' # "send"
    BY <2>1, <2>2, <2>3, <1>a
  <2> QED
    BY <2>2, <2>4, <1>b
<1>9. CASE ReceiveArmed
  <2>1. UNCHANGED frame /\ UNCHANGED <<left, fifo, cBuf, res, wi, wLength, tpc>> /\ rpc = "armed"
        /\ rpc' = "select"
    BY <1>9 DEF ReceiveArmed
  <2>2. Stored' = Stored
    BY <2>1 DEF Stored, Got
  <2> QED
    BY <2>1, <2>2, <1>b, <1>a
<1>10. CASE TimerPulse \/ TimerReleased \/ SettleLength
  <2>1. UNCHANGED frame /\ UNCHANGED <<left, fifo, cBuf, rpc, base, res, wi>> /\ tpc' # "send"
        /\ (tpc' = "zero" => wLength' = wi)
    BY <1>10 DEF TimerPulse, TimerReleased, SettleLength
  <2>2. Stored' = Stored
    BY <2>1 DEF Stored, Got
  <2> QED
    BY <2>1, <2>2, <1>b, <1>a
<1>12. CASE SettleZero
  <2>1. tpc = "zero" /\ wLength = wi
    BY <1>12, <1>a DEF SettleZero
  <2>2. UNCHANGED frame /\ UNCHANGED <<left, fifo, rpc, res, cBuf, wLength>> /\ wi' = 0 /\ tpc' = "send"
    BY <1>12 DEF SettleZero
  <2>3. total = wi + Rest /\ Rest' = Rest
    BY <2>2, OnWayBusy DEF Rest, Got
  <2>4. LineQuiet \/ Overrun
    BY <2>1 DEF Meeting, Timed, Settling
  <2>5. CASE LineQuiet
    <3>1. Rest = 0 /\ rpc = "select"
      BY <2>5, RestFacts DEF LineQuiet
    <3>2. total = wi /\ total <= Size /\ Stored = wi
      BY <2>3, <3>1, <1>0 DEF Stored, Got
    <3>3. Sort(total, bad)' /\ \A k \in 1..total : cBuf'[k] = Byte(k, bad)'
      BY <2>2, <3>2, <1>a, <1>0 DEF Sort, InOrder, Byte
    <3>4. LineQuiet'
      BY <2>2, <2>5 DEF LineQuiet
    <3>5. InHand(total, bad)'
      BY <1>a, <2>1, <2>2, <3>2, <3>3, <3>4 DEF InHand
    <3> QED
      BY <2>2, <3>5 DEF Flow, Goes
  <2>6. CASE Overrun
    <3>1. wi = Size /\ Rest > 0
      BY <2>6, RestFacts DEF Overrun
    <3>2. total = Size + 1 /\ Rest = 1 /\ n \notin whole
      BY <3>1, <2>3, <1>a, <1>0, RestFacts DEF Sort
    <3> QED
      BY <2>1, <2>2, <2>3, <3>1, <3>2, <1>a DEF Parts
  <2> QED
    BY <2>4, <2>5, <2>6 DEF Goes
<1>13. ~SettleSend /\ ~TakeReceiveAsync
  BY <1>a DEF SettleSend, TakeReceiveAsync, TakeTag, Bunch, AcceptState, AcceptRecving, AcceptInterval
<1>14. CASE Watchdog \/ UNCHANGED vars
  <2>1. UNCHANGED frame /\ UNCHANGED <<left, fifo, cBuf, rpc, base, res, wi, wLength, tpc>>
    BY <1>14 DEF Watchdog, Tick, TickCount, TickZero, TickSink, vars
  <2> QED
    BY <2>1, <1>b, <1>c
<1> QED
  BY <1>1, <1>2, <1>3, <1>4, <1>5, <1>6, <1>7, <1>8, <1>9, <1>10, <1>12, <1>13, <1>14
     DEF Next, Receive, Settle, Goes

(* With the line quiet and the buffer empty, only the queue, the tag thread *)
(* and the pulse thread have something to do.                               *)
LEMMA LineStill ==
    ASSUME TypeInv, Calls, Meeting, LineQuiet, wi = 0, tpc \in {"recv", "send"}, hiccups' = hiccups, [Next]_vars
    PROVE  (\E sort \in Sorts : Begin(sort)) \/ SettleSend \/ TakeReceiveAsync \/ Watchdog \/ UNCHANGED vars
PROOF
<1>1. Rest = 0 /\ Size \in Nat /\ pulses \in Nat
  BY RestFacts, Domains
<1>2. Handshake
  BY <1>1 DEF Meeting, Full
<1>3. pulses = 0 /\ ~armed
  BY <1>1, <1>2 DEF Handshake, Single, Held, LineQuiet
<1>4. ~Arrive /\ ~Expire
  BY <1>3 DEF Arrive, Expire, LineQuiet
<1>5. ~Receive
  BY DEF Receive, ReceiveSelect, ReceiveRead, ReceiveTest, ReceiveAdd, ReceiveArmed, LineQuiet
<1>6. \A t \in Threads : ~Trigger(t)
  <2>1. \A t \in Threads : stage[t] = "no"
    BY DEF Calls, Threads, LineQuiet
  <2> QED
    BY <2>1 DEF Trigger
<1>7. ~TimerPulse
  <2>1. ~(pulses > 0)
    BY <1>3
  <2> QED
    BY <2>1 DEF TimerPulse
<1>8. ~TimerReleased /\ ~SettleLength /\ ~SettleZero
  BY DEF TimerReleased, SettleLength, SettleZero
<1> QED
  BY <1>4, <1>5, <1>6, <1>7, <1>8 DEF Next, Settle

LEMMA InHandStep ==
    ASSUME TypeInv, TypeInv', Calls, Meeting, hiccups' = hiccups, [Next]_vars,
           NEW total, NEW bad, InHand(total, bad)
    PROVE  /\ UNCHANGED <<n, whole, overlong>>
           /\ \/ InHand(total, bad)' /\ UNCHANGED <<taken, errs>>
              \/ Accepts
              \/ Refuses
PROOF
<1>0. /\ n \in Nat /\ F \in Nat /\ F > 1 /\ Size \in Nat /\ F < Size
      /\ taken \in Seq(1..MaxFrames) /\ errs \in Nat
  BY Domains
<1>a. /\ n > 0 /\ LineQuiet /\ wi = 0 /\ total <= Size
      /\ Sort(total, bad) /\ \A k \in 1..total : cBuf[k] = Byte(k, bad)
      /\ \/ tpc = "send" /\ wLength = total /\ tags = <<>> /\ xpc = "idle"
         \/ tpc = "recv" /\ tags = <<total>> /\ xpc = "idle"
         \/ tpc = "recv" /\ tags = <<>> /\ xpc = "bunch" /\ total = F
  BY DEF InHand
<1>b. ASSUME UNCHANGED <<left, fifo, rpc, wi, cBuf, n, whole>>
      PROVE  /\ n' > 0 /\ LineQuiet' /\ wi' = 0 /\ total <= Size
             /\ Sort(total, bad)' /\ \A k \in 1..total : cBuf'[k] = Byte(k, bad)'
  BY <1>a, <1>b DEF LineQuiet, Sort, Byte
<1>c. (\E sort \in Sorts : Begin(sort)) \/ SettleSend \/ TakeReceiveAsync \/ Watchdog \/ UNCHANGED vars
  BY <1>a, LineStill
<1> USE DEF lineVars, magVars, recvVars, callVars, tagVars, dogVars
<1>1. \A sort \in Sorts : ~Begin(sort)
  <2> SUFFICES ASSUME NEW sort \in Sorts, Begin(sort) PROVE FALSE
    OBVIOUS
  <2>1. Quiet
    BY InTime DEF Begin, Quiet
  <2> QED
    BY <2>1, <1>a DEF Quiet
<1>2. CASE Watchdog \/ UNCHANGED vars
  <2>1. UNCHANGED <<left, fifo, rpc, wi, cBuf, n, whole, overlong, tpc, wLength, tags, xpc, taken, errs>>
    BY <1>2 DEF Watchdog, Tick, TickCount, TickZero, TickSink, vars
  <2>2. InHand(total, bad)'
    BY <2>1, <1>a, <1>b DEF InHand
  <2> QED
    BY <2>1, <2>2
<1>3. CASE SettleSend
  <2>1. wLength = total /\ tags = <<>> /\ xpc = "idle"
    BY <1>3, <1>a DEF SettleSend
  <2>2. UNCHANGED <<left, fifo, rpc, wi, cBuf, n, whole, overlong, xpc, taken, errs>>
        /\ tags' = <<total>> /\ tpc' = "recv"
    BY <1>3, <2>1 DEF SettleSend
  <2>3. InHand(total, bad)'
    BY <2>1, <2>2, <1>b DEF InHand
  <2> QED
    BY <2>2, <2>3
<1>4. CASE TakeTag
  <2>1. tpc = "recv" /\ tags = <<total>>
    BY <1>4, <1>a DEF TakeTag
  <2>2. tags' = <<>> /\ Head(tags) = total
    BY <1>4, <2>1 DEF TakeTag
  <2>3. UNCHANGED <<left, fifo, rpc, wi, cBuf, n, whole, overlong, tpc, taken>>
    BY <1>4 DEF TakeTag
  <2>4. CASE total = F
    <3>1. xpc' = "bunch" /\ errs' = errs
      BY <1>4, <2>2, <2>4 DEF TakeTag
    <3>2. InHand(total, bad)'
      BY <2>1, <2>2, <2>3, <2>4, <3>1, <1>b DEF InHand
    <3> QED
      BY <2>3, <3>1, <3>2
  <2>5. CASE total # F
    <3>1. xpc' = "idle" /\ errs' = errs + 1
      BY <1>4, <2>2, <2>5 DEF TakeTag
    <3>2. n \notin whole
      BY <1>a, <2>5 DEF Sort
    <3>3. Rested'
      BY <2>1, <2>2, <2>3, <3>1, <1>b DEF Rested
    <3> QED
      BY <2>3, <3>1, <3>2, <3>3 DEF Refuses
  <2> QED
    BY <2>4, <2>5
<1>5. CASE Bunch
  <2>1. tpc = "recv" /\ tags = <<>> /\ total = F
    BY <1>5, <1>a DEF Bunch
  <2>2. UNCHANGED <<left, fifo, rpc, wi, cBuf, n, whole, overlong, tpc, tags>>
    BY <1>5 DEF Bunch
  <2>3. cBuf[1].f = n
    <3>1. 1 \in 1..total
      BY <2>1, <1>0
    <3>2. Byte(1, bad).f = n
      BY DEF Byte
    <3> QED
      BY <1>a, <3>1, <3>2
  <2>4. Intact(n) <=> n \in whole
    <3>1. CASE ~bad
      <4>1. \A k \in 1..F : Byte(k, bad) = [f |-> n, i |-> k, ok |-> TRUE]
        BY <3>1 DEF Byte
      <4> QED
        BY <1>a, <2>1, <3>1, <4>1 DEF Sort, Intact
    <3>2. CASE bad
      <4>1. Byte(F, bad).ok = FALSE /\ F \in 1..F
        <5>1. ~(~bad \/ F < F) /\ F \in 1..F
          BY <3>2, <1>0
        <5>2. Byte(F, bad).ok = (~bad \/ F < F)
          BY DEF Byte
        <5> QED
          BY <5>1, <5>2
      <4>2. cBuf[F] # [f |-> n, i |-> F, ok |-> TRUE]
        BY <1>a, <2>1, <4>1
      <4> QED
        BY <1>a, <3>2, <4>1, <4>2 DEF Sort, Intact
    <3> QED
      BY <3>1, <3>2, <1>a DEF Sort
  <2>5. CASE Intact(n)
    <3>1. taken' = Append(taken, n) /\ xpc' = "state" /\ errs' = errs
      BY <1>5, <2>3, <2>5 DEF Bunch
    <3>2. Rested'
      BY <2>1, <2>2, <3>1, <1>b DEF Rested
    <3> QED
      BY <2>2, <2>4, <2>5, <3>1, <3>2 DEF Accepts
  <2>6. CASE ~Intact(n)
    <3>1. taken' = taken /\ xpc' = "idle" /\ errs' = errs + 1
      BY <1>5, <2>3, <2>6 DEF Bunch
    <3>2. Rested'
      BY <2>1, <2>2, <3>1, <1>b DEF Rested
    <3> QED
      BY <2>2, <2>4, <2>6, <3>1, <3>2 DEF Refuses
  <2> QED
    BY <2>5, <2>6
<1>6. ~AcceptState /\ ~AcceptRecving /\ ~AcceptInterval
  BY <1>a DEF AcceptState, AcceptRecving, AcceptInterval
<1> QED
  BY <1>c, <1>1, <1>2, <1>3, <1>4, <1>5, <1>6 DEF TakeReceiveAsync

LEMMA FlowStep ==
    ASSUME TypeInv, TypeInv', Calls, Meeting, hiccups' = hiccups, [Next]_vars,
           NEW total, NEW bad, Flow(total, bad)
    PROVE  /\ UNCHANGED <<n, whole, overlong>>
           /\ \/ Flow(total, bad)' /\ UNCHANGED <<taken, errs>>
              \/ Accepts
              \/ Refuses
              \/ total = Size + 1 /\ Parts
PROOF
<1>1. CASE OnWay(total, bad)
  BY <1>1, OnWayStep
<1>2. CASE InHand(total, bad)
  <2>1. InHand(total, bad)' => Flow(total, bad)'
    BY DEF Flow
  <2> QED
    BY <1>2, <2>1, InHandStep
<1> QED
  BY <1>1, <1>2 DEF Flow

(* A frame that begins in time is the only one on its way. *)
LEMMA FlowBegins ==
    ASSUME TypeInv, TypeInv', Closing, Quiet, NEW sort \in Sorts, Begin(sort), whole \subseteq 1..n
    PROVE  OnWay(Length(sort), sort = "damaged")'
PROOF
<1> DEFINE bad == sort = "damaged"
           total == Length(sort)
<1>0. n \in Nat /\ F \in Nat /\ F > 1 /\ F < Size /\ Size \in Nat
  BY Domains
<1>1. wi = 0 /\ fifo = <<>> /\ rpc = "select" /\ tpc = "recv" /\ tags = <<>> /\ xpc = "idle"
  BY ClosedEmpty DEF Quiet, LineQuiet
<1>2. /\ n' = n + 1
      /\ left' = [i \in 1..Length(sort) |-> [f |-> n + 1, i |-> i, ok |-> sort # "damaged" \/ i < F]]
      /\ whole' = IF sort = "whole" THEN whole \cup {n + 1} ELSE whole
      /\ UNCHANGED <<fifo, rpc, base, res, wi, wLength, tpc, tags, xpc>>
  BY DEF Begin, recvVars, magVars, tagVars
<1>3. total \in {F - 1, F, Size + 1} /\ bad \in BOOLEAN /\ total \in Nat
  BY <1>0 DEF Length, Sorts
<1>4. Sort(total, bad)'
  <2>1. n + 1 \notin whole
    BY <1>0
  <2>2. sort = "whole" <=> total = F /\ ~bad
    BY <1>0 DEF Length, Sorts
  <2>3. n' \in whole' <=> total = F /\ ~bad
    BY <1>2, <2>1, <2>2
  <2> QED
    BY <1>3, <2>3 DEF Sort
<1>5. InOrder(total, bad)'
  <2>1. Stored' = 0 /\ Len(fifo') = 0
    BY <1>1, <1>2 DEF Stored, Got
  <2>2. Len(left') = total
    BY <1>2, <1>3
  <2>3. \A k \in 1..total : left'[k] = Byte(k, bad)'
    BY <1>2 DEF Byte
  <2> HIDE DEF total, bad
  <2> QED
    BY <1>3, <2>1, <2>2, <2>3 DEF InOrder
<1>6. n' > 0
  BY <1>0, <1>2
<1> HIDE DEF total, bad
<1>7. OnWay(total, bad)'
  BY <1>1, <1>2, <1>4, <1>5, <1>6 DEF OnWay
<1> QED
  BY <1>7 DEF total, bad

(* When the channel is at rest, no frame is on its way. *)
LEMMA QuietOver ==
    ASSUME TypeInv, Meeting, Quiet
    PROVE  /\ wi = 0 /\ Rest = 0 /\ Len(tags) = 0 /\ tpc = "recv"
           /\ \A total, bad : ~Flow(total, bad)
PROOF
<1>1. wi = 0 /\ Rest = 0 /\ Len(tags) = 0 /\ tpc = "recv"
  BY ClosedEmpty, RestFacts DEF Closing, Meeting, Quiet
<1>2. \A total, bad : ~Flow(total, bad)
  BY <1>1, OnWayBusy DEF Flow, InHand, Quiet
<1> QED
  BY <1>1, <1>2

-----------------------------------------------------------------------------
(* The frames up to m have been accepted or counted, k in all. *)
Counted(m, k) ==
    /\ Len(taken) + errs = k
    /\ {taken[j] : j \in 1..Len(taken)} = whole \cap 1..m
    /\ \A i, j \in 1..Len(taken) : i < j => taken[i] < taken[j]

(* An overlong frame counts twice: what filled the buffer, and what did not *)
(* go in.                                                                   *)
Due(total) == IF total > Size THEN 2 ELSE 1

(* The last frame is over, but for what an overlong one still has to count. *)
Pending ==
    Len(tags) + (IF tpc = "send" THEN 1 ELSE 0) + (IF wi + Rest > 0 THEN 1 ELSE 0)
Over ==
    /\ xpc # "bunch" /\ wi + Rest <= 1
    /\ tpc = "send" => wLength # F
    /\ \A k \in 1..Len(tags) : tags[k] # F
    /\ Counted(n, (n + overlong) - Pending)

Carried ==
    /\ whole \subseteq 1..n
    /\ \/ \E total \in {F - 1, F, Size + 1}, bad \in BOOLEAN :
            Flow(total, bad) /\ Counted(n - 1, (n + overlong) - Due(total))
       \/ Over

LEMMA CountedOn ==
    ASSUME TypeInv, n > 0, n' = n, whole' = whole, whole \subseteq 1..n, NEW k \in Int, Counted(n - 1, k),
           Accepts \/ Refuses
    PROVE  Counted(n, k + 1)'
PROOF
<1>0. n \in Nat /\ taken \in Seq(1..MaxFrames) /\ errs \in Nat /\ Len(taken) \in Nat
  BY Domains, LenProperties
<1>1. CASE Accepts
  <2>1. taken' = Append(taken, n) /\ errs' = errs /\ n \in whole
    BY <1>1 DEF Accepts
  <2>2. Len(taken') = Len(taken) + 1 /\ \A j \in 1..Len(taken') : taken'[j] = IF j = Len(taken) + 1 THEN n ELSE taken[j]
    BY <2>1, <1>0
  <2>3. \A j \in 1..Len(taken) : taken[j] \in 1..(n - 1)
    BY DEF Counted
  <2>4. {taken'[j] : j \in 1..Len(taken')} = whole \cap 1..n
    <3>1. {taken'[j] : j \in 1..Len(taken')} = {taken[j] : j \in 1..Len(taken)} \cup {n}
      BY <2>2, <1>0
    <3>2. whole \cap 1..n = (whole \cap 1..(n - 1)) \cup {n}
      BY <2>1, <1>0
    <3> QED
      BY <3>1, <3>2 DEF Counted
  <2>5. \A i, j \in 1..Len(taken') : i < j => taken'[i] < taken'[j]
    <3> SUFFICES ASSUME NEW i \in 1..Len(taken'), NEW j \in 1..Len(taken'), i < j PROVE taken'[i] < taken'[j]
      OBVIOUS
    <3>1. i \in 1..Len(taken) /\ taken'[i] = taken[i]
      BY <2>2, <1>0
    <3>2. CASE j = Len(taken) + 1
      BY <3>1, <3>2, <2>2, <2>3, <1>0
    <3>3. CASE j # Len(taken) + 1
      <4>1. j \in 1..Len(taken) /\ taken'[j] = taken[j]
        BY <3>3, <2>2, <1>0
      <4> QED
        BY <3>1, <4>1 DEF Counted
    <3> QED
      BY <3>2, <3>3
  <2>6. Len(taken') + errs' = k + 1
    BY <2>1, <2>2, <1>0 DEF Counted
  <2> QED
    BY <2>4, <2>5, <2>6 DEF Counted
<1>2. CASE Refuses
  <2>1. taken' = taken /\ errs' = errs + 1 /\ n \notin whole
    BY <1>2 DEF Refuses
  <2>2. whole \cap 1..n = whole \cap 1..(n - 1)
    BY <2>1, <1>0
  <2>3. Len(taken) + (errs + 1) = k + 1
    BY <1>0 DEF Counted
  <2> QED
    BY <2>1, <2>2, <2>3 DEF Counted
<1> QED
  BY <1>1, <1>2

LEMMA FlowCarried ==
    ASSUME TypeInv, TypeInv', Calls, Meeting, hiccups' = hiccups, [Next]_vars, whole \subseteq 1..n,
           NEW total \in {F - 1, F, Size + 1}, NEW bad \in BOOLEAN,
           Flow(total, bad), Counted(n - 1, (n + overlong) - Due(total))
    PROVE  Carried'
PROOF
<1> DEFINE k == (n + overlong) - Due(total)
<1>0. /\ n \in Nat /\ overlong \in Nat /\ F \in Nat /\ F > 1 /\ Size \in Nat /\ F < Size
      /\ total \in Nat /\ n > 0
  BY Domains DEF Flow, OnWay, InHand
<1>1. UNCHANGED <<n, whole, overlong>>
  BY FlowStep
<1>2. k \in Int
  BY <1>0 DEF Due
<1>3. CASE Flow(total, bad)' /\ UNCHANGED <<taken, errs>>
  <2>1. Counted(n - 1, k)'
    BY <1>1, <1>3 DEF Counted
  <2> QED
    BY <1>1, <1>3, <2>1 DEF Carried, Due
<1>4. CASE Accepts \/ Refuses
  <2>1. Counted(n, k + 1)'
    BY <1>0, <1>1, <1>2, <1>4, CountedOn
  <2>2. Rested'
    BY <1>4 DEF Accepts, Refuses
  <2>3. xpc' # "bunch" /\ wi' = 0 /\ Rest' = 0 /\ tpc' = "recv" /\ tags' = <<>> /\ Len(tags') = 0
    <3>1. Len(left') = 0 /\ Len(fifo') = 0 /\ Got' = 0
      BY <2>2 DEF Rested, LineQuiet, Got
    <3> QED
      BY <3>1, <2>2 DEF Rested, Rest
  <2>4. Pending' = 0
    BY <2>3 DEF Pending
  <2>5. total <= Size
    <3>1. CASE OnWay(total, bad)
      <4>1. UNCHANGED <<taken, errs>>
        BY <3>1, OnWayStep DEF Parts
      <4>2. taken' # taken \/ errs' # errs
        BY <1>4, Domains DEF Accepts, Refuses
      <4> QED
        BY <4>1, <4>2
    <3>2. CASE InHand(total, bad)
      BY <3>2 DEF InHand
    <3> QED
      BY <3>1, <3>2 DEF Flow
  <2>6. k + 1 = (n + overlong) - Pending'
    BY <2>4, <2>5, <1>0 DEF Due
  <2>7. Over'
    BY <1>1, <2>1, <2>3, <2>6 DEF Over
  <2> QED
    BY <1>1, <2>7 DEF Carried
<1>5. CASE total = Size + 1 /\ Parts
  <2>1. Pending' = 2
    BY <1>5 DEF Pending, Parts
  <2>2. k = (n + overlong) - Pending'
    BY <2>1, <1>5, <1>0 DEF Due
  <2>3. whole \cap 1..n = whole \cap 1..(n - 1)
    BY <1>5, <1>0 DEF Parts
  <2>4. Counted(n, (n + overlong) - Pending)'
    BY <1>1, <1>5, <2>2, <2>3 DEF Counted, Parts
  <2>5. Over'
    BY <1>5, <2>4, <1>0 DEF Over, Parts
  <2> QED
    BY <1>1, <2>5 DEF Carried
<1> QED
  BY <1>3, <1>4, <1>5, FlowStep

LEMMA OverCarried ==
    ASSUME TypeInv, TypeInv', Calls, Meeting, hiccups' = hiccups, [Next]_vars, whole \subseteq 1..n, Over
    PROVE  Carried'
PROOF
<1>0. /\ n \in Nat /\ overlong \in Nat /\ F \in Nat /\ F > 1 /\ Size \in Nat /\ F < Size
      /\ Rest \in Nat /\ Rest' \in Nat /\ wi \in Nat /\ errs \in Nat /\ Len(taken) \in Nat
      /\ tags \in Seq(1..Size) /\ Len(tags) \in Nat
  BY Domains, RestFacts, RestNext, LenProperties
<1>a. /\ xpc # "bunch" /\ wi + Rest <= 1
      /\ tpc = "send" => wLength # F
      /\ \A k \in 1..Len(tags) : tags[k] # F
      /\ Counted(n, (n + overlong) - Pending)
  BY DEF Over
<1>b. Handshake
  BY <1>0, <1>a DEF Meeting, Full
<1> USE DEF lineVars, magVars, recvVars, callVars, tagVars, dogVars
<1>1. ASSUME NEW sort \in Sorts, Begin(sort) PROVE Carried'
  <2> DEFINE total == Length(sort)
             bad == sort = "damaged"
  <2>1. Quiet
    BY <1>1, InTime DEF Begin, Quiet
  <2>2. OnWay(total, bad)'
    BY <1>1, <1>b, <2>1, FlowBegins DEF Closing
  <2>3. n' = n + 1 /\ overlong' = (IF sort = "long" THEN overlong + 1 ELSE overlong)
        /\ whole' = (IF sort = "whole" THEN whole \cup {n + 1} ELSE whole) /\ UNCHANGED <<taken, errs>>
    BY <1>1 DEF Begin
  <2>4. Pending = 0
    <3>1. wi = 0 /\ Rest = 0 /\ Len(tags) = 0 /\ tpc = "recv"
      BY <2>1, <1>b, ClosedEmpty, RestFacts DEF Closing, Quiet
    <3> QED
      BY <3>1 DEF Pending
  <2>5. total \in {F - 1, F, Size + 1} /\ bad \in BOOLEAN /\ Due(total) = IF sort = "long" THEN 2 ELSE 1
    BY <1>0 DEF Length, Sorts, Due
  <2>6. (n' + overlong') - Due(total) = (n + overlong) - Pending
    BY <2>3, <2>4, <2>5, <1>0
  <2>7. whole' \cap 1..(n' - 1) = whole \cap 1..n /\ whole' \subseteq 1..n'
    BY <2>3, <1>0
  <2>8. Counted(n - 1, (n + overlong) - Due(total))'
    BY <1>a, <2>3, <2>6, <2>7 DEF Counted, Due
  <2> HIDE DEF total, bad
  <2> QED
    BY <2>2, <2>5, <2>7, <2>8 DEF Carried, Flow
<1>2. ASSUME UNCHANGED <<n, whole, overlong, taken, errs, tags>>, xpc' # "bunch",
             wi' + Rest' = wi + Rest, tpc' = "send" <=> tpc = "send", tpc = "send" => wLength' = wLength
      PROVE  Carried'
  <2>1. Pending' = Pending
    BY <1>2 DEF Pending
  <2>2. Counted(n, (n + overlong) - Pending)'
    BY <1>2, <1>a, <2>1 DEF Counted
  <2>3. Over'
    BY <1>2, <1>a, <2>2 DEF Over
  <2> QED
    BY <1>2, <2>3 DEF Carried
<1>3. ASSUME \A sort \in Sorts : ~Begin(sort), ~SettleZero PROVE wi' + Rest' = wi + Rest
  BY <1>3, <1>b, LoadStep DEF Handshake
<1>4. CASE Arrive \/ Expire \/ Receive
  <2>1. UNCHANGED <<n, whole, overlong, taken, errs, tags, xpc, tpc, wLength>>
    BY <1>4 DEF Arrive, Expire, Receive, ReceiveSelect, ReceiveRead, ReceiveTest, ReceiveAdd, ReceiveArmed
  <2>2. (\A sort \in Sorts : ~Begin(sort)) /\ ~SettleZero
    BY <2>1, <1>0 DEF Begin, SettleZero
  <2> QED
    BY <2>1, <2>2, <1>2, <1>3, <1>a
<1>5. ASSUME NEW t \in Threads, Trigger(t) PROVE Carried'
  <2>1. UNCHANGED <<n, whole, overlong, taken, errs, tags, xpc, tpc, wLength, left, fifo, rpc, res, wi>>
    BY <1>5 DEF Trigger
  <2> QED
    BY <2>1, <1>2, <1>a DEF Rest, Got
<1>6. CASE TimerPulse \/ TimerReleased \/ SettleLength
  <2>1. UNCHANGED <<n, whole, overlong, taken, errs, tags, xpc, left, fifo, rpc, res, wi>>
        /\ tpc # "send" /\ tpc' # "send"
    BY <1>6 DEF TimerPulse, TimerReleased, SettleLength
  <2> QED
    BY <2>1, <1>2, <1>a DEF Rest, Got
<1>7. CASE SettleZero
  <2>1. LineQuiet /\ wi > 0 /\ wLength = wi /\ tpc = "zero"
    BY <1>7, <1>b DEF SettleZero, Handshake, Settling
  <2>2. Rest = 0 /\ wi = 1
    BY <2>1, <1>0, <1>a, RestFacts
  <2>3. UNCHANGED <<n, whole, overlong, taken, errs, tags, xpc, left, fifo, rpc, res, wLength>>
        /\ wi' = 0 /\ tpc' = "send"
    BY <1>7 DEF SettleZero
  <2>4. Rest' = 0
    BY <2>2, <2>3 DEF Rest, Got
  <2>5. Pending' = Pending
    BY <2>1, <2>2, <2>3, <2>4, <1>0 DEF Pending
  <2>6. Counted(n, (n + overlong) - Pending)'
    BY <2>3, <1>a, <2>5 DEF Counted
  <2>7. wLength' # F /\ wi' + Rest' <= 1
    BY <2>1, <2>2, <2>3, <2>4, <1>0
  <2>8. Over'
    BY <2>3, <2>6, <2>7, <1>a DEF Over
  <2> QED
    BY <2>3, <2>8 DEF Carried
<1>8. CASE SettleSend
  <2>1. UNCHANGED <<n, whole, overlong, taken, errs, xpc, left, fifo, rpc, res, wi>>
        /\ tpc = "send" /\ tpc' = "recv" /\ tags' = Append(tags, wLength)
    BY <1>8 DEF SettleSend
  <2>2. Rest' = Rest
    BY <2>1 DEF Rest, Got
  <2>3. wLength \in 1..Size
    BY <2>1 DEF TypeInv, Room
  <2>4. Len(tags') = Len(tags) + 1 /\ \A k \in 1..Len(tags') : tags'[k] # F
    BY <2>1, <2>3, <1>0, <1>a
  <2>5. Pending' = Pending
    BY <2>1, <2>2, <2>4, <1>0 DEF Pending
  <2>6. Counted(n, (n + overlong) - Pending)'
    BY <2>1, <1>a, <2>5 DEF Counted
  <2>7. Over'
    BY <2>1, <2>2, <2>4, <2>6, <1>a DEF Over
  <2> QED
    BY <2>1, <2>7 DEF Carried
<1>9. CASE TakeTag
  <2>1. tags # <<>> /\ tags' = Tail(tags) /\ Head(tags) # F
    <3>1. tags # <<>> /\ tags' = Tail(tags)
      BY <1>9 DEF TakeTag
    <3>2. 1 \in 1..Len(tags) /\ Head(tags) = tags[1]
      BY <3>1, <1>0
    <3> QED
      BY <3>1, <3>2, <1>a
  <2>2. UNCHANGED <<n, whole, overlong, taken, left, fifo, rpc, res, wi, wLength, tpc>>
        /\ xpc' = "idle" /\ errs' = errs + 1
    BY <1>9, <2>1 DEF TakeTag
  <2>3. Rest' = Rest
    BY <2>2 DEF Rest, Got
  <2>4. Len(tags') = Len(tags) - 1 /\ \A k \in 1..Len(tags') : tags'[k] # F
    <3>1. Len(tags') = Len(tags) - 1 /\ \A k \in 1..Len(tags') : tags'[k] = tags[k + 1] /\ k + 1 \in 1..Len(tags)
      BY <2>1, <1>0
    <3> QED
      BY <3>1, <1>a
  <2>5. Pending' = Pending - 1 /\ Pending \in Nat
    <3> DEFINE s == IF tpc = "send" THEN 1 ELSE 0
               w == IF wi + Rest > 0 THEN 1 ELSE 0
    <3>1. s \in Nat /\ w \in Nat
      OBVIOUS
    <3>2. Pending = Len(tags) + s + w /\ Pending' = Len(tags') + s + w
      BY <2>2, <2>3 DEF Pending
    <3> HIDE DEF s, w
    <3> QED
      BY <3>1, <3>2, <2>4, <1>0
  <2>6. Len(taken) + (errs + 1) = (n + overlong) - Pending'
    <3>1. Len(taken) + errs = (n + overlong) - Pending
      BY <1>a DEF Counted
    <3>2. \A t, e, p, q, m \in Int : t + e = m - p /\ q = p - 1 => t + (e + 1) = m - q
      OBVIOUS
    <3>3. Len(taken) \in Int /\ errs \in Int /\ Pending \in Int /\ Pending' \in Int /\ n + overlong \in Int
      BY <1>0, <2>5
    <3> QED
      BY ONLY <2>5, <3>1, <3>2, <3>3
  <2>7. Counted(n, (n + overlong) - Pending)'
    BY <2>2, <2>6, <1>a DEF Counted
  <2>8. Over'
    BY <2>2, <2>3, <2>4, <2>7, <1>a DEF Over
  <2> QED
    BY <2>2, <2>8 DEF Carried
<1>10. ~Bunch
  BY <1>a DEF Bunch
<1>11. CASE AcceptState \/ AcceptRecving \/ AcceptInterval \/ Watchdog \/ UNCHANGED vars
  <2>1. UNCHANGED <<n, whole, overlong, taken, errs, tags, left, fifo, rpc, res, wi, wLength, tpc>> /\ xpc' # "bunch"
    BY <1>11, <1>a DEF AcceptState, AcceptRecving, AcceptInterval, Watchdog, Tick, TickCount, TickZero, TickSink, vars
  <2> QED
    BY <2>1, <1>2 DEF Rest, Got
<1> QED
  BY <1>1, <1>4, <1>5, <1>6, <1>7, <1>8, <1>9, <1>10, <1>11 DEF Next, Settle, TakeReceiveAsync

(* As long as frames come without gaps and the timer thread keeps up, every *)
(* frame that comes whole is accepted exactly once and in order, and every  *)
(* other one counts as one error, an overlong one as two, for every size of *)
(* frame and buffer and every interleaving of the three threads: the buffer *)
(* without a lock is safe on these terms.                                   *)
THEOREM EveryFrameAccounted == Spec => []Accounted
PROOF
<1> DEFINE TimingInv == hiccups = 0 => Carried
<1>1. Init => TimingInv
  <2> SUFFICES ASSUME Init PROVE Over /\ whole \subseteq 1..n
    BY DEF Carried
  <2>1. Len(left) = 0 /\ Len(fifo) = 0 /\ Got = 0 /\ wi = 0 /\ tpc = "recv" /\ tags = <<>> /\ Len(tags) = 0
        /\ taken = <<>> /\ Len(taken) = 0 /\ errs = 0 /\ n = 0 /\ whole = {} /\ overlong = 0 /\ xpc = "idle"
    BY DEF Init, Got
  <2>2. Rest = 0 /\ Pending = 0
    BY <2>1 DEF Rest, Pending
  <2>3. Counted(n, (n + overlong) - Pending)
    BY <2>1, <2>2 DEF Counted
  <2> QED
    BY <2>1, <2>2, <2>3 DEF Over
<1>2. TypeInv /\ TypeInv' /\ Calls /\ Calm /\ TimingInv /\ [Next]_vars => TimingInv'
  <2> SUFFICES ASSUME TypeInv, TypeInv', Calls, Calm, TimingInv, [Next]_vars, hiccups' = 0 PROVE Carried'
    OBVIOUS
  <2>1. hiccups = 0
    BY HiccupsStay
  <2>2. Meeting /\ Carried
    BY <2>1 DEF Calm
  <2>3. whole \subseteq 1..n
    BY <2>2 DEF Carried
  <2>4. CASE Over
    BY <2>1, <2>2, <2>3, <2>4, OverCarried
  <2>5. CASE ~Over
    <3>1. PICK total \in {F - 1, F, Size + 1}, bad \in BOOLEAN :
            Flow(total, bad) /\ Counted(n - 1, (n + overlong) - Due(total))
      BY <2>2, <2>5 DEF Carried
    <3> QED
      BY <2>1, <2>2, <2>3, <3>1, FlowCarried
  <2> QED
    BY <2>4, <2>5
<1>3. TypeInv /\ Calm /\ TimingInv => Accounted
  <2> SUFFICES ASSUME TypeInv, Calm, TimingInv, Quiet, hiccups = 0
               PROVE  /\ Len(taken) + errs = n + overlong
                      /\ {taken[k] : k \in 1..Len(taken)} = whole
                      /\ \A j, k \in 1..Len(taken) : j < k => taken[j] < taken[k]
    BY DEF Accounted
  <2>1. Meeting /\ Carried
    BY DEF Calm
  <2>2. wi = 0 /\ Rest = 0 /\ Len(tags) = 0 /\ tpc = "recv"
    BY <2>1, QuietOver
  <2>3. \A total, bad : ~Flow(total, bad)
    BY <2>1, QuietOver
  <2>4. Pending = 0
    BY <2>2 DEF Pending
  <2>5. Counted(n, (n + overlong) - 0) /\ whole \cap 1..n = whole
    BY <2>1, <2>3, <2>4 DEF Carried, Over
  <2>6. (n + overlong) - 0 = n + overlong
    BY Domains
  <2> QED
    BY <2>5, <2>6 DEF Counted
<1> HIDE DEF TimingInv
<1> QED
  BY <1>1, <1>2, <1>3, StaysTyped, CallsStay, CalmStays, PTL DEF Spec

-----------------------------------------------------------------------------
(* Whole frames that were not accepted. One that is on its way is not lost  *)
(* yet; and a hiccup may leave the timer and the buffer in any state, but   *)
(* then the next frame is the last that it can cost.                        *)
Lost == {f \in whole : \A k \in 1..Len(taken) : taken[k] # f}

LossInv ==
    /\ whole \subseteq 1..n
    /\ \/ Cardinality(Lost) + 1 <= 2 * hiccups
       \/ Cardinality(Lost) <= 2 * hiccups /\ Closing
       \/ n \in whole /\ Cardinality(Lost \ {n}) <= 2 * hiccups /\ Meeting /\ Flow(F, FALSE)

LEMMA LostFinite ==
    ASSUME TypeInv
    PROVE  /\ IsFiniteSet(Lost) /\ Cardinality(Lost) \in Nat
           /\ Cardinality(Lost \ {n}) \in Nat /\ Cardinality(Lost) <= Cardinality(Lost \ {n}) + 1
           /\ \A S \in SUBSET Lost : Cardinality(S) \in Nat /\ Cardinality(S) <= Cardinality(Lost)
           /\ \A S \in SUBSET (Lost \ {n}) : Cardinality(S) \in Nat /\ Cardinality(S) <= Cardinality(Lost \ {n})
           /\ \A f : Cardinality(Lost \cup {f}) <= Cardinality(Lost) + 1 /\ Cardinality(Lost \cup {f}) \in Nat
PROOF
<1>1. IsFiniteSet(1..MaxFrames)
  BY ReceiverAssumption, FS_Interval
<1>2. Lost \in SUBSET (1..MaxFrames)
  BY DEF Lost, TypeInv, TypeOK
<1>3. IsFiniteSet(Lost)
  BY <1>1, <1>2, FS_Subset
<1>4. Cardinality(Lost) \in Nat
  BY <1>3, FS_CardinalityType
<1>5. IsFiniteSet(Lost \ {n}) /\ Cardinality(Lost \ {n}) = IF n \in Lost THEN Cardinality(Lost) - 1 ELSE Cardinality(Lost)
  BY <1>3, FS_RemoveElement
<1>6. Cardinality(Lost \ {n}) \in Nat
  BY <1>5, FS_CardinalityType
<1>7. \A S \in SUBSET Lost : Cardinality(S) \in Nat /\ Cardinality(S) <= Cardinality(Lost)
  BY <1>3, FS_Subset, FS_CardinalityType
<1>8. \A S \in SUBSET (Lost \ {n}) : Cardinality(S) \in Nat /\ Cardinality(S) <= Cardinality(Lost \ {n})
  BY <1>5, FS_Subset, FS_CardinalityType
<1>9. \A f : Cardinality(Lost \cup {f}) <= Cardinality(Lost) + 1 /\ Cardinality(Lost \cup {f}) \in Nat
  <2> SUFFICES ASSUME NEW f PROVE Cardinality(Lost \cup {f}) <= Cardinality(Lost) + 1 /\ Cardinality(Lost \cup {f}) \in Nat
    OBVIOUS
  <2>1. IsFiniteSet(Lost \cup {f})
        /\ Cardinality(Lost \cup {f}) = IF f \in Lost THEN Cardinality(Lost) ELSE Cardinality(Lost) + 1
    BY <1>3, FS_AddElement
  <2> QED
    BY <2>1, <1>4
<1>10. Cardinality(Lost) <= Cardinality(Lost \ {n}) + 1
  BY <1>4, <1>5
<1> HIDE DEF Lost
<1> QED
  BY <1>3, <1>4, <1>6, <1>7, <1>8, <1>9, <1>10

(* Only a whole frame that begins adds to what is lost so far. *)
LEMMA TakenGrows ==
    ASSUME TypeInv, [Next]_vars, \A sort \in Sorts : ~Begin(sort)
    PROVE  /\ n' = n /\ whole' = whole /\ overlong' = overlong
           /\ Lost' \subseteq Lost
PROOF
<1> USE DEF lineVars, magVars, recvVars, callVars, tagVars, dogVars
<1>1. n' = n /\ whole' = whole /\ overlong' = overlong
  BY DEF Next, Arrive, Expire, Receive, ReceiveSelect, ReceiveRead, ReceiveTest, ReceiveAdd, ReceiveArmed,
     TimerPulse, Settle, TimerReleased, SettleLength, SettleZero, SettleSend, Trigger, TakeReceiveAsync,
     TakeTag, Bunch, AcceptState, AcceptRecving, AcceptInterval, Watchdog, Tick, TickCount, TickZero, TickSink, vars
<1>2. taken' = taken \/ taken' = Append(taken, cBuf[1].f)
  BY DEF Next, Arrive, Expire, Receive, ReceiveSelect, ReceiveRead, ReceiveTest, ReceiveAdd, ReceiveArmed,
     TimerPulse, Settle, TimerReleased, SettleLength, SettleZero, SettleSend, Trigger, TakeReceiveAsync,
     TakeTag, Bunch, AcceptState, AcceptRecving, AcceptInterval, Watchdog, Tick, TickCount, TickZero, TickSink, vars
<1>3. \A k \in 1..Len(taken) : k \in 1..Len(taken') /\ taken'[k] = taken[k]
  <2>1. taken \in Seq(1..MaxFrames) /\ Len(taken) \in Nat
    BY Domains, LenProperties
  <2>2. CASE taken' = Append(taken, cBuf[1].f)
    BY <2>1, <2>2
  <2> QED
    BY <1>2, <2>2
<1> QED
  BY <1>1, <1>3 DEF Lost

LEMMA LostBegins ==
    ASSUME TypeInv, NEW sort \in Sorts, Begin(sort), whole \subseteq 1..n
    PROVE  /\ n' = n + 1 /\ whole' \subseteq 1..n' /\ UNCHANGED <<fifo, taken, wi, rpc, tpc, pulses, res, base>>
           /\ IF sort = "whole"
                THEN n' \in whole' /\ Lost' \subseteq Lost \cup {n'} /\ Lost' \ {n'} \subseteq Lost
                ELSE Lost' \subseteq Lost
PROOF
<1>1. /\ n' = n + 1 /\ UNCHANGED <<fifo, taken, wi, rpc, tpc, pulses, res, base>>
      /\ whole' = IF sort = "whole" THEN whole \cup {n + 1} ELSE whole
  BY DEF Begin, recvVars, magVars, tagVars
<1>2. n \in Nat /\ taken \in Seq(1..MaxFrames)
  BY Domains
<1>3. whole' \subseteq 1..n'
  BY <1>1, <1>2
<1>4. CASE sort = "whole"
  BY <1>1, <1>3, <1>4 DEF Lost
<1>5. CASE sort # "whole"
  BY <1>1, <1>3, <1>5 DEF Lost
<1> QED
  BY <1>1, <1>3, <1>4, <1>5

(* When a frame comes under one that is on its way, both do not go into the *)
(* buffer; and one that is in the buffer has left the threads at rest.      *)
LEMMA EarlyCloses ==
    ASSUME TypeInv, TypeInv', Calls, Meeting, Flow(F, FALSE), Begin("whole")
    PROVE  Closing'
PROOF
<1>0. /\ F \in Nat /\ F > 1 /\ Size \in Nat /\ Size < 2 * F /\ wi \in Nat /\ Rest \in Nat /\ Rest' \in Nat
  BY Domains, RestFacts, RestNext, OneFrameAssumption
<1>1. left = <<>> /\ UNCHANGED <<fifo, rpc, res, wi, tpc, pulses>> /\ Len(left') = F
  BY <1>0 DEF Begin, Length, recvVars, magVars
<1>2. CASE OnWay(F, FALSE)
  <2>1. wi + Rest = F
    BY <1>2, OnWayBusy
  <2>2. Rest' = Rest + F
    <3>1. Len(left) = 0 /\ Got' = Got /\ Len(fifo') = Len(fifo) /\ Len(fifo) \in Nat /\ Got \in Nat
      BY <1>1, RestFacts DEF Got
    <3> QED
      BY <1>0, <1>1, <3>1 DEF Rest
  <2>3. wi' + Rest' > Size
    BY <1>0, <1>1, <2>1, <2>2
  <2>4. Single'
    BY <1>1 DEF Meeting, Handshake, Full, Single
  <2> QED
    BY <2>3, <2>4 DEF Closing, Full
<1>3. CASE InHand(F, FALSE)
  <2>1. wi = 0 /\ LineQuiet /\ tpc \in {"recv", "send"}
    BY <1>3 DEF InHand
  <2>2. Rest = 0
    BY <2>1, RestFacts
  <2>3. pulses = 0
    BY <1>0, <2>1, <2>2, Domains DEF Meeting, Handshake, Full, Single
  <2> QED
    BY <2>1, <2>3, BeginMeets DEF LineQuiet, Closing, Sorts
<1> QED
  BY <1>2, <1>3 DEF Flow

LEMMA LossBegin ==
    ASSUME TypeInv, TypeInv', Calls, LossInv, [Next]_vars, NEW sort \in Sorts, Begin(sort)
    PROVE  LossInv'
PROOF
<1> DEFINE lost == Cardinality(Lost)
           other == Cardinality(Lost \ {n})
<1>0. hiccups \in Nat /\ hiccups' \in Nat /\ lost \in Nat /\ other \in Nat /\ lost <= other + 1
      /\ ((hiccups' = hiccups /\ Quiet) \/ hiccups' = hiccups + 1)
  BY Domains, LostFinite DEF Begin, Timely
<1>1. /\ n' = n + 1 /\ whole' \subseteq 1..n'
      /\ UNCHANGED <<fifo, taken, wi, rpc, tpc, pulses, res, base>>
      /\ sort = "whole" => n' \in whole' /\ Lost' \subseteq Lost \cup {n'} /\ Lost' \ {n'} \subseteq Lost
      /\ sort # "whole" => Lost' \subseteq Lost
  BY LostBegins DEF LossInv
<1>2. sort # "whole" => Cardinality(Lost') \in Nat /\ Cardinality(Lost') <= lost
  BY <1>1, LostFinite
<1>3. sort = "whole" => /\ Cardinality(Lost') \in Nat /\ Cardinality(Lost') <= lost + 1
                        /\ Cardinality(Lost' \ {n'}) \in Nat /\ Cardinality(Lost' \ {n'}) <= lost
  <2> SUFFICES ASSUME sort = "whole"
               PROVE  /\ Cardinality(Lost') \in Nat /\ Cardinality(Lost') <= lost + 1
                      /\ Cardinality(Lost' \ {n'}) \in Nat /\ Cardinality(Lost' \ {n'}) <= lost
    OBVIOUS
  <2>1. IsFiniteSet(Lost \cup {n'}) /\ Cardinality(Lost \cup {n'}) <= lost + 1 /\ Cardinality(Lost \cup {n'}) \in Nat
    BY LostFinite, FS_AddElement
  <2>2. Cardinality(Lost') \in Nat /\ Cardinality(Lost') <= Cardinality(Lost \cup {n'})
    BY <1>1, <2>1, FS_Subset, FS_CardinalityType
  <2>3. Cardinality(Lost' \ {n'}) \in Nat /\ Cardinality(Lost' \ {n'}) <= lost
    BY <1>1, LostFinite
  <2> HIDE DEF lost
  <2> QED
    BY <1>0, <2>1, <2>2, <2>3
<1> DEFINE lost1 == Cardinality(Lost')
           other1 == Cardinality(Lost' \ {n'})
<1>4. /\ sort # "whole" => lost1 \in Nat /\ lost1 <= lost
      /\ sort = "whole" => lost1 \in Nat /\ lost1 <= lost + 1 /\ other1 \in Nat /\ other1 <= lost
  BY <1>2, <1>3
<1>5. \/ lost + 1 <= 2 * hiccups
      \/ lost <= 2 * hiccups /\ Closing
      \/ n \in whole /\ other <= 2 * hiccups /\ Meeting /\ Flow(F, FALSE)
  BY DEF LossInv
<1>6. ASSUME \/ lost1 + 1 <= 2 * hiccups'
             \/ lost1 <= 2 * hiccups' /\ Closing'
             \/ n' \in whole' /\ other1 <= 2 * hiccups' /\ Meeting' /\ Flow(F, FALSE)'
      PROVE  LossInv'
  BY <1>1, <1>6 DEF LossInv
<1> HIDE DEF lost, other, lost1, other1
<1>7. CASE hiccups' = hiccups /\ Quiet
  <2>1. ~Flow(F, FALSE) \/ ~Meeting
    BY <1>7, QuietOver
  <2>2. Handshake'
    BY <1>7, BeginMeets DEF Quiet, LineQuiet
  <2>3. Closing'
    BY <2>2 DEF Closing
  <2>4. CASE sort # "whole"
    <3>1. lost <= 2 * hiccups
      <4>1. lost + 1 <= 2 * hiccups => lost <= 2 * hiccups
        BY <1>0
      <4> QED
        BY <1>5, <2>1, <4>1
    <3>2. lost1 <= 2 * hiccups'
      BY ONLY <1>0, <1>4, <1>7, <2>4, <3>1
    <3> QED
      BY <1>6, <2>3, <3>2
  <2>5. CASE sort = "whole" /\ lost + 1 <= 2 * hiccups
    <3>1. lost1 <= 2 * hiccups'
      BY ONLY <1>0, <1>4, <1>7, <2>5
    <3> QED
      BY <1>6, <2>3, <3>1
  <2>6. CASE sort = "whole" /\ lost <= 2 * hiccups /\ Closing
    <3>1. OnWay(Length(sort), sort = "damaged")'
      BY <1>7, <2>6, FlowBegins DEF LossInv
    <3>2. Length(sort) = F /\ (sort = "damaged") = FALSE
      BY <2>6 DEF Length
    <3>3. OnWay(F, FALSE)'
      BY <3>1, <3>2
    <3>4. Timed'
      BY <1>1, <1>7 DEF Timed, Settling, Quiet
    <3>5. Flow(F, FALSE)' /\ Meeting'
      BY <2>2, <3>3, <3>4 DEF Flow, Meeting
    <3>6. other1 <= 2 * hiccups'
      BY ONLY <1>0, <1>4, <1>7, <2>6
    <3> QED
      BY <1>1, <1>6, <2>6, <3>5, <3>6
  <2> QED
    BY <1>5, <2>1, <2>4, <2>5, <2>6
<1>8. CASE hiccups' = hiccups + 1
  <2>1. CASE lost <= 2 * hiccups \/ sort # "whole"
    <3>1. lost <= 2 * hiccups \/ (sort # "whole" /\ lost <= 2 * hiccups + 1)
      <4>1. /\ lost + 1 <= 2 * hiccups => lost <= 2 * hiccups
            /\ other <= 2 * hiccups => lost <= 2 * hiccups + 1
        BY <1>0
      <4> QED
        BY <1>5, <2>1, <4>1
    <3>2. lost1 + 1 <= 2 * hiccups'
      BY ONLY <1>0, <1>4, <1>8, <3>1
    <3> QED
      BY <1>6, <3>2
  <2>2. CASE ~(lost <= 2 * hiccups) /\ sort = "whole"
    <3>1. other <= 2 * hiccups /\ Meeting /\ Flow(F, FALSE)
      <4>1. lost + 1 <= 2 * hiccups => lost <= 2 * hiccups
        BY <1>0
      <4> QED
        BY <1>5, <2>2, <4>1
    <3>2. Closing'
      BY <2>2, <3>1, EarlyCloses
    <3>3. lost1 <= 2 * hiccups'
      <4>1. lost1 <= lost + 1 /\ other <= 2 * hiccups
        BY <1>4, <2>2, <3>1
      <4> QED
        BY ONLY <1>0, <1>4, <1>8, <2>2, <4>1
    <3> QED
      BY <1>6, <3>2, <3>3
  <2> QED
    BY <2>1, <2>2
<1> QED
  BY <1>0, <1>7, <1>8

LEMMA LossStep == TypeInv /\ TypeInv' /\ Calls /\ LossInv /\ [Next]_vars => LossInv'
PROOF
<1> SUFFICES ASSUME TypeInv, TypeInv', Calls, LossInv, [Next]_vars PROVE LossInv'
  OBVIOUS
<1>1. CASE \E sort \in Sorts : Begin(sort)
  BY <1>1, LossBegin
<1>2. CASE \A sort \in Sorts : ~Begin(sort)
  <2> DEFINE lost == Cardinality(Lost)
             other == Cardinality(Lost \ {n})
             lost1 == Cardinality(Lost')
             other1 == Cardinality(Lost' \ {n})
  <2>1. n' = n /\ whole' = whole /\ Lost' \subseteq Lost
    BY <1>2, TakenGrows
  <2>2. lost \in Nat /\ other \in Nat /\ lost <= other + 1
        /\ lost1 \in Nat /\ lost1 <= lost /\ other1 \in Nat /\ other1 <= other
    <3>1. Lost' \in SUBSET Lost /\ Lost' \ {n} \in SUBSET (Lost \ {n})
      BY <2>1
    <3> QED
      BY <3>1, LostFinite
  <2>3. \/ lost + 1 <= 2 * hiccups
        \/ lost <= 2 * hiccups /\ Closing
        \/ n \in whole /\ other <= 2 * hiccups /\ Meeting /\ Flow(F, FALSE)
    BY DEF LossInv
  <2>4. ASSUME \/ lost1 + 1 <= 2 * hiccups'
               \/ lost1 <= 2 * hiccups' /\ Closing'
               \/ n \in whole /\ other1 <= 2 * hiccups' /\ Meeting' /\ Flow(F, FALSE)'
        PROVE  LossInv'
    BY <2>1, <2>4 DEF LossInv
  <2>5. hiccups \in Nat /\ hiccups' \in Nat
    BY DEF TypeInv, TypeOK
  <2>6. ASSUME Accepts PROVE lost1 <= other
    <3>1. Lost' \in SUBSET (Lost \ {n})
      <4>1. \E k \in 1..Len(taken') : taken'[k] = n
        <5>1. taken \in Seq(1..MaxFrames) /\ Len(taken) \in Nat
          BY Domains, LenProperties
        <5>2. taken' = Append(taken, n)
          BY <2>6 DEF Accepts
        <5>3. Len(taken') = Len(taken) + 1 /\ taken'[Len(taken) + 1] = n
          BY <5>1, <5>2
        <5> QED
          BY <5>1, <5>3
      <4>2. n \notin Lost'
        BY <4>1 DEF Lost
      <4> QED
        BY <2>1, <4>2
    <3> QED
      BY <3>1, LostFinite
  <2> HIDE DEF lost, other, lost1, other1
  <2>7. CASE hiccups' = hiccups
    <3>1. CASE lost + 1 <= 2 * hiccups
      <4>1. lost1 + 1 <= 2 * hiccups'
        BY ONLY <2>2, <2>5, <2>7, <3>1
      <4> QED
        BY <2>4, <4>1
    <3>2. CASE lost <= 2 * hiccups /\ Closing
      <4>1. Closing'
        BY <2>7, <3>2, ClosingStep
      <4>2. lost <= 2 * hiccups
        BY <3>2
      <4>3. lost1 <= 2 * hiccups'
        BY ONLY <2>2, <2>5, <2>7, <4>2
      <4> QED
        BY <2>4, <4>1, <4>3
    <3>3. CASE n \in whole /\ other <= 2 * hiccups /\ Meeting /\ Flow(F, FALSE)
      <4>1. Meeting'
        BY <2>7, <3>3, MeetingStep
      <4>2. Flow(F, FALSE)' \/ Accepts
        <5>1. Flow(F, FALSE)' \/ Accepts \/ Refuses \/ Parts
          BY <2>7, <3>3, FlowStep
        <5> QED
          BY <5>1, <3>3 DEF Refuses, Parts
      <4>3. CASE Flow(F, FALSE)'
        <5>1. other <= 2 * hiccups
          BY <3>3
        <5>2. other1 <= 2 * hiccups'
          BY ONLY <2>2, <2>5, <2>7, <5>1
        <5> QED
          BY <2>4, <3>3, <4>1, <4>3, <5>2
      <4>4. CASE Accepts
        <5>1. lost1 <= 2 * hiccups'
          BY <2>2, <2>5, <2>6, <2>7, <3>3, <4>4
        <5>2. Closing'
          BY <4>1 DEF Meeting, Closing
        <5> QED
          BY <2>4, <5>1, <5>2
      <4> QED
        BY <4>2, <4>3, <4>4
    <3> QED
      BY <2>3, <3>1, <3>2, <3>3
  <2>8. CASE hiccups' # hiccups
    <3>1. hiccups' = hiccups + 1
      BY <1>2, <2>8 DEF Next, Arrive, Expire, Receive, ReceiveSelect, ReceiveRead, ReceiveTest, ReceiveAdd, ReceiveArmed,
         TimerPulse, Settle, TimerReleased, SettleLength, SettleZero, SettleSend, Trigger, TakeReceiveAsync,
         TakeTag, Bunch, AcceptState, AcceptRecving, AcceptInterval, Watchdog, Tick, TickCount, TickZero, TickSink, vars,
         Timely, lineVars
    <3>2. lost <= 2 * hiccups + 1
      <4>1. /\ lost + 1 <= 2 * hiccups => lost <= 2 * hiccups + 1
            /\ lost <= 2 * hiccups => lost <= 2 * hiccups + 1
            /\ other <= 2 * hiccups => lost <= 2 * hiccups + 1
        BY <2>2, <2>5
      <4> QED
        BY <2>3, <4>1
    <3>3. lost1 + 1 <= 2 * hiccups'
      BY ONLY <2>2, <2>5, <3>1, <3>2
    <3> QED
      BY <2>4, <3>3
  <2> QED
    BY <2>7, <2>8
<1> QED
  BY <1>1, <1>2

(* Whatever the timing, a breach of it costs two whole frames at most, once *)
(* the channel is at rest: the buffer takes no two frames, so what a hiccup *)
(* leaves in it is either handed over with the next frame or keeps the      *)
(* channel from coming to rest.                                             *)
THEOREM LossesBounded == Spec => []LossBounded
PROOF
<1>1. Init => LossInv
  <2> SUFFICES ASSUME Init PROVE LossInv
    OBVIOUS
  <2>1. whole = {} /\ hiccups = 0 /\ n = 0
    BY DEF Init
  <2>2. Lost = {} /\ Cardinality(Lost) = 0
    BY <2>1, FS_EmptySet DEF Lost
  <2>3. Closing
    BY CallsInit DEF Closing
  <2> QED
    BY <2>1, <2>2, <2>3 DEF LossInv
<1>2. TypeInv /\ LossInv => LossBounded
  <2> SUFFICES ASSUME TypeInv, LossInv, Quiet PROVE Cardinality(Lost) <= 2 * hiccups
    BY DEF LossBounded, Lost
  <2>1. ~(Meeting /\ Flow(F, FALSE))
    BY QuietOver
  <2>2. Cardinality(Lost) \in Nat /\ hiccups \in Nat
    BY LostFinite, Domains
  <2>3. Cardinality(Lost) + 1 <= 2 * hiccups => Cardinality(Lost) <= 2 * hiccups
    BY <2>2
  <2> QED
    BY <2>1, <2>3 DEF LossInv
<1> QED
  BY <1>1, <1>2, StaysTyped, CallsStay, LossStep, PTL DEF Spec

=============================================================================
