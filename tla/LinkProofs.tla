----------------------------- MODULE LinkProofs -----------------------------
(***************************************************************************)
(* Proofs about Link: its types, and that wm and tdc agree on the link,     *)
(* whether or not the priorities hold.                                      *)
(***************************************************************************)
EXTENDS Link, TLAPS, SequenceTheorems

WTags == {"accept", "recv", "close"} \X (0..Last)
MTags == {"link", "unlink", "debug"}

LEMMA AppendTyped ==
    ASSUME NEW S, NEW s \in Seq(S), NEW e \in S
    PROVE  Append(s, e) \in Seq(S) /\ Len(Append(s, e)) = Len(s) + 1
PROOF
  BY AppendProperties

LEMMA TailTyped ==
    ASSUME NEW S, NEW s \in Seq(S), s # <<>>
    PROVE  /\ Tail(s) \in Seq(S) /\ Len(Tail(s)) = Len(s) - 1 /\ Head(s) \in S
           /\ Len(s) \in Nat /\ Len(s) > 0
PROOF
  BY HeadTailProperties, LenProperties

LEMMA SendTagType ==
    ASSUME TypeOK, NEW tag \in WTags, SendTag(tag)
    PROVE  wtags' \in Seq(WTags) /\ Len(wtags') <= MaxTags
PROOF
<1>1. wtags \in Seq(WTags) /\ Len(wtags) < MaxTags /\ wtags' = Append(wtags, tag)
  BY DEF TypeOK, SendTag, WTags
<1> QED
  BY <1>1, AppendTyped, LenProperties, LinkAssumption

LEMMA PushType ==
    ASSUME TypeOK, NEW tag \in MTags, PushQueue(tag)
    PROVE  main' \in Seq(MTags) /\ Len(main') <= MaxTags /\ lost' \in BOOLEAN
PROOF
<1>1. main \in Seq(MTags) /\ Len(main) <= MaxTags /\ lost \in BOOLEAN /\ hPush \in BOOLEAN
  BY DEF TypeOK, MTags
<1>2. CASE hPush /\ pHost
  <2>1. Len(main) < MaxTags /\ main' = Append(main, tag) /\ lost' = lost
    BY <1>2 DEF PushQueue
  <2> QED
    BY <1>1, <2>1, AppendTyped, LenProperties, LinkAssumption
<1>3. CASE ~(hPush /\ pHost)
  <2>1. main' = main /\ lost' = (lost \/ hPush)
    BY <1>3 DEF PushQueue
  <2> QED
    BY <1>1, <2>1
<1> QED
  BY <1>2, <1>3

(* Init gives every variable its type. *)
LEMMA TypeInit == Init => TypeOK
PROOF
<1> SUFFICES ASSUME Init PROVE TypeOK
  OBVIOUS
<1> USE LinkAssumption
<1>1. 0 \in 0..MaxBreaches /\ 0 \in 0..MaxAsks /\ 0 \in 0..Last /\ 1 <= MaxMsg /\ 0 <= MaxTags
  OBVIOUS
<1>2. Message("none") \in Messages /\ Message("conts") \in Messages
  BY DEF Message, Messages, Kinds
<1>3. pull \in Seq(Messages) /\ Len(pull) = 1
  BY <1>2 DEF Init
<1>4. /\ text \in [Monitors -> Seq({"REPTU", "FRXBP"})] /\ first \in [Monitors -> Messages \cup {<<>>}]
      /\ peer \in [Monitors -> {"away", "here", "gone"}] /\ sock \in [Monitors -> {"none", "open", "closed"}]
      /\ note \in [Monitors -> {"off", "armed", "look", "rework"}]
  BY DEF Init
<1>5. /\ spc \in [Senders -> {"rest", "look", "head", "tail", "put", "done"}] /\ kind \in [Senders -> Kinds]
  BY DEF Init, Kinds
<1>6. wtags \in Seq(WTags) /\ main \in Seq(MTags) /\ Len(wtags) = 0 /\ Len(main) = 0
  BY DEF Init
<1>7. selected \in BOOLEAN /\ lost \in BOOLEAN /\ hPush \in BOOLEAN /\ pHost \in BOOLEAN /\ bOpen \in BOOLEAN /\ bIdle \in BOOLEAN
  BY DEF Init
<1>8. /\ breaches = 0 /\ asks = 0 /\ server = "armed" /\ accepting = 0 /\ client = 0 /\ wto = 0 /\ wpc = "recv"
      /\ wmsg = Message("none") /\ wmm = Message("none")
  BY DEF Init
<1> QED
  BY <1>1, <1>2, <1>3, <1>4, <1>5, <1>6, <1>7, <1>8 DEF TypeOK, WTags, MTags

(* What comes at a socket moves nothing but its notification thread. *)
LEMMA HeardType ==
    ASSUME TypeOK, NEW c \in Monitors, HeardAt(c)
    PROVE  /\ note' = note \/ (note[c] = "armed" /\ sock[c] = "open" /\ note' = [note EXCEPT ![c] = "look"])
           /\ note' \in [Monitors -> {"off", "armed", "look", "rework"}]
           /\ UNCHANGED <<sock, server, accepting>>
PROOF
<1>1. note \in [Monitors -> {"off", "armed", "look", "rework"}]
  BY DEF TypeOK
<1>2. note' = note \/ (note[c] = "armed" /\ sock[c] = "open" /\ note' = [note EXCEPT ![c] = "look"])
  BY DEF HeardAt, Heard
<1> QED
  BY <1>1, <1>2 DEF HeardAt

LEMMA TypeStep == TypeOK /\ [Next]_vars => TypeOK'
PROOF
<1> SUFFICES ASSUME TypeOK, [Next]_vars PROVE TypeOK'
  OBVIOUS
<1> USE LinkAssumption DEF TypeOK, Monitors, Senders, monVars, sockVars, pumpVars, watchVars, gateVars
<1>0. wtags \in Seq(WTags) /\ main \in Seq(MTags) /\ pull \in Seq(Messages)
  BY DEF WTags, MTags
<1>1. ASSUME NEW c \in Monitors, CallIn(c) PROVE TypeOK'
  <2>1. server' \in {"armed", "accept", "rework"}
    BY <1>1 DEF CallIn, Heard
  <2> QED
    BY <1>1, <2>1 DEF CallIn, Allowed
<1>2. ASSUME NEW c \in Monitors, Leave(c) PROVE TypeOK'
  BY <1>2, HeardType DEF Leave
<1>3. ASSUME NEW c \in Monitors, NEW what \in {"REPTU", "FRXBP"}, Ask(c, what) PROVE TypeOK'
  <2>1. Append(text[c], what) \in Seq({"REPTU", "FRXBP"})
    BY AppendTyped
  <2>2. text' \in [Monitors -> Seq({"REPTU", "FRXBP"})]
    BY <1>3, <2>1 DEF Ask
  <2>3. breaches' \in 0..MaxBreaches /\ asks' \in 0..MaxAsks
    BY <1>3 DEF Ask, Allowed
  <2> QED
    BY <1>3, <2>2, <2>3, HeardType DEF Ask
<1>4. ASSUME NEW c \in Monitors, Accept(c) PROVE TypeOK'
  BY <1>4 DEF Accept
<1>5. CASE AcceptTag
  <2>1. wtags' \in Seq(WTags) /\ Len(wtags') <= MaxTags
    BY <1>5, SendTagType DEF AcceptTag, WTags
  <2> QED
    BY <1>5, <2>1 DEF AcceptTag, WTags
<1>6. CASE ServerRework
  BY <1>6 DEF ServerRework
<1>7. ASSUME NEW c \in Monitors, HandlerLook(c) PROVE TypeOK'
  <2>1. wtags' \in Seq(WTags) /\ Len(wtags') <= MaxTags
    <3>1. <<"recv", 0>> \in WTags /\ <<"close", 0>> \in WTags
      BY DEF WTags
    <3>2. wtags' = wtags \/ SendTag(<<"recv", 0>>) \/ SendTag(<<"close", 0>>)
      BY <1>7 DEF HandlerLook
    <3> QED
      BY <3>1, <3>2, <1>0, SendTagType
  <2>2. note' \in [Monitors -> {"off", "armed", "look", "rework"}]
    <3>1. note \in [Monitors -> {"off", "armed", "look", "rework"}]
      OBVIOUS
    <3>2. \E s \in {"off", "rework"} : note' = [note EXCEPT ![c] = s]
      BY <1>7 DEF HandlerLook
    <3> HIDE DEF TypeOK
    <3> QED
      BY <3>1, <3>2
  <2> QED
    BY <1>7, <2>1, <2>2 DEF HandlerLook, WTags, Allowed
<1>8. ASSUME NEW c \in Monitors, HandlerRework(c) PROVE TypeOK'
  BY <1>8 DEF HandlerRework
<1>9. ASSUME wtags # <<>>, wtags' = Tail(wtags)
      PROVE  /\ wtags' \in Seq(WTags) /\ Len(wtags') <= MaxTags /\ Head(wtags)[2] \in 0..Last
  BY <1>9, <1>0, TailTyped DEF WTags
<1>10. ASSUME NEW c \in 0..Last PROVE Closed(c) \in [Monitors -> {"none", "open", "closed"}]
  BY DEF Closed
<1>11. CASE TakeSockAccept
  BY <1>9, <1>10, <1>11 DEF TakeSockAccept, WTags
<1>12. CASE TakeSockReceive
  <2>1. wtags' \in Seq(WTags) /\ Len(wtags') <= MaxTags
    BY <1>9, <1>12 DEF TakeSockReceive
  <2>2. text' \in [Monitors -> Seq({"REPTU", "FRXBP"})]
    <3>1. text' = text \/ (client \in Monitors /\ text' = [text EXCEPT ![client] = <<>>])
      BY <1>12 DEF TakeSockReceive
    <3>2. <<>> \in Seq({"REPTU", "FRXBP"})
      OBVIOUS
    <3> QED
      BY <3>1, <3>2
  <2>3. main' \in Seq(MTags) /\ Len(main') <= MaxTags /\ lost' \in BOOLEAN
    BY <1>12, <1>0, PushType DEF TakeSockReceive, MTags
  <2>4. selected' \in BOOLEAN
    BY <1>12 DEF TakeSockReceive
  <2> QED
    BY <1>12, <2>1, <2>2, <2>3, <2>4 DEF TakeSockReceive, WTags, MTags
<1>13. CASE TakeSockClose
  <2>1. wtags' \in Seq(WTags) /\ Len(wtags') <= MaxTags
    BY <1>9, <1>13 DEF TakeSockClose
  <2>2. main' \in Seq(MTags) /\ Len(main') <= MaxTags /\ lost' \in BOOLEAN
    BY <1>13, <1>0, PushType DEF TakeSockClose, MTags
  <2>3. selected' \in BOOLEAN /\ client' \in 0..Last /\ sock' \in [Monitors -> {"none", "open", "closed"}]
    <3>1. CASE client = 0
      BY <1>13, <3>1 DEF TakeSockClose
    <3>2. CASE client # 0
      <4>1. sock' = Closed(client) /\ client' = 0 /\ selected' = FALSE
        BY <1>13, <3>2 DEF TakeSockClose
      <4>2. selected' \in BOOLEAN
        BY <4>1
      <4> QED
        BY <1>10, <4>1, <4>2
    <3> QED
      BY <3>1, <3>2
  <2> QED
    BY <1>13, <2>1, <2>2, <2>3 DEF TakeSockClose, WTags, MTags
<1>14. CASE WatchReceive
  <2>1. pull' \in Seq(Messages) /\ Len(pull') <= MaxMsg /\ Head(pull) \in Messages
    BY <1>14, TailTyped DEF WatchReceive
  <2>2. /\ hPush' \in BOOLEAN /\ wpc' \in {"recv", "host", "send"} /\ wmsg' \in Messages /\ wto' \in 0..Last
        /\ wpc' = "send" => wto' # 0
    BY <1>14, <2>1 DEF WatchReceive
  <2> QED
    BY <1>14, <2>1, <2>2 DEF WatchReceive
<1>15. CASE WatchHost
  BY <1>15 DEF WatchHost
<1>16. CASE WatchSend
  <2>1. wto \in Monitors
    BY <1>16 DEF WatchSend
  <2>2. first' \in [Monitors -> Messages \cup {<<>>}]
    BY <1>16, <2>1 DEF WatchSend
  <2>3. wmsg' \in Messages
    BY <1>16 DEF WatchSend, Message, Messages, Kinds
  <2> QED
    BY <1>16, <2>2, <2>3 DEF WatchSend
<1>17. ASSUME main # <<>>, main' = Tail(main) PROVE main' \in Seq(MTags) /\ Len(main') <= MaxTags
  BY <1>17, <1>0, TailTyped
<1>18. CASE TakeLinkWm
  <2>1. kind' \in [Senders -> Kinds] /\ spc' \in [Senders -> {"rest", "look", "head", "tail", "put", "done"}] /\ bOpen' \in BOOLEAN
    BY <1>18 DEF TakeLinkWm, Kinds
  <2> QED
    BY <1>17, <1>18, <2>1 DEF TakeLinkWm, MTags
<1>19. CASE TakeUnlinkWm
  <2>1. bOpen' \in BOOLEAN
    BY <1>19 DEF TakeUnlinkWm
  <2> QED
    BY <1>17, <1>19, <2>1 DEF TakeUnlinkWm, MTags
<1>20. CASE TakeLinked
  BY <1>20 DEF TakeLinked
<1>21. CASE PulseSend
  BY <1>21 DEF PulseSend, Kinds
<1>22. ASSUME NEW t \in Senders, Send(t) PROVE TypeOK'
  <2>1. CASE SendLook(t)
    <3>1. spc' \in [Senders -> {"rest", "look", "head", "tail", "put", "done"}] /\ kind' \in [Senders -> Kinds]
      <4>1. (Goes(t, "head") /\ kind' = kind) \/ Returns(t)
        BY <2>1 DEF SendLook
      <4> QED
        BY <4>1 DEF Goes, Returns, Kinds
    <3>2. bIdle' \in BOOLEAN /\ wmm' \in Messages
      BY <2>1 DEF SendLook, Message, Messages, Kinds
    <3> QED
      BY <2>1, <3>1, <3>2 DEF SendLook
  <2>2. CASE SendHead(t)
    <3>1. wmm' \in Messages
      BY <2>2 DEF SendHead, Messages, Kinds
    <3> QED
      BY <2>2, <3>1 DEF SendHead, Goes
  <2>3. CASE SendTail(t)
    <3>1. wmm' \in Messages
      BY <2>3 DEF SendTail, Messages
    <3> QED
      BY <2>3, <3>1 DEF SendTail, Goes
  <2>4. CASE SendPut(t)
    <3>1. pull' \in Seq(Messages) /\ Len(pull') <= MaxMsg
      BY <2>4, AppendTyped, LenProperties DEF SendPut
    <3>2. spc' \in [Senders -> {"rest", "look", "head", "tail", "put", "done"}] /\ kind' \in [Senders -> Kinds]
      BY <2>4 DEF SendPut, Returns, Goes, Kinds
    <3> QED
      BY <2>4, <3>1, <3>2 DEF SendPut
  <2> QED
    BY <1>22, <2>1, <2>2, <2>3, <2>4 DEF Send
<1>23. CASE UNCHANGED vars
  BY <1>23 DEF vars
<1> QED
  BY <1>1, <1>2, <1>3, <1>4, <1>5, <1>6, <1>7, <1>8, <1>11, <1>12, <1>13, <1>14, <1>15, <1>16,
     <1>18, <1>19, <1>20, <1>21, <1>22, <1>23 DEF Next, Pump, Watcher

(* Every variable stays in its domain, and no queue is ever over full,      *)
(* whatever the monitors do and whether or not the priorities hold.         *)
THEOREM TypeCorrect == Spec => []TypeOK
PROOF
  BY TypeInit, TypeStep, PTL DEF Spec

-----------------------------------------------------------------------------
(* What tdc's gate will be when it has taken all that is queued is what wm  *)
(* holds for selected.                                                      *)
Passed(i) == \A j \in i..Len(main) : main[j] = "debug"

Agree ==
    \/ Passed(1) /\ (bOpen <=> selected)
    \/ \E i \in 1..Len(main) : Passed(i + 1) /\ main[i] # "debug" /\ (main[i] = "link" <=> selected)

AgreeInv == (selected => hPush) /\ (~lost => Agree)

LEMMA AgreePush ==
    ASSUME TypeOK, AgreeInv, NEW tag \in {"link", "unlink", "debug"}, PushQueue(tag),
           UNCHANGED <<bOpen, hPush>>, selected' \in BOOLEAN,
           hPush => (selected' <=> tag = "link" \/ (tag = "debug" /\ selected)),
           ~hPush => ~selected'
    PROVE  AgreeInv'
PROOF
<1>0. main \in Seq({"link", "unlink", "debug"}) /\ Len(main) \in Nat /\ lost \in BOOLEAN /\ hPush \in BOOLEAN
  BY LenProperties DEF TypeOK
<1>1. selected' => hPush'
  OBVIOUS
<1>2. ASSUME ~lost' PROVE Agree'
  <2>1. CASE hPush /\ pHost
    <3>1. main' = Append(main, tag) /\ lost' = lost
      BY <2>1 DEF PushQueue
    <3>2. Len(main') = Len(main) + 1 /\ \A j \in 1..Len(main') : main'[j] = IF j = Len(main) + 1 THEN tag ELSE main[j]
      BY <3>1, <1>0
    <3>3. CASE tag # "debug"
      <4>1. \A j \in (Len(main') + 1)..Len(main') : main'[j] = "debug"
        BY <3>2, <1>0
      <4>2. Len(main') \in 1..Len(main') /\ main'[Len(main')] = tag
        BY <3>2, <1>0
      <4>3. tag = "link" <=> selected'
        BY <2>1, <3>3
      <4> QED
        BY <3>3, <4>1, <4>2, <4>3 DEF Agree, Passed
    <3>4. CASE tag = "debug"
      <4>1. \A i \in 1..(Len(main) + 1) : Passed(i) => Passed(i)'
        BY <3>2, <3>4, <1>0 DEF Passed
      <4>2. selected' <=> selected
        BY <2>1, <3>4
      <4>3. CASE Passed(1) /\ (bOpen <=> selected)
        BY <4>1, <4>2, <4>3, <1>0 DEF Agree
      <4>4. CASE \E i \in 1..Len(main) : Passed(i + 1) /\ main[i] # "debug" /\ (main[i] = "link" <=> selected)
        <5>1. PICK i \in 1..Len(main) : Passed(i + 1) /\ main[i] # "debug" /\ (main[i] = "link" <=> selected)
          BY <4>4
        <5>2. i \in 1..Len(main') /\ main'[i] = main[i] /\ Passed(i + 1)'
          BY <3>2, <4>1, <5>1, <1>0
        <5> QED
          BY <4>2, <5>1, <5>2 DEF Agree
      <4> QED
        BY <1>2, <3>1, <4>3, <4>4 DEF AgreeInv, Agree
    <3> QED
      BY <3>3, <3>4
  <2>2. CASE ~(hPush /\ pHost)
    <3>1. main' = main /\ lost' = (lost \/ hPush)
      BY <2>2 DEF PushQueue
    <3>2. ~hPush /\ ~selected /\ ~selected' /\ ~lost
      BY <1>2, <3>1, <1>0 DEF AgreeInv
    <3> QED
      BY <3>1, <3>2 DEF AgreeInv, Agree, Passed
  <2> QED
    BY <2>1, <2>2
<1> QED
  BY <1>1, <1>2 DEF AgreeInv

(* Taking the first tag brings the gate one tag nearer. *)
LEMMA AgreeTake ==
    ASSUME TypeOK, AgreeInv, main # <<>>, main' = Tail(main), UNCHANGED <<selected, hPush, lost>>,
           bOpen' <=> Head(main) = "link" \/ (Head(main) = "debug" /\ bOpen)
    PROVE  AgreeInv'
PROOF
<1>0. main \in Seq({"link", "unlink", "debug"}) /\ Len(main) \in Nat /\ Len(main) > 0
  BY LenProperties DEF TypeOK
<1>1. Len(main') = Len(main) - 1 /\ \A j \in 1..Len(main') : main'[j] = main[j + 1]
  BY <1>0
<1>2. Head(main) = main[1]
  BY <1>0
<1>3. ASSUME ~lost PROVE Agree'
  <2>1. \A i \in 1..Len(main) : Passed(i + 1) => Passed(i)'
    BY <1>0, <1>1 DEF Passed
  <2>2. CASE Passed(1) /\ (bOpen <=> selected)
    <3>1. main[1] = "debug" /\ Passed(2)
      BY <2>2, <1>0 DEF Passed
    <3>2. Passed(1)'
      BY <2>1, <3>1, <1>0
    <3> QED
      BY <2>2, <3>1, <3>2, <1>2 DEF Agree
  <2>3. CASE \E i \in 1..Len(main) : Passed(i + 1) /\ main[i] # "debug" /\ (main[i] = "link" <=> selected)
    <3>1. PICK i \in 1..Len(main) : Passed(i + 1) /\ main[i] # "debug" /\ (main[i] = "link" <=> selected)
      BY <2>3
    <3>2. CASE i = 1
      <4>1. Passed(1)'
        BY <2>1, <3>1, <3>2
      <4>2. bOpen' <=> selected'
        BY <3>1, <3>2, <1>2
      <4> QED
        BY <4>1, <4>2 DEF Agree
    <3>3. CASE i # 1
      <4>1. i - 1 \in 1..Len(main') /\ main'[i - 1] = main[i] /\ Passed((i - 1) + 1)'
        BY <2>1, <3>1, <3>3, <1>0, <1>1
      <4> QED
        BY <3>1, <4>1 DEF Agree
    <3> QED
      BY <3>2, <3>3
  <2> QED
    BY <1>3, <2>2, <2>3 DEF AgreeInv, Agree
<1> QED
  BY <1>3 DEF AgreeInv

LEMMA AgreeStep == TypeOK /\ AgreeInv /\ [Next]_vars => AgreeInv'
PROOF
<1> SUFFICES ASSUME TypeOK, AgreeInv, [Next]_vars PROVE AgreeInv'
  OBVIOUS
<1> USE DEF monVars, sockVars, pumpVars, watchVars, gateVars
<1>1. ASSUME UNCHANGED <<main, bOpen, selected, lost>>, hPush => hPush' PROVE AgreeInv'
  BY <1>1 DEF AgreeInv, Agree, Passed
<1>2. ASSUME NEW c \in Monitors,
             CallIn(c) \/ Leave(c) \/ (\E what \in {"REPTU", "FRXBP"} : Ask(c, what)) \/ Accept(c)
             \/ HandlerLook(c) \/ HandlerRework(c)
      PROVE  AgreeInv'
  BY <1>1, <1>2 DEF CallIn, Leave, Ask, Accept, HandlerLook, HandlerRework
<1>3. CASE AcceptTag \/ ServerRework \/ TakeSockAccept
  BY <1>1, <1>3 DEF AcceptTag, ServerRework, TakeSockAccept
<1>4. CASE TakeSockReceive
  <2>1. CASE client # 0 /\ text[client] = <<"REPTU">>
    <3>1. PushQueue("link") /\ selected' = hPush /\ UNCHANGED <<bOpen, hPush>>
      BY <1>4, <2>1 DEF TakeSockReceive
    <3>2. hPush \in BOOLEAN
      BY DEF TypeOK
    <3> QED
      BY <3>1, <3>2, AgreePush
  <2>2. CASE client # 0 /\ text[client] # <<"REPTU">> /\ text[client] # <<>> /\ Head(text[client]) = "FRXBP"
    <3>1. PushQueue("debug") /\ UNCHANGED <<selected, bOpen, hPush>>
      BY <1>4, <2>2 DEF TakeSockReceive
    <3>2. selected \in BOOLEAN /\ (~hPush => ~selected)
      BY DEF TypeOK, AgreeInv
    <3> QED
      BY <3>1, <3>2, AgreePush
  <2>3. CASE client = 0 \/ (text[client] # <<"REPTU">> /\ ~(text[client] # <<>> /\ Head(text[client]) = "FRXBP"))
    BY <1>1, <1>4, <2>3 DEF TakeSockReceive
  <2> QED
    BY <2>1, <2>2, <2>3
<1>5. CASE TakeSockClose
  <2>1. CASE client # 0 /\ selected
    <3>1. PushQueue("unlink") /\ selected' = FALSE /\ UNCHANGED <<bOpen, hPush>>
      BY <1>5, <2>1 DEF TakeSockClose
    <3>2. selected' \in BOOLEAN /\ ~selected'
      BY <3>1
    <3> QED
      BY <3>1, <3>2, AgreePush
  <2>2. CASE client = 0 \/ ~selected
    <3>1. UNCHANGED <<main, lost, bOpen, hPush>> /\ (selected' <=> selected)
      BY <1>5, <2>2 DEF TakeSockClose
    <3> QED
      BY <3>1 DEF AgreeInv, Agree, Passed
  <2> QED
    BY <2>1, <2>2
<1>6. CASE Watcher
  BY <1>1, <1>6 DEF Watcher, WatchReceive, WatchHost, WatchSend
<1>7. CASE TakeLinkWm
  <2>1. /\ main # <<>> /\ main' = Tail(main) /\ Head(main) = "link" /\ bOpen'
        /\ UNCHANGED <<selected, hPush, lost>>
    BY <1>7 DEF TakeLinkWm
  <2> QED
    BY <2>1, AgreeTake
<1>8. CASE TakeUnlinkWm
  <2>1. /\ main # <<>> /\ main' = Tail(main) /\ Head(main) # "link"
        /\ bOpen' = (Head(main) = "debug" /\ bOpen)
        /\ UNCHANGED <<selected, hPush, lost>>
    BY <1>8 DEF TakeUnlinkWm
  <2> QED
    BY <2>1, AgreeTake
<1>9. CASE TakeLinked \/ PulseSend
  BY <1>1, <1>9 DEF TakeLinked, PulseSend
<1>10. ASSUME NEW t \in Senders, Send(t) PROVE AgreeInv'
  BY <1>1, <1>10 DEF Send, SendLook, SendHead, SendTail, SendPut
<1>11. CASE UNCHANGED vars
  BY <1>1, <1>11 DEF vars
<1> QED
  BY <1>2, <1>3, <1>4, <1>5, <1>6, <1>7, <1>8, <1>9, <1>10, <1>11 DEF Next, Pump

(* Whatever the monitors do, in whatever order the sockets' threads run,    *)
(* and whether or not the priorities hold: when tdc has taken all that wm   *)
(* pushed, the gate is open exactly if wm takes the link for selected.      *)
THEOREM BothAgree == Spec => []LinkAgrees
PROOF
<1>1. Init => AgreeInv
  BY DEF Init, AgreeInv, Agree, Passed
<1>2. TypeOK /\ AgreeInv => LinkAgrees
  <2> SUFFICES ASSUME TypeOK, AgreeInv, main = <<>>, ~lost PROVE bOpen = selected
    BY DEF LinkAgrees
  <2>1. bOpen \in BOOLEAN /\ selected \in BOOLEAN
    BY DEF TypeOK
  <2>2. bOpen <=> selected
    BY DEF AgreeInv, Agree
  <2> QED
    BY <2>1, <2>2
<1> QED
  BY <1>1, <1>2, TypeCorrect, AgreeStep, PTL DEF Spec
=============================================================================
