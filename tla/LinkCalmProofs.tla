--------------------------- MODULE LinkCalmProofs ---------------------------
(***************************************************************************)
(* Proofs about Link while the priorities hold and no monitor breaches its  *)
(* manners: whose the open gate is, which message comes first, and on whom  *)
(* wm hangs up.                                                             *)
(***************************************************************************)
EXTENDS LinkProofs

(* The monitors come one after the other: one that has called finds its     *)
(* predecessors gone and wm ready, and wm knows nothing of one that has not.*)
OneByOne ==
    \A c \in Monitors :
        /\ peer[c] = "away" => sock[c] = "none" /\ first[c] = <<>>
        /\ peer[c] # "away" =>
              hPush /\ pHost /\ \A d \in 1..(c - 1) : peer[d] = "gone" /\ sock[d] = "closed"

(* How far wm has come with an open socket: its ACCEPT tag is to be queued, *)
(* is queued, or it is the client.  A tag of input leaves the thread in     *)
(* Rework until it is taken, and nothing but a monitor that left is taken   *)
(* for a close.                                                             *)
Accepted(c) == accepting = c /\ client = 0 /\ wtags = <<>> /\ note[c] \in {"armed", "look"}
Announced(c) ==
    accepting = 0 /\ client = 0 /\ wtags = <<<<"accept", c>>>> /\ note[c] \in {"armed", "look"}
Client(c) ==
    /\ accepting = 0 /\ client = c
    /\ \/ wtags = <<>> /\ note[c] \in {"armed", "look", "rework"}
       \/ wtags = <<<<"recv", 0>>>> /\ note[c] = "rework"
       \/ wtags = <<<<"close", 0>>>> /\ note[c] = "off" /\ peer[c] = "gone"

Open(c) == sock[c] = "open"
Staged ==
    /\ \A c \in Monitors : Open(c) =>
          /\ Accepted(c) \/ Announced(c) \/ Client(c)
          /\ note[c] = "look" => text[c] # <<>> \/ peer[c] = "gone"
    /\ (\A c \in Monitors : ~Open(c)) => accepting = 0 /\ client = 0 /\ wtags = <<>>

(* How far the first message of a monitor has come. *)
Init1 == Message("INIT")
Live(c) == peer[c] # "away" /\ sock[c] # "closed"
Unasked == ~bOpen /\ spc["tag"] = "rest" /\ pull = <<>> /\ wpc = "recv"
Built ==
    /\ spc["tag"] \in {"look", "head", "tail", "put"} /\ kind["tag"] = "INIT"
    /\ spc["tag"] = "tail" => wmm[1] = "INIT"
    /\ spc["tag"] = "put" => wmm = Init1
    /\ pull = <<>> /\ wpc = "recv"
Queued == pull # <<>> /\ Head(pull) = Init1 /\ wpc = "recv"
Sent(c) == wpc = "send" /\ wmsg = Init1 /\ wto = c
Still(c) == first[c] = <<>> /\ spc["pulse"] = "rest" /\ Unasked
Underway(c) ==
    \/ Still(c)
    \/ first[c] = <<>> /\ spc["pulse"] = "rest" /\ Built
    \/ first[c] = <<>> /\ (Queued \/ Sent(c))
    \/ first[c] = Init1

Started ==
    /\ \A c \in Monitors : first[c] \in {<<>>, Init1}
    /\ \A c \in Monitors : Live(c) => Underway(c) /\ (client # c => main = <<>> /\ Still(c))
    /\ selected => client # 0
    /\ ~lost

CalmInv == breaches = 0 => OneByOne /\ Staged /\ Started

-----------------------------------------------------------------------------
Functions ==
    /\ peer \in [Monitors -> {"away", "here", "gone"}]
    /\ text \in [Monitors -> Seq({"REPTU", "FRXBP"})]
    /\ first \in [Monitors -> Messages \cup {<<>>}]
    /\ sock \in [Monitors -> {"none", "open", "closed"}]
    /\ note \in [Monitors -> {"off", "armed", "look", "rework"}]
    /\ client \in 0..Last /\ Monitors \subseteq Int /\ 0 \notin Monitors

LEMMA Typed == TypeOK => Functions
PROOF
  BY LinkAssumption DEF TypeOK, Functions, Monitors

(* No step takes a breach back. *)
LEMMA BreachesStay == TypeOK /\ [Next]_vars /\ breaches' = 0 => breaches = 0
PROOF
<1> SUFFICES ASSUME TypeOK, [Next]_vars, breaches' = 0 PROVE breaches = 0
  OBVIOUS
<1> USE DEF monVars, sockVars, pumpVars, watchVars, gateVars
<1>0. breaches \in Nat
  BY LinkAssumption DEF TypeOK
<1>1. ASSUME NEW c \in Monitors, NEW what,
             CallIn(c) \/ Leave(c) \/ Ask(c, what) \/ Accept(c) \/ HandlerLook(c) \/ HandlerRework(c)
      PROVE  breaches = 0
  BY <1>0, <1>1 DEF CallIn, Leave, Ask, Accept, HandlerLook, HandlerRework, Allowed
<1>2. CASE AcceptTag \/ ServerRework \/ Pump \/ Watcher
  BY <1>2 DEF AcceptTag, ServerRework, Pump, TakeSockAccept, TakeSockReceive, TakeSockClose,
              Watcher, WatchReceive, WatchHost, WatchSend
<1>3. CASE TakeLinkWm \/ TakeUnlinkWm \/ TakeLinked \/ PulseSend
  BY <1>3 DEF TakeLinkWm, TakeUnlinkWm, TakeLinked, PulseSend
<1>4. ASSUME NEW t \in Senders, Send(t) PROVE breaches = 0
  BY <1>4 DEF Send, SendLook, SendHead, SendTail, SendPut
<1>5. CASE UNCHANGED vars
  BY <1>5 DEF vars
<1> QED
  BY <1>1, <1>2, <1>3, <1>4, <1>5 DEF Next

(* At most one socket is open: each monitor that called found its           *)
(* predecessors' sockets closed.                                            *)
LEMMA OneOpen ==
    ASSUME Functions, OneByOne, NEW c \in Monitors, NEW d \in Monitors, Open(c), Open(d)
    PROVE  c = d
PROOF
<1>1. peer[c] # "away" /\ peer[d] # "away"
  BY DEF OneByOne, Open
<1>2. c < d \/ d < c \/ c = d
  BY DEF Functions
<1>3. ASSUME c < d PROVE FALSE
  <2>1. c \in 1..(d - 1)
    BY <1>3 DEF Monitors
  <2> QED
    BY <1>1, <2>1 DEF OneByOne, Open
<1>4. ASSUME d < c PROVE FALSE
  <2>1. d \in 1..(c - 1)
    BY <1>4 DEF Monitors
  <2> QED
    BY <1>1, <2>1 DEF OneByOne, Open
<1> QED
  BY <1>2, <1>3, <1>4

(* wm's client has the open socket. *)
LEMMA ClientOpen ==
    ASSUME Functions, Staged, client # 0
    PROVE  client \in Monitors /\ Open(client) /\ Client(client)
PROOF
<1>1. PICK c \in Monitors : Open(c)
  BY DEF Staged
<1>2. Accepted(c) \/ Announced(c) \/ Client(c)
  BY <1>1 DEF Staged
<1>3. client = c /\ Client(c)
  BY <1>2 DEF Accepted, Announced, Client
<1> QED
  BY <1>1, <1>3

LEMMA OneByOneStep ==
    ASSUME TypeOK, OneByOne, Staged, Started, [Next]_vars, breaches = 0, breaches' = 0
    PROVE  OneByOne'
PROOF
<1> USE DEF monVars, sockVars, pumpVars, watchVars, gateVars
<1>0. Functions
  BY Typed
<1>s. ASSUME UNCHANGED <<peer, sock, first>>, hPush => hPush', pHost => pHost' PROVE OneByOne'
  BY <1>s DEF OneByOne
<1>1. ASSUME NEW c \in Monitors, CallIn(c) PROVE OneByOne'
  <2>1. hPush /\ pHost /\ \A d \in 1..(c - 1) : peer[d] = "gone" /\ sock[d] = "closed"
    BY <1>1 DEF CallIn, Allowed
  <2>2. peer' = [peer EXCEPT ![c] = "here"] /\ UNCHANGED <<sock, first, hPush, pHost>> /\ peer[c] = "away"
    BY <1>1 DEF CallIn
  <2>3. ASSUME NEW e \in Monitors, peer'[e] = "away" PROVE sock'[e] = "none" /\ first'[e] = <<>>
    BY <1>0, <2>2, <2>3 DEF OneByOne, Functions
  <2>4. ASSUME NEW e \in Monitors, peer'[e] # "away"
        PROVE  hPush' /\ pHost' /\ \A d \in 1..(e - 1) : peer'[d] = "gone" /\ sock'[d] = "closed"
    <3>1. CASE e = c
      BY <1>0, <2>1, <2>2, <3>1 DEF Functions, Monitors
    <3>2. CASE e # c
      <4>1. peer[e] # "away"
        BY <1>0, <2>2, <2>4, <3>2 DEF Functions
      <4>2. \A d \in 1..(e - 1) : peer[d] = "gone" /\ sock[d] = "closed"
        BY <4>1 DEF OneByOne
      <4> QED
        BY <1>0, <2>1, <2>2, <4>2 DEF Functions, Monitors
    <3> QED
      BY <3>1, <3>2
  <2> QED
    BY <2>3, <2>4 DEF OneByOne
<1>2. ASSUME NEW c \in Monitors, Leave(c) PROVE OneByOne'
  <2>1. peer' = [peer EXCEPT ![c] = "gone"] /\ UNCHANGED <<sock, first, hPush, pHost>> /\ peer[c] = "here"
    BY <1>2 DEF Leave, HeardAt
  <2> QED
    BY <1>0, <2>1 DEF OneByOne, Functions, Monitors
<1>3. ASSUME NEW c \in Monitors, Accept(c) PROVE OneByOne'
  <2>1. /\ sock' = [sock EXCEPT ![c] = "open"] /\ UNCHANGED <<peer, first, hPush, pHost>>
        /\ peer[c] # "away" /\ sock[c] = "none"
    BY <1>3 DEF Accept, Waiting
  <2> QED
    BY <1>0, <2>1 DEF OneByOne, Functions, Monitors
<1>4. ASSUME NEW c \in Monitors, NEW what, Ask(c, what) \/ HandlerLook(c) \/ HandlerRework(c)
      PROVE  OneByOne'
  BY <1>s, <1>4 DEF Ask, HeardAt, HandlerLook, HandlerRework
<1>5. CASE AcceptTag \/ ServerRework \/ TakeSockReceive
  BY <1>s, <1>5 DEF AcceptTag, ServerRework, TakeSockReceive
<1>6. CASE TakeSockAccept \/ TakeSockClose
  <2>1. UNCHANGED <<peer, first, hPush, pHost>> /\ (sock' = sock \/ sock' = Closed(client))
    BY <1>6 DEF TakeSockAccept, TakeSockClose
  <2>2. client # 0 => peer[client] # "away"
    BY <1>0, ClientOpen DEF OneByOne, Open
  <2>3. \A d \in Monitors : sock'[d] = sock[d] \/ (d = client /\ sock'[d] = "closed")
    BY <1>0, <2>1 DEF Functions, Closed
  <2>4. \A d \in Monitors : peer[d] = "away" => sock'[d] = "none" /\ first[d] = <<>>
    <3>1. \A d \in Monitors : d = client => peer[d] # "away"
      BY <1>0, <2>2 DEF Functions
    <3> TAKE d \in Monitors
    <3>2. HAVE peer[d] = "away"
    <3>3. sock[d] = "none" /\ first[d] = <<>>
      BY <3>2 DEF OneByOne
    <3> QED
      BY <2>3, <3>1, <3>2, <3>3
  <2>5. \A e \in Monitors : \A d \in 1..(e - 1) : d \in Monitors
    BY LinkAssumption DEF Monitors
  <2>6. \A e \in Monitors : peer[e] # "away" =>
            hPush /\ pHost /\ \A d \in 1..(e - 1) : peer[d] = "gone" /\ sock'[d] = "closed"
    BY <2>3, <2>5 DEF OneByOne
  <2> QED
    BY <2>1, <2>4, <2>6 DEF OneByOne
<1>7. CASE WatchReceive \/ WatchHost
  BY <1>s, <1>7 DEF WatchReceive, WatchHost
<1>8. CASE WatchSend
  <2>1. /\ UNCHANGED <<peer, sock, hPush, pHost>>
        /\ first' = IF sock[wto] = "open" /\ first[wto] = <<>> THEN [first EXCEPT ![wto] = wmsg] ELSE first
    BY <1>8 DEF WatchSend
  <2> QED
    BY <1>0, <2>1 DEF OneByOne, Functions
<1>9. CASE TakeLinkWm \/ TakeUnlinkWm \/ TakeLinked \/ PulseSend
  BY <1>s, <1>9 DEF TakeLinkWm, TakeUnlinkWm, TakeLinked, PulseSend
<1>10. ASSUME NEW t \in Senders, Send(t) PROVE OneByOne'
  BY <1>s, <1>10 DEF Send, SendLook, SendHead, SendTail, SendPut
<1>11. CASE UNCHANGED vars
  BY <1>s, <1>11 DEF vars
<1> QED
  BY <1>1, <1>2, <1>3, <1>4, <1>5, <1>6, <1>7, <1>8, <1>9, <1>10, <1>11 DEF Next, Pump, Watcher

LEMMA StagedStep ==
    ASSUME Calm, TypeOK, OneByOne, Staged, Started, [Next]_vars, breaches = 0, breaches' = 0
    PROVE  Staged'
PROOF
<1> USE DEF monVars, sockVars, pumpVars, watchVars, gateVars
<1>0. Functions
  BY Typed
<1>t. wtags \in Seq(WTags)
  BY DEF TypeOK, WTags
<1>s. ASSUME UNCHANGED <<peer, text, sock, note, accepting, client, wtags>> PROVE Staged'
  BY <1>s DEF Staged, Open, Accepted, Announced, Client
<1>1. ASSUME NEW c \in Monitors, CallIn(c) PROVE Staged'
  <2>1. /\ peer' = [peer EXCEPT ![c] = "here"] /\ UNCHANGED <<text, sock, note, accepting, client, wtags>>
        /\ sock[c] = "none"
    BY <1>1 DEF CallIn, OneByOne
  <2> QED
    BY <1>0, <2>1 DEF Staged, Open, Accepted, Announced, Client, Functions
<1>h. ASSUME NEW c \in Monitors, HeardAt(c), UNCHANGED <<client, wtags>>,
             \A d \in Monitors : text[d] # <<>> \/ peer[d] = "gone" => text'[d] # <<>> \/ peer'[d] = "gone",
             \A d \in Monitors : peer[d] = "gone" => peer'[d] = "gone",
             text'[c] # <<>> \/ peer'[c] = "gone"
      PROVE  Staged'
  <2>1. /\ UNCHANGED <<sock, accepting>>
        /\ note' = note \/ (note[c] = "armed" /\ Open(c) /\ note' = [note EXCEPT ![c] = "look"])
    BY <1>h, HeardType DEF Open
  <2>2. CASE note' = note
    BY <1>h, <2>1, <2>2 DEF Staged, Open, Accepted, Announced, Client
  <2>3. CASE note[c] = "armed" /\ Open(c) /\ note' = [note EXCEPT ![c] = "look"]
    <3>1. \A d \in Monitors : Open(d)' => d = c
      BY <1>0, <2>1, <2>3, OneOpen DEF Open
    <3>2. Accepted(c)' \/ Announced(c)' \/ Client(c)'
      <4>1. Accepted(c) \/ Announced(c) \/ Client(c)
        BY <2>3 DEF Staged
      <4>2. note'[c] = "look"
        BY <1>0, <2>3 DEF Functions
      <4> QED
        BY <1>h, <2>1, <2>3, <4>1, <4>2 DEF Accepted, Announced, Client
    <3>3. Open(c)'
      BY <2>1, <2>3 DEF Open
    <3> QED
      BY <1>h, <3>1, <3>2, <3>3 DEF Staged
  <2> QED
    BY <2>1, <2>2, <2>3
<1>2. ASSUME NEW c \in Monitors, Leave(c) PROVE Staged'
  <2>1. peer' = [peer EXCEPT ![c] = "gone"] /\ UNCHANGED <<text, client, wtags>> /\ HeardAt(c)
    BY <1>2 DEF Leave
  <2>2. \A d \in Monitors : peer[d] = "gone" => peer'[d] = "gone"
    BY <1>0, <2>1 DEF Functions
  <2>3. peer'[c] = "gone"
    BY <1>0, <2>1 DEF Functions
  <2> QED
    BY <1>h, <2>1, <2>2, <2>3
<1>3. ASSUME NEW c \in Monitors, NEW what \in {"REPTU", "FRXBP"}, Ask(c, what) PROVE Staged'
  <2>1. /\ text' = [text EXCEPT ![c] = Append(text[c], what)]
        /\ UNCHANGED <<peer, client, wtags>> /\ HeardAt(c)
    BY <1>3 DEF Ask
  <2>2. text[c] \in Seq({"REPTU", "FRXBP"})
    BY <1>0 DEF Functions
  <2>3. Append(text[c], what) # <<>>
    BY <2>2, AppendProperties
  <2>4. \A d \in Monitors : text[d] # <<>> => text'[d] # <<>>
    BY <1>0, <2>1, <2>3 DEF Functions
  <2>5. text'[c] # <<>>
    BY <1>0, <2>1, <2>3 DEF Functions
  <2> QED
    BY <1>h, <2>1, <2>4, <2>5
<1>4. ASSUME NEW c \in Monitors, Accept(c) PROVE Staged'
  <2>1. /\ sock' = [sock EXCEPT ![c] = "open"] /\ note' = [note EXCEPT ![c] = "armed"] /\ accepting' = c
        /\ UNCHANGED <<peer, text, client, wtags>>
        /\ peer[c] # "away" /\ sock[c] = "none" /\ \A d \in 1..(c - 1) : d \notin Waiting
    BY <1>4 DEF Accept, Waiting
  <2>2. ASSUME NEW d \in Monitors, Open(d) PROVE FALSE
    <3>1. d # c /\ peer[d] # "away"
      BY <2>1, <2>2 DEF Open, OneByOne
    <3>2. d < c \/ c < d
      BY <1>0, <3>1 DEF Functions
    <3>3. ~(d < c)
      BY <2>1, <2>2 DEF OneByOne, Open, Monitors
    <3>4. ~(c < d)
      BY <2>1, <3>1 DEF OneByOne, Monitors
    <3> QED
      BY <3>2, <3>3, <3>4
  <2>3. client = 0 /\ wtags = <<>>
    BY <2>2 DEF Staged
  <2>4. \A d \in Monitors : Open(d)' => d = c
    BY <1>0, <2>1, <2>2 DEF Open, Functions
  <2>5. Accepted(c)' /\ Open(c)' /\ note'[c] # "look"
    BY <1>0, <2>1, <2>3 DEF Accepted, Functions, Open
  <2> QED
    BY <2>4, <2>5 DEF Staged
<1>5. CASE AcceptTag
  <2>1. PICK c \in Monitors : Open(c)
    BY <1>5 DEF AcceptTag, Staged
  <2>2. Accepted(c)
    BY <1>5, <2>1 DEF AcceptTag, Staged, Accepted, Announced, Client
  <2>3. /\ accepting' = 0 /\ client' = 0 /\ wtags' = <<<<"accept", c>>>>
        /\ UNCHANGED <<peer, text, sock, note>> /\ note[c] \in {"armed", "look"}
    BY <1>5, <2>2 DEF AcceptTag, SendTag, Accepted
  <2>4. Announced(c)' /\ Open(c)' /\ (note'[c] = "look" => text'[c] # <<>> \/ peer'[c] = "gone")
    BY <2>1, <2>3 DEF Announced, Open, Staged
  <2>5. \A d \in Monitors : Open(d)' => d = c
    BY <1>0, <2>1, <2>3, OneOpen DEF Open
  <2> QED
    BY <2>4, <2>5 DEF Staged
<1>6. CASE ServerRework
  BY <1>s, <1>6 DEF ServerRework
<1>7. ASSUME NEW c \in Monitors, HandlerLook(c) PROVE Staged'
  <2>1. UNCHANGED <<peer, text, sock, accepting, client>> /\ wtags = <<>> /\ note[c] = "look" /\ accepting # c
    <3>1. breaches \in Nat
      BY LinkAssumption DEF TypeOK
    <3> QED
      BY <1>7, <3>1 DEF HandlerLook, PumpIdle, Allowed
  <2>2. CASE ~Open(c)
    <3>1. note' = [note EXCEPT ![c] = "off"] /\ UNCHANGED wtags
      BY <1>7, <2>2 DEF HandlerLook, Open
    <3> QED
      BY <1>0, <2>1, <2>2, <3>1 DEF Staged, Open, Accepted, Announced, Client, Functions
  <2>3. CASE Open(c)
    <3>1. \A d \in Monitors : Open(d)' => d = c
      BY <1>0, <2>1, <2>3, OneOpen DEF Open
    <3>2. Client(c) /\ (text[c] # <<>> \/ peer[c] = "gone")
      BY <2>1, <2>3 DEF Staged, Accepted, Announced
    <3>3. CASE text[c] # <<>>
      <4>1. note' = [note EXCEPT ![c] = "rework"] /\ wtags' = <<<<"recv", 0>>>>
        BY <1>7, <2>1, <2>3, <3>3 DEF HandlerLook, Open, SendTag
      <4>2. Client(c)' /\ Open(c)' /\ note'[c] # "look"
        BY <1>0, <2>1, <2>3, <3>2, <4>1 DEF Client, Open, Functions
      <4> QED
        BY <3>1, <4>2 DEF Staged
    <3>4. CASE text[c] = <<>>
      <4>1. note' = [note EXCEPT ![c] = "off"] /\ wtags' = <<<<"close", 0>>>>
        BY <1>7, <2>1, <2>3, <3>4 DEF HandlerLook, Open, SendTag
      <4>2. Client(c)' /\ Open(c)' /\ note'[c] # "look"
        BY <1>0, <2>1, <2>3, <3>2, <3>4, <4>1 DEF Client, Open, Functions
      <4> QED
        BY <3>1, <4>2 DEF Staged
    <3> QED
      BY <3>3, <3>4
  <2> QED
    BY <2>2, <2>3
<1>8. ASSUME NEW c \in Monitors, HandlerRework(c) PROVE Staged'
  <2>1. /\ UNCHANGED <<peer, text, sock, accepting, client, wtags>> /\ wtags = <<>> /\ note[c] = "rework"
        /\ note' = [note EXCEPT ![c] = IF sock[c] = "open" THEN "armed" ELSE "off"]
    BY <1>8 DEF HandlerRework, PumpIdle
  <2> QED
    BY <1>0, <2>1 DEF Staged, Open, Accepted, Announced, Client, Functions
<1>9. CASE TakeSockAccept
  <2>1. PICK c \in Monitors : Open(c)
    BY <1>9 DEF TakeSockAccept, Staged
  <2>2. Announced(c)
    <3>1. wtags # <<>> /\ Head(wtags)[1] = "accept"
      BY <1>9 DEF TakeSockAccept
    <3>2. ~Accepted(c) /\ ~Client(c)
      BY <3>1 DEF Accepted, Client
    <3> QED
      BY <2>1, <3>2 DEF Staged
  <2>3. /\ client' = c /\ accepting' = 0 /\ wtags' = <<>> /\ UNCHANGED <<peer, text, sock, note>>
        /\ note[c] \in {"armed", "look"}
    BY <1>9, <2>2 DEF TakeSockAccept, Announced, Closed
  <2>4. Client(c)' /\ Open(c)'
    BY <2>1, <2>3 DEF Client, Open
  <2>5. \A d \in Monitors : Open(d)' => d = c
    BY <1>0, <2>1, <2>3, OneOpen DEF Open
  <2>6. note'[c] = "look" => text'[c] # <<>> \/ peer'[c] = "gone"
    BY <2>1, <2>3 DEF Staged
  <2> QED
    BY <2>4, <2>5, <2>6 DEF Staged
<1>10. CASE TakeSockReceive
  <2>1. PICK c \in Monitors : Open(c)
    BY <1>10 DEF TakeSockReceive, Staged
  <2>2. Client(c) /\ wtags = <<<<"recv", 0>>>> /\ note[c] = "rework"
    <3>1. wtags # <<>> /\ Head(wtags)[1] = "recv"
      BY <1>10 DEF TakeSockReceive
    <3>2. ~Accepted(c) /\ ~Announced(c)
      BY <3>1 DEF Accepted, Announced
    <3> QED
      BY <2>1, <3>1, <3>2 DEF Staged, Client
  <2>3. /\ wtags' = <<>> /\ UNCHANGED <<peer, sock, note, accepting, client>>
    BY <1>10, <2>2 DEF TakeSockReceive
  <2>4. Client(c)' /\ Open(c)' /\ note'[c] # "look"
    BY <2>1, <2>2, <2>3 DEF Client, Open
  <2>5. \A d \in Monitors : Open(d)' => d = c
    BY <1>0, <2>1, <2>3, OneOpen DEF Open
  <2> QED
    BY <2>4, <2>5 DEF Staged
<1>11. CASE TakeSockClose
  <2>1. PICK c \in Monitors : Open(c)
    BY <1>11 DEF TakeSockClose, Staged
  <2>2. Client(c) /\ wtags = <<<<"close", 0>>>>
    <3>1. wtags # <<>> /\ Head(wtags)[1] = "close"
      BY <1>11 DEF TakeSockClose
    <3>2. ~Accepted(c) /\ ~Announced(c)
      BY <3>1 DEF Accepted, Announced
    <3> QED
      BY <2>1, <3>1, <3>2 DEF Staged, Client
  <2>3. client = c /\ client # 0 /\ accepting = 0
    BY <1>0, <2>2 DEF Client, Functions
  <2>4. /\ wtags' = <<>> /\ client' = 0 /\ sock' = [sock EXCEPT ![c] = "closed"] /\ UNCHANGED accepting
    BY <1>11, <2>2, <2>3 DEF TakeSockClose, Closed
  <2>5. \A d \in Monitors : ~Open(d)'
    BY <1>0, <2>1, <2>4, OneOpen DEF Open, Functions
  <2> QED
    BY <2>3, <2>4, <2>5 DEF Staged
<1>12. CASE Watcher
  BY <1>s, <1>12 DEF Watcher, WatchReceive, WatchHost, WatchSend
<1>13. CASE TakeLinkWm \/ TakeUnlinkWm \/ TakeLinked \/ PulseSend
  BY <1>s, <1>13 DEF TakeLinkWm, TakeUnlinkWm, TakeLinked, PulseSend
<1>14. ASSUME NEW t \in Senders, Send(t) PROVE Staged'
  BY <1>s, <1>14 DEF Send, SendLook, SendHead, SendTail, SendPut
<1>15. CASE UNCHANGED vars
  BY <1>s, <1>15 DEF vars
<1> QED
  BY <1>1, <1>2, <1>3, <1>4, <1>5, <1>6, <1>7, <1>8, <1>9, <1>10, <1>11, <1>12, <1>13, <1>14, <1>15
     DEF Next, Pump

(* At most one monitor has called and is not yet closed. *)
LEMMA OneLive ==
    ASSUME Functions, OneByOne, NEW c \in Monitors, NEW d \in Monitors, Live(c), Live(d)
    PROVE  c = d
PROOF
<1>1. c < d \/ d < c \/ c = d
  BY DEF Functions
<1>2. ASSUME c < d PROVE FALSE
  <2>1. c \in 1..(d - 1)
    BY <1>2, LinkAssumption DEF Monitors
  <2> QED
    BY <2>1 DEF OneByOne, Live
<1>3. ASSUME d < c PROVE FALSE
  <2>1. d \in 1..(c - 1)
    BY <1>3, LinkAssumption DEF Monitors
  <2> QED
    BY <2>1 DEF OneByOne, Live
<1> QED
  BY <1>1, <1>2, <1>3

LEMMA OpenIsLive ==
    ASSUME OneByOne, NEW c \in Monitors, Open(c)
    PROVE  Live(c)
PROOF
  BY DEF OneByOne, Open, Live

(* A monitor that may call finds everything at rest. *)
LEMMA CallFinds ==
    ASSUME TypeOK, LinkAgrees, OneByOne, Staged, Started, NEW c \in Monitors, CallIn(c), breaches' = 0
    PROVE  /\ \A d \in Monitors : ~Live(d)
           /\ client = 0 /\ main = <<>> /\ pull = <<>> /\ wpc = "recv" /\ ~bOpen
           /\ spc["tag"] = "rest" /\ spc["pulse"] = "rest" /\ first[c] = <<>>
PROOF
<1>0. Functions
  BY Typed
<1>1. Drained /\ \A d \in 1..(c - 1) : peer[d] = "gone" /\ sock[d] = "closed"
  <2>1. breaches \in Nat
    BY LinkAssumption DEF TypeOK
  <2> QED
    BY <2>1 DEF CallIn, Allowed
<1>2. peer[c] = "away"
  BY DEF CallIn
<1>3. ASSUME NEW d \in Monitors, Live(d) PROVE FALSE
  <2>1. d < c \/ c < d
    BY <1>0, <1>2, <1>3 DEF Live, Functions
  <2>2. ~(d < c)
    BY <1>1, <1>3, LinkAssumption DEF Live, Monitors
  <2>3. ~(c < d)
    <3>1. ASSUME c < d PROVE c \in 1..(d - 1)
      BY <3>1, LinkAssumption DEF Monitors
    <3> QED
      BY <1>2, <1>3, <3>1 DEF OneByOne, Live
  <2> QED
    BY <2>1, <2>2, <2>3
<1>4. client = 0
  BY <1>0, <1>3, ClientOpen, OpenIsLive
<1>5. /\ main = <<>> /\ pull = <<>> /\ wpc = "recv" /\ spc["tag"] = "rest" /\ spc["pulse"] = "rest"
  BY <1>1 DEF Drained, Senders
<1>6. ~bOpen
  BY <1>4, <1>5 DEF LinkAgrees, Started
<1>7. first[c] = <<>>
  BY <1>2 DEF OneByOne
<1> QED
  BY <1>3, <1>4, <1>5, <1>6, <1>7

(* A push of wm finds its host. *)
LEMMA PushHeld ==
    ASSUME Functions, OneByOne, Staged, Started, client # 0, NEW tag, PushQueue(tag)
    PROVE  ~lost'
PROOF
<1>1. hPush /\ pHost
  BY ClientOpen, OpenIsLive DEF OneByOne, Live
<1> QED
  BY <1>1 DEF PushQueue, Started

LEMMA StartedStep ==
    ASSUME Calm, TypeOK, LinkAgrees, OneByOne, Staged, Started, [Next]_vars, breaches = 0, breaches' = 0
    PROVE  Started'
PROOF
<1> USE DEF monVars, sockVars, pumpVars, watchVars, gateVars
<1>0. Functions
  BY Typed
<1>t. spc \in [Senders -> {"rest", "look", "head", "tail", "put", "done"}] /\ kind \in [Senders -> Kinds]
  BY DEF TypeOK
<1>i. Init1 # Message("conts") /\ Init1 # <<>>
  BY DEF Init1, Message
<1>f. ASSUME UNCHANGED <<first, spc, kind, wmm, pull, wpc, wmsg, wto, bOpen>>, NEW c \in Monitors
      PROVE  (Underway(c) => Underway(c)') /\ (Still(c) => Still(c)')
  BY <1>f DEF Underway, Still, Unasked, Built, Queued, Sent
<1>s. ASSUME UNCHANGED <<first, spc, kind, wmm, pull, wpc, wmsg, wto, bOpen, client, main, selected, lost>>,
             \A c \in Monitors : Live(c)' => Live(c)
      PROVE  Started'
  BY <1>f, <1>s DEF Started
<1>1. ASSUME NEW c \in Monitors, CallIn(c) PROVE Started'
  <2>1. /\ peer' = [peer EXCEPT ![c] = "here"]
        /\ UNCHANGED <<first, sock, spc, kind, wmm, pull, wpc, wmsg, wto, bOpen, client, main, selected, lost>>
    BY <1>1 DEF CallIn
  <2>2. /\ \A d \in Monitors : ~Live(d)
        /\ client = 0 /\ main = <<>> /\ pull = <<>> /\ wpc = "recv" /\ ~bOpen
        /\ spc["tag"] = "rest" /\ spc["pulse"] = "rest" /\ first[c] = <<>>
    BY <1>1, CallFinds
  <2>3. \A d \in Monitors : Live(d)' => d = c
    BY <1>0, <2>1, <2>2 DEF Live, Functions
  <2>4. Still(c)'
    BY <2>1, <2>2 DEF Still, Unasked
  <2>5. Underway(c)' /\ main' = <<>>
    BY <2>1, <2>2, <2>4 DEF Underway
  <2> QED
    BY <2>1, <2>3, <2>4, <2>5 DEF Started
<1>2. ASSUME NEW c \in Monitors, NEW what, Ask(c, what) \/ HandlerLook(c) \/ HandlerRework(c)
      PROVE  Started'
  BY <1>s, <1>2 DEF Ask, HeardAt, HandlerLook, HandlerRework, Live
<1>3. ASSUME NEW c \in Monitors, Leave(c) PROVE Started'
  <2>1. /\ peer' = [peer EXCEPT ![c] = "gone"] /\ peer[c] # "away"
        /\ UNCHANGED <<first, sock, spc, kind, wmm, pull, wpc, wmsg, wto, bOpen, client, main, selected, lost>>
    BY <1>3 DEF Leave, HeardAt
  <2>2. \A d \in Monitors : Live(d)' => Live(d)
    BY <1>0, <2>1 DEF Live, Functions
  <2> QED
    BY <1>s, <2>1, <2>2
<1>4. ASSUME NEW c \in Monitors, Accept(c) PROVE Started'
  <2>1. /\ sock' = [sock EXCEPT ![c] = "open"] /\ sock[c] = "none"
        /\ UNCHANGED <<first, peer, spc, kind, wmm, pull, wpc, wmsg, wto, bOpen, client, main, selected, lost>>
    BY <1>4 DEF Accept, Waiting
  <2>2. \A d \in Monitors : Live(d)' => Live(d)
    BY <1>0, <2>1 DEF Live, Functions
  <2> QED
    BY <1>s, <2>1, <2>2
<1>5. CASE AcceptTag \/ ServerRework
  BY <1>s, <1>5 DEF AcceptTag, ServerRework, Live
<1>6. CASE TakeSockAccept
  <2>1. PICK c \in Monitors : Announced(c)
    <3>1. wtags # <<>> /\ Head(wtags)[1] = "accept"
      BY <1>6 DEF TakeSockAccept
    <3>2. PICK c \in Monitors : Open(c)
      BY <3>1 DEF Staged
    <3>3. ~Accepted(c) /\ ~Client(c)
      BY <3>1 DEF Accepted, Client
    <3> QED
      BY <3>2, <3>3 DEF Staged
  <2>2. /\ client = 0 /\ client' = c
        /\ UNCHANGED <<first, peer, sock, spc, kind, wmm, pull, wpc, wmsg, wto, bOpen, main, selected, lost>>
    BY <1>6, <2>1 DEF TakeSockAccept, Announced, Closed
  <2>3. \A d \in Monitors : Live(d)' => Live(d) /\ client # d
    BY <1>0, <2>2 DEF Live, Functions
  <2> QED
    BY <1>0, <1>f, <2>2, <2>3 DEF Started, Functions
<1>7. CASE TakeSockReceive
  <2>1. UNCHANGED <<first, peer, sock, spc, kind, wmm, pull, wpc, wmsg, wto, bOpen, client>>
    BY <1>7 DEF TakeSockReceive
  <2>2. CASE client = 0
    BY <1>7, <1>s, <2>1, <2>2 DEF TakeSockReceive, Live
  <2>3. CASE client # 0
    <3>1. client \in Monitors /\ Live(client)
      BY <1>0, <2>3, ClientOpen, OpenIsLive
    <3>2. \A d \in Monitors : Live(d)' => Live(d) /\ d = client
      BY <1>0, <2>1, <3>1, OneLive DEF Live
    <3>3. ~lost'
      <4>1. UNCHANGED lost \/ PushQueue("link") \/ PushQueue("debug")
        BY <1>7, <2>3 DEF TakeSockReceive
      <4> QED
        BY <1>0, <2>3, <4>1, PushHeld DEF Started
    <3> QED
      BY <1>f, <2>1, <2>3, <3>2, <3>3 DEF Started
  <2> QED
    BY <2>2, <2>3
<1>8. CASE TakeSockClose
  <2>1. UNCHANGED <<first, peer, spc, kind, wmm, pull, wpc, wmsg, wto, bOpen>>
    BY <1>8 DEF TakeSockClose
  <2>2. CASE client = 0
    BY <1>8, <1>s, <2>1, <2>2 DEF TakeSockClose, Live
  <2>3. CASE client # 0
    <3>1. client \in Monitors /\ Live(client)
      BY <1>0, <2>3, ClientOpen, OpenIsLive
    <3>2. client' = 0 /\ selected' = FALSE /\ sock' = [sock EXCEPT ![client] = "closed"]
      BY <1>8, <2>3 DEF TakeSockClose, Closed
    <3>3. \A d \in Monitors : ~Live(d)'
      BY <1>0, <2>1, <3>1, <3>2, OneLive DEF Live, Functions
    <3>4. ~lost'
      <4>1. UNCHANGED lost \/ PushQueue("unlink")
        BY <1>8, <2>3 DEF TakeSockClose
      <4> QED
        BY <1>0, <2>3, <4>1, PushHeld DEF Started
    <3> QED
      BY <2>1, <3>2, <3>3, <3>4 DEF Started
  <2> QED
    BY <2>2, <2>3
<1>9. CASE WatchReceive
  <2>1. /\ UNCHANGED <<first, peer, sock, spc, kind, wmm, bOpen, client, main, selected, lost>>
        /\ wpc = "recv" /\ pull # <<>>
    BY <1>9 DEF WatchReceive
  <2>2. ASSUME NEW c \in Monitors, Live(c)' PROVE Underway(c)' /\ client = c
    <3>1. Live(c)
      BY <2>1, <2>2 DEF Live
    <3>2. client = c
      BY <2>1, <3>1 DEF Started, Still, Unasked
    <3>3. Queued \/ first[c] = Init1
      BY <2>1, <3>1 DEF Started, Underway, Still, Unasked, Built, Sent
    <3>4. CASE first[c] = Init1
      BY <2>1, <3>2, <3>4 DEF Underway
    <3>5. CASE Queued /\ first[c] = <<>>
      <4>1. wpc' = "send" /\ wmsg' = Init1 /\ wto' = c
        BY <1>0, <1>9, <1>i, <3>2, <3>5 DEF WatchReceive, Queued, Functions
      <4> QED
        BY <2>1, <3>2, <3>5, <4>1 DEF Underway, Sent
    <3> QED
      BY <3>3, <3>4, <3>5 DEF Started
  <2> QED
    BY <2>1, <2>2 DEF Started
<1>10. CASE WatchHost
  <2>1. /\ UNCHANGED <<first, peer, sock, spc, kind, wmm, bOpen, client, main, selected, lost>>
        /\ wpc = "host"
    BY <1>10 DEF WatchHost
  <2>2. ASSUME NEW c \in Monitors, Live(c)' PROVE Underway(c)' /\ client = c
    <3>1. Live(c)
      BY <2>1, <2>2 DEF Live
    <3>2. client = c /\ first[c] = Init1
      BY <2>1, <3>1 DEF Started, Underway, Still, Unasked, Built, Queued, Sent
    <3> QED
      BY <2>1, <3>2 DEF Underway
  <2> QED
    BY <2>1, <2>2 DEF Started
<1>11. CASE WatchSend
  <2>1. /\ UNCHANGED <<peer, sock, spc, kind, wmm, bOpen, client, main, selected, lost>>
        /\ wpc = "send"
        /\ first' = IF sock[wto] = "open" /\ first[wto] = <<>> THEN [first EXCEPT ![wto] = wmsg] ELSE first
    BY <1>11 DEF WatchSend
  <2>2. wto \in Monitors
    BY <2>1, LinkAssumption DEF TypeOK, Monitors
  <2>3. ASSUME NEW c \in Monitors, Live(c)
        PROVE  client = c /\ (first[c] = Init1 \/ (first[c] = <<>> /\ Sent(c)))
    BY <2>1, <2>3 DEF Started, Underway, Still, Unasked, Built, Queued
  <2>4. Open(wto) /\ first[wto] = <<>> => wmsg = Init1
    BY <1>i, <2>2, <2>3, OpenIsLive DEF Sent
  <2>5. \A c \in Monitors : first'[c] \in {<<>>, Init1} /\ (first[c] = Init1 => first'[c] = Init1)
    BY <1>0, <1>i, <2>1, <2>2, <2>4 DEF Started, Open, Functions
  <2>6. ASSUME NEW c \in Monitors, Live(c)' PROVE Underway(c)' /\ client = c
    <3>1. Live(c)
      BY <2>1, <2>6 DEF Live
    <3>2. client = c /\ (first[c] = Init1 \/ (first[c] = <<>> /\ Sent(c)))
      BY <2>3, <3>1
    <3>3. CASE first[c] = Init1
      BY <2>5, <3>2, <3>3 DEF Underway
    <3>4. CASE first[c] = <<>> /\ Sent(c)
      <4>1. Open(c)
        <5>1. client # 0
          BY <1>0, <3>2 DEF Functions
        <5> QED
          BY <1>0, <3>2, <5>1, ClientOpen
      <4>2. first'[c] = Init1
        BY <1>0, <2>1, <3>4, <4>1 DEF Sent, Open, Functions
      <4> QED
        BY <3>2, <4>2 DEF Underway
    <3> QED
      BY <3>2, <3>3, <3>4
  <2> QED
    BY <2>1, <2>5, <2>6 DEF Started
<1>12. CASE TakeLinkWm
  <2>1. /\ UNCHANGED <<first, peer, sock, wmm, pull, wpc, wmsg, wto, client, selected, lost>>
        /\ spc["tag"] = "rest" /\ main # <<>> /\ spc' = [spc EXCEPT !["tag"] = "look"]
        /\ kind' = [kind EXCEPT !["tag"] = IF bOpen THEN "NORL" ELSE "INIT"]
    BY <1>12 DEF TakeLinkWm
  <2>2. ASSUME NEW c \in Monitors, Live(c)' PROVE Underway(c)' /\ client = c
    <3>1. Live(c)
      BY <2>1, <2>2 DEF Live
    <3>2. client = c /\ Underway(c)
      BY <2>1, <3>1 DEF Started
    <3>3. CASE Still(c)
      <4>1. spc'["tag"] = "look" /\ kind'["tag"] = "INIT" /\ spc'["pulse"] = "rest"
        BY <1>t, <2>1, <3>3 DEF Still, Unasked, Senders
      <4> QED
        BY <2>1, <3>2, <3>3, <4>1 DEF Underway, Still, Unasked, Built
    <3>4. CASE Queued \/ Sent(c) \/ first[c] = Init1
      BY <2>1, <3>2, <3>4 DEF Underway, Queued, Sent, Still, Built
    <3> QED
      BY <2>1, <3>2, <3>3, <3>4 DEF Underway, Built
  <2> QED
    BY <2>1, <2>2 DEF Started
<1>13. CASE TakeUnlinkWm
  <2>1. /\ UNCHANGED <<first, peer, sock, spc, kind, wmm, pull, wpc, wmsg, wto, client, selected, lost>>
        /\ main # <<>> /\ (bOpen' => bOpen)
    BY <1>13 DEF TakeUnlinkWm
  <2>2. ASSUME NEW c \in Monitors, Live(c)' PROVE Underway(c)' /\ client = c
    <3>1. Live(c)
      BY <2>1, <2>2 DEF Live
    <3>2. client = c /\ Underway(c)
      BY <2>1, <3>1 DEF Started
    <3> QED
      BY <2>1, <3>2 DEF Underway, Still, Unasked, Built, Queued, Sent
  <2> QED
    BY <2>1, <2>2 DEF Started
<1>14. CASE TakeLinked
  <2>1. /\ UNCHANGED <<first, peer, sock, kind, wmm, pull, wpc, wmsg, wto, client, main, selected, lost>>
        /\ spc["tag"] = "done"
    BY <1>14 DEF TakeLinked
  <2>2. ASSUME NEW c \in Monitors, Live(c)' PROVE Underway(c)' /\ client = c
    <3>1. Live(c)
      BY <2>1, <2>2 DEF Live
    <3>2. client = c /\ (first[c] = Init1 \/ (first[c] = <<>> /\ (Queued \/ Sent(c))))
      BY <2>1, <3>1 DEF Started, Underway, Still, Unasked, Built
    <3> QED
      BY <2>1, <3>2 DEF Underway, Queued, Sent
  <2> QED
    BY <2>1, <2>2 DEF Started
<1>15. CASE PulseSend
  <2>1. /\ UNCHANGED <<first, peer, sock, wmm, pull, wpc, wmsg, wto, client, main, selected, lost>>
        /\ TagIdle /\ bOpen
    BY <1>15 DEF PulseSend
  <2>2. ASSUME NEW c \in Monitors, Live(c)' PROVE Underway(c)' /\ client = c
    <3>1. Live(c)
      BY <2>1, <2>2 DEF Live
    <3>2. ~Built
      BY <2>1, LinkAssumption DEF TagIdle, Built
    <3>3. client = c /\ (first[c] = Init1 \/ (first[c] = <<>> /\ (Queued \/ Sent(c))))
      BY <2>1, <3>1, <3>2 DEF Started, Underway, Still, Unasked
    <3> QED
      BY <2>1, <3>3 DEF Underway, Queued, Sent
  <2> QED
    BY <2>1, <2>2 DEF Started
<1>16. ASSUME NEW t \in Senders, Send(t) PROVE Started'
  <2>1. /\ UNCHANGED <<first, peer, sock, wpc, wmsg, wto, client, main, selected, lost>>
        /\ spc[t] \in {"look", "head", "tail", "put"}
    BY <1>16 DEF Send, SendLook, SendHead, SendTail, SendPut
  <2>2. t = "tag" \/ t = "pulse"
    BY DEF Senders
  <2>3. pull' = pull \/ (SendPut(t) /\ pull' = Append(pull, wmm))
    BY <1>16 DEF Send, SendLook, SendHead, SendTail, SendPut
  <2>4. pull \in Seq(Messages)
    BY DEF TypeOK
  <2>5. ASSUME NEW c \in Monitors, Live(c)' PROVE Underway(c)' /\ client = c
    <3>1. Live(c)
      BY <2>1, <2>5 DEF Live
    <3>2. ~Still(c)
      BY <2>1, <2>2 DEF Still, Unasked
    <3>3. client = c /\ Underway(c)
      BY <3>1, <3>2 DEF Started
    <3>4. CASE first[c] = Init1
      BY <2>1, <3>3, <3>4 DEF Underway
    <3>5. CASE first[c] = <<>> /\ Sent(c)
      BY <2>1, <3>3, <3>5 DEF Underway, Sent
    <3>6. CASE first[c] = <<>> /\ Queued
      <4>1. pull' # <<>> /\ Head(pull') = Head(pull)
        BY <2>3, <2>4, <3>6 DEF Queued
      <4> QED
        BY <2>1, <3>3, <3>6, <4>1 DEF Underway, Queued
    <3>7. CASE first[c] = <<>> /\ spc["pulse"] = "rest" /\ Built
      <4>1. t = "tag"
        BY <2>1, <2>2, <3>7
      <4>2. CASE SendLook(t)
        <5>1. spc' = [spc EXCEPT !["tag"] = "head"] /\ UNCHANGED <<kind, pull>>
          BY <3>7, <4>1, <4>2 DEF SendLook, Goes, Built
        <5> QED
          BY <1>t, <2>1, <3>3, <3>7, <5>1 DEF Underway, Built, Senders
      <4>3. CASE SendHead(t)
        <5>1. spc' = [spc EXCEPT !["tag"] = "tail"] /\ wmm' = <<"INIT", "none">> /\ UNCHANGED <<kind, pull>>
          BY <3>7, <4>1, <4>3 DEF SendHead, Goes, Built
        <5> QED
          BY <1>t, <2>1, <3>3, <3>7, <5>1 DEF Underway, Built, Senders
      <4>4. CASE SendTail(t)
        <5>1. spc' = [spc EXCEPT !["tag"] = "put"] /\ wmm' = Init1 /\ UNCHANGED <<kind, pull>>
          BY <3>7, <4>1, <4>4 DEF SendTail, Goes, Built, Init1, Message
        <5> QED
          BY <1>t, <2>1, <3>3, <3>7, <5>1 DEF Underway, Built, Senders
      <4>5. CASE SendPut(t)
        <5>1. pull' = <<Init1>>
          BY <3>7, <4>1, <4>5 DEF SendPut, Built
        <5> QED
          BY <2>1, <3>3, <3>7, <5>1 DEF Underway, Queued, Built
      <4> QED
        BY <1>16, <4>2, <4>3, <4>4, <4>5 DEF Send
    <3> QED
      BY <3>2, <3>3, <3>4, <3>5, <3>6, <3>7 DEF Underway
  <2> QED
    BY <2>1, <2>5 DEF Started
<1>17. CASE UNCHANGED vars
  BY <1>s, <1>17 DEF vars, Live
<1> QED
  BY <1>1, <1>2, <1>3, <1>4, <1>5, <1>6, <1>7, <1>8, <1>9, <1>10, <1>11, <1>12, <1>13, <1>14, <1>15,
     <1>16, <1>17 DEF Next, Pump, Watcher

-----------------------------------------------------------------------------
LEMMA CalmInit == Init => CalmInv
PROOF
  BY DEF Init, CalmInv, OneByOne, Staged, Started, Open, Live

(* What the theorems below rest on: as long as no monitor breaches its      *)
(* manners, the three parts hold together.                                  *)
LEMMA CalmHeld == ASSUME Calm PROVE Spec => []CalmInv
PROOF
<1>1. ASSUME TypeOK, LinkAgrees, CalmInv, [Next]_vars PROVE CalmInv'
  <2> SUFFICES ASSUME breaches' = 0 PROVE OneByOne' /\ Staged' /\ Started'
    BY DEF CalmInv
  <2>1. breaches = 0
    BY <1>1, BreachesStay
  <2>2. OneByOne /\ Staged /\ Started
    BY <1>1, <2>1 DEF CalmInv
  <2> QED
    BY <1>1, <2>1, <2>2, OneByOneStep, StagedStep, StartedStep
<1>2. TypeOK /\ LinkAgrees /\ CalmInv /\ [Next]_vars => CalmInv'
  BY <1>1
<1> QED
  BY <1>2, CalmInit, TypeCorrect, BothAgree, PTL DEF Spec

(* Under the priorities, whatever the pulse thread was doing in the one     *)
(* message buffer: the first message of a monitor is a whole INIT.          *)
THEOREM InitComesFirst == ASSUME Calm PROVE Spec => []InitFirst
PROOF
<1>1. CalmInv => InitFirst
  BY DEF CalmInv, Started, InitFirst, Init1
<1> QED
  BY <1>1, CalmHeld, PTL

(* Under the priorities and with nothing underway: an open gate is open for *)
(* a monitor that is still there, and that got its INIT message.            *)
THEOREM GateForMonitor == ASSUME Calm PROVE Spec => []OpenForMonitor
PROOF
<1>1. TypeOK /\ LinkAgrees /\ CalmInv => OpenForMonitor
  <2> SUFFICES ASSUME TypeOK, LinkAgrees, OneByOne, Staged, Started, Drained, bOpen
               PROVE  client # 0 /\ peer[client] = "here" /\ first[client] = Init1
    BY DEF OpenForMonitor, CalmInv, Init1
  <2>1. client # 0
    BY DEF LinkAgrees, Drained, Started
  <2>2. client \in Monitors /\ Open(client)
    BY <2>1, Typed, ClientOpen
  <2>3. peer[client] = "here"
    BY <2>2 DEF Drained, Open
  <2>4. Underway(client)
    BY <2>2, OpenIsLive DEF Started
  <2>5. ~Still(client) /\ ~Built /\ ~Queued /\ ~Sent(client)
    BY DEF Still, Unasked, Built, Queued, Sent, Drained, Senders
  <2> QED
    BY <2>1, <2>3, <2>4, <2>5 DEF Underway
<1> QED
  BY <1>1, TypeCorrect, BothAgree, CalmHeld, PTL

(* Under the priorities: wm closes the socket of a monitor only when that   *)
(* has left, and a new one never pushes out one that is still there.        *)
THEOREM MonitorKept == ASSUME Calm PROVE Spec => KeepsMonitor
PROOF
<1> USE DEF monVars, sockVars, pumpVars, watchVars, gateVars
<1>1. ASSUME TypeOK, CalmInv, [Next]_vars, NEW c \in Monitors,
             breaches = 0, sock[c] = "open", sock'[c] = "closed"
      PROVE  peer[c] = "gone"
  <2>1. Functions /\ OneByOne /\ Staged /\ Open(c)
    BY <1>1, Typed DEF CalmInv, Open
  <2>2. TakeSockAccept \/ TakeSockClose
    <3>1. ASSUME NEW d \in Monitors, NEW what,
                 CallIn(d) \/ Leave(d) \/ Ask(d, what) \/ HandlerLook(d) \/ HandlerRework(d)
          PROVE  FALSE
      BY <1>1, <3>1 DEF CallIn, Leave, Ask, HeardAt, HandlerLook, HandlerRework
    <3>2. ASSUME NEW d \in Monitors, Accept(d) PROVE FALSE
      <4>1. sock'[c] = "open"
        BY <1>1, <2>1, <3>2 DEF Accept, Functions
      <4> QED
        BY <1>1, <4>1
    <3>3. CASE AcceptTag \/ ServerRework \/ TakeSockReceive \/ Watcher
      BY <1>1, <3>3 DEF AcceptTag, ServerRework, TakeSockReceive, Watcher, WatchReceive, WatchHost, WatchSend
    <3>4. CASE TakeLinkWm \/ TakeUnlinkWm \/ TakeLinked \/ PulseSend
      BY <1>1, <3>4 DEF TakeLinkWm, TakeUnlinkWm, TakeLinked, PulseSend
    <3>5. ASSUME NEW t \in Senders, Send(t) PROVE FALSE
      BY <1>1, <3>5 DEF Send, SendLook, SendHead, SendTail, SendPut
    <3>6. CASE UNCHANGED vars
      BY <1>1, <3>6 DEF vars
    <3> QED
      BY <1>1, <3>1, <3>2, <3>3, <3>4, <3>5, <3>6 DEF Next, Pump
  <2>3. Accepted(c) \/ Announced(c) \/ Client(c)
    BY <2>1 DEF Staged
  <2>4. CASE TakeSockAccept
    <3>1. Announced(c)
      BY <2>3, <2>4 DEF TakeSockAccept, Accepted, Client
    <3>2. sock' = sock
      BY <2>4, <3>1 DEF TakeSockAccept, Announced, Closed
    <3> QED
      BY <1>1, <3>2
  <2>5. CASE TakeSockClose
    BY <2>3, <2>5 DEF TakeSockClose, Accepted, Announced, Client
  <2> QED
    BY <2>2, <2>4, <2>5
<1>2. TypeOK /\ CalmInv /\ [Next]_vars =>
        [\A c \in Monitors :
           breaches = 0 /\ sock[c] = "open" /\ sock'[c] = "closed" => peer[c] = "gone"]_vars
  BY <1>1
<1> QED
  BY <1>2, TypeCorrect, CalmHeld, PTL DEF Spec, KeepsMonitor
=============================================================================
