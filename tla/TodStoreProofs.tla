--------------------------- MODULE TodStoreProofs ---------------------------
(***************************************************************************)
(* Theorems about TodStore for every value of its constants.               *)
(***************************************************************************)
EXTENDS TodStore, TLAPS, FiniteSetTheorems

(* A header is made of a stamp with a month of the calendar, a train number *)
(* and a second.                                                            *)
LEMMA HeaderFacts ==
    ASSUME NEW h \in Headers
    PROVE  /\ h.key \in Fids
           /\ h.key.t \in Stamp
           /\ h.key.t.mon \in 1..12
           /\ h.sec \in Nat
    BY HeadersAssumption DEF Fids

LEMMA FidFacts ==
    ASSUME NEW k \in Fids \cup {ZeroFid}
    PROVE  /\ k.t \in Stamp
           /\ k.t.year \in Nat /\ k.t.mon \in Nat /\ k.t.win \in Nat
  <1>1. CASE k = ZeroFid
    BY <1>1 DEF ZeroFid, ZeroStamp, Stamp
  <1>2. CASE k \in Fids
    BY <1>2, HeadersAssumption DEF Fids, Stamp
  <1>3. QED BY <1>1, <1>2

(* Names are built from identities and have them as their keys. *)
LEMMA NameFacts ==
    ASSUME NEW k \in Fids
    PROVE  /\ CurName(k) \in Names /\ ZipName(k) \in Names
           /\ CurName(k).key = k /\ ZipName(k).key = k
           /\ CurName(k).sign = "c" /\ ZipName(k).sign = "a"
    BY DEF CurName, ZipName, Names

LEMMA NameKey ==
    ASSUME NEW n \in Names
    PROVE  n.key \in Fids /\ n.sign \in {"c", "a"}
    BY DEF Names

(* The zero identity is no file's: its month is 0. *)
LEMMA ZeroIsNoFile == ZeroFid \notin Fids
  <1>1. SUFFICES ASSUME ZeroFid \in Fids PROVE FALSE
    OBVIOUS
  <1>2. PICK h \in Headers : ZeroFid = h.key
    BY <1>1 DEF Fids
  <1>3. ZeroFid.t.mon \in 1..12
    BY <1>2, HeaderFacts
  <1>4. QED BY <1>3 DEF ZeroFid, ZeroStamp

(* One month back from a stamp of a year above 0 is a stamp. *)
LEMMA MonthBackType ==
    ASSUME NEW t \in Stamp, t.year # 0
    PROVE  MonthBack(t) \in Stamp
  <1>1. t.year \in Nat /\ t.mon \in Nat /\ t.win \in Nat /\ t.year - 1 \in Nat
    BY DEF Stamp
  <1>2. CASE t.mon > 1
    <2>1. t.mon - 1 \in Nat
      BY <1>1, <1>2
    <2>2. [t EXCEPT !.mon = @ - 1] \in Stamp
      BY <1>1, <2>1 DEF Stamp
    <2>3. QED BY <1>2, <2>2 DEF MonthBack
  <1>3. CASE ~(t.mon > 1)
    <2>1. [t EXCEPT !.mon = 12, !.year = @ - 1] \in Stamp
      BY <1>1 DEF Stamp
    <2>2. QED BY <1>3, <2>1 DEF MonthBack
  <1>4. QED BY <1>2, <1>3

-----------------------------------------------------------------------------
(* Type correctness needs to know, besides the types, that there is a frame *)
(* in the slot while a command is under way, and that the files being       *)
(* written, zipped and copied are files.                                    *)
TypeInv ==
    /\ TypeOK
    /\ txpc = "cmd" \/ stq > 0 \/ wpc # "recv" => slot # 0
    /\ wpc \in {"write", "roll"} => wKey \in Fids
    /\ apc \in {"zip", "unlink"} => zfid \in Fids
    /\ dnpc = "copy" => dnName \in Names

LEMMA TypeInit == Init => TypeInv
  <1>1. ASSUME Init PROVE TypeInv
    <2>1. ZeroStamp \in Stamp
      BY DEF ZeroStamp, Stamp
    <2>2. hdr \in Seq(Headers) /\ Len(hdr) = 0
      BY <1>1 DEF Init
    <2>3. QED BY <1>1, <2>1, <2>2, BoundsAssumption DEF Init, TypeInv, TypeOK
  <1>2. QED BY <1>1

LEMMA TypeStep == TypeInv /\ [Next]_vars => TypeInv'
  <1> SUFFICES ASSUME TypeInv, [Next]_vars PROVE TypeInv'
    OBVIOUS
  <1> USE BoundsAssumption DEF TypeInv, TypeOK
  <1>1. ASSUME NEW h \in Headers, CopyFrame(h) PROVE TypeInv'
    <2>1. Len(hdr') = Len(hdr) + 1 /\ hdr' \in Seq(Headers)
      BY <1>1 DEF CopyFrame
    <2>2. 1..Len(hdr) \subseteq 1..Len(hdr')
      BY <2>1
    <2>3. QED BY <1>1, <2>1, <2>2 DEF CopyFrame, tdcVars, watchVars, alignVars, fileVars, dnVars
  <1>2. ASSUME TaskCmd PROVE TypeInv'
    BY <1>2 DEF TaskCmd, tdcVars, watchVars, alignVars, fileVars, dnVars
  <1>3. ASSUME WatchReceive PROVE TypeInv'
    <2>1. Header(slot).sec \in Nat
      BY <1>3, HeaderFacts DEF Header, ZeroHeader
    <2>2. QED BY <1>3, <2>1 DEF WatchReceive, tdcVars, watchVars, alignVars, fileVars, dnVars
  <1>4. ASSUME ReadStamp PROVE TypeInv'
    <2>1. Header(slot).key \in Fids
      BY <1>4, HeaderFacts DEF Header, ReadStamp
    <2>2. QED BY <1>4, <2>1 DEF ReadStamp, tdcVars, watchVars, alignVars, fileVars, dnVars
  <1>5. ASSUME WriteTod PROVE TypeInv'
    <2>1. CurName(wKey) \in Names /\ slot \in 1..Len(hdr)
      BY <1>5, NameFacts DEF WriteTod
    <2>2. dir' \subseteq Names /\ data' \in [Names -> SUBSET (1..Len(hdr))]
      BY <1>5, <2>1 DEF WriteTod, fileVars
    <2>3. QED BY <1>5, <2>2 DEF WriteTod, tdcVars, watchVars, alignVars, fileVars, dnVars
  <1>6. ASSUME Roll PROVE TypeInv'
    <2>1. err' \in [same : 0..WordMax, miss : 0..WordMax]
      BY <1>6 DEF Roll, IncWord
    <2>2. QED BY <1>6, <2>1 DEF Roll, tdcVars, watchVars, alignVars, fileVars, dnVars
  <1>7. ASSUME AlignBegin PROVE TypeInv'
    <2>1. old' \in Stamp
      BY <1>7, FidFacts, MonthBackType DEF AlignBegin
    <2>2. QED BY <1>7, <2>1 DEF AlignBegin, tdcVars, watchVars, alignVars, fileVars, dnVars
  <1>8. ASSUME NEW n \in Names, DeleteOld(n) PROVE TypeInv'
    BY <1>8 DEF DeleteOld, Returned, tdcVars, watchVars, alignVars, fileVars, dnVars
  <1>9. ASSUME NEW n \in Names, Skip(n) PROVE TypeInv'
    BY <1>9 DEF Skip, Returned, tdcVars, watchVars, alignVars, fileVars, dnVars
  <1>10. ASSUME NEW n \in Names, ZipBegin(n) PROVE TypeInv'
    <2>1. n.key \in Fids /\ data[n] \subseteq 1..Len(hdr)
      BY NameKey
    <2>2. QED BY <1>10, <2>1 DEF ZipBegin, Returned, tdcVars, watchVars, alignVars, fileVars, dnVars
  <1>11. ASSUME ZipWrite \/ ZipRemove PROVE TypeInv'
    <2>1. CurName(zfid) \in Names /\ ZipName(zfid) \in Names
      BY <1>11, NameFacts DEF ZipWrite, ZipRemove
    <2>2. dir' \subseteq Names /\ data' \in [Names -> SUBSET (1..Len(hdr))]
      BY <1>11, <2>1 DEF ZipWrite, ZipRemove, fileVars
    <2>3. QED
      BY <1>11, <2>2 DEF ZipWrite, ZipRemove, ZipDone, tdcVars, watchVars, fileVars, dnVars
  <1>12. ASSUME AlignEnd PROVE TypeInv'
    <2>1. ZeroStamp \in Stamp
      BY DEF ZeroStamp, Stamp
    <2>2. QED BY <1>12, <2>1 DEF AlignEnd, tdcVars, watchVars, alignVars, fileVars, dnVars
  <1>13. ASSUME NEW n \in Names, MoveBegin(n) PROVE TypeInv'
    BY <1>13 DEF MoveBegin, tdcVars, watchVars, alignVars, fileVars, dnVars
  <1>14. ASSUME MoveEnd PROVE TypeInv'
    <2>1. /\ dir' \subseteq Names
          /\ data' \in [Names -> SUBSET (1..Len(hdr))]
          /\ usb' \in [Names -> SUBSET (1..Len(hdr))]
      BY <1>14 DEF MoveEnd, Taken, fileVars
    <2>2. taken' \in [Names -> SUBSET (1..Len(hdr))]
      <3>1. taken' = taken \/ taken' = [taken EXCEPT ![dnName] = @ \cup data[dnName]]
        BY <1>14 DEF MoveEnd, Taken
      <3>2. dnName \in Names /\ data[dnName] \subseteq 1..Len(hdr)
        BY <1>14 DEF MoveEnd
      <3>3. QED BY <3>1, <3>2
    <2>3. QED BY <1>14, <2>1, <2>2 DEF MoveEnd, tdcVars, watchVars, alignVars, fileVars, dnVars
  <1>15. ASSUME PowerCycle PROVE TypeInv'
    <2>1. ZeroStamp \in Stamp
      BY DEF ZeroStamp, Stamp
    <2>2. QED BY <1>15, <2>1 DEF PowerCycle, tdcVars, watchVars, alignVars, fileVars, dnVars
  <1>16. ASSUME UNCHANGED vars PROVE TypeInv'
    BY <1>16 DEF vars, tdcVars, watchVars, alignVars, fileVars, dnVars
  <1>17. QED
    BY <1>1, <1>2, <1>3, <1>4, <1>5, <1>6, <1>7, <1>8, <1>9, <1>10, <1>11,
       <1>12, <1>13, <1>14, <1>15, <1>16 DEF Next, Watch, Align

(* The types, for every queue length, calendar and order of the frames: the *)
(* queue never holds more than MaxCmd commands though tdc fills it from an  *)
(* unlocked look, and every file named or written is a file of some frame.  *)
THEOREM TypeCorrect == Spec => []TypeOK
  <1>1. Spec => []TypeInv
    BY TypeInit, TypeStep, PTL DEF Spec
  <1>2. TypeInv => TypeOK
    BY DEF TypeInv
  <1>3. QED BY <1>1, <1>2, PTL

-----------------------------------------------------------------------------
(* The order of stamps. *)
LEMMA EarlierOrder ==
    /\ \A a \in Stamp : ~Earlier(a, a)
    /\ \A a, b, c \in Stamp : Earlier(a, b) /\ Earlier(b, c) => Earlier(a, c)
    /\ \A a, b, c \in Stamp : ~Earlier(b, a) /\ Earlier(b, c) => Earlier(a, c)
  <1>1. \A a \in Stamp : a.year \in Nat /\ a.mon \in Nat /\ a.win \in Nat
    BY DEF Stamp
  <1>2. \A a \in Stamp : ~Earlier(a, a)
    BY <1>1 DEF Earlier
  <1>3. \A a, b, c \in Stamp : Earlier(a, b) /\ Earlier(b, c) => Earlier(a, c)
    BY <1>1 DEF Earlier
  <1>4. ASSUME NEW a \in Stamp, NEW b \in Stamp, NEW c \in Stamp,
               ~Earlier(b, a), Earlier(b, c)
        PROVE  Earlier(a, c)
    <2>1. /\ a.year \in Nat /\ a.mon \in Nat /\ a.win \in Nat
          /\ b.year \in Nat /\ b.mon \in Nat /\ b.win \in Nat
          /\ c.year \in Nat /\ c.mon \in Nat /\ c.win \in Nat
      BY <1>1
    <2>2. QED BY <1>4, <2>1 DEF Earlier
  <1>5. QED BY <1>2, <1>3, <1>4

LEMMA MonthBackEarlier ==
    ASSUME NEW t \in Stamp
    PROVE  Earlier(MonthBack(t), t)
  <1>1. t.year \in Nat /\ t.mon \in Nat /\ t.win \in Nat
    BY DEF Stamp
  <1>2. CASE t.mon > 1
    <2>1. MonthBack(t) = [t EXCEPT !.mon = @ - 1]
      BY <1>2 DEF MonthBack
    <2>2. MonthBack(t).year = t.year /\ MonthBack(t).mon = t.mon - 1
      BY <2>1 DEF Stamp
    <2>3. QED BY <1>1, <2>2 DEF Earlier
  <1>3. CASE ~(t.mon > 1)
    <2>1. MonthBack(t) = [t EXCEPT !.mon = 12, !.year = @ - 1]
      BY <1>3 DEF MonthBack
    <2>2. MonthBack(t).year = t.year - 1
      BY <2>1 DEF Stamp
    <2>3. QED BY <1>1, <2>2 DEF Earlier
  <1>4. QED BY <1>2, <1>3

(* Identities in the order of time; of two equal stamps only the same file. *)
NotAfter(k, l) == k = l \/ Earlier(k.t, l.t)

AnyFid == Fids \cup {ZeroFid}

LEMMA FidOrder ==
    /\ \A k \in AnyFid : ~Earlier(k.t, k.t) /\ NotAfter(k, k)
    /\ \A k, l, m \in AnyFid : Earlier(k.t, l.t) /\ Earlier(l.t, m.t) => Earlier(k.t, m.t)
    /\ \A k, l, m \in AnyFid : ~Earlier(l.t, k.t) /\ Earlier(l.t, m.t) => Earlier(k.t, m.t)
    /\ \A k, l, m \in AnyFid : NotAfter(k, l) /\ Earlier(l.t, m.t) => Earlier(k.t, m.t)
    /\ \A k, l, m \in AnyFid : Earlier(k.t, l.t) /\ NotAfter(l, m) => Earlier(k.t, m.t)
    /\ \A k, l, m \in AnyFid : NotAfter(k, l) /\ NotAfter(l, m) => NotAfter(k, m)
  <1>1. \A k \in AnyFid : k.t \in Stamp
    BY FidFacts DEF AnyFid
  <1>2. QED BY <1>1, EarlierOrder DEF NotAfter

LEMMA FidInAny == Fids \subseteq AnyFid /\ ZeroFid \in AnyFid
  BY DEF AnyFid

(* Names are equal only when sign and identity are. *)
LEMMA NameInjective ==
    /\ \A k, l \in Fids : CurName(k) = CurName(l) => k = l
    /\ \A k, l \in Fids : ZipName(k) = ZipName(l) => k = l
    /\ \A k, l \in Fids : CurName(k) # ZipName(l)
    /\ \A n \in Names : n = CurName(n.key) \/ n = ZipName(n.key)
  BY DEF CurName, ZipName, Names

-----------------------------------------------------------------------------
(* Watch and Align share no lock.  What keeps them off the same file is an  *)
(* order: frames come forward in time, so the file named by c_alignFid is   *)
(* always earlier than the open one, and that is never later than the frame *)
(* sm is writing or the latest frame accepted.                              *)
OrderInv ==
    /\ \A i \in 1..Len(hdr) : NotAfter(hdr[i].key, Latest.key)
    /\ curFid # ZeroFid => slot # 0 /\ NotAfter(curFid, Latest.key)
    /\ wpc \in {"write", "roll"} =>
         /\ NotAfter(wKey, Latest.key)
         /\ curFid # ZeroFid => NotAfter(curFid, wKey)
    /\ alignFid # ZeroFid => curFid # ZeroFid /\ Earlier(alignFid.t, curFid.t)
    /\ sem > 0 \/ apc \in {"scan", "zip", "unlink"} => alignFid # ZeroFid
    /\ apc \in {"zip", "unlink"} => ~Earlier(alignFid.t, zfid.t)

LEMMA OrderInit == Init => OrderInv
  BY DEF Init, OrderInv

LEMMA LatestFid ==
    ASSUME TypeInv
    PROVE  /\ Latest.key \in AnyFid
           /\ slot # 0 => Header(slot) = Latest /\ Latest.key \in Fids /\ Latest = hdr[Len(hdr)]
           /\ \A i \in 1..Len(hdr) : hdr[i].key \in Fids /\ hdr[i] \in Headers
  <1>1. hdr \in Seq(Headers) /\ Len(hdr) \in Nat
    BY DEF TypeInv, TypeOK
  <1>2. \A i \in 1..Len(hdr) : hdr[i].key \in Fids /\ hdr[i] \in Headers
    BY <1>1, HeaderFacts
  <1>3. Latest.key \in AnyFid
    <2>1. CASE Len(hdr) = 0
      BY <2>1 DEF Latest, Header, ZeroHeader, AnyFid
    <2>2. CASE Len(hdr) # 0
      BY <1>1, <1>2, <2>2 DEF Latest, Header, AnyFid
    <2>3. QED BY <2>1, <2>2
  <1>4. slot # 0 => Header(slot) = Latest /\ Latest.key \in Fids /\ Latest = hdr[Len(hdr)]
    BY <1>1, <1>2 DEF TypeInv, TypeOK, Latest, Header
  <1>5. QED BY <1>2, <1>3, <1>4

(* The latest frame only moves forward, to another window or not at all. *)
LEMMA LatestMoves ==
    ASSUME ForwardOnly, TypeInv, NEW h \in Headers, CopyFrame(h)
    PROVE  /\ Latest'.key = h.key /\ Latest'.key \in Fids
           /\ hdr # <<>> => NotAfter(Latest.key, Latest'.key)
           /\ Len(hdr') = Len(hdr) + 1
           /\ \A i \in 1..Len(hdr) : hdr'[i] = hdr[i]
           /\ hdr'[Len(hdr')] = h
  <1>1. hdr \in Seq(Headers) /\ Len(hdr) \in Nat
    BY DEF TypeInv, TypeOK
  <1>2. /\ Len(hdr') = Len(hdr) + 1
        /\ \A i \in 1..Len(hdr) : hdr'[i] = hdr[i]
        /\ hdr'[Len(hdr')] = h
    BY <1>1 DEF CopyFrame
  <1>3. Latest' = h
    BY <1>1, <1>2 DEF Latest, Header
  <1>4. ASSUME hdr # <<>> PROVE NotAfter(Latest.key, h.key)
    <2>1. Len(hdr) # 0 /\ Latest = hdr[Len(hdr)]
      BY <1>1, <1>4 DEF Latest, Header
    <2>2. <<Latest, h>> \in Follows
      BY <1>4, <2>1 DEF CopyFrame
    <2>3. QED BY <2>2 DEF ForwardOnly, NotAfter
  <1>5. QED BY <1>2, <1>3, <1>4, HeaderFacts

LEMMA OrderStep == ForwardOnly /\ TypeInv /\ OrderInv /\ [Next]_vars => OrderInv'
  <1> SUFFICES ASSUME ForwardOnly, TypeInv, OrderInv, [Next]_vars PROVE OrderInv'
    OBVIOUS
  <1>t. /\ Latest.key \in AnyFid /\ wKey \in AnyFid /\ curFid \in AnyFid
        /\ alignFid \in AnyFid /\ zfid \in AnyFid
        /\ Len(hdr) \in Nat
    BY LatestFid DEF TypeInv, TypeOK, AnyFid
  <1>u. ASSUME UNCHANGED hdr PROVE Latest' = Latest
    BY <1>u DEF Latest, Header
  <1>1. ASSUME NEW h \in Headers, CopyFrame(h) PROVE OrderInv'
    <2>1. /\ Latest'.key \in AnyFid
          /\ NotAfter(Latest'.key, Latest'.key)
      BY <1>1, LatestMoves, FidOrder DEF AnyFid
    <2>2. \A i \in 1..Len(hdr)' : NotAfter(hdr[i].key, Latest.key)'
      <3> SUFFICES ASSUME NEW i \in 1..Len(hdr') PROVE NotAfter(hdr'[i].key, Latest'.key)
        OBVIOUS
      <3>1. CASE i = Len(hdr')
        BY <1>1, <2>1, <3>1, LatestMoves
      <3>2. CASE i # Len(hdr')
        <4>1. i \in 1..Len(hdr) /\ hdr'[i] = hdr[i] /\ hdr # <<>>
          BY <1>t, <1>1, <3>2, LatestMoves
        <4>2. NotAfter(hdr[i].key, Latest.key) /\ NotAfter(Latest.key, Latest'.key)
          BY <1>1, <4>1, LatestMoves DEF OrderInv
        <4>3. hdr[i].key \in AnyFid
          BY <4>1, LatestFid DEF AnyFid
        <4>4. QED BY <1>t, <2>1, <4>1, <4>2, <4>3, FidOrder
      <3>3. QED BY <3>1, <3>2
    <2>3. ASSUME slot # 0, NEW k \in AnyFid, NotAfter(k, Latest.key)
          PROVE  NotAfter(k, Latest'.key)
      <3>1. hdr # <<>>
        BY <2>3, LatestFid DEF TypeInv, TypeOK
      <3>2. QED BY <1>t, <1>1, <2>1, <2>3, <3>1, LatestMoves, FidOrder
    <2>4. slot' # 0
      BY <1>t, <1>1 DEF CopyFrame
    <2>5. wpc \in {"write", "roll"} => slot # 0
      BY DEF TypeInv
    <2>6. QED BY <1>t, <1>1, <2>2, <2>3, <2>4, <2>5 DEF OrderInv, CopyFrame, watchVars, alignVars
  <1>2. ASSUME TaskCmd PROVE OrderInv'
    BY <1>2, <1>u DEF OrderInv, TaskCmd, watchVars, alignVars
  <1>3. ASSUME WatchReceive PROVE OrderInv'
    BY <1>3, <1>u DEF OrderInv, WatchReceive, tdcVars, alignVars
  <1>4. ASSUME ReadStamp PROVE OrderInv'
    <2>1. wKey' = Latest.key /\ NotAfter(Latest.key, Latest.key)
      BY <1>t, <1>4, LatestFid, FidOrder DEF ReadStamp, TypeInv
    <2>2. QED BY <1>4, <1>u, <2>1 DEF OrderInv, ReadStamp, tdcVars, alignVars
  <1>5. ASSUME WriteTod PROVE OrderInv'
    BY <1>5, <1>u DEF OrderInv, WriteTod, tdcVars, alignVars
  <1>6. ASSUME Roll PROVE OrderInv'
    <2>1. /\ curFid' = wKey /\ slot # 0 /\ NotAfter(wKey, Latest.key)
          /\ wKey \in Fids /\ wKey # ZeroFid
      BY <1>6, ZeroIsNoFile DEF OrderInv, Roll, TypeInv
    <2>2. CASE curFid # ZeroFid /\ curFid # wKey
      <3>1. alignFid' = curFid /\ Earlier(curFid.t, wKey.t)
        BY <1>6, <2>2 DEF OrderInv, Roll, NotAfter
      <3>2. apc \in {"zip", "unlink"} => ~Earlier(curFid.t, zfid.t)
        <4> SUFFICES ASSUME apc \in {"zip", "unlink"}, Earlier(curFid.t, zfid.t) PROVE FALSE
          OBVIOUS
        <4>1. Earlier(alignFid.t, curFid.t) /\ ~Earlier(alignFid.t, zfid.t)
          BY DEF OrderInv
        <4>2. QED BY <1>t, <4>1, FidOrder
      <3>3. QED BY <1>6, <1>u, <2>1, <2>2, <3>1, <3>2 DEF OrderInv, Roll, tdcVars, alignVars
    <2>3. CASE curFid = wKey
      BY <1>6, <1>u, <2>1, <2>3 DEF OrderInv, Roll, tdcVars, alignVars
    <2>4. CASE curFid = ZeroFid
      BY <1>6, <1>u, <2>1, <2>4 DEF OrderInv, Roll, tdcVars, alignVars
    <2>5. QED BY <2>2, <2>3, <2>4
  <1>7. ASSUME AlignBegin PROVE OrderInv'
    BY <1>7, <1>u DEF OrderInv, AlignBegin, tdcVars, watchVars, TypeInv, TypeOK
  <1>8. ASSUME NEW n \in Names, DeleteOld(n) PROVE OrderInv'
    BY <1>8, <1>u DEF OrderInv, DeleteOld, Returned, tdcVars, watchVars
  <1>9. ASSUME NEW n \in Names, Skip(n) PROVE OrderInv'
    BY <1>9, <1>u DEF OrderInv, Skip, Returned, tdcVars, watchVars
  <1>10. ASSUME NEW n \in Names, ZipBegin(n) PROVE OrderInv'
    BY <1>10, <1>u DEF OrderInv, ZipBegin, Returned, ToZip, tdcVars, watchVars
  <1>11. ASSUME ZipWrite \/ ZipRemove PROVE OrderInv'
    BY <1>11, <1>u DEF OrderInv, ZipWrite, ZipRemove, ZipDone, tdcVars, watchVars
  <1>12. ASSUME AlignEnd PROVE OrderInv'
    BY <1>12, <1>u DEF OrderInv, AlignEnd, tdcVars, watchVars
  <1>13. ASSUME NEW n \in Names, MoveBegin(n) PROVE OrderInv'
    BY <1>13, <1>u DEF OrderInv, MoveBegin, tdcVars, watchVars, alignVars
  <1>14. ASSUME MoveEnd PROVE OrderInv'
    BY <1>14, <1>u DEF OrderInv, MoveEnd, tdcVars, watchVars, alignVars
  <1>15. ASSUME PowerCycle PROVE OrderInv'
    BY <1>15, <1>u DEF OrderInv, PowerCycle
  <1>16. ASSUME UNCHANGED vars PROVE OrderInv'
    BY <1>16, <1>u DEF OrderInv, vars, tdcVars, watchVars, alignVars
  <1>17. QED
    BY <1>1, <1>2, <1>3, <1>4, <1>5, <1>6, <1>7, <1>8, <1>9, <1>10, <1>11,
       <1>12, <1>13, <1>14, <1>15, <1>16 DEF Next, Watch, Align

LEMMA OrderKeepsOff == TypeInv /\ OrderInv => CurrentNotZipped
  <1> SUFFICES ASSUME TypeInv, OrderInv, apc \in {"zip", "unlink"}
               PROVE  zfid # curFid /\ (wpc \in {"write", "roll"} => zfid # wKey)
    BY DEF CurrentNotZipped
  <1>1. wKey \in AnyFid /\ curFid \in AnyFid /\ alignFid \in AnyFid /\ zfid \in AnyFid
    BY DEF TypeInv, TypeOK, AnyFid
  <1>2. curFid # ZeroFid /\ Earlier(alignFid.t, curFid.t) /\ ~Earlier(alignFid.t, zfid.t)
    BY DEF OrderInv
  <1>3. zfid # curFid
    BY <1>2
  <1>4. ASSUME wpc \in {"write", "roll"} PROVE zfid # wKey
    <2>1. Earlier(alignFid.t, wKey.t)
      BY <1>1, <1>2, <1>4, FidOrder DEF OrderInv
    <2>2. QED BY <1>2, <2>1
  <1>5. QED BY <1>3, <1>4

(* The file sm appends to, or is about to append to, is never the one being *)
(* zipped, for any number of frames, windows and power cycles, whatever the *)
(* interleaving of sm's two threads, as long as the stamps go forward.      *)
THEOREM CurrentSafe ==
    ASSUME ForwardOnly
    PROVE  Spec => []CurrentNotZipped
  <1>1. Spec => [](TypeInv /\ OrderInv)
    BY TypeInit, TypeStep, OrderInit, OrderStep, ForwardOnly, PTL DEF Spec
  <1>2. TypeInv /\ OrderInv => CurrentNotZipped
    BY OrderKeepsOff
  <1>3. QED BY <1>1, <1>2, PTL

-----------------------------------------------------------------------------
(* Frame i lies under identity k: in a file of the archive or on the stick, *)
(* or in the buffer of zip or dn at work on such a file.                    *)
Lies(k, i) ==
    \/ \E n \in Names : n.key = k /\ i \in data[n] \cup usb[n]
    \/ apc \in {"zip", "unlink"} /\ zfid = k /\ i \in zbuf
    \/ dnpc = "copy" /\ dnName.key = k /\ i \in dnBuf

(* Zipping, moving and deleting only carry frames under the identity they   *)
(* have; only WriteTod gives one.                                           *)
LEMMA Carried ==
    ASSUME TypeInv, [Next]_vars, NEW k, NEW i, Lies(k, i)'
    PROVE  Lies(k, i) \/ (WriteTod /\ k = wKey /\ i = slot)
  <1>t. data \in [Names -> SUBSET (1..Len(hdr))] /\ usb \in [Names -> SUBSET (1..Len(hdr))]
    BY DEF TypeInv, TypeOK
  <1>1. ASSUME UNCHANGED fileVars, UNCHANGED usb, UNCHANGED dnVars,
               UNCHANGED alignVars \/ apc' \notin {"zip", "unlink"}
        PROVE  Lies(k, i)
    BY <1>1 DEF Lies, fileVars, dnVars, alignVars
  <1>2. ASSUME WriteTod PROVE Lies(k, i) \/ (k = wKey /\ i = slot)
    <2>1. CurName(wKey) \in Names /\ CurName(wKey).key = wKey
      BY <1>2, NameFacts DEF WriteTod, TypeInv
    <2>2. \A n \in Names : i \in data'[n] => i \in data[n] \/ (n = CurName(wKey) /\ i = slot)
      BY <1>2, <1>t, <2>1 DEF WriteTod, fileVars
    <2>3. UNCHANGED <<apc, zfid, zbuf, dnVars, usb>>
      BY <1>2 DEF WriteTod, alignVars, dnVars
    <2>4. QED BY <2>1, <2>2, <2>3 DEF Lies, dnVars
  <1>3. ASSUME NEW n \in Names, DeleteOld(n) PROVE Lies(k, i)
    <2>1. \A m \in Names : data'[m] \subseteq data[m]
      BY <1>3, <1>t DEF DeleteOld, fileVars
    <2>2. UNCHANGED <<apc, zfid, zbuf, dnVars, usb>>
      BY <1>3 DEF DeleteOld, dnVars
    <2>3. QED BY <2>1, <2>2 DEF Lies, dnVars
  <1>4. ASSUME NEW n \in Names, ZipBegin(n) PROVE Lies(k, i)
    <2>1. zfid' = n.key /\ zbuf' = data[n] /\ UNCHANGED <<data, dnVars, usb>>
      BY <1>4 DEF ZipBegin, fileVars, dnVars
    <2>2. QED BY <2>1 DEF Lies, dnVars
  <1>5. ASSUME ZipWrite \/ ZipRemove PROVE Lies(k, i)
    <2>1. ZipName(zfid) \in Names /\ ZipName(zfid).key = zfid
      BY <1>5, NameFacts DEF ZipWrite, ZipRemove, TypeInv
    <2>2. \A n \in Names : i \in data'[n] => i \in data[n] \/ (n = ZipName(zfid) /\ i \in zbuf)
      BY <1>5, <1>t, <2>1 DEF ZipWrite, ZipRemove, fileVars
    <2>3. /\ apc \in {"zip", "unlink"} /\ UNCHANGED <<dnVars, usb>>
          /\ apc' = "scan" \/ UNCHANGED <<zfid, zbuf>>
      BY <1>5 DEF ZipWrite, ZipRemove, ZipDone, dnVars
    <2>4. QED BY <2>1, <2>2, <2>3 DEF Lies, dnVars
  <1>6. ASSUME NEW n \in Names, MoveBegin(n) PROVE Lies(k, i)
    <2>1. dnName' = n /\ dnBuf' = data[n] /\ UNCHANGED <<data, apc, zfid, zbuf, usb>>
      BY <1>6 DEF MoveBegin, fileVars, alignVars
    <2>2. QED BY <2>1 DEF Lies
  <1>7. ASSUME MoveEnd PROVE Lies(k, i)
    <2>1. dnName \in Names /\ dnpc = "copy" /\ dnpc' = "idle"
      BY <1>7 DEF MoveEnd, TypeInv
    <2>2. \A n \in Names : i \in data'[n] => i \in data[n]
      BY <1>7, <1>t, <2>1 DEF MoveEnd, Taken, fileVars
    <2>3. \A n \in Names : i \in usb'[n] => i \in usb[n] \/ (n = dnName /\ i \in dnBuf)
      BY <1>7, <1>t, <2>1 DEF MoveEnd
    <2>4. UNCHANGED <<apc, zfid, zbuf>>
      BY <1>7 DEF MoveEnd, alignVars
    <2>5. QED BY <2>1, <2>2, <2>3, <2>4 DEF Lies
  <1>8. ASSUME PowerCycle PROVE Lies(k, i)
    BY <1>8 DEF PowerCycle, fileVars, Lies
  <1>9. ASSUME NEW h \in Headers, CopyFrame(h) PROVE Lies(k, i)
    BY <1>1, <1>9 DEF CopyFrame, dnVars
  <1>10. ASSUME TaskCmd \/ WatchReceive \/ ReadStamp \/ Roll PROVE Lies(k, i)
    BY <1>1, <1>10 DEF TaskCmd, WatchReceive, ReadStamp, Roll, dnVars
  <1>11. ASSUME AlignBegin \/ AlignEnd PROVE Lies(k, i)
    BY <1>1, <1>11 DEF AlignBegin, AlignEnd, dnVars
  <1>12. ASSUME NEW n \in Names, Skip(n) PROVE Lies(k, i)
    <2>1. UNCHANGED <<data, apc, zfid, zbuf, dnVars, usb>>
      BY <1>12 DEF Skip, fileVars, dnVars
    <2>2. QED BY <2>1 DEF Lies, dnVars
  <1>13. ASSUME UNCHANGED vars PROVE Lies(k, i)
    BY <1>1, <1>13 DEF vars, dnVars
  <1>14. QED
    BY <1>2, <1>3, <1>4, <1>5, <1>6, <1>7, <1>8, <1>9, <1>10, <1>11, <1>12,
       <1>13 DEF Next, Watch, Align

LEMMA LiesType ==
    ASSUME TypeInv, NEW k, NEW i, Lies(k, i)
    PROVE  k \in Fids /\ i \in 1..Len(hdr)
  <1>1. /\ data \in [Names -> SUBSET (1..Len(hdr))] /\ usb \in [Names -> SUBSET (1..Len(hdr))]
        /\ zbuf \subseteq 1..Len(hdr) /\ dnBuf \subseteq 1..Len(hdr)
        /\ apc \in {"zip", "unlink"} => zfid \in Fids
        /\ dnpc = "copy" => dnName \in Names
    BY DEF TypeInv, TypeOK
  <1>2. QED BY <1>1, NameKey DEF Lies

(* Accepted frames are never renumbered. *)
LEMMA HdrKept ==
    ASSUME TypeInv, [Next]_vars, NEW i \in 1..Len(hdr)
    PROVE  hdr'[i] = hdr[i]
  <1>1. ASSUME NEW h \in Headers, CopyFrame(h) PROVE hdr'[i] = hdr[i]
    BY <1>1 DEF CopyFrame, TypeInv, TypeOK
  <1>2. ASSUME UNCHANGED hdr PROVE hdr'[i] = hdr[i]
    BY <1>2
  <1>3. TaskCmd \/ Watch => UNCHANGED hdr
    BY DEF TaskCmd, Watch, WatchReceive, ReadStamp, WriteTod, Roll, tdcVars
  <1>4. Align => UNCHANGED hdr
    BY DEF Align, AlignBegin, DeleteOld, Skip, ZipBegin, ZipWrite, ZipRemove, ZipDone, AlignEnd, tdcVars
  <1>5. (\E n \in Names : MoveBegin(n)) \/ MoveEnd \/ PowerCycle => UNCHANGED hdr
    BY DEF MoveBegin, MoveEnd, PowerCycle, tdcVars
  <1>6. UNCHANGED vars => UNCHANGED hdr
    BY DEF vars, tdcVars
  <1>7. QED BY <1>1, <1>2, <1>3, <1>4, <1>5, <1>6 DEF Next

(* A frame can only lie under its own identity or an earlier one. *)
AheadInv == \A k \in Fids : \A i \in 1..Len(hdr) : Lies(k, i) => NotAfter(k, hdr[i].key)

LEMMA AheadStep == TypeInv /\ OrderInv /\ AheadInv /\ [Next]_vars => AheadInv'
  <1> SUFFICES ASSUME TypeInv, OrderInv, AheadInv, [Next]_vars,
                      NEW k \in Fids, NEW i \in 1..Len(hdr'), Lies(k, i)'
               PROVE  NotAfter(k, hdr'[i].key)
    BY DEF AheadInv, Lies, NotAfter
  <1>1. CASE Lies(k, i)
    <2>1. i \in 1..Len(hdr)
      BY <1>1, LiesType
    <2>2. QED BY <1>1, <2>1, HdrKept DEF AheadInv
  <1>2. CASE WriteTod /\ k = wKey /\ i = slot
    <2>1. slot # 0 /\ wpc = "write"
      BY <1>2 DEF WriteTod, TypeInv
    <2>2. slot \in 1..Len(hdr) /\ Latest = hdr[slot]
      BY <2>1, LatestFid DEF TypeInv, TypeOK
    <2>3. NotAfter(wKey, Latest.key)
      BY <2>1 DEF OrderInv
    <2>4. QED BY <1>2, <2>2, <2>3, HdrKept
  <1>3. QED BY <1>1, <1>2, Carried

(* However far sm lags behind, no frame slips into the file of a later      *)
(* window than its own, in the archive or on the USB stick.                 *)
THEOREM FiledSafe ==
    ASSUME ForwardOnly
    PROVE  Spec => []NeverFiledAhead
  <1>1. Init => AheadInv
    BY DEF Init, AheadInv
  <1>2. Spec => [](TypeInv /\ OrderInv /\ AheadInv)
    BY TypeInit, TypeStep, OrderInit, OrderStep, AheadStep, <1>1, ForwardOnly, PTL DEF Spec
  <1>3. TypeInv /\ AheadInv => NeverFiledAhead
    <2> SUFFICES ASSUME TypeInv, AheadInv, NEW n \in Names, NEW i \in data[n] \cup usb[n]
                 PROVE  hdr[i].key = n.key \/ Earlier(n.key.t, hdr[i].key.t)
      BY DEF NeverFiledAhead
    <2>1. Lies(n.key, i)
      BY DEF Lies
    <2>2. QED BY <2>1, LiesType DEF AheadInv, NotAfter
  <1>4. QED BY <1>2, <1>3, PTL

(* The frame sm writes is still the one it named the file after. *)
OwnInv ==
    /\ wpc = "write" => wKey = Latest.key
    /\ \A k \in Fids : \A i \in 1..Len(hdr) : Lies(k, i) => hdr[i].key = k

LEMMA OwnStep == Paced /\ TypeInv /\ OwnInv /\ [Next]_vars => OwnInv'
  <1> SUFFICES ASSUME Paced, TypeInv, OwnInv, [Next]_vars PROVE OwnInv'
    OBVIOUS
  <1>1. wpc' = "write" => wKey' = Latest'.key
    <2>1. ASSUME ReadStamp PROVE wKey' = Latest'.key
      <3>1. wKey' = Latest.key
        BY <2>1, LatestFid DEF ReadStamp, TypeInv
      <3>2. QED BY <2>1, <3>1 DEF ReadStamp, tdcVars, Latest, Header
    <2>2. ASSUME UNCHANGED <<wpc, wKey, hdr>> PROVE wpc' = "write" => wKey' = Latest'.key
      BY <2>2 DEF OwnInv, Latest, Header
    <2>3. ASSUME NEW h \in Headers, CopyFrame(h) PROVE wpc' # "write"
      BY <2>3 DEF CopyFrame, watchVars
    <2>4. WatchReceive \/ WriteTod \/ Roll \/ PowerCycle => wpc' # "write"
      BY DEF WatchReceive, WriteTod, Roll, PowerCycle
    <2>5. TaskCmd \/ Align => UNCHANGED <<wpc, wKey, hdr>>
      BY DEF TaskCmd, Align, AlignBegin, DeleteOld, Skip, ZipBegin, ZipWrite, ZipRemove, ZipDone, AlignEnd,
             tdcVars, watchVars
    <2>6. (\E n \in Names : MoveBegin(n)) \/ MoveEnd => UNCHANGED <<wpc, wKey, hdr>>
      BY DEF MoveBegin, MoveEnd, tdcVars, watchVars
    <2>7. UNCHANGED vars => UNCHANGED <<wpc, wKey, hdr>>
      BY DEF vars, tdcVars, watchVars
    <2>8. QED BY <2>1, <2>2, <2>3, <2>4, <2>5, <2>6, <2>7 DEF Next, Watch
  <1>2. ASSUME NEW k \in Fids, NEW i \in 1..Len(hdr'), Lies(k, i)' PROVE hdr'[i].key = k
    <2>1. CASE Lies(k, i)
      <3>1. i \in 1..Len(hdr)
        BY <2>1, LiesType
      <3>2. QED BY <2>1, <3>1, HdrKept DEF OwnInv
    <2>2. CASE WriteTod /\ k = wKey /\ i = slot
      <3>1. slot # 0 /\ wpc = "write"
        BY <2>2 DEF WriteTod, TypeInv
      <3>2. slot \in 1..Len(hdr) /\ Latest = hdr[slot]
        BY <3>1, LatestFid DEF TypeInv, TypeOK
      <3>3. QED BY <2>2, <3>1, <3>2, HdrKept DEF OwnInv
    <2>3. QED BY <1>2, <2>1, <2>2, Carried
  <1>3. QED BY <1>1, <1>2 DEF OwnInv, Lies

(* When sm keeps up, every frame lies under its own window and train, in    *)
(* any order of the stamps and whatever file operation fails.               *)
THEOREM FiledUnderOwn ==
    ASSUME Paced
    PROVE  Spec => []FiledUnderOwnStamp
  <1>1. Init => OwnInv
    BY DEF Init, OwnInv
  <1>2. Spec => [](TypeInv /\ OwnInv)
    BY TypeInit, TypeStep, OwnStep, <1>1, Paced, PTL DEF Spec
  <1>3. TypeInv /\ OwnInv => FiledUnderOwnStamp
    <2> SUFFICES ASSUME TypeInv, OwnInv, NEW n \in Names, NEW i \in data[n] \cup usb[n]
                 PROVE  hdr[i].key = n.key
      BY DEF FiledUnderOwnStamp
    <2>1. Lies(n.key, i)
      BY DEF Lies
    <2>2. QED BY <2>1, LiesType DEF OwnInv
  <1>4. QED BY <1>2, <1>3, PTL

-----------------------------------------------------------------------------
(* The horizon of a scan is behind the closed file, and dn only moves       *)
(* archived files.                                                          *)
HorizonInv ==
    /\ apc \in {"scan", "zip", "unlink"} => Earlier(old, alignFid.t)
    /\ dnpc = "copy" => dnName.sign # "c"

LEMMA HorizonStep == TypeInv /\ OrderInv /\ HorizonInv /\ [Next]_vars => HorizonInv'
  <1> SUFFICES ASSUME TypeInv, OrderInv, HorizonInv, [Next]_vars PROVE HorizonInv'
    OBVIOUS
  <1>t. /\ old \in Stamp /\ alignFid.t \in Stamp /\ curFid.t \in Stamp
    BY FidFacts DEF TypeInv, TypeOK
  <1>1. dnpc' = "copy" => dnName'.sign # "c"
    <2>1. ASSUME NEW n \in Names, MoveBegin(n) PROVE dnName'.sign # "c"
      BY <2>1 DEF MoveBegin
    <2>2. MoveEnd \/ PowerCycle => dnpc' # "copy"
      BY DEF MoveEnd, PowerCycle
    <2>3. (\E h \in Headers : CopyFrame(h)) \/ TaskCmd \/ Watch => UNCHANGED dnVars
      BY DEF CopyFrame, TaskCmd, Watch, WatchReceive, ReadStamp, WriteTod, Roll
    <2>4. Align => UNCHANGED dnVars
      BY DEF Align, AlignBegin, DeleteOld, Skip, ZipBegin, ZipWrite, ZipRemove, ZipDone, AlignEnd
    <2>5. QED BY <2>1, <2>2, <2>3, <2>4 DEF Next, HorizonInv, dnVars, vars
  <1>2. apc' \in {"scan", "zip", "unlink"} => Earlier(old, alignFid.t)'
    <2>1. ASSUME AlignBegin PROVE apc' \in {"scan", "zip", "unlink"} => Earlier(old', alignFid'.t)
      BY <1>t, <2>1, MonthBackEarlier DEF AlignBegin
    <2>2. ASSUME Roll PROVE apc' \in {"scan", "zip", "unlink"} => Earlier(old', alignFid'.t)
      <3>1. UNCHANGED <<apc, old>> /\ (alignFid' = alignFid \/ alignFid' = curFid)
        BY <2>2 DEF Roll, alignVars
      <3>2. ASSUME apc \in {"scan", "zip", "unlink"} PROVE Earlier(old, curFid.t)
        <4>1. Earlier(alignFid.t, curFid.t) /\ Earlier(old, alignFid.t)
          BY <3>2 DEF OrderInv, HorizonInv
        <4>2. QED BY <1>t, <4>1, EarlierOrder
      <3>3. QED BY <3>1, <3>2 DEF HorizonInv
    <2>3. AlignEnd \/ PowerCycle => apc' \notin {"scan", "zip", "unlink"}
      BY DEF AlignEnd, PowerCycle
    <2>4. ASSUME UNCHANGED <<old, alignFid>>, apc' \in {"scan", "zip", "unlink"} => apc \in {"scan", "zip", "unlink"}
          PROVE  apc' \in {"scan", "zip", "unlink"} => Earlier(old', alignFid'.t)
      BY <2>4 DEF HorizonInv
    <2>5. ASSUME NEW n \in Names, DeleteOld(n) \/ Skip(n) \/ ZipBegin(n) \/ MoveBegin(n)
          PROVE  apc' \in {"scan", "zip", "unlink"} => Earlier(old', alignFid'.t)
      BY <2>4, <2>5 DEF DeleteOld, Skip, ZipBegin, MoveBegin, Returned, alignVars
    <2>6. ASSUME (\E h \in Headers : CopyFrame(h)) \/ TaskCmd \/ WatchReceive \/ ReadStamp
                 \/ WriteTod \/ ZipWrite \/ ZipRemove \/ MoveEnd \/ UNCHANGED vars
          PROVE  apc' \in {"scan", "zip", "unlink"} => Earlier(old', alignFid'.t)
      <3>1. UNCHANGED <<old, alignFid>> /\ (apc' = apc \/ ZipWrite \/ ZipRemove)
        BY <2>6 DEF CopyFrame, TaskCmd, WatchReceive, ReadStamp, WriteTod, ZipWrite, ZipRemove,
                    MoveEnd, vars, alignVars
      <3>2. ZipWrite \/ ZipRemove => apc \in {"zip", "unlink"}
        BY DEF ZipWrite, ZipRemove
      <3>3. QED BY <2>4, <3>1, <3>2
    <2>7. QED BY <2>1, <2>2, <2>3, <2>5, <2>6 DEF Next, Watch, Align
  <1>3. QED BY <1>1, <1>2 DEF HorizonInv, Earlier

(* Windows that were archived: what came of them is in the archive, being   *)
(* copied or on the USB stick.                                              *)
Retired(k) ==
    \/ ZipName(k) \in dir
    \/ dnName = ZipName(k)
    \/ usb[ZipName(k)] # {}

(* They are earlier than every frame still to be written, so their files    *)
(* are never opened again.                                                  *)
RetiredInv ==
    \A k \in Fids : Retired(k) =>
        /\ Earlier(k.t, Latest.key.t)
        /\ wpc = "write" => Earlier(k.t, wKey.t)

(* What the steps that open no file, zip none and start no move leave of it.*)
LEMMA RetiredKept ==
    ASSUME RetiredInv, dir' \subseteq dir,
           dnName' = dnName \/ dnName' = NoName, UNCHANGED usb,
           Latest' = Latest, wKey' = wKey \/ wpc' # "write", wpc' = "write" => wpc = "write"
    PROVE  RetiredInv'
  <1>1. \A k \in Fids : NoName # ZipName(k)
    BY DEF NoName, ZipName
  <1>2. QED BY <1>1 DEF RetiredInv, Retired, ZipName

LEMMA RetiredStep ==
    ForwardOnly /\ TypeInv /\ OrderInv /\ RetiredInv /\ [Next]_vars => RetiredInv'
  <1> SUFFICES ASSUME ForwardOnly, TypeInv, OrderInv, RetiredInv, [Next]_vars PROVE RetiredInv'
    OBVIOUS
  <1>t. /\ Latest.key \in AnyFid /\ wKey \in AnyFid /\ curFid \in AnyFid
        /\ alignFid \in AnyFid /\ zfid \in AnyFid
        /\ Fids \subseteq AnyFid /\ Len(hdr) \in Nat /\ dir \subseteq Names
        /\ usb \in [Names -> SUBSET (1..Len(hdr))]
    BY LatestFid, FidInAny DEF TypeInv, TypeOK, AnyFid
  <1>u. ASSUME UNCHANGED hdr PROVE Latest' = Latest
    BY <1>u DEF Latest, Header
  <1>n. \A k \in Fids : NoName # ZipName(k)
    BY DEF NoName, ZipName
  <1>1. ASSUME NEW h \in Headers, CopyFrame(h) PROVE RetiredInv'
    <2>1. ASSUME NEW k \in Fids, Earlier(k.t, Latest.key.t) PROVE Earlier(k.t, Latest'.key.t)
      <3>1. hdr # <<>>
        <4> SUFFICES ASSUME hdr = <<>> PROVE FALSE
          OBVIOUS
        <4>1. Latest.key.t = ZeroStamp
          BY DEF Latest, Header, ZeroHeader, ZeroFid
        <4>2. k.t.year \in Nat /\ k.t.mon \in Nat /\ k.t.win \in Nat
          BY FidFacts
        <4>3. QED BY <2>1, <4>1, <4>2 DEF Earlier, ZeroStamp
      <3>2. NotAfter(Latest.key, Latest'.key) /\ Latest'.key \in AnyFid
        BY <1>1, <3>1, LatestMoves DEF AnyFid
      <3>3. QED BY <1>t, <2>1, <3>2, FidOrder
    <2>2. UNCHANGED <<dir, wpc, wKey, dnName, usb>>
      BY <1>1 DEF CopyFrame, fileVars, watchVars, dnVars
    <2>3. QED BY <2>1, <2>2 DEF RetiredInv, Retired, ZipName
  <1>2. ASSUME TaskCmd PROVE RetiredInv'
    BY <1>2, <1>u, RetiredKept DEF TaskCmd, watchVars, fileVars, dnVars
  <1>3. ASSUME WatchReceive PROVE RetiredInv'
    BY <1>3, <1>u, RetiredKept DEF WatchReceive, tdcVars, fileVars, dnVars
  <1>4. ASSUME ReadStamp PROVE RetiredInv'
    <2>1. wKey' = Latest.key
      BY <1>4, LatestFid DEF ReadStamp, TypeInv
    <2>2. QED BY <1>4, <1>u, <2>1
          DEF ReadStamp, tdcVars, fileVars, dnVars, RetiredInv, Retired, ZipName
  <1>5. ASSUME WriteTod PROVE RetiredInv'
    <2>1. wKey \in Fids /\ wpc = "write" /\ wpc' = "roll"
      BY <1>5 DEF WriteTod, TypeInv
    <2>2. Latest' = Latest /\ dir' \subseteq dir \cup {CurName(wKey)} /\ UNCHANGED <<dnName, usb>>
      BY <1>5, <1>u DEF WriteTod, tdcVars, fileVars, dnVars
    <2>3. ASSUME NEW k \in Fids, Retired(k)' PROVE Retired(k)
      BY <2>1, <2>2, <2>3, NameInjective DEF Retired, ZipName
    <2>4. QED BY <2>1, <2>2, <2>3 DEF RetiredInv
  <1>6. ASSUME Roll PROVE RetiredInv'
    BY <1>6, <1>u, RetiredKept DEF Roll, tdcVars, fileVars, dnVars
  <1>7. ASSUME AlignBegin PROVE RetiredInv'
    BY <1>7, <1>u, RetiredKept DEF AlignBegin, tdcVars, watchVars, fileVars, dnVars
  <1>8. ASSUME NEW n \in Names, DeleteOld(n) PROVE RetiredInv'
    <2>1. dir' \subseteq dir /\ UNCHANGED <<tdcVars, watchVars, dnVars, apc, zfid>>
      BY <1>8 DEF DeleteOld, fileVars
    <2>2. QED BY <1>8, <2>1, <1>u, RetiredKept DEF DeleteOld, tdcVars, watchVars, dnVars
  <1>9. ASSUME NEW n \in Names, Skip(n) PROVE RetiredInv'
    BY <1>9, <1>u, RetiredKept DEF Skip, tdcVars, watchVars, fileVars, dnVars
  <1>10. ASSUME NEW n \in Names, ZipBegin(n) PROVE RetiredInv'
    BY <1>10, <1>u, RetiredKept DEF ZipBegin, tdcVars, watchVars, fileVars, dnVars
  <1>11. ASSUME ZipWrite PROVE RetiredInv'
    <2>1. /\ apc = "zip" /\ zfid \in Fids
          /\ UNCHANGED <<wpc, wKey, dnName, usb>> /\ Latest' = Latest
          /\ dir' \subseteq dir \cup {ZipName(zfid)}
      BY <1>11, <1>u DEF ZipWrite, TypeInv, tdcVars, watchVars, fileVars, dnVars
    <2>2. curFid # ZeroFid /\ Earlier(alignFid.t, curFid.t) /\ ~Earlier(alignFid.t, zfid.t)
      BY <2>1 DEF OrderInv
    <2>3. Earlier(zfid.t, curFid.t)
      BY <1>t, <2>2, FidOrder
    <2>4. Earlier(zfid.t, Latest.key.t) /\ (wpc = "write" => Earlier(zfid.t, wKey.t))
      BY <1>t, <2>2, <2>3, FidOrder DEF OrderInv
    <2>5. ASSUME NEW k \in Fids, Retired(k)', k # zfid PROVE Retired(k)
      BY <2>1, <2>5, NameInjective DEF Retired, ZipName
    <2>6. SUFFICES ASSUME NEW k \in Fids, Retired(k)'
                   PROVE  Earlier(k.t, Latest.key.t) /\ (wpc = "write" => Earlier(k.t, wKey.t))
      BY <2>1 DEF RetiredInv, Retired, ZipName
    <2>7. QED BY <2>4, <2>5, <2>6 DEF RetiredInv
  <1>18. ASSUME ZipRemove PROVE RetiredInv'
    BY <1>18, <1>u, RetiredKept DEF ZipRemove, tdcVars, watchVars, fileVars, dnVars
  <1>12. ASSUME AlignEnd PROVE RetiredInv'
    BY <1>12, <1>u, RetiredKept DEF AlignEnd, tdcVars, watchVars, fileVars, dnVars
  <1>13. ASSUME NEW n \in Names, MoveBegin(n) PROVE RetiredInv'
    <2>1. /\ n \in dir /\ dnName' = n
          /\ UNCHANGED <<dir, wpc, wKey, usb>> /\ Latest' = Latest
      BY <1>13, <1>u DEF MoveBegin, tdcVars, watchVars, fileVars
    <2>2. \A k \in Fids : Retired(k)' => Retired(k)
      BY <2>1 DEF Retired, ZipName
    <2>3. QED BY <2>1, <2>2 DEF RetiredInv
  <1>14. ASSUME MoveEnd PROVE RetiredInv'
    <2>1. /\ dir' \subseteq dir /\ dnName \in Names /\ dnName' = NoName
          /\ \A n \in Names : n # dnName => usb'[n] = usb[n]
          /\ UNCHANGED <<wpc, wKey>> /\ Latest' = Latest
      BY <1>t, <1>14, <1>u DEF MoveEnd, Taken, tdcVars, watchVars, fileVars, TypeInv
    <2>2. \A k \in Fids : Retired(k)' => Retired(k)
      BY <1>n, <2>1, NameFacts DEF Retired, ZipName
    <2>3. QED BY <2>1, <2>2 DEF RetiredInv
  <1>15. ASSUME PowerCycle PROVE RetiredInv'
    BY <1>15, <1>u, RetiredKept DEF PowerCycle, fileVars
  <1>16. ASSUME UNCHANGED vars PROVE RetiredInv'
    BY <1>16, <1>u, RetiredKept DEF vars, tdcVars, watchVars, fileVars, dnVars
  <1>17. QED
    BY <1>1, <1>2, <1>3, <1>4, <1>5, <1>6, <1>7, <1>8, <1>9, <1>10, <1>11,
       <1>12, <1>13, <1>14, <1>15, <1>16, <1>18 DEF Next, Watch, Align

LEMMA RetiredInit == Init => RetiredInv
  <1>1. \A k \in Fids : NoName # ZipName(k) /\ ZipName(k) \in Names
    BY NameFacts DEF NoName, ZipName
  <1>2. QED BY <1>1 DEF Init, RetiredInv, Retired

(* The files, even when file operations fail: a name not in the directory   *)
(* holds nothing; what zip has read is what the file still holds, for sm    *)
(* appends to another file and dn takes no open one; a window both open and *)
(* archived holds the same in both.                                         *)
FileInv ==
    /\ \A n \in Names : n \notin dir => data[n] = {}
    /\ apc \in {"zip", "unlink"} => CurName(zfid) \in dir /\ zbuf = data[CurName(zfid)]
    /\ OpenAsZipped

LEMMA FileStep ==
    TypeInv /\ OrderInv /\ HorizonInv /\ RetiredInv /\ FileInv /\ [Next]_vars => FileInv'
  <1> SUFFICES ASSUME TypeInv, OrderInv, HorizonInv, RetiredInv, FileInv, [Next]_vars
               PROVE  FileInv'
    OBVIOUS
  <1>t. /\ data \in [Names -> SUBSET (1..Len(hdr))]
        /\ dir \subseteq Names /\ wKey \in AnyFid /\ Fids \subseteq AnyFid
        /\ apc \in {"zip", "unlink"} => zfid \in Fids
    BY FidInAny DEF TypeInv, TypeOK, AnyFid
  <1>k. ASSUME UNCHANGED <<dir, data>>,
               UNCHANGED <<apc, zfid, zbuf>> \/ apc' \notin {"zip", "unlink"}
        PROVE  FileInv'
    BY <1>k DEF FileInv, OpenAsZipped, CurName, ZipName
  <1>d. ASSUME NEW n \in Names, dir' = dir \ {n}, data' = [data EXCEPT ![n] = {}],
               apc' \in {"zip", "unlink"} =>
                   UNCHANGED <<apc, zfid, zbuf>> /\ CurName(zfid) # n
        PROVE  FileInv'
    <2>1. \A m \in Names : m # n => data'[m] = data[m]
      BY <1>t, <1>d
    <2>2. data'[n] = {}
      BY <1>t, <1>d
    <2>3. OpenAsZipped'
      <3> SUFFICES ASSUME NEW k \in Fids, {CurName(k), ZipName(k)} \subseteq dir'
                   PROVE  data'[ZipName(k)] = data'[CurName(k)]
        BY DEF OpenAsZipped, CurName, ZipName
      <3>1. CurName(k) # n /\ ZipName(k) # n /\ {CurName(k), ZipName(k)} \subseteq dir
        BY <1>d
      <3>2. QED BY <2>1, <3>1, NameFacts DEF FileInv, OpenAsZipped
    <2>4. \A m \in Names : m \notin dir' => data'[m] = {}
      BY <1>d, <2>1, <2>2 DEF FileInv
    <2>5. ASSUME apc' \in {"zip", "unlink"}
          PROVE  CurName(zfid') \in dir' /\ zbuf' = data'[CurName(zfid')]
      BY <1>t, <1>d, <2>1, <2>5, NameFacts DEF FileInv
    <2>6. QED BY <2>3, <2>4, <2>5 DEF FileInv, CurName
  <1>1. ASSUME (\E h \in Headers : CopyFrame(h)) \/ TaskCmd \/ WatchReceive \/ ReadStamp \/ Roll
        PROVE  FileInv'
    BY <1>1, <1>k DEF CopyFrame, TaskCmd, WatchReceive, ReadStamp, Roll, alignVars, fileVars
  <1>2. ASSUME WriteTod PROVE FileInv'
    <2>1. /\ CurName(wKey) \in Names /\ wKey \in Fids /\ wpc = "write"
          /\ dir' = dir \/ dir' = dir \cup {CurName(wKey)}
          /\ \/ data' = data
             \/ data' = [data EXCEPT ![CurName(wKey)] = @ \cup {slot}] /\ CurName(wKey) \in dir'
          /\ UNCHANGED <<apc, zfid, zbuf>>
      BY <1>2, NameFacts DEF WriteTod, TypeInv, alignVars, fileVars
    <2>2. \A n \in Names : n # CurName(wKey) => data'[n] = data[n] /\ (n \in dir' <=> n \in dir)
      BY <1>t, <2>1
    <2>3. ZipName(wKey) \notin dir
      <3>1. ~Earlier(wKey.t, wKey.t)
        BY <1>t, FidOrder
      <3>2. QED BY <2>1, <3>1 DEF RetiredInv, Retired
    <2>4. apc \in {"zip", "unlink"} => CurName(zfid) # CurName(wKey) /\ CurName(zfid) \in Names
      BY <1>t, <2>1, OrderKeepsOff, NameInjective, NameFacts DEF CurrentNotZipped
    <2>5. OpenAsZipped'
      <3> SUFFICES ASSUME NEW k \in Fids, {CurName(k), ZipName(k)} \subseteq dir'
                   PROVE  data'[ZipName(k)] = data'[CurName(k)]
        BY DEF OpenAsZipped, CurName, ZipName
      <3>1. ZipName(k) # CurName(wKey) /\ ZipName(k) \in Names /\ CurName(k) \in Names
        BY <2>1, NameInjective, NameFacts
      <3>2. ZipName(k) \in dir /\ data'[ZipName(k)] = data[ZipName(k)] /\ k # wKey
        BY <2>2, <2>3, <3>1
      <3>3. CurName(k) # CurName(wKey)
        BY <2>1, <3>2, NameInjective
      <3>4. QED BY <2>2, <3>1, <3>2, <3>3 DEF FileInv, OpenAsZipped
    <2>6. \A n \in Names : n \notin dir' => data'[n] = {}
      BY <2>1, <2>2 DEF FileInv
    <2>7. QED BY <2>1, <2>2, <2>4, <2>5, <2>6 DEF FileInv, CurName
  <1>3. ASSUME AlignBegin \/ AlignEnd \/ PowerCycle PROVE FileInv'
    BY <1>3, <1>k DEF AlignBegin, AlignEnd, PowerCycle, fileVars
  <1>4. ASSUME NEW n \in Names, DeleteOld(n) PROVE FileInv'
    <2>1. /\ apc' \notin {"zip", "unlink"}
          /\ UNCHANGED <<dir, data>> \/ (dir' = dir \ {n} /\ data' = [data EXCEPT ![n] = {}])
      BY <1>4 DEF DeleteOld, Returned, fileVars
    <2>2. QED BY <1>k, <1>d, <2>1
  <1>5. ASSUME NEW n \in Names, Skip(n) \/ MoveBegin(n) PROVE FileInv'
    BY <1>5, <1>k DEF Skip, MoveBegin, alignVars, fileVars
  <1>6. ASSUME NEW n \in Names, ZipBegin(n) PROVE FileInv'
    <2>1. /\ n \in dir /\ n.sign = "c" /\ zfid' = n.key /\ zbuf' = data[n]
          /\ UNCHANGED <<dir, data>>
      BY <1>6 DEF ZipBegin, ToZip, fileVars
    <2>2. CurName(n.key) = n
      BY <2>1, NameInjective DEF ZipName
    <2>3. QED BY <2>1, <2>2 DEF FileInv, OpenAsZipped, CurName, ZipName
  <1>7. ASSUME ZipWrite PROVE FileInv'
    <2>1. apc = "zip" /\ zfid \in Fids
      BY <1>7 DEF ZipWrite, TypeInv
    <2>2. CASE UNCHANGED fileVars /\ ZipDone
      BY <1>k, <2>2 DEF fileVars, ZipDone
    <2>3. CASE /\ dir' = dir \cup {ZipName(zfid)} /\ data' = [data EXCEPT ![ZipName(zfid)] = zbuf]
               /\ UNCHANGED <<zfid, zbuf>>
      <3>1. \A m \in Names : m # ZipName(zfid) => data'[m] = data[m] /\ (m \in dir' <=> m \in dir)
        BY <1>t, <2>3
      <3>2. /\ ZipName(zfid) \in Names /\ CurName(zfid) \in Names
            /\ \A k \in Fids : CurName(k) # ZipName(zfid) /\ CurName(k) \in Names
        BY <2>1, NameFacts, NameInjective
      <3>3. data'[ZipName(zfid)] = zbuf /\ zbuf = data[CurName(zfid)] /\ CurName(zfid) \in dir
        BY <1>t, <2>1, <2>3, <3>2 DEF FileInv
      <3>4. OpenAsZipped'
        <4> SUFFICES ASSUME NEW k \in Fids, {CurName(k), ZipName(k)} \subseteq dir'
                     PROVE  data'[ZipName(k)] = data'[CurName(k)]
          BY DEF OpenAsZipped, CurName, ZipName
        <4>1. CASE k = zfid
          BY <3>1, <3>2, <3>3, <4>1
        <4>2. CASE k # zfid
          <5>1. ZipName(k) # ZipName(zfid) /\ ZipName(k) \in Names
            BY <2>1, <4>2, NameInjective, NameFacts
          <5>2. QED BY <3>1, <3>2, <5>1 DEF FileInv, OpenAsZipped
        <4>3. QED BY <4>1, <4>2
      <3>5. \A m \in Names : m \notin dir' => data'[m] = {}
        BY <2>3, <3>1 DEF FileInv
      <3>6. QED BY <2>3, <3>1, <3>2, <3>3, <3>4, <3>5 DEF FileInv, CurName
    <2>4. QED BY <1>7, <2>2, <2>3 DEF ZipWrite
  <1>8. ASSUME ZipRemove PROVE FileInv'
    <2>1. /\ apc' \notin {"zip", "unlink"} /\ CurName(zfid) \in Names
          /\ \/ UNCHANGED <<dir, data>>
             \/ dir' = dir \ {CurName(zfid)} /\ data' = [data EXCEPT ![CurName(zfid)] = {}]
      BY <1>t, <1>8, NameFacts DEF ZipRemove, ZipDone, fileVars
    <2>2. QED BY <1>k, <1>d, <2>1
  <1>9. ASSUME MoveEnd PROVE FileInv'
    <2>1. /\ dnName \in Names /\ dnName.sign # "c" /\ UNCHANGED <<apc, zfid, zbuf>>
          /\ \/ UNCHANGED <<dir, data>>
             \/ dir' = dir \ {dnName} /\ data' = [data EXCEPT ![dnName] = {}]
      BY <1>9 DEF MoveEnd, Taken, HorizonInv, TypeInv, alignVars, fileVars
    <2>2. CurName(zfid) # dnName
      BY <2>1 DEF CurName
    <2>3. QED BY <1>k, <1>d, <2>1, <2>2
  <1>10. ASSUME UNCHANGED vars PROVE FileInv'
    BY <1>10, <1>k DEF vars, alignVars, fileVars
  <1>11. QED
    BY <1>1, <1>2, <1>3, <1>4, <1>5, <1>6, <1>7, <1>8, <1>9, <1>10 DEF Next, Watch, Align

LEMMA FileInit == Init => HorizonInv /\ FileInv
  BY DEF Init, HorizonInv, FileInv, OpenAsZipped

(* A window may be left both open and archived by a power cut or a failing  *)
(* removal, but with the same frames: whatever fails, and wherever the      *)
(* power is cut, zip -m never replaces an archive by one that differs.      *)
THEOREM ArchiveReplacedByEqual ==
    ASSUME ForwardOnly
    PROVE  Spec => []OpenAsZipped
  <1>1. Spec => [](TypeInv /\ OrderInv /\ HorizonInv /\ RetiredInv /\ FileInv)
    BY TypeInit, TypeStep, OrderInit, OrderStep, HorizonStep, RetiredInit, RetiredStep,
       FileInit, FileStep, ForwardOnly, PTL DEF Spec
  <1>2. FileInv => OpenAsZipped
    BY DEF FileInv
  <1>3. QED BY <1>1, <1>2, PTL

-----------------------------------------------------------------------------
(* The frame in the slot is in the file of its window, unless there is work *)
(* under way that will put it there.                                        *)
StoredInv ==
    slot # 0 =>
        \/ txpc = "cmd"
        \/ stq > 0
        \/ wpc = "stamp"
        \/ wpc = "write" /\ wKey = Latest.key
        \/ slot \in data[CurName(Latest.key)]

LEMMA StoredStep ==
    ~Faults /\ ForwardOnly /\ TypeInv /\ OrderInv /\ HorizonInv /\ StoredInv /\ [Next]_vars
        => StoredInv'
  <1> SUFFICES ASSUME ~Faults, TypeInv, OrderInv, HorizonInv, StoredInv, [Next]_vars,
                      slot' # 0
               PROVE  StoredInv'
    BY DEF StoredInv
  <1>t. /\ data \in [Names -> SUBSET (1..Len(hdr))] /\ alignFid \in AnyFid /\ curFid \in AnyFid
        /\ zfid \in AnyFid /\ Latest.key \in AnyFid /\ stq \in Nat /\ MaxCmd > 0 /\ stq <= MaxCmd
    BY LatestFid, BoundsAssumption DEF TypeInv, TypeOK, AnyFid
  <1>u. ASSUME UNCHANGED hdr PROVE Latest' = Latest
    BY <1>u DEF Latest, Header
  <1>v. slot # 0 => CurName(Latest.key) \in Names /\ Latest.key \in Fids
    BY LatestFid, NameFacts
  <1>w. apc \in {"scan", "zip", "unlink"} =>
            /\ Earlier(alignFid.t, Latest.key.t)
            /\ apc # "scan" => Latest.key # zfid
    <2> SUFFICES ASSUME apc \in {"scan", "zip", "unlink"}
                 PROVE  Earlier(alignFid.t, Latest.key.t) /\ (apc # "scan" => Latest.key # zfid)
      OBVIOUS
    <2>1. Earlier(alignFid.t, curFid.t) /\ NotAfter(curFid, Latest.key)
      BY DEF OrderInv
    <2>2. Earlier(alignFid.t, Latest.key.t)
      BY <1>t, <2>1, FidOrder
    <2>3. apc # "scan" => ~Earlier(alignFid.t, zfid.t)
      BY DEF OrderInv
    <2>4. QED BY <2>2, <2>3
  <1>k. ASSUME UNCHANGED <<tdcVars, stq, wpc, wKey>>,
               slot \in data[CurName(Latest.key)] => slot \in data'[CurName(Latest.key)]
        PROVE  StoredInv'
    BY <1>k, <1>u DEF StoredInv, tdcVars, CurName
  <1>1. ASSUME NEW h \in Headers, CopyFrame(h) PROVE StoredInv'
    BY <1>1 DEF CopyFrame, StoredInv
  <1>2. ASSUME TaskCmd PROVE StoredInv'
    BY <1>t, <1>2 DEF TaskCmd, StoredInv
  <1>3. ASSUME WatchReceive PROVE StoredInv'
    BY <1>3 DEF WatchReceive, StoredInv
  <1>4. ASSUME ReadStamp PROVE StoredInv'
    <2>1. wKey' = Latest.key
      BY <1>4, LatestFid DEF ReadStamp, TypeInv
    <2>2. QED BY <1>4, <1>u, <2>1 DEF ReadStamp, StoredInv, tdcVars
  <1>5. ASSUME WriteTod PROVE StoredInv'
    <2>1. /\ CurName(wKey) \in Names /\ wpc = "write"
          /\ UNCHANGED <<tdcVars, stq>>
          /\ data' = [data EXCEPT ![CurName(wKey)] = @ \cup {slot}]
      BY <1>5, NameFacts DEF WriteTod, TypeInv
    <2>2. slot = slot' /\ txpc' = txpc /\ Latest' = Latest
      BY <1>u, <2>1 DEF tdcVars
    <2>3. wKey = Latest.key => slot \in data'[CurName(Latest.key)]
      BY <1>t, <2>1
    <2>4. slot \in data[CurName(Latest.key)] => slot \in data'[CurName(Latest.key)]
      BY <1>t, <1>v, <2>1, <2>2
    <2>5. QED BY <2>1, <2>2, <2>3, <2>4 DEF StoredInv, CurName
  <1>6. ASSUME Roll PROVE StoredInv'
    BY <1>6, <1>u DEF Roll, StoredInv, tdcVars, fileVars, CurName
  <1>7. ASSUME AlignBegin \/ AlignEnd PROVE StoredInv'
    BY <1>7, <1>k DEF AlignBegin, AlignEnd, watchVars, fileVars
  <1>8. ASSUME NEW n \in Names, DeleteOld(n) PROVE StoredInv'
    <2>1. /\ apc = "scan" /\ Earlier(n.key.t, old)
          /\ UNCHANGED <<tdcVars, stq, wpc, wKey>>
          /\ data' = [data EXCEPT ![n] = {}]
      BY <1>8 DEF DeleteOld, Returned, Expired, watchVars
    <2>2. n # CurName(Latest.key)
      <3> SUFFICES ASSUME n = CurName(Latest.key) PROVE FALSE
        OBVIOUS
      <3>1. n.key = Latest.key
        BY DEF CurName
      <3>2. Earlier(Latest.key.t, old) /\ Earlier(old, alignFid.t) /\ Earlier(alignFid.t, Latest.key.t)
        BY <1>w, <2>1, <3>1 DEF HorizonInv
      <3>3. old \in Stamp /\ alignFid.t \in Stamp /\ Latest.key.t \in Stamp
        BY <1>t, FidFacts DEF TypeInv, TypeOK, AnyFid
      <3>4. QED BY <3>2, <3>3, EarlierOrder
    <2>3. slot \in data[CurName(Latest.key)] => slot \in data'[CurName(Latest.key)]
      BY <1>t, <2>1, <2>2
    <2>4. QED BY <1>k, <2>1, <2>3
  <1>9. ASSUME NEW n \in Names, Skip(n) \/ ZipBegin(n) \/ MoveBegin(n) PROVE StoredInv'
    BY <1>9, <1>k DEF Skip, ZipBegin, MoveBegin, watchVars, fileVars
  <1>10. ASSUME ZipWrite \/ ZipRemove PROVE StoredInv'
    <2>1. /\ apc \in {"zip", "unlink"} /\ zfid \in Fids
          /\ UNCHANGED <<tdcVars, stq, wpc, wKey>>
          /\ \/ data' = [data EXCEPT ![ZipName(zfid)] = zbuf]
             \/ data' = [data EXCEPT ![CurName(zfid)] = {}]
      BY <1>10 DEF ZipWrite, ZipRemove, watchVars, TypeInv
    <2>2. slot = slot'
      BY <2>1 DEF tdcVars
    <2>3. CurName(Latest.key) # CurName(zfid) /\ CurName(Latest.key) # ZipName(zfid)
      BY <1>v, <1>w, <2>1, <2>2, NameInjective
    <2>4. slot \in data[CurName(Latest.key)] => slot \in data'[CurName(Latest.key)]
      BY <1>t, <1>v, <2>1, <2>2, <2>3
    <2>5. QED BY <1>k, <2>1, <2>4
  <1>11. ASSUME MoveEnd PROVE StoredInv'
    <2>1. /\ dnName.sign # "c"
          /\ UNCHANGED <<tdcVars, stq, wpc, wKey>>
          /\ data' = [data EXCEPT ![dnName] = {}]
      BY <1>11 DEF MoveEnd, Taken, watchVars, HorizonInv
    <2>2. CurName(Latest.key) # dnName
      BY <2>1 DEF CurName
    <2>3. slot \in data[CurName(Latest.key)] => slot \in data'[CurName(Latest.key)]
      BY <1>t, <2>1, <2>2
    <2>4. QED BY <1>k, <2>1, <2>3
  <1>12. ASSUME PowerCycle PROVE StoredInv'
    BY <1>12 DEF PowerCycle
  <1>13. ASSUME UNCHANGED vars PROVE StoredInv'
    BY <1>13, <1>k DEF vars, watchVars, fileVars
  <1>14. QED
    BY <1>1, <1>2, <1>3, <1>4, <1>5, <1>6, <1>7, <1>8, <1>9, <1>10, <1>11,
       <1>12, <1>13 DEF Next, Watch, Align

(* Commands may be dropped and the slot overwritten, but once sm has caught *)
(* up the latest frame is in the file of its window; no bound on how far sm *)
(* lags is needed, only working file operations and stamps going forward.   *)
THEOREM LatestSafe ==
    ASSUME ForwardOnly, ~Faults
    PROVE  Spec => []LatestStored
  <1>1. Init => HorizonInv /\ StoredInv
    BY DEF Init, HorizonInv, StoredInv
  <1>2. Spec => [](TypeInv /\ OrderInv /\ HorizonInv /\ StoredInv)
    BY TypeInit, TypeStep, OrderInit, OrderStep, HorizonStep, StoredStep, <1>1,
       ForwardOnly, ~Faults, PTL DEF Spec
  <1>3. StoredInv => LatestStored
    BY DEF StoredInv, LatestStored
  <1>4. QED BY <1>2, <1>3, PTL

-----------------------------------------------------------------------------
(* The seconds a BYTE can hold, all within the minute. *)
SecondsFit == Minute <= 256 /\ \A h \in Headers : h.sec < Minute

(* The BYTE difference of two seconds is their distance on the dial. *)
LEMMA ModUnique ==
    ASSUME NEW a \in Int, NEW m \in Nat, NEW r \in Nat, NEW q \in Int, r < m, a = m * q + r
    PROVE  a % m = r
  OBVIOUS

LEMMA GapIsDistance ==
    ASSUME NEW m \in Nat, m <= 256, NEW p \in 0..(m - 1), NEW s \in 0..(m - 1)
    PROVE  SecGap(p, s, m) = (s - p) % m /\ SecGap(p, s, m) \in 0..(m - 1)
  <1>1. CASE p > s
    <2>1. SecGap(p, s, m) = ((s + m) - p) % 256
      BY <1>1 DEF SecGap
    <2>2. (s + m) - p \in 0..(m - 1) /\ (s + m) - p \in Nat
      BY <1>1
    <2>3. SecGap(p, s, m) = (s + m) - p
      BY <2>1, <2>2
    <2>4. s - p = m * (-1) + ((s + m) - p)
      OBVIOUS
    <2>5. (s - p) % m = (s + m) - p
      BY <2>2, <2>4, ModUnique
    <2>6. QED BY <2>2, <2>3, <2>5
  <1>2. CASE ~(p > s)
    <2>1. SecGap(p, s, m) = (s - p) % 256
      BY <1>2 DEF SecGap
    <2>2. s - p \in 0..(m - 1) /\ s - p \in Nat
      BY <1>2
    <2>3. SecGap(p, s, m) = s - p
      BY <2>1, <2>2
    <2>4. s - p = m * 0 + (s - p)
      OBVIOUS
    <2>5. (s - p) % m = s - p
      BY <2>2, <2>4, ModUnique
    <2>6. QED BY <2>2, <2>3, <2>5
  <1>3. QED BY <1>1, <1>2

-----------------------------------------------------------------------------
(* The steps of interest up to frame n. *)
StepsTo(n, S) == {i \in 2..n : (hdr[i].sec - hdr[i - 1].sec) % Minute \in S}
Same(n) == Cardinality(StepsTo(n, {0}))
Missed(n) == Cardinality(StepsTo(n, 2..(Minute - 1)))

(* Between two power-ups sm that keeps up is at one frame at a time: its    *)
(* command is to be sent, is queued, or is being worked on.                 *)
Busy == txpc = "cmd" \/ stq > 0 \/ wpc # "recv"
Done == IF Busy THEN Len(hdr) - 1 ELSE Len(hdr)

CountInv ==
    /\ power = 0 /\ slot = Len(hdr)
    /\ Busy => hdr # <<>>
    /\ txpc = "cmd" => stq = 0 /\ wpc = "recv"
    /\ stq > 0 => stq = 1 /\ wpc = "recv"
    /\ wpc # "recv" => wSec = Latest.sec
    /\ wpc \in {"write", "roll"} => wKey = Latest.key
    /\ curFid = Header(Done).key /\ prevSec = Header(Done).sec
    /\ err = [same |-> Upto(Same(Done)), miss |-> Upto(Missed(Done))]

(* A step forward in the frames counts at most once. *)
LEMMA StepsGrow ==
    ASSUME NEW n \in Nat, n > 0, NEW S
    PROVE  /\ IsFiniteSet(StepsTo(n, S)) /\ Cardinality(StepsTo(n, S)) \in Nat
           /\ Cardinality(StepsTo(n + 1, S)) = Cardinality(StepsTo(n, S))
                + (IF (hdr[n + 1].sec - hdr[n].sec) % Minute \in S THEN 1 ELSE 0)
  <1>1. IsFiniteSet(StepsTo(n, S))
    <2>1. IsFiniteSet(2..n)
      BY FS_Interval
    <2>2. StepsTo(n, S) \subseteq 2..n
      BY DEF StepsTo
    <2>3. QED BY <2>1, <2>2, FS_Subset
  <1>2. Cardinality(StepsTo(n, S)) \in Nat
    BY <1>1, FS_CardinalityType
  <1>3. n + 1 \notin StepsTo(n, S)
    BY DEF StepsTo
  <1>4. 2..(n + 1) = 2..n \cup {n + 1} /\ (n + 1) - 1 = n
    OBVIOUS
  <1>5. CASE (hdr[n + 1].sec - hdr[n].sec) % Minute \in S
    <2>1. StepsTo(n + 1, S) = StepsTo(n, S) \cup {n + 1}
      BY <1>4, <1>5 DEF StepsTo
    <2>2. Cardinality(StepsTo(n, S) \cup {n + 1}) = Cardinality(StepsTo(n, S)) + 1
      BY <1>1, <1>3, FS_AddElement
    <2>3. QED BY <1>1, <1>2, <1>5, <2>1, <2>2
  <1>6. CASE (hdr[n + 1].sec - hdr[n].sec) % Minute \notin S
    <2>1. StepsTo(n + 1, S) = StepsTo(n, S)
      BY <1>4, <1>6 DEF StepsTo
    <2>2. QED BY <1>1, <1>2, <1>6, <2>1
  <1>7. QED BY <1>5, <1>6

LEMMA NoSteps == \A n \in {0, 1} : Same(n) = 0 /\ Missed(n) = 0
  <1>1. \A n \in {0, 1} : 2..n = {}
    OBVIOUS
  <1>2. \A n \in {0, 1} : \A S : StepsTo(n, S) = {}
    BY <1>1 DEF StepsTo
  <1>3. QED BY <1>2, FS_EmptySet DEF Same, Missed

LEMMA UptoNext ==
    ASSUME NEW n \in Nat
    PROVE  IncWord(Upto(n)) = Upto(n + 1)
  BY BoundsAssumption DEF IncWord, Upto

(* Roll counts the step to the frame it is done with. *)
LEMMA RollCounts ==
    ASSUME SecondsFit, TypeInv, CountInv, Roll
    PROVE  err' = [same |-> Upto(Same(Len(hdr))), miss |-> Upto(Missed(Len(hdr)))]
  <1>1. /\ hdr \in Seq(Headers) /\ Len(hdr) \in Nat /\ Len(hdr) > 0 /\ Done = Len(hdr) - 1
        /\ wSec = hdr[Len(hdr)].sec
        /\ err = [same |-> Upto(Same(Done)), miss |-> Upto(Missed(Done))]
        /\ curFid = Header(Done).key /\ prevSec = Header(Done).sec
    <2>1. hdr \in Seq(Headers) /\ hdr # <<>> /\ wpc = "roll" /\ Busy
      BY DEF TypeInv, TypeOK, Roll, CountInv, Busy
    <2>2. Len(hdr) \in Nat /\ Len(hdr) > 0
      BY <2>1
    <2>3. QED BY <2>1, <2>2 DEF CountInv, Done, Latest, Header
  <1>2. CASE Done = 0
    <2>1. err' = err
      BY <1>1, <1>2 DEF Roll, Header, ZeroHeader
    <2>2. Len(hdr) = 1
      BY <1>1, <1>2
    <2>3. QED BY <1>1, <1>2, <2>1, <2>2, NoSteps
  <1>3. CASE Done # 0
    <2> DEFINE n == Done
               gap == (hdr[n + 1].sec - hdr[n].sec) % Minute
    <2>1. n \in Nat /\ n > 0 /\ Len(hdr) = n + 1 /\ n \in 1..Len(hdr)
      BY <1>1, <1>3
    <2>2. /\ hdr[n] \in Headers /\ hdr[n + 1] \in Headers
          /\ Header(n) = hdr[n]
      BY <1>1, <2>1 DEF Header
    <2>3. curFid \in Fids /\ curFid # ZeroFid
      BY <1>1, <2>2, HeaderFacts, ZeroIsNoFile
    <2>4. SecGap(prevSec, wSec, Minute) = gap /\ gap \in 0..(Minute - 1)
      <3>1. /\ Minute \in Nat /\ Minute <= 256
            /\ hdr[n].sec \in 0..(Minute - 1) /\ hdr[n + 1].sec \in 0..(Minute - 1)
        BY <2>2, HeaderFacts, BoundsAssumption DEF SecondsFit
      <3>2. prevSec = hdr[n].sec /\ wSec = hdr[n + 1].sec
        BY <1>1, <2>1, <2>2
      <3>3. QED BY <3>1, <3>2, GapIsDistance
    <2>5. /\ gap = 0 <=> gap \in {0}
          /\ gap > 1 <=> gap \in 2..(Minute - 1)
      BY <2>4, BoundsAssumption
    <2>6. err' = [same |-> IF gap = 0 THEN IncWord(err.same) ELSE err.same,
                  miss |-> IF gap > 1 THEN IncWord(err.miss) ELSE err.miss]
      BY <2>3, <2>4 DEF Roll
    <2>7. /\ Same(n) \in Nat /\ Same(n + 1) = Same(n) + (IF gap \in {0} THEN 1 ELSE 0)
          /\ Missed(n) \in Nat
          /\ Missed(n + 1) = Missed(n) + (IF gap \in 2..(Minute - 1) THEN 1 ELSE 0)
      BY <2>1, StepsGrow DEF Same, Missed
    <2>8. err.same = Upto(Same(n)) /\ err.miss = Upto(Missed(n))
      BY <1>1
    <2> HIDE DEF gap, n
    <2>9. (IF gap = 0 THEN IncWord(err.same) ELSE err.same) = Upto(Same(n + 1))
      BY <2>5, <2>7, <2>8, UptoNext
    <2>10. (IF gap > 1 THEN IncWord(err.miss) ELSE err.miss) = Upto(Missed(n + 1))
      BY <2>5, <2>7, <2>8, UptoNext
    <2>11. QED BY <2>1, <2>6, <2>9, <2>10
  <1>4. QED BY <1>2, <1>3

(* Nothing else touches the frames counted. *)
LEMMA CountKept ==
    ASSUME TypeInv, CountInv, UNCHANGED <<hdr, slot, watchVars, power>>,
           Busy' = Busy, txpc' = "cmd" => stq' = 0 /\ wpc' = "recv",
           stq' > 0 => stq' = 1 /\ wpc' = "recv"
    PROVE  CountInv'
  BY DEF CountInv, Done, Same, Missed, StepsTo, Header, Latest, watchVars

LEMMA CountStep ==
    Paced /\ SecondsFit /\ TypeInv /\ CountInv /\ [Next]_vars /\ power' = 0 => CountInv'
  <1> SUFFICES ASSUME Paced, SecondsFit, TypeInv, CountInv, [Next]_vars, power' = 0
               PROVE  CountInv'
    OBVIOUS
  <1>t. /\ hdr \in Seq(Headers) /\ Len(hdr) \in Nat /\ stq \in Nat
        /\ txpc \in {"idle", "cmd"} /\ wpc \in {"recv", "stamp", "write", "roll"}
    BY BoundsAssumption DEF TypeInv, TypeOK
  <1>1. ASSUME NEW h \in Headers, CopyFrame(h) PROVE CountInv'
    <2>1. /\ hdr' = Append(hdr, h) /\ slot' = Len(hdr) + 1 /\ txpc' = "cmd"
          /\ txpc = "idle" /\ stq = 0 /\ wpc = "recv" /\ UNCHANGED <<stq, watchVars, power>>
      BY <1>1 DEF CopyFrame
    <2>2. Len(hdr') = Len(hdr) + 1 /\ \A i \in 1..Len(hdr) : hdr'[i] = hdr[i]
      BY <1>t, <2>1
    <2>3. Done = Len(hdr) /\ Done' = Len(hdr) /\ Busy'
      BY <1>t, <2>1, <2>2 DEF Done, Busy, watchVars
    <2>4. \A S : {i \in 2..Len(hdr) : (hdr'[i].sec - hdr'[i - 1].sec) % Minute \in S}
                  = StepsTo(Len(hdr), S)
      BY <1>t, <2>2 DEF StepsTo
    <2>5. Same(Done)' = Same(Done) /\ Missed(Done)' = Missed(Done)
      BY <2>3, <2>4 DEF Same, Missed, StepsTo
    <2>6. Header(Done)' = Header(Done)
      BY <1>t, <2>2, <2>3 DEF Header
    <2>7. QED
      BY <1>t, <2>1, <2>2, <2>5, <2>6 DEF CountInv, watchVars
  <1>2. ASSUME TaskCmd PROVE CountInv'
    <2>1. txpc = "cmd" /\ txpc' = "idle" /\ stq = 0 /\ stq' = 1 /\ wpc = "recv"
      BY <1>2, BoundsAssumption DEF TaskCmd, CountInv
    <2>2. UNCHANGED <<hdr, slot, watchVars, power>> /\ wpc' = wpc
      BY <1>2 DEF TaskCmd, watchVars
    <2>3. Busy /\ Busy'
      BY <2>1, <2>2 DEF Busy
    <2>4. QED BY <2>1, <2>2, <2>3, CountKept
  <1>3. ASSUME WatchReceive \/ ReadStamp \/ WriteTod PROVE CountInv'
    <2>1. /\ UNCHANGED <<hdr, slot, txpc, curFid, prevSec, err, power>>
          /\ wpc' \in {"stamp", "write", "roll"} /\ stq' = 0 /\ txpc = "idle"
          /\ Busy
      BY <1>3, <1>t DEF WatchReceive, ReadStamp, WriteTod, CountInv, tdcVars, Busy
    <2>2. Busy' /\ Done' = Done /\ slot = Len(hdr) /\ Latest' = Latest /\ Header(slot) = Latest
      BY <2>1 DEF Busy, Done, CountInv, Latest, Header
    <2>3. wSec' = Latest.sec /\ (wpc' \in {"write", "roll"} => wKey' = Latest.key)
      BY <1>3, <2>2 DEF WatchReceive, ReadStamp, WriteTod, CountInv
    <2>4. /\ Header(Done)' = Header(Done) /\ Same(Done)' = Same(Done) /\ Missed(Done)' = Missed(Done)
      BY <2>1, <2>2 DEF Header, Same, Missed, StepsTo
    <2>5. QED BY <2>1, <2>2, <2>3, <2>4 DEF CountInv
  <1>4. ASSUME Roll PROVE CountInv'
    <2>1. /\ UNCHANGED <<hdr, slot, txpc, stq, power>> /\ wpc = "roll" /\ wpc' = "recv"
          /\ prevSec' = wSec /\ curFid' = wKey
      BY <1>4 DEF Roll, tdcVars
    <2>2. txpc = "idle" /\ stq = 0 /\ ~Busy' /\ Done' = Len(hdr)
      BY <1>t, <2>1 DEF CountInv, Busy, Done
    <2>3. err' = [same |-> Upto(Same(Len(hdr))), miss |-> Upto(Missed(Len(hdr)))]
      BY <1>4, RollCounts
    <2>4. wSec = Latest.sec /\ wKey = Latest.key
      BY <2>1 DEF CountInv
    <2>5. Header(Done)' = Latest /\ Same(Done)' = Same(Len(hdr)) /\ Missed(Done)' = Missed(Len(hdr))
      BY <2>1, <2>2 DEF Header, Latest, Same, Missed, StepsTo
    <2>6. power = 0 /\ slot = Len(hdr)
      BY DEF CountInv
    <2>7. QED BY <2>1, <2>2, <2>3, <2>4, <2>5, <2>6 DEF CountInv
  <1>5. ASSUME UNCHANGED <<tdcVars, stq, watchVars, power>> PROVE CountInv'
    <2>1. UNCHANGED <<hdr, slot, txpc, stq, wpc>>
      BY <1>5 DEF tdcVars, watchVars
    <2>2. Busy' = Busy
      BY <2>1 DEF Busy
    <2>3. QED BY <1>5, <2>1, <2>2, CountKept DEF CountInv
  <1>6. Align => UNCHANGED <<tdcVars, stq, watchVars, power>>
    BY DEF Align, AlignBegin, DeleteOld, Skip, ZipBegin, ZipWrite, ZipRemove, ZipDone, AlignEnd
  <1>7. (\E n \in Names : MoveBegin(n)) \/ MoveEnd \/ UNCHANGED vars
            => UNCHANGED <<tdcVars, stq, watchVars, power>>
    BY DEF MoveBegin, MoveEnd, vars
  <1>8. ~PowerCycle
    BY DEF PowerCycle, CountInv
  <1>9. QED
    BY <1>1, <1>2, <1>3, <1>4, <1>5, <1>6, <1>7, <1>8 DEF Next, Watch

(* No step takes a power cut back. *)
LEMMA PowerStays == TypeInv /\ [Next]_vars /\ power' = 0 => power = 0
  <1>1. TypeInv => power \in 0..MaxPower
    BY DEF TypeInv, TypeOK
  <1>2. PowerCycle => power' = power + 1
    BY DEF PowerCycle
  <1>3. [Next]_vars /\ ~PowerCycle => power' = power
    BY DEF Next, Watch, CopyFrame, TaskCmd, WatchReceive, ReadStamp, WriteTod, Roll,
           Align, AlignBegin, DeleteOld, Skip, ZipBegin, ZipWrite, ZipRemove, ZipDone, AlignEnd, MoveBegin, MoveEnd, vars
  <1>4. QED BY <1>1, <1>2, <1>3

(* Until the power fails: when sm keeps up with the frames, whatever their  *)
(* stamps and whatever file operation fails, the BYTE arithmetic counts     *)
(* each repeated second and each hole once, and the counters stop at their  *)
(* limit.                                                                   *)
THEOREM CountersCorrect ==
    ASSUME Paced, SecondsFit
    PROVE  Spec => []CountersExact
  <1>1. Init => CountInv
    <2>1. ASSUME Init PROVE CountInv
      <3>1. ~Busy /\ Len(hdr) = 0 /\ Done = 0
        BY <2>1 DEF Init, Busy, Done
      <3>2. Upto(0) = 0
        BY BoundsAssumption DEF Upto
      <3>3. QED
        BY <2>1, <3>1, <3>2, NoSteps DEF Init, CountInv, Header, ZeroHeader, Busy
    <2>2. QED BY <2>1
  <1>s. TypeInv /\ (power = 0 => CountInv) /\ [Next]_vars => (power = 0 => CountInv)'
    BY PowerStays, CountStep, Paced, SecondsFit
  <1>2. Spec => [](TypeInv /\ (power = 0 => CountInv))
    BY <1>1, <1>s, TypeInit, TypeStep, PTL DEF Spec
  <1>3. TypeInv /\ (power = 0 => CountInv) => CountersExact
    <2> SUFFICES ASSUME TypeInv, power = 0, CountInv, stq = 0, wpc = "recv", txpc = "idle"
                 PROVE  /\ err.same = Upto(Cardinality(Steps({0})))
                        /\ err.miss = Upto(Cardinality(Steps(2..(Minute - 1))))
      BY DEF CountersExact
    <2>1. Done = Len(hdr)
      BY DEF Done, Busy
    <2>2. err.same = Upto(Same(Done)) /\ err.miss = Upto(Missed(Done))
      BY DEF CountInv
    <2>3. QED BY <2>1, <2>2 DEF Same, Missed, StepsTo, Steps
  <1>4. QED BY <1>2, <1>3, PTL
====
