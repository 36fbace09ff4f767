-------------------------- MODULE TodArchiveProofs --------------------------
(***************************************************************************)
(* TodStore implements TodArchive: with stamps going forward and working    *)
(* file operations, every step of the threads is an acceptance, a recording *)
(* or an expiry of the archive, or leaves it alone.                         *)
(***************************************************************************)
EXTENDS TodStoreProofs

(* The month before a stamp of year 0 is in the year -1. *)
Moment == [year : Int, mon : Nat, win : Nat]

LEMMA MomentOrder ==
    /\ \A a, b, c \in Moment : Earlier(a, b) /\ Earlier(b, c) => Earlier(a, c)
    /\ \A a, b, c \in Moment : ~Earlier(b, a) /\ Earlier(b, c) => Earlier(a, c)
    /\ \A a \in Moment : ~Earlier(a, a)
  <1>1. \A a \in Moment : a.year \in Int /\ a.mon \in Nat /\ a.win \in Nat
    BY DEF Moment
  <1>2. QED BY <1>1 DEF Earlier

LEMMA StampIsMoment ==
    /\ Stamp \subseteq Moment
    /\ \A t \in Stamp : MonthBack(t) \in Moment
  <1>1. \A t \in Stamp : t.year \in Nat /\ t.mon \in Nat /\ t.win \in Nat
    BY DEF Stamp
  <1>2. Stamp \subseteq Moment
    BY DEF Stamp, Moment
  <1>3. ASSUME NEW t \in Stamp PROVE MonthBack(t) \in Moment
    <2>1. CASE t.mon > 1
      <3>1. t.mon - 1 \in Nat /\ t.year \in Int
        BY <1>1, <2>1
      <3>2. [t EXCEPT !.mon = @ - 1] \in Moment
        BY <1>1, <3>1 DEF Stamp, Moment
      <3>3. QED BY <2>1, <3>2 DEF MonthBack
    <2>2. CASE ~(t.mon > 1)
      <3>1. t.year - 1 \in Int
        BY <1>1
      <3>2. [t EXCEPT !.mon = 12, !.year = @ - 1] \in Moment
        BY <1>1, <3>1 DEF Stamp, Moment
      <3>3. QED BY <2>2, <3>2 DEF MonthBack
    <2>3. QED BY <2>1, <2>2
  <1>4. QED BY <1>2, <1>3

LEMMA MonthBackMonotone ==
    ASSUME NEW s \in Stamp, NEW t \in Stamp, s.mon \in 1..12, t.mon \in 1..12, Earlier(s, t)
    PROVE  Earlier(MonthBack(s), MonthBack(t))
  <1>1. \A u \in Stamp : u.year \in Nat /\ u.mon \in Nat /\ u.win \in Nat
    BY DEF Stamp
  <1>2. \A u \in Stamp : u.mon > 1 =>
           /\ MonthBack(u).year = u.year /\ MonthBack(u).mon = u.mon - 1 /\ MonthBack(u).win = u.win
    BY DEF MonthBack, Stamp
  <1>3. \A u \in Stamp : ~(u.mon > 1) =>
           /\ MonthBack(u).year = u.year - 1 /\ MonthBack(u).mon = 12 /\ MonthBack(u).win = u.win
    <2> SUFFICES ASSUME NEW u \in Stamp, ~(u.mon > 1)
                 PROVE  /\ MonthBack(u).year = u.year - 1 /\ MonthBack(u).mon = 12
                        /\ MonthBack(u).win = u.win
      OBVIOUS
    <2>1. MonthBack(u) = [u EXCEPT !.mon = 12, !.year = @ - 1]
      BY DEF MonthBack
    <2>2. QED BY <2>1 DEF Stamp
  <1>4. QED BY <1>1, <1>2, <1>3 DEF Earlier

LEMMA FidMonth == \A k \in Fids : k.t \in Stamp /\ k.t.mon \in 1..12
  BY HeaderFacts DEF Fids

(* FileAlign's word comparison with the horizon is the age on the calendar. *)
LEMMA HorizonIsMonth ==
    ASSUME NEW s \in Stamp, NEW t \in Stamp, s.mon \in 1..12,
           t.mon \in 1..12 \/ t = ZeroStamp
    PROVE  Earlier(s, MonthBack(t)) <=> OverAMonth(s, t)
  <1>1. /\ s.year \in Nat /\ s.win \in Nat /\ s.mon \in Nat /\ s.mon >= 1 /\ s.mon <= 12
        /\ t.year \in Nat /\ t.win \in Nat /\ t.mon \in Nat
    BY DEF Stamp
  <1>2. CASE t.mon > 1
    <2>1. MonthBack(t) = [t EXCEPT !.mon = @ - 1]
      BY <1>2 DEF MonthBack
    <2>2. MonthBack(t).year = t.year /\ MonthBack(t).mon = t.mon - 1 /\ MonthBack(t).win = t.win
      BY <2>1 DEF Stamp
    <2>3. t.mon <= 12
      BY <1>2 DEF ZeroStamp
    <2>4. QED BY <1>1, <1>2, <2>2, <2>3 DEF Earlier, OverAMonth
  <1>3. CASE ~(t.mon > 1)
    <2>1. MonthBack(t) = [t EXCEPT !.mon = 12, !.year = @ - 1]
      BY <1>3 DEF MonthBack
    <2>2. MonthBack(t).year = t.year - 1 /\ MonthBack(t).mon = 12 /\ MonthBack(t).win = t.win
      BY <2>1 DEF Stamp
    <2>3. CASE t = ZeroStamp
      <3>1. t.year = 0 /\ t.mon = 0
        BY <2>3 DEF ZeroStamp
      <3>2. ~Earlier(s, MonthBack(t)) /\ ~OverAMonth(s, t)
        BY <1>1, <2>2, <3>1 DEF Earlier, OverAMonth
      <3>3. QED BY <3>2
    <2>4. CASE t.mon \in 1..12
      <3>1. t.mon = 1
        BY <1>1, <1>3, <2>4
      <3>2. QED BY <1>1, <2>2, <3>1 DEF Earlier, OverAMonth
    <2>5. QED BY <2>3, <2>4
  <1>4. QED BY <1>2, <1>3

(* Identity k is over a month behind the latest frame, as FileAlign counts. *)
Gone(k) == Earlier(k.t, MonthBack(Latest.key.t))

LEMMA GoneIsOverAMonth ==
    ASSUME TypeInv, NEW k \in Fids
    PROVE  Gone(k) <=> OverAMonth(k.t, Latest.key.t)
  <1>1. Latest.key \in Fids \/ Latest.key = ZeroFid
    BY LatestFid DEF AnyFid
  <1>2. /\ Latest.key.t \in Stamp
        /\ Latest.key.t.mon \in 1..12 \/ Latest.key.t = ZeroStamp
    BY <1>1, FidMonth, FidFacts DEF ZeroFid
  <1>3. QED BY <1>2, FidMonth, HorizonIsMonth DEF Gone

-----------------------------------------------------------------------------
(* The horizon of a scan is not behind the archive's own. *)
HorizonOld ==
    apc \in {"scan", "zip", "unlink"} => ~Earlier(MonthBack(Latest.key.t), old)

(* Frames on the stick, in dn's copy and in zip's, unless over a month old: *)
(* the stick has nothing that its file in the archive lacks, dn copies the  *)
(* file as it is, and zip removes what is zipped, or moved on already.      *)
BufferInv ==
    /\ \A k \in Fids : usb[CurName(k)] = {}
    /\ \A n \in dir : usb[n] \subseteq data[n] \/ Gone(n.key)
    /\ \A k \in Fids : CurName(k) \in dir => usb[ZipName(k)] \subseteq data[CurName(k)] \/ Gone(k)
    /\ dnpc = "idle" => dnName = NoName
    /\ dnpc = "copy" =>
         \/ dnName \in dir /\ dnBuf = data[dnName] /\ usb[dnName] \subseteq dnBuf
         \/ Gone(dnName.key)
    /\ apc = "unlink" =>
         zbuf \subseteq data[ZipName(zfid)] \cup usb[ZipName(zfid)] \/ Gone(zfid)

(* The archive's horizon only moves forward. *)
LEMMA HorizonMoves ==
    ASSUME ForwardOnly, TypeInv, [Next]_vars, hdr # <<>>,
           NEW x \in Moment, Earlier(x, MonthBack(Latest.key.t))
    PROVE  Earlier(x, MonthBack(Latest'.key.t))
  <1>1. Latest.key \in Fids
    BY LatestFid DEF TypeInv, TypeOK, Latest, Header
  <1>2. ASSUME NEW h \in Headers, CopyFrame(h)
        PROVE  Earlier(x, MonthBack(Latest'.key.t))
    <2>1. NotAfter(Latest.key, Latest'.key) /\ Latest'.key \in Fids
      BY <1>2, LatestMoves
    <2>2. CASE Latest'.key = Latest.key
      BY <2>2
    <2>3. CASE Earlier(Latest.key.t, Latest'.key.t)
      <3>1. Earlier(MonthBack(Latest.key.t), MonthBack(Latest'.key.t))
        BY <1>1, <2>1, <2>3, FidMonth, MonthBackMonotone
      <3>2. QED BY <1>1, <2>1, <3>1, FidMonth, StampIsMoment, MomentOrder
    <2>4. QED BY <2>1, <2>2, <2>3 DEF NotAfter
  <1>3. ASSUME UNCHANGED hdr PROVE Latest' = Latest
    BY <1>3 DEF Latest, Header
  <1>4. ASSUME ~(\E h \in Headers : CopyFrame(h)) PROVE UNCHANGED hdr
    <2>1. TaskCmd \/ Watch => UNCHANGED hdr
      BY DEF TaskCmd, Watch, WatchReceive, ReadStamp, WriteTod, Roll, tdcVars
    <2>2. Align => UNCHANGED hdr
      BY DEF Align, AlignBegin, DeleteOld, Skip, ZipBegin, ZipWrite, ZipRemove, AlignEnd, tdcVars
    <2>3. (\E n \in Names : MoveBegin(n)) \/ MoveEnd \/ PowerCycle => UNCHANGED hdr
      BY DEF MoveBegin, MoveEnd, PowerCycle, tdcVars
    <2>4. UNCHANGED vars => UNCHANGED hdr
      BY DEF vars, tdcVars
    <2>5. QED BY <1>4, <2>1, <2>2, <2>3, <2>4 DEF Next
  <1>5. QED BY <1>2, <1>3, <1>4

LEMMA HorizonOldStep ==
    ForwardOnly /\ TypeInv /\ OrderInv /\ HorizonOld /\ [Next]_vars => HorizonOld'
  <1> SUFFICES ASSUME ForwardOnly, TypeInv, OrderInv, HorizonOld, [Next]_vars,
                      apc' \in {"scan", "zip", "unlink"}
               PROVE  ~Earlier(MonthBack(Latest'.key.t), old')
    BY DEF HorizonOld
  <1>t. /\ old \in Stamp /\ Latest.key \in AnyFid /\ Latest.key.t \in Stamp
        /\ alignFid \in AnyFid /\ curFid \in AnyFid
    BY LatestFid, FidFacts DEF TypeInv, TypeOK, AnyFid
  <1>1. ASSUME AlignBegin PROVE ~Earlier(MonthBack(Latest'.key.t), old')
    <2>1. sem > 0 /\ old' = MonthBack(alignFid.t) /\ UNCHANGED hdr
      BY <1>1 DEF AlignBegin, tdcVars
    <2>2. alignFid # ZeroFid /\ curFid # ZeroFid /\ slot # 0 /\ Earlier(alignFid.t, curFid.t)
      BY <2>1 DEF OrderInv, TypeInv, TypeOK
    <2>3. Earlier(alignFid.t, Latest.key.t)
      BY <1>t, <2>2, FidOrder DEF OrderInv
    <2>4. alignFid \in Fids /\ Latest.key \in Fids
      BY <1>t, <2>2, LatestFid DEF AnyFid
    <2>5. Earlier(MonthBack(alignFid.t), MonthBack(Latest.key.t))
      BY <2>3, <2>4, FidMonth, MonthBackMonotone
    <2>6. Latest' = Latest
      BY <2>1 DEF Latest, Header
    <2>7. QED BY <2>1, <2>4, <2>5, <2>6, FidMonth, StampIsMoment, MomentOrder
  <1>2. ASSUME NEW h \in Headers, CopyFrame(h) PROVE ~Earlier(MonthBack(Latest'.key.t), old')
    <2>1. old' = old /\ apc' = apc
      BY <1>2 DEF CopyFrame, alignVars
    <2>2. slot # 0
      BY <2>1 DEF OrderInv
    <2>3. hdr # <<>> /\ Latest.key \in Fids
      BY <2>2, LatestFid DEF TypeInv, TypeOK
    <2>4. NotAfter(Latest.key, Latest'.key) /\ Latest'.key \in Fids
      BY <1>2, <2>3, LatestMoves
    <2>5. ~Earlier(MonthBack(Latest.key.t), old)
      BY <2>1 DEF HorizonOld
    <2>6. CASE Latest'.key = Latest.key
      BY <2>1, <2>5, <2>6
    <2>7. CASE Earlier(Latest.key.t, Latest'.key.t)
      <3>1. Earlier(MonthBack(Latest.key.t), MonthBack(Latest'.key.t))
        BY <2>3, <2>4, <2>7, FidMonth, MonthBackMonotone
      <3>2. QED BY <1>t, <2>1, <2>3, <2>4, <2>5, <3>1, FidMonth, StampIsMoment, MomentOrder
    <2>8. QED BY <2>4, <2>6, <2>7 DEF NotAfter
  <1>3. ASSUME UNCHANGED <<hdr, old>>, apc \in {"scan", "zip", "unlink"}
        PROVE  ~Earlier(MonthBack(Latest'.key.t), old')
    BY <1>3 DEF HorizonOld, Latest, Header
  <1>4. AlignEnd \/ PowerCycle => apc' \notin {"scan", "zip", "unlink"}
    BY DEF AlignEnd, PowerCycle
  <1>5. TaskCmd \/ Watch => UNCHANGED <<hdr, old, apc>>
    BY DEF TaskCmd, Watch, WatchReceive, ReadStamp, WriteTod, Roll, tdcVars, alignVars
  <1>6. ASSUME NEW n \in Names, DeleteOld(n) \/ Skip(n) \/ ZipBegin(n)
        PROVE  UNCHANGED <<hdr, old>> /\ apc \in {"scan", "zip", "unlink"}
    BY <1>6 DEF DeleteOld, Skip, ZipBegin, Returned, tdcVars
  <1>7. ZipWrite \/ ZipRemove => UNCHANGED <<hdr, old>> /\ apc \in {"scan", "zip", "unlink"}
    BY DEF ZipWrite, ZipRemove, tdcVars
  <1>8. (\E n \in Names : MoveBegin(n)) \/ MoveEnd => UNCHANGED <<hdr, old, apc>>
    BY DEF MoveBegin, MoveEnd, tdcVars, alignVars
  <1>9. UNCHANGED vars => UNCHANGED <<hdr, old, apc>>
    BY DEF vars, tdcVars, alignVars
  <1>10. QED
    BY <1>1, <1>2, <1>3, <1>4, <1>5, <1>6, <1>7, <1>8, <1>9 DEF Next, Align

LEMMA GoneStays ==
    ASSUME ForwardOnly, TypeInv, [Next]_vars, NEW k \in Fids, Gone(k)
    PROVE  Gone(k)'
  <1>1. hdr # <<>>
    <2> SUFFICES ASSUME hdr = <<>> PROVE FALSE
      OBVIOUS
    <2>1. Latest.key.t = ZeroStamp
      BY DEF Latest, Header, ZeroHeader, ZeroFid
    <2>2. OverAMonth(k.t, ZeroStamp)
      BY <2>1, GoneIsOverAMonth
    <2>3. k.t.year \in Nat /\ k.t.mon \in Nat /\ k.t.win \in Nat
      BY FidFacts
    <2>4. QED BY <2>2, <2>3 DEF OverAMonth, ZeroStamp
  <1>2. k.t \in Moment
    BY FidMonth, StampIsMoment
  <1>3. QED BY <1>1, <1>2, HorizonMoves DEF Gone

LEMMA BufferInit == Init => BufferInv
  <1>1. \A k \in Fids : CurName(k) \in Names /\ ZipName(k) \in Names
    BY NameFacts
  <1>2. QED BY <1>1 DEF Init, BufferInv

(* Steps that touch no file, nor dn, and leave zip's removal alone. *)
LEMMA BufferKept ==
    ASSUME ForwardOnly, TypeInv, BufferInv, [Next]_vars,
           UNCHANGED <<dir, data, usb, dnpc, dnName, dnBuf>>,
           UNCHANGED <<apc, zfid, zbuf>> \/ apc' # "unlink"
    PROVE  BufferInv'
  <1>1. \A k \in Fids : Gone(k) => Gone(k)'
    BY GoneStays
  <1>2. \A n \in Names : n.key \in Fids
    BY NameKey
  <1>3. dir \subseteq Names /\ (dnpc = "copy" => dnName \in Names) /\ (apc = "unlink" => zfid \in Fids)
    BY DEF TypeInv, TypeOK
  <1>4. QED BY <1>1, <1>2, <1>3 DEF BufferInv, CurName, ZipName

LEMMA BufferStep ==
    ~Faults /\ ~UsbFull /\ ForwardOnly /\ TypeInv /\ OrderInv /\ HorizonInv /\ RetiredInv
        /\ FileInv /\ HorizonOld /\ BufferInv /\ [Next]_vars => BufferInv'
  <1> SUFFICES ASSUME ~Faults, ~UsbFull, ForwardOnly, TypeInv, OrderInv, HorizonInv, RetiredInv,
                      FileInv, HorizonOld, BufferInv, [Next]_vars
               PROVE  BufferInv'
    OBVIOUS
  <1>t. /\ data \in [Names -> SUBSET (1..Len(hdr))] /\ usb \in [Names -> SUBSET (1..Len(hdr))]
        /\ dir \subseteq Names /\ old \in Stamp /\ Latest.key.t \in Stamp
        /\ dnpc \in {"idle", "copy"} /\ (dnpc = "copy" => dnName \in Names)
        /\ apc \in {"zip", "unlink"} => zfid \in Fids
    BY LatestFid, FidFacts DEF TypeInv, TypeOK, AnyFid
  <1>u. ASSUME UNCHANGED hdr PROVE Latest' = Latest /\ \A k : Gone(k)' = Gone(k)
    BY <1>u DEF Latest, Header, Gone
  <1>c. \A k \in Fids : dnpc = "copy" => dnName # CurName(k)
    BY DEF HorizonInv, CurName
  <1>n. \A k \in Fids : /\ CurName(k) \in Names /\ ZipName(k) \in Names
                        /\ CurName(k).key = k /\ ZipName(k).key = k
    BY NameFacts
  <1>1. ASSUME NEW h \in Headers, CopyFrame(h) PROVE BufferInv'
    BY <1>1, BufferKept DEF CopyFrame, alignVars, fileVars, dnVars
  <1>2. ASSUME TaskCmd \/ WatchReceive \/ ReadStamp \/ Roll PROVE BufferInv'
    BY <1>2, BufferKept DEF TaskCmd, WatchReceive, ReadStamp, Roll, alignVars, fileVars, dnVars
  <1>3. ASSUME WriteTod PROVE BufferInv'
    <2>1. /\ wKey \in Fids /\ wpc = "write"
          /\ dir' = dir \cup {CurName(wKey)}
          /\ data' = [data EXCEPT ![CurName(wKey)] = @ \cup {slot}]
          /\ UNCHANGED <<apc, zfid, zbuf, dnpc, dnName, dnBuf, usb>>
          /\ \A k : Gone(k)' = Gone(k)
      BY <1>3, <1>u DEF WriteTod, TypeInv, tdcVars, alignVars, dnVars
    <2>2. /\ \A n \in Names : n # CurName(wKey) => data'[n] = data[n]
          /\ \A n \in Names : data[n] \subseteq data'[n]
      BY <1>t, <2>1
    <2>3. usb[ZipName(wKey)] = {}
      <3>1. ~Earlier(wKey.t, wKey.t)
        BY <2>1, FidOrder, FidInAny
      <3>2. QED BY <2>1, <3>1 DEF RetiredInv, Retired
    <2>4. \A k \in Fids : data'[ZipName(k)] = data[ZipName(k)]
      BY <1>n, <2>1, <2>2, NameInjective
    <2>5. \A n \in dir' : usb'[n] \subseteq data'[n] \/ Gone(n.key)
      BY <1>n, <1>t, <2>1, <2>2 DEF BufferInv
    <2>6. ASSUME NEW k \in Fids, CurName(k) \in dir'
          PROVE  usb'[ZipName(k)] \subseteq data'[CurName(k)] \/ Gone(k)
      <3>1. CASE k = wKey
        BY <2>1, <2>3, <3>1
      <3>2. CASE k # wKey
        BY <1>n, <2>1, <2>2, <2>6, <3>2, NameInjective DEF BufferInv
      <3>3. QED BY <3>1, <3>2
    <2>7. dnpc = "copy" => dnName # CurName(wKey)
      BY <1>c, <2>1
    <2>8. ASSUME dnpc = "copy"
          PROVE  \/ dnName \in dir' /\ dnBuf = data'[dnName] /\ usb[dnName] \subseteq dnBuf
                 \/ Gone(dnName.key)
      BY <1>t, <2>1, <2>2, <2>7, <2>8 DEF BufferInv
    <2>9. ASSUME apc = "unlink"
          PROVE  zbuf \subseteq data'[ZipName(zfid)] \cup usb[ZipName(zfid)] \/ Gone(zfid)
      BY <1>t, <2>4, <2>9 DEF BufferInv
    <2>10. QED BY <2>1, <2>5, <2>6, <2>8, <2>9 DEF BufferInv, CurName, ZipName
  <1>4. ASSUME AlignBegin \/ AlignEnd PROVE BufferInv'
    BY <1>4, BufferKept DEF AlignBegin, AlignEnd, fileVars, dnVars
  <1>5. ASSUME NEW n \in Names, DeleteOld(n) PROVE BufferInv'
    <2>1. /\ apc = "scan" /\ apc' = "scan" /\ Earlier(n.key.t, old)
          /\ dir' = dir \ {n} /\ data' = [data EXCEPT ![n] = {}]
          /\ UNCHANGED <<dnpc, dnName, dnBuf, usb>>
          /\ \A k : Gone(k)' = Gone(k)
      BY <1>5, <1>u DEF DeleteOld, Returned, Expired, tdcVars, dnVars
    <2>2. Gone(n.key)
      <3>1. ~Earlier(MonthBack(Latest.key.t), old)
        BY <2>1 DEF HorizonOld
      <3>2. QED BY <1>t, <2>1, <3>1, FidMonth, NameKey, StampIsMoment, MomentOrder DEF Gone
    <2>3. \A m \in Names : m # n => data'[m] = data[m] /\ (m \in dir' <=> m \in dir)
      BY <1>t, <2>1
    <2>4. \A m \in dir' : usb'[m] \subseteq data'[m] \/ Gone(m.key)
      BY <1>t, <2>1, <2>3 DEF BufferInv
    <2>5. \A k \in Fids : CurName(k) \in dir' => usb'[ZipName(k)] \subseteq data'[CurName(k)] \/ Gone(k)
      BY <1>n, <2>1, <2>3 DEF BufferInv
    <2>6. ASSUME dnpc = "copy"
          PROVE  \/ dnName \in dir' /\ dnBuf = data'[dnName] /\ usb[dnName] \subseteq dnBuf
                 \/ Gone(dnName.key)
      BY <1>t, <2>2, <2>3, <2>6 DEF BufferInv
    <2>7. QED BY <2>1, <2>4, <2>5, <2>6 DEF BufferInv, CurName, ZipName
  <1>6. ASSUME NEW n \in Names, Skip(n) PROVE BufferInv'
    BY <1>6, BufferKept DEF Skip, fileVars, dnVars
  <1>7. ASSUME NEW n \in Names, ZipBegin(n) PROVE BufferInv'
    BY <1>7, BufferKept DEF ZipBegin, fileVars, dnVars
  <1>8. ASSUME ZipWrite PROVE BufferInv'
    <2>1. /\ apc = "zip" /\ zfid \in Fids
          /\ dir' = dir \cup {ZipName(zfid)}
          /\ data' = [data EXCEPT ![ZipName(zfid)] = zbuf]
          /\ UNCHANGED <<zfid, zbuf, dnpc, dnName, dnBuf, usb>>
          /\ \A k : Gone(k)' = Gone(k)
      BY <1>8, <1>u DEF ZipWrite, TypeInv, tdcVars, dnVars
    <2>2. \A m \in Names : m # ZipName(zfid) => data'[m] = data[m]
      BY <1>t, <2>1
    <2>3. data'[ZipName(zfid)] = zbuf /\ zbuf = data[CurName(zfid)] /\ CurName(zfid) \in dir
      BY <1>t, <1>n, <2>1 DEF FileInv
    <2>4. \A k \in Fids : CurName(k) # ZipName(zfid)
      BY <2>1, NameInjective
    <2>5. \A m \in dir' : usb'[m] \subseteq data'[m] \/ Gone(m.key)
      <3> SUFFICES ASSUME NEW m \in dir' PROVE usb[m] \subseteq data'[m] \/ Gone(m.key)
        BY <2>1
      <3>1. CASE m = ZipName(zfid)
        BY <1>n, <2>1, <2>3, <3>1 DEF BufferInv
      <3>2. CASE m # ZipName(zfid)
        BY <1>t, <2>1, <2>2, <3>2 DEF BufferInv
      <3>3. QED BY <3>1, <3>2
    <2>6. \A k \in Fids : CurName(k) \in dir' => usb'[ZipName(k)] \subseteq data'[CurName(k)] \/ Gone(k)
      BY <1>n, <2>1, <2>2, <2>4 DEF BufferInv
    <2>7. ASSUME dnpc = "copy"
          PROVE  \/ dnName \in dir' /\ dnBuf = data'[dnName] /\ usb[dnName] \subseteq dnBuf
                 \/ Gone(dnName.key)
      <3>1. CASE dnName = ZipName(zfid) /\ dnName \in dir
        <4>1. data'[dnName] = data[dnName]
          BY <2>1, <2>3, <3>1 DEF FileInv, OpenAsZipped
        <4>2. QED BY <2>1, <2>7, <4>1 DEF BufferInv
      <3>2. CASE dnName # ZipName(zfid) \/ dnName \notin dir
        BY <1>t, <2>1, <2>2, <2>7, <3>2 DEF BufferInv
      <3>3. QED BY <3>1, <3>2
    <2>8. QED BY <2>1, <2>3, <2>5, <2>6, <2>7 DEF BufferInv, CurName, ZipName
  <1>9. ASSUME ZipRemove PROVE BufferInv'
    <2>1. /\ apc' = "scan" /\ zfid \in Fids
          /\ dir' = dir \ {CurName(zfid)} /\ data' = [data EXCEPT ![CurName(zfid)] = {}]
          /\ UNCHANGED <<dnpc, dnName, dnBuf, usb>>
          /\ \A k : Gone(k)' = Gone(k)
      BY <1>9, <1>u DEF ZipRemove, ZipDone, TypeInv, tdcVars, dnVars
    <2>2. \A m \in Names : m # CurName(zfid) => data'[m] = data[m] /\ (m \in dir' <=> m \in dir)
      BY <1>t, <2>1
    <2>3. \A m \in dir' : usb'[m] \subseteq data'[m] \/ Gone(m.key)
      BY <1>t, <2>1, <2>2 DEF BufferInv
    <2>4. \A k \in Fids : CurName(k) \in dir' => usb'[ZipName(k)] \subseteq data'[CurName(k)] \/ Gone(k)
      BY <1>n, <2>1, <2>2 DEF BufferInv
    <2>5. ASSUME dnpc = "copy"
          PROVE  \/ dnName \in dir' /\ dnBuf = data'[dnName] /\ usb[dnName] \subseteq dnBuf
                 \/ Gone(dnName.key)
      BY <1>t, <1>c, <2>1, <2>2, <2>5 DEF BufferInv
    <2>6. QED BY <2>1, <2>3, <2>4, <2>5 DEF BufferInv, CurName, ZipName
  <1>10. ASSUME NEW n \in Names, MoveBegin(n) PROVE BufferInv'
    <2>1. /\ n \in dir /\ dnpc' = "copy" /\ dnName' = n /\ dnBuf' = data[n]
          /\ UNCHANGED <<dir, data, apc, zfid, zbuf, usb>>
          /\ \A k : Gone(k)' = Gone(k)
      BY <1>10, <1>u DEF MoveBegin, tdcVars, alignVars, fileVars
    <2>2. QED BY <2>1 DEF BufferInv, CurName, ZipName
  <1>11. ASSUME MoveEnd PROVE BufferInv'
    <2>1. /\ dnName \in Names /\ dnName.sign # "c" /\ dnpc = "copy"
          /\ dnpc' = "idle" /\ dnName' = NoName
          /\ dir' = dir \ {dnName} /\ data' = [data EXCEPT ![dnName] = {}]
          /\ usb' = [usb EXCEPT ![dnName] = dnBuf]
          /\ UNCHANGED <<apc, zfid, zbuf>>
          /\ \A k : Gone(k)' = Gone(k)
      BY <1>11, <1>u DEF MoveEnd, Taken, HorizonInv, TypeInv, tdcVars, alignVars
    <2>2. \A m \in Names : m # dnName =>
             data'[m] = data[m] /\ usb'[m] = usb[m] /\ (m \in dir' <=> m \in dir)
      BY <1>t, <2>1
    <2>3. data'[dnName] = {} /\ usb'[dnName] = dnBuf
      BY <1>t, <2>1
    <2>4. dnName.key \in Fids /\ dnName = ZipName(dnName.key)
      BY <2>1, NameKey, NameInjective DEF CurName
    <2>5. \A k \in Fids : CurName(k) # dnName
      BY <1>c, <2>1
    <2>6. \A m \in dir' : usb'[m] \subseteq data'[m] \/ Gone(m.key)
      BY <1>t, <2>1, <2>2 DEF BufferInv
    <2>7. ASSUME NEW k \in Fids, CurName(k) \in dir'
          PROVE  usb'[ZipName(k)] \subseteq data'[CurName(k)] \/ Gone(k)
      <3>1. CASE dnName = ZipName(k)
        <4>1. ASSUME ~Gone(k) PROVE dnBuf = data[CurName(k)]
          <5>1. dnName \in dir /\ dnBuf = data[dnName] /\ CurName(k) \in dir
            BY <1>n, <2>1, <2>7, <3>1, <4>1 DEF BufferInv
          <5>2. QED BY <3>1, <5>1 DEF FileInv, OpenAsZipped
        <4>2. data'[CurName(k)] = data[CurName(k)]
          BY <1>n, <2>2, <2>5
        <4>3. QED BY <2>3, <3>1, <4>1, <4>2
      <3>2. CASE dnName # ZipName(k)
        BY <1>n, <2>1, <2>2, <2>5, <2>7, <3>2 DEF BufferInv
      <3>3. QED BY <3>1, <3>2
    <2>8. ASSUME apc = "unlink"
          PROVE  zbuf \subseteq data'[ZipName(zfid)] \cup usb'[ZipName(zfid)] \/ Gone(zfid)
      <3>1. CASE dnName = ZipName(zfid)
        <4>1. Gone(zfid) \/ (dnBuf = data[dnName] /\ usb[dnName] \subseteq dnBuf)
          BY <1>t, <1>n, <2>1, <2>8, <3>1 DEF BufferInv
        <4>2. Gone(zfid) \/ zbuf \subseteq data[dnName] \cup usb[dnName]
          BY <2>8, <3>1 DEF BufferInv
        <4>3. QED BY <2>3, <3>1, <4>1, <4>2
      <3>2. CASE dnName # ZipName(zfid)
        BY <1>t, <1>n, <2>2, <2>8, <3>2 DEF BufferInv
      <3>3. QED BY <3>1, <3>2
    <2>9. \A k \in Fids : usb'[CurName(k)] = {}
      BY <1>n, <2>2, <2>5 DEF BufferInv
    <2>10. QED BY <2>1, <2>6, <2>7, <2>8, <2>9 DEF BufferInv, CurName, ZipName
  <1>12. ASSUME PowerCycle PROVE BufferInv'
    <2>1. /\ UNCHANGED <<dir, data, usb>> /\ dnpc' = "idle" /\ dnName' = NoName /\ apc' = "wait"
          /\ \A k : Gone(k)' = Gone(k)
      BY <1>12, <1>u DEF PowerCycle, fileVars
    <2>2. QED BY <2>1 DEF BufferInv, CurName, ZipName
  <1>13. ASSUME UNCHANGED vars PROVE BufferInv'
    BY <1>13, BufferKept DEF vars, alignVars, fileVars, dnVars
  <1>14. QED
    BY <1>1, <1>2, <1>3, <1>4, <1>5, <1>6, <1>7, <1>8, <1>9, <1>10, <1>11,
       <1>12, <1>13 DEF Next, Watch, Align

-----------------------------------------------------------------------------
(* Frame i can be found under identity k. *)
Held(k, i) == \E n \in Names : n.key = k /\ i \in Found(n)

KeptHeld == \A r : r \in Kept <=> \E k, i : r = [id |-> i, key |-> k] /\ Held(k, i)

LEMMA KeptIsHeld == KeptHeld
  <1>1. ASSUME NEW r, r \in Kept PROVE \E k, i : r = [id |-> i, key |-> k] /\ Held(k, i)
    <2>1. PICK n \in Names : r \in {[id |-> i, key |-> n.key] : i \in Found(n)}
      BY <1>1 DEF Kept
    <2>2. PICK i \in Found(n) : r = [id |-> i, key |-> n.key]
      BY <2>1
    <2>3. QED BY <2>2 DEF Held
  <1>2. ASSUME NEW r, NEW k, NEW i, r = [id |-> i, key |-> k], Held(k, i) PROVE r \in Kept
    <2>1. PICK n \in Names : n.key = k /\ i \in Found(n)
      BY <1>2 DEF Held
    <2>2. r \in {[id |-> j, key |-> n.key] : j \in Found(n)}
      BY <1>2, <2>1
    <2>3. QED BY <2>2 DEF Kept
  <1>3. QED BY <1>1, <1>2 DEF KeptHeld

(* The archive's calendar is the one used here. *)
LEMMA SameOperators ==
    \A s, t : Archive!OverAMonth(s, t) = OverAMonth(s, t)
  BY DEF Archive!OverAMonth, OverAMonth

(* A step that takes nothing but what has expired, and adds nothing. *)
LEMMA ExpireStep ==
    ASSUME TypeInv, UNCHANGED hdr,
           \A k, i : Held(k, i)' => Held(k, i),
           \A k, i : Held(k, i) => Held(k, i)' \/ Gone(k)
    PROVE  Archive!Expire
  <1>1. Latest' = Latest
    BY DEF Latest, Header
  <1>2. KeptHeld /\ KeptHeld'
    BY KeptIsHeld, PTL
  <1>3. Kept' \subseteq Kept
    BY <1>2 DEF KeptHeld
  <1>4. ASSUME NEW r \in Kept \ Kept' PROVE OverAMonth(r.key.t, Latest.key.t)
    <2>1. PICK k, i : r = [id |-> i, key |-> k] /\ Held(k, i)
      BY <1>2 DEF KeptHeld
    <2>2. ~Held(k, i)'
      BY <1>2, <2>1 DEF KeptHeld
    <2>3. k \in Fids
      BY <2>1, NameKey DEF Held
    <2>4. QED BY <2>1, <2>2, <2>3, GoneIsOverAMonth
  <1>5. \A r \in Kept \ Kept' : Archive!OverAMonth(r.key.t, Latest.key.t)
    BY <1>4, SameOperators
  <1>6. QED BY <1>1, <1>3, <1>5 DEF Archive!Expire

(* A step of no file, copy or move changes nothing for the archive. *)
LEMMA StutterStep ==
    ASSUME UNCHANGED <<hdr, data, usb, dnName, dnBuf>>
    PROVE  UNCHANGED Archive!vars
  <1>1. Latest' = Latest
    BY DEF Latest, Header
  <1>2. Kept' = Kept
    BY DEF Kept, Found, InCopy
  <1>3. QED BY <1>1, <1>2 DEF Archive!vars

LEMMA ArchiveAccept ==
    ASSUME ForwardOnly, TypeInv, NEW h \in Headers, CopyFrame(h)
    PROVE  Archive!Accept
  <1>1. Latest'.key \in Fids /\ Len(hdr') = Len(hdr) + 1
    BY LatestMoves
  <1>2. UNCHANGED <<data, usb, dnName, dnBuf>>
    BY DEF CopyFrame, fileVars, dnVars
  <1>3. Kept' = Kept
    BY <1>2 DEF Kept, Found, InCopy
  <1>4. QED BY <1>1, <1>3 DEF Archive!Accept

LEMMA ArchiveRecord ==
    ASSUME ~Faults, TypeInv, WriteTod
    PROVE  Archive!Record(wKey)
  <1>t. data \in [Names -> SUBSET (1..Len(hdr))]
    BY DEF TypeInv, TypeOK
  <1>1. /\ CurName(wKey) \in Names /\ CurName(wKey).key = wKey /\ slot = Len(hdr)
        /\ data' = [data EXCEPT ![CurName(wKey)] = @ \cup {slot}]
        /\ UNCHANGED <<hdr, usb, dnName, dnBuf>>
    BY NameFacts DEF WriteTod, TypeInv, TypeOK, tdcVars, dnVars
  <1>2. \A n \in Names : data'[n] = data[n] \cup (IF n = CurName(wKey) THEN {slot} ELSE {})
    BY <1>t, <1>1
  <1>3. \A k, i : Held(k, i)' <=> Held(k, i) \/ (k = wKey /\ i = slot)
    BY <1>1, <1>2 DEF Held, Found, InCopy
  <1>4. KeptHeld /\ KeptHeld'
    BY KeptIsHeld, PTL
  <1>5. Kept' = Kept \cup {[id |-> slot, key |-> wKey]}
    <2>1. ASSUME NEW r, r \in Kept' PROVE r \in Kept \cup {[id |-> slot, key |-> wKey]}
      BY <1>3, <1>4, <2>1 DEF KeptHeld
    <2>2. ASSUME NEW r, r \in Kept \cup {[id |-> slot, key |-> wKey]} PROVE r \in Kept'
      BY <1>3, <1>4, <2>2 DEF KeptHeld
    <2>3. QED BY <2>1, <2>2
  <1>6. Latest' = Latest
    BY <1>1 DEF Latest, Header
  <1>7. QED BY <1>1, <1>5, <1>6 DEF Archive!Record

LEMMA ArchiveDelete ==
    ASSUME ~Faults, TypeInv, HorizonOld, NEW n \in Names, DeleteOld(n)
    PROVE  Archive!Expire
  <1>t. /\ data \in [Names -> SUBSET (1..Len(hdr))] /\ old \in Stamp /\ Latest.key.t \in Stamp
    BY LatestFid, FidFacts DEF TypeInv, TypeOK, AnyFid
  <1>1. /\ apc = "scan" /\ Earlier(n.key.t, old)
        /\ data' = [data EXCEPT ![n] = {}]
        /\ UNCHANGED <<hdr, usb, dnName, dnBuf>>
    BY DEF DeleteOld, Returned, Expired, tdcVars, dnVars
  <1>2. Gone(n.key)
    <2>1. ~Earlier(MonthBack(Latest.key.t), old)
      BY <1>1 DEF HorizonOld
    <2>2. QED BY <1>t, <1>1, <2>1, FidMonth, NameKey, StampIsMoment, MomentOrder DEF Gone
  <1>3. \A m \in Names : data'[m] = IF m = n THEN {} ELSE data[m]
    BY <1>t, <1>1
  <1>4. \A k, i : Held(k, i)' => Held(k, i)
    BY <1>1, <1>3 DEF Held, Found, InCopy
  <1>5. \A k, i : Held(k, i) => Held(k, i)' \/ Gone(k)
    BY <1>1, <1>2, <1>3 DEF Held, Found, InCopy
  <1>6. QED BY <1>1, <1>4, <1>5, ExpireStep

(* Zip's first step replaces no archive by another, and its second takes    *)
(* nothing that is not zipped or moved.                                     *)
LEMMA ArchiveZipWrite ==
    ASSUME ~Faults, TypeInv, FileInv, ZipWrite
    PROVE  Archive!Expire
  <1>t. data \in [Names -> SUBSET (1..Len(hdr))]
    BY DEF TypeInv, TypeOK
  <1>1. /\ apc = "zip" /\ zfid \in Fids
        /\ data' = [data EXCEPT ![ZipName(zfid)] = zbuf]
        /\ UNCHANGED <<hdr, usb, dnName, dnBuf>>
    BY DEF ZipWrite, TypeInv, tdcVars, dnVars
  <1>2. /\ CurName(zfid) \in Names /\ ZipName(zfid) \in Names
        /\ CurName(zfid).key = zfid /\ ZipName(zfid).key = zfid
    BY <1>1, NameFacts
  <1>3. zbuf = data[CurName(zfid)] /\ data[ZipName(zfid)] \subseteq zbuf
    BY <1>1, <1>2 DEF FileInv, OpenAsZipped
  <1>4. /\ \A m \in Names : m # ZipName(zfid) => data'[m] = data[m]
        /\ data'[ZipName(zfid)] = zbuf
    BY <1>t, <1>1, <1>2
  <1>5. ASSUME NEW k, NEW i, Held(k, i)' PROVE Held(k, i)
    <2>1. PICK n \in Names : n.key = k /\ i \in Found(n)'
      BY <1>5 DEF Held
    <2>2. CASE i \in data'[n]
      BY <1>2, <1>3, <1>4, <2>1, <2>2 DEF Held, Found
    <2>3. CASE i \notin data'[n]
      BY <1>1, <2>1, <2>3 DEF Held, Found, InCopy
    <2>4. QED BY <2>2, <2>3
  <1>6. ASSUME NEW k, NEW i, Held(k, i) PROVE Held(k, i)'
    <2>1. PICK n \in Names : n.key = k /\ i \in Found(n)
      BY <1>6 DEF Held
    <2>2. i \in Found(n)'
      BY <1>1, <1>3, <1>4, <2>1 DEF Found, InCopy
    <2>3. QED BY <2>1, <2>2 DEF Held
  <1>7. QED BY <1>1, <1>5, <1>6, ExpireStep

LEMMA ArchiveZipRemove ==
    ASSUME ~Faults, TypeInv, FileInv, BufferInv, ZipRemove
    PROVE  Archive!Expire
  <1>t. data \in [Names -> SUBSET (1..Len(hdr))]
    BY DEF TypeInv, TypeOK
  <1>1. /\ apc = "unlink" /\ zfid \in Fids
        /\ data' = [data EXCEPT ![CurName(zfid)] = {}]
        /\ UNCHANGED <<hdr, usb, dnName, dnBuf>>
    BY DEF ZipRemove, TypeInv, tdcVars, dnVars
  <1>2. /\ CurName(zfid) \in Names /\ ZipName(zfid) \in Names /\ CurName(zfid) # ZipName(zfid)
        /\ CurName(zfid).key = zfid /\ ZipName(zfid).key = zfid
    BY <1>1, NameFacts, NameInjective
  <1>3. data[CurName(zfid)] \subseteq data[ZipName(zfid)] \cup usb[ZipName(zfid)] \/ Gone(zfid)
    BY <1>1 DEF FileInv, BufferInv
  <1>4. /\ \A m \in Names : m # CurName(zfid) => data'[m] = data[m]
        /\ data'[CurName(zfid)] = {}
    BY <1>t, <1>1, <1>2
  <1>5. \A n \in Names : Found(n)' \subseteq Found(n)
    BY <1>1, <1>4 DEF Found, InCopy
  <1>6. \A k, i : Held(k, i)' => Held(k, i)
    BY <1>5 DEF Held
  <1>7. ASSUME NEW k, NEW i, Held(k, i) PROVE Held(k, i)' \/ Gone(k)
    <2>1. PICK n \in Names : n.key = k /\ i \in Found(n)
      BY <1>7 DEF Held
    <2>2. CASE n # CurName(zfid) \/ i \notin data[n]
      <3>1. i \in Found(n)'
        BY <1>1, <1>4, <2>1, <2>2 DEF Found, InCopy
      <3>2. QED BY <2>1, <3>1 DEF Held
    <2>3. CASE n = CurName(zfid) /\ i \in data[n]
      <3>1. k = zfid /\ data'[ZipName(zfid)] = data[ZipName(zfid)]
        BY <1>2, <1>4, <2>1, <2>3
      <3>2. Gone(k) \/ i \in data'[ZipName(zfid)] \cup usb'[ZipName(zfid)]
        BY <1>1, <1>3, <2>3, <3>1
      <3>3. PICK m \in Names : m = ZipName(zfid)
        BY <1>2
      <3>4. Gone(k) \/ Held(k, i)'
        BY <1>2, <3>1, <3>2, <3>3 DEF Held, Found
      <3>5. QED BY <3>4
    <2>4. QED BY <2>2, <2>3
  <1>8. QED BY <1>1, <1>6, <1>7, ExpireStep

LEMMA ArchiveMove ==
    ASSUME ~Faults, ~UsbFull, TypeInv, BufferInv, NEW n \in Names, MoveBegin(n) \/ MoveEnd
    PROVE  Archive!Expire
  <1>t. data \in [Names -> SUBSET (1..Len(hdr))] /\ usb \in [Names -> SUBSET (1..Len(hdr))]
    BY DEF TypeInv, TypeOK
  <1>o. \A m \in Names : m # NoName
    BY DEF Names, NoName
  <1>1. CASE MoveBegin(n)
    <2>1. /\ dnpc = "idle" /\ dnName' = n /\ dnBuf' = data[n] /\ UNCHANGED <<hdr, data, usb>>
      BY <1>1 DEF MoveBegin, tdcVars, fileVars
    <2>2. \A m \in Names : Found(m)' = Found(m)
      BY <1>o, <2>1 DEF Found, InCopy, BufferInv
    <2>3. \A k, i : Held(k, i)' <=> Held(k, i)
      BY <2>2 DEF Held
    <2>4. QED BY <2>1, <2>3, ExpireStep
  <1>2. CASE MoveEnd
    <2>1. /\ dnpc = "copy" /\ dnName \in Names /\ dnName' = NoName
          /\ usb' = [usb EXCEPT ![dnName] = dnBuf] /\ data' = [data EXCEPT ![dnName] = {}]
          /\ UNCHANGED hdr
      BY <1>2 DEF MoveEnd, Taken, TypeInv, tdcVars
    <2>2. Gone(dnName.key) \/ (usb[dnName] \subseteq dnBuf /\ data[dnName] = dnBuf)
      BY <2>1 DEF BufferInv
    <2>3. \A m \in Names : Found(m)' \subseteq Found(m)
      BY <1>t, <1>o, <2>1 DEF Found, InCopy
    <2>4. \A m \in Names : Found(m)' = Found(m) \/ Gone(m.key)
      BY <1>t, <1>o, <2>1, <2>2 DEF Found, InCopy
    <2>5. \A k, i : Held(k, i)' => Held(k, i)
      BY <2>3 DEF Held
    <2>6. \A k, i : Held(k, i) => Held(k, i)' \/ Gone(k)
      BY <2>4 DEF Held
    <2>7. QED BY <2>1, <2>5, <2>6, ExpireStep
  <1>3. QED BY <1>1, <1>2

(* A power cut takes the copy dn is making; its file is still there, or has *)
(* expired.                                                                 *)
LEMMA ArchivePower ==
    ASSUME TypeInv, BufferInv, PowerCycle
    PROVE  Archive!Expire
  <1>1. dnName' = NoName /\ UNCHANGED <<hdr, data, usb>>
    BY DEF PowerCycle, fileVars
  <1>2. \A m \in Names : m # NoName
    BY DEF Names, NoName
  <1>3. \A m \in Names : Found(m)' = data[m] \cup usb[m]
    BY <1>1, <1>2 DEF Found, InCopy
  <1>4. \A k, i : Held(k, i)' => Held(k, i)
    BY <1>3 DEF Held, Found
  <1>5. ASSUME NEW k, NEW i, Held(k, i)
        PROVE  Held(k, i)' \/ Gone(k)
    <2>1. PICK n \in Names : n.key = k /\ i \in Found(n)
      BY <1>5 DEF Held
    <2>2. CASE i \in data[n] \cup usb[n]
      BY <1>3, <2>1, <2>2 DEF Held
    <2>3. CASE i \notin data[n] \cup usb[n]
      <3>1. dnName = n /\ i \in dnBuf
        BY <2>1, <2>3 DEF Found, InCopy
      <3>2. dnpc = "copy" /\ dnBuf # data[dnName]
        BY <1>2, <2>3, <3>1 DEF BufferInv, TypeInv, TypeOK
      <3>3. QED BY <2>1, <3>1, <3>2 DEF BufferInv
    <2>4. QED BY <2>2, <2>3
  <1>6. QED BY <1>1, <1>4, <1>5, ExpireStep

ArchiveInv ==
    /\ TypeInv /\ OrderInv /\ HorizonInv
    /\ RetiredInv /\ FileInv /\ HorizonOld /\ BufferInv

LEMMA ArchiveNext ==
    ~Faults /\ ~UsbFull /\ ForwardOnly /\ ArchiveInv /\ [Next]_vars
        => [Archive!Next]_(Archive!vars)
  <1> SUFFICES ASSUME ~Faults, ~UsbFull, ForwardOnly, ArchiveInv, [Next]_vars
               PROVE  [Archive!Next]_(Archive!vars)
    OBVIOUS
  <1> USE DEF ArchiveInv
  <1>1. ASSUME NEW h \in Headers, CopyFrame(h) PROVE Archive!Next
    BY <1>1, ArchiveAccept DEF Archive!Next
  <1>2. ASSUME WriteTod PROVE Archive!Next
    <2>1. wKey \in Fids
      BY <1>2 DEF WriteTod, TypeInv
    <2>2. QED BY <1>2, <2>1, ArchiveRecord DEF Archive!Next
  <1>3. ASSUME NEW n \in Names, DeleteOld(n) PROVE Archive!Next
    BY <1>3, ArchiveDelete DEF Archive!Next
  <1>4. ASSUME ZipWrite \/ ZipRemove PROVE Archive!Next
    BY <1>4, ArchiveZipWrite, ArchiveZipRemove DEF Archive!Next
  <1>5. ASSUME NEW n \in Names, MoveBegin(n) PROVE Archive!Next
    BY <1>5, ArchiveMove DEF Archive!Next
  <1>6. ASSUME MoveEnd PROVE Archive!Next
    <2>1. PICK n \in Names : n = dnName
      BY <1>6 DEF MoveEnd, TypeInv
    <2>2. QED BY <1>6, <2>1, ArchiveMove DEF Archive!Next
  <1>7. ASSUME PowerCycle PROVE Archive!Next
    BY <1>7, ArchivePower DEF Archive!Next
  <1>8. ASSUME TaskCmd \/ WatchReceive \/ ReadStamp \/ Roll PROVE UNCHANGED Archive!vars
    BY <1>8, StutterStep DEF TaskCmd, WatchReceive, ReadStamp, Roll, tdcVars, fileVars, dnVars
  <1>9. ASSUME AlignBegin \/ AlignEnd PROVE UNCHANGED Archive!vars
    BY <1>9, StutterStep DEF AlignBegin, AlignEnd, tdcVars, fileVars, dnVars
  <1>10. ASSUME NEW n \in Names, Skip(n) \/ ZipBegin(n) PROVE UNCHANGED Archive!vars
    BY <1>10, StutterStep DEF Skip, ZipBegin, tdcVars, fileVars, dnVars
  <1>11. ASSUME UNCHANGED vars PROVE UNCHANGED Archive!vars
    BY <1>11, StutterStep DEF vars, tdcVars, fileVars, dnVars
  <1>12. QED
    BY <1>1, <1>2, <1>3, <1>4, <1>5, <1>6, <1>7, <1>8, <1>9, <1>10, <1>11 DEF Next, Watch, Align

LEMMA ArchiveInit == Init => Archive!Init
  <1> SUFFICES ASSUME Init PROVE Archive!Init
    OBVIOUS
  <1>1. Len(hdr) = 0 /\ Latest.key.t = ZeroStamp
    BY DEF Init, Latest, Header, ZeroHeader, ZeroFid
  <1>2. \A n \in Names : Found(n) = {}
    <2>1. \A n \in Names : n # NoName
      BY DEF Names, NoName
    <2>2. QED BY <2>1 DEF Init, Found, InCopy
  <1>3. Kept = {}
    BY <1>2 DEF Kept
  <1>4. Archive!ZeroStamp = ZeroStamp
    BY DEF Archive!ZeroStamp, ZeroStamp
  <1>5. QED BY <1>1, <1>3, <1>4 DEF Archive!Init

(* sm, with its two threads, its directory shared with dn and its single    *)
(* slot and single c_alignFid, implements the archive: a recorded frame     *)
(* disappears only when its window is more than a month behind the latest.  *)
THEOREM ImplementsArchive ==
    ASSUME ForwardOnly, ~Faults, ~UsbFull
    PROVE  Spec => KeepsArchive
  <1>1. Init => HorizonInv /\ HorizonOld
    BY DEF Init, HorizonInv, HorizonOld
  <1>2. Init => ArchiveInv
    BY <1>1, TypeInit, OrderInit, RetiredInit, FileInit, BufferInit DEF ArchiveInv
  <1>3. ForwardOnly /\ ~Faults /\ ~UsbFull /\ ArchiveInv /\ [Next]_vars => ArchiveInv'
    BY TypeStep, OrderStep, HorizonStep, RetiredStep, FileStep, HorizonOldStep, BufferStep
       DEF ArchiveInv
  <1>4. Spec => []ArchiveInv
    BY <1>2, <1>3, ForwardOnly, ~Faults, ~UsbFull, PTL DEF Spec
  <1>5. QED
    BY <1>4, ArchiveInit, ArchiveNext, ForwardOnly, ~Faults, ~UsbFull, PTL
       DEF Spec, KeepsArchive, Archive!Spec

-----------------------------------------------------------------------------
(* What zip is about to remove is zipped, or dn has taken it, even when     *)
(* file operations fail.                                                    *)
UnlinkInv == apc = "unlink" => zbuf \subseteq data[ZipName(zfid)] \cup taken[ZipName(zfid)]

LEMMA UnlinkStep == TypeInv /\ UnlinkInv /\ [Next]_vars => UnlinkInv'
  <1> SUFFICES ASSUME TypeInv, UnlinkInv, [Next]_vars, apc' = "unlink"
               PROVE  zbuf' \subseteq data'[ZipName(zfid')] \cup taken'[ZipName(zfid')]
    BY DEF UnlinkInv
  <1>t. /\ data \in [Names -> SUBSET (1..Len(hdr))] /\ taken \in [Names -> SUBSET (1..Len(hdr))]
        /\ apc \in {"zip", "unlink"} => zfid \in Fids
    BY DEF TypeInv, TypeOK
  <1>k. ASSUME UNCHANGED <<apc, zfid, zbuf, data, taken>>
        PROVE  zbuf' \subseteq data'[ZipName(zfid')] \cup taken'[ZipName(zfid')]
    BY <1>k DEF UnlinkInv
  <1>1. ASSUME WriteTod PROVE zbuf' \subseteq data'[ZipName(zfid')] \cup taken'[ZipName(zfid')]
    <2>1. /\ UNCHANGED <<apc, zfid, zbuf, taken>>
          /\ data' = data \/ data' = [data EXCEPT ![CurName(wKey)] = @ \cup {slot}]
      BY <1>1 DEF WriteTod, alignVars, fileVars, dnVars
    <2>2. ZipName(zfid) \in Names /\ zfid' = zfid
      BY <1>t, <2>1, NameFacts
    <2>3. data[ZipName(zfid)] \subseteq data'[ZipName(zfid)]
      BY <1>t, <2>1, <2>2
    <2>4. QED BY <2>1, <2>3 DEF UnlinkInv
  <1>2. ASSUME ZipWrite PROVE zbuf' \subseteq data'[ZipName(zfid')] \cup taken'[ZipName(zfid')]
    <2>1. /\ data' = [data EXCEPT ![ZipName(zfid)] = zbuf] /\ UNCHANGED <<zfid, zbuf>>
          /\ zfid \in Fids
      BY <1>2 DEF ZipWrite, ZipDone, TypeInv
    <2>2. ZipName(zfid) \in Names
      BY <2>1, NameFacts
    <2>3. data'[ZipName(zfid)] = zbuf
      BY <1>t, <2>1, <2>2
    <2>4. QED BY <2>1, <2>3
  <1>3. ASSUME MoveEnd PROVE zbuf' \subseteq data'[ZipName(zfid')] \cup taken'[ZipName(zfid')]
    <2>1. /\ UNCHANGED <<apc, zfid, zbuf>> /\ dnName \in Names
          /\ \/ UNCHANGED <<data, taken>>
             \/ /\ data' = [data EXCEPT ![dnName] = {}]
                /\ taken' = [taken EXCEPT ![dnName] = @ \cup data[dnName]]
      BY <1>3 DEF MoveEnd, Taken, TypeInv, alignVars, fileVars
    <2>2. ZipName(zfid) \in Names
      BY <1>t, <2>1, NameFacts
    <2>3. data[ZipName(zfid)] \cup taken[ZipName(zfid)]
            \subseteq data'[ZipName(zfid)] \cup taken'[ZipName(zfid)]
      BY <1>t, <2>1, <2>2
    <2>4. QED BY <2>1, <2>3 DEF UnlinkInv
  <1>4. (\E h \in Headers : CopyFrame(h)) \/ TaskCmd \/ WatchReceive \/ ReadStamp \/ Roll
            => UNCHANGED <<apc, zfid, zbuf, data, taken>>
    BY DEF CopyFrame, TaskCmd, WatchReceive, ReadStamp, Roll, alignVars, fileVars, dnVars
  <1>5. ~AlignBegin /\ ~ZipRemove /\ ~AlignEnd /\ ~PowerCycle
    BY DEF AlignBegin, ZipRemove, ZipDone, AlignEnd, PowerCycle
  <1>6. ~(\E n \in Names : DeleteOld(n) \/ Skip(n) \/ ZipBegin(n))
    BY DEF DeleteOld, Skip, ZipBegin, Returned
  <1>7. (\E n \in Names : MoveBegin(n)) \/ UNCHANGED vars
            => UNCHANGED <<apc, zfid, zbuf, data, taken>>
    BY DEF MoveBegin, vars, alignVars, fileVars, dnVars
  <1>8. QED
    BY <1>k, <1>1, <1>2, <1>3, <1>4, <1>5, <1>6, <1>7 DEF Next, Watch, Align

(* Where the frames of identity k may be after a step. *)
Stays(k, i) ==
    \/ i \in data'[CurName(k)] \cup data'[ZipName(k)]
    \/ i \in taken'[ZipName(k)]
    \/ Gone(k)

(* A frame in an open or zipped file stays in one of the two, until dn has  *)
(* removed the zipped one or its window is more than a month old: whatever  *)
(* file operation fails, however full the stick, at every power cut, zip's  *)
(* two steps with it, when the stamps go forward.                           *)
THEOREM FramesKept ==
    ASSUME ForwardOnly
    PROVE  Spec => SmKeepsFrames
  <1>1. ASSUME TypeInv, HorizonInv, HorizonOld, FileInv, UnlinkInv, [Next]_vars,
               NEW k \in Fids, NEW i \in data[CurName(k)] \cup data[ZipName(k)]
        PROVE  Stays(k, i)
    <2>t. /\ data \in [Names -> SUBSET (1..Len(hdr))] /\ taken \in [Names -> SUBSET (1..Len(hdr))]
          /\ old \in Stamp /\ Latest.key.t \in Stamp
          /\ CurName(k) \in Names /\ CurName(k).key = k
          /\ ZipName(k) \in Names /\ ZipName(k).key = k
      BY <1>1, LatestFid, FidFacts, NameFacts DEF TypeInv, TypeOK, AnyFid
    <2>1. ASSUME UNCHANGED data PROVE Stays(k, i)
      BY <1>1, <2>1 DEF Stays
    <2>2. ASSUME WriteTod PROVE Stays(k, i)
      <3>1. data' = data \/ data' = [data EXCEPT ![CurName(wKey)] = @ \cup {slot}]
        BY <2>2 DEF WriteTod, fileVars
      <3>2. QED BY <1>1, <2>t, <3>1 DEF Stays
    <2>3. ASSUME NEW n \in Names, DeleteOld(n) PROVE Stays(k, i)
      <3>1. /\ apc = "scan" /\ Earlier(n.key.t, old)
            /\ data' = data \/ data' = [data EXCEPT ![n] = {}]
        BY <2>3 DEF DeleteOld, Returned, Expired, fileVars
      <3>2. CASE n.key = k
        <4>1. ~Earlier(MonthBack(Latest.key.t), old)
          BY <1>1, <3>1 DEF HorizonOld
        <4>2. k.t \in Moment /\ MonthBack(Latest.key.t) \in Moment /\ old \in Moment
          BY <2>t, FidMonth, StampIsMoment
        <4>3. QED BY <3>1, <3>2, <4>1, <4>2, MomentOrder DEF Gone, Stays
      <3>3. CASE n.key # k
        <4>1. CurName(k) # n /\ ZipName(k) # n
          BY <2>t, <3>3
        <4>2. QED BY <1>1, <2>t, <3>1, <4>1 DEF Stays
      <3>4. QED BY <3>2, <3>3
    <2>4. ASSUME ZipWrite PROVE Stays(k, i)
      <3>1. /\ apc = "zip" /\ zfid \in Fids
            /\ data' = data \/ data' = [data EXCEPT ![ZipName(zfid)] = zbuf]
        BY <1>1, <2>4 DEF ZipWrite, TypeInv, fileVars
      <3>2. CurName(k) # ZipName(zfid)
        BY <3>1, NameInjective
      <3>3. data'[CurName(k)] = data[CurName(k)]
        BY <2>t, <3>1, <3>2
      <3>4. CASE k # zfid
        <4>1. ZipName(k) # ZipName(zfid)
          BY <3>1, <3>4, NameInjective
        <4>2. data'[ZipName(k)] = data[ZipName(k)]
          BY <2>t, <3>1, <4>1
        <4>3. QED BY <1>1, <3>3, <4>2 DEF Stays
      <3>5. CASE k = zfid
        <4>1. data[ZipName(k)] \subseteq data[CurName(k)]
          BY <1>1, <2>t, <3>1, <3>5 DEF FileInv, OpenAsZipped
        <4>2. QED BY <1>1, <3>3, <4>1 DEF Stays
      <3>6. QED BY <3>4, <3>5
    <2>5. ASSUME ZipRemove PROVE Stays(k, i)
      <3>1. /\ apc = "unlink" /\ zfid \in Fids /\ UNCHANGED taken
            /\ data' = data \/ data' = [data EXCEPT ![CurName(zfid)] = {}]
        BY <1>1, <2>5 DEF ZipRemove, TypeInv, fileVars, dnVars
      <3>2. ZipName(k) # CurName(zfid)
        BY <3>1, NameInjective
      <3>3. data'[ZipName(k)] = data[ZipName(k)]
        BY <2>t, <3>1, <3>2
      <3>4. CASE k # zfid
        <4>1. CurName(k) # CurName(zfid)
          BY <3>1, <3>4, NameInjective
        <4>2. data'[CurName(k)] = data[CurName(k)]
          BY <2>t, <3>1, <4>1
        <4>3. QED BY <1>1, <3>3, <4>2 DEF Stays
      <3>5. CASE k = zfid
        <4>1. data[CurName(k)] \subseteq data[ZipName(k)] \cup taken[ZipName(k)]
          BY <1>1, <3>1, <3>5 DEF FileInv, UnlinkInv
        <4>2. QED BY <1>1, <3>1, <3>3, <4>1 DEF Stays
      <3>6. QED BY <3>4, <3>5
    <2>6. ASSUME MoveEnd PROVE Stays(k, i)
      <3>1. /\ dnName \in Names /\ dnName.sign # "c"
            /\ \/ data' = data
               \/ /\ data' = [data EXCEPT ![dnName] = {}]
                  /\ taken' = [taken EXCEPT ![dnName] = @ \cup data[dnName]]
        BY <1>1, <2>6 DEF MoveEnd, Taken, HorizonInv, TypeInv, fileVars
      <3>2. CurName(k) # dnName
        BY <3>1 DEF CurName
      <3>3. CASE data' = data
        BY <2>1, <3>3
      <3>4. CASE /\ data' = [data EXCEPT ![dnName] = {}]
                 /\ taken' = [taken EXCEPT ![dnName] = @ \cup data[dnName]]
        <4>1. data'[CurName(k)] = data[CurName(k)]
          BY <2>t, <3>2, <3>4
        <4>2. data[ZipName(k)] \subseteq data'[ZipName(k)] \cup taken'[ZipName(k)]
          BY <2>t, <3>1, <3>4
        <4>3. QED BY <1>1, <4>1, <4>2 DEF Stays
      <3>5. QED BY <3>1, <3>3, <3>4
    <2>7. (\E h \in Headers : CopyFrame(h)) \/ TaskCmd \/ WatchReceive \/ ReadStamp \/ Roll
              => UNCHANGED data
      BY DEF CopyFrame, TaskCmd, WatchReceive, ReadStamp, Roll, fileVars
    <2>8. AlignBegin \/ AlignEnd \/ PowerCycle \/ UNCHANGED vars => UNCHANGED data
      BY DEF AlignBegin, AlignEnd, PowerCycle, vars, fileVars
    <2>9. ASSUME NEW n \in Names PROVE Skip(n) \/ ZipBegin(n) \/ MoveBegin(n) => UNCHANGED data
      BY DEF Skip, ZipBegin, MoveBegin, fileVars
    <2>10. QED
      BY <1>1, <2>1, <2>2, <2>3, <2>4, <2>5, <2>6, <2>7, <2>8, <2>9 DEF Next, Watch, Align
  <1>2. TypeInv /\ HorizonInv /\ HorizonOld /\ FileInv /\ UnlinkInv /\ [Next]_vars =>
          [\A k \in Fids : \A i \in data[CurName(k)] \cup data[ZipName(k)] :
              \/ i \in data'[CurName(k)] \cup data'[ZipName(k)]
              \/ i \in taken'[ZipName(k)]
              \/ OverAMonth(k.t, Latest.key.t)]_vars
    BY <1>1, GoneIsOverAMonth DEF Stays
  <1>3. Init => HorizonInv /\ HorizonOld /\ UnlinkInv
    BY DEF Init, HorizonInv, HorizonOld, UnlinkInv
  <1>4. QED
    BY <1>2, <1>3, TypeInit, OrderInit, RetiredInit, FileInit, TypeStep, OrderStep, HorizonStep,
       HorizonOldStep, RetiredStep, FileStep, UnlinkStep, ForwardOnly, PTL
       DEF Spec, SmKeepsFrames
====
