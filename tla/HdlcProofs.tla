----------------------------- MODULE HdlcProofs -----------------------------
(***************************************************************************)
(* What Hdlc promises of its clock crossings, its request to send, its zero *)
(* insertion and its FCS, proved for every port, every frame and every      *)
(* falsified bit.                                                           *)
(***************************************************************************)
EXTENDS Hdlc, SequenceTheorems, FiniteSetTheorems, WellFoundedInduction, TLAPS

Register(n) == [1..n -> Bit]

Fetching == {"readyLow", "closeFcs0", "closeFcs1"}
FcsStates == {"idle", "read", "wait", "closeBody", "fcs0", "fcs1"} \cup Fetching
CtlStates == {"idle", "intro", "valid", "empty2", "emptyLast"}

(* The domains of what the transmitting side decides by. *)
FcsShape ==
    /\ DOMAIN fcs = {"state", "crc", "valid", "write", "d"}
    /\ fcs.state \in FcsStates /\ fcs.valid \in Bit /\ fcs.write \in Bit
CtlShape ==
    /\ DOMAIN ctl = {"state", "cnt", "open", "seq", "latch"}
    /\ ctl.state \in CtlStates /\ ctl.cnt \in 0..8
    /\ ctl.open \in Bit /\ ctl.seq \in Bit /\ ctl.latch \in Bit
LatShape ==
    /\ DOMAIN lat = {"reg", "ready", "halt"}
    /\ lat.ready \in Bit /\ lat.halt \in Bit
FlgShape ==
    /\ DOMAIN flg = {"on", "reg", "seq", "shift", "close", "defence", "tx"}
    /\ flg.on \in Bit /\ flg.close \in 0..16 /\ flg.defence \in Bit
    /\ flg.on = 0 => flg.reg \in Register(8)
P2sShape ==
    /\ p2s.cnt \in 0..7 /\ p2s.shifting \in Bit
    /\ p2s.shifting = 0 => p2s.cnt = 0
Shapes ==
    /\ rdy \in Register(2) /\ wr \in Register(2) /\ va \in Register(2)
    /\ txEnable \in Bit /\ buff \in {"idle", "write", "read"} /\ rest \in Seq(Byte)
    /\ buff = "idle" <=> rest = <<>>
    /\ FcsShape /\ CtlShape /\ LatShape /\ FlgShape /\ P2sShape

(* At most k bits have passed since a byte was loaded. *)
Age(k) == p2s.shifting = 1 /\ p2s.cnt <= k

Working == ctl.state = "valid" \/ (ctl.state = "intro" /\ ctl.cnt > 5)
Fresh == fcs.state = "idle" /\ buff = "read"
Done == fcs.state = "idle" /\ buff = "idle"
Unasked ==
    /\ lat.ready = 0 /\ rdy[1] = 0 /\ rdy[2] = 0 /\ wr[1] = 0 /\ wr[2] = 0
    /\ fcs.state = "idle" /\ fcs.write = 0

(* The ready flops follow the latch: the first is the last to change. *)
FlopsInv == rdy[2] # lat.ready => rdy[1] # lat.ready

CtlInv ==
    /\ ctl.state = "idle" => ctl.open = 0 /\ ctl.seq = 0 /\ ctl.latch = 0
    /\ ctl.state = "intro" =>
          /\ ctl.cnt < 8 /\ ctl.seq = 0
          /\ ctl.latch = B(ctl.cnt > 4) /\ ctl.open = B(ctl.cnt > 7 - port.flag)
    /\ ctl.state = "valid" =>
          ctl.cnt \in {0, 8} /\ ctl.open = 0 /\ ctl.seq = 1 /\ ctl.latch = 1
    /\ ctl.state = "empty2" =>
          ctl.cnt \in {0, 1} /\ ctl.open = 0 /\ ctl.seq = 1 /\ ctl.latch = 0
    /\ ctl.state = "emptyLast" =>
          ctl.cnt > 0 /\ ctl.open = 0 /\ ctl.seq = 1 /\ ctl.latch = 0

(* No underrun, and so no abort. *)
AbtInv ==
    /\ DOMAIN abt = {"on", "cnt", "seq"}
    /\ lat.halt = 0 /\ abt.on = 0 /\ abt.seq = 0

(* What the flags do at each stage of the frame; "defence" is up until the   *)
(* register has run out.                                                     *)
FlgInv ==
    /\ flg.on = 1 => flg.defence = 1 /\ ctl.state # "intro"
    /\ ctl.state = "valid" => (flg.on = 1 <=> ctl.cnt = 0)
    /\ ctl.state \in {"empty2", "emptyLast"} => flg.on = 1
    /\ flg.on = 0 /\ flg.defence = 0 => flg.close = 0
    /\ flg.on = 0 /\ ctl.state = "idle" =>
          \A i \in 1..8 : i > flg.close - 8 => flg.reg[i] = 1
    /\ ctl.state = "idle" /\ buff # "idle" => flg.on = 0 /\ flg.defence = 0
    /\ ctl.state = "intro" /\ ctl.cnt > 7 - port.flag =>
          flg.defence = 1 \/ (ctl.cnt = 8 - port.flag /\ Age(1))
    /\ ctl.state = "valid" /\ port.flag > 2 => flg.defence = 1

(* How TxFcs stands to the latch that asks it for bytes. *)
FcsInv ==
    /\ fcs.state \in Fetching => fcs.write = 1
    /\ fcs.state # "idle" => fcs.valid = 1 /\ Working
    /\ fcs.state = "read" => buff = "read" /\ lat.ready = 1 /\ rdy[1] = 1
    /\ fcs.state \in Fetching /\ lat.ready = 1 => rdy[1] = 1
    /\ fcs.state \in Fetching /\ lat.ready = 0 => wr[1] = 1 /\ wr[2] = 1
    /\ fcs.state \in {"closeBody", "fcs0", "fcs1", "closeFcs0", "closeFcs1"} => buff = "idle"
    /\ lat.ready = 0 /\ rdy[1] = 1 => fcs.state \in Fetching \/ Done

(* How far TxFcs is at each stage of the frame. *)
StageInv ==
    /\ ctl.state = "idle" =>
          /\ Unasked
          /\ buff # "read" => va[1] = 0 /\ va[2] = 0 /\ fcs.valid = 0
          /\ va[1] = 1 => va[2] = 1
          /\ va[2] = 1 => fcs.valid = 1
    /\ ctl.state = "intro" /\ ctl.cnt < 6 =>
          Unasked /\ buff = "read" /\ va[1] = 1 /\ va[2] = 1 /\ fcs.valid = 1
    /\ ctl.state = "intro" /\ ctl.cnt = 6 =>
          IF lat.ready = 1 THEN Fresh \/ fcs.state \in {"read", "readyLow"}
          ELSE fcs.state \in {"readyLow", "wait", "closeBody", "fcs0"}
    /\ ctl.state = "intro" /\ ctl.cnt = 7 =>
          /\ fcs.state \notin {"idle", "closeFcs1"}
          /\ lat.ready = 1 => fcs.state # "fcs1"
    /\ ctl.state = "valid" /\ fcs.state = "idle" => Done /\ lat.ready = 0
    /\ ctl.state \in {"empty2", "emptyLast"} =>
          /\ Done /\ fcs.valid = 0 /\ fcs.write = 0
          /\ va[1] = 0 /\ va[2] = 0 /\ wr[1] = 0 /\ wr[2] = 0
    /\ ctl.state = "empty2" /\ lat.ready = 1 => Age(1)
    /\ ctl.state = "emptyLast" => Unasked
    /\ ctl.state # "idle" => txEnable = 1 /\ buff # "write"

(* The exchange with TxFcs takes five bits of the eight there are at least. *)
ExchangeInv ==
    Working =>
        \/ lat.ready = 1 /\ wr[1] = 0 /\ wr[2] = 0 /\ Age(1)
        \/ lat.ready = 1 /\ wr[1] = 0 /\ wr[2] = 1 /\ Age(2)
        \/ lat.ready = 1 /\ wr[1] = 1 /\ wr[2] = 1 /\ Age(3)
        \/ lat.ready = 0 /\ wr[1] = 1 /\ wr[2] = 1 /\ Age(4)
        \/ lat.ready = 0 /\ wr[1] = 1 /\ wr[2] = 0 /\ Age(5)
        \/ lat.ready = 0 /\ wr[1] = 0 /\ wr[2] = 0

(* "valid" is up until the last byte has been taken, and falls within that. *)
ValidInv ==
    Working =>
        /\ ~Done => va[1] = 1 /\ va[2] = 1 /\ fcs.valid = 1
        /\ Done => \/ va[1] = 1 /\ va[2] = 1 /\ Age(4)
                   \/ va[1] = 1 /\ va[2] = 0 /\ Age(5) /\ fcs.valid = 0
                   \/ va[1] = 0 /\ va[2] = 0 /\ fcs.valid = 0

(* With few opening flags, bytes in the buffer keep the request up until     *)
(* the flags do.                                                             *)
Pending == B(lat.ready = 1 /\ (fcs.state \in {"wait", "read"} \/ Fresh))
CoverInv ==
    port.flag <= 2 =>
      /\ ctl.state = "intro" /\ ctl.cnt > 4 => Len(rest) >= 9 - ctl.cnt + Pending
      /\ ctl.state = "valid" /\ ctl.cnt = 8 => Len(rest) >= 1 + Pending
      /\ buff # "idle" /\ (ctl.state = "idle" \/ (ctl.state = "intro" /\ ctl.cnt < 5)) =>
            Len(rest) >= 4

TxInv ==
    /\ Shapes /\ FlopsInv /\ CtlInv /\ AbtInv /\ FlgInv /\ FcsInv /\ StageInv
    /\ ExchangeInv /\ ValidInv /\ CoverInv

Uncut == cuts = 0 /\ Steady

(* The receiving side: a byte that is ready is read within three bits, for   *)
(* then the read flops have seen RxFcs take it.                              *)
RxInv ==
    /\ rxc.err = 0 /\ rxc.tries \in 0..3
    /\ out.avail \in Bit /\ out.ready \in Bit /\ rxc.valid \in Bit /\ rxc.status \in Bit
    /\ rdb \in Register(2) /\ rr \in Register(2) /\ rv \in Register(2)
    /\ DOMAIN rfcs = {"state", "crc", "reg", "cnt", "read", "prior", "write"}
    /\ rfcs.state \in {"idle", "run", "read", "eof1", "eof2", "eofZ"}
    /\ rfcs.read \in Bit
    /\ rxc.delay \in Register(8)
    /\ out.avail = 0 =>
          /\ out.ready = 1 /\ rxc.tries < 3
          /\ rxc.tries > 0 => rdb[2] = 1
          /\ rxc.tries > 1 => rdb[1] = 1

-----------------------------------------------------------------------------
(* Registers and records. *)

LEMMA RegisterShift ==
  ASSUME NEW n \in Nat \ {0}, NEW r \in Register(n), NEW b \in Bit
  PROVE  /\ Shift(r, b) \in Register(n)
         /\ Shift(r, b)[n] = b
         /\ \A i \in 1..(n - 1) : Shift(r, b)[i] = r[i + 1]
  <1>1. r \in Seq(Bit) /\ Len(r) = n
    BY SeqDef DEF Register
  <1>2. r # <<>>
    BY <1>1
  <1>3. /\ Tail(r) \in Seq(Bit) /\ Len(Tail(r)) = n - 1
        /\ \A i \in 1..(n - 1) : Tail(r)[i] = r[i + 1]
    BY <1>1, <1>2, HeadTailProperties
  <1>4. /\ Shift(r, b) \in Seq(Bit) /\ Len(Shift(r, b)) = n /\ Shift(r, b)[n] = b
        /\ \A i \in 1..(n - 1) : Shift(r, b)[i] = Tail(r)[i]
    BY <1>1, <1>3, AppendProperties DEF Shift
  <1>5. Shift(r, b) \in Register(n)
    BY <1>4, LenProperties DEF Register
  <1> QED
    BY <1>3, <1>4, <1>5

(* Two flops: the one behind takes the bit, the one before what that held. *)
LEMMA FlopShift ==
  ASSUME NEW r \in Register(2), NEW b \in Bit
  PROVE  Shift(r, b) \in Register(2) /\ Shift(r, b)[1] = r[2] /\ Shift(r, b)[2] = b
  BY RegisterShift

LEMMA FlopBits ==
  ASSUME NEW r \in Register(2)
  PROVE  r[1] \in Bit /\ r[2] \in Bit
  BY DEF Register

LEMMA Resets ==
  /\ <<0, 0>> \in Register(2) /\ <<0, 0>>[1] = 0 /\ <<0, 0>>[2] = 0
  /\ Ones \in Register(8) /\ \A i \in 1..8 : Ones[i] = 1
  /\ Zeros \in Register(8)
  /\ Flag \in Register(8)
  BY DEF Register, Bit, Flag, Ones, Zeros, Vector

LEMMA AllOnes ==
  ASSUME NEW r \in Register(8), \A i \in 1..8 : r[i] = 1
  PROVE  r = Ones
  BY DEF Register, Ones, Vector

(* What each process of the transmitter makes of its registers. *)

LEMMA FcsStep ==
  ASSUME FcsShape, NEW x, x = NextTxFcs
  PROVE  /\ DOMAIN x = {"state", "crc", "valid", "write", "d"}
         /\ fcs.state = "idle" =>
              /\ x.state = IF rdy[1] = 1 /\ Avail THEN "read" ELSE "idle"
              /\ x.valid = B(Avail) /\ x.write = 0
         /\ fcs.state = "read" => x.state = "readyLow" /\ x.valid = 1 /\ x.write = 1
         /\ fcs.state \in Fetching /\ rdy[1] = 1 =>
              x.state = fcs.state /\ x.valid = fcs.valid /\ x.write = fcs.write
         /\ fcs.state \in Fetching /\ rdy[1] # 1 =>
              /\ x.state = CASE fcs.state = "readyLow" -> "wait"
                             [] fcs.state = "closeFcs0" -> "fcs1"
                             [] OTHER -> "idle"
              /\ x.valid = fcs.valid /\ x.write = fcs.write
         /\ fcs.state = "wait" =>
              /\ x.state = IF ~Avail THEN "closeBody" ELSE IF rdy[1] = 1 THEN "read" ELSE "wait"
              /\ x.valid = 1 /\ x.write = 0
         /\ fcs.state = "closeBody" => x.state = "fcs0" /\ x.valid = 1 /\ x.write = 0
         /\ fcs.state = "fcs0" =>
              /\ x.state = IF rdy[1] = 1 THEN "closeFcs0" ELSE "fcs0"
              /\ x.valid = 1 /\ x.write = rdy[1]
         /\ fcs.state = "fcs1" =>
              /\ x.state = IF rdy[1] = 1 THEN "closeFcs1" ELSE "fcs1"
              /\ x.valid = 1 /\ x.write = rdy[1]
  <1> USE DEF FcsShape
  <1>1. CASE fcs.state = "idle"
    BY <1>1 DEF NextTxFcs, Fetching
  <1>2. CASE fcs.state = "read"
    BY <1>2 DEF NextTxFcs, Fetching
  <1>3. CASE fcs.state = "wait"
    <2>1. x = [fcs EXCEPT !.state = IF ~Avail THEN "closeBody" ELSE IF rdy[1] = 1 THEN "read" ELSE @,
                          !.valid = 1, !.write = 0, !.d = IF Avail THEN @ ELSE Ones]
      BY <1>3 DEF NextTxFcs
    <2> QED
      BY <1>3, <2>1 DEF Fetching
  <1>4. CASE fcs.state = "closeBody"
    BY <1>4 DEF NextTxFcs, Fetching
  <1>5. CASE fcs.state = "fcs0"
    <2>1. x = [fcs EXCEPT !.state = IF rdy[1] = 1 THEN "closeFcs0" ELSE @, !.valid = 1,
                          !.write = rdy[1], !.d = HighFcs(fcs.crc)]
      BY <1>5 DEF NextTxFcs
    <2> QED
      BY <1>5, <2>1 DEF Fetching
  <1>6. CASE fcs.state = "fcs1"
    <2>1. x = [fcs EXCEPT !.state = IF rdy[1] = 1 THEN "closeFcs1" ELSE @, !.valid = 1,
                          !.write = rdy[1], !.d = LowFcs(fcs.crc)]
      BY <1>6 DEF NextTxFcs
    <2> QED
      BY <1>6, <2>1 DEF Fetching
  <1>7. CASE fcs.state = "readyLow"
    BY <1>7 DEF NextTxFcs, Fetching
  <1>8. CASE fcs.state = "closeFcs0"
    BY <1>8 DEF NextTxFcs, Fetching
  <1>9. CASE fcs.state = "closeFcs1"
    BY <1>9 DEF NextTxFcs, Fetching
  <1> QED
    BY <1>1, <1>2, <1>3, <1>4, <1>5, <1>6, <1>7, <1>8, <1>9 DEF FcsStates, Fetching

LEMMA CtlStep ==
  ASSUME CtlShape, NEW x, x = NextCtl
  PROVE  /\ DOMAIN x = {"state", "cnt", "open", "seq", "latch"}
         /\ ctl.state = "idle" /\ va[1] = 0 =>
              /\ x.state = "idle" /\ x.cnt = ctl.cnt
              /\ x.open = 0 /\ x.seq = 0 /\ x.latch = 0
         /\ ctl.state = "idle" /\ va[1] = 1 =>
              /\ x.state = "intro" /\ x.cnt = IF port.flag < 4 THEN 4 ELSE 7 - port.flag
              /\ x.open = 0 /\ x.seq = 0 /\ x.latch = 0
         /\ ctl.state = "intro" /\ p2s.shifting # 0 => x = ctl
         /\ ctl.state = "intro" /\ p2s.shifting = 0 =>
              /\ x.state = IF ctl.cnt = 7 THEN "valid" ELSE "intro"
              /\ x.cnt = ctl.cnt + 1
              /\ x.latch = IF ctl.cnt = 4 THEN 1 ELSE ctl.latch
              /\ x.open = IF ctl.cnt = 7 THEN 0 ELSE IF ctl.cnt = OpenAt THEN 1 ELSE ctl.open
              /\ x.seq = IF ctl.cnt = 7 THEN 1 ELSE ctl.seq
         /\ ctl.state = "valid" =>
              /\ x.state = IF va[1] = 0 /\ p2s.shifting = 0 THEN "empty2" ELSE "valid"
              /\ x.latch = IF va[1] = 0 /\ p2s.shifting = 0 THEN 0 ELSE 1
              /\ x.cnt = 0 /\ x.seq = 1 /\ x.open = ctl.open
         /\ ctl.state = "empty2" =>
              /\ x.state = IF p2s.shifting = 0 /\ ctl.cnt > 0 THEN "emptyLast" ELSE "empty2"
              /\ x.cnt = IF p2s.shifting = 0 /\ ctl.cnt = 0 THEN 1 ELSE ctl.cnt
              /\ x.seq = 1 /\ x.latch = 0 /\ x.open = ctl.open
         /\ ctl.state = "emptyLast" /\ ctl.cnt < 8 =>
              /\ x.state = "emptyLast" /\ x.cnt = ctl.cnt + 1
              /\ x.seq = 1 /\ x.latch = 0 /\ x.open = ctl.open
         /\ ctl.state = "emptyLast" /\ ctl.cnt = 8 =>
              /\ x.state = "idle" /\ x.cnt = 0
              /\ x.seq = 0 /\ x.latch = 0 /\ x.open = ctl.open
  <1> USE DEF CtlShape
  <1>1. CASE ctl.state = "idle"
    BY <1>1 DEF NextCtl
  <1>2. CASE ctl.state = "intro"
    BY <1>2 DEF NextCtl
  <1>3. CASE ctl.state = "valid"
    <2>1. x = [ctl EXCEPT !.state = IF va[1] = 0 /\ p2s.shifting = 0 THEN "empty2" ELSE @, !.seq = 1,
                          !.latch = B(~(va[1] = 0 /\ p2s.shifting = 0)), !.cnt = 0]
      BY <1>3 DEF NextCtl
    <2> QED
      BY <1>3, <2>1 DEF B
  <1>4. CASE ctl.state = "empty2"
    <2>1. x = [ctl EXCEPT !.state = IF p2s.shifting = 0 /\ ctl.cnt > 0 THEN "emptyLast" ELSE @,
                        !.cnt = IF p2s.shifting = 0 /\ @ = 0 THEN 1 ELSE @, !.seq = 1, !.latch = 0]
      BY <1>4 DEF NextCtl
    <2> QED
      BY <1>4, <2>1
  <1>5. CASE ctl.state = "emptyLast" /\ ctl.cnt < 8
    BY <1>5 DEF NextCtl
  <1>6. CASE ctl.state = "emptyLast" /\ ctl.cnt = 8
    <2>1. x = [ctl EXCEPT !.state = "idle", !.cnt = 0, !.seq = 0, !.latch = 0]
      BY <1>6 DEF NextCtl
    <2> QED
      BY <1>6, <2>1
  <1> QED
    BY <1>1, <1>2, <1>3, <1>4, <1>5, <1>6 DEF CtlStates

(* After a load seven bits at least pass before the next. *)
LEMMA P2sStep ==
  ASSUME P2sShape, p2s' = NextP2s
  PROVE  /\ P2sShape'
         /\ p2s.shifting = 0 => Age(1)'
         /\ Age(1) => Age(2)'
         /\ Age(2) => Age(3)'
         /\ Age(3) => Age(4)'
         /\ Age(4) => Age(5)'
         /\ Age(5) => Age(6)'
  <1>1. PICK c \in {p2s.cnt, p2s.cnt + 1} : p2s'.cnt = c % 8 /\ p2s'.shifting = B(c # 8)
    BY DEF NextP2s
  <1>2. p2s.cnt \in 0..7 /\ p2s.shifting \in Bit /\ (p2s.shifting = 0 => p2s.cnt = 0)
    BY DEF P2sShape
  <1>3. CASE c = 8
    <2>1. p2s'.cnt = 0 /\ p2s'.shifting = 0 /\ p2s.cnt = 7
      BY <1>1, <1>2, <1>3 DEF B
    <2> QED
      BY <1>2, <2>1 DEF P2sShape, Age, Bit
  <1>4. CASE c # 8
    <2>1. c \in 0..7 /\ c % 8 = c
      BY <1>1, <1>2, <1>4
    <2>2. p2s'.cnt = c /\ p2s'.shifting = 1
      BY <1>1, <1>4, <2>1 DEF B
    <2> QED
      BY <1>1, <1>2, <2>1, <2>2 DEF P2sShape, Age, Bit
  <1> QED
    BY <1>3, <1>4

LEMMA LatStep ==
  ASSUME LatShape, NEW x, x = NextLat, ctl.latch \in Bit, wr[1] \in Bit
  PROVE  /\ DOMAIN x = {"reg", "ready", "halt"}
         /\ ctl.latch = 0 => x.ready = 0 /\ x.halt = 0
         /\ ctl.latch = 1 /\ lat.ready = 0 =>
              x.ready = (IF p2s.shifting = 0 THEN 1 ELSE 0) /\ x.halt = lat.halt
         /\ ctl.latch = 1 /\ lat.ready = 1 /\ wr[1] = 1 => x.ready = 0 /\ x.halt = lat.halt
         /\ ctl.latch = 1 /\ lat.ready = 1 /\ wr[1] = 0 /\ p2s.shifting # 0 =>
              x.ready = 1 /\ x.halt = lat.halt
  <1> USE DEF LatShape, Bit
  <1>1. CASE ctl.latch = 0
    BY <1>1 DEF NextLat
  <1>2. CASE ctl.latch = 1 /\ lat.ready = 0
    BY <1>2 DEF NextLat
  <1>3. CASE ctl.latch = 1 /\ lat.ready = 1 /\ wr[1] = 1
    BY <1>3 DEF NextLat
  <1>4. CASE ctl.latch = 1 /\ lat.ready = 1 /\ wr[1] = 0
    BY <1>4 DEF NextLat
  <1> QED
    BY <1>1, <1>2, <1>3, <1>4

LEMMA FlgStep ==
  ASSUME FlgShape, AbtInv, NEW x, x = NextFlg, ctl.open \in Bit, ctl.seq \in Bit
  PROVE  /\ DOMAIN x = {"on", "reg", "seq", "shift", "close", "defence", "tx"}
         /\ flg.on = 0 /\ ctl.seq = 0 /\ ctl.open = 0 =>
              /\ x.on = 0 /\ x.reg = Shift(flg.reg, 1)
              /\ x.defence = IF flg.close = 0 THEN 0 ELSE flg.defence
              /\ x.close = IF flg.close = 0 THEN 0 ELSE flg.close - 1
         /\ flg.on = 0 /\ ctl.seq = 0 /\ ctl.open = 1 =>
              x.on = 0 /\ x.reg = flg.reg /\ x.defence = 1 /\ x.close = flg.close
         /\ flg.on = 0 /\ ctl.seq = 1 => x.on = 1 /\ x.defence = 1 /\ x.close = flg.close
         /\ flg.on = 1 /\ ctl.seq = 0 =>
              x.on = 0 /\ x.reg = Flag /\ x.close = 16 /\ x.defence = flg.defence
         /\ flg.on = 1 /\ ctl.seq = 1 =>
              x.on = 1 /\ x.close = flg.close /\ x.defence = flg.defence
  <1> USE DEF FlgShape, AbtInv, Bit
  <1>1. CASE flg.on = 0 /\ ctl.seq = 0 /\ ctl.open = 0
    <2>1. x = Resting
      BY <1>1 DEF NextFlg
    <2> QED
      BY <1>1, <2>1 DEF Resting
  <1>2. CASE flg.on = 0 /\ ctl.seq = 0 /\ ctl.open = 1
    <2>1. x = Opened
      BY <1>2 DEF NextFlg
    <2> QED
      BY <1>2, <2>1 DEF Opened
  <1>3. CASE flg.on = 0 /\ ctl.seq = 1
    <2>1. CASE ctl.open = 1
      <3>1. x = [Opened EXCEPT !.on = 1, !.reg = Flag, !.tx = IF Opened.seq = 1 THEN 0 ELSE @,
                               !.seq = 0, !.defence = 1]
        BY <1>3, <2>1 DEF NextFlg
      <3>2. DOMAIN Opened = DOMAIN flg /\ Opened.close = flg.close
        BY DEF Opened
      <3> QED
        BY <1>3, <3>1, <3>2
    <2>2. CASE ctl.open = 0
      <3>1. x = [flg EXCEPT !.on = 1, !.reg = Flag, !.tx = IF flg.seq = 1 THEN 0 ELSE @,
                            !.seq = 0, !.defence = 1]
        BY <1>3, <2>2 DEF NextFlg
      <3> QED
        BY <1>3, <3>1
    <2> QED
      BY <2>1, <2>2
  <1>4. CASE flg.on = 1 /\ ctl.seq = 0
    <2>1. x = [[flg EXCEPT !.on = 0, !.tx = flg.reg[1], !.close = 16] EXCEPT !.reg = Flag]
      BY <1>4 DEF NextFlg
    <2> QED
      BY <1>4, <2>1
  <1>5. CASE flg.on = 1 /\ ctl.seq = 1
    <2>1. x = [flg EXCEPT !.tx = flg.reg[1], !.reg = Shift(@, p2s.out[1])]
      BY <1>5 DEF NextFlg
    <2> QED
      BY <1>5, <2>1
  <1> QED
    BY <1>1, <1>2, <1>3, <1>4, <1>5

(* When the system side has come to rest, TxFcs has answered the latch, or   *)
(* waits for it.                                                             *)
LEMMA SettledFcs ==
  ASSUME Shapes, FcsInv, Settled
  PROVE  /\ rdy[1] = lat.ready /\ rdy[2] = lat.ready
         /\ lat.ready = 1 =>
              \/ fcs.state \in Fetching /\ fcs.write = 1 /\ fcs.valid = 1
              \/ fcs.state = "idle" /\ buff # "read" /\ fcs.write = 0 /\ fcs.valid = 0
         /\ lat.ready = 0 =>
              /\ fcs.write = 0
              /\ \/ fcs.state = "idle" /\ fcs.valid = B(buff = "read")
                 \/ fcs.state = "wait" /\ buff = "read" /\ fcs.valid = 1
                 \/ fcs.state \in {"fcs0", "fcs1"} /\ fcs.valid = 1
  <1>1. rdy[1] = lat.ready /\ rdy[2] = lat.ready
    <2>1. rdy = Shift(rdy, lat.ready)
      BY DEF Settled
    <2>2. Shift(rdy, lat.ready)[1] = rdy[2] /\ Shift(rdy, lat.ready)[2] = lat.ready
      BY FlopShift DEF Shapes, LatShape
    <2> QED
      BY <2>1, <2>2
  <1>2. FcsShape /\ fcs = NextTxFcs /\ lat.ready \in Bit
    BY DEF Settled, Shapes, LatShape
  <1>3. CASE fcs.state = "idle"
    BY <1>1, <1>2, <1>3, FcsStep DEF Avail, B, Bit
  <1>4. CASE fcs.state \in Fetching
    BY <1>1, <1>2, <1>4, FcsStep DEF Fetching, FcsInv, Bit
  <1>5. CASE fcs.state \in {"read", "closeBody"}
    BY <1>1, <1>2, <1>5, FcsStep
  <1>6. CASE fcs.state = "wait"
    BY <1>1, <1>2, <1>6, FcsStep DEF Avail, Bit
  <1>7. CASE fcs.state \in {"fcs0", "fcs1"}
    BY <1>1, <1>2, <1>7, FcsStep DEF Bit
  <1> QED
    BY <1>2, <1>3, <1>4, <1>5, <1>6, <1>7 DEF FcsShape, FcsStates

(* A step of the system clock. *)
LEMMA SystemKeeps ==
  ASSUME TxInv, SystemClock, port.flag \in 0..7
  PROVE  TxInv'
  <1>0. /\ UNCHANGED <<port, txEnable, wr, va, abt, ctl, p2s, lat, flg>>
        /\ fcs' = NextTxFcs /\ rdy' = Shift(rdy, lat.ready)
        /\ rest' = IF fcs.state = "read" THEN Tail(rest) ELSE rest
        /\ buff' = IF fcs.state = "read" /\ Len(rest) = 1 THEN "idle" ELSE buff
    BY DEF SystemClock, slow
  <1>1. Shapes /\ FlopsInv /\ CtlInv /\ AbtInv /\ FlgInv /\ FcsInv /\ StageInv /\ ExchangeInv /\ ValidInv /\ CoverInv
    BY DEF TxInv
  <1>2. lat.ready \in Bit /\ fcs.state \in FcsStates /\ ctl.state \in CtlStates /\ ctl.cnt \in 0..8
    BY <1>1 DEF Shapes, LatShape, FcsShape, CtlShape
  <1>3. rdy' \in Register(2) /\ rdy'[1] = rdy[2] /\ rdy'[2] = lat.ready
    BY <1>0, <1>1, <1>2, FlopShift DEF Shapes
  <1>4. rdy[1] \in Bit /\ rdy[2] \in Bit
    BY <1>1, FlopBits DEF Shapes
  <1>5. fcs.state = "read" =>
          /\ rest # <<>> /\ rest' \in Seq(Byte) /\ Len(rest') = Len(rest) - 1
          /\ buff = "read" /\ buff' \in {"idle", "read"} /\ (buff' = "idle" <=> rest' = <<>>)
    <2> SUFFICES ASSUME fcs.state = "read"
                 PROVE  /\ rest # <<>> /\ rest' \in Seq(Byte) /\ Len(rest') = Len(rest) - 1
                        /\ buff = "read" /\ buff' \in {"idle", "read"} /\ (buff' = "idle" <=> rest' = <<>>)
      OBVIOUS
    <2>1. rest \in Seq(Byte) /\ rest # <<>> /\ buff = "read"
      BY <1>1 DEF Shapes, FcsInv
    <2>2. rest' \in Seq(Byte) /\ Len(rest') = Len(rest) - 1
      BY <1>0, <2>1, HeadTailProperties
    <2>3. rest' = <<>> <=> Len(rest) = 1
      BY <2>1, <2>2, EmptySeq, LenProperties
    <2> QED
      BY <1>0, <2>1, <2>2, <2>3
  <1>6. rest \in Seq(Byte) /\ Len(rest) \in Nat /\ buff \in {"idle", "write", "read"}
    BY <1>1, LenProperties DEF Shapes
  <1>7. fcs.state # "read" => rest' = rest /\ buff' = buff
    BY <1>0
  <1>8. /\ DOMAIN fcs' = {"state", "crc", "valid", "write", "d"}
        /\ fcs'.state \in FcsStates /\ fcs'.valid \in Bit /\ fcs'.write \in Bit
    <2>1. FcsShape
      BY <1>1 DEF Shapes
    <2> QED
      BY <1>0, <1>2, <1>4, <2>1, FcsStep DEF FcsShape, FcsStates, Fetching, B, Bit
  <1>9. Shapes'
    BY <1>0, <1>1, <1>3, <1>5, <1>7, <1>8 DEF Shapes, FcsShape, CtlShape, LatShape, FlgShape, P2sShape
  <1>10. /\ fcs.state = "idle" =>
              /\ fcs'.state = IF rdy[1] = 1 /\ buff = "read" THEN "read" ELSE "idle"
              /\ fcs'.valid = B(buff = "read") /\ fcs'.write = 0
         /\ fcs.state = "read" => fcs'.state = "readyLow" /\ fcs'.valid = 1 /\ fcs'.write = 1
         /\ fcs.state \in Fetching /\ rdy[1] = 1 =>
              fcs'.state = fcs.state /\ fcs'.valid = fcs.valid /\ fcs'.write = fcs.write
         /\ fcs.state \in Fetching /\ rdy[1] = 0 =>
              /\ fcs'.state = CASE fcs.state = "readyLow" -> "wait"
                             [] fcs.state = "closeFcs0" -> "fcs1"
                             [] OTHER -> "idle"
              /\ fcs'.valid = fcs.valid /\ fcs'.write = fcs.write
         /\ fcs.state = "wait" =>
              /\ fcs'.state = IF buff # "read" THEN "closeBody" ELSE IF rdy[1] = 1 THEN "read" ELSE "wait"
              /\ fcs'.valid = 1 /\ fcs'.write = 0
         /\ fcs.state = "closeBody" => fcs'.state = "fcs0" /\ fcs'.valid = 1 /\ fcs'.write = 0
         /\ fcs.state = "fcs0" =>
              /\ fcs'.state = IF rdy[1] = 1 THEN "closeFcs0" ELSE "fcs0"
              /\ fcs'.valid = 1 /\ fcs'.write = rdy[1]
         /\ fcs.state = "fcs1" =>
              /\ fcs'.state = IF rdy[1] = 1 THEN "closeFcs1" ELSE "fcs1"
              /\ fcs'.valid = 1 /\ fcs'.write = rdy[1]
    <2>1. FcsShape
      BY <1>1 DEF Shapes
    <2> QED
      BY <1>0, <2>1, FcsStep DEF Avail
  <1>11. FlopsInv'
    BY <1>0, <1>1, <1>3, <1>4 DEF FlopsInv
  <1>12. CtlInv' /\ AbtInv'
    BY <1>0, <1>1 DEF CtlInv, AbtInv
  <1>13. Working' = Working /\ \A k : Age(k)' <=> Age(k)
    BY <1>0 DEF Working, Age
  (* Nothing is fetched unless the latch asks for it in the midst of a frame. *)
  <1>14. rdy[1] = 1 /\ fcs.state # "idle" /\ fcs.state \notin Fetching => lat.ready = 1
    BY <1>1, <1>2 DEF FcsInv, Done, Bit
  <1>15. rdy[1] = 1 /\ Fresh => lat.ready = 1 /\ Working
    BY <1>1, <1>2, <1>4 DEF FcsInv, StageInv, Done, Fresh, Working, Unasked, Bit, Fetching, CtlStates
  <1>16. FcsInv'
    <2>1. CASE fcs.state = "idle"
      BY <1>0, <1>1, <1>2, <1>3, <1>4, <1>7, <1>10, <1>13, <1>15, <2>1
      DEF FcsInv, FlopsInv, Fetching, Done, Fresh, B, Bit
    <2>2. CASE fcs.state = "read"
      BY <1>0, <1>1, <1>2, <1>3, <1>4, <1>5, <1>10, <1>13, <2>2
      DEF FcsInv, FlopsInv, Fetching, Done, Bit
    <2>3. CASE fcs.state \in Fetching /\ rdy[1] = 1
      BY <1>0, <1>1, <1>2, <1>3, <1>4, <1>7, <1>10, <1>13, <2>3
      DEF FcsInv, FlopsInv, Fetching, Done, Bit
    <2>4. CASE fcs.state \in Fetching /\ rdy[1] = 0
      BY <1>0, <1>1, <1>2, <1>3, <1>4, <1>7, <1>10, <1>13, <2>4
      DEF FcsInv, FlopsInv, Fetching, Done, Bit
    <2>5. CASE fcs.state = "wait"
      <3>1. buff # "write"
        BY <1>1, <1>2, <2>5 DEF FcsInv, StageInv, Working
      <3> QED
        BY <1>0, <1>1, <1>2, <1>3, <1>4, <1>6, <1>7, <1>10, <1>13, <1>14, <2>5, <3>1
        DEF FcsInv, FlopsInv, Fetching, Done, Bit
    <2>6. CASE fcs.state \in {"closeBody", "fcs0", "fcs1"}
      BY <1>0, <1>1, <1>2, <1>3, <1>4, <1>7, <1>10, <1>13, <1>14, <2>6
      DEF FcsInv, FlopsInv, Fetching, Done, Bit
    <2> QED
      BY <1>2, <1>4, <2>1, <2>2, <2>3, <2>4, <2>5, <2>6 DEF FcsStates, Bit
  <1>17. FlgInv'
    <2>1. ctl.state = "idle" => buff' = buff
      BY <1>1, <1>7 DEF StageInv, Unasked
    <2> QED
      BY <1>0, <1>1, <1>13, <2>1 DEF FlgInv
  <1>18. StageInv'
    <2>1. CASE ctl.state = "idle"
      BY <1>0, <1>1, <1>3, <1>4, <1>7, <1>10, <2>1 DEF StageInv, Unasked, B
    <2>2. CASE ctl.state = "intro" /\ ctl.cnt < 6
      BY <1>0, <1>1, <1>2, <1>3, <1>4, <1>7, <1>10, <2>2 DEF StageInv, Unasked, B
    <2>3. CASE ctl.state = "intro" /\ ctl.cnt = 6
      <3>1. buff # "write" /\ buff' # "write" /\ txEnable = 1
        BY <1>1, <1>2, <1>5, <1>7, <2>3 DEF StageInv
      <3>2. CASE lat.ready = 1
        BY <1>0, <1>1, <1>2, <1>3, <1>4, <1>7, <1>10, <2>3, <3>1, <3>2 DEF StageInv, FcsInv, Fetching, Fresh
      <3>3. CASE lat.ready = 0
        BY <1>0, <1>1, <1>2, <1>3, <1>4, <1>7, <1>10, <1>14, <2>3, <3>1, <3>3 DEF StageInv, FcsInv, Fetching, Bit, Done
      <3> QED
        BY <1>2, <3>2, <3>3 DEF Bit
    <2>4. CASE ctl.state = "intro" /\ ctl.cnt = 7
      <3>1. buff # "write" /\ buff' # "write" /\ txEnable = 1
        BY <1>1, <1>2, <1>5, <1>7, <2>4 DEF StageInv
      <3>2. fcs.state \notin {"idle", "closeFcs1"} /\ (lat.ready = 1 => fcs.state # "fcs1")
        BY <1>1, <2>4 DEF StageInv
      <3>3. fcs'.state \notin {"idle", "closeFcs1"} /\ (lat.ready = 1 => fcs'.state # "fcs1")
        BY <1>1, <1>2, <1>4, <1>10, <1>14, <3>2 DEF FcsInv, FcsStates, Fetching, Bit
      <3> QED
        BY <1>0, <2>4, <3>1, <3>3 DEF StageInv
    <2>5. CASE ctl.state = "valid"
      <3>1. buff # "write" /\ buff' # "write" /\ txEnable = 1
        BY <1>1, <1>2, <1>5, <1>7, <2>5 DEF StageInv
      <3>2. fcs'.state = "idle" => Done' /\ lat.ready = 0
        BY <1>1, <1>2, <1>4, <1>7, <1>10, <2>5 DEF FcsInv, StageInv, FcsStates, Fetching, Done, Bit
      <3> QED
        BY <1>0, <2>5, <3>1, <3>2 DEF StageInv
    <2>6. CASE ctl.state \in {"empty2", "emptyLast"}
      BY <1>0, <1>1, <1>3, <1>4, <1>7, <1>10, <1>13, <2>6 DEF StageInv, Unasked, Done, B
    <2> QED
      BY <1>1, <1>2, <2>1, <2>2, <2>3, <2>4, <2>5, <2>6 DEF CtlStates, CtlInv
  <1>19. ExchangeInv'
    BY <1>0, <1>1, <1>13 DEF ExchangeInv
  <1>20. ValidInv'
    <2> SUFFICES ASSUME Working
                 PROVE  /\ ~Done' => va[1] = 1 /\ va[2] = 1 /\ fcs'.valid = 1
                        /\ Done' => \/ va[1] = 1 /\ va[2] = 1 /\ Age(4)
                                    \/ va[1] = 1 /\ va[2] = 0 /\ Age(5) /\ fcs'.valid = 0
                                    \/ va[1] = 0 /\ va[2] = 0 /\ fcs'.valid = 0
      BY <1>0, <1>13 DEF ValidInv
    <2>1. CASE Done
      BY <1>1, <1>7, <1>10, <2>1 DEF ValidInv, Done, B
    <2>2. CASE ~Done /\ fcs'.state # "idle"
      BY <1>1, <1>16, <2>2 DEF ValidInv, Done, FcsInv
    <2>3. CASE ~Done /\ fcs.state = "idle" /\ fcs'.state = "idle"
      BY <1>1, <1>2, <1>7, <1>10, <2>3 DEF ValidInv, Done, B, Fresh, StageInv, Working, CtlInv
    <2>4. CASE fcs.state # "idle" /\ fcs'.state = "idle"
      <3>1. fcs.state = "closeFcs1" /\ rdy[1] = 0 /\ lat.ready = 0
        BY <1>1, <1>2, <1>4, <1>10, <2>4 DEF FcsInv, FcsStates, Fetching, Bit
      <3>2. buff' = "idle" /\ wr[1] = 1 /\ wr[2] = 1
        BY <1>1, <1>7, <3>1 DEF FcsInv, Fetching, Shapes
      <3> QED
        BY <1>1, <2>4, <3>1, <3>2 DEF ValidInv, ExchangeInv, Done, Age
    <2> QED
      BY <2>1, <2>2, <2>3, <2>4
  <1>21. CoverInv'
    <2>1. Len(rest') \in Nat
      BY <1>5, <1>6, <1>7
    <2>2. Len(rest') >= Len(rest) - 1 /\ (Len(rest') = Len(rest) - 1 => fcs.state = "read")
      BY <1>5, <1>6, <1>7
    <2>3. Len(rest') - Pending' >= Len(rest) - Pending
      <3>1. CASE fcs.state = "read"
        BY <1>0, <1>1, <1>2, <1>5, <1>6, <1>10, <3>1 DEF Pending, FcsInv, Fresh, B
      <3>2. CASE fcs.state # "read"
        <4>1. lat.ready = 1 /\ (fcs'.state \in {"wait", "read"} \/ Fresh') => fcs.state = "wait" \/ Fresh
          BY <1>1, <1>2, <1>4, <1>7, <1>10, <3>2 DEF FcsInv, FcsStates, Fetching, Fresh, Bit
        <4> QED
          BY <1>0, <1>6, <1>7, <3>2, <4>1 DEF Pending, B
      <3> QED
        BY <3>1, <3>2
    <2>4. (ctl.state = "idle" \/ (ctl.state = "intro" /\ ctl.cnt < 5)) => buff' = buff /\ rest' = rest
      BY <1>1, <1>2, <1>7 DEF StageInv, Unasked
    <2>5. Pending \in 0..1 /\ Pending' \in 0..1
      BY DEF Pending, B
    <2> QED
      BY <1>0, <1>1, <1>2, <1>6, <2>1, <2>3, <2>4, <2>5 DEF CoverInv
  <1> QED
    BY <1>9, <1>11, <1>12, <1>16, <1>17, <1>18, <1>19, <1>20, <1>21 DEF TxInv

(* What one tick of the bit clock does while the transmitter is enabled. *)
LEMMA BitFacts ==
  ASSUME TxInv, BitClock, port.flag \in 0..7
  PROVE  /\ UNCHANGED <<port, txEnable, fcs, rdy, buff, rest>>
         /\ wr' \in Register(2) /\ wr'[1] = wr[2] /\ wr'[2] = fcs.write
         /\ va' \in Register(2) /\ va'[1] = va[2] /\ va'[2] = fcs.valid
         /\ txEnable = 1 =>
              /\ ctl' = NextCtl /\ p2s' = NextP2s /\ flg' = NextFlg
              /\ DOMAIN abt' = {"on", "cnt", "seq"} /\ abt'.on = 0 /\ abt'.seq = 0
              /\ LatShape' /\ lat'.halt = 0
              /\ ctl.latch = 0 => lat'.ready = 0
              /\ ctl.latch = 1 /\ lat.ready = 0 => lat'.ready = IF p2s.shifting = 0 THEN 1 ELSE 0
              /\ ctl.latch = 1 /\ lat.ready = 1 => lat'.ready = 1 - wr[1]
         /\ txEnable = 0 =>
              /\ UNCHANGED <<abt, ctl, p2s, lat>>
              /\ flg' = [flg EXCEPT !.tx = 1]
  <1>1. Shapes /\ CtlInv /\ AbtInv /\ StageInv /\ ExchangeInv /\ FcsShape /\ LatShape
    BY DEF TxInv, Shapes
  <1>2. UNCHANGED <<port, txEnable, fcs, rdy, buff, rest>>
    BY DEF BitClock, fast
  <1>3. wr' = Shift(wr, fcs.write) /\ va' = Shift(va, fcs.valid)
    BY DEF BitClock
  <1>4. wr' \in Register(2) /\ wr'[1] = wr[2] /\ wr'[2] = fcs.write
    BY <1>1, <1>3, FlopShift DEF Shapes, FcsShape
  <1>5. va' \in Register(2) /\ va'[1] = va[2] /\ va'[2] = fcs.valid
    BY <1>1, <1>3, FlopShift DEF Shapes, FcsShape
  <1>6. ASSUME txEnable = 1
        PROVE  /\ ctl' = NextCtl /\ p2s' = NextP2s /\ flg' = NextFlg
               /\ abt' = NextAbt /\ lat' = NextLat
    BY <1>6 DEF BitClock, Enabled
  <1>7. ASSUME txEnable = 1
        PROVE  DOMAIN abt' = {"on", "cnt", "seq"} /\ abt'.on = 0 /\ abt'.seq = 0
    BY <1>1, <1>6, <1>7 DEF AbtInv, NextAbt
  <1>8. ctl.latch = 1 /\ lat.ready = 1 => p2s.shifting = 1
    BY <1>1 DEF CtlInv, StageInv, ExchangeInv, Working, Unasked, Age, Shapes, CtlShape, CtlStates
  <1>9. ASSUME txEnable = 1
        PROVE  /\ LatShape' /\ lat'.halt = 0
               /\ ctl.latch = 0 => lat'.ready = 0
               /\ ctl.latch = 1 /\ lat.ready = 0 => lat'.ready = IF p2s.shifting = 0 THEN 1 ELSE 0
               /\ ctl.latch = 1 /\ lat.ready = 1 => lat'.ready = 1 - wr[1]
    <2>1. lat' = NextLat /\ ctl.latch \in Bit /\ wr[1] \in Bit /\ lat.halt = 0
      BY <1>1, <1>6, <1>9, FlopBits DEF Shapes, CtlShape, AbtInv
    <2> QED
      BY <1>1, <1>8, <2>1, LatStep DEF LatShape, Bit
  <1>10. ASSUME txEnable = 0
         PROVE  UNCHANGED <<abt, ctl, p2s, lat>> /\ flg' = [flg EXCEPT !.tx = 1]
    BY <1>10 DEF BitClock, Enabled
  <1> QED
    BY <1>2, <1>4, <1>5, <1>6, <1>7, <1>9, <1>10

(* A disabled transmitter stands still, but for the flops. *)
LEMMA BitDisabled ==
  ASSUME TxInv, BitClock, port.flag \in 0..7, txEnable = 0
  PROVE  TxInv'
  <1>1. /\ Shapes /\ FlopsInv /\ CtlInv /\ AbtInv /\ FlgInv /\ FcsInv /\ StageInv
        /\ ExchangeInv /\ ValidInv /\ CoverInv
    BY DEF TxInv
  <1>2. /\ UNCHANGED <<port, txEnable, fcs, rdy, buff, rest, abt, ctl, p2s, lat>>
        /\ flg' = [flg EXCEPT !.tx = 1]
        /\ wr' \in Register(2) /\ wr'[1] = wr[2] /\ wr'[2] = fcs.write
        /\ va' \in Register(2) /\ va'[1] = va[2] /\ va'[2] = fcs.valid
    BY BitFacts
  <1>3. ctl.state = "idle"
    BY <1>1 DEF StageInv
  <1>4. /\ DOMAIN flg' = DOMAIN flg /\ flg'.on = flg.on /\ flg'.reg = flg.reg
        /\ flg'.close = flg.close /\ flg'.defence = flg.defence
    BY <1>1, <1>2 DEF Shapes, FlgShape
  <1>5. Shapes'
    BY <1>1, <1>2, <1>4 DEF Shapes, FcsShape, CtlShape, LatShape, FlgShape, P2sShape
  <1>6. FlopsInv' /\ CtlInv' /\ AbtInv' /\ CoverInv'
    BY <1>1, <1>2 DEF FlopsInv, CtlInv, AbtInv, CoverInv, Pending, Fresh
  <1>7. FlgInv'
    BY <1>1, <1>2, <1>3, <1>4 DEF FlgInv
  <1>8. FcsInv'
    BY <1>1, <1>2, <1>3 DEF FcsInv, StageInv, Unasked, Done, Working, Fetching
  <1>9. StageInv'
    BY <1>1, <1>2, <1>3 DEF StageInv, Unasked, B
  <1>10. ExchangeInv' /\ ValidInv'
    BY <1>2, <1>3 DEF ExchangeInv, ValidInv, Working
  <1> QED
    BY <1>5, <1>6, <1>7, <1>8, <1>9, <1>10 DEF TxInv

(* A tick of the enabled transmitter. *)
LEMMA BitEnabled ==
  ASSUME TxInv, BitClock, port.flag \in 0..7, txEnable = 1
  PROVE  TxInv'
  <1>1. /\ Shapes /\ FlopsInv /\ CtlInv /\ AbtInv /\ FlgInv /\ FcsInv /\ StageInv
        /\ ExchangeInv /\ ValidInv /\ CoverInv
    BY DEF TxInv
  <1>2. /\ UNCHANGED <<port, txEnable, fcs, rdy, buff, rest>>
        /\ wr' \in Register(2) /\ wr'[1] = wr[2] /\ wr'[2] = fcs.write
        /\ va' \in Register(2) /\ va'[1] = va[2] /\ va'[2] = fcs.valid
        /\ ctl' = NextCtl /\ p2s' = NextP2s /\ flg' = NextFlg
        /\ DOMAIN abt' = {"on", "cnt", "seq"} /\ abt'.on = 0 /\ abt'.seq = 0
        /\ LatShape' /\ lat'.halt = 0
        /\ ctl.latch = 0 => lat'.ready = 0
        /\ ctl.latch = 1 /\ lat.ready = 0 => lat'.ready = IF p2s.shifting = 0 THEN 1 ELSE 0
        /\ ctl.latch = 1 /\ lat.ready = 1 => lat'.ready = 1 - wr[1]
    BY BitFacts
  <1>3. /\ CtlShape /\ FlgShape /\ P2sShape /\ lat.ready \in Bit /\ lat'.ready \in Bit
        /\ ctl.state \in CtlStates /\ ctl.cnt \in 0..8
        /\ ctl.open \in Bit /\ ctl.seq \in Bit /\ ctl.latch \in Bit
        /\ flg.on \in Bit /\ flg.close \in 0..16 /\ flg.defence \in Bit
        /\ p2s.cnt \in 0..7 /\ p2s.shifting \in Bit
        /\ fcs.state \in FcsStates /\ fcs.valid \in Bit /\ fcs.write \in Bit
    BY <1>1, <1>2 DEF Shapes, CtlShape, FlgShape, P2sShape, LatShape, FcsShape
  <1>4. wr[1] \in Bit /\ wr[2] \in Bit /\ va[1] \in Bit /\ va[2] \in Bit
    BY <1>1, FlopBits DEF Shapes
  <1>5. /\ rdy[1] = lat.ready /\ rdy[2] = lat.ready
        /\ lat.ready = 1 =>
             \/ fcs.state \in Fetching /\ fcs.write = 1 /\ fcs.valid = 1
             \/ fcs.state = "idle" /\ buff # "read" /\ fcs.write = 0 /\ fcs.valid = 0
        /\ lat.ready = 0 =>
             /\ fcs.write = 0
             /\ \/ fcs.state = "idle" /\ fcs.valid = B(buff = "read")
                \/ fcs.state = "wait" /\ buff = "read" /\ fcs.valid = 1
                \/ fcs.state \in {"fcs0", "fcs1"} /\ fcs.valid = 1
    BY <1>1, SettledFcs DEF BitClock
  <1>6. /\ P2sShape'
        /\ p2s.shifting = 0 => Age(1)'
        /\ Age(1) => Age(2)'
        /\ Age(2) => Age(3)'
        /\ Age(3) => Age(4)'
        /\ Age(4) => Age(5)'
        /\ Age(5) => Age(6)'
    BY <1>2, <1>3, P2sStep
  <1>7. p2s.shifting = 0 => \A k : ~Age(k)
    BY DEF Age
  <1>8. FlopsInv' /\ AbtInv'
    BY <1>2, <1>3, <1>5 DEF FlopsInv, AbtInv, Bit
  (* the flags *)
  <1>9. /\ DOMAIN flg' = {"on", "reg", "seq", "shift", "close", "defence", "tx"}
        /\ flg.on = 0 /\ ctl.seq = 0 /\ ctl.open = 0 =>
              /\ flg'.on = 0 /\ flg'.reg = Shift(flg.reg, 1)
              /\ flg'.defence = IF flg.close = 0 THEN 0 ELSE flg.defence
              /\ flg'.close = IF flg.close = 0 THEN 0 ELSE flg.close - 1
        /\ flg.on = 0 /\ ctl.seq = 0 /\ ctl.open = 1 =>
              flg'.on = 0 /\ flg'.reg = flg.reg /\ flg'.defence = 1 /\ flg'.close = flg.close
        /\ flg.on = 0 /\ ctl.seq = 1 => flg'.on = 1 /\ flg'.defence = 1 /\ flg'.close = flg.close
        /\ flg.on = 1 /\ ctl.seq = 0 =>
              flg'.on = 0 /\ flg'.reg = Flag /\ flg'.close = 16 /\ flg'.defence = flg.defence
        /\ flg.on = 1 /\ ctl.seq = 1 =>
              flg'.on = 1 /\ flg'.close = flg.close /\ flg'.defence = flg.defence
    BY <1>1, <1>2, <1>3, FlgStep
  <1>10. flg.on = 0 =>
           /\ flg.reg \in Register(8) /\ Shift(flg.reg, 1) \in Register(8)
           /\ Shift(flg.reg, 1)[8] = 1
           /\ \A i \in 1..7 : Shift(flg.reg, 1)[i] = flg.reg[i + 1]
    BY <1>3, RegisterShift DEF FlgShape, Bit
  <1>11. FlgShape'
    <2>1. flg'.on = 0 => flg'.reg \in Register(8)
      BY <1>3, <1>9, <1>10, Resets DEF Bit
    <2>2. flg'.on \in Bit /\ flg'.close \in 0..16 /\ flg'.defence \in Bit
      BY <1>3, <1>9 DEF Bit
    <2> QED
      BY <1>9, <2>1, <2>2 DEF FlgShape
  <1>12. flg'.on = 0 /\ flg'.defence = 0 => flg'.close = 0
    BY <1>1, <1>3, <1>9 DEF FlgInv, Bit
  (* the exchange *)
  <1>13. Working => ctl.latch = 1 /\ ctl.state # "idle"
    BY <1>1, <1>3 DEF Working, CtlInv, B
  <1>14. Working /\ lat.ready = 1 => fcs.state \in Fetching /\ fcs.write = 1
    BY <1>1, <1>3, <1>5 DEF Working, StageInv, CtlInv, Fresh, Fetching
  <1>15. (fcs.state # "idle" => Working') => FcsInv'
    <2> SUFFICES ASSUME fcs.state # "idle" => Working'
                 PROVE  FcsInv'
      OBVIOUS
    <2>1. fcs.state # "read"
      BY <1>3, <1>5 DEF Fetching, Bit
    <2>2. fcs.state \in Fetching => lat.ready = 1 /\ rdy[1] = 1
      BY <1>3, <1>5 DEF Fetching, Bit
    <2>3. fcs.state \in Fetching /\ lat'.ready = 0 => wr[1] = 1 /\ wr[2] = 1 /\ fcs.write = 1
      BY <1>1, <1>2, <1>4, <1>13, <2>2 DEF FcsInv, Fetching, ExchangeInv, Bit
    <2>4. rdy[1] = 1 => fcs.state \in Fetching \/ Done
      BY <1>1, <1>5, <1>3 DEF StageInv, Unasked, Done, Shapes
    <2>5. Done' <=> Done
      BY <1>2 DEF Done
    <2> QED
      BY <1>1, <1>2, <2>1, <2>2, <2>3, <2>4, <2>5 DEF FcsInv
  <1>16. Working => ExchangeInv'
    <2> SUFFICES ASSUME Working
                 PROVE  ExchangeInv'
      OBVIOUS
    <2>1. CASE p2s.shifting = 0
      BY <1>1, <1>2, <1>3, <1>5, <1>6, <1>7, <1>13, <2>1 DEF ExchangeInv
    <2>2. CASE p2s.shifting = 1 /\ lat.ready = 1
      BY <1>1, <1>2, <1>6, <1>13, <1>14, <2>2 DEF ExchangeInv
    <2>3. CASE p2s.shifting = 1 /\ lat.ready = 0
      BY <1>1, <1>2, <1>5, <1>6, <1>13, <2>3 DEF ExchangeInv
    <2> QED
      BY <1>3, <2>1, <2>2, <2>3 DEF Bit
  <1>17. Working => ValidInv'
    <2> SUFFICES ASSUME Working
                 PROVE  ValidInv'
      OBVIOUS
    <2>1. Done' <=> Done
      BY <1>2 DEF Done
    <2>2. CASE ~Done
      BY <1>1, <1>2, <2>1, <2>2 DEF ValidInv
    <2>3. CASE Done
      <3>1. fcs.valid = 0
        BY <1>3, <1>5, <1>14, <2>3 DEF Done, Fetching, B, Bit
      <3> QED
        BY <1>1, <1>2, <1>6, <2>1, <2>3, <3>1 DEF ValidInv
    <2> QED
      BY <2>2, <2>3
  (* the stages *)
  <1>18. /\ ctl.state = "idle" /\ va[1] = 0 =>
              /\ ctl'.state = "idle" /\ ctl'.cnt = ctl.cnt
              /\ ctl'.open = 0 /\ ctl'.seq = 0 /\ ctl'.latch = 0
         /\ ctl.state = "idle" /\ va[1] = 1 =>
              /\ ctl'.state = "intro" /\ ctl'.cnt = IF port.flag < 4 THEN 4 ELSE 7 - port.flag
              /\ ctl'.open = 0 /\ ctl'.seq = 0 /\ ctl'.latch = 0
         /\ ctl.state = "intro" /\ p2s.shifting # 0 => ctl' = ctl
         /\ ctl.state = "intro" /\ p2s.shifting = 0 =>
              /\ ctl'.state = IF ctl.cnt = 7 THEN "valid" ELSE "intro"
              /\ ctl'.cnt = ctl.cnt + 1
              /\ ctl'.latch = IF ctl.cnt = 4 THEN 1 ELSE ctl.latch
              /\ ctl'.open = IF ctl.cnt = 7 THEN 0 ELSE IF ctl.cnt = OpenAt THEN 1 ELSE ctl.open
              /\ ctl'.seq = IF ctl.cnt = 7 THEN 1 ELSE ctl.seq
         /\ ctl.state = "valid" =>
              /\ ctl'.state = IF va[1] = 0 /\ p2s.shifting = 0 THEN "empty2" ELSE "valid"
              /\ ctl'.latch = IF va[1] = 0 /\ p2s.shifting = 0 THEN 0 ELSE 1
              /\ ctl'.cnt = 0 /\ ctl'.seq = 1 /\ ctl'.open = ctl.open
         /\ ctl.state = "empty2" =>
              /\ ctl'.state = IF p2s.shifting = 0 /\ ctl.cnt > 0 THEN "emptyLast" ELSE "empty2"
              /\ ctl'.cnt = IF p2s.shifting = 0 /\ ctl.cnt = 0 THEN 1 ELSE ctl.cnt
              /\ ctl'.seq = 1 /\ ctl'.latch = 0 /\ ctl'.open = ctl.open
         /\ ctl.state = "emptyLast" /\ ctl.cnt < 8 =>
              /\ ctl'.state = "emptyLast" /\ ctl'.cnt = ctl.cnt + 1
              /\ ctl'.seq = 1 /\ ctl'.latch = 0 /\ ctl'.open = ctl.open
         /\ ctl.state = "emptyLast" /\ ctl.cnt = 8 =>
              /\ ctl'.state = "idle" /\ ctl'.cnt = 0
              /\ ctl'.seq = 0 /\ ctl'.latch = 0 /\ ctl'.open = ctl.open
    BY <1>2, <1>3, CtlStep
  <1>19. DOMAIN ctl' = {"state", "cnt", "open", "seq", "latch"}
    BY <1>2, <1>3, CtlStep
  <1>20. CtlShape' /\ CtlInv'
    <2>1. CASE ctl.state = "idle"
      BY <1>2, <1>3, <1>4, <1>18, <1>19, <2>1 DEF CtlShape, CtlInv, CtlStates, B, Bit
    <2>2. CASE ctl.state = "intro" /\ p2s.shifting = 1
      BY <1>1, <1>2, <1>3, <1>18, <1>19, <2>2 DEF CtlShape, CtlInv
    <2>3. CASE ctl.state = "intro" /\ p2s.shifting = 0
      BY <1>1, <1>2, <1>3, <1>18, <1>19, <2>3 DEF CtlShape, CtlInv, CtlStates, B, Bit, OpenAt
    <2>4. CASE ctl.state \in {"valid", "empty2"}
      BY <1>1, <1>2, <1>3, <1>18, <1>19, <2>4 DEF CtlShape, CtlInv, CtlStates, Bit
    <2>5. CASE ctl.state = "emptyLast"
      BY <1>1, <1>2, <1>3, <1>18, <1>19, <2>5 DEF CtlShape, CtlInv, CtlStates, Bit
    <2> QED
      BY <1>3, <2>1, <2>2, <2>3, <2>4, <2>5 DEF CtlStates, Bit
  <1>21. Shapes'
    BY <1>1, <1>2, <1>6, <1>11, <1>20 DEF Shapes, FcsShape
  <1>22. /\ buff \in {"idle", "write", "read"} /\ Len(rest) \in Nat /\ rest' = rest
         /\ Pending \in 0..1 /\ Pending' \in 0..1
    BY <1>1, <1>2, LenProperties DEF Shapes, Pending, B
  <1> DEFINE Kept == FlgInv' /\ FcsInv' /\ StageInv' /\ ExchangeInv' /\ ValidInv' /\ CoverInv'
  <1>23. ASSUME ctl.state = "idle" PROVE Kept
    <2>1. Unasked /\ fcs.state = "idle" /\ ctl.open = 0 /\ ctl.seq = 0 /\ ctl.latch = 0
      BY <1>1, <1>23 DEF StageInv, CtlInv, Unasked
    <2>2. ~Working'
      BY <1>3, <1>4, <1>18, <1>23 DEF Working, Bit
    <2>3. ctl'.state = "intro" => buff = "read" /\ va[1] = 1 /\ va[2] = 1 /\ fcs.valid = 1
      BY <1>1, <1>4, <1>18, <1>23 DEF StageInv, Bit
    <2>4. Unasked'
      BY <1>2, <1>5, <2>1 DEF Unasked
    <2>5. StageInv'
      BY <1>1, <1>2, <1>3, <1>4, <1>5, <1>18, <1>23, <2>1, <2>3, <2>4 DEF StageInv, B, Bit
    <2>6. flg'.on = 0 /\ ctl'.state = "idle" =>
            \A i \in 1..8 : i > flg'.close - 8 => flg'.reg[i] = 1
      <3>1. CASE flg.on = 1
        BY <1>9, <2>1, <3>1
      <3>2. CASE flg.on = 0
        <4> SUFFICES ASSUME NEW i \in 1..8, i > flg'.close - 8
                     PROVE  flg'.reg[i] = 1
          OBVIOUS
        <4>1. flg'.reg = Shift(flg.reg, 1) /\ flg'.close >= flg.close - 1
          BY <1>3, <1>9, <2>1, <3>2
        <4>2. CASE i = 8
          BY <1>10, <3>2, <4>1, <4>2
        <4>3. CASE i \in 1..7
          <5>1. i + 1 \in 1..8 /\ i + 1 > flg.close - 8 /\ flg'.close \in 0..16
            BY <1>3, <1>11, <4>1, <4>3 DEF FlgShape
          <5>2. flg.reg[i + 1] = 1
            BY <1>1, <1>23, <3>2, <5>1 DEF FlgInv
          <5> QED
            BY <1>10, <3>2, <4>1, <4>3, <5>2
        <4> QED
          BY <4>2, <4>3
      <3> QED
        BY <1>3, <3>1, <3>2 DEF Bit
    <2>7. FlgInv'
      BY <1>1, <1>2, <1>3, <1>4, <1>9, <1>12, <1>18, <1>23, <2>1, <2>3, <2>6 DEF FlgInv, Bit
    <2>8. CoverInv'
      BY <1>1, <1>2, <1>3, <1>4, <1>18, <1>22, <1>23 DEF CoverInv, Bit
    <2>9. ExchangeInv' /\ ValidInv'
      BY <2>2 DEF ExchangeInv, ValidInv
    <2> QED
      BY <1>15, <2>1, <2>5, <2>7, <2>8, <2>9
  <1>24. ASSUME ctl.state = "intro", p2s.shifting = 1 PROVE Kept
    <2>1. /\ ctl' = ctl /\ flg.on = 0 /\ ctl.seq = 0 /\ buff # "write" /\ ctl.cnt < 8
          /\ ctl.latch = B(ctl.cnt > 4) /\ ctl.open = B(ctl.cnt > 7 - port.flag)
      BY <1>1, <1>3, <1>18, <1>24 DEF FlgInv, StageInv, CtlInv, Bit
    <2>2. flg'.on = 0 /\ (ctl.open = 1 => flg'.defence = 1)
      BY <1>3, <1>9, <2>1 DEF Bit
    <2>3. FlgInv'
      BY <1>2, <1>12, <1>24, <2>1, <2>2 DEF FlgInv, B
    <2>4. lat.ready = 0 => lat'.ready = 0
      BY <1>2, <1>3, <1>24 DEF Bit
    <2>5. CASE ctl.cnt < 6
      <3>1. Unasked /\ buff = "read" /\ va[1] = 1 /\ va[2] = 1 /\ fcs.valid = 1
        BY <1>1, <1>24, <2>5 DEF StageInv
      <3>2. StageInv'
        BY <1>1, <1>2, <1>5, <1>24, <2>1, <2>4, <2>5, <3>1 DEF StageInv, Unasked
      <3>3. ~Working'
        BY <1>3, <1>24, <2>1, <2>5 DEF Working
      <3>4. ExchangeInv' /\ ValidInv'
        BY <3>3 DEF ExchangeInv, ValidInv
      <3>5. Pending' = 0
        BY <2>4, <3>1 DEF Pending, Unasked, B
      <3>6. CoverInv'
        BY <1>1, <1>2, <1>3, <1>22, <1>24, <2>1, <2>5, <3>1, <3>5 DEF CoverInv
      <3> QED
        BY <1>15, <2>3, <3>1, <3>2, <3>4, <3>6 DEF Unasked
    <2>6. CASE ctl.cnt \in {6, 7}
      <3>1. Working /\ Working'
        BY <1>24, <2>1, <2>6 DEF Working
      <3>2. Pending' <= Pending
        BY <1>2, <1>3, <1>22, <2>4 DEF Pending, Fresh, B, Bit
      <3>3. CoverInv'
        BY <1>1, <1>2, <1>22, <1>24, <2>1, <2>6, <3>2 DEF CoverInv
      <3>4. StageInv'
        <4>1. CASE ctl.cnt = 6
          BY <1>1, <1>2, <1>3, <1>5, <1>14, <1>24, <2>1, <2>4, <3>1, <4>1 DEF StageInv, Fetching, Fresh, Bit
        <4>2. CASE ctl.cnt = 7
          BY <1>1, <1>2, <1>3, <1>5, <1>14, <1>24, <2>1, <2>4, <3>1, <4>2 DEF StageInv, Fetching, Bit
        <4> QED
          BY <2>6, <4>1, <4>2
      <3> QED
        BY <1>15, <1>16, <1>17, <2>3, <3>1, <3>3, <3>4
    <2> QED
      BY <1>3, <2>1, <2>5, <2>6
  <1>25. ASSUME ctl.state = "intro", p2s.shifting = 0 PROVE Kept
    <2>1. /\ flg.on = 0 /\ ctl.seq = 0 /\ buff # "write" /\ ctl.cnt < 8
          /\ ctl.latch = B(ctl.cnt > 4) /\ ctl.open = B(ctl.cnt > 7 - port.flag)
          /\ ctl'.state = IF ctl.cnt = 7 THEN "valid" ELSE "intro"
          /\ ctl'.cnt = ctl.cnt + 1
      BY <1>1, <1>3, <1>18, <1>25 DEF FlgInv, StageInv, CtlInv, Bit
    <2>2. flg'.on = 0 /\ (ctl.open = 1 => flg'.defence = 1)
      BY <1>3, <1>9, <2>1 DEF Bit
    <2>3. FlgInv'
      BY <1>1, <1>2, <1>3, <1>6, <1>12, <1>25, <2>1, <2>2 DEF FlgInv, B
    <2>4. lat.ready = 0
      BY <1>1, <1>3, <1>7, <1>25, <2>1 DEF StageInv, ExchangeInv, Unasked, Working, Bit
    <2>5. CASE ctl.cnt < 6
      <3>1. Unasked /\ buff = "read" /\ va[1] = 1 /\ va[2] = 1 /\ fcs.valid = 1
        BY <1>1, <1>25, <2>5 DEF StageInv
      <3>2. ctl.cnt < 5 => lat'.ready = 0
        BY <1>2, <1>3, <2>1 DEF B
      <3>3. ctl.cnt = 5 => lat'.ready = 1
        BY <1>2, <1>3, <1>25, <2>1, <2>4 DEF B
      <3>4. StageInv'
        BY <1>1, <1>2, <1>3, <1>5, <1>25, <2>1, <2>5, <3>1, <3>2, <3>3 DEF StageInv, Unasked, Fresh
      <3>5. ExchangeInv' /\ ValidInv'
        BY <1>2, <1>3, <1>6, <1>25, <2>1, <2>5, <3>1, <3>2, <3>3 DEF ExchangeInv, ValidInv, Unasked, Working, Done
      <3>6. CoverInv'
        <4>1. ctl.cnt < 5 => Pending' = 0
          BY <3>2 DEF Pending, B
        <4>2. port.flag <= 2 /\ ctl.cnt = 5 => Len(rest) >= 4 + Pending
          BY <1>1, <1>25 DEF CoverInv
        <4> QED
          BY <1>1, <1>2, <1>3, <1>22, <1>25, <2>1, <2>5, <3>1, <4>1 DEF CoverInv
      <3> QED
        BY <1>15, <2>3, <3>1, <3>4, <3>5, <3>6 DEF Unasked
    <2>6. CASE ctl.cnt \in {6, 7}
      <3>1. Working /\ Working'
        BY <1>25, <2>1, <2>6 DEF Working
      <3>2. CoverInv'
        BY <1>1, <1>2, <1>22, <1>25, <2>1, <2>6 DEF CoverInv
      <3>3. StageInv'
        <4>1. lat'.ready = 1
          BY <1>2, <1>13, <1>25, <2>4, <3>1
        <4>2. CASE ctl.cnt = 6
          BY <1>1, <1>2, <1>5, <1>25, <2>1, <2>4, <4>1, <4>2 DEF StageInv
        <4>3. CASE ctl.cnt = 7
          BY <1>1, <1>2, <1>5, <1>25, <2>1, <2>4, <4>1, <4>3 DEF StageInv
        <4> QED
          BY <2>6, <4>2, <4>3
      <3> QED
        BY <1>15, <1>16, <1>17, <2>3, <3>1, <3>2, <3>3
    <2> QED
      BY <1>3, <2>1, <2>5, <2>6
  <1>26. ASSUME ctl.state = "valid" PROVE Kept
    <2>1. /\ ctl.cnt \in {0, 8} /\ ctl.open = 0 /\ ctl.seq = 1 /\ ctl.latch = 1
          /\ ctl'.state \in {"valid", "empty2"} /\ ctl'.cnt = 0 /\ buff # "write" /\ Working
      BY <1>1, <1>18, <1>26 DEF CtlInv, StageInv, Working
    <2>2. flg'.on = 1 /\ flg'.defence = 1
      BY <1>1, <1>3, <1>9, <1>26, <2>1 DEF FlgInv, Bit
    <2>3. FlgInv'
      BY <1>2, <1>12, <2>1, <2>2 DEF FlgInv
    <2>4. CoverInv'
      BY <2>1 DEF CoverInv
    <2>5. CASE ctl'.state = "valid"
      <3>1. fcs.state = "idle" => Done /\ lat'.ready = 0
        <4> SUFFICES ASSUME fcs.state = "idle"
                     PROVE  Done /\ lat'.ready = 0
          OBVIOUS
        <4>1. Done /\ lat.ready = 0
          BY <1>1, <1>26 DEF StageInv
        <4>2. p2s.shifting = 1
          BY <1>1, <1>3, <1>7, <1>18, <1>26, <2>1, <2>5, <4>1 DEF ValidInv, Bit
        <4> QED
          BY <1>2, <2>1, <4>1, <4>2
      <3>2. StageInv'
        BY <1>1, <1>2, <1>26, <2>1, <2>5, <3>1 DEF StageInv, Done
      <3> QED
        BY <1>15, <1>16, <1>17, <2>1, <2>3, <2>4, <2>5, <3>2 DEF Working
    <2>6. CASE ctl'.state = "empty2"
      <3>1. va[1] = 0 /\ p2s.shifting = 0
        BY <1>18, <1>26, <2>6
      <3>2. Done /\ va[2] = 0 /\ fcs.valid = 0
        BY <1>1, <2>1, <3>1 DEF ValidInv
      <3>3. lat.ready = 0 /\ wr[1] = 0 /\ wr[2] = 0
        BY <1>1, <1>7, <2>1, <3>1 DEF ExchangeInv
      <3>4. fcs.write = 0
        BY <1>5, <3>3
      <3>5. StageInv'
        BY <1>1, <1>2, <1>6, <1>26, <2>1, <2>6, <3>1, <3>2, <3>3, <3>4 DEF StageInv, Done
      <3>6. ~Working'
        BY <2>6 DEF Working
      <3> QED
        BY <1>15, <2>3, <2>4, <3>2, <3>5, <3>6 DEF ExchangeInv, ValidInv, Done
    <2> QED
      BY <2>1, <2>5, <2>6
  <1>27. ASSUME ctl.state \in {"empty2", "emptyLast"} PROVE Kept
    <2>1. /\ Done /\ fcs.valid = 0 /\ fcs.write = 0 /\ txEnable = 1
          /\ va[1] = 0 /\ va[2] = 0 /\ wr[1] = 0 /\ wr[2] = 0
          /\ ctl.open = 0 /\ ctl.seq = 1 /\ ctl.latch = 0 /\ lat'.ready = 0
          /\ flg.on = 1 /\ flg.defence = 1
      BY <1>1, <1>2, <1>27 DEF StageInv, CtlInv, FlgInv
    <2>2. ctl'.state \in {"empty2", "emptyLast", "idle"}
      BY <1>1, <1>3, <1>18, <1>27 DEF CtlInv
    <2>3. flg'.on = 1 /\ flg'.defence = 1
      BY <1>9, <2>1
    <2>4. FlgInv'
      BY <1>2, <2>1, <2>2, <2>3 DEF FlgInv, Done
    <2>5. ~Working'
      BY <2>2 DEF Working
    <2>6. ctl'.state # "empty2" => lat.ready = 0
      BY <1>1, <1>3, <1>7, <1>18, <1>27 DEF StageInv, Unasked, Bit
    <2>7. ctl'.state # "empty2" => Unasked'
      BY <1>2, <1>5, <2>1, <2>6 DEF Unasked, Done
    <2>8. StageInv'
      BY <1>2, <2>1, <2>2, <2>7 DEF StageInv, Done
    <2>9. CoverInv'
      BY <1>2, <2>1, <2>2 DEF CoverInv, Done
    <2> QED
      BY <1>15, <2>1, <2>4, <2>5, <2>8, <2>9 DEF ExchangeInv, ValidInv, Done
  <1> QED
    BY <1>3, <1>8, <1>20, <1>21, <1>23, <1>24, <1>25, <1>26, <1>27 DEF TxInv, CtlStates, Bit

-----------------------------------------------------------------------------
(* The bus writes and enables only while the line is free. *)

(* With the request down and the buffer empty the transmitter is at rest.    *)
LEMMA FreeAtRest ==
  ASSUME TxInv, port.flag \in 0..7, ~Rts, buff = "idle"
  PROVE  ctl.state = "idle" /\ flg.on = 0 /\ flg.reg = Ones /\ flg.defence = 0
  <1>1. /\ Shapes /\ CtlInv /\ FlgInv /\ StageInv /\ CoverInv
        /\ ctl.state \in CtlStates /\ ctl.cnt \in 0..8 /\ flg.on \in Bit /\ flg.defence \in Bit
    BY DEF TxInv, Shapes, CtlShape, FlgShape
  <1>2. flg.defence = 0
    BY <1>1 DEF Rts, Bit
  <1>3. flg.on = 0 /\ flg.close = 0
    BY <1>1, <1>2 DEF FlgInv, Bit
  <1>4. rest = <<>> /\ Len(rest) = 0
    BY <1>1 DEF Shapes
  <1>5. ctl.state \notin {"empty2", "emptyLast"}
    BY <1>1, <1>3 DEF FlgInv
  <1>6. Pending \in 0..1
    BY DEF Pending, B
  <1>7. ctl.state # "intro"
    <2> SUFFICES ASSUME ctl.state = "intro"
                 PROVE  FALSE
      OBVIOUS
    <2>1. ctl.cnt \in {6, 7}
      BY <1>1 DEF StageInv, CtlInv
    <2>2. CASE port.flag <= 2
      BY <1>1, <1>4, <1>6, <2>1, <2>2 DEF CoverInv
    <2>3. CASE port.flag > 2
      BY <1>1, <1>2, <2>1, <2>3 DEF FlgInv
    <2> QED
      BY <2>2, <2>3
  <1>8. ctl.state # "valid"
    <2> SUFFICES ASSUME ctl.state = "valid"
                 PROVE  FALSE
      OBVIOUS
    <2>1. ctl.cnt = 8
      BY <1>1, <1>3 DEF FlgInv, CtlInv
    <2>2. CASE port.flag <= 2
      BY <1>1, <1>4, <1>6, <2>1, <2>2 DEF CoverInv
    <2>3. CASE port.flag > 2
      BY <1>1, <1>2, <2>3 DEF FlgInv
    <2> QED
      BY <2>2, <2>3
  <1>9. ctl.state = "idle"
    BY <1>1, <1>5, <1>7, <1>8 DEF CtlStates
  <1>10. \A i \in 1..8 : flg.reg[i] = 1
    BY <1>1, <1>3, <1>9 DEF FlgInv
  <1>11. flg.reg = Ones
    BY <1>1, <1>3, <1>10, AllOnes DEF Shapes, FlgShape
  <1> QED
    BY <1>2, <1>3, <1>9, <1>11

LEMMA WriteKeeps ==
  ASSUME TxInv, port \in Ports, sent \in Nat, Steady, ~Rts, WriteBuffer
  PROVE  TxInv'
  <1>1. /\ port.flag \in 0..7 /\ port.script \in Seq(Seq(Byte) \ {<<>>})
        /\ sent + 1 \in 1..Len(port.script) /\ buff = "idle"
    BY PortsAssumption DEF WriteBuffer
  <1>2. /\ txEnable' = 0 /\ buff' = "write" /\ rest' = port.script[sent + 1]
        /\ UNCHANGED <<port, fcs, rdy, wr, va, abt, ctl, p2s, lat, flg>>
    BY DEF WriteBuffer, slow
  <1>3. rest' \in Seq(Byte) /\ rest' # <<>> /\ (port.flag <= 2 => Len(rest') >= 4)
    <2>1. rest' \in Seq(Byte) \ {<<>>}
      BY <1>1, <1>2, ElementOfSeq
    <2>2. port.flag <= 2 => Len(port.script[sent + 1]) > 3
      BY <1>1, LenProperties DEF Steady
    <2>3. Len(rest') \in Nat
      BY <2>1, LenProperties
    <2> QED
      BY <1>2, <2>1, <2>2, <2>3
  <1>4. ctl.state = "idle" /\ flg.on = 0 /\ flg.defence = 0
    BY <1>1, FreeAtRest
  <1>5. /\ Shapes /\ FlopsInv /\ CtlInv /\ AbtInv /\ FlgInv /\ FcsInv /\ StageInv
    BY DEF TxInv
  <1>6. Shapes'
    BY <1>2, <1>3, <1>5 DEF Shapes, FcsShape, CtlShape, LatShape, FlgShape, P2sShape, Bit
  <1>7. FlopsInv' /\ CtlInv' /\ AbtInv'
    BY <1>2, <1>5 DEF FlopsInv, CtlInv, AbtInv
  <1>8. FlgInv'
    BY <1>2, <1>4, <1>5 DEF FlgInv
  <1>9. Unasked /\ Unasked'
    BY <1>2, <1>4, <1>5 DEF StageInv, Unasked
  <1>10. FcsInv'
    BY <1>2, <1>9 DEF FcsInv, Unasked, Fetching
  <1>11. StageInv'
    BY <1>1, <1>2, <1>4, <1>5, <1>9 DEF StageInv
  <1>12. ExchangeInv' /\ ValidInv'
    BY <1>2, <1>4 DEF ExchangeInv, ValidInv, Working
  <1>13. CoverInv'
    BY <1>2, <1>3, <1>4 DEF CoverInv
  <1> QED
    BY <1>6, <1>7, <1>8, <1>10, <1>11, <1>12, <1>13 DEF TxInv

LEMMA EnableKeeps ==
  ASSUME TxInv, Enable
  PROVE  TxInv'
  <1>1. /\ buff = "write" /\ txEnable' = 1 /\ buff' = "read"
        /\ UNCHANGED <<port, rest, fcs, rdy, wr, va, abt, ctl, p2s, lat, flg>>
    BY DEF Enable, slow
  <1>2. /\ Shapes /\ FlopsInv /\ CtlInv /\ AbtInv /\ FlgInv /\ FcsInv /\ StageInv /\ CoverInv
    BY DEF TxInv
  <1>3. ctl.state = "idle"
    BY <1>1, <1>2 DEF StageInv
  <1>4. Shapes'
    BY <1>1, <1>2 DEF Shapes, FcsShape, CtlShape, LatShape, FlgShape, P2sShape, Bit
  <1>5. FlopsInv' /\ CtlInv' /\ AbtInv'
    BY <1>1, <1>2 DEF FlopsInv, CtlInv, AbtInv
  <1>6. FlgInv'
    BY <1>1, <1>2, <1>3 DEF FlgInv
  <1>7. Unasked /\ Unasked'
    BY <1>1, <1>2, <1>3 DEF StageInv, Unasked
  <1>8. FcsInv'
    BY <1>1, <1>7 DEF FcsInv, Unasked, Fetching
  <1>9. StageInv'
    BY <1>1, <1>2, <1>3, <1>7 DEF StageInv
  <1>10. ExchangeInv' /\ ValidInv'
    BY <1>1, <1>3 DEF ExchangeInv, ValidInv, Working
  <1>11. CoverInv'
    BY <1>1, <1>2, <1>3 DEF CoverInv
  <1> QED
    BY <1>4, <1>5, <1>6, <1>8, <1>9, <1>10, <1>11 DEF TxInv

LEMMA TxInit ==
  ASSUME Init
  PROVE  TxInv
  <1> USE DEF Init
  <1>1. Shapes
    <2>1. rest \in Seq(Byte) /\ rest = <<>>
      BY EmptySeq
    <2>2. FcsShape /\ CtlShape /\ LatShape /\ P2sShape
      BY DEF FcsShape, CtlShape, LatShape, P2sShape, FcsStates, CtlStates, Bit
    <2>3. FlgShape
      BY Resets DEF FlgShape, Bit
    <2> QED
      BY <2>1, <2>2, <2>3, Resets DEF Shapes, Bit
  <1>2. FlopsInv /\ CtlInv /\ AbtInv
    BY Resets DEF FlopsInv, CtlInv, AbtInv
  <1>3. FlgInv
    BY Resets DEF FlgInv
  <1>4. FcsInv /\ StageInv
    BY Resets DEF FcsInv, StageInv, Unasked, Fetching
  <1>5. ExchangeInv /\ ValidInv /\ CoverInv
    BY DEF ExchangeInv, ValidInv, CoverInv, Working
  <1> QED
    BY <1>1, <1>2, <1>3, <1>4, <1>5 DEF TxInv

-----------------------------------------------------------------------------
(* The receiving side. *)

LEMMA RxFcsStep ==
  ASSUME NEW x, x = NextRxFcs,
         DOMAIN rfcs = {"state", "crc", "reg", "cnt", "read", "prior", "write"},
         rfcs.state \in {"idle", "run", "read", "eof1", "eof2", "eofZ"}, rfcs.read \in Bit
  PROVE  /\ DOMAIN x = {"state", "crc", "reg", "cnt", "read", "prior", "write"}
         /\ x.state \in {"idle", "run", "read", "eof1", "eof2", "eofZ"} /\ x.read \in Bit
         /\ rr[1] = 1 /\ rv[1] = 1 /\ x = rfcs => rfcs.read = 1
  <1>1. CASE rfcs.state = "idle"
    BY <1>1 DEF NextRxFcs, Bit
  <1>2. CASE rfcs.state = "run"
    <2>1. x = [rfcs EXCEPT !.write = rfcs.prior,
                           !.state = IF rv[1] = 1 THEN IF rr[1] = 1 THEN "read" ELSE "run"
                                     ELSE IF rfcs.cnt = 0 THEN "idle" ELSE "eof1",
                           !.crc = IF rfcs.write = 1 THEN NextCrc(rfcs.reg[1], @) ELSE @,
                           !.read = 0, !.prior = 0]
      BY <1>2 DEF NextRxFcs
    <2> QED
      BY <1>2, <2>1 DEF Bit
  <1>3. CASE rfcs.state = "read" /\ rr[1] = 1
    BY <1>3 DEF NextRxFcs, Bit
  <1>4. CASE rfcs.state = "read" /\ rr[1] # 1
    BY <1>4 DEF NextRxFcs, Bit
  <1>5. CASE rfcs.state = "eof1"
    BY <1>5 DEF NextRxFcs, Bit
  <1>6. CASE rfcs.state = "eof2"
    BY <1>6 DEF NextRxFcs, Bit
  <1>7. CASE rfcs.state = "eofZ"
    BY <1>7 DEF NextRxFcs, Bit
  <1> QED
    BY <1>1, <1>2, <1>3, <1>4, <1>5, <1>6, <1>7

LEMMA RxInit ==
  ASSUME Init
  PROVE  RxInv
  BY Resets DEF Init, RxInv, Bit

LEMMA RxKeeps ==
  ASSUME RxInv, [Next]_vars
  PROVE  RxInv'
  <1>1. CASE SystemClock
    <2>1. /\ UNCHANGED <<rxc, out, rdb>> /\ rfcs' = NextRxFcs
          /\ rr' = Shift(rr, out.ready) /\ rv' = Shift(rv, rxc.valid)
      BY <1>1 DEF SystemClock, slow
    <2>2. rr' \in Register(2) /\ rv' \in Register(2)
      BY <2>1, FlopShift DEF RxInv
    <2>3. /\ DOMAIN rfcs' = {"state", "crc", "reg", "cnt", "read", "prior", "write"}
          /\ rfcs'.state \in {"idle", "run", "read", "eof1", "eof2", "eofZ"} /\ rfcs'.read \in Bit
      BY <2>1, RxFcsStep DEF RxInv
    <2> QED
      BY <2>1, <2>2, <2>3 DEF RxInv
  <1>2. CASE BitClock
    <2>1. /\ UNCHANGED <<rfcs, rv, rr>> /\ rxc' = NextRxc /\ out' = NextOut
          /\ rdb' = Shift(rdb, rfcs.read) /\ Settled
      BY <1>2 DEF BitClock, fast
    <2>2. rdb' \in Register(2) /\ rdb'[1] = rdb[2] /\ rdb'[2] = rfcs.read
      <3>1. rdb \in Register(2) /\ rfcs.read \in Bit
        BY DEF RxInv
      <3> QED
        BY <2>1, <3>1, FlopShift
    <2>3. out.ready = 1 /\ rxc.valid = 1 => rfcs.read = 1
      <3>1. rr = Shift(rr, out.ready) /\ rv = Shift(rv, rxc.valid) /\ rfcs = NextRxFcs
        BY <2>1 DEF Settled
      <3>2. rr[1] = out.ready /\ rv[1] = rxc.valid
        <4>1. /\ Shift(rr, out.ready)[1] = rr[2] /\ Shift(rr, out.ready)[2] = out.ready
              /\ Shift(rv, rxc.valid)[1] = rv[2] /\ Shift(rv, rxc.valid)[2] = rxc.valid
          BY FlopShift DEF RxInv
        <4> QED
          BY <3>1, <4>1
      <3> QED
        BY <3>1, <3>2, RxFcsStep DEF RxInv
    <2>4. rdb[1] \in Bit /\ rdb[2] \in Bit /\ rxc.delay[1] \in Bit
      BY FlopBits DEF RxInv, Register
    <2>5. /\ out'.ready \in Bit /\ out'.avail \in Bit
          /\ out'.avail = 0 => out'.ready = 1 /\ rxc.valid = 1 /\ rdb[1] = 0
      BY <2>1, <2>4 DEF NextOut, RxInv, Bit
    <2>6. rxc'.valid \in Bit
      BY <2>1, <2>4 DEF NextRxc
    <2>7. PICK status \in Bit :
            /\ rxc'.delay = Shift(rxc.delay, status) /\ rxc'.status \in {0, status}
            /\ rxc'.tries = IF status = 1 /\ out.avail = 0 THEN (rxc.tries + 1) % 6 ELSE 0
            /\ rxc'.err = IF status = 1 /\ out.avail = 0 /\ rxc.tries = 5 THEN 1
                          ELSE IF det.block[8] = 1 /\ rxc.valid = 0 THEN 0 ELSE rxc.err
      <3> DEFINE flag == det.block[8] = 1
                 init == flag \/ rxc.init = 1
                 cnt == IF flag THEN 0 ELSE rxc.cnt
                 st == IF init /\ cnt = 7 THEN 1 - rxc.valid ELSE IF flag THEN 0 ELSE rxc.status
      <3>1. st \in Bit
        BY DEF RxInv, Bit
      <3>2. /\ rxc'.delay = Shift(rxc.delay, st)
            /\ rxc'.status = (IF det.abort = 1 THEN 0 ELSE st)
            /\ rxc'.tries = IF st = 1 /\ out.avail = 0 THEN (rxc.tries + 1) % 6 ELSE 0
            /\ rxc'.err = IF st = 1 /\ out.avail = 0 /\ rxc.tries = 5 THEN 1
                          ELSE IF flag /\ rxc.valid = 0 THEN 0 ELSE rxc.err
        BY <2>1 DEF NextRxc
      <3> QED
        BY <3>1, <3>2
    <2>8. rxc'.delay \in Register(8) /\ rxc'.status \in Bit
      BY <2>7, RegisterShift DEF RxInv, Bit
    <2>9. rxc'.err = 0
      BY <2>7 DEF RxInv
    <2>10. /\ rxc'.tries = 0 \/ (out.avail = 0 /\ rxc'.tries = rxc.tries + 1)
           /\ rxc'.tries \in 0..3
      BY <2>7 DEF RxInv, Bit
    <2>11. out'.avail = 0 =>
             /\ rxc'.tries < 3
             /\ rxc'.tries > 0 => rdb'[2] = 1
             /\ rxc'.tries > 1 => rdb'[1] = 1
      BY <2>2, <2>3, <2>5, <2>10 DEF RxInv
    <2> QED
      BY <2>1, <2>2, <2>5, <2>6, <2>8, <2>9, <2>10, <2>11 DEF RxInv
  <1>3. CASE WriteBuffer \/ Enable \/ UNCHANGED vars
    <2>1. UNCHANGED <<rxc, out, rdb, rfcs, rv, rr>>
      BY <1>3 DEF WriteBuffer, Enable, slow, fast, vars
    <2> QED
      BY <2>1 DEF RxInv
  <1> QED
    BY <1>1, <1>2, <1>3 DEF Next

-----------------------------------------------------------------------------
(* The theorems. *)

Inv ==
    /\ port \in Ports /\ sent \in Nat /\ cuts \in Nat
    /\ Uncut => TxInv
    /\ RxInv

LEMMA InvInit ==
  ASSUME Init
  PROVE  Inv
  BY TxInit, RxInit DEF Init, Inv

LEMMA InvKept ==
  ASSUME Inv, [Next]_vars
  PROVE  Inv'
  <1>1. port' = port /\ sent' \in Nat /\ cuts' \in Nat /\ (cuts' = 0 => cuts = 0)
    BY DEF Inv, Next, SystemClock, BitClock, WriteBuffer, Enable, vars
  <1>2. RxInv'
    BY RxKeeps DEF Inv
  <1>3. port.flag \in 0..7
    BY PortsAssumption DEF Inv
  <1>4. ASSUME Uncut'
        PROVE  TxInv'
    <2>1. Uncut /\ TxInv /\ Steady /\ cuts' = 0
      BY <1>1, <1>4 DEF Uncut, Steady, Inv
    <2>2. CASE SystemClock
      BY <1>3, <2>1, <2>2, SystemKeeps
    <2>3. CASE BitClock
      <3>1. txEnable \in Bit
        BY <2>1 DEF TxInv, Shapes
      <3> QED
        BY <1>3, <2>1, <2>3, <3>1, BitDisabled, BitEnabled DEF Bit
    <2>4. CASE WriteBuffer
      <3>1. ~Rts
        BY <2>1, <2>4 DEF WriteBuffer, Uncut
      <3> QED
        BY <2>1, <2>4, <3>1, WriteKeeps DEF Inv
    <2>5. CASE Enable
      BY <2>1, <2>5, EnableKeeps
    <2>6. CASE UNCHANGED vars
      <3>1. UNCHANGED <<port, txEnable, fcs, rdy, buff, rest, wr, va, abt, ctl, p2s, lat, flg>>
        BY <2>6 DEF vars, fast, slow
      <3> QED
        BY <2>1, <3>1 DEF TxInv, Shapes, FcsShape, CtlShape, LatShape, FlgShape, P2sShape,
             FlopsInv, CtlInv, AbtInv, FlgInv, FcsInv, StageInv, ExchangeInv, ValidInv,
             CoverInv, Unasked, Working, Done, Fresh, Pending, Age
    <2> QED
      BY <2>2, <2>3, <2>4, <2>5, <2>6 DEF Next
  <1> QED
    BY <1>1, <1>2, <1>4 DEF Inv

(* The request to send covers every frame that is not cut, whatever its      *)
(* bytes, its length, the flags around it and what the line falsifies: with  *)
(* the request down nothing but ones is left for the line                    *)
(* (FlagInsert.vhd, Platform.vhd:150).                                       *)
THEOREM LineStaysCovered == Spec => []LineCovered
  <1>1. Inv => LineCovered
    <2> SUFFICES ASSUME Inv, Steady, cuts = 0, ~Rts, buff = "idle"
                 PROVE  ctl.state = "idle" /\ flg.on = 0 /\ flg.reg = Ones
      BY DEF LineCovered
    <2>1. TxInv /\ port.flag \in 0..7
      BY PortsAssumption DEF Inv, Uncut
    <2> QED
      BY <2>1, FreeAtRest
  <1> QED
    BY <1>1, InvInit, InvKept, PTL DEF Spec

(* The transmitter never runs out of bytes in the midst of a frame that is   *)
(* not cut, and the receiver never meets a byte that was not read: the flops *)
(* and TxFcs or RxFcs take five bits of the eight there are.                 *)
THEOREM CrossingInTime == Spec => [](Steady /\ cuts = 0 => InTime)
  <1>1. Inv => (Steady /\ cuts = 0 => InTime)
    BY DEF Inv, Uncut, InTime, TxInv, AbtInv, RxInv
  <1> QED
    BY <1>1, InvInit, InvKept, PTL DEF Spec

(* The receiver raises no frame error at all, whatever comes over the line   *)
(* and however frames are cut (RxController.vhd, "frameError").              *)
THEOREM EveryByteRead == Spec => [](rxc.err = 0)
  <1>1. Inv => rxc.err = 0
    BY DEF Inv, RxInv
  <1> QED
    BY <1>1, InvInit, InvKept, PTL DEF Spec

-----------------------------------------------------------------------------
(* The FCS. *)

(* Induction over the bytes of a frame: the first one at which two frames    *)
(* part.  That there is a least number follows from the library's theorem    *)
(* that strict inclusion of finite sets is well-founded.                     *)
LEMMA LeastNumber ==
  ASSUME NEW T, T \subseteq Nat, T # {}
  PROVE  \E m \in T : \A k \in T : m <= k
  <1> DEFINE D == {0..k : k \in T}
  <1>1. D \subseteq FiniteSubsetsOf(Nat) /\ D # {}
    <2>1. \A k \in T : 0..k \in SUBSET Nat /\ IsFiniteSet(0..k)
      BY FS_Interval
    <2> QED
      BY <2>1 DEF FiniteSubsetsOf
  <1>2. PICK x \in D : \A y \in D : ~(<<y, x>> \in StrictSubsetOrdering(Nat))
    <2> HIDE DEF D
    <2> QED
      BY <1>1, FS_StrictSubsetOrderingWellFounded, WFMin
  <1>3. PICK m \in T : x = 0..m
    OBVIOUS
  <1>4. ASSUME NEW k \in T, k < m PROVE FALSE
    <2>1. 0..k \in D /\ 0..k \subseteq 0..m /\ m \in 0..m /\ m \notin 0..k
      BY <1>4
    <2>2. <<0..k, 0..m>> \in StrictSubsetOrdering(Nat)
      BY <2>1 DEF StrictSubsetOrdering
    <2> QED
      BY <1>2, <1>3, <2>1, <2>2
  <1> QED
    BY <1>4

(* What TxFcs and RxFcs keep of a frame. *)
Sums == [0..15 -> Bit]

(* How many of the bits S of t are 1. *)
Ticked(t, S) == Cardinality({k \in S : t[k] = 1})

(* Counting the ones over a tap set is adding the bits up. *)
LEMMA OneTicked ==
  ASSUME NEW t, NEW S, IsFiniteSet({k \in S : t[k] = 1}), NEW a, a \notin S, t[a] \in Bit
  PROVE  /\ IsFiniteSet({k \in S \cup {a} : t[k] = 1})
         /\ Ticked(t, S \cup {a}) = Ticked(t, S) + t[a]
  <1> DEFINE T == {k \in S : t[k] = 1}
             U == {k \in S \cup {a} : t[k] = 1}
  <1>1. U = (IF t[a] = 1 THEN T \cup {a} ELSE T) /\ a \notin T
    OBVIOUS
  <1>2. IsFiniteSet(T) /\ Cardinality(T) \in Nat
    BY FS_CardinalityType
  <1> HIDE DEF T, U
  <1>3. IsFiniteSet(U) /\ Cardinality(U) = Cardinality(T) + t[a]
    <2>1. CASE t[a] = 1
      <3>1. U = T \cup {a}
        BY <1>1, <2>1
      <3> QED
        BY <1>1, <1>2, <2>1, <3>1, FS_AddElement
    <2>2. CASE t[a] = 0
      <3>1. U = T
        BY <1>1, <2>2
      <3> QED
        BY <1>2, <2>2, <3>1
    <2> QED
      BY <2>1, <2>2 DEF Bit
  <1> QED
    BY <1>3 DEF Ticked, T, U

LEMMA Parity ==
  ASSUME NEW t \in [0..7 -> Bit]
  PROVE  /\ \A a \in 0..7 : Ticked(t, {a}) = t[a]
         /\ \A a, b \in 0..7 : a # b => Ticked(t, {a, b}) = t[a] + t[b]
         /\ \A a, b, c \in 0..7 : a # b /\ a # c /\ b # c =>
               Ticked(t, {a, b, c}) = t[a] + t[b] + t[c]
  <1> DEFINE Fin(S) == IsFiniteSet({k \in S : t[k] = 1})
  <1>1. Fin({}) /\ Ticked(t, {}) = 0
    <2>1. {k \in {} : t[k] = 1} = {}
      OBVIOUS
    <2> QED
      BY <2>1, FS_EmptySet DEF Ticked
  <1>2. \A a \in 0..7 : Fin({a}) /\ Ticked(t, {a}) = t[a]
    <2> TAKE a \in 0..7
    <2>1. {a} = {} \cup {a} /\ a \notin {} /\ t[a] \in Bit
      OBVIOUS
    <2>2. Fin({} \cup {a}) /\ Ticked(t, {} \cup {a}) = 0 + t[a]
      BY <1>1, <2>1, OneTicked
    <2> QED
      BY <2>1, <2>2 DEF Bit
  <1>3. \A a, b \in 0..7 : a # b => Fin({a, b}) /\ Ticked(t, {a, b}) = t[a] + t[b]
    <2> TAKE a, b \in 0..7
    <2> HAVE a # b
    <2>1. {a, b} = {a} \cup {b} /\ b \notin {a} /\ t[b] \in Bit
      OBVIOUS
    <2>2. Fin({a} \cup {b}) /\ Ticked(t, {a} \cup {b}) = Ticked(t, {a}) + t[b]
      BY <1>2, <2>1, OneTicked
    <2> QED
      BY <1>2, <2>1, <2>2
  <1>4. \A a, b, c \in 0..7 : a # b /\ a # c /\ b # c => Ticked(t, {a, b, c}) = t[a] + t[b] + t[c]
    <2> TAKE a, b, c \in 0..7
    <2> HAVE a # b /\ a # c /\ b # c
    <2>1. {a, b, c} = {a, b} \cup {c} /\ c \notin {a, b} /\ t[c] \in Bit
      OBVIOUS
    <2>2. Ticked(t, {a, b} \cup {c}) = Ticked(t, {a, b}) + t[c]
      BY <1>3, <2>1, OneTicked
    <2> QED
      BY <1>3, <2>1, <2>2
  <1> QED
    BY <1>2, <1>3, <1>4

(* What of a byte and the sum before it goes into the next one. *)
Mixed(d, c) == [k \in 0..7 |-> (d[8 - k] + c[k + 8]) % 2]

LEMMA MixedBits ==
  ASSUME NEW d \in Byte, NEW c \in Sums
  PROVE  /\ Mixed(d, c) \in [0..7 -> Bit]
         /\ \A k \in 0..7 : d[8 - k] \in Bit /\ c[k] \in Bit /\ c[k + 8] \in Bit
  <1>1. \A k \in 0..7 : d[8 - k] \in Bit /\ c[k] \in Bit /\ c[k + 8] \in Bit
    BY DEF Byte, Sums
  <1>2. \A k \in 0..7 : (d[8 - k] + c[k + 8]) % 2 \in Bit
    BY <1>1 DEF Bit
  <1> QED
    BY <1>1, <1>2 DEF Mixed

(* A step of the sum, bit by bit. *)
LEMMA CrcBits ==
  ASSUME NEW d \in Byte, NEW c \in Sums, NEW t, t = Mixed(d, c), NEW x, x = NextCrc(d, c)
  PROVE  /\ x \in Sums
         /\ x[0] = (t[0] + t[4]) % 2 /\ x[1] = (t[1] + t[5]) % 2
         /\ x[2] = (t[2] + t[6]) % 2 /\ x[3] = (t[3] + t[7]) % 2
         /\ x[4] = t[4] /\ x[5] = (t[0] + t[4] + t[5]) % 2
         /\ x[6] = (t[1] + t[5] + t[6]) % 2 /\ x[7] = (t[2] + t[6] + t[7]) % 2
         /\ x[8] = (t[3] + t[7] + c[0]) % 2 /\ x[9] = (t[4] + c[1]) % 2
         /\ x[10] = (t[5] + c[2]) % 2 /\ x[11] = (t[6] + c[3]) % 2
         /\ x[12] = (t[0] + t[4] + t[7] + c[4]) % 2 /\ x[13] = (t[1] + t[5] + c[5]) % 2
         /\ x[14] = (t[2] + t[6] + c[6]) % 2 /\ x[15] = (t[3] + t[7] + c[7]) % 2
  <1> DEFINE Tapped(i) == Ticked(t, Taps[i])
             Moved(i) == IF i < 8 THEN 0 ELSE c[i - 8]
  <1>1. /\ t \in [0..7 -> Bit]
        /\ \A k \in 0..7 : c[k] \in Bit
    BY MixedBits
  <1>2. x = [i \in 0..15 |-> (Tapped(i + 1) + Moved(i)) % 2]
    BY DEF NextCrc, Mixed, Ticked
  <1>3. /\ Taps[1] = {0, 4} /\ Taps[2] = {1, 5} /\ Taps[3] = {2, 6} /\ Taps[4] = {3, 7}
        /\ Taps[5] = {4} /\ Taps[6] = {0, 4, 5} /\ Taps[7] = {1, 5, 6} /\ Taps[8] = {2, 6, 7}
        /\ Taps[9] = {3, 7} /\ Taps[10] = {4} /\ Taps[11] = {5} /\ Taps[12] = {6}
        /\ Taps[13] = {0, 4, 7} /\ Taps[14] = {1, 5} /\ Taps[15] = {2, 6} /\ Taps[16] = {3, 7}
    BY DEF Taps
  <1> DEFINE One(i) == Ticked(t, {i})
             Two(i, j) == Ticked(t, {i, j})
             Three(i, j, k) == Ticked(t, {i, j, k})
  <1>4. /\ \A i \in 0..7 : One(i) = t[i]
        /\ \A i, j \in 0..7 : i # j => Two(i, j) = t[i] + t[j]
        /\ \A i, j, k \in 0..7 : i # j /\ i # k /\ j # k => Three(i, j, k) = t[i] + t[j] + t[k]
    BY <1>1, Parity
  <1>5. /\ Tapped(1) = Two(0, 4) /\ Tapped(2) = Two(1, 5) /\ Tapped(3) = Two(2, 6)
        /\ Tapped(4) = Two(3, 7) /\ Tapped(5) = One(4) /\ Tapped(6) = Three(0, 4, 5)
        /\ Tapped(7) = Three(1, 5, 6) /\ Tapped(8) = Three(2, 6, 7)
    BY ONLY <1>3
  <1>6. /\ Tapped(9) = Two(3, 7) /\ Tapped(10) = One(4) /\ Tapped(11) = One(5) /\ Tapped(12) = One(6)
        /\ Tapped(13) = Three(0, 4, 7) /\ Tapped(14) = Two(1, 5) /\ Tapped(15) = Two(2, 6)
        /\ Tapped(16) = Two(3, 7)
    BY ONLY <1>3
  <1> HIDE DEF Tapped, One, Two, Three
  <1>7. /\ Tapped(1) = t[0] + t[4] /\ Tapped(2) = t[1] + t[5]
        /\ Tapped(3) = t[2] + t[6] /\ Tapped(4) = t[3] + t[7]
        /\ Tapped(5) = t[4] /\ Tapped(6) = t[0] + t[4] + t[5]
        /\ Tapped(7) = t[1] + t[5] + t[6] /\ Tapped(8) = t[2] + t[6] + t[7]
    BY <1>4, <1>5
  <1>8. /\ Tapped(9) = t[3] + t[7] /\ Tapped(10) = t[4] /\ Tapped(11) = t[5] /\ Tapped(12) = t[6]
        /\ Tapped(13) = t[0] + t[4] + t[7] /\ Tapped(14) = t[1] + t[5]
        /\ Tapped(15) = t[2] + t[6] /\ Tapped(16) = t[3] + t[7]
    BY <1>4, <1>6
  <1>9. \A i \in 0..15 : x[i] = (Tapped(i + 1) + Moved(i)) % 2
    BY <1>2
  <1>10. \A i \in 0..7 : Moved(i) = 0 /\ Moved(i + 8) = c[i]
    OBVIOUS
  <1> HIDE DEF Moved
  <1>11. \A i \in 1..16 : Tapped(i) \in 0..3
    <2>1. \A k \in 0..7 : t[k] \in {0, 1}
      BY <1>1 DEF Bit
    <2> QED
      BY <1>7, <1>8, <2>1
  <1>12. \A i \in 0..15 : Moved(i) \in Bit
    <2>1. \A i \in 0..15 : i \in 0..7 \/ (i - 8 \in 0..7 /\ i = (i - 8) + 8)
      OBVIOUS
    <2> QED
      BY <1>1, <1>10, <2>1 DEF Bit
  <1>13. x \in Sums
    <2>1. \A i \in 0..15 : (Tapped(i + 1) + Moved(i)) % 2 \in Bit
      <3> TAKE i \in 0..15
      <3>1. i + 1 \in 1..16
        OBVIOUS
      <3> QED
        BY <1>11, <1>12, <3>1 DEF Bit
    <2> QED
      BY <1>2, <2>1 DEF Sums
  <1>14. \A i \in 0..7 : x[i] = Tapped(i + 1) % 2 /\ x[i + 8] = (Tapped(i + 9) + c[i]) % 2
    <2> TAKE i \in 0..7
    <2>1. i \in 0..15 /\ i + 8 \in 0..15 /\ i + 1 \in 1..16 /\ (i + 8) + 1 = i + 9 /\ Tapped(i + 1) \in 0..3
      BY <1>11
    <2> QED
      BY <1>9, <1>10, <2>1
  <1>15. t[4] % 2 = t[4]
    BY <1>1 DEF Bit
  <1> QED
    BY <1>7, <1>8, <1>13, <1>14, <1>15

(* The low half of a sum tells what was mixed into it. *)
LEMMA CrcLowTells ==
  ASSUME NEW d \in Byte, NEW c \in Sums, NEW e \in Byte, NEW b \in Sums,
         \A k \in 0..7 : NextCrc(d, c)[k] = NextCrc(e, b)[k]
  PROVE  Mixed(d, c) = Mixed(e, b)
  <1> DEFINE t == Mixed(d, c)
             u == Mixed(e, b)
             x == NextCrc(d, c)
             y == NextCrc(e, b)
  <1>1. /\ t \in [0..7 -> Bit] /\ u \in [0..7 -> Bit]
        /\ \A k \in 0..7 : t[k] \in Bit /\ u[k] \in Bit
    BY MixedBits
  <1>2. /\ x[0] = (t[0] + t[4]) % 2 /\ x[1] = (t[1] + t[5]) % 2
        /\ x[2] = (t[2] + t[6]) % 2 /\ x[3] = (t[3] + t[7]) % 2
        /\ x[4] = t[4] /\ x[5] = (t[0] + t[4] + t[5]) % 2
        /\ x[6] = (t[1] + t[5] + t[6]) % 2 /\ x[7] = (t[2] + t[6] + t[7]) % 2
    BY CrcBits
  <1>3. /\ y[0] = (u[0] + u[4]) % 2 /\ y[1] = (u[1] + u[5]) % 2
        /\ y[2] = (u[2] + u[6]) % 2 /\ y[3] = (u[3] + u[7]) % 2
        /\ y[4] = u[4] /\ y[5] = (u[0] + u[4] + u[5]) % 2
        /\ y[6] = (u[1] + u[5] + u[6]) % 2 /\ y[7] = (u[2] + u[6] + u[7]) % 2
    BY CrcBits
  <1>4. /\ x[0] = y[0] /\ x[1] = y[1] /\ x[2] = y[2] /\ x[3] = y[3]
        /\ x[4] = y[4] /\ x[5] = y[5] /\ x[6] = y[6] /\ x[7] = y[7]
    OBVIOUS
  <1> HIDE DEF t, u, x, y
  <1>5. t[4] = u[4] /\ t[0] = u[0] /\ t[5] = u[5]
    <2>1. t[4] = u[4]
      BY <1>2, <1>3, <1>4
    <2>2. t[0] = u[0]
      BY <1>1, <1>2, <1>3, <1>4, <2>1 DEF Bit
    <2> QED
      BY <1>1, <1>2, <1>3, <1>4, <2>1, <2>2 DEF Bit
  <1>6. t[1] = u[1] /\ t[6] = u[6]
    <2>1. t[1] = u[1]
      BY <1>1, <1>2, <1>3, <1>4, <1>5 DEF Bit
    <2> QED
      BY <1>1, <1>2, <1>3, <1>4, <1>5, <2>1 DEF Bit
  <1>7. t[2] = u[2] /\ t[7] = u[7]
    <2>1. t[2] = u[2]
      BY <1>1, <1>2, <1>3, <1>4, <1>6 DEF Bit
    <2> QED
      BY <1>1, <1>2, <1>3, <1>4, <1>6, <2>1 DEF Bit
  <1>8. t[3] = u[3]
    BY <1>1, <1>2, <1>3, <1>4, <1>7 DEF Bit
  <1>9. \A k \in 0..7 : t[k] = u[k]
    <2> TAKE k \in 0..7
    <2>1. k \in {0, 1, 2, 3, 4, 5, 6, 7}
      OBVIOUS
    <2> QED
      BY <1>5, <1>6, <1>7, <1>8, <2>1
  <1>10. t = u
    BY <1>1, <1>9
  <1> QED
    BY <1>10 DEF t, u

(* A sum tells all that went into it. *)
LEMMA CrcTells ==
  ASSUME NEW d \in Byte, NEW c \in Sums, NEW e \in Byte, NEW b \in Sums, NextCrc(d, c) = NextCrc(e, b)
  PROVE  Mixed(d, c) = Mixed(e, b) /\ \A k \in 0..7 : c[k] = b[k]
  <1> DEFINE t == Mixed(d, c)
             u == Mixed(e, b)
             x == NextCrc(d, c)
  <1>1. /\ t \in [0..7 -> Bit] /\ u \in [0..7 -> Bit]
        /\ \A k \in 0..7 : t[k] \in Bit /\ u[k] \in Bit /\ c[k] \in Bit /\ b[k] \in Bit
    BY MixedBits
  <1>2. /\ x[8] = (t[3] + t[7] + c[0]) % 2 /\ x[9] = (t[4] + c[1]) % 2
        /\ x[10] = (t[5] + c[2]) % 2 /\ x[11] = (t[6] + c[3]) % 2
        /\ x[12] = (t[0] + t[4] + t[7] + c[4]) % 2 /\ x[13] = (t[1] + t[5] + c[5]) % 2
        /\ x[14] = (t[2] + t[6] + c[6]) % 2 /\ x[15] = (t[3] + t[7] + c[7]) % 2
    BY CrcBits
  <1>3. /\ x[8] = (u[3] + u[7] + b[0]) % 2 /\ x[9] = (u[4] + b[1]) % 2
        /\ x[10] = (u[5] + b[2]) % 2 /\ x[11] = (u[6] + b[3]) % 2
        /\ x[12] = (u[0] + u[4] + u[7] + b[4]) % 2 /\ x[13] = (u[1] + u[5] + b[5]) % 2
        /\ x[14] = (u[2] + u[6] + b[6]) % 2 /\ x[15] = (u[3] + u[7] + b[7]) % 2
    BY CrcBits
  <1>4. t = u
    BY CrcLowTells
  <1> HIDE DEF t, u, x
  <1> DEFINE Odd(m, v) == (m + v) % 2
  <1>5. \A v, w \in Bit, m \in 0..3 : Odd(m, v) = Odd(m, w) => v = w
    BY DEF Bit
  <1>6. c[0] = b[0] /\ c[1] = b[1] /\ c[2] = b[2] /\ c[3] = b[3]
    <2>1. t[3] + t[7] \in 0..3 /\ t[4] \in 0..3 /\ t[5] \in 0..3 /\ t[6] \in 0..3
      BY <1>1 DEF Bit
    <2>2. /\ Odd(t[3] + t[7], c[0]) = Odd(t[3] + t[7], b[0])
          /\ Odd(t[4], c[1]) = Odd(t[4], b[1])
          /\ Odd(t[5], c[2]) = Odd(t[5], b[2])
          /\ Odd(t[6], c[3]) = Odd(t[6], b[3])
      BY ONLY <1>2, <1>3, <1>4
    <2>3. \A k \in 0..3 : c[k] \in Bit /\ b[k] \in Bit
      BY <1>1
    <2> HIDE DEF Odd
    <2> QED
      BY ONLY <1>5, <2>1, <2>2, <2>3
  <1>7. c[4] = b[4] /\ c[5] = b[5] /\ c[6] = b[6] /\ c[7] = b[7]
    <2>1. /\ t[0] + t[4] + t[7] \in 0..3 /\ t[1] + t[5] \in 0..3
          /\ t[2] + t[6] \in 0..3 /\ t[3] + t[7] \in 0..3
      BY <1>1 DEF Bit
    <2>2. /\ Odd(t[0] + t[4] + t[7], c[4]) = Odd(t[0] + t[4] + t[7], b[4])
          /\ Odd(t[1] + t[5], c[5]) = Odd(t[1] + t[5], b[5])
          /\ Odd(t[2] + t[6], c[6]) = Odd(t[2] + t[6], b[6])
          /\ Odd(t[3] + t[7], c[7]) = Odd(t[3] + t[7], b[7])
      BY ONLY <1>2, <1>3, <1>4
    <2>3. \A k \in 4..7 : c[k] \in Bit /\ b[k] \in Bit
      BY <1>1
    <2> HIDE DEF Odd
    <2> QED
      BY ONLY <1>5, <2>1, <2>2, <2>3
  <1>8. \A k \in 0..7 : c[k] = b[k]
    <2> TAKE k \in 0..7
    <2>1. k \in {0, 1, 2, 3, 4, 5, 6, 7}
      OBVIOUS
    <2> QED
      BY <1>6, <1>7, <2>1
  <1> QED
    BY <1>4, <1>8 DEF t, u

(* Of the byte and the sum before it, one falsified alone falsifies the sum. *)
LEMMA CrcChanges ==
  ASSUME NEW d \in Byte, NEW c \in Sums, NEW e \in Byte, NEW b \in Sums, NextCrc(d, c) = NextCrc(e, b)
  PROVE  d = e <=> c = b
  <1>1. Mixed(d, c) = Mixed(e, b) /\ \A k \in 0..7 : c[k] = b[k]
    BY CrcTells
  <1>2. \A k \in 0..7 : (d[8 - k] + c[k + 8]) % 2 = (e[8 - k] + b[k + 8]) % 2
    <2> TAKE k \in 0..7
    <2>1. Mixed(d, c)[k] = Mixed(e, b)[k]
      BY <1>1
    <2> QED
      BY <2>1 DEF Mixed
  <1>3. \A k \in 0..7 : d[8 - k] \in Bit /\ e[8 - k] \in Bit /\ c[k + 8] \in Bit /\ b[k + 8] \in Bit
    BY MixedBits
  <1>4. \A k \in 0..7 : d[8 - k] = e[8 - k] <=> c[k + 8] = b[k + 8]
    BY <1>2, <1>3 DEF Bit
  <1>5. ASSUME d = e PROVE c = b
    <2>1. \A k \in 0..15 : c[k] = b[k]
      <3> TAKE k \in 0..15
      <3>1. k \in 0..7 \/ (k - 8 \in 0..7 /\ k = (k - 8) + 8)
        OBVIOUS
      <3> QED
        BY <1>1, <1>4, <1>5, <3>1
    <2> QED
      BY <2>1 DEF Sums
  <1>6. ASSUME c = b PROVE d = e
    <2>1. \A k \in 1..8 : d[k] = e[k]
      <3> TAKE k \in 1..8
      <3>1. 8 - k \in 0..7 /\ 8 - (8 - k) = k
        OBVIOUS
      <3> QED
        BY <1>4, <1>6, <3>1
    <2> QED
      BY <2>1 DEF Byte
  <1> QED
    BY <1>5, <1>6

(* The FCS of a sum, behind it, brings the residue. *)
LEMMA CrcCloses ==
  ASSUME NEW c \in Sums
  PROVE  /\ HighFcs(c) \in Byte /\ LowFcs(c) \in Byte
         /\ NextCrc(LowFcs(c), NextCrc(HighFcs(c), c)) = Residue
  <1> DEFINE h == HighFcs(c)
             l == LowFcs(c)
             x == NextCrc(h, c)
             t == Mixed(h, c)
             u == Mixed(l, x)
             y == NextCrc(l, x)
  <1>1. \A i \in 0..15 : c[i] \in Bit /\ 1 - c[i] \in Bit
    BY DEF Sums, Bit
  <1>2. h \in Byte /\ \A k \in 0..7 : h[8 - k] = 1 - c[k + 8]
    <2>1. \A i \in 1..8 : 16 - i \in 0..15 /\ 1 - c[16 - i] \in Bit
      BY <1>1
    <2>2. \A k \in 0..7 : 8 - k \in 1..8 /\ 16 - (8 - k) = k + 8
      OBVIOUS
    <2> QED
      BY <2>1, <2>2 DEF HighFcs, Byte
  <1>3. l \in Byte /\ \A k \in 0..7 : l[8 - k] = 1 - c[k]
    <2>1. \A i \in 1..8 : 8 - i \in 0..15 /\ 1 - c[8 - i] \in Bit
      BY <1>1
    <2>2. \A k \in 0..7 : 8 - k \in 1..8 /\ 8 - (8 - k) = k
      OBVIOUS
    <2> QED
      BY <2>1, <2>2 DEF LowFcs, Byte
  <1> HIDE DEF h, l
  <1>4. \A k \in 0..7 : t[k] = 1
    <2> TAKE k \in 0..7
    <2>1. k + 8 \in 0..15 /\ c[k + 8] \in Bit /\ h[8 - k] = 1 - c[k + 8]
      BY <1>1, <1>2
    <2> QED
      BY <2>1 DEF Mixed, Bit
  <1> HIDE DEF t
  <1>5. x \in Sums /\ \A k \in 0..7 : c[k] \in Bit
    BY <1>1, <1>2, CrcBits
  <1>6. /\ x[8] = c[0] /\ x[9] = (1 + c[1]) % 2 /\ x[10] = (1 + c[2]) % 2 /\ x[11] = (1 + c[3]) % 2
        /\ x[12] = (1 + c[4]) % 2 /\ x[13] = c[5] /\ x[14] = c[6] /\ x[15] = c[7]
    <2>1. /\ x[8] = (t[3] + t[7] + c[0]) % 2 /\ x[9] = (t[4] + c[1]) % 2
          /\ x[10] = (t[5] + c[2]) % 2 /\ x[11] = (t[6] + c[3]) % 2
          /\ x[12] = (t[0] + t[4] + t[7] + c[4]) % 2 /\ x[13] = (t[1] + t[5] + c[5]) % 2
          /\ x[14] = (t[2] + t[6] + c[6]) % 2 /\ x[15] = (t[3] + t[7] + c[7]) % 2
      BY <1>2, CrcBits DEF t
    <2>2. /\ t[0] = 1 /\ t[1] = 1 /\ t[2] = 1 /\ t[3] = 1
          /\ t[4] = 1 /\ t[5] = 1 /\ t[6] = 1 /\ t[7] = 1
      BY <1>4
    <2>3. \A v \in Bit : (1 + 1 + v) % 2 = v /\ (1 + 1 + 1 + v) % 2 = (1 + v) % 2
      BY DEF Bit
    <2> QED
      BY <1>5, <2>1, <2>2, <2>3
  <1> HIDE DEF x
  <1> DEFINE Odd(v, w) == ((1 - v) + w) % 2
  <1>7. /\ u[0] = 1 /\ u[1] = 0 /\ u[2] = 0 /\ u[3] = 0
        /\ u[4] = 0 /\ u[5] = 1 /\ u[6] = 1 /\ u[7] = 1
    <2>1. \A k \in 0..7 : u[k] = Odd(c[k], x[k + 8])
      BY <1>3 DEF Mixed
    <2>2. \A v \in Bit : Odd(v, v) = 1 /\ Odd(v, (1 + v) % 2) = 0
      BY DEF Bit
    <2> HIDE DEF u, Odd
    <2>3. /\ u[0] = Odd(c[0], x[8]) /\ u[1] = Odd(c[1], x[9])
          /\ u[2] = Odd(c[2], x[10]) /\ u[3] = Odd(c[3], x[11])
          /\ u[4] = Odd(c[4], x[12]) /\ u[5] = Odd(c[5], x[13])
          /\ u[6] = Odd(c[6], x[14]) /\ u[7] = Odd(c[7], x[15])
      BY <2>1
    <2> QED
      BY <1>5, <1>6, <2>2, <2>3
  <1>8. /\ y \in Sums
        /\ y[0] = (u[0] + u[4]) % 2 /\ y[1] = (u[1] + u[5]) % 2
        /\ y[2] = (u[2] + u[6]) % 2 /\ y[3] = (u[3] + u[7]) % 2
        /\ y[4] = u[4] /\ y[5] = (u[0] + u[4] + u[5]) % 2
        /\ y[6] = (u[1] + u[5] + u[6]) % 2 /\ y[7] = (u[2] + u[6] + u[7]) % 2
        /\ y[8] = (u[3] + u[7] + x[0]) % 2 /\ y[9] = (u[4] + x[1]) % 2
        /\ y[10] = (u[5] + x[2]) % 2 /\ y[11] = (u[6] + x[3]) % 2
        /\ y[12] = (u[0] + u[4] + u[7] + x[4]) % 2 /\ y[13] = (u[1] + u[5] + x[5]) % 2
        /\ y[14] = (u[2] + u[6] + x[6]) % 2 /\ y[15] = (u[3] + u[7] + x[7]) % 2
    BY <1>3, <1>5, CrcBits
  <1>9. /\ x[0] = 0 /\ x[1] = 0 /\ x[2] = 0 /\ x[3] = 0
        /\ x[4] = 1 /\ x[5] = 1 /\ x[6] = 1 /\ x[7] = 1
    <2>1. /\ x[0] = (t[0] + t[4]) % 2 /\ x[1] = (t[1] + t[5]) % 2
          /\ x[2] = (t[2] + t[6]) % 2 /\ x[3] = (t[3] + t[7]) % 2
          /\ x[4] = t[4] /\ x[5] = (t[0] + t[4] + t[5]) % 2
          /\ x[6] = (t[1] + t[5] + t[6]) % 2 /\ x[7] = (t[2] + t[6] + t[7]) % 2
      BY <1>2, CrcBits DEF t, x
    <2>2. /\ t[0] = 1 /\ t[1] = 1 /\ t[2] = 1 /\ t[3] = 1
          /\ t[4] = 1 /\ t[5] = 1 /\ t[6] = 1 /\ t[7] = 1
      BY <1>4
    <2> QED
      BY <2>1, <2>2
  <1> HIDE DEF y, u
  <1>10. \A i \in 0..15 : y[i] = B(i \in {0, 1, 2, 3, 8, 10, 11, 12})
    <2>1. /\ y[0] = 1 /\ y[1] = 1 /\ y[2] = 1 /\ y[3] = 1
          /\ y[4] = 0 /\ y[5] = 0 /\ y[6] = 0 /\ y[7] = 0
      BY <1>7, <1>8
    <2>2. /\ y[8] = 1 /\ y[9] = 0 /\ y[10] = 1 /\ y[11] = 1
          /\ y[12] = 1 /\ y[13] = 0 /\ y[14] = 0 /\ y[15] = 0
      BY <1>7, <1>8, <1>9
    <2> TAKE i \in 0..15
    <2>3. i \in {0, 1, 2, 3, 4, 5, 6, 7, 8, 9, 10, 11, 12, 13, 14, 15}
      OBVIOUS
    <2> QED
      BY <2>1, <2>2, <2>3 DEF B
  <1>11. y = Residue
    BY <1>8, <1>10 DEF Sums, Residue
  <1> QED
    BY <1>2, <1>3, <1>11 DEF h, l, x, y

(* The FCS of a frame: c is what the bytes of f make of ones, one by one. *)
FcsOf(f, c) ==
    \E s \in [0..Len(f) -> Sums] :
        /\ s[0] = CrcOnes /\ s[Len(f)] = c
        /\ \A k \in 1..Len(f) : s[k] = NextCrc(f[k], s[k - 1])

LEMMA FcsStart == FcsOf(<<>>, CrcOnes)
  <1> DEFINE s == [k \in 0..0 |-> CrcOnes]
  <1>1. CrcOnes \in Sums
    BY DEF CrcOnes, Sums, Bit
  <1>2. Len(<<>>) = 0 /\ s \in [0..0 -> Sums] /\ s[0] = CrcOnes
    BY <1>1
  <1>3. \A k \in 1..0 : s[k] = NextCrc(<<>>[k], s[k - 1])
    OBVIOUS
  <1> HIDE DEF s
  <1> QED
    BY <1>2, <1>3 DEF FcsOf

(* One byte more, one step more; and no frame has two sums. *)
LEMMA FcsAppend ==
  ASSUME NEW f \in Seq(Byte), NEW c, FcsOf(f, c), NEW d \in Byte
  PROVE  c \in Sums /\ FcsOf(Append(f, d), NextCrc(d, c))
  <1> DEFINE n == Len(f)
             g == Append(f, d)
             x == NextCrc(d, c)
  <1>1. n \in Nat /\ Len(g) = n + 1 /\ g[n + 1] = d /\ \A k \in 1..n : g[k] = f[k]
    BY DEF g
  <1>2. PICK s \in [0..n -> Sums] :
           /\ s[0] = CrcOnes /\ s[n] = c
           /\ \A k \in 1..n : s[k] = NextCrc(f[k], s[k - 1])
    BY DEF FcsOf
  <1>3. c \in Sums
    BY <1>1, <1>2
  <1>4. x \in Sums
    BY <1>3, CrcBits
  <1> HIDE DEF n, g, x
  <1> DEFINE r == [k \in 0..n + 1 |-> IF k = n + 1 THEN x ELSE s[k]]
  <1>5. r \in [0..n + 1 -> Sums] /\ r[0] = CrcOnes /\ r[n + 1] = x /\ \A k \in 0..n : r[k] = s[k]
    BY <1>1, <1>2, <1>4
  <1> HIDE DEF r
  <1>6. \A k \in 1..n + 1 : r[k] = NextCrc(g[k], r[k - 1])
    <2> TAKE k \in 1..n + 1
    <2>1. CASE k = n + 1
      BY <1>1, <1>2, <1>5, <2>1 DEF x
    <2>2. CASE k \in 1..n
      <3>1. k \in 0..n /\ k - 1 \in 0..n
        BY <1>1, <2>2
      <3> QED
        BY <1>1, <1>2, <1>5, <2>2, <3>1
    <2> QED
      BY <1>1, <2>1, <2>2
  <1>7. FcsOf(g, x)
    BY <1>1, <1>5, <1>6 DEF FcsOf
  <1> QED
    BY <1>3, <1>7 DEF g, x

(* The sums of two frames part at the first byte in which the frames do, and  *)
(* stay apart as long as the bytes behind it are the same.                    *)
LEMMA SumsMeet ==
  ASSUME NEW n \in Nat, NEW f \in [1..n -> Byte], NEW g \in [1..n -> Byte],
         NEW s \in [0..n -> Sums], \A k \in 1..n : s[k] = NextCrc(f[k], s[k - 1]),
         NEW r \in [0..n -> Sums], \A k \in 1..n : r[k] = NextCrc(g[k], r[k - 1]),
         NEW m \in 0..n, \A k \in 1..n : k > m => f[k] = g[k],
         NEW j \in m..n
  PROVE  s[j] = r[j] <=> s[m] = r[m]
  <1> DEFINE T == {k \in m..n : ~(s[k] = r[k] <=> s[m] = r[m])}
  <1>1. SUFFICES T = {}
    BY <1>1
  <1>2. SUFFICES ASSUME T # {} PROVE FALSE
    OBVIOUS
  <1>3. PICK l \in T : \A k \in T : l <= k
    <2>1. T \subseteq Nat
      OBVIOUS
    <2> HIDE DEF T
    <2> QED
      BY <1>2, <2>1, LeastNumber
  <1>4. l # m /\ l \in m..n /\ l - 1 \in m..n /\ l - 1 \notin T /\ l > m /\ l \in 1..n /\ l - 1 \in 0..n
    <2>1. l # m /\ l \in m..n
      BY DEF T
    <2>2. l - 1 \notin T
      <3> HIDE DEF T
      <3> QED
        BY <1>3, <2>1
    <2> QED
      BY <2>1, <2>2
  <1>5. s[l - 1] = r[l - 1] <=> s[m] = r[m]
    BY <1>4
  <1>6. s[l] = NextCrc(f[l], s[l - 1]) /\ r[l] = NextCrc(f[l], r[l - 1])
    BY <1>4
  <1>7. s[l] = r[l] <=> s[l - 1] = r[l - 1]
    BY <1>4, <1>6, CrcChanges
  <1> QED
    BY <1>5, <1>7 DEF T

LEMMA FcsUnique ==
  ASSUME NEW f \in Seq(Byte), NEW c, FcsOf(f, c), NEW b, FcsOf(f, b)
  PROVE  c = b
  <1> DEFINE n == Len(f)
  <1>1. n \in Nat /\ f \in [1..n -> Byte]
    OBVIOUS
  <1>2. PICK s \in [0..n -> Sums] :
           /\ s[0] = CrcOnes /\ s[n] = c
           /\ \A k \in 1..n : s[k] = NextCrc(f[k], s[k - 1])
    BY DEF FcsOf
  <1>3. PICK r \in [0..n -> Sums] :
           /\ r[0] = CrcOnes /\ r[n] = b
           /\ \A k \in 1..n : r[k] = NextCrc(f[k], r[k - 1])
    BY DEF FcsOf
  <1> HIDE DEF n
  <1>4. 0 \in 0..n /\ n \in 0..n
    BY <1>1
  <1>5. s[n] = r[n] <=> s[0] = r[0]
    BY <1>1, <1>2, <1>3, <1>4, SumsMeet
  <1> QED
    BY <1>2, <1>3, <1>5

(* Two bytes after the same sum: the sum behind them tells both. *)
LEMMA TwoBytesTold ==
  ASSUME NEW c \in Sums, NEW d \in Byte, NEW e \in Byte, NEW a \in Byte, NEW b \in Byte,
         NextCrc(e, NextCrc(d, c)) = NextCrc(b, NextCrc(a, c))
  PROVE  d = a /\ e = b
  <1> DEFINE x == NextCrc(d, c)
             y == NextCrc(a, c)
  <1>1. x \in Sums /\ y \in Sums
    BY CrcBits
  <1>2. (\A k \in 0..7 : x[k] = y[k]) /\ (e = b <=> x = y)
    BY <1>1, CrcTells, CrcChanges
  <1>3. Mixed(d, c) = Mixed(a, c)
    BY <1>2, CrcLowTells
  <1>4. \A k \in 1..8 : d[k] = a[k]
    <2> TAKE k \in 1..8
    <2>1. 8 - k \in 0..7 /\ 8 - (8 - k) = k /\ (8 - k) + 8 \in 0..15
      OBVIOUS
    <2>2. /\ Mixed(d, c)[8 - k] = (d[k] + c[(8 - k) + 8]) % 2
          /\ Mixed(a, c)[8 - k] = (a[k] + c[(8 - k) + 8]) % 2
      BY <2>1 DEF Mixed
    <2>3. d[k] \in Bit /\ a[k] \in Bit /\ c[(8 - k) + 8] \in Bit
      BY <2>1 DEF Byte, Sums
    <2> QED
      BY <1>3, <2>2, <2>3 DEF Bit
  <1>5. d = a
    BY <1>4 DEF Byte
  <1> QED
    BY <1>2, <1>5

(* The receiver's test of the FCS: behind any sum the residue comes from one  *)
(* pair of bytes only, the inverted sum that TxFcs sends, high byte first    *)
(* (TxFcs.vhd, RxFcs.vhd, "x1d0f").                                          *)
THEOREM ResidueDecides ==
  ASSUME NEW c \in Sums, NEW h \in Byte, NEW l \in Byte
  PROVE  NextCrc(l, NextCrc(h, c)) = Residue <=> h = HighFcs(c) /\ l = LowFcs(c)
  <1>1. HighFcs(c) \in Byte /\ LowFcs(c) \in Byte
    BY CrcCloses
  <1>2. NextCrc(LowFcs(c), NextCrc(HighFcs(c), c)) = Residue
    BY CrcCloses
  <1> QED
    BY <1>1, <1>2, TwoBytesTold

(* A burst shows in the FCS: falsify a frame, its FCS included, in up to two *)
(* neighbouring bytes without changing its length, and what the receiver     *)
(* sums up changes (TxFcs.vhd, RxFcs.vhd).                                   *)
THEOREM BurstTold ==
  ASSUME NEW f \in Seq(Byte), NEW g \in Seq(Byte), Len(g) = Len(f), f # g,
         NEW m \in 1..Len(f) - 1, \A k \in 1..Len(f) : k \notin {m, m + 1} => f[k] = g[k],
         NEW c, FcsOf(f, c), NEW b, FcsOf(g, b)
  PROVE  c # b
  <1> DEFINE n == Len(f)
  <1>1. n \in Nat /\ f \in [1..n -> Byte] /\ g \in [1..n -> Byte]
    OBVIOUS
  <1>2. PICK s \in [0..n -> Sums] :
           /\ s[0] = CrcOnes /\ s[n] = c
           /\ \A k \in 1..n : s[k] = NextCrc(f[k], s[k - 1])
    BY DEF FcsOf
  <1>3. PICK r \in [0..n -> Sums] :
           /\ r[0] = CrcOnes /\ r[n] = b
           /\ \A k \in 1..n : r[k] = NextCrc(g[k], r[k - 1])
    BY DEF FcsOf
  <1>4. m \in 1..n - 1 /\ \A k \in 1..n : k \notin {m, m + 1} => f[k] = g[k]
    OBVIOUS
  <1> HIDE DEF n
  <1>5. s[m - 1] = r[m - 1]
    <2> DEFINE p == m - 1
               F == [k \in 1..p |-> f[k]]
               S == [k \in 0..p |-> s[k]]
               R == [k \in 0..p |-> r[k]]
    <2>1. /\ p \in Nat /\ F \in [1..p -> Byte] /\ S \in [0..p -> Sums] /\ R \in [0..p -> Sums]
          /\ 0 \in 0..p /\ p \in 0..p
      BY <1>1, <1>4
    <2>2. \A k \in 1..p : k \in 1..n /\ k \notin {m, m + 1} /\ k \in 0..p /\ k - 1 \in 0..p
      BY <1>1, <1>4
    <2>3. \A k \in 1..p : S[k] = NextCrc(F[k], S[k - 1]) /\ R[k] = NextCrc(F[k], R[k - 1])
      BY <1>2, <1>3, <1>4, <2>2
    <2>4. S[0] = R[0] /\ S[p] = s[m - 1] /\ R[p] = r[m - 1]
      BY <1>2, <1>3, <2>1
    <2> HIDE DEF p, F, S, R
    <2>5. S[p] = R[p] <=> S[0] = R[0]
      BY <2>1, <2>3, SumsMeet
    <2> QED
      BY <2>4, <2>5
  <1>6. s[m + 1] # r[m + 1]
    <2>1. m \in 1..n /\ m + 1 \in 1..n /\ m - 1 \in 0..n /\ (m + 1) - 1 = m
      BY <1>1, <1>4
    <2>2. /\ s[m + 1] = NextCrc(f[m + 1], NextCrc(f[m], s[m - 1]))
          /\ r[m + 1] = NextCrc(g[m + 1], NextCrc(g[m], r[m - 1]))
      BY <1>2, <1>3, <2>1
    <2>3. ~(f[m] = g[m] /\ f[m + 1] = g[m + 1])
      BY <1>1, <1>4
    <2>4. /\ f[m] \in Byte /\ f[m + 1] \in Byte /\ g[m] \in Byte /\ g[m + 1] \in Byte
          /\ s[m - 1] \in Sums
      BY <1>1, <1>2, <2>1
    <2> QED
      BY <1>5, <2>2, <2>3, <2>4, TwoBytesTold
  <1>7. s[n] = r[n] <=> s[m + 1] = r[m + 1]
    <2>1. m + 1 \in 0..n /\ n \in (m + 1)..n /\ \A k \in 1..n : k > m + 1 => f[k] = g[k]
      BY <1>1, <1>4
    <2> QED
      BY <1>1, <1>2, <1>3, <2>1, SumsMeet
  <1> QED
    BY <1>2, <1>3, <1>6, <1>7

-----------------------------------------------------------------------------
(* The registers. *)

(* A register of words shifts like one of bits. *)
LEMMA WordShift ==
  ASSUME NEW n \in Nat \ {0}, NEW S, NEW r \in [1..n -> S], NEW b \in S
  PROVE  /\ Shift(r, b) \in [1..n -> S]
         /\ Shift(r, b)[n] = b
         /\ \A i \in 1..(n - 1) : Shift(r, b)[i] = r[i + 1]
  <1>1. r \in Seq(S) /\ Len(r) = n
    BY SeqDef
  <1>2. r # <<>>
    BY <1>1
  <1>3. /\ Tail(r) \in Seq(S) /\ Len(Tail(r)) = n - 1
        /\ \A i \in 1..(n - 1) : Tail(r)[i] = r[i + 1]
    BY <1>1, <1>2, HeadTailProperties
  <1>4. /\ Shift(r, b) \in Seq(S) /\ Len(Shift(r, b)) = n /\ Shift(r, b)[n] = b
        /\ \A i \in 1..(n - 1) : Shift(r, b)[i] = Tail(r)[i]
    BY <1>1, <1>3, AppendProperties DEF Shift
  <1>5. Shift(r, b) \in [1..n -> S]
    BY <1>4, LenProperties
  <1> QED
    BY <1>3, <1>4, <1>5

LEMMA RegisterSeq ==
  ASSUME NEW n \in Nat
  PROVE  /\ \A r \in Register(n) : r \in Seq(Bit) /\ Len(r) = n /\ \A i \in 1..n : r[i] \in Bit
         /\ \A s \in Seq(Bit) : Len(s) = n => s \in Register(n)
  <1>1. ASSUME NEW r \in Register(n)
        PROVE  r \in Seq(Bit) /\ Len(r) = n /\ \A i \in 1..n : r[i] \in Bit
    BY SeqDef DEF Register
  <1>2. ASSUME NEW s \in Seq(Bit), Len(s) = n
        PROVE  s \in Register(n)
    BY <1>2, LenProperties DEF Register
  <1> QED
    BY <1>1, <1>2

LEMMA CrcWide ==
  ASSUME NEW d \in Byte, NEW c \in Sums
  PROVE  NextCrc(d, c) \in Sums
  BY CrcBits

(* The widths of all registers, and the ranges of what is counted. *)
FcsWidth == [state : FcsStates, crc : Sums, valid : Bit, write : Bit, d : Byte]
AbtWidth == [on : Bit, cnt : 0..8, seq : Bit]
CtlWidth == [state : CtlStates, cnt : 0..8, open : Bit, seq : Bit, latch : Bit]
P2sWidth == [temp : Register(16), cnt : 0..7, shifting : Bit, out : Register(2)]
LatWidth == [reg : Byte, ready : Bit, halt : Bit]
FlgWidth ==
    [on : Bit, reg : Register(8), seq : Bit, shift : 0..7, close : 0..16, defence : Bit, tx : Bit]
TxWidths ==
    /\ port \in Ports /\ txEnable \in Bit
    /\ buff \in {"idle", "write", "read"} /\ rest \in Seq(Byte)
    /\ buff = "idle" <=> rest = <<>>
    /\ rdy \in Register(2) /\ wr \in Register(2) /\ va \in Register(2)
    /\ fcs \in FcsWidth /\ (fcs.state = "read" => buff = "read")
    /\ abt \in AbtWidth
    /\ ctl \in CtlWidth /\ (ctl.state = "intro" => ctl.cnt < 8)
    /\ p2s \in P2sWidth /\ lat \in LatWidth /\ flg \in FlgWidth

LineWidth == [tx : Bit, rx : Bit, prev : Bit]
DetWidth == [shift : Register(8), block : Register(8), abort : Bit, rx : Bit]
RxcWidth ==
    [init : Bit, cnt : 0..7, start : Bit, status : Bit, valid : Bit, delay : Register(8),
     enable : Bit, tries : 0..5, err : Bit]
ZeroWidth == [check : Register(6), temp : Byte, cnt : 0..7, reg : Byte, full : Bit]
OutWidth == [d : Byte, ready : Bit, avail : Bit]
RfcsStates == {"idle", "run", "read", "eof1", "eof2", "eofZ"}
RfcsWidth ==
    [state : RfcsStates, crc : Sums, reg : [1..3 -> Byte], cnt : 0..2,
     read : Bit, prior : Bit, write : Bit]
RxWidths ==
    /\ line \in LineWidth /\ det \in DetWidth /\ rxc \in RxcWidth
    /\ zero \in ZeroWidth /\ out \in OutWidth
    /\ rdb \in Register(2) /\ rv \in Register(2) /\ rr \in Register(2)
    /\ rfcs \in RfcsWidth /\ got \in Seq(Byte)

Counts ==
    /\ sent \in 0..Len(port.script) /\ flips \in Nat /\ cuts \in Nat /\ pause \in 0..Quiet
    /\ seen \in [due : Seq(Seq(Byte)), lost : Nat, strange : SUBSET Seq(Byte), bad : BOOLEAN]

TypeOK == TxWidths /\ RxWidths /\ Counts

(* Constants and helpers in their sets. *)
LEMMA Bits ==
  /\ \A p \in BOOLEAN : B(p) \in Bit
  /\ \A i \in Int : i % 2 \in Bit
  /\ \A v \in Bit : 1 - v \in Bit
  /\ 0 \in Bit /\ 1 \in Bit
  BY DEF B, Bit

LEMMA Words ==
  /\ Byte = Register(8)
  /\ Ones \in Byte /\ Zeros \in Byte /\ Flag \in Byte /\ Abort \in Byte
  /\ CrcOnes \in Sums /\ Residue \in Sums
  /\ Vector(3, Ones) \in [1..3 -> Byte] /\ Vector(6, 0) \in Register(6)
  /\ Vector(16, 0) \in Register(16)
  <1>1. Abort \in Byte
    BY DEF Abort, Byte, Bit
  <1>2. Byte = Register(8)
    BY DEF Byte, Register
  <1>3. \A n \in Nat : \A b \in Bit : Vector(n, b) \in Register(n)
    BY DEF Vector, Register
  <1>4. Ones \in Byte /\ Zeros \in Byte /\ Flag \in Byte
    BY <1>2, Resets
  <1>5. Vector(3, Ones) \in [1..3 -> Byte]
    BY <1>4 DEF Vector
  <1>6. CrcOnes \in Sums /\ Residue \in Sums
    <2>1. \A i \in 0..15 : B(i \in {0, 1, 2, 3, 8, 10, 11, 12}) \in Bit
      BY DEF B, Bit
    <2> QED
      BY <2>1, Bits DEF CrcOnes, Residue, Sums
  <1> QED
    BY <1>1, <1>2, <1>3, <1>4, <1>5, <1>6, Bits

(* What the system clock makes of TxFcs, RxFcs and the account. *)
LEMMA FcsBytes ==
  ASSUME NEW c \in Sums
  PROVE  HighFcs(c) \in Byte /\ LowFcs(c) \in Byte
  BY CrcCloses

LEMMA FcsWide ==
  ASSUME TxWidths
  PROVE  NextTxFcs \in FcsWidth /\ (NextTxFcs.state = "read" => Avail)
  <1> DEFINE x == NextTxFcs
  <1>1. /\ fcs \in FcsWidth /\ rest \in Seq(Byte) /\ rdy[1] \in Bit
        /\ fcs.state = "read" => rest # <<>> /\ Head(rest) \in Byte
    BY FlopBits DEF TxWidths
  <1>2. /\ \A d \in Byte : NextCrc(d, fcs.crc) \in Sums
        /\ HighFcs(fcs.crc) \in Byte /\ LowFcs(fcs.crc) \in Byte
    BY <1>1, CrcBits, FcsBytes DEF FcsWidth
  <1> USE <1>1, <1>2, Bits, Words DEF FcsWidth, FcsStates, Fetching
  <1>3. CASE fcs.state = "idle"
    BY <1>3 DEF NextTxFcs, B
  <1>4. CASE fcs.state = "read"
    BY <1>4 DEF NextTxFcs
  <1>5. CASE fcs.state = "readyLow"
    BY <1>5 DEF NextTxFcs
  <1>6. CASE fcs.state = "wait"
    BY <1>6 DEF NextTxFcs
  <1>7. CASE fcs.state = "closeBody"
    BY <1>7 DEF NextTxFcs
  <1>8. CASE fcs.state = "fcs0"
    BY <1>8 DEF NextTxFcs
  <1>9. CASE fcs.state = "closeFcs0"
    BY <1>9 DEF NextTxFcs
  <1>10. CASE fcs.state = "fcs1"
    BY <1>10 DEF NextTxFcs
  <1>11. CASE fcs.state = "closeFcs1"
    BY <1>11 DEF NextTxFcs
  <1> QED
    BY <1>3, <1>4, <1>5, <1>6, <1>7, <1>8, <1>9, <1>10, <1>11

LEMMA RfcsWide ==
  ASSUME RxWidths
  PROVE  NextRxFcs \in RfcsWidth
  <1>1. rfcs \in RfcsWidth /\ out.d \in Byte
    BY DEF RxWidths, OutWidth
  <1>2. /\ Shift(rfcs.reg, out.d) \in [1..3 -> Byte]
        /\ NextCrc(rfcs.reg[1], rfcs.crc) \in Sums
        /\ NextCrc(rfcs.reg[2], rfcs.crc) \in Sums
        /\ NextCrc(rfcs.reg[3], rfcs.crc) \in Sums
        /\ rfcs.cnt \in 0..2
    <2>1. /\ rfcs.reg \in [1..3 -> Byte] /\ rfcs.crc \in Sums /\ rfcs.cnt \in 0..2
          /\ rfcs.reg[1] \in Byte /\ rfcs.reg[2] \in Byte /\ rfcs.reg[3] \in Byte
      BY <1>1 DEF RfcsWidth
    <2>2. Shift(rfcs.reg, out.d) \in [1..3 -> Byte]
      <3>1. 3 \in Nat \ {0}
        OBVIOUS
      <3> QED
        BY <1>1, <2>1, <3>1, WordShift, Zenon
    <2> QED
      BY <2>1, <2>2, CrcWide
  <1> DEFINE later == [rfcs EXCEPT !.write = rfcs.prior]
  <1>3. later \in RfcsWidth /\ later.crc = rfcs.crc /\ later.cnt = rfcs.cnt /\ later.reg = rfcs.reg
    BY <1>1 DEF RfcsWidth
  <1> HIDE DEF later
  <1>4. CASE rfcs.state = "idle"
    BY <1>1, <1>4, Words, Bits DEF NextRxFcs, RfcsWidth, RfcsStates
  <1>5. CASE rfcs.state = "run"
    <2>1. NextRxFcs = [later EXCEPT !.state = IF rv[1] = 1 THEN IF rr[1] = 1 THEN "read" ELSE "run"
                                    ELSE IF rfcs.cnt = 0 THEN "idle" ELSE "eof1",
                          !.crc = IF rfcs.write = 1 THEN NextCrc(rfcs.reg[1], @) ELSE @,
                          !.read = 0, !.prior = 0]
      BY <1>5 DEF NextRxFcs, later
    <2>2. (IF rfcs.write = 1 THEN NextCrc(rfcs.reg[1], later.crc) ELSE later.crc) \in Sums
      BY <1>1, <1>2, <1>3 DEF RfcsWidth
    <2> QED
      BY <1>3, <2>1, <2>2, Bits DEF RfcsWidth, RfcsStates
  <1>6. CASE rfcs.state = "read" /\ rr[1] = 1
    BY <1>1, <1>6, Bits DEF NextRxFcs, RfcsWidth
  <1>7. CASE rfcs.state = "read" /\ rr[1] # 1
    <2>1. NextRxFcs = [later EXCEPT !.state = "run", !.read = 0, !.reg = Shift(@, out.d),
                          !.prior = IF rfcs.cnt > 1 THEN 1 ELSE @,
                          !.cnt = IF @ < 2 THEN @ + 1 ELSE @]
      BY <1>7 DEF NextRxFcs, later
    <2>2. /\ (IF rfcs.cnt > 1 THEN 1 ELSE later.prior) \in Bit
          /\ (IF later.cnt < 2 THEN later.cnt + 1 ELSE later.cnt) \in 0..2
      BY <1>2, <1>3, Bits DEF RfcsWidth
    <2>3. Shift(later.reg, out.d) \in [1..3 -> Byte]
      BY <1>2, <1>3
    <2> DEFINE p == IF rfcs.cnt > 1 THEN 1 ELSE later.prior
               n == IF later.cnt < 2 THEN later.cnt + 1 ELSE later.cnt
               r == Shift(later.reg, out.d)
    <2>4. NextRxFcs = [later EXCEPT !.state = "run", !.read = 0, !.reg = r, !.prior = p, !.cnt = n]
      BY <2>1
    <2>5. p \in Bit /\ n \in 0..2 /\ r \in [1..3 -> Byte]
      BY <2>2, <2>3
    <2> HIDE DEF p, n, r
    <2> QED
      BY <1>3, <2>4, <2>5, Bits DEF RfcsWidth, RfcsStates
  <1>8. CASE rfcs.state = "eof1"
    <2>1. NextRxFcs = [later EXCEPT !.state = "eof2", !.crc = NextCrc(rfcs.reg[2], @)]
      BY <1>8 DEF NextRxFcs, later
    <2> QED
      BY <1>2, <1>3, <2>1 DEF RfcsWidth, RfcsStates
  <1>9. CASE rfcs.state = "eof2"
    <2>1. NextRxFcs = [later EXCEPT !.state = "eofZ", !.crc = NextCrc(rfcs.reg[3], @)]
      BY <1>9 DEF NextRxFcs, later
    <2> QED
      BY <1>2, <1>3, <2>1 DEF RfcsWidth, RfcsStates
  <1>10. CASE rfcs.state = "eofZ"
    BY <1>1, <1>10, Bits DEF NextRxFcs, RfcsWidth, RfcsStates
  <1> QED
    BY <1>1, <1>4, <1>5, <1>6, <1>7, <1>8, <1>9, <1>10 DEF RfcsWidth, RfcsStates

(* What the bit clock makes of the transmitter's registers. *)
LEMMA TxSlowWide ==
  ASSUME TxWidths
  PROVE  /\ NextAbt \in AbtWidth /\ NextLat \in LatWidth
         /\ NextCtl \in CtlWidth /\ (NextCtl.state = "intro" => NextCtl.cnt < 8)
  <1>1. /\ abt \in AbtWidth /\ lat \in LatWidth /\ ctl \in CtlWidth /\ fcs \in FcsWidth
        /\ port.flag \in 0..7 /\ (ctl.state = "intro" => ctl.cnt < 8)
    BY PortsAssumption DEF TxWidths
  <1>2. NextAbt \in AbtWidth
    BY <1>1, Bits DEF NextAbt, AbtWidth, LatWidth
  <1>3. NextLat \in LatWidth
    BY <1>1, Bits, Words DEF NextLat, LatWidth, FcsWidth
  <1>4. NextCtl \in CtlWidth /\ (NextCtl.state = "intro" => NextCtl.cnt < 8)
    <2> DEFINE Fits(x) == x \in CtlWidth /\ (x.state = "intro" => x.cnt < 8)
    <2>1. /\ Fits(ctl)
          /\ \A s \in CtlStates \ {"intro"}, n \in 0..8, q, l \in Bit :
                Fits([ctl EXCEPT !.state = s, !.cnt = n, !.seq = q, !.latch = l])
          /\ ctl.state # "intro" => \A n \in 0..8, q, l \in Bit :
                Fits([ctl EXCEPT !.cnt = n, !.seq = q, !.latch = l])
      BY <1>1 DEF CtlWidth
    <2>2. CASE ctl.state = "idle"
      <3>1. \/ NextCtl = [ctl EXCEPT !.open = 0, !.seq = 0, !.latch = 0]
            \/ NextCtl = [state |-> "intro", cnt |-> IF port.flag < 4 THEN 4 ELSE 7 - port.flag,
                          open |-> 0, seq |-> 0, latch |-> 0]
            \/ NextCtl = ctl
        BY <2>2 DEF NextCtl
      <3>2. Fits([ctl EXCEPT !.open = 0, !.seq = 0, !.latch = 0])
        BY <1>1, <2>2, Bits DEF CtlWidth
      <3>3. Fits([state |-> "intro", cnt |-> IF port.flag < 4 THEN 4 ELSE 7 - port.flag,
                  open |-> 0, seq |-> 0, latch |-> 0])
        BY <1>1, Bits DEF CtlWidth, CtlStates
      <3> HIDE DEF Fits
      <3>4. Fits(NextCtl)
        BY <2>1, <3>1, <3>2, <3>3
      <3> QED
        BY <3>4 DEF Fits
    <2>3. CASE ctl.state = "intro"
      BY <1>1, <2>3, Bits DEF NextCtl, CtlWidth, CtlStates
    <2>4. CASE ctl.state = "valid"
      <3> DEFINE over == va[1] = 0 /\ p2s.shifting = 0
      <3>1. NextCtl = [ctl EXCEPT !.state = IF over THEN "empty2" ELSE @, !.seq = 1,
                                  !.latch = B(~over), !.cnt = 0]
        BY <2>4 DEF NextCtl
      <3> DEFINE s == IF over THEN "empty2" ELSE ctl.state
                 l == B(~over)
      <3>2. s \in CtlStates \ {"intro"} /\ l \in Bit
        BY <2>4 DEF CtlStates, B, Bit
      <3>3. NextCtl = [ctl EXCEPT !.state = s, !.cnt = 0, !.seq = 1, !.latch = l]
        BY <1>1, <3>1 DEF CtlWidth
      <3> HIDE DEF s, l
      <3>4. 0 \in 0..8
        OBVIOUS
      <3> QED
        BY <2>1, <3>2, <3>3, <3>4, Bits
    <2>5. CASE ctl.state = "empty2"
      <3> DEFINE loaded == p2s.shifting = 0
      <3>1. NextCtl = [ctl EXCEPT !.state = IF loaded /\ ctl.cnt > 0 THEN "emptyLast" ELSE @,
                                  !.cnt = IF loaded /\ @ = 0 THEN 1 ELSE @, !.seq = 1, !.latch = 0]
        BY <2>5 DEF NextCtl
      <3> DEFINE s == IF loaded /\ ctl.cnt > 0 THEN "emptyLast" ELSE ctl.state
                 n == IF loaded /\ ctl.cnt = 0 THEN 1 ELSE ctl.cnt
      <3>2. s \in CtlStates \ {"intro"} /\ n \in 0..8
        BY <1>1, <2>5 DEF CtlStates, CtlWidth
      <3>3. NextCtl = [ctl EXCEPT !.state = s, !.cnt = n, !.seq = 1, !.latch = 0]
        BY <1>1, <3>1 DEF CtlWidth
      <3> HIDE DEF s, n
      <3> QED
        BY <2>1, <3>2, <3>3, Bits
    <2>6. CASE ctl.state = "emptyLast"
      <3>1. \/ ctl.cnt < 8 /\ NextCtl = [ctl EXCEPT !.cnt = @ + 1, !.seq = 1, !.latch = 0]
            \/ NextCtl = [ctl EXCEPT !.state = "idle", !.cnt = 0, !.seq = 0, !.latch = 0]
        BY <1>1, <2>6 DEF NextCtl, CtlWidth
      <3>2. CASE ctl.cnt < 8 /\ NextCtl = [ctl EXCEPT !.cnt = @ + 1, !.seq = 1, !.latch = 0]
        <4>1. ctl.cnt + 1 \in 0..8 /\ ctl.state # "intro"
          BY <1>1, <2>6, <3>2 DEF CtlWidth
        <4> HIDE DEF Fits
        <4>2. Fits(NextCtl)
          BY <2>1, <3>2, <4>1, Bits
        <4> QED
          BY <4>2 DEF Fits
      <3>3. CASE NextCtl = [ctl EXCEPT !.state = "idle", !.cnt = 0, !.seq = 0, !.latch = 0]
        <4>1. 0 \in 0..8 /\ "idle" \in CtlStates \ {"intro"}
          BY DEF CtlStates
        <4> HIDE DEF Fits
        <4>2. Fits(NextCtl)
          BY <2>1, <3>3, <4>1, Bits
        <4> QED
          BY <4>2 DEF Fits
      <3> QED
        BY <3>1, <3>2, <3>3
    <2> QED
      BY <1>1, <2>2, <2>3, <2>4, <2>5, <2>6 DEF CtlWidth, CtlStates
  <1> QED
    BY <1>2, <1>3, <1>4

LEMMA P2sWide ==
  ASSUME TxWidths
  PROVE  NextP2s \in P2sWidth
  <1> DEFINE stuff == \A i \in 1..5 : p2s.temp[i] = 1
             cnt == IF stuff THEN p2s.cnt ELSE p2s.cnt + 1
             moved == IF stuff THEN <<1, 1, 1, 1, 0>> \o SubSeq(p2s.temp, 6, 16)
                      ELSE Shift(p2s.temp, 0)
             load == cnt = 8
  <1>1. p2s \in P2sWidth /\ lat.reg \in Byte
    BY DEF TxWidths, LatWidth
  <1>2. /\ p2s.temp \in Register(16) /\ p2s.out \in Register(2) /\ p2s.cnt \in 0..7
        /\ p2s.temp[1] \in Bit
    BY <1>1 DEF P2sWidth, Register
  <1>3. moved \in Register(16)
    <2>1. <<1, 1, 1, 1, 0>> \o SubSeq(p2s.temp, 6, 16) \in Register(16)
      <3>1. p2s.temp \in Seq(Bit) /\ Len(p2s.temp) = 16
        BY <1>2, RegisterSeq
      <3>2. SubSeq(p2s.temp, 6, 16) \in Seq(Bit) /\ Len(SubSeq(p2s.temp, 6, 16)) = 11
        BY <3>1, SubSeqProperties
      <3>3. <<1, 1, 1, 1, 0>> \in Seq(Bit) /\ Len(<<1, 1, 1, 1, 0>>) = 5
        BY Bits
      <3>4. /\ <<1, 1, 1, 1, 0>> \o SubSeq(p2s.temp, 6, 16) \in Seq(Bit)
            /\ Len(<<1, 1, 1, 1, 0>> \o SubSeq(p2s.temp, 6, 16)) = 16
        BY <3>2, <3>3, ConcatProperties
      <3> QED
        BY <3>4, RegisterSeq
    <2>2. Shift(p2s.temp, 0) \in Register(16)
      BY <1>2, Bits, RegisterShift
    <2> QED
      BY <2>1, <2>2
  <1> HIDE DEF moved
  <1>4. SubSeq(moved, 1, 8) \o lat.reg \in Register(16)
    <2>1. moved \in Seq(Bit) /\ Len(moved) = 16 /\ lat.reg \in Seq(Bit) /\ Len(lat.reg) = 8
      BY <1>1, <1>3, RegisterSeq, Words
    <2>2. SubSeq(moved, 1, 8) \in Seq(Bit) /\ Len(SubSeq(moved, 1, 8)) = 8
      <3>1. \A i \in 1..8 : moved[i] \in Bit
        BY <1>3, RegisterSeq
      <3> QED
        BY <3>1, SubSeqProperties
    <2>3. /\ SubSeq(moved, 1, 8) \o lat.reg \in Seq(Bit)
          /\ Len(SubSeq(moved, 1, 8) \o lat.reg) = 16
      <3>1. \A s, t \in Seq(Bit) : Len(s) = 8 /\ Len(t) = 8 =>
              s \o t \in Seq(Bit) /\ Len(s \o t) = 16
        <4> TAKE s, t \in Seq(Bit)
        <4> HAVE Len(s) = 8 /\ Len(t) = 8
        <4>1. s \o t \in Seq(Bit) /\ Len(s \o t) = Len(s) + Len(t)
          BY ConcatProperties
        <4> QED
          BY <4>1
      <3> QED
        BY <2>1, <2>2, <3>1
    <2> QED
      BY <2>3, RegisterSeq
  <1>5. cnt % 8 \in 0..7 /\ Shift(p2s.out, p2s.temp[1]) \in Register(2) /\ B(~load) \in Bit
    <2>1. cnt \in 0..8
      BY <1>2
    <2>2. Shift(p2s.out, p2s.temp[1]) \in Register(2)
      BY <1>2, FlopShift
    <2> HIDE DEF cnt
    <2> QED
      BY <2>1, <2>2 DEF B, Bit
  <1>6. NextP2s = [temp |-> IF load THEN SubSeq(moved, 1, 8) \o lat.reg ELSE moved,
                   cnt |-> cnt % 8, shifting |-> B(~load), out |-> Shift(p2s.out, p2s.temp[1])]
    BY DEF NextP2s, moved
  <1> HIDE DEF load, cnt
  <1> QED
    BY <1>3, <1>4, <1>5, <1>6 DEF P2sWidth

LEMMA FlgWide ==
  ASSUME TxWidths
  PROVE  NextFlg \in FlgWidth
  <1>1. /\ flg \in FlgWidth /\ p2s.out[1] \in Bit /\ Flag \in Register(8) /\ Abort \in Register(8)
    BY FlopBits, Words DEF TxWidths, P2sWidth
  <1>2. /\ flg.reg \in Register(8) /\ flg.reg[1] \in Bit
        /\ \A v \in Bit : Shift(flg.reg, v) \in Register(8)
    <2>1. flg.reg \in Register(8)
      BY <1>1 DEF FlgWidth
    <2> QED
      BY <2>1, RegisterShift, RegisterSeq
  <1>3. Opened \in FlgWidth /\ Resting \in FlgWidth
    <2>1. Opened \in FlgWidth
      <3>1. flg.shift \in 0..7 /\ (flg.shift + 1) % 8 \in 0..7
        BY <1>1 DEF FlgWidth
      <3> QED
        BY <1>1, <3>1 DEF Opened, FlgWidth, B, Bit
    <2>2. Resting \in FlgWidth
      <3>1. flg.close \in 0..16 /\ Shift(flg.reg, 1) \in Register(8)
        BY <1>1, <1>2, Bits DEF FlgWidth
      <3>2. \A v, d \in Bit, r \in Register(8), n \in 0..7, c \in 0..16 :
              [flg EXCEPT !.tx = v, !.reg = r, !.shift = n, !.defence = d, !.close = c] \in FlgWidth
        BY <1>1 DEF FlgWidth
      <3> DEFINE d == IF flg.close = 0 THEN 0 ELSE flg.defence
                 c == IF flg.close = 0 THEN 0 ELSE flg.close - 1
      <3>3. d \in Bit /\ c \in 0..16
        BY <1>1, <3>1, Bits DEF FlgWidth
      <3>4. Resting = [flg EXCEPT !.tx = flg.reg[1], !.reg = Shift(flg.reg, 1), !.shift = 0,
                                  !.defence = d, !.close = c]
        BY DEF Resting
      <3>5. 0 \in 0..7
        OBVIOUS
      <3> HIDE DEF d, c
      <3> QED
        BY <1>2, <3>1, <3>2, <3>3, <3>4, <3>5
    <2> QED
      BY <2>1, <2>2
  <1> DEFINE opened == IF ctl.open = 1 THEN Opened ELSE flg
             ended == [flg EXCEPT !.on = 0, !.tx = flg.reg[1], !.close = 16]
  <1>4. opened \in FlgWidth /\ ended \in FlgWidth
    <2>1. \A u, v \in Bit, n \in 0..16 : [flg EXCEPT !.on = u, !.tx = v, !.close = n] \in FlgWidth
      BY <1>1 DEF FlgWidth
    <2> QED
      <3>1. 0 \in Bit /\ 16 \in 0..16
        BY Bits
      <3> QED
        BY <1>1, <1>2, <1>3, <2>1, <3>1
  <1>5. \/ NextFlg = Resting
        \/ NextFlg = [opened EXCEPT !.on = 1, !.reg = Flag, !.tx = IF opened.seq = 1 THEN 0 ELSE @,
                           !.seq = 0, !.defence = 1]
        \/ NextFlg = [ended EXCEPT !.reg = Abort]
        \/ NextFlg = [ended EXCEPT !.reg = Flag]
        \/ NextFlg = [flg EXCEPT !.tx = flg.reg[1], !.reg = Shift(@, p2s.out[1])]
        \/ NextFlg = opened
    BY DEF NextFlg
  <1> HIDE DEF opened, ended
  <1>6. [opened EXCEPT !.on = 1, !.reg = Flag, !.tx = IF opened.seq = 1 THEN 0 ELSE @,
                       !.seq = 0, !.defence = 1] \in FlgWidth
    BY <1>1, <1>4, Bits DEF FlgWidth
  <1>7. [ended EXCEPT !.reg = Abort] \in FlgWidth /\ [ended EXCEPT !.reg = Flag] \in FlgWidth
    BY <1>1, <1>4 DEF FlgWidth
  <1>8. [flg EXCEPT !.tx = flg.reg[1], !.reg = Shift(@, p2s.out[1])] \in FlgWidth
    BY <1>1, <1>2 DEF FlgWidth
  <1> QED
    BY <1>3, <1>4, <1>5, <1>6, <1>7, <1>8

(* What the bit clock makes of the line and of the receiver's registers. *)
LEMMA RxSlowWide ==
  ASSUME RxWidths, flg \in FlgWidth, NEW noise \in Bit
  PROVE  /\ NextLine(noise) \in LineWidth /\ NextDet \in DetWidth
         /\ NextRxc \in RxcWidth /\ NextZero \in ZeroWidth /\ NextOut \in OutWidth
  <1>1. /\ line \in LineWidth /\ det \in DetWidth /\ rxc \in RxcWidth
        /\ zero \in ZeroWidth /\ out \in OutWidth /\ rdb \in Register(2)
    BY DEF RxWidths
  <1>2. NextLine(noise) \in LineWidth
    <2>1. (line.tx + noise) % 2 \in Bit /\ flg.tx \in Bit /\ line.tx \in Bit
      BY <1>1, Bits DEF LineWidth, FlgWidth, Bit
    <2> QED
      BY <2>1, Bits DEF NextLine, LineWidth
  <1>3. NextDet \in DetWidth
    <2>1. /\ Shift(det.shift, line.rx) \in Register(8) /\ det.shift[1] \in Bit
          /\ Shift(det.block, B(det.shift = Flag)) \in Register(8)
      <3>1. /\ det.shift \in Register(8) /\ det.block \in Register(8) /\ line.rx \in Bit
            /\ B(det.shift = Flag) \in Bit
        BY <1>1 DEF DetWidth, LineWidth, B, Bit
      <3>2. \A r \in Register(8), b \in Bit : Shift(r, b) \in Register(8) /\ r[1] \in Bit
        BY RegisterShift, RegisterSeq
      <3> QED
        BY <3>1, <3>2
    <2> QED
      BY <2>1, Bits DEF NextDet, DetWidth
  <1>4. NextRxc \in RxcWidth
    <2> DEFINE flag == det.block[8] = 1
               init == flag \/ rxc.init = 1
               cnt == IF flag THEN 0 ELSE rxc.cnt
               done == init /\ cnt = 7
               status == IF done THEN 1 - rxc.valid ELSE IF flag THEN 0 ELSE rxc.status
               starved == status = 1 /\ out.avail = 0 /\ rxc.tries = 5
    <2>1. /\ cnt \in 0..7 /\ status \in Bit /\ rxc.delay[1] \in Bit
          /\ B(init /\ ~done) \in Bit /\ B(done) \in Bit /\ B(status = 1 /\ ~starved) \in Bit
      <3>1. rxc.delay \in Register(8) /\ rxc.status \in Bit /\ 1 - rxc.valid \in Bit /\ rxc.cnt \in 0..7
        BY <1>1, Bits DEF RxcWidth
      <3>2. rxc.delay[1] \in Bit
        BY <3>1, RegisterSeq
      <3> QED
        BY <3>1, <3>2 DEF B, Bit
    <2>2. NextRxc =
          [init |-> B(init /\ ~done), cnt |-> IF init THEN (cnt + 1) % 8 ELSE cnt,
           start |-> B(done), status |-> IF det.abort = 1 THEN 0 ELSE status,
           valid |-> rxc.delay[1], delay |-> Shift(rxc.delay, status),
           enable |-> B(status = 1 /\ ~starved),
           tries |-> IF status = 1 /\ out.avail = 0 THEN (rxc.tries + 1) % 6 ELSE 0,
           err |-> IF starved THEN 1 ELSE IF flag /\ rxc.valid = 0 THEN 0 ELSE rxc.err]
      BY DEF NextRxc
    <2> HIDE DEF flag, init, cnt, done, status, starved
    <2>3. Shift(rxc.delay, status) \in Register(8)
      BY <1>1, <2>1, RegisterShift DEF RxcWidth
    <2>4. (cnt + 1) % 8 \in 0..7 /\ (rxc.tries + 1) % 6 \in 0..5 /\ rxc.err \in Bit
      BY <1>1, <2>1 DEF RxcWidth
    <2> QED
      BY <2>1, <2>2, <2>3, <2>4, Bits DEF RxcWidth
  <1>5. NextZero \in ZeroWidth
    <2> DEFINE begun == IF rxc.start = 1 THEN Vector(6, 0) ELSE zero.check
               check == Shift(begun, det.rx)
               cnt == IF rxc.start = 1 THEN 0 ELSE zero.cnt
               temp == [zero.temp EXCEPT ![cnt + 1] = det.rx]
               kept == check # <<1, 1, 1, 1, 1, 0>>
               full == kept /\ cnt = 7
    <2>1. begun \in Register(6) /\ cnt \in 0..7 /\ det.rx \in Bit /\ zero.temp \in Byte /\ zero.reg \in Byte
      BY <1>1, Words DEF ZeroWidth, DetWidth
    <2>2. NextZero =
          IF rxc.enable = 0 THEN zero
          ELSE [check |-> check, temp |-> temp, cnt |-> IF kept THEN (cnt + 1) % 8 ELSE cnt,
                reg |-> IF full THEN temp ELSE zero.reg, full |-> B(full)]
      BY DEF NextZero
    <2> HIDE DEF begun, cnt
    <2>3. check \in Register(6) /\ temp \in Byte /\ B(full) \in Bit /\ (cnt + 1) % 8 \in 0..7
      <3>1. check \in Register(6)
        BY <2>1, RegisterShift
      <3>2. temp \in Byte
        BY <2>1 DEF Byte
      <3> QED
        BY <2>1, <3>1, <3>2 DEF B, Bit
    <2> HIDE DEF check, temp, kept, full
    <2> QED
      BY <1>1, <2>1, <2>2, <2>3 DEF ZeroWidth
  <1>6. NextOut \in OutWidth
    BY <1>1, Bits DEF NextOut, OutWidth, ZeroWidth
  <1> QED
    BY <1>2, <1>3, <1>4, <1>5, <1>6

LEMMA TypeInit ==
  ASSUME Init
  PROVE  TypeOK
  <1> USE Words, Bits, Resets DEF Init
  <1>1. /\ port \in Ports /\ port.script \in Seq(Seq(Byte) \ {<<>>})
        /\ rest \in Seq(Byte) /\ got \in Seq(Byte) /\ <<>> \in Seq(Seq(Byte))
    BY PortsAssumption
  <1>2. fcs \in FcsWidth /\ abt \in AbtWidth /\ lat \in LatWidth
    BY DEF FcsWidth, FcsStates, AbtWidth, LatWidth
  <1>3. ctl \in CtlWidth
    BY DEF CtlWidth, CtlStates
  <1>4. <<1, 1>> \in Register(2)
    BY DEF Register
  <1>5. p2s \in P2sWidth /\ flg \in FlgWidth /\ line \in LineWidth
    BY <1>4 DEF P2sWidth, FlgWidth, LineWidth
  <1>6. det \in DetWidth /\ rxc \in RxcWidth
    BY DEF DetWidth, RxcWidth
  <1>7. zero \in ZeroWidth /\ out \in OutWidth /\ rfcs \in RfcsWidth
    BY DEF ZeroWidth, OutWidth, RfcsWidth, RfcsStates
  <1>8. TxWidths
    BY <1>1, <1>2, <1>3, <1>5 DEF TxWidths
  <1>9. RxWidths
    BY <1>1, <1>5, <1>6, <1>7 DEF RxWidths
  <1>10. Counts
    BY <1>1 DEF Counts, Quiet
  <1> QED
    BY <1>8, <1>9, <1>10 DEF TypeOK

LEMMA NextSeenWide ==
  ASSUME seen \in [due : Seq(Seq(Byte)), lost : Nat, strange : SUBSET Seq(Byte), bad : BOOLEAN],
         got \in Seq(Byte)
  PROVE  NextSeen \in [due : Seq(Seq(Byte)), lost : Nat, strange : SUBSET Seq(Byte), bad : BOOLEAN]
  <1>1. [seen EXCEPT !.bad = TRUE] \in
           [due : Seq(Seq(Byte)), lost : Nat, strange : SUBSET Seq(Byte), bad : BOOLEAN]
    OBVIOUS
  <1>2. [seen EXCEPT !.strange = @ \cup {got}] \in
           [due : Seq(Seq(Byte)), lost : Nat, strange : SUBSET Seq(Byte), bad : BOOLEAN]
    OBVIOUS
  <1>3. ASSUME NEW k \in DOMAIN seen.due
        PROVE  [seen EXCEPT !.due = SubSeq(@, k + 1, Len(@)), !.lost = @ + k - 1] \in
                 [due : Seq(Seq(Byte)), lost : Nat, strange : SUBSET Seq(Byte), bad : BOOLEAN]
    <2>1. k \in 1..Len(seen.due)
      OBVIOUS
    <2>2. SubSeq(seen.due, k + 1, Len(seen.due)) \in Seq(Seq(Byte)) /\ seen.lost + k - 1 \in Nat
      BY <2>1, SubSeqProperties
    <2> QED
      BY <2>2
  <1>4. CASE rfcs.state = "eofZ" /\ got # <<>>
    <2>1. CASE rfcs.crc # Residue
      BY <1>1, <1>4, <2>1 DEF NextSeen, Account
    <2>2. CASE rfcs.crc = Residue /\ \A k \in DOMAIN seen.due : seen.due[k] # got
      BY <1>2, <1>4, <2>2 DEF NextSeen, Account
    <2>3. CASE rfcs.crc = Residue /\ \E k \in DOMAIN seen.due : seen.due[k] = got
      <3> DEFINE k == CHOOSE k \in DOMAIN seen.due : seen.due[k] = got
      <3>1. k \in DOMAIN seen.due
        BY <2>3
      <3>2. NextSeen = [seen EXCEPT !.due = SubSeq(@, k + 1, Len(@)), !.lost = @ + k - 1]
        BY <1>4, <2>3 DEF NextSeen, Account
      <3> HIDE DEF k
      <3> QED
        BY <1>3, <3>1, <3>2
    <2> QED
      BY <2>1, <2>2, <2>3
  <1>5. CASE ~(rfcs.state = "eofZ" /\ got # <<>>)
    BY <1>5 DEF NextSeen
  <1> QED
    BY <1>4, <1>5

LEMMA TypeKept ==
  ASSUME TypeOK, [Next]_vars
  PROVE  TypeOK'
  <1>1. TxWidths /\ RxWidths /\ Counts
    BY DEF TypeOK
  <1>2. CASE SystemClock
    <2>1. /\ UNCHANGED <<port, txEnable, wr, va, abt, ctl, p2s, lat, flg, line, det, rxc, zero, out, rdb>>
          /\ UNCHANGED <<sent, flips, cuts, pause>>
      BY <1>2 DEF SystemClock, slow
    <2>2. /\ buff' \in {"idle", "write", "read"} /\ rest' \in Seq(Byte)
          /\ buff' = "idle" <=> rest' = <<>>
          /\ Avail /\ fcs.state # "read" => buff' = "read"
      <3>1. /\ buff \in {"idle", "write", "read"} /\ rest \in Seq(Byte)
            /\ buff = "idle" <=> rest = <<>>
            /\ fcs.state = "read" => buff = "read"
        BY <1>1 DEF TxWidths
      <3>2. /\ rest' = IF fcs.state = "read" THEN Tail(rest) ELSE rest
            /\ buff' = IF fcs.state = "read" /\ Len(rest) = 1 THEN "idle" ELSE buff
        BY <1>2 DEF SystemClock
      <3>3. rest # <<>> =>
              Tail(rest) \in Seq(Byte) /\ (Tail(rest) = <<>> <=> Len(rest) = 1)
        <4> HAVE rest # <<>>
        <4>1. Tail(rest) \in Seq(Byte) /\ Len(Tail(rest)) = Len(rest) - 1
          BY <3>1, HeadTailProperties
        <4> QED
          BY <3>1, <4>1, EmptySeq
      <3> QED
        BY <3>1, <3>2, <3>3 DEF Avail
    <2>3. fcs' \in FcsWidth /\ (fcs'.state = "read" => buff' = "read")
      <3>1. fcs' = NextTxFcs /\ (fcs.state = "read" => NextTxFcs.state = "readyLow")
        BY <1>2 DEF SystemClock, NextTxFcs
      <3> QED
        BY <1>1, <2>2, <3>1, FcsWide
    <2>4. rdy' \in Register(2) /\ rr' \in Register(2) /\ rv' \in Register(2)
      <3>1. /\ rdy' = Shift(rdy, lat.ready) /\ rr' = Shift(rr, out.ready)
            /\ rv' = Shift(rv, rxc.valid)
        BY <1>2 DEF SystemClock
      <3>2. /\ rdy \in Register(2) /\ rr \in Register(2) /\ rv \in Register(2)
            /\ lat.ready \in Bit /\ out.ready \in Bit /\ rxc.valid \in Bit
        BY <1>1 DEF TxWidths, RxWidths, LatWidth, OutWidth, RxcWidth
      <3> QED
        BY <3>1, <3>2, FlopShift
    <2>5. rfcs' \in RfcsWidth
      BY <1>1, <1>2, RfcsWide DEF SystemClock
    <2>6. got' \in Seq(Byte)
      <3>1. got \in Seq(Byte) /\ rfcs.reg[1] \in Byte
        BY <1>1 DEF RxWidths, RfcsWidth
      <3> QED
        BY <1>2, <3>1 DEF SystemClock, NextGot
    <2>7. Counts'
      <3>1. seen' = NextSeen
        BY <1>2 DEF SystemClock
      <3> QED
        BY <1>1, <2>1, <3>1, NextSeenWide DEF Counts, RxWidths
    <2>8. TxWidths'
      BY <1>1, <2>1, <2>2, <2>3, <2>4 DEF TxWidths
    <2>9. RxWidths'
      BY <1>1, <2>1, <2>4, <2>5, <2>6 DEF RxWidths
    <2> QED
      BY <2>7, <2>8, <2>9 DEF TypeOK
  <1>3. CASE BitClock
    <2>1. /\ UNCHANGED <<port, txEnable, fcs, rdy, buff, rest, rfcs, rv, rr, got, seen, sent, cuts>>
      BY <1>3 DEF BitClock, fast
    <2>2. wr' \in Register(2) /\ va' \in Register(2) /\ rdb' \in Register(2)
      <3>1. wr' = Shift(wr, fcs.write) /\ va' = Shift(va, fcs.valid) /\ rdb' = Shift(rdb, rfcs.read)
        BY <1>3 DEF BitClock
      <3>2. /\ wr \in Register(2) /\ va \in Register(2) /\ rdb \in Register(2)
            /\ fcs.write \in Bit /\ fcs.valid \in Bit /\ rfcs.read \in Bit
        BY <1>1 DEF TxWidths, RxWidths, FcsWidth, RfcsWidth
      <3> QED
        BY <3>1, <3>2, FlopShift
    <2>3. abt' \in AbtWidth /\ lat' \in LatWidth /\ ctl' \in CtlWidth /\ (ctl'.state = "intro" => ctl'.cnt < 8)
      <3>1. abt' = Enabled(NextAbt, abt) /\ ctl' = Enabled(NextCtl, ctl) /\ lat' = Enabled(NextLat, lat)
        BY <1>3 DEF BitClock
      <3> QED
        BY <1>1, <3>1, TxSlowWide DEF Enabled, TxWidths
    <2>4. p2s' \in P2sWidth
      <3>1. p2s' = Enabled(NextP2s, p2s)
        BY <1>3 DEF BitClock
      <3> QED
        BY <1>1, <3>1, P2sWide DEF Enabled, TxWidths
    <2>5. flg' \in FlgWidth
      <3>1. flg' = Enabled(NextFlg, [flg EXCEPT !.tx = 1])
        BY <1>3 DEF BitClock
      <3>2. [flg EXCEPT !.tx = 1] \in FlgWidth
        BY <1>1, Bits DEF TxWidths, FlgWidth
      <3> QED
        BY <1>1, <3>1, <3>2, FlgWide DEF Enabled
    <2>6. TxWidths'
      BY <1>1, <2>1, <2>2, <2>3, <2>4, <2>5 DEF TxWidths
    <2>7. PICK noise \in Bit : line' = NextLine(noise) /\ flips' = flips + noise
      BY <1>3 DEF BitClock
    <2>8. /\ line' \in LineWidth /\ det' \in DetWidth /\ rxc' \in RxcWidth
          /\ zero' \in ZeroWidth /\ out' \in OutWidth
      <3>1. det' = NextDet /\ rxc' = NextRxc /\ zero' = NextZero /\ out' = NextOut
        BY <1>3 DEF BitClock
      <3> QED
        BY <1>1, <2>7, <3>1, RxSlowWide DEF TxWidths
    <2>9. RxWidths'
      BY <1>1, <2>1, <2>2, <2>8 DEF RxWidths
    <2>10. Counts'
      <3>1. flips' \in Nat
        BY <1>1, <2>7 DEF Counts, Bit
      <3>2. pause' \in 0..Quiet
        <4>1. pause < Quiet /\ pause' = IF Rts /\ buff # "write" THEN 0 ELSE pause + 1
          BY <1>3 DEF BitClock
        <4> QED
          BY <1>1, <4>1 DEF Counts, Quiet
      <3> QED
        BY <1>1, <2>1, <3>1, <3>2 DEF Counts
    <2> QED
      BY <2>6, <2>9, <2>10 DEF TypeOK
  <1>4. CASE WriteBuffer
    <2>1. /\ UNCHANGED <<port, fcs, rdy, wr, va, abt, ctl, p2s, lat, flg, line, det, rxc, zero, out, rdb>>
          /\ UNCHANGED <<rfcs, rv, rr, got, flips>>
          /\ txEnable' = 0 /\ buff' = "write" /\ pause' = 0 /\ sent' = sent + 1
          /\ rest' = port.script[sent + 1] /\ buff = "idle" /\ sent < Len(port.script)
          /\ seen' = [seen EXCEPT !.due = Append(@, port.script[sent + 1])]
          /\ cuts' \in {cuts, cuts + 1}
      BY <1>4 DEF WriteBuffer, slow
    <2>2. port.script \in Seq(Seq(Byte) \ {<<>>}) /\ sent \in 0..Len(port.script)
      BY <1>1, PortsAssumption DEF TxWidths, Counts
    <2>3. sent + 1 \in 1..Len(port.script) /\ rest' \in Seq(Byte) /\ rest' # <<>>
      BY <2>1, <2>2
    <2>4. TxWidths'
      BY <1>1, <2>1, <2>3, Bits DEF TxWidths
    <2>5. RxWidths'
      BY <1>1, <2>1 DEF RxWidths
    <2>6. Counts'
      <3>1. Append(seen.due, port.script[sent + 1]) \in Seq(Seq(Byte))
        BY <1>1, <2>1, <2>3 DEF Counts
      <3> QED
        <4>1. seen' \in [due : Seq(Seq(Byte)), lost : Nat, strange : SUBSET Seq(Byte), bad : BOOLEAN]
          BY <1>1, <2>1, <3>1 DEF Counts
        <4>2. sent' \in 0..Len(port'.script) /\ cuts' \in Nat /\ pause' \in 0..Quiet /\ flips' \in Nat
          BY <1>1, <2>1, <2>2 DEF Counts, Quiet
        <4> QED
          BY <4>1, <4>2 DEF Counts
    <2> QED
      BY <2>4, <2>5, <2>6 DEF TypeOK
  <1>5. CASE Enable
    <2>1. /\ UNCHANGED <<port, rest, fcs, rdy, wr, va, abt, ctl, p2s, lat, flg, line, det, rxc, zero, out, rdb>>
          /\ UNCHANGED <<rfcs, rv, rr, got, seen, sent, flips, cuts>>
          /\ txEnable' = 1 /\ buff' = "read" /\ pause' = 0 /\ buff = "write"
      BY <1>5 DEF Enable, slow
    <2>2. TxWidths'
      BY <1>1, <2>1, Bits DEF TxWidths
    <2>3. RxWidths' /\ Counts'
      BY <1>1, <2>1 DEF RxWidths, Counts, Quiet
    <2> QED
      BY <2>2, <2>3 DEF TypeOK
  <1>6. CASE UNCHANGED vars
    <2>1. /\ UNCHANGED <<port, txEnable, rest, buff, fcs, rdy, wr, va, abt, ctl, p2s, lat, flg>>
          /\ UNCHANGED <<line, det, rxc, zero, out, rdb, rfcs, rv, rr, got, seen, sent, flips, cuts, pause>>
      BY <1>6 DEF vars, fast, slow
    <2>2. TxWidths'
      BY <1>1, <2>1 DEF TxWidths
    <2>3. RxWidths' /\ Counts'
      BY <1>1, <2>1 DEF RxWidths, Counts
    <2> QED
      BY <2>2, <2>3 DEF TypeOK
  <1> QED
    BY <1>2, <1>3, <1>4, <1>5, <1>6 DEF Next

(* Every register keeps its width in every behaviour, with frames cut and    *)
(* bits falsified: no counter runs over, and TxFcs reads no byte from an     *)
(* empty buffer (the signal declarations of src/Port/code).                  *)
THEOREM TypeCorrect == Spec => []TypeOK
  BY TypeInit, TypeKept, PTL DEF Spec

-----------------------------------------------------------------------------
(* Zero insertion. *)

(* The bits on their way: FlagInsert's register, the flops, ZeroInsert's      *)
(* register.                                                                  *)
Ahead(k) ==
    IF k <= 8 THEN flg.reg[k] ELSE IF k <= 10 THEN p2s.out[k - 8] ELSE p2s.temp[k - 10]
Broken(i) == \E k \in i..i + 5 : Ahead(k) = 0
StuffInv ==
    /\ Broken(9) /\ Broken(10)
    /\ flg.on = 1 => \A i \in 3..8 : Broken(i)

(* What a tick does to the first bits of ZeroInsert's register. *)
LEMMA P2sMoves ==
  ASSUME TxWidths, NEW x, x = NextP2s
  PROVE  /\ x.out[1] = p2s.out[2] /\ x.out[2] = p2s.temp[1]
         /\ IF \A i \in 1..5 : p2s.temp[i] = 1
            THEN /\ x.temp[1] = 1 /\ x.temp[2] = 1 /\ x.temp[3] = 1 /\ x.temp[4] = 1
                 /\ x.temp[5] = 0
            ELSE \A i \in 1..5 : x.temp[i] = p2s.temp[i + 1]
  <1> DEFINE stuff == \A i \in 1..5 : p2s.temp[i] = 1
             cnt == IF stuff THEN p2s.cnt ELSE p2s.cnt + 1
             moved == IF stuff THEN <<1, 1, 1, 1, 0>> \o SubSeq(p2s.temp, 6, 16)
                      ELSE Shift(p2s.temp, 0)
             load == cnt = 8
  <1>1. /\ p2s \in P2sWidth /\ lat.reg \in Byte /\ p2s.temp \in Register(16)
        /\ p2s.out \in Register(2) /\ p2s.temp[1] \in Bit
    <2>1. p2s \in P2sWidth /\ lat.reg \in Byte /\ p2s.temp \in Register(16) /\ p2s.out \in Register(2)
      BY DEF TxWidths, LatWidth, P2sWidth
    <2> QED
      BY <2>1, RegisterSeq
  <1>2. /\ moved \in Register(16)
        /\ stuff => /\ moved[1] = 1 /\ moved[2] = 1 /\ moved[3] = 1 /\ moved[4] = 1
                    /\ moved[5] = 0
        /\ ~stuff => \A i \in 1..5 : moved[i] = p2s.temp[i + 1]
    <2>1. CASE stuff
      <3>1. \A i \in 6..16 : p2s.temp[i] \in Bit
        BY <1>1, RegisterSeq
      <3>2. SubSeq(p2s.temp, 6, 16) \in Seq(Bit) /\ Len(SubSeq(p2s.temp, 6, 16)) = 11
        BY <3>1, SubSeqProperties
      <3> DEFINE s == <<1, 1, 1, 1, 0>>
      <3>3. s \in Seq(Bit) /\ Len(s) = 5
        BY Bits
      <3>4. s[1] = 1 /\ s[2] = 1 /\ s[3] = 1 /\ s[4] = 1 /\ s[5] = 0
        OBVIOUS
      <3> HIDE DEF s
      <3>5. \A t \in Seq(Bit) : Len(t) = 11 =>
               /\ s \o t \in Seq(Bit) /\ Len(s \o t) = 16
               /\ \A i \in 1..5 : (s \o t)[i] = s[i]
        <4> TAKE t \in Seq(Bit)
        <4> HAVE Len(t) = 11
        <4>1. /\ s \o t \in Seq(Bit) /\ Len(s \o t) = Len(s) + Len(t)
              /\ \A i \in 1..Len(s) + Len(t) : (s \o t)[i] = IF i <= Len(s) THEN s[i] ELSE t[i - Len(s)]
          BY <3>3, ConcatProperties
        <4>2. \A i \in 1..5 : i \in 1..Len(s) + Len(t) /\ i <= Len(s)
          BY <3>3
        <4>3. \A i \in 1..5 : (s \o t)[i] = s[i]
          BY <4>1, <4>2
        <4>4. Len(s) + Len(t) = 16
          BY <3>3
        <4> QED
          BY <4>1, <4>3, <4>4, Zenon
      <3>6. moved = s \o SubSeq(p2s.temp, 6, 16)
        BY <2>1 DEF s
      <3> HIDE DEF moved
      <3>7. moved \in Seq(Bit) /\ Len(moved) = 16 /\ \A i \in 1..5 : moved[i] = s[i]
        BY <3>2, <3>5, <3>6
      <3>8. moved \in Register(16)
        BY <3>7, RegisterSeq
      <3>9. moved[1] = s[1] /\ moved[2] = s[2] /\ moved[3] = s[3] /\ moved[4] = s[4] /\ moved[5] = s[5]
        BY <3>7
      <3> QED
        BY <2>1, <3>4, <3>8, <3>9
    <2>2. CASE ~stuff
      <3>1. moved = Shift(p2s.temp, 0)
        BY <2>2
      <3> HIDE DEF moved
      <3>2. moved \in Register(16) /\ \A i \in 1..(16 - 1) : moved[i] = p2s.temp[i + 1]
        <4>1. 16 \in Nat \ {0} /\ 0 \in Bit
          BY DEF Bit
        <4>2. \A r \in Register(16), b \in Bit :
                 Shift(r, b) \in Register(16) /\ \A i \in 1..(16 - 1) : Shift(r, b)[i] = r[i + 1]
          BY <4>1, RegisterShift
        <4> QED
          BY <1>1, <3>1, <4>1, <4>2
      <3>3. \A i \in 1..5 : i \in 1..(16 - 1)
        OBVIOUS
      <3> QED
        BY <2>2, <3>2, <3>3
    <2> QED
      BY <2>1, <2>2
  <1> HIDE DEF moved, stuff
  <1>3. \A i \in 1..5 : (SubSeq(moved, 1, 8) \o lat.reg)[i] = moved[i]
    <2> DEFINE s == SubSeq(moved, 1, 8)
    <2>1. \A i \in 1..8 : moved[i] \in Bit
      BY <1>2, RegisterSeq
    <2>2. s \in Seq(Bit) /\ Len(s) = 8 /\ \A i \in 1..8 : s[i] = moved[i]
      BY <2>1, SubSeqProperties
    <2>3. lat.reg \in Seq(Bit) /\ Len(lat.reg) = 8
      BY <1>1, RegisterSeq, Words
    <2> HIDE DEF s
    <2>4. \A i \in 1..Len(s) + Len(lat.reg) :
             (s \o lat.reg)[i] = IF i <= Len(s) THEN s[i] ELSE lat.reg[i - Len(s)]
      BY <2>2, <2>3, ConcatProperties
    <2>5. \A i \in 1..5 : i \in 1..Len(s) + Len(lat.reg) /\ i <= Len(s) /\ i \in 1..8
      BY <2>2, <2>3
    <2>6. \A i \in 1..5 : (s \o lat.reg)[i] = s[i]
      BY <2>4, <2>5
    <2> QED
      BY <2>2, <2>5, <2>6, Zenon DEF s
  <1>4. x = [temp |-> IF load THEN SubSeq(moved, 1, 8) \o lat.reg ELSE moved,
             cnt |-> cnt % 8, shifting |-> B(~load), out |-> Shift(p2s.out, p2s.temp[1])]
    BY DEF NextP2s, moved, stuff
  <1> HIDE DEF load, cnt
  <1>5. \A i \in 1..5 : x.temp[i] = moved[i]
    BY <1>3, <1>4
  <1>6. x.out[1] = p2s.out[2] /\ x.out[2] = p2s.temp[1]
    BY <1>1, <1>4, FlopShift
  <1>7. stuff => /\ x.temp[1] = 1 /\ x.temp[2] = 1 /\ x.temp[3] = 1 /\ x.temp[4] = 1
                 /\ x.temp[5] = 0
    BY <1>2, <1>5
  <1>8. ~stuff => \A i \in 1..5 : x.temp[i] = p2s.temp[i + 1]
    BY <1>2, <1>5
  <1> QED
    BY <1>6, <1>7, <1>8 DEF stuff

(* What FlagInsert's register holds while the frame runs through it. *)
LEMMA FlgCases ==
  ASSUME TxWidths, NEW x, x = NextFlg, x.on = 1
  PROVE  x.reg = Flag \/ (flg.on = 1 /\ (x.reg = Shift(flg.reg, p2s.out[1])))
  <1>1. flg \in FlgWidth /\ abt.seq \in Bit /\ ctl.seq \in Bit /\ ctl.open \in Bit /\ flg.on \in Bit
    BY DEF TxWidths, AbtWidth, CtlWidth, FlgWidth
  <1> DEFINE opened == IF ctl.open = 1 THEN Opened ELSE flg
             ended == [flg EXCEPT !.on = 0, !.tx = flg.reg[1], !.close = 16]
  <1>2. /\ DOMAIN flg = {"on", "reg", "seq", "shift", "close", "defence", "tx"}
        /\ DOMAIN opened = DOMAIN flg /\ opened.on = flg.on /\ Resting.on = flg.on
        /\ DOMAIN ended = DOMAIN flg /\ ended.on = 0
    BY <1>1 DEF Opened, Resting, FlgWidth
  <1>3. \/ flg.on = 0 /\ x = Resting
        \/ x = [opened EXCEPT !.on = 1, !.reg = Flag, !.tx = IF opened.seq = 1 THEN 0 ELSE @,
                              !.seq = 0, !.defence = 1]
        \/ x = [ended EXCEPT !.reg = Abort]
        \/ x = [ended EXCEPT !.reg = Flag]
        \/ flg.on = 1 /\ x = [flg EXCEPT !.tx = flg.reg[1], !.reg = Shift(@, p2s.out[1])]
        \/ flg.on = 0 /\ x = opened
    BY <1>1 DEF NextFlg, Bit
  <1> HIDE DEF opened, ended
  <1>4. [opened EXCEPT !.on = 1, !.reg = Flag, !.tx = IF opened.seq = 1 THEN 0 ELSE @,
                       !.seq = 0, !.defence = 1].reg = Flag
    BY <1>2
  <1>5. [flg EXCEPT !.tx = flg.reg[1], !.reg = Shift(@, p2s.out[1])].reg = Shift(flg.reg, p2s.out[1])
    BY <1>2
  <1>6. x # Resting \/ flg.on # 0
    BY <1>2
  <1>7. x # [ended EXCEPT !.reg = Abort] /\ x # [ended EXCEPT !.reg = Flag]
    <2>1. [ended EXCEPT !.reg = Abort].on = 0 /\ [ended EXCEPT !.reg = Flag].on = 0
      BY <1>2
    <2>2. \A y : x = y => y.on = 1
      OBVIOUS
    <2> DEFINE y == [ended EXCEPT !.reg = Abort]
               z == [ended EXCEPT !.reg = Flag]
    <2>3. y.on = 0 /\ z.on = 0
      BY <2>1
    <2> HIDE DEF y, z
    <2>4. x # y /\ x # z
      BY <2>2, <2>3
    <2> QED
      BY <2>4 DEF y, z
  <1>8. x # opened \/ flg.on # 0
    BY <1>2
  <1> QED
    BY <1>3, <1>4, <1>5, <1>6, <1>7, <1>8, Zenon

LEMMA StuffInit ==
  ASSUME Init
  PROVE  StuffInv
  <1>1. p2s.temp = Vector(16, 0) /\ flg.on = 0
    BY DEF Init
  <1>2. \A k \in 11..15 : Ahead(k) = 0
    BY <1>1 DEF Ahead, Vector
  <1> QED
    BY <1>1, <1>2 DEF StuffInv, Broken

LEMMA StuffKept ==
  ASSUME TypeOK, StuffInv, [Next]_vars
  PROVE  StuffInv'
  <1>1. TxWidths
    BY DEF TypeOK
  <1>2. CASE UNCHANGED <<p2s, flg>>
    BY <1>2 DEF StuffInv, Broken, Ahead
  <1>3. CASE BitClock /\ txEnable # 1
    <2>1. UNCHANGED p2s /\ flg' = [flg EXCEPT !.tx = 1]
      BY <1>3 DEF BitClock, Enabled
    <2>2. flg'.reg = flg.reg /\ flg'.on = flg.on
      BY <1>1, <2>1 DEF TxWidths, FlgWidth
    <2> QED
      BY <2>1, <2>2 DEF StuffInv, Broken, Ahead
  <1>4. CASE BitClock /\ txEnable = 1
    <2>1. p2s' = NextP2s /\ flg' = NextFlg
      BY <1>4 DEF BitClock, Enabled
    <2>2. /\ p2s'.out[1] = p2s.out[2] /\ p2s'.out[2] = p2s.temp[1]
          /\ IF \A i \in 1..5 : p2s.temp[i] = 1
             THEN /\ p2s'.temp[1] = 1 /\ p2s'.temp[2] = 1 /\ p2s'.temp[3] = 1 /\ p2s'.temp[4] = 1
                  /\ p2s'.temp[5] = 0
             ELSE \A i \in 1..5 : p2s'.temp[i] = p2s.temp[i + 1]
      BY <1>1, <2>1, P2sMoves
    <2>3. \A k \in 1..10 : p2s.temp[k] \in Bit
      <3>1. p2s.temp \in Register(16)
        BY <1>1 DEF TxWidths, P2sWidth
      <3> QED
        BY <3>1, RegisterSeq
    (* But for the zero put in, all bits move on. *)
    <2>4. /\ Ahead(9)' = Ahead(10) /\ Ahead(10)' = Ahead(11) /\ Ahead(11)' = Ahead(12)
          /\ Ahead(12)' = Ahead(13) /\ Ahead(13)' = Ahead(14) /\ Ahead(14)' = Ahead(15)
          /\ Ahead(15)' = Ahead(16) \/ Ahead(15)' = 0
      <3>1. /\ p2s'.temp[1] = p2s.temp[2] /\ p2s'.temp[2] = p2s.temp[3]
            /\ p2s'.temp[3] = p2s.temp[4] /\ p2s'.temp[4] = p2s.temp[5]
            /\ p2s'.temp[5] = p2s.temp[6] \/ p2s'.temp[5] = 0
        BY <2>2
      <3> QED
        BY <2>2, <3>1 DEF Ahead
    <2>5. Ahead(11) = 1 /\ Ahead(12) = 1 /\ Ahead(13) = 1 /\ Ahead(14) = 1 /\ Ahead(15) = 1
            => Ahead(15)' = 0
      <3>1. /\ Ahead(11) = p2s.temp[1] /\ Ahead(12) = p2s.temp[2] /\ Ahead(13) = p2s.temp[3]
            /\ Ahead(14) = p2s.temp[4] /\ Ahead(15) = p2s.temp[5] /\ Ahead(15)' = p2s'.temp[5]
        BY DEF Ahead
      <3>2. ASSUME /\ p2s.temp[1] = 1 /\ p2s.temp[2] = 1 /\ p2s.temp[3] = 1
                   /\ p2s.temp[4] = 1 /\ p2s.temp[5] = 1
            PROVE  \A i \in 1..5 : p2s.temp[i] = 1
        <4> TAKE i \in 1..5
        <4>1. i \in {1, 2, 3, 4, 5}
          OBVIOUS
        <4> QED
          BY <3>2, <4>1
      <3> QED
        BY <2>2, <3>1, <3>2
    <2>6. Ahead(11) \in Bit /\ Ahead(12) \in Bit /\ Ahead(13) \in Bit /\ Ahead(14) \in Bit /\ Ahead(15) \in Bit
      BY <2>3 DEF Ahead
    <2>7. Broken(9)' /\ Broken(10)'
      <3>1. Broken(10)
        BY DEF StuffInv
      <3>2. /\ Broken(9)' <=> \/ Ahead(9)' = 0 \/ Ahead(10)' = 0 \/ Ahead(11)' = 0
                              \/ Ahead(12)' = 0 \/ Ahead(13)' = 0 \/ Ahead(14)' = 0
            /\ Broken(10)' <=> \/ Ahead(10)' = 0 \/ Ahead(11)' = 0 \/ Ahead(12)' = 0
                               \/ Ahead(13)' = 0 \/ Ahead(14)' = 0 \/ Ahead(15)' = 0
        <4>1. 9..9 + 5 = {9, 10, 11, 12, 13, 14} /\ 10..10 + 5 = {10, 11, 12, 13, 14, 15}
          OBVIOUS
        <4> QED
          BY <4>1 DEF Broken
      <3>3. \/ Ahead(10) = 0 \/ Ahead(11) = 0 \/ Ahead(12) = 0
            \/ Ahead(13) = 0 \/ Ahead(14) = 0 \/ Ahead(15) = 0
        <4>1. 10..10 + 5 = {10, 11, 12, 13, 14, 15}
          OBVIOUS
        <4> QED
          BY <3>1, <4>1 DEF Broken
      <3> QED
        BY <2>4, <2>5, <2>6, <3>2, <3>3 DEF Bit
    <2>8. ASSUME flg'.on = 1
          PROVE  \A i \in 3..8 : Broken(i)'
      <3>1. \/ flg'.reg = Flag
            \/ flg.on = 1 /\ flg'.reg = Shift(flg.reg, p2s.out[1])
        BY <1>1, <2>1, <2>8, FlgCases
      <3>2. CASE flg'.reg = Flag
        <4>1. Ahead(8)' = 0
          BY <3>2 DEF Ahead, Flag
        <4> QED
          BY <4>1 DEF Broken
      <3>3. CASE flg.on = 1 /\ flg'.reg = Shift(flg.reg, p2s.out[1])
        <4>1. flg.reg \in Register(8) /\ p2s.out[1] \in Bit
          BY <1>1, FlopBits DEF TxWidths, FlgWidth, P2sWidth
        <4>2. flg'.reg[8] = p2s.out[1] /\ \A k \in 1..7 : flg'.reg[k] = flg.reg[k + 1]
          BY <3>3, <4>1, RegisterShift
        <4>3. \A k \in 3..13 : Ahead(k)' = Ahead(k + 1)
          <5> TAKE k \in 3..13
          <5>1. k \in 3..7 \/ k \in {8, 9, 10, 11, 12, 13}
            OBVIOUS
          <5>2. CASE k \in 3..7
            BY <4>2, <5>2 DEF Ahead
          <5>3. CASE k = 8
            BY <4>2, <5>3 DEF Ahead
          <5> QED
            BY <2>4, <5>1, <5>2, <5>3
        <4> TAKE i \in 3..8
        <4>4. PICK k \in (i + 1)..(i + 1) + 5 : Ahead(k) = 0
          <5>1. i + 1 \in 3..8 \/ i + 1 = 9
            OBVIOUS
          <5>2. Broken(i + 1)
            BY <3>3, <5>1 DEF StuffInv
          <5> QED
            BY <5>2 DEF Broken
        <4>5. k - 1 \in 3..13 /\ k - 1 \in i..i + 5 /\ (k - 1) + 1 = k
          OBVIOUS
        <4>6. Ahead(k - 1)' = 0
          BY <4>3, <4>4, <4>5
        <4> QED
          BY <4>5, <4>6 DEF Broken
      <3> QED
        BY <3>1, <3>2, <3>3
    <2> QED
      BY <2>7, <2>8 DEF StuffInv
  <1>5. SystemClock \/ WriteBuffer \/ Enable \/ UNCHANGED vars => UNCHANGED <<p2s, flg>>
    BY DEF SystemClock, WriteBuffer, Enable, slow, vars
  <1> QED
    BY <1>2, <1>3, <1>4, <1>5 DEF Next

(* While a frame runs through FlagInsert six ones in a row are never on      *)
(* their way to the line, whatever the bytes and wherever they meet: no part *)
(* of a frame or of its FCS is a flag or an abort, and the ones of the flag  *)
(* before it are not prolonged (ZeroInsert.vhd, FlagInsert.vhd).             *)
THEOREM NoSixOnes == Spec => [](flg.on = 1 => \A i \in 3..10 : Broken(i))
  <1>1. TypeOK /\ StuffInv => (flg.on = 1 => \A i \in 3..10 : Broken(i))
    <2>1. \A i \in 3..10 : i \in 3..8 \/ i = 9 \/ i = 10
      OBVIOUS
    <2> QED
      BY <2>1 DEF StuffInv
  <1>2. Init => TypeOK /\ StuffInv
    BY TypeInit, StuffInit
  <1>3. TypeOK /\ StuffInv /\ [Next]_vars => (TypeOK /\ StuffInv)'
    BY TypeKept, StuffKept
  <1> QED
    BY <1>1, <1>2, <1>3, PTL DEF Spec

-----------------------------------------------------------------------------
(* The receiver's FCS. *)

(* What RxFcs has summed up is the FCS of what RxBuffer holds, and of two     *)
(* more bytes once the frame has ended: no byte goes into the one and not    *)
(* into the other.                                                            *)
SumInv ==
    /\ rr[2] # out.ready => rr[1] # out.ready
    /\ rfcs.state = "read" => out.ready = 0 \/ (rr[1] = 1 /\ rr[2] = 1)
    /\ rfcs.prior = 1 => rfcs.state = "run" /\ rr[1] = 0 /\ rfcs.cnt = 2 /\ rfcs.write = 0
    /\ rfcs.write = 1 => rfcs.state \in {"run", "eof1"} /\ rfcs.cnt = 2
    /\ rfcs.state = "idle" => got = <<>>
    /\ rfcs.state \in {"run", "read"} /\ rfcs.cnt = 0 => got = <<>>
    /\ rfcs.state \in {"run", "read", "eof1"} => FcsOf(got, rfcs.crc)
    /\ rfcs.state = "eof2" => \E c \in Sums : FcsOf(got, c) /\ rfcs.crc = NextCrc(rfcs.reg[2], c)
    /\ rfcs.state = "eofZ" => \E c \in Sums :
          FcsOf(got, c) /\ rfcs.crc = NextCrc(rfcs.reg[3], NextCrc(rfcs.reg[2], c))

LEMMA RfcsStep ==
  ASSUME rfcs \in RfcsWidth, NEW x, x = NextRxFcs
  PROVE  /\ rfcs.state = "idle" =>
              /\ x.state \in {"idle", "run"} /\ x.crc = CrcOnes
              /\ x.cnt = 0 /\ x.prior = 0 /\ x.write = 0
         /\ rfcs.state = "run" =>
              /\ x.state = (IF rv[1] = 1 THEN IF rr[1] = 1 THEN "read" ELSE "run"
                            ELSE IF rfcs.cnt = 0 THEN "idle" ELSE "eof1")
              /\ x.crc = (IF rfcs.write = 1 THEN NextCrc(rfcs.reg[1], rfcs.crc) ELSE rfcs.crc)
              /\ x.reg = rfcs.reg /\ x.cnt = rfcs.cnt /\ x.prior = 0 /\ x.write = rfcs.prior
         /\ rfcs.state = "read" /\ rr[1] = 1 =>
              /\ x.state = "read" /\ x.crc = rfcs.crc /\ x.reg = rfcs.reg /\ x.cnt = rfcs.cnt
              /\ x.prior = 0 /\ x.write = 0
         /\ rfcs.state = "read" /\ rr[1] # 1 =>
              /\ x.state = "run" /\ x.crc = rfcs.crc
              /\ x.cnt = (IF rfcs.cnt < 2 THEN rfcs.cnt + 1 ELSE rfcs.cnt)
              /\ x.prior = (IF rfcs.cnt > 1 THEN 1 ELSE rfcs.prior) /\ x.write = rfcs.prior
         /\ rfcs.state = "eof1" =>
              /\ x.state = "eof2" /\ x.crc = NextCrc(rfcs.reg[2], rfcs.crc)
              /\ x.reg = rfcs.reg /\ x.prior = rfcs.prior /\ x.write = rfcs.prior
         /\ rfcs.state = "eof2" =>
              /\ x.state = "eofZ" /\ x.crc = NextCrc(rfcs.reg[3], rfcs.crc)
              /\ x.reg = rfcs.reg /\ x.prior = rfcs.prior /\ x.write = rfcs.prior
         /\ rfcs.state = "eofZ" => x.state = "idle" /\ x.prior = 0 /\ x.write = 0
  <1>1. DOMAIN rfcs = {"state", "crc", "reg", "cnt", "read", "prior", "write"}
    BY DEF RfcsWidth
  <1>2. CASE rfcs.state = "idle"
    BY <1>2 DEF NextRxFcs
  <1>3. CASE rfcs.state = "run"
    <2>1. x = [rfcs EXCEPT !.write = rfcs.prior,
                           !.state = IF rv[1] = 1 THEN IF rr[1] = 1 THEN "read" ELSE "run"
                                     ELSE IF rfcs.cnt = 0 THEN "idle" ELSE "eof1",
                           !.crc = IF rfcs.write = 1 THEN NextCrc(rfcs.reg[1], @) ELSE @,
                           !.read = 0, !.prior = 0]
      BY <1>3 DEF NextRxFcs
    <2> QED
      BY <1>1, <1>3, <2>1
  <1>4. CASE rfcs.state = "read" /\ rr[1] = 1
    BY <1>1, <1>4 DEF NextRxFcs
  <1>5. CASE rfcs.state = "read" /\ rr[1] # 1
    <2>1. x = [rfcs EXCEPT !.write = rfcs.prior, !.state = "run", !.read = 0, !.reg = Shift(@, out.d),
                           !.prior = IF rfcs.cnt > 1 THEN 1 ELSE @,
                           !.cnt = IF @ < 2 THEN @ + 1 ELSE @]
      BY <1>5 DEF NextRxFcs
    <2> QED
      BY <1>1, <1>5, <2>1
  <1>6. CASE rfcs.state = "eof1"
    <2>1. x = [rfcs EXCEPT !.write = rfcs.prior, !.state = "eof2", !.crc = NextCrc(rfcs.reg[2], @)]
      BY <1>6 DEF NextRxFcs
    <2> QED
      BY <1>1, <1>6, <2>1
  <1>7. CASE rfcs.state = "eof2"
    <2>1. x = [rfcs EXCEPT !.write = rfcs.prior, !.state = "eofZ", !.crc = NextCrc(rfcs.reg[3], @)]
      BY <1>7 DEF NextRxFcs
    <2> QED
      BY <1>1, <1>7, <2>1
  <1>8. CASE rfcs.state = "eofZ"
    BY <1>1, <1>8 DEF NextRxFcs
  <1> QED
    BY <1>2, <1>3, <1>4, <1>5, <1>6, <1>7, <1>8

LEMMA SumInit ==
  ASSUME Init
  PROVE  SumInv
  BY DEF Init, SumInv

LEMMA SumKept ==
  ASSUME TypeOK, SumInv, [Next]_vars
  PROVE  SumInv'
  <1>1. /\ rfcs \in RfcsWidth /\ rfcs' \in RfcsWidth /\ got \in Seq(Byte)
        /\ rr \in Register(2) /\ out.ready \in Bit /\ rr[1] \in Bit /\ rr[2] \in Bit
    <2>1. TypeOK'
      BY TypeKept
    <2> QED
      BY <2>1, FlopBits DEF TypeOK, RxWidths, OutWidth
  <1>2. /\ rfcs.state \in RfcsStates /\ rfcs.crc \in Sums /\ rfcs.reg[1] \in Byte
        /\ rfcs.cnt \in 0..2 /\ rfcs.prior \in Bit /\ rfcs.write \in Bit
    BY <1>1 DEF RfcsWidth
  <1>3. CASE SystemClock
    <2>1. /\ UNCHANGED out /\ rfcs' = NextRxFcs /\ got' = NextGot
          /\ rr'[1] = rr[2] /\ rr'[2] = out.ready
      <3>1. UNCHANGED out /\ rfcs' = NextRxFcs /\ got' = NextGot /\ rr' = Shift(rr, out.ready)
        BY <1>3 DEF SystemClock, slow
      <3> QED
        BY <1>1, <3>1, FlopShift
    <2>2. rr'[2] # out'.ready => rr'[1] # out'.ready
      BY <2>1
    <2>3. CASE rfcs.state = "idle"
      <3>1. /\ rfcs'.state \in {"idle", "run"} /\ rfcs'.crc = CrcOnes /\ rfcs'.cnt = 0
            /\ rfcs'.prior = 0 /\ rfcs'.write = 0
        BY <1>1, <2>1, <2>3, RfcsStep
      <3>2. got' = <<>>
        BY <2>1, <2>3 DEF NextGot, SumInv
      <3>3. FcsOf(got', rfcs'.crc)
        BY <3>1, <3>2, FcsStart
      <3> QED
        BY <2>2, <3>1, <3>2, <3>3 DEF SumInv
    <2>4. CASE rfcs.state = "run"
      <3>1. /\ rfcs'.state = (IF rv[1] = 1 THEN IF rr[1] = 1 THEN "read" ELSE "run"
                              ELSE IF rfcs.cnt = 0 THEN "idle" ELSE "eof1")
            /\ rfcs'.crc = (IF rfcs.write = 1 THEN NextCrc(rfcs.reg[1], rfcs.crc) ELSE rfcs.crc)
            /\ rfcs'.cnt = rfcs.cnt /\ rfcs'.prior = 0 /\ rfcs'.write = rfcs.prior
        BY <1>1, <2>1, <2>4, RfcsStep
      <3>2. got' = IF rfcs.write = 1 THEN Append(got, rfcs.reg[1]) ELSE got
        BY <2>1, <2>4 DEF NextGot
      <3>3. FcsOf(got', rfcs'.crc)
        BY <1>1, <1>2, <2>4, <3>1, <3>2, FcsAppend DEF SumInv
      <3>4. rfcs.cnt = 0 => got' = <<>>
        BY <1>2, <2>4, <3>2 DEF SumInv
      <3>5. rfcs'.state = "read" => out'.ready = 0 \/ (rr'[1] = 1 /\ rr'[2] = 1)
        BY <1>1, <2>1, <3>1 DEF SumInv, Bit
      <3>6. rfcs'.write = 1 => rfcs'.state \in {"run", "eof1"} /\ rfcs'.cnt = 2
        BY <3>1 DEF SumInv
      <3> QED
        BY <2>2, <3>1, <3>3, <3>4, <3>5, <3>6 DEF SumInv
    <2>5. CASE rfcs.state = "read" /\ rr[1] = 1
      <3>1. /\ rfcs'.state = "read" /\ rfcs'.crc = rfcs.crc /\ rfcs'.cnt = rfcs.cnt
            /\ rfcs'.prior = 0 /\ rfcs'.write = 0
        BY <1>1, <2>1, <2>5, RfcsStep
      <3>2. got' = got
        BY <2>1, <2>5 DEF NextGot, SumInv
      <3>3. out'.ready = 0 \/ (rr'[1] = 1 /\ rr'[2] = 1)
        BY <1>1, <2>1, <2>5 DEF SumInv, Bit
      <3> QED
        BY <2>2, <2>5, <3>1, <3>2, <3>3 DEF SumInv
    <2>6. CASE rfcs.state = "read" /\ rr[1] # 1
      <3>1. rfcs.prior = 0 /\ rfcs.write = 0 /\ out.ready = 0 /\ rr[2] = 0
        BY <1>1, <1>2, <2>6 DEF SumInv, Bit
      <3>2. /\ rfcs'.state = "run" /\ rfcs'.crc = rfcs.crc
            /\ rfcs'.cnt = (IF rfcs.cnt < 2 THEN rfcs.cnt + 1 ELSE rfcs.cnt)
            /\ rfcs'.prior = (IF rfcs.cnt > 1 THEN 1 ELSE 0) /\ rfcs'.write = 0
        BY <1>1, <2>1, <2>6, <3>1, RfcsStep
      <3>3. got' = got
        BY <2>1, <2>6, <3>1 DEF NextGot
      <3>4. rfcs'.cnt # 0
        BY <1>2, <3>2
      <3>5. rfcs'.prior = 1 => rr'[1] = 0 /\ rfcs'.cnt = 2
        BY <1>2, <2>1, <3>1, <3>2
      <3> QED
        BY <2>2, <2>6, <3>2, <3>3, <3>4, <3>5 DEF SumInv
    <2>7. CASE rfcs.state = "eof1"
      <3>1. /\ rfcs'.state = "eof2" /\ rfcs'.crc = NextCrc(rfcs.reg[2], rfcs.crc)
            /\ rfcs'.reg = rfcs.reg /\ rfcs'.prior = rfcs.prior /\ rfcs'.write = rfcs.prior
        BY <1>1, <2>1, <2>7, RfcsStep
      <3>2. got' = got /\ rfcs.prior = 0
        BY <1>2, <2>1, <2>7 DEF NextGot, SumInv, Bit
      <3>3. FcsOf(got, rfcs.crc)
        BY <2>7 DEF SumInv
      <3> QED
        BY <1>2, <2>2, <3>1, <3>2, <3>3 DEF SumInv
    <2>8. CASE rfcs.state = "eof2"
      <3>1. /\ rfcs'.state = "eofZ" /\ rfcs'.crc = NextCrc(rfcs.reg[3], rfcs.crc)
            /\ rfcs'.reg = rfcs.reg /\ rfcs'.prior = rfcs.prior /\ rfcs'.write = rfcs.prior
        BY <1>1, <2>1, <2>8, RfcsStep
      <3>2. got' = got /\ rfcs.prior = 0
        BY <1>2, <2>1, <2>8 DEF NextGot, SumInv, Bit
      <3>3. PICK c \in Sums : FcsOf(got, c) /\ rfcs.crc = NextCrc(rfcs.reg[2], c)
        BY <2>8 DEF SumInv
      <3> QED
        BY <2>2, <3>1, <3>2, <3>3 DEF SumInv
    <2>9. CASE rfcs.state = "eofZ"
      <3>1. rfcs'.state = "idle" /\ rfcs'.prior = 0 /\ rfcs'.write = 0
        BY <1>1, <2>1, <2>9, RfcsStep
      <3>2. got' = <<>>
        BY <2>1, <2>9 DEF NextGot
      <3> QED
        BY <2>2, <3>1, <3>2 DEF SumInv
    <2> QED
      BY <1>2, <2>3, <2>4, <2>5, <2>6, <2>7, <2>8, <2>9 DEF RfcsStates
  <1>4. CASE BitClock
    <2>1. UNCHANGED <<rfcs, rr, got>> /\ Settled
      BY <1>4 DEF BitClock, fast
    <2>2. rr[1] = rr[2]
      <3>1. rr = Shift(rr, out.ready)
        BY <2>1 DEF Settled
      <3>2. Shift(rr, out.ready)[1] = rr[2] /\ Shift(rr, out.ready)[2] = out.ready
        BY <1>1, FlopShift
      <3> QED
        BY <3>1, <3>2
    <2>3. rfcs.state = "read" => rr[1] = 1
      <3>1. rfcs = NextRxFcs
        BY <2>1 DEF Settled
      <3>2. rfcs.state = "read" /\ rr[1] # 1 => NextRxFcs.state = "run"
        BY <1>1, RfcsStep
      <3> QED
        BY <3>1, <3>2
    <2> QED
      BY <2>1, <2>2, <2>3 DEF SumInv
  <1>5. CASE WriteBuffer \/ Enable \/ UNCHANGED vars
    <2>1. UNCHANGED <<rfcs, rr, got, out>>
      BY <1>5 DEF WriteBuffer, Enable, slow, fast, vars
    <2> QED
      BY <2>1 DEF SumInv
  <1> QED
    BY <1>3, <1>4, <1>5 DEF Next

(* A frame ends in order if its last two bytes are the FCS of all before. *)
EndsInOrder(f, h, l) == \E c \in Sums : FcsOf(f, c) /\ h = HighFcs(c) /\ l = LowFcs(c)

(* When RxFcs ends a frame it reports no error exactly if the last two bytes  *)
(* taken are the FCS of the bytes in RxBuffer: whatever came over the line   *)
(* and however the bytes fell to the two clocks, each byte is both summed up *)
(* and handed over, or neither (RxFcs.vhd).                                  *)
THEOREM AcceptedByFcs ==
  Spec => [](rfcs.state = "eofZ" =>
               (rfcs.crc = Residue <=> EndsInOrder(got, rfcs.reg[2], rfcs.reg[3])))
  <1>1. TypeOK /\ SumInv =>
          (rfcs.state = "eofZ" =>
               (rfcs.crc = Residue <=> EndsInOrder(got, rfcs.reg[2], rfcs.reg[3])))
    <2> SUFFICES ASSUME TypeOK, SumInv, rfcs.state = "eofZ"
                 PROVE  rfcs.crc = Residue <=> EndsInOrder(got, rfcs.reg[2], rfcs.reg[3])
      OBVIOUS
    <2>1. rfcs.reg[2] \in Byte /\ rfcs.reg[3] \in Byte /\ got \in Seq(Byte)
      BY DEF TypeOK, RxWidths, RfcsWidth
    <2>2. PICK c \in Sums :
             FcsOf(got, c) /\ rfcs.crc = NextCrc(rfcs.reg[3], NextCrc(rfcs.reg[2], c))
      BY DEF SumInv
    <2>3. rfcs.crc = Residue <=> rfcs.reg[2] = HighFcs(c) /\ rfcs.reg[3] = LowFcs(c)
      BY <2>1, <2>2, ResidueDecides
    <2>4. \A b \in Sums : FcsOf(got, b) => b = c
      BY <2>1, <2>2, FcsUnique
    <2> QED
      BY <2>2, <2>3, <2>4 DEF EndsInOrder
  <1>2. Init => TypeOK /\ SumInv
    BY TypeInit, SumInit
  <1>3. TypeOK /\ SumInv /\ [Next]_vars => (TypeOK /\ SumInv)'
    BY TypeKept, SumKept
  <1> QED
    BY <1>1, <1>2, <1>3, PTL DEF Spec

-----------------------------------------------------------------------------
(* The sender's FCS. *)

Closing == {"closeBody", "fcs0", "fcs1", "closeFcs0", "closeFcs1"}
Frame == port.script[sent]

(* What TxFcs has read so far, and what it has summed up.                    *)
SendInv ==
    /\ buff # "idle" \/ fcs.state # "idle" => sent \in 1..Len(port.script)
    /\ buff # "idle" /\ fcs.state = "idle" => rest = Frame
    /\ fcs.state \in {"read", "readyLow", "wait"} => \E g \in Seq(Byte) :
          /\ Frame = g \o rest /\ FcsOf(g, fcs.crc)
          /\ fcs.state = "readyLow" => g # <<>> /\ fcs.d = g[Len(g)]
    /\ fcs.state \in Closing => FcsOf(Frame, fcs.crc)
    /\ fcs.state = "closeFcs0" => fcs.d = HighFcs(fcs.crc)
    /\ fcs.state = "closeFcs1" => fcs.d = LowFcs(fcs.crc)
    /\ fcs.state \in Fetching /\ lat.ready = 0 => lat.reg = fcs.d

(* The byte TxFcs has to hand over next.                                     *)
Due(d) ==
    \/ fcs.state = "readyLow" /\ Len(rest) < Len(Frame) /\ d = Frame[Len(Frame) - Len(rest)]
    \/ fcs.state = "closeFcs0" /\ \E c \in Sums : FcsOf(Frame, c) /\ d = HighFcs(c)
    \/ fcs.state = "closeFcs1" /\ \E c \in Sums : FcsOf(Frame, c) /\ d = LowFcs(c)

LEMMA HeadMoves ==
  ASSUME NEW g \in Seq(Byte), NEW r \in Seq(Byte), r # <<>>
  PROVE  g \o r = Append(g, Head(r)) \o Tail(r)
  <1> DEFINE h == Append(g, Head(r))
             t == Tail(r)
  <1>1. /\ h \in Seq(Byte) /\ Len(h) = Len(g) + 1
        /\ \A i \in 1..Len(g) : h[i] = g[i]
        /\ h[Len(g) + 1] = r[1]
    <2>1. Head(r) \in Byte /\ Head(r) = r[1]
      BY HeadTailProperties
    <2> QED
      BY <2>1, AppendProperties
  <1>2. t \in Seq(Byte) /\ Len(t) = Len(r) - 1 /\ \A i \in 1..Len(t) : t[i] = r[i + 1]
    BY HeadTailProperties
  <1> HIDE DEF h, t
  <1>3. /\ g \o r \in Seq(Byte) /\ Len(g \o r) = Len(g) + Len(r)
        /\ \A i \in 1..Len(g) + Len(r) : (g \o r)[i] = IF i <= Len(g) THEN g[i] ELSE r[i - Len(g)]
    BY ConcatProperties
  <1>4. /\ h \o t \in Seq(Byte) /\ Len(h \o t) = Len(h) + Len(t)
        /\ \A i \in 1..Len(h) + Len(t) : (h \o t)[i] = IF i <= Len(h) THEN h[i] ELSE t[i - Len(h)]
    BY <1>1, <1>2, ConcatProperties
  <1>5. Len(g) \in Nat /\ Len(r) \in Nat /\ Len(h) + Len(t) = Len(g) + Len(r)
    BY <1>1, <1>2
  <1>6. \A i \in 1..Len(g) + Len(r) : (g \o r)[i] = (h \o t)[i]
    <2> TAKE i \in 1..Len(g) + Len(r)
    <2>1. CASE i <= Len(g)
      BY <1>1, <1>3, <1>4, <1>5, <2>1
    <2>2. CASE i = Len(g) + 1
      BY <1>1, <1>3, <1>4, <1>5, <2>2
    <2>3. CASE i > Len(g) + 1
      <3>1. i - Len(h) \in 1..Len(t) /\ (i - Len(h)) + 1 = i - Len(g)
        BY <1>1, <1>2, <1>5, <2>3
      <3>2. (h \o t)[i] = t[i - Len(h)] /\ (g \o r)[i] = r[i - Len(g)]
        BY <1>1, <1>3, <1>4, <1>5, <2>3
      <3>3. t[i - Len(h)] = r[(i - Len(h)) + 1]
        BY <1>2, <3>1
      <3> QED
        BY <3>1, <3>2, <3>3
    <2> QED
      BY <1>5, <2>1, <2>2, <2>3
  <1>7. g \o r = h \o t
    BY <1>3, <1>4, <1>5, <1>6, SeqEqual
  <1> QED
    BY <1>7 DEF h, t

(* What TxFcs makes of its sum and of what it offers. *)
LEMMA FcsData ==
  ASSUME fcs \in FcsWidth, NEW x, x = NextTxFcs
  PROVE  /\ fcs.state = "idle" => x.crc = CrcOnes
         /\ fcs.state = "read" => x.crc = NextCrc(Head(rest), fcs.crc) /\ x.d = Head(rest)
         /\ fcs.state \notin {"idle", "read"} => x.crc = fcs.crc
         /\ fcs.state \in Fetching => x.d = fcs.d
         /\ fcs.state = "fcs0" => x.d = HighFcs(fcs.crc)
         /\ fcs.state = "fcs1" => x.d = LowFcs(fcs.crc)
  <1>1. DOMAIN fcs = {"state", "crc", "valid", "write", "d"} /\ fcs.state \in FcsStates
    BY DEF FcsWidth
  <1> USE <1>1 DEF Fetching
  <1>2. CASE fcs.state = "idle"
    BY <1>2 DEF NextTxFcs
  <1>3. CASE fcs.state = "read"
    BY <1>3 DEF NextTxFcs
  <1>4. CASE fcs.state = "readyLow"
    BY <1>4 DEF NextTxFcs
  <1>5. CASE fcs.state = "wait"
    BY <1>5 DEF NextTxFcs
  <1>6. CASE fcs.state = "closeBody"
    BY <1>6 DEF NextTxFcs
  <1>7. CASE fcs.state = "fcs0"
    BY <1>7 DEF NextTxFcs
  <1>8. CASE fcs.state = "closeFcs0"
    BY <1>8 DEF NextTxFcs
  <1>9. CASE fcs.state = "fcs1"
    BY <1>9 DEF NextTxFcs
  <1>10. CASE fcs.state = "closeFcs1"
    BY <1>10 DEF NextTxFcs
  <1> QED
    BY <1>2, <1>3, <1>4, <1>5, <1>6, <1>7, <1>8, <1>9, <1>10 DEF FcsStates

LEMMA SendInit ==
  ASSUME Init
  PROVE  SendInv
  BY DEF Init, SendInv, Closing, Fetching

LEMMA SendSystem ==
  ASSUME TypeOK, TxInv, SendInv, SystemClock
  PROVE  SendInv'
  <1>1. /\ UNCHANGED <<port, sent, lat>> /\ fcs' = NextTxFcs
        /\ rest' = IF fcs.state = "read" THEN Tail(rest) ELSE rest
        /\ buff' = IF fcs.state = "read" /\ Len(rest) = 1 THEN "idle" ELSE buff
    BY DEF SystemClock, slow
  <1>2. /\ fcs \in FcsWidth /\ FcsShape /\ rest \in Seq(Byte) /\ (buff = "idle" <=> rest = <<>>)
        /\ lat.ready \in Bit /\ fcs.state \in FcsStates /\ Frame' = Frame
    BY <1>1 DEF TypeOK, TxWidths, LatWidth, FcsWidth, TxInv, Shapes, Frame
  <1>3. /\ fcs.state \notin {"idle", "read"} => fcs'.crc = fcs.crc
        /\ fcs.state \in Fetching => fcs'.d = fcs.d
    BY <1>1, <1>2, FcsData
  <1>4. CASE fcs.state = "idle"
    <2>1. /\ fcs'.state = (IF rdy[1] = 1 /\ Avail THEN "read" ELSE "idle") /\ fcs'.crc = CrcOnes
          /\ rest' = rest /\ buff' = buff
      BY <1>1, <1>2, <1>4, FcsStep, FcsData
    <2>2. ASSUME fcs'.state = "read"
          PROVE  Frame = <<>> \o rest' /\ FcsOf(<<>>, fcs'.crc) /\ <<>> \in Seq(Byte)
      BY <1>2, <1>4, <2>1, <2>2, FcsStart, ConcatEmptySeq DEF SendInv, Avail
    <2>3. buff' # "idle" \/ fcs'.state # "idle" => sent' \in 1..Len(port'.script)
      BY <1>1, <1>4, <2>1 DEF SendInv, Avail
    <2>4. buff' # "idle" /\ fcs'.state = "idle" => rest' = Frame'
      BY <1>2, <1>4, <2>1 DEF SendInv
    <2>5. fcs'.state = "read" => \E g \in Seq(Byte) : Frame' = g \o rest' /\ FcsOf(g, fcs'.crc)
      BY <1>2, <2>2
    <2> QED
      BY <2>1, <2>3, <2>4, <2>5 DEF SendInv, Closing, Fetching
  <1>5. CASE fcs.state = "read"
    <2>1. PICK g \in Seq(Byte) : Frame = g \o rest /\ FcsOf(g, fcs.crc)
      BY <1>5 DEF SendInv
    <2>2. rest # <<>> /\ Head(rest) \in Byte /\ lat.ready = 1
      <3>1. buff = "read" /\ lat.ready = 1
        BY <1>5 DEF TxInv, FcsInv
      <3> QED
        BY <1>2, <3>1, HeadTailProperties
    <2>3. /\ fcs'.state = "readyLow" /\ fcs'.crc = NextCrc(Head(rest), fcs.crc)
          /\ fcs'.d = Head(rest) /\ rest' = Tail(rest)
      BY <1>1, <1>2, <1>5, FcsStep, FcsData
    <2> DEFINE h == Append(g, Head(rest))
    <2>4. /\ h \in Seq(Byte) /\ h # <<>> /\ h[Len(h)] = Head(rest)
          /\ Frame' = h \o rest' /\ FcsOf(h, fcs'.crc)
      <3>1. h \in Seq(Byte) /\ h # <<>> /\ h[Len(h)] = Head(rest)
        BY <2>2, AppendProperties
      <3>2. g \o rest = h \o Tail(rest)
        BY <1>2, <2>2, HeadMoves
      <3>3. FcsOf(h, NextCrc(Head(rest), fcs.crc))
        BY <2>1, <2>2, FcsAppend
      <3> QED
        BY <1>2, <2>1, <2>3, <3>1, <3>2, <3>3
    <2> HIDE DEF h
    <2>5. sent' \in 1..Len(port'.script)
      BY <1>1, <1>5 DEF SendInv
    <2>6. lat'.ready # 0 /\ fcs'.state \notin Closing
      BY <1>1, <2>2, <2>3 DEF Closing
    <2>7. \E k \in Seq(Byte) :
            /\ Frame' = k \o rest' /\ FcsOf(k, fcs'.crc)
            /\ fcs'.state = "readyLow" => k # <<>> /\ fcs'.d = k[Len(k)]
      BY <2>3, <2>4
    <2> QED
      BY <2>3, <2>5, <2>6, <2>7 DEF SendInv, Closing
  <1>6. CASE fcs.state \notin {"idle", "read"}
    <2>1. rest' = rest /\ buff' = buff /\ fcs'.crc = fcs.crc /\ sent' \in 1..Len(port'.script)
      BY <1>1, <1>3, <1>6 DEF SendInv
    <2>2. CASE fcs.state \in {"readyLow", "wait"}
      <3>1. PICK g \in Seq(Byte) :
               /\ Frame = g \o rest /\ FcsOf(g, fcs.crc)
               /\ fcs.state = "readyLow" => g # <<>> /\ fcs.d = g[Len(g)]
        BY <2>2 DEF SendInv
      <3>2. /\ fcs'.state \in {"read", "readyLow", "wait", "closeBody"}
            /\ fcs'.state = "readyLow" => fcs.state = "readyLow"
            /\ fcs'.state = "closeBody" => ~Avail
        BY <1>1, <1>2, <2>2, FcsStep DEF Fetching
      <3>3. ASSUME ~Avail
            PROVE  FcsOf(Frame, fcs.crc)
        <4>1. buff = "idle"
          BY <2>2, <3>3 DEF Avail, TxInv, FcsInv, StageInv, Working, Shapes
        <4>2. rest = <<>>
          BY <1>2, <4>1
        <4> QED
          BY <3>1, <4>2, ConcatEmptySeq
      <3>4. fcs'.state \in {"read", "readyLow", "wait"} => \E h \in Seq(Byte) :
              /\ Frame' = h \o rest' /\ FcsOf(h, fcs'.crc)
              /\ fcs'.state = "readyLow" => h # <<>> /\ fcs'.d = h[Len(h)]
        BY <1>2, <1>3, <2>1, <3>1, <3>2 DEF Fetching
      <3>5. fcs'.state \in Fetching /\ lat'.ready = 0 => lat'.reg = fcs'.d
        BY <1>1, <1>3, <3>2 DEF SendInv, Fetching
      <3> QED
        BY <1>2, <2>1, <3>2, <3>3, <3>4, <3>5 DEF SendInv, Closing
    <2>3. CASE fcs.state \in Closing
      <3>1. FcsOf(Frame, fcs.crc) /\ buff = "idle"
        BY <2>3 DEF SendInv, TxInv, FcsInv, Closing
      <3>2. /\ fcs'.state \in Closing \cup {"idle"}
            /\ fcs'.state = "closeFcs0" => fcs.state = "closeFcs0" \/ (fcs.state = "fcs0" /\ rdy[1] = 1)
            /\ fcs'.state = "closeFcs1" => fcs.state = "closeFcs1" \/ (fcs.state = "fcs1" /\ rdy[1] = 1)
        BY <1>1, <1>2, <2>3, FcsStep DEF Fetching, Closing
      <3>3. fcs'.state = "closeFcs0" => fcs'.d = HighFcs(fcs'.crc)
        BY <1>1, <1>2, <2>1, <3>2, FcsData DEF SendInv, Fetching
      <3>4. fcs'.state = "closeFcs1" => fcs'.d = LowFcs(fcs'.crc)
        BY <1>1, <1>2, <2>1, <3>2, FcsData DEF SendInv, Fetching
      <3>5. fcs'.state \in Fetching /\ lat'.ready = 0 => lat'.reg = fcs'.d
        <4>1. rdy[1] = 1 /\ fcs.state \in {"fcs0", "fcs1"} => lat.ready = 1
          BY <1>2, <3>1 DEF TxInv, FcsInv, Fetching, Done, Bit
        <4> QED
          BY <1>1, <1>3, <3>2, <4>1 DEF SendInv, Fetching, Closing
      <3> QED
        BY <1>2, <2>1, <3>1, <3>2, <3>3, <3>4, <3>5 DEF SendInv, Closing
    <2> QED
      BY <1>2, <1>6, <2>2, <2>3 DEF FcsStates, Fetching, Closing
  <1> QED
    BY <1>4, <1>5, <1>6

LEMMA SendBit ==
  ASSUME TypeOK, TxInv, SendInv, BitClock, port.flag \in 0..7
  PROVE  SendInv'
  <1>1. UNCHANGED <<port, sent, fcs, rest, buff>>
    BY DEF BitClock, fast
  <1>2. ASSUME fcs.state \in Fetching, lat'.ready = 0
        PROVE  lat'.reg = fcs.d
    <2>1. CASE txEnable # 1
      <3>1. lat' = lat
        BY <2>1 DEF BitClock, Enabled
      <3> QED
        BY <1>2, <3>1 DEF SendInv
    <2>2. CASE txEnable = 1
      <3>1. lat' = NextLat /\ lat \in LatWidth /\ lat.ready \in Bit /\ wr[1] \in Bit
        BY <2>2, FlopBits DEF BitClock, Enabled, TypeOK, TxWidths, LatWidth
      <3>2. ctl.latch = 1 /\ (lat.ready = 1 => p2s.shifting = 1)
        <4>1. Working
          BY <1>2 DEF TxInv, FcsInv, Fetching
        <4>2. ctl.latch = 1
          BY <4>1 DEF TxInv, CtlInv, Shapes, CtlShape, Working, B
        <4> QED
          BY <4>1, <4>2 DEF TxInv, ExchangeInv, Age
      <3>3. CASE lat.ready = 0
        <4>1. lat.reg = fcs.d
          BY <1>2, <3>3 DEF SendInv
        <4>2. p2s.shifting # 0
          BY <1>2, <3>1, <3>2, <3>3 DEF NextLat, LatWidth
        <4> QED
          BY <3>1, <3>2, <3>3, <4>1, <4>2 DEF NextLat, LatWidth
      <3>4. CASE lat.ready = 1
        <4>1. wr[1] = 1
          BY <1>2, <3>1, <3>2, <3>4 DEF NextLat, LatWidth, Bit
        <4>2. NextLat = [lat EXCEPT !.ready = 0, !.reg = fcs.d]
          BY <3>2, <3>4, <4>1 DEF NextLat
        <4> QED
          BY <3>1, <4>2 DEF LatWidth
      <3> QED
        BY <3>1, <3>3, <3>4 DEF Bit
    <2> QED
      BY <2>1, <2>2
  <1> QED
    BY <1>1, <1>2 DEF SendInv, Frame, Fetching

LEMMA SendKept ==
  ASSUME TypeOK, Inv, Uncut => SendInv, [Next]_vars, Uncut'
  PROVE  SendInv'
  <1>1. port' = port /\ Uncut /\ cuts' = 0
    <2>1. port' = port /\ (cuts' = 0 => cuts = 0)
      BY DEF Inv, Next, SystemClock, BitClock, WriteBuffer, Enable, vars
    <2> QED
      BY <2>1 DEF Uncut, Steady
  <1>2. TxInv /\ SendInv /\ port.flag \in 0..7
    BY <1>1, PortsAssumption DEF Inv
  <1>3. CASE SystemClock
    BY <1>2, <1>3, SendSystem
  <1>4. CASE BitClock
    BY <1>2, <1>4, SendBit
  <1>5. CASE WriteBuffer
    <2>1. /\ ~Rts /\ buff = "idle" /\ sent < Len(port.script) /\ sent' = sent + 1
          /\ rest' = port.script[sent + 1] /\ UNCHANGED <<port, fcs, lat>>
      BY <1>1, <1>5 DEF WriteBuffer, slow, Uncut
    <2>2. fcs.state = "idle"
      <3>1. ctl.state = "idle"
        BY <1>1, <1>2, <2>1, FreeAtRest DEF Uncut
      <3> QED
        BY <1>2, <3>1 DEF TxInv, StageInv, Unasked
    <2>3. sent' \in 1..Len(port'.script)
      BY <2>1 DEF TypeOK, Counts
    <2> QED
      BY <2>1, <2>2, <2>3 DEF SendInv, Frame, Closing, Fetching
  <1>6. CASE Enable
    <2>1. /\ UNCHANGED <<port, sent, fcs, rest, lat>> /\ buff = "write"
      BY <1>6 DEF Enable, slow
    <2>2. fcs.state = "idle"
      BY <1>2, <2>1 DEF TxInv, FcsInv, StageInv, Working
    <2> QED
      BY <1>2, <2>1, <2>2 DEF SendInv, Frame, Closing, Fetching
  <1>7. CASE UNCHANGED vars
    <2>1. UNCHANGED <<port, sent, fcs, rest, buff, lat>>
      BY <1>7 DEF vars, fast, slow
    <2> QED
      BY <1>2, <2>1 DEF SendInv, Frame
  <1> QED
    BY <1>3, <1>4, <1>5, <1>6, <1>7 DEF Next

LEMMA SendDue ==
  ASSUME TypeOK, SendInv, fcs.state \in Fetching
  PROVE  Due(fcs.d)
  <1>1. rest \in Seq(Byte) /\ fcs.crc \in Sums
    BY DEF TypeOK, TxWidths, FcsWidth
  <1>2. CASE fcs.state = "readyLow"
    <2>1. PICK g \in Seq(Byte) : Frame = g \o rest /\ g # <<>> /\ fcs.d = g[Len(g)]
      BY <1>2 DEF SendInv
    <2>2. /\ Len(g) \in Nat \ {0} /\ Len(rest) \in Nat /\ Len(Frame) = Len(g) + Len(rest)
          /\ \A i \in 1..Len(g) + Len(rest) : Frame[i] = IF i <= Len(g) THEN g[i] ELSE rest[i - Len(g)]
      BY <1>1, <2>1, ConcatProperties, EmptySeq
    <2>3. Frame[Len(g)] = g[Len(g)] /\ Len(Frame) - Len(rest) = Len(g) /\ Len(rest) < Len(Frame)
      BY <2>2
    <2> QED
      BY <1>2, <2>1, <2>3 DEF Due
  <1>3. CASE fcs.state \in {"closeFcs0", "closeFcs1"}
    BY <1>1, <1>3 DEF SendInv, Due, Closing
  <1> QED
    BY <1>2, <1>3 DEF Fetching

SendAll == TypeOK /\ Inv /\ (Uncut => SendInv)

(* TxFcs does not go on before the latch of the bit clock has taken what it  *)
(* offers, and what that took is what was due: the bytes of the frame in     *)
(* their order, then the two of the FCS of the whole frame (TxFcs.vhd,       *)
(* ZeroInsert.vhd, "readyO").                                                *)
THEOREM FrameHandedOver ==
  Spec => [][Uncut /\ fcs.state \in Fetching /\ fcs'.state # fcs.state
               => lat.ready = 0 /\ lat.reg = fcs.d /\ Due(lat.reg)]_vars
  <1>1. SendAll /\ [Next]_vars =>
          [Uncut /\ fcs.state \in Fetching /\ fcs'.state # fcs.state
               => lat.ready = 0 /\ lat.reg = fcs.d /\ Due(lat.reg)]_vars
    <2> SUFFICES ASSUME SendAll, Next, Uncut, fcs.state \in Fetching, fcs'.state # fcs.state
                 PROVE  lat.ready = 0 /\ lat.reg = fcs.d /\ Due(lat.reg)
      BY DEF vars, fast
    <2>1. TypeOK /\ TxInv /\ SendInv /\ FcsShape /\ lat.ready \in Bit
      BY DEF SendAll, Inv, TypeOK, TxWidths, LatWidth, TxInv, Shapes
    <2>2. fcs' = NextTxFcs
      BY DEF Next, SystemClock, BitClock, WriteBuffer, Enable, fast
    <2>3. rdy[1] # 1
      BY <2>1, <2>2, FcsStep
    <2>4. lat.ready = 0
      BY <2>1, <2>3 DEF TxInv, FcsInv, Bit
    <2>5. lat.reg = fcs.d
      BY <2>1, <2>4 DEF SendInv
    <2> QED
      BY <2>1, <2>4, <2>5, SendDue
  <1>2. Init => SendAll
    BY TypeInit, InvInit, SendInit DEF SendAll
  <1>3. SendAll /\ [Next]_vars => SendAll'
    <2>1. ASSUME SendAll, [Next]_vars
          PROVE  SendAll'
      BY <2>1, TypeKept, InvKept, SendKept DEF SendAll
    <2> QED
      BY <2>1
  <1> QED
    BY <1>1, <1>2, <1>3, PTL DEF Spec
=============================================================================
