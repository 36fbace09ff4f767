-------------------------------- MODULE Hdlc --------------------------------
(***************************************************************************)
(* One HDLC channel of the serial controller in src/Port/code, its output   *)
(* wired back to its input as in the test benches: the transmit buffer, the *)
(* state machine that adds the FCS, the synchronizers between the system    *)
(* clock and the bit clock, zero insertion, flag insertion, the line, flag  *)
(* detection, zero detection and the receiver's FCS.  Every process of the  *)
(* VHDL is one variable, read unprimed by the others as signals are.        *)
(*                                                                          *)
(* Bits are 0 and 1.  A register is a tuple whose element 1 is the bit that *)
(* leaves first: bit 0 of the vector, and the output of a chain of flops.   *)
(***************************************************************************)
EXTENDS Integers, Sequences, FiniteSets

CONSTANTS
    Ports,      \* flag length, line code, frames to send and harms to expect:
                \* bits the line falsifies and frames written too early
    Pauses,     \* bits the line may rest before the next frame is written
    Holds       \* bits that may pass between writing and enabling

Quiet == 40     \* rests are counted up to here: the receiver needs no longer
Bit == {0, 1}
Byte == [1..8 -> Bit]
Vector(n, b) == [i \in 1..n |-> b]
Shift(r, b) == Append(Tail(r), b)
B(p) == IF p THEN 1 ELSE 0

ASSUME PortsAssumption ==
    \A p \in Ports : /\ p.flag \in 0..7 /\ p.nrzi \in BOOLEAN /\ p.harms \in Nat
                     /\ p.script \in Seq(Seq(Byte) \ {<<>>})
ASSUME BoundsAssumption == Pauses \subseteq 0..Quiet /\ Holds \subseteq 0..Quiet

VARIABLES
    port,       \* the registers set before the first frame
    txEnable, buff, rest,               \* the bus side and TxBuffer
    fcs, rdy,                           \* TxFcs; the ready flops
    wr, va,                             \* the write and valid flops
    abt, ctl, p2s, lat, flg,            \* TxController, ZeroInsert, FlagInsert
    line,                               \* Nrz or Nrzi, both ends
    det, rxc, zero, out,                \* FlagDetector, RxController, ZeroDetector
    rdb, rv, rr,                        \* the read, valid and ready flops
    rfcs, got,                          \* RxFcs and RxBuffer
    sent, seen, flips, cuts, pause      \* what was sent, what arrived, what went wrong

fast == <<fcs, rdy, buff, rest, rfcs, rv, rr, got, seen>>
slow == <<wr, va, abt, ctl, p2s, lat, flg, line, det, rxc, zero, out, rdb>>
vars == <<port, txEnable, fast, slow, sent, flips, cuts, pause>>

Ones == Vector(8, 1)
Zeros == Vector(8, 0)
Flag == <<0, 1, 1, 1, 1, 1, 1, 0>>
Abort == <<0, 1, 1, 1, 1, 1, 1, 1>>

-----------------------------------------------------------------------------
(* The FCS, eight bits at a time.                                            *)

Taps == <<{0, 4}, {1, 5}, {2, 6}, {3, 7}, {4}, {0, 4, 5}, {1, 5, 6}, {2, 6, 7},
          {3, 7}, {4}, {5}, {6}, {0, 4, 7}, {1, 5}, {2, 6}, {3, 7}>>
NextCrc(d, c) ==
    LET t == [k \in 0..7 |-> (d[8 - k] + c[k + 8]) % 2]
    IN  [i \in 0..15 |-> (Cardinality({k \in Taps[i + 1] : t[k] = 1})
                            + (IF i < 8 THEN 0 ELSE c[i - 8])) % 2]
CrcOnes == [i \in 0..15 |-> 1]
Residue == [i \in 0..15 |-> B(i \in {0, 1, 2, 3, 8, 10, 11, 12})]   \* x"1d0f"
(* Mutant: the high byte of the FCS not turned round. *)
HighFcsUnreversed(c) == [i \in 1..8 |-> 1 - c[7 + i]]

HighFcs(c) == [i \in 1..8 |-> 1 - c[16 - i]]
LowFcs(c) == [i \in 1..8 |-> 1 - c[8 - i]]

-----------------------------------------------------------------------------
(* The system clock: TxFcs, RxFcs and the flops that carry signals to them.  *)

Avail == buff = "read"

NextTxFcs ==
    LET ready == rdy[1] = 1 IN
    CASE fcs.state = "idle" ->
            [state |-> IF ready /\ Avail THEN "read" ELSE "idle", crc |-> CrcOnes,
             valid |-> B(Avail), write |-> 0, d |-> Zeros]
      [] fcs.state = "read" ->
            [state |-> "readyLow", crc |-> NextCrc(Head(rest), fcs.crc),
             valid |-> 1, write |-> 1, d |-> Head(rest)]
      [] fcs.state = "readyLow" /\ ~ready -> [fcs EXCEPT !.state = "wait"]
      [] fcs.state = "wait" ->
            [fcs EXCEPT !.state = IF ~Avail THEN "closeBody" ELSE IF ready THEN "read" ELSE @,
                        !.valid = 1, !.write = 0, !.d = IF Avail THEN @ ELSE Ones]
      [] fcs.state = "closeBody" ->
            [fcs EXCEPT !.state = "fcs0", !.valid = 1, !.write = 0, !.d = Ones]
      [] fcs.state = "fcs0" ->
            [fcs EXCEPT !.state = IF ready THEN "closeFcs0" ELSE @, !.valid = 1,
                        !.write = rdy[1], !.d = HighFcs(fcs.crc)]
      [] fcs.state = "closeFcs0" /\ ~ready -> [fcs EXCEPT !.state = "fcs1"]
      [] fcs.state = "fcs1" ->
            [fcs EXCEPT !.state = IF ready THEN "closeFcs1" ELSE @, !.valid = 1,
                        !.write = rdy[1], !.d = LowFcs(fcs.crc)]
      [] fcs.state = "closeFcs1" /\ ~ready -> [fcs EXCEPT !.state = "idle"]
      [] OTHER -> fcs

NextRxFcs ==
    LET ready == rr[1] = 1
        valid == rv[1] = 1
        later == [rfcs EXCEPT !.write = rfcs.prior]
    IN
    CASE rfcs.state = "idle" ->
            [state |-> IF valid THEN "run" ELSE "idle", crc |-> CrcOnes,
             reg |-> Vector(3, Ones), cnt |-> 0, read |-> 0, prior |-> 0, write |-> 0]
      [] rfcs.state = "run" ->
            [later EXCEPT !.state = IF valid THEN IF ready THEN "read" ELSE "run"
                                    ELSE IF rfcs.cnt = 0 THEN "idle" ELSE "eof1",
                          !.crc = IF rfcs.write = 1 THEN NextCrc(rfcs.reg[1], @) ELSE @,
                          !.read = 0, !.prior = 0]
      [] rfcs.state = "read" /\ ready ->
            [rfcs EXCEPT !.read = 1, !.prior = 0, !.write = 0]
      [] rfcs.state = "read" /\ ~ready ->
            [later EXCEPT !.state = "run", !.read = 0, !.reg = Shift(@, out.d),
                          !.prior = IF rfcs.cnt > 1 THEN 1 ELSE @,
                          !.cnt = IF @ < 2 THEN @ + 1 ELSE @]
      [] rfcs.state = "eof1" -> [later EXCEPT !.state = "eof2", !.crc = NextCrc(rfcs.reg[2], @)]
      [] rfcs.state = "eof2" -> [later EXCEPT !.state = "eofZ", !.crc = NextCrc(rfcs.reg[3], @)]
      [] rfcs.state = "eofZ" ->
            [rfcs EXCEPT !.state = "idle", !.read = 0, !.prior = 0, !.write = 0]

(* RxBuffer takes the bytes written before eot and is read empty at eot. *)
NextGot ==
    CASE rfcs.state = "eofZ" -> <<>>
      [] rfcs.write = 1 /\ rfcs.state \notin {"eof1", "eof2", "eofZ"} -> Append(got, rfcs.reg[1])
      [] OTHER -> got

(* Mutant: the FCS error is not looked at. *)
AccountUnchecked(f) ==
    [seen EXCEPT !.strange = IF \E k \in DOMAIN seen.due : seen.due[k] = f THEN @ ELSE @ \cup {f}]

(* A frame handed over is looked up among those due; the ones sent before    *)
(* it can no longer arrive.                                                  *)
Account(f) ==
    IF rfcs.crc # Residue THEN [seen EXCEPT !.bad = TRUE]
    ELSE IF \A k \in DOMAIN seen.due : seen.due[k] # f
    THEN [seen EXCEPT !.strange = @ \cup {f}]
    ELSE LET k == CHOOSE k \in DOMAIN seen.due : seen.due[k] = f
         IN  [seen EXCEPT !.due = SubSeq(@, k + 1, Len(@)), !.lost = @ + k - 1]
NextSeen == IF rfcs.state = "eofZ" /\ got # <<>> THEN Account(got) ELSE seen

Settled ==
    /\ fcs = NextTxFcs /\ rfcs = NextRxFcs
    /\ rdy = Shift(rdy, lat.ready)
    /\ rr = Shift(rr, out.ready) /\ rv = Shift(rv, rxc.valid)

(* A byte is read from the buffer on entering "readyLow"; the buffer is      *)
(* idle again once the last one has been read.                               *)
SystemClock ==
    /\ ~Settled
    /\ fcs' = NextTxFcs
    /\ rest' = IF fcs.state = "read" THEN Tail(rest) ELSE rest
    /\ buff' = IF fcs.state = "read" /\ Len(rest) = 1 THEN "idle" ELSE buff
    /\ rdy' = Shift(rdy, lat.ready)
    /\ rfcs' = NextRxFcs
    /\ rr' = Shift(rr, out.ready)
    /\ rv' = Shift(rv, rxc.valid)
    /\ got' = NextGot
    /\ seen' = NextSeen
    /\ UNCHANGED <<port, txEnable, slow, sent, flips, cuts, pause>>

-----------------------------------------------------------------------------
(* The bit clock, transmitting side: enabled processes step together.       *)

(* Abort: the firmware never asks for one, so only an underrun starts it.    *)
NextAbt ==
    IF abt.on = 0 THEN [on |-> lat.halt, seq |-> 0, cnt |-> IF lat.halt = 1 THEN 0 ELSE abt.cnt]
    ELSE IF abt.cnt = 8 THEN [on |-> lat.halt, seq |-> lat.halt, cnt |-> 0]
    ELSE [abt EXCEPT !.cnt = @ + 1]

(* Mutant: one opening flag less than asked for. *)
OpenAtLate == 8 - port.flag

OpenAt == 7 - port.flag

NextCtl ==
    LET loaded == p2s.shifting = 0 IN
    CASE ctl.state = "idle" /\ va[1] = 0 -> [ctl EXCEPT !.open = 0, !.seq = 0, !.latch = 0]
      [] ctl.state = "idle" /\ va[1] = 1 ->
            [state |-> "intro", cnt |-> IF port.flag < 4 THEN 4 ELSE 7 - port.flag,
             open |-> 0, seq |-> 0, latch |-> 0]
      [] ctl.state = "intro" /\ loaded ->
            [state |-> IF ctl.cnt = 7 THEN "valid" ELSE "intro", cnt |-> ctl.cnt + 1,
             latch |-> IF ctl.cnt = 4 THEN 1 ELSE ctl.latch,
             open |-> IF ctl.cnt = 7 THEN 0 ELSE IF ctl.cnt = OpenAt THEN 1 ELSE ctl.open,
             seq |-> IF ctl.cnt = 7 THEN 1 ELSE ctl.seq]
      [] ctl.state = "valid" ->
            LET over == va[1] = 0 /\ loaded
            IN  [ctl EXCEPT !.state = IF over THEN "empty2" ELSE @, !.seq = 1,
                            !.latch = B(~over), !.cnt = 0]
      [] ctl.state = "empty2" ->
            [ctl EXCEPT !.state = IF loaded /\ ctl.cnt > 0 THEN "emptyLast" ELSE @,
                        !.cnt = IF loaded /\ @ = 0 THEN 1 ELSE @, !.seq = 1, !.latch = 0]
      [] ctl.state = "emptyLast" /\ ctl.cnt < 8 ->
            [ctl EXCEPT !.cnt = @ + 1, !.seq = 1, !.latch = 0]
      [] ctl.state = "emptyLast" /\ ctl.cnt = 8 ->
            [ctl EXCEPT !.state = "idle", !.cnt = 0, !.seq = 0, !.latch = 0]
      [] OTHER -> ctl

(* After five ones only the low five bits move, so that a zero leaves next.  *)
NextP2s ==
    LET stuff == \A i \in 1..5 : p2s.temp[i] = 1
        cnt == IF stuff THEN p2s.cnt ELSE p2s.cnt + 1
        moved == IF stuff THEN <<1, 1, 1, 1, 0>> \o SubSeq(p2s.temp, 6, 16)
                 ELSE Shift(p2s.temp, 0)
        load == cnt = 8
    IN  [temp |-> IF load THEN SubSeq(moved, 1, 8) \o lat.reg ELSE moved,
         cnt |-> cnt % 8, shifting |-> B(~load), out |-> Shift(p2s.out, p2s.temp[1])]

NextLat ==
    LET loaded == p2s.shifting = 0 IN
    CASE ctl.latch = 0 -> [lat EXCEPT !.ready = 0, !.halt = 0]
      [] ctl.latch = 1 /\ lat.ready = 0 /\ loaded -> [lat EXCEPT !.ready = 1, !.reg = Zeros]
      [] ctl.latch = 1 /\ lat.ready = 1 /\ wr[1] = 1 -> [lat EXCEPT !.ready = 0, !.reg = fcs.d]
      [] ctl.latch = 1 /\ lat.ready = 1 /\ wr[1] = 0 /\ loaded ->
            [reg |-> Zeros, ready |-> 0, halt |-> 1]
      [] OTHER -> lat

Opened ==
    LET first == flg.shift = 0 /\ flg.seq = 0
    IN  [flg EXCEPT !.tx = B(flg.shift > 1 \/ first), !.shift = (@ + 1) % 8,
                    !.seq = IF first THEN 1 ELSE @, !.defence = 1]

(* Mutant: the request is not taken back. *)
RestingForever == [flg EXCEPT !.tx = flg.reg[1], !.reg = Shift(@, 1), !.shift = 0]

Resting ==
    [flg EXCEPT !.tx = flg.reg[1], !.reg = Shift(@, 1), !.shift = 0,
                !.defence = IF flg.close = 0 THEN 0 ELSE @,
                !.close = IF @ = 0 THEN 0 ELSE @ - 1]

(* Between frames: opening flags while "open", then the last one at "seq";   *)
(* with neither, the closing flag runs out of the register, then ones, and   *)
(* sixteen bits later the request may fall.                                  *)
NextFlg ==
    LET opened == IF ctl.open = 1 THEN Opened ELSE flg
        ended == [flg EXCEPT !.on = 0, !.tx = flg.reg[1], !.close = 16]
    IN
    CASE flg.on = 0 /\ ctl.open = 0 /\ ctl.seq = 0 -> Resting
      [] flg.on = 0 /\ ctl.seq = 1 /\ abt.seq = 0 ->
            [opened EXCEPT !.on = 1, !.reg = Flag, !.tx = IF opened.seq = 1 THEN 0 ELSE @,
                           !.seq = 0, !.defence = 1]
      [] flg.on = 1 /\ abt.seq = 1 -> [ended EXCEPT !.reg = Abort]
      [] flg.on = 1 /\ abt.seq = 0 /\ ctl.seq = 0 -> [ended EXCEPT !.reg = Flag]
      [] flg.on = 1 /\ abt.seq = 0 /\ ctl.seq = 1 ->
            [flg EXCEPT !.tx = flg.reg[1], !.reg = Shift(@, p2s.out[1])]
      [] OTHER -> opened

(* Mutant: the frame's way through the registers is forgotten. *)
RtsBare == buff = "read"

(* Request to send: what drives the line driver (Platform.vhd:150).          *)
Rts == buff = "read" \/ flg.defence = 1

-----------------------------------------------------------------------------
(* The line, and the bit clock on the receiving side.                       *)

NextLine(noise) ==
    LET level == (line.tx + noise) % 2 IN
    IF port.nrzi
    THEN [tx |-> IF flg.tx = 0 THEN 1 - line.tx ELSE line.tx,
          rx |-> B(level = line.prev), prev |-> level]
    ELSE [tx |-> flg.tx, rx |-> level, prev |-> 1]

(* No abort is seen within eight bits of a flag.                             *)
NextDet ==
    [shift |-> Shift(det.shift, line.rx), block |-> Shift(det.block, B(det.shift = Flag)),
     abort |-> B(det.shift = Abort /\ det.block = Zeros), rx |-> det.shift[1]]

(* A flag begins a frame when none is valid, and ends the valid one; eight   *)
(* bits later "status" says which.                                           *)
NextRxc ==
    LET flag == det.block[8] = 1
        init == flag \/ rxc.init = 1
        cnt == IF flag THEN 0 ELSE rxc.cnt
        done == init /\ cnt = 7
        status == IF done THEN 1 - rxc.valid ELSE IF flag THEN 0 ELSE rxc.status
        starved == status = 1 /\ out.avail = 0 /\ rxc.tries = 5
    IN  [init |-> B(init /\ ~done), cnt |-> IF init THEN (cnt + 1) % 8 ELSE cnt,
         start |-> B(done), status |-> IF det.abort = 1 THEN 0 ELSE status,
         valid |-> rxc.delay[1], delay |-> Shift(rxc.delay, status),
         enable |-> B(status = 1 /\ ~starved),
         tries |-> IF status = 1 /\ out.avail = 0 THEN (rxc.tries + 1) % 6 ELSE 0,
         err |-> IF starved THEN 1 ELSE IF flag /\ rxc.valid = 0 THEN 0 ELSE rxc.err]

(* The zero after five ones is skipped; eight other bits are a byte.         *)
NextZero ==
    LET check == Shift(IF rxc.start = 1 THEN Vector(6, 0) ELSE zero.check, det.rx)
        cnt == IF rxc.start = 1 THEN 0 ELSE zero.cnt
        temp == [zero.temp EXCEPT ![cnt + 1] = det.rx]
        kept == check # <<1, 1, 1, 1, 1, 0>>
        full == kept /\ cnt = 7
    IN  IF rxc.enable = 0 THEN zero
        ELSE [check |-> check, temp |-> temp, cnt |-> IF kept THEN (cnt + 1) % 8 ELSE cnt,
              reg |-> IF full THEN temp ELSE zero.reg, full |-> B(full)]

NextOut ==
    LET take == rxc.enable = 1 /\ zero.full = 1
        ready == IF rdb[1] = 1 THEN 0 ELSE IF take THEN 1 ELSE out.ready
    IN  [d |-> IF take THEN zero.reg ELSE out.d, ready |-> ready,
         avail |-> IF rxc.valid = 0 THEN 1 ELSE 1 - ready]

-----------------------------------------------------------------------------
(* Actions.                                                                 *)

Harmable == flips + cuts < port.harms
Enabled(next, now) == IF txEnable = 1 THEN next ELSE now

(* The bit clock is many times slower than the system clock: it ticks when   *)
(* the system side has come to rest.  The line may falsify the bit.  No more *)
(* than Quiet bits of rest are followed, and the bus writes the enable       *)
(* command after one of Holds.                                               *)
BitClock ==
    /\ Settled
    /\ pause < Quiet /\ (buff = "write" => \E h \in Holds : pause < h)
    /\ \E noise \in Bit :
          /\ noise = 1 => Harmable
          /\ line' = NextLine(noise)
          /\ flips' = flips + noise
    /\ wr' = Shift(wr, fcs.write) /\ va' = Shift(va, fcs.valid)
    /\ abt' = Enabled(NextAbt, abt) /\ ctl' = Enabled(NextCtl, ctl)
    /\ p2s' = Enabled(NextP2s, p2s) /\ lat' = Enabled(NextLat, lat)
    /\ flg' = Enabled(NextFlg, [flg EXCEPT !.tx = 1])
    /\ det' = NextDet /\ rxc' = NextRxc /\ zero' = NextZero /\ out' = NextOut
    /\ rdb' = Shift(rdb, rfcs.read)
    /\ pause' = IF Rts /\ buff # "write" THEN 0 ELSE pause + 1
    /\ UNCHANGED <<port, txEnable, fast, sent, cuts>>

(* SendPort: disable the transmitter, set the length, fill the buffer.  It   *)
(* never looks whether the frame before has left.  Left out is a write while *)
(* TxBuffer is in STATE_READ: its words are not stored, but each advances    *)
(* the read address, and bytes of the frame being sent are skipped under a   *)
(* valid FCS.  That takes the memory behind the buffer, of which the model   *)
(* knows only the bytes still to be read.                                    *)
WriteBuffer ==
    /\ Settled /\ buff = "idle" /\ sent < Len(port.script)
    /\ \/ ~Rts /\ pause \in Pauses /\ UNCHANGED cuts
       \/ Rts /\ Harmable /\ cuts' = cuts + 1
    /\ txEnable' = 0 /\ buff' = "write" /\ pause' = 0
    /\ sent' = sent + 1 /\ rest' = port.script[sent + 1]
    /\ seen' = [seen EXCEPT !.due = Append(@, port.script[sent + 1])]
    /\ UNCHANGED <<port, fcs, rdy, rfcs, rv, rr, got, slow, flips>>

(* The enable command SendPort ends with.                                    *)
Enable ==
    /\ Settled /\ buff = "write" /\ pause \in Holds
    /\ txEnable' = 1 /\ buff' = "read" /\ pause' = 0
    /\ UNCHANGED <<port, fcs, rdy, rest, rfcs, rv, rr, got, seen, slow, sent, flips, cuts>>

Init ==
    /\ port \in Ports
    /\ txEnable = 0 /\ buff = "idle" /\ rest = <<>>
    /\ fcs = [state |-> "idle", crc |-> CrcOnes, valid |-> 0, write |-> 0, d |-> Zeros]
    /\ rdy = <<0, 0>> /\ wr = <<0, 0>> /\ va = <<0, 0>>
    /\ abt = [on |-> 0, cnt |-> 0, seq |-> 0]
    /\ ctl = [state |-> "idle", cnt |-> 0, open |-> 0, seq |-> 0, latch |-> 0]
    /\ p2s = [temp |-> Vector(16, 0), cnt |-> 0, shifting |-> 0, out |-> <<1, 1>>]
    /\ lat = [reg |-> Zeros, ready |-> 0, halt |-> 0]
    /\ flg = [on |-> 0, reg |-> Ones, seq |-> 0, shift |-> 0, close |-> 0, defence |-> 0, tx |-> 1]
    /\ line = [tx |-> 1, rx |-> 1, prev |-> 1]
    /\ det = [shift |-> Ones, block |-> Zeros, abort |-> 0, rx |-> 0]
    /\ rxc = [init |-> 0, cnt |-> 0, start |-> 0, status |-> 0, valid |-> 0, delay |-> Zeros,
              enable |-> 0, tries |-> 0, err |-> 0]
    /\ zero = [check |-> Vector(6, 0), temp |-> Zeros, cnt |-> 0, reg |-> Zeros, full |-> 0]
    /\ out = [d |-> Zeros, ready |-> 0, avail |-> 1]
    /\ rdb = <<0, 0>> /\ rv = <<0, 0>> /\ rr = <<0, 0>>
    /\ rfcs = [state |-> "idle", crc |-> CrcOnes, reg |-> Vector(3, Ones), cnt |-> 0,
               read |-> 0, prior |-> 0, write |-> 0]
    /\ got = <<>>
    /\ sent = 0 /\ seen = [due |-> <<>>, lost |-> 0, strange |-> {}, bad |-> FALSE]
    /\ flips = 0 /\ cuts = 0 /\ pause = 0

Next == SystemClock \/ BitClock \/ WriteBuffer \/ Enable
Spec == Init /\ [][Next]_vars /\ WF_vars(SystemClock) /\ WF_vars(BitClock) /\ WF_vars(Enable)

-----------------------------------------------------------------------------
(* Properties.                                                              *)

Unharmed == flips = 0 /\ cuts = 0
AtRest == buff = "idle" /\ ~Rts /\ pause = Quiet
(* Opening flags, or the frame itself, keep the request up until the first   *)
(* bits have passed the registers.                                           *)
Steady == port.flag > 2 \/ \A k \in DOMAIN port.script : Len(port.script[k]) > 3

(* The four-phase exchange over the clock boundary keeps up with the line:   *)
(* the next byte is there before the last one has left (else the transmitter *)
(* aborts), and each received byte is read before the next one (else the     *)
(* receiver raises its frame error).                                         *)
InTime == lat.halt = 0 /\ rxc.err = 0

(* With nothing falsified and nothing written too early every frame arrives, *)
(* whole, once and in the order sent, whatever its bits (a flag, an abort,   *)
(* five ones at an edge), the line code and the flag length, and however     *)
(* closely the next frame follows: the whole way of a byte, FCS included.    *)
Transparent ==
    Steady /\ Unharmed =>
        /\ InTime
        /\ seen.lost = 0 /\ seen.strange = {} /\ ~seen.bad
        /\ AtRest => seen.due = <<>>

(* A falsified bit may split, join or move frames, but nothing that was not  *)
(* sent passes the FCS, except ones only: the idle line taken for a frame.   *)
(* And the clock crossing keeps up with whatever then comes.  It is about    *)
(* frames of which no beginning carries its own FCS: where one does, a bit   *)
(* falsified behind it can make a flag there, and the beginning is a frame.  *)
(* The flag of RxFcs is all it is about: the firmware does not read it.      *)
NoneForged ==
    cuts = 0 => InTime /\ \A f \in seen.strange : \A k \in DOMAIN f : f[k] = Ones

(* A flag length of three or more confines the damage: a falsified bit costs *)
(* at most one frame, a frame written too early itself and the one it cut.   *)
HarmBounded ==
    port.flag > 2 => seen.lost + (IF AtRest THEN Len(seen.due) ELSE 0) <= flips + 2 * cuts

(* The request to send covers the frame: once it falls the sender is at rest *)
(* and nothing but ones is left for the line, so the driver cuts no flag.    *)
LineCovered ==
    Steady /\ cuts = 0 /\ ~Rts /\ buff = "idle" =>
        ctl.state = "idle" /\ flg.on = 0 /\ flg.reg = Ones

(* The line is given back: no frame, cut or falsified, leaves the request    *)
(* standing, which would block every other station of a shared line.         *)
LineReleased == Rts ~> ~Rts
=============================================================================
