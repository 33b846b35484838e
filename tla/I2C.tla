-------------------------------- MODULE I2C ---------------------------------
(***************************************************************************)
(* The bit-banged I2C master of the Haiku driver, user/common/i2c.c, on the *)
(* pins of radeon_hd/connector.cpp, and a slave on the other end of the    *)
(* two wires.  A wire is low when either side pulls it low.  The slave may  *)
(* hold the clock as long as it likes, refuse a byte or acknowledge late.  *)
(*                                                                         *)
(* i2c_send_receive() is straight-line code but for its timeouts: here it  *)
(* is the sequence of the things it does to the wires, in order.  Ddc calls *)
(* it.                                                                     *)
(***************************************************************************)
EXTENDS Integers, Sequences, SequencesExt

CONSTANTS
  NB,        (* bits in a byte, 8                                          *)
  Address,   (* the slave's address, NB - 1 bits                           *)
  WriteBuf,  (* the bytes to write                                         *)
  ReadLen    (* how many bytes to read                                     *)

(* What these stand for.                                                   *)
ASSUME ByteAssumption ==
  /\ NB \in Nat \ {0} /\ Address \in [1 .. NB - 1 -> {0, 1}]
  /\ WriteBuf \in Seq([1 .. NB -> {0, 1}]) /\ ReadLen \in Nat

-----------------------------------------------------------------------------
(* The operations.  Each belongs to a start, to a stop or to the rest.      *)
Op(op, v) == [op |-> op, v |-> v, part |-> "bits"]
In(part, ops) == [k \in DOMAIN ops |-> [ops[k] EXCEPT !.part = part]]

(* gpio_set_i2c_bit() moves the clock first.  Mutant: the data first.       *)
SetDataFirst(clk, dat) == <<Op("dat", dat), Op("clk", clk)>>
Set(clk, dat)          == <<Op("clk", clk), Op("dat", dat)>>

Wait    == <<Op("wait", 0)>>
AckWait == <<Op("ack", 0)>>
Sample  == <<Op("sample", 0)>>

send_start_condition == In("start", Set(1, 1) \o Wait \o Set(1, 0) \o Set(0, 0))
send_stop_condition  == In("stop", Set(0, 0) \o Set(1, 0) \o Wait \o Set(1, 1))
send_bit(b)          == Set(0, b) \o Set(1, b) \o Wait \o Set(0, b)
send_acknowledge     == Set(0, 1) \o Set(1, 1) \o Wait \o AckWait \o Set(0, 1)
send_byte(bits)      == FlattenSeq([k \in 1 .. NB |-> send_bit(bits[k])]) \o send_acknowledge
receive_bit          == Set(1, 1) \o Wait \o Sample \o Set(0, 1)
(* Mutant: one bit too many. *)
receive_byte_long(acknowledge) ==
  Set(0, 1) \o FlattenSeq([k \in 1 .. NB + 1 |-> receive_bit])
    \o send_bit(IF acknowledge THEN 0 ELSE 1)
receive_byte(acknowledge) ==
  Set(0, 1) \o FlattenSeq([k \in 1 .. NB |-> receive_bit])
    \o send_bit(IF acknowledge THEN 0 ELSE 1)
(* Mutant: every byte is acknowledged, the last one too. *)
receive_bytes_acked(n) == FlattenSeq([k \in 1 .. n |-> receive_byte(TRUE)])
receive_bytes(n)       == FlattenSeq([k \in 1 .. n |-> receive_byte(k < n)])

i2c_send_receive ==
  send_start_condition \o send_byte(Address \o <<0>>)
    \o FlattenSeq([k \in DOMAIN WriteBuf |-> send_byte(WriteBuf[k])])
    \o send_start_condition \o send_byte(Address \o <<1>>)
    \o receive_bytes(ReadLen) \o send_stop_condition

VARIABLES
  code, next_op,   (* the operations under way, and the next one           *)
  status,          (* "running", or what i2c_send_receive returned         *)
  clk, dat,        (* what the master puts on the wires                    *)
  rbuf,            (* the bits sampled                                     *)
  slave            (* the slave                                            *)

master  == <<code, next_op, status, clk, dat, rbuf>>
i2cVars == <<master, slave>>

(* What the wires carry. *)
And(x, y) == IF x = 1 /\ y = 1 THEN 1 ELSE 0
Clock     == And(clk, slave.clk)
DataWire  == And(dat, slave.dat)

-----------------------------------------------------------------------------
(* The slave.  It pulls the wires to clk and dat; next is what it puts on   *)
(* the data wire when it lets go of the clock.                             *)
Silent(data) ==
  [phase |-> "idle", bits |-> <<>>, n |-> 0, sent |-> 0, ack |-> "no", mode |-> "write",
   clk |-> 1, dat |-> 1, next |-> 1, got |-> <<>>, data |-> data]

(* It puts b on the data wire, at once or after holding the clock. *)
Puts(t, b) == {[t EXCEPT !.dat = b, !.next = b], [t EXCEPT !.clk = 0, !.next = b]}

(* Bit n of the byte it sends; past the end there are zeros. *)
Bit(t, n) == IF t.sent + 1 \in DOMAIN t.data THEN t.data[t.sent + 1][n + 1] ELSE 0

(* A whole byte is in: an address, or data it may refuse.  What is written  *)
(* is where to read from.                                                  *)
Received(t) ==
  LET mine == t.phase = "recv" \/ SubSeq(t.bits, 1, NB - 1) = Address
      mode == IF t.phase = "addr" /\ t.bits[NB] = 1 THEN "read" ELSE "write"
      took == CASE t.phase = "recv" -> [t EXCEPT !.got = Append(@, t.bits), !.sent = 0]
                [] t.phase = "addr" /\ mode = "write" -> [t EXCEPT !.got = <<>>]
                [] OTHER -> t
      next(a) == [(IF a = "no" THEN t ELSE took) EXCEPT
                    !.phase = "ack", !.ack = a, !.mode = mode, !.bits = <<>>]
  IN IF mine THEN UNION {Puts(next(a), IF a = "now" THEN 0 ELSE 1) : a \in {"now", "late", "no"}}
     ELSE Puts([t EXCEPT !.phase = "idle"], 1)

Falls(t) ==
  CASE t.phase \in {"addr", "recv"} /\ Len(t.bits) = NB -> Received(t)
    [] t.phase = "ack" /\ t.dat = 1 -> Puts([t EXCEPT !.phase = "idle"], 1)
    [] t.phase = "ack" /\ t.dat = 0 /\ t.mode = "write" -> Puts([t EXCEPT !.phase = "recv"], 1)
    [] t.phase = "ack" /\ t.dat = 0 /\ t.mode = "read" ->
         Puts([t EXCEPT !.phase = "send", !.n = 0], Bit(t, 0))
    [] t.phase = "send" /\ t.n = NB -> Puts([t EXCEPT !.phase = "acked", !.ack = "no"], 1)
    [] t.phase = "send" /\ t.n < NB -> Puts(t, Bit(t, t.n))
    [] t.phase = "acked" /\ t.ack = "no" -> Puts([t EXCEPT !.phase = "idle"], 1)
    [] t.phase = "acked" /\ t.ack = "now" ->
         LET more == [t EXCEPT !.phase = "send", !.n = 0, !.sent = @ + 1]
         IN Puts(more, Bit(more, 0))
    [] OTHER -> {t}

Rises(t, d) ==
  CASE t.phase \in {"addr", "recv"} -> {[t EXCEPT !.bits = Append(@, d)]}
    [] t.phase = "send" -> {[t EXCEPT !.n = @ + 1]}
    [] t.phase = "acked" -> {[t EXCEPT !.ack = IF d = 0 THEN "now" ELSE "no"]}
    [] OTHER -> {t}

(* What the slave makes of the wires going from c, d to c1, d1. *)
IsStart(c, d, c1, d1) == c = 1 /\ c1 = 1 /\ d = 1 /\ d1 = 0
IsStop(c, d, c1, d1)  == c = 1 /\ c1 = 1 /\ d = 0 /\ d1 = 1

Sees(t, c, d, c1, d1) ==
  CASE IsStart(c, d, c1, d1) ->
         {[t EXCEPT !.phase = "addr", !.bits = <<>>, !.dat = 1, !.next = 1]}
    [] IsStop(c, d, c1, d1) -> {[t EXCEPT !.phase = "idle", !.dat = 1, !.next = 1]}
    [] c = 0 /\ c1 = 1 -> Rises(t, d1)
    [] c = 1 /\ c1 = 0 -> Falls(t)
    [] OTHER -> {t}

(* It lets go of the clock; with the master waiting the clock rises. *)
Release ==
  /\ slave.clk = 0
  /\ LET t == [slave EXCEPT !.clk = 1, !.dat = slave.next] IN
       slave' \in IF clk = 1 THEN Rises(t, And(dat, t.dat)) ELSE {t}
  /\ UNCHANGED master

(* It acknowledges while the clock is high already. *)
LateAck ==
  /\ slave.phase = "ack" /\ slave.ack = "late" /\ slave.dat = 1 /\ slave.clk = 1 /\ clk = 1
  /\ slave' = [slave EXCEPT !.dat = 0, !.next = 0]
  /\ UNCHANGED master

-----------------------------------------------------------------------------
(* The master. *)
At(op) == status = "running" /\ code[next_op].op = op

(* On to the next operation, or back to the caller. *)
Advance ==
  IF next_op < Len(code) THEN next_op' = next_op + 1 /\ UNCHANGED <<code, status>>
  ELSE /\ status' = IF code = send_stop_condition THEN "B_TIMEOUT" ELSE "B_OK"
       /\ UNCHANGED <<code, next_op>>

(* Mutant: the error is returned at once. *)
FailAtOnce == status' = "B_TIMEOUT" /\ UNCHANGED <<code, next_op>>

(* A timeout.  It returns from a start or a stop; everything else goes to   *)
(* err, which sends a stop and returns the first error whatever becomes of *)
(* the stop.                                                               *)
Fail ==
  IF code[next_op].part = "bits"
  THEN code' = send_stop_condition /\ next_op' = 1 /\ UNCHANGED status
  ELSE status' = "B_TIMEOUT" /\ UNCHANGED <<code, next_op>>

SetClock ==
  /\ At("clk") /\ clk' = code[next_op].v
  /\ slave' \in Sees(slave, Clock, DataWire, And(clk', slave.clk), DataWire)
  /\ Advance /\ UNCHANGED <<dat, rbuf>>

SetData ==
  /\ At("dat") /\ dat' = code[next_op].v
  /\ slave' \in Sees(slave, Clock, DataWire, Clock, And(dat', slave.dat))
  /\ Advance /\ UNCHANGED <<clk, rbuf>>

(* Mutant: no timeout. *)
ClockTimeoutNot == At("wait") /\ Clock = 0 /\ UNCHANGED i2cVars

(* wait_for_clk() *)
ClockHigh    == At("wait") /\ Clock = 1 /\ Advance /\ UNCHANGED <<clk, dat, rbuf, slave>>
ClockTimeout == At("wait") /\ Clock = 0 /\ Fail /\ UNCHANGED <<clk, dat, rbuf, slave>>

(* The loop of send_acknowledge() *)
Acked      == At("ack") /\ DataWire = 0 /\ Advance /\ UNCHANGED <<clk, dat, rbuf, slave>>
AckTimeout == At("ack") /\ DataWire = 1 /\ Fail /\ UNCHANGED <<clk, dat, rbuf, slave>>

ReceiveBit ==
  /\ At("sample") /\ rbuf' = Append(rbuf, DataWire)
  /\ Advance /\ UNCHANGED <<clk, dat, slave>>

Master == SetClock \/ SetData \/ ClockHigh \/ ClockTimeout \/ Acked \/ AckTimeout \/ ReceiveBit
Slave  == Release \/ LateAck

-----------------------------------------------------------------------------
(* When the call succeeds, the slave has received the bytes written and the *)
(* caller has the bytes the slave sent, although either side could stop    *)
(* the clock at any time; the slave has seen the end and the bus is free.  *)
Delivered ==
  status = "B_OK" =>
    /\ slave.got = WriteBuf
    /\ rbuf = FlattenSeq([k \in 1 .. ReadLen |-> slave.data[k]])
    /\ slave.phase = "idle" /\ Clock = 1 /\ DataWire = 1

(* When the call returns, the master has let go of both wires, with the    *)
(* exception of the data wire when the slave did not let it send the stop. *)
WiresReleased ==
  status # "running" => clk = 1 /\ (dat = 0 => code[next_op].part = "stop" /\ code[next_op].op = "wait")

(* The slave sees a start or a stop only where the master means one: no     *)
(* bit and no way into the error path looks like one.  What may end a       *)
(* transfer besides a stop is the release of a data wire that a stop which  *)
(* timed out still holds: by the next start, or as the pins are given back. *)
OnlyMeantConditions ==
  [][/\ IsStart(Clock, DataWire, Clock', DataWire') =>
          code[next_op].part = "start" \/ LateAck
     /\ IsStop(Clock, DataWire, Clock', DataWire') => code[next_op].part # "bits"]_i2cVars
=============================================================================
