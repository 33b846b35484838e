--------------------------------- MODULE Ddc ---------------------------------
(***************************************************************************)
(* Reading the EDID of a monitor: connector_read_edid() of                  *)
(* radeon_hd/connector.cpp takes the pins of the connector from the display *)
(* hardware, ddc2_read() of common/ddc.c asks for the data over I2C until   *)
(* the checksum is right, at most READ_RETRIES times, and the pins go back. *)
(* Nothing is done between two tries: the next one meets the slave as the   *)
(* failed one left it, which may be in the middle of a byte.               *)
(***************************************************************************)
EXTENDS I2C

CONSTANTS
  READ_RETRIES,   (* 4 in the code                                         *)
  DdcMonitors     (* [bytes, state]: EDIDs; "known" means version 1.0 to    *)
                  (* 1.4, "off" a monitor that pulls the data wire to ground *)

VARIABLES
  call,      (* what connector_read_edid() is at                           *)
  tries,     (* of ddc2_read()                                             *)
  pins,      (* who has the clock and the data pin                         *)
  monitor,   (* the state of the monitor                                   *)
  edid       (* what connector_read_edid() returned                        *)

reader  == <<call, tries, pins, monitor, edid>>
ddcVars == <<i2cVars, reader>>

Mask(pin, owner) == <<[op |-> pin, v |-> owner, part |-> "bits"]>>

(* Both pins are made inputs, which lets go of the wires, and then are the  *)
(* software's or the hardware's.  Mutant: they stay as they are.            *)
gpio_lock_i2c_masks(owner) == In("pins", Mask("scl", owner) \o Mask("sda", owner))
gpio_lock_i2c(owner) ==
  In("pins", <<Op("clk", 1), Op("dat", 1)>> \o Mask("scl", owner) \o Mask("sda", owner))

Runs(ops) == code' = ops /\ next_op' = 1 /\ status' = "running"

DdcInit ==
  /\ code = gpio_lock_i2c("software") /\ next_op = 1 /\ status = "running"
  /\ clk = 1 /\ dat = 1 /\ rbuf = <<>>
  /\ \E m \in DdcMonitors :
       /\ slave = [Silent(m.bytes) EXCEPT !.dat = IF m.state = "off" THEN 0 ELSE 1, !.next = @]
       /\ monitor = m.state
  /\ call = "lock" /\ tries = 0 /\ edid = "none"
  /\ pins = [scl |-> "hardware", sda |-> "hardware"]

SetMask ==
  /\ status = "running" /\ code[next_op].op \in DOMAIN pins
  /\ pins' = [pins EXCEPT ![code[next_op].op] = code[next_op].v]
  /\ Advance /\ UNCHANGED <<clk, dat, rbuf, slave, call, tries, monitor, edid>>

(* The bytes of the buffer. *)
Number(bits) == FoldLeft(LAMBDA n, b : 2 * n + b, 0, bits)
Byte(k)      == Number(SubSeq(rbuf, (k - 1) * NB + 1, k * NB))

(* Mutant: everything that came is believed. *)
verify_checksum_not == TRUE
verify_checksum ==
  /\ \E k \in DOMAIN rbuf : rbuf[k] = 1
  /\ FoldFunction(+, 0, [k \in 1 .. ReadLen |-> Byte(k)]) % 2 ^ NB = 0

(* The buffer is filled from its beginning again. *)
Try ==
  /\ call' = "read" /\ tries' = tries + 1 /\ rbuf' = <<>>
  /\ Runs(i2c_send_receive)
  /\ UNCHANGED <<clk, dat, slave, pins, monitor, edid>>

Locked == call = "lock" /\ status # "running" /\ Try

Believed == status = "B_OK" /\ verify_checksum

TryAgain == call = "read" /\ status # "running" /\ ~Believed /\ tries < READ_RETRIES /\ Try

(* The version is looked at once the bytes are believed; zeros have none.   *)
Ends ==
  /\ call = "read" /\ status # "running" /\ (Believed \/ tries = READ_RETRIES)
  /\ edid' = IF Believed /\ monitor = "known" THEN "edid" ELSE "no edid"
  /\ call' = "unlock" /\ Runs(gpio_lock_i2c("hardware"))
  /\ UNCHANGED <<clk, dat, rbuf, slave, tries, pins, monitor>>

Returns ==
  /\ call = "unlock" /\ status # "running"
  /\ call' = "done"
  /\ UNCHANGED <<i2cVars, tries, pins, monitor, edid>>

Reader  == (Master /\ UNCHANGED reader) \/ SetMask \/ Locked \/ TryAgain \/ Ends \/ Returns
BusDone == call = "done" /\ UNCHANGED ddcVars
DdcNext == Reader \/ (Slave /\ UNCHANGED reader) \/ BusDone

(* Only the driver has to go on: every wait of it has a timeout.           *)
DdcSpec == DdcInit /\ [][DdcNext]_ddcVars /\ WF_ddcVars(Reader)

-----------------------------------------------------------------------------
BusTypes ==
  /\ code \in {i2c_send_receive, send_stop_condition}
              \cup {gpio_lock_i2c(owner) : owner \in {"software", "hardware"}}
  /\ next_op \in 1 .. Len(code) /\ status \in {"running", "B_OK", "B_TIMEOUT"}
  /\ clk \in {0, 1} /\ dat \in {0, 1} /\ slave.clk \in {0, 1} /\ slave.dat \in {0, 1}
  /\ rbuf \in Seq({0, 1}) /\ Len(rbuf) <= NB * ReadLen
  /\ call \in {"lock", "read", "unlock", "done"} /\ tries \in 0 .. READ_RETRIES
  /\ edid \in {"none", "edid", "no edid"}

(* The wires are driven only while both pins are the software's, and at the *)
(* end of each transfer as I2C says; when the call returns, whatever became *)
(* of the transfers, both pins are the hardware's again and neither wire is *)
(* held.                                                                   *)
PinsGivenBack ==
  /\ call = "read" => pins = [scl |-> "software", sda |-> "software"] /\ WiresReleased
  /\ call = "done" => clk = 1 /\ dat = 1 /\ pins = [scl |-> "hardware", sda |-> "hardware"]

(* What is reported is the monitor's own EDID, although a try may begin     *)
(* while the slave still sends what the one before asked for, and then gets *)
(* its bits shifted and with B_OK; a first try that succeeds is right even  *)
(* before the checksum is looked at.  A wire that is always low is no EDID.  *)
OwnEdid ==
  /\ edid = "edid" => rbuf = FlattenSeq([k \in 1 .. ReadLen |-> slave.data[k]]) /\ monitor = "known"
  /\ call = "read" /\ tries = 1 /\ monitor # "off" => Delivered

(* The call returns, with a slave that never lets go of the clock too.     *)
CallReturns == <>(call = "done")
=============================================================================
