---------------------------- MODULE DisplayPort -----------------------------
(***************************************************************************)
(* The DisplayPort link of the Haiku driver: displayport.cpp and            *)
(* common/dp.cpp, for one connector, with the sink at its other end.        *)
(*                                                                         *)
(* dp_setup_connectors() reads what the sink can do; each mode set then     *)
(* picks lanes and a rate and trains the link: the source and the sink      *)
(* agree on a training pattern, the sink reports which lanes it follows     *)
(* and asks for another drive, until clock recovery and equalisation are    *)
(* done or given up.  Any AUX transaction may fail, and the training does  *)
(* not look at the result of its writes.                                   *)
(***************************************************************************)
EXTENDS Integers, FiniteSetsExt

CONSTANTS
  MaxSwing,                (* the highest voltage swing, 3                 *)
  MaxLanes,                (* lanes of the widest sink, 4                  *)
  CrTries, CeTries,        (* 5 and 5                                      *)
  AuxTries,                (* transactions dp_aux_*() tries, 4             *)
  Sinks,                   (* the sinks considered, of Capable             *)
  Modes                    (* the modes set: [clock, bpp]                  *)

(* A swing fits a byte, and 255 is none.                                   *)
ASSUME DriveAssumption == MaxSwing \in 1 .. 254 /\ MaxLanes \in Nat \ {0}
ASSUME TriesAssumption == CrTries \in Nat \ {0} /\ CeTries \in Nat /\ AuxTries \in Nat \ {0}
ASSUME ModesAssumption == Modes \subseteq [clock : Nat, bpp : Nat \ {0}]

Lanes == 0 .. MaxLanes - 1
Rates == {162000, 270000, 540000}

(* How a lane is driven: by its swing, which its emphasis goes along with.  *)
Drive == 0 .. MaxSwing

(* dp_link_train_cr() starts from a voltage no lane has.                    *)
(* Mutant: from the lowest.                                                *)
NoVoltageLowest == 0
NoVoltage       == 255

VARIABLES
  pc,       (* where the driver is                                         *)
  caps,     (* what the sink can do, and the bridge in front of it         *)
  dp,       (* dp_info                                                     *)
  mode,     (* the mode being set                                          *)
  voltage,  (* of dp_link_train_cr()                                       *)
  source,   (* the transmitter, as AtomBIOS was told                       *)
  sink,     (* the sink's registers                                        *)
  lost,     (* a command, or the lanes read, of this training did not get through *)
  reads     (* link statuses read by this clock recovery at this voltage   *)

link == <<source, sink, lost>>
vars == <<pc, caps, dp, mode, voltage, link, reads>>

-----------------------------------------------------------------------------
(* One AUX transaction: dp_aux_speak() and how dp_aux_write() and           *)
(* dp_aux_read() take it.  "aborted": the table was not run, which nobody   *)
(* checks, and the status byte then reads as an acknowledgement.  A         *)
(* transaction that timed out may have reached the sink.                    *)
Reply  == {"ack", "aborted", "defer", "busy", "timeout", "timeout, done", "error", "nack"}
Again  == {"defer", "busy"}
Taken  == {"ack", "timeout, done"}

(* What became of the retries: the first reply that is not "try again".     *)
Final(replies) ==
  LET settled == {k \in 1 .. AuxTries : replies[k] \notin Again}
  IN IF settled = {} THEN "gave up" ELSE replies[Min(settled)]

Outcomes == {Final(replies) : replies \in [1 .. AuxTries -> Reply]}

ReadOk       == {(o = "ack") : o \in Outcomes}       (* a positive length came back *)
WriteReaches == {(o \in Taken) : o \in Outcomes}

(* Which of some commands get through: nobody looks at their results.       *)
Got(commands) == {{c \in commands : fate[c]} : fate \in [commands -> WriteReaches]}

(* dpcd_reg_write(): the register takes the value if the write got through. *)
Put(regs, got, reg, value) == IF reg \in got THEN [regs EXCEPT ![reg] = value] ELSE regs

-----------------------------------------------------------------------------
(* Which lanes and rate a mode gets. *)
PixelClockMax(rate, lanes, bpp) == (rate * lanes * 8) \div bpp

(* dp_decode_link_rate() of what the sink says, or of zeros. *)
RateMax == IF dp.valid THEN caps.rate ELSE 162000
LaneMax == IF dp.valid THEN caps.lanes ELSE 0

(* The first power of two that carries the mode, or that is the most.       *)
(* Mutant: the sink's slowest rate decides.                                 *)
dp_get_lane_count_slow(m) ==
  Min({n \in {1, 2, 4} : n >= LaneMax \/ m.clock <= PixelClockMax(540000, n, m.bpp)})
dp_get_lane_count(m) ==
  Min({n \in {1, 2, 4} : n >= LaneMax \/ m.clock <= PixelClockMax(RateMax, n, m.bpp)})

dp_get_link_rate(m) ==
  LET enough == {r \in {162000, 270000} :
                   m.clock <= PixelClockMax(r, dp_get_lane_count(m), m.bpp)}
  IN IF caps.bridge = "NUTMEG" THEN 270000
     ELSE IF enough # {} THEN Min(enough) ELSE RateMax

-----------------------------------------------------------------------------
NoMode == [clock |-> 0, bpp |-> 0]

(* A NUTMEG bridge runs at 2.7 GHz only.  service: the source is trained by *)
(* an AtomBIOS service that the driver has yet to use.                     *)
Capable ==
  {c \in [rate : Rates, lanes : {1, 2, 4}, bridge : {"none", "NUTMEG"}, service : BOOLEAN] :
     c.lanes <= MaxLanes /\ (c.bridge = "NUTMEG" => c.rate = 270000)}

ASSUME SinksAssumption == Sinks \subseteq Capable

Init ==
  /\ pc = "setup" /\ caps \in Sinks
  /\ dp = [valid |-> FALSE, laneCount |-> 0, linkRate |-> 0, attempts |-> 0,
           set |-> [l \in Lanes |-> 0]]
  /\ mode = NoMode /\ voltage = NoVoltage
  /\ source = [pattern |-> "off", set |-> 0]
  /\ sink = [rate |-> 0, lanes |-> 0, pattern |-> "off",
             set |-> [l \in Lanes |-> 0]]
  /\ lost = FALSE /\ reads = 0

(* dp_setup_connectors(): once, when the accelerant starts. *)
SetupConnectors ==
  /\ pc = "setup" /\ pc' = "ready"
  /\ dp' \in {[dp EXCEPT !.valid = ok] : ok \in ReadOk}
  /\ UNCHANGED <<caps, mode, voltage, link, reads>>

(* radeon_set_display_mode() before the training. *)
ChooseLink ==
  /\ pc = "ready" /\ pc' = "train"
  /\ mode' \in Modes
  /\ dp' = [dp EXCEPT !.laneCount = dp_get_lane_count(mode'), !.linkRate = dp_get_link_rate(mode')]
  /\ UNCHANGED <<caps, voltage, link, reads>>

(* dp_link_train() of a connector that has no sink: B_ERROR. *)
TrainInvalid ==
  /\ pc = "train" /\ ~dp.valid /\ pc' = "ready"
  /\ UNCHANGED <<caps, dp, mode, voltage, link, reads>>

(* dp_link_train() up to clock recovery: the sink is told the rate and all   *)
(* the lanes it says it has (none if that cannot be read), however many the *)
(* mode will use, and the pattern is off.  From here on only the link       *)
(* matters.                                                                *)
Registers == {"lanes", "rate", "pattern"}

TrainBegin ==
  /\ pc = "train" /\ dp.valid /\ pc' = "pattern 1"
  /\ \E got \in Got(Registers), read \in ReadOk :
       LET told == Put(sink, got, "lanes", IF read THEN caps.lanes ELSE 0)
       IN /\ sink' = Put(Put(told, got, "rate", dp.linkRate), got, "pattern", "off")
          /\ lost' = (got # Registers \/ ~read)
  /\ mode' = NoMode
  /\ UNCHANGED <<caps, dp, voltage, source, reads>>

(* dp_set_tp(): first the source, then the sink.  An early DCE with the     *)
(* AtomBIOS training service does neither.                                 *)
(* got says which of the two took it.                                      *)
dp_set_tp(pattern, src, snk, got) ==
  IF caps.service THEN <<src, snk>>
  ELSE <<IF "source" \in got THEN [src EXCEPT !.pattern = pattern] ELSE src,
         Put(snk, got, "pattern", pattern)>>

(* dp_update_vs_emph(): the source takes the drive of lane 0, the sink that *)
(* of every lane in use.                                                   *)
SetLanes(snk, set) ==
  [snk EXCEPT !.set = [l \in Lanes |-> IF l < dp.laneCount THEN set[l] ELSE @[l]]]
(* Mutant: the sink is not told. *)
dp_update_vs_emph_source(set, src, snk, got) ==
  <<IF "drive" \in got THEN [src EXCEPT !.set = set[0]] ELSE src, snk>>
dp_update_vs_emph(set, src, snk, got) ==
  <<IF "drive" \in got THEN [src EXCEPT !.set = set[0]] ELSE src,
    IF "set" \in got THEN SetLanes(snk, set) ELSE snk>>

Drives == {"drive", "set"}

(* dp_link_train_cr() up to its loop. *)
CrBegin ==
  /\ pc = "pattern 1" /\ pc' = "cr"
  /\ UNCHANGED <<voltage, reads>>
  /\ dp' = [dp EXCEPT !.set = [l \in Lanes |-> 0]]
  /\ \E got \in Got({"source", "pattern"} \cup Drives) :
       LET tp == dp_set_tp("1", source, sink, got)
           vs == dp_update_vs_emph(dp'.set, tp[1], tp[2], got)
       IN /\ source' = vs[1] /\ sink' = vs[2]
          /\ lost' = (lost \/ got # {"source", "pattern"} \cup Drives)
  /\ UNCHANGED <<caps, mode>>

-----------------------------------------------------------------------------
(* A link status: the lanes that are good, and what each lane asks for.     *)
(* Lanes beyond the second ask for what the second asks for (a bound).      *)
Used == {l \in Lanes : l < dp.laneCount}
Asks == {a \in [Lanes -> Drive] : \A l \in Lanes : l > 1 => a[l] = a[1]}

(* dp_get_adjust_train(): the most that any lane in use asks for, for all.  *)
Adjusted(asks) ==
  [l \in Lanes |-> Max({0} \cup {asks[k] : k \in Used})]

(* DP_TRAIN_MAX_SWING_EN goes with the highest swing. *)
AtMaxSwing == \A l \in Used : dp.set[l] = MaxSwing

(* The new drive goes to both ends and the loop goes round. *)
Retrain(asks, attempts) ==
  /\ dp' = [dp EXCEPT !.set = Adjusted(asks), !.attempts = attempts]
  /\ \E got \in Got(Drives) :
       LET vs == dp_update_vs_emph(dp'.set, source, sink, got)
       IN /\ source' = vs[1] /\ sink' = vs[2]
          /\ lost' = (lost \/ got # Drives)

(* dp_link_train_cr(): the ways out of the loop.  The link status could not *)
(* be read, every lane follows, or the swing is at its most.               *)
CrLeaves ==
  /\ pc = "cr" /\ pc' = "pattern 2"
  /\ \/ FALSE \in ReadOk
     \/ \E good \in SUBSET Lanes : Used \subseteq good
     \/ AtMaxSwing
  /\ voltage' = NoVoltage /\ reads' = 0
  /\ UNCHANGED <<caps, dp, mode, link>>

Same == dp.set[0] = voltage

(* The fifth try at one voltage is the last. *)
CrTired ==
  /\ pc = "cr" /\ pc' = "pattern 2"
  /\ Used # {} /\ ~AtMaxSwing
  /\ Same /\ dp.attempts + 1 >= CrTries
  /\ dp' = [dp EXCEPT !.attempts = @ + 1]
  /\ voltage' = NoVoltage /\ reads' = 0
  /\ UNCHANGED <<caps, mode, link>>

(* Mutant: the attempts at the last voltage are not forgotten. *)
CrAgainCounting ==
  /\ pc = "cr" /\ Used # {} /\ ~AtMaxSwing
  /\ ~(Same /\ dp.attempts + 1 >= CrTries)
  /\ \E asks \in Asks : Retrain(asks, IF Same THEN dp.attempts + 1 ELSE dp.attempts)
  /\ voltage' = dp.set[0]
  /\ reads' = IF Same THEN reads + 1 ELSE 1
  /\ UNCHANGED <<pc, caps, mode>>
CrAgain ==
  /\ pc = "cr" /\ Used # {} /\ ~AtMaxSwing
  /\ ~(Same /\ dp.attempts + 1 >= CrTries)
  /\ \E asks \in Asks : Retrain(asks, IF Same THEN dp.attempts + 1 ELSE 0)
  /\ voltage' = dp.set[0]
  /\ reads' = IF Same THEN reads + 1 ELSE 1
  /\ UNCHANGED <<pc, caps, mode>>

(* dp_link_train_ce() up to its loop, whatever became of clock recovery.    *)
CeBegin ==
  /\ pc = "pattern 2" /\ pc' = "ce"
  /\ dp' = [dp EXCEPT !.attempts = 0]
  /\ \E got \in Got({"source", "pattern"}) :
       LET tp == dp_set_tp("2", source, sink, got)
       IN source' = tp[1] /\ sink' = tp[2] /\ lost' = (lost \/ got # {"source", "pattern"})
  /\ UNCHANGED <<caps, mode, voltage, reads>>

(* The link status could not be read, every lane is equalised and they are  *)
(* aligned, or it was tried more than five times.                          *)
CeLeaves ==
  /\ pc = "ce" /\ pc' = "finish"
  /\ \/ FALSE \in ReadOk
     \/ \E good \in SUBSET Lanes, align \in BOOLEAN : align /\ Used \subseteq good
     \/ dp.attempts > CeTries
  /\ UNCHANGED <<caps, dp, mode, voltage, link, reads>>

(* Mutant: no attempt is counted. *)
CeAgainForever ==
  /\ pc = "ce" /\ dp.attempts <= CeTries
  /\ \E asks \in Asks : Retrain(asks, dp.attempts)
  /\ UNCHANGED <<pc, caps, mode, voltage, reads>>
CeAgain ==
  /\ pc = "ce" /\ dp.attempts <= CeTries
  /\ \E asks \in Asks : Retrain(asks, dp.attempts + 1)
  /\ UNCHANGED <<pc, caps, mode, voltage, reads>>

(* The end of dp_link_train(): the pattern goes off at the sink and, where  *)
(* it was put on, at the source.  Mutant: not at the sink.                  *)
FinishSource ==
  /\ pc = "finish" /\ pc' = "ready"
  /\ \E got \in Got({"source", "pattern"}) :
       /\ source' = IF caps.service \/ "source" \notin got THEN source
                    ELSE [source EXCEPT !.pattern = "off"]
       /\ sink' = sink
       /\ lost' = (lost \/ got # {"source", "pattern"})
  /\ UNCHANGED <<caps, dp, mode, voltage, reads>>
Finish ==
  /\ pc = "finish" /\ pc' = "ready"
  /\ \E got \in Got({"source", "pattern"}) :
       /\ source' = IF caps.service \/ "source" \notin got THEN source
                    ELSE [source EXCEPT !.pattern = "off"]
       /\ sink' = Put(sink, got, "pattern", "off")
       /\ lost' = (lost \/ got # {"source", "pattern"})
  /\ UNCHANGED <<caps, dp, mode, voltage, reads>>

Train ==
  \/ SetupConnectors \/ TrainInvalid \/ TrainBegin \/ CrBegin \/ CrLeaves \/ CrTired \/ CrAgain
  \/ CeBegin \/ CeLeaves \/ CeAgain \/ Finish
Next == Train \/ ChooseLink

(* A training goes on by itself; another mode need never be set.           *)
Spec == Init /\ [][Next]_vars /\ WF_vars(Train)

-----------------------------------------------------------------------------
(* Every variable has its type.                                            *)
TypeOK ==
  /\ pc \in {"setup", "ready", "train", "pattern 1", "cr", "pattern 2", "ce", "finish"}
  /\ caps \in Sinks /\ mode \in Modes \cup {NoMode}
  /\ dp \in [valid : BOOLEAN, laneCount : {0, 1, 2, 4}, linkRate : Rates \cup {0},
             attempts : 0 .. Max({CrTries, CeTries + 1}), set : [Lanes -> Drive]]
  /\ voltage \in 0 .. MaxSwing \cup {255}
  /\ source \in [pattern : {"off", "1", "2"}, set : Drive]
  /\ sink \in [rate : Rates \cup {0}, lanes : {0, 1, 2, 4},
               pattern : {"off", "1", "2"}, set : [Lanes -> Drive]]
  /\ lost \in BOOLEAN /\ reads \in 0 .. CrTries + 1

(* As long as every command has got through, the link status is judged with *)
(* the source and the sink in the same pattern, at the same drive and the   *)
(* rate chosen, on lanes that the sink has been told are in use, and        *)
(* outside a training no pattern is on.                                     *)
SinkFollows ==
  /\ ~lost /\ pc \in {"cr", "pattern 2", "ce", "finish"} =>
       /\ source.pattern = sink.pattern
       /\ source.set = dp.set[0] /\ \A l \in Used : sink.set[l] = dp.set[l]
       /\ sink.rate = dp.linkRate /\ dp.laneCount <= sink.lanes
  /\ ~lost /\ pc = "ready" => source.pattern = "off" /\ sink.pattern = "off"

(* A mode the sink can carry gets a link that carries it and that the sink  *)
(* has, with no lane and no speed to spare.                                 *)
LinkCarriesMode ==
  LET carries(r, n) == mode.clock <= PixelClockMax(r, n, mode.bpp)
  IN pc = "train" /\ dp.valid /\ carries(caps.rate, caps.lanes) =>
       /\ dp.laneCount <= caps.lanes /\ dp.linkRate <= caps.rate
       /\ carries(dp.linkRate, dp.laneCount)
       /\ \A n \in {1, 2, 4} : n < dp.laneCount => ~carries(caps.rate, n)
       /\ caps.bridge = "none" =>
            \A r \in Rates : r < dp.linkRate => ~carries(r, dp.laneCount)

Inv == TypeOK /\ SinkFollows /\ LinkCarriesMode

(* Clock recovery is given up as tired only when the sink has been read five *)
(* times before at one voltage, whatever an earlier training left behind.          *)
CrIsPatient == [][CrTired => reads >= CrTries]_vars

(* A training comes to its end, unless the sink asks for another voltage    *)
(* again and again, which clock recovery puts up with for ever.             *)
TrainingEnds ==
  \/ []<>(pc \in {"ready", "setup"})
  \/ []<><<CrAgain /\ dp'.set[0] # dp.set[0]>>_vars
=============================================================================
