--------------------------- MODULE MCDisplayPath ----------------------------
(***************************************************************************)
(* The way to a monitor on small instances: the training of its DisplayPort *)
(* link, the reading of its EDID, the modes that are offered, and the       *)
(* setting of one.  The parts share no variable: each behaviour runs one of   *)
(* them, chosen at the beginning, and leaves the others unset.             *)
(*                                                                         *)
(* DisplayPort: sinks of one and of two lanes, at the slow and at the fast  *)
(* rate, one behind a bridge and one whose source the driver cannot train;  *)
(* modes that one slow lane carries, that two do, and that no sink here     *)
(* carries.  EDID: two bytes of three bits, of a version the code knows, of *)
(* another, and a monitor that is off and holds the data wire.             *)
(*                                                                         *)
(* The list of modes: six entries of the driver's table, EDIDs with and     *)
(* without established and detailed timings and with ranges of two widths,  *)
(* one standard timing that is in the table, one that equals a detailed     *)
(* one, three that must be computed, and one that is not used.             *)
(***************************************************************************)
EXTENDS DisplayPort, ModeSet, Ddc

VARIABLES
  part,                                                (* which one runs    *)
  info, display, memory, modes, capacity, at, mode_list (* of ModeList       *)

-----------------------------------------------------------------------------
(* Boards: cards of every generation of display engine, with every kind of  *)
(* encoder; one and two displays, a display that was never found,           *)
(* DisplayPort next to DVI, bridges, connectors on link B, and televisions. *)
C(enc, on, type) ==
  [enc |-> enc, link |-> on, type |-> type, lcd |-> FALSE, tv |-> "none",
   ext |-> FALSE, bridge |-> FALSE, extLink |-> "A"]
Tv(enc, is) == [C(enc, "A", "SVIDEO") EXCEPT !.tv = is]
Bridge(c)   == [c EXCEPT !.ext = TRUE, !.bridge = TRUE]
Attach(a, b) == [id \in 0 .. 1 |-> IF id = 0 THEN [attached |-> TRUE, conn |-> a]
                                    ELSE [attached |-> b >= 0, conn |-> IF b >= 0 THEN b ELSE 0]]
Two(a, b)   == [c \in 0 .. 1 |-> IF c = 0 THEN a ELSE b]
Board(dce, apu, chip, ec, conn, disp) ==
  [dce |-> dce, apu |-> apu, chip |-> chip, extClock |-> ec, conn |-> conn, disp |-> disp]

Laptop == [C("LVDS", "A", "LVDS") EXCEPT !.lcd = TRUE]
MCBoards ==
  {Board(100, FALSE, "other", FALSE, Two(Laptop, C("DAC1", "A", "VGA")), Attach(0, 1)),
   Board(202, FALSE, "other", FALSE, Two(C("KLDSCP_TMDS1", "A", "DVID"), C("DVO1", "A", "DVID")), Attach(1, -1)),
   Board(200, FALSE, "other", FALSE, Two(Tv("DAC2", "TV"), C("DAC1", "A", "VGA")), Attach(0, 1)),
   Board(300, FALSE, "other", FALSE, Two(C("KLDSCP_DAC1", "A", "VGA"), Tv("KLDSCP_DAC2", "TV")), Attach(0, 1)),
   Board(401, FALSE, "other", FALSE, Two(Tv("KLDSCP_DAC1", "CV"), C("UNIPHY", "A", "DVID")), Attach(0, 1)),
   Board(300, FALSE, "other", FALSE, Two(C("UNIPHY", "A", "DVID"), C("KLDSCP_LVTMA", "A", "DVID")), Attach(0, 1)),
   Board(302, FALSE, "RV710", FALSE, Two(C("UNIPHY", "A", "DVID"), C("UNIPHY1", "A", "DP")), Attach(1, 0)),
   Board(302, FALSE, "other", FALSE, Two(C("KLDSCP_DVO1", "A", "DVID"), C("KLDSCP_DAC2", "A", "VGA")), Attach(0, 1)),
   Board(400, FALSE, "other", FALSE, Two(C("UNIPHY", "A", "DP"), C("UNIPHY1", "A", "DVID")), Attach(0, 1)),
   Board(401, TRUE, "SUMO", TRUE, Two(Bridge(C("UNIPHY", "A", "VGA")), C("UNIPHY1", "B", "DVID")), Attach(0, 1)),
   Board(401, TRUE, "PALM", FALSE, Two(C("UNIPHY", "A", "EDP"), C("UNIPHY", "B", "DVID")), Attach(0, 1)),
   Board(500, FALSE, "other", FALSE, Two(C("UNIPHY", "A", "DP"), C("UNIPHY2", "A", "DVID")), Attach(1, 0)),
   Board(500, FALSE, "other", FALSE, Two(C("KLDSCP_DVO1", "A", "DVID"), C("UNIPHY", "A", "DP")), Attach(1, 0)),
   Board(601, FALSE, "other", FALSE, Two(C("UNIPHY", "A", "DP"), [C("UNIPHY1", "A", "EDP") EXCEPT !.lcd = TRUE]), Attach(0, 1))}

-----------------------------------------------------------------------------
(* The list of modes. *)
D == INSTANCE DisplayTiming
MCTable ==
  << D!Timing(25175, D!Ticks(640, 656, 752, 800), D!Ticks(480, 490, 492, 525)),
     D!Timing(31500, D!Ticks(640, 656, 720, 840), D!Ticks(480, 481, 484, 500)),
     D!Timing(40000, D!Ticks(800, 840, 968, 1056), D!Ticks(600, 601, 605, 628)),
     D!Timing(49500, D!Ticks(800, 816, 896, 1056), D!Ticks(600, 601, 604, 625)),
     D!Timing(65000, D!Ticks(1024, 1048, 1184, 1344), D!Ticks(768, 771, 777, 806)),
     D!Timing(108000, D!Ticks(1280, 1328, 1440, 1688), D!Ticks(1024, 1025, 1028, 1066)) >>
Wish(w, h, refresh)    == [w |-> w, h |-> h, refresh |-> refresh]
Pair(h, ratio, refresh) == [h_size |-> h, ratio |-> ratio, refresh |-> refresh]
Detail(timing)         == [type |-> "timing", timing |-> timing]
Limits(h, v) ==
  [type |-> "ranges",
   ranges |-> [found |-> TRUE, min_h |-> 30, max_h |-> h, min_v |-> v, max_v |-> 76, max_clock |-> 14]]
MCInfos == {[edid |-> FALSE]} \cup
  [edid : {TRUE}, extra : BOOLEAN,
   established : {<<>>, <<Wish(640, 480, 60), Wish(640, 480, 67), Wish(800, 600, 75)>>},
   standard : {<<pair, Pair(1, 1, 1)>> : pair \in {Pair(129, 2, 0), Pair(97, 1, 15), Pair(9, 1, 0),
                                                  Pair(113, 1, 15), Pair(209, 3, 0)}},
   detailed : {<<>>,
               <<Detail(D!Timing(108010, D!Ticks(1280, 1328, 1440, 1688), D!Ticks(1024, 1025, 1028, 1066))),
                 Limits(82, 56)>>,
               <<Limits(60, 0),
                 Detail(D!Timing(71000, D!Ticks(1280, 1328, 1360, 1440), D!Ticks(800, 803, 809, 823)))>>}]

ModeLists == INSTANCE ModeList WITH kBaseModeList <- MCTable, Spaces <- <<8, 5, 4>>,
                                    Infos <- MCInfos, Memories <- {0, 16, 32, 1000}

Sink(rate, lanes, bridge, service) ==
  [rate |-> rate, lanes |-> lanes, bridge |-> bridge, service |-> service]
MCSinks ==
  {Sink(162000, 1, "none", FALSE), Sink(270000, 2, "none", FALSE),
   Sink(540000, 1, "none", TRUE), Sink(270000, 1, "NUTMEG", FALSE)}
MCModes == [clock : {40500, 67501, 200000}, bpp : {32}]

MCAddress  == <<1, 0>>
MCWriteBuf == << <<0, 0, 0>> >>

Monitor(bytes, is) == [bytes |-> bytes, state |-> is]
MCMonitors ==
  {Monitor(<< <<1, 0, 0>>, <<1, 0, 0>> >>, "known"), Monitor(<< <<1, 0, 1>>, <<0, 1, 1>> >>, "unknown"),
   Monitor(<< <<1, 0, 0>>, <<1, 0, 0>> >>, "off")}

listVars == <<info, display, memory, modes, capacity, at, mode_list>>

MCInit ==
  /\ part \in {"link", "bus", "list", "mode"}
  /\ Init
  /\ part # "link" => caps = CHOOSE c \in Sinks : TRUE
  /\ IF part = "bus" THEN DdcInit
     ELSE /\ code = <<>> /\ next_op = 0 /\ status = "unset" /\ clk = 1 /\ dat = 1
          /\ rbuf = <<>> /\ slave = Silent(<<>>)
          /\ call = "done" /\ tries = 0 /\ pins = <<>> /\ monitor = "none" /\ edid = "none"
  /\ SettingInit
  /\ part # "mode" => board = CHOOSE b \in Boards : TRUE
  /\ IF part = "list" THEN ModeLists!Init
     ELSE /\ info = 0 /\ display = 0 /\ memory = 0 /\ modes = <<>> /\ capacity = 0
          /\ at = "none" /\ mode_list = <<>>

MCNext ==
  /\ UNCHANGED part
  /\ \/ part = "link" /\ Next /\ UNCHANGED <<ddcVars, settingVars, listVars>>
     \/ part = "bus" /\ DdcNext /\ UNCHANGED <<vars, settingVars, listVars>>
     \/ part = "list" /\ ModeLists!Next /\ UNCHANGED <<vars, ddcVars, settingVars>>
     \/ part = "mode" /\ SettingNext /\ UNCHANGED <<vars, ddcVars, listVars>>

MCSpec ==
  /\ MCInit /\ [][MCNext]_<<part, vars, ddcVars, settingVars, listVars>>
  /\ WF_vars(part = "link" /\ Train)
  /\ WF_ddcVars(part = "bus" /\ Reader)

-----------------------------------------------------------------------------
(* Neither a link that never locks nor a monitor that never answers keeps   *)
(* the driver: the training ends, and the reading of an EDID returns.       *)
PathsEnd == TrainingEnds /\ CallReturns

(* Between calls everything is as it should be: the wires and the pins of   *)
(* the bus are given back on every path, and what is reported is the         *)
(* monitor's own EDID, whatever a failed try left behind; what is shown is  *)
(* what was asked for.  The list of modes is in order, has what the EDID    *)
(* asks for, and nothing the monitor cannot follow.                        *)
PathInv ==
  /\ part = "bus" => BusTypes /\ PinsGivenBack /\ OwnEdid
  /\ part = "list" => ModeLists!ModesInv
  /\ part = "mode" => ShownIsSet
=============================================================================
