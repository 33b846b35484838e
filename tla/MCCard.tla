------------------------------- MODULE MCCard --------------------------------
(***************************************************************************)
(* What the drivers keep beside the picture itself, on small instances: the *)
(* ring queue; the interpreter of the BIOS, its control and its operands;   *)
(* the move of the video memory; the detection of monitors; how drivers     *)
(* take and give back what they need; and the pixel clock.                  *)
(*                                                                         *)
(* The parts share no variable.  Each behaviour runs one of them, chosen at *)
(* the beginning, and leaves the others at a first state or at Unused.      *)
(***************************************************************************)
EXTENDS RingQueueRefinement, AtomExec, Detect, MemoryController, DriverSetup, TLC

CONSTANTS
  Base, Locs, Sample,                                     (* AtomOperand   *)
  Cards, Clocks                                           (* Pll           *)

VARIABLES
  part,                                                   (* which one runs *)
  ins, io_mode, mem, flags, divmul, done,
  pllCard, pll, target

Operand == INSTANCE AtomOperand WITH cs <- flags
Clock   == INSTANCE Pll WITH card <- pllCard

operandVars == <<ins, io_mode, mem, flags, divmul, done>>
clockVars   == <<pllCard, pll, target>>
allVars     == <<part, vars, atomVars, operandVars, memoryVars, detectVars, setupVars, clockVars>>

(* The assumptions of the modules that are only instantiated. *)
ASSUME ClockAssumption  == Clock!CardAssumption

-----------------------------------------------------------------------------
(* A BIOS with a table that calls others, one that polls in a loop that a   *)
(* register may never end, and one that does not exist.                    *)
I(op)       == [op |-> op]
J(cond, to) == [op |-> "jump", cond |-> cond, target |-> to]
Call(table) == [op |-> "calltable", table |-> table]

MCCode ==
  [mode |-> <<[op |-> "setport", port |-> "IIO"], Call("poll"), I("test"),
              J("BELOW", 6), Call("none"), [op |-> "setregblock", block |-> 7],
              Call("leaf"), I("eot")>>,
   poll |-> <<I("op"), I("compare"), J("NOTEQUAL", 1), I("eot")>>,
   leaf |-> <<[op |-> "setdatablock", block |-> "self"], [op |-> "setfbbase", base |-> 7],
              [op |-> "switch", cases |-> {5}], I("invalid"), I("eot")>>,
   none |-> <<>>]

MCPs   == [mode |-> 2, poll |-> 1, leaf |-> 0, none |-> 0]
MCWs   == {"mode", "poll"}
MCLocs == {<<"WS", 0>>, <<"REG", 1>>}

NoInstruction ==
  [op |-> "move", attr |-> Operand!Attr(<<"IMM", 0>>, 0, 0), loc |-> <<"WS", 0>>, direct |-> 1]

-----------------------------------------------------------------------------
(* Boards: DVI-I jacks in both orders, notebooks, televisions, one whose   *)
(* BIOS names no connector that is supported.                              *)
Path(type, tag, encoder, pin, jack) ==
  [type |-> type, tag |-> tag, encoder |-> encoder, pin |-> pin, jack |-> jack,
   supported |-> TRUE]

Vga(pin, jack)  == Path("VGA", "CRT", "DAC", pin, jack)
DviA(pin, jack) == Path("DVII", "CRT", "DAC", pin, jack)
DviD(pin, jack) == Path("DVII", "DFP", "TMDS", pin, jack)
Panel(jack)     == Path("LVDS", "LCD", "LVDS", 0, jack)
Video(jack)     == Path("SVIDEO", "TV", "TVDAC", 0, jack)
NineDin(jack)   == Path("9DIN", "TV", "TVDAC", 0, jack)
Component(jack) == Path("VGA", "CV", "DAC", 0, jack)

MCPaths ==
  {<<DviA(1, 1), DviD(1, 1), Vga(2, 2)>>, <<DviD(1, 1), DviA(1, 1), Vga(2, 2)>>,
   <<Panel(2), Component(3), DviA(1, 1), DviD(1, 1)>>,
   <<DviA(2, 1), Panel(2), DviD(2, 1)>>,
   <<NineDin(3), Vga(1, 1), Vga(2, 2)>>, <<Video(1), Vga(2, 2)>>,
   <<[Vga(1, 1) EXCEPT !.supported = FALSE]>>, <<Video(1)>>,
   <<Video(2), DviD(1, 1)>>, <<Panel(2), Vga(1, 1)>>}

(* A monitor is plugged into a jack it fits; what it says of itself is free. *)
MCBoards ==
  {b \in [paths : MCPaths, pins : {<<1, 2>>, <<0, 2>>, <<1>>, <<1, 2, 1, 2>>},
          legacy : BOOLEAN, panel : BOOLEAN,
          plugged : {(1 :> m) @@ (2 :> n) @@ (3 :> None) :
                       m, n \in Monitors \cup {None}}] : Fits(b)}

NoMonitor ==
  [paths |-> <<Video(1)>>, pins |-> <<1, 2>>, legacy |-> FALSE, panel |-> FALSE,
   plugged |-> (1 :> None) @@ (2 :> None) @@ (3 :> None)]

(* A card without a picture, for the other parts. *)
OldCard == [chip |-> "r600", driver |-> "accelerant"]
Dark    == [r \in Registers(OldCard) |-> IF r[1] = "cp" THEN 1 ELSE 0]

-----------------------------------------------------------------------------
(* Cards of every generation, with connectors of every kind, spread         *)
(* spectrum, and a BIOS that doubles the clock or fixes dividers.          *)
PllCard(dce, rv770, apu, device, ss, bios, freq) ==
  [dce |-> dce, rv770 |-> rv770, apu |-> apu, device |-> device, ssReferenceDiv |-> ss,
   bios |-> bios, referenceFreq |-> freq, pllOutMin |-> 648000, pllOutMax |-> 1200000]

MCCards ==
  {PllCard(200, FALSE, FALSE, "CRT", 0, {}, 27000),
   PllCard(200, FALSE, FALSE, "LCD", 4, {}, 27000),
   PllCard(300, TRUE, FALSE, "LCD", 0, {}, 27000),
   PllCard(302, TRUE, FALSE, "DFP", 0, {}, 27000),
   PllCard(302, TRUE, FALSE, "DFP", 0, {"post"}, 27000),
   PllCard(302, TRUE, FALSE, "DFP", 0, {"reference", "post"}, 27000),
   PllCard(401, TRUE, TRUE, "DFP", 0, {}, 100000),
   PllCard(401, TRUE, FALSE, "DFP", 0, {"times two"}, 100000),
   PllCard(401, TRUE, FALSE, "TV", 0, {}, 100000)}

(* The clocks of the usual modes from 640x480 to 2048x1536. *)
MCClocks ==
  {25175, 31500, 40000, 50000, 65000, 74250, 81000, 85500, 108000, 119000, 148500,
   154000, 162000, 193250, 200010, 268500, 324000}

-----------------------------------------------------------------------------
Unused == "unused"

MCInit ==
  /\ part \in {"ring", "control", "operand", "memory", "detect", "setup", "clock"}
  /\ Init
  /\ IF part = "control" THEN AtomInit
     ELSE /\ at = [t \in Threads |-> "outside"] /\ waited = [t \in Threads |-> 0]
          /\ call = [t \in Threads |-> "mode"] /\ stack = [t \in Threads |-> <<>>]
          /\ result = [t \in Threads |-> "none"] /\ sem = 1
          /\ live = [t \in Threads |-> 0] /\ cs = Unused /\ mode = Unused
          /\ csBy = (CHOOSE t \in Threads : TRUE)
          /\ faulted = [t \in Threads |-> FALSE]
  /\ IF part = "operand" THEN Operand!Init
     ELSE /\ ins = NoInstruction /\ io_mode = "MM" /\ mem = [loc \in Locs |-> 0]
          /\ flags = Unused /\ divmul = <<0, 0>> /\ done = FALSE
  /\ part # "memory" => mcCard = OldCard /\ reg = Dark
  /\ MemoryInit
  /\ part # "detect" => board = NoMonitor
  /\ DetectInit
  /\ part # "setup" => driver = "drm"
  /\ SetupInit
  /\ IF part = "clock" THEN Clock!Init
     ELSE pllCard = Unused /\ pll = Unused /\ target = Unused

MCNext ==
  /\ UNCHANGED part
  /\ part # "ring"    => UNCHANGED vars
  /\ part # "control" => UNCHANGED atomVars
  /\ part # "operand" => UNCHANGED operandVars
  /\ part # "memory"  => UNCHANGED memoryVars
  /\ part # "detect"  => UNCHANGED detectVars
  /\ part # "setup"   => UNCHANGED setupVars
  /\ part # "clock"   => UNCHANGED clockVars
  /\ \/ part = "ring" /\ Next
     \/ part = "control" /\ AtomNext
     \/ part = "operand" /\ Operand!Next
     \/ part = "memory" /\ MemoryNext
     \/ part = "detect" /\ DetectNext
     \/ part = "setup" /\ SetupNext
     \/ part = "clock" /\ Clock!Next

(* Time passes, and threads inside the interpreter are scheduled. *)
MCSpec ==
  /\ MCInit /\ [][MCNext]_allVars
  /\ WF_atomVars(part = "control" /\ Second)
  /\ \A t \in Threads : WF_atomVars(part = "control" /\ Thread(t))

-----------------------------------------------------------------------------
(* The properties of the modules that are only instantiated; they state them *)
(* and say what they are about.                                            *)

(* AtomOperand: nothing outside the lane of the destination changes, and    *)
(* inside it arithmetic is that of its width.  Pll: the dividers a search    *)
(* ends with fit their registers and give a clock close to the target.     *)
NumbersRight ==
  /\ Operand!OnlyTheLane /\ Operand!LaneArithmetic
  /\ [][part = "clock" => Clock!PllInv']_clockVars

(* "pll in/out limits" (pll.h:67), see Pll.                                *)
VcoInLimits == part = "clock" => Clock!VcoInLimits
=============================================================================
