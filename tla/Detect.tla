-------------------------------- MODULE Detect --------------------------------
(***************************************************************************)
(* Which monitors the driver believes are connected: gpio_probe(),          *)
(* connector_probe() and connector_probe_legacy() of radeon_hd/connector.cpp*)
(* read the card's connectors from the BIOS, detect_displays() of           *)
(* radeon_hd/display.cpp then gives the CRTCs, one after the other, to the  *)
(* connectors a monitor is found on.                                       *)
(*                                                                         *)
(* A DVI-I jack is two display paths, an analog and a digital one, on one   *)
(* pair of DDC pins.  What is read over a pair of pins is the EDID of the   *)
(* monitor in the jack that the pins lead to, whichever connector asks.     *)
(***************************************************************************)
EXTENDS Integers, Sequences, FiniteSets, SequencesExt

CONSTANTS
  ATOM_MAX_SUPPORTED_DEVICE,   (* connectors and pins there is room for, 16 *)
  MAX_DISPLAY,                 (* CRTCs that are used, 2                    *)
  None,                        (* no monitor                               *)
  Boards                       (* [paths, pins, legacy, panel] and what is  *)
                               (* plugged in, jack -> Monitors or None      *)

ASSUME RoomAssumption ==
  ATOM_MAX_SUPPORTED_DEVICE \in Nat \ {0} /\ MAX_DISPLAY \in Nat \ {0}

(* A display path is [type, tag, encoder, pin, jack, supported]; pin 0 is   *)
(* no record of an I2C line.  pins is the BIOS' table of pins; 0 is an      *)
(* entry without registers.  panel tells whether the BIOS has the mode of   *)
(* the panel.                                                              *)
Types    == {"UNKNOWN", "VGA", "DVII", "SVIDEO", "LVDS", "9DIN"}
Tags     == {"NONE", "CRT", "DFP", "LCD", "TV", "CV"}
Encoders == {"NONE", "DAC", "TVDAC", "TMDS", "LVDS"}
Analog   == {"DAC", "TVDAC"}

(* A monitor is analog or digital and says in its EDID what it is, which    *)
(* need not be true; ranges tells whether it gives frequency ranges.        *)
Monitors == [digital : BOOLEAN, says : BOOLEAN, ranges : BOOLEAN]
NoJack   == 0

Paths == [type : Types, tag : Tags, encoder : Encoders, pin : Nat, jack : Nat \ {NoJack},
          supported : BOOLEAN]

(* A pair of pins leads to one jack and a jack has one pair, none if its    *)
(* paths name none.  A monitor is plugged into a jack it fits: that of a    *)
(* path of its kind.                                                       *)
Wired(b) ==
  \A p, q \in ToSet(b.paths) :
    /\ p.pin = q.pin /\ p.pin # 0 => p.jack = q.jack
    /\ p.jack = q.jack => p.pin = q.pin

Fits(b) ==
  \A jack \in DOMAIN b.plugged :
    b.plugged[jack] # None =>
      \E p \in ToSet(b.paths) :
        p.jack = jack /\ b.plugged[jack].digital = (p.encoder \notin Analog)

ASSUME BoardsAssumption ==
  /\ None \notin Monitors
  /\ \A b \in Boards :
       /\ b.paths \in Seq(Paths) /\ b.pins \in Seq(Nat)
       /\ b.legacy \in BOOLEAN /\ b.panel \in BOOLEAN
       /\ \A p \in ToSet(b.paths) : p.jack \in DOMAIN b.plugged
       /\ \A jack \in DOMAIN b.plugged : b.plugged[jack] \in Monitors \cup {None}
       /\ Wired(b) /\ Fits(b)

VARIABLES
  board,
  step,          (* what radeon_init_accelerant() is at, and in which round *)
  k,
  gpio,          (* gGPIOInfo: [hwPin, valid]                               *)
  connector,     (* gConnector                                              *)
  connectorIndex,
  display,       (* gDisplay                                                *)
  displayIndex

detectVars == <<board, step, k, gpio, connector, connectorIndex, display, displayIndex>>

Slots == 0 .. ATOM_MAX_SUPPORTED_DEVICE - 1
Crtcs == 0 .. MAX_DISPLAY - 1

NoConnector == [valid |-> FALSE, type |-> "UNKNOWN", tag |-> "NONE", encoder |-> "NONE",
                gpioID |-> 0, jack |-> 0]
NoDisplay   == [attached |-> FALSE, powered |-> FALSE, connectorIndex |-> 0,
                foundRanges |-> FALSE, edid |-> NoJack, preferred |-> FALSE, registers |-> FALSE]

DetectInit ==
  /\ board \in Boards
  /\ step = "gpio" /\ k = 0
  /\ gpio = [i \in Slots |-> [hwPin |-> 0, valid |-> FALSE]]
  /\ connector = [i \in Slots |-> NoConnector] /\ connectorIndex = 0
  /\ display = [d \in Crtcs |-> NoDisplay] /\ displayIndex = 0

-----------------------------------------------------------------------------
(* A table with more pins than there is room for is not read at all.        *)
gpio_probe ==
  /\ step = "gpio" /\ step' = "connectors"
  /\ gpio' = [i \in Slots |->
       IF Len(board.pins) <= ATOM_MAX_SUPPORTED_DEVICE /\ i + 1 \in DOMAIN board.pins
       THEN [hwPin |-> i + 1, valid |-> board.pins[i + 1] # 0]
       ELSE gpio[i]]
  /\ UNCHANGED <<board, k, connector, connectorIndex, display, displayIndex>>

(* connector_attach_gpio(): the first line of that name, or line 0.         *)
GpioOf(hwPin) ==
  LET lines == {i \in Slots : gpio[i].hwPin = hwPin}
  IN IF lines = {} THEN 0 ELSE Min(lines)

(* Component video and unknown connectors are left out.  Paths to a         *)
(* television have no I2C record looked for, but in the legacy table every  *)
(* device names a line.                                                    *)
Usable(path)   == path.supported /\ path.tag # "CV" /\ path.type # "UNKNOWN"
HasLine(path)  == board.legacy \/ (path.tag # "TV" /\ path.pin # 0)
PathType(path) == IF board.legacy /\ path.tag = "CRT" THEN "VGA" ELSE path.type

(* The two probes, a display path at a time. *)
connector_probe(path) ==
  IF connectorIndex < ATOM_MAX_SUPPORTED_DEVICE /\ Usable(path)
  THEN /\ connector' = [connector EXCEPT ![connectorIndex] =
            [valid |-> TRUE, type |-> PathType(path), tag |-> path.tag, encoder |-> path.encoder,
             gpioID |-> IF HasLine(path) THEN GpioOf(path.pin) ELSE @.gpioID,
             jack |-> path.jack]]
       /\ connectorIndex' = connectorIndex + 1
  ELSE UNCHANGED <<connector, connectorIndex>>

Probe ==
  /\ step = "connectors" /\ k < Len(board.paths)
  /\ connector_probe(board.paths[k + 1])
  /\ k' = k + 1
  /\ UNCHANGED <<board, step, gpio, display, displayIndex>>

(* Only the legacy probe gives up when it finds nothing. *)
Probed ==
  /\ step = "connectors" /\ k = Len(board.paths)
  /\ step' = (IF board.legacy /\ connectorIndex = 0 THEN "failed" ELSE "detect") /\ k' = 0
  /\ display' = [d \in Crtcs |->
       [display[d] EXCEPT !.attached = FALSE, !.powered = FALSE, !.foundRanges = FALSE]]
  /\ UNCHANGED <<board, gpio, connector, connectorIndex, displayIndex>>

-----------------------------------------------------------------------------
(* The jack a line leads to: that of the paths that name it. *)
JackOf(g) ==
  LET paths == {p \in ToSet(board.paths) : p.pin # 0 /\ p.pin = gpio[g].hwPin}
  IN IF paths = {} THEN NoJack ELSE (CHOOSE p \in paths : TRUE).jack

Plugged(jack) == IF jack = NoJack THEN None ELSE board.plugged[jack]

(* connector_read_edid(): whose EDID comes over the connector's line.       *)
EdidJack(id) ==
  LET c == connector[id] IN
  IF gpio[c.gpioID].valid /\ Plugged(JackOf(c.gpioID)) # None THEN JackOf(c.gpioID) ELSE NoJack

(* encoder_analog_load_detect(): an analog monitor in this very jack loads  *)
(* the converter.                                                          *)
encoder_analog_load_detect(id) ==
  LET m == Plugged(connector[id].jack) IN m # None /\ ~m.digital

IsAnalog(id) == connector[id].encoder \in Analog

(* Is the EDID taken for this connector's?  Only an EDID that says analog   *)
(* on an analog encoder is looked into.                                    *)
Accepts(id, edid) ==
  ~Plugged(edid).says /\ IsAnalog(id) => encoder_analog_load_detect(id)

(* What detect_displays() finds on connector id: d is the display before,   *)
(* the result the display after.                                           *)
Found(id, d) ==
  IF connector[id].type = "LVDS" /\ board.panel
  THEN [d EXCEPT !.attached = TRUE, !.preferred = TRUE]
  ELSE IF EdidJack(id) = NoJack THEN d
  ELSE [d EXCEPT !.edid = EdidJack(id), !.attached = Accepts(id, EdidJack(id))]

HasRanges(d) == d.edid # NoJack /\ Plugged(d.edid).ranges

(* Mutant: a panel's mode does not stand in the way of ranges. *)
AttachStale(id, d) ==
  [d EXCEPT !.connectorIndex = id, !.registers = TRUE, !.foundRanges = @ \/ HasRanges(d)]

Attach(id, d) ==
  [d EXCEPT !.connectorIndex = id, !.registers = TRUE,
            !.foundRanges = IF d.preferred THEN FALSE ELSE @ \/ HasRanges(d)]

(* Mutant: one CRTC too few. *)
SkippedEarly(id) == ~connector[id].valid \/ displayIndex >= MAX_DISPLAY - 1 \/ connector[id].type = "9DIN"
Skipped(id) == ~connector[id].valid \/ displayIndex >= MAX_DISPLAY \/ connector[id].type = "9DIN"

DetectConnector ==
  /\ step = "detect" /\ k < ATOM_MAX_SUPPORTED_DEVICE
  /\ k' = k + 1
  /\ IF Skipped(k) THEN UNCHANGED <<display, displayIndex>>
     ELSE LET d == Found(k, display[displayIndex]) IN
          /\ display' = [display EXCEPT ![displayIndex] = IF d.attached THEN Attach(k, d) ELSE d]
          /\ displayIndex' = displayIndex + (IF d.attached THEN 1 ELSE 0)
  /\ UNCHANGED <<board, step, gpio, connector, connectorIndex>>

(* "Injecting first connector as a last resort": valid or not, but not a    *)
(* television's.                                                           *)
Fallback ==
  LET ids == {id \in Slots : connector[id].encoder # "TVDAC"} IN
  IF displayIndex # 0 \/ ids = {} THEN display
  ELSE [display EXCEPT ![0] =
         [display[0] EXCEPT !.attached = TRUE, !.registers = TRUE, !.connectorIndex = Min(ids),
                            !.foundRanges = @ \/ HasRanges(display[0])]]

Detected ==
  /\ step = "detect" /\ k = ATOM_MAX_SUPPORTED_DEVICE
  /\ step' = "done"
  /\ display' = [d \in Crtcs |-> [Fallback[d] EXCEPT !.powered = @ \/ Fallback[d].attached]]
  /\ UNCHANGED <<board, k, gpio, connector, connectorIndex, displayIndex>>

Done == step \in {"done", "failed"} /\ UNCHANGED detectVars

DetectNext == gpio_probe \/ Probe \/ Probed \/ DetectConnector \/ Detected \/ Done

DetectSpec == DetectInit /\ [][DetectNext]_detectVars

-----------------------------------------------------------------------------
DetectTypeOK ==
  /\ step \in {"gpio", "connectors", "detect", "done", "failed"}
  /\ gpio \in [Slots -> [hwPin : Nat, valid : BOOLEAN]]
  /\ \A i \in Slots : connector[i].type \in Types /\ connector[i].encoder \in Encoders
                      /\ connector[i].gpioID \in Slots
  /\ connectorIndex \in 0 .. ATOM_MAX_SUPPORTED_DEVICE /\ displayIndex \in 0 .. MAX_DISPLAY

Shown == {d \in Crtcs : display[d].attached}

(* A display that shows a connector and knows frequencies knows those of    *)
(* the monitor behind the connector's own line, even when an EDID that was  *)
(* rejected on another connector is still in its place.                    *)
OwnRanges ==
  \A d \in Shown : displayIndex > 0 /\ display[d].foundRanges =>
    /\ EdidJack(display[d].connectorIndex) # NoJack
    /\ Plugged(EdidJack(display[d].connectorIndex)).ranges

(* CRTCs are given out in order, to different connectors that are there;    *)
(* all of them are powered and set up.                                     *)
OneToOne ==
  step = "done" =>
    /\ \A d, e \in Crtcs : d < e /\ e \in Shown =>
         d \in Shown /\ display[d].connectorIndex < display[e].connectorIndex
    /\ \A d \in Shown : /\ display[d].powered /\ display[d].registers
                        /\ displayIndex > 0 => connector[display[d].connectorIndex].valid

(* A monitor is missed only for want of a CRTC: one that answers over the   *)
(* line of its connector and is what it says it is, on an encoder of its    *)
(* kind, is shown.                                                         *)
NothingMissed ==
  step = "done" /\ displayIndex < MAX_DISPLAY =>
    \A id \in Slots :
      LET m == Plugged(connector[id].jack) IN
      /\ connector[id].valid /\ connector[id].type # "9DIN"
      /\ EdidJack(id) = connector[id].jack /\ m # None
      /\ m.digital = m.says /\ m.digital = ~IsAnalog(id)
      => \E d \in Shown : display[d].connectorIndex = id

(* Has the connector a line of its own, that of its path and of no other?   *)
(* The two paths of a DVI-I jack share theirs, and a path that names no     *)
(* line, or one the table of pins lacks, is given line 0, whose ever it is. *)
OwnLine(id) ==
  \E n \in DOMAIN board.paths :
    LET p == board.paths[n] IN
    /\ p.jack = connector[id].jack /\ p.encoder = connector[id].encoder
    /\ p.pin # 0 /\ p.pin = gpio[connector[id].gpioID].hwPin
    /\ \A m \in DOMAIN board.paths : board.paths[m].pin = p.pin => m = n

(* "we have to make *sure* the edid data received is valid for te           *)
(* connector" (display.cpp:298): what is shown by its EDID is plugged into  *)
(* the connector's jack and is of the encoder's kind, if it tells the truth *)
(* and the connector has a line of its own.                                *)
EdidFitsConnector ==
  \A d \in Shown : d < displayIndex /\ ~display[d].preferred =>
    LET id == display[d].connectorIndex
        m  == Plugged(display[d].edid)
    IN OwnLine(id) /\ m.digital = m.says
       => display[d].edid = connector[id].jack /\ m.digital = ~IsAnalog(id)

DetectInv == DetectTypeOK /\ OwnRanges /\ OneToOne /\ NothingMissed /\ EdidFitsConnector
=============================================================================
