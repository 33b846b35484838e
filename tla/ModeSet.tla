------------------------------ MODULE ModeSet -------------------------------
(***************************************************************************)
(* Setting a display mode and a power state on a Radeon card: mode.cpp of  *)
(* haiku/user/radeon_hd with the parts of encoder.cpp, display.cpp and     *)
(* pll.cpp that it calls.                                                  *)
(*                                                                         *)
(* The driver works by commands of the AtomBIOS, one after the other, and  *)
(* the card shows its picture all the while.  A function is the sequence   *)
(* of commands it executes; a call of the accelerant puts such a sequence  *)
(* into `todo' and every step executes the next command of it.  What a     *)
(* command does to the card is the BIOS's affair and known here only from  *)
(* the way the driver uses it.  A command is <<name, which, argument>>.    *)
(*                                                                         *)
(* A picture goes from a CRTC through a DIG encoder and a transmitter (or  *)
(* through an analog or panel encoder) and, on some boards, an external    *)
(* encoder, to a connector.  A mode stands for its timing, its pixel clock *)
(* and its framebuffer layout.  Not modelled: the BIOS scratch registers   *)
(* other than the critical state, and spread spectrum.  Commands succeed:  *)
(* their results are not looked at by the code.                            *)
(***************************************************************************)
EXTENDS Integers, Sequences, SequencesExt

CONSTANTS
  Boards,      (* cards with their connectors and attached displays         *)
  DisplayModes (* the modes that are set                                    *)

MAX_DISPLAY == 2
Display     == 0 .. MAX_DISPLAY - 1

VARIABLES
  board,       (* the card: what BIOS and detection have found             *)
  todo,        (* commands of the call in progress                         *)
  (* of the driver *)
  powered,     (* gDisplay[id]->powered                                     *)
  pixelClock,  (* connector -> the mode its pll_info was computed for      *)
  current_mode, dpms_mode,
  (* of the card *)
  critical,    (* ATOM_S6_CRITICAL_STATE                                    *)
  crtc,        (* per display controller                                   *)
  clock,       (* PLL -> what it was programmed for                        *)
  dig,         (* DIG encoder -> its last command and the mode it was set up for *)
  phy,         (* transmitter and link -> sending? and for which DIG       *)
  out,         (* connector -> output stage, backlight, encoder's mode      *)
  ext,         (* connector -> external encoder: on and not blanked         *)
  tv,          (* the card's TV encoder: the mode it makes, or "off"        *)
  interleave,  (* per display controller: its modeDataFormat                *)
  asked        (* ghost: what the caller asked for last                     *)

tvPath == <<tv, interleave>>
hw     == <<critical, crtc, clock, dig, phy, out, ext, tvPath>>
settingVars == <<board, todo, powered, pixelClock, current_mode, dpms_mode, hw, asked>>

-----------------------------------------------------------------------------
Major     == board.dce \div 100
Conn      == DOMAIN board.conn
On(id)    == board.disp[id].attached
ConnOf(id) == board.disp[id].conn
Enc(c)    == board.conn[c].enc

When(cond, commands) == IF cond THEN commands ELSE <<>>

Digital == {"UNIPHY", "UNIPHY1", "UNIPHY2", "KLDSCP_LVTMA"}
Analog  == {"DAC1", "KLDSCP_DAC1", "DAC2", "KLDSCP_DAC2"}
Panel   == {"TMDS1", "KLDSCP_TMDS1", "LVDS", "LVTM1"}

connector_is_dp(c) ==
  board.conn[c].type \in {"DP", "EDP"} \/ (board.conn[c].ext /\ board.conn[c].bridge)

(* The display attached to a connector, MAX_DISPLAY when there is none. *)
CrtcOf(b, c) ==
  CHOOSE id \in 0 .. MAX_DISPLAY :
    /\ id \in Display => b.disp[id].attached /\ b.disp[id].conn = c
    /\ \A k \in Display : k < id => ~(b.disp[k].attached /\ b.disp[k].conn = c)

LinkB(link) == IF link = "B" THEN 1 ELSE 0

(* Which DIG encoder of a board drives a connector. *)
PickDig(b, c) ==
  LET major   == b.dce \div 100
      enc     == b.conn[c].enc
      linkb   == LinkB(b.conn[c].link)
      uniphy  == [UNIPHY |-> 0, UNIPHY1 |-> 2, UNIPHY2 |-> 4]
  IN  CASE major >= 4 /\ b.chip = "PALM" -> linkb
        [] major >= 4 /\ b.chip = "SUMO" -> CrtcOf(b, c)
        [] major >= 4 /\ b.chip = "other" /\ enc \in DOMAIN uniphy -> uniphy[enc] + linkb
        [] b.dce >= 302 /\ (major < 4 \/ (b.chip = "other" /\ enc \notin DOMAIN uniphy)) -> CrtcOf(b, c)
        [] b.dce < 302 -> IF enc = "KLDSCP_LVTMA" THEN 1 ELSE 0

encoder_pick_dig(c) == PickDig(board, c)

(* A board has a connector for each of its displays, attached or not; two   *)
(* displays that are attached at once have a DIG encoder each.  (Before     *)
(* DCE 3.2 the code takes it from the transmitter alone, so that two        *)
(* connectors on the two links of UNIPHY would share one.)                 *)
Connectors ==
  [enc : STRING, link : {"A", "B"}, type : STRING, lcd : BOOLEAN, tv : {"none", "TV", "CV"},
   ext : BOOLEAN, bridge : BOOLEAN, extLink : {"A", "B"}]

OwnDig(b) ==
  \A i, k \in Display :
    LET c == b.disp[i].conn
        d == b.disp[k].conn
    IN  /\ i # k /\ b.disp[i].attached /\ b.disp[k].attached
        /\ b.conn[c].enc \in Digital /\ b.conn[d].enc \in Digital
        => PickDig(b, c) # PickDig(b, d)

ASSUME BoardsAssumption ==
  \A b \in Boards :
    /\ b.dce \in Nat /\ b.apu \in BOOLEAN /\ b.chip \in STRING /\ b.extClock \in BOOLEAN
    /\ b.conn \in [DOMAIN b.conn -> Connectors]
    /\ b.disp \in [Display -> [attached : BOOLEAN, conn : DOMAIN b.conn]]
    /\ OwnDig(b)

pll_pick(c) ==
  CASE board.dce = 601 -> IF Enc(c) = "UNIPHY" /\ board.conn[c].link # "B"
                          THEN "PPLL2" ELSE "PPLL1"
    [] board.dce # 601 /\ Major >= 4 /\ connector_is_dp(c) ->
         IF board.extClock THEN "INVALID" ELSE IF Major = 5 THEN "DCPLL" ELSE "PPLL1"
    [] OTHER -> "PPLL1"

(* encoder_assign_crtc: the source a CRTC is selected for. *)
Route(c) == IF Enc(c) \in Digital THEN <<"DIG", encoder_pick_dig(c)>> ELSE <<"device", c>>

(* The transmitter of a connector, and the one transmitter_dig_setup means: *)
(* it takes the link from the external encoder.                            *)
Phy(c)     == <<Enc(c), LinkB(board.conn[c].link)>>
TxPhy(c)   == <<Enc(c), LinkB(board.conn[c].extLink)>>

-----------------------------------------------------------------------------
(* Commands that stand for a call with its preparation of the arguments.   *)
encoder_dig_setup(c, command)     == <<"DIGxEncoderControl", c, command>>
transmitter_dig_setup(c, command) == <<"TransmitterControl", c, command>>
encoder_external_setup(c, command) == <<"ExternalEncoderControl", c, command>>
OutputControl(c, command)         == <<"OutputControl", c, command>>
EncoderControl(c)                 == <<"EncoderControl", c, "ENABLE">>
encoder_tv_setup(c, command)      == <<"TVEncoderControl", c, command>>

encoder_dpms_set_dig(c, on) ==
  LET whole == board.apu \/ Major >= 5
  IN  IF on
      THEN When(Major >= 6, <<transmitter_dig_setup(c, "15")>>)
           \o <<transmitter_dig_setup(c, IF whole \/ board.chip = "RV710"
                                         THEN "ENABLE" ELSE "ENABLE_OUTPUT")>>
           \o When(connector_is_dp(c) /\ Major >= 4,
                   <<encoder_dig_setup(c, "DP_VIDEO_OFF"), encoder_dig_setup(c, "DP_VIDEO_ON")>>)
           \o When(board.conn[c].lcd, <<transmitter_dig_setup(c, "LCD_BLON")>>)
      ELSE <<transmitter_dig_setup(c, IF whole THEN "DISABLE" ELSE "DISABLE_OUTPUT")>>
           \o When(connector_is_dp(c) /\ Major >= 4, <<encoder_dig_setup(c, "DP_VIDEO_OFF")>>)
           \o When(board.conn[c].lcd, <<transmitter_dig_setup(c, "LCD_BLOFF")>>)

encoder_dpms_set_external(c, on) ==
  CASE board.apu /\ on  -> <<encoder_external_setup(c, "ENABLE_OUTPUT"),
                             encoder_external_setup(c, "BLANKING_OFF")>>
    [] board.apu /\ ~on -> <<encoder_external_setup(c, "BLANKING"),
                             encoder_external_setup(c, "DISABLE_OUTPUT")>>
    [] ~board.apu       -> <<encoder_external_setup(c, IF on THEN "ENABLE" ELSE "DISABLE")>>

(* Nothing is done for the DVO encoder of a new card (a stub in the code). *)
encoder_dpms_set(id, on) ==
  LET c      == ConnOf(id)
      action == IF on THEN "ENABLE" ELSE "DISABLE"
      bl     == IF on THEN "LCD_BLON" ELSE "LCD_BLOFF"
      dvo    == Enc(c) = "KLDSCP_DVO1"
  IN  (CASE Enc(c) \in Digital \/ (dvo /\ Major \in 3 .. 4) -> encoder_dpms_set_dig(c, on)
         [] dvo /\ Major >= 5 -> <<>>
         [] OTHER -> <<OutputControl(c, action)>>
                     \o When(Major < 5 /\ board.conn[c].lcd, <<OutputControl(c, bl)>>))
      \o When(board.conn[c].ext, encoder_dpms_set_external(c, on))

(* Setting the scaler clears the interleave register "on some chips": it is *)
(* cleared anyway, except for a TV.  Mutant: for a TV alone.               *)
encoder_apply_quirks_tv(id) ==
  When(Major >= 3 /\ board.conn[ConnOf(id)].tv = "TV", <<<<"modeDataFormat", id, "">>>>)

encoder_apply_quirks(id) ==
  When(Major >= 3 /\ board.conn[ConnOf(id)].tv # "TV", <<<<"modeDataFormat", id, "">>>>)

(* Before DCE 5 every analog encoder, a TV's or not, has a word for the one *)
(* TV encoder.                                                             *)
encoder_mode_set(id) ==
  LET c   == ConnOf(id)
      tx(command)  == transmitter_dig_setup(c, command)
      enc(command) == encoder_dig_setup(c, command)
  IN  (CASE Enc(c) \in Analog ->
              <<EncoderControl(c)>>
              \o When(Major < 5,
                      <<encoder_tv_setup(c, IF board.conn[c].tv = "none" THEN "DISABLE" ELSE "ENABLE")>>)
         [] Enc(c) \in Panel -> <<EncoderControl(c)>>
         [] Enc(c) \in Digital /\ (board.apu \/ Major >= 5) ->
              <<enc("SETUP"), enc("SETUP_PANEL_MODE")>>
         [] Enc(c) \in Digital /\ ~board.apu /\ Major = 4 ->
              <<tx("DISABLE"), enc("SETUP"), tx("ENABLE")>>
         [] Enc(c) \in Digital /\ ~board.apu /\ Major < 4 ->
              <<tx("DISABLE"), enc("DISABLE"), enc("ENABLE"), tx("SETUP"), tx("ENABLE")>>
         [] OTHER -> <<>>)
      \o When(board.conn[c].ext,
              <<encoder_external_setup(c, IF board.apu THEN "ENCODER_SETUP" ELSE "ENABLE")>>)
      \o encoder_apply_quirks(id)

(* Mutant: the CRTC shows before it may fetch memory. *)
display_crtc_dpms_early(id, on) ==
  When(On(id),
       IF on
       THEN <<<<"EnableCRTC", id, TRUE>>, <<"BlankCRTC", id, FALSE>>>>
            \o When(Major >= 3, <<<<"EnableCRTCMemReq", id, TRUE>>>>)
       ELSE When(powered[id], <<<<"BlankCRTC", id, TRUE>>>>)
            \o When(Major >= 3, <<<<"EnableCRTCMemReq", id, FALSE>>>>)
            \o <<<<"EnableCRTC", id, FALSE>>>>)

display_crtc_dpms(id, on) ==
  When(On(id),
       IF on
       THEN <<<<"EnableCRTC", id, TRUE>>>>
            \o When(Major >= 3, <<<<"EnableCRTCMemReq", id, TRUE>>>>)
            \o <<<<"BlankCRTC", id, FALSE>>>>
       ELSE When(powered[id], <<<<"BlankCRTC", id, TRUE>>>>)
            \o When(Major >= 3, <<<<"EnableCRTCMemReq", id, FALSE>>>>)
            \o <<<<"EnableCRTC", id, FALSE>>>>)

(* Around the training of a DisplayPort link the code gives the command in *)
(* the place of the pixel clock, and 0 as the command: ATOM_DISABLE.       *)
LinkTraining(c) ==
  When(connector_is_dp(c),
       When(Major >= 4, <<encoder_dig_setup(c, "DISABLE")>>)
       \o <<<<"dp_link_train", c, "">>>>
       \o When(Major >= 4, <<encoder_dig_setup(c, "DISABLE")>>))

CrtcSet(id, mode) ==
  <<<<"SelectCRTC_Source", id, Route(ConnOf(id))>>, <<"SetPixelClock", id, mode>>,
    <<"SetCRTC_UsingDTDTiming", id, mode>>, <<"display_crtc_fb_set", id, mode>>>>

(* Mutant: the encoder is set up before the pixel clock is known. *)
SetDisplayEncoderFirst(id, mode) ==
  <<<<"encoder_output_lock", id, TRUE>>>> \o encoder_dpms_set(id, FALSE)
  \o <<<<"UpdateCRTC_DoubleBufferRegisters", id, TRUE>>>> \o display_crtc_dpms(id, FALSE)
  \o encoder_mode_set(id) \o CrtcSet(id, mode)
  \o display_crtc_dpms(id, TRUE) \o <<<<"UpdateCRTC_DoubleBufferRegisters", id, FALSE>>>>
  \o LinkTraining(ConnOf(id)) \o encoder_dpms_set(id, TRUE)
  \o <<<<"encoder_output_lock", id, FALSE>>>>

(* Mutant: the CRTC is switched on before it is set. *)
SetDisplayOnEarly(id, mode) ==
  <<<<"encoder_output_lock", id, TRUE>>>> \o encoder_dpms_set(id, FALSE)
  \o <<<<"UpdateCRTC_DoubleBufferRegisters", id, TRUE>>>> \o display_crtc_dpms(id, FALSE)
  \o display_crtc_dpms(id, TRUE) \o CrtcSet(id, mode) \o encoder_mode_set(id)
  \o <<<<"UpdateCRTC_DoubleBufferRegisters", id, FALSE>>>>
  \o LinkTraining(ConnOf(id)) \o encoder_dpms_set(id, TRUE)
  \o <<<<"encoder_output_lock", id, FALSE>>>>

(* The body of the loop of radeon_set_display_mode. *)
SetDisplay(id, mode) ==
  <<<<"encoder_output_lock", id, TRUE>>>> \o encoder_dpms_set(id, FALSE)
  \o <<<<"UpdateCRTC_DoubleBufferRegisters", id, TRUE>>>> \o display_crtc_dpms(id, FALSE)
  \o CrtcSet(id, mode) \o encoder_mode_set(id)
  \o display_crtc_dpms(id, TRUE) \o <<<<"UpdateCRTC_DoubleBufferRegisters", id, FALSE>>>>
  \o LinkTraining(ConnOf(id)) \o encoder_dpms_set(id, TRUE)
  \o <<<<"encoder_output_lock", id, FALSE>>>>

-----------------------------------------------------------------------------
(* The calls of the accelerant. *)
radeon_set_display_mode(mode) ==
  /\ todo = <<>>
  /\ todo' = FlattenSeq([k \in 1 .. MAX_DISPLAY |->
                          When(On(k - 1), SetDisplay(k - 1, mode))])
  /\ asked' = [mode |-> mode, on |-> TRUE]
  /\ UNCHANGED <<board, powered, pixelClock, current_mode, dpms_mode, hw>>

radeon_dpms_set(mode) ==
  /\ todo = <<>>
  /\ todo' = FlattenSeq([k \in 1 .. MAX_DISPLAY |->
                          encoder_dpms_set(k - 1, mode = "ON")
                          \o display_crtc_dpms(k - 1, mode = "ON")])
             \o <<<<"dpms_mode", 0, mode>>>>
  /\ asked' = [asked EXCEPT !.on = mode = "ON"]
  /\ UNCHANGED <<board, powered, pixelClock, current_mode, dpms_mode, hw>>

-----------------------------------------------------------------------------
(* The next command is `name'; Which and Arg are its operands.             *)
Is(name) == todo # <<>> /\ Head(todo)[1] = name /\ todo' = Tail(todo)
                        /\ UNCHANGED <<board, asked>>
Which    == Head(todo)[2]
Arg      == Head(todo)[3]

SetDpmsMode ==
  /\ Is("dpms_mode")
  /\ dpms_mode' = Arg
  /\ UNCHANGED <<powered, pixelClock, current_mode, hw>>

encoder_output_lock ==
  /\ Is("encoder_output_lock")
  /\ critical' = Arg
  /\ UNCHANGED <<powered, pixelClock, current_mode, dpms_mode, crtc, clock, dig, phy, out, ext, tvPath>>

(* display_crtc_power, and the flag the caller sets next to it. *)
EnableCRTC ==
  /\ Is("EnableCRTC")
  /\ crtc' = [crtc EXCEPT ![Which].power = Arg]
  /\ powered' = [powered EXCEPT ![Which] = Arg]
  /\ UNCHANGED <<pixelClock, current_mode, dpms_mode, critical, clock, dig, phy, out, ext, tvPath>>

(* The other commands that set one thing of a CRTC. *)
CrtcField ==
  [BlankCRTC |-> "blank", EnableCRTCMemReq |-> "memreq",
   UpdateCRTC_DoubleBufferRegisters |-> "locked",
   SelectCRTC_Source |-> "src", SetCRTC_UsingDTDTiming |-> "timing"]

CrtcCommand ==
  /\ \E name \in DOMAIN CrtcField :
       /\ Is(name)
       /\ crtc' = [crtc EXCEPT ![Which][CrtcField[name]] = Arg]
  /\ UNCHANGED <<powered, pixelClock, current_mode, dpms_mode, critical, clock, dig, phy, out, ext, tvPath>>

(* pll_pick, pll_set: the clock of a DisplayPort link is the link's. *)
ClockFor(c, mode) == IF connector_is_dp(c) THEN "link" ELSE mode

SetPixelClock ==
  /\ Is("SetPixelClock")
  /\ LET c == ConnOf(Which)
     IN  /\ pixelClock' = [pixelClock EXCEPT ![c] = Arg]
         /\ clock' = [clock EXCEPT ![pll_pick(c)] = ClockFor(c, Arg)]
         /\ crtc' = [crtc EXCEPT ![Which].pll = pll_pick(c)]
  /\ UNCHANGED <<powered, current_mode, dpms_mode, critical, dig, phy, out, ext, tvPath>>

(* The framebuffer of the CRTC, and the mode reported to others.  (The     *)
(* scaler, which display_crtc_scale switches off next, is never on.)       *)
display_crtc_fb_set ==
  /\ Is("display_crtc_fb_set")
  /\ crtc' = [crtc EXCEPT ![Which].fb = Arg]
  /\ current_mode' = Arg
  /\ UNCHANGED <<powered, pixelClock, dpms_mode, critical, clock, dig, phy, out, ext, tvPath>>

(* A set-up is for the pixel clock of the connector. *)
DIGxEncoderControl ==
  /\ Is("DIGxEncoderControl")
  /\ dig' = [dig EXCEPT ![encoder_pick_dig(Which)] =
              [cmd  |-> Arg,
               mode |-> IF Arg \in {"SETUP", "ENABLE"} THEN pixelClock[Which] ELSE @.mode]]
  /\ UNCHANGED <<powered, pixelClock, current_mode, dpms_mode, critical, crtc, clock, phy, out, ext, tvPath>>

(* The encoder is selected by ENABLE and SETUP only; 15 is no action. *)
TransmitterControl ==
  /\ Is("TransmitterControl")
  /\ phy' = [phy EXCEPT ![TxPhy(Which)] =
              [on  |-> CASE Arg \in {"ENABLE", "ENABLE_OUTPUT"}   -> TRUE
                         [] Arg \in {"DISABLE", "DISABLE_OUTPUT"} -> FALSE
                         [] OTHER -> @.on,
               dig |-> IF Arg \in {"ENABLE", "SETUP"} THEN encoder_pick_dig(Which) ELSE @.dig]]
  /\ out' = [out EXCEPT ![Which].light =
              IF Arg \in {"LCD_BLON", "LCD_BLOFF"} THEN Arg = "LCD_BLON" ELSE @]
  /\ UNCHANGED <<powered, pixelClock, current_mode, dpms_mode, critical, crtc, clock, dig, ext, tvPath>>

OutputStage ==
  /\ Is("OutputControl")
  /\ out' = IF Arg \in {"LCD_BLON", "LCD_BLOFF"}
            THEN [out EXCEPT ![Which].light = Arg = "LCD_BLON"]
            ELSE [out EXCEPT ![Which].on = Arg = "ENABLE"]
  /\ UNCHANGED <<powered, pixelClock, current_mode, dpms_mode, critical, crtc, clock, dig, phy, ext, tvPath>>

(* DAC, LVDS and TMDS encoders, set up and enabled in one command. *)
EncoderSetup ==
  /\ Is("EncoderControl")
  /\ out' = [out EXCEPT ![Which].mode = pixelClock[Which]]
  /\ UNCHANGED <<powered, pixelClock, current_mode, dpms_mode, critical, crtc, clock, dig, phy, ext, tvPath>>

TVEncoderControl ==
  /\ Is("TVEncoderControl")
  /\ tv' = IF Arg = "ENABLE" THEN pixelClock[Which] ELSE "off"
  /\ UNCHANGED <<powered, pixelClock, current_mode, dpms_mode, critical, crtc, clock, dig, phy, out, ext,
                 interleave>>

WriteDataFormat ==
  /\ Is("modeDataFormat")
  /\ interleave' = [interleave EXCEPT ![Which] = "no"]
  /\ UNCHANGED <<powered, pixelClock, current_mode, dpms_mode, critical, crtc, clock, dig, phy, out, ext,
                 tv>>

ExternalEncoderControl ==
  /\ Is("ExternalEncoderControl")
  /\ ext' = [ext EXCEPT ![Which] =
              [on    |-> CASE Arg \in {"ENABLE", "ENABLE_OUTPUT"}   -> TRUE
                           [] Arg \in {"DISABLE", "DISABLE_OUTPUT"} -> FALSE
                           [] OTHER -> @.on,
               blank |-> CASE Arg = "BLANKING" -> TRUE
                           [] Arg \in {"BLANKING_OFF", "ENABLE"} -> FALSE
                           [] OTHER -> @.blank]]
  /\ UNCHANGED <<powered, pixelClock, current_mode, dpms_mode, critical, crtc, clock, dig, phy, out, tvPath>>

(* The training itself is the subject of DisplayPort. *)
dp_link_train ==
  /\ Is("dp_link_train")
  /\ UNCHANGED <<powered, pixelClock, current_mode, dpms_mode, hw>>

(* The state the BIOS leaves: the attached displays show its own mode.     *)
SettingInit ==
  /\ board \in Boards
  /\ todo = <<>>
  /\ powered = [id \in Display |-> On(id)]
  /\ pixelClock = [c \in Conn |-> "none"]
  /\ current_mode = "none" /\ dpms_mode = "ON" /\ critical = FALSE
  /\ crtc = [id \in Display |->
              [power |-> On(id), blank |-> ~On(id), memreq |-> On(id), locked |-> FALSE,
               timing |-> "boot", fb |-> "boot", pll |-> "PPLL1", src |-> <<"boot", 0>>]]
  /\ clock = [p \in {"PPLL1", "PPLL2", "DCPLL", "INVALID"} |-> "boot"]
  /\ dig = [k \in 0 .. 5 |-> [cmd |-> "SETUP", mode |-> "boot"]]
  /\ phy = [p \in {<<Enc(c), b>> : c \in Conn, b \in 0 .. 1} |-> [on |-> TRUE, dig |-> 0]]
  /\ out = [c \in Conn |-> [on |-> TRUE, light |-> TRUE, mode |-> "boot"]]
  /\ ext = [c \in Conn |-> [on |-> TRUE, blank |-> FALSE]]
  /\ tv = "boot" /\ interleave = [id \in Display |-> "boot"]
  /\ asked = [mode |-> "boot", on |-> TRUE]

Command ==
  \/ SetDpmsMode \/ encoder_output_lock \/ EnableCRTC \/ CrtcCommand \/ SetPixelClock
  \/ display_crtc_fb_set \/ DIGxEncoderControl \/ TransmitterControl \/ OutputStage
  \/ EncoderSetup \/ TVEncoderControl \/ ExternalEncoderControl \/ WriteDataFormat
  \/ dp_link_train

SettingNext ==
  \/ \E mode \in DisplayModes : radeon_set_display_mode(mode)
  \/ \E mode \in {"ON", "STAND_BY", "OFF"} : radeon_dpms_set(mode)
  \/ Command

SettingSpec == SettingInit /\ [][SettingNext]_settingVars

-----------------------------------------------------------------------------
Attached == {id \in Display : On(id)}

(* A CRTC that is not blanked has power and may fetch memory (display.cpp, *)
(* display_crtc_dpms: blank before the requests and the power stop,        *)
(* unblank after both are there, and `powered' decides whether to blank);  *)
(* between two calls `powered' is the truth and nothing is left locked or  *)
(* critical.                                                               *)
SettingInv ==
  /\ \A id \in Attached :
       ~crtc[id].blank => crtc[id].power /\ (Major >= 3 => crtc[id].memreq)
  /\ todo = <<>> =>
       /\ ~critical
       /\ \A id \in Attached : ~crtc[id].locked /\ powered[id] = crtc[id].power

(* Timing, framebuffer, clock source and route of a CRTC change only while *)
(* it is off and its registers are locked, and a DIG encoder is set up for *)
(* a mode only while no CRTC sends through it (mode.cpp:179-206).          *)
QuietChange ==
  [][todo # <<>> =>
     /\ \A id \in Display :
          \/ \A f \in {"timing", "fb", "pll", "src"} : crtc'[id][f] = crtc[id][f]
          \/ ~crtc[id].power /\ crtc[id].locked
     /\ \A k \in DOMAIN dig :
          dig'[k].mode # dig[k].mode =>
            \A id \in Display : crtc[id].src = <<"DIG", k>> => ~crtc[id].power]_settingVars

(* The commands reach the transmitters they are meant for: an attached     *)
(* connector on link B has an external encoder on link B (encoder.cpp:1225).*)
Reached == \A id \in Attached : TxPhy(ConnOf(id)) = Phy(ConnOf(id))

Sends(c) ==
  /\ IF Enc(c) \in Digital THEN phy[Phy(c)].on ELSE out[c].on
  /\ board.conn[c].ext => ext[c].on /\ ~ext[c].blank

(* After a call every attached display is as asked: its CRTC, its encoder, *)
(* the transmitter and the external encoder are on or off together, the    *)
(* whole path from the CRTC to the connector is routed and set up for the  *)
(* one mode that is also reported, and its PLL makes its clock unless a     *)
(* display of the other kind was set to the same PLL after it.  The TV     *)
(* encoder is as the last analog display wants it, which takes it away from *)
(* a TV before it (encoder.cpp:312).                                       *)
ShownIsSet ==
  todo = <<>> =>
    \A id \in Attached :
      LET c == ConnOf(id)
      IN  /\ crtc[id].power = asked.on /\ crtc[id].blank = ~asked.on
          /\ Reached /\ Enc(c) # "KLDSCP_DVO1" => Sends(c) = asked.on
          /\ asked.mode # "boot" =>
               /\ crtc[id].timing = asked.mode /\ crtc[id].fb = asked.mode
               /\ current_mode = asked.mode
               /\ crtc[id].src = Route(c)
               /\ Enc(c) \in Digital => dig[encoder_pick_dig(c)].mode = asked.mode
               /\ Enc(c) \in Digital /\ Reached => phy[Phy(c)].dig = encoder_pick_dig(c)
               /\ Enc(c) \in Analog \cup Panel => out[c].mode = asked.mode
               /\ Major >= 3 /\ board.conn[c].tv # "TV" => interleave[id] = "no"
               /\ Enc(c) \in Analog /\ Major < 5 =>
                    \/ tv = IF board.conn[c].tv = "none" THEN "off" ELSE asked.mode
                    \/ \E k \in Attached : k > id /\ Enc(ConnOf(k)) \in Analog
               /\ \/ clock[crtc[id].pll] = ClockFor(c, asked.mode)
                  \/ \E k \in Attached : k > id /\ pll_pick(ConnOf(k)) = crtc[id].pll
                                         /\ connector_is_dp(ConnOf(k)) # connector_is_dp(c)

(* When a link is about to be trained its DIG encoder was told to send no  *)
(* video: the calls around dp_link_train name the commands DP_VIDEO_OFF    *)
(* and DP_VIDEO_ON (mode.cpp:213).                                         *)
VideoOffWhileTraining ==
  todo # <<>> /\ Head(todo)[1] = "dp_link_train" /\ Major >= 4 =>
    dig[encoder_pick_dig(Head(todo)[2])].cmd = "DP_VIDEO_OFF"
=============================================================================
