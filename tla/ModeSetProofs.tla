---------------------------- MODULE ModeSetProofs ----------------------------
(***************************************************************************)
(* ModeSet is quiet for every set of boards and modes: what a CRTC shows    *)
(* and what a DIG encoder is set up for change only while the CRTC is off.  *)
(*                                                                         *)
(* What still has to be done is a sequence of commands, so the argument is  *)
(* about sequences: a command that needs the CRTC off has, among those      *)
(* before it, one that turns it off and after that none that turns it on,   *)
(* or the CRTC is off now and none before it turns it on (Held).  Executing *)
(* the first command keeps this of the rest.  At the beginning of a call it *)
(* holds by the order in which SetDisplay does things.                     *)
(*                                                                         *)
(* The same relation says that a CRTC is shown only while it is powered and *)
(* may fetch memory, and that no lock outlives a call: turning the power or *)
(* the requests off has the CRTC blanked before it, unblanking it has them  *)
(* on, and at the end of what remains to be done every lock is given back.  *)
(***************************************************************************)
EXTENDS ModeSet, SequenceTheorems, TLAPS

(* Before place p of s, the last command of on or off is one of off; or     *)
(* there is none and what off brings about is true now.                    *)
Held(s, p, on, off, now) ==
  \/ \E q \in 1 .. p - 1 : s[q] \in off /\ \A r \in q + 1 .. p - 1 : s[r] \notin on
  \/ now /\ \A q \in 1 .. p - 1 : s[q] \notin on

(* The same of all of s, which has one of off.                             *)
Leaves(s, on, off) ==
  \E q \in 1 .. Len(s) : s[q] \in off /\ \A r \in q + 1 .. Len(s) : s[r] \notin on

-----------------------------------------------------------------------------
(* Sequences.                                                              *)
LEMMA Joined ==
  ASSUME NEW S, NEW s \in Seq(S), NEW t \in Seq(S)
  PROVE  /\ s \o t \in Seq(S) /\ Len(s \o t) = Len(s) + Len(t)
         /\ Len(s) \in Nat /\ Len(t) \in Nat
         /\ \A i \in 1 .. Len(s) : (s \o t)[i] = s[i]
         /\ \A i \in Len(s) + 1 .. Len(s) + Len(t) : (s \o t)[i] = t[i - Len(s)]
  OBVIOUS

LEMMA Members ==
  ASSUME NEW S, NEW s \in Seq(S)
  PROVE  Len(s) \in Nat /\ \A i \in 1 .. Len(s) : s[i] \in S
  OBVIOUS

LEMMA HeldIf ==
  ASSUME NEW s, NEW p, NEW on, NEW off, NEW now, NEW q \in 1 .. p - 1,
         s[q] \in off, \A r \in q + 1 .. p - 1 : s[r] \notin on
  PROVE  Held(s, p, on, off, now)
BY DEF Held

(* What is held before the second command is held before the rest's first. *)
LEMMA HeldNext ==
  ASSUME NEW S, NEW s \in Seq(S), s # <<>>, NEW p \in 2 .. Len(s) + 1,
         NEW on, NEW off, NEW now, NEW later,
         Held(s, p, on, off, now),
         Head(s) \in off => later, now /\ Head(s) \notin on => later
  PROVE  Held(Tail(s), p - 1, on, off, later)
<1>1. /\ Len(s) \in Nat /\ p \in Nat /\ Head(s) = s[1]
      /\ \A i \in 1 .. Len(s) - 1 : Tail(s)[i] = s[i + 1]
  OBVIOUS
<1>2. ASSUME NEW q \in 1 .. p - 1, s[q] \in off, \A r \in q + 1 .. p - 1 : s[r] \notin on
      PROVE  Held(Tail(s), p - 1, on, off, later)
  <2>1. CASE q = 1
    <3>1. later
      BY <1>1, <1>2, <2>1
    <3>2. \A r \in 1 .. p - 1 - 1 : Tail(s)[r] \notin on
      <4> SUFFICES ASSUME NEW r \in 1 .. p - 1 - 1 PROVE Tail(s)[r] \notin on
        OBVIOUS
      <4>1. r \in 1 .. Len(s) - 1 /\ r + 1 \in q + 1 .. p - 1
        BY <1>1, <2>1
      <4> QED BY <4>1, <1>1, <1>2
    <3> QED BY <3>1, <3>2 DEF Held
  <2>2. CASE q > 1
    <3>1. q - 1 \in 1 .. p - 1 - 1 /\ q - 1 \in 1 .. Len(s) - 1 /\ (q - 1) + 1 = q
      BY <1>1, <2>2
    <3>2. Tail(s)[q - 1] \in off
      BY <3>1, <1>1, <1>2
    <3>3. \A r \in q - 1 + 1 .. p - 1 - 1 : Tail(s)[r] \notin on
      <4> SUFFICES ASSUME NEW r \in q - 1 + 1 .. p - 1 - 1 PROVE Tail(s)[r] \notin on
        OBVIOUS
      <4>1. r \in 1 .. Len(s) - 1 /\ r + 1 \in q + 1 .. p - 1
        BY <1>1, <2>2
      <4> QED BY <4>1, <1>1, <1>2
    <3> QED BY <3>1, <3>2, <3>3 DEF Held
  <2> QED BY <2>1, <2>2
<1>3. ASSUME now, \A q \in 1 .. p - 1 : s[q] \notin on
      PROVE  Held(Tail(s), p - 1, on, off, later)
  <2>1. 1 \in 1 .. p - 1
    OBVIOUS
  <2>2. later
    BY <2>1, <1>1, <1>3
  <2>3. \A r \in 1 .. p - 1 - 1 : Tail(s)[r] \notin on
    <3> SUFFICES ASSUME NEW r \in 1 .. p - 1 - 1 PROVE Tail(s)[r] \notin on
      OBVIOUS
    <3>1. r \in 1 .. Len(s) - 1 /\ r + 1 \in 1 .. p - 1
      BY <1>1
    <3> QED BY <3>1, <1>1, <1>3
  <2> QED BY <2>2, <2>3 DEF Held
<1> QED BY <1>2, <1>3 DEF Held

LEMMA HeldFirst ==
  ASSUME NEW s, NEW on, NEW off, NEW now, Held(s, 1, on, off, now)
  PROVE  now
<1>1. 1 .. 1 - 1 = {}
  OBVIOUS
<1> QED BY <1>1 DEF Held

(* What s leaves, t behind it leaves too unless it has one of on; and what  *)
(* t leaves, it leaves whatever was before.                                *)
LEMMA LeavesThen ==
  ASSUME NEW S, NEW on, NEW off, NEW s \in Seq(S), NEW t \in Seq(S),
         Leaves(s, on, off), \A i \in 1 .. Len(t) : t[i] \notin on
  PROVE  Leaves(s \o t, on, off)
<1>1. PICK q \in 1 .. Len(s) : s[q] \in off /\ \A r \in q + 1 .. Len(s) : s[r] \notin on
  BY DEF Leaves
<1>2. /\ Len(s) \in Nat /\ Len(t) \in Nat /\ Len(s \o t) = Len(s) + Len(t)
      /\ \A i \in 1 .. Len(s) : (s \o t)[i] = s[i]
      /\ \A i \in Len(s) + 1 .. Len(s) + Len(t) : (s \o t)[i] = t[i - Len(s)]
  BY Joined
<1>3. q \in 1 .. Len(s \o t) /\ (s \o t)[q] \in off
  BY <1>1, <1>2
<1>4. ASSUME NEW r \in q + 1 .. Len(s \o t) PROVE (s \o t)[r] \notin on
  <2>1. CASE r <= Len(s)
    BY <2>1, <1>1, <1>2
  <2>2. CASE r > Len(s)
    <3>1. r \in Len(s) + 1 .. Len(s) + Len(t) /\ r - Len(s) \in 1 .. Len(t)
      BY <2>2, <1>2
    <3> QED BY <3>1, <1>2
  <2> QED BY <2>1, <2>2, <1>2
<1> QED BY <1>3, <1>4 DEF Leaves

LEMMA LeavesLast ==
  ASSUME NEW S, NEW on, NEW off, NEW s \in Seq(S), NEW t \in Seq(S), Leaves(t, on, off)
  PROVE  Leaves(s \o t, on, off)
<1>1. PICK q \in 1 .. Len(t) : t[q] \in off /\ \A r \in q + 1 .. Len(t) : t[r] \notin on
  BY DEF Leaves
<1>2. /\ Len(s) \in Nat /\ Len(t) \in Nat /\ Len(s \o t) = Len(s) + Len(t)
      /\ \A i \in Len(s) + 1 .. Len(s) + Len(t) : (s \o t)[i] = t[i - Len(s)]
  BY Joined
<1>3. /\ Len(s) + q \in Len(s) + 1 .. Len(s) + Len(t) /\ Len(s) + q - Len(s) = q
      /\ Len(s) + q \in 1 .. Len(s \o t)
  BY <1>2
<1>4. (s \o t)[Len(s) + q] \in off
  BY <1>1, <1>2, <1>3
<1>5. ASSUME NEW r \in Len(s) + q + 1 .. Len(s \o t) PROVE (s \o t)[r] \notin on
  <2>1. r \in Len(s) + 1 .. Len(s) + Len(t) /\ r - Len(s) \in q + 1 .. Len(t)
    BY <1>2
  <2> QED BY <2>1, <1>1, <1>2
<1> QED BY <1>3, <1>4, <1>5 DEF Leaves

LEMMA LeavesOne ==
  ASSUME NEW on, NEW off, NEW t \in off PROVE Leaves(<<t>>, on, off)
<1>1. Len(<<t>>) = 1 /\ <<t>>[1] = t /\ 1 + 1 .. 1 = {}
  OBVIOUS
<1> QED BY <1>1 DEF Leaves

(* A place in t behind s at which something is held.                       *)
LEMMA HeldBehind ==
  ASSUME NEW S, NEW on, NEW off, NEW s \in Seq(S), NEW t \in Seq(S), NEW now,
         NEW p \in 1 .. Len(t) + 1, NEW x, x = Len(s) + p, NEW u, u = s \o t,
         Leaves(s, on, off), \A i \in 1 .. p - 1 : t[i] \notin on
  PROVE  Held(u, x, on, off, now)
<1>1. PICK q \in 1 .. Len(s) : s[q] \in off /\ \A r \in q + 1 .. Len(s) : s[r] \notin on
  BY DEF Leaves
<1>2. /\ Len(s) \in Nat /\ Len(t) \in Nat
      /\ \A i \in 1 .. Len(s) : u[i] = s[i]
      /\ \A i \in Len(s) + 1 .. Len(s) + Len(t) : u[i] = t[i - Len(s)]
  BY Joined
<1>3. q \in 1 .. x - 1 /\ u[q] \in off
  BY <1>1, <1>2
<1>4. ASSUME NEW r \in q + 1 .. x - 1 PROVE u[r] \notin on
  <2>1. CASE r <= Len(s)
    BY <2>1, <1>1, <1>2
  <2>2. CASE r > Len(s)
    <3>1. r \in Len(s) + 1 .. Len(s) + Len(t) /\ r - Len(s) \in 1 .. p - 1
      BY <2>2, <1>2
    <3> QED BY <3>1, <1>2
  <2> QED BY <2>1, <2>2, <1>2
<1> QED BY <1>3, <1>4, HeldIf

-----------------------------------------------------------------------------
(* The commands: those that switch something on or off or tell an encoder   *)
(* so, and those that change what an attached display shows.               *)
Switches == {"EnableCRTC", "BlankCRTC", "EnableCRTCMemReq", "UpdateCRTC_DoubleBufferRegisters"}
Told     == {"DIGxEncoderControl", "TransmitterControl", "ExternalEncoderControl",
             "OutputControl", "EncoderControl", "TVEncoderControl", "modeDataFormat", "dp_link_train"}

Orders   == {"ENABLE", "DISABLE", "ENABLE_OUTPUT", "DISABLE_OUTPUT", "SETUP", "SETUP_PANEL_MODE",
             "ENCODER_SETUP", "DP_VIDEO_OFF", "DP_VIDEO_ON", "LCD_BLON", "LCD_BLOFF", "BLANKING",
             "BLANKING_OFF", "15", ""}

SetsUp(t) == t[1] = "DIGxEncoderControl" /\ t[3] \in {"SETUP", "ENABLE"}

Tells  == {t \in Told \X (Conn \cup Display) \X Orders : ~SetsUp(t)}
Others == (Switches \X Display \X BOOLEAN) \cup ({"encoder_output_lock"} \X Display \X BOOLEAN)
          \cup ({"dpms_mode"} \X {0} \X {"ON", "STAND_BY", "OFF"}) \cup Tells

Selects(id) ==
  ({"SelectCRTC_Source"} \X {id} \X {Route(ConnOf(id))})
  \cup ({"SetPixelClock", "SetCRTC_UsingDTDTiming", "display_crtc_fb_set"} \X {id} \X DisplayModes)
SetUps(id) ==
  {t \in {"DIGxEncoderControl"} \X {ConnOf(id)} \X {"SETUP", "ENABLE"} : Enc(ConnOf(id)) \in Digital}
Changes(id) == Selects(id) \cup SetUps(id)

PowerOn(id)  == {<<"EnableCRTC", id, TRUE>>}
PowerOff(id) == {<<"EnableCRTC", id, FALSE>>}
Lock(id)     == {<<"UpdateCRTC_DoubleBufferRegisters", id, TRUE>>}
Unlock(id)   == {<<"UpdateCRTC_DoubleBufferRegisters", id, FALSE>>}

(* A sequence in which every change comes while its CRTC is off and locked, *)
(* whatever was before.                                                    *)
SafeAt(s, p) ==
  \/ s[p] \in Others
  \/ \E id \in Attached : /\ s[p] \in Changes(id)
                          /\ Held(s, p, PowerOn(id), PowerOff(id), FALSE)
                          /\ Held(s, p, Unlock(id), Lock(id), FALSE)
Commands == Others \cup UNION {Changes(id) : id \in Attached}
Safe(s)  == s \in Seq(Commands) /\ \A p \in 1 .. Len(s) : SafeAt(s, p)

-----------------------------------------------------------------------------
(* What the functions of the code consist of.                              *)
LEMMA One == ASSUME NEW S, NEW t \in S PROVE <<t>> \in Seq(S) /\ <<t>> # <<>>
OBVIOUS

LEMMA Two == ASSUME NEW S, NEW t \in S, NEW u \in S PROVE <<t, u>> \in Seq(S)
OBVIOUS

LEMMA WhenIs ==
  ASSUME NEW S, NEW cond, NEW s \in Seq(S) PROVE When(cond, s) \in Seq(S)
BY DEF When

LEMMA Tell ==
  ASSUME NEW n \in Told, NEW c \in Conn \cup Display, NEW a \in Orders,
         n = "DIGxEncoderControl" => a \notin {"SETUP", "ENABLE"}
  PROVE  <<n, c, a>> \in Tells
BY DEF Tells, SetsUp

LEMMA TellsIs ==
  ASSUME NEW c \in Conn
  PROVE  /\ \A a \in Orders \ {"SETUP", "ENABLE"} : encoder_dig_setup(c, a) \in Tells
         /\ \A a \in Orders : /\ transmitter_dig_setup(c, a) \in Tells
                              /\ encoder_external_setup(c, a) \in Tells
                              /\ OutputControl(c, a) \in Tells
                              /\ encoder_tv_setup(c, a) \in Tells
         /\ EncoderControl(c) \in Tells
<1>1. \A a \in Orders \ {"SETUP", "ENABLE"} : encoder_dig_setup(c, a) \in Tells
  BY Tell DEF Told, encoder_dig_setup
<1>2. \A a \in Orders : transmitter_dig_setup(c, a) \in Tells
  BY Tell DEF Told, transmitter_dig_setup
<1>3. \A a \in Orders : encoder_external_setup(c, a) \in Tells
  BY Tell DEF Told, encoder_external_setup
<1>4. \A a \in Orders : OutputControl(c, a) \in Tells
  BY Tell DEF Told, OutputControl
<1>5. EncoderControl(c) \in Tells
  BY Tell DEF Told, Orders, EncoderControl
<1>6. \A a \in Orders : encoder_tv_setup(c, a) \in Tells
  BY Tell DEF Told, encoder_tv_setup
<1> QED BY <1>1, <1>2, <1>3, <1>4, <1>5, <1>6

LEMMA DpmsDig ==
  ASSUME NEW c \in Conn, NEW on \in BOOLEAN
  PROVE  encoder_dpms_set_dig(c, on) \in Seq(Tells)
<1>1. \A a \in Orders : <<transmitter_dig_setup(c, a)>> \in Seq(Tells)
  BY TellsIs, One
<1>2. /\ <<encoder_dig_setup(c, "DP_VIDEO_OFF")>> \in Seq(Tells)
      /\ <<encoder_dig_setup(c, "DP_VIDEO_OFF"), encoder_dig_setup(c, "DP_VIDEO_ON")>> \in Seq(Tells)
  <2>1. {"DP_VIDEO_OFF", "DP_VIDEO_ON"} \subseteq Orders \ {"SETUP", "ENABLE"}
    BY DEF Orders
  <2>2. encoder_dig_setup(c, "DP_VIDEO_OFF") \in Tells /\ encoder_dig_setup(c, "DP_VIDEO_ON") \in Tells
    BY <2>1, TellsIs
  <2> QED BY <2>2, One, Two
<1>3. {"15", "ENABLE", "ENABLE_OUTPUT", "DISABLE", "DISABLE_OUTPUT", "LCD_BLON", "LCD_BLOFF"} \subseteq Orders
  BY DEF Orders
<1> DEFINE whole == board.apu \/ Major >= 5
<1>4. CASE on
  <2>1. When(Major >= 6, <<transmitter_dig_setup(c, "15")>>) \in Seq(Tells)
    BY <1>1, <1>3, WhenIs
  <2>2. <<transmitter_dig_setup(c, IF whole \/ board.chip = "RV710"
                                   THEN "ENABLE" ELSE "ENABLE_OUTPUT")>> \in Seq(Tells)
    BY <1>1, <1>3
  <2>3. When(connector_is_dp(c) /\ Major >= 4,
             <<encoder_dig_setup(c, "DP_VIDEO_OFF"), encoder_dig_setup(c, "DP_VIDEO_ON")>>) \in Seq(Tells)
    BY <1>2, WhenIs
  <2>4. When(board.conn[c].lcd, <<transmitter_dig_setup(c, "LCD_BLON")>>) \in Seq(Tells)
    BY <1>1, <1>3, WhenIs
  <2> QED BY <1>4, <2>1, <2>2, <2>3, <2>4, ConcatProperties DEF encoder_dpms_set_dig
<1>5. CASE ~on
  <2>1. <<transmitter_dig_setup(c, IF whole THEN "DISABLE" ELSE "DISABLE_OUTPUT")>> \in Seq(Tells)
    BY <1>1, <1>3
  <2>2. When(connector_is_dp(c) /\ Major >= 4, <<encoder_dig_setup(c, "DP_VIDEO_OFF")>>) \in Seq(Tells)
    BY <1>2, WhenIs
  <2>3. When(board.conn[c].lcd, <<transmitter_dig_setup(c, "LCD_BLOFF")>>) \in Seq(Tells)
    BY <1>1, <1>3, WhenIs
  <2> QED BY <1>5, <2>1, <2>2, <2>3, ConcatProperties DEF encoder_dpms_set_dig
<1> QED BY <1>4, <1>5

LEMMA DpmsExternal ==
  ASSUME NEW c \in Conn, NEW on \in BOOLEAN, board.apu \in BOOLEAN
  PROVE  encoder_dpms_set_external(c, on) \in Seq(Tells)
<1>1. \A a, b \in Orders : <<encoder_external_setup(c, a), encoder_external_setup(c, b)>> \in Seq(Tells)
  BY TellsIs, Two
<1>2. \A a \in Orders : <<encoder_external_setup(c, a)>> \in Seq(Tells)
  BY TellsIs, One
<1>3. {"ENABLE_OUTPUT", "BLANKING_OFF", "BLANKING", "DISABLE_OUTPUT", "ENABLE", "DISABLE"} \subseteq Orders
  BY DEF Orders
<1> QED BY <1>1, <1>2, <1>3 DEF encoder_dpms_set_external

LEMMA DpmsTells ==
  ASSUME NEW id \in Display, ConnOf(id) \in Conn, NEW on \in BOOLEAN, board.apu \in BOOLEAN
  PROVE  encoder_dpms_set(id, on) \in Seq(Tells)
<1> DEFINE c == ConnOf(id)
<1>1. encoder_dpms_set_dig(c, on) \in Seq(Tells) /\ encoder_dpms_set_external(c, on) \in Seq(Tells)
  BY DpmsDig, DpmsExternal
<1>2. \A a \in Orders : <<OutputControl(c, a)>> \in Seq(Tells)
  BY TellsIs, One
<1>3. <<>> \in Seq(Tells)
  OBVIOUS
<1>4. {"ENABLE", "DISABLE", "LCD_BLON", "LCD_BLOFF"} \subseteq Orders
  BY DEF Orders
<1> QED
  BY <1>1, <1>2, <1>3, <1>4, WhenIs, ConcatProperties DEF encoder_dpms_set

LEMMA ModeSetTells ==
  ASSUME NEW id \in Display, ConnOf(id) \in Conn, board.apu \in BOOLEAN
  PROVE  encoder_mode_set(id) \in Seq(Tells \cup SetUps(id))
<1> DEFINE c == ConnOf(id)
           X == Tells \cup SetUps(id)
           tx(a) == transmitter_dig_setup(c, a)
           enc(a) == encoder_dig_setup(c, a)
<1>1. {"SETUP", "ENABLE", "DISABLE", "SETUP_PANEL_MODE", "ENCODER_SETUP"} \subseteq Orders
  BY DEF Orders
<1>2. /\ tx("DISABLE") \in X /\ tx("ENABLE") \in X /\ tx("SETUP") \in X
      /\ enc("DISABLE") \in X /\ enc("SETUP_PANEL_MODE") \in X /\ EncoderControl(c) \in X
      /\ encoder_external_setup(c, "ENCODER_SETUP") \in X /\ encoder_external_setup(c, "ENABLE") \in X
  BY <1>1, TellsIs
<1>3. Enc(c) \in Digital => enc("SETUP") \in X /\ enc("ENABLE") \in X
  BY DEF SetUps, encoder_dig_setup
<1>4. <<EncoderControl(c)>> \in Seq(X) /\ <<>> \in Seq(X)
  BY <1>2
<1>5. \A cond, off : When(cond, <<encoder_tv_setup(c, IF off THEN "DISABLE" ELSE "ENABLE")>>) \in Seq(X)
  <2> SUFFICES ASSUME NEW cond, NEW off
               PROVE  When(cond, <<encoder_tv_setup(c, IF off THEN "DISABLE" ELSE "ENABLE")>>) \in Seq(X)
    OBVIOUS
  <2>1. encoder_tv_setup(c, IF off THEN "DISABLE" ELSE "ENABLE") \in X
    BY <1>1, TellsIs
  <2> HIDE DEF X
  <2> QED BY <2>1, One, WhenIs
<1>6. encoder_apply_quirks(id) \in Seq(X)
  <2>1. <<"modeDataFormat", id, "">> \in X
    BY Tell DEF Told, Orders
  <2> HIDE DEF X
  <2> QED BY <2>1, One, WhenIs DEF encoder_apply_quirks
<1>7. Enc(c) \in Digital =>
        /\ <<enc("SETUP"), enc("SETUP_PANEL_MODE")>> \in Seq(X)
        /\ <<tx("DISABLE"), enc("SETUP"), tx("ENABLE")>> \in Seq(X)
        /\ <<tx("DISABLE"), enc("DISABLE"), enc("ENABLE"), tx("SETUP"), tx("ENABLE")>> \in Seq(X)
  <2> SUFFICES ASSUME Enc(c) \in Digital
               PROVE  /\ <<enc("SETUP"), enc("SETUP_PANEL_MODE")>> \in Seq(X)
                      /\ <<tx("DISABLE"), enc("SETUP"), tx("ENABLE")>> \in Seq(X)
                      /\ <<tx("DISABLE"), enc("DISABLE"), enc("ENABLE"), tx("SETUP"), tx("ENABLE")>> \in Seq(X)
    OBVIOUS
  <2>1. enc("SETUP") \in X /\ enc("ENABLE") \in X
    BY <1>3
  <2> HIDE DEF X, tx, enc
  <2> QED BY <2>1, <1>2
<1>8. When(board.conn[c].ext,
           <<encoder_external_setup(c, IF board.apu THEN "ENCODER_SETUP" ELSE "ENABLE")>>) \in Seq(X)
  <2>1. encoder_external_setup(c, IF board.apu THEN "ENCODER_SETUP" ELSE "ENABLE") \in X
    BY <1>2
  <2> HIDE DEF X
  <2> QED BY <2>1, One, WhenIs
<1> HIDE DEF X
<1>9. encoder_mode_set(id) \in Seq(X)
  BY <1>4, <1>7, <1>8, <1>5, <1>6, ConcatProperties DEF encoder_mode_set
<1> QED BY <1>9 DEF X

(* What is held at a place of a sequence is held there when more follows,   *)
(* and where it comes behind others.                                       *)
LEMMA HeldBefore ==
  ASSUME NEW S, NEW on, NEW off, NEW now, NEW s \in Seq(S), NEW t \in Seq(S), NEW u, u = s \o t,
         NEW p \in 1 .. Len(s), Held(s, p, on, off, now)
  PROVE  Held(u, p, on, off, now) /\ u[p] = s[p]
<1>1. Len(s) \in Nat /\ \A i \in 1 .. Len(s) : u[i] = s[i]
  BY Joined
<1>2. \A i \in 1 .. p - 1 : u[i] = s[i]
  BY <1>1
<1>3. ASSUME NEW q \in 1 .. p - 1, s[q] \in off, \A r \in q + 1 .. p - 1 : s[r] \notin on
      PROVE  Held(u, p, on, off, now)
  <2>1. u[q] \in off /\ \A r \in q + 1 .. p - 1 : u[r] \notin on
    BY <1>2, <1>3
  <2> QED BY <2>1, HeldIf
<1>4. ASSUME now, \A q \in 1 .. p - 1 : s[q] \notin on
      PROVE  Held(u, p, on, off, now)
  BY <1>2, <1>4 DEF Held
<1> QED BY <1>1, <1>3, <1>4 DEF Held

LEMMA HeldAfter ==
  ASSUME NEW S, NEW on, NEW off, NEW s \in Seq(S), NEW t \in Seq(S), NEW u, u = s \o t,
         NEW p \in 1 .. Len(t), NEW x, x = Len(s) + p, Held(t, p, on, off, FALSE)
  PROVE  Held(u, x, on, off, FALSE) /\ u[x] = t[p]
<1>1. /\ Len(s) \in Nat /\ Len(t) \in Nat
      /\ \A i \in Len(s) + 1 .. Len(s) + Len(t) : u[i] = t[i - Len(s)]
  BY Joined
<1>2. PICK q \in 1 .. p - 1 : t[q] \in off /\ \A r \in q + 1 .. p - 1 : t[r] \notin on
  BY DEF Held
<1>3. /\ Len(s) + q \in 1 .. x - 1 /\ Len(s) + q \in Len(s) + 1 .. Len(s) + Len(t)
      /\ Len(s) + q - Len(s) = q /\ x \in Len(s) + 1 .. Len(s) + Len(t) /\ x - Len(s) = p
  BY <1>1
<1>4. u[Len(s) + q] \in off
  BY <1>1, <1>2, <1>3
<1>5. ASSUME NEW r \in Len(s) + q + 1 .. x - 1 PROVE u[r] \notin on
  <2>1. r \in Len(s) + 1 .. Len(s) + Len(t) /\ r - Len(s) \in q + 1 .. p - 1
    BY <1>1
  <2> QED BY <2>1, <1>1, <1>2
<1>6. PICK y \in 1 .. x - 1 : y = Len(s) + q
  BY <1>3
<1>7. u[y] \in off /\ \A r \in y + 1 .. x - 1 : u[r] \notin on
  BY <1>4, <1>5, <1>6
<1> QED BY <1>7, <1>1, <1>3, HeldIf

(* Two safe sequences are safe one behind the other; other commands always  *)
(* are; and changes of a display are behind what turned it off.            *)
LEMMA SafeConcat ==
  ASSUME NEW s, NEW t, Safe(s), Safe(t) PROVE Safe(s \o t)
<1> DEFINE u == s \o t
<1>1. /\ s \in Seq(Commands) /\ t \in Seq(Commands) /\ u \in Seq(Commands)
      /\ Len(u) = Len(s) + Len(t) /\ Len(s) \in Nat /\ Len(t) \in Nat
      /\ \A i \in 1 .. Len(s) : u[i] = s[i]
      /\ \A i \in Len(s) + 1 .. Len(s) + Len(t) : u[i] = t[i - Len(s)]
  BY Joined DEF Safe
<1>2. PICK v : v = u
  OBVIOUS
<1>3. ASSUME NEW p \in 1 .. Len(s) PROVE SafeAt(v, p)
  <2>1. SafeAt(s, p) /\ v[p] = s[p]
    BY <1>1, <1>2 DEF Safe
  <2>2. ASSUME NEW on, NEW off, Held(s, p, on, off, FALSE) PROVE Held(v, p, on, off, FALSE)
    BY <1>1, <1>2, <2>2, HeldBefore
  <2> QED BY <2>1, <2>2 DEF SafeAt
<1>4. ASSUME NEW p \in 1 .. Len(t), NEW x, x = Len(s) + p PROVE SafeAt(v, x)
  <2>1. SafeAt(t, p)
    BY DEF Safe
  <2>2. x \in Len(s) + 1 .. Len(s) + Len(t) /\ x - Len(s) = p
    BY <1>1, <1>4
  <2>3. v[x] = t[p]
    BY <1>1, <1>2, <2>2
  <2>4. ASSUME NEW on, NEW off, Held(t, p, on, off, FALSE) PROVE Held(v, x, on, off, FALSE)
    BY <1>1, <1>2, <1>4, <2>4, HeldAfter
  <2> QED BY <2>1, <2>3, <2>4 DEF SafeAt
<1>5. ASSUME NEW x \in 1 .. Len(u) PROVE SafeAt(v, x)
  <2>1. CASE x <= Len(s)
    BY <1>1, <1>3, <2>1
  <2>2. CASE x > Len(s)
    <3>1. x - Len(s) \in 1 .. Len(t) /\ x = Len(s) + (x - Len(s))
      BY <1>1, <2>2
    <3> QED BY <3>1, <1>4
  <2> QED BY <1>1, <2>1, <2>2
<1> QED BY <1>1, <1>2, <1>5 DEF Safe

LEMMA SafeOthers ==
  ASSUME NEW s \in Seq(Others) PROVE Safe(s)
<1>1. s \in Seq(Commands) /\ \A p \in 1 .. Len(s) : s[p] \in Others
  BY DEF Commands
<1> QED BY <1>1 DEF Safe, SafeAt

LEMMA NotSwitched ==
  ASSUME NEW id \in Display, NEW t \in Tells \cup Changes(id)
  PROVE  t \notin PowerOn(id) /\ t \notin Unlock(id)
<1>1. t \in Tells => t[1] \in Told
  BY DEF Tells
<1>2. t \in SetUps(id) => t[1] = "DIGxEncoderControl"
  BY DEF SetUps
<1>3. t \in Selects(id) =>
        t[1] \in {"SelectCRTC_Source", "SetPixelClock", "SetCRTC_UsingDTDTiming", "display_crtc_fb_set"}
  BY DEF Selects
<1>4. t[1] # "EnableCRTC" /\ t[1] # "UpdateCRTC_DoubleBufferRegisters"
  BY <1>1, <1>2, <1>3 DEF Told, Changes
<1>5. /\ <<"EnableCRTC", id, TRUE>>[1] = "EnableCRTC"
      /\ <<"UpdateCRTC_DoubleBufferRegisters", id, FALSE>>[1] = "UpdateCRTC_DoubleBufferRegisters"
  OBVIOUS
<1>6. t # <<"EnableCRTC", id, TRUE>> /\ t # <<"UpdateCRTC_DoubleBufferRegisters", id, FALSE>>
  BY <1>4, <1>5
<1> QED BY <1>6 DEF PowerOn, Unlock

LEMMA SafeThen ==
  ASSUME NEW id \in Attached, NEW s, Safe(s), NEW t \in Seq(Tells \cup Changes(id)),
         Leaves(s, PowerOn(id), PowerOff(id)), Leaves(s, Unlock(id), Lock(id))
  PROVE  /\ Safe(s \o t)
         /\ Leaves(s \o t, PowerOn(id), PowerOff(id)) /\ Leaves(s \o t, Unlock(id), Lock(id))
<1>1. id \in Display
  BY DEF Attached
<1>2. Tells \cup Changes(id) \subseteq Commands
  BY DEF Commands, Others
<1>3. t \in Seq(Commands) /\ s \in Seq(Commands)
  BY <1>2 DEF Safe
<1>4. Len(t) \in Nat /\ \A i \in 1 .. Len(t) : t[i] \in Tells \cup Changes(id)
  BY Members
<1>5. \A i \in 1 .. Len(t) : t[i] \notin PowerOn(id) /\ t[i] \notin Unlock(id)
  BY <1>1, <1>4, NotSwitched
<1>6. PICK v : v = s \o t
  OBVIOUS
<1>7. /\ v \in Seq(Commands)
      /\ Len(v) = Len(s) + Len(t) /\ Len(s) \in Nat /\ Len(t) \in Nat
      /\ \A i \in 1 .. Len(s) : v[i] = s[i]
      /\ \A i \in Len(s) + 1 .. Len(s) + Len(t) : v[i] = t[i - Len(s)]
  BY Joined, <1>3, <1>6
<1>8. ASSUME NEW p \in 1 .. Len(s) PROVE SafeAt(v, p)
  <2>1. SafeAt(s, p) /\ v[p] = s[p]
    BY <1>7 DEF Safe
  <2>2. ASSUME NEW on, NEW off, Held(s, p, on, off, FALSE) PROVE Held(v, p, on, off, FALSE)
    BY <1>3, <1>6, <2>2, HeldBefore
  <2> QED BY <2>1, <2>2 DEF SafeAt
<1>9. ASSUME NEW p \in 1 .. Len(t), NEW x, x = Len(s) + p PROVE SafeAt(v, x)
  <2>1. x \in Len(s) + 1 .. Len(s) + Len(t) /\ x - Len(s) = p
    BY <1>7, <1>9
  <2>2. v[x] \in Tells \cup Changes(id)
    BY <2>1, <1>4, <1>7
  <2>3. p \in 1 .. Len(t) + 1 /\ \A i \in 1 .. p - 1 : i \in 1 .. Len(t)
    BY <1>7
  <2>4. Held(v, x, PowerOn(id), PowerOff(id), FALSE)
    BY <2>3, <1>3, <1>5, <1>6, <1>9, HeldBehind
  <2>5. Held(v, x, Unlock(id), Lock(id), FALSE)
    BY <2>3, <1>3, <1>5, <1>6, <1>9, HeldBehind
  <2> QED BY <2>2, <2>4, <2>5 DEF SafeAt, Others
<1>10. ASSUME NEW x \in 1 .. Len(v) PROVE SafeAt(v, x)
  <2>1. CASE x <= Len(s)
    BY <1>7, <1>8, <2>1
  <2>2. CASE x > Len(s)
    <3>1. x - Len(s) \in 1 .. Len(t) /\ x = Len(s) + (x - Len(s))
      BY <1>7, <2>2
    <3> QED BY <3>1, <1>9
  <2> QED BY <1>7, <2>1, <2>2
<1>11. /\ Leaves(s \o t, PowerOn(id), PowerOff(id)) /\ Leaves(s \o t, Unlock(id), Lock(id))
  BY <1>3, <1>5, LeavesThen
<1> QED BY <1>6, <1>7, <1>10, <1>11 DEF Safe

-----------------------------------------------------------------------------
(* The calls.                                                              *)
LEMMA SwitchIs ==
  ASSUME NEW n \in Switches, NEW id \in Display, NEW v \in BOOLEAN
  PROVE  <<n, id, v>> \in Others
BY DEF Others

LEMMA CrtcDpmsIs ==
  ASSUME NEW id \in Display, NEW on \in BOOLEAN
  PROVE  /\ display_crtc_dpms(id, on) \in Seq(Others)
         /\ On(id) => Leaves(display_crtc_dpms(id, FALSE), PowerOn(id), PowerOff(id))
         /\ \A i \in 1 .. Len(display_crtc_dpms(id, FALSE)) : display_crtc_dpms(id, FALSE)[i] \notin Unlock(id)
<1> DEFINE Off1 == When(powered[id], <<<<"BlankCRTC", id, TRUE>>>>)
           Off2 == When(Major >= 3, <<<<"EnableCRTCMemReq", id, FALSE>>>>)
           Off3 == <<<<"EnableCRTC", id, FALSE>>>>
           On1  == <<<<"EnableCRTC", id, TRUE>>>>
           On2  == When(Major >= 3, <<<<"EnableCRTCMemReq", id, TRUE>>>>)
           On3  == <<<<"BlankCRTC", id, FALSE>>>>
           X    == Others \ Unlock(id)
<1>1. \A n \in {"BlankCRTC", "EnableCRTCMemReq", "EnableCRTC"}, v \in BOOLEAN : <<n, id, v>> \in X
  BY SwitchIs DEF Switches, Unlock
<1>2. /\ Off3 \in Seq(X) /\ On1 \in Seq(X) /\ On3 \in Seq(X)
      /\ <<<<"BlankCRTC", id, TRUE>>>> \in Seq(X)
      /\ \A v \in BOOLEAN : <<<<"EnableCRTCMemReq", id, v>>>> \in Seq(X)
  <2> HIDE DEF X
  <2> QED BY <1>1, One
<1>3. Off1 \in Seq(X) /\ Off2 \in Seq(X) /\ On2 \in Seq(X)
  BY <1>2, WhenIs
<1>4. <<>> \in Seq(X) /\ Seq(X) \subseteq Seq(Others)
  OBVIOUS
<1> HIDE DEF Off1, Off2, Off3, On1, On2, On3, X
<1>5. (Off1 \o Off2) \o Off3 \in Seq(X) /\ (On1 \o On2) \o On3 \in Seq(X)
  BY <1>2, <1>3, ConcatProperties
<1>6. /\ display_crtc_dpms(id, on) = IF On(id) THEN IF on THEN (On1 \o On2) \o On3 ELSE (Off1 \o Off2) \o Off3
                                    ELSE <<>>
      /\ display_crtc_dpms(id, FALSE) = IF On(id) THEN (Off1 \o Off2) \o Off3 ELSE <<>>
  BY DEF display_crtc_dpms, When, Off1, Off2, Off3, On1, On2, On3
<1>7. Leaves(Off3, PowerOn(id), PowerOff(id))
  BY LeavesOne DEF Off3, PowerOff
<1>8. Leaves((Off1 \o Off2) \o Off3, PowerOn(id), PowerOff(id))
  <2>1. Off1 \o Off2 \in Seq(X)
    BY <1>3, ConcatProperties
  <2> QED BY <2>1, <1>2, <1>7, LeavesLast
<1>9. display_crtc_dpms(id, on) \in Seq(X) /\ display_crtc_dpms(id, FALSE) \in Seq(X)
  BY <1>4, <1>5, <1>6
<1>10. \A i \in 1 .. Len(display_crtc_dpms(id, FALSE)) : display_crtc_dpms(id, FALSE)[i] \in X
  BY <1>9, Members
<1> QED BY <1>4, <1>6, <1>8, <1>9, <1>10 DEF X

LEMMA CrtcSetIs ==
  ASSUME NEW id \in Display, NEW mode \in DisplayModes
  PROVE  CrtcSet(id, mode) \in Seq(Tells \cup Changes(id))
<1> DEFINE X == Tells \cup Changes(id)
<1>1. /\ <<"SelectCRTC_Source", id, Route(ConnOf(id))>> \in X
      /\ <<"SetPixelClock", id, mode>> \in X
      /\ <<"SetCRTC_UsingDTDTiming", id, mode>> \in X
      /\ <<"display_crtc_fb_set", id, mode>> \in X
  BY DEF Changes, Selects
<1> HIDE DEF X
<1>2. CrtcSet(id, mode) \in Seq(X)
  BY <1>1 DEF CrtcSet
<1> QED BY <1>2 DEF X

LEMMA TrainingIs ==
  ASSUME NEW c \in Conn PROVE LinkTraining(c) \in Seq(Others)
<1>1. encoder_dig_setup(c, "DISABLE") \in Tells
  BY TellsIs DEF Orders
<1>2. <<"dp_link_train", c, "">> \in Tells
  BY Tell DEF Told, Orders
<1>3. <<encoder_dig_setup(c, "DISABLE")>> \in Seq(Others) /\ <<<<"dp_link_train", c, "">>>> \in Seq(Others)
  BY <1>1, <1>2, One DEF Others
<1>4. When(Major >= 4, <<encoder_dig_setup(c, "DISABLE")>>) \in Seq(Others)
  BY <1>3, WhenIs
<1> QED BY <1>3, <1>4, WhenIs, ConcatProperties DEF LinkTraining

LEMMA SetDisplaySafe ==
  ASSUME NEW id \in Attached, ConnOf(id) \in Conn, board.apu \in BOOLEAN, NEW mode \in DisplayModes
  PROVE  Safe(SetDisplay(id, mode))
<1> DEFINE OL(v) == <<<<"encoder_output_lock", id, v>>>>
           UP(v) == <<<<"UpdateCRTC_DoubleBufferRegisters", id, v>>>>
           Off  == encoder_dpms_set(id, FALSE)
           Dark == display_crtc_dpms(id, FALSE)
           A == OL(TRUE) \o Off
           B == A \o UP(TRUE)
           C == B \o Dark
           E == C \o CrtcSet(id, mode)
           F == E \o encoder_mode_set(id)
           G == ((((F \o display_crtc_dpms(id, TRUE)) \o UP(FALSE)) \o LinkTraining(ConnOf(id)))
                  \o encoder_dpms_set(id, TRUE)) \o OL(FALSE)
<1>1. id \in Display /\ On(id)
  BY DEF Attached
<1>2. \A v \in BOOLEAN : OL(v) \in Seq(Others) /\ UP(v) \in Seq(Others)
  <2>1. \A v \in BOOLEAN : <<"encoder_output_lock", id, v>> \in Others
    BY <1>1 DEF Others
  <2>2. \A v \in BOOLEAN : <<"UpdateCRTC_DoubleBufferRegisters", id, v>> \in Others
    BY <1>1, SwitchIs DEF Switches
  <2> QED BY <2>1, <2>2, One
<1>3. /\ Off \in Seq(Others) /\ encoder_dpms_set(id, TRUE) \in Seq(Others)
      /\ encoder_mode_set(id) \in Seq(Tells \cup Changes(id))
  <2>1. Tells \subseteq Others /\ Tells \cup SetUps(id) \subseteq Tells \cup Changes(id)
    BY DEF Others, Changes
  <2>2. Off \in Seq(Tells) /\ encoder_dpms_set(id, TRUE) \in Seq(Tells)
    BY <1>1, DpmsTells
  <2>3. encoder_mode_set(id) \in Seq(Tells \cup SetUps(id))
    BY <1>1, ModeSetTells
  <2>4. \A X, Y : X \subseteq Y => Seq(X) \subseteq Seq(Y)
    OBVIOUS
  <2> HIDE DEF Off
  <2> QED BY <2>1, <2>2, <2>3, <2>4
<1>4. /\ Dark \in Seq(Others) /\ display_crtc_dpms(id, TRUE) \in Seq(Others)
      /\ Leaves(Dark, PowerOn(id), PowerOff(id)) /\ \A i \in 1 .. Len(Dark) : Dark[i] \notin Unlock(id)
  BY <1>1, CrtcDpmsIs
<1>5. Leaves(UP(TRUE), Unlock(id), Lock(id))
  BY LeavesOne DEF Lock
<1>6. LinkTraining(ConnOf(id)) \in Seq(Others)
  BY TrainingIs
<1>7. CrtcSet(id, mode) \in Seq(Tells \cup Changes(id))
  BY <1>1, CrtcSetIs
<1>8. SetDisplay(id, mode) = G
  BY DEF SetDisplay
<1> HIDE DEF OL, UP, Off, Dark
<1>9. A \in Seq(Others) /\ B \in Seq(Others) /\ C \in Seq(Others)
  BY <1>2, <1>3, <1>4, ConcatProperties
<1>10. Leaves(B, Unlock(id), Lock(id))
  BY <1>2, <1>5, <1>9, LeavesLast
<1>11. Leaves(C, Unlock(id), Lock(id)) /\ Leaves(C, PowerOn(id), PowerOff(id))
  BY <1>4, <1>9, <1>10, LeavesThen, LeavesLast
<1>12. Safe(C)
  BY <1>9, SafeOthers
<1> HIDE DEF A, B, C
<1>13. Safe(E) /\ Leaves(E, PowerOn(id), PowerOff(id)) /\ Leaves(E, Unlock(id), Lock(id))
  BY <1>7, <1>11, <1>12, SafeThen
<1>14. Safe(F)
  <2> HIDE DEF E
  <2> QED BY <1>3, <1>13, SafeThen
<1>15. Safe(G)
  <2> HIDE DEF F
  <2> QED BY <1>2, <1>3, <1>4, <1>6, <1>14, SafeConcat, SafeOthers
<1> QED BY <1>8, <1>15

-----------------------------------------------------------------------------
(* The inductive invariant: types, the source of each CRTC, and what is to  *)
(* be done in its order.                                                   *)
Sources == {<<"boot", 0>>} \cup {Route(c) : c \in Conn}
Screens ==
  [power : BOOLEAN, blank : BOOLEAN, memreq : BOOLEAN, locked : BOOLEAN,
   timing : DisplayModes \cup {"boot"}, fb : DisplayModes \cup {"boot"},
   pll : {"PPLL1", "PPLL2", "DCPLL", "INVALID"}, src : Sources]

SettingTypes ==
  /\ board \in Boards /\ todo \in Seq(Commands)
  /\ crtc \in [Display -> Screens] /\ powered \in [Display -> BOOLEAN]
  /\ critical \in BOOLEAN

Routed ==
  \A id \in Display : crtc[id].src = <<"boot", 0>> \/ (On(id) /\ crtc[id].src = Route(ConnOf(id)))

QuietAt(p) ==
  \/ todo[p] \in Others
  \/ \E id \in Attached : /\ todo[p] \in Changes(id)
                          /\ Held(todo, p, PowerOn(id), PowerOff(id), ~crtc[id].power)
                          /\ Held(todo, p, Unlock(id), Lock(id), crtc[id].locked)

QuietTodo == \A p \in 1 .. Len(todo) : QuietAt(p)

QuietInv == SettingTypes /\ Routed /\ QuietTodo

-----------------------------------------------------------------------------
LEMMA OnBoard ==
  ASSUME board \in Boards
  PROVE  /\ board.apu \in BOOLEAN /\ board.dce \in Nat
         /\ \A id \in Display : ConnOf(id) \in Conn /\ On(id) \in BOOLEAN
         /\ OwnDig(board)
BY BoardsAssumption DEF ConnOf, On, Conn

(* What a command of each name is about.                                   *)
LEMMA HeadIs ==
  ASSUME NEW t \in Commands
  PROVE  /\ t = <<t[1], t[2], t[3]>>
         /\ t[1] \in Switches \cup {"encoder_output_lock"} => t[2] \in Display /\ t[3] \in BOOLEAN
         /\ t[1] = "SelectCRTC_Source" => t[2] \in Attached /\ t[3] = Route(ConnOf(t[2]))
         /\ t[1] \in {"SetPixelClock", "SetCRTC_UsingDTDTiming", "display_crtc_fb_set"} =>
              t[2] \in Attached /\ t[3] \in DisplayModes
<1>1. CASE t \in Switches \X Display \X BOOLEAN
  BY <1>1 DEF Switches
<1>2. CASE t \in {"encoder_output_lock"} \X Display \X BOOLEAN
  BY <1>2 DEF Switches
<1>3. CASE t \in {"dpms_mode"} \X {0} \X {"ON", "STAND_BY", "OFF"}
  BY <1>3 DEF Switches
<1>4. CASE t \in Tells
  <2>1. t \in Told \X (Conn \cup Display) \X Orders
    BY <1>4 DEF Tells
  <2> QED BY <2>1 DEF Told, Switches
<1>5. ASSUME NEW id \in Attached, t \in Changes(id)
      PROVE  /\ t = <<t[1], t[2], t[3]>>
             /\ t[1] \notin Switches \cup {"encoder_output_lock"}
             /\ t[1] = "SelectCRTC_Source" => t[2] \in Attached /\ t[3] = Route(ConnOf(t[2]))
             /\ t[1] \in {"SetPixelClock", "SetCRTC_UsingDTDTiming", "display_crtc_fb_set"} =>
                  t[2] \in Attached /\ t[3] \in DisplayModes
  <2>1. CASE t \in {"SelectCRTC_Source"} \X {id} \X {Route(ConnOf(id))}
    BY <2>1 DEF Switches
  <2>2. CASE t \in {"SetPixelClock", "SetCRTC_UsingDTDTiming", "display_crtc_fb_set"} \X {id} \X DisplayModes
    BY <2>2 DEF Switches
  <2>3. CASE t \in {"DIGxEncoderControl"} \X {ConnOf(id)} \X {"SETUP", "ENABLE"}
    BY <2>3 DEF Switches
  <2> QED BY <1>5, <2>1, <2>2, <2>3 DEF Changes, Selects, SetUps
<1> QED BY <1>1, <1>2, <1>3, <1>4, <1>5 DEF Commands, Others

LEMMA PllIs ==
  ASSUME NEW c PROVE pll_pick(c) \in {"PPLL1", "PPLL2", "DCPLL", "INVALID"}
BY DEF pll_pick

(* What a command does to the CRTCs.                                       *)
Sets(t, name, id) == t[1] = name /\ t[2] = id

OnCrtc(t, id) ==
  /\ crtc'[id].power  = IF Sets(t, "EnableCRTC", id) THEN t[3] ELSE crtc[id].power
  /\ powered'[id]     = IF Sets(t, "EnableCRTC", id) THEN t[3] ELSE powered[id]
  /\ crtc'[id].blank  = IF Sets(t, "BlankCRTC", id) THEN t[3] ELSE crtc[id].blank
  /\ crtc'[id].memreq = IF Sets(t, "EnableCRTCMemReq", id) THEN t[3] ELSE crtc[id].memreq
  /\ crtc'[id].locked = IF Sets(t, "UpdateCRTC_DoubleBufferRegisters", id) THEN t[3] ELSE crtc[id].locked
  /\ crtc'[id].src    = IF Sets(t, "SelectCRTC_Source", id) THEN t[3] ELSE crtc[id].src
  /\ \/ crtc'[id].timing = crtc[id].timing /\ crtc'[id].fb = crtc[id].fb /\ crtc'[id].pll = crtc[id].pll
     \/ /\ t[1] \in {"SetPixelClock", "SetCRTC_UsingDTDTiming", "display_crtc_fb_set"}
        /\ t[2] = id

Effect(t) ==
  /\ crtc' \in [Display -> Screens] /\ powered' \in [Display -> BOOLEAN] /\ critical' \in BOOLEAN
  /\ \A id \in Display : OnCrtc(t, id)
  /\ critical' = IF t[1] = "encoder_output_lock" THEN t[3] ELSE critical

(* What sequence a command is taken from, and its name.                    *)
LEMMA IsNext ==
  ASSUME SettingTypes, NEW name, Is(name), NEW t, t = Head(todo)
  PROVE  /\ todo # <<>> /\ todo' = Tail(todo) /\ board' = board /\ t \in Commands /\ t[1] = name
         /\ Which = t[2] /\ Arg = t[3]
BY DEF SettingTypes, Is, Which, Arg

Writes(t, field) == crtc' = [crtc EXCEPT ![t[2]] = [crtc[t[2]] EXCEPT ![field] = t[3]]]

Fits(t, field) ==
  /\ field \in {"blank", "memreq", "locked"} => t[3] \in BOOLEAN
  /\ field = "src" => t[3] \in Sources
  /\ field = "timing" => t[3] \in DisplayModes

OneField(t, field) ==
  /\ crtc' \in [Display -> Screens]
  /\ \A id \in Display :
       /\ crtc'[id].power = crtc[id].power /\ crtc'[id].fb = crtc[id].fb /\ crtc'[id].pll = crtc[id].pll
       /\ crtc'[id].blank = IF t[2] = id /\ field = "blank" THEN t[3] ELSE crtc[id].blank
       /\ crtc'[id].memreq = IF t[2] = id /\ field = "memreq" THEN t[3] ELSE crtc[id].memreq
       /\ crtc'[id].locked = IF t[2] = id /\ field = "locked" THEN t[3] ELSE crtc[id].locked
       /\ crtc'[id].src = IF t[2] = id /\ field = "src" THEN t[3] ELSE crtc[id].src
       /\ crtc'[id].timing = IF t[2] = id /\ field = "timing" THEN t[3] ELSE crtc[id].timing

LEMMA OnCrtcField ==
  ASSUME SettingTypes, NEW t \in Commands, NEW field \in {"blank", "memreq", "locked", "src", "timing"},
         Writes(t, field),
         t[2] \in Display,
         Fits(t, field)
  PROVE  OneField(t, field)
<1>1. crtc \in [Display -> Screens]
  BY DEF SettingTypes
<1>3. [crtc[t[2]] EXCEPT ![field] = t[3]] \in Screens
  <2>1. CASE field = "blank"
    BY <1>1, <2>1 DEF Screens, Fits
  <2>2. CASE field = "memreq"
    BY <1>1, <2>2 DEF Screens, Fits
  <2>3. CASE field = "locked"
    BY <1>1, <2>3 DEF Screens, Fits
  <2>4. CASE field = "src"
    BY <1>1, <2>4 DEF Screens, Fits
  <2>5. CASE field = "timing"
    BY <1>1, <2>5 DEF Screens, Fits
  <2> QED BY <2>1, <2>2, <2>3, <2>4, <2>5
<1>4. crtc' \in [Display -> Screens]
  BY <1>1, <1>3 DEF Writes
<1>5. ASSUME NEW id \in Display
      PROVE  \A f \in {"power", "fb", "pll", "blank", "memreq", "locked", "src", "timing"} :
               crtc'[id][f] = IF t[2] = id /\ field = f THEN t[3] ELSE crtc[id][f]
  BY <1>1 DEF Screens, Writes
<1> QED BY <1>4, <1>5 DEF OneField

(* Commands that leave the CRTCs alone.                                    *)
LEMMA ToldEffect ==
  ASSUME SettingTypes, NEW name \in Told \cup {"dpms_mode"}, Is(name),
         crtc' = crtc, powered' = powered, critical' = critical, NEW t, t = Head(todo)
  PROVE  Effect(t)
<1>1. t[1] = name
  BY IsNext
<1>2. /\ t[1] # "EnableCRTC" /\ t[1] # "BlankCRTC" /\ t[1] # "EnableCRTCMemReq"
      /\ t[1] # "UpdateCRTC_DoubleBufferRegisters" /\ t[1] # "SelectCRTC_Source"
      /\ t[1] # "encoder_output_lock"
  BY <1>1 DEF Told
<1> QED BY <1>2 DEF Effect, OnCrtc, Sets, SettingTypes

LEMMA PowerEffect ==
  ASSUME SettingTypes, EnableCRTC, NEW t, t = Head(todo)
  PROVE  Effect(t)
<1>1. t \in Commands /\ t[1] = "EnableCRTC" /\ Which = t[2] /\ Arg = t[3]
  BY IsNext DEF EnableCRTC
<1>2. t[2] \in Display /\ t[3] \in BOOLEAN
  BY <1>1, HeadIs DEF Switches
<1>3. /\ crtc' = [crtc EXCEPT ![t[2]] = [crtc[t[2]] EXCEPT !.power = t[3]]]
      /\ powered' = [powered EXCEPT ![t[2]] = t[3]] /\ critical' = critical
  BY <1>1 DEF EnableCRTC
<1>4. /\ crtc \in [Display -> Screens] /\ powered \in [Display -> BOOLEAN] /\ critical \in BOOLEAN
  BY DEF SettingTypes
<1>5. [crtc[t[2]] EXCEPT !.power = t[3]] \in Screens
  BY <1>2, <1>4 DEF Screens
<1>6. crtc' \in [Display -> Screens] /\ powered' \in [Display -> BOOLEAN] /\ critical' \in BOOLEAN
  BY <1>2, <1>3, <1>4, <1>5
<1>7. ASSUME NEW id \in Display PROVE OnCrtc(t, id)
  <2>1. CASE t[2] = id
    BY <1>1, <1>2, <1>3, <1>4, <2>1 DEF OnCrtc, Sets, Screens
  <2>2. CASE t[2] # id
    BY <1>1, <1>2, <1>3, <1>4, <2>2 DEF OnCrtc, Sets, Screens
  <2> QED BY <2>1, <2>2
<1> QED BY <1>1, <1>3, <1>6, <1>7 DEF Effect

LEMMA FieldEffect ==
  ASSUME SettingTypes, CrtcCommand, NEW t, t = Head(todo)
  PROVE  Effect(t)
<1>1. PICK name \in DOMAIN CrtcField : Is(name) /\ crtc' = [crtc EXCEPT ![Which][CrtcField[name]] = Arg]
  BY DEF CrtcCommand
<1>2. t \in Commands /\ t[1] = name /\ Which = t[2] /\ Arg = t[3]
  BY <1>1, IsNext
<1>3. powered' = powered /\ critical' = critical
  BY DEF CrtcCommand
<1>4. \/ name = "BlankCRTC" /\ CrtcField[name] = "blank"
      \/ name = "EnableCRTCMemReq" /\ CrtcField[name] = "memreq"
      \/ name = "UpdateCRTC_DoubleBufferRegisters" /\ CrtcField[name] = "locked"
      \/ name = "SelectCRTC_Source" /\ CrtcField[name] = "src"
      \/ name = "SetCRTC_UsingDTDTiming" /\ CrtcField[name] = "timing"
  BY <1>1 DEF CrtcField
<1>5. t[2] \in Display
  BY <1>2, <1>4, HeadIs DEF Switches, Attached
<1>6. /\ CrtcField[name] \in {"blank", "memreq", "locked"} => t[3] \in BOOLEAN
      /\ CrtcField[name] = "src" => t[3] \in Sources
      /\ CrtcField[name] = "timing" => t[3] \in DisplayModes
  <2>1. CASE name \in Switches
    BY <2>1, <1>2, <1>4, HeadIs DEF Switches
  <2>2. CASE name = "SelectCRTC_Source"
    <3>1. t[2] \in Attached /\ t[3] = Route(ConnOf(t[2])) /\ ConnOf(t[2]) \in Conn
      BY <2>2, <1>2, <1>5, HeadIs, OnBoard DEF SettingTypes
    <3> QED BY <3>1, <2>2, <1>4 DEF Sources
  <2>3. CASE name = "SetCRTC_UsingDTDTiming"
    BY <2>3, <1>2, <1>4, HeadIs
  <2> QED BY <2>1, <2>2, <2>3, <1>4 DEF Switches
<1>0. PICK f : f = CrtcField[name]
  OBVIOUS
<1>7. f \in {"blank", "memreq", "locked", "src", "timing"}
  BY <1>0, <1>4
<1>8. Writes(t, f)
  BY <1>0, <1>1, <1>2 DEF Writes
<1>9. /\ f = "blank"  <=> t[1] = "BlankCRTC"
      /\ f = "memreq" <=> t[1] = "EnableCRTCMemReq"
      /\ f = "locked" <=> t[1] = "UpdateCRTC_DoubleBufferRegisters"
      /\ f = "src"    <=> t[1] = "SelectCRTC_Source"
      /\ f = "timing" <=> t[1] = "SetCRTC_UsingDTDTiming"
  BY <1>0, <1>2, <1>4
<1>10. t[1] # "EnableCRTC" /\ t[1] # "encoder_output_lock"
  BY <1>2, <1>4
<1>11. OneField(t, f)
  <2>1. Fits(t, f)
    BY <1>0, <1>6 DEF Fits
  <2> QED BY <2>1, <1>2, <1>5, <1>7, <1>8, OnCrtcField
<1>12. ASSUME NEW id \in Display PROVE OnCrtc(t, id)
  BY <1>3, <1>9, <1>10, <1>11 DEF OnCrtc, Sets, OneField
<1> QED BY <1>3, <1>10, <1>11, <1>12 DEF Effect, SettingTypes, OneField

LEMMA ClockEffect ==
  ASSUME SettingTypes, SetPixelClock, NEW t, t = Head(todo)
  PROVE  Effect(t)
<1>1. t \in Commands /\ t[1] = "SetPixelClock" /\ Which = t[2] /\ Arg = t[3]
  BY IsNext DEF SetPixelClock
<1>2. t[2] \in Display
  BY <1>1, HeadIs DEF Attached
<1>3. PICK p \in {"PPLL1", "PPLL2", "DCPLL", "INVALID"} : p = pll_pick(ConnOf(t[2]))
  BY PllIs
<1>4. crtc' = [crtc EXCEPT ![t[2]] = [crtc[t[2]] EXCEPT !.pll = p]] /\ powered' = powered /\ critical' = critical
  BY <1>1, <1>3 DEF SetPixelClock
<1>5. crtc \in [Display -> Screens] /\ powered \in [Display -> BOOLEAN] /\ critical \in BOOLEAN
  BY DEF SettingTypes
<1>6. [crtc[t[2]] EXCEPT !.pll = p] \in Screens
  BY <1>2, <1>5 DEF Screens
<1>7. crtc' \in [Display -> Screens]
  BY <1>2, <1>4, <1>5, <1>6
<1>8. ASSUME NEW id \in Display PROVE OnCrtc(t, id)
  <2>1. CASE t[2] = id
    BY <1>1, <1>2, <1>4, <1>5, <2>1 DEF OnCrtc, Sets, Screens
  <2>2. CASE t[2] # id
    BY <1>1, <1>2, <1>4, <1>5, <2>2 DEF OnCrtc, Sets, Screens
  <2> QED BY <2>1, <2>2
<1> QED BY <1>1, <1>4, <1>5, <1>7, <1>8 DEF Effect

LEMMA FbEffect ==
  ASSUME SettingTypes, display_crtc_fb_set, NEW t, t = Head(todo)
  PROVE  Effect(t)
<1>1. t \in Commands /\ t[1] = "display_crtc_fb_set" /\ Which = t[2] /\ Arg = t[3]
  BY IsNext DEF display_crtc_fb_set
<1>2. t[2] \in Display /\ t[3] \in DisplayModes
  BY <1>1, HeadIs DEF Attached
<1>4. crtc' = [crtc EXCEPT ![t[2]] = [crtc[t[2]] EXCEPT !.fb = t[3]]] /\ powered' = powered /\ critical' = critical
  BY <1>1 DEF display_crtc_fb_set
<1>5. crtc \in [Display -> Screens] /\ powered \in [Display -> BOOLEAN] /\ critical \in BOOLEAN
  BY DEF SettingTypes
<1>6. [crtc[t[2]] EXCEPT !.fb = t[3]] \in Screens
  BY <1>2, <1>5 DEF Screens
<1>7. crtc' \in [Display -> Screens]
  BY <1>2, <1>4, <1>5, <1>6
<1>8. ASSUME NEW id \in Display PROVE OnCrtc(t, id)
  <2>1. CASE t[2] = id
    BY <1>1, <1>2, <1>4, <1>5, <2>1 DEF OnCrtc, Sets, Screens
  <2>2. CASE t[2] # id
    BY <1>1, <1>2, <1>4, <1>5, <2>2 DEF OnCrtc, Sets, Screens
  <2> QED BY <2>1, <2>2
<1> QED BY <1>1, <1>4, <1>5, <1>7, <1>8 DEF Effect

LEMMA LockEffect ==
  ASSUME SettingTypes, encoder_output_lock, NEW t, t = Head(todo)
  PROVE  Effect(t)
<1>1. t \in Commands /\ t[1] = "encoder_output_lock" /\ Arg = t[3]
  BY IsNext DEF encoder_output_lock
<1>2. t[3] \in BOOLEAN
  BY <1>1, HeadIs
<1>3. critical' = t[3] /\ UNCHANGED <<crtc, powered>>
  BY <1>1 DEF encoder_output_lock
<1> QED BY <1>1, <1>2, <1>3 DEF Effect, OnCrtc, Sets, SettingTypes

LEMMA CommandEffect ==
  ASSUME SettingTypes, Command, NEW t, t = Head(todo)
  PROVE  todo # <<>> /\ todo' = Tail(todo) /\ board' = board /\ t \in Commands /\ Effect(t)
<1>1. \E name : Is(name)
  BY DEF Command, SetDpmsMode, encoder_output_lock, EnableCRTC, CrtcCommand, SetPixelClock,
         display_crtc_fb_set, DIGxEncoderControl, TransmitterControl, OutputStage, EncoderSetup,
         TVEncoderControl, WriteDataFormat, ExternalEncoderControl, dp_link_train
<1>2. todo # <<>> /\ todo' = Tail(todo) /\ board' = board /\ t \in Commands
  BY <1>1, IsNext
<1>4. CASE SetDpmsMode
  <2>1. Is("dpms_mode") /\ crtc' = crtc /\ powered' = powered /\ critical' = critical
    BY <1>4, Zenon DEF SetDpmsMode, hw
  <2>2. "dpms_mode" \in Told \cup {"dpms_mode"}
    BY DEF Told
  <2> QED BY <1>2, <2>1, <2>2, ToldEffect
<1>5. CASE DIGxEncoderControl
  <2>1. Is("DIGxEncoderControl") /\ crtc' = crtc /\ powered' = powered /\ critical' = critical
    BY <1>5, Zenon DEF DIGxEncoderControl
  <2>2. "DIGxEncoderControl" \in Told \cup {"dpms_mode"}
    BY DEF Told
  <2> QED BY <1>2, <2>1, <2>2, ToldEffect
<1>6. CASE TransmitterControl
  <2>1. Is("TransmitterControl") /\ crtc' = crtc /\ powered' = powered /\ critical' = critical
    BY <1>6, Zenon DEF TransmitterControl
  <2>2. "TransmitterControl" \in Told \cup {"dpms_mode"}
    BY DEF Told
  <2> QED BY <1>2, <2>1, <2>2, ToldEffect
<1>7. CASE OutputStage
  <2>1. Is("OutputControl") /\ crtc' = crtc /\ powered' = powered /\ critical' = critical
    BY <1>7, Zenon DEF OutputStage
  <2>2. "OutputControl" \in Told \cup {"dpms_mode"}
    BY DEF Told
  <2> QED BY <1>2, <2>1, <2>2, ToldEffect
<1>8. CASE EncoderSetup
  <2>1. Is("EncoderControl") /\ crtc' = crtc /\ powered' = powered /\ critical' = critical
    BY <1>8, Zenon DEF EncoderSetup
  <2>2. "EncoderControl" \in Told \cup {"dpms_mode"}
    BY DEF Told
  <2> QED BY <1>2, <2>1, <2>2, ToldEffect
<1>9. CASE ExternalEncoderControl
  <2>1. Is("ExternalEncoderControl") /\ crtc' = crtc /\ powered' = powered /\ critical' = critical
    BY <1>9, Zenon DEF ExternalEncoderControl
  <2>2. "ExternalEncoderControl" \in Told \cup {"dpms_mode"}
    BY DEF Told
  <2> QED BY <1>2, <2>1, <2>2, ToldEffect
<1>10. CASE dp_link_train
  <2>1. Is("dp_link_train") /\ crtc' = crtc /\ powered' = powered /\ critical' = critical
    BY <1>10, Zenon DEF dp_link_train, hw
  <2>2. "dp_link_train" \in Told \cup {"dpms_mode"}
    BY DEF Told
  <2> QED BY <1>2, <2>1, <2>2, ToldEffect
<1>12. CASE TVEncoderControl
  <2>1. Is("TVEncoderControl") /\ crtc' = crtc /\ powered' = powered /\ critical' = critical
    BY <1>12, Zenon DEF TVEncoderControl
  <2>2. "TVEncoderControl" \in Told \cup {"dpms_mode"}
    BY DEF Told
  <2> QED BY <1>2, <2>1, <2>2, ToldEffect
<1>13. CASE WriteDataFormat
  <2>1. Is("modeDataFormat") /\ crtc' = crtc /\ powered' = powered /\ critical' = critical
    BY <1>13, Zenon DEF WriteDataFormat
  <2>2. "modeDataFormat" \in Told \cup {"dpms_mode"}
    BY DEF Told
  <2> QED BY <1>2, <2>1, <2>2, ToldEffect
<1>11. Effect(t)
  BY <1>4, <1>5, <1>6, <1>7, <1>8, <1>9, <1>10, <1>12, <1>13, PowerEffect, FieldEffect, ClockEffect, FbEffect, LockEffect DEF Command
<1> QED BY <1>2, <1>11

-----------------------------------------------------------------------------
(* The two parts of a call, one behind the other.                          *)
LEMMA FlattenTwo ==
  ASSUME NEW S, NEW f \in [1 .. 2 -> Seq(S)]
  PROVE  FlattenSeq(f) = f[1] \o f[2]
<1> DEFINE flat(g) == [i \in 1 .. Len(f) |-> IF i = 1 THEN f[i] ELSE g[i - 1] \o f[i]]
           w == [i \in 1 .. 2 |-> IF i = 1 THEN f[1] ELSE f[1] \o f[2]]
           h == CHOOSE g : g = flat(g)
<1>1. Len(f) = 2
  OBVIOUS
<1>2. w = flat(w)
  <2>1. w[1] = f[1]
    OBVIOUS
  <2>2. \A i \in 1 .. 2 : w[i] = IF i = 1 THEN f[i] ELSE w[i - 1] \o f[i]
    <3> SUFFICES ASSUME NEW i \in 1 .. 2 PROVE w[i] = IF i = 1 THEN f[i] ELSE w[i - 1] \o f[i]
      OBVIOUS
    <3>1. CASE i = 1
      BY <2>1, <3>1
    <3>2. CASE i = 2
      <4>1. i - 1 = 1 /\ w[i] = f[1] \o f[2]
        BY <3>2
      <4> QED BY <2>1, <3>2, <4>1
    <3> QED BY <3>1, <3>2
  <2> HIDE DEF w
  <2>3. w = [i \in 1 .. 2 |-> w[i]]
    BY DEF w
  <2> QED BY <1>1, <2>2, <2>3
<1>3. h = flat(h)
  <2> HIDE DEF flat, w
  <2> QED BY <1>2
<1>4. FlattenSeq(f) = h[2]
  BY <1>1 DEF FlattenSeq
<1> HIDE DEF h
<1>5. h[1] = f[1]
  BY <1>1, <1>3
<1>6. h[2] = h[1] \o f[2]
  <2>1. 2 \in 1 .. Len(f) /\ 2 # 1 /\ 2 - 1 = 1
    BY <1>1
  <2>2. h[2] = h[2 - 1] \o f[2]
    BY <1>3, <2>1
  <2> QED BY <2>1, <2>2
<1> QED BY <1>4, <1>5, <1>6

(* The card does not change, nor what may be done with it.                  *)
LEMMA SameBoard ==
  ASSUME board' = board
  PROVE  /\ Conn' = Conn /\ Attached' = Attached /\ Others' = Others /\ Commands' = Commands
         /\ Sources' = Sources /\ Screens' = Screens
         /\ \A id : /\ ConnOf(id)' = ConnOf(id) /\ On(id)' = On(id)
                    /\ Changes(id)' = Changes(id) /\ Route(ConnOf(id))' = Route(ConnOf(id))
<1>1. Conn' = Conn /\ Attached' = Attached
  BY DEF Conn, Attached, On
<1>2. Others' = Others
  BY <1>1 DEF Others, Tells
<1>3. \A c : Route(c)' = Route(c) /\ Enc(c)' = Enc(c)
  BY DEF Route, Enc, encoder_pick_dig, PickDig, CrtcOf
<1>4. \A id : ConnOf(id)' = ConnOf(id) /\ On(id)' = On(id) /\ Route(ConnOf(id))' = Route(ConnOf(id))
  BY <1>3 DEF ConnOf, On, Route, Enc, encoder_pick_dig, PickDig, CrtcOf
<1>5. \A id : Changes(id)' = Changes(id)
  BY <1>3, <1>4 DEF Changes, Selects, SetUps, Enc
<1>6. Sources' = Sources
  BY <1>1, <1>3 DEF Sources
<1> QED BY <1>1, <1>2, <1>4, <1>5, <1>6 DEF Commands, Screens

LEMMA QuietInit == SettingInit => QuietInv
<1> SUFFICES ASSUME SettingInit PROVE QuietInv
  OBVIOUS
<1>1. board \in Boards /\ todo = <<>>
  BY DEF SettingInit
<1>2. \A id \in Display : On(id) \in BOOLEAN
  BY <1>1, OnBoard
<1>3. SettingTypes
  <2>1. <<"boot", 0>> \in Sources
    BY DEF Sources
  <2>2. crtc \in [Display -> Screens]
    BY <1>2, <2>1 DEF SettingInit, Screens
  <2>3. powered \in [Display -> BOOLEAN] /\ critical \in BOOLEAN
    BY <1>2 DEF SettingInit
  <2>4. todo \in Seq(Commands)
    BY <1>1
  <2> QED BY <1>1, <2>2, <2>3, <2>4 DEF SettingTypes
<1>4. Routed
  BY DEF SettingInit, Routed
<1>5. QuietTodo
  BY <1>1 DEF QuietTodo
<1> QED BY <1>3, <1>4, <1>5 DEF QuietInv

(* A call that puts a safe sequence into todo.                             *)
LEMMA CallQuiet ==
  ASSUME QuietInv, Safe(todo'), board' = board,
         crtc' = crtc, powered' = powered, critical' = critical
  PROVE  QuietInv'
<1>1. SettingTypes'
  BY SameBoard DEF QuietInv, SettingTypes, Safe
<1>2. Routed'
  BY SameBoard DEF QuietInv, Routed
<1>3. ASSUME NEW p \in 1 .. Len(todo') PROVE QuietAt(p)'
  <2>1. SafeAt(todo', p)
    BY DEF Safe
  <2>2. ASSUME NEW on, NEW off, NEW now, Held(todo', p, on, off, FALSE) PROVE Held(todo', p, on, off, now)
    BY <2>2 DEF Held
  <2>3. CASE todo'[p] \in Others
    BY <2>3, SameBoard DEF QuietAt
  <2>4. CASE \E id \in Attached : /\ todo'[p] \in Changes(id)
                                  /\ Held(todo', p, PowerOn(id), PowerOff(id), FALSE)
                                  /\ Held(todo', p, Unlock(id), Lock(id), FALSE)
    <3>1. PICK id \in Attached : /\ todo'[p] \in Changes(id)
                                 /\ Held(todo', p, PowerOn(id), PowerOff(id), FALSE)
                                 /\ Held(todo', p, Unlock(id), Lock(id), FALSE)
      BY <2>4
    <3>2. /\ Held(todo', p, PowerOn(id), PowerOff(id), ~crtc'[id].power)
          /\ Held(todo', p, Unlock(id), Lock(id), crtc'[id].locked)
      BY <2>2, <3>1
    <3>3. id \in Attached' /\ todo'[p] \in Changes(id)'
      BY <3>1, SameBoard
    <3> QED BY <3>2, <3>3 DEF QuietAt, PowerOn, PowerOff, Lock, Unlock, Held
  <2> QED BY <2>1, <2>3, <2>4 DEF SafeAt
<1> QED BY <1>1, <1>2, <1>3 DEF QuietInv, QuietTodo

LEMMA SetModeQuiet ==
  ASSUME QuietInv, NEW mode \in DisplayModes, radeon_set_display_mode(mode)
  PROVE  QuietInv'
<1> DEFINE f == [k \in 1 .. MAX_DISPLAY |-> When(On(k - 1), SetDisplay(k - 1, mode))]
<1>1. board \in Boards
  BY DEF QuietInv, SettingTypes
<1>2. ASSUME NEW k \in 1 .. 2 PROVE Safe(When(On(k - 1), SetDisplay(k - 1, mode)))
  <2>1. k - 1 \in Display
    BY DEF Display, MAX_DISPLAY
  <2>2. CASE On(k - 1)
    <3>1. k - 1 \in Attached /\ ConnOf(k - 1) \in Conn /\ board.apu \in BOOLEAN
      BY <1>1, <2>1, <2>2, OnBoard DEF Attached
    <3> QED BY <2>2, <3>1, SetDisplaySafe DEF When
  <2>3. CASE ~On(k - 1)
    <3>1. <<>> \in Seq(Others)
      OBVIOUS
    <3> QED BY <2>3, <3>1, SafeOthers DEF When
  <2> QED BY <2>2, <2>3
<1>3. \A k \in 1 .. 2 : f[k] = When(On(k - 1), SetDisplay(k - 1, mode))
  BY DEF MAX_DISPLAY
<1>4. f \in [1 .. 2 -> Seq(Commands)] /\ Safe(f[1]) /\ Safe(f[2])
  BY <1>2, <1>3 DEF Safe, MAX_DISPLAY
<1>5. todo' = FlattenSeq(f) /\ UNCHANGED <<board, crtc, powered, critical>>
  BY DEF radeon_set_display_mode, hw
<1> HIDE DEF f
<1>6. Safe(todo')
  BY <1>4, <1>5, FlattenTwo, SafeConcat
<1> QED BY <1>5, <1>6, CallQuiet

LEMMA DpmsQuiet ==
  ASSUME QuietInv, NEW mode \in {"ON", "STAND_BY", "OFF"}, radeon_dpms_set(mode)
  PROVE  QuietInv'
<1> DEFINE part(id) == encoder_dpms_set(id, mode = "ON") \o display_crtc_dpms(id, mode = "ON")
           f == [k \in 1 .. MAX_DISPLAY |-> part(k - 1)]
<1>1. board \in Boards
  BY DEF QuietInv, SettingTypes
<1>2. ASSUME NEW id \in Display PROVE part(id) \in Seq(Others)
  <2>1. ConnOf(id) \in Conn /\ board.apu \in BOOLEAN /\ Tells \subseteq Others
    BY <1>1, OnBoard DEF Others
  <2>2. encoder_dpms_set(id, mode = "ON") \in Seq(Tells)
    BY <2>1, DpmsTells
  <2>3. display_crtc_dpms(id, mode = "ON") \in Seq(Others)
    BY CrtcDpmsIs
  <2>4. \A X, Y : X \subseteq Y => Seq(X) \subseteq Seq(Y)
    OBVIOUS
  <2>5. encoder_dpms_set(id, mode = "ON") \in Seq(Others)
    BY <2>1, <2>2, <2>4
  <2> QED BY <2>3, <2>5, ConcatProperties
<1>3. \A k \in 1 .. 2 : k - 1 \in Display
  BY DEF Display, MAX_DISPLAY
<1> HIDE DEF part
<1>4. f \in [1 .. 2 -> Seq(Others)]
  BY <1>2, <1>3 DEF MAX_DISPLAY
<1>5. /\ todo' = FlattenSeq(f) \o <<<<"dpms_mode", 0, mode>>>>
      /\ UNCHANGED <<board, crtc, powered, critical>>
  BY DEF radeon_dpms_set, hw, part
<1> HIDE DEF f
<1>6. <<<<"dpms_mode", 0, mode>>>> \in Seq(Others)
  <2>1. <<"dpms_mode", 0, mode>> \in Others
    BY DEF Others
  <2> QED BY <2>1, One
<1>7. FlattenSeq(f) \in Seq(Others)
  <2>1. f[1] \in Seq(Others) /\ f[2] \in Seq(Others)
    BY <1>4
  <2>2. FlattenSeq(f) = f[1] \o f[2]
    BY <1>4, FlattenTwo
  <2> QED BY <2>1, <2>2, ConcatProperties
<1>8. Safe(todo')
  <2>1. FlattenSeq(f) \o <<<<"dpms_mode", 0, mode>>>> \in Seq(Others)
    BY <1>6, <1>7, ConcatProperties
  <2> QED BY <1>5, <2>1, SafeOthers
<1> QED BY <1>5, <1>8, CallQuiet

LEMMA SwitchedBy ==
  ASSUME NEW id, NEW t
  PROVE  /\ t \in PowerOff(id) => t[1] = "EnableCRTC" /\ t[2] = id /\ t[3] = FALSE
         /\ t \in Lock(id) =>
              t[1] = "UpdateCRTC_DoubleBufferRegisters" /\ t[2] = id /\ t[3] = TRUE
<1>1. \A n, v : <<n, id, v>>[1] = n /\ <<n, id, v>>[2] = id /\ <<n, id, v>>[3] = v
  OBVIOUS
<1>2. t \in PowerOff(id) => t = <<"EnableCRTC", id, FALSE>>
  BY DEF PowerOff
<1>3. t \in Lock(id) => t = <<"UpdateCRTC_DoubleBufferRegisters", id, TRUE>>
  BY DEF Lock
<1>4. t \in PowerOff(id) => t[1] = "EnableCRTC" /\ t[2] = id /\ t[3] = FALSE
  <2> SUFFICES ASSUME t \in PowerOff(id)
               PROVE  t[1] = "EnableCRTC" /\ t[2] = id /\ t[3] = FALSE
    OBVIOUS
  <2>1. t = <<"EnableCRTC", id, FALSE>>
    BY <1>2
  <2>2. t[3] = FALSE
    BY <2>1, <1>1, Zenon
  <2> QED BY <2>1, <2>2
<1>5. t \in Lock(id) => t[1] = "UpdateCRTC_DoubleBufferRegisters" /\ t[2] = id /\ t[3] = TRUE
  <2> SUFFICES ASSUME t \in Lock(id)
               PROVE  t[1] = "UpdateCRTC_DoubleBufferRegisters" /\ t[2] = id /\ t[3] = TRUE
    OBVIOUS
  <2>1. t = <<"UpdateCRTC_DoubleBufferRegisters", id, TRUE>>
    BY <1>3
  <2>2. t[3] = TRUE
    BY <2>1, <1>1, Zenon
  <2> QED BY <2>1, <2>2
<1> QED BY <1>4, <1>5, Zenon

(* Executing the next command.                                             *)
LEMMA CommandQuiet ==
  ASSUME QuietInv, Command
  PROVE  QuietInv'
<1> DEFINE t == Head(todo)
<1>1. /\ todo # <<>> /\ todo' = Tail(todo) /\ board' = board /\ t \in Commands /\ Effect(t)
      /\ todo \in Seq(Commands)
  BY CommandEffect DEF QuietInv, SettingTypes
<1>2. SettingTypes'
  <2>1. todo' \in Seq(Commands)
    BY <1>1
  <2> QED BY <1>1, <2>1, SameBoard DEF QuietInv, SettingTypes, Effect
<1>3. Routed'
  <2> SUFFICES ASSUME NEW id \in Display
               PROVE  crtc'[id].src = <<"boot", 0>> \/ (On(id) /\ crtc'[id].src = Route(ConnOf(id)))
    BY <1>1, SameBoard DEF Routed
  <2>1. OnCrtc(t, id)
    BY <1>1 DEF Effect
  <2>2. CASE Sets(t, "SelectCRTC_Source", id)
    <3>1. t[2] = id /\ t[2] \in Attached /\ t[3] = Route(ConnOf(t[2]))
      BY <1>1, <2>2, HeadIs DEF Sets
    <3>2. crtc'[id].src = t[3]
      BY <2>1, <2>2 DEF OnCrtc
    <3> QED BY <3>1, <3>2 DEF Attached
  <2>3. CASE ~Sets(t, "SelectCRTC_Source", id)
    <3>1. crtc'[id].src = crtc[id].src
      BY <2>1, <2>3 DEF OnCrtc
    <3> QED BY <3>1 DEF QuietInv, Routed
  <2> QED BY <2>2, <2>3
<1>4. ASSUME NEW p \in 1 .. Len(todo') PROVE QuietAt(p)'
  <2>1. /\ Len(todo) \in Nat /\ p + 1 \in 1 .. Len(todo) /\ todo'[p] = todo[p + 1]
        /\ p + 1 \in 2 .. Len(todo) + 1 /\ (p + 1) - 1 = p
    BY <1>1
  <2>2. QuietAt(p + 1)
    BY <2>1 DEF QuietInv, QuietTodo
  <2>3. CASE todo[p + 1] \in Others
    BY <1>1, <2>1, <2>3, SameBoard DEF QuietAt
  <2>4. ASSUME NEW id \in Attached, todo[p + 1] \in Changes(id),
               Held(todo, p + 1, PowerOn(id), PowerOff(id), ~crtc[id].power),
               Held(todo, p + 1, Unlock(id), Lock(id), crtc[id].locked)
        PROVE  QuietAt(p)'
    <3>1. id \in Display /\ OnCrtc(t, id)
      BY <1>1 DEF Attached, Effect
    <3>2. t = <<t[1], t[2], t[3]>>
      BY <1>1, HeadIs
    <3>3. Held(todo', p, PowerOn(id), PowerOff(id), ~crtc'[id].power)
      <4>1. t \in PowerOff(id) => ~crtc'[id].power
        <5>1. t \in PowerOff(id) => t[1] = "EnableCRTC" /\ t[2] = id /\ t[3] = FALSE
          BY SwitchedBy
        <5> QED BY <3>1, <5>1 DEF OnCrtc, Sets
      <4>2. ~crtc[id].power /\ t \notin PowerOn(id) => ~crtc'[id].power
        <5> SUFFICES ASSUME ~crtc[id].power, t \notin PowerOn(id) PROVE ~crtc'[id].power
          OBVIOUS
        <5>1. CASE Sets(t, "EnableCRTC", id)
          <6>1. t[3] \in BOOLEAN
            BY <1>1, <5>1, HeadIs DEF Sets, Switches
          <6>2. t[3] # TRUE
            BY <3>2, <5>1 DEF Sets, PowerOn
          <6> QED BY <3>1, <5>1, <6>1, <6>2 DEF OnCrtc
        <5>2. CASE ~Sets(t, "EnableCRTC", id)
          BY <3>1, <5>2 DEF OnCrtc
        <5> QED BY <5>1, <5>2
      <4> HIDE DEF t
      <4>3. PICK now \in BOOLEAN, later \in BOOLEAN : (now <=> ~crtc[id].power) /\ (later <=> ~crtc'[id].power)
        OBVIOUS
      <4>4. Held(todo, p + 1, PowerOn(id), PowerOff(id), now)
        BY <2>4, <4>3 DEF Held
      <4>5. Held(Tail(todo), (p + 1) - 1, PowerOn(id), PowerOff(id), later)
        BY <1>1, <2>1, <4>1, <4>2, <4>3, <4>4, HeldNext DEF t
      <4>6. Held(todo', p, PowerOn(id), PowerOff(id), later)
        BY <1>1, <2>1, <4>5
      <4> QED BY <4>3, <4>6 DEF Held
    <3>4. Held(todo', p, Unlock(id), Lock(id), crtc'[id].locked)
      <4>1. t \in Lock(id) => crtc'[id].locked
        <5>1. t \in Lock(id) => t[1] = "UpdateCRTC_DoubleBufferRegisters" /\ t[2] = id /\ t[3] = TRUE
          BY SwitchedBy
        <5> QED BY <3>1, <5>1 DEF OnCrtc, Sets
      <4>2. crtc[id].locked /\ t \notin Unlock(id) => crtc'[id].locked
        <5> SUFFICES ASSUME crtc[id].locked, t \notin Unlock(id) PROVE crtc'[id].locked
          OBVIOUS
        <5>1. CASE Sets(t, "UpdateCRTC_DoubleBufferRegisters", id)
          <6>1. t[3] \in BOOLEAN
            BY <1>1, <5>1, HeadIs DEF Sets, Switches
          <6>2. t[3] # FALSE
            BY <3>2, <5>1 DEF Sets, Unlock
          <6> QED BY <3>1, <5>1, <6>1, <6>2 DEF OnCrtc
        <5>2. CASE ~Sets(t, "UpdateCRTC_DoubleBufferRegisters", id)
          BY <3>1, <5>2 DEF OnCrtc
        <5> QED BY <5>1, <5>2
      <4> HIDE DEF t
      <4>3. PICK now \in BOOLEAN, later \in BOOLEAN : (now <=> crtc[id].locked) /\ (later <=> crtc'[id].locked)
        OBVIOUS
      <4>4. Held(todo, p + 1, Unlock(id), Lock(id), now)
        BY <2>4, <4>3 DEF Held
      <4>5. Held(Tail(todo), (p + 1) - 1, Unlock(id), Lock(id), later)
        BY <1>1, <2>1, <4>1, <4>2, <4>3, <4>4, HeldNext DEF t
      <4>6. Held(todo', p, Unlock(id), Lock(id), later)
        BY <1>1, <2>1, <4>5
      <4> QED BY <4>3, <4>6 DEF Held
    <3>5. id \in Attached' /\ todo'[p] \in Changes(id)'
      BY <1>1, <2>1, <2>4, SameBoard
    <3> QED BY <3>3, <3>4, <3>5 DEF QuietAt, PowerOn, PowerOff, Lock, Unlock, Held
  <2> QED BY <2>2, <2>3, <2>4 DEF QuietAt
<1> QED BY <1>2, <1>3, <1>4 DEF QuietInv, QuietTodo

LEMMA QuietKept == QuietInv /\ [SettingNext]_settingVars => QuietInv'
<1> SUFFICES ASSUME QuietInv, [SettingNext]_settingVars PROVE QuietInv'
  OBVIOUS
<1>1. CASE SettingNext
  BY <1>1, SetModeQuiet, DpmsQuiet, CommandQuiet DEF SettingNext
<1>2. CASE UNCHANGED settingVars
  <2>1. board' = board /\ todo' = todo /\ crtc' = crtc /\ powered' = powered /\ critical' = critical
    BY <1>2 DEF settingVars, hw
  <2>2. SettingTypes' /\ Routed'
    BY <2>1, SameBoard DEF QuietInv, SettingTypes, Routed
  <2>3. ASSUME NEW p \in 1 .. Len(todo) PROVE QuietAt(p)'
    <3>1. QuietAt(p)
      BY DEF QuietInv, QuietTodo
    <3> QED BY <2>1, <3>1, SameBoard DEF QuietAt, Held, PowerOn, PowerOff, Lock, Unlock
  <2> QED BY <2>1, <2>2, <2>3 DEF QuietInv, QuietTodo
<1> QED BY <1>1, <1>2

-----------------------------------------------------------------------------
(* What is done to a CRTC that shows something is not a change.             *)
LEMMA ChangeIsQuiet ==
  ASSUME QuietInv, todo # <<>>, NEW t, t = Head(todo), NEW id \in Display
  PROVE  /\ t[1] = "DIGxEncoderControl" /\ t[3] \in {"SETUP", "ENABLE"} =>
              \E j \in Attached :
                /\ t[2] = ConnOf(j) /\ Enc(ConnOf(j)) \in Digital
                /\ ~crtc[j].power /\ crtc[j].locked
         /\ t[1] \in {"SelectCRTC_Source", "SetPixelClock", "SetCRTC_UsingDTDTiming",
                      "display_crtc_fb_set"} /\ t[2] = id =>
              ~crtc[id].power /\ crtc[id].locked
<1>1. todo \in Seq(Commands) /\ todo[1] = t /\ 1 \in 1 .. Len(todo)
  BY DEF QuietInv, SettingTypes
<1>2. QuietAt(1)
  BY <1>1 DEF QuietInv, QuietTodo
<1>3. CASE t \in Others
  <2>1. ~SetsUp(t) /\ t[1] \notin {"SelectCRTC_Source", "SetPixelClock", "SetCRTC_UsingDTDTiming",
                                    "display_crtc_fb_set"}
    <3>1. CASE t \in Switches \X Display \X BOOLEAN
      BY <3>1 DEF Switches, SetsUp
    <3>2. CASE t \in {"encoder_output_lock"} \X Display \X BOOLEAN
      BY <3>2 DEF SetsUp
    <3>3. CASE t \in {"dpms_mode"} \X {0} \X {"ON", "STAND_BY", "OFF"}
      BY <3>3 DEF SetsUp
    <3>4. CASE t \in Tells
      BY <3>4 DEF Tells, Told
    <3> QED BY <1>3, <3>1, <3>2, <3>3, <3>4 DEF Others
  <2> QED BY <2>1 DEF SetsUp
<1>4. ASSUME NEW j \in Attached, t \in Changes(j),
             Held(todo, 1, PowerOn(j), PowerOff(j), ~crtc[j].power),
             Held(todo, 1, Unlock(j), Lock(j), crtc[j].locked)
      PROVE  /\ ~crtc[j].power /\ crtc[j].locked
             /\ \/ t[1] \in {"SelectCRTC_Source", "SetPixelClock", "SetCRTC_UsingDTDTiming",
                             "display_crtc_fb_set"} /\ t[2] = j
                \/ t[1] = "DIGxEncoderControl" /\ t[2] = ConnOf(j) /\ Enc(ConnOf(j)) \in Digital
  <2>1. ~crtc[j].power /\ crtc[j].locked
    <3>1. 1 .. 1 - 1 = {}
      OBVIOUS
    <3> QED BY <1>4, <3>1 DEF Held
  <2>2. CASE t \in Selects(j)
    BY <2>1, <2>2 DEF Selects
  <2>3. CASE t \in SetUps(j)
    BY <2>1, <2>3 DEF SetUps
  <2> QED BY <1>4, <2>2, <2>3 DEF Changes
<1>5. CASE \E j \in Attached : /\ t \in Changes(j)
                               /\ Held(todo, 1, PowerOn(j), PowerOff(j), ~crtc[j].power)
                               /\ Held(todo, 1, Unlock(j), Lock(j), crtc[j].locked)
  <2>1. PICK j \in Attached : /\ t \in Changes(j)
                              /\ Held(todo, 1, PowerOn(j), PowerOff(j), ~crtc[j].power)
                              /\ Held(todo, 1, Unlock(j), Lock(j), crtc[j].locked)
    BY <1>5
  <2> QED BY <1>4, <2>1
<1> QED BY <1>1, <1>2, <1>3, <1>5 DEF QuietAt

(* Which DIG encoder gets another mode.                                    *)
LEMMA SetUpIs ==
  ASSUME todo # <<>>, SettingNext, NEW k \in DOMAIN dig, dig'[k].mode # dig[k].mode, NEW t, t = Head(todo)
  PROVE  t[1] = "DIGxEncoderControl" /\ t[3] \in {"SETUP", "ENABLE"} /\ k = encoder_pick_dig(t[2])
<1>1. dig' # dig
  OBVIOUS
<1>2. DIGxEncoderControl
  BY <1>1, Zenon DEF SettingNext, Command, radeon_set_display_mode, radeon_dpms_set, SetDpmsMode,
     encoder_output_lock, EnableCRTC, CrtcCommand, SetPixelClock, display_crtc_fb_set,
     TransmitterControl, OutputStage, EncoderSetup, TVEncoderControl, WriteDataFormat,
     ExternalEncoderControl, dp_link_train, hw
<1>3. /\ t[1] = "DIGxEncoderControl" /\ Which = t[2] /\ Arg = t[3]
      /\ dig' = [dig EXCEPT ![encoder_pick_dig(Which)] =
                  [cmd  |-> Arg,
                   mode |-> IF Arg \in {"SETUP", "ENABLE"} THEN pixelClock[Which] ELSE @.mode]]
  BY <1>2 DEF DIGxEncoderControl, Is, Which, Arg
<1> QED BY <1>3

THEOREM QuietStep == QuietInv /\ [SettingNext]_settingVars =>
  (todo # <<>> =>
     /\ \A id \in Display :
          \/ \A f \in {"timing", "fb", "pll", "src"} : crtc'[id][f] = crtc[id][f]
          \/ ~crtc[id].power /\ crtc[id].locked
     /\ \A k \in DOMAIN dig :
          dig'[k].mode # dig[k].mode =>
            \A id \in Display : crtc[id].src = <<"DIG", k>> => ~crtc[id].power)
<1> SUFFICES ASSUME QuietInv, [SettingNext]_settingVars, todo # <<>>
    PROVE  /\ \A id \in Display :
                \/ \A f \in {"timing", "fb", "pll", "src"} : crtc'[id][f] = crtc[id][f]
                \/ ~crtc[id].power /\ crtc[id].locked
           /\ \A k \in DOMAIN dig :
                dig'[k].mode # dig[k].mode =>
                  \A id \in Display : crtc[id].src = <<"DIG", k>> => ~crtc[id].power
  OBVIOUS
<1> DEFINE t == Head(todo)
<1>1. CASE UNCHANGED settingVars
  <2>1. crtc' = crtc /\ dig' = dig
    BY <1>1 DEF settingVars, hw
  <2> QED BY <2>1
<1>2. CASE SettingNext
  <2>1. Effect(t)
    <3>1. Command
      BY <1>2, Zenon DEF SettingNext, radeon_set_display_mode, radeon_dpms_set
    <3> QED BY <3>1, CommandEffect DEF QuietInv
  <2>2. ASSUME NEW id \in Display
        PROVE  \/ \A f \in {"timing", "fb", "pll", "src"} : crtc'[id][f] = crtc[id][f]
               \/ ~crtc[id].power /\ crtc[id].locked
    <3>1. OnCrtc(t, id)
      BY <2>1 DEF Effect
    <3>2. CASE t[1] \in {"SelectCRTC_Source", "SetPixelClock", "SetCRTC_UsingDTDTiming",
                         "display_crtc_fb_set"} /\ t[2] = id
      BY <3>2, ChangeIsQuiet
    <3>3. CASE ~(t[1] \in {"SelectCRTC_Source", "SetPixelClock", "SetCRTC_UsingDTDTiming",
                           "display_crtc_fb_set"} /\ t[2] = id)
      <4>1. /\ crtc'[id].timing = crtc[id].timing /\ crtc'[id].fb = crtc[id].fb
            /\ crtc'[id].pll = crtc[id].pll /\ crtc'[id].src = crtc[id].src
        BY <3>1, <3>3 DEF OnCrtc, Sets
      <4> QED BY <4>1
    <3> QED BY <3>2, <3>3
  <2>3. ASSUME NEW k \in DOMAIN dig, dig'[k].mode # dig[k].mode, NEW id \in Display,
               crtc[id].src = <<"DIG", k>>
        PROVE  ~crtc[id].power
    <3>1. t[1] = "DIGxEncoderControl" /\ t[3] \in {"SETUP", "ENABLE"} /\ k = encoder_pick_dig(t[2])
      BY <1>2, <2>3, SetUpIs
    <3>2. PICK j \in Attached : /\ t[2] = ConnOf(j) /\ Enc(ConnOf(j)) \in Digital /\ ~crtc[j].power
      BY <3>1, ChangeIsQuiet
    <3>3. On(id) /\ Route(ConnOf(id)) = <<"DIG", k>>
      <4>1. <<"boot", 0>> # <<"DIG", k>>
      OBVIOUS
    <4> QED BY <2>3, <4>1 DEF QuietInv, Routed
    <3>4. Enc(ConnOf(id)) \in Digital /\ encoder_pick_dig(ConnOf(id)) = k
      BY <3>3 DEF Route
    <3>5. j \in Display /\ On(j) /\ OwnDig(board)
      BY <3>2, OnBoard DEF Attached, QuietInv, SettingTypes
    <3>6. PickDig(board, ConnOf(id)) = PickDig(board, ConnOf(j))
      BY <3>1, <3>2, <3>4 DEF encoder_pick_dig
    <3>7. id = j
      BY <3>2, <3>3, <3>4, <3>5, <3>6 DEF OwnDig, On, ConnOf, Enc
    <3> QED BY <3>2, <3>7
  <2> QED BY <2>2, <2>3
<1> QED BY <1>1, <1>2

(* At any moment of any sequence of calls what is to be done keeps each     *)
(* change behind the commands that turn its CRTC off and lock it.           *)
THEOREM ModeSetInvariant == SettingSpec => []QuietInv
BY QuietInit, QuietKept, PTL DEF SettingSpec

(* Timing, framebuffer, clock source and route of a CRTC change only while  *)
(* it is off and its registers are locked, and a DIG encoder is set up for  *)
(* a mode only while no CRTC sends through it (mode.cpp:179-206).           *)
THEOREM ChangesAreQuiet == SettingSpec => QuietChange
<1>1. QuietInv /\ [SettingNext]_settingVars =>
        [todo # <<>> =>
           /\ \A id \in Display :
                \/ \A f \in {"timing", "fb", "pll", "src"} : crtc'[id][f] = crtc[id][f]
                \/ ~crtc[id].power /\ crtc[id].locked
           /\ \A k \in DOMAIN dig :
                dig'[k].mode # dig[k].mode =>
                  \A id \in Display : crtc[id].src = <<"DIG", k>> => ~crtc[id].power]_settingVars
  BY QuietStep
<1> QED BY <1>1, ModeSetInvariant, PTL DEF SettingSpec, QuietChange

-----------------------------------------------------------------------------
(* What a call leaves behind.  A CRTC shows, that is it is not blanked,     *)
(* only while it runs and may fetch memory; so the commands that unblank it *)
(* have those before them that switch it on and let it fetch, and the ones  *)
(* that switch it off or take its memory away have it blanked before.       *)
Show(id)    == {<<"BlankCRTC", id, FALSE>>}
Blank(id)   == {<<"BlankCRTC", id, TRUE>>}
Fetch(id)   == {<<"EnableCRTCMemReq", id, TRUE>>}
Starve(id)  == {<<"EnableCRTCMemReq", id, FALSE>>}
Critical(v) == {"encoder_output_lock"} \X Display \X {v}

ShowAt(s, p, id, power, blank, memreq) ==
  /\ s[p] \in Show(id) =>
       /\ Held(s, p, PowerOff(id), PowerOn(id), power)
       /\ Major >= 3 => Held(s, p, Starve(id), Fetch(id), memreq)
  /\ s[p] \in PowerOff(id) \cup Starve(id) => Held(s, p, Show(id), Blank(id), blank)

(* The same of a whole sequence that may begin with the CRTC blanked.       *)
ShowSafe(s, id, blank) ==
  \A p \in 1 .. Len(s) : ShowAt(s, p, id, FALSE, blank, FALSE)

(* What s leaves as it was or brings about.                                *)
Keeps(s, on, off) == Held(s, Len(s) + 1, on, off, TRUE)

-----------------------------------------------------------------------------
(* Sequences one behind the other.                                         *)
LEMMA HeldNone ==
  ASSUME NEW s, NEW p, NEW on, NEW off, NEW now, now, \A q \in 1 .. p - 1 : s[q] \notin on
  PROVE  Held(s, p, on, off, now)
BY DEF Held

LEMMA HeldMono ==
  ASSUME NEW s, NEW p, NEW on, NEW off, Held(s, p, on, off, FALSE), NEW now
  PROVE  Held(s, p, on, off, now)
BY DEF Held

(* What s leaves is now for t behind it.                                   *)
LEMMA HeldJoin ==
  ASSUME NEW S, NEW on, NEW off, NEW s \in Seq(S), NEW t \in Seq(S), NEW u, u = s \o t,
         NEW now, NEW p \in 1 .. Len(t) + 1, NEW x, x = Len(s) + p,
         Held(t, p, on, off, TRUE), Held(s, Len(s) + 1, on, off, now)
  PROVE  Held(u, x, on, off, now)
<1>1. /\ Len(s) \in Nat /\ Len(t) \in Nat
      /\ \A i \in 1 .. Len(s) : u[i] = s[i]
      /\ \A i \in Len(s) + 1 .. Len(s) + Len(t) : u[i] = t[i - Len(s)]
  BY Joined
<1>2. ASSUME NEW q \in 1 .. p - 1, t[q] \in off, \A r \in q + 1 .. p - 1 : t[r] \notin on
      PROVE  Held(u, x, on, off, now)
  <2>1. /\ Len(s) + q \in 1 .. x - 1 /\ Len(s) + q \in Len(s) + 1 .. Len(s) + Len(t)
        /\ Len(s) + q - Len(s) = q
    BY <1>1
  <2>2. PICK y \in 1 .. x - 1 : y = Len(s) + q
    BY <2>1
  <2>3. u[y] \in off
    BY <1>1, <1>2, <2>1, <2>2
  <2>4. ASSUME NEW r \in y + 1 .. x - 1 PROVE u[r] \notin on
    <3>1. r \in Len(s) + 1 .. Len(s) + Len(t) /\ r - Len(s) \in q + 1 .. p - 1
      BY <1>1, <2>2
    <3> QED BY <3>1, <1>1, <1>2
  <2> QED BY <2>3, <2>4, HeldIf
<1>3. ASSUME \A q \in 1 .. p - 1 : t[q] \notin on
      PROVE  Held(u, x, on, off, now)
  <2>2. ASSUME NEW r \in Len(s) + 1 .. x - 1 PROVE u[r] \notin on
    <3>1. r \in Len(s) + 1 .. Len(s) + Len(t) /\ r - Len(s) \in 1 .. p - 1
      BY <1>1
    <3> QED BY <3>1, <1>1, <1>3
  <2>3. ASSUME NEW q \in 1 .. Len(s) + 1 - 1, s[q] \in off,
               \A r \in q + 1 .. Len(s) + 1 - 1 : s[r] \notin on
        PROVE  Held(u, x, on, off, now)
    <3>1. q \in 1 .. x - 1 /\ q \in 1 .. Len(s) /\ u[q] \in off
      BY <1>1, <2>3
    <3>2. ASSUME NEW r \in q + 1 .. x - 1 PROVE u[r] \notin on
      <4>1. CASE r <= Len(s)
        BY <1>1, <2>3, <4>1
      <4>2. CASE r > Len(s)
        BY <1>1, <2>2, <4>2
      <4> QED BY <4>1, <4>2, <1>1
    <3> QED BY <3>1, <3>2, HeldIf
  <2>4. ASSUME now, \A q \in 1 .. Len(s) + 1 - 1 : s[q] \notin on
        PROVE  Held(u, x, on, off, now)
    <3>1. ASSUME NEW r \in 1 .. x - 1 PROVE u[r] \notin on
      <4>1. CASE r <= Len(s)
        BY <1>1, <2>4, <4>1
      <4>2. CASE r > Len(s)
        BY <1>1, <2>2, <4>2
      <4> QED BY <4>1, <4>2, <1>1
    <3> QED BY <3>1, <2>4, HeldNone
  <2>5. \/ \E q \in 1 .. Len(s) + 1 - 1 :
             s[q] \in off /\ \A r \in q + 1 .. Len(s) + 1 - 1 : s[r] \notin on
        \/ now /\ \A q \in 1 .. Len(s) + 1 - 1 : s[q] \notin on
    BY DEF Held
  <2> QED BY <2>3, <2>4, <2>5
<1> QED BY <1>2, <1>3 DEF Held

LEMMA KeepsJoin ==
  ASSUME NEW S, NEW on, NEW off, NEW s \in Seq(S), NEW t \in Seq(S),
         Keeps(s, on, off), Keeps(t, on, off)
  PROVE  Keeps(s \o t, on, off)
<1>1. PICK u : u = s \o t
  OBVIOUS
<1>2. Len(s) \in Nat /\ Len(t) \in Nat /\ Len(u) = Len(s) + Len(t)
  BY <1>1, Joined
<1>3. PICK p \in 1 .. Len(t) + 1 : p = Len(t) + 1
  BY <1>2
<1>4. Len(u) + 1 = Len(s) + p
  BY <1>2, <1>3
<1>5. Held(s, Len(s) + 1, on, off, TRUE) /\ Held(t, p, on, off, TRUE)
  BY <1>3 DEF Keeps
<1>6. PICK x : x = Len(s) + p
  OBVIOUS
<1>7. Held(u, x, on, off, TRUE)
  BY <1>1, <1>5, <1>6, HeldJoin
<1> QED BY <1>1, <1>4, <1>6, <1>7 DEF Keeps

LEMMA KeepsNone ==
  ASSUME NEW S, NEW on, NEW off, NEW s \in Seq(S), S \cap on = {}
  PROVE  Keeps(s, on, off)
<1>1. Len(s) \in Nat /\ \A q \in 1 .. Len(s) : s[q] \notin on
  BY Members
<1>2. \A q \in 1 .. Len(s) + 1 - 1 : s[q] \notin on
  BY <1>1
<1> QED BY <1>2 DEF Keeps, Held

(* And what it leaves, it keeps.                                           *)
LEMMA LeavesKeeps ==
  ASSUME NEW S, NEW on, NEW off, NEW s \in Seq(S), Leaves(s, on, off)
  PROVE  /\ Keeps(s, on, off)
         /\ Held(s, Len(s) + 1, on, off, FALSE)
<1>1. Len(s) \in Nat /\ Len(s) + 1 - 1 = Len(s)
  BY Members
<1> QED BY <1>1 DEF Leaves, Keeps, Held

LEMMA ShowJoin ==
  ASSUME NEW S, NEW s \in Seq(S), NEW t \in Seq(S), NEW id,
         NEW blank \in BOOLEAN, NEW then \in BOOLEAN,
         ShowSafe(s, id, blank), ShowSafe(t, id, then),
         then => Held(s, Len(s) + 1, Show(id), Blank(id), blank)
  PROVE  ShowSafe(s \o t, id, blank)
<1>1. PICK u : u = s \o t
  OBVIOUS
<1>2. /\ Len(s) \in Nat /\ Len(t) \in Nat /\ Len(u) = Len(s) + Len(t)
      /\ \A i \in Len(s) + 1 .. Len(s) + Len(t) : u[i] = t[i - Len(s)]
  BY <1>1, Joined
<1>3. ASSUME NEW x \in 1 .. Len(s) PROVE ShowAt(u, x, id, FALSE, blank, FALSE)
  <2>1. ShowAt(s, x, id, FALSE, blank, FALSE)
    BY DEF ShowSafe
  <2>2. \A on, off : /\ Held(s, x, on, off, FALSE) => Held(u, x, on, off, FALSE)
                     /\ Held(s, x, on, off, blank) => Held(u, x, on, off, blank)
    BY <1>1, HeldBefore
  <2>3. u[x] = s[x]
    BY <1>1, Joined
  <2> QED BY <2>1, <2>2, <2>3 DEF ShowAt
<1>4. ASSUME NEW x \in Len(s) + 1 .. Len(s) + Len(t) PROVE ShowAt(u, x, id, FALSE, blank, FALSE)
  <2>1. PICK p \in 1 .. Len(t) : p = x - Len(s)
    BY <1>2
  <2>2. p \in 1 .. Len(t) + 1 /\ x = Len(s) + p
    BY <1>2, <2>1
  <2>6. ShowAt(t, p, id, FALSE, then, FALSE)
    BY DEF ShowSafe
  <2>3. \A on, off : Held(t, p, on, off, FALSE) => Held(u, x, on, off, FALSE)
    <3> SUFFICES ASSUME NEW on, NEW off, Held(t, p, on, off, FALSE) PROVE Held(u, x, on, off, FALSE)
      OBVIOUS
    <3> QED BY <1>1, <2>1, <2>2, HeldAfter
  <2>4. \A on, off : Held(t, p, on, off, then) /\ (then => Held(s, Len(s) + 1, on, off, blank))
                       => Held(u, x, on, off, blank)
    <3> SUFFICES ASSUME NEW on, NEW off, Held(t, p, on, off, then),
                        then => Held(s, Len(s) + 1, on, off, blank)
                 PROVE  Held(u, x, on, off, blank)
      OBVIOUS
    <3>1. CASE then
      <4>1. Held(t, p, on, off, TRUE)
        BY <3>1 DEF Held
      <4>2. Held(s, Len(s) + 1, on, off, blank)
        BY <3>1
      <4> QED BY <1>1, <2>2, <4>1, <4>2, HeldJoin
    <3>2. CASE ~then
      <4>1. Held(t, p, on, off, FALSE)
        BY <3>2 DEF Held
      <4>2. Held(u, x, on, off, FALSE)
        BY <1>1, <2>1, <2>2, <4>1, HeldAfter
      <4> QED BY <4>2 DEF Held
    <3> QED BY <3>1, <3>2
  <2>5. u[x] = t[p]
    BY <1>2, <2>1
  <2> QED BY <2>3, <2>4, <2>5, <2>6 DEF ShowAt
<1>5. \A x \in 1 .. Len(u) : x \in 1 .. Len(s) \/ x \in Len(s) + 1 .. Len(s) + Len(t)
  BY <1>2
<1> QED BY <1>1, <1>3, <1>4, <1>5 DEF ShowSafe

(* A sequence without switches of a display is safe for it.                *)
LEMMA ShowNone ==
  ASSUME NEW S, NEW s \in Seq(S), NEW id, NEW blank \in BOOLEAN,
         S \cap (Show(id) \cup PowerOff(id) \cup Starve(id)) = {}
  PROVE  ShowSafe(s, id, blank)
<1>1. \A p \in 1 .. Len(s) : s[p] \notin Show(id) /\ s[p] \notin PowerOff(id) \cup Starve(id)
  BY Members
<1> QED BY <1>1 DEF ShowSafe, ShowAt


-----------------------------------------------------------------------------
(* The parts of a call.  A part is about one display.                      *)
Powers(id)   == {"EnableCRTC", "BlankCRTC", "EnableCRTCMemReq"} \X {id} \X BOOLEAN
Latches(id)  == {"UpdateCRTC_DoubleBufferRegisters"} \X {id} \X BOOLEAN
OutLocks(id) == {"encoder_output_lock"} \X {id} \X BOOLEAN
Bare(id)     == Tells \cup Changes(id)
Part(id)     == Bare(id) \cup Powers(id) \cup Latches(id) \cup OutLocks(id)

LEMMA BareIs ==
  ASSUME NEW id \in Display, NEW t \in Bare(id)
  PROVE  t[1] \notin Switches \cup {"encoder_output_lock"}
<1>1. t \in Tells => t[1] \in Told
  BY DEF Tells
<1>2. t \in SetUps(id) => t[1] = "DIGxEncoderControl"
  BY DEF SetUps
<1>3. t \in Selects(id) =>
        t[1] \in {"SelectCRTC_Source", "SetPixelClock", "SetCRTC_UsingDTDTiming", "display_crtc_fb_set"}
  BY DEF Selects
<1> QED BY <1>1, <1>2, <1>3 DEF Told, Bare, Changes, Switches

(* The names of what is switched, and that a part leaves others alone.      *)
LEMMA SwitchNames ==
  ASSUME NEW id
  PROVE  /\ \A t \in Show(id) \cup Blank(id) : t[1] = "BlankCRTC" /\ t[2] = id
         /\ \A t \in PowerOn(id) \cup PowerOff(id) : t[1] = "EnableCRTC" /\ t[2] = id
         /\ \A t \in Fetch(id) \cup Starve(id) : t[1] = "EnableCRTCMemReq" /\ t[2] = id
         /\ \A t \in Lock(id) \cup Unlock(id) :
              t[1] = "UpdateCRTC_DoubleBufferRegisters" /\ t[2] = id
         /\ \A v : \A t \in Critical(v) : t[1] = "encoder_output_lock"
<1>1. \A n, v : <<n, id, v>>[1] = n /\ <<n, id, v>>[2] = id
  OBVIOUS
<1>2. \A v : \A t \in Critical(v) : t[1] = "encoder_output_lock"
  BY DEF Critical
<1> QED BY <1>1, <1>2 DEF Show, Blank, PowerOn, PowerOff, Fetch, Starve, Lock, Unlock

LEMMA PartApart ==
  ASSUME NEW id \in Display, NEW j \in Display
  PROVE  /\ (Bare(j) \cup Latches(j) \cup OutLocks(j)) \cap (Show(id) \cup PowerOff(id) \cup Starve(id)) = {}
         /\ (Bare(j) \cup Powers(j) \cup OutLocks(j)) \cap (Lock(id) \cup Unlock(id)) = {}
         /\ (Bare(j) \cup Powers(j) \cup Latches(j)) \cap Critical(TRUE) = {}
         /\ j # id => Part(j) \cap (Show(id) \cup PowerOff(id) \cup Starve(id) \cup Lock(id) \cup Unlock(id)) = {}
<1>1. \A t \in Bare(j) : t[1] \notin Switches \cup {"encoder_output_lock"}
  BY BareIs
<1>2. \A t \in Powers(j) : t[1] \in {"EnableCRTC", "BlankCRTC", "EnableCRTCMemReq"} /\ t[2] = j
  BY DEF Powers
<1>3. \A t \in Latches(j) : t[1] = "UpdateCRTC_DoubleBufferRegisters" /\ t[2] = j
  BY DEF Latches
<1>4. \A t \in OutLocks(j) : t[1] = "encoder_output_lock" /\ t[2] = j
  BY DEF OutLocks
<1>5. (Bare(j) \cup Latches(j) \cup OutLocks(j)) \cap (Show(id) \cup PowerOff(id) \cup Starve(id)) = {}
  BY <1>1, <1>3, <1>4, SwitchNames DEF Switches
<1>6. (Bare(j) \cup Powers(j) \cup OutLocks(j)) \cap (Lock(id) \cup Unlock(id)) = {}
  BY <1>1, <1>2, <1>4, SwitchNames DEF Switches
<1>7. (Bare(j) \cup Powers(j) \cup Latches(j)) \cap Critical(TRUE) = {}
  <2>1. \A t \in Critical(TRUE) : t[1] = "encoder_output_lock"
    BY DEF Critical
  <2> QED BY <1>1, <1>2, <1>3, <2>1 DEF Switches
<1>8. j # id => Powers(j) \cap (Show(id) \cup PowerOff(id) \cup Starve(id)) = {}
  BY <1>2, SwitchNames
<1>9. j # id => Latches(j) \cap (Lock(id) \cup Unlock(id)) = {}
  BY <1>3, SwitchNames
<1> QED BY <1>5, <1>6, <1>7, <1>8, <1>9 DEF Part

LEMMA ShowOne ==
  ASSUME NEW id, NEW t, t \notin Show(id)
  PROVE  ShowSafe(<<t>>, id, TRUE)
<1>1. PICK s : s = <<t>>
  OBVIOUS
<1>2. Len(s) = 1 /\ s[1] = t /\ 1 .. 1 - 1 = {}
  BY <1>1
<1>3. \A q \in 1 .. 1 - 1 : s[q] \notin Show(id)
  BY <1>2
<1>4. Held(s, 1, Show(id), Blank(id), TRUE)
  BY <1>3 DEF Held
<1>5. ShowAt(s, 1, id, FALSE, TRUE, FALSE)
  BY <1>2, <1>4 DEF ShowAt
<1>6. \A p \in 1 .. Len(s) : p = 1
  BY <1>2
<1> QED BY <1>1, <1>5, <1>6 DEF ShowSafe

(* Switched off, a CRTC that was on is blanked first.                      *)
LEMMA DarkShows ==
  ASSUME NEW id \in Display, NEW dark \in BOOLEAN, dark <=> ~powered[id]
  PROVE  /\ display_crtc_dpms(id, FALSE) \in Seq(Powers(id))
         /\ ShowSafe(display_crtc_dpms(id, FALSE), id, dark)
<1> DEFINE Off1 == When(powered[id], <<<<"BlankCRTC", id, TRUE>>>>)
           Off2 == When(Major >= 3, <<<<"EnableCRTCMemReq", id, FALSE>>>>)
           Off3 == <<<<"EnableCRTC", id, FALSE>>>>
           X    == Powers(id) \ Show(id)
           Y    == Powers(id) \ (Show(id) \cup PowerOff(id) \cup Starve(id))
<1>1. /\ <<"BlankCRTC", id, TRUE>> \in X /\ <<"EnableCRTCMemReq", id, FALSE>> \in X
      /\ <<"EnableCRTC", id, FALSE>> \in X
  BY DEF Powers, Show
<1>2. <<"BlankCRTC", id, TRUE>> \in Y
  BY DEF Powers, Show, PowerOff, Starve
<1>3. /\ ShowSafe(<<<<"EnableCRTCMemReq", id, FALSE>>>>, id, TRUE)
      /\ ShowSafe(<<<<"EnableCRTC", id, FALSE>>>>, id, TRUE)
  BY <1>1, ShowOne
<1>4. ShowSafe(<<>>, id, TRUE)
  BY DEF ShowSafe
<1>5. Y \cap (Show(id) \cup PowerOff(id) \cup Starve(id)) = {} /\ X \cap Show(id) = {} /\ Y \subseteq X
  OBVIOUS
<1>6. /\ Off1 \in Seq(Y) /\ Off1 \in Seq(X) /\ Off2 \in Seq(X) /\ Off3 \in Seq(X)
  <2>1. <<<<"BlankCRTC", id, TRUE>>>> \in Seq(Y) /\ <<<<"BlankCRTC", id, TRUE>>>> \in Seq(X)
        /\ <<<<"EnableCRTCMemReq", id, FALSE>>>> \in Seq(X) /\ Off3 \in Seq(X)
    <3> HIDE DEF X, Y
    <3> QED BY <1>1, <1>2, One
  <2> HIDE DEF X, Y
  <2> QED BY <2>1, WhenIs
<1>7. ShowSafe(Off2, id, TRUE) /\ ShowSafe(Off3, id, TRUE)
  BY <1>3, <1>4 DEF When
<1> HIDE DEF X, Y
<1>8. ShowSafe(Off1, id, dark)
  BY <1>5, <1>6, ShowNone
<1>9. Held(Off1, Len(Off1) + 1, Show(id), Blank(id), dark)
  <2>1. CASE powered[id]
    <3>1. Leaves(Off1, Show(id), Blank(id))
      BY <2>1, LeavesOne DEF When, Blank
    <3>2. Held(Off1, Len(Off1) + 1, Show(id), Blank(id), FALSE)
      BY <3>1, <1>6, LeavesKeeps
    <3> QED BY <3>2, HeldMono
  <2>2. CASE ~powered[id]
    <3>1. Len(Off1) = 0 /\ 1 .. Len(Off1) + 1 - 1 = {}
      BY <2>2 DEF When
    <3> QED BY <2>2, <3>1, HeldNone
  <2> QED BY <2>1, <2>2
<1> HIDE DEF Off1, Off2, Off3
<1>10. ShowSafe(Off1 \o Off2, id, dark) /\ Off1 \o Off2 \in Seq(X)
  BY <1>6, <1>7, <1>8, <1>9, ShowJoin, ConcatProperties
<1>11. Held(Off1 \o Off2, Len(Off1 \o Off2) + 1, Show(id), Blank(id), dark)
  <2>1. Held(Off2, Len(Off2) + 1, Show(id), Blank(id), TRUE)
    BY <1>5, <1>6, KeepsNone DEF Keeps
  <2>2. /\ Len(Off1) \in Nat /\ Len(Off2) \in Nat /\ Len(Off1 \o Off2) = Len(Off1) + Len(Off2)
    BY <1>6, Joined
  <2>3. PICK p \in 1 .. Len(Off2) + 1 : p = Len(Off2) + 1
    BY <2>2
  <2>4. PICK x : x = Len(Off1) + p
    OBVIOUS
  <2>7. PICK u : u = Off1 \o Off2
    OBVIOUS
  <2>8. Held(Off2, p, Show(id), Blank(id), TRUE)
    BY <2>1, <2>3
  <2>5. Held(u, x, Show(id), Blank(id), dark)
    BY <1>6, <1>9, <2>4, <2>7, <2>8, HeldJoin
  <2>6. x = Len(Off1 \o Off2) + 1
    BY <2>2, <2>3, <2>4
  <2> QED BY <2>5, <2>6, <2>7
<1>12. ShowSafe((Off1 \o Off2) \o Off3, id, dark) /\ (Off1 \o Off2) \o Off3 \in Seq(X)
  BY <1>6, <1>7, <1>10, <1>11, ShowJoin, ConcatProperties
<1>13. display_crtc_dpms(id, FALSE) = IF On(id) THEN (Off1 \o Off2) \o Off3 ELSE <<>>
  BY DEF display_crtc_dpms, When, Off1, Off2, Off3
<1>14. ShowSafe(<<>>, id, dark) /\ <<>> \in Seq(X) /\ Seq(X) \subseteq Seq(Powers(id))
  BY DEF ShowSafe, X
<1> QED BY <1>12, <1>13, <1>14

(* Switched on, it is unblanked last.                                      *)
LEMMA LitShows ==
  ASSUME NEW id \in Display, NEW blank \in BOOLEAN
  PROVE  /\ display_crtc_dpms(id, TRUE) \in Seq(Powers(id))
         /\ ShowSafe(display_crtc_dpms(id, TRUE), id, blank)
<1> DEFINE On1 == <<<<"EnableCRTC", id, TRUE>>>>
           On2 == When(Major >= 3, <<<<"EnableCRTCMemReq", id, TRUE>>>>)
           On3 == <<<<"BlankCRTC", id, FALSE>>>>
           X   == Powers(id) \ (Show(id) \cup PowerOff(id) \cup Starve(id))
<1>1. <<"EnableCRTC", id, TRUE>> \in X /\ <<"EnableCRTCMemReq", id, TRUE>> \in X
  BY DEF Powers, Show, PowerOff, Starve
<1>2. /\ <<"BlankCRTC", id, FALSE>> \in Powers(id)
      /\ <<"BlankCRTC", id, FALSE>> \notin PowerOff(id) \cup Starve(id)
  BY DEF Powers, PowerOff, Starve
<1>3. X \cap (Show(id) \cup PowerOff(id) \cup Starve(id)) = {} /\ X \subseteq Powers(id)
  OBVIOUS
<1>4. On1 \in Seq(X) /\ On2 \in Seq(X)
  <2> HIDE DEF X
  <2> QED BY <1>1, One, WhenIs
<1>5. On1 \in Seq(Powers(id)) /\ On2 \in Seq(Powers(id)) /\ On3 \in Seq(Powers(id))
  BY <1>2, <1>3, <1>4, One
<1>6. Leaves(On1, PowerOff(id), PowerOn(id))
  BY LeavesOne DEF PowerOn
<1>7. Major >= 3 => Leaves(On2, Starve(id), Fetch(id))
  BY LeavesOne DEF When, Fetch
<1>8. Len(On3) = 1 /\ On3[1] = <<"BlankCRTC", id, FALSE>>
  OBVIOUS
<1> HIDE DEF X, On1, On2, On3
<1>9. PICK s : s = On1 \o On2
  OBVIOUS
<1>10. s \in Seq(X) /\ s \in Seq(Powers(id))
  BY <1>4, <1>5, <1>9, ConcatProperties
<1>11. \A i \in 1 .. Len(On2) : On2[i] \notin PowerOff(id)
  BY <1>3, <1>4, Members
<1>12. Leaves(s, PowerOff(id), PowerOn(id))
  BY <1>4, <1>6, <1>9, <1>11, LeavesThen
<1>13. Major >= 3 => Leaves(s, Starve(id), Fetch(id))
  BY <1>4, <1>7, <1>9, LeavesLast
<1>14. PICK u : u = s \o On3
  OBVIOUS
<1>15. /\ Len(s) \in Nat /\ Len(u) = Len(s) + 1
       /\ \A i \in 1 .. Len(s) : u[i] = s[i]
       /\ u[Len(s) + 1] = <<"BlankCRTC", id, FALSE>>
  <2>1. /\ Len(u) = Len(s) + Len(On3) /\ Len(s) \in Nat
        /\ \A i \in 1 .. Len(s) : u[i] = s[i]
        /\ \A i \in Len(s) + 1 .. Len(s) + Len(On3) : u[i] = On3[i - Len(s)]
    BY <1>5, <1>10, <1>14, Joined
  <2>2. Len(s) + 1 \in Len(s) + 1 .. Len(s) + Len(On3) /\ Len(s) + 1 - Len(s) = 1
    BY <1>8, <2>1
  <2>3. PICK x \in Len(s) + 1 .. Len(s) + Len(On3) : x = Len(s) + 1
    BY <2>2
  <2>4. u[x] = On3[x - Len(s)] /\ x - Len(s) = 1
    BY <2>1, <2>3
  <2>5. u[Len(s) + 1] = <<"BlankCRTC", id, FALSE>>
    BY <1>8, <2>3, <2>4
  <2> QED BY <1>8, <2>1, <2>5
<1>16. ASSUME NEW x \in 1 .. Len(s) PROVE ShowAt(u, x, id, FALSE, blank, FALSE)
  <2>1. u[x] \in X
    BY <1>10, <1>15, Members
  <2> QED BY <2>1, <1>3 DEF ShowAt
<1>17. ASSUME NEW x, x = Len(s) + 1 PROVE ShowAt(u, x, id, FALSE, blank, FALSE)
  <2>1. PICK p \in 1 .. Len(On3) + 1 : p = 1
    BY <1>8
  <2>2. x = Len(s) + p /\ \A i \in 1 .. p - 1 : On3[i] \notin PowerOff(id) /\ On3[i] \notin Starve(id)
    BY <1>17, <2>1
  <2>3. Held(u, x, PowerOff(id), PowerOn(id), FALSE)
    BY <1>5, <1>10, <1>12, <1>14, <2>2, HeldBehind
  <2>4. Major >= 3 => Held(u, x, Starve(id), Fetch(id), FALSE)
    BY <1>5, <1>10, <1>13, <1>14, <2>2, HeldBehind
  <2>5. u[x] \notin PowerOff(id) \cup Starve(id)
    BY <1>2, <1>15, <1>17
  <2> QED BY <2>3, <2>4, <2>5 DEF ShowAt
<1>18. \A x \in 1 .. Len(u) : x \in 1 .. Len(s) \/ x = Len(s) + 1
  BY <1>15
<1>19. ShowSafe(u, id, blank)
  BY <1>16, <1>17, <1>18 DEF ShowSafe
<1>20. u \in Seq(Powers(id))
  BY <1>5, <1>10, <1>14, ConcatProperties
<1>21. display_crtc_dpms(id, TRUE) = IF On(id) THEN (On1 \o On2) \o On3 ELSE <<>>
  BY DEF display_crtc_dpms, When, On1, On2, On3
<1>22. ShowSafe(<<>>, id, blank) /\ <<>> \in Seq(Powers(id))
  BY DEF ShowSafe
<1> QED BY <1>9, <1>14, <1>19, <1>20, <1>21, <1>22


LEMMA TrainingTells ==
  ASSUME NEW c \in Conn PROVE LinkTraining(c) \in Seq(Tells)
<1>1. encoder_dig_setup(c, "DISABLE") \in Tells
  BY TellsIs DEF Orders
<1>2. <<"dp_link_train", c, "">> \in Tells
  BY Tell DEF Told, Orders
<1>3. <<encoder_dig_setup(c, "DISABLE")>> \in Seq(Tells) /\ <<<<"dp_link_train", c, "">>>> \in Seq(Tells)
  BY <1>1, <1>2, One
<1>4. When(Major >= 4, <<encoder_dig_setup(c, "DISABLE")>>) \in Seq(Tells)
  BY <1>3, WhenIs
<1> QED BY <1>3, <1>4, WhenIs, ConcatProperties DEF LinkTraining

(* What a part of a call that is about one display does for it.            *)
PartRight(s, id, dark) ==
  /\ s \in Seq(Part(id)) /\ ShowSafe(s, id, dark)
  /\ Keeps(s, Lock(id), Unlock(id)) /\ Keeps(s, Critical(TRUE), Critical(FALSE))

LEMMA SeqIn == ASSUME NEW S, NEW T, S \subseteq T PROVE Seq(S) \subseteq Seq(T)
OBVIOUS

LEMMA SetDisplayShows ==
  ASSUME NEW id \in Attached, ConnOf(id) \in Conn, board.apu \in BOOLEAN, NEW mode \in DisplayModes,
         NEW dark \in BOOLEAN, dark <=> ~powered[id]
  PROVE  PartRight(SetDisplay(id, mode), id, dark)
<1> DEFINE OL(v) == <<<<"encoder_output_lock", id, v>>>>
           UP(v) == <<<<"UpdateCRTC_DoubleBufferRegisters", id, v>>>>
           Dark == display_crtc_dpms(id, FALSE)
           LitUp == display_crtc_dpms(id, TRUE)
           A == (OL(TRUE) \o encoder_dpms_set(id, FALSE)) \o UP(TRUE)
           B == A \o Dark
           C == (B \o CrtcSet(id, mode)) \o encoder_mode_set(id)
           E == C \o LitUp
           F == E \o UP(FALSE)
           G == (F \o LinkTraining(ConnOf(id))) \o encoder_dpms_set(id, TRUE)
           H == G \o OL(FALSE)
           Still == Bare(id) \cup Latches(id) \cup OutLocks(id)
           All == Part(id)
<1>1. id \in Display
  BY DEF Attached
<1>2. /\ Still \cap (Show(id) \cup PowerOff(id) \cup Starve(id)) = {}
      /\ (Bare(id) \cup OutLocks(id)) \cap Lock(id) = {}
  BY <1>1, PartApart
<1>3. /\ Bare(id) \subseteq Still /\ Still \subseteq All /\ Powers(id) \subseteq All
      /\ OutLocks(id) \subseteq Still /\ Latches(id) \subseteq Still
      /\ Bare(id) \subseteq Bare(id) \cup OutLocks(id) /\ OutLocks(id) \subseteq Bare(id) \cup OutLocks(id)
  BY DEF Part
<1>4. /\ encoder_dpms_set(id, FALSE) \in Seq(Bare(id)) /\ encoder_dpms_set(id, TRUE) \in Seq(Bare(id))
      /\ LinkTraining(ConnOf(id)) \in Seq(Bare(id))
  <2>1. Tells \subseteq Bare(id)
    BY DEF Bare
  <2>2. Seq(Tells) \subseteq Seq(Bare(id))
    BY <2>1, SeqIn
  <2>3. encoder_dpms_set(id, FALSE) \in Seq(Tells) /\ encoder_dpms_set(id, TRUE) \in Seq(Tells)
    BY <1>1, DpmsTells
  <2> QED BY <2>2, <2>3, TrainingTells
<1>5. CrtcSet(id, mode) \in Seq(Bare(id)) /\ encoder_mode_set(id) \in Seq(Bare(id))
  <2>1. Tells \cup SetUps(id) \subseteq Bare(id)
    BY DEF Bare, Changes
  <2>2. Seq(Tells \cup SetUps(id)) \subseteq Seq(Bare(id))
    BY <2>1, SeqIn
  <2>3. encoder_mode_set(id) \in Seq(Tells \cup SetUps(id))
    BY <1>1, ModeSetTells
  <2>4. CrtcSet(id, mode) \in Seq(Bare(id))
    BY <1>1, CrtcSetIs DEF Bare
  <2> QED BY <2>2, <2>3, <2>4
<1>6. \A v \in BOOLEAN : OL(v) \in Seq(OutLocks(id)) /\ UP(v) \in Seq(Latches(id))
  <2>1. \A v \in BOOLEAN : <<"encoder_output_lock", id, v>> \in OutLocks(id)
    BY DEF OutLocks
  <2>2. \A v \in BOOLEAN : <<"UpdateCRTC_DoubleBufferRegisters", id, v>> \in Latches(id)
    BY DEF Latches
  <2> QED BY <2>1, <2>2, One
<1>7. Dark \in Seq(Powers(id)) /\ ShowSafe(Dark, id, dark)
  BY <1>1, DarkShows
<1>8. LitUp \in Seq(Powers(id)) /\ ShowSafe(LitUp, id, FALSE)
  BY <1>1, LitShows
<1>9. Leaves(UP(FALSE), Lock(id), Unlock(id)) /\ Leaves(OL(FALSE), Critical(TRUE), Critical(FALSE))
  <2>1. <<"encoder_output_lock", id, FALSE>> \in Critical(FALSE)
    BY <1>1 DEF Critical
  <2>2. <<"UpdateCRTC_DoubleBufferRegisters", id, FALSE>> \in Unlock(id)
    BY DEF Unlock
  <2> QED BY <2>1, <2>2, LeavesOne
<1>10. SetDisplay(id, mode) = H
  BY DEF SetDisplay
<1>11. /\ Seq(Bare(id)) \subseteq Seq(Still) /\ Seq(OutLocks(id)) \subseteq Seq(Still)
       /\ Seq(Latches(id)) \subseteq Seq(Still) /\ Seq(Still) \subseteq Seq(All) /\ Seq(Powers(id)) \subseteq Seq(All)
       /\ Seq(Bare(id)) \subseteq Seq(Bare(id) \cup OutLocks(id))
       /\ Seq(OutLocks(id)) \subseteq Seq(Bare(id) \cup OutLocks(id))
  BY <1>3, SeqIn
<1> HIDE DEF OL, UP, Dark, LitUp, Still, All
<1>12. A \in Seq(Still) /\ A \in Seq(All)
  BY <1>4, <1>6, <1>11, ConcatProperties
<1>13. ShowSafe(A, id, dark)
  BY <1>2, <1>12, ShowNone
<1>14. dark => Held(A, Len(A) + 1, Show(id), Blank(id), dark)
  <2>1. Still \cap Show(id) = {}
    BY <1>2
  <2>2. Held(A, Len(A) + 1, Show(id), Blank(id), TRUE)
    BY <1>12, <2>1, KeepsNone DEF Keeps
  <2> QED BY <2>2 DEF Held
<1> HIDE DEF A
<1>15. ShowSafe(B, id, dark) /\ B \in Seq(All)
  BY <1>7, <1>11, <1>12, <1>13, <1>14, ShowJoin, ConcatProperties
<1> HIDE DEF B
<1>16. ASSUME NEW s \in Seq(All), ShowSafe(s, id, dark), NEW t \in Seq(All), ShowSafe(t, id, FALSE)
       PROVE  ShowSafe(s \o t, id, dark) /\ s \o t \in Seq(All)
  BY <1>16, ShowJoin, ConcatProperties
<1>17. \A t \in Seq(Still) : t \in Seq(All) /\ ShowSafe(t, id, FALSE)
  BY <1>2, <1>11, ShowNone
<1>18. ShowSafe(C, id, dark) /\ C \in Seq(All)
  BY <1>5, <1>11, <1>15, <1>16, <1>17
<1> HIDE DEF C
<1>19. ShowSafe(E, id, dark) /\ E \in Seq(All)
  BY <1>8, <1>11, <1>16, <1>18
<1> HIDE DEF E
<1>20. UP(FALSE) \in Seq(Still) /\ OL(FALSE) \in Seq(Still)
  BY <1>6, <1>11
<1>21. ShowSafe(F, id, dark) /\ F \in Seq(All)
  BY <1>16, <1>17, <1>19, <1>20
<1>22. Leaves(F, Lock(id), Unlock(id))
  BY <1>9, <1>17, <1>19, <1>20, LeavesLast
<1> HIDE DEF F
<1>23. ShowSafe(G, id, dark) /\ G \in Seq(All)
  BY <1>4, <1>11, <1>16, <1>17, <1>21
<1>24. ASSUME NEW s \in Seq(All), Leaves(s, Lock(id), Unlock(id)), NEW t \in Seq(Bare(id) \cup OutLocks(id)),
              t \in Seq(All)
       PROVE  Leaves(s \o t, Lock(id), Unlock(id)) /\ s \o t \in Seq(All)
  <2>1. \A i \in 1 .. Len(t) : t[i] \in Bare(id) \cup OutLocks(id)
    BY Members
  <2>2. \A i \in 1 .. Len(t) : t[i] \notin Lock(id)
    BY <1>2, <2>1
  <2> QED BY <1>24, <2>2, LeavesThen, ConcatProperties
<1>25. \A t \in Seq(Bare(id)) \cup Seq(OutLocks(id)) :
         t \in Seq(Bare(id) \cup OutLocks(id)) /\ t \in Seq(All)
  BY <1>11
<1>26. Leaves(G, Lock(id), Unlock(id))
  BY <1>4, <1>21, <1>22, <1>24, <1>25
<1> HIDE DEF G
<1>27. Leaves(H, Lock(id), Unlock(id)) /\ H \in Seq(All)
  BY <1>6, <1>23, <1>24, <1>25, <1>26
<1>28. ShowSafe(H, id, dark)
  BY <1>16, <1>17, <1>20, <1>23
<1>29. Leaves(H, Critical(TRUE), Critical(FALSE))
  BY <1>9, <1>17, <1>20, <1>23, LeavesLast
<1>30. Keeps(H, Lock(id), Unlock(id)) /\ Keeps(H, Critical(TRUE), Critical(FALSE))
  BY <1>27, <1>29, LeavesKeeps
<1> QED BY <1>10, <1>27, <1>28, <1>30 DEF PartRight, All

LEMMA DpmsShows ==
  ASSUME NEW id \in Display, ConnOf(id) \in Conn, board.apu \in BOOLEAN, NEW on \in BOOLEAN,
         NEW dark \in BOOLEAN, dark <=> ~powered[id]
  PROVE  PartRight(encoder_dpms_set(id, on) \o display_crtc_dpms(id, on), id, dark)
<1> DEFINE s == encoder_dpms_set(id, on)
           t == display_crtc_dpms(id, on)
<1>1. s \in Seq(Bare(id))
  <2>1. Tells \subseteq Bare(id)
    BY DEF Bare
  <2> QED BY <2>1, SeqIn, DpmsTells
<1>2. t \in Seq(Powers(id)) /\ ShowSafe(t, id, dark)
  <2>1. CASE on
    <3>1. t = display_crtc_dpms(id, TRUE)
      BY <2>1
    <3> QED BY <3>1, LitShows
  <2>2. CASE ~on
    <3>1. t = display_crtc_dpms(id, FALSE)
      BY <2>2
    <3> QED BY <3>1, DarkShows
  <2> QED BY <2>1, <2>2
<1> HIDE DEF s, t
<1>3. /\ Bare(id) \cap (Show(id) \cup PowerOff(id) \cup Starve(id)) = {} /\ Bare(id) \cap Show(id) = {}
      /\ (Bare(id) \cup Powers(id)) \cap Lock(id) = {}
      /\ (Bare(id) \cup Powers(id)) \cap Critical(TRUE) = {}
      /\ Bare(id) \cup Powers(id) \subseteq Part(id)
  BY PartApart DEF Part
<1>4. s \in Seq(Bare(id) \cup Powers(id)) /\ t \in Seq(Bare(id) \cup Powers(id))
  BY <1>1, <1>2, SeqIn
<1>5. s \o t \in Seq(Bare(id) \cup Powers(id))
  BY <1>4, ConcatProperties
<1>6. s \o t \in Seq(Part(id))
  BY <1>3, <1>5, SeqIn
<1>7. ShowSafe(s, id, dark)
  BY <1>1, <1>3, ShowNone
<1>8. dark => Held(s, Len(s) + 1, Show(id), Blank(id), dark)
  <2>1. Held(s, Len(s) + 1, Show(id), Blank(id), TRUE)
    BY <1>1, <1>3, KeepsNone DEF Keeps
  <2> QED BY <2>1 DEF Held
<1>9. ShowSafe(s \o t, id, dark)
  BY <1>2, <1>4, <1>7, <1>8, ShowJoin
<1>10. Keeps(s \o t, Lock(id), Unlock(id)) /\ Keeps(s \o t, Critical(TRUE), Critical(FALSE))
  BY <1>3, <1>5, KeepsNone
<1> QED BY <1>6, <1>9, <1>10 DEF PartRight, s, t


(* The parts of the two displays together.                                 *)
CallRight(u, d) ==
  /\ \A id \in Display : ShowSafe(u, id, d[id]) /\ Keeps(u, Lock(id), Unlock(id))
  /\ Keeps(u, Critical(TRUE), Critical(FALSE))

LEMMA EmptyRight == ASSUME NEW id, NEW dark PROVE PartRight(<<>>, id, dark)
<1>1. PICK s : s = <<>>
  OBVIOUS
<1>2. Len(s) = 0 /\ s \in Seq(Part(id)) /\ 1 .. Len(s) = {} /\ 1 .. Len(s) + 1 - 1 = {}
  BY <1>1
<1>3. \A on, off : Keeps(s, on, off)
  BY <1>2 DEF Keeps, Held
<1> QED BY <1>1, <1>2, <1>3 DEF PartRight, ShowSafe

LEMMA TwoParts ==
  ASSUME NEW d \in [Display -> BOOLEAN], NEW s, NEW t, PartRight(s, 0, d[0]), PartRight(t, 1, d[1])
  PROVE  CallRight(s \o t, d) /\ s \o t \in Seq(Part(0) \cup Part(1))
<1> DEFINE All == Part(0) \cup Part(1)
<1>1. Display = {0, 1} /\ d[0] \in BOOLEAN /\ d[1] \in BOOLEAN
  BY DEF Display, MAX_DISPLAY
<1>2. s \in Seq(Part(0)) /\ t \in Seq(Part(1)) /\ s \in Seq(All) /\ t \in Seq(All)
  <2>1. s \in Seq(Part(0)) /\ t \in Seq(Part(1))
    BY DEF PartRight
  <2> QED BY <2>1, SeqIn
<1>3. /\ Part(0) \cap (Show(1) \cup PowerOff(1) \cup Starve(1)) = {} /\ Part(0) \cap Lock(1) = {}
      /\ Part(1) \cap (Show(0) \cup PowerOff(0) \cup Starve(0)) = {} /\ Part(1) \cap Lock(0) = {}
      /\ Part(0) \cap Show(1) = {}
  BY <1>1, PartApart
<1> HIDE DEF All
<1>4. ShowSafe(s \o t, 0, d[0])
  <2>1. ShowSafe(t, 0, FALSE) /\ ShowSafe(s, 0, d[0])
    BY <1>2, <1>3, ShowNone DEF PartRight
  <2> QED BY <1>1, <1>2, <2>1, ShowJoin
<1>5. ShowSafe(s \o t, 1, d[1])
  <2>1. ShowSafe(s, 1, d[1]) /\ ShowSafe(t, 1, d[1])
    BY <1>1, <1>2, <1>3, ShowNone DEF PartRight
  <2>2. d[1] => Held(s, Len(s) + 1, Show(1), Blank(1), d[1])
    <3>1. Held(s, Len(s) + 1, Show(1), Blank(1), TRUE)
      BY <1>2, <1>3, KeepsNone DEF Keeps
    <3> QED BY <3>1 DEF Held
  <2> QED BY <1>1, <1>2, <2>1, <2>2, ShowJoin
<1>6. Keeps(s \o t, Lock(0), Unlock(0)) /\ Keeps(s \o t, Lock(1), Unlock(1))
  <2>1. Keeps(s, Lock(0), Unlock(0)) /\ Keeps(t, Lock(1), Unlock(1))
    BY DEF PartRight
  <2>2. Keeps(t, Lock(0), Unlock(0)) /\ Keeps(s, Lock(1), Unlock(1))
    BY <1>2, <1>3, KeepsNone
  <2> QED BY <1>2, <2>1, <2>2, KeepsJoin
<1>7. Keeps(s \o t, Critical(TRUE), Critical(FALSE))
  BY <1>2, KeepsJoin DEF PartRight
<1> QED BY <1>1, <1>2, <1>4, <1>5, <1>6, <1>7, ConcatProperties DEF CallRight, All

-----------------------------------------------------------------------------
(* The inductive invariant: what is true of the CRTCs at any moment, what   *)
(* is still to be done in its order, and what will be let go of at its end. *)
Lit(id) ==
  /\ powered[id] = crtc[id].power
  /\ ~crtc[id].blank => crtc[id].power /\ (Major >= 3 => crtc[id].memreq)

ShowTodo(id) ==
  \A p \in 1 .. Len(todo) : ShowAt(todo, p, id, crtc[id].power, crtc[id].blank, crtc[id].memreq)

Released ==
  /\ Held(todo, Len(todo) + 1, Critical(TRUE), Critical(FALSE), ~critical)
  /\ \A id \in Attached : Held(todo, Len(todo) + 1, Lock(id), Unlock(id), ~crtc[id].locked)

ShowInv == (\A id \in Attached : Lit(id) /\ ShowTodo(id)) /\ Released

LEMMA SameSwitches ==
  ASSUME board' = board
  PROVE  /\ Attached' = Attached /\ (Major >= 3)' = (Major >= 3)
  BY DEF Attached, On, Major

LEMMA CallShows ==
  ASSUME QuietInv, ShowInv, todo = <<>>, board' = board, crtc' = crtc, powered' = powered,
         critical' = critical, NEW d, d = [id \in Display |-> ~powered[id]], CallRight(todo', d)
  PROVE  ShowInv'
<1>1. Attached \subseteq Display /\ crtc \in [Display -> Screens] /\ critical \in BOOLEAN
      /\ powered \in [Display -> BOOLEAN]
  BY DEF Attached, QuietInv, SettingTypes
<1>2. Len(todo) + 1 = 1
  OBVIOUS
<1>3. ~critical /\ \A id \in Attached : ~crtc[id].locked
  BY <1>2, HeldFirst DEF ShowInv, Released
<1>4. ASSUME NEW id \in Attached PROVE Lit(id)' /\ ShowTodo(id)'
  <2>1. Lit(id)
    BY DEF ShowInv
  <2>2. Lit(id)'
    BY <2>1, SameSwitches DEF Lit
  <2>3. ShowSafe(todo', id, d[id]) /\ (d[id] <=> ~powered[id])
    BY <1>1 DEF CallRight
  <2>4. d[id] => crtc'[id].blank
    BY <1>1, <2>1, <2>3 DEF Lit, Screens
  <2>5. ASSUME NEW p \in 1 .. Len(todo')
        PROVE  ShowAt(todo', p, id, crtc'[id].power, crtc'[id].blank, crtc'[id].memreq)
    <3>1. ShowAt(todo', p, id, FALSE, d[id], FALSE)
      BY <2>3 DEF ShowSafe
    <3>2. /\ todo'[p] \in Show(id) =>
                 /\ Held(todo', p, PowerOff(id), PowerOn(id), crtc'[id].power)
                 /\ Major >= 3 => Held(todo', p, Starve(id), Fetch(id), crtc'[id].memreq)
      BY <3>1, HeldMono DEF ShowAt
    <3>3. Held(todo', p, Show(id), Blank(id), d[id]) => Held(todo', p, Show(id), Blank(id), crtc'[id].blank)
      BY <2>4 DEF Held
    <3> QED BY <3>1, <3>2, <3>3 DEF ShowAt
  <2> QED BY <2>2, <2>5, SameSwitches DEF ShowTodo, ShowAt, Show, PowerOff, PowerOn, Starve, Fetch, Blank
<1>5. Released'
  <2>1. Held(todo', Len(todo') + 1, Critical(TRUE), Critical(FALSE), TRUE)
    BY DEF CallRight, Keeps
  <2>2. \A id \in Attached : Held(todo', Len(todo') + 1, Lock(id), Unlock(id), TRUE)
    BY <1>1 DEF CallRight, Keeps
  <2>3. Held(todo', Len(todo') + 1, Critical(TRUE), Critical(FALSE), ~critical')
    BY <1>3, <2>1 DEF Held
  <2>4. \A id \in Attached : Held(todo', Len(todo') + 1, Lock(id), Unlock(id), ~crtc'[id].locked)
    BY <1>3, <2>2 DEF Held
  <2> QED BY <2>3, <2>4, SameSwitches DEF Released, Critical, Lock, Unlock
<1> QED BY <1>4, <1>5, SameSwitches DEF ShowInv


(* Calls begin with something to do for each display in its order.         *)
LEMMA PartIsRight ==
  ASSUME QuietInv, NEW k \in 1 .. 2, NEW dark \in BOOLEAN, dark <=> ~powered[k - 1]
  PROVE  /\ k - 1 \in Display /\ ConnOf(k - 1) \in Conn /\ board.apu \in BOOLEAN
         /\ \A mode \in DisplayModes : PartRight(When(On(k - 1), SetDisplay(k - 1, mode)), k - 1, dark)
         /\ \A on \in BOOLEAN :
              PartRight(encoder_dpms_set(k - 1, on) \o display_crtc_dpms(k - 1, on), k - 1, dark)
<1>1. board \in Boards /\ k - 1 \in Display
  BY DEF QuietInv, SettingTypes, Display, MAX_DISPLAY
<1>2. ConnOf(k - 1) \in Conn /\ board.apu \in BOOLEAN
  BY <1>1, OnBoard
<1>3. ASSUME NEW mode \in DisplayModes
      PROVE  PartRight(When(On(k - 1), SetDisplay(k - 1, mode)), k - 1, dark)
  <2>1. CASE On(k - 1)
    <3>1. k - 1 \in Attached
      BY <1>1, <2>1 DEF Attached
    <3> QED BY <1>2, <2>1, <3>1, SetDisplayShows DEF When
  <2>2. CASE ~On(k - 1)
    BY <2>2, EmptyRight DEF When
  <2> QED BY <2>1, <2>2
<1>4. \A on \in BOOLEAN :
        PartRight(encoder_dpms_set(k - 1, on) \o display_crtc_dpms(k - 1, on), k - 1, dark)
  BY <1>1, <1>2, DpmsShows
<1> QED BY <1>1, <1>2, <1>3, <1>4

LEMMA SetModeShows ==
  ASSUME QuietInv, ShowInv, NEW mode \in DisplayModes, radeon_set_display_mode(mode)
  PROVE  ShowInv'
<1> DEFINE f == [k \in 1 .. MAX_DISPLAY |-> When(On(k - 1), SetDisplay(k - 1, mode))]
           d == [id \in Display |-> ~powered[id]]
<1>1. /\ todo = <<>> /\ todo' = FlattenSeq(f)
      /\ board' = board /\ crtc' = crtc /\ powered' = powered /\ critical' = critical
  BY DEF radeon_set_display_mode, hw
<1>2. d \in [Display -> BOOLEAN] /\ Display = {0, 1} /\ (d[0] <=> ~powered[0]) /\ (d[1] <=> ~powered[1])
  <2>1. Display = {0, 1}
    BY DEF Display, MAX_DISPLAY
  <2>2. d[0] = ~powered[0] /\ d[1] = ~powered[1]
    BY <2>1, Zenon
  <2> QED BY <2>1, <2>2
<1>3. f[1] = When(On(1 - 1), SetDisplay(1 - 1, mode)) /\ f[2] = When(On(2 - 1), SetDisplay(2 - 1, mode))
  BY DEF MAX_DISPLAY
<1>4. 1 - 1 = 0 /\ 2 - 1 = 1
  OBVIOUS
<1> HIDE DEF d
<1>5. PartRight(f[1], 0, d[0]) /\ PartRight(f[2], 1, d[1])
  <2>1. PartRight(f[1], 1 - 1, d[0])
    BY <1>2, <1>3, <1>4, PartIsRight
  <2>2. PartRight(f[2], 2 - 1, d[1])
    BY <1>2, <1>3, <1>4, PartIsRight
  <2> QED BY <1>4, <2>1, <2>2
<1>6. FlattenSeq(f) = f[1] \o f[2]
  <2>1. f[1] \in Seq(Part(0) \cup Part(1)) /\ f[2] \in Seq(Part(0) \cup Part(1))
    BY <1>5, SeqIn DEF PartRight
  <2>2. f \in [1 .. 2 -> Seq(Part(0) \cup Part(1))]
    BY <2>1 DEF MAX_DISPLAY
  <2> HIDE DEF f
  <2> QED BY <2>2, FlattenTwo
<1> HIDE DEF f
<1>7. CallRight(todo', d)
  BY <1>1, <1>2, <1>5, <1>6, TwoParts
<1> QED BY <1>1, <1>7, CallShows DEF d

LEMMA DpmsSetShows ==
  ASSUME QuietInv, ShowInv, NEW mode \in {"ON", "STAND_BY", "OFF"}, radeon_dpms_set(mode)
  PROVE  ShowInv'
<1> DEFINE part(id) == encoder_dpms_set(id, mode = "ON") \o display_crtc_dpms(id, mode = "ON")
           f == [k \in 1 .. MAX_DISPLAY |-> part(k - 1)]
           d == [id \in Display |-> ~powered[id]]
           last == <<<<"dpms_mode", 0, mode>>>>
<1>1. /\ todo = <<>> /\ todo' = FlattenSeq(f) \o last
      /\ board' = board /\ crtc' = crtc /\ powered' = powered /\ critical' = critical
  BY DEF radeon_dpms_set, hw
<1>2. d \in [Display -> BOOLEAN] /\ Display = {0, 1} /\ (d[0] <=> ~powered[0]) /\ (d[1] <=> ~powered[1])
  <2>1. Display = {0, 1}
    BY DEF Display, MAX_DISPLAY
  <2>2. d[0] = ~powered[0] /\ d[1] = ~powered[1]
    BY <2>1, Zenon
  <2> QED BY <2>1, <2>2
<1>4. 1 - 1 = 0 /\ 2 - 1 = 1
  OBVIOUS
<1> HIDE DEF d
<1>5. PartRight(part(0), 0, d[0]) /\ PartRight(part(1), 1, d[1])
  <2>1. PICK on \in BOOLEAN : on = (mode = "ON")
    OBVIOUS
  <2>2. \A id : part(id) = encoder_dpms_set(id, on) \o display_crtc_dpms(id, on)
    BY <2>1
  <2> HIDE DEF part
  <2>3. PartRight(encoder_dpms_set(1 - 1, on) \o display_crtc_dpms(1 - 1, on), 1 - 1, d[0])
    BY <1>2, <1>4, PartIsRight
  <2>4. PartRight(encoder_dpms_set(2 - 1, on) \o display_crtc_dpms(2 - 1, on), 2 - 1, d[1])
    BY <1>2, <1>4, PartIsRight
  <2> QED BY <1>4, <2>2, <2>3, <2>4
<1> HIDE DEF part
<1>3. f[1] = part(0) /\ f[2] = part(1)
  BY <1>4 DEF MAX_DISPLAY
<1>6. FlattenSeq(f) = f[1] \o f[2]
  <2>1. f[1] \in Seq(Part(0) \cup Part(1)) /\ f[2] \in Seq(Part(0) \cup Part(1))
    BY <1>3, <1>5, SeqIn DEF PartRight
  <2>2. f \in [1 .. 2 -> Seq(Part(0) \cup Part(1))]
    BY <2>1 DEF MAX_DISPLAY
  <2> HIDE DEF f
  <2> QED BY <2>2, FlattenTwo
<1>7. PICK u : u = FlattenSeq(f)
  OBVIOUS
<1> HIDE DEF f
<1>8. CallRight(u, d) /\ u \in Seq(Part(0) \cup Part(1))
  <2>1. u = part(0) \o part(1)
    BY <1>3, <1>6, <1>7
  <2> QED BY <1>2, <1>5, <2>1, TwoParts
<1> DEFINE X == {<<"dpms_mode", 0, mode>>}
           Y == Part(0) \cup Part(1) \cup X
<1>9. last \in Seq(X) /\ X \subseteq Y /\ Part(0) \cup Part(1) \subseteq Y
  OBVIOUS
<1>10. \A id \in Display : /\ X \cap (Show(id) \cup PowerOff(id) \cup Starve(id)) = {}
                           /\ X \cap Lock(id) = {}
  <2>1. \A t \in X : t[1] = "dpms_mode"
    OBVIOUS
  <2> HIDE DEF X
  <2> QED BY <2>1, SwitchNames
<1>11. X \cap Critical(TRUE) = {}
  <2>1. \A t \in X : t[1] = "dpms_mode"
    OBVIOUS
  <2>2. \A t \in Critical(TRUE) : t[1] = "encoder_output_lock"
    BY DEF Critical
  <2> HIDE DEF X
  <2> QED BY <2>1, <2>2
<1> HIDE DEF X, Y, last
<1>12. u \in Seq(Y) /\ last \in Seq(Y)
  BY <1>8, <1>9, SeqIn
<1>13. ASSUME NEW id \in Display
       PROVE  ShowSafe(u \o last, id, d[id]) /\ Keeps(u \o last, Lock(id), Unlock(id))
  <2>1. ShowSafe(last, id, FALSE) /\ Keeps(last, Lock(id), Unlock(id))
    BY <1>9, <1>10, ShowNone, KeepsNone
  <2>2. ShowSafe(u, id, d[id]) /\ Keeps(u, Lock(id), Unlock(id)) /\ d[id] \in BOOLEAN
    BY <1>2, <1>8 DEF CallRight
  <2> QED BY <1>12, <2>1, <2>2, ShowJoin, KeepsJoin
<1>14. Keeps(u \o last, Critical(TRUE), Critical(FALSE))
  <2>1. Keeps(last, Critical(TRUE), Critical(FALSE))
    BY <1>9, <1>11, KeepsNone
  <2> QED BY <1>8, <1>12, <2>1, KeepsJoin DEF CallRight
<1>15. CallRight(todo', d)
  BY <1>1, <1>7, <1>13, <1>14 DEF CallRight
<1> QED BY <1>1, <1>15, CallShows DEF d


(* Executing the next command: it finds its CRTC as it must be.            *)
LEMMA CommandLit ==
  ASSUME QuietInv, ShowInv, Command, NEW id \in Attached
  PROVE  Lit(id)'
<1> DEFINE t == Head(todo)
<1>1. /\ todo # <<>> /\ board' = board /\ t \in Commands /\ Effect(t) /\ todo \in Seq(Commands)
  BY CommandEffect DEF QuietInv, SettingTypes
<1>2. id \in Display /\ OnCrtc(t, id) /\ crtc[id] \in Screens /\ powered[id] \in BOOLEAN
  BY <1>1 DEF Attached, Effect, QuietInv, SettingTypes
<1>3. /\ t = <<t[1], t[2], t[3]>>
      /\ t[1] \in Switches => t[3] \in BOOLEAN
  BY <1>1, HeadIs
<1>4. Lit(id)
  BY DEF ShowInv
<1>5. ShowAt(todo, 1, id, crtc[id].power, crtc[id].blank, crtc[id].memreq) /\ todo[1] = t
  <2>1. 1 \in 1 .. Len(todo)
    BY <1>1
  <2> QED BY <1>1, <2>1 DEF ShowInv, ShowTodo
<1>6. /\ \A x : /\ <<"BlankCRTC", id, x>>[1] = "BlankCRTC"
                /\ <<"EnableCRTC", id, x>>[1] = "EnableCRTC"
                /\ <<"EnableCRTCMemReq", id, x>>[1] = "EnableCRTCMemReq"
  OBVIOUS
<1> HIDE DEF t
<1>7. t \in Show(id) => crtc[id].power /\ (Major >= 3 => crtc[id].memreq)
  BY <1>5, HeldFirst DEF ShowAt
<1>8. t \in PowerOff(id) \cup Starve(id) => crtc[id].blank
  BY <1>5, HeldFirst DEF ShowAt
<1>9. /\ Sets(t, "BlankCRTC", id) /\ ~t[3] => t \in Show(id)
      /\ Sets(t, "EnableCRTC", id) /\ ~t[3] => t \in PowerOff(id)
      /\ Sets(t, "EnableCRTCMemReq", id) /\ ~t[3] => t \in Starve(id)
  <2>1. \A n \in Switches : Sets(t, n, id) /\ ~t[3] => t = <<n, id, FALSE>>
    <3> SUFFICES ASSUME NEW n \in Switches, Sets(t, n, id), ~t[3] PROVE t = <<n, id, FALSE>>
      OBVIOUS
    <3>1. t[1] = n /\ t[2] = id /\ t[3] = FALSE
      BY <1>3 DEF Sets
    <3> QED BY <1>3, <3>1
  <2> QED BY <2>1 DEF Switches, Show, PowerOff, Starve
<1>10. powered'[id] = crtc'[id].power
  BY <1>2, <1>4 DEF OnCrtc, Lit
<1>11. ASSUME ~crtc'[id].blank PROVE crtc'[id].power /\ (Major >= 3 => crtc'[id].memreq)
  <2>1. CASE Sets(t, "BlankCRTC", id)
    <3>1. ~t[3]
      BY <1>2, <1>11, <2>1 DEF OnCrtc
    <3>2. t \in Show(id)
      BY <1>9, <2>1, <3>1
    <3>3. crtc'[id].power = crtc[id].power /\ crtc'[id].memreq = crtc[id].memreq
      BY <1>2, <2>1 DEF OnCrtc, Sets
    <3> QED BY <1>7, <3>2, <3>3
  <2>2. CASE ~Sets(t, "BlankCRTC", id)
    <3>1. ~crtc[id].blank
      BY <1>2, <1>11, <2>2 DEF OnCrtc
    <3>2. crtc[id].power /\ (Major >= 3 => crtc[id].memreq)
      BY <1>4, <3>1 DEF Lit
    <3>3. t \notin PowerOff(id) \cup Starve(id)
      BY <1>8, <3>1
    <3>4. crtc'[id].power
      <4>1. CASE Sets(t, "EnableCRTC", id)
        <5>1. t[3]
          BY <1>9, <3>3, <4>1
        <5> QED BY <1>2, <4>1, <5>1 DEF OnCrtc
      <4>2. CASE ~Sets(t, "EnableCRTC", id)
        BY <1>2, <3>2, <4>2 DEF OnCrtc
      <4> QED BY <4>1, <4>2
    <3>5. Major >= 3 => crtc'[id].memreq
      <4>1. CASE Sets(t, "EnableCRTCMemReq", id)
        <5>1. t[3]
          BY <1>9, <3>3, <4>1
        <5> QED BY <1>2, <4>1, <5>1 DEF OnCrtc
      <4>2. CASE ~Sets(t, "EnableCRTCMemReq", id)
        BY <1>2, <3>2, <4>2 DEF OnCrtc
      <4> QED BY <4>1, <4>2
    <3> QED BY <3>4, <3>5
  <2> QED BY <2>1, <2>2
<1> QED BY <1>1, <1>10, <1>11, SameSwitches DEF Lit

LEMMA CommandTodo ==
  ASSUME QuietInv, ShowInv, Command, NEW id \in Attached
  PROVE  ShowTodo(id)'
<1>8. PICK t : t = Head(todo)
  OBVIOUS
<1>1. /\ todo # <<>> /\ todo' = Tail(todo) /\ board' = board /\ t \in Commands /\ Effect(t)
      /\ todo \in Seq(Commands)
  BY <1>8, CommandEffect DEF QuietInv, SettingTypes
<1>2. id \in Display /\ OnCrtc(t, id) /\ crtc[id] \in Screens /\ crtc'[id] \in Screens
  BY <1>1 DEF Attached, Effect, QuietInv, SettingTypes
<1>3. /\ t = <<t[1], t[2], t[3]>>
      /\ t[1] \in Switches => t[3] \in BOOLEAN
  BY <1>1, <1>8, HeadIs
<1>4. PICK pw \in BOOLEAN, bl \in BOOLEAN, mr \in BOOLEAN :
        (pw <=> crtc[id].power) /\ (bl <=> crtc[id].blank) /\ (mr <=> crtc[id].memreq)
  BY <1>2 DEF Screens
<1>5. PICK pw1 \in BOOLEAN, bl1 \in BOOLEAN, mr1 \in BOOLEAN :
        (pw1 <=> crtc'[id].power) /\ (bl1 <=> crtc'[id].blank) /\ (mr1 <=> crtc'[id].memreq)
  BY <1>2 DEF Screens
<1>6. /\ IF Sets(t, "EnableCRTC", id) THEN t[3] \in BOOLEAN /\ (pw1 <=> t[3] = TRUE) ELSE pw1 <=> pw
      /\ IF Sets(t, "EnableCRTCMemReq", id) THEN t[3] \in BOOLEAN /\ (mr1 <=> t[3] = TRUE) ELSE mr1 <=> mr
      /\ IF Sets(t, "BlankCRTC", id) THEN t[3] \in BOOLEAN /\ (bl1 <=> t[3] = TRUE) ELSE bl1 <=> bl
  <2>1. \A n \in Switches : Sets(t, n, id) => t[3] \in BOOLEAN
    BY <1>3 DEF Sets
  <2>2. "EnableCRTC" \in Switches /\ "EnableCRTCMemReq" \in Switches /\ "BlankCRTC" \in Switches
    BY DEF Switches
  <2> QED BY <1>2, <1>4, <1>5, <2>1, <2>2 DEF OnCrtc
<1>7. ASSUME NEW p \in 1 .. Len(todo')
      PROVE  ShowAt(todo', p, id, crtc'[id].power, crtc'[id].blank, crtc'[id].memreq)
  <2>1. /\ Len(todo) \in Nat /\ p + 1 \in 1 .. Len(todo) /\ todo'[p] = todo[p + 1] /\ p \in 1 .. Len(todo)
    BY <1>1
  <2>2. ShowAt(todo, p + 1, id, crtc[id].power, crtc[id].blank, crtc[id].memreq)
    BY <2>1 DEF ShowInv, ShowTodo
  <2>3. ShowAt(todo, p + 1, id, pw, bl, mr)
    BY <1>4, <2>2 DEF ShowAt, Held
  <2>4. Held(todo, p + 1, PowerOff(id), PowerOn(id), pw) => Held(todo', p, PowerOff(id), PowerOn(id), pw1)
    <3>1. PowerOff(id) = {<<"EnableCRTC", id, FALSE>>} /\ PowerOn(id) = {<<"EnableCRTC", id, TRUE>>}
      BY DEF PowerOff, PowerOn
    <3>2. /\ t = <<"EnableCRTC", id, TRUE>> => Sets(t, "EnableCRTC", id) /\ t[3] = TRUE
          /\ Sets(t, "EnableCRTC", id) /\ t # <<"EnableCRTC", id, FALSE>> => t[3] = TRUE
      <4>1. ASSUME t = <<"EnableCRTC", id, TRUE>> PROVE Sets(t, "EnableCRTC", id) /\ t[3] = TRUE
        <5>1. \A y : /\ <<"EnableCRTC", id, y>>[1] = "EnableCRTC"
                      /\ <<"EnableCRTC", id, y>>[2] = id /\ <<"EnableCRTC", id, y>>[3] = y
          OBVIOUS
        <5> QED BY <4>1, <5>1 DEF Sets
      <4>2. Sets(t, "EnableCRTC", id) /\ t # <<"EnableCRTC", id, FALSE>> => t[3] = TRUE
        BY <1>3, <1>6 DEF Sets
      <4> QED BY <4>1, <4>2
    <3>3. PICK on, off : on = PowerOff(id) /\ off = PowerOn(id)
      OBVIOUS
    <3>4. (t \in off => pw1) /\ (pw /\ t \notin on => pw1)
      BY <1>6, <3>1, <3>2, <3>3
    <3>5. ASSUME Held(todo, p + 1, on, off, pw) PROVE Held(Tail(todo), (p + 1) - 1, on, off, pw1)
      BY <1>1, <1>8, <2>1, <3>4, <3>5, HeldNext
    <3> QED BY <1>1, <2>1, <3>3, <3>5 DEF Held
  <2>5. Held(todo, p + 1, Starve(id), Fetch(id), mr) => Held(todo', p, Starve(id), Fetch(id), mr1)
    <3>1. Starve(id) = {<<"EnableCRTCMemReq", id, FALSE>>} /\ Fetch(id) = {<<"EnableCRTCMemReq", id, TRUE>>}
      BY DEF Starve, Fetch
    <3>2. /\ t = <<"EnableCRTCMemReq", id, TRUE>> => Sets(t, "EnableCRTCMemReq", id) /\ t[3] = TRUE
          /\ Sets(t, "EnableCRTCMemReq", id) /\ t # <<"EnableCRTCMemReq", id, FALSE>> => t[3] = TRUE
      <4>1. ASSUME t = <<"EnableCRTCMemReq", id, TRUE>> PROVE Sets(t, "EnableCRTCMemReq", id) /\ t[3] = TRUE
        <5>1. \A y : /\ <<"EnableCRTCMemReq", id, y>>[1] = "EnableCRTCMemReq"
                      /\ <<"EnableCRTCMemReq", id, y>>[2] = id /\ <<"EnableCRTCMemReq", id, y>>[3] = y
          OBVIOUS
        <5> QED BY <4>1, <5>1 DEF Sets
      <4>2. Sets(t, "EnableCRTCMemReq", id) /\ t # <<"EnableCRTCMemReq", id, FALSE>> => t[3] = TRUE
        BY <1>3, <1>6 DEF Sets
      <4> QED BY <4>1, <4>2
    <3>3. PICK on, off : on = Starve(id) /\ off = Fetch(id)
      OBVIOUS
    <3>4. (t \in off => mr1) /\ (mr /\ t \notin on => mr1)
      BY <1>6, <3>1, <3>2, <3>3
    <3>5. ASSUME Held(todo, p + 1, on, off, mr) PROVE Held(Tail(todo), (p + 1) - 1, on, off, mr1)
      BY <1>1, <1>8, <2>1, <3>4, <3>5, HeldNext
    <3> QED BY <1>1, <2>1, <3>3, <3>5 DEF Held
  <2>6. Held(todo, p + 1, Show(id), Blank(id), bl) => Held(todo', p, Show(id), Blank(id), bl1)
    <3>1. Show(id) = {<<"BlankCRTC", id, FALSE>>} /\ Blank(id) = {<<"BlankCRTC", id, TRUE>>}
      BY DEF Show, Blank
    <3>2. /\ t = <<"BlankCRTC", id, TRUE>> => Sets(t, "BlankCRTC", id) /\ t[3] = TRUE
          /\ Sets(t, "BlankCRTC", id) /\ t # <<"BlankCRTC", id, FALSE>> => t[3] = TRUE
      <4>1. ASSUME t = <<"BlankCRTC", id, TRUE>> PROVE Sets(t, "BlankCRTC", id) /\ t[3] = TRUE
        <5>1. \A y : /\ <<"BlankCRTC", id, y>>[1] = "BlankCRTC"
                      /\ <<"BlankCRTC", id, y>>[2] = id /\ <<"BlankCRTC", id, y>>[3] = y
          OBVIOUS
        <5> QED BY <4>1, <5>1 DEF Sets
      <4>2. Sets(t, "BlankCRTC", id) /\ t # <<"BlankCRTC", id, FALSE>> => t[3] = TRUE
        BY <1>3, <1>6 DEF Sets
      <4> QED BY <4>1, <4>2
    <3>3. PICK on, off : on = Show(id) /\ off = Blank(id)
      OBVIOUS
    <3>4. (t \in off => bl1) /\ (bl /\ t \notin on => bl1)
      BY <1>6, <3>1, <3>2, <3>3
    <3>5. ASSUME Held(todo, p + 1, on, off, bl) PROVE Held(Tail(todo), (p + 1) - 1, on, off, bl1)
      BY <1>1, <1>8, <2>1, <3>4, <3>5, HeldNext
    <3> QED BY <1>1, <2>1, <3>3, <3>5 DEF Held
  <2>7. ShowAt(todo', p, id, pw1, bl1, mr1)
    BY <2>1, <2>3, <2>4, <2>5, <2>6 DEF ShowAt
  <2> QED BY <1>5, <2>7 DEF ShowAt, Held
<1> QED BY <1>1, <1>7, SameSwitches
     DEF ShowTodo, ShowAt, Show, PowerOff, PowerOn, Starve, Fetch, Blank

LEMMA CommandReleases ==
  ASSUME QuietInv, ShowInv, Command
  PROVE  Released'
<1>6. PICK t : t = Head(todo)
  OBVIOUS
<1>1. /\ todo # <<>> /\ todo' = Tail(todo) /\ board' = board /\ t \in Commands /\ Effect(t)
      /\ todo \in Seq(Commands) /\ critical \in BOOLEAN
  BY <1>6, CommandEffect DEF QuietInv, SettingTypes
<1>2. /\ t = <<t[1], t[2], t[3]>>
      /\ t[1] \in Switches => t[3] \in BOOLEAN
      /\ t[1] = "encoder_output_lock" => t[2] \in Display /\ t[3] \in BOOLEAN
  BY <1>1, <1>6, HeadIs
<1>3. /\ Len(todo) \in Nat /\ Len(todo) \in 1 .. Len(todo) /\ Len(todo') + 1 = Len(todo)
      /\ Len(todo) + 1 \in 2 .. Len(todo) + 1 /\ (Len(todo) + 1) - 1 = Len(todo)
  BY <1>1
<1>4. ASSUME NEW id \in Attached
      PROVE  Held(todo', Len(todo') + 1, Lock(id), Unlock(id), ~crtc'[id].locked)
  <2>1. id \in Display /\ OnCrtc(t, id) /\ crtc[id] \in Screens /\ crtc'[id] \in Screens
    BY <1>1 DEF Attached, Effect, QuietInv, SettingTypes
  <2>2. PICK now \in BOOLEAN, later \in BOOLEAN : (now <=> ~crtc[id].locked) /\ (later <=> ~crtc'[id].locked)
    BY <2>1 DEF Screens
  <2>3. Held(todo, Len(todo) + 1, Lock(id), Unlock(id), now)
    BY <2>2 DEF ShowInv, Released, Held
  <2>4. IF Sets(t, "UpdateCRTC_DoubleBufferRegisters", id)
        THEN t[3] \in BOOLEAN /\ (later <=> t[3] = FALSE) ELSE later <=> now
    BY <1>2, <2>1, <2>2 DEF OnCrtc, Sets, Switches
  <2>5. Held(Tail(todo), Len(todo), Lock(id), Unlock(id), later)
    <3>1. /\ Lock(id) = {<<"UpdateCRTC_DoubleBufferRegisters", id, TRUE>>}
          /\ Unlock(id) = {<<"UpdateCRTC_DoubleBufferRegisters", id, FALSE>>}
      BY DEF Lock, Unlock
    <3>2. /\ t = <<"UpdateCRTC_DoubleBufferRegisters", id, FALSE>> => Sets(t, "UpdateCRTC_DoubleBufferRegisters", id) /\ t[3] = FALSE
          /\ Sets(t, "UpdateCRTC_DoubleBufferRegisters", id) /\ t # <<"UpdateCRTC_DoubleBufferRegisters", id, TRUE>> => t[3] = FALSE
      <4>1. ASSUME t = <<"UpdateCRTC_DoubleBufferRegisters", id, FALSE>> PROVE Sets(t, "UpdateCRTC_DoubleBufferRegisters", id) /\ t[3] = FALSE
        <5>1. \A y : /\ <<"UpdateCRTC_DoubleBufferRegisters", id, y>>[1] = "UpdateCRTC_DoubleBufferRegisters"
                      /\ <<"UpdateCRTC_DoubleBufferRegisters", id, y>>[2] = id /\ <<"UpdateCRTC_DoubleBufferRegisters", id, y>>[3] = y
          OBVIOUS
        <5> QED BY <4>1, <5>1 DEF Sets
      <4>2. Sets(t, "UpdateCRTC_DoubleBufferRegisters", id) /\ t # <<"UpdateCRTC_DoubleBufferRegisters", id, TRUE>> => t[3] = FALSE
        BY <1>2, <2>4 DEF Sets
      <4> QED BY <4>1, <4>2
    <3>3. PICK on, off : on = Lock(id) /\ off = Unlock(id)
      OBVIOUS
    <3>4. (t \in off => later) /\ (now /\ t \notin on => later)
      BY <2>4, <3>1, <3>2, <3>3
    <3>5. Held(Tail(todo), (Len(todo) + 1) - 1, on, off, later)
      BY <1>1, <1>3, <1>6, <2>3, <3>3, <3>4, HeldNext
    <3> QED BY <1>3, <3>3, <3>5 DEF Held
  <2> QED BY <1>1, <1>3, <2>2, <2>5 DEF Held
<1>5. Held(todo', Len(todo') + 1, Critical(TRUE), Critical(FALSE), ~critical')
  <2>1. critical' \in BOOLEAN /\ critical' = IF t[1] = "encoder_output_lock" THEN t[3] ELSE critical
    BY <1>1 DEF Effect
  <2>2. PICK now \in BOOLEAN, later \in BOOLEAN : (now <=> ~critical) /\ (later <=> ~critical')
    BY <1>1, <2>1
  <2>3. Held(todo, Len(todo) + 1, Critical(TRUE), Critical(FALSE), now)
    BY <2>2 DEF ShowInv, Released, Held
  <2>4. \A v \in BOOLEAN : t \in Critical(v) <=> t[1] = "encoder_output_lock" /\ t[2] \in Display /\ t[3] = v
    <3>1. \A v \in BOOLEAN : t \in Critical(v) => t[1] = "encoder_output_lock" /\ t[2] \in Display /\ t[3] = v
      BY DEF Critical
    <3>2. ASSUME NEW v \in BOOLEAN, t[1] = "encoder_output_lock", t[2] \in Display, t[3] = v
          PROVE  t \in Critical(v)
      BY <1>2, <3>2 DEF Critical
    <3> QED BY <3>1, <3>2
  <2>5. (t \in Critical(FALSE) => later) /\ (now /\ t \notin Critical(TRUE) => later)
    BY <1>2, <2>1, <2>2, <2>4
  <2>6. PICK on, off : on = Critical(TRUE) /\ off = Critical(FALSE)
    OBVIOUS
  <2>7. Held(Tail(todo), (Len(todo) + 1) - 1, on, off, later)
    BY <1>1, <1>3, <1>6, <2>3, <2>5, <2>6, HeldNext
  <2> QED BY <1>1, <1>3, <2>2, <2>6, <2>7 DEF Held
<1> QED BY <1>1, <1>4, <1>5, SameSwitches DEF Released, Critical, Lock, Unlock

LEMMA ShowInitially == SettingInit => ShowInv
<1> SUFFICES ASSUME SettingInit PROVE ShowInv
  OBVIOUS
<1>1. board \in Boards /\ todo = <<>> /\ ~critical /\ Len(todo) = 0 /\ 1 .. Len(todo) + 1 - 1 = {}
      /\ 1 .. Len(todo) = {}
  BY DEF SettingInit
<1>2. ASSUME NEW id \in Attached PROVE Lit(id) /\ ~crtc[id].locked
  <2>1. id \in Display /\ On(id)
    BY DEF Attached
  <2> QED BY <2>1 DEF SettingInit, Lit
<1>3. \A id \in Attached : ShowTodo(id)
  BY <1>1 DEF ShowTodo
<1>4. Held(todo, Len(todo) + 1, Critical(TRUE), Critical(FALSE), ~critical)
  BY <1>1 DEF Held
<1>5. \A id \in Attached : Held(todo, Len(todo) + 1, Lock(id), Unlock(id), ~crtc[id].locked)
  BY <1>1, <1>2 DEF Held
<1> QED BY <1>2, <1>3, <1>4, <1>5 DEF ShowInv, Released

LEMMA ShowKept == QuietInv /\ ShowInv /\ [SettingNext]_settingVars => ShowInv'
<1> SUFFICES ASSUME QuietInv, ShowInv, [SettingNext]_settingVars PROVE ShowInv'
  OBVIOUS
<1>1. CASE Command
  <2>1. board' = board
    BY <1>1, CommandEffect DEF QuietInv
  <2> QED BY <1>1, <2>1, CommandLit, CommandTodo, CommandReleases, SameSwitches DEF ShowInv
<1>2. CASE UNCHANGED settingVars
  <2>1. board' = board /\ todo' = todo /\ crtc' = crtc /\ powered' = powered /\ critical' = critical
    BY <1>2 DEF settingVars, hw
  <2> QED BY <2>1, SameSwitches
       DEF ShowInv, Lit, ShowTodo, Released, ShowAt, Held, Show, PowerOff, PowerOn, Starve, Fetch,
           Blank, Critical, Lock, Unlock
<1> QED BY <1>1, <1>2, SetModeShows, DpmsSetShows DEF SettingNext

LEMMA ShowImplies == QuietInv /\ ShowInv => SettingInv
<1> SUFFICES ASSUME QuietInv, ShowInv PROVE SettingInv
  OBVIOUS
<1>1. \A id \in Attached : Lit(id)
  BY DEF ShowInv
<1>2. ASSUME todo = <<>> PROVE ~critical /\ \A id \in Attached : ~crtc[id].locked
  <2>1. Len(todo) + 1 = 1
    BY <1>2
  <2> QED BY <2>1, HeldFirst DEF ShowInv, Released
<1> QED BY <1>1, <1>2 DEF Lit, SettingInv

(* A CRTC that scans out and is not blanked may fetch memory at any moment   *)
(* of any sequence of calls; between two of them `powered' is the truth and *)
(* nothing is left locked or critical (mode.cpp, display.cpp).             *)
THEOREM SettingAlways == SettingSpec => []SettingInv
<1>1. SettingInit => QuietInv /\ ShowInv
  BY QuietInit, ShowInitially
<1>2. QuietInv /\ ShowInv /\ [SettingNext]_settingVars => (QuietInv /\ ShowInv)'
  BY QuietKept, ShowKept
<1>3. QuietInv /\ ShowInv => SettingInv
  BY ShowImplies
<1> QED BY <1>1, <1>2, <1>3, PTL DEF SettingSpec
=============================================================================
