------------------------- MODULE DisplayPathProofs --------------------------
(***************************************************************************)
(* Proofs about how a picture gets to a monitor: the DisplayPort link, the  *)
(* detection of monitors, and the bus their EDIDs are read over.           *)
(*                                                                         *)
(* The link, for every sink, every mode and every number of lanes, drives   *)
(* and tries: what a training leaves behind, which link a mode gets, and    *)
(* how patient clock recovery is.                                          *)
(*                                                                         *)
(* The detection, for every board, any number of connectors and of CRTCs,   *)
(* and whatever is plugged in: CRTCs are given out in order, no monitor is  *)
(* missed while one is free, and a display knows its own connector's         *)
(* monitor.  The assumption is BoardsAssumption: how jacks are wired, and    *)
(* that a monitor fits its jack.                                           *)
(*                                                                         *)
(* The bus, for every length of a byte, every address, all that is written  *)
(* and read and any number of tries, and whatever the slave does: where the *)
(* slave can see a start or a stop, and who has the pins.                  *)
(***************************************************************************)
EXTENDS DisplayPort, Detect, Ddc, FiniteSetTheorems, SequenceTheorems, WellFoundedInduction, TLAPS

(* Where the driver is in a training, and which commands it has given.      *)
Training == {"cr", "pattern 2", "ce", "finish"}
Idle     == {"setup", "ready", "train"}

(* The training follows the sink's own pattern until a command is lost; a   *)
(* source that is trained by a service never has one.                       *)
Patterns ==
  /\ caps.service => source.pattern = "off"
  /\ ~lost /\ pc \in Idle => source.pattern = "off" /\ sink.pattern = "off"
  /\ ~lost /\ pc = "pattern 1" => sink.pattern = "off"
  /\ ~lost /\ pc \in Training => source.pattern = sink.pattern
  /\ ~lost /\ pc \in Training \cup {"pattern 1"} =>
       sink.rate = dp.linkRate /\ dp.laneCount <= sink.lanes

Driven ==
  ~lost /\ pc \in Training =>
    source.set = dp.set[0] /\ \A l \in Used : sink.set[l] = dp.set[l]

(* Clock recovery counts the tries at the voltage it last saw: attempts is   *)
(* behind the statuses read by one, and starts anew whatever it was.        *)
Counted ==
  /\ pc # "cr" => voltage = NoVoltage /\ reads = 0
  /\ pc = "cr" /\ voltage = NoVoltage => reads = 0
  /\ pc = "cr" /\ voltage # NoVoltage => reads = dp.attempts + 1 /\ dp.attempts < CrTries

(* The link of the mode being set is the one that was computed for it.      *)
Chosen ==
  /\ pc = "train" => /\ mode \in Modes
                     /\ dp.laneCount = dp_get_lane_count(mode)
                     /\ dp.linkRate = dp_get_link_rate(mode)

(* TypeOK, with names for its records. *)
Source == [pattern : {"off", "1", "2"}, set : Drive]
Sink   == [rate : Rates \cup {0}, lanes : {0, 1, 2, 4}, pattern : {"off", "1", "2"}, set : [Lanes -> Drive]]
Info   == [valid : BOOLEAN, laneCount : {0, 1, 2, 4}, linkRate : Rates \cup {0},
           attempts : 0 .. Max({CrTries, CeTries + 1}), set : [Lanes -> Drive]]

Typed ==
  /\ caps \in Sinks /\ mode \in Modes \cup {NoMode}
  /\ dp \in Info /\ source \in Source /\ sink \in Sink
  /\ lost \in BOOLEAN /\ reads \in 0 .. CrTries + 1
  /\ voltage \in 0 .. MaxSwing \cup {255}
  /\ pc \in {"setup", "ready", "train", "pattern 1", "cr", "pattern 2", "ce", "finish"}

LinkInv == Typed /\ Patterns /\ Driven /\ Counted /\ Chosen

-----------------------------------------------------------------------------
(* The largest and the smallest of some numbers, where there is one.        *)
LEMMA MaxIs ==
  ASSUME NEW S, NEW m \in S, \A x \in S : x \in Int /\ m >= x
  PROVE  Max(S) = m
<1> DEFINE IsMax(x) == x \in S /\ \A y \in S : x >= y
<1>1. IsMax(m)
  OBVIOUS
<1>2. IsMax(CHOOSE x : IsMax(x))
  BY <1>1, Zenon
<1>3. Max(S) = CHOOSE x : IsMax(x)
  BY DEF Max
<1> QED BY <1>2, <1>3

LEMMA MinIs ==
  ASSUME NEW S, NEW m \in S, \A x \in S : x \in Int /\ m <= x
  PROVE  Min(S) = m
<1> DEFINE IsMin(x) == x \in S /\ \A y \in S : x =< y
<1>1. IsMin(m)
  OBVIOUS
<1>2. IsMin(CHOOSE x : IsMin(x))
  BY <1>1, Zenon
<1>3. Min(S) = CHOOSE x : IsMin(x)
  BY DEF Min
<1> QED BY <1>2, <1>3

(* A faster link, and one of more lanes, carries what a slower one does.    *)
LEMMA QuotientGrows ==
  ASSUME NEW a \in Nat, NEW b \in Nat, NEW d \in Nat \ {0}, a <= b
  PROVE  a \div d <= b \div d /\ a \div d \in Nat
<1> DEFINE p == a \div d
           q == b \div d
<1>1. p \in Nat /\ p * d <= a
  OBVIOUS
<1>2. q \in Nat /\ b < (q + 1) * d
  OBVIOUS
<1> HIDE DEF p, q
<1>3. p <= q
  <2> SUFFICES ASSUME p >= q + 1 PROVE FALSE
    BY <1>1, <1>2
  <2>1. p * d >= (q + 1) * d
    BY <1>1, <1>2
  <2> QED BY <1>1, <1>2, <2>1
<1> QED BY <1>1, <1>3 DEF p, q

LEMMA Carries ==
  ASSUME NEW m \in Modes, NEW r1 \in Rates, NEW r2 \in Rates, r1 <= r2,
         NEW n1 \in {1, 2, 4}, NEW n2 \in {1, 2, 4}, n1 <= n2
  PROVE  /\ PixelClockMax(r1, n1, m.bpp) \in Nat
         /\ PixelClockMax(r1, n1, m.bpp) <= PixelClockMax(r2, n2, m.bpp)
<1> DEFINE a == r1 * n1 * 8
           b == r2 * n2 * 8
<1>1. a \in Nat /\ b \in Nat /\ a <= b
  BY DEF Rates
<1>2. m.bpp \in Nat \ {0}
  BY ModesAssumption
<1> HIDE DEF a, b
<1>3. a \div m.bpp <= b \div m.bpp /\ a \div m.bpp \in Nat
  BY <1>1, <1>2, QuotientGrows
<1> QED BY <1>3 DEF a, b, PixelClockMax

-----------------------------------------------------------------------------
(* The link that is computed for a mode. *)

(* A link carries a mode. *)
CarriesMode(m, r, n) == m.clock <= PixelClockMax(r, n, m.bpp)

(* The lanes: the first of 1, 2 and 4 that will do. *)
LEMMA LaneCount ==
  ASSUME NEW m \in Modes, caps \in Sinks, NEW n, n = dp_get_lane_count(m)
  PROVE  /\ n \in {1, 2, 4}
         /\ n >= LaneMax \/ CarriesMode(m, RateMax, n)
         /\ \A q \in {1, 2, 4} : q >= LaneMax \/ CarriesMode(m, RateMax, q) => n <= q
<1> DEFINE does(q) == q >= LaneMax \/ CarriesMode(m, RateMax, q)
           S == {q \in {1, 2, 4} : does(q)}
<1>1. LaneMax \in {0, 1, 2, 4}
  BY SinksAssumption DEF LaneMax, Capable
<1>2. 4 \in S
  BY <1>1
<1>3. n = Min(S)
  BY DEF dp_get_lane_count, CarriesMode
<1>4. PICK q \in S : \A x \in S : q <= x
  <2>1. S \subseteq {1, 2, 4}
    OBVIOUS
  <2> HIDE DEF S
  <2> QED BY <1>2, <2>1
<1>5. Min(S) = q
  <2>1. \A x \in S : x \in Int
    OBVIOUS
  <2> HIDE DEF S
  <2> QED BY <1>4, <2>1, MinIs
<1> HIDE DEF does
<1>6. q \in {1, 2, 4} /\ does(q) /\ \A x \in {1, 2, 4} : does(x) => q <= x
  BY <1>4
<1> QED BY <1>3, <1>5, <1>6 DEF does

(* The rate: a slow one that is enough, or the sink's own. *)
LEMMA LinkRate ==
  ASSUME NEW m \in Modes, caps \in Sinks,
         NEW n, n = dp_get_lane_count(m), NEW r, r = dp_get_link_rate(m)
  PROVE  /\ r \in Rates
         /\ caps.bridge = "NUTMEG" => r = 270000
         /\ caps.bridge = "none" =>
              \/ CarriesMode(m, 162000, n) /\ r = 162000
              \/ ~CarriesMode(m, 162000, n) /\ CarriesMode(m, 270000, n) /\ r = 270000
              \/ ~CarriesMode(m, 162000, n) /\ ~CarriesMode(m, 270000, n) /\ r = RateMax
<1> DEFINE E == {x \in {162000, 270000} : CarriesMode(m, x, n)}
<1>1. r = IF caps.bridge = "NUTMEG" THEN 270000 ELSE IF E # {} THEN Min(E) ELSE RateMax
  BY DEF dp_get_link_rate, CarriesMode
<1>2. RateMax \in Rates /\ caps.bridge \in {"none", "NUTMEG"}
  BY SinksAssumption DEF RateMax, Rates, Capable
<1>3. CarriesMode(m, 162000, n) => Min(E) = 162000
  BY MinIs
<1>4. ~CarriesMode(m, 162000, n) /\ CarriesMode(m, 270000, n) => Min(E) = 270000
  BY MinIs
<1>5. E = {} <=> ~CarriesMode(m, 162000, n) /\ ~CarriesMode(m, 270000, n)
  OBVIOUS
<1> HIDE DEF E
<1>6. CASE caps.bridge = "NUTMEG"
  BY <1>1, <1>6 DEF Rates
<1>7. CASE caps.bridge = "none"
  BY <1>1, <1>2, <1>3, <1>4, <1>5, <1>7 DEF Rates
<1> QED BY <1>2, <1>6, <1>7

(* A mode the sink can carry gets a link that carries it, with nothing to   *)
(* spare: dp_get_lane_count() and dp_get_link_rate() of displayport.cpp.    *)
LEMMA ChosenCarries == caps \in Sinks /\ Chosen => LinkCarriesMode
<1> DEFINE carries(r, n) == CarriesMode(mode, r, n)
           N == dp_get_lane_count(mode)
           R == dp_get_link_rate(mode)
<1> SUFFICES ASSUME caps \in Sinks, Chosen, pc = "train", dp.valid,
                    carries(caps.rate, caps.lanes)
             PROVE  /\ N <= caps.lanes /\ R <= caps.rate /\ carries(R, N)
                    /\ \A q \in {1, 2, 4} : q < N => ~carries(caps.rate, q)
                    /\ caps.bridge = "none" => \A q \in Rates : q < R => ~carries(q, N)
  BY DEF LinkCarriesMode, Chosen, CarriesMode
<1>1. mode \in Modes
  BY DEF Chosen
<1>2. /\ caps.lanes \in {1, 2, 4} /\ caps.rate \in Rates /\ caps.bridge \in {"none", "NUTMEG"}
      /\ caps.bridge = "NUTMEG" => caps.rate = 270000
  BY SinksAssumption DEF Capable
<1>3. RateMax = caps.rate /\ LaneMax = caps.lanes
  BY DEF RateMax, LaneMax
<1>4. mode.clock \in Nat
  BY <1>1, ModesAssumption
<1>5. ASSUME NEW q1 \in Rates, NEW q2 \in Rates, q1 <= q2,
             NEW k1 \in {1, 2, 4}, NEW k2 \in {1, 2, 4}, k1 <= k2, carries(q1, k1)
      PROVE  carries(q2, k2)
  <2>1. PixelClockMax(q1, k1, mode.bpp) \in Nat /\ PixelClockMax(q2, k2, mode.bpp) \in Nat
    BY <1>1, Carries DEF Rates
  <2>2. PixelClockMax(q1, k1, mode.bpp) <= PixelClockMax(q2, k2, mode.bpp)
    BY <1>1, <1>5, Carries
  <2> QED BY <1>4, <1>5, <2>1, <2>2 DEF CarriesMode
<1>6. PICK n : n = N
  OBVIOUS
<1>7. PICK r : r = R
  OBVIOUS
<1> HIDE DEF N, R
<1>8. /\ n \in {1, 2, 4} /\ (n >= caps.lanes \/ carries(caps.rate, n))
      /\ \A q \in {1, 2, 4} : q >= caps.lanes \/ carries(caps.rate, q) => n <= q
  BY <1>1, <1>3, <1>6, LaneCount DEF N
<1>9. /\ r \in Rates
      /\ caps.bridge = "NUTMEG" => r = 270000
      /\ caps.bridge = "none" =>
           \/ carries(162000, n) /\ r = 162000
           \/ ~carries(162000, n) /\ carries(270000, n) /\ r = 270000
           \/ ~carries(162000, n) /\ ~carries(270000, n) /\ r = caps.rate
  BY <1>1, <1>3, <1>6, <1>7, LinkRate DEF N, R
<1> HIDE DEF carries
<1>10. n <= caps.lanes /\ \A q \in {1, 2, 4} : q < n => ~carries(caps.rate, q)
  BY <1>2, <1>8
<1>11. carries(caps.rate, n)
  <2>1. CASE n >= caps.lanes
    BY <1>2, <1>8, <1>10, <2>1
  <2> QED BY <1>8, <2>1
<1>12. r <= caps.rate /\ carries(r, n)
  BY <1>2, <1>9, <1>11 DEF Rates
<1>13. caps.bridge = "none" => \A q \in Rates : q < r => ~carries(q, n)
  <2> SUFFICES ASSUME caps.bridge = "none", NEW q \in Rates, q < r, carries(q, n) PROVE FALSE
    OBVIOUS
  <2>1. q = 162000 \/ q = 270000
    BY <1>9 DEF Rates
  <2> QED BY <1>9, <2>1 DEF Rates
<1> QED BY <1>6, <1>7, <1>10, <1>12, <1>13

-----------------------------------------------------------------------------
(* What the actions are built from. *)

LEMMA LaneZero == 0 \in Lanes /\ 0 \in Drive /\ NoVoltage \notin Drive
BY DriveAssumption DEF Lanes, Drive, NoVoltage

LEMMA MaxAttempts ==
  /\ Max({CrTries, CeTries + 1}) \in Nat
  /\ Max({CrTries, CeTries + 1}) >= CrTries /\ Max({CrTries, CeTries + 1}) > CeTries
<1> DEFINE S == {CrTries, CeTries + 1}
<1>1. CrTries \in Nat /\ CeTries \in Nat
  BY TriesAssumption
<1>2. CASE CrTries >= CeTries + 1
  BY <1>1, <1>2, MaxIs
<1>3. CASE CrTries < CeTries + 1
  BY <1>1, <1>3, MaxIs
<1> QED BY <1>1, <1>2, <1>3

(* The drive of all lanes is what one of them asks for, or the lowest.      *)
LEMMA AdjustedType == ASSUME NEW asks \in Asks PROVE Adjusted(asks) \in [Lanes -> Drive]
<1> DEFINE S == {0} \cup {asks[q] : q \in Used}
<1>1. asks \in [Lanes -> Drive] /\ \A q \in Lanes : q > 1 => asks[q] = asks[1]
  BY DEF Asks
<1>2. Drive \subseteq Nat /\ 0 \in Drive
  BY LaneZero DEF Drive
<1>3. S \subseteq Drive /\ 0 \in S
  BY <1>1, <1>2 DEF Used
<1>4. \A x \in S : x = 0 \/ x = asks[0] \/ x = asks[1]
  BY <1>1 DEF Used, Lanes
<1> HIDE DEF S
<1>5. PICK m \in S : \A x \in S : m >= x
  <2>1. asks[0] \in Nat
    BY <1>1, <1>2, LaneZero
  <2>2. CASE asks[1] \in S
    <3>1. asks[1] \in Nat
      BY <1>2, <1>3, <2>2
    <3> QED BY <1>2, <1>3, <1>4, <2>1, <2>2, <3>1
  <2>3. CASE asks[1] \notin S
    BY <1>2, <1>3, <1>4, <2>1, <2>3
  <2> QED BY <2>2, <2>3
<1>6. \A x \in S : x \in Int /\ m >= x
  BY <1>2, <1>3, <1>5
<1>7. Max(S) = m
  BY <1>6, MaxIs
<1> QED BY <1>3, <1>7 DEF Adjusted, S

LEMMA GotIn == ASSUME NEW commands, NEW got \in Got(commands) PROVE got \subseteq commands
BY DEF Got

LEMMA ReadOkIn == ReadOk \subseteq BOOLEAN
BY DEF ReadOk

(* A link that is not lost follows: both ends are in the new pattern, at the *)
(* drive of every lane in use.                                             *)
LEMMA SetTp ==
  ASSUME NEW p \in {"off", "1", "2"}, NEW src \in Source, NEW snk \in Sink,
         caps.service \in BOOLEAN, NEW got,
         NEW tp, tp = dp_set_tp(p, src, snk, got)
  PROVE  /\ tp[1] \in Source /\ tp[2] \in Sink
         /\ tp[1].set = src.set /\ tp[2].set = snk.set /\ tp[2].rate = snk.rate /\ tp[2].lanes = snk.lanes
         /\ caps.service => tp[1] = src /\ tp[2] = snk
         /\ ~caps.service /\ {"source", "pattern"} \subseteq got =>
              tp[1].pattern = p /\ tp[2].pattern = p
BY DEF dp_set_tp, Put, Source, Sink

LEMMA UpdateDrive ==
  ASSUME NEW set \in [Lanes -> Drive], NEW src \in Source, NEW snk \in Sink, NEW got,
         NEW vs, vs = dp_update_vs_emph(set, src, snk, got)
  PROVE  /\ vs[1] \in Source /\ vs[2] \in Sink
         /\ vs[1].pattern = src.pattern /\ vs[2].pattern = snk.pattern
         /\ vs[2].rate = snk.rate /\ vs[2].lanes = snk.lanes
         /\ Drives \subseteq got => vs[1].set = set[0] /\ \A l \in Used : vs[2].set[l] = set[l]
BY LaneZero DEF dp_update_vs_emph, SetLanes, Drives, Used, Source, Sink

-----------------------------------------------------------------------------
(* The invariant. *)

LEMMA TypeSame == TypeOK <=> Typed
BY Zenon DEF TypeOK, Typed, Info, Source, Sink

LEMMA TypeFacts ==
  ASSUME Typed
  PROVE  /\ source \in Source /\ sink \in Sink /\ dp \in Info
         /\ caps.service \in BOOLEAN /\ dp.set \in [Lanes -> Drive]
         /\ dp.laneCount \in Nat /\ dp.attempts \in Nat /\ dp.linkRate \in Rates \cup {0}
<1>1. source \in Source /\ sink \in Sink /\ dp \in Info /\ caps \in Capable
  BY SinksAssumption, Zenon DEF Typed
<1>2. caps.service \in BOOLEAN
  BY <1>1 DEF Capable
<1> DEFINE M == Max({CrTries, CeTries + 1})
<1>3. M \in Nat
  BY MaxAttempts
<1>4. dp \in [valid : BOOLEAN, laneCount : {0, 1, 2, 4}, linkRate : Rates \cup {0},
              attempts : 0 .. M, set : [Lanes -> Drive]]
  BY <1>1 DEF Info
<1> HIDE DEF M
<1> QED BY <1>1, <1>2, <1>3, <1>4

LEMMA LinkInit == Init => LinkInv
<1> SUFFICES ASSUME Init PROVE LinkInv
  OBVIOUS
<1> DEFINE M == Max({CrTries, CeTries + 1})
<1>1. M \in Nat /\ CrTries \in Nat
  BY MaxAttempts, TriesAssumption
<1>2. dp \in Info
  <2>1. dp \in [valid : BOOLEAN, laneCount : {0, 1, 2, 4}, linkRate : Rates \cup {0},
                attempts : 0 .. M, set : [Lanes -> Drive]]
    <3> HIDE DEF M
    <3> QED BY <1>1, LaneZero DEF Init
  <2> QED BY <2>1 DEF Info
<1>3. source \in Source /\ sink \in Sink
  BY LaneZero DEF Init, Source, Sink
<1>4. Typed
  <2>1. caps \in Sinks /\ mode = NoMode /\ lost = FALSE /\ pc = "setup"
    BY DEF Init
  <2>2. voltage \in 0 .. MaxSwing \cup {255} /\ reads \in 0 .. CrTries + 1
    BY <1>1 DEF Init, NoVoltage
  <2> QED BY <1>2, <1>3, <2>1, <2>2, Zenon DEF Typed
<1>5. Patterns /\ Driven /\ Counted /\ Chosen
  BY DEF Init, Patterns, Driven, Counted, Chosen, Idle, Training
<1> QED BY <1>4, <1>5, TypeSame DEF LinkInv

LEMMA SetupStep == LinkInv /\ SetupConnectors => LinkInv'
<1> SUFFICES ASSUME LinkInv, SetupConnectors PROVE LinkInv'
  OBVIOUS
<1>1. PICK ok \in BOOLEAN : dp' = [dp EXCEPT !.valid = ok]
  BY ReadOkIn DEF SetupConnectors
<1>2. dp' \in Info
  BY <1>1 DEF LinkInv, Typed, Info
<1>3. Typed'
  BY <1>2 DEF LinkInv, SetupConnectors, link, Typed
<1>4. (Patterns /\ Driven /\ Counted /\ Chosen)'
  BY <1>1 DEF LinkInv, SetupConnectors, link, Patterns, Driven, Counted, Chosen, Idle, Training
<1> QED BY <1>3, <1>4 DEF LinkInv

LEMMA ChooseStep == LinkInv /\ ChooseLink => LinkInv'
<1> SUFFICES ASSUME LinkInv, ChooseLink PROVE LinkInv'
  OBVIOUS
<1> USE DEF LinkInv, ChooseLink, link
<1> DEFINE n == dp_get_lane_count(mode')
           r == dp_get_link_rate(mode')
<1>1. caps \in Sinks /\ mode' \in Modes
  BY DEF Typed
<1>2. n \in {1, 2, 4} /\ r \in Rates
  BY <1>1, LaneCount, LinkRate
<1>3. dp' = [dp EXCEPT !.laneCount = n, !.linkRate = r]
  OBVIOUS
<1> HIDE DEF n, r
<1>4. dp'.valid = dp.valid /\ dp'.laneCount = n /\ dp'.linkRate = r /\ dp' \in Info
  <2> dp \in Info
    BY DEF Typed
  <2> HIDE DEF LinkInv, ChooseLink
  <2> QED BY <1>2, <1>3 DEF Info
<1>5. Typed'
  BY <1>1, <1>4 DEF Typed
<1>6. dp_get_lane_count(mode)' = n /\ dp_get_link_rate(mode)' = r
  BY <1>4 DEF n, r, dp_get_lane_count, dp_get_link_rate, RateMax, LaneMax
<1>7. (Patterns /\ Driven /\ Counted /\ Chosen)'
  BY <1>1, <1>4, <1>6 DEF Patterns, Driven, Counted, Chosen, Idle, Training
<1> QED BY <1>5, <1>7

LEMMA InvalidStep == LinkInv /\ TrainInvalid => LinkInv'
BY DEF LinkInv, TrainInvalid, link, Typed, Patterns, Driven, Counted, Chosen, Idle, Training, Used

LEMMA BeginStep == LinkInv /\ TrainBegin => LinkInv'
<1> SUFFICES ASSUME LinkInv, TrainBegin PROVE LinkInv'
  OBVIOUS
<1> USE DEF LinkInv, TrainBegin
<1>1. PICK got \in Got(Registers), read \in ReadOk :
        LET told == Put(sink, got, "lanes", IF read THEN caps.lanes ELSE 0)
        IN /\ sink' = Put(Put(told, got, "rate", dp.linkRate), got, "pattern", "off")
           /\ lost' = (got # Registers \/ ~read)
  OBVIOUS
<1>2. caps.lanes \in {1, 2, 4} /\ read \in BOOLEAN
  <2>1. caps \in Sinks
    BY DEF Typed
  <2> HIDE DEF LinkInv, TrainBegin
  <2> QED BY <2>1, SinksAssumption, ReadOkIn DEF Capable
<1>3. PICK told : told = Put(sink, got, "lanes", IF read THEN caps.lanes ELSE 0)
  OBVIOUS
<1>4. told \in Sink /\ ("lanes" \in got /\ read => told.lanes = caps.lanes)
  <2> HIDE DEF LinkInv, TrainBegin
  <2>1. sink \in Sink
    BY TypeFacts DEF LinkInv
  <2> QED BY <1>2, <1>3, <2>1 DEF Sink, Put
<1>5. /\ sink' = Put(Put(told, got, "rate", dp.linkRate), got, "pattern", "off")
      /\ lost' = (got # Registers \/ ~read)
  BY <1>1, <1>3
<1>6. sink' \in Sink
  BY <1>4, <1>5, TypeFacts DEF Sink, Put
<1>7. Typed'
  BY <1>6, <1>5 DEF Typed
<1>8. dp.laneCount <= caps.lanes
  <2>1. dp.laneCount = dp_get_lane_count(mode) /\ mode \in Modes /\ dp.valid /\ caps \in Sinks
    BY DEF Chosen, Typed
  <2>2. LaneMax = caps.lanes
    BY <2>1 DEF LaneMax
  <2> HIDE DEF LinkInv, TrainBegin
  <2> QED BY <1>2, <2>1, <2>2, LaneCount
<1>9. ~lost' => sink'.pattern = "off" /\ sink'.rate = dp.linkRate /\ sink'.lanes = caps.lanes
  <2> HIDE DEF LinkInv, TrainBegin
  <2> QED BY <1>4, <1>5 DEF Put, Registers, Sink
<1>10. (Patterns /\ Driven /\ Counted /\ Chosen)'
  BY <1>9, <1>8 DEF Patterns, Driven, Counted, Chosen, Idle, Training
<1> QED BY <1>7, <1>10

LEMMA CrBeginStep == LinkInv /\ CrBegin => LinkInv'
<1> SUFFICES ASSUME LinkInv, CrBegin PROVE LinkInv'
  OBVIOUS
<1> USE DEF LinkInv, CrBegin
<1> DEFINE All  == {"source", "pattern"} \cup Drives
           zero == [l \in Lanes |-> 0]
<1>1. PICK got \in Got(All) :
        LET tp == dp_set_tp("1", source, sink, got)
            vs == dp_update_vs_emph(dp'.set, tp[1], tp[2], got)
        IN source' = vs[1] /\ sink' = vs[2] /\ lost' = (lost \/ got # All)
  OBVIOUS
<1>2. PICK tp : tp = dp_set_tp("1", source, sink, got)
  OBVIOUS
<1>3. PICK vs : vs = dp_update_vs_emph(dp'.set, tp[1], tp[2], got)
  OBVIOUS
<1>4. source' = vs[1] /\ sink' = vs[2] /\ lost' = (lost \/ got # All)
  BY <1>1, <1>2, <1>3
<1>5. /\ dp'.set = zero /\ zero \in [Lanes -> Drive] /\ dp' \in Info
      /\ dp'.laneCount = dp.laneCount /\ dp'.linkRate = dp.linkRate
  BY LaneZero DEF Typed, Info
<1>6. source \in Source /\ sink \in Sink /\ caps.service \in BOOLEAN
  BY TypeFacts
<1>7. /\ tp[1] \in Source /\ tp[2] \in Sink /\ tp[2].rate = sink.rate /\ tp[2].lanes = sink.lanes
      /\ caps.service => tp[1] = source /\ tp[2] = sink
      /\ ~caps.service /\ {"source", "pattern"} \subseteq got =>
           tp[1].pattern = "1" /\ tp[2].pattern = "1"
  <2> HIDE DEF LinkInv, CrBegin
  <2> QED BY <1>2, <1>6, SetTp
<1>8. /\ vs[1] \in Source /\ vs[2] \in Sink
      /\ vs[1].pattern = tp[1].pattern /\ vs[2].pattern = tp[2].pattern
      /\ vs[2].rate = tp[2].rate /\ vs[2].lanes = tp[2].lanes
      /\ Drives \subseteq got =>
           vs[1].set = dp'.set[0] /\ \A l \in Used : vs[2].set[l] = dp'.set[l]
  <2> dp'.set \in [Lanes -> Drive]
    BY <1>5
  <2> HIDE DEF LinkInv, CrBegin
  <2> QED BY <1>3, <1>7, UpdateDrive
<1> HIDE DEF zero
<1>9. Typed'
  BY <1>4, <1>5, <1>8 DEF Typed
<1>10. ~lost' => ~lost /\ {"source", "pattern"} \subseteq got /\ Drives \subseteq got
  BY <1>4
<1>11. Patterns'
  <2>1. pc = "pattern 1" /\ pc' = "cr" /\ caps' = caps
    OBVIOUS
  <2>2. caps.service => source.pattern = "off"
    BY DEF Patterns
  <2>3. ~lost => sink.pattern = "off" /\ sink.rate = dp.linkRate /\ dp.laneCount <= sink.lanes
    BY <2>1 DEF Patterns
  <2>4. caps.service => source'.pattern = "off"
    BY <1>4, <1>7, <1>8, <2>2
  <2>5. ~lost' => source'.pattern = sink'.pattern
    <3>1. source'.pattern = tp[1].pattern /\ sink'.pattern = tp[2].pattern
      BY <1>4, <1>8
    <3>2. CASE caps.service
      BY <1>7, <1>10, <2>2, <2>3, <3>1, <3>2
    <3>3. CASE ~caps.service
      BY <1>7, <1>10, <3>1, <3>3
    <3> QED BY <3>2, <3>3
  <2>6. ~lost' => sink'.rate = dp'.linkRate /\ dp'.laneCount <= sink'.lanes
    BY <1>4, <1>5, <1>7, <1>8, <1>10, <2>3
  <2> HIDE DEF LinkInv, CrBegin
  <2> QED BY <2>1, <2>4, <2>5, <2>6 DEF Patterns, Idle, Training
<1>12. Used' = Used
  BY <1>5 DEF Used
<1>13. Driven'
  BY <1>4, <1>5, <1>8, <1>10, <1>12 DEF Driven
<1>14. (Counted /\ Chosen)'
  BY DEF Counted, Chosen
<1> QED BY <1>9, <1>11, <1>13, <1>14

(* A training that goes round: the new drive goes to both ends.             *)
LEMMA RetrainStep ==
  ASSUME LinkInv, NEW asks \in Asks, NEW n \in 0 .. Max({CrTries, CeTries + 1}),
         Retrain(asks, n), pc \in Training, UNCHANGED <<pc, caps, mode>>
  PROVE  /\ dp' \in Info /\ source' \in Source /\ sink' \in Sink /\ lost' \in BOOLEAN
         /\ dp'.attempts = n /\ Patterns' /\ Driven' /\ Chosen'
<1>1. dp \in Info /\ source \in Source /\ sink \in Sink /\ lost \in BOOLEAN
  BY DEF LinkInv, Typed
<1>2. Adjusted(asks) \in [Lanes -> Drive] /\ dp' = [dp EXCEPT !.set = Adjusted(asks), !.attempts = n]
  BY AdjustedType DEF Retrain
<1>3. PICK got \in Got(Drives) :
        LET vs == dp_update_vs_emph(dp'.set, source, sink, got)
        IN source' = vs[1] /\ sink' = vs[2] /\ lost' = (lost \/ got # Drives)
  BY DEF Retrain
<1>4. PICK vs : vs = dp_update_vs_emph(dp'.set, source, sink, got)
  OBVIOUS
<1>5. source' = vs[1] /\ sink' = vs[2] /\ lost' = (lost \/ got # Drives)
  BY <1>3, <1>4
<1>6. /\ dp' \in Info /\ dp'.set \in [Lanes -> Drive] /\ dp'.attempts = n
      /\ dp'.laneCount = dp.laneCount /\ dp'.linkRate = dp.linkRate
  BY <1>1, <1>2 DEF Info
<1>7. /\ vs[1] \in Source /\ vs[2] \in Sink
      /\ vs[1].pattern = source.pattern /\ vs[2].pattern = sink.pattern
      /\ vs[2].rate = sink.rate /\ vs[2].lanes = sink.lanes
      /\ Drives \subseteq got =>
           vs[1].set = dp'.set[0] /\ \A l \in Used : vs[2].set[l] = dp'.set[l]
  BY <1>1, <1>4, <1>6, UpdateDrive
<1>8. ~lost' => ~lost /\ Drives \subseteq got
  BY <1>5
<1>9. Used' = Used
  BY <1>6 DEF Used
<1>10. Patterns'
  BY <1>5, <1>6, <1>7, <1>8 DEF LinkInv, Patterns, Idle, Training
<1>11. Driven'
  BY <1>5, <1>7, <1>8, <1>9 DEF Driven
<1>12. Chosen'
  BY DEF Chosen, Training
<1> QED BY <1>1, <1>5, <1>6, <1>7, <1>10, <1>11, <1>12

(* The end of clock recovery forgets the voltage. *)
LEMMA Forgotten ==
  voltage' = NoVoltage /\ reads' = 0 =>
    voltage' \in 0 .. MaxSwing \cup {255} /\ reads' \in 0 .. CrTries + 1
BY TriesAssumption DEF NoVoltage

LEMMA CrLeavesStep == LinkInv /\ CrLeaves => LinkInv'
<1> SUFFICES ASSUME LinkInv, CrLeaves PROVE LinkInv'
  OBVIOUS
<1>1. Typed'
  <2>1. UNCHANGED <<caps, mode, dp, source, sink, lost>> /\ pc' = "pattern 2"
    BY DEF CrLeaves, link
  <2>2. voltage' \in 0 .. MaxSwing \cup {255} /\ reads' \in 0 .. CrTries + 1
    BY Forgotten DEF CrLeaves
  <2> QED BY <2>1, <2>2 DEF LinkInv, Typed
<1>2. (Patterns /\ Driven /\ Counted /\ Chosen)'
  BY DEF LinkInv, CrLeaves, link, Patterns, Driven, Counted, Chosen, Idle, Training, Used
<1> QED BY <1>1, <1>2 DEF LinkInv

(* At the voltage it saw last, clock recovery has counted every try.        *)
LEMMA SameCounted ==
  ASSUME LinkInv, pc = "cr", Same
  PROVE  reads = dp.attempts + 1 /\ dp.attempts \in Nat /\ dp.attempts < CrTries
<1>1. dp.set[0] \in Drive /\ dp.attempts \in Nat
  BY TypeFacts, LaneZero DEF LinkInv
<1>2. voltage # NoVoltage
  BY <1>1, LaneZero DEF Same
<1> QED BY <1>1, <1>2 DEF LinkInv, Counted

LEMMA CrTiredStep == LinkInv /\ CrTired => LinkInv'
<1> SUFFICES ASSUME LinkInv, CrTired PROVE LinkInv'
  OBVIOUS
<1> DEFINE M == Max({CrTries, CeTries + 1})
<1>1. dp.attempts \in Nat /\ dp.attempts < CrTries
  BY SameCounted DEF CrTired
<1>2. M \in Nat /\ CrTries <= M /\ CrTries \in Nat
  BY MaxAttempts, TriesAssumption
<1> HIDE DEF M
<1>3. dp.attempts + 1 \in 0 .. M
  BY <1>1, <1>2
<1>4. dp' \in Info
  <2>1. dp \in Info /\ dp' = [dp EXCEPT !.attempts = dp.attempts + 1]
    BY DEF LinkInv, Typed, CrTired
  <2> QED BY <1>3, <2>1 DEF Info, M
<1>5. Typed'
  <2>1. UNCHANGED <<caps, mode, source, sink, lost>> /\ pc' = "pattern 2"
    BY DEF CrTired, link
  <2>2. voltage' \in 0 .. MaxSwing \cup {255} /\ reads' \in 0 .. CrTries + 1
    BY Forgotten DEF CrTired
  <2> QED BY <1>4, <2>1, <2>2 DEF LinkInv, Typed
<1>6. dp'.set = dp.set /\ dp'.laneCount = dp.laneCount /\ dp'.linkRate = dp.linkRate
  BY DEF CrTired, LinkInv, Typed, Info
<1>7. (Patterns /\ Driven /\ Counted /\ Chosen)'
  BY <1>6 DEF LinkInv, CrTired, link, Patterns, Driven, Counted, Chosen, Idle, Training, Used
<1> QED BY <1>5, <1>7 DEF LinkInv

LEMMA CrAgainStep == LinkInv /\ CrAgain => LinkInv'
<1> SUFFICES ASSUME LinkInv, CrAgain PROVE LinkInv'
  OBVIOUS
<1> DEFINE M == Max({CrTries, CeTries + 1})
           n == IF Same THEN dp.attempts + 1 ELSE 0
<1>1. M \in Nat /\ CrTries <= M /\ CrTries \in Nat \ {0}
  BY MaxAttempts, TriesAssumption
<1>2. PICK asks \in Asks : Retrain(asks, n)
  BY DEF CrAgain
<1>3. pc = "cr" /\ UNCHANGED <<pc, caps, mode>> /\ voltage' = dp.set[0]
  BY DEF CrAgain
<1>4. Same => reads = dp.attempts + 1 /\ dp.attempts \in Nat /\ n < CrTries
  BY <1>1, <1>3, SameCounted DEF CrAgain
<1>5. n \in Nat /\ n < CrTries /\ reads' = n + 1
  BY <1>1, <1>4 DEF CrAgain
<1> HIDE DEF n
<1>6. n \in 0 .. M
  <2> HIDE DEF M
  <2> QED BY <1>1, <1>5
<1>7. /\ dp' \in Info /\ source' \in Source /\ sink' \in Sink /\ lost' \in BOOLEAN
      /\ dp'.attempts = n /\ Patterns' /\ Driven' /\ Chosen'
  BY <1>2, <1>3, <1>6, RetrainStep DEF Training
<1>8. voltage' \in Drive
  BY <1>3, TypeFacts, LaneZero DEF LinkInv
<1>9. Typed'
  BY <1>1, <1>3, <1>5, <1>7, <1>8 DEF LinkInv, Typed, Drive
<1>10. Counted'
  BY <1>3, <1>5, <1>7, <1>8, LaneZero DEF Counted
<1> QED BY <1>7, <1>9, <1>10 DEF LinkInv

LEMMA CeBeginStep == LinkInv /\ CeBegin => LinkInv'
<1> SUFFICES ASSUME LinkInv, CeBegin PROVE LinkInv'
  OBVIOUS
<1> DEFINE Both == {"source", "pattern"}
           M == Max({CrTries, CeTries + 1})
<1>1. PICK got \in Got(Both) :
        LET tp == dp_set_tp("2", source, sink, got)
        IN source' = tp[1] /\ sink' = tp[2] /\ lost' = (lost \/ got # Both)
  BY DEF CeBegin
<1>2. PICK tp : tp = dp_set_tp("2", source, sink, got)
  OBVIOUS
<1>3. source' = tp[1] /\ sink' = tp[2] /\ lost' = (lost \/ got # Both)
  BY <1>1, <1>2
<1>4. source \in Source /\ sink \in Sink /\ caps.service \in BOOLEAN /\ dp \in Info
  BY TypeFacts DEF LinkInv
<1>5. /\ tp[1] \in Source /\ tp[2] \in Sink
      /\ tp[1].set = source.set /\ tp[2].set = sink.set /\ tp[2].rate = sink.rate /\ tp[2].lanes = sink.lanes
      /\ caps.service => tp[1] = source /\ tp[2] = sink
      /\ ~caps.service /\ Both \subseteq got => tp[1].pattern = "2" /\ tp[2].pattern = "2"
  BY <1>2, <1>4, SetTp
<1>6. dp' = [dp EXCEPT !.attempts = 0] /\ 0 \in 0 .. M
  <2>1. M \in Nat
    BY MaxAttempts
  <2>2. dp' = [dp EXCEPT !.attempts = 0]
    BY DEF CeBegin
  <2> HIDE DEF M
  <2>3. 0 \in 0 .. M
    BY <2>1
  <2> QED BY <2>2, <2>3
<1> HIDE DEF M
<1>7. /\ dp' \in Info
      /\ dp'.set = dp.set /\ dp'.laneCount = dp.laneCount /\ dp'.linkRate = dp.linkRate
  BY <1>4, <1>6 DEF Info, M
<1>8. UNCHANGED <<caps, mode, voltage, reads>> /\ pc = "pattern 2" /\ pc' = "ce"
  BY DEF CeBegin
<1>9. Typed'
  BY <1>3, <1>5, <1>7, <1>8 DEF LinkInv, Typed
<1>10. ~lost' => ~lost /\ Both \subseteq got
  BY <1>3
<1>11. Patterns'
  BY <1>3, <1>4, <1>5, <1>7, <1>8, <1>10 DEF LinkInv, Patterns, Idle, Training
<1>12. (Driven /\ Counted /\ Chosen)'
  BY <1>3, <1>5, <1>7, <1>8, <1>10 DEF LinkInv, Driven, Counted, Chosen, Training, Used
<1> QED BY <1>9, <1>11, <1>12 DEF LinkInv

LEMMA CeLeavesStep == LinkInv /\ CeLeaves => LinkInv'
<1> SUFFICES ASSUME LinkInv, CeLeaves PROVE LinkInv'
  OBVIOUS
<1>1. UNCHANGED <<caps, dp, mode, voltage, source, sink, lost, reads>> /\ pc = "ce" /\ pc' = "finish"
  BY DEF CeLeaves, link
<1>2. Typed'
  BY <1>1 DEF LinkInv, Typed
<1>3. (Patterns /\ Driven /\ Counted /\ Chosen)'
  BY <1>1 DEF LinkInv, Patterns, Driven, Counted, Chosen, Idle, Training, Used
<1> QED BY <1>2, <1>3 DEF LinkInv

LEMMA CeAgainStep == LinkInv /\ CeAgain => LinkInv'
<1> SUFFICES ASSUME LinkInv, CeAgain PROVE LinkInv'
  OBVIOUS
<1> DEFINE M == Max({CrTries, CeTries + 1})
<1>1. M \in Nat /\ CeTries < M /\ CeTries \in Nat
  BY MaxAttempts, TriesAssumption
<1>2. dp.attempts \in Nat /\ dp.attempts <= CeTries
  BY TypeFacts DEF LinkInv, CeAgain
<1>3. dp.attempts + 1 \in 0 .. M
  <2> HIDE DEF M
  <2> QED BY <1>1, <1>2
<1>4. PICK asks \in Asks : Retrain(asks, dp.attempts + 1)
  BY DEF CeAgain
<1>5. UNCHANGED <<pc, caps, mode, voltage, reads>> /\ pc = "ce"
  BY DEF CeAgain
<1>6. /\ dp' \in Info /\ source' \in Source /\ sink' \in Sink /\ lost' \in BOOLEAN
      /\ Patterns' /\ Driven' /\ Chosen'
  BY <1>3, <1>4, <1>5, RetrainStep DEF Training
<1>7. Typed'
  BY <1>5, <1>6 DEF LinkInv, Typed
<1>8. Counted'
  BY <1>5 DEF LinkInv, Counted
<1> QED BY <1>6, <1>7, <1>8 DEF LinkInv

LEMMA FinishStep == LinkInv /\ Finish => LinkInv'
<1> SUFFICES ASSUME LinkInv, Finish PROVE LinkInv'
  OBVIOUS
<1> DEFINE Both == {"source", "pattern"}
<1>1. PICK got \in Got(Both) :
        /\ source' = IF caps.service \/ "source" \notin got THEN source
                     ELSE [source EXCEPT !.pattern = "off"]
        /\ sink' = Put(sink, got, "pattern", "off")
        /\ lost' = (lost \/ got # Both)
  BY DEF Finish
<1>2. UNCHANGED <<caps, dp, mode, voltage, reads>> /\ pc = "finish" /\ pc' = "ready"
  BY DEF Finish
<1>3. source \in Source /\ sink \in Sink /\ caps.service \in BOOLEAN
  BY TypeFacts DEF LinkInv
<1>4. source' \in Source /\ sink' \in Sink
  BY <1>1, <1>3 DEF Source, Sink, Put
<1>5. Typed'
  BY <1>1, <1>2, <1>4 DEF LinkInv, Typed
<1>6. /\ caps.service => source' = source
      /\ ~lost' => ~lost /\ Both \subseteq got
      /\ Both \subseteq got => sink'.pattern = "off"
      /\ Both \subseteq got /\ ~caps.service => source'.pattern = "off"
  BY <1>1, <1>3 DEF Source, Sink, Put
<1>7. Patterns'
  BY <1>2, <1>6 DEF LinkInv, Patterns, Idle, Training
<1>8. (Driven /\ Counted /\ Chosen)'
  BY <1>2 DEF LinkInv, Driven, Counted, Chosen, Training
<1> QED BY <1>5, <1>7, <1>8 DEF LinkInv

LEMMA LinkStep == LinkInv /\ [Next]_vars => LinkInv'
<1>1. ASSUME LinkInv, UNCHANGED vars PROVE LinkInv'
  <2>1. UNCHANGED <<pc, caps, dp, mode, voltage, source, sink, lost, reads>>
    BY <1>1 DEF vars, link
  <2>2. Typed'
    BY <1>1, <2>1 DEF LinkInv, Typed
  <2>3. (Patterns /\ Driven /\ Counted)'
    BY <1>1, <2>1 DEF LinkInv, Patterns, Driven, Counted, Used
  <2>4. Chosen'
    <3>1. dp_get_lane_count(mode)' = dp_get_lane_count(mode)
      BY <2>1 DEF dp_get_lane_count, RateMax, LaneMax
    <3>2. dp_get_link_rate(mode)' = dp_get_link_rate(mode)
      BY <2>1, <3>1 DEF dp_get_link_rate, RateMax
    <3> QED BY <1>1, <2>1, <3>1, <3>2 DEF LinkInv, Chosen
  <2> QED BY <2>2, <2>3, <2>4 DEF LinkInv
<1> QED
  BY <1>1, SetupStep, ChooseStep, InvalidStep, BeginStep, CrBeginStep, CrLeavesStep, CrTiredStep,
     CrAgainStep, CeBeginStep, CeLeavesStep, CeAgainStep, FinishStep DEF Next, Train

LEMMA LinkInvAlways == Spec => []LinkInv
BY LinkInit, LinkStep, PTL DEF Spec

-----------------------------------------------------------------------------
(* A mode the sink can carry gets a link that carries it, with nothing to   *)
(* spare: dp_get_lane_count() and dp_get_link_rate() of displayport.cpp.    *)
THEOREM LinkCarriesModeAlways == Spec => []LinkCarriesMode
<1>1. LinkInv => LinkCarriesMode
  BY ChosenCarries DEF LinkInv, Typed
<1> QED BY <1>1, LinkInvAlways, PTL

(* As long as no command is lost, the status of the link is judged with     *)
(* both ends in the same pattern, at the same drive and the rate chosen:    *)
(* dp_link_train() of displayport.cpp; and the link carries the mode, for   *)
(* every sink and mode.                                                     *)
THEOREM LinkInvariant == Spec => []Inv
<1>1. LinkInv => TypeOK /\ SinkFollows
  BY TypeSame DEF LinkInv, SinkFollows, Patterns, Driven, Idle, Training
<1>2. LinkInv => LinkCarriesMode
  BY ChosenCarries DEF LinkInv, Typed
<1> QED BY <1>1, <1>2, LinkInvAlways, PTL DEF Inv

(* Clock recovery gives up as tired only after CrTries statuses at one       *)
(* voltage, whatever count an earlier training left: dp_link_train_cr().     *)
THEOREM ClockRecoveryIsPatient == Spec => CrIsPatient
<1>1. LinkInv /\ [Next]_vars => [CrTired => reads >= CrTries]_vars
  <2> SUFFICES ASSUME LinkInv, CrTired PROVE reads >= CrTries
    OBVIOUS
  <2>1. reads = dp.attempts + 1 /\ dp.attempts + 1 >= CrTries
    BY SameCounted DEF CrTired
  <2> QED BY <2>1
<1> QED BY <1>1, LinkInvAlways, PTL DEF Spec, CrIsPatient

-----------------------------------------------------------------------------
(* The detection of monitors.  The argument is about the loop of             *)
(* detect_displays().  The displays below displayIndex are finished         *)
(* (GivenOut) and are not touched again; the one at displayIndex may hold    *)
(* the EDID of a connector that was rejected, but nothing else of it        *)
(* (Clean); and each connector the loop has passed is shown if it had to be *)
(* (Passed).                                                               *)
Connectors ==
  [valid : BOOLEAN, type : Types, tag : Tags, encoder : Encoders, gpioID : Slots, jack : Nat]

Displays ==
  [attached : BOOLEAN, powered : BOOLEAN, connectorIndex : Slots, foundRanges : BOOLEAN,
   edid : Nat, preferred : BOOLEAN, registers : BOOLEAN]

DetectTypes ==
  /\ board \in Boards
  /\ step \in {"gpio", "connectors", "detect", "done", "failed"} /\ k \in Nat
  /\ gpio \in [Slots -> [hwPin : Nat, valid : BOOLEAN]]
  /\ connector \in [Slots -> Connectors] /\ connectorIndex \in 0 .. ATOM_MAX_SUPPORTED_DEVICE
  /\ display \in [Crtcs -> Displays] /\ displayIndex \in 0 .. MAX_DISPLAY

(* Nothing is given out before the loop. *)
Before == step \in {"gpio", "connectors", "failed"} => displayIndex = 0

(* The displays that are finished: each shows a connector the loop has      *)
(* passed, for its panel or for the EDID over its own line.                *)
ShowsOwn(d) ==
  /\ display[d].attached /\ display[d].registers
  /\ connector[display[d].connectorIndex].valid
  /\ step = "detect" => display[d].connectorIndex < k
  /\ display[d].foundRanges => ~display[d].preferred /\ HasRanges(display[d])
  /\ ~display[d].preferred =>
       /\ display[d].edid = EdidJack(display[d].connectorIndex) /\ display[d].edid # NoJack
       /\ Accepts(display[d].connectorIndex, display[d].edid)

GivenOut ==
  /\ \A d \in Crtcs : d < displayIndex => ShowsOwn(d)
  /\ \A d, e \in Crtcs : d < e /\ e < displayIndex =>
       display[d].connectorIndex < display[e].connectorIndex

(* The others: nothing is known of them but, it may be, an EDID; when no    *)
(* monitor was found the first one is lit all the same.                    *)
Clean ==
  \A d \in Crtcs : d >= displayIndex =>
    /\ step # "done" => ~display[d].preferred /\ ~display[d].foundRanges
    /\ display[d].attached =>
         step = "done" /\ d = 0 /\ displayIndex = 0 /\ display[d].registers

Powered == step = "done" => \A d \in Crtcs : display[d].attached => display[d].powered

(* A connector that has to be shown if a CRTC is free. *)
Demands(id) ==
  LET m == Plugged(connector[id].jack) IN
  /\ connector[id].valid /\ connector[id].type # "9DIN"
  /\ EdidJack(id) = connector[id].jack /\ m # None
  /\ m.digital = m.says /\ m.digital = ~IsAnalog(id)

Passed ==
  displayIndex < MAX_DISPLAY =>
    \A id \in Slots :
      /\ step = "done" \/ (step = "detect" /\ id < k)
      /\ Demands(id)
      => \E d \in Crtcs : d < displayIndex /\ display[d].connectorIndex = id

DInv == DetectTypes /\ Before /\ GivenOut /\ Clean /\ Powered /\ Passed

-----------------------------------------------------------------------------
(* What is read over a line. *)
LEMMA BoardFacts ==
  ASSUME board \in Boards
  PROVE  /\ board.paths \in Seq(Paths)
         /\ \A p \in ToSet(board.paths) : p \in Paths /\ p.jack \in DOMAIN board.plugged
         /\ \A jack \in DOMAIN board.plugged : board.plugged[jack] \in Monitors \cup {None}
<1>1. board.paths \in Seq(Paths)
  BY BoardsAssumption
<1>2. \A p \in ToSet(board.paths) : p \in Paths
  BY <1>1 DEF ToSet
<1> QED
  BY <1>1, <1>2, BoardsAssumption

LEMMA JackFacts ==
  ASSUME board \in Boards, NEW g
  PROVE  JackOf(g) # NoJack =>
           JackOf(g) \in Nat \ {NoJack} /\ JackOf(g) \in DOMAIN board.plugged
<1> DEFINE paths == {p \in ToSet(board.paths) : p.pin # 0 /\ p.pin = gpio[g].hwPin}
<1> SUFFICES ASSUME paths # {}
             PROVE  JackOf(g) \in Nat \ {NoJack} /\ JackOf(g) \in DOMAIN board.plugged
  BY DEF JackOf
<1>1. JackOf(g) = (CHOOSE p \in paths : TRUE).jack
  BY DEF JackOf
<1>2. (CHOOSE p \in paths : TRUE) \in paths
  OBVIOUS
<1>3. \A p \in paths : p.jack \in Nat \ {NoJack} /\ p.jack \in DOMAIN board.plugged
  BY BoardFacts DEF Paths
<1> QED
  BY <1>1, <1>2, <1>3

LEMMA EdidFacts ==
  ASSUME board \in Boards, NEW id
  PROVE  /\ EdidJack(id) \in Nat
         /\ EdidJack(id) # NoJack =>
              Plugged(EdidJack(id)) # None /\ Plugged(EdidJack(id)) \in Monitors
<1>1. EdidJack(id) # NoJack =>
        EdidJack(id) \in Nat /\ EdidJack(id) \in DOMAIN board.plugged /\ Plugged(EdidJack(id)) # None
  BY JackFacts DEF EdidJack
<1> QED
  BY <1>1, BoardFacts DEF Plugged, NoJack

(* Lines, jacks and connectors stay what they are during the detection.     *)
LEMMA Fixed ==
  ASSUME UNCHANGED <<board, gpio, connector>>
  PROVE  \A id, jack :
           /\ EdidJack(id)' = EdidJack(id) /\ Plugged(jack)' = Plugged(jack)
           /\ Accepts(id, jack)' <=> Accepts(id, jack)
           /\ Demands(id)' <=> Demands(id)
           /\ HasRanges(id)' <=> HasRanges(id)
<1>1. \A g : JackOf(g)' = JackOf(g)
  BY DEF JackOf
<1>2. \A jack : Plugged(jack)' = Plugged(jack)
  BY DEF Plugged
<1>3. \A id : EdidJack(id)' = EdidJack(id)
  BY <1>1, <1>2 DEF EdidJack
<1>4. \A id : IsAnalog(id)' <=> IsAnalog(id)
  BY DEF IsAnalog
<1>5. \A id : encoder_analog_load_detect(id)' <=> encoder_analog_load_detect(id)
  BY <1>2 DEF encoder_analog_load_detect
<1>6. \A id, jack : Accepts(id, jack)' <=> Accepts(id, jack)
  BY <1>2, <1>4, <1>5 DEF Accepts
<1>7. \A id : Demands(id)' <=> Demands(id)
  BY <1>2, <1>3, <1>4 DEF Demands
<1>8. \A d : HasRanges(d)' <=> HasRanges(d)
  BY <1>2 DEF HasRanges
<1> QED
  BY <1>2, <1>3, <1>6, <1>7, <1>8

-----------------------------------------------------------------------------
(* A round of the loop on a display of which nothing is known but an EDID.  *)
Fresh(d) == d \in Displays /\ ~d.attached /\ ~d.preferred /\ ~d.foundRanges

(* What the round finds is the panel or the monitor on the line, and one    *)
(* that has to be shown is found.                                          *)
LEMMA FoundFacts ==
  ASSUME DetectTypes, NEW id \in Slots, NEW d, Fresh(d), NEW f, f = Found(id, d)
  PROVE  /\ f \in Displays /\ ~f.foundRanges
         /\ ~f.attached => ~f.preferred
         /\ f.attached /\ ~f.preferred =>
              f.edid = EdidJack(id) /\ f.edid # NoJack /\ Accepts(id, f.edid)
         /\ Demands(id) => f.attached
<1>1. CASE connector[id].type = "LVDS" /\ board.panel
  <2>1. f = [d EXCEPT !.attached = TRUE, !.preferred = TRUE]
    BY <1>1 DEF Found
  <2> QED
    BY <2>1 DEF Fresh, Displays
<1>2. CASE ~(connector[id].type = "LVDS" /\ board.panel) /\ EdidJack(id) = NoJack
  <2>1. f = d
    BY <1>2 DEF Found
  <2>2. ~Demands(id)
    BY <1>2 DEF Demands, Plugged
  <2> QED
    BY <2>1, <2>2 DEF Fresh
<1>3. CASE ~(connector[id].type = "LVDS" /\ board.panel) /\ EdidJack(id) # NoJack
  <2>1. f = [d EXCEPT !.edid = EdidJack(id), !.attached = Accepts(id, EdidJack(id))]
    BY <1>3 DEF Found
  <2>2. EdidJack(id) \in Nat /\ Plugged(EdidJack(id)) \in Monitors
    BY <1>3, EdidFacts DEF DetectTypes
  <2>3. Demands(id) => Accepts(id, EdidJack(id))
    BY <2>2 DEF Demands, Accepts, encoder_analog_load_detect, Monitors
  <2>4. /\ f \in Displays /\ ~f.foundRanges /\ ~f.preferred
        /\ f.edid = EdidJack(id) /\ (f.attached <=> Accepts(id, EdidJack(id)))
    <3>1. Accepts(id, EdidJack(id)) \in BOOLEAN
      BY DEF Accepts
    <3> DEFINE yes == Accepts(id, EdidJack(id))
    <3> HIDE DEF yes
    <3>2. yes \in BOOLEAN /\ f = [d EXCEPT !.edid = EdidJack(id), !.attached = yes]
      BY <2>1, <3>1 DEF yes
    <3>3. /\ f \in Displays /\ ~f.foundRanges /\ ~f.preferred
          /\ f.edid = EdidJack(id) /\ f.attached = yes
      BY <2>2, <3>2 DEF Fresh, Displays
    <3> QED
      BY <3>3 DEF yes
  <2> QED
    BY <1>3, <2>3, <2>4
<1> QED
  BY <1>1, <1>2, <1>3

LEMMA AttachFacts ==
  ASSUME NEW id \in Slots, NEW f \in Displays, f.attached, ~f.foundRanges,
         NEW a, a = Attach(id, f)
  PROVE  /\ a \in Displays /\ a.attached /\ a.registers /\ a.connectorIndex = id
         /\ a.preferred = f.preferred /\ a.edid = f.edid
         /\ a.foundRanges => ~a.preferred /\ HasRanges(a)
<1>1. HasRanges(f) \in BOOLEAN
  BY DEF HasRanges
<1>2. a = [f EXCEPT !.connectorIndex = id, !.registers = TRUE,
                    !.foundRanges = IF f.preferred THEN FALSE ELSE f.foundRanges \/ HasRanges(f)]
  BY DEF Attach
<1>3. /\ a \in Displays /\ a.attached /\ a.registers /\ a.connectorIndex = id
      /\ a.preferred = f.preferred /\ a.edid = f.edid
      /\ a.foundRanges => ~a.preferred /\ HasRanges(f)
  BY <1>1, <1>2 DEF Displays
<1> QED
  BY <1>3 DEF HasRanges

-----------------------------------------------------------------------------
(* The invariant. *)
LEMMA DetectInitOK ==
  ASSUME DetectInit
  PROVE  DInv
<1>1. 0 \in Slots /\ Slots \subseteq Nat /\ Crtcs \subseteq Nat
  BY RoomAssumption DEF Slots, Crtcs
<1>2. [hwPin |-> 0, valid |-> FALSE] \in [hwPin : Nat, valid : BOOLEAN]
  OBVIOUS
<1>3. NoConnector \in Connectors
  BY <1>1 DEF NoConnector, Connectors, Types, Tags, Encoders
<1>4. NoDisplay \in Displays
  BY <1>1 DEF NoDisplay, Displays, NoJack
<1>5. DetectTypes
  BY <1>2, <1>3, <1>4, RoomAssumption DEF DetectInit, DetectTypes
<1>6. Before /\ GivenOut /\ Powered /\ Passed
  BY <1>1 DEF DetectInit, Before, GivenOut, Powered, Passed
<1>7. Clean
  BY DEF DetectInit, Clean, NoDisplay
<1> QED
  BY <1>5, <1>6, <1>7 DEF DInv

LEMMA GpioOK ==
  ASSUME DInv, gpio_probe
  PROVE  DInv'
<1> USE DEF DInv
<1>1. gpio' \in [Slots -> [hwPin : Nat, valid : BOOLEAN]]
  <2>1. \A i \in Slots : [hwPin |-> i + 1, valid |-> board.pins[i + 1] # 0] \in [hwPin : Nat, valid : BOOLEAN]
    BY DEF Slots
  <2> QED
    BY <2>1 DEF gpio_probe, DetectTypes
<1>2. DetectTypes'
  BY <1>1 DEF gpio_probe, DetectTypes
<1>3. displayIndex' = 0 /\ step' = "connectors" /\ step = "gpio" /\ UNCHANGED display
  BY DEF gpio_probe, Before
<1>4. Before' /\ Powered' /\ Passed'
  BY <1>3 DEF Before, Powered, Passed
<1>5. GivenOut'
  BY <1>3 DEF GivenOut, Crtcs
<1>6. Clean'
  BY <1>3 DEF Clean, Before
<1> QED
  BY <1>2, <1>4, <1>5, <1>6

LEMMA Least ==
  ASSUME NEW numbers, numbers \subseteq Nat, numbers # {}
  PROVE  Min(numbers) \in numbers
<1>1. PICK m \in numbers : \A n \in numbers : ~ (<<n, m>> \in OpToRel(<, Nat))
  BY NatLessThanWellFounded, WFMin
<1>2. \A n \in numbers : m <= n
  <2>1. SUFFICES ASSUME NEW n \in numbers, n < m PROVE FALSE
    OBVIOUS
  <2>2. <<n, m>> \in OpToRel(<, Nat)
    BY <2>1 DEF OpToRel
  <2> QED
    BY <1>1, <2>2
<1> QED
  BY <1>2 DEF Min

LEMMA LineExists ==
  ASSUME NEW pin
  PROVE  GpioOf(pin) \in Slots
<1> DEFINE lines == {i \in Slots : gpio[i].hwPin = pin}
<1>1. CASE lines = {}
  BY <1>1, RoomAssumption DEF GpioOf, Slots
<1>2. CASE lines # {}
  <2>1. lines \subseteq Nat
    BY DEF Slots
  <2>2. Min(lines) \in lines
    BY <1>2, <2>1, Least
  <2> QED
    BY <1>2, <2>2 DEF GpioOf
<1> QED
  BY <1>1, <1>2

LEMMA ProbeOK ==
  ASSUME DInv, Probe
  PROVE  DInv'
<1> USE DEF DInv
<1>1. k + 1 \in DOMAIN board.paths /\ board.paths[k + 1] \in Paths
  <2>1. board.paths \in Seq(Paths)
    BY BoardFacts DEF DetectTypes
  <2> QED
    BY <2>1 DEF Probe, DetectTypes
<1> DEFINE path == board.paths[k + 1]
<1>2. /\ PathType(path) \in Types /\ path.tag \in Tags /\ path.encoder \in Encoders
      /\ path.jack \in Nat
  BY <1>1 DEF PathType, Paths, Types
<1> HIDE DEF path
<1>3. connector' \in [Slots -> Connectors]
      /\ connectorIndex' \in 0 .. ATOM_MAX_SUPPORTED_DEVICE
  <2>1. CASE connectorIndex < ATOM_MAX_SUPPORTED_DEVICE /\ Usable(path)
    <3>1. connectorIndex \in Slots /\ connectorIndex' = connectorIndex + 1
      BY <2>1, RoomAssumption DEF DetectTypes, Slots, Probe, connector_probe, path
    <3> DEFINE line == IF HasLine(path) THEN GpioOf(path.pin) ELSE connector[connectorIndex].gpioID
    <3>2. line \in Slots
      BY <3>1, LineExists DEF DetectTypes, Connectors
    <3> DEFINE new == [valid |-> TRUE, type |-> PathType(path), tag |-> path.tag,
                       encoder |-> path.encoder, gpioID |-> line, jack |-> path.jack]
    <3>3. new \in Connectors
      BY <1>2, <3>2 DEF Connectors
    <3>4. connector' = [connector EXCEPT ![connectorIndex] = new]
      BY <2>1 DEF Probe, connector_probe, path
    <3> QED
      BY <2>1, <3>1, <3>3, <3>4, RoomAssumption DEF DetectTypes
  <2>2. CASE ~(connectorIndex < ATOM_MAX_SUPPORTED_DEVICE /\ Usable(path))
    BY <2>2 DEF Probe, connector_probe, path, DetectTypes
  <2> QED
    BY <2>1, <2>2
<1>4. DetectTypes'
  BY <1>3 DEF Probe, DetectTypes
<1>5. displayIndex' = 0 /\ displayIndex = 0 /\ step' = "connectors" /\ step = "connectors"
      /\ UNCHANGED display
  BY DEF Probe, Before
<1>6. Before' /\ Powered' /\ Passed'
  BY <1>5 DEF Before, Powered, Passed
<1>7. GivenOut'
  BY <1>5 DEF GivenOut, Crtcs
<1>8. Clean'
  BY <1>5 DEF Clean
<1> QED
  BY <1>4, <1>6, <1>7, <1>8

LEMMA ProbedOK ==
  ASSUME DInv, Probed
  PROVE  DInv'
<1> USE DEF DInv
<1>1. /\ step = "connectors" /\ step' \in {"failed", "detect"} /\ k' = 0
      /\ displayIndex = 0 /\ displayIndex' = 0 /\ UNCHANGED <<board, gpio, connector, connectorIndex>>
  BY DEF Probed, Before
<1>2. \A d \in Crtcs : display[d] \in Displays
  BY DEF DetectTypes
<1>3. /\ display' \in [Crtcs -> Displays]
      /\ \A d \in Crtcs : /\ display'[d].preferred = display[d].preferred
                          /\ ~display'[d].attached /\ ~display'[d].foundRanges
  <2>1. \A d \in Crtcs : LET n == [display[d] EXCEPT !.attached = FALSE, !.powered = FALSE,
                                                    !.foundRanges = FALSE]
                        IN n \in Displays /\ n.preferred = display[d].preferred
                           /\ ~n.attached /\ ~n.foundRanges
    BY <1>2 DEF Displays
  <2> QED
    BY <2>1 DEF Probed
<1>4. DetectTypes'
  BY <1>1, <1>3, RoomAssumption DEF DetectTypes
<1>5. GivenOut' /\ Before' /\ Powered'
  BY <1>1, <1>3 DEF GivenOut, Before, Powered, Crtcs
<1>6. Clean'
  BY <1>1, <1>3 DEF Clean
<1>7. Passed'
  BY <1>1 DEF Passed, Slots
<1> QED
  BY <1>4, <1>5, <1>6, <1>7

(* A round of detect_displays(): the connector is left out, or the display  *)
(* at displayIndex keeps at most its EDID, or is finished with it.         *)
LEMMA DetectConnectorOK ==
  ASSUME DInv, DetectConnector
  PROVE  DInv'
<1> USE DEF DInv
<1>1. /\ step = "detect" /\ step' = "detect" /\ k \in Slots /\ k \in Nat /\ k' = k + 1
      /\ UNCHANGED <<board, gpio, connector, connectorIndex>>
  BY RoomAssumption DEF DetectConnector, DetectTypes, Slots
<1>2. \A id, jack :
        /\ EdidJack(id)' = EdidJack(id) /\ Plugged(jack)' = Plugged(jack)
        /\ Accepts(id, jack)' <=> Accepts(id, jack)
        /\ Demands(id)' <=> Demands(id)
        /\ HasRanges(id)' <=> HasRanges(id)
  BY <1>1, Fixed
<1>3. Before' /\ Powered'
  BY <1>1 DEF Before, Powered
<1>4. \A d \in Crtcs : display[d] \in Displays
  BY DEF DetectTypes
<1>5. Crtcs \subseteq Nat /\ Slots \subseteq Nat /\ displayIndex \in Nat /\ MAX_DISPLAY \in Nat
  BY RoomAssumption DEF Crtcs, Slots, DetectTypes
<1>6. ASSUME NEW d \in Crtcs, d < displayIndex, display'[d] = display[d]
      PROVE  ShowsOwn(d)'
  <2>1. ShowsOwn(d) /\ display[d].connectorIndex \in Slots
    BY <1>4, <1>6 DEF GivenOut, Displays
  <2>2. display[d].connectorIndex < k + 1
    <3>1. display[d].connectorIndex < k /\ display[d].connectorIndex \in Nat
      BY <1>1, <1>5, <2>1 DEF ShowsOwn
    <3> QED
      BY <1>1, <3>1
  <2> QED
    BY <1>1, <1>2, <1>6, <2>1, <2>2 DEF ShowsOwn
<1>7. CASE Skipped(k)
  <2>1. UNCHANGED <<display, displayIndex>>
    BY <1>7 DEF DetectConnector
  <2>2. DetectTypes'
    BY <1>1, <2>1 DEF DetectTypes
  <2>3. GivenOut'
    BY <1>6, <2>1 DEF GivenOut
  <2>4. Clean'
    BY <1>1, <2>1 DEF Clean
  <2>5. Passed'
    <3>1. SUFFICES ASSUME displayIndex < MAX_DISPLAY, NEW id \in Slots, id < k + 1, Demands(id)
                   PROVE  \E d \in Crtcs : d < displayIndex /\ display[d].connectorIndex = id
      BY <1>1, <1>2, <2>1 DEF Passed
    <3>2. id # k
      BY <1>5, <1>7, <3>1 DEF Skipped, Demands
    <3>3. id < k
      BY <1>1, <1>5, <3>1, <3>2
    <3> QED
      BY <1>1, <3>1, <3>3 DEF Passed
  <2> QED
    BY <1>3, <2>2, <2>3, <2>4, <2>5
<1>8. CASE ~Skipped(k)
  <2>0. PICK n, f, a : n = displayIndex /\ f = Found(k, display[n]) /\ a = Attach(k, f)
    OBVIOUS
  <2>1. n \in Crtcs /\ n < MAX_DISPLAY /\ connector[k].valid
    BY <1>5, <1>8, <2>0 DEF Skipped, Crtcs
  <2>2. Fresh(display[n])
    BY <1>1, <1>4, <1>5, <2>0, <2>1 DEF Clean, Fresh
  <2>3. /\ f \in Displays /\ ~f.foundRanges
        /\ ~f.attached => ~f.preferred
        /\ f.attached /\ ~f.preferred =>
             f.edid = EdidJack(k) /\ f.edid # NoJack /\ Accepts(k, f.edid)
        /\ Demands(k) => f.attached
    BY <1>1, <2>0, <2>2, FoundFacts
  <2>4. /\ display' = [display EXCEPT ![n] = IF f.attached THEN a ELSE f]
        /\ displayIndex' = n + (IF f.attached THEN 1 ELSE 0)
    BY <1>8, <2>0 DEF DetectConnector
  <2>5. n = displayIndex /\ \A d \in Crtcs : d # n => display'[d] = display[d]
    BY <2>0, <2>4 DEF DetectTypes
  <2>6. CASE ~f.attached
    <3>1. displayIndex' = n /\ display'[n] = f
      BY <1>5, <2>1, <2>4, <2>5, <2>6 DEF DetectTypes
    <3>2. DetectTypes'
      <4>1. display' \in [Crtcs -> Displays]
        BY <2>3, <2>4, <2>6 DEF DetectTypes
      <4> QED
        BY <1>1, <2>5, <3>1, <4>1 DEF DetectTypes
    <3>3. \A d \in Crtcs : d < n => display'[d] = display[d]
      BY <1>5, <2>5
    <3>4. GivenOut'
      BY <1>6, <2>5, <3>1, <3>3, <1>5 DEF GivenOut
    <3>5. Clean'
      BY <1>1, <1>5, <2>3, <2>5, <2>6, <3>1 DEF Clean
    <3>6. Passed'
      <4>1. SUFFICES ASSUME NEW id \in Slots, id < k + 1, Demands(id)
                     PROVE  \E d \in Crtcs : d < n /\ display'[d].connectorIndex = id
        BY <1>1, <1>2, <3>1 DEF Passed
      <4>2. id < k
        BY <1>1, <1>5, <2>3, <2>6, <4>1
      <4>3. \E d \in Crtcs : d < n /\ display[d].connectorIndex = id
        BY <1>1, <2>1, <2>5, <4>1, <4>2 DEF Passed
      <4> QED
        BY <3>3, <4>3
    <3> QED
      BY <1>3, <3>2, <3>4, <3>5, <3>6
  <2>7. CASE f.attached
    <3>1. displayIndex' = n + 1 /\ display'[n] = a
      BY <2>1, <2>4, <2>7 DEF DetectTypes
    <3>2. /\ a \in Displays /\ a.attached /\ a.registers /\ a.connectorIndex = k
          /\ a.preferred = f.preferred /\ a.edid = f.edid
          /\ a.foundRanges => ~a.preferred /\ HasRanges(a)
      BY <1>1, <2>3, <2>7, <2>0, AttachFacts
    <3>3. DetectTypes'
      <4>1. display' \in [Crtcs -> Displays]
        BY <2>4, <2>7, <3>2 DEF DetectTypes
      <4>2. displayIndex' \in 0 .. MAX_DISPLAY
        BY <1>5, <2>1, <2>5, <3>1
      <4> QED
        BY <1>1, <4>1, <4>2 DEF DetectTypes
    <3>4. \A d \in Crtcs : d < n => display'[d] = display[d]
      BY <1>5, <2>5
    <3>5. ShowsOwn(n)'
      <4>1. k < k + 1
        BY <1>1
      <4>2. /\ display'[n].attached /\ display'[n].registers
            /\ connector'[display'[n].connectorIndex].valid
            /\ display'[n].connectorIndex < k'
        BY <1>1, <2>1, <3>1, <3>2, <4>1
      <4>3. display'[n].foundRanges => ~display'[n].preferred /\ HasRanges(display'[n])
        BY <3>1, <3>2
      <4> QED
        BY <1>1, <1>2, <2>3, <2>7, <3>1, <3>2, <4>2, <4>3 DEF ShowsOwn
    <3>6. GivenOut'
      <4>1. ASSUME NEW d \in Crtcs, d < n + 1
            PROVE  ShowsOwn(d)'
        <5>1. d < n \/ d = n
          BY <1>5, <2>5, <4>1
        <5> QED
          BY <1>6, <2>5, <3>4, <3>5, <5>1
      <4>2. \A d, e \in Crtcs : d < e /\ e < n + 1 =>
              display'[d].connectorIndex < display'[e].connectorIndex
        <5>1. SUFFICES ASSUME NEW d \in Crtcs, NEW e \in Crtcs, d < e, e < n + 1
                       PROVE  display'[d].connectorIndex < display'[e].connectorIndex
          OBVIOUS
        <5>2. d < n /\ display'[d] = display[d]
          BY <1>5, <2>5, <3>4, <5>1
        <5>3. CASE e < n
          BY <2>5, <3>4, <5>1, <5>2, <5>3 DEF GivenOut
        <5>4. CASE e = n
          <6>1. display[d].connectorIndex < k
            BY <1>1, <2>5, <5>2 DEF GivenOut, ShowsOwn
          <6> QED
            BY <3>1, <3>2, <5>2, <5>4, <6>1
        <5> QED
          BY <1>5, <2>5, <5>1, <5>3, <5>4
      <4> QED
        BY <3>1, <4>1, <4>2 DEF GivenOut
    <3>7. Clean'
      <4>0. n \in Nat
        BY <1>5, <2>0
      <4>1. \A d \in Crtcs : d >= n + 1 => d >= n /\ d # n
        BY <1>5, <4>0
      <4> QED
        BY <1>1, <2>5, <3>1, <4>1 DEF Clean
    <3>8. Passed'
      <4>1. SUFFICES ASSUME NEW id \in Slots, id < k + 1, Demands(id)
                     PROVE  \E d \in Crtcs : d < n + 1 /\ display'[d].connectorIndex = id
        BY <1>1, <1>2, <3>1 DEF Passed
      <4>2. CASE id = k
        BY <1>5, <2>1, <2>5, <3>1, <3>2, <4>2
      <4>3. CASE id < k
        <5>1. PICK d \in Crtcs : d < n /\ display[d].connectorIndex = id
          BY <1>1, <2>1, <2>5, <4>1, <4>3 DEF Passed
        <5> QED
          BY <1>5, <2>5, <3>4, <5>1
      <4> QED
        BY <1>1, <1>5, <4>1, <4>2, <4>3
    <3> QED
      BY <1>3, <3>3, <3>6, <3>7, <3>8
  <2> QED
    BY <2>6, <2>7
<1> QED
  BY <1>7, <1>8

(* The end of detect_displays(), with the connector of last resort.         *)
LEMMA DetectedOK ==
  ASSUME DInv, Detected
  PROVE  DInv'
<1> USE DEF DInv
<1>1. /\ step = "detect" /\ step' = "done" /\ k = ATOM_MAX_SUPPORTED_DEVICE
      /\ UNCHANGED <<board, k, gpio, connector, connectorIndex, displayIndex>>
  BY DEF Detected
<1>2. \A id, jack :
        /\ EdidJack(id)' = EdidJack(id) /\ Plugged(jack)' = Plugged(jack)
        /\ Accepts(id, jack)' <=> Accepts(id, jack)
        /\ Demands(id)' <=> Demands(id)
        /\ HasRanges(id)' <=> HasRanges(id)
  BY <1>1, Fixed
<1>3. Crtcs \subseteq Nat /\ Slots \subseteq Nat /\ displayIndex \in Nat /\ 0 \in Crtcs
  BY RoomAssumption DEF Crtcs, Slots, DetectTypes
<1>4. \A d \in Crtcs : display[d] \in Displays
  BY DEF DetectTypes
(* Only when nothing was given out does the last resort change a display. *)
<1>5. /\ Fallback \in [Crtcs -> Displays]
      /\ \A d \in Crtcs : displayIndex # 0 \/ d # 0 => Fallback[d] = display[d]
      /\ displayIndex = 0 => (Fallback[0].attached => Fallback[0].registers)
  <2> DEFINE ids == {id \in Slots : connector[id].encoder # "TVDAC"}
  <2>1. CASE displayIndex # 0 \/ ids = {}
    <3>1. Fallback = display
      BY <2>1 DEF Fallback
    <3>2. displayIndex = 0 => ~display[0].attached
      BY <1>1, <1>3 DEF Clean
    <3> QED
      BY <3>1, <3>2 DEF DetectTypes
  <2>2. CASE ~(displayIndex # 0 \/ ids = {})
    <3> DEFINE first  == Min(ids)
               ranges == display[0].foundRanges \/ HasRanges(display[0])
               new    == [display[0] EXCEPT !.attached = TRUE, !.registers = TRUE,
                                            !.connectorIndex = first, !.foundRanges = ranges]
    <3>1. Fallback = [display EXCEPT ![0] = new]
      BY <2>2 DEF Fallback
    <3>2. first \in ids
      BY <1>3, <2>2, Least
    <3>3. ranges \in BOOLEAN
      OBVIOUS
    <3>4. first \in Slots
      BY <3>2
    <3> HIDE DEF first, ranges
    <3>5. new \in Displays /\ new.registers
      BY <1>3, <1>4, <3>3, <3>4 DEF Displays
    <3> HIDE DEF new
    <3> QED
      BY <1>3, <2>2, <3>1, <3>5 DEF DetectTypes
  <2> QED
    BY <2>1, <2>2
<1> DEFINE lit(d) == [d EXCEPT !.powered = d.powered \/ d.attached]
<1>6. \A d \in Displays :
        /\ lit(d) \in Displays /\ (d.attached => lit(d).powered)
        /\ lit(d).attached = d.attached /\ lit(d).registers = d.registers
        /\ lit(d).connectorIndex = d.connectorIndex /\ lit(d).foundRanges = d.foundRanges
        /\ lit(d).edid = d.edid /\ lit(d).preferred = d.preferred
  BY DEF Displays
<1>7. display' = [d \in Crtcs |-> lit(Fallback[d])]
  BY DEF Detected
<1> HIDE DEF lit
<1>8. \A d \in Crtcs :
        /\ display'[d] \in Displays /\ (display'[d].attached => display'[d].powered)
        /\ display'[d].attached = Fallback[d].attached /\ display'[d].registers = Fallback[d].registers
        /\ displayIndex # 0 \/ d # 0 =>
             /\ display'[d].attached = display[d].attached
             /\ display'[d].registers = display[d].registers
             /\ display'[d].connectorIndex = display[d].connectorIndex
             /\ display'[d].foundRanges = display[d].foundRanges
             /\ display'[d].edid = display[d].edid /\ display'[d].preferred = display[d].preferred
  BY <1>5, <1>6, <1>7
<1>9. DetectTypes'
  <2>1. display' \in [Crtcs -> Displays]
    BY <1>7, <1>8
  <2> QED
    BY <1>1, <2>1 DEF DetectTypes
<1>10. Before' /\ Powered'
  BY <1>1, <1>8 DEF Before, Powered
<1>11. GivenOut'
  <2>1. ASSUME NEW d \in Crtcs, d < displayIndex
        PROVE  ShowsOwn(d)'
    <3>1. displayIndex # 0 /\ ShowsOwn(d)
      BY <1>3, <2>1 DEF GivenOut
    <3>2. HasRanges(display'[d]) <=> HasRanges(display[d])
      BY <1>8, <2>1, <3>1 DEF HasRanges
    <3> QED
      BY <1>1, <1>2, <1>8, <2>1, <3>1, <3>2 DEF ShowsOwn
  <2>2. \A d, e \in Crtcs : d < e /\ e < displayIndex =>
          display'[d].connectorIndex < display'[e].connectorIndex
    BY <1>3, <1>8 DEF GivenOut
  <2> QED
    BY <1>1, <2>1, <2>2 DEF GivenOut
<1>12. Clean'
  BY <1>1, <1>3, <1>5, <1>8 DEF Clean
<1>13. Passed'
  <2>1. SUFFICES ASSUME displayIndex < MAX_DISPLAY, NEW id \in Slots, Demands(id)
                 PROVE  \E d \in Crtcs : d < displayIndex /\ display'[d].connectorIndex = id
    BY <1>1, <1>2 DEF Passed
  <2>2. id < k
    BY <1>1, RoomAssumption DEF Slots
  <2>3. PICK d \in Crtcs : d < displayIndex /\ display[d].connectorIndex = id
    BY <1>1, <2>1, <2>2 DEF Passed
  <2> QED
    BY <1>3, <1>8, <2>3
<1> QED
  BY <1>9, <1>10, <1>11, <1>12, <1>13

LEMMA StutterOK ==
  ASSUME DInv, UNCHANGED detectVars
  PROVE  DInv'
<1> USE DEF DInv, detectVars
<1>1. \A id, jack :
        /\ EdidJack(id)' = EdidJack(id) /\ (Accepts(id, jack)' <=> Accepts(id, jack))
        /\ (Demands(id)' <=> Demands(id)) /\ (HasRanges(id)' <=> HasRanges(id))
  BY Fixed
<1>2. \A d : ShowsOwn(d)' <=> ShowsOwn(d)
  BY <1>1 DEF ShowsOwn
<1>3. DetectTypes' /\ Before' /\ Powered'
  BY DEF DetectTypes, Before, Powered
<1>4. GivenOut' /\ Clean'
  BY <1>2 DEF GivenOut, Clean
<1>5. Passed'
  BY <1>1 DEF Passed
<1> QED
  BY <1>3, <1>4, <1>5

(* The invariant of the detection holds in every state. *)
THEOREM DetectInvariance == DetectSpec => []DInv
<1>1. DetectInit => DInv
  BY DetectInitOK
<1>2. DInv /\ [DetectNext]_detectVars => DInv'
  BY GpioOK, ProbeOK, ProbedOK, DetectConnectorOK, DetectedOK, StutterOK DEF DetectNext, Done
<1> QED
  BY <1>1, <1>2, PTL DEF DetectSpec

-----------------------------------------------------------------------------
(* What it says of the displays. *)
LEMMA KnowsItsMonitor ==
  ASSUME DInv
  PROVE  OwnRanges /\ OneToOne
<1> USE DEF DInv
<1>1. Crtcs \subseteq Nat /\ displayIndex \in Nat
  BY RoomAssumption DEF Crtcs, DetectTypes
<1>2. \A d \in Shown : displayIndex > 0 => d < displayIndex
  BY <1>1 DEF Shown, Clean
<1>3. \A d \in Crtcs : d < displayIndex => d \in Shown
  BY DEF Shown, GivenOut, ShowsOwn
<1>4. OwnRanges
  <2>1. SUFFICES ASSUME NEW d \in Shown, displayIndex > 0, display[d].foundRanges
                 PROVE  /\ EdidJack(display[d].connectorIndex) # NoJack
                        /\ Plugged(EdidJack(display[d].connectorIndex)).ranges
    BY DEF OwnRanges
  <2>2. ShowsOwn(d)
    BY <1>2, <2>1 DEF GivenOut, Shown
  <2> QED
    BY <2>1, <2>2 DEF ShowsOwn, HasRanges
<1>5. OneToOne
  <2>1. SUFFICES ASSUME step = "done"
                 PROVE  /\ \A d, e \in Crtcs : d < e /\ e \in Shown =>
                             d \in Shown /\ display[d].connectorIndex < display[e].connectorIndex
                        /\ \A d \in Shown :
                             /\ display[d].powered /\ display[d].registers
                             /\ displayIndex > 0 => connector[display[d].connectorIndex].valid
    BY DEF OneToOne
  <2>2. \A d, e \in Crtcs : d < e /\ e \in Shown =>
          d \in Shown /\ display[d].connectorIndex < display[e].connectorIndex
    <3>1. SUFFICES ASSUME NEW d \in Crtcs, NEW e \in Crtcs, d < e, e \in Shown
                   PROVE  d \in Shown /\ display[d].connectorIndex < display[e].connectorIndex
      OBVIOUS
    <3>2. e < displayIndex
      BY <1>1, <3>1 DEF Shown, Clean
    <3>3. d < displayIndex
      BY <1>1, <3>1, <3>2
    <3> QED
      BY <1>3, <3>1, <3>2, <3>3 DEF GivenOut
  <2>3. \A d \in Shown : display[d].powered
    BY <2>1 DEF Powered, Shown
  <2>4. \A d \in Shown : display[d].registers /\ (displayIndex > 0 => connector[display[d].connectorIndex].valid)
    <3>1. SUFFICES ASSUME NEW d \in Shown
                   PROVE  display[d].registers /\ (displayIndex > 0 => connector[display[d].connectorIndex].valid)
      OBVIOUS
    <3>2. CASE d < displayIndex
      BY <3>1, <3>2 DEF Shown, GivenOut, ShowsOwn
    <3>3. CASE ~(d < displayIndex)
      BY <1>1, <3>1, <3>3 DEF Shown, Clean
    <3> QED
      BY <3>2, <3>3
  <2> QED
    BY <2>2, <2>3, <2>4
<1> QED
  BY <1>4, <1>5

LEMMA MissesNone ==
  ASSUME DInv
  PROVE  NothingMissed
<1> USE DEF DInv
<1>1. SUFFICES ASSUME step = "done", displayIndex < MAX_DISPLAY, NEW id \in Slots, Demands(id)
               PROVE  \E d \in Shown : display[d].connectorIndex = id
  BY DEF NothingMissed, Demands
<1>2. PICK d \in Crtcs : d < displayIndex /\ display[d].connectorIndex = id
  BY <1>1 DEF Passed
<1>3. d \in Shown
  BY <1>2 DEF GivenOut, ShowsOwn, Shown
<1> QED
  BY <1>2, <1>3

(* A monitor that tells the truth, over a line of the connector's own, is    *)
(* of the encoder's kind: no other path leads to its jack.                 *)
LEMMA FitsConnector ==
  ASSUME DInv
  PROVE  EdidFitsConnector
<1> USE DEF DInv
<1>1. SUFFICES ASSUME NEW d \in Shown, d < displayIndex, ~display[d].preferred,
                      NEW id, id = display[d].connectorIndex,
                      NEW m, m = Plugged(display[d].edid), OwnLine(id), m.digital = m.says
               PROVE  display[d].edid = connector[id].jack /\ m.digital = ~IsAnalog(id)
  BY DEF EdidFitsConnector
<1>2. /\ id \in Slots /\ display[d].edid = EdidJack(id) /\ EdidJack(id) # NoJack
      /\ Accepts(id, EdidJack(id))
  BY <1>1 DEF Shown, GivenOut, ShowsOwn, DetectTypes, Displays
<1>3. m \in Monitors /\ m # None /\ m = Plugged(EdidJack(id))
  BY <1>1, <1>2, EdidFacts DEF DetectTypes
<1> DEFINE path(n) == board.paths[n]
<1>4. PICK n \in DOMAIN board.paths :
        /\ path(n).jack = connector[id].jack /\ path(n).encoder = connector[id].encoder
        /\ path(n).pin # 0 /\ path(n).pin = gpio[connector[id].gpioID].hwPin
        /\ \A o \in DOMAIN board.paths : path(o).pin = path(n).pin => o = n
  BY <1>1 DEF OwnLine
<1>5. EdidJack(id) = path(n).jack
  <2> DEFINE paths == {p \in ToSet(board.paths) : p.pin # 0 /\ p.pin = gpio[connector[id].gpioID].hwPin}
  <2>1. paths = {path(n)}
    BY <1>4 DEF ToSet
  <2>2. JackOf(connector[id].gpioID) = path(n).jack
    BY <2>1 DEF JackOf
  <2> QED
    BY <1>2, <2>2 DEF EdidJack
<1>6. m.digital = (path(n).encoder \notin Analog)
  <2>1. /\ path(n).jack \in DOMAIN board.plugged /\ m = board.plugged[path(n).jack]
        /\ path(n) \in ToSet(board.paths)
    BY <1>2, <1>3, <1>4, <1>5, BoardFacts DEF Plugged, DetectTypes, ToSet
  <2>2. Wired(board) /\ Fits(board)
    BY BoardsAssumption DEF DetectTypes
  <2>3. PICK p \in ToSet(board.paths) : p.jack = path(n).jack /\ m.digital = (p.encoder \notin Analog)
    BY <1>3, <2>1, <2>2 DEF Fits
  <2>4. p.pin = path(n).pin
    BY <2>1, <2>2, <2>3 DEF Wired
  <2>5. p = path(n)
    BY <1>4, <2>3, <2>4 DEF ToSet
  <2> QED
    BY <2>3, <2>5
<1> QED
  BY <1>2, <1>4, <1>5, <1>6 DEF IsAnalog

(* For every board and whatever is plugged in, each display shows its own   *)
(* connector's monitor, and none is missed while a CRTC is free.           *)
THEOREM DetectInvAlways == DetectSpec => []DetectInv
<1>1. DInv => DetectTypeOK
  <2>1. SUFFICES ASSUME DInv PROVE DetectTypeOK
    OBVIOUS
  <2> QED
    BY <2>1 DEF DInv, DetectTypes, DetectTypeOK, Connectors
<1>2. DInv => DetectInv
  BY <1>1, KnowsItsMonitor, MissesNone, FitsConnector DEF DetectInv
<1> QED
  BY <1>2, DetectInvariance, PTL

-----------------------------------------------------------------------------
(* The bus.  A transfer is one long sequence of operations, so the argument  *)
(* looks at each operation and the two before it: the data wire is set      *)
(* directly after the clock, and with the clock high it is set to what it    *)
(* has already, but for a start and for letting go of it (Sound).  Two such  *)
(* sequences, one behind the other, are one again; so are many (Flattened). *)
Bits  == {0, 1}
Parts == {"bits", "start", "stop"}
Operation == [op : {"clk", "dat", "wait", "ack", "sample"}, v : Bits, part : Parts]

Tied(o) == o.part = "bits" \/ (o.part # "start" /\ o.v # 1)

(* Of the operation at place p that sets the data wire, and of one that may *)
(* fail outside the bits.                                                   *)
DataAt(c, p) ==
  /\ p > 1 /\ c[p - 1].op = "clk"
  /\ c[p - 1].v = 1 /\ Tied(c[p]) => p > 2 /\ c[p - 2].op = "dat" /\ c[p - 2].v = c[p].v

WaitAt(c, p) ==
  /\ c[p].op = "wait"
  /\ p > 2 /\ c[p - 1].op = "dat" /\ c[p - 2].op = "clk" /\ c[p - 2].v = 1
  /\ c[p].part = "start" => c[p - 1].v = 1
  /\ c[p].part \in {"start", "stop"}

SoundAt(c, p) ==
  /\ c[p].op = "dat" => DataAt(c, p)
  /\ c[p].op \in {"wait", "ack"} /\ c[p].part # "bits" => WaitAt(c, p)

Sound(c) == c \in Seq(Operation) /\ \A p \in 1 .. Len(c) : SoundAt(c, p)

(* The last two operations of c set the clock high, and the data.           *)
Clocked(c) == /\ Len(c) > 1 /\ c[Len(c) - 1].op = "clk" /\ c[Len(c) - 1].v = 1
              /\ c[Len(c)].op = "dat"

(* It leaves the data wire at v.                                            *)
Leaves(c, v) == Len(c) > 0 /\ c[Len(c)].op = "dat" /\ c[Len(c)].v = v

LEMMA Behind ==
  ASSUME NEW S, NEW a \in Seq(S), NEW b \in Seq(S)
  PROVE  /\ a \o b \in Seq(S) /\ Len(a \o b) = Len(a) + Len(b) /\ Len(a) \in Nat /\ Len(b) \in Nat
         /\ \A p \in 1 .. Len(a) : (a \o b)[p] = a[p]
         /\ \A p \in 1 .. Len(b) : (a \o b)[Len(a) + p] = b[p]
<1>1. /\ a \o b \in Seq(S) /\ Len(a \o b) = Len(a) + Len(b) /\ Len(a) \in Nat /\ Len(b) \in Nat
      /\ \A p \in 1 .. Len(a) + Len(b) : (a \o b)[p] = IF p <= Len(a) THEN a[p] ELSE b[p - Len(a)]
  BY ConcatProperties
<1>2. ASSUME NEW p \in 1 .. Len(b) PROVE (a \o b)[Len(a) + p] = b[p]
  <2>1. /\ Len(a) + p \in 1 .. Len(a) + Len(b) /\ ~(Len(a) + p <= Len(a)) /\ (Len(a) + p) - Len(a) = p
    BY <1>1
  <2> QED BY <1>1, <2>1
<1>3. ASSUME NEW p \in 1 .. Len(a) PROVE (a \o b)[p] = a[p]
  BY <1>1
<1> QED BY <1>1, <1>2, <1>3

LEMMA SoundBehind ==
  ASSUME NEW a, NEW b \in Seq(Operation), NEW c, c = a \o b, Sound(a),
         \A p \in 1 .. Len(b) : SoundAt(c, Len(a) + p)
  PROVE  Sound(c)
<1>1. a \in Seq(Operation)
  BY DEF Sound
<1>2. /\ c \in Seq(Operation) /\ Len(c) = Len(a) + Len(b) /\ Len(a) \in Nat /\ Len(b) \in Nat
      /\ \A p \in 1 .. Len(a) : c[p] = a[p]
  BY <1>1, Behind
<1>3. ASSUME NEW p \in 1 .. Len(c) PROVE SoundAt(c, p)
  <2>1. CASE p \in 1 .. Len(a)
    <3>1. /\ c[p] = a[p]
          /\ p > 1 => c[p - 1] = a[p - 1]
          /\ p > 2 => c[p - 2] = a[p - 2]
      BY <1>2, <2>1
    <3>2. SoundAt(a, p)
      BY <2>1 DEF Sound
    <3>3. DataAt(a, p) => DataAt(c, p)
      BY <3>1 DEF DataAt
    <3>4. ASSUME WaitAt(a, p) PROVE WaitAt(c, p)
      <4>1. p > 2 /\ p > 1
        BY <1>2, <2>1, <3>4 DEF WaitAt
      <4>2. c[p] = a[p] /\ c[p - 1] = a[p - 1] /\ c[p - 2] = a[p - 2]
        BY <3>1, <4>1
      <4> QED BY <3>4, <4>1, <4>2 DEF WaitAt
    <3> QED BY <3>1, <3>2, <3>3, <3>4 DEF SoundAt
  <2>2. CASE p \notin 1 .. Len(a)
    <3>1. p - Len(a) \in 1 .. Len(b) /\ p = Len(a) + (p - Len(a))
      BY <1>2, <2>2
    <3> QED BY <3>1
  <2> QED BY <2>1, <2>2
<1> QED BY <1>2, <1>3 DEF Sound

LEMMA SoundJoin ==
  ASSUME NEW a, NEW b, Sound(a), Sound(b)
  PROVE  Sound(a \o b)
<1>1. PICK c : c = a \o b
  OBVIOUS
<1>2. a \in Seq(Operation) /\ b \in Seq(Operation)
  BY DEF Sound
<1>3. /\ Len(a) \in Nat /\ Len(b) \in Nat
      /\ \A p \in 1 .. Len(b) : c[Len(a) + p] = b[p]
  BY <1>1, <1>2, Behind
<1>4. ASSUME NEW q \in 1 .. Len(b) PROVE SoundAt(c, Len(a) + q)
  <2>1. q > 1 => q - 1 \in 1 .. Len(b) /\ Len(a) + (q - 1) = (Len(a) + q) - 1 /\ Len(a) + q > 1
    BY <1>3
  <2>2. q > 2 => q - 2 \in 1 .. Len(b) /\ Len(a) + (q - 2) = (Len(a) + q) - 2 /\ Len(a) + q > 2
    BY <1>3
  <2>3. c[Len(a) + q] = b[q]
    BY <1>3
  <2>4. q > 1 => c[(Len(a) + q) - 1] = b[q - 1]
    BY <1>3, <2>1
  <2>5. q > 2 => c[(Len(a) + q) - 2] = b[q - 2]
    BY <1>3, <2>2
  <2>6. SoundAt(b, q)
    BY DEF Sound
  <2> QED BY <2>1, <2>2, <2>3, <2>4, <2>5, <2>6 DEF SoundAt, DataAt, WaitAt
<1> QED BY <1>1, <1>2, <1>4, SoundBehind

(* Two more operations, which set the clock and then the data.              *)
LEMMA SoundSet ==
  ASSUME NEW a, Sound(a), NEW x \in Operation, NEW y \in Operation, x.op = "clk", y.op = "dat",
         x.v = 1 /\ Tied(y) => Leaves(a, y.v)
  PROVE  /\ Sound(a \o <<x, y>>) /\ Leaves(a \o <<x, y>>, y.v)
         /\ x.v = 1 => Clocked(a \o <<x, y>>)
<1>1. PICK c, b : b = <<x, y>> /\ c = a \o b
  OBVIOUS
<1>2. b \in Seq(Operation) /\ Len(b) = 2 /\ b[1] = x /\ b[2] = y /\ a \in Seq(Operation)
  BY <1>1 DEF Sound
<1>3. /\ Len(a) \in Nat /\ Len(c) = Len(a) + 2
      /\ \A p \in 1 .. Len(a) : c[p] = a[p]
      /\ \A p \in 1 .. 2 : c[Len(a) + p] = b[p]
  BY <1>1, <1>2, Behind
<1>4. c[Len(a) + 1] = x /\ c[Len(a) + 2] = y /\ (Len(a) > 0 => c[Len(a)] = a[Len(a)])
  BY <1>2, <1>3
<1>5. SoundAt(c, Len(a) + 1)
  BY <1>4 DEF SoundAt
<1>6. SoundAt(c, Len(a) + 2)
  <2>1. (Len(a) + 2) - 1 = Len(a) + 1 /\ (Len(a) + 2) - 2 = Len(a) /\ Len(a) + 2 > 1
    BY <1>3
  <2>2. Len(a) > 0 => Len(a) + 2 > 2
    BY <1>3
  <2> QED BY <1>4, <2>1, <2>2 DEF SoundAt, DataAt, Leaves
<1>7. \A p \in 1 .. Len(b) : SoundAt(c, Len(a) + p)
  <2>1. \A p \in 1 .. Len(b) : p = 1 \/ p = 2
    BY <1>2
  <2> QED BY <1>5, <1>6, <2>1
<1>8. Sound(c)
  BY <1>1, <1>2, <1>7, SoundBehind
<1>9. (x.v = 1 => Clocked(c)) /\ Leaves(c, y.v)
  <2>1. Len(c) - 1 = Len(a) + 1 /\ Len(c) > 1 /\ Len(c) > 0
    BY <1>3
  <2> QED BY <1>3, <1>4, <2>1 DEF Clocked, Leaves
<1> QED BY <1>1, <1>8, <1>9

(* One more operation, which does not set the data.                         *)
LEMMA SoundOne ==
  ASSUME NEW a, Sound(a), NEW x \in Operation, x.op # "dat",
         x.op \in {"wait", "ack"} /\ x.part # "bits" =>
           /\ x.op = "wait" /\ x.part \in {"start", "stop"}
           /\ Clocked(a)
           /\ x.part = "start" => Leaves(a, 1)
  PROVE  Sound(a \o <<x>>)
<1>1. PICK c, b : b = <<x>> /\ c = a \o b
  OBVIOUS
<1>2. b \in Seq(Operation) /\ Len(b) = 1 /\ b[1] = x /\ a \in Seq(Operation)
  BY <1>1 DEF Sound
<1>3. /\ Len(a) \in Nat /\ Len(c) = Len(a) + 1
      /\ \A p \in 1 .. Len(a) : c[p] = a[p]
      /\ \A p \in 1 .. 1 : c[Len(a) + p] = b[p]
  BY <1>1, <1>2, Behind
<1>4. c[Len(a) + 1] = x
  BY <1>2, <1>3
<1>5. SoundAt(c, Len(a) + 1)
  <2>1. CASE x.op \in {"wait", "ack"} /\ x.part # "bits"
    <3>1. Clocked(a) /\ (x.part = "start" => Leaves(a, 1))
      BY <2>1
    <3>2. /\ (Len(a) + 1) - 1 = Len(a) /\ (Len(a) + 1) - 2 = Len(a) - 1 /\ Len(a) + 1 > 2
          /\ Len(a) \in 1 .. Len(a) /\ Len(a) - 1 \in 1 .. Len(a)
      BY <1>3, <3>1 DEF Clocked
    <3>3. c[Len(a)] = a[Len(a)] /\ c[Len(a) - 1] = a[Len(a) - 1]
      BY <1>3, <3>2
    <3>4. WaitAt(c, Len(a) + 1)
      <4>1. c[Len(a) + 1].op = "wait" /\ c[Len(a) + 1].part \in {"start", "stop"} /\ Len(a) + 1 > 2
        BY <1>4, <2>1, <3>2, <3>3
      <4>2. c[(Len(a) + 1) - 1].op = "dat" /\ c[(Len(a) + 1) - 2].op = "clk" /\ c[(Len(a) + 1) - 2].v = 1
        BY <3>1, <3>2, <3>3 DEF Clocked
      <4>3. c[Len(a) + 1].part = "start" => c[(Len(a) + 1) - 1].v = 1
        BY <1>4, <3>1, <3>2, <3>3 DEF Leaves
      <4> QED BY <4>1, <4>2, <4>3 DEF WaitAt
    <3> QED BY <1>4, <3>4 DEF SoundAt
  <2>2. CASE ~(x.op \in {"wait", "ack"} /\ x.part # "bits")
    BY <1>4, <2>2 DEF SoundAt
  <2> QED BY <2>1, <2>2
<1>6. \A p \in 1 .. Len(b) : SoundAt(c, Len(a) + p)
  BY <1>2, <1>5
<1> QED BY <1>1, <1>2, <1>6, SoundBehind

(* Pieces one behind the other, for a property Q of the sequences so far.   *)
LEMMA Flattened ==
  ASSUME NEW S, NEW n \in Nat \ {0}, NEW f \in [1 .. n -> Seq(S)], NEW Q, Q \subseteq Seq(S),
         f[1] \in Q, \A a \in Q : \A i \in 2 .. n : a \o f[i] \in Q
  PROVE  FlattenSeq(f) \in Q
<1> DEFINE Good(m, w) == /\ w \in [1 .. m -> Q] /\ w[1] = f[1]
                         /\ \A i \in 2 .. m : w[i] = w[i - 1] \o f[i]
           Bad == {m \in Nat : m \in 1 .. n /\ ~\E w \in [1 .. m -> Q] : Good(m, w)}
           flat(g) == [i \in 1 .. Len(f) |-> IF i = 1 THEN f[i] ELSE g[i - 1] \o f[i]]
           h == CHOOSE g : g = flat(g)
<1>1. Bad = {}
  <2> SUFFICES ASSUME Bad # {} PROVE FALSE
    OBVIOUS
  <2>1. PICK m \in Bad : \A y \in Bad : ~ (<<y, m>> \in OpToRel(<, Nat))
    <3>1. Bad \subseteq Nat
      OBVIOUS
    <3> HIDE DEF Bad
    <3> QED BY <3>1, NatLessThanWellFounded, WFMin
  <2>2. m \in Nat /\ m \in 1 .. n /\ ~\E w \in [1 .. m -> Q] : Good(m, w)
    BY <2>1
  <2>3. CASE m = 1
    <3>1. Good(1, [i \in 1 .. 1 |-> f[1]])
      OBVIOUS
    <3> QED BY <2>2, <2>3, <3>1
  <2>4. CASE m # 1
    <3>1. m - 1 \in Nat /\ m - 1 \in 1 .. n /\ m - 1 < m /\ m \in 2 .. n
      BY <2>2, <2>4
    <3>2. m - 1 \notin Bad
      <4>1. <<m - 1, m>> \in OpToRel(<, Nat)
        BY <2>2, <3>1 DEF OpToRel
      <4> HIDE DEF Bad
      <4> QED BY <2>1, <4>1
    <3>3. PICK w \in [1 .. m - 1 -> Q] : Good(m - 1, w)
      BY <3>1, <3>2
    <3> DEFINE x == [i \in 1 .. m |-> IF i = m THEN w[m - 1] \o f[m] ELSE w[i]]
    <3>4. w[m - 1] \in Q /\ w[m - 1] \o f[m] \in Q
      <4>1. m - 1 \in 1 .. m - 1
        BY <3>1
      <4> QED BY <3>1, <3>3, <4>1
    <3>5. \A i \in 1 .. m - 1 : w[i] \in Q
      BY <3>3
    <3>6. x \in [1 .. m -> Q]
      BY <2>2, <3>4, <3>5
    <3>7. x[1] = f[1]
      BY <2>2, <2>4, <3>1, <3>3
    <3>8. ASSUME NEW i \in 2 .. m PROVE x[i] = x[i - 1] \o f[i]
      <4>1. i - 1 \in 1 .. m /\ i - 1 # m /\ i \in 1 .. m
        BY <2>2
      <4>2. x[i - 1] = w[i - 1]
        BY <4>1
      <4>3. CASE i = m
        BY <4>1, <4>2, <4>3
      <4>4. CASE i # m
        <5>1. x[i] = w[i] /\ i \in 2 .. m - 1
          BY <2>2, <4>1, <4>4
        <5> QED BY <3>3, <4>2, <5>1
      <4> QED BY <4>3, <4>4
    <3> HIDE DEF x
    <3>9. Good(m, x)
      BY <3>6, <3>7, <3>8
    <3> QED BY <2>2, <3>6, <3>9
  <2> QED BY <2>3, <2>4
<1>2. Len(f) = n /\ n \in 1 .. n
  OBVIOUS
<1>3. PICK w \in [1 .. n -> Q] : Good(n, w)
  BY <1>1, <1>2
<1>4. w = flat(w)
  <2>1. \A i \in 1 .. n : w[i] = IF i = 1 THEN f[i] ELSE w[i - 1] \o f[i]
    <3> SUFFICES ASSUME NEW i \in 1 .. n PROVE w[i] = IF i = 1 THEN f[i] ELSE w[i - 1] \o f[i]
      OBVIOUS
    <3>1. CASE i = 1
      BY <1>3, <3>1
    <3>2. CASE i # 1
      <4>1. i \in 2 .. n
        BY <3>2
      <4> QED BY <1>3, <3>2, <4>1
    <3> QED BY <3>1, <3>2
  <2>2. w = [i \in 1 .. n |-> w[i]]
    OBVIOUS
  <2> QED BY <1>2, <2>1, <2>2
<1>5. h = flat(h)
  <2> HIDE DEF flat
  <2> QED BY <1>4
<1>6. FlattenSeq(f) = h[n]
  BY <1>2 DEF FlattenSeq
<1> HIDE DEF h
<1>7. h[1] = f[1] /\ \A i \in 2 .. n : h[i] = h[i - 1] \o f[i]
  <2>1. \A i \in 1 .. n : h[i] = IF i = 1 THEN f[i] ELSE h[i - 1] \o f[i]
    BY <1>2, <1>5
  <2>2. h[1] = f[1]
    BY <1>2, <2>1
  <2>3. ASSUME NEW i \in 2 .. n PROVE h[i] = h[i - 1] \o f[i]
    <3>1. i \in 1 .. n /\ i # 1
      OBVIOUS
    <3> QED BY <2>1, <3>1
  <2> QED BY <2>2, <2>3
<1> DEFINE Off == {m \in Nat : m \in 1 .. n /\ h[m] \notin Q}
<1>8. Off = {}
  <2> SUFFICES ASSUME Off # {} PROVE FALSE
    OBVIOUS
  <2>1. PICK m \in Off : \A y \in Off : ~ (<<y, m>> \in OpToRel(<, Nat))
    <3>1. Off \subseteq Nat
      OBVIOUS
    <3> HIDE DEF Off
    <3> QED BY <3>1, NatLessThanWellFounded, WFMin
  <2>2. m \in Nat /\ m \in 1 .. n /\ h[m] \notin Q /\ m # 1
    BY <1>7, <2>1
  <2>3. m - 1 \in Nat /\ m - 1 \in 1 .. n /\ m - 1 < m /\ m \in 2 .. n
    BY <2>2
  <2>4. m - 1 \notin Off
    <3>1. <<m - 1, m>> \in OpToRel(<, Nat)
      BY <2>2, <2>3 DEF OpToRel
    <3> HIDE DEF Off
    <3> QED BY <2>1, <3>1
  <2>5. h[m - 1] \in Q
    BY <2>3, <2>4
  <2> QED BY <1>7, <2>2, <2>3, <2>5
<1> QED BY <1>2, <1>6, <1>8

(* The pieces the code is made of (i2c.c).                                  *)
LEMMA OpIs ==
  ASSUME NEW op \in {"clk", "dat", "wait", "ack", "sample"}, NEW v \in Bits, NEW part \in Parts
  PROVE  /\ Op(op, v) \in Operation /\ Op(op, v).op = op /\ Op(op, v).v = v /\ Op(op, v).part = "bits"
         /\ LET o == [Op(op, v) EXCEPT !.part = part]
            IN o \in Operation /\ o.op = op /\ o.v = v /\ o.part = part
BY DEF Op, Operation, Parts

LEMMA EmptySound == Sound(<<>>)
BY DEF Sound

(* gpio_set_i2c_bit() behind what has been done. *)
LEMMA SetSound ==
  ASSUME NEW a, Sound(a), NEW x \in Bits, NEW y \in Bits, x = 1 => Leaves(a, y)
  PROVE  Sound(a \o Set(x, y)) /\ Leaves(a \o Set(x, y), y)
<1>1. PICK j, d : j = Op("clk", x) /\ d = Op("dat", y)
  OBVIOUS
<1>2. j \in Operation /\ d \in Operation /\ j.op = "clk" /\ j.v = x /\ d.op = "dat" /\ d.v = y
  BY <1>1, OpIs DEF Bits, Parts
<1>3. Set(x, y) = <<j, d>>
  BY <1>1 DEF Set
<1> QED BY <1>2, <1>3, SoundSet

LEMMA FirstSet ==
  ASSUME NEW y \in Bits
  PROVE  Sound(Set(0, y)) /\ Leaves(Set(0, y), y)
<1>1. PICK e : e = <<>>
  OBVIOUS
<1>2. Sound(e) /\ e \o Set(0, y) = Set(0, y)
  BY <1>1, EmptySound DEF Set
<1>3. 0 \in Bits /\ 0 # 1
  BY DEF Bits
<1> QED BY <1>2, <1>3, SetSound

LEMMA StepSound ==
  ASSUME NEW a, Sound(a), NEW op \in {"wait", "ack", "sample"}, NEW v \in Bits
  PROVE  Sound(a \o <<Op(op, v)>>)
<1>1. PICK x : x = Op(op, v)
  OBVIOUS
<1>2. x \in Operation /\ x.op = op /\ x.part = "bits"
  BY <1>1 DEF Op, Operation, Parts
<1> QED BY <1>1, <1>2, SoundOne

LEMMA SendBitSound ==
  ASSUME NEW b \in Bits
  PROVE  Sound(send_bit(b))
<1>1. PICK c : c = Set(0, b)
  OBVIOUS
<1>2. Sound(c) /\ Leaves(c, b)
  BY <1>1, FirstSet DEF Bits
<1>3. PICK d : d = c \o Set(1, b)
  OBVIOUS
<1>4. Sound(d)
  BY <1>2, <1>3, SetSound DEF Bits
<1>5. Sound(d \o Wait)
  BY <1>4, StepSound DEF Wait, Bits
<1> QED BY <1>1, <1>3, <1>5, SetSound DEF send_bit, Bits

LEMMA AcknowledgeSound == Sound(send_acknowledge)
<1>1. PICK c : c = Set(0, 1)
  OBVIOUS
<1>2. Sound(c) /\ Leaves(c, 1)
  BY <1>1, FirstSet DEF Bits
<1>3. Sound(c \o Set(1, 1))
  BY <1>2, SetSound DEF Bits
<1>4. Sound(c \o Set(1, 1) \o Wait)
  BY <1>3, StepSound DEF Wait, Bits
<1>5. Sound(c \o Set(1, 1) \o Wait \o AckWait)
  BY <1>4, StepSound DEF AckWait, Bits
<1> QED BY <1>1, <1>5, SetSound DEF send_acknowledge, Bits

LEMMA Shifted ==
  ASSUME NEW S, NEW a \in Seq(S), NEW b \in Seq(S), NEW c \in Seq(S), NEW d, d = b \o c
  PROVE  a \o d = (a \o b) \o c
BY ConcatAssociative

LEMMA ReceiveBitSound ==
  ASSUME NEW a, Sound(a), Leaves(a, 1)
  PROVE  Sound(a \o receive_bit) /\ Leaves(a \o receive_bit, 1) /\ receive_bit \in Seq(Operation)
<1>1. PICK w, x, y, z : w = Set(1, 1) /\ x = Wait /\ y = Sample /\ z = Set(0, 1)
  OBVIOUS
<1>2. a \in Seq(Operation) /\ w \in Seq(Operation) /\ x \in Seq(Operation) /\ y \in Seq(Operation) /\ z \in Seq(Operation)
  BY <1>1, OpIs DEF Set, Wait, Sample, Sound, Parts, Bits
<1>3. Sound(a \o w)
  BY <1>1, SetSound DEF Bits
<1>4. Sound((a \o w) \o x)
  BY <1>1, <1>3, StepSound DEF Wait, Bits
<1>5. Sound(((a \o w) \o x) \o y)
  BY <1>1, <1>4, StepSound DEF Sample, Bits
<1>6. Sound((((a \o w) \o x) \o y) \o z) /\ Leaves((((a \o w) \o x) \o y) \o z, 1)
  BY <1>1, <1>5, SetSound DEF Bits
<1>7. PICK wx : wx = w \o x
  OBVIOUS
<1>8. PICK xy : xy = wx \o y
  OBVIOUS
<1>9. wx \in Seq(Operation) /\ xy \in Seq(Operation) /\ xy \o z \in Seq(Operation)
  BY <1>2, <1>7, <1>8, ConcatProperties
<1>10. a \o (xy \o z) = (((a \o w) \o x) \o y) \o z
  <2>1. a \o (xy \o z) = (a \o xy) \o z
    BY <1>2, <1>9, Shifted
  <2>2. a \o xy = (a \o wx) \o y
    BY <1>2, <1>8, <1>9, Shifted
  <2>3. a \o wx = (a \o w) \o x
    BY <1>2, <1>7, Shifted
  <2> QED BY <2>1, <2>2, <2>3
<1>11. receive_bit = xy \o z
  BY <1>1, <1>7, <1>8 DEF receive_bit
<1> QED BY <1>6, <1>9, <1>10, <1>11

(* Bytes, and all of them. *)
Sounds == {c \in Seq(Operation) : Sound(c)}

LEMMA FlatSound ==
  ASSUME NEW n \in Nat, NEW f, f = [j \in 1 .. n |-> f[j]], \A j \in 1 .. n : Sound(f[j])
  PROVE  Sound(FlattenSeq(f))
<1>1. f \in [1 .. n -> Seq(Operation)] /\ Len(f) = n
  BY DEF Sound
<1>2. CASE n = 0
  <2>1. FlattenSeq(f) = f /\ f = <<>>
    BY <1>1, <1>2 DEF FlattenSeq
  <2> QED BY <2>1, EmptySound
<1>3. CASE n # 0
  <2>1. Sounds \subseteq Seq(Operation) /\ f[1] \in Sounds /\ n \in Nat \ {0}
    BY <1>3 DEF Sounds, Sound
  <2>2. ASSUME NEW a \in Sounds, NEW j \in 2 .. n PROVE a \o f[j] \in Sounds
    <3>1. Sound(a \o f[j])
      BY SoundJoin DEF Sounds
    <3> QED BY <3>1 DEF Sounds, Sound
  <2>3. FlattenSeq(f) \in Sounds
    BY <1>1, <2>1, <2>2, Flattened
  <2> QED BY <2>3 DEF Sounds
<1> QED BY <1>2, <1>3

LEMMA SendByteSound ==
  ASSUME NEW bits \in [1 .. NB -> Bits]
  PROVE  Sound(send_byte(bits))
<1>1. PICK f : f = [j \in 1 .. NB |-> send_bit(bits[j])]
  OBVIOUS
<1>2. NB \in Nat /\ f = [j \in 1 .. NB |-> f[j]]
  BY <1>1, ByteAssumption
<1>3. \A j \in 1 .. NB : Sound(f[j])
  BY <1>1, SendBitSound
<1>4. Sound(FlattenSeq(f))
  BY <1>2, <1>3, FlatSound
<1> QED BY <1>1, <1>4, AcknowledgeSound, SoundJoin DEF send_byte

LEMMA ReceiveByteSound ==
  ASSUME NEW b \in Bits
  PROVE  Sound(Set(0, 1) \o FlattenSeq([j \in 1 .. NB |-> receive_bit]) \o send_bit(b))
<1>1. PICK a, f : a = Set(0, 1) /\ f = [j \in 1 .. NB |-> receive_bit]
  OBVIOUS
<1>2. Sound(a) /\ Leaves(a, 1) /\ a \in Seq(Operation)
  BY <1>1, FirstSet DEF Bits, Sound
<1>3. NB \in Nat \ {0} /\ receive_bit \in Seq(Operation)
  BY <1>2, ByteAssumption, ReceiveBitSound
<1>4. f \in [1 .. NB -> Seq(Operation)] /\ \A j \in 1 .. NB : f[j] = receive_bit
  BY <1>1, <1>3
<1> DEFINE Q == {c \in Seq(Operation) : Sound(a \o c) /\ Leaves(a \o c, 1)}
<1>5. f[1] \in Q
  BY <1>2, <1>3, <1>4, ReceiveBitSound
<1>6. ASSUME NEW c \in Q, NEW j \in 2 .. NB PROVE c \o f[j] \in Q
  <2>1. PICK d : d = a \o c
    OBVIOUS
  <2>2. Sound(d \o receive_bit) /\ Leaves(d \o receive_bit, 1)
    BY <2>1, ReceiveBitSound
  <2>3. d \o receive_bit = a \o (c \o receive_bit) /\ c \o receive_bit \in Seq(Operation)
    BY <1>2, <1>3, <2>1, ConcatAssociative, ConcatProperties
  <2> QED BY <1>4, <2>2, <2>3
<1>7. FlattenSeq(f) \in Q
  <2>1. Q \subseteq Seq(Operation)
    OBVIOUS
  <2> HIDE DEF Q
  <2> QED BY <1>3, <1>4, <1>5, <1>6, <2>1, Flattened
<1>8. Sound(send_bit(b))
  BY SendBitSound
<1>9. Sound((a \o FlattenSeq(f)) \o send_bit(b))
  BY <1>7, <1>8, SoundJoin
<1> QED BY <1>1, <1>9

LEMMA ReceiveBytesSound ==
  ASSUME NEW n \in Nat
  PROVE  Sound(receive_bytes(n))
<1>1. PICK f : f = [j \in 1 .. n |-> receive_byte(j < n)]
  OBVIOUS
<1>2. f = [j \in 1 .. n |-> f[j]]
  BY <1>1
<1>3. ASSUME NEW j \in 1 .. n PROVE Sound(f[j])
  <2>1. PICK b \in Bits : b = IF j < n THEN 0 ELSE 1
    BY DEF Bits
  <2>2. f[j] = Set(0, 1) \o FlattenSeq([i \in 1 .. NB |-> receive_bit]) \o send_bit(b)
    BY <1>1, <2>1 DEF receive_byte
  <2> QED BY <2>2, ReceiveByteSound
<1> QED BY <1>1, <1>2, <1>3, FlatSound DEF receive_bytes

(* The operations of a start and of a stop are told apart by In().          *)
LEMMA InSeq ==
  ASSUME NEW part \in Parts, NEW a \in Seq(Operation)
  PROVE  /\ In(part, a) \in Seq(Operation) /\ Len(In(part, a)) = Len(a)
         /\ \A j \in 1 .. Len(a) : In(part, a)[j] = [a[j] EXCEPT !.part = part]
<1>1. Len(a) \in Nat /\ a \in [1 .. Len(a) -> Operation]
  OBVIOUS
<1>2. \A j \in 1 .. Len(a) : [a[j] EXCEPT !.part = part] \in Operation
  BY <1>1 DEF Operation, Parts
<1>3. In(part, a) = [j \in 1 .. Len(a) |-> [a[j] EXCEPT !.part = part]]
  BY <1>1 DEF In
<1> QED BY <1>1, <1>2, <1>3

LEMMA InJoin ==
  ASSUME NEW part \in Parts, NEW a \in Seq(Operation), NEW b \in Seq(Operation)
  PROVE  In(part, a \o b) = In(part, a) \o In(part, b)
<1>1. PICK c, x, y, z : c = a \o b /\ x = In(part, a) /\ y = In(part, b) /\ z = In(part, c)
  OBVIOUS
<1>2. /\ c \in Seq(Operation) /\ Len(c) = Len(a) + Len(b) /\ Len(a) \in Nat /\ Len(b) \in Nat
      /\ \A p \in 1 .. Len(a) + Len(b) : c[p] = IF p <= Len(a) THEN a[p] ELSE b[p - Len(a)]
  BY <1>1, ConcatProperties
<1>3. /\ x \in Seq(Operation) /\ Len(x) = Len(a)
      /\ \A j \in 1 .. Len(a) : x[j] = [a[j] EXCEPT !.part = part]
  BY <1>1, InSeq
<1>4. /\ y \in Seq(Operation) /\ Len(y) = Len(b)
      /\ \A j \in 1 .. Len(b) : y[j] = [b[j] EXCEPT !.part = part]
  BY <1>1, InSeq
<1>5. /\ z \in Seq(Operation) /\ Len(z) = Len(c)
      /\ \A j \in 1 .. Len(c) : z[j] = [c[j] EXCEPT !.part = part]
  BY <1>1, <1>2, InSeq
<1>6. PICK w : w = x \o y
  OBVIOUS
<1>7. /\ w \in Seq(Operation) /\ Len(w) = Len(x) + Len(y)
      /\ \A p \in 1 .. Len(x) + Len(y) : w[p] = IF p <= Len(x) THEN x[p] ELSE y[p - Len(x)]
  <2>1. x \in Seq(Operation) /\ y \in Seq(Operation)
    BY <1>3, <1>4
  <2> QED BY <1>6, <2>1, ConcatProperties
<1>8. ASSUME NEW p \in 1 .. Len(c) PROVE z[p] = w[p]
  <2>1. CASE p <= Len(a)
    <3>1. p \in 1 .. Len(a)
      BY <1>2, <2>1
    <3>2. z[p] = [a[p] EXCEPT !.part = part]
      BY <1>2, <1>5, <2>1
    <3>3. w[p] = x[p]
      BY <1>2, <1>3, <1>4, <1>7, <2>1
    <3> QED BY <1>3, <3>1, <3>2, <3>3
  <2>2. CASE ~(p <= Len(a))
    <3>1. p - Len(a) \in 1 .. Len(b)
      BY <1>2, <2>2
    <3>2. z[p] = [b[p - Len(a)] EXCEPT !.part = part]
      BY <1>2, <1>5, <2>2
    <3>3. w[p] = y[p - Len(a)]
      BY <1>2, <1>3, <1>4, <1>7, <2>2
    <3> QED BY <1>4, <3>1, <3>2, <3>3
  <2> QED BY <2>1, <2>2
<1>9. z = w
  BY <1>2, <1>3, <1>4, <1>5, <1>7, <1>8
<1> QED BY <1>1, <1>6, <1>9

(* gpio_set_i2c_bit() in a part. *)
LEMMA SetSoundIn ==
  ASSUME NEW part \in Parts, NEW a, Sound(a), NEW x \in Bits, NEW y \in Bits,
         x = 1 /\ (part = "bits" \/ (part # "start" /\ y # 1)) => Leaves(a, y)
  PROVE  /\ Set(x, y) \in Seq(Operation)
         /\ Sound(a \o In(part, Set(x, y))) /\ Leaves(a \o In(part, Set(x, y)), y)
         /\ x = 1 => Clocked(a \o In(part, Set(x, y)))
<1>1. PICK j, d, s, b : j = Op("clk", x) /\ d = Op("dat", y) /\ s = Set(x, y) /\ b = In(part, s)
  OBVIOUS
<1>2. j \in Operation /\ d \in Operation /\ s = <<j, d>>
  BY <1>1, OpIs DEF Bits, Parts, Set
<1>3. s \in Seq(Operation) /\ Len(s) = 2 /\ s[1] = j /\ s[2] = d /\ 1 \in 1 .. 2 /\ 2 \in 1 .. 2
  BY <1>2
<1>4. PICK k1, d1 : k1 = [j EXCEPT !.part = part] /\ d1 = [d EXCEPT !.part = part]
  OBVIOUS
<1>5. /\ k1 \in Operation /\ d1 \in Operation /\ k1.op = "clk" /\ k1.v = x /\ d1.op = "dat" /\ d1.v = y
      /\ d1.part = part
  BY <1>1, <1>4, OpIs DEF Bits
<1>6. b \in Seq(Operation) /\ Len(b) = 2 /\ b[1] = k1 /\ b[2] = d1
  BY <1>1, <1>3, <1>4, InSeq
<1>7. b = <<k1, d1>>
  BY <1>6
<1>8. k1.v = 1 /\ Tied(d1) => Leaves(a, d1.v)
  BY <1>5 DEF Tied
<1> QED BY <1>1, <1>3, <1>5, <1>7, <1>8, SoundSet

LEMMA StepSoundIn ==
  ASSUME NEW part \in Parts, NEW a, Sound(a), NEW op \in {"wait", "ack", "sample"}, NEW v \in Bits,
         op \in {"wait", "ack"} /\ part # "bits" =>
           /\ op = "wait" /\ part \in {"start", "stop"} /\ Clocked(a)
           /\ part = "start" => Leaves(a, 1)
  PROVE  <<Op(op, v)>> \in Seq(Operation) /\ Sound(a \o In(part, <<Op(op, v)>>))
<1>1. PICK x, s, b : x = Op(op, v) /\ s = <<x>> /\ b = In(part, s)
  OBVIOUS
<1>2. x \in Operation
  BY <1>1, OpIs DEF Parts
<1>3. s \in Seq(Operation) /\ Len(s) = 1 /\ s[1] = x /\ 1 \in 1 .. 1
  BY <1>1, <1>2
<1>4. PICK y : y = [x EXCEPT !.part = part]
  OBVIOUS
<1>5. y \in Operation /\ y.op = op /\ y.part = part
  BY <1>1, <1>4, OpIs
<1>6. b \in Seq(Operation) /\ Len(b) = 1 /\ b[1] = y
  BY <1>1, <1>3, <1>4, InSeq
<1>7. b = <<y>>
  BY <1>6
<1>8. Sound(a \o <<y>>)
  BY <1>5, SoundOne
<1> QED BY <1>1, <1>3, <1>7, <1>8

LEMMA FirstSetIn ==
  ASSUME NEW part \in Parts, NEW x \in Bits, NEW y \in Bits, x = 0 \/ part = "start"
  PROVE  /\ Set(x, y) \in Seq(Operation)
         /\ Sound(In(part, Set(x, y))) /\ Leaves(In(part, Set(x, y)), y)
         /\ x = 1 => Clocked(In(part, Set(x, y)))
<1>1. PICK e : e = <<>>
  OBVIOUS
<1>2. Sound(e) /\ e \in Seq(Operation)
  BY <1>1, EmptySound
<1>3. x = 1 /\ (part = "bits" \/ (part # "start" /\ y # 1)) => Leaves(e, y)
  OBVIOUS
<1>4. /\ Set(x, y) \in Seq(Operation)
      /\ Sound(e \o In(part, Set(x, y))) /\ Leaves(e \o In(part, Set(x, y)), y)
      /\ x = 1 => Clocked(e \o In(part, Set(x, y)))
  BY <1>2, <1>3, SetSoundIn
<1>5. PICK b : b = In(part, Set(x, y))
  OBVIOUS
<1>6. b \in Seq(Operation)
  BY <1>4, <1>5, InSeq
<1>7. e \o b = b
  BY <1>1, <1>6, ConcatEmptySeq
<1> QED BY <1>4, <1>5, <1>7

LEMMA StartSound == Sound(send_start_condition)
<1>1. PICK w, x, y, z : w = Set(1, 1) /\ x = Wait /\ y = Set(1, 0) /\ z = Set(0, 0)
  OBVIOUS
<1>2. "start" \in Parts /\ 0 \in Bits /\ 1 \in Bits
  BY DEF Parts, Bits
<1>3. PICK a, b, c, d : /\ a = In("start", w)
                        /\ b = In("start", x) /\ c = In("start", y) /\ d = In("start", z)
  OBVIOUS
<1>4. w \in Seq(Operation) /\ Sound(a) /\ Leaves(a, 1) /\ Clocked(a)
  BY <1>1, <1>2, <1>3, FirstSetIn
<1>5. x \in Seq(Operation) /\ Sound(a \o b)
  BY <1>1, <1>2, <1>3, <1>4, StepSoundIn DEF Wait
<1>6. y \in Seq(Operation) /\ Sound((a \o b) \o c)
  BY <1>1, <1>2, <1>3, <1>5, SetSoundIn
<1>7. z \in Seq(Operation) /\ Sound(((a \o b) \o c) \o d)
  BY <1>1, <1>2, <1>3, <1>6, SetSoundIn
<1>8. PICK part \in Parts : part = "start"
  BY <1>2
<1>9. PICK u, v, t : u = w \o x /\ v = u \o y /\ t = v \o z
  OBVIOUS
<1>10. In(part, t) = ((In(part, w) \o In(part, x)) \o In(part, y)) \o In(part, z)
  <2>1. w \in Seq(Operation) /\ x \in Seq(Operation) /\ y \in Seq(Operation) /\ z \in Seq(Operation)
    BY <1>4, <1>5, <1>6, <1>7
  <2>2. part \in Parts
    BY <1>8
  <2>3. u \in Seq(Operation)
    BY <1>9, <2>1, ConcatProperties
  <2>4. v \in Seq(Operation)
    BY <1>9, <2>1, <2>3, ConcatProperties
  <2>5. In(part, u) = In(part, w) \o In(part, x)
    BY <1>9, <2>1, <2>2, InJoin
  <2>6. In(part, v) = In(part, u) \o In(part, y)
    BY <1>9, <2>1, <2>2, <2>3, InJoin
  <2>7. In(part, t) = In(part, v) \o In(part, z)
    BY <1>9, <2>1, <2>2, <2>4, InJoin
  <2> QED BY <2>5, <2>6, <2>7
<1> QED BY <1>1, <1>3, <1>7, <1>8, <1>9, <1>10 DEF send_start_condition

LEMMA StopSound ==
  /\ Sound(send_stop_condition) /\ Leaves(send_stop_condition, 1) /\ Clocked(send_stop_condition)
<1>1. PICK w, x, y, z : w = Set(0, 0) /\ x = Set(1, 0) /\ y = Wait /\ z = Set(1, 1)
  OBVIOUS
<1>2. "stop" \in Parts /\ 0 \in Bits /\ 1 \in Bits
  BY DEF Parts, Bits
<1>3. PICK a, b, c, d : /\ a = In("stop", w)
                        /\ b = In("stop", x) /\ c = In("stop", y) /\ d = In("stop", z)
  OBVIOUS
<1>4. w \in Seq(Operation) /\ Sound(a) /\ Leaves(a, 0)
  BY <1>1, <1>2, <1>3, FirstSetIn
<1>5. x \in Seq(Operation) /\ Sound(a \o b) /\ Clocked(a \o b)
  BY <1>1, <1>2, <1>3, <1>4, SetSoundIn
<1>6. y \in Seq(Operation) /\ Sound((a \o b) \o c)
  BY <1>1, <1>2, <1>3, <1>5, StepSoundIn DEF Wait
<1>7. /\ z \in Seq(Operation) /\ Sound(((a \o b) \o c) \o d)
      /\ Leaves(((a \o b) \o c) \o d, 1) /\ Clocked(((a \o b) \o c) \o d)
  BY <1>1, <1>2, <1>3, <1>6, SetSoundIn
<1>8. PICK part \in Parts : part = "stop"
  BY <1>2
<1>9. PICK u, v, t : u = w \o x /\ v = u \o y /\ t = v \o z
  OBVIOUS
<1>10. In(part, t) = ((In(part, w) \o In(part, x)) \o In(part, y)) \o In(part, z)
  <2>1. w \in Seq(Operation) /\ x \in Seq(Operation) /\ y \in Seq(Operation) /\ z \in Seq(Operation)
    BY <1>4, <1>5, <1>6, <1>7
  <2>2. part \in Parts
    BY <1>8
  <2>3. u \in Seq(Operation)
    BY <1>9, <2>1, ConcatProperties
  <2>4. v \in Seq(Operation)
    BY <1>9, <2>1, <2>3, ConcatProperties
  <2>5. In(part, u) = In(part, w) \o In(part, x)
    BY <1>9, <2>1, <2>2, InJoin
  <2>6. In(part, v) = In(part, u) \o In(part, y)
    BY <1>9, <2>1, <2>2, <2>3, InJoin
  <2>7. In(part, t) = In(part, v) \o In(part, z)
    BY <1>9, <2>1, <2>2, <2>4, InJoin
  <2> QED BY <2>5, <2>6, <2>7
<1> QED BY <1>1, <1>3, <1>7, <1>8, <1>9, <1>10 DEF send_stop_condition

(* A whole transfer: it ends with the stop. *)
LEMMA AddressByte ==
  ASSUME NEW b \in Bits
  PROVE  Address \o <<b>> \in [1 .. NB -> Bits]
<1>1. PICK s : s = <<b>>
  OBVIOUS
<1>2. s \in Seq(Bits) /\ Len(s) = 1
  BY <1>1
<1>3. NB \in Nat \ {0} /\ NB - 1 \in Nat /\ Address \in [1 .. NB - 1 -> Bits]
  BY ByteAssumption DEF Bits
<1>4. Address \in Seq(Bits) /\ Len(Address) = NB - 1
  BY <1>3
<1>5. PICK c : c = Address \o s
  OBVIOUS
<1>6. c \in Seq(Bits) /\ Len(c) = (NB - 1) + 1
  BY <1>2, <1>4, <1>5, ConcatProperties
<1>7. Len(c) = NB
  BY <1>3, <1>6
<1>8. c \in [1 .. Len(c) -> Bits]
  BY <1>6
<1>9. c \in [1 .. NB -> Bits]
  BY <1>7, <1>8
<1> QED BY <1>1, <1>5, <1>9

LEMMA EndsBehind ==
  ASSUME NEW a, NEW b, Sound(a), Sound(b), Clocked(b), Leaves(b, 1)
  PROVE  Clocked(a \o b) /\ Leaves(a \o b, 1)
<1>1. PICK c : c = a \o b
  OBVIOUS
<1>2. a \in Seq(Operation) /\ b \in Seq(Operation)
  BY DEF Sound
<1>3. /\ Len(c) = Len(a) + Len(b) /\ Len(a) \in Nat /\ Len(b) \in Nat
      /\ \A p \in 1 .. Len(b) : c[Len(a) + p] = b[p]
  BY <1>1, <1>2, Behind
<1>4. Len(b) > 1 /\ Len(b) \in 1 .. Len(b) /\ Len(b) - 1 \in 1 .. Len(b)
  BY <1>3 DEF Clocked
<1>5. /\ Len(c) > 1 /\ Len(c) > 0
      /\ Len(c) - 1 = Len(a) + (Len(b) - 1)
  BY <1>3, <1>4
<1>6. c[Len(c)] = b[Len(b)] /\ c[Len(c) - 1] = b[Len(b) - 1]
  BY <1>3, <1>4, <1>5
<1> QED BY <1>1, <1>5, <1>6 DEF Clocked, Leaves

LEMMA TransferSound ==
  /\ Sound(i2c_send_receive) /\ Clocked(i2c_send_receive) /\ Leaves(i2c_send_receive, 1)
<1>1. PICK a, b : a = Address \o <<0>> /\ b = Address \o <<1>>
  OBVIOUS
<1>2. Sound(send_byte(a)) /\ Sound(send_byte(b))
  <2>1. a \in [1 .. NB -> Bits]
    BY <1>1, AddressByte DEF Bits
  <2>2. b \in [1 .. NB -> Bits]
    BY <1>1, AddressByte DEF Bits
  <2> QED BY <2>1, <2>2, SendByteSound
<1>3. PICK f : f = [j \in DOMAIN WriteBuf |-> send_byte(WriteBuf[j])]
  OBVIOUS
<1>4. Sound(FlattenSeq(f))
  <2>1. PICK n \in Nat : n = Len(WriteBuf)
    BY ByteAssumption
  <2>2. DOMAIN WriteBuf = 1 .. n /\ n \in Nat /\ \A j \in 1 .. n : WriteBuf[j] \in [1 .. NB -> Bits]
    BY <2>1, ByteAssumption DEF Bits
  <2>3. f = [j \in 1 .. n |-> f[j]] /\ \A j \in 1 .. n : Sound(f[j])
    BY <1>3, <2>2, SendByteSound
  <2> QED BY <2>2, <2>3, FlatSound
<1>5. Sound(receive_bytes(ReadLen))
  BY ByteAssumption, ReceiveBytesSound
<1>6. PICK c : c = send_start_condition \o send_byte(a)
  OBVIOUS
<1>7. PICK d : d = c \o FlattenSeq(f)
  OBVIOUS
<1>8. PICK e : e = (d \o send_start_condition) \o send_byte(b)
  OBVIOUS
<1>9. PICK g : g = e \o receive_bytes(ReadLen)
  OBVIOUS
<1>10. Sound(c)
  BY <1>2, <1>6, StartSound, SoundJoin
<1>11. Sound(d)
  BY <1>4, <1>7, <1>10, SoundJoin
<1>12. Sound(d \o send_start_condition)
  BY <1>11, StartSound, SoundJoin
<1>13. Sound(e)
  BY <1>2, <1>8, <1>12, SoundJoin
<1>14. Sound(g)
  BY <1>5, <1>9, <1>13, SoundJoin
<1>15. i2c_send_receive = g \o send_stop_condition
  BY <1>1, <1>3, <1>6, <1>7, <1>8, <1>9 DEF i2c_send_receive
<1> QED BY <1>14, <1>15, StopSound, SoundJoin, EndsBehind

(* Where the read of an EDID stands.  While a transfer runs, the last two   *)
(* operations that set a wire show on it; before and after, the pins are    *)
(* passed on, with both wires let go of first.                              *)
Owners == {"software", "hardware"}

OnWires(c, n) ==
  /\ n > 1 /\ c[n - 1].op = "clk" => clk = c[n - 1].v
  /\ n > 1 /\ c[n - 1].op = "dat" => dat = c[n - 1].v
  /\ n > 2 /\ c[n - 2].op = "clk" /\ c[n - 1].op # "clk" => clk = c[n - 2].v
  /\ n > 2 /\ c[n - 2].op = "dat" /\ c[n - 1].op # "dat" => dat = c[n - 2].v

Transfers ==
  /\ code \in {i2c_send_receive, send_stop_condition} /\ next_op \in 1 .. Len(code)
  /\ pins = [scl |-> "software", sda |-> "software"]
  /\ status = "running" => OnWires(code, next_op)
  /\ WiresReleased

PassedOn(owner) ==
  /\ code = gpio_lock_i2c(owner) /\ next_op \in 1 .. 4 /\ pins \in [scl : Owners, sda : Owners]
  /\ status = "running" => /\ next_op > 1 => clk = 1
                           /\ next_op > 2 => dat = 1
                           /\ next_op > 3 => pins.scl = owner
  /\ status # "running" => clk = 1 /\ dat = 1 /\ pins = [scl |-> owner, sda |-> owner]

BusInv ==
  /\ call \in {"lock", "read", "unlock", "done"}
  /\ call = "read" => Transfers
  /\ call = "lock" => PassedOn("software")
  /\ call \in {"unlock", "done"} => PassedOn("hardware")
  /\ call = "done" => status # "running"

LEMMA CodeSound ==
  ASSUME Transfers
  PROVE  Sound(code) /\ Clocked(code) /\ Leaves(code, 1)
BY TransferSound, StopSound DEF Transfers

LEMMA MaskOps ==
  ASSUME NEW owner
  PROVE  LET g == gpio_lock_i2c(owner)
         IN /\ Len(g) = 4
            /\ g[1].op = "clk" /\ g[1].v = 1
            /\ g[2].op = "dat" /\ g[2].v = 1 /\ g[2].part = "pins"
            /\ g[3].op = "scl" /\ g[3].v = owner
            /\ g[4].op = "sda" /\ g[4].v = owner
<1>1. PICK a, b, c, d : /\ a = Op("clk", 1) /\ c = [op |-> "scl", v |-> owner, part |-> "bits"]
                        /\ b = Op("dat", 1) /\ d = [op |-> "sda", v |-> owner, part |-> "bits"]
  OBVIOUS
<1>2. gpio_lock_i2c(owner) = In("pins", <<a, b, c, d>>)
  <2>1. Mask("scl", owner) = <<c>> /\ Mask("sda", owner) = <<d>>
    BY <1>1 DEF Mask
  <2>2. PICK S : S = {a, b, c, d}
    OBVIOUS
  <2>3. PICK s, t : s = <<a, b>> /\ t = <<a, b, c>>
    OBVIOUS
  <2>4. s \in Seq(S) /\ t \in Seq(S) /\ c \in S /\ d \in S
    BY <2>2, <2>3
  <2>5. Append(s, c) = t /\ Append(t, d) = <<a, b, c, d>>
    <3>1. PICK u, v : u = Append(s, c) /\ v = Append(t, d)
      OBVIOUS
    <3>2. Len(s) = 2 /\ s[1] = a /\ s[2] = b /\ Len(t) = 3 /\ t[1] = a /\ t[2] = b /\ t[3] = c
      BY <2>3
    <3>3. u \in Seq(S) /\ Len(u) = 3 /\ u[1] = a /\ u[2] = b /\ u[3] = c
      BY <2>4, <3>1, <3>2, AppendProperties
    <3>4. v \in Seq(S) /\ Len(v) = 4 /\ v[1] = a /\ v[2] = b /\ v[3] = c /\ v[4] = d
      <4>1. /\ v \in Seq(S) /\ Len(v) = Len(t) + 1 /\ v[Len(t) + 1] = d
            /\ \A i \in 1 .. Len(t) : v[i] = t[i]
        BY <2>4, <3>1, AppendProperties
      <4> QED BY <3>2, <4>1
    <3>5. u = <<a, b, c>>
      BY <3>3
    <3>6. v = <<a, b, c, d>>
      BY <3>4
    <3> QED BY <2>3, <3>1, <3>5, <3>6
  <2>6. Append(s, c) = s \o <<c>> /\ Append(t, d) = t \o <<d>>
    BY <2>4, AppendIsConcat
  <2> QED BY <1>1, <2>1, <2>3, <2>5, <2>6 DEF gpio_lock_i2c
<1>3. PICK s : s = <<a, b, c, d>>
  OBVIOUS
<1>4. In("pins", s) = [j \in 1 .. 4 |-> [s[j] EXCEPT !.part = "pins"]]
  BY <1>3 DEF In
<1>5. s[1] = a /\ s[2] = b /\ s[3] = c /\ s[4] = d
  BY <1>3
<1>6. /\ a = [op |-> "clk", v |-> 1, part |-> "bits"] /\ b = [op |-> "dat", v |-> 1, part |-> "bits"]
      /\ c = [op |-> "scl", v |-> owner, part |-> "bits"] /\ d = [op |-> "sda", v |-> owner, part |-> "bits"]
  BY <1>1 DEF Op
<1>7. PICK g : g = gpio_lock_i2c(owner)
  OBVIOUS
<1>8. g = [j \in 1 .. 4 |-> [s[j] EXCEPT !.part = "pins"]]
  BY <1>2, <1>3, <1>4, <1>7
<1>9. Len(g) = 4
  BY <1>8
<1>10. /\ g[1] = [a EXCEPT !.part = "pins"] /\ g[2] = [b EXCEPT !.part = "pins"]
       /\ g[3] = [c EXCEPT !.part = "pins"] /\ g[4] = [d EXCEPT !.part = "pins"]
  BY <1>5, <1>8
<1> QED BY <1>6, <1>7, <1>9, <1>10

LEMMA BusStart == DdcInit => BusInv
<1> SUFFICES ASSUME DdcInit PROVE BusInv
  OBVIOUS
<1>1. PassedOn("software")
  BY DEF DdcInit, PassedOn, Owners
<1> QED BY <1>1 DEF DdcInit, BusInv

(* The operation under way, and what it leaves on the wires. *)
LEMMA TransferStep ==
  ASSUME Transfers, Master, UNCHANGED pins
  PROVE  Transfers'
<1> DEFINE c == code
           n == next_op
           o == code[next_op]
<1>1. /\ Sound(c) /\ c \in Seq(Operation) /\ Len(c) \in Nat /\ n \in 1 .. Len(c) /\ Len(c) > 1
      /\ c[Len(c)].op = "dat" /\ c[Len(c)].v = 1
      /\ c[Len(c) - 1].op = "clk" /\ c[Len(c) - 1].v = 1
  BY CodeSound DEF Transfers, Sound, Clocked, Leaves
<1>2. status = "running" /\ OnWires(c, n)
  BY DEF Transfers, Master, SetClock, SetData, ClockHigh, ClockTimeout, Acked, AckTimeout, ReceiveBit, At
<1>3. SoundAt(c, n)
  BY <1>1 DEF Sound
<1>4. ASSUME Advance, n < Len(c), clk' = (IF o.op = "clk" THEN o.v ELSE clk),
             dat' = (IF o.op = "dat" THEN o.v ELSE dat)
      PROVE  Transfers'
  <2>1. code' = c /\ next_op' = n + 1 /\ status' = "running"
    BY <1>2, <1>4 DEF Advance
  <2>2. next_op' \in 1 .. Len(c) /\ (n + 1) - 1 = n /\ (n + 1) - 2 = n - 1 /\ (n + 1 > 2 => n > 1)
    BY <1>1, <1>4, <2>1
  <2>3. OnWires(code, next_op)'
    <3>1. /\ o.op = "clk" => clk' = o.v
          /\ o.op = "dat" => dat' = o.v
          /\ n > 1 /\ c[n - 1].op = "clk" /\ o.op # "clk" => clk' = c[n - 1].v
          /\ n > 1 /\ c[n - 1].op = "dat" /\ o.op # "dat" => dat' = c[n - 1].v
      BY <1>2, <1>4 DEF OnWires
    <3> QED BY <2>1, <2>2, <3>1 DEF OnWires
  <2> QED BY <2>1, <2>2, <2>3 DEF Transfers, WiresReleased
<1>5. CASE SetClock
  <2>1. o.op = "clk" /\ clk' = o.v /\ Advance /\ dat' = dat
    BY <1>5 DEF SetClock, At
  <2>2. n < Len(c)
    BY <1>1, <2>1
  <2> QED BY <1>4, <2>1, <2>2
<1>6. CASE SetData
  <2>1. o.op = "dat" /\ dat' = o.v /\ Advance /\ clk' = clk
    BY <1>6 DEF SetData, At
  <2>2. CASE n < Len(c)
    BY <1>4, <2>1, <2>2
  <2>3. CASE n = Len(c)
    <3>1. code' = c /\ next_op' = n /\ status' # "running" /\ dat' = 1 /\ clk' = clk
      BY <1>1, <2>1, <2>3 DEF Advance
    <3>2. clk = 1
      BY <1>1, <1>2, <2>3 DEF OnWires
    <3> QED BY <1>1, <3>1, <3>2 DEF Transfers, WiresReleased
  <2> QED BY <1>1, <2>2, <2>3
<1>7. CASE ClockHigh \/ Acked \/ ReceiveBit
  <2>1. o.op \in {"wait", "ack", "sample"} /\ Advance /\ clk' = clk /\ dat' = dat
    BY <1>7 DEF ClockHigh, Acked, ReceiveBit, At
  <2>2. n < Len(c)
    BY <1>1, <2>1
  <2> QED BY <1>4, <2>1, <2>2
<1>8. CASE ClockTimeout \/ AckTimeout
  <2>1. o.op \in {"wait", "ack"} /\ Fail /\ clk' = clk /\ dat' = dat
    BY <1>8 DEF ClockTimeout, AckTimeout, At
  <2>2. CASE o.part = "bits"
    <3>1. code' = send_stop_condition /\ next_op' = 1 /\ status' = "running"
      BY <1>2, <2>1, <2>2 DEF Fail
    <3>2. 1 \in 1 .. Len(send_stop_condition)
      BY StopSound DEF Clocked, Sound
    <3>3. OnWires(code, next_op)'
      BY <3>1 DEF OnWires
    <3> QED BY <3>1, <3>2, <3>3 DEF Transfers, WiresReleased
  <2>3. CASE o.part # "bits"
    <3>1. code' = c /\ next_op' = n /\ status' = "B_TIMEOUT"
      BY <2>1, <2>3 DEF Fail
    <3>2. WaitAt(c, n)
      BY <1>3, <2>1, <2>3 DEF SoundAt
    <3>3. clk = 1 /\ dat = c[n - 1].v /\ c[n].op = "wait"
      BY <1>1, <1>2, <3>2 DEF WaitAt, OnWires
    <3>4. dat = 0 => c[n].part = "stop"
      BY <3>2, <3>3 DEF WaitAt
    <3> QED BY <1>1, <2>1, <3>1, <3>3, <3>4 DEF Transfers, WiresReleased
  <2> QED BY <2>2, <2>3
<1> QED BY <1>5, <1>6, <1>7, <1>8 DEF Master

LEMMA PassedStep ==
  ASSUME NEW owner \in Owners, PassedOn(owner), (Master /\ UNCHANGED pins) \/ SetMask
  PROVE  PassedOn(owner)'
<1> DEFINE o == code[next_op]
<1>1. PICK g : g = gpio_lock_i2c(owner)
  OBVIOUS
<1>2. /\ code = g /\ Len(g) = 4 /\ next_op \in 1 .. 4
      /\ g[1].op = "clk" /\ g[1].v = 1 /\ g[2].op = "dat" /\ g[2].v = 1
      /\ g[3].op = "scl" /\ g[3].v = owner /\ g[4].op = "sda" /\ g[4].v = owner
  BY <1>1, MaskOps DEF PassedOn
<1>3. status = "running" /\ pins \in [scl : Owners, sda : Owners]
  BY DEF PassedOn, Master, SetClock, SetData, ClockHigh, ClockTimeout, Acked, AckTimeout, ReceiveBit, At,
         SetMask
<1>4. next_op = 1 \/ next_op = 2 \/ next_op = 3 \/ next_op = 4
  BY <1>2
<1>5. CASE SetClock /\ UNCHANGED pins
  <2>1. o.op = "clk" /\ clk' = o.v /\ Advance /\ dat' = dat /\ pins' = pins
    BY <1>5 DEF SetClock, At
  <2>2. next_op = 1
    BY <1>2, <1>4, <2>1
  <2>3. code' = g /\ next_op' = 2 /\ status' = status /\ clk' = 1
    BY <1>2, <2>1, <2>2 DEF Advance
  <2> QED BY <1>1, <1>3, <2>1, <2>3 DEF PassedOn
<1>6. CASE SetData /\ UNCHANGED pins
  <2>1. o.op = "dat" /\ dat' = o.v /\ Advance /\ clk' = clk /\ pins' = pins
    BY <1>6 DEF SetData, At
  <2>2. next_op = 2
    BY <1>2, <1>4, <2>1
  <2>3. code' = g /\ next_op' = 3 /\ status' = status /\ dat' = 1 /\ clk = 1
    BY <1>2, <1>3, <2>1, <2>2 DEF Advance, PassedOn
  <2> QED BY <1>1, <1>3, <2>1, <2>3 DEF PassedOn
<1>7. CASE SetMask
  <2>1. /\ o.op \in {"scl", "sda"} /\ pins' = [pins EXCEPT ![o.op] = o.v] /\ Advance
        /\ clk' = clk /\ dat' = dat
    BY <1>3, <1>7 DEF SetMask
  <2>2. CASE next_op = 3
    <3>1. pins' = [pins EXCEPT !["scl"] = owner]
      BY <1>2, <2>1, <2>2
    <3>2. pins' \in [scl : Owners, sda : Owners] /\ pins'.scl = owner
      BY <1>3, <3>1
    <3>3. code' = g /\ next_op' = 4 /\ status' = status /\ clk = 1 /\ dat = 1
      BY <1>2, <1>3, <2>1, <2>2 DEF Advance, PassedOn
    <3> QED BY <1>1, <1>3, <2>1, <3>2, <3>3 DEF PassedOn
  <2>3. CASE next_op = 4
    <3>1. pins.scl = owner /\ clk = 1 /\ dat = 1
      BY <1>3, <2>3 DEF PassedOn
    <3>2. pins' = [scl |-> owner, sda |-> owner] /\ pins' \in [scl : Owners, sda : Owners]
      <4>1. pins' = [pins EXCEPT !["sda"] = owner]
        BY <1>2, <2>1, <2>3
      <4> QED BY <1>3, <3>1, <4>1
    <3>3. code' = g /\ next_op' = 4 /\ status' # "running"
      BY <1>2, <2>1, <2>3 DEF Advance
    <3>4. clk' = 1 /\ dat' = 1
      BY <2>1, <3>1
    <3> QED BY <1>1, <3>2, <3>3, <3>4 DEF PassedOn
  <2> QED BY <1>2, <1>4, <2>1, <2>2, <2>3
<1>8. CASE ClockHigh \/ ClockTimeout \/ Acked \/ AckTimeout \/ ReceiveBit
  <2>1. o.op \in {"wait", "ack", "sample"}
    BY <1>8 DEF ClockHigh, ClockTimeout, Acked, AckTimeout, ReceiveBit, At
  <2> QED BY <1>2, <1>4, <2>1
<1> QED BY <1>5, <1>6, <1>7, <1>8 DEF Master

LEMMA BusKept == BusInv /\ [DdcNext]_ddcVars => BusInv'
<1> SUFFICES ASSUME BusInv, [DdcNext]_ddcVars PROVE BusInv'
  OBVIOUS
<1>1. CASE UNCHANGED <<code, next_op, status, clk, dat, call, pins>>
  BY <1>1 DEF BusInv, Transfers, PassedOn, OnWires, WiresReleased
<1>2. CASE ((Master /\ UNCHANGED reader) \/ SetMask) /\ call = "read"
  <2>1. Transfers /\ Sound(code) /\ next_op \in 1 .. Len(code)
    BY <1>2, CodeSound DEF BusInv, Transfers
  <2>2. code[next_op].op \in {"clk", "dat", "wait", "ack", "sample"}
    <3>1. code[next_op] \in Operation
      BY <2>1 DEF Sound
    <3> QED BY <3>1 DEF Operation
  <2>3. ~SetMask
    BY <2>1, <2>2 DEF SetMask, Transfers
  <2>4. Master /\ UNCHANGED pins /\ call' = "read"
    BY <1>2, <2>3 DEF reader
  <2>5. Transfers'
    BY <2>1, <2>4, TransferStep
  <2> QED BY <2>4, <2>5 DEF BusInv
<1>3. CASE ((Master /\ UNCHANGED reader) \/ SetMask) /\ call # "read"
  <2>1. ((Master /\ UNCHANGED pins) \/ SetMask) /\ call' = call
    BY <1>3 DEF reader, SetMask
  <2>2. status = "running"
    BY <2>1 DEF Master, SetClock, SetData, ClockHigh, ClockTimeout, Acked, AckTimeout, ReceiveBit, At, SetMask
  <2>3. CASE call = "lock"
    <3>1. PICK owner \in Owners : owner = "software"
      BY DEF Owners
    <3>2. PassedOn(owner)'
      BY <2>1, <2>3, <3>1, PassedStep DEF BusInv
    <3> QED BY <2>1, <2>3, <3>1, <3>2 DEF BusInv
  <2>4. CASE call = "unlock"
    <3>1. PICK owner \in Owners : owner = "hardware"
      BY DEF Owners
    <3>2. PassedOn(owner)'
      BY <2>1, <2>4, <3>1, PassedStep DEF BusInv
    <3> QED BY <2>1, <2>4, <3>1, <3>2 DEF BusInv
  <2> QED BY <1>3, <2>2, <2>3, <2>4 DEF BusInv
<1>4. CASE Locked \/ TryAgain
  <2>1. Try /\ pins = [scl |-> "software", sda |-> "software"]
    BY <1>4 DEF Locked, TryAgain, BusInv, PassedOn, Transfers
  <2>2. code' = i2c_send_receive /\ next_op' = 1 /\ status' = "running" /\ call' = "read" /\ pins' = pins
    BY <2>1 DEF Try, Runs
  <2>3. 1 \in 1 .. Len(i2c_send_receive)
    BY TransferSound DEF Clocked, Sound
  <2>4. OnWires(code, next_op)'
    BY <2>2 DEF OnWires
  <2>5. Transfers'
    BY <2>1, <2>2, <2>3, <2>4 DEF Transfers, WiresReleased
  <2> QED BY <2>2, <2>5 DEF BusInv
<1>5. CASE Ends
  <2>1. /\ code' = gpio_lock_i2c("hardware") /\ next_op' = 1 /\ status' = "running" /\ call' = "unlock"
        /\ pins' = pins
    BY <1>5 DEF Ends, Runs
  <2>2. pins \in [scl : Owners, sda : Owners]
    <3>1. pins = [scl |-> "software", sda |-> "software"]
      BY <1>5 DEF Ends, BusInv, Transfers
    <3> QED BY <3>1 DEF Owners
  <2>3. PassedOn("hardware")'
    BY <2>1, <2>2 DEF PassedOn
  <2> QED BY <2>1, <2>3 DEF BusInv
<1>6. CASE Returns
  <2>1. UNCHANGED <<code, next_op, status, clk, dat, pins>> /\ call' = "done" /\ status # "running"
        /\ PassedOn("hardware")
    BY <1>6 DEF Returns, BusInv, i2cVars, master
  <2>2. PassedOn("hardware")'
    BY <2>1 DEF PassedOn
  <2> QED BY <2>1, <2>2 DEF BusInv
<1>7. CASE (Slave /\ UNCHANGED reader) \/ BusDone \/ UNCHANGED ddcVars
  <2>1. UNCHANGED <<code, next_op, status, clk, dat, call, pins>>
    BY <1>7 DEF Slave, Release, LateAck, master, reader, BusDone, ddcVars, i2cVars
  <2> QED BY <1>1, <2>1
<1> QED BY <1>2, <1>3, <1>4, <1>5, <1>6, <1>7 DEF DdcNext, Reader

LEMMA BusAlways == DdcSpec => []BusInv
<1> QED BY BusStart, BusKept, PTL DEF DdcSpec


(* The pins are the software's while it drives the wires, and in the end    *)
(* they are the hardware's and neither wire is held, whatever the slave did *)
(* and however often it was tried (connector_read_edid, ddc2_read).         *)
THEOREM PinsAlways == DdcSpec => []PinsGivenBack
<1>1. BusInv => PinsGivenBack
  BY DEF BusInv, PinsGivenBack, Transfers, PassedOn
<1> QED BY <1>1, BusAlways, PTL

(* What the slave can take for a start or a stop is one of the master's own *)
(* (i2c_send_receive and its error path): with the clock high a bit sets    *)
(* the data wire to what it carries already.                               *)
Meant ==
  /\ IsStart(Clock, DataWire, Clock', DataWire') => code[next_op].part = "start" \/ LateAck
  /\ IsStop(Clock, DataWire, Clock', DataWire') => code[next_op].part # "bits"

LEMMA MeantStep == BusInv /\ [DdcNext]_ddcVars => [Meant]_i2cVars
<1> SUFFICES ASSUME BusInv, DdcNext PROVE Meant \/ UNCHANGED i2cVars
  BY DEF ddcVars
<1> DEFINE o == code[next_op]
<1>1. CASE SetData
  <2>1. o.op = "dat" /\ status = "running" /\ dat' = o.v /\ clk' = clk
        /\ slave' \in Sees(slave, Clock, DataWire, Clock, And(o.v, slave.dat))
    BY <1>1 DEF SetData, At
  <2>2. CASE Clock # 1
    BY <2>2 DEF Meant, IsStart, IsStop
  <2>3. CASE Clock = 1 /\ And(o.v, slave.dat) = DataWire
    <3>1. slave' = slave
      BY <2>1, <2>3 DEF Sees, IsStart, IsStop
    <3> QED BY <2>1, <2>3, <3>1 DEF Meant, IsStart, IsStop, DataWire
  <2>4. CASE Clock = 1 /\ And(o.v, slave.dat) # DataWire
    <3>1. Clock = 1 /\ And(o.v, slave.dat) # DataWire
      BY <2>4
    <3>2. clk = 1 /\ o.v # dat
      BY <3>1 DEF Clock, DataWire, And
    <3>3. CASE call = "read"
      <4>1. Transfers /\ SoundAt(code, next_op) /\ OnWires(code, next_op) /\ o \in Operation
        BY <2>1, <3>3, CodeSound DEF BusInv, Transfers, Sound
      <4>2. DataAt(code, next_op)
        BY <2>1, <4>1 DEF SoundAt
      <4>3. ~Tied(o)
        BY <3>2, <4>1, <4>2 DEF DataAt, OnWires
      <4>4. o.part # "bits" /\ (o.part = "start" \/ o.v = 1)
        BY <4>3 DEF Tied
      <4>5. o.v = 1 => ~IsStart(Clock, DataWire, Clock', DataWire')
        <5>1. ASSUME o.v = 1, IsStart(Clock, DataWire, Clock', DataWire') PROVE FALSE
          BY <3>1, <5>1 DEF IsStart, DataWire, And
        <5> QED BY <5>1
      <4> QED BY <4>4, <4>5 DEF Meant
    <3>4. CASE call # "read"
      <4>1. PICK owner : PassedOn(owner)
        BY <3>4 DEF BusInv
      <4>2. PICK g : g = gpio_lock_i2c(owner)
        OBVIOUS
      <4>3. /\ code = g /\ next_op \in 1 .. 4
            /\ g[1].op = "clk" /\ g[2].v = 1 /\ g[2].part = "pins"
            /\ g[3].op = "scl" /\ g[4].op = "sda"
        BY <4>1, <4>2, MaskOps DEF PassedOn
      <4>4. next_op = 2
        BY <2>1, <4>3
      <4>5. o.v = 1 /\ o.part = "pins"
        BY <4>3, <4>4
      <4>6. ~IsStart(Clock, DataWire, Clock', DataWire')
        BY <3>1, <4>5 DEF IsStart, DataWire, And
      <4> QED BY <4>5, <4>6 DEF Meant
    <3> QED BY <3>3, <3>4
  <2> QED BY <2>2, <2>3, <2>4
<1>2. CASE SetClock
  <2>1. /\ clk' = o.v /\ dat' = dat
        /\ slave' \in Sees(slave, Clock, DataWire, And(clk', slave.clk), DataWire)
    BY <1>2 DEF SetClock
  <2>2. CASE Clock = 1 /\ And(clk', slave.clk) = 1
    <3>1. slave' = slave
      BY <2>1, <2>2 DEF Sees, IsStart, IsStop
    <3>2. DataWire' = DataWire
      BY <2>1, <3>1 DEF DataWire, And
    <3> QED BY <3>2 DEF Meant, IsStart, IsStop
  <2>3. CASE Clock # 1
    BY <2>3 DEF Meant, IsStart, IsStop
  <2>4. CASE Clock = 1 /\ And(clk', slave.clk) # 1
    <3>1. clk' # 1
      BY <2>4 DEF Clock, And
    <3>2. Clock' # 1
      BY <3>1 DEF Clock, And
    <3> QED BY <3>2 DEF Meant, IsStart, IsStop
  <2> QED BY <2>2, <2>3, <2>4
<1>3. CASE Release
  <2>1. Clock # 1
    BY <1>3 DEF Release, Clock, And
  <2> QED BY <2>1 DEF Meant, IsStart, IsStop
<1>4. CASE LateAck
  <2>1. ~IsStop(Clock, DataWire, Clock', DataWire')
    BY <1>4 DEF LateAck, IsStop, DataWire, And, master
  <2> QED BY <1>4, <2>1 DEF Meant
<1>5. CASE UNCHANGED <<clk, dat, slave>>
  <2>1. DataWire' = DataWire
    BY <1>5 DEF DataWire, And
  <2> QED BY <2>1 DEF Meant, IsStart, IsStop
<1>6. UNCHANGED <<clk, dat, slave>> \/ SetData \/ SetClock \/ Release \/ LateAck
  BY DEF DdcNext, Reader, Master, Slave, ClockHigh, ClockTimeout, Acked, AckTimeout, ReceiveBit, SetMask,
         Locked, TryAgain, Try, Ends, Returns, BusDone, ddcVars, i2cVars, master
<1> QED BY <1>1, <1>2, <1>3, <1>4, <1>5, <1>6

THEOREM OnlyMeantAlways == DdcSpec => OnlyMeantConditions
<1>1. BusInv /\ [DdcNext]_ddcVars =>
        [/\ IsStart(Clock, DataWire, Clock', DataWire') =>
              code[next_op].part = "start" \/ LateAck
         /\ IsStop(Clock, DataWire, Clock', DataWire') => code[next_op].part # "bits"]_i2cVars
  BY MeantStep DEF Meant
<1> QED BY <1>1, BusAlways, PTL DEF DdcSpec, OnlyMeantConditions
=============================================================================
