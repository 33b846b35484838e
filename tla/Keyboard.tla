------------------------------ MODULE Keyboard ------------------------------
(***************************************************************************)
(* The keyboard driver of the bare-metal kernel, kbd_proc_data() of        *)
(* kernel/console.c: scan codes, with their E0 prefixes and their break    *)
(* bit, become modifier flags and characters.  The driver takes one byte    *)
(* at a time and polls, so it may stop between a prefix and its code, and   *)
(* keys may have moved on when it sees them.                               *)
(*                                                                         *)
(* Beside the modifiers the keys are one letter, caps lock, the delete key  *)
(* and the delete of the numeric pad, which differs by the prefix alone.    *)
(***************************************************************************)
EXTENDS Integers, Sequences

CONSTANTS
  Keys,       (* the keys in use, some of those below                      *)
  WireLen     (* bytes under way from the keyboard to the driver           *)

Modifiers  == {"CTL", "SHIFT", "ALT"}
KeysOf(m)  == CASE m = "CTL"   -> {"LCtrl", "RCtrl"}
                [] m = "SHIFT" -> {"LShift", "RShift"}
                [] m = "ALT"   -> {"LAlt", "RAlt"}

(* What the keyboard sends: the scan code without its break bit, and for    *)
(* some keys a prefix.                                                     *)
Code(k) == CASE k \in {"LCtrl", "RCtrl"} -> "1D" [] k \in {"LAlt", "RAlt"} -> "38"
             [] k = "LShift" -> "2A" [] k = "RShift" -> "36"
             [] k = "Caps" -> "3A" [] k = "A" -> "1E" [] k \in {"Del", "KpDel"} -> "53"
Prefixed(k) == k \in {"RCtrl", "RAlt", "Del"}

ASSUME KeysAssumption ==
  /\ Keys \subseteq (UNION {KeysOf(m) : m \in Modifiers}) \cup {"Caps", "A", "Del", "KpDel"}
  /\ WireLen \in Nat

VARIABLES
  held,     (* the keys that are physically down                           *)
  wire,     (* bytes on their way                                          *)
  shift,    (* the driver's flags                                          *)
  kbd_c,    (* what kbd_proc_data returned last                            *)
  rebooted, (* has the driver asked for a reboot?                          *)
  down      (* ghost: the keys that are down as of the bytes read          *)

kbdVars == <<held, wire, shift, kbd_c, rebooted, down>>

Bytes(k, break) ==
  (IF Prefixed(k) THEN <<[kind |-> "E0", key |-> k]>> ELSE <<>>)
     \o <<[kind |-> IF break THEN "break" ELSE "make", key |-> k]>>

-----------------------------------------------------------------------------
KeyInit ==
  /\ held = {} /\ wire = <<>> /\ down = {}
  /\ shift = {} /\ kbd_c = "NO" /\ rebooted = FALSE

(* A key goes down, or repeats while it is down. *)
Press(k) ==
  /\ Len(wire \o Bytes(k, FALSE)) <= WireLen
  /\ wire' = wire \o Bytes(k, FALSE) /\ held' = held \cup {k}
  /\ UNCHANGED <<shift, kbd_c, rebooted, down>>

Release(k) ==
  /\ k \in held
  /\ Len(wire \o Bytes(k, TRUE)) <= WireLen
  /\ wire' = wire \o Bytes(k, TRUE) /\ held' = held \ {k}
  /\ UNCHANGED <<shift, kbd_c, rebooted, down>>

-----------------------------------------------------------------------------
(* The tables.  An index is the scan code and whether 0x80 was added.       *)
shiftcode(code, ext) ==
  CASE code = "1D" -> {"CTL"} [] code = "38" -> {"ALT"}
    [] code \in {"2A", "36"} /\ ~ext -> {"SHIFT"} [] OTHER -> {}

togglecode(code, ext) == IF code = "3A" /\ ~ext THEN {"CAPSLOCK"} ELSE {}

charcode(flags, code, ext) ==
  CASE code = "1E" /\ ~ext -> (IF "CTL" \in flags THEN "^A"
                               ELSE IF "SHIFT" \in flags THEN "A" ELSE "a")
    [] code = "53" /\ ext -> "KEY_DEL"
    [] code = "53" /\ ~ext -> (IF "CTL" \in flags THEN "NO" ELSE ".")
    [] OTHER -> "NO"

(* Mutant: the range of letters is not checked. *)
CapsSwapAny(ch) == CASE ch = "a" -> "A" [] ch = "A" -> "a" [] OTHER -> "swapped"
CapsSwap(ch) == CASE ch = "a" -> "A" [] ch = "A" -> "a" [] OTHER -> ch

Read == wire # <<>> /\ wire' = Tail(wire) /\ UNCHANGED held

(* An E0: the next code is from the other table. *)
Escape ==
  /\ Read /\ Head(wire).kind = "E0"
  /\ shift' = shift \cup {"E0ESC"}
  /\ kbd_c' = "NO"
  /\ UNCHANGED <<rebooted, down>>

(* Mutant: the prefix is not forgotten at a release.                       *)
ReleasedKeepsPrefix ==
  /\ Read /\ Head(wire).kind = "break"
  /\ LET k == Head(wire).key IN
       /\ shift' = shift \ shiftcode(Code(k), "E0ESC" \in shift)
       /\ down' = down \ {k}
  /\ kbd_c' = "NO"
  /\ UNCHANGED rebooted

(* Mutant: the code of a release is looked up without its prefix bit and so *)
(* is not found for the keys that have one.                                *)
ReleasedOtherTable ==
  /\ Read /\ Head(wire).kind = "break"
  /\ LET k == Head(wire).key IN
       /\ shift' = shift \ ((IF Prefixed(k) THEN {} ELSE shiftcode(Code(k), FALSE))
                            \cup {"E0ESC"})
       /\ down' = down \ {k}
  /\ kbd_c' = "NO"
  /\ UNCHANGED rebooted

(* A break code clears the flag of its key, and the prefix. *)
Released ==
  /\ Read /\ Head(wire).kind = "break"
  /\ LET k == Head(wire).key IN
       /\ shift' = shift \ (shiftcode(Code(k), "E0ESC" \in shift) \cup {"E0ESC"})
       /\ down' = down \ {k}
  /\ kbd_c' = "NO"
  /\ UNCHANGED rebooted

(* Mutant: either modifier will do. *)
RebootsOnEither(flags, ch) == flags \cap {"CTL", "ALT"} # {} /\ ch = "KEY_DEL"
Reboots(flags, ch)         == {"CTL", "ALT"} \subseteq flags /\ ch = "KEY_DEL"

(* A make code sets flags, turns a toggle, and finishes a character. *)
Pressed ==
  /\ Read /\ Head(wire).kind = "make"
  /\ LET k     == Head(wire).key
         ext   == "E0ESC" \in shift
         set   == (shift \ {"E0ESC"}) \cup shiftcode(Code(k), ext)
         tog   == togglecode(Code(k), ext)
         flags == (set \ tog) \cup (tog \ set)
         ch    == charcode(flags, Code(k), ext)
     IN /\ shift' = flags
        /\ kbd_c' = IF "CAPSLOCK" \in flags THEN CapsSwap(ch) ELSE ch
        /\ rebooted' = (rebooted \/ Reboots(flags, kbd_c'))
        /\ down' = down \cup {k}

KeyNext == (\E k \in Keys : Press(k) \/ Release(k)) \/ Escape \/ Released \/ Pressed

KeySpec == KeyInit /\ [][KeyNext]_kbdVars

-----------------------------------------------------------------------------
(* Every variable has its type. *)
KeyTypeOK ==
  /\ held \subseteq Keys /\ down \subseteq Keys
  /\ wire \in Seq([kind : {"E0", "make", "break"}, key : Keys]) /\ Len(wire) <= WireLen
  /\ shift \subseteq Modifiers \cup {"CAPSLOCK", "E0ESC"}
  /\ kbd_c \in {"NO", "a", "A", "^A", ".", "KEY_DEL"}
  /\ rebooted \in BOOLEAN

(* No modifier gets stuck: a flag is set only while, as of the bytes read,  *)
(* one of its two keys is down, the left or the one with the prefix.       *)
NoStuckModifier == \A m \in Modifiers : m \in shift => KeysOf(m) \cap down # {}

(* A prefix is for the next byte only: when the driver holds one, the code  *)
(* it belongs to is the next to be read.                                   *)
PrefixPending ==
  "E0ESC" \in shift =>
    wire # <<>> /\ Prefixed(Head(wire).key) /\ Head(wire).kind # "E0"

KeyInv == KeyTypeOK /\ NoStuckModifier /\ PrefixPending

(* The reboot takes a control key, an alt key and the delete key, down      *)
(* together; the delete of the numeric pad is not enough (console.c:353).  *)
RebootChord ==
  rebooted' /\ ~rebooted =>
    /\ "Del" \in down'
    /\ \A m \in {"CTL", "ALT"} : KeysOf(m) \cap down' # {}

(* No step of the driver leaves a stuck modifier or a stray prefix behind,  *)
(* and none reboots without the chord.                                     *)
KeysRight == [][KeyInv' /\ RebootChord]_kbdVars
=============================================================================
