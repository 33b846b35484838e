-------------------------- MODULE MCKernelConsole --------------------------
(***************************************************************************)
(* The five parts of the bare-metal kernel's console on small instances:   *)
(* the line editor on its screen, the input buffer with its devices, the    *)
(* keyboard driver, formatted output, and memmove, which scrolls the screen. *)
(* The parts share no variable: each behaviour runs one of them, chosen at  *)
(* the beginning, and leaves the others at a first state, so the reachable  *)
(* states are the sum of theirs, not the product.                          *)
(***************************************************************************)
EXTENDS Console, ConsBuffer, Keyboard, MemMove, Sequences

CONSTANTS
  IntBits, WideBits                             (* of Format                *)

VARIABLES
  part,                                         (* which one runs           *)
  call, fmt, ap, esc, sbuf, cnt, out, fields    (* of Format                *)

(* Every conversion with every flag and several widths and precisions, of   *)
(* numbers at the edges of an int of eight bits, into a buffer that the     *)
(* text does not fit in; numbers from the arguments; an escape cut short.   *)
Conversions == {"c", "e", "s", "d", "u", "x", "p"}
Of(conv) ==
  CASE conv = "s" -> {<<"s", "TAB">>, <<"a", "b", "c", "d">>, <<"NULL">>}
    [] conv = "e" -> {3, -3, 0, 12}
    [] conv = "c" -> {"q"}
    [] OTHER      -> {0, 9, 42, -1, -128}
Widths == {<<>>, <<"3">>, <<"1", "0">>, <<"5", ".", "2">>, <<".", "3">>, <<"l", "l">>}
Flags  == {<<>>, <<"-">>, <<"0">>, <<"#">>}
MCCalls ==
  UNION {{[fmt |-> <<"y", "%">> \o flag \o width \o <<conv, "z">>, args |-> <<arg>>, n |-> 4] :
            flag \in Flags, width \in Widths, arg \in Of(conv)} : conv \in Conversions}
  \cup {[fmt |-> <<"%", "*", ".", "*", "s", "%", "%", "%", "o", "%", "Z">>,
         args |-> <<w, p, <<"a", "b", "c">>>>, n |-> k] : w \in {-1, 0, 2, 5}, p \in {0, 2, 4}, k \in {1, 16}}
  \cup {[fmt |-> <<"%", "d", "%", "3">>, args |-> <<v>>, n |-> 3] : v \in {9, -12}}

Text == INSTANCE Format WITH Calls <- MCCalls, buf <- sbuf

MCGlyph == {" ", "x", "DEL"}
MCKeys  == {"LCtrl", "RCtrl", "LShift", "RAlt", "A", "Del", "KpDel", "Caps"}

textVars == <<call, fmt, ap, esc, sbuf, cnt, out, fields>>

Parts == {"screen", "input", "keyboard", "text", "copy"}

MCInit ==
  /\ part \in Parts
  /\ Init /\ (part # "screen" => crt_pos = 0 /\ \A k \in Cells : crt_buf[k] = " ")
  /\ MoveInit /\ (part # "copy" => n = 0 /\ dst = 0 /\ src = 0)
  /\ Text!Init /\ (part # "text" => call.n = 3 /\ ap = <<9>>)
  /\ InputInit /\ KeyInit

MCNext ==
  /\ UNCHANGED part
  /\ \/ part = "screen" /\ Next /\ UNCHANGED <<inputVars, kbdVars, textVars, copyVars>>
     \/ part = "input" /\ InputNext /\ UNCHANGED <<vars, kbdVars, textVars, copyVars>>
     \/ part = "keyboard" /\ KeyNext /\ UNCHANGED <<vars, inputVars, textVars, copyVars>>
     \/ part = "text" /\ Text!Next /\ UNCHANGED <<vars, inputVars, kbdVars, copyVars>>
     \/ part = "copy" /\ MoveNext /\ UNCHANGED <<vars, inputVars, kbdVars, textVars>>

MCSpec ==
  MCInit /\ [][MCNext]_<<part, vars, inputVars, kbdVars, textVars, copyVars>> /\ Fairness

-----------------------------------------------------------------------------
(* snprintf stays in its buffer, counts what did not fit, and says what was *)
(* asked for (printfmt.c:262).                                             *)
TextFits == Text!FormatInv
=============================================================================
