------------------------------- MODULE Format --------------------------------
(***************************************************************************)
(* Formatted output of the bare-metal kernel: vprintfmt() goes through a    *)
(* format character by character, keeps what it read of an escape (pad,     *)
(* width, precision, length, alternate form), takes arguments, and puts     *)
(* characters into the buffer of snprintf(), which counts all of them and   *)
(* stores those that fit (printfmt.c); strtol() reads a number (string.c).  *)
(***************************************************************************)
EXTENDS Integers, Sequences, SequencesExt, FiniteSetsExt

CONSTANTS
  Calls,      (* [fmt, args, n]: a format, its arguments, the buffer's size *)
  IntBits,    (* of int and long                                           *)
  WideBits    (* of long long                                              *)

VARIABLES
  call,       (* the call that runs                                        *)
  fmt, ap,    (* what is left of format and arguments                      *)
  esc,        (* the escape that is being read, or Text                    *)
  buf, cnt,   (* struct sprintbuf                                          *)
  out,        (* ghost: all that was put                                   *)
  fields      (* ghost: the conversions made, with what they put           *)

vars == <<call, fmt, ap, esc, buf, cnt, out, fields>>

Text  == [on |-> FALSE]
NULL  == <<"NULL">>
Ten   == <<"0", "1", "2", "3", "4", "5", "6", "7", "8", "9">>
Hex   == Ten \o <<"a", "b", "c", "d", "e", "f">>
ValueOf(ch) == (CHOOSE i \in DOMAIN Hex : Hex[i] = ch) - 1
Pad(width, ch) == [i \in 1 .. width |-> ch]

(* sprintputch() for each of a sequence; the last place is kept for the NUL. *)
(* Mutant: the whole buffer is filled.                                     *)
StoredFull(b, chars) == SubSeq(b \o chars, 1, Min({call.n, Len(b) + Len(chars)}))
Stored(b, chars) == SubSeq(b \o chars, 1, Min({call.n - 1, Len(b) + Len(chars)}))
Puts(chars) ==
  /\ buf' = Stored(buf, chars) /\ cnt' = cnt + Len(chars) /\ out' = out \o chars

-----------------------------------------------------------------------------
(* printnum(): the digits before the last one, or the padding, then it.     *)
RECURSIVE printnum(_, _, _, _)
printnum(num, base, width, padc) ==
  (IF num >= base THEN printnum(num \div base, base, width - 1, padc) ELSE Pad(width - 1, padc))
    \o <<Hex[(num % base) + 1]>>

Bits(lflag) == IF lflag >= 2 THEN WideBits ELSE IntBits
getuint(v, lflag) == v % 2 ^ Bits(lflag)

(* A number: its sign comes before the padding.                             *)
Number(conv, v, e) ==
  CASE conv = "d" -> (IF v < 0 THEN <<"-">> ELSE <<>>)
                       \o printnum(IF v < 0 THEN -v ELSE v, 10, e.width, e.padc)
    [] conv = "u" -> printnum(getuint(v, e.lflag), 10, e.width, e.padc)
    [] conv = "x" -> printnum(getuint(v, e.lflag), 16, e.width, e.padc)
    [] conv = "p" -> <<"0", "x">> \o printnum(v % 2 ^ IntBits, 16, e.width, e.padc)

Visible(ch, alt) == IF alt /\ ch = "TAB" THEN "?" ELSE ch

(* Mutant: the padding is counted for the whole string.                     *)
StringPadsWhole(arg, e) ==
  LET p   == IF arg = NULL THEN <<"(", "n", "u", "l", "l", ")">> ELSE arg
      cut == IF e.precision < 0 THEN p ELSE SubSeq(p, 1, Min({e.precision, Len(p)}))
  IN  IF e.width > 0 /\ e.padc # "-" THEN Pad(e.width - Len(p), e.padc) \o cut
      ELSE cut \o Pad(e.width - Len(p), " ")

(* A string, cut at the precision; padded on the left unless the flag says  *)
(* otherwise; in the alternate form without what cannot be printed.         *)
String(arg, e) ==
  LET p     == IF arg = NULL THEN <<"(", "n", "u", "l", "l", ")">> ELSE arg
      cut   == IF e.precision < 0 THEN p ELSE SubSeq(p, 1, Min({e.precision, Len(p)}))
      shown == [i \in DOMAIN cut |-> Visible(cut[i], e.alt)]
  IN  IF e.width > 0 /\ e.padc # "-" THEN Pad(e.width - Len(cut), e.padc) \o shown
      ELSE shown \o Pad(e.width - Len(cut), " ")

(* An error by its number, whichever its sign; there are names for 1 to 6, *)
(* each of which is two members of the sequence here.                      *)
MAXERROR == 7
Error(v) ==
  LET err == IF v < 0 THEN -v ELSE v
  IN  IF err \in 1 .. MAXERROR - 1 THEN <<"name", Hex[err + 1]>>
      ELSE <<"error", " ">> \o printnum(err, 10, -1, " ")

-----------------------------------------------------------------------------
Init ==
  /\ call \in Calls
  /\ fmt = call.fmt /\ ap = call.args /\ esc = Text
  /\ buf = <<>> /\ cnt = 0 /\ out = <<>> /\ fields = <<>>

Reads(ch) == fmt # <<>> /\ Head(fmt) = ch

Literal ==
  /\ ~esc.on /\ fmt # <<>> /\ Head(fmt) # "%"
  /\ Puts(<<Head(fmt)>>)
  /\ fmt' = Tail(fmt) /\ UNCHANGED <<call, ap, esc, fields>>

Escape ==
  /\ ~esc.on /\ Reads("%")
  /\ fmt' = Tail(fmt)
  /\ esc' = [on |-> TRUE, padc |-> " ", width |-> -1, precision |-> -1, lflag |-> 0,
             alt |-> FALSE, after |-> Tail(fmt)]
  /\ UNCHANGED <<call, ap, buf, cnt, out, fields>>

Flag ==
  /\ esc.on /\ fmt # <<>>
  /\ \/ Head(fmt) = "-" /\ esc' = [esc EXCEPT !.padc = "-"]
     \/ Head(fmt) = "0" /\ esc' = [esc EXCEPT !.padc = "0"]
     \/ Head(fmt) = "#" /\ esc' = [esc EXCEPT !.alt = TRUE]
     \/ Head(fmt) = "l" /\ esc' = [esc EXCEPT !.lflag = @ + 1]
     \/ Head(fmt) = "." /\ esc' = [esc EXCEPT !.width = IF @ < 0 THEN 0 ELSE @]
  /\ fmt' = Tail(fmt) /\ UNCHANGED <<call, ap, buf, cnt, out, fields>>

(* process_precision: the first number is the width, unless a dot was seen. *)
Process(e, number) ==
  IF e.width < 0 THEN [e EXCEPT !.width = number, !.precision = -1]
  ELSE [e EXCEPT !.precision = number]

(* All the digits of a number at once, or an argument.                      *)
DigitsAt(s) == SelectInSeq(s \o <<"end">>, LAMBDA ch : ch \notin Range(Ten)) - 1
Decimal(s)  == FoldLeft(LAMBDA v, ch : v * 10 + ValueOf(ch), 0, s)

Width ==
  /\ esc.on /\ fmt # <<>>
  /\ \/ /\ Head(fmt) \in Range(Tail(Ten))
        /\ esc' = Process(esc, Decimal(SubSeq(fmt, 1, DigitsAt(fmt))))
        /\ fmt' = SubSeq(fmt, DigitsAt(fmt) + 1, Len(fmt)) /\ UNCHANGED ap
     \/ /\ Head(fmt) = "*"
        /\ esc' = Process(esc, Head(ap)) /\ fmt' = Tail(fmt) /\ ap' = Tail(ap)
  /\ UNCHANGED <<call, buf, cnt, out, fields>>

Conversions == {"c", "e", "s", "d", "u", "x", "p"}

Converted(conv, arg, e) ==
  CASE conv = "c" -> <<arg>>
    [] conv = "e" -> Error(arg)
    [] conv = "s" -> String(arg, e)
    [] OTHER      -> Number(conv, arg, e)

Convert ==
  /\ esc.on /\ fmt # <<>> /\ Head(fmt) \in Conversions
  /\ LET chars == Converted(Head(fmt), Head(ap), esc)
     IN  /\ Puts(chars)
         /\ fields' = Append(fields, [conv |-> Head(fmt), arg |-> Head(ap), esc |-> esc, text |-> chars])
  /\ fmt' = Tail(fmt) /\ ap' = Tail(ap) /\ esc' = Text /\ UNCHANGED call

(* A percent sign stands for itself, and octal numbers are not supported.   *)
Fixed ==
  /\ esc.on /\ fmt # <<>> /\ Head(fmt) \in {"%", "o"}
  /\ Puts(IF Head(fmt) = "%" THEN <<"%">> ELSE <<"X", "X", "X">>)
  /\ fmt' = Tail(fmt) /\ esc' = Text /\ UNCHANGED <<call, ap, fields>>

(* Anything else, the end of the format too: the escape is printed as text. *)
Unrecognized ==
  /\ esc.on
  /\ ~(fmt # <<>> /\ Head(fmt) \in Conversions \cup Range(Ten) \cup {"%", "o", "-", "#", "l", ".", "*"})
  /\ Puts(<<"%">>)
  /\ fmt' = esc.after /\ esc' = Text /\ UNCHANGED <<call, ap, fields>>

Returned == ~esc.on /\ fmt = <<>>

Next == Literal \/ Escape \/ Flag \/ Width \/ Convert \/ Fixed \/ Unrecognized
          \/ (Returned /\ UNCHANGED vars)

-----------------------------------------------------------------------------
(* strtol(): blanks, a sign, a prefix, then digits as long as there are.    *)
strtol(s, base) ==
  LET skip(from, set) == SelectInSubSeq(s \o <<"end">>, from, Len(s) + 1, LAMBDA ch : ch \notin set)
      start  == skip(1, {" ", "TAB"})
      neg    == start <= Len(s) /\ s[start] = "-"
      signed == IF start <= Len(s) /\ s[start] \in {"+", "-"} THEN start + 1 ELSE start
      first  == IF base = 16 /\ signed < Len(s) /\ s[signed] = "0" /\ s[signed + 1] = "x"
                THEN signed + 2 ELSE signed
      stop   == skip(first, {Hex[i] : i \in 1 .. base})
      val    == FoldLeft(LAMBDA v, ch : v * base + ValueOf(ch), 0, SubSeq(s, first, stop - 1))
  IN  IF neg THEN -val ELSE val

TypeOK ==
  /\ cnt \in Nat
  /\ \E i \in 0 .. Len(call.fmt) : fmt = SubSeq(call.fmt, i + 1, Len(call.fmt))

(* Whatever the format: snprintf() never stores past its buffer, keeps room *)
(* for the NUL, stores the beginning of the text and returns the length of  *)
(* the whole (printfmt.c:262).                                             *)
Bounded ==
  /\ cnt = Len(out) /\ Len(buf) <= call.n - 1
  /\ buf = SubSeq(out, 1, Min({Len(out), call.n - 1}))

(* What is printed of a number is read back as that number, where the pad   *)
(* is one of the two that are supported (printfmt.c:12) and no blank comes  *)
(* between a sign and its digits; and a field is as wide as asked for, or   *)
(* as what is in it.                                                      *)
ReadsBack ==
  \A f \in Range(fields) :
    LET value == IF f.conv = "d" THEN f.arg ELSE getuint(f.arg, f.esc.lflag)
        base  == IF f.conv \in {"x", "p"} THEN 16 ELSE 10
    IN  /\ f.conv \in {"d", "u", "x"} /\ f.esc.padc # "-" /\ (value >= 0 \/ f.esc.padc = "0") =>
             strtol(f.text, base) = value
        /\ f.conv = "p" /\ f.esc.padc = "0" => strtol(f.text, 16) = getuint(f.arg, 0)
        /\ f.conv \in {"u", "x"} =>
             Len(f.text) = Max({f.esc.width, 1} \cup {d \in 1 .. 6 : base ^ (d - 1) <= value})
        /\ f.conv = "s" /\ f.arg # NULL =>
             Len(f.text) = Max({f.esc.width, IF f.esc.precision < 0 THEN Len(f.arg)
                                             ELSE Min({f.esc.precision, Len(f.arg)})})

FormatInv == TypeOK /\ Bounded /\ ReadsBack
=============================================================================
