------------------------------ MODULE Console -------------------------------
(***************************************************************************)
(* The text screen and the line editor of the bare-metal kernel:           *)
(* cga_putc() of kernel/console.c and readline() of kernel/readline.c.     *)
(* readline() keeps a buffer and tells the screen about every change with  *)
(* single characters; the screen wraps lines, scrolls and takes a          *)
(* backspace back over the end of a row.                                   *)
(***************************************************************************)
EXTENDS Integers

CONSTANTS
  CRT_COLS, CRT_ROWS,   (* size of the screen                              *)
  BUFLEN,               (* size of readline's buffer                       *)
  Glyph                 (* printable characters, from ' ' up; DEL is one of *)
                        (* them to the screen and an erase to readline;    *)
                        (* BS, NL, CR, TAB and NUL are not among them      *)

CRT_SIZE == CRT_ROWS * CRT_COLS
Cells    == 0 .. CRT_SIZE - 1
Line     == 0 .. BUFLEN - 1

ASSUME ScreenAssumption == /\ CRT_COLS \in Nat /\ CRT_COLS >= 1
                           /\ CRT_ROWS \in Nat /\ CRT_ROWS >= 2
ASSUME GlyphAssumption  == /\ {"DEL", " "} \subseteq Glyph
                           /\ Glyph \cap {"BS", "NL", "CR", "TAB", "NUL"} = {}
(* A line fits on the screen with two rows to spare (1024 and 80 x 25).    *)
ASSUME LineAssumption   == /\ BUFLEN \in Nat /\ BUFLEN >= 2
                           /\ BUFLEN - 1 <= CRT_SIZE - 2 * CRT_COLS

VARIABLES
  crt_buf,    (* the cells of the screen                                   *)
  crt_pos,    (* where the next character goes                             *)
  buf, i,     (* readline's buffer and how many characters are in it       *)
  reading,    (* is readline waiting for a key?                            *)
  start       (* ghost: the cell of the first character of the line        *)

screen == <<crt_buf, crt_pos, start>>
vars   == <<screen, buf, i, reading>>

-----------------------------------------------------------------------------
(* The effect of one character on the screen, before the scroll.            *)
(* Mutant: a backspace stops at the beginning of a row.                    *)
EraseInRow ==
  IF crt_pos % CRT_COLS > 0
  THEN crt_pos' = crt_pos - 1 /\ crt_buf' = [crt_buf EXCEPT ![crt_pos - 1] = " "]
  ELSE UNCHANGED <<crt_pos, crt_buf>>

Erase ==
  IF crt_pos > 0
  THEN crt_pos' = crt_pos - 1 /\ crt_buf' = [crt_buf EXCEPT ![crt_pos - 1] = " "]
  ELSE UNCHANGED <<crt_pos, crt_buf>>

(* The scroll moves all rows up by one, blanks the last and takes the      *)
(* position with it.  Mutant: memmove is given a count of cells as bytes.  *)
ScrolledBytes(cells) ==
  [k \in Cells |-> IF 2 * k < CRT_SIZE - CRT_COLS THEN cells[k + CRT_COLS]
                   ELSE IF k < CRT_SIZE - CRT_COLS THEN cells[k] ELSE " "]

Scrolled(cells) ==
  [k \in Cells |-> IF k < CRT_SIZE - CRT_COLS THEN cells[k + CRT_COLS] ELSE " "]

Move(cells, pos) ==
  IF pos >= CRT_SIZE
  THEN /\ crt_buf' = Scrolled(cells)
       /\ crt_pos' = pos - CRT_COLS
       /\ start' = IF reading THEN start - CRT_COLS ELSE start
  ELSE crt_buf' = cells /\ crt_pos' = pos /\ UNCHANGED start

RowStart(pos) == pos - (pos % CRT_COLS)

(* cga_putc(c) but for the tab, which calls cons_putc(' ') five times and   *)
(* is five steps here.                                                     *)
Putc(c) ==
  \/ c = "BS" /\ Erase /\ UNCHANGED start
  \/ c = "NL" /\ Move(crt_buf, RowStart(crt_pos + CRT_COLS))
  \/ c = "CR" /\ Move(crt_buf, RowStart(crt_pos))
  \/ c \in Glyph /\ Move([crt_buf EXCEPT ![crt_pos] = c], crt_pos + 1)

-----------------------------------------------------------------------------
(* cga_init() takes over the text and the cursor the firmware left. *)
Init ==
  /\ crt_buf \in [Cells -> Glyph]
  /\ crt_pos \in Cells
  /\ buf = [k \in Line |-> "NUL"] /\ i = 0
  /\ reading = FALSE
  /\ start = 0

(* cprintf while nobody reads a line; a prompt is printed the same way. *)
cprintf ==
  /\ ~reading
  /\ \E c \in Glyph \cup {"BS", "NL", "CR"} : Putc(c)
  /\ UNCHANGED <<buf, i, reading>>

(* readline() after its prompt. *)
Begin ==
  /\ ~reading
  /\ reading' = TRUE /\ i' = 0 /\ start' = crt_pos
  /\ UNCHANGED <<crt_buf, crt_pos, buf>>

(* Mutant: the buffer takes one character more than it has room for.       *)
InsertFull(c) ==
  /\ reading /\ c \in Glyph /\ ~(c = "DEL" /\ i > 0)
  /\ i < BUFLEN
  /\ Putc(c)
  /\ buf' = [buf EXCEPT ![i] = c] /\ i' = i + 1
  /\ UNCHANGED reading

(* A printable character.  A DEL on an empty line is one: it is kept.      *)
Insert(c) ==
  /\ reading /\ c \in Glyph /\ ~(c = "DEL" /\ i > 0)
  /\ i < BUFLEN - 1
  /\ Putc(c)
  /\ buf' = [buf EXCEPT ![i] = c] /\ i' = i + 1
  /\ UNCHANGED reading

(* Backspace or DEL takes the last character back. *)
Delete ==
  /\ reading /\ i > 0
  /\ Putc("BS")
  /\ i' = i - 1
  /\ UNCHANGED <<buf, reading>>

(* Newline or carriage return ends the line. *)
Finish ==
  /\ reading
  /\ Putc("NL")
  /\ buf' = [buf EXCEPT ![i] = "NUL"]
  /\ reading' = FALSE
  /\ UNCHANGED i

Next == cprintf \/ Begin \/ (\E c \in Glyph : Insert(c)) \/ Delete \/ Finish

Spec == Init /\ [][Next]_vars

-----------------------------------------------------------------------------
(* Every variable has its type: neither the screen nor the line buffer is   *)
(* written outside, and there is room for the terminator.                  *)
TypeOK ==
  /\ crt_buf \in [Cells -> Glyph]
  /\ crt_pos \in Cells
  /\ buf \in [Line -> Glyph \cup {"NUL"}]
  /\ i \in Line
  /\ reading \in BOOLEAN
  /\ start \in Int

(* What the user sees is what readline will return: the cells from the      *)
(* start of the line to the cursor show the characters in the buffer,       *)
(* whatever rows they were wrapped over, scrolled with or erased back       *)
(* across.                                                                 *)
LineOnScreen ==
  reading =>
    /\ start >= 0 /\ crt_pos = start + i
    /\ \A k \in Line : k < i => crt_buf[start + k] = buf[k]

Inv == TypeOK /\ LineOnScreen

(* A key edits the end of the line alone: it takes back one character at     *)
(* most, and the characters that are there before and after it stay in the *)
(* buffer and on the screen, at the line's start, which a scroll takes a   *)
(* row up.  A finished line loses none and leaves the cursor at the left   *)
(* edge.                                                                   *)
LineStays ==
  [][reading =>
       /\ i' >= i - 1
       /\ \A k \in Line : k < i /\ k < i' =>
            buf'[k] = buf[k] /\ crt_buf'[start' + k] = buf[k]
       /\ ~reading' => i' = i /\ crt_pos' % CRT_COLS = 0]_vars
=============================================================================
