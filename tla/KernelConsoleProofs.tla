------------------------- MODULE KernelConsoleProofs -------------------------
(***************************************************************************)
(* Proofs about the bare-metal kernel's console, for every value of the     *)
(* constants that the modules assume.  Console: what is on the screen is    *)
(* what readline() will return.  ConsBuffer: of the characters that came in *)
(* and were not returned the newest are in the buffer, in order, an overflow *)
(* loses whole laps, and getchar() keeps the order of a device.  Keyboard:  *)
(* modifiers and prefixes, and the chord that reboots.  MemMove: the bytes   *)
(* arrive, whatever the overlap.                                           *)
(***************************************************************************)
EXTENDS Console, ConsBuffer, Keyboard, MemMove, SequenceTheorems, TLAPS

-----------------------------------------------------------------------------
(* Counting modulo N. *)

(* The remainder is the only one there is. *)
LEMMA ModUnique ==
  ASSUME NEW N \in Nat \ {0}, NEW q \in Int, NEW r \in 0 .. N - 1
  PROVE  (N * q + r) % N = r
  OBVIOUS

(* Every number is some laps and a slot. *)
LEMMA ModSplit ==
  ASSUME NEW N \in Nat \ {0}, NEW a \in Nat
  PROVE  a % N \in 0 .. N - 1 /\ a \div N \in Nat /\ a = N * (a \div N) + (a % N)
<1>2. a = N * (a \div N) + (a % N)
  OBVIOUS
<1>3. a % N \in 0 .. N - 1
  OBVIOUS
<1>4. a \div N \in Nat
  OBVIOUS
<1> QED
  BY <1>2, <1>3, <1>4

(* Whole laps do not change the slot. *)
LEMMA ModLaps ==
  ASSUME NEW N \in Nat \ {0}, NEW a \in Nat, NEW q \in Nat
  PROVE  (a + N * q) % N = a % N
<1> DEFINE d == a \div N
           m == a % N
<1>1. m \in 0 .. N - 1 /\ d \in Nat /\ a = N * d + m
  BY ModSplit
<1> HIDE DEF d, m
<1>2. a + N * q = N * (d + q) + m
  BY <1>1
<1>3. (N * (d + q) + m) % N = m
  BY <1>1, ModUnique
<1> QED
  BY <1>2, <1>3 DEF m

(* The slot of the next number. *)
LEMMA NextSlot ==
  ASSUME NEW N \in Nat \ {0}, NEW a \in Nat
  PROVE  (a + 1) % N = IF (a % N) + 1 = N THEN 0 ELSE (a % N) + 1
<1> DEFINE d == a \div N
           m == a % N
<1>1. m \in 0 .. N - 1 /\ d \in Nat /\ a = N * d + m
  BY ModSplit
<1> HIDE DEF d, m
<1>2. CASE m + 1 = N
  <2>1. a + 1 = N * (d + 1) + 0
    BY <1>1, <1>2
  <2>2. (N * (d + 1) + 0) % N = 0
    BY <1>1, ModUnique
  <2> QED
    BY <1>2, <2>1, <2>2 DEF m
<1>3. CASE m + 1 # N
  <2>1. a + 1 = N * d + (m + 1)
    BY <1>1, <1>3
  <2>2. (N * d + (m + 1)) % N = m + 1
    BY <1>1, <1>3, ModUnique
  <2> QED
    BY <1>3, <2>1, <2>2 DEF m
<1> QED
  BY <1>2, <1>3

(* A slot comes again after a lap and not before. *)
LEMMA ModDiffer ==
  ASSUME NEW N \in Nat \ {0}, NEW a \in Nat, NEW b \in Nat, a < b, b < a + N
  PROVE  a % N # b % N
<1> SUFFICES ASSUME a % N = b % N PROVE FALSE
  OBVIOUS
<1> DEFINE d == a \div N
           e == b \div N
           m == a % N
<1>1. m \in 0 .. N - 1 /\ d \in Nat /\ a = N * d + m
  BY ModSplit
<1>2. m = b % N /\ e \in Nat /\ b = N * e + m
  BY ModSplit
<1> HIDE DEF d, e, m
<1>3. b - a = N * (e - d)
  BY <1>1, <1>2
<1>4. e - d \in Int /\ 0 < N * (e - d) /\ N * (e - d) < N
  BY <1>1, <1>2, <1>3
<1> HIDE DEF d, e
<1> QED
  BY <1>4

-----------------------------------------------------------------------------
(* Console. *)

(* The beginning of a row is on or before every position in it.            *)
LEMMA RowStartBounds ==
  ASSUME NEW p \in Nat
  PROVE  RowStart(p) \in Nat /\ RowStart(p) <= p
  BY ScreenAssumption DEF RowStart

(* A line, and two rows more, fit on the screen.                           *)
LEMMA SizeFits ==
  /\ CRT_COLS \in Nat /\ CRT_COLS >= 1
  /\ BUFLEN \in Nat /\ BUFLEN >= 2
  /\ CRT_SIZE \in Nat /\ CRT_SIZE >= 2 * CRT_COLS + BUFLEN - 1
  BY ScreenAssumption, LineAssumption DEF CRT_SIZE

(* Moving to a position at most one row below the screen stays on it, and   *)
(* the scroll leaves only printable characters.                            *)
LEMMA MoveType ==
  ASSUME TypeOK, NEW cells \in [Cells -> Glyph], NEW pos \in Nat,
         pos < CRT_SIZE + CRT_COLS, Move(cells, pos)
  PROVE  crt_buf' \in [Cells -> Glyph] /\ crt_pos' \in Cells /\ start' \in Int
  <1>1. CASE pos >= CRT_SIZE
    <2>1. Scrolled(cells) \in [Cells -> Glyph]
      <3>1. " " \in Glyph
        BY GlyphAssumption
      <3>2. ASSUME NEW k \in Cells, k < CRT_SIZE - CRT_COLS
            PROVE  cells[k + CRT_COLS] \in Glyph
        <4>1. k + CRT_COLS \in Cells
          BY <3>2, SizeFits DEF Cells
        <4> QED BY <4>1
      <3> QED BY <3>1, <3>2 DEF Scrolled
    <2>2. pos - CRT_COLS \in Cells
      BY <1>1, SizeFits DEF Cells
    <2>3. start' \in Int
      BY <1>1, SizeFits DEF Move, TypeOK
    <2> QED BY <1>1, <2>1, <2>2, <2>3 DEF Move
  <1>2. CASE ~(pos >= CRT_SIZE)
    <2>1. pos \in Cells
      BY <1>2, SizeFits DEF Cells
    <2> QED BY <1>2, <2>1 DEF Move, TypeOK
  <1> QED BY <1>1, <1>2

(* Every character leaves the screen and the cursor well typed.            *)
LEMMA PutcType ==
  ASSUME TypeOK, NEW c, Putc(c)
  PROVE  crt_buf' \in [Cells -> Glyph] /\ crt_pos' \in Cells /\ start' \in Int
  <1>0. crt_pos \in Nat /\ crt_pos < CRT_SIZE
    BY SizeFits DEF TypeOK, Cells
  <1>1. CASE c = "BS" /\ Erase /\ UNCHANGED start
    <2>1. CASE crt_pos > 0
      <3>1. crt_pos - 1 \in Cells
        BY <1>0, <2>1, SizeFits DEF Cells
      <3>2. " " \in Glyph
        BY GlyphAssumption
      <3> QED BY <1>1, <2>1, <3>1, <3>2 DEF Erase, TypeOK
    <2>2. CASE ~(crt_pos > 0)
      BY <1>1, <2>2 DEF Erase, TypeOK
    <2> QED BY <2>1, <2>2
  <1>2. CASE c = "NL" /\ Move(crt_buf, RowStart(crt_pos + CRT_COLS))
    <2>1. RowStart(crt_pos + CRT_COLS) \in Nat
          /\ RowStart(crt_pos + CRT_COLS) < CRT_SIZE + CRT_COLS
      BY <1>0, SizeFits, RowStartBounds
    <2> QED BY <1>2, <2>1, MoveType DEF TypeOK
  <1>3. CASE c = "CR" /\ Move(crt_buf, RowStart(crt_pos))
    <2>1. RowStart(crt_pos) \in Nat /\ RowStart(crt_pos) < CRT_SIZE + CRT_COLS
      BY <1>0, SizeFits, RowStartBounds
    <2> QED BY <1>3, <2>1, MoveType DEF TypeOK
  <1>4. CASE c \in Glyph /\ Move([crt_buf EXCEPT ![crt_pos] = c], crt_pos + 1)
    <2>1. [crt_buf EXCEPT ![crt_pos] = c] \in [Cells -> Glyph]
      BY <1>4 DEF TypeOK
    <2>2. crt_pos + 1 \in Nat /\ crt_pos + 1 < CRT_SIZE + CRT_COLS
      BY <1>0, SizeFits
    <2> QED BY <1>4, <2>1, <2>2, MoveType
  <1> QED BY <1>1, <1>2, <1>3, <1>4 DEF Putc

LEMMA InitInv == Init => Inv
  <1> SUFFICES ASSUME Init PROVE Inv
    OBVIOUS
  <1>1. 0 \in Line
    BY SizeFits DEF Line
  <1>2. " " \in Glyph
    BY GlyphAssumption
  <1>3. crt_buf \in [Cells -> Glyph] /\ buf \in [Line -> Glyph \cup {"NUL"}]
    BY <1>2 DEF Init
  <1>4. TypeOK
    <2>1. crt_pos \in Cells /\ i \in Line /\ start \in Int
      <3>1. start = 0 /\ i = 0
        BY DEF Init
      <3>2. crt_pos \in Cells
        BY DEF Init
      <3> QED BY <1>1, <3>1, <3>2
    <2>2. reading \in BOOLEAN
      BY DEF Init
    <2> QED BY <1>3, <2>1, <2>2 DEF TypeOK
  <1>5. LineOnScreen
    BY DEF Init, LineOnScreen
  <1> QED BY <1>4, <1>5 DEF Inv

(* A character typed goes to the buffer and to the cursor's cell; when it   *)
(* fills the last cell of the screen the line moves up a row with the rest. *)
LEMMA InsertInv ==
  ASSUME Inv, NEW c \in Glyph, Insert(c)
  PROVE  Inv'
  <1>1. crt_buf' \in [Cells -> Glyph] /\ crt_pos' \in Cells /\ start' \in Int
    BY PutcType DEF Inv, Insert
  <1>2. TypeOK'
    BY <1>1, SizeFits DEF Inv, TypeOK, Insert, Line
  <1>3. Move([crt_buf EXCEPT ![crt_pos] = c], crt_pos + 1)
    BY GlyphAssumption DEF Insert, Putc
  <1>4. /\ start \in Nat /\ i \in Nat /\ i < BUFLEN - 1
        /\ crt_pos = start + i /\ crt_pos < CRT_SIZE
        /\ \A k \in Line : k < i => crt_buf[start + k] = buf[k]
    BY SizeFits DEF Inv, TypeOK, LineOnScreen, Insert, Line, Cells
  <1> DEFINE cells == [crt_buf EXCEPT ![crt_pos] = c]
  <1>5. \A k \in Line : k < i + 1 => cells[start + k] = buf'[k]
    BY <1>4, SizeFits DEF Inv, TypeOK, Insert, Line, Cells
  <1>6. CASE crt_pos + 1 >= CRT_SIZE
    <2>1. start' = start - CRT_COLS /\ crt_pos' = crt_pos + 1 - CRT_COLS
          /\ crt_buf' = Scrolled(cells)
      <3>1. reading
        BY DEF Insert
      <3>2. start' = IF reading THEN start - CRT_COLS ELSE start
        BY <1>3, <1>6 DEF Move
      <3>3. crt_pos' = crt_pos + 1 - CRT_COLS
        <4>1. crt_pos' = (crt_pos + 1) - CRT_COLS
          BY <1>3, <1>6 DEF Move
        <4> QED BY <1>4, <4>1, SizeFits
      <3>4. crt_buf' = Scrolled(cells)
        BY <1>3, <1>6 DEF Move
      <3> QED BY <3>1, <3>2, <3>3, <3>4
    <2>2. start - CRT_COLS >= 0
      BY <1>4, <1>6, SizeFits
    <2>3. \A k \in Line : k < i + 1 => crt_buf'[start' + k] = cells[start + k]
      <3> SUFFICES ASSUME NEW k \in Line, k < i + 1
                   PROVE  crt_buf'[start' + k] = cells[start + k]
        OBVIOUS
      <3>1. /\ start - CRT_COLS + k \in Cells
            /\ start - CRT_COLS + k < CRT_SIZE - CRT_COLS
            /\ start - CRT_COLS + k + CRT_COLS = start + k
        BY <1>4, <2>2, SizeFits DEF Line, Cells
      <3>2. Scrolled(cells)[start - CRT_COLS + k] = cells[start - CRT_COLS + k + CRT_COLS]
        BY <3>1 DEF Scrolled
      <3> QED BY <2>1, <3>1, <3>2
    <2>4. i' = i + 1 /\ crt_pos' = start' + i' /\ start' >= 0
      BY <1>4, <2>1, <2>2, SizeFits DEF Insert
    <2> QED BY <1>2, <1>5, <2>3, <2>4 DEF Inv, LineOnScreen
  <1>7. CASE ~(crt_pos + 1 >= CRT_SIZE)
    <2>1. start' = start /\ crt_pos' = crt_pos + 1 /\ crt_buf' = cells
      BY <1>3, <1>7 DEF Move
    <2> QED BY <1>2, <1>4, <1>5, <2>1 DEF Inv, LineOnScreen, Insert
  <1> QED BY <1>6, <1>7

(* A backspace blanks only the cell of the character it takes back.        *)
LEMMA DeleteInv ==
  ASSUME Inv, Delete
  PROVE  Inv'
  <1>1. crt_buf' \in [Cells -> Glyph] /\ crt_pos' \in Cells /\ start' \in Int
    BY PutcType DEF Inv, Delete
  <1>2. TypeOK'
    BY <1>1, SizeFits DEF Inv, TypeOK, Delete, Line
  <1>3. Erase /\ UNCHANGED start
    BY GlyphAssumption DEF Delete, Putc
  <1>4. /\ start \in Nat /\ i \in Nat /\ i > 0
        /\ crt_pos = start + i /\ crt_pos < CRT_SIZE
        /\ \A k \in Line : k < i => crt_buf[start + k] = buf[k]
    BY SizeFits DEF Inv, TypeOK, LineOnScreen, Delete, Line, Cells
  <1>5. crt_pos' = crt_pos - 1 /\ crt_buf' = [crt_buf EXCEPT ![crt_pos - 1] = " "]
    <2>1. crt_pos > 0
      BY <1>4
    <2> QED BY <1>3, <2>1 DEF Erase
  <1>6. \A k \in Line : k < i - 1 => crt_buf'[start + k] = buf[k]
    <2> SUFFICES ASSUME NEW k \in Line, k < i - 1
                 PROVE  crt_buf'[start + k] = buf[k]
      OBVIOUS
    <2>1. start + k # crt_pos - 1 /\ start + k \in Cells /\ k < i
      BY <1>4, SizeFits DEF Line, Cells
    <2> QED BY <1>4, <1>5, <2>1 DEF Inv, TypeOK
  <1>7. crt_pos' = start' + i' /\ start' >= 0
    <2>1. start' = start /\ i' = i - 1
      BY <1>3 DEF Delete
    <2>2. crt_pos' = crt_pos - 1
      BY <1>5
    <2>3. start \in Nat /\ i \in Nat /\ crt_pos = start + i
      BY <1>4
    <2> QED BY <2>1, <2>2, <2>3
  <1>8. \A k \in Line : k < i' => crt_buf'[start' + k] = buf'[k]
    BY <1>3, <1>6 DEF Delete
  <1> QED BY <1>2, <1>7, <1>8 DEF Inv, LineOnScreen

LEMMA NextInv == Inv /\ [Next]_vars => Inv'
  <1> SUFFICES ASSUME Inv, [Next]_vars PROVE Inv'
    OBVIOUS
  <1>1. CASE cprintf
    <2>1. PICK c : Putc(c)
      BY <1>1 DEF cprintf
    <2>2. crt_buf' \in [Cells -> Glyph] /\ crt_pos' \in Cells /\ start' \in Int
      BY <2>1, PutcType DEF Inv
    <2> QED BY <1>1, <2>2 DEF cprintf, Inv, TypeOK, LineOnScreen
  <1>2. CASE Begin
    BY <1>2, SizeFits DEF Begin, Inv, TypeOK, LineOnScreen, Cells, Line
  <1>3. CASE \E c \in Glyph : Insert(c)
    BY <1>3, InsertInv
  <1>4. CASE Delete
    BY <1>4, DeleteInv
  <1>5. CASE Finish
    <2>1. crt_buf' \in [Cells -> Glyph] /\ crt_pos' \in Cells /\ start' \in Int
      BY <1>5, PutcType DEF Finish, Inv
    <2> QED BY <1>5, <2>1, SizeFits DEF Finish, Inv, TypeOK, LineOnScreen, Line
  <1>6. CASE UNCHANGED vars
    BY <1>6 DEF vars, screen, Inv, TypeOK, LineOnScreen
  <1> QED BY <1>1, <1>2, <1>3, <1>4, <1>5, <1>6 DEF Next

THEOREM Invariance == Spec => []Inv
  BY InitInv, NextInv, PTL DEF Spec

(* Neither the screen nor the line buffer is written outside, for every     *)
(* size of either.                                                         *)
THEOREM TypeCorrect == Spec => []TypeOK
  BY Invariance, PTL DEF Inv

(* While a line is read, the cells from its start to the cursor show what   *)
(* readline will return, across wrapping, scrolling and erasing.           *)
THEOREM LineOnScreenAlways == Spec => []LineOnScreen
  BY Invariance, PTL DEF Inv

(* A newline takes the line a row up with the rest of the screen or leaves  *)
(* it where it is, and the terminator goes behind its last character.      *)
LEMMA FinishStays ==
  ASSUME Inv, Finish
  PROVE  /\ crt_pos' % CRT_COLS = 0
         /\ \A k \in Line : k < i => crt_buf'[start' + k] = buf'[k]
  <1> DEFINE p == crt_pos + CRT_COLS
             d == p \div CRT_COLS
             r == RowStart(p)
  <1>1. /\ start \in Nat /\ i \in Nat /\ i <= BUFLEN - 1
        /\ crt_pos \in Nat /\ crt_pos = start + i /\ crt_pos < CRT_SIZE
        /\ \A k \in Line : k < i => crt_buf[start + k] = buf[k]
    BY SizeFits DEF Inv, TypeOK, LineOnScreen, Finish, Line, Cells
  <1>2. p \in Nat /\ d \in Int /\ r = CRT_COLS * d
    <2>1. CRT_COLS \in Nat \ {0} /\ p \in Nat
      BY <1>1, SizeFits
    <2>2. p = CRT_COLS * (p \div CRT_COLS) + (p % CRT_COLS) /\ p \div CRT_COLS \in Nat
          /\ p % CRT_COLS \in 0 .. CRT_COLS - 1
      BY <2>1, ModSplit
    <2> HIDE DEF p
    <2> QED BY <2>1, <2>2 DEF RowStart
  <1>3. Move(crt_buf, r)
    BY GlyphAssumption DEF Finish, Putc
  <1>4. r \in Nat /\ r <= p
    BY <1>2, RowStartBounds
  <1> HIDE DEF d, r
  <1>5. \A k \in Line : k < i => buf'[k] = buf[k]
    BY <1>1, SizeFits DEF Inv, TypeOK, Finish, Line
  <1>6. reading
    BY DEF Finish
  <1>7. CASE r >= CRT_SIZE
    <2>1. /\ crt_buf' = Scrolled(crt_buf) /\ crt_pos' = r - CRT_COLS
          /\ start' = start - CRT_COLS
      BY <1>3, <1>6, <1>7 DEF Move
    <2>2. start - CRT_COLS >= 0
      BY <1>1, <1>4, <1>7, SizeFits
    <2>3. ASSUME NEW k \in Line, k < i
          PROVE  crt_buf'[start' + k] = crt_buf[start + k]
      <3>1. /\ start - CRT_COLS + k \in Cells
            /\ start - CRT_COLS + k < CRT_SIZE - CRT_COLS
            /\ start - CRT_COLS + k + CRT_COLS = start + k
        BY <1>1, <2>2, <2>3, SizeFits DEF Line, Cells
      <3>2. Scrolled(crt_buf)[start - CRT_COLS + k] = crt_buf[start - CRT_COLS + k + CRT_COLS]
        BY <3>1 DEF Scrolled
      <3> QED BY <2>1, <3>1, <3>2
    <2>4. crt_pos' % CRT_COLS = 0
      <3>1. r - CRT_COLS = CRT_COLS * (d - 1) + 0
        BY <1>2, SizeFits
      <3>2. (CRT_COLS * (d - 1) + 0) % CRT_COLS = 0
        BY <1>2, SizeFits, ModUnique
      <3> QED BY <2>1, <3>1, <3>2
    <2> QED BY <1>1, <1>5, <2>3, <2>4
  <1>8. CASE ~(r >= CRT_SIZE)
    <2>1. crt_buf' = crt_buf /\ crt_pos' = r /\ start' = start
      BY <1>3, <1>8 DEF Move
    <2>2. crt_pos' % CRT_COLS = 0
      <3>1. r = CRT_COLS * d + 0
        BY <1>2, SizeFits
      <3>2. (CRT_COLS * d + 0) % CRT_COLS = 0
        BY <1>2, SizeFits, ModUnique
      <3> QED BY <2>1, <3>1, <3>2
    <2> QED BY <1>1, <1>5, <2>1, <2>2
  <1> QED BY <1>7, <1>8

(* What is left of the line after a key was there before it, in the buffer  *)
(* and by the invariant on the screen.                                     *)
LEMMA KeyStays ==
  ASSUME Inv, Inv', reading, Next
  PROVE  /\ i' >= i - 1
         /\ \A k \in Line : k < i /\ k < i' =>
              buf'[k] = buf[k] /\ crt_buf'[start' + k] = buf[k]
         /\ ~reading' => i' = i /\ crt_pos' % CRT_COLS = 0
  <1>1. /\ i \in Nat /\ \A k \in Line : k \in Nat
        /\ buf \in [Line -> Glyph \cup {"NUL"}]
    BY SizeFits DEF Inv, TypeOK, Line
  <1>2. ASSUME reading'
        PROVE  \A k \in Line : k < i' => crt_buf'[start' + k] = buf'[k]
    BY <1>2 DEF Inv, LineOnScreen
  <1>3. ASSUME NEW c \in Glyph, Insert(c)
        PROVE  /\ reading' /\ i' = i + 1
               /\ \A k \in Line : k < i => buf'[k] = buf[k]
    BY <1>1, <1>3 DEF Insert
  <1>4. ASSUME Delete
        PROVE  reading' /\ i' = i - 1 /\ buf' = buf
    BY <1>4 DEF Delete
  <1>5. ASSUME Finish
        PROVE  /\ ~reading' /\ i' = i /\ crt_pos' % CRT_COLS = 0
               /\ \A k \in Line : k < i => buf'[k] = buf[k] /\ crt_buf'[start' + k] = buf'[k]
    <2>1. ~reading' /\ i' = i /\ \A k \in Line : k < i => buf'[k] = buf[k]
      BY <1>1, <1>5 DEF Finish
    <2> QED BY <1>5, <2>1, FinishStays
  <1>6. ~cprintf /\ ~Begin
    BY DEF cprintf, Begin
  <1>7. CASE \E c \in Glyph : Insert(c)
    BY <1>1, <1>2, <1>3, <1>7
  <1>8. CASE Delete
    BY <1>1, <1>2, <1>4, <1>8
  <1>9. CASE Finish
    BY <1>1, <1>5, <1>9
  <1> QED BY <1>6, <1>7, <1>8, <1>9 DEF Next

(* A key takes back one character of the line at most and leaves those      *)
(* before it in the buffer and on the screen, whether or not the screen     *)
(* scrolls; a finished line loses none.  For every size of screen and line. *)
THEOREM LineStaysAlways == Spec => LineStays
  <1>1. Inv /\ Inv' /\ [Next]_vars =>
          [reading => /\ i' >= i - 1
                      /\ \A k \in Line : k < i /\ k < i' =>
                           buf'[k] = buf[k] /\ crt_buf'[start' + k] = buf[k]
                      /\ ~reading' => i' = i /\ crt_pos' % CRT_COLS = 0]_vars
    BY KeyStays
  <1> QED BY <1>1, Invariance, PTL DEF Spec, LineStays

-----------------------------------------------------------------------------
(* Of each device, what is returned is older than what is unread, and that  *)
(* is older than what the device still holds.                              *)
Ordered ==
  /\ \A p, j \in DOMAIN unread :
       p < j /\ unread[p].dev = unread[j].dev => unread[p].n < unread[j].n
  /\ \A p \in DOMAIN unread : last[unread[p].dev] < unread[p].n /\ unread[p].n <= typed
  /\ \A d \in Devices : last[d] <= typed

Held(d, p) == pending[d][p]

Waits ==
  \A d \in Devices : \A p \in DOMAIN pending[d] :
    Held(d, p) # NUL =>
      /\ Held(d, p).dev = d /\ Held(d, p).n <= typed /\ last[d] < Held(d, p).n
      /\ \A k \in DOMAIN unread : unread[k].dev = d => unread[k].n < Held(d, p).n
      /\ \A j \in DOMAIN pending[d] :
           p < j /\ Held(d, j) # NUL => Held(d, p).n < Held(d, j).n

IInv == InputInv /\ Ordered /\ Waits

(* The code's step of an index, also some slots further on. *)
LEMMA StepSlot ==
  ASSUME NEW r \in Slots, NEW b \in Nat
  PROVE  Step(r) \in Slots /\ (Step(r) + b) % CONSBUFSIZE = (r + 1 + b) % CONSBUFSIZE
<1>1. CONSBUFSIZE \in Nat \ {0} /\ r \in 0 .. CONSBUFSIZE - 1 /\ 0 \in Slots
  BY BufferAssumption DEF Slots
<1>2. CASE r + 1 = CONSBUFSIZE
  <2>1. (b + CONSBUFSIZE * 1) % CONSBUFSIZE = b % CONSBUFSIZE
    BY <1>1, ModLaps
  <2>2. Step(r) = 0 /\ Step(r) + b = b /\ r + 1 + b = b + CONSBUFSIZE * 1
    BY <1>1, <1>2 DEF Step
  <2> QED
    BY <1>1, <2>1, <2>2
<1>3. CASE r + 1 # CONSBUFSIZE
  BY <1>1, <1>3 DEF Step, Slots
<1> QED
  BY <1>2, <1>3

(* The types of what is unread and of what the devices hold. *)
LEMMA UnreadTypes ==
  ASSUME InputTypeOK
  PROVE  /\ unread \in Seq(Chars) /\ DOMAIN unread = 1 .. Len(unread) /\ Len(unread) \in Nat
         /\ \A k \in DOMAIN unread : /\ unread[k] \in Chars /\ unread[k] # NUL
                                     /\ unread[k].n \in Int /\ unread[k].dev \in Devices
<1>1. unread \in Seq(Chars) /\ DOMAIN unread = 1 .. Len(unread) /\ Len(unread) \in Nat
  BY DEF InputTypeOK
<1>2. \A c \in Chars : c # NUL /\ c.n \in Int /\ c.dev \in Devices
  BY DEF Chars, NUL, Devices
<1> QED
  BY <1>1, <1>2

(* Nothing is stored twice. *)
LEMMA UnreadDiffer ==
  ASSUME InputTypeOK, Ordered, NEW p \in DOMAIN unread, NEW j \in DOMAIN unread,
         unread[p] = unread[j]
  PROVE  p = j
<1>1. p \in Int /\ j \in Int /\ unread[p].n \in Int
  BY UnreadTypes
<1> QED
  BY <1>1 DEF Ordered

LEMMA InitOK == ASSUME InputInit PROVE IInv
<1>1. InputTypeOK
  BY BufferAssumption DEF InputInit, InputTypeOK, Slots, Devices
<1>2. WholeLaps
  <2>1. 0 % CONSBUFSIZE = 0
    BY BufferAssumption
  <2> QED
    BY <2>1 DEF InputInit, WholeLaps
<1>3. Ordered /\ Waits
  BY BufferAssumption DEF InputInit, Ordered, Waits
<1> QED
  BY <1>1, <1>2, <1>3 DEF IInv, InputInv

(* An arriving byte is newer than all there are. *)
LEMMA ArriveOK ==
  ASSUME IInv, NEW d \in Devices, Arrive(d) PROVE IInv'
<1>1. PICK c \in {NUL, [dev |-> d, n |-> typed + 1]} :
        pending' = [pending EXCEPT ![d] = Append(@, c)]
  BY DEF Arrive
<1>2. /\ typed \in Nat /\ typed < MaxTyped /\ typed' = typed + 1 /\ MaxTyped \in Nat
      /\ UNCHANGED <<cons_buf, rpos, wpos, pc, unread, last>>
  BY BufferAssumption DEF Arrive, kernel, ghosts, IInv, InputInv, InputTypeOK
<1>3. c \in Chars \cup {NUL} /\ (c # NUL => c.dev = d /\ c.n = typed + 1)
  BY <1>1, <1>2 DEF Chars
<1>4. pending \in [Devices -> Seq(Chars \cup {NUL})]
  BY DEF IInv, InputInv, InputTypeOK
<1>5. InputTypeOK'
  BY <1>1, <1>2, <1>3, <1>4 DEF IInv, InputInv, InputTypeOK
<1>6. WholeLaps'
  BY <1>2 DEF IInv, InputInv, WholeLaps
<1>7. Ordered'
  <2>1. \A p \in DOMAIN unread : unread[p].n \in Int
    BY UnreadTypes DEF IInv, InputInv
  <2>2. \A e \in Devices : last[e] \in Int
    BY DEF IInv, InputInv, InputTypeOK
  <2> QED
    BY <1>2, <2>1, <2>2 DEF IInv, Ordered
<1>8. Waits'
  <2> SUFFICES ASSUME NEW e \in Devices, NEW p \in DOMAIN pending'[e], pending'[e][p] # NUL
               PROVE  /\ pending'[e][p].dev = e /\ pending'[e][p].n <= typed'
                      /\ last[e] < pending'[e][p].n
                      /\ \A k \in DOMAIN unread :
                           unread[k].dev = e => unread[k].n < pending'[e][p].n
                      /\ \A j \in DOMAIN pending'[e] :
                           p < j /\ pending'[e][j] # NUL => pending'[e][p].n < pending'[e][j].n
    BY <1>2 DEF Waits, Held
  <2>1. CASE e # d
    <3>1. pending'[e] = pending[e]
      BY <1>1, <1>4, <2>1
    <3>2. \A j \in DOMAIN pending[e] : pending[e][j] # NUL => pending[e][j].n \in Int
      BY <1>4 DEF Chars
    <3> QED
      BY <1>2, <3>1, <3>2 DEF IInv, Waits, Held
  <2>2. CASE e = d
    <3>1. pending'[e] = Append(pending[e], c) /\ pending[e] \in Seq(Chars \cup {NUL})
      BY <1>1, <1>4, <2>2
    <3>2. /\ DOMAIN pending'[e] = 1 .. Len(pending[e]) + 1 /\ Len(pending[e]) \in Nat
          /\ pending'[e][Len(pending[e]) + 1] = c
          /\ \A j \in 1 .. Len(pending[e]) : pending'[e][j] = pending[e][j]
      BY <1>3, <3>1
    <3>3. \A j \in 1 .. Len(pending[e]) :
            pending[e][j] # NUL => pending[e][j].n \in Int /\ pending[e][j].n <= typed
      BY <3>1 DEF Chars, IInv, Waits, Held
    <3>4. CASE p \in 1 .. Len(pending[e])
      <4>1. /\ pending'[e][p] = pending[e][p] /\ pending[e][p] # NUL /\ p \in DOMAIN pending[e]
        BY <3>1, <3>2, <3>4
      <4>2. /\ pending[e][p].dev = e /\ pending[e][p].n <= typed /\ last[e] < pending[e][p].n
            /\ \A k \in DOMAIN unread : unread[k].dev = e => unread[k].n < pending[e][p].n
            /\ \A j \in DOMAIN pending[e] :
                 p < j /\ pending[e][j] # NUL => pending[e][p].n < pending[e][j].n
        BY <4>1 DEF IInv, Waits, Held
      <4>3. \A j \in DOMAIN pending'[e] :
              p < j /\ pending'[e][j] # NUL => pending'[e][p].n < pending'[e][j].n
        BY <1>2, <1>3, <2>2, <3>1, <3>2, <3>3, <3>4, <4>1, <4>2
      <4> QED
        BY <1>2, <3>3, <3>4, <4>1, <4>2, <4>3
    <3>5. CASE p = Len(pending[e]) + 1
      <4>1. pending'[e][p].dev = e /\ pending'[e][p].n = typed + 1
        BY <1>3, <2>2, <3>2, <3>5
      <4>2. last[e] \in Int /\ last[e] <= typed
        BY DEF IInv, Ordered, InputInv, InputTypeOK
      <4>3. \A k \in DOMAIN unread : unread[k].n \in Int /\ unread[k].n <= typed
        BY UnreadTypes DEF IInv, Ordered, InputInv
      <4>4. \A j \in DOMAIN pending'[e] : ~(p < j)
        BY <3>2, <3>5
      <4> QED
        BY <1>2, <4>1, <4>2, <4>3, <4>4
    <3> QED
      BY <3>2, <3>4, <3>5
  <2> QED
    BY <2>1, <2>2
<1> QED
  BY <1>5, <1>6, <1>7, <1>8 DEF IInv, InputInv

(* The steps of getchar() between the polls move nothing. *)
LEMMA PlaceOK ==
  ASSUME IInv, pc' \in Devices \cup {"idle", "grab"},
         UNCHANGED <<pending, cons_buf, rpos, wpos, typed, ghosts>>
  PROVE  IInv'
BY DEF IInv, InputInv, InputTypeOK, WholeLaps, Ordered, Waits, Held, ghosts

(* A byte is taken from its device: what remains there is in order. *)
LEMMA TakenOK ==
  ASSUME IInv, NEW d \in Devices, pending[d] # <<>>,
         pending' = [pending EXCEPT ![d] = Tail(@)]
  PROVE  /\ pending' \in [Devices -> Seq(Chars \cup {NUL})]
         /\ \A e \in Devices : \A p \in DOMAIN pending'[e] :
              IF e = d THEN p + 1 \in DOMAIN pending[e] /\ pending'[e][p] = pending[e][p + 1]
              ELSE p \in DOMAIN pending[e] /\ pending'[e][p] = pending[e][p]
         /\ 1 \in DOMAIN pending[d] /\ Head(pending[d]) = pending[d][1]
         /\ \A e \in Devices : DOMAIN pending'[e] \subseteq Nat \ {0}
<1>1. pending \in [Devices -> Seq(Chars \cup {NUL})]
  BY DEF IInv, InputInv, InputTypeOK
<1>2. /\ Tail(pending[d]) \in Seq(Chars \cup {NUL})
      /\ DOMAIN Tail(pending[d]) = 1 .. Len(pending[d]) - 1
      /\ \A p \in 1 .. Len(pending[d]) - 1 : Tail(pending[d])[p] = pending[d][p + 1]
      /\ DOMAIN pending[d] = 1 .. Len(pending[d]) /\ Len(pending[d]) \in Nat \ {0}
  BY <1>1
<1>3. pending'[d] = Tail(pending[d]) /\ \A e \in Devices \ {d} : pending'[e] = pending[e]
  BY <1>1
<1>4. pending' \in [Devices -> Seq(Chars \cup {NUL})]
  BY <1>1, <1>2
<1>5. \A e \in Devices : \A p \in DOMAIN pending'[e] :
        IF e = d THEN p + 1 \in DOMAIN pending[e] /\ pending'[e][p] = pending[e][p + 1]
        ELSE p \in DOMAIN pending[e] /\ pending'[e][p] = pending[e][p]
  <2> SUFFICES ASSUME NEW e \in Devices, NEW p \in DOMAIN pending'[e]
               PROVE  IF e = d THEN p + 1 \in DOMAIN pending[e] /\ pending'[e][p] = pending[e][p + 1]
                      ELSE p \in DOMAIN pending[e] /\ pending'[e][p] = pending[e][p]
    OBVIOUS
  <2>1. CASE e = d
    <3>1. pending'[e] = Tail(pending[d])
      BY <2>1, <1>3
    <3>2. p \in 1 .. Len(pending[d]) - 1
      BY <3>1, <1>2
    <3>3. p + 1 \in 1 .. Len(pending[d])
      BY <3>2, <1>2
    <3> QED
      BY <2>1, <3>1, <3>2, <3>3, <1>2
  <2>2. CASE e # d
    BY <2>2, <1>3
  <2> QED
    BY <2>1, <2>2
<1>6. \A e \in Devices : DOMAIN pending'[e] \subseteq Nat \ {0}
  BY <1>4
<1> QED
  BY <1>1, <1>2, <1>4, <1>5, <1>6

LEMMA IntrOK ==
  ASSUME IInv, NEW d \in Devices, Intr(d) PROVE IInv'
<1> DEFINE c == Head(pending[d])
<1>1. /\ pending[d] # <<>> /\ pending' = [pending EXCEPT ![d] = Tail(@)]
      /\ UNCHANGED <<rpos, pc, typed, last>>
      /\ IF c = NUL
         THEN UNCHANGED <<cons_buf, wpos, unread>>
         ELSE /\ cons_buf' = [cons_buf EXCEPT ![wpos] = c] /\ wpos' = Step(wpos)
              /\ unread' = Append(unread, c)
  BY DEF Intr
<1>2. /\ pending' \in [Devices -> Seq(Chars \cup {NUL})]
      /\ \A e \in Devices : \A p \in DOMAIN pending'[e] :
           IF e = d THEN p + 1 \in DOMAIN pending[e] /\ pending'[e][p] = pending[e][p + 1]
           ELSE p \in DOMAIN pending[e] /\ pending'[e][p] = pending[e][p]
      /\ 1 \in DOMAIN pending[d] /\ c = pending[d][1]
      /\ \A e \in Devices : DOMAIN pending'[e] \subseteq Nat \ {0}
  BY <1>1, TakenOK
<1>3. InputTypeOK /\ WholeLaps /\ Ordered /\ Waits
  BY DEF IInv, InputInv
<1>4. \A e \in Devices : \A p \in DOMAIN pending[e] :
        Held(e, p) # NUL => Held(e, p) \in Chars /\ Held(e, p).n \in Int
  BY <1>3 DEF InputTypeOK, Chars, Held
<1> HIDE DEF c
(* What remains in the devices is as before. *)
<1>5. \A e \in Devices : \A p \in DOMAIN pending'[e] :
        pending'[e][p] # NUL =>
          /\ pending'[e][p].dev = e /\ pending'[e][p].n <= typed
          /\ last[e] < pending'[e][p].n
          /\ \A k \in DOMAIN unread : unread[k].dev = e => unread[k].n < pending'[e][p].n
          /\ \A j \in DOMAIN pending'[e] :
               p < j /\ pending'[e][j] # NUL => pending'[e][p].n < pending'[e][j].n
  <2> SUFFICES ASSUME NEW e \in Devices, NEW p \in DOMAIN pending'[e], pending'[e][p] # NUL
               PROVE  /\ pending'[e][p].dev = e /\ pending'[e][p].n <= typed
                      /\ last[e] < pending'[e][p].n
                      /\ \A k \in DOMAIN unread :
                           unread[k].dev = e => unread[k].n < pending'[e][p].n
                      /\ \A j \in DOMAIN pending'[e] :
                           p < j /\ pending'[e][j] # NUL => pending'[e][p].n < pending'[e][j].n
    OBVIOUS
  <2> DEFINE at(j) == IF e = d THEN j + 1 ELSE j
  <2>1. \A j \in DOMAIN pending'[e] :
          j \in Nat /\ at(j) \in DOMAIN pending[e] /\ pending'[e][j] = Held(e, at(j))
    BY <1>2 DEF Held
  <2>2. \A j \in DOMAIN pending'[e] : p < j => at(p) < at(j)
    BY <2>1
  <2> HIDE DEF at
  <2> QED
    BY <1>3, <2>1, <2>2 DEF Waits
<1>6. CASE c = NUL
  <2>1. UNCHANGED <<cons_buf, wpos, unread>>
    BY <1>1, <1>6
  <2>2. InputTypeOK'
    BY <1>1, <1>2, <1>3, <2>1 DEF InputTypeOK
  <2>3. WholeLaps'
    BY <1>1, <1>3, <2>1 DEF WholeLaps
  <2>4. Ordered'
    BY <1>1, <1>3, <2>1 DEF Ordered
  <2>5. Waits'
    BY <1>1, <1>5, <2>1 DEF Waits, Held
  <2> QED
    BY <2>2, <2>3, <2>4, <2>5 DEF IInv, InputInv
<1>7. CASE c # NUL
  <2> DEFINE L == Len(unread)
  <2>1. /\ cons_buf' = [cons_buf EXCEPT ![wpos] = c] /\ wpos' = Step(wpos) /\ unread' = Append(unread, c)
    BY <1>1, <1>7
  <2>2. /\ c \in Chars /\ c.dev = d /\ c.n \in Int /\ c.n <= typed /\ last[d] < c.n
        /\ \A k \in DOMAIN unread : unread[k].dev = d => unread[k].n < c.n
    BY <1>2, <1>3, <1>4, <1>7 DEF Waits, Held
  <2>3. /\ unread \in Seq(Chars) /\ DOMAIN unread = 1 .. L /\ L \in Nat
        /\ \A k \in DOMAIN unread : /\ unread[k] \in Chars /\ unread[k] # NUL
                                    /\ unread[k].n \in Int /\ unread[k].dev \in Devices
    BY <1>3, UnreadTypes
  <2>4. /\ unread' \in Seq(Chars) /\ Len(unread') = L + 1 /\ DOMAIN unread' = 1 .. L + 1
        /\ unread'[L + 1] = c /\ \A k \in 1 .. L : unread'[k] = unread[k]
    BY <2>1, <2>2, <2>3
  <2>5. rpos \in Slots /\ wpos \in Slots /\ cons_buf \in [Slots -> Chars \cup {NUL}]
    BY <1>3 DEF InputTypeOK
  <2> HIDE DEF L
  <2>6. wpos' \in Slots /\ cons_buf' \in [Slots -> Chars \cup {NUL}]
    BY <2>1, <2>2, <2>5, StepSlot, BufferAssumption
  <2>7. InputTypeOK'
    BY <1>1, <1>2, <1>3, <2>4, <2>6 DEF InputTypeOK
  <2>8. WholeLaps'
    <3>1. /\ CONSBUFSIZE \in Nat \ {0} /\ rpos \in Nat /\ rpos + L \in Nat
          /\ wpos = (rpos + L) % CONSBUFSIZE
      <4>1. CONSBUFSIZE \in Nat \ {0} /\ rpos \in Nat
        BY <2>5, BufferAssumption DEF Slots
      <4>2. wpos = (rpos + L) % CONSBUFSIZE
        BY <1>3 DEF WholeLaps, L
      <4> QED
        BY <2>3, <4>1, <4>2
    <3>2. wpos' = (rpos' + Len(unread')) % CONSBUFSIZE
      <4>1. (rpos + L + 1) % CONSBUFSIZE = IF wpos + 1 = CONSBUFSIZE THEN 0 ELSE wpos + 1
        BY <3>1, NextSlot
      <4>2. rpos' = rpos /\ rpos + L + 1 = rpos + (L + 1)
        BY <1>1, <2>3, <3>1
      <4> QED
        BY <2>1, <2>4, <4>1, <4>2 DEF Step
    <3>3. ASSUME NEW k \in 1 .. L + 1, k > L + 1 - CONSBUFSIZE
          PROVE  cons_buf'[(rpos + k - 1) % CONSBUFSIZE] = unread'[k]
      <4>1. CASE k = L + 1
        <5>1. rpos + k - 1 = rpos + L
          BY <4>1, <2>3, <3>1
        <5> QED
          BY <4>1, <5>1, <2>1, <2>4, <2>5, <3>1
      <4>2. CASE k \in 1 .. L
        <5>1. /\ rpos + k - 1 \in Nat /\ rpos + k - 1 < rpos + L
              /\ rpos + L < rpos + k - 1 + CONSBUFSIZE /\ k > L - CONSBUFSIZE
          BY <4>2, <3>1, <3>3, <2>3
        <5>2. (rpos + k - 1) % CONSBUFSIZE # wpos
          BY <5>1, <3>1, ModDiffer
        <5>3. (rpos + k - 1) % CONSBUFSIZE \in Slots
          BY <5>1, <3>1, ModSplit DEF Slots
        <5>4. cons_buf[(rpos + k - 1) % CONSBUFSIZE] = unread[k]
          BY <4>2, <5>1, <1>3 DEF WholeLaps, L
        <5> QED
          BY <4>2, <5>2, <5>3, <5>4, <2>1, <2>4, <2>5
      <4> QED
        BY <4>1, <4>2, <2>3
    <3>4. \A k \in 1 .. Len(unread') :
            k > Len(unread') - CONSBUFSIZE => cons_buf'[(rpos' + k - 1) % CONSBUFSIZE] = unread'[k]
      <4>1. rpos' = rpos
        BY <1>1
      <4> SUFFICES ASSUME NEW k \in 1 .. Len(unread'), k > Len(unread') - CONSBUFSIZE
                   PROVE  cons_buf'[(rpos' + k - 1) % CONSBUFSIZE] = unread'[k]
        OBVIOUS
      <4>2. k \in 1 .. L + 1 /\ k > L + 1 - CONSBUFSIZE
        BY <2>3, <2>4, <3>1
      <4> QED
        BY <4>1, <4>2, <3>3
    <3> QED
      BY <3>2, <3>4 DEF WholeLaps
  <2>9. Ordered'
    <3>1. \A p, j \in 1 .. L + 1 :
            p < j /\ unread'[p].dev = unread'[j].dev => unread'[p].n < unread'[j].n
      <4> SUFFICES ASSUME NEW p \in 1 .. L + 1, NEW j \in 1 .. L + 1, p < j,
                          unread'[p].dev = unread'[j].dev
                   PROVE  unread'[p].n < unread'[j].n
        OBVIOUS
      <4>1. p \in 1 .. L /\ unread'[p] = unread[p]
        BY <2>3, <2>4
      <4>2. CASE j \in 1 .. L
        BY <4>1, <4>2, <1>3, <2>3, <2>4 DEF Ordered
      <4>3. CASE j = L + 1
        BY <4>1, <4>3, <2>2, <2>3, <2>4
      <4> QED
        BY <4>2, <4>3, <2>3
    <3>2. \A p \in 1 .. L + 1 : last[unread'[p].dev] < unread'[p].n /\ unread'[p].n <= typed
      BY <1>3, <2>2, <2>3, <2>4 DEF Ordered
    <3> QED
      BY <1>1, <1>3, <2>4, <3>1, <3>2 DEF Ordered
  <2>10. Waits'
    <3> SUFFICES ASSUME NEW e \in Devices, NEW p \in DOMAIN pending'[e], pending'[e][p] # NUL,
                        NEW k \in 1 .. L + 1, unread'[k].dev = e
                 PROVE  unread'[k].n < pending'[e][p].n
      BY <1>1, <1>5, <2>4 DEF Waits, Held
    <3>1. CASE k \in 1 .. L
      BY <3>1, <1>5, <2>3, <2>4
    <3>2. CASE k = L + 1
      <4>1. /\ e = d /\ p + 1 \in DOMAIN pending[d] /\ pending'[d][p] = Held(d, p + 1)
            /\ 1 \in DOMAIN pending[d] /\ Held(d, 1) = c /\ 1 < p + 1
        BY <3>2, <1>2, <2>2, <2>4 DEF Held
      <4> QED
        BY <3>2, <4>1, <1>3, <1>7, <2>4 DEF Waits
    <3> QED
      BY <3>1, <3>2, <2>3
  <2> QED
    BY <2>7, <2>8, <2>9, <2>10 DEF IInv, InputInv
<1> QED
  BY <1>6, <1>7

(* The character that comes out is the oldest that is still in the buffer:  *)
(* whole laps before it are passed, and only characters older than it.      *)
LEMMA Oldest ==
  ASSUME IInv, Grab
  PROVE  LET q == (Len(unread) - 1) \div CONSBUFSIZE
             k == CONSBUFSIZE * q + 1
         IN  /\ q \in Nat /\ k \in DOMAIN unread /\ k > Len(unread) - CONSBUFSIZE
             /\ cons_buf[rpos] = unread[k]
             /\ unread' = SubSeq(unread, 1 + k, Len(unread))
<1> DEFINE L == Len(unread)
           q == (L - 1) \div CONSBUFSIZE
           k == CONSBUFSIZE * q + 1
<1>1. InputTypeOK /\ WholeLaps /\ Ordered /\ rpos # wpos
  BY DEF IInv, InputInv, Grab
<1>2. /\ unread \in Seq(Chars) /\ DOMAIN unread = 1 .. L /\ L \in Nat
      /\ \A p \in DOMAIN unread : unread[p] \in Chars
  BY <1>1, UnreadTypes
<1>3. /\ CONSBUFSIZE \in Nat \ {0} /\ rpos \in 0 .. CONSBUFSIZE - 1
  BY <1>1, BufferAssumption DEF InputTypeOK, Slots
<1>4. rpos % CONSBUFSIZE = rpos
  <2>1. (CONSBUFSIZE * 0 + rpos) % CONSBUFSIZE = rpos
    BY <1>3, ModUnique
  <2> QED
    BY <1>3, <2>1
<1>5. L # 0
  BY <1>1, <1>3, <1>4 DEF WholeLaps, L
<1> HIDE DEF L
<1>6. L - 1 \in Nat
  BY <1>2, <1>5
<1>7. /\ (L - 1) % CONSBUFSIZE \in 0 .. CONSBUFSIZE - 1 /\ q \in Nat
      /\ L - 1 = CONSBUFSIZE * q + ((L - 1) % CONSBUFSIZE)
  BY <1>3, <1>6, ModSplit
<1>8. CONSBUFSIZE * q \in Nat
  <2> HIDE DEF q
  <2> QED
    BY <1>3, <1>7
<1> HIDE DEF q
<1>9. k \in 1 .. L /\ k > L - CONSBUFSIZE /\ rpos + k - 1 = rpos + CONSBUFSIZE * q
  BY <1>2, <1>3, <1>6, <1>7, <1>8
<1>10. cons_buf[rpos] = unread[k]
  <2>1. (rpos + CONSBUFSIZE * q) % CONSBUFSIZE = rpos
    <3>1. rpos \in Nat
      BY <1>3
    <3>2. (rpos + CONSBUFSIZE * q) % CONSBUFSIZE = rpos % CONSBUFSIZE
      BY <3>1, <1>3, <1>7, ModLaps
    <3> QED
      BY <3>2, <1>4
  <2>2. cons_buf[(rpos + k - 1) % CONSBUFSIZE] = unread[k]
    BY <1>1, <1>9 DEF WholeLaps, L
  <2> QED
    BY <1>9, <2>1, <2>2
<1> HIDE DEF k
<1>11. (CHOOSE p \in 1 .. Len(unread) : unread[p] = cons_buf[rpos]) = k
  <2>1. \A p \in 1 .. L : unread[p] = cons_buf[rpos] => p = k
    BY <1>1, <1>2, <1>9, <1>10, UnreadDiffer
  <2> QED
    BY <1>9, <1>10, <2>1 DEF L
<1>12. unread' = SubSeq(unread, 1 + k, Len(unread))
  BY <1>11 DEF Grab
<1> QED
  BY <1>2, <1>7, <1>9, <1>10, <1>12 DEF k, q, L

LEMMA GrabOK ==
  ASSUME IInv, Grab
  PROVE  /\ IInv'
         /\ \E d \in Devices :
              last'[d] > last[d] /\ \A e \in Devices \ {d} : last'[e] = last[e]
<1> DEFINE L == Len(unread)
           q == (L - 1) \div CONSBUFSIZE
           k == CONSBUFSIZE * q + 1
           b == L - k
           c == unread[k]
<1>1. InputTypeOK /\ WholeLaps /\ Ordered /\ Waits
  BY DEF IInv, InputInv
<1>2. /\ unread \in Seq(Chars) /\ DOMAIN unread = 1 .. L /\ L \in Nat
      /\ \A p \in DOMAIN unread : /\ unread[p] \in Chars /\ unread[p].n \in Int
                                  /\ unread[p].dev \in Devices
  BY <1>1, UnreadTypes
<1>3. /\ q \in Nat /\ k \in 1 .. L /\ k > L - CONSBUFSIZE
      /\ cons_buf[rpos] = c /\ unread' = SubSeq(unread, k + 1, L)
  BY <1>2, Oldest
<1>4. /\ last' = [d \in Devices |-> IF d = c.dev THEN c.n ELSE last[d]]
      /\ rpos' = Step(rpos) /\ pc' = "idle"
      /\ UNCHANGED <<pending, cons_buf, wpos, typed>>
  BY <1>3 DEF Grab
<1>5. CONSBUFSIZE \in Nat \ {0} /\ rpos \in Slots /\ rpos \in Nat /\ wpos = (rpos + L) % CONSBUFSIZE
  BY <1>1, BufferAssumption DEF InputTypeOK, Slots, WholeLaps
<1> HIDE DEF L, q, c
<1>6. CONSBUFSIZE * q \in Nat
  BY <1>3, <1>5
<1>7. k - 1 = CONSBUFSIZE * q /\ k \in Nat
  BY <1>6
<1> HIDE DEF k
<1>8. b \in Nat /\ b + k = L
  BY <1>2, <1>3
<1> HIDE DEF b
<1>9. /\ unread' \in Seq(Chars) /\ Len(unread') = b /\ DOMAIN unread' = 1 .. b
      /\ \A j \in 1 .. b : unread'[j] = unread[j + k] /\ j + k \in 1 .. L
  <2>1. L - (k + 1) + 1 = b
    BY <1>2, <1>7, <1>8
  <2>2. k + 1 \in 1 .. L + 1 /\ L \in k .. L
    BY <1>2, <1>3
  <2>3. unread' \in Seq(Chars) /\ Len(unread') = (IF k + 1 <= L THEN L - (k + 1) + 1 ELSE 0)
    BY <1>2, <1>3, <2>2, SubSeqProperties DEF L
  <2>4. Len(unread') = b
    BY <1>2, <1>7, <1>8, <2>1, <2>2, <2>3
  <2>5. \A j \in 1 .. b : j + k \in 1 .. L
    BY <1>2, <1>7, <1>8
  <2>6. \A j \in 1 .. b : unread'[j] = unread[j + k]
    BY <1>2, <1>3, <1>7, <1>8, <2>2, SubSeqProperties DEF L
  <2> QED
    BY <2>3, <2>4, <2>5, <2>6
<1>10. c \in Chars /\ c.n \in Int /\ c.dev \in Devices /\ c.n <= typed /\ last[c.dev] < c.n
  BY <1>1, <1>2, <1>3 DEF c, Ordered
<1>11. last \in [Devices -> 0 .. MaxTyped] /\ c.n \in 0 .. MaxTyped
  BY <1>1, <1>10 DEF InputTypeOK, Chars
<1>12. InputTypeOK'
  <2>1. last' \in [Devices -> 0 .. MaxTyped]
    BY <1>4, <1>11
  <2>2. rpos' \in Slots
    BY <1>4, <1>5, StepSlot
  <2> QED
    BY <1>1, <1>4, <1>9, <2>1, <2>2 DEF InputTypeOK
<1>13. WholeLaps'
  <2>1. wpos' = (rpos' + Len(unread')) % CONSBUFSIZE
    <3>1. (rpos' + b) % CONSBUFSIZE = (rpos + 1 + b) % CONSBUFSIZE
      BY <1>4, <1>5, <1>8, StepSlot
    <3>2. (rpos + 1 + b + CONSBUFSIZE * q) % CONSBUFSIZE = (rpos + 1 + b) % CONSBUFSIZE
      <4>1. rpos + 1 + b \in Nat
        BY <1>5, <1>8
      <4> QED
        BY <4>1, <1>3, <1>5, ModLaps
    <3>3. rpos + 1 + b + CONSBUFSIZE * q = rpos + L
      BY <1>5, <1>6, <1>7, <1>8
    <3> QED
      BY <1>4, <1>5, <1>9, <3>1, <3>2, <3>3
  <2>2. ASSUME NEW j \in 1 .. b, j > b - CONSBUFSIZE
        PROVE  cons_buf[(rpos' + j - 1) % CONSBUFSIZE] = unread'[j]
    <3>1. (rpos' + (j - 1)) % CONSBUFSIZE = (rpos + 1 + (j - 1)) % CONSBUFSIZE
      BY <1>4, <1>5, StepSlot
    <3>2. rpos + 1 + (j - 1) \in Nat /\ rpos' + (j - 1) = rpos' + j - 1
      BY <1>5, <1>12 DEF InputTypeOK, Slots
    <3>3. (rpos + 1 + (j - 1) + CONSBUFSIZE * q) % CONSBUFSIZE = (rpos + 1 + (j - 1)) % CONSBUFSIZE
      BY <1>3, <1>5, <3>2, ModLaps
    <3>4. rpos + 1 + (j - 1) + CONSBUFSIZE * q = rpos + (j + k) - 1
      BY <1>5, <1>6, <1>7
    <3>5. j + k \in 1 .. L /\ j + k > L - CONSBUFSIZE /\ unread'[j] = unread[j + k]
      BY <1>2, <1>5, <1>8, <1>9, <2>2, <1>7
    <3>6. cons_buf[(rpos + (j + k) - 1) % CONSBUFSIZE] = unread[j + k]
      BY <1>1, <3>5 DEF WholeLaps, L
    <3> QED
      BY <3>1, <3>2, <3>3, <3>4, <3>5, <3>6
  <2>3. \A j \in 1 .. Len(unread') :
          j > Len(unread') - CONSBUFSIZE => cons_buf'[(rpos' + j - 1) % CONSBUFSIZE] = unread'[j]
    BY <1>4, <1>9, <2>2
  <2> QED
    BY <2>1, <2>3 DEF WholeLaps
(* What is left is newer than the character that came out. *)
<1>14. \A j \in 1 .. b : unread'[j].dev = c.dev => c.n < unread'[j].n
  <2> SUFFICES ASSUME NEW j \in 1 .. b, unread'[j].dev = c.dev PROVE c.n < unread'[j].n
    OBVIOUS
  <2>1. j + k \in 1 .. L /\ k < j + k /\ unread'[j] = unread[j + k]
    BY <1>7, <1>9
  <2> QED
    BY <2>1, <1>1, <1>2, <1>3 DEF Ordered, c
<1>15. Ordered'
  <2>1. \A p, j \in 1 .. b :
          p < j /\ unread'[p].dev = unread'[j].dev => unread'[p].n < unread'[j].n
    <3> SUFFICES ASSUME NEW p \in 1 .. b, NEW j \in 1 .. b, p < j,
                        unread'[p].dev = unread'[j].dev
                 PROVE  unread'[p].n < unread'[j].n
      OBVIOUS
    <3>1. p + k \in 1 .. L /\ j + k \in 1 .. L /\ p + k < j + k
      BY <1>7, <1>9
    <3> QED
      BY <3>1, <1>1, <1>2, <1>9 DEF Ordered
  <2>2. \A p \in 1 .. b : last'[unread'[p].dev] < unread'[p].n /\ unread'[p].n <= typed
    BY <1>1, <1>2, <1>4, <1>9, <1>14 DEF Ordered
  <2>3. \A d \in Devices : last'[d] <= typed
    BY <1>1, <1>4, <1>10 DEF Ordered
  <2> QED
    BY <1>4, <1>9, <2>1, <2>2, <2>3 DEF Ordered
<1>16. Waits'
  <2>1. \A d \in Devices : \A p \in DOMAIN pending[d] :
          Held(d, p) # NUL =>
            /\ last'[d] < Held(d, p).n
            /\ \A j \in 1 .. b : unread'[j].dev = d => unread'[j].n < Held(d, p).n
    <3> SUFFICES ASSUME NEW d \in Devices, NEW p \in DOMAIN pending[d], Held(d, p) # NUL
                 PROVE  /\ last'[d] < Held(d, p).n
                        /\ \A j \in 1 .. b : unread'[j].dev = d => unread'[j].n < Held(d, p).n
      OBVIOUS
    <3>1. /\ last[d] < Held(d, p).n
          /\ \A j \in 1 .. L : unread[j].dev = d => unread[j].n < Held(d, p).n
      BY <1>1, <1>2 DEF Waits
    <3>2. c.dev = d => c.n < Held(d, p).n
      BY <3>1, <1>3 DEF c
    <3>3. last'[d] = IF d = c.dev THEN c.n ELSE last[d]
      BY <1>4
    <3> QED
      BY <3>1, <3>2, <3>3, <1>9
  <2> QED
    BY <1>1, <1>4, <1>9, <2>1 DEF Waits, Held
<1>17. \E d \in Devices : last'[d] > last[d] /\ \A e \in Devices \ {d} : last'[e] = last[e]
  <2>1. last'[c.dev] > last[c.dev] /\ \A e \in Devices \ {c.dev} : last'[e] = last[e]
    BY <1>4, <1>10, <1>11
  <2> QED
    BY <1>10, <2>1
<1> QED
  BY <1>12, <1>13, <1>15, <1>16, <1>17 DEF IInv, InputInv

-----------------------------------------------------------------------------
(* Every step preserves IInv. *)
LEMMA NextOK ==
  ASSUME IInv, [InputNext]_inputVars PROVE IInv'
<1>1. ASSUME NEW d \in Devices, Arrive(d) PROVE IInv'
  BY <1>1, ArriveOK
<1>2. ASSUME NEW d \in Devices, Intr(d) PROVE IInv'
  BY <1>2, IntrOK
<1>3. ASSUME NEW d \in Devices, IntrEnd(d) PROVE IInv'
  BY <1>3, PlaceOK DEF IntrEnd, Devices
<1>4. CASE Getc
  BY <1>4, PlaceOK DEF Getc, Devices
<1>5. CASE GrabNone
  BY <1>5, PlaceOK DEF GrabNone, Devices
<1>6. CASE Grab
  BY <1>6, GrabOK
<1>7. CASE UNCHANGED inputVars
  <2>1. pc' \in Devices \cup {"idle", "grab"}
    BY <1>7 DEF inputVars, kernel, IInv, InputInv, InputTypeOK
  <2> QED
    BY <1>7, <2>1, PlaceOK DEF inputVars, kernel, ghosts
<1> QED
  BY <1>1, <1>2, <1>3, <1>4, <1>5, <1>6, <1>7 DEF InputNext, Poll

(* The inductive invariant: InputInv, and that the characters of a device   *)
(* are in order from the last one returned to the one that arrives.        *)
THEOREM InputInvariance == InputSpec => []IInv
<1>1. InputInit => IInv
  BY InitOK
<1>2. IInv /\ [InputNext]_inputVars => IInv'
  BY NextOK
<1> QED
  BY <1>1, <1>2, PTL DEF InputSpec

(* cons.buf holds the newest unread characters one behind the other, and   *)
(* what an overflow loses is whole laps, for every size of the buffer.     *)
THEOREM InputInvAlways == InputSpec => []InputInv
<1>1. IInv => InputInv
  BY DEF IInv
<1> QED
  BY <1>1, InputInvariance, PTL

(* getchar() returns the characters of each device in the order in which   *)
(* they arrived and none twice, also when the buffer overflows.            *)
THEOREM InOrderAlways == InputSpec => InOrder
<1> DEFINE Returned == pc = "grab" /\ pc' = "idle"
           Newer    == \E d \in Devices :
                         last'[d] > last[d] /\ \A e \in Devices \ {d} : last'[e] = last[e]
           Ordering == IF Returned THEN Newer ELSE last' = last
<1>1. IInv /\ [InputNext]_inputVars => [Ordering]_inputVars
  <2> SUFFICES ASSUME IInv, InputNext PROVE Ordering
    OBVIOUS
  <2>1. CASE Grab
    <3>1. Returned
      BY <2>1 DEF Grab
    <3> QED
      BY <2>1, <3>1, GrabOK
  <2>2. CASE Getc \/ GrabNone
    BY <2>2 DEF Getc, GrabNone, ghosts
  <2>3. ASSUME NEW d \in Devices, Arrive(d) PROVE last' = last /\ pc' = pc
    BY <2>3 DEF Arrive, kernel, ghosts
  <2>4. ASSUME NEW d \in Devices, Poll(d) PROVE last' = last /\ ~Returned
    BY <2>4 DEF Poll, Intr, IntrEnd, ghosts, Devices
  <2> QED
    BY <2>1, <2>2, <2>3, <2>4 DEF InputNext
<1> QED
  BY <1>1, InputInvariance, PTL DEF InputSpec, InOrder

-----------------------------------------------------------------------------
(* Keyboard. *)

AllKeys == {"LCtrl", "RCtrl", "LShift", "RShift", "LAlt", "RAlt", "Caps", "A", "Del", "KpDel"}
Byte    == [kind : {"E0", "make", "break"}, key : Keys]

(* Every prefix on the wire is followed by a code of its key, and every     *)
(* code that needs a prefix comes behind it; the first has its prefix read. *)
WireFormed ==
  /\ \A p \in DOMAIN wire : wire[p].kind = "E0" =>
       /\ Prefixed(wire[p].key) /\ p + 1 \in DOMAIN wire
       /\ wire[p + 1].key = wire[p].key /\ wire[p + 1].kind # "E0"
  /\ \A p \in DOMAIN wire : wire[p].kind # "E0" /\ Prefixed(wire[p].key) =>
       IF p = 1 THEN "E0ESC" \in shift ELSE wire[p - 1].kind = "E0"

KbdInv == KeyInv /\ WireFormed

(* The keys of each flag, and all keys that have one.                      *)
LEMMA KeysOfEach ==
  /\ KeysOf("CTL") = {"LCtrl", "RCtrl"}
  /\ KeysOf("SHIFT") = {"LShift", "RShift"}
  /\ KeysOf("ALT") = {"LAlt", "RAlt"}
  BY DEF KeysOf

LEMMA KeysKnown == Keys \subseteq AllKeys
  <1>1. UNION {KeysOf(m) : m \in Modifiers} \subseteq AllKeys
    BY KeysOfEach DEF AllKeys, Modifiers
  <1> QED BY <1>1, KeysAssumption DEF AllKeys

(* What a well-formed wire begins with: a prefix before its code, or a code  *)
(* whose prefix, if it needs one, was the last byte read.                  *)
LEMMA HeadFormed ==
  ASSUME KbdInv, wire # <<>>
  PROVE  /\ wire \in Seq(Byte) /\ Len(wire) \in Nat \ {0} /\ Head(wire) \in Byte
         /\ Tail(wire) \in Seq(Byte) /\ Len(Tail(wire)) = Len(wire) - 1
         /\ \A p \in 1 .. Len(wire) - 1 : Tail(wire)[p] = wire[p + 1]
         /\ Head(wire) = wire[1]
         /\ Head(wire).kind # "E0" =>
              (Prefixed(Head(wire).key) <=> "E0ESC" \in shift)
  <1>1. wire \in Seq(Byte)
    BY DEF KbdInv, KeyInv, KeyTypeOK, Byte
  <1>2. /\ Len(wire) \in Nat \ {0} /\ Head(wire) \in Byte /\ Head(wire) = wire[1]
        /\ Tail(wire) \in Seq(Byte) /\ Len(Tail(wire)) = Len(wire) - 1
        /\ \A p \in 1 .. Len(wire) - 1 : Tail(wire)[p] = wire[p + 1]
        /\ 1 \in DOMAIN wire
    BY <1>1
  <1>3. Head(wire).kind # "E0" => (Prefixed(Head(wire).key) <=> "E0ESC" \in shift)
    BY <1>2 DEF KbdInv, WireFormed, KeyInv, PrefixPending
  <1> QED BY <1>1, <1>2, <1>3

(* The ends of a sequence and of two in a row.                             *)
LEMMA Concatenated ==
  ASSUME NEW S, NEW s \in Seq(S), NEW t \in Seq(S)
  PROVE  /\ s \o t \in Seq(S) /\ Len(s \o t) = Len(s) + Len(t)
         /\ DOMAIN (s \o t) = 1 .. Len(s) + Len(t)
         /\ \A p \in 1 .. Len(s) : (s \o t)[p] = s[p]
         /\ \A p \in 1 .. Len(t) : (s \o t)[Len(s) + p] = t[p]
  OBVIOUS

LEMMA FirstIsHead ==
  ASSUME NEW S, NEW seq \in Seq(S), Len(seq) > 0
  PROVE  seq # <<>> /\ Head(seq) = seq[1]
  OBVIOUS

(* The rest of a well-formed wire is well formed, when the flag says whether *)
(* a prefix was read.                                                      *)
LEMMA TailFormed ==
  ASSUME KbdInv, wire # <<>>, wire' = Tail(wire),
         "E0ESC" \in shift' <=> Head(wire).kind = "E0"
  PROVE  WireFormed' /\ PrefixPending'
  <1>1. /\ wire \in Seq(Byte) /\ Len(wire) \in Nat \ {0} /\ wire' \in Seq(Byte)
        /\ Len(wire') = Len(wire) - 1 /\ Head(wire) = wire[1]
        /\ \A p \in 1 .. Len(wire) - 1 : wire'[p] = wire[p + 1]
    BY HeadFormed
  <1>2. DOMAIN wire = 1 .. Len(wire) /\ DOMAIN wire' = 1 .. Len(wire) - 1
    BY <1>1
  <1>3. ASSUME NEW p \in DOMAIN wire', wire'[p].kind = "E0"
        PROVE  /\ Prefixed(wire'[p].key) /\ p + 1 \in DOMAIN wire'
               /\ wire'[p + 1].key = wire'[p].key /\ wire'[p + 1].kind # "E0"
    <2>1. p + 1 \in DOMAIN wire /\ wire[p + 1] = wire'[p]
      BY <1>1, <1>2
    <2>2. /\ Prefixed(wire[p + 1].key) /\ p + 1 + 1 \in DOMAIN wire
          /\ wire[p + 1 + 1].key = wire[p + 1].key /\ wire[p + 1 + 1].kind # "E0"
      BY <1>3, <2>1 DEF KbdInv, WireFormed
    <2>3. p + 1 \in DOMAIN wire' /\ wire'[p + 1] = wire[p + 1 + 1]
      BY <1>1, <1>2, <2>2
    <2> QED BY <2>1, <2>2, <2>3
  <1>4. ASSUME NEW p \in DOMAIN wire', wire'[p].kind # "E0", Prefixed(wire'[p].key)
        PROVE  IF p = 1 THEN "E0ESC" \in shift' ELSE wire'[p - 1].kind = "E0"
    <2>1. p + 1 \in DOMAIN wire /\ wire[p + 1] = wire'[p] /\ p + 1 # 1 /\ p + 1 - 1 = p
      BY <1>1, <1>2
    <2>2. wire[p].kind = "E0"
      BY <1>4, <2>1 DEF KbdInv, WireFormed
    <2>3. CASE p = 1
      BY <1>1, <2>2, <2>3
    <2>4. CASE p # 1
      <3>1. p - 1 \in 1 .. Len(wire) - 1 /\ wire'[p - 1] = wire[p - 1 + 1] /\ p - 1 + 1 = p
        BY <1>1, <1>2, <2>4
      <3> QED BY <2>2, <2>4, <3>1
    <2> QED BY <2>3, <2>4
  <1>5. PrefixPending'
    <2> SUFFICES ASSUME "E0ESC" \in shift'
                 PROVE  wire' # <<>> /\ Prefixed(Head(wire').key) /\ Head(wire').kind # "E0"
      BY DEF PrefixPending
    <2>1. 1 \in DOMAIN wire /\ wire[1].kind = "E0"
      BY <1>1, <1>2
    <2>2. /\ Prefixed(wire[1].key) /\ 1 + 1 \in DOMAIN wire
          /\ wire[1 + 1].key = wire[1].key /\ wire[1 + 1].kind # "E0"
      BY <2>1 DEF KbdInv, WireFormed
    <2>3. Len(wire') > 0 /\ wire'[1] = wire[1 + 1]
      BY <1>1, <1>2, <2>2
    <2>4. wire' # <<>> /\ Head(wire') = wire'[1]
      BY <1>1, <2>3, FirstIsHead
    <2> QED BY <2>2, <2>3, <2>4
  <1>6. WireFormed'
    BY <1>3, <1>4 DEF WireFormed
  <1> QED BY <1>5, <1>6

(* The tables: which keys set which flag, and which key is the delete that  *)
(* the chord needs.                                                        *)
LEMMA Tables ==
  ASSUME NEW key \in AllKeys, NEW ext \in BOOLEAN, ext <=> Prefixed(key)
  PROVE  /\ shiftcode(Code(key), ext) \subseteq Modifiers
         /\ \A m \in Modifiers : key \in KeysOf(m) <=> m \in shiftcode(Code(key), ext)
         /\ togglecode(Code(key), ext) \subseteq {"CAPSLOCK"}
  <1>1. CASE key \in {"LCtrl", "RCtrl"}
    <2>1. shiftcode(Code(key), ext) = {"CTL"}
      BY <1>1 DEF shiftcode, Code
    <2> QED BY <1>1, <2>1, KeysOfEach DEF Modifiers, togglecode, Code
  <1>2. CASE key \in {"LAlt", "RAlt"}
    <2>1. shiftcode(Code(key), ext) = {"ALT"}
      BY <1>2 DEF shiftcode, Code
    <2> QED BY <1>2, <2>1, KeysOfEach DEF Modifiers, togglecode, Code
  <1>3. CASE key \in {"LShift", "RShift"}
    <2>1. shiftcode(Code(key), ext) = {"SHIFT"}
      BY <1>3 DEF shiftcode, Code, Prefixed
    <2> QED BY <1>3, <2>1, KeysOfEach DEF Modifiers, togglecode, Code
  <1>4. CASE key \in {"Caps", "A", "Del", "KpDel"}
    <2>1. shiftcode(Code(key), ext) = {}
      BY <1>4 DEF shiftcode, Code
    <2> QED BY <1>4, <2>1, KeysOfEach DEF Modifiers, togglecode, Code
  <1> QED BY <1>1, <1>2, <1>3, <1>4 DEF AllKeys

LEMMA CharTable ==
  ASSUME NEW key \in AllKeys, NEW ext \in BOOLEAN, ext <=> Prefixed(key), NEW flags
  PROVE  /\ charcode(flags, Code(key), ext) \in {"NO", "a", "A", "^A", ".", "KEY_DEL"}
         /\ charcode(flags, Code(key), ext) = "KEY_DEL" => key = "Del"
  BY DEF AllKeys, charcode, Code, Prefixed

(* A byte read, other than a prefix, has the prefix the driver holds.      *)
LEMMA CodeRead ==
  ASSUME KbdInv, Read, Head(wire).kind # "E0", NEW key, key = Head(wire).key
  PROVE  key \in Keys /\ key \in AllKeys /\ ("E0ESC" \in shift <=> Prefixed(key))
  <1>1. wire # <<>>
    BY DEF Read
  <1>2. Head(wire) \in Byte /\ (Prefixed(Head(wire).key) <=> "E0ESC" \in shift)
    BY <1>1, HeadFormed
  <1>3. key \in Keys /\ key \in AllKeys
    BY <1>2, KeysKnown DEF Byte
  <1> QED BY <1>2, <1>3

(* The wire after a byte is taken from it. *)
LEMMA ReadType ==
  ASSUME KbdInv, Read
  PROVE  /\ wire' \in Seq(Byte) /\ Len(wire') <= WireLen
         /\ held' \subseteq Keys /\ wire # <<>> /\ wire' = Tail(wire)
  <1>1. wire # <<>> /\ wire' = Tail(wire) /\ held' = held
    BY DEF Read
  <1>2. wire' \in Seq(Byte) /\ Len(wire') = Len(wire) - 1 /\ Len(wire) \in Nat
    BY <1>1, HeadFormed
  <1>3. Len(wire) <= WireLen /\ held \subseteq Keys
    BY DEF KbdInv, KeyInv, KeyTypeOK
  <1> QED BY <1>1, <1>2, <1>3, KeysAssumption

LEMMA KeyInitOK == KeyInit => KbdInv
  <1> SUFFICES ASSUME KeyInit PROVE KbdInv
    OBVIOUS
  <1>1. KeyTypeOK
    <2>1. wire = <<>> /\ Len(<<>>) = 0
      BY DEF KeyInit
    <2>2. wire \in Seq([kind : {"E0", "make", "break"}, key : Keys]) /\ Len(wire) <= WireLen
      BY <2>1, KeysAssumption
    <2> QED BY <2>2 DEF KeyInit, KeyTypeOK
  <1>2. NoStuckModifier /\ PrefixPending
    BY DEF KeyInit, NoStuckModifier, PrefixPending
  <1>3. WireFormed
    BY DEF KeyInit, WireFormed
  <1> QED BY <1>1, <1>2, <1>3 DEF KbdInv, KeyInv

(* What a key sends goes to the end of the wire as it is.                  *)
LEMMA SendOK ==
  ASSUME KbdInv, NEW k \in Keys, NEW break \in BOOLEAN,
         Len(wire \o Bytes(k, break)) <= WireLen, wire' = wire \o Bytes(k, break),
         held' \subseteq Keys, UNCHANGED <<shift, kbd_c, rebooted, down>>
  PROVE  KbdInv'
  <1> DEFINE L  == Len(wire)
             b  == Bytes(k, break)
             e0 == [kind |-> "E0", key |-> k]
             co == [kind |-> IF break THEN "break" ELSE "make", key |-> k]
  <1>1. wire \in Seq(Byte) /\ L \in Nat /\ DOMAIN wire = 1 .. L
    BY DEF KbdInv, KeyInv, KeyTypeOK, Byte
  <1>2. e0 \in Byte /\ co \in Byte /\ co.kind # "E0" /\ co.key = k /\ e0.key = k
    BY DEF Byte
  <1>3. b = (IF Prefixed(k) THEN <<e0>> ELSE <<>>) \o <<co>>
    BY DEF Bytes
  <1> HIDE DEF e0, co, b
  <1>4. /\ b \in Seq(Byte) /\ Len(b) = (IF Prefixed(k) THEN 2 ELSE 1)
        /\ Prefixed(k) => b[1] = e0 /\ b[2] = co
        /\ ~Prefixed(k) => b[1] = co
    BY <1>2, <1>3
  <1>5. /\ wire' \in Seq(Byte) /\ Len(wire') = L + Len(b)
        /\ DOMAIN wire' = 1 .. L + Len(b)
        /\ \A p \in 1 .. L : wire'[p] = wire[p]
        /\ \A p \in 1 .. Len(b) : wire'[L + p] = b[p]
    <2>1. wire' = wire \o b
      BY DEF b
    <2>2. wire \in Seq(Byte) /\ b \in Seq(Byte)
      BY <1>1, <1>4
    <2>3. /\ wire \o b \in Seq(Byte) /\ Len(wire \o b) = L + Len(b)
          /\ DOMAIN (wire \o b) = 1 .. L + Len(b)
          /\ \A p \in 1 .. L : (wire \o b)[p] = wire[p]
          /\ \A p \in 1 .. Len(b) : (wire \o b)[L + p] = b[p]
      BY <2>2, Concatenated
    <2> QED BY <2>1, <2>3
  <1>6. KeyTypeOK'
    BY <1>5 DEF b, KbdInv, KeyInv, KeyTypeOK, Byte
  <1>7. NoStuckModifier'
    BY DEF KbdInv, KeyInv, NoStuckModifier
  <1>8. PrefixPending'
    <2> SUFFICES ASSUME "E0ESC" \in shift
                 PROVE  wire' # <<>> /\ Prefixed(Head(wire').key) /\ Head(wire').kind # "E0"
      BY DEF PrefixPending
    <2>1. wire # <<>> /\ Prefixed(Head(wire).key) /\ Head(wire).kind # "E0"
      BY DEF KbdInv, KeyInv, PrefixPending
    <2>2. L > 0 /\ Head(wire) = wire[1]
      BY <1>1, <2>1
    <2>3. wire' # <<>> /\ Head(wire') = wire'[1] /\ wire'[1] = wire[1]
      BY <1>1, <1>4, <1>5, <2>2
    <2> QED BY <2>1, <2>2, <2>3
  <1>9. ASSUME NEW p \in DOMAIN wire', wire'[p].kind = "E0"
        PROVE  /\ Prefixed(wire'[p].key) /\ p + 1 \in DOMAIN wire'
               /\ wire'[p + 1].key = wire'[p].key /\ wire'[p + 1].kind # "E0"
    <2>1. CASE p \in 1 .. L
      <3>1. wire'[p] = wire[p]
        BY <1>5, <2>1
      <3>2. /\ Prefixed(wire[p].key) /\ p + 1 \in DOMAIN wire
            /\ wire[p + 1].key = wire[p].key /\ wire[p + 1].kind # "E0"
        BY <1>1, <1>9, <2>1, <3>1 DEF KbdInv, WireFormed
      <3>3. p + 1 \in DOMAIN wire' /\ wire'[p + 1] = wire[p + 1]
        BY <1>1, <1>4, <1>5, <3>2
      <3> QED BY <3>1, <3>2, <3>3
    <2>2. CASE p \notin 1 .. L
      <3>1. p - L \in 1 .. Len(b) /\ wire'[p] = b[p - L]
        <4>1. p - L \in 1 .. Len(b) /\ L + (p - L) = p
          BY <1>1, <1>4, <1>5, <2>2
        <4> QED BY <1>5, <4>1
      <3>2. Prefixed(k) /\ p - L = 1 /\ b[1] = e0 /\ b[2] = co /\ Len(b) = 2
        BY <1>2, <1>4, <1>9, <3>1
      <3>3. p = L + 1 /\ p + 1 = L + 2 /\ p + 1 \in DOMAIN wire' /\ wire'[p + 1] = co
        BY <1>1, <1>5, <3>1, <3>2
      <3> QED BY <1>2, <3>1, <3>2, <3>3
    <2> QED BY <2>1, <2>2
  <1>10. ASSUME NEW p \in DOMAIN wire', wire'[p].kind # "E0", Prefixed(wire'[p].key)
         PROVE  IF p = 1 THEN "E0ESC" \in shift' ELSE wire'[p - 1].kind = "E0"
    <2>1. CASE p \in 1 .. L
      <3>1. wire'[p] = wire[p]
        BY <1>5, <2>1
      <3>2. IF p = 1 THEN "E0ESC" \in shift ELSE wire[p - 1].kind = "E0"
        BY <1>1, <1>10, <2>1, <3>1 DEF KbdInv, WireFormed
      <3>3. p # 1 => wire'[p - 1] = wire[p - 1]
        BY <1>1, <1>5, <2>1
      <3> QED BY <3>2, <3>3
    <2>2. CASE p \notin 1 .. L
      <3>1. p - L \in 1 .. Len(b) /\ wire'[p] = b[p - L]
        <4>1. p - L \in 1 .. Len(b) /\ L + (p - L) = p
          BY <1>1, <1>4, <1>5, <2>2
        <4> QED BY <1>5, <4>1
      <3>2. Prefixed(k)
        BY <1>2, <1>4, <1>10, <3>1
      <3>3. b[1] = e0 /\ b[2] = co /\ Len(b) = 2 /\ e0.kind = "E0"
        BY <1>4, <3>2 DEF e0
      <3>4. p - L = 2
        BY <1>1, <1>10, <3>1, <3>3
      <3>5. p # 1 /\ p - 1 = L + 1
        BY <1>1, <1>5, <3>4
      <3>6. wire'[p - 1] = e0
        <4>1. 1 \in 1 .. Len(b)
          BY <3>3
        <4> QED BY <1>5, <3>3, <3>5, <4>1
      <3> QED BY <3>3, <3>5, <3>6
    <2> QED BY <2>1, <2>2
  <1> QED BY <1>6, <1>7, <1>8, <1>9, <1>10 DEF KbdInv, KeyInv, WireFormed

LEMMA EscapeOK ==
  ASSUME KbdInv, Escape PROVE KbdInv' /\ RebootChord
  <1>1. Read /\ Head(wire).kind = "E0" /\ shift' = shift \cup {"E0ESC"} /\ kbd_c' = "NO"
        /\ UNCHANGED <<rebooted, down>>
    BY DEF Escape
  <1>2. WireFormed' /\ PrefixPending'
    BY <1>1, ReadType, TailFormed
  <1>3. KeyTypeOK'
    BY <1>1, ReadType DEF KbdInv, KeyInv, KeyTypeOK, Byte
  <1>4. NoStuckModifier'
    BY <1>1 DEF KbdInv, KeyInv, NoStuckModifier, Modifiers
  <1> QED BY <1>1, <1>2, <1>3, <1>4 DEF KbdInv, KeyInv, RebootChord

(* A release clears the flag of its key, so no flag stays without a key.   *)
LEMMA ReleasedOK ==
  ASSUME KbdInv, Released PROVE KbdInv' /\ RebootChord
  <1> DEFINE k   == Head(wire).key
             ext == "E0ESC" \in shift
             sc  == shiftcode(Code(k), ext)
  <1>1. /\ Read /\ Head(wire).kind = "break" /\ shift' = shift \ (sc \cup {"E0ESC"})
        /\ down' = down \ {k} /\ kbd_c' = "NO" /\ rebooted' = rebooted
    BY DEF Released
  <1>2. k \in Keys /\ k \in AllKeys /\ ext \in BOOLEAN /\ (ext <=> Prefixed(k))
    BY <1>1, CodeRead
  <1> HIDE DEF k, ext
  <1>3. \A m \in Modifiers : k \in KeysOf(m) <=> m \in sc
    BY <1>2, Tables
  <1> HIDE DEF sc
  <1>4. WireFormed' /\ PrefixPending'
    BY <1>1, ReadType, TailFormed
  <1>5. KeyTypeOK'
    BY <1>1, ReadType DEF KbdInv, KeyInv, KeyTypeOK, Byte
  <1>6. NoStuckModifier'
    <2> SUFFICES ASSUME NEW m \in Modifiers, m \in shift' PROVE KeysOf(m) \cap down' # {}
      BY DEF NoStuckModifier
    <2>1. m \in shift /\ k \notin KeysOf(m)
      BY <1>1, <1>3
    <2> QED BY <1>1, <2>1 DEF KbdInv, KeyInv, NoStuckModifier
  <1> QED BY <1>1, <1>4, <1>5, <1>6 DEF KbdInv, KeyInv, RebootChord

(* A key pressed sets the flag of its own; the delete of the chord is the   *)
(* one that has a prefix.                                                  *)
LEMMA PressedOK ==
  ASSUME KbdInv, Pressed PROVE KbdInv' /\ RebootChord
  <1> DEFINE k     == Head(wire).key
             ext   == "E0ESC" \in shift
             sc    == shiftcode(Code(k), ext)
             set   == (shift \ {"E0ESC"}) \cup sc
             tog   == togglecode(Code(k), ext)
             flags == (set \ tog) \cup (tog \ set)
             ch    == charcode(flags, Code(k), ext)
  <1>1. /\ Read /\ Head(wire).kind = "make" /\ shift' = flags
        /\ kbd_c' = (IF "CAPSLOCK" \in flags THEN CapsSwap(ch) ELSE ch)
        /\ rebooted' = (rebooted \/ Reboots(flags, kbd_c'))
        /\ down' = down \cup {k}
    BY DEF Pressed
  <1>2. k \in Keys /\ k \in AllKeys /\ ext \in BOOLEAN /\ (ext <=> Prefixed(k))
    BY <1>1, CodeRead
  <1> HIDE DEF k, ext
  <1>3. /\ sc \subseteq Modifiers /\ tog \subseteq {"CAPSLOCK"}
        /\ \A m \in Modifiers : k \in KeysOf(m) <=> m \in sc
    BY <1>2, Tables
  <1>4. ch \in {"NO", "a", "A", "^A", ".", "KEY_DEL"} /\ (ch = "KEY_DEL" => k = "Del")
    <2> HIDE DEF flags
    <2> QED BY <1>2, CharTable
  <1> HIDE DEF sc, tog, ch
  <1>5. flags \subseteq Modifiers \cup {"CAPSLOCK"}
    BY <1>3 DEF KbdInv, KeyInv, KeyTypeOK
  <1>6. WireFormed' /\ PrefixPending'
    <2>1. "E0ESC" \notin shift'
      BY <1>1, <1>5 DEF Modifiers
    <2> QED BY <1>1, <2>1, ReadType, TailFormed
  <1>7. kbd_c' \in {"NO", "a", "A", "^A", ".", "KEY_DEL"} /\ (kbd_c' = "KEY_DEL" => ch = "KEY_DEL")
    <2> HIDE DEF flags
    <2> QED BY <1>1, <1>4 DEF CapsSwap
  <1>8. KeyTypeOK'
    <2> HIDE DEF flags
    <2>1. down' \subseteq Keys
      BY <1>1, <1>2 DEF KbdInv, KeyInv, KeyTypeOK
    <2>2. rebooted' \in BOOLEAN
      BY <1>1 DEF KbdInv, KeyInv, KeyTypeOK, Reboots
    <2> QED BY <1>1, <1>5, <1>7, <2>1, <2>2, ReadType DEF KeyTypeOK, Byte
  <1>9. NoStuckModifier'
    <2> SUFFICES ASSUME NEW m \in Modifiers, m \in flags PROVE KeysOf(m) \cap down' # {}
      BY <1>1 DEF NoStuckModifier
    <2>1. m \in shift \/ m \in sc
      BY <1>3 DEF Modifiers
    <2> QED BY <1>1, <1>3, <2>1 DEF KbdInv, KeyInv, NoStuckModifier
  <1>10. RebootChord
    <2> SUFFICES ASSUME rebooted', ~rebooted
                 PROVE  "Del" \in down' /\ \A m \in {"CTL", "ALT"} : KeysOf(m) \cap down' # {}
      BY DEF RebootChord
    <2>1. Reboots(flags, kbd_c')
      BY <1>1
    <2>2. {"CTL", "ALT"} \subseteq flags /\ kbd_c' = "KEY_DEL"
      BY <2>1 DEF Reboots
    <2>3. k = "Del"
      BY <1>4, <1>7, <2>2
    <2> QED BY <1>1, <1>9, <2>2, <2>3 DEF NoStuckModifier, Modifiers
  <1> QED BY <1>6, <1>8, <1>9, <1>10 DEF KbdInv, KeyInv

LEMMA KeyStepOK == KbdInv /\ [KeyNext]_kbdVars => KbdInv' /\ (KeyNext => RebootChord)
  <1> SUFFICES ASSUME KbdInv, [KeyNext]_kbdVars PROVE KbdInv' /\ (KeyNext => RebootChord)
    OBVIOUS
  <1>1. ASSUME NEW k \in Keys, Press(k) PROVE KbdInv' /\ RebootChord
    BY <1>1, SendOK DEF Press, KbdInv, KeyInv, KeyTypeOK, RebootChord
  <1>2. ASSUME NEW k \in Keys, Release(k) PROVE KbdInv' /\ RebootChord
    BY <1>2, SendOK DEF Release, KbdInv, KeyInv, KeyTypeOK, RebootChord
  <1>3. CASE Escape
    BY <1>3, EscapeOK
  <1>4. CASE Released
    BY <1>4, ReleasedOK
  <1>5. CASE Pressed
    BY <1>5, PressedOK
  <1>6. CASE UNCHANGED kbdVars
    <2>1. KbdInv' /\ RebootChord
      BY <1>6 DEF kbdVars, KbdInv, KeyInv, KeyTypeOK, NoStuckModifier, PrefixPending,
         WireFormed, RebootChord
    <2> QED BY <2>1
  <1> QED BY <1>1, <1>2, <1>3, <1>4, <1>5, <1>6 DEF KeyNext

(* For any keys and any delay between the keyboard and the driver: a flag   *)
(* is set only while one of its keys is down, as of the bytes read, and a   *)
(* prefix belongs to the next code.                                        *)
THEOREM KeyInvariant == KeySpec => []KeyInv
  <1>1. KbdInv => KeyInv
    BY DEF KbdInv
  <1> QED BY <1>1, KeyInitOK, KeyStepOK, PTL DEF KeySpec

(* And the reboot takes control, alt and the delete key together.          *)
THEOREM KeysRightAlways == KeySpec => KeysRight
  <1>1. KbdInv /\ [KeyNext]_kbdVars => [KeyInv' /\ RebootChord]_kbdVars
    BY KeyStepOK DEF KbdInv
  <1> QED BY <1>1, KeyInitOK, KeyStepOK, PTL DEF KeySpec, KeysRight

-----------------------------------------------------------------------------
(* MemMove. *)

(* Where the registers point, by how much there is left to move.           *)
Registers ==
  /\ dst \in Nat /\ src \in Nat /\ n \in Nat /\ dst + n <= Size /\ src + n <= Size
  /\ unit \in Nat \ {0} /\ ecx \in Nat /\ ecx * unit <= n
  /\ df = (IF Overlaps(dst, src, n) THEN -1 ELSE 1)
  /\ IF df = 1 THEN esi = src + (n - ecx * unit) /\ edi = dst + (n - ecx * unit)
     ELSE esi = src + (ecx * unit - unit) /\ edi = dst + (ecx * unit - unit)
  /\ DOMAIN mem = Addresses

CopyInv == Registers /\ MoveInv

(* The units make up the whole length. *)
LEMMA WholeUnits ==
  ASSUME MemoryAssumption, NEW d \in Nat, NEW s \in Nat, NEW k \in Nat, NEW u,
         u = IF Aligned(d, s, k) THEN WORD ELSE 1
  PROVE  u \in Nat \ {0} /\ k \div u \in Nat /\ (k \div u) * u = k
  <1>1. CASE Aligned(d, s, k)
    <2>1. u = WORD /\ k % WORD = 0 /\ WORD \in Nat \ {0}
      BY <1>1, MemoryAssumption DEF Aligned
    <2>2. k = WORD * (k \div WORD) + (k % WORD) /\ k \div WORD \in Nat
      BY <2>1, ModSplit
    <2>3. \A q \in Nat : WORD * q + 0 = q * WORD
      BY <2>1
    <2> QED BY <2>1, <2>2, <2>3
  <1>2. CASE ~Aligned(d, s, k)
    BY <1>2
  <1> QED BY <1>1, <1>2

LEMMA MoveInitOK == MoveInit => CopyInv
  <1> SUFFICES ASSUME MoveInit PROVE CopyInv
    OBVIOUS
  <1> DEFINE back == Overlaps(dst, src, n)
             s    == IF back THEN src + n ELSE src
             d    == IF back THEN dst + n ELSE dst
             u    == IF Aligned(d, s, n) THEN WORD ELSE 1
  <1>1. dst \in Nat /\ src \in Nat /\ n \in Nat /\ dst + n <= Size /\ src + n <= Size
    BY MemoryAssumption DEF MoveInit, Regions
  <1>2. /\ mem = [a \in Addresses |-> a]
        /\ unit = u /\ ecx = n \div u /\ df = (IF back THEN -1 ELSE 1)
        /\ esi = (IF back THEN s - u ELSE s) /\ edi = (IF back THEN d - u ELSE d)
    BY DEF MoveInit
  <1>3. s \in Nat /\ d \in Nat
    BY <1>1
  <1> HIDE DEF s, d
  <1>4. u \in Nat \ {0} /\ n \div u \in Nat /\ (n \div u) * u = n
    BY <1>1, <1>3, WholeUnits, MemoryAssumption
  <1> HIDE DEF u
  <1>5. unit \in Nat \ {0} /\ ecx \in Nat /\ ecx * unit = n
    BY <1>2, <1>4
  <1>6. Registers
    <2>1. CASE back
      <3>1. esi = src + (n - unit) /\ edi = dst + (n - unit) /\ df = -1
        BY <1>1, <1>2, <1>4, <2>1 DEF s, d
      <3>2. esi = src + (ecx * unit - unit) /\ edi = dst + (ecx * unit - unit)
        BY <1>5, <3>1
      <3>3. DOMAIN mem = Addresses /\ ecx * unit <= n
        BY <1>1, <1>2, <1>5
      <3>4. df # 1 /\ df = (IF Overlaps(dst, src, n) THEN -1 ELSE 1)
        BY <1>2, <2>1, <3>1
      <3> QED BY <1>1, <1>5, <3>2, <3>3, <3>4 DEF Registers
    <2>2. CASE ~back
      <3>1. esi = src /\ edi = dst /\ df = 1
        BY <1>2, <2>2 DEF s, d
      <3>2. esi = src + (n - n) /\ edi = dst + (n - n)
        BY <1>1, <3>1
      <3> QED BY <1>1, <1>2, <1>5, <2>2, <3>1, <3>2 DEF Registers
    <2> QED BY <2>1, <2>2
  <1>7. MoveInv
    <2>1. ASSUME NEW a \in Addresses PROVE mem[a] = a
      BY <1>2
    <2>2. \A k \in 0 .. n - 1 : src + k \in Addresses
      BY <1>1, MemoryAssumption DEF Addresses
    <2>3. \A k \in 0 .. n - 1 :
            k \notin (IF df = 1 THEN 0 .. (n - ecx * unit) - 1 ELSE ecx * unit .. n - 1)
      BY <1>1, <1>5
    <2> QED BY <2>1, <2>2, <2>3 DEF MoveInv
  <1> QED BY <1>6, <1>7 DEF CopyInv

(* A unit is written where no byte of the source is that is still needed:  *)
(* behind the place of reading, on the side the direction leaves.          *)
LEMMA MovsOK ==
  ASSUME CopyInv, Movs PROVE CopyInv'
  <1> DEFINE e == ecx * unit
  <1>1. /\ dst \in Nat /\ src \in Nat /\ n \in Nat /\ dst + n <= Size /\ src + n <= Size
        /\ unit \in Nat \ {0} /\ ecx \in Nat \ {0} /\ DOMAIN mem = Addresses
        /\ df = (IF Overlaps(dst, src, n) THEN -1 ELSE 1)
    BY DEF CopyInv, Registers, Movs
  <1>2. /\ ecx' = ecx - 1 /\ esi' = esi + df * unit /\ edi' = edi + df * unit
        /\ mem' = [a \in Addresses |->
                     IF a \in edi .. edi + unit - 1 THEN mem[a - edi + esi] ELSE mem[a]]
        /\ dst' = dst /\ src' = src /\ n' = n /\ df' = df /\ unit' = unit
    BY DEF Movs
  <1>3. e \in Nat /\ e <= n /\ ecx' \in Nat /\ ecx' * unit' = e - unit /\ e - unit >= 0
    <2>1. (ecx - 1) * unit = ecx * unit - unit /\ (ecx - 1) * unit >= 0
      BY <1>1
    <2> QED BY <1>1, <1>2, <2>1 DEF CopyInv, Registers
  <1>4. /\ \A k \in 0 .. n - 1 :
             IF k \in (IF df = 1 THEN 0 .. (n - e) - 1 ELSE e .. n - 1)
             THEN mem[dst + k] = src + k ELSE mem[src + k] = src + k
        /\ \A a \in Addresses \ (dst .. dst + n - 1) : mem[a] = a
    BY DEF CopyInv, MoveInv
  <1>5. IF df = 1 THEN esi = src + (n - e) /\ edi = dst + (n - e)
        ELSE esi = src + (e - unit) /\ edi = dst + (e - unit)
    BY DEF CopyInv, Registers
  <1> DEFINE f == e - unit
  <1>6. f \in Nat /\ ecx' * unit' = f /\ e = f + unit
    BY <1>1, <1>3
  <1> HIDE DEF e, f
  <1>7. Registers'
    <2>1. ecx' * unit' <= n'
      BY <1>1, <1>2, <1>3, <1>6
    <2>2. IF df' = 1 THEN esi' = src' + (n' - f) /\ edi' = dst' + (n' - f)
          ELSE esi' = src' + (f - unit') /\ edi' = dst' + (f - unit')
      BY <1>1, <1>2, <1>3, <1>5, <1>6
    <2>3. DOMAIN mem' = Addresses
      BY <1>2
    <2> QED BY <1>1, <1>2, <1>3, <1>6, <2>1, <2>2, <2>3 DEF Registers
  <1>8. /\ \A k \in 0 .. n - 1 : dst + k \in Addresses /\ src + k \in Addresses
        /\ \A a \in Addresses : a \in Int
    BY <1>1, MemoryAssumption DEF Addresses
  <1>9. \A a \in Addresses \ (dst .. dst + n - 1) : mem'[a] = a
    <2> SUFFICES ASSUME NEW a \in Addresses, a \notin dst .. dst + n - 1 PROVE mem'[a] = a
      OBVIOUS
    <2>1. a \notin edi .. edi + unit - 1
      BY <1>1, <1>3, <1>5, <1>6, <1>8
    <2> QED BY <1>2, <1>4, <2>1
  <1>10. ASSUME NEW k \in 0 .. n - 1
         PROVE  IF k \in (IF df = 1 THEN 0 .. (n - f) - 1 ELSE f .. n - 1)
                THEN mem'[dst + k] = src + k ELSE mem'[src + k] = src + k
    <2>1. CASE df = 1
      <3>1. esi = src + (n - e) /\ edi = dst + (n - e) /\ ~Overlaps(dst, src, n)
        BY <1>1, <1>5, <2>1
      <3>2. CASE k < n - e
        <4>1. dst + k \notin edi .. edi + unit - 1 /\ k \in 0 .. (n - e) - 1
          BY <1>1, <1>3, <3>1, <3>2
        <4>2. mem'[dst + k] = src + k
          BY <1>2, <1>4, <1>8, <2>1, <4>1
        <4>3. k \in 0 .. (n - f) - 1
          BY <1>1, <1>3, <1>6, <3>2
        <4> QED BY <2>1, <4>2, <4>3
      <3>3. CASE k >= n - e /\ k < n - f
        <4>1. /\ dst + k \in edi .. edi + unit - 1 /\ (dst + k) - edi + esi = src + k
              /\ k \notin 0 .. (n - e) - 1 /\ k \in 0 .. (n - f) - 1
          BY <1>1, <1>3, <1>6, <3>1, <3>3
        <4>2. mem'[dst + k] = mem[src + k] /\ mem[src + k] = src + k
          BY <1>2, <1>4, <1>8, <2>1, <4>1
        <4> QED BY <2>1, <4>1, <4>2
      <3>4. CASE k >= n - f
        <4>1. src + k \notin edi .. edi + unit - 1
          BY <1>1, <1>3, <1>6, <3>1, <3>4 DEF Overlaps
        <4>2. k \notin 0 .. (n - e) - 1 /\ k \notin 0 .. (n - f) - 1
          BY <1>1, <1>3, <1>6, <3>4
        <4>3. mem'[src + k] = src + k
          BY <1>2, <1>4, <1>8, <2>1, <4>1, <4>2
        <4> QED BY <2>1, <4>2, <4>3
      <3> QED BY <1>1, <1>3, <1>6, <3>2, <3>3, <3>4
    <2>2. CASE df # 1
      <3>1. esi = src + f /\ edi = dst + f /\ Overlaps(dst, src, n)
        BY <1>1, <1>5, <2>2 DEF f
      <3>2. CASE k >= e
        <4>1. dst + k \notin edi .. edi + unit - 1 /\ k \in e .. n - 1 /\ k \in f .. n - 1
          BY <1>1, <1>3, <1>6, <3>1, <3>2
        <4>2. mem'[dst + k] = src + k
          BY <1>2, <1>4, <1>8, <2>2, <4>1
        <4> QED BY <2>2, <4>1, <4>2
      <3>3. CASE k >= f /\ k < e
        <4>1. /\ dst + k \in edi .. edi + unit - 1 /\ (dst + k) - edi + esi = src + k
              /\ k \notin e .. n - 1 /\ k \in f .. n - 1
          BY <1>1, <1>3, <1>6, <3>1, <3>3
        <4>2. mem'[dst + k] = mem[src + k] /\ mem[src + k] = src + k
          BY <1>2, <1>4, <1>8, <2>2, <4>1
        <4> QED BY <2>2, <4>1, <4>2
      <3>4. CASE k < f
        <4>1. src + k \notin edi .. edi + unit - 1
          BY <1>1, <1>3, <1>6, <3>1, <3>4 DEF Overlaps
        <4>2. k \notin e .. n - 1 /\ k \notin f .. n - 1
          BY <1>1, <1>3, <1>6, <3>4
        <4>3. mem'[src + k] = src + k
          BY <1>2, <1>4, <1>8, <2>2, <4>1, <4>2
        <4> QED BY <2>2, <4>2, <4>3
      <3> QED BY <1>1, <1>3, <1>6, <3>2, <3>3, <3>4
    <2> QED BY <2>1, <2>2
  <1>11. MoveInv'
    BY <1>2, <1>6, <1>9, <1>10 DEF MoveInv
  <1> QED BY <1>7, <1>11 DEF CopyInv

(* memmove() moves every byte to its place and touches nothing else,        *)
(* however the regions lie and overlap, for every size of memory and word. *)
THEOREM MoveInvAlways == MoveSpec => []MoveInv
  <1>1. CopyInv /\ [MoveNext]_copyVars => CopyInv'
    <2> SUFFICES ASSUME CopyInv, [MoveNext]_copyVars PROVE CopyInv'
      OBVIOUS
    <2>1. CASE Movs
      BY <2>1, MovsOK
    <2>2. CASE UNCHANGED copyVars
      BY <2>2 DEF copyVars, CopyInv, Registers, MoveInv
    <2> QED BY <2>1, <2>2 DEF MoveNext, Moved
  <1>2. CopyInv => MoveInv
    BY DEF CopyInv
  <1> QED BY <1>1, <1>2, MoveInitOK, PTL DEF MoveSpec
=============================================================================
