------------------------- MODULE DisassemblerProofs --------------------------
(***************************************************************************)
(* Proofs about the list of the disassembler.                               *)
(*                                                                         *)
(* The circular vector, for every set of elements and every size it is      *)
(* created with: head, tail and count always agree, and every call does to  *)
(* the elements, counted from the head, what list.h promises of a sequence.  *)
(*                                                                         *)
(* Then list_sort(), for lists of every length and any values: the scans    *)
(* never leave the part that the call sorts, although they have no bounds   *)
(* of their own, no element is lost, and the list ends in order.  The       *)
(* argument is of two levels.  Within a call (Partitioning): what is left   *)
(* of i is not above the pivot, what is right of j not below, and an        *)
(* element stands at which each scan must stop.  Across the calls (Apart):   *)
(* two elements are in order unless one part that is still to be sorted has *)
(* them both, and these parts do not overlap (Nested).                     *)
(***************************************************************************)
EXTENDS ListRefinement, QuickSort, FiniteSetTheorems, SequenceTheorems,
        WellFoundedInduction, TLAPS

-----------------------------------------------------------------------------
(* Counting around a vector of s cells. *)
LEMMA ModUnique ==
  ASSUME NEW s \in Nat \ {0}, NEW q \in Int, NEW r \in 0 .. s - 1
  PROVE  (s * q + r) % s = r
  OBVIOUS

(* A number less than a lap away from the vector, without the remainder.    *)
Wrap(s, x) == IF x < 0 THEN x + s ELSE IF x < s THEN x ELSE x - s

LEMMA ModWrap ==
  ASSUME NEW s \in Nat \ {0}, NEW x \in Int, -s <= x, x < 2 * s
  PROVE  x % s = Wrap(s, x) /\ Wrap(s, x) \in 0 .. s - 1
<1>1. CASE x < 0
  <2>1. (s * (-1) + (x + s)) % s = x + s
    BY <1>1, ModUnique
  <2>2. s * (-1) + (x + s) = x
    OBVIOUS
  <2> QED
    BY <1>1, <2>1, <2>2 DEF Wrap
<1>2. CASE 0 <= x /\ x < s
  <2>1. (s * 0 + x) % s = x
    BY <1>2, ModUnique
  <2> QED
    BY <1>2, <2>1 DEF Wrap
<1>3. CASE s <= x
  <2>1. (s * 1 + (x - s)) % s = x - s
    BY <1>3, ModUnique
  <2>2. s * 1 + (x - s) = x
    OBVIOUS
  <2> QED
    BY <1>3, <2>1, <2>2 DEF Wrap
<1> QED
  BY <1>1, <1>2, <1>3

(* The cell of the k-th element behind a head. *)
Pos(s, h, k) == (h + k) % s

LEMMA PosWrap ==
  ASSUME NEW s \in Nat \ {0}, NEW h \in 0 .. s - 1, NEW k \in -1 .. s
  PROVE  Pos(s, h, k) = Wrap(s, h + k) /\ Pos(s, h, k) \in 0 .. s - 1
<1>1. h + k \in Int /\ -s <= h + k /\ h + k < 2 * s
  OBVIOUS
<1> QED
  BY <1>1, ModWrap DEF Pos

LEMMA PosDiffer ==
  ASSUME NEW s \in Nat \ {0}, NEW h \in 0 .. s - 1,
         NEW v \in 0 .. s - 1, NEW k \in 0 .. s - 1, v # k
  PROVE  Pos(s, h, v) # Pos(s, h, k)
<1>1. v \in -1 .. s /\ k \in -1 .. s
  OBVIOUS
<1>2. Pos(s, h, v) = Wrap(s, h + v) /\ Pos(s, h, k) = Wrap(s, h + k)
  BY <1>1, PosWrap
<1> QED
  BY <1>2 DEF Wrap

LEMMA PosNext ==
  ASSUME NEW s \in Nat \ {0}, NEW h \in 0 .. s - 1, NEW k \in 0 .. s
  PROVE  /\ (Pos(s, h, k) - 1) % s = Pos(s, h, k - 1)
         /\ k < s => (Pos(s, h, k) + 1) % s = Pos(s, h, k + 1)
         /\ Pos(s, h, 0) = h /\ Pos(s, h, s) = h
<1> DEFINE p == Pos(s, h, k)
<1>1. p = Wrap(s, h + k) /\ p \in 0 .. s - 1
  <2>1. k \in -1 .. s
    OBVIOUS
  <2> QED
    BY <2>1, PosWrap
<1>2. Pos(s, h, k - 1) = Wrap(s, h + (k - 1))
  <2>1. k - 1 \in -1 .. s
    OBVIOUS
  <2> QED
    BY <2>1, PosWrap
<1>3. k < s => Pos(s, h, k + 1) = Wrap(s, h + (k + 1))
  <2>1. k < s => k + 1 \in -1 .. s
    OBVIOUS
  <2> QED
    BY <2>1, PosWrap
<1>4. Pos(s, h, 0) = Wrap(s, h + 0) /\ Pos(s, h, s) = Wrap(s, h + s)
  <2>1. 0 \in -1 .. s /\ s \in -1 .. s
    OBVIOUS
  <2> QED
    BY <2>1, PosWrap
<1>5. (p - 1) % s = Wrap(s, p - 1)
  <2> HIDE DEF p
  <2>1. p - 1 \in Int /\ -s <= p - 1 /\ p - 1 < 2 * s
    BY <1>1
  <2> QED
    BY <2>1, ModWrap
<1>6. (p + 1) % s = Wrap(s, p + 1)
  <2> HIDE DEF p
  <2>1. p + 1 \in Int /\ -s <= p + 1 /\ p + 1 < 2 * s
    BY <1>1
  <2> QED
    BY <2>1, ModWrap
<1>7. Wrap(s, p - 1) = Wrap(s, h + (k - 1))
  <2> HIDE DEF p
  <2> QED
    BY <1>1 DEF Wrap
<1>8. k < s => Wrap(s, p + 1) = Wrap(s, h + (k + 1))
  <2> HIDE DEF p
  <2> QED
    BY <1>1 DEF Wrap
<1>9. Wrap(s, h + 0) = h /\ Wrap(s, h + s) = h
  BY DEF Wrap
<1> QED
  BY <1>2, <1>3, <1>4, <1>5, <1>6, <1>7, <1>8, <1>9

(* The head one cell further back or on. *)
LEMMA PosShift ==
  ASSUME NEW s \in Nat \ {0}, NEW h \in 0 .. s - 1, NEW k \in 0 .. s - 1
  PROVE  /\ (h - 1) % s \in 0 .. s - 1 /\ (h + 1) % s \in 0 .. s - 1
         /\ Pos(s, (h - 1) % s, k + 1) = Pos(s, h, k)
         /\ Pos(s, (h + 1) % s, k) = Pos(s, h, k + 1)
         /\ (h - 1 + k) % s = Pos(s, (h - 1) % s, k)
<1> DEFINE b == (h - 1) % s
           f == (h + 1) % s
<1>1. b = Wrap(s, h - 1) /\ b \in 0 .. s - 1
  <2>1. h - 1 \in Int /\ -s <= h - 1 /\ h - 1 < 2 * s
    OBVIOUS
  <2> QED
    BY <2>1, ModWrap
<1>2. f = Wrap(s, h + 1) /\ f \in 0 .. s - 1
  <2>1. h + 1 \in Int /\ -s <= h + 1 /\ h + 1 < 2 * s
    OBVIOUS
  <2> QED
    BY <2>1, ModWrap
<1>3. (h - 1 + k) % s = Wrap(s, h - 1 + k)
  <2>1. h - 1 + k \in Int /\ -s <= h - 1 + k /\ h - 1 + k < 2 * s
    OBVIOUS
  <2> QED
    BY <2>1, ModWrap
<1>4. k \in -1 .. s /\ k + 1 \in -1 .. s
  OBVIOUS
<1>5. Pos(s, h, k) = Wrap(s, h + k) /\ Pos(s, h, k + 1) = Wrap(s, h + (k + 1))
  BY <1>4, PosWrap
<1> HIDE DEF b, f
<1>6. Pos(s, b, k) = Wrap(s, b + k) /\ Pos(s, b, k + 1) = Wrap(s, b + (k + 1))
  BY <1>1, <1>4, PosWrap
<1>7. Pos(s, f, k) = Wrap(s, f + k)
  BY <1>2, <1>4, PosWrap
<1>8. /\ Wrap(s, b + (k + 1)) = Wrap(s, h + k)
      /\ Wrap(s, f + k) = Wrap(s, h + (k + 1))
      /\ Wrap(s, h - 1 + k) = Wrap(s, b + k)
  BY <1>1, <1>2 DEF Wrap
<1>9. /\ Pos(s, b, k + 1) = Pos(s, h, k) /\ Pos(s, f, k) = Pos(s, h, k + 1)
      /\ (h - 1 + k) % s = Pos(s, b, k)
  BY <1>3, <1>5, <1>6, <1>7, <1>8
<1> QED
  BY <1>1, <1>2, <1>9 DEF b, f

(* How far one element's cell is from another's. *)
LEMMA PosApart ==
  ASSUME NEW s \in Nat \ {0}, NEW h \in 0 .. s - 1,
         NEW v \in 0 .. s - 1, NEW k \in 0 .. s - 1
  PROVE  (Pos(s, h, k) - Pos(s, h, v)) % s = IF v <= k THEN k - v ELSE s - (v - k)
<1> DEFINE p == Pos(s, h, k)
           q == Pos(s, h, v)
<1>1. v \in -1 .. s /\ k \in -1 .. s
  OBVIOUS
<1>2. p = Wrap(s, h + k) /\ p \in 0 .. s - 1 /\ q = Wrap(s, h + v) /\ q \in 0 .. s - 1
  BY <1>1, PosWrap
<1> HIDE DEF p, q
<1>3. p - q \in Int /\ -s <= p - q /\ p - q < 2 * s
  BY <1>2
<1>4. (p - q) % s = Wrap(s, p - q)
  BY <1>3, ModWrap
<1>5. Wrap(s, p - q) = IF v <= k THEN k - v ELSE s - (v - k)
  BY <1>2 DEF Wrap
<1> QED
  BY <1>4, <1>5 DEF p, q

(* What the two moves do, element by element. *)
LEMMA MovedUpAt ==
  ASSUME NEW s \in Nat \ {0}, NEW h \in 0 .. s - 1, NEW e,
         NEW c \in 0 .. s - 1, NEW n \in 0 .. c, NEW v \in 0 .. s - 1
  PROVE  MovedUp(e, s, Pos(s, h, c), n)[Pos(s, h, v)] =
           IF v <= c /\ c - v < n THEN e[Pos(s, h, v - 1)] ELSE e[Pos(s, h, v)]
<1>1. Pos(s, h, v) \in 0 .. s - 1 /\ (Pos(s, h, v) - 1) % s = Pos(s, h, v - 1)
  BY PosWrap, PosNext
<1>2. (Pos(s, h, c) - Pos(s, h, v)) % s = IF v <= c THEN c - v ELSE s - (v - c)
  BY PosApart
<1>3. (Pos(s, h, c) - Pos(s, h, v)) % s < n <=> v <= c /\ c - v < n
  BY <1>2
<1> QED
  BY <1>1, <1>3 DEF MovedUp

LEMMA MovedDownAt ==
  ASSUME NEW s \in Nat \ {0}, NEW h \in 0 .. s - 1, NEW e,
         NEW c \in 0 .. s - 1, NEW n \in Nat, c + n <= s, NEW v \in 0 .. s - 1
  PROVE  MovedDown(e, s, Pos(s, h, c), n)[Pos(s, h, v)] =
           IF c <= v /\ v - c < n THEN e[Pos(s, h, v + 1)] ELSE e[Pos(s, h, v)]
<1>1. Pos(s, h, v) \in 0 .. s - 1 /\ (Pos(s, h, v) + 1) % s = Pos(s, h, v + 1)
  BY PosWrap, PosNext
<1>2. (Pos(s, h, v) - Pos(s, h, c)) % s = IF c <= v THEN v - c ELSE s - (c - v)
  BY PosApart
<1>3. (Pos(s, h, v) - Pos(s, h, c)) % s < n <=> c <= v /\ v - c < n
  BY <1>2
<1> QED
  BY <1>1, <1>3 DEF MovedDown

-----------------------------------------------------------------------------
(* The vector alone: its type, and the tail behind the last element. *)
VecOK ==
  /\ size \in Nat /\ size >= 4
  /\ elem \in [Cells -> Elem \cup {NULL}]
  /\ head \in Cells /\ tail \in Cells
  /\ count \in 0 .. size /\ count <= MaxCount
  /\ tail = Pos(size, head, count)
  /\ \A k \in 0 .. count - 1 : At(k) \in Elem

ResultOK ==
  /\ error_code \in {"OK", "BOUNDS", "NOT_FOUND", "EMPTY"}
  /\ ret \in Elem \cup {NULL} \cup Indices

(* The inductive invariant: beside Inv, the list never holds more than the  *)
(* bound allows.                                                            *)
IInv == VecOK /\ ResultOK

LEMMA IInvGivesInv == IInv => Inv
  BY DEF IInv, VecOK, ResultOK, Inv, TypeOK, Ring, Pos

LEMMA AtPos == ASSUME NEW k PROVE At(k) = elem[Pos(size, head, k)]
  BY DEF At, Pos

(* list_grow() lays the elements out from the first cell on, in their order, *)
(* and then there is room for one more.                                     *)
LEMMA GrownKeeps ==
  ASSUME VecOK
  PROVE  /\ Grown.s \in Nat /\ Grown.s >= 4 /\ count < Grown.s
         /\ Grown.h \in 0 .. Grown.s - 1 /\ Grown.t \in 0 .. Grown.s - 1
         /\ Grown.e \in [0 .. Grown.s - 1 -> Elem \cup {NULL}]
         /\ Grown.t = Pos(Grown.s, Grown.h, count)
         /\ \A v \in 0 .. count - 1 : Grown.e[Pos(Grown.s, Grown.h, v)] = At(v)
<1>1. CASE count < size
  BY <1>1, AtPos DEF Grown, VecOK, Cells
<1>2. CASE count >= size
  <2> DEFINE ge == [c \in 0 .. 2 * size - 1 |-> IF c < count THEN At(c) ELSE NULL]
  <2>1. size \in Nat /\ size >= 4 /\ count = size
    BY <1>2 DEF VecOK
  <2>2. Grown = [e |-> ge, s |-> 2 * size, h |-> 0, t |-> count]
    BY <1>2, <2>1 DEF Grown
  <2>3. ge \in [0 .. 2 * size - 1 -> Elem \cup {NULL}]
    BY <2>1 DEF VecOK
  <2>4. ASSUME NEW v \in 0 .. count
        PROVE  Pos(2 * size, 0, v) = v
    <3>1. 2 * size \in Nat \ {0} /\ 0 \in 0 .. 2 * size - 1 /\ v \in -1 .. 2 * size
      BY <2>1
    <3>2. Pos(2 * size, 0, v) = Wrap(2 * size, 0 + v)
      BY <3>1, PosWrap
    <3> QED
      BY <2>1, <3>2 DEF Wrap
  <2>5. \A v \in 0 .. count - 1 : ge[Pos(2 * size, 0, v)] = At(v)
    BY <2>1, <2>4
  <2>6. Pos(2 * size, 0, count) = count
    BY <2>1, <2>4
  <2> HIDE DEF ge
  <2>7. Grown.e = ge /\ Grown.s = 2 * size /\ Grown.h = 0 /\ Grown.t = count
    BY <2>2
  <2>8. 2 * size \in Nat /\ 2 * size >= 4 /\ count < 2 * size /\ count \in 0 .. 2 * size - 1
        /\ 0 \in 0 .. 2 * size - 1
    BY <2>1
  <2> QED
    BY <2>3, <2>5, <2>6, <2>7, <2>8
<1> QED
  BY <1>1, <1>2 DEF VecOK

(* Every element has a cell of its own. *)
LEMMA OwnCell ==
  ASSUME NEW s \in Nat \ {0}, NEW h \in 0 .. s - 1,
         NEW k \in 0 .. s - 1, NEW v \in 0 .. s - 1
  PROVE  /\ Pos(s, h, v) \in 0 .. s - 1
         /\ Pos(s, h, v) = Pos(s, h, k) <=> v = k
<1>1. Pos(s, h, v) \in 0 .. s - 1
  <2>1. v \in -1 .. s
    OBVIOUS
  <2> QED
    BY <2>1, PosWrap
<1> QED
  BY <1>1, PosDiffer

LEMMA AddKeeps ==
  ASSUME VecOK, NEW x \in Elem, Add(x)
  PROVE  /\ VecOK' /\ count' = count + 1
         /\ \A v \in 0 .. count : At(v)' = IF v = count THEN x ELSE At(v)
<1> DEFINE g == Grown
<1>1. /\ g.s \in Nat /\ g.s >= 4 /\ count < g.s
      /\ g.h \in 0 .. g.s - 1 /\ g.t \in 0 .. g.s - 1
      /\ g.e \in [0 .. g.s - 1 -> Elem \cup {NULL}]
      /\ g.t = Pos(g.s, g.h, count)
      /\ \A v \in 0 .. count - 1 : g.e[Pos(g.s, g.h, v)] = At(v)
  BY GrownKeeps
<1>2. /\ elem' = [g.e EXCEPT ![g.t] = x] /\ size' = g.s /\ head' = g.h
      /\ tail' = (g.t + 1) % g.s /\ count' = count + 1 /\ count < MaxCount
      /\ count \in Nat
  BY DEF Add, VecOK
<1> HIDE DEF g
<1>3. tail' = Pos(g.s, g.h, count + 1) /\ tail' \in 0 .. g.s - 1
  <2>1. g.s \in Nat \ {0} /\ count \in 0 .. g.s /\ count + 1 \in -1 .. g.s
    BY <1>1, <1>2
  <2>2. (Pos(g.s, g.h, count) + 1) % g.s = Pos(g.s, g.h, count + 1)
    BY <1>1, <2>1, PosNext
  <2>3. Pos(g.s, g.h, count + 1) \in 0 .. g.s - 1
    BY <1>1, <2>1, PosWrap
  <2> QED
    BY <1>1, <1>2, <2>2, <2>3
<1>4. ASSUME NEW v \in 0 .. count
      PROVE  elem'[Pos(g.s, g.h, v)] = IF v = count THEN x ELSE At(v)
  <2> DEFINE s == g.s  h == g.h  n == count
  <2>1. s \in Nat \ {0} /\ h \in 0 .. s - 1 /\ v \in 0 .. s - 1 /\ n \in 0 .. s - 1
    BY <1>1, <1>2
  <2> HIDE DEF s, h, n
  <2>2. Pos(s, h, v) \in 0 .. s - 1 /\ (Pos(s, h, v) = Pos(s, h, n) <=> v = n)
    BY <2>1, OwnCell
  <2> QED
    BY <1>1, <1>2, <2>1, <2>2 DEF s, h, n
<1>5. \A v \in 0 .. count : At(v)' = IF v = count THEN x ELSE At(v)
  BY <1>2, <1>4 DEF At, Pos
<1>6. elem' \in [0 .. g.s - 1 -> Elem \cup {NULL}]
  BY <1>1, <1>2
<1>7. \A v \in 0 .. count : At(v)' \in Elem
  BY <1>2, <1>5 DEF VecOK
<1>8. VecOK'
  <2>1. Cells' = 0 .. g.s - 1 /\ size' = g.s
    BY <1>2 DEF Cells
  <2>2. count' \in 0 .. size' /\ count' <= MaxCount
    BY <1>1, <1>2, MaxCountAssumption
  <2>3. tail' = Pos(size', head', count')
    BY <1>2, <1>3
  <2>4. \A v \in 0 .. count' - 1 : At(v)' \in Elem
    BY <1>2, <1>7
  <2> QED
    BY <1>1, <1>2, <1>3, <1>6, <2>1, <2>2, <2>3, <2>4 DEF VecOK
<1> QED
  BY <1>2, <1>5, <1>8

LEMMA Relaid ==
  ASSUME size' \in Nat, size' >= 4, head' \in 0 .. size' - 1,
         elem' \in [0 .. size' - 1 -> Elem \cup {NULL}],
         count' \in 0 .. size', count' <= MaxCount,
         tail' = Pos(size', head', count'),
         \A k \in 0 .. count' - 1 : At(k)' \in Elem
  PROVE  VecOK'
<1>1. size' \in Nat \ {0} /\ count' \in -1 .. size'
  OBVIOUS
<1>2. tail' \in 0 .. size' - 1
  BY <1>1, PosWrap
<1> QED
  BY <1>2 DEF VecOK, Cells

LEMMA MovedType ==
  ASSUME NEW s \in Nat \ {0}, NEW E, NEW e \in [0 .. s - 1 -> E], NEW c, NEW n
  PROVE  /\ MovedUp(e, s, c, n) \in [0 .. s - 1 -> E]
         /\ MovedDown(e, s, c, n) \in [0 .. s - 1 -> E]
<1>1. ASSUME NEW p \in 0 .. s - 1
      PROVE  (p - 1) % s \in 0 .. s - 1 /\ (p + 1) % s \in 0 .. s - 1
  BY PosShift
<1> QED
  BY <1>1 DEF MovedUp, MovedDown

LEMMA InsertKeeps ==
  ASSUME VecOK, NEW x \in Elem, NEW k \in 0 .. count, Insert(k, x)
  PROVE  /\ VecOK' /\ count' = count + 1
         /\ \A v \in 0 .. count : At(v)' = IF v < k THEN At(v)
                                           ELSE IF v = k THEN x ELSE At(v - 1)
<1> DEFINE g == Grown
           s == g.s
           h == g.h
           E == Elem \cup {NULL}
<1>1. /\ s \in Nat /\ s >= 4 /\ count < s
      /\ h \in 0 .. s - 1 /\ g.t = Pos(s, h, count) /\ g.e \in [0 .. s - 1 -> E]
      /\ \A v \in 0 .. count - 1 : g.e[Pos(s, h, v)] = At(v)
  BY GrownKeeps
<1>2. /\ count \in Nat /\ count < MaxCount /\ count' = count + 1 /\ size' = s
      /\ \/ /\ k > count \div 2
            /\ elem' = [MovedUp(g.e, s, g.t, count - k) EXCEPT ![Pos(s, h, k)] = x]
            /\ tail' = (g.t + 1) % s /\ head' = h
         \/ /\ elem' = [MovedDown(g.e, s, (h - 1) % s, k) EXCEPT ![(h - 1 + k) % s] = x]
            /\ head' = (h - 1) % s /\ tail' = g.t
  BY DEF Insert, VecOK, Pos
<1>3. \A v \in 0 .. count - 1 : At(v) \in Elem
  BY DEF VecOK
<1> HIDE DEF g, s, h, E
<1>4. /\ s \in Nat \ {0} /\ h \in 0 .. s - 1
      /\ count \in 0 .. s - 1 /\ k \in 0 .. s - 1 /\ count \in 0 .. s
  BY <1>1, <1>2
<1> SUFFICES
      /\ head' \in 0 .. s - 1 /\ elem' \in [0 .. s - 1 -> E]
      /\ tail' = Pos(s, head', count + 1)
      /\ \A v \in 0 .. count :
           elem'[Pos(s, head', v)] = IF v < k THEN At(v) ELSE IF v = k THEN x ELSE At(v - 1)
  <2>1. \A v \in 0 .. count : At(v)' = IF v < k THEN At(v)
                                     ELSE IF v = k THEN x ELSE At(v - 1)
    BY <1>2 DEF At, Pos
  <2>2. \A v \in 0 .. count' - 1 : At(v)' \in Elem
    BY <1>2, <1>3, <2>1
  <2>3. count' \in 0 .. size' /\ count' <= MaxCount
    BY <1>1, <1>2, MaxCountAssumption
  <2> QED
    BY <1>1, <1>2, <2>1, <2>2, <2>3, Relaid DEF E
<1>5. CASE /\ elem' = [MovedUp(g.e, s, g.t, count - k) EXCEPT ![Pos(s, h, k)] = x]
           /\ tail' = (g.t + 1) % s /\ head' = h
  <2> DEFINE m == MovedUp(g.e, s, g.t, count - k)
  <2>1. m \in [0 .. s - 1 -> E] /\ x \in E
    BY <1>1, <1>4, MovedType DEF E
  <2>2. tail' = Pos(s, h, count + 1)
    BY <1>1, <1>4, <1>5, PosNext
  <2>3. ASSUME NEW v \in 0 .. count
        PROVE  m[Pos(s, h, v)] = IF k < v THEN g.e[Pos(s, h, v - 1)] ELSE g.e[Pos(s, h, v)]
    <3>1. count - k \in 0 .. count /\ v \in 0 .. s - 1
      BY <1>2, <1>4
    <3>2. MovedUp(g.e, s, Pos(s, h, count), count - k)[Pos(s, h, v)] =
            IF v <= count /\ count - v < count - k
            THEN g.e[Pos(s, h, v - 1)] ELSE g.e[Pos(s, h, v)]
      BY <1>4, <3>1, MovedUpAt
    <3> QED
      BY <1>1, <1>2, <3>2
  <2> HIDE DEF m
  <2>4. ASSUME NEW v \in 0 .. count
        PROVE  elem'[Pos(s, h, v)] = IF v < k THEN At(v) ELSE IF v = k THEN x ELSE At(v - 1)
    <3>1. v \in 0 .. s - 1
      BY <1>2, <1>4
    <3>2. Pos(s, h, v) \in 0 .. s - 1 /\ (Pos(s, h, v) = Pos(s, h, k) <=> v = k)
      BY <1>4, <3>1, OwnCell
    <3>3. elem'[Pos(s, h, v)] = IF v = k THEN x ELSE m[Pos(s, h, v)]
      BY <1>5, <2>1, <3>2 DEF m
    <3>4. /\ v < k => g.e[Pos(s, h, v)] = At(v)
          /\ k < v => g.e[Pos(s, h, v - 1)] = At(v - 1)
      BY <1>1, <1>2
    <3> QED
      BY <1>2, <2>3, <3>3, <3>4
  <2> QED
    BY <1>1, <1>5, <2>1, <2>2, <2>4 DEF m
<1>6. CASE /\ elem' = [MovedDown(g.e, s, (h - 1) % s, k) EXCEPT ![(h - 1 + k) % s] = x]
           /\ head' = (h - 1) % s /\ tail' = g.t
  <2> DEFINE b == (h - 1) % s
             m == MovedDown(g.e, s, b, k)
  <2>1. /\ b \in 0 .. s - 1 /\ (h - 1 + k) % s = Pos(s, b, k)
        /\ \A v \in 0 .. s - 1 : Pos(s, b, v + 1) = Pos(s, h, v)
    BY <1>1, <1>4, PosShift
  <2> HIDE DEF b
  <2>2. m \in [0 .. s - 1 -> E] /\ x \in E
    BY <1>1, <1>4, MovedType DEF E
  <2>3. tail' = Pos(s, b, count + 1)
    BY <1>1, <1>4, <1>6, <2>1
  <2>4. b = Pos(s, b, 0)
    BY <1>4, <2>1, PosNext
  <2>5. ASSUME NEW v \in 0 .. count
        PROVE  m[Pos(s, b, v)] = IF v < k THEN g.e[Pos(s, b, v + 1)] ELSE g.e[Pos(s, b, v)]
    <3>1. v \in 0 .. s - 1 /\ b \in 0 .. s - 1
      BY <1>2, <1>4, <2>1
    <3> DEFINE e == g.e  c == 0
    <3>2. c \in 0 .. s - 1 /\ k \in Nat /\ c + k <= s
      BY <1>4
    <3> HIDE DEF e, c
    <3>3. MovedDown(e, s, Pos(s, b, c), k)[Pos(s, b, v)] =
            IF c <= v /\ v - c < k THEN e[Pos(s, b, v + 1)] ELSE e[Pos(s, b, v)]
      BY <1>4, <3>1, <3>2, MovedDownAt
    <3> QED
      BY <1>2, <1>4, <2>4, <3>3 DEF e, c, m
  <2> HIDE DEF m
  <2>6. ASSUME NEW v \in 0 .. count
        PROVE  elem'[Pos(s, b, v)] = IF v < k THEN At(v) ELSE IF v = k THEN x ELSE At(v - 1)
    <3> b \in 0 .. s - 1
      BY <2>1
    <3>1. v \in 0 .. s - 1
      BY <1>2, <1>4
    <3>2. Pos(s, b, v) \in 0 .. s - 1 /\ (Pos(s, b, v) = Pos(s, b, k) <=> v = k)
      BY <1>4, <3>1, OwnCell
    <3>3. elem'[Pos(s, b, v)] = IF v = k THEN x ELSE m[Pos(s, b, v)]
      BY <1>6, <2>1, <2>2, <3>2 DEF m, b
    <3>4. /\ Pos(s, b, v + 1) = Pos(s, h, v)
          /\ k < v => Pos(s, b, v) = Pos(s, h, v - 1)
      <4>1. k < v => v - 1 \in 0 .. s - 1 /\ (v - 1) + 1 = v
        BY <1>4, <3>1
      <4> QED
        BY <2>1, <3>1, <4>1
    <3>5. /\ v < k => g.e[Pos(s, h, v)] = At(v)
          /\ k < v => g.e[Pos(s, h, v - 1)] = At(v - 1)
      BY <1>1, <1>2
    <3> QED
      BY <1>2, <2>5, <3>3, <3>4, <3>5
  <2>7. head' = b /\ elem' \in [0 .. s - 1 -> E]
    BY <1>6, <2>2 DEF m, b
  <2> QED
    BY <2>1, <2>3, <2>6, <2>7
<1> QED
  BY <1>2, <1>5, <1>6

LEMMA DropKeeps ==
  ASSUME VecOK, NEW k \in 0 .. count - 1, DropAt(k)
  PROVE  /\ VecOK' /\ count' = count - 1
         /\ \A v \in 0 .. count - 2 : At(v)' = IF v < k THEN At(v) ELSE At(v + 1)
<1> DEFINE E == Elem \cup {NULL}
<1>1. /\ size \in Nat \ {0} /\ size >= 4 /\ head \in 0 .. size - 1
      /\ elem \in [0 .. size - 1 -> E] /\ tail = Pos(size, head, count)
      /\ count \in 1 .. size /\ count <= MaxCount /\ count \in 0 .. size
      /\ \A v \in 0 .. count - 1 : At(v) \in Elem
  BY DEF VecOK, Cells
<1>2. \A v \in 0 .. count - 1 : elem[Pos(size, head, v)] = At(v)
  BY AtPos
<1>3. /\ count' = count - 1 /\ size' = size
      /\ \/ /\ elem' = [MovedDown(elem, size, Pos(size, head, k), count - k - 1)
                          EXCEPT ![Pos(size, head, count - 1)] = NULL]
            /\ tail' = (tail - 1) % size /\ head' = head
         \/ /\ elem' = [MovedUp(elem, size, Pos(size, head, k), k) EXCEPT ![head] = NULL]
            /\ head' = (head + 1) % size /\ tail' = tail
  <2>1. head + count - 1 = head + (count - 1)
    BY <1>1
  <2> QED
    BY <2>1 DEF DropAt, Pos
<1> HIDE DEF E
<1>4. /\ size \in Nat \ {0} /\ head \in 0 .. size - 1
      /\ k \in 0 .. size - 1 /\ count - 1 \in 0 .. size - 1
  BY <1>1
<1> SUFFICES
      /\ head' \in 0 .. size - 1 /\ elem' \in [0 .. size - 1 -> E]
      /\ tail' = Pos(size, head', count - 1)
      /\ \A v \in 0 .. count - 2 :
           elem'[Pos(size, head', v)] = IF v < k THEN At(v) ELSE At(v + 1)
  <2>1. \A v \in 0 .. count - 2 : At(v)' = IF v < k THEN At(v) ELSE At(v + 1)
    BY <1>3 DEF At, Pos
  <2>2. \A v \in 0 .. count' - 1 : At(v)' \in Elem
    BY <1>1, <1>3, <2>1
  <2>3. count' \in 0 .. size' /\ count' <= MaxCount
    BY <1>1, <1>3, MaxCountAssumption
  <2> QED
    BY <1>1, <1>3, <2>1, <2>2, <2>3, Relaid DEF E
<1>5. CASE /\ elem' = [MovedDown(elem, size, Pos(size, head, k), count - k - 1)
                         EXCEPT ![Pos(size, head, count - 1)] = NULL]
           /\ tail' = (tail - 1) % size /\ head' = head
  <2> DEFINE m == MovedDown(elem, size, Pos(size, head, k), count - k - 1)
  <2>1. m \in [0 .. size - 1 -> E] /\ NULL \in E
    BY <1>1, MovedType DEF E
  <2>2. tail' = Pos(size, head, count - 1)
    BY <1>1, <1>5, PosNext
  <2>3. ASSUME NEW v \in 0 .. count - 2
        PROVE  m[Pos(size, head, v)] = IF k <= v THEN elem[Pos(size, head, v + 1)]
                                       ELSE elem[Pos(size, head, v)]
    <3>1. v \in 0 .. size - 1 /\ count - k - 1 \in Nat /\ k + (count - k - 1) <= size
      BY <1>1
    <3>2. ASSUME NEW n \in Nat, k + n <= size
          PROVE  MovedDown(elem, size, Pos(size, head, k), n)[Pos(size, head, v)] =
                   IF k <= v /\ v - k < n
                   THEN elem[Pos(size, head, v + 1)] ELSE elem[Pos(size, head, v)]
      <4>1. /\ size \in Nat \ {0} /\ head \in 0 .. size - 1
            /\ k \in 0 .. size - 1 /\ v \in 0 .. size - 1
        BY <1>4, <3>1
      <4> QED
        BY <3>2, <4>1, MovedDownAt, ZenonT(40)
    <3>3. m[Pos(size, head, v)] = IF k <= v /\ v - k < count - k - 1
                                  THEN elem[Pos(size, head, v + 1)]
                                  ELSE elem[Pos(size, head, v)]
      BY <3>1, <3>2
    <3> QED
      BY <1>1, <3>3
  <2> HIDE DEF m
  <2>4. ASSUME NEW v \in 0 .. count - 2
        PROVE  elem'[Pos(size, head, v)] = IF v < k THEN At(v) ELSE At(v + 1)
    <3>1. v \in 0 .. size - 1 /\ v # count - 1
      BY <1>1
    <3>2. /\ Pos(size, head, v) \in 0 .. size - 1
          /\ Pos(size, head, v) # Pos(size, head, count - 1)
      BY <1>4, <3>1, OwnCell
    <3>3. elem'[Pos(size, head, v)] = m[Pos(size, head, v)]
      BY <1>5, <2>1, <3>2 DEF m
    <3>4. elem[Pos(size, head, v)] = At(v) /\ elem[Pos(size, head, v + 1)] = At(v + 1)
      BY <1>1, <1>2
    <3> QED
      BY <1>1, <2>3, <3>3, <3>4
  <2> QED
    BY <1>1, <1>5, <2>1, <2>2, <2>4 DEF m
<1>6. CASE /\ elem' = [MovedUp(elem, size, Pos(size, head, k), k) EXCEPT ![head] = NULL]
           /\ head' = (head + 1) % size /\ tail' = tail
  <2> DEFINE f == (head + 1) % size
             m == MovedUp(elem, size, Pos(size, head, k), k)
  <2>1. /\ f \in 0 .. size - 1
        /\ \A v \in 0 .. size - 1 : Pos(size, f, v) = Pos(size, head, v + 1)
    BY <1>1, <1>4, PosShift
  <2> HIDE DEF f
  <2>2. m \in [0 .. size - 1 -> E] /\ NULL \in E
    BY <1>1, MovedType DEF E
  <2>3. tail' = Pos(size, f, count - 1)
    <3>1. count - 1 \in 0 .. size - 1 /\ (count - 1) + 1 = count
      BY <1>1
    <3>2. Pos(size, f, count - 1) = Pos(size, head, (count - 1) + 1)
      BY <2>1, <3>1
    <3> QED
      BY <1>1, <1>6, <3>1, <3>2
  <2>4. head = Pos(size, head, 0)
    <3>1. 0 \in 0 .. size
      BY <1>1
    <3> QED
      BY <1>1, <3>1, PosNext
  <2>5. ASSUME NEW u \in 1 .. count - 1
        PROVE  m[Pos(size, head, u)] = IF u <= k THEN elem[Pos(size, head, u - 1)]
                                       ELSE elem[Pos(size, head, u)]
    <3>1. k \in 0 .. k /\ u \in 0 .. size - 1
      BY <1>1
    <3>2. m[Pos(size, head, u)] = IF u <= k /\ k - u < k
                                  THEN elem[Pos(size, head, u - 1)]
                                  ELSE elem[Pos(size, head, u)]
      BY <1>4, <3>1, MovedUpAt
    <3> QED
      BY <1>1, <3>2
  <2> HIDE DEF m
  <2>6. ASSUME NEW v \in 0 .. count - 2
        PROVE  elem'[Pos(size, f, v)] = IF v < k THEN At(v) ELSE At(v + 1)
    <3> DEFINE u == v + 1
    <3>1. u \in 1 .. count - 1 /\ u \in 0 .. size - 1 /\ u # 0 /\ v \in 0 .. size - 1
          /\ 0 \in 0 .. size - 1 /\ u - 1 = v
      BY <1>1
    <3>2. Pos(size, f, v) = Pos(size, head, u)
      BY <2>1, <3>1
    <3>3. elem[Pos(size, head, u - 1)] = At(v) /\ elem[Pos(size, head, u)] = At(u)
      BY <1>1, <1>2, <3>1
    <3> HIDE DEF u
    <3>4. ASSUME NEW z \in 0 .. size - 1, NEW l \in 0 .. size - 1, z # l
          PROVE  /\ Pos(size, head, l) \in 0 .. size - 1
                 /\ Pos(size, head, l) # Pos(size, head, z)
      BY <1>4, <3>4, OwnCell
    <3>5. elem'[Pos(size, head, u)] = m[Pos(size, head, u)]
      BY <1>6, <2>2, <2>4, <3>1, <3>4 DEF m
    <3>6. m[Pos(size, head, u)] = IF u <= k THEN At(v) ELSE At(u)
      BY <2>5, <3>1, <3>3
    <3> QED
      BY <1>1, <3>2, <3>5, <3>6 DEF u
  <2>7. head' = f /\ elem' \in [0 .. size - 1 -> E]
    BY <1>6, <2>2 DEF m, f
  <2> QED
    BY <2>1, <2>3, <2>6, <2>7
<1> QED
  BY <1>3, <1>5, <1>6

LEMMA SetKeeps ==
  ASSUME VecOK, NEW x \in Elem, NEW k \in 0 .. count - 1,
         elem' = [elem EXCEPT ![(head + k) % size] = x], UNCHANGED <<size, head, tail, count>>
  PROVE  /\ VecOK'
         /\ \A v \in 0 .. count - 1 : At(v)' = IF v = k THEN x ELSE At(v)
<1>1. /\ size \in Nat \ {0} /\ head \in 0 .. size - 1 /\ k \in 0 .. size - 1
      /\ count \in 0 .. size
  BY DEF VecOK, Cells
<1>2. elem \in [0 .. size - 1 -> Elem \cup {NULL}] /\ size' = size /\ count' = count
      /\ elem' = [elem EXCEPT ![Pos(size, head, k)] = x] /\ head' = head
      /\ \A v \in 0 .. count - 1 : At(v) \in Elem
  BY DEF VecOK, Cells, Pos
<1>3. ASSUME NEW v \in 0 .. count - 1
      PROVE  elem'[Pos(size, head, v)] = IF v = k THEN x ELSE elem[Pos(size, head, v)]
  <2>1. v \in 0 .. size - 1
    BY <1>1
  <2>2. Pos(size, head, v) \in 0 .. size - 1 /\ (Pos(size, head, v) = Pos(size, head, k) <=> v = k)
    BY <1>1, <2>1, OwnCell
  <2> QED
    BY <1>2, <2>2
<1>4. \A v \in 0 .. count - 1 : At(v)' = IF v = k THEN x ELSE At(v)
  BY <1>2, <1>3, AtPos DEF At, Pos
<1>5. \A v \in 0 .. count - 1 : At(v)' \in Elem
  BY <1>2, <1>4
<1>6. elem' \in [0 .. size - 1 -> Elem \cup {NULL}]
  BY <1>2
<1> QED
  BY <1>2, <1>4, <1>5, <1>6 DEF VecOK, Cells

LEMMA ClearKeeps ==
  ASSUME VecOK, Clear
  PROVE  VecOK'
<1>1. size \in Nat \ {0} /\ 0 \in 0 .. size - 1 /\ 0 \in 0 .. size
  BY DEF VecOK
<1>2. Pos(size, 0, 0) = 0
  BY <1>1, PosNext
<1> QED
  BY <1>1, <1>2, MaxCountAssumption DEF VecOK, Clear, Cells

(* The element looked for is found at its first place. *)
LEMMA FirstFound ==
  ASSUME VecOK, NEW x, Has(x)
  PROVE  /\ First(x) \in 0 .. count - 1 /\ At(First(x)) = x
         /\ \A l \in 0 .. First(x) - 1 : At(l) # x
<1> DEFINE T == {k \in 0 .. count - 1 : At(k) = x}
<1>1. count \in Nat
  BY DEF VecOK
<1>2. T \subseteq Nat /\ T # {}
  BY <1>1 DEF Has
<1>3. PICK m \in T : \A y \in T : ~ (<<y, m>> \in OpToRel(<, Nat))
  BY <1>2, NatLessThanWellFounded, WFMin
<1>4. ASSUME NEW l \in 0 .. m - 1
      PROVE  At(l) # x
  <2>1. SUFFICES ASSUME At(l) = x PROVE FALSE
    OBVIOUS
  <2>2. m \in Nat /\ l \in Nat /\ l < m /\ l \in T
    BY <1>1, <2>1
  <2>3. <<l, m>> \in OpToRel(<, Nat)
    BY <2>2 DEF OpToRel
  <2> QED
    BY <1>3, <2>2, <2>3
<1>5. m \in 0 .. count - 1 /\ At(m) = x
  OBVIOUS
<1> HIDE DEF T
<1>6. \E k \in 0 .. count - 1 : At(k) = x /\ \A l \in 0 .. k - 1 : At(l) # x
  BY <1>4, <1>5
<1> QED
  BY <1>6 DEF First

-----------------------------------------------------------------------------
LEMMA InitOK == Init => IInv
<1> SUFFICES ASSUME Init PROVE IInv
  OBVIOUS
<1>1. size \in Nat /\ size >= 4 /\ head = 0 /\ tail = 0 /\ count = 0
  BY InitialAssumption DEF Init
<1>2. Pos(size, 0, 0) = 0
  <2>1. size \in Nat \ {0} /\ 0 \in 0 .. size - 1 /\ 0 \in 0 .. size
    BY <1>1
  <2> QED
    BY <2>1, PosNext
<1> QED
  BY <1>1, <1>2, MaxCountAssumption DEF Init, IInv, VecOK, ResultOK, Cells

(* A call that leaves the vector alone. *)
LEMMA VecStays ==
  ASSUME VecOK, UNCHANGED vec
  PROVE  VecOK'
BY DEF VecOK, vec, Cells, At

LEMMA FailsKeeps ==
  ASSUME IInv, NEW e \in {"BOUNDS", "NOT_FOUND", "EMPTY"}, Fails(e)
  PROVE  IInv'
BY VecStays DEF Fails, Returns, IInv, ResultOK, Indices

LEMMA DropInv ==
  ASSUME IInv, NEW k \in 0 .. count - 1, DropAt(k)
  PROVE  IInv'
<1>1. VecOK'
  BY DropKeeps DEF IInv
<1>2. error_code' = "OK" /\ ret' = At(k) /\ At(k) \in Elem
  BY DEF IInv, VecOK, DropAt, Returns
<1> QED
  BY <1>1, <1>2 DEF IInv, ResultOK

LEMMA StepOK == IInv /\ [Next]_vars => IInv'
<1> SUFFICES ASSUME IInv, [Next]_vars PROVE IInv'
  OBVIOUS
<1>0. /\ VecOK /\ count \in Nat /\ count <= MaxCount /\ MaxCount \in Nat
      /\ \A v \in 0 .. count - 1 : At(v) \in Elem
  BY MaxCountAssumption DEF IInv, VecOK
<1>1. ASSUME NEW x \in Elem, Add(x) PROVE IInv'
  <2>1. error_code' = "OK" /\ ret' = NULL
    BY <1>1 DEF Add, Returns
  <2> QED
    BY <1>0, <1>1, <2>1, AddKeeps DEF IInv, ResultOK
<1>2. ASSUME NEW x \in Elem, IndexOf(x) PROVE IInv'
  <2>1. VecOK'
    BY <1>0, <1>2, VecStays DEF IndexOf
  <2>2. CASE Has(x)
    <3>1. First(x) \in Indices
      BY <1>0, <2>2, FirstFound DEF Indices
    <3> QED
      BY <1>2, <2>1, <2>2, <3>1 DEF IndexOf, Returns, IInv, ResultOK, Indices
  <2>3. CASE ~ Has(x)
    <3>1. -1 \in Indices
      BY <1>0 DEF Indices
    <3> QED
      BY <1>2, <2>1, <2>3, <3>1 DEF IndexOf, Returns, IInv, ResultOK, Indices
  <2> QED
    BY <2>2, <2>3
<1>3. ASSUME NEW x \in Elem, RemoveElem(x) PROVE IInv'
  BY <1>0, <1>3, FirstFound, DropInv, FailsKeeps DEF RemoveElem
<1>4. ASSUME NEW k \in Indices, Get(k) PROVE IInv'
  <2>1. CASE InRange(k)
    <3>1. At(k) \in Elem
      BY <1>0, <2>1 DEF InRange, Indices
    <3> QED
      BY <1>0, <1>4, <2>1, <3>1, VecStays DEF Get, Returns, IInv, ResultOK, Indices
  <2>2. CASE ~ InRange(k)
    BY <1>4, <2>2, FailsKeeps DEF Get
  <2> QED
    BY <2>1, <2>2
<1>5. ASSUME NEW k \in Indices, Delete(k) PROVE IInv'
  BY <1>0, <1>5, DropInv, FailsKeeps DEF Delete, InRange, Indices
<1>6. ASSUME NEW k \in Indices, NEW x \in Elem, Set(k, x) PROVE IInv'
  <2>1. CASE InRange(k)
    <3>1. k \in 0 .. count - 1
      BY <1>0, <2>1 DEF InRange, Indices
    <3> QED
      BY <1>0, <1>6, <2>1, <3>1, SetKeeps DEF Set, Returns, IInv, ResultOK
  <2>2. CASE ~ InRange(k)
    BY <1>6, <2>2, FailsKeeps DEF Set
  <2> QED
    BY <2>1, <2>2
<1>7. ASSUME NEW k \in Indices, NEW x \in Elem, Insert(k, x) PROVE IInv'
  <2>1. CASE k \in 0 .. count
    <3>1. error_code' = "OK" /\ ret' = NULL
      BY <1>0, <1>7, <2>1 DEF Insert, Returns
    <3> QED
      BY <1>0, <1>7, <2>1, <3>1, InsertKeeps DEF IInv, ResultOK
  <2>2. CASE k \notin 0 .. count
    BY <1>0, <1>7, <2>2, FailsKeeps DEF Insert, Indices
  <2> QED
    BY <2>1, <2>2
<1>8. CASE Clear
  BY <1>0, <1>8, ClearKeeps DEF Clear, Returns, IInv, ResultOK
<1>9. CASE Pop
  BY <1>0, <1>9, DropInv, FailsKeeps DEF Pop
<1>10. CASE Dequeue
  BY <1>0, <1>10, DropInv, FailsKeeps DEF Dequeue
<1>11. CASE Top
  <2>1. CASE count # 0
    BY <1>0, <1>11, <2>1, VecStays DEF Top, Returns, IInv, ResultOK
  <2> QED
    BY <1>11, <2>1, FailsKeeps DEF Top
<1>12. CASE Bottom
  <2>1. CASE count # 0
    BY <1>0, <1>12, <2>1, VecStays DEF Bottom, Returns, IInv, ResultOK
  <2> QED
    BY <1>12, <2>1, FailsKeeps DEF Bottom
<1>13. CASE UNCHANGED vars
  BY <1>0, <1>13, VecStays DEF vars, IInv, ResultOK
<1> QED
  BY <1>1, <1>2, <1>3, <1>4, <1>5, <1>6, <1>7, <1>8, <1>9, <1>10, <1>11, <1>12, <1>13
     DEF Next

(* The strengthened invariant holds in every reachable state. *)
THEOREM Invariance == Spec => []IInv
  BY InitOK, StepOK, PTL DEF Spec

(* Through every sequence of calls, for every set of elements and every      *)
(* initial size: head, tail and count agree, the count never exceeds the     *)
(* size, and no cell of the list is null.                                    *)
THEOREM InvAlways == Spec => []Inv
<1>1. IInv => Inv
  BY IInvGivesInv
<1> QED
  BY <1>1, Invariance, PTL

-----------------------------------------------------------------------------
(* The refinement: the cells from the head on as a sequence. *)
LEMMA ItemsSeq ==
  ASSUME VecOK
  PROVE  /\ Items \in Seq(Elem) /\ Len(Items) = count /\ DOMAIN Items = 1 .. count
         /\ \A u \in 1 .. count : Items[u] = At(u - 1)
         /\ (Items = <<>> <=> count = 0)
<1>1. count \in Nat /\ \A k \in 0 .. count - 1 : At(k) \in Elem
  BY DEF VecOK
<1>2. ASSUME NEW u \in 1 .. count PROVE At(u - 1) \in Elem
  BY <1>1
<1>3. Items \in [1 .. count -> Elem]
  BY <1>2 DEF Items
<1>4. Items \in Seq(Elem) /\ Len(Items) = count
  BY <1>1, <1>3
<1> QED
  BY <1>1, <1>3, <1>4, EmptySeq DEF Items

LEMMA ItemsNext ==
  ASSUME VecOK', NEW t \in Seq(Elem), Len(t) = count',
         \A u \in 1 .. count' : t[u] = At(u - 1)'
  PROVE  Items' = t
<1>1. Items' = [u \in 1 .. count' |-> At(u - 1)']
  BY DEF Items
<1>2. count' \in Nat
  BY DEF VecOK
<1>3. t \in [1 .. count' -> Elem]
  BY LenProperties
<1> QED
  BY <1>1, <1>2, <1>3

LEMMA InsertedAt ==
  ASSUME NEW S, NEW s \in Seq(S), NEW x \in S, NEW n \in 1 .. Len(s) + 1
  PROVE  /\ Abstract!InsertAt(s, n, x) \in Seq(S)
         /\ Len(Abstract!InsertAt(s, n, x)) = Len(s) + 1
         /\ \A u \in 1 .. Len(s) + 1 :
              Abstract!InsertAt(s, n, x)[u] = IF u < n THEN s[u] ELSE IF u = n THEN x ELSE s[u - 1]
<1> DEFINE l == SubSeq(s, 1, n - 1)
           r == SubSeq(s, n, Len(s))
<1>1. Len(s) \in Nat /\ n \in Int /\ n - 1 \in Int /\ 1 \in Int /\ Len(s) \in Int
  BY LenProperties
<1>2. l \in Seq(S) /\ Len(l) = n - 1 /\ \A u \in 1 .. n - 1 : l[u] = s[u]
  <2>1. \A u \in 1 .. n - 1 : s[u] \in S
    BY <1>1, ElementOfSeq
  <2> QED
    BY <1>1, <2>1, SubSeqProperties
<1>3. /\ r \in Seq(S) /\ Len(r) = Len(s) - n + 1
      /\ \A u \in 1 .. Len(s) - n + 1 : r[u] = s[n + u - 1]
  <2>1. \A u \in n .. Len(s) : s[u] \in S
    BY <1>1, ElementOfSeq
  <2> QED
    BY <1>1, <2>1, SubSeqProperties
<1> HIDE DEF l, r
<1>4. <<x>> \in Seq(S) /\ Len(<<x>>) = 1 /\ <<x>>[1] = x
  OBVIOUS
<1>5. /\ l \o <<x>> \in Seq(S) /\ Len(l \o <<x>>) = n
      /\ \A u \in 1 .. n : (l \o <<x>>)[u] = IF u < n THEN s[u] ELSE x
  BY <1>1, <1>2, <1>4, ConcatProperties
<1>6. /\ (l \o <<x>>) \o r \in Seq(S) /\ Len((l \o <<x>>) \o r) = Len(s) + 1
      /\ \A u \in 1 .. Len(s) + 1 :
           ((l \o <<x>>) \o r)[u] = IF u <= n THEN (l \o <<x>>)[u] ELSE r[u - n]
  BY <1>1, <1>3, <1>5, ConcatProperties
<1>7. ASSUME NEW u \in 1 .. Len(s) + 1
      PROVE  ((l \o <<x>>) \o r)[u] = IF u < n THEN s[u] ELSE IF u = n THEN x ELSE s[u - 1]
  <2>1. u > n => r[u - n] = s[u - 1]
    BY <1>1, <1>3
  <2> QED
    BY <1>1, <1>5, <1>6, <2>1
<1>8. Abstract!InsertAt(s, n, x) = (l \o <<x>>) \o r
  BY DEF Abstract!InsertAt, l, r
<1> QED
  BY <1>6, <1>7, <1>8

LEMMA RemovedAt ==
  ASSUME NEW S, NEW s \in Seq(S), NEW n \in 1 .. Len(s)
  PROVE  /\ Abstract!RemoveAt(s, n) \in Seq(S)
         /\ Len(Abstract!RemoveAt(s, n)) = Len(s) - 1
         /\ \A u \in 1 .. Len(s) - 1 :
              Abstract!RemoveAt(s, n)[u] = IF u < n THEN s[u] ELSE s[u + 1]
<1> DEFINE l == SubSeq(s, 1, n - 1)
           r == SubSeq(s, n + 1, Len(s))
<1>1. /\ Len(s) \in Nat /\ n \in Int /\ n - 1 \in Int /\ 1 \in Int /\ Len(s) \in Int
      /\ n + 1 \in Int
  BY LenProperties
<1>2. l \in Seq(S) /\ Len(l) = n - 1 /\ \A u \in 1 .. n - 1 : l[u] = s[u]
  <2>1. \A u \in 1 .. n - 1 : s[u] \in S
    BY <1>1, ElementOfSeq
  <2> QED
    BY <1>1, <2>1, SubSeqProperties
<1>3. /\ r \in Seq(S) /\ Len(r) = Len(s) - n
      /\ \A u \in 1 .. Len(s) - n : r[u] = s[n + u]
  <2>1. \A u \in n + 1 .. Len(s) : s[u] \in S
    BY <1>1, ElementOfSeq
  <2> QED
    BY <1>1, <2>1, SubSeqProperties
<1> HIDE DEF l, r
<1>4. /\ l \o r \in Seq(S) /\ Len(l \o r) = Len(s) - 1
      /\ \A u \in 1 .. Len(s) - 1 : (l \o r)[u] = IF u <= n - 1 THEN l[u] ELSE r[u - (n - 1)]
  <2>1. /\ l \o r \in Seq(S) /\ Len(l \o r) = Len(l) + Len(r)
        /\ \A u \in 1 .. Len(l) + Len(r) :
             (l \o r)[u] = IF u <= Len(l) THEN l[u] ELSE r[u - Len(l)]
    BY <1>2, <1>3, ConcatProperties
  <2>2. Len(l) + Len(r) = Len(s) - 1
    BY <1>1, <1>2, <1>3
  <2> QED
    BY <1>2, <2>1, <2>2
<1>5. ASSUME NEW u \in 1 .. Len(s) - 1
      PROVE  (l \o r)[u] = IF u < n THEN s[u] ELSE s[u + 1]
  <2>1. u >= n => r[u - (n - 1)] = s[u + 1]
    BY <1>1, <1>3
  <2> QED
    BY <1>1, <1>2, <1>4, <2>1
<1>6. Abstract!RemoveAt(s, n) = l \o r
  BY DEF Abstract!RemoveAt, l, r
<1> QED
  BY <1>4, <1>5, <1>6

(* The vector's search is the sequence's. *)
LEMMA SameSearch ==
  ASSUME VecOK, NEW x \in Elem
  PROVE  /\ Has(x) <=> x \in Abstract!ToSet(Items)
         /\ Has(x) => Abstract!SelectInSeq(Items, LAMBDA y : y = x) - 1 = First(x)
<1> DEFINE I == {u \in 1 .. Len(Items) : Items[u] = x}
<1>1. count \in Nat /\ Len(Items) = count /\ DOMAIN Items = 1 .. count
      /\ \A u \in 1 .. count : Items[u] = At(u - 1)
  BY ItemsSeq DEF VecOK
<1>2. Has(x) <=> x \in Abstract!ToSet(Items)
  <2>1. ASSUME NEW k \in 0 .. count - 1, At(k) = x
        PROVE  k + 1 \in DOMAIN Items /\ Items[k + 1] = x
    BY <1>1, <2>1
  <2>2. ASSUME NEW u \in DOMAIN Items, Items[u] = x
        PROVE  u - 1 \in 0 .. count - 1 /\ At(u - 1) = x
    BY <1>1, <2>2
  <2> QED
    BY <2>1, <2>2 DEF Has, Abstract!ToSet
<1>3. ASSUME Has(x)
      PROVE  Abstract!SelectInSeq(Items, LAMBDA y : y = x) - 1 = First(x)
  <2> DEFINE f == First(x)
  <2>1. f \in 0 .. count - 1 /\ At(f) = x /\ \A l \in 0 .. f - 1 : At(l) # x
    BY <1>3, FirstFound
  <2> HIDE DEF f
  <2>2. f + 1 \in I
    BY <1>1, <2>1
  <2>3. ASSUME NEW u \in I PROVE f + 1 <= u
    <3>1. u \in 1 .. count /\ At(u - 1) = x /\ u - 1 \in 0 .. count - 1
      BY <1>1
    <3> QED
      BY <1>1, <2>1, <3>1
  <2>4. Abstract!SelectInSeq(Items, LAMBDA y : y = x) = Abstract!Min(I)
    BY <2>2 DEF Abstract!SelectInSeq
  <2>5. \A u \in I : u \in Int
    BY <1>1
  <2> HIDE DEF I
  <2>6. Abstract!Min(I) = f + 1
    <3>1. Abstract!Min(I) = CHOOSE u \in I : \A l \in I : u <= l
      BY DEF Abstract!Min
    <3>2. ASSUME NEW u \in I, \A l \in I : u <= l
          PROVE  u = f + 1
      BY <2>1, <2>2, <2>3, <2>5, <3>2
    <3> QED
      BY <2>2, <2>3, <3>1, <3>2
  <2> QED
    BY <2>1, <2>4, <2>6 DEF f
<1> QED
  BY <1>2, <1>3

LEMMA InitMaps == Init => Abstract!Init
<1> SUFFICES ASSUME Init PROVE Abstract!Init
  OBVIOUS
<1>1. VecOK
  BY InitOK DEF IInv
<1> QED
  BY <1>1, ItemsSeq DEF Init, Abstract!Init

LEMMA ItemsStay ==
  ASSUME UNCHANGED vec
  PROVE  Items' = Items
BY DEF vec, Items, At

LEMMA FailsMaps ==
  ASSUME NEW e, Fails(e)
  PROVE  Abstract!Fails(e)
BY ItemsStay DEF Fails, Abstract!Fails, Returns, Abstract!Returns

LEMMA DropMaps ==
  ASSUME VecOK, NEW k \in 0 .. count - 1, DropAt(k)
  PROVE  Abstract!DropAt(k)
<1>1. /\ count \in Nat /\ Items \in Seq(Elem) /\ Len(Items) = count
      /\ \A u \in 1 .. count : Items[u] = At(u - 1)
  BY ItemsSeq DEF VecOK
<1>2. /\ VecOK' /\ count' = count - 1
      /\ \A v \in 0 .. count - 2 : At(v)' = IF v < k THEN At(v) ELSE At(v + 1)
  BY DropKeeps
<1> DEFINE n == k + 1
           t == Abstract!RemoveAt(Items, n)
<1>3. n \in 1 .. Len(Items) /\ Items[n] = At(k)
  BY <1>1
<1>4. /\ t \in Seq(Elem) /\ Len(t) = count - 1
      /\ \A u \in 1 .. count - 1 : t[u] = IF u < n THEN Items[u] ELSE Items[u + 1]
  BY <1>1, <1>3, RemovedAt
<1> HIDE DEF t
<1>5. ASSUME NEW u \in 1 .. count'
      PROVE  t[u] = At(u - 1)'
  <2> DEFINE v == u - 1
  <2>1. /\ u \in 1 .. count - 1 /\ u \in 1 .. count /\ u + 1 \in 1 .. count
        /\ v \in 0 .. count - 2 /\ v + 1 = u /\ (u < n <=> v < k)
    BY <1>1, <1>2
  <2>2. t[u] = IF u < n THEN Items[u] ELSE Items[u + 1]
    BY <1>4, <2>1
  <2>3. Items[u] = At(v) /\ Items[u + 1] = At(v + 1)
    BY <1>1, <2>1
  <2> HIDE DEF v
  <2>4. At(v)' = IF v < k THEN At(v) ELSE At(v + 1)
    BY <1>2, <2>1
  <2> QED
    BY <2>1, <2>2, <2>3, <2>4 DEF v
<1>6. Items' = t
  BY <1>2, <1>4, <1>5, ItemsNext
<1> QED
  BY <1>3, <1>6 DEF DropAt, Abstract!DropAt, Returns, Abstract!Returns, t

LEMMA AddMaps ==
  ASSUME VecOK, NEW x \in Elem, Add(x)
  PROVE  Abstract!Add(x)
<1>1. /\ count \in Nat /\ Items \in Seq(Elem) /\ Len(Items) = count
      /\ \A u \in 1 .. count : Items[u] = At(u - 1)
  BY ItemsSeq DEF VecOK
<1>2. /\ VecOK' /\ count' = count + 1
      /\ \A v \in 0 .. count : At(v)' = IF v = count THEN x ELSE At(v)
  BY AddKeeps
<1> DEFINE t == Append(Items, x)
<1>3. /\ t \in Seq(Elem) /\ Len(t) = count + 1
      /\ \A u \in 1 .. count + 1 : t[u] = IF u = count + 1 THEN x ELSE Items[u]
  BY <1>1
<1> HIDE DEF t
<1>4. ASSUME NEW u \in 1 .. count'
      PROVE  t[u] = At(u - 1)'
  <2>1. u - 1 \in 0 .. count /\ (u = count + 1 <=> u - 1 = count) /\ u \in 1 .. count + 1
    BY <1>1, <1>2
  <2>2. At(u - 1)' = IF u - 1 = count THEN x ELSE At(u - 1)
    BY <1>2, <2>1
  <2>3. u # count + 1 => Items[u] = At(u - 1)
    BY <1>1, <2>1
  <2> QED
    BY <1>3, <2>1, <2>2, <2>3
<1>5. Items' = t
  BY <1>2, <1>3, <1>4, ItemsNext
<1> QED
  BY <1>1, <1>5 DEF Add, Abstract!Add, Returns, Abstract!Returns, t

LEMMA InsertMaps ==
  ASSUME VecOK, NEW x \in Elem, NEW k \in Indices, Insert(k, x)
  PROVE  Abstract!Insert(k, x)
<1>1. /\ count \in Nat /\ Items \in Seq(Elem) /\ Len(Items) = count /\ k \in Int
      /\ \A u \in 1 .. count : Items[u] = At(u - 1)
  BY ItemsSeq, MaxCountAssumption DEF VecOK, Indices
<1>2. CASE k \in 0 .. count
  <2>1. /\ VecOK' /\ count' = count + 1
        /\ \A v \in 0 .. count : At(v)' = IF v < k THEN At(v)
                                          ELSE IF v = k THEN x ELSE At(v - 1)
    BY <1>2, InsertKeeps
  <2> DEFINE n == k + 1
             t == Abstract!InsertAt(Items, n, x)
  <2>2. n \in 1 .. Len(Items) + 1
    BY <1>1, <1>2
  <2>3. /\ t \in Seq(Elem) /\ Len(t) = count + 1
        /\ \A u \in 1 .. count + 1 :
             t[u] = IF u < n THEN Items[u] ELSE IF u = n THEN x ELSE Items[u - 1]
    <3>1. ASSUME NEW m \in 1 .. Len(Items) + 1
          PROVE  /\ Abstract!InsertAt(Items, m, x) \in Seq(Elem)
                 /\ Len(Abstract!InsertAt(Items, m, x)) = Len(Items) + 1
                 /\ \A u \in 1 .. Len(Items) + 1 : Abstract!InsertAt(Items, m, x)[u] =
                      IF u < m THEN Items[u] ELSE IF u = m THEN x ELSE Items[u - 1]
      <4>1. Items \in Seq(Elem)
        BY <1>1
      <4> QED
        BY <4>1, InsertedAt, SMTT(60)
    <3> HIDE DEF n
    <3> QED
      BY <1>1, <2>2, <3>1
  <2> HIDE DEF t
  <2>4. ASSUME NEW u \in 1 .. count'
        PROVE  t[u] = At(u - 1)'
    <3> DEFINE v == u - 1
    <3>1. /\ u \in 1 .. count + 1 /\ v \in 0 .. count /\ (u < n <=> v < k) /\ (u = n <=> v = k)
      BY <1>1, <2>1
    <3>2. t[u] = IF u < n THEN Items[u] ELSE IF u = n THEN x ELSE Items[u - 1]
      BY <2>3, <3>1
    <3>3. v < k => Items[u] = At(v)
      BY <1>1, <1>2, <3>1
    <3>4. k < v => Items[u - 1] = At(v - 1)
      BY <1>1, <1>2, <3>1
    <3>5. v \in Int
      BY <3>1
    <3> HIDE DEF v
    <3>6. At(v)' = IF v < k THEN At(v) ELSE IF v = k THEN x ELSE At(v - 1)
      BY <2>1, <3>1
    <3>7. t[u] = At(v)'
      BY <1>1, <3>1, <3>2, <3>3, <3>4, <3>5, <3>6
    <3> QED
      BY <3>7 DEF v
  <2>5. Items' = t
    BY <2>1, <2>3, <2>4, ItemsNext
  <2>6. count < MaxCount /\ error_code' = "OK" /\ ret' = NULL
    BY <1>1, <1>2 DEF Insert, Returns
  <2> QED
    BY <1>1, <1>2, <2>5, <2>6 DEF Abstract!Insert, Abstract!Returns, t
<1>3. CASE k \notin 0 .. count
  <2>1. count < MaxCount /\ Fails("BOUNDS")
    BY <1>1, <1>3 DEF Insert
  <2> QED
    BY <1>1, <1>3, <2>1, FailsMaps DEF Abstract!Insert
<1> QED
  BY <1>2, <1>3

LEMMA SetMaps ==
  ASSUME VecOK, NEW x \in Elem, NEW k \in Indices, Set(k, x)
  PROVE  Abstract!Set(k, x)
<1>1. /\ count \in Nat /\ Items \in Seq(Elem) /\ Len(Items) = count /\ k \in Int
      /\ \A u \in 1 .. count : Items[u] = At(u - 1)
  BY ItemsSeq, MaxCountAssumption DEF VecOK, Indices
<1>2. CASE InRange(k)
  <2>1. k \in 0 .. count - 1 /\ Abstract!InRange(k)
    BY <1>1, <1>2 DEF InRange, Abstract!InRange
  <2>2. elem' = [elem EXCEPT ![(head + k) % size] = x] /\ UNCHANGED <<size, head, tail, count>>
        /\ error_code' = "OK" /\ ret' = NULL
    BY <1>2 DEF Set, Returns
  <2>3. VecOK' /\ \A v \in 0 .. count - 1 : At(v)' = IF v = k THEN x ELSE At(v)
    BY <2>1, <2>2, SetKeeps
  <2> DEFINE t == [Items EXCEPT ![k + 1] = x]
  <2>4. t \in Seq(Elem) /\ Len(t) = count
        /\ \A u \in 1 .. count : t[u] = IF u = k + 1 THEN x ELSE Items[u]
    <3>1. k + 1 \in 1 .. Len(Items)
      BY <1>1, <2>1
    <3> QED
      BY <1>1, <3>1, ExceptSeq
  <2> HIDE DEF t
  <2>5. ASSUME NEW u \in 1 .. count'
        PROVE  t[u] = At(u - 1)'
    <3>1. u \in 1 .. count /\ u - 1 \in 0 .. count - 1 /\ (u = k + 1 <=> u - 1 = k)
      BY <1>1, <2>2
    <3>2. At(u - 1)' = IF u - 1 = k THEN x ELSE At(u - 1)
      BY <2>3, <3>1
    <3> QED
      BY <1>1, <2>4, <3>1, <3>2
  <2>6. Items' = t
    BY <2>2, <2>3, <2>4, <2>5, ItemsNext
  <2> QED
    BY <2>1, <2>2, <2>6 DEF Abstract!Set, Abstract!Returns, t
<1>3. CASE ~ InRange(k)
  <2>1. ~ Abstract!InRange(k)
    BY <1>1, <1>3 DEF InRange, Abstract!InRange
  <2> QED
    BY <1>3, <2>1, FailsMaps DEF Set, Abstract!Set
<1> QED
  BY <1>2, <1>3

LEMMA StepMaps == IInv /\ [Next]_vars => [Abstract!Next]_(Abstract!vars)
<1> SUFFICES ASSUME IInv, [Next]_vars PROVE Abstract!Next \/ UNCHANGED Abstract!vars
  OBVIOUS
<1> USE DEF Returns, Abstract!Returns
<1>0. /\ VecOK /\ count \in Nat /\ Len(Items) = count
      /\ \A u \in 1 .. count : Items[u] = At(u - 1)
      /\ (Items = <<>> <=> count = 0)
  BY ItemsSeq DEF IInv, VecOK
<1>a. ASSUME NEW k \in Indices
      PROVE  /\ InRange(k) <=> Abstract!InRange(k)
             /\ InRange(k) => k \in 0 .. count - 1 /\ Items[k + 1] = At(k)
  <2>1. k \in Int
    BY MaxCountAssumption DEF Indices
  <2>2. InRange(k) => k + 1 \in 1 .. count /\ (k + 1) - 1 = k
    BY <1>0, <2>1 DEF InRange
  <2> QED
    BY <1>0, <2>1, <2>2 DEF InRange, Abstract!InRange
<1>1. ASSUME NEW x \in Elem, Add(x) PROVE Abstract!Add(x)
  BY <1>0, <1>1, AddMaps
<1>2. ASSUME NEW x \in Elem, IndexOf(x) PROVE Abstract!IndexOf(x)
  BY <1>0, <1>2, SameSearch, ItemsStay DEF IndexOf, Abstract!IndexOf
<1>3. ASSUME NEW x \in Elem, RemoveElem(x) PROVE Abstract!RemoveElem(x)
  <2>1. CASE Has(x)
    <3>1. First(x) \in 0 .. count - 1 /\ DropAt(First(x))
      BY <1>0, <1>3, <2>1, FirstFound DEF RemoveElem
    <3>2. Abstract!DropAt(First(x))
      BY <1>0, <3>1, DropMaps
    <3> QED
      BY <1>0, <2>1, <3>2, SameSearch DEF Abstract!RemoveElem
  <2>2. CASE ~ Has(x)
    BY <1>0, <1>3, <2>2, SameSearch, FailsMaps DEF RemoveElem, Abstract!RemoveElem
  <2> QED
    BY <2>1, <2>2
<1>4. ASSUME NEW k \in Indices, Get(k) PROVE Abstract!Get(k)
  BY <1>a, <1>4, ItemsStay, FailsMaps DEF Get, Abstract!Get
<1>5. ASSUME NEW k \in Indices, Delete(k) PROVE Abstract!Delete(k)
  BY <1>0, <1>a, <1>5, DropMaps, FailsMaps DEF Delete, Abstract!Delete
<1>6. ASSUME NEW k \in Indices, NEW x \in Elem, Set(k, x) PROVE Abstract!Set(k, x)
  BY <1>0, <1>6, SetMaps
<1>7. ASSUME NEW k \in Indices, NEW x \in Elem, Insert(k, x) PROVE Abstract!Insert(k, x)
  BY <1>0, <1>7, InsertMaps
<1>8. CASE Clear
  <2>1. Items' = <<>>
    BY <1>8 DEF Clear, Items
  <2> QED
    BY <1>8, <2>1 DEF Clear, Abstract!Next, Abstract!Clear
<1>9. CASE Pop
  <2>1. CASE count # 0
    BY <1>0, <1>9, <2>1, DropMaps DEF Pop, Abstract!Pop, Abstract!Next
  <2> QED
    BY <1>0, <1>9, <2>1, FailsMaps DEF Pop, Abstract!Pop, Abstract!Next
<1>10. CASE Dequeue
  <2>1. CASE count # 0
    BY <1>0, <1>10, <2>1, DropMaps DEF Dequeue, Abstract!Dequeue, Abstract!Next
  <2> QED
    BY <1>0, <1>10, <2>1, FailsMaps DEF Dequeue, Abstract!Dequeue, Abstract!Next
<1>11. CASE Top
  <2>1. CASE count # 0
    <3>1. Abstract!Last(Items) = At(count - 1)
      BY <1>0, <2>1 DEF Abstract!Last
    <3> QED
      BY <1>0, <1>11, <2>1, <3>1, ItemsStay DEF Top, Abstract!Top, Abstract!Next
  <2> QED
    BY <1>0, <1>11, <2>1, FailsMaps DEF Top, Abstract!Top, Abstract!Next
<1>12. CASE Bottom
  <2>1. CASE count # 0
    <3>1. Head(Items) = At(0)
      BY <1>0, <2>1
    <3> QED
      BY <1>0, <1>12, <2>1, <3>1, ItemsStay DEF Bottom, Abstract!Bottom, Abstract!Next
  <2> QED
    BY <1>0, <1>12, <2>1, FailsMaps DEF Bottom, Abstract!Bottom, Abstract!Next
<1>13. CASE UNCHANGED vars
  BY <1>13, ItemsStay DEF vars, Abstract!vars
<1> USE DEF Abstract!Indices, Indices
<1> QED
  BY <1>1, <1>2, <1>3, <1>4, <1>5, <1>6, <1>7, <1>8, <1>9, <1>10, <1>11, <1>12, <1>13
     DEF Next, Abstract!Next

(* Every call of list.c, seen as a call on the sequence of the elements from *)
(* the head on, does what list.h promises: whatever the elements, wherever   *)
(* the head stands, whichever side moves, however often the vector doubled.  *)
THEOREM Refinement == Spec => ImplementsList
<1>1. Init => Abstract!Init
  BY InitMaps
<1>2. IInv /\ [Next]_vars => [Abstract!Next]_(Abstract!vars)
  BY StepMaps
<1> QED
  BY <1>1, <1>2, Invariance, PTL DEF Spec, ImplementsList, Abstract!Spec

-----------------------------------------------------------------------------
(* The sort.                                                               *)
N         == Len(a)
Indexes   == 0 .. N - 1
InCall    == pc \in {"up", "down", "swap", "recurse"}

SortTypeOK ==
  /\ input \in Seq(Key) /\ a \in Seq(Key) /\ Len(a) = Len(input)
  /\ lo \in Int /\ hi \in Int /\ i \in Int /\ j \in Int
  /\ todo \in Seq(Int \X Int)
  /\ pc \in {"up", "down", "swap", "recurse", "return", "done"}
  /\ InCall => pivot \in Int /\ 0 <= lo /\ lo <= hi /\ hi < N

(* The parts that wait are in the list, the later ones before the earlier   *)
(* ones, and the part of the current call before them all.                 *)
Nested ==
  /\ \A k \in DOMAIN todo : 0 <= todo[k][1] /\ todo[k][2] < N
  /\ \A k \in DOMAIN todo : InCall => hi < todo[k][1]
  /\ \A k, m \in DOMAIN todo : k < m => todo[m][2] < todo[k][1]
  /\ pc = "done" => todo = <<>>

(* The elements the scans have passed or exchanged.                        *)
Sides ==
  /\ \A k \in Indexes : lo <= k /\ k < i => ELEM(k) <= pivot
  /\ \A k \in Indexes : j < k /\ k <= hi => ELEM(k) >= pivot

(* Before the first exchange the pivot at hi stops both scans; after it the *)
(* elements exchanged do, which the two indexes are next to or beyond.      *)
FirstScan  == j = hi /\ lo <= i /\ i <= hi /\ ELEM(hi) = pivot
LaterScans == lo < i /\ j < hi /\ i <= j + 1 /\ lo <= i - 1 /\ i - 1 <= j

Partitioning ==
  /\ pc \in {"up", "down", "swap"} => Sides /\ (FirstScan \/ LaterScans)
  /\ pc \in {"down", "swap"} => ELEM(i) >= pivot
  /\ pc = "swap" => ELEM(j) <= pivot
  /\ pc = "recurse" => Sides /\ lo < i /\ j < hi /\ j < i /\ lo - 1 <= j /\ i <= hi + 1

(* Two elements wait together for the same part to be sorted.              *)
Together(p, q) ==
  \/ InCall /\ lo <= p /\ q <= hi
  \/ \E k \in DOMAIN todo : todo[k][1] <= p /\ q <= todo[k][2]

Apart == \A p, q \in Indexes : p < q => ELEM(p) <= ELEM(q) \/ Together(p, q)

Permuted == \A x \in Key : Count(a, x) = Count(input, x)

QSortInv == SortTypeOK /\ Nested /\ Partitioning /\ Apart /\ Permuted

-----------------------------------------------------------------------------
(* The elements are numbers. *)
LEMMA Elements ==
  ASSUME SortTypeOK
  PROVE  /\ N \in Nat /\ DOMAIN a = 1 .. N
         /\ \A k \in Indexes : k + 1 \in DOMAIN a /\ ELEM(k) \in Key /\ ELEM(k) \in Int
  <1>1. a \in Seq(Key) /\ N \in Nat /\ DOMAIN a = 1 .. N
    BY DEF SortTypeOK, N
  <1>2. ASSUME NEW k \in Indexes PROVE k + 1 \in DOMAIN a
    BY <1>1 DEF Indexes
  <1>3. ASSUME NEW k \in Indexes PROVE a[k + 1] \in Key
    BY <1>1, <1>2
  <1> QED BY <1>1, <1>2, <1>3, SortAssumption DEF ELEM

Exchanged(s, p, q) == [s EXCEPT ![p] = s[q], ![q] = s[p]]

(* An exchange moves the places of a value about and keeps their number.   *)
LEMMA SwapCount ==
  ASSUME NEW S, NEW s \in Seq(S), NEW p \in DOMAIN s, NEW q \in DOMAIN s, NEW t,
         t = Exchanged(s, p, q)
  PROVE  t \in Seq(S) /\ Len(t) = Len(s) /\ \A x : Count(t, x) = Count(s, x)
  <1>0. t \in Seq(S) /\ Len(t) = Len(s)
    <2>1. DOMAIN t = 1 .. Len(s) /\ Len(s) \in Nat
      BY DEF Exchanged
    <2>2. \A k \in 1 .. Len(s) : t[k] \in S
      BY DEF Exchanged
    <2>3. t \in [1 .. Len(s) -> S]
      BY <2>2 DEF Exchanged
    <2> QED BY <2>1, <2>3
  <1> SUFFICES ASSUME NEW x PROVE Count(t, x) = Count(s, x)
    BY <1>0
  <1> DEFINE A == {k \in DOMAIN s : s[k] = x}
             B == {k \in DOMAIN t : t[k] = x}
             f == [k \in A |-> IF k = p THEN q ELSE IF k = q THEN p ELSE k]
  <1>1. /\ DOMAIN t = DOMAIN s /\ t[q] = s[p] /\ t[p] = s[q]
        /\ \A k \in DOMAIN s : k # p /\ k # q => t[k] = s[k]
    BY DEF Exchanged
  <1>2. IsFiniteSet(A)
    <2>1. DOMAIN s = 1 .. Len(s) /\ Len(s) \in Int
      OBVIOUS
    <2>2. IsFiniteSet(1 .. Len(s))
      <3> DEFINE L == Len(s)
      <3>1. 1 \in Int /\ L \in Int
        BY <2>1
      <3> HIDE DEF L
      <3>2. IsFiniteSet(1 .. L)
        BY <3>1, FS_Interval, Zenon
      <3> QED BY <3>2 DEF L
    <2> QED BY <2>1, <2>2, FS_Subset
  <1>3. f \in [A -> B]
    BY <1>1
  <1>4. \A k, m \in A : f[k] = f[m] => k = m
    OBVIOUS
  <1>5. \A m \in B : \E k \in A : f[k] = m
    <2> SUFFICES ASSUME NEW m \in B PROVE \E k \in A : f[k] = m
      OBVIOUS
    <2> DEFINE k == IF m = p THEN q ELSE IF m = q THEN p ELSE m
    <2>1. k \in A /\ f[k] = m
      BY <1>1
    <2> QED BY <2>1
  <1>6. f \in Bijection(A, B)
    <2>1. DOMAIN f = A
      OBVIOUS
    <2> HIDE DEF A, B, f
    <2>2. IsInjective(f)
      BY <1>4, <2>1, Zenon DEF IsInjective
    <2> QED BY <1>3, <1>5, <2>2, Zenon DEF Bijection, Injection, Surjection
  <1>7. Cardinality(B) = Cardinality(A)
    BY <1>2, <1>6, FS_Bijection DEF ExistsBijection
  <1> QED BY <1>7 DEF Count

(* What is outside the part of the current call is in order with all of it. *)
LEMMA Outside ==
  ASSUME QSortInv, InCall, NEW p \in Indexes, NEW r \in Indexes, lo <= r, r <= hi
  PROVE  /\ p < lo => ELEM(p) <= ELEM(r)
         /\ p > hi => ELEM(r) <= ELEM(p)
  <1>1. /\ p \in Int /\ r \in Int /\ lo \in Int /\ hi \in Int
        /\ \A k \in DOMAIN todo : todo[k][1] \in Int /\ todo[k][2] \in Int /\ hi < todo[k][1]
    <2>1. N \in Nat
      BY Elements DEF QSortInv
    <2>2. p \in Int /\ r \in Int
      BY <2>1 DEF Indexes
    <2>3. lo \in Int /\ hi \in Int /\ todo \in Seq(Int \X Int)
      BY DEF QSortInv, SortTypeOK
    <2>4. \A k \in DOMAIN todo : todo[k] \in Int \X Int
      BY <2>3
    <2>5. \A k \in DOMAIN todo : hi < todo[k][1]
      BY DEF QSortInv, Nested
    <2> QED BY <2>2, <2>3, <2>4, <2>5
  <1>2. ASSUME p < lo PROVE ~Together(p, r)
    BY <1>1, <1>2 DEF Together
  <1>3. ASSUME p > hi PROVE ~Together(r, p)
    BY <1>1 , <1>3 DEF Together
  <1>4. p < lo => p < r
    BY <1>1
  <1>5. p > hi => r < p
    BY <1>1
  <1> QED BY <1>2, <1>3, <1>4, <1>5 DEF QSortInv, Apart

(* Steps within a call that leave the list as it is. *)
LEMMA ScanKeeps ==
  ASSUME QSortInv, InCall, pc' \in {"up", "down", "swap", "recurse"},
         UNCHANGED <<a, input, lo, hi, pivot, todo>>, i' \in Int, j' \in Int
  PROVE  SortTypeOK' /\ Nested' /\ Apart' /\ Permuted'
  <1>1. InCall' /\ N' = N /\ Indexes' = Indexes
    BY DEF InCall, N, Indexes
  <1>2. SortTypeOK'
    BY <1>1 DEF QSortInv, SortTypeOK
  <1>3. Nested'
    BY <1>1 DEF QSortInv, Nested, InCall
  <1>4. Apart'
    <2>1. \A p, q : Together(p, q)' <=> Together(p, q)
      BY <1>1 DEF Together
    <2> QED BY <1>1, <2>1 DEF QSortInv, Apart, ELEM
  <1>5. Permuted'
    BY DEF QSortInv, Permuted
  <1> QED BY <1>2, <1>3, <1>4, <1>5

(* Where the indexes of a call are. *)
LEMMA Places ==
  ASSUME QSortInv, pc \in {"up", "down", "swap"}
  PROVE  /\ N \in Nat /\ lo \in Int /\ hi \in Int /\ i \in Int /\ j \in Int /\ pivot \in Int
         /\ 0 <= lo /\ lo <= hi /\ hi < N /\ InCall /\ lo <= i /\ i <= hi /\ lo <= j /\ j <= hi
         /\ \A k \in Indexes : ELEM(k) \in Int
         /\ i \in Indexes /\ j \in Indexes
  <1>1. /\ N \in Nat /\ lo \in Int /\ hi \in Int /\ i \in Int /\ j \in Int /\ pivot \in Int
        /\ 0 <= lo /\ lo <= hi /\ hi < N /\ InCall
        /\ \A k \in Indexes : ELEM(k) \in Int
    BY Elements DEF QSortInv, SortTypeOK, InCall
  <1>2. FirstScan \/ LaterScans
    BY DEF QSortInv, Partitioning
  <1>3. lo <= i /\ i <= hi /\ lo <= j /\ j <= hi
    BY <1>1, <1>2 DEF FirstScan, LaterScans
  <1> QED BY <1>1, <1>3 DEF Indexes

(* The scan upwards stops at the pivot, or at what was exchanged last.     *)
LEMMA ScanUpOK ==
  ASSUME QSortInv, ScanUp PROVE QSortInv'
  <1>1. pc = "up" /\ UNCHANGED <<a, input, lo, hi, j, pivot, todo>>
    BY DEF ScanUp
  <1>2. Sides /\ (FirstScan \/ LaterScans)
    BY <1>1 DEF QSortInv, Partitioning
  <1>3. N' = N /\ Indexes' = Indexes /\ \A k : ELEM(k)' = ELEM(k)
    BY <1>1 DEF N, Indexes, ELEM
  <1>4. CASE ELEM(i) < pivot
    <2>1. i' = i + 1 /\ pc' = "up"
      BY <1>1, <1>4 DEF ScanUp
    <2>2. Sides'
      BY <1>1, <1>2, <1>3, <1>4, <2>1, Places DEF Sides, Indexes, ELEM
    <2>3. FirstScan' \/ LaterScans'
      <3>1. CASE FirstScan
        <4>1. i # hi
          BY <1>1, <1>4, <3>1, Places DEF FirstScan
        <4> QED BY <1>1, <2>1, <3>1, <4>1, Places DEF FirstScan, ELEM
      <3>2. CASE LaterScans
        <4>1. j + 1 \in Indexes /\ ELEM(j + 1) >= pivot
          BY <1>1, <1>2, <3>2, Places DEF LaterScans, Sides, Indexes
        <4>2. i # j + 1
          BY <1>1, <1>4, <4>1, Places
        <4> QED BY <1>1, <2>1, <3>2, <4>2, Places DEF LaterScans
      <3> QED BY <1>2, <3>1, <3>2
    <2>4. Partitioning'
      BY <2>1, <2>2, <2>3 DEF Partitioning
    <2>5. i' \in Int /\ j' \in Int
      BY <1>1, <2>1, Places
    <2> QED BY <1>1, <2>1, <2>4, <2>5, ScanKeeps, Places DEF QSortInv
  <1>5. CASE ~(ELEM(i) < pivot)
    <2>1. i' = i /\ pc' = "down"
      BY <1>1, <1>5 DEF ScanUp
    <2>2. Sides' /\ (FirstScan' \/ LaterScans')
      BY <1>1, <1>2, <2>1 DEF Sides, FirstScan, LaterScans, Indexes, N, ELEM
    <2>3. (ELEM(i) >= pivot)'
      BY <1>1, <1>5, <2>1, Places DEF ELEM
    <2>4. Partitioning'
      BY <2>1, <2>2, <2>3 DEF Partitioning
    <2>5. i' \in Int /\ j' \in Int
      BY <1>1, <2>1, Places
    <2> QED BY <1>1, <2>1, <2>4, <2>5, ScanKeeps, Places DEF QSortInv
  <1> QED BY <1>4, <1>5

LEMMA ScanDownOK ==
  ASSUME QSortInv, ScanDown PROVE QSortInv'
  <1>1. pc = "down" /\ UNCHANGED <<a, input, lo, hi, i, pivot, todo>>
    BY DEF ScanDown
  <1>2. Sides /\ (FirstScan \/ LaterScans) /\ ELEM(i) >= pivot
    BY <1>1 DEF QSortInv, Partitioning
  <1>3. (ELEM(i) >= pivot)'
    BY <1>1, <1>2 DEF ELEM
  <1>4. CASE ELEM(j) > pivot
    <2>1. j' = j - 1 /\ pc' = "down"
      BY <1>1, <1>4 DEF ScanDown
    <2>2. Sides'
      BY <1>1, <1>2, <1>4, <2>1, Places DEF Sides, Indexes, N, ELEM
    <2>3. LaterScans'
      <3>1. ~FirstScan
        BY <1>1, <1>4, Places DEF FirstScan
      <3>2. LaterScans
        BY <1>2, <3>1
      <3>3. i - 1 \in Indexes /\ ELEM(i - 1) <= pivot
        BY <1>1, <1>2, <3>2, Places DEF LaterScans, Sides, Indexes
      <3>4. j # i - 1
        BY <1>1, <1>4, <3>3, Places
      <3> QED BY <1>1, <2>1, <3>2, <3>4, Places DEF LaterScans
    <2>4. Partitioning'
      BY <1>3, <2>1, <2>2, <2>3 DEF Partitioning
    <2>5. i' \in Int /\ j' \in Int
      BY <1>1, <2>1, Places
    <2> QED BY <1>1, <2>1, <2>4, <2>5, ScanKeeps, Places DEF QSortInv
  <1>5. CASE ~(ELEM(j) > pivot)
    <2>1. j' = j /\ pc' = "swap"
      BY <1>1, <1>5 DEF ScanDown
    <2>2. Sides' /\ (FirstScan' \/ LaterScans')
      BY <1>1, <1>2, <2>1 DEF Sides, FirstScan, LaterScans, Indexes, N, ELEM
    <2>3. (ELEM(j) <= pivot)'
      BY <1>1, <1>5, <2>1, Places DEF ELEM
    <2>4. Partitioning'
      BY <1>3, <2>1, <2>2, <2>3 DEF Partitioning
    <2>5. i' \in Int /\ j' \in Int
      BY <1>1, <2>1, Places
    <2> QED BY <1>1, <2>1, <2>4, <2>5, ScanKeeps, Places DEF QSortInv
  <1> QED BY <1>4, <1>5

-----------------------------------------------------------------------------
(* What the exchange makes of the list. *)
LEMMA SwapList ==
  ASSUME QSortInv, Swap, i <= j
  PROVE  /\ a' \in Seq(Key) /\ Len(a') = Len(a) /\ Permuted' /\ N' = N /\ Indexes' = Indexes
         /\ \A k \in Indexes : ELEM(k)' = IF k = i THEN ELEM(j) ELSE IF k = j THEN ELEM(i) ELSE ELEM(k)
  <1>1. pc = "swap" /\ a' = [a EXCEPT ![i + 1] = ELEM(j), ![j + 1] = ELEM(i)] /\ input' = input
    BY DEF Swap
  <1>2. /\ a \in Seq(Key) /\ DOMAIN a = 1 .. N /\ i \in Indexes /\ j \in Indexes
        /\ i + 1 \in DOMAIN a /\ j + 1 \in DOMAIN a /\ ELEM(i) \in Key /\ ELEM(j) \in Key
    BY <1>1, Places, Elements DEF QSortInv, SortTypeOK
  <1>3. a' \in Seq(Key) /\ Len(a') = Len(a) /\ \A x : Count(a', x) = Count(a, x)
    <2>1. a' = Exchanged(a, i + 1, j + 1)
      BY <1>1 DEF ELEM, Exchanged
    <2>2. a \in Seq(Key) /\ i + 1 \in DOMAIN a /\ j + 1 \in DOMAIN a
      BY <1>2
    <2> QED BY <2>1, <2>2, SwapCount
  <1>4. N' = N /\ Indexes' = Indexes
    BY <1>3 DEF N, Indexes
  <1>6. Permuted'
    BY <1>1, <1>3 DEF QSortInv, Permuted
  <1>7. ASSUME NEW k \in Indexes
        PROVE  ELEM(k)' = IF k = i THEN ELEM(j) ELSE IF k = j THEN ELEM(i) ELSE ELEM(k)
    <2>1. k + 1 \in DOMAIN a /\ (k + 1 = i + 1 <=> k = i) /\ (k + 1 = j + 1 <=> k = j)
      BY <1>2, Elements DEF Indexes, QSortInv
    <2> QED BY <1>1, <1>2, <2>1 DEF ELEM
  <1> QED BY <1>3, <1>4, <1>6, <1>7

(* An exchange inside the part disturbs no order with what is outside.     *)
LEMMA SwapApart ==
  ASSUME QSortInv, Swap, i <= j, pc' \in {"up", "recurse"}
  PROVE  Apart'
  <1>1. pc = "swap" /\ UNCHANGED <<lo, hi, todo>>
    BY DEF Swap
  <1>2. /\ Indexes' = Indexes /\ InCall /\ InCall'
        /\ \A k \in Indexes : ELEM(k)' = IF k = i THEN ELEM(j) ELSE IF k = j THEN ELEM(i) ELSE ELEM(k)
    BY <1>1, SwapList DEF InCall
  <1>3. /\ i \in Indexes /\ j \in Indexes /\ lo <= i /\ i <= hi /\ lo <= j /\ j <= hi
        /\ lo \in Int /\ hi \in Int /\ \A k \in Indexes : k \in Int
    BY <1>1, Places DEF Indexes
  <1> SUFFICES ASSUME NEW p \in Indexes, NEW q \in Indexes, p < q
               PROVE  ELEM(p)' <= ELEM(q)' \/ Together(p, q)'
    BY <1>2 DEF Apart
  <1>4. CASE lo <= p /\ q <= hi
    BY <1>1, <1>2, <1>4 DEF Together
  <1>5. CASE p < lo /\ lo <= q /\ q <= hi
    <2>1. ELEM(p)' = ELEM(p)
      BY <1>2, <1>3, <1>5
    <2>2. ELEM(p) <= ELEM(i) /\ ELEM(p) <= ELEM(j) /\ ELEM(p) <= ELEM(q)
      BY <1>2, <1>3, <1>5, Outside
    <2> QED BY <1>2, <2>1, <2>2
  <1>6. CASE q > hi /\ lo <= p /\ p <= hi
    <2>1. ELEM(q)' = ELEM(q)
      BY <1>2, <1>3, <1>6
    <2>2. ELEM(i) <= ELEM(q) /\ ELEM(j) <= ELEM(q) /\ ELEM(p) <= ELEM(q)
      BY <1>2, <1>3, <1>6, Outside
    <2> QED BY <1>2, <2>1, <2>2
  <1>7. CASE ~(lo <= p /\ p <= hi) /\ ~(lo <= q /\ q <= hi)
    <2>1. ELEM(p)' = ELEM(p) /\ ELEM(q)' = ELEM(q)
      BY <1>2, <1>3, <1>7
    <2>2. ELEM(p) <= ELEM(q) \/ Together(p, q)
      BY DEF QSortInv, Apart
    <2>3. Together(p, q)' <=> Together(p, q)
      BY <1>1, <1>2 DEF Together
    <2> QED BY <2>1, <2>2, <2>3
  <1> QED BY <1>3, <1>4, <1>5, <1>6, <1>7

(* The exchange puts both elements on their sides of the pivot.            *)
LEMMA SwapOK ==
  ASSUME QSortInv, Swap PROVE QSortInv'
  <1>1. /\ pc = "swap" /\ UNCHANGED <<input, lo, hi, pivot, todo>>
        /\ pc' = IF i' <= j' THEN "up" ELSE "recurse"
    BY DEF Swap
  <1>2. Sides /\ (FirstScan \/ LaterScans) /\ ELEM(i) >= pivot /\ ELEM(j) <= pivot
    BY <1>1 DEF QSortInv, Partitioning
  <1>3. CASE i <= j
    <2>1. i' = i + 1 /\ j' = j - 1
      BY <1>3 DEF Swap
    <2>2. i' \in Int /\ j' \in Int /\ pc' \in {"up", "recurse"}
      BY <1>1, <2>1, Places
    <2>3. InCall /\ InCall' /\ N' = N /\ Indexes' = Indexes
      BY <1>1, <1>3, <2>2, SwapList DEF InCall
    <2>4. SortTypeOK'
      BY <1>1, <1>3, <2>2, <2>3, SwapList DEF QSortInv, SortTypeOK
    <2>5. Nested'
      BY <1>1, <2>2, <2>3 DEF QSortInv, Nested
    <2>6. Sides'
      <3>1. ASSUME NEW k \in Indexes, lo <= k, k < i + 1 PROVE ELEM(k)' <= pivot
        <4>1. CASE k = i
          BY <1>2, <1>3, <4>1, SwapList
        <4>2. CASE k < i
          <5>1. k # j /\ k # i
            BY <1>1, <1>3, <4>2, Places
          <5> QED BY <1>2, <1>3, <3>1, <4>2, <5>1, SwapList DEF Sides
        <4> QED BY <1>1, <3>1, <4>1, <4>2, Places DEF Indexes
      <3>2. ASSUME NEW k \in Indexes, j - 1 < k, k <= hi PROVE ELEM(k)' >= pivot
        <4>1. CASE k = j
          <5>1. ELEM(k)' = ELEM(i)
            BY <1>3, <4>1, SwapList
          <5> QED BY <1>2, <5>1
        <4>2. CASE j < k
          <5>1. k # j /\ k # i
            BY <1>1, <1>3, <4>2, Places
          <5> QED BY <1>2, <1>3, <3>2, <4>2, <5>1, SwapList DEF Sides
        <4> QED BY <1>1, <3>2, <4>1, <4>2, Places DEF Indexes
      <3> QED BY <1>1, <2>1, <2>3, <3>1, <3>2 DEF Sides, ELEM
    <2>7. Partitioning'
      <3>1. CASE i' <= j'
        BY <1>1, <2>1, <2>6, <3>1, Places DEF Partitioning, LaterScans
      <3>2. CASE ~(i' <= j')
        BY <1>1, <1>3, <2>1, <2>6, <3>2, Places DEF Partitioning
      <3> QED BY <3>1, <3>2
    <2> QED BY <1>3, <2>2, <2>4, <2>5, <2>7, SwapApart, SwapList DEF QSortInv
  <1>4. CASE ~(i <= j)
    <2>1. UNCHANGED <<a, i, j>> /\ pc' = "recurse"
      BY <1>1, <1>4 DEF Swap
    <2>2. ~FirstScan
      BY <1>1, <1>4, Places DEF FirstScan
    <2>3. Partitioning'
      <3>1. Sides'
        BY <1>1, <1>2, <2>1 DEF Sides, Indexes, N, ELEM
      <3>2. lo < i /\ j < hi /\ j < i /\ lo - 1 <= j /\ i <= hi + 1
        BY <1>1, <1>2, <1>4, <2>2, Places DEF LaterScans
      <3> QED BY <1>1, <2>1, <3>1, <3>2 DEF Partitioning
    <2>4. i' \in Int /\ j' \in Int
      BY <1>1, <2>1, Places
    <2> QED BY <1>1, <2>1, <2>3, <2>4, ScanKeeps, Places DEF QSortInv
  <1> QED BY <1>3, <1>4

-----------------------------------------------------------------------------
(* A call begins with its scans at both ends and the pivot at the upper one. *)
LEMMA EnterOK ==
  ASSUME QSortInv, UNCHANGED <<a, input>>, NEW l \in Int, NEW h \in Int,
         0 <= l, l <= h, h < N, Enter(l, h)
  PROVE  /\ Partitioning' /\ Permuted' /\ N' = N /\ Indexes' = Indexes
         /\ lo' = l /\ hi' = h /\ i' = l /\ j' = h /\ pivot' \in Int /\ pc' = "up"
         /\ \A k : ELEM(k)' = ELEM(k)
  <1>1. lo' = l /\ hi' = h /\ i' = l /\ j' = h /\ pivot' = ELEM(h) /\ pc' = "up"
    BY DEF Enter
  <1>2. N' = N /\ Indexes' = Indexes /\ \A k : ELEM(k)' = ELEM(k)
    BY DEF N, Indexes, ELEM
  <1>3. N \in Nat /\ h \in Indexes /\ ELEM(h) \in Int
    BY Elements DEF QSortInv, Indexes
  <1>4. Sides' /\ FirstScan'
    BY <1>1, <1>2 DEF Sides, FirstScan, Indexes, ELEM
  <1>5. Partitioning' /\ Permuted'
    BY <1>1, <1>4 DEF Partitioning, Permuted, QSortInv
  <1> QED BY <1>1, <1>2, <1>3, <1>5

(* What a pass leaves to do: two elements out of order are in one half.    *)
LEMMA Parted ==
  ASSUME QSortInv, pc = "recurse"
  PROVE  /\ N \in Nat /\ lo \in Int /\ hi \in Int /\ i \in Int /\ j \in Int
         /\ 0 <= lo /\ hi < N /\ lo < i /\ j < hi /\ j < i /\ InCall
         /\ \A p, q \in Indexes : p < q =>
              \/ ELEM(p) <= ELEM(q)
              \/ lo <= p /\ q <= j
              \/ i <= p /\ q <= hi
              \/ \E k \in DOMAIN todo : todo[k][1] <= p /\ q <= todo[k][2]
  <1>1. /\ N \in Nat /\ lo \in Int /\ hi \in Int /\ i \in Int /\ j \in Int /\ pivot \in Int
        /\ 0 <= lo /\ hi < N /\ InCall
        /\ \A k \in Indexes : ELEM(k) \in Int
    BY Elements DEF QSortInv, SortTypeOK, InCall
  <1>2. Sides /\ lo < i /\ j < hi /\ j < i
    BY DEF QSortInv, Partitioning
  <1>3. ASSUME NEW p \in Indexes, NEW q \in Indexes, p < q, ~(ELEM(p) <= ELEM(q)),
               lo <= p, q <= hi
        PROVE  (lo <= p /\ q <= j) \/ (i <= p /\ q <= hi)
    <2>1. CASE p < i /\ q > j
      <3>1. ELEM(p) <= pivot /\ pivot <= ELEM(q)
        BY <1>1, <1>2, <1>3, <2>1 DEF Sides
      <3> QED BY <1>1, <1>3, <3>1
    <2>2. CASE ~(p < i)
      BY <1>1, <1>3, <2>2 DEF Indexes
    <2>3. CASE ~(q > j)
      BY <1>1, <1>3, <2>3 DEF Indexes
    <2> QED BY <2>1, <2>2, <2>3
  <1>4. \A p, q \in Indexes : p < q => ELEM(p) <= ELEM(q) \/ Together(p, q)
    BY DEF QSortInv, Apart
  <1> QED BY <1>1, <1>2, <1>3, <1>4 DEF Together

(* Both halves wait or are sorted at once; a half of one element is left.  *)
LEMMA RecurseOK ==
  ASSUME QSortInv, Recurse PROVE QSortInv'
  <1>1. pc = "recurse" /\ UNCHANGED <<a, input>>
    BY DEF Recurse
  <1>2. /\ N \in Nat /\ lo \in Int /\ hi \in Int /\ i \in Int /\ j \in Int
        /\ 0 <= lo /\ hi < N /\ lo < i /\ j < hi /\ j < i /\ InCall
    BY <1>1, Parted
  <1>3. SortTypeOK /\ Nested
    BY DEF QSortInv
  <1>4. /\ todo \in Seq(Int \X Int) /\ DOMAIN todo = 1 .. Len(todo) /\ Len(todo) \in Nat
        /\ \A k \in DOMAIN todo : todo[k][1] \in Int /\ todo[k][2] \in Int
    BY <1>3 DEF SortTypeOK
  <1>5. CASE lo < j
    <2>1. Enter(lo, j) /\ todo' = Append(todo, <<i, hi>>)
      BY <1>5 DEF Recurse
    <2>2. /\ Partitioning' /\ Permuted' /\ N' = N /\ Indexes' = Indexes
          /\ lo' = lo /\ hi' = j /\ i' = lo /\ j' = j /\ pivot' \in Int /\ pc' = "up"
          /\ \A k : ELEM(k)' = ELEM(k)
      BY <1>1, <1>2, <1>5, <2>1, EnterOK
    <2>3. /\ todo' \in Seq(Int \X Int) /\ DOMAIN todo' = 1 .. Len(todo) + 1
          /\ \A k \in 1 .. Len(todo) : todo'[k] = todo[k]
          /\ todo'[Len(todo) + 1] = <<i, hi>>
      BY <1>2, <1>4, <2>1
    <2>4. SortTypeOK'
      BY <1>1, <1>2, <1>3, <1>5, <2>2, <2>3 DEF SortTypeOK, N
    <2>5. Nested'
      <3> DEFINE L == Len(todo)
      <3>a. /\ L \in Nat /\ DOMAIN todo = 1 .. L /\ DOMAIN todo' = 1 .. L + 1
            /\ \A k \in 1 .. L : todo'[k] = todo[k]
            /\ todo'[L + 1][1] = i /\ todo'[L + 1][2] = hi
        BY <1>4, <2>3
      <3>b. /\ \A k \in 1 .. L : 0 <= todo[k][1] /\ todo[k][2] < N /\ hi < todo[k][1]
            /\ \A k, m \in 1 .. L : k < m => todo[m][2] < todo[k][1]
        BY <1>2, <1>3, <1>4 DEF Nested
      <3>c. \A k \in 1 .. L : todo[k][1] \in Int /\ todo[k][2] \in Int
        BY <1>4
      <3> HIDE DEF L
      <3>1. ASSUME NEW k \in DOMAIN todo' PROVE 0 <= todo'[k][1] /\ todo'[k][2] < N /\ j < todo'[k][1]
        <4>1. CASE k \in 1 .. L
          BY <1>2, <3>a, <3>b, <3>c, <4>1
        <4>2. CASE k = L + 1
          BY <1>2, <3>a, <4>2
        <4> QED BY <3>a, <4>1, <4>2
      <3>2. ASSUME NEW k \in DOMAIN todo', NEW m \in DOMAIN todo', k < m
            PROVE  todo'[m][2] < todo'[k][1]
        <4>1. k \in 1 .. L /\ todo'[k] = todo[k]
          BY <3>a, <3>2
        <4>2. CASE m \in 1 .. L
          BY <3>a, <3>b, <3>2, <4>1, <4>2
        <4>3. CASE m = L + 1
          BY <3>a, <3>b, <4>1, <4>3
        <4> QED BY <3>a, <4>2, <4>3
      <3> QED BY <2>2, <3>1, <3>2 DEF Nested
    <2>6. Apart'
      <3> SUFFICES ASSUME NEW p \in Indexes, NEW q \in Indexes, p < q
                   PROVE  ELEM(p) <= ELEM(q) \/ Together(p, q)'
        BY <2>2 DEF Apart
      <3>1. CASE lo <= p /\ q <= j
        BY <2>2, <3>1 DEF Together, InCall
      <3>2. CASE i <= p /\ q <= hi
        <4>1. Len(todo) + 1 \in DOMAIN todo' /\ <<i, hi>>[1] = i /\ <<i, hi>>[2] = hi
          BY <1>4, <2>3
        <4> QED BY <2>3, <3>2, <4>1 DEF Together
      <3>3. ASSUME NEW k \in DOMAIN todo, todo[k][1] <= p, q <= todo[k][2] PROVE Together(p, q)'
        BY <1>4, <2>3, <3>3 DEF Together
      <3> QED BY <1>1, <3>1, <3>2, <3>3, Parted
    <2> QED BY <2>2, <2>4, <2>5, <2>6 DEF QSortInv
  <1>6. CASE ~(lo < j) /\ i < hi
    <2>1. Enter(i, hi) /\ todo' = todo
      BY <1>6 DEF Recurse
    <2>2. /\ Partitioning' /\ Permuted' /\ N' = N /\ Indexes' = Indexes
          /\ lo' = i /\ hi' = hi /\ i' = i /\ j' = hi /\ pivot' \in Int /\ pc' = "up"
          /\ \A k : ELEM(k)' = ELEM(k)
      BY <1>1, <1>2, <1>6, <2>1, EnterOK
    <2>3. SortTypeOK'
      BY <1>1, <1>2, <1>3, <1>6, <2>1, <2>2 DEF SortTypeOK, N
    <2>4. Nested'
      BY <1>2, <1>3, <2>1, <2>2 DEF Nested
    <2>5. Apart'
      <3> SUFFICES ASSUME NEW p \in Indexes, NEW q \in Indexes, p < q
                   PROVE  ELEM(p) <= ELEM(q) \/ Together(p, q)'
        BY <2>2 DEF Apart
      <3>1. ~(lo <= p /\ q <= j)
        BY <1>2, <1>6 DEF Indexes
      <3>2. CASE i <= p /\ q <= hi
        BY <2>2, <3>2 DEF Together, InCall
      <3>3. ASSUME NEW k \in DOMAIN todo, todo[k][1] <= p, q <= todo[k][2] PROVE Together(p, q)'
        BY <2>1, <3>3 DEF Together
      <3> QED BY <1>1, <3>1, <3>2, <3>3, Parted
    <2> QED BY <2>2, <2>3, <2>4, <2>5 DEF QSortInv
  <1>7. CASE ~(lo < j) /\ ~(i < hi)
    <2>1. pc' = "return" /\ UNCHANGED <<lo, hi, i, j, pivot, todo>>
      BY <1>7 DEF Recurse
    <2>2. N' = N /\ Indexes' = Indexes /\ (\A k : ELEM(k)' = ELEM(k)) /\ ~InCall'
      BY <1>1, <2>1 DEF N, Indexes, ELEM, InCall
    <2>3. SortTypeOK' /\ Nested' /\ Partitioning' /\ Permuted'
      BY <1>1, <1>3, <2>1, <2>2 DEF SortTypeOK, Nested, Partitioning, Permuted, QSortInv
    <2>4. Apart'
      <3> SUFFICES ASSUME NEW p \in Indexes, NEW q \in Indexes, p < q
                   PROVE  ELEM(p) <= ELEM(q) \/ Together(p, q)'
        BY <2>2 DEF Apart
      <3>1. ~(lo <= p /\ q <= j) /\ ~(i <= p /\ q <= hi)
        BY <1>2, <1>7 DEF Indexes
      <3>2. ASSUME NEW k \in DOMAIN todo, todo[k][1] <= p, q <= todo[k][2] PROVE Together(p, q)'
        BY <2>1, <3>2 DEF Together
      <3> QED BY <1>1, <3>1, <3>2, Parted
    <2> QED BY <2>3, <2>4 DEF QSortInv
  <1> QED BY <1>5, <1>6, <1>7

(* A call that ends leaves its part in order, and the next one is the last  *)
(* that waits.                                                             *)
LEMMA ReturnOK ==
  ASSUME QSortInv, Return PROVE QSortInv'
  <1>1. pc = "return" /\ UNCHANGED <<a, input>> /\ ~InCall
    BY DEF Return, InCall
  <1>2. N' = N /\ Indexes' = Indexes /\ (\A k : ELEM(k)' = ELEM(k)) /\ Permuted'
    BY <1>1 DEF N, Indexes, ELEM, Permuted, QSortInv
  <1>3. SortTypeOK /\ Nested /\ N \in Nat
    BY Elements DEF QSortInv
  <1>4. /\ todo \in Seq(Int \X Int) /\ DOMAIN todo = 1 .. Len(todo) /\ Len(todo) \in Nat
        /\ \A k \in DOMAIN todo : todo[k][1] \in Int /\ todo[k][2] \in Int
    BY <1>3 DEF SortTypeOK
  <1>5. \A p, q \in Indexes : p < q =>
          ELEM(p) <= ELEM(q) \/ \E k \in DOMAIN todo : todo[k][1] <= p /\ q <= todo[k][2]
    BY <1>1 DEF QSortInv, Apart, Together
  <1>6. CASE todo = <<>>
    <2>1. pc' = "done" /\ UNCHANGED <<lo, hi, i, j, pivot, todo>>
      BY <1>6 DEF Return
    <2>2. SortTypeOK' /\ Nested' /\ Partitioning'
      BY <1>1, <1>2, <1>3, <1>6, <2>1 DEF SortTypeOK, Nested, Partitioning, InCall
    <2>3. Apart'
      BY <1>2, <1>5, <1>6 DEF Apart
    <2> QED BY <1>2, <2>2, <2>3 DEF QSortInv
  <1>7. CASE todo # <<>>
    <2> DEFINE L == Len(todo)
               f == todo[L]
    <2>1. L \in Nat \ {0} /\ L \in DOMAIN todo /\ f[1] \in Int /\ f[2] \in Int
      BY <1>4, <1>7
    <2>2. /\ todo' \in Seq(Int \X Int) /\ DOMAIN todo' = 1 .. L - 1
          /\ \A k \in 1 .. L - 1 : todo'[k] = todo[k] /\ k \in DOMAIN todo
      <3>1. todo' = SubSeq(todo, 1, L - 1)
        BY <1>7 DEF Return, Front
      <3> QED BY <1>4, <2>1, <3>1
    <2>3. IF f[1] < f[2] THEN Enter(f[1], f[2]) ELSE UNCHANGED <<lo, hi, i, j, pivot, pc>>
      BY <1>7 DEF Return, Last
    <2>a. DOMAIN todo = 1 .. L
      BY <1>4
    <2>4. 0 <= f[1] /\ f[2] < N /\ \A k \in 1 .. L - 1 : f[2] < todo[k][1]
      <3>1. \A k \in 1 .. L - 1 : k < L
        BY <2>1
      <3> QED BY <1>3, <2>1, <2>2, <3>1 DEF Nested
    <2> HIDE DEF L, f
    <2>5. /\ \A k \in DOMAIN todo' : 0 <= todo'[k][1] /\ todo'[k][2] < N /\ f[2] < todo'[k][1]
          /\ \A k, m \in DOMAIN todo' : k < m => todo'[m][2] < todo'[k][1]
      BY <1>3, <2>2, <2>4 DEF Nested
    <2>6. ASSUME NEW p \in Indexes, NEW q \in Indexes, p < q, ~(ELEM(p) <= ELEM(q))
          PROVE  \/ f[1] <= p /\ q <= f[2]
                 \/ \E k \in DOMAIN todo' : todo'[k][1] <= p /\ q <= todo'[k][2]
      <3>1. PICK k \in DOMAIN todo : todo[k][1] <= p /\ q <= todo[k][2]
        BY <1>5, <2>6
      <3>2. CASE k = L
        BY <3>1, <3>2 DEF f
      <3>3. CASE k # L
        <4>1. k \in DOMAIN todo' /\ todo'[k] = todo[k]
          BY <2>a, <2>1, <2>2, <3>3
        <4> QED BY <3>1, <4>1
      <3> QED BY <3>2, <3>3
    <2>7. CASE f[1] < f[2]
      <3>1. Enter(f[1], f[2])
        BY <2>3, <2>7
      <3>2. /\ Partitioning' /\ lo' = f[1] /\ hi' = f[2] /\ i' = f[1] /\ j' = f[2]
            /\ pivot' \in Int /\ pc' = "up"
        <4>1. f[1] <= f[2]
          BY <2>1, <2>7
        <4> QED BY <1>1, <2>1, <2>4, <3>1, <4>1, EnterOK
      <3>3. SortTypeOK'
        BY <1>1, <1>2, <1>3, <2>1, <2>2, <2>4, <2>7, <3>2 DEF SortTypeOK, N
      <3>4. Nested'
        BY <1>2, <2>5, <3>2 DEF Nested
      <3>5. Apart'
        BY <1>2, <2>6, <3>2 DEF Apart, Together, InCall
      <3> QED BY <1>2, <3>2, <3>3, <3>4, <3>5 DEF QSortInv
    <2>8. CASE ~(f[1] < f[2])
      <3>1. UNCHANGED <<lo, hi, i, j, pivot, pc>>
        BY <2>3, <2>8
      <3>2. SortTypeOK' /\ Nested' /\ Partitioning'
        BY <1>1, <1>2, <1>3, <2>2, <2>5, <3>1 DEF SortTypeOK, Nested, Partitioning, InCall
      <3>3. \A p, q \in Indexes : p < q => ~(f[1] <= p /\ q <= f[2])
        BY <1>3, <2>1, <2>8 DEF Indexes
      <3>4. Apart'
        BY <1>2, <2>6, <3>3 DEF Apart, Together
      <3> QED BY <1>2, <3>2, <3>4 DEF QSortInv
    <2> QED BY <2>7, <2>8
  <1> QED BY <1>6, <1>7

-----------------------------------------------------------------------------
LEMMA SortInitOK == SortInit => QSortInv
  <1> SUFFICES ASSUME SortInit PROVE QSortInv
    OBVIOUS
  <1>1. /\ a = input /\ lo = 0 /\ hi = Len(input) - 1 /\ i = 0 /\ j = hi /\ todo = <<>>
        /\ IF input = <<>> THEN pc = "done" /\ pivot \in {CHOOSE x \in Key : TRUE}
           ELSE pc = "up" /\ pivot = Last(input)
    BY DEF SortInit
  <1>2. input \in Seq(Key) /\ Len(input) \in Nat /\ N = Len(input)
    BY <1>1, SortAssumption DEF SortInit, N
  <1>3. SortTypeOK
    <2>1. a \in Seq(Key) /\ Len(a) = Len(input) /\ todo \in Seq(Int \X Int)
          /\ lo \in Int /\ hi \in Int /\ i \in Int /\ j \in Int
      BY <1>1, <1>2
    <2>2. InCall => pivot \in Int /\ 0 <= lo /\ lo <= hi /\ hi < N
      <3> SUFFICES ASSUME InCall PROVE pivot \in Int /\ 0 <= lo /\ lo <= hi /\ hi < N
        OBVIOUS
      <3>1. input # <<>> /\ pivot = input[Len(input)]
        BY <1>1 DEF InCall, Last
      <3>2. Len(input) \in DOMAIN input /\ Len(input) >= 1
        BY <1>2, <3>1
      <3>3. pivot \in Key
        BY <1>2, <3>1, <3>2
      <3> QED BY <1>1, <1>2, <3>2, <3>3, SortAssumption
    <2> QED BY <1>1, <1>2, <2>1, <2>2 DEF SortTypeOK
  <1>4. Nested
    BY <1>1 DEF Nested, InCall
  <1>5. Partitioning
    <2>1. CASE input = <<>>
      BY <1>1, <2>1 DEF Partitioning
    <2>2. CASE input # <<>>
      <3>1. Sides
        BY <1>1, <1>2 DEF Sides, Indexes
      <3>2. FirstScan
        <4>1. lo <= i /\ i <= hi /\ j = hi
          BY <1>1, <1>2, <1>3, <2>2 DEF SortTypeOK, InCall
        <4>2. ELEM(hi) = pivot
          BY <1>1, <1>2, <2>2 DEF ELEM, Last
        <4> QED BY <4>1, <4>2 DEF FirstScan
      <3> QED BY <1>1, <2>2, <3>1, <3>2 DEF Partitioning
    <2> QED BY <2>1, <2>2
  <1>6. Apart
    <2> SUFFICES ASSUME NEW p \in Indexes, NEW q \in Indexes, p < q PROVE Together(p, q)
      BY DEF Apart
    <2>1. input # <<>>
      BY <1>2 DEF Indexes
    <2> QED BY <1>1, <1>2, <2>1 DEF Together, InCall, Indexes
  <1>7. Permuted
    BY <1>1 DEF Permuted
  <1> QED BY <1>3, <1>4, <1>5, <1>6, <1>7 DEF QSortInv

LEMMA SortNextOK == QSortInv /\ [SortNext]_sortVars => QSortInv'
  <1> SUFFICES ASSUME QSortInv, [SortNext]_sortVars PROVE QSortInv'
    OBVIOUS
  <1>1. CASE ScanUp
    BY <1>1, ScanUpOK
  <1>2. CASE ScanDown
    BY <1>2, ScanDownOK
  <1>3. CASE Swap
    BY <1>3, SwapOK
  <1>4. CASE Recurse
    BY <1>4, RecurseOK
  <1>5. CASE Return
    BY <1>5, ReturnOK
  <1>6. CASE UNCHANGED sortVars
    BY <1>6 DEF sortVars, QSortInv, SortTypeOK, Nested, Partitioning, Sides, FirstScan, LaterScans,
       Apart, Together, Permuted, InCall, Indexes, N, ELEM
  <1> QED BY <1>1, <1>2, <1>3, <1>4, <1>5, <1>6 DEF SortNext

(* The inductive invariant holds of lists of every length.                 *)
THEOREM SortInvariance == SortSpec => []QSortInv
  BY SortInitOK, SortNextOK, PTL DEF SortSpec

(* The scans stay inside the part of their call, no element is lost or      *)
(* doubled, and at the end the list is in order: for lists of every length  *)
(* and any numbers, equal ones too.                                        *)
THEOREM SortInvAlways == SortSpec => []SortInv
  <1>1. QSortInv => SortInv
    <2> SUFFICES ASSUME QSortInv PROVE SortInv
      OBVIOUS
    <2>1. ScansStayInside
      <3>1. CASE pc \in {"up", "down", "swap"}
        BY <3>1, Places DEF ScansStayInside
      <3>2. CASE pc \notin {"up", "down", "swap"}
        BY <3>2 DEF ScansStayInside
      <3> QED BY <3>1, <3>2
    <2>2. ASSUME pc = "done", NEW k \in 1 .. Len(a) - 1 PROVE a[k] <= a[k + 1]
      <3>1. N \in Nat /\ k - 1 \in Indexes /\ k \in Indexes /\ k - 1 < k /\ k - 1 + 1 = k
        BY Elements DEF QSortInv, Indexes, N
      <3>2. ~Together(k - 1, k)
        BY <2>2 DEF Together, InCall, QSortInv, Nested
      <3>3. ELEM(k - 1) <= ELEM(k)
        BY <3>1, <3>2 DEF QSortInv, Apart
      <3> QED BY <3>1, <3>3 DEF ELEM
    <2> QED BY <2>1, <2>2 DEF SortInv, SortedPermutation, QSortInv, Permuted
  <1> QED BY <1>1, SortInvariance, PTL
=============================================================================
