------------------------------- MODULE BitMap -------------------------------
(***************************************************************************)
(* The bit maps of disassembler/misc.c.  A map is an array of words; a     *)
(* field of up to a word's bits is written and read at any position, so it  *)
(* may lie across two words.  A word, and a value, is the set of its bits   *)
(* that are one: a mask is an intersection, a shift moves the numbers.     *)
(***************************************************************************)
EXTENDS Integers, FiniteSets, FiniteSetsExt

CONSTANTS W,            (* bits in a word, 32                              *)
          Sizes         (* per map, what bit_map_create() is asked for     *)

Maps  == DOMAIN Sizes
Word  == SUBSET (0 .. W - 1)
word_count(m) == (Sizes[m] + W - 1) \div W

VARIABLE data           (* per map, its words                              *)

Below(n)    == 0 .. n - 1                        (* (1 << n) - 1           *)
Shl(s, n)   == {b + n : b \in s} \cap Below(W)
Shr(s, n)   == {b - n : b \in {c \in s : c >= n}}

-----------------------------------------------------------------------------
Init == data = [m \in Maps |-> [k \in 0 .. word_count(m) - 1 |-> {}]]

(* The words d of a map after bit_map_set(), as far as they exist.         *)
(* Mutant: the second word gets the low bits of the value again.           *)
SetWordsUnshifted(d, where, size, value) ==
  LET w    == where \div W
      off  == where % W
      one  == Min({size, W - off})
      mask == Shl(Below(one), off)
      rest == Below(size - one)
  IN [k \in DOMAIN d |->
        IF k = w THEN (d[k] \ mask) \cup (Shl(value, off) \cap mask)
        ELSE IF k = w + 1 THEN (d[k] \ rest) \cup (value \cap rest)
        ELSE d[k]]

(* Mutant: the first word is written without a look at the word count.      *)
SetWordsUnchecked(d, where, size, value) ==
  LET w == where \div W
      mask == Shl(Below(Min({size, W - (where % W)})), where % W)
  IN [k \in DOMAIN d \cup {w} |->
        IF k = w THEN Shl(value, where % W) \cap mask ELSE d[k]]

SetWords(d, where, size, value) ==
  LET w    == where \div W
      off  == where % W
      one  == Min({size, W - off})
      mask == Shl(Below(one), off)
      rest == Below(size - one)
  IN [k \in DOMAIN d |->
        IF k = w THEN (d[k] \ mask) \cup (Shl(value, off) \cap mask)
        ELSE IF k = w + 1 THEN (d[k] \ rest) \cup (Shr(value, one) \cap rest)
        ELSE d[k]]

Set(m, where, size, value) ==
  data' = [data EXCEPT ![m] = SetWords(@, where, size, value)]

(* bit_map_get(), from the words d.  The bits that should come from the     *)
(* second word come from the first again.  Mutant: the first part is not   *)
(* masked.                                                                 *)
GetUnmasked(d, where, size) ==
  LET w == where \div W  off == where % W
  IN IF w \in DOMAIN d THEN Shr(d[w], off) ELSE {}

Get(d, where, size) ==
  LET w     == where \div W
      off   == where % W
      one   == Min({size, W - off})
      word1 == IF w \in DOMAIN d THEN d[w] ELSE {}
  IN Shr(word1 \cap Shl(Below(one), off), off)
       \cup Shl(word1 \cap Below(size - one), one)

(* bit_map_count_ones(): bit by bit.  Mutant: from the beginning of the map. *)
CountOnesFromZero(d, where, size) ==
  Quantify(Below(size), LAMBDA k : Get(d, k, 1) # {})
CountOnes(d, where, size) ==
  Quantify(Below(size), LAMBDA k : Get(d, where + k, 1) # {})

(* bit_map_copy(): a word's worth at a time.  Mutant: the source stays.     *)
RECURSIVE CopyWordsStill(_, _, _, _, _)
CopyWordsStill(d, to, s, from, size) ==
  IF size = 0 THEN d
  ELSE LET n == Min({size, W})
       IN CopyWordsStill(SetWords(d, to, n, Get(s, from, n)), to + n, s, from, size - n)

RECURSIVE CopyWords(_, _, _, _, _)
CopyWords(d, to, s, from, size) ==
  IF size = 0 THEN d
  ELSE LET n == Min({size, W})
       IN CopyWords(SetWords(d, to, n, Get(s, from, n)), to + n, s, from + n, size - n)

Copy(m, to, s, from, size) ==
  data' = [data EXCEPT ![m] = CopyWords(@, to, data[s], from, size)]

Wheres == 0 .. W * (Max({word_count(m) : m \in Maps}) + 1) - 1

Next ==
  \/ \E m \in Maps, w \in Wheres, n \in 0 .. W : \E v \in Word : Set(m, w, n, v)
  \/ \E m \in Maps, w \in Wheres, f \in Wheres, n \in 0 .. 2 * W :
       \E s \in Maps \ {m} : Copy(m, w, s, f, n)

Spec == Init /\ [][Next]_data

-----------------------------------------------------------------------------
(* What the calls are for: d as the set of its bits.                       *)
Bits(d)             == {b \in 0 .. W * Cardinality(DOMAIN d) - 1 : b % W \in d[b \div W]}
Field(where, size)  == where .. where + size - 1
Moved(s, n)         == {b + n : b \in s}
Written(d, where, size, value) ==
  (Bits(d) \ Field(where, size))
    \cup (Moved(value, where) \cap Field(where, size) \cap (0 .. W * Cardinality(DOMAIN d) - 1))

(* Every word exists and is a word. *)
TypeOK == \A m \in Maps : data[m] \in [0 .. word_count(m) - 1 -> Word]

(* "Set 'size' bits to 'value' starting at position 'where'" (misc.c:661):  *)
(* those bits and no others, across two words and at the end of the map.   *)
SetExact ==
  \A m \in Maps, where \in Wheres, size \in 0 .. W : \A value \in Word :
    Bits(SetWords(data[m], where, size, value)) = Written(data[m], where, size, value)

(* A field within a word is read as it was written, beyond the end as zeros. *)
GetWithinWord ==
  \A m \in Maps, where \in Wheres, size \in 0 .. W :
    (where % W) + size <= W =>
      Get(data[m], where, size) = Moved(Bits(data[m]) \cap Field(where, size), - where)

(* The ones of any range are counted, across any number of words.          *)
CountExact ==
  \A m \in Maps, where \in Wheres, size \in 0 .. 2 * W :
    CountOnes(data[m], where, size) = Cardinality(Bits(data[m]) \cap Field(where, size))

(* A copy from the beginning of a word arrives in full at any position.     *)
CopyFromWord ==
  \A m \in Maps, to \in Wheres, from \in Wheres, size \in 0 .. 2 * W :
    \A s \in Maps \ {m} :
      from % W = 0 =>
        Bits(CopyWords(data[m], to, data[s], from, size)) =
          Written(data[m], to, size, Moved(Bits(data[s]) \cap Field(from, size), - from))

(* The calls do to a map, taken as the set of its bits, what their names   *)
(* say, with the exception below.                                          *)
Exact == TypeOK /\ SetExact /\ GetWithinWord /\ CountExact /\ CopyFromWord

(* A field is read as it was written, "bits to get from second word"        *)
(* (misc.c:742) included.                                                  *)
GetExact ==
  \A m \in Maps, where \in Wheres, size \in 0 .. W :
    Get(data[m], where, size) = Moved(Bits(data[m]) \cap Field(where, size), - where)
=============================================================================
