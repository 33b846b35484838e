-------------------------------- MODULE List --------------------------------
(***************************************************************************)
(* The list of the shader disassembler, disassembler/list.c: a circular    *)
(* vector with a head and a tail that grows by doubling.  An insertion or a *)
(* removal moves the elements of the shorter side.                         *)
(***************************************************************************)
EXTENDS Integers, Sequences

CONSTANTS Elem, NULL,
          MaxCount,      (* bound: elements in the list                    *)
          InitialSize    (* what list_create_with_size() is asked for      *)

ASSUME MaxCountAssumption == MaxCount \in Nat
ASSUME InitialAssumption  == InitialSize \in Nat
ASSUME NullAssumption     == NULL \notin Elem

VARIABLES elem, size, head, tail, count, error_code,
          ret            (* what the last call returned                    *)

vec  == <<elem, size, head, tail, count>>
vars == <<vec, error_code, ret>>

Cells      == 0 .. size - 1
Indices    == -1 .. MaxCount
InRange(k) == 0 <= k /\ k < count
At(k)      == elem[(head + k) % size]
Returns(e, r) == error_code' = e /\ ret' = r
Fails(e)      == Returns(e, NULL) /\ UNCHANGED vec

Init ==
  /\ size = (IF InitialSize < 4 THEN 4 ELSE InitialSize)
  /\ elem = [c \in Cells |-> NULL]
  /\ head = 0 /\ tail = 0 /\ count = 0
  /\ error_code = "OK" /\ ret = NULL

(* The vector a call works on: list_grow() first when the list is full.     *)
(* Mutant: the new vector is a copy, as realloc would make it.             *)
GrownFlat ==
  IF count < size THEN [e |-> elem, s |-> size, h |-> head, t |-> tail]
  ELSE [e |-> [c \in 0 .. 2 * size - 1 |-> IF c < count THEN elem[c] ELSE NULL],
        s |-> 2 * size, h |-> 0, t |-> count]

Grown ==
  IF count < size THEN [e |-> elem, s |-> size, h |-> head, t |-> tail]
  ELSE [e |-> [c \in 0 .. 2 * size - 1 |-> IF c < count THEN At(c) ELSE NULL],
        s |-> 2 * size, h |-> 0, t |-> count]

Add(x) ==
  /\ count < MaxCount
  /\ LET g == Grown IN
       /\ elem' = [g.e EXCEPT ![g.t] = x]
       /\ size' = g.s /\ head' = g.h /\ tail' = (g.t + 1) % g.s
  /\ count' = count + 1
  /\ Returns("OK", NULL)

Get(k) ==
  IF InRange(k) THEN Returns("OK", At(k)) /\ UNCHANGED vec ELSE Fails("BOUNDS")

Set(k, x) ==
  IF InRange(k)
  THEN /\ elem' = [elem EXCEPT ![(head + k) % size] = x]
       /\ Returns("OK", NULL) /\ UNCHANGED <<size, head, tail, count>>
  ELSE Fails("BOUNDS")

(* The n cells from c on backwards take what is in the cell before, or the  *)
(* n cells from c on what is in the cell behind.                           *)
MovedUp(e, s, c, n) ==
  [p \in 0 .. s - 1 |-> IF (c - p) % s < n THEN e[(p - 1) % s] ELSE e[p]]
MovedDown(e, s, c, n) ==
  [p \in 0 .. s - 1 |-> IF (p - c) % s < n THEN e[(p + 1) % s] ELSE e[p]]

(* Mutant: neither the bounds are checked nor does the vector grow.        *)
InsertPastEnd(k, x) ==
  /\ count < MaxCount
  /\ elem' = [elem EXCEPT ![(head + k) % size] = x]
  /\ tail' = (tail + 1) % size /\ count' = count + 1
  /\ Returns("OK", NULL) /\ UNCHANGED <<size, head>>

Insert(k, x) ==
  /\ count < MaxCount
  /\ IF 0 <= k /\ k <= count
     THEN /\ LET g == Grown IN
               /\ size' = g.s
               /\ IF k > count \div 2
                  THEN /\ elem' = [MovedUp(g.e, g.s, g.t, count - k)
                                     EXCEPT ![(g.h + k) % g.s] = x]
                       /\ tail' = (g.t + 1) % g.s /\ head' = g.h
                  ELSE /\ elem' = [MovedDown(g.e, g.s, (g.h - 1) % g.s, k)
                                     EXCEPT ![(g.h - 1 + k) % g.s] = x]
                       /\ head' = (g.h - 1) % g.s /\ tail' = g.t
          /\ count' = count + 1
          /\ Returns("OK", NULL)
     ELSE Fails("BOUNDS")

First(x) == CHOOSE k \in 0 .. count - 1 :
              At(k) = x /\ \A l \in 0 .. k - 1 : At(l) # x
Has(x)   == \E k \in 0 .. count - 1 : At(k) = x

IndexOf(x) ==
  /\ UNCHANGED vec
  /\ IF Has(x) THEN Returns("OK", First(x)) ELSE Returns("NOT_FOUND", -1)

(* Mutant: the shift of the right side goes one cell too far.              *)
DropAtFar(k) ==
  /\ IF k > count \div 2
     THEN /\ elem' = [MovedDown(elem, size, (head + k) % size, count - k - 1)
                        EXCEPT ![(head + count) % size] = NULL]
          /\ tail' = (tail - 1) % size /\ UNCHANGED head
     ELSE /\ elem' = [MovedUp(elem, size, (head + k) % size, k) EXCEPT ![head] = NULL]
          /\ tail' = (tail - 1) % size /\ UNCHANGED head
  /\ count' = count - 1
  /\ Returns("OK", At(k)) /\ UNCHANGED size

(* list_remove_at(k) for an index in range. *)
DropAt(k) ==
  /\ IF k > count \div 2
     THEN /\ elem' = [MovedDown(elem, size, (head + k) % size, count - k - 1)
                        EXCEPT ![(head + count - 1) % size] = NULL]
          /\ tail' = (tail - 1) % size /\ UNCHANGED head
     ELSE /\ elem' = [MovedUp(elem, size, (head + k) % size, k) EXCEPT ![head] = NULL]
          /\ head' = (head + 1) % size /\ UNCHANGED tail
  /\ count' = count - 1
  /\ Returns("OK", At(k)) /\ UNCHANGED size

Delete(k) == IF InRange(k) THEN DropAt(k) ELSE Fails("BOUNDS")
RemoveElem(x) == IF Has(x) THEN DropAt(First(x)) ELSE Fails("NOT_FOUND")

(* The elements stay in the vector. *)
Clear ==
  /\ count' = 0 /\ head' = 0 /\ tail' = 0
  /\ Returns("OK", NULL) /\ UNCHANGED <<elem, size>>

Pop     == IF count = 0 THEN Fails("EMPTY") ELSE DropAt(count - 1)
Dequeue == IF count = 0 THEN Fails("EMPTY") ELSE DropAt(0)
Top     == IF count = 0 THEN Fails("EMPTY") ELSE Returns("OK", At(count - 1)) /\ UNCHANGED vec
Bottom  == IF count = 0 THEN Fails("EMPTY") ELSE Returns("OK", At(0)) /\ UNCHANGED vec

Next ==
  \/ \E x \in Elem : Add(x) \/ IndexOf(x) \/ RemoveElem(x)
  \/ \E k \in Indices : Get(k) \/ Delete(k) \/ \E x \in Elem : Set(k, x) \/ Insert(k, x)
  \/ Clear \/ Pop \/ Dequeue \/ Top \/ Bottom

Spec == Init /\ [][Next]_vars

-----------------------------------------------------------------------------
(* Every variable has its type, and the vector is never overfull: all cells *)
(* written are in it.                                                      *)
TypeOK ==
  /\ size \in Nat /\ size >= 4
  /\ elem \in [Cells -> Elem \cup {NULL}]
  /\ head \in Cells /\ tail \in Cells
  /\ count \in 0 .. size
  /\ error_code \in {"OK", "BOUNDS", "NOT_FOUND", "EMPTY"}
  /\ ret \in Elem \cup {NULL} \cup Indices

(* Head, tail and count agree: the tail is the cell behind the last element *)
(* and no element of the list is null.  A full list has both in one cell.  *)
Ring ==
  /\ tail = (head + count) % size
  /\ \A k \in 0 .. count - 1 : At(k) \in Elem

Inv == TypeOK /\ Ring
=============================================================================
