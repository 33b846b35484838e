----------------------------- MODULE QuickSort ------------------------------
(***************************************************************************)
(* list_sort() of disassembler/list.c: a recursive quicksort in place with  *)
(* the last element as pivot.  Its two scans have no bounds of their own    *)
(* and the macro it reads elements with wraps around the vector, so a scan  *)
(* that ran off its part would compare other elements of the vector.       *)
(***************************************************************************)
EXTENDS Integers, Sequences, FiniteSets, SequencesExt

CONSTANTS Key,         (* the values the callback compares                 *)
          SortCount    (* bound: elements in the list                       *)

ASSUME SortAssumption == Key \subseteq Int /\ SortCount \in Nat

VARIABLES
  a,            (* the elements of the list                                *)
  input,        (* ghost: what they were                                   *)
  lo, hi,       (* the part the current call sorts                         *)
  i, j, pivot,  (* its local variables                                     *)
  todo,         (* per call that waits for its first half: its i and hi    *)
  pc

sortVars == <<a, input, lo, hi, i, j, pivot, todo, pc>>

ELEM(k) == a[k + 1]

(* sort(list, l, h) begins. *)
Enter(l, h) == lo' = l /\ hi' = h /\ i' = l /\ j' = h /\ pivot' = ELEM(h) /\ pc' = "up"

SortInit ==
  /\ input \in UNION {[1 .. n -> Key] : n \in 0 .. SortCount}
  /\ a = input
  /\ lo = 0 /\ hi = Len(input) - 1 /\ i = 0 /\ j = hi
  /\ todo = <<>>
  /\ IF input = <<>> THEN pc = "done" /\ pivot \in {CHOOSE x \in Key : TRUE}
     ELSE pc = "up" /\ pivot = Last(input)

(* while (comp(ELEM(i), ptr) < 0) i++; *)
ScanUp ==
  /\ pc = "up"
  /\ IF ELEM(i) < pivot THEN i' = i + 1 /\ UNCHANGED pc ELSE pc' = "down" /\ UNCHANGED i
  /\ UNCHANGED <<a, input, lo, hi, j, pivot, todo>>

(* Mutant: the scan passes elements equal to the pivot.                    *)
ScanDownEqual ==
  /\ pc = "down"
  /\ IF ELEM(j) >= pivot THEN j' = j - 1 /\ UNCHANGED pc ELSE pc' = "swap" /\ UNCHANGED j
  /\ UNCHANGED <<a, input, lo, hi, i, pivot, todo>>

(* while (comp(ELEM(j), ptr) > 0) j--; *)
ScanDown ==
  /\ pc = "down"
  /\ IF ELEM(j) > pivot THEN j' = j - 1 /\ UNCHANGED pc ELSE pc' = "swap" /\ UNCHANGED j
  /\ UNCHANGED <<a, input, lo, hi, i, pivot, todo>>

(* Mutant: the two indexes stay at the elements they exchanged.            *)
SwapStays ==
  /\ pc = "swap"
  /\ IF i <= j THEN a' = [a EXCEPT ![i + 1] = ELEM(j), ![j + 1] = ELEM(i)] ELSE UNCHANGED a
  /\ pc' = IF i <= j THEN "up" ELSE "recurse"
  /\ UNCHANGED <<input, lo, hi, i, j, pivot, todo>>

Swap ==
  /\ pc = "swap"
  /\ IF i <= j
     THEN /\ a' = [a EXCEPT ![i + 1] = ELEM(j), ![j + 1] = ELEM(i)]
          /\ i' = i + 1 /\ j' = j - 1
     ELSE UNCHANGED <<a, i, j>>
  /\ pc' = IF i' <= j' THEN "up" ELSE "recurse"
  /\ UNCHANGED <<input, lo, hi, pivot, todo>>

(* Mutant: the second half is sorted only when there was no first.         *)
RecurseOnce ==
  /\ pc = "recurse"
  /\ IF lo < j THEN Enter(lo, j) /\ UNCHANGED todo
     ELSE IF i < hi THEN Enter(i, hi) /\ UNCHANGED todo
     ELSE pc' = "return" /\ UNCHANGED <<lo, hi, i, j, pivot, todo>>
  /\ UNCHANGED <<a, input>>

(* The first half, and then the second when both have two elements or more. *)
Recurse ==
  /\ pc = "recurse"
  /\ IF lo < j THEN Enter(lo, j) /\ todo' = Append(todo, <<i, hi>>)
     ELSE IF i < hi THEN Enter(i, hi) /\ UNCHANGED todo
     ELSE pc' = "return" /\ UNCHANGED <<lo, hi, i, j, pivot, todo>>
  /\ UNCHANGED <<a, input>>

(* A call ends; the caller that waited goes on with its second half. *)
Return ==
  /\ pc = "return"
  /\ IF todo = <<>> THEN pc' = "done" /\ UNCHANGED <<lo, hi, i, j, pivot, todo>>
     ELSE /\ todo' = Front(todo)
          /\ LET f == Last(todo) IN
               IF f[1] < f[2] THEN Enter(f[1], f[2])
               ELSE UNCHANGED <<lo, hi, i, j, pivot, pc>>
  /\ UNCHANGED <<a, input>>

SortNext == ScanUp \/ ScanDown \/ Swap \/ Recurse \/ Return \/ (pc = "done" /\ UNCHANGED sortVars)
SortSpec == SortInit /\ [][SortNext]_sortVars /\ WF_sortVars(SortNext)

-----------------------------------------------------------------------------
(* Both scans stop inside the part the call sorts: at the pivot the first   *)
(* time, at an element swapped before after that.                          *)
ScansStayInside ==
  /\ pc = "up" => i \in lo .. hi
  /\ pc = "down" => j \in lo .. hi
  /\ pc = "swap" /\ i <= j => i >= lo /\ j <= hi

Count(s, x) == Cardinality({k \in DOMAIN s : s[k] = x})

(* No element is lost or doubled, and at the end they are in order.        *)
SortedPermutation ==
  /\ \A x \in Key : Count(a, x) = Count(input, x)
  /\ pc = "done" => \A k \in 1 .. Len(a) - 1 : a[k] <= a[k + 1]

SortInv == ScansStayInside /\ SortedPermutation

(* Every call makes its part smaller, so the sort ends. *)
SortEnds == <>(pc = "done")
=============================================================================
