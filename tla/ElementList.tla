---------------------------- MODULE ElementList -----------------------------
(***************************************************************************)
(* What disassembler/list.h promises: a sequence of elements that can be   *)
(* used by position, as a stack and as a queue.  Every call leaves an error *)
(* code and, but for the ones that return nothing, a value.                *)
(***************************************************************************)
EXTENDS Integers, Sequences, SequencesExt

CONSTANTS Elem,      (* elements, non-null pointers                        *)
          NULL,
          MaxCount   (* bound: elements in the list                        *)

VARIABLES items, error_code, ret

vars == <<items, error_code, ret>>

Indices == -1 .. MaxCount
InRange(k) == k \in 0 .. Len(items) - 1

Returns(e, r) == error_code' = e /\ ret' = r
Fails(e)      == Returns(e, NULL) /\ UNCHANGED items

Init == items = <<>> /\ error_code = "OK" /\ ret = NULL

Add(x) ==
  /\ Len(items) < MaxCount
  /\ items' = Append(items, x) /\ Returns("OK", NULL)

Get(k) == IF InRange(k) THEN Returns("OK", items[k + 1]) /\ UNCHANGED items
          ELSE Fails("BOUNDS")

Set(k, x) == IF InRange(k)
             THEN items' = [items EXCEPT ![k + 1] = x] /\ Returns("OK", NULL)
             ELSE Fails("BOUNDS")

Insert(k, x) ==
  /\ Len(items) < MaxCount
  /\ IF k \in 0 .. Len(items)
     THEN items' = InsertAt(items, k + 1, x) /\ Returns("OK", NULL)
     ELSE Fails("BOUNDS")

IndexOf(x) ==
  IF x \in ToSet(items)
  THEN Returns("OK", SelectInSeq(items, LAMBDA y : y = x) - 1) /\ UNCHANGED items
  ELSE Returns("NOT_FOUND", -1) /\ UNCHANGED items

DropAt(k) == items' = RemoveAt(items, k + 1) /\ Returns("OK", items[k + 1])

Delete(k) == IF InRange(k) THEN DropAt(k) ELSE Fails("BOUNDS")

(* Remove the first of the elements equal to x. *)
RemoveElem(x) ==
  IF x \in ToSet(items) THEN DropAt(SelectInSeq(items, LAMBDA y : y = x) - 1)
  ELSE Fails("NOT_FOUND")

Clear == items' = <<>> /\ Returns("OK", NULL)

(* Pop and Dequeue, Top and Bottom with their synonyms. *)
Pop     == IF items = <<>> THEN Fails("EMPTY") ELSE DropAt(Len(items) - 1)
Dequeue == IF items = <<>> THEN Fails("EMPTY") ELSE DropAt(0)
Top     == IF items = <<>> THEN Fails("EMPTY")
           ELSE Returns("OK", Last(items)) /\ UNCHANGED items
Bottom  == IF items = <<>> THEN Fails("EMPTY")
           ELSE Returns("OK", Head(items)) /\ UNCHANGED items

Next ==
  \/ \E x \in Elem : Add(x) \/ IndexOf(x) \/ RemoveElem(x)
  \/ \E k \in Indices : Get(k) \/ Delete(k) \/ \E x \in Elem : Set(k, x) \/ Insert(k, x)
  \/ Clear \/ Pop \/ Dequeue \/ Top \/ Bottom

Spec == Init /\ [][Next]_vars
=============================================================================
