--------------------------- MODULE ListRefinement ---------------------------
(***************************************************************************)
(* List implements ElementList: the cells from the head on are the items.  *)
(***************************************************************************)
EXTENDS List

Items == [k \in 1 .. count |-> At(k - 1)]

Abstract == INSTANCE ElementList WITH items <- Items

(* Every call of list.c does to the sequence what list.h says, returns the  *)
(* element it says and leaves its error code, wherever the list lies in    *)
(* its vector, whichever side moves and whether or not it has to grow.     *)
ImplementsList == Abstract!Spec
=============================================================================
