-------------------------- MODULE MCDisassembler ---------------------------
(***************************************************************************)
(* The disassembler on small instances: its list, the sort of the list, its *)
(* bit maps, and the listing of a program.  They share no variable: each    *)
(* behaviour runs one of them, chosen at the beginning, and leaves the      *)
(* others at a first state, so the reachable states are the sum of theirs,  *)
(* not the product.                                                        *)
(*                                                                         *)
(* The list starts at the least size, four cells, and grows once.  Its      *)
(* calls treat all elements alike and the other parts have none, so the     *)
(* elements may be swapped.                                                *)
(***************************************************************************)
EXTENDS ListRefinement, QuickSort, FiniteSets, TLC

CONSTANTS W, Sizes,           (* of BitMap                                   *)
          Programs            (* of Disassembler                             *)

VARIABLES part,                                    (* which one runs        *)
          data,                                    (* of BitMap             *)
          program, buffer, cf_buf, clause, loop_idx,
          cf_inst_count, sec_inst_count, listing, stop (* of Disassembler   *)

Map == INSTANCE BitMap
Asm == INSTANCE Disassembler

MCKey    == 1 .. 3
MCSizes  == [two |-> 5, one |-> 3]
Symmetry == Permutations(Elem)

-----------------------------------------------------------------------------
(* Programs for Disassembler, in the form its head describes: two clauses   *)
(* of groups behind each other for the literals, and up to four control     *)
(* instructions for the clauses and loops.                                 *)

(* A line of the program: a control instruction with the groups or fetches  *)
(* of its clause.  A group is a sequence of operations on a channel; an     *)
(* operation has in its three source fields the channel of a literal or     *)
(* none (-1).  With two sources, the third field is made of other bits.     *)
Line(inst, body) == [inst |-> inst, body |-> body]

(* Operations with and without literals, in the third source too, or with   *)
(* bits there that look like one; groups of one and of two of them, one     *)
(* that fills all five units, and one whose channel is taken twice.  Behind  *)
(* a long group the count of a clause reaches the bit that ends programs.   *)
Operation(name, chan, first, third) ==
  [name |-> name, chan |-> chan, lits |-> <<first, -1, third>>]
Ops ==
  [name : {"MOV", "MULADD", "RECIP_IEEE"}, chan : {0, 3}, lits : {-1, 1, 2} \X {-1} \X {-1, 3}]
  \cup {Operation("PRED_SETGT", 0, -1, 0)}
Vector(n) == [m \in 1 .. n |-> Operation("MOV", m - 1, m - 1, -1)]
Full  == Append(Vector(4), Operation("RECIP_IEEE", 0, -1, -1))
Twice == <<Operation("MOV", 1, -1, -1), Operation("MOV", 1, 3, -1)>>
Trans == Operation("RECIP_IEEE", 3, 2, -1)

Groups == {<<op>> : op \in Ops} \cup {<<op, Trans>> : op \in {o \in Ops : o.name # "RECIP_IEEE"}}
          \cup {Vector(n) : n \in 2 .. 4} \cup {Full, Twice}

Controls ==
  {Line("ALU", <<Full, Vector(1)>>), Line("ALU_PUSH_BEFORE", <<Twice>>),
   Line("TC", <<"FETCH", "SAMPLE">>), Line("LOOP_BREAK", <<>>),
   Line("LOOP_START_DX10", <<>>), Line("LOOP_END", <<>>)}
Endings == {Line("EXPORT_DONE", <<>>), Line("TC", <<"SAMPLE">>), Line("LOOP_END", <<>>)}

(* At the end all loops are closed, and none before it was opened. *)
Nesting(items, n) ==
  Cardinality({m \in 1 .. n : items[m].inst = "LOOP_START_DX10"})
  - Cardinality({m \in 1 .. n : items[m].inst = "LOOP_END"})
Balanced(items) ==
  Nesting(items, Len(items)) = 0 /\ \A n \in DOMAIN items : Nesting(items, n) >= 0

MCPrograms ==
  [items : {<<Line("ALU", <<g, h>>), Line("NOP_CF", <<>>)>> : g \in Groups, h \in {Full, Twice}}
           \cup {items \in {Append(c, e) : c \in UNION {[1 .. n -> Controls] : n \in 0 .. 3}, e \in Endings} :
                   Balanced(items)},
   backward : BOOLEAN]

-----------------------------------------------------------------------------
(* Bound: list_clear() leaves the elements in the vector; a state with more *)
(* than one of them behind is not followed any further.                     *)
FewStale == Cardinality({c \in Cells : elem[c] # NULL}) <= count + 1

asmVars == <<program, buffer, cf_buf, clause, loop_idx, cf_inst_count, sec_inst_count,
             listing, stop>>

MCInit ==
  /\ part \in {"list", "sort", "bits", "listing"}
  /\ Init /\ SortInit /\ Map!Init
  /\ part # "sort" => input = <<>>
  /\ IF part = "listing" THEN Asm!Init
     ELSE /\ program = "none" /\ buffer = <<>> /\ cf_buf = 0 /\ clause = Asm!NoClause /\ loop_idx = 0
          /\ cf_inst_count = 0 /\ sec_inst_count = 0 /\ listing = <<>> /\ stop = "running"

MCNext ==
  /\ UNCHANGED part
  /\ \/ part = "list" /\ Next /\ UNCHANGED <<sortVars, data, asmVars>>
     \/ part = "sort" /\ SortNext /\ UNCHANGED <<vars, data, asmVars>>
     \/ part = "bits" /\ Map!Next /\ UNCHANGED <<vars, sortVars, asmVars>>
     \/ part = "listing" /\ Asm!Next /\ UNCHANGED <<vars, sortVars, data>>

MCSpec == MCInit /\ [][MCNext]_<<part, vars, sortVars, data, asmVars>> /\ WF_sortVars(SortNext)

-----------------------------------------------------------------------------
(* The properties of BitMap and Disassembler, see there: writes, reads       *)
(* within a word, counts and copies with every argument on the words of a   *)
(* state; and a program is listed as it was written.                       *)
BitsAndListing ==
  /\ part = "bits" => Map!Exact
  /\ part = "listing" => Asm!ListingRight

(* A field is read as it was written (misc.c:742), see BitMap. *)
GetExact == part = "bits" => Map!GetExact
=============================================================================
