------------------------------- MODULE Shader --------------------------------
(***************************************************************************)
(* The shaders of gpu/evergreen_shader.c, which are also the disassembler's *)
(* samples, and what the sequencer of the card does with a pair of them.    *)
(* A shader is a control program followed by its clauses; a control         *)
(* instruction names its clause by address and length, both written by      *)
(* hand, and starts it without waiting unless it is a barrier.              *)
(*                                                                         *)
(* A value is the set of what it was computed from, so that what a pixel    *)
(* shows can be compared with what it should show.                         *)
(***************************************************************************)
EXTENDS Integers, Sequences, FiniteSets

CONSTANT Pairs       (* of a vertex and a pixel shader, by name              *)

Elems == {"x", "y", "z", "w"}

Unset     == {<<"unset", 0, {}>>}
Index     == {<<"index", 0, {}>>}
Bary(i)   == {<<"bary", i, {}>>}       (* I is 0 and J is 1                 *)
Vertex(o) == {<<"vertex", o, {}>>}     (* of the vertex, at offset o        *)
Const(i)  == {<<"const", i, {}>>}      (* i-th constant of the buffer       *)
Texel(r, coord) == {<<"texel", r, coord>>}
Literal   == {}

-----------------------------------------------------------------------------
(* Control instructions. *)
Cf(inst, addr, count, barrier) ==
  [is |-> "cf", inst |-> inst, addr |-> addr, count |-> count, barrier |-> barrier,
   locked |-> FALSE, last |-> FALSE]

Fetch(addr, count)       == Cf("FETCH", addr, count, TRUE)
Alu(addr, count)         == Cf("ALU", addr, count, TRUE)
AluLocked(addr, count)   == [Alu(addr, count) EXCEPT !.locked = TRUE]
CallIf(addr)             == Cf("CALL_BOOL", addr, 0, FALSE)
CallIfNot(addr)          == Cf("CALL_NOT_BOOL", addr, 0, FALSE)
Return                   == Cf("RETURN", 0, 0, TRUE)
End                      == [Cf("NOP", 0, 0, TRUE) EXCEPT !.last = TRUE]

XYZW == <<"x", "y", "z", "w">>
XY01 == <<"x", "y", "0", "1">>

(* target is one of POS0, PARAM0, PARAM1 and MRT0.  An export is a barrier  *)
(* except behind another one; DONE tells that no more of its kind follow.   *)
(* Each takes one register: BURST_COUNT makes 0 of both 1 and 0.           *)
Export(target, gpr, sel, barrier, done) ==
  [is |-> "cf", inst |-> "EXPORT", target |-> target, gpr |-> gpr, sel |-> sel,
   barrier |-> barrier, done |-> done, last |-> FALSE]
Last(cf) == [cf EXCEPT !.last = TRUE]

(* What clauses are made of.  A fetch takes two slots.  A mega fetch brings *)
(* so many bytes of the vertex, and one of 0 takes its 8 out of those that *)
(* the last mega fetch has brought.                                        *)
Pad == [is |-> "pad"]
Vtx(dst, offset, sel, mega) ==
  <<[is |-> "vtx", dst |-> dst, offset |-> offset, sel |-> sel, mega |-> mega],
    [is |-> "second"]>>
Tex(dst, src, r, sel) == <<[is |-> "tex", dst |-> dst, src |-> src, r |-> r, sel |-> sel],
                           [is |-> "second"]>>

Op(op, dst, e, write, srcs, last) ==
  [is |-> "alu", op |-> op, dst |-> dst, elem |-> e, write |-> write, srcs |-> srcs, last |-> last]

Gpr(g, e) == [file |-> "gpr", n |-> g, elem |-> e]
C(i, e)   == [file |-> "const", n |-> i, elem |-> e]
PV(e)     == [file |-> "pv", n |-> 0, elem |-> e]
Param(p)  == [file |-> "param", n |-> p, elem |-> "x"]
Lit       == [file |-> "literal", n |-> 0, elem |-> "x"]

(* The groups of four that occur: J and I in turn, of which x and y are     *)
(* written; and a product of vectors that one element takes.               *)
Interp(dst, p) ==
  <<Op("INTERP_XY", dst, "x", TRUE,  <<Gpr(0, "y"), Param(p)>>, FALSE),
    Op("INTERP_XY", dst, "y", TRUE,  <<Gpr(0, "x"), Param(p)>>, FALSE),
    Op("INTERP_XY", dst, "z", FALSE, <<Gpr(0, "y"), Param(p)>>, FALSE),
    Op("INTERP_XY", dst, "w", FALSE, <<Gpr(0, "x"), Param(p)>>, TRUE)>>

Dot(dst, e, g, i) ==
  [j \in 1 .. 4 |-> Op("DOT4", dst, XYZW[j], XYZW[j] = e, <<Gpr(g, XYZW[j]), C(i, XYZW[j])>>, j = 4)]

Mul(dst, e, a, b, last) == Op("MUL", dst, e, TRUE, <<a, b>>, last)

-----------------------------------------------------------------------------
evergreen_solid_vs ==
  <<Fetch(4, 1),
    Export("POS0", 1, XYZW, TRUE, TRUE),
    Last(Export("PARAM0", 0, XYZW, FALSE, TRUE)),
    Pad>> \o Vtx(1, 0, XY01, 8)

evergreen_solid_ps ==
  <<AluLocked(2, 4),
    Last(Export("MRT0", 0, XYZW, TRUE, TRUE))>>
  \o [j \in 1 .. 4 |-> Op("MOV", 0, XYZW[j], TRUE, <<C(0, XYZW[j])>>, j = 4)]

evergreen_copy_vs ==
  <<Fetch(4, 2),
    Export("POS0", 1, XYZW, TRUE, TRUE),
    Last(Export("PARAM0", 0, XYZW, FALSE, TRUE)),
    Pad>> \o Vtx(1, 0, XY01, 16) \o Vtx(0, 8, XY01, 0)

evergreen_copy_ps ==
  <<Alu(3, 4), Fetch(8, 1),
    Last(Export("MRT0", 0, XYZW, TRUE, TRUE))>>
  \o Interp(0, 0) \o <<Pad>> \o Tex(0, 0, 0, XYZW)

evergreen_xv_vs ==
  <<Fetch(6, 2), AluLocked(4, 2),
    Export("POS0", 1, XYZW, TRUE, TRUE),
    Last(Export("PARAM0", 0, XYZW, FALSE, TRUE)),
    Mul(0, "x", Gpr(0, "x"), C(0, "x"), FALSE), Mul(0, "y", Gpr(0, "y"), C(0, "y"), TRUE)>>
  \o Vtx(1, 0, XY01, 16) \o Vtx(0, 8, XY01, 0)

(* From YUV to RGB: three columns of a matrix, one after the other, and an  *)
(* alpha of one.  The parts of the colour come in three textures or in two. *)
Column(a, b, c) ==
  [j \in 1 .. 4 |-> IF j < 4 THEN Op("MULADD", 2, XYZW[j], TRUE, <<a[j], b, c[j]>>, FALSE)
                    ELSE Op("MULADD", 2, "w", TRUE, <<Lit, Lit, Lit>>, TRUE)]
Consts(i) == <<C(i, "x"), C(i, "y"), C(i, "z")>>
Before    == <<PV("x"), PV("y"), PV("z")>>

YColumn == Column(<<C(0, "w"), C(0, "w"), C(0, "w")>>, Gpr(1, "x"), Consts(0))
UColumn == Column(Consts(1), Gpr(1, "y"), Before)
VColumn == Column(Consts(2), Gpr(1, "z"), Before)

Planar ==
  <<Fetch(24, 3), Return, Pad>>
  \o Tex(1, 0, 0, <<"x", "mask", "mask", "1">>) \o Tex(1, 0, 1, <<"mask", "mask", "x", "mask">>)
  \o Tex(1, 0, 2, <<"mask", "x", "mask", "mask">>)
Packed ==
  <<Fetch(32, 2), Return>>
  \o Tex(1, 0, 0, <<"x", "mask", "mask", "1">>) \o Tex(1, 0, 1, <<"mask", "x", "y", "mask">>)

evergreen_xv_ps ==
  <<Alu(5, 4), CallIf(21), CallIfNot(30), AluLocked(9, 12),
    Last(Export("MRT0", 2, XYZW, TRUE, TRUE))>>
  \o Interp(0, 0) \o YColumn \o UColumn \o VColumn \o Planar \o Packed

(* Two programs in one: with a mask and without.  Coordinates are           *)
(* multiplied with a matrix and scaled.                                    *)
XY10 == <<"x", "y", "1", "0">>

SourceDots == Dot(3, "x", 1, 0) \o Dot(3, "y", 1, 1)
MaskDots   == Dot(4, "x", 0, 2) \o Dot(4, "y", 0, 3)
Scales ==
  <<Mul(1, "x", Gpr(3, "x"), C(0, "w"), TRUE), Mul(1, "y", Gpr(3, "y"), C(1, "w"), TRUE),
    Mul(0, "x", Gpr(4, "x"), C(2, "w"), TRUE), Mul(0, "y", Gpr(4, "y"), C(3, "w"), TRUE)>>

PlainDots   == Dot(2, "x", 0, 0) \o Dot(2, "y", 0, 1)
PlainScales ==
  <<Mul(0, "x", Gpr(2, "x"), C(0, "w"), TRUE), Mul(0, "y", Gpr(2, "y"), C(1, "w"), TRUE)>>

(* Mutant: the register of the index is written before its last use.       *)
VtxIndexFirst == Vtx(2, 0, XY01, 24) \o Vtx(0, 16, XY10, 0) \o Vtx(1, 8, XY10, 0)
(* Mutant: the mega fetch brings two of the three parts of the vertex.     *)
VtxShort      == Vtx(2, 0, XY01, 16) \o Vtx(1, 8, XY10, 0) \o Vtx(0, 16, XY10, 0)
VtxMasked     == Vtx(2, 0, XY01, 24) \o Vtx(1, 8, XY10, 0) \o Vtx(0, 16, XY10, 0)
VtxPlain      == Vtx(1, 0, XY01, 16) \o Vtx(0, 8, XY10, 0)

evergreen_comp_vs ==
  <<CallIf(3), CallIfNot(9), End,
    Fetch(44, 3), AluLocked(14, 20),
    Export("POS0", 2, XY01, TRUE, TRUE),
    Export("PARAM0", 1, XY01, FALSE, FALSE), Export("PARAM1", 0, XY01, FALSE, TRUE), Return,
    Fetch(50, 2), AluLocked(34, 10),
    Export("POS0", 1, XY01, TRUE, TRUE), Export("PARAM0", 0, XY01, FALSE, TRUE), Return>>
  \o SourceDots \o MaskDots \o Scales \o PlainDots \o PlainScales \o VtxMasked \o VtxPlain

(* The coordinates of the source go to another register, as those of the    *)
(* mask are computed from what is in register 0.                           *)
(* Mutant: both go to register 0.                                           *)
SourceCoordsHere == Interp(0, 0)
SourceCoords     == Interp(1, 0)
MaskCoords   == Interp(0, 1)
PlainCoords  == Interp(0, 0)
Products     == [j \in 1 .. 4 |-> Mul(2, XYZW[j], Gpr(0, XYZW[j]), Gpr(1, XYZW[j]), j = 4)]
Textures     == Tex(1, 1, 0, XYZW) \o Tex(0, 0, 1, XYZW)

evergreen_comp_ps ==
  <<CallIf(3), CallIfNot(8), End,
    Alu(12, 8), Fetch(28, 2), AluLocked(20, 4),
    Export("MRT0", 2, XYZW, TRUE, TRUE), Return,
    Alu(24, 4), Fetch(32, 1), Export("MRT0", 0, XYZW, TRUE, TRUE), Return>>
  \o SourceCoords \o MaskCoords \o Products \o PlainCoords \o Textures
  \o Tex(0, 0, 0, XYZW)

Code(pair, stage) ==
  IF stage = "vs"
  THEN [solid |-> evergreen_solid_vs, copy |-> evergreen_copy_vs,
        xv |-> evergreen_xv_vs, comp |-> evergreen_comp_vs][pair]
  ELSE [solid |-> evergreen_solid_ps, copy |-> evergreen_copy_ps,
        xv |-> evergreen_xv_ps, comp |-> evergreen_comp_ps][pair]

-----------------------------------------------------------------------------
VARIABLES
  pair, bool,    (* the shaders, and the boolean constant 0 of both         *)
  stage,         (* idle, vs, ps or done                                    *)
  pc, ret,
  clauses,       (* the clauses under way                                   *)
  gpr, out, over (* registers, what was exported, and which kinds are done  *)

svars == <<pair, bool, stage, pc, ret, clauses, gpr, out, over>>

Registers == (0 .. 4) \X Elems
Targets   == {"POS0", "PARAM0", "PARAM1", "MRT0"}
Kind      == [POS0 |-> "POS", PARAM0 |-> "PARAM", PARAM1 |-> "PARAM", MRT0 |-> "PIXEL"]

(* A vertex shader starts with the index of its vertex, a pixel shader with *)
(* the place of the pixel in its triangle.                                 *)
VsStart == [r \in Registers |-> IF r = <<0, "x">> THEN Index ELSE Unset]
PsStart == [r \in Registers |-> CASE r = <<0, "x">> -> Bary(0) [] r = <<0, "y">> -> Bary(1)
                                  [] OTHER -> Unset]

Fresh ==
  /\ pc = 0 /\ ret = <<>> /\ clauses = <<>> /\ gpr = VsStart
  /\ out = [t \in Targets |-> [e \in Elems |-> Unset]] /\ over = <<>>

ShaderInit == pair \in Pairs /\ bool \in BOOLEAN /\ stage = "vs" /\ Fresh

program == Code(pair, stage)
At(a)   == program[a + 1]

(* The registers a program needs. *)
Uses(p) ==
  UNION {LET i == p[n] IN
         CASE i.is = "cf"  -> IF i.inst = "EXPORT" THEN {i.gpr} ELSE {}
           [] i.is = "alu" -> {i.dst} \cup {s.n : s \in {i.srcs[j] : j \in {k \in DOMAIN i.srcs : i.srcs[k].file = "gpr"}}}
           [] i.is = "vtx" -> {0, i.dst}
           [] i.is = "tex" -> {i.src, i.dst}
           [] OTHER        -> {} : n \in DOMAIN p}

(* The items of a clause that execute together from a on. *)
Group(a) ==
  IF At(a).is # "alu" THEN {a}
  ELSE {b \in a .. Len(program) - 1 : \A i \in a .. b - 1 : At(i).is = "alu" /\ ~At(i).last}

Size(a) == IF At(a).is = "alu" THEN Cardinality(Group(a)) ELSE 1
Step(a) == IF At(a).is = "alu" THEN Cardinality(Group(a)) ELSE 2

Operand(clause, s) ==
  CASE s.file = "gpr"     -> gpr[<<s.n, s.elem>>]
    [] s.file = "const"   -> IF clause.locked THEN Const(s.n) ELSE Unset
    [] s.file = "pv"      -> clause.pv[s.elem]
    [] s.file = "literal" -> Literal

Operands(clause, item) ==
  UNION {Operand(clause, item.srcs[i]) : i \in {j \in DOMAIN item.srcs : item.srcs[j].file # "param"}}

(* What an element of a group becomes. *)
Result(clause, item) ==
  LET group == {At(a) : a \in Group(clause.at)}
  IN CASE item.op = "DOT4" -> UNION {Operands(clause, i) : i \in group}
       [] item.op = "INTERP_XY" ->
            IF \A i \in group : Operands(clause, i) = Bary(IF i.elem \in {"x", "z"} THEN 1 ELSE 0)
            THEN out[IF item.srcs[2].n = 0 THEN "PARAM0" ELSE "PARAM1"][item.elem]
            ELSE Unset
       [] OTHER -> Operands(clause, item)

Results(clause) ==
  [e \in Elems |-> LET items == {At(a) : a \in {b \in Group(clause.at) : At(b).elem = e}}
                   IN IF items = {} THEN Unset ELSE Result(clause, CHOOSE i \in items : TRUE)]

(* The end of what mega fetches have brought of the vertex, with this one.  *)
Brought(clause, item) ==
  IF item.is = "vtx" /\ item.mega > 0 THEN item.offset + item.mega ELSE clause.mega

Fetched(clause, item) ==
  IF item.is = "vtx"
  THEN IF gpr[<<0, "x">>] = Index /\ item.offset + 8 <= Brought(clause, item)
       THEN Vertex(item.offset) ELSE Unset
  ELSE LET coord == gpr[<<item.src, "x">>] \cup gpr[<<item.src, "y">>]
       IN IF Unset \cap coord = {} THEN Texel(item.r, coord) ELSE Unset

Selected(clause, item, e) ==
  LET i == CHOOSE j \in 1 .. 4 : XYZW[j] = e
  IN CASE item.sel[i] \in {"0", "1"} -> Literal
       [] item.sel[i] = "mask"       -> gpr[<<item.dst, e>>]
       [] OTHER                      -> Fetched(clause, item)

(* A clause under way executes its next group or fetch. *)
Execute(n) ==
  LET clause == clauses[n]
      item   == At(clause.at)
      left   == clause.left - Size(clause.at)
      rest   == [clause EXCEPT !.at = @ + Step(clause.at), !.left = left,
                               !.mega = Brought(clause, item),
                               !.pv = IF item.is = "alu" THEN Results(clause) ELSE @]
  IN /\ gpr' = IF item.is = "alu"
               THEN [r \in Registers |->
                      IF \E a \in Group(clause.at) : At(a).dst = r[1] /\ At(a).elem = r[2] /\ At(a).write
                      THEN Results(clause)[r[2]] ELSE gpr[r]]
               ELSE [r \in Registers |-> IF r[1] = item.dst THEN Selected(clause, item, r[2]) ELSE gpr[r]]
     /\ clauses' = IF left = 0
                   THEN SubSeq(clauses, 1, n - 1) \o SubSeq(clauses, n + 1, Len(clauses))
                   ELSE [clauses EXCEPT ![n] = rest]
     /\ UNCHANGED <<pair, bool, stage, pc, ret, out, over>>

(* The control program goes on to the next instruction; END_OF_PROGRAM      *)
(* waits for the clauses and hands what was exported to the next stage.     *)
Advance(next) ==
  IF ~At(pc).last THEN pc' = next /\ UNCHANGED <<stage, gpr>>
  ELSE /\ clauses' = <<>> /\ pc' = 0
       /\ stage' = IF stage = "vs" THEN "ps" ELSE "done"
       /\ gpr' = PsStart

Ready == stage \in {"vs", "ps"} /\ (At(pc).barrier \/ At(pc).last => clauses = <<>>)

StartClause ==
  /\ Ready /\ At(pc).inst \in {"FETCH", "ALU"}
  /\ clauses' = Append(clauses, [at |-> At(pc).addr, left |-> At(pc).count,
                                 locked |-> At(pc).locked, mega |-> 0,
                                 pv |-> [e \in Elems |-> Unset]])
  /\ pc' = pc + 1
  /\ UNCHANGED <<pair, bool, stage, ret, gpr, out, over>>

Exports ==
  /\ Ready /\ At(pc).inst = "EXPORT"
  /\ out' = [out EXCEPT ![At(pc).target] =
       [e \in Elems |-> LET s == At(pc).sel[CHOOSE j \in 1 .. 4 : XYZW[j] = e]
                        IN IF s \in {"0", "1"} THEN Literal ELSE gpr[<<At(pc).gpr, s>>]]]
  /\ over' = IF At(pc).done THEN Append(over, Kind[At(pc).target]) ELSE over
  /\ Advance(pc + 1)
  /\ UNCHANGED <<pair, bool, ret, clauses>>

Calls ==
  /\ Ready /\ At(pc).inst \in {"CALL_BOOL", "CALL_NOT_BOOL"}
  /\ IF bool = (At(pc).inst = "CALL_BOOL")
     THEN pc' = At(pc).addr /\ ret' = Append(ret, pc + 1)
     ELSE pc' = pc + 1 /\ UNCHANGED ret
  /\ UNCHANGED <<pair, bool, stage, clauses, gpr, out, over>>

Returns ==
  /\ Ready /\ At(pc).inst = "RETURN" /\ ret # <<>>
  /\ pc' = ret[Len(ret)] /\ ret' = SubSeq(ret, 1, Len(ret) - 1)
  /\ UNCHANGED <<pair, bool, stage, clauses, gpr, out, over>>

Nop ==
  /\ Ready /\ At(pc).inst = "NOP"
  /\ Advance(pc + 1)
  /\ UNCHANGED <<pair, bool, ret, clauses, out, over>>

ShaderNext ==
  \/ StartClause \/ Exports \/ Calls \/ Returns \/ Nop
  \/ \E n \in DOMAIN clauses : Execute(n)

ShaderSpec == ShaderInit /\ [][ShaderNext]_svars

-----------------------------------------------------------------------------
(* Every address leads to code of its kind, every length ends with a group, *)
(* and a call has a return: a program never runs into its clauses, padding  *)
(* or the second half of an instruction.                                   *)
InCode ==
  stage \in {"vs", "ps"} =>
    /\ pc \in 0 .. Len(program) - 1 /\ At(pc).is = "cf"
    /\ At(pc).inst = "RETURN" => ret # <<>>
    /\ At(pc).last => ret = <<>>
    /\ \A n \in DOMAIN clauses :
         LET c == clauses[n] IN
         /\ c.at \in 0 .. Len(program) - 1 /\ At(c.at).is \in {"alu", "vtx", "tex"}
         /\ At(c.at).is = "alu" => Size(c.at) \in 1 .. c.left
         /\ At(c.at).is # "alu" => c.at % 2 = 0

(* Each stage announces the end of each kind of export exactly once: a      *)
(* vertex without a position, or a second end, stops the card.             *)
ExportsEnd ==
  /\ stage = "ps" => over \in {<<"POS", "PARAM">>, <<"POS", "PARAM", "PIXEL">>}
  /\ stage = "done" => over = <<"POS", "PARAM", "PIXEL">>

(* What is on the screen: the vertex where its first two numbers say, and   *)
(* in each pixel one constant; the texture at the coordinates that came     *)
(* with the vertex; all parts of a colour; the source times the mask, each  *)
(* at its own coordinates.  Nothing in it is what happened to be in a       *)
(* register, in whatever order the clauses go on.                          *)
Position == [e \in Elems |-> IF e \in {"x", "y"} THEN Vertex(0) ELSE Literal]
All(v)   == [e \in Elems |-> v]
Scaled   == Vertex(8) \cup Const(0)
SourceAt == Vertex(8) \cup Const(0) \cup Const(1)
MaskAt   == Vertex(16) \cup Const(2) \cup Const(3)

Yuv      == Const(0) \cup Const(1) \cup Const(2) \cup Texel(0, Scaled) \cup Texel(1, Scaled)
            \cup (IF bool THEN Texel(2, Scaled) ELSE {})
Masked   == Texel(0, SourceAt) \cup (IF bool THEN Texel(1, MaskAt) ELSE {})

Shows ==
  [solid |-> All(Const(0)), copy |-> All(Texel(0, Vertex(8))),
   xv |-> [e \in Elems |-> IF e = "w" THEN Literal ELSE Yuv],
   comp |-> All(Masked)]

PixelRight ==
  stage = "done" => out.POS0 = Position /\ out.MRT0 = Shows[pair]

ShaderInv == InCode /\ ExportsEnd /\ PixelRight
=============================================================================
