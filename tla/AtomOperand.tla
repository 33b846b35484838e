---------------------------- MODULE AtomOperand -----------------------------
(***************************************************************************)
(* Operands and arithmetic of the AtomBIOS interpreter, drm/atombios/      *)
(* atom.c: every opcode reads a lane (byte, word or all) of its            *)
(* destination and of its source, and puts the result back into the lane   *)
(* of the destination while keeping the rest of the dword.                 *)
(*                                                                         *)
(* A dword has four bytes of one of Base values each (256 in the program), *)
(* so that every lane and every carry can be enumerated.  One instruction  *)
(* is executed from any contents of the registers.                         *)
(***************************************************************************)
EXTENDS Integers, Sequences, Bitwise

CONSTANTS
  Base,        (* values of a byte, a power of two                          *)
  Locs,        (* registers: <<kind, index>>                                *)
  Sample       (* contents that registers start with                       *)

Dword == Base ^ 4
Bits  == CHOOSE b \in 1 .. 32 : 2 ^ b = Dword

VARIABLES
  ins,         (* the instruction: opcode, attribute byte, operands         *)
  io_mode,     (* how ATOM_ARG_REG operands are reached                     *)
  mem,         (* contents of the registers                                 *)
  cs,          (* cs_equal and cs_above                                     *)
  divmul,      (* quotient (or product) and remainder                       *)
  done         (* has the instruction been executed?                        *)

vars == <<ins, io_mode, mem, cs, divmul, done>>

-----------------------------------------------------------------------------
(* The tables atom_arg_shift and atom_arg_mask, in bytes: where the lane   *)
(* of an alignment begins and how many bytes it has.                       *)
LaneStart == <<0, 0, 1, 2, 0, 1, 2, 3>>
LaneBytes == <<4, 2, 2, 2, 1, 1, 1, 1>>
Low(a)    == Base ^ LaneStart[a + 1]
Span(a)   == Base ^ LaneBytes[a + 1]

(* atom_dst_to_src and atom_def_dst.  Mutant: one row of the table slips.  *)
DstToSrcSlipped(a, d) ==
  IF a = 0 THEN 0
  ELSE IF a \in 1 .. 3 THEN <<1, 2, 3, 0>>[d + 1] ELSE <<4, 5, 6, 6>>[d + 1]

DstToSrc(a, d) ==
  IF a = 0 THEN 0
  ELSE IF a \in 1 .. 3 THEN <<1, 2, 3, 0>>[d + 1] ELSE <<4, 5, 6, 7>>[d + 1]

DefDst == <<0, 0, 1, 2, 0, 1, 2, 3>>

(* The attribute byte: source argument, source alignment, destination field *)
Attr(src, a, d) == [src |-> src, align |-> a, dst |-> d]
DstAlign(attr)  == DstToSrc(attr.align, attr.dst)

(* clear and the two immediate shifts replace the destination field so that *)
(* the destination has the alignment given for the source.                 *)
Defaulted(attr) == [attr EXCEPT !.dst = DefDst[attr.align + 1]]

Extract(val, a) == (val \div Low(a)) % Span(a)

(* Mutant: the value is shifted into place and not masked. *)
InsertUnmasked(saved, a, val) ==
  saved - Extract(saved, a) * Low(a) + val * Low(a)

(* The masks and the shift at the head of atom_put_dst. *)
Insert(saved, a, val) ==
  saved - Extract(saved, a) * Low(a) + (val % Span(a)) * Low(a)

-----------------------------------------------------------------------------
(* atom_get_src_int: the lane and the whole dword (saved) of an operand.   *)
(* Where the function returns early, saved keeps what the caller's stack   *)
(* held, any value: for PCI and SYSIO ports and for memory controller      *)
(* registers, whose value is read and dropped.                             *)
Unset(loc) == loc[1] = "MC" \/ (loc[1] = "REG" /\ io_mode \in {"PCI", "SYSIO"})

Fetched(loc, a) ==
  IF Unset(loc) THEN {[val |-> 0, saved |-> s] : s \in {0, Dword - 1}}
  ELSE {[val |-> Extract(mem[loc], a), saved |-> mem[loc]]}

(* The source of an instruction: a register or an immediate, which is read  *)
(* with the width of its alignment and not shifted.  Mutant: always read   *)
(* with the full width.                                                    *)
SourceFullWidth(attr) ==
  IF attr.src[1] = "IMM" THEN {attr.src[2]}
  ELSE {f.val : f \in Fetched(attr.src, attr.align)}

Source(attr) ==
  IF attr.src[1] = "IMM" THEN {attr.src[2] % Span(attr.align)}
  ELSE {f.val : f \in Fetched(attr.src, attr.align)}

(* Mutant: a register operand is written whatever the port. *)
StoreAlways(loc, a, val, saved) ==
  mem' = [mem EXCEPT ![loc] = Insert(saved, a, val)]

(* atom_put_dst: PCI and SYSIO ports are not written; register 0 is the    *)
(* index port, whose value is an address in dwords.                        *)
Store(loc, a, val, saved) ==
  mem' = IF loc[1] = "REG" /\ io_mode \in {"PCI", "SYSIO"} THEN mem
         ELSE [mem EXCEPT ![loc] =
                IF loc = <<"REG", 0>> /\ io_mode = "MM"
                THEN (Insert(saved, a, val) * 4) % Dword
                ELSE Insert(saved, a, val)]

-----------------------------------------------------------------------------
Arith == {"add", "and", "or", "sub", "xor", "mask", "move", "clear",
          "shift_left", "shift_right", "shl", "shr"}

(* The shifts.  shift_left and shift_right shift the lane by an immediate;  *)
(* shl and shr shift the whole dword and then take the lane out of it.  A   *)
(* count of a whole dword or more is undefined in C; the processor takes   *)
(* it modulo the width.                                                    *)
Shifted(op, dst, saved, count, a) ==
  CASE op = "shift_left"  -> (dst * 2 ^ count) % Dword
    [] op = "shift_right" -> dst \div 2 ^ count
    [] op = "shl"  -> Extract((saved * 2 ^ count) % Dword, a)
    [] op = "shr"  -> Extract(saved \div 2 ^ count, a)

(* What each opcode computes from the lane dst, the dword saved, the source *)
(* lane src and, for mask and the immediate shifts, the direct operand.    *)
Compute(op, dst, saved, src, direct, a) ==
  CASE op = "add"   -> (dst + src) % Dword
    [] op = "and"   -> dst & src
    [] op = "or"    -> dst | src
    [] op = "sub"   -> (dst - src) % Dword
    [] op = "xor"   -> dst ^^ src
    [] op = "mask"  -> (dst & direct) | src
    [] op = "move"  -> src
    [] op = "clear" -> 0
    [] op \in {"shift_left", "shift_right"} -> Shifted(op, dst, saved, direct, a)
    [] op \in {"shl", "shr"} -> Shifted(op, dst, saved, src % Bits, a)

(* Which attribute byte the destination is decoded with. *)
DstAttr(op, attr) ==
  IF op \in {"clear", "shift_left", "shift_right"} THEN Defaulted(attr) ELSE attr

(* The opcodes that write their destination.  move of a whole dword does   *)
(* not read it: saved is a constant that the lane covers completely.       *)
Arithmetic ==
  /\ ~done /\ ins.op \in Arith
  /\ LET a == DstAlign(DstAttr(ins.op, ins.attr))
     IN  \E f \in Fetched(ins.loc, a), src \in Source(ins.attr) :
           Store(ins.loc, a,
                 Compute(ins.op, f.val, f.saved, src, ins.direct, a), f.saved)
  /\ done' = TRUE
  /\ UNCHANGED <<ins, io_mode, cs, divmul>>

(* compare, test, mul and div read both operands and set flags or divmul.  *)
Evaluate ==
  /\ ~done /\ ins.op \in {"compare", "test", "mul", "div"}
  /\ \E f \in Fetched(ins.loc, DstAlign(ins.attr)), src \in Source(ins.attr) :
       /\ cs' = IF ins.op = "compare"
                THEN [equal |-> f.val = src, above |-> f.val > src]
                ELSE IF ins.op = "test"
                THEN [cs EXCEPT !.equal = (f.val & src) = 0] ELSE cs
       /\ divmul' = IF ins.op = "mul" THEN [divmul EXCEPT ![1] = (f.val * src) % Dword]
                    ELSE IF ins.op # "div" THEN divmul
                    ELSE IF src = 0 THEN <<0, 0>>
                    ELSE <<f.val \div src, f.val % src>>
  /\ done' = TRUE
  /\ UNCHANGED <<ins, io_mode, mem>>

(* Any instruction the opcode table has, on any contents.  Three opcodes are *)
(* followed by a direct operand; for the others it is not looked at.       *)
Init ==
  /\ ins \in [op : Arith \cup {"compare", "test", "mul", "div"},
              attr : {Attr(s, a, d) : s \in Locs \cup {<<"IMM", v>> : v \in Sample},
                                      a \in 0 .. 7, d \in 0 .. 3},
              loc : Locs, direct : {1, Bits - 1}]
  /\ ins.op \notin {"mask", "shift_left", "shift_right"} => ins.direct = 1
  /\ io_mode \in {"MM", "PCI"}
  /\ mem \in [Locs -> Sample]
  /\ cs = [equal |-> FALSE, above |-> TRUE]
  /\ divmul = <<0, 0>>
  /\ done = FALSE

Done == done /\ UNCHANGED vars

Next == Arithmetic \/ Evaluate \/ Done

Spec == Init /\ [][Next]_vars

-----------------------------------------------------------------------------
(* Registers that read back as dwords; the others, and the index port, are  *)
(* named in Unset and Store.                                               *)
Plain(loc) == ~Unset(loc) /\ loc # <<"REG", 0>>

(* An instruction changes nothing outside the lane of its destination: not  *)
(* another register, not another byte of the same register, and nothing of  *)
(* a register behind a port that is not implemented.                       *)
OnlyTheLane ==
  [][\A loc \in Locs :
       mem'[loc] # mem[loc] =>
         /\ loc = ins.loc /\ mem'[loc] \in 0 .. Dword - 1
         /\ ~(io_mode = "PCI" /\ loc[1] = "REG")
         /\ Plain(loc) =>
              LET a == DstAlign(DstAttr(ins.op, ins.attr))
              IN  Insert(mem'[loc], a, 0) = Insert(mem[loc], a, 0)]_vars

(* In the lane, arithmetic is that of a register of the lane's width, with  *)
(* the carry out of the lane dropped and no carry in from its neighbours;  *)
(* the register shifts alone look at the whole dword.  Division satisfies  *)
(* the division equation and a divisor of zero gives zeros.                *)
LaneArithmetic ==
  [][ins.op \in {"add", "sub", "move", "clear", "shift_left", "shr", "div"} /\ Plain(ins.loc)
     /\ ins.attr.src[1] = "IMM" =>
       LET a   == DstAlign(DstAttr(ins.op, ins.attr))
           old == Extract(mem[ins.loc], a)
           new == Extract(mem'[ins.loc], a)
           src == ins.attr.src[2] % Span(ins.attr.align)
       IN  CASE ins.op = "add"   -> (new - old - src) % Span(a) = 0
             [] ins.op = "sub"   -> (new - old + src) % Span(a) = 0
             [] ins.op = "move"  -> (new - src) % Span(a) = 0
             [] ins.op = "clear" -> new = 0 /\ a = ins.attr.align
             [] ins.op = "shift_left" -> (new - old * 2 ^ ins.direct) % Span(a) = 0
             [] ins.op = "shr"   ->
                  new = (mem[ins.loc] \div (Low(a) * 2 ^ (src % Bits))) % Span(a)
             [] ins.op = "div" /\ src = 0 -> divmul' = <<0, 0>>
             [] ins.op = "div" /\ src # 0 ->
                  divmul'[1] * src + divmul'[2] = old /\ divmul'[2] < src]_vars
=============================================================================
