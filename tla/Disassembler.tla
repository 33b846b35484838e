---------------------------- MODULE Disassembler ----------------------------
(***************************************************************************)
(* The shader disassembler, disassembler/asm.c: evg_disasm_init() sorts the *)
(* instructions of evergreen-asm.dat into tables by the format of their     *)
(* second word, and evg_disasm_buffer() walks a program: a list of control  *)
(* instructions up to the one that ends it, each followed by the clause it  *)
(* names.  What a slot of 64 bits is follows from where the walk comes from: *)
(* the literals of a group look like instructions, and the same bits mean   *)
(* different things in different formats.                                  *)
(*                                                                         *)
(* The wording of a line is left out: a line is its instruction, number,    *)
(* indentation and units, and the values of its literals.                   *)
(***************************************************************************)
EXTENDS Integers, Sequences, FiniteSets, FiniteSetsExt, SequencesExt, Functions

CONSTANT Programs   (* [items, backward]: control instructions with the groups *)
                    (* or fetches of their clauses (see MCDisassembler), and   *)
                    (* whether the clauses lie in memory in the other order    *)

VARIABLES
  program,          (* what the buffer was assembled from                   *)
  buffer,           (* slots, the first at address 0                        *)
  cf_buf,           (* the next control instruction, or Null                *)
  clause,           (* [is, at, end]: of the clause under way               *)
  loop_idx, cf_inst_count, sec_inst_count,
  listing, stop     (* what was printed; running, done or fatal             *)

vars == <<program, buffer, cf_buf, clause, loop_idx, cf_inst_count, sec_inst_count, listing, stop>>

Null     == -1
None     == [name |-> "none"]
NoClause == [is |-> "none", at |-> 0, end |-> 0]

-----------------------------------------------------------------------------
(* Instructions of evergreen-asm.dat, in its order.  Of those with opcode   *)
(* 27 the last one stays.                                                  *)
Inst(name, table, opcode) == [name |-> name, table |-> table, opcode |-> opcode]

Dat ==
  <<Inst("ALU", "cf_short", 8), Inst("ALU_PUSH_BEFORE", "cf_short", 9),
    Inst("EXPORT_DONE", "cf_long", 84), Inst("GWS_BARRIER", "cf_long", 2),
    Inst("LOOP_END", "cf_long", 5), Inst("LOOP_START_DX10", "cf_long", 6),
    Inst("LOOP_BREAK", "cf_long", 9), Inst("NOP_CF", "cf_long", 0),
    Inst("TC", "cf_long", 1), Inst("TC_ACK", "cf_long", 27), Inst("VC", "cf_long", 27),
    Inst("MOV", "alu_long", 25), Inst("PRED_SETGT", "alu_long", 33),
    Inst("RECIP_IEEE", "alu_long", 134), Inst("MULADD", "alu_short", 20),
    Inst("FETCH", "tex", 0), Inst("SAMPLE", "tex", 16)>>

TransOnly == {"RECIP_IEEE"}
IncLoop   == {"LOOP_START_DX10"}
DecLoop   == {"LOOP_END"}

(* The entry of a table at an opcode, which its last instruction takes. *)
Entry(t, opcode) ==
  LET dat == Dat
      all == {i \in DOMAIN dat : dat[i].table = t /\ dat[i].opcode = opcode}
  IN IF all = {} THEN None ELSE dat[Max(all)]

evg_inst_info_cf_long(o)   == Entry("cf_long", o)
evg_inst_info_cf_short(o)  == Entry("cf_short", o)
evg_inst_info_alu_long(o)  == Entry("alu_long", o)
evg_inst_info_alu_short(o) == Entry("alu_short", o)
evg_inst_info_tex(o)       == Entry("tex", o)

-----------------------------------------------------------------------------
(* The hardware's format.  inst is the longer of the two opcode fields that *)
(* overlap: the short one is its upper bits.  In the instruction of an ALU   *)
(* clause the bits below the short opcode are bits of its count; one of     *)
(* them lies where other instructions end the program.                     *)
Opcode(name) == (CHOOSE i \in ToSet(Dat) : i.name = name).opcode
IsAlu(name)  == name \in {"ALU", "ALU_PUSH_BEFORE"}

(* The dwords a group's literals take, in slots of two. *)
LitSlots(g) ==
  LET chans == UNION {{g[j].lits[s] : s \in 1 .. (IF g[j].name = "MULADD" THEN 3 ELSE 2)} :
                        j \in DOMAIN g}
  IN (Max(chans) + 2) \div 2

AluSlot(op, last) ==
  [is |-> "alu", chan |-> op.chan, lits |-> op.lits, last |-> last,
   inst |-> IF op.name = "MULADD" THEN 64 * Opcode(op.name) ELSE Opcode(op.name)]

GroupSlots(g, id) ==
  [j \in DOMAIN g |-> AluSlot(g[j], j = Len(g))]
  \o [k \in 1 .. LitSlots(g) |-> [is |-> "lit", group |-> id, pair |-> k - 1]]

(* How many groups and fetches come before line i. *)
SecBefore(items, i) == SumFunctionOnSet([j \in DOMAIN items |-> Len(items[j].body)], 1 .. i - 1)

BodySlots(items, i) ==
  FlattenSeq([k \in DOMAIN items[i].body |->
    IF IsAlu(items[i].inst) THEN GroupSlots(items[i].body[k], SecBefore(items, i) + k - 1)
    ELSE <<[is |-> "tex", inst |-> Opcode(items[i].body[k])], [is |-> "second"]>>])

(* Clauses behind the control instructions; fetches at even addresses.     *)
Placed(p) ==
  LET order == IF p.backward THEN Reverse([i \in DOMAIN p.items |-> i])
               ELSE [i \in DOMAIN p.items |-> i]
      place(m, i) ==
        LET pad  == IF p.items[i].inst = "TC" /\ (m.size + Len(m.slots)) % 2 = 1
                    THEN <<[is |-> "pad"]>> ELSE <<>>
        IN [m EXCEPT !.slots = @ \o pad \o BodySlots(p.items, i),
                     !.addr[i] = m.size + Len(m.slots \o pad)]
  IN FoldLeft(place, [size |-> Len(p.items), slots |-> <<>>, addr |-> [i \in DOMAIN p.items |-> 0]], order)

Assemble(p) ==
  LET placed == Placed(p)
      cf(i)  ==
        LET name  == p.items[i].inst
            count == IF IsAlu(name) THEN Len(BodySlots(p.items, i)) - 1 ELSE Len(p.items[i].body) - 1
        IN [is |-> "cf", addr |-> placed.addr[i], count |-> count,
            inst |-> IF IsAlu(name) THEN 16 * Opcode(name) + count \div 16 ELSE Opcode(name),
            end_of_program |-> IF IsAlu(name) THEN (count \div 8) % 2 = 1 ELSE i = Len(p.items)]
  IN [i \in DOMAIN p.items |-> cf(i)] \o placed.slots

-----------------------------------------------------------------------------
(* The decoder.  A slot that is not what it is taken for, or none at all,   *)
(* decodes as None here; the code prints whatever the bits say, or dies.    *)
Slot(a) == IF a + 1 \in DOMAIN buffer THEN buffer[a + 1] ELSE [is |-> "outside"]

DecodeCf(slot) ==
  IF slot.is # "cf" THEN None
  ELSE IF evg_inst_info_cf_short(slot.inst \div 16) # None
       THEN evg_inst_info_cf_short(slot.inst \div 16)
       ELSE evg_inst_info_cf_long(slot.inst)

(* The bit that ends the program exists in some formats only.               *)
(* Mutant: it is looked at in all of them.                                  *)
EndsAnyFormat(slot, info) == slot.end_of_program
EndsProgram(slot, info)   == info.table = "cf_long" /\ slot.end_of_program

DecodeAlu(slot) ==
  IF slot.is # "alu" THEN None
  ELSE IF evg_inst_info_alu_short(slot.inst \div 64) # None
       THEN evg_inst_info_alu_short(slot.inst \div 64)
       ELSE evg_inst_info_alu_long(slot.inst)

(* The sources that the format of an operation has, and the channels of     *)
(* those that are literals.  Mutant: the third is counted in all formats.   *)
Sources(slot) == IF DecodeAlu(slot).table = "alu_short" THEN 1 .. 3 ELSE 1 .. 2
LiteralsOfThree(slot) == {slot.lits[s] : s \in 1 .. 3} \ {-1}
LiteralsOf(slot)      == {slot.lits[s] : s \in Sources(slot)} \ {-1}

(* Slots of literals behind a group: two channels in each.                  *)
(* Mutant: rounded down.                                                    *)
LiteralCountDown(chans) == Max({0} \cup {(c + 1) \div 2 : c \in chans})
LiteralCount(chans)     == Max({0} \cup {(c + 2) \div 2 : c \in chans})

(* Units of the operations, in their order: the one of the channel, unless   *)
(* the operation can only go to the transcendental one, or the channel is   *)
(* taken.  Mutant: the flag of the instruction is not looked at.            *)
Trans == 4
UnitsByChannel(ops) ==
  LET unit[j \in DOMAIN ops] ==
        IF \E k \in 1 .. j - 1 : unit[k] = ops[j].chan THEN Trans ELSE ops[j].chan
  IN unit
Units(ops) ==
  LET unit[j \in DOMAIN ops] ==
        LET first == IF DecodeAlu(ops[j]).name \in TransOnly THEN Trans ELSE ops[j].chan
        IN IF \E k \in 1 .. j - 1 : unit[k] = first THEN Trans ELSE first
  IN unit

(* The operations from a on, up to the first that is the last of its group; *)
(* there are at most five.                                                 *)
GroupAt(a) ==
  LET ends == {n \in 1 .. 5 : /\ \A j \in 0 .. n - 1 : DecodeAlu(Slot(a + j)) # None
                              /\ Slot(a + n - 1).last}
  IN IF ends = {} THEN <<>> ELSE [j \in 1 .. Min(ends) |-> Slot(a + j - 1)]

Literal(at, literal_count, chan) ==
  IF chan = -1 THEN "no"
  ELSE IF chan \div 2 >= literal_count THEN "zero"
  ELSE LET slot == Slot(at + chan \div 2)
       IN IF slot.is = "lit" THEN <<slot.group, 2 * slot.pair + (chan % 2)>> ELSE "garbage"

-----------------------------------------------------------------------------
Init ==
  /\ program \in Programs /\ buffer = Assemble(program)
  /\ cf_buf = 0 /\ clause = NoClause
  /\ loop_idx = 0 /\ cf_inst_count = 0 /\ sec_inst_count = 0
  /\ listing = <<>> /\ stop = "running"

Fatal == stop' = "fatal" /\ UNCHANGED <<program, buffer, cf_buf, clause, loop_idx, cf_inst_count, sec_inst_count, listing>>

ClauseOf(info, slot) ==
  CASE info.table = "cf_short" -> [is |-> "alu", at |-> slot.addr, end |-> slot.addr + slot.count + 1]
    [] info.name = "TC"        -> [is |-> "tex", at |-> slot.addr, end |-> slot.addr + 2 * (slot.count + 1)]
    [] OTHER                   -> NoClause

(* A control instruction is decoded and printed.  The end of a loop is      *)
(* indented like its start.                                                *)
ControlInstruction ==
  /\ stop = "running" /\ clause = NoClause /\ cf_buf # Null
  /\ LET slot  == Slot(cf_buf)
         info  == DecodeCf(slot)
         depth == IF info.name \in DecLoop THEN loop_idx - 1 ELSE loop_idx
     IN IF info = None \/ depth < 0 THEN Fatal
        ELSE /\ cf_buf' = IF EndsProgram(slot, info) THEN Null ELSE cf_buf + 1
             /\ listing' = Append(listing, [is |-> info.name, n |-> cf_inst_count, depth |-> depth,
                                            what |-> <<>>])
             /\ cf_inst_count' = cf_inst_count + 1
             /\ clause' = ClauseOf(info, slot)
             /\ loop_idx' = IF info.name \in IncLoop THEN depth + 1 ELSE depth
             /\ UNCHANGED <<program, buffer, sec_inst_count, stop>>

(* The clause goes on behind the slots just decoded. *)
NextInClause(at) ==
  /\ clause' = IF at < clause.end THEN [clause EXCEPT !.at = at] ELSE NoClause
  /\ sec_inst_count' = sec_inst_count + 1
  /\ UNCHANGED <<program, buffer, cf_buf, loop_idx, cf_inst_count, stop>>

AluGroup ==
  /\ stop = "running" /\ clause.is = "alu"
  /\ LET ops   == GroupAt(clause.at)
         units == Units(ops)
         count == LiteralCount(UNION {LiteralsOf(op) : op \in ToSet(ops)})
         at    == clause.at + Len(ops)
         shown(j) == [name |-> DecodeAlu(ops[j]).name, unit |-> units[j],
                      literals |-> [s \in Sources(ops[j]) |-> Literal(at, count, ops[j].lits[s])]]
     IN IF ops = <<>> \/ ~IsInjective(units) THEN Fatal
        ELSE /\ listing' = Append(listing, [is |-> "group", n |-> sec_inst_count, depth |-> loop_idx,
                                            what |-> [j \in DOMAIN ops |-> shown(j)]])
             /\ NextInClause(at + count)

TexInstruction ==
  /\ stop = "running" /\ clause.is = "tex"
  /\ LET slot == Slot(clause.at)
         info == IF slot.is = "tex" THEN evg_inst_info_tex(slot.inst) ELSE None
     IN IF info = None THEN Fatal
        ELSE /\ listing' = Append(listing, [is |-> info.name, n |-> sec_inst_count, depth |-> loop_idx,
                                            what |-> <<>>])
             /\ NextInClause(clause.at + 2)

Done ==
  /\ stop = "running" /\ clause = NoClause /\ cf_buf = Null
  /\ stop' = "done"
  /\ UNCHANGED <<program, buffer, cf_buf, clause, loop_idx, cf_inst_count, sec_inst_count, listing>>

Stopped == stop # "running" /\ UNCHANGED vars

Next == ControlInstruction \/ AluGroup \/ TexInstruction \/ Done \/ Stopped
Spec == Init /\ [][Next]_vars

-----------------------------------------------------------------------------
(* What should be printed: the lines of the program as they were written,   *)
(* with the values their literals were given, indented by their loops.      *)
DepthOf(items, i) ==
  Cardinality({j \in 1 .. i - 1 : items[j].inst \in IncLoop})
  - Cardinality({j \in 1 .. i : items[j].inst \in DecLoop})

UnitOf(g, j) ==
  IF g[j].name \in TransOnly \/ \E k \in 1 .. j - 1 : g[k].chan = g[j].chan THEN Trans ELSE g[j].chan

GroupText(g, id) ==
  [j \in DOMAIN g |->
    [name |-> g[j].name, unit |-> UnitOf(g, j),
     literals |-> [s \in 1 .. (IF g[j].name = "MULADD" THEN 3 ELSE 2) |->
                    IF g[j].lits[s] = -1 THEN "no" ELSE <<id, g[j].lits[s]>>]]]

Text(items) ==
  FlattenSeq([i \in DOMAIN items |->
    <<[is |-> items[i].inst, n |-> i - 1, depth |-> DepthOf(items, i), what |-> <<>>]>>
    \o [k \in DOMAIN items[i].body |->
         LET id == SecBefore(items, i) + k - 1
         IN IF IsAlu(items[i].inst)
            THEN [is |-> "group", n |-> id, depth |-> DepthOf(items, i),
                  what |-> GroupText(items[i].body[k], id)]
            ELSE [is |-> items[i].body[k], n |-> id, depth |-> DepthOf(items, i), what |-> <<>>]]])

(* Assembled and disassembled, a program is what it was: no literal is      *)
(* taken for an instruction or the other way round, no count for the end of *)
(* the program, and every line has its number, indentation and units.       *)
ListingRight ==
  stop # "fatal" /\ (stop = "done" => listing = Text(program.items))
=============================================================================
