---------------------------- MODULE CommandStream ----------------------------
(***************************************************************************)
(* How gpu/main.c draws a rectangle: gpu_draw() fills buffers and writes a  *)
(* command stream with the functions of gpu/evergreen_accel.c, and the      *)
(* command processor of the card executes it once it is submitted.          *)
(*                                                                         *)
(* A function of the code is the sequence of what it does, and gpu_draw()   *)
(* is taken one element at a time.  The lengths of batches and of packets   *)
(* are those written in the code; values are left out but for addresses,    *)
(* sizes and counts.                                                       *)
(***************************************************************************)
EXTENDS Shader

CONSTANTS
  None,
  DstSize      (* bytes of the picture drawn into                           *)

Buffers == {"shader", "dst", "cbuf", "vbo"}
VRAM == "VRAM"
GTT  == "GTT"

VARIABLES
  todo,        (* what gpu_draw() has still to do                           *)
  bo,          (* buffer objects: [refs, mapped, written]                   *)
  accounted,   (* what the space checks were told of them                   *)
  section,     (* the batch: [size, put, open]                              *)
  want,        (* dwords the packet under way still needs                   *)
  cs,          (* the packets, with the relocations behind them             *)
  cp,          (* those the command processor has not executed              *)
  regs,        (* registers it has set, as [bo, value]                      *)
  stale,       (* blocks of buffers of which a cache may hold old contents  *)
  unflushed    (* what was drawn is still in the colour cache               *)

dvars == <<todo, bo, accounted, section, want, cs, cp, regs, stale, unflushed>>

-----------------------------------------------------------------------------
(* Elements of a function. *)
Begin(n)            == <<[op |-> "begin", n |-> n]>>
EndBatch            == <<[op |-> "end"]>>
Pack3(pkt, n, arg)  == <<[op |-> "packet", pkt |-> pkt, n |-> n, arg |-> arg]>>
E(n)                == <<[op |-> "dwords", n |-> n]>>
Reloc(b, rd, wd)    == <<[op |-> "reloc", bo |-> b, rd |-> rd, wd |-> wd]>>
Cpu(op, b)          == <<[op |-> op, bo |-> b]>>
Account(op, b, rd, wd) == <<[op |-> op, bo |-> b, rd |-> rd, wd |-> wd]>>

(* Registers are written in a row by a packet with their offset in front.   *)
PACK0(reg, n)       == Pack3(reg, n + 1, 0) \o E(1)
PACK0Of(reg, n, v)  == Pack3(reg, n + 1, v) \o E(1)
EREG(reg)           == PACK0(reg, 1) \o E(1)
Batch(n, body)      == Begin(n) \o body \o EndBatch
Address(reg, addr)  == Pack3(reg, 2, addr) \o E(2)

Repeat(n, body) == [i \in 1 .. n * Len(body) |-> body[((i - 1) % Len(body)) + 1]]
EREGs(n)        == Repeat(n, EREG("plain"))

-----------------------------------------------------------------------------
(* evergreen_accel.c. *)
evergreen_start_3d == Batch(3, Pack3("CONTEXT_CONTROL", 2, 0) \o E(1) \o E(1))

evergreen_sq_setup ==
  Batch(16, EREG("plain") \o PACK0("plain", 4) \o E(4) \o PACK0("plain", 5) \o E(5))

(* Every scissor and clip rectangle is a pair of registers. *)
SetRectangle == Batch(4, PACK0("plain", 2) \o E(2))

evergreen_fs_setup(b, domain) ==
  Batch(3 + 2, Address("PGM_START_FS", 0) \o Reloc(b, domain, None))
  \o Batch(3, EREG("plain"))

DbAddress(reg, b) == Batch(3 + 2, Address(reg, 0) \o Reloc(b, VRAM, None))

SqState ==
  Batch(27, EREGs(3) \o PACK0("plain", 6) \o E(6) \o PACK0("plain", 4) \o E(4) \o PACK0("plain", 2) \o E(2))

DbState ==
  Batch(49, EREGs(1) \o PACK0("plain", 2) \o E(2) \o PACK0("plain", 5) \o E(5)
            \o PACK0("plain", 2) \o E(2) \o EREGs(3) \o PACK0("plain", 5) \o E(5) \o EREGs(5))

ClState ==
  Batch(57, PACK0("plain", 2) \o E(2) \o PACK0("plain", 16) \o E(16) \o PACK0("plain", 8) \o E(8)
            \o PACK0("plain", 6) \o E(6) \o EREGs(1) \o PACK0("plain", 2) \o E(2)
            \o PACK0("plain", 8) \o E(8))

VgtState ==
  Batch(46, PACK0("plain", 4) \o E(4) \o PACK0("plain", 2) \o E(2) \o PACK0("plain", 2) \o E(2)
            \o PACK0("plain", 17) \o E(17) \o EREGs(3) \o PACK0("plain", 2) \o E(2))

evergreen_set_default_state(b) ==
  evergreen_start_3d \o evergreen_sq_setup \o SqState
  \o DbAddress("Z_INFO", b) \o DbAddress("STENCIL_INFO", b) \o DbAddress("HTILE_DATA_BASE", b)
  \o DbState \o Repeat(4, SetRectangle) \o Repeat(16, SetRectangle) \o ClState
  \o evergreen_fs_setup(b, VRAM) \o VgtState

(* Mutant: the last block is left out when it is not full. *)
CoherSizeDown(size) == size \div 256
CoherSize(size)     == (size + 255) \div 256

evergreen_cp_set_surface_sync(type, size, addr, b, rd, wd) ==
  Batch(5 + 2, Pack3("SURFACE_SYNC", 4, [type |-> type, size |-> CoherSize(size), addr |-> addr \div 256])
               \o E(1) \o E(1) \o E(1) \o E(1) \o Reloc(b, rd, wd))

evergreen_vs_setup(conf, domain) ==
  evergreen_cp_set_surface_sync("SH", conf.size, conf.addr, conf.bo, domain, None)
  \o Batch(3 + 2, Address("PGM_START_VS", conf.addr \div 256) \o Reloc(conf.bo, domain, None))
  \o Batch(4, PACK0Of("PGM_RESOURCES_VS", 2, conf.num_gprs) \o E(2))

evergreen_ps_setup(conf, domain) ==
  evergreen_cp_set_surface_sync("SH", conf.size, conf.addr, conf.bo, domain, None)
  \o Batch(3 + 2, Address("PGM_START_PS", conf.addr \div 256) \o Reloc(conf.bo, domain, None))
  \o Batch(5, PACK0Of("PGM_RESOURCES_PS", 3, conf.num_gprs) \o E(3))

(* Mutant: room for the relocation is forgotten. *)
ColorAddressShort(reg, b, domain) == Batch(3, Address(reg, 0) \o Reloc(b, None, domain))
ColorAddress(reg, b, domain)      == Batch(3 + 2, Address(reg, 0) \o Reloc(b, None, domain))

evergreen_set_render_target(b, domain) ==
  ColorAddress("COLOR0_BASE", b, domain) \o ColorAddress("COLOR0_CMASK", b, domain)
  \o ColorAddress("COLOR0_FMASK", b, domain) \o ColorAddress("COLOR0_ATTRIB", b, domain)
  \o ColorAddress("COLOR0_INFO", b, domain)
  \o Batch(33, EREGs(6) \o PACK0("plain", 4) \o E(4) \o EREGs(3))

evergreen_set_spi == Batch(8, EREGs(1) \o PACK0("plain", 3) \o E(3))

(* Mutant: the cache is not told that the constants changed. *)
AluConstsCached(conf, domain) ==
  Batch(3, EREG("plain"))
  \o Batch(3 + 2, Address("ALU_CONST_CACHE_PS", conf.addr \div 256) \o Reloc(conf.bo, domain, None))

evergreen_set_alu_consts(conf, domain) ==
  evergreen_cp_set_surface_sync("SH", conf.size, conf.addr, conf.bo, domain, None)
  \o Batch(3, EREG("plain"))
  \o Batch(3 + 2, Address("ALU_CONST_CACHE_PS", conf.addr \div 256) \o Reloc(conf.bo, domain, None))

evergreen_set_vtx_resource(b, domain, offset) ==
  evergreen_cp_set_surface_sync("VC", offset, 0, b, domain, None)
  \o Batch(10 + 2, Pack3("FETCH_RESOURCE", 8 + 1, 0) \o E(1) \o E(8) \o Reloc(b, domain, None))

evergreen_draw_auto(count) ==
  Batch(10, EREG("plain") \o Pack3("INDEX_TYPE", 1, 0) \o E(1) \o Pack3("NUM_INSTANCES", 1, 0) \o E(1)
            \o Pack3("DRAW", 2, count) \o E(1) \o E(1))

(* Every vertex is vtx_size bytes of the offset bytes that were filled. *)
evergreen_finish_op(dst, size, vbo, offset, vtx_size) ==
  evergreen_set_vtx_resource(vbo, GTT, offset)
  \o evergreen_draw_auto([vertices |-> (offset \div 4) \div (vtx_size \div 4), size |-> vtx_size])
  \o evergreen_cp_set_surface_sync("CB", size, 0, dst, None, VRAM)

-----------------------------------------------------------------------------
(* main.c. *)
Fill(b, bytes) == <<[op |-> "write", bo |-> b, n |-> bytes]>>

ShaderSize == 512
VsConf     == [addr |-> 0, size |-> ShaderSize, num_gprs |-> 2, bo |-> "shader"]
PsConf     == [addr |-> 512, size |-> ShaderSize, num_gprs |-> 1, bo |-> "shader"]
ConstConf  == [addr |-> 0, size |-> 256, bo |-> "cbuf"]

(* The picture is cleared and its first rows are drawn by the CPU; it stays *)
(* mapped.                                                                 *)
create_buffer ==
  Cpu("open", "dst") \o Cpu("map", "dst") \o Fill("dst", DstSize) \o Fill("dst", DstSize)

(* The picture and the shaders; the constants; the vertices. *)
DrawShaders ==
  Cpu("open", "shader") \o Cpu("map", "shader") \o Fill("shader", 512 * 9) \o Cpu("unmap", "shader")
  \o Account("account", "shader", VRAM, None) \o Account("account", "dst", None, VRAM)

TempBuffer(b) ==
  Cpu("open", b) \o Cpu("ref", b) \o Cpu("map", b) \o Account("account", b, GTT, None)

(* Mutant: the buffer is given up before the vertices are in it. *)
FinishEarly ==
  Cpu("unmap", "vbo") \o Fill("vbo", 3 * 8)
  \o evergreen_finish_op("dst", DstSize, "vbo", 3 * 8, 8)
  \o Cpu("unref", "vbo") \o Cpu("unmap", "cbuf") \o Cpu("unref", "cbuf")
  \o <<[op |-> "emit"]>>

Finish ==
  Fill("vbo", 3 * 8)
  \o evergreen_finish_op("dst", DstSize, "vbo", 3 * 8, 8)
  \o Cpu("unmap", "vbo") \o Cpu("unref", "vbo") \o Cpu("unmap", "cbuf") \o Cpu("unref", "cbuf")
  \o <<[op |-> "emit"]>>

gpu_draw ==
  DrawShaders
  \o evergreen_set_default_state("shader")
  \o SetRectangle \o SetRectangle \o SetRectangle
  \o evergreen_vs_setup(VsConf, VRAM) \o evergreen_ps_setup(PsConf, VRAM)
  \o evergreen_set_render_target("dst", VRAM) \o evergreen_set_spi
  \o TempBuffer("cbuf") \o Fill("cbuf", 16) \o evergreen_set_alu_consts(ConstConf, GTT)
  \o TempBuffer("vbo") \o Finish

-----------------------------------------------------------------------------
(* libdrm.  Every call of it is asserted, so that the program ends where    *)
(* one fails.                                                              *)
Blocks(b) == IF b = "shader" THEN 0 .. 17 ELSE 0 .. CoherSize(DstSize) - 1

(* Nobody knows what a cache holds of a buffer that is new.  The vertex     *)
(* cache reads vertices, the sequencer's shaders and constants.            *)
Reads == [SH |-> {"shader", "cbuf"}, VC |-> {"vbo"}]

DrawInit ==
  /\ todo = create_buffer \o gpu_draw
  /\ bo = [b \in Buffers |-> [refs |-> 0, mapped |-> FALSE, written |-> 0]]
  /\ accounted = [b \in Buffers |-> None]
  /\ section = [size |-> 0, put |-> 0, open |-> FALSE] /\ want = 0
  /\ cs = <<>> /\ cp = <<>>
  /\ regs = <<>>
  /\ stale = {<<c, b, n>> \in {"SH", "VC"} \X Buffers \X (0 .. 17) : b \in Reads[c] /\ n \in Blocks(b)}
  /\ unflushed = FALSE
  /\ pair = "solid" /\ bool \in BOOLEAN /\ stage = "idle" /\ Fresh

Does(op) == todo # <<>> /\ Head(todo).op = op

Rest == todo' = Tail(todo)

Memory ==
  /\ \E op \in {"open", "ref", "unref", "map", "unmap", "write"} : Does(op)
  /\ Rest
  /\ LET t == Head(todo) IN
     bo' = [bo EXCEPT ![t.bo] =
       CASE t.op = "open"  -> [@ EXCEPT !.refs = 1]
         [] t.op = "ref"   -> [@ EXCEPT !.refs = @ + 1]
         [] t.op = "unref" -> [@ EXCEPT !.refs = @ - 1]
         [] t.op = "map"   -> [@ EXCEPT !.mapped = TRUE]
         [] t.op = "unmap" -> [@ EXCEPT !.mapped = FALSE]
         [] t.op = "write" -> [@ EXCEPT !.written = t.n]]
  /\ UNCHANGED <<accounted, section, want, cs, cp, regs, stale, unflushed>>

SpaceCheck ==
  /\ Does("account") /\ Rest
  /\ accounted' = [accounted EXCEPT ![Head(todo).bo] = <<Head(todo).rd, Head(todo).wd>>]
  /\ UNCHANGED <<bo, section, want, cs, cp, regs, stale, unflushed>>

Fails ==
  /\ \E op \in {"open", "map", "account"} : Does(op)
  /\ todo' = <<>> /\ cs' = <<>>
  /\ UNCHANGED <<bo, accounted, section, want, cp, regs, stale, unflushed>>

radeon_cs_begin ==
  /\ Does("begin") /\ Rest
  /\ section' = [size |-> Head(todo).n, put |-> 0, open |-> TRUE]
  /\ UNCHANGED <<bo, accounted, want, cs, cp, regs, stale, unflushed>>

radeon_cs_end ==
  /\ Does("end") /\ Rest
  /\ section' = [section EXCEPT !.open = FALSE]
  /\ UNCHANGED <<bo, accounted, want, cs, cp, regs, stale, unflushed>>

WritePacket ==
  /\ Does("packet") /\ Rest
  /\ want' = Head(todo).n
  /\ section' = [section EXCEPT !.put = @ + 1]
  /\ cs' = Append(cs, [pkt |-> Head(todo).pkt, arg |-> Head(todo).arg, bo |-> None, domains |-> None])
  /\ UNCHANGED <<bo, accounted, cp, regs, stale, unflushed>>

WriteDwords ==
  /\ Does("dwords") /\ Rest
  /\ want' = want - Head(todo).n
  /\ section' = [section EXCEPT !.put = @ + Head(todo).n]
  /\ UNCHANGED <<bo, accounted, cs, cp, regs, stale, unflushed>>

(* A relocation is a packet of two dwords that says to which buffer the     *)
(* address in the packet before belongs.  The stream holds the buffer.      *)
radeon_cs_write_reloc ==
  /\ Does("reloc") /\ Rest
  /\ section' = [section EXCEPT !.put = @ + 2]
  /\ cs' = [cs EXCEPT ![Len(cs)] = [@ EXCEPT !.bo = Head(todo).bo, !.domains = <<Head(todo).rd, Head(todo).wd>>]]
  /\ UNCHANGED <<bo, accounted, want, cp, regs, stale, unflushed>>

radeon_cs_emit ==
  /\ Does("emit") /\ Rest
  /\ cp' = cs
  /\ UNCHANGED <<bo, accounted, section, want, cs, regs, stale, unflushed>>

Program == Memory \/ SpaceCheck \/ Fails \/ radeon_cs_begin \/ radeon_cs_end \/ WritePacket
           \/ WriteDwords \/ radeon_cs_write_reloc \/ radeon_cs_emit

-----------------------------------------------------------------------------
(* The command processor.  A draw starts the shaders, and what follows it   *)
(* waits for them.                                                         *)
NeedsBuffer(pkt) ==
  pkt \in {"PGM_START_FS", "Z_INFO", "STENCIL_INFO", "HTILE_DATA_BASE", "SURFACE_SYNC", "PGM_START_VS",
           "PGM_START_PS", "COLOR0_BASE", "COLOR0_CMASK", "COLOR0_FMASK", "COLOR0_ATTRIB", "COLOR0_INFO",
           "ALU_CONST_CACHE_PS", "FETCH_RESOURCE"}

Executes ==
  /\ cp # <<>> /\ cp' = Tail(cp)
  /\ stage \in {"idle", "done"}
  /\ LET p == Head(cp) IN
     /\ regs' = IF p.pkt \in {"plain", "SURFACE_SYNC", "DRAW"} THEN regs
                ELSE [r \in DOMAIN regs \cup {p.pkt} |->
                        IF r = p.pkt THEN [bo |-> p.bo, value |-> p.arg] ELSE regs[r]]
     /\ stale' = IF p.pkt # "SURFACE_SYNC" THEN stale
                 ELSE {s \in stale : ~(s[1] = p.arg.type /\ s[2] = p.bo
                                       /\ s[3] \in p.arg.addr .. p.arg.addr + p.arg.size - 1)}
     /\ stage' = IF p.pkt = "DRAW" THEN "vs" ELSE stage
     /\ unflushed' = CASE p.pkt = "DRAW" -> TRUE
                       [] p.pkt = "SURFACE_SYNC" /\ p.arg.type = "CB" ->
                            unflushed /\ ~(p.bo = regs["COLOR0_BASE"].bo /\ p.arg.size >= CoherSize(DstSize))
                       [] OTHER -> unflushed
  /\ UNCHANGED <<todo, bo, accounted, section, want, cs, pair, bool, pc, ret, clauses, gpr, out, over>>

DrawNext ==
  \/ Program /\ UNCHANGED svars
  \/ Executes
  \/ ShaderNext /\ UNCHANGED dvars

DrawSpec == DrawInit /\ [][DrawNext]_<<dvars, svars>>

-----------------------------------------------------------------------------
(* A batch is filled exactly: one dword more overruns the space that was    *)
(* reserved, one less makes libdrm refuse the stream.  Packets are whole,   *)
(* and no batch ends inside of one.                                        *)
Filled ==
  /\ want >= 0 /\ section.put <= section.size
  /\ ~section.open => section.put = section.size /\ want = 0
  /\ Does("begin") => ~section.open
  /\ (Does("packet") \/ Does("reloc")) => section.open /\ want = 0

(* Every address is followed by the buffer it is in, no other packet is,    *)
(* and a buffer is used as the space check was told it would be.            *)
Relocated ==
  \A i \in DOMAIN cs :
    /\ cs[i].bo # None => NeedsBuffer(cs[i].pkt) /\ cs[i].domains = accounted[cs[i].bo]
    /\ NeedsBuffer(cs[i].pkt) /\ cs[i].bo = None => i = Len(cs) /\ section.open

(* The program writes only to buffers it has and has mapped, and holds them *)
(* until the stream is on its way.                                         *)
Held ==
  /\ Does("write") => bo[Head(todo).bo].refs > 0 /\ bo[Head(todo).bo].mapped
  /\ Does("emit") => \A i \in DOMAIN cs : cs[i].bo # None => bo[cs[i].bo].refs > 0

(* When the card draws, it reads shaders, constants and vertices where they *)
(* were written, and not what its caches held of another buffer; and it     *)
(* reads no more vertices than were written.                               *)
DrawsWhatWasWritten ==
  cp # <<>> /\ Head(cp).pkt = "DRAW" =>
    /\ {"PGM_START_VS", "PGM_START_PS", "ALU_CONST_CACHE_PS", "FETCH_RESOURCE", "COLOR0_BASE", "COLOR0_INFO"}
         \subseteq DOMAIN regs
    /\ \A r \in {"PGM_START_VS", "PGM_START_PS", "ALU_CONST_CACHE_PS"} :
         /\ bo[regs[r].bo].written > 0
         /\ <<"SH", regs[r].bo, regs[r].value>> \notin stale
    /\ regs["PGM_START_VS"].value # regs["PGM_START_PS"].value
    /\ regs["FETCH_RESOURCE"].bo = "vbo" /\ <<"VC", "vbo", 0>> \notin stale
    /\ Head(cp).arg.vertices * Head(cp).arg.size <= bo["vbo"].written
    /\ Head(cp).arg.vertices = 3

(* The shaders are as short and need as few registers as gpu_draw() says.   *)
ShadersFit ==
  stage \in {"vs", "ps"} /\ "PGM_RESOURCES_PS" \in DOMAIN regs =>
    /\ 8 * Len(program) <= ShaderSize
    /\ Uses(program) \subseteq
         0 .. regs[IF stage = "vs" THEN "PGM_RESOURCES_VS" ELSE "PGM_RESOURCES_PS"].value - 1

(* The picture is in memory when the stream is done. *)
Flushed ==
  todo = <<>> /\ cp = <<>> /\ "COLOR0_BASE" \in DOMAIN regs => ~unflushed /\ stage = "done"

DrawInv == Filled /\ Relocated /\ Held /\ DrawsWhatWasWritten /\ ShadersFit /\ Flushed
=============================================================================
