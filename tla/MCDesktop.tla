------------------------------ MODULE MCDesktop ------------------------------
(***************************************************************************)
(* The programs that put pictures together, on small instances: the display *)
(* server interrupted by SIGINT, the window manager, the program that draws *)
(* with the 3D engine, and every pair of shaders on its own.  They share no *)
(* variable: each behaviour runs one of them, chosen at the beginning, and  *)
(* leaves the others at a first state.                                     *)
(***************************************************************************)
EXTENDS FbAbort, WindowManager

CONSTANTS DstSize, Pairs, Nothing                        (* of CommandStream *)

VARIABLES
  part,                                                  (* which one runs   *)
  todo, bo, accounted, section, want, cs, cp, regs, stale, unflushed,
  pair, bool, stage, pc, ret, clauses, gpr, out, over

Gpu == INSTANCE CommandStream WITH None <- Nothing

streamVars == <<todo, bo, accounted, section, want, cs, cp, regs, stale, unflushed>>
shaderVars == <<pair, bool, stage, pc, ret, clauses, gpr, out, over>>
gpuVars    == <<streamVars, shaderVars>>

WmIdle == WmInit /\ parent = [w \in Windows |-> NoWindow]

StreamIdle ==
  /\ todo = <<>> /\ bo = <<>> /\ accounted = <<>> /\ section = <<>> /\ want = 0
  /\ cs = <<>> /\ cp = <<>> /\ regs = <<>> /\ stale = {} /\ unflushed = FALSE

ShaderIdle == pair = "solid" /\ bool = FALSE /\ stage = "idle" /\ Gpu!Fresh

MCInit ==
  /\ AInit
  /\ \/ part = "server"  /\ WmIdle  /\ StreamIdle /\ ShaderIdle
     \/ part = "manager" /\ WmInit /\ StreamIdle /\ ShaderIdle
     \/ part = "draw"    /\ WmIdle  /\ Gpu!DrawInit
     \/ part = "shaders" /\ WmIdle  /\ StreamIdle /\ Gpu!ShaderInit

MCNext ==
  /\ UNCHANGED part
  /\ \/ part = "server"  /\ ANext          /\ UNCHANGED <<wmVars, gpuVars>>
     \/ part = "manager" /\ WmNext         /\ UNCHANGED <<avars, gpuVars>>
     \/ part = "draw"    /\ Gpu!DrawNext   /\ UNCHANGED <<avars, wmVars>>
     \/ part = "shaders" /\ Gpu!ShaderNext /\ UNCHANGED <<avars, wmVars, streamVars>>

MCSpec ==
  /\ MCInit /\ [][MCNext]_<<part, avars, wmVars, gpuVars>>
  /\ WF_avars(part = "server" /\ UserAbort)
  /\ WF_wmVars(part = "manager" /\ Manager)

-----------------------------------------------------------------------------
(* The stream is whole and names its buffers, the card draws what was       *)
(* written, and the shaders compute the colour of every pixel from what     *)
(* they should, in whatever order their clauses go on.                     *)
GpuInv ==
  /\ part = "draw" => Gpu!DrawInv
  /\ part \in {"draw", "shaders"} => Gpu!ShaderInv

(* The interrupted server ends; a window that stays mapped comes into a     *)
(* frame.                                                                  *)
ProgramsGoOn == InterruptEnds /\ MappedIsFramed
=============================================================================
