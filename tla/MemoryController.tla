--------------------------- MODULE MemoryController ---------------------------
(***************************************************************************)
(* Moving the video memory in the card's address space while displays show  *)
(* pictures out of it: radeon_gpu_mc_setup() and radeon_gpu_reset() of      *)
(* haiku/user/radeon_hd/gpu.cpp and evergreen_mc_program() of               *)
(* drm/evergreen.c.  Everything that reads the memory is halted, the        *)
(* controller is given time to become idle, its ranges are written, and     *)
(* the displays are resumed as they were.                                   *)
(*                                                                         *)
(* A procedure is the sequence of its register accesses, one per step.      *)
(* While the update lock of a CRTC is set, a write to its control register  *)
(* waits for the unlock.  Evergreen cards have the registers of their CRTCs *)
(* at addresses of their own: a write to those of earlier cards meets       *)
(* nothing there.                                                          *)
(***************************************************************************)
EXTENDS Integers, Sequences, SequencesExt

CONSTANTS
  EvergreenCrtcs   (* CRTCs of an Evergreen card, 6; earlier ones have 2     *)

ASSUME CrtcAssumption == EvergreenCrtcs \in Nat /\ EvergreenCrtcs >= 2

VARIABLES
  mcCard,    (* the chip and the driver that looks after it                  *)
  reg,       (* what the card's registers hold                               *)
  waiting,   (* CRTC -> control written under the lock, or -1                *)
  before,    (* gpu_state: the registers as they were when halted            *)
  idle,      (* has the controller been seen idle, or been waited for?       *)
  mcTodo,    (* accesses of the procedure under way                          *)
  initial    (* ghost: the registers before the procedure                    *)

memoryVars == <<mcCard, reg, waiting, before, idle, mcTodo, initial>>

McCards ==
  [chip : {"r600", "r700", "evergreen"}, driver : {"accelerant"}]
    \cup {[chip |-> "evergreen", driver |-> "drm"]}

(* Registers are <<name, number>>; the ones of a CRTC belong to a family.   *)
Family(c)       == IF c.chip = "evergreen" THEN "evergreen" ELSE "avivo"
CrtcsOf(c)      == IF c.chip = "evergreen" THEN 0 .. EvergreenCrtcs - 1 ELSE 0 .. 1
Control(n)      == <<Family(mcCard), n>>
VgaControl(n)   == <<"vga", n>>
Render          == <<"render", 0>>
Hdp             == <<"hdp", 0>>          (* 1: the host reaches memory through VGA *)
Location        == <<"location", 0>>     (* where the video memory is: 0, then 1  *)
Surface(n)      == <<"surface", n>>      (* where CRTC n looks for its picture    *)

Registers(c) == ({Family(c), "vga", "surface", "lock"} \X CrtcsOf(c))
                  \cup ({"render", "hdp", "location", "cp", "engine reset", "cp reset"} \X {0})

(* What the driver writes to: the accelerant uses the earlier cards' CRTC   *)
(* and surface registers on every chip.                                    *)
Knows   == IF mcCard.driver = "drm" THEN [n \in 1 .. EvergreenCrtcs |-> n - 1] ELSE <<0, 1>>
Writes  == IF mcCard.driver = "drm" THEN "evergreen" ELSE "avivo"
Reaches == Writes = Family(mcCard)

W(r, v) == [op |-> "write", reg |-> r, value |-> v]
Back(r) == [op |-> "restore", reg |-> r]
Save    == [op |-> "save"]
Wait    == [op |-> "wait"]

Each(F(_)) == [k \in 1 .. Len(Knows) |-> F(Knows[k])]

CrtcReg(n)   == <<Writes, n>>
LockReg(n)   == <<IF Reaches THEN "lock" ELSE "no lock", n>>
SurfReg(n)   == <<IF Reaches THEN "surface" ELSE "no surface", n>>
Lock(n)      == W(LockReg(n), 1)
Unlock(n)    == W(LockReg(n), 0)
StopCrtc(n)  == W(CrtcReg(n), 0)
StartCrtc(n) == Back(CrtcReg(n))
VgaOff(n)    == W(VgaControl(n), 0)
VgaBack(n)   == Back(VgaControl(n))
Show(n)      == W(SurfReg(n), 1)

(* Mutant: the control registers are written and not unlocked again.       *)
HaltLocked ==
  <<Save, W(Render, 0)>> \o Each(Lock) \o Each(StopCrtc) \o Each(VgaOff)

Halt ==
  <<Save, W(Render, 0)>> \o Each(Lock) \o Each(StopCrtc) \o Each(Unlock) \o Each(VgaOff)

(* Mutant: the CRTCs are started and stay locked.                          *)
ResumeLocked ==
  Each(Show) \o <<Back(Hdp)>> \o Each(VgaBack) \o Each(Lock) \o Each(StartCrtc) \o <<Back(Render)>>

Resume ==
  Each(Show) \o <<Back(Hdp)>> \o Each(VgaBack)
    \o Each(Lock) \o Each(StartCrtc) \o Each(Unlock) \o <<Back(Render)>>

(* The apertures and the location; r600 leaves the host its access.        *)
Program ==
  Halt \o <<Wait>> \o (IF mcCard.chip = "r600" THEN <<>> ELSE <<W(Hdp, 0)>>)
    \o <<W(Location, 1), Wait>> \o Resume \o <<W(Render, 0)>>

Pulse(engine) == <<W(<<engine, 0>>, 1), W(<<engine, 0>>, 0)>>

(* The command processor is halted for good.  Before Evergreen the engines  *)
(* are reset only if one is busy, the command processor always.            *)
Reset(busy) ==
  Halt \o <<Wait, W(<<"cp", 0>>, 0)>>
    \o (IF mcCard.chip = "evergreen" \/ busy THEN Pulse("engine reset") ELSE <<>>)
    \o (IF mcCard.chip = "evergreen" THEN <<>> ELSE Pulse("cp reset"))
    \o Resume

-----------------------------------------------------------------------------
(* The firmware has set up any of the displays, through VGA or not.        *)
MemoryInit ==
  /\ mcCard \in McCards
  /\ reg \in {r \in [Registers(mcCard) -> {0, 1}] :
                /\ \A n \in CrtcsOf(mcCard) : r[<<"surface", n>>] = 0 /\ r[<<"lock", n>>] = 0
                /\ r[Location] = 0 /\ r[<<"cp", 0>>] = 1
                /\ r[<<"engine reset", 0>>] = 0 /\ r[<<"cp reset", 0>>] = 0}
  /\ waiting = [n \in CrtcsOf(mcCard) |-> -1]
  /\ before = reg /\ idle = FALSE /\ mcTodo = <<>> /\ initial = reg

Begin(procedure) ==
  /\ mcTodo = <<>>
  /\ mcTodo' = procedure /\ initial' = reg
  /\ UNCHANGED <<mcCard, reg, waiting, before, idle>>

(* Each start of a driver sets the controller up.  A reset is refused, and   *)
(* touches nothing, while the card has nothing to do.                      *)
MoveMemory  == Begin(Program)
ResetEngine ==
  /\ mcCard.driver = "accelerant"
  /\ \E busy \in BOOLEAN : Begin(Reset(busy))

(* What a write does: nothing where there is no register; a control waits   *)
(* behind the lock; the unlock lets it through.                            *)
Written(r, v) ==
  IF r \notin DOMAIN reg THEN UNCHANGED <<reg, waiting>>
  ELSE IF r[1] = Family(mcCard) /\ reg[<<"lock", r[2]>>] = 1
    THEN waiting' = [waiting EXCEPT ![r[2]] = v] /\ UNCHANGED reg
  ELSE IF r[1] = "lock" /\ v = 0 /\ waiting[r[2]] # -1
    THEN /\ reg' = [reg EXCEPT ![r] = 0, ![Control(r[2])] = waiting[r[2]]]
         /\ waiting' = [waiting EXCEPT ![r[2]] = -1]
  ELSE reg' = [reg EXCEPT ![r] = v] /\ UNCHANGED waiting

NextAccess == Head(mcTodo)

WriteReg ==
  /\ mcTodo # <<>> /\ NextAccess.op = "write"
  /\ Written(NextAccess.reg, NextAccess.value)
  /\ UNCHANGED <<before, idle>>

RestoreReg ==
  /\ mcTodo # <<>> /\ NextAccess.op = "restore"
  /\ IF NextAccess.reg \in DOMAIN reg THEN Written(NextAccess.reg, before[NextAccess.reg])
     ELSE UNCHANGED <<reg, waiting>>
  /\ UNCHANGED <<before, idle>>

Backup ==
  /\ mcTodo # <<>> /\ NextAccess.op = "save"
  /\ before' = reg /\ idle' = FALSE
  /\ UNCHANGED <<reg, waiting>>

(* A thousand looks at the status.  The controller may become idle or not;  *)
(* the code reports the latter and goes on.                                *)
IdleWait ==
  /\ mcTodo # <<>> /\ NextAccess.op = "wait"
  /\ idle' = TRUE
  /\ UNCHANGED <<reg, waiting, before>>

Access == /\ WriteReg \/ RestoreReg \/ Backup \/ IdleWait
          /\ mcTodo' = Tail(mcTodo) /\ UNCHANGED <<mcCard, initial>>

MemoryNext == MoveMemory \/ ResetEngine \/ Access

MemorySpec == MemoryInit /\ [][MemoryNext]_memoryVars

-----------------------------------------------------------------------------
Shows(n) == reg[Control(n)] = 1

(* The memory moves only when nobody reads it: no CRTC scans out (on the    *)
(* cards whose registers the driver writes), neither does VGA, and the      *)
(* controller has been waited for; from r700 on the host is locked out too. *)
QuietStep ==
  reg'[Location] # reg[Location] =>
    /\ idle /\ reg[Render] = 0
    /\ Reaches => \A n \in CrtcsOf(mcCard) : ~Shows(n) /\ reg[VgaControl(n)] = 0
    /\ mcCard.chip # "r600" => reg[Hdp] = 0

QuietMove == [][QuietStep]_memoryVars

(* "halt all memory controller actions" (gpu.cpp:238) on every card: when   *)
(* the memory is about to move, no CRTC scans it out.                       *)
HaltedWhileMoved ==
  mcTodo # <<>> /\ Head(mcTodo) = W(Location, 1) => \A n \in CrtcsOf(mcCard) : ~Shows(n)

(* Between two procedures the displays are as they were: control, VGA and   *)
(* host access have come back, no register is locked or waits for an        *)
(* unlock, no engine is held in reset, and what the driver can reach looks  *)
(* for its picture where the memory is.                                    *)
Restored ==
  mcTodo = <<>> =>
    /\ \A n \in CrtcsOf(mcCard) :
         /\ reg[Control(n)] = initial[Control(n)] /\ reg[VgaControl(n)] = initial[VgaControl(n)]
         /\ reg[<<"lock", n>>] = 0 /\ waiting[n] = -1
         /\ Reaches => (reg[Location] = 1 => reg[Surface(n)] = 1)
    /\ reg[Hdp] = initial[Hdp]
    /\ reg[<<"engine reset", 0>>] = 0 /\ reg[<<"cp reset", 0>>] = 0

MemoryTypeOK ==
  /\ mcCard \in McCards /\ reg \in [Registers(mcCard) -> {0, 1}]
  /\ waiting \in [CrtcsOf(mcCard) -> {-1, 0, 1}] /\ idle \in BOOLEAN

McInv == MemoryTypeOK /\ Restored
=============================================================================
