------------------------------ MODULE AtomExec -------------------------------
(***************************************************************************)
(* The control of the AtomBIOS interpreter, haiku/user/radeon_hd/atombios/ *)
(* atom.cpp: command tables calling command tables, jumps with the time    *)
(* based loop detection, aborts, and the semaphore that lets one thread of *)
(* the accelerant interpret at a time.                                     *)
(*                                                                         *)
(* A command table is a sequence of instructions; an address inside it is  *)
(* an index of the sequence.  Operands, and with them the arithmetic       *)
(* opcodes, are AtomOperand's subject: what a comparison or a switch finds *)
(* is any of its outcomes, and "op" stands for every opcode that changes   *)
(* nothing but registers and data.                                         *)
(*                                                                         *)
(* Time is measured in seconds.  system_time() - jumpStart is kept as the  *)
(* age of the first of the identical jumps, which stops growing once it is *)
(* over the limit; the same holds for the time a thread has waited.        *)
(***************************************************************************)
EXTENDS Integers, Sequences, FiniteSets

CONSTANTS
  Threads,       (* threads of the accelerant that run command tables      *)
  Code,          (* table -> its instructions; <<>> when the BIOS has none  *)
  Ps,            (* table -> dwords of parameters it declares, ps / 4      *)
  Ws,            (* the tables that have a work space                      *)
  Entry,         (* tables the driver calls from outside                   *)
  JmpTimeout,    (* ATOM_OP_JMP_TIMEOUT                                    *)
  SemTimeout     (* the 5000000 of acquire_sem_etc, in seconds             *)

Tables == DOMAIN Code

(* Instruction i of a table leads to instructions of the same table, and a *)
(* call to a table, which the BIOS may still not have.                     *)
StaysInside(T, i) ==
  LET ins == Code[T][i]
  IN  /\ ins.op \notin {"eot", "invalid"} => i + 1 \in DOMAIN Code[T]
      /\ ins.op = "jump" => ins.target \in DOMAIN Code[T]
      /\ ins.op = "switch" => ins.cases \subseteq DOMAIN Code[T] \ {1}
      /\ ins.op = "calltable" => ins.table \in Tables

Branches(ins) == ins.op = "jump" /\ ins.cond # "ALWAYS"

(* Where instruction i leads; "op" stands for all that fall through. *)
Leads(T, i) ==
  LET ins == Code[T][i]
  IN  CASE ins.op \in {"eot", "invalid"} -> {}
        [] ins.op = "jump"   -> {ins.target} \cup (IF Branches(ins) THEN {i + 1} ELSE {})
        [] ins.op = "switch" -> ins.cases \cup {i + 1}
        [] OTHER             -> {i + 1}

(* Every way to an instruction of O passes a comparison, and the branches   *)
(* are among them: no table asks for flags it has not set.                 *)
ComparesFirst(T, O) ==
  /\ 1 \notin O
  /\ \A i \in DOMAIN Code[T] :
       /\ Branches(Code[T][i]) => i \in O
       /\ \A j \in Leads(T, i) \cap O : i \in O \/ Code[T][i].op \in {"compare", "test"}

(* Jumps stay inside their table, no switch leads back to its beginning,    *)
(* and tables compare before they branch.                                  *)
ASSUME CodeAssumption ==
  /\ \A T \in Tables :
       /\ Code[T] \in Seq({Code[T][i] : i \in DOMAIN Code[T]})
       /\ \A i \in DOMAIN Code[T] : StaysInside(T, i)
       /\ \E O \in SUBSET DOMAIN Code[T] : ComparesFirst(T, O)
  /\ Ps \in [Tables -> Nat] /\ Ws \subseteq Tables /\ Entry \subseteq Tables
  /\ JmpTimeout \in Nat /\ SemTimeout \in Nat

VARIABLES
  at,         (* thread -> outside, waiting, locked, running or done        *)
  waited,     (* thread -> seconds spent in acquire_sem_etc                 *)
  call,       (* thread -> the table asked for                              *)
  stack,      (* thread -> the atom_exec_contexts, innermost last           *)
  result,     (* thread -> what atom_execute_table_locked returned last     *)
  sem,        (* tokens of exec_sem                                         *)
  live,       (* thread -> work spaces malloc'ed and not freed              *)
  cs,         (* cs_equal and cs_above                                      *)
  mode,       (* io_mode, reg_block, fb_base, data_block                    *)
  csBy,       (* ghost: the thread whose opcode set cs                      *)
  faulted     (* ghost: thread -> was an abort raised since it was called?  *)

gctx == <<cs, mode, csBy>>
atomVars == <<at, waited, call, stack, result, sem, live, gctx, faulted>>

Top(t)       == stack[t][Len(stack[t])]
Below(t)     == SubSeq(stack[t], 1, Len(stack[t]) - 1)
SetTop(t, f) == [stack EXCEPT ![t][Len(stack[t])] = f]
Instr(t)     == Code[Top(t).table][Top(t).ptr]

(* A fresh atom_exec_context; base is where its parameters begin.          *)
Frame(table, base) ==
  [table |-> table, ptr |-> 1, ps |-> base, abort |-> FALSE,
   lastJump |-> 0, age |-> 0]

(* atom_parse mallocs the context and sets neither the flags nor the modes. *)
AtomInit ==
  /\ at = [t \in Threads |-> "outside"]
  /\ waited = [t \in Threads |-> 0]
  /\ call \in [Threads -> Entry]
  /\ stack = [t \in Threads |-> <<>>]
  /\ result = [t \in Threads |-> "none"]
  /\ sem = 1
  /\ live = [t \in Threads |-> 0]
  /\ cs \in [equal : BOOLEAN, above : BOOLEAN]
  /\ mode \in [io : {"MM", "IIO"}, reg : {0, 7}, fb : {0, 7}, data : {"null"}]
  /\ csBy \in Threads
  /\ faulted = [t \in Threads |-> FALSE]

Goto(t, from, to) == at[t] = from /\ at' = [at EXCEPT ![t] = to]

-----------------------------------------------------------------------------
(* atom_execute_table: the outermost call.                                 *)

Enter(t) ==
  /\ Goto(t, "outside", "waiting")
  /\ call' \in {[call EXCEPT ![t] = e] : e \in Entry}
  /\ waited' = [waited EXCEPT ![t] = 0]
  /\ faulted' = [faulted EXCEPT ![t] = FALSE]
  /\ UNCHANGED <<stack, result, sem, live, gctx>>

(* Mutant: the interpreter is entered without the semaphore. *)
AcquireNot(t) ==
  /\ Goto(t, "waiting", "locked")
  /\ UNCHANGED <<sem, waited, call, stack, result, live, gctx, faulted>>

Acquire(t) ==
  /\ Goto(t, "waiting", "locked")
  /\ sem > 0
  /\ sem' = sem - 1
  /\ UNCHANGED <<waited, call, stack, result, live, gctx, faulted>>

(* acquire_sem_etc gives up: the caller gets B_ERROR and touches nothing.  *)
AcquireTimesOut(t) ==
  /\ Goto(t, "waiting", "outside")
  /\ waited[t] >= SemTimeout
  /\ result' = [result EXCEPT ![t] = "B_ERROR"]
  /\ UNCHANGED <<waited, call, stack, sem, live, gctx, faulted>>

(* What entering a table does to the stack and the heap.                   *)
Push(t, table, base) ==
  /\ stack' = [stack EXCEPT ![t] = Append(@, Frame(table, base))]
  /\ live' = [live EXCEPT ![t] = IF table \in Ws THEN @ + 1 ELSE @]

(* Mutant: the state left by the last table is not reset. *)
StartDirty(t) ==
  /\ IF Code[call[t]] = <<>>
     THEN /\ Goto(t, "locked", "done")
          /\ result' = [result EXCEPT ![t] = "B_ERROR"]
          /\ UNCHANGED <<stack, live>>
     ELSE Goto(t, "locked", "running") /\ Push(t, call[t], 0) /\ UNCHANGED result
  /\ UNCHANGED <<waited, call, sem, cs, csBy, mode, faulted>>

(* The reset of the register block, the framebuffer window and the IO mode, *)
(* and the entry into the outermost table; a table the BIOS does not have  *)
(* fails at once.                                                          *)
Start(t) ==
  /\ mode' = [mode EXCEPT !.io = "MM", !.reg = 0, !.fb = 0]
  /\ IF Code[call[t]] = <<>>
     THEN /\ Goto(t, "locked", "done")
          /\ result' = [result EXCEPT ![t] = "B_ERROR"]
          /\ UNCHANGED <<stack, live>>
     ELSE Goto(t, "locked", "running") /\ Push(t, call[t], 0) /\ UNCHANGED result
  /\ UNCHANGED <<waited, call, sem, cs, csBy, faulted>>

Release(t) ==
  /\ Goto(t, "done", "outside")
  /\ sem' = sem + 1
  /\ UNCHANGED <<waited, call, stack, result, live, gctx, faulted>>

-----------------------------------------------------------------------------
(* atom_execute_table_locked: the loop over the instructions.              *)

(* Leaving a table with a status: free(ws), and an error makes the calling *)
(* table abort in turn.                                                    *)
Return(t, status) ==
  /\ result' = [result EXCEPT ![t] = status]
  /\ live' = [live EXCEPT ![t] = IF Top(t).table \in Ws THEN @ - 1 ELSE @]
  /\ LET rest == Below(t)
     IN  stack' = [stack EXCEPT ![t] =
           IF rest = <<>> \/ status = "B_OK" THEN rest
           ELSE [rest EXCEPT ![Len(rest)].abort = TRUE]]
  /\ IF Len(stack[t]) = 1 THEN Goto(t, "running", "done") ELSE UNCHANGED at
  /\ UNCHANGED <<waited, call, sem, gctx, faulted>>

(* Mutants: the work space is kept, the error is not passed on. *)
AbortedLeaks(t) ==
  /\ at[t] = "running" /\ Top(t).abort
  /\ result' = [result EXCEPT ![t] = "B_ERROR"]
  /\ LET rest == Below(t)
     IN  stack' = [stack EXCEPT ![t] =
           IF rest = <<>> THEN rest ELSE [rest EXCEPT ![Len(rest)].abort = TRUE]]
  /\ IF Len(stack[t]) = 1 THEN Goto(t, "running", "done") ELSE UNCHANGED at
  /\ UNCHANGED <<waited, call, sem, live, gctx, faulted>>

AbortedForgiven(t) == at[t] = "running" /\ Top(t).abort /\ Return(t, "B_OK")

(* The abort is noticed when the next opcode has been fetched and before    *)
(* it is executed.                                                         *)
Aborted(t) == at[t] = "running" /\ Top(t).abort /\ Return(t, "B_ERROR")

Executes(t, op) == at[t] = "running" /\ ~Top(t).abort /\ Instr(t).op = op

Step(t) == [Top(t) EXCEPT !.ptr = @ + 1]

(* An end of table and a byte that is no opcode both end the table.        *)
Ends(t) == (Executes(t, "eot") \/ Executes(t, "invalid")) /\ Return(t, "B_OK")

(* The opcodes that only move data, wait or do nothing.                    *)
Data(t) ==
  /\ Executes(t, "op")
  /\ stack' = SetTop(t, Step(t))
  /\ UNCHANGED <<at, waited, call, result, sem, live, gctx, faulted>>

(* atom_op_compare sets both flags, atom_op_test only cs_equal.            *)
Compare(t) ==
  /\ \/ /\ Executes(t, "compare")
        /\ \E order \in {"below", "equal", "above"} :
              cs' = [equal |-> order = "equal", above |-> order = "above"]
     \/ /\ Executes(t, "test")
        /\ \E zero \in BOOLEAN : cs' = [cs EXCEPT !.equal = zero]
  /\ csBy' = t
  /\ stack' = SetTop(t, Step(t))
  /\ UNCHANGED <<at, waited, call, result, sem, live, mode, faulted>>

(* The condition of a jump, by the name of its ATOM_COND_ constant.        *)
Taken(cond) ==
  CASE cond = "ABOVE"        -> cs.above
    [] cond = "ABOVEOREQUAL" -> cs.above \/ cs.equal
    [] cond = "ALWAYS"       -> TRUE
    [] cond = "BELOW"        -> ~(cs.above \/ cs.equal)
    [] cond = "BELOWOREQUAL" -> ~cs.above
    [] cond = "EQUAL"        -> cs.equal
    [] cond = "NOTEQUAL"     -> ~cs.equal

(* Mutant: the age of the loop starts again with every jump. *)
JumpRestarts(t) ==
  /\ Executes(t, "jump")
  /\ stack' = SetTop(t,
       IF Taken(Instr(t).cond)
       THEN [Top(t) EXCEPT !.ptr = Instr(t).target,
                           !.lastJump = Instr(t).target, !.age = 0]
       ELSE Step(t))
  /\ UNCHANGED <<at, waited, call, result, sem, live, gctx, faulted>>

(* atom_op_jump: a jump to the target of the last jump taken is aborted     *)
(* once the first of them is more than JmpTimeout seconds old; any other    *)
(* jump starts the measurement anew.  The pointer moves even so.           *)
Jump(t) ==
  /\ Executes(t, "jump")
  /\ LET target == Instr(t).target
         again  == Top(t).lastJump = target
         stuck  == again /\ Top(t).age > JmpTimeout
     IN  IF ~Taken(Instr(t).cond)
         THEN stack' = SetTop(t, Step(t)) /\ UNCHANGED faulted
         ELSE /\ stack' = SetTop(t, [Top(t) EXCEPT
                   !.ptr = target, !.abort = stuck, !.lastJump = target,
                   !.age = IF again THEN @ ELSE 0])
              /\ faulted' = [faulted EXCEPT ![t] = @ \/ stuck]
  /\ UNCHANGED <<at, waited, call, result, sem, live, gctx>>

(* atom_op_switch: the value of a case, or none of them.  A switch is no    *)
(* jump to the loop detection.                                             *)
Switch(t) ==
  /\ Executes(t, "switch")
  /\ \E target \in Instr(t).cases \cup {Top(t).ptr + 1} :
        stack' = SetTop(t, [Top(t) EXCEPT !.ptr = target])
  /\ UNCHANGED <<at, waited, call, result, sem, live, gctx, faulted>>

(* Mutant: the called table gets the parameters of its caller. *)
CallTableSharedParams(t) ==
  /\ Executes(t, "calltable")
  /\ IF Code[Instr(t).table] = <<>>
     THEN stack' = SetTop(t, Step(t)) /\ UNCHANGED live
     ELSE /\ stack' = [stack EXCEPT ![t] =
                Append([@ EXCEPT ![Len(@)] = Step(t)],
                       Frame(Instr(t).table, Top(t).ps))]
          /\ live' = [live EXCEPT ![t] = IF Instr(t).table \in Ws THEN @ + 1 ELSE @]
  /\ UNCHANGED <<at, waited, call, result, sem, gctx, faulted>>

(* atom_op_calltable: the parameters of the called table begin after those *)
(* its caller declares; a table the BIOS does not have is skipped.         *)
CallTable(t) ==
  /\ Executes(t, "calltable")
  /\ IF Code[Instr(t).table] = <<>>
     THEN stack' = SetTop(t, Step(t)) /\ UNCHANGED live
     ELSE /\ stack' = [stack EXCEPT ![t] =
                Append([@ EXCEPT ![Len(@)] = Step(t)],
                       Frame(Instr(t).table, Top(t).ps + Ps[Top(t).table]))]
          /\ live' = [live EXCEPT ![t] = IF Instr(t).table \in Ws THEN @ + 1 ELSE @]
  /\ UNCHANGED <<at, waited, call, result, sem, gctx, faulted>>

(* atom_op_setport, setregblock, setfbbase and setdatablock change the modes *)
(* that all tables share.  Data block 255, "self", is the running table.     *)
SetMode(t) ==
  /\ \/ /\ Executes(t, "setport")
        /\ mode' = [mode EXCEPT !.io = Instr(t).port]
     \/ /\ Executes(t, "setregblock")
        /\ mode' = [mode EXCEPT !.reg = Instr(t).block]
     \/ /\ Executes(t, "setfbbase")
        /\ mode' = [mode EXCEPT !.fb = Instr(t).base]
     \/ /\ Executes(t, "setdatablock")
        /\ mode' = [mode EXCEPT !.data =
              IF Instr(t).block = "self" THEN Top(t).table ELSE Instr(t).block]
  /\ stack' = SetTop(t, Step(t))
  /\ UNCHANGED <<at, waited, call, result, sem, live, cs, csBy, faulted>>

Interpret(t) == \/ Aborted(t) \/ Ends(t) \/ Data(t) \/ Compare(t) \/ Jump(t)
                \/ Switch(t) \/ CallTable(t) \/ SetMode(t)

(* One second passes. *)
Second ==
  /\ waited' = [t \in Threads |->
       IF at[t] = "waiting" /\ waited[t] < SemTimeout THEN waited[t] + 1
       ELSE waited[t]]
  /\ stack' = [t \in Threads |->
       [i \in DOMAIN stack[t] |->
          [stack[t][i] EXCEPT !.age = IF @ > JmpTimeout THEN @ ELSE @ + 1]]]
  /\ UNCHANGED <<at, call, result, sem, live, gctx, faulted>>

Thread(t) == \/ Acquire(t) \/ AcquireTimesOut(t) \/ Start(t) \/ Release(t)
             \/ Interpret(t)

AtomNext == (\E t \in Threads : Enter(t) \/ Thread(t)) \/ Second

AtomSpec == AtomInit /\ [][AtomNext]_atomVars

(* Threads that are inside the interpreter are scheduled, time passes, and  *)
(* a waiting thread either gets the semaphore or runs into its timeout.    *)
FairSpec == AtomSpec /\ WF_atomVars(Second) /\ \A t \in Threads : WF_atomVars(Thread(t))

-----------------------------------------------------------------------------
Frames ==
  [table : Tables, ptr : Nat \ {0}, ps : Nat, abort : BOOLEAN,
   lastJump : Nat, age : 0 .. JmpTimeout + 1]

(* Every variable has its type and the pointer stays inside its table.     *)
AtomTypeOK ==
  /\ at \in [Threads -> {"outside", "waiting", "locked", "running", "done"}]
  /\ waited \in [Threads -> 0 .. SemTimeout]
  /\ call \in [Threads -> Entry]
  /\ \A t \in Threads : \A i \in DOMAIN stack[t] :
       stack[t][i] \in Frames /\ stack[t][i].ptr \in DOMAIN Code[stack[t][i].table]
  /\ result \in [Threads -> {"none", "B_OK", "B_ERROR"}]
  /\ sem \in 0 .. 1
  /\ live \in [Threads -> Nat]
  /\ csBy \in Threads
  /\ faulted \in [Threads -> BOOLEAN]

(* Whichever table of a call gives up, and however deep, the driver hears  *)
(* of it: atom_execute_table returns B_ERROR exactly when an abort was      *)
(* raised (or the table asked for does not exist).                         *)
FaultReachesCaller ==
  \A t \in Threads :
    at[t] = "done" =>
      (result[t] = "B_ERROR" <=> faulted[t] \/ Code[call[t]] = <<>>)

(* Every work space is freed, whether its table ends or is aborted: the     *)
(* blocks alive are those of the tables being interpreted.                 *)
WorkSpacesFreed ==
  \A t \in Threads :
    live[t] = Cardinality({i \in DOMAIN stack[t] : stack[t][i].table \in Ws})

(* A table declares its parameters; no table it calls, directly or not,     *)
(* gets a parameter space that reaches into them.                          *)
ParamsKept ==
  \A t \in Threads : \A i, j \in DOMAIN stack[t] :
    i < j => stack[t][j].ps >= stack[t][i].ps + Ps[stack[t][i].table]

(* The flags and the modes belong to the BIOS, not to a call.  A branch     *)
(* never depends on a comparison another thread made in between; and the   *)
(* outermost table starts with direct register access, register block 0    *)
(* and the framebuffer window at its beginning, whatever an earlier table, *)
(* perhaps an aborted one, left behind.                                    *)
OwnContext ==
  \A t \in Threads :
    at[t] = "running" =>
      /\ Branches(Instr(t)) => csBy = t
      /\ Len(stack[t]) = 1 /\ Top(t).ptr = 1 /\ Top(t).lastJump = 0
           => mode.io = "MM" /\ mode.reg = 0 /\ mode.fb = 0

(* The types and the facts above: what a nested call keeps of its callers'  *)
(* and gives back at its end, and what calls keep from each other.          *)
AtomInv == AtomTypeOK /\ WorkSpacesFreed /\ ParamsKept /\ OwnContext

(* A call ends: it is refused after the timeout, or its tables end, or the  *)
(* loop detection stops them.                                              *)
CallsEnd == \A t \in Threads : at[t] = "waiting" ~> at[t] = "outside"
=============================================================================
