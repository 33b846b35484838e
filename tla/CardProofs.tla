----------------------------- MODULE CardProofs -----------------------------
(***************************************************************************)
(* Proofs about what a driver does to the card beside the picture: the      *)
(* interpreter of the BIOS and the moves of the video memory.              *)
(*                                                                         *)
(* The interpreter, for any tables, any number of threads and any timeouts: *)
(* one thread interprets at a time; every work space is freed and no called *)
(* table reaches into the parameters of its callers; and an abort, however  *)
(* deep, reaches the driver.  The assumption is CodeAssumption: the tables  *)
(* are sequences whose jumps and cases stay inside, and each ends with an    *)
(* end of table.                                                           *)
(*                                                                         *)
(* The memory controller, for any number of Evergreen CRTCs from two on,     *)
(* every chip and driver and whatever the firmware left in the registers:   *)
(* the memory moves only when nobody reads it, and after a move or a reset   *)
(* the displays are as they were.                                          *)
(***************************************************************************)
EXTENDS AtomExec, MemoryController, FiniteSetTheorems, SequenceTheorems, WellFoundedInduction, TLAPS

Inside == {"locked", "running", "done"}

(* One thread interprets, and while it does the token is taken. *)
Exclusive ==
  /\ \A t \in Threads : at[t] \in Inside => sem = 0
  /\ \A t, u \in Threads : at[t] \in Inside /\ at[u] \in Inside => t = u

(* The contexts of a call: each inside its table, with its parameters after *)
(* those of its callers; only the innermost can have an abort pending.      *)
StackOK(s) ==
  /\ s \in Seq(Frames)
  /\ \A i \in DOMAIN s : s[i].ptr \in DOMAIN Code[s[i].table]
  /\ \A i, j \in DOMAIN s : i < j => s[j].ps >= s[i].ps + Ps[s[i].table]
  /\ \A i \in DOMAIN s : s[i].abort => i = Len(s)

Spaces(s) == {i \in DOMAIN s : s[i].table \in Ws}

StacksOK == stack \in [Threads -> Seq(Frames)] /\ \A t \in Threads : StackOK(stack[t])

(* What the place of a thread says of its stack and of the aborts. *)
CallOK(t) ==
  /\ at[t] = "running" <=> stack[t] # <<>>
  /\ at[t] = "running" => Code[call[t]] # <<>> /\ (faulted[t] <=> Top(t).abort)
  /\ at[t] \in {"waiting", "locked"} => ~faulted[t]
  /\ at[t] = "done" => (result[t] = "B_ERROR" <=> faulted[t] \/ Code[call[t]] = <<>>)

CallsOK == \A t \in Threads : CallOK(t)

IInv == AtomTypeOK /\ StacksOK /\ WorkSpacesFreed /\ CallsOK /\ Exclusive

-----------------------------------------------------------------------------
(* What the code does to a stack. *)

(* The work spaces of a stack are finitely many. *)
LEMMA SpacesFinite ==
  ASSUME NEW s, StackOK(s)
  PROVE  IsFiniteSet(Spaces(s)) /\ Cardinality(Spaces(s)) \in Nat
<1>1. DOMAIN s = 1 .. Len(s) /\ Len(s) \in Nat
  BY DEF StackOK
<1>2. IsFiniteSet(1 .. Len(s))
  BY <1>1, FS_Interval
<1>3. Spaces(s) \subseteq 1 .. Len(s)
  BY <1>1 DEF Spaces
<1> QED
  BY <1>2, <1>3, FS_Subset, FS_CardinalityType

(* An opcode changes the innermost context and keeps its table and base. *)
LEMMA Moved ==
  ASSUME NEW s, StackOK(s), s # <<>>,
         NEW f \in Frames,
         f.table = s[Len(s)].table, f.ps = s[Len(s)].ps,
         f.ptr \in DOMAIN Code[f.table]
  PROVE  LET n == [s EXCEPT ![Len(s)] = f]
         IN  /\ StackOK(n) /\ Spaces(n) = Spaces(s) /\ n # <<>>
             /\ Len(n) = Len(s) /\ n[Len(n)] = f
<1> DEFINE n == [s EXCEPT ![Len(s)] = f]
<1>1. s \in Seq(Frames) /\ Len(s) \in Nat \ {0} /\ DOMAIN s = 1 .. Len(s)
  BY DEF StackOK
<1>2. n \in Seq(Frames) /\ Len(n) = Len(s) /\ DOMAIN n = DOMAIN s
  BY <1>1
<1>3. n[Len(n)] = f /\ \A i \in DOMAIN s : i # Len(s) => n[i] = s[i]
  BY <1>1, <1>2
<1>4. \A i \in DOMAIN s : n[i].table = s[i].table /\ n[i].ps = s[i].ps
  BY <1>2, <1>3
<1> HIDE DEF n
<1>5. StackOK(n)
  <2>1. \A i \in DOMAIN n : n[i].ptr \in DOMAIN Code[n[i].table]
    BY <1>2, <1>3 DEF StackOK
  <2>2. \A i, j \in DOMAIN n : i < j => n[j].ps >= n[i].ps + Ps[n[i].table]
    BY <1>2, <1>4 DEF StackOK
  <2>3. \A i \in DOMAIN n : n[i].abort => i = Len(n)
    BY <1>2, <1>3 DEF StackOK
  <2> QED
    BY <1>2, <2>1, <2>2, <2>3 DEF StackOK
<1>6. Spaces(n) = Spaces(s)
  BY <1>2, <1>4 DEF Spaces
<1>7. n # <<>>
  BY <1>1, <1>2
<1> QED
  BY <1>2, <1>3, <1>5, <1>6, <1>7 DEF n

(* Entering a table adds a context whose parameters are after all others. *)
LEMMA Pushed ==
  ASSUME NEW s, StackOK(s),
         NEW f \in Frames, f.ptr \in DOMAIN Code[f.table],
         \A i \in DOMAIN s : f.ps >= s[i].ps + Ps[s[i].table],
         \A i \in DOMAIN s : ~s[i].abort
  PROVE  /\ StackOK(Append(s, f)) /\ Append(s, f) # <<>>
         /\ Len(Append(s, f)) = Len(s) + 1 /\ Append(s, f)[Len(s) + 1] = f
         /\ Cardinality(Spaces(Append(s, f))) =
              IF f.table \in Ws THEN Cardinality(Spaces(s)) + 1 ELSE Cardinality(Spaces(s))
<1> DEFINE n == Append(s, f)
<1>1. s \in Seq(Frames) /\ Len(s) \in Nat /\ DOMAIN s = 1 .. Len(s)
  BY DEF StackOK
<1>2. n \in Seq(Frames) /\ Len(n) = Len(s) + 1 /\ DOMAIN n = 1 .. Len(s) + 1
  BY <1>1
<1>3. n[Len(s) + 1] = f /\ \A i \in DOMAIN s : n[i] = s[i]
  BY <1>1
<1> HIDE DEF n
<1>4. StackOK(n)
  <2>1. \A i \in DOMAIN n : n[i].ptr \in DOMAIN Code[n[i].table]
    BY <1>1, <1>2, <1>3 DEF StackOK
  <2>2. \A i, j \in DOMAIN n : i < j => n[j].ps >= n[i].ps + Ps[n[i].table]
    <3> SUFFICES ASSUME NEW i \in DOMAIN n, NEW j \in DOMAIN n, i < j
                 PROVE  n[j].ps >= n[i].ps + Ps[n[i].table]
      OBVIOUS
    <3>1. i \in DOMAIN s /\ n[i] = s[i]
      BY <1>1, <1>2, <1>3
    <3>2. CASE j \in DOMAIN s
      BY <3>1, <3>2, <1>3 DEF StackOK
    <3>3. CASE j = Len(s) + 1
      BY <3>1, <3>3, <1>3
    <3> QED
      BY <1>1, <1>2, <3>2, <3>3
  <2>3. \A i \in DOMAIN n : n[i].abort => i = Len(n)
    BY <1>1, <1>2, <1>3
  <2> QED
    BY <1>2, <2>1, <2>2, <2>3 DEF StackOK
<1>5. Cardinality(Spaces(n)) =
        IF f.table \in Ws THEN Cardinality(Spaces(s)) + 1 ELSE Cardinality(Spaces(s))
  <2>1. CASE f.table \in Ws
    <3>1. Spaces(n) = Spaces(s) \cup {Len(s) + 1} /\ Len(s) + 1 \notin Spaces(s)
      BY <2>1, <1>1, <1>2, <1>3 DEF Spaces
    <3> QED
      BY <2>1, <3>1, SpacesFinite, FS_AddElement
  <2>2. CASE f.table \notin Ws
    <3>1. Spaces(n) = Spaces(s)
      BY <2>2, <1>1, <1>2, <1>3 DEF Spaces
    <3> QED
      BY <2>2, <3>1
  <2> QED
    BY <2>1, <2>2
<1>6. n # <<>>
  BY <1>1, <1>2
<1> QED
  BY <1>2, <1>3, <1>4, <1>5, <1>6 DEF n

(* Leaving a table takes the innermost context away; no caller has an abort *)
(* pending yet.                                                            *)
LEMMA Popped ==
  ASSUME NEW s, StackOK(s), s # <<>>
  PROVE  LET n == SubSeq(s, 1, Len(s) - 1)
         IN  /\ StackOK(n) /\ \A i \in DOMAIN n : ~n[i].abort
             /\ n = <<>> <=> Len(s) = 1
             /\ Cardinality(Spaces(n)) =
                  IF s[Len(s)].table \in Ws THEN Cardinality(Spaces(s)) - 1
                  ELSE Cardinality(Spaces(s))
<1> DEFINE n == SubSeq(s, 1, Len(s) - 1)
<1>1. s \in Seq(Frames) /\ Len(s) \in Nat \ {0} /\ DOMAIN s = 1 .. Len(s)
  BY DEF StackOK
<1>2. n \in Seq(Frames) /\ Len(n) = Len(s) - 1 /\ DOMAIN n = 1 .. Len(s) - 1
  BY <1>1, SubSeqProperties
<1>3. \A i \in DOMAIN n : i \in DOMAIN s /\ i # Len(s) /\ n[i] = s[i]
  BY <1>1, <1>2
<1> HIDE DEF n
<1>4. n = <<>> <=> Len(s) = 1
  <2>1. n = <<>> <=> Len(n) = 0
    BY <1>2, EmptySeq
  <2> QED
    BY <1>1, <1>2, <2>1
<1>5. \A i \in DOMAIN n : ~n[i].abort
  BY <1>3 DEF StackOK
<1>6. StackOK(n)
  <2>1. \A i \in DOMAIN n : n[i].ptr \in DOMAIN Code[n[i].table]
    BY <1>3 DEF StackOK
  <2>2. \A i, j \in DOMAIN n : i < j => n[j].ps >= n[i].ps + Ps[n[i].table]
    BY <1>3 DEF StackOK
  <2> QED
    BY <1>2, <1>5, <2>1, <2>2 DEF StackOK
<1>7. Cardinality(Spaces(n)) =
        IF s[Len(s)].table \in Ws THEN Cardinality(Spaces(s)) - 1
        ELSE Cardinality(Spaces(s))
  <2>1. CASE s[Len(s)].table \in Ws
    <3>1. Spaces(n) = Spaces(s) \ {Len(s)} /\ Len(s) \in Spaces(s)
      BY <2>1, <1>1, <1>2, <1>3 DEF Spaces
    <3> QED
      BY <2>1, <3>1, SpacesFinite, FS_RemoveElement
  <2>2. CASE s[Len(s)].table \notin Ws
    <3>1. Spaces(n) = Spaces(s)
      BY <2>2, <1>1, <1>2, <1>3 DEF Spaces
    <3> QED
      BY <2>2, <3>1
  <2> QED
    BY <2>1, <2>2
<1> QED
  BY <1>4, <1>5, <1>6, <1>7 DEF n

-----------------------------------------------------------------------------
(* The parts of IInv over the change of one thread. *)

(* The innermost context of a thread that interprets is one of its table.  *)
LEMMA TopOK ==
  ASSUME IInv, NEW t \in Threads, at[t] = "running"
  PROVE  /\ stack[t] # <<>> /\ StackOK(stack[t]) /\ Len(stack[t]) \in Nat \ {0}
         /\ Len(stack[t]) \in DOMAIN stack[t]
         /\ Top(t) = stack[t][Len(stack[t])] /\ Top(t) \in Frames
         /\ Top(t).ptr \in DOMAIN Code[Top(t).table]
         /\ Top(t).table \in Tables /\ Top(t).ptr \in Nat
         /\ faulted[t] <=> Top(t).abort
<1>1. stack[t] # <<>> /\ StackOK(stack[t]) /\ (faulted[t] <=> Top(t).abort)
  BY DEF IInv, StacksOK, CallsOK, CallOK
<1>2. Len(stack[t]) \in Nat \ {0} /\ Len(stack[t]) \in DOMAIN stack[t]
  BY <1>1 DEF StackOK
<1>3. Top(t) \in Frames /\ Top(t).ptr \in DOMAIN Code[Top(t).table]
  BY <1>1, <1>2 DEF StackOK, Top
<1> QED
  BY <1>1, <1>2, <1>3 DEF Top, Frames

(* A stack that is well formed and whose work spaces are counted, in the    *)
(* place of the stack of one thread.                                       *)
LEMMA StackStep ==
  ASSUME IInv, NEW t \in Threads, NEW n, StackOK(n),
         stack' = [stack EXCEPT ![t] = n],
         live' = [live EXCEPT ![t] = Cardinality(Spaces(n))]
  PROVE  /\ StacksOK' /\ WorkSpacesFreed' /\ live' \in [Threads -> Nat]
         /\ stack'[t] = n /\ \A u \in Threads \ {t} : stack'[u] = stack[u]
<1>1. stack \in [Threads -> Seq(Frames)] /\ live \in [Threads -> Nat]
  BY DEF IInv, AtomTypeOK, StacksOK
<1>2. stack'[t] = n /\ \A u \in Threads \ {t} : stack'[u] = stack[u]
  BY <1>1
<1>3. n \in Seq(Frames)
  BY DEF StackOK
<1>4. StacksOK'
  <2>1. stack' \in [Threads -> Seq(Frames)]
    BY <1>1, <1>3
  <2>2. \A u \in Threads : StackOK(stack'[u])
    BY <1>2 DEF IInv, StacksOK
  <2> QED
    BY <2>1, <2>2 DEF StacksOK
<1>5. live' \in [Threads -> Nat]
  BY <1>1, SpacesFinite
<1>6. WorkSpacesFreed'
  <2> SUFFICES ASSUME NEW u \in Threads
               PROVE  live'[u] = Cardinality({i \in DOMAIN stack'[u] : stack'[u][i].table \in Ws})
    BY DEF WorkSpacesFreed
  <2>1. CASE u = t
    BY <2>1, <1>1, <1>2 DEF Spaces
  <2>2. CASE u # t
    BY <2>2, <1>1, <1>2 DEF IInv, WorkSpacesFreed
  <2> QED
    BY <2>1, <2>2
<1> QED
  BY <1>2, <1>4, <1>5, <1>6

(* The types of the contexts are those of StackOK. *)
LEMMA StackTypes ==
  ASSUME StacksOK'
  PROVE  \A t \in Threads : \A i \in DOMAIN stack'[t] :
           stack'[t][i] \in Frames /\ stack'[t][i].ptr \in DOMAIN Code[stack'[t][i].table]
<1> SUFFICES ASSUME NEW t \in Threads, NEW i \in DOMAIN stack'[t]
             PROVE  stack'[t][i] \in Frames /\ stack'[t][i].ptr \in DOMAIN Code[stack'[t][i].table]
  OBVIOUS
<1>1. StackOK(stack'[t])
  BY DEF StacksOK
<1> QED
  BY <1>1 DEF StackOK

(* What is true of the places of the threads when only that of t changes.  *)
LEMMA PlaceStep ==
  ASSUME IInv, NEW t \in Threads,
         NEW p \in {"outside", "waiting", "locked", "running", "done"},
         at' = [at EXCEPT ![t] = p], sem' = sem,
         p \in Inside <=> at[t] \in Inside
  PROVE  Exclusive' /\ at'[t] = p /\ \A u \in Threads \ {t} : at'[u] = at[u]
<1>1. at'[t] = p /\ \A u \in Threads \ {t} : at'[u] = at[u]
  BY DEF IInv, AtomTypeOK
<1> QED
  BY <1>1 DEF IInv, Exclusive

(* A step of an opcode: the innermost context of a thread that interprets,  *)
(* and with it whether an abort is pending.                                *)
LEMMA OpcodeStep ==
  ASSUME IInv, NEW t \in Threads, at[t] = "running",
         NEW f \in Frames, f.table = Top(t).table, f.ps = Top(t).ps,
         f.ptr \in DOMAIN Code[f.table],
         stack' = SetTop(t, f),
         faulted' = [faulted EXCEPT ![t] = f.abort],
         csBy' \in Threads,
         UNCHANGED <<at, waited, call, result, sem, live>>
  PROVE  IInv'
<1> DEFINE n == [stack[t] EXCEPT ![Len(stack[t])] = f]
<1>1. /\ StackOK(n) /\ Spaces(n) = Spaces(stack[t]) /\ n # <<>>
      /\ Len(n) = Len(stack[t]) /\ n[Len(n)] = f
  BY TopOK, Moved
<1>2. stack' = [stack EXCEPT ![t] = n]
  BY DEF SetTop
<1> HIDE DEF n
<1>3. live' = [live EXCEPT ![t] = Cardinality(Spaces(n))]
  BY <1>1 DEF IInv, WorkSpacesFreed, Spaces, AtomTypeOK
<1>4. /\ StacksOK' /\ WorkSpacesFreed' /\ live' \in [Threads -> Nat]
      /\ stack'[t] = n /\ \A u \in Threads \ {t} : stack'[u] = stack[u]
  BY <1>1, <1>2, <1>3, StackStep
<1>5. faulted' \in [Threads -> BOOLEAN] /\ faulted'[t] = f.abort
      /\ \A u \in Threads \ {t} : faulted'[u] = faulted[u]
  BY DEF IInv, AtomTypeOK, Frames
<1>6. AtomTypeOK'
  BY <1>4, <1>5, StackTypes DEF IInv, AtomTypeOK
<1>7. CallsOK'
  <2> SUFFICES ASSUME NEW u \in Threads PROVE CallOK(u)'
    BY DEF CallsOK
  <2>1. CallOK(u)
    BY DEF IInv, CallsOK
  <2>2. CASE u = t
    BY <2>1, <2>2, <1>1, <1>4, <1>5 DEF CallOK, Top
  <2>3. CASE u # t
    BY <2>1, <2>3, <1>4, <1>5 DEF CallOK, Top
  <2> QED
    BY <2>2, <2>3
<1>8. Exclusive'
  BY DEF IInv, Exclusive
<1> QED
  BY <1>4, <1>6, <1>7, <1>8 DEF IInv

(* The context after an opcode that falls through to the next one. *)
LEMMA StepOK ==
  ASSUME IInv, NEW t \in Threads, at[t] = "running",
         Instr(t).op \notin {"eot", "invalid"}
  PROVE  /\ Step(t) \in Frames /\ Step(t).table = Top(t).table
         /\ Step(t).ps = Top(t).ps /\ Step(t).ptr = Top(t).ptr + 1
         /\ Step(t).abort = Top(t).abort
         /\ Step(t).ptr \in DOMAIN Code[Top(t).table]
<1>1. Top(t) \in Frames /\ Top(t).ptr \in DOMAIN Code[Top(t).table] /\ Top(t).table \in Tables
  BY TopOK
<1>2. Top(t).ptr + 1 \in DOMAIN Code[Top(t).table]
  BY <1>1, CodeAssumption DEF StaysInside, Instr
<1> QED
  BY <1>1, <1>2 DEF Step, Frames

-----------------------------------------------------------------------------
(* Each action preserves IInv. *)

LEMMA InitOK ==
  ASSUME AtomInit PROVE IInv
<1>1. StacksOK
  BY DEF AtomInit, StacksOK, StackOK
<1>2. WorkSpacesFreed
  <2> SUFFICES ASSUME NEW t \in Threads
               PROVE  live[t] = Cardinality({i \in DOMAIN stack[t] : stack[t][i].table \in Ws})
    BY DEF WorkSpacesFreed
  <2>1. {i \in DOMAIN stack[t] : stack[t][i].table \in Ws} = {}
    BY DEF AtomInit
  <2> QED
    BY <2>1, FS_EmptySet DEF AtomInit
<1>3. CallsOK
  BY DEF AtomInit, CallsOK, CallOK
<1>4. Exclusive
  BY DEF AtomInit, Exclusive, Inside
<1>5. AtomTypeOK
  BY CodeAssumption DEF AtomInit, AtomTypeOK
<1> QED
  BY <1>1, <1>2, <1>3, <1>4, <1>5 DEF IInv

LEMMA EnterOK ==
  ASSUME IInv, NEW t \in Threads, Enter(t) PROVE IInv'
<1> USE DEF Enter, Goto
<1>1. PICK e \in Entry : call' = [call EXCEPT ![t] = e]
  OBVIOUS
<1>2. AtomTypeOK'
  BY <1>1, CodeAssumption DEF IInv, AtomTypeOK, gctx
<1>3. StacksOK' /\ WorkSpacesFreed'
  BY DEF IInv, StacksOK, WorkSpacesFreed
<1>4. Exclusive'
  BY PlaceStep DEF Inside
<1>5. CallsOK'
  <2> SUFFICES ASSUME NEW u \in Threads PROVE CallOK(u)'
    BY DEF CallsOK
  <2>1. CallOK(u) /\ CallOK(t)
    BY DEF IInv, CallsOK
  <2>2. CASE u = t
    BY <2>1, <2>2 DEF CallOK, IInv, AtomTypeOK
  <2>3. CASE u # t
    BY <2>1, <2>3, <1>1 DEF CallOK, Top, IInv, AtomTypeOK
  <2> QED
    BY <2>2, <2>3
<1> QED
  BY <1>2, <1>3, <1>4, <1>5 DEF IInv

LEMMA AcquireOK ==
  ASSUME IInv, NEW t \in Threads, Acquire(t) PROVE IInv'
<1> USE DEF Acquire, Goto
<1>1. AtomTypeOK'
  BY DEF IInv, AtomTypeOK, gctx
<1>2. StacksOK' /\ WorkSpacesFreed'
  BY DEF IInv, StacksOK, WorkSpacesFreed
<1>3. Exclusive'
  <2>1. sem = 1 /\ sem' = 0
    BY DEF IInv, AtomTypeOK
  <2>2. \A u \in Threads : at[u] \notin Inside
    BY <2>1 DEF IInv, Exclusive
  <2> QED
    BY <2>1, <2>2 DEF Exclusive, IInv, AtomTypeOK
<1>4. CallsOK'
  <2> SUFFICES ASSUME NEW u \in Threads PROVE CallOK(u)'
    BY DEF CallsOK
  <2>1. CallOK(u)
    BY DEF IInv, CallsOK
  <2> QED
    BY <2>1 DEF CallOK, Top, IInv, AtomTypeOK
<1> QED
  BY <1>1, <1>2, <1>3, <1>4 DEF IInv

LEMMA AcquireTimesOutOK ==
  ASSUME IInv, NEW t \in Threads, AcquireTimesOut(t) PROVE IInv'
<1> USE DEF AcquireTimesOut, Goto
<1>1. AtomTypeOK'
  BY DEF IInv, AtomTypeOK, gctx
<1>2. StacksOK' /\ WorkSpacesFreed'
  BY DEF IInv, StacksOK, WorkSpacesFreed
<1>3. Exclusive'
  BY PlaceStep DEF Inside
<1>4. CallsOK'
  <2> SUFFICES ASSUME NEW u \in Threads PROVE CallOK(u)'
    BY DEF CallsOK
  <2>1. CallOK(u) /\ CallOK(t)
    BY DEF IInv, CallsOK
  <2> QED
    BY <2>1 DEF CallOK, Top, IInv, AtomTypeOK
<1> QED
  BY <1>1, <1>2, <1>3, <1>4 DEF IInv

LEMMA ReleaseOK ==
  ASSUME IInv, NEW t \in Threads, Release(t) PROVE IInv'
<1> USE DEF Release, Goto
<1>1. sem = 0 /\ \A u \in Threads \ {t} : at[u] \notin Inside
  BY DEF IInv, Exclusive, Inside
<1>2. AtomTypeOK'
  BY <1>1 DEF IInv, AtomTypeOK, gctx
<1>3. StacksOK' /\ WorkSpacesFreed'
  BY DEF IInv, StacksOK, WorkSpacesFreed
<1>4. Exclusive'
  <2>1. \A u \in Threads : at'[u] \notin Inside
    BY <1>1 DEF IInv, AtomTypeOK, Inside
  <2> QED
    BY <2>1 DEF Exclusive
<1>5. CallsOK'
  <2> SUFFICES ASSUME NEW u \in Threads PROVE CallOK(u)'
    BY DEF CallsOK
  <2>1. CallOK(u) /\ CallOK(t)
    BY DEF IInv, CallsOK
  <2> QED
    BY <2>1 DEF CallOK, Top, IInv, AtomTypeOK
<1> QED
  BY <1>2, <1>3, <1>4, <1>5 DEF IInv

(* The addresses of a table are those of a sequence. *)
LEMMA CodeDomain ==
  ASSUME NEW T \in Tables
  PROVE  DOMAIN Code[T] \subseteq Nat \ {0}
<1>1. Code[T] \in Seq({Code[T][i] : i \in DOMAIN Code[T]})
  BY CodeAssumption
<1>2. DOMAIN Code[T] = 1 .. Len(Code[T])
  BY <1>1
<1> QED
  BY <1>2

(* The context of a table that is entered. *)
LEMMA FrameOK ==
  ASSUME NEW T \in Tables, Code[T] # <<>>, NEW base \in Nat
  PROVE  /\ Frame(T, base) \in Frames /\ Frame(T, base).table = T
         /\ Frame(T, base).ps = base /\ ~Frame(T, base).abort
         /\ Frame(T, base).ptr \in DOMAIN Code[T]
<1>1. 1 \in DOMAIN Code[T]
  <2>1. Code[T] \in Seq({Code[T][i] : i \in DOMAIN Code[T]})
    BY CodeAssumption
  <2> QED
    BY <2>1
<1>2. 0 \in 0 .. JmpTimeout + 1
  BY CodeAssumption
<1> QED
  BY <1>1, <1>2 DEF Frame, Frames

LEMMA StartOK ==
  ASSUME IInv, NEW t \in Threads, Start(t) PROVE IInv'
<1>1. at[t] = "locked" /\ stack[t] = <<>> /\ ~faulted[t] /\ call[t] \in Tables
  BY CodeAssumption DEF Start, Goto, IInv, CallsOK, CallOK, AtomTypeOK
<1>2. CASE Code[call[t]] = <<>>
  <2>1. /\ at' = [at EXCEPT ![t] = "done"] /\ result' = [result EXCEPT ![t] = "B_ERROR"]
        /\ UNCHANGED <<stack, live, waited, call, sem, cs, csBy, faulted>>
    BY <1>2 DEF Start, Goto
  <2>2. AtomTypeOK'
    BY <2>1 DEF IInv, AtomTypeOK
  <2>3. StacksOK' /\ WorkSpacesFreed'
    BY <2>1 DEF IInv, StacksOK, WorkSpacesFreed
  <2>4. Exclusive'
    BY <2>1, <1>1, PlaceStep DEF Inside
  <2>5. CallsOK'
    <3> SUFFICES ASSUME NEW u \in Threads PROVE CallOK(u)'
      BY DEF CallsOK
    <3>1. CallOK(u) /\ CallOK(t)
      BY DEF IInv, CallsOK
    <3> QED
      BY <1>1, <1>2, <2>1, <3>1 DEF CallOK, Top, IInv, AtomTypeOK
  <2> QED
    BY <2>2, <2>3, <2>4, <2>5 DEF IInv
<1>3. CASE Code[call[t]] # <<>>
  <2> DEFINE f == Frame(call[t], 0)
             n == Append(stack[t], f)
  <2>1. /\ at' = [at EXCEPT ![t] = "running"] /\ stack' = [stack EXCEPT ![t] = n]
        /\ live' = [live EXCEPT ![t] = IF call[t] \in Ws THEN @ + 1 ELSE @]
        /\ UNCHANGED <<result, waited, call, sem, cs, csBy, faulted>>
    BY <1>3 DEF Start, Goto, Push
  <2>2. f \in Frames /\ f.table = call[t] /\ ~f.abort /\ f.ptr \in DOMAIN Code[f.table]
    BY <1>1, <1>3, FrameOK
  <2>3. StackOK(stack[t]) /\ DOMAIN stack[t] = {} /\ Len(stack[t]) = 0
    BY <1>1 DEF IInv, StacksOK
  <2> HIDE DEF f
  <2>4. /\ StackOK(n) /\ n # <<>> /\ Len(n) = 1 /\ n[1] = f
        /\ Cardinality(Spaces(n)) =
             IF f.table \in Ws THEN Cardinality(Spaces(stack[t])) + 1
             ELSE Cardinality(Spaces(stack[t]))
    BY <2>2, <2>3, Pushed
  <2> HIDE DEF n
  <2>5. live' = [live EXCEPT ![t] = Cardinality(Spaces(n))]
    BY <2>1, <2>2, <2>4 DEF IInv, WorkSpacesFreed, Spaces, AtomTypeOK
  <2>6. /\ StacksOK' /\ WorkSpacesFreed' /\ live' \in [Threads -> Nat]
        /\ stack'[t] = n /\ \A u \in Threads \ {t} : stack'[u] = stack[u]
    BY <2>1, <2>4, <2>5, StackStep
  <2>7. AtomTypeOK'
    BY <2>1, <2>6, StackTypes DEF IInv, AtomTypeOK
  <2>8. Exclusive' /\ at'[t] = "running" /\ \A u \in Threads \ {t} : at'[u] = at[u]
    BY <1>1, <2>1, PlaceStep DEF Inside
  <2>9. CallsOK'
    <3> SUFFICES ASSUME NEW u \in Threads PROVE CallOK(u)'
      BY DEF CallsOK
    <3>1. CallOK(u)
      BY DEF IInv, CallsOK
    <3>2. CASE u = t
      BY <1>1, <1>3, <2>1, <2>2, <2>4, <2>6, <2>8, <3>2 DEF CallOK, Top
    <3>3. CASE u # t
      BY <2>1, <2>6, <2>8, <3>1, <3>3 DEF CallOK, Top
    <3> QED
      BY <3>2, <3>3
  <2> QED
    BY <2>6, <2>7, <2>8, <2>9 DEF IInv
<1> QED
  BY <1>2, <1>3

(* Leaving a table with an error needs an abort pending, without one none.  *)
LEMMA ReturnOK ==
  ASSUME IInv, NEW t \in Threads, NEW status \in {"B_OK", "B_ERROR"},
         at[t] = "running", Top(t).abort <=> status = "B_ERROR",
         Return(t, status)
  PROVE  IInv'
<1> DEFINE s == stack[t]
           rest == Below(t)
           f == [rest[Len(rest)] EXCEPT !.abort = TRUE]
           n == IF rest = <<>> \/ status = "B_OK" THEN rest
                ELSE [rest EXCEPT ![Len(rest)] = f]
<1>1. /\ s # <<>> /\ StackOK(s) /\ Len(s) \in Nat \ {0}
      /\ Top(t) = s[Len(s)] /\ (faulted[t] <=> Top(t).abort)
  BY TopOK
<1>2. /\ StackOK(rest) /\ \A i \in DOMAIN rest : ~rest[i].abort
      /\ rest = <<>> <=> Len(s) = 1
      /\ Cardinality(Spaces(rest)) =
           IF Top(t).table \in Ws THEN Cardinality(Spaces(s)) - 1 ELSE Cardinality(Spaces(s))
  BY <1>1, Popped DEF Below
<1>3. stack' = [stack EXCEPT ![t] = n]
  BY DEF Return
<1> HIDE DEF rest
<1>4. /\ StackOK(n) /\ (n = <<>> <=> rest = <<>>) /\ Spaces(n) = Spaces(rest)
      /\ n # <<>> => (n[Len(n)].abort <=> status = "B_ERROR")
  <2>1. CASE rest = <<>> \/ status = "B_OK"
    <3>1. n = rest
      BY <2>1
    <3>2. rest # <<>> => Len(rest) \in DOMAIN rest
      BY <1>2 DEF StackOK
    <3> QED
      BY <2>1, <3>1, <3>2, <1>2
  <2>2. CASE ~(rest = <<>> \/ status = "B_OK")
    <3>1. Len(rest) \in DOMAIN rest /\ rest[Len(rest)] \in Frames
      BY <2>2, <1>2 DEF StackOK
    <3>2. /\ f \in Frames /\ f.table = rest[Len(rest)].table
          /\ f.ps = rest[Len(rest)].ps /\ f.ptr = rest[Len(rest)].ptr /\ f.abort
      BY <3>1 DEF Frames
    <3>3. f.ptr \in DOMAIN Code[f.table]
      BY <3>1, <3>2, <1>2 DEF StackOK
    <3>4. n = [rest EXCEPT ![Len(rest)] = f]
      BY <2>2
    <3> HIDE DEF f, n
    <3> DEFINE m == [rest EXCEPT ![Len(rest)] = f]
    <3>5. StackOK(m) /\ Spaces(m) = Spaces(rest) /\ m # <<>> /\ m[Len(m)] = f
      BY <2>2, <3>2, <3>3, <1>2, Moved
    <3>6. n = m
      BY <3>4
    <3> HIDE DEF m
    <3> QED
      BY <2>2, <3>2, <3>5, <3>6
  <2> QED
    BY <2>1, <2>2
<1>5. live' = [live EXCEPT ![t] = Cardinality(Spaces(n))]
  <2>1. live[t] = Cardinality(Spaces(s))
    BY DEF IInv, WorkSpacesFreed, Spaces
  <2>2. live' = [live EXCEPT ![t] = IF Top(t).table \in Ws THEN @ - 1 ELSE @]
    BY DEF Return
  <2>3. live \in [Threads -> Nat] /\ Cardinality(Spaces(n)) =
          IF Top(t).table \in Ws THEN live[t] - 1 ELSE live[t]
    BY <2>1, <1>2, <1>4 DEF IInv, AtomTypeOK
  <2> HIDE DEF n
  <2> QED
    BY <2>2, <2>3
<1> HIDE DEF n
<1>6. /\ StacksOK' /\ WorkSpacesFreed' /\ live' \in [Threads -> Nat]
      /\ stack'[t] = n /\ \A u \in Threads \ {t} : stack'[u] = stack[u]
  BY <1>3, <1>4, <1>5, StackStep
<1>7. /\ result' = [result EXCEPT ![t] = status]
      /\ UNCHANGED <<waited, call, sem, cs, mode, csBy, faulted>>
      /\ IF n = <<>> THEN at' = [at EXCEPT ![t] = "done"] ELSE at' = at
  BY <1>2, <1>4 DEF Return, Goto, gctx
<1>8. AtomTypeOK'
  BY <1>6, <1>7, StackTypes DEF IInv, AtomTypeOK
<1>9. Exclusive' /\ at'[t] = (IF n = <<>> THEN "done" ELSE "running")
      /\ \A u \in Threads \ {t} : at'[u] = at[u]
  <2>1. CASE n = <<>>
    BY <2>1, <1>7, PlaceStep DEF Inside
  <2>2. CASE n # <<>>
    BY <2>2, <1>7 DEF IInv, Exclusive
  <2> QED
    BY <2>1, <2>2
<1>10. CallsOK'
  <2> SUFFICES ASSUME NEW u \in Threads PROVE CallOK(u)'
    BY DEF CallsOK
  <2>1. CallOK(u)
    BY DEF IInv, CallsOK
  <2>2. CASE u = t
    <3>1. result'[t] = status
      BY <1>7 DEF IInv, AtomTypeOK
    <3>2. Code[call[t]] # <<>>
      BY DEF IInv, CallsOK, CallOK
    <3>3. CASE n = <<>>
      BY <2>2, <3>1, <3>2, <3>3, <1>1, <1>6, <1>7, <1>9 DEF CallOK
    <3>4. CASE n # <<>>
      BY <2>2, <3>2, <3>4, <1>1, <1>4, <1>6, <1>7, <1>9 DEF CallOK, Top
    <3> QED
      BY <3>3, <3>4
  <2>3. CASE u # t
    <3>1. result'[u] = result[u]
      BY <2>3, <1>7 DEF IInv, AtomTypeOK
    <3> QED
      BY <2>1, <2>3, <3>1, <1>6, <1>7, <1>9 DEF CallOK, Top
  <2> QED
    BY <2>2, <2>3
<1> QED
  BY <1>6, <1>8, <1>9, <1>10 DEF IInv

LEMMA AbortedOK ==
  ASSUME IInv, NEW t \in Threads, Aborted(t) PROVE IInv'
BY ReturnOK DEF Aborted

LEMMA EndsOK ==
  ASSUME IInv, NEW t \in Threads, Ends(t) PROVE IInv'
BY ReturnOK DEF Ends, Executes

(* An opcode that only falls through, whatever it does to flags and modes.  *)
LEMMA FallThrough ==
  ASSUME IInv, NEW t \in Threads, at[t] = "running",
         ~Top(t).abort, Instr(t).op \notin {"eot", "invalid"},
         stack' = SetTop(t, Step(t)), csBy' \in Threads,
         UNCHANGED <<at, waited, call, result, sem, live, faulted>>
  PROVE  IInv'
<1>1. faulted[t] = FALSE /\ Top(t).abort = FALSE
  BY TopOK DEF IInv, AtomTypeOK, Frames
<1>2. Step(t).abort = FALSE
  BY <1>1, StepOK
<1>3. faulted' = [faulted EXCEPT ![t] = Step(t).abort]
  BY <1>1, <1>2 DEF IInv, AtomTypeOK
<1> QED
  BY <1>3, StepOK, OpcodeStep

LEMMA DataOK ==
  ASSUME IInv, NEW t \in Threads, Data(t) PROVE IInv'
<1>1. csBy' \in Threads
  BY DEF Data, gctx, IInv, AtomTypeOK
<1> QED
  BY <1>1, FallThrough DEF Data, Executes

LEMMA CompareOK ==
  ASSUME IInv, NEW t \in Threads, Compare(t) PROVE IInv'
BY FallThrough DEF Compare, Executes

LEMMA SetModeOK ==
  ASSUME IInv, NEW t \in Threads, SetMode(t) PROVE IInv'
<1>1. csBy' \in Threads
  BY DEF SetMode, IInv, AtomTypeOK
<1> QED
  BY <1>1, FallThrough DEF SetMode, Executes

(* A jump that is not taken falls through; one that is moves the pointer    *)
(* and may raise the abort.                                                *)
LEMMA JumpOK ==
  ASSUME IInv, NEW t \in Threads, Jump(t) PROVE IInv'
<1> DEFINE target == Instr(t).target
           again  == Top(t).lastJump = target
           stuck  == again /\ Top(t).age > JmpTimeout
           f == [Top(t) EXCEPT !.ptr = target, !.abort = stuck, !.lastJump = target,
                               !.age = IF again THEN @ ELSE 0]
<1>1. /\ at[t] = "running" /\ ~Top(t).abort /\ Instr(t).op = "jump"
      /\ csBy' \in Threads /\ UNCHANGED <<at, waited, call, result, sem, live>>
  BY DEF Jump, Executes, gctx, IInv, AtomTypeOK
<1>2. CASE ~Taken(Instr(t).cond)
  BY <1>1, <1>2, FallThrough DEF Jump
<1>3. CASE Taken(Instr(t).cond)
  <2>1. /\ stack' = SetTop(t, f)
        /\ faulted' = [faulted EXCEPT ![t] = @ \/ stuck]
    BY <1>3 DEF Jump
  <2>2. /\ Top(t) \in Frames /\ Top(t).table \in Tables
        /\ Top(t).ptr \in DOMAIN Code[Top(t).table] /\ ~faulted[t]
    BY <1>1, TopOK
  <2>3. target \in DOMAIN Code[Top(t).table] /\ target \in Nat \ {0}
    <3>1. target \in DOMAIN Code[Top(t).table]
      BY <1>1, <2>2, CodeAssumption DEF StaysInside, Instr
    <3> QED
      BY <3>1, <2>2, CodeDomain
  <2>4. 0 \in 0 .. JmpTimeout + 1
    BY CodeAssumption
  <2> HIDE DEF target
  <2>5. again \in BOOLEAN /\ stuck \in BOOLEAN
    OBVIOUS
  <2> HIDE DEF again, stuck
  <2>6. /\ f \in Frames /\ f.table = Top(t).table /\ f.ps = Top(t).ps
        /\ f.ptr = target /\ f.abort = stuck
    BY <2>2, <2>3, <2>4, <2>5 DEF Frames
  <2>7. faulted' = [faulted EXCEPT ![t] = stuck]
    BY <2>1, <2>2, <2>5 DEF IInv, AtomTypeOK
  <2> HIDE DEF f
  <2> QED
    BY <1>1, <2>1, <2>3, <2>6, <2>7, OpcodeStep
<1> QED
  BY <1>2, <1>3

LEMMA SwitchOK ==
  ASSUME IInv, NEW t \in Threads, Switch(t) PROVE IInv'
<1>1. /\ at[t] = "running" /\ ~Top(t).abort /\ Instr(t).op = "switch"
      /\ csBy' \in Threads /\ UNCHANGED <<at, waited, call, result, sem, live, faulted>>
  BY DEF Switch, Executes, gctx, IInv, AtomTypeOK
<1>2. PICK target \in Instr(t).cases \cup {Top(t).ptr + 1} :
        stack' = SetTop(t, [Top(t) EXCEPT !.ptr = target])
  BY DEF Switch
<1>3. /\ Top(t) \in Frames /\ Top(t).table \in Tables
      /\ Top(t).ptr \in DOMAIN Code[Top(t).table] /\ ~faulted[t]
  BY <1>1, TopOK
<1>4. target \in DOMAIN Code[Top(t).table]
  BY <1>1, <1>2, <1>3, CodeAssumption DEF StaysInside, Instr
<1>5. target \in Nat \ {0}
  BY <1>3, <1>4, CodeDomain
<1> DEFINE f == [Top(t) EXCEPT !.ptr = target]
<1>6. /\ f \in Frames /\ f.table = Top(t).table /\ f.ps = Top(t).ps
      /\ f.ptr = target /\ f.abort = Top(t).abort
  BY <1>3, <1>5 DEF Frames
<1>7. faulted' = [faulted EXCEPT ![t] = f.abort]
  BY <1>1, <1>3, <1>6 DEF IInv, AtomTypeOK, Frames
<1> HIDE DEF f
<1>8. stack' = SetTop(t, f)
  BY <1>2 DEF f
<1> QED
  BY <1>1, <1>4, <1>6, <1>7, <1>8, OpcodeStep

(* A table the BIOS does not have is skipped; one it has gets a context     *)
(* behind its caller's.                                                    *)
LEMMA CallTableOK ==
  ASSUME IInv, NEW t \in Threads, CallTable(t) PROVE IInv'
<1> DEFINE T == Instr(t).table
           s == stack[t]
           m == [s EXCEPT ![Len(s)] = Step(t)]
           f == Frame(T, Top(t).ps + Ps[Top(t).table])
           n == Append(m, f)
<1>1. /\ at[t] = "running" /\ ~Top(t).abort /\ Instr(t).op = "calltable"
      /\ csBy' \in Threads /\ UNCHANGED <<at, waited, call, result, sem, csBy, faulted>>
  BY DEF CallTable, Executes, gctx, IInv, AtomTypeOK
<1>2. CASE Code[T] = <<>>
  BY <1>1, <1>2, FallThrough DEF CallTable
<1>3. CASE Code[T] # <<>>
  <2>1. stack' = [stack EXCEPT ![t] = n]
    BY <1>3 DEF CallTable
  <2>2. live' = [live EXCEPT ![t] = IF T \in Ws THEN @ + 1 ELSE @]
    BY <1>3 DEF CallTable
  <2>3. /\ s # <<>> /\ StackOK(s) /\ Top(t) = s[Len(s)] /\ Top(t) \in Frames
        /\ Top(t).ptr \in DOMAIN Code[Top(t).table] /\ Top(t).table \in Tables
        /\ ~faulted[t] /\ Len(s) \in DOMAIN s
    BY <1>1, TopOK
  <2>4. T \in Tables
    BY <1>1, <2>3, CodeAssumption DEF StaysInside, Instr
  <2>5. Top(t).ps \in Nat /\ Ps[Top(t).table] \in Nat
    BY <2>3, CodeAssumption DEF Frames
  <2>6. f \in Frames /\ f.table = T /\ f.ptr \in DOMAIN Code[T] /\ ~f.abort
        /\ f.ps = Top(t).ps + Ps[Top(t).table]
    BY <1>3, <2>4, <2>5, FrameOK
  <2>7. /\ StackOK(m) /\ Spaces(m) = Spaces(s) /\ m # <<>>
        /\ Len(m) = Len(s) /\ m[Len(m)] = Step(t)
    BY <1>1, <2>3, StepOK, Moved
  <2>8. /\ Step(t).ps = Top(t).ps /\ Step(t).table = Top(t).table /\ ~Step(t).abort
    BY <1>1, StepOK
  <2> HIDE DEF f, m, s
  <2>9. \A i \in DOMAIN m : f.ps >= m[i].ps + Ps[m[i].table] /\ ~m[i].abort
    <3> SUFFICES ASSUME NEW i \in DOMAIN m
                 PROVE  f.ps >= m[i].ps + Ps[m[i].table] /\ ~m[i].abort
      OBVIOUS
    <3>1. Len(m) \in DOMAIN m /\ i <= Len(m)
      BY <2>7 DEF StackOK
    <3>2. m[i] \in Frames /\ m[i].ps \in Nat /\ Ps[m[i].table] \in Nat
      <4>1. m[i] \in Frames
        BY <2>7 DEF StackOK
      <4>2. m[i].ps \in Nat /\ m[i].table \in Tables
        BY <4>1 DEF Frames
      <4> QED
        BY <4>1, <4>2, CodeAssumption
    <3>3. CASE i = Len(m)
      BY <3>3, <2>5, <2>6, <2>7, <2>8
    <3>4. CASE i < Len(m)
      <4>1. m[Len(m)].ps >= m[i].ps + Ps[m[i].table] /\ ~m[i].abort
        BY <3>1, <3>4, <2>7 DEF StackOK
      <4> QED
        BY <4>1, <3>2, <2>5, <2>6, <2>7, <2>8
    <3>5. i \in Nat /\ Len(m) \in Nat
      BY <2>7 DEF StackOK
    <3> QED
      BY <3>1, <3>3, <3>4, <3>5
  <2>10. /\ StackOK(n) /\ n # <<>> /\ n[Len(n)] = f
         /\ Cardinality(Spaces(n)) =
              IF f.table \in Ws THEN Cardinality(Spaces(m)) + 1 ELSE Cardinality(Spaces(m))
    BY <2>6, <2>7, <2>9, Pushed
  <2> HIDE DEF n, T
  <2>11. live' = [live EXCEPT ![t] = Cardinality(Spaces(n))]
    <3>1. live[t] = Cardinality(Spaces(s)) /\ live \in [Threads -> Nat]
      BY DEF IInv, WorkSpacesFreed, Spaces, AtomTypeOK, s
    <3> QED
      BY <3>1, <2>2, <2>6, <2>7, <2>10
  <2>12. /\ StacksOK' /\ WorkSpacesFreed' /\ live' \in [Threads -> Nat]
         /\ stack'[t] = n /\ \A u \in Threads \ {t} : stack'[u] = stack[u]
    BY <2>1, <2>10, <2>11, StackStep
  <2>13. AtomTypeOK'
    BY <1>1, <2>12, StackTypes DEF IInv, AtomTypeOK
  <2>14. CallsOK'
    <3> SUFFICES ASSUME NEW u \in Threads PROVE CallOK(u)'
      BY DEF CallsOK
    <3>1. CallOK(u)
      BY DEF IInv, CallsOK
    <3>2. CASE u = t
      BY <1>1, <2>3, <2>6, <2>10, <2>12, <3>1, <3>2 DEF CallOK, Top
    <3>3. CASE u # t
      BY <1>1, <2>12, <3>1, <3>3 DEF CallOK, Top
    <3> QED
      BY <3>2, <3>3
  <2>15. Exclusive'
    BY <1>1 DEF IInv, Exclusive
  <2> QED
    BY <2>12, <2>13, <2>14, <2>15 DEF IInv
<1> QED
  BY <1>2, <1>3

(* A second makes every context and every waiting thread older, no more. *)
LEMMA SecondOK ==
  ASSUME IInv, Second PROVE IInv'
<1> DEFINE older(f) == [f EXCEPT !.age = IF @ > JmpTimeout THEN @ ELSE @ + 1]
<1>1. /\ stack' = [t \in Threads |-> [i \in DOMAIN stack[t] |-> older(stack[t][i])]]
      /\ UNCHANGED <<at, call, result, sem, live, csBy, faulted>>
  BY DEF Second, gctx
<1>2. \A f \in Frames :
        /\ older(f) \in Frames /\ older(f).table = f.table /\ older(f).ps = f.ps
        /\ older(f).ptr = f.ptr /\ older(f).abort = f.abort
  BY CodeAssumption DEF Frames
<1> HIDE DEF older
<1>3. ASSUME NEW t \in Threads
      PROVE  /\ stack'[t] \in Seq(Frames) /\ Len(stack'[t]) = Len(stack[t])
             /\ DOMAIN stack'[t] = DOMAIN stack[t]
             /\ \A i \in DOMAIN stack[t] :
                  /\ stack'[t][i] \in Frames
                  /\ stack'[t][i].table = stack[t][i].table
                  /\ stack'[t][i].ps = stack[t][i].ps
                  /\ stack'[t][i].ptr = stack[t][i].ptr
                  /\ stack'[t][i].abort = stack[t][i].abort
  <2>1. stack[t] \in Seq(Frames) /\ DOMAIN stack[t] = 1 .. Len(stack[t]) /\ Len(stack[t]) \in Nat
    BY DEF IInv, StacksOK, StackOK
  <2>2. stack'[t] = [i \in 1 .. Len(stack[t]) |-> older(stack[t][i])]
    BY <1>1, <2>1
  <2>3. \A i \in 1 .. Len(stack[t]) : stack[t][i] \in Frames
    BY <2>1
  <2> QED
    BY <1>2, <2>1, <2>2, <2>3
<1>4. StacksOK'
  <2>1. stack' \in [Threads -> Seq(Frames)]
    BY <1>1, <1>3
  <2>2. ASSUME NEW t \in Threads PROVE StackOK(stack'[t])
    <3>1. StackOK(stack[t])
      BY DEF IInv, StacksOK
    <3>2. \A i \in DOMAIN stack'[t] : stack'[t][i].ptr \in DOMAIN Code[stack'[t][i].table]
      BY <1>3, <3>1 DEF StackOK
    <3>3. \A i, j \in DOMAIN stack'[t] :
            i < j => stack'[t][j].ps >= stack'[t][i].ps + Ps[stack'[t][i].table]
      BY <1>3, <3>1 DEF StackOK
    <3>4. \A i \in DOMAIN stack'[t] : stack'[t][i].abort => i = Len(stack'[t])
      BY <1>3, <3>1 DEF StackOK
    <3> QED
      BY <1>3, <3>2, <3>3, <3>4 DEF StackOK
  <2> QED
    BY <2>1, <2>2 DEF StacksOK
<1>5. WorkSpacesFreed'
  <2> SUFFICES ASSUME NEW t \in Threads
               PROVE  live'[t] = Cardinality({i \in DOMAIN stack'[t] : stack'[t][i].table \in Ws})
    BY DEF WorkSpacesFreed
  <2>1. {i \in DOMAIN stack'[t] : stack'[t][i].table \in Ws}
          = {i \in DOMAIN stack[t] : stack[t][i].table \in Ws}
    BY <1>3
  <2> QED
    BY <1>1, <2>1 DEF IInv, WorkSpacesFreed
<1>6. CallsOK'
  <2> SUFFICES ASSUME NEW t \in Threads PROVE CallOK(t)'
    BY DEF CallsOK
  <2>1. CallOK(t)
    BY DEF IInv, CallsOK
  <2>2. stack'[t] # <<>> <=> stack[t] # <<>>
    <3>1. stack[t] \in Seq(Frames) /\ stack'[t] \in Seq(Frames) /\ Len(stack'[t]) = Len(stack[t])
      BY <1>3 DEF IInv, StacksOK
    <3> QED
      BY <3>1, EmptySeq
  <2>3. at[t] = "running" => stack'[t][Len(stack'[t])].abort = Top(t).abort
    BY <1>3, TopOK DEF Top
  <2> QED
    BY <1>1, <2>1, <2>2, <2>3 DEF CallOK, Top
<1>7. Exclusive'
  BY <1>1 DEF IInv, Exclusive
<1>8. waited' \in [Threads -> 0 .. SemTimeout]
  BY CodeAssumption DEF Second, IInv, AtomTypeOK
<1>9. AtomTypeOK'
  BY <1>1, <1>4, <1>8, StackTypes DEF IInv, AtomTypeOK
<1> QED
  BY <1>4, <1>5, <1>6, <1>7, <1>9 DEF IInv

-----------------------------------------------------------------------------
(* The inductive invariant: types, the stacks, the places and the aborts,  *)
(* and the one token.                                                      *)
THEOREM Invariance == AtomSpec => []IInv
<1>1. AtomInit => IInv
  BY InitOK
<1>2. IInv /\ [AtomNext]_atomVars => IInv'
  <2> SUFFICES ASSUME IInv, [AtomNext]_atomVars PROVE IInv'
    OBVIOUS
  <2>1. ASSUME NEW t \in Threads, Enter(t) PROVE IInv'
    BY <2>1, EnterOK
  <2>2. ASSUME NEW t \in Threads, Thread(t) PROVE IInv'
    <3>1. CASE Acquire(t)
      BY <3>1, AcquireOK
    <3>2. CASE AcquireTimesOut(t)
      BY <3>2, AcquireTimesOutOK
    <3>3. CASE Start(t)
      BY <3>3, StartOK
    <3>4. CASE Release(t)
      BY <3>4, ReleaseOK
    <3>5. CASE Interpret(t)
      BY <3>5, AbortedOK, EndsOK, DataOK, CompareOK, JumpOK, SwitchOK, CallTableOK, SetModeOK
         DEF Interpret
    <3> QED
      BY <2>2, <3>1, <3>2, <3>3, <3>4, <3>5 DEF Thread
  <2>3. CASE Second
    BY <2>3, SecondOK
  <2>4. CASE UNCHANGED atomVars
    BY <2>4 DEF atomVars, gctx, IInv, AtomTypeOK, StacksOK, WorkSpacesFreed, CallsOK, CallOK, Top, Exclusive
  <2> QED
    BY <2>1, <2>2, <2>3, <2>4 DEF AtomNext
<1> QED
  BY <1>1, <1>2, PTL DEF AtomSpec

(* At any moment at most one thread is between the acquire and the release *)
(* of exec_sem, and none when its token is there.                          *)
THEOREM MutualExclusion == AtomSpec => []Exclusive
<1>1. IInv => Exclusive
  BY DEF IInv
<1> QED
  BY <1>1, Invariance, PTL

-----------------------------------------------------------------------------
(* The context: flags and modes.  Owned are the instructions of a table     *)
(* that come after a comparison of it.                                     *)
Owned(T) == CHOOSE O \in SUBSET DOMAIN Code[T] : ComparesFirst(T, O)

LEMMA Flow ==
  ASSUME NEW T \in Tables
  PROVE  ComparesFirst(T, Owned(T))
<1>1. \E O \in SUBSET DOMAIN Code[T] : ComparesFirst(T, O)
  BY CodeAssumption
<1> QED
  BY <1>1 DEF Owned

(* In every table of a call that has compared, a caller's included, the     *)
(* flags are the call's.                                                   *)
OwnFlags(t) ==
  at[t] = "running" =>
    \A i \in DOMAIN stack[t] : stack[t][i].ptr \in Owned(stack[t][i].table) => csBy = t

(* Only the innermost table can be at its beginning, and the outermost has  *)
(* its modes reset then.                                                   *)
OwnModes(t) ==
  at[t] = "running" =>
    \A i \in DOMAIN stack[t] :
      stack[t][i].ptr = 1 /\ stack[t][i].lastJump = 0 =>
        i = Len(stack[t]) /\ (i = 1 => mode.io = "MM" /\ mode.reg = 0 /\ mode.fb = 0)

Owns == \A t \in Threads : OwnFlags(t) /\ OwnModes(t)

(* While t is inside, no other thread runs. *)
LEMMA Alone ==
  ASSUME IInv, NEW t \in Threads, at[t] \in Inside, NEW u \in Threads, u # t
  PROVE  at[u] # "running"
BY DEF IInv, Exclusive, Inside

(* A step of thread t that leaves the context alone, after which it is not  *)
(* inside any table.                                                       *)
LEMMA OutsideOwns ==
  ASSUME IInv, Owns, NEW t \in Threads, NEW p \in {"outside", "waiting", "locked", "done"},
         at' = [at EXCEPT ![t] = p], UNCHANGED <<stack, mode, csBy>>
  PROVE  Owns'
<1> SUFFICES ASSUME NEW u \in Threads PROVE OwnFlags(u)' /\ OwnModes(u)'
  BY DEF Owns
<1>1. at'[u] = "running" => at[u] = "running"
  BY DEF IInv, AtomTypeOK
<1> QED
  BY <1>1 DEF Owns, OwnFlags, OwnModes

(* A step of thread t inside: only its own stack and context count.        *)
LEMMA InsideOwns ==
  ASSUME IInv, NEW t \in Threads, at[t] \in Inside,
         \A u \in Threads \ {t} : at'[u] = at[u],
         OwnFlags(t)', OwnModes(t)'
  PROVE  Owns'
<1> SUFFICES ASSUME NEW u \in Threads PROVE OwnFlags(u)' /\ OwnModes(u)'
  BY DEF Owns
<1>1. CASE u = t
  BY <1>1
<1>2. CASE u # t
  <2>1. at'[u] # "running"
    BY <1>2, Alone
  <2> QED
    BY <2>1 DEF OwnFlags, OwnModes
<1> QED
  BY <1>1, <1>2

LEMMA StartOwns ==
  ASSUME IInv, Owns, NEW t \in Threads, Start(t) PROVE Owns'
<1>1. at[t] = "locked" /\ stack[t] = <<>> /\ call[t] \in Tables
      /\ at[t] \in Inside /\ stack \in [Threads -> Seq(Frames)]
  BY CodeAssumption DEF Start, Goto, IInv, CallsOK, CallOK, AtomTypeOK, Inside, StacksOK
<1>2. /\ \A u \in Threads \ {t} : at'[u] = at[u]
      /\ mode'.io = "MM" /\ mode'.reg = 0 /\ mode'.fb = 0
  BY DEF Start, Goto, IInv, AtomTypeOK
<1>3. CASE Code[call[t]] = <<>>
  <2>1. at'[t] = "done"
    BY <1>1, <1>3 DEF Start, Goto, IInv, AtomTypeOK
  <2> QED
    BY <2>1, <1>1, <1>2, InsideOwns DEF OwnFlags, OwnModes
<1>4. CASE Code[call[t]] # <<>>
  <2>1. stack'[t] = <<Frame(call[t], 0)>>
    BY <1>1, <1>4 DEF Start, Push
  <2>2. DOMAIN stack'[t] = {1} /\ Len(stack'[t]) = 1
        /\ stack'[t][1].ptr = 1 /\ stack'[t][1].table = call[t]
    BY <2>1 DEF Frame
  <2>3. 1 \notin Owned(call[t])
    BY <1>1, Flow DEF ComparesFirst
  <2>4. OwnFlags(t)' /\ OwnModes(t)'
    BY <1>2, <2>2, <2>3 DEF OwnFlags, OwnModes
  <2> QED
    BY <1>1, <1>2, <2>4, InsideOwns
<1> QED
  BY <1>3, <1>4

LEMMA ReturnOwns ==
  ASSUME IInv, Owns, NEW t \in Threads, NEW status, at[t] = "running", Return(t, status)
  PROVE  Owns'
<1>1. /\ stack[t] # <<>> /\ StackOK(stack[t]) /\ Len(stack[t]) \in Nat \ {0}
      /\ stack[t] \in Seq(Frames) /\ DOMAIN stack[t] = 1 .. Len(stack[t])
  BY TopOK DEF StackOK
<1> DEFINE rest == Below(t)
<1>2. /\ rest \in Seq(Frames) /\ Len(rest) = Len(stack[t]) - 1
      /\ DOMAIN rest = 1 .. Len(stack[t]) - 1
      /\ \A i \in DOMAIN rest : rest[i] = stack[t][i] /\ rest[i] \in Frames
  BY <1>1, SubSeqProperties DEF Below
<1>3. stack'[t] = IF rest = <<>> \/ status = "B_OK" THEN rest
                  ELSE [rest EXCEPT ![Len(rest)].abort = TRUE]
  BY DEF Return, IInv, StacksOK
<1> HIDE DEF rest
<1>4. /\ DOMAIN stack'[t] = 1 .. Len(stack[t]) - 1
      /\ \A i \in DOMAIN stack'[t] :
           /\ i \in DOMAIN stack[t] /\ i # Len(stack[t])
           /\ stack'[t][i].ptr = stack[t][i].ptr /\ stack'[t][i].table = stack[t][i].table
           /\ stack'[t][i].lastJump = stack[t][i].lastJump
  <2>1. CASE rest = <<>> \/ status = "B_OK"
    <3>1. stack'[t] = rest
      BY <2>1, <1>3
    <3> QED
      BY <3>1, <1>1, <1>2
  <2>2. CASE ~(rest = <<>> \/ status = "B_OK")
    <3> DEFINE l == Len(rest)
    <3>1. l \in DOMAIN rest
      BY <2>2, <1>1, <1>2, EmptySeq
    <3>2. stack'[t] = [rest EXCEPT ![l] = [rest[l] EXCEPT !.abort = TRUE]]
      BY <2>2, <1>3
    <3> HIDE DEF l
    <3>3. DOMAIN stack'[t] = DOMAIN rest /\ \A i \in DOMAIN rest :
            stack'[t][i] = IF i = l THEN [rest[l] EXCEPT !.abort = TRUE] ELSE rest[i]
      BY <3>1, <3>2, <1>2
    <3>4. \A f \in Frames : LET g == [f EXCEPT !.abort = TRUE]
                            IN  g.ptr = f.ptr /\ g.table = f.table /\ g.lastJump = f.lastJump
      BY DEF Frames
    <3>5. ASSUME NEW i \in DOMAIN rest
          PROVE  /\ stack'[t][i].ptr = stack[t][i].ptr
                 /\ stack'[t][i].table = stack[t][i].table
                 /\ stack'[t][i].lastJump = stack[t][i].lastJump
      <4>1. CASE i = l
        <5>1. rest[l] \in Frames /\ rest[l] = stack[t][l]
          BY <3>1, <1>2
        <5>2. stack'[t][i] = [rest[l] EXCEPT !.abort = TRUE]
          BY <4>1, <3>3
        <5> QED
          BY <4>1, <5>1, <5>2, <3>4
      <4>2. CASE i # l
        BY <4>2, <3>3, <1>2
      <4> QED
        BY <4>1, <4>2
    <3>6. \A i \in DOMAIN rest : i \in DOMAIN stack[t] /\ i # Len(stack[t])
      BY <1>1, <1>2
    <3> QED
      BY <3>3, <3>5, <3>6, <1>2
  <2> QED
    BY <2>1, <2>2
<1>5. UNCHANGED <<mode, csBy>>
  BY DEF Return, gctx
<1>6. OwnFlags(t)' /\ OwnModes(t)'
  BY <1>1, <1>4, <1>5 DEF Owns, OwnFlags, OwnModes
<1>7. \A u \in Threads \ {t} : at'[u] = at[u]
  BY DEF Return, Goto, IInv, AtomTypeOK
<1> QED
  BY <1>6, <1>7, InsideOwns DEF Inside

(* An opcode moves the innermost context along the table. *)
LEMMA OpcodeOwns ==
  ASSUME IInv, Owns, NEW t \in Threads, at[t] = "running",
         NEW f, f.table = Top(t).table, f.ptr \in Leads(Top(t).table, Top(t).ptr),
         f.ptr # 1 \/ f.lastJump # 0,
         stack' = SetTop(t, f),
         IF Instr(t).op \in {"compare", "test"} THEN csBy' = t ELSE csBy' = csBy,
         UNCHANGED at
  PROVE  Owns'
<1>1. /\ stack[t] # <<>> /\ Len(stack[t]) \in Nat \ {0}
      /\ DOMAIN stack[t] = 1 .. Len(stack[t]) /\ Top(t) = stack[t][Len(stack[t])]
      /\ Top(t).table \in Tables /\ Top(t).ptr \in DOMAIN Code[Top(t).table]
      /\ stack[t] \in Seq(Frames)
  BY TopOK DEF StackOK
<1>2. /\ DOMAIN stack'[t] = DOMAIN stack[t] /\ Len(stack'[t]) = Len(stack[t])
      /\ stack'[t][Len(stack[t])] = f
      /\ \A i \in DOMAIN stack[t] : i # Len(stack[t]) => stack'[t][i] = stack[t][i]
  BY <1>1 DEF SetTop, IInv, StacksOK
<1>3. csBy' = csBy \/ csBy' = t
  OBVIOUS
<1>4. OwnFlags(t)'
  <2> SUFFICES ASSUME NEW i \in DOMAIN stack'[t], stack'[t][i].ptr \in Owned(stack'[t][i].table)
               PROVE  csBy' = t
    BY DEF OwnFlags
  <2>1. CASE i # Len(stack[t])
    BY <2>1, <1>2, <1>3 DEF Owns, OwnFlags
  <2>2. CASE i = Len(stack[t])
    <3>1. f.ptr \in Owned(Top(t).table)
      BY <2>2, <1>2
    <3>2. \/ Top(t).ptr \in Owned(Top(t).table)
          \/ Code[Top(t).table][Top(t).ptr].op \in {"compare", "test"}
      BY <3>1, <1>1, Flow DEF ComparesFirst
    <3>3. CASE Top(t).ptr \in Owned(Top(t).table)
      <4>1. csBy = t
        BY <3>3, <1>1 DEF Owns, OwnFlags
      <4> QED
        BY <4>1, <1>3
    <3>4. CASE Code[Top(t).table][Top(t).ptr].op \in {"compare", "test"}
      BY <3>4 DEF Instr
    <3> QED
      BY <3>2, <3>3, <3>4
  <2> QED
    BY <2>1, <2>2
<1>5. OwnModes(t)'
  <2> SUFFICES ASSUME NEW i \in DOMAIN stack'[t],
                      stack'[t][i].ptr = 1 /\ stack'[t][i].lastJump = 0
               PROVE  FALSE
    BY DEF OwnModes
  <2>1. i # Len(stack[t])
    BY <1>2
  <2> QED
    BY <2>1, <1>2 DEF Owns, OwnModes
<1> QED
  BY <1>4, <1>5, InsideOwns DEF Inside

(* The opcodes that fall through, an untaken branch and a switch without    *)
(* the case among them.                                                    *)
LEMMA FallsOwns ==
  ASSUME IInv, Owns, NEW t \in Threads, at[t] = "running",
         Instr(t).op \notin {"eot", "invalid"},
         Instr(t).op = "jump" => Branches(Instr(t)),
         stack' = SetTop(t, Step(t)),
         IF Instr(t).op \in {"compare", "test"} THEN csBy' = t ELSE csBy' = csBy,
         UNCHANGED at
  PROVE  Owns'
<1>1. /\ Step(t).table = Top(t).table /\ Step(t).ptr = Top(t).ptr + 1
      /\ Top(t).ptr \in Nat \ {0}
  BY StepOK, TopOK DEF Frames
<1>2. Step(t).ptr \in Leads(Top(t).table, Top(t).ptr)
  BY <1>1 DEF Leads, Instr
<1>3. Step(t).ptr # 1
  BY <1>1
<1> QED
  BY <1>1, <1>2, <1>3, OpcodeOwns

LEMMA JumpOwns ==
  ASSUME IInv, Owns, NEW t \in Threads, Jump(t) PROVE Owns'
<1>1. /\ at[t] = "running" /\ Instr(t).op = "jump" /\ csBy' = csBy /\ at' = at
  BY DEF Jump, Executes, gctx
<1>2. CASE ~Taken(Instr(t).cond)
  <2>1. Branches(Instr(t)) /\ stack' = SetTop(t, Step(t))
    BY <1>1, <1>2 DEF Jump, Taken, Branches
  <2> QED
    BY <1>1, <2>1, FallsOwns
<1>3. CASE Taken(Instr(t).cond)
  <2>1. PICK f : /\ stack' = SetTop(t, f) /\ f.table = Top(t).table
                 /\ f.ptr = Instr(t).target /\ f.lastJump = Instr(t).target
    <3> DEFINE again == Top(t).lastJump = Instr(t).target
               f == [Top(t) EXCEPT !.ptr = Instr(t).target,
                                   !.abort = again /\ Top(t).age > JmpTimeout,
                                   !.lastJump = Instr(t).target,
                                   !.age = IF again THEN @ ELSE 0]
    <3>1. stack' = SetTop(t, f)
      BY <1>3 DEF Jump
    <3>2. Top(t) \in Frames
      BY <1>1, TopOK
    <3>3. f.table = Top(t).table /\ f.ptr = Instr(t).target /\ f.lastJump = Instr(t).target
      BY <3>2 DEF Frames
    <3> QED
      BY <3>1, <3>3
  <2>2. Instr(t).target \in Leads(Top(t).table, Top(t).ptr)
    BY <1>1 DEF Leads, Instr
  <2>3. f.ptr # 1 \/ f.lastJump # 0
    BY <2>1
  <2> QED
    BY <1>1, <2>1, <2>2, <2>3, OpcodeOwns
<1> QED
  BY <1>2, <1>3

LEMMA SwitchOwns ==
  ASSUME IInv, Owns, NEW t \in Threads, Switch(t) PROVE Owns'
<1>1. /\ at[t] = "running" /\ Instr(t).op = "switch" /\ csBy' = csBy /\ at' = at
  BY DEF Switch, Executes, gctx
<1>2. PICK target \in Instr(t).cases \cup {Top(t).ptr + 1} :
        stack' = SetTop(t, [Top(t) EXCEPT !.ptr = target])
  BY DEF Switch
<1>3. /\ Top(t) \in Frames /\ Top(t).table \in Tables /\ Top(t).ptr \in Nat \ {0}
      /\ Top(t).ptr \in DOMAIN Code[Top(t).table]
  BY <1>1, TopOK DEF Frames
<1>4. target # 1
  <2>1. Instr(t).cases \subseteq DOMAIN Code[Top(t).table] \ {1}
    BY <1>1, <1>3, CodeAssumption DEF StaysInside, Instr
  <2> QED
    BY <1>3, <2>1
<1>5. target \in Leads(Top(t).table, Top(t).ptr)
  BY <1>1 DEF Leads, Instr
<1> DEFINE f == [Top(t) EXCEPT !.ptr = target]
<1>6. f.table = Top(t).table /\ f.ptr = target
  BY <1>3 DEF Frames
<1> HIDE DEF f
<1>7. stack' = SetTop(t, f)
  BY <1>2 DEF f
<1> QED
  BY <1>1, <1>4, <1>5, <1>6, <1>7, OpcodeOwns

LEMMA CallTableOwns ==
  ASSUME IInv, Owns, NEW t \in Threads, CallTable(t) PROVE Owns'
<1> DEFINE T == Instr(t).table
           s == stack[t]
           m == [s EXCEPT ![Len(s)] = Step(t)]
           f == Frame(T, Top(t).ps + Ps[Top(t).table])
<1>1. /\ at[t] = "running" /\ Instr(t).op = "calltable"
      /\ csBy' = csBy /\ mode' = mode /\ at' = at
  BY DEF CallTable, Executes, gctx
<1>2. CASE Code[T] = <<>>
  BY <1>1, <1>2, FallsOwns DEF CallTable
<1>3. CASE Code[T] # <<>>
  <2>1. /\ s \in Seq(Frames) /\ Len(s) \in Nat \ {0} /\ DOMAIN s = 1 .. Len(s)
        /\ Top(t).table \in Tables /\ Top(t).ptr \in DOMAIN Code[Top(t).table]
        /\ Top(t).ptr \in Nat \ {0} /\ Top(t) = s[Len(s)]
    <3>1. StackOK(s) /\ Top(t) \in Frames /\ Top(t) = s[Len(s)]
          /\ Top(t).table \in Tables /\ Top(t).ptr \in DOMAIN Code[Top(t).table]
      BY <1>1, TopOK
    <3>2. Len(s) \in Nat \ {0}
      BY <1>1, TopOK
    <3> HIDE DEF s
    <3> QED
      BY <3>1, <3>2 DEF StackOK, Frames
  <2>2. /\ Step(t) \in Frames /\ Step(t).table = Top(t).table
        /\ Step(t).ptr = Top(t).ptr + 1
    BY <1>1, StepOK
  <2>3. /\ m \in Seq(Frames) /\ Len(m) = Len(s) /\ m[Len(s)] = Step(t)
        /\ \A i \in 1 .. Len(s) : i # Len(s) => m[i] = s[i]
    BY <2>1, <2>2
  <2>4. T \in Tables /\ f.ptr = 1 /\ f.table = T
    BY <1>1, <2>1, CodeAssumption DEF StaysInside, Instr, Frame
  <2>5. stack'[t] = Append(m, f)
    BY <1>3 DEF CallTable, IInv, StacksOK
  <2> HIDE DEF m, f
  <2>6. /\ DOMAIN stack'[t] = 1 .. Len(s) + 1 /\ Len(stack'[t]) = Len(s) + 1
        /\ stack'[t][Len(s) + 1] = f
        /\ \A i \in 1 .. Len(s) : stack'[t][i] = m[i]
    BY <2>1, <2>3, <2>5
  <2>7. OwnFlags(t)'
    <3> SUFFICES ASSUME NEW i \in 1 .. Len(s) + 1,
                        stack'[t][i].ptr \in Owned(stack'[t][i].table)
                 PROVE  csBy = t
      BY <1>1, <2>6 DEF OwnFlags
    <3>1. CASE i = Len(s) + 1
      BY <3>1, <2>4, <2>6, Flow DEF ComparesFirst
    <3>2. CASE i = Len(s)
      <4>1. Top(t).ptr + 1 \in Owned(Top(t).table)
        BY <3>2, <2>1, <2>2, <2>3, <2>6
      <4>2. Top(t).ptr + 1 \in Leads(Top(t).table, Top(t).ptr)
        BY <1>1 DEF Leads, Instr
      <4>3. Top(t).ptr \in Owned(Top(t).table)
        BY <1>1, <4>1, <4>2, <2>1, Flow DEF ComparesFirst, Instr
      <4> QED
        BY <4>3, <1>1, <2>1 DEF Owns, OwnFlags
    <3>3. CASE i < Len(s)
      <4>1. stack'[t][i] = s[i] /\ i \in DOMAIN s
        BY <3>3, <2>1, <2>3, <2>6
      <4> QED
        BY <4>1, <1>1 DEF Owns, OwnFlags
    <3> QED
      BY <2>1, <3>1, <3>2, <3>3
  <2>8. OwnModes(t)'
    <3> SUFFICES ASSUME NEW i \in 1 .. Len(s) + 1,
                        stack'[t][i].ptr = 1 /\ stack'[t][i].lastJump = 0
                 PROVE  i = Len(s) + 1 /\ i # 1
      BY <1>1, <2>6 DEF OwnModes
    <3>1. CASE i = Len(s)
      BY <3>1, <2>1, <2>2, <2>3, <2>6
    <3>2. CASE i < Len(s)
      <4>1. stack'[t][i] = s[i] /\ i \in DOMAIN s
        BY <3>2, <2>1, <2>3, <2>6
      <4> QED
        BY <4>1, <3>2, <1>1, <2>1 DEF Owns, OwnModes
    <3> QED
      BY <2>1, <3>1, <3>2
  <2> QED
    BY <1>1, <2>7, <2>8, InsideOwns DEF Inside
<1> QED
  BY <1>2, <1>3

(* The pointers do not move with the time. *)
LEMMA SecondOwns ==
  ASSUME IInv, Owns, Second PROVE Owns'
<1> SUFFICES ASSUME NEW t \in Threads PROVE OwnFlags(t)' /\ OwnModes(t)'
  BY DEF Owns
<1>1. stack[t] \in Seq(Frames) /\ DOMAIN stack[t] = 1 .. Len(stack[t]) /\ Len(stack[t]) \in Nat
  BY DEF IInv, StacksOK, StackOK
<1>2. stack'[t] = [i \in 1 .. Len(stack[t]) |->
                     [stack[t][i] EXCEPT !.age = IF @ > JmpTimeout THEN @ ELSE @ + 1]]
  BY <1>1 DEF Second
<1>3. /\ DOMAIN stack'[t] = DOMAIN stack[t] /\ Len(stack'[t]) = Len(stack[t])
      /\ \A i \in DOMAIN stack[t] : /\ stack'[t][i].ptr = stack[t][i].ptr
                                    /\ stack'[t][i].table = stack[t][i].table
                                    /\ stack'[t][i].lastJump = stack[t][i].lastJump
  <2>1. \A i \in DOMAIN stack[t] : stack[t][i] \in Frames
    BY <1>1
  <2> QED
    BY <1>1, <1>2, <2>1 DEF Frames
<1> QED
  BY <1>3 DEF Second, gctx, Owns, OwnFlags, OwnModes

LEMMA NextOwns ==
  ASSUME IInv, Owns, [AtomNext]_atomVars PROVE Owns'
<1>1. ASSUME NEW t \in Threads, Enter(t) PROVE Owns'
  BY <1>1, OutsideOwns DEF Enter, Goto, gctx
<1>2. ASSUME NEW t \in Threads, Acquire(t) \/ AcquireTimesOut(t) \/ Release(t) PROVE Owns'
  BY <1>2, OutsideOwns DEF Acquire, AcquireTimesOut, Release, Goto, gctx
<1>3. ASSUME NEW t \in Threads, Interpret(t) PROVE Owns'
  <2>1. CASE Aborted(t) \/ Ends(t)
    BY <2>1, ReturnOwns DEF Aborted, Ends, Executes
  <2>2. CASE Data(t) \/ SetMode(t)
    BY <2>2, FallsOwns DEF Data, SetMode, Executes, gctx
  <2>3. CASE Compare(t)
    BY <2>3, FallsOwns DEF Compare, Executes
  <2> QED
    BY <1>3, <2>1, <2>2, <2>3, JumpOwns, SwitchOwns, CallTableOwns DEF Interpret
<1>4. CASE Second
  BY <1>4, SecondOwns
<1>5. CASE UNCHANGED atomVars
  BY <1>5 DEF atomVars, gctx, Owns, OwnFlags, OwnModes
<1> QED
  BY <1>1, <1>2, <1>3, <1>4, <1>5, StartOwns DEF AtomNext, Thread

(* The types; every work space is freed whichever way its table is left;    *)
(* no called table gets a parameter space that reaches into its callers';  *)
(* a branch never depends on another thread's comparison, and the outermost *)
(* table starts with the modes reset.                                      *)
THEOREM AtomInvAlways == AtomSpec => []AtomInv
<1>1. AtomInit => Owns
  BY DEF AtomInit, Owns, OwnFlags, OwnModes
<1>2. IInv /\ Owns /\ [AtomNext]_atomVars => Owns'
  BY NextOwns
<1>3. IInv /\ Owns => AtomInv
  <2> SUFFICES ASSUME IInv, Owns PROVE ParamsKept /\ OwnContext
    BY DEF IInv, AtomInv
  <2>1. \A t \in Threads : StackOK(stack[t])
    BY DEF IInv, StacksOK
  <2>2. ParamsKept
    BY <2>1 DEF ParamsKept, StackOK
  <2>3. ASSUME NEW t \in Threads, at[t] = "running", Branches(Instr(t)) PROVE csBy = t
    <3>1. Top(t).ptr \in Owned(Top(t).table)
      BY <2>3, TopOK, Flow DEF ComparesFirst, Instr
    <3> QED
      BY <2>3, <3>1, TopOK DEF Owns, OwnFlags
  <2>4. ASSUME NEW t \in Threads, at[t] = "running",
               Len(stack[t]) = 1 /\ Top(t).ptr = 1 /\ Top(t).lastJump = 0
        PROVE  mode.io = "MM" /\ mode.reg = 0 /\ mode.fb = 0
    BY <2>4, TopOK DEF Owns, OwnModes
  <2> QED
    BY <2>2, <2>3, <2>4 DEF OwnContext
<1> QED
  BY <1>1, <1>2, <1>3, Invariance, PTL DEF AtomSpec

(* A call returns B_ERROR exactly when an abort was raised in one of its    *)
(* tables, at any depth, or the table asked for does not exist.            *)
THEOREM FaultReachesCallerAlways == AtomSpec => []FaultReachesCaller
<1>1. IInv => FaultReachesCaller
  BY DEF IInv, CallsOK, CallOK, FaultReachesCaller
<1> QED
  BY <1>1, Invariance, PTL

-----------------------------------------------------------------------------
(* The memory controller.  The argument goes along a procedure: for each of *)
(* its register accesses MInv says what the registers are like when it is    *)
(* the next one.  A loop over the CRTCs takes them one after the other from  *)
(* a stage to the next (Screens), so that an access is compared with one     *)
(* CRTC only; where the driver does not reach a card's registers they stay   *)
(* as they were.                                                           *)

(* The accesses there are.  "no lock" and "no surface" name the addresses of *)
(* other chips, where the card has no register.                            *)
RegNames ==
  {"avivo", "evergreen", "vga", "surface", "no surface", "lock", "no lock",
   "render", "hdp", "location", "cp", "engine reset", "cp reset"}

Accesses ==
  [op : {"write"}, reg : RegNames \X Nat, value : {0, 1}]
    \cup [op : {"restore"}, reg : RegNames \X Nat] \cup [op : {"save", "wait"}]

(* A sequence without its first k elements. *)
From(s, k) == SubSeq(s, k + 1, Len(s))

(* What is still to be done in radeon_gpu_mc_halt() when rest follows it,   *)
(* from its last loop to its first.                                        *)
OffVga(rest)    == Each(VgaOff) \o rest
OffUnlock(rest) == Each(Unlock) \o OffVga(rest)
OffStop(rest)   == Each(StopCrtc) \o OffUnlock(rest)
OffLock(rest)   == Each(Lock) \o OffStop(rest)
OffRender(rest) == <<W(Render, 0)>> \o OffLock(rest)
Off(rest)       == <<Save>> \o OffRender(rest)

(* The same of radeon_gpu_mc_resume(). *)
OnRender(rest) == <<Back(Render)>> \o rest
OnUnlock(rest) == Each(Unlock) \o OnRender(rest)
OnStart(rest)  == Each(StartCrtc) \o OnUnlock(rest)
OnLock(rest)   == Each(Lock) \o OnStart(rest)
OnVga(rest)    == Each(VgaBack) \o OnLock(rest)
OnHdp(rest)    == <<Back(Hdp)>> \o OnVga(rest)
On(rest)       == Each(Show) \o OnHdp(rest)

(* Between the two, when the memory moves and when the engine is reset. *)
RenderOff        == <<W(Render, 0)>>
MoveWait    == <<Wait>> \o On(RenderOff)
Move        == <<W(Location, 1)>> \o MoveWait
MoveHdp     == <<W(Hdp, 0)>> \o Move
MoveRest    == <<Wait>> \o (IF mcCard.chip = "r600" THEN Move ELSE MoveHdp)

CpReset      == <<"cp reset", 0>>
EngineReset  == <<"engine reset", 0>>
CpDown       == <<W(CpReset, 0)>> \o On(<<>>)
CpUp         == <<W(CpReset, 1)>> \o CpDown
CpRest       == IF mcCard.chip = "evergreen" THEN On(<<>>) ELSE CpUp
EngineDown   == <<W(EngineReset, 0)>> \o CpRest
EngineUp     == <<W(EngineReset, 1)>> \o EngineDown
EngineRest(busy) == IF mcCard.chip = "evergreen" \/ busy THEN EngineUp ELSE CpRest
CpHalt(busy)    == <<W(<<"cp", 0>>, 0)>> \o EngineRest(busy)
ResetRest(busy) == <<Wait>> \o CpHalt(busy)

Middles == {MoveRest} \cup {ResetRest(busy) : busy \in BOOLEAN}
Afterwards    == {RenderOff, <<>>}

(* What a CRTC is like: its control, its lock and what waits behind it. *)
Status(n) == <<reg[Control(n)], reg[<<"lock", n>>], waiting[n]>>

Expected(n, stage) ==
  CASE stage = "as it was" -> <<initial[Control(n)], 0, -1>>
    [] stage = "locked"    -> <<initial[Control(n)], 1, -1>>
    [] stage = "stopping"  -> <<initial[Control(n)], 1, 0>>
    [] stage = "stopped"   -> <<0, 0, -1>>
    [] stage = "relocked"  -> <<0, 1, -1>>
    [] stage = "starting"  -> <<0, 1, initial[Control(n)]>>

(* The first k CRTCs are a stage further than the others.  Those that the   *)
(* driver does not reach are as they were.                                 *)
Screens(k, further, stage) ==
  \A n \in CrtcsOf(mcCard) :
    Status(n) = Expected(n, IF ~Reaches THEN "as it was" ELSE IF n < k THEN further ELSE stage)

(* VGA is off on the CRTCs from low to high - 1. *)
VgaOffOn(low, high) ==
  \A n \in CrtcsOf(mcCard) :
    reg[VgaControl(n)] = IF low <= n /\ n < high THEN 0 ELSE initial[VgaControl(n)]

M == Len(Knows)

(* The first k look for their picture where the memory is. *)
ShownTo(k)  == Reaches => \A n \in CrtcsOf(mcCard) : n < k => reg[Surface(n)] = 1
ShownRight == reg[Location] = 1 => ShownTo(M)

NoReset == reg[EngineReset] = 0 /\ reg[CpReset] = 0
HostBack == reg[Hdp] = initial[Hdp]
Saved == before = initial

(* What is so until the memory moves, and while the pictures are off. *)
Unmoved == HostBack /\ NoReset /\ ShownRight
Quiet   == reg[Render] = 0 /\ Saved
Lit     == Screens(0, "as it was", "as it was") /\ VgaOffOn(0, 0)
Stopped == Quiet /\ Screens(0, "stopped", "stopped") /\ VgaOffOn(0, M)

(* What holds at each access of radeon_gpu_mc_halt(); k of a loop's CRTCs   *)
(* are done.                                                               *)
HaltSave(rest)   == mcTodo = Off(rest) /\ Unmoved /\ Lit /\ reg = initial
HaltRender(rest) == mcTodo = OffRender(rest) /\ Unmoved /\ Lit /\ Saved
HaltLock(rest, k) ==
  /\ mcTodo = From(Each(Lock), k) \o OffStop(rest)
  /\ Unmoved /\ Quiet /\ Screens(k, "locked", "as it was") /\ VgaOffOn(0, 0)
HaltStop(rest, k) ==
  /\ mcTodo = From(Each(StopCrtc), k) \o OffUnlock(rest)
  /\ Unmoved /\ Quiet /\ Screens(k, "stopping", "locked") /\ VgaOffOn(0, 0)
HaltUnlock(rest, k) ==
  /\ mcTodo = From(Each(Unlock), k) \o OffVga(rest)
  /\ Unmoved /\ Quiet /\ Screens(k, "stopped", "stopping") /\ VgaOffOn(0, 0)
HaltVga(rest, k) ==
  /\ mcTodo = From(Each(VgaOff), k) \o rest
  /\ Unmoved /\ Quiet /\ Screens(0, "stopped", "stopped") /\ VgaOffOn(0, k)

Halting ==
  \E rest \in Middles :
    \/ HaltSave(rest) \/ HaltRender(rest)
    \/ \E k \in 0 .. M - 1 : \/ HaltLock(rest, k) \/ HaltStop(rest, k)
                             \/ HaltUnlock(rest, k) \/ HaltVga(rest, k)

(* Between halt and resume. *)
AtMoveRest == mcTodo = MoveRest /\ Stopped /\ Unmoved
AtMoveHdp  == mcTodo = MoveHdp /\ Stopped /\ NoReset /\ idle
AtMove     == mcTodo = Move /\ Stopped /\ NoReset /\ idle /\ (mcCard.chip # "r600" => reg[Hdp] = 0)
AtMoveWait == mcTodo = MoveWait /\ Stopped /\ NoReset

Moving == AtMoveRest \/ AtMoveHdp \/ AtMove \/ AtMoveWait

AtReset      == Stopped /\ HostBack /\ ShownRight
AtEngineDown == mcTodo = EngineDown /\ AtReset /\ reg[CpReset] = 0
AtCpDown     == mcTodo = CpDown /\ AtReset /\ reg[EngineReset] = 0

Resetting ==
  \/ AtReset /\ NoReset /\ \E busy \in BOOLEAN : mcTodo = ResetRest(busy) \/ mcTodo = CpHalt(busy)
  \/ AtReset /\ NoReset /\ (mcTodo = EngineUp \/ mcTodo = CpUp)
  \/ AtEngineDown \/ AtCpDown

(* What holds at each access of radeon_gpu_mc_resume(). *)
ResumeShow(rest, k) ==
  mcTodo = From(Each(Show), k) \o OnHdp(rest) /\ Stopped /\ NoReset /\ ShownTo(k)
ResumeHdp(rest) == mcTodo = OnHdp(rest) /\ Stopped /\ NoReset /\ ShownTo(M)
ResumeVga(rest, k) ==
  /\ mcTodo = From(Each(VgaBack), k) \o OnLock(rest)
  /\ Quiet /\ NoReset /\ ShownTo(M) /\ HostBack /\ Screens(0, "stopped", "stopped") /\ VgaOffOn(k, M)
ResumeLock(rest, k) ==
  /\ mcTodo = From(Each(Lock), k) \o OnStart(rest)
  /\ Quiet /\ NoReset /\ ShownTo(M) /\ HostBack /\ Screens(k, "relocked", "stopped") /\ VgaOffOn(0, 0)
ResumeStart(rest, k) ==
  /\ mcTodo = From(Each(StartCrtc), k) \o OnUnlock(rest)
  /\ Quiet /\ NoReset /\ ShownTo(M) /\ HostBack /\ Screens(k, "starting", "relocked") /\ VgaOffOn(0, 0)
ResumeUnlock(rest, k) ==
  /\ mcTodo = From(Each(Unlock), k) \o OnRender(rest)
  /\ Quiet /\ NoReset /\ ShownTo(M) /\ HostBack /\ Screens(k, "as it was", "starting") /\ VgaOffOn(0, 0)
ResumeRender(rest) == mcTodo = OnRender(rest) /\ Lit /\ NoReset /\ ShownTo(M) /\ HostBack

Resuming ==
  \E rest \in Afterwards :
    \/ ResumeHdp(rest) \/ ResumeRender(rest)
    \/ \E k \in 0 .. M - 1 : \/ ResumeShow(rest, k) \/ ResumeVga(rest, k) \/ ResumeLock(rest, k)
                             \/ ResumeStart(rest, k) \/ ResumeUnlock(rest, k)

Resumed == mcTodo \in Afterwards /\ Lit /\ Unmoved

Steps == Halting \/ Moving \/ Resetting \/ Resuming \/ Resumed

(* The types, and where the procedure is. *)
Typed ==
  /\ MemoryTypeOK /\ mcTodo \in Seq(Accesses)
  /\ initial \in [Registers(mcCard) -> {0, 1}] /\ before \in [Registers(mcCard) -> {0, 1}]

MInv == Typed /\ Steps

-----------------------------------------------------------------------------
(* The first access of a sequence that is partly done. *)
LEMMA FromStep ==
  ASSUME NEW S, NEW s \in Seq(S), NEW rest \in Seq(S), NEW k \in 0 .. Len(s) - 1
  PROVE  /\ From(s, k) \o rest # <<>>
         /\ Head(From(s, k) \o rest) = s[k + 1]
         /\ Tail(From(s, k) \o rest) = From(s, k + 1) \o rest
<1>1. Len(s) \in Nat /\ \A i \in 1 .. Len(s) : s[i] \in S
  BY ElementOfSeq, LenProperties
<1>2. /\ From(s, k) \in Seq(S) /\ Len(From(s, k)) = Len(s) - k
      /\ \A i \in 1 .. Len(s) - k : From(s, k)[i] = s[k + i]
  <2>1. \A i \in k + 1 .. Len(s) : s[i] \in S
    BY <1>1
  <2>2. /\ SubSeq(s, k + 1, Len(s)) \in Seq(S)
        /\ Len(SubSeq(s, k + 1, Len(s))) = IF k + 1 <= Len(s) THEN Len(s) - (k + 1) + 1 ELSE 0
        /\ \A i \in 1 .. Len(s) - (k + 1) + 1 : SubSeq(s, k + 1, Len(s))[i] = s[k + 1 + i - 1]
    BY <1>1, <2>1, SubSeqProperties, k + 1 \in Int, Len(s) \in Int
  <2> QED
    BY <1>1, <2>2 DEF From
<1>3. /\ From(s, k + 1) \in Seq(S) /\ Len(From(s, k + 1)) = Len(s) - k - 1
      /\ \A i \in 1 .. Len(s) - k - 1 : From(s, k + 1)[i] = s[k + 1 + i]
  <2>1. \A i \in k + 2 .. Len(s) : s[i] \in S
    BY <1>1
  <2>2. /\ SubSeq(s, k + 2, Len(s)) \in Seq(S)
        /\ Len(SubSeq(s, k + 2, Len(s))) = IF k + 2 <= Len(s) THEN Len(s) - (k + 2) + 1 ELSE 0
        /\ \A i \in 1 .. Len(s) - (k + 2) + 1 : SubSeq(s, k + 2, Len(s))[i] = s[k + 2 + i - 1]
    BY <1>1, <2>1, SubSeqProperties, k + 2 \in Int, Len(s) \in Int
  <2>3. k + 1 + 1 = k + 2
    OBVIOUS
  <2> QED
    BY <1>1, <2>2, <2>3 DEF From
<1> DEFINE a == From(s, k) \o rest
           b == From(s, k + 1) \o rest
<1>4. Len(rest) \in Nat
  OBVIOUS
<1> DEFINE u == From(s, k)
           v == From(s, k + 1)
<1> HIDE DEF u, v
<1>5. a \in Seq(S) /\ Len(a) = Len(s) - k + Len(rest)
      /\ \A i \in 1 .. Len(s) - k + Len(rest) :
           a[i] = IF i <= Len(s) - k THEN From(s, k)[i] ELSE rest[i - (Len(s) - k)]
  <2>1. u \in Seq(S) /\ Len(u) = Len(s) - k
    BY <1>2 DEF u
  <2>2. /\ u \o rest \in Seq(S) /\ Len(u \o rest) = Len(u) + Len(rest)
        /\ \A i \in 1 .. Len(u) + Len(rest) :
             (u \o rest)[i] = IF i <= Len(u) THEN u[i] ELSE rest[i - Len(u)]
    BY <2>1, ConcatProperties
  <2>3. a = u \o rest
    BY DEF u
  <2> HIDE DEF a
  <2> QED
    BY <2>1, <2>2, <2>3 DEF u
<1>6. b \in Seq(S) /\ Len(b) = Len(s) - k - 1 + Len(rest)
      /\ \A i \in 1 .. Len(s) - k - 1 + Len(rest) :
           b[i] = IF i <= Len(s) - k - 1 THEN From(s, k + 1)[i] ELSE rest[i - (Len(s) - k - 1)]
  <2>1. v \in Seq(S) /\ Len(v) = Len(s) - k - 1
    BY <1>3 DEF v
  <2>2. /\ v \o rest \in Seq(S) /\ Len(v \o rest) = Len(v) + Len(rest)
        /\ \A i \in 1 .. Len(v) + Len(rest) :
             (v \o rest)[i] = IF i <= Len(v) THEN v[i] ELSE rest[i - Len(v)]
    BY <2>1, ConcatProperties
  <2>3. b = v \o rest
    BY DEF v
  <2> HIDE DEF b
  <2> QED
    BY <2>1, <2>2, <2>3 DEF v
<1> HIDE DEF a, b
<1>7. a # <<>>
  BY <1>1, <1>4, <1>5
<1>8. Head(a) = s[k + 1]
  <2>1. Head(a) = a[1] /\ a[1] = From(s, k)[1]
    BY <1>1, <1>4, <1>5, <1>7
  <2> QED
    BY <1>1, <1>2, <2>1
<1>9. Tail(a) = b
  <2>1. Tail(a) \in Seq(S) /\ Len(Tail(a)) = Len(b)
        /\ \A i \in 1 .. Len(b) : Tail(a)[i] = a[i + 1]
    BY <1>1, <1>4, <1>5, <1>6, <1>7, HeadTailProperties
  <2>2. \A i \in 1 .. Len(b) : a[i + 1] = b[i]
    <3> TAKE i \in 1 .. Len(b)
    <3>1. i + 1 \in 1 .. Len(s) - k + Len(rest)
      BY <1>1, <1>4, <1>6
    <3>2. CASE i <= Len(s) - k - 1
      <4>1. a[i + 1] = From(s, k)[i + 1] /\ b[i] = From(s, k + 1)[i]
        BY <1>1, <1>4, <1>5, <1>6, <3>1, <3>2
      <4>2. From(s, k)[i + 1] = s[k + (i + 1)] /\ From(s, k + 1)[i] = s[k + 1 + i]
        <5>1. i + 1 \in 1 .. Len(s) - k /\ i \in 1 .. Len(s) - k - 1
          BY <1>1, <1>4, <1>6, <3>2
        <5> QED
          BY <1>2, <1>3, <5>1
      <4> QED
        BY <4>1, <4>2, k + (i + 1) = k + 1 + i
    <3>3. CASE ~(i <= Len(s) - k - 1)
      <4>1. a[i + 1] = rest[i + 1 - (Len(s) - k)] /\ b[i] = rest[i - (Len(s) - k - 1)]
        BY <1>1, <1>4, <1>5, <1>6, <3>1, <3>3
      <4>2. i + 1 - (Len(s) - k) = i - (Len(s) - k - 1)
        BY <1>1
      <4> QED
        BY <4>1, <4>2
    <3> QED
      BY <3>2, <3>3
  <2> QED
    BY <1>6, <2>1, <2>2, SeqEqual
<1> QED
  BY <1>7, <1>8, <1>9 DEF a, b

(* A sequence of which nothing, and one of which all is done. *)
LEMMA FromEnds ==
  ASSUME NEW S, NEW s \in Seq(S), NEW rest \in Seq(S)
  PROVE  From(s, 0) = s /\ From(s, Len(s)) \o rest = rest
<1>1. Len(s) \in Nat
  OBVIOUS
<1>2. SubSeq(s, 1, Len(s)) = s
  BY SubSeqFull
<1>3. SubSeq(s, Len(s) + 1, Len(s)) = <<>>
  BY <1>1, SubSeqEmpty, Len(s) + 1 \in Int, Len(s) \in Int, Len(s) < Len(s) + 1
<1>4. <<>> \o rest = rest
  BY ConcatEmptySeq
<1> QED
  BY <1>2, <1>3, <1>4, 0 + 1 = 1 DEF From

(* A single access before others. *)
LEMMA OneStep ==
  ASSUME NEW S, NEW x \in S, NEW rest \in Seq(S)
  PROVE  /\ <<x>> \o rest \in Seq(S) /\ <<x>> \o rest # <<>>
         /\ Head(<<x>> \o rest) = x /\ Tail(<<x>> \o rest) = rest
<1>1. <<x>> \in Seq(S) /\ Len(<<x>>) = 1 /\ <<x>>[1] = x
  OBVIOUS
<1>2. /\ From(<<x>>, 0) \o rest # <<>>
      /\ Head(From(<<x>>, 0) \o rest) = <<x>>[0 + 1]
      /\ Tail(From(<<x>>, 0) \o rest) = From(<<x>>, 0 + 1) \o rest
  <2>1. 0 \in 0 .. Len(<<x>>) - 1
    BY <1>1
  <2> QED
    BY <1>1, <2>1, FromStep
<1>3. From(<<x>>, 0) = <<x>> /\ From(<<x>>, Len(<<x>>)) \o rest = rest
  BY <1>1, FromEnds
<1>4. <<x>> \o rest \in Seq(S)
  BY <1>1, ConcatProperties
<1> QED
  BY <1>1, <1>2, <1>3, <1>4, 0 + 1 = 1

-----------------------------------------------------------------------------
(* What the procedures are made of. *)

(* The CRTCs the driver knows are the first ones; where it reaches their    *)
(* registers it knows them all.                                            *)
LEMMA KnowsFirst ==
  ASSUME mcCard \in McCards
  PROVE  /\ M \in Nat /\ M >= 2 /\ \A k \in 0 .. M - 1 : Knows[k + 1] = k /\ k \in CrtcsOf(mcCard)
         /\ CrtcsOf(mcCard) \subseteq Nat
         /\ Reaches => CrtcsOf(mcCard) = 0 .. M - 1
         /\ Writes \in RegNames /\ Family(mcCard) \in RegNames
<1>1. EvergreenCrtcs \in Nat /\ EvergreenCrtcs >= 2
  BY CrtcAssumption
<1>2. CASE mcCard.driver = "drm"
  <2>1. Knows = [n \in 1 .. EvergreenCrtcs |-> n - 1] /\ mcCard.chip = "evergreen"
    BY <1>2 DEF Knows, McCards
  <2>2. M = EvergreenCrtcs
    BY <1>1, <2>1 DEF M
  <2>3. CrtcsOf(mcCard) = 0 .. EvergreenCrtcs - 1
    BY <2>1 DEF CrtcsOf
  <2>4. Writes \in RegNames /\ Family(mcCard) \in RegNames
    BY DEF Writes, Family, RegNames
  <2> QED
    BY <1>1, <2>1, <2>2, <2>3, <2>4
<1>3. CASE mcCard.driver # "drm"
  <2>1. Knows = <<0, 1>>
    BY <1>3 DEF Knows
  <2>2. M = 2 /\ Knows[1] = 0 /\ Knows[2] = 1
    BY <2>1 DEF M
  <2>3. 0 \in CrtcsOf(mcCard) /\ 1 \in CrtcsOf(mcCard) /\ CrtcsOf(mcCard) \subseteq Nat
    BY <1>1 DEF CrtcsOf
  <2>4. Reaches => CrtcsOf(mcCard) = 0 .. 1
    BY <1>3 DEF Reaches, Writes, Family, CrtcsOf
  <2>5. Writes \in RegNames /\ Family(mcCard) \in RegNames
    BY DEF Writes, Family, RegNames
  <2> QED
    BY <2>2, <2>3, <2>4, <2>5
<1> QED
  BY <1>2, <1>3

(* A loop over the CRTCs has an access of each. *)
LEMMA EachIs ==
  ASSUME mcCard \in McCards
  PROVE  /\ /\ Each(Lock) \in Seq(Accesses) /\ Len(Each(Lock)) = M
            /\ \A k \in 0 .. M - 1 : Each(Lock)[k + 1] = Lock(k)
         /\ /\ Each(Unlock) \in Seq(Accesses) /\ Len(Each(Unlock)) = M
            /\ \A k \in 0 .. M - 1 : Each(Unlock)[k + 1] = Unlock(k)
         /\ /\ Each(StopCrtc) \in Seq(Accesses) /\ Len(Each(StopCrtc)) = M
            /\ \A k \in 0 .. M - 1 : Each(StopCrtc)[k + 1] = StopCrtc(k)
         /\ /\ Each(StartCrtc) \in Seq(Accesses) /\ Len(Each(StartCrtc)) = M
            /\ \A k \in 0 .. M - 1 : Each(StartCrtc)[k + 1] = StartCrtc(k)
         /\ /\ Each(VgaOff) \in Seq(Accesses) /\ Len(Each(VgaOff)) = M
            /\ \A k \in 0 .. M - 1 : Each(VgaOff)[k + 1] = VgaOff(k)
         /\ /\ Each(VgaBack) \in Seq(Accesses) /\ Len(Each(VgaBack)) = M
            /\ \A k \in 0 .. M - 1 : Each(VgaBack)[k + 1] = VgaBack(k)
         /\ /\ Each(Show) \in Seq(Accesses) /\ Len(Each(Show)) = M
            /\ \A k \in 0 .. M - 1 : Each(Show)[k + 1] = Show(k)
<1>1. M \in Nat /\ (\A k \in 0 .. M - 1 : Knows[k + 1] = k) /\ Writes \in RegNames
  BY KnowsFirst
<1>2. \A j \in 1 .. M : Knows[j] \in Nat
  <2> TAKE j \in 1 .. M
  <2>1. j - 1 \in 0 .. M - 1 /\ j - 1 + 1 = j
    BY <1>1
  <2> QED
    BY <1>1, <2>1
<1>3. M = Len(Knows)
  BY DEF M
<1>4. \A n \in Nat : /\ Lock(n) \in Accesses /\ Unlock(n) \in Accesses /\ StopCrtc(n) \in Accesses
                     /\ StartCrtc(n) \in Accesses /\ VgaOff(n) \in Accesses
                     /\ VgaBack(n) \in Accesses /\ Show(n) \in Accesses
  <2> TAKE n \in Nat
  <2>1. LockReg(n) \in RegNames \X Nat /\ CrtcReg(n) \in RegNames \X Nat
        /\ SurfReg(n) \in RegNames \X Nat /\ VgaControl(n) \in RegNames \X Nat
    BY <1>1 DEF LockReg, CrtcReg, SurfReg, VgaControl, RegNames
  <2>2. \A r \in RegNames \X Nat : W(r, 0) \in Accesses /\ W(r, 1) \in Accesses /\ Back(r) \in Accesses
    BY DEF W, Back, Accesses
  <2> QED
    BY <2>1, <2>2 DEF Lock, Unlock, StopCrtc, StartCrtc, VgaOff, VgaBack, Show
<1>5. Each(Lock) \in Seq(Accesses) /\ Len(Each(Lock)) = M /\ \A k \in 0 .. M - 1 : Each(Lock)[k + 1] = Lock(k)
  BY <1>1, <1>2, <1>3, <1>4 DEF Each
<1>6. Each(Unlock) \in Seq(Accesses) /\ Len(Each(Unlock)) = M
      /\ \A k \in 0 .. M - 1 : Each(Unlock)[k + 1] = Unlock(k)
  BY <1>1, <1>2, <1>3, <1>4 DEF Each
<1>7. Each(StopCrtc) \in Seq(Accesses) /\ Len(Each(StopCrtc)) = M
      /\ \A k \in 0 .. M - 1 : Each(StopCrtc)[k + 1] = StopCrtc(k)
  BY <1>1, <1>2, <1>3, <1>4 DEF Each
<1>8. Each(StartCrtc) \in Seq(Accesses) /\ Len(Each(StartCrtc)) = M
      /\ \A k \in 0 .. M - 1 : Each(StartCrtc)[k + 1] = StartCrtc(k)
  BY <1>1, <1>2, <1>3, <1>4 DEF Each
<1>9. Each(VgaOff) \in Seq(Accesses) /\ Len(Each(VgaOff)) = M
      /\ \A k \in 0 .. M - 1 : Each(VgaOff)[k + 1] = VgaOff(k)
  BY <1>1, <1>2, <1>3, <1>4 DEF Each
<1>10. Each(VgaBack) \in Seq(Accesses) /\ Len(Each(VgaBack)) = M
      /\ \A k \in 0 .. M - 1 : Each(VgaBack)[k + 1] = VgaBack(k)
  BY <1>1, <1>2, <1>3, <1>4 DEF Each
<1>11. Each(Show) \in Seq(Accesses) /\ Len(Each(Show)) = M
      /\ \A k \in 0 .. M - 1 : Each(Show)[k + 1] = Show(k)
  BY <1>1, <1>2, <1>3, <1>4 DEF Each
<1> QED
  BY <1>5, <1>6, <1>7, <1>8, <1>9, <1>10, <1>11

(* Procedures, whole or in part, are sequences of accesses. *)
LEMMA OffIsSeq ==
  ASSUME mcCard \in McCards, NEW rest \in Seq(Accesses)
  PROVE  /\ OffVga(rest) \in Seq(Accesses) /\ OffUnlock(rest) \in Seq(Accesses)
         /\ OffStop(rest) \in Seq(Accesses) /\ OffLock(rest) \in Seq(Accesses)
         /\ OffRender(rest) \in Seq(Accesses) /\ Off(rest) \in Seq(Accesses)
<1>1. OffVga(rest) \in Seq(Accesses)
  BY EachIs, ConcatProperties DEF OffVga
<1>2. OffUnlock(rest) \in Seq(Accesses)
  BY <1>1, EachIs, ConcatProperties DEF OffUnlock
<1>3. OffStop(rest) \in Seq(Accesses)
  BY <1>2, EachIs, ConcatProperties DEF OffStop
<1>4. OffLock(rest) \in Seq(Accesses)
  BY <1>3, EachIs, ConcatProperties DEF OffLock
<1>5. W(Render, 0) \in Accesses /\ Save \in Accesses
  BY DEF W, Render, Save, Accesses, RegNames
<1>6. OffRender(rest) \in Seq(Accesses)
  BY <1>4, <1>5, OneStep DEF OffRender
<1>7. Off(rest) \in Seq(Accesses)
  BY <1>6, <1>5, OneStep DEF Off
<1> QED
  BY <1>1, <1>2, <1>3, <1>4, <1>6, <1>7

(* The same of what is resumed. *)
LEMMA OnIsSeq ==
  ASSUME mcCard \in McCards, NEW rest \in Seq(Accesses)
  PROVE  /\ OnRender(rest) \in Seq(Accesses) /\ OnUnlock(rest) \in Seq(Accesses)
         /\ OnStart(rest) \in Seq(Accesses) /\ OnLock(rest) \in Seq(Accesses)
         /\ OnVga(rest) \in Seq(Accesses) /\ OnHdp(rest) \in Seq(Accesses)
         /\ On(rest) \in Seq(Accesses)
<1>1. Back(Render) \in Accesses /\ Back(Hdp) \in Accesses
  BY DEF Back, Render, Hdp, Accesses, RegNames
<1>2. OnRender(rest) \in Seq(Accesses)
  BY <1>1, OneStep DEF OnRender
<1>3. OnUnlock(rest) \in Seq(Accesses)
  BY <1>2, EachIs, ConcatProperties DEF OnUnlock
<1>4. OnStart(rest) \in Seq(Accesses)
  BY <1>3, EachIs, ConcatProperties DEF OnStart
<1>5. OnLock(rest) \in Seq(Accesses)
  BY <1>4, EachIs, ConcatProperties DEF OnLock
<1>6. OnVga(rest) \in Seq(Accesses)
  BY <1>5, EachIs, ConcatProperties DEF OnVga
<1>7. OnHdp(rest) \in Seq(Accesses)
  BY <1>6, <1>1, OneStep DEF OnHdp
<1>8. On(rest) \in Seq(Accesses)
  BY <1>7, EachIs, ConcatProperties DEF On
<1> QED
  BY <1>2, <1>3, <1>4, <1>5, <1>6, <1>7, <1>8

(* The same of what is between the two. *)
LEMMA MiddleIsSeq ==
  ASSUME mcCard \in McCards
  PROVE  /\ RenderOff \in Seq(Accesses) /\ <<>> \in Seq(Accesses)
         /\ MoveWait \in Seq(Accesses) /\ Move \in Seq(Accesses) /\ MoveHdp \in Seq(Accesses)
         /\ MoveRest \in Seq(Accesses)
         /\ CpDown \in Seq(Accesses) /\ CpUp \in Seq(Accesses) /\ CpRest \in Seq(Accesses)
         /\ EngineDown \in Seq(Accesses) /\ EngineUp \in Seq(Accesses)
         /\ \A busy \in BOOLEAN : /\ EngineRest(busy) \in Seq(Accesses)
                                  /\ CpHalt(busy) \in Seq(Accesses)
                                  /\ ResetRest(busy) \in Seq(Accesses)
<1>1. /\ Wait \in Accesses /\ W(Render, 0) \in Accesses /\ W(Location, 1) \in Accesses
      /\ W(Hdp, 0) \in Accesses /\ W(CpReset, 0) \in Accesses /\ W(CpReset, 1) \in Accesses
      /\ W(EngineReset, 0) \in Accesses /\ W(EngineReset, 1) \in Accesses
      /\ W(<<"cp", 0>>, 0) \in Accesses
  BY DEF W, Wait, Render, Location, Hdp, CpReset, EngineReset, Accesses, RegNames
<1>2. RenderOff \in Seq(Accesses) /\ <<>> \in Seq(Accesses)
  BY <1>1 DEF RenderOff
<1>3. MoveWait \in Seq(Accesses)
  BY <1>1, <1>2, OnIsSeq, OneStep DEF MoveWait
<1>4. Move \in Seq(Accesses)
  BY <1>1, <1>3, OneStep DEF Move
<1>5. MoveHdp \in Seq(Accesses)
  BY <1>1, <1>4, OneStep DEF MoveHdp
<1>6. MoveRest \in Seq(Accesses)
  BY <1>1, <1>4, <1>5, OneStep DEF MoveRest
<1>7. CpDown \in Seq(Accesses)
  BY <1>1, <1>2, OnIsSeq, OneStep DEF CpDown
<1>8. CpUp \in Seq(Accesses)
  BY <1>1, <1>7, OneStep DEF CpUp
<1>9. CpRest \in Seq(Accesses)
  BY <1>2, <1>8, OnIsSeq DEF CpRest
<1>10. EngineDown \in Seq(Accesses)
  BY <1>1, <1>9, OneStep DEF EngineDown
<1>11. EngineUp \in Seq(Accesses)
  BY <1>1, <1>10, OneStep DEF EngineUp
<1>12. ASSUME NEW busy \in BOOLEAN
       PROVE  /\ EngineRest(busy) \in Seq(Accesses) /\ CpHalt(busy) \in Seq(Accesses)
              /\ ResetRest(busy) \in Seq(Accesses)
  <2>1. EngineRest(busy) \in Seq(Accesses)
    BY <1>9, <1>11 DEF EngineRest
  <2>2. CpHalt(busy) \in Seq(Accesses)
    BY <1>1, <2>1, OneStep DEF CpHalt
  <2>3. ResetRest(busy) \in Seq(Accesses)
    BY <1>1, <2>2, OneStep DEF ResetRest
  <2> QED
    BY <2>1, <2>2, <2>3
<1> QED
  BY <1>2, <1>3, <1>4, <1>5, <1>6, <1>7, <1>8, <1>9, <1>10, <1>11, <1>12

(* The accesses that are no loop over the CRTCs. *)
LEMMA SingleAccesses ==
  /\ Save \in Accesses /\ Wait \in Accesses
  /\ W(Render, 0) \in Accesses /\ Back(Render) \in Accesses
  /\ W(Hdp, 0) \in Accesses /\ Back(Hdp) \in Accesses
  /\ W(Location, 1) \in Accesses /\ W(<<"cp", 0>>, 0) \in Accesses
  /\ W(EngineReset, 0) \in Accesses /\ W(EngineReset, 1) \in Accesses
  /\ W(CpReset, 0) \in Accesses /\ W(CpReset, 1) \in Accesses
BY DEF W, Back, Save, Wait, Render, Location, Hdp, CpReset, EngineReset, Accesses, RegNames

(* Sequences of one access and of two. *)
LEMMA SingleIsSeq ==
  ASSUME NEW S, NEW x \in S
  PROVE  <<x>> \in Seq(S)
OBVIOUS

(* Two accesses are one after the other. *)
LEMMA TwoIsSeq ==
  ASSUME NEW S, NEW x \in S, NEW y \in S
  PROVE  <<x, y>> \in Seq(S) /\ <<x, y>> = <<x>> \o <<y>>
<1>1. <<x, y>> \in Seq(S) /\ <<x>> \in Seq(S) /\ <<y>> \in Seq(S)
  OBVIOUS
<1>2. /\ Len(<<x, y>>) = 2 /\ <<x, y>>[1] = x /\ <<x, y>>[2] = y
      /\ Len(<<x>>) = 1 /\ <<x>>[1] = x /\ Len(<<y>>) = 1 /\ <<y>>[1] = y
  OBVIOUS
<1>3. /\ <<x>> \o <<y>> \in Seq(S) /\ Len(<<x>> \o <<y>>) = 2
      /\ (<<x>> \o <<y>>)[1] = x /\ (<<x>> \o <<y>>)[2] = y
  BY <1>1, <1>2, ConcatProperties
<1> HIDE <1>2
<1>4. \A i \in 1 .. 2 : <<x, y>>[i] = (<<x>> \o <<y>>)[i]
  <2> TAKE i \in 1 .. 2
  <2>1. i = 1 \/ i = 2
    OBVIOUS
  <2> QED
    BY <1>2, <1>3, <2>1
<1> QED
  BY <1>1, <1>2, <1>3, <1>4, SeqEqual

(* Sequences one after the other, taken together from either end. *)
LEMMA Grouped ==
  ASSUME NEW S, NEW a \in Seq(S), NEW b \in Seq(S), NEW c \in Seq(S)
  PROVE  (a \o b) \o c = a \o (b \o c)
BY ConcatAssociative

(* radeon_gpu_mc_halt() and what follows it. *)
LEMMA HaltThen ==
  ASSUME mcCard \in McCards, NEW rest \in Seq(Accesses)
  PROVE  Halt \in Seq(Accesses) /\ Halt \o rest = Off(rest)
<1> DEFINE l  == Each(Lock)
           s  == Each(StopCrtc)
           u  == Each(Unlock)
           v  == Each(VgaOff)
           x  == <<Save>>
           y  == <<W(Render, 0)>>
           p1 == <<Save, W(Render, 0)>>
           p2 == p1 \o l
           p3 == p2 \o s
           p4 == p3 \o u
<1>1. l \in Seq(Accesses) /\ s \in Seq(Accesses) /\ u \in Seq(Accesses) /\ v \in Seq(Accesses)
  BY EachIs
<1>2. x \in Seq(Accesses) /\ y \in Seq(Accesses) /\ p1 \in Seq(Accesses) /\ p1 = x \o y
  BY SingleAccesses, SingleIsSeq, TwoIsSeq
<1>3. Halt = p4 \o v /\ p4 = p3 \o u /\ p3 = p2 \o s /\ p2 = p1 \o l
  BY DEF Halt
<1>4. /\ Off(rest) = x \o OffRender(rest) /\ OffRender(rest) = y \o OffLock(rest)
      /\ OffLock(rest) = l \o OffStop(rest) /\ OffStop(rest) = s \o OffUnlock(rest)
      /\ OffUnlock(rest) = u \o OffVga(rest) /\ OffVga(rest) = v \o rest
  BY DEF Off, OffRender, OffLock, OffStop, OffUnlock, OffVga
<1>5. /\ OffVga(rest) \in Seq(Accesses) /\ OffUnlock(rest) \in Seq(Accesses)
      /\ OffStop(rest) \in Seq(Accesses) /\ OffLock(rest) \in Seq(Accesses)
  BY OffIsSeq
<1> HIDE DEF l, s, u, v, x, y, p1, p2, p3, p4
<1>6. p2 \in Seq(Accesses)
  BY <1>1, <1>2, <1>3, ConcatProperties
<1>7. p3 \in Seq(Accesses)
  BY <1>1, <1>3, <1>6, ConcatProperties
<1>8. p4 \in Seq(Accesses)
  BY <1>1, <1>3, <1>7, ConcatProperties
<1>9. p4 \o v \in Seq(Accesses)
  BY <1>1, <1>8, ConcatProperties
<1>14. (p4 \o v) \o rest = p4 \o (v \o rest)
  <2>1. p4 \in Seq(Accesses) /\ v \in Seq(Accesses) /\ rest \in Seq(Accesses)
    BY <1>1, <1>8
  <2> QED
    BY <2>1, Grouped
<1>10. (p3 \o u) \o OffVga(rest) = p3 \o (u \o OffVga(rest))
  <2>1. p3 \in Seq(Accesses) /\ u \in Seq(Accesses) /\ OffVga(rest) \in Seq(Accesses)
    BY <1>1, <1>5, <1>7
  <2> QED
    BY <2>1, Grouped
<1>11. (p2 \o s) \o OffUnlock(rest) = p2 \o (s \o OffUnlock(rest))
  <2>1. p2 \in Seq(Accesses) /\ s \in Seq(Accesses) /\ OffUnlock(rest) \in Seq(Accesses)
    BY <1>1, <1>5, <1>6
  <2> QED
    BY <2>1, Grouped
<1>12. (p1 \o l) \o OffStop(rest) = p1 \o (l \o OffStop(rest))
  <2>1. p1 \in Seq(Accesses) /\ l \in Seq(Accesses) /\ OffStop(rest) \in Seq(Accesses)
    BY <1>1, <1>2, <1>5
  <2> QED
    BY <2>1, Grouped
<1>13. (x \o y) \o OffLock(rest) = x \o (y \o OffLock(rest))
  <2>1. x \in Seq(Accesses) /\ y \in Seq(Accesses) /\ OffLock(rest) \in Seq(Accesses)
    BY <1>2, <1>5
  <2> QED
    BY <2>1, Grouped
<1> QED
  BY <1>2, <1>3, <1>4, <1>9, <1>10, <1>11, <1>12, <1>13, <1>14

(* radeon_gpu_mc_resume() and what follows it. *)
LEMMA ResumeThen ==
  ASSUME mcCard \in McCards, NEW rest \in Seq(Accesses)
  PROVE  Resume \in Seq(Accesses) /\ Resume \o rest = On(rest)
<1> DEFINE a == Each(Show)
           b == <<Back(Hdp)>>
           c == Each(VgaBack)
           d == Each(Lock)
           e == Each(StartCrtc)
           f == Each(Unlock)
           g == <<Back(Render)>>
           p1 == a \o b
           p2 == p1 \o c
           p3 == p2 \o d
           p4 == p3 \o e
           p5 == p4 \o f
<1>1. /\ a \in Seq(Accesses) /\ c \in Seq(Accesses) /\ d \in Seq(Accesses) /\ e \in Seq(Accesses)
      /\ f \in Seq(Accesses)
  BY EachIs
<1>2. b \in Seq(Accesses) /\ g \in Seq(Accesses)
  BY SingleAccesses, SingleIsSeq
<1>3. /\ Resume = p5 \o g /\ p5 = p4 \o f /\ p4 = p3 \o e /\ p3 = p2 \o d /\ p2 = p1 \o c
      /\ p1 = a \o b
  BY DEF Resume
<1>4. /\ On(rest) = a \o OnHdp(rest) /\ OnHdp(rest) = b \o OnVga(rest)
      /\ OnVga(rest) = c \o OnLock(rest) /\ OnLock(rest) = d \o OnStart(rest)
      /\ OnStart(rest) = e \o OnUnlock(rest) /\ OnUnlock(rest) = f \o OnRender(rest)
      /\ OnRender(rest) = g \o rest
  BY DEF On, OnHdp, OnVga, OnLock, OnStart, OnUnlock, OnRender
<1>5. /\ OnRender(rest) \in Seq(Accesses) /\ OnUnlock(rest) \in Seq(Accesses)
      /\ OnStart(rest) \in Seq(Accesses) /\ OnLock(rest) \in Seq(Accesses)
      /\ OnVga(rest) \in Seq(Accesses)
  BY OnIsSeq
<1> HIDE DEF a, b, c, d, e, f, g, p1, p2, p3, p4, p5
<1>6. p1 \in Seq(Accesses)
  BY <1>1, <1>2, <1>3, ConcatProperties
<1>7. p2 \in Seq(Accesses)
  BY <1>1, <1>3, <1>6, ConcatProperties
<1>8. p3 \in Seq(Accesses)
  BY <1>1, <1>3, <1>7, ConcatProperties
<1>9. p4 \in Seq(Accesses)
  BY <1>1, <1>3, <1>8, ConcatProperties
<1>10. p5 \in Seq(Accesses)
  BY <1>1, <1>3, <1>9, ConcatProperties
<1>11. p5 \o g \in Seq(Accesses)
  BY <1>2, <1>10, ConcatProperties
<1>17. (p5 \o g) \o rest = p5 \o (g \o rest)
  <2>1. p5 \in Seq(Accesses) /\ g \in Seq(Accesses) /\ rest \in Seq(Accesses)
    BY <1>2, <1>10
  <2> QED
    BY <2>1, Grouped
<1>12. (p4 \o f) \o OnRender(rest) = p4 \o (f \o OnRender(rest))
  <2>1. p4 \in Seq(Accesses) /\ f \in Seq(Accesses) /\ OnRender(rest) \in Seq(Accesses)
    BY <1>1, <1>5, <1>9
  <2> QED
    BY <2>1, Grouped
<1>13. (p3 \o e) \o OnUnlock(rest) = p3 \o (e \o OnUnlock(rest))
  <2>1. p3 \in Seq(Accesses) /\ e \in Seq(Accesses) /\ OnUnlock(rest) \in Seq(Accesses)
    BY <1>1, <1>5, <1>8
  <2> QED
    BY <2>1, Grouped
<1>14. (p2 \o d) \o OnStart(rest) = p2 \o (d \o OnStart(rest))
  <2>1. p2 \in Seq(Accesses) /\ d \in Seq(Accesses) /\ OnStart(rest) \in Seq(Accesses)
    BY <1>1, <1>5, <1>7
  <2> QED
    BY <2>1, Grouped
<1>15. (p1 \o c) \o OnLock(rest) = p1 \o (c \o OnLock(rest))
  <2>1. p1 \in Seq(Accesses) /\ c \in Seq(Accesses) /\ OnLock(rest) \in Seq(Accesses)
    BY <1>1, <1>5, <1>6
  <2> QED
    BY <2>1, Grouped
<1>16. (a \o b) \o OnVga(rest) = a \o (b \o OnVga(rest))
  <2>1. a \in Seq(Accesses) /\ b \in Seq(Accesses) /\ OnVga(rest) \in Seq(Accesses)
    BY <1>1, <1>2, <1>5
  <2> QED
    BY <2>1, Grouped
<1> QED
  BY <1>3, <1>4, <1>11, <1>12, <1>13, <1>14, <1>15, <1>16, <1>17

(* Both procedures halt, do what they are for, and resume. *)
LEMMA ProgramIs ==
  ASSUME mcCard \in McCards
  PROVE  Program = Off(MoveRest)
<1> DEFINE w  == <<Wait>>
           x  == IF mcCard.chip = "r600" THEN <<>> ELSE <<W(Hdp, 0)>>
           m  == <<W(Location, 1)>>
           l  == <<W(Location, 1), Wait>>
           on == On(RenderOff)
           y  == x \o Move
           p1 == Halt \o w
           p2 == p1 \o x
           p3 == p2 \o l
           p4 == p3 \o Resume
<1>1. /\ w \in Seq(Accesses) /\ m \in Seq(Accesses) /\ l \in Seq(Accesses) /\ l = m \o w
      /\ <<W(Hdp, 0)>> \in Seq(Accesses)
  BY SingleAccesses, SingleIsSeq, TwoIsSeq
<1>2. x \in Seq(Accesses)
  BY <1>1, EmptySeq
<1>3. /\ RenderOff \in Seq(Accesses) /\ MoveWait \in Seq(Accesses) /\ Move \in Seq(Accesses)
      /\ MoveRest \in Seq(Accesses) /\ on \in Seq(Accesses)
  BY MiddleIsSeq, OnIsSeq
<1>4. Halt \in Seq(Accesses) /\ Halt \o MoveRest = Off(MoveRest)
  BY <1>3, HaltThen
<1>5. Resume \in Seq(Accesses) /\ Resume \o RenderOff = on
  BY <1>3, ResumeThen
<1>6. /\ Program = p4 \o RenderOff /\ p4 = p3 \o Resume /\ p3 = p2 \o l /\ p2 = p1 \o x
      /\ p1 = Halt \o w
  BY DEF Program, RenderOff
<1>7. y = IF mcCard.chip = "r600" THEN Move ELSE MoveHdp
  BY <1>3, ConcatEmptySeq DEF MoveHdp
<1>8. MoveRest = w \o y
  BY <1>7 DEF MoveRest
<1>9. Move = m \o MoveWait /\ MoveWait = w \o on /\ y = x \o Move
  BY DEF Move, MoveWait
<1> HIDE DEF w, x, m, l, on, y, p1, p2, p3, p4
<1>10. p1 \in Seq(Accesses)
  BY <1>1, <1>4, <1>6, ConcatProperties
<1>11. p2 \in Seq(Accesses)
  BY <1>2, <1>6, <1>10, ConcatProperties
<1>12. p3 \in Seq(Accesses)
  BY <1>1, <1>6, <1>11, ConcatProperties
<1>13. y \in Seq(Accesses)
  BY <1>2, <1>3, <1>9, ConcatProperties
<1>14. (p3 \o Resume) \o RenderOff = p3 \o (Resume \o RenderOff)
  <2>1. p3 \in Seq(Accesses) /\ Resume \in Seq(Accesses) /\ RenderOff \in Seq(Accesses)
    BY <1>3, <1>5, <1>12
  <2> QED
    BY <2>1, Grouped
<1>15. (p2 \o l) \o on = p2 \o (l \o on)
  <2>1. p2 \in Seq(Accesses) /\ l \in Seq(Accesses) /\ on \in Seq(Accesses)
    BY <1>1, <1>3, <1>11
  <2> QED
    BY <2>1, Grouped
<1>16. (m \o w) \o on = m \o (w \o on)
  <2>1. m \in Seq(Accesses) /\ w \in Seq(Accesses) /\ on \in Seq(Accesses)
    BY <1>1, <1>3
  <2> QED
    BY <2>1, Grouped
<1>17. (p1 \o x) \o Move = p1 \o (x \o Move)
  <2>1. p1 \in Seq(Accesses) /\ x \in Seq(Accesses) /\ Move \in Seq(Accesses)
    BY <1>2, <1>3, <1>10
  <2> QED
    BY <2>1, Grouped
<1>18. (Halt \o w) \o y = Halt \o (w \o y)
  <2>1. Halt \in Seq(Accesses) /\ w \in Seq(Accesses) /\ y \in Seq(Accesses)
    BY <1>1, <1>4, <1>13
  <2> QED
    BY <2>1, Grouped
<1> QED
  BY <1>1, <1>4, <1>5, <1>6, <1>8, <1>9, <1>14, <1>15, <1>16, <1>17, <1>18

(* The same of the reset, of a card that is busy or not. *)
LEMMA ResetIs ==
  ASSUME mcCard \in McCards, NEW busy \in BOOLEAN
  PROVE  Reset(busy) = Off(ResetRest(busy))
<1> DEFINE w  == <<Wait>>
           p  == <<W(<<"cp", 0>>, 0)>>
           h  == <<Wait, W(<<"cp", 0>>, 0)>>
           eu == <<W(EngineReset, 1)>>
           ed == <<W(EngineReset, 0)>>
           cu == <<W(CpReset, 1)>>
           cd == <<W(CpReset, 0)>>
           ep == Pulse("engine reset")
           cp == Pulse("cp reset")
           e  == IF mcCard.chip = "evergreen" \/ busy THEN ep ELSE <<>>
           c  == IF mcCard.chip = "evergreen" THEN <<>> ELSE cp
           on == On(<<>>)
           p1 == Halt \o h
           p2 == p1 \o e
           p3 == p2 \o c
<1>1. w \in Seq(Accesses) /\ p \in Seq(Accesses) /\ h \in Seq(Accesses) /\ h = w \o p
  BY SingleAccesses, SingleIsSeq, TwoIsSeq
<1>2. /\ eu \in Seq(Accesses) /\ ed \in Seq(Accesses) /\ ep \in Seq(Accesses) /\ ep = eu \o ed
      /\ cu \in Seq(Accesses) /\ cd \in Seq(Accesses) /\ cp \in Seq(Accesses) /\ cp = cu \o cd
  BY SingleAccesses, SingleIsSeq, TwoIsSeq DEF Pulse, EngineReset, CpReset
<1>3. <<>> \in Seq(Accesses)
  BY EmptySeq
<1>4. /\ CpRest \in Seq(Accesses) /\ EngineRest(busy) \in Seq(Accesses) /\ CpDown \in Seq(Accesses)
      /\ EngineDown \in Seq(Accesses)
      /\ ResetRest(busy) \in Seq(Accesses) /\ on \in Seq(Accesses)
  BY MiddleIsSeq, OnIsSeq
<1>5. Halt \in Seq(Accesses) /\ Halt \o ResetRest(busy) = Off(ResetRest(busy))
  BY <1>4, HaltThen
<1>6. Resume = on
  BY <1>3, ResumeThen, ConcatEmptySeq
<1>7. Reset(busy) = p3 \o on /\ p3 = p2 \o c /\ p2 = p1 \o e /\ p1 = Halt \o h
  BY <1>6 DEF Reset
<1>8. /\ CpUp = cu \o CpDown /\ CpDown = cd \o on
      /\ EngineUp = eu \o EngineDown /\ EngineDown = ed \o CpRest
  BY DEF CpUp, CpDown, EngineUp, EngineDown
<1>9. ResetRest(busy) = w \o CpHalt(busy) /\ CpHalt(busy) = p \o EngineRest(busy)
  BY DEF ResetRest, CpHalt
<1>10. CpRest = IF mcCard.chip = "evergreen" THEN on ELSE CpUp
  BY DEF CpRest
<1>11. EngineRest(busy) = IF mcCard.chip = "evergreen" \/ busy THEN EngineUp ELSE CpRest
  BY DEF EngineRest
<1>12. e = (IF mcCard.chip = "evergreen" \/ busy THEN ep ELSE <<>>)
       /\ c = (IF mcCard.chip = "evergreen" THEN <<>> ELSE cp)
  OBVIOUS
<1>13. e \in Seq(Accesses) /\ c \in Seq(Accesses)
  BY <1>2, <1>3
<1> HIDE DEF w, p, h, eu, ed, cu, cd, ep, cp, e, c, on, p1, p2, p3
<1>14. (cu \o cd) \o on = cu \o (cd \o on)
  <2>1. cu \in Seq(Accesses) /\ cd \in Seq(Accesses) /\ on \in Seq(Accesses)
    BY <1>2, <1>4
  <2> QED
    BY <2>1, Grouped
<1>15. (eu \o ed) \o CpRest = eu \o (ed \o CpRest)
  <2>1. eu \in Seq(Accesses) /\ ed \in Seq(Accesses) /\ CpRest \in Seq(Accesses)
    BY <1>2, <1>4
  <2> QED
    BY <2>1, Grouped
<1>16. <<>> \o on = on /\ <<>> \o CpRest = CpRest
  BY <1>4, ConcatEmptySeq
<1>17. c \o on = CpRest
  BY <1>2, <1>8, <1>10, <1>12, <1>14, <1>16
<1>18. e \o CpRest = EngineRest(busy)
  BY <1>2, <1>8, <1>11, <1>12, <1>15, <1>16
<1>19. (w \o p) \o EngineRest(busy) = w \o (p \o EngineRest(busy))
  <2>1. w \in Seq(Accesses) /\ p \in Seq(Accesses) /\ EngineRest(busy) \in Seq(Accesses)
    BY <1>1, <1>4
  <2> QED
    BY <2>1, Grouped
<1>20. p1 \in Seq(Accesses)
  BY <1>1, <1>5, <1>7, ConcatProperties
<1>21. p2 \in Seq(Accesses)
  BY <1>7, <1>13, <1>20, ConcatProperties
<1>22. (p2 \o c) \o on = p2 \o (c \o on)
  <2>1. p2 \in Seq(Accesses) /\ c \in Seq(Accesses) /\ on \in Seq(Accesses)
    BY <1>4, <1>13, <1>21
  <2> QED
    BY <2>1, Grouped
<1>23. (p1 \o e) \o CpRest = p1 \o (e \o CpRest)
  <2>1. p1 \in Seq(Accesses) /\ e \in Seq(Accesses) /\ CpRest \in Seq(Accesses)
    BY <1>4, <1>13, <1>20
  <2> QED
    BY <2>1, Grouped
<1>24. (Halt \o h) \o EngineRest(busy) = Halt \o (h \o EngineRest(busy))
  <2>1. Halt \in Seq(Accesses) /\ h \in Seq(Accesses) /\ EngineRest(busy) \in Seq(Accesses)
    BY <1>1, <1>4, <1>5
  <2> QED
    BY <2>1, Grouped
<1> QED
  BY <1>1, <1>5, <1>7, <1>9, <1>17, <1>18, <1>19, <1>22, <1>23, <1>24

(* The procedures are the card's, which stays the same. *)
LEMMA SameCard ==
  ASSUME mcCard \in McCards, mcCard' = mcCard
  PROVE  /\ Knows' = Knows /\ M' = M /\ (Reaches' <=> Reaches)
         /\ CrtcsOf(mcCard)' = CrtcsOf(mcCard) /\ Registers(mcCard)' = Registers(mcCard)
         /\ Each(Lock)' = Each(Lock) /\ Each(Unlock)' = Each(Unlock)
         /\ Each(StopCrtc)' = Each(StopCrtc) /\ Each(StartCrtc)' = Each(StartCrtc)
         /\ Each(VgaOff)' = Each(VgaOff) /\ Each(VgaBack)' = Each(VgaBack)
         /\ Each(Show)' = Each(Show)
<1>1. Knows' = Knows
  BY DEF Knows
<1>2. M' = M
  BY <1>1 DEF M
<1>3. Reaches' <=> Reaches
  BY DEF Reaches, Writes, Family
<1>4. CrtcsOf(mcCard)' = CrtcsOf(mcCard) /\ Registers(mcCard)' = Registers(mcCard)
  BY DEF CrtcsOf, Registers, Family
<1>5. Each(Lock)' = Each(Lock)
  BY <1>1, <1>3 DEF Each, Lock, LockReg, W
<1>6. Each(Unlock)' = Each(Unlock)
  BY <1>1, <1>3 DEF Each, Unlock, LockReg, W
<1>7. Each(StopCrtc)' = Each(StopCrtc)
  BY <1>1 DEF Each, StopCrtc, CrtcReg, W, Writes
<1>8. Each(StartCrtc)' = Each(StartCrtc)
  BY <1>1 DEF Each, StartCrtc, CrtcReg, Back, Writes
<1>9. Each(VgaOff)' = Each(VgaOff) /\ Each(VgaBack)' = Each(VgaBack)
  BY <1>1 DEF Each, VgaOff, VgaBack, VgaControl, Back, W
<1>10. Each(Show)' = Each(Show)
  BY <1>1, <1>3 DEF Each, Show, SurfReg, W
<1> QED
  BY <1>1, <1>2, <1>3, <1>4, <1>5, <1>6, <1>7, <1>8, <1>9, <1>10

(* So are what is left of them, whatever comes after. *)
LEMMA SameParts ==
  ASSUME mcCard \in McCards, mcCard' = mcCard, NEW rest
  PROVE  /\ OffVga(rest)' = OffVga(rest) /\ OffUnlock(rest)' = OffUnlock(rest)
         /\ OffStop(rest)' = OffStop(rest) /\ OffLock(rest)' = OffLock(rest)
         /\ OffRender(rest)' = OffRender(rest) /\ Off(rest)' = Off(rest)
         /\ OnRender(rest)' = OnRender(rest) /\ OnUnlock(rest)' = OnUnlock(rest)
         /\ OnStart(rest)' = OnStart(rest) /\ OnLock(rest)' = OnLock(rest)
         /\ OnVga(rest)' = OnVga(rest) /\ OnHdp(rest)' = OnHdp(rest) /\ On(rest)' = On(rest)
<1>1. OffVga(rest)' = OffVga(rest)
  BY SameCard DEF OffVga
<1>2. OffUnlock(rest)' = OffUnlock(rest)
  BY <1>1, SameCard DEF OffUnlock
<1>3. OffStop(rest)' = OffStop(rest)
  BY <1>2, SameCard DEF OffStop
<1>4. OffLock(rest)' = OffLock(rest)
  BY <1>3, SameCard DEF OffLock
<1>5. OffRender(rest)' = OffRender(rest)
  BY <1>4 DEF OffRender
<1>6. Off(rest)' = Off(rest)
  BY <1>5 DEF Off
<1>7. OnRender(rest)' = OnRender(rest)
  BY DEF OnRender
<1>8. OnUnlock(rest)' = OnUnlock(rest)
  BY <1>7, SameCard DEF OnUnlock
<1>9. OnStart(rest)' = OnStart(rest)
  BY <1>8, SameCard DEF OnStart
<1>10. OnLock(rest)' = OnLock(rest)
  BY <1>9, SameCard DEF OnLock
<1>11. OnVga(rest)' = OnVga(rest)
  BY <1>10, SameCard DEF OnVga
<1>12. OnHdp(rest)' = OnHdp(rest)
  BY <1>11 DEF OnHdp
<1>13. On(rest)' = On(rest)
  BY <1>12, SameCard DEF On
<1> QED
  BY <1>1, <1>2, <1>3, <1>4, <1>5, <1>6, <1>7, <1>8, <1>9, <1>10, <1>11, <1>12, <1>13

(* So is what is done between halt and resume. *)
LEMMA SameMiddle ==
  ASSUME mcCard \in McCards, mcCard' = mcCard
  PROVE  /\ MoveWait' = MoveWait /\ Move' = Move /\ MoveHdp' = MoveHdp /\ MoveRest' = MoveRest
         /\ CpDown' = CpDown /\ CpUp' = CpUp /\ CpRest' = CpRest
         /\ EngineDown' = EngineDown /\ EngineUp' = EngineUp
         /\ \A busy \in BOOLEAN : /\ EngineRest(busy)' = EngineRest(busy)
                                  /\ CpHalt(busy)' = CpHalt(busy)
                                  /\ ResetRest(busy)' = ResetRest(busy)
         /\ Middles' = Middles
<1>1. MoveWait' = MoveWait
  BY SameParts DEF MoveWait, RenderOff
<1>2. Move' = Move
  BY <1>1 DEF Move
<1>3. MoveHdp' = MoveHdp
  BY <1>2 DEF MoveHdp
<1>4. MoveRest' = MoveRest
  BY <1>2, <1>3 DEF MoveRest
<1>5. CpDown' = CpDown
  BY SameParts DEF CpDown
<1>6. CpUp' = CpUp
  BY <1>5 DEF CpUp
<1>7. CpRest' = CpRest
  BY <1>6, SameParts DEF CpRest
<1>8. EngineDown' = EngineDown
  BY <1>7 DEF EngineDown
<1>9. EngineUp' = EngineUp
  BY <1>8 DEF EngineUp
<1>10. ASSUME NEW busy \in BOOLEAN
       PROVE  /\ EngineRest(busy)' = EngineRest(busy) /\ CpHalt(busy)' = CpHalt(busy)
              /\ ResetRest(busy)' = ResetRest(busy)
  <2>1. EngineRest(busy)' = EngineRest(busy)
    BY <1>7, <1>9 DEF EngineRest
  <2>2. CpHalt(busy)' = CpHalt(busy)
    BY <2>1 DEF CpHalt
  <2> QED
    BY <2>1, <2>2 DEF ResetRest
<1>11. Middles' = Middles
  BY <1>4, <1>10 DEF Middles
<1> QED
  BY <1>1, <1>2, <1>3, <1>4, <1>5, <1>6, <1>7, <1>8, <1>9, <1>10, <1>11

-----------------------------------------------------------------------------
(* What an access does. *)

(* The registers of the card. *)
LEMMA RegistersAre ==
  ASSUME mcCard \in McCards
  PROVE  /\ \A n \in CrtcsOf(mcCard) :
              /\ Control(n) \in Registers(mcCard) /\ VgaControl(n) \in Registers(mcCard)
              /\ <<"lock", n>> \in Registers(mcCard) /\ Surface(n) \in Registers(mcCard)
         /\ \A n : <<"no lock", n>> \notin Registers(mcCard)
                   /\ <<"no surface", n>> \notin Registers(mcCard)
                   /\ (~Reaches => CrtcReg(n) \notin Registers(mcCard))
                   /\ (Reaches => CrtcReg(n) = Control(n))
         /\ Render \in Registers(mcCard) /\ Hdp \in Registers(mcCard)
         /\ Location \in Registers(mcCard) /\ <<"cp", 0>> \in Registers(mcCard)
         /\ EngineReset \in Registers(mcCard) /\ CpReset \in Registers(mcCard)
         /\ Family(mcCard) \in {"avivo", "evergreen"}
<1>1. Family(mcCard) \in {"avivo", "evergreen"} /\ Writes \in {"avivo", "evergreen"}
  BY DEF Family, Writes
<1>2. \A n \in CrtcsOf(mcCard) :
        /\ Control(n) \in Registers(mcCard) /\ VgaControl(n) \in Registers(mcCard)
        /\ <<"lock", n>> \in Registers(mcCard) /\ Surface(n) \in Registers(mcCard)
  BY DEF Registers, Control, VgaControl, Surface
<1>3. \A n : <<"no lock", n>> \notin Registers(mcCard) /\ <<"no surface", n>> \notin Registers(mcCard)
  BY <1>1 DEF Registers
<1>4. \A n : ~Reaches => CrtcReg(n) \notin Registers(mcCard)
  BY <1>1 DEF Registers, Reaches, CrtcReg
<1>5. \A n : Reaches => CrtcReg(n) = Control(n)
  BY DEF Reaches, CrtcReg, Control
<1>6. /\ Render \in Registers(mcCard) /\ Hdp \in Registers(mcCard)
      /\ Location \in Registers(mcCard) /\ <<"cp", 0>> \in Registers(mcCard)
      /\ EngineReset \in Registers(mcCard) /\ CpReset \in Registers(mcCard)
  BY DEF Registers, Render, Hdp, Location, EngineReset, CpReset
<1> QED
  BY <1>1, <1>2, <1>3, <1>4, <1>5, <1>6

(* A write to a register that no lock guards. *)
LEMMA PlainWrite ==
  ASSUME Typed, NEW r \in Registers(mcCard), NEW v \in {0, 1}, Written(r, v),
         r[1] \notin {"lock", "avivo", "evergreen"}
  PROVE  reg' = [reg EXCEPT ![r] = v] /\ waiting' = waiting
<1>1. Family(mcCard) \in {"avivo", "evergreen"} /\ DOMAIN reg = Registers(mcCard)
  BY RegistersAre DEF Typed, MemoryTypeOK
<1> QED
  BY <1>1 DEF Written

(* A write where there is no register. *)
LEMMA NoWrite ==
  ASSUME Typed, NEW r, NEW v, Written(r, v), r \notin Registers(mcCard)
  PROVE  reg' = reg /\ waiting' = waiting
<1>1. DOMAIN reg = Registers(mcCard)
  BY DEF Typed, MemoryTypeOK
<1> QED
  BY <1>1 DEF Written

(* The lock of a CRTC is set. *)
LEMMA LockWrite ==
  ASSUME Typed, NEW n \in CrtcsOf(mcCard), Written(<<"lock", n>>, 1)
  PROVE  reg' = [reg EXCEPT ![<<"lock", n>>] = 1] /\ waiting' = waiting
<1>1. Family(mcCard) \in {"avivo", "evergreen"} /\ DOMAIN reg = Registers(mcCard)
      /\ <<"lock", n>> \in Registers(mcCard)
  BY RegistersAre DEF Typed, MemoryTypeOK
<1>2. <<"lock", n>>[1] = "lock"
  OBVIOUS
<1> QED
  BY <1>1, <1>2 DEF Written

(* A control that is written under the lock waits. *)
LEMMA LockedWrite ==
  ASSUME Typed, NEW n \in CrtcsOf(mcCard), NEW v, reg[<<"lock", n>>] = 1, Written(Control(n), v)
  PROVE  reg' = reg /\ waiting' = [waiting EXCEPT ![n] = v]
<1>1. DOMAIN reg = Registers(mcCard) /\ Control(n) \in Registers(mcCard)
  BY RegistersAre DEF Typed, MemoryTypeOK
<1>2. Control(n)[1] = Family(mcCard) /\ Control(n)[2] = n
  BY DEF Control
<1> QED
  BY <1>1, <1>2 DEF Written

(* The unlock lets through what waits. *)
LEMMA UnlockWrite ==
  ASSUME Typed, NEW n \in CrtcsOf(mcCard), waiting[n] # -1, Written(<<"lock", n>>, 0)
  PROVE  /\ reg' = [reg EXCEPT ![<<"lock", n>>] = 0, ![Control(n)] = waiting[n]]
         /\ waiting' = [waiting EXCEPT ![n] = -1]
<1>1. Family(mcCard) \in {"avivo", "evergreen"} /\ DOMAIN reg = Registers(mcCard)
      /\ <<"lock", n>> \in Registers(mcCard)
  BY RegistersAre DEF Typed, MemoryTypeOK
<1>2. <<"lock", n>>[1] = "lock" /\ <<"lock", n>>[2] = n
  OBVIOUS
<1> QED
  BY <1>1, <1>2 DEF Written

(* An access is the first of those to be done. *)
LEMMA AccessDone ==
  ASSUME Access
  PROVE  /\ mcTodo # <<>> /\ mcTodo' = Tail(mcTodo) /\ mcCard' = mcCard /\ initial' = initial
         /\ \A r, v : NextAccess = W(r, v) => Written(r, v) /\ before' = before /\ idle' = idle
         /\ \A r : NextAccess = Back(r) =>
              /\ IF r \in DOMAIN reg THEN Written(r, before[r]) ELSE reg' = reg /\ waiting' = waiting
              /\ before' = before /\ idle' = idle
         /\ NextAccess = Save => before' = reg /\ reg' = reg /\ waiting' = waiting
         /\ NextAccess = Wait => idle' = TRUE /\ reg' = reg /\ waiting' = waiting /\ before' = before
<1>1. /\ mcTodo # <<>> /\ mcTodo' = Tail(mcTodo) /\ mcCard' = mcCard /\ initial' = initial
  BY DEF Access, WriteReg, RestoreReg, Backup, IdleWait
<1>2. ASSUME NEW r, NEW v, NextAccess = W(r, v)
      PROVE  Written(r, v) /\ before' = before /\ idle' = idle
  <2>1. NextAccess.op = "write" /\ NextAccess.reg = r /\ NextAccess.value = v
    BY <1>2 DEF W
  <2> QED
    BY <2>1 DEF Access, WriteReg, RestoreReg, Backup, IdleWait
<1>3. ASSUME NEW r, NextAccess = Back(r)
      PROVE  /\ IF r \in DOMAIN reg THEN Written(r, before[r]) ELSE reg' = reg /\ waiting' = waiting
             /\ before' = before /\ idle' = idle
  <2>1. NextAccess.op = "restore" /\ NextAccess.reg = r
    BY <1>3 DEF Back
  <2> QED
    BY <2>1 DEF Access, WriteReg, RestoreReg, Backup, IdleWait
<1>4. ASSUME NextAccess = Save
      PROVE  before' = reg /\ reg' = reg /\ waiting' = waiting
  <2>1. NextAccess.op = "save"
    BY <1>4 DEF Save
  <2> QED
    BY <2>1 DEF Access, WriteReg, RestoreReg, Backup, IdleWait
<1>5. ASSUME NextAccess = Wait
      PROVE  idle' = TRUE /\ reg' = reg /\ waiting' = waiting /\ before' = before
  <2>1. NextAccess.op = "wait"
    BY <1>5 DEF Wait
  <2> QED
    BY <2>1 DEF Access, WriteReg, RestoreReg, Backup, IdleWait
<1> QED
  BY <1>1, <1>2, <1>3, <1>4, <1>5

(* A write leaves registers that hold bits. *)
LEMMA WrittenTyped ==
  ASSUME Typed, NEW r, NEW v \in {0, 1}, Written(r, v)
  PROVE  reg' \in [Registers(mcCard) -> {0, 1}] /\ waiting' \in [CrtcsOf(mcCard) -> {-1, 0, 1}]
<1>1. mcCard \in McCards /\ reg \in [Registers(mcCard) -> {0, 1}]
      /\ waiting \in [CrtcsOf(mcCard) -> {-1, 0, 1}] /\ DOMAIN reg = Registers(mcCard)
  BY DEF Typed, MemoryTypeOK
<1>2. Family(mcCard) \in {"avivo", "evergreen"}
  BY <1>1, RegistersAre
<1>3. CASE r \notin Registers(mcCard)
  BY <1>1, <1>3 DEF Written
<1>4. CASE r \in Registers(mcCard) /\ r[1] = Family(mcCard) /\ reg[<<"lock", r[2]>>] = 1
  <2>1. r[2] \in CrtcsOf(mcCard)
    BY <1>2, <1>4 DEF Registers
  <2>2. waiting' = [waiting EXCEPT ![r[2]] = v] /\ reg' = reg
    BY <1>1, <1>4 DEF Written
  <2> QED
    BY <1>1, <2>1, <2>2
<1>5. CASE r \in Registers(mcCard) /\ r[1] = "lock" /\ v = 0 /\ waiting[r[2]] # -1
  <2>1. r[2] \in CrtcsOf(mcCard)
    BY <1>2, <1>5 DEF Registers
  <2>2. /\ reg' = [reg EXCEPT ![r] = 0, ![Control(r[2])] = waiting[r[2]]]
        /\ waiting' = [waiting EXCEPT ![r[2]] = -1]
    BY <1>1, <1>2, <1>5 DEF Written
  <2>3. waiting[r[2]] \in {0, 1}
    BY <1>1, <1>5, <2>1
  <2> QED
    BY <1>1, <2>1, <2>2, <2>3
<1>6. CASE r \in Registers(mcCard) /\ reg' = [reg EXCEPT ![r] = v] /\ waiting' = waiting
  BY <1>1, <1>6
<1> QED
  BY <1>1, <1>3, <1>4, <1>5, <1>6 DEF Written

(* So does every step. *)
LEMMA TypedStep ==
  ASSUME Typed, MemoryNext
  PROVE  Typed' /\ mcCard' = mcCard
<1>1. mcCard \in McCards /\ reg \in [Registers(mcCard) -> {0, 1}]
      /\ waiting \in [CrtcsOf(mcCard) -> {-1, 0, 1}] /\ DOMAIN reg = Registers(mcCard)
      /\ idle \in BOOLEAN /\ mcTodo \in Seq(Accesses)
      /\ initial \in [Registers(mcCard) -> {0, 1}] /\ before \in [Registers(mcCard) -> {0, 1}]
  BY DEF Typed, MemoryTypeOK
<1>2. ASSUME NEW p \in Seq(Accesses), Begin(p)
      PROVE  Typed' /\ mcCard' = mcCard
  BY <1>1, <1>2 DEF Begin, Typed, MemoryTypeOK
<1>3. CASE MoveMemory
  <2>1. Program \in Seq(Accesses)
    BY <1>1, ProgramIs, OffIsSeq, MiddleIsSeq
  <2> QED
    BY <1>2, <1>3, <2>1 DEF MoveMemory
<1>4. CASE ResetEngine
  <2>1. PICK busy \in BOOLEAN : Begin(Reset(busy))
    BY <1>4 DEF ResetEngine
  <2>2. Reset(busy) \in Seq(Accesses)
    BY <1>1, ResetIs, OffIsSeq, MiddleIsSeq
  <2> QED
    BY <1>2, <2>1, <2>2
<1>5. CASE Access
  <2>1. mcTodo # <<>> /\ mcTodo' = Tail(mcTodo) /\ mcCard' = mcCard /\ initial' = initial
    BY <1>5, AccessDone
  <2>2. NextAccess \in Accesses /\ mcTodo' \in Seq(Accesses)
    BY <1>1, <2>1, HeadTailProperties DEF NextAccess
  <2>3. /\ reg' \in [Registers(mcCard) -> {0, 1}]
        /\ waiting' \in [CrtcsOf(mcCard) -> {-1, 0, 1}]
        /\ before' \in [Registers(mcCard) -> {0, 1}] /\ idle' \in BOOLEAN
    <3>1. CASE WriteReg
      <4>1. NextAccess.value \in {0, 1}
        BY <2>2, <3>1 DEF WriteReg, Accesses
      <4>2. Written(NextAccess.reg, NextAccess.value) /\ before' = before /\ idle' = idle
        BY <3>1 DEF WriteReg
      <4> QED
        BY <1>1, <4>1, <4>2, WrittenTyped
    <3>2. CASE RestoreReg
      <4>1. before' = before /\ idle' = idle
        BY <3>2 DEF RestoreReg
      <4>2. CASE NextAccess.reg \in DOMAIN reg
        <5>1. before[NextAccess.reg] \in {0, 1} /\ Written(NextAccess.reg, before[NextAccess.reg])
          BY <1>1, <3>2, <4>2 DEF RestoreReg
        <5> QED
          BY <1>1, <4>1, <5>1, WrittenTyped
      <4>3. CASE NextAccess.reg \notin DOMAIN reg
        BY <1>1, <3>2, <4>1, <4>3 DEF RestoreReg
      <4> QED
        BY <4>2, <4>3
    <3>3. CASE Backup
      BY <1>1, <3>3 DEF Backup
    <3>4. CASE IdleWait
      BY <1>1, <3>4 DEF IdleWait
    <3> QED
      BY <1>5, <3>1, <3>2, <3>3, <3>4 DEF Access
  <2> QED
    BY <1>1, <2>1, <2>2, <2>3 DEF Typed, MemoryTypeOK
<1> QED
  BY <1>3, <1>4, <1>5 DEF MemoryNext

-----------------------------------------------------------------------------
(* What an access leaves alone. *)

(* Only registers of these names change. *)
Changes(names) == \A r \in Registers(mcCard) : r[1] \notin names => reg'[r] = reg[r]

(* VGA is untouched by writes to other registers. *)
LEMMA VgaKept ==
  ASSUME mcCard \in McCards, mcCard' = mcCard, initial' = initial,
         NEW names, Changes(names), "vga" \notin names, NEW low, NEW high, VgaOffOn(low, high)
  PROVE  VgaOffOn(low, high)'
<1>1. CrtcsOf(mcCard)' = CrtcsOf(mcCard)
  BY SameCard
<1>2. ASSUME NEW n \in CrtcsOf(mcCard)
      PROVE  reg'[VgaControl(n)] = reg[VgaControl(n)]
  BY RegistersAre DEF Changes, VgaControl
<1> QED
  BY <1>1, <1>2 DEF VgaOffOn, VgaControl

(* So is where the CRTCs look for their pictures. *)
LEMMA SurfacesKept ==
  ASSUME mcCard \in McCards, mcCard' = mcCard,
         NEW names, Changes(names), "surface" \notin names, NEW k, ShownTo(k)
  PROVE  ShownTo(k)'
<1>1. CrtcsOf(mcCard)' = CrtcsOf(mcCard) /\ (Reaches' <=> Reaches)
  BY SameCard
<1>2. ASSUME NEW n \in CrtcsOf(mcCard)
      PROVE  reg'[Surface(n)] = reg[Surface(n)]
  BY RegistersAre DEF Changes, Surface
<1> QED
  BY <1>1, <1>2 DEF ShownTo, Surface

(* So is what they show, if the memory stays too. *)
LEMMA PictureKept ==
  ASSUME mcCard \in McCards, mcCard' = mcCard,
         NEW names, Changes(names), "surface" \notin names, "location" \notin names, ShownRight
  PROVE  ShownRight'
<1>1. reg'[Location] = reg[Location] /\ M' = M
  BY RegistersAre, SameCard DEF Changes, Location
<1>2. CASE reg[Location] = 1
  <2>1. ShownTo(M)
    BY <1>2 DEF ShownRight
  <2> DEFINE m == M
  <2>2. m' = m
    BY <1>1
  <2>3. ASSUME NEW j, j = m
        PROVE  ShownTo(j)'
    BY <2>1, <2>3, SurfacesKept
  <2>4. ShownTo(M)'
    BY <1>1, <2>3 DEF ShownTo
  <2> QED
    BY <2>4 DEF ShownRight
<1>3. CASE reg[Location] # 1
  BY <1>1, <1>3 DEF ShownRight, Location
<1> QED
  BY <1>2, <1>3

(* So is the way of the host. *)
LEMMA HostKept ==
  ASSUME mcCard \in McCards, initial' = initial,
         NEW names, Changes(names), "hdp" \notin names, HostBack
  PROVE  HostBack'
BY RegistersAre DEF Changes, HostBack, Hdp

(* So are the resets. *)
LEMMA ResetsKept ==
  ASSUME mcCard \in McCards,
         NEW names, Changes(names), "engine reset" \notin names, "cp reset" \notin names, NoReset
  PROVE  NoReset'
BY RegistersAre DEF Changes, NoReset, EngineReset, CpReset

(* So is rendering by VGA. *)
LEMMA RenderKept ==
  ASSUME mcCard \in McCards,
         NEW names, Changes(names), "render" \notin names, reg[Render] = 0
  PROVE  (reg[Render] = 0)'
BY RegistersAre DEF Changes, Render

(* What is expected of a CRTC is known from the registers before. *)
LEMMA ExpectedKept ==
  ASSUME mcCard' = mcCard, initial' = initial, NEW n, NEW stage
  PROVE  Expected(n, stage)' = Expected(n, stage)
BY DEF Expected, Control, Family

(* So are the CRTCs. *)
LEMMA ScreensKept ==
  ASSUME mcCard \in McCards, mcCard' = mcCard, initial' = initial, waiting' = waiting,
         NEW names, Changes(names), names \cap {"lock", "avivo", "evergreen"} = {},
         NEW k, NEW further, NEW stage, Screens(k, further, stage)
  PROVE  Screens(k, further, stage)'
<1>1. CrtcsOf(mcCard)' = CrtcsOf(mcCard) /\ (Reaches' <=> Reaches)
  BY SameCard
<1>2. ASSUME NEW n \in CrtcsOf(mcCard)
      PROVE  Status(n)' = Status(n)
  <2>1. reg'[Control(n)] = reg[Control(n)] /\ reg'[<<"lock", n>>] = reg[<<"lock", n>>]
    BY RegistersAre DEF Changes, Control
  <2>2. Control(n)' = Control(n)
    BY DEF Control, Family
  <2> QED
    BY <2>1, <2>2 DEF Status
<1> QED
  BY <1>1, <1>2, ExpectedKept DEF Screens

(* One more CRTC is a stage further. *)
LEMMA ScreensStep ==
  ASSUME mcCard \in McCards, mcCard' = mcCard, initial' = initial,
         NEW k \in 0 .. M - 1, NEW further, NEW stage, Screens(k, further, stage),
         \A n \in CrtcsOf(mcCard) : n # k \/ ~Reaches => Status(n)' = Status(n),
         Reaches => Status(k)' = Expected(k, further)
  PROVE  Screens(k + 1, further, stage)' /\ (k + 1 = M => \A next : Screens(0, next, further)')
<1>1. CrtcsOf(mcCard)' = CrtcsOf(mcCard) /\ (Reaches' <=> Reaches)
  BY SameCard
<1>2. \A n \in CrtcsOf(mcCard) : n \in Nat
  BY KnowsFirst
<1>3. ASSUME NEW n \in CrtcsOf(mcCard)
      PROVE  Status(n)' = Expected(n, IF ~Reaches THEN "as it was" ELSE IF n < k + 1 THEN further ELSE stage)
  <2>1. Status(n) = Expected(n, IF ~Reaches THEN "as it was" ELSE IF n < k THEN further ELSE stage)
    BY DEF Screens
  <2>2. CASE ~Reaches
    BY <2>1, <2>2
  <2>3. CASE Reaches /\ n = k
    BY <2>3
  <2>4. CASE Reaches /\ n # k
    <3>1. Status(n)' = Status(n)
      BY <2>4
    <3>2. n < k <=> n < k + 1
      BY <1>2, <2>4
    <3> QED
      BY <2>1, <2>4, <3>1, <3>2
  <2> QED
    BY <2>2, <2>3, <2>4
<1>4. /\ Expected(k, further)' = Expected(k, further)
      /\ \A n : /\ Expected(n, "as it was")' = Expected(n, "as it was")
                /\ Expected(n, further)' = Expected(n, further)
                /\ Expected(n, stage)' = Expected(n, stage)
  BY ExpectedKept
<1>5. ASSUME NEW n \in CrtcsOf(mcCard)
      PROVE  /\ ~Reaches => Status(n)' = Expected(n, "as it was")'
             /\ Reaches /\ n < k + 1 => Status(n)' = Expected(n, further)'
             /\ Reaches /\ ~(n < k + 1) => Status(n)' = Expected(n, stage)'
  BY <1>3, <1>4
<1>6. ASSUME NEW n \in CrtcsOf(mcCard)
      PROVE  (Status(n) = Expected(n, IF ~Reaches THEN "as it was" ELSE IF n < k + 1 THEN further ELSE stage))'
  <2>1. CASE ~Reaches
    BY <1>1, <1>5, <2>1
  <2>2. CASE Reaches /\ n < k + 1
    BY <1>1, <1>5, <2>2
  <2>3. CASE Reaches /\ ~(n < k + 1)
    BY <1>1, <1>5, <2>3
  <2> QED
    BY <2>1, <2>2, <2>3
<1>7. \A n \in CrtcsOf(mcCard)' :
        (Status(n) = Expected(n, IF ~Reaches THEN "as it was" ELSE IF n < k + 1 THEN further ELSE stage))'
  BY <1>1, <1>6
<1>8. Screens(k + 1, further, stage)'
  BY <1>7 DEF Screens
<1>9. ASSUME k + 1 = M, NEW next, NEW n \in CrtcsOf(mcCard)
      PROVE  (Status(n) = Expected(n, IF ~Reaches THEN "as it was" ELSE IF n < 0 THEN next ELSE further))'
  <2>1. ~(n < 0) /\ (Reaches => n < k + 1)
    BY <1>2, <1>9, KnowsFirst
  <2>2. CASE ~Reaches
    BY <1>1, <1>5, <2>2
  <2>3. CASE Reaches
    BY <1>1, <1>5, <2>1, <2>3
  <2> QED
    BY <2>2, <2>3
<1>10. ASSUME k + 1 = M, NEW next
       PROVE  Screens(0, next, further)'
  <2>1. \A n \in CrtcsOf(mcCard)' :
          (Status(n) = Expected(n, IF ~Reaches THEN "as it was" ELSE IF n < 0 THEN next ELSE further))'
    BY <1>1, <1>9, <1>10
  <2> QED
    BY <2>1 DEF Screens
<1> QED
  BY <1>8, <1>10

(* With no CRTC done it does not matter what is being done. *)
LEMMA ScreensFirst ==
  ASSUME mcCard \in McCards, mcCard' = mcCard, NEW further, NEW stage, Screens(0, further, stage)',
         NEW next
  PROVE  Screens(0, next, stage)'
<1>1. CrtcsOf(mcCard)' = CrtcsOf(mcCard)
  BY SameCard
<1>2. \A n \in CrtcsOf(mcCard)' : ~(n < 0)
  BY <1>1, KnowsFirst
<1>3. \A n \in CrtcsOf(mcCard)' :
        (Status(n) = Expected(n, IF ~Reaches THEN "as it was" ELSE IF n < 0 THEN further ELSE stage))'
  BY DEF Screens
<1>4. \A n \in CrtcsOf(mcCard)' :
        (Status(n) = Expected(n, IF ~Reaches THEN "as it was" ELSE IF n < 0 THEN next ELSE stage))'
  <2> TAKE n \in CrtcsOf(mcCard)'
  <2>1. ~(n < 0)
    BY <1>2
  <2> QED
    BY <1>3, <2>1
<1> QED
  BY <1>4 DEF Screens

(* A loop, an access at a time. *)
LEMMA LoopAccess ==
  ASSUME mcCard \in McCards, Access, NEW s \in Seq(Accesses), Len(s) = M,
         NEW rest \in Seq(Accesses), NEW k \in 0 .. M - 1, mcTodo = From(s, k) \o rest
  PROVE  /\ NextAccess = s[k + 1]
         /\ mcTodo' = From(s, k + 1) \o rest
         /\ k + 1 \in 0 .. M - 1 \/ (k + 1 = M /\ mcTodo' = rest)
<1>1. M \in Nat
  BY KnowsFirst
<1>2. Head(mcTodo) = s[k + 1] /\ Tail(mcTodo) = From(s, k + 1) \o rest
  BY <1>1, FromStep
<1>3. From(s, Len(s)) \o rest = rest
  BY FromEnds
<1>4. mcTodo' = Tail(mcTodo)
  BY AccessDone
<1>5. NextAccess = s[k + 1] /\ mcTodo' = From(s, k + 1) \o rest
  BY <1>2, <1>4 DEF NextAccess
<1>6. k + 1 \in 0 .. M - 1 \/ k + 1 = M
  BY <1>1
<1>7. ASSUME k + 1 = M
      PROVE  mcTodo' = rest
  <2>1. From(s, k + 1) = From(s, Len(s))
    BY <1>7
  <2> QED
    BY <1>3, <1>5, <2>1
<1> QED
  BY <1>5, <1>6, <1>7

(* An access that is no part of a loop. *)
LEMMA SingleAccess ==
  ASSUME Access, NEW x \in Accesses, NEW rest \in Seq(Accesses), mcTodo = <<x>> \o rest
  PROVE  NextAccess = x /\ mcTodo' = rest
BY AccessDone, OneStep DEF NextAccess

(* A loop begins where what is before it ends. *)
LEMMA LoopBegins ==
  ASSUME NEW s \in Seq(Accesses), NEW rest \in Seq(Accesses)
  PROVE  s \o rest = From(s, 0) \o rest
BY FromEnds

(* The registers a CRTC is locked, stopped and started with. *)
CrtcNames == {"lock", "avivo", "evergreen"}

(* Writing to them changes nothing else. *)
LEMMA AroundCrtcs ==
  ASSUME mcCard \in McCards, mcCard' = mcCard, initial' = initial, before' = before,
         Changes(CrtcNames)
  PROVE  /\ Unmoved => Unmoved'
         /\ Quiet => Quiet'
         /\ NoReset => NoReset'
         /\ HostBack => HostBack'
         /\ \A k : ShownTo(k) => ShownTo(k)'
         /\ \A low, high : VgaOffOn(low, high) => VgaOffOn(low, high)'
<1>1. /\ "vga" \notin CrtcNames /\ "surface" \notin CrtcNames /\ "location" \notin CrtcNames
      /\ "hdp" \notin CrtcNames /\ "engine reset" \notin CrtcNames /\ "cp reset" \notin CrtcNames
      /\ "render" \notin CrtcNames
  BY DEF CrtcNames
<1>2. NoReset => NoReset'
  BY <1>1, ResetsKept
<1>3. HostBack => HostBack'
  BY <1>1, HostKept
<1>4. ShownRight => ShownRight'
  BY <1>1, PictureKept
<1>5. ASSUME Unmoved
      PROVE  Unmoved'
  BY <1>2, <1>3, <1>4, <1>5 DEF Unmoved
<1>6. ASSUME Quiet
      PROVE  Quiet'
  <2>1. (reg[Render] = 0)' /\ Saved'
    BY <1>1, <1>6, RenderKept DEF Quiet, Saved
  <2> QED
    BY <2>1 DEF Quiet
<1>7. ASSUME NEW k, ShownTo(k)
      PROVE  ShownTo(k)'
  BY <1>1, <1>7, SurfacesKept
<1>8. ASSUME NEW low, NEW high, VgaOffOn(low, high)
      PROVE  VgaOffOn(low, high)'
  BY <1>1, <1>8, VgaKept
<1> QED
  BY <1>2, <1>3, <1>5, <1>6, <1>7, <1>8

(* A lock is set: on the cards whose registers the driver writes, and on no *)
(* other CRTC.                                                             *)
LEMMA LockDoes ==
  ASSUME Typed, mcCard' = mcCard, NEW k \in 0 .. M - 1, Written(LockReg(k), 1)
  PROVE  /\ Changes(CrtcNames)
         /\ \A n \in CrtcsOf(mcCard) : n # k \/ ~Reaches => Status(n)' = Status(n)
         /\ Reaches => \A x, y, z : Status(k) = <<x, y, z>> => Status(k)' = <<x, 1, z>>
<1>1. mcCard \in McCards /\ reg \in [Registers(mcCard) -> {0, 1}]
      /\ waiting \in [CrtcsOf(mcCard) -> {-1, 0, 1}]
  BY DEF Typed, MemoryTypeOK
<1>2. k \in CrtcsOf(mcCard)
  BY <1>1, KnowsFirst
<1>3. CASE Reaches
  <2>1. LockReg(k) = <<"lock", k>>
    BY <1>3 DEF LockReg
  <2>2. reg' = [reg EXCEPT ![<<"lock", k>>] = 1] /\ waiting' = waiting
    BY <1>2, <2>1, LockWrite
  <2>3. Changes(CrtcNames)
    BY <1>1, <2>2 DEF Changes, CrtcNames
  <2>4. \A n \in CrtcsOf(mcCard) : /\ Control(n) # <<"lock", k>>
                                   /\ reg'[Control(n)] = reg[Control(n)]
                                   /\ n # k => reg'[<<"lock", n>>] = reg[<<"lock", n>>]
    BY <1>1, <2>2, RegistersAre DEF Control
  <2>5. reg'[<<"lock", k>>] = 1
    BY <1>1, <1>2, <2>2, RegistersAre
  <2>6. \A n : Control(n)' = Control(n)
    BY DEF Control, Family
  <2>7. \A n \in CrtcsOf(mcCard) : n # k => Status(n)' = Status(n)
    BY <2>2, <2>4, <2>6 DEF Status
  <2>8. \A x, y, z : Status(k) = <<x, y, z>> => Status(k)' = <<x, 1, z>>
    BY <1>2, <2>2, <2>4, <2>5, <2>6 DEF Status
  <2> QED
    BY <1>3, <2>3, <2>7, <2>8
<1>4. CASE ~Reaches
  <2>1. LockReg(k) \notin Registers(mcCard)
    BY <1>1, <1>4, RegistersAre DEF LockReg
  <2>2. reg' = reg /\ waiting' = waiting
    BY <2>1, NoWrite
  <2>3. \A n : Status(n)' = Status(n)
    BY <2>2 DEF Status, Control, Family
  <2> QED
    BY <1>4, <2>2, <2>3 DEF Changes
<1> QED
  BY <1>3, <1>4

(* What is written to a locked CRTC's control waits. *)
LEMMA ControlDoes ==
  ASSUME Typed, mcCard' = mcCard, NEW k \in 0 .. M - 1, NEW v,
         Reaches => Status(k)[2] = 1 /\ Written(CrtcReg(k), v),
         ~Reaches => reg' = reg /\ waiting' = waiting
  PROVE  /\ Changes(CrtcNames)
         /\ \A n \in CrtcsOf(mcCard) : n # k \/ ~Reaches => Status(n)' = Status(n)
         /\ Reaches => \A x, y, z : Status(k) = <<x, y, z>> => Status(k)' = <<x, 1, v>>
<1>1. mcCard \in McCards /\ waiting \in [CrtcsOf(mcCard) -> {-1, 0, 1}]
  BY DEF Typed, MemoryTypeOK
<1>2. k \in CrtcsOf(mcCard)
  BY <1>1, KnowsFirst
<1>3. CASE Reaches
  <2>1. CrtcReg(k) = Control(k)
    BY <1>1, <1>3, RegistersAre
  <2>2. reg[<<"lock", k>>] = 1
    BY <1>3 DEF Status
  <2>3. reg' = reg /\ waiting' = [waiting EXCEPT ![k] = v]
    BY <1>2, <1>3, <2>1, <2>2, LockedWrite
  <2>4. \A n : Control(n)' = Control(n)
    BY DEF Control, Family
  <2>5. \A n \in CrtcsOf(mcCard) : n # k => Status(n)' = Status(n)
    BY <1>1, <2>3, <2>4 DEF Status
  <2>6. \A x, y, z : Status(k) = <<x, y, z>> => Status(k)' = <<x, 1, v>>
    BY <1>1, <1>2, <2>2, <2>3, <2>4 DEF Status
  <2>7. Changes(CrtcNames)
    BY <2>3 DEF Changes
  <2> QED
    BY <1>3, <2>5, <2>6, <2>7
<1>4. CASE ~Reaches
  <2>1. \A n : Status(n)' = Status(n)
    BY <1>4 DEF Status, Control, Family
  <2> QED
    BY <1>4, <2>1 DEF Changes
<1> QED
  BY <1>3, <1>4

(* An unlock lets through what waits behind the lock. *)
LEMMA UnlockDoes ==
  ASSUME Typed, mcCard' = mcCard, NEW k \in 0 .. M - 1, Written(LockReg(k), 0),
         Reaches => Status(k)[3] # -1
  PROVE  /\ Changes(CrtcNames)
         /\ \A n \in CrtcsOf(mcCard) : n # k \/ ~Reaches => Status(n)' = Status(n)
         /\ Reaches => \A x, y, z : Status(k) = <<x, y, z>> => Status(k)' = <<z, 0, -1>>
<1>1. mcCard \in McCards /\ reg \in [Registers(mcCard) -> {0, 1}]
      /\ waiting \in [CrtcsOf(mcCard) -> {-1, 0, 1}]
  BY DEF Typed, MemoryTypeOK
<1>2. k \in CrtcsOf(mcCard)
  BY <1>1, KnowsFirst
<1>3. CASE Reaches
  <2>1. LockReg(k) = <<"lock", k>>
    BY <1>3 DEF LockReg
  <2>2. waiting[k] # -1
    BY <1>3 DEF Status
  <2>3. /\ reg' = [reg EXCEPT ![<<"lock", k>>] = 0, ![Control(k)] = waiting[k]]
        /\ waiting' = [waiting EXCEPT ![k] = -1]
    BY <1>2, <2>1, <2>2, UnlockWrite
  <2>4. Family(mcCard) \in {"avivo", "evergreen"}
    BY <1>1, RegistersAre
  <2>5. \A n \in CrtcsOf(mcCard) : Control(n) \in Registers(mcCard) /\ <<"lock", n>> \in Registers(mcCard)
    BY <1>1, RegistersAre
  <2>6. \A n, m : Control(n) # <<"lock", m>> /\ (n # m => Control(n) # Control(m))
    BY <2>4 DEF Control
  <2>7. \A n \in CrtcsOf(mcCard) : n # k => /\ reg'[Control(n)] = reg[Control(n)]
                                            /\ reg'[<<"lock", n>>] = reg[<<"lock", n>>]
    BY <1>1, <2>3, <2>5, <2>6
  <2>8. reg'[<<"lock", k>>] = 0 /\ reg'[Control(k)] = waiting[k]
    BY <1>1, <1>2, <2>3, <2>5, <2>6
  <2>9. \A n : Control(n)' = Control(n)
    BY DEF Control, Family
  <2>10. \A n \in CrtcsOf(mcCard) : n # k => Status(n)' = Status(n)
    BY <1>1, <2>3, <2>7, <2>9 DEF Status
  <2>11. \A x, y, z : Status(k) = <<x, y, z>> => Status(k)' = <<z, 0, -1>>
    BY <1>1, <1>2, <2>3, <2>8, <2>9 DEF Status
  <2>12. Changes(CrtcNames)
    BY <1>1, <2>3, <2>4 DEF Changes, CrtcNames, Control
  <2> QED
    BY <1>3, <2>10, <2>11, <2>12
<1>4. CASE ~Reaches
  <2>1. LockReg(k) \notin Registers(mcCard)
    BY <1>1, <1>4, RegistersAre DEF LockReg
  <2>2. reg' = reg /\ waiting' = waiting
    BY <2>1, NoWrite
  <2>3. \A n : Status(n)' = Status(n)
    BY <2>2 DEF Status, Control, Family
  <2> QED
    BY <1>4, <2>2, <2>3 DEF Changes
<1> QED
  BY <1>3, <1>4

(* The CRTC that is next is still at the stage the loop takes it from. *)
LEMMA NextCrtc ==
  ASSUME mcCard \in McCards, NEW k \in 0 .. M - 1, NEW further, NEW stage,
         Screens(k, further, stage), Reaches
  PROVE  Status(k) = Expected(k, stage)
<1>1. k \in CrtcsOf(mcCard) /\ M \in Nat
  BY KnowsFirst
<1>2. ~(k < k)
  BY <1>1
<1> QED
  BY <1>1, <1>2 DEF Screens

Still == reg'[Location] = reg[Location]

(* Registers of some names only change; the memory stays if "location" is   *)
(* not one of them.                                                        *)
LEMMA StillKept ==
  ASSUME mcCard \in McCards, NEW names, Changes(names), "location" \notin names
  PROVE  Still
BY RegistersAre DEF Changes, Still, Location

(* A write that no lock guards changes one register. *)
LEMMA PlainChanges ==
  ASSUME Typed, NEW r \in Registers(mcCard), NEW v \in {0, 1}, Written(r, v),
         r[1] \notin CrtcNames
  PROVE  Changes({r[1]}) /\ reg'[r] = v /\ waiting' = waiting
         /\ \A q \in Registers(mcCard) : q # r => reg'[q] = reg[q]
<1>1. reg \in [Registers(mcCard) -> {0, 1}] /\ reg' = [reg EXCEPT ![r] = v] /\ waiting' = waiting
  BY PlainWrite DEF CrtcNames, Typed, MemoryTypeOK
<1> QED
  BY <1>1 DEF Changes

(* Writing to VGA's controls changes nothing else. *)
LEMMA AroundVga ==
  ASSUME mcCard \in McCards, mcCard' = mcCard, initial' = initial, before' = before,
         waiting' = waiting, Changes({"vga"})
  PROVE  /\ Unmoved => Unmoved'
         /\ Quiet => Quiet'
         /\ NoReset => NoReset'
         /\ HostBack => HostBack'
         /\ \A k : ShownTo(k) => ShownTo(k)'
         /\ \A k, further, stage : Screens(k, further, stage) => Screens(k, further, stage)'
<1> DEFINE names == {"vga"}
<1>1. /\ "surface" \notin names /\ "location" \notin names
      /\ "hdp" \notin names /\ "engine reset" \notin names /\ "cp reset" \notin names
      /\ "render" \notin names /\ names \cap {"lock", "avivo", "evergreen"} = {}
  OBVIOUS
<1>2. Changes(names)
  OBVIOUS
<1> HIDE DEF names
<1>3. NoReset => NoReset'
  BY <1>1, <1>2, ResetsKept
<1>4. HostBack => HostBack'
  BY <1>1, <1>2, HostKept
<1>5. ShownRight => ShownRight'
  BY <1>1, <1>2, PictureKept
<1>6. ASSUME Unmoved
      PROVE  Unmoved'
  BY <1>3, <1>4, <1>5, <1>6 DEF Unmoved
<1>7. ASSUME Quiet
      PROVE  Quiet'
  <2>1. (reg[Render] = 0)' /\ Saved'
    BY <1>1, <1>2, <1>7, RenderKept DEF Quiet, Saved
  <2> QED
    BY <2>1 DEF Quiet
<1>8. ASSUME NEW k, ShownTo(k)
      PROVE  ShownTo(k)'
  BY <1>1, <1>2, <1>8, SurfacesKept
<1>9. ASSUME NEW k, NEW further, NEW stage, Screens(k, further, stage)
      PROVE  Screens(k, further, stage)'
  BY <1>1, <1>2, <1>9, ScreensKept
<1> QED
  BY <1>3, <1>4, <1>6, <1>7, <1>8, <1>9

(* Some facts of the type invariant. *)
LEMMA TypedFacts ==
  ASSUME Typed
  PROVE  /\ mcCard \in McCards /\ reg \in [Registers(mcCard) -> {0, 1}]
         /\ DOMAIN reg = Registers(mcCard)
         /\ initial \in [Registers(mcCard) -> {0, 1}] /\ before \in [Registers(mcCard) -> {0, 1}]
         /\ mcTodo \in Seq(Accesses) /\ M \in Nat /\ M >= 2
BY KnowsFirst DEF Typed, MemoryTypeOK

-----------------------------------------------------------------------------
(* radeon_gpu_mc_halt() *)

(* The registers are saved. *)
LEMMA SaveStep ==
  ASSUME Typed, Access, NEW rest \in Seq(Accesses), HaltSave(rest)
  PROVE  HaltRender(rest)' /\ Still
<1>1. mcCard \in McCards
  BY TypedFacts
<1>2. NextAccess = Save /\ mcTodo' = OffRender(rest)
  BY <1>1, SingleAccess, SingleAccesses, OffIsSeq DEF HaltSave, Off
<1>3. /\ mcCard' = mcCard /\ initial' = initial /\ before' = reg /\ reg' = reg
      /\ waiting' = waiting
  BY <1>2, AccessDone
<1>4. Changes({})
  BY <1>3 DEF Changes
<1>5. NoReset' /\ HostBack' /\ ShownRight'
  BY <1>1, <1>3, <1>4, ResetsKept, HostKept, PictureKept DEF HaltSave, Unmoved
<1>6. Lit'
  <2>1. Screens(0, "as it was", "as it was") /\ VgaOffOn(0, 0)
    BY DEF HaltSave, Lit
  <2>2. Screens(0, "as it was", "as it was")'
    BY <1>1, <1>3, <1>4, <2>1, ScreensKept
  <2>3. VgaOffOn(0, 0)'
    BY <1>1, <1>3, <1>4, <2>1, VgaKept
  <2> QED
    BY <2>2, <2>3 DEF Lit
<1>7. Saved'
  BY <1>3 DEF HaltSave, Saved
<1>8. mcTodo' = OffRender(rest)'
  BY <1>1, <1>2, <1>3, SameParts
<1> QED
  BY <1>3, <1>5, <1>6, <1>7, <1>8 DEF HaltRender, Unmoved, Still

(* VGA stops to render. *)
LEMMA RenderStep ==
  ASSUME Typed, Access, NEW rest \in Seq(Accesses), HaltRender(rest)
  PROVE  HaltLock(rest, 0)' /\ Still
<1>1. mcCard \in McCards
  BY TypedFacts
<1>2. NextAccess = W(Render, 0) /\ mcTodo' = OffLock(rest)
  BY <1>1, SingleAccess, SingleAccesses, OffIsSeq DEF HaltRender, OffRender
<1>3. /\ mcCard' = mcCard /\ initial' = initial /\ before' = before /\ Written(Render, 0)
  BY <1>2, AccessDone
<1> DEFINE names == {"render"}
<1>4. Changes(names) /\ reg'[Render] = 0 /\ waiting' = waiting
  <2>1. Render \in Registers(mcCard) /\ Render[1] = "render" /\ "render" \notin CrtcNames
    BY <1>1, RegistersAre DEF Render, CrtcNames
  <2> QED
    BY <1>3, <2>1, PlainChanges
<1>5. /\ "surface" \notin names /\ "location" \notin names /\ "vga" \notin names
      /\ "hdp" \notin names /\ "engine reset" \notin names /\ "cp reset" \notin names
      /\ names \cap {"lock", "avivo", "evergreen"} = {}
  OBVIOUS
<1> HIDE DEF names
<1>6. NoReset' /\ HostBack' /\ ShownRight'
  BY <1>1, <1>3, <1>4, <1>5, ResetsKept, HostKept, PictureKept DEF HaltRender, Unmoved
<1>7. Screens(0, "as it was", "as it was") /\ VgaOffOn(0, 0)
  BY DEF HaltRender, Lit
<1>8. Screens(0, "as it was", "as it was")'
  BY <1>1, <1>3, <1>4, <1>5, <1>7, ScreensKept
<1>9. Screens(0, "locked", "as it was")'
  BY <1>1, <1>3, <1>8, ScreensFirst
<1>10. VgaOffOn(0, 0)'
  BY <1>1, <1>3, <1>4, <1>5, <1>7, VgaKept
<1>11. Quiet'
  BY <1>3, <1>4 DEF HaltRender, Saved, Quiet, Render
<1>12. mcTodo' = From(Each(Lock)', 0) \o OffStop(rest)'
  <2>1. Each(Lock) \in Seq(Accesses) /\ OffStop(rest) \in Seq(Accesses)
    BY <1>1, EachIs, OffIsSeq
  <2>2. OffLock(rest) = From(Each(Lock), 0) \o OffStop(rest)
    BY <2>1, LoopBegins DEF OffLock
  <2>3. Each(Lock)' = Each(Lock) /\ OffStop(rest)' = OffStop(rest)
    BY <1>1, <1>3, SameCard, SameParts
  <2> QED
    BY <1>2, <2>2, <2>3
<1>13. Still
  BY <1>1, <1>4, <1>5, StillKept
<1> QED
  BY <1>6, <1>9, <1>10, <1>11, <1>12, <1>13 DEF HaltLock, Unmoved, From

(* The CRTCs are locked one after the other. *)
LEMMA LockStep ==
  ASSUME Typed, Access, NEW rest \in Seq(Accesses), NEW k \in 0 .. M - 1, HaltLock(rest, k)
  PROVE  /\ (k + 1 \in 0 .. M - 1 /\ HaltLock(rest, k + 1)') \/ HaltStop(rest, 0)'
         /\ Still
<1>1. mcCard \in McCards
  BY TypedFacts
<1> DEFINE s == Each(Lock)
<1>2. s \in Seq(Accesses) /\ Len(s) = M /\ s[k + 1] = Lock(k) /\ OffStop(rest) \in Seq(Accesses)
  BY <1>1, EachIs, OffIsSeq
<1>3. mcTodo = From(s, k) \o OffStop(rest)
  BY DEF HaltLock
<1>4. s' = s
  BY <1>1, AccessDone, SameCard
<1> HIDE DEF s
<1>5. /\ NextAccess = s[k + 1] /\ mcTodo' = From(s, k + 1) \o OffStop(rest)
      /\ k + 1 \in 0 .. M - 1 \/ (k + 1 = M /\ mcTodo' = OffStop(rest))
  BY <1>1, <1>2, <1>3, LoopAccess
<1>6. /\ mcCard' = mcCard /\ initial' = initial /\ before' = before /\ Written(LockReg(k), 1)
  BY <1>2, <1>5, AccessDone DEF Lock
<1>7. /\ Changes(CrtcNames)
      /\ \A n \in CrtcsOf(mcCard) : n # k \/ ~Reaches => Status(n)' = Status(n)
      /\ Reaches => \A x, y, z : Status(k) = <<x, y, z>> => Status(k)' = <<x, 1, z>>
  BY <1>6, LockDoes
<1>8. Unmoved' /\ Quiet' /\ VgaOffOn(0, 0)' /\ Still
  BY <1>1, <1>6, <1>7, AroundCrtcs, StillKept DEF HaltLock, CrtcNames
<1>9. Screens(k, "locked", "as it was")
  BY DEF HaltLock
<1>10. Reaches => Status(k)' = Expected(k, "locked")
  <2>1. Reaches => Status(k) = Expected(k, "as it was")
    BY <1>1, <1>9, NextCrtc
  <2>2. /\ Expected(k, "as it was") = <<initial[Control(k)], 0, -1>>
        /\ Expected(k, "locked") = <<initial[Control(k)], 1, -1>>
    BY DEF Expected
  <2> QED
    BY <1>7, <2>1, <2>2
<1>11. Screens(k + 1, "locked", "as it was")' /\ (k + 1 = M => Screens(0, "stopping", "locked")')
  BY <1>1, <1>6, <1>7, <1>9, <1>10, ScreensStep
<1>12. CASE k + 1 \in 0 .. M - 1
  <2>1. mcTodo' = From(Each(Lock), k + 1)' \o OffStop(rest)'
    BY <1>1, <1>4, <1>5, <1>6, SameParts DEF From, s
  <2> QED
    BY <1>8, <1>11, <1>12, <2>1 DEF HaltLock
<1>13. CASE k + 1 = M /\ mcTodo' = OffStop(rest)
  <2>1. mcTodo' = From(Each(StopCrtc), 0)' \o OffUnlock(rest)'
    <3>1. Each(StopCrtc) \in Seq(Accesses) /\ OffUnlock(rest) \in Seq(Accesses)
      BY <1>1, EachIs, OffIsSeq
    <3>2. OffStop(rest) = From(Each(StopCrtc), 0) \o OffUnlock(rest)
      BY <3>1, LoopBegins DEF OffStop
    <3>3. Each(StopCrtc)' = Each(StopCrtc) /\ OffUnlock(rest)' = OffUnlock(rest)
      BY <1>1, <1>6, SameCard, SameParts
    <3> QED
      BY <1>13, <3>2, <3>3 DEF From
  <2> QED
    BY <1>8, <1>11, <1>13, <2>1 DEF HaltStop
<1> QED
  BY <1>5, <1>8, <1>12, <1>13

(* Everything is still shown where the memory is. *)
LEMMA AllShownKept ==
  ASSUME mcCard \in McCards, mcCard' = mcCard,
         NEW names, Changes(names), "surface" \notin names, ShownTo(M)
  PROVE  ShownTo(M)'
<1>1. M' = M
  BY SameCard
<1>2. ASSUME NEW j, j = M
      PROVE  ShownTo(j)'
  BY <1>2, SurfacesKept
<1> QED
  BY <1>1, <1>2 DEF ShownTo

(* VGA is still off on the CRTCs from one on. *)
LEMMA VgaStaysOff ==
  ASSUME mcCard \in McCards, mcCard' = mcCard, initial' = initial,
         NEW names, Changes(names), "vga" \notin names, NEW low, VgaOffOn(low, M)
  PROVE  VgaOffOn(low, M)'
<1>1. M' = M
  BY SameCard
<1>2. ASSUME NEW j, j = M
      PROVE  VgaOffOn(low, j)'
  BY <1>2, VgaKept
<1> QED
  BY <1>1, <1>2 DEF VgaOffOn

(* The pictures stay off while other registers are written. *)
LEMMA StoppedKept ==
  ASSUME mcCard \in McCards, mcCard' = mcCard, initial' = initial, before' = before,
         waiting' = waiting, NEW names, Changes(names),
         "render" \notin names, "vga" \notin names,
         names \cap {"lock", "avivo", "evergreen"} = {}, Stopped
  PROVE  Stopped'
<1>1. (reg[Render] = 0)'
  BY RenderKept DEF Stopped, Quiet
<1>2. Quiet'
  BY <1>1 DEF Stopped, Quiet, Saved
<1>3. Screens(0, "stopped", "stopped")'
  BY ScreensKept DEF Stopped
<1>4. VgaOffOn(0, M)'
  BY VgaStaysOff DEF Stopped
<1> QED
  BY <1>2, <1>3, <1>4 DEF Stopped

(* The stages a CRTC goes through. *)
LEMMA Stages ==
  ASSUME NEW n
  PROVE  /\ Expected(n, "as it was") = <<initial[Control(n)], 0, -1>>
         /\ Expected(n, "locked") = <<initial[Control(n)], 1, -1>>
         /\ Expected(n, "stopping") = <<initial[Control(n)], 1, 0>>
         /\ Expected(n, "stopped") = <<0, 0, -1>>
         /\ Expected(n, "relocked") = <<0, 1, -1>>
         /\ Expected(n, "starting") = <<0, 1, initial[Control(n)]>>
BY DEF Expected

(* The CRTCs are stopped, under their locks. *)
LEMMA StopStep ==
  ASSUME Typed, Access, NEW rest \in Seq(Accesses), NEW k \in 0 .. M - 1, HaltStop(rest, k)
  PROVE  /\ (k + 1 \in 0 .. M - 1 /\ HaltStop(rest, k + 1)') \/ HaltUnlock(rest, 0)'
         /\ Still
<1>1. mcCard \in McCards /\ initial \in [Registers(mcCard) -> {0, 1}]
  BY TypedFacts
<1> DEFINE s == Each(StopCrtc)
<1>2. s \in Seq(Accesses) /\ Len(s) = M /\ s[k + 1] = StopCrtc(k) /\ OffUnlock(rest) \in Seq(Accesses)
  BY <1>1, EachIs, OffIsSeq
<1>3. mcTodo = From(s, k) \o OffUnlock(rest)
  BY DEF HaltStop
<1>4. s' = s
  BY <1>1, AccessDone, SameCard
<1> HIDE DEF s
<1>5. /\ NextAccess = s[k + 1] /\ mcTodo' = From(s, k + 1) \o OffUnlock(rest)
      /\ k + 1 \in 0 .. M - 1 \/ (k + 1 = M /\ mcTodo' = OffUnlock(rest))
  BY <1>1, <1>2, <1>3, LoopAccess
<1>6. /\ mcCard' = mcCard /\ initial' = initial /\ before' = before /\ Written(CrtcReg(k), 0)
  BY <1>2, <1>5, AccessDone DEF StopCrtc
<1>7. /\ Changes(CrtcNames)
      /\ \A n \in CrtcsOf(mcCard) : n # k \/ ~Reaches => Status(n)' = Status(n)
      /\ Reaches => \A x, y, z : Status(k) = <<x, y, z>> => Status(k)' = <<x, 1, 0>>
  <2>1. Reaches => Status(k)[2] = 1
    <3>1. Reaches => Status(k) = Expected(k, "locked")
      BY <1>1, NextCrtc DEF HaltStop
    <3>2. Expected(k, "locked") = <<initial[Control(k)], 1, -1>>
      BY Stages
    <3> QED
      BY <3>1, <3>2
  <2>2. ~Reaches => reg' = reg /\ waiting' = waiting
    BY <1>1, <1>6, RegistersAre, NoWrite
  <2> QED
    BY <1>6, <2>1, <2>2, ControlDoes
<1>8. Unmoved' /\ Quiet' /\ VgaOffOn(0, 0)' /\ Still
  BY <1>1, <1>6, <1>7, AroundCrtcs, StillKept DEF HaltStop, CrtcNames
<1>9. Screens(k, "stopping", "locked")
  BY DEF HaltStop
<1>10. Reaches => Status(k)' = Expected(k, "stopping")
  <2>1. Reaches => Status(k) = Expected(k, "locked")
    BY <1>1, <1>9, NextCrtc
  <2> QED
    BY <1>7, <2>1, Stages
<1>11. /\ Screens(k + 1, "stopping", "locked")'
       /\ k + 1 = M => Screens(0, "stopped", "stopping")'
  BY <1>1, <1>6, <1>7, <1>9, <1>10, ScreensStep
<1>12. CASE k + 1 \in 0 .. M - 1
  <2>1. mcTodo' = From(Each(StopCrtc), k + 1)' \o OffUnlock(rest)'
    BY <1>1, <1>4, <1>5, <1>6, SameParts DEF From, s
  <2> QED
    BY <1>8, <1>11, <1>12, <2>1 DEF HaltStop
<1>13. CASE k + 1 = M /\ mcTodo' = OffUnlock(rest)
  <2>1. mcTodo' = From(Each(Unlock), 0)' \o OffVga(rest)'
    <3>1. Each(Unlock) \in Seq(Accesses) /\ OffVga(rest) \in Seq(Accesses)
      BY <1>1, EachIs, OffIsSeq
    <3>2. OffUnlock(rest) = From(Each(Unlock), 0) \o OffVga(rest)
      BY <3>1, LoopBegins DEF OffUnlock
    <3>3. Each(Unlock)' = Each(Unlock) /\ OffVga(rest)' = OffVga(rest)
      BY <1>1, <1>6, SameCard, SameParts
    <3> QED
      BY <1>13, <3>2, <3>3 DEF From
  <2> QED
    BY <1>8, <1>11, <1>13, <2>1 DEF HaltUnlock
<1> QED
  BY <1>5, <1>8, <1>12, <1>13

(* The unlock stops them. *)
LEMMA UnlockStep ==
  ASSUME Typed, Access, NEW rest \in Seq(Accesses), NEW k \in 0 .. M - 1, HaltUnlock(rest, k)
  PROVE  /\ (k + 1 \in 0 .. M - 1 /\ HaltUnlock(rest, k + 1)') \/ HaltVga(rest, 0)'
         /\ Still
<1>1. mcCard \in McCards /\ initial \in [Registers(mcCard) -> {0, 1}]
  BY TypedFacts
<1> DEFINE s == Each(Unlock)
<1>2. s \in Seq(Accesses) /\ Len(s) = M /\ s[k + 1] = Unlock(k) /\ OffVga(rest) \in Seq(Accesses)
  BY <1>1, EachIs, OffIsSeq
<1>3. mcTodo = From(s, k) \o OffVga(rest)
  BY DEF HaltUnlock
<1>4. s' = s
  BY <1>1, AccessDone, SameCard
<1> HIDE DEF s
<1>5. /\ NextAccess = s[k + 1] /\ mcTodo' = From(s, k + 1) \o OffVga(rest)
      /\ k + 1 \in 0 .. M - 1 \/ (k + 1 = M /\ mcTodo' = OffVga(rest))
  BY <1>1, <1>2, <1>3, LoopAccess
<1>6. /\ mcCard' = mcCard /\ initial' = initial /\ before' = before /\ Written(LockReg(k), 0)
  BY <1>2, <1>5, AccessDone DEF Unlock
<1>7. /\ Changes(CrtcNames)
      /\ \A n \in CrtcsOf(mcCard) : n # k \/ ~Reaches => Status(n)' = Status(n)
      /\ Reaches => \A x, y, z : Status(k) = <<x, y, z>> => Status(k)' = <<z, 0, -1>>
  <2>1. Reaches => Status(k)[3] # -1
    <3>1. initial[Control(k)] \in {0, 1}
      BY <1>1, KnowsFirst, RegistersAre
    <3>2. Reaches => Status(k) = Expected(k, "stopping")
      BY <1>1, NextCrtc DEF HaltUnlock
    <3>3. Expected(k, "stopping") = <<initial[Control(k)], 1, 0>>
      BY Stages
    <3> QED
      BY <3>1, <3>2, <3>3
  <2> QED
    BY <1>6, <2>1, UnlockDoes
<1>8. Unmoved' /\ Quiet' /\ VgaOffOn(0, 0)' /\ Still
  BY <1>1, <1>6, <1>7, AroundCrtcs, StillKept DEF HaltUnlock, CrtcNames
<1>9. Screens(k, "stopped", "stopping")
  BY DEF HaltUnlock
<1>10. Reaches => Status(k)' = Expected(k, "stopped")
  <2>1. Reaches => Status(k) = Expected(k, "stopping")
    BY <1>1, <1>9, NextCrtc
  <2> QED
    BY <1>7, <2>1, Stages
<1>11. /\ Screens(k + 1, "stopped", "stopping")'
       /\ k + 1 = M => Screens(0, "stopped", "stopped")'
  BY <1>1, <1>6, <1>7, <1>9, <1>10, ScreensStep
<1>12. CASE k + 1 \in 0 .. M - 1
  <2>1. mcTodo' = From(Each(Unlock), k + 1)' \o OffVga(rest)'
    BY <1>1, <1>4, <1>5, <1>6, SameParts DEF From, s
  <2> QED
    BY <1>8, <1>11, <1>12, <2>1 DEF HaltUnlock
<1>13. CASE k + 1 = M /\ mcTodo' = OffVga(rest)
  <2>1. mcTodo' = From(Each(VgaOff), 0)' \o rest'
    <3>1. Each(VgaOff) \in Seq(Accesses) /\ rest \in Seq(Accesses)
      BY <1>1, EachIs, OffIsSeq
    <3>2. OffVga(rest) = From(Each(VgaOff), 0) \o rest
      BY <3>1, LoopBegins DEF OffVga
    <3>3. Each(VgaOff)' = Each(VgaOff) /\ rest' = rest
      BY <1>1, <1>6, SameCard, SameParts
    <3> QED
      BY <1>13, <3>2, <3>3 DEF From
  <2> QED
    BY <1>8, <1>11, <1>13, <2>1 DEF HaltVga
<1> QED
  BY <1>5, <1>8, <1>12, <1>13

(* Resuming, the CRTCs are locked again. *)
LEMMA RelockStep ==
  ASSUME Typed, Access, NEW rest \in Seq(Accesses), NEW k \in 0 .. M - 1, ResumeLock(rest, k)
  PROVE  /\ (k + 1 \in 0 .. M - 1 /\ ResumeLock(rest, k + 1)') \/ ResumeStart(rest, 0)'
         /\ Still
<1>1. mcCard \in McCards /\ initial \in [Registers(mcCard) -> {0, 1}]
  BY TypedFacts
<1> DEFINE s == Each(Lock)
<1>2. s \in Seq(Accesses) /\ Len(s) = M /\ s[k + 1] = Lock(k) /\ OnStart(rest) \in Seq(Accesses)
  BY <1>1, EachIs, OnIsSeq
<1>3. mcTodo = From(s, k) \o OnStart(rest)
  BY DEF ResumeLock
<1>4. s' = s
  BY <1>1, AccessDone, SameCard
<1> HIDE DEF s
<1>5. /\ NextAccess = s[k + 1] /\ mcTodo' = From(s, k + 1) \o OnStart(rest)
      /\ k + 1 \in 0 .. M - 1 \/ (k + 1 = M /\ mcTodo' = OnStart(rest))
  BY <1>1, <1>2, <1>3, LoopAccess
<1>6. /\ mcCard' = mcCard /\ initial' = initial /\ before' = before /\ Written(LockReg(k), 1)
  BY <1>2, <1>5, AccessDone DEF Lock
<1>7. /\ Changes(CrtcNames)
      /\ \A n \in CrtcsOf(mcCard) : n # k \/ ~Reaches => Status(n)' = Status(n)
      /\ Reaches => \A x, y, z : Status(k) = <<x, y, z>> => Status(k)' = <<x, 1, z>>
  BY <1>6, LockDoes
<1>8. Quiet' /\ NoReset' /\ ShownTo(M)' /\ HostBack' /\ VgaOffOn(0, 0)' /\ Still
  <2>1. "surface" \notin CrtcNames /\ "location" \notin CrtcNames
    BY DEF CrtcNames
  <2> QED
    BY <1>1, <1>6, <1>7, <2>1, AroundCrtcs, AllShownKept, StillKept DEF ResumeLock
<1>9. Screens(k, "relocked", "stopped")
  BY DEF ResumeLock
<1>10. Reaches => Status(k)' = Expected(k, "relocked")
  <2>1. Reaches => Status(k) = Expected(k, "stopped")
    BY <1>1, <1>9, NextCrtc
  <2> QED
    BY <1>7, <2>1, Stages
<1>11. /\ Screens(k + 1, "relocked", "stopped")'
       /\ k + 1 = M => Screens(0, "starting", "relocked")'
  BY <1>1, <1>6, <1>7, <1>9, <1>10, ScreensStep
<1>12. CASE k + 1 \in 0 .. M - 1
  <2>1. mcTodo' = From(Each(Lock), k + 1)' \o OnStart(rest)'
    BY <1>1, <1>4, <1>5, <1>6, SameParts DEF From, s
  <2> QED
    BY <1>8, <1>11, <1>12, <2>1 DEF ResumeLock
<1>13. CASE k + 1 = M /\ mcTodo' = OnStart(rest)
  <2>1. mcTodo' = From(Each(StartCrtc), 0)' \o OnUnlock(rest)'
    <3>1. Each(StartCrtc) \in Seq(Accesses) /\ OnUnlock(rest) \in Seq(Accesses)
      BY <1>1, EachIs, OnIsSeq
    <3>2. OnStart(rest) = From(Each(StartCrtc), 0) \o OnUnlock(rest)
      BY <3>1, LoopBegins DEF OnStart
    <3>3. Each(StartCrtc)' = Each(StartCrtc) /\ OnUnlock(rest)' = OnUnlock(rest)
      BY <1>1, <1>6, SameCard, SameParts
    <3> QED
      BY <1>13, <3>2, <3>3 DEF From
  <2> QED
    BY <1>8, <1>11, <1>13, <2>1 DEF ResumeStart
<1> QED
  BY <1>5, <1>8, <1>12, <1>13

(* They are started, under their locks. *)
LEMMA StartStep ==
  ASSUME Typed, Access, NEW rest \in Seq(Accesses), NEW k \in 0 .. M - 1, ResumeStart(rest, k)
  PROVE  /\ (k + 1 \in 0 .. M - 1 /\ ResumeStart(rest, k + 1)') \/ ResumeUnlock(rest, 0)'
         /\ Still
<1>1. mcCard \in McCards /\ initial \in [Registers(mcCard) -> {0, 1}]
  BY TypedFacts
<1> DEFINE s == Each(StartCrtc)
<1>2. s \in Seq(Accesses) /\ Len(s) = M /\ s[k + 1] = StartCrtc(k) /\ OnUnlock(rest) \in Seq(Accesses)
  BY <1>1, EachIs, OnIsSeq
<1>3. mcTodo = From(s, k) \o OnUnlock(rest)
  BY DEF ResumeStart
<1>4. s' = s
  BY <1>1, AccessDone, SameCard
<1> HIDE DEF s
<1>5. /\ NextAccess = s[k + 1] /\ mcTodo' = From(s, k + 1) \o OnUnlock(rest)
      /\ k + 1 \in 0 .. M - 1 \/ (k + 1 = M /\ mcTodo' = OnUnlock(rest))
  BY <1>1, <1>2, <1>3, LoopAccess
<1>6. /\ mcCard' = mcCard /\ initial' = initial /\ before' = before
      /\ IF CrtcReg(k) \in DOMAIN reg THEN Written(CrtcReg(k), before[CrtcReg(k)])
         ELSE reg' = reg /\ waiting' = waiting
  BY <1>2, <1>5, AccessDone DEF StartCrtc
<1>7. /\ Changes(CrtcNames)
      /\ \A n \in CrtcsOf(mcCard) : n # k \/ ~Reaches => Status(n)' = Status(n)
      /\ Reaches => \A x, y, z : Status(k) = <<x, y, z>> => Status(k)' = <<x, 1, initial[Control(k)]>>
  <2>1. Reaches => Status(k)[2] = 1
    <3>1. Reaches => Status(k) = Expected(k, "relocked")
      BY <1>1, NextCrtc DEF ResumeStart
    <3>2. Expected(k, "relocked") = <<0, 1, -1>>
      BY Stages
    <3> QED
      BY <3>1, <3>2
  <2>2. ~Reaches => reg' = reg /\ waiting' = waiting
    BY <1>1, <1>6, RegistersAre, TypedFacts
  <2>3. Reaches => Written(CrtcReg(k), initial[Control(k)])
    <3>1. k \in CrtcsOf(mcCard)
      BY <1>1, KnowsFirst
    <3>2. Reaches => CrtcReg(k) = Control(k) /\ CrtcReg(k) \in DOMAIN reg
      BY <1>1, <3>1, RegistersAre, TypedFacts
    <3>3. before = initial
      BY DEF ResumeStart, Quiet, Saved
    <3> QED
      BY <1>6, <3>2, <3>3
  <2> QED
    BY <1>6, <2>1, <2>2, <2>3, ControlDoes
<1>8. Quiet' /\ NoReset' /\ ShownTo(M)' /\ HostBack' /\ VgaOffOn(0, 0)' /\ Still
  <2>1. "surface" \notin CrtcNames /\ "location" \notin CrtcNames
    BY DEF CrtcNames
  <2> QED
    BY <1>1, <1>6, <1>7, <2>1, AroundCrtcs, AllShownKept, StillKept DEF ResumeStart
<1>9. Screens(k, "starting", "relocked")
  BY DEF ResumeStart
<1>10. Reaches => Status(k)' = Expected(k, "starting")
  <2>1. Reaches => Status(k) = Expected(k, "relocked")
    BY <1>1, <1>9, NextCrtc
  <2> QED
    BY <1>7, <2>1, Stages
<1>11. /\ Screens(k + 1, "starting", "relocked")'
       /\ k + 1 = M => Screens(0, "as it was", "starting")'
  BY <1>1, <1>6, <1>7, <1>9, <1>10, ScreensStep
<1>12. CASE k + 1 \in 0 .. M - 1
  <2>1. mcTodo' = From(Each(StartCrtc), k + 1)' \o OnUnlock(rest)'
    BY <1>1, <1>4, <1>5, <1>6, SameParts DEF From, s
  <2> QED
    BY <1>8, <1>11, <1>12, <2>1 DEF ResumeStart
<1>13. CASE k + 1 = M /\ mcTodo' = OnUnlock(rest)
  <2>1. mcTodo' = From(Each(Unlock), 0)' \o OnRender(rest)'
    <3>1. Each(Unlock) \in Seq(Accesses) /\ OnRender(rest) \in Seq(Accesses)
      BY <1>1, EachIs, OnIsSeq
    <3>2. OnUnlock(rest) = From(Each(Unlock), 0) \o OnRender(rest)
      BY <3>1, LoopBegins DEF OnUnlock
    <3>3. Each(Unlock)' = Each(Unlock) /\ OnRender(rest)' = OnRender(rest)
      BY <1>1, <1>6, SameCard, SameParts
    <3> QED
      BY <1>13, <3>2, <3>3 DEF From
  <2> QED
    BY <1>8, <1>11, <1>13, <2>1 DEF ResumeUnlock
<1> QED
  BY <1>5, <1>8, <1>12, <1>13

(* The unlock starts them. *)
LEMMA ShowAgainStep ==
  ASSUME Typed, Access, NEW rest \in Seq(Accesses), NEW k \in 0 .. M - 1, ResumeUnlock(rest, k)
  PROVE  /\ (k + 1 \in 0 .. M - 1 /\ ResumeUnlock(rest, k + 1)') \/ ResumeRender(rest)'
         /\ Still
<1>1. mcCard \in McCards /\ initial \in [Registers(mcCard) -> {0, 1}]
  BY TypedFacts
<1> DEFINE s == Each(Unlock)
<1>2. s \in Seq(Accesses) /\ Len(s) = M /\ s[k + 1] = Unlock(k) /\ OnRender(rest) \in Seq(Accesses)
  BY <1>1, EachIs, OnIsSeq
<1>3. mcTodo = From(s, k) \o OnRender(rest)
  BY DEF ResumeUnlock
<1>4. s' = s
  BY <1>1, AccessDone, SameCard
<1> HIDE DEF s
<1>5. /\ NextAccess = s[k + 1] /\ mcTodo' = From(s, k + 1) \o OnRender(rest)
      /\ k + 1 \in 0 .. M - 1 \/ (k + 1 = M /\ mcTodo' = OnRender(rest))
  BY <1>1, <1>2, <1>3, LoopAccess
<1>6. /\ mcCard' = mcCard /\ initial' = initial /\ before' = before /\ Written(LockReg(k), 0)
  BY <1>2, <1>5, AccessDone DEF Unlock
<1>7. /\ Changes(CrtcNames)
      /\ \A n \in CrtcsOf(mcCard) : n # k \/ ~Reaches => Status(n)' = Status(n)
      /\ Reaches => \A x, y, z : Status(k) = <<x, y, z>> => Status(k)' = <<z, 0, -1>>
  <2>1. Reaches => Status(k)[3] # -1
    <3>1. initial[Control(k)] \in {0, 1}
      BY <1>1, KnowsFirst, RegistersAre
    <3>2. Reaches => Status(k) = Expected(k, "starting")
      BY <1>1, NextCrtc DEF ResumeUnlock
    <3>3. Expected(k, "starting") = <<0, 1, initial[Control(k)]>>
      BY Stages
    <3> QED
      BY <3>1, <3>2, <3>3
  <2> QED
    BY <1>6, <2>1, UnlockDoes
<1>8. Quiet' /\ NoReset' /\ ShownTo(M)' /\ HostBack' /\ VgaOffOn(0, 0)' /\ Still
  <2>1. "surface" \notin CrtcNames /\ "location" \notin CrtcNames
    BY DEF CrtcNames
  <2> QED
    BY <1>1, <1>6, <1>7, <2>1, AroundCrtcs, AllShownKept, StillKept DEF ResumeUnlock
<1>9. Screens(k, "as it was", "starting")
  BY DEF ResumeUnlock
<1>10. Reaches => Status(k)' = Expected(k, "as it was")
  <2>1. Reaches => Status(k) = Expected(k, "starting")
    BY <1>1, <1>9, NextCrtc
  <2> QED
    BY <1>7, <2>1, Stages
<1>11. /\ Screens(k + 1, "as it was", "starting")'
       /\ k + 1 = M => Screens(0, "as it was", "as it was")'
  BY <1>1, <1>6, <1>7, <1>9, <1>10, ScreensStep
<1>12. CASE k + 1 \in 0 .. M - 1
  <2>1. mcTodo' = From(Each(Unlock), k + 1)' \o OnRender(rest)'
    BY <1>1, <1>4, <1>5, <1>6, SameParts DEF From, s
  <2> QED
    BY <1>8, <1>11, <1>12, <2>1 DEF ResumeUnlock
<1>13. CASE k + 1 = M /\ mcTodo' = OnRender(rest)
  <2>1. mcTodo' = OnRender(rest)'
    BY <1>1, <1>6, <1>13, SameParts
  <2> QED
    BY <1>8, <1>11, <1>13, <2>1 DEF ResumeRender, Lit
<1> QED
  BY <1>5, <1>8, <1>12, <1>13

(* A CRTC's VGA control is written. *)
LEMMA VgaDoes ==
  ASSUME Typed, mcCard' = mcCard, initial' = initial, NEW k \in 0 .. M - 1, NEW v \in {0, 1},
         Written(VgaControl(k), v)
  PROVE  /\ Changes({"vga"}) /\ waiting' = waiting
         /\ v = 0 /\ VgaOffOn(0, k) => VgaOffOn(0, k + 1)' /\ (k + 1 = M => VgaOffOn(0, M)')
         /\ v = initial[VgaControl(k)] /\ VgaOffOn(k, M) =>
              VgaOffOn(k + 1, M)' /\ (k + 1 = M => VgaOffOn(0, 0)')
<1>1. /\ mcCard \in McCards /\ k \in CrtcsOf(mcCard) /\ M \in Nat /\ k \in Nat
      /\ \A n \in CrtcsOf(mcCard) : VgaControl(n) \in Registers(mcCard) /\ n \in Nat
  BY TypedFacts, KnowsFirst, RegistersAre
<1>2. VgaControl(k)[1] = "vga" /\ "vga" \notin CrtcNames
  BY DEF VgaControl, CrtcNames
<1>3. /\ Changes({"vga"}) /\ reg'[VgaControl(k)] = v /\ waiting' = waiting
      /\ \A q \in Registers(mcCard) : q # VgaControl(k) => reg'[q] = reg[q]
  BY <1>1, <1>2, PlainChanges
<1>4. \A n \in CrtcsOf(mcCard) : n # k => reg'[VgaControl(n)] = reg[VgaControl(n)]
  BY <1>1, <1>3 DEF VgaControl
<1>5. CrtcsOf(mcCard)' = CrtcsOf(mcCard) /\ M' = M
  BY <1>1, SameCard
<1>6. ASSUME v = 0, VgaOffOn(0, k)
      PROVE  VgaOffOn(0, k + 1)'
  <2>1. ASSUME NEW n \in CrtcsOf(mcCard)
        PROVE  reg'[VgaControl(n)] = IF 0 <= n /\ n < k + 1 THEN 0 ELSE initial[VgaControl(n)]
    <3>1. CASE n = k
      BY <1>1, <1>3, <1>6, <3>1
    <3>2. CASE n # k
      <4>1. 0 <= n /\ n < k <=> 0 <= n /\ n < k + 1
        BY <1>1, <3>2
      <4> QED
        BY <1>4, <1>6, <3>2, <4>1 DEF VgaOffOn
    <3> QED
      BY <3>1, <3>2
  <2> QED
    BY <1>5, <2>1 DEF VgaOffOn, VgaControl
<1>7. ASSUME v = initial[VgaControl(k)], VgaOffOn(k, M)
      PROVE  VgaOffOn(k + 1, M)'
  <2>1. ASSUME NEW n \in CrtcsOf(mcCard)
        PROVE  reg'[VgaControl(n)] = IF k + 1 <= n /\ n < M THEN 0 ELSE initial[VgaControl(n)]
    <3>1. CASE n = k
      BY <1>1, <1>3, <1>7, <3>1
    <3>2. CASE n # k
      <4>1. k <= n /\ n < M <=> k + 1 <= n /\ n < M
        BY <1>1, <3>2
      <4> QED
        BY <1>4, <1>7, <3>2, <4>1 DEF VgaOffOn
    <3> QED
      BY <3>1, <3>2
  <2> QED
    BY <1>5, <2>1 DEF VgaOffOn, VgaControl
<1>8. ASSUME k + 1 = M, VgaOffOn(0, k + 1)'
      PROVE  VgaOffOn(0, M)'
  BY <1>5, <1>8 DEF VgaOffOn
<1>9. ASSUME k + 1 = M, VgaOffOn(k + 1, M)'
      PROVE  VgaOffOn(0, 0)'
  <2>1. \A n \in CrtcsOf(mcCard) : ~(0 <= n /\ n < 0) /\ ~(k + 1 <= n /\ n < M)
    BY <1>1, <1>9
  <2> QED
    BY <1>5, <1>9, <2>1 DEF VgaOffOn
<1> QED
  BY <1>3, <1>6, <1>7, <1>8, <1>9

(* Halting ends with VGA off on all CRTCs. *)
LEMMA VgaOffStep ==
  ASSUME Typed, Access, NEW rest \in Seq(Accesses), NEW k \in 0 .. M - 1, HaltVga(rest, k)
  PROVE  /\ \/ k + 1 \in 0 .. M - 1 /\ HaltVga(rest, k + 1)'
            \/ mcTodo' = rest /\ Stopped' /\ Unmoved'
         /\ Still
<1>1. mcCard \in McCards
  BY TypedFacts
<1> DEFINE s == Each(VgaOff)
<1>2. s \in Seq(Accesses) /\ Len(s) = M /\ s[k + 1] = VgaOff(k)
  BY <1>1, EachIs
<1>3. mcTodo = From(s, k) \o rest
  BY DEF HaltVga
<1>4. s' = s
  BY <1>1, AccessDone, SameCard
<1> HIDE DEF s
<1>5. /\ NextAccess = s[k + 1] /\ mcTodo' = From(s, k + 1) \o rest
      /\ k + 1 \in 0 .. M - 1 \/ (k + 1 = M /\ mcTodo' = rest)
  BY <1>1, <1>2, <1>3, LoopAccess
<1>6. /\ mcCard' = mcCard /\ initial' = initial /\ before' = before /\ Written(VgaControl(k), 0)
  BY <1>2, <1>5, AccessDone DEF VgaOff
<1>7. /\ Changes({"vga"}) /\ waiting' = waiting
      /\ VgaOffOn(0, k + 1)' /\ (k + 1 = M => VgaOffOn(0, M)')
  BY <1>6, VgaDoes DEF HaltVga
<1>8. Unmoved' /\ Quiet' /\ Screens(0, "stopped", "stopped")'
  BY <1>1, <1>6, <1>7, AroundVga DEF HaltVga
<1>9. Still
  BY <1>1, <1>7, StillKept
<1>10. mcTodo' = From(Each(VgaOff), k + 1)' \o rest
  BY <1>4, <1>5 DEF From, s
<1> QED
  BY <1>5, <1>7, <1>8, <1>9, <1>10 DEF HaltVga, Stopped

(* Resuming, VGA gets its controls back. *)
LEMMA VgaBackStep ==
  ASSUME Typed, Access, NEW rest \in Seq(Accesses), NEW k \in 0 .. M - 1, ResumeVga(rest, k)
  PROVE  /\ (k + 1 \in 0 .. M - 1 /\ ResumeVga(rest, k + 1)') \/ ResumeLock(rest, 0)'
         /\ Still
<1>1. mcCard \in McCards
  BY TypedFacts
<1> DEFINE s == Each(VgaBack)
<1>2. s \in Seq(Accesses) /\ Len(s) = M /\ s[k + 1] = VgaBack(k) /\ OnLock(rest) \in Seq(Accesses)
  BY <1>1, EachIs, OnIsSeq
<1>3. mcTodo = From(s, k) \o OnLock(rest)
  BY DEF ResumeVga
<1>4. s' = s
  BY <1>1, AccessDone, SameCard
<1> HIDE DEF s
<1>5. /\ NextAccess = s[k + 1] /\ mcTodo' = From(s, k + 1) \o OnLock(rest)
      /\ k + 1 \in 0 .. M - 1 \/ (k + 1 = M /\ mcTodo' = OnLock(rest))
  BY <1>1, <1>2, <1>3, LoopAccess
<1>6. /\ mcCard' = mcCard /\ initial' = initial /\ before' = before
      /\ Written(VgaControl(k), initial[VgaControl(k)]) /\ initial[VgaControl(k)] \in {0, 1}
  <2>1. k \in CrtcsOf(mcCard)
    BY <1>1, KnowsFirst
  <2>2. VgaControl(k) \in Registers(mcCard)
    BY <1>1, <2>1, RegistersAre
  <2>3. VgaControl(k) \in DOMAIN reg /\ initial[VgaControl(k)] \in {0, 1}
    BY <2>2, TypedFacts
  <2>4. before = initial
    BY DEF ResumeVga, Quiet, Saved
  <2> QED
    BY <1>2, <1>5, <2>3, <2>4, AccessDone DEF VgaBack
<1>7. /\ Changes({"vga"}) /\ waiting' = waiting
      /\ VgaOffOn(k + 1, M)' /\ (k + 1 = M => VgaOffOn(0, 0)')
  BY <1>6, VgaDoes DEF ResumeVga
<1>8. Quiet' /\ NoReset' /\ HostBack' /\ Screens(0, "stopped", "stopped")'
  BY <1>1, <1>6, <1>7, AroundVga DEF ResumeVga
<1>9. ShownTo(M)' /\ Still
  <2>1. "surface" \notin {"vga"} /\ "location" \notin {"vga"}
    OBVIOUS
  <2> QED
    BY <1>1, <1>6, <1>7, <2>1, StillKept, AllShownKept DEF ResumeVga
<1>10. CASE k + 1 \in 0 .. M - 1
  <2>1. mcTodo' = From(Each(VgaBack), k + 1)' \o OnLock(rest)'
    BY <1>1, <1>4, <1>5, <1>6, SameParts DEF From, s
  <2> QED
    BY <1>7, <1>8, <1>9, <1>10, <2>1 DEF ResumeVga
<1>11. CASE k + 1 = M /\ mcTodo' = OnLock(rest)
  <2>1. mcTodo' = From(Each(Lock), 0)' \o OnStart(rest)'
    <3>1. Each(Lock) \in Seq(Accesses) /\ OnStart(rest) \in Seq(Accesses)
      BY <1>1, EachIs, OnIsSeq
    <3>2. OnLock(rest) = From(Each(Lock), 0) \o OnStart(rest)
      BY <3>1, LoopBegins DEF OnLock
    <3>3. Each(Lock)' = Each(Lock) /\ OnStart(rest)' = OnStart(rest)
      BY <1>1, <1>6, SameCard, SameParts
    <3> QED
      BY <1>11, <3>2, <3>3 DEF From
  <2>2. Screens(0, "relocked", "stopped")'
    BY <1>1, <1>6, <1>8, ScreensFirst
  <2> QED
    BY <1>7, <1>8, <1>9, <1>11, <2>1, <2>2 DEF ResumeLock
<1> QED
  BY <1>5, <1>9, <1>10, <1>11

(* The CRTCs are pointed to where the memory is, on the cards where the     *)
(* driver has the register's address.                                      *)
LEMMA ShowStep ==
  ASSUME Typed, Access, NEW rest \in Seq(Accesses), NEW k \in 0 .. M - 1, ResumeShow(rest, k)
  PROVE  /\ (k + 1 \in 0 .. M - 1 /\ ResumeShow(rest, k + 1)') \/ ResumeHdp(rest)'
         /\ Still
<1>1. mcCard \in McCards /\ k \in CrtcsOf(mcCard) /\ M \in Nat /\ k \in Nat /\ CrtcsOf(mcCard) \subseteq Nat
  BY TypedFacts, KnowsFirst
<1> DEFINE s == Each(Show)
<1>2. s \in Seq(Accesses) /\ Len(s) = M /\ s[k + 1] = Show(k) /\ OnHdp(rest) \in Seq(Accesses)
  BY <1>1, EachIs, OnIsSeq
<1>3. mcTodo = From(s, k) \o OnHdp(rest)
  BY DEF ResumeShow
<1>4. s' = s
  BY <1>1, AccessDone, SameCard
<1> HIDE DEF s
<1>5. /\ NextAccess = s[k + 1] /\ mcTodo' = From(s, k + 1) \o OnHdp(rest)
      /\ k + 1 \in 0 .. M - 1 \/ (k + 1 = M /\ mcTodo' = OnHdp(rest))
  BY <1>1, <1>2, <1>3, LoopAccess
<1>6. /\ mcCard' = mcCard /\ initial' = initial /\ before' = before /\ Written(SurfReg(k), 1)
  BY <1>2, <1>5, AccessDone DEF Show
<1>7. CrtcsOf(mcCard)' = CrtcsOf(mcCard) /\ M' = M /\ (Reaches' <=> Reaches)
  BY <1>1, <1>6, SameCard
<1>8. Changes({"surface"}) /\ waiting' = waiting /\ ShownTo(k + 1)'
  <2>1. CASE Reaches
    <3>1. SurfReg(k) = Surface(k) /\ Surface(k)[1] = "surface" /\ "surface" \notin CrtcNames
      BY <2>1 DEF SurfReg, Surface, CrtcNames
    <3>2. \A n \in CrtcsOf(mcCard) : Surface(n) \in Registers(mcCard)
      BY <1>1, RegistersAre
    <3>3. /\ Changes({"surface"}) /\ waiting' = waiting /\ reg'[Surface(k)] = 1
          /\ \A q \in Registers(mcCard) : q # Surface(k) => reg'[q] = reg[q]
      BY <1>1, <1>6, <3>1, <3>2, PlainChanges
    <3>4. ASSUME NEW n \in CrtcsOf(mcCard), n < k + 1
          PROVE  reg'[Surface(n)] = 1
      <4>1. CASE n = k
        BY <3>3, <4>1
      <4>2. CASE n # k
        <5>1. n < k
          BY <1>1, <3>4, <4>2
        <5>2. Surface(n) # Surface(k)
          BY <4>2 DEF Surface
        <5> QED
          BY <2>1, <3>2, <3>3, <5>1, <5>2 DEF ResumeShow, ShownTo
      <4> QED
        BY <4>1, <4>2
    <3> QED
      BY <1>7, <3>3, <3>4 DEF ShownTo, Surface
  <2>2. CASE ~Reaches
    <3>1. SurfReg(k) \notin Registers(mcCard)
      BY <1>1, <2>2, RegistersAre DEF SurfReg
    <3>2. reg' = reg /\ waiting' = waiting
      BY <1>6, <3>1, NoWrite
    <3> QED
      BY <1>7, <2>2, <3>2 DEF Changes, ShownTo
  <2> QED
    BY <2>1, <2>2
<1> DEFINE names == {"surface"}
<1>9. /\ "render" \notin names /\ "vga" \notin names /\ "location" \notin names
      /\ "engine reset" \notin names /\ "cp reset" \notin names
      /\ names \cap {"lock", "avivo", "evergreen"} = {} /\ Changes(names)
  BY <1>8
<1> HIDE DEF names
<1>10. Stopped' /\ NoReset' /\ Still
  BY <1>1, <1>6, <1>8, <1>9, StoppedKept, ResetsKept, StillKept DEF ResumeShow
<1>11. CASE k + 1 \in 0 .. M - 1
  <2>1. mcTodo' = From(Each(Show), k + 1)' \o OnHdp(rest)'
    BY <1>1, <1>4, <1>5, <1>6, SameParts DEF From, s
  <2> QED
    BY <1>8, <1>10, <1>11, <2>1 DEF ResumeShow
<1>12. CASE k + 1 = M /\ mcTodo' = OnHdp(rest)
  <2>1. mcTodo' = OnHdp(rest)'
    BY <1>1, <1>6, <1>12, SameParts
  <2>2. ShownTo(M)'
    BY <1>7, <1>8, <1>12 DEF ShownTo
  <2> QED
    BY <1>10, <2>1, <2>2 DEF ResumeHdp
<1> QED
  BY <1>5, <1>10, <1>11, <1>12

(* The host has its way to the memory back. *)
LEMMA HdpBackStep ==
  ASSUME Typed, Access, NEW rest \in Seq(Accesses), ResumeHdp(rest)
  PROVE  ResumeVga(rest, 0)' /\ Still
<1>1. mcCard \in McCards
  BY TypedFacts
<1>2. NextAccess = Back(Hdp) /\ mcTodo' = OnVga(rest)
  BY <1>1, SingleAccess, SingleAccesses, OnIsSeq DEF ResumeHdp, OnHdp
<1>3. /\ mcCard' = mcCard /\ initial' = initial /\ before' = before
      /\ Written(Hdp, initial[Hdp]) /\ initial[Hdp] \in {0, 1} /\ Hdp \in Registers(mcCard)
  <2>1. Hdp \in Registers(mcCard)
    BY <1>1, RegistersAre
  <2>2. Hdp \in DOMAIN reg /\ initial[Hdp] \in {0, 1}
    BY <2>1, TypedFacts
  <2>3. before = initial
    BY DEF ResumeHdp, Stopped, Quiet, Saved
  <2> QED
    BY <1>2, <2>1, <2>2, <2>3, AccessDone
<1> DEFINE names == {"hdp"}
<1>4. Changes(names) /\ waiting' = waiting /\ reg'[Hdp] = initial[Hdp]
  <2>1. Hdp[1] = "hdp" /\ "hdp" \notin CrtcNames
    BY DEF Hdp, CrtcNames
  <2> QED
    BY <1>3, <2>1, PlainChanges
<1>5. /\ "render" \notin names /\ "vga" \notin names /\ "location" \notin names
      /\ "engine reset" \notin names /\ "cp reset" \notin names /\ "surface" \notin names
      /\ names \cap {"lock", "avivo", "evergreen"} = {}
  OBVIOUS
<1> HIDE DEF names
<1>6. Stopped' /\ NoReset' /\ Still /\ ShownTo(M)'
  BY <1>1, <1>3, <1>4, <1>5, StoppedKept, ResetsKept, StillKept, AllShownKept DEF ResumeHdp
<1>7. HostBack'
  BY <1>3, <1>4 DEF HostBack, Hdp
<1>8. mcTodo' = From(Each(VgaBack), 0)' \o OnLock(rest)'
  <2>1. Each(VgaBack) \in Seq(Accesses) /\ OnLock(rest) \in Seq(Accesses)
    BY <1>1, EachIs, OnIsSeq
  <2>2. OnVga(rest) = From(Each(VgaBack), 0) \o OnLock(rest)
    BY <2>1, LoopBegins DEF OnVga
  <2>3. Each(VgaBack)' = Each(VgaBack) /\ OnLock(rest)' = OnLock(rest)
    BY <1>1, <1>3, SameCard, SameParts
  <2> QED
    BY <1>2, <2>2, <2>3 DEF From
<1> QED
  BY <1>6, <1>7, <1>8 DEF ResumeVga, Stopped

(* The displays are on again as they were. *)
LEMMA RenderBackStep ==
  ASSUME Typed, Access, NEW rest \in Afterwards, ResumeRender(rest)
  PROVE  Resumed' /\ mcTodo' = rest /\ Still
<1>1. mcCard \in McCards /\ rest \in Seq(Accesses)
  BY TypedFacts, MiddleIsSeq DEF Afterwards
<1>2. NextAccess = Back(Render) /\ mcTodo' = rest
  BY <1>1, SingleAccess, SingleAccesses DEF ResumeRender, OnRender
<1>3. /\ mcCard' = mcCard /\ initial' = initial
      /\ Written(Render, before[Render]) /\ before[Render] \in {0, 1} /\ Render \in Registers(mcCard)
  <2>1. Render \in Registers(mcCard)
    BY <1>1, RegistersAre
  <2>2. Render \in DOMAIN reg /\ before[Render] \in {0, 1}
    BY <2>1, TypedFacts
  <2> QED
    BY <1>2, <2>1, <2>2, AccessDone
<1> DEFINE names == {"render"}
<1>4. Changes(names) /\ waiting' = waiting
  <2>1. Render[1] = "render" /\ "render" \notin CrtcNames
    BY DEF Render, CrtcNames
  <2> QED
    BY <1>3, <2>1, PlainChanges
<1>5. /\ "vga" \notin names /\ "location" \notin names /\ "hdp" \notin names
      /\ "engine reset" \notin names /\ "cp reset" \notin names /\ "surface" \notin names
      /\ names \cap {"lock", "avivo", "evergreen"} = {}
  OBVIOUS
<1> HIDE DEF names
<1>6. NoReset' /\ HostBack' /\ Still
  BY <1>1, <1>3, <1>4, <1>5, ResetsKept, HostKept, StillKept DEF ResumeRender
<1>7. ShownRight'
  BY <1>1, <1>3, <1>4, <1>5, AllShownKept DEF ResumeRender, ShownRight
<1>8. Screens(0, "as it was", "as it was")' /\ VgaOffOn(0, 0)'
  BY <1>1, <1>3, <1>4, <1>5, ScreensKept, VgaKept DEF ResumeRender, Lit
<1>9. mcTodo' \in Afterwards'
  BY <1>2 DEF Afterwards, RenderOff, W, Render
<1> QED
  BY <1>2, <1>6, <1>7, <1>8, <1>9 DEF Resumed, Unmoved, Lit

(* The set-up ends by taking VGA its rendering. *)
LEMMA RenderOffStep ==
  ASSUME Typed, Access, Resumed
  PROVE  Resumed' /\ Still
<1>1. mcCard \in McCards /\ <<>> \in Seq(Accesses)
  BY TypedFacts, MiddleIsSeq
<1>2. mcTodo = RenderOff
  BY AccessDone DEF Resumed, Afterwards
<1>3. RenderOff = <<W(Render, 0)>> \o <<>>
  BY ConcatEmptySeq, SingleAccesses, SingleIsSeq DEF RenderOff
<1>4. NextAccess = W(Render, 0) /\ mcTodo' = <<>>
  BY <1>1, <1>2, <1>3, SingleAccess, SingleAccesses
<1>5. mcCard' = mcCard /\ initial' = initial /\ Written(Render, 0) /\ Render \in Registers(mcCard)
  BY <1>1, <1>4, AccessDone, RegistersAre
<1> DEFINE names == {"render"}
<1>6. Changes(names) /\ waiting' = waiting
  <2>1. Render[1] = "render" /\ "render" \notin CrtcNames
    BY DEF Render, CrtcNames
  <2> QED
    BY <1>5, <2>1, PlainChanges
<1>7. /\ "vga" \notin names /\ "location" \notin names /\ "hdp" \notin names
      /\ "engine reset" \notin names /\ "cp reset" \notin names /\ "surface" \notin names
      /\ names \cap {"lock", "avivo", "evergreen"} = {}
  OBVIOUS
<1> HIDE DEF names
<1>8. NoReset' /\ HostBack' /\ ShownRight' /\ Still
  BY <1>1, <1>5, <1>6, <1>7, ResetsKept, HostKept, PictureKept, StillKept DEF Resumed, Unmoved
<1>9. Screens(0, "as it was", "as it was")' /\ VgaOffOn(0, 0)'
  BY <1>1, <1>5, <1>6, <1>7, ScreensKept, VgaKept DEF Resumed, Lit
<1> QED
  BY <1>4, <1>8, <1>9 DEF Resumed, Unmoved, Lit, Afterwards

(* What is behind the halted part begins to resume. *)
LEMMA ResumeBegins ==
  ASSUME mcCard \in McCards, mcCard' = mcCard, NEW rest \in Seq(Accesses), mcTodo' = On(rest),
         Stopped', NoReset'
  PROVE  ResumeShow(rest, 0)'
<1>1. Each(Show) \in Seq(Accesses) /\ OnHdp(rest) \in Seq(Accesses)
  BY EachIs, OnIsSeq
<1>2. On(rest) = From(Each(Show), 0) \o OnHdp(rest)
  BY <1>1, LoopBegins DEF On
<1>3. Each(Show)' = Each(Show) /\ OnHdp(rest)' = OnHdp(rest)
  BY SameCard, SameParts
<1>4. mcTodo' = From(Each(Show), 0)' \o OnHdp(rest)'
  BY <1>2, <1>3 DEF From
<1>5. ShownTo(0)'
  <2>1. CrtcsOf(mcCard)' \subseteq Nat
    BY KnowsFirst, SameCard
  <2> QED
    BY <2>1 DEF ShownTo
<1> QED
  BY <1>4, <1>5 DEF ResumeShow

-----------------------------------------------------------------------------
(* The memory moves *)

(* The controller is waited for. *)
LEMMA MoveWaitStep ==
  ASSUME Typed, Access, AtMoveRest
  PROVE  (AtMoveHdp \/ AtMove)' /\ Still
<1>1. mcCard \in McCards /\ Move \in Seq(Accesses) /\ MoveHdp \in Seq(Accesses)
  BY TypedFacts, MiddleIsSeq
<1>2. NextAccess = Wait /\ mcTodo' = IF mcCard.chip = "r600" THEN Move ELSE MoveHdp
  BY <1>1, SingleAccess, SingleAccesses DEF AtMoveRest, MoveRest
<1>3. /\ mcCard' = mcCard /\ initial' = initial /\ before' = before /\ waiting' = waiting
      /\ reg' = reg /\ idle' = TRUE
  BY <1>2, AccessDone
<1>4. Changes({})
  BY <1>3 DEF Changes
<1>5. Stopped' /\ NoReset'
  BY <1>1, <1>3, <1>4, StoppedKept, ResetsKept DEF AtMoveRest, Unmoved
<1>6. Move' = Move /\ MoveHdp' = MoveHdp
  BY <1>1, <1>3, SameMiddle
<1>7. Still
  BY <1>3 DEF Still
<1>8. CASE mcCard.chip = "r600"
  BY <1>2, <1>3, <1>5, <1>6, <1>7, <1>8 DEF AtMove
<1>9. CASE mcCard.chip # "r600"
  BY <1>2, <1>3, <1>5, <1>6, <1>7, <1>9 DEF AtMoveHdp
<1> QED
  BY <1>8, <1>9

(* The host is locked out. *)
LEMMA MoveHdpStep ==
  ASSUME Typed, Access, AtMoveHdp
  PROVE  AtMove' /\ Still
<1>1. mcCard \in McCards /\ Move \in Seq(Accesses)
  BY TypedFacts, MiddleIsSeq
<1>2. NextAccess = W(Hdp, 0) /\ mcTodo' = Move
  BY <1>1, SingleAccess, SingleAccesses DEF AtMoveHdp, MoveHdp
<1>3. /\ mcCard' = mcCard /\ initial' = initial /\ before' = before /\ idle' = idle
      /\ Written(Hdp, 0) /\ Hdp \in Registers(mcCard)
  BY <1>1, <1>2, AccessDone, RegistersAre
<1> DEFINE names == {"hdp"}
<1>4. Changes(names) /\ waiting' = waiting /\ reg'[Hdp] = 0
  <2>1. Hdp[1] = "hdp" /\ "hdp" \notin CrtcNames
    BY DEF Hdp, CrtcNames
  <2> QED
    BY <1>3, <2>1, PlainChanges
<1>5. /\ "render" \notin names /\ "vga" \notin names /\ "location" \notin names
      /\ "engine reset" \notin names /\ "cp reset" \notin names
      /\ names \cap {"lock", "avivo", "evergreen"} = {}
  OBVIOUS
<1> HIDE DEF names
<1>6. Stopped' /\ NoReset' /\ Still
  BY <1>1, <1>3, <1>4, <1>5, StoppedKept, ResetsKept, StillKept DEF AtMoveHdp
<1>7. Move' = Move
  BY <1>1, <1>3, SameMiddle
<1> QED
  BY <1>2, <1>3, <1>4, <1>6, <1>7 DEF AtMove, AtMoveHdp, Hdp

(* The memory moves, and nobody reads it. *)
LEMMA MoveStep ==
  ASSUME Typed, Access, AtMove
  PROVE  AtMoveWait' /\ QuietStep
<1>1. mcCard \in McCards /\ MoveWait \in Seq(Accesses) /\ M \in Nat
  BY TypedFacts, MiddleIsSeq
<1>2. NextAccess = W(Location, 1) /\ mcTodo' = MoveWait
  BY <1>1, SingleAccess, SingleAccesses DEF AtMove, Move
<1>3. /\ mcCard' = mcCard /\ initial' = initial /\ before' = before
      /\ Written(Location, 1) /\ Location \in Registers(mcCard)
  BY <1>1, <1>2, AccessDone, RegistersAre
<1> DEFINE names == {"location"}
<1>4. Changes(names) /\ waiting' = waiting
  <2>1. Location[1] = "location" /\ "location" \notin CrtcNames
    BY DEF Location, CrtcNames
  <2> QED
    BY <1>3, <2>1, PlainChanges
<1>5. /\ "render" \notin names /\ "vga" \notin names
      /\ "engine reset" \notin names /\ "cp reset" \notin names
      /\ names \cap {"lock", "avivo", "evergreen"} = {}
  OBVIOUS
<1> HIDE DEF names
<1>6. Stopped' /\ NoReset'
  BY <1>1, <1>3, <1>4, <1>5, StoppedKept, ResetsKept DEF AtMove
<1>7. MoveWait' = MoveWait
  BY <1>1, <1>3, SameMiddle
<1>8. ASSUME Reaches, NEW n \in CrtcsOf(mcCard)
      PROVE  ~Shows(n) /\ reg[VgaControl(n)] = 0
  <2>1. CrtcsOf(mcCard) = 0 .. M - 1
    BY <1>1, <1>8, KnowsFirst
  <2>2. Status(n) = Expected(n, "stopped")
    BY <1>8 DEF AtMove, Stopped, Screens
  <2>3. reg[Control(n)] = 0
    <3>1. Expected(n, "stopped") = <<0, 0, -1>>
      BY Stages
    <3>2. <<reg[Control(n)], reg[<<"lock", n>>], waiting[n]>> = <<0, 0, -1>>
      BY <2>2, <3>1 DEF Status
    <3> QED
      BY <3>2
  <2>4. 0 <= n /\ n < M
    BY <1>1, <2>1
  <2> QED
    BY <2>3, <2>4 DEF AtMove, Stopped, VgaOffOn, Shows
<1>9. QuietStep
  BY <1>8 DEF QuietStep, AtMove, Stopped, Quiet
<1> QED
  BY <1>2, <1>6, <1>7, <1>9 DEF AtMoveWait

(* After another wait the displays are resumed. *)
LEMMA MovedStep ==
  ASSUME Typed, Access, AtMoveWait
  PROVE  ResumeShow(RenderOff, 0)' /\ Still
<1>1. mcCard \in McCards /\ RenderOff \in Seq(Accesses) /\ On(RenderOff) \in Seq(Accesses)
  BY TypedFacts, MiddleIsSeq, OnIsSeq
<1>2. NextAccess = Wait /\ mcTodo' = On(RenderOff)
  BY <1>1, SingleAccess, SingleAccesses DEF AtMoveWait, MoveWait
<1>3. /\ mcCard' = mcCard /\ initial' = initial /\ before' = before /\ waiting' = waiting
      /\ reg' = reg
  BY <1>2, AccessDone
<1>4. Changes({})
  BY <1>3 DEF Changes
<1>5. Stopped' /\ NoReset'
  BY <1>1, <1>3, <1>4, StoppedKept, ResetsKept DEF AtMoveWait
<1>6. Still
  BY <1>3 DEF Still
<1>7. RenderOff' = RenderOff
  BY DEF RenderOff, W, Render
<1>8. ASSUME NEW rest \in Seq(Accesses), rest = RenderOff
      PROVE  ResumeShow(rest, 0)'
  BY <1>1, <1>2, <1>3, <1>5, <1>8, ResumeBegins
<1>9. ResumeShow(RenderOff, 0)'
  BY <1>1, <1>7, <1>8 DEF ResumeShow, OnHdp, OnVga, OnLock, OnStart, OnUnlock, OnRender
<1> QED
  BY <1>6, <1>9

(* The engine is reset *)

(* A register of the engine's is written while the displays are halted. *)
LEMMA ResetWrite ==
  ASSUME Typed, mcCard' = mcCard, initial' = initial, before' = before, AtReset,
         NEW name \in {"cp", "engine reset", "cp reset"}, NEW v \in {0, 1},
         Written(<<name, 0>>, v)
  PROVE  /\ AtReset' /\ Still /\ Stopped' /\ reg'[<<name, 0>>] = v
         /\ name # "engine reset" => reg'[EngineReset] = reg[EngineReset]
         /\ name # "cp reset" => reg'[CpReset] = reg[CpReset]
<1>1. mcCard \in McCards
  BY TypedFacts
<1>2. <<name, 0>> \in Registers(mcCard)
  BY <1>1, RegistersAre DEF EngineReset, CpReset
<1> DEFINE names == {name}
<1>3. Changes(names) /\ waiting' = waiting /\ reg'[<<name, 0>>] = v
  <2>1. <<name, 0>>[1] = name /\ name \notin CrtcNames
    BY DEF CrtcNames
  <2> QED
    BY <1>2, <2>1, PlainChanges
<1>4. /\ "render" \notin names /\ "vga" \notin names /\ "hdp" \notin names
      /\ "location" \notin names /\ "surface" \notin names
      /\ names \cap {"lock", "avivo", "evergreen"} = {}
  OBVIOUS
<1>5. /\ name # "engine reset" => "engine reset" \notin names
      /\ name # "cp reset" => "cp reset" \notin names
  OBVIOUS
<1> HIDE DEF names
<1>6. Stopped' /\ HostBack' /\ ShownRight' /\ Still
  BY <1>1, <1>3, <1>4, StoppedKept, HostKept, PictureKept, StillKept DEF AtReset
<1>7. /\ name # "engine reset" => reg'[EngineReset] = reg[EngineReset]
      /\ name # "cp reset" => reg'[CpReset] = reg[CpReset]
  BY <1>1, <1>3, <1>5, RegistersAre DEF Changes, EngineReset, CpReset
<1> QED
  BY <1>3, <1>6, <1>7 DEF AtReset

(* After the command processor's reset, or without one, the displays are   *)
(* resumed.                                                                *)
LEMMA CpBegins ==
  ASSUME mcCard \in McCards, mcCard' = mcCard, mcTodo' = CpRest, AtReset', NoReset'
  PROVE  mcTodo' = CpUp' \/ ResumeShow(<<>>, 0)'
<1>1. CASE mcCard.chip = "evergreen"
  <2>1. mcTodo' = On(<<>>) /\ Stopped'
    BY <1>1 DEF CpRest, AtReset
  <2>2. <<>> \in Seq(Accesses)
    BY EmptySeq
  <2> QED
    BY <2>1, <2>2, ResumeBegins
<1>2. CASE mcCard.chip # "evergreen"
  BY <1>2, SameMiddle DEF CpRest
<1> QED
  BY <1>1, <1>2

(* Each access of a reset leads to the next, and the last one to resuming. *)
LEMMA ResetStep ==
  ASSUME Typed, Access, Resetting
  PROVE  (Resetting' \/ ResumeShow(<<>>, 0)') /\ Still
<1>1. mcCard \in McCards
  BY TypedFacts
<1>2. mcCard' = mcCard /\ initial' = initial
  BY AccessDone
<1>3. /\ CpDown' = CpDown /\ CpUp' = CpUp /\ CpRest' = CpRest /\ EngineDown' = EngineDown
      /\ EngineUp' = EngineUp
      /\ \A busy \in BOOLEAN : CpHalt(busy)' = CpHalt(busy)
  BY <1>1, <1>2, SameMiddle
<1>4. /\ CpDown \in Seq(Accesses) /\ CpRest \in Seq(Accesses) /\ EngineDown \in Seq(Accesses)
      /\ On(<<>>) \in Seq(Accesses)
      /\ \A busy \in BOOLEAN : EngineRest(busy) \in Seq(Accesses) /\ CpHalt(busy) \in Seq(Accesses)
  BY <1>1, MiddleIsSeq, OnIsSeq
<1>5. ASSUME AtReset, NoReset, NEW busy \in BOOLEAN, mcTodo = ResetRest(busy)
      PROVE  Resetting' /\ Still
  <2>1. NextAccess = Wait /\ mcTodo' = CpHalt(busy)
    BY <1>4, <1>5, SingleAccess, SingleAccesses DEF ResetRest
  <2>2. before' = before /\ waiting' = waiting /\ reg' = reg
    BY <2>1, AccessDone
  <2>3. Changes({})
    BY <2>2 DEF Changes
  <2>4. AtReset' /\ NoReset'
    BY <1>1, <1>2, <1>5, <2>2, <2>3, StoppedKept, HostKept, PictureKept, ResetsKept DEF AtReset
  <2>5. mcTodo' = CpHalt(busy)'
    BY <1>3, <2>1
  <2> QED
    BY <2>2, <2>4, <2>5 DEF Resetting, Still
<1>6. ASSUME AtReset, NoReset, NEW busy \in BOOLEAN, mcTodo = CpHalt(busy)
      PROVE  (Resetting' \/ ResumeShow(<<>>, 0)') /\ Still
  <2>1. NextAccess = W(<<"cp", 0>>, 0) /\ mcTodo' = EngineRest(busy)
    BY <1>4, <1>6, SingleAccess, SingleAccesses DEF CpHalt
  <2>2. before' = before /\ Written(<<"cp", 0>>, 0)
    BY <2>1, AccessDone
  <2>3. AtReset' /\ Still /\ reg'[EngineReset] = reg[EngineReset] /\ reg'[CpReset] = reg[CpReset]
    BY <1>2, <1>6, <2>2, ResetWrite
  <2>4. NoReset'
    BY <1>6, <2>3 DEF NoReset, EngineReset, CpReset
  <2>5. mcTodo' = EngineUp' \/ mcTodo' = CpUp' \/ ResumeShow(<<>>, 0)'
    <3>1. CASE mcTodo' = EngineUp
      BY <1>3, <3>1
    <3>2. CASE mcTodo' = CpRest
      BY <1>1, <1>2, <2>3, <2>4, <3>2, CpBegins
    <3> QED
      BY <2>1, <3>1, <3>2 DEF EngineRest
  <2> QED
    BY <2>3, <2>4, <2>5 DEF Resetting
<1>7. ASSUME AtReset, NoReset, mcTodo = EngineUp
      PROVE  Resetting' /\ Still
  <2>1. NextAccess = W(EngineReset, 1) /\ mcTodo' = EngineDown
    BY <1>4, <1>7, SingleAccess, SingleAccesses DEF EngineUp
  <2>2. before' = before /\ Written(<<"engine reset", 0>>, 1)
    BY <2>1, AccessDone DEF EngineReset
  <2>3. AtReset' /\ Still /\ reg'[CpReset] = reg[CpReset]
    BY <1>2, <1>7, <2>2, ResetWrite
  <2>4. (reg[CpReset] = 0)'
    BY <1>7, <2>3 DEF NoReset, CpReset
  <2> QED
    BY <1>3, <2>1, <2>3, <2>4 DEF Resetting, AtEngineDown
<1>8. ASSUME AtEngineDown
      PROVE  (Resetting' \/ ResumeShow(<<>>, 0)') /\ Still
  <2>1. NextAccess = W(EngineReset, 0) /\ mcTodo' = CpRest
    BY <1>4, <1>8, SingleAccess, SingleAccesses DEF AtEngineDown, EngineDown
  <2>2. before' = before /\ Written(<<"engine reset", 0>>, 0)
    BY <2>1, AccessDone DEF EngineReset
  <2>3. /\ AtReset' /\ Still /\ reg'[CpReset] = reg[CpReset]
        /\ reg'[<<"engine reset", 0>>] = 0
    BY <1>2, <1>8, <2>2, ResetWrite DEF AtEngineDown
  <2>4. NoReset'
    BY <1>8, <2>3 DEF AtEngineDown, NoReset, EngineReset, CpReset
  <2>5. mcTodo' = CpUp' \/ ResumeShow(<<>>, 0)'
    BY <1>1, <1>2, <2>1, <2>3, <2>4, CpBegins
  <2> QED
    BY <2>3, <2>4, <2>5 DEF Resetting
<1>9. ASSUME AtReset, NoReset, mcTodo = CpUp
      PROVE  Resetting' /\ Still
  <2>1. NextAccess = W(CpReset, 1) /\ mcTodo' = CpDown
    BY <1>4, <1>9, SingleAccess, SingleAccesses DEF CpUp
  <2>2. before' = before /\ Written(<<"cp reset", 0>>, 1)
    BY <2>1, AccessDone DEF CpReset
  <2>3. AtReset' /\ Still /\ reg'[EngineReset] = reg[EngineReset]
    BY <1>2, <1>9, <2>2, ResetWrite
  <2>4. (reg[EngineReset] = 0)'
    BY <1>9, <2>3 DEF NoReset, EngineReset
  <2> QED
    BY <1>3, <2>1, <2>3, <2>4 DEF Resetting, AtCpDown
<1>10. ASSUME AtCpDown
       PROVE  ResumeShow(<<>>, 0)' /\ Still
  <2>1. NextAccess = W(CpReset, 0) /\ mcTodo' = On(<<>>)
    BY <1>4, <1>10, SingleAccess, SingleAccesses DEF AtCpDown, CpDown
  <2>2. before' = before /\ Written(<<"cp reset", 0>>, 0)
    BY <2>1, AccessDone DEF CpReset
  <2>3. /\ AtReset' /\ Still /\ Stopped' /\ reg'[EngineReset] = reg[EngineReset]
        /\ reg'[<<"cp reset", 0>>] = 0
    BY <1>2, <1>10, <2>2, ResetWrite DEF AtCpDown
  <2>4. NoReset'
    BY <1>10, <2>3 DEF AtCpDown, NoReset, EngineReset, CpReset
  <2>5. <<>> \in Seq(Accesses)
    BY EmptySeq
  <2> QED
    BY <1>1, <1>2, <2>1, <2>3, <2>4, <2>5, ResumeBegins
<1> QED
  BY <1>5, <1>6, <1>7, <1>8, <1>9, <1>10 DEF Resetting

(* With nothing left to do the displays are as they were. *)
LEMMA NothingLeft ==
  ASSUME Typed, Steps, mcTodo = <<>>
  PROVE  Lit /\ Unmoved
<1>1. mcCard \in McCards /\ \A rest \in Middles \cup Afterwards : rest \in Seq(Accesses)
  BY TypedFacts, MiddleIsSeq DEF Middles, Afterwards
<1>2. ~Halting
  <2> SUFFICES ASSUME Halting PROVE FALSE
    OBVIOUS
  <2>1. PICK rest \in Middles :
          \/ HaltSave(rest) \/ HaltRender(rest)
          \/ \E k \in 0 .. M - 1 : \/ HaltLock(rest, k) \/ HaltStop(rest, k)
                                   \/ HaltUnlock(rest, k) \/ HaltVga(rest, k)
    BY DEF Halting
  <2>2. /\ rest \in Seq(Accesses) /\ OffRender(rest) \in Seq(Accesses)
        /\ OffLock(rest) \in Seq(Accesses) /\ OffStop(rest) \in Seq(Accesses)
        /\ OffUnlock(rest) \in Seq(Accesses) /\ OffVga(rest) \in Seq(Accesses)
    BY <1>1, <2>1, OffIsSeq
  <2>3. Off(rest) # <<>> /\ OffRender(rest) # <<>>
    BY <2>2, OneStep, SingleAccesses DEF Off, OffRender
  <2>4. \A k \in 0 .. M - 1 : From(Each(Lock), k) \o OffStop(rest) # <<>>
    BY <1>1, <2>2, EachIs, FromStep
  <2>5. \A k \in 0 .. M - 1 : From(Each(StopCrtc), k) \o OffUnlock(rest) # <<>>
    BY <1>1, <2>2, EachIs, FromStep
  <2>6. \A k \in 0 .. M - 1 : From(Each(Unlock), k) \o OffVga(rest) # <<>>
    BY <1>1, <2>2, EachIs, FromStep
  <2>7. \A k \in 0 .. M - 1 : From(Each(VgaOff), k) \o rest # <<>>
    BY <1>1, <2>2, EachIs, FromStep
  <2> QED
    BY <2>1, <2>3, <2>4, <2>5, <2>6, <2>7
       DEF HaltSave, HaltRender, HaltLock, HaltStop, HaltUnlock, HaltVga
<1>3. ~Moving
  <2>1. /\ MoveWait \in Seq(Accesses) /\ Move \in Seq(Accesses) /\ MoveHdp \in Seq(Accesses)
        /\ On(RenderOff) \in Seq(Accesses)
        /\ (IF mcCard.chip = "r600" THEN Move ELSE MoveHdp) \in Seq(Accesses)
    BY <1>1, MiddleIsSeq, OnIsSeq
  <2>2. MoveRest # <<>>
    BY <2>1, OneStep, SingleAccesses DEF MoveRest
  <2>3. MoveWait # <<>> /\ Move # <<>> /\ MoveHdp # <<>>
    BY <2>1, OneStep, SingleAccesses DEF MoveWait, Move, MoveHdp
  <2> QED
    BY <2>2, <2>3 DEF Moving, AtMoveRest, AtMoveHdp, AtMove, AtMoveWait
<1>4. ~Resetting
  <2>1. /\ CpDown \in Seq(Accesses) /\ CpRest \in Seq(Accesses) /\ EngineDown \in Seq(Accesses)
        /\ On(<<>>) \in Seq(Accesses)
        /\ \A busy \in BOOLEAN : EngineRest(busy) \in Seq(Accesses) /\ CpHalt(busy) \in Seq(Accesses)
    BY <1>1, MiddleIsSeq, OnIsSeq
  <2>2. /\ CpDown # <<>> /\ CpUp # <<>> /\ EngineDown # <<>> /\ EngineUp # <<>>
        /\ \A busy \in BOOLEAN : ResetRest(busy) # <<>> /\ CpHalt(busy) # <<>>
    BY <2>1, OneStep, SingleAccesses DEF CpDown, CpUp, EngineDown, EngineUp, ResetRest, CpHalt
  <2> QED
    BY <2>2 DEF Resetting, AtEngineDown, AtCpDown
<1>5. ~Resuming
  <2> SUFFICES ASSUME Resuming PROVE FALSE
    OBVIOUS
  <2>1. PICK rest \in Afterwards :
          \/ ResumeHdp(rest) \/ ResumeRender(rest)
          \/ \E k \in 0 .. M - 1 :
               \/ ResumeShow(rest, k) \/ ResumeVga(rest, k) \/ ResumeLock(rest, k)
               \/ ResumeStart(rest, k) \/ ResumeUnlock(rest, k)
    BY DEF Resuming
  <2>2. /\ rest \in Seq(Accesses) /\ OnHdp(rest) \in Seq(Accesses) /\ OnVga(rest) \in Seq(Accesses)
        /\ OnLock(rest) \in Seq(Accesses) /\ OnStart(rest) \in Seq(Accesses)
        /\ OnUnlock(rest) \in Seq(Accesses) /\ OnRender(rest) \in Seq(Accesses)
    BY <1>1, <2>1, OnIsSeq
  <2>3. OnHdp(rest) # <<>> /\ OnRender(rest) # <<>>
    BY <2>2, OneStep, SingleAccesses DEF OnHdp, OnRender
  <2>4. \A k \in 0 .. M - 1 : From(Each(Show), k) \o OnHdp(rest) # <<>>
    BY <1>1, <2>2, EachIs, FromStep
  <2>5. \A k \in 0 .. M - 1 : From(Each(VgaBack), k) \o OnLock(rest) # <<>>
    BY <1>1, <2>2, EachIs, FromStep
  <2>6. \A k \in 0 .. M - 1 : From(Each(Lock), k) \o OnStart(rest) # <<>>
    BY <1>1, <2>2, EachIs, FromStep
  <2>7. \A k \in 0 .. M - 1 : From(Each(StartCrtc), k) \o OnUnlock(rest) # <<>>
    BY <1>1, <2>2, EachIs, FromStep
  <2>8. \A k \in 0 .. M - 1 : From(Each(Unlock), k) \o OnRender(rest) # <<>>
    BY <1>1, <2>2, EachIs, FromStep
  <2> QED
    BY <2>1, <2>3, <2>4, <2>5, <2>6, <2>7, <2>8
       DEF ResumeHdp, ResumeRender, ResumeShow, ResumeVga, ResumeLock, ResumeStart, ResumeUnlock
<1> QED
  BY <1>2, <1>3, <1>4, <1>5 DEF Steps, Resumed

(* A procedure begins by halting the displays. *)
LEMMA Begins ==
  ASSUME Typed, Steps, NEW rest \in Middles, Begin(Off(rest))
  PROVE  HaltSave(rest)' /\ Still
<1>1. mcCard \in McCards
  BY TypedFacts
<1>2. /\ mcTodo = <<>> /\ mcTodo' = Off(rest) /\ initial' = reg
      /\ mcCard' = mcCard /\ reg' = reg /\ waiting' = waiting /\ before' = before
  BY DEF Begin
<1>3. Lit /\ Unmoved
  BY <1>2, NothingLeft
<1>4. Changes({}) /\ "surface" \notin {} /\ "location" \notin {}
      /\ "engine reset" \notin {} /\ "cp reset" \notin {}
  BY <1>2 DEF Changes
<1>5. CrtcsOf(mcCard)' = CrtcsOf(mcCard)
  BY <1>1, <1>2, SameCard
<1>6. NoReset' /\ ShownRight'
  BY <1>1, <1>2, <1>3, <1>4, ResetsKept, PictureKept DEF Unmoved
<1>7. HostBack'
  BY <1>2 DEF HostBack, Hdp
<1>8. ASSUME NEW n \in CrtcsOf(mcCard)
      PROVE  /\ Status(n)' = Expected(n, "as it was")'
             /\ reg'[VgaControl(n)] = initial'[VgaControl(n)]
  <2>1. Status(n) = Expected(n, "as it was")
    BY <1>1, <1>3, KnowsFirst DEF Lit, Screens
  <2>2. <<reg[Control(n)], reg[<<"lock", n>>], waiting[n]>> = <<initial[Control(n)], 0, -1>>
    BY <2>1, Stages DEF Status
  <2>3. reg[<<"lock", n>>] = 0 /\ waiting[n] = -1
    BY <2>2
  <2>4. Status(n)' = <<reg[Control(n)], 0, -1>>
    BY <1>2, <2>3 DEF Status, Control, Family
  <2>5. Expected(n, "as it was")' = <<reg[Control(n)], 0, -1>>
    BY <1>2 DEF Expected, Control, Family
  <2> QED
    BY <1>2, <2>4, <2>5
<1>9. Screens(0, "as it was", "as it was")'
  BY <1>5, <1>8 DEF Screens
<1>10. VgaOffOn(0, 0)'
  <2>1. \A n \in CrtcsOf(mcCard) : ~(0 <= n /\ n < 0)
    BY <1>1, KnowsFirst
  <2> QED
    BY <1>5, <1>8, <2>1 DEF VgaOffOn, VgaControl
<1>11. mcTodo' = Off(rest)'
  BY <1>1, <1>2, SameParts
<1> QED
  BY <1>2, <1>6, <1>7, <1>9, <1>10, <1>11 DEF HaltSave, Unmoved, Lit, Still

(* Every step goes on in the order of the procedures, and the memory moves  *)
(* only when nobody reads it.                                              *)
LEMMA StepsStep ==
  ASSUME Typed, Steps, MemoryNext
  PROVE  Steps' /\ QuietStep
<1>1. mcCard \in McCards /\ M \in Nat /\ M >= 2 /\ mcCard' = mcCard
  BY TypedFacts, TypedStep
<1>2. M' = M /\ Middles' = Middles /\ Afterwards' = Afterwards /\ 0 \in 0 .. M - 1
  BY <1>1, SameCard, SameMiddle DEF Afterwards, RenderOff, W, Render
<1>3. \A rest \in Middles \cup Afterwards : rest \in Seq(Accesses)
  BY <1>1, MiddleIsSeq DEF Middles, Afterwards
<1>4. Still => QuietStep
  BY DEF Still, QuietStep
<1>5. ASSUME NEW rest \in Middles, Begin(Off(rest))
      PROVE  Steps' /\ QuietStep
  BY <1>2, <1>4, <1>5, Begins DEF Steps, Halting
<1>6. CASE MoveMemory
  BY <1>1, <1>5, <1>6, ProgramIs DEF MoveMemory, Middles
<1>7. CASE ResetEngine
  <2>1. PICK busy \in BOOLEAN : Begin(Reset(busy))
    BY <1>7 DEF ResetEngine
  <2>2. Begin(Off(ResetRest(busy))) /\ ResetRest(busy) \in Middles
    BY <1>1, <2>1, ResetIs DEF Middles
  <2> QED
    BY <1>5, <2>2
<1>8. CASE Access /\ Halting
  <2>1. PICK rest \in Middles :
          \/ HaltSave(rest) \/ HaltRender(rest)
          \/ \E k \in 0 .. M - 1 : \/ HaltLock(rest, k) \/ HaltStop(rest, k)
                                   \/ HaltUnlock(rest, k) \/ HaltVga(rest, k)
    BY <1>8 DEF Halting
  <2>2. rest \in Seq(Accesses) /\ rest \in Middles'
    BY <1>2, <1>3
  <2>3. CASE HaltSave(rest)
    BY <1>4, <1>8, <2>2, <2>3, SaveStep DEF Steps, Halting
  <2>4. CASE HaltRender(rest)
    BY <1>2, <1>4, <1>8, <2>2, <2>4, RenderStep DEF Steps, Halting
  <2>5. ASSUME NEW k \in 0 .. M - 1, HaltLock(rest, k)
        PROVE  Steps' /\ QuietStep
    <3>1. /\ (k + 1 \in 0 .. M - 1 /\ HaltLock(rest, k + 1)') \/ HaltStop(rest, 0)'
          /\ Still
      BY <1>8, <2>2, <2>5, LockStep
    <3> QED
      BY <1>2, <1>4, <2>2, <3>1 DEF Steps, Halting
  <2>6. ASSUME NEW k \in 0 .. M - 1, HaltStop(rest, k)
        PROVE  Steps' /\ QuietStep
    <3>1. /\ (k + 1 \in 0 .. M - 1 /\ HaltStop(rest, k + 1)') \/ HaltUnlock(rest, 0)'
          /\ Still
      BY <1>8, <2>2, <2>6, StopStep
    <3> QED
      BY <1>2, <1>4, <2>2, <3>1 DEF Steps, Halting
  <2>7. ASSUME NEW k \in 0 .. M - 1, HaltUnlock(rest, k)
        PROVE  Steps' /\ QuietStep
    <3>1. /\ (k + 1 \in 0 .. M - 1 /\ HaltUnlock(rest, k + 1)') \/ HaltVga(rest, 0)'
          /\ Still
      BY <1>8, <2>2, <2>7, UnlockStep
    <3> QED
      BY <1>2, <1>4, <2>2, <3>1 DEF Steps, Halting
  <2>8. ASSUME NEW k \in 0 .. M - 1, HaltVga(rest, k)
        PROVE  Steps' /\ QuietStep
    <3>1. /\ \/ k + 1 \in 0 .. M - 1 /\ HaltVga(rest, k + 1)'
             \/ mcTodo' = rest /\ Stopped' /\ Unmoved'
          /\ Still
      BY <1>8, <2>2, <2>8, VgaOffStep
    <3>2. CASE k + 1 \in 0 .. M - 1 /\ HaltVga(rest, k + 1)'
      BY <1>2, <1>4, <2>2, <3>1, <3>2 DEF Steps, Halting
    <3>3. CASE mcTodo' = rest /\ Stopped' /\ Unmoved' /\ rest = MoveRest
      <4>1. AtMoveRest'
        BY <1>1, <3>3, SameMiddle DEF AtMoveRest
      <4> QED
        BY <1>4, <3>1, <4>1 DEF Steps, Moving
    <3>4. ASSUME mcTodo' = rest, Stopped', Unmoved', NEW busy \in BOOLEAN, rest = ResetRest(busy)
          PROVE  Steps' /\ QuietStep
      <4>1. mcTodo' = ResetRest(busy)'
        BY <1>1, <3>4, SameMiddle
      <4>2. AtReset' /\ NoReset'
        BY <3>4 DEF AtReset, Unmoved
      <4> QED
        BY <1>4, <3>1, <4>1, <4>2 DEF Steps, Resetting
    <3> QED
      BY <3>1, <3>2, <3>3, <3>4 DEF Middles
  <2> QED
    BY <2>1, <2>3, <2>4, <2>5, <2>6, <2>7, <2>8
<1>9. CASE Access /\ Moving
  <2>1. CASE AtMoveRest
    BY <1>4, <1>9, <2>1, MoveWaitStep DEF Steps, Moving
  <2>2. CASE AtMoveHdp
    BY <1>4, <1>9, <2>2, MoveHdpStep DEF Steps, Moving
  <2>3. CASE AtMove
    BY <1>9, <2>3, MoveStep DEF Steps, Moving
  <2>4. CASE AtMoveWait
    <3>1. ResumeShow(RenderOff, 0)' /\ Still
      BY <1>9, <2>4, MovedStep
    <3>2. RenderOff' \in Afterwards'
      BY DEF Afterwards
    <3> QED
      BY <1>2, <1>4, <3>1, <3>2 DEF Steps, Resuming
  <2> QED
    BY <1>9, <2>1, <2>2, <2>3, <2>4 DEF Moving
<1>10. CASE Access /\ Resetting
  <2>1. (Resetting' \/ ResumeShow(<<>>, 0)') /\ Still
    BY <1>10, ResetStep
  <2>2. <<>> \in Afterwards'
    BY DEF Afterwards
  <2> QED
    BY <1>2, <1>4, <2>1, <2>2 DEF Steps, Resuming
<1>11. CASE Access /\ Resuming
  <2>1. PICK rest \in Afterwards :
          \/ ResumeHdp(rest) \/ ResumeRender(rest)
          \/ \E k \in 0 .. M - 1 :
               \/ ResumeShow(rest, k) \/ ResumeVga(rest, k) \/ ResumeLock(rest, k)
               \/ ResumeStart(rest, k) \/ ResumeUnlock(rest, k)
    BY <1>11 DEF Resuming
  <2>2. rest \in Seq(Accesses) /\ rest \in Afterwards'
    BY <1>2, <1>3
  <2>3. CASE ResumeHdp(rest)
    BY <1>2, <1>4, <1>11, <2>2, <2>3, HdpBackStep DEF Steps, Resuming
  <2>4. CASE ResumeRender(rest)
    BY <1>4, <1>11, <2>4, RenderBackStep DEF Steps
  <2>5. ASSUME NEW k \in 0 .. M - 1, ResumeShow(rest, k)
        PROVE  Steps' /\ QuietStep
    <3>1. /\ (k + 1 \in 0 .. M - 1 /\ ResumeShow(rest, k + 1)') \/ ResumeHdp(rest)'
          /\ Still
      BY <1>11, <2>2, <2>5, ShowStep
    <3> QED
      BY <1>2, <1>4, <2>2, <3>1 DEF Steps, Resuming
  <2>6. ASSUME NEW k \in 0 .. M - 1, ResumeVga(rest, k)
        PROVE  Steps' /\ QuietStep
    <3>1. /\ (k + 1 \in 0 .. M - 1 /\ ResumeVga(rest, k + 1)') \/ ResumeLock(rest, 0)'
          /\ Still
      BY <1>11, <2>2, <2>6, VgaBackStep
    <3> QED
      BY <1>2, <1>4, <2>2, <3>1 DEF Steps, Resuming
  <2>7. ASSUME NEW k \in 0 .. M - 1, ResumeLock(rest, k)
        PROVE  Steps' /\ QuietStep
    <3>1. /\ (k + 1 \in 0 .. M - 1 /\ ResumeLock(rest, k + 1)') \/ ResumeStart(rest, 0)'
          /\ Still
      BY <1>11, <2>2, <2>7, RelockStep
    <3> QED
      BY <1>2, <1>4, <2>2, <3>1 DEF Steps, Resuming
  <2>8. ASSUME NEW k \in 0 .. M - 1, ResumeStart(rest, k)
        PROVE  Steps' /\ QuietStep
    <3>1. /\ (k + 1 \in 0 .. M - 1 /\ ResumeStart(rest, k + 1)') \/ ResumeUnlock(rest, 0)'
          /\ Still
      BY <1>11, <2>2, <2>8, StartStep
    <3> QED
      BY <1>2, <1>4, <2>2, <3>1 DEF Steps, Resuming
  <2>9. ASSUME NEW k \in 0 .. M - 1, ResumeUnlock(rest, k)
        PROVE  Steps' /\ QuietStep
    <3>1. /\ (k + 1 \in 0 .. M - 1 /\ ResumeUnlock(rest, k + 1)') \/ ResumeRender(rest)'
          /\ Still
      BY <1>11, <2>2, <2>9, ShowAgainStep
    <3> QED
      BY <1>2, <1>4, <2>2, <3>1 DEF Steps, Resuming
  <2> QED
    BY <2>1, <2>3, <2>4, <2>5, <2>6, <2>7, <2>8, <2>9
<1>12. CASE Access /\ Resumed
  BY <1>4, <1>12, RenderOffStep DEF Steps
<1> QED
  BY <1>6, <1>7, <1>8, <1>9, <1>10, <1>11, <1>12 DEF MemoryNext, Steps

(* At the start the displays are as they were. *)
LEMMA MemoryStarts ==
  ASSUME MemoryInit
  PROVE  MInv
<1>1. /\ mcCard \in McCards /\ reg \in [Registers(mcCard) -> {0, 1}]
      /\ \A n \in CrtcsOf(mcCard) : reg[<<"surface", n>>] = 0 /\ reg[<<"lock", n>>] = 0
      /\ reg[Location] = 0
      /\ reg[<<"engine reset", 0>>] = 0 /\ reg[<<"cp reset", 0>>] = 0
      /\ waiting = [n \in CrtcsOf(mcCard) |-> -1]
      /\ before = reg /\ idle = FALSE /\ mcTodo = <<>> /\ initial = reg
  BY DEF MemoryInit
<1>2. Typed
  BY <1>1, EmptySeq DEF Typed, MemoryTypeOK
<1>3. Unmoved
  <2>1. HostBack /\ NoReset
    BY <1>1 DEF HostBack, NoReset, EngineReset, CpReset
  <2>2. reg[Location] = 0
    BY <1>1
  <2>3. reg[Location] # 1
    BY <2>2
  <2> QED
    BY <2>1, <2>3 DEF Unmoved, ShownRight
<1>4. Screens(0, "as it was", "as it was")
  <2>1. ASSUME NEW n \in CrtcsOf(mcCard)
        PROVE  Status(n) = Expected(n, "as it was")
    BY <1>1, Stages DEF Status
  <2> QED
    BY <2>1 DEF Screens
<1>5. VgaOffOn(0, 0)
  <2>1. \A n \in CrtcsOf(mcCard) : ~(0 <= n /\ n < 0)
    <3>1. mcCard \in McCards
      BY <1>1
    <3>2. CrtcsOf(mcCard) \subseteq Nat
      BY <3>1, KnowsFirst
    <3> QED
      BY <3>2
  <2> QED
    BY <1>1, <2>1 DEF VgaOffOn
<1> QED
  BY <1>1, <1>2, <1>3, <1>4, <1>5 DEF MInv, Steps, Resumed, Lit, Afterwards

(* A step that changes nothing. *)
LEMMA StepsStutter ==
  ASSUME Typed, Steps, UNCHANGED memoryVars
  PROVE  Steps'
<1>1. /\ mcCard' = mcCard /\ reg' = reg /\ waiting' = waiting /\ before' = before /\ idle' = idle
      /\ mcTodo' = mcTodo /\ initial' = initial
  BY DEF memoryVars
<1>2. mcCard \in McCards
  BY TypedFacts
<1> DEFINE names == {}
<1>3. /\ Changes(names) /\ "surface" \notin names /\ "location" \notin names /\ "vga" \notin names
      /\ "hdp" \notin names /\ "engine reset" \notin names /\ "cp reset" \notin names
      /\ "render" \notin names /\ names \cap {"lock", "avivo", "evergreen"} = {}
  BY <1>1 DEF Changes
<1> HIDE DEF names
<1>4. M' = M /\ Middles' = Middles /\ Afterwards' = Afterwards
  BY <1>1, <1>2, SameCard, SameMiddle DEF Afterwards, RenderOff, W, Render
<1>5. /\ HostBack => HostBack'
      /\ NoReset => NoReset'
      /\ ShownRight => ShownRight'
      /\ Stopped => Stopped'
      /\ ShownTo(M) => ShownTo(M)'
  BY <1>1, <1>2, <1>3, HostKept, ResetsKept, PictureKept, StoppedKept, AllShownKept
<1>6. \A k, further, stage : Screens(k, further, stage) => Screens(k, further, stage)'
  BY <1>1, <1>2, <1>3, ScreensKept
<1>7. \A low, high : VgaOffOn(low, high) => VgaOffOn(low, high)'
  BY <1>1, <1>2, <1>3, VgaKept
<1>8. \A low : VgaOffOn(low, M) => VgaOffOn(low, M)'
  BY <1>1, <1>2, <1>3, VgaStaysOff
<1>9. \A k : ShownTo(k) => ShownTo(k)'
  BY <1>1, <1>2, <1>3, SurfacesKept
<1>10. /\ Unmoved => Unmoved'
       /\ Quiet => Quiet'
       /\ Lit => Lit'
       /\ AtReset => AtReset'
  <2>1. Quiet => Quiet'
    BY <1>1 DEF Quiet, Saved, Render
  <2>2. Lit => Lit'
    BY <1>6, <1>7 DEF Lit
  <2> QED
    BY <1>5, <2>1, <2>2 DEF Unmoved, AtReset
<1>11. ASSUME NEW rest
       PROVE  /\ OffVga(rest)' = OffVga(rest) /\ OffUnlock(rest)' = OffUnlock(rest)
              /\ OffStop(rest)' = OffStop(rest) /\ OffRender(rest)' = OffRender(rest)
              /\ Off(rest)' = Off(rest)
              /\ OnRender(rest)' = OnRender(rest) /\ OnUnlock(rest)' = OnUnlock(rest)
              /\ OnStart(rest)' = OnStart(rest) /\ OnLock(rest)' = OnLock(rest)
              /\ OnHdp(rest)' = OnHdp(rest)
  BY <1>1, <1>2, SameParts
<1>12. /\ Each(Lock)' = Each(Lock) /\ Each(Unlock)' = Each(Unlock)
       /\ Each(StopCrtc)' = Each(StopCrtc) /\ Each(StartCrtc)' = Each(StartCrtc)
       /\ Each(VgaOff)' = Each(VgaOff) /\ Each(VgaBack)' = Each(VgaBack)
       /\ Each(Show)' = Each(Show)
  BY <1>1, <1>2, SameCard
<1>13. CASE Halting
  <2>1. PICK rest \in Middles :
          \/ HaltSave(rest) \/ HaltRender(rest)
          \/ \E k \in 0 .. M - 1 : \/ HaltLock(rest, k) \/ HaltStop(rest, k)
                                   \/ HaltUnlock(rest, k) \/ HaltVga(rest, k)
    BY <1>13 DEF Halting
  <2>2. /\ HaltSave(rest) => HaltSave(rest)'
        /\ HaltRender(rest) => HaltRender(rest)'
    BY <1>1, <1>10, <1>11 DEF HaltSave, HaltRender, Saved
  <2>3. ASSUME NEW k \in 0 .. M - 1
        PROVE  /\ HaltLock(rest, k) => HaltLock(rest, k)'
               /\ HaltStop(rest, k) => HaltStop(rest, k)'
               /\ HaltUnlock(rest, k) => HaltUnlock(rest, k)'
               /\ HaltVga(rest, k) => HaltVga(rest, k)'
    <3>1. HaltLock(rest, k) => HaltLock(rest, k)'
      BY <1>1, <1>6, <1>7, <1>10, <1>11, <1>12 DEF HaltLock, From
    <3>2. HaltStop(rest, k) => HaltStop(rest, k)'
      BY <1>1, <1>6, <1>7, <1>10, <1>11, <1>12 DEF HaltStop, From
    <3>3. HaltUnlock(rest, k) => HaltUnlock(rest, k)'
      BY <1>1, <1>6, <1>7, <1>10, <1>11, <1>12 DEF HaltUnlock, From
    <3>4. HaltVga(rest, k) => HaltVga(rest, k)'
      BY <1>1, <1>6, <1>7, <1>10, <1>11, <1>12 DEF HaltVga, From
    <3> QED
      BY <3>1, <3>2, <3>3, <3>4
  <2>4. Halting'
    BY <1>4, <2>1, <2>2, <2>3 DEF Halting
  <2> QED
    BY <2>4 DEF Steps
<1>14. CASE Moving
  <2>1. Move' = Move /\ MoveHdp' = MoveHdp /\ MoveRest' = MoveRest /\ MoveWait' = MoveWait
    BY <1>1, <1>2, SameMiddle
  <2>2. Moving'
    BY <1>1, <1>5, <1>10, <1>14, <2>1
       DEF Moving, AtMoveRest, AtMoveHdp, AtMove, AtMoveWait, Hdp
  <2> QED
    BY <2>2 DEF Steps
<1>15. CASE Resetting
  <2>1. /\ CpDown' = CpDown /\ CpUp' = CpUp /\ EngineDown' = EngineDown /\ EngineUp' = EngineUp
        /\ \A busy \in BOOLEAN : CpHalt(busy)' = CpHalt(busy) /\ ResetRest(busy)' = ResetRest(busy)
    BY <1>1, <1>2, SameMiddle
  <2>2. (reg[EngineReset] = 0 => (reg[EngineReset] = 0)') /\ (reg[CpReset] = 0 => (reg[CpReset] = 0)')
    BY <1>1 DEF EngineReset, CpReset
  <2>3. Resetting'
    BY <1>1, <1>5, <1>10, <1>15, <2>1, <2>2 DEF Resetting, AtEngineDown, AtCpDown
  <2> QED
    BY <2>3 DEF Steps
<1>16. CASE Resuming
  <2>1. PICK rest \in Afterwards :
          \/ ResumeHdp(rest) \/ ResumeRender(rest)
          \/ \E k \in 0 .. M - 1 :
               \/ ResumeShow(rest, k) \/ ResumeVga(rest, k) \/ ResumeLock(rest, k)
               \/ ResumeStart(rest, k) \/ ResumeUnlock(rest, k)
    BY <1>16 DEF Resuming
  <2>2. /\ ResumeHdp(rest) => ResumeHdp(rest)'
        /\ ResumeRender(rest) => ResumeRender(rest)'
    BY <1>1, <1>5, <1>10, <1>11 DEF ResumeHdp, ResumeRender
  <2>3. ASSUME NEW k \in 0 .. M - 1
        PROVE  /\ ResumeShow(rest, k) => ResumeShow(rest, k)'
               /\ ResumeVga(rest, k) => ResumeVga(rest, k)'
               /\ ResumeLock(rest, k) => ResumeLock(rest, k)'
               /\ ResumeStart(rest, k) => ResumeStart(rest, k)'
               /\ ResumeUnlock(rest, k) => ResumeUnlock(rest, k)'
    <3>1. ResumeShow(rest, k) => ResumeShow(rest, k)'
      BY <1>1, <1>5, <1>9, <1>11, <1>12 DEF ResumeShow, From
    <3>2. ResumeVga(rest, k) => ResumeVga(rest, k)'
      BY <1>1, <1>5, <1>6, <1>8, <1>10, <1>11, <1>12 DEF ResumeVga, From
    <3>3. ResumeLock(rest, k) => ResumeLock(rest, k)'
      BY <1>1, <1>5, <1>6, <1>7, <1>10, <1>11, <1>12 DEF ResumeLock, From
    <3>4. ResumeStart(rest, k) => ResumeStart(rest, k)'
      BY <1>1, <1>5, <1>6, <1>7, <1>10, <1>11, <1>12 DEF ResumeStart, From
    <3>5. ResumeUnlock(rest, k) => ResumeUnlock(rest, k)'
      BY <1>1, <1>5, <1>6, <1>7, <1>10, <1>11, <1>12 DEF ResumeUnlock, From
    <3> QED
      BY <3>1, <3>2, <3>3, <3>4, <3>5
  <2>4. Resuming'
    BY <1>4, <2>1, <2>2, <2>3 DEF Resuming
  <2> QED
    BY <2>4 DEF Steps
<1>17. CASE Resumed
  BY <1>1, <1>4, <1>10, <1>17 DEF Resumed, Steps
<1> QED
  BY <1>13, <1>14, <1>15, <1>16, <1>17 DEF Steps

(* The procedures halt and resume the displays step by step. *)
THEOREM MemoryInvariance == MemorySpec => []MInv
<1>1. MInv /\ [MemoryNext]_memoryVars => MInv'
  <2>1. Typed /\ UNCHANGED memoryVars => Typed'
    BY DEF Typed, MemoryTypeOK, memoryVars
  <2> QED
    BY <2>1, TypedStep, StepsStep, StepsStutter DEF MInv
<1> QED
  BY <1>1, MemoryStarts, PTL DEF MemorySpec

(* Between two procedures the displays are as they were. *)
THEOREM McInvAlways == MemorySpec => []McInv
<1>1. ASSUME MInv
      PROVE  McInv
  <2>1. MemoryTypeOK /\ mcCard \in McCards
    BY <1>1 DEF MInv, Typed, MemoryTypeOK
  <2>2. ASSUME mcTodo = <<>>
        PROVE  /\ \A n \in CrtcsOf(mcCard) :
                    /\ reg[Control(n)] = initial[Control(n)]
                    /\ reg[VgaControl(n)] = initial[VgaControl(n)]
                    /\ reg[<<"lock", n>>] = 0 /\ waiting[n] = -1
                    /\ Reaches => (reg[Location] = 1 => reg[Surface(n)] = 1)
               /\ reg[Hdp] = initial[Hdp]
               /\ reg[<<"engine reset", 0>>] = 0 /\ reg[<<"cp reset", 0>>] = 0
    <3>1. Lit /\ Unmoved
      BY <1>1, <2>2, NothingLeft DEF MInv
    <3>2. ASSUME NEW n \in CrtcsOf(mcCard)
          PROVE  /\ reg[Control(n)] = initial[Control(n)]
                 /\ reg[<<"lock", n>>] = 0 /\ waiting[n] = -1
      <4>1. Status(n) = Expected(n, "as it was")
        BY <2>1, <3>1, KnowsFirst DEF Lit, Screens
      <4>2. <<reg[Control(n)], reg[<<"lock", n>>], waiting[n]>> = <<initial[Control(n)], 0, -1>>
        BY <4>1, Stages DEF Status
      <4> QED
        BY <4>2
    <3>3. ASSUME NEW n \in CrtcsOf(mcCard)
          PROVE  reg[VgaControl(n)] = initial[VgaControl(n)]
      <4>1. ~(0 <= n /\ n < 0)
        BY <2>1, KnowsFirst
      <4> QED
        BY <3>1, <4>1 DEF Lit, VgaOffOn
    <3>4. ASSUME NEW n \in CrtcsOf(mcCard), Reaches, reg[Location] = 1
          PROVE  reg[Surface(n)] = 1
      <4>1. n < M
        BY <2>1, <3>4, KnowsFirst
      <4> QED
        BY <3>1, <3>4, <4>1 DEF Unmoved, ShownRight, ShownTo
    <3>5. reg[Hdp] = initial[Hdp] /\ reg[<<"engine reset", 0>>] = 0 /\ reg[<<"cp reset", 0>>] = 0
      BY <3>1 DEF Unmoved, HostBack, NoReset, EngineReset, CpReset
    <3> QED
      BY <3>2, <3>3, <3>4, <3>5
  <2> QED
    BY <2>1, <2>2 DEF McInv, Restored
<1> QED
  BY <1>1, MemoryInvariance, PTL

(* The memory moves only when nobody reads it. *)
THEOREM QuietMoveAlways == MemorySpec => QuietMove
<1>1. MInv /\ [MemoryNext]_memoryVars => [QuietStep]_memoryVars
  BY StepsStep DEF MInv
<1> QED
  BY <1>1, MemoryInvariance, PTL DEF MemorySpec, QuietMove
=============================================================================
