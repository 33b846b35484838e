------------------------------- MODULE MemMove -------------------------------
(***************************************************************************)
(* memmove() of the bare-metal kernel (string.c), which also scrolls the    *)
(* screen: it chooses a direction from the order and the overlap of the two *)
(* regions, and a unit of four bytes or of one from their alignment, and    *)
(* then the string instruction moves a unit at a time.                     *)
(***************************************************************************)
EXTENDS Integers

CONSTANTS
  Size,       (* bytes of memory                                           *)
  WORD        (* bytes moved by movsl                                      *)

ASSUME MemoryAssumption == Size \in Nat /\ WORD \in Nat \ {0}

VARIABLES
  dst, src, n,     (* the arguments                                        *)
  mem,             (* a byte is the address it was at when the call began   *)
  esi, edi, ecx,   (* the registers of rep movs                            *)
  df, unit         (* the direction, -1 or 1, and the bytes moved at once   *)

copyVars == <<dst, src, n, mem, esi, edi, ecx, df, unit>>

Addresses == 0 .. Size - 1
Regions   == {r \in (0 .. Size) \X (0 .. Size) \X (0 .. Size) : r[1] + r[3] <= Size /\ r[2] + r[3] <= Size}

(* The source begins first and reaches into the destination.  Mutant:       *)
(* the two are taken for each other.                                       *)
OverlapsSwapped(d, s, k) == d < s /\ d + k > s
Overlaps(d, s, k) == s < d /\ s + k > d

(* Both ends, those at which the move begins, must lie on words.            *)
Aligned(d, s, k) == s % WORD = 0 /\ d % WORD = 0 /\ k % WORD = 0

MoveInit ==
  /\ \E r \in Regions : dst = r[1] /\ src = r[2] /\ n = r[3]
  /\ mem = [a \in Addresses |-> a]
  /\ LET back == Overlaps(dst, src, n)
         s    == IF back THEN src + n ELSE src
         d    == IF back THEN dst + n ELSE dst
         u    == IF Aligned(d, s, n) THEN WORD ELSE 1
     IN  /\ unit = u /\ ecx = n \div u /\ df = IF back THEN -1 ELSE 1
         /\ esi = IF back THEN s - u ELSE s
         /\ edi = IF back THEN d - u ELSE d

(* One round of rep movs.                                                   *)
Movs ==
  /\ ecx > 0
  /\ mem' = [a \in Addresses |-> IF a \in edi .. edi + unit - 1 THEN mem[a - edi + esi] ELSE mem[a]]
  /\ esi' = esi + df * unit /\ edi' = edi + df * unit /\ ecx' = ecx - 1
  /\ UNCHANGED <<dst, src, n, df, unit>>

Moved == ecx = 0 /\ UNCHANGED copyVars

MoveNext == Movs \/ Moved

MoveSpec == MoveInit /\ [][MoveNext]_copyVars

-----------------------------------------------------------------------------
(* While it runs no byte of the source is lost before it is taken, and in   *)
(* the end the destination holds what the source held; nothing else is      *)
(* touched, wherever the regions lie (string.c:141).                       *)
MoveInv ==
  LET taken == IF df = 1 THEN 0 .. (n - ecx * unit) - 1 ELSE ecx * unit .. n - 1
  IN  /\ \A i \in 0 .. n - 1 : IF i \in taken THEN mem[dst + i] = src + i ELSE mem[src + i] = src + i
      /\ \A a \in Addresses \ (dst .. dst + n - 1) : mem[a] = a
=============================================================================
