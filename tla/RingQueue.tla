----------------------------- MODULE RingQueue ------------------------------
(***************************************************************************)
(* The ring queue of haiku/user/radeon_hd/ringqueue.cpp: the byte ring     *)
(* between the driver and the command processor.                           *)
(*                                                                         *)
(* The class never looks at the bytes it carries, so a byte is the stamp   *)
(* 0 .. Period - 1 that the caller's stream has at that point: the k-th    *)
(* byte accepted by Write since the start carries k % Period.  `put' and   *)
(* `got' are the stamps of the next byte the caller offers and of the next *)
(* byte a correct queue returns; they are no part of the program.          *)
(***************************************************************************)
EXTENDS Integers

CONSTANTS
  Size,      (* fSize, the bytes of the ring                               *)
  Period     (* stamps before they repeat: more than the ring holds        *)

ASSUME SizeAssumption   == Size \in Nat /\ Size >= 1
ASSUME PeriodAssumption == Period \in Nat /\ Period > Size

Stamp == 0 .. Period - 1
Cell  == 0 .. Size - 1
Zero  == -1                       (* a byte cleared by memset              *)

VARIABLES
  fData,              (* the ring                                          *)
  fReadPtr,           (* offset of the oldest byte                         *)
  fWritePtr,          (* offset of the next byte to write                  *)
  fWriteBytesAvail,   (* free bytes                                        *)
  ret,                (* what the last Read returned: the bytes and how many *)
  put, got            (* ghost: stamps of the streams written and read     *)

ring == <<fData, fReadPtr, fWritePtr, fWriteBytesAvail>>
vars == <<ring, ret, put, got>>

(* n steps along the stream; n is at most the size of the ring. *)
After(stamp, n) == IF stamp + n >= Period THEN stamp + n - Period ELSE stamp + n

(* The wrap of the two pointers. *)
Advance(ptr, n) == (ptr + n) % Size

Clip(n, most) == IF n > most THEN most ELSE n

-----------------------------------------------------------------------------
Init ==
  /\ fData = [i \in Cell |-> Zero]
  /\ fReadPtr = 0 /\ fWritePtr = 0
  /\ fWriteBytesAvail = Size
  /\ ret = [n |-> 0, data |-> [i \in Cell |-> Zero]]
  /\ put = 0 /\ got = 0

(* Mutant: the write pointer is left alone. *)
EmptyKeepsPtr ==
  /\ fData' = [i \in Cell |-> Zero]
  /\ fReadPtr' = 0
  /\ fWriteBytesAvail' = Size
  /\ got' = put
  /\ UNCHANGED <<fWritePtr, ret, put>>

Empty ==
  /\ fData' = [i \in Cell |-> Zero]
  /\ fReadPtr' = 0 /\ fWritePtr' = 0
  /\ fWriteBytesAvail' = Size
  /\ got' = put
  /\ UNCHANGED <<ret, put>>

(* Mutant: no second copy when the bytes pass the end of the ring. *)
StoredNoWrap(n) ==
  [i \in Cell |->
     IF fWritePtr <= i /\ i < fWritePtr + n
     THEN After(put, i - fWritePtr) ELSE fData[i]]

(* The one or two memcpy of Write: the ring after n bytes of the caller's  *)
(* stream have been stored at fWritePtr.                                   *)
Stored(n) ==
  LET len == Size - fWritePtr
  IN  IF n > len
      THEN [i \in Cell |-> IF fWritePtr <= i THEN After(put, i - fWritePtr)
                           ELSE IF i < n - len THEN After(put, len + i)
                           ELSE fData[i]]
      ELSE [i \in Cell |-> IF fWritePtr <= i /\ i < fWritePtr + n
                           THEN After(put, i - fWritePtr) ELSE fData[i]]

(* Mutant: the request is not cut down to the free bytes. *)
WriteUnclipped(bytes) ==
  /\ bytes > 0 /\ fWriteBytesAvail # 0
  /\ fData' = Stored(bytes)
  /\ fWritePtr' = Advance(fWritePtr, bytes)
  /\ fWriteBytesAvail' = fWriteBytesAvail - bytes
  /\ put' = After(put, bytes)
  /\ UNCHANGED <<fReadPtr, ret, got>>

(* Write(dataPtr, bytes): takes what fits.  The early return of a full     *)
(* queue or an empty request changes nothing.                              *)
Write(bytes) ==
  /\ bytes > 0 /\ fWriteBytesAvail # 0
  /\ LET n == Clip(bytes, fWriteBytesAvail)
     IN  /\ fData' = Stored(n)
         /\ fWritePtr' = Advance(fWritePtr, n)
         /\ fWriteBytesAvail' = fWriteBytesAvail - n
         /\ put' = After(put, n)
  /\ UNCHANGED <<fReadPtr, ret, got>>

(* Mutant: Read makes one copy only. *)
FetchedNoWrap(n) ==
  [i \in Cell |-> IF i >= n \/ fReadPtr + i >= Size THEN Zero
                  ELSE fData[fReadPtr + i]]

(* The one or two memcpy of Read: the caller's buffer after n bytes. *)
Fetched(n) ==
  LET len == Size - fReadPtr
  IN  [i \in Cell |->
         IF i >= n THEN Zero
         ELSE IF n > len /\ i >= len THEN fData[i - len]
         ELSE fData[fReadPtr + i]]

(* Mutant: the read pointer moves by what was asked for. *)
ReadRunsAhead(bytes) ==
  /\ bytes > 0 /\ fWriteBytesAvail # Size
  /\ LET n == Clip(bytes, Size - fWriteBytesAvail)
     IN  /\ ret' = [n |-> n, data |-> Fetched(n)]
         /\ fReadPtr' = Advance(fReadPtr, bytes)
         /\ fWriteBytesAvail' = fWriteBytesAvail + n
         /\ got' = After(got, n)
  /\ UNCHANGED <<fData, fWritePtr, put>>

(* Read(dataPtr, bytes): gives what there is. *)
Read(bytes) ==
  /\ bytes > 0 /\ fWriteBytesAvail # Size
  /\ LET n == Clip(bytes, Size - fWriteBytesAvail)
     IN  /\ ret' = [n |-> n, data |-> Fetched(n)]
         /\ fReadPtr' = Advance(fReadPtr, n)
         /\ fWriteBytesAvail' = fWriteBytesAvail + n
         /\ got' = After(got, n)
  /\ UNCHANGED <<fData, fWritePtr, put>>

(* A caller may ask for more than the ring can ever hold. *)
Next == \/ Empty
        \/ \E bytes \in 0 .. Size + 1 : Write(bytes) \/ Read(bytes)

Spec == Init /\ [][Next]_vars

-----------------------------------------------------------------------------
(* Every variable has its type: the pointers stay inside the ring.         *)
TypeOK ==
  /\ fData \in [Cell -> Stamp \cup {Zero}]
  /\ fReadPtr \in Cell /\ fWritePtr \in Cell
  /\ fWriteBytesAvail \in 0 .. Size
  /\ ret.n \in 0 .. Size /\ ret.data \in [Cell -> Stamp \cup {Zero}]
  /\ put \in Stamp /\ got \in Stamp

(* The three numbers that describe the ring agree: the write pointer is as *)
(* many bytes past the read pointer as are in use, also when the ring is   *)
(* full or empty and both pointers are equal.                              *)
Accounting == fWritePtr = Advance(fReadPtr, Size - fWriteBytesAvail)

(* The bytes in use are exactly the part of the caller's stream that has   *)
(* been written and not read: nothing unread has been overwritten.         *)
Unread ==
  /\ put = After(got, Size - fWriteBytesAvail)
  /\ \A k \in 0 .. Size - 1 :
       k < Size - fWriteBytesAvail =>
         fData[Advance(fReadPtr, k)] = After(got, k)

(* The inductive invariant. *)
Inv == TypeOK /\ Accounting /\ Unread

(* Read returns the bytes of the stream in the order they were written,    *)
(* none skipped and none repeated, however the calls were cut up by the    *)
(* end of the ring.                                                        *)
ReadsInOrder ==
  [][\A bytes \in 0 .. Size + 1 :
       Read(bytes) =>
         /\ \A k \in 0 .. Size - 1 : k < ret'.n => ret'.data[k] = After(got, k)
         /\ got' = After(got, ret'.n)]_vars
=============================================================================
