------------------------ MODULE RingQueueRefinement -------------------------
(***************************************************************************)
(* RingQueue implements the bounded pipe: the bytes in use, read off from  *)
(* fReadPtr around the ring, are the content of the pipe.  The module also *)
(* checks how the constructor chooses the size of the ring.                *)
(***************************************************************************)
EXTENDS RingQueue, Sequences

(* compute_order(size): the shift loop finds the top bit, and the mask      *)
(* test adds one when any other bit is set.                                *)
compute_order(size) ==
  LET order == CHOOSE o \in 0 .. size : 2 ^ o <= size /\ size < 2 ^ (o + 1)
  IN  IF size = 0 THEN 0 ELSE IF size % 2 ^ order # 0 THEN order + 1 ELSE order

(* The constructor: the size in bytes of the ring for a request. *)
QueueSize(sizeBytes) == 2 ^ (compute_order(sizeBytes \div 8) + 1) * 4

(* Sizes are powers of two of at least eight bytes, and a request in whole  *)
(* quadwords gets a ring that holds it but is less than twice as large.    *)
ASSUME SizesFit ==
  \A q \in 1 .. 300 :
     /\ \E o \in 3 .. 13 : QueueSize(8 * q) = 2 ^ o
     /\ 8 * q <= QueueSize(8 * q) /\ QueueSize(8 * q) < 16 * q

Pipe == INSTANCE BytePipe WITH
          Capacity <- Size, Byte <- Stamp,
          content  <- [k \in 1 .. Size - fWriteBytesAvail |->
                         fData[Advance(fReadPtr, k - 1)]],
          out      <- [k \in 1 .. ret.n |-> ret.data[k - 1]]

(* Every call of the queue is a step of the pipe or leaves it alone: bytes *)
(* come out in the order they went in, at most Size are held, and a write  *)
(* that does not fit keeps a prefix.                                       *)
ImplementsPipe == Pipe!Spec
=============================================================================
