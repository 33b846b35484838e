-------------------------- MODULE FbFifoRefinement --------------------------
(***************************************************************************)
(* The display server implements the bounded frame queue: the frames       *)
(* marked ready and not latched by the kernel yet are the queue, and the   *)
(* framebuffer being scanned out is the frame shown.                       *)
(***************************************************************************)
EXTENDS FbFifo, Sequences

(* The slot of the oldest frame that is ready and not latched yet. *)
HeadSlot == IF screen = None THEN 0 ELSE Succ(screen)

(* How many frames are ready, walking from HeadSlot to wp around the ring.  *)
(* Before the first flip the ring can be full, with wp back at HeadSlot.    *)
NumReady ==
  LET w == Wrap(wp)
  IN  IF w > HeadSlot THEN w - HeadSlot
      ELSE IF w < HeadSlot THEN w - HeadSlot + FB_NUM
      ELSE IF screen = None /\ fb_val[HeadSlot] = 1 THEN FB_NUM ELSE 0

ReadyFrames ==
  [k \in 1 .. NumReady |->
     picture[IF HeadSlot + k - 1 >= FB_NUM THEN HeadSlot + k - 1 - FB_NUM
             ELSE HeadSlot + k - 1]]

Queue == INSTANCE FrameQueue WITH
           Capacity <- FB_NUM,
           next     <- NextFrame,
           ready    <- ReadyFrames,
           shown    <- IF screen = None THEN -1 ELSE picture[screen]

(* Every step of the server is a step of the frame queue or leaves it       *)
(* alone: no frame is lost, repeated, reordered or overwritten between the  *)
(* end of draw_frame() and the screen, and the queue never overflows.       *)
ImplementsQueue == Queue!Spec
=============================================================================
