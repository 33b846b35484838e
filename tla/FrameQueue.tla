----------------------------- MODULE FrameQueue -----------------------------
(***************************************************************************)
(* What the display server of server/main.c promises, with no slots,       *)
(* mutexes or flips: a bounded queue of painted frames between the         *)
(* painting loop and the screen.  A frame is identified by the clock tick  *)
(* it shows.  The frame on the screen occupies a framebuffer of its own.   *)
(***************************************************************************)
EXTENDS Integers, Sequences

CONSTANTS Capacity,   (* number of framebuffers                            *)
          Period      (* number of clock pictures before they repeat       *)

VARIABLES next,       (* the tick the next painted frame will show         *)
          ready,      (* the frames painted and not shown yet, oldest first *)
          shown       (* the frame on the screen, or Nothing               *)

qvars == <<next, ready, shown>>

Nothing == -1

After(t) == IF t + 1 >= Period THEN 0 ELSE t + 1

Init == next = 0 /\ ready = <<>> /\ shown = Nothing

Occupied == Len(ready) + (IF shown = Nothing THEN 0 ELSE 1)

Publish == /\ Occupied < Capacity
           /\ ready' = Append(ready, next)
           /\ next' = After(next)
           /\ UNCHANGED shown

Show == /\ ready # <<>>
        /\ shown' = Head(ready)
        /\ ready' = Tail(ready)
        /\ UNCHANGED next

Next == Publish \/ Show

Spec == Init /\ [][Next]_qvars
=============================================================================
