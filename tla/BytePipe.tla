------------------------------ MODULE BytePipe ------------------------------
(***************************************************************************)
(* What a ring queue of haiku/user/radeon_hd/ringqueue.cpp promises: a     *)
(* bounded first-in first-out pipe of bytes that takes and gives as many   *)
(* bytes as it can of those asked for.                                     *)
(***************************************************************************)
EXTENDS Integers, Sequences

CONSTANTS Capacity,   (* how many bytes the pipe holds                     *)
          Byte        (* the bytes                                         *)

VARIABLES content,    (* the bytes written and not read yet, oldest first  *)
          out         (* the bytes the last read returned                  *)

Init == content = <<>> /\ out = <<>>

(* The writer's bytes go in behind the others, up to the room there is.   *)
Put == /\ content' \in Seq(Byte)
       /\ Len(content') \in Len(content) + 1 .. Capacity
       /\ SubSeq(content', 1, Len(content)) = content
       /\ UNCHANGED out

(* The oldest bytes come out. *)
Get == \E n \in 1 .. Len(content) :
         /\ out' = SubSeq(content, 1, n)
         /\ content' = SubSeq(content, n + 1, Len(content))

Clear == content' = <<>> /\ UNCHANGED out

Next == Put \/ Get \/ Clear

Spec == Init /\ [][Next]_<<content, out>>
=============================================================================
