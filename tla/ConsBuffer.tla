----------------------------- MODULE ConsBuffer -----------------------------
(***************************************************************************)
(* The console input buffer of the bare-metal kernel: cons_intr(),         *)
(* cons_getc() and getchar() of kernel/console.c.  The devices are polled   *)
(* when somebody asks for a character; whatever they hold goes into a      *)
(* circular buffer, and one character comes out.  Nothing checks whether   *)
(* the buffer is full.                                                     *)
(***************************************************************************)
EXTENDS Integers, Sequences

CONSTANTS
  CONSBUFSIZE,     (* slots of the circular buffer                         *)
  SerialExists,    (* did serial_init() find the port?                     *)
  KbdQueue,        (* bytes the keyboard controller holds                  *)
  MaxTyped         (* bound: bytes that arrive in a behaviour              *)

(* A buffer that can hold anything has two slots.                          *)
ASSUME BufferAssumption == CONSBUFSIZE \in Nat \ {0, 1} /\ MaxTyped \in Nat

Slots   == 0 .. CONSBUFSIZE - 1
Devices == {"serial", "kbd"}
Chars   == [dev : Devices, n : 1 .. MaxTyped]
NUL     == [dev |-> "none", n |-> 0]

VARIABLES
  pending,          (* per device, the bytes it holds                      *)
  cons_buf, rpos, wpos,   (* the buffer, cons.buf and its positions        *)
  pc,               (* where getchar() is                                  *)
  typed,            (* how many bytes have arrived                         *)
  unread,           (* ghost: characters stored and not returned or passed *)
  last              (* ghost: per device, the newest character returned    *)

kernel    == <<cons_buf, rpos, wpos, pc>>
ghosts    == <<unread, last>>
inputVars == <<pending, kernel, typed, ghosts>>

-----------------------------------------------------------------------------
InputInit ==
  /\ pending = [d \in Devices |-> <<>>]
  /\ cons_buf = [s \in Slots |-> NUL] /\ rpos = 0 /\ wpos = 0
  /\ pc = "idle"
  /\ typed = 0
  /\ unread = <<>> /\ last = [d \in Devices |-> 0]

(* A byte arrives.  The serial FIFO is off: the port holds one.  A shift or *)
(* a prefix of the keyboard yields NUL, and so does a zero on the line.    *)
Capacity(d) == IF d = "serial" THEN 1 ELSE KbdQueue

Arrive(d) ==
  /\ typed < MaxTyped /\ Len(pending[d]) < Capacity(d)
  /\ typed' = typed + 1
  /\ \E c \in {NUL, [dev |-> d, n |-> typed + 1]} :
       pending' = [pending EXCEPT ![d] = Append(@, c)]
  /\ UNCHANGED <<kernel, ghosts>>

(* getchar() calls cons_getc(), which polls the serial port if there is one. *)
Getc ==
  /\ pc = "idle"
  /\ pc' = IF SerialExists THEN "serial" ELSE "kbd"
  /\ UNCHANGED <<pending, cons_buf, rpos, wpos, typed, ghosts>>

(* Mutant: the index wraps one slot too late. *)
StepLate(pos) == IF pos + 1 > CONSBUFSIZE THEN 0 ELSE pos + 1
Step(pos)     == IF pos + 1 = CONSBUFSIZE THEN 0 ELSE pos + 1

(* Mutant: the position moves before the character is stored.              *)
IntrMovesFirst(d) ==
  /\ pc = d /\ pending[d] # <<>>
  /\ LET c == Head(pending[d]) IN
       /\ IF c = NUL
          THEN UNCHANGED <<cons_buf, wpos, unread>>
          ELSE /\ cons_buf' = [cons_buf EXCEPT ![Step(wpos)] = c] /\ wpos' = Step(wpos)
               /\ unread' = Append(unread, c)
       /\ pending' = [pending EXCEPT ![d] = Tail(@)]
  /\ UNCHANGED <<rpos, pc, typed, last>>

(* One turn of cons_intr()'s loop for a device that has a byte. *)
Intr(d) ==
  /\ pc = d /\ pending[d] # <<>>
  /\ LET c == Head(pending[d]) IN
       /\ IF c = NUL
          THEN UNCHANGED <<cons_buf, wpos, unread>>
          ELSE /\ cons_buf' = [cons_buf EXCEPT ![wpos] = c] /\ wpos' = Step(wpos)
               /\ unread' = Append(unread, c)
       /\ pending' = [pending EXCEPT ![d] = Tail(@)]
  /\ UNCHANGED <<rpos, pc, typed, last>>

(* The device has nothing: on to the next one, or to the buffer. *)
IntrEnd(d) ==
  /\ pc = d /\ pending[d] = <<>>
  /\ pc' = IF d = "serial" THEN "kbd" ELSE "grab"
  /\ UNCHANGED <<pending, cons_buf, rpos, wpos, typed, ghosts>>

(* Mutant: the newest character comes out instead of the oldest.           *)
GrabNewest ==
  /\ pc = "grab" /\ rpos # wpos
  /\ LET c == cons_buf[(wpos + CONSBUFSIZE - 1) % CONSBUFSIZE] IN
       /\ unread' = SelectSeq(unread, LAMBDA u : u # c)
       /\ last' = [d \in Devices |-> IF d = c.dev THEN c.n ELSE last[d]]
  /\ wpos' = (wpos + CONSBUFSIZE - 1) % CONSBUFSIZE
  /\ pc' = "idle"
  /\ UNCHANGED <<pending, cons_buf, rpos, typed>>

(* Mutant: the position does not move, and the character comes again.      *)
GrabAgain ==
  /\ pc = "grab" /\ rpos # wpos
  /\ LET c == cons_buf[rpos] IN
       /\ unread' = SelectSeq(unread, LAMBDA u : u # c)
       /\ last' = [d \in Devices |-> IF d = c.dev THEN c.n ELSE last[d]]
  /\ pc' = "idle"
  /\ UNCHANGED <<pending, cons_buf, rpos, wpos, typed>>

(* cons_getc() returns a character, and getchar() returns with it.         *)
Grab ==
  /\ pc = "grab" /\ rpos # wpos
  /\ LET c == cons_buf[rpos] IN
       /\ unread' = SubSeq(unread, 1 + CHOOSE k \in 1 .. Len(unread) : unread[k] = c,
                           Len(unread))
       /\ last' = [d \in Devices |-> IF d = c.dev THEN c.n ELSE last[d]]
  /\ rpos' = Step(rpos)
  /\ pc' = "idle"
  /\ UNCHANGED <<pending, cons_buf, wpos, typed>>

(* Mutant: getchar() looks at the buffer again without polling.            *)
GrabNoPoll ==
  /\ pc = "grab" /\ rpos = wpos
  /\ UNCHANGED inputVars

(* It returns 0, and getchar() asks again. *)
GrabNone ==
  /\ pc = "grab" /\ rpos = wpos
  /\ pc' = IF SerialExists THEN "serial" ELSE "kbd"
  /\ UNCHANGED <<pending, cons_buf, rpos, wpos, typed, ghosts>>

Poll(d) == Intr(d) \/ IntrEnd(d)
InputNext ==
  \/ \E d \in Devices : Arrive(d) \/ Poll(d)
  \/ Getc \/ Grab \/ GrabNone

(* getchar() is a loop of the only processor: it goes on while it can.     *)
Fairness == WF_inputVars((\E d \in Devices : Poll(d)) \/ Grab \/ GrabNone)
InputSpec == InputInit /\ [][InputNext]_inputVars /\ Fairness

-----------------------------------------------------------------------------
(* Every variable has its type; the positions stay in the buffer.          *)
InputTypeOK ==
  /\ pending \in [Devices -> Seq(Chars \cup {NUL})]
  /\ cons_buf \in [Slots -> Chars \cup {NUL}]
  /\ rpos \in Slots /\ wpos \in Slots
  /\ pc \in Devices \cup {"idle", "grab"}
  /\ typed \in 0 .. MaxTyped
  /\ unread \in Seq(Chars)
  /\ last \in [Devices -> 0 .. MaxTyped]

(* What cons.buf is good for: of the unread characters the newest are in    *)
(* it, one per slot, right behind each other, and the ones lost when it     *)
(* overflows are whole laps of the buffer.                                 *)
WholeLaps ==
  /\ wpos = (rpos + Len(unread)) % CONSBUFSIZE
  /\ \A k \in 1 .. Len(unread) :
       k > Len(unread) - CONSBUFSIZE =>
         cons_buf[(rpos + k - 1) % CONSBUFSIZE] = unread[k]

InputInv == InputTypeOK /\ WholeLaps

(* What getchar() returns is newer than everything of its device that it    *)
(* has returned before, even out of a buffer that overflowed: no character *)
(* comes twice or before an older one.  Other steps return nothing.        *)
InOrder ==
  [][IF pc = "grab" /\ pc' = "idle"
     THEN \E d \in Devices :
            last'[d] > last[d] /\ \A e \in Devices \ {d} : last'[e] = last[e]
     ELSE last' = last]_inputVars

(* "return the next input character from the console, or 0 if none waiting" *)
(* (console.c:405): a 0 means that no character waits in the buffer.       *)
ZeroMeansNone == [][GrabNone => unread = <<>>]_inputVars

(* While the buffer does not overflow, a character that reached a device    *)
(* while getchar() waits lets it return.                                   *)
Overflowed == Len(unread) >= CONSBUFSIZE
Waiting    == \E d \in Devices : \E k \in DOMAIN pending[d] :
                pending[d][k] # NUL /\ (d = "serial" => SerialExists)
GetcharReturns ==
  (pc # "idle" /\ (Waiting \/ unread # <<>>)) ~> (pc = "idle" \/ Overflowed)
=============================================================================
