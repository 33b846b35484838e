------------------------------- MODULE FbFifo -------------------------------
(***************************************************************************)
(* The page-flipping display server, server/main.c.                        *)
(*                                                                         *)
(* main() is the PRODUCER: it waits for a free framebuffer, paints the     *)
(* clock into it and marks it ready.  frame_update() is the DISPLAY        *)
(* thread: it waits for a ready framebuffer, asks the kernel to flip to    *)
(* it, waits for the flip to complete and only then frees the framebuffer  *)
(* shown before.  They share fb_fifo: fb_val[] with TWO mutexes and TWO    *)
(* condition variables.  fb_val[i] is set to 1 under rmutex and to 0 under *)
(* wmutex, and each thread reads it under the mutex of its own condition.  *)
(*                                                                         *)
(* The KMS driver is the environment: it latches a pending flip at the     *)
(* next vertical blank and queues one event on the file descriptor.        *)
(***************************************************************************)
EXTENDS Integers

CONSTANTS
  FB_NUM,    (* number of framebuffers (#define FB_NUM 2)                  *)
  Period,    (* number of clock pictures before the angles ma, ha repeat   *)
  HDisplay,  (* width of the mode in pixels                                *)
  VDisplay   (* height of the mode in pixels                               *)

ASSUME FbNumAssumption   == FB_NUM \in Nat /\ FB_NUM >= 2
ASSUME PeriodAssumption  == Period \in Nat /\ Period >= 1
ASSUME DisplayAssumption == /\ HDisplay \in Nat /\ HDisplay >= 1
                            /\ VDisplay \in Nat /\ VDisplay >= 1

Slots == 0 .. FB_NUM - 1
Ticks == 0 .. Period - 1
None  == -1          (* no slot: old_rp at first, no flip pending, or the
                        framebuffer the console showed before the server   *)
Blank == -1          (* picture of a framebuffer nobody has painted        *)
Torn  == -2          (* picture of a framebuffer in the middle of a paint  *)

VARIABLES
  fb_val,    (* slot -> 1 when painted and not yet freed, else 0           *)
  rp, wp,    (* the next slot to flip to, the next slot to paint           *)
  old_rp,    (* the slot flipped to before, still on the screen            *)
  wmutex, rmutex,            (* owner of the mutex, or "free"              *)
  wsleep, rsleep,            (* is a thread blocked in wcond (rcond)?      *)
  ppc, dpc,                  (* where the producer and the display are     *)
  tick,                      (* the clock state (ma, ha)                   *)
  picture,                   (* slot -> what the framebuffer shows         *)
  screen, flip, event,       (* KMS: scanned out slot, pending flip, queued
                                flip event                                 *)
  cx, cy, cdelta             (* cursor.x, cursor.y, cursor_delta           *)

fifo   == <<fb_val, rp, wp, old_rp>>
locks  == <<wmutex, rmutex, wsleep, rsleep>>
kms    == <<screen, flip, event>>
cursor == <<cx, cy, cdelta>>
vars   == <<fifo, locks, ppc, dpc, tick, picture, kms, cursor>>

-----------------------------------------------------------------------------
(* Mutant: the wrap test is > instead of >=. *)
WrapLate(i) == IF i > FB_NUM THEN 0 ELSE i

(* rp++ and wp++ with the wrap to 0. *)
Wrap(i)     == IF i >= FB_NUM THEN 0 ELSE i
Succ(i)     == Wrap(i + 1)
NextTick(t) == IF t + 1 >= Period THEN 0 ELSE t + 1

Init ==
  /\ fb_val = [i \in Slots |-> 0]
  /\ rp = 0 /\ wp = 0 /\ old_rp = None
  /\ wmutex = "free" /\ rmutex = "free"
  /\ wsleep = FALSE /\ rsleep = FALSE
  /\ ppc = "lock_w" /\ dpc = "lock_r"
  /\ tick = 0
  /\ picture = [i \in Slots |-> Blank]
  /\ screen = None /\ flip = None /\ event = FALSE
  /\ cx = 0 /\ cy = 0 /\ cdelta = 1

ProducerAt(from, to) == ppc = from /\ ppc' = to /\ UNCHANGED dpc
DisplayAt(from, to)  == dpc = from /\ dpc' = to /\ UNCHANGED ppc

-----------------------------------------------------------------------------
(* The producer: the loop of main().                                       *)

(* pthread_mutex_lock(wmutex): at the head of the loop and, after a wakeup, *)
(* as the last part of pthread_cond_wait.                                   *)
PLockW ==
  /\ ProducerAt("lock_w", "test_w")
  /\ wmutex = "free" /\ ~wsleep
  /\ wmutex' = "producer"
  /\ UNCHANGED <<fifo, rmutex, wsleep, rsleep, tick, picture, kms, cursor>>

(* Mutant: the producer goes on without testing fb_val. *)
PTestNot ==
  /\ ProducerAt("test_w", "unlock_w")
  /\ UNCHANGED <<fifo, locks, tick, picture, kms, cursor>>

(* while (fb_val[wp] != 0): the test and the wait are two steps, and only   *)
(* the mutex held across both keeps a wakeup from falling between them.    *)
PTestW ==
  /\ ProducerAt("test_w", IF fb_val[wp] # 0 THEN "wait_w" ELSE "unlock_w")
  /\ UNCHANGED <<fifo, locks, tick, picture, kms, cursor>>

(* pthread_cond_wait(wcond, wmutex) frees the mutex and blocks in one step. *)
PWaitW ==
  /\ ProducerAt("wait_w", "lock_w")
  /\ wmutex' = "free" /\ wsleep' = TRUE
  /\ UNCHANGED <<fifo, rmutex, rsleep, tick, picture, kms, cursor>>

PUnlockW ==
  /\ ProducerAt("unlock_w", "paint")
  /\ wmutex' = "free"
  /\ UNCHANGED <<fifo, rmutex, wsleep, rsleep, tick, picture, kms, cursor>>

(* draw_frame(cr[wp], ma, ha) is many stores into the mapped framebuffer.  *)
PPaintBegin ==
  /\ ProducerAt("paint", "painting")
  /\ picture' = [picture EXCEPT ![wp] = Torn]
  /\ UNCHANGED <<fifo, locks, tick, kms, cursor>>

PPaintEnd ==
  /\ ProducerAt("painting", "lock_r")
  /\ picture' = [picture EXCEPT ![wp] = tick]
  /\ UNCHANGED <<fifo, locks, tick, kms, cursor>>

PLockR ==
  /\ ProducerAt("lock_r", "mark")
  /\ rmutex = "free"
  /\ rmutex' = "producer"
  /\ UNCHANGED <<fifo, wmutex, wsleep, rsleep, tick, picture, kms, cursor>>

(* fb_val[wp++] = 1: wp is FB_NUM until the wrap below. *)
PMark ==
  /\ ProducerAt("mark", "unlock_r")
  /\ fb_val' = [fb_val EXCEPT ![wp] = 1]
  /\ wp' = wp + 1
  /\ UNCHANGED <<rp, old_rp, locks, tick, picture, kms, cursor>>

PUnlockR ==
  /\ ProducerAt("unlock_r", "signal_r")
  /\ rmutex' = "free"
  /\ UNCHANGED <<fifo, wmutex, wsleep, rsleep, tick, picture, kms, cursor>>

(* Mutant: the frame is marked but nobody is told. *)
PSignalRNot ==
  /\ ProducerAt("signal_r", "wrap")
  /\ UNCHANGED <<fifo, locks, tick, picture, kms, cursor>>

(* pthread_cond_signal(rcond), outside the mutex. *)
PSignalR ==
  /\ ProducerAt("signal_r", "wrap")
  /\ rsleep' = FALSE
  /\ UNCHANGED <<fifo, wmutex, rmutex, wsleep, tick, picture, kms, cursor>>

(* wrap of wp and the update of the clock angles. *)
PWrap ==
  /\ ProducerAt("wrap", "lock_w")
  /\ wp' = Wrap(wp)
  /\ tick' = NextTick(tick)
  /\ UNCHANGED <<fb_val, rp, old_rp, locks, picture, kms, cursor>>

Producer == \/ PLockW \/ PTestW \/ PWaitW \/ PUnlockW \/ PPaintBegin
            \/ PPaintEnd \/ PLockR \/ PMark \/ PUnlockR \/ PSignalR \/ PWrap

-----------------------------------------------------------------------------
(* The display thread: frame_update().  The wait for the first frame and   *)
(* the wait at the end of the loop are the same code, so the thread starts *)
(* at "lock_r".                                                            *)

DLockR ==
  /\ DisplayAt("lock_r", "test_r")
  /\ rmutex = "free" /\ ~rsleep
  /\ rmutex' = "display"
  /\ UNCHANGED <<fifo, wmutex, wsleep, rsleep, tick, picture, kms, cursor>>

DTestR ==
  /\ DisplayAt("test_r", IF fb_val[rp] # 1 THEN "wait_r" ELSE "unlock_r")
  /\ UNCHANGED <<fifo, locks, tick, picture, kms, cursor>>

DWaitR ==
  /\ DisplayAt("wait_r", "lock_r")
  /\ rmutex' = "free" /\ rsleep' = TRUE
  /\ UNCHANGED <<fifo, wmutex, wsleep, tick, picture, kms, cursor>>

(* The sleep until the next frame that follows changes no state. *)
DUnlockR ==
  /\ DisplayAt("unlock_r", "flip")
  /\ rmutex' = "free"
  /\ UNCHANGED <<fifo, wmutex, wsleep, rsleep, tick, picture, kms, cursor>>

(* drmModePageFlip(fb_ids[rp], DRM_MODE_PAGE_FLIP_EVENT): only queued. *)
DPageFlip ==
  /\ DisplayAt("flip", "cursor")
  /\ flip' = rp
  /\ UNCHANGED <<fifo, locks, tick, picture, screen, event, cursor>>

(* Mutant: the lower edge is forgotten. *)
DMoveCursorWidthOnly ==
  /\ DisplayAt("cursor", "event")
  /\ cx' = cx + cdelta
  /\ cy' = cy + cdelta
  /\ cdelta' = IF cx' >= HDisplay \/ cx' <= 0 \/ cy' <= 0
               THEN -cdelta ELSE cdelta
  /\ UNCHANGED <<fifo, locks, tick, picture, kms>>

(* drmModeMoveCursor(x, y), then the bounce at the edges of the mode. *)
DMoveCursor ==
  /\ DisplayAt("cursor", "event")
  /\ cx' = cx + cdelta
  /\ cy' = cy + cdelta
  /\ cdelta' = IF cx' >= HDisplay \/ cy' >= VDisplay \/ cx' <= 0 \/ cy' <= 0
               THEN -cdelta ELSE cdelta
  /\ UNCHANGED <<fifo, locks, tick, picture, kms>>

(* Mutant: the old framebuffer is freed without waiting for the flip event. *)
DDontWait ==
  /\ DisplayAt("event", IF old_rp >= 0 THEN "lock_w" ELSE "advance")
  /\ event' = FALSE
  /\ UNCHANGED <<fifo, locks, tick, picture, screen, flip, cursor>>

(* drmHandleEvent() blocks until the flip event is there; then            *)
(* if (old_rp >= 0).                                                       *)
DHandleEvent ==
  /\ DisplayAt("event", IF old_rp >= 0 THEN "lock_w" ELSE "advance")
  /\ event
  /\ event' = FALSE
  /\ UNCHANGED <<fifo, locks, tick, picture, screen, flip, cursor>>

(* Mutant: the slot is freed without the producer's mutex. *)
DLockWNot ==
  /\ DisplayAt("lock_w", "release")
  /\ UNCHANGED <<fifo, locks, tick, picture, kms, cursor>>

DLockW ==
  /\ DisplayAt("lock_w", "release")
  /\ wmutex = "free"
  /\ wmutex' = "display"
  /\ UNCHANGED <<fifo, rmutex, wsleep, rsleep, tick, picture, kms, cursor>>

DRelease ==
  /\ DisplayAt("release", "unlock_w")
  /\ fb_val' = [fb_val EXCEPT ![old_rp] = 0]
  /\ UNCHANGED <<rp, wp, old_rp, locks, tick, picture, kms, cursor>>

DUnlockW ==
  /\ DisplayAt("unlock_w", "signal_w")
  /\ wmutex' = "free"
  /\ UNCHANGED <<fifo, rmutex, wsleep, rsleep, tick, picture, kms, cursor>>

(* Mutant: the producer is not told. *)
DSignalWNot ==
  /\ DisplayAt("signal_w", "advance")
  /\ UNCHANGED <<fifo, locks, tick, picture, kms, cursor>>

DSignalW ==
  /\ DisplayAt("signal_w", "advance")
  /\ wsleep' = FALSE
  /\ UNCHANGED <<fifo, wmutex, rmutex, rsleep, tick, picture, kms, cursor>>

(* Mutants: old_rp is taken after the increment; a frame is skipped. *)
DAdvancePreIncrement ==
  /\ DisplayAt("advance", "lock_r")
  /\ rp' = Succ(rp)
  /\ old_rp' = rp'
  /\ UNCHANGED <<fb_val, wp, locks, tick, picture, kms, cursor>>

DAdvanceTwice ==
  /\ DisplayAt("advance", "lock_r")
  /\ old_rp' = rp
  /\ rp' = Succ(Succ(rp))
  /\ UNCHANGED <<fb_val, wp, locks, tick, picture, kms, cursor>>

(* old_rp = rp++ and the wrap of rp. *)
DAdvance ==
  /\ DisplayAt("advance", "lock_r")
  /\ old_rp' = rp
  /\ rp' = Succ(rp)
  /\ UNCHANGED <<fb_val, wp, locks, tick, picture, kms, cursor>>

Display == \/ DLockR \/ DTestR \/ DWaitR \/ DUnlockR \/ DPageFlip \/ DMoveCursor
           \/ DHandleEvent \/ DLockW \/ DRelease \/ DUnlockW \/ DSignalW
           \/ DAdvance

-----------------------------------------------------------------------------
(* The environment.                                                        *)

(* The kernel latches the pending flip and queues the event. *)
VBlank ==
  /\ flip # None
  /\ screen' = flip /\ flip' = None /\ event' = TRUE
  /\ UNCHANGED <<fifo, locks, ppc, dpc, tick, picture, cursor>>

(* POSIX lets pthread_cond_wait return without a signal. *)
SpuriousWakeup ==
  /\ \/ wsleep /\ wsleep' = FALSE /\ UNCHANGED rsleep
     \/ rsleep /\ rsleep' = FALSE /\ UNCHANGED wsleep
  /\ UNCHANGED <<fifo, wmutex, rmutex, ppc, dpc, tick, picture, kms, cursor>>

Next == Producer \/ Display \/ VBlank \/ SpuriousWakeup

Spec == Init /\ [][Next]_vars

(* Both threads are scheduled, the monitor keeps refreshing, and a mutex    *)
(* that is released again and again is eventually granted.                 *)
Fairness ==
  /\ WF_vars(Producer) /\ WF_vars(Display) /\ WF_vars(VBlank)
  /\ SF_vars(PLockW) /\ SF_vars(PLockR) /\ SF_vars(DLockW) /\ SF_vars(DLockR)

FairSpec == Spec /\ Fairness

-----------------------------------------------------------------------------
PPcs == {"lock_w", "test_w", "wait_w", "unlock_w", "paint", "painting",
         "lock_r", "mark", "unlock_r", "signal_r", "wrap"}
DPcs == {"lock_r", "test_r", "wait_r", "unlock_r", "flip", "cursor", "event",
         "lock_w", "release", "unlock_w", "signal_w", "advance"}

(* Every variable has its type; wp exceeds the last slot only between      *)
(* fb_val[wp++] = 1 and the wrap.                                          *)
TypeOK ==
  /\ fb_val \in [Slots -> {0, 1}]
  /\ rp \in Slots
  /\ wp \in 0 .. FB_NUM
  /\ wp = FB_NUM => ppc \in {"unlock_r", "signal_r", "wrap"}
  /\ old_rp \in Slots \cup {None}
  /\ wmutex \in {"free", "producer", "display"}
  /\ rmutex \in {"free", "producer", "display"}
  /\ wsleep \in BOOLEAN /\ rsleep \in BOOLEAN
  /\ ppc \in PPcs /\ dpc \in DPcs
  /\ tick \in Ticks
  /\ picture \in [Slots -> Ticks \cup {Blank, Torn}]
  /\ screen \in Slots \cup {None} /\ flip \in Slots \cup {None}
  /\ event \in BOOLEAN
  /\ cx \in Int /\ cy \in Int /\ cdelta \in {-1, 1}

(* The framebuffer on the screen, and the one the kernel will latch at the *)
(* next vertical blank, hold a finished picture: the producer never paints *)
(* into them ("not until the page flip complete can we free the previous   *)
(* frame buffer").                                                         *)
NoTearing ==
  /\ screen # None => picture[screen] \in Ticks
  /\ flip # None => picture[flip] \in Ticks

(* assert(drmModePageFlip(...) == 0): the kernel refuses a flip while      *)
(* another one is pending, so none is pending and no stale event is queued *)
(* when the display thread asks for the next.                              *)
FlipNeverBusy == dpc = "flip" => flip = None /\ ~event

(* fb_val[] is written under two different mutexes.  The two writes that   *)
(* no common mutex orders never touch the same element.                    *)
NoDataRace == ppc = "mark" /\ dpc = "release" => wp # old_rp

(* A thread that has dropped its mutex to sleep has not missed the wakeup: *)
(* when what it waits for is already true, the other thread is still about *)
(* to signal.                                                              *)
NoLostWakeup ==
  /\ wsleep /\ fb_val[wp] = 0 => dpc \in {"unlock_w", "signal_w"}
  /\ rsleep /\ fb_val[rp] = 1 => ppc \in {"unlock_r", "signal_r"}

(* drmModeMoveCursor is only asked for positions on the screen (or on its  *)
(* right and lower edge), whatever the shape of the mode.                  *)
CursorOnScreen == /\ cx \in 0 .. HDisplay
                  /\ cy \in 0 .. VDisplay

(* The screen shows every painted frame exactly once and in order: the     *)
(* picture that a flip brings is the successor of the one it replaces, and *)
(* the first one is the first painted.                                     *)
FramesInOrder ==
  [][screen' # screen =>
       IF screen = None THEN picture'[screen'] = 0
       ELSE picture'[screen'] = NextTick(picture[screen])]_vars

(* A frame marked ready reaches the screen. *)
EveryFrameShown ==
  \A i \in Slots, t \in Ticks :
     (fb_val[i] = 1 /\ picture[i] = t) ~> (screen = i /\ picture[i] = t)

(* The producer is never shut out for ever: the clock keeps running. *)
ClockRuns == \A t \in Ticks : []<>(tick = t)

(* No wakeup is lost for good and nobody starves: what is painted is shown, *)
(* and painting goes on.                                                   *)
Progress == EveryFrameShown /\ ClockRuns

-----------------------------------------------------------------------------
(* The inductive invariant behind the safety properties.                   *)

(* A mutex is held exactly where the program is inside it. *)
LocksHeld ==
  /\ wmutex = "producer" <=> ppc \in {"test_w", "wait_w", "unlock_w"}
  /\ wmutex = "display"  <=> dpc \in {"release", "unlock_w"}
  /\ rmutex = "producer" <=> ppc \in {"mark", "unlock_r"}
  /\ rmutex = "display"  <=> dpc \in {"test_r", "wait_r", "unlock_r"}

(* A sleeping thread is at the lock it has to take again, and a thread      *)
(* about to sleep still sees the value that makes it wait.                 *)
SleepersWait ==
  /\ wsleep => ppc = "lock_w"
  /\ rsleep => dpc = "lock_r"
  /\ ppc = "wait_w" => fb_val[wp] # 0
  /\ dpc = "wait_r" => fb_val[rp] # 1
  /\ NoLostWakeup

(* The producer paints and marks a free slot; a full slot has a picture.   *)
ProducerOwns ==
  /\ ppc \in {"unlock_w", "paint", "painting", "lock_r", "mark"} => fb_val[wp] = 0
  /\ ppc \in {"lock_r", "mark"} => picture[wp] = tick
  /\ \A i \in Slots : fb_val[i] = 1 => picture[i] \in Ticks

Releasing == {"unlock_w", "signal_w", "advance"}

(* The display thread owns the slot on the screen and the one it flips to. *)
DisplayOwns ==
  /\ old_rp # None => rp = Succ(old_rp)
  /\ old_rp # None /\ dpc \notin Releasing => fb_val[old_rp] = 1
  /\ dpc \notin {"lock_r", "test_r", "wait_r"} => fb_val[rp] = 1
  /\ dpc \in {"lock_w", "release", "unlock_w", "signal_w"} => old_rp # None

(* What the kernel is doing at each point of the display thread. *)
KmsInStep ==
  /\ dpc \in {"lock_r", "test_r", "wait_r", "unlock_r", "flip"} =>
        screen = old_rp /\ flip = None /\ ~event
  /\ dpc \in {"cursor", "event"} =>
        \/ screen = old_rp /\ flip = rp /\ ~event
        \/ screen = rp /\ flip = None /\ event
  /\ dpc \in {"lock_w", "release"} \cup Releasing =>
        screen = rp /\ flip = None /\ ~event

(* The oldest full slot, the next slot to be marked, and its frame. *)
Oldest    == IF old_rp = None \/ dpc \in Releasing THEN rp ELSE old_rp
FillSlot    == Wrap(wp)
NextFrame == IF ppc \in {"unlock_r", "signal_r", "wrap"} THEN NextTick(tick)
             ELSE tick

(* The full slots are a stretch of the ring from Oldest to just before    *)
(* FillSlot, and along it each picture is the successor of the one before.   *)
RingInOrder ==
  /\ fb_val[FillSlot] = 1 => FillSlot = Oldest
  /\ \A i \in Slots :
        /\ Succ(i) # Oldest /\ fb_val[Succ(i)] = 1 => fb_val[i] = 1
        /\ Succ(i) = FillSlot /\ (FillSlot # Oldest \/ fb_val[FillSlot] = 1)
              => fb_val[i] = 1
        /\ fb_val[i] = 1 /\ fb_val[Succ(i)] = 1 /\ Succ(i) # Oldest
              => picture[Succ(i)] = NextTick(picture[i])
        /\ fb_val[i] = 1 /\ Succ(i) = FillSlot
              => NextFrame = NextTick(picture[i])

(* Before the first flip completes, slot 0 is the first to be painted. *)
FirstFrame ==
  old_rp = None =>
    /\ rp = 0
    /\ fb_val[0] = 1 => picture[0] = 0
    /\ fb_val[0] = 0 => FillSlot = 0 /\ NextFrame = 0

(* The cursor runs on a diagonal and turns only at its two ends. *)
CursorInv ==
  /\ cx = cy
  /\ 0 <= cx /\ cx <= HDisplay /\ cx <= VDisplay
  /\ cdelta = 1 => cx < HDisplay /\ cx < VDisplay
  /\ cdelta = -1 => cx > 0

Inv == /\ TypeOK /\ LocksHeld /\ SleepersWait /\ ProducerOwns /\ DisplayOwns
       /\ KmsInStep /\ RingInOrder /\ FirstFrame /\ CursorInv
=============================================================================
