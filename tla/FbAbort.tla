------------------------------ MODULE FbAbort ------------------------------
(***************************************************************************)
(* The display server of FbFifo interrupted by SIGINT: user_abort() of     *)
(* server/main.c.  The kernel runs the handler on one of the two threads,  *)
(* which stands still where it was (holding its mutex, if it had one); the *)
(* other thread goes on until exit() ends the process.                     *)
(***************************************************************************)
EXTENDS FbFifo

VARIABLES
  hpc,       (* where the handler is, or "idle" before the signal          *)
  victim,    (* the thread the handler runs on, or "none"                  *)
  fdopen,    (* is drm.fd still open?                                      *)
  process    (* "running", "exited" (by exit(0)) or "aborted" (by assert)  *)

handler == <<hpc, victim, fdopen, process>>
avars   == <<vars, handler>>

AInit == Init /\ hpc = "idle" /\ victim = "none" /\ fdopen = TRUE
         /\ process = "running"

(* signal(SIGINT, user_abort): the signal comes at any time, once. *)
Interrupt ==
  /\ process = "running" /\ hpc = "idle"
  /\ hpc' = "set_crtc"
  /\ victim' \in {"producer", "display"}
  /\ UNCHANGED <<vars, fdopen, process>>

HandlerAt(from, to) ==
  process = "running" /\ hpc = from /\ hpc' = to /\ UNCHANGED victim

(* Mutants: the pending flip survives; the handler takes the display        *)
(* thread's mutex first.                                                   *)
RestoreCrtcFlipKept ==
  /\ HandlerAt("set_crtc", "set_cursor")
  /\ screen' = None
  /\ UNCHANGED <<fifo, locks, ppc, dpc, tick, picture, flip, event, cursor,
                 fdopen, process>>

RestoreCrtcLocked ==
  /\ HandlerAt("set_crtc", "set_cursor")
  /\ rmutex = "free"
  /\ screen' = None /\ flip' = None
  /\ UNCHANGED <<fifo, locks, ppc, dpc, tick, picture, event, cursor, fdopen,
                 process>>

(* drmModeSetCrtc() with the framebuffer found at start; a flip that is     *)
(* still pending is dropped with it.                                       *)
RestoreCrtc ==
  /\ HandlerAt("set_crtc", "set_cursor")
  /\ screen' = None /\ flip' = None
  /\ UNCHANGED <<fifo, locks, ppc, dpc, tick, picture, event, cursor, fdopen,
                 process>>

(* drmModeSetCursor(0) hides the cursor; its position is kept. *)
HideCursor ==
  /\ HandlerAt("set_cursor", "close")
  /\ UNCHANGED <<vars, fdopen, process>>

CloseDrm ==
  /\ HandlerAt("close", "exit")
  /\ fdopen' = FALSE
  /\ UNCHANGED <<vars, process>>

Exit ==
  /\ HandlerAt("exit", "exit")
  /\ process' = "exited"
  /\ UNCHANGED <<vars, fdopen>>

UserAbort == RestoreCrtc \/ HideCursor \/ CloseDrm \/ Exit

(* The DRM calls of the display thread fail once the descriptor is closed,  *)
(* and their assert() aborts the process.                                  *)
DrmCallFails ==
  /\ process = "running" /\ victim # "display" /\ ~fdopen
  /\ dpc \in {"flip", "cursor", "event"}
  /\ process' = "aborted"
  /\ UNCHANGED <<vars, hpc, victim, fdopen>>

ThreadStep ==
  /\ process = "running"
  /\ \/ victim # "producer" /\ Producer
     \/ victim # "display" /\ Display
        /\ (fdopen \/ dpc \notin {"flip", "cursor", "event"})
     \/ VBlank
     \/ SpuriousWakeup
  /\ UNCHANGED handler

ANext == Interrupt \/ UserAbort \/ DrmCallFails \/ ThreadStep

ASpec == AInit /\ [][ANext]_avars

(* The handler's thread is scheduled like any other; the signal itself is   *)
(* not bound to come.                                                      *)
AFairSpec == ASpec /\ WF_avars(UserAbort)

-----------------------------------------------------------------------------
(* "restore previous framebuffer": the server leaves the console on the    *)
(* screen when it exits.                                                   *)
ExitRestoresConsole == process = "exited" => screen = None /\ flip = None

(* The part of it that the code does achieve: when the signal lands on the *)
(* display thread nobody flips after drmModeSetCrtc().                     *)
RestoredIfDisplayInterrupted ==
  victim = "display" /\ process = "exited" => screen = None /\ flip = None

(* Wherever the two threads stand when the signal comes, with any mutex     *)
(* held, the handler waits for nothing and the process ends.               *)
InterruptEnds == hpc # "idle" ~> process # "running"
=============================================================================
