---------------------------- MODULE WindowManager ----------------------------
(***************************************************************************)
(* The compositing window manager wm/main.cpp against an X server that      *)
(* tells it of mapped windows and of damage in the order they happen, and   *)
(* clients that map, draw in, unmap and destroy their windows meanwhile.    *)
(* The manager puts each window that is mapped on the root window into a    *)
(* frame of its own and shows a frame when it is damaged.  It keeps its     *)
(* records by frame and asks for them by the window of the event.          *)
(***************************************************************************)
EXTENDS Integers, Sequences, FiniteSets

CONSTANTS
  Clients,      (* windows of clients                                      *)
  Bindable,     (* those with a visual that GLX makes a texture of         *)
  Frames,       (* names for the windows the manager creates               *)
  Root, NoWindow,
  QueueLen      (* bound of the model: events waiting                      *)

Windows == Clients \cup Frames

ASSUME NamesAssumption ==
  /\ Clients \cap Frames = {} /\ Root # NoWindow /\ {Root, NoWindow} \cap Windows = {}
  /\ Bindable \subseteq Clients /\ IsFiniteSet(Frames)

VARIABLES
  parent,       (* of each window, NoWindow when it does not exist         *)
  mapped,       (* the mapped windows                                      *)
  queue,        (* events the manager has not looked at                    *)
  windows,      (* the manager's map, from a frame to the window in it     *)
  handling,     (* the window it decorates, NoWindow in the loop           *)
  running,
  overlay,      (* the frame shown last                                    *)
  maps          (* map events of client windows so far, at most one a Frame *)

wmVars == <<parent, mapped, queue, windows, handling, running, overlay, maps>>

MapNotify(w)    == [type |-> "MapNotify", window |-> w]
DamageNotify(w) == [type |-> "DamageNotify", window |-> w]

WmInit ==
  /\ parent \in [Windows -> {Root, NoWindow}] /\ \A f \in Frames : parent[f] = NoWindow
  /\ mapped = {} /\ queue = <<>> /\ windows = <<>> /\ handling = NoWindow
  /\ running = TRUE /\ overlay = NoWindow /\ maps = 0

-----------------------------------------------------------------------------
(* The server.  What a client does in a frame damages the frame; the map    *)
(* event of a window goes to those who asked for the children of its        *)
(* parent, and the manager asked for the root's.                           *)
Damaged(w) == IF parent[w] \in Frames THEN <<DamageNotify(parent[w])>> ELSE <<>>

Tell(events) == queue' = IF running THEN queue \o events ELSE queue

MapWindow(c) ==
  /\ parent[c] # NoWindow /\ c \notin mapped /\ mapped' = mapped \cup {c}
  /\ Len(queue) < QueueLen /\ maps < Cardinality(Frames)
  /\ Tell(IF parent[c] = Root THEN <<MapNotify(c)>> ELSE Damaged(c))
  /\ maps' = IF parent[c] = Root THEN maps + 1 ELSE maps
  /\ UNCHANGED <<parent, windows, handling, running, overlay>>

UnmapWindow(c) ==
  /\ c \in mapped /\ mapped' = mapped \ {c}
  /\ Len(queue) < QueueLen /\ Tell(Damaged(c))
  /\ UNCHANGED <<parent, windows, handling, running, overlay, maps>>

DestroyWindow(c) ==
  /\ parent[c] # NoWindow /\ parent' = [parent EXCEPT ![c] = NoWindow] /\ mapped' = mapped \ {c}
  /\ Len(queue) < QueueLen /\ Tell(IF c \in mapped THEN Damaged(c) ELSE <<>>)
  /\ UNCHANGED <<windows, handling, running, overlay, maps>>

Draw(c) ==
  /\ c \in mapped /\ parent[c] \in Frames
  /\ Len(queue) < QueueLen /\ Tell(Damaged(c))
  /\ UNCHANGED <<parent, mapped, windows, handling, running, overlay, maps>>

Client(c) == MapWindow(c) \/ UnmapWindow(c) \/ DestroyWindow(c) \/ Draw(c)

-----------------------------------------------------------------------------
(* An assertion or the X error handler ends the program.  The server then   *)
(* destroys its windows, and the windows in them, which are in no save-set. *)
Ends(p) ==
  /\ running' = FALSE /\ queue' = <<>> /\ handling' = NoWindow
  /\ parent' = [w \in Windows |-> IF w \in Frames \/ p[w] \in Frames THEN NoWindow ELSE p[w]]
  /\ mapped' = {w \in mapped : parent'[w] # NoWindow}
  /\ UNCHANGED <<windows, overlay, maps>>

(* MapNotify: a window that is no key of the map is asked for its           *)
(* attributes, which takes a round trip and ends the program if it is gone. *)
HandleMap ==
  /\ running /\ handling = NoWindow /\ queue # <<>> /\ Head(queue).type = "MapNotify"
  /\ LET w == Head(queue).window IN
       IF w \in DOMAIN windows
         THEN /\ queue' = Tail(queue)
              /\ UNCHANGED <<parent, mapped, windows, handling, running, overlay, maps>>
         ELSE IF parent[w] # NoWindow
           THEN /\ queue' = Tail(queue) /\ handling' = w
                /\ UNCHANGED <<parent, mapped, windows, running, overlay, maps>>
           ELSE Ends(parent)

(* Mutant: the records are kept by the window in the frame. *)
RecordByClient(w, dw) ==
  [x \in DOMAIN windows \cup {w} |-> IF x = w THEN w ELSE windows[x]]
Record(w, dw) == [x \in DOMAIN windows \cup {dw} |-> IF x = dw THEN w ELSE windows[x]]

(* The new frame is on the root, the window in the frame.                   *)
(* Mutant: the window is not put into its frame.                           *)
FrameLeftEmpty(w, dw) == [parent EXCEPT ![dw] = Root]
Reparented(w, dw) == [parent EXCEPT ![w] = dw, ![dw] = Root]

(* The rest of draw_dacoration(): the frame takes the window, wherever it   *)
(* was, is mapped and watched for damage.  A window that goes away before   *)
(* it is taken is an X error; one whose visual is not found an assertion.   *)
draw_dacoration ==
  /\ running /\ handling # NoWindow
  /\ \E dw \in Frames :
       LET p == Reparented(handling, dw) IN
       /\ dw \notin DOMAIN windows /\ parent[dw] = NoWindow
       /\ IF parent[handling] = NoWindow \/ handling \notin Bindable
            THEN Ends(IF parent[handling] = NoWindow THEN parent ELSE p)
            ELSE /\ parent' = p
                 /\ mapped' = mapped \cup {dw}
                 /\ queue' = queue \o <<MapNotify(dw), DamageNotify(dw)>>
                 /\ windows' = Record(handling, dw)
                 /\ handling' = NoWindow
                 /\ UNCHANGED <<running, overlay, maps>>

HandleDamage ==
  /\ running /\ handling = NoWindow /\ queue # <<>> /\ Head(queue).type = "DamageNotify"
  /\ queue' = Tail(queue)
  /\ overlay' = IF Head(queue).window \in DOMAIN windows THEN Head(queue).window ELSE overlay
  /\ UNCHANGED <<parent, mapped, windows, handling, running, maps>>

Manager == HandleMap \/ draw_dacoration \/ HandleDamage
WmNext  == Manager \/ \E c \in Clients : Client(c)
WmSpec  == WmInit /\ [][WmNext]_wmVars /\ WF_wmVars(Manager)

-----------------------------------------------------------------------------
WmTypeOK ==
  /\ parent \in [Windows -> {Root, NoWindow} \cup Frames] /\ mapped \subseteq Windows
  /\ \A i \in DOMAIN queue :
       queue[i] \in [type : {"MapNotify", "DamageNotify"}, window : Windows]
  /\ DOMAIN windows \subseteq Windows /\ \A w \in DOMAIN windows : windows[w] \in Windows
  /\ handling \in Windows \cup {NoWindow} /\ running \in BOOLEAN
  /\ overlay \in Frames \cup {NoWindow} /\ maps \in 0 .. Cardinality(Frames)

(* A frame lies on the root and is never put into a frame, though its own   *)
(* map event comes back to the manager; it holds at most the one window its *)
(* record names.                                                           *)
FramesHoldClients ==
  /\ running => \A f \in Frames : parent[f] \in {Root, NoWindow} /\ handling # f
  /\ running => DOMAIN windows = {f \in Frames : parent[f] # NoWindow}
  /\ \A c \in Clients : parent[c] \in Frames => windows[parent[c]] = c

(* Damage is never reported of a window the manager does not know. *)
DamageKnown ==
  running => \A i \in DOMAIN queue :
    queue[i].type = "DamageNotify" => queue[i].window \in DOMAIN windows

(* A window gets another frame only if it was mapped again before its first *)
(* event was handled: every frame and every event of it on the way is one   *)
(* of its mappings.                                                        *)
FramedAtMostAsMapped ==
  running =>
    Cardinality(DOMAIN windows) + (IF handling = NoWindow THEN 0 ELSE 1)
      + Cardinality({i \in DOMAIN queue : queue[i].type = "MapNotify" /\ queue[i].window \in Clients})
      <= maps

WmInv == WmTypeOK /\ FramesHoldClients /\ DamageKnown /\ FramedAtMostAsMapped

(* A window mapped on the root comes into a frame, or is unmapped or        *)
(* destroyed first, or the manager ends.                                   *)
MappedIsFramed ==
  \A c \in Clients : (c \in mapped /\ parent[c] = Root) ~>
    (c \notin mapped \/ parent[c] # Root \/ ~running)
=============================================================================
