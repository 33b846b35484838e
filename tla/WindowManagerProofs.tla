------------------------ MODULE WindowManagerProofs -------------------------
(***************************************************************************)
(* Proofs about the window manager, for any clients, any number of frames   *)
(* and a queue of any length: each record names the window that its frame   *)
(* holds, damage is only reported of windows on record, and no window gets  *)
(* more frames than it was mapped times.                                   *)
(***************************************************************************)
EXTENDS WindowManager, FiniteSetTheorems, FunctionTheorems, SequenceTheorems, TLAPS

Events == [type : {"MapNotify", "DamageNotify"}, window : Windows]

(* The mappings the manager has not looked at. *)
Mappings(q) == {i \in DOMAIN q : q[i].type = "MapNotify" /\ q[i].window \in Clients}

(* What a queue that is read front to back says of frames. *)
QueueOK ==
  /\ queue \in Seq(Events)
  /\ \A i \in DOMAIN queue :
       queue[i].type = "DamageNotify" \/ queue[i].window \in Frames
         => queue[i].window \in DOMAIN windows

(* While the manager runs only clients' windows are put into frames; when   *)
(* it has ended there are none.                                            *)
Ended ==
  ~running => queue = <<>> /\ handling = NoWindow /\ \A c \in Clients : parent[c] \notin Frames

(* A window lies in a frame that is on record. *)
Kept == \A c \in Clients : parent[c] \in Frames => parent[c] \in DOMAIN windows

IInv ==
  /\ WmTypeOK /\ FramesHoldClients /\ FramedAtMostAsMapped /\ QueueOK /\ Ended /\ Kept
  /\ handling \in Clients \cup {NoWindow} /\ DOMAIN windows \subseteq Frames

-----------------------------------------------------------------------------
(* The mappings of a queue are finitely many. *)
LEMMA MappingsFinite ==
  ASSUME NEW q \in Seq(Events)
  PROVE  IsFiniteSet(Mappings(q)) /\ Cardinality(Mappings(q)) \in Nat
<1>1. DOMAIN q = 1 .. Len(q) /\ Len(q) \in Nat
  OBVIOUS
<1>2. IsFiniteSet(1 .. Len(q)) /\ Mappings(q) \subseteq 1 .. Len(q)
  BY <1>1, FS_Interval DEF Mappings
<1> QED
  BY <1>2, FS_Subset, FS_CardinalityType

(* An event at the end is one mapping more, or none. *)
LEMMA MappingsAppend ==
  ASSUME NEW q \in Seq(Events), NEW e \in Events
  PROVE  /\ Append(q, e) \in Seq(Events)
         /\ Cardinality(Mappings(Append(q, e))) =
              Cardinality(Mappings(q))
                + (IF e.type = "MapNotify" /\ e.window \in Clients THEN 1 ELSE 0)
<1> DEFINE n == Append(q, e)
<1>1. /\ n \in Seq(Events) /\ DOMAIN n = 1 .. Len(q) + 1 /\ DOMAIN q = 1 .. Len(q)
      /\ Len(q) \in Nat /\ n[Len(q) + 1] = e /\ \A i \in 1 .. Len(q) : n[i] = q[i]
  OBVIOUS
<1> HIDE DEF n
<1>2. CASE e.type = "MapNotify" /\ e.window \in Clients
  <2>1. Mappings(n) = Mappings(q) \cup {Len(q) + 1} /\ Len(q) + 1 \notin Mappings(q)
    BY <1>1, <1>2 DEF Mappings
  <2> QED
    BY <1>1, <1>2, <2>1, MappingsFinite, FS_AddElement DEF n
<1>3. CASE ~(e.type = "MapNotify" /\ e.window \in Clients)
  <2>1. Mappings(n) = Mappings(q)
    BY <1>1, <1>3 DEF Mappings
  <2> QED
    BY <1>1, <1>3, <2>1, MappingsFinite DEF n
<1> QED
  BY <1>2, <1>3

(* The event that is taken from the front is one mapping less, or none. *)
LEMMA MappingsTail ==
  ASSUME NEW q \in Seq(Events), q # <<>>
  PROVE  /\ Tail(q) \in Seq(Events) /\ Head(q) \in Events /\ Head(q) = q[1] /\ 1 \in DOMAIN q
         /\ \A i \in DOMAIN Tail(q) : i + 1 \in DOMAIN q /\ Tail(q)[i] = q[i + 1]
         /\ Cardinality(Mappings(Tail(q))) =
              Cardinality(Mappings(q))
                - (IF Head(q).type = "MapNotify" /\ Head(q).window \in Clients THEN 1 ELSE 0)
<1> DEFINE n == Tail(q)
           rest == Mappings(q) \ {1}
           f == [i \in Mappings(n) |-> i + 1]
<1>1. /\ n \in Seq(Events) /\ Len(n) = Len(q) - 1 /\ DOMAIN n = 1 .. Len(q) - 1
      /\ DOMAIN q = 1 .. Len(q) /\ Len(q) \in Nat \ {0}
      /\ \A i \in 1 .. Len(q) - 1 : n[i] = q[i + 1]
  OBVIOUS
<1>2. Head(q) = q[1] /\ Head(q) \in Events
  BY <1>1
<1> HIDE DEF n
<1>3. \A i \in Mappings(n) : i \in Nat /\ i + 1 \in rest
  BY <1>1 DEF Mappings
<1>4. \A j \in rest : j - 1 \in Mappings(n)
  BY <1>1 DEF Mappings
<1> HIDE DEF rest
<1>5. f \in [Mappings(n) -> rest]
  BY <1>3
<1>6. \A a, b \in Mappings(n) : f[a] = f[b] => a = b
  BY <1>3
<1>7. \A j \in rest : \E i \in Mappings(n) : f[i] = j
  <2> SUFFICES ASSUME NEW j \in rest PROVE \E i \in Mappings(n) : f[i] = j
    OBVIOUS
  <2>1. j \in Int /\ j - 1 \in Mappings(n)
    BY <1>1, <1>4 DEF rest, Mappings
  <2>2. f[j - 1] = j
    BY <2>1
  <2> QED
    BY <2>1, <2>2
<1> HIDE DEF f
<1>8. ExistsBijection(Mappings(n), rest)
  <2>1. f \in Bijection(Mappings(n), rest)
    BY <1>5, <1>6, <1>7, Fun_IsBij
  <2> QED
    BY <2>1 DEF ExistsBijection
<1>9. Cardinality(rest) = Cardinality(Mappings(n))
  BY <1>1, <1>8, MappingsFinite, FS_Bijection
<1>10. CASE Head(q).type = "MapNotify" /\ Head(q).window \in Clients
  <2>1. 1 \in Mappings(q)
    BY <1>1, <1>2, <1>10 DEF Mappings
  <2>2. Cardinality(rest) = Cardinality(Mappings(q)) - 1
    BY <2>1, MappingsFinite, FS_RemoveElement DEF rest
  <2> QED
    BY <1>1, <1>2, <1>9, <1>10, <2>2 DEF n
<1>11. CASE ~(Head(q).type = "MapNotify" /\ Head(q).window \in Clients)
  <2>1. 1 \notin Mappings(q)
    BY <1>1, <1>2, <1>11 DEF Mappings
  <2>2. rest = Mappings(q)
    BY <2>1 DEF rest
  <2> QED
    BY <1>1, <1>2, <1>9, <1>11, <2>2, MappingsFinite DEF n
<1> QED
  BY <1>10, <1>11

-----------------------------------------------------------------------------
(* The count of FramedAtMostAsMapped, and the number of frames. *)
Busy == IF handling = NoWindow THEN 0 ELSE 1

LEMMA CountOK ==
  ASSUME IInv
  PROVE  /\ Busy \in 0 .. 1 /\ Cardinality(Mappings(queue)) \in Nat
         /\ IsFiniteSet(DOMAIN windows) /\ Cardinality(DOMAIN windows) \in Nat
         /\ Cardinality(Frames) \in Nat /\ maps \in Nat
         /\ running => Cardinality(DOMAIN windows) + Busy + Cardinality(Mappings(queue)) <= maps
<1>1. Busy \in 0 .. 1
  BY DEF Busy
<1>2. Cardinality(Mappings(queue)) \in Nat
  BY MappingsFinite DEF IInv, QueueOK
<1>3. IsFiniteSet(DOMAIN windows) /\ Cardinality(DOMAIN windows) \in Nat
  BY FS_Subset, FS_CardinalityType, NamesAssumption DEF IInv
<1>4. Cardinality(Frames) \in Nat
  BY FS_CardinalityType, NamesAssumption
<1>5. maps \in Nat
  BY <1>4 DEF IInv, WmTypeOK
<1>6. running => Cardinality(DOMAIN windows) + Busy + Cardinality(Mappings(queue)) <= maps
  BY DEF IInv, FramedAtMostAsMapped, Mappings, Busy
<1> QED
  BY <1>1, <1>2, <1>3, <1>4, <1>5, <1>6

LEMMA InitOK == ASSUME WmInit PROVE IInv
<1>1. /\ queue = <<>> /\ windows = <<>> /\ DOMAIN windows = {} /\ DOMAIN queue = {}
      /\ handling = NoWindow /\ running = TRUE /\ maps = 0
      /\ \A f \in Frames : parent[f] = NoWindow
      /\ \A w \in Windows : parent[w] \in {Root, NoWindow}
  BY DEF WmInit
<1>2. WmTypeOK
  <2>1. Cardinality(Frames) \in Nat
    BY FS_CardinalityType, NamesAssumption
  <2>2. 0 \in 0 .. Cardinality(Frames)
    BY <2>1
  <2> QED
    BY <1>1, <2>2 DEF WmInit, WmTypeOK
<1>3. FramesHoldClients /\ Kept
  BY <1>1, NamesAssumption DEF FramesHoldClients, Kept, Windows
<1>4. FramedAtMostAsMapped
  <2>1. Cardinality(DOMAIN windows) = 0
    BY <1>1, FS_EmptySet
  <2>2. {i \in DOMAIN queue : queue[i].type = "MapNotify" /\ queue[i].window \in Clients} = {}
    BY <1>1
  <2> QED
    BY <1>1, <2>1, <2>2, FS_EmptySet DEF FramedAtMostAsMapped
<1>5. QueueOK /\ Ended
  BY <1>1 DEF QueueOK, Ended
<1> QED
  BY <1>1, <1>2, <1>3, <1>4, <1>5 DEF IInv

(* A step of a client: its window may disappear, and at most one event      *)
(* comes to the queue, of damage to a frame or of a mapping that counts.   *)
LEMMA ClientStep ==
  ASSUME IInv, NEW c \in Clients,
         UNCHANGED <<windows, handling, running, overlay>>,
         parent' = parent \/ parent' = [parent EXCEPT ![c] = NoWindow],
         mapped' \subseteq Windows,
         maps' \in 0 .. Cardinality(Frames),
         \/ queue' = queue /\ maps' >= maps
         \/ /\ maps' = maps
            /\ \E f \in DOMAIN windows : queue' = Append(queue, DamageNotify(f))
         \/ queue' = Append(queue, MapNotify(c)) /\ maps' = maps + 1,
         ~running => queue' = queue
  PROVE  IInv'
<1> USE DEF IInv
<1>1. /\ parent' \in [Windows -> {Root, NoWindow} \cup Frames]
      /\ \A w \in Windows : parent'[w] = parent[w] \/ (w = c /\ parent'[w] = NoWindow)
  BY DEF WmTypeOK
<1>2. c \notin Frames /\ NoWindow \notin Frames /\ Frames \subseteq Windows /\ Clients \subseteq Windows
  BY NamesAssumption DEF Windows
<1>3. FramesHoldClients' /\ Kept'
  <2>1. \A f \in Frames : parent'[f] = parent[f]
    BY <1>1, <1>2
  <2>2. \A x \in Clients : parent'[x] \in Frames => parent'[x] = parent[x]
    BY <1>1, <1>2
  <2>3. (running => \A f \in Frames : parent[f] \in {Root, NoWindow} /\ handling # f)'
    BY <2>1 DEF FramesHoldClients
  <2>4. (running => DOMAIN windows = {f \in Frames : parent[f] # NoWindow})'
    BY <2>1 DEF FramesHoldClients
  <2>5. (\A x \in Clients : parent[x] \in Frames => windows[parent[x]] = x)'
    BY <2>2 DEF FramesHoldClients
  <2>6. Kept'
    BY <2>2 DEF Kept
  <2> QED
    BY <2>3, <2>4, <2>5, <2>6 DEF FramesHoldClients
<1>4. /\ QueueOK'
      /\ Cardinality(Mappings(queue')) - maps' <= Cardinality(Mappings(queue)) - maps
  <2>1. CASE queue' = queue /\ maps' >= maps
    BY <2>1, CountOK DEF QueueOK
  <2>2. ASSUME NEW e \in Events, queue' = Append(queue, e),
               e.type = "DamageNotify" \/ e.window \in Frames => e.window \in DOMAIN windows
        PROVE  QueueOK'
    <3>1. queue' \in Seq(Events) /\ DOMAIN queue' = 1 .. Len(queue) + 1
          /\ queue'[Len(queue) + 1] = e
          /\ \A i \in 1 .. Len(queue) : queue'[i] = queue[i] /\ i \in DOMAIN queue
          /\ Len(queue) \in Nat
      BY <2>2 DEF QueueOK
    <3> QED
      BY <2>2, <3>1 DEF QueueOK
  <2>3. CASE maps' = maps /\ \E f \in DOMAIN windows : queue' = Append(queue, DamageNotify(f))
    <3>1. PICK f \in DOMAIN windows : queue' = Append(queue, DamageNotify(f))
      BY <2>3
    <3>2. /\ DamageNotify(f) \in Events /\ DamageNotify(f).type = "DamageNotify"
          /\ DamageNotify(f).window = f
      BY <1>2 DEF DamageNotify, Events
    <3>3. Cardinality(Mappings(queue')) = Cardinality(Mappings(queue))
      BY <3>1, <3>2, MappingsAppend, CountOK DEF QueueOK
    <3> QED
      BY <2>2, <2>3, <3>1, <3>2, <3>3, CountOK
  <2>4. CASE queue' = Append(queue, MapNotify(c)) /\ maps' = maps + 1
    <3>1. /\ MapNotify(c) \in Events /\ MapNotify(c).type = "MapNotify"
          /\ MapNotify(c).window = c
      BY <1>2 DEF MapNotify, Events
    <3>2. Cardinality(Mappings(queue')) = Cardinality(Mappings(queue)) + 1
      BY <2>4, <3>1, MappingsAppend, CountOK DEF QueueOK
    <3> QED
      BY <1>2, <2>2, <2>4, <3>1, <3>2, CountOK
  <2> QED
    BY <2>1, <2>3, <2>4
<1>5. WmTypeOK'
  <2>1. \A i \in DOMAIN queue' : queue'[i] \in Events
    BY <1>4 DEF QueueOK
  <2>2. (\A i \in DOMAIN queue :
          queue[i] \in [type : {"MapNotify", "DamageNotify"}, window : Windows])'
    BY <2>1 DEF Events
  <2>3. (DOMAIN windows \subseteq Windows /\ \A w \in DOMAIN windows : windows[w] \in Windows)'
    BY DEF WmTypeOK
  <2> QED
    BY <1>1, <2>2, <2>3 DEF WmTypeOK
<1>6. FramedAtMostAsMapped'
  <2>1. Cardinality(Mappings(queue')) \in Nat
    BY <1>4, MappingsFinite DEF QueueOK
  <2>2. maps' \in Nat
    BY CountOK
  <2>3. running => Cardinality(DOMAIN windows) + Busy + Cardinality(Mappings(queue')) <= maps'
    BY <1>4, <2>1, <2>2, CountOK
  <2> QED
    BY <2>3 DEF FramedAtMostAsMapped, Mappings, Busy
<1>7. Ended'
  BY <1>1, <1>2 DEF Ended
<1> QED
  BY <1>3, <1>4, <1>5, <1>6, <1>7

(* What a client does in its frame damages a frame on record, or nothing.  *)
LEMMA DamagedOK ==
  ASSUME IInv, NEW c \in Clients, Tell(Damaged(c))
  PROVE  /\ \/ queue' = queue
            \/ \E f \in DOMAIN windows : queue' = Append(queue, DamageNotify(f))
         /\ ~running => queue' = queue
<1>1. CASE parent[c] \in Frames /\ running
  <2>1. parent[c] \in DOMAIN windows
    BY <1>1 DEF IInv, Kept
  <2>2. queue' = queue \o <<DamageNotify(parent[c])>>
    BY <1>1 DEF Tell, Damaged
  <2>3. queue \in Seq(Events) /\ DamageNotify(parent[c]) \in Events
    BY <1>1 DEF IInv, QueueOK, DamageNotify, Events, Windows
  <2>4. queue' = Append(queue, DamageNotify(parent[c]))
    BY <2>2, <2>3
  <2> QED
    BY <1>1, <2>1, <2>4
<1>2. CASE parent[c] \notin Frames
  <2>1. queue \in Seq(Events)
    BY DEF IInv, QueueOK
  <2> QED
    BY <1>2, <2>1 DEF Tell, Damaged
<1>3. CASE ~running
  BY <1>3 DEF Tell
<1> QED
  BY <1>1, <1>2, <1>3

LEMMA MapWindowOK ==
  ASSUME IInv, NEW c \in Clients, MapWindow(c) PROVE IInv'
<1>1. /\ UNCHANGED <<parent, windows, handling, running, overlay>>
      /\ mapped' = mapped \cup {c} /\ mapped' \subseteq Windows
      /\ maps \in Nat /\ maps < Cardinality(Frames) /\ Cardinality(Frames) \in Nat
  BY CountOK DEF MapWindow, IInv, WmTypeOK, Windows
<1>2. CASE parent[c] = Root
  <2>1. maps' = maps + 1 /\ Tell(<<MapNotify(c)>>)
    BY <1>2 DEF MapWindow
  <2>2. queue' = queue \/ queue' = Append(queue, MapNotify(c))
    <3>1. queue \in Seq(Events) /\ MapNotify(c) \in Events
      BY DEF IInv, QueueOK, MapNotify, Events, Windows
    <3> QED
      BY <2>1, <3>1 DEF Tell
  <2>3. ~running => queue' = queue
    BY <2>1 DEF Tell
  <2>4. maps' \in 0 .. Cardinality(Frames) /\ maps' >= maps
    BY <1>1, <2>1
  <2> QED
    BY <1>1, <2>1, <2>2, <2>3, <2>4, ClientStep
<1>3. CASE parent[c] # Root
  <2>1. maps' = maps /\ Tell(Damaged(c))
    BY <1>3 DEF MapWindow
  <2>2. maps' \in 0 .. Cardinality(Frames) /\ maps' >= maps
    BY <1>1, <2>1
  <2> QED
    BY <1>1, <2>1, <2>2, DamagedOK, ClientStep
<1> QED
  BY <1>2, <1>3

LEMMA UnmapWindowOK ==
  ASSUME IInv, NEW c \in Clients, UnmapWindow(c) PROVE IInv'
<1>1. /\ UNCHANGED <<parent, windows, handling, running, overlay, maps>>
      /\ mapped' \subseteq Windows /\ Tell(Damaged(c))
  BY DEF UnmapWindow, IInv, WmTypeOK
<1>2. maps' \in 0 .. Cardinality(Frames) /\ maps' >= maps
  BY <1>1, CountOK DEF IInv, WmTypeOK
<1> QED
  BY <1>1, <1>2, DamagedOK, ClientStep

LEMMA DestroyWindowOK ==
  ASSUME IInv, NEW c \in Clients, DestroyWindow(c) PROVE IInv'
<1>1. /\ UNCHANGED <<windows, handling, running, overlay, maps>>
      /\ parent' = [parent EXCEPT ![c] = NoWindow] /\ mapped' \subseteq Windows
  BY DEF DestroyWindow, IInv, WmTypeOK
<1>2. maps' \in 0 .. Cardinality(Frames) /\ maps' >= maps
  BY <1>1, CountOK DEF IInv, WmTypeOK
<1>3. CASE c \in mapped
  <2>1. Tell(Damaged(c))
    BY <1>3 DEF DestroyWindow
  <2> QED
    BY <1>1, <1>2, <2>1, DamagedOK, ClientStep
<1>4. CASE c \notin mapped
  <2>1. queue' = queue
    BY <1>4 DEF DestroyWindow, Tell, IInv, QueueOK
  <2> QED
    BY <1>1, <1>2, <2>1, ClientStep
<1> QED
  BY <1>3, <1>4

LEMMA DrawOK ==
  ASSUME IInv, NEW c \in Clients, Draw(c) PROVE IInv'
<1>1. /\ UNCHANGED <<parent, windows, handling, running, overlay, maps>>
      /\ mapped' \subseteq Windows /\ Tell(Damaged(c))
  BY DEF Draw, IInv, WmTypeOK
<1>2. maps' \in 0 .. Cardinality(Frames) /\ maps' >= maps
  BY <1>1, CountOK DEF IInv, WmTypeOK
<1> QED
  BY <1>1, <1>2, DamagedOK, ClientStep

-----------------------------------------------------------------------------
(* The steps of the manager. *)

(* When the program ends nothing is left in a frame. *)
LEMMA EndsOK ==
  ASSUME IInv,
         NEW p \in [Windows -> {Root, NoWindow} \cup Frames], Ends(p)
  PROVE  IInv'
<1>1. /\ running' = FALSE /\ queue' = <<>> /\ handling' = NoWindow
      /\ parent' = [w \in Windows |-> IF w \in Frames \/ p[w] \in Frames THEN NoWindow ELSE p[w]]
      /\ mapped' \subseteq Windows /\ UNCHANGED <<windows, overlay, maps>>
  BY DEF Ends, IInv, WmTypeOK
<1>2. /\ parent' \in [Windows -> {Root, NoWindow} \cup Frames]
      /\ \A c \in Clients : parent'[c] \notin Frames
  BY <1>1, NamesAssumption DEF Windows
<1>3. WmTypeOK'
  <2>1. DOMAIN queue' = {}
    BY <1>1
  <2>2. (\A i \in DOMAIN queue :
          queue[i] \in [type : {"MapNotify", "DamageNotify"}, window : Windows])'
    BY <2>1
  <2> QED
    BY <1>1, <1>2, <2>2 DEF IInv, WmTypeOK
<1>4. FramesHoldClients' /\ FramedAtMostAsMapped' /\ Ended' /\ Kept'
  BY <1>1, <1>2 DEF FramesHoldClients, FramedAtMostAsMapped, Ended, Kept
<1>5. QueueOK'
  BY <1>1 DEF QueueOK
<1> QED
  BY <1>1, <1>3, <1>4, <1>5 DEF IInv

(* An event is taken from the queue; a mapping that counts makes the        *)
(* manager busy with its window.                                           *)
LEMMA TakeStep ==
  ASSUME IInv, running, handling = NoWindow, queue # <<>>,
         queue' = Tail(queue),
         overlay' \in Frames \cup {NoWindow},
         UNCHANGED <<parent, mapped, windows, running, maps>>,
         \/ handling' = NoWindow
         \/ /\ handling' = Head(queue).window /\ Head(queue).window \in Clients
            /\ Head(queue).type = "MapNotify"
  PROVE  IInv'
<1> USE DEF IInv
<1>1. /\ queue' \in Seq(Events) /\ Head(queue) \in Events
      /\ \A i \in DOMAIN queue' : i + 1 \in DOMAIN queue /\ queue'[i] = queue[i + 1]
      /\ Cardinality(Mappings(queue')) =
           Cardinality(Mappings(queue))
             - (IF Head(queue).type = "MapNotify" /\ Head(queue).window \in Clients THEN 1 ELSE 0)
  BY MappingsTail DEF QueueOK
<1>2. QueueOK'
  BY <1>1 DEF QueueOK
<1>3. handling' \in Clients \cup {NoWindow} /\ NoWindow \notin Windows
  BY NamesAssumption
<1>4. WmTypeOK'
  <2>1. \A i \in DOMAIN queue' : queue'[i] \in Events
    BY <1>1
  <2> QED
    BY <1>3, <2>1 DEF WmTypeOK, Events, Windows
<1>5. FramesHoldClients'
  BY <1>3, NamesAssumption DEF FramesHoldClients
<1>6. FramedAtMostAsMapped'
  <2>1. Cardinality(Mappings(queue')) \in Nat
    BY <1>1, MappingsFinite
  <2>2. (IF handling' = NoWindow THEN 0 ELSE 1) + Cardinality(Mappings(queue'))
          <= Busy + Cardinality(Mappings(queue))
    BY <1>1, <2>1, CountOK DEF Busy
  <2>3. Cardinality(DOMAIN windows) + (IF handling' = NoWindow THEN 0 ELSE 1)
          + Cardinality(Mappings(queue')) <= maps
    BY <2>1, <2>2, CountOK
  <2> QED
    BY <2>3 DEF FramedAtMostAsMapped, Mappings
<1>7. Ended' /\ Kept'
  BY DEF Ended, Kept
<1> QED
  BY <1>2, <1>3, <1>4, <1>5, <1>6, <1>7

LEMMA HandleDamageOK ==
  ASSUME IInv, HandleDamage PROVE IInv'
<1>1. overlay' \in Frames \cup {NoWindow}
  BY DEF HandleDamage, IInv, WmTypeOK
<1> QED
  BY <1>1, TakeStep DEF HandleDamage

LEMMA HandleMapOK ==
  ASSUME IInv, HandleMap PROVE IInv'
<1> DEFINE w == Head(queue).window
<1>1. running /\ handling = NoWindow /\ queue # <<>> /\ Head(queue).type = "MapNotify"
  BY DEF HandleMap
<1>2. overlay \in Frames \cup {NoWindow} /\ parent \in [Windows -> {Root, NoWindow} \cup Frames]
  BY DEF IInv, WmTypeOK
<1>3. CASE w \in DOMAIN windows
  BY <1>1, <1>2, <1>3, TakeStep DEF HandleMap
<1>4. CASE w \notin DOMAIN windows /\ parent[w] # NoWindow
  <2>1. w \in Clients
    <3>1. Head(queue) = queue[1] /\ 1 \in DOMAIN queue /\ Head(queue) \in Events
      BY <1>1, MappingsTail DEF IInv, QueueOK
    <3>2. w \notin Frames
      BY <1>4, <3>1 DEF IInv, QueueOK
    <3> QED
      BY <3>1, <3>2 DEF Events, Windows
  <2>2. queue' = Tail(queue) /\ handling' = w /\ UNCHANGED <<parent, mapped, windows, running, overlay, maps>>
    BY <1>4 DEF HandleMap
  <2> QED
    BY <1>1, <1>2, <2>1, <2>2, TakeStep
<1>5. CASE w \notin DOMAIN windows /\ parent[w] = NoWindow
  BY <1>2, <1>5, EndsOK DEF HandleMap
<1> QED
  BY <1>3, <1>4, <1>5

(* The frame is made, the window is put into it and the record is kept. *)
LEMMA DecoratedOK ==
  ASSUME IInv, running, handling \in Clients,
         NEW dw \in Frames, dw \notin DOMAIN windows, parent[dw] = NoWindow,
         parent' = Reparented(handling, dw),
         mapped' = mapped \cup {dw},
         queue' = queue \o <<MapNotify(dw), DamageNotify(dw)>>,
         windows' = Record(handling, dw),
         handling' = NoWindow,
         UNCHANGED <<running, overlay, maps>>
  PROVE  IInv'
<1> USE DEF IInv
<1>1. /\ handling \notin Frames /\ NoWindow \notin Frames /\ Root \notin Frames /\ NoWindow # Root
      /\ Frames \subseteq Windows /\ Clients \subseteq Windows /\ NoWindow \notin Clients
  BY NamesAssumption DEF Windows
<1>2. /\ parent' \in [Windows -> {Root, NoWindow} \cup Frames]
      /\ parent'[handling] = dw /\ parent'[dw] = Root
      /\ \A w \in Windows : w # handling /\ w # dw => parent'[w] = parent[w]
  BY <1>1 DEF WmTypeOK, Reparented
<1>3. /\ DOMAIN windows' = DOMAIN windows \cup {dw} /\ windows'[dw] = handling
      /\ \A f \in DOMAIN windows : windows'[f] = windows[f]
  BY DEF Record
<1>4. FramesHoldClients'
  <2>1. \A f \in Frames : parent'[f] \in {Root, NoWindow} /\ handling' # f
    BY <1>1, <1>2 DEF FramesHoldClients
  <2>2. DOMAIN windows' = {f \in Frames : parent'[f] # NoWindow}
    BY <1>1, <1>2, <1>3 DEF FramesHoldClients
  <2>3. ASSUME NEW c \in Clients, parent'[c] \in Frames PROVE windows'[parent'[c]] = c
    <3>1. CASE c = handling
      BY <3>1, <1>2, <1>3
    <3>2. CASE c # handling
      <4>1. parent'[c] = parent[c] /\ parent[c] \in DOMAIN windows
        BY <3>2, <2>3, <1>1, <1>2, NamesAssumption DEF Kept
      <4> QED
        BY <4>1, <2>3, <1>3 DEF FramesHoldClients
    <3> QED
      BY <3>1, <3>2
  <2> QED
    BY <2>1, <2>2, <2>3 DEF FramesHoldClients
<1>5. Kept'
  BY <1>1, <1>2, <1>3, NamesAssumption DEF Kept
<1> DEFINE q == Append(queue, MapNotify(dw))
           r == Append(q, DamageNotify(dw))
<1>6. /\ MapNotify(dw) \in Events /\ DamageNotify(dw) \in Events
      /\ MapNotify(dw).window = dw /\ DamageNotify(dw).window = dw
      /\ DamageNotify(dw).type # "MapNotify" /\ dw \notin Clients
  BY <1>1, NamesAssumption DEF MapNotify, DamageNotify, Events
<1>7. queue \in Seq(Events) /\ queue' = r
  BY <1>6 DEF QueueOK
<1>8. q \in Seq(Events) /\ Cardinality(Mappings(q)) = Cardinality(Mappings(queue))
  BY <1>6, <1>7, MappingsAppend, CountOK
<1>9. /\ DOMAIN q = 1 .. Len(queue) + 1 /\ Len(q) = Len(queue) + 1 /\ Len(queue) \in Nat
      /\ q[Len(queue) + 1] = MapNotify(dw)
      /\ \A i \in 1 .. Len(queue) : q[i] = queue[i] /\ i \in DOMAIN queue
  BY <1>6, <1>7
<1> HIDE DEF q
<1>10. r \in Seq(Events) /\ Cardinality(Mappings(r)) = Cardinality(Mappings(queue))
  BY <1>6, <1>8, MappingsAppend, CountOK
<1>11. /\ DOMAIN r = 1 .. Len(queue) + 2 /\ r[Len(queue) + 2] = DamageNotify(dw)
       /\ \A i \in 1 .. Len(queue) + 1 : r[i] = q[i]
  BY <1>6, <1>8, <1>9
<1> HIDE DEF r
<1>12. QueueOK'
  <2> SUFFICES ASSUME NEW i \in 1 .. Len(queue) + 2,
                      r[i].type = "DamageNotify" \/ r[i].window \in Frames
               PROVE  r[i].window \in DOMAIN windows'
    BY <1>7, <1>10, <1>11 DEF QueueOK
  <2>1. CASE i \in 1 .. Len(queue)
    <3>1. r[i] = queue[i] /\ i \in DOMAIN queue
      BY <2>1, <1>9, <1>11
    <3> QED
      BY <3>1, <1>3 DEF QueueOK
  <2>2. CASE i \in {Len(queue) + 1, Len(queue) + 2}
    <3>1. r[i].window = dw
      BY <2>2, <1>6, <1>9, <1>11
    <3> QED
      BY <3>1, <1>3
  <2> QED
    BY <2>1, <2>2, <1>9
<1>13. FramedAtMostAsMapped'
  <2>1. Cardinality(DOMAIN windows') = Cardinality(DOMAIN windows) + 1
    BY <1>3, CountOK, FS_AddElement
  <2>2. handling # NoWindow
    BY <1>1
  <2>3. Cardinality(DOMAIN windows') + 0 + Cardinality(Mappings(queue')) <= maps
    <3>1. Busy = 1
      BY <2>2 DEF Busy
    <3>2. /\ Cardinality(DOMAIN windows) + 1 + Cardinality(Mappings(queue)) <= maps
          /\ Cardinality(DOMAIN windows) \in Nat /\ Cardinality(Mappings(queue)) \in Nat
          /\ maps \in Nat
      BY <3>1, CountOK
    <3>3. Cardinality(Mappings(queue')) = Cardinality(Mappings(queue))
      BY <1>7, <1>10
    <3> QED
      BY <2>1, <3>2, <3>3
  <2> QED
    BY <2>3 DEF FramedAtMostAsMapped, Mappings
<1>14. WmTypeOK'
  <2>1. \A i \in DOMAIN queue' : queue'[i] \in Events
    BY <1>7, <1>10
  <2>2. (\A i \in DOMAIN queue :
          queue[i] \in [type : {"MapNotify", "DamageNotify"}, window : Windows])'
    BY <2>1 DEF Events
  <2>3. (DOMAIN windows \subseteq Windows /\ \A w \in DOMAIN windows : windows[w] \in Windows)'
    BY <1>1, <1>3 DEF WmTypeOK
  <2>4. mapped' \subseteq Windows
    BY <1>1 DEF WmTypeOK
  <2> QED
    BY <1>2, <2>2, <2>3, <2>4 DEF WmTypeOK
<1>15. Ended' /\ DOMAIN windows' \subseteq Frames
  BY <1>3 DEF Ended
<1> QED
  BY <1>4, <1>5, <1>12, <1>13, <1>14, <1>15

LEMMA DecorationOK ==
  ASSUME IInv, draw_dacoration PROVE IInv'
<1>1. running /\ handling \in Clients
  BY DEF draw_dacoration, IInv
<1>2. PICK dw \in Frames :
        /\ dw \notin DOMAIN windows /\ parent[dw] = NoWindow
        /\ IF parent[handling] = NoWindow \/ handling \notin Bindable
           THEN Ends(IF parent[handling] = NoWindow THEN parent ELSE Reparented(handling, dw))
           ELSE /\ parent' = Reparented(handling, dw)
                /\ mapped' = mapped \cup {dw}
                /\ queue' = queue \o <<MapNotify(dw), DamageNotify(dw)>>
                /\ windows' = Record(handling, dw)
                /\ handling' = NoWindow
                /\ UNCHANGED <<running, overlay, maps>>
  BY DEF draw_dacoration
<1>3. CASE parent[handling] = NoWindow \/ handling \notin Bindable
  <2> DEFINE p == IF parent[handling] = NoWindow THEN parent ELSE Reparented(handling, dw)
  <2>1. p \in [Windows -> {Root, NoWindow} \cup Frames]
    BY DEF Reparented, IInv, WmTypeOK
  <2>2. Ends(p)
    BY <1>2, <1>3
  <2> HIDE DEF p
  <2> QED
    BY <2>1, <2>2, EndsOK
<1>4. CASE ~(parent[handling] = NoWindow \/ handling \notin Bindable)
  BY <1>1, <1>2, <1>4, DecoratedOK
<1> QED
  BY <1>3, <1>4

-----------------------------------------------------------------------------
(* The inductive invariant: WmInv, with what the queue says of frames and   *)
(* that a window in a frame is on record.                                  *)
THEOREM Invariance == WmSpec => []IInv
<1>1. WmInit => IInv
  BY InitOK
<1>2. IInv /\ [WmNext]_wmVars => IInv'
  <2> SUFFICES ASSUME IInv, [WmNext]_wmVars PROVE IInv'
    OBVIOUS
  <2>1. CASE Manager
    BY <2>1, HandleMapOK, DecorationOK, HandleDamageOK DEF Manager
  <2>2. ASSUME NEW c \in Clients, Client(c) PROVE IInv'
    BY <2>2, MapWindowOK, UnmapWindowOK, DestroyWindowOK, DrawOK DEF Client
  <2>3. CASE UNCHANGED wmVars
    BY <2>3 DEF wmVars, IInv, WmTypeOK, FramesHoldClients, FramedAtMostAsMapped, QueueOK, Ended, Kept
  <2> QED
    BY <2>1, <2>2, <2>3 DEF WmNext
<1> QED
  BY <1>1, <1>2, PTL DEF WmSpec

(* Frames hold the windows their records name and are never framed          *)
(* themselves, damage is only of windows on record, and a window has no     *)
(* more frames than mappings.                                              *)
THEOREM WmInvAlways == WmSpec => []WmInv
<1>1. IInv => WmInv
  BY DEF IInv, WmInv, DamageKnown, QueueOK
<1> QED
  BY <1>1, Invariance, PTL
=============================================================================
