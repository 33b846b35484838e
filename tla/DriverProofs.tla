---------------------------- MODULE DriverProofs ----------------------------
(***************************************************************************)
(* Proofs about what the drivers share and keep: the ring queue of the      *)
(* accelerant, for every ring size and every stamp period, and the set-up   *)
(* and tear-down of the three drivers.                                     *)
(*                                                                         *)
(* Ring queue.  Advance is a modulus by a constant of unknown value: the    *)
(* lemmas bring it to a comparison and a subtraction once, and the proofs   *)
(* of the steps cite them without looking into it again.  That the ring     *)
(* implements BytePipe: the mapped content is a stretch of the stream, so   *)
(* that a step of the ring is compared by stamps and never by cells.       *)
(*                                                                         *)
(* Set-up.  The second half, from Steps on: a procedure in general and the  *)
(* points it can be at; then the procedures of the drivers, step by step;   *)
(* then the steps of the specification.                                    *)
(***************************************************************************)
EXTENDS RingQueueRefinement, DriverSetup, SequenceTheorems, TLAPS

Wrapped(p, n) == IF p + n >= Size THEN p + n - Size ELSE p + n

(* The wrap of a pointer that moves by at most the size of the ring. *)
LEMMA AdvanceWraps ==
  ASSUME NEW p \in Cell, NEW n \in 0 .. Size
  PROVE  /\ Advance(p, n) = Wrapped(p, n)
         /\ Advance(p, n) \in Cell
  BY SizeAssumption DEF Advance, Cell, Wrapped

(* A stamp moves along the stream and stays a stamp. *)
LEMMA AfterStamp ==
  ASSUME NEW s \in Stamp, NEW n \in 0 .. Size
  PROVE  After(s, n) \in Stamp
  BY SizeAssumption, PeriodAssumption DEF After, Stamp

(* Two moves along the stream add up. *)
LEMMA AfterAdds ==
  ASSUME NEW s \in Stamp, NEW m \in 0 .. Size, NEW n \in 0 .. Size,
         m + n \in 0 .. Size
  PROVE  After(After(s, m), n) = After(s, m + n)
  BY SizeAssumption, PeriodAssumption DEF After, Stamp

(* Two moves around the ring add up. *)
LEMMA AdvanceAdds ==
  ASSUME NEW p \in Cell, NEW m \in 0 .. Size, NEW n \in 0 .. Size,
         m + n \in 0 .. Size
  PROVE  Advance(Advance(p, m), n) = Advance(p, m + n)
  <1>1. Advance(p, m) \in Cell /\ Advance(p, m) = Wrapped(p, m)
    BY AdvanceWraps
  <1>2. Advance(Advance(p, m), n) = Wrapped(Advance(p, m), n)
    BY <1>1, AdvanceWraps
  <1>3. Advance(p, m + n) = Wrapped(p, m + n)
    BY AdvanceWraps
  <1> QED BY <1>1, <1>2, <1>3, SizeAssumption DEF Cell, Wrapped

(* Write stores its k-th byte k cells past the write pointer, around the    *)
(* end of the ring, and leaves the other cells alone.                      *)
LEMMA StoredCells ==
  ASSUME TypeOK, NEW n \in 1 .. Size
  PROVE  /\ Stored(n) \in [Cell -> Stamp \cup {Zero}]
         /\ \A k \in 0 .. Size - 1 :
              Stored(n)[Wrapped(fWritePtr, k)]
                = IF k < n THEN After(put, k) ELSE fData[Wrapped(fWritePtr, k)]
  <1> USE SizeAssumption DEF TypeOK
  <1>1. Stored(n) \in [Cell -> Stamp \cup {Zero}]
    BY AfterStamp DEF Stored, Cell
  <1>2. ASSUME NEW k \in 0 .. Size - 1
        PROVE  Stored(n)[Wrapped(fWritePtr, k)]
                 = IF k < n THEN After(put, k) ELSE fData[Wrapped(fWritePtr, k)]
    BY DEF Stored, Wrapped, Cell
  <1> QED BY <1>1, <1>2

(* Read fetches the byte k cells past the read pointer, around the end. *)
LEMMA FetchedCells ==
  ASSUME TypeOK, NEW n \in 1 .. Size
  PROVE  /\ Fetched(n) \in [Cell -> Stamp \cup {Zero}]
         /\ \A k \in 0 .. Size - 1 :
              k < n => Fetched(n)[k] = fData[Wrapped(fReadPtr, k)]
  <1> USE SizeAssumption DEF TypeOK
  <1>1. Fetched(n) \in [Cell -> Stamp \cup {Zero}]
    BY DEF Fetched, Cell, Zero
  <1>2. ASSUME NEW k \in 0 .. Size - 1, k < n
        PROVE  Fetched(n)[k] = fData[Wrapped(fReadPtr, k)]
    BY <1>2 DEF Fetched, Wrapped, Cell
  <1> QED BY <1>1, <1>2

-----------------------------------------------------------------------------
LEMMA InitInv == Init => Inv
  <1> SUFFICES ASSUME Init PROVE Inv
    OBVIOUS
  <1> USE SizeAssumption, PeriodAssumption DEF Init
  <1>1. TypeOK
    BY DEF TypeOK, Cell, Stamp
  <1>2. Accounting
    <2>1. Advance(0, 0) = 0
      BY AdvanceWraps DEF Cell, Wrapped
    <2> QED BY <2>1 DEF Accounting
  <1>3. Unread
    BY DEF Unread, After
  <1> QED BY <1>1, <1>2, <1>3 DEF Inv

LEMMA EmptyInv == Inv /\ Empty => Inv'
  <1> SUFFICES ASSUME Inv, Empty PROVE Inv'
    OBVIOUS
  <1> USE SizeAssumption, PeriodAssumption DEF Empty, Inv
  <1>1. TypeOK'
    BY DEF TypeOK, Cell
  <1>2. Accounting'
    <2>1. Advance(0, 0) = 0
      BY AdvanceWraps DEF Cell, Wrapped
    <2> QED BY <2>1 DEF Accounting
  <1>3. Unread'
    BY DEF Unread, After, TypeOK, Stamp
  <1> QED BY <1>1, <1>2, <1>3

LEMMA WriteInv ==
  ASSUME Inv, NEW bytes \in 0 .. Size + 1, Write(bytes)
  PROVE  Inv'
  <1> DEFINE n == Clip(bytes, fWriteBytesAvail)
             used == Size - fWriteBytesAvail
  <1> USE SizeAssumption, PeriodAssumption DEF Inv
  <1>1. n \in 1 .. Size /\ n <= fWriteBytesAvail /\ used \in 0 .. Size
        /\ used + n \in 0 .. Size
    BY DEF Write, Clip, TypeOK
  <1>2. /\ fData' = Stored(n) /\ fWritePtr' = Advance(fWritePtr, n)
        /\ fWriteBytesAvail' = fWriteBytesAvail - n /\ put' = After(put, n)
        /\ fReadPtr' = fReadPtr /\ ret' = ret /\ got' = got
    BY DEF Write
  <1>3. Size - fWriteBytesAvail' = used + n
    BY <1>1, <1>2 DEF TypeOK
  <1> HIDE DEF n, used
  <1>4. TypeOK'
    <2>1. fWritePtr' \in Cell
      BY <1>1, <1>2, AdvanceWraps DEF TypeOK
    <2>2. fData' \in [Cell -> Stamp \cup {Zero}]
      BY <1>1, <1>2, StoredCells
    <2>3. put' \in Stamp
      BY <1>1, <1>2, AfterStamp DEF TypeOK
    <2>4. fWriteBytesAvail' \in 0 .. Size
      BY <1>1, <1>2 DEF TypeOK
    <2> QED BY <1>2, <2>1, <2>2, <2>3, <2>4 DEF TypeOK
  <1>5. Accounting'
    <2>1. fWritePtr = Advance(fReadPtr, used)
      BY DEF Accounting, used
    <2>2. Advance(Advance(fReadPtr, used), n) = Advance(fReadPtr, used + n)
      BY <1>1, AdvanceAdds DEF TypeOK
    <2> QED BY <1>2, <1>3, <2>1, <2>2 DEF Accounting
  <1>6. Unread'
    <2>1. put = After(got, used)
      BY DEF Unread, used
    <2>2. put' = After(got, used + n)
      BY <1>1, <1>2, <2>1, AfterAdds DEF TypeOK
    <2>3. fWritePtr = Wrapped(fReadPtr, used)
      BY <1>1, AdvanceWraps DEF Accounting, TypeOK, used
    <2>4. ASSUME NEW k \in 0 .. Size - 1, k < used + n
          PROVE  fData'[Advance(fReadPtr, k)] = After(got, k)
      <3>1. Advance(fReadPtr, k) = Wrapped(fReadPtr, k)
        BY AdvanceWraps DEF TypeOK
      <3>2. CASE k < used
        (* A byte that was there: the cell is not among those written. *)
        <4>1. fData[Wrapped(fReadPtr, k)] = After(got, k)
          BY <3>1, <3>2 DEF Unread, used
        <4> DEFINE j == k + Size - used
        <4>2. j \in 0 .. Size - 1 /\ j >= n
          BY <1>1, <3>2
        <4>3. Wrapped(fWritePtr, j) = Wrapped(fReadPtr, k)
          <5>1. fReadPtr \in Cell /\ fWritePtr \in Cell
            BY DEF TypeOK
          <5>2. CASE fReadPtr + used >= Size
            BY <1>1, <2>3, <3>2, <5>1, <5>2 DEF Wrapped, Cell
          <5>3. CASE fReadPtr + used < Size
            BY <1>1, <2>3, <3>2, <5>1, <5>3 DEF Wrapped, Cell
          <5> QED BY <1>1, <5>1, <5>2, <5>3 DEF Cell
        <4>4. Stored(n)[Wrapped(fWritePtr, j)] = fData[Wrapped(fWritePtr, j)]
          <5> HIDE DEF j
          <5> QED BY <1>1, <4>2, StoredCells
        <4> QED BY <1>2, <3>1, <4>1, <4>3, <4>4
      <3>3. CASE k >= used
        <4> DEFINE j == k - used
        <4>1. j \in 0 .. Size - 1 /\ j < n /\ used + j = k
          BY <1>1, <2>4, <3>3
        <4>2. Wrapped(fWritePtr, j) = Wrapped(fReadPtr, k)
          BY <1>1, <2>3, <3>3 DEF Wrapped, TypeOK, Cell
        <4>3. Stored(n)[Wrapped(fWritePtr, j)] = After(put, j)
          <5> HIDE DEF j
          <5> QED BY <1>1, <4>1, StoredCells
        <4>4. After(put, j) = After(got, k)
          <5> HIDE DEF j
          <5> QED BY <1>1, <2>1, <4>1, AfterAdds DEF TypeOK
        <4> QED BY <1>2, <3>1, <4>2, <4>3, <4>4
      <3> QED BY <1>1, <3>2, <3>3
    <2> QED BY <1>2, <1>3, <2>2, <2>4 DEF Unread
  <1> QED BY <1>4, <1>5, <1>6

(* What a call of Read returns and leaves behind. *)
LEMMA ReadInv ==
  ASSUME Inv, NEW bytes \in 0 .. Size + 1, Read(bytes)
  PROVE  /\ Inv'
         /\ \A k \in 0 .. Size - 1 : k < ret'.n => ret'.data[k] = After(got, k)
         /\ got' = After(got, ret'.n)
  <1> DEFINE used == Size - fWriteBytesAvail
             n == Clip(bytes, used)
  <1> USE SizeAssumption, PeriodAssumption DEF Inv
  <1>1. n \in 1 .. Size /\ n <= used /\ used \in 0 .. Size
    BY DEF Read, Clip, TypeOK
  <1>2. /\ ret' = [n |-> n, data |-> Fetched(n)]
        /\ fReadPtr' = Advance(fReadPtr, n)
        /\ fWriteBytesAvail' = fWriteBytesAvail + n /\ got' = After(got, n)
        /\ fData' = fData /\ fWritePtr' = fWritePtr /\ put' = put
    BY DEF Read
  <1>3. Size - fWriteBytesAvail' = used - n
    BY <1>1, <1>2 DEF TypeOK
  <1>a. /\ put = After(got, used)
        /\ fWritePtr = Advance(fReadPtr, used)
        /\ \A k \in 0 .. Size - 1 : k < used => fData[Advance(fReadPtr, k)] = After(got, k)
    BY DEF Unread, Accounting
  <1>b. \A k \in 0 .. Size - 1 : Advance(fReadPtr, k) = Wrapped(fReadPtr, k)
    BY AdvanceWraps DEF TypeOK
  <1>c. ret'.n = n /\ ret'.data = Fetched(n)
    BY <1>2
  <1> HIDE DEF n, used
  <1>4. TypeOK'
    <2>1. fReadPtr' \in Cell
      BY <1>1, <1>2, AdvanceWraps DEF TypeOK
    <2>2. ret'.data \in [Cell -> Stamp \cup {Zero}] /\ ret'.n \in 0 .. Size
      BY <1>1, <1>c, FetchedCells
    <2>3. got' \in Stamp
      BY <1>1, <1>2, AfterStamp DEF TypeOK
    <2>4. fWriteBytesAvail' \in 0 .. Size
      BY <1>1, <1>2, <1>3 DEF TypeOK
    <2> QED BY <1>2, <2>1, <2>2, <2>3, <2>4 DEF TypeOK
  <1>5. Accounting'
    <2>1. Advance(Advance(fReadPtr, n), used - n) = Advance(fReadPtr, n + (used - n))
      BY <1>1, AdvanceAdds DEF TypeOK
    <2>2. n + (used - n) = used
      BY <1>1
    <2> QED BY <1>2, <1>3, <1>a, <2>1, <2>2 DEF Accounting
  <1>6. Unread'
    <2>1. put' = After(got', used - n)
      <3>1. After(After(got, n), used - n) = After(got, n + (used - n))
        BY <1>1, AfterAdds DEF TypeOK
      <3>2. n + (used - n) = used
        BY <1>1
      <3> QED BY <1>2, <1>a, <3>1, <3>2
    <2>2. ASSUME NEW k \in 0 .. Size - 1, k < used - n
          PROVE  fData'[Advance(fReadPtr', k)] = After(got', k)
      <3>1. n + k \in 0 .. Size - 1 /\ n + k < used
        BY <1>1, <2>2
      <3>2. Advance(Advance(fReadPtr, n), k) = Advance(fReadPtr, n + k)
        BY <1>1, <3>1, AdvanceAdds DEF TypeOK
      <3>3. After(After(got, n), k) = After(got, n + k)
        BY <1>1, <3>1, AfterAdds DEF TypeOK
      <3> QED BY <1>2, <1>a, <3>1, <3>2, <3>3
    <2> QED BY <1>2, <1>3, <2>1, <2>2 DEF Unread
  <1>7. ASSUME NEW k \in 0 .. Size - 1, k < n
        PROVE  Fetched(n)[k] = After(got, k)
    <2>1. Fetched(n)[k] = fData[Wrapped(fReadPtr, k)]
      BY <1>1, <1>7, FetchedCells
    <2>2. k < used
      BY <1>1, <1>7
    <2> QED BY <1>a, <1>b, <2>1, <2>2
  <1> QED BY <1>2, <1>4, <1>5, <1>6, <1>7, <1>c

(* The pointers, the byte count and the ring contents always agree.        *)
THEOREM Invariance == Spec => []Inv
  <1>1. Inv /\ [Next]_vars => Inv'
    <2> SUFFICES ASSUME Inv, [Next]_vars PROVE Inv'
      OBVIOUS
    <2>1. CASE Empty
      BY <2>1, EmptyInv
    <2>2. ASSUME NEW bytes \in 0 .. Size + 1, Write(bytes) PROVE Inv'
      BY <2>2, WriteInv
    <2>3. ASSUME NEW bytes \in 0 .. Size + 1, Read(bytes) PROVE Inv'
      BY <2>3, ReadInv
    <2>4. CASE UNCHANGED vars
      BY <2>4 DEF Inv, TypeOK, Accounting, Unread, vars, ring
    <2> QED BY <2>1, <2>2, <2>3, <2>4 DEF Next
  <1> QED BY InitInv, <1>1, PTL DEF Spec

(* The pointers never leave the ring and the free count never passes it.   *)
THEOREM TypeCorrect == Spec => []TypeOK
  <1>1. Inv => TypeOK
    BY DEF Inv
  <1> QED BY <1>1, Invariance, PTL

(* The write pointer is always the bytes in use past the read pointer.     *)
THEOREM AccountingAlways == Spec => []Accounting
  <1>1. Inv => Accounting
    BY DEF Inv
  <1> QED BY <1>1, Invariance, PTL

(* No unread byte is ever overwritten, lost or moved.                      *)
THEOREM UnreadAlways == Spec => []Unread
  <1>1. Inv => Unread
    BY DEF Inv
  <1> QED BY <1>1, Invariance, PTL

(* Every Read returns the next bytes of the stream that was written.       *)
THEOREM ReadsInOrderAlways == Spec => ReadsInOrder
  <1> DEFINE InOrder == \A bytes \in 0 .. Size + 1 :
               Read(bytes) =>
                 /\ \A k \in 0 .. Size - 1 : k < ret'.n => ret'.data[k] = After(got, k)
                 /\ got' = After(got, ret'.n)
  <1>1. Inv => InOrder
    BY ReadInv
  <1> QED BY <1>1, Invariance, PTL DEF ReadsInOrder
-----------------------------------------------------------------------------
(* The mapping of RingQueueRefinement, by name. *)
Content == [k \in 1 .. Size - fWriteBytesAvail |-> fData[Advance(fReadPtr, k - 1)]]
Out     == [k \in 1 .. ret.n |-> ret.data[k - 1]]

(* What the pipe holds is the stretch of the stream behind `got'.          *)
Stretch(stamp, n) == [k \in 1 .. n |-> After(stamp, k - 1)]

LEMMA ContentIsStretch == Inv => Content = Stretch(got, Size - fWriteBytesAvail)
  <1> SUFFICES ASSUME Inv,
                      NEW k \in 1 .. Size - fWriteBytesAvail
               PROVE  fData[Advance(fReadPtr, k - 1)] = After(got, k - 1)
    BY DEF Content, Stretch
  <1>1. k - 1 \in 0 .. Size - 1 /\ k - 1 < Size - fWriteBytesAvail
    BY SizeAssumption DEF Inv, TypeOK
  <1> QED BY <1>1 DEF Inv, Unread

(* The same of the state after a step. *)
LEMMA ContentIsStretchNext ==
  ASSUME Inv'
  PROVE  Content' = Stretch(got', Size - fWriteBytesAvail')
  <1>1. (Inv => Content = Stretch(got, Size - fWriteBytesAvail))'
    BY ContentIsStretch, PTL
  <1> QED BY <1>1 DEF Stretch, After

LEMMA StretchIsSeq ==
  ASSUME NEW s \in Stamp, NEW n \in 0 .. Size
  PROVE  /\ Stretch(s, n) \in Seq(Stamp)
         /\ Len(Stretch(s, n)) = n
         /\ \A k \in 1 .. n : Stretch(s, n)[k] = After(s, k - 1)
  <1> USE SizeAssumption
  <1>1. \A k \in 1 .. n : After(s, k - 1) \in Stamp
    <2> TAKE k \in 1 .. n
    <2>1. k - 1 \in 0 .. Size
      OBVIOUS
    <2> QED BY <2>1, AfterStamp
  <1>2. Stretch(s, n) \in [1 .. n -> Stamp]
    BY <1>1 DEF Stretch
  <1>3. n \in Nat
    OBVIOUS
  <1>4. Stretch(s, n) \in Seq(Stamp) /\ Len(Stretch(s, n)) = n
    BY <1>2, <1>3
  <1> QED BY <1>4 DEF Stretch

(* A part of a stretch is the stretch that begins where the part does. *)
LEMMA PartOfStretch ==
  ASSUME NEW s \in Stamp, NEW n \in 0 .. Size,
         NEW a \in 0 .. n, NEW b \in a .. n
  PROVE  SubSeq(Stretch(s, n), a + 1, b) = Stretch(After(s, a), b - a)
  <1> USE SizeAssumption
  <1> DEFINE part == SubSeq(Stretch(s, n), a + 1, b)
  <1>1. \A k \in a + 1 .. b : Stretch(s, n)[k] \in Stamp
    <2> TAKE k \in a + 1 .. b
    <2>1. k \in 1 .. n /\ k - 1 \in 0 .. Size
      OBVIOUS
    <2> QED BY <2>1, StretchIsSeq, AfterStamp
  <1>2. /\ part \in Seq(Stamp)
        /\ Len(part) = b - a
        /\ \A k \in 1 .. b - a : part[k] = Stretch(s, n)[a + k]
    <2>1. /\ part \in Seq(Stamp)
          /\ Len(part) = IF a + 1 <= b THEN b - (a + 1) + 1 ELSE 0
          /\ \A k \in 1 .. b - (a + 1) + 1 : part[k] = Stretch(s, n)[(a + 1) + k - 1]
      BY <1>1, SubSeqProperties
    <2> HIDE DEF part
    <2>2. b - (a + 1) + 1 = b - a /\ \A k \in Int : (a + 1) + k - 1 = a + k
      OBVIOUS
    <2> QED BY <2>1, <2>2
  <1>3. After(s, a) \in Stamp /\ b - a \in 0 .. Size
    BY AfterStamp
  <1>4. \A k \in 1 .. b - a : part[k] = Stretch(After(s, a), b - a)[k]
    <2> TAKE k \in 1 .. b - a
    <2>1. a + k \in 1 .. n /\ k - 1 \in 0 .. Size /\ a \in 0 .. Size
          /\ a + (k - 1) \in 0 .. Size /\ a + k - 1 = a + (k - 1)
      OBVIOUS
    <2>2. After(After(s, a), k - 1) = After(s, a + (k - 1))
      BY <2>1, AfterAdds
    <2> HIDE DEF part
    <2> QED BY <1>2, <1>3, <2>1, <2>2, StretchIsSeq
  <1> HIDE DEF part
  <1>5. Len(Stretch(After(s, a), b - a)) = b - a /\ Stretch(After(s, a), b - a) \in Seq(Stamp)
    BY <1>3, StretchIsSeq
  <1>6. part = Stretch(After(s, a), b - a)
    BY <1>2, <1>4, <1>5
  <1> QED BY <1>6 DEF part

(* A queue that is written, read or emptied: a step of the pipe. *)
LEMMA WritePuts ==
  ASSUME Inv, NEW bytes \in 0 .. Size + 1, Write(bytes)
  PROVE  Pipe!Put
  <1> DEFINE n == Clip(bytes, fWriteBytesAvail)
             used == Size - fWriteBytesAvail
  <1> USE SizeAssumption
  <1>1. n \in 1 .. Size /\ used \in 0 .. Size /\ used + n \in used + 1 .. Size
    BY DEF Write, Clip, Inv, TypeOK
  <1>2. Size - fWriteBytesAvail' = used + n /\ got' = got /\ ret' = ret /\ got \in Stamp
    BY <1>1 DEF Write, Inv, TypeOK
  <1> HIDE DEF n, used
  <1>3. Content' = Stretch(got, used + n)
    BY <1>2, WriteInv, ContentIsStretchNext
  <1>4. Content = Stretch(got, used)
    BY ContentIsStretch DEF used
  <1>5. Content' \in Seq(Stamp) /\ Len(Content') = used + n /\ Len(Content) = used
    BY <1>1, <1>2, <1>3, <1>4, StretchIsSeq
  <1>6. SubSeq(Content', 1, used) = Content
    <2>1. SubSeq(Stretch(got, used + n), 0 + 1, used) = Stretch(After(got, 0), used - 0)
      <3>1. used + n \in 0 .. Size /\ 0 \in 0 .. used + n /\ used \in 0 .. used + n
        BY <1>1
      <3> QED BY <1>2, <3>1, PartOfStretch
    <2>2. After(got, 0) = got /\ used - 0 = used /\ 0 + 1 = 1
      BY <1>1, <1>2, PeriodAssumption DEF After, Stamp
    <2> QED BY <1>3, <1>4, <2>1, <2>2
  <1>7. Out' = Out
    BY <1>2 DEF Out
  <1> QED BY <1>1, <1>5, <1>6, <1>7 DEF Pipe!Put, Content, Out

LEMMA ReadGets ==
  ASSUME Inv, NEW bytes \in 0 .. Size + 1, Read(bytes)
  PROVE  Pipe!Get
  <1> DEFINE used == Size - fWriteBytesAvail
             n == Clip(bytes, used)
  <1> USE SizeAssumption
  <1>1. n \in 1 .. used /\ n \in 0 .. Size /\ used \in 0 .. Size /\ got \in Stamp
    BY DEF Read, Clip, Inv, TypeOK
  <1>2. Size - fWriteBytesAvail' = used - n /\ got' = After(got, n) /\ ret'.n = n
    BY <1>1 DEF Read, Inv, TypeOK
  <1> HIDE DEF n, used
  <1>3. Content' = Stretch(After(got, n), used - n)
    BY <1>2, ReadInv, ContentIsStretchNext
  <1>4. Content = Stretch(got, used)
    BY ContentIsStretch DEF used
  <1>5. Len(Content) = used
    BY <1>1, <1>4, StretchIsSeq
  <1>6. Out' = Stretch(got, n)
    <2>1. \A k \in 1 .. n : ret'.data[k - 1] = After(got, k - 1)
      <3> TAKE k \in 1 .. n
      <3>1. k - 1 \in 0 .. Size - 1 /\ k - 1 < n
        BY <1>1
      <3> QED BY <1>2, <3>1, ReadInv
    <2> QED BY <1>2, <2>1 DEF Out, Stretch
  <1>7. SubSeq(Content, 1, n) = Out'
    <2>1. SubSeq(Stretch(got, used), 0 + 1, n) = Stretch(After(got, 0), n - 0)
      <3>1. 0 \in 0 .. used /\ n \in 0 .. used
        BY <1>1
      <3> QED BY <1>1, <3>1, PartOfStretch
    <2>2. After(got, 0) = got /\ n - 0 = n /\ 0 + 1 = 1
      BY <1>1, PeriodAssumption DEF After, Stamp
    <2> QED BY <1>4, <1>6, <2>1, <2>2
  <1>8. SubSeq(Content, n + 1, Len(Content)) = Content'
    <2>1. n \in 0 .. used /\ used \in n .. used
      BY <1>1
    <2>2. SubSeq(Stretch(got, used), n + 1, used) = Stretch(After(got, n), used - n)
      BY <1>1, <2>1, PartOfStretch
    <2> QED BY <1>3, <1>4, <1>5, <2>2
  <1> QED BY <1>1, <1>5, <1>7, <1>8 DEF Pipe!Get, Content, Out

LEMMA EmptyClears == Inv /\ Empty => Pipe!Clear
  <1> SUFFICES ASSUME Inv, Empty PROVE Pipe!Clear
    OBVIOUS
  <1>1. Size - fWriteBytesAvail' = 0 /\ ret' = ret
    BY SizeAssumption DEF Empty
  <1>2. Content' = <<>>
    BY <1>1 DEF Content
  <1> QED BY <1>1, <1>2 DEF Pipe!Clear, Content

(* Every behaviour of the ring is one of the bounded pipe, whatever the size *)
(* of the ring and however the calls are cut up by its end.                *)
THEOREM Refinement == Spec => ImplementsPipe
  <1>1. Init => Pipe!Init
    <2> SUFFICES ASSUME Init PROVE Pipe!Init
      OBVIOUS
    <2>1. Size - fWriteBytesAvail = 0 /\ ret.n = 0
      BY SizeAssumption DEF Init
    <2> QED BY <2>1 DEF Pipe!Init
  <1>2. Inv /\ [Next]_vars => [Pipe!Next]_<<Content, Out>>
    <2> SUFFICES ASSUME Inv, [Next]_vars PROVE [Pipe!Next]_<<Content, Out>>
      OBVIOUS
    <2>1. CASE Empty
      BY <2>1, EmptyClears DEF Pipe!Next
    <2>2. ASSUME NEW bytes \in 0 .. Size + 1, Write(bytes) PROVE Pipe!Next
      BY <2>2, WritePuts DEF Pipe!Next
    <2>3. ASSUME NEW bytes \in 0 .. Size + 1, Read(bytes) PROVE Pipe!Next
      BY <2>3, ReadGets DEF Pipe!Next
    <2>4. CASE UNCHANGED vars
      BY <2>4 DEF vars, ring, Content, Out, Advance
    <2> QED BY <2>1, <2>2, <2>3, <2>4 DEF Next
  <1> QED BY <1>1, <1>2, Invariance, PTL DEF Spec, ImplementsPipe, Pipe!Spec, Content, Out

-----------------------------------------------------------------------------
(* Set-up and tear-down.  *)

(* What a step of a procedure may be. *)
Steps ==
  [op : {"take", "try", "must", "check", "give"}, what : Resources \cup {""}, undo : Seq(Resources)]

(* What is left of a procedure from its i-th step on. *)
Rest(p, i) == SubSeq(p, i, Len(p))

(* What a procedure has for certain taken before its i-th step, what it may *)
(* have, and what one that gives back no longer has.                       *)
Took(p, i) == {p[j].what : j \in {k \in 1 .. i - 1 : p[k].op \in {"take", "must"}}}
Had(p, i)  == {p[j].what : j \in {k \in 1 .. i - 1 : p[k].op \in {"take", "try", "must"}}}
Gone(q, i) == {q[j].what : j \in 1 .. i - 1}

(* Where a procedure is: what is left of it to do, what is held for certain *)
(* and what may be held of what it took.                                    *)
Point(left, lo, hi) == [left |-> left, lo |-> lo, hi |-> hi]

(* The points of a procedure that takes, its end, those of one that gives   *)
(* back, the steps that may fail, the points of what undoes them, and those *)
(* of a crash.                                                              *)
Taking(p) == {Point(Rest(p, i), Took(p, i), Had(p, i)) : i \in 1 .. Len(p) + 1}
Taken(p)  == Point(<<>>, Took(p, Len(p) + 1), Had(p, Len(p) + 1))
Giving(q, lo, hi) ==
  {Point(Rest(q, i), lo \ Gone(q, i), hi \ Gone(q, i)) : i \in 1 .. Len(q) + 1}
Failing(p) == {k \in 1 .. Len(p) : p[k].op \in {"take", "check"}}
Undoing(p) == UNION {Giving(Give(p[k].undo), Took(p, k), Had(p, k)) : k \in Failing(p)}
Stopped(p) == {Point(<<>>, m.lo, m.hi) : m \in Taking(p)}
Nothing    == Point(<<>>, {}, {})

(* The points of loading and unloading in a state of the driver, and those  *)
(* of probe and remove in a state of the card.                              *)
ModulePoints ==
  CASE state = "out"       -> {Nothing}
    [] state = "loading"   -> Taking(Load[driver])
    [] state = "in"        -> {Taken(Load[driver])}
    [] state = "failed"    -> Undoing(Load[driver])
    [] state = "unloading" -> Giving(Unload[driver], Taken(Load[driver]).lo, Taken(Load[driver]).hi)
    [] state = "crashed"   -> Stopped(Load[driver])

CardPoints ==
  CASE card = "none"     -> {Nothing}
    [] card = "probing"  -> Taking(CardProbe[driver])
    [] card = "bound"    -> {Taken(CardProbe[driver])}
    [] card = "removing" ->
         Undoing(CardProbe[driver])
           \cup Giving(CardRemove[driver], Taken(CardProbe[driver]).lo, Taken(CardProbe[driver]).hi)

(* The two procedures are at these points: what they hold is held, and      *)
(* nothing else but what the driver leaks.                                  *)
At(m, c) ==
  /\ todo = m.left /\ cardTodo = c.left
  /\ m.lo \cup c.lo \subseteq held
  /\ held \subseteq m.hi \cup c.hi \cup Leaked[driver]

(* The inductive invariant. NothingKept and the others look at the end of a *)
(* procedure, at its first step or at one resource; to keep them one must   *)
(* know how far each of the two procedures is and what it has by then.      *)
SetupIInv ==
  /\ driver \in Drivers
  /\ state \in {"out", "loading", "in", "failed", "unloading", "crashed"}
  /\ card \in {"none", "probing", "bound", "removing"}
  /\ card # "none" => "pci driver" \in held
  /\ \E m \in ModulePoints, c \in CardPoints : At(m, c)
-----------------------------------------------------------------------------
(* What there is to know of the procedures themselves.                      *)

(* The resources of a card, and those the driver has with or without one. *)
CardOwn ==
  [drm |-> {"rom", "mmio", "card info", "atom context", "iio", "scratch", "fb"},
   kernel |-> {"device"}, accelerant |-> {}]
ModuleOwn == [d \in Drivers |-> Resources \ CardOwn[d]]

(* A card is offered to a registered driver only. *)
Ground(d) == IF d = "kernel" THEN {"class", "region", "cdev", "pci driver"} ELSE {}

(* What is given back only when it is there. *)
MayBeNull == {"fb", "accelerant lock", "engine lock"}

(* A procedure that takes, and one that gives back, only what is its own.   *)
(* Going on without the semaphore skips one step, which may be left out as  *)
(* well.                                                                    *)
Takes(own, p) ==
  /\ p \in Seq(Steps)
  /\ \A i \in 1 .. Len(p) :
       /\ p[i].op # "give" /\ p[i].undo \in Seq(own)
       /\ p[i].op # "check" => p[i].what \in own
       /\ p[i].what = "exec sem" => i < Len(p) /\ p[i + 1].op = "try"

Gives(own, q) == q \in Seq(Steps) /\ \A i \in 1 .. Len(q) : q[i].op = "give" /\ q[i].what \in own

(* Nothing is taken before what it rests on. *)
TakesInOrder(d, base, p) ==
  \A i \in 1 .. Len(p) : p[i].op # "check" => RestsOn(d, p[i].what) \subseteq base \cup Took(p, i)

(* What is given back is held, and nothing that is still held rests on it.  *)
GivesInOrder(d, q, lo, hi) ==
  \A i \in 1 .. Len(q) :
    /\ q[i].what \in (lo \ Gone(q, i)) \cup MayBeNull
    /\ \A r \in hi \ (Gone(q, i) \cup {q[i].what}) : q[i].what \notin RestsOn(d, r)

(* A procedure p takes in order and undoes itself in order wherever it      *)
(* fails, and q gives back in order what p took.                            *)
Orderly(d, base, own, p, q) ==
  /\ Takes(own, p) /\ Gives(own, q)
  /\ TakesInOrder(d, base, p)
  /\ \A k \in Failing(p) : GivesInOrder(d, Give(p[k].undo), Took(p, k), Had(p, k))
  /\ GivesInOrder(d, q, Taken(p).lo, Taken(p).hi)

(* What may be left after a failed step was undone, and after a tear-down.  *)
LeftBy(q, hi) == hi \ Gone(q, Len(q) + 1)

(* What the drivers may be left with: nothing but what they leak, or, for   *)
(* an accelerant that failed, all of its common part or none of its areas.  *)
Areas == {"shared area", "regs area", "rom area"}

Ends(d) ==
  /\ LeftBy(Unload[d], Taken(Load[d]).hi) \subseteq Leaked[d]
  /\ LeftBy(CardRemove[d], Taken(CardProbe[d]).hi) \subseteq Leaked[d]
  /\ d # "accelerant" => Taken(Load[d]).hi \subseteq {"class", "region", "cdev", "pci driver"}
  /\ \A k \in Failing(CardProbe[d]) :
       LeftBy(Give(CardProbe[d][k].undo), Had(CardProbe[d], k)) \subseteq Leaked[d]
  /\ \A k \in Failing(Load[d]) :
       IF d # "accelerant"
       THEN LeftBy(Give(Load[d][k].undo), Had(Load[d], k)) \subseteq Leaked[d]
       ELSE \/ Areas \cup {"gInfo"} \subseteq LeftBy(Give(Load[d][k].undo), Took(Load[d], k))
            \/ Areas \cap LeftBy(Give(Load[d][k].undo), Had(Load[d], k)) = {}

(* What has to be shown of the three drivers. *)
Sound(d) ==
  /\ Orderly(d, {}, ModuleOwn[d], Load[d], Unload[d])
  /\ Orderly(d, Ground(d), CardOwn[d], CardProbe[d], CardRemove[d])
  /\ Ends(d)

-----------------------------------------------------------------------------
(* Of procedures in general.                                                *)

(* What is left of a procedure is empty at its end and otherwise loses its  *)
(* first step.                                                              *)
LEMMA RestOfProcedure ==
  ASSUME NEW S, NEW p \in Seq(S), NEW i \in 1 .. Len(p) + 1
  PROVE  /\ Rest(p, i) \in Seq(S)
         /\ Rest(p, i) = <<>> <=> i = Len(p) + 1
         /\ i <= Len(p) => /\ Head(Rest(p, i)) = p[i]
                           /\ Tail(Rest(p, i)) = Rest(p, i + 1)
         /\ \A j \in DOMAIN Rest(p, i) : Rest(p, i)[j] \in S
<1>1. Rest(p, i) \in Seq(S)
  BY SMT DEF Rest
<1>2. Len(Rest(p, i)) = Len(p) - i + 1
  BY SMT DEF Rest
<1>3. \A j \in 1 .. Len(p) - i + 1 : Rest(p, i)[j] = p[i + j - 1]
  BY SMT DEF Rest
<1>4. ASSUME i <= Len(p)
      PROVE  Tail(Rest(p, i)) = Rest(p, i + 1)
  <2>1. Rest(p, i) # <<>>
    BY <1>1, <1>2, <1>4, EmptySeq, SMT
  <2>2. /\ Tail(Rest(p, i)) \in Seq(S)
        /\ Len(Tail(Rest(p, i))) = Len(p) - i
        /\ \A j \in 1 .. Len(p) - i : Tail(Rest(p, i))[j] = p[i + j]
    BY <2>1, <1>1, <1>2, <1>3, HeadTailProperties, <1>4, SMT
  <2>3. /\ Rest(p, i + 1) \in Seq(S)
        /\ Len(Rest(p, i + 1)) = Len(p) - i
        /\ \A j \in 1 .. Len(p) - i : Rest(p, i + 1)[j] = p[i + j]
    BY <1>4, SMT DEF Rest
  <2>. QED
    BY <2>2, <2>3, SeqEqual
<1>. QED
  BY <1>1, <1>2, <1>3, <1>4, EmptySeq, SMT

(* What has been taken before a step and after it. *)
LEMMA TookNext ==
  ASSUME NEW p, NEW i \in Nat
  PROVE  /\ Took(p, 1) = {} /\ Had(p, 1) = {}
         /\ i >= 1 =>
              /\ Took(p, i + 1) = IF p[i].op \in {"take", "must"}
                                  THEN Took(p, i) \cup {p[i].what} ELSE Took(p, i)
              /\ Had(p, i + 1)  = IF p[i].op \in {"take", "try", "must"}
                                  THEN Had(p, i) \cup {p[i].what} ELSE Had(p, i)
<1>1. 1 .. 1 - 1 = {}
  OBVIOUS
<1>2. i >= 1 => 1 .. (i + 1) - 1 = (1 .. i - 1) \cup {i}
  OBVIOUS
<1>. QED
  BY <1>1, <1>2 DEF Took, Had

(* What has been given back before a step and after it. *)
LEMMA GoneNext ==
  ASSUME NEW q, NEW i \in Nat
  PROVE  /\ Gone(q, 1) = {}
         /\ i >= 1 => Gone(q, i + 1) = Gone(q, i) \cup {q[i].what}
<1>1. 1 .. 1 - 1 = {}
  OBVIOUS
<1>2. i >= 1 => 1 .. (i + 1) - 1 = (1 .. i - 1) \cup {i}
  OBVIOUS
<1>. QED
  BY <1>1, <1>2 DEF Gone

(* What a step that succeeds does to a set of resources: HeldAfter, of any set. *)
Moved(s, rs) ==
  CASE s.op = "give"  -> rs \ {s.what}
    [] s.op = "check" -> rs
    [] OTHER          -> rs \cup {s.what}

(* From a point with a step to go its success leads to one of the given     *)
(* points, with bounds moved by it; and its failure, when that may happen,  *)
(* to one with the same bounds or wider ones: a step that is only tried     *)
(* goes on, and any other starts to undo.                                  *)
GoesOn(points, m) ==
  \E n \in points :
    /\ n.left = Tail(m.left)
    /\ n.lo \subseteq Moved(Head(m.left), m.lo) /\ Moved(Head(m.left), m.hi) \subseteq n.hi
TurnsTo(points, m, left) == \E n \in points : n.left = left /\ n.lo \subseteq m.lo /\
        m.hi \subseteq n.hi
FailsTo(points, undoing, m) ==
  \A left : Fails(Head(m.left), Tail(m.left), left) =>
    TurnsTo(IF Head(m.left).op = "try" THEN points ELSE undoing, m, left)

(* Give makes a procedure of a list: one step for each resource, each of    *)
(* which gives it back.                                                     *)
LEMMA GiveIsProcedure ==
  ASSUME NEW own \in SUBSET Resources, NEW rs \in Seq(own)
  PROVE  /\ Gives(own, Give(rs)) /\ Len(Give(rs)) = Len(rs)
         /\ \A i \in 1 .. Len(rs) : Give(rs)[i].what = rs[i] /\ Give(rs)[i].op = "give"
<1>1. DOMAIN rs = 1 .. Len(rs) /\ Len(rs) \in Nat
  OBVIOUS
<1>2. \A i \in 1 .. Len(rs) : rs[i] \in own
  OBVIOUS
<1>3. <<>> \in Seq(Resources)
  OBVIOUS
<1>4. \A i \in 1 .. Len(rs) :
        /\ Give(rs)[i] = [op |-> "give", what |-> rs[i], undo |-> <<>>]
        /\ Give(rs)[i] \in Steps
        /\ Give(rs)[i].what = rs[i] /\ Give(rs)[i].op = "give"
  BY <1>1, <1>2, <1>3 DEF Give, SetupStep, Steps
<1>5. Give(rs) = [i \in 1 .. Len(rs) |-> Give(rs)[i]]
  BY <1>1 DEF Give
<1>6. Give(rs) \in Seq(Steps) /\ Len(Give(rs)) = Len(rs)
  BY <1>1, <1>4, <1>5, SMT
<1>7. Gives(own, Give(rs))
  BY <1>2, <1>4, <1>6 DEF Gives
<1>. QED
  BY <1>4, <1>6, <1>7

(* A step of a procedure that takes leads from point to point; if it fails, *)
(* to the first point of what undoes it.                                    *)
LEMMA TakingMoves ==
  ASSUME NEW own \in SUBSET Resources, NEW p, Takes(own, p), NEW m \in Taking(p), m.left # <<>>
  PROVE  /\ Head(m.left).op # "give"
         /\ Head(m.left).op # "check" => Head(m.left).what \in own
         /\ GoesOn(Taking(p), m) /\ FailsTo(Taking(p), Undoing(p), m)
<1>1. PICK i \in 1 .. Len(p) + 1 : m = Point(Rest(p, i), Took(p, i), Had(p, i))
  BY DEF Taking
<1>2. p \in Seq(Steps) /\ Len(p) \in Nat
  <2>1. p \in Seq(Steps)
    BY Zenon DEF Takes
  <2>. QED
    BY <2>1
<1>3. m.left = Rest(p, i) /\ m.lo = Took(p, i) /\ m.hi = Had(p, i)
  BY <1>1 DEF Point
<1>4. i \in 1 .. Len(p) /\ i \in Nat /\ i >= 1
  BY <1>2, <1>3, RestOfProcedure
<1>5. Head(m.left) = p[i] /\ Tail(m.left) = Rest(p, i + 1)
  BY <1>2, <1>3, <1>4, RestOfProcedure
<1>6. p[i] \in Steps
  BY <1>2, <1>4
<1>7. /\ p[i].op # "give" /\ p[i].undo \in Seq(own)
      /\ p[i].op # "check" => p[i].what \in own
      /\ p[i].what = "exec sem" => i < Len(p) /\ p[i + 1].op = "try"
  BY <1>4 DEF Takes
<1>8. Point(Rest(p, i + 1), Took(p, i + 1), Had(p, i + 1)) \in Taking(p)
  BY <1>2, <1>4 DEF Taking
<1>9. /\ Took(p, i + 1) = IF p[i].op \in {"take", "must"}
                          THEN Took(p, i) \cup {p[i].what} ELSE Took(p, i)
      /\ Had(p, i + 1)  = IF p[i].op \in {"take", "try", "must"}
                          THEN Had(p, i) \cup {p[i].what} ELSE Had(p, i)
  BY <1>4, TookNext
<1>10. p[i].op \in {"take", "try", "must", "check", "give"}
  BY <1>6 DEF Steps
<1>11. GoesOn(Taking(p), m)
  <2>. SUFFICES \E n \in Taking(p) :
                  /\ n.left = Tail(m.left) /\ n.lo \subseteq Moved(Head(m.left), m.lo)
                  /\ Moved(Head(m.left), m.hi) \subseteq n.hi
    BY Zenon DEF GoesOn
  <2>. WITNESS Point(Rest(p, i + 1), Took(p, i + 1), Had(p, i + 1)) \in Taking(p)
  <2>. QED
    BY <1>3, <1>5, <1>7, <1>9, <1>10 DEF Point, Moved
<1>12. ASSUME NEW left, Fails(Head(m.left), Tail(m.left), left)
       PROVE  TurnsTo(IF Head(m.left).op = "try" THEN Taking(p) ELSE Undoing(p), m, left)
  <2>. SUFFICES \E n \in IF p[i].op = "try" THEN Taking(p) ELSE Undoing(p) :
                  n.left = left /\ n.lo \subseteq m.lo /\ m.hi \subseteq n.hi
    BY <1>5 DEF TurnsTo
  <2>4. Fails(p[i], Rest(p, i + 1), left)
    BY <1>5, <1>12
  <2>1. CASE p[i].op = "try" /\ p[i].what # "exec sem"
    <3>1. left = Rest(p, i + 1)
      BY <2>4, <2>1 DEF Fails
    <3>. QED
      BY <3>1, <2>1, <1>8, <1>9, <1>3 DEF Point
  <2>2. CASE p[i].op = "try" /\ p[i].what = "exec sem"
    <3>1. left = Tail(Rest(p, i + 1))
      BY <2>4, <2>2 DEF Fails
    <3>5. /\ i + 1 \in 1 .. Len(p) + 1 /\ i + 1 <= Len(p) /\ i + 1 \in Nat
          /\ (i + 1) + 1 \in 1 .. Len(p) + 1 /\ p[i + 1].op = "try"
      <4>1. i < Len(p) /\ p[i + 1].op = "try"
        BY <1>7, <2>2, Zenon
      <4>. QED
        BY <4>1, <1>2, <1>4
    <3>2. left = Rest(p, (i + 1) + 1)
      BY <3>1, <1>2, <3>5, RestOfProcedure
    <3>3. Took(p, (i + 1) + 1) = Took(p, i) /\ Had(p, i) \subseteq Had(p, (i + 1) + 1)
      <4>1. /\ Took(p, (i + 1) + 1) = Took(p, i + 1)
            /\ Had(p, (i + 1) + 1) = Had(p, i + 1) \cup {p[i + 1].what}
        <5>. DEFINE k == i + 1
        <5>1. k \in Nat /\ k >= 1 /\ p[k].op = "try"
          BY <3>5, <1>4
        <5>. HIDE DEF k
        <5>2. Took(p, k + 1) = Took(p, k) /\ Had(p, k + 1) = Had(p, k) \cup {p[k].what}
          BY <5>1, TookNext
        <5>. QED
          BY <5>2 DEF k
      <4>. QED
        BY <4>1, <1>9, <2>2
    <3>4. Point(Rest(p, (i + 1) + 1), Took(p, (i + 1) + 1), Had(p, (i + 1) + 1)) \in Taking(p)
      BY <3>5, Zenon DEF Taking
    <3>. QED
      BY <3>2, <3>3, <3>4, <2>2, <1>3 DEF Point
  <2>3. CASE p[i].op # "try"
    <3>1. p[i].op \in {"take", "check"} /\ left = Give(p[i].undo)
      BY <2>4, <2>3 DEF Fails
    <3>2. i \in Failing(p)
      BY <3>1, <1>4 DEF Failing
    <3>. DEFINE q == Give(p[i].undo)
    <3>3. q \in Seq(Steps) /\ Len(q) \in Nat /\ 1 \in 1 .. Len(q) + 1
      <4>1. Gives(own, q)
        BY <1>7, GiveIsProcedure
      <4>2. q \in Seq(Steps)
        BY <4>1, Zenon DEF Gives
      <4>3. Len(q) \in Nat
        BY <4>2
      <4>. HIDE DEF q
      <4>. QED
        BY <4>2, <4>3
    <3>4. Point(Rest(q, 1), Took(p, i) \ Gone(q, 1), Had(p, i) \ Gone(q, 1)) \in Undoing(p)
      <4>1. Point(Rest(q, 1), Took(p, i) \ Gone(q, 1), Had(p, i) \ Gone(q, 1))
              \in Giving(q, Took(p, i), Had(p, i))
        BY <3>3, Zenon DEF Giving
      <4>. QED
        BY <4>1, <3>2, Zenon DEF Undoing
    <3>5. Rest(q, 1) = q
      BY <3>3, SMT DEF Rest
    <3>6. Gone(q, 1) = {}
      BY GoneNext
    <3>. HIDE DEF q
    <3>7. Point(q, Took(p, i), Had(p, i)) \in Undoing(p)
      BY <3>4, <3>5, <3>6
    <3>. QED
      BY <3>1, <3>7, <2>3, <1>3 DEF Point, q
  <2>. QED
    BY <2>1, <2>2, <2>3
<1>13. FailsTo(Taking(p), Undoing(p), m)
  BY <1>12, Zenon DEF FailsTo
<1>14. Head(m.left).op # "give" /\ (Head(m.left).op # "check" => Head(m.left).what \in own)
  BY <1>5, <1>7
<1>. QED
  BY <1>11, <1>13, <1>14, Zenon

(* So does a step of one that gives back, which cannot fail. *)
LEMMA GivingMoves ==
  ASSUME NEW own \in SUBSET Resources, NEW q, Gives(own, q), NEW lo, NEW hi,
         NEW m \in Giving(q, lo, hi), m.left # <<>>
  PROVE  /\ Head(m.left).op = "give" /\ Head(m.left).what \in own
         /\ GoesOn(Giving(q, lo, hi), m)
<1>1. PICK i \in 1 .. Len(q) + 1 : m = Point(Rest(q, i), lo \ Gone(q, i), hi \ Gone(q, i))
  BY DEF Giving
<1>2. q \in Seq(Steps) /\ Len(q) \in Nat
  <2>1. q \in Seq(Steps)
    BY Zenon DEF Gives
  <2>. QED
    BY <2>1
<1>3. m.left = Rest(q, i) /\ m.lo = lo \ Gone(q, i) /\ m.hi = hi \ Gone(q, i)
  BY <1>1 DEF Point
<1>4. i \in 1 .. Len(q) /\ i + 1 \in 1 .. Len(q) + 1 /\ i \in Nat /\ i >= 1
  BY <1>2, <1>3, RestOfProcedure
<1>5. Head(m.left) = q[i] /\ Tail(m.left) = Rest(q, i + 1)
  BY <1>2, <1>3, <1>4, RestOfProcedure
<1>6. q[i].op = "give" /\ q[i].what \in own
  BY <1>4 DEF Gives
<1>7. Gone(q, i + 1) = Gone(q, i) \cup {q[i].what}
  BY <1>4, GoneNext
<1>8. Point(Rest(q, i + 1), lo \ Gone(q, i + 1), hi \ Gone(q, i + 1)) \in Giving(q, lo, hi)
  BY <1>4, Zenon DEF Giving
<1>. QED
  BY <1>3, <1>5, <1>6, <1>7, <1>8 DEF Point, GoesOn, Moved

(* What holds at every point of an orderly pair of procedures. *)
Well(d, base, own, m) ==
  /\ m.left \in Seq(Steps) /\ m.lo \subseteq own /\ m.hi \subseteq own
  /\ \A r \in m.hi : RestsOn(d, r) \subseteq base \cup m.lo
  /\ m.left # <<>> /\ Head(m.left).op = "give" => Head(m.left).what \in m.lo \cup MayBeNull

(* Every point of a procedure that takes in order is well. *)
LEMMA TakingWell ==
  ASSUME NEW d, NEW base, NEW own \in SUBSET Resources, NEW p,
         Takes(own, p), TakesInOrder(d, base, p), NEW m \in Taking(p)
  PROVE  Well(d, base, own, m)
<1>1. PICK i \in 1 .. Len(p) + 1 : m = Point(Rest(p, i), Took(p, i), Had(p, i))
  BY DEF Taking
<1>2. p \in Seq(Steps)
  BY Zenon DEF Takes
<1>3. m.left = Rest(p, i) /\ m.lo = Took(p, i) /\ m.hi = Had(p, i)
  BY <1>1 DEF Point
<1>4. m.left \in Seq(Steps)
  BY <1>2, <1>3, RestOfProcedure
<1>5. \A j \in 1 .. i - 1 : j \in 1 .. Len(p) /\ 1 .. j - 1 \subseteq 1 .. i - 1
  BY <1>2
<1>6. \A j \in 1 .. Len(p) : p[j].op # "check" => p[j].what \in own
  BY DEF Takes
<1>7. Took(p, i) \subseteq own /\ Had(p, i) \subseteq own
  BY <1>5, <1>6 DEF Took, Had
<1>8. ASSUME NEW r \in Had(p, i)
      PROVE  RestsOn(d, r) \subseteq base \cup Took(p, i)
  <2>1. PICK j \in 1 .. i - 1 : p[j].op \in {"take", "try", "must"} /\ r = p[j].what
    BY <1>8 DEF Had
  <2>2. j \in 1 .. Len(p) /\ p[j].op # "check"
    BY <2>1, <1>5
  <2>3. RestsOn(d, r) \subseteq base \cup Took(p, j)
    BY <2>1, <2>2 DEF TakesInOrder
  <2>4. Took(p, j) \subseteq Took(p, i)
    BY <1>5 DEF Took
  <2>. QED
    BY <2>3, <2>4
<1>9. m.left # <<>> => Head(m.left).op # "give"
  BY TakingMoves
<1>. QED
  BY <1>3, <1>4, <1>7, <1>8, <1>9 DEF Well

(* Every point of a procedure that gives back in order what was taken in    *)
(* order is well.                                                           *)
LEMMA GivingWell ==
  ASSUME NEW d, NEW base, NEW own \in SUBSET Resources, NEW q, NEW lo \in SUBSET own,
         NEW hi \in SUBSET own, Gives(own, q), GivesInOrder(d, q, lo, hi),
         \A r \in hi : RestsOn(d, r) \subseteq base \cup lo,
         NEW m \in Giving(q, lo, hi)
  PROVE  Well(d, base, own, m)
<1>1. PICK i \in 1 .. Len(q) + 1 : m = Point(Rest(q, i), lo \ Gone(q, i), hi \ Gone(q, i))
  BY DEF Giving
<1>2. q \in Seq(Steps)
  BY Zenon DEF Gives
<1>3. m.left = Rest(q, i) /\ m.lo = lo \ Gone(q, i) /\ m.hi = hi \ Gone(q, i)
  BY <1>1 DEF Point
<1>4. m.left \in Seq(Steps)
  BY <1>2, <1>3, RestOfProcedure
<1>5. \A j \in 1 .. i - 1 : j \in 1 .. Len(q) /\ 1 .. j - 1 \subseteq 1 .. i - 1
  BY <1>2
<1>6. ASSUME NEW r \in hi \ Gone(q, i), NEW s \in RestsOn(d, r), s \in Gone(q, i)
      PROVE  FALSE
  <2>1. PICK j \in 1 .. i - 1 : s = q[j].what
    BY <1>6 DEF Gone
  <2>2. r \notin Gone(q, j) /\ r # q[j].what
    BY <1>5, <1>6 DEF Gone
  <2>3. q[j].what \notin RestsOn(d, r)
    BY <2>2, <1>5, <1>6, Zenon DEF GivesInOrder
  <2>. QED
    BY <2>1, <2>3, <1>6
<1>7. \A r \in m.hi : RestsOn(d, r) \subseteq base \cup m.lo
  BY <1>3, <1>6
<1>8. m.left # <<>> => Head(m.left).what \in m.lo \cup MayBeNull
  <2>. SUFFICES ASSUME m.left # <<>> PROVE Head(m.left).what \in m.lo \cup MayBeNull
    OBVIOUS
  <2>1. i \in 1 .. Len(q) /\ Head(m.left) = q[i]
    BY <1>2, <1>3, RestOfProcedure
  <2>. QED
    BY <2>1, <1>3 DEF GivesInOrder
<1>. QED
  BY <1>3, <1>4, <1>7, <1>8 DEF Well

(* The points of what undoes a failed step. *)
LEMMA UndoingWell ==
  ASSUME NEW d, NEW base, NEW own \in SUBSET Resources, NEW p, NEW q,
         Orderly(d, base, own, p, q), NEW m \in Undoing(p)
  PROVE  Well(d, base, own, m)
<1>1. PICK k \in Failing(p) : m \in Giving(Give(p[k].undo), Took(p, k), Had(p, k))
  BY DEF Undoing
<1>2. Takes(own, p) /\ TakesInOrder(d, base, p)
  BY DEF Orderly
<1>3. p \in Seq(Steps)
  BY <1>2, Zenon DEF Takes
<1>4. k \in 1 .. Len(p) /\ k \in 1 .. Len(p) + 1
  BY <1>3 DEF Failing
<1>5. p[k].undo \in Seq(own)
  BY <1>2, <1>4 DEF Takes
<1>6. Gives(own, Give(p[k].undo))
  BY <1>5, GiveIsProcedure
<1>7. GivesInOrder(d, Give(p[k].undo), Took(p, k), Had(p, k))
  BY Zenon DEF Orderly
<1>. DEFINE n == Point(Rest(p, k), Took(p, k), Had(p, k))
<1>8. n \in Taking(p)
  BY <1>4 DEF Taking
<1>9. Well(d, base, own, n)
  BY <1>2, <1>8, TakingWell
<1>10. /\ Took(p, k) \subseteq own /\ Had(p, k) \subseteq own
       /\ \A r \in Had(p, k) : RestsOn(d, r) \subseteq base \cup Took(p, k)
  BY <1>9 DEF Well, Point
<1>. QED
  BY <1>1, <1>6, <1>7, <1>10, GivingWell

(* The end of a procedure and the points of its counterpart. *)
LEMMA TakenWell ==
  ASSUME NEW d, NEW base, NEW own \in SUBSET Resources, NEW p, NEW q,
         Orderly(d, base, own, p, q)
  PROVE  /\ Taken(p) \in Taking(p)
         /\ \A m \in Giving(q, Taken(p).lo, Taken(p).hi) : Well(d, base, own, m)
<1>1. Takes(own, p) /\ TakesInOrder(d, base, p) /\ Gives(own, q)
  BY DEF Orderly
<1>2. p \in Seq(Steps)
  BY <1>1, Zenon DEF Takes
<1>3. Len(p) + 1 \in 1 .. Len(p) + 1 /\ Rest(p, Len(p) + 1) = <<>>
  BY <1>2, RestOfProcedure
<1>4. Taken(p) \in Taking(p)
  BY <1>3, Zenon DEF Taken, Taking
<1>5. Well(d, base, own, Taken(p))
  BY <1>1, <1>4, TakingWell
<1>6. GivesInOrder(d, q, Taken(p).lo, Taken(p).hi)
  BY DEF Orderly
<1>7. \A m \in Giving(q, Taken(p).lo, Taken(p).hi) : Well(d, base, own, m)
  <2>1. /\ Taken(p).lo \in SUBSET own /\ Taken(p).hi \in SUBSET own
        /\ \A r \in Taken(p).hi : RestsOn(d, r) \subseteq base \cup Taken(p).lo
    BY <1>5 DEF Well
  <2>. QED
    BY <1>1, <1>6, <2>1, GivingWell
<1>. QED
  BY <1>4, <1>7

(* Before the first procedure nothing is held. *)
LEMMA NothingWell ==
  ASSUME NEW d, NEW base, NEW own
  PROVE  Well(d, base, own, Nothing)
  BY DEF Well, Nothing, Point

-----------------------------------------------------------------------------
(* The procedures themselves.  The sequences they are put together from are *)
(* joined once, for any elements.                                          *)

LEMMA OneAndOne ==
  ASSUME NEW a, NEW b
  PROVE  <<a>> \o <<b>> = <<a, b>>
<1>. DEFINE S      == {a, b}
            joined == <<a>> \o <<b>>
            whole  == <<a, b>>
<1>1. <<a>> \in Seq(S) /\ <<b>> \in Seq(S)
  OBVIOUS
<1>2. whole \in Seq(S) /\ Len(whole) = 2
  OBVIOUS
<1>3. joined \in Seq(S)
  BY <1>1
<1>4. Len(joined) = 2
  OBVIOUS
<1>5. \A at \in 1 .. 2 : joined[at] = whole[at]
  OBVIOUS
<1>6. joined = whole
  <2>. HIDE DEF S, joined, whole
  <2>. QED
    BY <1>2, <1>3, <1>4, <1>5, SeqEqual
<1>. QED
  BY <1>6, Zenon

LEMMA OneAndTwo ==
  ASSUME NEW a, NEW b, NEW c
  PROVE  <<a>> \o <<b, c>> = <<a, b, c>>
<1>. DEFINE S      == {a, b, c}
            joined == <<a>> \o <<b, c>>
            whole  == <<a, b, c>>
<1>1. <<a>> \in Seq(S) /\ <<b, c>> \in Seq(S)
  OBVIOUS
<1>2. whole \in Seq(S) /\ Len(whole) = 3
  OBVIOUS
<1>3. joined \in Seq(S)
  BY <1>1
<1>4. Len(joined) = 3
  OBVIOUS
<1>5. \A at \in 1 .. 3 : joined[at] = whole[at]
  OBVIOUS
<1>6. joined = whole
  <2>. HIDE DEF S, joined, whole
  <2>. QED
    BY <1>2, <1>3, <1>4, <1>5, SeqEqual
<1>. QED
  BY <1>6, Zenon

LEMMA TwoAndTwo ==
  ASSUME NEW a, NEW b, NEW c, NEW d
  PROVE  <<a, b>> \o <<c, d>> = <<a, b, c, d>>
<1>. DEFINE S      == {a, b, c, d}
            joined == <<a, b>> \o <<c, d>>
            whole  == <<a, b, c, d>>
<1>1. <<a, b>> \in Seq(S) /\ <<c, d>> \in Seq(S)
  OBVIOUS
<1>2. whole \in Seq(S) /\ Len(whole) = 4
  OBVIOUS
<1>3. joined \in Seq(S)
  BY <1>1
<1>4. Len(joined) = 4
  OBVIOUS
<1>5. \A at \in 1 .. 4 : joined[at] = whole[at]
  OBVIOUS
<1>6. joined = whole
  <2>. HIDE DEF S, joined, whole
  <2>. QED
    BY <1>2, <1>3, <1>4, <1>5, SeqEqual
<1>. QED
  BY <1>6, Zenon

LEMMA EightAndTwo ==
  ASSUME NEW a, NEW b, NEW c, NEW d, NEW e, NEW f, NEW g, NEW h, NEW i, NEW j
  PROVE  <<a, b, c, d, e, f, g, h>> \o <<i, j>> = <<a, b, c, d, e, f, g, h, i, j>>
<1>. DEFINE S      == {a, b, c, d, e, f, g, h, i, j}
            joined == <<a, b, c, d, e, f, g, h>> \o <<i, j>>
            whole  == <<a, b, c, d, e, f, g, h, i, j>>
<1>1. <<a, b, c, d, e, f, g, h>> \in Seq(S) /\ <<i, j>> \in Seq(S)
  OBVIOUS
<1>2. whole \in Seq(S) /\ Len(whole) = 10
  OBVIOUS
<1>3. joined \in Seq(S)
  BY <1>1
<1>4. Len(joined) = 10
  OBVIOUS
<1>5. \A at \in 1 .. 10 : joined[at] = whole[at]
  OBVIOUS
<1>6. joined = whole
  <2>. HIDE DEF S, joined, whole
  <2>. QED
    BY <1>2, <1>3, <1>4, <1>5, SeqEqual
<1>. QED
  BY <1>6, Zenon

LEMMA TenAndFive ==
  ASSUME NEW a, NEW b, NEW c, NEW d, NEW e, NEW f, NEW g, NEW h, NEW i, NEW j, NEW k, NEW l,
         NEW m, NEW n, NEW o
  PROVE  <<a, b, c, d, e, f, g, h, i, j>> \o <<k, l, m, n, o>>
           = <<a, b, c, d, e, f, g, h, i, j, k, l, m, n, o>>
<1>. DEFINE S      == {a, b, c, d, e, f, g, h, i, j, k, l, m, n, o}
            joined == <<a, b, c, d, e, f, g, h, i, j>> \o <<k, l, m, n, o>>
            whole  == <<a, b, c, d, e, f, g, h, i, j, k, l, m, n, o>>
<1>1. <<a, b, c, d, e, f, g, h, i, j>> \in Seq(S) /\ <<k, l, m, n, o>> \in Seq(S)
  OBVIOUS
<1>2. whole \in Seq(S) /\ Len(whole) = 15
  OBVIOUS
<1>3. joined \in Seq(S)
  BY <1>1
<1>4. Len(joined) = 15
  OBVIOUS
<1>5. \A at \in 1 .. 15 : joined[at] = whole[at]
  OBVIOUS
<1>6. joined = whole
  <2>. HIDE DEF S, joined, whole
  <2>. QED
    BY <1>2, <1>3, <1>4, <1>5, SeqEqual
<1>. QED
  BY <1>6, Zenon

LEMMA FifteenAndThree ==
  ASSUME NEW a, NEW b, NEW c, NEW d, NEW e, NEW f, NEW g, NEW h, NEW i, NEW j, NEW k, NEW l,
         NEW m, NEW n, NEW o, NEW p, NEW q, NEW r
  PROVE  <<a, b, c, d, e, f, g, h, i, j, k, l, m, n, o>> \o <<p, q, r>>
           = <<a, b, c, d, e, f, g, h, i, j, k, l, m, n, o, p, q, r>>
<1>. DEFINE S      == {a, b, c, d, e, f, g, h, i, j, k, l, m, n, o, p, q, r}
            joined == <<a, b, c, d, e, f, g, h, i, j, k, l, m, n, o>> \o <<p, q, r>>
            whole  == <<a, b, c, d, e, f, g, h, i, j, k, l, m, n, o, p, q, r>>
<1>1. <<a, b, c, d, e, f, g, h, i, j, k, l, m, n, o>> \in Seq(S) /\ <<p, q, r>> \in Seq(S)
  OBVIOUS
<1>2. whole \in Seq(S) /\ Len(whole) = 18
  OBVIOUS
<1>3. joined \in Seq(S)
  BY <1>1
<1>4. Len(joined) = 18
  OBVIOUS
<1>5. \A at \in 1 .. 18 : joined[at] = whole[at]
  OBVIOUS
<1>6. joined = whole
  <2>. HIDE DEF S, joined, whole
  <2>. QED
    BY <1>2, <1>3, <1>4, <1>5, SeqEqual
<1>. QED
  BY <1>6, Zenon

LEMMA TwoAndSeven ==
  ASSUME NEW a, NEW b, NEW c, NEW d, NEW e, NEW f, NEW g, NEW h, NEW i
  PROVE  <<a, b>> \o <<c, d, e, f, g, h, i>> = <<a, b, c, d, e, f, g, h, i>>
<1>. DEFINE S      == {a, b, c, d, e, f, g, h, i}
            joined == <<a, b>> \o <<c, d, e, f, g, h, i>>
            whole  == <<a, b, c, d, e, f, g, h, i>>
<1>1. <<a, b>> \in Seq(S) /\ <<c, d, e, f, g, h, i>> \in Seq(S)
  OBVIOUS
<1>2. whole \in Seq(S) /\ Len(whole) = 9
  OBVIOUS
<1>3. joined \in Seq(S)
  BY <1>1
<1>4. Len(joined) = 9
  OBVIOUS
<1>5. \A at \in 1 .. 9 : joined[at] = whole[at]
  OBVIOUS
<1>6. joined = whole
  <2>. HIDE DEF S, joined, whole
  <2>. QED
    BY <1>2, <1>3, <1>4, <1>5, SeqEqual
<1>. QED
  BY <1>6, Zenon

(* A step with its parts in their ranges. *)
LEMMA StepIsStep ==
  ASSUME NEW op \in {"take", "try", "must", "check", "give"}, NEW r \in Resources \cup {""},
         NEW u \in Seq(Resources)
  PROVE  SetupStep(op, r, u) \in Steps
  BY DEF SetupStep, Steps

(* The driver has each resource either with the card or without it, and the *)
(* registration is not the card's.                                          *)
LEMMA OwnResources ==
  ASSUME NEW d \in Drivers
  PROVE  /\ ModuleOwn[d] \in SUBSET Resources /\ CardOwn[d] \in SUBSET Resources
         /\ ModuleOwn[d] \cap CardOwn[d] = {}
         /\ "pci driver" \notin CardOwn[d] /\ "pci driver" \notin Leaked[d]
<1>0. d = "drm" \/ d = "kernel" \/ d = "accelerant"
  BY DEF Drivers
<1>5. /\ CardOwn["drm"] = {"rom", "mmio", "card info", "atom context", "iio", "scratch", "fb"}
      /\ CardOwn["kernel"] = {"device"}
      /\ CardOwn["accelerant"] = {}
  BY DEF CardOwn
<1>1. CardOwn[d] \subseteq Resources
  BY <1>0, <1>5 DEF Resources
<1>2. ModuleOwn[d] = Resources \ CardOwn[d]
  BY DEF ModuleOwn
<1>3. "pci driver" \notin CardOwn[d]
  <2>1. CASE d = "drm"
    BY <2>1, <1>5
  <2>2. CASE d = "kernel"
    BY <2>2, <1>5
  <2>3. CASE d = "accelerant"
    BY <2>3, <1>5
  <2>. QED
    BY <1>0, <2>1, <2>2, <2>3
<1>6. /\ Leaked["drm"] = {"card info", "iio", "scratch"}
      /\ Leaked["kernel"] = {}
      /\ Leaked["accelerant"] =
           {"card info", "atom context", "iio", "scratch", "exec sem", "ring queue",
                   "mode list area"}
  BY DEF Leaked
<1>4. "pci driver" \notin Leaked[d]
  <2>1. CASE d = "drm"
    BY <2>1, <1>6
  <2>2. CASE d = "kernel"
    BY <2>2, <1>6
  <2>3. CASE d = "accelerant"
    BY <2>3, <1>6
  <2>. QED
    BY <1>0, <2>1, <2>2, <2>3
<1>. QED
  BY <1>1, <1>2, <1>3, <1>4

(* What giving back a list leaves of what there was. *)
Leaves(q, gone) == \A s : LeftBy(q, s) = s \ gone

(* The resource x may be given back after those in gone: it is still there  *)
(* and nothing that may still be there rests on it.                         *)
Free(d, x, lo, hi, gone) ==
  /\ x \in (lo \ gone) \cup MayBeNull
  /\ \A r \in hi \ (gone \cup {x}) : x \notin RestsOn(d, r)

(* A list of resources may be given back in its order if each is free when  *)
(* its turn comes.                                                          *)
LEMMA ListOfOne ==
  ASSUME NEW own \in SUBSET Resources, NEW r1 \in own,
         NEW d, NEW lo, NEW hi, Free(d, r1, lo, hi, {})
  PROVE  /\ <<r1>> \in Seq(own) /\ GivesInOrder(d, Give(<<r1>>), lo, hi)
         /\ Leaves(Give(<<r1>>), {r1})
<1>. DEFINE rs == <<r1>>
            q  == Give(rs)
<1>1. Len(rs) = 1 /\ rs[1] = r1
  OBVIOUS
<1>2. rs \in Seq(own)
  OBVIOUS
<1>. HIDE DEF rs
<1>3. Len(q) = 1 /\ \A i \in 1 .. 1 : q[i].what = rs[i]
  BY <1>1, <1>2, GiveIsProcedure
<1>. HIDE DEF q
<1>4. Gone(q, 1) = {}
  BY GoneNext
<1>5. Gone(q, 2) = {r1}
  BY <1>1, <1>3 DEF Gone
<1>6. ASSUME NEW i \in 1 .. 1
      PROVE  Free(d, q[i].what, lo, hi, Gone(q, i))
  BY <1>6, <1>1, <1>3, <1>4
<1>7. GivesInOrder(d, q, lo, hi)
  BY <1>3, <1>6 DEF GivesInOrder, Free
<1>8. Leaves(q, {r1})
  BY <1>3, <1>5 DEF LeftBy, Leaves
<1>. QED
  BY <1>2, <1>7, <1>8 DEF q, rs

LEMMA ListOfTwo ==
  ASSUME NEW own \in SUBSET Resources, NEW r1 \in own, NEW r2 \in own,
         NEW d, NEW lo, NEW hi, Free(d, r1, lo, hi, {}), Free(d, r2, lo, hi, {r1})
  PROVE  /\ <<r1, r2>> \in Seq(own) /\ GivesInOrder(d, Give(<<r1, r2>>), lo, hi)
         /\ Leaves(Give(<<r1, r2>>), {r1, r2})
<1>. DEFINE rs == <<r1, r2>>
            q  == Give(rs)
<1>1. Len(rs) = 2 /\ rs[1] = r1 /\ rs[2] = r2
  OBVIOUS
<1>2. rs \in Seq(own)
  OBVIOUS
<1>. HIDE DEF rs
<1>3. Len(q) = 2 /\ \A i \in 1 .. 2 : q[i].what = rs[i]
  BY <1>1, <1>2, GiveIsProcedure
<1>. HIDE DEF q
<1>4. Gone(q, 1) = {}
  BY GoneNext
<1>5. Gone(q, 2) = {r1}
  BY <1>1, <1>3 DEF Gone
<1>6. Gone(q, 3) = {r1, r2}
  BY <1>1, <1>3 DEF Gone
<1>7. ASSUME NEW i \in 1 .. 2
      PROVE  Free(d, q[i].what, lo, hi, Gone(q, i))
  BY <1>7, <1>1, <1>3, <1>4, <1>5
<1>8. GivesInOrder(d, q, lo, hi)
  BY <1>3, <1>7 DEF GivesInOrder, Free
<1>9. Leaves(q, {r1, r2})
  BY <1>3, <1>6 DEF LeftBy, Leaves
<1>. QED
  BY <1>2, <1>8, <1>9 DEF q, rs

LEMMA ListOfThree ==
  ASSUME NEW own \in SUBSET Resources, NEW r1 \in own, NEW r2 \in own, NEW r3 \in own,
         NEW d, NEW lo, NEW hi, Free(d, r1, lo, hi, {}), Free(d, r2, lo, hi, {r1}),
         Free(d, r3, lo, hi, {r1, r2})
  PROVE  /\ <<r1, r2, r3>> \in Seq(own) /\ GivesInOrder(d, Give(<<r1, r2, r3>>), lo, hi)
         /\ Leaves(Give(<<r1, r2, r3>>), {r1, r2, r3})
<1>. DEFINE rs == <<r1, r2, r3>>
            q  == Give(rs)
<1>1. Len(rs) = 3 /\ rs[1] = r1 /\ rs[2] = r2 /\ rs[3] = r3
  OBVIOUS
<1>2. rs \in Seq(own)
  OBVIOUS
<1>. HIDE DEF rs
<1>3. Len(q) = 3 /\ \A i \in 1 .. 3 : q[i].what = rs[i]
  BY <1>1, <1>2, GiveIsProcedure
<1>. HIDE DEF q
<1>4. Gone(q, 1) = {}
  BY GoneNext
<1>5. Gone(q, 2) = {r1}
  BY <1>1, <1>3 DEF Gone
<1>6. Gone(q, 3) = {r1, r2}
  BY <1>1, <1>3 DEF Gone
<1>7. Gone(q, 4) = {r1, r2, r3}
  BY <1>1, <1>3 DEF Gone
<1>8. ASSUME NEW i \in 1 .. 3
      PROVE  Free(d, q[i].what, lo, hi, Gone(q, i))
  BY <1>8, <1>1, <1>3, <1>4, <1>5, <1>6
<1>9. GivesInOrder(d, q, lo, hi)
  BY <1>3, <1>8 DEF GivesInOrder, Free
<1>10. Leaves(q, {r1, r2, r3})
  BY <1>3, <1>7 DEF LeftBy, Leaves
<1>. QED
  BY <1>2, <1>9, <1>10 DEF q, rs

LEMMA ListOfFour ==
  ASSUME NEW own \in SUBSET Resources, NEW r1 \in own, NEW r2 \in own, NEW r3 \in own,
         NEW r4 \in own,
         NEW d, NEW lo, NEW hi, Free(d, r1, lo, hi, {}), Free(d, r2, lo, hi, {r1}),
         Free(d, r3, lo, hi, {r1, r2}), Free(d, r4, lo, hi, {r1, r2, r3})
  PROVE  /\ <<r1, r2, r3, r4>> \in Seq(own) /\ GivesInOrder(d, Give(<<r1, r2, r3, r4>>), lo, hi)
         /\ Leaves(Give(<<r1, r2, r3, r4>>), {r1, r2, r3, r4})
<1>. DEFINE rs == <<r1, r2, r3, r4>>
            q  == Give(rs)
<1>1. Len(rs) = 4 /\ rs[1] = r1 /\ rs[2] = r2 /\ rs[3] = r3 /\ rs[4] = r4
  OBVIOUS
<1>2. rs \in Seq(own)
  OBVIOUS
<1>. HIDE DEF rs
<1>3. Len(q) = 4 /\ \A i \in 1 .. 4 : q[i].what = rs[i]
  BY <1>1, <1>2, GiveIsProcedure
<1>. HIDE DEF q
<1>4. Gone(q, 1) = {}
  BY GoneNext
<1>5. Gone(q, 2) = {r1}
  BY <1>1, <1>3 DEF Gone
<1>6. Gone(q, 3) = {r1, r2}
  BY <1>1, <1>3 DEF Gone
<1>7. Gone(q, 4) = {r1, r2, r3}
  BY <1>1, <1>3 DEF Gone
<1>8. Gone(q, 5) = {r1, r2, r3, r4}
  BY <1>1, <1>3 DEF Gone
<1>9. ASSUME NEW i \in 1 .. 4
      PROVE  Free(d, q[i].what, lo, hi, Gone(q, i))
  BY <1>9, <1>1, <1>3, <1>4, <1>5, <1>6, <1>7
<1>10. GivesInOrder(d, q, lo, hi)
  BY <1>3, <1>9 DEF GivesInOrder, Free
<1>11. Leaves(q, {r1, r2, r3, r4})
  BY <1>3, <1>8 DEF LeftBy, Leaves
<1>. QED
  BY <1>2, <1>10, <1>11 DEF q, rs

LEMMA ListOfFive ==
  ASSUME NEW own \in SUBSET Resources, NEW r1 \in own, NEW r2 \in own, NEW r3 \in own,
         NEW r4 \in own, NEW r5 \in own,
         NEW d, NEW lo, NEW hi, Free(d, r1, lo, hi, {}), Free(d, r2, lo, hi, {r1}),
         Free(d, r3, lo, hi, {r1, r2}), Free(d, r4, lo, hi, {r1, r2, r3}),
         Free(d, r5, lo, hi, {r1, r2, r3, r4})
  PROVE  /\ <<r1, r2, r3, r4, r5>> \in Seq(own) /\ GivesInOrder(d, Give(<<r1, r2, r3, r4,
                r5>>), lo, hi)
         /\ Leaves(Give(<<r1, r2, r3, r4, r5>>), {r1, r2, r3, r4, r5})
<1>. DEFINE rs == <<r1, r2, r3, r4, r5>>
            q  == Give(rs)
<1>1. Len(rs) = 5 /\ rs[1] = r1 /\ rs[2] = r2 /\ rs[3] = r3 /\ rs[4] = r4 /\ rs[5] = r5
  OBVIOUS
<1>2. rs \in Seq(own)
  OBVIOUS
<1>. HIDE DEF rs
<1>3. Len(q) = 5 /\ \A i \in 1 .. 5 : q[i].what = rs[i]
  BY <1>1, <1>2, GiveIsProcedure
<1>. HIDE DEF q
<1>4. Gone(q, 1) = {}
  BY GoneNext
<1>5. Gone(q, 2) = {r1}
  BY <1>1, <1>3 DEF Gone
<1>6. Gone(q, 3) = {r1, r2}
  BY <1>1, <1>3 DEF Gone
<1>7. Gone(q, 4) = {r1, r2, r3}
  BY <1>1, <1>3 DEF Gone
<1>8. Gone(q, 5) = {r1, r2, r3, r4}
  BY <1>1, <1>3 DEF Gone
<1>9. Gone(q, 6) = {r1, r2, r3, r4, r5}
  BY <1>1, <1>3 DEF Gone
<1>10. ASSUME NEW i \in 1 .. 5
      PROVE  Free(d, q[i].what, lo, hi, Gone(q, i))
  BY <1>10, <1>1, <1>3, <1>4, <1>5, <1>6, <1>7, <1>8
<1>11. GivesInOrder(d, q, lo, hi)
  BY <1>3, <1>10 DEF GivesInOrder, Free
<1>12. Leaves(q, {r1, r2, r3, r4, r5})
  BY <1>3, <1>9 DEF LeftBy, Leaves
<1>. QED
  BY <1>2, <1>11, <1>12 DEF q, rs

LEMMA ListOfNine ==
  ASSUME NEW own \in SUBSET Resources, NEW r1 \in own, NEW r2 \in own, NEW r3 \in own,
         NEW r4 \in own, NEW r5 \in own, NEW r6 \in own, NEW r7 \in own, NEW r8 \in own,
         NEW r9 \in own,
         NEW d, NEW lo, NEW hi, Free(d, r1, lo, hi, {}), Free(d, r2, lo, hi, {r1}),
         Free(d, r3, lo, hi, {r1, r2}), Free(d, r4, lo, hi, {r1, r2, r3}),
         Free(d, r5, lo, hi, {r1, r2, r3, r4}), Free(d, r6, lo, hi, {r1, r2, r3, r4, r5}),
         Free(d, r7, lo, hi, {r1, r2, r3, r4, r5, r6}),
         Free(d, r8, lo, hi, {r1, r2, r3, r4, r5, r6, r7}),
         Free(d, r9, lo, hi, {r1, r2, r3, r4, r5, r6, r7, r8})
  PROVE  /\ <<r1, r2, r3, r4, r5, r6, r7, r8, r9>> \in Seq(own) /\ GivesInOrder(d, Give(<<r1,
                r2, r3, r4, r5, r6, r7, r8, r9>>), lo, hi)
         /\ Leaves(Give(<<r1, r2, r3, r4, r5, r6, r7, r8, r9>>), {r1, r2, r3, r4, r5, r6, r7,
                       r8, r9})
<1>. DEFINE rs == <<r1, r2, r3, r4, r5, r6, r7, r8, r9>>
            q  == Give(rs)
<1>1. Len(rs) = 9 /\ rs[1] = r1 /\ rs[2] = r2 /\ rs[3] = r3 /\ rs[4] = r4 /\ rs[5] = r5 /\ rs[6] =
      r6 /\ rs[7] = r7 /\ rs[8] = r8 /\ rs[9] = r9
  OBVIOUS
<1>2. rs \in Seq(own)
  OBVIOUS
<1>. HIDE DEF rs
<1>3. Len(q) = 9 /\ \A i \in 1 .. 9 : q[i].what = rs[i]
  BY <1>1, <1>2, GiveIsProcedure
<1>. HIDE DEF q
<1>4. Gone(q, 1) = {}
  BY GoneNext
<1>5. Gone(q, 2) = {r1}
  BY <1>1, <1>3 DEF Gone
<1>6. Gone(q, 3) = {r1, r2}
  BY <1>1, <1>3 DEF Gone
<1>7. Gone(q, 4) = {r1, r2, r3}
  BY <1>1, <1>3 DEF Gone
<1>8. Gone(q, 5) = {r1, r2, r3, r4}
  BY <1>1, <1>3 DEF Gone
<1>9. Gone(q, 6) = {r1, r2, r3, r4, r5}
  BY <1>1, <1>3 DEF Gone
<1>10. Gone(q, 7) = {r1, r2, r3, r4, r5, r6}
  BY <1>1, <1>3 DEF Gone
<1>11. Gone(q, 8) = {r1, r2, r3, r4, r5, r6, r7}
  BY <1>1, <1>3 DEF Gone
<1>12. Gone(q, 9) = {r1, r2, r3, r4, r5, r6, r7, r8}
  BY <1>1, <1>3 DEF Gone
<1>13. Gone(q, 10) = {r1, r2, r3, r4, r5, r6, r7, r8, r9}
  BY <1>1, <1>3 DEF Gone
<1>14. ASSUME NEW i \in 1 .. 9
      PROVE  Free(d, q[i].what, lo, hi, Gone(q, i))
  <2>1. i = 1 \/ i = 2 \/ i = 3 \/ i = 4 \/ i = 5 \/ i = 6 \/ i = 7 \/ i = 8 \/ i = 9
    BY <1>14
  <2>2. CASE i = 1
    BY <2>2, <1>1, <1>3, <1>4
  <2>3. CASE i = 2
    BY <2>3, <1>1, <1>3, <1>5
  <2>4. CASE i = 3
    BY <2>4, <1>1, <1>3, <1>6
  <2>5. CASE i = 4
    BY <2>5, <1>1, <1>3, <1>7
  <2>6. CASE i = 5
    BY <2>6, <1>1, <1>3, <1>8
  <2>7. CASE i = 6
    BY <2>7, <1>1, <1>3, <1>9
  <2>8. CASE i = 7
    BY <2>8, <1>1, <1>3, <1>10
  <2>9. CASE i = 8
    BY <2>9, <1>1, <1>3, <1>11
  <2>10. CASE i = 9
    BY <2>10, <1>1, <1>3, <1>12
  <2>. QED
    BY <2>1, <2>2, <2>3, <2>4, <2>5, <2>6, <2>7, <2>8, <2>9, <2>10
<1>15. GivesInOrder(d, q, lo, hi)
  BY <1>3, <1>14 DEF GivesInOrder, Free
<1>16. Leaves(q, {r1, r2, r3, r4, r5, r6, r7, r8, r9})
  BY <1>3, <1>13 DEF LeftBy, Leaves
<1>. QED
  BY <1>2, <1>15, <1>16 DEF q, rs

(* Sequences of a known length and their elements. *)
LEMMA SeqOfOne ==
  ASSUME NEW T, NEW r1 \in T
  PROVE  <<r1>> \in Seq(T)
  OBVIOUS

LEMMA SeqOfTwo ==
  ASSUME NEW T, NEW r1 \in T, NEW r2 \in T
  PROVE  <<r1, r2>> \in Seq(T)
  OBVIOUS

LEMMA SeqOfThree ==
  ASSUME NEW T, NEW r1 \in T, NEW r2 \in T, NEW r3 \in T
  PROVE  <<r1, r2, r3>> \in Seq(T)
  OBVIOUS

LEMMA SeqOfFour ==
  ASSUME NEW T, NEW r1 \in T, NEW r2 \in T, NEW r3 \in T, NEW r4 \in T
  PROVE  <<r1, r2, r3, r4>> \in Seq(T)
  OBVIOUS

LEMMA SeqOfEight ==
  ASSUME NEW T, NEW r1 \in T, NEW r2 \in T, NEW r3 \in T, NEW r4 \in T,
         NEW r5 \in T, NEW r6 \in T, NEW r7 \in T, NEW r8 \in T
  PROVE  <<r1, r2, r3, r4, r5, r6, r7, r8>> \in Seq(T)
  OBVIOUS

LEMMA SeqOfEighteen ==
  ASSUME NEW T, NEW r1 \in T, NEW r2 \in T, NEW r3 \in T, NEW r4 \in T,
         NEW r5 \in T, NEW r6 \in T, NEW r7 \in T, NEW r8 \in T, NEW r9 \in T, NEW r10 \in T,
         NEW r11 \in T, NEW r12 \in T, NEW r13 \in T, NEW r14 \in T, NEW r15 \in T, NEW r16 \in T,
         NEW r17 \in T, NEW r18 \in T
  PROVE  <<r1, r2, r3, r4, r5, r6, r7, r8, r9, r10, r11, r12, r13, r14, r15, r16, r17,
                r18>> \in Seq(T)
  OBVIOUS

-----------------------------------------------------------------------------
(* What is to be known of one step of a procedure.  The procedures are long *)
(* and their steps are looked at one at a time, through these operators.    *)

StepAt(p, k, op, r, undo) == p[k] = SetupStep(op, r, undo)
Reached(p, k, lo, hi)     == Took(p, k) = lo /\ Had(p, k) = hi
Follows(j, k)             == j \in Nat /\ j >= 1 /\ k = j + 1
Joins(new, old, r)        == new = old \cup {r}

(* The fields of a step. *)
LEMMA StepFields ==
  ASSUME NEW p, NEW k, NEW op, NEW r, NEW undo, StepAt(p, k, op, r, undo)
  PROVE  p[k].op = op /\ p[k].what = r /\ p[k].undo = undo
  BY DEF StepAt, SetupStep

(* A procedure begins with nothing, and each kind of step adds what it      *)
(* takes to what is certain or possible.                                    *)
LEMMA Outset == ASSUME NEW p PROVE Reached(p, 1, {}, {})
  BY TookNext DEF Reached

LEMMA TakeAt ==
  ASSUME NEW p, NEW j, NEW k, Follows(j, k), NEW r, NEW undo, StepAt(p, j, "take", r, undo),
         NEW lo, NEW hi, Reached(p, j, lo, hi),
         NEW newLo, Joins(newLo, lo, r), NEW newHi, Joins(newHi, hi, r)
  PROVE  Reached(p, k, newLo, newHi)
<1>1. p[j].op = "take" /\ p[j].what = r
  BY StepFields
<1>2. j \in Nat /\ j >= 1 /\ k = j + 1
  BY DEF Follows
<1>. QED
  BY <1>1, <1>2, TookNext DEF Reached, Joins

LEMMA MustAt ==
  ASSUME NEW p, NEW j, NEW k, Follows(j, k), NEW r, NEW undo, StepAt(p, j, "must", r, undo),
         NEW lo, NEW hi, Reached(p, j, lo, hi),
         NEW newLo, Joins(newLo, lo, r), NEW newHi, Joins(newHi, hi, r)
  PROVE  Reached(p, k, newLo, newHi)
<1>1. p[j].op = "must" /\ p[j].what = r
  BY StepFields
<1>2. j \in Nat /\ j >= 1 /\ k = j + 1
  BY DEF Follows
<1>. QED
  BY <1>1, <1>2, TookNext DEF Reached, Joins

LEMMA TryAt ==
  ASSUME NEW p, NEW j, NEW k, Follows(j, k), NEW r, NEW undo, StepAt(p, j, "try", r, undo),
         NEW lo, NEW hi, Reached(p, j, lo, hi), NEW newHi, Joins(newHi, hi, r)
  PROVE  Reached(p, k, lo, newHi)
<1>1. p[j].op = "try" /\ p[j].what = r
  BY StepFields
<1>2. j \in Nat /\ j >= 1 /\ k = j + 1
  BY DEF Follows
<1>. QED
  BY <1>1, <1>2, TookNext DEF Reached, Joins

LEMMA CheckAt ==
  ASSUME NEW p, NEW j, NEW k, Follows(j, k), NEW r, NEW undo, StepAt(p, j, "check", r, undo),
         NEW lo, NEW hi, Reached(p, j, lo, hi)
  PROVE  Reached(p, k, lo, hi)
<1>1. p[j].op = "check" /\ p[j].what = r
  BY StepFields
<1>2. j \in Nat /\ j >= 1 /\ k = j + 1
  BY DEF Follows
<1>. QED
  BY <1>1, <1>2, TookNext DEF Reached, Joins

(* The step keeps to what Takes and TakesInOrder ask of it. *)
TakenAt(d, base, own, p, k) ==
  /\ p[k].op # "give" /\ p[k].undo \in Seq(own)
  /\ p[k].op # "check" => p[k].what \in own
  /\ p[k].what = "exec sem" => k < Len(p) /\ p[k + 1].op = "try"
  /\ p[k].op # "check" => RestsOn(d, p[k].what) \subseteq base \cup Took(p, k)

(* A step that takes one of the driver's own resources and whose foundation *)
(* has been laid is in order; so is a check.                                *)
LEMMA TakenInOrder ==
  ASSUME NEW p, NEW k, NEW op, op # "give", NEW r, r # "exec sem", NEW undo,
         StepAt(p, k, op, r, undo), NEW own, undo \in Seq(own), r \in own,
         NEW d, NEW base, NEW lo, NEW hi, Reached(p, k, lo, hi),
         RestsOn(d, r) \subseteq base \cup lo
  PROVE  TakenAt(d, base, own, p, k)
  BY StepFields DEF TakenAt, Reached

LEMMA CheckedInOrder ==
  ASSUME NEW p, NEW k, NEW undo, StepAt(p, k, "check", "", undo), NEW own, undo \in Seq(own),
         NEW d, NEW base
  PROVE  TakenAt(d, base, own, p, k)
<1>1. p[k].op = "check" /\ p[k].what = "" /\ p[k].undo = undo
  BY StepFields
<1>. QED
  BY <1>1 DEF TakenAt

(* Its failure undoes what it should: what is left of what was there for    *)
(* certain, and of what may have been there.                               *)
UndoneAt(d, p, k, leftLo, leftHi) ==
  /\ GivesInOrder(d, Give(p[k].undo), Took(p, k), Had(p, k))
  /\ LeftBy(Give(p[k].undo), Took(p, k)) = leftLo
  /\ LeftBy(Give(p[k].undo), Had(p, k)) = leftHi

(* What undoes a step depends on its list and on what was taken before it. *)
LEMMA UndoneInOrder ==
  ASSUME NEW p, NEW k, NEW op, NEW r, NEW undo, StepAt(p, k, op, r, undo),
         NEW lo, NEW hi, Reached(p, k, lo, hi), NEW d, GivesInOrder(d, Give(undo), lo, hi),
         NEW leftLo, LeftBy(Give(undo), lo) = leftLo, NEW leftHi, LeftBy(Give(undo), hi) = leftHi
  PROVE  UndoneAt(d, p, k, leftLo, leftHi)
  BY StepFields, Zenon DEF UndoneAt, Reached

(* A step that is only tried, or that ends the program, undoes nothing. *)
LEMMA TryNeverFails ==
  ASSUME NEW p, NEW k, NEW r, NEW undo,
         StepAt(p, k, "try", r, undo) \/ StepAt(p, k, "must", r, undo)
  PROVE  k \notin Failing(p)
  BY StepFields DEF Failing

(* The numbers of the steps. *)
LEMMA Counted ==
  /\ Follows(1, 2)
  /\ Follows(2, 3)
  /\ Follows(3, 4)
  /\ Follows(4, 5)
  /\ Follows(5, 6)
  /\ Follows(6, 7)
  /\ Follows(7, 8)
  /\ Follows(8, 9)
  /\ Follows(9, 10)
  /\ Follows(10, 11)
  /\ Follows(11, 12)
  /\ Follows(12, 13)
  /\ Follows(13, 14)
  /\ Follows(14, 15)
  /\ Follows(15, 16)
  /\ Follows(16, 17)
  /\ Follows(17, 18)
  /\ Follows(18, 19)
  BY DEF Follows

(* The Haiku kernel driver, mydrm_init() and its exit: what it takes is its *)
(* own, the labels are what they add up to, and one step after the other:   *)
(* what it is, what has been taken before it, that it is in order, and what *)
(* is left when it fails.                                                   *)
LEMMA KernelOwn ==
  /\ "class" \in ModuleOwn["kernel"] /\ "region" \in ModuleOwn["kernel"]
  /\ "cdev" \in ModuleOwn["kernel"] /\ "pci driver" \in ModuleOwn["kernel"]
  /\ ModuleOwn["kernel"] \in SUBSET Resources
  BY OwnResources DEF CardOwn, ModuleOwn, Resources, Drivers

LEMMA KernelUndo ==
  err1 = <<"class">> /\ err2 = <<"region", "class">> /\ err3 = <<"cdev", "region", "class">>
<1>1. err1 = <<"class">>
  BY DEF err1
<1>2. err2 = <<"region", "class">>
  BY <1>1, OneAndOne DEF err2
<1>3. err3 = <<"cdev", "region", "class">>
  BY <1>2, OneAndTwo DEF err3
<1>. QED
  BY <1>1, <1>2, <1>3

LEMMA KernelInitSteps ==
  /\ kernel_init \in Seq(Steps) /\ Len(kernel_init) = 4
  /\ StepAt(kernel_init, 1, "take", "class", <<>>)
  /\ StepAt(kernel_init, 2, "take", "region", err1)
  /\ StepAt(kernel_init, 3, "take", "cdev", err2)
  /\ StepAt(kernel_init, 4, "take", "pci driver", err3)
<1>. DEFINE procedure ==
              << SetupStep("take", "class", <<>>),
                 SetupStep("take", "region", err1),
                 SetupStep("take", "cdev", err2),
                 SetupStep("take", "pci driver", err3) >>
<1>1. kernel_init = procedure
  BY DEF kernel_init, Take
<1>2. /\ <<>> \in Seq(Resources)
      /\ err1 \in Seq(Resources)
      /\ err2 \in Seq(Resources)
      /\ err3 \in Seq(Resources)
  <2>1. "class" \in Resources /\ "region" \in Resources /\ "cdev" \in Resources
    BY DEF Resources
  <2>2. <<>> \in Seq(Resources)
    OBVIOUS
  <2>3. err1 \in Seq(Resources)
    BY <2>1 DEF err1
  <2>4. err2 \in Seq(Resources)
    BY <2>1, <2>3 DEF err2
  <2>5. err3 \in Seq(Resources)
    BY <2>1, <2>4 DEF err3
  <2>. QED
    BY <2>2, <2>3, <2>4, <2>5
<1>3. "class" \in Resources \cup {""} /\ "region" \in Resources \cup {""} /\
      "cdev" \in Resources \cup {""} /\ "pci driver" \in Resources \cup {""}
  BY DEF Resources
<1>4. /\ SetupStep("take", "class", <<>>) \in Steps
      /\ SetupStep("take", "region", err1) \in Steps
      /\ SetupStep("take", "cdev", err2) \in Steps
      /\ SetupStep("take", "pci driver", err3) \in Steps
  BY <1>2, <1>3, StepIsStep
<1>5. kernel_init \in Seq(Steps)
  BY <1>1, <1>4, SeqOfFour
<1>6. Len(kernel_init) = 4
  BY <1>1
<1>7. /\ kernel_init[1] = SetupStep("take", "class", <<>>)
      /\ kernel_init[2] = SetupStep("take", "region", err1)
      /\ kernel_init[3] = SetupStep("take", "cdev", err2)
      /\ kernel_init[4] = SetupStep("take", "pci driver", err3)
  BY <1>1
<1>. QED
  BY <1>5, <1>6, <1>7 DEF StepAt

LEMMA KernelInitReached ==
  /\ Reached(kernel_init, 1, {}, {})
  /\ Reached(kernel_init, 2, {"class"}, {"class"})
  /\ Reached(kernel_init, 3, {"class", "region"}, {"class", "region"})
  /\ Reached(kernel_init, 4, {"class", "region", "cdev"}, {"class", "region", "cdev"})
  /\ Reached(kernel_init, 5, {"class", "region", "cdev", "pci driver"}, {"class", "region",
                "cdev", "pci driver"})
<1>. DEFINE had0 == {}
            had1 == {"class"}
            had2 == {"class", "region"}
            had3 == {"class", "region", "cdev"}
            had4 == {"class", "region", "cdev", "pci driver"}
<1>1. /\ Joins(had1, had0, "class")
      /\ Joins(had2, had1, "region")
      /\ Joins(had3, had2, "cdev")
      /\ Joins(had4, had3, "pci driver")
  BY DEF Joins
<1>2. Reached(kernel_init, 1, had0, had0)
  BY Outset
<1>. HIDE DEF had0, had1, had2, had3, had4
<1>3. Reached(kernel_init, 2, had1, had1)
  <2>1. StepAt(kernel_init, 1, "take", "class", <<>>) /\ Follows(1, 2)
    BY KernelInitSteps, Counted, Zenon
  <2>2. Joins(had1, had0, "class")
    BY <1>1, Zenon
  <2>. QED
    BY <2>1, <2>2, <1>2, TakeAt, Zenon
<1>4. Reached(kernel_init, 3, had2, had2)
  <2>1. StepAt(kernel_init, 2, "take", "region", err1) /\ Follows(2, 3)
    BY KernelInitSteps, Counted, Zenon
  <2>2. Joins(had2, had1, "region")
    BY <1>1, Zenon
  <2>. QED
    BY <2>1, <2>2, <1>3, TakeAt, Zenon
<1>5. Reached(kernel_init, 4, had3, had3)
  <2>1. StepAt(kernel_init, 3, "take", "cdev", err2) /\ Follows(3, 4)
    BY KernelInitSteps, Counted, Zenon
  <2>2. Joins(had3, had2, "cdev")
    BY <1>1, Zenon
  <2>. QED
    BY <2>1, <2>2, <1>4, TakeAt, Zenon
<1>6. Reached(kernel_init, 5, had4, had4)
  <2>1. StepAt(kernel_init, 4, "take", "pci driver", err3) /\ Follows(4, 5)
    BY KernelInitSteps, Counted, Zenon
  <2>2. Joins(had4, had3, "pci driver")
    BY <1>1, Zenon
  <2>. QED
    BY <2>1, <2>2, <1>5, TakeAt, Zenon
<1>. QED
  BY <1>2, <1>3, <1>4, <1>5, <1>6, Zenon DEF had0, had1, had2, had3, had4

(* Two lists given back one after the other are one list given back. *)
LEMMA GiveBoth ==
  ASSUME NEW r1 \in Seq(Resources), NEW r2 \in Seq(Resources)
  PROVE  Give(r1) \o Give(r2) = Give(r1 \o r2)
<1>. DEFINE g1     == Give(r1)
            g2     == Give(r2)
            rs     == r1 \o r2
            whole  == Give(rs)
            joined == g1 \o g2
<1>0. rs \in Seq(Resources) /\ Len(rs) = Len(r1) + Len(r2) /\ Len(r1) \in Nat /\ Len(r2) \in Nat
  OBVIOUS
<1>1. /\ \A i \in 1 .. Len(r1) : g1[i] = SetupStep("give", r1[i], <<>>)
      /\ \A i \in 1 .. Len(r2) : g2[i] = SetupStep("give", r2[i], <<>>)
      /\ \A i \in 1 .. Len(rs) : whole[i] = SetupStep("give", rs[i], <<>>)
  BY <1>0 DEF Give
<1>2. /\ \A i \in 1 .. Len(r1) : rs[i] = r1[i]
      /\ \A i \in 1 .. Len(r2) : rs[Len(r1) + i] = r2[i]
  OBVIOUS
<1>. HIDE DEF rs
<1>3. Gives(Resources, g1) /\ Gives(Resources, g2) /\ Gives(Resources, whole)
  BY <1>0, GiveIsProcedure, Resources \in SUBSET Resources, Zenon
<1>4. g1 \in Seq(Steps) /\ g2 \in Seq(Steps) /\ whole \in Seq(Steps)
  BY <1>3, Zenon DEF Gives
<1>5. Len(g1) = Len(r1) /\ Len(g2) = Len(r2) /\ Len(whole) = Len(rs)
  BY <1>0, GiveIsProcedure, Resources \in SUBSET Resources, Zenon
<1>. HIDE DEF g1, g2, whole
<1>6. joined \in Seq(Steps) /\ Len(joined) = Len(rs)
  <2>1. joined \in Seq(Steps) /\ Len(joined) = Len(g1) + Len(g2)
    BY <1>4, ConcatProperties
  <2>. QED
    BY <2>1, <1>0, <1>5
<1>7. /\ \A i \in 1 .. Len(r1) : joined[i] = g1[i]
      /\ \A i \in 1 .. Len(r2) : joined[Len(r1) + i] = g2[i]
  BY <1>4, <1>5
<1>. HIDE DEF joined
<1>8. ASSUME NEW i \in 1 .. Len(rs)
      PROVE  joined[i] = whole[i]
  <2>1. CASE i \in 1 .. Len(r1)
    BY <2>1, <1>1, <1>2, <1>7, <1>8
  <2>2. CASE i \notin 1 .. Len(r1)
    <3>. DEFINE k == i - Len(r1)
    <3>1. k \in 1 .. Len(r2) /\ i = Len(r1) + k
      BY <2>2, <1>0, <1>8
    <3>. HIDE DEF k
    <3>2. joined[i] = g2[k] /\ g2[k] = SetupStep("give", r2[k], <<>>)
      BY <3>1, <1>1, <1>7
    <3>3. rs[i] = r2[k] /\ whole[i] = SetupStep("give", rs[i], <<>>)
      BY <3>1, <1>1, <1>2
    <3>. QED
      BY <3>2, <3>3
  <2>. QED
    BY <2>1, <2>2
<1>9. joined = whole
  BY <1>4, <1>5, <1>6, <1>8, SeqEqual
<1>. QED
  BY <1>9 DEF joined, whole, rs, g1, g2

(* Without a list nothing is given back. *)
LEMMA UndoesNothing ==
  ASSUME NEW d, NEW lo, NEW hi
  PROVE  /\ GivesInOrder(d, Give(<<>>), lo, hi)
         /\ LeftBy(Give(<<>>), lo) = lo /\ LeftBy(Give(<<>>), hi) = hi
<1>. DEFINE q == Give(<<>>)
<1>1. Len(q) = 0
  BY DEF Give
<1>. HIDE DEF q
<1>2. GivesInOrder(d, q, lo, hi)
  BY <1>1 DEF GivesInOrder
<1>3. Gone(q, Len(q) + 1) = {}
  BY <1>1, GoneNext
<1>. QED
  BY <1>2, <1>3 DEF LeftBy, q

(* A resource that nothing taken so far is missing for. *)
Rooted(d, r, base, lo) == r # "exec sem" /\ RestsOn(d, r) \subseteq base \cup lo

LEMMA RootedInOrder ==
  ASSUME NEW p, NEW k, NEW op, op = "take" \/ op = "try" \/ op = "must", NEW r, NEW undo,
         StepAt(p, k, op, r, undo), NEW own, undo \in Seq(own), r \in own,
         NEW d, NEW base, NEW lo, NEW hi, Reached(p, k, lo, hi), Rooted(d, r, base, lo)
  PROVE  TakenAt(d, base, own, p, k)
<1>1. op # "give" /\ r # "exec sem" /\ RestsOn(d, r) \subseteq base \cup lo
  BY DEF Rooted
<1>. QED
  BY <1>1, TakenInOrder

(* The semaphore rests on nothing, and the step after it is tried as well. *)
LEMMA SemaphoreInOrder ==
  ASSUME NEW p, NEW j, NEW k, Follows(j, k), NEW r, StepAt(p, j, "try", "exec sem", <<>>),
         StepAt(p, k, "try", r, <<>>), j < Len(p), NEW own, "exec sem" \in own, <<>> \in Seq(own),
                 NEW d, NEW base
  PROVE  TakenAt(d, base, own, p, j)
<1>1. p[j].op = "try" /\ p[j].what = "exec sem" /\ p[j].undo = <<>> /\ p[k].op = "try"
  BY StepFields
<1>2. RestsOn(d, "exec sem") = {}
  BY DEF RestsOn
<1>3. p[j + 1].op = "try"
  BY <1>1 DEF Follows
<1>. QED
  BY <1>1, <1>2, <1>3 DEF TakenAt

(* What has been taken in the end. *)
LEMMA TakenIs ==
  ASSUME NEW p, NEW k, Follows(Len(p), k), NEW lo, NEW hi, Reached(p, k, lo, hi)
  PROVE  Taken(p).lo = lo /\ Taken(p).hi = hi
  BY DEF Follows, Reached, Taken, Point

(* What each driver leaks. *)
LEMMA LeakedIs ==
  /\ Leaked["drm"] = {"card info", "iio", "scratch"}
  /\ Leaked["kernel"] = {}
  /\ Leaked["accelerant"] =
       {"card info", "atom context", "iio", "scratch", "exec sem", "ring queue", "mode list area"}
  BY DEF Leaked

(* A driver without probe and remove. *)
LEMMA NoProcedure ==
  ASSUME NEW d, NEW base, NEW own
  PROVE  /\ Orderly(d, base, own, <<>>, <<>>) /\ Failing(<<>>) = {}
         /\ LeftBy(<<>>, Taken(<<>>).hi) = {}
<1>. DEFINE p == <<>>
<1>1. Len(p) = 0 /\ p \in Seq(Steps) /\ 1 .. Len(p) = {}
  OBVIOUS
<1>. HIDE DEF p
<1>2. Takes(own, p) /\ Gives(own, p) /\ TakesInOrder(d, base, p) /\ Failing(p) = {}
  BY <1>1 DEF Takes, Gives, TakesInOrder, Failing
<1>3. GivesInOrder(d, p, Taken(p).lo, Taken(p).hi)
  BY <1>1 DEF GivesInOrder
<1>4. Had(p, Len(p) + 1) = {}
  BY <1>1 DEF Had
<1>5. LeftBy(p, Taken(p).hi) = {}
  BY <1>4 DEF LeftBy, Taken, Point
<1>. QED
  BY <1>2, <1>3, <1>5 DEF Orderly, p

LEMMA KernelInitTakes ==
  /\ Takes(ModuleOwn["kernel"], kernel_init)
  /\ TakesInOrder("kernel", {}, kernel_init)
<1>1. /\ <<>> \in Seq(ModuleOwn["kernel"])
      /\ err1 \in Seq(ModuleOwn["kernel"])
      /\ err2 \in Seq(ModuleOwn["kernel"])
      /\ err3 \in Seq(ModuleOwn["kernel"])
  <2>1. <<>> \in Seq(ModuleOwn["kernel"])
    OBVIOUS
  <2>. QED
    BY <2>1, KernelOwn, KernelUndo, SeqOfOne, SeqOfTwo, SeqOfThree, Zenon
<1>2. TakenAt("kernel", {}, ModuleOwn["kernel"], kernel_init, 1)
  <2>1. StepAt(kernel_init, 1, "take", "class", <<>>)
    BY KernelInitSteps, Zenon
  <2>2. Reached(kernel_init, 1, {}, {})
    BY KernelInitReached, Zenon
  <2>3. Rooted("kernel", "class", {}, {})
    BY DEF Rooted, RestsOn
  <2>4. "class" \in ModuleOwn["kernel"]
    BY KernelOwn, Zenon
  <2>. QED
    BY <2>1, <2>2, <2>3, <2>4, <1>1, RootedInOrder, Zenon
<1>3. TakenAt("kernel", {}, ModuleOwn["kernel"], kernel_init, 2)
  <2>1. StepAt(kernel_init, 2, "take", "region", err1)
    BY KernelInitSteps, Zenon
  <2>2. Reached(kernel_init, 2, {"class"}, {"class"})
    BY KernelInitReached, Zenon
  <2>3. Rooted("kernel", "region", {}, {"class"})
    BY DEF Rooted, RestsOn
  <2>4. "region" \in ModuleOwn["kernel"]
    BY KernelOwn, Zenon
  <2>. QED
    BY <2>1, <2>2, <2>3, <2>4, <1>1, RootedInOrder, Zenon
<1>4. TakenAt("kernel", {}, ModuleOwn["kernel"], kernel_init, 3)
  <2>1. StepAt(kernel_init, 3, "take", "cdev", err2)
    BY KernelInitSteps, Zenon
  <2>2. Reached(kernel_init, 3, {"class", "region"}, {"class", "region"})
    BY KernelInitReached, Zenon
  <2>3. Rooted("kernel", "cdev", {}, {"class", "region"})
    BY DEF Rooted, RestsOn
  <2>4. "cdev" \in ModuleOwn["kernel"]
    BY KernelOwn, Zenon
  <2>. QED
    BY <2>1, <2>2, <2>3, <2>4, <1>1, RootedInOrder, Zenon
<1>5. TakenAt("kernel", {}, ModuleOwn["kernel"], kernel_init, 4)
  <2>1. StepAt(kernel_init, 4, "take", "pci driver", err3)
    BY KernelInitSteps, Zenon
  <2>2. Reached(kernel_init, 4, {"class", "region", "cdev"}, {"class", "region", "cdev"})
    BY KernelInitReached, Zenon
  <2>3. Rooted("kernel", "pci driver", {}, {"class", "region", "cdev"})
    BY DEF Rooted, RestsOn
  <2>4. "pci driver" \in ModuleOwn["kernel"]
    BY KernelOwn, Zenon
  <2>. QED
    BY <2>1, <2>2, <2>3, <2>4, <1>1, RootedInOrder, Zenon
<1>6. ASSUME NEW k \in 1 .. Len(kernel_init)
      PROVE  TakenAt("kernel", {}, ModuleOwn["kernel"], kernel_init, k)
  <2>1. Len(kernel_init) = 4
    BY KernelInitSteps, Zenon
  <2>2. k = 1 \/ k = 2 \/ k = 3 \/ k = 4
    BY <2>1, <1>6
  <2>. QED
    BY <2>2, <1>2, <1>3, <1>4, <1>5, Zenon
<1>7. kernel_init \in Seq(Steps)
  BY KernelInitSteps, Zenon
<1>. QED
  BY <1>6, <1>7, Zenon DEF Takes, TakesInOrder, TakenAt

LEMMA KernelInitUndoes ==
  /\ UndoneAt("kernel", kernel_init, 1, {}, {})
  /\ UndoneAt("kernel", kernel_init, 2, {}, {})
  /\ UndoneAt("kernel", kernel_init, 3, {}, {})
  /\ UndoneAt("kernel", kernel_init, 4, {}, {})
  /\ \A k \in Failing(kernel_init) : k = 1 \/ k = 2 \/ k = 3 \/ k = 4
<1>1. UndoneAt("kernel", kernel_init, 1, {}, {})
  <2>. DEFINE lo == {}
  <2>1. StepAt(kernel_init, 1, "take", "class", <<>>) /\ Reached(kernel_init, 1, lo, lo)
    BY KernelInitSteps, KernelInitReached, Zenon
  <2>. HIDE DEF lo
  <2>2. UndoneAt("kernel", kernel_init, 1, lo, lo)
    BY <2>1, UndoesNothing, UndoneInOrder, Zenon
  <2>. QED
    BY <2>2, Zenon DEF lo
<1>2. UndoneAt("kernel", kernel_init, 2, {}, {})
  <2>. DEFINE lo     == {"class"}
               left   == {}
  <2>1. StepAt(kernel_init, 2, "take", "region", err1) /\ Reached(kernel_init, 2, lo, lo)
    BY KernelInitSteps, KernelInitReached, Zenon
  <2>2. /\ Free("kernel", "class", lo, lo, {})
    BY DEF Free, MayBeNull, RestsOn
  <2>3. lo \ {"class"} = left
    OBVIOUS
  <2>. HIDE DEF lo, left
  <2>4. GivesInOrder("kernel", Give(<<"class">>), lo, lo)
    BY <2>2, KernelOwn, ListOfOne, Zenon
  <2>5. LeftBy(Give(<<"class">>), lo) = left
    <3>1. Leaves(Give(<<"class">>), {"class"})
      BY <2>2, KernelOwn, ListOfOne, Zenon
    <3>. QED
      BY <3>1, <2>3, Zenon DEF Leaves
  <2>6. UndoneAt("kernel", kernel_init, 2, left, left)
    BY <2>1, <2>4, <2>5, KernelUndo, UndoneInOrder, Zenon
  <2>. QED
    BY <2>6, Zenon DEF left
<1>3. UndoneAt("kernel", kernel_init, 3, {}, {})
  <2>. DEFINE lo     == {"class", "region"}
               left   == {}
  <2>1. StepAt(kernel_init, 3, "take", "cdev", err2) /\ Reached(kernel_init, 3, lo, lo)
    BY KernelInitSteps, KernelInitReached, Zenon
  <2>2. /\ Free("kernel", "region", lo, lo, {})
        /\ Free("kernel", "class", lo, lo, {"region"})
    BY DEF Free, MayBeNull, RestsOn
  <2>3. lo \ {"region", "class"} = left
    OBVIOUS
  <2>. HIDE DEF lo, left
  <2>4. GivesInOrder("kernel", Give(<<"region", "class">>), lo, lo)
    BY <2>2, KernelOwn, ListOfTwo, Zenon
  <2>5. LeftBy(Give(<<"region", "class">>), lo) = left
    <3>1. Leaves(Give(<<"region", "class">>), {"region", "class"})
      BY <2>2, KernelOwn, ListOfTwo, Zenon
    <3>. QED
      BY <3>1, <2>3, Zenon DEF Leaves
  <2>6. UndoneAt("kernel", kernel_init, 3, left, left)
    BY <2>1, <2>4, <2>5, KernelUndo, UndoneInOrder, Zenon
  <2>. QED
    BY <2>6, Zenon DEF left
<1>4. UndoneAt("kernel", kernel_init, 4, {}, {})
  <2>. DEFINE lo     == {"class", "region", "cdev"}
               left   == {}
  <2>1. StepAt(kernel_init, 4, "take", "pci driver", err3) /\ Reached(kernel_init, 4, lo, lo)
    BY KernelInitSteps, KernelInitReached, Zenon
  <2>2. /\ Free("kernel", "cdev", lo, lo, {})
        /\ Free("kernel", "region", lo, lo, {"cdev"})
        /\ Free("kernel", "class", lo, lo, {"cdev", "region"})
    BY DEF Free, MayBeNull, RestsOn
  <2>3. lo \ {"cdev", "region", "class"} = left
    OBVIOUS
  <2>. HIDE DEF lo, left
  <2>4. GivesInOrder("kernel", Give(<<"cdev", "region", "class">>), lo, lo)
    BY <2>2, KernelOwn, ListOfThree, Zenon
  <2>5. LeftBy(Give(<<"cdev", "region", "class">>), lo) = left
    <3>1. Leaves(Give(<<"cdev", "region", "class">>), {"cdev", "region", "class"})
      BY <2>2, KernelOwn, ListOfThree, Zenon
    <3>. QED
      BY <3>1, <2>3, Zenon DEF Leaves
  <2>6. UndoneAt("kernel", kernel_init, 4, left, left)
    BY <2>1, <2>4, <2>5, KernelUndo, UndoneInOrder, Zenon
  <2>. QED
    BY <2>6, Zenon DEF left
<1>5. ASSUME NEW k \in Failing(kernel_init)
      PROVE  k = 1 \/ k = 2 \/ k = 3 \/ k = 4
  <2>1. k \in 1 .. 4
    BY <1>5, KernelInitSteps DEF Failing
  <2>. QED
    BY <2>1
<1>. QED
  BY <1>1, <1>2, <1>3, <1>4, <1>5, Zenon

(* mydrm_exit() gives back all of it. *)
LEMMA KernelExitGives ==
  /\ Gives(ModuleOwn["kernel"], kernel_exit)
  /\ GivesInOrder("kernel", kernel_exit, Taken(kernel_init).lo, Taken(kernel_init).hi)
  /\ Taken(kernel_init).hi = {"class", "region", "cdev", "pci driver"}
  /\ LeftBy(kernel_exit, Taken(kernel_init).hi) = {}
<1>1. kernel_exit = Give(<<"pci driver", "cdev", "region", "class">>)
  BY DEF kernel_exit
<1>. DEFINE lo   == {"class", "region", "cdev", "pci driver"}
            left == {}
<1>2. Taken(kernel_init).lo = lo /\ Taken(kernel_init).hi = lo
  <2>1. Follows(Len(kernel_init), 5)
    BY KernelInitSteps, Counted, Zenon
  <2>2. Reached(kernel_init, 5, lo, lo)
    BY KernelInitReached, Zenon
  <2>. HIDE DEF lo
  <2>. QED
    BY <2>1, <2>2, TakenIs, Zenon
<1>3. /\ Free("kernel", "pci driver", lo, lo, {})
      /\ Free("kernel", "cdev", lo, lo, {"pci driver"})
      /\ Free("kernel", "region", lo, lo, {"pci driver", "cdev"})
      /\ Free("kernel", "class", lo, lo, {"pci driver", "cdev", "region"})
  BY DEF Free, MayBeNull, RestsOn
<1>4. lo \ {"pci driver", "cdev", "region", "class"} = left
  OBVIOUS
<1>. HIDE DEF lo, left
<1>5. <<"pci driver", "cdev", "region", "class">> \in Seq(ModuleOwn["kernel"])
  BY KernelOwn, <1>3, ListOfFour, Zenon
<1>6. GivesInOrder("kernel", Give(<<"pci driver", "cdev", "region", "class">>), lo, lo)
  BY KernelOwn, <1>3, ListOfFour, Zenon
<1>7. LeftBy(Give(<<"pci driver", "cdev", "region", "class">>), lo) = left
  <2>1. Leaves(Give(<<"pci driver", "cdev", "region", "class">>), {"pci driver", "cdev",
                "region", "class"})
    BY KernelOwn, <1>3, ListOfFour, Zenon
  <2>. QED
    BY <2>1, <1>4, Zenon DEF Leaves
<1>8. Gives(ModuleOwn["kernel"], kernel_exit)
  BY <1>1, <1>5, KernelOwn, GiveIsProcedure, Zenon
<1>. QED
  BY <1>1, <1>2, <1>6, <1>7, <1>8, Zenon DEF lo, left

(* Both together, and what is left by a failure and by the exit. *)
LEMMA KernelInitOrderly == Orderly("kernel", {}, ModuleOwn["kernel"], kernel_init, kernel_exit)
<1>1. ASSUME NEW k \in Failing(kernel_init)
      PROVE  GivesInOrder("kernel", Give(kernel_init[k].undo), Took(kernel_init, k),
              Had(kernel_init, k))
  <2>1. k = 1 \/ k = 2 \/ k = 3 \/ k = 4
    BY <1>1, KernelInitUndoes, Zenon
  <2>2. /\ GivesInOrder("kernel", Give(kernel_init[1].undo), Took(kernel_init, 1),
          Had(kernel_init, 1))
        /\ GivesInOrder("kernel", Give(kernel_init[2].undo), Took(kernel_init, 2),
                Had(kernel_init, 2))
        /\ GivesInOrder("kernel", Give(kernel_init[3].undo), Took(kernel_init, 3),
                Had(kernel_init, 3))
        /\ GivesInOrder("kernel", Give(kernel_init[4].undo), Took(kernel_init, 4),
                Had(kernel_init, 4))
    BY KernelInitUndoes, Zenon DEF UndoneAt
  <2>. QED
    BY <2>1, <2>2, Zenon
<1>. QED
  BY <1>1, KernelInitTakes, KernelExitGives, Zenon DEF Orderly

LEMMA KernelInitClean ==
  /\ LeftBy(kernel_exit, Taken(kernel_init).hi) \subseteq Leaked["kernel"]
  /\ \A k \in Failing(kernel_init) : LeftBy(Give(kernel_init[k].undo), Had(kernel_init, k))
           \subseteq Leaked["kernel"]
<1>1. LeftBy(kernel_exit, Taken(kernel_init).hi) \subseteq Leaked["kernel"]
  BY KernelExitGives, LeakedIs
<1>2. ASSUME NEW k \in Failing(kernel_init)
      PROVE  LeftBy(Give(kernel_init[k].undo), Had(kernel_init, k)) \subseteq Leaked["kernel"]
  <2>1. k = 1 \/ k = 2 \/ k = 3 \/ k = 4
    BY <1>2, KernelInitUndoes, Zenon
  <2>2. /\ LeftBy(Give(kernel_init[1].undo), Had(kernel_init, 1)) = {}
        /\ LeftBy(Give(kernel_init[2].undo), Had(kernel_init, 2)) = {}
        /\ LeftBy(Give(kernel_init[3].undo), Had(kernel_init, 3)) = {}
        /\ LeftBy(Give(kernel_init[4].undo), Had(kernel_init, 4)) = {}
    BY KernelInitUndoes, Zenon DEF UndoneAt
  <2>3. /\ {} \subseteq Leaked["kernel"]
    BY LeakedIs
  <2>. QED
    BY <2>1, <2>2, <2>3, Zenon
<1>. QED
  BY <1>1, <1>2

(* The same for its probe and remove. *)
LEMMA KernelCardOwn ==
  /\ "device" \in CardOwn["kernel"]
  /\ CardOwn["kernel"] \in SUBSET Resources
  BY OwnResources DEF CardOwn, ModuleOwn, Resources, Drivers

LEMMA KernelProbeSteps ==
  /\ kernel_probe \in Seq(Steps) /\ Len(kernel_probe) = 1
  /\ StepAt(kernel_probe, 1, "take", "device", <<>>)
<1>. DEFINE procedure ==
              << SetupStep("take", "device", <<>>) >>
<1>1. kernel_probe = procedure
  BY DEF kernel_probe, Take
<1>2. /\ <<>> \in Seq(Resources)
  OBVIOUS
<1>3. "device" \in Resources \cup {""}
  BY DEF Resources
<1>4. /\ SetupStep("take", "device", <<>>) \in Steps
  BY <1>2, <1>3, StepIsStep
<1>5. kernel_probe \in Seq(Steps)
  BY <1>1, <1>4, SeqOfOne
<1>6. Len(kernel_probe) = 1
  BY <1>1
<1>7. /\ kernel_probe[1] = SetupStep("take", "device", <<>>)
  BY <1>1
<1>. QED
  BY <1>5, <1>6, <1>7 DEF StepAt

LEMMA KernelProbeReached ==
  /\ Reached(kernel_probe, 1, {}, {})
  /\ Reached(kernel_probe, 2, {"device"}, {"device"})
<1>. DEFINE had0 == {}
            had1 == {"device"}
<1>1. /\ Joins(had1, had0, "device")
  BY DEF Joins
<1>2. Reached(kernel_probe, 1, had0, had0)
  BY Outset
<1>. HIDE DEF had0, had1
<1>3. Reached(kernel_probe, 2, had1, had1)
  <2>1. StepAt(kernel_probe, 1, "take", "device", <<>>) /\ Follows(1, 2)
    BY KernelProbeSteps, Counted, Zenon
  <2>2. Joins(had1, had0, "device")
    BY <1>1, Zenon
  <2>. QED
    BY <2>1, <2>2, <1>2, TakeAt, Zenon
<1>. QED
  BY <1>2, <1>3, Zenon DEF had0, had1

LEMMA KernelProbeTakes ==
  /\ Takes(CardOwn["kernel"], kernel_probe)
  /\ TakesInOrder("kernel", {"class", "region", "cdev", "pci driver"}, kernel_probe)
<1>1. /\ <<>> \in Seq(CardOwn["kernel"])
  OBVIOUS
<1>2. TakenAt("kernel", {"class", "region", "cdev",
              "pci driver"}, CardOwn["kernel"], kernel_probe, 1)
  <2>1. StepAt(kernel_probe, 1, "take", "device", <<>>)
    BY KernelProbeSteps, Zenon
  <2>2. Reached(kernel_probe, 1, {}, {})
    BY KernelProbeReached, Zenon
  <2>3. Rooted("kernel", "device", {"class", "region", "cdev", "pci driver"}, {})
    BY DEF Rooted, RestsOn
  <2>4. "device" \in CardOwn["kernel"]
    BY KernelCardOwn, Zenon
  <2>. QED
    BY <2>1, <2>2, <2>3, <2>4, <1>1, RootedInOrder, Zenon
<1>3. ASSUME NEW k \in 1 .. Len(kernel_probe)
      PROVE  TakenAt("kernel", {"class", "region", "cdev",
                    "pci driver"}, CardOwn["kernel"], kernel_probe, k)
  <2>1. Len(kernel_probe) = 1
    BY KernelProbeSteps, Zenon
  <2>2. k = 1
    BY <2>1, <1>3
  <2>. QED
    BY <2>2, <1>2, Zenon
<1>4. kernel_probe \in Seq(Steps)
  BY KernelProbeSteps, Zenon
<1>. QED
  BY <1>3, <1>4, Zenon DEF Takes, TakesInOrder, TakenAt

LEMMA KernelProbeUndoes ==
  /\ UndoneAt("kernel", kernel_probe, 1, {}, {})
  /\ \A k \in Failing(kernel_probe) : k = 1
<1>1. UndoneAt("kernel", kernel_probe, 1, {}, {})
  <2>. DEFINE lo == {}
  <2>1. StepAt(kernel_probe, 1, "take", "device", <<>>) /\ Reached(kernel_probe, 1, lo, lo)
    BY KernelProbeSteps, KernelProbeReached, Zenon
  <2>. HIDE DEF lo
  <2>2. UndoneAt("kernel", kernel_probe, 1, lo, lo)
    BY <2>1, UndoesNothing, UndoneInOrder, Zenon
  <2>. QED
    BY <2>2, Zenon DEF lo
<1>2. ASSUME NEW k \in Failing(kernel_probe)
      PROVE  k = 1
  <2>1. k \in 1 .. 1
    BY <1>2, KernelProbeSteps DEF Failing
  <2>. QED
    BY <2>1
<1>. QED
  BY <1>1, <1>2, Zenon

(* Its remove gives back the device. *)
LEMMA KernelRemoveGives ==
  /\ Gives(CardOwn["kernel"], kernel_remove)
  /\ GivesInOrder("kernel", kernel_remove, Taken(kernel_probe).lo, Taken(kernel_probe).hi)
  /\ Taken(kernel_probe).hi = {"device"}
  /\ LeftBy(kernel_remove, Taken(kernel_probe).hi) = {}
<1>1. kernel_remove = Give(<<"device">>)
  BY DEF kernel_remove
<1>. DEFINE lo   == {"device"}
            left == {}
<1>2. Taken(kernel_probe).lo = lo /\ Taken(kernel_probe).hi = lo
  <2>1. Follows(Len(kernel_probe), 2)
    BY KernelProbeSteps, Counted, Zenon
  <2>2. Reached(kernel_probe, 2, lo, lo)
    BY KernelProbeReached, Zenon
  <2>. HIDE DEF lo
  <2>. QED
    BY <2>1, <2>2, TakenIs, Zenon
<1>3. /\ Free("kernel", "device", lo, lo, {})
  BY DEF Free, MayBeNull, RestsOn
<1>4. lo \ {"device"} = left
  OBVIOUS
<1>. HIDE DEF lo, left
<1>5. <<"device">> \in Seq(CardOwn["kernel"])
  BY KernelCardOwn, <1>3, ListOfOne, Zenon
<1>6. GivesInOrder("kernel", Give(<<"device">>), lo, lo)
  BY KernelCardOwn, <1>3, ListOfOne, Zenon
<1>7. LeftBy(Give(<<"device">>), lo) = left
  <2>1. Leaves(Give(<<"device">>), {"device"})
    BY KernelCardOwn, <1>3, ListOfOne, Zenon
  <2>. QED
    BY <2>1, <1>4, Zenon DEF Leaves
<1>8. Gives(CardOwn["kernel"], kernel_remove)
  BY <1>1, <1>5, KernelCardOwn, GiveIsProcedure, Zenon
<1>. QED
  BY <1>1, <1>2, <1>6, <1>7, <1>8, Zenon DEF lo, left

LEMMA KernelProbeOrderly == Orderly("kernel", {"class", "region", "cdev",
              "pci driver"}, CardOwn["kernel"], kernel_probe, kernel_remove)
<1>1. ASSUME NEW k \in Failing(kernel_probe)
      PROVE  GivesInOrder("kernel", Give(kernel_probe[k].undo), Took(kernel_probe, k),
              Had(kernel_probe, k))
  <2>1. k = 1
    BY <1>1, KernelProbeUndoes, Zenon
  <2>2. /\ GivesInOrder("kernel", Give(kernel_probe[1].undo), Took(kernel_probe, 1),
          Had(kernel_probe, 1))
    BY KernelProbeUndoes, Zenon DEF UndoneAt
  <2>. QED
    BY <2>1, <2>2, Zenon
<1>. QED
  BY <1>1, KernelProbeTakes, KernelRemoveGives, Zenon DEF Orderly

LEMMA KernelProbeClean ==
  /\ LeftBy(kernel_remove, Taken(kernel_probe).hi) \subseteq Leaked["kernel"]
  /\ \A k \in Failing(kernel_probe) : LeftBy(Give(kernel_probe[k].undo), Had(kernel_probe, k))
           \subseteq Leaked["kernel"]
<1>1. LeftBy(kernel_remove, Taken(kernel_probe).hi) \subseteq Leaked["kernel"]
  BY KernelRemoveGives, LeakedIs
<1>2. ASSUME NEW k \in Failing(kernel_probe)
      PROVE  LeftBy(Give(kernel_probe[k].undo), Had(kernel_probe, k)) \subseteq Leaked["kernel"]
  <2>1. k = 1
    BY <1>2, KernelProbeUndoes, Zenon
  <2>2. /\ LeftBy(Give(kernel_probe[1].undo), Had(kernel_probe, 1)) = {}
    BY KernelProbeUndoes, Zenon DEF UndoneAt
  <2>3. /\ {} \subseteq Leaked["kernel"]
    BY LeakedIs
  <2>. QED
    BY <2>1, <2>2, <2>3, Zenon
<1>. QED
  BY <1>1, <1>2

(* The same for the Linux driver's module, which only registers itself. *)
LEMMA DrmOwn ==
  /\ "pci driver" \in ModuleOwn["drm"]
  /\ ModuleOwn["drm"] \in SUBSET Resources
  BY OwnResources DEF CardOwn, ModuleOwn, Resources, Drivers

LEMMA DrmInitSteps ==
  /\ drm_init \in Seq(Steps) /\ Len(drm_init) = 1
  /\ StepAt(drm_init, 1, "take", "pci driver", <<>>)
<1>. DEFINE procedure ==
              << SetupStep("take", "pci driver", <<>>) >>
<1>1. drm_init = procedure
  BY DEF drm_init, Take
<1>2. /\ <<>> \in Seq(Resources)
  OBVIOUS
<1>3. "pci driver" \in Resources \cup {""}
  BY DEF Resources
<1>4. /\ SetupStep("take", "pci driver", <<>>) \in Steps
  BY <1>2, <1>3, StepIsStep
<1>5. drm_init \in Seq(Steps)
  BY <1>1, <1>4, SeqOfOne
<1>6. Len(drm_init) = 1
  BY <1>1
<1>7. /\ drm_init[1] = SetupStep("take", "pci driver", <<>>)
  BY <1>1
<1>. QED
  BY <1>5, <1>6, <1>7 DEF StepAt

LEMMA DrmInitReached ==
  /\ Reached(drm_init, 1, {}, {})
  /\ Reached(drm_init, 2, {"pci driver"}, {"pci driver"})
<1>. DEFINE had0 == {}
            had1 == {"pci driver"}
<1>1. /\ Joins(had1, had0, "pci driver")
  BY DEF Joins
<1>2. Reached(drm_init, 1, had0, had0)
  BY Outset
<1>. HIDE DEF had0, had1
<1>3. Reached(drm_init, 2, had1, had1)
  <2>1. StepAt(drm_init, 1, "take", "pci driver", <<>>) /\ Follows(1, 2)
    BY DrmInitSteps, Counted, Zenon
  <2>2. Joins(had1, had0, "pci driver")
    BY <1>1, Zenon
  <2>. QED
    BY <2>1, <2>2, <1>2, TakeAt, Zenon
<1>. QED
  BY <1>2, <1>3, Zenon DEF had0, had1

LEMMA DrmInitTakes ==
  /\ Takes(ModuleOwn["drm"], drm_init)
  /\ TakesInOrder("drm", {}, drm_init)
<1>1. /\ <<>> \in Seq(ModuleOwn["drm"])
  OBVIOUS
<1>2. TakenAt("drm", {}, ModuleOwn["drm"], drm_init, 1)
  <2>1. StepAt(drm_init, 1, "take", "pci driver", <<>>)
    BY DrmInitSteps, Zenon
  <2>2. Reached(drm_init, 1, {}, {})
    BY DrmInitReached, Zenon
  <2>3. Rooted("drm", "pci driver", {}, {})
    BY DEF Rooted, RestsOn
  <2>4. "pci driver" \in ModuleOwn["drm"]
    BY DrmOwn, Zenon
  <2>. QED
    BY <2>1, <2>2, <2>3, <2>4, <1>1, RootedInOrder, Zenon
<1>3. ASSUME NEW k \in 1 .. Len(drm_init)
      PROVE  TakenAt("drm", {}, ModuleOwn["drm"], drm_init, k)
  <2>1. Len(drm_init) = 1
    BY DrmInitSteps, Zenon
  <2>2. k = 1
    BY <2>1, <1>3
  <2>. QED
    BY <2>2, <1>2, Zenon
<1>4. drm_init \in Seq(Steps)
  BY DrmInitSteps, Zenon
<1>. QED
  BY <1>3, <1>4, Zenon DEF Takes, TakesInOrder, TakenAt

LEMMA DrmInitUndoes ==
  /\ UndoneAt("drm", drm_init, 1, {}, {})
  /\ \A k \in Failing(drm_init) : k = 1
<1>1. UndoneAt("drm", drm_init, 1, {}, {})
  <2>. DEFINE lo == {}
  <2>1. StepAt(drm_init, 1, "take", "pci driver", <<>>) /\ Reached(drm_init, 1, lo, lo)
    BY DrmInitSteps, DrmInitReached, Zenon
  <2>. HIDE DEF lo
  <2>2. UndoneAt("drm", drm_init, 1, lo, lo)
    BY <2>1, UndoesNothing, UndoneInOrder, Zenon
  <2>. QED
    BY <2>2, Zenon DEF lo
<1>2. ASSUME NEW k \in Failing(drm_init)
      PROVE  k = 1
  <2>1. k \in 1 .. 1
    BY <1>2, DrmInitSteps DEF Failing
  <2>. QED
    BY <2>1
<1>. QED
  BY <1>1, <1>2, Zenon

(* Its exit takes that back. *)
LEMMA DrmExitGives ==
  /\ Gives(ModuleOwn["drm"], drm_exit)
  /\ GivesInOrder("drm", drm_exit, Taken(drm_init).lo, Taken(drm_init).hi)
  /\ Taken(drm_init).hi = {"pci driver"}
  /\ LeftBy(drm_exit, Taken(drm_init).hi) = {}
<1>1. drm_exit = Give(<<"pci driver">>)
  BY DEF drm_exit
<1>. DEFINE lo   == {"pci driver"}
            left == {}
<1>2. Taken(drm_init).lo = lo /\ Taken(drm_init).hi = lo
  <2>1. Follows(Len(drm_init), 2)
    BY DrmInitSteps, Counted, Zenon
  <2>2. Reached(drm_init, 2, lo, lo)
    BY DrmInitReached, Zenon
  <2>. HIDE DEF lo
  <2>. QED
    BY <2>1, <2>2, TakenIs, Zenon
<1>3. /\ Free("drm", "pci driver", lo, lo, {})
  BY DEF Free, MayBeNull, RestsOn
<1>4. lo \ {"pci driver"} = left
  OBVIOUS
<1>. HIDE DEF lo, left
<1>5. <<"pci driver">> \in Seq(ModuleOwn["drm"])
  BY DrmOwn, <1>3, ListOfOne, Zenon
<1>6. GivesInOrder("drm", Give(<<"pci driver">>), lo, lo)
  BY DrmOwn, <1>3, ListOfOne, Zenon
<1>7. LeftBy(Give(<<"pci driver">>), lo) = left
  <2>1. Leaves(Give(<<"pci driver">>), {"pci driver"})
    BY DrmOwn, <1>3, ListOfOne, Zenon
  <2>. QED
    BY <2>1, <1>4, Zenon DEF Leaves
<1>8. Gives(ModuleOwn["drm"], drm_exit)
  BY <1>1, <1>5, DrmOwn, GiveIsProcedure, Zenon
<1>. QED
  BY <1>1, <1>2, <1>6, <1>7, <1>8, Zenon DEF lo, left

LEMMA DrmInitOrderly == Orderly("drm", {}, ModuleOwn["drm"], drm_init, drm_exit)
<1>1. ASSUME NEW k \in Failing(drm_init)
      PROVE  GivesInOrder("drm", Give(drm_init[k].undo), Took(drm_init, k), Had(drm_init, k))
  <2>1. k = 1
    BY <1>1, DrmInitUndoes, Zenon
  <2>2. /\ GivesInOrder("drm", Give(drm_init[1].undo), Took(drm_init, 1), Had(drm_init, 1))
    BY DrmInitUndoes, Zenon DEF UndoneAt
  <2>. QED
    BY <2>1, <2>2, Zenon
<1>. QED
  BY <1>1, DrmInitTakes, DrmExitGives, Zenon DEF Orderly

LEMMA DrmInitClean ==
  /\ LeftBy(drm_exit, Taken(drm_init).hi) \subseteq Leaked["drm"]
  /\ \A k \in Failing(drm_init) : LeftBy(Give(drm_init[k].undo), Had(drm_init, k)) \subseteq
          Leaked["drm"]
<1>1. LeftBy(drm_exit, Taken(drm_init).hi) \subseteq Leaked["drm"]
  BY DrmExitGives, LeakedIs
<1>2. ASSUME NEW k \in Failing(drm_init)
      PROVE  LeftBy(Give(drm_init[k].undo), Had(drm_init, k)) \subseteq Leaked["drm"]
  <2>1. k = 1
    BY <1>2, DrmInitUndoes, Zenon
  <2>2. /\ LeftBy(Give(drm_init[1].undo), Had(drm_init, 1)) = {}
    BY DrmInitUndoes, Zenon DEF UndoneAt
  <2>3. /\ {} \subseteq Leaked["drm"]
    BY LeakedIs
  <2>. QED
    BY <2>1, <2>2, <2>3, Zenon
<1>. QED
  BY <1>1, <1>2

(* The same for probe and remove of the Linux driver: the labels of its     *)
(* error path.                                                              *)
LEMMA DrmUndo ==
  /\ drm_err1 = <<"rom">>
  /\ drm_err2 = <<"mmio", "rom">>
  /\ drm_err3 = <<"card info", "atom context", "mmio", "rom">>
<1>1. drm_err1 = <<"rom">>
  BY DEF drm_err1
<1>2. drm_err2 = <<"mmio", "rom">>
  BY <1>1, OneAndOne DEF drm_err2
<1>3. drm_err3 = <<"card info", "atom context", "mmio", "rom">>
  BY <1>2, TwoAndTwo DEF drm_err3
<1>. QED
  BY <1>1, <1>2, <1>3, Zenon

LEMMA DrmProbeSteps ==
  /\ drm_probe \in Seq(Steps) /\ Len(drm_probe) = 8
  /\ StepAt(drm_probe, 1, "take", "rom", <<>>)
  /\ StepAt(drm_probe, 2, "take", "mmio", drm_err1)
  /\ StepAt(drm_probe, 3, "take", "card info", drm_err2)
  /\ StepAt(drm_probe, 4, "take", "atom context", drm_err2)
  /\ StepAt(drm_probe, 5, "try", "iio", <<>>)
  /\ StepAt(drm_probe, 6, "try", "scratch", <<>>)
  /\ StepAt(drm_probe, 7, "check", "", drm_err3)
  /\ StepAt(drm_probe, 8, "try", "fb", <<>>)
<1>. DEFINE procedure ==
              << SetupStep("take", "rom", <<>>),
                 SetupStep("take", "mmio", drm_err1),
                 SetupStep("take", "card info", drm_err2),
                 SetupStep("take", "atom context", drm_err2),
                 SetupStep("try", "iio", <<>>),
                 SetupStep("try", "scratch", <<>>),
                 SetupStep("check", "", drm_err3),
                 SetupStep("try", "fb", <<>>) >>
<1>1. drm_probe = procedure
  BY DEF drm_probe, Take, Try, Check
<1>2. /\ <<>> \in Seq(Resources)
      /\ drm_err1 \in Seq(Resources)
      /\ drm_err2 \in Seq(Resources)
      /\ drm_err3 \in Seq(Resources)
  <2>1. /\ "rom" \in Resources /\ "mmio" \in Resources /\ "card info" \in Resources
        /\ "atom context" \in Resources
    BY DEF Resources
  <2>2. <<>> \in Seq(Resources)
    OBVIOUS
  <2>3. drm_err1 \in Seq(Resources)
    BY <2>1, DrmUndo, SeqOfOne
  <2>4. drm_err2 \in Seq(Resources)
    BY <2>1, DrmUndo, SeqOfTwo
  <2>5. drm_err3 \in Seq(Resources)
    BY <2>1, DrmUndo, SeqOfFour
  <2>. QED
    BY <2>2, <2>3, <2>4, <2>5
<1>3. "rom" \in Resources \cup {""} /\ "mmio" \in Resources \cup {""} /\
      "card info" \in Resources \cup {""} /\ "atom context" \in Resources \cup {""} /\
      "iio" \in Resources \cup {""} /\ "scratch" \in Resources \cup {""} /\
      "" \in Resources \cup {""} /\ "fb" \in Resources \cup {""}
  BY DEF Resources
<1>4. /\ SetupStep("take", "rom", <<>>) \in Steps
      /\ SetupStep("take", "mmio", drm_err1) \in Steps
      /\ SetupStep("take", "card info", drm_err2) \in Steps
      /\ SetupStep("take", "atom context", drm_err2) \in Steps
      /\ SetupStep("try", "iio", <<>>) \in Steps
      /\ SetupStep("try", "scratch", <<>>) \in Steps
      /\ SetupStep("check", "", drm_err3) \in Steps
      /\ SetupStep("try", "fb", <<>>) \in Steps
  BY <1>2, <1>3, StepIsStep
<1>5. drm_probe \in Seq(Steps)
  BY <1>1, <1>4, SeqOfEight
<1>6. Len(drm_probe) = 8
  BY <1>1
<1>7. /\ drm_probe[1] = SetupStep("take", "rom", <<>>)
      /\ drm_probe[2] = SetupStep("take", "mmio", drm_err1)
      /\ drm_probe[3] = SetupStep("take", "card info", drm_err2)
      /\ drm_probe[4] = SetupStep("take", "atom context", drm_err2)
      /\ drm_probe[5] = SetupStep("try", "iio", <<>>)
      /\ drm_probe[6] = SetupStep("try", "scratch", <<>>)
      /\ drm_probe[7] = SetupStep("check", "", drm_err3)
      /\ drm_probe[8] = SetupStep("try", "fb", <<>>)
  BY <1>1
<1>. QED
  BY <1>5, <1>6, <1>7 DEF StepAt

LEMMA DrmProbeReached ==
  /\ Reached(drm_probe, 1, {}, {})
  /\ Reached(drm_probe, 2, {"rom"}, {"rom"})
  /\ Reached(drm_probe, 3, {"rom", "mmio"}, {"rom", "mmio"})
  /\ Reached(drm_probe, 4, {"rom", "mmio", "card info"}, {"rom", "mmio", "card info"})
  /\ Reached(drm_probe, 5, {"rom", "mmio", "card info", "atom context"}, {"rom", "mmio",
                "card info", "atom context"})
  /\ Reached(drm_probe, 6, {"rom", "mmio", "card info", "atom context"}, {"rom", "mmio",
                "card info", "atom context", "iio"})
  /\ Reached(drm_probe, 7, {"rom", "mmio", "card info", "atom context"}, {"rom", "mmio",
                "card info", "atom context", "iio", "scratch"})
  /\ Reached(drm_probe, 8, {"rom", "mmio", "card info", "atom context"}, {"rom", "mmio",
                "card info", "atom context", "iio", "scratch"})
  /\ Reached(drm_probe, 9, {"rom", "mmio", "card info", "atom context"}, {"rom", "mmio",
                "card info", "atom context", "iio", "scratch", "fb"})
<1>. DEFINE had0 == {}
            had1 == {"rom"}
            had2 == {"rom", "mmio"}
            had3 == {"rom", "mmio", "card info"}
            had4 == {"rom", "mmio", "card info", "atom context"}
            had5 == {"rom", "mmio", "card info", "atom context", "iio"}
            had6 == {"rom", "mmio", "card info", "atom context", "iio", "scratch"}
            had7 == {"rom", "mmio", "card info", "atom context", "iio", "scratch", "fb"}
<1>1. /\ Joins(had1, had0, "rom")
      /\ Joins(had2, had1, "mmio")
      /\ Joins(had3, had2, "card info")
      /\ Joins(had4, had3, "atom context")
      /\ Joins(had5, had4, "iio")
      /\ Joins(had6, had5, "scratch")
      /\ Joins(had7, had6, "fb")
  BY DEF Joins
<1>2. Reached(drm_probe, 1, had0, had0)
  BY Outset
<1>. HIDE DEF had0, had1, had2, had3, had4, had5, had6, had7
<1>3. Reached(drm_probe, 2, had1, had1)
  <2>1. StepAt(drm_probe, 1, "take", "rom", <<>>) /\ Follows(1, 2)
    BY DrmProbeSteps, Counted, Zenon
  <2>2. Joins(had1, had0, "rom")
    BY <1>1, Zenon
  <2>. QED
    BY <2>1, <2>2, <1>2, TakeAt, Zenon
<1>4. Reached(drm_probe, 3, had2, had2)
  <2>1. StepAt(drm_probe, 2, "take", "mmio", drm_err1) /\ Follows(2, 3)
    BY DrmProbeSteps, Counted, Zenon
  <2>2. Joins(had2, had1, "mmio")
    BY <1>1, Zenon
  <2>. QED
    BY <2>1, <2>2, <1>3, TakeAt, Zenon
<1>5. Reached(drm_probe, 4, had3, had3)
  <2>1. StepAt(drm_probe, 3, "take", "card info", drm_err2) /\ Follows(3, 4)
    BY DrmProbeSteps, Counted, Zenon
  <2>2. Joins(had3, had2, "card info")
    BY <1>1, Zenon
  <2>. QED
    BY <2>1, <2>2, <1>4, TakeAt, Zenon
<1>6. Reached(drm_probe, 5, had4, had4)
  <2>1. StepAt(drm_probe, 4, "take", "atom context", drm_err2) /\ Follows(4, 5)
    BY DrmProbeSteps, Counted, Zenon
  <2>2. Joins(had4, had3, "atom context")
    BY <1>1, Zenon
  <2>. QED
    BY <2>1, <2>2, <1>5, TakeAt, Zenon
<1>7. Reached(drm_probe, 6, had4, had5)
  <2>1. StepAt(drm_probe, 5, "try", "iio", <<>>) /\ Follows(5, 6)
    BY DrmProbeSteps, Counted, Zenon
  <2>2. Joins(had5, had4, "iio")
    BY <1>1, Zenon
  <2>. QED
    BY <2>1, <2>2, <1>6, TryAt, Zenon
<1>8. Reached(drm_probe, 7, had4, had6)
  <2>1. StepAt(drm_probe, 6, "try", "scratch", <<>>) /\ Follows(6, 7)
    BY DrmProbeSteps, Counted, Zenon
  <2>2. Joins(had6, had5, "scratch")
    BY <1>1, Zenon
  <2>. QED
    BY <2>1, <2>2, <1>7, TryAt, Zenon
<1>9. Reached(drm_probe, 8, had4, had6)
  <2>1. StepAt(drm_probe, 7, "check", "", drm_err3) /\ Follows(7, 8)
    BY DrmProbeSteps, Counted, Zenon
  <2>. QED
    BY <2>1, <1>8, CheckAt, Zenon
<1>10. Reached(drm_probe, 9, had4, had7)
  <2>1. StepAt(drm_probe, 8, "try", "fb", <<>>) /\ Follows(8, 9)
    BY DrmProbeSteps, Counted, Zenon
  <2>2. Joins(had7, had6, "fb")
    BY <1>1, Zenon
  <2>. QED
    BY <2>1, <2>2, <1>9, TryAt, Zenon
<1>. QED
  BY <1>2, <1>3, <1>4, <1>5, <1>6, <1>7, <1>8, <1>9, <1>10, Zenon DEF had0, had1, had2, had3,
     had4, had5, had6, had7

(* What it takes is the card's. *)
LEMMA DrmCardOwn ==
  /\ "rom" \in CardOwn["drm"] /\ "mmio" \in CardOwn["drm"] /\ "card info" \in CardOwn["drm"] /\
     "atom context" \in CardOwn["drm"] /\ "iio" \in CardOwn["drm"] /\ "scratch" \in CardOwn["drm"]
     /\ "fb" \in CardOwn["drm"]
  /\ CardOwn["drm"] \in SUBSET Resources
  BY OwnResources DEF CardOwn, ModuleOwn, Resources, Drivers

LEMMA DrmProbeTakes ==
  /\ Takes(CardOwn["drm"], drm_probe)
  /\ TakesInOrder("drm", {}, drm_probe)
<1>1. /\ <<>> \in Seq(CardOwn["drm"])
      /\ drm_err1 \in Seq(CardOwn["drm"])
      /\ drm_err2 \in Seq(CardOwn["drm"])
      /\ drm_err3 \in Seq(CardOwn["drm"])
  <2>1. <<>> \in Seq(CardOwn["drm"])
    OBVIOUS
  <2>. QED
    BY <2>1, DrmCardOwn, DrmUndo, SeqOfOne, SeqOfTwo, SeqOfFour, Zenon
<1>2. TakenAt("drm", {}, CardOwn["drm"], drm_probe, 1)
  <2>1. StepAt(drm_probe, 1, "take", "rom", <<>>)
    BY DrmProbeSteps, Zenon
  <2>2. Reached(drm_probe, 1, {}, {})
    BY DrmProbeReached, Zenon
  <2>3. Rooted("drm", "rom", {}, {})
    BY DEF Rooted, RestsOn
  <2>4. "rom" \in CardOwn["drm"]
    BY DrmCardOwn, Zenon
  <2>. QED
    BY <2>1, <2>2, <2>3, <2>4, <1>1, RootedInOrder, Zenon
<1>3. TakenAt("drm", {}, CardOwn["drm"], drm_probe, 2)
  <2>1. StepAt(drm_probe, 2, "take", "mmio", drm_err1)
    BY DrmProbeSteps, Zenon
  <2>2. Reached(drm_probe, 2, {"rom"}, {"rom"})
    BY DrmProbeReached, Zenon
  <2>3. Rooted("drm", "mmio", {}, {"rom"})
    BY DEF Rooted, RestsOn
  <2>4. "mmio" \in CardOwn["drm"]
    BY DrmCardOwn, Zenon
  <2>. QED
    BY <2>1, <2>2, <2>3, <2>4, <1>1, RootedInOrder, Zenon
<1>4. TakenAt("drm", {}, CardOwn["drm"], drm_probe, 3)
  <2>1. StepAt(drm_probe, 3, "take", "card info", drm_err2)
    BY DrmProbeSteps, Zenon
  <2>2. Reached(drm_probe, 3, {"rom", "mmio"}, {"rom", "mmio"})
    BY DrmProbeReached, Zenon
  <2>3. Rooted("drm", "card info", {}, {"rom", "mmio"})
    BY DEF Rooted, RestsOn
  <2>4. "card info" \in CardOwn["drm"]
    BY DrmCardOwn, Zenon
  <2>. QED
    BY <2>1, <2>2, <2>3, <2>4, <1>1, RootedInOrder, Zenon
<1>5. TakenAt("drm", {}, CardOwn["drm"], drm_probe, 4)
  <2>1. StepAt(drm_probe, 4, "take", "atom context", drm_err2)
    BY DrmProbeSteps, Zenon
  <2>2. Reached(drm_probe, 4, {"rom", "mmio", "card info"}, {"rom", "mmio", "card info"})
    BY DrmProbeReached, Zenon
  <2>3. Rooted("drm", "atom context", {}, {"rom", "mmio", "card info"})
    BY DEF Rooted, RestsOn
  <2>4. "atom context" \in CardOwn["drm"]
    BY DrmCardOwn, Zenon
  <2>. QED
    BY <2>1, <2>2, <2>3, <2>4, <1>1, RootedInOrder, Zenon
<1>6. TakenAt("drm", {}, CardOwn["drm"], drm_probe, 5)
  <2>1. StepAt(drm_probe, 5, "try", "iio", <<>>)
    BY DrmProbeSteps, Zenon
  <2>2. Reached(drm_probe, 5, {"rom", "mmio", "card info", "atom context"}, {"rom", "mmio",
                "card info", "atom context"})
    BY DrmProbeReached, Zenon
  <2>3. Rooted("drm", "iio", {}, {"rom", "mmio", "card info", "atom context"})
    BY DEF Rooted, RestsOn
  <2>4. "iio" \in CardOwn["drm"]
    BY DrmCardOwn, Zenon
  <2>. QED
    BY <2>1, <2>2, <2>3, <2>4, <1>1, RootedInOrder, Zenon
<1>7. TakenAt("drm", {}, CardOwn["drm"], drm_probe, 6)
  <2>1. StepAt(drm_probe, 6, "try", "scratch", <<>>)
    BY DrmProbeSteps, Zenon
  <2>2. Reached(drm_probe, 6, {"rom", "mmio", "card info", "atom context"}, {"rom", "mmio",
                "card info", "atom context", "iio"})
    BY DrmProbeReached, Zenon
  <2>3. Rooted("drm", "scratch", {}, {"rom", "mmio", "card info", "atom context"})
    BY DEF Rooted, RestsOn
  <2>4. "scratch" \in CardOwn["drm"]
    BY DrmCardOwn, Zenon
  <2>. QED
    BY <2>1, <2>2, <2>3, <2>4, <1>1, RootedInOrder, Zenon
<1>8. TakenAt("drm", {}, CardOwn["drm"], drm_probe, 7)
  BY <1>1, DrmProbeSteps, CheckedInOrder, Zenon
<1>9. TakenAt("drm", {}, CardOwn["drm"], drm_probe, 8)
  <2>1. StepAt(drm_probe, 8, "try", "fb", <<>>)
    BY DrmProbeSteps, Zenon
  <2>2. Reached(drm_probe, 8, {"rom", "mmio", "card info", "atom context"}, {"rom", "mmio",
                "card info", "atom context", "iio", "scratch"})
    BY DrmProbeReached, Zenon
  <2>3. Rooted("drm", "fb", {}, {"rom", "mmio", "card info", "atom context"})
    BY DEF Rooted, RestsOn
  <2>4. "fb" \in CardOwn["drm"]
    BY DrmCardOwn, Zenon
  <2>. QED
    BY <2>1, <2>2, <2>3, <2>4, <1>1, RootedInOrder, Zenon
<1>10. ASSUME NEW k \in 1 .. Len(drm_probe)
      PROVE  TakenAt("drm", {}, CardOwn["drm"], drm_probe, k)
  <2>1. Len(drm_probe) = 8
    BY DrmProbeSteps, Zenon
  <2>2. k = 1 \/ k = 2 \/ k = 3 \/ k = 4 \/ k = 5 \/ k = 6 \/ k = 7 \/ k = 8
    BY <2>1, <1>10
  <2>. QED
    BY <2>2, <1>2, <1>3, <1>4, <1>5, <1>6, <1>7, <1>8, <1>9, Zenon
<1>11. drm_probe \in Seq(Steps)
  BY DrmProbeSteps, Zenon
<1>. QED
  BY <1>10, <1>11, Zenon DEF Takes, TakesInOrder, TakenAt

LEMMA DrmProbeUndoes ==
  /\ UndoneAt("drm", drm_probe, 1, {}, {})
  /\ UndoneAt("drm", drm_probe, 2, {}, {})
  /\ UndoneAt("drm", drm_probe, 3, {}, {})
  /\ UndoneAt("drm", drm_probe, 4, {"card info"}, {"card info"})
  /\ UndoneAt("drm", drm_probe, 7, {}, {"iio", "scratch"})
  /\ \A k \in Failing(drm_probe) : k = 1 \/ k = 2 \/ k = 3 \/ k = 4 \/ k = 7
<1>1. UndoneAt("drm", drm_probe, 1, {}, {})
  <2>. DEFINE lo == {}
  <2>1. StepAt(drm_probe, 1, "take", "rom", <<>>) /\ Reached(drm_probe, 1, lo, lo)
    BY DrmProbeSteps, DrmProbeReached, Zenon
  <2>. HIDE DEF lo
  <2>2. UndoneAt("drm", drm_probe, 1, lo, lo)
    BY <2>1, UndoesNothing, UndoneInOrder, Zenon
  <2>. QED
    BY <2>2, Zenon DEF lo
<1>2. UndoneAt("drm", drm_probe, 2, {}, {})
  <2>. DEFINE lo     == {"rom"}
               left   == {}
  <2>1. StepAt(drm_probe, 2, "take", "mmio", drm_err1) /\ Reached(drm_probe, 2, lo, lo)
    BY DrmProbeSteps, DrmProbeReached, Zenon
  <2>2. /\ Free("drm", "rom", lo, lo, {})
    BY DEF Free, MayBeNull, RestsOn
  <2>3. lo \ {"rom"} = left
    OBVIOUS
  <2>. HIDE DEF lo, left
  <2>4. GivesInOrder("drm", Give(<<"rom">>), lo, lo)
    BY <2>2, DrmCardOwn, ListOfOne, Zenon
  <2>5. LeftBy(Give(<<"rom">>), lo) = left
    <3>1. Leaves(Give(<<"rom">>), {"rom"})
      BY <2>2, DrmCardOwn, ListOfOne, Zenon
    <3>. QED
      BY <3>1, <2>3, Zenon DEF Leaves
  <2>6. UndoneAt("drm", drm_probe, 2, left, left)
    BY <2>1, <2>4, <2>5, DrmUndo, UndoneInOrder, Zenon
  <2>. QED
    BY <2>6, Zenon DEF left
<1>3. UndoneAt("drm", drm_probe, 3, {}, {})
  <2>. DEFINE lo     == {"rom", "mmio"}
               left   == {}
  <2>1. StepAt(drm_probe, 3, "take", "card info", drm_err2) /\ Reached(drm_probe, 3, lo, lo)
    BY DrmProbeSteps, DrmProbeReached, Zenon
  <2>2. /\ Free("drm", "mmio", lo, lo, {})
        /\ Free("drm", "rom", lo, lo, {"mmio"})
    BY DEF Free, MayBeNull, RestsOn
  <2>3. lo \ {"mmio", "rom"} = left
    OBVIOUS
  <2>. HIDE DEF lo, left
  <2>4. GivesInOrder("drm", Give(<<"mmio", "rom">>), lo, lo)
    BY <2>2, DrmCardOwn, ListOfTwo, Zenon
  <2>5. LeftBy(Give(<<"mmio", "rom">>), lo) = left
    <3>1. Leaves(Give(<<"mmio", "rom">>), {"mmio", "rom"})
      BY <2>2, DrmCardOwn, ListOfTwo, Zenon
    <3>. QED
      BY <3>1, <2>3, Zenon DEF Leaves
  <2>6. UndoneAt("drm", drm_probe, 3, left, left)
    BY <2>1, <2>4, <2>5, DrmUndo, UndoneInOrder, Zenon
  <2>. QED
    BY <2>6, Zenon DEF left
<1>4. UndoneAt("drm", drm_probe, 4, {"card info"}, {"card info"})
  <2>. DEFINE lo     == {"rom", "mmio", "card info"}
               left   == {"card info"}
  <2>1. StepAt(drm_probe, 4, "take", "atom context", drm_err2) /\ Reached(drm_probe, 4, lo, lo)
    BY DrmProbeSteps, DrmProbeReached, Zenon
  <2>2. /\ Free("drm", "mmio", lo, lo, {})
        /\ Free("drm", "rom", lo, lo, {"mmio"})
    BY DEF Free, MayBeNull, RestsOn
  <2>3. lo \ {"mmio", "rom"} = left
    OBVIOUS
  <2>. HIDE DEF lo, left
  <2>4. GivesInOrder("drm", Give(<<"mmio", "rom">>), lo, lo)
    BY <2>2, DrmCardOwn, ListOfTwo, Zenon
  <2>5. LeftBy(Give(<<"mmio", "rom">>), lo) = left
    <3>1. Leaves(Give(<<"mmio", "rom">>), {"mmio", "rom"})
      BY <2>2, DrmCardOwn, ListOfTwo, Zenon
    <3>. QED
      BY <3>1, <2>3, Zenon DEF Leaves
  <2>6. UndoneAt("drm", drm_probe, 4, left, left)
    BY <2>1, <2>4, <2>5, DrmUndo, UndoneInOrder, Zenon
  <2>. QED
    BY <2>6, Zenon DEF left
<1>5. UndoneAt("drm", drm_probe, 7, {}, {"iio", "scratch"})
  <2>. DEFINE lo     == {"rom", "mmio", "card info", "atom context"}
               hi     == {"rom", "mmio", "card info", "atom context", "iio", "scratch"}
               left   == {}
               leftHi == {"iio", "scratch"}
  <2>1. StepAt(drm_probe, 7, "check", "", drm_err3) /\ Reached(drm_probe, 7, lo, hi)
    BY DrmProbeSteps, DrmProbeReached, Zenon
  <2>2. /\ Free("drm", "card info", lo, hi, {})
        /\ Free("drm", "atom context", lo, hi, {"card info"})
        /\ Free("drm", "mmio", lo, hi, {"card info", "atom context"})
        /\ Free("drm", "rom", lo, hi, {"card info", "atom context", "mmio"})
    BY DEF Free, MayBeNull, RestsOn
  <2>3. lo \ {"card info", "atom context", "mmio", "rom"} = left /\ hi \ {"card info",
                "atom context", "mmio", "rom"} = leftHi
    OBVIOUS
  <2>. HIDE DEF lo, hi, left, leftHi
  <2>4. GivesInOrder("drm", Give(<<"card info", "atom context", "mmio", "rom">>), lo, hi)
    BY <2>2, DrmCardOwn, ListOfFour, Zenon
  <2>5. LeftBy(Give(<<"card info", "atom context", "mmio",
                "rom">>), lo) = left /\ LeftBy(Give(<<"card info", "atom context", "mmio",
                              "rom">>), hi) = leftHi
    <3>1. Leaves(Give(<<"card info", "atom context", "mmio", "rom">>), {"card info",
                  "atom context", "mmio", "rom"})
      BY <2>2, DrmCardOwn, ListOfFour, Zenon
    <3>. QED
      BY <3>1, <2>3, Zenon DEF Leaves
  <2>6. UndoneAt("drm", drm_probe, 7, left, leftHi)
    BY <2>1, <2>4, <2>5, DrmUndo, UndoneInOrder, Zenon
  <2>. QED
    BY <2>6, Zenon DEF left, leftHi
<1>6. ASSUME NEW k \in Failing(drm_probe)
      PROVE  k = 1 \/ k = 2 \/ k = 3 \/ k = 4 \/ k = 7
  <2>1. k \in 1 .. 8
    BY <1>6, DrmProbeSteps DEF Failing
  <2>2. k # 5 /\ k # 6 /\ k # 8
    BY <1>6, DrmProbeSteps, TryNeverFails, Zenon
  <2>. QED
    BY <2>1, <2>2
<1>. QED
  BY <1>1, <1>2, <1>3, <1>4, <1>5, <1>6, Zenon

(* mydrm_pci_remove() gives back all but the interpreter's memory, and the  *)
(* frame buffer if it was mapped.                                           *)
LEMMA DrmRemoveGives ==
  /\ Gives(CardOwn["drm"], drm_remove)
  /\ GivesInOrder("drm", drm_remove, Taken(drm_probe).lo, Taken(drm_probe).hi)
  /\ Taken(drm_probe).hi = {"rom", "mmio", "card info", "atom context", "iio", "scratch", "fb"}
  /\ LeftBy(drm_remove, Taken(drm_probe).hi) = {"iio", "scratch"}
<1>1. drm_remove = Give(<<"fb", "card info", "atom context", "mmio", "rom">>)
  BY DEF drm_remove
<1>. DEFINE lo   == {"rom", "mmio", "card info", "atom context"}
            hi   == {"rom", "mmio", "card info", "atom context", "iio", "scratch", "fb"}
            left == {"iio", "scratch"}
<1>2. Taken(drm_probe).lo = lo /\ Taken(drm_probe).hi = hi
  <2>1. Follows(Len(drm_probe), 9)
    BY DrmProbeSteps, Counted, Zenon
  <2>2. Reached(drm_probe, 9, lo, hi)
    BY DrmProbeReached, Zenon
  <2>. HIDE DEF lo, hi
  <2>. QED
    BY <2>1, <2>2, TakenIs, Zenon
<1>3. /\ Free("drm", "fb", lo, hi, {})
      /\ Free("drm", "card info", lo, hi, {"fb"})
      /\ Free("drm", "atom context", lo, hi, {"fb", "card info"})
      /\ Free("drm", "mmio", lo, hi, {"fb", "card info", "atom context"})
      /\ Free("drm", "rom", lo, hi, {"fb", "card info", "atom context", "mmio"})
  BY DEF Free, MayBeNull, RestsOn
<1>4. hi \ {"fb", "card info", "atom context", "mmio", "rom"} = left
  OBVIOUS
<1>. HIDE DEF lo, hi, left
<1>5. <<"fb", "card info", "atom context", "mmio", "rom">> \in Seq(CardOwn["drm"])
  BY DrmCardOwn, <1>3, ListOfFive, Zenon
<1>6. GivesInOrder("drm", Give(<<"fb", "card info", "atom context", "mmio", "rom">>), lo, hi)
  BY DrmCardOwn, <1>3, ListOfFive, Zenon
<1>7. LeftBy(Give(<<"fb", "card info", "atom context", "mmio", "rom">>), hi) = left
  <2>1. Leaves(Give(<<"fb", "card info", "atom context", "mmio", "rom">>), {"fb", "card info",
                "atom context", "mmio", "rom"})
    BY DrmCardOwn, <1>3, ListOfFive, Zenon
  <2>. QED
    BY <2>1, <1>4, Zenon DEF Leaves
<1>8. Gives(CardOwn["drm"], drm_remove)
  BY <1>1, <1>5, DrmCardOwn, GiveIsProcedure, Zenon
<1>. QED
  BY <1>1, <1>2, <1>6, <1>7, <1>8, Zenon DEF hi, left

LEMMA DrmProbeOrderly == Orderly("drm", {}, CardOwn["drm"], drm_probe, drm_remove)
<1>1. ASSUME NEW k \in Failing(drm_probe)
      PROVE  GivesInOrder("drm", Give(drm_probe[k].undo), Took(drm_probe, k), Had(drm_probe, k))
  <2>1. k = 1 \/ k = 2 \/ k = 3 \/ k = 4 \/ k = 7
    BY <1>1, DrmProbeUndoes, Zenon
  <2>2. /\ GivesInOrder("drm", Give(drm_probe[1].undo), Took(drm_probe, 1), Had(drm_probe, 1))
        /\ GivesInOrder("drm", Give(drm_probe[2].undo), Took(drm_probe, 2), Had(drm_probe, 2))
        /\ GivesInOrder("drm", Give(drm_probe[3].undo), Took(drm_probe, 3), Had(drm_probe, 3))
        /\ GivesInOrder("drm", Give(drm_probe[4].undo), Took(drm_probe, 4), Had(drm_probe, 4))
        /\ GivesInOrder("drm", Give(drm_probe[7].undo), Took(drm_probe, 7), Had(drm_probe, 7))
    BY DrmProbeUndoes, Zenon DEF UndoneAt
  <2>. QED
    BY <2>1, <2>2, Zenon
<1>. QED
  BY <1>1, DrmProbeTakes, DrmRemoveGives, Zenon DEF Orderly

LEMMA DrmProbeClean ==
  /\ LeftBy(drm_remove, Taken(drm_probe).hi) \subseteq Leaked["drm"]
  /\ \A k \in Failing(drm_probe) : LeftBy(Give(drm_probe[k].undo), Had(drm_probe, k)) \subseteq
          Leaked["drm"]
<1>1. LeftBy(drm_remove, Taken(drm_probe).hi) \subseteq Leaked["drm"]
  BY DrmRemoveGives, LeakedIs
<1>2. ASSUME NEW k \in Failing(drm_probe)
      PROVE  LeftBy(Give(drm_probe[k].undo), Had(drm_probe, k)) \subseteq Leaked["drm"]
  <2>1. k = 1 \/ k = 2 \/ k = 3 \/ k = 4 \/ k = 7
    BY <1>2, DrmProbeUndoes, Zenon
  <2>2. /\ LeftBy(Give(drm_probe[1].undo), Had(drm_probe, 1)) = {}
        /\ LeftBy(Give(drm_probe[2].undo), Had(drm_probe, 2)) = {}
        /\ LeftBy(Give(drm_probe[3].undo), Had(drm_probe, 3)) = {}
        /\ LeftBy(Give(drm_probe[4].undo), Had(drm_probe, 4)) = {"card info"}
        /\ LeftBy(Give(drm_probe[7].undo), Had(drm_probe, 7)) = {"iio", "scratch"}
    BY DrmProbeUndoes, Zenon DEF UndoneAt
  <2>3. /\ {} \subseteq Leaked["drm"]
        /\ {"card info"} \subseteq Leaked["drm"]
        /\ {"iio", "scratch"} \subseteq Leaked["drm"]
    BY LeakedIs
  <2>. QED
    BY <2>1, <2>2, <2>3, Zenon
<1>. QED
  BY <1>1, <1>2

(* The accelerant: what init_common() undoes. *)
InfoOnly      == <<"gInfo">>
InfoAndShared == <<"gInfo", "shared area">>

(* The eighteen steps of radeon_init_accelerant(), put together from four   *)
(* procedures.                                                              *)
LEMMA AccelerantSteps ==
  /\ radeon_init_accelerant \in Seq(Steps) /\ Len(radeon_init_accelerant) = 18
  /\ StepAt(radeon_init_accelerant, 1, "take", "gInfo", <<>>)
  /\ StepAt(radeon_init_accelerant, 2, "take", "displays", <<>>)
  /\ StepAt(radeon_init_accelerant, 3, "take", "connectors", <<>>)
  /\ StepAt(radeon_init_accelerant, 4, "take", "pins", <<>>)
  /\ StepAt(radeon_init_accelerant, 5, "check", "", InfoOnly)
  /\ StepAt(radeon_init_accelerant, 6, "take", "shared area", InfoOnly)
  /\ StepAt(radeon_init_accelerant, 7, "take", "regs area", InfoAndShared)
  /\ StepAt(radeon_init_accelerant, 8, "must", "rom area", <<>>)
  /\ StepAt(radeon_init_accelerant, 9, "try", "accelerant lock", <<>>)
  /\ StepAt(radeon_init_accelerant, 10, "try", "engine lock", <<>>)
  /\ StepAt(radeon_init_accelerant, 11, "must", "card info", <<>>)
  /\ StepAt(radeon_init_accelerant, 12, "must", "atom context", <<>>)
  /\ StepAt(radeon_init_accelerant, 13, "try", "iio", <<>>)
  /\ StepAt(radeon_init_accelerant, 14, "try", "exec sem", <<>>)
  /\ StepAt(radeon_init_accelerant, 15, "try", "scratch", <<>>)
  /\ StepAt(radeon_init_accelerant, 16, "check", "", <<>>)
  /\ StepAt(radeon_init_accelerant, 17, "try", "mode list area", <<>>)
  /\ StepAt(radeon_init_accelerant, 18, "try", "ring queue", <<>>)
<1>. DEFINE e1        == SetupStep("take", "gInfo", <<>>)
            e2        == SetupStep("take", "displays", <<>>)
            e3        == SetupStep("take", "connectors", <<>>)
            e4        == SetupStep("take", "pins", <<>>)
            e5        == SetupStep("check", "", InfoOnly)
            e6        == SetupStep("take", "shared area", InfoOnly)
            e7        == SetupStep("take", "regs area", InfoAndShared)
            e8        == SetupStep("must", "rom area", <<>>)
            e9        == SetupStep("try", "accelerant lock", <<>>)
            e10       == SetupStep("try", "engine lock", <<>>)
            e11       == SetupStep("must", "card info", <<>>)
            e12       == SetupStep("must", "atom context", <<>>)
            e13       == SetupStep("try", "iio", <<>>)
            e14       == SetupStep("try", "exec sem", <<>>)
            e15       == SetupStep("try", "scratch", <<>>)
            e16       == SetupStep("check", "", <<>>)
            e17       == SetupStep("try", "mode list area", <<>>)
            e18       == SetupStep("try", "ring queue", <<>>)
            procedure ==
              <<e1, e2, e3, e4, e5, e6, e7, e8, e9, e10, e11, e12, e13, e14, e15, e16, e17, e18>>
<1>1. radeon_init_accelerant = procedure
  <2>1. init_common = <<e1, e2, e3, e4, e5, e6, e7, e8>>
    BY DEF init_common, Take, Check, Must, InfoOnly, InfoAndShared
  <2>2. << Try("accelerant lock"), Try("engine lock") >> = <<e9, e10>>
    BY DEF Try
  <2>3. radeon_init_bios = <<e11, e12, e13, e14, e15>>
    BY DEF radeon_init_bios, Try, Must
  <2>4. << Check(<<>>), Try("mode list area"), Try("ring queue") >> = <<e16, e17, e18>>
    BY DEF Try, Check
  <2>. HIDE DEF e1, e2, e3, e4, e5, e6, e7, e8, e9, e10, e11, e12, e13, e14, e15, e16, e17, e18
  <2>5. radeon_init_accelerant =
          ((<<e1, e2, e3, e4, e5, e6, e7, e8>> \o <<e9, e10>>) \o <<e11, e12, e13, e14, e15>>)
            \o <<e16, e17, e18>>
    <3>1. radeon_init_accelerant =
            init_common \o << Try("accelerant lock"), Try("engine lock") >>
              \o radeon_init_bios \o << Check(<<>>), Try("mode list area"), Try("ring queue") >>
      BY Zenon DEF radeon_init_accelerant
    <3>. QED
      BY <3>1, <2>1, <2>2, <2>3, <2>4, Zenon
  <2>6. <<e1, e2, e3, e4, e5, e6, e7, e8>> \o <<e9, e10>> =
          <<e1, e2, e3, e4, e5, e6, e7, e8, e9, e10>>
    BY EightAndTwo
  <2>7. <<e1, e2, e3, e4, e5, e6, e7, e8, e9, e10>> \o <<e11, e12, e13, e14, e15>> =
          <<e1, e2, e3, e4, e5, e6, e7, e8, e9, e10, e11, e12, e13, e14, e15>>
    BY TenAndFive
  <2>8. <<e1, e2, e3, e4, e5, e6, e7, e8, e9, e10, e11, e12, e13, e14, e15>> \o <<e16, e17, e18>>
          = procedure
    BY FifteenAndThree
  <2>. QED
    BY <2>5, <2>6, <2>7, <2>8, Zenon
<1>2. /\ <<>> \in Seq(Resources)
      /\ InfoOnly \in Seq(Resources)
      /\ InfoAndShared \in Seq(Resources)
  <2>1. "gInfo" \in Resources /\ "shared area" \in Resources
    BY DEF Resources
  <2>2. <<>> \in Seq(Resources)
    OBVIOUS
  <2>3. InfoOnly \in Seq(Resources)
    BY <2>1, SeqOfOne DEF InfoOnly
  <2>4. InfoAndShared \in Seq(Resources)
    BY <2>1, SeqOfTwo DEF InfoAndShared
  <2>. QED
    BY <2>2, <2>3, <2>4
<1>3. "gInfo" \in Resources \cup {""} /\ "displays" \in Resources \cup {""} /\
      "connectors" \in Resources \cup {""} /\ "pins" \in Resources \cup {""} /\
      "" \in Resources \cup {""} /\ "shared area" \in Resources \cup {""} /\
      "regs area" \in Resources \cup {""} /\ "rom area" \in Resources \cup {""} /\
      "accelerant lock" \in Resources \cup {""} /\ "engine lock" \in Resources \cup {""} /\
      "card info" \in Resources \cup {""} /\ "atom context" \in Resources \cup {""} /\
      "iio" \in Resources \cup {""} /\ "exec sem" \in Resources \cup {""} /\
      "scratch" \in Resources \cup {""} /\ "mode list area" \in Resources \cup {""} /\
      "ring queue" \in Resources \cup {""}
  BY DEF Resources
<1>4. /\ SetupStep("take", "gInfo", <<>>) \in Steps
      /\ SetupStep("take", "displays", <<>>) \in Steps
      /\ SetupStep("take", "connectors", <<>>) \in Steps
      /\ SetupStep("take", "pins", <<>>) \in Steps
      /\ SetupStep("check", "", InfoOnly) \in Steps
      /\ SetupStep("take", "shared area", InfoOnly) \in Steps
      /\ SetupStep("take", "regs area", InfoAndShared) \in Steps
      /\ SetupStep("must", "rom area", <<>>) \in Steps
      /\ SetupStep("try", "accelerant lock", <<>>) \in Steps
      /\ SetupStep("try", "engine lock", <<>>) \in Steps
      /\ SetupStep("must", "card info", <<>>) \in Steps
      /\ SetupStep("must", "atom context", <<>>) \in Steps
      /\ SetupStep("try", "iio", <<>>) \in Steps
      /\ SetupStep("try", "exec sem", <<>>) \in Steps
      /\ SetupStep("try", "scratch", <<>>) \in Steps
      /\ SetupStep("check", "", <<>>) \in Steps
      /\ SetupStep("try", "mode list area", <<>>) \in Steps
      /\ SetupStep("try", "ring queue", <<>>) \in Steps
  BY <1>2, <1>3, StepIsStep
<1>5. radeon_init_accelerant \in Seq(Steps)
  BY <1>1, <1>4, SeqOfEighteen
<1>6. Len(radeon_init_accelerant) = 18
  BY <1>1
<1>7. /\ radeon_init_accelerant[1] = SetupStep("take", "gInfo", <<>>)
      /\ radeon_init_accelerant[2] = SetupStep("take", "displays", <<>>)
      /\ radeon_init_accelerant[3] = SetupStep("take", "connectors", <<>>)
      /\ radeon_init_accelerant[4] = SetupStep("take", "pins", <<>>)
      /\ radeon_init_accelerant[5] = SetupStep("check", "", InfoOnly)
      /\ radeon_init_accelerant[6] = SetupStep("take", "shared area", InfoOnly)
      /\ radeon_init_accelerant[7] = SetupStep("take", "regs area", InfoAndShared)
      /\ radeon_init_accelerant[8] = SetupStep("must", "rom area", <<>>)
      /\ radeon_init_accelerant[9] = SetupStep("try", "accelerant lock", <<>>)
      /\ radeon_init_accelerant[10] = SetupStep("try", "engine lock", <<>>)
      /\ radeon_init_accelerant[11] = SetupStep("must", "card info", <<>>)
      /\ radeon_init_accelerant[12] = SetupStep("must", "atom context", <<>>)
      /\ radeon_init_accelerant[13] = SetupStep("try", "iio", <<>>)
      /\ radeon_init_accelerant[14] = SetupStep("try", "exec sem", <<>>)
      /\ radeon_init_accelerant[15] = SetupStep("try", "scratch", <<>>)
      /\ radeon_init_accelerant[16] = SetupStep("check", "", <<>>)
      /\ radeon_init_accelerant[17] = SetupStep("try", "mode list area", <<>>)
      /\ radeon_init_accelerant[18] = SetupStep("try", "ring queue", <<>>)
  BY <1>1
<1>. QED
  BY <1>5, <1>6, <1>7 DEF StepAt

LEMMA AccelerantReached ==
  /\ Reached(radeon_init_accelerant, 1, {}, {})
  /\ Reached(radeon_init_accelerant, 2, {"gInfo"}, {"gInfo"})
  /\ Reached(radeon_init_accelerant, 3, {"gInfo", "displays"}, {"gInfo", "displays"})
  /\ Reached(radeon_init_accelerant, 4, {"gInfo", "displays", "connectors"}, {"gInfo",
                "displays", "connectors"})
  /\ Reached(radeon_init_accelerant, 5, {"gInfo", "displays", "connectors", "pins"}, {"gInfo",
                "displays", "connectors", "pins"})
  /\ Reached(radeon_init_accelerant, 6, {"gInfo", "displays", "connectors", "pins"}, {"gInfo",
                "displays", "connectors", "pins"})
  /\ Reached(radeon_init_accelerant, 7, {"gInfo", "displays", "connectors", "pins",
                "shared area"}, {"gInfo", "displays", "connectors", "pins", "shared area"})
  /\ Reached(radeon_init_accelerant, 8, {"gInfo", "displays", "connectors", "pins",
                "shared area", "regs area"}, {"gInfo", "displays", "connectors", "pins",
                              "shared area", "regs area"})
  /\ Reached(radeon_init_accelerant, 9, {"gInfo", "displays", "connectors", "pins",
                "shared area", "regs area", "rom area"}, {"gInfo", "displays", "connectors",
                              "pins", "shared area", "regs area", "rom area"})
  /\ Reached(radeon_init_accelerant, 10, {"gInfo", "displays", "connectors", "pins",
                "shared area", "regs area", "rom area"}, {"gInfo", "displays", "connectors",
                              "pins", "shared area", "regs area", "rom area", "accelerant lock"})
  /\ Reached(radeon_init_accelerant, 11, {"gInfo", "displays", "connectors", "pins",
                "shared area", "regs area", "rom area"}, {"gInfo", "displays", "connectors",
                              "pins", "shared area", "regs area", "rom area", "accelerant lock",
                                            "engine lock"})
  /\ Reached(radeon_init_accelerant, 12, {"gInfo", "displays", "connectors", "pins",
                "shared area", "regs area", "rom area", "card info"}, {"gInfo", "displays",
                              "connectors", "pins", "shared area", "regs area", "rom area",
                                            "accelerant lock", "engine lock", "card info"})
  /\ Reached(radeon_init_accelerant, 13, {"gInfo", "displays", "connectors", "pins",
                "shared area", "regs area", "rom area", "card info", "atom context"}, {"gInfo",
                              "displays", "connectors", "pins", "shared area", "regs area",
                                            "rom area", "accelerant lock", "engine lock",
                                                          "card info", "atom context"})
  /\ Reached(radeon_init_accelerant, 14, {"gInfo", "displays", "connectors", "pins",
                "shared area", "regs area", "rom area", "card info", "atom context"}, {"gInfo",
                              "displays", "connectors", "pins", "shared area", "regs area",
                                            "rom area", "accelerant lock", "engine lock",
                                                          "card info", "atom context", "iio"})
  /\ Reached(radeon_init_accelerant, 15, {"gInfo", "displays", "connectors", "pins",
                "shared area", "regs area", "rom area", "card info", "atom context"}, {"gInfo",
                              "displays", "connectors", "pins", "shared area", "regs area",
                                            "rom area", "accelerant lock", "engine lock",
                                                          "card info", "atom context", "iio",
                                                                        "exec sem"})
  /\ Reached(radeon_init_accelerant, 16, {"gInfo", "displays", "connectors", "pins",
                "shared area", "regs area", "rom area", "card info", "atom context"}, {"gInfo",
                              "displays", "connectors", "pins", "shared area", "regs area",
                                            "rom area", "accelerant lock", "engine lock",
                                                          "card info", "atom context", "iio",
                                                                        "exec sem", "scratch"})
  /\ Reached(radeon_init_accelerant, 17, {"gInfo", "displays", "connectors", "pins",
                "shared area", "regs area", "rom area", "card info", "atom context"}, {"gInfo",
                              "displays", "connectors", "pins", "shared area", "regs area",
                                            "rom area", "accelerant lock", "engine lock",
                                                          "card info", "atom context", "iio",
                                                                        "exec sem", "scratch"})
  /\ Reached(radeon_init_accelerant, 18, {"gInfo", "displays", "connectors", "pins",
                "shared area", "regs area", "rom area", "card info", "atom context"}, {"gInfo",
                              "displays", "connectors", "pins", "shared area", "regs area",
                                            "rom area", "accelerant lock", "engine lock",
                                                          "card info", "atom context", "iio",
                                                                        "exec sem", "scratch",
                    "mode list area"})
  /\ Reached(radeon_init_accelerant, 19, {"gInfo", "displays", "connectors", "pins",
                "shared area", "regs area", "rom area", "card info", "atom context"}, {"gInfo",
                              "displays", "connectors", "pins", "shared area", "regs area",
                                            "rom area", "accelerant lock", "engine lock",
                                                          "card info", "atom context", "iio",
                                                                        "exec sem", "scratch",
                    "mode list area", "ring queue"})
<1>. DEFINE had0  == {}
            had1  == {"gInfo"}
            had2  == {"gInfo", "displays"}
            had3  == {"gInfo", "displays", "connectors"}
            had4  == {"gInfo", "displays", "connectors", "pins"}
            had5  == {"gInfo", "displays", "connectors", "pins", "shared area"}
            had6  == {"gInfo", "displays", "connectors", "pins", "shared area", "regs area"}
            had7  == {"gInfo", "displays", "connectors", "pins", "shared area", "regs area",
                          "rom area"}
            had8  == {"gInfo", "displays", "connectors", "pins", "shared area", "regs area",
                          "rom area", "accelerant lock"}
            had9  == {"gInfo", "displays", "connectors", "pins", "shared area", "regs area",
                          "rom area", "accelerant lock", "engine lock"}
            had10 == {"gInfo", "displays", "connectors", "pins", "shared area", "regs area",
                          "rom area", "accelerant lock", "engine lock", "card info"}
            had11 == {"gInfo", "displays", "connectors", "pins", "shared area", "regs area",
                          "rom area", "accelerant lock", "engine lock", "card info",
                                        "atom context"}
            had12 == {"gInfo", "displays", "connectors", "pins", "shared area", "regs area",
                          "rom area", "accelerant lock", "engine lock", "card info",
                                        "atom context", "iio"}
            had13 == {"gInfo", "displays", "connectors", "pins", "shared area", "regs area",
                          "rom area", "accelerant lock", "engine lock", "card info",
                                        "atom context", "iio", "exec sem"}
            had14 == {"gInfo", "displays", "connectors", "pins", "shared area", "regs area",
                          "rom area", "accelerant lock", "engine lock", "card info",
                                        "atom context", "iio", "exec sem", "scratch"}
            had15 == {"gInfo", "displays", "connectors", "pins", "shared area", "regs area",
                          "rom area", "accelerant lock", "engine lock", "card info",
                                        "atom context", "iio", "exec sem", "scratch",
                                                      "mode list area"}
            had16 == {"gInfo", "displays", "connectors", "pins", "shared area", "regs area",
                          "rom area", "accelerant lock", "engine lock", "card info",
                                        "atom context", "iio", "exec sem", "scratch",
                                                      "mode list area", "ring queue"}
            took8 == {"gInfo", "displays", "connectors", "pins", "shared area", "regs area",
                          "rom area", "card info"}
            took9 == {"gInfo", "displays", "connectors", "pins", "shared area", "regs area",
                          "rom area", "card info", "atom context"}
<1>1. /\ Joins(had1, had0, "gInfo")
      /\ Joins(had2, had1, "displays")
      /\ Joins(had3, had2, "connectors")
      /\ Joins(had4, had3, "pins")
      /\ Joins(had5, had4, "shared area")
      /\ Joins(had6, had5, "regs area")
      /\ Joins(had7, had6, "rom area")
      /\ Joins(had8, had7, "accelerant lock")
      /\ Joins(had9, had8, "engine lock")
      /\ Joins(took8, had7, "card info")
      /\ Joins(had10, had9, "card info")
      /\ Joins(took9, took8, "atom context")
      /\ Joins(had11, had10, "atom context")
      /\ Joins(had12, had11, "iio")
      /\ Joins(had13, had12, "exec sem")
      /\ Joins(had14, had13, "scratch")
      /\ Joins(had15, had14, "mode list area")
      /\ Joins(had16, had15, "ring queue")
  BY DEF Joins
<1>2. Reached(radeon_init_accelerant, 1, had0, had0)
  BY Outset
<1>. HIDE DEF had0, had1, had2, had3, had4, had5, had6, had7, had8, had9, had10, had11, had12,
              had13, had14, had15, had16, took8, took9
<1>3. Reached(radeon_init_accelerant, 2, had1, had1)
  <2>1. StepAt(radeon_init_accelerant, 1, "take", "gInfo", <<>>) /\ Follows(1, 2)
    BY AccelerantSteps, Counted, Zenon
  <2>2. Joins(had1, had0, "gInfo")
    BY <1>1, Zenon
  <2>. QED
    BY <2>1, <2>2, <1>2, TakeAt, Zenon
<1>4. Reached(radeon_init_accelerant, 3, had2, had2)
  <2>1. StepAt(radeon_init_accelerant, 2, "take", "displays", <<>>) /\ Follows(2, 3)
    BY AccelerantSteps, Counted, Zenon
  <2>2. Joins(had2, had1, "displays")
    BY <1>1, Zenon
  <2>. QED
    BY <2>1, <2>2, <1>3, TakeAt, Zenon
<1>5. Reached(radeon_init_accelerant, 4, had3, had3)
  <2>1. StepAt(radeon_init_accelerant, 3, "take", "connectors", <<>>) /\ Follows(3, 4)
    BY AccelerantSteps, Counted, Zenon
  <2>2. Joins(had3, had2, "connectors")
    BY <1>1, Zenon
  <2>. QED
    BY <2>1, <2>2, <1>4, TakeAt, Zenon
<1>6. Reached(radeon_init_accelerant, 5, had4, had4)
  <2>1. StepAt(radeon_init_accelerant, 4, "take", "pins", <<>>) /\ Follows(4, 5)
    BY AccelerantSteps, Counted, Zenon
  <2>2. Joins(had4, had3, "pins")
    BY <1>1, Zenon
  <2>. QED
    BY <2>1, <2>2, <1>5, TakeAt, Zenon
<1>7. Reached(radeon_init_accelerant, 6, had4, had4)
  <2>1. StepAt(radeon_init_accelerant, 5, "check", "", InfoOnly) /\ Follows(5, 6)
    BY AccelerantSteps, Counted, Zenon
  <2>. QED
    BY <2>1, <1>6, CheckAt, Zenon
<1>8. Reached(radeon_init_accelerant, 7, had5, had5)
  <2>1. StepAt(radeon_init_accelerant, 6, "take", "shared area", InfoOnly) /\ Follows(6, 7)
    BY AccelerantSteps, Counted, Zenon
  <2>2. Joins(had5, had4, "shared area")
    BY <1>1, Zenon
  <2>. QED
    BY <2>1, <2>2, <1>7, TakeAt, Zenon
<1>9. Reached(radeon_init_accelerant, 8, had6, had6)
  <2>1. StepAt(radeon_init_accelerant, 7, "take", "regs area", InfoAndShared) /\ Follows(7, 8)
    BY AccelerantSteps, Counted, Zenon
  <2>2. Joins(had6, had5, "regs area")
    BY <1>1, Zenon
  <2>. QED
    BY <2>1, <2>2, <1>8, TakeAt, Zenon
<1>10. Reached(radeon_init_accelerant, 9, had7, had7)
  <2>1. StepAt(radeon_init_accelerant, 8, "must", "rom area", <<>>) /\ Follows(8, 9)
    BY AccelerantSteps, Counted, Zenon
  <2>2. Joins(had7, had6, "rom area")
    BY <1>1, Zenon
  <2>. QED
    BY <2>1, <2>2, <1>9, MustAt, Zenon
<1>11. Reached(radeon_init_accelerant, 10, had7, had8)
  <2>1. StepAt(radeon_init_accelerant, 9, "try", "accelerant lock", <<>>) /\ Follows(9, 10)
    BY AccelerantSteps, Counted, Zenon
  <2>2. Joins(had8, had7, "accelerant lock")
    BY <1>1, Zenon
  <2>. QED
    BY <2>1, <2>2, <1>10, TryAt, Zenon
<1>12. Reached(radeon_init_accelerant, 11, had7, had9)
  <2>1. StepAt(radeon_init_accelerant, 10, "try", "engine lock", <<>>) /\ Follows(10, 11)
    BY AccelerantSteps, Counted, Zenon
  <2>2. Joins(had9, had8, "engine lock")
    BY <1>1, Zenon
  <2>. QED
    BY <2>1, <2>2, <1>11, TryAt, Zenon
<1>13. Reached(radeon_init_accelerant, 12, took8, had10)
  <2>1. StepAt(radeon_init_accelerant, 11, "must", "card info", <<>>) /\ Follows(11, 12)
    BY AccelerantSteps, Counted, Zenon
  <2>2. Joins(took8, had7, "card info") /\ Joins(had10, had9, "card info")
    BY <1>1, Zenon
  <2>. QED
    BY <2>1, <2>2, <1>12, MustAt, Zenon
<1>14. Reached(radeon_init_accelerant, 13, took9, had11)
  <2>1. StepAt(radeon_init_accelerant, 12, "must", "atom context", <<>>) /\ Follows(12, 13)
    BY AccelerantSteps, Counted, Zenon
  <2>2. Joins(took9, took8, "atom context") /\ Joins(had11, had10, "atom context")
    BY <1>1, Zenon
  <2>. QED
    BY <2>1, <2>2, <1>13, MustAt, Zenon
<1>15. Reached(radeon_init_accelerant, 14, took9, had12)
  <2>1. StepAt(radeon_init_accelerant, 13, "try", "iio", <<>>) /\ Follows(13, 14)
    BY AccelerantSteps, Counted, Zenon
  <2>2. Joins(had12, had11, "iio")
    BY <1>1, Zenon
  <2>. QED
    BY <2>1, <2>2, <1>14, TryAt, Zenon
<1>16. Reached(radeon_init_accelerant, 15, took9, had13)
  <2>1. StepAt(radeon_init_accelerant, 14, "try", "exec sem", <<>>) /\ Follows(14, 15)
    BY AccelerantSteps, Counted, Zenon
  <2>2. Joins(had13, had12, "exec sem")
    BY <1>1, Zenon
  <2>. QED
    BY <2>1, <2>2, <1>15, TryAt, Zenon
<1>17. Reached(radeon_init_accelerant, 16, took9, had14)
  <2>1. StepAt(radeon_init_accelerant, 15, "try", "scratch", <<>>) /\ Follows(15, 16)
    BY AccelerantSteps, Counted, Zenon
  <2>2. Joins(had14, had13, "scratch")
    BY <1>1, Zenon
  <2>. QED
    BY <2>1, <2>2, <1>16, TryAt, Zenon
<1>18. Reached(radeon_init_accelerant, 17, took9, had14)
  <2>1. StepAt(radeon_init_accelerant, 16, "check", "", <<>>) /\ Follows(16, 17)
    BY AccelerantSteps, Counted, Zenon
  <2>. QED
    BY <2>1, <1>17, CheckAt, Zenon
<1>19. Reached(radeon_init_accelerant, 18, took9, had15)
  <2>1. StepAt(radeon_init_accelerant, 17, "try", "mode list area", <<>>) /\ Follows(17, 18)
    BY AccelerantSteps, Counted, Zenon
  <2>2. Joins(had15, had14, "mode list area")
    BY <1>1, Zenon
  <2>. QED
    BY <2>1, <2>2, <1>18, TryAt, Zenon
<1>20. Reached(radeon_init_accelerant, 19, took9, had16)
  <2>1. StepAt(radeon_init_accelerant, 18, "try", "ring queue", <<>>) /\ Follows(18, 19)
    BY AccelerantSteps, Counted, Zenon
  <2>2. Joins(had16, had15, "ring queue")
    BY <1>1, Zenon
  <2>. QED
    BY <2>1, <2>2, <1>19, TryAt, Zenon
<1>. QED
  BY <1>2, <1>3, <1>4, <1>5, <1>6, <1>7, <1>8, <1>9, <1>10, <1>11, <1>12, <1>13, <1>14, <1>15,
     <1>16, <1>17, <1>18, <1>19, <1>20, Zenon DEF had0, had1, had2, had3, had4, had5, had6, had7,
     had8, had9, had10, had11, had12, had13, had14, had15, had16, took8, took9

(* Everything it takes is the module's: it has no card that comes and goes. *)
LEMMA AccelerantOwn ==
  /\ "gInfo" \in ModuleOwn["accelerant"] /\ "displays" \in ModuleOwn["accelerant"] /\
     "connectors" \in ModuleOwn["accelerant"] /\ "pins" \in ModuleOwn["accelerant"] /\
     "shared area" \in ModuleOwn["accelerant"] /\ "regs area" \in ModuleOwn["accelerant"] /\
     "rom area" \in ModuleOwn["accelerant"] /\ "accelerant lock" \in ModuleOwn["accelerant"] /\
     "engine lock" \in ModuleOwn["accelerant"] /\ "card info" \in ModuleOwn["accelerant"] /\
     "atom context" \in ModuleOwn["accelerant"] /\ "iio" \in ModuleOwn["accelerant"] /\
     "exec sem" \in ModuleOwn["accelerant"] /\ "scratch" \in ModuleOwn["accelerant"] /\
     "mode list area" \in ModuleOwn["accelerant"] /\ "ring queue" \in ModuleOwn["accelerant"]
  /\ ModuleOwn["accelerant"] \in SUBSET Resources
  BY OwnResources DEF CardOwn, ModuleOwn, Resources, Drivers

LEMMA SeqOfSeven ==
  ASSUME NEW T, NEW r1 \in T, NEW r2 \in T, NEW r3 \in T, NEW r4 \in T,
         NEW r5 \in T, NEW r6 \in T, NEW r7 \in T
  PROVE  <<r1, r2, r3, r4, r5, r6, r7>> \in Seq(T)
  OBVIOUS

LEMMA AccelerantTakes ==
  /\ Takes(ModuleOwn["accelerant"], radeon_init_accelerant)
  /\ TakesInOrder("accelerant", {}, radeon_init_accelerant)
<1>1. /\ <<>> \in Seq(ModuleOwn["accelerant"])
      /\ InfoOnly \in Seq(ModuleOwn["accelerant"])
      /\ InfoAndShared \in Seq(ModuleOwn["accelerant"])
  <2>1. <<>> \in Seq(ModuleOwn["accelerant"])
    OBVIOUS
  <2>. QED
    BY <2>1, AccelerantOwn, SeqOfOne, SeqOfTwo, Zenon DEF InfoOnly, InfoAndShared
<1>2. TakenAt("accelerant", {}, ModuleOwn["accelerant"], radeon_init_accelerant, 1)
  <2>1. StepAt(radeon_init_accelerant, 1, "take", "gInfo", <<>>)
    BY AccelerantSteps, Zenon
  <2>2. Reached(radeon_init_accelerant, 1, {}, {})
    BY AccelerantReached, Zenon
  <2>3. Rooted("accelerant", "gInfo", {}, {})
    BY DEF Rooted, RestsOn
  <2>4. "gInfo" \in ModuleOwn["accelerant"]
    BY AccelerantOwn, Zenon
  <2>. QED
    BY <2>1, <2>2, <2>3, <2>4, <1>1, RootedInOrder, Zenon
<1>3. TakenAt("accelerant", {}, ModuleOwn["accelerant"], radeon_init_accelerant, 2)
  <2>1. StepAt(radeon_init_accelerant, 2, "take", "displays", <<>>)
    BY AccelerantSteps, Zenon
  <2>2. Reached(radeon_init_accelerant, 2, {"gInfo"}, {"gInfo"})
    BY AccelerantReached, Zenon
  <2>3. Rooted("accelerant", "displays", {}, {"gInfo"})
    BY DEF Rooted, RestsOn
  <2>4. "displays" \in ModuleOwn["accelerant"]
    BY AccelerantOwn, Zenon
  <2>. QED
    BY <2>1, <2>2, <2>3, <2>4, <1>1, RootedInOrder, Zenon
<1>4. TakenAt("accelerant", {}, ModuleOwn["accelerant"], radeon_init_accelerant, 3)
  <2>1. StepAt(radeon_init_accelerant, 3, "take", "connectors", <<>>)
    BY AccelerantSteps, Zenon
  <2>2. Reached(radeon_init_accelerant, 3, {"gInfo", "displays"}, {"gInfo", "displays"})
    BY AccelerantReached, Zenon
  <2>3. Rooted("accelerant", "connectors", {}, {"gInfo", "displays"})
    BY DEF Rooted, RestsOn
  <2>4. "connectors" \in ModuleOwn["accelerant"]
    BY AccelerantOwn, Zenon
  <2>. QED
    BY <2>1, <2>2, <2>3, <2>4, <1>1, RootedInOrder, Zenon
<1>5. TakenAt("accelerant", {}, ModuleOwn["accelerant"], radeon_init_accelerant, 4)
  <2>1. StepAt(radeon_init_accelerant, 4, "take", "pins", <<>>)
    BY AccelerantSteps, Zenon
  <2>2. Reached(radeon_init_accelerant, 4, {"gInfo", "displays", "connectors"}, {"gInfo",
                "displays", "connectors"})
    BY AccelerantReached, Zenon
  <2>3. Rooted("accelerant", "pins", {}, {"gInfo", "displays", "connectors"})
    BY DEF Rooted, RestsOn
  <2>4. "pins" \in ModuleOwn["accelerant"]
    BY AccelerantOwn, Zenon
  <2>. QED
    BY <2>1, <2>2, <2>3, <2>4, <1>1, RootedInOrder, Zenon
<1>6. TakenAt("accelerant", {}, ModuleOwn["accelerant"], radeon_init_accelerant, 5)
  BY <1>1, AccelerantSteps, CheckedInOrder, Zenon
<1>7. TakenAt("accelerant", {}, ModuleOwn["accelerant"], radeon_init_accelerant, 6)
  <2>1. StepAt(radeon_init_accelerant, 6, "take", "shared area", InfoOnly)
    BY AccelerantSteps, Zenon
  <2>2. Reached(radeon_init_accelerant, 6, {"gInfo", "displays", "connectors", "pins"},
                {"gInfo", "displays", "connectors", "pins"})
    BY AccelerantReached, Zenon
  <2>3. Rooted("accelerant", "shared area", {}, {"gInfo", "displays", "connectors", "pins"})
    BY DEF Rooted, RestsOn
  <2>4. "shared area" \in ModuleOwn["accelerant"]
    BY AccelerantOwn, Zenon
  <2>. QED
    BY <2>1, <2>2, <2>3, <2>4, <1>1, RootedInOrder, Zenon
<1>8. TakenAt("accelerant", {}, ModuleOwn["accelerant"], radeon_init_accelerant, 7)
  <2>1. StepAt(radeon_init_accelerant, 7, "take", "regs area", InfoAndShared)
    BY AccelerantSteps, Zenon
  <2>2. Reached(radeon_init_accelerant, 7, {"gInfo", "displays", "connectors", "pins",
                "shared area"}, {"gInfo", "displays", "connectors", "pins", "shared area"})
    BY AccelerantReached, Zenon
  <2>3. Rooted("accelerant", "regs area", {}, {"gInfo", "displays", "connectors", "pins",
                "shared area"})
    BY DEF Rooted, RestsOn
  <2>4. "regs area" \in ModuleOwn["accelerant"]
    BY AccelerantOwn, Zenon
  <2>. QED
    BY <2>1, <2>2, <2>3, <2>4, <1>1, RootedInOrder, Zenon
<1>9. TakenAt("accelerant", {}, ModuleOwn["accelerant"], radeon_init_accelerant, 8)
  <2>1. StepAt(radeon_init_accelerant, 8, "must", "rom area", <<>>)
    BY AccelerantSteps, Zenon
  <2>2. Reached(radeon_init_accelerant, 8, {"gInfo", "displays", "connectors", "pins",
                "shared area", "regs area"}, {"gInfo", "displays", "connectors", "pins",
                              "shared area", "regs area"})
    BY AccelerantReached, Zenon
  <2>3. Rooted("accelerant", "rom area", {}, {"gInfo", "displays", "connectors", "pins",
                "shared area", "regs area"})
    BY DEF Rooted, RestsOn
  <2>4. "rom area" \in ModuleOwn["accelerant"]
    BY AccelerantOwn, Zenon
  <2>. QED
    BY <2>1, <2>2, <2>3, <2>4, <1>1, RootedInOrder, Zenon
<1>10. TakenAt("accelerant", {}, ModuleOwn["accelerant"], radeon_init_accelerant, 9)
  <2>1. StepAt(radeon_init_accelerant, 9, "try", "accelerant lock", <<>>)
    BY AccelerantSteps, Zenon
  <2>2. Reached(radeon_init_accelerant, 9, {"gInfo", "displays", "connectors", "pins",
                "shared area", "regs area", "rom area"}, {"gInfo", "displays", "connectors",
                              "pins", "shared area", "regs area", "rom area"})
    BY AccelerantReached, Zenon
  <2>3. Rooted("accelerant", "accelerant lock", {}, {"gInfo", "displays", "connectors", "pins",
                "shared area", "regs area", "rom area"})
    BY DEF Rooted, RestsOn
  <2>4. "accelerant lock" \in ModuleOwn["accelerant"]
    BY AccelerantOwn, Zenon
  <2>. QED
    BY <2>1, <2>2, <2>3, <2>4, <1>1, RootedInOrder, Zenon
<1>11. TakenAt("accelerant", {}, ModuleOwn["accelerant"], radeon_init_accelerant, 10)
  <2>1. StepAt(radeon_init_accelerant, 10, "try", "engine lock", <<>>)
    BY AccelerantSteps, Zenon
  <2>2. Reached(radeon_init_accelerant, 10, {"gInfo", "displays", "connectors", "pins",
                "shared area", "regs area", "rom area"}, {"gInfo", "displays", "connectors",
                              "pins", "shared area", "regs area", "rom area", "accelerant lock"})
    BY AccelerantReached, Zenon
  <2>3. Rooted("accelerant", "engine lock", {}, {"gInfo", "displays", "connectors", "pins",
                "shared area", "regs area", "rom area"})
    BY DEF Rooted, RestsOn
  <2>4. "engine lock" \in ModuleOwn["accelerant"]
    BY AccelerantOwn, Zenon
  <2>. QED
    BY <2>1, <2>2, <2>3, <2>4, <1>1, RootedInOrder, Zenon
<1>12. TakenAt("accelerant", {}, ModuleOwn["accelerant"], radeon_init_accelerant, 11)
  <2>1. StepAt(radeon_init_accelerant, 11, "must", "card info", <<>>)
    BY AccelerantSteps, Zenon
  <2>2. Reached(radeon_init_accelerant, 11, {"gInfo", "displays", "connectors", "pins",
                "shared area", "regs area", "rom area"}, {"gInfo", "displays", "connectors",
                              "pins", "shared area", "regs area", "rom area", "accelerant lock",
                                            "engine lock"})
    BY AccelerantReached, Zenon
  <2>3. Rooted("accelerant", "card info", {}, {"gInfo", "displays", "connectors", "pins",
                "shared area", "regs area", "rom area"})
    BY DEF Rooted, RestsOn
  <2>4. "card info" \in ModuleOwn["accelerant"]
    BY AccelerantOwn, Zenon
  <2>. QED
    BY <2>1, <2>2, <2>3, <2>4, <1>1, RootedInOrder, Zenon
<1>13. TakenAt("accelerant", {}, ModuleOwn["accelerant"], radeon_init_accelerant, 12)
  <2>1. StepAt(radeon_init_accelerant, 12, "must", "atom context", <<>>)
    BY AccelerantSteps, Zenon
  <2>2. Reached(radeon_init_accelerant, 12, {"gInfo", "displays", "connectors", "pins",
                "shared area", "regs area", "rom area", "card info"}, {"gInfo", "displays",
                              "connectors", "pins", "shared area", "regs area", "rom area",
                                            "accelerant lock", "engine lock", "card info"})
    BY AccelerantReached, Zenon
  <2>3. Rooted("accelerant", "atom context", {}, {"gInfo", "displays", "connectors", "pins",
                "shared area", "regs area", "rom area", "card info"})
    BY DEF Rooted, RestsOn
  <2>4. "atom context" \in ModuleOwn["accelerant"]
    BY AccelerantOwn, Zenon
  <2>. QED
    BY <2>1, <2>2, <2>3, <2>4, <1>1, RootedInOrder, Zenon
<1>14. TakenAt("accelerant", {}, ModuleOwn["accelerant"], radeon_init_accelerant, 13)
  <2>1. StepAt(radeon_init_accelerant, 13, "try", "iio", <<>>)
    BY AccelerantSteps, Zenon
  <2>2. Reached(radeon_init_accelerant, 13, {"gInfo", "displays", "connectors", "pins",
                "shared area", "regs area", "rom area", "card info", "atom context"}, {"gInfo",
                              "displays", "connectors", "pins", "shared area", "regs area",
                                            "rom area", "accelerant lock", "engine lock",
                                                          "card info", "atom context"})
    BY AccelerantReached, Zenon
  <2>3. Rooted("accelerant", "iio", {}, {"gInfo", "displays", "connectors", "pins",
                "shared area", "regs area", "rom area", "card info", "atom context"})
    BY DEF Rooted, RestsOn
  <2>4. "iio" \in ModuleOwn["accelerant"]
    BY AccelerantOwn, Zenon
  <2>. QED
    BY <2>1, <2>2, <2>3, <2>4, <1>1, RootedInOrder, Zenon
<1>15. TakenAt("accelerant", {}, ModuleOwn["accelerant"], radeon_init_accelerant, 14)
  <2>1. 14 < Len(radeon_init_accelerant)
    <3>1. Len(radeon_init_accelerant) = 18
      BY AccelerantSteps, Zenon
    <3>. QED
      BY <3>1
  <2>. QED
    BY <2>1, <1>1, AccelerantSteps, Counted, AccelerantOwn, SemaphoreInOrder, Zenon
<1>16. TakenAt("accelerant", {}, ModuleOwn["accelerant"], radeon_init_accelerant, 15)
  <2>1. StepAt(radeon_init_accelerant, 15, "try", "scratch", <<>>)
    BY AccelerantSteps, Zenon
  <2>2. Reached(radeon_init_accelerant, 15, {"gInfo", "displays", "connectors", "pins",
                "shared area", "regs area", "rom area", "card info", "atom context"}, {"gInfo",
                              "displays", "connectors", "pins", "shared area", "regs area",
                                            "rom area", "accelerant lock", "engine lock",
                                                          "card info", "atom context", "iio",
                                                                        "exec sem"})
    BY AccelerantReached, Zenon
  <2>3. Rooted("accelerant", "scratch", {}, {"gInfo", "displays", "connectors", "pins",
                "shared area", "regs area", "rom area", "card info", "atom context"})
    BY DEF Rooted, RestsOn
  <2>4. "scratch" \in ModuleOwn["accelerant"]
    BY AccelerantOwn, Zenon
  <2>. QED
    BY <2>1, <2>2, <2>3, <2>4, <1>1, RootedInOrder, Zenon
<1>17. TakenAt("accelerant", {}, ModuleOwn["accelerant"], radeon_init_accelerant, 16)
  BY <1>1, AccelerantSteps, CheckedInOrder, Zenon
<1>18. TakenAt("accelerant", {}, ModuleOwn["accelerant"], radeon_init_accelerant, 17)
  <2>1. StepAt(radeon_init_accelerant, 17, "try", "mode list area", <<>>)
    BY AccelerantSteps, Zenon
  <2>2. Reached(radeon_init_accelerant, 17, {"gInfo", "displays", "connectors", "pins",
                "shared area", "regs area", "rom area", "card info", "atom context"}, {"gInfo",
                              "displays", "connectors", "pins", "shared area", "regs area",
                                            "rom area", "accelerant lock", "engine lock",
                                                          "card info", "atom context", "iio",
                                                                        "exec sem", "scratch"})
    BY AccelerantReached, Zenon
  <2>3. Rooted("accelerant", "mode list area", {}, {"gInfo", "displays", "connectors", "pins",
                "shared area", "regs area", "rom area", "card info", "atom context"})
    BY DEF Rooted, RestsOn
  <2>4. "mode list area" \in ModuleOwn["accelerant"]
    BY AccelerantOwn, Zenon
  <2>. QED
    BY <2>1, <2>2, <2>3, <2>4, <1>1, RootedInOrder, Zenon
<1>19. TakenAt("accelerant", {}, ModuleOwn["accelerant"], radeon_init_accelerant, 18)
  <2>1. StepAt(radeon_init_accelerant, 18, "try", "ring queue", <<>>)
    BY AccelerantSteps, Zenon
  <2>2. Reached(radeon_init_accelerant, 18, {"gInfo", "displays", "connectors", "pins",
                "shared area", "regs area", "rom area", "card info", "atom context"}, {"gInfo",
                              "displays", "connectors", "pins", "shared area", "regs area",
                                            "rom area", "accelerant lock", "engine lock",
                                                          "card info", "atom context", "iio",
                                                                        "exec sem", "scratch",
                    "mode list area"})
    BY AccelerantReached, Zenon
  <2>3. Rooted("accelerant", "ring queue", {}, {"gInfo", "displays", "connectors", "pins",
                "shared area", "regs area", "rom area", "card info", "atom context"})
    BY DEF Rooted, RestsOn
  <2>4. "ring queue" \in ModuleOwn["accelerant"]
    BY AccelerantOwn, Zenon
  <2>. QED
    BY <2>1, <2>2, <2>3, <2>4, <1>1, RootedInOrder, Zenon
<1>20. ASSUME NEW k \in 1 .. Len(radeon_init_accelerant)
      PROVE  TakenAt("accelerant", {}, ModuleOwn["accelerant"], radeon_init_accelerant, k)
  <2>1. Len(radeon_init_accelerant) = 18
    BY AccelerantSteps, Zenon
  <2>2. k = 1 \/ k = 2 \/ k = 3 \/ k = 4 \/ k = 5 \/ k = 6 \/ k = 7 \/ k = 8 \/ k = 9 \/ k = 10 \/
        k = 11 \/ k = 12 \/ k = 13 \/ k = 14 \/ k = 15 \/ k = 16 \/ k = 17 \/ k = 18
    BY <2>1, <1>20
  <2>. QED
    BY <2>2, <1>2, <1>3, <1>4, <1>5, <1>6, <1>7, <1>8, <1>9, <1>10, <1>11, <1>12, <1>13, <1>14,
       <1>15, <1>16, <1>17, <1>18, <1>19, Zenon
<1>21. radeon_init_accelerant \in Seq(Steps)
  BY AccelerantSteps, Zenon
<1>. QED
  BY <1>20, <1>21, Zenon DEF Takes, TakesInOrder, TakenAt

LEMMA AccelerantUndoes ==
  /\ UndoneAt("accelerant", radeon_init_accelerant, 1, {}, {})
  /\ UndoneAt("accelerant", radeon_init_accelerant, 2, {"gInfo"}, {"gInfo"})
  /\ UndoneAt("accelerant", radeon_init_accelerant, 3, {"gInfo", "displays"}, {"gInfo",
                "displays"})
  /\ UndoneAt("accelerant", radeon_init_accelerant, 4, {"gInfo", "displays", "connectors"},
                {"gInfo", "displays", "connectors"})
  /\ UndoneAt("accelerant", radeon_init_accelerant, 5, {"displays", "connectors", "pins"},
                {"displays", "connectors", "pins"})
  /\ UndoneAt("accelerant", radeon_init_accelerant, 6, {"displays", "connectors", "pins"},
                {"displays", "connectors", "pins"})
  /\ UndoneAt("accelerant", radeon_init_accelerant, 7, {"displays", "connectors", "pins"},
                {"displays", "connectors", "pins"})
  /\ UndoneAt("accelerant", radeon_init_accelerant, 16, {"gInfo", "displays", "connectors",
                "pins", "shared area", "regs area", "rom area", "card info", "atom context"},
                              {"gInfo", "displays", "connectors", "pins", "shared area",
                                            "regs area", "rom area", "accelerant lock",
                                                          "engine lock", "card info",
                                                                        "atom context", "iio",
                    "exec sem", "scratch"})
  /\ \A k \in Failing(radeon_init_accelerant) : k = 1 \/ k = 2 \/ k = 3 \/ k = 4 \/ k = 5 \/ k = 6
       \/ k = 7 \/ k = 16
<1>1. UndoneAt("accelerant", radeon_init_accelerant, 1, {}, {})
  <2>. DEFINE lo == {}
  <2>1. StepAt(radeon_init_accelerant, 1, "take", "gInfo", <<>>) /\
          Reached(radeon_init_accelerant, 1, lo, lo)
    BY AccelerantSteps, AccelerantReached, Zenon
  <2>. HIDE DEF lo
  <2>2. UndoneAt("accelerant", radeon_init_accelerant, 1, lo, lo)
    BY <2>1, UndoesNothing, UndoneInOrder, Zenon
  <2>. QED
    BY <2>2, Zenon DEF lo
<1>2. UndoneAt("accelerant", radeon_init_accelerant, 2, {"gInfo"}, {"gInfo"})
  <2>. DEFINE lo == {"gInfo"}
  <2>1. StepAt(radeon_init_accelerant, 2, "take", "displays", <<>>) /\
          Reached(radeon_init_accelerant, 2, lo, lo)
    BY AccelerantSteps, AccelerantReached, Zenon
  <2>. HIDE DEF lo
  <2>2. UndoneAt("accelerant", radeon_init_accelerant, 2, lo, lo)
    BY <2>1, UndoesNothing, UndoneInOrder, Zenon
  <2>. QED
    BY <2>2, Zenon DEF lo
<1>3. UndoneAt("accelerant", radeon_init_accelerant, 3, {"gInfo", "displays"}, {"gInfo",
              "displays"})
  <2>. DEFINE lo == {"gInfo", "displays"}
  <2>1. StepAt(radeon_init_accelerant, 3, "take", "connectors", <<>>) /\
          Reached(radeon_init_accelerant, 3, lo, lo)
    BY AccelerantSteps, AccelerantReached, Zenon
  <2>. HIDE DEF lo
  <2>2. UndoneAt("accelerant", radeon_init_accelerant, 3, lo, lo)
    BY <2>1, UndoesNothing, UndoneInOrder, Zenon
  <2>. QED
    BY <2>2, Zenon DEF lo
<1>4. UndoneAt("accelerant", radeon_init_accelerant, 4, {"gInfo", "displays", "connectors"},
              {"gInfo", "displays", "connectors"})
  <2>. DEFINE lo == {"gInfo", "displays", "connectors"}
  <2>1. StepAt(radeon_init_accelerant, 4, "take", "pins", <<>>) /\
          Reached(radeon_init_accelerant, 4, lo, lo)
    BY AccelerantSteps, AccelerantReached, Zenon
  <2>. HIDE DEF lo
  <2>2. UndoneAt("accelerant", radeon_init_accelerant, 4, lo, lo)
    BY <2>1, UndoesNothing, UndoneInOrder, Zenon
  <2>. QED
    BY <2>2, Zenon DEF lo
<1>5. UndoneAt("accelerant", radeon_init_accelerant, 5, {"displays", "connectors", "pins"},
              {"displays", "connectors", "pins"})
  <2>. DEFINE lo     == {"gInfo", "displays", "connectors", "pins"}
               left   == {"displays", "connectors", "pins"}
  <2>1. StepAt(radeon_init_accelerant, 5, "check", "", InfoOnly) /\
          Reached(radeon_init_accelerant, 5, lo, lo)
    BY AccelerantSteps, AccelerantReached, Zenon
  <2>2. /\ Free("accelerant", "gInfo", lo, lo, {})
    BY DEF Free, MayBeNull, RestsOn
  <2>3. lo \ {"gInfo"} = left
    OBVIOUS
  <2>. HIDE DEF lo, left
  <2>4. GivesInOrder("accelerant", Give(<<"gInfo">>), lo, lo)
    BY <2>2, AccelerantOwn, ListOfOne, Zenon
  <2>5. LeftBy(Give(<<"gInfo">>), lo) = left
    <3>1. Leaves(Give(<<"gInfo">>), {"gInfo"})
      BY <2>2, AccelerantOwn, ListOfOne, Zenon
    <3>. QED
      BY <3>1, <2>3, Zenon DEF Leaves
  <2>6. UndoneAt("accelerant", radeon_init_accelerant, 5, left, left)
    BY <2>1, <2>4, <2>5, UndoneInOrder, Zenon DEF InfoOnly, InfoAndShared
  <2>. QED
    BY <2>6, Zenon DEF left
<1>6. UndoneAt("accelerant", radeon_init_accelerant, 6, {"displays", "connectors", "pins"},
              {"displays", "connectors", "pins"})
  <2>. DEFINE lo     == {"gInfo", "displays", "connectors", "pins"}
               left   == {"displays", "connectors", "pins"}
  <2>1. StepAt(radeon_init_accelerant, 6, "take", "shared area", InfoOnly) /\
          Reached(radeon_init_accelerant, 6, lo, lo)
    BY AccelerantSteps, AccelerantReached, Zenon
  <2>2. /\ Free("accelerant", "gInfo", lo, lo, {})
    BY DEF Free, MayBeNull, RestsOn
  <2>3. lo \ {"gInfo"} = left
    OBVIOUS
  <2>. HIDE DEF lo, left
  <2>4. GivesInOrder("accelerant", Give(<<"gInfo">>), lo, lo)
    BY <2>2, AccelerantOwn, ListOfOne, Zenon
  <2>5. LeftBy(Give(<<"gInfo">>), lo) = left
    <3>1. Leaves(Give(<<"gInfo">>), {"gInfo"})
      BY <2>2, AccelerantOwn, ListOfOne, Zenon
    <3>. QED
      BY <3>1, <2>3, Zenon DEF Leaves
  <2>6. UndoneAt("accelerant", radeon_init_accelerant, 6, left, left)
    BY <2>1, <2>4, <2>5, UndoneInOrder, Zenon DEF InfoOnly, InfoAndShared
  <2>. QED
    BY <2>6, Zenon DEF left
<1>7. UndoneAt("accelerant", radeon_init_accelerant, 7, {"displays", "connectors", "pins"},
              {"displays", "connectors", "pins"})
  <2>. DEFINE lo     == {"gInfo", "displays", "connectors", "pins", "shared area"}
               left   == {"displays", "connectors", "pins"}
  <2>1. StepAt(radeon_init_accelerant, 7, "take", "regs area", InfoAndShared) /\
          Reached(radeon_init_accelerant, 7, lo, lo)
    BY AccelerantSteps, AccelerantReached, Zenon
  <2>2. /\ Free("accelerant", "gInfo", lo, lo, {})
        /\ Free("accelerant", "shared area", lo, lo, {"gInfo"})
    BY DEF Free, MayBeNull, RestsOn
  <2>3. lo \ {"gInfo", "shared area"} = left
    OBVIOUS
  <2>. HIDE DEF lo, left
  <2>4. GivesInOrder("accelerant", Give(<<"gInfo", "shared area">>), lo, lo)
    BY <2>2, AccelerantOwn, ListOfTwo, Zenon
  <2>5. LeftBy(Give(<<"gInfo", "shared area">>), lo) = left
    <3>1. Leaves(Give(<<"gInfo", "shared area">>), {"gInfo", "shared area"})
      BY <2>2, AccelerantOwn, ListOfTwo, Zenon
    <3>. QED
      BY <3>1, <2>3, Zenon DEF Leaves
  <2>6. UndoneAt("accelerant", radeon_init_accelerant, 7, left, left)
    BY <2>1, <2>4, <2>5, UndoneInOrder, Zenon DEF InfoOnly, InfoAndShared
  <2>. QED
    BY <2>6, Zenon DEF left
<1>8. UndoneAt("accelerant", radeon_init_accelerant, 16, {"gInfo", "displays", "connectors",
              "pins", "shared area", "regs area", "rom area", "card info", "atom context"},
                            {"gInfo", "displays", "connectors", "pins", "shared area",
                                          "regs area", "rom area", "accelerant lock",
                                                        "engine lock", "card info",
                                                                      "atom context", "iio",
                                                                                    "exec sem",
                    "scratch"})
  <2>. DEFINE lo == {"gInfo", "displays", "connectors", "pins", "shared area", "regs area",
                "rom area", "card info", "atom context"}
               hi == {"gInfo", "displays", "connectors", "pins", "shared area", "regs area",
                             "rom area", "accelerant lock", "engine lock", "card info",
                                           "atom context", "iio", "exec sem", "scratch"}
  <2>1. StepAt(radeon_init_accelerant, 16, "check", "", <<>>) /\
          Reached(radeon_init_accelerant, 16, lo, hi)
    BY AccelerantSteps, AccelerantReached, Zenon
  <2>. HIDE DEF lo, hi
  <2>2. UndoneAt("accelerant", radeon_init_accelerant, 16, lo, hi)
    BY <2>1, UndoesNothing, UndoneInOrder, Zenon
  <2>. QED
    BY <2>2, Zenon DEF lo, hi
<1>9. ASSUME NEW k \in Failing(radeon_init_accelerant)
      PROVE  k = 1 \/ k = 2 \/ k = 3 \/ k = 4 \/ k = 5 \/ k = 6 \/ k = 7 \/ k = 16
  <2>1. k \in 1 .. 18
    BY <1>9, AccelerantSteps DEF Failing
  <2>2. k # 8 /\ k # 9 /\ k # 10 /\ k # 11 /\ k # 12 /\ k # 13 /\ k # 14 /\ k # 15 /\ k # 17 /\
        k # 18
    BY <1>9, AccelerantSteps, TryNeverFails, Zenon
  <2>. QED
    BY <2>1, <2>2
<1>. QED
  BY <1>1, <1>2, <1>3, <1>4, <1>5, <1>6, <1>7, <1>8, <1>9, Zenon

(* radeon_uninit_accelerant() gives back the locks before the areas they    *)
(* lie in.                                                                  *)
LEMMA AccelerantExitGives ==
  /\ Gives(ModuleOwn["accelerant"], radeon_uninit_accelerant)
  /\ GivesInOrder("accelerant", radeon_uninit_accelerant, Taken(radeon_init_accelerant).lo,
          Taken(radeon_init_accelerant).hi)
  /\ Taken(radeon_init_accelerant).hi = {"gInfo", "displays", "connectors", "pins",
                "shared area", "regs area", "rom area", "accelerant lock", "engine lock",
                              "card info", "atom context", "iio", "exec sem", "scratch",
                                            "mode list area", "ring queue"}
  /\ LeftBy(radeon_uninit_accelerant, Taken(radeon_init_accelerant).hi) = {"card info",
                "atom context", "iio", "exec sem", "scratch", "mode list area", "ring queue"}
<1>1. radeon_uninit_accelerant = Give(<<"accelerant lock", "engine lock", "regs area",
              "shared area", "rom area", "gInfo", "displays", "connectors", "pins">>)
  <2>. DEFINE r1 == "accelerant lock"
              r2 == "engine lock"
              r3 == "regs area"
              r4 == "shared area"
              r5 == "rom area"
              r6 == "gInfo"
              r7 == "displays"
              r8 == "connectors"
              r9 == "pins"
  <2>1. /\ r1 \in Resources /\ r2 \in Resources /\ r3 \in Resources /\ r4 \in Resources
        /\ r5 \in Resources /\ r6 \in Resources /\ r7 \in Resources /\ r8 \in Resources
        /\ r9 \in Resources
    BY DEF Resources
  <2>2. radeon_uninit_accelerant = Give(<<r1, r2>>) \o Give(<<r3, r4, r5, r6, r7, r8, r9>>)
    BY Zenon DEF radeon_uninit_accelerant, uninit_common
  <2>. HIDE DEF r1, r2, r3, r4, r5, r6, r7, r8, r9
  <2>3. <<r1, r2>> \in Seq(Resources) /\ <<r3, r4, r5, r6, r7, r8, r9>> \in Seq(Resources)
    BY <2>1, SeqOfTwo, SeqOfSeven
  <2>4. <<r1, r2>> \o <<r3, r4, r5, r6, r7, r8, r9>> = <<r1, r2, r3, r4, r5, r6, r7, r8, r9>>
    BY TwoAndSeven
  <2>5. radeon_uninit_accelerant = Give(<<r1, r2, r3, r4, r5, r6, r7, r8, r9>>)
    BY <2>2, <2>3, <2>4, GiveBoth, Zenon
  <2>. QED
    BY <2>5, Zenon DEF r1, r2, r3, r4, r5, r6, r7, r8, r9
<1>. DEFINE lo   == {"gInfo", "displays", "connectors", "pins", "shared area", "regs area",
              "rom area", "card info", "atom context"}
            hi   == {"gInfo", "displays", "connectors", "pins", "shared area", "regs area",
                          "rom area", "accelerant lock", "engine lock", "card info",
                                        "atom context", "iio", "exec sem", "scratch",
                                                      "mode list area", "ring queue"}
            left == {"card info", "atom context", "iio", "exec sem", "scratch",
                          "mode list area", "ring queue"}
<1>2. Taken(radeon_init_accelerant).lo = lo /\ Taken(radeon_init_accelerant).hi = hi
  <2>1. Follows(Len(radeon_init_accelerant), 19)
    BY AccelerantSteps, Counted, Zenon
  <2>2. Reached(radeon_init_accelerant, 19, lo, hi)
    BY AccelerantReached, Zenon
  <2>. HIDE DEF lo, hi
  <2>. QED
    BY <2>1, <2>2, TakenIs, Zenon
<1>3. /\ Free("accelerant", "accelerant lock", lo, hi, {})
      /\ Free("accelerant", "engine lock", lo, hi, {"accelerant lock"})
      /\ Free("accelerant", "regs area", lo, hi, {"accelerant lock", "engine lock"})
      /\ Free("accelerant", "shared area", lo, hi, {"accelerant lock", "engine lock", "regs area"})
      /\ Free("accelerant", "rom area", lo, hi, {"accelerant lock", "engine lock", "regs area",
                    "shared area"})
      /\ Free("accelerant", "gInfo", lo, hi, {"accelerant lock", "engine lock", "regs area",
                    "shared area", "rom area"})
      /\ Free("accelerant", "displays", lo, hi, {"accelerant lock", "engine lock", "regs area",
                    "shared area", "rom area", "gInfo"})
      /\ Free("accelerant", "connectors", lo, hi, {"accelerant lock", "engine lock",
                    "regs area", "shared area", "rom area", "gInfo", "displays"})
      /\ Free("accelerant", "pins", lo, hi, {"accelerant lock", "engine lock", "regs area",
                    "shared area", "rom area", "gInfo", "displays", "connectors"})
  BY DEF Free, MayBeNull, RestsOn
<1>4. hi \ {"accelerant lock", "engine lock", "regs area", "shared area", "rom area", "gInfo",
              "displays", "connectors", "pins"} = left
  OBVIOUS
<1>. HIDE DEF lo, hi, left
<1>5. <<"accelerant lock", "engine lock", "regs area", "shared area", "rom area", "gInfo",
              "displays", "connectors", "pins">> \in Seq(ModuleOwn["accelerant"])
  BY AccelerantOwn, <1>3, ListOfNine, Zenon
<1>6. GivesInOrder("accelerant", Give(<<"accelerant lock", "engine lock", "regs area",
              "shared area", "rom area", "gInfo", "displays", "connectors", "pins">>), lo, hi)
  BY AccelerantOwn, <1>3, ListOfNine, Zenon
<1>7. LeftBy(Give(<<"accelerant lock", "engine lock", "regs area", "shared area", "rom area",
              "gInfo", "displays", "connectors", "pins">>), hi) = left
  <2>1. Leaves(Give(<<"accelerant lock", "engine lock", "regs area", "shared area", "rom area",
                "gInfo", "displays", "connectors", "pins">>), {"accelerant lock", "engine lock",
                              "regs area", "shared area", "rom area", "gInfo", "displays",
                                            "connectors", "pins"})
    BY AccelerantOwn, <1>3, ListOfNine, Zenon
  <2>. QED
    BY <2>1, <1>4, Zenon DEF Leaves
<1>8. Gives(ModuleOwn["accelerant"], radeon_uninit_accelerant)
  BY <1>1, <1>5, AccelerantOwn, GiveIsProcedure, Zenon
<1>. QED
  BY <1>1, <1>2, <1>6, <1>7, <1>8, Zenon DEF hi, left

LEMMA AccelerantOrderly == Orderly("accelerant", {}, ModuleOwn["accelerant"],
        radeon_init_accelerant, radeon_uninit_accelerant)
<1>1. ASSUME NEW k \in Failing(radeon_init_accelerant)
      PROVE  GivesInOrder("accelerant", Give(radeon_init_accelerant[k].undo),
              Took(radeon_init_accelerant, k), Had(radeon_init_accelerant, k))
  <2>1. k = 1 \/ k = 2 \/ k = 3 \/ k = 4 \/ k = 5 \/ k = 6 \/ k = 7 \/ k = 16
    BY <1>1, AccelerantUndoes, Zenon
  <2>2. /\ GivesInOrder("accelerant", Give(radeon_init_accelerant[1].undo),
          Took(radeon_init_accelerant, 1), Had(radeon_init_accelerant, 1))
        /\ GivesInOrder("accelerant", Give(radeon_init_accelerant[2].undo),
                Took(radeon_init_accelerant, 2), Had(radeon_init_accelerant, 2))
        /\ GivesInOrder("accelerant", Give(radeon_init_accelerant[3].undo),
                Took(radeon_init_accelerant, 3), Had(radeon_init_accelerant, 3))
        /\ GivesInOrder("accelerant", Give(radeon_init_accelerant[4].undo),
                Took(radeon_init_accelerant, 4), Had(radeon_init_accelerant, 4))
        /\ GivesInOrder("accelerant", Give(radeon_init_accelerant[5].undo),
                Took(radeon_init_accelerant, 5), Had(radeon_init_accelerant, 5))
        /\ GivesInOrder("accelerant", Give(radeon_init_accelerant[6].undo),
                Took(radeon_init_accelerant, 6), Had(radeon_init_accelerant, 6))
        /\ GivesInOrder("accelerant", Give(radeon_init_accelerant[7].undo),
                Took(radeon_init_accelerant, 7), Had(radeon_init_accelerant, 7))
        /\ GivesInOrder("accelerant", Give(radeon_init_accelerant[16].undo),
                Took(radeon_init_accelerant, 16), Had(radeon_init_accelerant, 16))
    BY AccelerantUndoes, Zenon DEF UndoneAt
  <2>. QED
    BY <2>1, <2>2, Zenon
<1>. QED
  BY <1>1, AccelerantTakes, AccelerantExitGives, Zenon DEF Orderly

(* It leaves its common part whole or none of its areas, and in the end     *)
(* only what it leaks.                                                      *)
LEMMA AccelerantClean ==
  /\ LeftBy(radeon_uninit_accelerant, Taken(radeon_init_accelerant).hi) \subseteq
          Leaked["accelerant"]
  /\ \A k \in Failing(radeon_init_accelerant) :
       \/ Areas \cup {"gInfo"} \subseteq
            LeftBy(Give(radeon_init_accelerant[k].undo), Took(radeon_init_accelerant, k))
       \/ Areas \cap LeftBy(Give(radeon_init_accelerant[k].undo), Had(radeon_init_accelerant,
               k)) = {}
<1>. DEFINE undo(k)   == Give(radeon_init_accelerant[k].undo)
            leftLo(k) == LeftBy(undo(k), Took(radeon_init_accelerant, k))
            leftHi(k) == LeftBy(undo(k), Had(radeon_init_accelerant, k))
<1>1. LeftBy(radeon_uninit_accelerant, Taken(radeon_init_accelerant).hi) \subseteq
        Leaked["accelerant"]
  BY AccelerantExitGives, LeakedIs
<1>2. ASSUME NEW k \in Failing(radeon_init_accelerant)
      PROVE  Areas \cup {"gInfo"} \subseteq leftLo(k) \/ Areas \cap leftHi(k) = {}
  <2>1. k = 1 \/ k = 2 \/ k = 3 \/ k = 4 \/ k = 5 \/ k = 6 \/ k = 7 \/ k = 16
    BY <1>2, AccelerantUndoes, Zenon
  <2>2. /\ leftHi(1) = {}
        /\ leftHi(2) = {"gInfo"}
        /\ leftHi(3) = {"gInfo", "displays"}
        /\ leftHi(4) = {"gInfo", "displays", "connectors"}
        /\ leftHi(5) = {"displays", "connectors", "pins"}
        /\ leftHi(6) = {"displays", "connectors", "pins"}
        /\ leftHi(7) = {"displays", "connectors", "pins"}
    BY AccelerantUndoes, Zenon DEF UndoneAt
  <2>3. leftLo(16) = {"gInfo", "displays", "connectors", "pins", "shared area", "regs area",
                "rom area", "card info", "atom context"}
    BY AccelerantUndoes, Zenon DEF UndoneAt
  <2>4. /\ Areas \cap {} = {}
        /\ Areas \cap {"gInfo"} = {}
        /\ Areas \cap {"gInfo", "displays"} = {}
        /\ Areas \cap {"gInfo", "displays", "connectors"} = {}
        /\ Areas \cap {"displays", "connectors", "pins"} = {}
    BY DEF Areas
  <2>5. Areas \cup {"gInfo"} \subseteq {"gInfo", "displays", "connectors", "pins",
                "shared area", "regs area", "rom area", "card info", "atom context"}
    BY DEF Areas
  <2>. QED
    BY <2>1, <2>2, <2>3, <2>4, <2>5, Zenon
<1>. QED
  BY <1>1, <1>2

(* The procedures of the three drivers are orderly and leave nothing but    *)
(* what they leak.                                                          *)
LEMMA AllSound == \A d \in Drivers : Sound(d)
<1>1. Sound("kernel")
  <2>1. /\ Load["kernel"] = kernel_init /\ Unload["kernel"] = kernel_exit
        /\ CardProbe["kernel"] = kernel_probe /\ CardRemove["kernel"] = kernel_remove
        /\ Ground("kernel") = {"class", "region", "cdev", "pci driver"}
    BY DEF Load, Unload, CardProbe, CardRemove, Ground
  <2>2. Taken(kernel_init).hi \subseteq {"class", "region", "cdev", "pci driver"}
    BY KernelExitGives
  <2>3. "kernel" # "accelerant"
    OBVIOUS
  <2>. QED
    BY <2>1, <2>2, <2>3, KernelInitOrderly, KernelInitClean, KernelProbeOrderly, KernelProbeClean,
            Zenon
    DEF Sound, Ends
<1>2. Sound("drm")
  <2>1. /\ Load["drm"] = drm_init /\ Unload["drm"] = drm_exit
        /\ CardProbe["drm"] = drm_probe /\ CardRemove["drm"] = drm_remove /\ Ground("drm") = {}
    BY DEF Load, Unload, CardProbe, CardRemove, Ground
  <2>2. Taken(drm_init).hi \subseteq {"class", "region", "cdev", "pci driver"}
    BY DrmExitGives
  <2>3. "drm" # "accelerant"
    OBVIOUS
  <2>. QED
    BY <2>1, <2>2, <2>3, DrmInitOrderly, DrmInitClean, DrmProbeOrderly, DrmProbeClean, Zenon
    DEF Sound, Ends
<1>3. Sound("accelerant")
  <2>1. /\ Load["accelerant"] = radeon_init_accelerant
        /\ Unload["accelerant"] = radeon_uninit_accelerant
        /\ CardProbe["accelerant"] = <<>> /\ CardRemove["accelerant"] = <<>>
        /\ Ground("accelerant") = {}
    BY DEF Load, Unload, CardProbe, CardRemove, Ground
  <2>2. /\ Orderly("accelerant", {}, CardOwn["accelerant"], <<>>, <<>>) /\ Failing(<<>>) = {}
        /\ LeftBy(<<>>, Taken(<<>>).hi) \subseteq Leaked["accelerant"]
    <3>1. LeftBy(<<>>, Taken(<<>>).hi) = {}
      BY NoProcedure, Zenon
    <3>2. {} \subseteq Leaked["accelerant"]
      OBVIOUS
    <3>. QED
      BY <3>1, <3>2, NoProcedure, Zenon
  <2>3. ASSUME NEW k \in Failing(<<>>)
        PROVE  LeftBy(Give(CardProbe["accelerant"][k].undo), Had(CardProbe["accelerant"], k))
                 \subseteq Leaked["accelerant"]
    BY <2>2, <2>3
  <2>4. Ends("accelerant")
    BY <2>1, <2>2, <2>3, AccelerantClean, Zenon DEF Ends
  <2>. QED
    BY <2>1, <2>2, <2>4, AccelerantOrderly, Zenon DEF Sound
<1>. QED
  BY <1>1, <1>2, <1>3, Zenon DEF Drivers

-----------------------------------------------------------------------------
(* The points of the procedures, wherever they are. *)
Loads(d)   == Taking(Load[d]) \cup Undoing(Load[d]) \cup {Nothing, Taken(Load[d])} \cup
        Stopped(Load[d])
                \cup Giving(Unload[d], Taken(Load[d]).lo, Taken(Load[d]).hi)
Carries(d) == Taking(CardProbe[d]) \cup Undoing(CardProbe[d]) \cup {Nothing, Taken(CardProbe[d])}
                \cup Giving(CardRemove[d], Taken(CardProbe[d]).lo, Taken(CardProbe[d]).hi)

(* Every point of the module, and every one of a card, is well. *)
LEMMA ModuleWell ==
  ASSUME NEW d \in Drivers, NEW m \in Loads(d)
  PROVE  Well(d, {}, ModuleOwn[d], m)
<1>1. Orderly(d, {}, ModuleOwn[d], Load[d], Unload[d])
  BY AllSound DEF Sound
<1>2. Takes(ModuleOwn[d], Load[d]) /\ TakesInOrder(d, {}, Load[d])
  BY <1>1 DEF Orderly
<1>3. ModuleOwn[d] \in SUBSET Resources
  BY OwnResources
<1>4. \A n \in Taking(Load[d]) : Well(d, {}, ModuleOwn[d], n)
  BY <1>2, <1>3, TakingWell
<1>5. \A n \in Undoing(Load[d]) : Well(d, {}, ModuleOwn[d], n)
  BY <1>1, <1>3, UndoingWell
<1>6. /\ Taken(Load[d]) \in Taking(Load[d])
      /\ \A n \in Giving(Unload[d], Taken(Load[d]).lo, Taken(Load[d]).hi) :
           Well(d, {}, ModuleOwn[d], n)
  BY <1>1, <1>3, TakenWell
<1>7. \A n \in Stopped(Load[d]) : Well(d, {}, ModuleOwn[d], n)
  <2>. TAKE n \in Stopped(Load[d])
  <2>1. PICK x \in Taking(Load[d]) : n = Point(<<>>, x.lo, x.hi)
    BY DEF Stopped
  <2>. QED
    BY <2>1, <1>4 DEF Well, Point
<1>. QED
  BY <1>4, <1>5, <1>6, <1>7, NothingWell DEF Loads

LEMMA CardWell ==
  ASSUME NEW d \in Drivers, NEW c \in Carries(d)
  PROVE  Well(d, Ground(d), CardOwn[d], c)
<1>1. Orderly(d, Ground(d), CardOwn[d], CardProbe[d], CardRemove[d])
  BY AllSound DEF Sound
<1>2. Takes(CardOwn[d], CardProbe[d]) /\ TakesInOrder(d, Ground(d), CardProbe[d])
  BY <1>1 DEF Orderly
<1>3. CardOwn[d] \in SUBSET Resources
  BY OwnResources
<1>4. \A n \in Taking(CardProbe[d]) : Well(d, Ground(d), CardOwn[d], n)
  BY <1>2, <1>3, TakingWell
<1>5. \A n \in Undoing(CardProbe[d]) : Well(d, Ground(d), CardOwn[d], n)
  BY <1>1, <1>3, UndoingWell
<1>6. /\ Taken(CardProbe[d]) \in Taking(CardProbe[d])
      /\ \A n \in Giving(CardRemove[d], Taken(CardProbe[d]).lo, Taken(CardProbe[d]).hi) :
           Well(d, Ground(d), CardOwn[d], n)
  BY <1>1, <1>3, TakenWell
<1>. QED
  BY <1>4, <1>5, <1>6, NothingWell DEF Carries

(* A state of the module or of the card is one of these points. *)
States     == {"out", "loading", "in", "failed", "unloading", "crashed"}
CardStates == {"none", "probing", "bound", "removing"}

(* The points of a state, and what is left to do and held at them. *)
LEMMA PointsAre ==
  ASSUME driver \in Drivers, state \in States, card \in CardStates
  PROVE  /\ ModulePoints \subseteq Loads(driver) /\ CardPoints \subseteq Carries(driver)
         /\ \A m \in ModulePoints : state \in {"out", "in", "crashed"} => m.left = <<>>
         /\ \A c \in CardPoints : card \in {"none", "bound"} => c.left = <<>>
         /\ \A c \in CardPoints : card = "none" => c.lo = {} /\ c.hi = {}
<1>1. ModulePoints \subseteq Loads(driver)
  BY DEF ModulePoints, Loads, States
<1>2. CardPoints \subseteq Carries(driver)
  BY DEF CardPoints, Carries, CardStates
<1>3. \A m \in ModulePoints : state \in {"out", "in", "crashed"} => m.left = <<>>
  BY DEF ModulePoints, Nothing, Taken, Stopped, Point
<1>4. \A c \in CardPoints : card \in {"none", "bound"} => c.left = <<>>
  BY DEF CardPoints, Nothing, Taken, Point
<1>5. \A c \in CardPoints : card = "none" => c.lo = {} /\ c.hi = {}
  BY DEF CardPoints, Nothing, Point
<1>. QED
  BY <1>1, <1>2, <1>3, <1>4, <1>5

(* One step of a set with bounds, beside another one. *)
Between(h, lo, hi, otherLo, otherHi, l) == lo \cup otherLo \subseteq h /\ h \subseteq hi \cup
        otherHi \cup l
LEMMA MovedBounds ==
  ASSUME NEW s, NEW h, NEW lo, NEW hi, NEW newLo, NEW newHi, NEW otherLo, NEW otherHi, NEW l,
         Between(h, lo, hi, otherLo, otherHi, l),
         newLo \subseteq Moved(s, lo), Moved(s, hi) \subseteq newHi,
         s.op = "give" => s.what \notin otherLo
  PROVE  Between(Moved(s, h), newLo, newHi, otherLo, otherHi, l)
<1>1. CASE s.op = "give"
  BY <1>1 DEF Moved, Between
<1>2. CASE s.op = "check"
  BY <1>2 DEF Moved, Between
<1>3. CASE s.op # "give" /\ s.op # "check"
  BY <1>3 DEF Moved, Between
<1>. QED
  BY <1>1, <1>2, <1>3

(* What a step of the module, and one of a card, goes on to.                *)
LEMMA ModuleMoves ==
  ASSUME driver \in Drivers, state \in States, NEW m \in ModulePoints, m.left # <<>>
  PROVE  /\ state \in {"loading", "failed", "unloading"}
         /\ Head(m.left).op # "check" => Head(m.left).what \in ModuleOwn[driver]
         /\ GoesOn(ModulePoints, m)
         /\ FailsTo(ModulePoints, Undoing(Load[driver]), m)
         /\ Head(m.left).op = "must" => Point(<<>>, m.lo, m.hi) \in Stopped(Load[driver])
         /\ state # "loading" => Head(m.left).op = "give"
<1>1. ModuleOwn[driver] \in SUBSET Resources
  BY OwnResources
<1>2. Orderly(driver, {}, ModuleOwn[driver], Load[driver], Unload[driver])
  BY AllSound DEF Sound
<1>3. Takes(ModuleOwn[driver], Load[driver]) /\ Gives(ModuleOwn[driver], Unload[driver])
  BY <1>2 DEF Orderly
<1>4. state \in {"loading", "failed", "unloading"}
  BY DEF ModulePoints, Nothing, Taken, Stopped, Point, States
<1>5. CASE state = "loading"
  <2>1. ModulePoints = Taking(Load[driver])
    BY <1>5 DEF ModulePoints
  <2>2. Point(<<>>, m.lo, m.hi) \in Stopped(Load[driver])
    BY <2>1 DEF Stopped
  <2>3. m \in Taking(Load[driver])
    BY <2>1
  <2>4. /\ Head(m.left).op # "check" => Head(m.left).what \in ModuleOwn[driver]
        /\ GoesOn(Taking(Load[driver]), m)
        /\ FailsTo(Taking(Load[driver]), Undoing(Load[driver]), m)
    BY <2>3, <1>1, <1>3, TakingMoves
  <2>. QED
    BY <2>1, <2>2, <2>4, <1>4, <1>5
<1>6. ASSUME NEW q, NEW lo, NEW hi, Gives(ModuleOwn[driver], q),
             m \in Giving(q, lo, hi), Giving(q, lo, hi) \subseteq ModulePoints
      PROVE  /\ Head(m.left).op = "give" /\ Head(m.left).what \in ModuleOwn[driver]
             /\ GoesOn(ModulePoints, m)
  <2>1. /\ Head(m.left).op = "give" /\ Head(m.left).what \in ModuleOwn[driver]
        /\ GoesOn(Giving(q, lo, hi), m)
    BY <1>1, <1>6, GivingMoves
  <2>2. GoesOn(ModulePoints, m)
    BY <2>1, <1>6 DEF GoesOn
  <2>. QED
    BY <2>1, <2>2
<1>7. ASSUME Head(m.left).op = "give"
      PROVE  Head(m.left).op # "must" /\ FailsTo(ModulePoints, Undoing(Load[driver]), m)
  BY <1>7 DEF Fails, FailsTo
<1>8. CASE state = "failed"
  <2>1. ModulePoints = Undoing(Load[driver])
    BY <1>8 DEF ModulePoints
  <2>2. PICK k \in Failing(Load[driver]) :
          m \in Giving(Give(Load[driver][k].undo), Took(Load[driver], k), Had(Load[driver], k))
    BY <2>1 DEF Undoing
  <2>3. Giving(Give(Load[driver][k].undo), Took(Load[driver], k), Had(Load[driver], k))
          \subseteq ModulePoints
    BY <2>1 DEF Undoing
  <2>4. Load[driver][k].undo \in Seq(ModuleOwn[driver])
    BY <1>3 DEF Takes, Failing
  <2>5. Gives(ModuleOwn[driver], Give(Load[driver][k].undo))
    BY <2>4, <1>1, GiveIsProcedure
  <2>6. /\ Head(m.left).op = "give" /\ Head(m.left).what \in ModuleOwn[driver]
        /\ GoesOn(ModulePoints, m)
    BY <2>2, <2>3, <2>5, <1>6
  <2>. QED
    BY <2>6, <1>4, <1>7
<1>9. CASE state = "unloading"
  <2>1. ModulePoints = Giving(Unload[driver], Taken(Load[driver]).lo, Taken(Load[driver]).hi)
    BY <1>9 DEF ModulePoints
  <2>2. /\ Head(m.left).op = "give" /\ Head(m.left).what \in ModuleOwn[driver]
        /\ GoesOn(ModulePoints, m)
    BY <2>1, <1>3, <1>6
  <2>. QED
    BY <2>2, <1>4, <1>7
<1>. QED
  BY <1>4, <1>5, <1>8, <1>9

LEMMA CardMoves ==
  ASSUME driver \in Drivers, card \in CardStates, NEW c \in CardPoints, c.left # <<>>
  PROVE  /\ card \in {"probing", "removing"}
         /\ Head(c.left).op # "check" => Head(c.left).what \in CardOwn[driver]
         /\ GoesOn(CardPoints, c)
         /\ FailsTo(CardPoints, Undoing(CardProbe[driver]), c)
         /\ card # "probing" => Head(c.left).op = "give"
<1>1. CardOwn[driver] \in SUBSET Resources
  BY OwnResources
<1>2. Orderly(driver, Ground(driver), CardOwn[driver], CardProbe[driver], CardRemove[driver])
  BY AllSound DEF Sound
<1>3. Takes(CardOwn[driver], CardProbe[driver]) /\ Gives(CardOwn[driver], CardRemove[driver])
  BY <1>2 DEF Orderly
<1>4. card \in {"probing", "removing"}
  BY DEF CardPoints, Nothing, Taken, Point, CardStates
<1>5. CASE card = "probing"
  <2>1. CardPoints = Taking(CardProbe[driver])
    BY <1>5 DEF CardPoints
  <2>2. c \in Taking(CardProbe[driver])
    BY <2>1
  <2>3. /\ Head(c.left).op # "check" => Head(c.left).what \in CardOwn[driver]
        /\ GoesOn(Taking(CardProbe[driver]), c)
        /\ FailsTo(Taking(CardProbe[driver]), Undoing(CardProbe[driver]), c)
    BY <2>2, <1>1, <1>3, TakingMoves
  <2>. QED
    BY <2>1, <2>3, <1>4, <1>5
<1>6. ASSUME NEW q, NEW lo, NEW hi, Gives(CardOwn[driver], q),
             c \in Giving(q, lo, hi), Giving(q, lo, hi) \subseteq CardPoints
      PROVE  /\ Head(c.left).op = "give" /\ Head(c.left).what \in CardOwn[driver]
             /\ GoesOn(CardPoints, c)
  <2>1. /\ Head(c.left).op = "give" /\ Head(c.left).what \in CardOwn[driver]
        /\ GoesOn(Giving(q, lo, hi), c)
    BY <1>1, <1>6, GivingMoves
  <2>2. GoesOn(CardPoints, c)
    BY <2>1, <1>6 DEF GoesOn
  <2>. QED
    BY <2>1, <2>2
<1>7. ASSUME Head(c.left).op = "give"
      PROVE  FailsTo(CardPoints, Undoing(CardProbe[driver]), c)
  BY <1>7 DEF Fails, FailsTo
<1>8. CASE card = "removing"
  <2>1. CardPoints = Undoing(CardProbe[driver])
          \cup Giving(CardRemove[driver], Taken(CardProbe[driver]).lo, Taken(CardProbe[driver]).hi)
    BY <1>8 DEF CardPoints
  <2>2. ASSUME c \in Undoing(CardProbe[driver])
        PROVE  Head(c.left).op = "give" /\ Head(c.left).what \in CardOwn[driver] /\
                GoesOn(CardPoints, c)
    <3>1. PICK k \in Failing(CardProbe[driver]) :
            c \in Giving(Give(CardProbe[driver][k].undo), Took(CardProbe[driver], k),
                    Had(CardProbe[driver], k))
      BY <2>2 DEF Undoing
    <3>2. Giving(Give(CardProbe[driver][k].undo), Took(CardProbe[driver], k),
            Had(CardProbe[driver], k))
            \subseteq CardPoints
      BY <2>1 DEF Undoing
    <3>3. CardProbe[driver][k].undo \in Seq(CardOwn[driver])
      BY <1>3 DEF Takes, Failing
    <3>4. Gives(CardOwn[driver], Give(CardProbe[driver][k].undo))
      BY <3>3, <1>1, GiveIsProcedure
    <3>. QED
      BY <3>1, <3>2, <3>4, <1>6
  <2>3. ASSUME c \in Giving(CardRemove[driver], Taken(CardProbe[driver]).lo,
          Taken(CardProbe[driver]).hi)
        PROVE  Head(c.left).op = "give" /\ Head(c.left).what \in CardOwn[driver] /\
                GoesOn(CardPoints, c)
    BY <2>1, <2>3, <1>3, <1>6
  <2>4. /\ Head(c.left).op = "give" /\ Head(c.left).what \in CardOwn[driver]
        /\ GoesOn(CardPoints, c)
    BY <2>1, <2>2, <2>3
  <2>. QED
    BY <2>4, <1>4, <1>7
<1>. QED
  BY <1>4, <1>5, <1>8

-----------------------------------------------------------------------------
(* The steps of the specification.                                         *)

(* The points depend on the state only. *)
LEMMA SamePoints ==
  /\ driver' = driver /\ state' = state => ModulePoints' = ModulePoints
  /\ driver' = driver /\ card' = card => CardPoints' = CardPoints
  BY DEF ModulePoints, CardPoints

(* At first nothing is held and nothing is to be done. *)
LEMMA SetupInitIInv == SetupInit => SetupIInv
<1>. SUFFICES ASSUME SetupInit PROVE SetupIInv
  OBVIOUS
<1>1. ModulePoints = {Nothing} /\ CardPoints = {Nothing}
  BY DEF SetupInit, ModulePoints, CardPoints
<1>2. At(Nothing, Nothing)
  BY DEF SetupInit, At, Nothing, Point
<1>. QED
  BY <1>1, <1>2 DEF SetupInit, SetupIInv

(* When a card is there its driver is registered, with what that takes.    *)
LEMMA DoIInv == SetupIInv /\ Do => SetupIInv'
<1>. SUFFICES ASSUME SetupIInv, Do PROVE SetupIInv'
  OBVIOUS
<1>1. /\ driver \in Drivers /\ state \in States /\ card \in CardStates
      /\ driver' = driver /\ card' = card /\ cardTodo' = cardTodo /\ CardPoints' = CardPoints
  BY SamePoints DEF SetupIInv, States, CardStates, Do
<1>2. PICK m \in ModulePoints, c \in CardPoints : At(m, c)
  BY DEF SetupIInv
<1>. DEFINE s == Head(m.left)
<1>3. todo = m.left /\ m.left # <<>> /\ cardTodo = c.left
  BY <1>2 DEF At, Do
<1>4. /\ state \in {"loading", "failed", "unloading"}
      /\ s.op # "check" => s.what \in ModuleOwn[driver]
      /\ GoesOn(ModulePoints, m) /\ FailsTo(ModulePoints, Undoing(Load[driver]), m)
      /\ s.op = "must" => Point(<<>>, m.lo, m.hi) \in Stopped(Load[driver])
      /\ state # "loading" => s.op = "give"
  BY <1>1, <1>3, ModuleMoves
<1>5. c.lo \subseteq CardOwn[driver]
  BY <1>1, PointsAre, CardWell DEF Well
<1>6. s.op = "give" => s.what \notin c.lo
  BY <1>1, <1>4, <1>5, OwnResources
<1>7. ASSUME state' \in States, NEW n \in ModulePoints', n.left = todo',
             Between(held', n.lo, n.hi, c.lo, c.hi, Leaked[driver]),
             held' = held \/ held' = Moved(s, held)
      PROVE  SetupIInv'
  <2>1. card # "none" => "pci driver" \in held'
    <3>. SUFFICES ASSUME card # "none" PROVE "pci driver" \in held'
      OBVIOUS
    <3>1. "pci driver" \in held
      BY DEF SetupIInv
    <3>2. s.op = "give" => s.what # "pci driver"
      BY <1>3 DEF Do, MayGo
    <3>. QED
      BY <3>1, <3>2, <1>7 DEF Moved
  <2>2. At(n, c)'
    BY <1>1, <1>3, <1>7 DEF At, Between
  <2>. QED
    BY <2>1, <2>2, <1>1, <1>2, <1>7 DEF SetupIInv, States, CardStates
<1>8. Between(held, m.lo, m.hi, c.lo, c.hi, Leaked[driver])
  BY <1>2 DEF At, Between
<1>9. CASE held' = HeldAfter(Head(todo)) /\ todo' = Tail(todo) /\ state' = state
  <2>1. held' = Moved(s, held)
    BY <1>3, <1>9 DEF HeldAfter, Moved
  <2>2. PICK n \in ModulePoints :
          /\ n.left = Tail(m.left) /\ n.lo \subseteq Moved(s, m.lo) /\ Moved(s, m.hi) \subseteq n.hi
    BY <1>4 DEF GoesOn
  <2>3. Between(Moved(s, held), n.lo, n.hi, c.lo, c.hi, Leaked[driver])
    BY <2>2, <1>6, <1>8, MovedBounds
  <2>4. n \in ModulePoints' /\ n.left = todo' /\ state' \in States
    BY <2>2, <1>1, <1>3, <1>9, SamePoints
  <2>. QED
    BY <2>1, <2>3, <2>4, <1>7
<1>10. CASE /\ Fails(Head(todo), Tail(todo), todo')
            /\ state' = IF Head(todo).op = "try" THEN state ELSE "failed"
            /\ held' = held
  <2>1. Fails(s, Tail(m.left), todo')
    BY <1>3, <1>10
  <2>2. TurnsTo(IF s.op = "try" THEN ModulePoints ELSE Undoing(Load[driver]), m, todo')
    BY <2>1, <1>4 DEF FailsTo
  <2>3. (IF s.op = "try" THEN ModulePoints ELSE Undoing(Load[driver])) = ModulePoints'
    <3>1. CASE s.op = "try"
      BY <3>1, <1>1, <1>3, <1>10, SamePoints
    <3>2. CASE s.op # "try"
      <4>1. state' = "failed"
        BY <3>2, <1>3, <1>10
      <4>. QED
        BY <4>1, <3>2, <1>1 DEF ModulePoints
    <3>. QED
      BY <3>1, <3>2
  <2>4. PICK n \in ModulePoints' : n.left = todo' /\ n.lo \subseteq m.lo /\ m.hi \subseteq n.hi
    BY <2>2, <2>3 DEF TurnsTo
  <2>5. state' \in States
    BY <1>1, <1>10 DEF States
  <2>6. Between(held', n.lo, n.hi, c.lo, c.hi, Leaked[driver])
    BY <2>4, <1>8, <1>10 DEF Between
  <2>. QED
    BY <2>4, <2>5, <2>6, <1>7, <1>10
<1>11. CASE Head(todo).op = "must" /\ state' = "crashed" /\ todo' = <<>> /\ held' = held
  <2>. DEFINE n == Point(<<>>, m.lo, m.hi)
  <2>1. n \in ModulePoints'
    BY <1>1, <1>3, <1>4, <1>11 DEF ModulePoints
  <2>2. n.left = todo' /\ n.lo = m.lo /\ n.hi = m.hi
    BY <1>11 DEF Point
  <2>3. state' \in States
    BY <1>11 DEF States
  <2>. HIDE DEF n
  <2>4. Between(held', n.lo, n.hi, c.lo, c.hi, Leaked[driver])
    BY <2>2, <1>8, <1>11 DEF Between
  <2>. QED
    BY <2>1, <2>2, <2>3, <2>4, <1>7, <1>11
<1>. QED
  BY <1>9, <1>10, <1>11 DEF Do

(* A step of probe or remove does nothing to what the module has. *)
LEMMA DoCardIInv == SetupIInv /\ DoCard => SetupIInv'
<1>. SUFFICES ASSUME SetupIInv, DoCard PROVE SetupIInv'
  OBVIOUS
<1>1. /\ driver \in Drivers /\ state \in States /\ card \in CardStates
      /\ driver' = driver /\ state' = state /\ todo' = todo /\ ModulePoints' = ModulePoints
  BY SamePoints DEF SetupIInv, States, CardStates, DoCard
<1>2. PICK m \in ModulePoints, c \in CardPoints : At(m, c)
  BY DEF SetupIInv
<1>. DEFINE s == Head(c.left)
<1>3. todo = m.left /\ c.left # <<>> /\ cardTodo = c.left
  BY <1>2 DEF At, DoCard
<1>4. /\ card \in {"probing", "removing"}
      /\ s.op # "check" => s.what \in CardOwn[driver]
      /\ GoesOn(CardPoints, c) /\ FailsTo(CardPoints, Undoing(CardProbe[driver]), c)
      /\ card # "probing" => s.op = "give"
  BY <1>1, <1>3, CardMoves
<1>5. m.lo \subseteq ModuleOwn[driver]
  BY <1>1, PointsAre, ModuleWell DEF Well
<1>6. s.op = "give" => s.what \notin m.lo /\ s.what # "pci driver"
  BY <1>1, <1>4, <1>5, OwnResources
<1>7. ASSUME card' \in CardStates, NEW n \in CardPoints', n.left = cardTodo',
             Between(held', n.lo, n.hi, m.lo, m.hi, Leaked[driver]),
             held' = held \/ held' = Moved(s, held)
      PROVE  SetupIInv'
  <2>1. "pci driver" \in held'
    <3>1. "pci driver" \in held
      BY <1>4 DEF SetupIInv
    <3>. QED
      BY <3>1, <1>6, <1>7 DEF Moved
  <2>2. At(m, n)'
    BY <1>1, <1>3, <1>7 DEF At, Between
  <2>. QED
    BY <2>1, <2>2, <1>1, <1>2, <1>7 DEF SetupIInv, States, CardStates
<1>8. Between(held, c.lo, c.hi, m.lo, m.hi, Leaked[driver])
  BY <1>2 DEF At, Between
<1>9. CASE held' = HeldAfter(Head(cardTodo)) /\ cardTodo' = Tail(cardTodo) /\ card' = card
  <2>1. held' = Moved(s, held)
    BY <1>3, <1>9 DEF HeldAfter, Moved
  <2>2. PICK n \in CardPoints :
          /\ n.left = Tail(c.left) /\ n.lo \subseteq Moved(s, c.lo) /\ Moved(s, c.hi) \subseteq n.hi
    BY <1>4 DEF GoesOn
  <2>3. Between(Moved(s, held), n.lo, n.hi, m.lo, m.hi, Leaked[driver])
    BY <2>2, <1>6, <1>8, MovedBounds
  <2>4. n \in CardPoints' /\ n.left = cardTodo' /\ card' \in CardStates
    BY <2>2, <1>1, <1>3, <1>9, SamePoints
  <2>. QED
    BY <2>1, <2>3, <2>4, <1>7
<1>10. CASE /\ Fails(Head(cardTodo), Tail(cardTodo), cardTodo')
            /\ card' = IF Head(cardTodo).op = "try" THEN card ELSE "removing"
            /\ held' = held
  <2>1. Fails(s, Tail(c.left), cardTodo')
    BY <1>3, <1>10
  <2>2. TurnsTo(IF s.op = "try" THEN CardPoints ELSE Undoing(CardProbe[driver]), c, cardTodo')
    BY <2>1, <1>4 DEF FailsTo
  <2>3. (IF s.op = "try" THEN CardPoints ELSE Undoing(CardProbe[driver])) \subseteq CardPoints'
    <3>1. CASE s.op = "try"
      BY <3>1, <1>1, <1>3, <1>10, SamePoints
    <3>2. CASE s.op # "try"
      <4>1. card' = "removing"
        BY <3>2, <1>3, <1>10
      <4>. QED
        BY <4>1, <3>2, <1>1 DEF CardPoints
    <3>. QED
      BY <3>1, <3>2
  <2>4. PICK n \in CardPoints' : n.left = cardTodo' /\ n.lo \subseteq c.lo /\ c.hi \subseteq n.hi
    BY <2>2, <2>3 DEF TurnsTo
  <2>5. card' \in CardStates
    BY <1>1, <1>10 DEF CardStates
  <2>6. Between(held', n.lo, n.hi, m.lo, m.hi, Leaked[driver])
    BY <2>4, <1>8, <1>10 DEF Between
  <2>. QED
    BY <2>4, <2>5, <2>6, <1>7, <1>10
<1>. QED
  BY <1>9, <1>10 DEF DoCard

(* A procedure begins at its first point. *)
LEMMA FirstPoint ==
  ASSUME NEW own, NEW p
  PROVE  /\ Takes(own, p) => Point(p, {}, {}) \in Taking(p)
         /\ Gives(own, p) => \A lo, hi : Point(p, lo, hi) \in Giving(p, lo, hi)
<1>1. ASSUME p \in Seq(Steps)
      PROVE  Rest(p, 1) = p /\ 1 \in 1 .. Len(p) + 1
  BY <1>1, SMT DEF Rest
<1>2. ASSUME Takes(own, p)
      PROVE  Point(p, {}, {}) \in Taking(p)
  <2>1. p \in Seq(Steps)
    BY <1>2, Zenon DEF Takes
  <2>2. Took(p, 1) = {} /\ Had(p, 1) = {}
    BY TookNext
  <2>3. Point(Rest(p, 1), Took(p, 1), Had(p, 1)) \in Taking(p)
    BY <2>1, <1>1, Zenon DEF Taking
  <2>. QED
    BY <2>1, <2>2, <2>3, <1>1
<1>3. ASSUME Gives(own, p), NEW lo, NEW hi
      PROVE  Point(p, lo, hi) \in Giving(p, lo, hi)
  <2>1. p \in Seq(Steps)
    BY <1>3, Zenon DEF Gives
  <2>2. lo \ Gone(p, 1) = lo /\ hi \ Gone(p, 1) = hi
    BY GoneNext
  <2>3. Point(Rest(p, 1), lo \ Gone(p, 1), hi \ Gone(p, 1)) \in Giving(p, lo, hi)
    BY <2>1, <1>1, Zenon DEF Giving
  <2>. QED
    BY <2>1, <2>2, <2>3, <1>1
<1>. QED
  BY <1>2, <1>3

(* A procedure ends with everything taken, or with what is left by one that *)
(* gives back.                                                             *)
LEMMA LastPoint ==
  ASSUME NEW own, NEW p, Takes(own, p), NEW m \in Taking(p), m.left = <<>>
  PROVE  m = Taken(p)
<1>1. p \in Seq(Steps)
  BY Zenon DEF Takes
<1>2. PICK i \in 1 .. Len(p) + 1 : m = Point(Rest(p, i), Took(p, i), Had(p, i))
  BY DEF Taking
<1>3. Rest(p, i) = <<>>
  BY <1>2 DEF Point
<1>4. i = Len(p) + 1
  BY <1>1, <1>3, RestOfProcedure
<1>. QED
  BY <1>2, <1>3, <1>4 DEF Taken

LEMMA LastGiven ==
  ASSUME NEW own, NEW q, Gives(own, q), NEW lo, NEW hi, NEW m \in Giving(q, lo, hi), m.left = <<>>
  PROVE  m.lo = LeftBy(q, lo) /\ m.hi = LeftBy(q, hi)
<1>1. q \in Seq(Steps)
  BY Zenon DEF Gives
<1>2. PICK i \in 1 .. Len(q) + 1 : m = Point(Rest(q, i), lo \ Gone(q, i), hi \ Gone(q, i))
  BY DEF Giving
<1>3. Rest(q, i) = <<>> /\ m.lo = lo \ Gone(q, i) /\ m.hi = hi \ Gone(q, i)
  BY <1>2 DEF Point
<1>4. i = Len(q) + 1
  BY <1>1, <1>3, RestOfProcedure
<1>. QED
  BY <1>3, <1>4 DEF LeftBy

(* The procedures take and give back what is their own. *)
LEMMA Procedures ==
  ASSUME NEW d \in Drivers
  PROVE  /\ Takes(ModuleOwn[d], Load[d]) /\ Gives(ModuleOwn[d], Unload[d])
         /\ Takes(CardOwn[d], CardProbe[d]) /\ Gives(CardOwn[d], CardRemove[d])
  BY AllSound DEF Sound, Orderly

(* The steps that only change which procedure is run. *)
LEMMA ModuleTurns ==
  ASSUME SetupIInv, Insmod \/ Rmmod \/ Over
  PROVE  SetupIInv'
<1>1. /\ driver \in Drivers /\ state \in States /\ card \in CardStates /\ driver' = driver
      /\ held' = held /\ card' = card /\ cardTodo' = cardTodo /\ CardPoints' = CardPoints
      /\ state' \in States /\ (card # "none" => "pci driver" \in held)
  BY SamePoints DEF SetupIInv, States, CardStates, Insmod, Rmmod, Over
<1>2. PICK m \in ModulePoints, c \in CardPoints : At(m, c)
  BY DEF SetupIInv
<1>3. ASSUME NEW n \in ModulePoints', n.left = todo', n.lo \subseteq m.lo,
             m.hi \subseteq n.hi \cup Leaked[driver]
      PROVE  SetupIInv'
  <2>1. At(n, c)'
    BY <1>1, <1>2, <1>3 DEF At, Between
  <2>. QED
    BY <2>1, <1>1, <1>2, <1>3 DEF SetupIInv, States, CardStates
<1>4. Takes(ModuleOwn[driver], Load[driver]) /\ Gives(ModuleOwn[driver], Unload[driver])
  BY <1>1, Procedures
<1>5. todo = m.left
  BY <1>2 DEF At
<1>6. Ends(driver)
  BY <1>1, AllSound DEF Sound
<1>7. CASE Insmod
  <2>. DEFINE n == Point(Load[driver], {}, {})
  <2>1. n \in ModulePoints'
    BY <1>1, <1>4, <1>7, FirstPoint DEF Insmod, ModulePoints
  <2>2. m.hi = {}
    BY <1>7 DEF Insmod, ModulePoints, Nothing, Point
  <2>3. n.left = todo' /\ n.lo = {} /\ n.hi = {}
    BY <1>7 DEF Insmod, Point
  <2>. HIDE DEF n
  <2>. QED
    BY <2>1, <2>2, <2>3, <1>3
<1>8. CASE Rmmod
  <2>. DEFINE n == Point(Unload[driver], Taken(Load[driver]).lo, Taken(Load[driver]).hi)
  <2>1. n \in Giving(Unload[driver], Taken(Load[driver]).lo, Taken(Load[driver]).hi)
    BY <1>4, FirstPoint
  <2>2. n \in ModulePoints'
    BY <2>1, <1>1, <1>8 DEF Rmmod, ModulePoints
  <2>3. m = Taken(Load[driver])
    BY <1>8 DEF Rmmod, ModulePoints
  <2>4. n.left = todo' /\ n.lo = m.lo /\ n.hi = m.hi
    BY <2>3, <1>8 DEF Rmmod, Point
  <2>. HIDE DEF n
  <2>. QED
    BY <2>2, <2>4, <1>3
<1>9. CASE Over
  <2>1. m.left = <<>> /\ todo' = <<>>
    BY <1>5, <1>9 DEF Over
  <2>2. ASSUME state' = "out", m.hi \subseteq Leaked[driver]
        PROVE  SetupIInv'
    <3>1. Nothing \in ModulePoints'
      BY <2>2 DEF ModulePoints
    <3>2. Nothing.left = todo' /\ Nothing.lo = {}
      BY <2>1 DEF Nothing, Point
    <3>. QED
      BY <3>1, <3>2, <2>2, <1>3
  <2>3. CASE state = "loading" /\ state' = "in"
    <3>1. m = Taken(Load[driver])
      BY <2>1, <2>3, <1>4, LastPoint DEF ModulePoints
    <3>2. m \in ModulePoints'
      BY <3>1, <2>3, <1>1 DEF ModulePoints
    <3>. QED
      BY <3>2, <2>1, <1>3
  <2>4. CASE state = "unloading" /\ state' = "out"
    <3>1. m \in Giving(Unload[driver], Taken(Load[driver]).lo, Taken(Load[driver]).hi)
      BY <2>4 DEF ModulePoints
    <3>2. m.hi = LeftBy(Unload[driver], Taken(Load[driver]).hi)
      BY <3>1, <2>1, <1>4, LastGiven
    <3>. QED
      BY <3>2, <2>2, <2>4, <1>6 DEF Ends
  <2>5. CASE state = "failed" /\ driver # "accelerant" /\ state' = "out"
    <3>1. m \in Undoing(Load[driver])
      BY <2>5 DEF ModulePoints
    <3>2. PICK k \in Failing(Load[driver]) :
            m \in Giving(Give(Load[driver][k].undo), Took(Load[driver], k), Had(Load[driver], k))
      BY <3>1 DEF Undoing
    <3>3. Load[driver][k].undo \in Seq(ModuleOwn[driver])
      BY <1>4 DEF Takes, Failing
    <3>4. Gives(ModuleOwn[driver], Give(Load[driver][k].undo))
      BY <3>3, <1>1, OwnResources, GiveIsProcedure
    <3>5. m.hi = LeftBy(Give(Load[driver][k].undo), Had(Load[driver], k))
      BY <3>2, <3>4, <2>1, LastGiven
    <3>. QED
      BY <3>5, <2>2, <2>5, <1>6 DEF Ends
  <2>. QED
    BY <2>3, <2>4, <2>5, <1>9 DEF Over
<1>. QED
  BY <1>7, <1>8, <1>9

LEMMA CardTurns ==
  ASSUME SetupIInv, Offered \/ Removed \/ OverCard
  PROVE  SetupIInv'
<1>1. /\ driver \in Drivers /\ state \in States /\ card \in CardStates /\ driver' = driver
      /\ held' = held /\ state' = state /\ todo' = todo /\ ModulePoints' = ModulePoints
      /\ card' \in CardStates /\ "pci driver" \in held
  BY SamePoints DEF SetupIInv, States, CardStates, Offered, Removed, OverCard
<1>2. PICK m \in ModulePoints, c \in CardPoints : At(m, c)
  BY DEF SetupIInv
<1>3. ASSUME NEW n \in CardPoints', n.left = cardTodo', n.lo \subseteq c.lo,
             c.hi \subseteq n.hi \cup Leaked[driver]
      PROVE  SetupIInv'
  <2>1. At(m, n)'
    BY <1>1, <1>2, <1>3 DEF At, Between
  <2>. QED
    BY <2>1, <1>1, <1>2, <1>3 DEF SetupIInv, States, CardStates
<1>4. Takes(CardOwn[driver], CardProbe[driver]) /\ Gives(CardOwn[driver], CardRemove[driver])
  BY <1>1, Procedures
<1>5. cardTodo = c.left
  BY <1>2 DEF At
<1>6. Ends(driver)
  BY <1>1, AllSound DEF Sound
<1>7. CASE Offered
  <2>. DEFINE n == Point(CardProbe[driver], {}, {})
  <2>1. n \in CardPoints'
    BY <1>1, <1>4, <1>7, FirstPoint DEF Offered, CardPoints
  <2>2. c.hi = {}
    BY <1>1, <1>7, PointsAre DEF Offered
  <2>3. n.left = cardTodo' /\ n.lo = {} /\ n.hi = {}
    BY <1>7 DEF Offered, Point
  <2>. HIDE DEF n
  <2>. QED
    BY <2>1, <2>2, <2>3, <1>3
<1>8. CASE Removed
  <2>. DEFINE n == Point(CardRemove[driver], Taken(CardProbe[driver]).lo,
          Taken(CardProbe[driver]).hi)
  <2>1. n \in Giving(CardRemove[driver], Taken(CardProbe[driver]).lo, Taken(CardProbe[driver]).hi)
    BY <1>4, FirstPoint
  <2>2. n \in CardPoints'
    BY <2>1, <1>1, <1>8 DEF Removed, CardPoints
  <2>3. c = Taken(CardProbe[driver])
    BY <1>8 DEF Removed, CardPoints
  <2>4. n.left = cardTodo' /\ n.lo = c.lo /\ n.hi = c.hi
    BY <2>3, <1>8 DEF Removed, Point
  <2>. HIDE DEF n
  <2>. QED
    BY <2>2, <2>4, <1>3
<1>9. CASE OverCard
  <2>1. c.left = <<>> /\ cardTodo' = <<>>
    BY <1>5, <1>9 DEF OverCard
  <2>2. CASE card = "probing" /\ card' = "bound"
    <3>1. c = Taken(CardProbe[driver])
      BY <2>1, <2>2, <1>4, LastPoint DEF CardPoints
    <3>2. c \in CardPoints'
      BY <3>1, <2>2, <1>1 DEF CardPoints
    <3>. QED
      BY <3>2, <2>1, <1>3
  <2>3. CASE card = "removing" /\ card' = "none"
    <3>1. c.hi \subseteq Leaked[driver]
      <4>1. CASE c \in Undoing(CardProbe[driver])
        <5>1. PICK k \in Failing(CardProbe[driver]) :
                c \in Giving(Give(CardProbe[driver][k].undo), Took(CardProbe[driver], k),
                        Had(CardProbe[driver], k))
          BY <4>1 DEF Undoing
        <5>2. CardProbe[driver][k].undo \in Seq(CardOwn[driver])
          BY <1>4 DEF Takes, Failing
        <5>3. Gives(CardOwn[driver], Give(CardProbe[driver][k].undo))
          BY <5>2, <1>1, OwnResources, GiveIsProcedure
        <5>4. c.hi = LeftBy(Give(CardProbe[driver][k].undo), Had(CardProbe[driver], k))
          BY <5>1, <5>3, <2>1, LastGiven
        <5>. QED
          BY <5>4, <1>6 DEF Ends
      <4>2. CASE c \in Giving(CardRemove[driver], Taken(CardProbe[driver]).lo,
              Taken(CardProbe[driver]).hi)
        <5>1. c.hi = LeftBy(CardRemove[driver], Taken(CardProbe[driver]).hi)
          BY <4>2, <2>1, <1>4, LastGiven
        <5>. QED
          BY <5>1, <1>6 DEF Ends
      <4>. QED
        BY <4>1, <4>2, <2>3 DEF CardPoints
    <3>2. Nothing \in CardPoints'
      BY <2>3 DEF CardPoints
    <3>3. Nothing.left = cardTodo' /\ Nothing.lo = {}
      BY <2>1 DEF Nothing, Point
    <3>. QED
      BY <3>1, <3>2, <3>3, <1>3
  <2>. QED
    BY <2>2, <2>3, <1>9 DEF OverCard
<1>. QED
  BY <1>7, <1>8, <1>9

(* Every step keeps the inductive invariant. *)
LEMMA SetupNextIInv == SetupIInv /\ [SetupNext]_setupVars => SetupIInv'
<1>. SUFFICES ASSUME SetupIInv, [SetupNext]_setupVars PROVE SetupIInv'
  OBVIOUS
<1>1. CASE UNCHANGED setupVars
  <2>1. /\ ModulePoints' = ModulePoints /\ CardPoints' = CardPoints
        /\ \A m, c : At(m, c) => At(m, c)'
    BY <1>1, SamePoints DEF setupVars, At
  <2>. QED
    BY <2>1, <1>1 DEF SetupIInv, setupVars
<1>2. CASE Insmod \/ Rmmod \/ Over
  BY <1>2, ModuleTurns
<1>3. CASE Do
  BY <1>3, DoIInv
<1>4. CASE Offered \/ Removed \/ OverCard
  BY <1>4, CardTurns
<1>5. CASE DoCard
  BY <1>5, DoCardIInv
<1>6. CASE Ended
  BY <1>6, <1>1 DEF Ended
<1>. QED
  BY <1>1, <1>2, <1>3, <1>4, <1>5, <1>6 DEF SetupNext

-----------------------------------------------------------------------------
(* What the points say of a state.                                         *)

(* What is leaked needs nothing else to be there. *)
LEMMA LeakedRestsOnNothing ==
  ASSUME NEW d \in Drivers
  PROVE  /\ Leaked[d] \in SUBSET Resources
         /\ \A r \in Leaked[d] : RestsOn(d, r) = {}
         /\ d = "accelerant" => Leaked[d] \cap Areas = {} /\ CardOwn[d] = {}
<1>1. d = "drm" \/ d = "kernel" \/ d = "accelerant"
  BY DEF Drivers
<1>2. /\ Leaked["drm"] = {"card info", "iio", "scratch"}
      /\ Leaked["kernel"] = {}
      /\ Leaked["accelerant"] =
           {"card info", "atom context", "iio", "scratch", "exec sem", "ring queue",
                   "mode list area"}
  BY DEF Leaked
<1>3. CASE d = "drm"
  BY <1>2, <1>3 DEF Resources, RestsOn
<1>4. CASE d = "kernel"
  BY <1>2, <1>4
<1>5. CASE d = "accelerant"
  BY <1>2, <1>5 DEF Resources, RestsOn, Areas, CardOwn
<1>. QED
  BY <1>1, <1>3, <1>4, <1>5

(* The inductive invariant gives the one the runs check: at a point that is *)
(* well a resource has what it rests on, the next to be given back is       *)
(* there, and what is left at the end of a procedure is what it may leave.  *)
LEMMA SetupIInvGives == SetupIInv => DriverInv
<1>. SUFFICES ASSUME SetupIInv PROVE DriverInv
  OBVIOUS
<1>1. /\ driver \in Drivers /\ state \in States /\ card \in CardStates
      /\ card # "none" => "pci driver" \in held
  BY DEF SetupIInv, States, CardStates
<1>2. PICK m \in ModulePoints, c \in CardPoints : At(m, c)
  BY DEF SetupIInv
<1>3. /\ todo = m.left /\ cardTodo = c.left
      /\ m.lo \subseteq held /\ c.lo \subseteq held
      /\ \A r \in held : r \in m.hi \/ r \in c.hi \/ r \in Leaked[driver]
  BY <1>2 DEF At, Between
<1>4. Well(driver, {}, ModuleOwn[driver], m) /\ Well(driver, Ground(driver), CardOwn[driver], c)
  BY <1>1, PointsAre, ModuleWell, CardWell
<1>5. /\ m.left \in Seq(Steps) /\ c.left \in Seq(Steps)
      /\ m.lo \subseteq ModuleOwn[driver] /\ m.hi \subseteq ModuleOwn[driver]
      /\ c.lo \subseteq CardOwn[driver] /\ c.hi \subseteq CardOwn[driver]
      /\ \A r \in m.hi : RestsOn(driver, r) \subseteq m.lo
      /\ \A r \in c.hi : RestsOn(driver, r) \subseteq Ground(driver) \cup c.lo
      /\ m.left # <<>> /\ Head(m.left).op = "give" => Head(m.left).what \in m.lo \cup MayBeNull
      /\ c.left # <<>> /\ Head(c.left).op = "give" => Head(c.left).what \in c.lo \cup MayBeNull
  BY <1>4 DEF Well
<1>6. /\ ModuleOwn[driver] \in SUBSET Resources /\ CardOwn[driver] \in SUBSET Resources
      /\ "pci driver" \notin CardOwn[driver] /\ "pci driver" \notin Leaked[driver]
      /\ Leaked[driver] \in SUBSET Resources
  BY <1>1, OwnResources, LeakedRestsOnNothing
<1>7. SetupTypeOK
  <2>1. held \subseteq Resources
    BY <1>3, <1>5, <1>6
  <2>2. ASSUME NEW q \in Seq(Steps), NEW i \in DOMAIN q
        PROVE  q[i].what \in Resources \cup {""} /\ q[i].op \in {"take", "try", "must", "check",
                "give"}
    <3>1. q[i] \in Steps
      OBVIOUS
    <3>. QED
      BY <3>1 DEF Steps
  <2>3. todo \in Seq(Steps) /\ cardTodo \in Seq(Steps)
    BY <1>3, <1>5
  <2>. QED
    BY <2>1, <2>2, <2>3, <1>1 DEF SetupTypeOK, States, CardStates
<1>8. NothingKept
  <2>1. ASSUME card = "none", NEW r \in held
        PROVE  r \in m.hi \/ r \in Leaked[driver]
    BY <2>1, <1>1, <1>3, PointsAre
  <2>2. ASSUME state = "out"
        PROVE  held \subseteq Leaked[driver]
    <3>1. m.hi = {}
      BY <2>2 DEF ModulePoints, Nothing, Point
    <3>2. card = "none"
      BY <3>1, <1>1, <1>3, <1>5, <1>6
    <3>. QED
      BY <3>1, <3>2, <2>1
  <2>3. ASSUME state = "in", card = "none", driver # "accelerant"
        PROVE  held \subseteq Leaked[driver] \cup {"class", "region", "cdev", "pci driver"}
    <3>1. m.hi \subseteq {"class", "region", "cdev", "pci driver"}
      BY <2>3, <1>1, AllSound DEF ModulePoints, Sound, Ends
    <3>. QED
      BY <3>1, <2>1, <2>3
  <2>4. ASSUME state = "failed", todo = <<>>, driver = "accelerant"
        PROVE  \/ {"gInfo", "shared area", "regs area", "rom area"} \subseteq held
               \/ held \cap {"shared area", "regs area", "rom area"} = {}
    <3>1. PICK k \in Failing(Load[driver]) :
            m \in Giving(Give(Load[driver][k].undo), Took(Load[driver], k), Had(Load[driver], k))
      BY <2>4 DEF ModulePoints, Undoing
    <3>2. Load[driver][k].undo \in Seq(ModuleOwn[driver])
      BY <1>1, Procedures DEF Takes, Failing
    <3>3. Gives(ModuleOwn[driver], Give(Load[driver][k].undo))
      BY <3>2, <1>6, GiveIsProcedure
    <3>4. /\ m.lo = LeftBy(Give(Load[driver][k].undo), Took(Load[driver], k))
          /\ m.hi = LeftBy(Give(Load[driver][k].undo), Had(Load[driver], k))
      <4>1. m.left = <<>>
        BY <1>3, <2>4
      <4>. QED
        BY <3>1, <3>3, <4>1, LastGiven
    <3>5. \/ Areas \cup {"gInfo"} \subseteq m.lo
          \/ Areas \cap m.hi = {}
      <4>1. Ends(driver)
        BY <1>1, AllSound DEF Sound
      <4>2. IF driver # "accelerant"
            THEN LeftBy(Give(Load[driver][k].undo), Had(Load[driver], k)) \subseteq Leaked[driver]
            ELSE \/ Areas \cup {"gInfo"} \subseteq LeftBy(Give(Load[driver][k].undo),
                    Took(Load[driver], k))
                 \/ Areas \cap LeftBy(Give(Load[driver][k].undo), Had(Load[driver], k)) = {}
        BY <4>1, Zenon DEF Ends
      <4>. QED
        BY <3>4, <2>4, <4>2
    <3>6. held \cap Areas \subseteq m.hi
      BY <2>4, <1>1, <1>3, <1>5, LeakedRestsOnNothing
    <3>. QED
      BY <3>5, <3>6, <1>3 DEF Areas
  <2>. QED
    BY <2>2, <2>3, <2>4 DEF NothingKept
<1>9. GivesWhatItHas
  BY <1>3, <1>5 DEF GivesWhatItHas, MayBeNull
<1>10. RestsOnHeld
  <2>. SUFFICES ASSUME NEW r \in held PROVE RestsOn(driver, r) \subseteq held
    BY DEF RestsOnHeld
  <2>1. CASE r \in m.hi
    BY <2>1, <1>3, <1>5
  <2>2. CASE r \in Leaked[driver]
    BY <2>2, <1>1, LeakedRestsOnNothing
  <2>3. CASE r \in c.hi
    <3>1. card # "none"
      BY <2>3, <1>1, PointsAre
    <3>2. "pci driver" \in m.hi
      BY <3>1, <1>1, <1>3, <1>5, <1>6
    <3>3. RestsOn(driver, "pci driver") \subseteq held /\ "pci driver" \in held
      BY <3>1, <3>2, <1>1, <1>3, <1>5
    <3>4. Ground(driver) \subseteq held
      BY <3>3 DEF Ground, RestsOn
    <3>. QED
      BY <3>4, <2>3, <1>3, <1>5
  <2>. QED
    BY <2>1, <2>2, <2>3, <1>3
<1>. QED
  BY <1>7, <1>8, <1>9, <1>10 DEF DriverInv

(* At every moment of loading, probing, failing and unloading each of the   *)
(* two procedures is at a point where what it has taken is held, and beside *)
(* that nothing but what the driver leaks (drm/main.c, haiku/kernel/main.c, *)
(* accelerant.cpp).                                                        *)
THEOREM SetupInvariance == SetupSpec => []SetupIInv
  BY SetupInitIInv, SetupNextIInv, PTL DEF SetupSpec

(* Whatever step fails, and however often cards and drivers come and go: no *)
(* driver keeps what it should have given back, gives back what it does not *)
(* have, or gives back what something it still has rests on.               *)
THEOREM SetupAlways == SetupSpec => []DriverInv
  BY SetupInvariance, SetupIInvGives, PTL
=============================================================================
