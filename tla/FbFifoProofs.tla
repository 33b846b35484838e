---------------------------- MODULE FbFifoProofs ----------------------------
(***************************************************************************)
(* Proofs about the display server FbFifo, for every number FB_NUM >= 2 of *)
(* framebuffers, every Period of the clock and every size of the mode.     *)
(* Then the server implements FrameQueue, and one that is interrupted       *)
(* restores the console before it exits.                                   *)
(***************************************************************************)
EXTENDS FbFifoRefinement, FbAbort, SequenceTheorems, TLAPS

LEMMA InitInv == Init => Inv
<1> SUFFICES ASSUME Init PROVE Inv
  OBVIOUS
<1> USE FbNumAssumption, PeriodAssumption, DisplayAssumption DEF Init
<1>1. TypeOK
  <2>1. wsleep \in BOOLEAN /\ rsleep \in BOOLEAN /\ event \in BOOLEAN
    BY Zenon
  <2>2. QED
    BY <2>1 DEF TypeOK, Slots, Ticks, None, Blank, Torn, PPcs, DPcs
<1>2. LocksHeld /\ KmsInStep /\ CursorInv
  BY DEF LocksHeld, KmsInStep, CursorInv, Releasing
<1>3. SleepersWait /\ ProducerOwns /\ DisplayOwns
  BY DEF SleepersWait, NoLostWakeup, ProducerOwns, DisplayOwns, Slots, None
<1>4. RingInOrder /\ FirstFrame
  BY DEF RingInOrder, FirstFrame, Oldest, FillSlot, NextFrame, Wrap, Succ, Slots, None, Releasing
<1>5. QED
  BY <1>1, <1>2, <1>3, <1>4 DEF Inv

LEMMA TypeOKStep == TypeOK /\ DisplayOwns /\ [Next]_vars => TypeOK'
<1> SUFFICES ASSUME TypeOK, DisplayOwns, [Next]_vars PROVE TypeOK'
  OBVIOUS
<1> USE FbNumAssumption, PeriodAssumption
    DEF TypeOK, PPcs, DPcs, Slots, Ticks, None, Wrap, Succ, NextTick,
        fifo, locks, kms, cursor
<1>1. CASE PLockW
  BY <1>1 DEF ProducerAt, PLockW
<1>2. CASE PTestW
  BY <1>2 DEF ProducerAt, PTestW
<1>3. CASE PWaitW
  BY <1>3 DEF ProducerAt, PWaitW
<1>4. CASE PUnlockW
  BY <1>4 DEF ProducerAt, PUnlockW
<1>5. CASE PPaintBegin
  BY <1>5 DEF ProducerAt, PPaintBegin
<1>6. CASE PPaintEnd
  BY <1>6 DEF ProducerAt, PPaintEnd
<1>7. CASE PLockR
  BY <1>7 DEF ProducerAt, PLockR
<1>8. CASE PMark
  BY <1>8 DEF ProducerAt, PMark
<1>9. CASE PUnlockR
  BY <1>9 DEF ProducerAt, PUnlockR
<1>10. CASE PSignalR
  <2>1. rsleep' \in BOOLEAN
    BY <1>10, Zenon DEF PSignalR
  <2>2. QED
    BY <1>10, <2>1 DEF ProducerAt, PSignalR
<1>11. CASE PWrap
  BY <1>11 DEF ProducerAt, PWrap
<1>12. CASE DLockR
  BY <1>12 DEF DisplayAt, DLockR
<1>13. CASE DTestR
  BY <1>13 DEF DisplayAt, DTestR
<1>14. CASE DWaitR
  BY <1>14 DEF DisplayAt, DWaitR
<1>15. CASE DUnlockR
  BY <1>15 DEF DisplayAt, DUnlockR
<1>16. CASE DPageFlip
  BY <1>16 DEF DisplayAt, DPageFlip
<1>17. CASE DMoveCursor
  BY <1>17 DEF DisplayAt, DMoveCursor
<1>18. CASE DHandleEvent
  <2>1. event' \in BOOLEAN
    BY <1>18, Zenon DEF DHandleEvent
  <2>2. QED
    BY <1>18, <2>1 DEF DisplayAt, DHandleEvent
<1>19. CASE DLockW
  BY <1>19 DEF DisplayAt, DLockW
<1>20. CASE DRelease
  BY <1>20 DEF DisplayAt, DRelease, DisplayOwns
<1>21. CASE DUnlockW
  BY <1>21 DEF DisplayAt, DUnlockW
<1>22. CASE DSignalW
  <2>1. wsleep' \in BOOLEAN
    BY <1>22, Zenon DEF DSignalW
  <2>2. QED
    BY <1>22, <2>1 DEF DisplayAt, DSignalW
<1>23. CASE DAdvance
  BY <1>23 DEF DisplayAt, DAdvance
<1>24. CASE VBlank
  <2>1. event' \in BOOLEAN
    BY <1>24, Zenon DEF VBlank
  <2>2. QED
    BY <1>24, <2>1 DEF VBlank
<1>25. CASE SpuriousWakeup
  <2>1. wsleep' \in BOOLEAN /\ rsleep' \in BOOLEAN
    BY <1>25, Zenon DEF SpuriousWakeup, TypeOK
  <2>2. QED
    BY <1>25, <2>1 DEF SpuriousWakeup
<1>26. CASE UNCHANGED vars
  BY <1>26 DEF vars
<1>27. QED
  BY <1>1, <1>2, <1>3, <1>4, <1>5, <1>6, <1>7, <1>8, <1>9, <1>10, <1>11, <1>12, <1>13, <1>14, <1>15, <1>16, <1>17, <1>18, <1>19, <1>20, <1>21, <1>22, <1>23, <1>24, <1>25, <1>26 DEF Next, Producer, Display

LEMMA LocksHeldStep == TypeOK /\ LocksHeld /\ [Next]_vars => LocksHeld'
<1> SUFFICES ASSUME TypeOK, LocksHeld, [Next]_vars PROVE LocksHeld'
  OBVIOUS
<1> USE DEF LocksHeld, TypeOK, PPcs, DPcs, fifo, locks, kms, cursor
<1>1. CASE PLockW
  BY <1>1 DEF ProducerAt, PLockW
<1>2. CASE PTestW
  BY <1>2 DEF ProducerAt, PTestW
<1>3. CASE PWaitW
  BY <1>3 DEF ProducerAt, PWaitW
<1>4. CASE PUnlockW
  BY <1>4 DEF ProducerAt, PUnlockW
<1>5. CASE PPaintBegin
  BY <1>5 DEF ProducerAt, PPaintBegin
<1>6. CASE PPaintEnd
  BY <1>6 DEF ProducerAt, PPaintEnd
<1>7. CASE PLockR
  BY <1>7 DEF ProducerAt, PLockR
<1>8. CASE PMark
  BY <1>8 DEF ProducerAt, PMark
<1>9. CASE PUnlockR
  BY <1>9 DEF ProducerAt, PUnlockR
<1>10. CASE PSignalR
  BY <1>10 DEF ProducerAt, PSignalR
<1>11. CASE PWrap
  BY <1>11 DEF ProducerAt, PWrap
<1>12. CASE DLockR
  BY <1>12 DEF DisplayAt, DLockR
<1>13. CASE DTestR
  BY <1>13 DEF DisplayAt, DTestR
<1>14. CASE DWaitR
  BY <1>14 DEF DisplayAt, DWaitR
<1>15. CASE DUnlockR
  BY <1>15 DEF DisplayAt, DUnlockR
<1>16. CASE DPageFlip
  BY <1>16 DEF DisplayAt, DPageFlip
<1>17. CASE DMoveCursor
  BY <1>17 DEF DisplayAt, DMoveCursor
<1>18. CASE DHandleEvent
  BY <1>18 DEF DisplayAt, DHandleEvent
<1>19. CASE DLockW
  BY <1>19 DEF DisplayAt, DLockW
<1>20. CASE DRelease
  BY <1>20 DEF DisplayAt, DRelease
<1>21. CASE DUnlockW
  BY <1>21 DEF DisplayAt, DUnlockW
<1>22. CASE DSignalW
  BY <1>22 DEF DisplayAt, DSignalW
<1>23. CASE DAdvance
  BY <1>23 DEF DisplayAt, DAdvance
<1>24. CASE VBlank
  BY <1>24 DEF VBlank
<1>25. CASE SpuriousWakeup
  BY <1>25 DEF SpuriousWakeup
<1>26. CASE UNCHANGED vars
  BY <1>26 DEF vars
<1>27. QED
  BY <1>1, <1>2, <1>3, <1>4, <1>5, <1>6, <1>7, <1>8, <1>9, <1>10, <1>11, <1>12, <1>13, <1>14, <1>15, <1>16, <1>17, <1>18, <1>19, <1>20, <1>21, <1>22, <1>23, <1>24, <1>25, <1>26 DEF Next, Producer, Display

LEMMA ProducerOwnsStep == Inv /\ [Next]_vars => ProducerOwns'
<1> SUFFICES ASSUME Inv, [Next]_vars PROVE ProducerOwns'
  OBVIOUS
<1> USE FbNumAssumption, PeriodAssumption
    DEF Inv, ProducerOwns, DisplayOwns, TypeOK, PPcs, DPcs, Slots, Ticks, None,
        Wrap, Succ, NextTick, Torn, Blank, Releasing, fifo, locks, kms, cursor
<1>1. CASE PLockW
  BY <1>1 DEF ProducerAt, PLockW
<1>2. CASE PTestW
  BY <1>2 DEF ProducerAt, PTestW
<1>3. CASE PWaitW
  BY <1>3 DEF ProducerAt, PWaitW
<1>4. CASE PUnlockW
  BY <1>4 DEF ProducerAt, PUnlockW
<1>5. CASE PPaintBegin
  BY <1>5 DEF ProducerAt, PPaintBegin
<1>6. CASE PPaintEnd
  BY <1>6 DEF ProducerAt, PPaintEnd
<1>7. CASE PLockR
  BY <1>7 DEF ProducerAt, PLockR
<1>8. CASE PMark
  BY <1>8 DEF ProducerAt, PMark
<1>9. CASE PUnlockR
  BY <1>9 DEF ProducerAt, PUnlockR
<1>10. CASE PSignalR
  BY <1>10 DEF ProducerAt, PSignalR
<1>11. CASE PWrap
  BY <1>11 DEF ProducerAt, PWrap
<1>12. CASE DLockR
  BY <1>12 DEF DisplayAt, DLockR
<1>13. CASE DTestR
  BY <1>13 DEF DisplayAt, DTestR
<1>14. CASE DWaitR
  BY <1>14 DEF DisplayAt, DWaitR
<1>15. CASE DUnlockR
  BY <1>15 DEF DisplayAt, DUnlockR
<1>16. CASE DPageFlip
  BY <1>16 DEF DisplayAt, DPageFlip
<1>17. CASE DMoveCursor
  BY <1>17 DEF DisplayAt, DMoveCursor
<1>18. CASE DHandleEvent
  BY <1>18 DEF DisplayAt, DHandleEvent
<1>19. CASE DLockW
  BY <1>19 DEF DisplayAt, DLockW
<1>20. CASE DRelease
  BY <1>20 DEF DisplayAt, DRelease
<1>21. CASE DUnlockW
  BY <1>21 DEF DisplayAt, DUnlockW
<1>22. CASE DSignalW
  BY <1>22 DEF DisplayAt, DSignalW
<1>23. CASE DAdvance
  BY <1>23 DEF DisplayAt, DAdvance
<1>24. CASE VBlank
  BY <1>24 DEF VBlank
<1>25. CASE SpuriousWakeup
  BY <1>25 DEF SpuriousWakeup
<1>26. CASE UNCHANGED vars
  BY <1>26 DEF vars
<1>27. QED
  BY <1>1, <1>2, <1>3, <1>4, <1>5, <1>6, <1>7, <1>8, <1>9, <1>10, <1>11, <1>12, <1>13, <1>14, <1>15, <1>16, <1>17, <1>18, <1>19, <1>20, <1>21, <1>22, <1>23, <1>24, <1>25, <1>26 DEF Next, Producer, Display

LEMMA DisplayOwnsStep == Inv /\ [Next]_vars => DisplayOwns'
<1> SUFFICES ASSUME Inv, [Next]_vars PROVE DisplayOwns'
  OBVIOUS
<1> USE FbNumAssumption
    DEF Inv, ProducerOwns, DisplayOwns, TypeOK, PPcs, DPcs, Slots, Ticks, None,
        Wrap, Succ, Releasing, fifo, locks, kms, cursor
<1>1. CASE PLockW
  BY <1>1 DEF ProducerAt, PLockW
<1>2. CASE PTestW
  BY <1>2 DEF ProducerAt, PTestW
<1>3. CASE PWaitW
  BY <1>3 DEF ProducerAt, PWaitW
<1>4. CASE PUnlockW
  BY <1>4 DEF ProducerAt, PUnlockW
<1>5. CASE PPaintBegin
  BY <1>5 DEF ProducerAt, PPaintBegin
<1>6. CASE PPaintEnd
  BY <1>6 DEF ProducerAt, PPaintEnd
<1>7. CASE PLockR
  BY <1>7 DEF ProducerAt, PLockR
<1>8. CASE PMark
  BY <1>8 DEF ProducerAt, PMark
<1>9. CASE PUnlockR
  BY <1>9 DEF ProducerAt, PUnlockR
<1>10. CASE PSignalR
  BY <1>10 DEF ProducerAt, PSignalR
<1>11. CASE PWrap
  BY <1>11 DEF ProducerAt, PWrap
<1>12. CASE DLockR
  BY <1>12 DEF DisplayAt, DLockR
<1>13. CASE DTestR
  BY <1>13 DEF DisplayAt, DTestR
<1>14. CASE DWaitR
  BY <1>14 DEF DisplayAt, DWaitR
<1>15. CASE DUnlockR
  BY <1>15 DEF DisplayAt, DUnlockR
<1>16. CASE DPageFlip
  BY <1>16 DEF DisplayAt, DPageFlip
<1>17. CASE DMoveCursor
  BY <1>17 DEF DisplayAt, DMoveCursor
<1>18. CASE DHandleEvent
  BY <1>18 DEF DisplayAt, DHandleEvent
<1>19. CASE DLockW
  BY <1>19 DEF DisplayAt, DLockW
<1>20. CASE DRelease
  BY <1>20 DEF DisplayAt, DRelease
<1>21. CASE DUnlockW
  BY <1>21 DEF DisplayAt, DUnlockW
<1>22. CASE DSignalW
  BY <1>22 DEF DisplayAt, DSignalW
<1>23. CASE DAdvance
  BY <1>23 DEF DisplayAt, DAdvance
<1>24. CASE VBlank
  BY <1>24 DEF VBlank
<1>25. CASE SpuriousWakeup
  BY <1>25 DEF SpuriousWakeup
<1>26. CASE UNCHANGED vars
  BY <1>26 DEF vars
<1>27. QED
  BY <1>1, <1>2, <1>3, <1>4, <1>5, <1>6, <1>7, <1>8, <1>9, <1>10, <1>11, <1>12, <1>13, <1>14, <1>15, <1>16, <1>17, <1>18, <1>19, <1>20, <1>21, <1>22, <1>23, <1>24, <1>25, <1>26 DEF Next, Producer, Display

(* The producer touches nothing of the display thread, the kernel or the    *)
(* cursor.                                                                 *)
LEMMA ProducerFrame ==
  Producer => UNCHANGED <<rp, old_rp, dpc, screen, flip, event, cx, cy, cdelta>>
BY DEF Producer, ProducerAt, fifo, kms, cursor, PLockW, PTestW, PWaitW, PUnlockW, PPaintBegin,
      PPaintEnd, PLockR, PMark, PUnlockR, PSignalR, PWrap

LEMMA KmsInStepStep == Inv /\ [Next]_vars => KmsInStep'
<1> SUFFICES ASSUME Inv, [Next]_vars PROVE KmsInStep'
  OBVIOUS
<1> USE FbNumAssumption
    DEF Inv, KmsInStep, DisplayOwns, TypeOK, DPcs, Slots, None, Releasing,
        fifo, locks, kms, cursor
<1>1. CASE Producer
  BY <1>1, ProducerFrame
<1>2. CASE DLockR
  BY <1>2 DEF DisplayAt, DLockR
<1>3. CASE DTestR
  BY <1>3 DEF DisplayAt, DTestR
<1>4. CASE DWaitR
  BY <1>4 DEF DisplayAt, DWaitR
<1>5. CASE DUnlockR
  BY <1>5 DEF DisplayAt, DUnlockR
<1>6. CASE DPageFlip
  BY <1>6 DEF DisplayAt, DPageFlip
<1>7. CASE DMoveCursor
  BY <1>7 DEF DisplayAt, DMoveCursor
<1>8. CASE DHandleEvent
  BY <1>8 DEF DisplayAt, DHandleEvent
<1>9. CASE DLockW
  BY <1>9 DEF DisplayAt, DLockW
<1>10. CASE DRelease
  BY <1>10 DEF DisplayAt, DRelease
<1>11. CASE DUnlockW
  BY <1>11 DEF DisplayAt, DUnlockW
<1>12. CASE DSignalW
  BY <1>12 DEF DisplayAt, DSignalW
<1>13. CASE DAdvance
  BY <1>13 DEF DisplayAt, DAdvance
<1>14. CASE VBlank
  BY <1>14 DEF VBlank
<1>15. CASE SpuriousWakeup
  BY <1>15 DEF SpuriousWakeup
<1>16. CASE UNCHANGED vars
  BY <1>16 DEF vars
<1>17. QED
  BY <1>1, <1>2, <1>3, <1>4, <1>5, <1>6, <1>7, <1>8, <1>9, <1>10, <1>11, <1>12, <1>13, <1>14, <1>15, <1>16 DEF Next, Display

LEMMA SleepersWaitStep == Inv /\ [Next]_vars => SleepersWait'
<1> SUFFICES ASSUME Inv, [Next]_vars PROVE SleepersWait'
  OBVIOUS
<1> USE FbNumAssumption
    DEF Inv, LocksHeld, SleepersWait, NoLostWakeup, ProducerOwns,
        DisplayOwns, TypeOK, PPcs, DPcs, Slots, Ticks, None, Wrap, Succ, fifo, locks, kms, cursor
<1>1. CASE PLockW
  BY <1>1 DEF ProducerAt, PLockW
<1>2. CASE PTestW
  BY <1>2 DEF ProducerAt, PTestW
<1>3. CASE PWaitW
  BY <1>3 DEF ProducerAt, PWaitW
<1>4. CASE PUnlockW
  BY <1>4 DEF ProducerAt, PUnlockW
<1>5. CASE PPaintBegin
  BY <1>5 DEF ProducerAt, PPaintBegin
<1>6. CASE PPaintEnd
  BY <1>6 DEF ProducerAt, PPaintEnd
<1>7. CASE PLockR
  BY <1>7 DEF ProducerAt, PLockR
<1>8. CASE PMark
  BY <1>8 DEF ProducerAt, PMark
<1>9. CASE PUnlockR
  BY <1>9 DEF ProducerAt, PUnlockR
<1>10. CASE PSignalR
  BY <1>10 DEF ProducerAt, PSignalR
<1>11. CASE PWrap
  BY <1>11 DEF ProducerAt, PWrap
<1>12. CASE DLockR
  BY <1>12 DEF DisplayAt, DLockR
<1>13. CASE DTestR
  BY <1>13 DEF DisplayAt, DTestR
<1>14. CASE DWaitR
  BY <1>14 DEF DisplayAt, DWaitR
<1>15. CASE DUnlockR
  BY <1>15 DEF DisplayAt, DUnlockR
<1>16. CASE DPageFlip
  BY <1>16 DEF DisplayAt, DPageFlip
<1>17. CASE DMoveCursor
  BY <1>17 DEF DisplayAt, DMoveCursor
<1>18. CASE DHandleEvent
  BY <1>18 DEF DisplayAt, DHandleEvent
<1>19. CASE DLockW
  BY <1>19 DEF DisplayAt, DLockW
<1>20. CASE DRelease
  BY <1>20 DEF DisplayAt, DRelease
<1>21. CASE DUnlockW
  BY <1>21 DEF DisplayAt, DUnlockW
<1>22. CASE DSignalW
  BY <1>22 DEF DisplayAt, DSignalW
<1>23. CASE DAdvance
  BY <1>23 DEF DisplayAt, DAdvance
<1>24. CASE VBlank
  BY <1>24 DEF VBlank
<1>25. CASE SpuriousWakeup
  BY <1>25 DEF SpuriousWakeup
<1>26. CASE UNCHANGED vars
  BY <1>26 DEF vars
<1>27. QED
  BY <1>1, <1>2, <1>3, <1>4, <1>5, <1>6, <1>7, <1>8, <1>9, <1>10, <1>11, <1>12, <1>13, <1>14, <1>15, <1>16, <1>17, <1>18, <1>19, <1>20, <1>21, <1>22, <1>23, <1>24, <1>25, <1>26 DEF Next, Producer, Display

LEMMA RingInOrderStep == Inv /\ [Next]_vars => RingInOrder'
<1> SUFFICES ASSUME Inv, [Next]_vars PROVE RingInOrder'
  OBVIOUS
<1> USE FbNumAssumption, PeriodAssumption
    DEF Inv, RingInOrder, ProducerOwns, DisplayOwns, FillSlot, Oldest, NextFrame,
        TypeOK, PPcs, DPcs, Slots, Ticks, None, Releasing, Wrap, Succ, NextTick, fifo, locks, kms, cursor
<1>1. CASE PLockW
  BY <1>1 DEF ProducerAt, PLockW
<1>2. CASE PTestW
  BY <1>2 DEF ProducerAt, PTestW
<1>3. CASE PWaitW
  BY <1>3 DEF ProducerAt, PWaitW
<1>4. CASE PUnlockW
  BY <1>4 DEF ProducerAt, PUnlockW
<1>5. CASE PPaintBegin
  BY <1>5 DEF ProducerAt, PPaintBegin
<1>6. CASE PPaintEnd
  BY <1>6 DEF ProducerAt, PPaintEnd
<1>7. CASE PLockR
  BY <1>7 DEF ProducerAt, PLockR
<1>8. CASE PMark
  BY <1>8 DEF ProducerAt, PMark
<1>9. CASE PUnlockR
  BY <1>9 DEF ProducerAt, PUnlockR
<1>10. CASE PSignalR
  BY <1>10 DEF ProducerAt, PSignalR
<1>11. CASE PWrap
  BY <1>11 DEF ProducerAt, PWrap
<1>12. CASE DLockR
  BY <1>12 DEF DisplayAt, DLockR
<1>13. CASE DTestR
  BY <1>13 DEF DisplayAt, DTestR
<1>14. CASE DWaitR
  BY <1>14 DEF DisplayAt, DWaitR
<1>15. CASE DUnlockR
  BY <1>15 DEF DisplayAt, DUnlockR
<1>16. CASE DPageFlip
  BY <1>16 DEF DisplayAt, DPageFlip
<1>17. CASE DMoveCursor
  BY <1>17 DEF DisplayAt, DMoveCursor
<1>18. CASE DHandleEvent
  BY <1>18 DEF DisplayAt, DHandleEvent
<1>19. CASE DLockW
  BY <1>19 DEF DisplayAt, DLockW
<1>20. CASE DRelease
  BY <1>20 DEF DisplayAt, DRelease
<1>21. CASE DUnlockW
  BY <1>21 DEF DisplayAt, DUnlockW
<1>22. CASE DSignalW
  BY <1>22 DEF DisplayAt, DSignalW
<1>23. CASE DAdvance
  BY <1>23 DEF DisplayAt, DAdvance
<1>24. CASE VBlank
  BY <1>24 DEF VBlank
<1>25. CASE SpuriousWakeup
  BY <1>25 DEF SpuriousWakeup
<1>26. CASE UNCHANGED vars
  BY <1>26 DEF vars
<1>27. QED
  BY <1>1, <1>2, <1>3, <1>4, <1>5, <1>6, <1>7, <1>8, <1>9, <1>10, <1>11, <1>12, <1>13, <1>14, <1>15, <1>16, <1>17, <1>18, <1>19, <1>20, <1>21, <1>22, <1>23, <1>24, <1>25, <1>26 DEF Next, Producer, Display

LEMMA FirstFrameStep == Inv /\ [Next]_vars => FirstFrame'
<1> SUFFICES ASSUME Inv, [Next]_vars PROVE FirstFrame'
  OBVIOUS
<1> USE FbNumAssumption, PeriodAssumption
    DEF Inv, FirstFrame, RingInOrder, ProducerOwns, DisplayOwns, FillSlot, Oldest, NextFrame,
        TypeOK, PPcs, DPcs, Slots, Ticks, None, Releasing, Wrap, Succ, NextTick, fifo, locks, kms, cursor
<1>1. CASE PLockW
  BY <1>1 DEF ProducerAt, PLockW
<1>2. CASE PTestW
  BY <1>2 DEF ProducerAt, PTestW
<1>3. CASE PWaitW
  BY <1>3 DEF ProducerAt, PWaitW
<1>4. CASE PUnlockW
  BY <1>4 DEF ProducerAt, PUnlockW
<1>5. CASE PPaintBegin
  BY <1>5 DEF ProducerAt, PPaintBegin
<1>6. CASE PPaintEnd
  BY <1>6 DEF ProducerAt, PPaintEnd
<1>7. CASE PLockR
  BY <1>7 DEF ProducerAt, PLockR
<1>8. CASE PMark
  BY <1>8 DEF ProducerAt, PMark
<1>9. CASE PUnlockR
  BY <1>9 DEF ProducerAt, PUnlockR
<1>10. CASE PSignalR
  BY <1>10 DEF ProducerAt, PSignalR
<1>11. CASE PWrap
  BY <1>11 DEF ProducerAt, PWrap
<1>12. CASE DLockR
  BY <1>12 DEF DisplayAt, DLockR
<1>13. CASE DTestR
  BY <1>13 DEF DisplayAt, DTestR
<1>14. CASE DWaitR
  BY <1>14 DEF DisplayAt, DWaitR
<1>15. CASE DUnlockR
  BY <1>15 DEF DisplayAt, DUnlockR
<1>16. CASE DPageFlip
  BY <1>16 DEF DisplayAt, DPageFlip
<1>17. CASE DMoveCursor
  BY <1>17 DEF DisplayAt, DMoveCursor
<1>18. CASE DHandleEvent
  BY <1>18 DEF DisplayAt, DHandleEvent
<1>19. CASE DLockW
  BY <1>19 DEF DisplayAt, DLockW
<1>20. CASE DRelease
  BY <1>20 DEF DisplayAt, DRelease
<1>21. CASE DUnlockW
  BY <1>21 DEF DisplayAt, DUnlockW
<1>22. CASE DSignalW
  BY <1>22 DEF DisplayAt, DSignalW
<1>23. CASE DAdvance
  BY <1>23 DEF DisplayAt, DAdvance
<1>24. CASE VBlank
  BY <1>24 DEF VBlank
<1>25. CASE SpuriousWakeup
  BY <1>25 DEF SpuriousWakeup
<1>26. CASE UNCHANGED vars
  BY <1>26 DEF vars
<1>27. QED
  BY <1>1, <1>2, <1>3, <1>4, <1>5, <1>6, <1>7, <1>8, <1>9, <1>10, <1>11, <1>12, <1>13, <1>14, <1>15, <1>16, <1>17, <1>18, <1>19, <1>20, <1>21, <1>22, <1>23, <1>24, <1>25, <1>26 DEF Next, Producer, Display

LEMMA CursorInvStep == TypeOK /\ CursorInv /\ [Next]_vars => CursorInv'
<1> SUFFICES ASSUME TypeOK, CursorInv, [Next]_vars PROVE CursorInv'
  OBVIOUS
<1>1. CASE DMoveCursor
  BY <1>1, DisplayAssumption DEF DMoveCursor, CursorInv, TypeOK
<1>2. CASE cursor' = cursor
  BY <1>2 DEF cursor, CursorInv
<1>3. CASE Display /\ ~DMoveCursor
  BY <1>2, <1>3 DEF Display, DLockR, DTestR, DWaitR, DUnlockR, DPageFlip,
     DHandleEvent, DLockW, DRelease, DUnlockW, DSignalW, DAdvance
<1>4. QED
  BY <1>1, <1>2, <1>3, ProducerFrame
     DEF Next, vars, cursor, VBlank, SpuriousWakeup

(* Inv is inductive, for every number of framebuffers from two on. *)
THEOREM Invariance == Spec => []Inv
<1>1. Inv /\ [Next]_vars => Inv'
  BY TypeOKStep, LocksHeldStep, ProducerOwnsStep, DisplayOwnsStep,
     KmsInStepStep, SleepersWaitStep, RingInOrderStep, FirstFrameStep,
     CursorInvStep DEF Inv
<1>2. QED
  BY InitInv, <1>1, PTL DEF Spec

(* The types of all variables, in particular wp = FB_NUM only between       *)
(* fb_val[wp++] = 1 and the wrap.                                          *)
THEOREM TypeCorrect == Spec => []TypeOK
<1>1. Inv => TypeOK
  BY DEF Inv
<1>2. QED
  BY Invariance, <1>1, PTL

(* The producer never paints into the framebuffer on the screen or into     *)
(* the one the kernel is about to latch.                                   *)
THEOREM NoTearingAlways == Spec => []NoTearing
<1>1. Inv => NoTearing
  BY DEF Inv, NoTearing, KmsInStep, DisplayOwns, ProducerOwns, TypeOK, DPcs,
         Releasing, Slots, None
<1>2. QED
  BY Invariance, <1>1, PTL

(* drmModePageFlip() never finds another flip pending. *)
THEOREM FlipNeverBusyAlways == Spec => []FlipNeverBusy
<1>1. Inv => FlipNeverBusy
  BY DEF Inv, FlipNeverBusy, KmsInStep
<1>2. QED
  BY Invariance, <1>1, PTL

(* The two writes to fb_val that no common mutex orders never meet. *)
THEOREM NoDataRaceAlways == Spec => []NoDataRace
<1>1. Inv => NoDataRace
  BY DEF Inv, NoDataRace, ProducerOwns, DisplayOwns, Releasing
<1>2. QED
  BY Invariance, <1>1, PTL

(* No thread sleeps through the signal it waits for. *)
THEOREM NoLostWakeupAlways == Spec => []NoLostWakeup
<1>1. Inv => NoLostWakeup
  BY DEF Inv, SleepersWait
<1>2. QED
  BY Invariance, <1>1, PTL

(* The cursor stays on the screen for every width and height of the mode. *)
THEOREM CursorOnScreenAlways == Spec => []CursorOnScreen
<1>1. Inv => CursorOnScreen
  BY DisplayAssumption DEF Inv, CursorOnScreen, CursorInv, TypeOK
<1>2. QED
  BY Invariance, <1>1, PTL

(* Every frame that comes to the screen is the successor of the frame it    *)
(* replaces, and the first one is the first painted.                       *)
THEOREM FramesInOrderAlways == Spec => FramesInOrder
<1>1. Inv /\ [Next]_vars =>
        [screen' # screen => IF screen = None THEN picture'[screen'] = 0
                             ELSE picture'[screen'] = NextTick(picture[screen])]_vars
  <2> SUFFICES ASSUME Inv, Next, screen' # screen
               PROVE  IF screen = None THEN picture'[screen'] = 0
                      ELSE picture'[screen'] = NextTick(picture[screen])
    BY DEF vars
  <2>1. VBlank
    <3>1. ~Producer
      BY DEF Producer, PLockW, PTestW, PWaitW, PUnlockW, PPaintBegin, PPaintEnd,
             PLockR, PMark, PUnlockR, PSignalR, PWrap, kms
    <3>2. ~Display
      BY DEF Display, DLockR, DTestR, DWaitR, DUnlockR, DPageFlip, DMoveCursor,
             DHandleEvent, DLockW, DRelease, DUnlockW, DSignalW, DAdvance, kms
    <3>3. ~SpuriousWakeup
      BY DEF SpuriousWakeup, kms
    <3>4. QED
      BY <3>1, <3>2, <3>3 DEF Next
  <2>2. screen' = rp /\ screen = old_rp /\ picture' = picture /\ fb_val[rp] = 1
    BY <2>1 DEF VBlank, Inv, KmsInStep, DisplayOwns, TypeOK, DPcs, Releasing
  <2>3. CASE screen = None
    BY <2>2, <2>3 DEF Inv, FirstFrame
  <2>4. CASE screen # None
    <3>1. rp = Succ(old_rp) /\ old_rp \in Slots /\ rp # old_rp
      BY <2>2, <2>4, FbNumAssumption
         DEF Inv, DisplayOwns, TypeOK, Slots, Succ, Wrap
    <3>2. fb_val[old_rp] = 1 /\ Oldest = old_rp
      BY <2>1, <2>2, <2>4
         DEF Inv, VBlank, KmsInStep, DisplayOwns, Oldest, TypeOK, DPcs, Releasing
    <3>3. QED
      BY <2>2, <2>4, <3>1, <3>2 DEF Inv, RingInOrder
  <2>5. QED
    BY <2>3, <2>4
<1>2. QED
  BY Invariance, <1>1, PTL DEF Spec, FramesInOrder
-----------------------------------------------------------------------------
(* The mapping of FbFifoRefinement: the slot of the k-th ready frame, and   *)
(* what is shown.                                                          *)
Slot(k) == IF HeadSlot + k - 1 >= FB_NUM THEN HeadSlot + k - 1 - FB_NUM
           ELSE HeadSlot + k - 1

Shown    == IF screen = None THEN -1 ELSE picture[screen]
Pictures == Ticks \cup {Blank, Torn}

(* What is on the screen is full; before the first flip rp is the head. *)
LEMMA ScreenFull ==
  ASSUME Inv
  PROVE  /\ screen # None => screen \in Slots /\ fb_val[screen] = 1
         /\ screen = None => old_rp = None /\ rp = 0
BY DEF Inv, KmsInStep, DisplayOwns, FirstFrame, TypeOK, DPcs, Releasing, None, Slots

(* How far the slot that is filled next lies behind the head.              *)
LEMMA ReadyType ==
  ASSUME Inv
  PROVE  /\ NumReady \in 0 .. FB_NUM
         /\ HeadSlot \in Slots /\ FillSlot \in Slots
         /\ \A k \in 1 .. NumReady : Slot(k) \in Slots
         /\ FillSlot = HeadSlot + NumReady \/ FillSlot = HeadSlot + NumReady - FB_NUM
         /\ NumReady = FB_NUM => fb_val[FillSlot] = 1 /\ screen = None
<1> USE FbNumAssumption
<1>1. HeadSlot \in Slots /\ FillSlot \in Slots
  BY DEF Inv, TypeOK, HeadSlot, FillSlot, Succ, Wrap, Slots, None
<1>2. NumReady = IF FillSlot > HeadSlot THEN FillSlot - HeadSlot
                 ELSE IF FillSlot < HeadSlot THEN FillSlot - HeadSlot + FB_NUM
                 ELSE IF screen = None /\ fb_val[HeadSlot] = 1 THEN FB_NUM ELSE 0
  BY DEF NumReady, FillSlot
<1> QED BY <1>1, <1>2 DEF Slots, Slot

ReadySeq ==
  /\ ReadyFrames \in Seq(Pictures)
  /\ Len(ReadyFrames) = NumReady
  /\ \A k \in 1 .. NumReady : ReadyFrames[k] = picture[Slot(k)]

LEMMA ReadyIsSeq == Inv => ReadySeq
<1> SUFFICES ASSUME Inv PROVE ReadySeq
  OBVIOUS
<1>1. NumReady \in Nat /\ \A k \in 1 .. NumReady : picture[Slot(k)] \in Pictures
  BY ReadyType, FbNumAssumption DEF Inv, TypeOK, Pictures
<1>2. ReadyFrames = [k \in 1 .. NumReady |-> picture[Slot(k)]]
  BY DEF ReadyFrames, Slot
<1>3. ReadyFrames \in [1 .. NumReady -> Pictures]
  BY <1>1, <1>2
<1> QED BY <1>1, <1>2, <1>3 DEF ReadySeq

(* The same of the state after a step. *)
LEMMA ReadyIsSeqNext ==
  ASSUME Inv'
  PROVE  /\ ReadyFrames' \in Seq(Pictures)
         /\ Len(ReadyFrames') = NumReady'
         /\ \A k \in 1 .. NumReady' : ReadyFrames'[k] = picture'[Slot(k)']
<1>1. (Inv => ReadySeq)'
  BY ReadyIsSeq, PTL
<1> QED BY <1>1 DEF ReadySeq, Pictures, Ticks, Blank, Torn

(* A free slot is neither on the screen nor among the ready frames. *)
LEMMA FreeSlotApart ==
  ASSUME Inv, fb_val[FillSlot] = 0
  PROVE  /\ screen # FillSlot
         /\ \A k \in 1 .. NumReady : Slot(k) # FillSlot
         /\ NumReady < FB_NUM
<1>1. screen # FillSlot /\ NumReady < FB_NUM
  BY ScreenFull, ReadyType, FbNumAssumption DEF Slots, None
<1>2. ASSUME NEW k \in 1 .. NumReady PROVE Slot(k) # FillSlot
  BY <1>1, <1>2, ReadyType, FbNumAssumption DEF Slot, Slots
<1> QED BY <1>1, <1>2

-----------------------------------------------------------------------------
(* Marking a frame publishes it: one more is ready, behind the others.     *)
LEMMA MarkPublishes == Inv /\ Inv' /\ PMark => Queue!Publish
<1> SUFFICES ASSUME Inv, Inv', PMark PROVE Queue!Publish
  OBVIOUS
<1> USE FbNumAssumption
<1>1. /\ ppc = "mark" /\ ppc' = "unlock_r" /\ wp' = wp + 1 /\ screen' = screen
      /\ picture' = picture /\ tick' = tick /\ fb_val' = [fb_val EXCEPT ![wp] = 1]
  BY DEF PMark, ProducerAt, kms
<1>2. wp \in Slots /\ FillSlot = wp /\ fb_val[FillSlot] = 0 /\ picture[FillSlot] = tick
  BY <1>1 DEF Inv, TypeOK, ProducerOwns, FillSlot, Wrap, Slots
<1>3. NextFrame = tick /\ NextFrame' = NextTick(tick) /\ tick \in Ticks
  BY <1>1 DEF NextFrame, NextTick, Inv, TypeOK
<1>4. HeadSlot' = HeadSlot /\ FillSlot' = Succ(FillSlot) /\ \A k \in Nat : Slot(k)' = Slot(k)
  BY <1>1, <1>2 DEF HeadSlot, FillSlot, Succ, Wrap, Slots, None, Slot
<1>5. NumReady + (IF screen = None THEN 0 ELSE 1) < FB_NUM
  <2>1. CASE screen = None
    BY <1>2, <2>1, FreeSlotApart, ReadyType
  <2>2. CASE screen # None
    <3>1. screen \in Slots /\ screen # FillSlot /\ HeadSlot = Succ(screen)
      BY <1>2, <2>2, ScreenFull, FreeSlotApart DEF HeadSlot
    <3> QED BY <1>2, <2>2, <3>1, ReadyType, FreeSlotApart DEF Slots, Succ, Wrap
  <2> QED BY <2>1, <2>2
<1>6. NumReady' = NumReady + 1
  <2>1. NumReady' = IF FillSlot' > HeadSlot THEN FillSlot' - HeadSlot
                    ELSE IF FillSlot' < HeadSlot THEN FillSlot' - HeadSlot + FB_NUM
                    ELSE IF screen = None /\ fb_val'[HeadSlot] = 1 THEN FB_NUM ELSE 0
    BY <1>1, <1>4 DEF NumReady, FillSlot
  <2>2. CASE screen # None
    <3>1. screen \in Slots /\ screen # FillSlot /\ HeadSlot = Succ(screen)
      BY <1>2, <2>2, ScreenFull, FreeSlotApart DEF HeadSlot
    <3> QED BY <1>2, <1>4, <1>5, <2>1, <2>2, <3>1, ReadyType DEF Slots, Succ, Wrap
  <2>3. CASE screen = None
    <3>1. HeadSlot = 0 /\ old_rp = None
      BY <2>3, ScreenFull DEF HeadSlot
    <3>2. fb_val'[0] = 1
      <4>1. fb_val[0] = 0 => FillSlot = 0
        BY <3>1 DEF Inv, FirstFrame
      <4> QED BY <1>1, <1>2, <4>1 DEF Inv, TypeOK, Slots
    <3> QED BY <1>2, <1>4, <1>5, <2>1, <2>3, <3>1, <3>2, ReadyType DEF Slots, Succ, Wrap
  <2> QED BY <2>2, <2>3
<1>7. Slot(NumReady + 1) = FillSlot
  BY <1>2, FreeSlotApart, ReadyType DEF Slot, Slots
<1>8. ReadyFrames' = Append(ReadyFrames, NextFrame)
  <2>1. NextFrame \in Pictures
    BY <1>3 DEF Pictures
  <2>2. /\ Append(ReadyFrames, NextFrame) \in Seq(Pictures)
        /\ Len(Append(ReadyFrames, NextFrame)) = NumReady + 1
        /\ \A k \in 1 .. NumReady : Append(ReadyFrames, NextFrame)[k] = ReadyFrames[k]
        /\ Append(ReadyFrames, NextFrame)[NumReady + 1] = NextFrame
    BY <2>1, ReadyIsSeq, AppendProperties DEF ReadySeq
  <2>3. /\ ReadyFrames' \in Seq(Pictures) /\ Len(ReadyFrames') = NumReady + 1
        /\ \A k \in 1 .. NumReady + 1 : ReadyFrames'[k] = picture[Slot(k)]
    BY <1>1, <1>4, <1>6, ReadyIsSeqNext, ReadyType
  <2>4. \A k \in 1 .. NumReady + 1 : ReadyFrames'[k] = Append(ReadyFrames, NextFrame)[k]
    BY <1>2, <1>3, <1>7, <2>2, <2>3, ReadyIsSeq, ReadyType DEF ReadySeq
  <2> QED BY <2>2, <2>3, <2>4
<1>9. Shown' = Shown /\ (Shown = -1 <=> screen = None)
  BY <1>1, ScreenFull DEF Shown, Inv, ProducerOwns, Ticks
<1> QED BY <1>3, <1>5, <1>8, <1>9, ReadyIsSeq
        DEF ReadySeq, Queue!Publish, Queue!Occupied, Queue!Nothing, Queue!After, NextTick, Shown

(* The vertical blank takes the oldest ready frame to the screen.          *)
LEMMA VBlankShows == Inv /\ Inv' /\ VBlank => Queue!Show
<1> SUFFICES ASSUME Inv, Inv', VBlank PROVE Queue!Show
  OBVIOUS
<1> USE FbNumAssumption
<1>1. /\ screen' = rp /\ screen = old_rp /\ rp \in Slots /\ fb_val[rp] = 1
      /\ dpc \in {"cursor", "event"}
      /\ old_rp # None => rp = Succ(old_rp) /\ rp # old_rp
  BY DEF VBlank, Inv, KmsInStep, DisplayOwns, TypeOK, DPcs, Releasing, Succ, Wrap, Slots, None
<1>2. /\ picture' = picture /\ wp' = wp /\ fb_val' = fb_val /\ ppc' = ppc /\ tick' = tick
  BY DEF VBlank, fifo
<1>3. HeadSlot = rp /\ HeadSlot' = Succ(rp) /\ FillSlot' = FillSlot /\ screen' # None
  BY <1>1, <1>2, ScreenFull DEF HeadSlot, FillSlot, Slots, None
<1>4. FillSlot = HeadSlot => screen = None
  BY <1>1, <1>3 DEF Inv, RingInOrder, Oldest, Releasing
<1>5. NumReady \in 1 .. FB_NUM /\ NumReady' = NumReady - 1
  <2>1. NumReady = IF FillSlot > HeadSlot THEN FillSlot - HeadSlot
                   ELSE IF FillSlot < HeadSlot THEN FillSlot - HeadSlot + FB_NUM
                   ELSE IF screen = None /\ fb_val[HeadSlot] = 1 THEN FB_NUM ELSE 0
    BY DEF NumReady, FillSlot
  <2>2. NumReady' = IF FillSlot > HeadSlot' THEN FillSlot - HeadSlot'
                    ELSE IF FillSlot < HeadSlot' THEN FillSlot - HeadSlot' + FB_NUM ELSE 0
    BY <1>2, <1>3 DEF NumReady, FillSlot
  <2> QED BY <1>1, <1>3, <1>4, <2>1, <2>2, ReadyType DEF Slots, Succ, Wrap
<1>6. Slot(1) = rp /\ \A k \in 1 .. NumReady - 1 : Slot(k)' = Slot(k + 1)
  BY <1>1, <1>3, <1>5 DEF Slot, Slots, Succ, Wrap
<1>7. ReadyFrames # <<>> /\ Head(ReadyFrames) = picture[rp]
  BY <1>5, <1>6, ReadyIsSeq DEF ReadySeq
<1>8. ReadyFrames' = Tail(ReadyFrames)
  <2>1. /\ Tail(ReadyFrames) \in Seq(Pictures)
        /\ Len(Tail(ReadyFrames)) = NumReady - 1
        /\ \A k \in 1 .. NumReady - 1 : Tail(ReadyFrames)[k] = ReadyFrames[k + 1]
    BY <1>7, ReadyIsSeq, HeadTailProperties DEF ReadySeq
  <2>2. /\ ReadyFrames' \in Seq(Pictures) /\ Len(ReadyFrames') = NumReady - 1
        /\ \A k \in 1 .. NumReady - 1 : ReadyFrames'[k] = picture[Slot(k + 1)]
    BY <1>2, <1>5, <1>6, ReadyIsSeqNext
  <2>3. \A k \in 1 .. NumReady - 1 : ReadyFrames'[k] = Tail(ReadyFrames)[k]
    BY <1>5, <2>1, <2>2, ReadyIsSeq DEF ReadySeq
  <2> QED BY <2>1, <2>2, <2>3
<1>9. Shown' = picture[rp] /\ NextFrame' = NextFrame
  BY <1>1, <1>2, <1>3 DEF Shown, NextFrame, NextTick
<1> QED BY <1>7, <1>8, <1>9 DEF Queue!Show, Shown

(* All other steps leave the queue alone: painting touches a free slot, and *)
(* freeing one the screen has left.                                        *)
QueueSame == ReadyFrames' = ReadyFrames /\ NextFrame' = NextFrame /\ Shown' = Shown

LEMMA PaintHidden ==
  ASSUME Inv, PPaintBegin \/ PPaintEnd
  PROVE  QueueSame
<1> USE FbNumAssumption
<1>1. /\ UNCHANGED <<screen, wp, fb_val, tick>> /\ NextFrame' = NextFrame
      /\ fb_val[FillSlot] = 0 /\ FillSlot = wp
      /\ \A i \in Slots : i # wp => picture'[i] = picture[i]
  BY DEF PPaintBegin, PPaintEnd, ProducerAt, fifo, kms, NextFrame, NextTick, Inv, TypeOK,
         ProducerOwns, FillSlot, Wrap, Slots
<1>2. NumReady' = NumReady /\ HeadSlot' = HeadSlot /\ \A k \in Nat : Slot(k)' = Slot(k)
  BY <1>1 DEF NumReady, HeadSlot, Slot
<1>3. \A k \in 1 .. NumReady : picture'[Slot(k)] = picture[Slot(k)]
  BY <1>1, FreeSlotApart, ReadyType
<1>4. ReadyFrames' = ReadyFrames
  BY <1>2, <1>3, ReadyType DEF ReadyFrames, Slot
<1>5. Shown' = Shown
  BY <1>1, FreeSlotApart, ScreenFull DEF Shown
<1> QED BY <1>1, <1>4, <1>5 DEF QueueSame

LEMMA ReleaseHidden ==
  ASSUME Inv, DRelease
  PROVE  QueueSame
<1>1. UNCHANGED <<screen, wp, picture, tick, ppc>> /\ screen # None
  BY DEF DRelease, DisplayAt, kms, Inv, KmsInStep, TypeOK, Slots, None, Releasing
<1> QED BY <1>1 DEF QueueSame, ReadyFrames, NumReady, HeadSlot, NextFrame, NextTick, Shown

LEMMA WrapHidden ==
  ASSUME Inv, PWrap
  PROVE  QueueSame
<1>1. UNCHANGED <<screen, picture, fb_val>> /\ Wrap(wp') = Wrap(wp) /\ NextFrame' = NextFrame
  BY FbNumAssumption DEF PWrap, ProducerAt, kms, Inv, TypeOK, Wrap, NextFrame
<1> QED BY <1>1 DEF QueueSame, ReadyFrames, NumReady, HeadSlot, Shown

(* The steps that touch neither a slot nor a picture nor the screen. *)
LEMMA OthersHidden ==
  ASSUME UNCHANGED <<fb_val, wp, picture, screen>>, NextFrame' = NextFrame
  PROVE  QueueSame
BY DEF QueueSame, ReadyFrames, NumReady, HeadSlot, Shown

(* Between the end of draw_frame() and the screen no frame is lost, repeated, *)
(* reordered or overwritten, for every number of framebuffers.             *)
THEOREM Refinement == Spec => ImplementsQueue
<1> DEFINE q == <<NextFrame, ReadyFrames, Shown>>
<1>1. Init => Queue!Init
  <2> SUFFICES ASSUME Init PROVE Queue!Init
    OBVIOUS
  <2>1. NumReady = 0 /\ NextFrame = 0 /\ screen = None
    BY FbNumAssumption DEF Init, NumReady, HeadSlot, Wrap, NextFrame, Slots
  <2>2. ReadyFrames = <<>>
    BY <2>1 DEF ReadyFrames
  <2> QED BY <2>1, <2>2 DEF Queue!Init, Queue!Nothing
<1>2. Inv /\ Inv' /\ [Next]_vars => [Queue!Next]_q
  <2> SUFFICES ASSUME Inv, Inv', [Next]_vars PROVE Queue!Next \/ QueueSame
    BY DEF QueueSame
  <2> USE DEF ProducerAt, DisplayAt, NextFrame, NextTick, fifo, kms
  <2>1. CASE PMark
    BY <2>1, MarkPublishes DEF Queue!Next
  <2>2. CASE VBlank
    BY <2>2, VBlankShows DEF Queue!Next
  <2>3. CASE PPaintBegin \/ PPaintEnd
    BY <2>3, PaintHidden
  <2>4. CASE PWrap
    BY <2>4, WrapHidden
  <2>5. CASE DRelease
    BY <2>5, ReleaseHidden
  <2>6. CASE PLockW \/ PTestW \/ PWaitW \/ PUnlockW \/ PLockR \/ PUnlockR \/ PSignalR
    <3>1. UNCHANGED <<fb_val, wp, picture, screen>> /\ NextFrame' = NextFrame
      BY <2>6 DEF PLockW, PTestW, PWaitW, PUnlockW, PLockR, PUnlockR, PSignalR
    <3> QED BY <3>1, OthersHidden
  <2>7. CASE Display /\ ~DRelease
    <3>1. UNCHANGED <<fb_val, wp, picture, screen>> /\ NextFrame' = NextFrame
      BY <2>7 DEF Display, DLockR, DTestR, DWaitR, DUnlockR, DPageFlip, DMoveCursor,
             DHandleEvent, DLockW, DUnlockW, DSignalW, DAdvance
    <3> QED BY <3>1, OthersHidden
  <2>8. CASE SpuriousWakeup \/ UNCHANGED vars
    <3>1. UNCHANGED <<fb_val, wp, picture, screen>> /\ NextFrame' = NextFrame
      BY <2>8 DEF SpuriousWakeup, vars
    <3> QED BY <3>1, OthersHidden
  <2> QED BY <2>1, <2>2, <2>3, <2>4, <2>5, <2>6, <2>7, <2>8 DEF Next, Producer
<1> QED BY <1>1, <1>2, Invariance, PTL DEF Spec, ImplementsQueue, Queue!Spec, Queue!qvars, Shown

-----------------------------------------------------------------------------
(* The interrupted server, FbAbort.                                        *)

Restored == screen = None /\ flip = None

(* The handler has a thread from the signal on; once it has restored the    *)
(* console on the display thread, no flip is pending and nobody asks for    *)
(* one.                                                                    *)
AInv ==
  /\ hpc \in {"idle", "set_crtc", "set_cursor", "close", "exit"}
  /\ process \in {"running", "exited", "aborted"}
  /\ hpc = "idle" <=> victim = "none"
  /\ victim = "display" /\ hpc \in {"set_cursor", "close", "exit"} => Restored
  /\ process = "exited" => hpc = "exit"

(* The producer and a spurious wakeup touch neither the screen nor a flip.  *)
LEMMA ProducerKeepsKms == Producer \/ SpuriousWakeup => UNCHANGED <<screen, flip>>
BY DEF Producer, PLockW, PTestW, PWaitW, PUnlockW, PPaintBegin, PPaintEnd, PLockR, PMark,
       PUnlockR, PSignalR, PWrap, SpuriousWakeup, kms

LEMMA AInvStep == AInv /\ [ANext]_avars => AInv'
<1> SUFFICES ASSUME AInv, [ANext]_avars PROVE AInv'
  OBVIOUS
<1> USE DEF AInv, Restored
<1>1. CASE Interrupt
  BY <1>1 DEF Interrupt, vars, kms
<1>2. CASE UserAbort
  <2>1. CASE RestoreCrtc
    BY <2>1 DEF RestoreCrtc, HandlerAt
  <2>2. CASE HideCursor
    BY <2>2 DEF HideCursor, HandlerAt, vars, kms
  <2>3. CASE CloseDrm
    BY <2>3 DEF CloseDrm, HandlerAt, vars, kms
  <2>4. CASE Exit
    BY <2>4 DEF Exit, HandlerAt, vars, kms
  <2> QED BY <1>2, <2>1, <2>2, <2>3, <2>4 DEF UserAbort
<1>3. CASE DrmCallFails
  BY <1>3 DEF DrmCallFails, vars, kms
<1>4. CASE ThreadStep
  <2>1. UNCHANGED <<hpc, victim, process>> /\ process = "running"
    BY <1>4 DEF ThreadStep, handler
  <2>2. victim = "display" /\ Restored => Restored'
    <3> SUFFICES ASSUME victim = "display", Restored PROVE Restored'
      OBVIOUS
    <3>1. Producer \/ VBlank \/ SpuriousWakeup
      BY <1>4 DEF ThreadStep
    <3>2. ~VBlank
      BY DEF VBlank
    <3> QED BY <3>1, <3>2, ProducerKeepsKms
  <2> QED BY <2>1, <2>2
<1>5. CASE UNCHANGED avars
  BY <1>5 DEF avars, handler, vars, kms
<1> QED BY <1>1, <1>2, <1>3, <1>4, <1>5 DEF ANext

(* A server interrupted on its display thread leaves the console on the     *)
(* screen when it exits, with no flip of its own still to come.            *)
THEOREM RestoredIfDisplayInterruptedAlways == ASpec => []RestoredIfDisplayInterrupted
<1>1. AInit => AInv
  BY DEF AInit, AInv
<1>2. AInv => RestoredIfDisplayInterrupted
  BY DEF AInv, Restored, RestoredIfDisplayInterrupted
<1> QED BY <1>1, <1>2, AInvStep, PTL DEF ASpec
=============================================================================
