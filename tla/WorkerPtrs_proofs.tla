-------------------------- MODULE WorkerPtrs_proofs --------------------------
(***************************************************************************)
(* worker_ptrs implements a two-place queue, for every set of tasks.       *)
(***************************************************************************)
EXTENDS WorkerPtrs, TLAPS

(* Every variable of the ring stays within its type.                       *)
LEMMA TypeCorrect == Spec => []TypeOK
<1>1. Init => TypeOK
  <2> SUFFICES ASSUME Init PROVE TypeOK
    OBVIOUS
  <2>1. refused \in BOOLEAN
    BY DEF Init
  <2> QED
    BY <2>1 DEF Init, TypeOK
<1>2. TypeOK /\ [Next]_vars => TypeOK'
  <2> SUFFICES ASSUME TypeOK, [Next]_vars PROVE TypeOK'
    OBVIOUS
  <2> USE DEF TypeOK, masterVars, workerVars
  <2>1. ASSUME NEW t \in Task, SetLoad(t) PROVE TypeOK'
    BY <2>1 DEF SetLoad
  <2>2. CASE SetStore
    BY <2>2 DEF SetStore
  <2>3. CASE SetFlip
    BY <2>3 DEF SetFlip
  <2>4. CASE GetLoad
    BY <2>4 DEF GetLoad
  <2>5. CASE GetClear
    BY <2>5 DEF GetClear
  <2>6. CASE GetFlip
    BY <2>6 DEF GetFlip
  <2>7. CASE UNCHANGED vars
    BY <2>7 DEF vars
  <2> QED
    BY <2>1, <2>2, <2>3, <2>4, <2>5, <2>6, <2>7 DEF Next
<1> QED
  BY <1>1, <1>2, PTL DEF Spec

(* The occupied slots are always the ones between the two indices.         *)
THEOREM RingCorrect == Spec => []RingInv
<1>1. Init => RingInv
  BY DEF Init, RingInv, ReadPos, WritePos
<1>2. TypeOK /\ RingInv /\ [Next]_vars => RingInv'
  <2> SUFFICES ASSUME TypeOK, RingInv, [Next]_vars PROVE RingInv'
    OBVIOUS
  <2> USE NoneIsNoTask DEF TypeOK, RingInv, ReadPos, WritePos, masterVars,
                           workerVars
  <2>1. ASSUME NEW t \in Task, SetLoad(t) PROVE RingInv'
    BY <2>1 DEF SetLoad
  <2>2. CASE SetStore
    BY <2>2 DEF SetStore
  <2>3. CASE SetFlip
    BY <2>3 DEF SetFlip
  <2>4. CASE GetLoad
    BY <2>4 DEF GetLoad
  <2>5. CASE GetClear
    BY <2>5 DEF GetClear
  <2>6. CASE GetFlip
    BY <2>6 DEF GetFlip
  <2>7. CASE UNCHANGED vars
    BY <2>7 DEF vars
  <2> QED
    BY <2>1, <2>2, <2>3, <2>4, <2>5, <2>6, <2>7 DEF Next
<1> QED
  BY <1>1, <1>2, TypeCorrect, PTL DEF Spec

(* Each side reads the state of the whole queue off its own slot.          *)
THEOREM SlotIsEnough == Spec => []SlotTellsQueue
<1>1. TypeOK /\ RingInv => SlotTellsQueue
  BY DEF TypeOK, RingInv, SlotTellsQueue, ReadPos, WritePos, Contents
<1> QED
  BY <1>1, TypeCorrect, RingCorrect, PTL

-----------------------------------------------------------------------------
(* What the steps do to the queue.                                         *)

LEMMA StorePuts ==
  ASSUME TypeOK, RingInv, SetStore
  PROVE  Fifo!Put(arg)
<1> USE NoneIsNoTask DEF SetStore, TypeOK, RingInv, workerVars
<1>1. Contents = <<>> \/ Contents = <<pointers[ReadPos]>>
  BY DEF Contents, ReadPos, WritePos
<1>2. CASE Contents = <<>>
  <2>1. Contents' = <<arg>>
    BY <1>2 DEF Contents, ReadPos, WritePos
  <2> QED
    BY <1>2, <2>1 DEF Fifo!Put
<1>3. CASE Contents = <<pointers[ReadPos]>>
  <2>1. Contents' = <<pointers[ReadPos], arg>>
    BY <1>3 DEF Contents, ReadPos, WritePos
  <2> QED
    BY <1>3, <2>1 DEF Fifo!Put
<1> QED
  BY <1>1, <1>2, <1>3

LEMMA ClearTakes ==
  ASSUME TypeOK, RingInv, GetClear
  PROVE  Fifo!Take
<1>1. \/ Contents = <<p>> /\ Contents' = <<>>
      \/ Contents = <<p, pointers[1 - rslot_]>>
         /\ Contents' = <<pointers[1 - rslot_]>>
  BY NoneIsNoTask DEF GetClear, TypeOK, RingInv, Contents, ReadPos, masterVars
<1>2. wpc' = "flip" /\ p' = p
  BY DEF GetClear
<1>3. CASE Contents = <<p>> /\ Contents' = <<>>
  <2>1. Contents # <<>> /\ Head(Contents) = p /\ Contents' = Tail(Contents)
    BY ONLY <1>3
  <2> QED
    BY <1>2, <2>1 DEF Fifo!Take
<1>4. CASE /\ Contents = <<p, pointers[1 - rslot_]>>
           /\ Contents' = <<pointers[1 - rslot_]>>
  <2>1. Contents # <<>> /\ Head(Contents) = p /\ Contents' = Tail(Contents)
    BY ONLY <1>4
  <2> QED
    BY <1>2, <2>1 DEF Fifo!Take
<1> QED
  BY <1>1, <1>3, <1>4

(* The ring implements the abstract queue: every step of either thread     *)
(* maps to a Put, a Take or a stutter.                                     *)
THEOREM RingIsFifo == Spec => FifoSpec
<1>1. Init => Fifo!Init
  BY DEF Init, Fifo!Init, Contents, ReadPos
<1>2. TypeOK /\ RingInv /\ [Next]_vars => [Fifo!Next]_(Fifo!fifoVars)
  <2> SUFFICES ASSUME TypeOK, RingInv, [Next]_vars
               PROVE  [Fifo!Next]_(Fifo!fifoVars)
    OBVIOUS
  <2> USE DEF Fifo!fifoVars, masterVars, workerVars, Contents, ReadPos
  <2>1. ASSUME NEW t \in Task, SetLoad(t) PROVE UNCHANGED Fifo!fifoVars
    BY <2>1 DEF SetLoad
  <2>2. CASE SetStore
    BY <2>2, StorePuts DEF Fifo!Next, RingInv, SetStore
  <2>3. CASE SetFlip
    BY <2>3 DEF SetFlip
  <2>4. CASE GetLoad
    BY <2>4 DEF GetLoad
  <2>5. CASE GetClear
    BY <2>5, ClearTakes DEF Fifo!Next
  <2>6. CASE GetFlip
    BY <2>6 DEF GetFlip, TypeOK
  <2>7. CASE UNCHANGED vars
    BY <2>7 DEF vars
  <2> QED
    BY <2>1, <2>2, <2>3, <2>4, <2>5, <2>6, <2>7 DEF Next
<1> QED
  BY <1>1, <1>2, TypeCorrect, RingCorrect, PTL DEF Spec, FifoSpec, Fifo!Spec
=============================================================================
