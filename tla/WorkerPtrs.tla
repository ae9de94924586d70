----------------------------- MODULE WorkerPtrs -----------------------------
(***************************************************************************)
(* worker_ptrs, the two-slot ring between the master thread (set) and one  *)
(* worker thread (get), at the grain of its atomic loads and stores.  The  *)
(* index wslot_ is private to the master, rslot_ to the worker; nothing    *)
(* else is shared than the two slots.                                      *)
(***************************************************************************)
EXTENDS Naturals, Sequences

CONSTANTS
  Task,  \* what the master passes to set
  None   \* nullptr

ASSUME NoneIsNoTask == None \notin Task

VARIABLES
  pointers,  \* the two slots
  wslot_, rslot_,
  mpc,       \* master: idle, store (slot seen empty), flip (index to toggle)
  arg,       \* master: the argument of set
  refused,   \* master: the last call of set returned false
  wpc,       \* worker: idle, clear (task read), flip (index to toggle)
  p,         \* worker: the pointer get has read
  out        \* worker: the last task get returned

masterVars == <<wslot_, mpc, arg, refused>>
workerVars == <<rslot_, wpc, p, out>>
vars == <<pointers, masterVars, workerVars>>

Init ==
  /\ pointers = [i \in 0..1 |-> None]
  /\ wslot_ = 0 /\ rslot_ = 0
  /\ mpc = "idle" /\ arg = None /\ refused = FALSE
  /\ wpc = "idle" /\ p = None /\ out = None

(* Slip: set without the test of the slot, so a third task overwrites one. *)
SetLoadUnchecked(t) ==
  /\ mpc = "idle"
  /\ refused' = FALSE
  /\ mpc' = "store" /\ arg' = t
  /\ UNCHANGED <<pointers, wslot_, workerVars>>

(* set(t): load of the slot to write; a slot in use ends the call.         *)
SetLoad(t) ==
  /\ mpc = "idle"
  /\ refused' = (pointers[wslot_] # None)
  /\ IF pointers[wslot_] = None
     THEN mpc' = "store" /\ arg' = t
     ELSE UNCHANGED <<mpc, arg>>
  /\ UNCHANGED <<pointers, wslot_, workerVars>>

SetStore ==
  /\ mpc = "store"
  /\ pointers' = [pointers EXCEPT ![wslot_] = arg]
  /\ mpc' = "flip"
  /\ UNCHANGED <<wslot_, arg, refused, workerVars>>

SetFlip ==
  /\ mpc = "flip"
  /\ wslot_' = 1 - wslot_
  /\ mpc' = "idle" /\ arg' = None
  /\ UNCHANGED <<pointers, refused, workerVars>>

(* get(): load of the slot to read; nullptr is returned as it is.          *)
GetLoad ==
  /\ wpc = "idle"
  /\ pointers[rslot_] # None
  /\ p' = pointers[rslot_]
  /\ wpc' = "clear"
  /\ UNCHANGED <<pointers, rslot_, out, masterVars>>

GetClear ==
  /\ wpc = "clear"
  /\ pointers' = [pointers EXCEPT ![rslot_] = None]
  /\ wpc' = "flip"
  /\ UNCHANGED <<rslot_, p, out, masterVars>>

(* Slip: get empties its slot but keeps reading the same one.              *)
GetFlipStays ==
  /\ wpc = "flip"
  /\ out' = p /\ p' = None
  /\ wpc' = "idle"
  /\ UNCHANGED <<pointers, rslot_, masterVars>>

GetFlip ==
  /\ wpc = "flip"
  /\ rslot_' = 1 - rslot_
  /\ out' = p /\ p' = None
  /\ wpc' = "idle"
  /\ UNCHANGED <<pointers, masterVars>>

Next ==
  \/ \E t \in Task : SetLoad(t)
  \/ SetStore \/ SetFlip
  \/ GetLoad \/ GetClear \/ GetFlip

Spec == Init /\ [][Next]_vars

-----------------------------------------------------------------------------
(* The slot that holds the oldest task, and the contents in order.         *)
ReadPos == IF wpc = "flip" THEN 1 - rslot_ ELSE rslot_

Contents ==
  IF pointers[ReadPos] = None THEN <<>>
  ELSE IF pointers[1 - ReadPos] = None THEN <<pointers[ReadPos]>>
  ELSE <<pointers[ReadPos], pointers[1 - ReadPos]>>

Fifo == INSTANCE BoundedFifo
          WITH Size <- 2, queue <- Contents,
               out <- IF wpc = "flip" THEN p ELSE out

TypeOK ==
  /\ pointers \in [0..1 -> Task \cup {None}]
  /\ wslot_ \in 0..1 /\ rslot_ \in 0..1
  /\ mpc \in {"idle", "store", "flip"} /\ wpc \in {"idle", "clear", "flip"}
  /\ arg \in Task \cup {None} /\ p \in Task \cup {None}
  /\ out \in Task \cup {None}
  /\ refused \in BOOLEAN

(* The slot set writes next, once the step in progress is accounted for.   *)
WritePos == IF mpc = "flip" THEN 1 - wslot_ ELSE wslot_

(* The occupied slots are the ones between the read and the write index:   *)
(* none or both when these coincide, the one to read when they differ.     *)
(* A store of set always goes to an empty slot, and what get is about to   *)
(* clear is still what it read.                                            *)
RingInv ==
  /\ IF ReadPos = WritePos
     THEN pointers[0] = None <=> pointers[1] = None
     ELSE pointers[ReadPos] # None /\ pointers[WritePos] = None
  /\ mpc = "store" => pointers[wslot_] = None /\ arg \in Task
  /\ wpc = "clear" => p = pointers[rslot_] /\ p \in Task
  /\ wpc = "flip" => p \in Task

(* worker_ptrs implements the queue: tasks leave in the order they came    *)
(* in, none is lost, duplicated or overwritten.                            *)
FifoSpec == Fifo!Spec

(* What either side sees of its own slot is the state of the whole queue:  *)
(* set finds its slot in use exactly when the queue is full, get finds its *)
(* slot empty exactly when there is nothing to take.                       *)
SlotTellsQueue ==
  /\ mpc = "idle" => (pointers[wslot_] # None <=> Len(Contents) = 2)
  /\ wpc = "idle" => (pointers[rslot_] = None <=> Contents = <<>>)
=============================================================================
