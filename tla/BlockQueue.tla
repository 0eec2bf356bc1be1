----------------------------- MODULE BlockQueue -----------------------------
(***************************************************************************)
(* The blocking queue of the logger (practice/log/blockQueue.h): a ring    *)
(* buffer with one semaphore for its free slots, one for its items and one *)
(* as a mutex.  Each operator is a step of insert() or remove() of some    *)
(* thread; Logger puts them in order.  Items are numbers from 1 on.        *)
(*                                                                         *)
(* A definition Mutant_D_... is the definition D that follows it with one  *)
(* fault put in; it is not part of the model.                              *)
(***************************************************************************)
EXTENDS Integers, Sequences

CONSTANT max_size
ASSUME SizeAssumption == max_size \in Nat \ {0}

VARIABLES buf, front, rear, mutex, slots, items

queue == <<buf, front, rear, mutex, slots, items>>

QueueInit ==
    /\ buf = [i \in 0..max_size - 1 |-> 0]
    /\ front = 0 /\ rear = 0
    /\ mutex = 1 /\ slots = max_size /\ items = 0

Mutant_Insert_Slot_NoTest == slots' = slots - 1 /\ UNCHANGED <<buf, front, rear, mutex, items>>
Insert_Slot == /\ slots > 0 /\ slots' = slots - 1
               /\ UNCHANGED <<buf, front, rear, mutex, items>>

Mutant_AcquireMutex_NoTest == mutex' = 0 /\ UNCHANGED <<buf, front, rear, slots, items>>
AcquireMutex == /\ mutex > 0 /\ mutex' = mutex - 1
                /\ UNCHANGED <<buf, front, rear, slots, items>>

(* r is the value of rear that the thread has loaded. *)
Insert_Put(x, r) == /\ rear' = r + 1
                    /\ buf' = [buf EXCEPT ![rear' % max_size] = x]
                    /\ UNCHANGED <<front, mutex, slots, items>>

ReleaseMutex == mutex' = mutex + 1 /\ UNCHANGED <<buf, front, rear, slots, items>>

Insert_Item == items' = items + 1 /\ UNCHANGED <<buf, front, rear, mutex, slots>>

Remove_Item == /\ items > 0 /\ items' = items - 1
               /\ UNCHANGED <<buf, front, rear, mutex, slots>>

(* f is the value of front that the thread has loaded.  std::move leaves   *)
(* the slot empty.                                                         *)
Item(f) == buf[(f + 1) % max_size]
Remove_Take(f) == /\ front' = f + 1
                  /\ buf' = [buf EXCEPT ![front' % max_size] = 0]
                  /\ UNCHANGED <<rear, mutex, slots, items>>

Remove_Slot == slots' = slots + 1 /\ UNCHANGED <<buf, front, rear, mutex, items>>

(* empty() looks at the free slots: a queue that an insert() or a remove() *)
(* is at work on is not empty.                                             *)
Mutant_Empty_NoItems == items = 0
Empty == slots = max_size

Contents == [i \in 1..rear - front |-> buf[(front + i) % max_size]]
=============================================================================
