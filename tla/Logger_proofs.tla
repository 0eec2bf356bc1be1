---------------------------- MODULE Logger_proofs ----------------------------
(***************************************************************************)
(* Proofs about Logger and BlockQueue for any number of callers, workers,  *)
(* slots and lines.                                                        *)
(***************************************************************************)
EXTENDS Logger, FiniteSetTheorems, SequenceTheorems, TLAPS

(***************************************************************************)
(* The inductive invariant.                                                *)
(***************************************************************************)

(* The steps of insert() and remove() inside the mutex.                    *)
Critical == {"rear", "put", "insert_unlock", "front", "take", "remove_unlock"}

(* The steps at which a thread has a line in its hands, and the others.    *)
WithLine == {"slot", "insert_mutex", "rear", "put", "remove_unlock", "remove_slot", "lock", "write"}
NoLine == {"idle", "insert_unlock", "item", "loop", "empty", "ended", "remove_item",
           "remove_mutex", "front", "take", "unlock"}

TypeInv ==
    /\ buf \in [0..max_size - 1 -> 0..MaxLines]
    /\ front \in Nat /\ rear \in Nat /\ mutex \in {0, 1} /\ slots \in Nat /\ items \in Nat
    /\ pc \in [Threads -> WithLine \cup NoLine]
    /\ info \in [Threads -> 0..MaxLines]
    /\ index \in [Threads -> Nat]
    /\ called \in 0..MaxLines
    /\ ofs \in Seq(1..MaxLines)

(* One thread at a time is in the mutex, so what it loaded is still right. *)
MutexInv ==
    /\ \A t \in Threads : pc[t] \in Critical => mutex = 0
    /\ \A t, u \in Threads : pc[t] \in Critical /\ pc[u] \in Critical => t = u
    /\ \A t \in Threads : pc[t] = "put" => index[t] = rear
    /\ \A t \in Threads : pc[t] = "take" => index[t] = front

(* Every slot is free, filled, about to be filled or about to be freed;    *)
(* every line in the buffer is posted, about to be posted or about to be   *)
(* taken.                                                                  *)
At(places) == {t \in Threads : pc[t] \in places}
HasSlot == At({"insert_mutex", "rear", "put"})
HasPut == At({"insert_unlock", "item"})
HasItem == At({"remove_mutex", "front", "take"})
HasTaken == At({"remove_unlock", "remove_slot"})

CountInv ==
    /\ slots + Cardinality(HasSlot) + Cardinality(HasTaken) + (rear - front) = max_size
    /\ items + Cardinality(HasPut) + Cardinality(HasItem) = rear - front

(* Who has a line in hand, by where it is; those in the buffer are lines.  *)
LineInv ==
    /\ \A t \in Threads : info[t] # 0 <=> pc[t] \in WithLine
    /\ \A i \in 1..rear - front : buf[(front + i) % max_size] # 0

IInv == TypeInv /\ MutexInv /\ CountInv /\ LineInv

(***************************************************************************)
(* The ring.                                                               *)
(***************************************************************************)

(* Dividing by the size of the ring leaves an index of the ring.           *)
LEMMA Division ==
  ASSUME NEW n \in Nat \ {0}, NEW a \in Nat
  PROVE  a % n \in 0..n - 1 /\ a \div n \in Int /\ a = n * (a \div n) + (a % n)
OBVIOUS

(* No number between multiples of n is one. *)
LEMMA NoMultiple ==
  ASSUME NEW n \in Nat \ {0}, NEW k \in Int, NEW d \in 1..n - 1
  PROVE  d # n * k
<1>1. CASE k >= 1
  BY <1>1
<1>2. CASE k <= 0
  BY <1>2
<1> QED
  BY <1>1, <1>2

(* Places less than the size of the ring apart are different slots.        *)
LEMMA DifferentSlots ==
  ASSUME NEW n \in Nat \ {0}, NEW a \in Nat, NEW b \in Nat, a < b, b - a < n
  PROVE  a % n # b % n
<1> DEFINE p == a \div n
           q == b \div n
<1>1. a % n \in Int /\ p \in Int /\ a = n * p + (a % n)
  BY Division
<1>2. b % n \in Int /\ q \in Int /\ b = n * q + (b % n)
  BY Division
<1> SUFFICES ASSUME a % n = b % n PROVE FALSE
  OBVIOUS
<1>3. b - a = n * q - n * p
  BY <1>1, <1>2
<1>4. n * q - n * p = n * (q - p)
  BY <1>1, <1>2
<1>5. b - a \in 1..n - 1 /\ q - p \in Int
  BY <1>1, <1>2
<1> HIDE DEF p, q
<1> QED
  BY <1>3, <1>4, <1>5, NoMultiple

(* An index modulo the size is a slot of the buffer. *)
LEMMA Slot ==
  ASSUME NEW a \in Nat
  PROVE  a % max_size \in 0..max_size - 1
BY SizeAssumption, Division

(***************************************************************************)
(* Threads at certain places.                                              *)
(***************************************************************************)
LEMMA AtFinite ==
  ASSUME NEW P
  PROVE  IsFiniteSet(At(P)) /\ Cardinality(At(P)) \in Nat
<1>1. At(P) \in SUBSET Threads
  BY DEF At
<1> QED
  BY <1>1, ThreadAssumption, FS_Subset, FS_CardinalityType DEF Threads

(* A thread that moves changes the number at P by what it leaves or enters.*)
LEMMA Moved ==
  ASSUME TypeInv, NEW t \in Threads, NEW from, NEW to, GoTo(t, from, to), NEW P
  PROVE  Cardinality(At(P)') =
           Cardinality(At(P)) + (IF to \in P THEN 1 ELSE 0) - (IF from \in P THEN 1 ELSE 0)
<1>1. pc \in [Threads -> WithLine \cup NoLine] /\ pc[t] = from /\ pc' = [pc EXCEPT ![t] = to]
  BY DEF TypeInv, GoTo
<1>2. IsFiniteSet(At(P)) /\ Cardinality(At(P)) \in Nat
  BY AtFinite
<1>3. CASE from \in P /\ to \notin P
  <2>1. At(P)' = At(P) \ {t} /\ t \in At(P)
    BY <1>1, <1>3 DEF At
  <2> QED
    BY <1>2, <1>3, <2>1, FS_RemoveElement
<1>4. CASE from \notin P /\ to \in P
  <2>1. At(P)' = At(P) \cup {t} /\ t \notin At(P)
    BY <1>1, <1>4 DEF At
  <2> QED
    BY <1>2, <1>4, <2>1, FS_AddElement
<1>5. CASE from \in P <=> to \in P
  <2>1. At(P)' = At(P)
    BY <1>1, <1>5 DEF At
  <2> QED
    BY <1>2, <1>5, <2>1
<1> QED
  BY <1>3, <1>4, <1>5

(* ... in each of the sets of threads that CountInv counts.                *)
LEMMA Counts ==
  ASSUME TypeInv, NEW t \in Threads, NEW from, NEW to, GoTo(t, from, to)
  PROVE  /\ Cardinality(HasSlot') = Cardinality(HasSlot)
              + (IF to \in {"insert_mutex", "rear", "put"} THEN 1 ELSE 0)
              - (IF from \in {"insert_mutex", "rear", "put"} THEN 1 ELSE 0)
         /\ Cardinality(HasPut') = Cardinality(HasPut)
              + (IF to \in {"insert_unlock", "item"} THEN 1 ELSE 0)
              - (IF from \in {"insert_unlock", "item"} THEN 1 ELSE 0)
         /\ Cardinality(HasItem') = Cardinality(HasItem)
              + (IF to \in {"remove_mutex", "front", "take"} THEN 1 ELSE 0)
              - (IF from \in {"remove_mutex", "front", "take"} THEN 1 ELSE 0)
         /\ Cardinality(HasTaken') = Cardinality(HasTaken)
              + (IF to \in {"remove_unlock", "remove_slot"} THEN 1 ELSE 0)
              - (IF from \in {"remove_unlock", "remove_slot"} THEN 1 ELSE 0)
BY Moved DEF HasSlot, HasPut, HasItem, HasTaken

(* The counts are numbers. *)
LEMMA CountsType ==
  /\ Cardinality(HasSlot) \in Nat /\ Cardinality(HasPut) \in Nat
  /\ Cardinality(HasItem) \in Nat /\ Cardinality(HasTaken) \in Nat
BY AtFinite DEF HasSlot, HasPut, HasItem, HasTaken

(* A thread that is there is counted. *)
LEMMA Counted ==
  ASSUME NEW P, NEW t \in Threads, pc[t] \in P
  PROVE  Cardinality(At(P)) >= 1
<1>1. IsFiniteSet(At(P)) /\ Cardinality(At(P)) \in Nat /\ At(P) # {}
  BY AtFinite DEF At
<1> QED
  BY <1>1, FS_EmptySet

(* The buffer is never more than full, a thread that puts finds a free     *)
(* slot, and one that takes finds a line.                                  *)
LEMMA Room ==
  ASSUME IInv
  PROVE  /\ rear - front \in 0..max_size
         /\ \A t \in Threads : pc[t] = "put" => rear - front < max_size
         /\ \A t \in Threads : pc[t] = "take" => rear - front > 0
<1>1. /\ slots \in Nat /\ items \in Nat /\ rear \in Nat /\ front \in Nat /\ max_size \in Nat
      /\ slots + Cardinality(HasSlot) + Cardinality(HasTaken) + (rear - front) = max_size
      /\ items + Cardinality(HasPut) + Cardinality(HasItem) = rear - front
  BY SizeAssumption DEF IInv, TypeInv, CountInv
<1>2. ASSUME NEW t \in Threads, pc[t] = "put" PROVE Cardinality(HasSlot) >= 1
  BY <1>2, Counted DEF HasSlot
<1>3. ASSUME NEW t \in Threads, pc[t] = "take" PROVE Cardinality(HasItem) >= 1
  BY <1>3, Counted DEF HasItem
<1> QED
  BY <1>1, <1>2, <1>3, CountsType

(***************************************************************************)
(* Every step keeps the invariant.                                         *)
(***************************************************************************)
(* Every variable keeps its type. *)
LEMMA TypeStep ==
  ASSUME IInv, [Next]_vars
  PROVE  TypeInv'
<1> USE ThreadAssumption, SizeAssumption DEF IInv, TypeInv, WithLine, NoLine, queue, logvars
<1>1. ASSUME NEW t \in Threads, AddItem(t) PROVE TypeInv'
  <2>1. called' \in 0..MaxLines
    BY <1>1, LinesAssumption DEF AddItem
  <2> QED
    BY <1>1, <2>1 DEF AddItem, GoTo
<1>2. ASSUME NEW t \in Threads, Push_Slot(t) PROVE TypeInv'
  BY <1>2 DEF Push_Slot, Insert_Slot, GoTo
<1>3. ASSUME NEW t \in Threads, QueueStep(t, "insert_mutex", "rear", AcquireMutex) PROVE TypeInv'
  BY <1>3 DEF QueueStep, AcquireMutex, GoTo
<1>4. ASSUME NEW t \in Threads, Load(t, "rear", "put", rear) PROVE TypeInv'
  BY <1>4 DEF Load, GoTo
<1>5. ASSUME NEW t \in Threads, Push_Put(t) PROVE TypeInv'
  <2>1. index[t] + 1 \in Nat /\ info[t] \in 0..MaxLines
    OBVIOUS
  <2> QED
    BY <1>5, <2>1, LinesAssumption DEF Push_Put, Insert_Put, GoTo
<1>6. ASSUME NEW t \in Threads, QueueStep(t, "insert_unlock", "item", ReleaseMutex) PROVE TypeInv'
  <2>1. mutex = 0
    BY <1>6 DEF MutexInv, Critical, QueueStep, GoTo
  <2> QED
    BY <1>6, <2>1 DEF QueueStep, ReleaseMutex, GoTo
<1>7. ASSUME NEW t \in Threads, QueueStep(t, "item", "idle", Insert_Item) PROVE TypeInv'
  BY <1>7 DEF QueueStep, Insert_Item, GoTo
<1>8. ASSUME NEW t \in Threads, Worker_Loop(t) PROVE TypeInv'
  BY <1>8 DEF Worker_Loop, GoTo
<1>9. ASSUME NEW t \in Threads, Worker_Empty(t) PROVE TypeInv'
  BY <1>9 DEF Worker_Empty, GoTo
<1>10. ASSUME NEW t \in Threads, QueueStep(t, "remove_item", "remove_mutex", Remove_Item) PROVE TypeInv'
  BY <1>10 DEF QueueStep, Remove_Item, GoTo
<1>11. ASSUME NEW t \in Threads, QueueStep(t, "remove_mutex", "front", AcquireMutex) PROVE TypeInv'
  BY <1>11 DEF QueueStep, AcquireMutex, GoTo
<1>12. ASSUME NEW t \in Threads, Load(t, "front", "take", front) PROVE TypeInv'
  BY <1>12 DEF Load, GoTo
<1>13. ASSUME NEW t \in Threads, WriteLog_Take(t) PROVE TypeInv'
  <2>0. index[t] + 1 \in Nat
    OBVIOUS
  <2>1. (index[t] + 1) % max_size \in 0..max_size - 1
    BY <2>0, Slot
  <2>2. Item(index[t]) \in 0..MaxLines /\ 0 \in 0..MaxLines
    BY <2>1, LinesAssumption DEF Item
  <2> QED
    BY <1>13, <2>0, <2>1, <2>2 DEF WriteLog_Take, Remove_Take, GoTo
<1>14. ASSUME NEW t \in Threads, QueueStep(t, "remove_unlock", "remove_slot", ReleaseMutex) PROVE TypeInv'
  <2>1. mutex = 0
    BY <1>14 DEF MutexInv, Critical, QueueStep, GoTo
  <2> QED
    BY <1>14, <2>1 DEF QueueStep, ReleaseMutex, GoTo
<1>15. ASSUME NEW t \in Threads, QueueStep(t, "remove_slot", "lock", Remove_Slot) PROVE TypeInv'
  BY <1>15 DEF QueueStep, Remove_Slot, GoTo
<1>16. ASSUME NEW t \in Threads, File_Lock(t) PROVE TypeInv'
  BY <1>16 DEF File_Lock, GoTo
<1>17. ASSUME NEW t \in Threads, File_Write(t) PROVE TypeInv'
  <2>1. info[t] \in 1..MaxLines
    BY <1>17 DEF LineInv, File_Write, GoTo
  <2> QED
    BY <1>17, <2>1, LinesAssumption DEF File_Write, GoTo
<1>18. ASSUME NEW t \in Threads, File_Unlock(t) PROVE TypeInv'
  BY <1>18 DEF File_Unlock, GoTo
<1>19. CASE Stop \/ UNCHANGED vars
  BY <1>19 DEF Stop, vars
<1> QED
  BY <1>1, <1>2, <1>3, <1>4, <1>5, <1>6, <1>7, <1>8, <1>9, <1>10, <1>11, <1>12, <1>13, <1>14, <1>15, <1>16, <1>17, <1>18, <1>19 DEF Next, Goes, Push, WriteLog_Remove

(* One thread at a time is in the mutex. *)
LEMMA MutexStep ==
  ASSUME IInv, [Next]_vars
  PROVE  MutexInv'
<1> USE DEF IInv, TypeInv, MutexInv, Critical, WithLine, NoLine, queue, logvars
<1>1. ASSUME NEW t \in Threads, AddItem(t) PROVE MutexInv'
  BY <1>1 DEF AddItem, GoTo
<1>2. ASSUME NEW t \in Threads, Push_Slot(t) PROVE MutexInv'
  BY <1>2 DEF Push_Slot, Insert_Slot, GoTo
<1>3. ASSUME NEW t \in Threads, QueueStep(t, "insert_mutex", "rear", AcquireMutex) PROVE MutexInv'
  BY <1>3 DEF QueueStep, AcquireMutex, GoTo
<1>4. ASSUME NEW t \in Threads, Load(t, "rear", "put", rear) PROVE MutexInv'
  BY <1>4 DEF Load, GoTo
<1>5. ASSUME NEW t \in Threads, Push_Put(t) PROVE MutexInv'
  BY <1>5 DEF Push_Put, Insert_Put, GoTo
<1>6. ASSUME NEW t \in Threads, QueueStep(t, "insert_unlock", "item", ReleaseMutex) PROVE MutexInv'
  BY <1>6 DEF QueueStep, ReleaseMutex, GoTo
<1>7. ASSUME NEW t \in Threads, QueueStep(t, "item", "idle", Insert_Item) PROVE MutexInv'
  BY <1>7 DEF QueueStep, Insert_Item, GoTo
<1>8. ASSUME NEW t \in Threads, Worker_Loop(t) PROVE MutexInv'
  BY <1>8 DEF Worker_Loop, GoTo
<1>9. ASSUME NEW t \in Threads, Worker_Empty(t) PROVE MutexInv'
  BY <1>9 DEF Worker_Empty, GoTo
<1>10. ASSUME NEW t \in Threads, QueueStep(t, "remove_item", "remove_mutex", Remove_Item) PROVE MutexInv'
  BY <1>10 DEF QueueStep, Remove_Item, GoTo
<1>11. ASSUME NEW t \in Threads, QueueStep(t, "remove_mutex", "front", AcquireMutex) PROVE MutexInv'
  BY <1>11 DEF QueueStep, AcquireMutex, GoTo
<1>12. ASSUME NEW t \in Threads, Load(t, "front", "take", front) PROVE MutexInv'
  BY <1>12 DEF Load, GoTo
<1>13. ASSUME NEW t \in Threads, WriteLog_Take(t) PROVE MutexInv'
  BY <1>13 DEF WriteLog_Take, Remove_Take, GoTo
<1>14. ASSUME NEW t \in Threads, QueueStep(t, "remove_unlock", "remove_slot", ReleaseMutex) PROVE MutexInv'
  BY <1>14 DEF QueueStep, ReleaseMutex, GoTo
<1>15. ASSUME NEW t \in Threads, QueueStep(t, "remove_slot", "lock", Remove_Slot) PROVE MutexInv'
  BY <1>15 DEF QueueStep, Remove_Slot, GoTo
<1>16. ASSUME NEW t \in Threads, File_Lock(t) PROVE MutexInv'
  BY <1>16 DEF File_Lock, GoTo
<1>17. ASSUME NEW t \in Threads, File_Write(t) PROVE MutexInv'
  BY <1>17 DEF File_Write, GoTo
<1>18. ASSUME NEW t \in Threads, File_Unlock(t) PROVE MutexInv'
  BY <1>18 DEF File_Unlock, GoTo
<1>19. CASE Stop \/ UNCHANGED vars
  BY <1>19 DEF Stop, vars
<1> QED
  BY <1>1, <1>2, <1>3, <1>4, <1>5, <1>6, <1>7, <1>8, <1>9, <1>10, <1>11, <1>12, <1>13, <1>14, <1>15, <1>16, <1>17, <1>18, <1>19 DEF Next, Goes, Push, WriteLog_Remove

(* The numbers that CountInv adds up. *)
LEMMA Tally ==
  IInv => /\ slots \in Nat /\ items \in Nat /\ rear \in Nat /\ front \in Nat /\ max_size \in Nat
          /\ Cardinality(HasSlot) \in Nat /\ Cardinality(HasPut) \in Nat
          /\ Cardinality(HasItem) \in Nat /\ Cardinality(HasTaken) \in Nat
          /\ slots + Cardinality(HasSlot) + Cardinality(HasTaken) + (rear - front) = max_size
          /\ items + Cardinality(HasPut) + Cardinality(HasItem) = rear - front
BY CountsType, SizeAssumption DEF IInv, TypeInv, CountInv

(* Steps between the other places leave them alone.                        *)
Elsewhere == {"idle", "slot", "loop", "empty", "ended", "remove_item", "lock", "write", "unlock"}

(* A step between those places that leaves the semaphores and indices      *)
(* alone keeps the counts.                                                 *)
LEMMA Quiet ==
  ASSUME IInv, NEW t \in Threads, NEW from \in Elsewhere, NEW to \in Elsewhere,
         GoTo(t, from, to), UNCHANGED <<slots, items, rear, front>>
  PROVE  CountInv'
<1>1. /\ Cardinality(HasSlot') = Cardinality(HasSlot)
      /\ Cardinality(HasPut') = Cardinality(HasPut)
      /\ Cardinality(HasItem') = Cardinality(HasItem)
      /\ Cardinality(HasTaken') = Cardinality(HasTaken)
  BY Counts, CountsType DEF IInv, Elsewhere
<1> QED
  BY <1>1 DEF IInv, CountInv

(* Slots and lines are accounted for. *)
LEMMA CountStep ==
  ASSUME IInv, [Next]_vars
  PROVE  CountInv'
<1>1. ASSUME NEW t \in Threads, AddItem(t) PROVE CountInv'
  <2>1. CASE stop_logger
    <3>1. UNCHANGED <<pc, slots, items, rear, front>>
      BY <1>1, <2>1 DEF AddItem, queue
    <3> QED
      BY <3>1 DEF IInv, CountInv, HasSlot, HasPut, HasItem, HasTaken, At
  <2>2. CASE ~stop_logger
    <3>1. \E from, to \in Elsewhere : GoTo(t, from, to)
      BY <1>1, <2>2 DEF AddItem, Elsewhere, GoTo
    <3>2. UNCHANGED <<slots, items, rear, front>>
      BY <1>1 DEF AddItem, queue
    <3> QED
      BY <3>1, <3>2, Quiet
  <2> QED
    BY <2>1, <2>2
<1>2. ASSUME NEW t \in Threads, Push_Slot(t) PROVE CountInv'
  <2>1. /\ GoTo(t, "slot", "insert_mutex")
        /\ slots' = slots - 1 /\ items' = items /\ rear' = rear /\ front' = front
    BY <1>2 DEF Push_Slot, Insert_Slot, GoTo, queue
  <2>2. /\ Cardinality(HasSlot') = Cardinality(HasSlot) + 1
        /\ Cardinality(HasPut') = Cardinality(HasPut)
        /\ Cardinality(HasItem') = Cardinality(HasItem)
        /\ Cardinality(HasTaken') = Cardinality(HasTaken)
    BY <2>1, Counts, CountsType DEF IInv
  <2> QED
    BY <2>1, <2>2, Tally DEF CountInv
<1>3. ASSUME NEW t \in Threads, QueueStep(t, "insert_mutex", "rear", AcquireMutex) PROVE CountInv'
  <2>1. /\ GoTo(t, "insert_mutex", "rear")
        /\ slots' = slots /\ items' = items /\ rear' = rear /\ front' = front
    BY <1>3 DEF QueueStep, AcquireMutex, GoTo, queue
  <2>2. /\ Cardinality(HasSlot') = Cardinality(HasSlot)
        /\ Cardinality(HasPut') = Cardinality(HasPut)
        /\ Cardinality(HasItem') = Cardinality(HasItem)
        /\ Cardinality(HasTaken') = Cardinality(HasTaken)
    BY <2>1, Counts, CountsType DEF IInv
  <2> QED
    BY <2>1, <2>2, Tally DEF CountInv
<1>4. ASSUME NEW t \in Threads, Load(t, "rear", "put", rear) PROVE CountInv'
  <2>1. /\ GoTo(t, "rear", "put")
        /\ slots' = slots /\ items' = items /\ rear' = rear /\ front' = front
    BY <1>4 DEF Load, GoTo, queue
  <2>2. /\ Cardinality(HasSlot') = Cardinality(HasSlot)
        /\ Cardinality(HasPut') = Cardinality(HasPut)
        /\ Cardinality(HasItem') = Cardinality(HasItem)
        /\ Cardinality(HasTaken') = Cardinality(HasTaken)
    BY <2>1, Counts, CountsType DEF IInv
  <2> QED
    BY <2>1, <2>2, Tally DEF CountInv
<1>5. ASSUME NEW t \in Threads, Push_Put(t) PROVE CountInv'
  <2>1. /\ GoTo(t, "put", "insert_unlock")
        /\ slots' = slots /\ items' = items /\ rear' = rear + 1 /\ front' = front
    BY <1>5 DEF IInv, MutexInv, Push_Put, Insert_Put, GoTo, queue
  <2>2. /\ Cardinality(HasSlot') = Cardinality(HasSlot) - 1
        /\ Cardinality(HasPut') = Cardinality(HasPut) + 1
        /\ Cardinality(HasItem') = Cardinality(HasItem)
        /\ Cardinality(HasTaken') = Cardinality(HasTaken)
    BY <2>1, Counts, CountsType DEF IInv
  <2> QED
    BY <2>1, <2>2, Tally DEF CountInv
<1>6. ASSUME NEW t \in Threads, QueueStep(t, "insert_unlock", "item", ReleaseMutex) PROVE CountInv'
  <2>1. /\ GoTo(t, "insert_unlock", "item")
        /\ slots' = slots /\ items' = items /\ rear' = rear /\ front' = front
    BY <1>6 DEF QueueStep, ReleaseMutex, GoTo, queue
  <2>2. /\ Cardinality(HasSlot') = Cardinality(HasSlot)
        /\ Cardinality(HasPut') = Cardinality(HasPut)
        /\ Cardinality(HasItem') = Cardinality(HasItem)
        /\ Cardinality(HasTaken') = Cardinality(HasTaken)
    BY <2>1, Counts, CountsType DEF IInv
  <2> QED
    BY <2>1, <2>2, Tally DEF CountInv
<1>7. ASSUME NEW t \in Threads, QueueStep(t, "item", "idle", Insert_Item) PROVE CountInv'
  <2>1. /\ GoTo(t, "item", "idle")
        /\ slots' = slots /\ items' = items + 1 /\ rear' = rear /\ front' = front
    BY <1>7 DEF QueueStep, Insert_Item, GoTo, queue
  <2>2. /\ Cardinality(HasSlot') = Cardinality(HasSlot)
        /\ Cardinality(HasPut') = Cardinality(HasPut) - 1
        /\ Cardinality(HasItem') = Cardinality(HasItem)
        /\ Cardinality(HasTaken') = Cardinality(HasTaken)
    BY <2>1, Counts, CountsType DEF IInv
  <2> QED
    BY <2>1, <2>2, Tally DEF CountInv
<1>8. ASSUME NEW t \in Threads, Worker_Loop(t) PROVE CountInv'
  <2>1. \E from, to \in Elsewhere : GoTo(t, from, to)
    BY <1>8 DEF Worker_Loop, Elsewhere, GoTo
  <2>2. UNCHANGED <<slots, items, rear, front>>
    BY <1>8 DEF Worker_Loop, queue
  <2> QED
    BY <2>1, <2>2, Quiet
<1>9. ASSUME NEW t \in Threads, Worker_Empty(t) PROVE CountInv'
  <2>1. \E from, to \in Elsewhere : GoTo(t, from, to)
    BY <1>9 DEF Worker_Empty, Elsewhere, GoTo
  <2>2. UNCHANGED <<slots, items, rear, front>>
    BY <1>9 DEF Worker_Empty, queue
  <2> QED
    BY <2>1, <2>2, Quiet
<1>10. ASSUME NEW t \in Threads, QueueStep(t, "remove_item", "remove_mutex", Remove_Item) PROVE CountInv'
  <2>1. /\ GoTo(t, "remove_item", "remove_mutex")
        /\ slots' = slots /\ items' = items - 1 /\ rear' = rear /\ front' = front
    BY <1>10 DEF QueueStep, Remove_Item, GoTo, queue
  <2>2. /\ Cardinality(HasSlot') = Cardinality(HasSlot)
        /\ Cardinality(HasPut') = Cardinality(HasPut)
        /\ Cardinality(HasItem') = Cardinality(HasItem) + 1
        /\ Cardinality(HasTaken') = Cardinality(HasTaken)
    BY <2>1, Counts, CountsType DEF IInv
  <2> QED
    BY <2>1, <2>2, Tally DEF CountInv
<1>11. ASSUME NEW t \in Threads, QueueStep(t, "remove_mutex", "front", AcquireMutex) PROVE CountInv'
  <2>1. /\ GoTo(t, "remove_mutex", "front")
        /\ slots' = slots /\ items' = items /\ rear' = rear /\ front' = front
    BY <1>11 DEF QueueStep, AcquireMutex, GoTo, queue
  <2>2. /\ Cardinality(HasSlot') = Cardinality(HasSlot)
        /\ Cardinality(HasPut') = Cardinality(HasPut)
        /\ Cardinality(HasItem') = Cardinality(HasItem)
        /\ Cardinality(HasTaken') = Cardinality(HasTaken)
    BY <2>1, Counts, CountsType DEF IInv
  <2> QED
    BY <2>1, <2>2, Tally DEF CountInv
<1>12. ASSUME NEW t \in Threads, Load(t, "front", "take", front) PROVE CountInv'
  <2>1. /\ GoTo(t, "front", "take")
        /\ slots' = slots /\ items' = items /\ rear' = rear /\ front' = front
    BY <1>12 DEF Load, GoTo, queue
  <2>2. /\ Cardinality(HasSlot') = Cardinality(HasSlot)
        /\ Cardinality(HasPut') = Cardinality(HasPut)
        /\ Cardinality(HasItem') = Cardinality(HasItem)
        /\ Cardinality(HasTaken') = Cardinality(HasTaken)
    BY <2>1, Counts, CountsType DEF IInv
  <2> QED
    BY <2>1, <2>2, Tally DEF CountInv
<1>13. ASSUME NEW t \in Threads, WriteLog_Take(t) PROVE CountInv'
  <2>1. /\ GoTo(t, "take", "remove_unlock")
        /\ slots' = slots /\ items' = items /\ rear' = rear /\ front' = front + 1
    BY <1>13 DEF IInv, MutexInv, WriteLog_Take, Remove_Take, GoTo, queue
  <2>2. /\ Cardinality(HasSlot') = Cardinality(HasSlot)
        /\ Cardinality(HasPut') = Cardinality(HasPut)
        /\ Cardinality(HasItem') = Cardinality(HasItem) - 1
        /\ Cardinality(HasTaken') = Cardinality(HasTaken) + 1
    BY <2>1, Counts, CountsType DEF IInv
  <2> QED
    BY <2>1, <2>2, Tally DEF CountInv
<1>14. ASSUME NEW t \in Threads, QueueStep(t, "remove_unlock", "remove_slot", ReleaseMutex) PROVE CountInv'
  <2>1. /\ GoTo(t, "remove_unlock", "remove_slot")
        /\ slots' = slots /\ items' = items /\ rear' = rear /\ front' = front
    BY <1>14 DEF QueueStep, ReleaseMutex, GoTo, queue
  <2>2. /\ Cardinality(HasSlot') = Cardinality(HasSlot)
        /\ Cardinality(HasPut') = Cardinality(HasPut)
        /\ Cardinality(HasItem') = Cardinality(HasItem)
        /\ Cardinality(HasTaken') = Cardinality(HasTaken)
    BY <2>1, Counts, CountsType DEF IInv
  <2> QED
    BY <2>1, <2>2, Tally DEF CountInv
<1>15. ASSUME NEW t \in Threads, QueueStep(t, "remove_slot", "lock", Remove_Slot) PROVE CountInv'
  <2>1. /\ GoTo(t, "remove_slot", "lock")
        /\ slots' = slots + 1 /\ items' = items /\ rear' = rear /\ front' = front
    BY <1>15 DEF QueueStep, Remove_Slot, GoTo, queue
  <2>2. /\ Cardinality(HasSlot') = Cardinality(HasSlot)
        /\ Cardinality(HasPut') = Cardinality(HasPut)
        /\ Cardinality(HasItem') = Cardinality(HasItem)
        /\ Cardinality(HasTaken') = Cardinality(HasTaken) - 1
    BY <2>1, Counts, CountsType DEF IInv
  <2> QED
    BY <2>1, <2>2, Tally DEF CountInv
<1>16. ASSUME NEW t \in Threads, File_Lock(t) PROVE CountInv'
  <2>1. \E from, to \in Elsewhere : GoTo(t, from, to)
    BY <1>16 DEF File_Lock, Elsewhere, GoTo
  <2>2. UNCHANGED <<slots, items, rear, front>>
    BY <1>16 DEF File_Lock, queue
  <2> QED
    BY <2>1, <2>2, Quiet
<1>17. ASSUME NEW t \in Threads, File_Write(t) PROVE CountInv'
  <2>1. \E from, to \in Elsewhere : GoTo(t, from, to)
    BY <1>17 DEF File_Write, Elsewhere, GoTo
  <2>2. UNCHANGED <<slots, items, rear, front>>
    BY <1>17 DEF File_Write, queue
  <2> QED
    BY <2>1, <2>2, Quiet
<1>18. ASSUME NEW t \in Threads, File_Unlock(t) PROVE CountInv'
  <2>1. \E from, to \in Elsewhere : GoTo(t, from, to)
    BY <1>18 DEF File_Unlock, Elsewhere, GoTo
  <2>2. UNCHANGED <<slots, items, rear, front>>
    BY <1>18 DEF File_Unlock, queue
  <2> QED
    BY <2>1, <2>2, Quiet
<1>19. CASE Stop \/ UNCHANGED vars
  BY <1>19 DEF Stop, vars, queue, IInv, CountInv, HasSlot, HasPut, HasItem, HasTaken, At
<1> QED
  BY <1>1, <1>2, <1>3, <1>4, <1>5, <1>6, <1>7, <1>8, <1>9, <1>10, <1>11, <1>12, <1>13, <1>14, <1>15, <1>16, <1>17, <1>18, <1>19 DEF Next, Goes, Push, WriteLog_Remove

(* A line in hand, or in the buffer, is one. *)
LEMMA LineStep ==
  ASSUME IInv, [Next]_vars
  PROVE  LineInv'
<1> USE SizeAssumption DEF IInv, TypeInv, LineInv, WithLine, NoLine, queue, logvars
<1>1. ASSUME NEW t \in Threads, AddItem(t) PROVE LineInv'
  BY <1>1 DEF AddItem, GoTo
<1>2. ASSUME NEW t \in Threads, Push_Slot(t) PROVE LineInv'
  BY <1>2 DEF Push_Slot, Insert_Slot, GoTo
<1>3. ASSUME NEW t \in Threads, QueueStep(t, "insert_mutex", "rear", AcquireMutex) PROVE LineInv'
  BY <1>3 DEF QueueStep, AcquireMutex, GoTo
<1>4. ASSUME NEW t \in Threads, Load(t, "rear", "put", rear) PROVE LineInv'
  BY <1>4 DEF Load, GoTo
<1>5. ASSUME NEW t \in Threads, Push_Put(t) PROVE LineInv'
  <2>1. /\ rear' = rear + 1 /\ front' = front /\ info' = [info EXCEPT ![t] = 0]
        /\ pc' = [pc EXCEPT ![t] = "insert_unlock"] /\ pc[t] = "put"
        /\ buf' = [buf EXCEPT ![(rear + 1) % max_size] = info[t]] /\ info[t] # 0
    BY <1>5 DEF Push_Put, Insert_Put, GoTo, MutexInv
  <2>2. \A i \in 1..(rear + 1) - front :
           /\ front + i \in Nat /\ (front + i) % max_size \in 0..max_size - 1
           /\ i \notin 1..rear - front => front + i = rear + 1
    <3> SUFFICES ASSUME NEW i \in 1..(rear + 1) - front
                 PROVE  /\ front + i \in Nat /\ (front + i) % max_size \in 0..max_size - 1
                        /\ i \notin 1..rear - front => front + i = rear + 1
      OBVIOUS
    <3>1. front + i \in Nat
      OBVIOUS
    <3>2. (front + i) % max_size \in 0..max_size - 1
      BY <3>1, Slot
    <3>3. i \notin 1..rear - front => front + i = rear + 1
      OBVIOUS
    <3> QED
      BY <3>1, <3>2, <3>3
  <2>3. ASSUME NEW i \in 1..(rear + 1) - front PROVE buf'[(front + i) % max_size] # 0
    <3>1. CASE i \in 1..rear - front
      BY <2>1, <2>2, <3>1
    <3>2. CASE i \notin 1..rear - front
      BY <2>1, <2>2, <3>2
    <3> QED
      BY <3>1, <3>2
  <2>4. rear' = rear + 1 /\ front' = front
    BY <2>1
  <2>5. \A i \in 1..rear' - front' : buf'[(front' + i) % max_size] # 0
    BY <2>3, <2>4
  <2> QED
    BY <2>1, <2>5
<1>6. ASSUME NEW t \in Threads, QueueStep(t, "insert_unlock", "item", ReleaseMutex) PROVE LineInv'
  BY <1>6 DEF QueueStep, ReleaseMutex, GoTo
<1>7. ASSUME NEW t \in Threads, QueueStep(t, "item", "idle", Insert_Item) PROVE LineInv'
  BY <1>7 DEF QueueStep, Insert_Item, GoTo
<1>8. ASSUME NEW t \in Threads, Worker_Loop(t) PROVE LineInv'
  BY <1>8 DEF Worker_Loop, GoTo
<1>9. ASSUME NEW t \in Threads, Worker_Empty(t) PROVE LineInv'
  BY <1>9 DEF Worker_Empty, GoTo
<1>10. ASSUME NEW t \in Threads, QueueStep(t, "remove_item", "remove_mutex", Remove_Item) PROVE LineInv'
  BY <1>10 DEF QueueStep, Remove_Item, GoTo
<1>11. ASSUME NEW t \in Threads, QueueStep(t, "remove_mutex", "front", AcquireMutex) PROVE LineInv'
  BY <1>11 DEF QueueStep, AcquireMutex, GoTo
<1>12. ASSUME NEW t \in Threads, Load(t, "front", "take", front) PROVE LineInv'
  BY <1>12 DEF Load, GoTo
<1>13. ASSUME NEW t \in Threads, WriteLog_Take(t) PROVE LineInv'
  <2>1. /\ rear' = rear /\ front' = front + 1 /\ info' = [info EXCEPT ![t] = buf[(front + 1) % max_size]]
        /\ pc' = [pc EXCEPT ![t] = "remove_unlock"] /\ pc[t] = "take"
        /\ buf' = [buf EXCEPT ![(front + 1) % max_size] = 0]
    BY <1>13 DEF WriteLog_Take, Remove_Take, Item, GoTo, MutexInv
  <2>2. rear - front \in 1..max_size
    BY <2>1, Room
  <2>3. \A i \in 1..rear - (front + 1) :
           /\ i + 1 \in 1..rear - front /\ front + 1 + i = front + (i + 1)
           /\ (front + 1 + i) % max_size \in 0..max_size - 1
           /\ (front + 1 + i) % max_size # (front + 1) % max_size
    <3> SUFFICES ASSUME NEW i \in 1..rear - (front + 1)
                 PROVE  /\ i + 1 \in 1..rear - front /\ front + 1 + i = front + (i + 1)
                        /\ (front + 1 + i) % max_size \in 0..max_size - 1
                        /\ (front + 1 + i) % max_size # (front + 1) % max_size
      OBVIOUS
    <3>1. /\ front + 1 \in Nat /\ front + 1 + i \in Nat /\ front + 1 < front + 1 + i
          /\ (front + 1 + i) - (front + 1) < max_size
      BY <2>2
    <3>2. (front + 1 + i) % max_size \in 0..max_size - 1
      BY <3>1, Slot
    <3>3. (front + 1) % max_size # (front + 1 + i) % max_size
      BY <3>1, DifferentSlots
    <3>4. i + 1 \in 1..rear - front /\ front + 1 + i = front + (i + 1)
      BY <2>2
    <3> QED
      BY <3>2, <3>3, <3>4
  <2>4. \A i \in 1..rear' - front' : buf'[(front' + i) % max_size] # 0
    BY <2>1, <2>3
  <2>5. 1 \in 1..rear - front
    BY <2>2
  <2>6. info'[t] # 0
    BY <2>1, <2>5
  <2> QED
    BY <2>1, <2>4, <2>6
<1>14. ASSUME NEW t \in Threads, QueueStep(t, "remove_unlock", "remove_slot", ReleaseMutex) PROVE LineInv'
  BY <1>14 DEF QueueStep, ReleaseMutex, GoTo
<1>15. ASSUME NEW t \in Threads, QueueStep(t, "remove_slot", "lock", Remove_Slot) PROVE LineInv'
  BY <1>15 DEF QueueStep, Remove_Slot, GoTo
<1>16. ASSUME NEW t \in Threads, File_Lock(t) PROVE LineInv'
  BY <1>16 DEF File_Lock, GoTo
<1>17. ASSUME NEW t \in Threads, File_Write(t) PROVE LineInv'
  BY <1>17 DEF File_Write, GoTo
<1>18. ASSUME NEW t \in Threads, File_Unlock(t) PROVE LineInv'
  BY <1>18 DEF File_Unlock, GoTo
<1>19. CASE Stop \/ UNCHANGED vars
  BY <1>19 DEF Stop, vars
<1> QED
  BY <1>1, <1>2, <1>3, <1>4, <1>5, <1>6, <1>7, <1>8, <1>9, <1>10, <1>11, <1>12, <1>13, <1>14, <1>15, <1>16, <1>17, <1>18, <1>19 DEF Next, Goes, Push, WriteLog_Remove

(* The invariant holds at the start and is kept.                           *)
LEMMA InitIInv == Init => IInv
<1> SUFFICES ASSUME Init PROVE IInv
  OBVIOUS
<1> USE SizeAssumption, LinesAssumption DEF Init, QueueInit
<1>1. TypeInv
  BY DEF TypeInv, WithLine, NoLine
<1>2. MutexInv
  BY DEF MutexInv, Critical
<1>3. CountInv
  <2>1. HasSlot = {} /\ HasPut = {} /\ HasItem = {} /\ HasTaken = {}
    BY DEF HasSlot, HasPut, HasItem, HasTaken, At
  <2> QED
    BY <2>1, FS_EmptySet DEF CountInv
<1>4. LineInv
  BY DEF LineInv, WithLine
<1> QED
  BY <1>1, <1>2, <1>3, <1>4 DEF IInv

(* Every step preserves the invariant. *)
LEMMA StepIInv == IInv /\ [Next]_vars => IInv'
  BY TypeStep, MutexStep, CountStep, LineStep DEF IInv

(* So every state of every behaviour satisfies it. *)
LEMMA Invariance == Spec => []IInv
  BY InitIInv, StepIInv, PTL DEF Spec

(***************************************************************************)
(* The ring buffer implements the bounded FIFO.                            *)
(***************************************************************************)
LEMMA ContentsType ==
  ASSUME IInv
  PROVE  /\ Contents \in Seq(1..MaxLines) /\ Len(Contents) = rear - front
         /\ \A i \in 1..rear - front : Contents[i] = buf[(front + i) % max_size]
<1>1. rear - front \in 0..max_size /\ front \in Nat /\ rear \in Nat
  BY Room DEF IInv, TypeInv
<1>2. \A i \in 1..rear - front : buf[(front + i) % max_size] \in 1..MaxLines
  <2> SUFFICES ASSUME NEW i \in 1..rear - front PROVE buf[(front + i) % max_size] \in 1..MaxLines
    OBVIOUS
  <2>1. front + i \in Nat
    BY <1>1
  <2>2. (front + i) % max_size \in 0..max_size - 1
    BY <2>1, Slot
  <2>3. buf[(front + i) % max_size] \in 0..MaxLines
    BY <2>2 DEF IInv, TypeInv
  <2>4. buf[(front + i) % max_size] # 0
    BY DEF IInv, LineInv
  <2> QED
    BY <2>3, <2>4, LinesAssumption
<1>3. PICK n \in Nat : n = rear - front
  BY <1>1, SizeAssumption
<1>4. Contents = [i \in 1..n |-> buf[(front + i) % max_size]]
  BY <1>3 DEF Contents
<1>5. Contents \in [1..n -> 1..MaxLines]
  BY <1>2, <1>3, <1>4
<1>6. Contents \in Seq(1..MaxLines)
  BY <1>5, SeqDef
<1>7. Len(Contents) = n
  <2>1. Len(Contents) \in Nat /\ 1..Len(Contents) = 1..n
    BY <1>5, <1>6, LenProperties
  <2> QED
    BY <2>1
<1> QED
  BY <1>3, <1>4, <1>6, <1>7

(* Push_Put puts the line of its thread at the end.                        *)
LEMMA PutsLast ==
  ASSUME IInv, NEW t \in Threads, Push_Put(t)
  PROVE  /\ info[t] \in 1..MaxLines /\ Len(Contents) < max_size
         /\ Contents' = Append(Contents, info[t])
<1>1. /\ pc[t] = "put" /\ rear' = rear + 1 /\ front' = front
      /\ buf' = [buf EXCEPT ![(rear + 1) % max_size] = info[t]]
  BY DEF Push_Put, Insert_Put, GoTo, IInv, MutexInv
<1>2. /\ buf \in [0..max_size - 1 -> 0..MaxLines] /\ rear \in Nat /\ front \in Nat
      /\ info[t] \in 1..MaxLines
  BY <1>1, LinesAssumption DEF IInv, TypeInv, LineInv, WithLine
<1>3. rear - front \in 0..max_size - 1
  BY <1>1, Room, SizeAssumption
<1>4. ASSUME NEW i \in 1..(rear + 1) - front
      PROVE  buf'[(front + i) % max_size] = IF i = (rear + 1) - front THEN info[t]
                                            ELSE buf[(front + i) % max_size]
  <2>1. CASE i = (rear + 1) - front
    <3>1. front + i = rear + 1 /\ rear + 1 \in Nat
      BY <1>2, <2>1
    <3>2. (rear + 1) % max_size \in 0..max_size - 1
      BY <3>1, Slot
    <3> QED
      BY <1>1, <1>2, <2>1, <3>1, <3>2
  <2>2. CASE i # (rear + 1) - front
    <3>1. /\ front + i \in Nat /\ rear + 1 \in Nat /\ front + i < rear + 1
          /\ (rear + 1) - (front + i) < max_size
      BY <1>2, <1>3, <2>2, SizeAssumption
    <3>2. (front + i) % max_size # (rear + 1) % max_size
      BY <3>1, SizeAssumption, DifferentSlots
    <3>3. (front + i) % max_size \in 0..max_size - 1
      BY <3>1, Slot
    <3> QED
      BY <1>1, <1>2, <2>2, <3>2, <3>3
  <2> QED
    BY <2>1, <2>2
<1>5. /\ Contents \in Seq(1..MaxLines) /\ Len(Contents) = rear - front
      /\ \A i \in 1..rear - front : Contents[i] = buf[(front + i) % max_size]
  BY ContentsType
<1>6. Contents' = [i \in 1..(rear + 1) - front |-> buf'[(front + i) % max_size]]
  <2>1. Contents' = [i \in 1..rear' - front' |-> buf'[(front' + i) % max_size]]
    BY DEF Contents
  <2>2. rear' = rear + 1 /\ front' = front
    BY <1>1
  <2> QED
    BY <2>1, <2>2
<1>7. Append(Contents, info[t]) =
        [i \in 1..rear - front + 1 |-> IF i = rear - front + 1 THEN info[t] ELSE Contents[i]]
  BY <1>5, <1>2
<1>8. rear - front + 1 = (rear + 1) - front
  BY <1>2
<1>9. \A i \in 1..(rear + 1) - front : i # (rear + 1) - front => i \in 1..rear - front
  BY <1>2
<1>10. Contents' = Append(Contents, info[t])
  <2>1. \A i \in 1..(rear + 1) - front :
           buf'[(front + i) % max_size] = IF i = (rear + 1) - front THEN info[t] ELSE Contents[i]
    BY <1>4, <1>5, <1>9
  <2> QED
    BY <2>1, <1>6, <1>7, <1>8
<1> QED
  BY <1>2, <1>3, <1>5, <1>10, SizeAssumption

(* WriteLog_Take takes the first line.                                     *)
LEMMA TakesFirst ==
  ASSUME IInv, NEW t \in Threads, WriteLog_Take(t)
  PROVE  /\ Contents # <<>> /\ Contents' = Tail(Contents)
         /\ info' = [info EXCEPT ![t] = Head(Contents)]
<1>1. /\ pc[t] = "take" /\ rear' = rear /\ front' = front + 1
      /\ buf' = [buf EXCEPT ![(front + 1) % max_size] = 0]
      /\ info' = [info EXCEPT ![t] = buf[(front + 1) % max_size]]
  BY DEF WriteLog_Take, Remove_Take, Item, GoTo, IInv, MutexInv
<1>2. buf \in [0..max_size - 1 -> 0..MaxLines] /\ rear \in Nat /\ front \in Nat
  BY DEF IInv, TypeInv
<1>3. rear - front \in 1..max_size
  BY <1>1, Room, SizeAssumption
<1>4. ASSUME NEW i \in 1..rear - (front + 1)
      PROVE  buf'[(front + 1 + i) % max_size] = buf[(front + (i + 1)) % max_size]
  <2>1. /\ front + 1 \in Nat /\ front + 1 + i \in Nat /\ front + 1 < front + 1 + i
        /\ (front + 1 + i) - (front + 1) < max_size /\ front + 1 + i = front + (i + 1)
    BY <1>2, <1>3, SizeAssumption
  <2>2. (front + 1) % max_size # (front + 1 + i) % max_size
    BY <2>1, SizeAssumption, DifferentSlots
  <2>3. (front + 1 + i) % max_size \in 0..max_size - 1
    BY <2>1, Slot
  <2> QED
    BY <1>1, <1>2, <2>1, <2>2, <2>3
<1>5. /\ Contents \in Seq(1..MaxLines) /\ Len(Contents) = rear - front
      /\ \A i \in 1..rear - front : Contents[i] = buf[(front + i) % max_size]
  BY ContentsType
<1>6. Contents' = [i \in 1..rear - (front + 1) |-> buf'[(front + 1 + i) % max_size]]
  BY <1>1 DEF Contents
<1>7. Contents # <<>> /\ Tail(Contents) = [i \in 1..rear - front - 1 |-> Contents[i + 1]]
      /\ Head(Contents) = Contents[1]
  <2>1. PICK s \in Seq(1..MaxLines) : s = Contents
    BY <1>5
  <2>2. Len(s) = rear - front /\ Len(s) >= 1
    BY <1>3, <1>5, <2>1, SizeAssumption
  <2>3. s # <<>>
    BY <2>2, EmptySeq
  <2>4. Tail(s) = [i \in 1..Len(s) - 1 |-> s[i + 1]] /\ Head(s) = s[1]
    <3>1. /\ Tail(s) \in Seq(1..MaxLines) /\ Len(Tail(s)) = Len(s) - 1
          /\ \A i \in 1..Len(Tail(s)) : Tail(s)[i] = s[i + 1]
      BY <2>3, HeadTailProperties
    <3>2. Tail(s) \in [1..Len(Tail(s)) -> 1..MaxLines]
      BY <3>1, LenProperties
    <3>3. Head(s) = s[1]
      BY <2>2
    <3> QED
      BY <3>1, <3>2, <3>3
  <2> QED
    BY <2>1, <2>2, <2>3, <2>4
<1>8. rear - front - 1 = rear - (front + 1)
  BY <1>2
<1>9. 1 \in 1..rear - front /\ \A i \in 1..rear - (front + 1) : i + 1 \in 1..rear - front
  BY <1>2, <1>3
<1>10. Head(Contents) = buf[(front + 1) % max_size]
  BY <1>5, <1>7, <1>9
<1>11. Contents' = Tail(Contents)
  BY <1>4, <1>5, <1>6, <1>7, <1>8, <1>9
<1> QED
  BY <1>1, <1>7, <1>10, <1>11

(* No other step changes what is in the buffer.                            *)
LEMMA OtherContents ==
  ASSUME [Next]_vars
  PROVE  \/ UNCHANGED Contents
         \/ \E t \in Threads : Push_Put(t) \/ WriteLog_Take(t)
<1>1. \/ UNCHANGED <<buf, front, rear>>
      \/ \E t \in Threads : Push_Put(t) \/ WriteLog_Take(t)
  BY DEF Next, Goes, AddItem, Push, WriteLog_Remove, Worker_Loop, Worker_Empty, File_Lock, File_Write,
         File_Unlock, Stop, Push_Slot, Insert_Slot, QueueStep, Load, AcquireMutex, ReleaseMutex,
         Insert_Item, Remove_Item, Remove_Slot, queue, vars
<1> QED
  BY <1>1 DEF Contents

(* Every step puts a line last, takes the first one, or leaves the         *)
(* contents alone.                                                         *)
LEMMA BufferStep ==
  ASSUME IInv, [Next]_vars
  PROVE  [Buffer!Next]_Contents
<1>1. ASSUME NEW t \in Threads, Push_Put(t) PROVE Buffer!Next
  BY <1>1, PutsLast DEF Buffer!Next, Buffer!Put
<1>2. ASSUME NEW t \in Threads, WriteLog_Take(t) PROVE Buffer!Next
  BY <1>2, TakesFirst DEF Buffer!Next, Buffer!Take
<1> QED
  BY <1>1, <1>2, OtherContents

(* The queue begins empty. *)
LEMMA BufferInit == Init => Buffer!Init
<1> SUFFICES ASSUME Init PROVE Contents = <<>>
  BY DEF Buffer!Init
<1>1. rear - front = 0
  BY DEF Init, QueueInit
<1> QED
  BY <1>1 DEF Contents

(* With every interleaving of callers and workers the ring buffer is a     *)
(* FIFO of max_size lines: nothing is overwritten before it was read, and  *)
(* nothing is read before it was written.                                  *)
THEOREM ImplementsBufferCorrect == Spec => ImplementsBuffer
<1>1. IInv /\ [Next]_vars => [Buffer!Next]_Contents
  BY BufferStep
<1> QED
  BY <1>1, BufferInit, Invariance, PTL DEF Spec, ImplementsBuffer, Buffer!Spec

(***************************************************************************)
(* No line is lost, none is written twice.                                 *)
(***************************************************************************)
Holders == {t \in Threads : info[t] # 0}
InHand == {info[t] : t \in Holders}

(* There are finitely many threads, so those with a line in hand can be    *)
(* counted.                                                                *)
LEMMA HoldersFinite == IsFiniteSet(Holders) /\ Cardinality(Holders) \in Nat
<1>1. Holders \in SUBSET Threads
  BY DEF Holders
<1> QED
  BY <1>1, ThreadAssumption, FS_Subset, FS_CardinalityType DEF Threads

(* A thread gets a line, or gives one away.                                *)
LEMMA Gets ==
  ASSUME TypeInv, NEW t \in Threads, info[t] = 0, NEW x, x # 0, info' = [info EXCEPT ![t] = x]
  PROVE  Cardinality(Holders') = Cardinality(Holders) + 1 /\ InHand' = InHand \cup {x}
<1>1. info \in [Threads -> 0..MaxLines]
  BY DEF TypeInv
<1>2. Holders' = Holders \cup {t} /\ t \notin Holders
  BY <1>1 DEF Holders
<1>3. InHand' = InHand \cup {x}
  <2>1. \A u \in Holders : info'[u] = info[u]
    BY <1>1, <1>2 DEF Holders
  <2>2. info'[t] = x
    BY <1>1
  <2> QED
    BY <1>2, <2>1, <2>2 DEF InHand
<1> QED
  BY <1>2, <1>3, HoldersFinite, FS_AddElement

(* A thread that gives its line away holds none. *)
LEMMA Gives ==
  ASSUME TypeInv, NEW t \in Threads, info[t] # 0, info' = [info EXCEPT ![t] = 0]
  PROVE  Cardinality(Holders') = Cardinality(Holders) - 1 /\ InHand = InHand' \cup {info[t]}
<1>1. info \in [Threads -> 0..MaxLines]
  BY DEF TypeInv
<1>2. Holders' = Holders \ {t} /\ t \in Holders
  BY <1>1 DEF Holders
<1>3. InHand = InHand' \cup {info[t]}
  <2>1. \A u \in Holders' : info'[u] = info[u]
    BY <1>1, <1>2 DEF Holders
  <2> QED
    BY <1>2, <2>1 DEF InHand
<1> QED
  BY <1>2, <1>3, HoldersFinite, FS_RemoveElement

(* The lines of a sequence with one more, and with the first one gone.     *)
LEMMA Appended ==
  ASSUME NEW S, NEW s \in Seq(S), NEW x \in S
  PROVE  ToSet(Append(s, x)) = ToSet(s) \cup {x} /\ Len(Append(s, x)) = Len(s) + 1
<1>1. /\ Append(s, x) \in Seq(S) /\ Len(Append(s, x)) = Len(s) + 1 /\ Len(s) \in Nat
      /\ \A i \in 1..Len(s) : Append(s, x)[i] = s[i]
      /\ Append(s, x)[Len(s) + 1] = x
  OBVIOUS
<1>2. DOMAIN Append(s, x) = 1..Len(s) + 1 /\ DOMAIN s = 1..Len(s)
  BY <1>1
<1>3. \A i \in 1..Len(s) + 1 : i \in 1..Len(s) \/ i = Len(s) + 1
  BY <1>1
<1>4. Len(s) + 1 \in 1..Len(s) + 1 /\ 1..Len(s) \subseteq 1..Len(s) + 1
  BY <1>1
<1> QED
  BY <1>1, <1>2, <1>3, <1>4 DEF ToSet

(* What a sequence loses with its head. *)
LEMMA Dropped ==
  ASSUME NEW S, NEW s \in Seq(S), s # <<>>
  PROVE  /\ ToSet(s) = {Head(s)} \cup ToSet(Tail(s)) /\ Len(Tail(s)) = Len(s) - 1
         /\ Head(s) \in S
<1>1. /\ Head(s) \in S /\ Tail(s) \in Seq(S) /\ Len(Tail(s)) = Len(s) - 1
      /\ \A i \in 1..Len(Tail(s)) : Tail(s)[i] = s[i + 1]
  BY HeadTailProperties
<1>2. Len(s) \in Nat \ {0} /\ DOMAIN s = 1..Len(s) /\ DOMAIN Tail(s) = 1..Len(s) - 1 /\ Head(s) = s[1]
  BY <1>1, EmptySeq, LenProperties
<1>3. \A i \in 1..Len(s) : i = 1 \/ (i - 1 \in 1..Len(s) - 1 /\ (i - 1) + 1 = i)
  BY <1>2
<1>4. 1 \in 1..Len(s) /\ \A i \in 1..Len(s) - 1 : i + 1 \in 1..Len(s)
  BY <1>2
<1>5. ToSet(s) \subseteq {Head(s)} \cup ToSet(Tail(s))
  <2> SUFFICES ASSUME NEW i \in 1..Len(s) PROVE s[i] \in {Head(s)} \cup ToSet(Tail(s))
    BY <1>2 DEF ToSet
  <2>1. CASE i = 1
    BY <1>2, <2>1
  <2>2. CASE i # 1
    <3>1. i - 1 \in 1..Len(s) - 1 /\ (i - 1) + 1 = i
      BY <1>3, <2>2
    <3>2. Tail(s)[i - 1] = s[i]
      BY <1>1, <3>1
    <3> QED
      BY <1>2, <3>1, <3>2 DEF ToSet
  <2> QED
    BY <2>1, <2>2
<1>6. {Head(s)} \cup ToSet(Tail(s)) \subseteq ToSet(s)
  BY <1>1, <1>2, <1>4 DEF ToSet
<1> QED
  BY <1>1, <1>5, <1>6

(* The steps that move a line, and the others.                             *)
LEMMA LineMoves ==
  ASSUME IInv, [Next]_vars
  PROVE  \/ \E t \in Threads : \/ AddItem(t) /\ ~stop_logger
                               \/ Push_Put(t) \/ WriteLog_Take(t) \/ File_Write(t)
         \/ UNCHANGED <<info, called, ofs, Contents>>
<1>1. \/ \E t \in Threads : \/ AddItem(t) /\ ~stop_logger
                            \/ Push_Put(t) \/ WriteLog_Take(t) \/ File_Write(t)
      \/ UNCHANGED <<info, called, ofs>>
  BY DEF Next, Goes, AddItem, Push, WriteLog_Remove, Worker_Loop, Worker_Empty, File_Lock, File_Write,
         File_Unlock, Stop, Push_Slot, QueueStep, Load, logvars, vars
<1> QED
  BY <1>1, OtherContents

(* A step moves at most one line, and from one place to one other. *)
LEMMA OnceStep ==
  ASSUME IInv, EachLineOnce, [Next]_vars
  PROVE  EachLineOnce'
<1>1. /\ InHand \cup ToSet(Contents) \cup ToSet(ofs) = 1..called
      /\ Cardinality(Holders) + Len(Contents) + Len(ofs) = called
  BY DEF EachLineOnce, InHand, Holders
<1>2. SUFFICES /\ InHand' \cup ToSet(Contents') \cup ToSet(ofs') = 1..called'
               /\ Cardinality(Holders') + Len(Contents') + Len(ofs') = called'
  BY DEF EachLineOnce, InHand, Holders
<1>3. /\ Contents \in Seq(1..MaxLines) /\ ofs \in Seq(1..MaxLines) /\ called \in Nat /\ TypeInv
      /\ Len(Contents) \in Nat /\ Len(ofs) \in Nat /\ Cardinality(Holders) \in Nat
  BY ContentsType, HoldersFinite, LinesAssumption DEF IInv, TypeInv
<1>4. ASSUME NEW t \in Threads, AddItem(t), ~stop_logger
      PROVE  /\ InHand' \cup ToSet(Contents') \cup ToSet(ofs') = 1..called'
             /\ Cardinality(Holders') + Len(Contents') + Len(ofs') = called'
  <2>1. /\ called' = called + 1 /\ info' = [info EXCEPT ![t] = called + 1] /\ pc[t] = "idle"
        /\ UNCHANGED <<buf, front, rear, ofs>>
    BY <1>4 DEF AddItem, GoTo, queue
  <2>2. info[t] = 0
    BY <2>1 DEF IInv, LineInv, WithLine
  <2>3. Contents' = Contents
    BY <2>1 DEF Contents
  <2>4. Cardinality(Holders') = Cardinality(Holders) + 1 /\ InHand' = InHand \cup {called + 1}
    <3>1. PICK x \in Nat \ {0} : x = called + 1
      BY <1>3
    <3>2. x # 0 /\ info' = [info EXCEPT ![t] = x]
      BY <2>1, <3>1
    <3> QED
      BY <1>3, <2>2, <3>1, <3>2, Gets
  <2>5. 1..called + 1 = (1..called) \cup {called + 1}
    BY <1>3
  <2> QED
    BY <1>1, <1>3, <2>1, <2>3, <2>4, <2>5
<1>5. ASSUME NEW t \in Threads, Push_Put(t)
      PROVE  /\ InHand' \cup ToSet(Contents') \cup ToSet(ofs') = 1..called'
             /\ Cardinality(Holders') + Len(Contents') + Len(ofs') = called'
  <2>1. info' = [info EXCEPT ![t] = 0] /\ UNCHANGED <<called, ofs>>
    BY <1>5 DEF Push_Put, logvars
  <2>2. info[t] \in 1..MaxLines /\ info[t] # 0 /\ Contents' = Append(Contents, info[t])
    BY <1>5, PutsLast
  <2>3. Cardinality(Holders') = Cardinality(Holders) - 1 /\ InHand = InHand' \cup {info[t]}
    BY <1>3, <2>1, <2>2, Gives
  <2>4. ToSet(Contents') = ToSet(Contents) \cup {info[t]} /\ Len(Contents') = Len(Contents) + 1
    <3>1. PICK s \in Seq(1..MaxLines) : s = Contents
      BY <1>3
    <3>2. PICK x \in 1..MaxLines : x = info[t]
      BY <2>2
    <3>3. ToSet(Append(s, x)) = ToSet(s) \cup {x} /\ Len(Append(s, x)) = Len(s) + 1
      BY Appended
    <3> QED
      BY <2>2, <3>1, <3>2, <3>3
  <2> QED
    BY <1>1, <1>3, <2>1, <2>3, <2>4
<1>6. ASSUME NEW t \in Threads, WriteLog_Take(t)
      PROVE  /\ InHand' \cup ToSet(Contents') \cup ToSet(ofs') = 1..called'
             /\ Cardinality(Holders') + Len(Contents') + Len(ofs') = called'
  <2>1. pc[t] = "take" /\ UNCHANGED <<called, ofs>>
    BY <1>6 DEF WriteLog_Take, GoTo, logvars
  <2>2. info[t] = 0
    BY <2>1 DEF IInv, LineInv, WithLine
  <2>3. Contents # <<>> /\ Contents' = Tail(Contents) /\ info' = [info EXCEPT ![t] = Head(Contents)]
    BY <1>6, TakesFirst
  <2>4. /\ ToSet(Contents) = {Head(Contents)} \cup ToSet(Contents')
        /\ Len(Contents') = Len(Contents) - 1 /\ Head(Contents) \in 1..MaxLines
    BY <1>3, <2>3, Dropped
  <2>5. Cardinality(Holders') = Cardinality(Holders) + 1 /\ InHand' = InHand \cup {Head(Contents)}
    <3>1. PICK x \in 1..MaxLines : x = Head(Contents)
      BY <2>4
    <3>2. x # 0 /\ info' = [info EXCEPT ![t] = x]
      BY <2>3, <3>1, LinesAssumption
    <3> QED
      BY <1>3, <2>2, <3>1, <3>2, Gets
  <2> QED
    BY <1>1, <1>3, <2>1, <2>4, <2>5
<1>7. ASSUME NEW t \in Threads, File_Write(t)
      PROVE  /\ InHand' \cup ToSet(Contents') \cup ToSet(ofs') = 1..called'
             /\ Cardinality(Holders') + Len(Contents') + Len(ofs') = called'
  <2>1. /\ info' = [info EXCEPT ![t] = 0] /\ ofs' = Append(ofs, info[t]) /\ pc[t] = "write"
        /\ UNCHANGED <<called, buf, front, rear>>
    BY <1>7 DEF File_Write, GoTo, queue
  <2>2. info[t] \in 1..MaxLines /\ info[t] # 0
    BY <2>1, LinesAssumption DEF IInv, TypeInv, LineInv, WithLine
  <2>3. Contents' = Contents
    BY <2>1 DEF Contents
  <2>4. Cardinality(Holders') = Cardinality(Holders) - 1 /\ InHand = InHand' \cup {info[t]}
    BY <1>3, <2>1, <2>2, Gives
  <2>5. ToSet(ofs') = ToSet(ofs) \cup {info[t]} /\ Len(ofs') = Len(ofs) + 1
    <3>1. PICK s \in Seq(1..MaxLines) : s = ofs
      BY <1>3
    <3>2. PICK x \in 1..MaxLines : x = info[t]
      BY <2>2
    <3>3. ToSet(Append(s, x)) = ToSet(s) \cup {x} /\ Len(Append(s, x)) = Len(s) + 1
      BY Appended
    <3> QED
      BY <2>1, <3>1, <3>2, <3>3
  <2> QED
    BY <1>1, <1>3, <2>1, <2>3, <2>4, <2>5
<1>8. CASE UNCHANGED <<info, called, ofs, Contents>>
  <2>1. InHand' = InHand /\ Holders' = Holders
    BY <1>8 DEF InHand, Holders
  <2> QED
    BY <1>1, <1>8, <2>1
<1> QED
  BY <1>4, <1>5, <1>6, <1>7, <1>8, LineMoves

(* No line has been logged at the start. *)
LEMMA OnceInit == Init => EachLineOnce
<1> SUFFICES ASSUME Init PROVE EachLineOnce
  OBVIOUS
<1>1. Contents = <<>> /\ ofs = <<>> /\ called = 0
  BY BufferInit DEF Init, Buffer!Init
<1>2. {t \in Threads : info[t] # 0} = {}
  BY DEF Init
<1> QED
  BY <1>1, <1>2, FS_EmptySet DEF EachLineOnce, ToSet

(* A line is in one place: in the hands of a caller or a worker, in the    *)
(* ring buffer or in the file.  Whatever the callers, the workers and the  *)
(* semaphores do, none is lost on the way and none is written twice.       *)
THEOREM EachLineOnceCorrect == Spec => []EachLineOnce
<1>1. IInv /\ EachLineOnce /\ [Next]_vars => EachLineOnce'
  BY OnceStep
<1> QED
  BY <1>1, OnceInit, Invariance, PTL DEF Spec

=============================================================================
