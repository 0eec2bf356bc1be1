------------------------------- MODULE Logger -------------------------------
(***************************************************************************)
(* The logger (practice/log/logger.cpp): callers of LOG, which is          *)
(* addItem(), worker threads that take lines from the BlockQueue and write *)
(* them, and stop().  In synchronous mode the callers write themselves.    *)
(* The model begins when init() has returned.  A line is the number of its *)
(* call of addItem().                                                      *)
(***************************************************************************)
EXTENDS BlockQueue, FiniteSets, SequencesExt

CONSTANTS
    Callers, Workers,   \* threads
    MaxLines            \* bound: calls of addItem (far below 2^31: front and
                        \* rear are ints that are never reset)

ASSUME ThreadAssumption == Callers \cap Workers = {} /\ IsFiniteSet(Callers \cup Workers)
ASSUME LinesAssumption == MaxLines \in Nat

VARIABLES
    pc, info,           \* info[t]: the line in the hands of thread t, or 0
    index,              \* index[t]: the rear or front that thread t has loaded
    lock, ofs,          \* lock is the holder's name, ofs the lines in the file
    stop_logger, async_mode,
    called,             \* calls of addItem so far
    safe                \* history: lines that had their slot before stop()

logvars == <<lock, ofs, stop_logger, async_mode, called, safe>>
vars == <<queue, pc, info, index, logvars>>

Threads == Callers \cup Workers
Nobody == "nobody"

Init ==
    /\ QueueInit
    /\ async_mode \in BOOLEAN
    /\ pc = [t \in Threads |-> IF t \in Callers THEN "idle"
                               ELSE IF async_mode THEN "loop" ELSE "ended"]
    /\ info = [t \in Threads |-> 0]
    /\ index = [t \in Threads |-> 0]
    /\ lock = Nobody /\ ofs = <<>> /\ stop_logger = FALSE
    /\ called = 0 /\ safe = {}

GoTo(t, from, to) == pc[t] = from /\ pc' = [pc EXCEPT ![t] = to]

(* addItem *)

AddItem(t) ==
    /\ called < MaxLines
    /\ IF stop_logger
       THEN pc[t] = "idle" /\ UNCHANGED <<pc, info, called>>
       ELSE /\ GoTo(t, "idle", IF async_mode THEN "slot" ELSE "lock")
            /\ called' = called + 1 /\ info' = [info EXCEPT ![t] = called']
    /\ UNCHANGED <<queue, index, lock, ofs, stop_logger, async_mode, safe>>

(* A step of the queue by thread t. *)
QueueStep(t, from, to, Step) ==
    GoTo(t, from, to) /\ Step /\ UNCHANGED <<info, index, logvars>>

Push_Slot(t) ==
    /\ GoTo(t, "slot", "insert_mutex") /\ Insert_Slot
    /\ safe' = IF stop_logger THEN safe ELSE safe \cup {info[t]}
    /\ UNCHANGED <<info, index, lock, ofs, stop_logger, async_mode, called>>

(* ++rear and ++front are a load and a store. *)
Load(t, from, to, i) ==
    /\ GoTo(t, from, to) /\ index' = [index EXCEPT ![t] = i]
    /\ UNCHANGED <<queue, info, logvars>>

Push_Put(t) ==
    /\ GoTo(t, "put", "insert_unlock")
    /\ Insert_Put(info[t], index[t]) /\ info' = [info EXCEPT ![t] = 0]
    /\ UNCHANGED <<index, logvars>>

Push(t) ==
    \/ Push_Slot(t)
    \/ QueueStep(t, "insert_mutex", "rear", AcquireMutex)
    \/ Load(t, "rear", "put", rear)
    \/ Push_Put(t)
    \/ QueueStep(t, "insert_unlock", "item", ReleaseMutex)
    \/ QueueStep(t, "item", "idle", Insert_Item)

(* worker: while(!is_stop() || !empty()) write_log(); *)

Worker_Loop(t) ==
    /\ GoTo(t, "loop", IF stop_logger THEN "empty" ELSE "remove_item")
    /\ UNCHANGED <<queue, info, index, logvars>>

Worker_Empty(t) ==
    /\ GoTo(t, "empty", IF Empty THEN "ended" ELSE "remove_item")
    /\ UNCHANGED <<queue, info, index, logvars>>

WriteLog_Take(t) ==
    /\ GoTo(t, "take", "remove_unlock")
    /\ info' = [info EXCEPT ![t] = Item(index[t])] /\ Remove_Take(index[t])
    /\ UNCHANGED <<index, logvars>>

WriteLog_Remove(t) ==
    \/ QueueStep(t, "remove_item", "remove_mutex", Remove_Item)
    \/ QueueStep(t, "remove_mutex", "front", AcquireMutex)
    \/ Load(t, "front", "take", front)
    \/ WriteLog_Take(t)
    \/ QueueStep(t, "remove_unlock", "remove_slot", ReleaseMutex)
    \/ QueueStep(t, "remove_slot", "lock", Remove_Slot)

(* Writing to the file, by a worker or a synchronous caller. *)

File_Lock(t) ==
    /\ GoTo(t, "lock", "write") /\ lock = Nobody /\ lock' = t
    /\ UNCHANGED <<queue, info, index, ofs, stop_logger, async_mode, called, safe>>

File_Write(t) ==
    /\ GoTo(t, "write", "unlock")
    /\ ofs' = Append(ofs, info[t]) /\ info' = [info EXCEPT ![t] = 0]
    /\ UNCHANGED <<queue, index, lock, stop_logger, async_mode, called, safe>>

File_Unlock(t) ==
    /\ GoTo(t, "unlock", IF t \in Callers THEN "idle" ELSE "loop")
    /\ lock' = Nobody
    /\ UNCHANGED <<queue, info, index, ofs, stop_logger, async_mode, called, safe>>

Stop == /\ ~stop_logger /\ stop_logger' = TRUE
        /\ UNCHANGED <<queue, pc, info, index, lock, ofs, async_mode, called, safe>>

Goes(t) == \/ Push(t) \/ Worker_Loop(t) \/ Worker_Empty(t) \/ WriteLog_Remove(t)
           \/ File_Lock(t) \/ File_Write(t) \/ File_Unlock(t)
Next == Stop \/ \E t \in Threads : AddItem(t) \/ Goes(t)
Spec == Init /\ [][Next]_vars

(* A thread in a call goes on; one that waits for a semaphore or the lock  *)
(* gets it when it is free again and again.                                *)
Waits == {"slot", "insert_mutex", "remove_item", "remove_mutex", "lock"}
FairSpec == Spec /\ \A t \in Threads :
    WF_vars(Goes(t)) /\ SF_vars(pc[t] \in Waits /\ Goes(t))

(* Properties *)

(* With every interleaving of callers and workers the ring buffer is a     *)
(* bounded FIFO: no slot is overwritten before it was read, none is read   *)
(* before it was written.                                                  *)
Buffer == INSTANCE BoundedBuffer WITH
          Items <- 1..MaxLines, Capacity <- max_size, contents <- Contents
ImplementsBuffer == Buffer!Spec

(* A line is in one place: in the hands of a thread, in the buffer or in   *)
(* the file.  None is lost on the way and none is written twice.           *)
EachLineOnce ==
    LET hands == {t \in Threads : info[t] # 0}
    IN /\ {info[t] : t \in hands} \cup ToSet(Contents) \cup ToSet(ofs) = 1..called
       /\ Cardinality(hands) + Len(Contents) + Len(ofs) = called

(* A line that had its slot when stop() was called is still written:       *)
(* workers leave only when every slot is free.  (A caller that passed      *)
(* is_stop() but has no slot yet may find all workers gone.)               *)
StopDrains == \A n \in 1..MaxLines : n \in safe ~> n \in ToSet(ofs)
=============================================================================
