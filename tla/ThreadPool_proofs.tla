------------------------- MODULE ThreadPool_proofs -------------------------
(***************************************************************************)
(* Proofs about ThreadPool for any number of callers, workers and          *)
(* requests and any m_max_requests.                                        *)
(***************************************************************************)
EXTENDS ThreadPool, FiniteSetTheorems, TLAPS

(* A caller pushes only while the size test still holds. *)
RoomToPush ==
    \A c \in Callers : pc[c] = "push_back" => Len(m_workqueue) <= m_max_requests

(* What a worker took from the queue is a request, not NULL. *)
HoldsRequest ==
    \A w \in Workers :
        pc[w] \in {"pop_front", "release", "process"} => request[w] \in Requests

(* The inductive invariant.  The bound and the other conjuncts about the   *)
(* queue are inductive only together with LockInv: what a thread saw of    *)
(* the queue stays true because nobody else is between lock() and unlock().*)
IInv == TypeOK /\ LockInv /\ QueueBound /\ RoomToPush /\ TakesWhatItSaw /\ HoldsRequest

(* The initial state satisfies the invariant. *)
LEMMA InitIInv == Init => IInv
<1> SUFFICES ASSUME Init
             PROVE  IInv
  OBVIOUS
<1> USE ThreadAssumption DEF Init, Threads
<1>1. TypeOK
  <2>1. m_workqueue \in Seq(Requests)
    OBVIOUS
  <2>2. pc \in [Threads -> CallerPCs \cup WorkerPCs]
    BY DEF CallerPCs, WorkerPCs
  <2> QED
    BY <2>1, <2>2 DEF TypeOK, CallerPCs, WorkerPCs, MayBeRequest
<1>2. LockInv
  BY DEF LockInv, Locked, CallerLocked, WorkerLocked
<1>3. QueueBound /\ RoomToPush /\ TakesWhatItSaw /\ HoldsRequest
  BY SizeAssumption DEF QueueBound, RoomToPush, TakesWhatItSaw, HoldsRequest
<1> QED
  BY <1>1, <1>2, <1>3 DEF IInv

(***************************************************************************)
(* Every step of append keeps the invariant.                               *)
(***************************************************************************)
LEMMA CallerIInv ==
  ASSUME IInv, NEW c \in Callers,
         CallerStep(c) \/ \E r \in Requests : Append_Call(c, r)
  PROVE  IInv'
<1> USE ThreadAssumption, SizeAssumption
    DEF IInv, TypeOK, LockInv, QueueBound, RoomToPush, TakesWhatItSaw, HoldsRequest,
        Threads, MayBeRequest, CallerPCs, WorkerPCs,
        Locked, CallerLocked, WorkerLocked, GoTo, Lock, Unlock
<1>1. ASSUME NEW r \in Requests, Append_Call(c, r)
      PROVE  IInv'
  BY <1>1 DEF Append_Call
<1>2. CASE Append_Lock(c)
  BY <1>2 DEF Append_Lock
<1>3. CASE Append_Size(c)
  BY <1>3 DEF Append_Size
<1>4. CASE Append_Full(c)
  BY <1>4 DEF Append_Full
<1>5. CASE Append_PushBack(c)
  <2>1. m_queuelocker = c /\ \A t \in Threads \ {c} : pc[t] \notin Locked
    BY <1>5 DEF Append_PushBack
  <2>2. Len(m_workqueue') <= m_max_requests + 1
    BY <1>5 DEF Append_PushBack
  <2> QED
    BY <1>5, <2>1, <2>2 DEF Append_PushBack
<1>6. CASE Append_Unlock(c)
  BY <1>6 DEF Append_Unlock
<1>7. CASE Append_Post(c)
  BY <1>7 DEF Append_Post, SemPost
<1> QED
  BY <1>1, <1>2, <1>3, <1>4, <1>5, <1>6, <1>7 DEF CallerStep

(***************************************************************************)
(* Every step of run keeps the invariant.                                  *)
(***************************************************************************)
LEMMA WorkerIInv ==
  ASSUME IInv, NEW w \in Workers,
         CreateThread(w) \/ WorkerStep(w) \/ Run_WaitInterrupted(w)
  PROVE  IInv'
<1> USE ThreadAssumption, SizeAssumption
    DEF IInv, TypeOK, LockInv, QueueBound, RoomToPush, TakesWhatItSaw, HoldsRequest,
        Threads, MayBeRequest, CallerPCs, WorkerPCs,
        Locked, CallerLocked, WorkerLocked, GoTo, Lock, Unlock
<1>1. CASE CreateThread(w)
  BY <1>1 DEF CreateThread
<1>2. CASE Run_Loop(w)
  BY <1>2 DEF Run_Loop
<1>3. CASE Run_Wait(w)
  BY <1>3 DEF Run_Wait, SemWait
<1>4. CASE Run_WaitInterrupted(w)
  BY <1>4 DEF Run_WaitInterrupted
<1>5. CASE Run_Lock(w)
  BY <1>5 DEF Run_Lock
<1>6. CASE Run_Empty(w)
  BY <1>6 DEF Run_Empty
<1>7. CASE Run_Miss(w)
  BY <1>7 DEF Run_Miss
<1>8. CASE Run_Front(w)
  <2>1. Head(m_workqueue) \in Requests
    BY <1>8 DEF Run_Front
  <2> QED
    BY <1>8, <2>1 DEF Run_Front
<1>9. CASE Run_PopFront(w)
  <2>1. m_queuelocker = w /\ \A t \in Threads \ {w} : pc[t] \notin Locked
    BY <1>9 DEF Run_PopFront
  <2>2. Len(m_workqueue') < Len(m_workqueue) /\ m_workqueue' \in Seq(Requests)
    BY <1>9 DEF Run_PopFront
  <2> QED
    BY <1>9, <2>1, <2>2 DEF Run_PopFront
<1>10. CASE Run_Unlock(w)
  BY <1>10 DEF Run_Unlock
<1>11. CASE Run_Processed(w)
  BY <1>11 DEF Run_Processed
<1> QED
  BY <1>1, <1>2, <1>3, <1>4, <1>5, <1>6, <1>7, <1>8, <1>9, <1>10, <1>11 DEF WorkerStep

(* Every step preserves it. *)
LEMMA StepIInv == IInv /\ [Next]_vars => IInv'
<1> SUFFICES ASSUME IInv, [Next]_vars
             PROVE  IInv'
  OBVIOUS
<1> USE DEF IInv, TypeOK, LockInv, QueueBound, RoomToPush, TakesWhatItSaw, HoldsRequest
<1>1. CASE CreateThreadFails
  BY <1>1 DEF CreateThreadFails
<1>2. CASE Stop
  BY <1>2 DEF Stop
<1>3. CASE DestroyMembers
  BY <1>3 DEF DestroyMembers
<1>4. CASE UNCHANGED vars
  BY <1>4 DEF vars
<1> QED
  BY <1>1, <1>2, <1>3, <1>4, CallerIInv, WorkerIInv DEF Next

(* So every state of every behaviour satisfies it. *)
LEMMA Invariance == Spec => []IInv
  BY InitIInv, StepIInv, PTL DEF Spec

(* The types of the variables are kept by every step of every thread.      *)
THEOREM TypeCorrect == Spec => []TypeOK
<1>1. IInv => TypeOK
  BY DEF IInv
<1> QED
  BY <1>1, Invariance, PTL

(* m_queuelocker is owned by exactly the thread that is between its lock() *)
(* and its unlock(), on all paths of append and run.                       *)
THEOREM LockCorrect == Spec => []LockInv
<1>1. IInv => LockInv
  BY DEF IInv
<1> QED
  BY <1>1, Invariance, PTL

(* No more than m_max_requests + 1 requests ever wait, for any number of   *)
(* callers.                                                                *)
THEOREM QueueBounded == Spec => []QueueBound
<1>1. IInv => QueueBound
  BY DEF IInv
<1> QED
  BY <1>1, Invariance, PTL

(* front() and pop_front() are never called on an empty list, and remove   *)
(* the request that is then processed.                                     *)
THEOREM TakesCorrect == Spec => []TakesWhatItSaw
<1>1. IInv => TakesWhatItSaw
  BY DEF IInv
<1> QED
  BY <1>1, Invariance, PTL

-----------------------------------------------------------------------------
(***************************************************************************)
(* No lost wake-up.  The bound is inductive relative to IInv; what remains *)
(* is to count the threads on their way before and after each step.        *)
(***************************************************************************)
LEMMA OnTheirWay ==
  /\ IsFiniteSet(Woken) /\ Cardinality(Woken) \in Nat
  /\ IsFiniteSet(Unposted) /\ Cardinality(Unposted) \in Nat
  BY ThreadAssumption, FS_Subset, FS_CardinalityType DEF Woken, Unposted

(* A step of a caller loses no wakeup. *)
LEMMA CallerWakes ==
  ASSUME IInv, NoLostWakeup, NEW c \in Callers,
         CallerStep(c) \/ \E r \in Requests : Append_Call(c, r)
  PROVE  NoLostWakeup'
<1> USE ThreadAssumption, OnTheirWay DEF IInv, TypeOK, NoLostWakeup, Threads, GoTo
<1>1. Woken' = Woken
  BY DEF Woken, CallerStep, Append_Call, Append_Lock, Append_Size, Append_Full,
         Append_PushBack, Append_Unlock, Append_Post
<1>2. CASE Append_PushBack(c)
  <2>1. Unposted' = Unposted \cup {c} /\ c \notin Unposted
    BY <1>2 DEF Append_PushBack, Unposted
  <2>2. Cardinality(Unposted') = Cardinality(Unposted) + 1
    BY <2>1, FS_AddElement
  <2>3. Len(m_workqueue') = Len(m_workqueue) + 1 /\ m_queuestat' = m_queuestat
    BY <1>2 DEF Append_PushBack
  <2> QED
    BY <1>1, <2>2, <2>3
<1>3. CASE Append_Post(c)
  <2>1. Unposted' = Unposted \ {c} /\ c \in Unposted
    BY <1>3 DEF Append_Post, Unposted
  <2>2. Cardinality(Unposted') = Cardinality(Unposted) - 1
    BY <2>1, FS_RemoveElement
  <2>3. m_workqueue' = m_workqueue /\ m_queuestat' = m_queuestat + 1
    BY <1>3 DEF Append_Post, SemPost
  <2> QED
    BY <1>1, <2>2, <2>3
<1>4. CASE \/ Append_Lock(c) \/ Append_Size(c) \/ Append_Full(c) \/ Append_Unlock(c)
           \/ \E r \in Requests : Append_Call(c, r)
  <2>1. Unposted' = Unposted
    BY <1>4 DEF Unposted, Append_Call, Append_Lock, Append_Size, Append_Full, Append_Unlock
  <2>2. m_workqueue' = m_workqueue /\ m_queuestat' = m_queuestat
    BY <1>4 DEF Append_Call, Append_Lock, Append_Size, Append_Full, Append_Unlock
  <2> QED
    BY <1>1, <2>1, <2>2
<1> QED
  BY <1>2, <1>3, <1>4 DEF CallerStep

(* Nor does a step of a worker, one that a signal interrupts included. *)
LEMMA WorkerWakes ==
  ASSUME IInv, NoLostWakeup, NEW w \in Workers,
         CreateThread(w) \/ WorkerStep(w) \/ Run_WaitInterrupted(w)
  PROVE  NoLostWakeup'
<1> USE ThreadAssumption, OnTheirWay DEF IInv, TypeOK, NoLostWakeup, Threads, GoTo
<1>1. Unposted' = Unposted
  BY DEF Unposted, CreateThread, Run_WaitInterrupted, WorkerStep, Run_Loop, Run_Wait,
         Run_Lock, Run_Empty, Run_Miss, Run_Front, Run_PopFront, Run_Unlock, Run_Processed
<1>2. CASE Run_Wait(w) \/ Run_WaitInterrupted(w)
  <2>1. Woken' = Woken \cup {w} /\ w \notin Woken
    BY <1>2 DEF Run_Wait, Run_WaitInterrupted, Woken
  <2>2. Cardinality(Woken') = Cardinality(Woken) + 1
    BY <2>1, FS_AddElement
  <2>3. m_workqueue' = m_workqueue /\ m_queuestat' \in {m_queuestat, m_queuestat - 1}
    BY <1>2 DEF Run_Wait, Run_WaitInterrupted, SemWait
  <2> QED
    BY <1>1, <2>2, <2>3
<1>3. CASE Run_Empty(w) /\ m_workqueue = <<>>
  <2>1. m_workqueue' = <<>> /\ m_queuestat' = m_queuestat
    BY <1>3 DEF Run_Empty
  <2>2. Cardinality(Woken') \in Nat
    BY FS_Subset, FS_CardinalityType DEF Woken
  <2> QED
    BY <1>1, <2>1, <2>2
<1>4. CASE Run_PopFront(w)
  <2>1. Woken' = Woken \ {w} /\ w \in Woken
    BY <1>4 DEF Run_PopFront, Woken
  <2>2. Cardinality(Woken') = Cardinality(Woken) - 1
    BY <2>1, FS_RemoveElement
  <2>3. Len(m_workqueue') = Len(m_workqueue) - 1 /\ m_queuestat' = m_queuestat
    BY <1>4 DEF Run_PopFront, TakesWhatItSaw
  <2> QED
    BY <1>1, <2>2, <2>3
<1>5. CASE \/ CreateThread(w) \/ Run_Loop(w) \/ Run_Lock(w) \/ Run_Miss(w) \/ Run_Front(w)
           \/ Run_Unlock(w) \/ Run_Processed(w) \/ (Run_Empty(w) /\ m_workqueue # <<>>)
  <2>1. Woken' = Woken
    BY <1>5 DEF Woken, CreateThread, Run_Loop, Run_Lock, Run_Empty, Run_Miss, Run_Front,
                Run_Unlock, Run_Processed
  <2>2. m_workqueue' = m_workqueue /\ m_queuestat' = m_queuestat
    BY <1>5 DEF CreateThread, Run_Loop, Run_Lock, Run_Empty, Run_Miss, Run_Front,
                Run_Unlock, Run_Processed
  <2> QED
    BY <1>1, <2>1, <2>2
<1> QED
  BY <1>2, <1>3, <1>4, <1>5 DEF WorkerStep

(* Every waiting request has a token in the semaphore, a worker on its way *)
(* or a caller about to post: no interleaving of unlock, post and wait,    *)
(* and no failed wait, loses a wake-up.                                    *)
THEOREM NoWakeupLost == Spec => []NoLostWakeup
<1>1. Init => NoLostWakeup
  BY OnTheirWay DEF Init, NoLostWakeup
<1>2. IInv /\ NoLostWakeup /\ [Next]_vars => NoLostWakeup'
  <2> SUFFICES ASSUME IInv, NoLostWakeup, [Next]_vars
               PROVE  NoLostWakeup'
    OBVIOUS
  <2>1. CASE CreateThreadFails \/ Stop \/ DestroyMembers \/ UNCHANGED vars
    BY <2>1 DEF NoLostWakeup, Woken, Unposted, CreateThreadFails, Stop, DestroyMembers, vars
  <2> QED
    BY <2>1, CallerWakes, WorkerWakes DEF Next
<1> QED
  BY <1>1, <1>2, Invariance, PTL DEF Spec

-----------------------------------------------------------------------------
(***************************************************************************)
(* The pool implements WorkQueue: push_back is Submit, pop_front is Start, *)
(* the return of process() is Finish, and every other step is invisible.   *)
(***************************************************************************)
LEMMA CallerImplements ==
  ASSUME IInv, NEW c \in Callers,
         CallerStep(c) \/ \E r \in Requests : Append_Call(c, r)
  PROVE  [WQ!Next]_(WQ!vars)
<1> USE ThreadAssumption DEF IInv, TypeOK, Threads, GoTo
<1>1. Running' = Running
  BY DEF Running, CallerStep, Append_Call, Append_Lock, Append_Size, Append_Full,
         Append_PushBack, Append_Unlock, Append_Post
<1>2. CASE Append_PushBack(c)
  <2>1. request[c] \in Requests /\ Len(m_workqueue) < m_max_requests + 1
    BY <1>2, SizeAssumption DEF Append_PushBack, RoomToPush
  <2>2. WQ!Submit(request[c])
    BY <1>1, <1>2, <2>1 DEF Append_PushBack, WQ!Submit
  <2> QED
    BY <2>1, <2>2 DEF WQ!Next
<1>3. CASE ~Append_PushBack(c)
  <2>1. m_workqueue' = m_workqueue
    BY <1>3 DEF CallerStep, Append_Call, Append_Lock, Append_Size, Append_Full,
                Append_Unlock, Append_Post
  <2> QED
    BY <1>1, <2>1 DEF WQ!vars
<1> QED
  BY <1>2, <1>3

(* A step of a worker takes a request from the work queue, or changes      *)
(* nothing of it.                                                          *)
LEMMA WorkerImplements ==
  ASSUME IInv, NEW w \in Workers,
         CreateThread(w) \/ WorkerStep(w) \/ Run_WaitInterrupted(w)
  PROVE  [WQ!Next]_(WQ!vars)
<1> USE ThreadAssumption, RequestAssumption DEF IInv, TypeOK, Threads, GoTo
<1>1. CASE Run_PopFront(w)
  <2>1. m_workqueue # <<>> /\ request[w] = Head(m_workqueue)
    BY <1>1 DEF Run_PopFront, TakesWhatItSaw
  <2>2. Running[w] = NoRequest /\ Running' = [Running EXCEPT ![w] = Head(m_workqueue)]
    BY <1>1, <2>1 DEF Run_PopFront, Running
  <2>3. WQ!Start(w)
    BY <1>1, <2>1, <2>2 DEF Run_PopFront, WQ!Start
  <2> QED
    BY <2>3 DEF WQ!Next
<1>2. CASE Run_Processed(w)
  <2>1. Running[w] # NoRequest /\ Running' = [Running EXCEPT ![w] = NoRequest]
    BY <1>2 DEF Run_Processed, Running, HoldsRequest
  <2>2. WQ!Finish(w)
    BY <1>2, <2>1 DEF Run_Processed, WQ!Finish
  <2> QED
    BY <2>2 DEF WQ!Next
<1>3. CASE ~Run_PopFront(w) /\ ~Run_Processed(w)
  <2>1. m_workqueue' = m_workqueue
    BY <1>3 DEF WorkerStep, CreateThread, Run_Loop, Run_Wait, Run_WaitInterrupted, Run_Lock,
                Run_Empty, Run_Miss, Run_Front, Run_Unlock
  <2>2. Running' = Running
    BY <1>3 DEF Running, WorkerStep, CreateThread, Run_Loop, Run_Wait, Run_WaitInterrupted,
                Run_Lock, Run_Empty, Run_Miss, Run_Front, Run_Unlock
  <2> QED
    BY <2>1, <2>2 DEF WQ!vars
<1> QED
  BY <1>1, <1>2, <1>3

(* append and run implement the bounded first-in first-out work queue:     *)
(* each accepted request goes to exactly one worker, in order.             *)
THEOREM PoolImplementsWorkQueue == Spec => ImplementsWorkQueue
<1>1. Init => WQ!Init
  BY ThreadAssumption DEF Init, WQ!Init, Running, Threads
<1>2. IInv /\ [Next]_vars => [WQ!Next]_(WQ!vars)
  <2> SUFFICES ASSUME IInv, [Next]_vars
               PROVE  [WQ!Next]_(WQ!vars)
    OBVIOUS
  <2>1. CASE CreateThreadFails \/ Stop \/ DestroyMembers \/ UNCHANGED vars
    BY <2>1 DEF CreateThreadFails, Stop, DestroyMembers, vars, WQ!vars, Running
  <2> QED
    BY <2>1, CallerImplements, WorkerImplements DEF Next
<1> QED
  BY <1>1, <1>2, Invariance, PTL DEF Spec, WQ!Spec, ImplementsWorkQueue
=============================================================================
