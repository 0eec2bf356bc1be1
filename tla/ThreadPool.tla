----------------------------- MODULE ThreadPool -----------------------------
(***************************************************************************)
(* practice/threadpool/threadPool.h with the sem and locker of             *)
(* practice/lock/locker.cpp: callers append requests to m_workqueue under  *)
(* m_queuelocker and post m_queuestat; workers wait on m_queuestat, take   *)
(* the front request under m_queuelocker and run it.                       *)
(*                                                                         *)
(* Every access to shared memory is a step of its own, so that the threads *)
(* interleave wherever the machine lets them.  What request->process()     *)
(* does is the subject of WebServer; here it takes some time and returns.  *)
(*                                                                         *)
(* A definition Mutant_D_... is not part of the model: it is the           *)
(* definition D that follows it with one fault put in, and no property     *)
(* would be worth checking that did not notice.                            *)
(***************************************************************************)
EXTENDS Naturals, Sequences, FiniteSets

CONSTANTS
    Callers,        \* threads that call append (the event loop)
    Workers,        \* the m_thread_number threads that execute run()
    Requests,       \* the objects whose addresses are appended
    m_max_requests,
    MaxSurplus,     \* bound: no interrupted wait above this semaphore count
    Nobody,         \* the owner of a free lock
    NoRequest       \* NULL

ASSUME ThreadAssumption ==
    /\ IsFiniteSet(Callers) /\ IsFiniteSet(Workers)
    /\ Callers \cap Workers = {}
    /\ Nobody \notin Callers \cup Workers
ASSUME RequestAssumption == NoRequest \notin Requests
ASSUME SizeAssumption == m_max_requests \in Nat \ {0} /\ MaxSurplus \in Nat

VARIABLES
    m_workqueue,    \* std::list<T*>
    m_queuelocker,  \* the thread that owns the lock, or Nobody
    m_queuestat,    \* the count of the semaphore
    m_stop,
    destroyed,      \* the members of the pool no longer exist
    pc,             \* where each thread is
    request         \* the local variable or parameter "request" of each thread

vars == <<m_workqueue, m_queuelocker, m_queuestat, m_stop, destroyed, pc, request>>

Threads == Callers \cup Workers
MayBeRequest == Requests \cup {NoRequest}

CallerPCs == {"idle", "append", "size", "push_back", "unlock", "full", "post"}
WorkerPCs == {"new", "loop", "wait", "acquire", "empty", "front", "pop_front",
              "release", "miss", "process", "exit"}

(* The places between a lock() and the matching unlock(). *)
CallerLocked == {"size", "push_back", "unlock", "full"}
WorkerLocked == {"empty", "front", "pop_front", "release", "miss"}

Locked == CallerLocked \cup WorkerLocked

Init ==
    /\ m_workqueue = <<>>
    /\ m_queuelocker = Nobody
    /\ m_queuestat = 0
    /\ m_stop = FALSE
    /\ destroyed = FALSE
    /\ pc = [t \in Threads |-> IF t \in Callers THEN "idle" ELSE "new"]
    /\ request = [t \in Threads |-> NoRequest]

(* Thread t, at "from", goes on to "to".  No step is defined once the      *)
(* memory of the pool is gone.                                             *)
GoTo(t, from, to) ==
    /\ ~destroyed
    /\ pc[t] = from
    /\ pc' = [pc EXCEPT ![t] = to]

(***************************************************************************)
(* locker and sem                                                          *)
(***************************************************************************)
Lock(t) ==
    /\ m_queuelocker = Nobody
    /\ m_queuelocker' = t

Unlock(t) == m_queuelocker' = Nobody

Mutant_SemPost_Binary == m_queuestat' = 1

SemPost == m_queuestat' = m_queuestat + 1

Mutant_SemWait_NoTest == m_queuestat' = m_queuestat - 1

SemWait ==
    /\ m_queuestat > 0
    /\ m_queuestat' = m_queuestat - 1

(***************************************************************************)
(* The constructor starts the workers one by one; they run at once.  When  *)
(* pthread_create fails it throws, and the members are destroyed under the *)
(* threads already started.                                                *)
(***************************************************************************)
Constructed == \A w \in Workers : pc[w] # "new"

CreateThread(w) ==
    /\ GoTo(w, "new", "loop")
    /\ UNCHANGED <<m_workqueue, m_queuelocker, m_queuestat, m_stop, destroyed, request>>

CreateThreadFails ==
    /\ ~Constructed
    /\ ~destroyed
    /\ destroyed' = TRUE
    /\ UNCHANGED <<m_workqueue, m_queuelocker, m_queuestat, m_stop, pc, request>>

(***************************************************************************)
(* append                                                                  *)
(***************************************************************************)
Append_Call(c, r) ==
    /\ Constructed
    /\ ~m_stop
    /\ GoTo(c, "idle", "append")
    /\ request' = [request EXCEPT ![c] = r]
    /\ UNCHANGED <<m_workqueue, m_queuelocker, m_queuestat, m_stop, destroyed>>

Append_Lock(c) ==
    /\ GoTo(c, "append", "size")
    /\ Lock(c)
    /\ UNCHANGED <<m_workqueue, m_queuestat, m_stop, destroyed, request>>

Mutant_Append_Size_UnlocksEarly(c) ==
    /\ \/ /\ Len(m_workqueue) > m_max_requests
          /\ GoTo(c, "size", "full")
          /\ UNCHANGED m_queuelocker
       \/ /\ ~(Len(m_workqueue) > m_max_requests)
          /\ GoTo(c, "size", "push_back")
          /\ Unlock(c)
    /\ UNCHANGED <<m_workqueue, m_queuestat, m_stop, destroyed, request>>

(* The test is "size() > m_max_requests": the queue may hold one more      *)
(* request than m_max_requests.                                            *)
Append_Size(c) ==
    /\ \/ Len(m_workqueue) > m_max_requests /\ GoTo(c, "size", "full")
       \/ ~(Len(m_workqueue) > m_max_requests) /\ GoTo(c, "size", "push_back")
    /\ UNCHANGED <<m_workqueue, m_queuelocker, m_queuestat, m_stop, destroyed, request>>

Mutant_Append_Full_KeepsLock(c) ==
    /\ GoTo(c, "full", "idle")
    /\ request' = [request EXCEPT ![c] = NoRequest]
    /\ UNCHANGED <<m_workqueue, m_queuelocker, m_queuestat, m_stop, destroyed>>

(* unlock(); return false; *)
Append_Full(c) ==
    /\ GoTo(c, "full", "idle")
    /\ Unlock(c)
    /\ request' = [request EXCEPT ![c] = NoRequest]
    /\ UNCHANGED <<m_workqueue, m_queuestat, m_stop, destroyed>>

Append_PushBack(c) ==
    /\ GoTo(c, "push_back", "unlock")
    /\ m_workqueue' = Append(m_workqueue, request[c])
    /\ UNCHANGED <<m_queuelocker, m_queuestat, m_stop, destroyed, request>>

Append_Unlock(c) ==
    /\ GoTo(c, "unlock", "post")
    /\ Unlock(c)
    /\ UNCHANGED <<m_workqueue, m_queuestat, m_stop, destroyed, request>>

(* m_queuestat.post(), after the lock was released; return true; *)
Append_Post(c) ==
    /\ GoTo(c, "post", "idle")
    /\ SemPost
    /\ request' = [request EXCEPT ![c] = NoRequest]
    /\ UNCHANGED <<m_workqueue, m_queuelocker, m_stop, destroyed>>

(***************************************************************************)
(* run                                                                     *)
(***************************************************************************)
Run_Loop(w) ==
    /\ \/ ~m_stop /\ GoTo(w, "loop", "wait")
       \/ m_stop /\ GoTo(w, "loop", "exit")
    /\ UNCHANGED <<m_workqueue, m_queuelocker, m_queuestat, m_stop, destroyed, request>>

Run_Wait(w) ==
    /\ GoTo(w, "wait", "acquire")
    /\ SemWait
    /\ UNCHANGED <<m_workqueue, m_queuelocker, m_stop, destroyed, request>>

(* sem_wait may fail (EINTR); run() ignores what sem::wait returns and     *)
(* goes on without having taken a token.                                   *)
Run_WaitInterrupted(w) ==
    /\ m_queuestat <= MaxSurplus
    /\ GoTo(w, "wait", "acquire")
    /\ UNCHANGED <<m_workqueue, m_queuelocker, m_queuestat, m_stop, destroyed, request>>

Run_Lock(w) ==
    /\ GoTo(w, "acquire", "empty")
    /\ Lock(w)
    /\ UNCHANGED <<m_workqueue, m_queuestat, m_stop, destroyed, request>>

Run_Empty(w) ==
    /\ \/ m_workqueue = <<>> /\ GoTo(w, "empty", "miss")
       \/ m_workqueue # <<>> /\ GoTo(w, "empty", "front")
    /\ UNCHANGED <<m_workqueue, m_queuelocker, m_queuestat, m_stop, destroyed, request>>

(* unlock(); continue; *)
Run_Miss(w) ==
    /\ GoTo(w, "miss", "loop")
    /\ Unlock(w)
    /\ UNCHANGED <<m_workqueue, m_queuestat, m_stop, destroyed, request>>

Mutant_Run_Front_Last(w) ==
    /\ GoTo(w, "front", "pop_front")
    /\ request' = [request EXCEPT ![w] = m_workqueue[Len(m_workqueue)]]
    /\ UNCHANGED <<m_workqueue, m_queuelocker, m_queuestat, m_stop, destroyed>>

Run_Front(w) ==
    /\ GoTo(w, "front", "pop_front")
    /\ request' = [request EXCEPT ![w] = Head(m_workqueue)]
    /\ UNCHANGED <<m_workqueue, m_queuelocker, m_queuestat, m_stop, destroyed>>

Run_PopFront(w) ==
    /\ GoTo(w, "pop_front", "release")
    /\ m_workqueue' = Tail(m_workqueue)
    /\ UNCHANGED <<m_queuelocker, m_queuestat, m_stop, destroyed, request>>

(* The callers pass users + sockfd, so "if(!request)" never holds.         *)
Run_Unlock(w) ==
    /\ GoTo(w, "release", "process")
    /\ Unlock(w)
    /\ UNCHANGED <<m_workqueue, m_queuestat, m_stop, destroyed, request>>

(* request->process() returns and the loop starts over. *)
Run_Processed(w) ==
    /\ GoTo(w, "process", "loop")
    /\ request' = [request EXCEPT ![w] = NoRequest]
    /\ UNCHANGED <<m_workqueue, m_queuelocker, m_queuestat, m_stop, destroyed>>

(***************************************************************************)
(* The destructor, run by the thread that was the only caller: its body    *)
(* sets m_stop, posts nothing and joins nobody; then the members go.       *)
(***************************************************************************)
Stop ==
    /\ Constructed
    /\ ~destroyed
    /\ ~m_stop
    /\ \A c \in Callers : pc[c] = "idle"
    /\ m_stop' = TRUE
    /\ UNCHANGED <<m_workqueue, m_queuelocker, m_queuestat, destroyed, pc, request>>

DestroyMembers ==
    /\ m_stop
    /\ ~destroyed
    /\ destroyed' = TRUE
    /\ UNCHANGED <<m_workqueue, m_queuelocker, m_queuestat, m_stop, pc, request>>

-----------------------------------------------------------------------------
CallerStep(c) ==
    \/ Append_Lock(c) \/ Append_Size(c) \/ Append_Full(c)
    \/ Append_PushBack(c) \/ Append_Unlock(c) \/ Append_Post(c)

WorkerStep(w) ==
    \/ Run_Loop(w) \/ Run_Wait(w) \/ Run_Lock(w) \/ Run_Empty(w) \/ Run_Miss(w)
    \/ Run_Front(w) \/ Run_PopFront(w) \/ Run_Unlock(w) \/ Run_Processed(w)

Next ==
    \/ \E w \in Workers : CreateThread(w) \/ WorkerStep(w) \/ Run_WaitInterrupted(w)
    \/ \E c \in Callers : CallerStep(c) \/ \E r \in Requests : Append_Call(c, r)
    \/ CreateThreadFails
    \/ Stop
    \/ DestroyMembers

Spec == Init /\ [][Next]_vars

(* A runnable thread runs; a thread that finds the lock free again and     *)
(* again gets it; nobody has to call append or to interrupt a wait.        *)
Fairness ==
    /\ \A w \in Workers :
        WF_vars(CreateThread(w)) /\ WF_vars(WorkerStep(w)) /\ SF_vars(Run_Lock(w))
    /\ \A c \in Callers : WF_vars(CallerStep(c)) /\ SF_vars(Append_Lock(c))

FairSpec == Spec /\ Fairness

-----------------------------------------------------------------------------
TypeOK ==
    /\ m_workqueue \in Seq(Requests)
    /\ m_queuelocker \in Threads \cup {Nobody}
    /\ m_queuestat \in Nat
    /\ m_stop \in BOOLEAN
    /\ destroyed \in BOOLEAN
    /\ pc \in [Threads -> CallerPCs \cup WorkerPCs]
    /\ \A c \in Callers : pc[c] \in CallerPCs
    /\ \A w \in Workers : pc[w] \in WorkerPCs
    /\ request \in [Threads -> MayBeRequest]
    /\ \A c \in Callers : pc[c] # "idle" => request[c] \in Requests

(* The lock is held by exactly the thread that is between lock() and       *)
(* unlock(), on every path through append and run: m_workqueue is never    *)
(* touched by two threads at once and no path leaves it locked.            *)
LockInv ==
    \A t \in Threads : pc[t] \in Locked <=> m_queuelocker = t

(* At most m_max_requests + 1 requests wait: the size test and push_back   *)
(* are one critical section, whoever appends.                              *)
QueueBound == Len(m_workqueue) <= m_max_requests + 1

(* A worker that decided to take a request finds it still there, and the   *)
(* request it read is the one it removes: front() and pop_front() on an    *)
(* empty list are undefined.                                               *)
TakesWhatItSaw ==
    \A w \in Workers :
        /\ pc[w] \in {"front", "pop_front"} => m_workqueue # <<>>
        /\ pc[w] = "pop_front" => request[w] = Head(m_workqueue)

(* The workers that have come back from wait() and not yet taken a request *)
(* or found none, and the callers whose push is not posted yet.            *)
Woken == {w \in Workers : pc[w] \in {"acquire", "empty", "front", "pop_front"}}
Unposted == {c \in Callers : pc[c] \in {"unlock", "post"}}

(* No lost wake-up: every waiting request has a semaphore token, a worker  *)
(* on its way or a caller about to post, although the post comes after the *)
(* unlock and interrupted waits take requests without taking a token.      *)
NoLostWakeup ==
    Len(m_workqueue) <= m_queuestat + Cardinality(Woken) + Cardinality(Unposted)

(* The request worker w is responsible for: from pop_front on, until       *)
(* process() has returned.                                                 *)
Running ==
    [w \in Workers |->
        IF pc[w] \in {"release", "process"} THEN request[w] ELSE NoRequest]

WQ == INSTANCE WorkQueue WITH
        Capacity <- m_max_requests + 1,
        pending  <- m_workqueue,
        running  <- Running

(* The pool implements the bounded work queue: accepted requests are       *)
(* handed out once each, in order, to workers that run nothing else.       *)
ImplementsWorkQueue == WQ!Spec

InQueue(r) == \E i \in DOMAIN m_workqueue : m_workqueue[i] = r

(* A request in the queue is eventually run, unless the pool is destroyed. *)
EveryRequestIsRun ==
    \A r \in Requests :
        InQueue(r) ~> \/ \E w \in Workers : pc[w] = "process" /\ request[w] = r
                      \/ m_stop
=============================================================================
