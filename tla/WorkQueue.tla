----------------------------- MODULE WorkQueue -----------------------------
(***************************************************************************)
(* What the thread pool promises to the code that uses it: requests wait   *)
(* in one first-in first-out queue of bounded length, every worker runs at *)
(* most one request at a time, and a request that was accepted is handed   *)
(* to exactly one worker.  No lock, semaphore or program counter appears   *)
(* here: ThreadPool implements this with them.                             *)
(***************************************************************************)
EXTENDS Naturals, Sequences

CONSTANTS
    Workers,    \* the threads that run requests
    Requests,   \* the requests (Http_Conn objects in the server)
    Capacity,   \* how many requests may wait at once
    NoRequest   \* a worker that runs nothing

VARIABLES
    pending,    \* the requests accepted and not yet handed to a worker
    running     \* running[w]: the request worker w holds

vars == <<pending, running>>

Init ==
    /\ pending = <<>>
    /\ running = [w \in Workers |-> NoRequest]

(* A request is accepted while there is room. *)
Submit(r) ==
    /\ Len(pending) < Capacity
    /\ pending' = Append(pending, r)
    /\ UNCHANGED running

(* The oldest request is handed to a worker that runs none. *)
Start(w) ==
    /\ pending # <<>>
    /\ running[w] = NoRequest
    /\ pending' = Tail(pending)
    /\ running' = [running EXCEPT ![w] = Head(pending)]

Finish(w) ==
    /\ running[w] # NoRequest
    /\ running' = [running EXCEPT ![w] = NoRequest]
    /\ UNCHANGED pending

Next ==
    \/ \E r \in Requests : Submit(r)
    \/ \E w \in Workers : Start(w) \/ Finish(w)

Spec == Init /\ [][Next]_vars
=============================================================================
