-------------------------- MODULE WebServer_proofs --------------------------
(***************************************************************************)
(* Proofs about WebServer for any number of descriptors, workers, timers   *)
(* and chunks, any queue of the pool and any length of a response, and for *)
(* any order of the steps of all threads: a descriptor may be used again,  *)
(* and a timer called, while a worker still has the connection.  The       *)
(* invariant FdInv(fd) speaks of one connection; it holds of every         *)
(* connection that was not overtaken itself, whatever happened to others.  *)
(***************************************************************************)
EXTENDS WebServer, FiniteSetTheorems, SequenceTheorems, WellFoundedInduction, TLAPS

(***************************************************************************)
(* The inductive invariant: what holds of the program as a whole ...       *)
(***************************************************************************)

(* Who has a connection in hand: a worker except while it waits for one,   *)
(* the event loop between the start and the end of a handler or callback.  *)
Holding ==
    /\ \A w \in Workers : running[w] = NoFd <=> pc[w] = "take"
    /\ sockfd = NoFd <=> pc[Main] \in {"epoll_wait", "events", "tick"}
    /\ \A t \in live : user_data[t] \in Fds

PcOK ==
    /\ pc \in [Threads -> MainPCs \cup WorkerPCs]
    /\ pc[Main] \in MainPCs
    /\ \A w \in Workers : pc[w] \in WorkerPCs

TypeInv == TypeOK /\ PcOK /\ Holding

(* The timer that tick() calls is still there when the call is over, and   *)
(* belongs to the connection that the call closes.                         *)
TickInv ==
    /\ tmp # NULL => /\ tmp \in live /\ user_data[tmp] = sockfd
                     /\ pc[Main] \in {"close", "forget", "load", "store", "fired"}
    /\ pc[Main] = "fired" => tmp # NULL

(* The events that are left are handled before tick() runs. *)
BatchInv ==
    \A fd \in Polled : events[fd] # "none" => pc[Main] \notin {"epoll_wait", "tick"} /\ tmp = NULL

(* An object has its own descriptor or none, and only del_timer has an     *)
(* argument.                                                               *)
ObjectInv ==
    /\ \A fd \in Fds : m_sockfd[fd] \in {fd, NoFd}
    /\ \A x \in Threads : arg[x] # NULL => pc[x] = "del_timer"

(***************************************************************************)
(* ... and what holds of a connection fd.                                  *)
(***************************************************************************)

(* The timers of fd: it points at its timer, and nobody else does. *)
Timed(fd) ==
    \A t \in live : user_data[t] = fd =>
        /\ timer[fd] = t
        /\ \A other \in Fds \ {fd} : timer[other] # t
        /\ \A x \in Threads : arg[x] = t => Conn(x) = fd

HasTimer(fd) == timer[fd] \in live /\ user_data[timer[fd]] = fd
NoTimer(fd) == \A t \in live : user_data[t] # fd

(* The socket, the object and the timer belong together. *)
Open(fd) == IsOpen(fd) /\ m_sockfd[fd] = fd /\ HasTimer(fd)
Closed(fd) == ~IsOpen(fd) /\ m_sockfd[fd] = NoFd /\ timer[fd] = NULL

(* There is no response, or a part of it is left to send. *)
Idle(fd) == bytes_to_send[fd] = 0 /\ bytes_have_send[fd] = 0
Sending(fd) == bytes_to_send[fd] > 0 /\ bytes_to_send[fd] + bytes_have_send[fd] = ResponseParts

(* What thread x has done to its connection fd, by where it is.            *)
At(x, fd) ==
    /\ pc[x] \in {"init_load", "init_store", "init_timer"} =>
           interest[fd] = "in" /\ m_sockfd[fd] = fd /\ timer[fd] = NULL /\ NoTimer(fd)
    /\ pc[x] \in {"read", "append", "parse", "arm_in"} =>
           Open(fd) /\ interest[fd] = "off" /\ Idle(fd)
    /\ pc[x] = "write" => Open(fd) /\ interest[fd] = "off" /\ Sending(fd)
    /\ pc[x] = "written" =>
           Open(fd) /\ interest[fd] = "off" /\ bytes_have_send[fd] = ResponseParts
    /\ pc[x] = "close" => Open(fd) /\ (x # Main => interest[fd] = "off")
    /\ pc[x] = "forget" => ~IsOpen(fd) /\ m_sockfd[fd] = fd /\ HasTimer(fd)
    /\ pc[x] \in {"load", "store", "timer", "fired", "del_timer"} =>
           ~IsOpen(fd) /\ m_sockfd[fd] = NoFd /\ HasTimer(fd)
    /\ pc[x] = "del_timer" => arg[x] = timer[fd]
    /\ pc[x] = "clear" => ~IsOpen(fd) /\ m_sockfd[fd] = NoFd /\ NoTimer(fd)
    /\ pc[x] = "arm_out" => (Open(fd) /\ interest[fd] = "off" /\ Sending(fd)) \/ Closed(fd)

InQueue(fd) == \E i \in DOMAIN m_workqueue : m_workqueue[i] = fd
Once(fd) == \A i, j \in DOMAIN m_workqueue : m_workqueue[i] = fd /\ m_workqueue[j] = fd => i = j

(* Nobody but thread x has fd, in hand or in the queue. *)
Alone(x, fd) == ~InQueue(fd) /\ \A y \in Threads \ {x} : Conn(y) # fd

(* A connection in the queue waits with its bytes; one in nobody's hands   *)
(* is closed, watched, or in the batch that epoll_wait returned.           *)
Waiting(fd) == events[fd] = "none" /\ Once(fd) /\ Open(fd) /\ interest[fd] = "off" /\ Idle(fd)
Free(fd) ==
    \/ events[fd] = "none" /\ Closed(fd)
    \/ events[fd] = "none" /\ Open(fd) /\ interest[fd] = "in" /\ Idle(fd)
    \/ events[fd] = "none" /\ Open(fd) /\ interest[fd] = "out" /\ Sending(fd)
    \/ /\ events[fd] # "none" /\ Open(fd) /\ interest[fd] = "off"
       /\ events[fd] = "in" => Idle(fd)
       /\ events[fd] = "out" => Sending(fd)

(* A connection is in one place, in the state that belongs to the place. *)
Held(fd) ==
    /\ \A x \in Threads : Conn(x) = fd => Alone(x, fd) /\ events[fd] = "none" /\ At(x, fd)
    /\ InQueue(fd) => Waiting(fd)
    /\ ~InQueue(fd) /\ (\A x \in Threads : Conn(x) # fd) => Free(fd)

FdInv(fd) == Held(fd) /\ Timed(fd)

(* The invariant. *)
IInv ==
    /\ TypeInv /\ TickInv /\ BatchInv /\ ObjectInv
    /\ \A fd \in Undisturbed : FdInv(fd)
    /\ NoUseAfterFree

(* A set of numbers that is not empty has a lowest one. *)
LEMMA Lowest ==
  ASSUME NEW S \in SUBSET Nat, S # {}
  PROVE  Min(S) \in S /\ \A y \in S : Min(S) <= y
<1>1. PICK x \in S : \A y \in S : ~(<<y, x>> \in OpToRel(<, Nat))
  BY WFMin, NatLessThanWellFounded
<1>2. ASSUME NEW y \in S PROVE x <= y
  <2>1. x \in Nat /\ y \in Nat /\ <<y, x>> \notin OpToRel(<, Nat)
    BY <1>1
  <2>2. x \in Nat /\ y \in Nat /\ ~(y < x)
    BY <2>1 DEF OpToRel
  <2> QED
    BY <2>2
<1> QED
  BY <1>2 DEF Min

(* The number that accept() returns is free. *)
LEMMA AcceptedFd ==
  ASSUME FreeFds # {}
  PROVE  Min(FreeFds) \in Fds /\ interest[Min(FreeFds)] = "none"
<1>1. FreeFds \in SUBSET Nat
  BY FdAssumption DEF FreeFds
<1>2. Min(FreeFds) \in FreeFds
  BY <1>1, Lowest
<1> QED
  BY <1>2 DEF FreeFds

(* NoFd, the listening socket and the pipe are no connections.             *)
LEMMA NoConnections ==
  NoFd \notin Fds /\ listen_fd \notin Fds /\ sig_pipe \notin Fds
  BY FdAssumption DEF NoFd

(* What the read buffer holds after the chunks of s. *)
LEMMA ReadsType ==
  ASSUME NEW b, NEW s \in Seq(Chunks), NEW data \in Reads(b, s)
  PROVE  data \in BufStates
<1>1. Len(s) \in 0..Len(s)
  OBVIOUS
<1> QED
  BY <1>1 DEF Reads

(***************************************************************************)
(* Type correctness.                                                       *)
(***************************************************************************)

(* The types hold at the start. *)
LEMMA InitTypeInv == Init => TypeInv
<1> SUFFICES ASSUME Init PROVE TypeInv
  OBVIOUS
<1> USE FdAssumption, ThreadAssumption, TimerAssumption, SizeAssumption, NoConnections
    DEF Init, Threads, MainPCs, WorkerPCs, ClosePCs
<1>1. TypeOK
  <2>1. /\ inbox \in [Fds -> Seq(Chunks)]
        /\ m_workqueue \in Seq(Fds)
        /\ running \in [Workers -> Fds \cup {NoFd}]
    BY DEF Pool!Init
  <2>2. PcOK
    BY DEF PcOK
  <2>3. /\ buf \in [Fds -> BufStates]
        /\ bytes_to_send \in [Fds -> 0..ResponseParts]
        /\ bytes_have_send \in [Fds -> Nat]
        /\ loaded \in [Threads -> Int]
    BY DEF BufStates
  <2>4. /\ interest \in [Fds -> {"none", "off", "in", "out"}]
        /\ peer \in [Fds -> {"up", "gone"}]
        /\ full \in [Fds -> BOOLEAN]
        /\ events \in [Polled -> {"none", "in", "out", "hup"}]
    OBVIOUS
  <2>5. /\ m_sockfd \in [Fds -> Fds \cup {NoFd}]
        /\ timer \in [Fds -> Timers \cup {NULL}]
        /\ user_data \in [Timers -> Fds \cup {NoFd}]
        /\ arg \in [Threads -> Timers \cup {NULL}]
    OBVIOUS
  <2> QED
    BY <2>1, <2>2, <2>3, <2>4, <2>5 DEF TypeOK, PcOK
<1>2. PcOK
  BY DEF PcOK
<1>3. Holding
  BY DEF Holding, Pool!Init
<1> QED
  BY <1>1, <1>2, <1>3 DEF TypeInv

(* A thread goes from one place to another. *)
LEMMA PcStep ==
  ASSUME PcOK, NEW x \in Threads, NEW from, NEW to, GoTo(x, from, to),
         to \in IF x = Main THEN MainPCs ELSE WorkerPCs
  PROVE  /\ PcOK'
         /\ pc[x] = from /\ pc'[x] = to
         /\ \A y \in Threads \ {x} : pc'[y] = pc[y]
  BY ThreadAssumption DEF PcOK, GoTo, Threads

(* Clients and the kernel keep the types. *)
LEMMA ClientTypeInv ==
  ASSUME TypeInv, ClientStep \/ SignalHandler
  PROVE  TypeInv'
<1> USE DEF TypeInv, TypeOK, PcOK, Holding, kernel, object, wheel, pool, loop, history
<1>1. CASE Connect
  BY <1>1 DEF Connect
<1>2. ASSUME NEW fd \in Fds, NEW chunk \in Chunks, Send(fd, chunk)
      PROVE  TypeInv'
  <2>1. inbox' \in [Fds -> Seq(Chunks)]
    BY <1>2 DEF Send
  <2> QED
    BY <1>2, <2>1 DEF Send
<1>3. ASSUME NEW fd \in Fds, Leave(fd)
      PROVE  TypeInv'
  BY <1>3 DEF Leave
<1>4. ASSUME NEW fd \in Fds, Drain(fd)
      PROVE  TypeInv'
  BY <1>4 DEF Drain
<1>5. CASE SignalHandler
  BY <1>5 DEF SignalHandler
<1> QED
  BY <1>1, <1>2, <1>3, <1>4, <1>5 DEF ClientStep

(* close_conn() and timer_func() keep the types, whichever thread runs.    *)
LEMMA CloseTypeInv ==
  ASSUME TypeInv, NEW x \in Threads, CloseConn(x)
  PROVE  TypeInv'
<1> USE NoConnections, ThreadAssumption, TimerAssumption
    DEF TypeInv, Holding, Threads, kernel, object, wheel, pool, loop, history, GoTo
<1>1. CASE Close_Socket(x)
  <2>1. PcOK'
    BY <1>1, PcStep DEF Close_Socket, IsOpen, AfterSocket, AfterClose, EndOf, MainPCs, WorkerPCs, ClosePCs
  <2>2. TypeOK'
    BY <1>1, <2>1 DEF TypeOK, PcOK, Close_Socket, IsOpen, AfterSocket, AfterClose, EndOf
  <2>3. Holding'
    BY <1>1 DEF PcOK, Close_Socket, IsOpen, AfterSocket, AfterClose, EndOf
  <2> QED
    BY <2>1, <2>2, <2>3 DEF TypeInv
<1>2. CASE Close_Forget(x)
  <2>1. PcOK'
    BY <1>2, PcStep DEF Close_Forget, MainPCs, WorkerPCs, ClosePCs
  <2>2. TypeOK'
    BY <1>2, <2>1 DEF TypeOK, PcOK, Close_Forget
  <2>3. Holding'
    BY <1>2 DEF PcOK, Close_Forget
  <2> QED
    BY <2>1, <2>2, <2>3 DEF TypeInv
<1>3. CASE Close_Load(x)
  <2>1. PcOK'
    BY <1>3, PcStep DEF Close_Load, MainPCs, WorkerPCs, ClosePCs
  <2>2. TypeOK'
    BY <1>3, <2>1 DEF TypeOK, PcOK, Close_Load
  <2>3. Holding'
    BY <1>3 DEF PcOK, Close_Load
  <2> QED
    BY <2>1, <2>2, <2>3 DEF TypeInv
<1>4. CASE Close_Store(x)
  <2>1. PcOK'
    BY <1>4, PcStep DEF Close_Store, AfterSocket, AfterClose, EndOf, MainPCs, WorkerPCs, ClosePCs
  <2>2. TypeOK'
    BY <1>4, <2>1 DEF TypeOK, PcOK, Close_Store, AfterSocket, AfterClose, EndOf
  <2>3. Holding'
    BY <1>4 DEF PcOK, Close_Store, AfterSocket, AfterClose, EndOf
  <2> QED
    BY <2>1, <2>2, <2>3 DEF TypeInv
<1>5. CASE Close_Timer(x)
  <2>0. Conn(x) \in Fds
    BY <1>5 DEF Close_Timer, Conn, TypeOK
  <2>1. PcOK'
    BY <1>5, PcStep DEF Close_Timer, AfterSocket, AfterClose, EndOf, MainPCs, WorkerPCs, ClosePCs
  <2>2. TypeOK'
    BY <1>5, <2>1, <2>0 DEF TypeOK, PcOK, Close_Timer, AfterSocket, AfterClose, EndOf
  <2>3. Holding'
    BY <1>5, <2>0 DEF PcOK, Close_Timer, AfterSocket, AfterClose, EndOf
  <2> QED
    BY <2>1, <2>2, <2>3 DEF TypeInv
<1>6. CASE Close_DelTimer(x)
  <2>0. \A t \in live' : user_data'[t] \in Fds
    BY <1>6 DEF Close_DelTimer, Freed, TypeOK
  <2>1. PcOK'
    BY <1>6, PcStep DEF Close_DelTimer, Freed, MainPCs, WorkerPCs, ClosePCs
  <2>2. TypeOK'
    BY <1>6, <2>1, <2>0 DEF TypeOK, PcOK, Close_DelTimer, Freed
  <2>3. Holding'
    BY <1>6, <2>0 DEF PcOK, Close_DelTimer, Freed
  <2> QED
    BY <2>1, <2>2, <2>3 DEF TypeInv
<1>7. CASE Close_Clear(x)
  <2>1. PcOK'
    BY <1>7, PcStep DEF Close_Clear, AfterSocket, AfterClose, EndOf, MainPCs, WorkerPCs, ClosePCs
  <2>2. TypeOK'
    BY <1>7, <2>1 DEF TypeOK, PcOK, Close_Clear, AfterSocket, AfterClose, EndOf
  <2>3. Holding'
    BY <1>7 DEF PcOK, Close_Clear, AfterSocket, AfterClose, EndOf
  <2> QED
    BY <2>1, <2>2, <2>3 DEF TypeInv
<1> QED
  BY <1>1, <1>2, <1>3, <1>4, <1>5, <1>6, <1>7 DEF CloseConn

(* So do the steps of a worker. *)
LEMMA WorkerTypeInv ==
  ASSUME TypeInv, NEW w \in Workers, WorkerStep(w)
  PROVE  TypeInv'
<1> USE NoConnections, ThreadAssumption, TimerAssumption
    DEF TypeInv, Holding, Threads, kernel, object, wheel, pool, loop, history, GoTo
<1>1. CASE Take(w)
  <2>0. /\ m_workqueue' \in Seq(Fds) /\ Head(m_workqueue) \in Fds
        /\ running \in [Workers -> Fds \cup {NoFd}]
    BY <1>1 DEF Take, Pool!Start, TypeOK
  <2>1. PcOK'
    BY <1>1, PcStep DEF Take, Pool!Start, MainPCs, WorkerPCs, ClosePCs
  <2>2. TypeOK'
    BY <1>1, <2>1, <2>0 DEF TypeOK, PcOK, Take, Pool!Start
  <2>3. Holding'
    BY <1>1, <2>0 DEF PcOK, Take, Pool!Start
  <2> QED
    BY <2>1, <2>2, <2>3 DEF TypeInv
<1>2. CASE Parse_Incomplete(w)
  <2>1. PcOK'
    BY <1>2, PcStep DEF Parse_Incomplete, MainPCs, WorkerPCs, ClosePCs
  <2>2. TypeOK'
    BY <1>2, <2>1 DEF TypeOK, PcOK, Parse_Incomplete
  <2>3. Holding'
    BY <1>2 DEF PcOK, Parse_Incomplete
  <2> QED
    BY <2>1, <2>2, <2>3 DEF TypeInv
<1>3. CASE Parse_Request(w)
  <2>0. ResponseParts \in 0..ResponseParts
    BY SizeAssumption
  <2>1. PcOK'
    BY <1>3, PcStep DEF Parse_Request, MainPCs, WorkerPCs, ClosePCs
  <2>2. TypeOK'
    BY <1>3, <2>1, <2>0 DEF TypeOK, PcOK, Parse_Request
  <2>3. Holding'
    BY <1>3, <2>0 DEF PcOK, Parse_Request
  <2> QED
    BY <2>1, <2>2, <2>3 DEF TypeInv
<1>4. CASE Parse_BadRequest(w)
  <2>1. PcOK'
    BY <1>4, PcStep DEF Parse_BadRequest, MainPCs, WorkerPCs, ClosePCs
  <2>2. TypeOK'
    BY <1>4, <2>1 DEF TypeOK, PcOK, Parse_BadRequest
  <2>3. Holding'
    BY <1>4 DEF PcOK, Parse_BadRequest
  <2> QED
    BY <2>1, <2>2, <2>3 DEF TypeInv
<1>5. CASE Rearm(w)
  <2>0. running \in [Workers -> Fds \cup {NoFd}]
    BY DEF TypeOK
  <2>1. PcOK'
    BY <1>5, PcStep DEF Rearm, Pool!Finish, ModFd, IsOpen, MainPCs, WorkerPCs, ClosePCs
  <2>2. TypeOK'
    BY <1>5, <2>1, <2>0 DEF TypeOK, PcOK, Rearm, Pool!Finish, ModFd, IsOpen
  <2>3. Holding'
    BY <1>5, <2>0 DEF PcOK, Rearm, Pool!Finish, ModFd, IsOpen
  <2> QED
    BY <2>1, <2>2, <2>3 DEF TypeInv
<1>6. CASE CloseConn(w)
  BY <1>6, CloseTypeInv
<1> QED
  BY <1>6, <1>1, <1>2, <1>3, <1>4, <1>5 DEF WorkerStep

(* So do the handlers of the event loop ... *)
LEMMA HandlerTypeInv ==
  ASSUME TypeInv, \/ EpollWait \/ DealConnection_Fails \/ DealConnection_Refuses \/ DealConnection_Accepts
         \/ Init_Load \/ Init_Store \/ (\E t \in Timers : Init_Timer(t))
         \/ DealSignal
         \/ (\E fd \in Fds : DealClose(fd) \/ DealRead(fd) \/ DealWrite(fd))
  PROVE  TypeInv'
<1> USE NoConnections, ThreadAssumption, TimerAssumption
    DEF TypeInv, Holding, Threads, kernel, object, wheel, pool, loop, history, GoTo
<1>1. CASE EpollWait
  <2>1. PcOK'
    BY <1>1, PcStep DEF EpollWait, Event, Polled, MainPCs, WorkerPCs, ClosePCs
  <2>2. TypeOK'
    BY <1>1, <2>1 DEF TypeOK, PcOK, EpollWait, Event, Polled
  <2>3. Holding'
    BY <1>1 DEF PcOK, EpollWait, Event, Polled
  <2> QED
    BY <2>1, <2>2, <2>3 DEF TypeInv
<1>2. CASE DealConnection_Fails
  <2>1. PcOK'
    BY <1>2, PcStep DEF DealConnection_Fails, Handles, MainPCs, WorkerPCs, ClosePCs
  <2>2. TypeOK'
    BY <1>2, <2>1 DEF TypeOK, PcOK, DealConnection_Fails, Handles
  <2>3. Holding'
    BY <1>2 DEF PcOK, DealConnection_Fails, Handles
  <2> QED
    BY <2>1, <2>2, <2>3 DEF TypeInv
<1>3. CASE DealConnection_Refuses
  <2>1. PcOK'
    BY <1>3, PcStep DEF DealConnection_Refuses, Handles, MainPCs, WorkerPCs, ClosePCs
  <2>2. TypeOK'
    BY <1>3, <2>1 DEF TypeOK, PcOK, DealConnection_Refuses, Handles
  <2>3. Holding'
    BY <1>3 DEF PcOK, DealConnection_Refuses, Handles
  <2> QED
    BY <2>1, <2>2, <2>3 DEF TypeInv
<1>4. CASE DealConnection_Accepts
  <2>0. Min(FreeFds) \in Fds
    BY <1>4, AcceptedFd DEF DealConnection_Accepts
  <2>1. PcOK'
    BY <1>4, PcStep DEF DealConnection_Accepts, Handles, MainPCs, WorkerPCs, ClosePCs
  <2>2. TypeOK'
    BY <1>4, <2>1, <2>0 DEF TypeOK, PcOK, DealConnection_Accepts, Handles
  <2>3. Holding'
    BY <1>4, <2>0 DEF PcOK, DealConnection_Accepts, Handles
  <2> QED
    BY <2>1, <2>2, <2>3 DEF TypeInv
<1>5. CASE Init_Load
  <2>1. PcOK'
    BY <1>5, PcStep DEF Init_Load, MainPCs, WorkerPCs, ClosePCs
  <2>2. TypeOK'
    BY <1>5, <2>1 DEF TypeOK, PcOK, Init_Load
  <2>3. Holding'
    BY <1>5 DEF PcOK, Init_Load
  <2> QED
    BY <2>1, <2>2, <2>3 DEF TypeInv
<1>6. CASE Init_Store
  <2>1. PcOK'
    BY <1>6, PcStep DEF Init_Store, MainPCs, WorkerPCs, ClosePCs
  <2>2. TypeOK'
    BY <1>6, <2>1 DEF TypeOK, PcOK, Init_Store
  <2>3. Holding'
    BY <1>6 DEF PcOK, Init_Store
  <2> QED
    BY <2>1, <2>2, <2>3 DEF TypeInv
<1>7. ASSUME NEW t \in Timers, Init_Timer(t)
      PROVE  TypeInv'
  <2>0. /\ "empty" \in BufStates /\ 0 \in 0..ResponseParts
        /\ \A u \in live' : user_data'[u] \in Fds
    BY <1>7, SizeAssumption DEF BufStates, Init_Timer, TypeOK
  <2>1. PcOK'
    BY <1>7, PcStep DEF Init_Timer, Reset, EndOf, MainPCs, WorkerPCs, ClosePCs
  <2>2. TypeOK'
    BY <1>7, <2>1, <2>0 DEF TypeOK, PcOK, Init_Timer, Reset, EndOf
  <2>3. Holding'
    BY <1>7, <2>0 DEF PcOK, Init_Timer, Reset, EndOf
  <2> QED
    BY <2>1, <2>2, <2>3 DEF TypeInv
<1>8. CASE DealSignal
  <2>1. PcOK'
    BY <1>8, PcStep DEF DealSignal, Handles, MainPCs, WorkerPCs, ClosePCs
  <2>2. TypeOK'
    BY <1>8, <2>1 DEF TypeOK, PcOK, DealSignal, Handles
  <2>3. Holding'
    BY <1>8 DEF PcOK, DealSignal, Handles
  <2> QED
    BY <2>1, <2>2, <2>3 DEF TypeInv
<1>9. ASSUME NEW fd \in Fds, DealClose(fd)
      PROVE  TypeInv'
  <2>1. PcOK'
    BY <1>9, PcStep DEF DealClose, Handles, MainPCs, WorkerPCs, ClosePCs
  <2>2. TypeOK'
    BY <1>9, <2>1 DEF TypeOK, PcOK, DealClose, Handles
  <2>3. Holding'
    BY <1>9 DEF PcOK, DealClose, Handles
  <2> QED
    BY <2>1, <2>2, <2>3 DEF TypeInv
<1>10. ASSUME NEW fd \in Fds, DealRead(fd)
      PROVE  TypeInv'
  <2>1. PcOK'
    BY <1>10, PcStep DEF DealRead, Handles, TimerUpdate, MainPCs, WorkerPCs, ClosePCs
  <2>2. TypeOK'
    BY <1>10, <2>1 DEF TypeOK, PcOK, DealRead, Handles, TimerUpdate
  <2>3. Holding'
    BY <1>10 DEF PcOK, DealRead, Handles, TimerUpdate
  <2> QED
    BY <2>1, <2>2, <2>3 DEF TypeInv
<1>11. ASSUME NEW fd \in Fds, DealWrite(fd)
      PROVE  TypeInv'
  <2>1. PcOK'
    BY <1>11, PcStep DEF DealWrite, Handles, TimerUpdate, MainPCs, WorkerPCs, ClosePCs
  <2>2. TypeOK'
    BY <1>11, <2>1 DEF TypeOK, PcOK, DealWrite, Handles, TimerUpdate
  <2>3. Holding'
    BY <1>11 DEF PcOK, DealWrite, Handles, TimerUpdate
  <2> QED
    BY <2>1, <2>2, <2>3 DEF TypeInv
<1> QED
  BY <1>1, <1>2, <1>3, <1>4, <1>5, <1>6, <1>7, <1>8, <1>9, <1>10, <1>11

(* ... and reading, writing and tick().                                    *)
LEMMA LoopTypeInv ==
  ASSUME TypeInv, \/ Read \/ AppendToPool \/ Write \/ EndOfEvents
         \/ (\E t \in Timers : Tick_Fire(t)) \/ Tick_Fired \/ Tick_End
  PROVE  TypeInv'
<1> USE NoConnections, ThreadAssumption, TimerAssumption
    DEF TypeInv, Holding, Threads, kernel, object, wheel, pool, loop, history, GoTo
<1>1. CASE Read
  <2>0. buf' \in [Fds -> BufStates]
    <3> DEFINE got == IF IsOpen(m_sockfd[sockfd]) THEN inbox[m_sockfd[sockfd]] ELSE <<>>
    <3>1. got \in Seq(Chunks)
      BY DEF TypeOK, IsOpen
    <3>2. PICK data \in Reads(buf[sockfd], got) : buf' = [buf EXCEPT ![sockfd] = data]
      BY <1>1 DEF Read
    <3>3. data \in BufStates
      BY <3>1, <3>2, ReadsType
    <3> QED
      BY <3>2, <3>3 DEF TypeOK
  <2>1. PcOK'
    BY <1>1, PcStep DEF Read, IsOpen, MainPCs, WorkerPCs, ClosePCs
  <2>2. TypeOK'
    BY <1>1, <2>1, <2>0 DEF TypeOK, PcOK, Read, IsOpen
  <2>3. Holding'
    BY <1>1, <2>0 DEF PcOK, Read, IsOpen
  <2> QED
    BY <2>1, <2>2, <2>3 DEF TypeInv
<1>2. CASE AppendToPool
  <2>1. PcOK'
    BY <1>2, PcStep DEF AppendToPool, Pool!Submit, EndOf, MainPCs, WorkerPCs, ClosePCs
  <2>2. TypeOK'
    BY <1>2, <2>1 DEF TypeOK, PcOK, AppendToPool, Pool!Submit, EndOf
  <2>3. Holding'
    BY <1>2 DEF PcOK, AppendToPool, Pool!Submit, EndOf
  <2> QED
    BY <2>1, <2>2, <2>3 DEF TypeInv
<1>3. CASE Write_Fails
  <2>1. PcOK'
    BY <1>3, PcStep DEF Write_Fails, Writing, MainPCs, WorkerPCs, ClosePCs
  <2>2. TypeOK'
    BY <1>3, <2>1 DEF TypeOK, PcOK, Write_Fails, Writing
  <2>3. Holding'
    BY <1>3 DEF PcOK, Write_Fails, Writing
  <2> QED
    BY <2>1, <2>2, <2>3 DEF TypeInv
<1>4. CASE Write_Blocks
  <2>1. PcOK'
    BY <1>4, PcStep DEF Write_Blocks, Writing, EndOf, ModFd, IsOpen, MainPCs, WorkerPCs, ClosePCs
  <2>2. TypeOK'
    BY <1>4, <2>1 DEF TypeOK, PcOK, Write_Blocks, Writing, EndOf, ModFd, IsOpen
  <2>3. Holding'
    BY <1>4 DEF PcOK, Write_Blocks, Writing, EndOf, ModFd, IsOpen
  <2> QED
    BY <2>1, <2>2, <2>3 DEF TypeInv
<1>11. CASE Write_Takes
  <2>0. /\ bytes_to_send' \in [Fds -> 0..ResponseParts]
        /\ bytes_have_send' \in [Fds -> Nat]
    <3>1. sockfd \in Fds
      BY <1>11 DEF Write_Takes, Writing, TypeOK
    <3>2. /\ bytes_to_send[sockfd] \in 0..ResponseParts /\ bytes_to_send[sockfd] > 0
          /\ bytes_have_send[sockfd] \in Nat
      BY <1>11, <3>1 DEF Write_Takes, TypeOK
    <3>3. bytes_to_send[sockfd] - 1 \in 0..ResponseParts /\ bytes_have_send[sockfd] + 1 \in Nat
      BY <3>2, SizeAssumption
    <3>4. /\ bytes_to_send' = [bytes_to_send EXCEPT ![sockfd] = bytes_to_send[sockfd] - 1]
          /\ bytes_have_send' = [bytes_have_send EXCEPT ![sockfd] = bytes_have_send[sockfd] + 1]
      BY <1>11 DEF Write_Takes
    <3> QED
      BY <3>3, <3>4 DEF TypeOK
  <2>1. PcOK'
    BY <1>11, PcStep DEF Write_Takes, Writing, AfterPart, MainPCs, WorkerPCs, ClosePCs
  <2>4. full' \in [Fds -> BOOLEAN]
    BY <1>11 DEF Write_Takes, TypeOK
  <2>5. UNCHANGED <<backlog, interest, inbox, peer, alarm, m_sockfd, timer, buf, m_user_count,
                    wheel, pool, loop, loaded, arg, crashed, history>>
    BY <1>11 DEF Write_Takes
  <2>2. TypeOK'
    BY <2>0, <2>1, <2>4, <2>5 DEF TypeOK, PcOK
  <2>3. Holding'
    BY <1>11, <2>0 DEF PcOK, Write_Takes, Writing, AfterPart
  <2> QED
    BY <2>1, <2>2, <2>3 DEF TypeInv
<1>12. CASE Write_Nothing
  <2>0. "empty" \in BufStates /\ 0 \in 0..ResponseParts
    BY SizeAssumption DEF BufStates
  <2>1. PcOK'
    BY <1>12, PcStep DEF Write_Nothing, Writing, EndOf, ModFd, IsOpen, Reset, MainPCs, WorkerPCs, ClosePCs
  <2>2. TypeOK'
    BY <1>12, <2>1, <2>0 DEF TypeOK, PcOK, Write_Nothing, Writing, EndOf, ModFd, IsOpen, Reset
  <2>3. Holding'
    BY <1>12, <2>0 DEF PcOK, Write_Nothing, Writing, EndOf, ModFd, IsOpen, Reset
  <2> QED
    BY <2>1, <2>2, <2>3 DEF TypeInv
<1>5. CASE Write_KeepsAlive
  <2>0. "empty" \in BufStates /\ 0 \in 0..ResponseParts
    BY SizeAssumption DEF BufStates
  <2>1. PcOK'
    BY <1>5, PcStep DEF Write_KeepsAlive, Writing, EndOf, ModFd, IsOpen, Reset, MainPCs, WorkerPCs, ClosePCs
  <2>4. /\ buf' \in [Fds -> BufStates] /\ bytes_to_send' \in [Fds -> 0..ResponseParts]
        /\ bytes_have_send' \in [Fds -> Nat] /\ sockfd' \in Fds \cup {NoFd}
    <3>1. \/ UNCHANGED <<buf, bytes_to_send, bytes_have_send, sockfd>>
          \/ Reset(sockfd) /\ sockfd' = NoFd
      BY <1>5 DEF Write_KeepsAlive, EndOf
    <3>2. CASE UNCHANGED <<buf, bytes_to_send, bytes_have_send, sockfd>>
      BY <3>2 DEF TypeOK
    <3>3. CASE Reset(sockfd) /\ sockfd' = NoFd
      BY <2>0, <3>3 DEF TypeOK, Reset
    <3> QED
      BY <3>1, <3>2, <3>3
  <2>5. interest' \in [Fds -> {"none", "off", "in", "out"}]
    BY <1>5 DEF TypeOK, Write_KeepsAlive, ModFd
  <2>6. UNCHANGED <<backlog, inbox, peer, full, alarm, m_sockfd, timer, m_user_count, wheel,
                    pool, events, timeout, tmp, loaded, arg, crashed, history>>
    BY <1>5 DEF Write_KeepsAlive
  <2>2. TypeOK'
    BY <2>1, <2>4, <2>5, <2>6 DEF TypeOK, PcOK
  <2>3. Holding'
    BY <1>5, <2>0 DEF PcOK, Write_KeepsAlive, Writing, EndOf, ModFd, IsOpen, Reset
  <2> QED
    BY <2>1, <2>2, <2>3 DEF TypeInv
<1>6. CASE Write_EndsConnection
  <2>0. 0 \in 0..ResponseParts
    BY SizeAssumption
  <2>1. PcOK'
    BY <1>6, PcStep DEF Write_EndsConnection, Writing, ModFd, IsOpen, MainPCs, WorkerPCs, ClosePCs
  <2>2. TypeOK'
    BY <1>6, <2>1, <2>0 DEF TypeOK, PcOK, Write_EndsConnection, Writing, ModFd, IsOpen
  <2>3. Holding'
    BY <1>6, <2>0 DEF PcOK, Write_EndsConnection, Writing, ModFd, IsOpen
  <2> QED
    BY <2>1, <2>2, <2>3 DEF TypeInv
<1>7. CASE EndOfEvents
  <2>1. PcOK'
    BY <1>7, PcStep DEF EndOfEvents, MainPCs, WorkerPCs, ClosePCs
  <2>2. TypeOK'
    BY <1>7, <2>1 DEF TypeOK, PcOK, EndOfEvents
  <2>3. Holding'
    BY <1>7 DEF PcOK, EndOfEvents
  <2> QED
    BY <2>1, <2>2, <2>3 DEF TypeInv
<1>8. ASSUME NEW t \in Timers, Tick_Fire(t)
      PROVE  TypeInv'
  <2>1. PcOK'
    BY <1>8, PcStep DEF Tick_Fire, MainPCs, WorkerPCs, ClosePCs
  <2>2. TypeOK'
    BY <1>8, <2>1 DEF TypeOK, PcOK, Tick_Fire
  <2>3. Holding'
    BY <1>8 DEF PcOK, Tick_Fire
  <2> QED
    BY <2>1, <2>2, <2>3 DEF TypeInv
<1>9. CASE Tick_Fired
  <2>0. \A t \in live' : user_data'[t] \in Fds
    BY <1>9 DEF Tick_Fired, Freed, TypeOK
  <2>1. PcOK'
    BY <1>9, PcStep DEF Tick_Fired, Freed, MainPCs, WorkerPCs, ClosePCs
  <2>2. TypeOK'
    BY <1>9, <2>1, <2>0 DEF TypeOK, PcOK, Tick_Fired, Freed
  <2>3. Holding'
    BY <1>9, <2>0 DEF PcOK, Tick_Fired, Freed
  <2> QED
    BY <2>1, <2>2, <2>3 DEF TypeInv
<1>10. CASE Tick_End
  <2>1. PcOK'
    BY <1>10, PcStep DEF Tick_End, MainPCs, WorkerPCs, ClosePCs
  <2>2. TypeOK'
    BY <1>10, <2>1 DEF TypeOK, PcOK, Tick_End
  <2>3. Holding'
    BY <1>10 DEF PcOK, Tick_End
  <2> QED
    BY <2>1, <2>2, <2>3 DEF TypeInv
<1> QED
  BY <1>1, <1>2, <1>3, <1>4, <1>5, <1>6, <1>7, <1>8, <1>9, <1>10, <1>11, <1>12 DEF Write

(***************************************************************************)
(* The types of the variables are kept by every step of every thread, of   *)
(* the clients and of the kernel.                                          *)
(***************************************************************************)
LEMMA StepTypeInv == TypeInv /\ [Next]_vars => TypeInv'
<1> SUFFICES ASSUME TypeInv, [Next]_vars PROVE TypeInv'
  OBVIOUS
<1>1. CASE MainStep
  BY <1>1, HandlerTypeInv, LoopTypeInv, CloseTypeInv DEF MainStep, Threads
<1>2. CASE \E w \in Workers : WorkerStep(w)
  BY <1>2, WorkerTypeInv
<1>3. CASE ClientStep \/ SignalHandler
  BY <1>3, ClientTypeInv
<1>4. CASE UNCHANGED vars
  BY <1>4 DEF vars, kernel, object, wheel, pool, loop, history, TypeInv, TypeOK, PcOK, Holding
<1> QED
  BY <1>1, <1>2, <1>3, <1>4 DEF Next, Undefined

(* And so they always do. *)
LEMMA TypeInvariance == Spec => []TypeInv
  BY InitTypeInv, StepTypeInv, PTL DEF Spec

(* Every variable keeps to its type: the pc of a thread to the steps that  *)
(* thread can take, the members of a connection to what its handlers put   *)
(* there, and the argument of del_timer to timers that a connection had.   *)
THEOREM TypeCorrect == Spec => []TypeOK
<1>1. TypeInv => TypeOK
  BY DEF TypeInv
<1> QED
  BY <1>1, TypeInvariance, PTL

(***************************************************************************)
(* The program as a whole.                                                 *)
(***************************************************************************)
Base == TypeInv /\ TickInv /\ BatchInv /\ ObjectInv

(* A thread that is on its way through a handler, a callback or process()  *)
(* has a connection, and the others have none.                             *)
LEMMA InHand ==
  ASSUME TypeInv
  PROVE  /\ \A x \in Threads : Conn(x) \in Fds \cup {NoFd}
         /\ \A w \in Workers : pc[w] # "take" => Conn(w) \in Fds
         /\ \A w \in Workers : pc[w] = "take" => Conn(w) = NoFd
         /\ pc[Main] \notin {"epoll_wait", "events", "tick"} => Conn(Main) \in Fds
         /\ pc[Main] \in {"epoll_wait", "events", "tick"} => Conn(Main) = NoFd
         /\ Conn(Main) = sockfd /\ \A w \in Workers : Conn(w) = running[w]
  BY ThreadAssumption DEF TypeInv, TypeOK, Holding, Conn, Threads

(* tick() keeps its timer: nobody else deletes one while it runs.          *)
LEMMA StepTickInv ==
  ASSUME Base, [Next]_vars
  PROVE  TickInv'
<1> USE NoConnections, ThreadAssumption, TimerAssumption
    DEF Base, TickInv, kernel, object, wheel, pool, loop, history, GoTo
<1>0. /\ pc \in [Threads -> MainPCs \cup WorkerPCs] /\ Main \in Threads
      /\ user_data \in [Timers -> Fds \cup {NoFd}] /\ live \subseteq Timers
  BY DEF TypeInv, PcOK, TypeOK, Threads
<1>1. ASSUME NEW w \in Workers, WorkerStep(w) PROVE TickInv'
  <2>1. UNCHANGED <<tmp, sockfd>> /\ pc'[Main] = pc[Main]
    BY <1>0, <1>1 DEF WorkerStep, Take, Parse_Incomplete, Parse_Request, Parse_BadRequest, Rearm,
       CloseConn, Close_Socket, Close_Forget, Close_Load, Close_Store, Close_Timer, Close_DelTimer,
       Close_Clear, EndOf
  <2>2. UNCHANGED wheel \/ tmp = NULL
    BY <1>1 DEF WorkerStep, Take, Parse_Incomplete, Parse_Request, Parse_BadRequest, Rearm,
       CloseConn, Close_Socket, Close_Forget, Close_Load, Close_Store, Close_Timer, Close_DelTimer,
       Close_Clear, Ticking
  <2> QED
    BY <2>1, <2>2
<1>2. CASE CloseConn(Main)
  <2>1. UNCHANGED tmp
    BY <1>2 DEF CloseConn, Close_Socket, Close_Forget, Close_Load, Close_Store, Close_Timer,
       Close_DelTimer, Close_Clear
  <2>2. CASE Close_Socket(Main) \/ Close_Forget(Main) \/ Close_Load(Main) \/ Close_Store(Main)
    <3>1. UNCHANGED <<tmp, sockfd, wheel>>
      BY <2>2 DEF Close_Socket, Close_Forget, Close_Load, Close_Store
    <3>2. pc'[Main] \in {"forget", "load", "store"} \/ pc'[Main] = AfterSocket(Main)
      BY <1>0, <2>2 DEF Close_Socket, Close_Forget, Close_Load, Close_Store
    <3> QED
      BY <3>1, <3>2 DEF AfterSocket
  <2>3. CASE Close_Timer(Main) \/ Close_DelTimer(Main) \/ Close_Clear(Main)
    <3>1. pc[Main] \in {"timer", "del_timer", "clear"} /\ pc'[Main] # "fired"
      BY <1>0, <2>3 DEF Close_Timer, Close_DelTimer, Close_Clear, AfterClose
    <3> QED
      BY <2>1, <3>1
  <2> QED
    BY <1>2, <2>2, <2>3 DEF CloseConn
<1>3. ASSUME NEW t \in Timers, Tick_Fire(t) PROVE TickInv'
  BY <1>0, <1>3 DEF Tick_Fire
<1>4. CASE Tick_Fired
  BY <1>0, <1>4 DEF Tick_Fired
<1>5. CASE \/ EpollWait \/ DealConnection_Fails \/ DealConnection_Refuses \/ DealConnection_Accepts
           \/ Init_Load \/ Init_Store \/ (\E t \in Timers : Init_Timer(t)) \/ DealSignal
           \/ (\E fd \in Fds : DealClose(fd) \/ DealRead(fd) \/ DealWrite(fd))
           \/ Read \/ AppendToPool \/ EndOfEvents \/ Tick_End
  <2>1. /\ UNCHANGED tmp /\ pc'[Main] # "fired"
        /\ pc[Main] \notin {"close", "forget", "load", "store", "fired"}
    BY <1>0, <1>5 DEF EpollWait, DealConnection_Fails, DealConnection_Refuses, DealConnection_Accepts,
       Init_Load, Init_Store, Init_Timer, DealSignal, DealClose, DealRead, DealWrite, Handles,
       Read, AppendToPool, EndOfEvents, Tick_End
  <2> QED
    BY <2>1
<1>6. CASE Write
  <2>1. /\ UNCHANGED tmp /\ pc'[Main] # "fired" /\ pc[Main] \in {"write", "written"}
    BY <1>0, <1>6 DEF Write, Write_Nothing, Write_Fails, Write_Blocks, Write_Takes, AfterPart,
       Write_KeepsAlive, Write_EndsConnection, Writing
  <2> QED
    BY <2>1
<1>7. CASE ClientStep \/ SignalHandler \/ UNCHANGED vars
  BY <1>7 DEF ClientStep, SignalHandler, Connect, Send, Leave, Drain, vars
<1> QED
  BY <1>1, <1>2, <1>3, <1>4, <1>5, <1>6, <1>7 DEF Next, MainStep, Undefined

(* The batch is handled to the end before epoll_wait or tick() comes next. *)
LEMMA StepBatchInv ==
  ASSUME Base, [Next]_vars
  PROVE  BatchInv'
<1> USE NoConnections, ThreadAssumption, TimerAssumption
    DEF Base, BatchInv, kernel, object, wheel, pool, loop, history, GoTo
<1>0. /\ pc \in [Threads -> MainPCs \cup WorkerPCs] /\ Main \in Threads
      /\ events \in [Polled -> {"none", "in", "out", "hup"}]
  BY DEF TypeInv, PcOK, TypeOK, Threads
<1>1. ASSUME NEW w \in Workers, WorkerStep(w) PROVE BatchInv'
  <2>1. UNCHANGED <<events, tmp>> /\ pc'[Main] = pc[Main]
    BY <1>0, <1>1 DEF WorkerStep, Take, Parse_Incomplete, Parse_Request, Parse_BadRequest, Rearm,
       CloseConn, Close_Socket, Close_Forget, Close_Load, Close_Store, Close_Timer, Close_DelTimer,
       Close_Clear
  <2> QED
    BY <2>1
<1>2. CASE CloseConn(Main)
  <2>1. UNCHANGED <<events, tmp>> /\ pc'[Main] \notin {"epoll_wait", "tick"}
    BY <1>0, <1>2 DEF CloseConn, Close_Socket, Close_Forget, Close_Load, Close_Store, Close_Timer,
       Close_DelTimer, Close_Clear, AfterSocket, AfterClose
  <2> QED
    BY <2>1
<1>3. CASE \/ EndOfEvents \/ Tick_End \/ Tick_Fired \/ \E t \in Timers : Tick_Fire(t)
  <2>1. \A fd \in Polled : events[fd] = "none"
    BY <1>3 DEF EndOfEvents, Tick_End, Tick_Fired, Tick_Fire, TickInv
  <2>2. UNCHANGED events
    BY <1>3 DEF EndOfEvents, Tick_End, Tick_Fired, Tick_Fire
  <2> QED
    BY <2>1, <2>2
<1>4. CASE EpollWait
  BY <1>0, <1>4 DEF EpollWait, TickInv
<1>5. CASE \/ DealConnection_Fails \/ DealConnection_Refuses \/ DealConnection_Accepts
           \/ Init_Load \/ Init_Store \/ (\E t \in Timers : Init_Timer(t)) \/ DealSignal
           \/ (\E fd \in Fds : DealClose(fd) \/ DealRead(fd) \/ DealWrite(fd))
           \/ Read \/ AppendToPool
  <2>1. /\ UNCHANGED tmp /\ pc'[Main] \notin {"epoll_wait", "tick"}
        /\ \A fd \in Polled : events'[fd] # "none" => events[fd] # "none"
    BY <1>0, <1>5 DEF DealConnection_Fails, DealConnection_Refuses, DealConnection_Accepts,
       Init_Load, Init_Store, Init_Timer, DealSignal, DealClose, DealRead, DealWrite, Handles,
       Read, AppendToPool, Polled
  <2> QED
    BY <2>1
<1>6. CASE Write
  <2>1. UNCHANGED <<tmp, events>> /\ pc'[Main] \notin {"epoll_wait", "tick"}
    BY <1>0, <1>6 DEF Write, Write_Nothing, Write_Fails, Write_Blocks, Write_Takes, AfterPart,
       Write_KeepsAlive, Write_EndsConnection, Writing
  <2> QED
    BY <2>1
<1>7. CASE ClientStep \/ SignalHandler \/ UNCHANGED vars
  BY <1>7 DEF ClientStep, SignalHandler, Connect, Send, Leave, Drain, vars
<1> QED
  BY <1>1, <1>2, <1>3, <1>4, <1>5, <1>6, <1>7 DEF Next, MainStep, Undefined

(* An object gets its own descriptor or none, del_timer its argument.      *)
LEMMA StepObjectInv ==
  ASSUME Base, [Next]_vars
  PROVE  ObjectInv'
<1> USE NoConnections, ThreadAssumption, TimerAssumption
    DEF Base, ObjectInv, kernel, object, wheel, pool, loop, history, GoTo
<1>0. /\ pc \in [Threads -> MainPCs \cup WorkerPCs] /\ Main \in Threads /\ Workers \subseteq Threads
      /\ arg \in [Threads -> Timers \cup {NULL}]
      /\ m_sockfd \in [Fds -> Fds \cup {NoFd}]
  BY DEF TypeInv, PcOK, TypeOK, Threads
<1>1. ASSUME NEW x \in Threads, CloseConn(x) PROVE ObjectInv'
  <2>1. CASE Close_Forget(x)
    BY <1>0, <2>1 DEF Close_Forget
  <2>2. CASE Close_Timer(x)
    BY <1>0, <2>2 DEF Close_Timer, AfterClose
  <2>3. CASE Close_DelTimer(x)
    BY <1>0, <2>3 DEF Close_DelTimer
  <2>4. CASE Close_Socket(x) \/ Close_Load(x) \/ Close_Store(x) \/ Close_Clear(x)
    <3>1. /\ UNCHANGED <<m_sockfd, arg>> /\ \A y \in Threads \ {x} : pc'[y] = pc[y]
          /\ pc[x] # "del_timer"
      BY <1>0, <2>4 DEF Close_Socket, Close_Load, Close_Store, Close_Clear
    <3> QED
      BY <3>1
  <2> QED
    BY <1>1, <2>1, <2>2, <2>3, <2>4 DEF CloseConn
<1>2. ASSUME NEW w \in Workers,
             Take(w) \/ Parse_Incomplete(w) \/ Parse_Request(w) \/ Parse_BadRequest(w) \/ Rearm(w)
      PROVE  ObjectInv'
  <2>1. /\ UNCHANGED <<m_sockfd, arg>> /\ \A y \in Threads \ {w} : pc'[y] = pc[y]
        /\ pc[w] # "del_timer"
    BY <1>0, <1>2 DEF Take, Parse_Incomplete, Parse_Request, Parse_BadRequest, Rearm
  <2> QED
    BY <2>1
<1>3. CASE DealConnection_Accepts
  <2>1. Min(FreeFds) \in Fds
    BY <1>3, AcceptedFd DEF DealConnection_Accepts
  <2>2. /\ UNCHANGED arg /\ \A y \in Threads \ {Main} : pc'[y] = pc[y]
        /\ pc[Main] # "del_timer"
    BY <1>0, <1>3 DEF DealConnection_Accepts, Handles
  <2>3. \A fd \in Fds : m_sockfd'[fd] \in {fd, NoFd}
    BY <1>0, <1>3, <2>1 DEF DealConnection_Accepts
  <2> QED
    BY <2>2, <2>3
<1>4. CASE \/ EpollWait \/ DealConnection_Fails \/ DealConnection_Refuses
           \/ Init_Load \/ Init_Store \/ (\E t \in Timers : Init_Timer(t) \/ Tick_Fire(t)) \/ DealSignal
           \/ (\E fd \in Fds : DealClose(fd) \/ DealRead(fd) \/ DealWrite(fd))
           \/ Read \/ AppendToPool \/ EndOfEvents \/ Tick_Fired \/ Tick_End
  <2>1. /\ UNCHANGED <<m_sockfd, arg>> /\ \A y \in Threads \ {Main} : pc'[y] = pc[y]
        /\ pc[Main] # "del_timer"
    BY <1>0, <1>4 DEF EpollWait, DealConnection_Fails, DealConnection_Refuses,
       Init_Load, Init_Store, Init_Timer, Tick_Fire, DealSignal, DealClose, DealRead, DealWrite, Handles,
       Read, AppendToPool, EndOfEvents, Tick_Fired, Tick_End
  <2> QED
    BY <2>1
<1>5. CASE Write
  <2>1. /\ UNCHANGED <<m_sockfd, arg>> /\ \A y \in Threads \ {Main} : pc'[y] = pc[y]
        /\ pc[Main] # "del_timer"
    BY <1>0, <1>5 DEF Write, Write_Nothing, Write_Fails, Write_Blocks, Write_Takes,
       Write_KeepsAlive, Write_EndsConnection, Writing
  <2> QED
    BY <2>1
<1>6. CASE ClientStep \/ SignalHandler \/ UNCHANGED vars
  BY <1>6 DEF ClientStep, SignalHandler, Connect, Send, Leave, Drain, vars
<1> QED
  BY <1>0, <1>1, <1>2, <1>3, <1>4, <1>5, <1>6 DEF Next, MainStep, WorkerStep, Undefined

(* A step of the server keeps them. *)
LEMMA StepBase == Base /\ [Next]_vars => Base'
  BY StepTypeInv, StepTickInv, StepBatchInv, StepObjectInv DEF Base

(***************************************************************************)
(* A connection that the step of a thread is not about keeps what holds    *)
(* of it.                                                                  *)
(***************************************************************************)

(* Thread x, which has connection c in hand or takes it or lets it go,     *)
(* touches no other connection and no other thread.                        *)
Local(x, c) ==
    /\ \A y \in Threads \ {x} : pc'[y] = pc[y] /\ arg'[y] = arg[y] /\ Conn(y)' = Conn(y)
    /\ Conn(x) \in {c, NoFd} /\ Conn(x)' \in {c, NoFd}
    /\ \A fd \in Fds \ {c} :
          /\ interest'[fd] = interest[fd] /\ events'[fd] = events[fd]
          /\ m_sockfd'[fd] = m_sockfd[fd] /\ timer'[fd] = timer[fd]
          /\ bytes_to_send'[fd] = bytes_to_send[fd]
          /\ bytes_have_send'[fd] = bytes_have_send[fd]

(* The queue and the timers of fd are as they were. *)
SameQueue(fd) == (InQueue(fd)' <=> InQueue(fd)) /\ (Once(fd) => Once(fd)')
SameTimers(fd) ==
    \A t \in Timers : t \in live' /\ user_data'[t] = fd <=> t \in live /\ user_data[t] = fd

LEMMA SameQueueKept ==
  ASSUME UNCHANGED m_workqueue, NEW fd
  PROVE  SameQueue(fd)
  BY DEF SameQueue, InQueue, Once

LEMMA SameTimersKept ==
  ASSUME UNCHANGED wheel, NEW fd
  PROVE  SameTimers(fd)
  BY DEF SameTimers, wheel

(* The states of a connection that nothing touched. *)
LEMMA SameStates ==
  ASSUME TypeOK, TypeOK', NEW fd \in Fds, SameTimers(fd),
         interest'[fd] = interest[fd], m_sockfd'[fd] = m_sockfd[fd], timer'[fd] = timer[fd]
  PROVE  /\ HasTimer(fd)' <=> HasTimer(fd)
         /\ NoTimer(fd)' <=> NoTimer(fd)
         /\ Open(fd)' <=> Open(fd)
         /\ Closed(fd)' <=> Closed(fd)
         /\ IsOpen(fd)' <=> IsOpen(fd)
<1>1. live \subseteq Timers /\ live' \subseteq Timers
  BY DEF TypeOK
<1>2. HasTimer(fd)' <=> HasTimer(fd)
  BY <1>1 DEF HasTimer, SameTimers
<1>3. NoTimer(fd)' <=> NoTimer(fd)
  BY <1>1 DEF NoTimer, SameTimers
<1>4. IsOpen(fd)' <=> IsOpen(fd)
  BY DEF IsOpen
<1> QED
  BY <1>2, <1>3, <1>4 DEF Open, Closed

LEMMA Elsewhere ==
  ASSUME TypeOK, TypeOK', NEW x \in Threads, NEW c, Local(x, c),
         NEW fd \in Fds, fd # c, SameQueue(fd), SameTimers(fd), Held(fd)
  PROVE  Held(fd)'
<1>1. /\ interest'[fd] = interest[fd] /\ events'[fd] = events[fd]
      /\ m_sockfd'[fd] = m_sockfd[fd] /\ timer'[fd] = timer[fd]
      /\ bytes_to_send'[fd] = bytes_to_send[fd]
      /\ bytes_have_send'[fd] = bytes_have_send[fd]
  BY DEF Local
<1>2. /\ HasTimer(fd)' <=> HasTimer(fd)
      /\ NoTimer(fd)' <=> NoTimer(fd)
      /\ Open(fd)' <=> Open(fd)
      /\ Closed(fd)' <=> Closed(fd)
      /\ IsOpen(fd)' <=> IsOpen(fd)
  BY <1>1, SameStates
<1>3. (Idle(fd)' <=> Idle(fd)) /\ (Sending(fd)' <=> Sending(fd))
  BY <1>1 DEF Idle, Sending
<1>4. \A y \in Threads : /\ Conn(y)' = fd <=> Conn(y) = fd
                         /\ Conn(y) = fd => y # x
                         /\ Conn(y) = fd => pc'[y] = pc[y] /\ arg'[y] = arg[y]
  BY NoConnections DEF Local
<1>5. \A y \in Threads : Conn(y) = fd /\ At(y, fd) => At(y, fd)'
  <2> SUFFICES ASSUME NEW y \in Threads, Conn(y) = fd, At(y, fd) PROVE At(y, fd)'
    OBVIOUS
  <2>1. pc'[y] = pc[y] /\ arg'[y] = arg[y]
    BY <1>4
  <2> QED
    BY <2>1, <1>1, <1>2, <1>3 DEF At
<1>6. \A y \in Threads : Alone(y, fd) => Alone(y, fd)'
  BY <1>4 DEF Alone, SameQueue
<1>7. Waiting(fd) => Waiting(fd)'
  BY <1>1, <1>2, <1>3 DEF Waiting, SameQueue
<1>8. Free(fd) => Free(fd)'
  BY <1>1, <1>2, <1>3 DEF Free
<1> QED
  BY <1>1, <1>4, <1>5, <1>6, <1>7, <1>8 DEF Held, SameQueue

(* So it is when nothing of the server moves at all. *)
LEMMA Nothing ==
  ASSUME TypeOK, TypeOK', NEW fd \in Fds, Held(fd),
         UNCHANGED <<interest, object, wheel, pool, events, sockfd, pc, arg>>
  PROVE  Held(fd)'
<1>2. SameQueue(fd) /\ SameTimers(fd)
  BY SameQueueKept, SameTimersKept DEF pool
<1>3. HasTimer(fd)' <=> HasTimer(fd)
  BY DEF HasTimer, object, wheel
<1>4. NoTimer(fd)' <=> NoTimer(fd)
  BY DEF NoTimer, wheel
<1>5. \A y \in Threads : At(y, fd) => At(y, fd)'
  BY <1>3, <1>4 DEF At, Open, Closed, IsOpen, Idle, Sending, object
<1>6. \A y \in Threads : Alone(y, fd) => Alone(y, fd)'
  BY <1>2 DEF Alone, SameQueue, Conn, pool
<1>7. Waiting(fd) => Waiting(fd)'
  BY <1>2, <1>3 DEF Waiting, SameQueue, Open, Closed, IsOpen, Idle, object
<1>8. Free(fd) => Free(fd)'
  BY <1>3 DEF Free, Open, Closed, IsOpen, Idle, Sending, object
<1>9. \A y \in Threads : Conn(y)' = Conn(y)
  BY DEF Conn, pool
<1> QED
  BY <1>2, <1>5, <1>6, <1>7, <1>8, <1>9 DEF Held, SameQueue

(***************************************************************************)
(* The connection that a step is about.                                    *)
(***************************************************************************)

(* Thread x has it afterwards, and had it or took it from nobody. *)
LEMMA Keeps ==
  ASSUME NEW x \in Threads, NEW c \in Fds, Local(x, c), UNCHANGED m_workqueue, Alone(x, c),
         events'[c] = "none", Conn(x)' = c, At(x, c)'
  PROVE  Held(c)'
<1>1. Alone(x, c)'
  BY DEF Alone, Local, InQueue
<1>2. \A y \in Threads : Conn(y)' = c => y = x
  BY <1>1 DEF Alone
<1>3. ~InQueue(c)'
  BY <1>1 DEF Alone
<1> QED
  BY <1>1, <1>2, <1>3 DEF Held

(* Thread x lets it go. *)
LEMMA LetsGo ==
  ASSUME NEW x \in Threads, NEW c \in Fds, Local(x, c), UNCHANGED m_workqueue, Alone(x, c),
         Conn(x)' = NoFd, Free(c)'
  PROVE  Held(c)'
<1>1. ~InQueue(c)'
  BY DEF Alone, InQueue
<1>2. \A y \in Threads : Conn(y)' # c
  BY NoConnections DEF Alone, Local
<1> QED
  BY <1>1, <1>2 DEF Held

(* The other connections, when neither the queue nor the wheel changed.    *)
LEMMA Others ==
  ASSUME TypeOK, TypeOK', NEW x \in Threads, NEW c, Local(x, c), UNCHANGED <<m_workqueue, wheel>>,
         NEW fd \in Fds, fd # c, Held(fd)
  PROVE  Held(fd)'
  BY Elsewhere, SameQueueKept, SameTimersKept

(* A thread goes on with its connection.                                   *)
LEMMA GoesOn ==
  ASSUME TypeOK, TypeOK', NEW x \in Threads, NEW c \in Fds,
         Local(x, c), UNCHANGED <<m_workqueue, wheel>>,
         Conn(x) = c, Conn(x)' = c, UNCHANGED events, At(x, c) => At(x, c)',
         NEW fd \in Fds, Held(fd)
  PROVE  Held(fd)'
<1>1. CASE fd = c
  <2>1. Alone(x, c) /\ events[c] = "none" /\ At(x, c)
    BY <1>1 DEF Held
  <2> QED
    BY <1>1, <2>1, Keeps
<1>2. CASE fd # c
  BY <1>2, Others
<1> QED
  BY <1>1, <1>2

(* A thread is done with its connection. *)
LEMMA IsDone ==
  ASSUME TypeOK, TypeOK', NEW x \in Threads, NEW c \in Fds,
         Local(x, c), UNCHANGED <<m_workqueue, wheel>>,
         Conn(x) = c, Conn(x)' = NoFd, events[c] = "none" /\ At(x, c) => Free(c)',
         NEW fd \in Fds, Held(fd)
  PROVE  Held(fd)'
<1>1. CASE fd = c
  <2>1. Alone(x, c) /\ events[c] = "none" /\ At(x, c)
    BY <1>1 DEF Held
  <2> QED
    BY <1>1, <2>1, LetsGo
<1>2. CASE fd # c
  BY <1>2, Others
<1> QED
  BY <1>1, <1>2

(* What a step of thread x looks like. *)
LEMMA MoveOf ==
  ASSUME TypeInv, NEW x \in Threads, NEW from, NEW to, GoTo(x, from, to)
  PROVE  /\ pc[x] = from /\ pc'[x] = to
         /\ \A y \in Threads \ {x} : pc'[y] = pc[y]
  BY DEF TypeInv, PcOK, GoTo

(* Steps of close_conn() and timer_func() that leave the timer alone. *)
LEMMA CloseHeld ==
  ASSUME Base, TypeInv', NEW x \in Threads,
         Close_Socket(x) \/ Close_Forget(x) \/ Close_Load(x) \/ Close_Store(x),
         NEW fd \in Fds, Held(fd)
  PROVE  Held(fd)'
<1> USE DEF Base, TypeInv
<1>1. PICK c \in Fds : c = Conn(x)
  BY InHand, ThreadAssumption
     DEF Close_Socket, Close_Forget, Close_Load, Close_Store, GoTo, Threads
<1>2. m_sockfd[c] \in {c, NoFd}
  BY DEF ObjectInv
<1>3. /\ UNCHANGED <<m_workqueue, running, sockfd, live, user_data, events, timer, arg,
                     bytes_to_send, bytes_have_send>>
      /\ Conn(x)' = c
  BY <1>1 DEF Close_Socket, Close_Forget, Close_Load, Close_Store, object, wheel, pool, loop, Conn
<1>4. /\ \A y \in Threads \ {x} : pc'[y] = pc[y]
      /\ \A f \in Fds \ {c} : interest'[f] = interest[f] /\ m_sockfd'[f] = m_sockfd[f]
  <2>1. CASE Close_Socket(x)
    BY <1>1, <1>2, <2>1, MoveOf, NoConnections DEF Close_Socket, IsOpen, object, TypeOK
  <2>2. CASE Close_Forget(x)
    BY <1>1, <2>2, MoveOf DEF Close_Forget, kernel, TypeOK
  <2>3. CASE Close_Load(x) \/ Close_Store(x)
    BY <2>3, MoveOf DEF Close_Load, Close_Store, kernel, object
  <2> QED
    BY <2>1, <2>2, <2>3
<1>5. Local(x, c)
  BY <1>1, <1>3, <1>4 DEF Local, Conn
<1>6. HasTimer(c)' <=> HasTimer(c)
  BY <1>3 DEF HasTimer
<1>7. At(x, c) => At(x, c)'
  <2> SUFFICES ASSUME At(x, c) PROVE At(x, c)'
    OBVIOUS
  <2>1. CASE Close_Socket(x)
    <3>1. pc[x] = "close" /\ pc'[x] = IF m_sockfd[c] # NoFd THEN "forget" ELSE AfterSocket(x)
      BY <1>1, <2>1, MoveOf DEF Close_Socket
    <3>2. Open(c)
      BY <3>1 DEF At
    <3>3. pc'[x] = "forget" /\ interest'[c] = "none" /\ m_sockfd' = m_sockfd
      BY <1>1, <2>1, <3>1, <3>2, NoConnections DEF Close_Socket, Open, IsOpen, object, TypeOK
    <3> QED
      BY <1>6, <3>2, <3>3 DEF At, Open, IsOpen
  <2>2. CASE Close_Forget(x)
    <3>1. pc[x] = "forget" /\ pc'[x] = "load"
      BY <2>2, MoveOf DEF Close_Forget
    <3>2. m_sockfd'[c] = NoFd /\ interest' = interest
      BY <1>1, <2>2 DEF Close_Forget, kernel, TypeOK
    <3> QED
      BY <1>6, <3>1, <3>2 DEF At, IsOpen
  <2>3. CASE Close_Load(x) \/ Close_Store(x)
    <3>1. /\ pc[x] \in {"load", "store"} /\ pc'[x] \in {"store", "timer", "fired"}
          /\ UNCHANGED <<interest, m_sockfd>>
      BY <2>3, MoveOf DEF Close_Load, Close_Store, AfterSocket, kernel, object
    <3> QED
      BY <1>6, <3>1 DEF At, IsOpen
  <2> QED
    BY <2>1, <2>2, <2>3
<1>8. UNCHANGED <<m_workqueue, wheel>>
  BY <1>3 DEF wheel
<1> QED
  BY <1>1, <1>3, <1>5, <1>7, <1>8, GoesOn

(* init(), read() and write() go on with the connection they have. *)
LEMMA GoingHeld ==
  ASSUME Base, TypeInv',
         \/ Init_Load \/ Init_Store \/ Read \/ Write_Fails \/ Write_Takes \/ Write_EndsConnection
         \/ Write_KeepsAlive /\ buf[sockfd] = "more",
         NEW fd \in Fds, Held(fd)
  PROVE  Held(fd)'
<1> USE DEF Base, TypeInv
<1>0. Main \in Threads
  BY DEF Threads
<1>1. PICK c \in Fds : c = sockfd
  BY InHand DEF Init_Load, Init_Store, Read, Write_Fails, Write_Takes, Write_EndsConnection,
     Write_KeepsAlive, Writing, GoTo
<1>2. m_sockfd[c] \in {c, NoFd}
  BY DEF ObjectInv
<1>3. /\ UNCHANGED <<m_workqueue, running, sockfd, live, user_data, events, timer, arg, m_sockfd>>
      /\ Conn(Main) = c /\ Conn(Main)' = c
  BY <1>1 DEF Init_Load, Init_Store, Read, Write_Fails, Write_Takes, Write_EndsConnection,
     Write_KeepsAlive, object, wheel, pool, loop, Conn
<1>4. /\ pc[Main] \in {"init_load", "init_store", "read", "write", "written"}
      /\ \A y \in Threads \ {Main} : pc'[y] = pc[y]
  BY <1>0, MoveOf DEF Init_Load, Init_Store, Read, Write_Fails, Write_Takes, Write_EndsConnection,
     Write_KeepsAlive, Writing
<1>5. /\ \/ interest' = interest
         \/ interest' = [interest EXCEPT ![c] = "in"] /\ pc[Main] = "written" /\ pc'[Main] = "close"
      /\ \/ UNCHANGED <<bytes_to_send, bytes_have_send>>
         \/ /\ bytes_to_send' = [bytes_to_send EXCEPT ![c] = bytes_to_send[c] - 1]
            /\ bytes_have_send' = [bytes_have_send EXCEPT ![c] = bytes_have_send[c] + 1]
  <2>1. CASE Init_Load \/ Init_Store \/ Read \/ Write_Fails
    BY <2>1 DEF Init_Load, Init_Store, Read, Write_Fails, kernel, object
  <2>2. CASE Write_Takes
    BY <1>1, <2>2 DEF Write_Takes
  <2>3. CASE Write_EndsConnection \/ (Write_KeepsAlive /\ buf[sockfd] = "more")
    <3>1. /\ ModFd(m_sockfd[c], "in") /\ UNCHANGED <<bytes_to_send, bytes_have_send>>
          /\ GoTo(Main, "written", "close")
      BY <1>1, <2>3 DEF Write_EndsConnection, Write_KeepsAlive, object
    <3>2. pc[Main] = "written" /\ pc'[Main] = "close"
      BY <1>0, <3>1, MoveOf
    <3> QED
      BY <1>2, <3>1, <3>2, NoConnections DEF ModFd, IsOpen
  <2> QED
    BY <2>1, <2>2, <2>3
<1>6. \A f \in Fds \ {c} : /\ interest'[f] = interest[f]
                           /\ bytes_to_send'[f] = bytes_to_send[f]
                           /\ bytes_have_send'[f] = bytes_have_send[f]
  <2>1. /\ interest \in [Fds -> {"none", "off", "in", "out"}]
        /\ bytes_to_send \in [Fds -> 0..ResponseParts] /\ bytes_have_send \in [Fds -> Nat]
    BY DEF TypeOK
  <2>2. \A f \in Fds \ {c} : interest'[f] = interest[f]
    BY <1>5, <2>1
  <2>3. \A f \in Fds \ {c} : bytes_to_send'[f] = bytes_to_send[f]
    BY <1>5, <2>1
  <2>4. \A f \in Fds \ {c} : bytes_have_send'[f] = bytes_have_send[f]
    BY <1>5, <2>1
  <2> QED
    BY <2>2, <2>3, <2>4
<1>7. Local(Main, c)
  BY <1>3, <1>4, <1>6 DEF Local, Conn
<1>8. HasTimer(c)' <=> HasTimer(c)
  BY <1>3 DEF HasTimer
<1>9. At(Main, c) => At(Main, c)'
  <2> SUFFICES ASSUME At(Main, c) PROVE At(Main, c)'
    OBVIOUS
  <2>1. CASE Init_Load \/ Init_Store
    <3>1. /\ pc[Main] \in {"init_load", "init_store"} /\ pc'[Main] \in {"init_store", "init_timer"}
          /\ UNCHANGED <<interest, bytes_to_send, bytes_have_send>>
      BY <1>0, <2>1, MoveOf DEF Init_Load, Init_Store, kernel, object
    <3> QED
      BY <1>3, <3>1 DEF At, NoTimer
  <2>2. CASE Read
    <3>1. /\ pc[Main] = "read" /\ pc'[Main] \in {"append", "close"}
          /\ UNCHANGED <<interest, bytes_to_send, bytes_have_send>>
      BY <1>0, <2>2, MoveOf DEF Read
    <3> QED
      BY <1>3, <1>8, <3>1 DEF At, Open, IsOpen, Idle
  <2>3. CASE Write_Fails
    <3>1. pc[Main] = "write" /\ pc'[Main] = "close" /\ UNCHANGED interest
      BY <1>0, <2>3, MoveOf DEF Write_Fails, Writing, kernel
    <3> QED
      BY <1>3, <1>8, <3>1 DEF At, Open, IsOpen
  <2>4. CASE Write_Takes
    <3>1. /\ pc[Main] = "write" /\ pc'[Main] = AfterPart(bytes_to_send[c] - 1)
          /\ UNCHANGED interest
      BY <1>0, <1>1, <2>4, MoveOf DEF Write_Takes, Writing
    <3>2. /\ bytes_to_send[c] \in Nat /\ bytes_have_send[c] \in Nat
          /\ bytes_to_send'[c] = bytes_to_send[c] - 1
          /\ bytes_have_send'[c] = bytes_have_send[c] + 1
      BY <1>1, <2>4, SizeAssumption DEF Write_Takes, TypeOK
    <3>3. Open(c) /\ interest[c] = "off" /\ Sending(c)
      BY <3>1 DEF At
    <3>4. Open(c)' /\ interest'[c] = "off"
      BY <1>3, <1>8, <3>1, <3>3 DEF Open, IsOpen
    <3>5. CASE bytes_to_send[c] = 1
      <4>1. pc'[Main] = "written" /\ bytes_have_send'[c] = ResponseParts
        BY <3>1, <3>2, <3>3, <3>5, SizeAssumption DEF AfterPart, Sending
      <4> QED
        BY <3>4, <4>1 DEF At
    <3>6. CASE bytes_to_send[c] # 1
      <4>1. pc'[Main] = "write" /\ Sending(c)'
        BY <3>1, <3>2, <3>3, <3>6, SizeAssumption DEF AfterPart, Sending
      <4> QED
        BY <3>4, <4>1 DEF At
    <3> QED
      BY <3>5, <3>6
  <2>5. CASE Write_EndsConnection \/ (Write_KeepsAlive /\ buf[sockfd] = "more")
    <3>1. pc[Main] = "written" /\ pc'[Main] = "close"
      BY <1>0, <2>5, MoveOf DEF Write_EndsConnection, Write_KeepsAlive
    <3>2. IsOpen(c)' /\ m_sockfd[c] = c /\ HasTimer(c)
      BY <1>5, <3>1 DEF At, Open, IsOpen, TypeOK
    <3> QED
      BY <1>3, <1>8, <3>1, <3>2 DEF At, Open
  <2> QED
    BY <2>1, <2>2, <2>3, <2>4, <2>5
<1>10. UNCHANGED <<m_workqueue, wheel>>
  BY <1>3 DEF wheel
<1> QED
  BY <1>0, <1>3, <1>7, <1>9, <1>10, GoesOn

(* write() arms the connection and lets it go. *)
LEMMA WriteHeld ==
  ASSUME Base, TypeInv',
         Write_Nothing \/ Write_Blocks \/ (Write_KeepsAlive /\ buf[sockfd] # "more"),
         NEW fd \in Fds, Held(fd)
  PROVE  Held(fd)'
<1> USE DEF Base, TypeInv
<1>0. Main \in Threads
  BY DEF Threads
<1>1. PICK c \in Fds : c = sockfd
  BY InHand DEF Write_Nothing, Write_Blocks, Write_KeepsAlive, Writing, GoTo
<1>2. m_sockfd[c] \in {c, NoFd}
  BY DEF ObjectInv
<1>3. /\ UNCHANGED <<m_workqueue, running, live, user_data, events, timer, arg, m_sockfd>>
      /\ Conn(Main) = c /\ Conn(Main)' = NoFd
  BY <1>1 DEF Write_Nothing, Write_Blocks, Write_KeepsAlive, EndOf, object, wheel, pool, Conn
<1>4. /\ pc[Main] \in {"write", "written"} /\ pc'[Main] = "events"
      /\ \A y \in Threads \ {Main} : pc'[y] = pc[y]
  BY <1>0, MoveOf DEF Write_Nothing, Write_Blocks, Write_KeepsAlive, Writing
<1>5. PICK ev \in {"in", "out"} : /\ ModFd(m_sockfd[c], ev)
                                  /\ ev = IF Write_Blocks THEN "out" ELSE "in"
  <2>1. CASE Write_Blocks
    BY <1>1, <2>1 DEF Write_Blocks
  <2>2. CASE ~Write_Blocks
    BY <1>1, <2>2 DEF Write_Nothing, Write_KeepsAlive
  <2> QED
    BY <2>1, <2>2
<1>6. IF IsOpen(c) /\ m_sockfd[c] = c THEN interest' = [interest EXCEPT ![c] = ev]
      ELSE interest' = interest
  BY <1>2, <1>5, NoConnections DEF ModFd, IsOpen
<1>7. IF Write_Blocks THEN UNCHANGED <<bytes_to_send, bytes_have_send>>
      ELSE /\ bytes_to_send' = [bytes_to_send EXCEPT ![c] = 0]
           /\ bytes_have_send' = [bytes_have_send EXCEPT ![c] = 0]
  BY <1>1 DEF Write_Nothing, Write_Blocks, Write_KeepsAlive, Reset, object
<1>8. /\ interest \in [Fds -> {"none", "off", "in", "out"}]
      /\ bytes_to_send \in [Fds -> 0..ResponseParts] /\ bytes_have_send \in [Fds -> Nat]
  BY DEF TypeOK
<1>9. \A f \in Fds \ {c} : /\ interest'[f] = interest[f]
                           /\ bytes_to_send'[f] = bytes_to_send[f]
                           /\ bytes_have_send'[f] = bytes_have_send[f]
  <2>1. \A f \in Fds \ {c} : interest'[f] = interest[f]
    BY <1>6, <1>8
  <2>2. \A f \in Fds \ {c} : bytes_to_send'[f] = bytes_to_send[f]
    BY <1>7, <1>8
  <2>3. \A f \in Fds \ {c} : bytes_have_send'[f] = bytes_have_send[f]
    BY <1>7, <1>8
  <2> QED
    BY <2>1, <2>2, <2>3
<1>10. Local(Main, c)
  BY <1>3, <1>4, <1>9 DEF Local, Conn
<1>11. HasTimer(c)' <=> HasTimer(c)
  BY <1>3 DEF HasTimer
<1>12. events[c] = "none" /\ At(Main, c) => Free(c)'
  <2> SUFFICES ASSUME events[c] = "none", At(Main, c) PROVE Free(c)'
    OBVIOUS
  <2>1. Open(c)
    BY <1>4 DEF At
  <2>2. Open(c)' /\ interest'[c] = ev /\ events'[c] = "none"
    BY <1>3, <1>6, <1>8, <1>11, <2>1 DEF Open, IsOpen
  <2>3. CASE Write_Blocks
    <3>1. pc[Main] = "write"
      BY <1>0, <2>3, MoveOf DEF Write_Blocks, Writing
    <3>2. Sending(c)'
      BY <1>7, <2>3, <3>1 DEF At, Sending
    <3> QED
      BY <1>5, <2>2, <2>3, <3>2 DEF Free
  <2>4. CASE ~Write_Blocks
    <3>1. Idle(c)'
      BY <1>7, <1>8, <2>4 DEF Idle
    <3> QED
      BY <1>5, <2>2, <2>4, <3>1 DEF Free
  <2> QED
    BY <2>3, <2>4
<1>13. UNCHANGED <<m_workqueue, wheel>>
  BY <1>3 DEF wheel
<1> QED
  BY <1>0, <1>3, <1>10, <1>12, <1>13, IsDone

(* A worker arms its connection and waits for the next. *)
LEMMA RearmHeld ==
  ASSUME Base, TypeInv', NEW w \in Workers, Rearm(w), NEW fd \in Fds, Held(fd)
  PROVE  Held(fd)'
<1> USE DEF Base, TypeInv
<1>0. w \in Threads /\ w # Main /\ running \in [Workers -> Fds \cup {NoFd}]
  BY ThreadAssumption DEF Threads, TypeOK
<1>1. PICK c \in Fds : c = running[w]
  BY <1>0, InHand DEF Rearm, GoTo
<1>2. m_sockfd[c] \in {c, NoFd}
  BY DEF ObjectInv
<1>3. /\ UNCHANGED <<m_workqueue, sockfd, live, user_data, events, timer, arg, m_sockfd,
                     bytes_to_send, bytes_have_send>>
      /\ running' = [running EXCEPT ![w] = NoFd]
  BY DEF Rearm, Pool!Finish, object, wheel, loop
<1>4. PICK ev \in {"in", "out"} :
        /\ pc[w] = IF ev = "in" THEN "arm_in" ELSE "arm_out"
        /\ ModFd(m_sockfd[c], ev)
  BY <1>0, <1>1, MoveOf DEF Rearm
<1>5. \A y \in Threads \ {w} : pc'[y] = pc[y]
  BY <1>0, MoveOf DEF Rearm
<1>6. IF IsOpen(c) /\ m_sockfd[c] = c THEN interest' = [interest EXCEPT ![c] = ev]
      ELSE interest' = interest
  BY <1>2, <1>4, NoConnections DEF ModFd, IsOpen
<1>7. interest \in [Fds -> {"none", "off", "in", "out"}]
  BY DEF TypeOK
<1>8. /\ \A y \in Threads \ {w} : Conn(y)' = Conn(y)
      /\ Conn(w) = c /\ Conn(w)' = NoFd
  BY <1>0, <1>1, <1>3 DEF Conn, Threads
<1>9. Local(w, c)
  BY <1>3, <1>5, <1>6, <1>7, <1>8 DEF Local
<1>10. HasTimer(c)' <=> HasTimer(c)
  BY <1>3 DEF HasTimer
<1>11. events[c] = "none" /\ At(w, c) => Free(c)'
  <2> SUFFICES ASSUME events[c] = "none", At(w, c) PROVE Free(c)'
    OBVIOUS
  <2>1. CASE Closed(c)
    BY <1>3, <1>6, <2>1 DEF Closed, Free, IsOpen
  <2>2. CASE ~Closed(c)
    <3>1. Open(c) /\ IF ev = "in" THEN Idle(c) ELSE Sending(c)
      BY <1>4, <2>2 DEF At
    <3>2. Open(c)' /\ interest'[c] = ev /\ events'[c] = "none"
      BY <1>3, <1>6, <1>7, <1>10, <3>1 DEF Open, IsOpen
    <3>3. IF ev = "in" THEN Idle(c)' ELSE Sending(c)'
      BY <1>3, <3>1 DEF Idle, Sending
    <3> QED
      BY <3>2, <3>3 DEF Free
  <2> QED
    BY <2>1, <2>2
<1>12. UNCHANGED <<m_workqueue, wheel>>
  BY <1>3 DEF wheel
<1> QED
  BY <1>0, <1>8, <1>9, <1>11, <1>12, IsDone

(* process_read() and process_write() *)
LEMMA ParseHeld ==
  ASSUME Base, TypeInv', NEW w \in Workers,
         Parse_Incomplete(w) \/ Parse_Request(w) \/ Parse_BadRequest(w),
         NEW fd \in Fds, Held(fd)
  PROVE  Held(fd)'
<1> USE DEF Base, TypeInv
<1>0. w \in Threads /\ w # Main
  BY ThreadAssumption DEF Threads
<1>1. PICK c \in Fds : c = running[w]
  BY <1>0, InHand DEF Parse_Incomplete, Parse_Request, Parse_BadRequest, GoTo
<1>2. UNCHANGED <<m_workqueue, running, sockfd, live, user_data, events, timer, arg, m_sockfd,
                  interest, bytes_have_send>>
  BY DEF Parse_Incomplete, Parse_Request, Parse_BadRequest, object, wheel, loop, pool, kernel
<1>3. /\ pc[w] = "parse" /\ pc'[w] \in {"arm_in", "arm_out", "close"}
      /\ \A y \in Threads \ {w} : pc'[y] = pc[y]
      /\ IF pc'[w] = "arm_out" THEN bytes_to_send' = [bytes_to_send EXCEPT ![c] = ResponseParts]
         ELSE UNCHANGED bytes_to_send
  BY <1>0, <1>1, MoveOf DEF Parse_Incomplete, Parse_Request, Parse_BadRequest, object
<1>4. Conn(w) = c /\ \A y \in Threads : Conn(y)' = Conn(y)
  BY <1>0, <1>1, <1>2 DEF Conn, Threads
<1>5. bytes_to_send \in [Fds -> 0..ResponseParts] /\ bytes_have_send \in [Fds -> Nat]
  BY DEF TypeOK
<1>6. Local(w, c)
  <2>1. \A f \in Fds \ {c} : bytes_to_send'[f] = bytes_to_send[f]
    BY <1>3, <1>5
  <2>2. \A y \in Threads \ {w} : pc'[y] = pc[y] /\ arg'[y] = arg[y] /\ Conn(y)' = Conn(y)
    BY <1>2, <1>3, <1>4
  <2>3. Conn(w) = c /\ Conn(w)' = c
    BY <1>0, <1>4
  <2> QED
    BY <1>2, <2>1, <2>2, <2>3 DEF Local
<1>7. HasTimer(c)' <=> HasTimer(c)
  BY <1>2 DEF HasTimer
<1>8. At(w, c) => At(w, c)'
  <2> SUFFICES ASSUME At(w, c) PROVE At(w, c)'
    OBVIOUS
  <2>1. Open(c) /\ interest[c] = "off" /\ Idle(c)
    BY <1>3 DEF At
  <2>2. Open(c)' /\ interest'[c] = "off"
    BY <1>2, <1>7, <2>1 DEF Open, IsOpen
  <2>3. pc'[w] = "arm_in" => Idle(c)'
    BY <1>2, <1>3, <2>1 DEF Idle
  <2>4. pc'[w] = "arm_out" => Sending(c)'
    BY <1>2, <1>3, <1>5, <2>1, SizeAssumption DEF Idle, Sending
  <2> QED
    BY <1>0, <1>3, <2>2, <2>3, <2>4 DEF At
<1>9. UNCHANGED <<m_workqueue, wheel, events>>
  BY <1>2 DEF wheel
<1> QED
  BY <1>0, <1>4, <1>6, <1>8, <1>9, GoesOn

(* A worker gets the connection at the head of the queue. *)
LEMMA TakeHeld ==
  ASSUME Base, TypeInv', NEW w \in Workers, Take(w), NEW fd \in Fds, Held(fd)
  PROVE  Held(fd)'
<1> USE DEF Base, TypeInv
<1>0. w \in Threads /\ w # Main /\ running \in [Workers -> Fds \cup {NoFd}]
      /\ m_workqueue \in Seq(Fds) /\ m_workqueue # <<>>
  BY ThreadAssumption DEF Threads, TypeOK, Take, Pool!Start
<1>1. PICK c \in Fds : c = Head(m_workqueue)
  BY <1>0
<1>2. /\ UNCHANGED <<sockfd, wheel, live, user_data, events, timer, arg, m_sockfd, interest,
                     bytes_to_send, bytes_have_send>>
      /\ running' = [running EXCEPT ![w] = c] /\ running[w] = NoFd
      /\ m_workqueue' = Tail(m_workqueue)
  BY <1>1 DEF Take, Pool!Start, object, wheel, loop, kernel
<1>3. /\ pc[w] = "take" /\ pc'[w] = "parse"
      /\ \A y \in Threads \ {w} : pc'[y] = pc[y]
  BY <1>0, MoveOf DEF Take
<1>4. /\ \A y \in Threads \ {w} : Conn(y)' = Conn(y)
      /\ Conn(w) = NoFd /\ Conn(w)' = c
  BY <1>0, <1>2 DEF Conn, Threads
<1>5. Local(w, c)
  BY <1>2, <1>3, <1>4 DEF Local
<1>6. /\ 1 \in DOMAIN m_workqueue /\ m_workqueue[1] = c
      /\ \A i \in DOMAIN m_workqueue' : /\ i + 1 \in DOMAIN m_workqueue
                                        /\ m_workqueue'[i] = m_workqueue[i + 1]
      /\ \A i \in DOMAIN m_workqueue \ {1} : /\ i - 1 \in DOMAIN m_workqueue'
                                             /\ m_workqueue'[i - 1] = m_workqueue[i]
  BY <1>0, <1>1, <1>2
<1>61. \A i \in DOMAIN m_workqueue : i \in Int
  BY <1>0
<1>62. \A i \in DOMAIN m_workqueue' : i \in Int /\ i >= 1
  BY <1>0, <1>2
<1>7. CASE fd # c
  <2>1. InQueue(fd)' <=> InQueue(fd)
    BY <1>6, <1>7 DEF InQueue
  <2>2. Once(fd) => Once(fd)'
    BY <1>6, <1>61, <1>62 DEF Once
  <2> QED
    BY <1>0, <1>2, <1>5, <1>7, <2>1, <2>2, Elsewhere, SameTimersKept DEF SameQueue
<1>8. CASE fd = c
  <2>1. InQueue(c) /\ Waiting(c) /\ \A y \in Threads : Conn(y) # c
    BY <1>6, <1>8 DEF Held, InQueue, Alone
  <2>2. ~InQueue(c)'
    <3>1. SUFFICES ASSUME NEW i \in DOMAIN m_workqueue', m_workqueue'[i] = c PROVE FALSE
      BY DEF InQueue
    <3>2. i + 1 \in DOMAIN m_workqueue /\ m_workqueue[i + 1] = c /\ i + 1 # 1
      BY <1>6, <1>62, <3>1
    <3> QED
      BY <1>6, <2>1, <3>2 DEF Waiting, Once
  <2>3. Alone(w, c)'
    BY <1>4, <2>1, <2>2 DEF Alone
  <2>4. At(w, c)'
    <3>1. Open(c)' /\ interest'[c] = "off" /\ Idle(c)'
      BY <1>2, <2>1 DEF Waiting, Open, IsOpen, HasTimer, Idle
    <3> QED
      BY <1>3, <3>1 DEF At
  <2>5. events'[c] = "none"
    BY <1>2, <2>1 DEF Waiting
  <2> QED
    BY <1>0, <1>4, <1>8, <2>1, <2>2, <2>3, <2>4, <2>5 DEF Held
<1> QED
  BY <1>7, <1>8

(* The event loop puts its connection into the queue. *)
LEMMA AppendHeld ==
  ASSUME Base, TypeInv', AppendToPool, NEW fd \in Fds, Held(fd)
  PROVE  Held(fd)'
<1> USE DEF Base, TypeInv
<1>0. Main \in Threads /\ m_workqueue \in Seq(Fds)
  BY DEF Threads, TypeOK
<1>1. PICK c \in Fds : c = sockfd
  BY InHand DEF AppendToPool, GoTo
<1>2. /\ UNCHANGED <<wheel, live, user_data, events, timer, arg, m_sockfd, interest, running,
                     bytes_to_send, bytes_have_send>>
      /\ sockfd' = NoFd
      /\ m_workqueue' = Append(m_workqueue, c)
  BY <1>1 DEF AppendToPool, Pool!Submit, EndOf, object, wheel, kernel
<1>3. /\ pc[Main] = "append"
      /\ \A y \in Threads \ {Main} : pc'[y] = pc[y]
  BY <1>0, MoveOf DEF AppendToPool
<1>4. /\ \A y \in Threads \ {Main} : Conn(y)' = Conn(y)
      /\ Conn(Main) = c /\ Conn(Main)' = NoFd
  BY <1>1, <1>2 DEF Conn, Threads
<1>5. Local(Main, c)
  BY <1>2, <1>3, <1>4 DEF Local
<1>6. DEFINE n == Len(m_workqueue) + 1
<1>7. /\ DOMAIN m_workqueue' = DOMAIN m_workqueue \cup {n} /\ m_workqueue'[n] = c
      /\ n \notin DOMAIN m_workqueue
      /\ \A i \in DOMAIN m_workqueue : m_workqueue'[i] = m_workqueue[i]
  BY <1>0, <1>2
<1> HIDE DEF n
<1>8. CASE fd # c
  <2>1. SameQueue(fd)
    BY <1>7, <1>8 DEF SameQueue, InQueue, Once
  <2> QED
    BY <1>0, <1>2, <1>5, <1>8, <2>1, Elsewhere, SameTimersKept
<1>9. CASE fd = c
  <2>1. Alone(Main, c) /\ events[c] = "none" /\ At(Main, c)
    BY <1>0, <1>4, <1>9 DEF Held
  <2>2. Open(c) /\ interest[c] = "off" /\ Idle(c)
    BY <1>3, <2>1 DEF At
  <2>3. Open(c)' /\ interest'[c] = "off" /\ Idle(c)' /\ events'[c] = "none"
    BY <1>2, <2>1, <2>2 DEF Open, IsOpen, HasTimer, Idle
  <2>4. InQueue(c)' /\ Once(c)'
    BY <1>7, <2>1 DEF Alone, InQueue, Once
  <2>5. \A y \in Threads : Conn(y)' # c
    BY <1>4, <2>1, NoConnections DEF Alone
  <2> QED
    BY <1>9, <2>3, <2>4, <2>5 DEF Held, Waiting
<1> QED
  BY <1>8, <1>9

(***************************************************************************)
(* Steps that change the timers, and steps that take a connection.         *)
(***************************************************************************)

(* close_conn() takes its timer, asks the wheel to delete it, and forgets  *)
(* it.                                                                     *)
LEMMA CloseTimerHeld ==
  ASSUME Base, TypeInv', NEW x \in Threads, Close_Timer(x), NEW fd \in Fds, Held(fd)
  PROVE  Held(fd)'
<1> USE DEF Base, TypeInv
<1>1. PICK c \in Fds : c = Conn(x)
  BY InHand, ThreadAssumption DEF Close_Timer, GoTo, Threads
<1>2. /\ UNCHANGED <<m_workqueue, running, live, user_data, events, timer, m_sockfd, interest,
                     bytes_to_send, bytes_have_send, wheel>>
      /\ arg' = [arg EXCEPT ![x] = timer[c]] /\ arg \in [Threads -> Timers \cup {NULL}]
  BY <1>1 DEF Close_Timer, object, wheel, pool, kernel, TypeOK
<1>3. /\ pc[x] = "timer" /\ \A y \in Threads \ {x} : pc'[y] = pc[y]
      /\ IF timer[c] = NULL THEN EndOf(x)
         ELSE UNCHANGED sockfd /\ pc'[x] = "del_timer"
      /\ timer[c] = NULL => pc'[x] = AfterClose(x)
  BY <1>1, MoveOf DEF Close_Timer
<1>4. /\ \A y \in Threads \ {x} : Conn(y)' = Conn(y)
      /\ Conn(x)' \in {c, NoFd} /\ (timer[c] # NULL => Conn(x)' = c)
  BY <1>1, <1>2, <1>3 DEF Conn, EndOf
<1>5. Local(x, c)
  BY <1>1, <1>2, <1>3, <1>4 DEF Local
<1>6. CASE fd # c
  BY <1>2, <1>5, <1>6, Others
<1>7. CASE fd = c
  <2>1. Alone(x, c) /\ events'[c] = "none" /\ At(x, c)
    BY <1>1, <1>2, <1>7 DEF Held
  <2>2. HasTimer(c) /\ ~IsOpen(c) /\ m_sockfd[c] = NoFd
    BY <1>3, <2>1 DEF At
  <2>3. timer[c] # NULL
    BY <2>2, TimerAssumption DEF HasTimer, TypeOK
  <2>4. At(x, c)'
    BY <1>2, <1>3, <2>2, <2>3 DEF At, HasTimer, IsOpen
  <2> QED
    BY <1>2, <1>4, <1>5, <1>7, <2>1, <2>3, <2>4, Keeps
<1> QED
  BY <1>6, <1>7

LEMMA DelTimerHeld ==
  ASSUME Base, TypeInv', NEW x \in Threads, Close_DelTimer(x), NEW fd \in Fds, FdInv(fd)
  PROVE  Held(fd)'
<1> USE DEF Base, TypeInv
<1>1. PICK c \in Fds : c = Conn(x)
  BY InHand, ThreadAssumption DEF Close_DelTimer, GoTo, Threads
<1>2. /\ UNCHANGED <<m_workqueue, running, sockfd, events, timer, m_sockfd, interest,
                     bytes_to_send, bytes_have_send>>
      /\ arg' = [arg EXCEPT ![x] = NULL] /\ arg \in [Threads -> Timers \cup {NULL}]
      /\ live' = live \ {arg[x]} /\ user_data' = Freed(arg[x])
  BY <1>1 DEF Close_DelTimer, object, pool, kernel, loop, TypeOK
<1>3. /\ pc[x] = "del_timer" /\ pc'[x] = "clear"
      /\ \A y \in Threads \ {x} : pc'[y] = pc[y]
  BY MoveOf DEF Close_DelTimer
<1>4. \A y \in Threads : Conn(y)' = Conn(y)
  BY <1>2 DEF Conn
<1>5. Local(x, c)
  BY <1>1, <1>2, <1>3, <1>4 DEF Local
<1>6. CASE fd # c
  <2>1. arg[x] \in live => user_data[arg[x]] # fd
    BY <1>1, <1>6 DEF FdInv, Timed
  <2>2. SameTimers(fd)
    BY <1>2, <2>1, NoConnections DEF SameTimers, Freed, TypeOK
  <2> QED
    BY <1>2, <1>5, <1>6, <2>2, SameQueueKept, Elsewhere DEF FdInv
<1>7. CASE fd = c
  <2>1. Alone(x, c) /\ events'[c] = "none" /\ At(x, c)
    BY <1>1, <1>2, <1>7 DEF FdInv, Held
  <2>2. HasTimer(c) /\ ~IsOpen(c) /\ m_sockfd[c] = NoFd /\ arg[x] = timer[c]
    BY <1>3, <2>1 DEF At
  <2>3. NoTimer(c)'
    <3>1. SUFFICES ASSUME NEW t \in live', user_data'[t] = c PROVE FALSE
      BY DEF NoTimer
    <3>2. t \in live /\ t # arg[x] /\ user_data[t] = c
      BY <1>2, <3>1 DEF Freed, TypeOK
    <3> QED
      BY <1>7, <2>2, <3>2 DEF FdInv, Timed
  <2>4. At(x, c)'
    BY <1>2, <1>3, <2>2, <2>3 DEF At, IsOpen
  <2> QED
    BY <1>1, <1>2, <1>4, <1>5, <1>7, <2>1, <2>4, Keeps
<1> QED
  BY <1>6, <1>7

LEMMA ClearHeld ==
  ASSUME Base, TypeInv', NEW x \in Threads, Close_Clear(x), NEW fd \in Fds, Held(fd)
  PROVE  Held(fd)'
<1> USE DEF Base, TypeInv
<1>1. PICK c \in Fds : c = Conn(x)
  BY InHand, ThreadAssumption DEF Close_Clear, GoTo, Threads
<1>2. /\ UNCHANGED <<m_workqueue, running, live, user_data, events, m_sockfd, interest, arg,
                     bytes_to_send, bytes_have_send, wheel>>
      /\ timer' = [timer EXCEPT ![c] = NULL] /\ timer \in [Fds -> Timers \cup {NULL}]
      /\ EndOf(x)
  BY <1>1 DEF Close_Clear, wheel, pool, kernel, TypeOK
<1>3. /\ pc[x] = "clear" /\ pc'[x] = AfterClose(x)
      /\ \A y \in Threads \ {x} : pc'[y] = pc[y]
  BY MoveOf DEF Close_Clear
<1>4. /\ \A y \in Threads \ {x} : Conn(y)' = Conn(y)
      /\ Conn(x)' = IF x = Main THEN NoFd ELSE c
  BY <1>1, <1>2 DEF Conn, EndOf
<1>5. Local(x, c)
  BY <1>1, <1>2, <1>3, <1>4 DEF Local
<1>6. CASE fd # c
  BY <1>2, <1>5, <1>6, Others
<1>7. CASE fd = c
  <2>1. Alone(x, c) /\ events'[c] = "none" /\ At(x, c)
    BY <1>1, <1>2, <1>7 DEF Held
  <2>2. Closed(c)'
    BY <1>2, <1>3, <2>1 DEF At, Closed, IsOpen
  <2>3. CASE x = Main
    BY <1>2, <1>4, <1>5, <1>7, <2>1, <2>2, <2>3, LetsGo DEF Free
  <2>4. CASE x # Main
    <3>1. At(x, c)'
      BY <1>3, <2>2, <2>4 DEF At, AfterClose
    <3> QED
      BY <1>2, <1>4, <1>5, <1>7, <2>1, <2>4, <3>1, Keeps
  <2> QED
    BY <2>3, <2>4
<1> QED
  BY <1>6, <1>7

(* tick() deletes the timer whose callback has closed the connection. *)
LEMMA FiredHeld ==
  ASSUME Base, TypeInv', Tick_Fired, NEW fd \in Fds, FdInv(fd)
  PROVE  Held(fd)'
<1> USE DEF Base, TypeInv
<1>0. Main \in Threads
  BY DEF Threads
<1>1. PICK c \in Fds : c = sockfd
  BY InHand DEF Tick_Fired, GoTo
<1>2. /\ UNCHANGED <<m_workqueue, running, events, m_sockfd, interest, arg,
                     bytes_to_send, bytes_have_send>>
      /\ timer' = [timer EXCEPT ![c] = NULL] /\ timer \in [Fds -> Timers \cup {NULL}]
      /\ live' = live \ {tmp} /\ user_data' = Freed(tmp) /\ sockfd' = NoFd
  BY <1>1 DEF Tick_Fired, pool, kernel, TypeOK
<1>3. /\ pc[Main] = "fired" /\ \A y \in Threads \ {Main} : pc'[y] = pc[y]
  BY <1>0, MoveOf DEF Tick_Fired
<1>4. /\ \A y \in Threads \ {Main} : Conn(y)' = Conn(y)
      /\ Conn(Main) = c /\ Conn(Main)' = NoFd
  BY <1>1, <1>2 DEF Conn, Threads
<1>5. Local(Main, c)
  BY <1>2, <1>3, <1>4 DEF Local
<1>6. tmp \in live /\ user_data[tmp] = c
  BY <1>1, <1>3, TimerAssumption DEF TickInv
<1>7. CASE fd # c
  <2>1. SameTimers(fd)
    BY <1>2, <1>6, <1>7, NoConnections DEF SameTimers, Freed, TypeOK
  <2> QED
    BY <1>0, <1>2, <1>5, <1>7, <2>1, SameQueueKept, Elsewhere DEF FdInv
<1>8. CASE fd = c
  <2>1. Alone(Main, c) /\ events'[c] = "none" /\ At(Main, c)
    BY <1>0, <1>2, <1>4, <1>8 DEF FdInv, Held
  <2>2. Closed(c)'
    BY <1>2, <1>3, <2>1 DEF At, Closed, IsOpen
  <2> QED
    BY <1>0, <1>2, <1>4, <1>5, <1>8, <2>1, <2>2, LetsGo DEF Free
<1> QED
  BY <1>7, <1>8

(* deal_connection() gives the new connection its timer. *)
LEMMA InitTimerHeld ==
  ASSUME Base, TypeInv', NEW t \in Timers, Init_Timer(t), NEW fd \in Fds, FdInv(fd)
  PROVE  Held(fd)'
<1> USE DEF Base, TypeInv
<1>0. Main \in Threads
  BY DEF Threads
<1>1. PICK c \in Fds : c = sockfd
  BY InHand DEF Init_Timer, GoTo
<1>2. /\ UNCHANGED <<m_workqueue, running, events, m_sockfd, interest, arg>>
      /\ timer' = [timer EXCEPT ![c] = t] /\ timer \in [Fds -> Timers \cup {NULL}]
      /\ bytes_to_send' = [bytes_to_send EXCEPT ![c] = 0]
      /\ bytes_have_send' = [bytes_have_send EXCEPT ![c] = 0]
      /\ bytes_to_send \in [Fds -> 0..ResponseParts] /\ bytes_have_send \in [Fds -> Nat]
      /\ t \notin live /\ live' = live \cup {t} /\ user_data' = [user_data EXCEPT ![t] = c]
      /\ sockfd' = NoFd
  BY <1>1 DEF Init_Timer, Reset, EndOf, pool, kernel, TypeOK
<1>3. /\ pc[Main] = "init_timer" /\ \A y \in Threads \ {Main} : pc'[y] = pc[y]
  BY <1>0, MoveOf DEF Init_Timer
<1>4. /\ \A y \in Threads \ {Main} : Conn(y)' = Conn(y)
      /\ Conn(Main) = c /\ Conn(Main)' = NoFd
  BY <1>1, <1>2 DEF Conn, Threads
<1>5. Local(Main, c)
  <2>1. \A f \in Fds \ {c} : /\ timer'[f] = timer[f]
                             /\ bytes_to_send'[f] = bytes_to_send[f]
                             /\ bytes_have_send'[f] = bytes_have_send[f]
    BY <1>2
  <2> QED
    BY <1>2, <1>3, <1>4, <2>1 DEF Local
<1>6. user_data \in [Timers -> Fds \cup {NoFd}] /\ live \subseteq Timers
  BY DEF TypeOK
<1>7. CASE fd # c
  <2>1. SameTimers(fd)
    BY <1>2, <1>6, <1>7 DEF SameTimers
  <2> QED
    BY <1>0, <1>2, <1>5, <1>7, <2>1, SameQueueKept, Elsewhere DEF FdInv
<1>8. CASE fd = c
  <2>1. Alone(Main, c) /\ events'[c] = "none" /\ At(Main, c)
    BY <1>0, <1>2, <1>4, <1>8 DEF FdInv, Held
  <2>2. Open(c)' /\ interest'[c] = "in" /\ Idle(c)'
    BY <1>2, <1>3, <1>6, <2>1 DEF At, Open, IsOpen, HasTimer, Idle
  <2> QED
    BY <1>0, <1>2, <1>4, <1>5, <1>8, <2>1, <2>2, LetsGo DEF Free
<1> QED
  BY <1>7, <1>8

(* accept() returns a free number; what was overtaken is not undisturbed.  *)
LEMMA AcceptHeld ==
  ASSUME Base, TypeInv', DealConnection_Accepts, NEW fd \in Undisturbed', FdInv(fd)
  PROVE  Held(fd)'
<1> USE DEF Base, TypeInv
<1>0. Main \in Threads /\ fd \in Fds
  BY DEF Threads, Undisturbed
<1>1. PICK c \in Fds : c = Min(FreeFds) /\ interest[c] = "none"
  BY AcceptedFd DEF DealConnection_Accepts
<1>2. /\ UNCHANGED <<m_workqueue, running, live, user_data, timer, arg, wheel,
                     bytes_to_send, bytes_have_send>>
      /\ m_sockfd' = [m_sockfd EXCEPT ![c] = c] /\ m_sockfd \in [Fds -> Fds \cup {NoFd}]
      /\ interest' = [interest EXCEPT ![c] = "in"]
      /\ interest \in [Fds -> {"none", "off", "in", "out"}]
      /\ sockfd' = c
      /\ \A f \in Fds : events'[f] = events[f]
  BY <1>1, NoConnections DEF DealConnection_Accepts, Handles, wheel, pool, TypeOK, Polled
<1>3. /\ pc[Main] = "events" /\ pc'[Main] = "init_load"
      /\ \A y \in Threads \ {Main} : pc'[y] = pc[y]
  BY <1>0, MoveOf DEF DealConnection_Accepts, Handles
<1>4. /\ \A y \in Threads \ {Main} : Conn(y)' = Conn(y)
      /\ Conn(Main) = NoFd /\ Conn(Main)' = c
  BY <1>2, <1>3, InHand DEF Conn
<1>5. Local(Main, c)
  BY <1>2, <1>3, <1>4 DEF Local
<1>6. CASE fd # c
  BY <1>0, <1>2, <1>5, <1>6, Others DEF FdInv
<1>7. CASE fd = c
  <2>1. ~InPool(c)
    BY <1>1, <1>7 DEF DealConnection_Accepts, Undisturbed
  <2>2. Alone(Main, c) /\ \A y \in Threads : Conn(y) # c
    BY <1>4, <2>1, NoConnections, InHand DEF Alone, InQueue, InPool, Threads
  <2>3. Free(c)
    BY <1>7, <2>2 DEF FdInv, Held, Alone
  <2>4. events[c] = "none" /\ Closed(c)
    BY <1>1, <2>3 DEF Free, Open, IsOpen
  <2>5. NoTimer(c)
    BY <1>7, <2>4, TimerAssumption DEF FdInv, Timed, NoTimer, Closed, TypeOK
  <2>6. At(Main, c)'
    BY <1>2, <1>3, <2>4, <2>5 DEF At, Closed, NoTimer
  <2> QED
    BY <1>0, <1>2, <1>4, <1>5, <1>7, <2>2, <2>4, <2>6, Keeps
<1> QED
  BY <1>6, <1>7

(* A handler of the batch takes the connection of its event. *)
LEMMA DealHeld ==
  ASSUME Base, TypeInv', NEW c \in Fds, DealClose(c) \/ DealRead(c) \/ DealWrite(c),
         NEW fd \in Fds, Held(fd)
  PROVE  Held(fd)'
<1> USE DEF Base, TypeInv
<1>0. Main \in Threads /\ events \in [Polled -> {"none", "in", "out", "hup"}] /\ Fds \subseteq Polled
  BY DEF Threads, TypeOK, Polled
<1>2. /\ UNCHANGED <<m_workqueue, running, live, user_data, timer, arg, wheel, m_sockfd, interest,
                     bytes_to_send, bytes_have_send>>
      /\ events' = [events EXCEPT ![c] = "none"]
      /\ sockfd' = c
  BY DEF DealClose, DealRead, DealWrite, Handles, wheel, pool, object, kernel
<1>3. /\ pc[Main] = "events" /\ events[c] \in {"hup", "in", "out"}
      /\ pc'[Main] = CASE events[c] = "hup" -> "close"
                       [] events[c] = "in"  -> "read"
                       [] events[c] = "out" -> "write"
      /\ \A y \in Threads \ {Main} : pc'[y] = pc[y]
  BY <1>0, MoveOf DEF DealClose, DealRead, DealWrite, Handles
<1>4. /\ \A y \in Threads \ {Main} : Conn(y)' = Conn(y)
      /\ Conn(Main) = NoFd /\ Conn(Main)' = c
  BY <1>2, <1>3, InHand DEF Conn
<1>5. Local(Main, c)
  BY <1>0, <1>2, <1>3, <1>4 DEF Local
<1>6. CASE fd # c
  BY <1>0, <1>2, <1>5, <1>6, Others
<1>7. CASE fd = c
  <2>1. Free(c) /\ ~InQueue(c) /\ \A y \in Threads : Conn(y) # c
    BY <1>3, <1>7 DEF Held, Waiting
  <2>2. /\ Open(c) /\ interest[c] = "off"
        /\ events[c] = "in" => Idle(c)
        /\ events[c] = "out" => Sending(c)
    BY <1>3, <2>1 DEF Free
  <2>3. At(Main, c)'
    <3>1. Open(c)' /\ interest'[c] = "off"
      BY <1>2, <2>2 DEF Open, IsOpen, HasTimer
    <3>2. (Idle(c)' <=> Idle(c)) /\ (Sending(c)' <=> Sending(c))
      BY <1>2 DEF Idle, Sending
    <3> QED
      BY <1>3, <2>2, <3>1, <3>2 DEF At
  <2>4. Alone(Main, c) /\ events'[c] = "none"
    BY <1>0, <1>2, <2>1 DEF Alone
  <2> QED
    BY <1>0, <1>2, <1>4, <1>5, <1>7, <2>3, <2>4, Keeps
<1> QED
  BY <1>6, <1>7

(* tick() takes the connection of a timer.                                 *)
LEMMA FireHeld ==
  ASSUME Base, TypeInv', NEW t \in Timers, Tick_Fire(t), NEW fd \in Undisturbed', FdInv(fd)
  PROVE  Held(fd)'
<1> USE DEF Base, TypeInv
<1>0. Main \in Threads /\ fd \in Fds
  BY DEF Threads, Undisturbed
<1>1. PICK c \in Fds : c = user_data[t] /\ t \in live
  BY DEF Tick_Fire, Holding
<1>2. /\ UNCHANGED <<m_workqueue, running, live, user_data, timer, arg, wheel, m_sockfd, interest,
                     bytes_to_send, bytes_have_send, events>>
      /\ sockfd' = c
  BY <1>1 DEF Tick_Fire, wheel, pool, object, kernel
<1>3. /\ pc[Main] = "tick" /\ pc'[Main] = "close"
      /\ \A y \in Threads \ {Main} : pc'[y] = pc[y]
  BY <1>0, MoveOf DEF Tick_Fire
<1>4. /\ \A y \in Threads \ {Main} : Conn(y)' = Conn(y)
      /\ Conn(Main) = NoFd /\ Conn(Main)' = c
  BY <1>2, <1>3, InHand DEF Conn
<1>5. Local(Main, c)
  BY <1>2, <1>3, <1>4 DEF Local
<1>6. CASE fd # c
  BY <1>0, <1>2, <1>5, <1>6, Others DEF FdInv
<1>7. CASE fd = c
  <2>1. ~InPool(c)
    BY <1>1, <1>7 DEF Tick_Fire, Undisturbed
  <2>2. Alone(Main, c) /\ \A y \in Threads : Conn(y) # c
    BY <1>4, <2>1, NoConnections, InHand DEF Alone, InQueue, InPool, Threads
  <2>3. Free(c)
    BY <1>7, <2>2 DEF FdInv, Held, Alone
  <2>4. timer[c] = t
    BY <1>1, <1>7 DEF FdInv, Timed
  <2>5. Open(c)
    BY <2>3, <2>4, TimerAssumption DEF Free, Closed
  <2>6. At(Main, c)'
    BY <1>2, <1>3, <2>5 DEF At, Open, IsOpen, HasTimer
  <2>7. events[c] = "none"
    BY <1>3 DEF BatchInv, Polled
  <2> QED
    BY <1>0, <1>2, <1>4, <1>5, <1>7, <2>2, <2>6, <2>7, Keeps
<1> QED
  BY <1>6, <1>7

(* epoll_wait() reports watched connections, and watches them no longer.   *)
LEMMA EpollHeld ==
  ASSUME Base, TypeInv', EpollWait, NEW fd \in Fds, Held(fd)
  PROVE  Held(fd)'
<1> USE DEF Base, TypeInv
<1>0. Main \in Threads /\ Fds \subseteq Polled
  BY DEF Threads, Polled
<1>1. /\ UNCHANGED <<m_workqueue, running, live, user_data, timer, arg, wheel, m_sockfd,
                     bytes_to_send, bytes_have_send, sockfd>>
      /\ \A f \in Fds : /\ events'[f] = Event(f)
                        /\ interest'[f] = IF Event(f) = "none" THEN interest[f] ELSE "off"
  BY <1>0 DEF EpollWait, wheel, pool, object
<1>2. /\ pc[Main] = "epoll_wait" /\ \A y \in Threads \ {Main} : pc'[y] = pc[y]
      /\ events[fd] = "none"
  BY <1>0, MoveOf DEF EpollWait, BatchInv
<1>3. Conn(Main) = NoFd /\ \A y \in Threads : Conn(y)' = Conn(y)
  BY <1>1, <1>2, InHand DEF Conn
<1>4. /\ interest[fd] \notin {"in", "out"} => Event(fd) = "none"
      /\ interest[fd] = "in" => Event(fd) \in {"none", "hup", "in"}
      /\ interest[fd] = "out" => Event(fd) \in {"none", "hup", "out"}
  BY NoConnections DEF Event
<1>5. /\ IsOpen(fd)' <=> IsOpen(fd)
      /\ HasTimer(fd)' <=> HasTimer(fd)
      /\ NoTimer(fd)' <=> NoTimer(fd)
  <2>1. interest[fd] \in {"none", "off", "in", "out"}
    BY DEF TypeOK
  <2>2. IsOpen(fd)' <=> IsOpen(fd)
    BY <1>1, <1>4, <2>1 DEF IsOpen
  <2> QED
    BY <1>1, <2>2 DEF HasTimer, NoTimer
<1>6. /\ Open(fd)' <=> Open(fd)
      /\ Closed(fd)' <=> Closed(fd)
      /\ Idle(fd)' <=> Idle(fd)
      /\ Sending(fd)' <=> Sending(fd)
  BY <1>1, <1>5 DEF Open, Closed, Idle, Sending
<1>7. CASE interest[fd] \notin {"in", "out"}
  <2>1. interest'[fd] = interest[fd] /\ events'[fd] = events[fd]
    BY <1>1, <1>2, <1>4, <1>7
  <2>2. \A y \in Threads \ {Main} : At(y, fd) => At(y, fd)'
    BY <1>1, <1>2, <1>5, <1>6, <2>1 DEF At
  <2>3. \A y \in Threads : Alone(y, fd) => Alone(y, fd)'
    BY <1>1, <1>3 DEF Alone, InQueue
  <2>4. (Waiting(fd) => Waiting(fd)') /\ (Free(fd) => Free(fd)') /\ (InQueue(fd)' <=> InQueue(fd))
    BY <1>1, <1>6, <2>1 DEF Waiting, Free, Once, InQueue
  <2>5. \A y \in Threads : Conn(y) = fd => y # Main
    BY <1>3, NoConnections
  <2> QED
    BY <1>2, <1>3, <2>1, <2>2, <2>3, <2>4, <2>5 DEF Held
<1>8. CASE interest[fd] \in {"in", "out"}
  <2>1. \A y \in Threads : Conn(y) # fd
    <3>1. SUFFICES ASSUME NEW y \in Threads, Conn(y) = fd PROVE FALSE
      OBVIOUS
    <3>2. y \in Workers /\ At(y, fd) /\ pc[y] # "take"
      BY <1>3, <3>1, NoConnections, InHand DEF Held, Threads
    <3>3. pc[y] \in ClosePCs \cup {"parse", "arm_in", "arm_out"} /\ y # Main
      BY <3>2, ThreadAssumption DEF PcOK, WorkerPCs
    <3>4. interest[fd] = "off" \/ interest[fd] = "none"
      BY <3>2, <3>3 DEF At, ClosePCs, IsOpen, Closed
    <3> QED
      BY <1>8, <3>4
  <2>2. ~InQueue(fd)
    BY <1>8 DEF Held, Waiting
  <2>3. Free(fd)
    BY <2>1, <2>2 DEF Held
  <2>4. /\ Open(fd)
        /\ interest[fd] = "in" => Idle(fd)
        /\ interest[fd] = "out" => Sending(fd)
    BY <1>2, <1>8, <2>3 DEF Free, Closed, IsOpen
  <2>5. Free(fd)'
    BY <1>1, <1>2, <1>4, <1>6, <1>8, <2>4 DEF Free
  <2>6. ~InQueue(fd)' /\ \A y \in Threads : Conn(y)' # fd
    BY <1>1, <1>3, <2>1, <2>2 DEF InQueue
  <2> QED
    BY <2>5, <2>6 DEF Held
<1> QED
  BY <1>7, <1>8

(* The event loop between two handlers. *)
LEMMA IdleHeld ==
  ASSUME Base, TypeInv',
         DealConnection_Fails \/ DealConnection_Refuses \/ DealSignal \/ EndOfEvents \/ Tick_End,
         NEW fd \in Fds, Held(fd)
  PROVE  Held(fd)'
<1> USE DEF Base, TypeInv
<1>0. Main \in Threads
  BY DEF Threads
<1>1. /\ UNCHANGED <<m_workqueue, running, live, user_data, timer, arg, wheel, m_sockfd,
                     bytes_to_send, bytes_have_send, sockfd, interest>>
      /\ \A f \in Fds : events'[f] = events[f]
  BY NoConnections DEF DealConnection_Fails, DealConnection_Refuses, DealSignal, EndOfEvents,
     Tick_End, Handles, kernel, wheel, pool, object, TypeOK, Polled
<1>2. /\ pc[Main] \in {"events", "tick"} /\ \A y \in Threads \ {Main} : pc'[y] = pc[y]
  BY <1>0, MoveOf DEF DealConnection_Fails, DealConnection_Refuses, DealSignal, EndOfEvents,
     Tick_End, Handles
<1>3. Conn(Main) = NoFd /\ \A y \in Threads : Conn(y)' = Conn(y)
  BY <1>1, <1>2, InHand DEF Conn
<1>4. Local(Main, NoFd)
  <2>1. \A y \in Threads \ {Main} : pc'[y] = pc[y] /\ arg'[y] = arg[y] /\ Conn(y)' = Conn(y)
    BY <1>1, <1>2, <1>3
  <2>2. Conn(Main) = NoFd /\ Conn(Main)' = NoFd
    BY <1>0, <1>3
  <2> QED
    BY <1>1, <2>1, <2>2 DEF Local
<1> QED
  BY <1>0, <1>1, <1>4, NoConnections, Others

(***************************************************************************)
(* The timers of a connection.                                             *)
(***************************************************************************)

(* Thread x is not deleting a timer, and no pointer to one changes. *)
LEMMA TimedSame ==
  ASSUME Base, NEW x \in Threads, pc[x] # "del_timer",
         UNCHANGED <<timer, live, user_data, arg>>,
         \A y \in Threads \ {x} : Conn(y)' = Conn(y),
         NEW fd \in Fds, Timed(fd)
  PROVE  Timed(fd)'
<1>1. \A y \in Threads : arg[y] # NULL => Conn(y)' = Conn(y)
  BY DEF Base, ObjectInv
<1>2. \A t \in live : t # NULL
  BY TimerAssumption DEF Base, TypeInv, TypeOK
<1> QED
  BY <1>1, <1>2 DEF Timed

LEMMA CloseTimed ==
  ASSUME Base, NEW x \in Threads, CloseConn(x), NEW fd \in Fds, FdInv(fd)
  PROVE  Timed(fd)'
<1> USE DEF Base, TypeInv
<1>0. /\ live \subseteq Timers /\ arg \in [Threads -> Timers \cup {NULL}]
      /\ timer \in [Fds -> Timers \cup {NULL}] /\ user_data \in [Timers -> Fds \cup {NoFd}]
      /\ NULL \notin Timers /\ NoFd \notin Fds
  BY TimerAssumption, NoConnections DEF TypeOK
<1>1. CASE Close_Socket(x) \/ Close_Forget(x) \/ Close_Load(x) \/ Close_Store(x)
  <2>1. UNCHANGED <<timer, live, user_data, arg, sockfd, running>> /\ pc[x] # "del_timer"
    BY <1>1 DEF Close_Socket, Close_Forget, Close_Load, Close_Store, object, wheel, loop, pool, GoTo
  <2> QED
    BY <2>1, TimedSame DEF Conn, FdInv
<1>2. PICK c \in Fds : pc[x] \in {"timer", "del_timer", "clear"} => c = Conn(x)
  <2>1. pc[x] \in {"timer", "del_timer", "clear"} => Conn(x) \in Fds
    BY InHand DEF Threads
  <2> QED
    BY <2>1
<1>3. CASE Close_Timer(x)
  <2>1. /\ UNCHANGED <<timer, live, user_data, running>> /\ arg' = [arg EXCEPT ![x] = timer[c]]
        /\ c = Conn(x) /\ (timer[c] # NULL => UNCHANGED sockfd) /\ (x # Main => UNCHANGED sockfd)
    BY <1>2, <1>3 DEF Close_Timer, GoTo, object, wheel, pool, EndOf
  <2>2. \A y \in Threads \ {x} : Conn(y)' = Conn(y)
    BY <2>1 DEF Conn
  <2>3. timer[c] # NULL => Conn(x)' = c
    BY <2>1 DEF Conn
  <2>4. SUFFICES ASSUME NEW t \in live, user_data[t] = fd
                 PROVE  /\ timer[fd] = t
                        /\ \A other \in Fds \ {fd} : timer[other] # t
                        /\ \A y \in Threads : arg'[y] = t => Conn(y)' = fd
    BY <2>1 DEF Timed
  <2>5. /\ timer[fd] = t
        /\ \A other \in Fds \ {fd} : timer[other] # t
        /\ \A y \in Threads : arg[y] = t => Conn(y) = fd
    BY <2>4 DEF FdInv, Timed
  <2>6. \A y \in Threads \ {x} : arg'[y] = t => Conn(y)' = fd
    BY <1>0, <2>1, <2>2, <2>5
  <2>7. arg'[x] = t => Conn(x)' = fd
    BY <1>0, <2>1, <2>3, <2>4, <2>5
  <2> QED
    BY <2>5, <2>6, <2>7
<1>4. CASE Close_DelTimer(x)
  <2>1. /\ UNCHANGED <<timer, sockfd, running>> /\ arg' = [arg EXCEPT ![x] = NULL]
        /\ live' = live \ {arg[x]} /\ user_data' = Freed(arg[x])
    BY <1>4 DEF Close_DelTimer, object, loop, pool
  <2>2. \A y \in Threads : Conn(y)' = Conn(y)
    BY <2>1 DEF Conn
  <2>3. \A t \in live' : t \in live /\ t # NULL /\ user_data'[t] = user_data[t]
    BY <1>0, <2>1 DEF Freed
  <2>4. \A y \in Threads : arg'[y] = arg[y] \/ arg'[y] = NULL
    BY <1>0, <2>1
  <2> QED
    BY <2>1, <2>2, <2>3, <2>4 DEF FdInv, Timed
<1>5. CASE Close_Clear(x)
  <2>1. /\ UNCHANGED <<live, user_data, arg, running>> /\ timer' = [timer EXCEPT ![c] = NULL]
        /\ c = Conn(x) /\ (x # Main => UNCHANGED sockfd) /\ pc[x] = "clear"
    BY <1>2, <1>5 DEF Close_Clear, GoTo, wheel, pool, EndOf
  <2>2. \A y \in Threads \ {x} : Conn(y)' = Conn(y)
    BY <2>1 DEF Conn
  <2>3. \A y \in Threads : arg[y] # NULL => Conn(y)' = Conn(y)
    BY <2>1, <2>2 DEF ObjectInv
  <2>4. CASE fd = c
    <3>1. NoTimer(fd)
      BY <2>1, <2>4 DEF FdInv, Held, At
    <3> QED
      BY <2>1, <3>1 DEF NoTimer, Timed
  <2>5. CASE fd # c
    <3>1. \A other \in Fds : timer'[other] = timer[other] \/ timer'[other] = NULL
      BY <1>0, <2>1
    <3>2. timer'[fd] = timer[fd]
      BY <1>0, <2>1, <2>5
    <3>3. \A t \in live : t # NULL
      BY <1>0
    <3> QED
      BY <2>1, <2>3, <3>1, <3>2, <3>3 DEF FdInv, Timed
  <2> QED
    BY <2>4, <2>5
<1> QED
  BY <1>1, <1>3, <1>4, <1>5 DEF CloseConn

LEMMA FiredTimed ==
  ASSUME Base, Tick_Fired, NEW fd \in Fds, Timed(fd)
  PROVE  Timed(fd)'
<1> USE DEF Base, TypeInv
<1>0. /\ live \subseteq Timers /\ timer \in [Fds -> Timers \cup {NULL}]
      /\ user_data \in [Timers -> Fds \cup {NoFd}]
      /\ NULL \notin Timers /\ NoFd \notin Fds /\ Main \in Threads /\ Main \notin Workers
  BY TimerAssumption, NoConnections, ThreadAssumption DEF TypeOK, Threads
<1>1. PICK c \in Fds : c = sockfd
  BY InHand DEF Tick_Fired, GoTo
<1>2. /\ UNCHANGED <<arg, running>> /\ timer' = [timer EXCEPT ![c] = NULL] /\ pc[Main] = "fired"
      /\ live' = live \ {tmp} /\ user_data' = Freed(tmp)
  BY <1>1 DEF Tick_Fired, GoTo, pool
<1>3. tmp \in live /\ user_data[tmp] = c
  BY <1>1, <1>2, <1>0 DEF TickInv
<1>4. \A t \in live' : t \in live /\ t # NULL /\ t # tmp /\ user_data'[t] = user_data[t]
  BY <1>0, <1>2 DEF Freed
<1>5. \A y \in Threads : arg[y] # NULL => Conn(y)' = Conn(y)
  BY <1>2 DEF ObjectInv, Conn
<1>6. CASE fd = c
  <2>1. \A t \in live' : user_data'[t] # fd
    BY <1>3, <1>4, <1>6 DEF Timed
  <2> QED
    BY <2>1 DEF Timed
<1>7. CASE fd # c
  <2>1. \A other \in Fds : timer'[other] = timer[other] \/ timer'[other] = NULL
    BY <1>0, <1>2
  <2>2. timer'[fd] = timer[fd] /\ UNCHANGED arg
    BY <1>0, <1>2, <1>7
  <2> QED
    BY <1>4, <1>5, <2>1, <2>2 DEF Timed
<1> QED
  BY <1>6, <1>7

(* The address of the new timer may be one that somebody still knows; then *)
(* the connection counts as overtaken.                                     *)
LEMMA InitTimed ==
  ASSUME Base, NEW u \in Timers, Init_Timer(u), NEW fd \in Undisturbed', FdInv(fd)
  PROVE  Timed(fd)'
<1> USE DEF Base, TypeInv
<1>0. /\ live \subseteq Timers /\ timer \in [Fds -> Timers \cup {NULL}]
      /\ user_data \in [Timers -> Fds \cup {NoFd}]
      /\ NULL \notin Timers /\ NoFd \notin Fds /\ Main \in Threads /\ fd \in Fds
  BY TimerAssumption, NoConnections DEF TypeOK, Threads, Undisturbed
<1>1. PICK c \in Fds : c = sockfd
  BY InHand DEF Init_Timer, GoTo
<1>2. /\ UNCHANGED <<arg, running>> /\ timer' = [timer EXCEPT ![c] = u] /\ pc[Main] = "init_timer"
      /\ u \notin live /\ live' = live \cup {u} /\ user_data' = [user_data EXCEPT ![u] = c]
      /\ Conn(Main) = c
  BY <1>1 DEF Init_Timer, GoTo, pool, Conn
<1>3. \A y \in Threads : arg[y] # NULL => Conn(y)' = Conn(y)
  BY <1>2 DEF ObjectInv, Conn
<1>4. CASE fd = c
  <2>1. ~Referred(u)
    BY <1>1, <1>4 DEF Init_Timer, Undisturbed
  <2>2. NoTimer(c)
    BY <1>0, <1>2, <1>4 DEF FdInv, Held, At
  <2>3. \A t \in live' : user_data'[t] = c => t = u
    BY <1>0, <1>2, <2>2 DEF NoTimer
  <2>4. timer'[c] = u /\ \A other \in Fds \ {c} : timer'[other] = timer[other] /\ timer[other] # u
    BY <1>0, <1>1, <1>2, <2>1 DEF Referred
  <2>5. \A y \in Threads : arg'[y] # u
    BY <1>2, <2>1 DEF Referred
  <2> QED
    BY <1>4, <2>3, <2>4, <2>5 DEF Timed
<1>5. CASE fd # c
  <2>1. \A t \in live' : user_data'[t] = fd => t \in live /\ user_data[t] = fd /\ t # u /\ t # NULL
    BY <1>0, <1>2, <1>5
  <2>2. /\ \A other \in Fds : timer'[other] = timer[other] \/ timer'[other] = u
        /\ timer'[fd] = timer[fd] /\ UNCHANGED arg
    BY <1>0, <1>2, <1>5
  <2> QED
    BY <1>3, <2>1, <2>2 DEF FdInv, Timed
<1> QED
  BY <1>4, <1>5

(* No other step touches a timer or a pointer to one. *)
LEMMA OtherTimed ==
  ASSUME Base,
         \/ EpollWait \/ DealConnection_Fails \/ DealConnection_Refuses \/ DealConnection_Accepts
         \/ Init_Load \/ Init_Store \/ DealSignal
         \/ (\E c \in Fds : DealClose(c) \/ DealRead(c) \/ DealWrite(c))
         \/ Read \/ AppendToPool \/ Write \/ EndOfEvents \/ Tick_End
         \/ (\E t \in Timers : Tick_Fire(t))
         \/ (\E w \in Workers : \/ Take(w) \/ Parse_Incomplete(w) \/ Parse_Request(w)
                                \/ Parse_BadRequest(w) \/ Rearm(w)),
         NEW fd \in Fds, Timed(fd)
  PROVE  Timed(fd)'
<1> USE DEF GoTo, Handles, kernel, object, wheel, pool, loop
<1>0. Main \in Threads /\ Workers \subseteq Threads /\ Main \notin Workers
  BY ThreadAssumption DEF Threads
<1>1. ASSUME NEW w \in Workers,
             Take(w) \/ Parse_Incomplete(w) \/ Parse_Request(w) \/ Parse_BadRequest(w) \/ Rearm(w)
      PROVE  Timed(fd)'
  <2>1. /\ UNCHANGED <<timer, live, user_data, arg, sockfd>> /\ pc[w] # "del_timer"
    BY <1>1 DEF Take, Parse_Incomplete, Parse_Request, Parse_BadRequest, Rearm
  <2>2. \A v \in Workers \ {w} : running'[v] = running[v]
    BY <1>1 DEF Take, Pool!Start, Parse_Incomplete, Parse_Request, Parse_BadRequest, Rearm,
       Pool!Finish, Base, TypeInv, TypeOK
  <2>3. \A y \in Threads \ {w} : Conn(y)' = Conn(y)
    BY <2>1, <2>2 DEF Conn, Threads
  <2> QED
    BY <1>0, <2>1, <2>3, TimedSame
<1>2. CASE \/ EpollWait \/ DealConnection_Fails \/ DealConnection_Refuses \/ DealConnection_Accepts
           \/ Init_Load \/ Init_Store \/ DealSignal
           \/ (\E c \in Fds : DealClose(c) \/ DealRead(c) \/ DealWrite(c))
           \/ Read \/ AppendToPool \/ Write \/ EndOfEvents \/ Tick_End
           \/ (\E t \in Timers : Tick_Fire(t))
  <2>1. CASE \/ EpollWait \/ DealConnection_Fails \/ DealConnection_Refuses \/ DealConnection_Accepts
             \/ Init_Load \/ Init_Store \/ DealSignal
             \/ (\E c \in Fds : DealClose(c) \/ DealRead(c) \/ DealWrite(c))
    <3>1. UNCHANGED <<timer, live, user_data, arg, running>> /\ pc[Main] # "del_timer"
      BY <2>1 DEF EpollWait, DealConnection_Fails, DealConnection_Refuses, DealConnection_Accepts,
         Init_Load, Init_Store, DealSignal, DealClose, DealRead, DealWrite
    <3> QED
      BY <1>0, <3>1, TimedSame DEF Conn
  <2>2. CASE \/ Read \/ AppendToPool \/ Write \/ EndOfEvents \/ Tick_End
             \/ (\E t \in Timers : Tick_Fire(t))
    <3>1. UNCHANGED <<timer, live, user_data, arg, running>> /\ pc[Main] # "del_timer"
      BY <2>2 DEF Read, AppendToPool, Pool!Submit, Write, Write_Nothing, Write_Fails, Write_Blocks,
         Write_Takes, Write_KeepsAlive, Write_EndsConnection, Writing, EndOfEvents, Tick_End, Tick_Fire
    <3> QED
      BY <1>0, <3>1, TimedSame DEF Conn
  <2> QED
    BY <1>2, <2>1, <2>2
<1> QED
  BY <1>1, <1>2

(***************************************************************************)
(* The invariant is kept by every step.                                    *)
(***************************************************************************)

(* A step of a client or of the kernel touches nothing of it. *)
LEMMA OutsideStep ==
  ASSUME ClientStep \/ SignalHandler \/ UNCHANGED vars
  PROVE  UNCHANGED <<interest, object, m_user_count, wheel, pool, loop, events, sockfd, pc, loaded,
                     arg, crashed, history>>
  BY DEF ClientStep, SignalHandler, Connect, Send, Leave, Drain, vars, kernel, loop

(* Overtaken once, a connection stays so. *)
LEMMA HistoryGrows ==
  ASSUME [Next]_vars
  PROVE  overtaken \subseteq overtaken' /\ (torn => torn')
<1> DEFINE grows == overtaken \subseteq overtaken' /\ (torn => torn')
<1>1. ASSUME NEW x \in Threads, CloseConn(x) PROVE grows
  <2>1. CASE Close_Load(x)
    <3>1. torn' = (torn \/ Tears(x)) /\ UNCHANGED overtaken
      BY <2>1 DEF Close_Load
    <3> QED
      BY <3>1
  <2>2. CASE ~Close_Load(x)
    BY <1>1, <2>2 DEF CloseConn, Close_Socket, Close_Forget, Close_Store, Close_Timer,
       Close_DelTimer, Close_Clear, history
  <2> QED
    BY <2>1, <2>2
<1>2. ASSUME NEW w \in Workers, WorkerStep(w) PROVE grows
  <2>1. CASE ~CloseConn(w)
    BY <1>2, <2>1
       DEF WorkerStep, Take, Parse_Incomplete, Parse_Request, Parse_BadRequest, Rearm, history
  <2> QED
    BY <1>1, <2>1 DEF Threads
<1>3. CASE MainStep
  <2>1. CASE Init_Load
    <3>1. torn' = (torn \/ Tears(Main)) /\ UNCHANGED overtaken
      BY <2>1 DEF Init_Load
    <3> QED
      BY <3>1
  <2>2. CASE \/ DealConnection_Accepts \/ (\E t \in Timers : Init_Timer(t) \/ Tick_Fire(t))
    <3>1. UNCHANGED torn /\ \E c : overtaken' = overtaken \cup {c} \/ overtaken' = overtaken
      BY <2>2 DEF DealConnection_Accepts, Init_Timer, Tick_Fire
    <3> QED
      BY <3>1
  <2>3. CASE \/ EpollWait \/ DealConnection_Fails \/ DealConnection_Refuses
             \/ Init_Store \/ DealSignal
             \/ (\E c \in Fds : DealClose(c) \/ DealRead(c) \/ DealWrite(c))
    BY <2>3 DEF EpollWait, DealConnection_Fails, DealConnection_Refuses,
       Init_Store, DealSignal, DealClose, DealRead, DealWrite, history
  <2>4. CASE Read \/ AppendToPool \/ Write \/ EndOfEvents \/ Tick_End \/ Tick_Fired
    BY <2>4 DEF Read, AppendToPool, Write, Write_Nothing, Write_Fails, Write_Blocks,
       Write_Takes, Write_KeepsAlive, Write_EndsConnection, EndOfEvents, Tick_End, Tick_Fired, history
  <2> QED
    BY <1>1, <1>3, <2>1, <2>2, <2>3, <2>4 DEF MainStep, Threads
<1>4. CASE ClientStep \/ SignalHandler \/ UNCHANGED vars
  BY <1>4, OutsideStep DEF history
<1> QED
  BY <1>2, <1>3, <1>4 DEF Next, Undefined

LEMMA ConnectionStep ==
  ASSUME IInv, [Next]_vars, NEW fd \in Undisturbed'
  PROVE  FdInv(fd)'
<1>1. Base /\ Base' /\ TypeInv' /\ TypeOK /\ TypeOK'
  BY StepBase DEF IInv, Base, TypeInv
<1>2. fd \in Fds /\ FdInv(fd) /\ Held(fd) /\ Timed(fd)
  BY HistoryGrows DEF Undisturbed, IInv, FdInv
<1>3. ASSUME NEW x \in Threads, CloseConn(x) PROVE FdInv(fd)'
  <2>1. Held(fd)'
    BY <1>1, <1>2, <1>3, CloseHeld, CloseTimerHeld, DelTimerHeld, ClearHeld DEF CloseConn
  <2>2. Timed(fd)'
    BY <1>1, <1>2, <1>3, CloseTimed
  <2> QED
    BY <2>1, <2>2 DEF FdInv
<1>4. ASSUME NEW w \in Workers, WorkerStep(w) PROVE FdInv(fd)'
  <2>1. CASE CloseConn(w)
    BY <1>3, <2>1 DEF Threads
  <2>2. CASE Take(w) \/ Parse_Incomplete(w) \/ Parse_Request(w) \/ Parse_BadRequest(w) \/ Rearm(w)
    <3>1. Held(fd)'
      BY <1>1, <1>2, <2>2, TakeHeld, ParseHeld, RearmHeld
    <3>2. Timed(fd)'
      BY <1>1, <1>2, <2>2, OtherTimed
    <3> QED
      BY <3>1, <3>2 DEF FdInv
  <2> QED
    BY <1>4, <2>1, <2>2 DEF WorkerStep
<1>5. CASE MainStep
  <2>1. CASE CloseConn(Main)
    BY <1>3, <2>1 DEF Threads
  <2>2. CASE Tick_Fired
    BY <1>1, <1>2, <2>2, FiredHeld, FiredTimed DEF FdInv
  <2>3. ASSUME NEW t \in Timers, Init_Timer(t) PROVE FdInv(fd)'
    BY <1>1, <1>2, <2>3, InitTimerHeld, InitTimed DEF FdInv
  <2>4. CASE \/ EpollWait \/ DealConnection_Fails \/ DealConnection_Refuses \/ DealConnection_Accepts
             \/ Init_Load \/ Init_Store \/ DealSignal
             \/ (\E c \in Fds : DealClose(c) \/ DealRead(c) \/ DealWrite(c))
             \/ Read \/ AppendToPool \/ Write \/ EndOfEvents \/ Tick_End
             \/ (\E t \in Timers : Tick_Fire(t))
    <3>1. Timed(fd)'
      BY <1>1, <1>2, <2>4, OtherTimed
    <3>2. CASE EpollWait
      BY <1>1, <1>2, <3>1, <3>2, EpollHeld DEF FdInv
    <3>3. CASE DealConnection_Fails \/ DealConnection_Refuses \/ DealSignal \/ EndOfEvents \/ Tick_End
      BY <1>1, <1>2, <3>1, <3>3, IdleHeld DEF FdInv
    <3>4. CASE DealConnection_Accepts
      BY <1>1, <1>2, <3>1, <3>4, AcceptHeld DEF FdInv
    <3>5. CASE \E c \in Fds : DealClose(c) \/ DealRead(c) \/ DealWrite(c)
      BY <1>1, <1>2, <3>1, <3>5, DealHeld DEF FdInv
    <3>6. CASE \E t \in Timers : Tick_Fire(t)
      BY <1>1, <1>2, <3>1, <3>6, FireHeld DEF FdInv
    <3>7. CASE AppendToPool
      BY <1>1, <1>2, <3>1, <3>7, AppendHeld DEF FdInv
    <3>8. CASE Init_Load \/ Init_Store \/ Read \/ Write
      BY <1>1, <1>2, <3>1, <3>8, GoingHeld, WriteHeld DEF FdInv, Write
    <3> QED
      BY <2>4, <3>2, <3>3, <3>4, <3>5, <3>6, <3>7, <3>8
  <2> QED
    BY <1>5, <2>1, <2>2, <2>3, <2>4 DEF MainStep
<1>6. CASE ClientStep \/ SignalHandler \/ UNCHANGED vars
  <2>1. UNCHANGED <<interest, object, wheel, pool, events, sockfd, pc, arg>>
    BY <1>6, OutsideStep
  <2>2. Held(fd)'
    BY <1>1, <1>2, <2>1, Nothing
  <2>3. Timed(fd)'
    BY <1>2, <2>1 DEF Timed, Conn, object, wheel, pool
  <2> QED
    BY <2>2, <2>3 DEF FdInv
<1> QED
  BY <1>4, <1>5, <1>6 DEF Next, Undefined

(* Only del_timer and timer_update() can meet a deleted timer. *)
LEMMA CrashStep ==
  ASSUME IInv, [Next]_vars
  PROVE  NoUseAfterFree'
<1> USE DEF IInv, TypeInv
<1>0. /\ NoUseAfterFree /\ overtaken \subseteq overtaken'
      /\ \A x \in Threads : Conn(x) \in Fds \cup {NoFd}
  BY HistoryGrows, InHand
<1>1. ASSUME NEW x \in Threads, Close_DelTimer(x) PROVE NoUseAfterFree'
  <2>1. /\ pc[x] = "del_timer" /\ crashed' = (arg[x] \notin live)
        /\ UNCHANGED <<sockfd, running, overtaken>>
    BY <1>1 DEF Close_DelTimer, GoTo, loop, pool, history
  <2>2. Conn(x)' = Conn(x) /\ Conn(x) \in Fds
    BY <2>1, InHand DEF Conn, Threads
  <2>3. Conn(x) \in Undisturbed => arg[x] \in live
    BY <2>1 DEF FdInv, Held, At, HasTimer
  <2> QED
    BY <2>1, <2>2, <2>3 DEF NoUseAfterFree, Undisturbed
<1>2. ASSUME NEW c \in Fds, DealRead(c) \/ DealWrite(c) PROVE NoUseAfterFree'
  <2>1. /\ sockfd' = c /\ crashed' = (timer[c] \notin live \cup {NULL}) /\ events[c] \in {"in", "out"}
        /\ UNCHANGED overtaken
    BY <1>2 DEF DealRead, DealWrite, TimerUpdate, Handles, history
  <2>2. c \in Undisturbed => HasTimer(c)
    <3>1. SUFFICES ASSUME c \in Undisturbed PROVE HasTimer(c)
      OBVIOUS
    <3>2. Free(c)
      BY <2>1, <3>1 DEF FdInv, Held, Waiting
    <3> QED
      BY <2>1, <3>2 DEF Free, Open
  <2>3. Conn(Main)' = c /\ Main \in Threads
    BY <2>1 DEF Conn, Threads
  <2> QED
    BY <2>1, <2>2, <2>3 DEF NoUseAfterFree, Undisturbed, HasTimer
<1>3. ASSUME crashed' => crashed, ~crashed \/ \A x \in Threads : Conn(x)' = Conn(x)
      PROVE  NoUseAfterFree'
  BY <1>0, <1>3 DEF NoUseAfterFree
<1>4. ASSUME NEW x \in Threads, CloseConn(x) PROVE NoUseAfterFree'
  <2>1. CASE ~Close_DelTimer(x)
    <3>1. ~crashed /\ ~crashed'
      BY <1>4, <2>1 DEF CloseConn, Close_Socket, Close_Forget, Close_Load, Close_Store, Close_Timer,
         Close_Clear, GoTo
    <3> QED
      BY <3>1 DEF NoUseAfterFree
  <2> QED
    BY <1>1, <2>1
<1>5. ASSUME NEW w \in Workers, WorkerStep(w) PROVE NoUseAfterFree'
  <2>1. CASE ~CloseConn(w)
    <3>1. ~crashed /\ ~crashed'
      BY <1>5, <2>1 DEF WorkerStep, Take, Parse_Incomplete, Parse_Request, Parse_BadRequest, Rearm, GoTo
    <3> QED
      BY <3>1 DEF NoUseAfterFree
  <2> QED
    BY <1>4, <2>1 DEF Threads
<1>6. CASE MainStep
  <2>1. CASE \/ EpollWait \/ DealConnection_Fails \/ DealConnection_Refuses \/ DealConnection_Accepts
             \/ Init_Load \/ Init_Store \/ DealSignal \/ (\E t \in Timers : Init_Timer(t))
             \/ (\E c \in Fds : DealClose(c)) \/ Read \/ AppendToPool \/ Write
             \/ EndOfEvents \/ Tick_End \/ Tick_Fired \/ (\E t \in Timers : Tick_Fire(t))
    <3>1. ~crashed /\ ~crashed'
      BY <2>1 DEF EpollWait, DealConnection_Fails, DealConnection_Refuses, DealConnection_Accepts,
         Init_Load, Init_Store, DealSignal, Init_Timer, DealClose, Handles, GoTo, Read, AppendToPool,
         Write, Write_Nothing, Write_Fails, Write_Blocks, Write_Takes, Write_KeepsAlive, Writing,
         Write_EndsConnection, EndOfEvents, Tick_End, Tick_Fired, Tick_Fire
    <3> QED
      BY <3>1 DEF NoUseAfterFree
  <2> QED
    BY <1>2, <1>4, <1>6, <2>1 DEF MainStep, Threads
<1>7. CASE ClientStep \/ SignalHandler \/ UNCHANGED vars
  <2>1. UNCHANGED <<crashed, sockfd, pool>>
    BY <1>7, OutsideStep
  <2> QED
    BY <1>3, <2>1 DEF Conn, pool
<1> QED
  BY <1>5, <1>6, <1>7 DEF Next, Undefined

(***************************************************************************)
(* The invariant holds, and what follows from it.                          *)
(***************************************************************************)
LEMMA InitIInv == Init => IInv
<1> SUFFICES ASSUME Init PROVE IInv
  OBVIOUS
<1>1. TypeInv
  BY InitTypeInv
<1>2. /\ m_workqueue = <<>> /\ \A w \in Workers : running[w] = NoFd
      /\ pc[Main] = "epoll_wait" /\ sockfd = NoFd /\ tmp = NULL /\ live = {} /\ ~crashed
      /\ \A fd \in Polled : events[fd] = "none"
      /\ \A fd \in Fds : interest[fd] = "none" /\ m_sockfd[fd] = NoFd /\ timer[fd] = NULL
      /\ \A x \in Threads : arg[x] = NULL
  BY ThreadAssumption DEF Init, Pool!Init, Threads
<1>3. TickInv /\ BatchInv /\ ObjectInv /\ NoUseAfterFree
  BY <1>2 DEF TickInv, BatchInv, ObjectInv, NoUseAfterFree
<1>4. \A fd \in Fds : FdInv(fd)
  <2> SUFFICES ASSUME NEW fd \in Fds PROVE FdInv(fd)
    OBVIOUS
  <2>1. Free(fd)
    BY <1>2 DEF Free, Closed, IsOpen, Polled
  <2>2. ~InQueue(fd) /\ \A x \in Threads : Conn(x) # fd
    BY <1>2, NoConnections DEF InQueue, Conn, Threads
  <2> QED
    BY <1>2, <2>1, <2>2 DEF FdInv, Held, Timed
<1> QED
  BY <1>1, <1>3, <1>4 DEF IInv, Undisturbed

(* A step of the server keeps the invariant. *)
LEMMA StepIInv == IInv /\ [Next]_vars => IInv'
<1> SUFFICES ASSUME IInv, [Next]_vars PROVE IInv'
  OBVIOUS
<1>1. Base'
  BY StepBase DEF IInv, Base
<1> QED
  BY <1>1, ConnectionStep, CrashStep DEF IInv, Base

(* The invariant holds in every state of every behaviour. *)
LEMMA Invariance == Spec => []IInv
  BY InitIInv, StepIInv, PTL DEF Spec

(* A connection that was not overtaken and is in the pool is there once:   *)
(* waiting, or in the hands of one worker, and neither epoll nor the event *)
(* loop has it, whatever races there are on other connections.             *)
THEOREM OneOwnerCorrect == Spec => []OneOwner
<1>1. ASSUME IInv, NEW fd \in Undisturbed, InPool(fd)
      PROVE  /\ \A i, j \in DOMAIN m_workqueue : m_workqueue[i] = fd /\ m_workqueue[j] = fd => i = j
             /\ \A v, w \in Workers : running[v] = fd /\ running[w] = fd => v = w
             /\ \A i \in DOMAIN m_workqueue, w \in Workers : ~(m_workqueue[i] = fd /\ running[w] = fd)
             /\ ~Armed(fd) /\ ~WithMain(fd)
  <2>0. TypeInv /\ FdInv(fd) /\ fd \in Fds
    BY <1>1 DEF IInv, Undisturbed
  <2>1. CASE InQueue(fd)
    <3>1. Waiting(fd) /\ \A x \in Threads : Conn(x) # fd
      BY <2>0, <2>1 DEF FdInv, Held, Alone
    <3>2. sockfd # fd /\ \A w \in Workers : running[w] # fd
      BY <2>0, <3>1, InHand DEF Threads
    <3> QED
      BY <3>1, <3>2 DEF Waiting, Once, Armed, WithMain
  <2>2. CASE ~InQueue(fd)
    <3>1. PICK w \in Workers : running[w] = fd
      BY <1>1, <2>2 DEF InPool, InQueue
    <3>2. w \in Threads /\ w # Main /\ Conn(w) = fd
      BY <2>0, <3>1, InHand, ThreadAssumption DEF Threads
    <3>3. Alone(w, fd) /\ events[fd] = "none" /\ At(w, fd)
      BY <2>0, <3>2 DEF FdInv, Held
    <3>4. sockfd # fd /\ \A v \in Workers \ {w} : running[v] # fd
      BY <2>0, <3>2, <3>3, InHand DEF Alone, Threads
    <3>5. pc[w] \in ClosePCs \cup {"parse", "arm_in", "arm_out"}
      BY <2>0, <3>2, NoConnections, InHand DEF TypeInv, PcOK, WorkerPCs
    <3>6. ~Armed(fd)
      BY <2>0, <3>2, <3>3, <3>5 DEF At, ClosePCs, Armed, IsOpen, Closed
    <3> QED
      BY <2>2, <3>3, <3>4, <3>6 DEF InQueue, WithMain
  <2> QED
    BY <2>1, <2>2
<1>2. ASSUME IInv, NEW fd \in Undisturbed, InPool(fd)
      PROVE  TimesInPool(fd) = 1
  <2> DEFINE waiting == {i \in DOMAIN m_workqueue : m_workqueue[i] = fd}
             having == {w \in Workers : running[w] = fd}
  <2>1. /\ \A i, j \in waiting : i = j
        /\ \A v, w \in having : v = w
        /\ waiting = {} \/ having = {}
    BY <1>1, <1>2
  <2>2. waiting # {} \/ having # {}
    BY <1>2 DEF InPool
  <2>3. \/ waiting = {} /\ \E w : having = {w}
        \/ having = {} /\ \E i : waiting = {i}
    BY <2>1, <2>2
  <2>4. \/ Cardinality(waiting) = 0 /\ Cardinality(having) = 1
        \/ Cardinality(having) = 0 /\ Cardinality(waiting) = 1
    BY <2>3, FS_EmptySet, FS_Singleton
  <2> QED
    BY <2>4 DEF TimesInPool
<1>3. IInv => OneOwner
  BY <1>1, <1>2 DEF OneOwner
<1> QED
  BY <1>3, Invariance, PTL

(* An open connection that was not overtaken is watched by epoll, with the *)
(* event loop or in the pool, on every path through read(), write(),       *)
(* process() and their errors.                                             *)
THEOREM NeverForgottenCorrect == Spec => []NeverForgotten
<1>1. ASSUME IInv, NEW fd \in Undisturbed, IsOpen(fd)
      PROVE  Armed(fd) \/ WithMain(fd) \/ InPool(fd)
  <2>1. FdInv(fd) /\ TypeInv
    BY <1>1 DEF IInv
  <2>2. CASE InQueue(fd)
    BY <2>2 DEF InQueue, InPool
  <2>3. ASSUME NEW x \in Threads, Conn(x) = fd PROVE WithMain(fd) \/ InPool(fd)
    BY <2>1, <2>3, InHand DEF WithMain, InPool, Threads
  <2>4. CASE Free(fd)
    BY <1>1, <2>4 DEF Free, Closed, Armed, WithMain
  <2> QED
    BY <2>1, <2>2, <2>3, <2>4 DEF FdInv, Held
<1>2. IInv => NeverForgotten
  BY <1>1 DEF NeverForgotten
<1> QED
  BY <1>2, Invariance, PTL

(* An open connection that was not overtaken, and that nobody opens or     *)
(* closes just now, has its own timer in the wheel; a closed one has none; *)
(* and the wheel holds no second timer of such a connection.               *)
THEOREM TimerPerConnectionCorrect == Spec => []TimerPerConnection
<1>1. ASSUME IInv, NEW fd \in Undisturbed, Settled(fd)
      PROVE  Open(fd) \/ Closed(fd)
  <2>1. FdInv(fd) /\ TypeInv /\ fd \in Fds
    BY <1>1 DEF IInv, Undisturbed
  <2>2. InQueue(fd) => Open(fd)
    BY <2>1 DEF FdInv, Held, Waiting
  <2>3. ASSUME NEW x \in Threads, Conn(x) = fd PROVE Open(fd) \/ Closed(fd)
    <3>1. At(x, fd)
      BY <2>1, <2>3 DEF FdInv, Held
    <3>2. CASE x = Main
      <4>1. pc[Main] \in {"read", "append", "write", "written"}
        BY <1>1, <2>1, <2>3, <3>2, NoConnections, InHand DEF Settled, TypeInv, PcOK, MainPCs
      <4> QED
        BY <3>1, <3>2, <4>1 DEF At
    <3>3. CASE x \in Workers
      <4>1. running[x] = fd /\ pc[x] # "take"
        BY <2>1, <2>3, <3>3, NoConnections, InHand
      <4>2. pc[x] \in {"parse", "arm_in", "arm_out"}
        BY <1>1, <2>1, <3>3, <4>1 DEF Settled, TypeInv, PcOK, WorkerPCs
      <4> QED
        BY <3>1, <4>2 DEF At
    <3> QED
      BY <3>2, <3>3 DEF Threads
  <2>4. Free(fd) => Open(fd) \/ Closed(fd)
    BY DEF Free
  <2> QED
    BY <2>1, <2>2, <2>3, <2>4 DEF FdInv, Held
<1>2. ASSUME IInv, NEW t \in live, user_data[t] \in Undisturbed
      PROVE  timer[user_data[t]] = t
  BY <1>2 DEF IInv, FdInv, Timed
<1>3. IInv => TimerPerConnection
  BY <1>1, <1>2 DEF TimerPerConnection, Open, Closed, HasTimer
<1> QED
  BY <1>3, Invariance, PTL

(* close_conn(), timer_update() and tick() are given a deleted timer only  *)
(* for a connection that was overtaken.                                    *)
THEOREM NoUseAfterFreeCorrect == Spec => []NoUseAfterFree
<1>1. IInv => NoUseAfterFree
  BY DEF IInv
<1> QED
  BY <1>1, Invariance, PTL

(* What was read into a buffer stays there until the parser has seen it:   *)
(* more bytes do not empty it.                                             *)
LEMMA ReadsMore ==
  ASSUME NEW b \in BufStates \ {"empty"}, NEW s \in Seq(Chunks), NEW data \in Reads(b, s)
  PROVE  data # "empty"
<1>1. PICK d \in [0..Len(s) -> BufStates] :
         /\ d[0] = b /\ \A i \in 1..Len(s) : d[i] = Followed(d[i - 1], s[i])
         /\ data = d[Len(s)]
  BY DEF Reads
<1>2. CASE Len(s) = 0
  BY <1>1, <1>2
<1>3. CASE Len(s) # 0
  <2>1. /\ Len(s) \in 1..Len(s) /\ Len(s) - 1 \in 0..Len(s)
        /\ s[Len(s)] \in {"half", "bad", "huge"}
    BY <1>3, ChunkAssumption
  <2>2. data = Followed(d[Len(s) - 1], s[Len(s)]) /\ d[Len(s) - 1] \in BufStates
    BY <1>1, <2>1
  <2> QED
    BY <2>1, <2>2 DEF Followed, BufStates
<1> QED
  BY <1>2, <1>3

(* Only read(), write() and init() touch the buffers. *)
LEMMA OtherBuf ==
  ASSUME Next
  PROVE  \/ Write_KeepsAlive \/ Write_Nothing \/ Read \/ UNCHANGED buf
         \/ \E t \in Timers : Init_Timer(t)
<1> USE DEF object
<1>1. ASSUME NEW x \in Threads, CloseConn(x) PROVE UNCHANGED buf
  BY <1>1 DEF CloseConn, Close_Socket, Close_Forget, Close_Load, Close_Store, Close_Timer,
              Close_DelTimer, Close_Clear
<1>2. ASSUME NEW w \in Workers, WorkerStep(w) PROVE UNCHANGED buf
  BY <1>1, <1>2
     DEF WorkerStep, Take, Parse_Incomplete, Parse_Request, Parse_BadRequest, Rearm, Threads
<1>3. CASE ClientStep \/ SignalHandler
  BY <1>3, OutsideStep
<1>4. CASE MainStep
  <2>1. CASE \/ EpollWait \/ DealConnection_Fails \/ DealConnection_Refuses
             \/ DealConnection_Accepts \/ Init_Load \/ Init_Store \/ DealSignal
             \/ \E fd \in Fds : DealClose(fd) \/ DealRead(fd) \/ DealWrite(fd)
    BY <2>1 DEF EpollWait, DealConnection_Fails, DealConnection_Refuses, DealConnection_Accepts,
                Init_Load, Init_Store, DealSignal, DealClose, DealRead, DealWrite
  <2>2. CASE \/ AppendToPool \/ Write_Fails \/ Write_Blocks \/ Write_Takes
             \/ Write_EndsConnection
             \/ EndOfEvents \/ Tick_Fired \/ Tick_End \/ \E t \in Timers : Tick_Fire(t)
    BY <2>2 DEF AppendToPool, Write_Fails, Write_Blocks, Write_Takes, Write_EndsConnection, EndOfEvents,
                Tick_Fired, Tick_End, Tick_Fire
  <2> QED
    BY <1>1, <1>4, <2>1, <2>2 DEF MainStep, Write, Threads
<1> QED
  BY <1>2, <1>3, <1>4 DEF Next, Undefined, vars

(* Whoever empties the buffer of an open connection has sent the response. *)
LEMMA ResetStep ==
  ASSUME IInv, Next, NEW fd \in Undisturbed,
         IsOpen(fd), timer[fd] # NULL, buf[fd] # "empty", buf'[fd] = "empty"
  PROVE  bytes_have_send[fd] = ResponseParts
<1>0. /\ buf \in [Fds -> BufStates] /\ inbox \in [Fds -> Seq(Chunks)] /\ fd \in Fds
      /\ TypeInv /\ FdInv(fd) /\ ObjectInv /\ Main \in Threads
  BY DEF IInv, TypeInv, TypeOK, Undisturbed, Threads
<1>1. Conn(Main) = fd => At(Main, fd)
  BY <1>0 DEF FdInv, Held
<1>2. Conn(Main) = sockfd
  BY <1>0, InHand
<1>3. CASE Write_KeepsAlive \/ Write_Nothing
  <2>1. buf' = buf \/ buf' = [buf EXCEPT ![sockfd] = "empty"]
    BY <1>3 DEF Write_KeepsAlive, Write_Nothing, Reset
  <2>2. fd = sockfd
    BY <1>0, <2>1
  <2>3. CASE Write_KeepsAlive
    BY <1>1, <1>2, <2>2, <2>3 DEF Write_KeepsAlive, GoTo, At
  <2>4. CASE Write_Nothing
    BY <1>1, <1>2, <2>2, <2>4 DEF Write_Nothing, Writing, GoTo, At, Sending
  <2> QED
    BY <1>3, <2>3, <2>4
<1>4. ASSUME NEW t \in Timers, Init_Timer(t) PROVE FALSE
  <2>1. fd = sockfd /\ pc[Main] = "init_timer"
    BY <1>0, <1>4 DEF Init_Timer, Reset, GoTo
  <2> QED
    BY <1>1, <1>2, <2>1 DEF At
<1>5. CASE Read
  <2>1. PICK got \in Seq(Chunks) : \E data \in Reads(buf[sockfd], got) :
          buf' = [buf EXCEPT ![sockfd] = data]
    <3>1. <<>> \in Seq(Chunks) /\ \A f \in Fds : inbox[f] \in Seq(Chunks)
      BY <1>0
    <3> QED
      BY <1>5, <3>1 DEF Read, IsOpen
  <2>2. PICK data \in Reads(buf[sockfd], got) : buf' = [buf EXCEPT ![sockfd] = data]
    BY <2>1
  <2>3. fd = sockfd /\ data = "empty"
    BY <1>0, <2>2
  <2> QED
    BY <1>0, <2>2, <2>3, ReadsMore
<1>6. CASE UNCHANGED buf
  BY <1>6
<1> QED
  BY <1>3, <1>4, <1>5, <1>6, OtherBuf

(* write() resets the buffers of a connection that was not overtaken only  *)
(* when every part of the response is out, and init() only those of a      *)
(* connection it opens.                                                    *)
THEOREM AnsweredBeforeResetCorrect == Spec => AnsweredBeforeReset
<1>1. IInv /\ [Next]_vars =>
        [\A fd \in Undisturbed :
            IsOpen(fd) /\ timer[fd] # NULL /\ buf[fd] # "empty" /\ buf'[fd] = "empty"
                => bytes_have_send[fd] = ResponseParts]_vars
  BY ResetStep
<1> QED
  BY <1>1, Invariance, PTL DEF AnsweredBeforeReset, Spec

(***************************************************************************)
(* The count of users, which every thread loads and stores without a lock: *)
(* it is exact as long as no thread loads it between the load and the      *)
(* store of another one, and no connection is overtaken and closed twice.  *)
(***************************************************************************)
OpenFds == {fd \in Fds : IsOpen(fd)}

(* The threads that have closed a connection and not yet counted it down,  *)
(* and those that have loaded the count and not yet stored it.             *)
Uncounted == {"forget", "load", "store"}
Closing == {x \in Threads : pc[x] \in Uncounted}
Storing(x) == pc[x] \in {"store", "init_store"}
BeingInitialised == IF pc[Main] \in {"init_load", "init_store"} THEN 1 ELSE 0

Counted ==
    /\ m_user_count = Cardinality(OpenFds) + Cardinality(Closing) - BeingInitialised
    /\ \A x, y \in Threads : Storing(x) /\ Storing(y) => x = y
    /\ \A x \in Threads : Storing(x) => loaded[x] = m_user_count

CountInv == ~torn /\ overtaken = {} => Counted

(* There are finitely many of each. *)
LEMMA CountsFinite ==
  /\ IsFiniteSet(OpenFds) /\ Cardinality(OpenFds) \in Nat
  /\ IsFiniteSet(Closing) /\ Cardinality(Closing) \in Nat
<1>1. OpenFds \in SUBSET Fds
  BY DEF OpenFds
<1>2. IsFiniteSet(Threads)
  BY ThreadAssumption, FS_AddElement DEF Threads
<1>3. Closing \in SUBSET Threads
  BY DEF Closing
<1> QED
  BY <1>1, <1>2, <1>3, FdAssumption, FS_Subset, FS_CardinalityType

(* epoll_ctl(EPOLL_CTL_MOD) opens and closes nothing, and neither does     *)
(* epoll_wait().                                                           *)
LEMMA OpenSame ==
  ASSUME TypeInv,
         \/ interest' = interest
         \/ \E f \in Fds \cup {NoFd}, ev \in {"in", "out"} : ModFd(f, ev)
         \/ EpollWait
  PROVE  OpenFds' = OpenFds
<1>1. interest \in [Fds -> {"none", "off", "in", "out"}]
  BY DEF TypeInv, TypeOK
<1>2. CASE EpollWait
  <2>1. \A fd \in Fds : IsOpen(fd)' <=> IsOpen(fd)
    BY <1>1, <1>2, NoConnections DEF EpollWait, IsOpen, Event
  <2> QED
    BY <2>1 DEF OpenFds
<1>3. ASSUME NEW f \in Fds \cup {NoFd}, NEW ev \in {"in", "out"}, ModFd(f, ev)
      PROVE  OpenFds' = OpenFds
  BY <1>1, <1>3 DEF ModFd, OpenFds, IsOpen
<1> QED
  BY <1>1, <1>2, <1>3 DEF OpenFds, IsOpen

(* A connection more, or one less. *)
LEMMA OpenChanged ==
  ASSUME TypeInv, NEW c \in Fds
  PROVE  /\ interest' = [interest EXCEPT ![c] = "none"] /\ IsOpen(c)
               => Cardinality(OpenFds') = Cardinality(OpenFds) - 1
         /\ interest' = [interest EXCEPT ![c] = "in"] /\ ~IsOpen(c)
               => Cardinality(OpenFds') = Cardinality(OpenFds) + 1
<1>1. interest \in [Fds -> {"none", "off", "in", "out"}]
  BY DEF TypeInv, TypeOK
<1>2. ASSUME interest' = [interest EXCEPT ![c] = "none"], IsOpen(c)
      PROVE  Cardinality(OpenFds') = Cardinality(OpenFds) - 1
  <2>1. OpenFds' = OpenFds \ {c} /\ c \in OpenFds
    BY <1>1, <1>2 DEF OpenFds, IsOpen
  <2> QED
    BY <2>1, CountsFinite, FS_RemoveElement
<1>3. ASSUME interest' = [interest EXCEPT ![c] = "in"], ~IsOpen(c)
      PROVE  Cardinality(OpenFds') = Cardinality(OpenFds) + 1
  <2>1. OpenFds' = OpenFds \cup {c} /\ c \notin OpenFds
    BY <1>1, <1>3 DEF OpenFds, IsOpen
  <2> QED
    BY <2>1, CountsFinite, FS_AddElement
<1> QED
  BY <1>2, <1>3

(* A thread more that has to count, or one less, or as many. *)
LEMMA ClosingChanged ==
  ASSUME NEW x \in Threads, \A y \in Threads \ {x} : pc'[y] = pc[y]
  PROVE  /\ pc[x] \notin Uncounted /\ pc'[x] \in Uncounted
               => Cardinality(Closing') = Cardinality(Closing) + 1
         /\ pc[x] \in Uncounted /\ pc'[x] \notin Uncounted
               => Cardinality(Closing') = Cardinality(Closing) - 1
         /\ (pc[x] \in Uncounted <=> pc'[x] \in Uncounted)
               => Cardinality(Closing') = Cardinality(Closing)
<1>1. ASSUME pc[x] \notin Uncounted, pc'[x] \in Uncounted
      PROVE  Cardinality(Closing') = Cardinality(Closing) + 1
  <2>1. Closing' = Closing \cup {x} /\ x \notin Closing
    BY <1>1 DEF Closing
  <2> QED
    BY <2>1, CountsFinite, FS_AddElement
<1>2. ASSUME pc[x] \in Uncounted, pc'[x] \notin Uncounted
      PROVE  Cardinality(Closing') = Cardinality(Closing) - 1
  <2>1. Closing' = Closing \ {x} /\ x \in Closing
    BY <1>2 DEF Closing
  <2> QED
    BY <2>1, CountsFinite, FS_RemoveElement
<1>3. ASSUME pc[x] \in Uncounted <=> pc'[x] \in Uncounted
      PROVE  Cardinality(Closing') = Cardinality(Closing)
  <2>1. Closing' = Closing
    BY <1>3 DEF Closing
  <2> QED
    BY <2>1
<1> QED
  BY <1>1, <1>2, <1>3

(* Drift compares the count with the same number. *)
LEMMA CountIsExact ==
  ASSUME TypeInv, Counted
  PROVE  Drift = 0 /\ Users = Cardinality(OpenFds) + Cardinality(Closing)
<1>1. Users = Cardinality(OpenFds) + Cardinality(Closing)
  BY DEF Users, OpenFds, Closing, Uncounted
<1> QED
  BY <1>1, CountsFinite DEF Counted, Drift, BeingInitialised

(* The places where a thread is about to count. *)
Counting == Uncounted \cup {"init_load", "init_store"}

(* A step between other places keeps the count exact. *)
LEMMA NotCounting ==
  ASSUME Counted, NEW x \in Threads, pc[x] \notin Counting, pc'[x] \notin Counting,
         \A y \in Threads \ {x} : pc'[y] = pc[y],
         UNCHANGED <<m_user_count, loaded>>, OpenFds' = OpenFds
  PROVE  Counted'
<1>1. Cardinality(Closing') = Cardinality(Closing)
  BY ClosingChanged DEF Counting
<1>2. BeingInitialised' = BeingInitialised
  BY DEF BeingInitialised, Counting, Threads
<1>3. \A y \in Threads : Storing(y)' => Storing(y)
  BY DEF Storing, Counting, Uncounted
<1> QED
  BY <1>1, <1>2, <1>3 DEF Counted

LEMMA WorkerCount ==
  ASSUME IInv, Counted, NEW w \in Workers, WorkerStep(w), ~CloseConn(w)
  PROVE  Counted'
<1>0. w \in Threads /\ TypeInv /\ running[w] \in Fds \cup {NoFd}
  BY DEF Threads, IInv, TypeInv, TypeOK
<1>1. /\ pc[w] \in {"take", "parse", "arm_in", "arm_out"}
      /\ pc'[w] \in {"take", "parse", "arm_in", "arm_out", "close"}
      /\ \A y \in Threads \ {w} : pc'[y] = pc[y]
  BY <1>0, MoveOf DEF WorkerStep, Take, Parse_Incomplete, Parse_Request, Parse_BadRequest, Rearm
<1>2. UNCHANGED <<m_user_count, loaded>>
  BY DEF WorkerStep, Take, Parse_Incomplete, Parse_Request, Parse_BadRequest, Rearm
<1>3. OpenFds' = OpenFds
  <2>1. CASE Rearm(w)
    <3>1. m_sockfd[running[w]] \in Fds \cup {NoFd}
      BY <1>0, <1>1, <2>1, InHand DEF IInv, TypeInv, TypeOK, Rearm, GoTo
    <3>2. ModFd(m_sockfd[running[w]], "in") \/ ModFd(m_sockfd[running[w]], "out")
      BY <2>1 DEF Rearm
    <3> QED
      BY <1>0, <3>1, <3>2, OpenSame
  <2>2. CASE ~Rearm(w)
    BY <1>0, <2>2, OpenSame DEF WorkerStep, Take, Parse_Incomplete, Parse_Request, Parse_BadRequest, kernel
  <2> QED
    BY <2>1, <2>2
<1>4. pc[w] \notin Counting /\ pc'[w] \notin Counting
  BY <1>1 DEF Counting, Uncounted
<1> QED
  BY <1>0, <1>1, <1>2, <1>3, <1>4, NotCounting

LEMMA LoopCount ==
  ASSUME IInv, Counted,
         \/ EpollWait \/ DealConnection_Fails \/ DealConnection_Refuses
         \/ DealSignal \/ EndOfEvents \/ Tick_End \/ Tick_Fired \/ AppendToPool \/ Read \/ Write
         \/ \E fd \in Fds : DealClose(fd) \/ DealRead(fd) \/ DealWrite(fd)
         \/ \E t \in Timers : Init_Timer(t) \/ Tick_Fire(t)
  PROVE  Counted'
<1>0. Main \in Threads /\ TypeInv
  BY DEF Threads, IInv
<1>1. CASE ~Write
  <2>1. /\ pc[Main] \notin Counting /\ pc'[Main] \notin Counting
        /\ \A y \in Threads \ {Main} : pc'[y] = pc[y]
        /\ UNCHANGED <<m_user_count, loaded>>
        /\ EpollWait \/ UNCHANGED interest
    <3>1. CASE \/ EpollWait \/ DealConnection_Fails \/ DealConnection_Refuses \/ DealSignal
               \/ \E fd \in Fds : DealClose(fd) \/ DealRead(fd) \/ DealWrite(fd)
      BY <1>0, <3>1, MoveOf DEF EpollWait, DealConnection_Fails, DealConnection_Refuses, DealSignal,
         DealClose, DealRead, DealWrite, Handles, kernel, Counting, Uncounted
    <3>2. CASE \/ EndOfEvents \/ Tick_End \/ Tick_Fired \/ AppendToPool \/ Read
               \/ \E t \in Timers : Init_Timer(t) \/ Tick_Fire(t)
      BY <1>0, <3>2, MoveOf DEF EndOfEvents, Tick_End, Tick_Fired, AppendToPool, Read, Init_Timer,
         Tick_Fire, kernel, Counting, Uncounted
    <3> QED
      BY <1>1, <3>1, <3>2
  <2> QED
    BY <1>0, <2>1, OpenSame, NotCounting
<1>2. CASE Write
  <2>1. /\ pc[Main] \in {"write", "written"} /\ pc'[Main] \in {"events", "close", "write", "written"}
        /\ \A y \in Threads \ {Main} : pc'[y] = pc[y]
        /\ UNCHANGED <<m_user_count, loaded>>
    BY <1>0, <1>2, MoveOf DEF Write, Write_Nothing, Write_Fails, Write_Blocks, Write_Takes, AfterPart,
       Write_KeepsAlive, Write_EndsConnection, Writing
  <2>2. sockfd \in Fds /\ m_sockfd[sockfd] \in Fds \cup {NoFd}
    BY <1>0, <2>1, InHand DEF TypeInv, TypeOK
  <2>3. UNCHANGED interest \/ \E ev \in {"in", "out"} : ModFd(m_sockfd[sockfd], ev)
    BY <1>2 DEF Write, Write_Nothing, Write_Fails, Write_Blocks, Write_Takes,
       Write_KeepsAlive, Write_EndsConnection, kernel
  <2>4. OpenFds' = OpenFds
    BY <1>0, <2>2, <2>3, OpenSame
  <2>5. pc[Main] \notin Counting /\ pc'[Main] \notin Counting
    BY <2>1 DEF Counting, Uncounted
  <2> QED
    BY <1>0, <2>1, <2>4, <2>5, NotCounting
<1> QED
  BY <1>1, <1>2

(* init(): the socket first, the count later. *)
LEMMA InitCounted ==
  ASSUME IInv, Counted, ~torn', DealConnection_Accepts \/ Init_Load \/ Init_Store
  PROVE  Counted'
<1>0. /\ Main \in Threads /\ TypeInv /\ loaded \in [Threads -> Int] /\ m_user_count \in Int
      /\ Cardinality(OpenFds) \in Nat /\ Cardinality(Closing) \in Nat
  BY CountsFinite DEF Threads, IInv, TypeInv, TypeOK
<1>1. /\ pc[Main] \in {"events", "init_load", "init_store"}
      /\ pc'[Main] \in {"init_load", "init_store", "init_timer"}
      /\ \A y \in Threads \ {Main} : pc'[y] = pc[y]
  BY <1>0, MoveOf DEF DealConnection_Accepts, Handles, Init_Load, Init_Store
<1>2. Cardinality(Closing') = Cardinality(Closing)
  BY <1>0, <1>1, ClosingChanged DEF Uncounted
<1>3. CASE DealConnection_Accepts
  <2>1. PICK c \in Fds : ~IsOpen(c) /\ interest' = [interest EXCEPT ![c] = "in"]
    BY <1>3, AcceptedFd DEF DealConnection_Accepts, IsOpen
  <2>2. Cardinality(OpenFds') = Cardinality(OpenFds) + 1
    BY <1>0, <2>1, OpenChanged
  <2>3. pc[Main] = "events" /\ pc'[Main] = "init_load" /\ UNCHANGED <<m_user_count, loaded>>
    BY <1>0, <1>3, MoveOf DEF DealConnection_Accepts, Handles
  <2>4. \A y \in Threads : Storing(y)' => Storing(y)
    BY <1>1, <2>3 DEF Storing
  <2>5. BeingInitialised = 0 /\ BeingInitialised' = 1
    BY <2>3 DEF BeingInitialised
  <2>6. m_user_count' = Cardinality(OpenFds') + Cardinality(Closing') - BeingInitialised'
    BY <1>0, <1>2, <2>2, <2>3, <2>5 DEF Counted
  <2> QED
    BY <2>3, <2>4, <2>6 DEF Counted
<1>4. CASE Init_Load
  <2>1. /\ pc[Main] = "init_load" /\ pc'[Main] = "init_store" /\ UNCHANGED <<interest, m_user_count>>
        /\ loaded' = [loaded EXCEPT ![Main] = m_user_count] /\ ~Tears(Main)
    BY <1>0, <1>4, MoveOf DEF Init_Load, kernel
  <2>2. OpenFds' = OpenFds
    BY <1>0, <2>1, OpenSame
  <2>3. \A y \in Threads : Storing(y)' => y = Main
    BY <1>1, <2>1 DEF Storing, Tears
  <2>4. BeingInitialised' = BeingInitialised
    BY <2>1 DEF BeingInitialised
  <2> QED
    BY <1>0, <1>2, <2>1, <2>2, <2>3, <2>4 DEF Counted
<1>5. CASE Init_Store
  <2>1. /\ pc[Main] = "init_store" /\ pc'[Main] = "init_timer" /\ UNCHANGED interest
        /\ m_user_count' = loaded[Main] + 1
    BY <1>0, <1>5, MoveOf DEF Init_Store, kernel
  <2>2. OpenFds' = OpenFds
    BY <1>0, <2>1, OpenSame
  <2>3. Storing(Main)
    BY <2>1 DEF Storing
  <2>4. \A y \in Threads : ~Storing(y)'
    BY <1>0, <1>1, <2>1, <2>3 DEF Storing, Counted
  <2>5. BeingInitialised = 1 /\ BeingInitialised' = 0
    BY <2>1 DEF BeingInitialised
  <2>6. loaded[Main] = m_user_count
    BY <1>0, <2>3 DEF Counted
  <2>7. m_user_count' = Cardinality(OpenFds') + Cardinality(Closing') - BeingInitialised'
    BY <1>0, <1>2, <2>1, <2>2, <2>5, <2>6 DEF Counted
  <2> QED
    BY <2>4, <2>7 DEF Counted
<1> QED
  BY <1>3, <1>4, <1>5

(* close_conn() of any thread: the socket first, the count later.          *)
LEMMA CloseCounted ==
  ASSUME IInv, Counted, ~torn', overtaken = {}, NEW x \in Threads, CloseConn(x)
  PROVE  Counted'
<1>0. /\ TypeInv /\ loaded \in [Threads -> Int] /\ m_user_count \in Int
      /\ Cardinality(OpenFds) \in Nat /\ Cardinality(Closing) \in Nat /\ Main \in Threads
  BY CountsFinite DEF Threads, IInv, TypeInv, TypeOK
<1>1. /\ pc[x] \in ClosePCs /\ \A y \in Threads \ {x} : pc'[y] = pc[y]
      /\ pc'[x] \in ClosePCs \cup {"fired", "events", "arm_out"}
  BY <1>0, MoveOf DEF CloseConn, Close_Socket, Close_Forget, Close_Load, Close_Store, Close_Timer,
     Close_DelTimer, Close_Clear, ClosePCs, AfterSocket, AfterClose
<1>2. BeingInitialised' = BeingInitialised
  <2>1. CASE x = Main
    <3>1. /\ pc[Main] \notin {"init_load", "init_store"}
          /\ pc'[Main] \notin {"init_load", "init_store"}
      BY <1>1, <2>1 DEF ClosePCs
    <3> QED
      BY <3>1 DEF BeingInitialised
  <2>2. CASE x # Main
    <3>1. pc'[Main] = pc[Main]
      BY <1>0, <1>1, <2>2
    <3> QED
      BY <3>1 DEF BeingInitialised
  <2> QED
    BY <2>1, <2>2
<1>3. CASE Close_Socket(x)
  <2>1. Conn(x) \in Fds /\ pc[x] = "close"
    BY <1>0, <1>3, InHand DEF Close_Socket, GoTo, Threads
  <2>2. PICK c \in Fds : c = Conn(x) /\ At(x, c)
    BY <2>1 DEF IInv, Undisturbed, FdInv, Held
  <2>3. IsOpen(c) /\ m_sockfd[c] = c
    BY <2>1, <2>2 DEF At, Open
  <2>4. /\ interest' = [interest EXCEPT ![c] = "none"] /\ pc'[x] = "forget"
        /\ UNCHANGED <<m_user_count, loaded>>
    BY <1>0, <1>3, <2>2, <2>3, NoConnections, MoveOf DEF Close_Socket
  <2>5. Cardinality(OpenFds') = Cardinality(OpenFds) - 1
    BY <1>0, <2>3, <2>4, OpenChanged
  <2>6. Cardinality(Closing') = Cardinality(Closing) + 1
    BY <1>1, <2>1, <2>4, ClosingChanged DEF Uncounted
  <2>7. \A y \in Threads : Storing(y)' => Storing(y)
    BY <1>1, <2>4 DEF Storing
  <2>8. m_user_count' = Cardinality(OpenFds') + Cardinality(Closing') - BeingInitialised'
    BY <1>0, <1>2, <2>4, <2>5, <2>6 DEF Counted, BeingInitialised
  <2> QED
    BY <2>4, <2>7, <2>8 DEF Counted
<1>4. CASE Close_Forget(x) \/ Close_Load(x)
  <2>1. /\ pc[x] \in Uncounted /\ pc'[x] \in Uncounted /\ UNCHANGED <<interest, m_user_count>>
    BY <1>0, <1>4, MoveOf DEF Close_Forget, Close_Load, kernel, Uncounted
  <2>2. OpenFds' = OpenFds /\ Cardinality(Closing') = Cardinality(Closing)
    BY <1>0, <1>1, <2>1, OpenSame, ClosingChanged
  <2>3. CASE Close_Forget(x)
    <3>1. UNCHANGED loaded /\ pc'[x] = "load"
      BY <1>0, <2>3, MoveOf DEF Close_Forget
    <3>2. \A y \in Threads : Storing(y)' => Storing(y)
      BY <1>1, <3>1 DEF Storing
    <3> QED
      BY <1>2, <2>1, <2>2, <3>1, <3>2 DEF Counted
  <2>4. CASE Close_Load(x)
    <3>1. loaded' = [loaded EXCEPT ![x] = m_user_count] /\ ~Tears(x)
      BY <2>4 DEF Close_Load
    <3>2. \A y \in Threads : Storing(y)' => y = x
      BY <1>1, <3>1 DEF Storing, Tears
    <3> QED
      BY <1>0, <1>2, <2>1, <2>2, <3>1, <3>2 DEF Counted
  <2> QED
    BY <1>4, <2>3, <2>4
<1>5. CASE Close_Store(x)
  <2>1. /\ pc[x] = "store" /\ pc'[x] \in {"timer", "fired"} /\ UNCHANGED interest
        /\ m_user_count' = loaded[x] - 1
    BY <1>0, <1>5, MoveOf DEF Close_Store, AfterSocket, kernel
  <2>2. OpenFds' = OpenFds
    BY <1>0, <2>1, OpenSame
  <2>3. Cardinality(Closing') = Cardinality(Closing) - 1
    BY <1>1, <2>1, ClosingChanged DEF Uncounted
  <2>4. Storing(x)
    BY <2>1 DEF Storing
  <2>5. \A y \in Threads : ~Storing(y)'
    BY <1>1, <2>1, <2>4 DEF Storing, Counted
  <2>6. loaded[x] = m_user_count
    BY <2>4 DEF Counted
  <2>7. m_user_count' = Cardinality(OpenFds') + Cardinality(Closing') - BeingInitialised'
    BY <1>0, <1>2, <2>1, <2>2, <2>3, <2>6 DEF Counted, BeingInitialised
  <2> QED
    BY <2>5, <2>7 DEF Counted
<1>6. CASE Close_Timer(x) \/ Close_DelTimer(x) \/ Close_Clear(x)
  <2>1. /\ pc[x] \in {"timer", "del_timer", "clear"}
        /\ pc'[x] \in {"del_timer", "clear", "events", "arm_out"}
        /\ UNCHANGED <<interest, m_user_count, loaded>>
    BY <1>0, <1>6, MoveOf DEF Close_Timer, Close_DelTimer, Close_Clear, AfterClose, kernel
  <2>2. OpenFds' = OpenFds
    BY <1>0, <2>1, OpenSame
  <2>3. pc[x] \notin Counting /\ pc'[x] \notin Counting
    BY <2>1 DEF Counting, Uncounted
  <2> QED
    BY <1>1, <2>1, <2>2, <2>3, NotCounting
<1> QED
  BY <1>3, <1>4, <1>5, <1>6 DEF CloseConn

(* No step of any thread makes the count wrong, unless it tears it. *)
LEMMA CountStep ==
  ASSUME IInv, CountInv, [Next]_vars
  PROVE  CountInv'
<1>1. SUFFICES ASSUME ~torn', overtaken' = {} PROVE Counted'
  BY DEF CountInv
<1>2. ~torn /\ overtaken = {} /\ Counted
  BY <1>1, HistoryGrows DEF CountInv
<1>3. CASE MainStep
  BY <1>1, <1>2, <1>3, LoopCount, InitCounted, CloseCounted DEF MainStep, Threads
<1>4. ASSUME NEW w \in Workers, WorkerStep(w) PROVE Counted'
  BY <1>1, <1>2, <1>4, WorkerCount, CloseCounted DEF Threads
<1>5. CASE ClientStep \/ SignalHandler \/ UNCHANGED vars
  <2>1. UNCHANGED <<interest, m_user_count, loaded, pc>>
    BY <1>5, OutsideStep
  <2>2. OpenFds' = OpenFds
    BY <2>1, OpenSame DEF IInv
  <2> QED
    BY <1>2, <2>1, <2>2 DEF Counted, Closing, Storing, BeingInitialised
<1> QED
  BY <1>3, <1>4, <1>5 DEF Next, Undefined

(* There is no user at the start. *)
LEMMA InitCount == Init => CountInv
<1> SUFFICES ASSUME Init PROVE Counted
  BY DEF CountInv
<1>1. OpenFds = {}
  BY DEF Init, OpenFds, IsOpen
<1>2. \A x \in Threads : pc[x] \in {"epoll_wait", "take"}
  BY DEF Init
<1>3. Closing = {}
  BY <1>2 DEF Closing, Uncounted
<1>4. \A x \in Threads : ~Storing(x)
  BY <1>2 DEF Storing
<1>5. BeingInitialised = 0
  BY <1>2 DEF BeingInitialised, Threads
<1> QED
  BY <1>1, <1>3, <1>4, <1>5, FS_EmptySet DEF Init, Counted

LEMMA CountInvariance == Spec => []CountInv
<1>1. IInv /\ CountInv /\ [Next]_vars => CountInv'
  BY CountStep
<1> QED
  BY <1>1, InitCount, Invariance, PTL DEF Spec

(* The event loop and any number of workers count connections up and down  *)
(* without a lock, and m_user_count is the number of users until two of    *)
(* them are at it at once, or a connection is overtaken.                   *)
THEOREM UserCountExactCorrect == Spec => []UserCountExact
<1>1. IInv /\ CountInv => UserCountExact
  BY CountIsExact DEF UserCountExact, CountInv, IInv
<1> QED
  BY <1>1, Invariance, CountInvariance, PTL

(* Until then deal_connection() turns a client away only when there are    *)
(* MAX_FD others; after two threads were at the count at once it need not, *)
(* as the run web_server_refuse shows.                                     *)
THEOREM RefusesWhileExact ==
  Spec => [][DealConnection_Refuses /\ ~torn /\ overtaken = {} => Users >= MAX_FD]_vars
<1>1. IInv /\ CountInv =>
        [DealConnection_Refuses /\ ~torn /\ overtaken = {} => Users >= MAX_FD]_vars
  <2> SUFFICES ASSUME IInv, CountInv, DealConnection_Refuses, ~torn, overtaken = {}
               PROVE  Users >= MAX_FD
    OBVIOUS
  <2>1. m_user_count >= MAX_FD /\ pc[Main] = "events"
    BY DEF DealConnection_Refuses, Handles, GoTo
  <2>2. Drift = 0 /\ Users = Cardinality(OpenFds) + Cardinality(Closing)
    BY CountIsExact DEF IInv, CountInv
  <2>3. m_user_count \in Int
    BY DEF IInv, TypeInv, TypeOK
  <2> QED
    BY <2>1, <2>2, <2>3, CountsFinite, SizeAssumption DEF Drift
<1> QED
  BY <1>1, Invariance, CountInvariance, PTL

=============================================================================
