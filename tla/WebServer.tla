----------------------------- MODULE WebServer -----------------------------
(***************************************************************************)
(* The server as main.cpp runs it (actor_mode = 1, the proactor): the      *)
(* event loop of practice/web_server/webServer.cpp reads and writes, the   *)
(* workers of the thread pool run Http_Conn::process(), and both share the *)
(* Http_Conn objects, the epoll instance, the time wheel and the count of  *)
(* users.  The thread pool is WorkQueue, which ThreadPool implements.  The *)
(* wheel is the set of its timers and the lock that tick() holds; when     *)
(* exactly a timer is due is the subject of TimeWheel, so a tick may call  *)
(* any of them here.                                                       *)
(*                                                                         *)
(* A read or a write of memory that two threads can race for is a step of  *)
(* its own.  A use of a timer that was deleted sets crashed: what the      *)
(* program does then is undefined and no step follows.                     *)
(*                                                                         *)
(* Clients send chunks: a request is two chunks "half", the parser refuses *)
(* a chunk "bad", and "huge" fills the read buffer.  Of what was read into *)
(* the buffer the model keeps what the parser makes of it.                 *)
(*                                                                         *)
(* A definition Mutant_D_... is the definition D that follows it with one  *)
(* fault put in; it is not part of the model.                              *)
(***************************************************************************)
EXTENDS Integers, Sequences, FiniteSets, FiniteSetsExt

CONSTANTS
    Fds,                \* numbers the kernel gives to accepted sockets
    listen_fd,
    sig_pipe,           \* the end of the signal pipe that epoll watches
    Workers,
    Main,               \* the thread of the event loop
    Timers,             \* addresses of timers; bound: no client connects when all are in use
    NULL,
    Chunks,             \* what clients send, a subset of {"half", "bad", "huge"}
    MAX_FD,
    QueueRoom,          \* requests the pool's queue holds: m_max_requests + 1
    ResponseParts,      \* writes that a response takes when the socket is slow
    MaxInbox,           \* bound: chunks a client sends ahead
    MaxDrift,           \* bound: no client connects once m_user_count is off by more
    MaxOvertaken        \* bound: clients do nothing new once more connections were overtaken

ASSUME FdAssumption ==
    /\ Fds \subseteq Nat /\ IsFiniteSet(Fds)
    /\ listen_fd \in Nat \ Fds /\ sig_pipe \in Nat \ Fds /\ listen_fd # sig_pipe
ASSUME ThreadAssumption == Main \notin Workers /\ IsFiniteSet(Workers)
ASSUME TimerAssumption == NULL \notin Timers
ASSUME ChunkAssumption == Chunks \subseteq {"half", "bad", "huge"}
ASSUME SizeAssumption ==
    /\ MAX_FD \in Nat /\ QueueRoom \in Nat \ {0}
    /\ ResponseParts \in Nat \ {0}
    /\ MaxInbox \in Nat /\ MaxDrift \in Nat /\ MaxOvertaken \in Nat

VARIABLES
    \* The kernel, and the clients behind it.
    backlog,        \* a client waits to be accepted
    interest,       \* interest[fd]: "none" when fd is not open, "off" when its
                    \* one-shot event was reported, or "in" or "out"
    inbox,          \* inbox[fd]: received and not yet read
    peer,           \* peer[fd]: "up", or "gone" when the client closed or reset it
    full,           \* full[fd]: the socket takes no more bytes
    alarm,          \* "set", "sent" through the pipe, or "taken"
    \* The members of users[fd].
    m_sockfd, timer, buf, bytes_to_send, bytes_have_send,
    \* Shared by all threads.
    m_user_count, live, user_data, m_workqueue, running,
    \* The event loop.
    events,         \* events[fd]: what epoll_wait reported and is not yet handled
    timeout, sockfd,
    tmp,            \* the timer tick() is calling
    \* Every thread.
    pc, loaded,     \* a register: m_user_count on its way through -- or ++
    arg,            \* the argument of del_timer
    crashed,
    \* History, of which the program knows nothing.
    overtaken,      \* the connections that somebody else still had in hand when
                    \* their number or the address of their timer was used again,
                    \* or when their timer was called
    torn            \* two threads were at m_user_count at once

kernel == <<backlog, interest, inbox, peer, full, alarm>>
object == <<m_sockfd, timer, buf, bytes_to_send, bytes_have_send>>
wheel == <<live, user_data>>
pool == <<m_workqueue, running>>
loop == <<events, timeout, sockfd, tmp>>
history == <<overtaken, torn>>
vars == <<kernel, object, m_user_count, wheel, pool, loop, pc, loaded, arg, crashed, history>>

NoFd == -1
Threads == Workers \cup {Main}
Polled == Fds \cup {listen_fd, sig_pipe}

Pool == INSTANCE WorkQueue WITH
        Requests <- Fds, Capacity <- QueueRoom, NoRequest <- NoFd,
        pending <- m_workqueue

Init ==
    /\ backlog = FALSE
    /\ interest = [fd \in Fds |-> "none"]
    /\ inbox = [fd \in Fds |-> <<>>]
    /\ peer = [fd \in Fds |-> "up"]
    /\ full = [fd \in Fds |-> FALSE]
    /\ alarm = "set"
    /\ m_sockfd = [fd \in Fds |-> NoFd]
    /\ timer = [fd \in Fds |-> NULL]
    /\ buf = [fd \in Fds |-> "empty"]
    /\ bytes_to_send = [fd \in Fds |-> 0]
    /\ bytes_have_send = [fd \in Fds |-> 0]
    /\ m_user_count = 0
    /\ live = {}
    /\ user_data = [t \in Timers |-> NoFd]
    /\ Pool!Init
    /\ events = [fd \in Polled |-> "none"]
    /\ timeout = FALSE
    /\ sockfd = NoFd
    /\ tmp = NULL
    /\ pc = [x \in Threads |-> IF x = Main THEN "epoll_wait" ELSE "take"]
    /\ loaded = [x \in Threads |-> 0]
    /\ arg = [x \in Threads |-> NULL]
    /\ crashed = FALSE
    /\ overtaken = {}
    /\ torn = FALSE

(* Thread x, at "from", goes on to "to". *)
GoTo(x, from, to) ==
    /\ ~crashed
    /\ pc[x] = from
    /\ pc' = [pc EXCEPT ![x] = to]

IsOpen(fd) == fd \in Fds /\ interest[fd] # "none"

(* The connection object thread x works on, and whether a worker has fd.   *)
Conn(x) == IF x = Main THEN sockfd ELSE running[x]
InPool(fd) == (\E i \in DOMAIN m_workqueue : m_workqueue[i] = fd)
              \/ \E w \in Workers : running[w] = fd

(* epoll_ctl(EPOLL_CTL_MOD) fails without effect on a closed number.       *)
ModFd(fd, ev) == interest' = IF IsOpen(fd) THEN [interest EXCEPT ![fd] = ev] ELSE interest

(* tick() holds the lock of the wheel from beginning to end; the other     *)
(* operations hold it for one step.                                        *)
Ticking == pc[Main] = "tick" \/ tmp # NULL

(* The connection that is being set up; the open connections, and those    *)
(* whose close a thread has yet to count; how far m_user_count is off, but *)
(* for the user that init() is about to count.                             *)
Opening == IF pc[Main] \in {"init_load", "init_store", "init_timer"} THEN 1 ELSE 0
Users == Cardinality({fd \in Fds : IsOpen(fd)})
         + Cardinality({x \in Threads : pc[x] \in {"forget", "load", "store"}})
Drift == m_user_count - Users + (IF pc[Main] \in {"init_load", "init_store"} THEN 1 ELSE 0)

(***************************************************************************)
(* Clients and the kernel.                                                 *)
(***************************************************************************)
GoOn == Cardinality(overtaken) <= MaxOvertaken

Connect ==
    /\ ~backlog
    /\ Drift \in -MaxDrift..MaxDrift
    /\ GoOn
    /\ Cardinality(live) + Opening < Cardinality(Timers)
    /\ backlog' = TRUE
    /\ UNCHANGED <<interest, inbox, peer, full, alarm, object, m_user_count, wheel, pool,
                   loop, pc, loaded, arg, crashed, history>>

Send(fd, chunk) ==
    /\ GoOn
    /\ IsOpen(fd) /\ peer[fd] = "up"
    /\ Len(inbox[fd]) < MaxInbox
    /\ inbox' = [inbox EXCEPT ![fd] = Append(@, chunk)]
    /\ UNCHANGED <<backlog, interest, peer, full, alarm, object, m_user_count, wheel, pool,
                   loop, pc, loaded, arg, crashed, history>>

(* The client closes its side or resets the connection: EPOLLRDHUP or      *)
(* EPOLLHUP, for which deal_close and deal_err do the same.                *)
Leave(fd) ==
    /\ GoOn
    /\ IsOpen(fd) /\ peer[fd] = "up"
    /\ peer' = [peer EXCEPT ![fd] = "gone"]
    /\ UNCHANGED <<backlog, interest, inbox, full, alarm, object, m_user_count, wheel, pool,
                   loop, pc, loaded, arg, crashed, history>>

Drain(fd) ==
    /\ full[fd]
    /\ full' = [full EXCEPT ![fd] = FALSE]
    /\ UNCHANGED <<backlog, interest, inbox, peer, alarm, object, m_user_count, wheel, pool,
                   loop, pc, loaded, arg, crashed, history>>

(* SIGALRM: signal_handler sends the number of the signal into the pipe. *)
SignalHandler ==
    /\ alarm = "set"
    /\ alarm' = "sent"
    /\ UNCHANGED <<backlog, interest, inbox, peer, full, object, m_user_count, wheel, pool,
                   loop, pc, loaded, arg, crashed, history>>

(* The events epoll_wait would report now, each fd's the first that        *)
(* eventloop tests for.                                                    *)
Event(fd) ==
    CASE fd = listen_fd -> IF backlog THEN "in" ELSE "none"
      [] fd = sig_pipe  -> IF alarm = "sent" THEN "in" ELSE "none"
      [] OTHER ->
            IF interest[fd] \notin {"in", "out"} THEN "none"
            ELSE IF peer[fd] = "gone" THEN "hup"
            ELSE IF interest[fd] = "in" /\ inbox[fd] # <<>> THEN "in"
            ELSE IF interest[fd] = "out" /\ ~full[fd] THEN "out"
            ELSE "none"

Mutant_EpollWait_NotOneShot ==
    /\ GoTo(Main, "epoll_wait", "events")
    /\ events' = [fd \in Polled |-> Event(fd)]
    /\ \E fd \in Polled : Event(fd) # "none"
    /\ UNCHANGED <<interest, backlog, inbox, peer, full, alarm, object, m_user_count, wheel, pool,
                   timeout, sockfd, tmp, loaded, arg, crashed, history>>

(* EPOLLONESHOT: a reported connection is not watched until it is armed    *)
(* again.  The listening socket and the pipe are level-triggered.          *)
EpollWait ==
    /\ GoTo(Main, "epoll_wait", "events")
    /\ events' = [fd \in Polled |-> Event(fd)]
    /\ \E fd \in Polled : Event(fd) # "none"
    /\ interest' = [fd \in Fds |-> IF Event(fd) = "none" THEN interest[fd] ELSE "off"]
    /\ UNCHANGED <<backlog, inbox, peer, full, alarm, object, m_user_count, wheel, pool,
                   timeout, sockfd, tmp, loaded, arg, crashed, history>>

(***************************************************************************)
(* close_conn(), run by any thread x on its connection, and timer_func(),  *)
(* run by tick() for the timer tmp.  Both test m_sockfd, remove and close  *)
(* the socket, forget it and count down; then close_conn deletes the timer *)
(* and timer_cb_func clears the pointer to it.                             *)
(***************************************************************************)
AfterSocket(x) == IF x = Main /\ tmp # NULL THEN "fired" ELSE "timer"

Close_Socket(x) ==
    LET fd == m_sockfd[Conn(x)] IN
    /\ GoTo(x, "close", IF fd # NoFd THEN "forget" ELSE AfterSocket(x))
    /\ interest' = IF IsOpen(fd) THEN [interest EXCEPT ![fd] = "none"] ELSE interest
    /\ inbox' = IF IsOpen(fd) THEN [inbox EXCEPT ![fd] = <<>>] ELSE inbox
    /\ peer' = IF IsOpen(fd) THEN [peer EXCEPT ![fd] = "up"] ELSE peer
    /\ full' = IF IsOpen(fd) THEN [full EXCEPT ![fd] = FALSE] ELSE full
    /\ UNCHANGED <<backlog, alarm, object, m_user_count, wheel, pool, loop, loaded, arg, crashed, history>>

Close_Forget(x) ==
    /\ GoTo(x, "forget", "load")
    /\ m_sockfd' = [m_sockfd EXCEPT ![Conn(x)] = NoFd]
    /\ UNCHANGED <<kernel, timer, buf, bytes_to_send, bytes_have_send, m_user_count, wheel, pool, loop,
                   loaded, arg, crashed, history>>

(* Thread x loads m_user_count while another thread is about to store it. *)
Tears(x) == \E y \in Threads \ {x} : pc[y] \in {"store", "init_store"}

(* m_user_count-- is a load and a store: it is a plain int. *)
Close_Load(x) ==
    /\ GoTo(x, "load", "store")
    /\ loaded' = [loaded EXCEPT ![x] = m_user_count]
    /\ torn' = (torn \/ Tears(x))
    /\ UNCHANGED <<kernel, object, m_user_count, wheel, pool, loop, arg, crashed, overtaken>>

Mutant_Close_Store_NoCount(x) ==
    /\ GoTo(x, "store", AfterSocket(x))
    /\ loaded' = [loaded EXCEPT ![x] = 0]
    /\ UNCHANGED <<m_user_count, kernel, object, wheel, pool, loop, arg, crashed, history>>

Close_Store(x) ==
    /\ GoTo(x, "store", AfterSocket(x))
    /\ m_user_count' = loaded[x] - 1
    /\ loaded' = [loaded EXCEPT ![x] = 0]
    /\ UNCHANGED <<kernel, object, wheel, pool, loop, arg, crashed, history>>

(* The event loop goes on with the batch, a worker with process(). *)
AfterClose(x) == IF x = Main THEN "events" ELSE "arm_out"

(* The end of a handler of the event loop: its sockfd is out of scope.     *)
EndOf(x) == sockfd' = IF x = Main THEN NoFd ELSE sockfd

Close_Timer(x) ==
    LET t == timer[Conn(x)] IN
    /\ pc[x] = "timer"
    /\ \/ t = NULL /\ GoTo(x, "timer", AfterClose(x)) /\ EndOf(x)
       \/ t # NULL /\ GoTo(x, "timer", "del_timer") /\ UNCHANGED sockfd
    /\ arg' = [arg EXCEPT ![x] = t]
    /\ UNCHANGED <<kernel, object, m_user_count, wheel, pool, events, timeout, tmp, loaded, crashed, history>>

(* A deleted timer has no members. *)
Freed(t) == [u \in Timers |-> IF u = t THEN NoFd ELSE user_data[u]]

Close_DelTimer(x) ==
    /\ ~Ticking
    /\ GoTo(x, "del_timer", "clear")
    /\ live' = live \ {arg[x]} /\ user_data' = Freed(arg[x])
    /\ crashed' = (arg[x] \notin live)
    /\ arg' = [arg EXCEPT ![x] = NULL]
    /\ UNCHANGED <<kernel, object, m_user_count, pool, loop, loaded, history>>

Mutant_Close_Clear_Keeps(x) ==
    /\ GoTo(x, "clear", AfterClose(x))
    /\ EndOf(x)
    /\ UNCHANGED <<timer, kernel, m_sockfd, buf, bytes_to_send, bytes_have_send, m_user_count, wheel, pool, events, timeout, tmp,
                   loaded, arg, crashed, history>>

Close_Clear(x) ==
    /\ GoTo(x, "clear", AfterClose(x))
    /\ EndOf(x)
    /\ timer' = [timer EXCEPT ![Conn(x)] = NULL]
    /\ UNCHANGED <<kernel, m_sockfd, buf, bytes_to_send, bytes_have_send, m_user_count, wheel, pool, events, timeout, tmp,
                   loaded, arg, crashed, history>>

CloseConn(x) ==
    \/ Close_Socket(x) \/ Close_Forget(x) \/ Close_Load(x) \/ Close_Store(x)
    \/ Close_Timer(x) \/ Close_DelTimer(x) \/ Close_Clear(x)

(***************************************************************************)
(* The event loop: one handler for each event of the batch.                *)
(***************************************************************************)
Handles(fd, kinds, next) ==
    /\ GoTo(Main, "events", next)
    /\ events[fd] \in kinds
    /\ events' = [events EXCEPT ![fd] = "none"]

FreeFds == {fd \in Fds : interest[fd] = "none"}

(* accept() fails with an error of the connection, which is then gone, or  *)
(* because the process has no number left; the client goes on waiting.     *)
DealConnection_Fails ==
    /\ Handles(listen_fd, {"in"}, "events")
    /\ backlog' = (FreeFds = {})
    /\ UNCHANGED <<interest, inbox, peer, full, alarm, object, m_user_count, wheel, pool,
                   timeout, sockfd, tmp, loaded, arg, crashed, history>>

(* send_error() writes "Internal server busy" and closes the socket. *)
DealConnection_Refuses ==
    /\ Handles(listen_fd, {"in"}, "events")
    /\ FreeFds # {}
    /\ m_user_count >= MAX_FD
    /\ backlog' = FALSE
    /\ UNCHANGED <<interest, inbox, peer, full, alarm, object, m_user_count, wheel, pool,
                   timeout, sockfd, tmp, loaded, arg, crashed, history>>

(* accept() returns the lowest free number, be the last connection with it *)
(* still in the pool; users[fd].init() stores it and registers it with     *)
(* epoll.                                                                  *)
DealConnection_Accepts ==
    LET fd == Min(FreeFds) IN
    /\ Handles(listen_fd, {"in"}, "init_load")
    /\ FreeFds # {}
    /\ m_user_count < MAX_FD
    /\ backlog' = FALSE
    /\ sockfd' = fd
    /\ m_sockfd' = [m_sockfd EXCEPT ![fd] = fd]
    /\ interest' = [interest EXCEPT ![fd] = "in"]
    /\ overtaken' = IF InPool(fd) THEN overtaken \cup {fd} ELSE overtaken
    /\ UNCHANGED <<inbox, peer, full, alarm, timer, buf, bytes_to_send, bytes_have_send,
                   m_user_count, wheel, pool, timeout, tmp, loaded, arg, crashed, torn>>

Init_Load ==
    /\ GoTo(Main, "init_load", "init_store")
    /\ loaded' = [loaded EXCEPT ![Main] = m_user_count]
    /\ torn' = (torn \/ Tears(Main))
    /\ UNCHANGED <<kernel, object, m_user_count, wheel, pool, loop, arg, crashed, overtaken>>

Init_Store ==
    /\ GoTo(Main, "init_store", "init_timer")
    /\ m_user_count' = loaded[Main] + 1
    /\ loaded' = [loaded EXCEPT ![Main] = 0]
    /\ UNCHANGED <<kernel, object, wheel, pool, loop, arg, crashed, history>>

(* Http_Conn::init(): the buffers are empty. *)
Reset(fd) ==
    /\ buf' = [buf EXCEPT ![fd] = "empty"]
    /\ bytes_to_send' = [bytes_to_send EXCEPT ![fd] = 0]
    /\ bytes_have_send' = [bytes_have_send EXCEPT ![fd] = 0]

(* An address of a timer that is still known to somebody. *)
Referred(t) == (\E fd \in Fds \ {sockfd} : timer[fd] = t) \/ \E x \in Threads : arg[x] = t

(* The buffers are reset, add_timer allocates t, and the two objects point *)
(* at each other.                                                          *)
Init_Timer(t) ==
    /\ GoTo(Main, "init_timer", "events")
    /\ EndOf(Main)
    /\ Reset(sockfd)
    /\ t \notin live
    /\ live' = live \cup {t}
    /\ user_data' = [user_data EXCEPT ![t] = sockfd]
    /\ timer' = [timer EXCEPT ![sockfd] = t]
    /\ overtaken' = IF Referred(t) THEN overtaken \cup {sockfd} ELSE overtaken
    /\ UNCHANGED <<kernel, m_sockfd, m_user_count, pool, events, timeout, tmp, loaded, arg,
                   crashed, torn>>

DealSignal ==
    /\ Handles(sig_pipe, {"in"}, "events")
    /\ alarm' = "taken"
    /\ timeout' = TRUE
    /\ UNCHANGED <<backlog, interest, inbox, peer, full, object, m_user_count, wheel, pool,
                   sockfd, tmp, loaded, arg, crashed, history>>

(* deal_err and deal_close *)
DealClose(fd) ==
    /\ Handles(fd, {"hup"}, "close")
    /\ sockfd' = fd
    /\ UNCHANGED <<kernel, object, m_user_count, wheel, pool, timeout, tmp, loaded, arg, crashed, history>>

(* timer_update(): adjust_timer reads and writes the timer it is given. *)
TimerUpdate(fd) == crashed' = (timer[fd] \notin live \cup {NULL})

DealRead(fd) ==
    /\ Handles(fd, {"in"}, "read")
    /\ sockfd' = fd
    /\ TimerUpdate(fd)
    /\ UNCHANGED <<kernel, object, m_user_count, wheel, pool, timeout, tmp, loaded, arg, history>>

(* What the parser makes of the read buffer, and what once chunk followed. *)
BufStates == {"empty", "part", "whole", "more", "bad", "full"}
Followed(b, chunk) ==
    CASE chunk = "huge" \/ b = "full"               -> "full"
      [] b = "bad"                                  -> "bad"
      [] b \in {"whole", "more"}                    -> "more"
      [] b \in {"empty", "part"} /\ chunk = "bad"   -> "bad"
      [] b = "empty" /\ chunk = "half"              -> "part"
      [] b = "part" /\ chunk = "half"               -> "whole"

(* ... and once all the chunks of s did: d is the buffer after each.       *)
Reads(b, s) ==
    LET after == {d \in [0..Len(s) -> BufStates] :
                     d[0] = b /\ \A i \in 1..Len(s) : d[i] = Followed(d[i - 1], s[i])}
    IN {d[Len(s)] : d \in after}

(* Http_Conn::read() reads until the socket is empty.  It fails when the   *)
(* socket is bad or the client left, and also when the buffer has no room  *)
(* left: recv() with length 0 returns 0, as if the client had closed.      *)
(* What was read before stays in the buffer.                               *)
Read ==
    LET fd  == m_sockfd[sockfd]
        got == IF IsOpen(fd) THEN inbox[fd] ELSE <<>>
    IN
    /\ pc[Main] = "read"
    /\ \E data \in Reads(buf[sockfd], got) :
          LET ok == IsOpen(fd) /\ peer[fd] = "up" /\ data # "full" IN
          /\ \/ ok /\ GoTo(Main, "read", "append")
             \/ ~ok /\ GoTo(Main, "read", "close")
          /\ buf' = [buf EXCEPT ![sockfd] = data]
    /\ inbox' = IF IsOpen(fd) THEN [inbox EXCEPT ![fd] = <<>>] ELSE inbox
    /\ UNCHANGED <<backlog, interest, peer, full, alarm, m_sockfd, timer, bytes_to_send,
                   bytes_have_send, m_user_count, wheel, pool, loop, loaded, arg, crashed, history>>

(* while(!pool->append(users + sockfd)); the loop spins until there is     *)
(* room in the queue.                                                      *)
AppendToPool ==
    /\ GoTo(Main, "append", "events")
    /\ EndOf(Main)
    /\ Pool!Submit(sockfd)
    /\ UNCHANGED <<kernel, object, m_user_count, wheel, events, timeout, tmp, loaded, arg, crashed, history>>

DealWrite(fd) ==
    /\ Handles(fd, {"out"}, "write")
    /\ sockfd' = fd
    /\ TimerUpdate(fd)
    /\ UNCHANGED <<kernel, object, m_user_count, wheel, pool, timeout, tmp, loaded, arg, history>>

(***************************************************************************)
(* Http_Conn::write()                                                      *)
(***************************************************************************)
Writing(next) == GoTo(Main, "write", next)

(* With nothing to send, the connection is armed and reset. *)
Write_Nothing ==
    /\ Writing("events")
    /\ EndOf(Main)
    /\ bytes_to_send[sockfd] = 0
    /\ ModFd(m_sockfd[sockfd], "in")
    /\ Reset(sockfd)
    /\ UNCHANGED <<backlog, inbox, peer, full, alarm, m_sockfd, timer, m_user_count, wheel,
                   pool, events, timeout, tmp, loaded, arg, crashed, history>>

(* writev() fails: the socket is bad, or the client is gone (it may still  *)
(* succeed when the client only closed its side), or the iovecs are wrong  *)
(* after a part of the response went out (see HttpConn).                   *)
Write_Fails ==
    /\ Writing("close")
    /\ bytes_to_send[sockfd] > 0
    /\ IsOpen(m_sockfd[sockfd]) => peer[m_sockfd[sockfd]] = "gone" \/ bytes_have_send[sockfd] > 0
    /\ UNCHANGED <<kernel, object, m_user_count, wheel, pool, loop, loaded, arg, crashed, history>>

(* The socket is full; the rest of the response waits for EPOLLOUT. *)
Write_Blocks ==
    LET fd == m_sockfd[sockfd] IN
    /\ Writing("events")
    /\ EndOf(Main)
    /\ bytes_to_send[sockfd] > 0
    /\ IsOpen(fd) /\ full[fd]
    /\ ModFd(fd, "out")
    /\ UNCHANGED <<backlog, inbox, peer, full, alarm, object, m_user_count, wheel,
                   pool, events, timeout, tmp, loaded, arg, crashed, history>>

(* The test that write() had in an earlier version. *)
Mutant_AfterPart_Half(rest) == IF rest <= ResponseParts - rest THEN "written" ELSE "write"

(* Where write() goes on when the rest of the response is left. *)
AfterPart(rest) == IF rest = 0 THEN "written" ELSE "write"

Mutant_Write_Takes_Endless ==
    LET fd == m_sockfd[sockfd] IN
    /\ Writing("write")
    /\ IsOpen(fd) /\ ~full[fd]
    /\ bytes_to_send' = [bytes_to_send EXCEPT ![sockfd] = @ - 1]
    /\ bytes_have_send' = [bytes_have_send EXCEPT ![sockfd] = @ + 1]
    /\ \E b \in BOOLEAN : full' = [full EXCEPT ![fd] = b]
    /\ UNCHANGED <<backlog, interest, inbox, peer, alarm, m_sockfd, timer, buf, m_user_count,
                   wheel, pool, loop, loaded, arg, crashed, history>>

(* The socket takes a part of the response, and may be full then. *)
Write_Takes ==
    LET fd == m_sockfd[sockfd] IN
    /\ pc[Main] = "write"
    /\ bytes_to_send[sockfd] > 0
    /\ Writing(AfterPart(bytes_to_send[sockfd] - 1))
    /\ IsOpen(fd) /\ ~full[fd]
    /\ bytes_to_send' = [bytes_to_send EXCEPT ![sockfd] = @ - 1]
    /\ bytes_have_send' = [bytes_have_send EXCEPT ![sockfd] = @ + 1]
    /\ \E b \in BOOLEAN : full' = [full EXCEPT ![fd] = b]
    /\ UNCHANGED <<backlog, interest, inbox, peer, alarm, m_sockfd, timer, buf, m_user_count,
                   wheel, pool, loop, loaded, arg, crashed, history>>

(* The response is out and the connection is kept alive: it is armed and   *)
(* its buffers are reset, unless bytes of a next request came with this    *)
(* one; they are discarded with the connection.                            *)
Write_KeepsAlive ==
    /\ pc[Main] = "written"
    /\ ModFd(m_sockfd[sockfd], "in")
    /\ \/ /\ buf[sockfd] = "more"
          /\ GoTo(Main, "written", "close")
          /\ UNCHANGED <<buf, bytes_to_send, bytes_have_send, sockfd>>
       \/ /\ buf[sockfd] # "more"
          /\ GoTo(Main, "written", "events")
          /\ EndOf(Main)
          /\ Reset(sockfd)
    /\ UNCHANGED <<backlog, inbox, peer, full, alarm, m_sockfd, timer, m_user_count, wheel,
                   pool, events, timeout, tmp, loaded, arg, crashed, history>>

(* The response is out and m_linger is not set. *)
Write_EndsConnection ==
    /\ GoTo(Main, "written", "close")
    /\ ModFd(m_sockfd[sockfd], "in")
    /\ UNCHANGED <<backlog, inbox, peer, full, alarm, object, m_user_count, wheel, pool, loop,
                   loaded, arg, crashed, history>>

Write ==
    \/ Write_Nothing \/ Write_Fails \/ Write_Blocks \/ Write_Takes
    \/ Write_KeepsAlive \/ Write_EndsConnection

(***************************************************************************)
(* The end of a batch, and tick().                                         *)
(***************************************************************************)
EndOfEvents ==
    /\ \A fd \in Polled : events[fd] = "none"
    /\ GoTo(Main, "events", IF timeout THEN "tick" ELSE "epoll_wait")
    /\ UNCHANGED <<kernel, object, m_user_count, wheel, pool, events, timeout, sockfd, tmp, loaded, arg, crashed, history>>

(* The timer t is due and its callback starts, whoever has the connection. *)
Tick_Fire(t) ==
    /\ GoTo(Main, "tick", "close")
    /\ t \in live
    /\ tmp' = t
    /\ sockfd' = user_data[t]
    /\ overtaken' = IF InPool(user_data[t]) THEN overtaken \cup {user_data[t]} ELSE overtaken
    /\ UNCHANGED <<kernel, object, m_user_count, wheel, pool, events, timeout, loaded, arg,
                   crashed, torn>>

(* timer_cb_func clears the pointer, tick unlinks and deletes the timer. *)
Tick_Fired ==
    /\ GoTo(Main, "fired", "tick")
    /\ timer' = [timer EXCEPT ![sockfd] = NULL]
    /\ live' = live \ {tmp} /\ user_data' = Freed(tmp)
    /\ tmp' = NULL
    /\ sockfd' = NoFd
    /\ UNCHANGED <<kernel, m_sockfd, buf, bytes_to_send, bytes_have_send, m_user_count, pool,
                   events, timeout, loaded, arg, crashed, history>>

Mutant_Tick_End_NoAlarm ==
    /\ GoTo(Main, "tick", "epoll_wait")
    /\ timeout' = FALSE
    /\ UNCHANGED <<alarm, backlog, interest, inbox, peer, full, object, m_user_count, wheel, pool,
                   events, sockfd, tmp, loaded, arg, crashed, history>>

(* timeout = false; alarm(TIME_SLOT); *)
Tick_End ==
    /\ GoTo(Main, "tick", "epoll_wait")
    /\ timeout' = FALSE
    /\ alarm' = "set"
    /\ UNCHANGED <<backlog, interest, inbox, peer, full, object, m_user_count, wheel, pool,
                   events, sockfd, tmp, loaded, arg, crashed, history>>

(***************************************************************************)
(* A worker: process()                                                     *)
(***************************************************************************)
Take(w) ==
    /\ GoTo(w, "take", "parse")
    /\ Pool!Start(w)
    /\ UNCHANGED <<kernel, object, m_user_count, wheel, loop, loaded, arg, crashed, history>>

(* process_read() and process_write() *)
Parse_Incomplete(w) ==
    LET c == running[w] IN
    /\ GoTo(w, "parse", "arm_in")
    /\ buf[c] \in {"empty", "part", "full"}
    /\ UNCHANGED <<kernel, object, m_user_count, wheel, pool, loop, loaded, arg, crashed, history>>

Parse_Request(w) ==
    LET c == running[w] IN
    /\ GoTo(w, "parse", "arm_out")
    /\ buf[c] \in {"whole", "more"}
    /\ bytes_to_send' = [bytes_to_send EXCEPT ![c] = ResponseParts]
    /\ UNCHANGED <<kernel, m_sockfd, timer, buf, bytes_have_send, m_user_count, wheel, pool, loop, loaded, arg, crashed, history>>

Parse_BadRequest(w) ==
    LET c == running[w] IN
    /\ GoTo(w, "parse", "close")
    /\ buf[c] \notin {"empty", "part", "whole", "more"}
    /\ UNCHANGED <<kernel, object, m_user_count, wheel, pool, loop, loaded, arg, crashed, history>>

Mutant_Rearm_OnlyOut(w) ==
    /\ \/ GoTo(w, "arm_in", "take") /\ UNCHANGED interest
       \/ GoTo(w, "arm_out", "take") /\ ModFd(m_sockfd[running[w]], "out")
    /\ Pool!Finish(w)
    /\ UNCHANGED <<backlog, inbox, peer, full, alarm, object, m_user_count, wheel, loop,
                   loaded, arg, crashed, history>>

Mutant_Rearm_AlwaysIn(w) ==
    /\ \/ GoTo(w, "arm_in", "take") /\ ModFd(m_sockfd[running[w]], "in")
       \/ GoTo(w, "arm_out", "take") /\ ModFd(m_sockfd[running[w]], "in")
    /\ Pool!Finish(w)
    /\ UNCHANGED <<backlog, inbox, peer, full, alarm, object, m_user_count, wheel, loop,
                   loaded, arg, crashed, history>>

(* modfd() is the last thing process() does, after close_conn() as well;   *)
(* m_sockfd is read again for it.                                          *)
Rearm(w) ==
    /\ \/ GoTo(w, "arm_in", "take") /\ ModFd(m_sockfd[running[w]], "in")
       \/ GoTo(w, "arm_out", "take") /\ ModFd(m_sockfd[running[w]], "out")
    /\ Pool!Finish(w)
    /\ UNCHANGED <<backlog, inbox, peer, full, alarm, object, m_user_count, wheel, loop,
                   loaded, arg, crashed, history>>

-----------------------------------------------------------------------------
MainStep ==
    \/ EpollWait \/ DealConnection_Fails \/ DealConnection_Refuses \/ DealConnection_Accepts
    \/ Init_Load \/ Init_Store \/ (\E t \in Timers : Init_Timer(t))
    \/ DealSignal
    \/ (\E fd \in Fds : DealClose(fd) \/ DealRead(fd) \/ DealWrite(fd))
    \/ Read \/ AppendToPool \/ Write \/ CloseConn(Main)
    \/ EndOfEvents \/ (\E t \in Timers : Tick_Fire(t)) \/ Tick_Fired \/ Tick_End

WorkerStep(w) ==
    \/ Take(w) \/ Parse_Incomplete(w) \/ Parse_Request(w) \/ Parse_BadRequest(w)
    \/ CloseConn(w) \/ Rearm(w)

ClientStep ==
    \/ Connect
    \/ \E fd \in Fds : \/ \E chunk \in Chunks : Send(fd, chunk)
                       \/ Leave(fd)
                       \/ Drain(fd)

(* After a use of a deleted timer anything may happen; the threads are not *)
(* followed any further.                                                   *)
Undefined == crashed /\ UNCHANGED vars

Next ==
    \/ MainStep \/ (\E w \in Workers : WorkerStep(w))
    \/ ClientStep \/ SignalHandler \/ Undefined

Spec == Init /\ [][Next]_vars

(* The threads run, and one that finds the wheel's lock free again and     *)
(* again gets it; the alarm goes off; clients read what they are sent, but *)
(* need not connect, send or leave.                                        *)
Fairness ==
    /\ WF_vars(MainStep)
    /\ \A w \in Workers : WF_vars(WorkerStep(w)) /\ SF_vars(Close_DelTimer(w))
    /\ WF_vars(SignalHandler)
    /\ \A fd \in Fds : WF_vars(Drain(fd))

FairSpec == Spec /\ Fairness

-----------------------------------------------------------------------------
ClosePCs == {"close", "forget", "load", "store", "timer", "del_timer", "clear"}
MainPCs == ClosePCs \cup {"epoll_wait", "events", "init_load", "init_store", "init_timer",
                          "read", "append", "write", "written", "tick", "fired"}
WorkerPCs == ClosePCs \cup {"take", "parse", "arm_in", "arm_out"}

TypeOK ==
    /\ backlog \in BOOLEAN
    /\ interest \in [Fds -> {"none", "off", "in", "out"}]
    /\ inbox \in [Fds -> Seq(Chunks)]
    /\ buf \in [Fds -> BufStates]
    /\ peer \in [Fds -> {"up", "gone"}]
    /\ full \in [Fds -> BOOLEAN]
    /\ alarm \in {"set", "sent", "taken"}
    /\ m_sockfd \in [Fds -> Fds \cup {NoFd}]
    /\ timer \in [Fds -> Timers \cup {NULL}]
    /\ bytes_to_send \in [Fds -> 0 .. ResponseParts]
    /\ bytes_have_send \in [Fds -> Nat]
    /\ m_user_count \in Int
    /\ live \subseteq Timers
    /\ user_data \in [Timers -> Fds \cup {NoFd}]
    /\ m_workqueue \in Seq(Fds)
    /\ running \in [Workers -> Fds \cup {NoFd}]
    /\ events \in [Polled -> {"none", "in", "out", "hup"}]
    /\ timeout \in BOOLEAN
    /\ sockfd \in Fds \cup {NoFd}
    /\ tmp \in Timers \cup {NULL}
    /\ pc[Main] \in MainPCs /\ \A w \in Workers : pc[w] \in WorkerPCs
    /\ loaded \in [Threads -> Int]
    /\ arg \in [Threads -> Timers \cup {NULL}]
    /\ crashed \in BOOLEAN
    /\ overtaken \subseteq Fds
    /\ torn \in BOOLEAN

Armed(fd) == interest[fd] \in {"in", "out"}

(* The event loop has an event of fd to handle, or is handling it. *)
WithMain(fd) ==
    \/ events[fd] # "none"
    \/ sockfd = fd

TimesInPool(fd) ==
    Cardinality({i \in DOMAIN m_workqueue : m_workqueue[i] = fd})
        + Cardinality({w \in Workers : running[w] = fd})

(* The connections that nobody overtook.  The program does nothing to      *)
(* prevent it: accept() gives the number of a connection to the next       *)
(* client, and tick() closes one, without regard to a worker that is on    *)
(* it.  What follows says what the program keeps all the same, and that    *)
(* the damage stays with the connections it happened to.                   *)
Undisturbed == Fds \ overtaken

(* A connection object has one owner at a time, and nobody locks it for    *)
(* that: while a connection is in the pool, only one worker has it, epoll  *)
(* does not watch it and the event loop does not touch it, unless it was   *)
(* overtaken; races on other connections do not change that.               *)
OneOwner ==
    \A fd \in Undisturbed : InPool(fd) => TimesInPool(fd) = 1 /\ ~Armed(fd) /\ ~WithMain(fd)

(* No connection is forgotten: whatever path it took through read, write,  *)
(* process and the pool, an open one is watched again or in somebody's     *)
(* hands, unless a worker that was still closing its predecessor got it.   *)
NeverForgotten ==
    \A fd \in Undisturbed : IsOpen(fd) => Armed(fd) \/ WithMain(fd) \/ InPool(fd)

(* Nobody is opening or closing connection fd just now. *)
Settled(fd) ==
    /\ sockfd = fd => pc[Main] \notin ClosePCs \cup {"init_load", "init_store", "init_timer", "fired"}
    /\ \A w \in Workers : running[w] = fd => pc[w] \notin ClosePCs

(* Every open connection has a timer of its own in the wheel, that will    *)
(* close it, a closed one has none, and no other timer of it is left in    *)
(* the wheel: close_conn, timer_cb_func and deal_connection keep object,   *)
(* socket and timer together for a connection that was not overtaken, and  *)
(* a timer deleted twice elsewhere is never one of its.                    *)
TimerPerConnection ==
    /\ \A fd \in Undisturbed : Settled(fd) =>
           IF IsOpen(fd)
           THEN m_sockfd[fd] = fd /\ timer[fd] \in live /\ user_data[timer[fd]] = fd
           ELSE m_sockfd[fd] = NoFd /\ timer[fd] = NULL
    /\ \A t \in live : user_data[t] \in Undisturbed =>
           timer[user_data[t]] = t \/ ~Settled(user_data[t])

(* A timer is used or deleted after it was deleted only by a thread that   *)
(* has an overtaken connection in hand: by no handler, worker or tick      *)
(* otherwise.                                                              *)
NoUseAfterFree == crashed => \E x \in Threads : Conn(x) \in overtaken

(* m_user_count is the number of users, however many threads count, until  *)
(* two of them are at it at once or a connection is overtaken and closed   *)
(* twice.                                                                  *)
UserCountExact == ~torn /\ overtaken = {} => Drift = 0

(* "too many users. refuse connection": a client is turned away only when  *)
(* there are MAX_FD others.                                                *)
RefusesOnlyWhenFull == [][DealConnection_Refuses => Users >= MAX_FD]_vars

(* The alarm is set again after every tick, and no handler, no full queue  *)
(* and no wait for the wheel's lock stops the event loop: ticks keep       *)
(* coming, and with them the closing of idle connections.                  *)
TicksKeepComing == []<>(pc[Main] = "tick" \/ crashed)

(* Bytes that arrive are read, whatever the state of the connection when   *)
(* they do: no edge of the edge-triggered socket is missed.                *)
EverythingIsRead ==
    \A fd \in Fds : []<>(inbox[fd] = <<>> \/ crashed)

(* The buffers of an open connection that hold a request, or a part of     *)
(* one, are reset only when the whole response is out: not when a part of  *)
(* it is, and not by a write() that finds nothing to send, for epoll       *)
(* reports EPOLLOUT for no such connection unless it was overtaken.        *)
AnsweredBeforeReset ==
    [][\A fd \in Undisturbed :
          IsOpen(fd) /\ timer[fd] # NULL /\ buf[fd] # "empty" /\ buf'[fd] = "empty"
              => bytes_have_send[fd] = ResponseParts]_vars

(* A complete request does not stay in the buffer of an open connection:   *)
(* it is answered, or the connection is closed.                            *)
EveryRequestIsAnswered ==
    \A fd \in Fds : []<>(~IsOpen(fd) \/ buf[fd] \notin {"whole", "more"} \/ crashed)
=============================================================================
