----------------------------- MODULE IdleCloser -----------------------------
(***************************************************************************)
(* mine/practice/closeInactiveConnection.cpp: one thread serves the        *)
(* connections, and closes those from which nothing came for three slots   *)
(* of TIMESLOT seconds.  The clock is SIGALRM: the handler writes a byte   *)
(* to a pipe, the loop reads it, ticks the list of timers and only then    *)
(* sets the alarm again.                                                   *)
(*                                                                         *)
(* Edges are kept in `ready` until epoll_wait reports them, in any order.  *)
(* Time passes in slots; a timer's expiry is the slots that are left,      *)
(* with 0 for what is due or overdue.  users[fd].timer is never nulled;    *)
(* its use after the timer was deleted is undefined behaviour, and ends    *)
(* the behaviour in pc = "undefined".                                      *)
(*                                                                         *)
(* A definition Mutant_D_... is the definition D that follows it with one  *)
(* fault put in; it is not part of the model.                              *)
(***************************************************************************)
EXTENDS Integers, SequencesExt

CONSTANTS
    Fds,            \* the descriptors that accept returns
    listenfd, pipefd,
    NULL,
    Idle,           \* slots without data after which a connection is closed: 3
    MaxData         \* bound: unread portions of data of a connection

ASSUME FdAssumption == /\ Fds \subseteq Nat /\ IsFiniteSet(Fds) /\ NULL \notin Fds
                       /\ {listenfd, pipefd} \subseteq Nat \ Fds /\ listenfd # pipefd
ASSUME BoundAssumption == Idle \in Nat \ {0} /\ MaxData \in Nat \ {0}

VARIABLES
    pc,             \* "wait", "handle", "tick", "stopped" or "undefined"
    batch,          \* the events of this epoll_wait that are still to be handled
    i,              \* those that were handled: the index of the next one
    list, expire, live,     \* the timers; the timer of descriptor fd is named fd
    open,           \* the connections
    stop_server,
    ready,          \* edges that epoll_wait has yet to report: listenfd, pipefd, descriptors
    backlog, data, eof,     \* what clients did and the server has yet to see
    pipe,           \* the bytes in the signal pipe, oldest first
    alarm,          \* SIGALRM will come
    ticked          \* history: a tick ran in this batch

timers == <<list, expire, live>>
kernel == <<backlog, data, eof>>
vars == <<pc, batch, i, timers, open, stop_server, ready, kernel, pipe, alarm, ticked>>

L == INSTANCE SortedTimerList WITH Timers <- Fds

Init ==
    /\ pc = "wait" /\ batch = {} /\ i = 0
    /\ list = L!EmptyList /\ expire = [fd \in Fds |-> 0] /\ live = {}
    /\ open = {} /\ stop_server = FALSE /\ ready = {}
    /\ backlog = 0 /\ data = [fd \in Fds |-> 0] /\ eof = {}
    /\ pipe = <<>> /\ alarm = TRUE /\ ticked = FALSE

(* epoll_wait reports the edges behind which there still is something.     *)
Something(e) == CASE e = listenfd -> backlog > 0
                  [] e = pipefd   -> pipe # <<>>
                  [] OTHER        -> data[e] > 0 \/ e \in eof

EpollWait ==
    /\ pc = "wait"
    /\ LET reported == {e \in ready : Something(e)} IN
           /\ reported # {}
           /\ batch' = reported /\ pc' = "handle"
    /\ ready' = {}
    /\ UNCHANGED <<i, timers, open, stop_server, kernel, pipe, alarm, ticked>>

(* The next event of the batch is e.  The index i is counted up to 2, more *)
(* than there can be bytes in the pipe.                                    *)
Handles(e) == /\ pc = "handle" /\ e \in batch
              /\ batch' = batch \ {e} /\ i' = (IF i < 2 THEN i + 1 ELSE i)

(* One accept for one edge.  The descriptor is the lowest free one.        *)
DealConnection ==
    /\ Handles(listenfd)
    /\ LET fd == Min(Fds \ open) IN
           /\ backlog' = backlog - 1
           /\ open' = open \cup {fd} /\ live' = live \cup {fd}
           /\ expire' = [expire EXCEPT ![fd] = Idle]
           /\ list' = L!add_timer(L!NewTimer(list, fd), fd, expire')
    /\ UNCHANGED <<pc, stop_server, ready, data, eof, pipe, alarm, ticked>>

(* All the bytes are read, but for each of them the loop looks at          *)
(* signals[i], i being the index of the event: the first byte if the pipe  *)
(* is the first event, otherwise one of the others, or what the array held *)
(* before.  A SIGALRM among them starts the tick.                          *)
DealSignals ==
    /\ Handles(pipefd)
    /\ pipe' = <<>>
    /\ \E sig \in IF i < Len(pipe) THEN {pipe[i + 1]} ELSE {"ALRM", "TERM", "none"} :
           /\ pc' = IF sig = "ALRM" THEN "tick" ELSE pc
           /\ stop_server' = (stop_server \/ sig = "TERM")
    /\ UNCHANGED <<timers, open, ready, kernel, alarm, ticked>>

(* cb_func takes the descriptor from epoll and closes it; del_timer frees. *)
CloseConnection(fd) ==
    /\ open' = open \ {fd} /\ live' = live \ {fd}
    /\ list' = L!del_timer_sup(list, fd)
    /\ ready' = ready \ {fd} /\ eof' = eof \ {fd}
    /\ data' = [data EXCEPT ![fd] = 0]

DealRead_Data(fd) ==
    /\ Handles(fd) /\ fd \in open /\ data[fd] > 0
    /\ data' = [data EXCEPT ![fd] = @ - 1]
    /\ expire' = [expire EXCEPT ![fd] = Idle]
    /\ list' = L!adjust_timer(list, fd, expire')
    /\ UNCHANGED <<pc, live, open, stop_server, ready, backlog, eof, pipe, alarm, ticked>>

Mutant_DealRead_Eof_Repeats(fd) ==
    /\ Handles(fd) /\ fd \in open /\ data[fd] = 0 /\ fd \in eof
    /\ CloseConnection(fd)
    /\ pc' = "undefined"
    /\ UNCHANGED <<expire, stop_server, backlog, pipe, alarm, ticked>>

DealRead_Eof(fd) ==
    /\ Handles(fd) /\ fd \in open /\ data[fd] = 0 /\ fd \in eof
    /\ CloseConnection(fd)
    /\ UNCHANGED <<pc, expire, stop_server, backlog, pipe, alarm, ticked>>

(* The event was meant for a connection that a tick closed, and accept has *)
(* given its descriptor to another one.                                    *)
DealRead_Nothing(fd) ==
    /\ Handles(fd) /\ fd \in open /\ data[fd] = 0 /\ fd \notin eof
    /\ UNCHANGED <<pc, timers, open, stop_server, ready, kernel, pipe, alarm, ticked>>

(* The connection was closed since epoll_wait reported it: recv fails, and *)
(* del_timer gets the timer that was deleted then.                         *)
DealRead_Stale(fd) ==
    /\ Handles(fd) /\ fd \notin open
    /\ pc' = "undefined"
    /\ UNCHANGED <<timers, open, stop_server, ready, kernel, pipe, alarm, ticked>>

(* tick reads the clock once, and closes from the head what is due.        *)
HeadIsDue == list.head # NULL /\ expire[list.head] = 0

Tick_Due ==
    /\ pc = "tick" /\ HeadIsDue
    /\ CloseConnection(list.head)
    /\ UNCHANGED <<pc, batch, i, expire, stop_server, backlog, pipe, alarm, ticked>>

Mutant_Tick_End_NoAlarm ==
    /\ pc = "tick"
    /\ ~HeadIsDue
    /\ pc' = "handle" /\ ticked' = TRUE
    /\ UNCHANGED <<batch, i, timers, open, stop_server, ready, kernel, pipe, alarm>>

Tick_End ==
    /\ pc = "tick"
    /\ ~HeadIsDue
    /\ pc' = "handle" /\ alarm' = TRUE /\ ticked' = TRUE
    /\ UNCHANGED <<batch, i, timers, open, stop_server, ready, kernel, pipe>>

EndOfEvents ==
    /\ pc = "handle" /\ batch = {}
    /\ pc' = IF stop_server THEN "stopped" ELSE "wait"
    /\ i' = 0 /\ ticked' = FALSE
    /\ UNCHANGED <<batch, timers, open, stop_server, ready, kernel, pipe, alarm>>

(* The world outside.  What it does while a batch is handled counts as     *)
(* done after the batch: the loop reads each socket once in a batch.       *)

Runs == pc \notin {"stopped", "undefined"}

(* The handler writes the signal to the pipe.  Bound: a second SIGTERM     *)
(* before the first is read is left out; SIGALRM comes once per alarm.     *)
Byte(s) == /\ pipe' = IF Contains(pipe, s) THEN pipe ELSE Append(pipe, s)
           /\ ready' = ready \cup {pipefd}

(* A slot of TIMESLOT seconds passes; the alarm was set one slot ago.      *)
PassSlot ==
    /\ pc = "wait"
    /\ expire' = [fd \in Fds |-> IF expire[fd] > 0 THEN expire[fd] - 1 ELSE 0]
    /\ IF alarm THEN Byte("ALRM") ELSE UNCHANGED <<pipe, ready>>
    /\ alarm' = FALSE
    /\ UNCHANGED <<pc, batch, i, list, live, open, stop_server, kernel, ticked>>

Terminate ==
    /\ pc = "wait" /\ Byte("TERM")
    /\ UNCHANGED <<pc, batch, i, timers, open, stop_server, kernel, alarm, ticked>>

(* Bound: one client waits, and there are no more than descriptors. *)
Connect ==
    /\ pc = "wait" /\ backlog = 0 /\ backlog + Cardinality(open) < Cardinality(Fds)
    /\ backlog' = backlog + 1 /\ ready' = ready \cup {listenfd}
    /\ UNCHANGED <<pc, batch, i, timers, open, stop_server, data, eof, pipe, alarm, ticked>>

Send(fd) ==
    /\ pc = "wait" /\ fd \in open \ eof /\ data[fd] < MaxData
    /\ data' = [data EXCEPT ![fd] = @ + 1] /\ ready' = ready \cup {fd}
    /\ UNCHANGED <<pc, batch, i, timers, open, stop_server, backlog, eof, pipe, alarm, ticked>>

Leave(fd) ==
    /\ pc = "wait" /\ fd \in open \ eof
    /\ eof' = eof \cup {fd} /\ ready' = ready \cup {fd}
    /\ UNCHANGED <<pc, batch, i, timers, open, stop_server, backlog, data, pipe, alarm, ticked>>

DealRead(fd) == DealRead_Data(fd) \/ DealRead_Eof(fd) \/ DealRead_Nothing(fd) \/ DealRead_Stale(fd)
ServerStep == \/ EpollWait \/ DealConnection \/ DealSignals \/ (\E fd \in Fds : DealRead(fd))
              \/ Tick_Due \/ Tick_End \/ EndOfEvents
Outside == PassSlot \/ Terminate \/ Connect \/ (\E fd \in Fds : Send(fd) \/ Leave(fd))
Next == ServerStep \/ Outside
Spec == Init /\ [][Next]_vars

(* The server runs and time passes. *)
FairSpec == Spec /\ WF_vars(ServerStep) /\ WF_vars(PassSlot)

(* Properties *)

(* accept always finds a descriptor; each signal is at most once in the    *)
(* pipe.                                                                   *)
TypeOK ==
    /\ pc \in {"wait", "handle", "tick", "stopped", "undefined"}
    /\ batch \subseteq Fds \cup {listenfd, pipefd} /\ i \in 0..2
    /\ expire \in [Fds -> 0..Idle] /\ live \subseteq Fds /\ open \subseteq Fds
    /\ ready \subseteq Fds \cup {listenfd, pipefd}
    /\ backlog \in Nat /\ backlog + Cardinality(open) <= Cardinality(Fds)
    /\ data \in [Fds -> 0..MaxData] /\ eof \subseteq open
    /\ pipe \in Seq({"ALRM", "TERM"}) /\ IsInjective(pipe)
    /\ stop_server \in BOOLEAN /\ alarm \in BOOLEAN /\ ticked \in BOOLEAN

(* The list holds the timer of every open connection, no other, and is     *)
(* sorted, whatever links timers were left with when they were moved.      *)
TimerPerConnection == live = open /\ L!Sorted(list, open, expire)

(* A deleted timer is used only after a tick among the events of one       *)
(* epoll_wait: without one, no event outlives its connection.              *)
StaleOnlyAfterTick == pc = "undefined" => ticked

(* The alarm is set, or its signal on the way to the tick that sets it.    *)
AlarmAlive == alarm \/ Contains(pipe, "ALRM") \/ pc = "tick" \/ ~Runs

(* The chain of alarms breaks only where the loop reads the signals at the *)
(* index of the event: behind another event, or two at a time.             *)
AlarmKept == [][AlarmAlive /\ ~AlarmAlive' => DealSignals /\ (i > 0 \/ Len(pipe) > 1)]_vars

(* A connection whose time is over is closed, or gets data first, as long  *)
(* as the chain of alarms is unbroken.                                     *)
IdleIsClosed ==
    \A fd \in Fds : fd \in open /\ expire[fd] = 0
        ~> fd \notin open \/ expire[fd] = Idle \/ ~AlarmAlive \/ ~Runs
=============================================================================
