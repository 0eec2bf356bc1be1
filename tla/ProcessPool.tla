----------------------------- MODULE ProcessPool -----------------------------
(***************************************************************************)
(* mine/practice/processPool.h with the cgi_conn of concurrentCgiServer.cpp*)
(* as its user: a parent that watches the listening socket, children that  *)
(* accept when the parent sends them an int over their pipe, and signals   *)
(* that every process turns into bytes of its own pipe.  The model begins  *)
(* when all processes are forked and have their handlers.                  *)
(*                                                                         *)
(* Events are edge-triggered: an edge stays until epoll_wait reports it,   *)
(* and several become one.  A signal that interrupts epoll_wait ends the   *)
(* loop of its process, because the result -1 is compared with EAGAIN.     *)
(*                                                                         *)
(* A pipe is closed when nobody has the parent's end of it: the parent     *)
(* does, every child forked later inherits it, and so does every program   *)
(* that such a child starts.  They all inherit the listening socket too.   *)
(*                                                                         *)
(* A definition Mutant_D_... is the definition D that follows it with one  *)
(* fault put in; it is not part of the model.                              *)
(***************************************************************************)
EXTENDS Integers, FiniteSets, FiniteSetsExt

CONSTANTS
    m_process_number,
    Clients,
    MaxCgi              \* bound: running programs of one child

ASSUME NumberAssumption == m_process_number \in 1..16 /\ MaxCgi \in Nat
ASSUME ClientAssumption == IsFiniteSet(Clients) /\ {"listen", "sig", "pipe"} \cap Clients = {}

Children == 0..m_process_number - 1

VARIABLES
    \* The parent.
    pc, events, signals, m_pid, sub_process_counter, m_stop,
    termed,     \* history: SIGTERM was sent to the children
    interrupted,    \* history: a signal ended the parent's loop in its sleep
    \* The children.
    child, child_events, child_signals, child_stop,
    cgi,        \* cgi[k]: programs that child k has started and that still run,
                \* be it dead or not
    \* The kernel and the clients.
    listen_edge, pipe_edge, conn_edge,
    pipe,       \* pipe[k]: ints in the pipe to child k
    conn,       \* conn[c]: "away", "backlog", "closed", or "held" by a child
    sent,       \* sent[c]: "none", "line" (it has "r\n" in it), or "junk" (it has not)
    gone        \* gone[c]: the client has closed

NoChild == -1
parent == <<pc, events, signals, m_pid, sub_process_counter, m_stop, termed, interrupted>>
children == <<child, child_events, child_signals, child_stop, cgi>>
kernel == <<listen_edge, pipe_edge, conn_edge, pipe, conn, sent, gone>>
vars == <<parent, children, kernel>>

Init ==
    /\ pc = "wait" /\ events = {} /\ signals = {} /\ m_stop = FALSE
    /\ termed = FALSE /\ interrupted = FALSE
    /\ m_pid = [k \in Children |-> TRUE] /\ sub_process_counter = 0
    /\ child = [k \in Children |-> "wait"]
    /\ child_events = [k \in Children |-> {}] /\ child_signals = [k \in Children |-> {}]
    /\ child_stop = [k \in Children |-> FALSE] /\ cgi = [k \in Children |-> 0]
    /\ listen_edge = FALSE /\ pipe_edge = [k \in Children |-> FALSE]
    /\ conn_edge = [c \in Clients |-> FALSE] /\ pipe = [k \in Children |-> 0]
    /\ conn = [c \in Clients |-> [state |-> "away", child |-> NoChild]]
    /\ sent = [c \in Clients |-> "none"] /\ gone = [c \in Clients |-> FALSE]

Alive(k) == child[k] # "dead"
Held(k) == {c \in Clients : conn[c].child = k}
Backlog == {c \in Clients : conn[c].state = "backlog"}
In(state) == [state |-> state, child |-> NoChild]

(* Whether nobody has the parent's end of the pipe to child k, and whether *)
(* somebody has the listening socket.                                      *)
Closed(k) == pc = "ended" /\ \A j \in Children : j > k => ~Alive(j) /\ cgi[j] = 0
Listened == pc # "ended" \/ \E k \in Children : Alive(k) \/ cgi[k] > 0

(* The edges after a step that may close pipes and takes the edge of gone. *)
EofEdges(dead) == [k \in Children |-> k \notin dead /\ (pipe_edge[k] \/ (Closed(k)' /\ ~Closed(k)))]

(* What epoll_wait would report, to the parent and to child k. *)
Ready == (IF listen_edge THEN {"listen"} ELSE {}) \cup (IF signals # {} THEN {"sig"} ELSE {})
ChildReady(k) == (IF pipe_edge[k] THEN {"pipe"} ELSE {})
                 \cup (IF child_signals[k] # {} THEN {"sig"} ELSE {})
                 \cup {c \in Held(k) : conn_edge[c]}

(* sig_handler: a byte for the signal pipe.  A process that sleeps in      *)
(* epoll_wait leaves it with -1 and ends its loop.                         *)
Signal(s) ==
    \/ /\ pc = "wait" /\ Ready = {} /\ pc' = "ending" /\ interrupted' = TRUE
       /\ UNCHANGED signals
    \/ /\ pc \notin {"ending", "ended"} /\ signals' = signals \cup {s}
       /\ UNCHANGED <<pc, interrupted>>
    \/ pc \in {"ending", "ended"} /\ UNCHANGED <<pc, signals, interrupted>>

SignalChildren(K, s) ==
    \E I \in SUBSET {k \in K : child[k] = "wait" /\ ChildReady(k) = {}} :
        /\ child' = [k \in Children |-> IF k \in I THEN "leaving" ELSE child[k]]
        /\ child_signals' = [k \in Children |->
               IF k \in K \ I /\ Alive(k) THEN child_signals[k] \cup {s} ELSE child_signals[k]]

(* The parent *)

EpollWait ==
    /\ pc = "wait" /\ Ready # {}
    /\ events' = Ready /\ pc' = "handle"
    /\ listen_edge' = FALSE
    /\ UNCHANGED <<signals, m_pid, sub_process_counter, m_stop, termed, interrupted, children,
                   pipe_edge, conn_edge, pipe, conn, sent, gone>>

(* The search for a child goes round from the counter.  Without a child it *)
(* never ends, for allocate never equals m_process_number.                 *)
Allocate == LET at(i) == (sub_process_counter + i) % m_process_number
            IN at(Min({i \in Children : m_pid[at(i)]}))

Mutant_SendConn_Twice(k) == pipe' = [pipe EXCEPT ![k] = @ + 2] /\ pipe_edge' = [pipe_edge EXCEPT ![k] = TRUE]
SendConn(k) ==
    IF Alive(k)
    THEN pipe' = [pipe EXCEPT ![k] = @ + 1] /\ pipe_edge' = [pipe_edge EXCEPT ![k] = TRUE]
    ELSE UNCHANGED <<pipe, pipe_edge>>

NewConnection ==
    /\ pc = "handle" /\ "listen" \in events
    /\ events' = events \ {"listen"}
    /\ IF \E k \in Children : m_pid[k]
       THEN /\ SendConn(Allocate)
            /\ sub_process_counter' = (sub_process_counter + 1) % m_process_number
            /\ UNCHANGED pc
       ELSE pc' = "searching" /\ UNCHANGED <<pipe, pipe_edge, sub_process_counter>>
    /\ UNCHANGED <<signals, m_pid, m_stop, termed, interrupted, children, listen_edge, conn_edge, conn, sent, gone>>

(* waitpid collects every child that is dead; then SIGTERM goes to those   *)
(* that are left.                                                          *)
Mutant_Reaped_One == LET d == {k \in Children : m_pid[k] /\ ~Alive(k)}
                     IN IF d = {} THEN {} ELSE {Min(d)}
Reaped == {k \in Children : m_pid[k] /\ ~Alive(k)}

Mutant_AllGone_Any == \E k \in Children : ~m_pid'[k]
AllGone == \A k \in Children : ~m_pid'[k]

HandleSignals ==
    /\ pc = "handle" /\ "sig" \in events
    /\ events' = events \ {"sig"} /\ signals' = {}
    /\ IF "CHLD" \in signals
       THEN m_pid' = [k \in Children |-> m_pid[k] /\ k \notin Reaped] /\ m_stop' = AllGone
       ELSE UNCHANGED <<m_pid, m_stop>>
    /\ IF "TERM" \in signals
       THEN SignalChildren({k \in Children : m_pid'[k]}, "TERM") /\ termed' = TRUE
       ELSE UNCHANGED <<child, child_signals, termed>>
    /\ UNCHANGED <<pc, sub_process_counter, interrupted, child_events, child_stop, cgi, kernel>>

EndOfEvents ==
    /\ pc = "handle" /\ events = {}
    /\ pc' = IF m_stop THEN "ending" ELSE "wait"
    /\ UNCHANGED <<events, signals, m_pid, sub_process_counter, m_stop, termed, interrupted, children, kernel>>

(* The end of the parent closes its ends of the pipes.  That alone reaches *)
(* only a child after which no other was forked.                           *)
End ==
    /\ pc = "ending" /\ pc' = "ended"
    /\ UNCHANGED <<events, signals, m_pid, sub_process_counter, m_stop, termed, interrupted, children,
                   listen_edge, conn_edge, pipe, conn, sent, gone>>
    /\ pipe_edge' = EofEdges({k \in Children : ~Alive(k)})

(* The children *)

Child_EpollWait(k) ==
    /\ child[k] = "wait" /\ ChildReady(k) # {}
    /\ child' = [child EXCEPT ![k] = "handle"]
    /\ child_events' = [child_events EXCEPT ![k] = ChildReady(k)]
    /\ pipe_edge' = [pipe_edge EXCEPT ![k] = FALSE]
    /\ conn_edge' = [c \in Clients |-> conn_edge[c] /\ c \notin Held(k)]
    /\ UNCHANGED <<parent, child_signals, child_stop, cgi, listen_edge, pipe, conn, sent, gone>>

Handles(k, e) == /\ child[k] = "handle" /\ e \in child_events[k]
                 /\ child_events' = [child_events EXCEPT ![k] = @ \ {e}]

(* One int, one accept.  It may fail, and the client with it, because the  *)
(* length it is given is not initialised.  A pipe that was closed is       *)
(* closed.                                                                 *)
Child_Pipe(k) ==
    /\ Handles(k, "pipe")
    /\ pipe' = [pipe EXCEPT ![k] = IF @ = 0 THEN 0 ELSE @ - 1]
    /\ IF pipe[k] = 0 \/ Backlog = {}
       THEN UNCHANGED <<conn, conn_edge>>
       ELSE \E c \in Backlog :
                \/ /\ conn' = [conn EXCEPT ![c] = [state |-> "held", child |-> k]]
                   /\ conn_edge' = [conn_edge EXCEPT ![c] = sent[c] # "none" \/ gone[c]]
                \/ conn' = [conn EXCEPT ![c] = In("closed")] /\ UNCHANGED conn_edge
    /\ UNCHANGED <<parent, child, child_signals, child_stop, cgi, listen_edge, pipe_edge, sent, gone>>

Mutant_Child_Signals_NoStop(k) ==
    /\ Handles(k, "sig")
    /\ child_signals' = [child_signals EXCEPT ![k] = {}]
    /\ UNCHANGED <<parent, child, child_stop, cgi, kernel>>
Child_Signals(k) ==
    /\ Handles(k, "sig")
    /\ child_signals' = [child_signals EXCEPT ![k] = {}]
    /\ child_stop' = [child_stop EXCEPT ![k] = @ \/ "TERM" \in child_signals[k]]
    /\ UNCHANGED <<parent, child, cgi, kernel>>

(* cgi_conn::process: the connection is closed, and a program may be       *)
(* started.  With a line that is the one named before "r\n".  Without one, *)
(* recv is called again and its EAGAIN counts as -1 bytes, so that the     *)
(* loop ends with the last byte overwritten: what comes before it is the   *)
(* name.  After the end of the client's data the loop goes on reading from *)
(* the closed socket for ever.                                             *)
Process(k, c) ==
    /\ Handles(k, c)
    /\ IF sent[c] # "line" /\ gone[c]
       THEN child' = [child EXCEPT ![k] = "endless"] /\ UNCHANGED cgi
       ELSE /\ UNCHANGED child
            /\ \/ UNCHANGED cgi
               \/ cgi[k] < MaxCgi /\ cgi' = [cgi EXCEPT ![k] = @ + 1]
    /\ conn' = [conn EXCEPT ![c] = In("closed")]
    /\ UNCHANGED <<parent, child_signals, child_stop, listen_edge, pipe_edge, conn_edge, pipe, sent, gone>>

Child_EndOfEvents(k) ==
    /\ child[k] = "handle" /\ child_events[k] = {}
    /\ child' = [child EXCEPT ![k] = IF child_stop[k] THEN "leaving" ELSE "wait"]
    /\ UNCHANGED <<parent, child_events, child_signals, child_stop, cgi, kernel>>

(* Child k exits, or is killed: the kernel closes what it has, and its     *)
(* programs go on.                                                         *)
Dies(k) ==
    /\ child' = [child EXCEPT ![k] = "dead"]
    /\ conn' = [c \in Clients |-> IF c \in Held(k) THEN In("closed") ELSE conn[c]]
    /\ conn_edge' = [c \in Clients |-> conn_edge[c] /\ c \notin Held(k)]
    /\ pipe' = [pipe EXCEPT ![k] = 0]
    /\ child_events' = [child_events EXCEPT ![k] = {}]
    /\ child_signals' = [child_signals EXCEPT ![k] = {}]
    /\ Signal("CHLD")
    /\ UNCHANGED cgi
    /\ pipe_edge' = EofEdges({j \in Children : j = k \/ ~Alive(j)})
    /\ UNCHANGED <<events, m_pid, sub_process_counter, m_stop, termed, child_stop,
                   listen_edge, sent, gone>>

Exit(k) == child[k] = "leaving" /\ Dies(k)

(* The world outside *)

Abort(k) == Alive(k) /\ child[k] # "leaving" /\ Dies(k)

CgiEnds(k) ==
    /\ cgi[k] > 0 /\ cgi' = [cgi EXCEPT ![k] = @ - 1]
    /\ SignalChildren({k}, "CHLD")
    /\ UNCHANGED pc
    /\ pipe_edge' = EofEdges({j \in Children : ~Alive(j)})
    /\ UNCHANGED <<events, signals, m_pid, sub_process_counter, m_stop, termed, interrupted,
                   child_events, child_stop, listen_edge, conn_edge, pipe, conn, sent, gone>>

Terminate == /\ ~termed /\ Signal("TERM")
             /\ UNCHANGED <<events, m_pid, sub_process_counter, m_stop, termed, children, kernel>>

Connect(c) ==
    /\ conn[c].state = "away" /\ Listened
    /\ conn' = [conn EXCEPT ![c] = In("backlog")]
    /\ listen_edge' = (pc # "ended")
    /\ UNCHANGED <<parent, children, pipe_edge, conn_edge, pipe, sent, gone>>

Send(c) ==
    /\ conn[c].state \in {"backlog", "held"} /\ sent[c] = "none" /\ ~gone[c]
    /\ \E m \in {"line", "junk"} : sent' = [sent EXCEPT ![c] = m]
    /\ conn_edge' = [conn_edge EXCEPT ![c] = conn[c].state = "held"]
    /\ UNCHANGED <<parent, children, listen_edge, pipe_edge, pipe, conn, gone>>

Leave(c) ==
    /\ conn[c].state \in {"backlog", "held"} /\ ~gone[c]
    /\ gone' = [gone EXCEPT ![c] = TRUE]
    /\ conn_edge' = [conn_edge EXCEPT ![c] = conn[c].state = "held"]
    /\ UNCHANGED <<parent, children, listen_edge, pipe_edge, pipe, conn, sent>>

ParentStep == EpollWait \/ NewConnection \/ HandleSignals \/ EndOfEvents \/ End
ChildStep(k) == \/ Child_EpollWait(k) \/ Child_Pipe(k) \/ Child_Signals(k)
                \/ (\E c \in Clients : Process(k, c)) \/ Child_EndOfEvents(k) \/ Exit(k)
Outside == \/ Terminate \/ (\E k \in Children : Abort(k) \/ CgiEnds(k))
           \/ \E c \in Clients : Connect(c) \/ Send(c) \/ Leave(c)
Next == ParentStep \/ (\E k \in Children : ChildStep(k)) \/ Outside
Spec == Init /\ [][Next]_vars

(* Every process runs. *)
FairSpec == Spec /\ WF_vars(ParentStep) /\ \A k \in Children : WF_vars(ChildStep(k))

(* Properties *)

TypeOK ==
    /\ pc \in {"wait", "handle", "searching", "ending", "ended"}
    /\ events \subseteq {"listen", "sig"} /\ signals \subseteq {"CHLD", "TERM"}
    /\ m_pid \in [Children -> BOOLEAN] /\ sub_process_counter \in Children
    /\ {m_stop, termed, interrupted, listen_edge} \subseteq BOOLEAN
    /\ child \in [Children -> {"wait", "handle", "endless", "leaving", "dead"}]
    /\ child_events \in [Children -> SUBSET (Clients \cup {"pipe", "sig"})]
    /\ child_signals \in [Children -> SUBSET {"CHLD", "TERM"}]
    /\ child_stop \in [Children -> BOOLEAN] /\ cgi \in [Children -> 0..MaxCgi]
    /\ pipe \in [Children -> Nat] /\ pipe_edge \in [Children -> BOOLEAN]
    /\ conn_edge \in [Clients -> BOOLEAN] /\ gone \in [Clients -> BOOLEAN]
    /\ sent \in [Clients -> {"none", "line", "junk"}]
    /\ conn \in [Clients -> [state : {"away", "backlog", "held", "closed"},
                              child : Children \cup {NoChild}]]

(* The parent gives up a child only when it is dead, and a death that it   *)
(* has yet to notice has left its byte in the pipe, though several         *)
(* SIGCHLDs become one.  So the parent stops for lack of children, or      *)
(* loses itself in the search for one, only when all of them are dead.     *)
(* The exception is an epoll_wait that a signal interrupted: it ends the   *)
(* parent whatever its children do.                                        *)
KnowsTheDead ==
    /\ \A k \in Children : IF m_pid[k] THEN Alive(k) \/ "CHLD" \in signals \/ interrupted
                          ELSE ~Alive(k)
    /\ m_stop \/ pc = "searching" \/ (pc \in {"ending", "ended"} /\ ~interrupted)
           => \A k \in Children : ~Alive(k)

(* The ints on their way to the children. *)
Ints == UNION {{k} \X (1..pipe[k]) : k \in Children}

(* Every int on its way to a child has a client of its own in the backlog, *)
(* whoever dies and however edges merge: no child calls accept for a       *)
(* client that is not there.                                               *)
IntsHaveClients == Cardinality(Ints) <= Cardinality(Backlog)

(* When the last child is dead the parent ends, or searches for ever.      *)
ParentFollows ==
    (\A k \in Children : ~Alive(k)) ~> pc \in {"ended", "searching"}

(* A SIGTERM that the parent passes on ends every child, one in the        *)
(* endless loop of cgi_conn excepted, also one that reads it as a byte.    *)
(* (One that interrupts the parent's sleep is not passed on.)              *)
TermEndsChildren == termed ~> \A k \in Children : child[k] \in {"dead", "endless"}
=============================================================================
