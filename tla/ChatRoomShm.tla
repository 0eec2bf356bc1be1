----------------------------- MODULE ChatRoomShm -----------------------------
(***************************************************************************)
(* mine/practice/chatRoomServerShm.cpp: a chat room with a process for     *)
(* every user.  The child of a user puts what its client says into its     *)
(* slot of the shared memory and sends the slot's index to the parent; the *)
(* parent sends the index on to the other children, and each of them sends *)
(* the slot to its client.                                                 *)
(*                                                                         *)
(* A client, its child and the child's pid are one name.  When a user that *)
(* is not the last in the array leaves, the last one is moved to its       *)
(* place, but sub_process and the moved child keep the old index.          *)
(*                                                                         *)
(* A definition Mutant_D_... is the definition D that follows it with one  *)
(* fault put in; it is not part of the model.                              *)
(***************************************************************************)
EXTENDS Integers, SequencesExt

CONSTANTS
    Pids,
    USER_LIMIT,
    listenfd, sigfd,    \* descriptors of the parent below those of the pipes
    NULL,
    MaxSays             \* bound: what the clients say

ASSUME PidAssumption == IsFiniteSet(Pids) /\ NULL \notin Pids
ASSUME NumberAssumption == USER_LIMIT \in Nat \ {0} /\ MaxSays \in Nat
ASSUME FdAssumption == listenfd \in Nat /\ sigfd \in Nat /\ listenfd # sigfd

VARIABLES
    \* The parent.
    pc, batch, i,       \* "wait", "handle", "reap", "stopped"; the events left; the index of the next
    users, user_count, sub_process, terminate, stop_server,
    pipes,              \* pipes[fd]: the child at the other end of open descriptor fd
    moved,              \* history: a user was moved, and what that broke is not mended yet
    \* The children.
    child,              \* "away", "backlog", "refused", "born", "wait", "recv", "leaving", "zombie", "reaped"
    idx,
    stop_child,         \* set by the handler of SIGTERM
    inherits,           \* inherits[p]: the children whose pipes p got from the parent in fork
    mem,                \* mem[k]: whose words are in slot k, NULL for none
    \* The kernel and the clients.
    ready, sigs,        \* edges for the parent; the bytes in its signal pipe
    conn_edge, pipe_edge,   \* edges for the children
    up, down,           \* up[p]: ints from p to the parent; down[p]: indices from the parent to p
    inbox, gone,        \* what the client said and is unread; whether it left
    says                \* what the clients said in all

parent == <<pc, batch, i, users, user_count, sub_process, terminate, stop_server, pipes, moved>>
children == <<child, idx, stop_child, inherits, mem>>
kernel == <<ready, sigs, conn_edge, pipe_edge, up, down, inbox, gone, says>>
vars == <<parent, children, kernel>>

Init ==
    /\ pc = "wait" /\ batch = {} /\ i = 0
    /\ users = [j \in 0..USER_LIMIT |-> [pid |-> NULL, pipefd |-> 0]]
    /\ user_count = 0 /\ sub_process = [p \in Pids |-> -1]
    /\ terminate = FALSE /\ stop_server = FALSE /\ moved = FALSE
    /\ pipes = [fd \in {} |-> NULL]
    /\ child = [p \in Pids |-> "away"] /\ idx = [p \in Pids |-> 0]
    /\ stop_child = [p \in Pids |-> FALSE] /\ inherits = [p \in Pids |-> {}]
    /\ mem = [k \in 0..USER_LIMIT - 1 |-> NULL]
    /\ ready = {} /\ sigs = <<>>
    /\ conn_edge = [p \in Pids |-> FALSE] /\ pipe_edge = [p \in Pids |-> FALSE]
    /\ up = [p \in Pids |-> 0] /\ down = [p \in Pids |-> <<>>]
    /\ inbox = [p \in Pids |-> 0] /\ says = 0
    /\ gone = [p \in Pids |-> FALSE]

Lives(p) == child[p] \in {"born", "wait", "recv", "leaving"}
Unreaped(p) == Lives(p) \/ child[p] = "zombie"
Open == DOMAIN pipes
Waiting == {p \in Pids : child[p] = "backlog"}

(* The parent *)

Something(e) == CASE e = listenfd -> Waiting # {}
                  [] e = sigfd    -> sigs # <<>>
                  [] OTHER        -> e \in Open /\ (up[pipes[e]] > 0 \/ ~Lives(pipes[e]))

EpollWait ==
    /\ pc = "wait"
    /\ LET reported == {e \in ready : Something(e)}
       IN reported # {} /\ batch' = reported
    /\ pc' = "handle" /\ i' = 0 /\ ready' = {}
    /\ UNCHANGED <<users, user_count, sub_process, terminate, stop_server, pipes, moved, children,
                   sigs, conn_edge, pipe_edge, up, down, inbox, gone, says>>

(* The index i is counted up to 2, more than there are bytes in sigs. *)
Handles(e) == /\ pc = "handle" /\ e \in batch
              /\ batch' = batch \ {e} /\ i' = (IF i < 2 THEN i + 1 ELSE i)

(* accept takes the lowest free descriptor and is closed after the fork;   *)
(* the parent's end of the pipe is the next one.                           *)
NewPipe == LET free == (sigfd + 1..sigfd + Cardinality(Open) + 2) \ Open
           IN Min(free \ {Min(free)})

Mutant_AddUser_CountsFirst(p) ==
    /\ users' = [users EXCEPT ![user_count] = [pid |-> p, pipefd |-> NewPipe]]
    /\ idx' = [idx EXCEPT ![p] = user_count]
    /\ sub_process' = [sub_process EXCEPT ![p] = user_count + 1]
    /\ user_count' = user_count + 1

AddUser(p) ==
    /\ users' = [users EXCEPT ![user_count] = [pid |-> p, pipefd |-> NewPipe]]
    /\ idx' = [idx EXCEPT ![p] = user_count]
    /\ sub_process' = [sub_process EXCEPT ![p] = user_count]
    /\ user_count' = user_count + 1

(* The child inherits the parent's ends of the pipes of all the others.    *)
Accept(p) ==
    /\ Handles(listenfd) /\ child[p] = "backlog" /\ user_count < USER_LIMIT
    /\ AddUser(p)
    /\ child' = [child EXCEPT ![p] = "born"]
    /\ inherits' = [inherits EXCEPT ![p] = Range(pipes)]
    /\ pipes' = [fd \in Open \cup {NewPipe} |-> IF fd = NewPipe THEN p ELSE pipes[fd]]
    /\ UNCHANGED <<pc, terminate, stop_server, moved, stop_child, mem, kernel>>

Refuse(p) ==
    /\ Handles(listenfd) /\ child[p] = "backlog" /\ user_count >= USER_LIMIT
    /\ child' = [child EXCEPT ![p] = "refused"]
    /\ UNCHANGED <<pc, users, user_count, sub_process, terminate, stop_server, pipes, moved,
                   idx, stop_child, inherits, mem, kernel>>

Byte(s) == IF Contains(sigs, s) THEN sigs ELSE Append(sigs, s)

(* The pipes whose other end somebody has: the parent, or a child that     *)
(* inherited it.  A child reads the end of its pipe when nobody has.       *)
Held(ps, ch) == Range(ps) \cup UNION {inherits[r] : r \in {q \in Pids : Lives(q) /\ ch[q] # "zombie"}}
Eof(q) == q \notin Held(pipes, child)
EofEdges(ps, ch) ==
    pipe_edge' = [q \in Pids |-> pipe_edge[q] \/ q \in Held(pipes, child) \ Held(ps, ch)]

(* SIGTERM reaches a child.  A new one still has the parent's handler, and *)
(* perhaps the parent's pipe; one that has tested stop_child and is about  *)
(* to sleep in epoll_wait sleeps although it is to stop.                   *)
Kill(K) ==
    \E interrupted \in SUBSET {p \in K : child[p] = "wait"} :
        /\ child' = [p \in Pids |-> IF p \in interrupted THEN "leaving" ELSE child[p]]
        /\ stop_child' = [p \in Pids |->
               stop_child[p] \/ (p \in K /\ child[p] \in {"wait", "recv"})]
        /\ IF \E p \in K : child[p] = "born"
           THEN \E b \in {<<>>, <<"TERM">>} :
                    sigs' = b /\ ready' = IF b = <<>> THEN ready ELSE ready \cup {sigfd}
           ELSE sigs' = <<>> /\ UNCHANGED ready

(* All the bytes are read, but for each of them the loop looks at          *)
(* signals[i], i being the index of the event.                             *)
DealSignals ==
    /\ Handles(sigfd)
    /\ \E sig \in IF i < Len(sigs) THEN {sigs[i + 1]} ELSE {"CHLD", "TERM", "none"} :
           /\ pc' = IF sig = "CHLD" THEN "reap" ELSE pc
           /\ stop_server' = (stop_server \/ (sig = "TERM" /\ user_count = 0))
           /\ terminate' = (terminate \/ (sig = "TERM" /\ user_count > 0))
           /\ Kill(IF sig = "TERM" THEN {users[j].pid : j \in 0..user_count - 1} ELSE {})
    /\ UNCHANGED <<users, user_count, sub_process, pipes, moved, idx, inherits, mem,
                   conn_edge, pipe_edge, up, down, inbox, gone, says>>

(* Whether the table is in disorder once the user at del_user, with        *)
(* descriptor fd, is taken out.  An empty table is in order when no pipe   *)
(* that should have been closed is left.                                   *)
Disordered(del_user, fd) ==
    IF user_count > 1 THEN moved \/ del_user # user_count - 1
                      ELSE Open \ {fd} # {}

(* The user at place del_user is gone: its pipe is closed, and the last    *)
(* user goes to its place.                                                 *)
TakeOut(del_user) ==
    LET fd == users[del_user].pipefd IN
    /\ users' = [users EXCEPT ![del_user] = users[user_count - 1]]
    /\ user_count' = user_count - 1
    /\ pipes' = Restrict(pipes, Open \ {fd})
    /\ ready' = ready \ {fd}
    /\ moved' = Disordered(del_user, fd)
    /\ EofEdges(pipes', child)

Mutant_Reap_SkipsFirst(p) ==
    /\ pc = "reap" /\ child[p] = "zombie"
    /\ child' = [child EXCEPT ![p] = "reaped"]
    /\ sub_process' = [sub_process EXCEPT ![p] = -1]
    /\ IF sub_process[p] <= 0 \/ sub_process[p] > USER_LIMIT
       THEN UNCHANGED <<users, user_count, pipes, ready, moved, pipe_edge>>
       ELSE TakeOut(sub_process[p])
    /\ UNCHANGED <<pc, batch, i, terminate, stop_server, idx, stop_child, inherits, mem,
                   sigs, conn_edge, up, down, inbox, gone, says>>

(* waitpid returns p.  A process that is not in the table is passed over,  *)
(* and nobody is counted out for it.                                       *)
Reap(p) ==
    /\ pc = "reap" /\ child[p] = "zombie"
    /\ child' = [child EXCEPT ![p] = "reaped"]
    /\ sub_process' = [sub_process EXCEPT ![p] = -1]
    /\ IF sub_process[p] < 0 \/ sub_process[p] > USER_LIMIT
       THEN UNCHANGED <<users, user_count, pipes, ready, moved, pipe_edge>>
       ELSE TakeOut(sub_process[p])
    /\ UNCHANGED <<pc, batch, i, terminate, stop_server, idx, stop_child, inherits, mem,
                   sigs, conn_edge, up, down, inbox, gone, says>>

Reap_End ==
    /\ pc = "reap" /\ \A p \in Pids : child[p] # "zombie"
    /\ pc' = "handle"
    /\ stop_server' = (stop_server \/ (terminate /\ user_count = 0))
    /\ UNCHANGED <<batch, i, users, user_count, sub_process, terminate, pipes, moved, children, kernel>>

Mutant_Receivers_All(fd) ==
    [q \in Pids |-> {j \in 0..user_count - 1 : /\ users[j].pipefd \in Open
                                               /\ pipes[users[j].pipefd] = q}]

(* The users that an int from descriptor fd is sent on to, by child.       *)
Receivers(fd) ==
    [q \in Pids |-> {j \in 0..user_count - 1 : /\ users[j].pipefd \in Open \ {fd}
                                               /\ pipes[users[j].pipefd] = q}]

(* One int for one edge.  After a wrong close there may be none.           *)
Broadcast(fd) ==
    /\ Handles(fd) /\ fd \notin {listenfd, sigfd}
    /\ IF fd \in Open /\ up[pipes[fd]] > 0
       THEN LET c == pipes[fd]
                n(q) == IF Lives(q) THEN Cardinality(Receivers(fd)[q]) ELSE 0
            IN /\ up' = [up EXCEPT ![c] = @ - 1]
               /\ down' = [q \in Pids |-> down[q] \o [k \in 1..n(q) |-> idx[c]]]
               /\ pipe_edge' = [q \in Pids |-> pipe_edge[q] \/ n(q) > 0]
       ELSE UNCHANGED <<up, down, pipe_edge>>
    /\ UNCHANGED <<pc, users, user_count, sub_process, terminate, stop_server, pipes, moved, children,
                   ready, sigs, conn_edge, inbox, gone, says>>

(* del_resource, and the end of the process, which closes its pipes.       *)
EndOfEvents ==
    /\ pc = "handle" /\ batch = {}
    /\ pc' = IF stop_server THEN "stopped" ELSE "wait"
    /\ pipes' = IF stop_server THEN [fd \in {} |-> NULL] ELSE pipes
    /\ i' = 0
    /\ UNCHANGED <<batch, users, user_count, sub_process, terminate, stop_server, moved>>
    /\ EofEdges(pipes', child)
    /\ UNCHANGED children
    /\ UNCHANGED <<ready, sigs, conn_edge, up, down, inbox, gone, says>>

(* The children.  Events of one epoll_wait are handled one by one; that a  *)
(* child to be stopped still handles the rest of them is left out.         *)

Child_Start(p) ==
    /\ child[p] = "born" /\ child' = [child EXCEPT ![p] = "wait"]
    /\ UNCHANGED <<parent, idx, stop_child, inherits, mem, kernel>>

(* The end of the child's loop, which goes on unless it is to stop.        *)
Loop(p, stop) == child' = [child EXCEPT ![p] = IF stop THEN "leaving" ELSE "wait"]

Child_Exit(p) ==
    /\ child[p] = "leaving"
    /\ child' = [child EXCEPT ![p] = "zombie"]
    /\ EofEdges(pipes, child')
    /\ IF pc = "stopped" THEN UNCHANGED <<sigs, ready>>
       ELSE sigs' = Byte("CHLD") /\ ready' = ready \cup {sigfd} \cup {fd \in Open : pipes[fd] = p}
    /\ down' = [down EXCEPT ![p] = <<>>]
    /\ UNCHANGED <<parent, idx, stop_child, inherits, mem, conn_edge, up, inbox, gone, says>>

(* memset comes before recv: in between the slot is empty.                 *)
Child_Memset(p) ==
    /\ child[p] = "wait" /\ conn_edge[p] /\ (inbox[p] > 0 \/ gone[p])
    /\ child' = [child EXCEPT ![p] = "recv"]
    /\ conn_edge' = [conn_edge EXCEPT ![p] = FALSE]
    /\ mem' = [mem EXCEPT ![idx[p]] = NULL]
    /\ UNCHANGED <<parent, idx, stop_child, inherits, ready, sigs, pipe_edge, up, down, inbox, gone, says>>

Child_Recv(p) ==
    /\ child[p] = "recv" /\ inbox[p] > 0
    /\ Loop(p, stop_child[p])
    /\ inbox' = [inbox EXCEPT ![p] = @ - 1]
    /\ mem' = [mem EXCEPT ![idx[p]] = p]
    /\ up' = [up EXCEPT ![p] = @ + 1]
    /\ ready' = ready \cup {fd \in Open : pipes[fd] = p}
    /\ UNCHANGED <<parent, idx, stop_child, inherits, sigs, conn_edge, pipe_edge, down, gone, says>>

Child_RecvEnd(p) ==
    /\ child[p] = "recv" /\ inbox[p] = 0
    /\ Loop(p, TRUE)
    /\ UNCHANGED <<parent, idx, stop_child, inherits, mem, kernel>>

(* The slot as it is now goes to the client. *)
Child_Pipe(p) ==
    /\ child[p] = "wait" /\ pipe_edge[p] /\ (down[p] # <<>> \/ Eof(p))
    /\ Loop(p, stop_child[p] \/ down[p] = <<>>)
    /\ pipe_edge' = [pipe_edge EXCEPT ![p] = FALSE]
    /\ down' = [down EXCEPT ![p] = IF @ = <<>> THEN <<>> ELSE Tail(@)]
    /\ UNCHANGED <<parent, idx, stop_child, inherits, mem, ready, sigs, conn_edge, up, inbox, gone, says>>

(* The world outside *)

Connect(p) ==
    /\ child[p] = "away" /\ pc # "stopped"
    /\ child' = [child EXCEPT ![p] = "backlog"]
    /\ ready' = ready \cup {listenfd}
    /\ UNCHANGED <<parent, idx, stop_child, inherits, mem, sigs, conn_edge, pipe_edge, up, down, inbox, gone, says>>

Say(p) ==
    /\ Lives(p) /\ ~gone[p] /\ says < MaxSays
    /\ inbox' = [inbox EXCEPT ![p] = @ + 1] /\ says' = says + 1
    /\ conn_edge' = [conn_edge EXCEPT ![p] = TRUE]
    /\ UNCHANGED <<parent, children, ready, sigs, pipe_edge, up, down, gone>>

Leave(p) ==
    /\ Lives(p) /\ ~gone[p]
    /\ gone' = [gone EXCEPT ![p] = TRUE]
    /\ conn_edge' = [conn_edge EXCEPT ![p] = TRUE]
    /\ UNCHANGED <<parent, children, ready, sigs, pipe_edge, up, down, inbox, says>>

Terminate ==
    /\ pc # "stopped" /\ ~terminate /\ sigs' = Byte("TERM") /\ ready' = ready \cup {sigfd}
    /\ UNCHANGED <<parent, children, conn_edge, pipe_edge, up, down, inbox, gone, says>>

ParentStep == \/ EpollWait \/ DealSignals \/ Reap_End \/ EndOfEvents
              \/ (\E p \in Pids : Accept(p) \/ Refuse(p) \/ Reap(p))
              \/ (\E fd \in batch : Broadcast(fd))
ChildStep(p) == \/ Child_Start(p) \/ Child_Exit(p)
                \/ Child_Memset(p) \/ Child_Recv(p) \/ Child_RecvEnd(p) \/ Child_Pipe(p)
Outside == Terminate \/ \E p \in Pids : Connect(p) \/ Say(p) \/ Leave(p)
Next == ParentStep \/ (\E p \in Pids : ChildStep(p)) \/ Outside
Spec == Init /\ [][Next]_vars

(* Properties *)

Users == {p \in Pids : Unreaped(p)}

(* user_count is the number of children that are not reaped, although the  *)
(* table of users may be wrong and a process that sub_process does not     *)
(* know is never counted out: the limit is exact, and the server stops for *)
(* the reason that nobody is left only when nobody is.                     *)
UserCountExact == user_count = Cardinality(Users)

(* As long as only the last user of the array leaves, the table of users,  *)
(* the table of processes and the slots agree: each child has a place, a   *)
(* slot and a pipe of its own, and no other pipe is open.  A room that was *)
(* empty once, with all pipes closed, is in order again.                   *)
TableRight ==
    ~moved /\ pc # "stopped" =>
        /\ {users[j].pid : j \in 0..user_count - 1} = Users
        /\ Open = {users[j].pipefd : j \in 0..user_count - 1}
        /\ \A j \in 0..user_count - 1 :
               LET u == users[j] IN
               /\ sub_process[u.pid] = j /\ idx[u.pid] = j
               /\ u.pipefd \in Open /\ pipes[u.pipefd] = u.pid

(* As long as the table is right, nobody hears his own words.              *)
NoEcho ==
    [][\A p \in Pids : Child_Pipe(p) /\ down[p] # <<>> => moved \/ mem[Head(down[p])] # p]_vars
=============================================================================
