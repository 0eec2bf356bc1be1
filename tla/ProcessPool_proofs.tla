------------------------- MODULE ProcessPool_proofs -------------------------
(***************************************************************************)
(* Proofs about ProcessPool for any number of children and any clients.    *)
(***************************************************************************)
EXTENDS ProcessPool, FiniteSetTheorems, TLAPS

USE DEF Children, Alive, In, NoChild

(* At the start every child lives and the parent has all of them. *)
LEMMA InitType == Init => TypeOK /\ KnowsTheDead
<1> SUFFICES ASSUME Init PROVE TypeOK /\ KnowsTheDead
  OBVIOUS
<1> USE NumberAssumption DEF Init
<1>1. conn \in [Clients -> [state : {"away", "backlog", "held", "closed"},
                               child : Children \cup {NoChild}]]
  OBVIOUS
<1>2. /\ {m_stop, termed, interrupted, listen_edge} \subseteq BOOLEAN
      /\ m_pid \in [Children -> BOOLEAN] /\ child_stop \in [Children -> BOOLEAN]
      /\ pipe_edge \in [Children -> BOOLEAN]
      /\ conn_edge \in [Clients -> BOOLEAN] /\ gone \in [Clients -> BOOLEAN]
  OBVIOUS
<1>3. /\ child_events \in [Children -> SUBSET (Clients \cup {"pipe", "sig"})]
      /\ child_signals \in [Children -> SUBSET {"CHLD", "TERM"}]
      /\ cgi \in [Children -> 0..MaxCgi] /\ pipe \in [Children -> Nat]
      /\ sub_process_counter \in Children
  OBVIOUS
<1>4. TypeOK
  BY <1>1, <1>2, <1>3 DEF TypeOK
<1>5. KnowsTheDead
  BY DEF KnowsTheDead
<1> QED
  BY <1>4, <1>5

(* A signal changes the state of the parent and its pending signals alone. *)
LEMMA SignalType ==
  ASSUME TypeOK, NEW s \in {"CHLD", "TERM"}, Signal(s)
  PROVE  /\ pc' \in {"wait", "handle", "searching", "ending", "ended"}
         /\ pc' = "searching" => pc = "searching"
         /\ pc' \in {"ending", "ended"} => pc \in {"ending", "ended"} \/ interrupted'
         /\ signals' \subseteq {"CHLD", "TERM"} /\ signals \subseteq signals'
         /\ interrupted' \in BOOLEAN /\ (interrupted => interrupted')
         /\ s \in signals' \/ interrupted' \/ pc \in {"ending", "ended"}
<1>t. /\ pc \in {"wait", "handle", "searching", "ending", "ended"}
      /\ signals \subseteq {"CHLD", "TERM"} /\ interrupted \in BOOLEAN
  BY DEF TypeOK
<1>1. CASE pc = "wait" /\ pc' = "ending" /\ interrupted' = TRUE /\ signals' = signals
  BY <1>t, <1>1
<1>2. CASE /\ pc \notin {"ending", "ended"} /\ signals' = signals \cup {s}
           /\ pc' = pc /\ interrupted' = interrupted
  BY <1>t, <1>2
<1>3. CASE /\ pc \in {"ending", "ended"} /\ pc' = pc /\ signals' = signals
           /\ interrupted' = interrupted
  BY <1>t, <1>3
<1> QED
  BY <1>1, <1>2, <1>3 DEF Signal

(* The edges that the end of a pipe makes are edges. *)
LEMMA EofEdgesType == \A K : EofEdges(K) \in [Children -> BOOLEAN]
  BY DEF EofEdges

(* Signals reach living children only, and kill none by themselves.        *)
LEMMA SignalChildrenType ==
  ASSUME TypeOK, NEW s \in {"CHLD", "TERM"}, NEW K \in SUBSET Children, SignalChildren(K, s)
  PROVE  /\ child' \in [Children -> {"wait", "handle", "endless", "leaving", "dead"}]
         /\ child_signals' \in [Children -> SUBSET {"CHLD", "TERM"}]
         /\ \A k \in Children : child[k] = "dead" <=> child'[k] = "dead"
  BY DEF TypeOK, SignalChildren

(* Handing a client on keeps the types. *)
LEMMA SendConnType ==
  ASSUME TypeOK, NEW k, SendConn(k)
  PROVE  pipe' \in [Children -> Nat] /\ pipe_edge' \in [Children -> BOOLEAN]
<1>1. CASE Alive(k)
  <2>1. pipe' = [pipe EXCEPT ![k] = pipe[k] + 1] /\ pipe_edge' = [pipe_edge EXCEPT ![k] = TRUE]
    BY <1>1 DEF SendConn
  <2>2. pipe' \in [Children -> Nat]
    <3>1. CASE k \in Children
      BY <2>1, <3>1 DEF TypeOK
    <3>2. CASE k \notin Children
      BY <2>1, <3>2 DEF TypeOK
    <3> QED
      BY <3>1, <3>2
  <2>3. pipe_edge' \in [Children -> BOOLEAN]
    BY <2>1 DEF TypeOK
  <2> QED
    BY <2>2, <2>3
<1>2. CASE ~Alive(k)
  BY <1>2 DEF SendConn, TypeOK
<1> QED
  BY <1>1, <1>2

(* Every step of the parent, but for the handling of signals, leaves the   *)
(* children and its table of them alone.                                   *)
LEMMA ParentKeeps ==
  ASSUME TypeOK, KnowsTheDead, EpollWait \/ NewConnection \/ EndOfEvents \/ End
  PROVE  TypeOK' /\ KnowsTheDead'
<1> USE NumberAssumption DEF parent, children, kernel
<1>1. CASE EpollWait
  <2>1. TypeOK'
    BY <1>1 DEF EpollWait, Ready, TypeOK
  <2> QED
    BY <1>1, <2>1 DEF EpollWait, KnowsTheDead
<1>2. CASE NewConnection
  <2>1. pipe' \in [Children -> Nat] /\ pipe_edge' \in [Children -> BOOLEAN]
    <3>1. CASE \E k \in Children : m_pid[k]
      BY <1>2, <3>1, SendConnType DEF NewConnection
    <3>2. CASE ~ \E k \in Children : m_pid[k]
      BY <1>2, <3>2 DEF NewConnection, TypeOK
    <3> QED
      BY <3>1, <3>2
  <2>2. sub_process_counter' \in Children
    BY <1>2 DEF NewConnection, TypeOK
  <2>3. pc' \in {"handle", "searching"}
    BY <1>2 DEF NewConnection
  <2>4. TypeOK'
    BY <1>2, <2>1, <2>2, <2>3 DEF NewConnection, TypeOK
  <2>5. pc' = "searching" => \A k \in Children : ~m_pid[k]
    BY <1>2 DEF NewConnection
  <2> QED
    BY <1>2, <2>4, <2>5 DEF NewConnection, KnowsTheDead
<1>3. CASE EndOfEvents
  <2>1. TypeOK'
    BY <1>3 DEF EndOfEvents, TypeOK
  <2> QED
    BY <1>3, <2>1 DEF EndOfEvents, KnowsTheDead
<1>4. CASE End
  <2>0. pipe_edge' \in [Children -> BOOLEAN]
    BY <1>4, EofEdgesType DEF End
  <2>1. TypeOK'
    BY <1>4, <2>0 DEF End, TypeOK
  <2> QED
    BY <1>4, <2>1 DEF End, KnowsTheDead
<1> QED
  BY <1>1, <1>2, <1>3, <1>4

(* waitpid takes only the dead from the table.                             *)
LEMMA HandleSignalsKeeps ==
  ASSUME TypeOK, KnowsTheDead, HandleSignals
  PROVE  TypeOK' /\ KnowsTheDead'
<1> USE DEF parent, children, kernel
<1>1. m_pid' \in [Children -> BOOLEAN] /\ m_stop' \in BOOLEAN
  BY DEF HandleSignals, TypeOK, AllGone
<1>2. /\ child' \in [Children -> {"wait", "handle", "endless", "leaving", "dead"}]
      /\ child_signals' \in [Children -> SUBSET {"CHLD", "TERM"}]
      /\ \A k \in Children : child[k] = "dead" <=> child'[k] = "dead"
      /\ termed' \in BOOLEAN
  <2>1. CASE "TERM" \in signals
    <3>1. SignalChildren({k \in Children : m_pid'[k]}, "TERM") /\ termed' = TRUE
      BY <2>1 DEF HandleSignals
    <3> QED
      BY <3>1, SignalChildrenType
  <2>2. CASE "TERM" \notin signals
    BY <2>2 DEF HandleSignals, TypeOK
  <2> QED
    BY <2>1, <2>2
<1>3. TypeOK'
  BY <1>1, <1>2 DEF HandleSignals, TypeOK
<1>4. \A k \in Children : ~m_pid'[k] => child[k] = "dead"
  BY DEF HandleSignals, Reaped, KnowsTheDead, TypeOK
<1>5. m_stop' \/ pc' = "searching" => \A k \in Children : child[k] = "dead"
  BY <1>4 DEF HandleSignals, AllGone, KnowsTheDead
<1>6. pc' = "handle" /\ interrupted' = interrupted
  BY DEF HandleSignals
<1>7. \A k \in Children : m_pid'[k] => Alive(k) \/ interrupted
  <2>1. CASE "CHLD" \in signals
    BY <2>1 DEF HandleSignals, Reaped, TypeOK
  <2>2. CASE "CHLD" \notin signals
    BY <2>2 DEF HandleSignals, KnowsTheDead
  <2> QED
    BY <2>1, <2>2
<1> QED
  BY <1>2, <1>3, <1>4, <1>5, <1>6, <1>7 DEF KnowsTheDead

(* The end of a child leaves it dead, and the others as they are.          *)
LEMMA DiesKeeps ==
  ASSUME TypeOK, KnowsTheDead, NEW k \in Children, Alive(k), Dies(k)
  PROVE  TypeOK' /\ KnowsTheDead'
<1>1. /\ pc' \in {"wait", "handle", "searching", "ending", "ended"}
      /\ pc' = "searching" => pc = "searching"
      /\ pc' \in {"ending", "ended"} => pc \in {"ending", "ended"} \/ interrupted'
      /\ signals' \subseteq {"CHLD", "TERM"} /\ signals \subseteq signals'
      /\ interrupted' \in BOOLEAN /\ (interrupted => interrupted')
      /\ "CHLD" \in signals' \/ interrupted' \/ pc \in {"ending", "ended"}
  BY SignalType DEF Dies
<1>2. conn' \in [Clients -> [state : {"away", "backlog", "held", "closed"},
                             child : Children \cup {NoChild}]]
  BY DEF Dies, TypeOK
<1>3. cgi' \in [Children -> 0..MaxCgi] /\ pipe' \in [Children -> Nat]
  BY NumberAssumption DEF Dies, TypeOK
<1>4. pipe_edge' \in [Children -> BOOLEAN]
  BY EofEdgesType DEF Dies
<1>5. TypeOK'
  BY <1>1, <1>2, <1>3, <1>4 DEF Dies, TypeOK
<1>6. /\ child'[k] = "dead" /\ \A j \in Children : j # k => child'[j] = child[j]
      /\ m_pid' = m_pid /\ m_stop' = m_stop /\ Alive(k)
  BY DEF Dies, TypeOK
<1>7. \A j \in Children : IF m_pid'[j] THEN child'[j] # "dead" \/ "CHLD" \in signals' \/ interrupted'
                           ELSE child'[j] = "dead"
  <2>1. pc \in {"ending", "ended"} => interrupted
    BY <1>6 DEF KnowsTheDead
  <2> QED
    BY <1>1, <1>6, <2>1 DEF KnowsTheDead
<1>8. (m_stop' \/ pc' = "searching" \/ (pc' \in {"ending", "ended"} /\ ~interrupted'))
        => \A j \in Children : child'[j] = "dead"
  BY <1>1, <1>6 DEF KnowsTheDead
<1> QED
  BY <1>5, <1>7, <1>8 DEF KnowsTheDead

(* A step of a living child. *)
LEMMA ChildKeeps ==
  ASSUME TypeOK, KnowsTheDead, NEW k \in Children, ChildStep(k)
  PROVE  TypeOK' /\ KnowsTheDead'
<1> USE DEF parent, children, kernel
<1>1. CASE Child_EpollWait(k)
  <2>1. ChildReady(k) \subseteq Clients \cup {"pipe", "sig"}
    BY DEF ChildReady, Held
  <2>2. TypeOK'
    BY <1>1, <2>1 DEF Child_EpollWait, TypeOK
  <2> QED
    BY <1>1, <2>2 DEF Child_EpollWait, KnowsTheDead, TypeOK
<1>2. CASE Child_Pipe(k)
  <2>1. child_events' \in [Children -> SUBSET (Clients \cup {"pipe", "sig"})]
    BY <1>2 DEF Child_Pipe, Handles, TypeOK
  <2>2. pipe' \in [Children -> Nat]
    BY <1>2 DEF Child_Pipe, TypeOK
  <2>3. /\ conn' \in [Clients -> [state : {"away", "backlog", "held", "closed"},
                                  child : Children \cup {NoChild}]]
        /\ conn_edge' \in [Clients -> BOOLEAN]
    <3>1. CASE UNCHANGED <<conn, conn_edge>>
      BY <3>1 DEF TypeOK
    <3>2. ASSUME NEW c \in Clients,
                 conn' = [conn EXCEPT ![c] = [state |-> "held", child |-> k]],
                 conn_edge' = [conn_edge EXCEPT ![c] = sent[c] # "none" \/ gone[c]]
          PROVE  /\ conn' \in [Clients -> [state : {"away", "backlog", "held", "closed"},
                                           child : Children \cup {NoChild}]]
                 /\ conn_edge' \in [Clients -> BOOLEAN]
      <4>1. [state |-> "held", child |-> k]
                \in [state : {"away", "backlog", "held", "closed"}, child : Children \cup {NoChild}]
        OBVIOUS
      <4> QED
        BY <3>2, <4>1 DEF TypeOK
    <3>3. ASSUME NEW c \in Clients, conn' = [conn EXCEPT ![c] = In("closed")], UNCHANGED conn_edge
          PROVE  /\ conn' \in [Clients -> [state : {"away", "backlog", "held", "closed"},
                                           child : Children \cup {NoChild}]]
                 /\ conn_edge' \in [Clients -> BOOLEAN]
      <4>1. In("closed")
                \in [state : {"away", "backlog", "held", "closed"}, child : Children \cup {NoChild}]
        OBVIOUS
      <4> QED
        BY <3>3, <4>1 DEF TypeOK
    <3>4. \/ UNCHANGED <<conn, conn_edge>>
          \/ \E c \in Clients :
             \/ /\ conn' = [conn EXCEPT ![c] = [state |-> "held", child |-> k]]
                /\ conn_edge' = [conn_edge EXCEPT ![c] = sent[c] # "none" \/ gone[c]]
             \/ conn' = [conn EXCEPT ![c] = In("closed")] /\ UNCHANGED conn_edge
      BY <1>2 DEF Child_Pipe, Backlog
    <3> QED
      BY <3>1, <3>2, <3>3, <3>4
  <2>4. TypeOK'
    BY <1>2, <2>1, <2>2, <2>3 DEF Child_Pipe, TypeOK
  <2> QED
    BY <1>2, <2>4 DEF Child_Pipe, KnowsTheDead
<1>3. CASE Child_Signals(k)
  <2>1. TypeOK'
    BY <1>3 DEF Child_Signals, Handles, TypeOK
  <2> QED
    BY <1>3, <2>1 DEF Child_Signals, KnowsTheDead
<1>4. ASSUME NEW c \in Clients, Process(k, c) PROVE TypeOK' /\ KnowsTheDead'
  <2>1. /\ child' \in [Children -> {"wait", "handle", "endless", "leaving", "dead"}]
        /\ \A j \in Children : child[j] = "dead" <=> child'[j] = "dead"
    BY <1>4 DEF Process, Handles, TypeOK
  <2>2. cgi' \in [Children -> 0..MaxCgi]
    <3>1. CASE UNCHANGED cgi
      BY <3>1 DEF TypeOK
    <3>2. CASE cgi[k] < MaxCgi /\ cgi' = [cgi EXCEPT ![k] = @ + 1]
      BY <3>2, NumberAssumption DEF TypeOK
    <3> QED
      BY <1>4, <3>1, <3>2 DEF Process
  <2>3. child_events' \in [Children -> SUBSET (Clients \cup {"pipe", "sig"})]
    BY <1>4 DEF Process, Handles, TypeOK
  <2>4. conn' \in [Clients -> [state : {"away", "backlog", "held", "closed"},
                               child : Children \cup {NoChild}]]
    BY <1>4 DEF Process, TypeOK
  <2>5. TypeOK'
    BY <1>4, <2>1, <2>2, <2>3, <2>4 DEF Process, TypeOK
  <2> QED
    BY <1>4, <2>1, <2>5 DEF Process, KnowsTheDead
<1>5. CASE Child_EndOfEvents(k)
  <2>1. TypeOK'
    BY <1>5 DEF Child_EndOfEvents, TypeOK
  <2> QED
    BY <1>5, <2>1 DEF Child_EndOfEvents, KnowsTheDead, TypeOK
<1>6. CASE Exit(k)
  BY <1>6, DiesKeeps DEF Exit
<1> QED
  BY <1>1, <1>2, <1>3, <1>4, <1>5, <1>6 DEF ChildStep

(* What signals, programs and clients do. *)
LEMMA OutsideKeeps ==
  ASSUME TypeOK, KnowsTheDead, Outside
  PROVE  TypeOK' /\ KnowsTheDead'
<1> USE DEF parent, children, kernel
<1>1. CASE Terminate
  <2>1. /\ pc' \in {"wait", "handle", "searching", "ending", "ended"}
        /\ pc' = "searching" => pc = "searching"
        /\ pc' \in {"ending", "ended"} => pc \in {"ending", "ended"} \/ interrupted'
        /\ signals' \subseteq {"CHLD", "TERM"} /\ signals \subseteq signals'
        /\ interrupted' \in BOOLEAN /\ (interrupted => interrupted')
    BY <1>1, SignalType DEF Terminate
  <2>2. TypeOK'
    BY <1>1, <2>1 DEF Terminate, TypeOK
  <2> QED
    BY <1>1, <2>1, <2>2 DEF Terminate, KnowsTheDead
<1>2. ASSUME NEW k \in Children, Abort(k) PROVE TypeOK' /\ KnowsTheDead'
  BY <1>2, DiesKeeps DEF Abort
<1>3. ASSUME NEW k \in Children, CgiEnds(k) PROVE TypeOK' /\ KnowsTheDead'
  <2>1. /\ child' \in [Children -> {"wait", "handle", "endless", "leaving", "dead"}]
        /\ child_signals' \in [Children -> SUBSET {"CHLD", "TERM"}]
        /\ \A j \in Children : child[j] = "dead" <=> child'[j] = "dead"
    BY <1>3, SignalChildrenType DEF CgiEnds
  <2>2. cgi' \in [Children -> 0..MaxCgi]
    BY <1>3, NumberAssumption DEF CgiEnds, TypeOK
  <2>0. pipe_edge' \in [Children -> BOOLEAN]
    BY <1>3, EofEdgesType DEF CgiEnds
  <2>3. TypeOK'
    BY <1>3, <2>0, <2>1, <2>2 DEF CgiEnds, TypeOK
  <2> QED
    BY <1>3, <2>1, <2>3 DEF CgiEnds, KnowsTheDead
<1>4. ASSUME NEW c \in Clients, Connect(c) \/ Send(c) \/ Leave(c) PROVE TypeOK' /\ KnowsTheDead'
  <2>1. conn' \in [Clients -> [state : {"away", "backlog", "held", "closed"},
                               child : Children \cup {NoChild}]]
    <3>1. CASE conn' = [conn EXCEPT ![c] = In("backlog")]
      <4>1. In("backlog") \in [state : {"away", "backlog", "held", "closed"},
                               child : Children \cup {NoChild}]
        OBVIOUS
      <4> QED
        BY <3>1, <4>1 DEF TypeOK
    <3>2. CASE UNCHANGED conn
      BY <3>2 DEF TypeOK
    <3> QED
      BY <1>4, <3>1, <3>2 DEF Connect, Send, Leave
  <2>2. sent' \in [Clients -> {"none", "line", "junk"}]
    <3>1. ASSUME NEW m \in {"line", "junk"}, sent' = [sent EXCEPT ![c] = m]
          PROVE  sent' \in [Clients -> {"none", "line", "junk"}]
      BY <3>1 DEF TypeOK
    <3>2. CASE UNCHANGED sent
      BY <3>2 DEF TypeOK
    <3> QED
      BY <1>4, <3>1, <3>2 DEF Connect, Send, Leave
  <2>3. gone' \in [Clients -> BOOLEAN] /\ listen_edge' \in BOOLEAN
    BY <1>4 DEF Connect, Send, Leave, TypeOK
  <2>4. conn_edge' \in [Clients -> BOOLEAN]
    BY <1>4 DEF Connect, Send, Leave, TypeOK
  <2>5. UNCHANGED <<parent, children, pipe_edge, pipe>>
    BY <1>4 DEF Connect, Send, Leave
  <2>6. TypeOK'
    BY <2>1, <2>2, <2>3, <2>4, <2>5 DEF TypeOK
  <2> QED
    BY <2>5, <2>6 DEF KnowsTheDead
<1> QED
  BY <1>1, <1>2, <1>3, <1>4 DEF Outside

(* TypeOK and KnowsTheDead together are inductive. *)
LEMMA Inductive == TypeOK /\ KnowsTheDead /\ [Next]_vars => TypeOK' /\ KnowsTheDead'
<1> SUFFICES ASSUME TypeOK, KnowsTheDead, [Next]_vars PROVE TypeOK' /\ KnowsTheDead'
  OBVIOUS
<1>1. CASE UNCHANGED vars
  BY <1>1 DEF vars, parent, children, kernel, TypeOK, KnowsTheDead
<1>2. CASE Next
  BY <1>2, ParentKeeps, HandleSignalsKeeps, ChildKeeps, OutsideKeeps DEF Next, ParentStep
<1> QED
  BY <1>1, <1>2

(* Whatever dies, when and in which order, the variables of the parent,    *)
(* the children and the kernel keep their types: run_parent's round robin  *)
(* never leaves the table of children.                                     *)
THEOREM TypeCorrect == Spec => []TypeOK
<1>1. TypeOK /\ KnowsTheDead /\ [Next]_vars => (TypeOK /\ KnowsTheDead)'
  BY Inductive
<1> QED
  BY InitType, <1>1, PTL DEF Spec

(* For any number of children, the parent takes a child out of its table   *)
(* only when it is dead, has a SIGCHLD in its pipe for every death it has  *)
(* yet to notice, and, unless a signal interrupts its epoll_wait, stops or *)
(* loses itself in the search for a child only when all of them are dead.  *)
THEOREM ParentKnowsTheDead == Spec => []KnowsTheDead
<1>1. TypeOK /\ KnowsTheDead /\ [Next]_vars => (TypeOK /\ KnowsTheDead)'
  BY Inductive
<1> QED
  BY InitType, <1>1, PTL DEF Spec

(***************************************************************************)
(* Ints and clients.  A client in the backlog is announced by an edge of   *)
(* the listening socket, by an event of the parent's batch or by an int in *)
(* a pipe; several may share one edge, but no int is sent without one.     *)
(* Events of clients belong to the child that holds them (HeldInv), so     *)
(* none of them is in the backlog.                                         *)
(***************************************************************************)
Announced ==
    (IF listen_edge THEN 1 ELSE 0) + (IF "listen" \in events THEN 1 ELSE 0)

HeldInv ==
    /\ \A c \in Clients : conn[c].state # "held" => conn[c].child = NoChild
    /\ \A k \in Children, c \in Clients :
           c \in child_events[k] => conn[c].state = "held" /\ conn[c].child = k

AnnounceInv ==
    /\ HeldInv
    /\ pc = "wait" => events = {}
    /\ IsFiniteSet(Ints)
    /\ Cardinality(Ints) + Announced <= Cardinality(Backlog)

(* Which ints there are. *)
LEMMA IntsAre ==
  \A x : x \in Ints <=> \E k \in Children : \E i \in 1..pipe[k] : x = <<k, i>>
  BY DEF Ints

(* The backlog is as finite as the clients. *)
LEMMA BacklogFinite == IsFiniteSet(Backlog) /\ Cardinality(Backlog) \in Nat
<1>1. Backlog \in SUBSET Clients
  BY DEF Backlog
<1> QED
  BY <1>1, ClientAssumption, FS_Subset, FS_CardinalityType

(* Every step keeps the events of clients with the child that has them.    *)
LEMMA HeldStep ==
  ASSUME TypeOK, HeldInv, [Next]_vars
  PROVE  HeldInv'
<1> USE DEF parent, children, kernel
<1>t. /\ conn \in [Clients -> [state : {"away", "backlog", "held", "closed"}, child : Children \cup {NoChild}]]
      /\ child_events \in [Children -> SUBSET (Clients \cup {"pipe", "sig"})]
  BY DEF TypeOK
<1>1. ASSUME NEW k \in Children, Child_EpollWait(k) PROVE HeldInv'
  <2>1. \A c \in Clients : c \in ChildReady(k) => conn[c].child = k
    BY ClientAssumption DEF ChildReady, Held
  <2>2. \A c \in Clients : c \in ChildReady(k) => conn[c].state = "held"
    BY <2>1, NumberAssumption DEF HeldInv
  <2> QED
    BY <1>1, <1>t, <2>1, <2>2 DEF Child_EpollWait, HeldInv
<1>2. ASSUME NEW k \in Children, Child_Pipe(k) PROVE HeldInv'
  <2>1. \A j \in Children : child_events'[j] \subseteq child_events[j]
    BY <1>2, <1>t DEF Child_Pipe, Handles
  <2>2. CASE conn' = conn
    BY <2>1, <2>2 DEF HeldInv
  <2>3. ASSUME NEW c \in Backlog, conn' = [conn EXCEPT ![c] = [state |-> "held", child |-> k]] PROVE HeldInv'
    <3>1. c \in Clients /\ conn[c].state # "held"
      BY DEF Backlog
    <3>2. conn'[c].state = "held" /\ \A d \in Clients : d # c => conn'[d] = conn[d]
      BY <1>t, <2>3, <3>1
    <3> QED
      BY <2>1, <3>1, <3>2 DEF HeldInv
  <2>4. ASSUME NEW c \in Backlog, conn' = [conn EXCEPT ![c] = In("closed")] PROVE HeldInv'
    <3>1. c \in Clients /\ conn[c].state # "held"
      BY DEF Backlog
    <3>2. conn'[c].child = NoChild /\ \A d \in Clients : d # c => conn'[d] = conn[d]
      BY <1>t, <2>4, <3>1
    <3> QED
      BY <2>1, <3>1, <3>2 DEF HeldInv
  <2> QED
    BY <1>2, <2>2, <2>3, <2>4 DEF Child_Pipe
<1>3. ASSUME NEW k \in Children, NEW c \in Clients, Process(k, c) PROVE HeldInv'
  <2>1. /\ conn' = [conn EXCEPT ![c] = [state |-> "closed", child |-> NoChild]]
        /\ c \in child_events[k] /\ child_events' = [child_events EXCEPT ![k] = @ \ {c}]
    BY <1>3 DEF Process, Handles
  <2>2. conn[c].child = k
    BY <2>1 DEF HeldInv
  <2>3. conn'[c].child = NoChild /\ \A d \in Clients : d # c => conn'[d] = conn[d]
    BY <1>t, <2>1
  <2>4. \A j \in Children : child_events'[j] \subseteq child_events[j] /\ c \notin child_events'[j]
    BY <1>t, <2>1, <2>2 DEF HeldInv
  <2> QED
    BY <2>3, <2>4 DEF HeldInv
<1>4. ASSUME NEW k \in Children, Exit(k) \/ Abort(k) PROVE HeldInv'
  <2>1. /\ conn' = [c \in Clients |-> IF c \in Held(k) THEN In("closed") ELSE conn[c]]
        /\ child_events' = [child_events EXCEPT ![k] = {}]
    BY <1>4 DEF Exit, Abort, Dies
  <2>2. \A c \in Clients : conn'[c] = IF conn[c].child = k THEN [state |-> "closed", child |-> NoChild] ELSE conn[c]
    BY <2>1 DEF Held
  <2>3. \A j \in Children : child_events'[j] = IF j = k THEN {} ELSE child_events[j]
    BY <1>t, <2>1
  <2> QED
    BY <2>2, <2>3 DEF HeldInv
<1>5. ASSUME NEW c \in Clients, Connect(c) PROVE HeldInv'
  <2>1. /\ conn' = [conn EXCEPT ![c] = [state |-> "backlog", child |-> NoChild]]
        /\ child_events' = child_events /\ conn[c].state # "held"
    BY <1>5 DEF Connect
  <2>2. conn'[c].child = NoChild /\ \A d \in Clients : d # c => conn'[d] = conn[d]
    BY <1>t, <2>1
  <2> QED
    BY <2>1, <2>2 DEF HeldInv
<1>6. ASSUME NEW k \in Children, Child_Signals(k) PROVE HeldInv'
  <2>1. conn' = conn /\ \A j \in Children : child_events'[j] \subseteq child_events[j]
    BY <1>6, <1>t DEF Child_Signals, Handles
  <2> QED
    BY <2>1 DEF HeldInv
<1>7. CASE UNCHANGED <<conn, child_events>>
  BY <1>7 DEF HeldInv
<1>8. ParentStep => UNCHANGED <<conn, child_events>>
  BY DEF ParentStep, EpollWait, NewConnection, HandleSignals, EndOfEvents, End
<1>9. \A k \in Children : Child_EndOfEvents(k) \/ CgiEnds(k) => UNCHANGED <<conn, child_events>>
  BY DEF Child_EndOfEvents, CgiEnds
<1>10. \A c \in Clients : Send(c) \/ Leave(c) => UNCHANGED <<conn, child_events>>
  BY DEF Send, Leave
<1>11. Terminate \/ UNCHANGED vars => UNCHANGED <<conn, child_events>>
  BY DEF Terminate, vars
<1> QED
  BY <1>1, <1>2, <1>3, <1>4, <1>5, <1>6, <1>7, <1>8, <1>9, <1>10, <1>11 DEF Next, ChildStep, Outside

(* Nothing that matters changed. *)
LEMMA AnnounceSame ==
  ASSUME AnnounceInv, HeldInv', UNCHANGED <<events, listen_edge>>, Ints' = Ints, Backlog' = Backlog,
         pc' = "wait" => pc = "wait"
  PROVE  AnnounceInv'
  BY DEF AnnounceInv, Announced

(* The parent hands on an event as one int at most. *)
LEMMA NewConnectionAnnounces ==
  ASSUME TypeOK, AnnounceInv, HeldInv', NewConnection
  PROVE  AnnounceInv'
<1>1. /\ "listen" \in events /\ events' = events \ {"listen"} /\ listen_edge' = listen_edge
      /\ Backlog' = Backlog /\ pc' # "wait"
  BY DEF NewConnection, Backlog
<1>2. PICK n \in Nat : n = Cardinality(Ints)
  BY FS_CardinalityType DEF AnnounceInv
<1>3. IsFiniteSet(Ints) /\ Announced = Announced' + 1 /\ Announced' \in Nat
  BY <1>1 DEF Announced, AnnounceInv
<1>4. IsFiniteSet(Ints') /\ (Cardinality(Ints') = n \/ Cardinality(Ints') = n + 1)
  <2>1. CASE UNCHANGED pipe
    BY <2>1, <1>2, <1>3 DEF Ints
  <2>2. ASSUME NEW k, pipe' = [pipe EXCEPT ![k] = pipe[k] + 1], k \in Children
        PROVE  IsFiniteSet(Ints') /\ Cardinality(Ints') = n + 1
    <3>1. pipe \in [Children -> Nat]
      BY DEF TypeOK
    <3> DEFINE x == <<k, pipe[k] + 1>>
    <3>2. x \notin Ints
      BY <2>2, <3>1, IntsAre
    <3>3. Ints' = Ints \cup {x}
      <4>1. \A j \in Children : j # k => pipe'[j] = pipe[j]
        BY <2>2, <3>1
      <4>2. 1..pipe'[k] = (1..pipe[k]) \cup {pipe[k] + 1}
        BY <2>2, <3>1
      <4>3. \A y : y \in Ints' <=> \E j \in Children : \E i \in 1..pipe'[j] : y = <<j, i>>
        BY DEF Ints
      <4>4. \A y : y \in Ints' <=> y \in Ints \/ y = x
        BY <2>2, <4>1, <4>2, <4>3, IntsAre
      <4> QED
        BY <4>4
    <3> QED
      BY <3>2, <3>3, <1>2, <1>3, FS_AddElement
  <2>3. CASE \E k \in Children : m_pid[k]
    <3>1. SendConn(Allocate)
      BY <2>3 DEF NewConnection
    <3> DEFINE k == Allocate
    <3>2. UNCHANGED pipe \/ pipe' = [pipe EXCEPT ![k] = pipe[k] + 1]
      BY <3>1 DEF SendConn
    <3> HIDE DEF k
    <3>3. CASE k \in Children
      BY <3>2, <3>3, <2>1, <2>2
    <3>4. CASE k \notin Children
      <4>1. pipe' = pipe
        <5>1. pipe \in [Children -> Nat] /\ pipe' \in [Children -> Nat]
          BY <3>2, <3>4 DEF TypeOK
        <5>2. \A j \in Children : pipe'[j] = pipe[j]
          BY <3>2, <3>4, <5>1
        <5>3. pipe = [j \in Children |-> pipe[j]] /\ pipe' = [j \in Children |-> pipe'[j]]
          BY <5>1
        <5> QED
          BY <5>2, <5>3
      <4> QED
        BY <4>1, <2>1
    <3> QED
      BY <3>3, <3>4
  <2>4. CASE ~ \E k \in Children : m_pid[k]
    BY <2>1, <2>4 DEF NewConnection
  <2> QED
    BY <2>3, <2>4
<1>5. n + Announced <= Cardinality(Backlog) /\ Cardinality(Backlog) \in Nat
  BY <1>2, BacklogFinite DEF AnnounceInv
<1>6. Cardinality(Ints') + Announced' <= Cardinality(Backlog')
  BY <1>1, <1>3, <1>4, <1>5
<1> QED
  BY <1>1, <1>4, <1>6 DEF AnnounceInv

(* A child that takes an int calls accept for a client that is there.      *)
LEMMA PipeAnnounces ==
  ASSUME TypeOK, AnnounceInv, HeldInv', NEW k \in Children, Child_Pipe(k)
  PROVE  AnnounceInv'
<1>1. /\ events' = events /\ listen_edge' = listen_edge /\ pc' = pc
      /\ pipe' = [pipe EXCEPT ![k] = IF @ = 0 THEN 0 ELSE @ - 1]
      /\ IF pipe[k] = 0 \/ Backlog = {}
         THEN conn' = conn
         ELSE \E c \in Backlog : \/ conn' = [conn EXCEPT ![c] = [state |-> "held", child |-> k]]
                                 \/ conn' = [conn EXCEPT ![c] = In("closed")]
  BY DEF Child_Pipe, parent
<1>2. pipe \in [Children -> Nat]
  BY DEF TypeOK
<1>3. CASE pipe[k] = 0
  <2>1. pipe' = pipe
    BY <1>1, <1>2, <1>3
  <2> QED
    BY <1>1, <1>3, <2>1, AnnounceSame DEF Ints, Backlog
<1>4. CASE pipe[k] # 0
  <2>1. PICK p \in Nat \ {0} : p = pipe[k]
    BY <1>2, <1>4
  <2> DEFINE x == <<k, p>>
  <2>2. x \in Ints
    BY <2>1, IntsAre
  <2>3. Ints' = Ints \ {x}
    <3>1. \A j \in Children : j # k => pipe'[j] = pipe[j]
      BY <1>1, <1>2
    <3>2. 1..pipe'[k] = (1..p) \ {p}
      BY <1>1, <1>2, <2>1
    <3>3. \A y : y \in Ints' <=> \E j \in Children : \E i \in 1..pipe'[j] : y = <<j, i>>
      BY DEF Ints
    <3>4. \A y : y \in Ints' <=> y \in Ints /\ y # x
      BY <2>1, <3>1, <3>2, <3>3, IntsAre
    <3> QED
      BY <3>4
  <2> HIDE DEF x
  <2>4. IsFiniteSet(Ints) /\ Cardinality(Ints) \in Nat /\ Announced \in Nat /\ Announced' = Announced
    BY <1>1, FS_CardinalityType DEF AnnounceInv, Announced
  <2>5. IsFiniteSet(Ints') /\ Cardinality(Ints') = Cardinality(Ints) - 1
    BY <2>2, <2>3, <2>4, FS_RemoveElement
  <2>6. Cardinality(Ints) # 0
    BY <2>2, <2>4, FS_EmptySet
  <2>7. Cardinality(Ints) + Announced <= Cardinality(Backlog) /\ Cardinality(Backlog) \in Nat
    BY BacklogFinite DEF AnnounceInv
  <2>8. Backlog # {}
    <3>1. Cardinality(Backlog) # 0
      BY <2>4, <2>6, <2>7
    <3> QED
      BY <3>1, FS_EmptySet
  <2>9. PICK c \in Backlog : \/ conn' = [conn EXCEPT ![c] = [state |-> "held", child |-> k]]
                             \/ conn' = [conn EXCEPT ![c] = In("closed")]
    BY <1>1, <1>4, <2>8
  <2>10. Backlog' = Backlog \ {c}
    <3>1. conn'[c].state # "backlog" /\ \A d \in Clients : d # c => conn'[d] = conn[d]
      BY <2>9 DEF Backlog, TypeOK
    <3> QED
      BY <2>9, <3>1 DEF Backlog
  <2>11. Cardinality(Backlog') = Cardinality(Backlog) - 1
    BY <2>9, <2>10, BacklogFinite, FS_RemoveElement
  <2>12. Cardinality(Ints') + Announced' <= Cardinality(Backlog')
    BY <2>4, <2>5, <2>7, <2>11
  <2> QED
    BY <1>1, <2>5, <2>12 DEF AnnounceInv
<1> QED
  BY <1>3, <1>4

(* A child that dies takes its ints with it. *)
LEMMA DiesAnnounces ==
  ASSUME TypeOK, AnnounceInv, HeldInv', NEW k \in Children, Dies(k)
  PROVE  AnnounceInv'
<1>1. /\ events' = events /\ listen_edge' = listen_edge
      /\ pipe' = [pipe EXCEPT ![k] = 0]
      /\ pc' = "wait" => pc = "wait"
  BY DEF Dies, Signal
<1>2. Ints' \in SUBSET Ints
  <2>1. pipe \in [Children -> Nat]
    BY DEF TypeOK
  <2>2. \A j \in Children : pipe'[j] = pipe[j] \/ pipe'[j] = 0
    BY <1>1, <2>1
  <2> QED
    BY <2>2 DEF Ints
<1>3. Backlog' = Backlog
  <2>1. \A c \in Clients : conn'[c] = IF conn[c].child = k THEN [state |-> "closed", child |-> NoChild] ELSE conn[c]
    BY DEF Dies, Held
  <2>2. \A c \in Clients : conn[c].child = k => conn[c].state = "held"
    BY DEF AnnounceInv, HeldInv
  <2> QED
    BY <2>1, <2>2 DEF Backlog
<1>4. IsFiniteSet(Ints') /\ Cardinality(Ints') <= Cardinality(Ints)
  BY <1>2, FS_Subset DEF AnnounceInv
<1>5. Cardinality(Ints') \in Nat /\ Cardinality(Ints) \in Nat /\ Announced \in Nat
  BY <1>4, FS_CardinalityType DEF AnnounceInv, Announced
<1>6. Cardinality(Ints') + Announced' <= Cardinality(Backlog')
  BY <1>1, <1>3, <1>4, <1>5, BacklogFinite DEF AnnounceInv, Announced
<1> QED
  BY <1>1, <1>4, <1>6 DEF AnnounceInv

(* Every step keeps it. *)
LEMMA AnnounceStep ==
  ASSUME TypeOK, AnnounceInv, [Next]_vars
  PROVE  AnnounceInv'
<1> USE DEF parent, children, kernel
<1>h. HeldInv'
  BY HeldStep DEF AnnounceInv
<1>1. CASE EpollWait
  <2>1. /\ events = {} /\ pc' # "wait" /\ Ints' = Ints /\ Backlog' = Backlog
        /\ listen_edge' = FALSE /\ ("listen" \in events' <=> listen_edge)
    BY <1>1 DEF EpollWait, Ready, AnnounceInv, Ints, Backlog
  <2>2. Announced' = Announced
    BY <2>1 DEF Announced, TypeOK
  <2> QED
    BY <1>h, <2>1, <2>2 DEF AnnounceInv
<1>2. CASE NewConnection
  BY <1>2, <1>h, NewConnectionAnnounces
<1>3. CASE HandleSignals
  <2>1. /\ events' = events \ {"sig"} /\ listen_edge' = listen_edge /\ Ints' = Ints /\ Backlog' = Backlog
        /\ pc' = pc
    BY <1>3 DEF HandleSignals, Ints, Backlog
  <2>2. Announced' = Announced
    BY <2>1 DEF Announced
  <2> QED
    BY <1>h, <2>1, <2>2 DEF AnnounceInv
<1>4. CASE EndOfEvents
  <2>1. events = {} /\ events' = events /\ listen_edge' = listen_edge /\ Ints' = Ints /\ Backlog' = Backlog
    BY <1>4 DEF EndOfEvents, Ints, Backlog
  <2> QED
    BY <1>h, <2>1 DEF AnnounceInv, Announced
<1>5. CASE End
  BY <1>5, <1>h, AnnounceSame DEF End, Ints, Backlog
<1>6. ASSUME NEW k \in Children, Child_Pipe(k) PROVE AnnounceInv'
  BY <1>6, <1>h, PipeAnnounces
<1>7. ASSUME NEW k \in Children, Exit(k) \/ Abort(k) PROVE AnnounceInv'
  BY <1>7, <1>h, DiesAnnounces DEF Exit, Abort
<1>8. ASSUME NEW k \in Children, Child_EpollWait(k) \/ Child_Signals(k) \/ Child_EndOfEvents(k) \/ CgiEnds(k)
      PROVE  AnnounceInv'
  BY <1>8, <1>h, AnnounceSame DEF Child_EpollWait, Child_Signals, Child_EndOfEvents, CgiEnds, Ints, Backlog
<1>9. ASSUME NEW k \in Children, NEW c \in Clients, Process(k, c) PROVE AnnounceInv'
  <2>1. Ints' = Ints /\ UNCHANGED <<events, listen_edge, pc>> /\ conn' = [conn EXCEPT ![c] = In("closed")]
        /\ c \in child_events[k]
    BY <1>9 DEF Process, Handles, Ints
  <2>2. conn[c].state = "held"
    BY <2>1 DEF AnnounceInv, HeldInv
  <2>3. Backlog' = Backlog
    <3>1. conn'[c].state = "closed" /\ \A d \in Clients : d # c => conn'[d] = conn[d]
      BY <2>1 DEF TypeOK
    <3> QED
      BY <2>2, <3>1 DEF Backlog
  <2> QED
    BY <1>h, <2>1, <2>3, AnnounceSame
<1>10. CASE Terminate
  <2>1. pc' = "wait" => pc = "wait"
    BY <1>10 DEF Terminate, Signal
  <2> QED
    BY <1>10, <1>h, <2>1, AnnounceSame DEF Terminate, Ints, Backlog
<1>11. ASSUME NEW c \in Clients, Connect(c) PROVE AnnounceInv'
  <2>1. /\ UNCHANGED <<events, pc>> /\ Ints' = Ints /\ listen_edge' \in BOOLEAN /\ conn[c].state = "away"
        /\ conn' = [conn EXCEPT ![c] = In("backlog")]
    BY <1>11 DEF Connect, Ints
  <2>2. Backlog' = Backlog \cup {c} /\ c \notin Backlog
    <3>1. conn'[c].state = "backlog" /\ \A d \in Clients : d # c => conn'[d] = conn[d]
      BY <2>1 DEF TypeOK
    <3> QED
      BY <2>1, <3>1 DEF Backlog
  <2>3. Cardinality(Backlog') = Cardinality(Backlog) + 1
    BY <2>2, BacklogFinite, FS_AddElement
  <2>4. Announced' \in Nat /\ Announced \in Nat /\ Announced' <= Announced + 1
    BY <2>1 DEF Announced
  <2>5. Cardinality(Ints) \in Nat
    BY FS_CardinalityType DEF AnnounceInv
  <2>6. Cardinality(Ints') + Announced' <= Cardinality(Backlog')
    BY <2>1, <2>3, <2>4, <2>5, BacklogFinite DEF AnnounceInv
  <2> QED
    BY <1>h, <2>1, <2>6 DEF AnnounceInv
<1>12. ASSUME NEW c \in Clients, Send(c) \/ Leave(c) PROVE AnnounceInv'
  BY <1>12, <1>h, AnnounceSame DEF Send, Leave, Ints, Backlog
<1>13. CASE UNCHANGED vars
  BY <1>13, <1>h, AnnounceSame DEF vars, Ints, Backlog
<1> QED
  BY <1>1, <1>2, <1>3, <1>4, <1>5, <1>6, <1>7, <1>8, <1>9, <1>10, <1>11, <1>12, <1>13
     DEF Next, ParentStep, ChildStep, Outside

(***************************************************************************)
(* No child calls accept for a client that is not there: however the edges *)
(* of clients merge and whichever child dies, every int in a pipe has a    *)
(* client of its own in the backlog (processPool.h, run_child).            *)
(***************************************************************************)
THEOREM IntsHaveClientsCorrect == Spec => []IntsHaveClients
<1>1. Init => TypeOK /\ KnowsTheDead /\ AnnounceInv
  <2> SUFFICES ASSUME Init PROVE AnnounceInv
    BY InitType
  <2>1. HeldInv
    BY DEF Init, HeldInv
  <2>2. Ints = {} /\ Announced = 0 /\ events = {}
    BY DEF Init, Ints, Announced
  <2> QED
    BY <2>1, <2>2, BacklogFinite, FS_EmptySet DEF AnnounceInv
<1>2. TypeOK /\ KnowsTheDead /\ AnnounceInv /\ [Next]_vars => (TypeOK /\ KnowsTheDead /\ AnnounceInv)'
  BY Inductive, AnnounceStep
<1>3. AnnounceInv => IntsHaveClients
  <2> SUFFICES ASSUME AnnounceInv PROVE IntsHaveClients
    OBVIOUS
  <2>1. Cardinality(Ints) \in Nat /\ Announced \in Nat
    BY FS_CardinalityType DEF AnnounceInv, Announced
  <2> QED
    BY <2>1, BacklogFinite DEF AnnounceInv, IntsHaveClients
<1> QED
  BY <1>1, <1>2, <1>3, PTL DEF Spec
=============================================================================
