-------------------------- MODULE IdleCloser_proofs --------------------------
(***************************************************************************)
(* Type correctness, StaleOnlyAfterTick, AlarmKept and TimerPerConnection, *)
(* for any number of descriptors and slots.  The invariant besides TypeOK  *)
(* has three parts.  NoneStale: the edges that wait and, unless a tick ran *)
(* in the batch, the events that are left belong to open connections.      *)
(* SomebodyWaits: an event of listenfd that is left has a client that      *)
(* waits.  RowInv: the timers of the open connections, in the order of     *)
(* their expiry, are linked into one row.                                  *)
(***************************************************************************)
EXTENDS IdleCloser, FiniteSetTheorems, WellFoundedInduction, TLAPS

NoneStale ==
    /\ ready \cap Fds \subseteq open
    /\ pc = "handle" /\ ~ticked => batch \cap Fds \subseteq open
    /\ pc = "undefined" => ticked

SomebodyWaits == listenfd \in batch => backlog > 0

IInv == TypeOK /\ NoneStale /\ SomebodyWaits

(* A set of natural numbers that is not empty has a lowest element. *)
LEMMA LowestNat ==
    ASSUME NEW S \in SUBSET Nat, S # {}
    PROVE  Min(S) \in S /\ \A y \in S : Min(S) <= y
<1>1. PICK x \in S : \A y \in S : ~(<<y, x>> \in OpToRel(<, Nat))
  BY WFMin, NatLessThanWellFounded
<1>2. ASSUME NEW y \in S PROVE x <= y
  <2>1. x \in Nat /\ y \in Nat /\ <<y, x>> \notin OpToRel(<, Nat)
    BY <1>1
  <2>2. x \in Nat /\ y \in Nat /\ ~(y < x)
    BY <2>1 DEF OpToRel
  <2> QED
    BY <2>2
<1>3. \E x1 \in S : \A y \in S : x1 =< y
  BY <1>2
<1> QED
  BY <1>3 DEF Min

(* A set of descriptors that is not empty has a lowest one. *)
LEMMA LowestFd ==
    ASSUME NEW S \in SUBSET Fds, S # {}
    PROVE  Min(S) \in S
<1>1. S \in SUBSET Nat
  BY FdAssumption
<1> QED
  BY <1>1, LowestNat

(* What is open can be counted, and closing a connection makes it no more. *)
LEMMA OpenCount ==
    ASSUME NEW S \in SUBSET Fds
    PROVE  /\ IsFiniteSet(S) /\ Cardinality(S) \in Nat /\ Cardinality(Fds) \in Nat
           /\ \A fd : Cardinality(S \ {fd}) \in Nat /\ Cardinality(S \ {fd}) <= Cardinality(S)
<1>1. IsFiniteSet(S)
  BY FdAssumption, FS_Subset
<1> QED
  BY <1>1, FdAssumption, FS_CardinalityType, FS_Subset

(* A client that waits to be accepted leaves a descriptor for it.          *)
LEMMA FreeFd ==
    ASSUME TypeOK, backlog > 0
    PROVE  /\ Min(Fds \ open) \in Fds \ open
           /\ Cardinality(open \cup {Min(Fds \ open)}) = Cardinality(open) + 1
<1>1. open \subseteq Fds /\ backlog \in Nat /\ backlog + Cardinality(open) <= Cardinality(Fds)
  BY DEF TypeOK
<1>2. Fds \ open # {}
  <2>1. open # Fds
    BY <1>1, OpenCount
  <2> QED
    BY <1>1, <2>1
<1>3. Min(Fds \ open) \in Fds \ open
  BY <1>2, LowestFd
<1> QED
  BY <1>1, <1>3, OpenCount, FS_AddElement

(* What the pipe may hold: each signal at most once. *)
Pipes == {p \in Seq({"ALRM", "TERM"}) : \A j, k \in 1..Len(p) : p[j] = p[k] => j = k}

(* The contents that TypeOK allows the signal pipe. *)
LEMMA PipesDef == \A p : p \in Pipes <=> p \in Seq({"ALRM", "TERM"}) /\ IsInjective(p)
<1> SUFFICES ASSUME NEW p \in Seq({"ALRM", "TERM"})
             PROVE  (\A j, k \in 1..Len(p) : p[j] = p[k] => j = k) <=> IsInjective(p)
  BY DEF Pipes
<1>1. DOMAIN p = 1..Len(p)
  OBVIOUS
<1> QED
  BY <1>1 DEF IsInjective

(* A byte more in the pipe, and the edge for it. *)
LEMMA ByteKeeps ==
    ASSUME TypeOK, NEW s \in {"ALRM", "TERM"}, Byte(s)
    PROVE  /\ pipe' \in Pipes /\ ready' = ready \cup {pipefd}
           /\ Contains(pipe', s) /\ (Contains(pipe, "ALRM") => Contains(pipe', "ALRM"))
<1>1. pipe \in Pipes
  BY PipesDef DEF TypeOK
<1>2. CASE Contains(pipe, s)
  BY <1>1, <1>2 DEF Byte
<1>3. CASE ~Contains(pipe, s)
  <2>1. pipe' = Append(pipe, s) /\ pipe \in Seq({"ALRM", "TERM"})
    BY <1>1, <1>3 DEF Byte, Pipes
  <2>2. /\ pipe' \in Seq({"ALRM", "TERM"}) /\ Len(pipe') = Len(pipe) + 1
        /\ pipe'[Len(pipe) + 1] = s /\ \A k \in 1..Len(pipe) : pipe'[k] = pipe[k]
    BY <2>1
  <2>3. pipe' \in Pipes
    BY <1>1, <1>3, <2>2 DEF Pipes, Contains
  <2>4. Contains(pipe', s) /\ (Contains(pipe, "ALRM") => Contains(pipe', "ALRM"))
    BY <2>1, <2>2 DEF Contains
  <2> QED
    BY <2>3, <2>4 DEF Byte
<1> QED
  BY <1>2, <1>3

(* Closing keeps the types, and what waits belongs to open connections.    *)
LEMMA CloseKeeps ==
    ASSUME IInv, NEW fd, CloseConnection(fd)
    PROVE  /\ live' \subseteq Fds /\ open' \subseteq Fds
           /\ ready' \subseteq Fds \cup {listenfd, pipefd}
           /\ backlog + Cardinality(open') <= Cardinality(Fds)
           /\ data' \in [Fds -> 0..MaxData] /\ eof' \subseteq open'
           /\ ready' \cap Fds \subseteq open'
<1> USE DEF IInv, TypeOK, CloseConnection
<1>1. backlog + Cardinality(open') <= Cardinality(Fds)
  <2>1. Cardinality(open \ {fd}) <= Cardinality(open) /\ Cardinality(open \ {fd}) \in Nat
    BY OpenCount
  <2>2. Cardinality(open) \in Nat /\ Cardinality(Fds) \in Nat
    BY OpenCount
  <2> QED
    BY <2>1, <2>2
<1>2. data' \in [Fds -> 0..MaxData]
  <2>1. 0 \in 0..MaxData
    BY BoundAssumption
  <2> QED
    BY <2>1
<1> QED
  BY <1>1, <1>2 DEF NoneStale

(* Nothing is open and nothing waits at the start. *)
LEMMA InitInv == Init => IInv
<1> SUFFICES ASSUME Init PROVE IInv
  OBVIOUS
<1> USE DEF Init
<1>1. backlog + Cardinality(open) <= Cardinality(Fds)
  BY OpenCount, FS_EmptySet
<1>2. expire \in [Fds -> 0..Idle] /\ data \in [Fds -> 0..MaxData]
  BY BoundAssumption
<1>3. pipe \in Pipes
  BY DEF Pipes
<1>4. stop_server \in BOOLEAN /\ alarm \in BOOLEAN /\ ticked \in BOOLEAN
  OBVIOUS
<1>5. TypeOK
  BY <1>1, <1>2, <1>3, <1>4, PipesDef DEF TypeOK
<1>6. NoneStale /\ SomebodyWaits
  BY DEF NoneStale, SomebodyWaits
<1> QED
  BY <1>5, <1>6 DEF IInv

(* The step of handling an event, as far as all events have it in common.  *)
LEMMA HandlesKeeps ==
    ASSUME IInv, NEW e, Handles(e)
    PROVE  /\ pc = "handle" /\ e \in batch /\ batch' = batch \ {e}
           /\ batch' \subseteq Fds \cup {listenfd, pipefd} /\ i' \in 0..2
           /\ ~ticked => batch' \cap Fds \subseteq open \ {e}
  BY DEF IInv, TypeOK, NoneStale, Handles

(* Every step of the server keeps the invariant. *)
LEMMA ServerInv == IInv /\ ServerStep => IInv'
<1> SUFFICES ASSUME IInv, ServerStep PROVE IInv'
  OBVIOUS
<1> USE DEF IInv, timers, kernel
<1>1. CASE EpollWait
  <2>1. TypeOK'
    BY <1>1 DEF EpollWait, TypeOK
  <2>2. NoneStale'
    BY <1>1 DEF EpollWait, NoneStale
  <2>3. SomebodyWaits'
    <3>1. Something(listenfd) => backlog > 0
      BY FdAssumption DEF Something
    <3> QED
      BY <1>1, <3>1 DEF EpollWait, SomebodyWaits
  <2> QED
    BY <2>1, <2>2, <2>3
<1>2. CASE DealConnection
  <2> DEFINE new == Min(Fds \ open)
  <2>1. Handles(listenfd)
    BY <1>2 DEF DealConnection
  <2>2. backlog > 0 /\ backlog \in Nat
    BY <2>1 DEF SomebodyWaits, Handles, TypeOK
  <2>3. new \in Fds \ open /\ Cardinality(open \cup {new}) = Cardinality(open) + 1
    BY <2>2, FreeFd
  <2>4. /\ backlog' = backlog - 1 /\ open' = open \cup {new} /\ live' = live \cup {new}
        /\ expire' = [expire EXCEPT ![new] = Idle]
        /\ UNCHANGED <<pc, stop_server, ready, data, eof, pipe, alarm, ticked>>
    BY <1>2 DEF DealConnection
  <2>5. backlog' \in Nat /\ backlog' + Cardinality(open') <= Cardinality(Fds)
    BY <2>2, <2>3, <2>4, OpenCount DEF TypeOK
  <2>6. expire' \in [Fds -> 0..Idle]
    BY <2>3, <2>4, BoundAssumption DEF TypeOK
  <2>7. TypeOK'
    BY <2>1, <2>3, <2>4, <2>5, <2>6, HandlesKeeps DEF TypeOK
  <2>8. NoneStale'
    BY <2>1, <2>4, HandlesKeeps DEF NoneStale
  <2>9. SomebodyWaits'
    BY <2>1, HandlesKeeps DEF SomebodyWaits
  <2> QED
    BY <2>7, <2>8, <2>9
<1>3. CASE DealSignals
  <2>1. Handles(pipefd) /\ pipe' = <<>>
    BY <1>3 DEF DealSignals
  <2>2. /\ pc' \in {"tick", pc} /\ stop_server' \in BOOLEAN
        /\ UNCHANGED <<timers, open, ready, kernel, alarm, ticked>>
    BY <1>3 DEF DealSignals, TypeOK
  <2>3. TypeOK'
    <3>1. pipe' \in Pipes
      BY <2>1 DEF Pipes
    <3> QED
      BY <2>1, <2>2, <3>1, HandlesKeeps, PipesDef DEF TypeOK
  <2>4. NoneStale'
    BY <2>1, <2>2, HandlesKeeps DEF NoneStale
  <2>5. SomebodyWaits'
    BY <2>1, <2>2, HandlesKeeps DEF SomebodyWaits
  <2> QED
    BY <2>3, <2>4, <2>5
<1>4. ASSUME NEW fd \in Fds, DealRead(fd) PROVE IInv'
  <2>1. Handles(fd)
    BY <1>4 DEF DealRead, DealRead_Data, DealRead_Eof, DealRead_Nothing, DealRead_Stale
  <2>2. SomebodyWaits'
    BY <1>4, <2>1, HandlesKeeps
    DEF SomebodyWaits, DealRead, DealRead_Data, DealRead_Eof, DealRead_Nothing, DealRead_Stale
  <2>3. CASE DealRead_Data(fd)
    <3>1. data' \in [Fds -> 0..MaxData]
      BY <2>3, BoundAssumption DEF DealRead_Data, TypeOK
    <3>2. expire' \in [Fds -> 0..Idle]
      BY <2>3, BoundAssumption DEF DealRead_Data, TypeOK
    <3>3. TypeOK'
      BY <2>1, <2>3, <3>1, <3>2, HandlesKeeps DEF DealRead_Data, TypeOK
    <3>4. NoneStale'
      BY <2>1, <2>3, HandlesKeeps DEF DealRead_Data, NoneStale
    <3> QED
      BY <2>2, <3>3, <3>4
  <2>4. CASE DealRead_Eof(fd)
    <3>1. CloseConnection(fd) /\ UNCHANGED <<pc, expire, stop_server, backlog, pipe, alarm, ticked>>
      BY <2>4 DEF DealRead_Eof
    <3>2. TypeOK'
      BY <2>1, <3>1, HandlesKeeps, CloseKeeps DEF TypeOK
    <3>3. open' = open \ {fd}
      BY <3>1 DEF CloseConnection
    <3>4. NoneStale'
      BY <2>1, <3>1, <3>3, HandlesKeeps, CloseKeeps DEF NoneStale
    <3> QED
      BY <2>2, <3>2, <3>4
  <2>5. CASE DealRead_Nothing(fd)
    <3>1. TypeOK'
      BY <2>1, <2>5, HandlesKeeps DEF DealRead_Nothing, TypeOK
    <3>2. NoneStale'
      BY <2>1, <2>5, HandlesKeeps DEF DealRead_Nothing, NoneStale
    <3> QED
      BY <2>2, <3>1, <3>2
  <2>6. CASE DealRead_Stale(fd)
    <3>1. TypeOK'
      BY <2>1, <2>6, HandlesKeeps DEF DealRead_Stale, TypeOK
    <3>2. ticked
      BY <2>1, <2>6, HandlesKeeps DEF DealRead_Stale, NoneStale
    <3>3. NoneStale'
      BY <2>6, <3>2 DEF DealRead_Stale, NoneStale
    <3> QED
      BY <2>2, <3>1, <3>3
  <2> QED
    BY <1>4, <2>3, <2>4, <2>5, <2>6 DEF DealRead
<1>5. CASE Tick_Due
  <2>1. /\ CloseConnection(list.head) /\ pc = "tick"
        /\ UNCHANGED <<pc, batch, i, expire, stop_server, backlog, pipe, alarm, ticked>>
    BY <1>5 DEF Tick_Due
  <2>2. TypeOK'
    BY <2>1, CloseKeeps DEF TypeOK
  <2>3. NoneStale' /\ SomebodyWaits'
    BY <2>1, CloseKeeps DEF NoneStale, SomebodyWaits
  <2> QED
    BY <2>2, <2>3
<1>6. CASE Tick_End
  <2>1. TypeOK'
    BY <1>6 DEF Tick_End, TypeOK
  <2>2. NoneStale' /\ SomebodyWaits'
    BY <1>6 DEF Tick_End, NoneStale, SomebodyWaits
  <2> QED
    BY <2>1, <2>2
<1>7. CASE EndOfEvents
  <2>1. TypeOK'
    <3>1. pc' \in {"wait", "stopped"}
      BY <1>7 DEF EndOfEvents
    <3>2. i' = 0 /\ ticked' \in BOOLEAN
      BY <1>7 DEF EndOfEvents
    <3>3. UNCHANGED <<batch, timers, open, stop_server, ready, kernel, pipe, alarm>>
      BY <1>7 DEF EndOfEvents
    <3> QED
      BY <3>1, <3>2, <3>3 DEF TypeOK
  <2>2. NoneStale' /\ SomebodyWaits'
    BY <1>7 DEF EndOfEvents, NoneStale, SomebodyWaits
  <2> QED
    BY <2>1, <2>2
<1> QED
  BY <1>1, <1>2, <1>3, <1>4, <1>5, <1>6, <1>7 DEF ServerStep

(* What clients, signals and time do keeps the invariant. *)
LEMMA OutsideInv == IInv /\ Outside => IInv'
<1> SUFFICES ASSUME IInv, Outside PROVE IInv'
  OBVIOUS
<1> USE DEF IInv, timers, kernel
<1>1. CASE PassSlot
  <2>1. expire' \in [Fds -> 0..Idle]
    BY <1>1, BoundAssumption DEF PassSlot, TypeOK
  <2>2. pipe' \in Pipes /\ ready' \subseteq ready \cup {pipefd}
    <3>1. CASE alarm
      BY <1>1, <3>1, ByteKeeps DEF PassSlot
    <3>2. CASE ~alarm
      BY <1>1, <3>2, PipesDef DEF PassSlot, TypeOK
    <3> QED
      BY <3>1, <3>2
  <2>3. TypeOK'
    BY <1>1, <2>1, <2>2, PipesDef DEF PassSlot, TypeOK
  <2>4. NoneStale' /\ SomebodyWaits'
    BY <1>1, <2>2, FdAssumption DEF PassSlot, NoneStale, SomebodyWaits
  <2> QED
    BY <2>3, <2>4
<1>2. CASE Terminate
  <2>1. pipe' \in Pipes /\ ready' = ready \cup {pipefd}
    BY <1>2, ByteKeeps DEF Terminate
  <2>2. TypeOK'
    BY <1>2, <2>1, PipesDef DEF Terminate, TypeOK
  <2>3. NoneStale' /\ SomebodyWaits'
    BY <1>2, <2>1, FdAssumption DEF Terminate, NoneStale, SomebodyWaits
  <2> QED
    BY <2>2, <2>3
<1>3. CASE Connect
  <2>1. backlog' \in Nat /\ backlog' + Cardinality(open') <= Cardinality(Fds)
    BY <1>3, OpenCount DEF Connect, TypeOK
  <2>2. TypeOK'
    BY <1>3, <2>1 DEF Connect, TypeOK
  <2>3. NoneStale' /\ SomebodyWaits'
    <3>1. backlog' > 0
      BY <1>3 DEF Connect, TypeOK
    <3> QED
      BY <1>3, <3>1, FdAssumption DEF Connect, NoneStale, SomebodyWaits
  <2> QED
    BY <2>2, <2>3
<1>4. ASSUME NEW fd \in Fds, Send(fd) PROVE IInv'
  <2>1. data' \in [Fds -> 0..MaxData]
    BY <1>4, BoundAssumption DEF Send, TypeOK
  <2>2. TypeOK'
    BY <1>4, <2>1 DEF Send, TypeOK
  <2>3. NoneStale' /\ SomebodyWaits'
    BY <1>4 DEF Send, NoneStale, SomebodyWaits
  <2> QED
    BY <2>2, <2>3
<1>5. ASSUME NEW fd \in Fds, Leave(fd) PROVE IInv'
  <2>1. TypeOK'
    BY <1>5 DEF Leave, TypeOK
  <2>2. NoneStale' /\ SomebodyWaits'
    BY <1>5 DEF Leave, NoneStale, SomebodyWaits
  <2> QED
    BY <2>1, <2>2
<1> QED
  BY <1>1, <1>2, <1>3, <1>4, <1>5 DEF Outside

(* The invariant is inductive. *)
LEMMA StepInv == IInv /\ [Next]_vars => IInv'
<1>1. IInv /\ UNCHANGED vars => IInv'
  BY DEF IInv, TypeOK, NoneStale, SomebodyWaits, vars, timers, kernel
<1> QED
  BY <1>1, ServerInv, OutsideInv DEF Next

(* accept always finds a free descriptor, the pipe of signals holds each   *)
(* signal at most once, and every variable stays in its type.              *)
THEOREM TypeCorrect == Spec => []TypeOK
<1>1. IInv => TypeOK
  BY DEF IInv
<1> QED
  BY <1>1, InitInv, StepInv, PTL DEF Spec

(* An event outlives its connection, and reaches the timer that was        *)
(* deleted, only in a batch in which a tick ran.                           *)
THEOREM StaleOnlyAfterTickCorrect == Spec => []StaleOnlyAfterTick
<1>1. IInv => StaleOnlyAfterTick
  BY DEF IInv, NoneStale, StaleOnlyAfterTick
<1> QED
  BY <1>1, InitInv, StepInv, PTL DEF Spec

(* A pipe with one signal at most, read by the first event of a batch. *)
LEMMA OneSignal ==
    ASSUME IInv, ~(i > 0 \/ Len(pipe) > 1)
    PROVE  i = 0 /\ Len(pipe) \in 0..1
<1>1. i \in 0..2 /\ Len(pipe) \in Nat
  BY DEF IInv, TypeOK
<1>2. i = 0
  BY <1>1
<1>3. Len(pipe) \in 0..1
  BY <1>1
<1> QED
  BY <1>2, <1>3

(* A step that ends the chain of alarms is one that reads the signals at   *)
(* an index that is not theirs.                                            *)
LEMMA ChainStep ==
    IInv /\ [Next]_vars =>
        [AlarmAlive /\ ~AlarmAlive' => DealSignals /\ (i > 0 \/ Len(pipe) > 1)]_vars
<1> SUFFICES ASSUME IInv, Next, AlarmAlive, ~AlarmAlive'
             PROVE  DealSignals /\ (i > 0 \/ Len(pipe) > 1)
  BY DEF AlarmAlive
<1> USE DEF AlarmAlive, Runs, timers, kernel
<1>1. CASE DealSignals
  <2> SUFFICES ASSUME ~(i > 0 \/ Len(pipe) > 1) PROVE FALSE
    BY <1>1
  <2>1. i = 0 /\ Len(pipe) \in 0..1
    BY OneSignal
  <2>2. pc = "handle" /\ UNCHANGED alarm
    BY <1>1 DEF DealSignals, Handles
  <2>3. Contains(pipe, "ALRM")
    BY <2>2
  <2>4. i < Len(pipe) /\ pipe[i + 1] = "ALRM"
    BY <2>1, <2>3 DEF Contains
  <2>5. pc' = "tick"
    BY <1>1, <2>4 DEF DealSignals
  <2> QED
    BY <2>5
<1>2. CASE PassSlot
  <2>1. CASE alarm
    BY <1>2, <2>1, ByteKeeps DEF PassSlot, IInv
  <2>2. CASE ~alarm
    BY <1>2, <2>2 DEF PassSlot
  <2> QED
    BY <2>1, <2>2
<1>3. CASE Terminate
  <2>1. UNCHANGED <<alarm, pc>> /\ (Contains(pipe, "ALRM") => Contains(pipe', "ALRM"))
    BY <1>3, ByteKeeps DEF Terminate, IInv
  <2> QED
    BY <2>1
<1>4. CASE Tick_End
  BY <1>4 DEF Tick_End
<1>5. CASE EpollWait \/ DealConnection \/ Tick_Due
  BY <1>5 DEF EpollWait, DealConnection, Tick_Due
<1>6. CASE EndOfEvents
  BY <1>6 DEF EndOfEvents
<1>7. ASSUME NEW fd \in Fds, DealRead(fd) PROVE FALSE
  BY <1>7 DEF DealRead, DealRead_Data, DealRead_Eof, DealRead_Nothing, DealRead_Stale
<1>8. CASE Connect
  BY <1>8 DEF Connect
<1>9. ASSUME NEW fd \in Fds, Send(fd) \/ Leave(fd) PROVE FALSE
  BY <1>9 DEF Send, Leave
<1> QED
  BY <1>1, <1>2, <1>3, <1>4, <1>5, <1>6, <1>7, <1>8, <1>9 DEF Next, ServerStep, Outside

(* The clock stops only where the loop reads signals[i] behind another     *)
(* event, or with two signals in the pipe.                                 *)
THEOREM AlarmKeptCorrect == Spec => AlarmKept
  BY InitInv, StepInv, ChainStep, PTL DEF Spec, AlarmKept

(***************************************************************************)
(* The list of timers.  Row says with the timers in their order, s[0] to   *)
(* s[n - 1], what Sorted says with a walk along the links.                 *)
(***************************************************************************)

Links == [Fds -> Fds \cup {NULL}]
Lists == [head : Fds \cup {NULL}, tail : Fds \cup {NULL}, next : Links, prev : Links]

Row(l, T, e, n, s) ==
    /\ s \in [0..n - 1 -> T]
    /\ \A t \in T : \E k \in 0..n - 1 : s[k] = t
    /\ \A j, k \in 0..n - 1 : s[j] = s[k] => j = k
    /\ l.head = (IF n = 0 THEN NULL ELSE s[0])
    /\ l.tail = (IF n = 0 THEN NULL ELSE s[n - 1])
    /\ \A k \in 0..n - 1 : /\ l.next[s[k]] = (IF k = n - 1 THEN NULL ELSE s[k + 1])
                           /\ l.prev[s[k]] = (IF k = 0 THEN NULL ELSE s[k - 1])
                           /\ k > 0 => e[s[k - 1]] <= e[s[k]]

After(l, t) == IF t = NULL THEN NULL ELSE l.next[t]
ChainOf(l, c, at) == at = [k \in 0..c |-> IF k = 0 THEN l.head ELSE After(l, at[k - 1])]

(* An instance of a module has the operators of the library for itself.    *)
LEMMA SameOperators == \A S : L!Cardinality(S) = Cardinality(S) /\ L!Min(S) = Min(S)
  BY DEF L!Cardinality, Cardinality, L!Min, Min

LEMMA ChainDef ==
    ASSUME NEW l, NEW c, c = Cardinality(Fds), NEW at, ChainOf(l, c, at)
    PROVE  ChainOf(l, c, L!Chain(l))
<1>1. L!Cardinality(Fds) = c
  BY SameOperators
<1>2. L!Chain(l) = CHOOSE f : f = [k \in 0..c |-> IF k = 0 THEN l.head ELSE After(l, f[k - 1])]
  BY <1>1 DEF L!Chain, After
<1>3. L!Chain(l) = CHOOSE f : ChainOf(l, c, f)
  BY <1>2 DEF ChainOf
<1> QED
  BY <1>3

(* A chain, step by step. *)
LEMMA ChainAt ==
    ASSUME NEW l, NEW c \in Nat, NEW f, ChainOf(l, c, f)
    PROVE  /\ f[0] = l.head /\ DOMAIN f = 0..c
           /\ \A k \in 1..c : f[k] = After(l, f[k - 1])
<1> DEFINE g == [k \in 0..c |-> IF k = 0 THEN l.head ELSE After(l, f[k - 1])]
<1>1. f = g
  BY DEF ChainOf
<1>2. /\ DOMAIN g = 0..c
      /\ \A k \in 0..c : g[k] = IF k = 0 THEN l.head ELSE After(l, f[k - 1])
  OBVIOUS
<1>3. 0 \in 0..c /\ \A k \in 1..c : k \in 0..c /\ k # 0
  OBVIOUS
<1> HIDE DEF g
<1> QED
  BY <1>1, <1>2, <1>3

(* at goes through the row and stays at its end.                           *)
WalksRow(at, c, s, n) == /\ DOMAIN at = 0..c
                         /\ \A k \in 0..c : at[k] = IF k < n THEN s[k] ELSE NULL

(* The walk along the links of a row is the row, and then NULL. *)
LEMMA ChainOfRow ==
    ASSUME NEW T \in SUBSET Fds, NEW l, NEW e, NEW n \in Nat, NEW s, Row(l, T, e, n, s),
           NEW c \in Nat, n <= c, c = Cardinality(Fds)
    PROVE  WalksRow(L!Chain(l), c, s, n)
<1> DEFINE f == [k \in 0..c |-> IF k < n THEN s[k] ELSE NULL]
           step(g, k) == IF k = 0 THEN l.head ELSE After(l, g[k - 1])
<1>1. \A k \in 0..n - 1 : s[k] \in T /\ s[k] # NULL
  BY FdAssumption DEF Row
<1>2. ASSUME NEW k \in 0..c PROVE f[k] = step(f, k)
  <2>1. CASE k = 0
    BY <1>2, <2>1 DEF Row
  <2>2. CASE k > 0
    <3>1. k - 1 \in 0..c /\ f[k - 1] = IF k - 1 < n THEN s[k - 1] ELSE NULL
      BY <1>2, <2>2
    <3>2. f[k] = IF k < n THEN s[k] ELSE NULL
      BY <1>2
    <3>3. CASE k - 1 < n
      <4>1. k - 1 \in 0..n - 1
        BY <1>2, <2>2, <3>3
      <4>2. l.next[s[k - 1]] = (IF k - 1 = n - 1 THEN NULL ELSE s[(k - 1) + 1])
        BY <4>1 DEF Row
      <4>3. l.next[s[k - 1]] = f[k]
        BY <1>2, <3>2, <3>3, <4>2
      <4> HIDE DEF f
      <4> QED
        BY <1>1, <2>2, <3>1, <3>3, <4>1, <4>3 DEF After
    <3>4. CASE ~(k - 1 < n)
      <4>1. ~(k < n)
        BY <1>2, <3>4
      <4> HIDE DEF f
      <4> QED
        BY <2>2, <3>1, <3>2, <3>4, <4>1 DEF After
    <3> QED
      BY <3>3, <3>4
  <2> QED
    BY <1>2, <2>1, <2>2
<1>3. ChainOf(l, c, f)
  <2> DEFINE h == [k \in 0..c |-> step(f, k)]
  <2>1. f = h
    <3>1. f = [k \in 0..c |-> f[k]]
      OBVIOUS
    <3> HIDE DEF f, step
    <3> QED
      BY <1>2, <3>1
  <2> HIDE DEF f
  <2> QED
    BY <2>1 DEF ChainOf
<1>4. PICK at : at = L!Chain(l) /\ ChainOf(l, c, at)
  <2> HIDE DEF f
  <2> QED
    BY <1>3, ChainDef
<1>5. /\ at[0] = l.head /\ DOMAIN at = 0..c
      /\ \A k \in 1..c : at[k] = After(l, at[k - 1])
  BY <1>4, ChainAt
<1>6. /\ f[0] = l.head
      /\ \A k \in 1..c : f[k] = After(l, f[k - 1])
  <2> HIDE DEF f
  <2> QED
    BY <1>3, ChainAt
<1> HIDE DEF f
<1> DEFINE Bad == {k \in 0..c : at[k] # f[k]}
<1>7. Bad = {}
  <2> SUFFICES ASSUME Bad # {} PROVE FALSE
    OBVIOUS
  <2>1. Bad \in SUBSET Nat
    OBVIOUS
  <2>2. PICK m \in Bad : \A y \in Bad : m <= y
    <3> HIDE DEF Bad
    <3> QED
      BY <2>1, LowestNat
  <2>3. m \in 0..c /\ at[m] # f[m]
    BY <2>2
  <2>4. m # 0
    BY <1>5, <1>6, <2>3
  <2>5. m \in 1..c /\ m - 1 \in 0..c /\ ~(m <= m - 1)
    BY <2>3, <2>4
  <2>6. at[m - 1] = f[m - 1]
    BY <2>2, <2>5
  <2> QED
    BY <1>5, <1>6, <2>3, <2>5, <2>6
<1>8. \A k \in 0..c : at[k] = f[k]
  BY <1>7
<1> QED
  BY <1>4, <1>5, <1>8 DEF f, WalksRow

(* A row of all the timers of T is a sorted list of them. *)
LEMMA RowSorted ==
    ASSUME NEW T \in SUBSET Fds, NEW l, NEW e, NEW s, Row(l, T, e, Cardinality(T), s)
    PROVE  L!Sorted(l, T, e)
<1>1. PICK n \in Nat, c \in Nat : n = Cardinality(T) /\ c = Cardinality(Fds) /\ n <= c
  BY OpenCount, FdAssumption, FS_Subset
<1>2. Row(l, T, e, n, s)
  BY <1>1
<1>3. PICK at : at = L!Chain(l)
  OBVIOUS
<1>4. DOMAIN at = 0..c /\ \A k \in 0..c : at[k] = IF k < n THEN s[k] ELSE NULL
  <2>1. WalksRow(L!Chain(l), c, s, n)
    BY <1>1, <1>2, ChainOfRow
  <2> QED
    BY <1>3, <2>1 DEF WalksRow
<1>5. \A k \in 0..n - 1 : k \in 0..c /\ at[k] = s[k] /\ s[k] \in T /\ s[k] # NULL
  <2>1. \A k \in 0..n - 1 : k \in 0..c /\ k < n
    BY <1>1
  <2>2. \A k \in 0..n - 1 : s[k] \in T
    BY <1>2 DEF Row
  <2>3. \A t \in T : t # NULL
    BY FdAssumption
  <2> QED
    BY <1>4, <2>1, <2>2, <2>3
<1>6. L!InList(l) = T
  <2>1. L!InList(l) = {at[k] : k \in 0..c} \ {NULL}
    BY <1>3, <1>4 DEF L!InList
  <2>2. ASSUME NEW t \in T PROVE t \in {at[k] : k \in 0..c} \ {NULL}
    <3>1. PICK k \in 0..n - 1 : s[k] = t
      BY <1>2 DEF Row
    <3> QED
      BY <1>5, <3>1
  <2>3. ASSUME NEW k \in 0..c, at[k] # NULL PROVE at[k] \in T
    <3>1. k < n
      BY <1>4, <2>3
    <3>2. k \in 0..n - 1
      BY <3>1
    <3> QED
      BY <1>5, <3>2
  <2> QED
    BY <2>1, <2>2, <2>3
<1>7. l.tail = (IF n = 0 THEN NULL ELSE at[n - 1])
  <2>1. n # 0 => n - 1 \in 0..n - 1
    OBVIOUS
  <2> QED
    BY <1>2, <1>5, <2>1 DEF Row
<1>8. ASSUME NEW k \in 1..n - 1
      PROVE  e[at[k - 1]] <= e[at[k]] /\ l.prev[at[k]] = at[k - 1]
  <2>1. k \in 0..n - 1 /\ k - 1 \in 0..n - 1 /\ k > 0 /\ k # 0
    OBVIOUS
  <2> QED
    BY <1>2, <1>5, <2>1 DEF Row
<1>9. n = 0 \/ (l.prev[l.head] = NULL /\ l.next[l.tail] = NULL)
  <2> SUFFICES ASSUME n # 0 PROVE l.prev[l.head] = NULL /\ l.next[l.tail] = NULL
    OBVIOUS
  <2>1. 0 \in 0..n - 1 /\ n - 1 \in 0..n - 1
    OBVIOUS
  <2> QED
    BY <1>2, <2>1 DEF Row
<1>10. L!Cardinality(T) = n
  BY <1>1, SameOperators
<1> QED
  BY <1>3, <1>5, <1>6, <1>7, <1>8, <1>9, <1>10 DEF L!Sorted

(* What Row says, without its conditional expressions. *)
RowSays(T, l, e, n, s) ==
    /\ \A k \in 0..n - 1 : s[k] \in T /\ s[k] \in Fds /\ s[k] # NULL
    /\ \A j, k \in 0..n - 1 : s[j] = s[k] => j = k
    /\ n = 0 => l.head = NULL /\ l.tail = NULL
    /\ n > 0 => l.head = s[0] /\ l.tail = s[n - 1]
    /\ \A k \in 0..n - 1 : k < n - 1 => l.next[s[k]] = s[k + 1]
    /\ n > 0 => l.next[s[n - 1]] = NULL
    /\ \A k \in 0..n - 1 : k > 0 => l.prev[s[k]] = s[k - 1] /\ e[s[k - 1]] <= e[s[k]]
    /\ n > 0 => l.prev[s[0]] = NULL

LEMMA RowFacts ==
    ASSUME NEW T \in SUBSET Fds, NEW l \in Lists, NEW e, NEW n \in Nat, NEW s, Row(l, T, e, n, s)
    PROVE  RowSays(T, l, e, n, s)
<1>1. \A k \in 0..n - 1 : s[k] \in T /\ s[k] \in Fds /\ s[k] # NULL
  BY FdAssumption DEF Row
<1>2. \A k \in 0..n - 1 : k < n - 1 => k # n - 1
  OBVIOUS
<1>3. n > 0 => n # 0 /\ 0 \in 0..n - 1 /\ n - 1 \in 0..n - 1
  OBVIOUS
<1>4. \A k \in 0..n - 1 : k > 0 => k # 0
  OBVIOUS
<1> QED
  BY <1>1, <1>2, <1>3, <1>4 DEF Row, RowSays

(* What del_timer_sup leaves of the links of a row from which place m is   *)
(* taken.                                                                  *)
Unlinked(l, d, n, s, m) ==
    /\ d.head = IF m > 0 THEN s[0] ELSE IF n = 1 THEN NULL ELSE s[1]
    /\ d.tail = IF m < n - 1 THEN s[n - 1] ELSE IF n = 1 THEN NULL ELSE s[n - 2]
    /\ \A k \in 0..n - 1 : k # m /\ k # m - 1 => d.next[s[k]] = l.next[s[k]]
    /\ \A k \in 0..n - 1 : k # m /\ k # m + 1 => d.prev[s[k]] = l.prev[s[k]]
    /\ m > 0 => d.next[s[m - 1]] = IF m < n - 1 THEN s[m + 1] ELSE NULL
    /\ m < n - 1 => d.prev[s[m + 1]] = IF m > 0 THEN s[m - 1] ELSE NULL

LEMMA DelUnlinks ==
    ASSUME NEW T \in SUBSET Fds, NEW l \in Lists, NEW e, NEW n \in Nat, NEW s, Row(l, T, e, n, s),
           NEW m \in 0..n - 1
    PROVE  /\ L!del_timer_sup(l, s[m]) \in Lists
           /\ Unlinked(l, L!del_timer_sup(l, s[m]), n, s, m)
           /\ n = 1 => L!del_timer_sup(l, s[m]).next = l.next
                       /\ L!del_timer_sup(l, s[m]).prev = l.prev
<1> PICK d : d = L!del_timer_sup(l, s[m])
  OBVIOUS
<1> PICK t \in T : t = s[m]
  BY RowFacts DEF RowSays
<1>1. /\ \A k \in 0..n - 1 : s[k] \in T /\ s[k] \in Fds /\ s[k] # NULL
      /\ \A j, k \in 0..n - 1 : s[j] = s[k] => j = k
      /\ l.head = s[0] /\ l.tail = s[n - 1] /\ n > 0
      /\ \A k \in 0..n - 1 : k < n - 1 => l.next[s[k]] = s[k + 1]
      /\ l.next[s[n - 1]] = NULL
      /\ \A k \in 0..n - 1 : k > 0 => l.prev[s[k]] = s[k - 1]
      /\ l.prev[s[0]] = NULL
  <2>1. n > 0
    OBVIOUS
  <2>2. RowSays(T, l, e, n, s)
    BY RowFacts
  <2> QED
    BY <2>1, <2>2 DEF RowSays
<1>2. 0 \in 0..n - 1 /\ n - 1 \in 0..n - 1 /\ m \in Int
  BY <1>1
<1>3. /\ l = [head |-> l.head, tail |-> l.tail, next |-> l.next, prev |-> l.prev]
      /\ l.next \in Links /\ l.prev \in Links
  BY DEF Lists
<1>4. CASE m = 0 /\ n = 1
  <2>1. t = l.head /\ l.head = l.tail
    BY <1>1, <1>4
  <2>2. d = [l EXCEPT !.head = NULL, !.tail = NULL]
    BY <2>1 DEF L!del_timer_sup
  <2>3. d = [head |-> NULL, tail |-> NULL, next |-> l.next, prev |-> l.prev]
    BY <1>3, <2>2 DEF Lists
  <2>4. d \in Lists
    BY <1>3, <2>3 DEF Lists
  <2>5. Unlinked(l, d, n, s, m)
    BY <1>4, <2>3 DEF Unlinked
  <2> QED
    BY <2>3, <2>4, <2>5
<1>5. CASE m = 0 /\ n # 1
  <2>1. t = l.head /\ l.head # l.tail /\ l.next[t] = s[1] /\ 1 \in 0..n - 1
    BY <1>1, <1>2, <1>5
  <2>2. d = [l EXCEPT !.head = l.next[t], !.prev[l.next[t]] = NULL]
    BY <2>1 DEF L!del_timer_sup
  <2>3. d = [head |-> s[1], tail |-> l.tail, next |-> l.next, prev |-> [l.prev EXCEPT ![s[1]] = NULL]]
    BY <1>3, <2>1, <2>2 DEF Lists
  <2>4. d \in Lists
    BY <1>1, <1>3, <2>1, <2>3 DEF Lists, Links
  <2>5. \A k \in 0..n - 1 : k # 1 => s[k] # s[1]
    BY <1>1, <2>1
  <2>6. Unlinked(l, d, n, s, m)
    BY <1>1, <1>3, <1>5, <2>1, <2>3, <2>5 DEF Unlinked, Links
  <2> QED
    BY <1>5, <2>4, <2>6
<1>6. CASE m = n - 1 /\ n # 1
  <2>1. t # l.head /\ t = l.tail /\ l.prev[t] = s[n - 2] /\ n - 2 \in 0..n - 1
    BY <1>1, <1>2, <1>6
  <2>2. d = [l EXCEPT !.tail = l.prev[t], !.next[l.prev[t]] = NULL]
    BY <2>1 DEF L!del_timer_sup
  <2>3. d = [head |-> l.head, tail |-> s[n - 2], next |-> [l.next EXCEPT ![s[n - 2]] = NULL], prev |-> l.prev]
    BY <1>3, <2>1, <2>2 DEF Lists
  <2>4. d \in Lists
    BY <1>1, <1>3, <2>1, <2>3 DEF Lists, Links
  <2>5. \A k \in 0..n - 1 : k # n - 2 => s[k] # s[n - 2]
    BY <1>1, <2>1
  <2>6. Unlinked(l, d, n, s, m)
    BY <1>1, <1>3, <1>6, <2>1, <2>3, <2>5 DEF Unlinked, Links
  <2> QED
    BY <1>6, <2>4, <2>6
<1>7. CASE m # 0 /\ m # n - 1
  <2>1. /\ t # l.head /\ t # l.tail /\ l.prev[t] = s[m - 1] /\ l.next[t] = s[m + 1]
        /\ m - 1 \in 0..n - 1 /\ m + 1 \in 0..n - 1 /\ n # 1
    BY <1>1, <1>2, <1>7
  <2>2. d = [l EXCEPT !.next[l.prev[t]] = l.next[t], !.prev[l.next[t]] = l.prev[t]]
    BY <2>1 DEF L!del_timer_sup
  <2>3. d = [head |-> l.head, tail |-> l.tail, next |-> [l.next EXCEPT ![s[m - 1]] = s[m + 1]],
             prev |-> [l.prev EXCEPT ![s[m + 1]] = s[m - 1]]]
    BY <1>3, <2>1, <2>2 DEF Lists
  <2>4. d \in Lists
    BY <1>1, <1>3, <2>1, <2>3 DEF Lists, Links
  <2>5. \A k \in 0..n - 1 : (k # m - 1 => s[k] # s[m - 1]) /\ (k # m + 1 => s[k] # s[m + 1])
    BY <1>1, <2>1
  <2>6. Unlinked(l, d, n, s, m)
    BY <1>1, <1>3, <1>7, <2>1, <2>3, <2>5 DEF Unlinked, Links
  <2> QED
    BY <2>1, <2>4, <2>6
<1> QED
  BY <1>4, <1>5, <1>6, <1>7

(* What is left of a row without place m. *)
Without(s, n, m) == [k \in 0..n - 2 |-> IF k < m THEN s[k] ELSE s[k + 1]]

LEMMA DelRow ==
    ASSUME NEW T \in SUBSET Fds, NEW l \in Lists, NEW e, NEW n \in Nat, NEW s, Row(l, T, e, n, s),
           \A t \in T : e[t] \in Nat,
           NEW m \in 0..n - 1, NEW d, Unlinked(l, d, n, s, m)
    PROVE  Row(d, T \ {s[m]}, e, n - 1, Without(s, n, m))
<1> DEFINE U == T \ {s[m]}
<1> PICK u : u = Without(s, n, m)
  OBVIOUS
<1>1. /\ \A k \in 0..n - 1 : s[k] \in T /\ s[k] \in Fds /\ s[k] # NULL
      /\ \A j, k \in 0..n - 1 : s[j] = s[k] => j = k
      /\ \A k \in 0..n - 1 : k < n - 1 => l.next[s[k]] = s[k + 1]
      /\ \A k \in 0..n - 1 : k > 0 => l.prev[s[k]] = s[k - 1] /\ e[s[k - 1]] <= e[s[k]]
  <2>1. RowSays(T, l, e, n, s)
    BY RowFacts
  <2> QED
    BY <2>1 DEF RowSays
<1>2. n > 0 /\ l.next[s[n - 1]] = NULL /\ l.prev[s[0]] = NULL
  <2>1. n > 0
    OBVIOUS
  <2>2. RowSays(T, l, e, n, s)
    BY RowFacts
  <2> QED
    BY <2>1, <2>2 DEF RowSays
<1>3. \A t \in T : \E k \in 0..n - 1 : s[k] = t
  BY DEF Row
<1>4. PICK c \in Nat : c = n - 1
  BY <1>2
<1>5. \A k \in 0..c - 1 : /\ k < m => u[k] = s[k]
                          /\ ~(k < m) => u[k] = s[k + 1]
  BY <1>4 DEF Without
<1>16. u = [k \in 0..c - 1 |-> u[k]]
  BY <1>4 DEF Without
<1>6. \A k \in 0..c - 1 : k \in 0..n - 1 /\ k + 1 \in 0..n - 1 /\ k \in Int
  BY <1>4
<1>7. ASSUME NEW k \in 0..c - 1 PROVE u[k] \in U
  <2>1. CASE k < m
    BY <1>1, <1>5, <1>6, <2>1
  <2>2. CASE ~(k < m)
    <3>1. k + 1 # m
      BY <1>6, <2>2
    <3> QED
      BY <1>1, <1>5, <1>6, <2>2, <3>1
  <2> QED
    BY <2>1, <2>2
<1>8. u \in [0..c - 1 -> U]
  BY <1>7, <1>16
<1>9. ASSUME NEW t \in U PROVE \E k \in 0..c - 1 : u[k] = t
  <2>1. PICK k \in 0..n - 1 : s[k] = t
    BY <1>3
  <2>2. k # m
    BY <2>1
  <2>3. CASE k < m
    <3>1. k \in 0..c - 1
      BY <1>4, <2>3
    <3> QED
      BY <1>5, <2>1, <2>3, <3>1
  <2>4. CASE k > m
    <3>1. k - 1 \in 0..c - 1 /\ ~(k - 1 < m) /\ (k - 1) + 1 = k
      BY <1>4, <2>4
    <3> QED
      BY <1>5, <2>1, <3>1
  <2> QED
    BY <2>2, <2>3, <2>4
<1>10. ASSUME NEW j \in 0..c - 1, NEW k \in 0..c - 1, u[j] = u[k] PROVE j = k
  <2>1. CASE j < m /\ k < m
    BY <1>1, <1>5, <1>6, <1>10, <2>1
  <2>2. CASE ~(j < m) /\ ~(k < m)
    <3>1. j + 1 = k + 1
      <4>1. u[j] = s[j + 1] /\ u[k] = s[k + 1]
        BY <1>5, <2>2
      <4>2. j + 1 \in 0..n - 1 /\ k + 1 \in 0..n - 1
        BY <1>6
      <4> QED
        BY <1>1, <1>10, <4>1, <4>2
    <3> QED
      BY <3>1
  <2>3. CASE j < m /\ ~(k < m)
    <3>1. j = k + 1
      <4>1. u[j] = s[j] /\ u[k] = s[k + 1]
        BY <1>5, <2>3
      <4>2. j \in 0..n - 1 /\ k + 1 \in 0..n - 1
        BY <1>6
      <4> QED
        BY <1>1, <1>10, <4>1, <4>2
    <3> QED
      BY <2>3, <3>1
  <2>4. CASE ~(j < m) /\ k < m
    <3>1. j + 1 = k
      <4>1. u[j] = s[j + 1] /\ u[k] = s[k]
        BY <1>5, <2>4
      <4>2. j + 1 \in 0..n - 1 /\ k \in 0..n - 1
        BY <1>6
      <4> QED
        BY <1>1, <1>10, <4>1, <4>2
    <3> QED
      BY <2>4, <3>1
  <2> QED
    BY <2>1, <2>2, <2>3, <2>4
<1>11. d.head = (IF c = 0 THEN NULL ELSE u[0])
  <2>1. CASE c = 0
    <3>1. n = 1 /\ ~(m > 0)
      BY <1>4, <2>1
    <3> QED
      BY <2>1, <3>1 DEF Unlinked
  <2>2. CASE c # 0
    <3>1. 0 \in 0..c - 1 /\ n # 1 /\ (0 < m <=> m > 0) /\ 0 + 1 = 1
      BY <1>4, <2>2
    <3>2. d.head = IF m > 0 THEN s[0] ELSE s[1]
      BY <3>1 DEF Unlinked
    <3>3. u[0] = IF m > 0 THEN s[0] ELSE s[1]
      BY <1>5, <3>1
    <3> QED
      BY <2>2, <3>2, <3>3
  <2> QED
    BY <2>1, <2>2
<1>12. d.tail = (IF c = 0 THEN NULL ELSE u[c - 1])
  <2>1. CASE c = 0
    <3>1. n = 1 /\ ~(m < n - 1)
      BY <1>4, <2>1
    <3> QED
      BY <2>1, <3>1 DEF Unlinked
  <2>2. CASE c # 0
    <3>1. c - 1 \in 0..c - 1 /\ n # 1 /\ (~(c - 1 < m) <=> m < n - 1) /\ (c - 1) + 1 = n - 1 /\ c - 1 = n - 2
      BY <1>4, <2>2
    <3>2. d.tail = IF m < n - 1 THEN s[n - 1] ELSE s[n - 2]
      BY <3>1 DEF Unlinked
    <3>3. u[c - 1] = IF m < n - 1 THEN s[n - 1] ELSE s[n - 2]
      BY <1>5, <3>1
    <3> QED
      BY <2>2, <3>2, <3>3
  <2> QED
    BY <2>1, <2>2
<1>13. ASSUME NEW k \in 0..c - 1 PROVE d.next[u[k]] = (IF k = c - 1 THEN NULL ELSE u[k + 1])
  <2>1. CASE k < m - 1
    <3>1. k < m /\ k + 1 < m /\ k # m /\ k # m - 1 /\ k < n - 1 /\ k # c - 1 /\ k + 1 \in 0..c - 1
      BY <1>4, <2>1
    <3>2. u[k] = s[k] /\ u[k + 1] = s[k + 1] /\ d.next[s[k]] = l.next[s[k]]
      BY <1>5, <1>6, <3>1 DEF Unlinked
    <3> QED
      BY <1>1, <1>6, <3>1, <3>2
  <2>2. CASE k = m - 1
    <3>1. k < m /\ m > 0
      BY <2>2
    <3>2. u[k] = s[m - 1] /\ d.next[s[m - 1]] = IF m < n - 1 THEN s[m + 1] ELSE NULL
      BY <1>5, <2>2, <3>1 DEF Unlinked
    <3>3. CASE m < n - 1
      <4>1. k # c - 1 /\ k + 1 \in 0..c - 1 /\ ~(k + 1 < m) /\ (k + 1) + 1 = m + 1
        BY <1>4, <2>2, <3>3
      <4>2. u[k + 1] = s[m + 1]
        BY <1>5, <4>1
      <4> QED
        BY <3>2, <3>3, <4>1, <4>2
    <3>4. CASE ~(m < n - 1)
      <4>1. k = c - 1
        BY <1>4, <2>2, <3>4
      <4> QED
        BY <3>2, <3>4, <4>1
    <3> QED
      BY <3>3, <3>4
  <2>3. CASE k >= m
    <3>1. ~(k < m) /\ k + 1 # m /\ k + 1 # m - 1 /\ k + 1 \in 0..n - 1
      BY <1>4, <2>3
    <3>2. u[k] = s[k + 1] /\ d.next[s[k + 1]] = l.next[s[k + 1]]
      BY <1>5, <3>1 DEF Unlinked
    <3>3. CASE k = c - 1
      <4>1. k + 1 = n - 1
        BY <1>4, <3>3
      <4> QED
        BY <1>2, <3>2, <3>3, <4>1
    <3>4. CASE k # c - 1
      <4>1. k + 1 \in 0..c - 1 /\ k + 1 < n - 1 /\ ~(k + 1 < m)
        BY <1>4, <2>3, <3>4
      <4>2. u[k + 1] = s[(k + 1) + 1] /\ l.next[s[k + 1]] = s[(k + 1) + 1]
        BY <1>1, <1>5, <3>1, <4>1
      <4> QED
        BY <3>2, <3>4, <4>2
    <3> QED
      BY <3>3, <3>4
  <2> QED
    BY <2>1, <2>2, <2>3
<1>14. ASSUME NEW k \in 0..c - 1
       PROVE  /\ d.prev[u[k]] = (IF k = 0 THEN NULL ELSE u[k - 1])
              /\ k > 0 => e[u[k - 1]] <= e[u[k]]
  <2>1. CASE k < m
    <3>1. k # m /\ k # m + 1 /\ k \in 0..n - 1
      BY <1>4, <2>1
    <3>2. u[k] = s[k] /\ d.prev[s[k]] = l.prev[s[k]]
      BY <1>5, <2>1, <3>1 DEF Unlinked
    <3>3. CASE k = 0
      BY <1>2, <3>2, <3>3
    <3>4. CASE k > 0
      <4>1. k - 1 \in 0..c - 1 /\ k - 1 < m /\ k # 0
        BY <2>1, <3>4
      <4>2. u[k - 1] = s[k - 1]
        BY <1>5, <4>1
      <4> QED
        BY <1>1, <3>1, <3>2, <3>4, <4>1, <4>2
    <3> QED
      BY <3>3, <3>4
  <2>2. CASE k = m
    <3>1. ~(k < m) /\ m < n - 1 /\ m + 1 \in 0..n - 1 /\ m + 1 > 0 /\ (m + 1) - 1 = m
      BY <1>4, <2>2
    <3>2. u[k] = s[m + 1] /\ d.prev[s[m + 1]] = IF m > 0 THEN s[m - 1] ELSE NULL
      BY <1>5, <2>2, <3>1 DEF Unlinked
    <3>3. e[s[m]] <= e[s[m + 1]]
      BY <1>1, <3>1
    <3>4. CASE k = 0
      BY <2>2, <3>2, <3>4
    <3>5. CASE k > 0
      <4>1. k - 1 \in 0..c - 1 /\ k - 1 < m /\ k # 0 /\ m > 0 /\ m \in 0..n - 1 /\ m - 1 \in 0..n - 1
        BY <2>2, <3>5
      <4>2. u[k - 1] = s[m - 1]
        BY <1>5, <2>2, <4>1
      <4>3. e[s[m - 1]] <= e[s[m]]
        BY <1>1, <4>1
      <4>4. e[s[m - 1]] \in Nat /\ e[s[m]] \in Nat /\ e[s[m + 1]] \in Nat
        BY <1>1, <3>1, <4>1
      <4>5. e[s[m - 1]] <= e[s[m + 1]]
        BY <3>3, <4>3, <4>4
      <4> QED
        BY <3>2, <4>1, <4>2, <4>5
    <3> QED
      BY <3>4, <3>5
  <2>3. CASE k > m
    <3>1. /\ ~(k < m) /\ k + 1 # m /\ k + 1 # m + 1 /\ k + 1 \in 0..n - 1 /\ k + 1 > 0
          /\ k # 0 /\ k - 1 \in 0..c - 1 /\ ~(k - 1 < m) /\ (k - 1) + 1 = k /\ (k + 1) - 1 = k
      BY <1>4, <2>3
    <3>2. u[k] = s[k + 1] /\ u[k - 1] = s[k] /\ d.prev[s[k + 1]] = l.prev[s[k + 1]]
      BY <1>5, <3>1 DEF Unlinked
    <3>3. l.prev[s[k + 1]] = s[k] /\ e[s[k]] <= e[s[k + 1]]
      BY <1>1, <3>1
    <3> QED
      BY <3>1, <3>2, <3>3
  <2> QED
    BY <2>1, <2>2, <2>3
<1>15. Row(d, U, e, c, u)
  <2> HIDE DEF U
  <2> QED
    BY <1>8, <1>9, <1>10, <1>11, <1>12, <1>13, <1>14 DEF Row
<1> QED
  BY <1>4, <1>15

(* The place for timer t in a row: behind the timers that expire before it. *)
Place(e, n, s, t, m) ==
    /\ \A k \in 0..n - 1 : k < m => e[s[k]] < e[t]
    /\ m < n => e[t] <= e[s[m]]

LEMMA WalkFindsPlace ==
    ASSUME NEW T \in SUBSET Fds, NEW l \in Lists, NEW e \in [Fds -> Nat], NEW n \in Nat, NEW s,
           Row(l, T, e, n, s), n = Cardinality(T), NEW t \in Fds, t \notin T
    PROVE  \E m \in 0..n : /\ Place(e, n, s, t, m)
                           /\ m < n => L!FirstAbove(l, t, e) = s[m]
                           /\ m = n => L!FirstAbove(l, t, e) = NULL
<1>1. PICK c \in Nat : c = Cardinality(Fds) /\ n + 1 <= c
  <2>1. IsFiniteSet(T) /\ Cardinality(Fds) \in Nat
    BY OpenCount
  <2>2. Cardinality(T \cup {t}) = n + 1
    BY <2>1, FS_AddElement
  <2>3. Cardinality(T \cup {t}) <= Cardinality(Fds)
    BY FdAssumption, FS_Subset
  <2> QED
    BY <2>1, <2>2, <2>3
<1>2. PICK at : at = L!Chain(l)
  OBVIOUS
<1>3. WalksRow(at, c, s, n)
  <2>1. n <= c
    BY <1>1
  <2>2. WalksRow(L!Chain(l), c, s, n)
    BY <1>1, <2>1, ChainOfRow
  <2> QED
    BY <1>2, <2>2
<1>4. DOMAIN at = 0..c /\ at[n] = NULL /\ \A k \in 0..n - 1 : at[k] = s[k]
  BY <1>1, <1>3 DEF WalksRow
<1> DEFINE above == {k \in 0..c : at[k] = NULL \/ e[at[k]] >= e[t]}
<1>5. L!FirstAbove(l, t, e) = at[Min(above)]
  BY <1>2, <1>4, SameOperators DEF L!FirstAbove
<1>6. n \in above
  BY <1>1, <1>4
<1>7. above \in SUBSET Nat
  OBVIOUS
<1>8. PICK m \in above : m = Min(above) /\ \A k \in above : m <= k
  <2> HIDE DEF above
  <2> QED
    BY <1>6, <1>7, LowestNat
<1>9. m \in 0..n
  <2>1. m \in Nat /\ m <= n
    BY <1>6, <1>7, <1>8
  <2> QED
    BY <2>1
<1>10. \A k \in 0..n - 1 : s[k] \in T /\ s[k] \in Fds /\ s[k] # NULL
  <2>1. RowSays(T, l, e, n, s)
    BY RowFacts
  <2> QED
    BY <2>1 DEF RowSays
<1>11. ASSUME NEW k \in 0..n - 1, k < m PROVE e[s[k]] < e[t]
  <2>1. k \notin above
    <3>1. ~(m <= k)
      BY <1>9, <1>11
    <3> HIDE DEF above
    <3> QED
      BY <1>8, <3>1
  <2>2. k \in 0..c /\ ~(e[s[k]] >= e[t])
    BY <1>1, <1>4, <1>10, <2>1
  <2>3. e[s[k]] \in Nat /\ e[t] \in Nat
    BY <1>10
  <2> QED
    BY <2>2, <2>3
<1>12. ASSUME m < n PROVE e[t] <= e[s[m]] /\ at[m] = s[m]
  <2>1. m \in 0..n - 1
    BY <1>9, <1>12
  <2>2. at[m] = s[m] /\ s[m] # NULL
    BY <1>4, <1>10, <2>1
  <2>3. e[s[m]] >= e[t]
    BY <1>8, <2>2
  <2>4. e[s[m]] \in Nat /\ e[t] \in Nat
    BY <1>10, <2>1
  <2> QED
    BY <2>2, <2>3, <2>4
<1>13. L!FirstAbove(l, t, e) = at[m]
  <2> HIDE DEF above
  <2> QED
    BY <1>5, <1>8
<1> QED
  BY <1>4, <1>9, <1>11, <1>12, <1>13 DEF Place

(* What add_timer does to the links of a row to whose place m it puts t. *)
LinkedAt(l, d, n, s, m, t) ==
    /\ d.head = IF m = 0 THEN t ELSE s[0]
    /\ d.tail = IF m = n THEN t ELSE s[n - 1]
    /\ d.next[t] = IF m = n THEN NULL ELSE s[m]
    /\ d.prev[t] = IF m = 0 THEN NULL ELSE s[m - 1]
    /\ \A k \in 0..n - 1 : k # m - 1 => d.next[s[k]] = l.next[s[k]]
    /\ \A k \in 0..n - 1 : k # m => d.prev[s[k]] = l.prev[s[k]]
    /\ m > 0 => d.next[s[m - 1]] = t
    /\ m < n => d.prev[s[m]] = t

LEMMA AddLinks ==
    ASSUME NEW T \in SUBSET Fds, NEW l \in Lists, NEW e \in [Fds -> Nat], NEW n \in Nat, NEW s,
           Row(l, T, e, n, s), n = Cardinality(T), NEW t \in Fds, t \notin T,
           n = 0 => l.next[t] = NULL /\ l.prev[t] = NULL
    PROVE  /\ L!add_timer(l, t, e) \in Lists
           /\ \E m \in 0..n : /\ Place(e, n, s, t, m)
                              /\ LinkedAt(l, L!add_timer(l, t, e), n, s, m, t)
<1> PICK d : d = L!add_timer(l, t, e)
  OBVIOUS
<1> PICK m \in 0..n : /\ Place(e, n, s, t, m)
                      /\ m < n => L!FirstAbove(l, t, e) = s[m]
                      /\ m = n => L!FirstAbove(l, t, e) = NULL
  BY WalkFindsPlace
<1> PICK above : above = L!FirstAbove(l, t, e)
  OBVIOUS
<1>1. /\ \A k \in 0..n - 1 : s[k] \in T /\ s[k] \in Fds /\ s[k] # NULL /\ s[k] # t
      /\ \A j, k \in 0..n - 1 : s[j] = s[k] => j = k
      /\ n = 0 => l.head = NULL
      /\ n > 0 => l.head = s[0] /\ l.tail = s[n - 1]
      /\ \A k \in 0..n - 1 : k > 0 => l.prev[s[k]] = s[k - 1]
  <2>1. RowSays(T, l, e, n, s)
    BY RowFacts
  <2> QED
    BY <2>1 DEF RowSays
<1>2. /\ l = [head |-> l.head, tail |-> l.tail, next |-> l.next, prev |-> l.prev]
      /\ l.next \in Links /\ l.prev \in Links /\ l.head \in Fds \cup {NULL} /\ l.tail \in Fds \cup {NULL}
  BY DEF Lists
<1> SUFFICES d \in Lists /\ LinkedAt(l, d, n, s, m, t)
  OBVIOUS
<1>3. CASE n = 0
  <2>1. d = [l EXCEPT !.head = t, !.tail = t]
    BY <1>1, <1>3 DEF L!add_timer
  <2>2. d = [head |-> t, tail |-> t, next |-> l.next, prev |-> l.prev]
    BY <1>2, <2>1 DEF Lists
  <2>3. d \in Lists
    BY <1>2, <2>2 DEF Lists
  <2>4. LinkedAt(l, d, n, s, m, t)
    BY <1>3, <2>2 DEF LinkedAt
  <2> QED
    BY <2>3, <2>4
<1>4. CASE n > 0 /\ m = 0
  <2>1. above = l.head /\ l.head = s[0] /\ l.head # NULL /\ 0 \in 0..n - 1
    BY <1>1, <1>4
  <2>2. d = [l EXCEPT !.prev[l.head] = t, !.next[t] = l.head, !.prev[t] = NULL, !.head = t]
    BY <2>1 DEF L!add_timer
  <2>3. d = [head |-> t, tail |-> l.tail, next |-> [l.next EXCEPT ![t] = s[0]],
             prev |-> [[l.prev EXCEPT ![s[0]] = t] EXCEPT ![t] = NULL]]
    BY <1>2, <2>1, <2>2 DEF Lists
  <2>4. d \in Lists
    BY <1>1, <1>2, <2>1, <2>3 DEF Lists, Links
  <2>5. \A k \in 0..n - 1 : k # 0 => s[k] # s[0]
    BY <1>1, <2>1
  <2>6. LinkedAt(l, d, n, s, m, t)
    BY <1>1, <1>2, <1>4, <2>1, <2>3, <2>5 DEF LinkedAt, Links
  <2> QED
    BY <2>4, <2>6
<1>5. CASE n > 0 /\ m # 0 /\ m # n
  <2>1. /\ above = s[m] /\ above # NULL /\ above # l.head /\ l.head # NULL
        /\ l.prev[above] = s[m - 1] /\ m - 1 \in 0..n - 1 /\ m \in 0..n - 1
    <3>1. m - 1 \in 0..n - 1 /\ m \in 0..n - 1 /\ m < n /\ 0 \in 0..n - 1 /\ m > 0
      BY <1>5
    <3> QED
      BY <1>1, <1>5, <3>1
  <2>2. d = [l EXCEPT !.next[l.prev[above]] = t, !.next[t] = above,
                      !.prev[above] = t, !.prev[t] = l.prev[above]]
    BY <2>1 DEF L!add_timer
  <2>3. d = [head |-> l.head, tail |-> l.tail,
             next |-> [[l.next EXCEPT ![s[m - 1]] = t] EXCEPT ![t] = s[m]],
             prev |-> [[l.prev EXCEPT ![s[m]] = t] EXCEPT ![t] = s[m - 1]]]
    BY <1>2, <2>1, <2>2 DEF Lists
  <2>4. d \in Lists
    BY <1>1, <1>2, <2>1, <2>3 DEF Lists, Links
  <2>5. \A k \in 0..n - 1 : (k # m - 1 => s[k] # s[m - 1]) /\ (k # m => s[k] # s[m])
    BY <1>1, <2>1
  <2>6. LinkedAt(l, d, n, s, m, t)
    BY <1>1, <1>2, <1>5, <2>1, <2>3, <2>5 DEF LinkedAt, Links
  <2> QED
    BY <2>4, <2>6
<1>6. CASE n > 0 /\ m = n
  <2>1. above = NULL /\ l.head # NULL /\ l.tail = s[n - 1] /\ n - 1 \in 0..n - 1 /\ 0 \in 0..n - 1
    BY <1>1, <1>6
  <2>2. d = [l EXCEPT !.next[l.tail] = t, !.prev[t] = l.tail, !.next[t] = NULL, !.tail = t]
    BY <2>1 DEF L!add_timer
  <2>3. d = [head |-> l.head, tail |-> t,
             next |-> [[l.next EXCEPT ![s[n - 1]] = t] EXCEPT ![t] = NULL],
             prev |-> [l.prev EXCEPT ![t] = s[n - 1]]]
    BY <1>2, <2>1, <2>2 DEF Lists
  <2>4. d \in Lists
    BY <1>1, <1>2, <2>1, <2>3 DEF Lists, Links
  <2>5. \A k \in 0..n - 1 : k # n - 1 => s[k] # s[n - 1]
    BY <1>1, <2>1
  <2>6. LinkedAt(l, d, n, s, m, t)
    BY <1>1, <1>2, <1>6, <2>1, <2>3, <2>5 DEF LinkedAt, Links
  <2> QED
    BY <2>4, <2>6
<1> QED
  BY <1>3, <1>4, <1>5, <1>6

(* The row with t at place m. *)
With(s, n, m, t) == [k \in 0..n |-> IF k < m THEN s[k] ELSE IF k = m THEN t ELSE s[k - 1]]

LEMMA AddRow ==
    ASSUME NEW T \in SUBSET Fds, NEW l \in Lists, NEW e \in [Fds -> Nat], NEW n \in Nat, NEW s,
           Row(l, T, e, n, s), NEW t \in Fds, t \notin T, NEW d,
           NEW m \in 0..n, Place(e, n, s, t, m), LinkedAt(l, d, n, s, m, t)
    PROVE  Row(d, T \cup {t}, e, n + 1, With(s, n, m, t))
<1> DEFINE U == T \cup {t}
<1> PICK u : u = With(s, n, m, t)
  OBVIOUS
<1> PICK c \in Nat : c = n + 1
  OBVIOUS
<1>1. /\ \A k \in 0..n - 1 : s[k] \in T /\ s[k] # t
      /\ \A j, k \in 0..n - 1 : s[j] = s[k] => j = k
      /\ \A k \in 0..n - 1 : k < n - 1 => l.next[s[k]] = s[k + 1]
      /\ \A k \in 0..n - 1 : k > 0 => l.prev[s[k]] = s[k - 1] /\ e[s[k - 1]] <= e[s[k]]
      /\ n > 0 => l.next[s[n - 1]] = NULL /\ l.prev[s[0]] = NULL
  <2>1. RowSays(T, l, e, n, s)
    BY RowFacts
  <2> QED
    BY <2>1 DEF RowSays
<1>2. \A x \in T : \E k \in 0..n - 1 : s[k] = x
  BY DEF Row
<1>3. \A k \in 0..c - 1 :
          /\ k < m => u[k] = s[k] /\ k \in 0..n - 1
          /\ k = m => u[k] = t
          /\ k > m => u[k] = s[k - 1] /\ k - 1 \in 0..n - 1
  BY DEF With
<1>4. u = [k \in 0..c - 1 |-> u[k]]
  BY DEF With
<1>5. ASSUME NEW k \in 0..c - 1 PROVE u[k] \in U
  <2>1. k < m \/ k = m \/ k > m
    OBVIOUS
  <2> QED
    BY <1>1, <1>3, <2>1
<1>6. u \in [0..c - 1 -> U]
  BY <1>4, <1>5
<1>7. ASSUME NEW x \in U PROVE \E k \in 0..c - 1 : u[k] = x
  <2>1. CASE x = t
    <3>1. m \in 0..c - 1
      OBVIOUS
    <3> QED
      BY <1>3, <2>1, <3>1
  <2>2. CASE x # t
    <3>1. PICK k \in 0..n - 1 : s[k] = x
      BY <1>2, <2>2
    <3>2. CASE k < m
      <4>1. k \in 0..c - 1
        OBVIOUS
      <4> QED
        BY <1>3, <3>1, <3>2, <4>1
    <3>3. CASE k >= m
      <4>1. k + 1 \in 0..c - 1 /\ k + 1 > m /\ (k + 1) - 1 = k
        BY <3>3
      <4> QED
        BY <1>3, <3>1, <4>1
    <3> QED
      BY <3>2, <3>3
  <2> QED
    BY <2>1, <2>2
<1>8. ASSUME NEW j \in 0..c - 1, NEW k \in 0..c - 1, u[j] = u[k], j < k PROVE FALSE
  <2>1. CASE k < m
    <3>1. j < m
      BY <1>8, <2>1
    <3>2. j = k
      BY <1>1, <1>3, <1>8, <2>1, <3>1
    <3> QED
      BY <1>8, <3>2
  <2>2. CASE k = m
    <3>1. j < m
      BY <1>8, <2>2
    <3> QED
      BY <1>1, <1>3, <1>8, <2>2, <3>1
  <2>3. CASE k > m /\ j < m
    <3>1. j = k - 1
      BY <1>1, <1>3, <1>8, <2>3
    <3> QED
      BY <2>3, <3>1
  <2>4. CASE k > m /\ j = m
    BY <1>1, <1>3, <1>8, <2>4
  <2>5. CASE k > m /\ j > m
    <3>1. j - 1 = k - 1
      BY <1>1, <1>3, <1>8, <2>5
    <3> QED
      BY <1>8, <3>1
  <2> QED
    BY <2>1, <2>2, <2>3, <2>4, <2>5
<1>9. \A j, k \in 0..c - 1 : u[j] = u[k] => j = k
  <2> SUFFICES ASSUME NEW j \in 0..c - 1, NEW k \in 0..c - 1, u[j] = u[k], j # k PROVE FALSE
    OBVIOUS
  <2>1. j < k \/ k < j
    OBVIOUS
  <2> QED
    BY <1>8, <2>1
<1>10. d.head = u[0]
  <2>1. 0 \in 0..c - 1 /\ (m # 0 => 0 < m)
    OBVIOUS
  <2> QED
    BY <1>3, <2>1 DEF LinkedAt
<1>11. d.tail = u[c - 1]
  <2>1. n \in 0..c - 1 /\ c - 1 = n /\ (m # n => n > m)
    OBVIOUS
  <2> QED
    BY <1>3, <2>1 DEF LinkedAt
<1>12. ASSUME NEW k \in 0..c - 1 PROVE d.next[u[k]] = (IF k = c - 1 THEN NULL ELSE u[k + 1])
  <2>1. CASE k < m - 1
    <3>1. k < m /\ k + 1 < m /\ k # m - 1 /\ k < n - 1 /\ k # c - 1 /\ k + 1 \in 0..c - 1 /\ k \in 0..n - 1
      BY <2>1
    <3>2. u[k] = s[k] /\ u[k + 1] = s[k + 1]
      BY <1>3, <3>1
    <3>3. d.next[s[k]] = l.next[s[k]]
      BY <3>1 DEF LinkedAt
    <3> QED
      BY <1>1, <3>1, <3>2, <3>3
  <2>2. CASE k = m - 1
    <3>1. k < m /\ m > 0 /\ k # c - 1 /\ k + 1 \in 0..c - 1 /\ k + 1 = m
      BY <2>2
    <3>2. u[k] = s[m - 1] /\ u[k + 1] = t
      BY <1>3, <2>2, <3>1
    <3>3. d.next[s[m - 1]] = t
      BY <3>1 DEF LinkedAt
    <3> QED
      BY <3>1, <3>2, <3>3
  <2>3. CASE k = m
    <3>1. u[k] = t /\ d.next[t] = IF m = n THEN NULL ELSE s[m]
      BY <1>3, <2>3 DEF LinkedAt
    <3>2. CASE m = n
      BY <2>3, <3>1, <3>2
    <3>3. CASE m # n
      <4>1. k # c - 1 /\ k + 1 \in 0..c - 1 /\ k + 1 > m /\ (k + 1) - 1 = m
        BY <2>3, <3>3
      <4>2. u[k + 1] = s[m]
        BY <1>3, <4>1
      <4> QED
        BY <3>1, <3>3, <4>1, <4>2
    <3> QED
      BY <3>2, <3>3
  <2>4. CASE k > m
    <3>1. k - 1 \in 0..n - 1 /\ k - 1 # m - 1
      BY <2>4
    <3>2. u[k] = s[k - 1] /\ d.next[s[k - 1]] = l.next[s[k - 1]]
      BY <1>3, <2>4, <3>1 DEF LinkedAt
    <3>3. CASE k = c - 1
      <4>1. k - 1 = n - 1 /\ n > 0
        BY <2>4, <3>3
      <4> QED
        BY <1>1, <3>2, <3>3, <4>1
    <3>4. CASE k # c - 1
      <4>1. k + 1 \in 0..c - 1 /\ k + 1 > m /\ (k + 1) - 1 = (k - 1) + 1 /\ k - 1 < n - 1
        BY <2>4, <3>4
      <4>2. u[k + 1] = s[(k - 1) + 1]
        BY <1>3, <4>1
      <4>3. l.next[s[k - 1]] = s[(k - 1) + 1]
        BY <1>1, <3>1, <4>1
      <4> QED
        BY <3>2, <3>4, <4>2, <4>3
    <3> QED
      BY <3>3, <3>4
  <2> QED
    BY <2>1, <2>2, <2>3, <2>4
<1>13. ASSUME NEW k \in 0..c - 1
       PROVE  /\ d.prev[u[k]] = (IF k = 0 THEN NULL ELSE u[k - 1])
              /\ k > 0 => e[u[k - 1]] <= e[u[k]]
  <2>1. CASE k < m
    <3>1. k # m /\ k \in 0..n - 1
      BY <2>1
    <3>2. u[k] = s[k] /\ d.prev[s[k]] = l.prev[s[k]]
      BY <1>3, <2>1, <3>1 DEF LinkedAt
    <3>3. CASE k = 0
      BY <1>1, <2>1, <3>2, <3>3
    <3>4. CASE k > 0
      <4>1. k - 1 \in 0..c - 1 /\ k - 1 < m /\ k # 0
        BY <2>1, <3>4
      <4>2. u[k - 1] = s[k - 1]
        BY <1>3, <4>1
      <4> QED
        BY <1>1, <3>1, <3>2, <3>4, <4>1, <4>2
    <3> QED
      BY <3>3, <3>4
  <2>2. CASE k = m
    <3>1. u[k] = t /\ d.prev[t] = IF m = 0 THEN NULL ELSE s[m - 1]
      BY <1>3, <2>2 DEF LinkedAt
    <3>2. CASE k = 0
      BY <2>2, <3>1, <3>2
    <3>3. CASE k > 0
      <4>1. k - 1 \in 0..c - 1 /\ k - 1 < m /\ k # 0 /\ m # 0 /\ k - 1 \in 0..n - 1 /\ k - 1 = m - 1
        BY <2>2, <3>3
      <4>2. u[k - 1] = s[k - 1]
        BY <1>3, <4>1
      <4>3. e[s[k - 1]] < e[t]
        BY <4>1 DEF Place
      <4>4. e[s[k - 1]] \in Nat /\ e[t] \in Nat
        BY <1>1, <4>1
      <4>5. e[s[k - 1]] <= e[t]
        BY <4>3, <4>4
      <4> QED
        BY <3>1, <4>1, <4>2, <4>5
    <3> QED
      BY <3>2, <3>3
  <2>3. CASE k = m + 1
    <3>1. k > m /\ m < n /\ k - 1 = m /\ m \in 0..n - 1 /\ k # 0 /\ k - 1 \in 0..c - 1
      BY <2>3
    <3>2. u[k] = s[m] /\ u[k - 1] = t
      BY <1>3, <3>1
    <3>3. d.prev[s[m]] = t
      BY <3>1 DEF LinkedAt
    <3>4. e[t] <= e[s[m]]
      BY <3>1 DEF Place
    <3> QED
      BY <3>1, <3>2, <3>3, <3>4
  <2>4. CASE k > m + 1
    <3>1. /\ k > m /\ k - 1 \in 0..n - 1 /\ k - 1 # m /\ k - 1 > 0 /\ k # 0
          /\ k - 1 \in 0..c - 1 /\ k - 1 > m
      BY <2>4
    <3>2. u[k] = s[k - 1] /\ u[k - 1] = s[(k - 1) - 1]
      BY <1>3, <3>1
    <3>3. d.prev[s[k - 1]] = l.prev[s[k - 1]]
      BY <3>1 DEF LinkedAt
    <3>4. l.prev[s[k - 1]] = s[(k - 1) - 1] /\ e[s[(k - 1) - 1]] <= e[s[k - 1]]
      BY <1>1, <3>1
    <3> QED
      BY <3>1, <3>2, <3>3, <3>4
  <2> QED
    BY <2>1, <2>2, <2>3, <2>4
<1>14. Row(d, U, e, c, u)
  <2>1. c # 0
    OBVIOUS
  <2> HIDE DEF U
  <2> QED
    BY <1>6, <1>7, <1>9, <1>10, <1>11, <1>12, <1>13, <2>1 DEF Row
<1> QED
  BY <1>14

(* The timers of T are in a row. *)
InRow(l, T, e) == l \in Lists /\ \E s : Row(l, T, e, Cardinality(T), s)

(* del_timer_sup leaves the row of the other timers, in place of a single  *)
(* timer an empty list, with the links of that timer as they were.         *)
LEMMA DelKeepsRow ==
    ASSUME NEW T \in SUBSET Fds, NEW l, NEW e \in [Fds -> Nat], InRow(l, T, e), NEW t \in T
    PROVE  /\ InRow(L!del_timer_sup(l, t), T \ {t}, e)
           /\ T \ {t} = {} => /\ L!del_timer_sup(l, t).next[t] = NULL
                              /\ L!del_timer_sup(l, t).prev[t] = NULL
<1>1. PICK n \in Nat : n = Cardinality(T)
  BY OpenCount
<1>2. PICK s : Row(l, T, e, n, s) /\ l \in Lists
  BY <1>1 DEF InRow
<1>3. PICK m \in 0..n - 1 : s[m] = t
  BY <1>2 DEF Row
<1>4. PICK d : d = L!del_timer_sup(l, s[m])
  OBVIOUS
<1>5. d \in Lists /\ Unlinked(l, d, n, s, m) /\ (n = 1 => d.next = l.next /\ d.prev = l.prev)
  <2> DEFINE x == L!del_timer_sup(l, s[m])
  <2>1. x \in Lists /\ Unlinked(l, x, n, s, m) /\ (n = 1 => x.next = l.next /\ x.prev = l.prev)
    BY <1>2, DelUnlinks
  <2> QED
    BY <1>4, <2>1
<1>6. Row(d, T \ {s[m]}, e, n - 1, Without(s, n, m))
  BY <1>2, <1>5, DelRow
<1>7. Cardinality(T \ {t}) = n - 1
  BY <1>1, OpenCount, FS_RemoveElement
<1>8. ASSUME T \ {t} = {} PROVE d.next[t] = NULL /\ d.prev[t] = NULL
  <2>1. n = 1 /\ m = 0
    <3>1. n - 1 = 0
      BY <1>7, <1>8, FS_EmptySet
    <3>2. n = 1
      BY <3>1
    <3> QED
      BY <3>2
  <2>2. RowSays(T, l, e, n, s)
    BY <1>2, RowFacts
  <2>3. l.next[s[0]] = NULL /\ l.prev[s[0]] = NULL
    BY <2>1, <2>2 DEF RowSays
  <2> QED
    BY <1>3, <1>5, <2>1, <2>3
<1>9. InRow(d, T \ {t}, e)
  BY <1>3, <1>5, <1>6, <1>7 DEF InRow
<1> QED
  BY <1>3, <1>4, <1>8, <1>9

(* add_timer gives the row of all the timers. *)
LEMMA AddKeepsRow ==
    ASSUME NEW T \in SUBSET Fds, NEW l, NEW e \in [Fds -> Nat], InRow(l, T, e),
           NEW t \in Fds, t \notin T, T = {} => l.next[t] = NULL /\ l.prev[t] = NULL
    PROVE  InRow(L!add_timer(l, t, e), T \cup {t}, e)
<1>1. PICK n \in Nat : n = Cardinality(T)
  BY OpenCount
<1>2. PICK s : Row(l, T, e, n, s) /\ l \in Lists
  BY <1>1 DEF InRow
<1>3. PICK d : d = L!add_timer(l, t, e)
  OBVIOUS
<1>4. n = 0 => l.next[t] = NULL /\ l.prev[t] = NULL
  BY <1>1, OpenCount, FS_EmptySet
<1>5. d \in Lists /\ \E m \in 0..n : Place(e, n, s, t, m) /\ LinkedAt(l, d, n, s, m, t)
  BY <1>1, <1>2, <1>3, <1>4, AddLinks
<1>6. PICK m \in 0..n : Place(e, n, s, t, m) /\ LinkedAt(l, d, n, s, m, t)
  BY <1>5
<1>7. Row(d, T \cup {t}, e, n + 1, With(s, n, m, t))
  BY <1>2, <1>6, AddRow
<1>8. Cardinality(T \cup {t}) = n + 1
  BY <1>1, OpenCount, FS_AddElement
<1> QED
  BY <1>3, <1>5, <1>7, <1>8 DEF InRow

(* Where times and links change without changing the order of the timers   *)
(* of the row or their links, the row stays.                               *)
LEMMA SameRow ==
    ASSUME NEW T \in SUBSET Fds, NEW l, NEW e, InRow(l, T, e), NEW f, NEW d \in Lists,
           \A x, y \in T : e[x] <= e[y] => f[x] <= f[y],
           d.head = l.head, d.tail = l.tail,
           \A x \in T : d.next[x] = l.next[x] /\ d.prev[x] = l.prev[x]
    PROVE  InRow(d, T, f)
<1>1. PICK n \in Nat : n = Cardinality(T)
  BY OpenCount
<1>2. PICK s : Row(l, T, e, n, s)
  BY <1>1 DEF InRow
<1>3. \A k \in 0..n - 1 : s[k] \in T /\ (k > 0 => s[k - 1] \in T)
  <2>1. \A k \in 0..n - 1 : s[k] \in T
    BY <1>2 DEF Row
  <2>2. \A k \in 0..n - 1 : k > 0 => k - 1 \in 0..n - 1
    OBVIOUS
  <2> QED
    BY <2>1, <2>2
<1>4. Row(d, T, f, n, s)
  BY <1>2, <1>3 DEF Row
<1> QED
  BY <1>1, <1>4 DEF InRow

(* The timers are those of the open connections. *)
RowInv == live = open /\ InRow(list, open, expire)

LEMMA InitRow == Init => RowInv
<1> SUFFICES ASSUME Init PROVE RowInv
  OBVIOUS
<1>1. list \in Lists /\ list.head = NULL /\ list.tail = NULL
  BY DEF Init, L!EmptyList, Lists, Links
<1>2. Cardinality(open) = 0 /\ open = {} /\ live = open
  BY FS_EmptySet DEF Init
<1>3. PICK n \in Nat : n = 0
  OBVIOUS
<1> DEFINE s == [k \in 0..n - 1 |-> NULL]
<1>4. 0..n - 1 = {}
  BY <1>3
<1>5. Row(list, open, expire, n, s)
  BY <1>1, <1>2, <1>3, <1>4 DEF Row
<1> QED
  BY <1>1, <1>2, <1>3, <1>5 DEF RowInv, InRow

(* Time, data and signals leave the row as it is, a new connection, data   *)
(* and a close change it by the functions of the list.                     *)
LEMMA RowStep == IInv /\ RowInv /\ [Next]_vars => RowInv'
<1> SUFFICES ASSUME IInv, RowInv, [Next]_vars PROVE RowInv'
  OBVIOUS
<1>1. /\ open \subseteq Fds /\ live = open /\ InRow(list, open, expire) /\ list \in Lists
      /\ expire \in [Fds -> 0..Idle] /\ expire \in [Fds -> Nat] /\ Idle \in Nat
  BY BoundAssumption DEF IInv, TypeOK, RowInv, InRow
<1>2. ASSUME UNCHANGED <<list, live, open, expire>> PROVE RowInv'
  BY <1>1, <1>2 DEF RowInv
<1>3. CASE DealConnection
  <2>1. Handles(listenfd)
    BY <1>3 DEF DealConnection
  <2>2. backlog > 0
    BY <2>1 DEF IInv, SomebodyWaits, Handles, TypeOK
  <2>3. PICK fd \in Fds \ open : fd = Min(Fds \ open)
    BY <2>2, FreeFd DEF IInv
  <2>4. /\ open' = open \cup {fd} /\ live' = live \cup {fd}
        /\ expire' = [expire EXCEPT ![fd] = Idle]
        /\ list' = L!add_timer(L!NewTimer(list, fd), fd, expire')
    BY <1>3, <2>3 DEF DealConnection
  <2>5. PICK l, e : l = L!NewTimer(list, fd) /\ e = expire'
    OBVIOUS
  <2>6. /\ l \in Lists /\ l.head = list.head /\ l.tail = list.tail
        /\ l.next = [list.next EXCEPT ![fd] = NULL] /\ l.prev = [list.prev EXCEPT ![fd] = NULL]
    BY <1>1, <2>5 DEF L!NewTimer, Lists, Links
  <2>7. list.next \in Links /\ list.prev \in Links
    BY <1>1 DEF Lists
  <2>8. \A x \in open : l.next[x] = list.next[x] /\ l.prev[x] = list.prev[x]
    BY <1>1, <2>6, <2>7 DEF Links
  <2>9. l.next[fd] = NULL /\ l.prev[fd] = NULL
    BY <2>6, <2>7 DEF Links
  <2>10. e \in [Fds -> Nat] /\ \A x \in open : e[x] = expire[x]
    BY <1>1, <2>4, <2>5
  <2>11. InRow(l, open, e)
    <3>1. \A x, y \in open : expire[x] <= expire[y] => e[x] <= e[y]
      BY <2>10
    <3>2. PICK T \in SUBSET Fds : T = open
      BY <1>1
    <3>3. InRow(l, T, e)
      BY <1>1, <2>6, <2>8, <3>1, <3>2, SameRow
    <3> QED
      BY <3>2, <3>3
  <2>12. InRow(L!add_timer(l, fd, e), open \cup {fd}, e)
    BY <1>1, <2>9, <2>10, <2>11, AddKeepsRow
  <2> QED
    BY <1>1, <2>4, <2>5, <2>12 DEF RowInv
<1>4. ASSUME NEW fd \in open, CloseConnection(fd), UNCHANGED expire PROVE RowInv'
  <2>1. InRow(L!del_timer_sup(list, fd), open \ {fd}, expire)
    BY <1>1, DelKeepsRow
  <2>2. /\ open' = open \ {fd} /\ live' = live \ {fd}
        /\ list' = L!del_timer_sup(list, fd)
    BY <1>4 DEF CloseConnection
  <2> QED
    BY <1>1, <1>4, <2>1, <2>2 DEF RowInv
<1>5. ASSUME NEW fd \in Fds, DealRead(fd) PROVE RowInv'
  <2>1. CASE DealRead_Data(fd)
    <3>1. /\ fd \in open /\ UNCHANGED <<live, open>>
          /\ expire' = [expire EXCEPT ![fd] = Idle]
          /\ list' = L!adjust_timer(list, fd, expire')
      BY <2>1 DEF DealRead_Data
    <3>2. PICK d, e : d = L!del_timer_sup(list, fd) /\ e = expire'
      OBVIOUS
    <3>3. list' = L!add_timer(d, fd, e)
      BY <3>1, <3>2 DEF L!adjust_timer
    <3>4. PICK T \in SUBSET Fds : T = open \ {fd}
      BY <1>1
    <3>5. InRow(d, T, expire) /\ (T = {} => d.next[fd] = NULL /\ d.prev[fd] = NULL)
      BY <1>1, <3>1, <3>2, <3>4, DelKeepsRow
    <3>6. e \in [Fds -> Nat] /\ \A x \in T : e[x] = expire[x]
      BY <1>1, <3>1, <3>2, <3>4
    <3>7. d \in Lists
      BY <3>5 DEF InRow
    <3>8. InRow(d, T, e)
      BY <3>5, <3>6, <3>7, SameRow
    <3>9. InRow(L!add_timer(d, fd, e), T \cup {fd}, e)
      BY <3>4, <3>5, <3>6, <3>8, AddKeepsRow
    <3>10. T \cup {fd} = open
      BY <3>1, <3>4
    <3> QED
      BY <1>1, <3>1, <3>2, <3>3, <3>9, <3>10 DEF RowInv
  <2>2. CASE DealRead_Eof(fd)
    BY <1>4, <2>2 DEF DealRead_Eof
  <2>3. CASE DealRead_Nothing(fd) \/ DealRead_Stale(fd)
    BY <1>2, <2>3 DEF DealRead_Nothing, DealRead_Stale, timers
  <2> QED
    BY <1>5, <2>1, <2>2, <2>3 DEF DealRead
<1>6. CASE Tick_Due
  <2>1. list.head # NULL /\ CloseConnection(list.head) /\ UNCHANGED expire
    BY <1>6 DEF Tick_Due, HeadIsDue
  <2>2. PICK n \in Nat : n = Cardinality(open)
    BY <1>1, OpenCount
  <2>3. PICK s : Row(list, open, expire, n, s)
    BY <1>1, <2>2 DEF InRow
  <2>4. list.head \in open
    <3>1. n # 0 /\ list.head = s[0]
      BY <2>1, <2>3 DEF Row
    <3>2. 0 \in 0..n - 1
      BY <3>1
    <3> QED
      BY <2>2, <2>3, <3>1, <3>2 DEF Row
  <2> QED
    BY <1>4, <2>1, <2>4
<1>7. CASE PassSlot
  <2>1. UNCHANGED <<list, live, open>>
    BY <1>7 DEF PassSlot
  <2>2. PICK e : e = expire'
    OBVIOUS
  <2>3. \A x \in Fds : e[x] = IF expire[x] > 0 THEN expire[x] - 1 ELSE 0
    BY <1>7, <2>2 DEF PassSlot
  <2>4. \A x, y \in Fds : expire[x] <= expire[y] => e[x] <= e[y]
    <3> SUFFICES ASSUME NEW x \in Fds, NEW y \in Fds, expire[x] <= expire[y] PROVE e[x] <= e[y]
      OBVIOUS
    <3>1. PICK a \in Nat, b \in Nat : a = expire[x] /\ b = expire[y]
      BY <1>1
    <3>2. e[x] = (IF a > 0 THEN a - 1 ELSE 0) /\ e[y] = (IF b > 0 THEN b - 1 ELSE 0) /\ a <= b
      BY <2>3, <3>1
    <3> QED
      BY <3>2
  <2>5. InRow(list, open, e)
    BY <1>1, <2>4, SameRow
  <2> QED
    BY <1>1, <2>1, <2>2, <2>5 DEF RowInv
<1>8. CASE EpollWait \/ DealSignals \/ Tick_End \/ EndOfEvents
  BY <1>2, <1>8 DEF EpollWait, DealSignals, Tick_End, EndOfEvents, timers
<1>9. CASE Terminate \/ Connect \/ (\E fd \in Fds : Send(fd) \/ Leave(fd))
  BY <1>2, <1>9 DEF Terminate, Connect, Send, Leave, timers
<1>10. CASE UNCHANGED vars
  BY <1>2, <1>10 DEF vars, timers
<1> QED
  BY <1>3, <1>5, <1>6, <1>7, <1>8, <1>9, <1>10 DEF Next, ServerStep, Outside

(* Along the links, forwards and backwards, the list holds the timer of    *)
(* every open connection once, no other, in order of expiry, for any       *)
(* number of connections: whatever links a timer was left with when it was *)
(* taken out and put in again.                                             *)
THEOREM TimerPerConnectionCorrect == Spec => []TimerPerConnection
<1>1. IInv /\ RowInv => TimerPerConnection
  <2> SUFFICES ASSUME IInv, RowInv PROVE TimerPerConnection
    OBVIOUS
  <2>1. open \in SUBSET Fds /\ live = open
    BY DEF IInv, TypeOK, RowInv
  <2>2. PICK s : Row(list, open, expire, Cardinality(open), s)
    BY DEF RowInv, InRow
  <2>3. L!Sorted(list, open, expire)
    BY <2>1, <2>2, RowSorted
  <2> QED
    BY <2>1, <2>3 DEF TimerPerConnection
<1>2. Init => IInv /\ RowInv
  BY InitInv, InitRow
<1>3. IInv /\ RowInv /\ [Next]_vars => IInv' /\ RowInv'
  BY StepInv, RowStep
<1> QED
  BY <1>1, <1>2, <1>3, PTL DEF Spec
=============================================================================
