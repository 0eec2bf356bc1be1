------------------------- MODULE ChatRoomShm_proofs -------------------------
(***************************************************************************)
(* The chat room for every number of clients, every limit and any bound on *)
(* what they say.                                                          *)
(*                                                                         *)
(* user_count is the number of children that are not reaped.  CountInv is  *)
(* UserCountExact with the states a child can be in and the range of its   *)
(* place: accept takes a client that is not yet a user and gives it one,   *)
(* waitpid one that still is and has it still, so that it is counted out,  *)
(* and nothing else makes or unmakes a user, wherever the table of users   *)
(* says it is.                                                             *)
(*                                                                         *)
(* TableInv adds the table of users while it is in order, and EchoInv what *)
(* the slots hold and what was sent to the children.                       *)
(***************************************************************************)
EXTENDS ChatRoomShm, FiniteSetTheorems, WellFoundedInduction, TLAPS

ChildStates == {"away", "backlog", "refused", "born", "wait", "recv", "leaving", "zombie", "reaped"}

CountInv ==
    /\ child \in [Pids -> ChildStates] /\ UserCountExact
    /\ sub_process \in [Pids -> Int]
    /\ \A p \in Users : sub_process[p] \in 0..USER_LIMIT - 1

(* The users are finitely many, so that they can be counted. *)
LEMMA UsersAreFinite == IsFiniteSet(Users) /\ Cardinality(Users) \in Nat
<1>1. Users \subseteq Pids
  BY DEF Users
<1> QED
  BY <1>1, PidAssumption, FS_Subset, FS_CardinalityType

(* A step that leaves every user a user, and makes nobody one, keeps the   *)
(* count right if it leaves user_count alone.                              *)
LEMMA SameUsers ==
    ASSUME CountInv, child' \in [Pids -> ChildStates], UNCHANGED <<user_count, sub_process>>,
           \A p \in Pids : Unreaped(p)' <=> Unreaped(p)
    PROVE  CountInv'
<1>1. Users' = Users
  BY DEF Users
<1> QED
  BY <1>1 DEF CountInv, UserCountExact

(* A child that goes from one state to another, when both or neither are   *)
(* those of a user.                                                        *)
LEMMA ChildMoves ==
    ASSUME CountInv, UNCHANGED <<user_count, sub_process>>, NEW p \in Pids, NEW s \in ChildStates,
           child' = [child EXCEPT ![p] = s],
           Unreaped(p) <=> s \in {"born", "wait", "recv", "leaving", "zombie"}
    PROVE  CountInv'
<1>1. child' \in [Pids -> ChildStates]
  BY DEF CountInv
<1>2. \A q \in Pids : Unreaped(q)' <=> Unreaped(q)
  BY DEF CountInv, Unreaped, Lives
<1> QED
  BY <1>1, <1>2, SameUsers

(* At the start nobody is a user. *)
LEMMA CountInit == Init => CountInv
<1> SUFFICES ASSUME Init PROVE CountInv
  OBVIOUS
<1>1. child \in [Pids -> ChildStates]
  BY DEF Init, ChildStates
<1>2. Users = {}
  BY DEF Init, Users, Unreaped, Lives
<1>3. user_count = 0
  BY DEF Init
<1>4. sub_process \in [Pids -> Int]
  <2>1. -1 \in Int /\ sub_process = [p \in Pids |-> -1]
    BY DEF Init
  <2> QED
    BY <2>1
<1> QED
  BY <1>1, <1>2, <1>3, <1>4, FS_EmptySet DEF CountInv, UserCountExact

(* A child that waitpid returns is in the table: it is counted out.        *)
LEMMA ReapTakesOut ==
    ASSUME CountInv, NEW p \in Pids, Reap(p)
    PROVE  /\ TakeOut(sub_process[p])
           /\ pc = "reap" /\ child[p] = "zombie"
           /\ child' = [child EXCEPT ![p] = "reaped"]
           /\ sub_process' = [sub_process EXCEPT ![p] = -1]
           /\ UNCHANGED <<pc, idx, mem, down>>
<1>1. p \in Users
  BY DEF Reap, Users, Unreaped, Lives
<1>2. ~(sub_process[p] < 0 \/ sub_process[p] > USER_LIMIT)
  BY <1>1, NumberAssumption DEF CountInv
<1> QED
  BY <1>2 DEF Reap

(* No step makes a user without counting it, or counts without making one. *)
LEMMA CountStep == CountInv /\ [Next]_vars => CountInv'
<1> SUFFICES ASSUME CountInv, [Next]_vars PROVE CountInv'
  OBVIOUS
<1> child \in [Pids -> ChildStates]
  BY DEF CountInv
<1>1. ASSUME NEW p \in Pids, Accept(p) PROVE CountInv'
  <2>1. child[p] = "backlog" /\ child' = [child EXCEPT ![p] = "born"]
    BY <1>1 DEF Accept
  <2>2. user_count' = user_count + 1
    BY <1>1 DEF Accept, AddUser
  <2>3. p \notin Users /\ Users' = Users \cup {p}
    BY <2>1 DEF Users, Unreaped, Lives
  <2>4. Cardinality(Users') = Cardinality(Users) + 1
    BY <2>3, UsersAreFinite, FS_AddElement
  <2>5. child' \in [Pids -> ChildStates]
    BY <2>1 DEF ChildStates
  <2>6. /\ sub_process' = [sub_process EXCEPT ![p] = user_count]
        /\ user_count < USER_LIMIT /\ user_count \in Nat
    BY <1>1, UsersAreFinite DEF Accept, AddUser, CountInv, UserCountExact
  <2>7. /\ sub_process' \in [Pids -> Int]
        /\ \A q \in Users' : sub_process'[q] \in 0..USER_LIMIT - 1
    <3>1. user_count \in 0..USER_LIMIT - 1 /\ user_count \in Int
      BY <2>6, NumberAssumption
    <3>2. sub_process \in [Pids -> Int] /\ \A q \in Users : sub_process[q] \in 0..USER_LIMIT - 1
      BY DEF CountInv
    <3>3. \A q \in Users' : q = p \/ q \in Users
      BY <2>3
    <3>4. \A q \in Users : q \in Pids
      BY DEF Users
    <3> QED
      BY <2>6, <3>1, <3>2, <3>3, <3>4
  <2> QED
    BY <2>2, <2>4, <2>5, <2>7 DEF CountInv, UserCountExact
<1>2. ASSUME NEW p \in Pids, Reap(p) PROVE CountInv'
  <2>1. child[p] = "zombie" /\ child' = [child EXCEPT ![p] = "reaped"]
    BY <1>2, ReapTakesOut
  <2>2. user_count' = user_count - 1
    BY <1>2, ReapTakesOut DEF TakeOut
  <2>3. p \in Users /\ Users' = Users \ {p}
    BY <2>1 DEF Users, Unreaped, Lives
  <2>4. Cardinality(Users') = Cardinality(Users) - 1
    BY <2>3, UsersAreFinite, FS_RemoveElement
  <2>5. child' \in [Pids -> ChildStates]
    BY <2>1 DEF ChildStates
  <2>6. sub_process' = [sub_process EXCEPT ![p] = -1]
    BY <1>2, ReapTakesOut
  <2>7. /\ sub_process' \in [Pids -> Int]
        /\ \A q \in Users' : sub_process'[q] \in 0..USER_LIMIT - 1
    <3>1. -1 \in Int
      OBVIOUS
    <3>2. \A q \in Users' : q \in Users /\ q # p /\ q \in Pids
      BY <2>3 DEF Users
    <3> QED
      BY <2>6, <3>1, <3>2 DEF CountInv
  <2> QED
    BY <2>2, <2>4, <2>5, <2>7 DEF CountInv, UserCountExact
<1>3. ASSUME NEW p \in Pids, Refuse(p) PROVE CountInv'
  <2>1. /\ child[p] = "backlog" /\ child' = [child EXCEPT ![p] = "refused"]
        /\ UNCHANGED <<user_count, sub_process>>
    BY <1>3 DEF Refuse
  <2> QED
    BY <2>1, ChildMoves DEF Unreaped, Lives, ChildStates
<1>4. ASSUME DealSignals PROVE CountInv'
  <2>1. PICK sig : Kill(IF sig = "TERM" THEN {users[j].pid : j \in 0..user_count - 1} ELSE {})
    BY <1>4 DEF DealSignals
  <2> DEFINE K == IF sig = "TERM" THEN {users[j].pid : j \in 0..user_count - 1} ELSE {}
  <2>2. PICK S \in SUBSET {p \in K : child[p] = "wait"} :
            child' = [p \in Pids |-> IF p \in S THEN "leaving" ELSE child[p]]
    BY <2>1 DEF Kill
  <2>3. child' \in [Pids -> ChildStates]
    BY <2>2 DEF ChildStates
  <2>4. \A p \in Pids : Unreaped(p)' <=> Unreaped(p)
    BY <2>2 DEF Unreaped, Lives
  <2>5. UNCHANGED <<user_count, sub_process>>
    BY <1>4 DEF DealSignals
  <2> QED
    BY <2>3, <2>4, <2>5, SameUsers
<1>5. ASSUME UNCHANGED <<child, user_count, sub_process>> PROVE CountInv'
  BY <1>5, SameUsers DEF Unreaped, Lives
<1>6. ASSUME EpollWait \/ Reap_End \/ EndOfEvents \/ (\E fd \in batch : Broadcast(fd))
      PROVE  CountInv'
  BY <1>6, <1>5 DEF EpollWait, Reap_End, EndOfEvents, Broadcast, children
<1>7. ASSUME NEW p \in Pids, ChildStep(p) PROVE CountInv'
  <2>1. UNCHANGED <<user_count, sub_process>>
    BY <1>7 DEF ChildStep, Child_Start, Child_Exit, Child_Memset, Child_Recv, Child_RecvEnd,
                Child_Pipe, parent
  <2>2. CASE Child_Start(p)
    BY <2>1, <2>2, ChildMoves DEF Child_Start, Unreaped, Lives, ChildStates
  <2>3. CASE Child_Exit(p)
    BY <2>1, <2>3, ChildMoves DEF Child_Exit, Unreaped, Lives, ChildStates
  <2>4. CASE Child_Memset(p)
    BY <2>1, <2>4, ChildMoves DEF Child_Memset, Unreaped, Lives, ChildStates
  <2>5. ASSUME child[p] \in {"wait", "recv"}, NEW s \in {"wait", "leaving"},
               child' = [child EXCEPT ![p] = s]
        PROVE  CountInv'
    BY <2>1, <2>5, ChildMoves DEF Unreaped, Lives, ChildStates
  <2>6. CASE Child_Recv(p)
    BY <2>5, <2>6 DEF Child_Recv, Loop
  <2>7. CASE Child_RecvEnd(p)
    BY <2>5, <2>7 DEF Child_RecvEnd, Loop
  <2>8. CASE Child_Pipe(p)
    <3>1. CASE stop_child[p] \/ down[p] = <<>>
      BY <2>5, <2>8, <3>1 DEF Child_Pipe, Loop
    <3>2. CASE ~(stop_child[p] \/ down[p] = <<>>)
      BY <2>5, <2>8, <3>2 DEF Child_Pipe, Loop
    <3> QED
      BY <3>1, <3>2
  <2> QED
    BY <1>7, <2>2, <2>3, <2>4, <2>6, <2>7, <2>8 DEF ChildStep
<1>8. ASSUME Outside PROVE CountInv'
  <2>1. ASSUME NEW p \in Pids, Connect(p) PROVE CountInv'
    <3>1. /\ child[p] = "away" /\ child' = [child EXCEPT ![p] = "backlog"]
          /\ UNCHANGED <<user_count, sub_process>>
      BY <2>1 DEF Connect, parent
    <3> QED
      BY <3>1, ChildMoves DEF Unreaped, Lives, ChildStates
  <2>2. ASSUME NEW p \in Pids, Say(p) \/ Leave(p) PROVE CountInv'
    BY <2>2, <1>5 DEF Say, Leave, parent, children
  <2>3. CASE Terminate
    BY <2>3, <1>5 DEF Terminate, parent, children
  <2> QED
    BY <1>8, <2>1, <2>2, <2>3 DEF Outside
<1>9. CASE UNCHANGED vars
  BY <1>9, <1>5 DEF vars, parent, children
<1> QED
  BY <1>1, <1>2, <1>3, <1>4, <1>6, <1>7, <1>8, <1>9 DEF Next, ParentStep

(* However wrong the table of users has become, waitpid's loop passes over *)
(* no child that was counted in: the number of users that accept compares  *)
(* with USER_LIMIT, and that the server waits to become 0 after SIGTERM,   *)
(* is that of the children that waitpid has not returned.                  *)
THEOREM UserCountCorrect == Spec => []UserCountExact
<1>1. CountInv => UserCountExact
  BY DEF CountInv
<1> QED
  BY <1>1, CountInit, CountStep, PTL DEF Spec

(***************************************************************************)
(* The table of users.                                                     *)
(***************************************************************************)

Row == [pid : Pids \cup {NULL}, pipefd : Int]

TableTypes ==
    /\ users \in [0..USER_LIMIT -> Row]
    /\ user_count \in 0..USER_LIMIT
    /\ sub_process \in [Pids -> Int]
    /\ idx \in [Pids -> 0..USER_LIMIT - 1]
    /\ pipes \in [Open -> Pids] /\ IsFiniteSet(Open)
    /\ moved \in BOOLEAN
    /\ \A p \in Users : sub_process[p] \in 0..USER_LIMIT - 1

TableInv == CountInv /\ TableTypes /\ TableRight

(* A set of natural numbers that is not empty has a lowest element, the    *)
(* one that Min chooses.                                                   *)
LEMMA Lowest ==
    ASSUME NEW S \in SUBSET Nat, S # {}
    PROVE  Min(S) \in S
<1>1. PICK x \in S : \A y \in S : ~(<<y, x>> \in OpToRel(<, Nat))
  BY WFMin, NatLessThanWellFounded
<1>2. ASSUME NEW y \in S PROVE x <= y
  <2>1. x \in Nat /\ y \in Nat /\ <<y, x>> \notin OpToRel(<, Nat)
    BY <1>1
  <2>2. x \in Nat /\ y \in Nat /\ ~(y < x)
    BY <2>1 DEF OpToRel
  <2> QED
    BY <2>2
<1>3. \E z \in S : \A y \in S : z =< y
  BY <1>2
<1> QED
  BY <1>3 DEF Min

(* The lowest two free descriptors are there, so that accept and the pipe  *)
(* get one each: the pipe's is not open.                                   *)
LEMMA NewPipeIsFree ==
    ASSUME IsFiniteSet(Open)
    PROVE  NewPipe \in Nat /\ NewPipe \notin Open
<1> DEFINE n == Cardinality(Open)
           All == sigfd + 1..sigfd + n + 2
           free == All \ Open
<1>1. n \in Nat
  BY FS_CardinalityType
<1>2. IsFiniteSet(All) /\ Cardinality(All) = n + 2
  <2>1. sigfd + 1 \in Int /\ sigfd + n + 2 \in Int
    BY <1>1, FdAssumption
  <2>2. PICK a \in Int, b \in Int : a = sigfd + 1 /\ b = sigfd + n + 2
    BY <2>1
  <2>3. IsFiniteSet(a..b) /\ Cardinality(a..b) = IF a > b THEN 0 ELSE b - a + 1
    BY FS_Interval
  <2> QED
    BY <1>1, <2>2, <2>3, FdAssumption
<1>3. IsFiniteSet(free) /\ Cardinality(free) = Cardinality(All) - Cardinality(All \cap Open)
  BY <1>2, FS_Difference
<1>4. Cardinality(All \cap Open) \in Nat /\ Cardinality(All \cap Open) <= n
  <2>1. All \cap Open \subseteq Open
    OBVIOUS
  <2> QED
    BY <2>1, FS_Subset, FS_CardinalityType
<1>5. free \subseteq Nat
  BY <1>1, FdAssumption
<1>6. Cardinality(free) >= 2
  BY <1>1, <1>2, <1>3, <1>4
<1>7. free # {}
  BY <1>6, FS_EmptySet
<1> HIDE DEF free
<1>8. Min(free) \in free
  BY <1>5, <1>7, Lowest
<1>9. free \ {Min(free)} # {}
  <2>1. Cardinality(free \ {Min(free)}) = Cardinality(free) - 1
    BY <1>3, <1>8, FS_RemoveElement
  <2>2. Cardinality(free \ {Min(free)}) # 0
    BY <1>6, <1>3, <2>1, FS_CardinalityType
  <2> QED
    BY <2>2, FS_EmptySet
<1>10. Min(free \ {Min(free)}) \in free \ {Min(free)}
  <2>1. free \ {Min(free)} \in SUBSET Nat
    BY <1>5
  <2> QED
    BY <1>9, <2>1, Lowest
<1>11. NewPipe = Min(free \ {Min(free)})
  BY DEF NewPipe, free
<1>12. NewPipe \in free
  BY <1>10, <1>11
<1> QED
  BY <1>5, <1>12 DEF free

(* What AddUser and Accept do to the table, as functions. *)
LEMMA AcceptTable ==
    ASSUME TableTypes, NEW p \in Pids, Accept(p)
    PROVE  /\ NewPipe \in Nat /\ NewPipe \notin Open
           /\ Open' = Open \cup {NewPipe}
           /\ \A fd \in Open : pipes'[fd] = pipes[fd]
           /\ pipes'[NewPipe] = p
           /\ pipes' \in [Open' -> Pids]
<1>1. NewPipe \in Nat /\ NewPipe \notin Open
  BY NewPipeIsFree DEF TableTypes
<1>2. PICK fd \in Nat : fd = NewPipe
  BY <1>1
<1>3. pipes' = [x \in Open \cup {fd} |-> IF x = fd THEN p ELSE pipes[x]]
  BY <1>2 DEF Accept
<1>4. Open' = Open \cup {fd}
  BY <1>3 DEF Open
<1>5. pipes \in [Open -> Pids]
  BY DEF TableTypes
<1> HIDE DEF Open
<1> QED
  BY <1>1, <1>2, <1>3, <1>4, <1>5

(* At the start the table is empty. *)
LEMMA TableInit == Init => TableInv
<1> SUFFICES ASSUME Init PROVE TableInv
  OBVIOUS
<1>1. CountInv
  BY CountInit
<1>2. Users = {} /\ user_count = 0 /\ Open = {}
  BY DEF Init, Users, Unreaped, Lives, Open
<1>3. TableTypes
  <2>1. users \in [0..USER_LIMIT -> Row] /\ user_count \in 0..USER_LIMIT
    BY NumberAssumption DEF Init, Row
  <2>2. sub_process \in [Pids -> Int] /\ moved \in BOOLEAN
    <3>1. sub_process = [p \in Pids |-> -1] /\ moved = FALSE
      BY DEF Init
    <3>2. -1 \in Int
      OBVIOUS
    <3>3. sub_process \in [Pids -> Int]
      BY <3>1, <3>2
    <3> QED
      BY <3>1, <3>3
  <2>4. idx \in [Pids -> 0..USER_LIMIT - 1]
    <3>1. 0 \in 0..USER_LIMIT - 1
      BY NumberAssumption
    <3> QED
      BY <3>1 DEF Init
  <2>3. pipes \in [Open -> Pids] /\ IsFiniteSet(Open)
    BY <1>2, FS_EmptySet DEF Init
  <2> QED
    BY <1>2, <2>1, <2>2, <2>3, <2>4 DEF TableTypes
<1>4. TableRight
  BY <1>2 DEF TableRight
<1> QED
  BY <1>1, <1>3, <1>4 DEF TableInv

(* A step that makes and unmakes no user, and changes the table only by    *)
(* closing all pipes when the server stops.                                *)
LEMMA SameTable ==
    ASSUME TableInv, CountInv', UNCHANGED <<users, user_count, sub_process, idx, moved>>,
           \A p \in Pids : Unreaped(p)' <=> Unreaped(p),
           pc = "stopped" => pc' = "stopped",
           UNCHANGED pipes \/ (pc' = "stopped" /\ pipes' = [fd \in {} |-> NULL])
    PROVE  TableInv'
<1>1. Users' = Users
  BY DEF Users
<1>2. CASE UNCHANGED pipes
  <2>1. Open' = Open
    BY <1>2 DEF Open
  <2>2. TableTypes'
    BY <1>1, <1>2, <2>1 DEF TableInv, TableTypes
  <2>3. TableRight'
    BY <1>1, <1>2, <2>1 DEF TableInv, TableRight
  <2> QED
    BY <2>2, <2>3 DEF TableInv
<1>3. CASE pc' = "stopped" /\ pipes' = [fd \in {} |-> NULL]
  <2>1. Open' = {} /\ pipes' \in [{} -> Pids]
    BY <1>3 DEF Open
  <2>2. IsFiniteSet(Open')
    BY <2>1, FS_EmptySet
  <2>3. TableTypes'
    BY <1>1, <2>1, <2>2 DEF TableInv, TableTypes
  <2>4. TableRight'
    BY <1>3 DEF TableRight
  <2> QED
    BY <2>3, <2>4 DEF TableInv
<1> QED
  BY <1>2, <1>3

(* A new user gets the place behind the last one, and a pipe that none of  *)
(* the others has.                                                         *)
LEMMA TableAccept ==
    ASSUME TableInv, NEW p \in Pids, Accept(p), CountInv'
    PROVE  TableInv'
<1> DEFINE fd == NewPipe
<1>1. /\ fd \in Nat /\ fd \notin Open
      /\ Open' = Open \cup {fd}
      /\ \A x \in Open : pipes'[x] = pipes[x]
      /\ pipes'[fd] = p
      /\ pipes' \in [Open' -> Pids]
  BY AcceptTable DEF TableInv
<1>2. /\ pc = "handle" /\ UNCHANGED <<pc, moved>>
      /\ child[p] = "backlog" /\ user_count < USER_LIMIT
      /\ users' = [users EXCEPT ![user_count] = [pid |-> p, pipefd |-> fd]]
      /\ idx' = [idx EXCEPT ![p] = user_count]
      /\ sub_process' = [sub_process EXCEPT ![p] = user_count]
      /\ user_count' = user_count + 1
  BY DEF Accept, AddUser, Handles
<1> HIDE DEF fd
<1>3. p \notin Users /\ Users' = Users \cup {p}
  BY <1>2 DEF TableInv, CountInv, Accept, Users, Unreaped, Lives
<1> USE DEF TableInv, TableTypes
<1>4. user_count \in 0..USER_LIMIT - 1 /\ user_count' \in 0..USER_LIMIT
  BY <1>2, NumberAssumption
<1>5. TableTypes'
  <2>1. users' \in [0..USER_LIMIT -> Row]
    BY <1>1, <1>2, <1>4 DEF Row
  <2>2. sub_process' \in [Pids -> Int] /\ idx' \in [Pids -> 0..USER_LIMIT - 1]
    BY <1>2, <1>4
  <2>3. IsFiniteSet(Open')
    BY <1>1, FS_AddElement
  <2>4. ASSUME NEW q \in Users' PROVE sub_process'[q] \in 0..USER_LIMIT - 1
    <3>1. q \in Pids
      BY DEF Users
    <3>2. CASE q = p
      BY <1>2, <1>4, <3>2
    <3>3. CASE q # p
      BY <1>2, <1>3, <3>1, <3>3
    <3> QED
      BY <3>2, <3>3
  <2> QED
    BY <1>1, <1>2, <1>4, <2>1, <2>2, <2>3, <2>4
<1>6. TableRight'
  <2> SUFFICES ASSUME ~moved'
               PROVE  /\ {users'[j].pid : j \in 0..user_count' - 1} = Users'
                      /\ Open' = {users'[j].pipefd : j \in 0..user_count' - 1}
                      /\ \A j \in 0..user_count' - 1 :
                             LET u == users'[j] IN
                             /\ sub_process'[u.pid] = j /\ idx'[u.pid] = j
                             /\ u.pipefd \in Open' /\ pipes'[u.pipefd] = u.pid
    BY DEF TableRight
  <2>1. /\ {users[j].pid : j \in 0..user_count - 1} = Users
        /\ Open = {users[j].pipefd : j \in 0..user_count - 1}
        /\ \A j \in 0..user_count - 1 :
               /\ sub_process[users[j].pid] = j /\ idx[users[j].pid] = j
               /\ users[j].pipefd \in Open /\ pipes[users[j].pipefd] = users[j].pid
    BY <1>2 DEF TableRight
  <2>2. \A j \in 0..user_count' - 1 : j \in 0..user_count - 1 \/ j = user_count
    BY <1>2, <1>4
  <2>3. \A j \in 0..user_count - 1 : j \in 0..user_count' - 1 /\ users'[j] = users[j]
    BY <1>2, <1>4
  <2>4. /\ user_count \in 0..user_count' - 1
        /\ users'[user_count].pid = p /\ users'[user_count].pipefd = fd
    BY <1>2, <1>4
  <2>5. \A j \in 0..user_count - 1 : users[j].pid \in Pids /\ users[j].pid # p
    BY <1>3, <2>1 DEF Users
  <2> DEFINE old == 0..user_count - 1
             new == 0..user_count' - 1
  <2>6. new = old \cup {user_count}
    BY <2>2, <2>3, <2>4
  <2> HIDE DEF old, new
  <2>7. {users'[j].pid : j \in new} = Users'
    <3>1. {users'[j].pid : j \in new} = {users'[j].pid : j \in old} \cup {p}
      BY <2>4, <2>6
    <3>2. {users'[j].pid : j \in old} = {users[j].pid : j \in old}
      BY <2>3 DEF old
    <3> QED
      BY <1>3, <2>1, <3>1, <3>2 DEF old
  <2>8. Open' = {users'[j].pipefd : j \in new}
    <3>1. {users'[j].pipefd : j \in new} = {users'[j].pipefd : j \in old} \cup {fd}
      BY <2>4, <2>6
    <3>2. {users'[j].pipefd : j \in old} = {users[j].pipefd : j \in old}
      BY <2>3 DEF old
    <3> QED
      BY <1>1, <2>1, <3>1, <3>2 DEF old
  <2>9. ASSUME NEW j \in 0..user_count' - 1
        PROVE  /\ sub_process'[users'[j].pid] = j /\ idx'[users'[j].pid] = j
               /\ users'[j].pipefd \in Open' /\ pipes'[users'[j].pipefd] = users'[j].pid
    <3>1. CASE j \in 0..user_count - 1
      <4>1. users'[j] = users[j] /\ users[j].pid \in Pids /\ users[j].pid # p
        BY <2>3, <2>5, <3>1
      <4>2. /\ sub_process[users[j].pid] = j /\ idx[users[j].pid] = j
            /\ users[j].pipefd \in Open /\ pipes[users[j].pipefd] = users[j].pid
        BY <2>1, <3>1
      <4>3. sub_process'[users[j].pid] = j /\ idx'[users[j].pid] = j
        BY <1>2, <4>1, <4>2
      <4>4. users[j].pipefd \in Open' /\ pipes'[users[j].pipefd] = users[j].pid
        BY <1>1, <4>2
      <4> QED
        BY <4>1, <4>3, <4>4
    <3>2. CASE j = user_count
      BY <1>1, <1>2, <2>4, <3>2
    <3> QED
      BY <2>2, <3>1, <3>2
  <2> QED
    BY <2>7, <2>8, <2>9 DEF new
<1> QED
  BY <1>5, <1>6

(* When the last user of the array leaves, the others keep their places.   *)
(* When the only user leaves, nothing is left to be in disorder.           *)
LEMMA TableReap ==
    ASSUME TableInv, NEW p \in Pids, Reap(p), CountInv'
    PROVE  TableInv'
<1> DEFINE del_user == sub_process[p]
           fd == users[del_user].pipefd
<1>1. /\ pc = "reap" /\ UNCHANGED <<pc, idx>> /\ child[p] = "zombie"
      /\ child' = [child EXCEPT ![p] = "reaped"]
      /\ sub_process' = [sub_process EXCEPT ![p] = -1]
      /\ users' = [users EXCEPT ![del_user] = users[user_count - 1]]
      /\ user_count' = user_count - 1
      /\ pipes' = [x \in Open \ {fd} |-> pipes[x]]
      /\ user_count > 1 /\ ~moved' => ~moved /\ del_user = user_count - 1
      /\ ~(user_count > 1) /\ ~moved' => Open \ {fd} = {}
  BY ReapTakesOut DEF TableInv, TakeOut, Disordered, Restrict
<1>2. p \in Users /\ Users' = Users \ {p}
  BY <1>1 DEF TableInv, CountInv, Users, Unreaped, Lives
<1> USE DEF TableInv, TableTypes
<1>3. user_count \in 1..USER_LIMIT
  <2>1. Cardinality(Users) # 0
    BY <1>2, UsersAreFinite, FS_EmptySet
  <2> QED
    BY <2>1, NumberAssumption DEF CountInv, UserCountExact
<1>4. del_user \in 0..USER_LIMIT - 1 /\ del_user \in 0..USER_LIMIT
  BY <1>2, NumberAssumption
<1>5. Open' = Open \ {fd}
  BY <1>1 DEF Open
<1> HIDE DEF fd, del_user
<1>6. TableTypes'
  <2>1. users' \in [0..USER_LIMIT -> Row] /\ user_count' \in 0..USER_LIMIT
    BY <1>1, <1>3, <1>4, NumberAssumption
  <2>2. sub_process' \in [Pids -> Int] /\ moved' \in BOOLEAN
    <3>1. sub_process' \in [Pids -> Int]
      BY <1>1
    <3>2. moved' \in BOOLEAN
      BY ReapTakesOut DEF TableInv, TakeOut, Disordered
    <3> QED
      BY <3>1, <3>2
  <2>3. pipes' \in [Open' -> Pids]
    BY <1>1, <1>5
  <2>4. IsFiniteSet(Open')
    BY <1>5, FS_Subset
  <2>5. ASSUME NEW q \in Users' PROVE sub_process'[q] \in 0..USER_LIMIT - 1
    BY <1>1, <1>2 DEF Users
  <2> QED
    BY <1>1, <2>1, <2>2, <2>3, <2>4, <2>5
<1>7. TableRight'
  <2> SUFFICES ASSUME ~moved'
               PROVE  /\ {users'[j].pid : j \in 0..user_count' - 1} = Users'
                      /\ Open' = {users'[j].pipefd : j \in 0..user_count' - 1}
                      /\ \A j \in 0..user_count' - 1 :
                             LET u == users'[j] IN
                             /\ sub_process'[u.pid] = j /\ idx'[u.pid] = j
                             /\ u.pipefd \in Open' /\ pipes'[u.pipefd] = u.pid
    BY DEF TableRight
  <2>1. CASE user_count = 1
    <3>1. Users' = {}
      <4>1. Cardinality(Users') = 0
        BY <1>1, <2>1 DEF CountInv, UserCountExact
      <4>2. IsFiniteSet(Users')
        BY <1>2, UsersAreFinite, FS_Subset
      <4> QED
        BY <4>1, <4>2, FS_EmptySet
    <3>2. Open' = {}
      BY <1>1, <1>5, <2>1
    <3>3. 0..user_count' - 1 = {}
      BY <1>1, <2>1
    <3> QED
      BY <3>1, <3>2, <3>3
  <2>2. CASE user_count > 1
    <3>1. ~moved /\ del_user = user_count - 1
      BY <1>1, <2>2
    <3>2. /\ {users[j].pid : j \in 0..user_count - 1} = Users
          /\ Open = {users[j].pipefd : j \in 0..user_count - 1}
          /\ \A j \in 0..user_count - 1 :
                 /\ sub_process[users[j].pid] = j /\ idx[users[j].pid] = j
                 /\ users[j].pipefd \in Open /\ pipes[users[j].pipefd] = users[j].pid
      BY <1>1, <3>1 DEF TableRight
    <3>3. users' = users
      BY <1>1, <1>3, <3>1
    <3>4. \A j \in 0..user_count - 1 : j \in 0..user_count' - 1 \/ j = del_user
      BY <1>1, <1>3, <3>1
    <3>5. \A j \in 0..user_count' - 1 : j \in 0..user_count - 1 /\ j # del_user
      BY <1>1, <1>3, <3>1
    <3>6. users[del_user].pid = p /\ users[del_user].pipefd = fd
      <4>1. PICK j \in 0..user_count - 1 : users[j].pid = p
        BY <1>2, <3>2
      <4>2. sub_process[p] = j
        BY <3>2, <4>1
      <4> QED
        BY <4>1, <4>2 DEF fd, del_user
    <3>7. del_user \in 0..user_count - 1
      BY <1>3, <3>1
    <3>8. \A j \in 0..user_count' - 1 :
              users[j].pid # p /\ users[j].pipefd # fd /\ users[j].pid \in Pids
      BY <3>2, <3>5, <3>6, <3>7 DEF Users
    <3> DEFINE old == 0..user_count - 1
               new == 0..user_count' - 1
    <3>9. old = new \cup {del_user}
      BY <3>4, <3>5, <3>7
    <3> HIDE DEF old, new
    <3>10. {users[j].pid : j \in new} = Users'
      <4>1. {users[j].pid : j \in old} = {users[j].pid : j \in new} \cup {p}
        BY <3>6, <3>9
      <4>2. p \notin {users[j].pid : j \in new}
        BY <3>8 DEF new
      <4>3. {users[j].pid : j \in old} = Users
        BY <3>2 DEF old
      <4> QED
        BY <1>2, <4>1, <4>2, <4>3
    <3>11. Open' = {users[j].pipefd : j \in new}
      <4>1. {users[j].pipefd : j \in old} = {users[j].pipefd : j \in new} \cup {fd}
        BY <3>6, <3>9
      <4>2. fd \notin {users[j].pipefd : j \in new}
        BY <3>8 DEF new
      <4>3. {users[j].pipefd : j \in old} = Open
        BY <3>2 DEF old
      <4> QED
        BY <1>5, <4>1, <4>2, <4>3
    <3>12. ASSUME NEW j \in 0..user_count' - 1
           PROVE  /\ sub_process'[users[j].pid] = j /\ idx'[users[j].pid] = j
                  /\ users[j].pipefd \in Open' /\ pipes'[users[j].pipefd] = users[j].pid
      BY <1>1, <1>5, <3>2, <3>5, <3>8
    <3> QED
      BY <3>3, <3>10, <3>11, <3>12 DEF new
  <2>3. user_count = 1 \/ user_count > 1
    <3>1. user_count \in Int /\ user_count >= 1
      BY <1>3, NumberAssumption
    <3> QED
      BY <3>1
  <2> QED
    BY <2>1, <2>2, <2>3
<1> QED
  BY <1>6, <1>7

(* Nothing but accept and waitpid makes or unmakes a user or changes the   *)
(* table, and a stopped server stays stopped.                              *)
LEMMA TableStep == TableInv /\ [Next]_vars => TableInv'
<1> SUFFICES ASSUME TableInv, [Next]_vars PROVE TableInv'
  OBVIOUS
<1>1. CountInv'
  BY CountStep DEF TableInv
<1> child \in [Pids -> ChildStates]
  BY DEF TableInv, CountInv
<1>2. ASSUME NEW p \in Pids, Accept(p) PROVE TableInv'
  BY <1>1, <1>2, TableAccept
<1>3. ASSUME NEW p \in Pids, Reap(p) PROVE TableInv'
  BY <1>1, <1>3, TableReap
<1>4. ASSUME NEW p \in Pids, NEW s \in ChildStates, child' = [child EXCEPT ![p] = s],
             Unreaped(p) <=> s \in {"born", "wait", "recv", "leaving", "zombie"},
             UNCHANGED <<pc, users, user_count, sub_process, idx, moved, pipes>>
      PROVE  TableInv'
  <2>1. \A q \in Pids : Unreaped(q)' <=> Unreaped(q)
    BY <1>4 DEF Unreaped, Lives
  <2> QED
    BY <1>1, <1>4, <2>1, SameTable
<1>5. ASSUME UNCHANGED <<child, pc, users, user_count, sub_process, idx, moved, pipes>>
      PROVE  TableInv'
  <2>1. \A q \in Pids : Unreaped(q)' <=> Unreaped(q)
    BY <1>5 DEF Unreaped, Lives
  <2> QED
    BY <1>1, <1>5, <2>1, SameTable
<1>6. ASSUME NEW p \in Pids, Refuse(p) PROVE TableInv'
  BY <1>4, <1>6 DEF Refuse, Unreaped, Lives, ChildStates
<1>7. CASE DealSignals
  <2>1. PICK sig : Kill(IF sig = "TERM" THEN {users[j].pid : j \in 0..user_count - 1} ELSE {})
    BY <1>7 DEF DealSignals
  <2> DEFINE K == IF sig = "TERM" THEN {users[j].pid : j \in 0..user_count - 1} ELSE {}
  <2>2. PICK S \in SUBSET {p \in K : child[p] = "wait"} :
            child' = [p \in Pids |-> IF p \in S THEN "leaving" ELSE child[p]]
    BY <2>1 DEF Kill
  <2>3. \A p \in Pids : Unreaped(p)' <=> Unreaped(p)
    BY <2>2 DEF Unreaped, Lives
  <2>4. pc # "stopped" /\ UNCHANGED <<users, user_count, sub_process, idx, moved, pipes>>
    BY <1>7 DEF DealSignals, Handles
  <2> QED
    BY <1>1, <2>3, <2>4, SameTable
<1>8. CASE EndOfEvents
  <2>1. UNCHANGED <<child, users, user_count, sub_process, idx, moved>> /\ pc # "stopped"
    BY <1>8 DEF EndOfEvents, children
  <2>2. UNCHANGED pipes \/ (pc' = "stopped" /\ pipes' = [fd \in {} |-> NULL])
    BY <1>8 DEF EndOfEvents
  <2>3. \A p \in Pids : Unreaped(p)' <=> Unreaped(p)
    BY <2>1 DEF Unreaped, Lives
  <2> QED
    BY <1>1, <2>1, <2>2, <2>3, SameTable
<1>9. ASSUME pc # "stopped",
             UNCHANGED <<child, users, user_count, sub_process, idx, moved, pipes>>
      PROVE  TableInv'
  <2>1. \A q \in Pids : Unreaped(q)' <=> Unreaped(q)
    BY <1>9 DEF Unreaped, Lives
  <2> QED
    BY <1>1, <1>9, <2>1, SameTable
<1>10. ASSUME EpollWait \/ Reap_End \/ (\E fd \in batch : Broadcast(fd)) PROVE TableInv'
  BY <1>9, <1>10 DEF EpollWait, Reap_End, Broadcast, Handles, children
<1>11. ASSUME NEW p \in Pids, ChildStep(p) PROVE TableInv'
  <2>1. UNCHANGED <<pc, users, user_count, sub_process, idx, moved, pipes>>
    BY <1>11 DEF ChildStep, Child_Start, Child_Exit, Child_Memset, Child_Recv, Child_RecvEnd,
                 Child_Pipe, parent
  <2>2. /\ child[p] \in {"born", "wait", "recv", "leaving"}
        /\ \E s \in {"wait", "recv", "leaving", "zombie"} : child' = [child EXCEPT ![p] = s]
    BY <1>11 DEF ChildStep, Child_Start, Child_Exit, Child_Memset, Child_Recv, Child_RecvEnd,
                 Child_Pipe, Loop
  <2> QED
    BY <1>4, <2>1, <2>2 DEF Unreaped, Lives, ChildStates
<1>12. CASE Outside
  <2>1. ASSUME NEW p \in Pids, Connect(p) PROVE TableInv'
    BY <1>4, <2>1 DEF Connect, parent, Unreaped, Lives, ChildStates
  <2>2. ASSUME NEW p \in Pids, Say(p) \/ Leave(p) PROVE TableInv'
    BY <1>5, <2>2 DEF Say, Leave, parent, children
  <2>3. CASE Terminate
    BY <1>5, <2>3 DEF Terminate, parent, children
  <2> QED
    BY <1>12, <2>1, <2>2, <2>3 DEF Outside
<1>13. CASE UNCHANGED vars
  BY <1>5, <1>13 DEF vars, parent, children
<1> QED
  BY <1>2, <1>3, <1>6, <1>7, <1>8, <1>10, <1>11, <1>12, <1>13 DEF Next, ParentStep

(* As long as only the last user of the array leaves, each child has a     *)
(* place, a slot and a pipe of its own, and no other pipe is open, however *)
(* many clients come, leave and are refused, and whatever the limit is.    *)
THEOREM TableRightCorrect == Spec => []TableRight
<1>1. TableInv => TableRight
  BY DEF TableInv
<1> QED
  BY <1>1, TableInit, TableStep, PTL DEF Spec

(***************************************************************************)
(* Nobody hears his own words: what slot k holds was said by the child     *)
(* whose index is k, and a child's own index is not among those the parent *)
(* sent to it.                                                             *)
(***************************************************************************)

Slots == 0..USER_LIMIT - 1

(* p is not yet a user, or never will be. *)
NotYet(p) == child[p] \in {"away", "backlog", "refused"}

SlotInv ==
    /\ mem \in [Slots -> Pids \cup {NULL}]
    /\ \A k \in Slots : mem[k] # NULL => idx[mem[k]] = k /\ ~NotYet(mem[k])

DownInv ==
    /\ down \in [Pids -> Seq(Slots)]
    /\ \A p \in Pids : NotYet(p) => down[p] = <<>>
    /\ ~moved => \A p \in Pids : Lives(p) => \A n \in 1..Len(down[p]) : down[p][n] # idx[p]

EchoInv == TableInv /\ SlotInv /\ DownInv

LEMMA EchoInit == Init => EchoInv
<1> SUFFICES ASSUME Init PROVE EchoInv
  OBVIOUS
<1>1. TableInv
  BY TableInit
<1>2. mem = [k \in Slots |-> NULL] /\ down = [p \in Pids |-> <<>>]
  BY DEF Init, Slots
<1>3. SlotInv
  BY <1>2 DEF SlotInv
<1>4. DownInv
  BY <1>2 DEF DownInv
<1> QED
  BY <1>1, <1>3, <1>4 DEF EchoInv

(* A step that writes to no slot. *)
LEMMA SlotsKept ==
    ASSUME SlotInv, UNCHANGED mem,
           \A p \in Pids : ~NotYet(p) => ~NotYet(p)' /\ idx'[p] = idx[p]
    PROVE  SlotInv'
  BY DEF SlotInv, NotYet, Slots

(* A step that sends nothing to a child: who lives after it, in a room in  *)
(* order, did so before it or has nothing to read.                         *)
LEMMA DownKept ==
    ASSUME DownInv, UNCHANGED down,
           \A p \in Pids : NotYet(p)' => NotYet(p),
           ~moved' => \A p \in Pids :
               Lives(p)' => down[p] = <<>> \/ (~moved /\ Lives(p) /\ idx'[p] = idx[p])
    PROVE  DownInv'
<1>1. ASSUME NEW p \in Pids, NotYet(p)' PROVE down'[p] = <<>>
  BY <1>1 DEF DownInv
<1>2. ASSUME ~moved', NEW p \in Pids, Lives(p)', NEW n \in 1..Len(down'[p])
      PROVE  down'[p][n] # idx'[p]
  <2>1. CASE down[p] = <<>>
    <3>1. Len(down'[p]) = 0
      BY <2>1
    <3> QED
      BY <1>2, <3>1
  <2>2. CASE ~moved /\ Lives(p) /\ idx'[p] = idx[p]
    BY <1>2, <2>2 DEF DownInv
  <2> QED
    BY <1>2, <2>1, <2>2
<1>3. down' \in [Pids -> Seq(Slots)]
  BY DEF DownInv
<1> QED
  BY <1>1, <1>2, <1>3 DEF DownInv, Slots

(* Where a step leaves users users and the table alone, it only matters    *)
(* that it writes to no slot and sends nothing.                            *)
LEMMA WordsKept ==
    ASSUME EchoInv, UNCHANGED <<mem, down, idx, moved>>,
           \A p \in Pids : (NotYet(p)' <=> NotYet(p)) /\ (Lives(p)' => Lives(p))
    PROVE  SlotInv' /\ DownInv'
  BY SlotsKept, DownKept DEF EchoInv

(* A child of its own reads what it was sent, or ends. *)
LEMMA DownShorter ==
    ASSUME EchoInv, NEW p \in Pids, Lives(p), UNCHANGED <<idx, moved>>,
           NEW d \in Seq(Slots), down' = [down EXCEPT ![p] = d],
           d = <<>> \/ (down[p] # <<>> /\ d = Tail(down[p])),
           \A q \in Pids : (NotYet(q)' <=> NotYet(q)) /\ (Lives(q)' => Lives(q))
    PROVE  DownInv'
<1> USE DEF EchoInv, DownInv
<1>1. down' \in [Pids -> Seq(Slots)]
  OBVIOUS
<1>2. ~NotYet(p)
  BY DEF NotYet, Lives
<1>3. ASSUME NEW q \in Pids, NotYet(q)' PROVE down'[q] = <<>>
  BY <1>2, <1>3
<1>4. ASSUME ~moved', NEW q \in Pids, Lives(q)', NEW n \in 1..Len(down'[q])
      PROVE  down'[q][n] # idx'[q]
  <2>1. ~moved /\ Lives(q) /\ \A k \in 1..Len(down[q]) : down[q][k] # idx[q]
    BY <1>4
  <2>2. CASE q # p
    BY <1>4, <2>1, <2>2
  <2>3. CASE q = p
    <3>1. down'[p] = d /\ n \in 1..Len(d)
      BY <1>4, <2>3
    <3>2. CASE d = <<>>
      BY <3>1, <3>2
    <3>3. CASE down[p] # <<>> /\ d = Tail(down[p])
      <4>1. down[p] \in Seq(Slots)
        OBVIOUS
      <4>2. n + 1 \in 1..Len(down[p]) /\ d[n] = down[p][n + 1]
        BY <3>1, <3>3, <4>1
      <4> QED
        BY <2>1, <2>3, <3>1, <4>2
    <3> QED
      BY <3>2, <3>3
  <2> QED
    BY <2>2, <2>3
<1> QED
  BY <1>1, <1>3, <1>4 DEF Slots

(* The same int n times at the end of a sequence of them. *)
LEMMA Appended ==
    ASSUME NEW S, NEW s \in Seq(S), NEW e \in S, NEW n \in Nat
    PROVE  /\ s \o [k \in 1..n |-> e] \in Seq(S)
           /\ \A m \in 1..Len(s \o [k \in 1..n |-> e]) :
                  \/ m \in 1..Len(s) /\ (s \o [k \in 1..n |-> e])[m] = s[m]
                  \/ n > 0 /\ (s \o [k \in 1..n |-> e])[m] = e
           /\ n = 0 => s \o [k \in 1..n |-> e] = s
<1> DEFINE t == [k \in 1..n |-> e]
<1>1. t \in Seq(S) /\ Len(t) = n /\ \A k \in 1..n : t[k] = e
  OBVIOUS
<1> HIDE DEF t
<1>2. s \o t \in Seq(S) /\ Len(s \o t) = Len(s) + n
  BY <1>1
<1>3. ASSUME NEW m \in 1..Len(s \o t)
      PROVE  \/ m \in 1..Len(s) /\ (s \o t)[m] = s[m]
             \/ n > 0 /\ (s \o t)[m] = e
  <2>1. Len(s) \in Nat /\ m \in Nat /\ m <= Len(s) + n /\ m >= 1
    BY <1>2, <1>3
  <2>2. CASE m <= Len(s)
    BY <1>1, <2>1, <2>2
  <2>3. CASE m > Len(s)
    <3>1. m - Len(s) \in 1..n
      BY <2>1, <2>3
    <3>2. (s \o t)[m] = t[m - Len(s)]
      BY <1>1, <2>1, <2>3, <3>1
    <3> QED
      BY <1>1, <3>1, <3>2
  <2> QED
    BY <2>1, <2>2, <2>3
<1>4. ASSUME n = 0 PROVE s \o t = s
  <2>1. Len(s \o t) = Len(s) /\ s \o t \in Seq(S)
    BY <1>2, <1>4
  <2>2. \A m \in 1..Len(s) : (s \o t)[m] = s[m]
    BY <1>3, <1>4, <2>1
  <2> QED
    BY <2>1, <2>2
<1> QED
  BY <1>2, <1>3, <1>4 DEF t

(* The users an int is sent on to have other places than its sender, in a  *)
(* table in order, and so other indices.                                   *)
LEMMA OthersHear ==
    ASSUME TableInv, ~moved, pc # "stopped", NEW fd \in Open, NEW q \in Pids,
           Receivers(fd)[q] # {}
    PROVE  idx[q] # idx[pipes[fd]]
<1>1. /\ Open = {users[j].pipefd : j \in 0..user_count - 1}
      /\ \A j \in 0..user_count - 1 :
             idx[users[j].pid] = j /\ pipes[users[j].pipefd] = users[j].pid
  BY DEF TableInv, TableRight
<1>2. PICK j \in 0..user_count - 1 : fd = users[j].pipefd
  BY <1>1
<1>3. PICK k \in 0..user_count - 1 :
          users[k].pipefd \in Open \ {fd} /\ pipes[users[k].pipefd] = q
  BY DEF Receivers
<1>4. j # k
  BY <1>2, <1>3
<1>5. idx[pipes[fd]] = j
  BY <1>1, <1>2
<1>6. idx[q] = k
  BY <1>1, <1>3
<1> QED
  BY <1>4, <1>5, <1>6

LEMMA DownBroadcast ==
    ASSUME EchoInv, NEW fd \in Open, pc # "stopped", UNCHANGED <<child, idx, moved>>,
           NEW n \in [Pids -> Nat],
           \A q \in Pids : n[q] > 0 => Lives(q) /\ Receivers(fd)[q] # {},
           down' = [q \in Pids |-> down[q] \o [k \in 1..n[q] |-> idx[pipes[fd]]]]
    PROVE  DownInv'
<1> DEFINE e == idx[pipes[fd]]
<1>1. e \in Slots
  BY DEF EchoInv, TableInv, TableTypes, Slots
<1>2. ASSUME NEW q \in Pids
      PROVE  /\ down'[q] \in Seq(Slots)
             /\ \A m \in 1..Len(down'[q]) : \/ m \in 1..Len(down[q]) /\ down'[q][m] = down[q][m]
                                            \/ n[q] > 0 /\ down'[q][m] = e
             /\ n[q] = 0 => down'[q] = down[q]
  <2>1. down[q] \in Seq(Slots) /\ n[q] \in Nat
    BY DEF EchoInv, DownInv
  <2>2. PICK x \in Slots, d \in Seq(Slots), l \in Nat : x = e /\ d = down[q] /\ l = n[q]
    BY <1>1, <2>1
  <2>3. down'[q] = d \o [k \in 1..l |-> x]
    BY <2>2
  <2> HIDE DEF e
  <2>4. /\ d \o [k \in 1..l |-> x] \in Seq(Slots)
        /\ \A m \in 1..Len(d \o [k \in 1..l |-> x]) :
               \/ m \in 1..Len(d) /\ (d \o [k \in 1..l |-> x])[m] = d[m]
               \/ l > 0 /\ (d \o [k \in 1..l |-> x])[m] = x
        /\ l = 0 => d \o [k \in 1..l |-> x] = d
    BY Appended
  <2> QED
    BY <2>2, <2>3, <2>4
<1>3. \A q \in Pids : (NotYet(q)' <=> NotYet(q)) /\ (Lives(q)' <=> Lives(q))
  BY DEF NotYet, Lives
<1>4. ASSUME NEW q \in Pids, NotYet(q) PROVE down'[q] = <<>>
  <2>1. ~Lives(q)
    BY <1>4 DEF NotYet, Lives
  <2>2. n[q] = 0
    BY <2>1
  <2> QED
    BY <1>2, <1>4, <2>2 DEF EchoInv, DownInv
<1>5. ASSUME ~moved, NEW q \in Pids, Lives(q), NEW m \in 1..Len(down'[q])
      PROVE  down'[q][m] # idx[q]
  <2>1. CASE m \in 1..Len(down[q]) /\ down'[q][m] = down[q][m]
    BY <1>5, <2>1 DEF EchoInv, DownInv
  <2>2. CASE n[q] > 0 /\ down'[q][m] = e
    BY <1>5, <2>2, OthersHear DEF EchoInv
  <2> QED
    BY <1>2, <1>5, <2>1, <2>2
<1>6. down' \in [Pids -> Seq(Slots)]
  BY <1>2
<1> QED
  BY <1>3, <1>4, <1>5, <1>6 DEF DownInv, Slots

LEMMA EchoStep == EchoInv /\ [Next]_vars => EchoInv'
<1> SUFFICES ASSUME EchoInv, [Next]_vars PROVE EchoInv'
  OBVIOUS
<1>1. TableInv'
  BY TableStep DEF EchoInv
<1> SUFFICES SlotInv' /\ DownInv'
  BY <1>1 DEF EchoInv
<1> child \in [Pids -> ChildStates]
  BY DEF EchoInv, TableInv, CountInv
<1> idx \in [Pids -> Slots]
  BY DEF EchoInv, TableInv, TableTypes, Slots
<1> SlotInv /\ DownInv
  BY DEF EchoInv
<1>2. ASSUME NEW p \in Pids, Accept(p) PROVE SlotInv' /\ DownInv'
  <2>1. /\ child[p] = "backlog" /\ child' = [child EXCEPT ![p] = "born"]
        /\ idx' = [idx EXCEPT ![p] = user_count]
        /\ UNCHANGED <<moved, mem, down>>
    BY <1>2 DEF Accept, AddUser, kernel
  <2>2. \A q \in Pids : ~NotYet(q) => ~NotYet(q)' /\ idx'[q] = idx[q]
    BY <2>1 DEF NotYet
  <2>3. down[p] = <<>>
    BY <2>1 DEF DownInv, NotYet
  <2>4. \A q \in Pids : NotYet(q)' => NotYet(q)
    BY <2>1 DEF NotYet
  <2>5. \A q \in Pids : q # p => (Lives(q)' => Lives(q)) /\ idx'[q] = idx[q]
    BY <2>1 DEF Lives
  <2> QED
    BY <2>1, <2>2, <2>3, <2>4, <2>5, SlotsKept, DownKept
<1>3. ASSUME NEW p \in Pids, Reap(p) PROVE SlotInv' /\ DownInv'
  <2>1. /\ child[p] = "zombie" /\ child' = [child EXCEPT ![p] = "reaped"]
        /\ user_count' = user_count - 1
        /\ UNCHANGED <<idx, mem, down>>
    BY <1>3, ReapTakesOut DEF EchoInv, TableInv, TakeOut
  <2>2. user_count > 1 => (~moved' => ~moved)
    BY <1>3, ReapTakesOut DEF EchoInv, TableInv, TakeOut, Disordered
  <2>3. \A q \in Pids : (NotYet(q)' <=> NotYet(q)) /\ (Lives(q)' => Lives(q))
    BY <2>1 DEF NotYet, Lives
  <2>4. ASSUME ~(user_count > 1), NEW q \in Pids PROVE ~Lives(q)'
    <3>1. user_count' \in Nat /\ user_count' = Cardinality(Users') /\ user_count \in Nat
      BY <1>1 DEF EchoInv, TableInv, TableTypes, CountInv, UserCountExact
    <3>2. Cardinality(Users') = 0
      BY <2>1, <2>4, <3>1
    <3>3. IsFiniteSet(Users')
      <4>1. Users' \subseteq Pids
        BY DEF Users
      <4> QED
        BY <4>1, PidAssumption, FS_Subset
    <3>4. Users' = {}
      BY <3>2, <3>3, FS_EmptySet
    <3> QED
      BY <3>4 DEF Users, Unreaped
  <2> QED
    BY <2>1, <2>2, <2>3, <2>4, SlotsKept, DownKept
<1>4. ASSUME UNCHANGED <<child, mem, down, idx, moved>> PROVE SlotInv' /\ DownInv'
  BY <1>4, WordsKept DEF NotYet, Lives
<1>5. ASSUME NEW p \in Pids, NEW s \in ChildStates, child' = [child EXCEPT ![p] = s],
             NotYet(p) <=> s \in {"away", "backlog", "refused"},
             s \in {"born", "wait", "recv", "leaving"} => Lives(p)
      PROVE  \A q \in Pids : (NotYet(q)' <=> NotYet(q)) /\ (Lives(q)' => Lives(q))
  BY <1>5 DEF NotYet, Lives
<1>6. ASSUME NEW p \in Pids, Refuse(p) PROVE SlotInv' /\ DownInv'
  <2>1. /\ child[p] = "backlog" /\ child' = [child EXCEPT ![p] = "refused"]
        /\ UNCHANGED <<mem, down, idx, moved>>
    BY <1>6 DEF Refuse, kernel
  <2>2. \A q \in Pids : (NotYet(q)' <=> NotYet(q)) /\ (Lives(q)' => Lives(q))
    BY <1>5, <2>1 DEF NotYet, ChildStates
  <2> QED
    BY <2>1, <2>2, WordsKept
<1>7. CASE DealSignals
  <2>1. PICK sig : Kill(IF sig = "TERM" THEN {users[j].pid : j \in 0..user_count - 1} ELSE {})
    BY <1>7 DEF DealSignals
  <2> DEFINE K == IF sig = "TERM" THEN {users[j].pid : j \in 0..user_count - 1} ELSE {}
  <2>2. PICK S \in SUBSET {p \in K : child[p] = "wait"} :
            child' = [p \in Pids |-> IF p \in S THEN "leaving" ELSE child[p]]
    BY <2>1 DEF Kill
  <2>3. \A q \in Pids : (NotYet(q)' <=> NotYet(q)) /\ (Lives(q)' => Lives(q))
    BY <2>2 DEF NotYet, Lives
  <2>4. UNCHANGED <<mem, down, idx, moved>>
    BY <1>7 DEF DealSignals
  <2> QED
    BY <2>3, <2>4, WordsKept
<1>8. ASSUME NEW fd \in batch, Broadcast(fd) PROVE SlotInv' /\ DownInv'
  <2>1. pc # "stopped" /\ UNCHANGED <<child, idx, moved, mem>>
    BY <1>8 DEF Broadcast, Handles, children
  <2>2. CASE UNCHANGED down
    BY <1>4, <2>1, <2>2
  <2>3. CASE ~UNCHANGED down
    <3> DEFINE n == [q \in Pids |-> IF Lives(q) THEN Cardinality(Receivers(fd)[q]) ELSE 0]
    <3>1. /\ fd \in Open
          /\ down' = [q \in Pids |-> down[q] \o [k \in 1..n[q] |-> idx[pipes[fd]]]]
      BY <1>8, <2>3 DEF Broadcast
    <3>2. ASSUME NEW q \in Pids
          PROVE  n[q] \in Nat /\ (n[q] > 0 => Lives(q) /\ Receivers(fd)[q] # {})
      <4>1. Receivers(fd)[q] \subseteq 0..user_count - 1
        BY DEF Receivers
      <4>2. IsFiniteSet(0..user_count - 1)
        <5>1. PICK m \in Int : m = user_count - 1
          BY DEF EchoInv, TableInv, TableTypes
        <5>2. IsFiniteSet(0..m)
          BY FS_Interval
        <5> QED
          BY <5>1, <5>2
      <4>3. Cardinality(Receivers(fd)[q]) \in Nat
        BY <4>1, <4>2, FS_Subset, FS_CardinalityType
      <4>4. Receivers(fd)[q] = {} => Cardinality(Receivers(fd)[q]) = 0
        BY FS_EmptySet
      <4> QED
        BY <4>3, <4>4
    <3>3. n \in [Pids -> Nat]
      BY <3>2
    <3> HIDE DEF n
    <3>4. DownInv'
      BY <2>1, <3>1, <3>2, <3>3, DownBroadcast
    <3>5. SlotInv'
      BY <2>1, SlotsKept DEF NotYet
    <3> QED
      BY <3>4, <3>5
  <2> QED
    BY <2>2, <2>3
<1>9. ASSUME EpollWait \/ Reap_End \/ EndOfEvents PROVE SlotInv' /\ DownInv'
  BY <1>4, <1>9 DEF EpollWait, Reap_End, EndOfEvents, children, kernel
<1>10. ASSUME NEW p \in Pids, ChildStep(p) PROVE SlotInv' /\ DownInv'
  <2>1. UNCHANGED <<idx, moved>>
    BY <1>10 DEF ChildStep, Child_Start, Child_Exit, Child_Memset, Child_Recv, Child_RecvEnd,
                 Child_Pipe, parent
  <2>2. /\ child[p] \in {"born", "wait", "recv", "leaving"}
        /\ \E s \in {"wait", "recv", "leaving", "zombie"} : child' = [child EXCEPT ![p] = s]
    BY <1>10 DEF ChildStep, Child_Start, Child_Exit, Child_Memset, Child_Recv, Child_RecvEnd,
                 Child_Pipe, Loop
  <2>3. Lives(p) /\ ~NotYet(p)
    BY <2>2 DEF Lives, NotYet
  <2>4. \A q \in Pids : (NotYet(q)' <=> NotYet(q)) /\ (Lives(q)' => Lives(q))
    BY <1>5, <2>2, <2>3 DEF ChildStates
  <2>5. ASSUME UNCHANGED down PROVE DownInv'
    BY <2>1, <2>4, <2>5, DownKept
  <2>6. ASSUME UNCHANGED mem PROVE SlotInv'
    BY <2>1, <2>4, <2>6, SlotsKept
  <2>7. CASE Child_Start(p) \/ Child_RecvEnd(p)
    BY <2>5, <2>6, <2>7 DEF Child_Start, Child_RecvEnd, kernel
  <2>8. CASE Child_Exit(p)
    <3>1. down' = [down EXCEPT ![p] = <<>>] /\ UNCHANGED mem /\ <<>> \in Seq(Slots)
      BY <2>8 DEF Child_Exit
    <3> QED
      BY <2>1, <2>3, <2>4, <2>6, <3>1, DownShorter
  <2>9. CASE Child_Memset(p)
    <3>1. UNCHANGED down /\ mem' = [mem EXCEPT ![idx[p]] = NULL]
      BY <2>9 DEF Child_Memset
    <3>2. SlotInv'
      BY <2>1, <2>4, <3>1 DEF SlotInv, Slots
    <3> QED
      BY <2>5, <3>1, <3>2
  <2>10. CASE Child_Recv(p)
    <3>1. UNCHANGED down /\ mem' = [mem EXCEPT ![idx[p]] = p]
      BY <2>10 DEF Child_Recv
    <3>2. SlotInv'
      BY <2>1, <2>3, <2>4, <3>1 DEF SlotInv, Slots
    <3> QED
      BY <2>5, <3>1, <3>2
  <2>11. CASE Child_Pipe(p)
    <3>1. /\ UNCHANGED mem
          /\ down' = [down EXCEPT ![p] = IF down[p] = <<>> THEN <<>> ELSE Tail(down[p])]
      BY <2>11 DEF Child_Pipe
    <3>2. down[p] \in Seq(Slots)
      BY DEF DownInv
    <3>3. CASE down[p] = <<>>
      <4>1. down' = [down EXCEPT ![p] = <<>>] /\ <<>> \in Seq(Slots)
        BY <3>1, <3>3
      <4> QED
        BY <2>1, <2>3, <2>4, <2>6, <3>1, <4>1, DownShorter
    <3>4. CASE down[p] # <<>>
      <4>1. PICK t \in Seq(Slots) : t = down[p]
        BY <3>2
      <4>2. t # <<>>
        BY <3>4, <4>1
      <4>3. Tail(t) \in Seq(Slots)
        BY <4>2
      <4>4. PICK d \in Seq(Slots) : d = Tail(down[p])
        BY <4>1, <4>3
      <4>5. down' = [down EXCEPT ![p] = d]
        BY <3>1, <3>4, <4>4
      <4> QED
        BY <2>1, <2>3, <2>4, <2>6, <3>1, <3>4, <4>4, <4>5, DownShorter
    <3> QED
      BY <3>3, <3>4
  <2> QED
    BY <1>10, <2>7, <2>8, <2>9, <2>10, <2>11 DEF ChildStep
<1>11. CASE Outside
  <2>1. ASSUME NEW p \in Pids, Connect(p) PROVE SlotInv' /\ DownInv'
    <3>1. /\ child[p] = "away" /\ child' = [child EXCEPT ![p] = "backlog"]
          /\ UNCHANGED <<mem, down, idx, moved>>
      BY <2>1 DEF Connect, parent
    <3>2. \A q \in Pids : (NotYet(q)' <=> NotYet(q)) /\ (Lives(q)' => Lives(q))
      BY <1>5, <3>1 DEF NotYet, ChildStates
    <3> QED
      BY <3>1, <3>2, WordsKept
  <2>2. ASSUME NEW p \in Pids, Say(p) \/ Leave(p) PROVE SlotInv' /\ DownInv'
    BY <1>4, <2>2 DEF Say, Leave, parent, children
  <2>3. CASE Terminate
    BY <1>4, <2>3 DEF Terminate, parent, children
  <2> QED
    BY <1>11, <2>1, <2>2, <2>3 DEF Outside
<1>12. CASE UNCHANGED vars
  BY <1>4, <1>12 DEF vars, parent, children, kernel
<1> QED
  BY <1>2, <1>3, <1>6, <1>7, <1>8, <1>9, <1>10, <1>11, <1>12 DEF Next, ParentStep

(* As long as the table is right, what a child reads from the slot it was  *)
(* told is not what its own client said last.                              *)
THEOREM NoEchoCorrect == Spec => NoEcho
<1> DEFINE Heard == \A p \in Pids :
               Child_Pipe(p) /\ down[p] # <<>> => moved \/ mem[Head(down[p])] # p
<1>1. ASSUME EchoInv PROVE Heard
  <2> SUFFICES ASSUME NEW p \in Pids, Child_Pipe(p), down[p] # <<>>, ~moved
               PROVE  mem[Head(down[p])] # p
    OBVIOUS
  <2>1. Lives(p) /\ down[p] \in Seq(Slots)
    BY <1>1 DEF EchoInv, DownInv, Child_Pipe, Lives
  <2>2. 1 \in 1..Len(down[p]) /\ Head(down[p]) = down[p][1] /\ Head(down[p]) \in Slots
    BY <2>1
  <2>3. Head(down[p]) # idx[p]
    BY <1>1, <2>1, <2>2 DEF EchoInv, DownInv
  <2>4. p # NULL
    BY PidAssumption
  <2> QED
    BY <1>1, <2>2, <2>3, <2>4 DEF EchoInv, SlotInv
<1>2. EchoInv /\ [Next]_vars => [Heard]_vars
  BY <1>1
<1> QED
  BY <1>2, EchoInit, EchoStep, PTL DEF Spec, NoEcho
=============================================================================
