-------------------------- MODULE TimeWheel_proofs --------------------------
(***************************************************************************)
(* Proofs about TimeWheel for any number of slots and timers, any timeouts *)
(* and any bound on the rotation.  First the lists as they are linked,     *)
(* then what is on them, then the ticks that each timer waits.             *)
(***************************************************************************)
EXTENDS TimeWheel, FiniteSetTheorems, TLAPS

(* The slots, next and prev of a wheel, as the record Lists.               *)
ListsType ==
    [slots : [Slots -> MayBeTimer], next : [Timers -> MayBeTimer], prev : [Timers -> MayBeTimer]]

(* Quotient and remainder. *)
LEMMA SlotArithmetic ==
  ASSUME NEW a \in Nat, NEW b \in Nat \ {0}
  PROVE  a % b \in 0 .. b - 1 /\ a \div b \in Nat
  OBVIOUS

(* A timeout is a number of ticks. *)
LEMMA TicksNat ==
  ASSUME NEW n \in Timeouts
  PROVE  Ticks(n) \in Nat
  BY WheelAssumption, TimeoutAssumption, SlotArithmetic DEF Ticks

(* Where a timer lands is a slot, counted from the hand or from a slot.    *)
LEMMA LandsInSlot ==
  ASSUME NEW s \in Slots, NEW n \in Timeouts
  PROVE  (s + (Ticks(n) % N)) % N \in Slots
<1>1. Ticks(n) % N \in Nat
  BY TicksNat, WheelAssumption, SlotArithmetic
<1>2. s + (Ticks(n) % N) \in Nat
  BY <1>1, WheelAssumption DEF Slots
<1> QED
  BY <1>2, WheelAssumption, SlotArithmetic DEF Slots

(***************************************************************************)
(* The pointer operations.                                                 *)
(***************************************************************************)
LEMMA UnlinkType ==
  ASSUME NEW l \in ListsType, NEW t \in Timers, time_slot \in [Timers -> Slots]
  PROVE  Unlink(l, t) \in ListsType
  BY TimerAssumption DEF Unlink, ListsType, SetIf, MayBeTimer

(* Linking a timer keeps the lists well typed. *)
LEMMA LinkType ==
  ASSUME NEW l \in ListsType, NEW t \in Timers, NEW ts \in Slots
  PROVE  Link(l, t, ts) \in ListsType
  BY TimerAssumption DEF Link, ListsType, SetIf, MayBeTimer

(* Taking t out of lists that hold L leaves lists that hold L without t.   *)
LEMMA UnlinkLinked ==
  ASSUME NEW l \in ListsType, NEW L \in SUBSET Timers, NEW t \in L,
         time_slot \in [Timers -> Slots],
         Linked(l, L, time_slot)
  PROVE  Linked(Unlink(l, t), L \ {t}, time_slot)
<1> DEFINE m == Unlink(l, t)
<1> USE TimerAssumption DEF ListsType, Linked, MayBeTimer
<1>1. CASE l.slots[time_slot[t]] = t
  <2>1. /\ m.slots = [l.slots EXCEPT ![time_slot[t]] = l.next[t]]
        /\ m.next = l.next
        /\ m.prev = IF l.next[t] = NULL THEN l.prev ELSE [l.prev EXCEPT ![l.next[t]] = NULL]
    BY <1>1 DEF Unlink, SetIf
  <2>2. l.prev[t] = NULL
    BY <1>1 DEF HeadsLinked
  <2> HIDE DEF m
  <2>3. HeadsLinked(m, L \ {t}, time_slot)
    BY <1>1, <2>1, <2>2 DEF HeadsLinked, NextLinked, PrevLinked
  <2>4. NextLinked(m, L \ {t}, time_slot)
    BY <1>1, <2>1, <2>2 DEF HeadsLinked, NextLinked, PrevLinked
  <2>5. PrevLinked(m, L \ {t}, time_slot)
    BY <1>1, <2>1, <2>2 DEF HeadsLinked, NextLinked, PrevLinked
  <2> QED
    BY <2>3, <2>4, <2>5 DEF m
<1>2. CASE l.slots[time_slot[t]] # t
  <2>1. /\ m.slots = l.slots
        /\ m.next = [l.next EXCEPT ![l.prev[t]] = l.next[t]]
        /\ m.prev = IF l.next[t] = NULL THEN l.prev ELSE [l.prev EXCEPT ![l.next[t]] = l.prev[t]]
    BY <1>2 DEF Unlink, SetIf
  <2>2. /\ l.prev[t] \in L
        /\ l.next[l.prev[t]] = t
        /\ time_slot[l.prev[t]] = time_slot[t]
    BY <1>2 DEF PrevLinked
  <2> HIDE DEF m
  <2>3. HeadsLinked(m, L \ {t}, time_slot)
    BY <1>2, <2>1, <2>2 DEF HeadsLinked, NextLinked, PrevLinked
  <2>4. NextLinked(m, L \ {t}, time_slot)
    BY <1>2, <2>1, <2>2 DEF HeadsLinked, NextLinked, PrevLinked
  <2>5. PrevLinked(m, L \ {t}, time_slot)
    BY <1>2, <2>1, <2>2 DEF HeadsLinked, NextLinked, PrevLinked
  <2> QED
    BY <2>3, <2>4, <2>5 DEF m
<1> QED
  BY <1>1, <1>2

(* Putting t at the head of list ts of lists that hold L gives lists that  *)
(* hold L and t, with t in slot ts.                                        *)
LEMMA LinkLinked ==
  ASSUME NEW l \in ListsType, NEW L \in SUBSET Timers, NEW t \in Timers \ L, NEW ts \in Slots,
         NEW f \in [Timers -> Slots],
         Linked(l, L, f)
  PROVE  Linked(Link(l, t, ts), L \cup {t}, [f EXCEPT ![t] = ts])
<1> DEFINE m == Link(l, t, ts)
           g == [f EXCEPT ![t] = ts]
<1> USE TimerAssumption DEF ListsType, Linked, MayBeTimer
<1>1. /\ m.slots = [l.slots EXCEPT ![ts] = t]
      /\ m.next = [l.next EXCEPT ![t] = l.slots[ts]]
      /\ m.prev = IF l.slots[ts] = NULL
                  THEN [l.prev EXCEPT ![t] = NULL]
                  ELSE [[l.prev EXCEPT ![t] = NULL] EXCEPT ![l.slots[ts]] = t]
  BY DEF Link, SetIf
<1>2. g[t] = ts /\ \A u \in L : g[u] = f[u]
  OBVIOUS
<1>3. l.slots[ts] # NULL => l.slots[ts] \in L
  BY DEF HeadsLinked
<1> HIDE DEF m, g
<1>4. HeadsLinked(m, L \cup {t}, g)
  BY <1>1, <1>2, <1>3 DEF HeadsLinked, NextLinked, PrevLinked
<1>5. NextLinked(m, L \cup {t}, g)
  BY <1>1, <1>2, <1>3 DEF HeadsLinked, NextLinked, PrevLinked
<1>6. PrevLinked(m, L \cup {t}, g)
  BY <1>1, <1>2, <1>3 DEF HeadsLinked, NextLinked, PrevLinked
<1> QED
  BY <1>4, <1>5, <1>6 DEF m, g

(***************************************************************************)
(* No list runs in a circle: some rank grows along next.                   *)
(***************************************************************************)
Ordered(nx, L) ==
    \E rank \in [Timers -> Nat] : \A t \in L : nx[t] # NULL => rank[t] < rank[nx[t]]

(* Unlinking leaves the lists without a cycle. *)
LEMMA UnlinkOrdered ==
  ASSUME NEW l \in ListsType, NEW L \in SUBSET Timers, NEW t \in L,
         time_slot \in [Timers -> Slots],
         Linked(l, L, time_slot), Ordered(l.next, L)
  PROVE  Ordered(Unlink(l, t).next, L \ {t})
<1> PICK rank \in [Timers -> Nat] : \A u \in L : l.next[u] # NULL => rank[u] < rank[l.next[u]]
  BY DEF Ordered
<1> DEFINE nx == Unlink(l, t).next
<1>1. nx = l.next \/ (nx = [l.next EXCEPT ![l.prev[t]] = l.next[t]] /\ l.slots[time_slot[t]] # t)
  BY DEF Unlink
<1> HIDE DEF nx
<1>2. ASSUME NEW u \in L \ {t}, nx[u] # NULL
      PROVE  rank[u] < rank[nx[u]]
  <2>1. CASE nx = l.next
    BY <1>2, <2>1
  <2>2. CASE nx = [l.next EXCEPT ![l.prev[t]] = l.next[t]] /\ l.slots[time_slot[t]] # t
    <3>1. l.prev[t] \in L /\ l.next[l.prev[t]] = t
      BY <2>2 DEF Linked, PrevLinked
    <3>2. rank[l.prev[t]] < rank[t]
      BY <3>1, TimerAssumption
    <3>3. CASE u = l.prev[t]
      <4>1. nx[u] = l.next[t]
        BY <2>2, <3>3 DEF ListsType
      <4>2. rank[t] < rank[l.next[t]] /\ l.next[t] \in Timers
        BY <4>1, <1>2 DEF Linked, NextLinked
      <4> QED
        BY <3>2, <3>3, <4>1, <4>2
    <3>4. CASE u # l.prev[t]
      BY <1>2, <2>2, <3>4 DEF ListsType
    <3> QED
      BY <3>3, <3>4
  <2> QED
    BY <1>1, <2>1, <2>2
<1> QED
  BY <1>2 DEF Ordered, nx

(* Linking a timer in front of a list makes no cycle. *)
LEMMA LinkOrdered ==
  ASSUME NEW l \in ListsType, NEW L \in SUBSET Timers, NEW t \in Timers \ L, NEW ts \in Slots,
         NEW f \in [Timers -> Slots],
         Linked(l, L, f), Ordered(l.next, L)
  PROVE  Ordered(Link(l, t, ts).next, L \cup {t})
<1> PICK rank \in [Timers -> Nat] : \A u \in L : l.next[u] # NULL => rank[u] < rank[l.next[u]]
  BY DEF Ordered
<1> DEFINE higher == [u \in Timers |-> IF u = t THEN 0 ELSE rank[u] + 1]
           nx == Link(l, t, ts).next
<1>1. nx = [l.next EXCEPT ![t] = l.slots[ts]]
  BY DEF Link
<1>2. higher \in [Timers -> Nat]
  OBVIOUS
<1>3. ASSUME NEW u \in L \cup {t}, nx[u] # NULL
      PROVE  higher[u] < higher[nx[u]]
  <2>1. CASE u = t
    <3>1. nx[u] = l.slots[ts] /\ l.slots[ts] \in L
      BY <1>1, <1>3, <2>1 DEF ListsType, Linked, HeadsLinked
    <3>2. rank[nx[u]] \in Nat
      BY <3>1
    <3> QED
      BY <2>1, <3>1, <3>2
  <2>2. CASE u # t
    <3>1. nx[u] = l.next[u] /\ u \in L
      BY <1>1, <2>2 DEF ListsType
    <3>2. nx[u] \in L /\ rank[u] < rank[nx[u]]
      BY <1>3, <3>1 DEF Linked, NextLinked
    <3> QED
      BY <2>2, <3>1, <3>2
  <2> QED
    BY <2>1, <2>2
<1> QED
  BY <1>2, <1>3 DEF Ordered

(***************************************************************************)
(* Every variable keeps its type: the hand and the slots of the timers     *)
(* stay on the wheel, whatever timeouts are passed.                        *)
(***************************************************************************)
LEMMA ListsTyped ==
  ASSUME TypeOK
  PROVE  Lists \in ListsType
  BY DEF TypeOK, Lists, ListsType

(* An operation that assigns well typed lists leaves them so. *)
LEMMA SetListsType ==
  ASSUME NEW l \in ListsType, SetLists(l)
  PROVE  /\ slots' \in [Slots -> MayBeTimer]
         /\ next' \in [Timers -> MayBeTimer]
         /\ prev' \in [Timers -> MayBeTimer]
  BY DEF SetLists, ListsType

(* No step leaves the types. *)
LEMMA TypeStep ==
  ASSUME TypeOK, [Next]_vars
  PROVE  TypeOK'
<1> USE DEF TypeOK, MayBeTimer
<1>1. ASSUME NEW t \in Timers, NEW n \in Timeouts, AddTimer(t, n)
      PROVE  TypeOK'
  <2> DEFINE ts == (cur_slot + (Ticks(n) % N)) % N
  <2>1. ts \in Slots
    BY LandsInSlot
  <2>2. Ticks(n) \div N \in Nat
    BY TicksNat, SlotArithmetic, WheelAssumption
  <2>3. Link(Lists, t, ts) \in ListsType
    BY <2>1, LinkType, ListsTyped
  <2> HIDE DEF ts
  <2>4. SetLists(Link(Lists, t, ts))
    BY <1>1 DEF AddTimer, ts
  <2>5. slots' \in [Slots -> MayBeTimer] /\ next' \in [Timers -> MayBeTimer] /\ prev' \in [Timers -> MayBeTimer]
    BY <2>3, <2>4, SetListsType
  <2>6. /\ time_slot' = [time_slot EXCEPT ![t] = ts]
        /\ rotation' = [rotation EXCEPT ![t] = Ticks(n) \div N]
        /\ live' = live \cup {t} /\ fired' = fired \ {t}
        /\ UNCHANGED <<cur_slot, phase, tmp, passed>>
    BY <1>1 DEF AddTimer, ts
  <2> QED
    BY <2>1, <2>2, <2>5, <2>6
<1>2. ASSUME NEW t \in Timers, DelTimer(t)
      PROVE  TypeOK'
  <2>1. slots' \in [Slots -> MayBeTimer] /\ next' \in [Timers -> MayBeTimer] /\ prev' \in [Timers -> MayBeTimer]
    BY <1>2, UnlinkType, ListsTyped, SetListsType DEF DelTimer
  <2> QED
    BY <1>2, <2>1 DEF DelTimer
<1>3. ASSUME NEW t \in Timers, NEW n \in Timeouts, AdjustTimer(t, n)
      PROVE  TypeOK'
  <2> DEFINE ts == (time_slot[t] + (Ticks(n) % N)) % N
  <2>1. ts \in Slots
    BY LandsInSlot
  <2>2. Ticks(n) \div N \in Nat
    BY TicksNat, SlotArithmetic, WheelAssumption
  <2>3. Link(Unlink(Lists, t), t, ts) \in ListsType
    BY <2>1, UnlinkType, LinkType, ListsTyped
  <2> HIDE DEF ts
  <2>4. SetLists(Link(Unlink(Lists, t), t, ts))
    BY <1>3 DEF AdjustTimer, ts
  <2>5. slots' \in [Slots -> MayBeTimer] /\ next' \in [Timers -> MayBeTimer] /\ prev' \in [Timers -> MayBeTimer]
    BY <2>3, <2>4, SetListsType
  <2>6. /\ time_slot' = [time_slot EXCEPT ![t] = ts]
        /\ rotation' = [rotation EXCEPT ![t] = @ + (Ticks(n) \div N)]
        /\ UNCHANGED <<cur_slot, live, phase, tmp, fired, passed>>
    BY <1>3 DEF AdjustTimer, ts
  <2>7. rotation' \in [Timers -> Nat]
    BY <2>2, <2>6
  <2> QED
    BY <2>1, <2>5, <2>6, <2>7
<1>4. CASE Tick_Begin
  BY <1>4 DEF Tick_Begin, links
<1>5. CASE Tick_Rotate
  BY <1>5 DEF Tick_Rotate, links
<1>6. CASE Tick_Fire
  <2>1. tmp \in Timers
    BY <1>6 DEF Tick_Fire
  <2>2. slots' \in [Slots -> MayBeTimer] /\ next' \in [Timers -> MayBeTimer] /\ prev' \in [Timers -> MayBeTimer]
    BY <1>6, <2>1, UnlinkType, ListsTyped, SetListsType DEF Tick_Fire
  <2> QED
    BY <1>6, <2>1, <2>2 DEF Tick_Fire
<1>7. CASE Tick_End
  <2>1. (cur_slot + 1) % N \in Slots
    BY WheelAssumption, SlotArithmetic DEF Slots
  <2> QED
    BY <1>7, <2>1 DEF Tick_End, links
<1>8. CASE Destroy_Begin
  BY <1>8 DEF Destroy_Begin, links
<1>9. ASSUME NEW s \in Slots, Destroy_Head(s)
      PROVE  TypeOK'
  BY <1>9 DEF Destroy_Head
<1>10. CASE Destroy_End
  BY <1>10 DEF Destroy_End, links
<1>11. CASE UNCHANGED vars
  BY <1>11 DEF vars
<1> QED
  BY <1>1, <1>2, <1>3, <1>4, <1>5, <1>6, <1>7, <1>8, <1>9, <1>10, <1>11 DEF Next, Tick

(* Slots, links and rotations stay in their sets: add_timer computes a     *)
(* slot of the wheel for every timeout, and tick never leaves it           *)
(* (timeWheelTimer.h).                                                     *)
THEOREM TypeCorrect == Spec => []TypeOK
<1>1. Init => TypeOK
  BY WheelAssumption DEF Init, TypeOK, Slots, MayBeTimer
<1>2. TypeOK /\ [Next]_vars => TypeOK'
  BY TypeStep
<1> QED
  BY <1>1, <1>2, PTL DEF Spec

(***************************************************************************)
(* The inductive invariant of the lists: WellLinked, and no list runs in a *)
(* circle.  Without the latter, the successor that tick() stored could be  *)
(* the timer it deletes.                                                   *)
(***************************************************************************)
InUse == phase \in {"idle", "tick"}

LinkInv == WellLinked /\ (InUse => Ordered(next, live))

(* The wheel begins empty, so its lists are well linked. *)
LEMMA InitLinkInv == Init => LinkInv
<1> SUFFICES ASSUME Init
             PROVE  LinkInv
  OBVIOUS
<1>1. Linked(Lists, live, time_slot)
  BY DEF Init, Linked, HeadsLinked, NextLinked, PrevLinked, Lists
<1>2. Ordered(next, live)
  <2>1. [t \in Timers |-> 0] \in [Timers -> Nat]
    OBVIOUS
  <2> QED
    BY <2>1 DEF Init, Ordered
<1> QED
  BY <1>1, <1>2 DEF Init, LinkInv, WellLinked

(* Linked and Ordered of the next state's lists, when a step sets them.    *)
LEMMA SetListsLinked ==
  ASSUME NEW l \in ListsType, NEW L, NEW f,
         SetLists(l), live' = L, time_slot' = f,
         Linked(l, L, f), Ordered(l.next, L)
  PROVE  Linked(Lists, live, time_slot)' /\ Ordered(next, live)'
<1>1. Lists' = l
  BY DEF SetLists, Lists, ListsType
<1>2. next' = l.next
  BY DEF SetLists
<1>3. Linked(Lists', live', time_slot')
  BY <1>1
<1>4. Ordered(next', live')
  BY <1>2
<1> QED
  BY <1>3, <1>4 DEF Linked, HeadsLinked, NextLinked, PrevLinked, Ordered, Lists

(* add_timer, del_timer and tick keep the lists well linked. *)
LEMMA LinkStep ==
  ASSUME TypeOK, LinkInv, [Next]_vars
  PROVE  LinkInv'
<1> USE DEF LinkInv, WellLinked, InUse
<1>t. Lists \in ListsType /\ time_slot \in [Timers -> Slots] /\ live \in SUBSET Timers
  BY ListsTyped DEF TypeOK
<1>n. Lists.next = next
  BY DEF Lists
<1>1. ASSUME NEW t \in Timers, NEW n \in Timeouts, AddTimer(t, n)
      PROVE  LinkInv'
  <2> DEFINE ts == (cur_slot + (Ticks(n) % N)) % N
             l  == Link(Lists, t, ts)
             f  == [time_slot EXCEPT ![t] = ts]
  <2>1. ts \in Slots
    BY LandsInSlot DEF TypeOK
  <2> HIDE DEF ts
  <2>2. /\ phase = "idle" /\ phase' = "idle" /\ t \in Timers \ live
        /\ SetLists(l) /\ live' = live \cup {t} /\ time_slot' = f
    BY <1>1 DEF AddTimer, ts
  <2>3. Linked(Lists, live, time_slot) /\ Ordered(Lists.next, live)
    BY <2>2, <1>n
  <2>4. l \in ListsType
    BY <2>1, <1>t, LinkType
  <2>5. Linked(l, live \cup {t}, f)
    BY <2>1, <2>2, <2>3, <1>t, LinkLinked
  <2>6. Ordered(l.next, live \cup {t})
    BY <2>1, <2>2, <2>3, <1>t, LinkOrdered
  <2> HIDE DEF l, f
  <2>7. Linked(Lists, live, time_slot)' /\ Ordered(next, live)'
    BY <2>2, <2>4, <2>5, <2>6, SetListsLinked
  <2> QED
    BY <2>2, <2>7
<1>2. ASSUME NEW t \in Timers, DelTimer(t)
      PROVE  LinkInv'
  <2> DEFINE l == Unlink(Lists, t)
  <2>1. /\ phase = "idle" /\ phase' = "idle" /\ t \in live
        /\ SetLists(l) /\ live' = live \ {t} /\ time_slot' = time_slot
    BY <1>2 DEF DelTimer
  <2>2. Linked(Lists, live, time_slot) /\ Ordered(Lists.next, live)
    BY <2>1, <1>n
  <2>3. l \in ListsType
    BY <1>t, UnlinkType
  <2>4. Linked(l, live \ {t}, time_slot)
    BY <2>1, <2>2, <1>t, UnlinkLinked
  <2>5. Ordered(l.next, live \ {t})
    BY <2>1, <2>2, <1>t, UnlinkOrdered
  <2> HIDE DEF l
  <2>6. Linked(Lists, live, time_slot)' /\ Ordered(next, live)'
    BY <2>1, <2>3, <2>4, <2>5, SetListsLinked
  <2> QED
    BY <2>1, <2>6
<1>3. ASSUME NEW t \in Timers, NEW n \in Timeouts, AdjustTimer(t, n)
      PROVE  LinkInv'
  <2> DEFINE ts == (time_slot[t] + (Ticks(n) % N)) % N
             k  == Unlink(Lists, t)
             l  == Link(k, t, ts)
             f  == [time_slot EXCEPT ![t] = ts]
  <2>1. ts \in Slots
    BY LandsInSlot DEF TypeOK
  <2> HIDE DEF ts
  <2>2. /\ phase = "idle" /\ phase' = "idle" /\ t \in live
        /\ SetLists(l) /\ live' = live /\ time_slot' = f
    BY <1>3 DEF AdjustTimer, ts
  <2>3. Linked(Lists, live, time_slot) /\ Ordered(Lists.next, live)
    BY <2>2, <1>n
  <2>4. k \in ListsType
    BY <1>t, UnlinkType
  <2>5. Linked(k, live \ {t}, time_slot)
    BY <2>2, <2>3, <1>t, UnlinkLinked
  <2>6. Ordered(k.next, live \ {t})
    BY <2>2, <2>3, <1>t, UnlinkOrdered
  <2> HIDE DEF k
  <2>7. l \in ListsType
    BY <2>1, <2>4, LinkType
  <2>8. live \ {t} \in SUBSET Timers /\ t \in Timers \ (live \ {t}) /\ live = (live \ {t}) \cup {t}
    BY <2>2, <1>t
  <2>9. Linked(l, (live \ {t}) \cup {t}, f)
    BY <2>1, <2>4, <2>5, <2>8, <1>t, LinkLinked
  <2>10. Ordered(l.next, (live \ {t}) \cup {t})
    BY <2>1, <2>4, <2>5, <2>6, <2>8, <1>t, LinkOrdered
  <2> HIDE DEF l, f
  <2>11. Linked(Lists, live, time_slot)' /\ Ordered(next, live)'
    BY <2>2, <2>7, <2>8, <2>9, <2>10, SetListsLinked
  <2> QED
    BY <2>2, <2>11
<1>4. CASE Tick_Begin
  <2>1. slots[cur_slot] \in live \cup {NULL}
    BY <1>4 DEF Tick_Begin, TypeOK, Linked, HeadsLinked, Lists
  <2> QED
    BY <1>4, <2>1 DEF Tick_Begin, links, Lists, Linked, HeadsLinked, NextLinked, PrevLinked, Ordered
<1>5. CASE Tick_Rotate
  <2>1. tmp \in live /\ next[tmp] \in live \cup {NULL}
    BY <1>5 DEF Tick_Rotate, Linked, NextLinked, Lists
  <2> QED
    BY <1>5, <2>1 DEF Tick_Rotate, links, Lists, Linked, HeadsLinked, NextLinked, PrevLinked, Ordered
<1>6. CASE Tick_Fire
  <2> DEFINE l == Unlink(Lists, tmp)
  <2>1. /\ phase = "tick" /\ phase' = "tick" /\ tmp \in live /\ tmp' = next[tmp]
        /\ SetLists(l) /\ live' = live \ {tmp} /\ time_slot' = time_slot
    BY <1>6 DEF Tick_Fire
  <2>2. Linked(Lists, live, time_slot) /\ Ordered(Lists.next, live)
    BY <2>1, <1>n
  <2>3. next[tmp] \in (live \ {tmp}) \cup {NULL}
    <3> SUFFICES ASSUME next[tmp] # NULL
                 PROVE  next[tmp] \in live \ {tmp}
      OBVIOUS
    <3>1. next[tmp] \in live
      BY <2>1, <2>2 DEF Linked, NextLinked, Lists
    <3>2. PICK rank \in [Timers -> Nat] : \A t \in live : next[t] # NULL => rank[t] < rank[next[t]]
      BY <2>2, <1>n DEF Ordered
    <3>3. rank[tmp] < rank[next[tmp]] /\ rank[tmp] \in Nat
      BY <2>1, <3>2, <1>t
    <3> QED
      BY <3>1, <3>3
  <2>4. l \in ListsType
    BY <2>1, <1>t, UnlinkType
  <2>5. Linked(l, live \ {tmp}, time_slot)
    BY <2>1, <2>2, <1>t, UnlinkLinked
  <2>6. Ordered(l.next, live \ {tmp})
    BY <2>1, <2>2, <1>t, UnlinkOrdered
  <2> HIDE DEF l
  <2>7. Linked(Lists, live, time_slot)' /\ Ordered(next, live)'
    BY <2>1, <2>4, <2>5, <2>6, SetListsLinked
  <2> QED
    BY <2>1, <2>3, <2>7
<1>7. CASE Tick_End
  BY <1>7 DEF Tick_End, links, Lists, Linked, HeadsLinked, NextLinked, PrevLinked, Ordered
<1>8. CASE Destroy_Begin
  BY <1>8 DEF Destroy_Begin
<1>9. ASSUME NEW s \in Slots, Destroy_Head(s)
      PROVE  LinkInv'
  BY <1>9 DEF Destroy_Head
<1>10. CASE Destroy_End
  BY <1>10 DEF Destroy_End
<1>11. CASE UNCHANGED vars
  BY <1>11 DEF vars, links, Lists, Linked, HeadsLinked, NextLinked, PrevLinked, Ordered
<1> QED
  BY <1>1, <1>2, <1>3, <1>4, <1>5, <1>6, <1>7, <1>8, <1>9, <1>10, <1>11 DEF Next, Tick

(***************************************************************************)
(* Whatever timers are added, deleted, adjusted and fired, in whatever     *)
(* order, the lists of the wheel hold exactly the live timers, doubly      *)
(* linked, and tick()'s stored successor is never a deleted timer.         *)
(***************************************************************************)
THEOREM ListsWellLinked == Spec => []WellLinked
<1>1. Init => TypeOK /\ LinkInv
  BY InitLinkInv, WheelAssumption DEF Init, TypeOK, Slots, MayBeTimer
<1>2. TypeOK /\ LinkInv /\ [Next]_vars => (TypeOK /\ LinkInv)'
  BY TypeStep, LinkStep
<1>3. LinkInv => WellLinked
  BY DEF LinkInv
<1> QED
  BY <1>1, <1>2, <1>3, PTL DEF Spec

(***************************************************************************)
(* The lists from their heads.  Chained is what is left of Linked when     *)
(* prev is not kept up, as in the destructor.                              *)
(***************************************************************************)
HeadsChained ==
    \A s \in Slots : slots[s] # NULL =>
        /\ slots[s] \in live /\ time_slot[slots[s]] = s
        /\ \A p \in live : next[p] # slots[s]

NextChained ==
    /\ \A t \in live : next[t] # NULL => next[t] \in live /\ time_slot[next[t]] = time_slot[t]
    /\ \A t, u \in live : next[t] # NULL /\ next[t] = next[u] => t = u

LiveChained ==
    \A t \in live : slots[time_slot[t]] = t \/ \E p \in live : next[p] = t

Chained == HeadsChained /\ NextChained /\ LiveChained /\ Ordered(next, live)

(* A set of natural numbers has a least one. *)
LEMMA Lowest ==
  ASSUME NEW S \in SUBSET Nat, S # {}
  PROVE  \E x \in S : \A y \in S : x <= y
<1>1. PICK x \in S : \A y \in S : ~(<<y, x>> \in OpToRel(<, Nat))
  BY WFMin, NatLessThanWellFounded
<1>2. ASSUME NEW y \in S PROVE x <= y
  <2>1. x \in Nat /\ y \in Nat /\ <<y, x>> \notin OpToRel(<, Nat)
    BY <1>1
  <2>2. x \in Nat /\ y \in Nat /\ ~(y < x)
    BY <2>1 DEF OpToRel
  <2> QED
    BY <2>2
<1> QED
  BY <1>2

(* Doubly linked lists without a circle are chains. *)
LEMMA LinkedChained ==
  ASSUME TypeOK, Linked(Lists, live, time_slot), Ordered(next, live)
  PROVE  Chained
<1> USE TimerAssumption DEF TypeOK, Lists, Linked, HeadsLinked, NextLinked, PrevLinked, MayBeTimer
<1>1. HeadsChained
  BY DEF HeadsChained
<1>2. NextChained
  BY DEF NextChained
<1>3. LiveChained
  BY DEF LiveChained
<1> QED
  BY <1>1, <1>2, <1>3 DEF Chained

(* The function that ListFrom computes, up to node n. *)
Walk(f, p, n) ==
    f = [k \in 0..n |-> IF k = 0 THEN p ELSE IF f[k - 1] = NULL THEN NULL ELSE next[f[k - 1]]]

(* What it gives at each place. *)
LEMMA WalkAt ==
  ASSUME NEW f, NEW p, NEW n \in Nat, Walk(f, p, n)
  PROVE  /\ f[0] = p /\ DOMAIN f = 0..n
         /\ \A k \in 1..n : f[k] = IF f[k - 1] = NULL THEN NULL ELSE next[f[k - 1]]
<1> DEFINE g == [k \in 0..n |-> IF k = 0 THEN p ELSE IF f[k - 1] = NULL THEN NULL ELSE next[f[k - 1]]]
<1>1. f = g
  BY DEF Walk
<1>2. DOMAIN g = 0..n /\ \A k \in 0..n : g[k] = IF k = 0 THEN p ELSE IF f[k - 1] = NULL THEN NULL ELSE next[f[k - 1]]
  OBVIOUS
<1>3. 0 \in 0..n /\ \A k \in 1..n : k \in 0..n /\ k # 0
  OBVIOUS
<1> HIDE DEF g
<1> QED
  BY <1>1, <1>2, <1>3

(* There is one, of any length. *)
LEMMA WalkExists ==
  ASSUME TypeOK, NEW p \in MayBeTimer, NEW n \in Nat
  PROVE  \E f \in [0..n -> MayBeTimer] : Walk(f, p, n)
<1> DEFINE Ok(m) == \E f \in [0..m -> MayBeTimer] : Walk(f, p, m)
           Bad == {m \in Nat : ~Ok(m)}
<1>1. SUFFICES ASSUME Bad # {} PROVE FALSE
  OBVIOUS
<1>2. PICK m \in Bad : \A i \in Bad : m <= i
  <2>1. Bad \in SUBSET Nat
    <3> HIDE DEF Ok
    <3> QED
      OBVIOUS
  <2> HIDE DEF Bad
  <2> QED
    BY <1>1, <2>1, Lowest
<1>3. m \in Nat /\ ~Ok(m)
  BY <1>2
<1>4. m # 0
  <2> DEFINE f == [k \in 0..0 |-> p]
             g == [k \in 0..0 |-> IF k = 0 THEN p ELSE IF f[k - 1] = NULL THEN NULL ELSE next[f[k - 1]]]
  <2>1. f \in [0..0 -> MayBeTimer]
    OBVIOUS
  <2>2. \A k \in 0..0 : k = 0
    OBVIOUS
  <2>3. f = g
    BY <2>2
  <2> HIDE DEF f
  <2>4. Ok(0)
    BY <2>1, <2>3 DEF Walk
  <2> QED
    BY <1>3, <2>4
<1>5. m - 1 \in Nat /\ ~(m <= m - 1)
  BY <1>3, <1>4
<1>6. Ok(m - 1)
  <2> HIDE DEF Ok
  <2> QED
    BY <1>2, <1>5
<1>7. PICK f \in [0..m - 1 -> MayBeTimer] : Walk(f, p, m - 1)
  BY <1>6
<1>8. /\ f[0] = p
      /\ \A k \in 1..m - 1 : f[k] = IF f[k - 1] = NULL THEN NULL ELSE next[f[k - 1]]
  BY <1>5, <1>7, WalkAt
<1> DEFINE last == IF f[m - 1] = NULL THEN NULL ELSE next[f[m - 1]]
           g == [k \in 0..m |-> IF k < m THEN f[k] ELSE last]
           h == [k \in 0..m |-> IF k = 0 THEN p ELSE IF g[k - 1] = NULL THEN NULL ELSE next[g[k - 1]]]
<1>9. m - 1 \in 0..m - 1 /\ \A k \in 0..m : (k < m => k \in 0..m - 1) /\ (~(k < m) => k = m)
  BY <1>5
<1>10. last \in MayBeTimer
  <2>1. f[m - 1] \in MayBeTimer
    BY <1>9
  <2> QED
    BY <2>1 DEF TypeOK, MayBeTimer
<1> HIDE DEF last
<1>11. g \in [0..m -> MayBeTimer]
  BY <1>9, <1>10
<1>12. ASSUME NEW k \in 0..m PROVE g[k] = h[k]
  <2>1. CASE k = 0
    BY <1>5, <1>8, <2>1
  <2>2. CASE k \in 1..m - 1
    <3>1. g[k] = f[k] /\ g[k - 1] = f[k - 1] /\ k # 0
      BY <2>2, <1>5
    <3>2. h[k] = IF g[k - 1] = NULL THEN NULL ELSE next[g[k - 1]]
      BY <3>1
    <3> HIDE DEF g, h
    <3> QED
      BY <2>2, <3>1, <3>2, <1>8
  <2>3. CASE k = m
    <3>1. g[k] = last /\ g[k - 1] = f[m - 1] /\ k # 0
      BY <2>3, <1>3, <1>4
    <3>2. h[k] = IF g[k - 1] = NULL THEN NULL ELSE next[g[k - 1]]
      BY <3>1
    <3> HIDE DEF g, h
    <3> QED
      BY <2>3, <3>1, <3>2 DEF last
  <2> QED
    BY <2>1, <2>2, <2>3, <1>3, <1>4
<1>13. g = h
  <2>1. g = [k \in 0..m |-> g[k]] /\ h = [k \in 0..m |-> h[k]]
    OBVIOUS
  <2> HIDE DEF g, h
  <2> QED
    BY <1>12, <2>1
<1>14. Ok(m)
  <2>1. Walk(g, p, m)
    BY <1>13 DEF Walk
  <2> HIDE DEF g, h
  <2> QED
    BY <1>11, <2>1
<1> QED
  BY <1>3, <1>14

(* The walk from the head of a list stays in the list. *)
LEMMA WalkStays ==
  ASSUME TypeOK, Chained, NEW s \in Slots, NEW n \in Nat, NEW f, Walk(f, slots[s], n)
  PROVE  \A k \in 0..n : f[k] # NULL => f[k] \in live /\ time_slot[f[k]] = s
<1> DEFINE Ok(k) == f[k] # NULL => f[k] \in live /\ time_slot[f[k]] = s
           Bad == {k \in 0..n : ~Ok(k)}
<1>1. SUFFICES ASSUME Bad # {} PROVE FALSE
  OBVIOUS
<1>2. PICK k \in Bad : \A i \in Bad : k <= i
  <2>1. Bad \in SUBSET Nat
    <3> HIDE DEF Ok
    <3> QED
      OBVIOUS
  <2> HIDE DEF Bad
  <2> QED
    BY <1>1, <2>1, Lowest
<1>3. k \in 0..n /\ ~Ok(k)
  BY <1>2
<1>4. f[0] = slots[s] /\ \A i \in 1..n : f[i] = IF f[i - 1] = NULL THEN NULL ELSE next[f[i - 1]]
  BY WalkAt
<1>5. k # 0
  BY <1>3, <1>4 DEF Chained, HeadsChained
<1>6. k \in 1..n /\ k - 1 \in 0..n /\ ~(k <= k - 1)
  BY <1>3, <1>5
<1>7. Ok(k - 1)
  <2> HIDE DEF Ok
  <2> QED
    BY <1>2, <1>6
<1>8. f[k] = IF f[k - 1] = NULL THEN NULL ELSE next[f[k - 1]]
  BY <1>4, <1>6
<1> QED
  BY <1>3, <1>7, <1>8 DEF Chained, NextChained

(* It does not come back: the rank grows until the end. *)
LEMMA WalkClimbs ==
  ASSUME TypeOK, Chained, NEW s \in Slots, NEW n \in Nat, NEW f, Walk(f, slots[s], n),
         f[n] # NULL
  PROVE  /\ \A k \in 0..n : f[k] \in live
         /\ \A i, j \in 0..n : i < j => f[i] # f[j]
<1>1. /\ f[0] = slots[s]
      /\ \A i \in 1..n : f[i] = IF f[i - 1] = NULL THEN NULL ELSE next[f[i - 1]]
  BY WalkAt
<1>2. \A k \in 0..n : f[k] # NULL
  <2> DEFINE Bad == {d \in 0..n : f[n - d] = NULL}
  <2>1. SUFFICES ASSUME Bad # {} PROVE FALSE
    <3>1. \A k \in 0..n : n - k \in 0..n /\ n - (n - k) = k
      OBVIOUS
    <3> QED
      BY <3>1
  <2>2. PICK d \in Bad : \A i \in Bad : d <= i
    <3>1. Bad \in SUBSET Nat
      OBVIOUS
    <3> HIDE DEF Bad
    <3> QED
      BY <2>1, <3>1, Lowest
  <2>3. d \in 0..n /\ f[n - d] = NULL /\ n - 0 = n
    BY <2>2
  <2>4. d # 0
    BY <2>3
  <2>5. d - 1 \in 0..n /\ ~(d <= d - 1) /\ n - (d - 1) \in 1..n /\ (n - (d - 1)) - 1 = n - d
    BY <2>3, <2>4
  <2>6. f[n - (d - 1)] # NULL
    BY <2>2, <2>5
  <2>7. f[n - (d - 1)] = IF f[n - d] = NULL THEN NULL ELSE next[f[n - d]]
    <3>1. PICK i \in 1..n : i = n - (d - 1)
      BY <2>5
    <3>2. i - 1 = n - d
      BY <3>1, <2>5
    <3> QED
      BY <1>1, <3>1, <3>2
  <2> QED
    BY <2>3, <2>6, <2>7
<1>3. \A k \in 0..n : f[k] \in live
  BY <1>2, WalkStays
<1>4. PICK rank \in [Timers -> Nat] : \A t \in live : next[t] # NULL => rank[t] < rank[next[t]]
  BY DEF Chained, Ordered
<1>5. ASSUME NEW i \in 0..n
      PROVE  \A j \in 0..n : i < j => rank[f[i]] < rank[f[j]]
  <2> DEFINE Bad == {j \in 0..n : i < j /\ ~(rank[f[i]] < rank[f[j]])}
  <2>1. SUFFICES ASSUME Bad # {} PROVE FALSE
    OBVIOUS
  <2>2. PICK j \in Bad : \A l \in Bad : j <= l
    <3>1. Bad \in SUBSET Nat
      OBVIOUS
    <3> HIDE DEF Bad
    <3> QED
      BY <2>1, <3>1, Lowest
  <2>3. j \in 0..n /\ i < j /\ ~(rank[f[i]] < rank[f[j]])
    BY <2>2
  <2>4. j \in 1..n /\ j - 1 \in 0..n /\ ~(j <= j - 1) /\ (i = j - 1 \/ i < j - 1)
    BY <2>3
  <2>5. f[j] = next[f[j - 1]] /\ f[j] # NULL /\ f[j - 1] \in live /\ f[i] \in live /\ f[j] \in live
    BY <1>1, <1>2, <1>3, <2>4
  <2>6. rank[f[j - 1]] < rank[f[j]]
    BY <1>4, <2>5
  <2>7. i < j - 1 => rank[f[i]] < rank[f[j - 1]]
    BY <2>2, <2>4
  <2>8. rank[f[i]] \in Nat /\ rank[f[j]] \in Nat /\ rank[f[j - 1]] \in Nat
    BY <2>5 DEF TypeOK
  <2> QED
    BY <2>3, <2>4, <2>6, <2>7, <2>8
<1>6. ASSUME NEW i \in 0..n, NEW j \in 0..n, i < j
      PROVE  f[i] # f[j]
  <2>1. rank[f[i]] < rank[f[j]] /\ rank[f[i]] \in Nat
    BY <1>3, <1>5, <1>6 DEF TypeOK
  <2> QED
    BY <2>1
<1> QED
  BY <1>3, <1>6

(* So within as many steps as there are timers it comes to its end.        *)
LEMMA WalkEnds ==
  ASSUME TypeOK, Chained, NEW s \in Slots, NEW f, Walk(f, slots[s], Cardinality(Timers))
  PROVE  f[Cardinality(Timers)] = NULL
<1> DEFINE n == Cardinality(Timers)
<1>1. n \in Nat
  BY TimerAssumption, FS_CardinalityType
<1>2. SUFFICES ASSUME f[n] # NULL PROVE FALSE
  OBVIOUS
<1>3. DOMAIN f = 0..n
  BY <1>1, WalkAt
<1>4. (\A k \in 0..n : f[k] \in Timers) /\ \A i, j \in 0..n : i < j => f[i] # f[j]
  BY <1>1, <1>2, WalkClimbs DEF TypeOK
<1>5. IsFiniteSet(0..n) /\ Cardinality(0..n) = n + 1
  <2>1. 0 \in Int /\ n \in Int /\ ~(0 > n) /\ n - 0 + 1 = n + 1
    BY <1>1
  <2> HIDE DEF n
  <2> QED
    BY <2>1, FS_Interval
<1>6. Cardinality(Timers) < Cardinality(0..n)
  BY <1>1, <1>5
<1> DEFINE g == [k \in 0..n |-> f[k]]
<1>7. g \in [0..n -> Timers]
  BY <1>4
<1>8. \E i, j \in 0..n : i # j /\ g[i] = g[j]
  <2> HIDE DEF g
  <2> QED
    BY <1>5, <1>6, <1>7, TimerAssumption, FS_PigeonHole
<1>9. PICK i \in 0..n, j \in 0..n : i # j /\ f[i] = f[j]
  BY <1>8
<1>10. i < j \/ j < i
  BY <1>1, <1>9
<1> HIDE DEF n, g
<1> QED
  BY <1>4, <1>9, <1>10

(* What the wheel looks like from the heads of its lists: each holds the   *)
(* timers of its slot.                                                     *)
LEMMA ListFromHead ==
  ASSUME TypeOK, Chained, NEW s \in Slots
  PROVE  ListFrom(slots[s]) = {t \in live : time_slot[t] = s}
<1> DEFINE n == Cardinality(Timers)
           f == CHOOSE f : Walk(f, slots[s], n)
<1>1. n \in Nat
  BY TimerAssumption, FS_CardinalityType
<1>2. slots[s] \in MayBeTimer
  BY DEF TypeOK
<1>3. Walk(f, slots[s], n)
  BY <1>1, <1>2, WalkExists
<1>4. ListFrom(slots[s]) = {f[k] : k \in DOMAIN f} \ {NULL}
  BY DEF ListFrom, Walk
<1> HIDE DEF f
<1>5. /\ f[0] = slots[s] /\ DOMAIN f = 0..n
      /\ \A i \in 1..n : f[i] = IF f[i - 1] = NULL THEN NULL ELSE next[f[i - 1]]
  BY <1>1, <1>3, WalkAt
<1>6. \A k \in 0..n : f[k] # NULL => f[k] \in live /\ time_slot[f[k]] = s
  BY <1>1, <1>3, WalkStays
<1>7. f[n] = NULL
  BY <1>3, WalkEnds
<1> HIDE DEF n
<1>8. \A t \in live : time_slot[t] = s => \E k \in 0..n : f[k] = t
  <2> DEFINE Lost == {t \in live : time_slot[t] = s /\ ~\E k \in 0..n : f[k] = t}
  <2>1. SUFFICES ASSUME Lost # {} PROVE FALSE
    OBVIOUS
  <2>2. PICK rank \in [Timers -> Nat] : \A t \in live : next[t] # NULL => rank[t] < rank[next[t]]
    BY DEF Chained, Ordered
  <2>3. PICK t \in Lost : \A u \in Lost : rank[t] <= rank[u]
    <3> DEFINE R == {rank[u] : u \in Lost}
    <3>1. R \in SUBSET Nat /\ R # {}
      BY <2>1 DEF TypeOK
    <3>2. \E x \in R : \A y \in R : x <= y
      <4> HIDE DEF R
      <4> QED
        BY <3>1, Lowest
    <3> QED
      BY <3>2
  <2>4. t \in live /\ time_slot[t] = s /\ \A k \in 0..n : f[k] # t
    BY <2>3
  <2>5. slots[s] # t
    <3>1. 0 \in 0..n
      BY <1>1
    <3> QED
      BY <2>4, <3>1, <1>5
  <2>6. PICK p \in live : next[p] = t
    BY <2>4, <2>5 DEF Chained, LiveChained
  <2>7. t # NULL /\ time_slot[p] = s /\ rank[p] < rank[t] /\ rank[p] \in Nat /\ rank[t] \in Nat
    <3>1. t # NULL /\ p \in Timers /\ t \in Timers
      BY <2>4, <2>6, TimerAssumption DEF TypeOK
    <3>2. time_slot[p] = s
      BY <2>4, <2>6, <3>1 DEF Chained, NextChained
    <3> QED
      BY <2>2, <2>6, <3>1, <3>2
  <2>8. p \notin Lost
    <3>1. ~(rank[t] <= rank[p])
      BY <2>7
    <3> HIDE DEF Lost
    <3> QED
      BY <2>3, <3>1
  <2>9. PICK k \in 0..n : f[k] = p
    BY <2>6, <2>7, <2>8
  <2>10. p # NULL
    BY <2>6, TimerAssumption DEF TypeOK
  <2>11. k # n
    BY <1>7, <2>9, <2>10
  <2>12. PICK i \in 1..n : i = k + 1 /\ i - 1 = k
    BY <1>1, <2>9, <2>11
  <2>13. f[i] = t
    BY <1>5, <2>6, <2>9, <2>10, <2>12
  <2>14. i \in 0..n
    BY <1>1
  <2> QED
    BY <2>4, <2>13, <2>14
<1>9. \A t \in live : t # NULL
  BY TimerAssumption DEF TypeOK
<1> QED
  BY <1>4, <1>5, <1>6, <1>8, <1>9

(***************************************************************************)
(* The chains hold in every state, those of the destructor too.            *)
(***************************************************************************)
ChainInv == Chained /\ (phase = "gone" => live = {})

(* A chained timer whose rank is least is the head of its list, so that    *)
(* none is left when all lists are empty.                                  *)
LEMMA AllFreed ==
  ASSUME TypeOK, Chained, \A s \in Slots : slots[s] = NULL
  PROVE  live = {}
<1>1. PICK rank \in [Timers -> Nat] : \A t \in live : next[t] # NULL => rank[t] < rank[next[t]]
  BY DEF Chained, Ordered
<1> SUFFICES ASSUME live # {} PROVE FALSE
  OBVIOUS
<1>2. PICK t \in live : \A u \in live : rank[t] <= rank[u]
  <2> DEFINE R == {rank[u] : u \in live}
  <2>1. R \in SUBSET Nat /\ R # {}
    BY DEF TypeOK
  <2>2. \E x \in R : \A y \in R : x <= y
    <3> HIDE DEF R
    <3> QED
      BY <2>1, Lowest
  <2> QED
    BY <2>2
<1>3. t \in Timers /\ t # NULL /\ time_slot[t] \in Slots
  BY TimerAssumption DEF TypeOK
<1>4. PICK p \in live : next[p] = t
  BY <1>3 DEF Chained, LiveChained
<1>5. rank[p] < rank[t] /\ rank[t] <= rank[p] /\ rank[p] \in Nat /\ rank[t] \in Nat
  BY <1>1, <1>2, <1>3, <1>4 DEF TypeOK
<1> QED
  BY <1>5

(* Every step keeps the chains.                                            *)
LEMMA ChainStep ==
  ASSUME TypeOK, LinkInv, ChainInv, [Next]_vars
  PROVE  ChainInv'
<1>1. TypeOK' /\ LinkInv'
  BY TypeStep, LinkStep
<1>2. CASE InUse'
  <2>1. Chained'
    BY <1>1, <1>2, LinkedChained, PTL DEF LinkInv, WellLinked, InUse
  <2> QED
    BY <1>2, <2>1 DEF ChainInv, InUse
<1>3. CASE ~InUse'
  <2>1. \/ Destroy_Begin \/ Destroy_End \/ (\E s \in Slots : Destroy_Head(s)) \/ UNCHANGED vars
    BY <1>3 DEF InUse, Next, Tick, AddTimer, DelTimer, AdjustTimer,
                Tick_Begin, Tick_Rotate, Tick_Fire, Tick_End
  <2> USE DEF ChainInv, Chained, HeadsChained, NextChained, LiveChained, Ordered
  <2>2. CASE Destroy_Begin
    BY <2>2 DEF Destroy_Begin, links
  <2>3. CASE Destroy_End
    <3> HIDE DEF ChainInv, Chained, HeadsChained, NextChained, LiveChained, Ordered
    <3>1. live = {}
      BY <2>3, AllFreed DEF Destroy_End, ChainInv
    <3>2. Chained'
      BY <2>3, <3>1 DEF Destroy_End, links, ChainInv, Chained, HeadsChained, NextChained, LiveChained, Ordered
    <3> QED
      BY <2>3, <3>1, <3>2 DEF Destroy_End, ChainInv
  <2>4. ASSUME NEW s \in Slots, Destroy_Head(s) PROVE ChainInv'
    <3>1. /\ slots[s] # NULL /\ slots[s] \in live /\ time_slot[slots[s]] = s
          /\ slots' = [slots EXCEPT ![s] = next[slots[s]]]
          /\ live' = live \ {slots[s]}
          /\ next' = next /\ time_slot' = time_slot /\ phase = "destroy" /\ phase' = "destroy"
      BY <2>4 DEF Destroy_Head
    <3> HIDE DEF ChainInv, Chained, HeadsChained, NextChained, LiveChained
    <3>2. PICK h \in live : h = slots[s]
      BY <3>1
    <3>3. /\ slots \in [Slots -> MayBeTimer] /\ time_slot \in [Timers -> Slots] /\ live \subseteq Timers
          /\ NULL \notin Timers
      BY TimerAssumption DEF TypeOK
    <3>4. next[h] # h
      BY <3>2, <3>1 DEF ChainInv, Chained, HeadsChained
    <3>5. \A u \in Slots : u # s => slots'[u] = slots[u] /\ slots'[u] # h
      BY <3>1, <3>2, <3>3 DEF ChainInv, Chained, HeadsChained
    <3>6. slots'[s] = next[h]
      BY <3>1, <3>2, <3>3
    <3>7. HeadsChained'
      <4>1. ASSUME NEW u \in Slots, slots'[u] # NULL
            PROVE  slots'[u] \in live' /\ time_slot'[slots'[u]] = u /\ \A p \in live' : next'[p] # slots'[u]
        <5>1. CASE u = s
          BY <4>1, <5>1, <3>1, <3>2, <3>4, <3>6 DEF ChainInv, Chained, NextChained
        <5>2. CASE u # s
          BY <4>1, <5>2, <3>1, <3>2, <3>5 DEF ChainInv, Chained, HeadsChained
        <5> QED
          BY <5>1, <5>2
      <4> QED
        BY <4>1 DEF HeadsChained
    <3>8. NextChained'
      BY <3>1, <3>2 DEF ChainInv, Chained, NextChained, HeadsChained
    <3>9. LiveChained'
      <4>1. ASSUME NEW t \in live'
            PROVE  slots'[time_slot'[t]] = t \/ \E p \in live' : next'[p] = t
        <5>1. t \in live /\ t # h /\ time_slot[t] \in Slots
          BY <3>1, <3>2, <3>3
        <5>2. CASE slots[time_slot[t]] = t
          BY <5>1, <5>2, <3>1, <3>2, <3>5
        <5>3. ASSUME NEW p \in live, next[p] = t PROVE slots'[time_slot'[t]] = t \/ \E q \in live' : next'[q] = t
          <6>1. CASE p = h
            <7>1. time_slot[t] = s
              BY <5>1, <5>3, <6>1, <3>1, <3>2, <3>3 DEF ChainInv, Chained, NextChained
            <7> QED
              BY <5>3, <6>1, <7>1, <3>1, <3>6
          <6>2. CASE p # h
            BY <5>3, <6>2, <3>1, <3>2
          <6> QED
            BY <6>1, <6>2
        <5> QED
          BY <5>1, <5>2, <5>3 DEF ChainInv, Chained, LiveChained
      <4> QED
        BY <4>1 DEF LiveChained
    <3>10. Ordered(next, live)'
      BY <3>1 DEF ChainInv, Chained, Ordered
    <3> QED
      BY <3>1, <3>7, <3>8, <3>9, <3>10 DEF ChainInv, Chained
  <2>5. CASE UNCHANGED vars
    BY <2>5 DEF vars, links
  <2> QED
    BY <2>1, <2>2, <2>3, <2>4, <2>5
<1> QED
  BY <1>2, <1>3

(* The wheel begins empty. *)
LEMMA InitChains == Init => TypeOK /\ LinkInv /\ ChainInv
<1> SUFFICES ASSUME Init PROVE TypeOK /\ LinkInv /\ ChainInv
  OBVIOUS
<1>1. TypeOK /\ LinkInv
  BY InitLinkInv, WheelAssumption DEF Init, TypeOK, Slots, MayBeTimer
<1>2. InUse /\ live = {}
  BY DEF Init, InUse
<1> QED
  BY <1>1, <1>2, LinkedChained DEF LinkInv, WellLinked, InUse, ChainInv

(***************************************************************************)
(* No timer is lost: after any operations each live timer is found on the  *)
(* list of its slot and on no other, so that the hand will come to it, and *)
(* ~time_wheel leaves none (timeWheelTimer.h).                             *)
(***************************************************************************)
THEOREM NoTimerLostCorrect == Spec => []NoTimerLost
<1>1. Init => TypeOK /\ LinkInv /\ ChainInv
  BY InitChains
<1>2. TypeOK /\ LinkInv /\ ChainInv /\ [Next]_vars => (TypeOK /\ LinkInv /\ ChainInv)'
  BY TypeStep, LinkStep, ChainStep
<1>3. TypeOK /\ ChainInv => NoTimerLost
  BY ListFromHead DEF ChainInv, NoTimerLost
<1> QED
  BY <1>1, <1>2, <1>3, PTL DEF Spec

(***************************************************************************)
(* Arithmetic of the wheel: remainders of sums and differences of slots.   *)
(***************************************************************************)
(* Division with remainder. *)
LEMMA Division ==
  ASSUME NEW n \in Nat \ {0}, NEW a \in Int
  PROVE  a % n \in 0..n - 1 /\ a \div n \in Int /\ a = n * (a \div n) + (a % n)
OBVIOUS

(* No number between multiples of n is one. *)
LEMMA NoMultiple ==
  ASSUME NEW n \in Nat \ {0}, NEW k \in Int, NEW d \in 1..n - 1
  PROVE  d # n * k
<1>1. CASE k >= 1
  BY <1>1
<1>2. CASE k <= 0
  BY <1>2
<1> QED
  BY <1>1, <1>2

(* A remainder is the only one. *)
LEMMA Remainder ==
  ASSUME NEW n \in Nat \ {0}, NEW a \in Int, NEW k \in Int, NEW r \in 0..n - 1, a = n * k + r
  PROVE  a % n = r
<1> DEFINE q == a \div n
           m == a % n
<1>1. m \in 0..n - 1 /\ q \in Int /\ a = n * q + m
  BY Division
<1> HIDE DEF q, m
<1>2. m - r = n * (k - q) /\ r - m = n * (q - k)
  <2>1. n * (k - q) = n * k - n * q /\ n * (q - k) = n * q - n * k
    BY <1>1
  <2>2. n * k \in Int /\ n * q \in Int
    BY <1>1
  <2> QED
    BY <1>1, <2>1, <2>2
<1>3. m - r \notin 1..n - 1 /\ r - m \notin 1..n - 1
  <2>1. k - q \in Int /\ q - k \in Int
    BY <1>1
  <2> QED
    BY <1>2, <2>1, NoMultiple
<1>4. m = r
  BY <1>1, <1>3
<1> QED
  BY <1>4 DEF m

(* The sum of two slots, round the wheel. *)
LEMMA SumOfSlots ==
  ASSUME NEW n \in Nat \ {0}, NEW a \in 0..n - 1, NEW b \in 0..n - 1
  PROVE  (a + b) % n = IF a + b < n THEN a + b ELSE a + b - n
<1>1. CASE a + b < n
  <2>1. a + b \in 0..n - 1 /\ a + b = n * 0 + (a + b)
    BY <1>1
  <2> QED
    BY <1>1, <2>1, Remainder
<1>2. CASE ~(a + b < n)
  <2>1. a + b - n \in 0..n - 1 /\ a + b = n * 1 + (a + b - n)
    BY <1>2
  <2> QED
    BY <1>2, <2>1, Remainder
<1> QED
  BY <1>1, <1>2

(* The way from slot b round to slot a. *)
LEMMA WayToSlot ==
  ASSUME NEW n \in Nat \ {0}, NEW a \in 0..n - 1, NEW b \in 0..n - 1
  PROVE  (a - b) % n = IF a >= b THEN a - b ELSE a - b + n
<1>1. CASE a >= b
  <2>1. a - b \in 0..n - 1 /\ a - b = n * 0 + (a - b)
    BY <1>1
  <2> QED
    BY <1>1, <2>1, Remainder
<1>2. CASE ~(a >= b)
  <2>1. a - b + n \in 0..n - 1 /\ a - b = n * (-1) + (a - b + n)
    BY <1>2
  <2> QED
    BY <1>2, <2>1, Remainder
<1> QED
  BY <1>1, <1>2

(* add_timer: a timer put k slots ahead of the hand is k slots away.       *)
LEMMA PutAhead ==
  ASSUME NEW n \in Nat \ {0}, NEW c \in 0..n - 1, NEW k \in 0..n - 1
  PROVE  (((c + k) % n) - c) % n = k
<1>1. PICK s \in 0..n - 1 : s = (c + k) % n
  BY Division
<1>2. s = IF c + k < n THEN c + k ELSE c + k - n
  BY <1>1, SumOfSlots
<1>3. (s - c) % n = IF s >= c THEN s - c ELSE s - c + n
  BY <1>1, WayToSlot
<1> QED
  BY <1>1, <1>2, <1>3

(* adjust_timer: moved k slots on, it is k further away, less a lap if it  *)
(* passed the hand.                                                        *)
LEMMA MovedAhead ==
  ASSUME NEW n \in Nat \ {0}, NEW c \in 0..n - 1, NEW s \in 0..n - 1, NEW k \in 0..n - 1
  PROVE  (((s + k) % n) - c) % n =
           ((s - c) % n) + k - (IF ((s - c) % n) + k >= n THEN n ELSE 0)
<1>1. PICK t \in 0..n - 1 : t = (s + k) % n
  BY Division
<1>2. t = IF s + k < n THEN s + k ELSE s + k - n
  BY <1>1, SumOfSlots
<1>3. (t - c) % n = IF t >= c THEN t - c ELSE t - c + n
  BY <1>1, WayToSlot
<1>4. PICK d \in 0..n - 1 : d = (s - c) % n
  BY Division
<1>5. d = IF s >= c THEN s - c ELSE s - c + n
  BY <1>4, WayToSlot
<1>6. PICK e \in 0..n - 1 : e = (t - c) % n
  BY Division
<1>7. e = d + k - (IF d + k >= n THEN n ELSE 0)
  BY <1>2, <1>3, <1>5, <1>6
<1> QED
  BY <1>1, <1>4, <1>6, <1>7

(* tick: the hand moves a slot nearer to all slots but the one it leaves,  *)
(* which is then a lap away, less one.                                     *)
LEMMA HandMoves ==
  ASSUME NEW n \in Nat \ {0}, NEW c \in 0..n - 1, NEW s \in 0..n - 1
  PROVE  /\ (s - ((c + 1) % n)) % n = (IF s = c THEN n ELSE (s - c) % n) - 1
         /\ s # c => (s - c) % n > 0
<1>1. PICK h \in 0..n - 1 : h = (c + 1) % n
  BY Division
<1>2. h = IF c + 1 < n THEN c + 1 ELSE 0
  <2>1. CASE n = 1
    BY <1>1, <2>1
  <2>2. CASE n # 1
    <3>1. 1 \in 0..n - 1
      BY <2>2
    <3>2. (c + 1) % n = IF c + 1 < n THEN c + 1 ELSE c + 1 - n
      BY <3>1, SumOfSlots
    <3> QED
      BY <1>1, <3>2
  <2> QED
    BY <2>1, <2>2
<1>3. PICK d \in 0..n - 1 : d = (s - c) % n
  BY Division
<1>4. d = IF s >= c THEN s - c ELSE s - c + n
  BY <1>3, WayToSlot
<1>5. PICK e \in 0..n - 1 : e = (s - h) % n
  BY Division
<1>6. e = IF s >= h THEN s - h ELSE s - h + n
  BY <1>5, WayToSlot
<1>7. e = (IF s = c THEN n ELSE d) - 1 /\ (s # c => d > 0)
  BY <1>2, <1>4, <1>6
<1> QED
  BY <1>1, <1>3, <1>5, <1>7

(* Laps and slots to go make a number of ticks, and back. *)
LEMMA LapsAndRest ==
  ASSUME NEW n \in Nat \ {0}, NEW r \in Nat, NEW q \in 0..n - 1
  PROVE  /\ r * n + q \in Nat
         /\ (r * n + q) % n = q
         /\ r * n + q = 0 <=> r = 0 /\ q = 0
<1>1. r * n \in Nat /\ r * n = n * r
  OBVIOUS
<1>2. (r * n + q) % n = q
  BY <1>1, Remainder
<1>3. r # 0 => r * n >= 1
  OBVIOUS
<1> QED
  BY <1>1, <1>2, <1>3

(***************************************************************************)
(* How far a tick has come: what it has passed is a prefix of the list of  *)
(* the hand's slot, tmp is the next timer, and the rest follows it.        *)
(***************************************************************************)
Ahead == {t \in live : time_slot[t] = cur_slot /\ t \notin passed}

PassedInv == \A t \in passed : t \in live /\ time_slot[t] = cur_slot

TmpInv ==
    tmp # NULL => tmp \in Ahead /\ \A p \in live : next[p] = tmp => p \in passed

AheadInv ==
    \A t \in Ahead : /\ next[t] \notin passed
                     /\ t = tmp \/ \E p \in Ahead : next[p] = t

WalkInv ==
    /\ phase = "tick" => PassedInv /\ TmpInv /\ AheadInv
    /\ phase # "tick" => passed = {}

(* No timer is its own successor. *)
LEMMA NoLoop ==
  ASSUME TypeOK, Chained, NEW t \in live
  PROVE  next[t] # t
<1>1. PICK rank \in [Timers -> Nat] : \A u \in live : next[u] # NULL => rank[u] < rank[next[u]]
  BY DEF Chained, Ordered
<1>2. t # NULL /\ t \in Timers /\ rank[t] \in Nat
  BY TimerAssumption DEF TypeOK
<1> QED
  BY <1>1, <1>2

(* When tick reaches the end of the list it has passed all of it. *)
LEMMA AllPassed ==
  ASSUME TypeOK, Chained, AheadInv, tmp = NULL
  PROVE  Ahead = {}
<1>1. PICK rank \in [Timers -> Nat] : \A t \in live : next[t] # NULL => rank[t] < rank[next[t]]
  BY DEF Chained, Ordered
<1> SUFFICES ASSUME Ahead # {} PROVE FALSE
  OBVIOUS
<1>2. PICK t \in Ahead : \A u \in Ahead : rank[t] <= rank[u]
  <2> DEFINE R == {rank[u] : u \in Ahead}
  <2>1. R \in SUBSET Nat /\ R # {}
    BY DEF TypeOK, Ahead
  <2>2. \E x \in R : \A y \in R : x <= y
    <3> HIDE DEF R
    <3> QED
      BY <2>1, Lowest
  <2> QED
    BY <2>2
<1>3. t \in Timers /\ t # NULL
  BY TimerAssumption DEF TypeOK, Ahead
<1>4. PICK p \in Ahead : next[p] = t
  BY <1>3 DEF AheadInv
<1>5. rank[p] < rank[t] /\ rank[t] <= rank[p] /\ rank[p] \in Nat /\ rank[t] \in Nat
  BY <1>1, <1>2, <1>3, <1>4 DEF TypeOK, Ahead
<1> QED
  BY <1>5

(* Where the walk goes on from tmp. *)
LEMMA NextAhead ==
  ASSUME TypeOK, Chained, WalkInv, phase = "tick", tmp # NULL
  PROVE  /\ tmp \in live /\ tmp \in Ahead /\ time_slot[tmp] = cur_slot
         /\ next[tmp] # tmp
         /\ next[tmp] # NULL => next[tmp] \in Ahead /\ \A p \in live : next[p] = next[tmp] => p = tmp
<1>1. tmp \in Ahead /\ tmp \in live /\ time_slot[tmp] = cur_slot /\ next[tmp] \notin passed
  BY DEF WalkInv, TmpInv, AheadInv, Ahead
<1>2. next[tmp] # tmp
  BY <1>1, NoLoop
<1>3. ASSUME next[tmp] # NULL
      PROVE  next[tmp] \in Ahead /\ \A p \in live : next[p] = next[tmp] => p = tmp
  BY <1>1, <1>3 DEF Chained, NextChained, Ahead
<1> QED
  BY <1>1, <1>2, <1>3

(* Every step of tick keeps it. *)
LEMMA WalkStep ==
  ASSUME TypeOK, LinkInv, ChainInv, WalkInv, [Next]_vars
  PROVE  WalkInv'
<1>0. Chained
  BY DEF ChainInv
<1>1. CASE Tick_Begin
  <2>1. /\ phase' = "tick" /\ tmp' = slots[cur_slot] /\ passed = {} /\ passed' = {}
        /\ live' = live /\ time_slot' = time_slot /\ cur_slot' = cur_slot /\ next' = next
    BY <1>1 DEF Tick_Begin, links, WalkInv
  <2>2. Ahead' = {t \in live : time_slot[t] = cur_slot}
    BY <2>1 DEF Ahead
  <2>3. cur_slot \in Slots
    BY DEF TypeOK
  <2>4. PassedInv'
    BY <2>1 DEF PassedInv
  <2>5. TmpInv'
    BY <2>1, <2>2, <2>3, <1>0 DEF TmpInv, Chained, HeadsChained
  <2>6. AheadInv'
    <3>1. ASSUME NEW t \in Ahead' PROVE t = slots[cur_slot] \/ \E p \in Ahead' : next[p] = t
      <4>1. t \in live /\ time_slot[t] = cur_slot /\ t # NULL
        BY <2>2, TimerAssumption DEF TypeOK
      <4> QED
        BY <2>2, <4>1, <1>0 DEF Chained, LiveChained, NextChained
    <3> QED
      BY <2>1, <3>1 DEF AheadInv
  <2> QED
    BY <2>1, <2>4, <2>5, <2>6 DEF WalkInv
<1>2. CASE Tick_Rotate
  <2>1. /\ phase = "tick" /\ phase' = "tick" /\ tmp # NULL /\ tmp' = next[tmp] /\ passed' = passed \cup {tmp}
        /\ live' = live /\ time_slot' = time_slot /\ cur_slot' = cur_slot /\ next' = next
    BY <1>2 DEF Tick_Rotate, links
  <2>2. PICK h \in live : h = tmp
    BY <2>1, <1>0, NextAhead
  <2>3. /\ h \in Ahead /\ time_slot[h] = cur_slot /\ next[h] # h
        /\ next[h] # NULL => next[h] \in Ahead /\ \A p \in live : next[p] = next[h] => p = h
    BY <2>1, <2>2, <1>0, NextAhead
  <2>4. PassedInv /\ TmpInv /\ AheadInv
    BY <2>1 DEF WalkInv
  <2>5. Ahead' = Ahead \ {h}
    BY <2>1, <2>2 DEF Ahead
  <2>6. PassedInv'
    BY <2>1, <2>2, <2>3, <2>4 DEF PassedInv
  <2>7. TmpInv'
    BY <2>1, <2>2, <2>3, <2>5 DEF TmpInv
  <2>8. AheadInv'
    <3>1. ASSUME NEW t \in Ahead, t # h
          PROVE  next[t] \notin passed \cup {h} /\ (t = next[h] \/ \E p \in Ahead \ {h} : next[p] = t)
      <4>1. next[t] \notin passed /\ \E p \in Ahead : next[p] = t
        BY <2>2, <2>4, <3>1 DEF AheadInv
      <4>2. next[t] # h
        BY <2>1, <2>2, <2>4 DEF TmpInv, Ahead
      <4> QED
        BY <4>1, <4>2
    <3> QED
      BY <2>1, <2>2, <2>5, <3>1 DEF AheadInv
  <2> QED
    BY <2>1, <2>6, <2>7, <2>8 DEF WalkInv
<1>3. CASE Tick_Fire
  <2>1. /\ phase = "tick" /\ phase' = "tick" /\ tmp # NULL /\ tmp' = next[tmp] /\ passed' = passed
        /\ live' = live \ {tmp} /\ time_slot' = time_slot /\ cur_slot' = cur_slot
        /\ next' = Unlink(Lists, tmp).next
    BY <1>3 DEF Tick_Fire, SetLists
  <2>2. PICK h \in live : h = tmp
    BY <2>1, <1>0, NextAhead
  <2>3. /\ h \in Ahead /\ time_slot[h] = cur_slot /\ next[h] # h
        /\ next[h] # NULL => next[h] \in Ahead /\ \A p \in live : next[p] = next[h] => p = h
    BY <2>1, <2>2, <1>0, NextAhead
  <2>4. PassedInv /\ TmpInv /\ AheadInv
    BY <2>1 DEF WalkInv
  <2>5. Ahead' = Ahead \ {h}
    BY <2>1, <2>2 DEF Ahead
  <2>6. \A p \in live \ {h} : IF next[p] = h THEN next'[p] = next[h] ELSE next'[p] = next[p]
    <3>1. Linked(Lists, live, time_slot)
      BY <2>1 DEF LinkInv, WellLinked
    <3>2. CASE slots[time_slot[h]] = h
      <4>1. next' = next
        BY <2>1, <2>2, <3>2 DEF Unlink, Lists
      <4>2. \A p \in live : next[p] # h
        <5>1. h # NULL /\ time_slot[h] \in Slots
          BY TimerAssumption DEF TypeOK
        <5> QED
          BY <3>2, <5>1, <1>0 DEF Chained, HeadsChained
      <4> QED
        BY <4>1, <4>2
    <3>3. CASE slots[time_slot[h]] # h
      <4>1. next' = [next EXCEPT ![prev[h]] = next[h]]
        BY <2>1, <2>2, <3>3 DEF Unlink, Lists
      <4>2. prev[h] \in live /\ next[prev[h]] = h
        BY <3>1, <3>3 DEF Linked, PrevLinked, Lists
      <4>3. \A p \in live : next[p] = h => p = prev[h]
        <5>1. h # NULL
          BY TimerAssumption DEF TypeOK
        <5> QED
          BY <4>2, <5>1, <1>0 DEF Chained, NextChained
      <4>4. next \in [Timers -> MayBeTimer] /\ live \subseteq Timers
        BY DEF TypeOK
      <4> QED
        BY <4>1, <4>2, <4>3, <4>4
    <3> QED
      BY <3>2, <3>3
  <2>7. \A p \in live : next[p] = h => p \in passed
    BY <2>1, <2>2, <2>4 DEF TmpInv
  <2>8. PassedInv'
    BY <2>1, <2>2, <2>3, <2>4 DEF PassedInv, Ahead
  <2>9. TmpInv'
    BY <2>1, <2>2, <2>3, <2>5, <2>6, <2>7 DEF TmpInv
  <2>10. AheadInv'
    <3>1. ASSUME NEW t \in Ahead, t # h
          PROVE  next'[t] \notin passed /\ (t = next[h] \/ \E p \in Ahead \ {h} : next'[p] = t)
      <4>1. next[t] \notin passed /\ \E p \in Ahead : next[p] = t
        BY <2>2, <2>4, <3>1 DEF AheadInv
      <4>2. \A p \in Ahead \ {h} : next'[p] = next[p]
        BY <2>6, <2>7 DEF Ahead
      <4> QED
        BY <3>1, <4>1, <4>2
    <3> QED
      BY <2>1, <2>2, <2>5, <3>1 DEF AheadInv
  <2> QED
    BY <2>1, <2>8, <2>9, <2>10 DEF WalkInv
<1>4. CASE Tick_End
  BY <1>4 DEF Tick_End, WalkInv
<1>5. ASSUME NEW t \in Timers, NEW n \in Timeouts, AddTimer(t, n) \/ AdjustTimer(t, n)
      PROVE  WalkInv'
  BY <1>5 DEF AddTimer, AdjustTimer, WalkInv
<1>6. ASSUME NEW t \in Timers, DelTimer(t)
      PROVE  WalkInv'
  BY <1>6 DEF DelTimer, WalkInv
<1>7. CASE Destroy_Begin \/ Destroy_End \/ \E s \in Slots : Destroy_Head(s)
  BY <1>7 DEF Destroy_Begin, Destroy_End, Destroy_Head, WalkInv
<1>8. CASE UNCHANGED vars
  BY <1>8 DEF vars, links, WalkInv, PassedInv, TmpInv, AheadInv, Ahead
<1> QED
  BY <1>1, <1>2, <1>3, <1>4, <1>5, <1>6, <1>7, <1>8 DEF Next, Tick

(***************************************************************************)
(* Refinement: every step of the wheel is a step of the set of timers, or  *)
(* leaves it alone.                                                        *)
(***************************************************************************)
Due == [t \in live |-> DueIn(t)]

(* The way from the hand to the slot of a timer. *)
Way(t) == (time_slot[t] - cur_slot) % N

(* The ways of the timers, and the laps. *)
LEMMA WayType ==
  ASSUME TypeOK, NEW t \in live
  PROVE  /\ Way(t) \in 0..N - 1 /\ rotation[t] \in Nat
         /\ time_slot[t] \in 0..N - 1 /\ cur_slot \in 0..N - 1 /\ N \in Nat \ {0}
<1>1. /\ time_slot[t] \in 0..N - 1 /\ cur_slot \in 0..N - 1 /\ N \in Nat \ {0}
      /\ rotation[t] \in Nat
  BY WheelAssumption DEF TypeOK, Slots
<1>2. time_slot[t] - cur_slot \in Int
  BY <1>1
<1> QED
  BY <1>1, <1>2, Division DEF Way

(* A number of ticks is a number of laps and a number of slots. *)
LEMMA TicksSplit ==
  ASSUME NEW n \in Timeouts
  PROVE  /\ Ticks(n) \in Nat /\ Ticks(n) \div N \in Nat /\ Ticks(n) % N \in 0..N - 1
         /\ (Ticks(n) \div N) * N + (Ticks(n) % N) = Ticks(n)
<1>1. Ticks(n) \in Nat /\ N \in Nat \ {0}
  BY TicksNat, WheelAssumption
<1>2. PICK k \in Nat : k = Ticks(n)
  BY <1>1
<1>3. k % N \in 0..N - 1 /\ k \div N \in Nat /\ k = N * (k \div N) + (k % N)
  <2>1. k \in Int
    BY <1>2
  <2>2. k \div N \in Nat
    BY <1>1, <1>2, SlotArithmetic
  <2> QED
    BY <1>1, <2>1, <2>2, Division
<1>4. (k \div N) * N = N * (k \div N)
  BY <1>1, <1>3
<1> QED
  BY <1>2, <1>3, <1>4

(* add_timer arms the timer for just the number of ticks. *)
LEMMA AddArms ==
  ASSUME TypeOK, WalkInv, NEW t \in Timers, NEW n \in Timeouts, AddTimer(t, n)
  PROVE  TS!Arm(t, Ticks(n))
<1> DEFINE ts == (cur_slot + (Ticks(n) % N)) % N
<1>1. /\ t \notin live /\ live' = live \cup {t} /\ passed = {} /\ passed' = {}
      /\ rotation' = [rotation EXCEPT ![t] = Ticks(n) \div N]
      /\ time_slot' = [time_slot EXCEPT ![t] = ts]
      /\ cur_slot' = cur_slot /\ fired' = fired \ {t}
  BY DEF AddTimer, WalkInv
<1>2. cur_slot \in 0..N - 1 /\ N \in Nat \ {0}
  BY WheelAssumption DEF TypeOK, Slots
<1>3. (ts - cur_slot) % N = Ticks(n) % N
  BY <1>2, TicksSplit, PutAhead
<1> HIDE DEF ts
<1>4. rotation'[t] = Ticks(n) \div N /\ time_slot'[t] = ts
  BY <1>1 DEF TypeOK
<1>5. DueIn(t)' = Ticks(n)
  BY <1>1, <1>3, <1>4, TicksSplit DEF DueIn
<1>6. \A u \in live : u # t /\ DueIn(u)' = DueIn(u)
  <2>1. ASSUME NEW u \in live PROVE u # t /\ rotation'[u] = rotation[u] /\ time_slot'[u] = time_slot[u]
    BY <1>1 DEF TypeOK
  <2> QED
    BY <1>1, <2>1 DEF DueIn
<1>7. [u \in live' |-> DueIn(u)'] = [u \in live \cup {t} |-> IF u = t THEN Ticks(n) ELSE Due[u]]
  BY <1>1, <1>5, <1>6 DEF Due
<1> QED
  BY <1>1, <1>7 DEF TS!Arm, TS!Armed, Due

(* A step that only takes a timer away takes it out of the set. *)
LEMMA Disarms ==
  ASSUME NEW t \in live, live' = live \ {t}, UNCHANGED <<rotation, time_slot, cur_slot, passed>>
  PROVE  t \in TS!Armed /\ Due' = TS!Disarmed(t)
<1>1. \A u \in live : DueIn(u)' = DueIn(u)
  BY DEF DueIn
<1> QED
  BY <1>1 DEF TS!Armed, TS!Disarmed, Due

(* adjust_timer adds the delay, less a lap if the timer passes the hand.   *)
LEMMA AdjustExtends ==
  ASSUME TypeOK, WalkInv, NEW t \in Timers, NEW n \in Timeouts, AdjustTimer(t, n)
  PROVE  TS!Extend(t, Ticks(n))
<1> DEFINE ts == (time_slot[t] + (Ticks(n) % N)) % N
<1>1. /\ t \in live /\ live' = live /\ passed = {} /\ passed' = {}
      /\ rotation' = [rotation EXCEPT ![t] = @ + (Ticks(n) \div N)]
      /\ time_slot' = [time_slot EXCEPT ![t] = ts]
      /\ cur_slot' = cur_slot /\ fired' = fired
  BY DEF AdjustTimer, WalkInv
<1>2. /\ Way(t) \in 0..N - 1 /\ rotation[t] \in Nat
      /\ time_slot[t] \in 0..N - 1 /\ cur_slot \in 0..N - 1 /\ N \in Nat \ {0}
  BY <1>1, WayType
<1>3. PICK k \in 0..N - 1 : k = Ticks(n) % N
  BY TicksSplit
<1>4. PICK laps \in Nat : laps = Ticks(n) \div N
  BY TicksSplit
<1>5. PICK r \in Nat : r = rotation[t]
  BY <1>2
<1>6. PICK q \in 0..N - 1 : q = Way(t)
  BY <1>2
<1>7. laps * N + k = Ticks(n)
  BY <1>3, <1>4, TicksSplit
<1>8. (ts - cur_slot) % N = q + k - (IF q + k >= N THEN N ELSE 0)
  BY <1>2, <1>3, <1>6, MovedAhead DEF Way
<1> HIDE DEF ts
<1>9. rotation'[t] = r + laps /\ time_slot'[t] = ts
  BY <1>1, <1>4, <1>5 DEF TypeOK
<1>10. DueIn(t) = r * N + q
  BY <1>1, <1>5, <1>6 DEF DueIn, Way
<1>11. DueIn(t)' = (r + laps) * N + (q + k - (IF q + k >= N THEN N ELSE 0))
  BY <1>1, <1>8, <1>9 DEF DueIn
<1>12. DueIn(t) % N = q
  <2>1. (r * N + q) % N = q
    BY <1>2, LapsAndRest
  <2> QED
    BY <1>10, <2>1
<1>13. DueIn(t)' = DueIn(t) + Ticks(n) - (IF q + k >= N THEN N ELSE 0)
  <2>1. (r + laps) * N = r * N + laps * N
    BY <1>2
  <2>2. PICK x \in Int : x = r * N
    BY <1>2
  <2>3. PICK y \in Int : y = laps * N
    BY <1>2
  <2>4. PICK z \in Int : z = IF q + k >= N THEN N ELSE 0
    BY <1>2
  <2>5. DueIn(t)' = (x + y) + (q + k - z)
    BY <1>11, <2>1, <2>2, <2>3, <2>4
  <2>6. y + k = Ticks(n) /\ DueIn(t) = x + q
    BY <1>7, <1>10, <2>2, <2>3
  <2>7. (x + y) + (q + k - z) = (x + q) + (y + k) - z
    OBVIOUS
  <2> QED
    BY <2>4, <2>5, <2>6, <2>7
<1>14. \A u \in live : u # t => DueIn(u)' = DueIn(u)
  <2>1. ASSUME NEW u \in live, u # t PROVE rotation'[u] = rotation[u] /\ time_slot'[u] = time_slot[u]
    BY <1>1, <2>1 DEF TypeOK
  <2> QED
    BY <1>1, <2>1 DEF DueIn
<1>15. Due[t] = DueIn(t) /\ DOMAIN Due = live
  BY <1>1 DEF Due
<1> DEFINE longer == Due[t] + Ticks(n) - (IF (Due[t] % N) + (Ticks(n) % N) >= N THEN N ELSE 0)
<1>16. longer = DueIn(t)'
  BY <1>3, <1>12, <1>13, <1>15
<1>17. Due' = [Due EXCEPT ![t] = longer]
  <2> HIDE DEF longer
  <2> QED
    BY <1>1, <1>14, <1>16 DEF Due
<1> QED
  BY <1>1, <1>15, <1>17 DEF TS!Extend, TS!Armed, Due

(* A timer that loses a lap has just been passed: it is due when it was.   *)
LEMMA RotateStutters ==
  ASSUME TypeOK, Chained, WalkInv, Tick_Rotate
  PROVE  Due' = Due /\ fired' = fired
<1>1. /\ phase = "tick" /\ tmp # NULL /\ rotation[tmp] > 0
      /\ rotation' = [rotation EXCEPT ![tmp] = @ - 1] /\ passed' = passed \cup {tmp}
      /\ live' = live /\ time_slot' = time_slot /\ cur_slot' = cur_slot /\ fired' = fired
  BY DEF Tick_Rotate, links
<1>2. PICK h \in live : h = tmp
  BY <1>1, NextAhead
<1>3. h \notin passed /\ time_slot[h] = cur_slot
  BY <1>1, <1>2, NextAhead DEF Ahead
<1>4. Way(h) = 0 /\ N \in Nat
  <2>1. 0 = N * 0 + 0 /\ 0 \in 0..N - 1 /\ N \in Nat \ {0} /\ time_slot[h] - cur_slot = 0
    BY <1>3, WayType
  <2> QED
    BY <2>1, Remainder DEF Way
<1>5. PICK r \in Nat : r = rotation[h] /\ r > 0
  BY <1>1, <1>2, WayType
<1>6. rotation'[h] = r - 1 /\ h \in passed'
  BY <1>1, <1>2, <1>5 DEF TypeOK
<1>7. DueIn(h)' = (r - 1) * N + N
  BY <1>6 DEF DueIn
<1>8. DueIn(h) = r * N + 0
  BY <1>3, <1>4, <1>5 DEF DueIn, Way
<1>9. DueIn(h)' = DueIn(h)
  BY <1>4, <1>5, <1>7, <1>8
<1>10. ASSUME NEW u \in live, u # h PROVE DueIn(u)' = DueIn(u)
  <2>1. rotation'[u] = rotation[u] /\ (u \in passed' <=> u \in passed)
    BY <1>1, <1>2, <1>10 DEF TypeOK
  <2> QED
    BY <1>1, <2>1 DEF DueIn
<1> QED
  BY <1>1, <1>9, <1>10 DEF Due

(* A timer fires when it is due. *)
LEMMA FireFires ==
  ASSUME TypeOK, Chained, WalkInv, Tick_Fire
  PROVE  \E t \in Timers : TS!Fire(t)
<1>1. /\ phase = "tick" /\ tmp # NULL /\ ~(rotation[tmp] > 0)
      /\ fired' = fired \cup {tmp} /\ live' = live \ {tmp}
      /\ UNCHANGED <<rotation, time_slot, cur_slot, passed>>
  BY DEF Tick_Fire
<1>2. PICK h \in live : h = tmp
  BY <1>1, NextAhead
<1>3. h \notin passed /\ time_slot[h] = cur_slot /\ h \in Timers
  BY <1>1, <1>2, NextAhead DEF Ahead, TypeOK
<1>4. Way(h) = 0 /\ rotation[h] = 0 /\ N \in Nat
  <2>1. 0 = N * 0 + 0 /\ 0 \in 0..N - 1 /\ N \in Nat \ {0} /\ time_slot[h] - cur_slot = 0
    BY <1>2, <1>3, WayType
  <2>2. rotation[h] \in Nat
    BY <1>2, WayType
  <2> QED
    BY <1>1, <1>2, <2>1, <2>2, Remainder DEF Way
<1>5. DueIn(h) = 0
  BY <1>3, <1>4 DEF DueIn, Way
<1>6. h \in TS!Armed /\ Due' = TS!Disarmed(h)
  BY <1>1, <1>2, Disarms
<1> QED
  BY <1>1, <1>2, <1>3, <1>5, <1>6 DEF TS!Fire, Due

(* When the hand moves on nothing is due, and all timers come one nearer.  *)
LEMMA EndPasses ==
  ASSUME TypeOK, Chained, WalkInv, Tick_End
  PROVE  TS!PassTick
<1>1. /\ phase = "tick" /\ tmp = NULL /\ cur_slot' = (cur_slot + 1) % N /\ passed' = {}
      /\ live' = live /\ rotation' = rotation /\ time_slot' = time_slot /\ fired' = fired
  BY DEF Tick_End, links
<1>2. Ahead = {} /\ PassedInv
  BY <1>1, AllPassed DEF WalkInv
<1>3. ASSUME NEW t \in live
      PROVE  DueIn(t) > 0 /\ DueIn(t)' = DueIn(t) - 1
  <2>1. /\ Way(t) \in 0..N - 1 /\ rotation[t] \in Nat
        /\ time_slot[t] \in 0..N - 1 /\ cur_slot \in 0..N - 1 /\ N \in Nat \ {0}
    BY WayType
  <2>2. PICK q \in 0..N : q = IF t \in passed THEN N ELSE Way(t)
    BY <2>1
  <2>3. PICK x \in Nat : x = rotation[t] * N
    BY <2>1
  <2>4. t \in passed <=> time_slot[t] = cur_slot
    BY <1>2 DEF PassedInv, Ahead
  <2>5. (time_slot[t] - ((cur_slot + 1) % N)) % N = q - 1 /\ q > 0
    <3>1. /\ (time_slot[t] - ((cur_slot + 1) % N)) % N = (IF time_slot[t] = cur_slot THEN N ELSE Way(t)) - 1
          /\ time_slot[t] # cur_slot => Way(t) > 0
      BY <2>1, HandMoves DEF Way
    <3> QED
      BY <2>1, <2>2, <2>4, <3>1
  <2>6. DueIn(t) = x + q
    BY <2>2, <2>3 DEF DueIn, Way
  <2>7. DueIn(t)' = x + (q - 1)
    BY <1>1, <2>3, <2>5 DEF DueIn
  <2> QED
    BY <2>2, <2>3, <2>5, <2>6, <2>7
<1>4. Due' = [t \in live |-> Due[t] - 1]
  BY <1>1, <1>3 DEF Due
<1> QED
  BY <1>1, <1>3, <1>4 DEF TS!PassTick, TS!Armed, Due

(* Each step of the wheel is one of the set of timers, or none. *)
LEMMA RefinementStep ==
  ASSUME TypeOK, ChainInv, WalkInv, [Next]_vars
  PROVE  [TS!Next]_TS!vars
<1>0. Chained
  BY DEF ChainInv
<1>d. \A n \in Timeouts : Ticks(n) \in {Ticks(m) : m \in Timeouts}
  OBVIOUS
<1>1. ASSUME NEW t \in Timers, NEW n \in Timeouts, AddTimer(t, n)
      PROVE  TS!Next
  BY <1>1, <1>d, AddArms DEF TS!Next
<1>2. ASSUME NEW t \in Timers, NEW n \in Timeouts, AdjustTimer(t, n)
      PROVE  TS!Next
  BY <1>2, <1>d, AdjustExtends DEF TS!Next
<1>3. ASSUME NEW t \in Timers, DelTimer(t)
      PROVE  TS!Next
  <2>1. t \in live /\ live' = live \ {t} /\ UNCHANGED <<rotation, time_slot, cur_slot, passed>> /\ fired' = fired
    BY <1>3 DEF DelTimer
  <2>2. t \in TS!Armed /\ Due' = TS!Disarmed(t)
    BY <2>1, Disarms
  <2>3. TS!Cancel(t)
    BY <2>1, <2>2 DEF TS!Cancel, Due
  <2> QED
    BY <2>3 DEF TS!Next
<1>4. ASSUME NEW s \in Slots, Destroy_Head(s)
      PROVE  TS!Next
  <2>1. /\ slots[s] \in live /\ live' = live \ {slots[s]}
        /\ UNCHANGED <<rotation, time_slot, cur_slot, passed>> /\ fired' = fired
    BY <1>4, <1>0 DEF Destroy_Head, Chained, HeadsChained
  <2>2. PICK t \in live : t = slots[s]
    BY <2>1
  <2>3. t \in TS!Armed /\ Due' = TS!Disarmed(t)
    BY <2>1, <2>2, Disarms
  <2>4. TS!Cancel(t) /\ t \in Timers
    BY <2>1, <2>3 DEF TS!Cancel, Due, TypeOK
  <2> QED
    BY <2>4 DEF TS!Next
<1>5. CASE Tick_Rotate
  BY <1>5, <1>0, RotateStutters DEF TS!vars, Due
<1>6. CASE Tick_Fire
  BY <1>6, <1>0, FireFires DEF TS!Next
<1>7. CASE Tick_End
  BY <1>7, <1>0, EndPasses DEF TS!Next
<1>8. CASE Tick_Begin \/ Destroy_Begin \/ Destroy_End \/ UNCHANGED vars
  <2>1. UNCHANGED <<rotation, time_slot, cur_slot, passed, live, fired>>
    BY <1>8 DEF Tick_Begin, Destroy_Begin, Destroy_End, vars, links
  <2> QED
    BY <2>1 DEF TS!vars, DueIn
<1> QED
  BY <1>1, <1>2, <1>3, <1>4, <1>5, <1>6, <1>7, <1>8 DEF Next, Tick

(***************************************************************************)
(* Whatever is added, adjusted, deleted and fired in between, a callback   *)
(* runs on the very tick at which the delays its timer was given are over, *)
(* and a tick ends only when all due timers were called                    *)
(* (timeWheelTimer.h).                                                     *)
(***************************************************************************)
THEOREM WheelImplementsTimerSet == Spec => ImplementsTimerSet
<1>1. Init => TypeOK /\ LinkInv /\ ChainInv /\ WalkInv
  <2>1. Init => WalkInv
    BY DEF Init, WalkInv
  <2> QED
    BY <2>1, InitChains
<1>2. TypeOK /\ LinkInv /\ ChainInv /\ WalkInv /\ [Next]_vars => (TypeOK /\ LinkInv /\ ChainInv /\ WalkInv)'
  BY TypeStep, LinkStep, ChainStep, WalkStep
<1>3. Init => TS!Init
  BY DEF Init, TS!Init
<1>4. TypeOK /\ ChainInv /\ WalkInv /\ [Next]_vars => [TS!Next]_TS!vars
  BY RefinementStep
<1> QED
  BY <1>1, <1>2, <1>3, <1>4, PTL DEF Spec, ImplementsTimerSet, TS!Spec
=============================================================================
