----------------------------- MODULE TimeWheel -----------------------------
(***************************************************************************)
(* practice/timer/timeWheelTimer.h: N slots, each the head of a doubly     *)
(* linked list of timers, and a hand, cur_slot, that moves one slot with   *)
(* every tick.  The lists are modelled pointer by pointer.                 *)
(*                                                                         *)
(* Every operation holds the wheel's lock while it touches the lists, so   *)
(* add_timer, del_timer and adjust_timer are one step each.  They read     *)
(* cur_slot and timer->time_slot before they lock; only the event loop     *)
(* adds, adjusts and ticks, so neither changes in between.  tick() is many *)
(* steps, because it walks a list that its own callbacks make shorter;     *)
(* nobody else gets the lock meanwhile.  Which connection owns which timer *)
(* is the subject of WebServer: here an operation gets a timer that is in  *)
(* the wheel.                                                              *)
(*                                                                         *)
(* A definition Mutant_D_... is the definition D that follows it with one  *)
(* fault put in; it is not part of the model.                              *)
(***************************************************************************)
EXTENDS Integers, FiniteSets

CONSTANTS
    N,              \* slots of the wheel
    SI,             \* seconds per slot
    Timers,         \* the addresses a tw_timer can have
    Timeouts,       \* the timeouts, in seconds, that callers pass
    MaxRotation,    \* bound: adjust_timer is not called above this rotation
    NULL

ASSUME WheelAssumption == N \in Nat \ {0} /\ SI \in Nat \ {0}
ASSUME TimerAssumption == NULL \notin Timers /\ IsFiniteSet(Timers)
ASSUME TimeoutAssumption == Timeouts \subseteq Nat
ASSUME RotationAssumption == MaxRotation \in Nat

VARIABLES
    slots, cur_slot,                    \* the members of time_wheel
    next, prev, rotation, time_slot,    \* the members of each tw_timer
    live,                               \* the timers that new returned and nobody deleted
    phase,                              \* "idle", or what holds the wheel: tick or destructor
    tmp,                                \* tick's local: the timer it looks at
    fired,                              \* timers whose callback ran since they were created
    passed                              \* history: what this tick has looked at and left

links == <<slots, next, prev>>
vars == <<slots, cur_slot, next, prev, rotation, time_slot, live, phase, tmp, fired, passed>>

Slots == 0 .. N - 1
MayBeTimer == Timers \cup {NULL}

Init ==
    /\ slots = [s \in Slots |-> NULL]
    /\ cur_slot = 0
    /\ next = [t \in Timers |-> NULL]
    /\ prev = [t \in Timers |-> NULL]
    /\ rotation = [t \in Timers |-> 0]
    /\ time_slot = [t \in Timers |-> 0]
    /\ live = {}
    /\ phase = "idle"
    /\ tmp = NULL
    /\ fired = {}
    /\ passed = {}

Ticks(timeout) == IF timeout < SI THEN 1 ELSE timeout \div SI

(***************************************************************************)
(* The lists of a wheel: a record of slots, next and prev.  Unlink is      *)
(* del_timer_sup; Link is the insertion that add_timer and adjust_timer    *)
(* share: at the head of the list, after both pointers were nulled (by the *)
(* constructor, or by adjust_timer itself).                                *)
(***************************************************************************)
Lists == [slots |-> slots, next |-> next, prev |-> prev]

(* Set field f of the timer at p, unless p is NULL. *)
SetIf(f, p, v) == IF p = NULL THEN f ELSE [f EXCEPT ![p] = v]

Mutant_Unlink_KeepsPrev(l, t) ==
    LET ts == time_slot[t] IN
    IF l.slots[ts] = t
    THEN [l EXCEPT !.slots[ts] = l.next[t]]
    ELSE [l EXCEPT !.next[l.prev[t]] = l.next[t],
                   !.prev = SetIf(l.prev, l.next[t], l.prev[t])]

Unlink(l, t) ==
    LET ts == time_slot[t] IN
    IF l.slots[ts] = t
    THEN [l EXCEPT !.slots[ts] = l.next[t],
                   !.prev = SetIf(l.prev, l.next[t], NULL)]
    ELSE [l EXCEPT !.next[l.prev[t]] = l.next[t],
                   !.prev = SetIf(l.prev, l.next[t], l.prev[t])]

Mutant_Link_DropsList(l, t, ts) ==
    [l EXCEPT !.slots[ts] = t, !.next[t] = NULL, !.prev[t] = NULL]

Link(l, t, ts) ==
    [slots |-> [l.slots EXCEPT ![ts] = t],
     next  |-> [l.next EXCEPT ![t] = l.slots[ts]],
     prev  |-> SetIf([l.prev EXCEPT ![t] = NULL], l.slots[ts], t)]

SetLists(l) == slots' = l.slots /\ next' = l.next /\ prev' = l.prev

(***************************************************************************)
(* add_timer: t is the address that new returns.                           *)
(***************************************************************************)
AddTimer(t, timeout) ==
    LET ts == (cur_slot + (Ticks(timeout) % N)) % N IN
    /\ phase = "idle"
    /\ t \notin live
    /\ live' = live \cup {t}
    /\ rotation' = [rotation EXCEPT ![t] = Ticks(timeout) \div N]
    /\ time_slot' = [time_slot EXCEPT ![t] = ts]
    /\ SetLists(Link(Lists, t, ts))
    /\ fired' = fired \ {t}
    /\ UNCHANGED <<cur_slot, phase, tmp, passed>>

DelTimer(t) ==
    /\ phase = "idle"
    /\ t \in live
    /\ SetLists(Unlink(Lists, t))
    /\ live' = live \ {t}
    /\ UNCHANGED <<cur_slot, rotation, time_slot, phase, tmp, fired, passed>>

Mutant_AdjustTimer_KeepsPlace(t, timeout) ==
    LET ts == (time_slot[t] + (Ticks(timeout) % N)) % N IN
    /\ phase = "idle"
    /\ t \in live
    /\ rotation[t] + (Ticks(timeout) \div N) <= MaxRotation
    /\ SetLists(Link(Lists, t, ts))
    /\ rotation' = [rotation EXCEPT ![t] = @ + (Ticks(timeout) \div N)]
    /\ time_slot' = [time_slot EXCEPT ![t] = ts]
    /\ UNCHANGED <<cur_slot, live, phase, tmp, fired, passed>>

(* The new slot is counted from the timer's own slot, not from the hand,   *)
(* and no lap is added when the sum wraps around.                          *)
AdjustTimer(t, timeout) ==
    LET ts == (time_slot[t] + (Ticks(timeout) % N)) % N IN
    /\ phase = "idle"
    /\ t \in live
    /\ rotation[t] + (Ticks(timeout) \div N) <= MaxRotation
    /\ SetLists(Link(Unlink(Lists, t), t, ts))
    /\ rotation' = [rotation EXCEPT ![t] = @ + (Ticks(timeout) \div N)]
    /\ time_slot' = [time_slot EXCEPT ![t] = ts]
    /\ UNCHANGED <<cur_slot, live, phase, tmp, fired, passed>>

(***************************************************************************)
(* tick                                                                    *)
(***************************************************************************)
Tick_Begin ==
    /\ phase = "idle"
    /\ phase' = "tick"
    /\ tmp' = slots[cur_slot]
    /\ UNCHANGED <<links, cur_slot, rotation, time_slot, live, fired, passed>>

Mutant_Tick_Rotate_NoLap ==
    /\ phase = "tick"
    /\ tmp # NULL
    /\ rotation[tmp] > 0
    /\ tmp' = next[tmp]
    /\ passed' = passed \cup {tmp}
    /\ UNCHANGED <<links, cur_slot, rotation, time_slot, live, phase, fired>>

(* A timer with laps to go loses one. *)
Tick_Rotate ==
    /\ phase = "tick"
    /\ tmp # NULL
    /\ rotation[tmp] > 0
    /\ rotation' = [rotation EXCEPT ![tmp] = @ - 1]
    /\ tmp' = next[tmp]
    /\ passed' = passed \cup {tmp}
    /\ UNCHANGED <<links, cur_slot, time_slot, live, phase, fired>>

Mutant_Tick_Fire_StopsWalk ==
    /\ phase = "tick"
    /\ tmp # NULL
    /\ rotation[tmp] = 0
    /\ fired' = fired \cup {tmp}
    /\ SetLists(Unlink(Lists, tmp))
    /\ live' = live \ {tmp}
    /\ tmp' = NULL
    /\ UNCHANGED <<cur_slot, rotation, time_slot, phase, passed>>

(* A timer in its last lap is called, unlinked and deleted; the walk goes  *)
(* on with the successor that was stored before.                           *)
Tick_Fire ==
    /\ phase = "tick"
    /\ tmp # NULL
    /\ ~(rotation[tmp] > 0)
    /\ fired' = fired \cup {tmp}
    /\ SetLists(Unlink(Lists, tmp))
    /\ live' = live \ {tmp}
    /\ tmp' = next[tmp]
    /\ UNCHANGED <<cur_slot, rotation, time_slot, phase, passed>>

Mutant_Tick_End_NoWrap ==
    /\ phase = "tick"
    /\ tmp = NULL
    /\ cur_slot' = cur_slot + 1
    /\ phase' = "idle"
    /\ passed' = {}
    /\ UNCHANGED <<links, rotation, time_slot, live, tmp, fired>>

Tick_End ==
    /\ phase = "tick"
    /\ tmp = NULL
    /\ cur_slot' = (cur_slot + 1) % N
    /\ phase' = "idle"
    /\ passed' = {}
    /\ UNCHANGED <<links, rotation, time_slot, live, tmp, fired>>

(***************************************************************************)
(* ~time_wheel: deletes the head of the lists until all are empty.         *)
(***************************************************************************)
Destroy_Begin ==
    /\ phase = "idle"
    /\ phase' = "destroy"
    /\ UNCHANGED <<links, cur_slot, rotation, time_slot, live, tmp, fired, passed>>

Destroy_Head(s) ==
    /\ phase = "destroy"
    /\ slots[s] # NULL
    /\ \A i \in 0 .. s - 1 : slots[i] = NULL
    /\ slots' = [slots EXCEPT ![s] = next[slots[s]]]
    /\ live' = live \ {slots[s]}
    /\ UNCHANGED <<next, prev, cur_slot, rotation, time_slot, phase, tmp, fired, passed>>

Destroy_End ==
    /\ phase = "destroy"
    /\ \A s \in Slots : slots[s] = NULL
    /\ phase' = "gone"
    /\ UNCHANGED <<links, cur_slot, rotation, time_slot, live, tmp, fired, passed>>

-----------------------------------------------------------------------------
Tick == Tick_Begin \/ Tick_Rotate \/ Tick_Fire \/ Tick_End

Next ==
    \/ \E t \in Timers : \/ DelTimer(t)
                         \/ \E n \in Timeouts : AddTimer(t, n) \/ AdjustTimer(t, n)
    \/ Tick
    \/ Destroy_Begin \/ Destroy_End \/ \E s \in Slots : Destroy_Head(s)

Spec == Init /\ [][Next]_vars

(* The alarm is set again after every tick, so ticks keep coming and each  *)
(* is carried through.                                                     *)
FairSpec == Spec /\ WF_vars(Tick)

-----------------------------------------------------------------------------
TypeOK ==
    /\ slots \in [Slots -> MayBeTimer]
    /\ cur_slot \in Slots
    /\ next \in [Timers -> MayBeTimer] /\ prev \in [Timers -> MayBeTimer]
    /\ rotation \in [Timers -> Nat]
    /\ time_slot \in [Timers -> Slots]
    /\ live \subseteq Timers
    /\ phase \in {"idle", "tick", "destroy", "gone"}
    /\ tmp \in MayBeTimer
    /\ fired \subseteq Timers
    /\ passed \subseteq Timers

(* The lists l hold the timers L, each in the list of its slot f[t]: a     *)
(* head has no predecessor, neighbours point at each other and are in the  *)
(* same list, and no pointer leads to a timer outside L.                   *)
HeadsLinked(l, L, f) ==
    \A s \in Slots : l.slots[s] # NULL =>
        l.slots[s] \in L /\ f[l.slots[s]] = s /\ l.prev[l.slots[s]] = NULL

NextLinked(l, L, f) ==
    \A t \in L : l.next[t] # NULL =>
        l.next[t] \in L /\ l.prev[l.next[t]] = t /\ f[l.next[t]] = f[t]

PrevLinked(l, L, f) ==
    \A t \in L :
        \/ l.prev[t] = NULL /\ l.slots[f[t]] = t
        \/ l.prev[t] \in L /\ l.next[l.prev[t]] = t /\ f[l.prev[t]] = f[t]

Linked(l, L, f) == HeadsLinked(l, L, f) /\ NextLinked(l, L, f) /\ PrevLinked(l, L, f)

(* While the wheel is in use its lists hold exactly the timers that exist: *)
(* del_timer_sup never follows a null prev, and no list, nor tick's stored *)
(* successor, leads to a deleted timer.                                    *)
WellLinked ==
    /\ phase \in {"idle", "tick"} => Linked(Lists, live, time_slot)
    /\ phase = "tick" => tmp \in live \cup {NULL}

(* The timers on the list that starts at p. *)
ListFrom(p) ==
    LET node[k \in 0 .. Cardinality(Timers)] ==
            IF k = 0 THEN p
            ELSE IF node[k - 1] = NULL THEN NULL ELSE next[node[k - 1]]
    IN  {node[k] : k \in DOMAIN node} \ {NULL}

(* No timer is lost: every timer that was added and not deleted is on the  *)
(* list of its slot and on no other, so that the hand will find it; and    *)
(* the destructor frees them all.                                          *)
NoTimerLost ==
    /\ \A s \in Slots : ListFrom(slots[s]) = {t \in live : time_slot[t] = s}
    /\ phase = "gone" => live = {}

(* Ticks to pass before timer t is due: full laps, and the way from the    *)
(* hand to its slot; a timer that the running tick has already passed is a *)
(* whole lap away.                                                         *)
DueIn(t) ==
    rotation[t] * N + (IF t \in passed THEN N ELSE (time_slot[t] - cur_slot) % N)

TS == INSTANCE TimerSet WITH
        Lap    <- N,
        Delays <- {Ticks(n) : n \in Timeouts},
        due    <- [t \in live |-> DueIn(t)]

(* The wheel implements the set of timers: each callback runs exactly when *)
(* the delays its timer was given have passed, whatever else is added,     *)
(* adjusted and deleted in between.                                        *)
ImplementsTimerSet == TS!Spec

(* A timer that is never adjusted from some point on does not stay in the  *)
(* wheel for ever: idle connections are closed.                            *)
QuietTimerEnds ==
    \A t \in Timers :
        <>[][\A n \in Timeouts : ~AdjustTimer(t, n)]_vars
            => []<>(t \notin live \/ phase \in {"destroy", "gone"})

(* A connection that shows activity gets its full timeout again: after     *)
(* adjust_timer the timer is at least the given delay away.  (The replaced *)
(* code set timer->absolute_expire = time(NULL) + 3 * TIME_SLOT.)          *)
AdjustRenews ==
    [][\A t \in Timers, n \in Timeouts : AdjustTimer(t, n) => DueIn(t)' >= Ticks(n)]_vars
=============================================================================
