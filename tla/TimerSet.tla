------------------------------ MODULE TimerSet ------------------------------
(***************************************************************************)
(* What the time wheel promises: a set of armed timers, each with the      *)
(* number of ticks still to pass before it is due.  A timer's callback     *)
(* runs when it is due, never earlier and never later, and a tick passes   *)
(* only when every due timer was called.                                   *)
(*                                                                         *)
(* Extend is what adjust_timer really does to the time left: the delay is  *)
(* added, except that crossing the end of a lap of the wheel takes a whole *)
(* lap away again.                                                         *)
(***************************************************************************)
EXTENDS Integers

CONSTANTS
    Timers,
    Lap,        \* ticks in a lap of the wheel
    Delays      \* the delays, in ticks, that timers are armed or extended by

VARIABLES
    due,        \* due[t]: ticks before armed timer t is due; its domain is the armed timers
    fired       \* the timers whose last arming ended with their callback

vars == <<due, fired>>

Armed == DOMAIN due

Init ==
    /\ due = [t \in {} |-> 0]
    /\ fired = {}

Arm(t, d) ==
    /\ t \notin Armed
    /\ due' = [u \in Armed \cup {t} |-> IF u = t THEN d ELSE due[u]]
    /\ fired' = fired \ {t}

Disarmed(t) == [u \in Armed \ {t} |-> due[u]]

Cancel(t) ==
    /\ t \in Armed
    /\ due' = Disarmed(t)
    /\ UNCHANGED fired

Extend(t, d) ==
    /\ t \in Armed
    /\ due' = [due EXCEPT ![t] =
                @ + d - (IF (@ % Lap) + (d % Lap) >= Lap THEN Lap ELSE 0)]
    /\ UNCHANGED fired

Fire(t) ==
    /\ t \in Armed
    /\ due[t] = 0
    /\ due' = Disarmed(t)
    /\ fired' = fired \cup {t}

PassTick ==
    /\ \A t \in Armed : due[t] > 0
    /\ due' = [t \in Armed |-> due[t] - 1]
    /\ UNCHANGED fired

Next ==
    \/ \E t \in Timers : \/ Cancel(t) \/ Fire(t)
                         \/ \E d \in Delays : Arm(t, d) \/ Extend(t, d)
    \/ PassTick

Spec == Init /\ [][Next]_vars
=============================================================================
