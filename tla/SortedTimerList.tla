--------------------------- MODULE SortedTimerList ---------------------------
(***************************************************************************)
(* mine/practice/ascendSortedTimerList.h: a doubly linked list of timers   *)
(* in ascending order of absolute_expire, modelled pointer by pointer.  A  *)
(* list is a record of head, tail and the links of every timer; a member   *)
(* function maps the list to the list it leaves.  The links of a timer     *)
(* that is taken out stay as they are.                                     *)
(*                                                                         *)
(* A definition Mutant_D_... is the definition D that follows it with one  *)
(* fault put in; it is not part of the model.                              *)
(***************************************************************************)
EXTENDS Integers, FiniteSetsExt

CONSTANTS
    Timers,
    NULL        \* not a timer

EmptyList == [head |-> NULL, tail |-> NULL,
              next |-> [t \in Timers |-> NULL], prev |-> [t \in Timers |-> NULL]]

(* new util_timer: the constructor nulls both links. *)
NewTimer(l, t) == [l EXCEPT !.next[t] = NULL, !.prev[t] = NULL]

(* The timers from head on, along next: element k, NULL after the end.     *)
Chain(l) ==
    LET at[k \in 0..Cardinality(Timers)] ==
            IF k = 0 THEN l.head
            ELSE IF at[k - 1] = NULL THEN NULL ELSE l.next[at[k - 1]]
    IN at

InList(l) == {Chain(l)[k] : k \in DOMAIN Chain(l)} \ {NULL}

(* The walk of add_timer: the first timer that does not expire before t,   *)
(* or NULL.                                                                *)
FirstAbove(l, t, expire) ==
    LET at == Chain(l)
        above == {k \in DOMAIN at : at[k] = NULL \/ expire[at[k]] >= expire[t]}
    IN at[Min(above)]

Mutant_add_timer_KeepsPrev(l, t, expire) ==
    LET above == FirstAbove(l, t, expire) IN
    IF l.head = NULL THEN [l EXCEPT !.head = t, !.tail = t]
    ELSE IF above = l.head
    THEN [l EXCEPT !.next[t] = l.head, !.prev[t] = NULL, !.head = t]
    ELSE IF above # NULL
    THEN [l EXCEPT !.next[l.prev[above]] = t, !.next[t] = above,
                   !.prev[above] = t, !.prev[t] = l.prev[above]]
    ELSE [l EXCEPT !.next[l.tail] = t, !.prev[t] = l.tail, !.next[t] = NULL, !.tail = t]

add_timer(l, t, expire) ==
    LET above == FirstAbove(l, t, expire) IN
    IF l.head = NULL THEN [l EXCEPT !.head = t, !.tail = t]
    ELSE IF above = l.head
    THEN [l EXCEPT !.prev[l.head] = t, !.next[t] = l.head, !.prev[t] = NULL, !.head = t]
    ELSE IF above # NULL
    THEN [l EXCEPT !.next[l.prev[above]] = t, !.next[t] = above,
                   !.prev[above] = t, !.prev[t] = l.prev[above]]
    ELSE [l EXCEPT !.next[l.tail] = t, !.prev[t] = l.tail, !.next[t] = NULL, !.tail = t]

del_timer_sup(l, t) ==
    IF t = l.head
    THEN IF l.head = l.tail
         THEN [l EXCEPT !.head = NULL, !.tail = NULL]
         ELSE [l EXCEPT !.head = l.next[t], !.prev[l.next[t]] = NULL]
    ELSE IF t = l.tail
    THEN [l EXCEPT !.tail = l.prev[t], !.next[l.prev[t]] = NULL]
    ELSE [l EXCEPT !.next[l.prev[t]] = l.next[t], !.prev[l.next[t]] = l.prev[t]]

Mutant_adjust_timer_InPlace(l, t, expire) == l
adjust_timer(l, t, expire) == add_timer(del_timer_sup(l, t), t, expire)

(* Along the links, forwards and backwards, the list holds the timers of T *)
(* once each, in order of expiry.                                          *)
Sorted(l, T, expire) ==
    LET at == Chain(l) n == Cardinality(T) IN
    /\ InList(l) = T
    /\ \A k \in 0..n - 1 : at[k] # NULL
    /\ l.tail = (IF n = 0 THEN NULL ELSE at[n - 1])
    /\ \A k \in 1..n - 1 : /\ expire[at[k - 1]] <= expire[at[k]]
                           /\ l.prev[at[k]] = at[k - 1]
    /\ n = 0 \/ (l.prev[l.head] = NULL /\ l.next[l.tail] = NULL)
=============================================================================
