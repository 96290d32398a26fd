----------------------------- MODULE TimerList ------------------------------
(***************************************************************************)
(* sort_timer_lst of Timer_Linklist.h, pointer by pointer: the doubly      *)
(* linked list that main() keeps its timers in.  Only main() touches it,   *)
(* so an operation is one step.                                            *)
(***************************************************************************)
EXTENDS Integers, FiniteSets

CONSTANTS
  Timers,       \* addresses of util_timer objects
  LIFETIME,     \* 3 * TIMESLOT
  MaxNow,       \* bound: the last instant
  NULL          \* no timer

ASSUME TimerAssumption ==
  /\ NULL \notin Timers /\ IsFiniteSet(Timers)
  /\ LIFETIME \in Nat /\ MaxNow \in Nat

VARIABLES
  now,          \* time( NULL )
  timers,       \* the util_timer objects that are allocated
  expire, prev, next,   \* their fields
  head, tail,   \* tail is left behind when tick() empties the list
  steady        \* history: time( NULL ) has never gone back

tvars == <<now, timers, expire, prev, next, head, tail, steady>>

Init ==
  /\ now = 0
  /\ timers = {}
  /\ expire = [t \in Timers |-> 0]
  /\ prev = [t \in Timers |-> NULL]
  /\ next = [t \in Timers |-> NULL]
  /\ head = NULL
  /\ tail = NULL
  /\ steady = TRUE

\* time( NULL ) is the wall clock, which may be set back.
Clock ==
  /\ \/ now < MaxNow /\ now' = now + 1 /\ UNCHANGED steady
     \/ now > 0 /\ now' = now - 1 /\ steady' = FALSE
  /\ UNCHANGED <<timers, expire, prev, next, head, tail>>

\* Mutant: activity extends the old expiration.
NewExpire_Extend(t) == expire[t] + LIFETIME

\* timer->expire = cur + 3 * TIMESLOT
NewExpire(t) == now + LIFETIME

\* A write through a pointer that may be NULL where the code tests it.
Set(f, t, v) == IF t = NULL THEN f ELSE [f EXCEPT ![t] = v]

\* Mutant: no walk; the timer is put right after start.
Place_Front(t, start, nx, e) == start

\* Where the walk of add_timer( timer, lst_head ) ends: the timer is put after
\* the last node from start on that does not expire later.
Place(t, start, nx, e) ==
  LET walk[p \in Timers] ==
        IF nx[p] = NULL THEN p ELSE IF e[t] < e[nx[p]] THEN p ELSE walk[nx[p]]
  IN walk[start]

\* add_timer( timer, lst_head ) on lists nx and pv.
InsertAfter(t, start, nx, pv, e) ==
  LET p == Place(t, start, nx, e) IN
  /\ next' = [nx EXCEPT ![p] = t, ![t] = nx[p]]
  /\ prev' = Set([pv EXCEPT ![t] = p], nx[p], t)
  /\ tail' = IF nx[p] = NULL THEN t ELSE tail

\* add_timer( timer ): new util_timer, expire = cur + 3 * TIMESLOT, by main.
add_timer(t) ==
  LET e == [expire EXCEPT ![t] = NewExpire(t)] IN
  /\ t \notin timers
  /\ timers' = timers \cup {t}
  /\ expire' = e
  /\ \/ head = NULL
        /\ head' = t /\ tail' = t
        /\ UNCHANGED <<prev, next>>
     \/ head # NULL /\ e[t] < e[head]
        /\ next' = [next EXCEPT ![t] = head]
        /\ prev' = [prev EXCEPT ![head] = t]
        /\ head' = t
        /\ UNCHANGED tail
     \/ head # NULL /\ e[t] >= e[head]
        /\ InsertAfter(t, head, next, prev, e)
        /\ UNCHANGED head
  /\ UNCHANGED <<now, steady>>

\* adjust_timer( timer ), after main has set expire = cur + 3 * TIMESLOT.
adjust_timer(t) ==
  LET e == [expire EXCEPT ![t] = NewExpire(t)]
      n == next[t]
      stays == n # NULL => e[t] < e[n]
  IN
  /\ t \in timers
  /\ expire' = e
  /\ \/ stays
        /\ UNCHANGED <<prev, next, head, tail>>
     \/ ~stays /\ t = head
        /\ head' = n
        /\ InsertAfter(t, n, [next EXCEPT ![t] = NULL], [prev EXCEPT ![n] = NULL], e)
     \/ ~stays /\ t # head
        /\ InsertAfter(t, n, [next EXCEPT ![prev[t]] = n], [prev EXCEPT ![n] = prev[t]], e)
        /\ UNCHANGED head
  /\ UNCHANGED <<now, timers, steady>>

\* delete timer: the fields are gone.
Freed(f, S) == [t \in Timers |-> IF t \in S THEN NULL ELSE f[t]]

\* del_timer( timer )
del_timer(t) ==
  /\ t \in timers
  /\ timers' = timers \ {t}
  /\ \/ t = head /\ t = tail
        /\ head' = NULL /\ tail' = NULL
        /\ next' = Freed(next, {t}) /\ prev' = Freed(prev, {t})
     \/ t = head /\ t # tail
        /\ head' = next[t]
        /\ next' = Freed(next, {t})
        /\ prev' = Freed([prev EXCEPT ![next[t]] = NULL], {t})
        /\ UNCHANGED tail
     \/ t # head /\ t = tail
        /\ tail' = prev[t]
        /\ next' = Freed([next EXCEPT ![prev[t]] = NULL], {t})
        /\ prev' = Freed(prev, {t})
        /\ UNCHANGED head
     \/ t # head /\ t # tail
        /\ next' = Freed([next EXCEPT ![prev[t]] = next[t]], {t})
        /\ prev' = Freed([prev EXCEPT ![next[t]] = prev[t]], {t})
        /\ UNCHANGED <<head, tail>>
  /\ UNCHANGED <<now, expire, steady>>

\* Mutant: the timer that expires this very second is left in the list.
Expired_Later(t) == expire[t] < now

\* cur < tmp->expire ends the loop of tick().
Expired(t) == expire[t] <= now

\* Where the loop of tick() ends: the first timer from head on that lives on.
FirstAlive ==
  LET upto[t \in Timers \cup {NULL}] ==
        IF t = NULL THEN NULL ELSE IF Expired(t) THEN upto[next[t]] ELSE t
  IN upto[head]

\* The timers from head on that come before it.
Passed(first) ==
  LET before[t \in Timers \cup {NULL}] ==
        IF t \in {first, NULL} THEN {} ELSE {t} \cup before[next[t]]
  IN before[head]

\* tick(): from head on, cb_func and delete, up to the first that lives on.
tick ==
  LET first == FirstAlive
      gone == Passed(first)
  IN
  /\ head # NULL
  /\ head' = first
  /\ timers' = timers \ gone
  /\ next' = Freed(next, gone)
  /\ prev' = Set(Freed(prev, gone), first, NULL)
  /\ UNCHANGED <<now, expire, tail, steady>>

Next ==
  Clock \/ tick \/ \E t \in Timers : add_timer(t) \/ adjust_timer(t) \/ del_timer(t)

Spec == Init /\ [][Next]_tvars

-----------------------------------------------------------------------------
\* The fields hold pointers.
TypeOK ==
  /\ now \in 0 .. MaxNow
  /\ timers \subseteq Timers
  /\ expire \in [Timers -> 0 .. MaxNow + LIFETIME]
  /\ prev \in [Timers -> Timers \cup {NULL}]
  /\ next \in [Timers -> Timers \cup {NULL}]
  /\ head \in Timers \cup {NULL}
  /\ tail \in Timers \cup {NULL}
  /\ steady \in BOOLEAN

\* The timers that next leads to from head.
Listed ==
  LET listed[n \in 0 .. Cardinality(Timers)] ==
        IF n = 0 THEN {head} \ {NULL}
        ELSE listed[n - 1] \cup ({next[t] : t \in listed[n - 1]} \ {NULL})
  IN listed[Cardinality(Timers)]

\* The list is well linked after every operation (Timer_Linklist.h:48-174),
\* even when the clock is set back: from head, next leads to every allocated
\* timer and to no freed one, prev undoes next, and tail is the end.  And it is
\* sorted by expire as long as time goes forward: adjust_timer puts a timer that is
\* set back behind its successor, never before its predecessor (76-80).
WellLinked ==
  /\ Listed = timers
  /\ \A t \in timers : next[t] # NULL => prev[next[t]] = t
  /\ \A t \in timers : prev[t] = NULL <=> t = head
  /\ \A t \in timers : next[t] = NULL <=> t = tail
  /\ steady => \A t \in timers : next[t] # NULL => expire[t] <= expire[next[t]]

Abstract == INSTANCE TimerSet

\* So that tick(), which stops at the first timer that lives on, never takes a
\* timer before its time, and takes every expired one while time goes forward
\* (Timer_Linklist.h:132-141): the list is the set of timers Reactor works with.
ImplementsTimerSet == Abstract!SetSpec
=============================================================================
