------------------------------ MODULE TimerSet ------------------------------
(***************************************************************************)
(* What main() may count on: a set of timers with an expiration each, of   *)
(* which tick() takes none that has not expired, and all that have, if the *)
(* wall clock was never set back.                                          *)
(***************************************************************************)
EXTENDS Integers

CONSTANTS
  Timers,      \* addresses of util_timer objects
  LIFETIME,    \* 3 * TIMESLOT
  MaxNow       \* bound: the last instant

VARIABLES
  now, timers, expire,
  steady       \* time( NULL ) has never gone back

svars == <<now, timers, expire, steady>>

SetInit == now = 0 /\ timers = {} /\ expire = [t \in Timers |-> 0] /\ steady = TRUE

SetClock ==
  /\ \/ now < MaxNow /\ now' = now + 1 /\ UNCHANGED steady
     \/ now > 0 /\ now' = now - 1 /\ steady' = FALSE
  /\ UNCHANGED <<timers, expire>>

SetAdd(t) ==
  /\ t \notin timers
  /\ timers' = timers \cup {t}
  /\ expire' = [expire EXCEPT ![t] = now + LIFETIME]
  /\ UNCHANGED <<now, steady>>

SetAdjust(t) ==
  /\ t \in timers
  /\ expire' = [expire EXCEPT ![t] = now + LIFETIME]
  /\ UNCHANGED <<now, timers, steady>>

SetDel(t) ==
  /\ t \in timers
  /\ timers' = timers \ {t}
  /\ UNCHANGED <<now, expire, steady>>

SetTick ==
  /\ \E taken \in SUBSET {t \in timers : expire[t] <= now} :
       /\ steady => taken = {t \in timers : expire[t] <= now}
       /\ timers' = timers \ taken
  /\ UNCHANGED <<now, expire, steady>>

SetNext ==
  SetClock \/ SetTick \/ \E t \in Timers : SetAdd(t) \/ SetAdjust(t) \/ SetDel(t)

SetSpec == SetInit /\ [][SetNext]_svars
=============================================================================
