------------------------------ MODULE SqlPool -------------------------------
(***************************************************************************)
(* connection_pool of sql_pool.cpp and the workers that hold one of its    *)
(* connections, by connectionRAII, while they run process().  What is done *)
(* under the mutex is one step; the test of connList.size() is outside it. *)
(* connList is a set: every connection is as good as another.              *)
(***************************************************************************)
EXTENDS Integers, FiniteSets

CONSTANTS
  MYSQLs,       \* the MaxConn connections opened by init()
  Workers,      \* threads that use the pool
  NULL          \* the NULL pointer

ASSUME PoolAssumption ==
  /\ NULL \notin MYSQLs
  /\ IsFiniteSet(MYSQLs) /\ IsFiniteSet(Workers)

VARIABLES
  connList, m_FreeConn, m_CurConn,
  reserve,      \* value of the semaphore
  pc,           \* per worker: label in GetConnection and ReleaseConnection
  con           \* per worker: conRAII

pvars == <<connList, m_FreeConn, m_CurConn, reserve, pc, con>>
pool == <<connList, m_FreeConn, m_CurConn>>

Labels == {"idle", "check", "wait", "pop", "use", "release", "post"}

Init ==
  /\ connList = MYSQLs
  /\ m_FreeConn = Cardinality(MYSQLs)
  /\ m_CurConn = 0
  /\ reserve = Cardinality(MYSQLs)
  /\ pc = [w \in Workers |-> "idle"]
  /\ con = [w \in Workers |-> NULL]

Goto(w, from, to) == pc[w] = from /\ pc' = [pc EXCEPT ![w] = to]

\* connectionRAII mysqlcon( &request->mysql, m_connPool )
Enter(w) ==
  /\ Goto(w, "idle", "check")
  /\ UNCHANGED <<pool, reserve, con>>

\* if( connList.size() == 0 ) return NULL
CheckEmpty(w) ==
  /\ Goto(w, "check", IF connList = {} THEN "use" ELSE "wait")
  /\ UNCHANGED <<pool, reserve, con>>

\* reserve.wait()
Wait(w) ==
  /\ reserve > 0
  /\ reserve' = reserve - 1
  /\ Goto(w, "wait", "pop")
  /\ UNCHANGED <<pool, con>>

\* Mutant: front() without pop_front().
Pop_Kept(w) ==
  /\ Goto(w, "pop", "use")
  /\ \E c \in connList : con' = [con EXCEPT ![w] = c]
  /\ m_FreeConn' = m_FreeConn - 1
  /\ m_CurConn' = m_CurConn + 1
  /\ UNCHANGED <<connList, reserve>>

\* front() and pop_front() under the mutex.
Pop(w) ==
  /\ Goto(w, "pop", "use")
  /\ \E c \in connList :
       /\ connList' = connList \ {c}
       /\ con' = [con EXCEPT ![w] = c]
  /\ m_FreeConn' = m_FreeConn - 1
  /\ m_CurConn' = m_CurConn + 1
  /\ UNCHANGED reserve

\* process() is over; ~connectionRAII.
Leave(w) ==
  /\ Goto(w, "use", "release")
  /\ UNCHANGED <<pool, reserve, con>>

\* ReleaseConnection( NULL ) returns at once.
ReleaseNull(w) ==
  /\ con[w] = NULL
  /\ Goto(w, "release", "idle")
  /\ UNCHANGED <<pool, reserve, con>>

\* Mutants: the connection is dropped instead of given back; the pointer is
\* cleared before it is pushed.
Release_Dropped(w) ==
  /\ con[w] # NULL
  /\ Goto(w, "release", "idle")
  /\ con' = [con EXCEPT ![w] = NULL]
  /\ m_CurConn' = m_CurConn - 1
  /\ UNCHANGED <<connList, m_FreeConn, reserve>>

Release_Cleared(w) ==
  /\ con[w] # NULL
  /\ Goto(w, "release", "post")
  /\ con' = [con EXCEPT ![w] = NULL]
  /\ connList' = connList \cup {con'[w]}
  /\ m_FreeConn' = m_FreeConn + 1
  /\ m_CurConn' = m_CurConn - 1
  /\ UNCHANGED reserve

\* push_back() under the mutex.
Release(w) ==
  /\ con[w] # NULL
  /\ Goto(w, "release", "post")
  /\ connList' = connList \cup {con[w]}
  /\ con' = [con EXCEPT ![w] = NULL]
  /\ m_FreeConn' = m_FreeConn + 1
  /\ m_CurConn' = m_CurConn - 1
  /\ UNCHANGED reserve

\* Mutant: ReleaseConnection returns without post().
Post_Missing(w) ==
  /\ Goto(w, "post", "idle")
  /\ UNCHANGED <<pool, reserve, con>>

\* reserve.post()
Post(w) ==
  /\ Goto(w, "post", "idle")
  /\ reserve' = reserve + 1
  /\ UNCHANGED <<pool, con>>

GetConnection(w) == CheckEmpty(w) \/ Wait(w) \/ Pop(w)
ReleaseConnection(w) == ReleaseNull(w) \/ Release(w) \/ Post(w)
worker(w) == GetConnection(w) \/ Leave(w) \/ ReleaseConnection(w)

Next == \E w \in Workers : Enter(w) \/ worker(w)

Spec == Init /\ [][Next]_pvars

\* A worker that is in the pool's code, or in process(), goes on.
FairSpec == Spec /\ \A w \in Workers : WF_pvars(worker(w))

-----------------------------------------------------------------------------
\* The lists and counters hold what their names say.
TypeOK ==
  /\ connList \subseteq MYSQLs
  /\ m_FreeConn \in Int /\ m_CurConn \in Int
  /\ reserve \in Nat
  /\ pc \in [Workers -> Labels]
  /\ con \in [Workers -> MYSQLs \cup {NULL}]

At(S) == {w \in Workers : pc[w] \in S}
Holders == {w \in Workers : con[w] # NULL}

\* No connection is lost or handed out twice (sql_pool.cpp:66-94): each is in
\* connList or with exactly one worker, and a worker holds one only between
\* GetConnection and ReleaseConnection.
OneOwner ==
  /\ MYSQLs = connList \cup {con[w] : w \in Holders}
  /\ \A w \in Holders : con[w] \notin connList /\ pc[w] \in {"use", "release"}
  /\ \A v, w \in Holders : con[v] = con[w] => v = w

\* The semaphore, decremented before the pop and incremented after the push,
\* never promises more than connList holds, so front() is never called on an
\* empty list, and in the end promises all of it.
TokensMatch ==
  Cardinality(connList) = reserve + Cardinality(At({"pop", "post"}))

\* The counters are those of the lists.
CountsMatch ==
  m_FreeConn = Cardinality(connList) /\ m_CurConn = Cardinality(Holders)

\* Semaphore and counters, which change in different steps, agree with connList
\* and with the workers all the time (sql_pool.cpp:68-78, 85-92).
Counted == TokensMatch /\ CountsMatch

\* With at least as many connections as workers (web_server.cpp:138 and the
\* default of threadpool.h) the unlocked test never sees an empty list and no
\* worker blocks: process() always runs with a connection of its own.
Enough == Cardinality(Workers) <= Cardinality(MYSQLs)
AlwaysServed ==
  Enough => /\ \A w \in Workers : pc[w] = "use" => con[w] # NULL
            /\ \A w \in Workers : pc[w] = "wait" => reserve > 0

\* The workers never all wait for each other: as long as somebody waits on the
\* semaphore, the next connection given back goes to one who waits, whatever
\* was overtaken between the test, the semaphore and the list.
GoesOn == At({"wait"}) # {} ~> At({"pop"}) # {}
=============================================================================
