--------------------------- MODULE SqlPoolProofs ----------------------------
(***************************************************************************)
(* Theorems of SqlPool, for any number of connections and workers.  Finite *)
(* sets are counted through FiniteSetTheorems: a step moves one worker     *)
(* between labels and at most one connection between a worker and connList.*)
(***************************************************************************)
EXTENDS SqlPool, FiniteSetTheorems, TLAPS

Promised == At({"pop", "post"})

\* Each connection is counted once, in connList or with its holder.
Conserved ==
  Cardinality(connList) + Cardinality(Holders) = Cardinality(MYSQLs)

\* With enough connections process() has one.
Served ==
  Enough => \A w \in Workers : pc[w] \in {"use", "release"} => con[w] # NULL

IInv == TypeOK /\ OneOwner /\ TokensMatch /\ CountsMatch /\ Conserved /\ Served

\* The sets that are counted are finite.
LEMMA Finite ==
  ASSUME TypeOK
  PROVE  /\ IsFiniteSet(connList) /\ Cardinality(connList) \in Nat
         /\ IsFiniteSet(Holders) /\ Cardinality(Holders) \in Nat
         /\ IsFiniteSet(Promised) /\ Cardinality(Promised) \in Nat
         /\ Cardinality(MYSQLs) \in Nat /\ Cardinality(Workers) \in Nat
<1>1. connList \in SUBSET MYSQLs /\ Holders \in SUBSET Workers /\ Promised \in SUBSET Workers
  BY DEF TypeOK, Holders, Promised, At
<1>2. IsFiniteSet(connList) /\ IsFiniteSet(Holders) /\ IsFiniteSet(Promised)
  BY <1>1, FS_Subset, PoolAssumption
<1> QED
  BY <1>2, FS_CardinalityType, PoolAssumption

\* A worker that changes its label changes Promised by itself.
LEMMA PromisedMoves ==
  ASSUME TypeOK, NEW w \in Workers, NEW from, NEW to, Goto(w, from, to)
  PROVE  Promised' = IF to \in {"pop", "post"} THEN Promised \cup {w} ELSE Promised \ {w}
BY DEF TypeOK, Promised, At, Goto

\* How a step of one worker changes the number of tokens it holds.
LEMMA PromisedCount ==
  ASSUME TypeOK, NEW w \in Workers, NEW from, NEW to, Goto(w, from, to)
  PROVE  Cardinality(Promised') =
           Cardinality(Promised) + (IF to \in {"pop", "post"} THEN 1 ELSE 0)
                                 - (IF from \in {"pop", "post"} THEN 1 ELSE 0)
<1>1. w \in Promised <=> from \in {"pop", "post"}
  BY DEF Promised, At, Goto
<1>2. IsFiniteSet(Promised) /\ Cardinality(Promised) \in Nat
  BY Finite
<1>3. CASE to \in {"pop", "post"}
  <2>1. Promised' = Promised \cup {w}
    BY <1>3, PromisedMoves
  <2> QED
    BY <1>1, <1>2, <1>3, <2>1, FS_AddElement
<1>4. CASE to \notin {"pop", "post"}
  <2>1. Promised' = Promised \ {w}
    BY <1>4, PromisedMoves
  <2>2. Cardinality(Promised \ {w}) =
          IF w \in Promised THEN Cardinality(Promised) - 1 ELSE Cardinality(Promised)
    BY <1>2, FS_RemoveElement
  <2> QED
    BY <1>1, <1>2, <1>4, <2>1, <2>2
<1> QED
  BY <1>3, <1>4

\* A worker that is in neither set leaves room: the counting argument.
LEMMA Room ==
  ASSUME IInv, Enough, NEW w \in Workers, w \notin Holders, w \notin Promised
  PROVE  Cardinality(Holders) + Cardinality(Promised) < Cardinality(MYSQLs)
<1>1. Holders \cap Promised = {}
  BY DEF IInv, OneOwner, Holders, Promised, At
<1> DEFINE Others == Workers \ {w}
<1>2. IsFiniteSet(Others) /\ Cardinality(Others) = Cardinality(Workers) - 1
  BY FS_RemoveElement, PoolAssumption
<1>3. (Holders \cup Promised) \in SUBSET Others
  BY DEF Holders, Promised, At
<1>4. Cardinality(Holders \cup Promised) <= Cardinality(Others)
  BY <1>2, <1>3, FS_Subset
<1>5. Cardinality(Holders \cup Promised) = Cardinality(Holders) + Cardinality(Promised)
  <2>1. IsFiniteSet(Holders) /\ IsFiniteSet(Promised)
    BY Finite DEF IInv
  <2>2. Cardinality(Holders \cup Promised) =
          Cardinality(Holders) + Cardinality(Promised) - Cardinality(Holders \cap Promised)
    BY <2>1, FS_Union
  <2>3. Cardinality(Holders \cap Promised) = 0
    BY <1>1, FS_EmptySet
  <2> QED
    BY <2>2, <2>3, Finite DEF IInv
<1>6. /\ Cardinality(Holders) \in Nat /\ Cardinality(Promised) \in Nat
      /\ Cardinality(Workers) \in Nat /\ Cardinality(MYSQLs) \in Nat
  BY Finite DEF IInv
<1> QED
  BY <1>2, <1>4, <1>5, <1>6 DEF Enough

\* init() of the pool (sql_pool.cpp:25-63) gives every connection a token.
LEMMA InitIInv == Init => IInv
<1> SUFFICES ASSUME Init PROVE IInv
  OBVIOUS
<1>1. Holders = {} /\ Promised = {}
  BY DEF Init, Holders, Promised, At
<1>2. Cardinality(Holders) = 0 /\ Cardinality(Promised) = 0 /\ Cardinality(MYSQLs) \in Nat
  BY <1>1, FS_EmptySet, FS_CardinalityType, PoolAssumption
<1>3. TypeOK
  BY <1>2 DEF Init, TypeOK, Labels
<1>4. OneOwner
  BY <1>1 DEF Init, OneOwner
<1>5. TokensMatch /\ CountsMatch /\ Conserved
  BY <1>2 DEF Init, TokensMatch, CountsMatch, Conserved, Promised
<1>6. Served
  BY DEF Init, Served
<1> QED
  BY <1>3, <1>4, <1>5, <1>6 DEF IInv

\* The steps that only move a worker from label to label.
Moves(w) == Enter(w) \/ CheckEmpty(w) \/ Wait(w) \/ Leave(w) \/ ReleaseNull(w) \/ Post(w)

\* The steps that touch no list keep the invariant.
LEMMA MoveKeeps ==
  ASSUME IInv, NEW w \in Workers, Moves(w)
  PROVE  IInv'
<1>0. TypeOK /\ OneOwner /\ TokensMatch /\ CountsMatch /\ Conserved /\ Served
  BY DEF IInv
<1>1. UNCHANGED <<pool, con>>
  BY DEF Moves, Enter, CheckEmpty, Wait, Leave, ReleaseNull, Post
<1>2. Holders' = Holders
  BY <1>1 DEF Holders
<1>3. TypeOK'
  BY <1>0, <1>1
  DEF Moves, Enter, CheckEmpty, Wait, Leave, ReleaseNull, Post, Goto, TypeOK, Labels, pool
<1>4. OneOwner'
  <2>1. \A v \in Holders : pc'[v] \in {"use", "release"}
    BY <1>0
    DEF Moves, Enter, CheckEmpty, Wait, Leave, ReleaseNull, Post, Goto, OneOwner, Holders, TypeOK
  <2> QED
    BY <1>0, <1>1, <1>2, <2>1 DEF OneOwner, pool
<1>5. TokensMatch'
  <2>1. Cardinality(Promised) \in Nat /\ reserve \in Nat
    BY <1>0, Finite DEF TypeOK
  <2>2. Cardinality(connList) = reserve + Cardinality(Promised)
    BY <1>0 DEF TokensMatch, Promised
  <2>3. connList' = connList
    BY <1>1 DEF pool
  <2>4. reserve' + Cardinality(Promised') = reserve + Cardinality(Promised)
    <3>1. CASE Enter(w)
      BY <1>0, <2>1, <3>1, PromisedCount DEF Enter
    <3>2. CASE CheckEmpty(w)
      <4>1. \/ Goto(w, "check", "use")
            \/ Goto(w, "check", "wait")
        BY <3>2 DEF CheckEmpty
      <4> QED
        BY <1>0, <2>1, <3>2, <4>1, PromisedCount DEF CheckEmpty
    <3>3. CASE Wait(w)
      BY <1>0, <2>1, <3>3, PromisedCount DEF Wait
    <3>4. CASE Leave(w)
      BY <1>0, <2>1, <3>4, PromisedCount DEF Leave
    <3>5. CASE ReleaseNull(w)
      BY <1>0, <2>1, <3>5, PromisedCount DEF ReleaseNull
    <3>6. CASE Post(w)
      BY <1>0, <2>1, <3>6, PromisedCount DEF Post
    <3> QED
      BY <3>1, <3>2, <3>3, <3>4, <3>5, <3>6 DEF Moves
  <2> QED
    BY <2>2, <2>3, <2>4 DEF TokensMatch, Promised
<1>6. CountsMatch' /\ Conserved'
  BY <1>0, <1>1, <1>2 DEF CountsMatch, Conserved, pool
<1>7. Served'
  <2> SUFFICES ASSUME Enough, NEW v \in Workers, pc'[v] \in {"use", "release"}
               PROVE  con[v] # NULL
    BY <1>1 DEF Served, Enough
  <2>1. CASE CheckEmpty(w) /\ v = w
    <3>1. w \notin Holders /\ w \notin Promised
      BY <1>0, <2>1 DEF CheckEmpty, Goto, OneOwner, Holders, Promised, At
    <3>2. Cardinality(Holders) + Cardinality(Promised) < Cardinality(MYSQLs)
      BY <3>1, Room
    <3>3. Cardinality(connList) # 0
      BY <1>0, <3>2, Finite DEF Conserved
    <3>4. connList # {}
      BY <3>3, FS_EmptySet
    <3>5. pc'[w] = "wait"
      BY <1>0, <2>1, <3>4 DEF CheckEmpty, Goto, TypeOK
    <3> QED
      BY <2>1, <3>5
  <2>2. CASE ~(CheckEmpty(w) /\ v = w)
    <3>1. pc[v] \in {"use", "release"}
      BY <1>0, <2>2
      DEF Moves, Enter, CheckEmpty, Wait, Leave, ReleaseNull, Post, Goto, TypeOK
    <3> QED
      BY <1>0, <3>1 DEF Served
  <2> QED
    BY <2>1, <2>2
<1> QED
  BY <1>3, <1>4, <1>5, <1>6, <1>7 DEF IInv

\* The pop under the mutex (sql_pool.cpp:73-79) keeps the invariant.
LEMMA PopKeeps ==
  ASSUME IInv, NEW w \in Workers, Pop(w)
  PROVE  IInv'
<1>0. TypeOK /\ OneOwner /\ TokensMatch /\ CountsMatch /\ Conserved /\ Served
  BY DEF IInv
<1>1. PICK c \in connList : connList' = connList \ {c} /\ con' = [con EXCEPT ![w] = c]
  BY DEF Pop
<1>2. /\ Goto(w, "pop", "use") /\ reserve' = reserve
      /\ m_FreeConn' = m_FreeConn - 1 /\ m_CurConn' = m_CurConn + 1
  BY DEF Pop
<1>3. c \in MYSQLs /\ c # NULL
  BY <1>0, PoolAssumption DEF TypeOK
<1>4. w \notin Holders
  BY <1>0, <1>2 DEF Goto, OneOwner, Holders
<1>5. Holders' = Holders \cup {w}
  BY <1>0, <1>1, <1>3 DEF Holders, TypeOK
<1>6. TypeOK'
  BY <1>0, <1>1, <1>2, <1>3 DEF TypeOK, Goto, Labels
<1>7. OneOwner'
  <2>1. {con'[v] : v \in Holders'} = {con[v] : v \in Holders} \cup {c}
    BY <1>0, <1>1, <1>4, <1>5 DEF TypeOK, Holders
  <2>2. MYSQLs = connList' \cup {con'[v] : v \in Holders'}
    BY <1>0, <1>1, <2>1 DEF OneOwner
  <2>3. \A v \in Holders' : con'[v] \notin connList' /\ pc'[v] \in {"use", "release"}
    BY <1>0, <1>1, <1>2, <1>4, <1>5 DEF OneOwner, Goto, TypeOK, Holders
  <2>4. \A u, v \in Holders' : con'[u] = con'[v] => u = v
    BY <1>0, <1>1, <1>4, <1>5 DEF OneOwner, TypeOK, Holders
  <2> QED
    BY <2>2, <2>3, <2>4 DEF OneOwner
<1>8. Cardinality(connList') = Cardinality(connList) - 1
  BY <1>0, <1>1, Finite, FS_RemoveElement
<1>9. Cardinality(Holders') = Cardinality(Holders) + 1
  BY <1>0, <1>4, <1>5, Finite, FS_AddElement
<1>10. Cardinality(Promised') = Cardinality(Promised) - 1
  BY <1>0, <1>2, PromisedCount, Finite
<1>11. TokensMatch'
  BY <1>0, <1>2, <1>8, <1>10, Finite DEF TokensMatch, Promised, TypeOK
<1>12. CountsMatch' /\ Conserved'
  BY <1>0, <1>2, <1>8, <1>9, Finite DEF CountsMatch, Conserved
<1>13. Served'
  BY <1>0, <1>1, <1>2, <1>3 DEF Served, Goto, TypeOK, Enough
<1> QED
  BY <1>6, <1>7, <1>11, <1>12, <1>13 DEF IInv

\* The push under the mutex (sql_pool.cpp:86-90) keeps the invariant.
LEMMA ReleaseKeeps ==
  ASSUME IInv, NEW w \in Workers, Release(w)
  PROVE  IInv'
<1>0. TypeOK /\ OneOwner /\ TokensMatch /\ CountsMatch /\ Conserved /\ Served
  BY DEF IInv
<1>1. /\ Goto(w, "release", "post") /\ reserve' = reserve /\ con[w] # NULL
      /\ connList' = connList \cup {con[w]} /\ con' = [con EXCEPT ![w] = NULL]
      /\ m_FreeConn' = m_FreeConn + 1 /\ m_CurConn' = m_CurConn - 1
  BY DEF Release
<1>2. con[w] \in MYSQLs /\ w \in Holders /\ con[w] \notin connList
  BY <1>0, <1>1 DEF TypeOK, OneOwner, Holders
<1>3. Holders' = Holders \ {w}
  BY <1>0, <1>1 DEF Holders, TypeOK
<1>4. TypeOK'
  BY <1>0, <1>1, <1>2 DEF TypeOK, Goto, Labels
<1>5. OneOwner'
  <2>1. {con[v] : v \in Holders} = {con'[v] : v \in Holders'} \cup {con[w]}
    BY <1>0, <1>1, <1>2, <1>3 DEF TypeOK, Holders
  <2>2. MYSQLs = connList' \cup {con'[v] : v \in Holders'}
    BY <1>0, <1>1, <2>1 DEF OneOwner
  <2>3. \A v \in Holders' : con'[v] \notin connList' /\ pc'[v] \in {"use", "release"}
    BY <1>0, <1>1, <1>2, <1>3 DEF OneOwner, Goto, TypeOK, Holders
  <2>4. \A u, v \in Holders' : con'[u] = con'[v] => u = v
    BY <1>0, <1>1, <1>3 DEF OneOwner, TypeOK, Holders
  <2> QED
    BY <2>2, <2>3, <2>4 DEF OneOwner
<1>6. Cardinality(connList') = Cardinality(connList) + 1
  BY <1>0, <1>1, <1>2, Finite, FS_AddElement
<1>7. Cardinality(Holders') = Cardinality(Holders) - 1
  BY <1>0, <1>2, <1>3, Finite, FS_RemoveElement
<1>8. Cardinality(Promised') = Cardinality(Promised) + 1
  BY <1>0, <1>1, PromisedCount, Finite
<1>9. TokensMatch'
  BY <1>0, <1>1, <1>6, <1>8, Finite DEF TokensMatch, Promised, TypeOK
<1>10. CountsMatch' /\ Conserved'
  BY <1>0, <1>1, <1>6, <1>7, Finite DEF CountsMatch, Conserved
<1>11. Served'
  BY <1>0, <1>1 DEF Served, Goto, TypeOK, Enough
<1> QED
  BY <1>4, <1>5, <1>9, <1>10, <1>11 DEF IInv

\* Every step of a worker keeps the invariant.
LEMMA StepKeeps == IInv /\ [Next]_pvars => IInv'
<1> SUFFICES ASSUME IInv, [Next]_pvars PROVE IInv'
  OBVIOUS
<1>1. ASSUME NEW w \in Workers, Enter(w) \/ worker(w) PROVE IInv'
  <2>1. Moves(w) \/ Pop(w) \/ Release(w)
    BY <1>1 DEF worker, GetConnection, ReleaseConnection, Moves
  <2> QED
    BY <2>1, MoveKeeps, PopKeeps, ReleaseKeeps
<1>2. CASE UNCHANGED pvars
  BY <1>2 DEF pvars, pool, IInv, TypeOK, OneOwner, TokensMatch, CountsMatch,
              Conserved, Served, Enough, Holders, At
<1> QED
  BY <1>1, <1>2 DEF Next

\* The invariant holds at every step of the pool.
LEMMA Invariance == Spec => []IInv
BY InitIInv, StepKeeps, PTL DEF Spec

\* The list, the counters and the workers' pointers keep their types
\* (sql_pool.cpp:66-94).
THEOREM PoolTypeCorrect == Spec => []TypeOK
BY Invariance, PTL DEF IInv

\* No connection of the pool is lost or handed out twice, however many workers
\* ask for one.
THEOREM EveryConnOwned == Spec => []OneOwner
BY Invariance, PTL DEF IInv

\* The semaphore and the counters agree with the lists at every step.
THEOREM TokensAgree == Spec => []Counted
BY Invariance, PTL DEF IInv, Counted

\* front() is never called on an empty list: a worker past reserve.wait() finds
\* a connection (sql_pool.cpp:72-75).
THEOREM PopFindsOne == Spec => [](\A w \in Workers : pc[w] = "pop" => connList # {})
<1>1. IInv => \A w \in Workers : pc[w] = "pop" => connList # {}
  <2> SUFFICES ASSUME IInv, NEW w \in Workers, pc[w] = "pop" PROVE connList # {}
    OBVIOUS
  <2>1. Promised # {}
    BY DEF Promised, At
  <2>2. Cardinality(Promised) # 0
    BY <2>1, Finite, FS_EmptySet DEF IInv
  <2>3. Cardinality(connList) # 0
    BY <2>2, Finite DEF IInv, TokensMatch, TypeOK, Promised
  <2> QED
    BY <2>3, FS_EmptySet
<1> QED
  BY <1>1, Invariance, PTL

\* The deployed sizes, 8 workers and 8 connections, and any other with enough
\* connections: process() always has a connection and nobody ever waits for it.
THEOREM NobodyWaits == Spec => []AlwaysServed
<1>1. IInv => AlwaysServed
  <2> SUFFICES ASSUME IInv, Enough, NEW w \in Workers
               PROVE  /\ pc[w] = "use" => con[w] # NULL
                      /\ pc[w] = "wait" => reserve > 0
    BY DEF AlwaysServed
  <2>1. pc[w] = "use" => con[w] # NULL
    BY DEF IInv, Served
  <2>2. ASSUME pc[w] = "wait" PROVE reserve > 0
    <3>1. w \notin Holders /\ w \notin Promised
      BY <2>2 DEF IInv, OneOwner, Holders, Promised, At
    <3>2. Cardinality(Holders) + Cardinality(Promised) < Cardinality(MYSQLs)
      BY <3>1, Room
    <3> QED
      BY <3>2, Finite DEF IInv, Conserved, TokensMatch, TypeOK, Promised
  <2> QED
    BY <2>1, <2>2
<1> QED
  BY <1>1, Invariance, PTL
=============================================================================
