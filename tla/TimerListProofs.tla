-------------------------- MODULE TimerListProofs ---------------------------
(***************************************************************************)
(* The list of timers is well linked and implements the set of timers that *)
(* Reactor works with, for any number of timers and any length of run: the *)
(* invariant says that the pointers are those of a sequence of timers.     *)
(***************************************************************************)
EXTENDS TimerList, FiniteSetTheorems, TLAPS

-----------------------------------------------------------------------------
(* Every set of numbers has a least one: what the recursive functions of   *)
(* TimerList need in place of an induction.                                *)

\* A set of natural numbers that is not empty has a least element.
LEMMA LeastNat ==
  ASSUME NEW S \in SUBSET Nat, S # {}
  PROVE  \E m \in S : \A k \in S : m <= k
  <1> DEFINE Below == {0 .. k : k \in S}
  <1>1. Below \subseteq FiniteSubsetsOf(Nat)
    <2> SUFFICES ASSUME NEW k \in S PROVE 0 .. k \in FiniteSubsetsOf(Nat)
      OBVIOUS
    <2>1. IsFiniteSet(0 .. k)
      BY FS_Interval
    <2>2. 0 .. k \in SUBSET Nat
      OBVIOUS
    <2> QED BY <2>1, <2>2 DEF FiniteSubsetsOf
  <1>2. Below # {}
    OBVIOUS
  <1> HIDE DEF Below
  <1>3. PICK B \in Below : \A C \in Below : <<C, B>> \notin StrictSubsetOrdering(Nat)
    BY <1>1, <1>2, FS_StrictSubsetOrderingWellFounded, WFMin
  <1>4. PICK m \in S : B = 0 .. m
    BY DEF Below
  <1>5. ASSUME NEW k \in S, k < m
        PROVE  FALSE
    <2>1. 0 .. k \in Below
      BY DEF Below
    <2>2. /\ 0 .. k \in SUBSET Nat /\ 0 .. m \in SUBSET Nat
          /\ 0 .. k \subseteq 0 .. m /\ m \in 0 .. m /\ m \notin 0 .. k
      BY <1>5
    <2>3. <<0 .. k, 0 .. m>> \in StrictSubsetOrdering(Nat)
      BY <2>2 DEF StrictSubsetOrdering
    <2> QED BY <2>1, <2>3, <1>3, <1>4
  <1> QED BY <1>5

\* A set of natural numbers below a bound has a greatest element.
LEMMA GreatestNat ==
  ASSUME NEW n \in Nat, NEW S \in SUBSET (0 .. n), S # {}
  PROVE  \E m \in S : \A k \in S : k <= m
  <1> DEFINE D == {n - k : k \in S}
  <1>1. \A k \in S : k \in Nat /\ n - k \in Nat /\ n - k \in D
    OBVIOUS
  <1>2. D \in SUBSET Nat /\ D # {}
    <2>1. D \subseteq Nat
      BY <1>1
    <2>2. PICK k \in S : TRUE
      OBVIOUS
    <2>3. n - k \in D
      BY <1>1
    <2> QED BY <2>1, <2>3
  <1>3. PICK d \in D : \A c \in D : d <= c
    <2> HIDE DEF D
    <2> QED BY <1>1, <1>2, LeastNat
  <1>4. PICK m \in S : d = n - m
    OBVIOUS
  <1>5. ASSUME NEW k \in S PROVE k <= m
    <2>1. n - m <= n - k
      BY <1>1, <1>3, <1>4
    <2> QED BY <2>1
  <1> QED BY <1>5

-----------------------------------------------------------------------------
(* Chains: the pointers nx and pv link the sequence s of n timers.         *)

Chain(s, n, nx, pv) ==
  /\ \A i, j \in 1 .. n : s[i] = s[j] => i = j
  /\ \A i \in 1 .. n : nx[s[i]] = IF i = n THEN NULL ELSE s[i + 1]
  /\ \A i \in 1 .. n : pv[s[i]] = IF i = 1 THEN NULL ELSE s[i - 1]

Nodes(s, n) == {s[i] : i \in 1 .. n}

Inserted(s, n, i, t) ==
  [j \in 1 .. n + 1 |-> IF j <= i THEN s[j] ELSE IF j = i + 1 THEN t ELSE s[j - 1]]

Removed(s, n, k) == [j \in 1 .. n - 1 |-> IF j < k THEN s[j] ELSE s[j + 1]]

Dropped(s, n, m) == [j \in 1 .. n - m |-> s[j + m]]

Sorted(s, n, e) == \A i, j \in 1 .. n : i <= j => e[s[i]] <= e[s[j]]

\* A timer put after the i-th node makes a longer chain.
LEMMA InsertChain ==
  ASSUME NEW n \in Nat, NEW s \in [1 .. n -> Timers], NEW t \in Timers \ Nodes(s, n),
         NEW nx \in [Timers -> Timers \cup {NULL}], NEW pv \in [Timers -> Timers \cup {NULL}],
         Chain(s, n, nx, pv), NEW i \in 1 .. n
  PROVE  LET p == s[i]
             nx2 == [nx EXCEPT ![p] = t, ![t] = nx[p]]
             pv2 == Set([pv EXCEPT ![t] = p], nx[p], t)
             r == Inserted(s, n, i, t)
         IN  /\ Chain(r, n + 1, nx2, pv2)
             /\ r \in [1 .. n + 1 -> Timers]
             /\ Nodes(r, n + 1) = Nodes(s, n) \cup {t}
             /\ nx2 \in [Timers -> Timers \cup {NULL}]
             /\ pv2 \in [Timers -> Timers \cup {NULL}]
  <1> DEFINE p == s[i]
             nx2 == [nx EXCEPT ![p] = t, ![t] = nx[p]]
             pv2 == Set([pv EXCEPT ![t] = p], nx[p], t)
             r == Inserted(s, n, i, t)
  <1>1. /\ \A j \in 1 .. n : s[j] \in Timers /\ s[j] # t
        /\ \A j, k \in 1 .. n : s[j] = s[k] => j = k
        /\ t # NULL /\ \A j \in 1 .. n : s[j] # NULL
    BY TimerAssumption DEF Chain, Nodes
  <1>2. r \in [1 .. n + 1 -> Timers]
    BY <1>1 DEF Inserted
  <1>3. /\ \A j \in 1 .. i : r[j] = s[j]
        /\ r[i + 1] = t
        /\ \A j \in i + 2 .. n + 1 : r[j] = s[j - 1]
    BY DEF Inserted
  <1> HIDE DEF r
  <1>4. Nodes(r, n + 1) = Nodes(s, n) \cup {t}
    <2>1. ASSUME NEW x \in Nodes(s, n) \cup {t} PROVE x \in Nodes(r, n + 1)
      <3>1. CASE x = t
        BY <3>1, <1>3 DEF Nodes
      <3>2. ASSUME NEW j \in 1 .. n, x = s[j] PROVE x \in Nodes(r, n + 1)
        <4>1. CASE j <= i
          BY <4>1, <3>2, <1>3 DEF Nodes
        <4>2. CASE j > i
          <5>1. j + 1 \in i + 2 .. n + 1 /\ j + 1 \in 1 .. n + 1 /\ (j + 1) - 1 = j
            BY <4>2
          <5> QED BY <5>1, <3>2, <1>3 DEF Nodes
        <4> QED BY <4>1, <4>2
      <3> QED BY <3>1, <3>2 DEF Nodes
    <2>2. ASSUME NEW j \in 1 .. n + 1 PROVE r[j] \in Nodes(s, n) \cup {t}
      <3>1. CASE j <= i
        BY <3>1, <1>3 DEF Nodes
      <3>2. CASE j = i + 1
        BY <3>2, <1>3
      <3>3. CASE j > i + 1
        BY <3>3, <1>3 DEF Nodes
      <3> QED BY <3>1, <3>2, <3>3
    <2> QED BY <2>1, <2>2 DEF Nodes
  <1>5. /\ nx2 \in [Timers -> Timers \cup {NULL}]
        /\ pv2 \in [Timers -> Timers \cup {NULL}]
    BY <1>1 DEF Set
  <1>6. /\ nx[p] = IF i = n THEN NULL ELSE s[i + 1]
        /\ nx2[t] = nx[p] /\ nx2[p] = t
        /\ \A x \in Timers \ {p, t} : nx2[x] = nx[x]
    BY <1>1 DEF Chain
  <1>7. /\ pv2[t] = p
        /\ i < n => pv2[s[i + 1]] = t
        /\ \A x \in Timers \ {t} : (i = n \/ x # s[i + 1]) => pv2[x] = pv[x]
    BY <1>1, <1>6 DEF Set
  <1> HIDE DEF nx2, pv2
  <1>8. \A j, k \in 1 .. n + 1 : r[j] = r[k] => j = k
    BY <1>1, <1>3
  <1>9. ASSUME NEW j \in 1 .. n + 1
        PROVE  nx2[r[j]] = IF j = n + 1 THEN NULL ELSE r[j + 1]
    <2>1. CASE j < i
      BY <2>1, <1>1, <1>3, <1>6 DEF Chain
    <2>2. CASE j = i
      BY <2>2, <1>1, <1>3, <1>6
    <2>3. CASE j = i + 1
      <3>1. i < n => r[i + 2] = s[i + 1]
        BY <1>3
      <3> QED BY <2>3, <3>1, <1>1, <1>3, <1>6
    <2>4. CASE j > i + 1
      <3>1. /\ r[j] = s[j - 1] /\ j - 1 \in 1 .. n /\ s[j - 1] # p
            /\ j # n + 1 => r[j + 1] = s[j]
        BY <2>4, <1>1, <1>3
      <3>2. nx2[s[j - 1]] = nx[s[j - 1]]
        BY <3>1, <1>1, <1>6
      <3> QED BY <3>1, <3>2 DEF Chain
    <2> QED BY <2>1, <2>2, <2>3, <2>4
  <1>10. ASSUME NEW j \in 1 .. n + 1
         PROVE  pv2[r[j]] = IF j = 1 THEN NULL ELSE r[j - 1]
    <2>1. CASE j <= i
      <3>1. i = n \/ s[j] # s[i + 1]
        BY <2>1, <1>1
      <3> QED BY <2>1, <3>1, <1>1, <1>3, <1>7 DEF Chain
    <2>2. CASE j = i + 1
      BY <2>2, <1>1, <1>3, <1>7
    <2>3. CASE j = i + 2
      BY <2>3, <1>1, <1>3, <1>7
    <2>4. CASE j > i + 2
      <3>1. /\ r[j] = s[j - 1] /\ j - 1 \in 1 .. n /\ s[j - 1] # s[i + 1]
            /\ r[j - 1] = s[j - 2] /\ (j - 1) - 1 = j - 2
        BY <2>4, <1>1, <1>3
      <3>2. pv2[s[j - 1]] = pv[s[j - 1]]
        BY <3>1, <1>1, <1>7
      <3> QED BY <2>4, <3>1, <3>2 DEF Chain
    <2> QED BY <2>1, <2>2, <2>3, <2>4
  <1>11. Chain(r, n + 1, nx2, pv2)
    BY <1>8, <1>9, <1>10 DEF Chain
  <1> QED BY <1>2, <1>4, <1>5, <1>11 DEF nx2, pv2, r

\* A timer put before the first node makes a longer chain.
LEMMA FirstChain ==
  ASSUME NEW n \in Nat \ {0}, NEW s \in [1 .. n -> Timers], NEW t \in Timers \ Nodes(s, n),
         NEW nx \in [Timers -> Timers \cup {NULL}], NEW pv \in [Timers -> Timers \cup {NULL}],
         Chain(s, n, nx, pv), pv[t] = NULL
  PROVE  LET nx2 == [nx EXCEPT ![t] = s[1]]
             pv2 == [pv EXCEPT ![s[1]] = t]
             r == Inserted(s, n, 0, t)
         IN  /\ Chain(r, n + 1, nx2, pv2)
             /\ r \in [1 .. n + 1 -> Timers]
             /\ Nodes(r, n + 1) = Nodes(s, n) \cup {t}
  <1> DEFINE nx2 == [nx EXCEPT ![t] = s[1]]
             pv2 == [pv EXCEPT ![s[1]] = t]
             r == Inserted(s, n, 0, t)
  <1>1. /\ \A j \in 1 .. n : s[j] \in Timers /\ s[j] # t
        /\ \A j, k \in 1 .. n : s[j] = s[k] => j = k
    BY DEF Chain, Nodes
  <1>2. r \in [1 .. n + 1 -> Timers]
    BY <1>1 DEF Inserted
  <1>3. /\ r[1] = t
        /\ \A j \in 2 .. n + 1 : r[j] = s[j - 1]
    BY DEF Inserted
  <1> HIDE DEF r
  <1>4. Nodes(r, n + 1) = Nodes(s, n) \cup {t}
    <2>1. ASSUME NEW j \in 1 .. n PROVE s[j] \in Nodes(r, n + 1)
      <3>1. j + 1 \in 2 .. n + 1 /\ j + 1 \in 1 .. n + 1 /\ (j + 1) - 1 = j
        OBVIOUS
      <3> QED BY <3>1, <1>3 DEF Nodes
    <2>2. ASSUME NEW j \in 1 .. n + 1 PROVE r[j] \in Nodes(s, n) \cup {t}
      <3>1. CASE j = 1
        BY <3>1, <1>3
      <3>2. CASE j > 1
        BY <3>2, <1>3 DEF Nodes
      <3> QED BY <3>1, <3>2
    <2>3. t \in Nodes(r, n + 1)
      BY <1>3 DEF Nodes
    <2>4. Nodes(s, n) \subseteq Nodes(r, n + 1)
      BY <2>1 DEF Nodes
    <2>5. Nodes(r, n + 1) \subseteq Nodes(s, n) \cup {t}
      BY <2>2 DEF Nodes
    <2> QED BY <2>3, <2>4, <2>5
  <1>5. /\ nx2[t] = s[1] /\ \A x \in Timers \ {t} : nx2[x] = nx[x]
        /\ pv2[s[1]] = t /\ \A x \in Timers \ {s[1]} : pv2[x] = pv[x]
    BY <1>1
  <1> HIDE DEF nx2, pv2
  <1>6. \A j, k \in 1 .. n + 1 : r[j] = r[k] => j = k
    BY <1>1, <1>3
  <1>7. ASSUME NEW j \in 1 .. n + 1
        PROVE  nx2[r[j]] = IF j = n + 1 THEN NULL ELSE r[j + 1]
    <2>1. CASE j = 1
      BY <2>1, <1>3, <1>5
    <2>2. CASE j > 1
      <3>1. /\ r[j] = s[j - 1] /\ j - 1 \in 1 .. n
            /\ j # n + 1 => r[j + 1] = s[j]
        BY <2>2, <1>1, <1>3
      <3>2. nx2[s[j - 1]] = nx[s[j - 1]]
        BY <3>1, <1>1, <1>5
      <3> QED BY <3>1, <3>2 DEF Chain
    <2> QED BY <2>1, <2>2
  <1>8. ASSUME NEW j \in 1 .. n + 1
        PROVE  pv2[r[j]] = IF j = 1 THEN NULL ELSE r[j - 1]
    <2>1. CASE j = 1
      BY <2>1, <1>1, <1>3, <1>5
    <2>2. CASE j = 2
      BY <2>2, <1>1, <1>3, <1>5
    <2>3. CASE j > 2
      <3>1. /\ r[j] = s[j - 1] /\ j - 1 \in 1 .. n /\ s[j - 1] # s[1]
            /\ r[j - 1] = s[j - 2] /\ (j - 1) - 1 = j - 2
        BY <2>3, <1>1, <1>3
      <3>2. pv2[s[j - 1]] = pv[s[j - 1]]
        BY <3>1, <1>1, <1>5
      <3> QED BY <2>3, <3>1, <3>2 DEF Chain
    <2> QED BY <2>1, <2>2, <2>3
  <1>9. Chain(r, n + 1, nx2, pv2)
    BY <1>6, <1>7, <1>8 DEF Chain
  <1> QED BY <1>2, <1>4, <1>9 DEF nx2, pv2, r

\* The pointers nx2 and pv2 go around the k-th node.
Bypasses(s, n, k, nx, pv, nx2, pv2) ==
  \A j \in 1 .. n : j # k =>
    /\ nx2[s[j]] = IF j + 1 = k THEN nx[s[k]] ELSE nx[s[j]]
    /\ pv2[s[j]] = IF j = k + 1 THEN pv[s[k]] ELSE pv[s[j]]

\* Pointers that go around the k-th node leave a shorter chain.
LEMMA RemoveChain ==
  ASSUME NEW n \in Nat, NEW s \in [1 .. n -> Timers], NEW k \in 1 .. n,
         NEW nx \in [Timers -> Timers \cup {NULL}], NEW pv \in [Timers -> Timers \cup {NULL}],
         NEW nx2, NEW pv2, Chain(s, n, nx, pv), Bypasses(s, n, k, nx, pv, nx2, pv2)
  PROVE  LET r == Removed(s, n, k)
         IN  /\ Chain(r, n - 1, nx2, pv2)
             /\ r \in [1 .. n - 1 -> Timers]
             /\ Nodes(r, n - 1) = Nodes(s, n) \ {s[k]}
  <1> DEFINE r == Removed(s, n, k)
  <1>1. \A j, i \in 1 .. n : s[j] = s[i] => j = i
    BY DEF Chain
  <1>2. r \in [1 .. n - 1 -> Timers]
    BY DEF Removed
  <1>3. /\ \A j \in 1 .. k - 1 : r[j] = s[j]
        /\ \A j \in k .. n - 1 : r[j] = s[j + 1]
    BY DEF Removed
  <1> HIDE DEF r
  <1>4. Nodes(r, n - 1) = Nodes(s, n) \ {s[k]}
    <2>1. ASSUME NEW j \in 1 .. n, j # k PROVE s[j] \in Nodes(r, n - 1)
      <3>1. CASE j < k
        BY <3>1, <1>3 DEF Nodes
      <3>2. CASE j > k
        <4>1. j - 1 \in k .. n - 1 /\ j - 1 \in 1 .. n - 1 /\ (j - 1) + 1 = j
          BY <3>2
        <4>2. r[j - 1] = s[j]
          BY <4>1, <1>3
        <4> QED BY <4>1, <4>2 DEF Nodes
      <3> QED BY <2>1, <3>1, <3>2
    <2>2. ASSUME NEW j \in 1 .. n - 1 PROVE r[j] \in Nodes(s, n) \ {s[k]}
      <3>1. CASE j < k
        BY <3>1, <1>1, <1>3 DEF Nodes
      <3>2. CASE j >= k
        BY <3>2, <1>1, <1>3 DEF Nodes
      <3> QED BY <3>1, <3>2
    <2> QED BY <2>1, <2>2 DEF Nodes
  <1>5. ASSUME NEW j \in 1 .. n - 1, NEW i \in 1 .. n - 1, r[j] = r[i]
        PROVE  j = i
    <2> DEFINE old(x) == IF x < k THEN x ELSE x + 1
    <2>1. /\ r[j] = s[old(j)] /\ old(j) \in 1 .. n
          /\ r[i] = s[old(i)] /\ old(i) \in 1 .. n
      BY <1>3
    <2>2. old(j) = old(i)
      <3> HIDE DEF old
      <3> QED BY <1>1, <1>5, <2>1
    <2> QED BY <2>2
  <1>6. ASSUME NEW j \in 1 .. n - 1
        PROVE  /\ nx2[r[j]] = IF j = n - 1 THEN NULL ELSE r[j + 1]
               /\ pv2[r[j]] = IF j = 1 THEN NULL ELSE r[j - 1]
    <2>1. CASE j < k
      <3>1. /\ r[j] = s[j] /\ j \in 1 .. n /\ j # k
            /\ j # 1 => r[j - 1] = s[j - 1]
            /\ j + 1 # k => r[j + 1] = s[j + 1]
            /\ j + 1 = k /\ k < n => r[j + 1] = s[k + 1]
        <4>1. r[j] = s[j] /\ j \in 1 .. n /\ j # k
          BY <2>1, <1>3
        <4>2. j # 1 => r[j - 1] = s[j - 1]
          <5>1. j # 1 => j - 1 \in 1 .. k - 1
            BY <2>1
          <5> QED BY <5>1, <1>3
        <4>3. j + 1 # k => r[j + 1] = s[j + 1]
          <5>1. j + 1 # k => j + 1 \in 1 .. k - 1
            BY <2>1
          <5> QED BY <5>1, <1>3
        <4>4. k < n => k \in k .. n - 1
          OBVIOUS
        <4> QED BY <4>1, <4>2, <4>3, <4>4, <1>3
      <3>2. /\ nx[s[j]] = s[j + 1] /\ nx[s[k]] = IF k = n THEN NULL ELSE s[k + 1]
            /\ pv[s[j]] = IF j = 1 THEN NULL ELSE s[j - 1]
        BY <2>1, <3>1 DEF Chain
      <3>3. /\ nx2[s[j]] = IF j + 1 = k THEN nx[s[k]] ELSE nx[s[j]]
            /\ pv2[s[j]] = pv[s[j]]
        BY <2>1, <3>1 DEF Bypasses
      <3>4. j = n - 1 => j + 1 = k /\ k = n
        BY <2>1
      <3> QED BY <2>1, <3>1, <3>2, <3>3, <3>4
    <2>2. CASE j >= k
      <3>1. /\ r[j] = s[j + 1] /\ j + 1 \in 1 .. n /\ j + 1 # k
            /\ j # n - 1 => r[j + 1] = s[(j + 1) + 1]
            /\ j > k => r[j - 1] = s[j]
            /\ j = k /\ j # 1 => r[j - 1] = s[k - 1]
        <4>1. r[j] = s[j + 1] /\ j + 1 \in 1 .. n /\ j + 1 # k
          BY <2>2, <1>3
        <4>2. j # n - 1 => r[j + 1] = s[(j + 1) + 1]
          <5>1. j # n - 1 => j + 1 \in k .. n - 1
            BY <2>2
          <5> QED BY <5>1, <1>3
        <4>3. j > k => r[j - 1] = s[j]
          <5>1. j > k => j - 1 \in k .. n - 1 /\ (j - 1) + 1 = j
            BY <2>2
          <5> QED BY <5>1, <1>3
        <4>4. k # 1 => k - 1 \in 1 .. k - 1
          OBVIOUS
        <4> QED BY <4>1, <4>2, <4>3, <4>4, <1>3
      <3>2. /\ nx[s[j + 1]] = IF j + 1 = n THEN NULL ELSE s[(j + 1) + 1]
            /\ pv[s[k]] = IF k = 1 THEN NULL ELSE s[k - 1]
            /\ pv[s[j + 1]] = s[j]
        BY <2>2, <3>1 DEF Chain
      <3>3. /\ nx2[s[j + 1]] = nx[s[j + 1]]
            /\ pv2[s[j + 1]] = IF j = k THEN pv[s[k]] ELSE pv[s[j + 1]]
        BY <2>2, <3>1 DEF Bypasses
      <3> QED BY <2>2, <3>1, <3>2, <3>3
    <2> QED BY <2>1, <2>2
  <1>7. Chain(r, n - 1, nx2, pv2)
    BY <1>5, <1>6 DEF Chain
  <1> QED BY <1>2, <1>4, <1>7 DEF r

\* The pointers nx2 and pv2 make the node after the m-th the first.
Shortens(s, n, m, nx, pv, nx2, pv2) ==
  \A j \in m + 1 .. n :
    nx2[s[j]] = nx[s[j]] /\ pv2[s[j]] = IF j = m + 1 THEN NULL ELSE pv[s[j]]

\* What is left of a chain after its first m nodes is a chain.
LEMMA DropChain ==
  ASSUME NEW n \in Nat, NEW s \in [1 .. n -> Timers], NEW m \in 0 .. n,
         NEW nx, NEW pv, NEW nx2, NEW pv2, Chain(s, n, nx, pv),
         Shortens(s, n, m, nx, pv, nx2, pv2)
  PROVE  LET r == Dropped(s, n, m)
         IN  /\ Chain(r, n - m, nx2, pv2)
             /\ r \in [1 .. n - m -> Timers]
             /\ Nodes(r, n - m) = Nodes(s, n) \ {s[j] : j \in 1 .. m}
  <1> DEFINE r == Dropped(s, n, m)
  <1>1. \A j, i \in 1 .. n : s[j] = s[i] => j = i
    BY DEF Chain
  <1>2. r \in [1 .. n - m -> Timers]
    BY DEF Dropped
  <1>3. \A j \in 1 .. n - m : r[j] = s[j + m]
    BY DEF Dropped
  <1> HIDE DEF r
  <1>4. Nodes(r, n - m) = Nodes(s, n) \ {s[j] : j \in 1 .. m}
    <2>1. ASSUME NEW j \in m + 1 .. n PROVE s[j] \in Nodes(r, n - m)
      <3>1. j - m \in 1 .. n - m /\ (j - m) + m = j
        OBVIOUS
      <3> QED BY <3>1, <1>3 DEF Nodes
    <2>2. ASSUME NEW j \in 1 .. n - m
          PROVE  r[j] \in Nodes(s, n) /\ \A i \in 1 .. m : r[j] # s[i]
      BY <1>1, <1>3 DEF Nodes
    <2> QED BY <2>1, <2>2 DEF Nodes
  <1>5. \A j, i \in 1 .. n - m : r[j] = r[i] => j = i
    BY <1>1, <1>3
  <1>6. ASSUME NEW j \in 1 .. n - m
        PROVE  /\ nx2[r[j]] = IF j = n - m THEN NULL ELSE r[j + 1]
               /\ pv2[r[j]] = IF j = 1 THEN NULL ELSE r[j - 1]
    <2>1. /\ r[j] = s[j + m] /\ j + m \in 1 .. n /\ j + m \in m + 1 .. n
          /\ j # n - m => r[j + 1] = s[(j + m) + 1]
          /\ j # 1 => r[j - 1] = s[(j + m) - 1]
          /\ (j = n - m) <=> (j + m = n)
          /\ (j = 1) <=> (j + m = m + 1)
      <3>1. j # n - m => j + 1 \in 1 .. n - m /\ (j + 1) + m = (j + m) + 1
        OBVIOUS
      <3>2. j # 1 => j - 1 \in 1 .. n - m /\ (j - 1) + m = (j + m) - 1
        OBVIOUS
      <3> QED BY <3>1, <3>2, <1>3
    <2>2. /\ nx[s[j + m]] = IF j + m = n THEN NULL ELSE s[(j + m) + 1]
          /\ pv[s[j + m]] = IF j + m = 1 THEN NULL ELSE s[(j + m) - 1]
      BY <2>1 DEF Chain
    <2>3. /\ nx2[s[j + m]] = nx[s[j + m]]
          /\ pv2[s[j + m]] = IF j + m = m + 1 THEN NULL ELSE pv[s[j + m]]
      BY <2>1 DEF Shortens
    <2>4. j # 1 => j + m # 1
      OBVIOUS
    <2> QED BY <2>1, <2>2, <2>3, <2>4
  <1>7. Chain(r, n - m, nx2, pv2)
    BY <1>5, <1>6 DEF Chain
  <1> QED BY <1>2, <1>4, <1>7 DEF r

-----------------------------------------------------------------------------
(* The walk of add_timer( timer, lst_head ) along a chain.                 *)

Walks(w, t, nx, e) ==
  w = [p \in Timers |->
         IF nx[p] = NULL THEN p ELSE IF e[t] < e[nx[p]] THEN p ELSE w[nx[p]]]

\* Where some function recurs as the one of Place does, that one does so too.
LEMMA WalkDef ==
  ASSUME NEW t, NEW start, NEW nx, NEW e, NEW g, Walks(g, t, nx, e)
  PROVE  \E w : Place(t, start, nx, e) = w[start] /\ Walks(w, t, nx, e)
  <1> DEFINE w == CHOOSE f : Walks(f, t, nx, e)
  <1>1. Place(t, start, nx, e) = w[start]
    BY DEF Place, Walks
  <1>2. Walks(w, t, nx, e)
    OBVIOUS
  <1> HIDE DEF w
  <1> QED BY <1>1, <1>2

\* The walk from the k-th node ends at the first one with no successor or with
\* one that expires later than t.
LEMMA PlaceChain ==
  ASSUME NEW n \in Nat, NEW s \in [1 .. n -> Timers], NEW k \in 1 .. n, NEW t \in Timers,
         NEW nx \in [Timers -> Timers \cup {NULL}], NEW pv, NEW e \in [Timers -> Int],
         Chain(s, n, nx, pv),
         \A p \in Timers \ Nodes(s, n) : nx[p] \in Nodes(s, n) \cup {NULL}
  PROVE  \E i \in k .. n : /\ Place(t, s[k], nx, e) = s[i]
                           /\ i < n => e[t] < e[s[i + 1]]
                           /\ k < i => e[s[i]] <= e[t]
  <1> DEFINE Stops(i) == i = n \/ e[t] < e[s[i + 1]]
             First(j, i) == i \in j .. n /\ Stops(i) /\ \A h \in j .. i - 1 : ~Stops(h)
             StopAt(j) == CHOOSE i \in 1 .. n : First(j, i)
             pos(p) == CHOOSE i \in 1 .. n : s[i] = p
             at(p) == s[StopAt(pos(p))]
             g == [p \in Timers |->
                     IF p \in Nodes(s, n) THEN at(p)
                     ELSE IF nx[p] = NULL THEN p
                     ELSE IF e[t] < e[nx[p]] THEN p ELSE at(nx[p])]
  <1>1. ASSUME NEW j \in 1 .. n
        PROVE  StopAt(j) \in 1 .. n /\ First(j, StopAt(j))
    <2> DEFINE S == {i \in j .. n : Stops(i)}
    <2>1. S \in SUBSET Nat /\ n \in S
      OBVIOUS
    <2>2. PICK m \in S : \A h \in S : m <= h
      <3> HIDE DEF S
      <3> QED BY <2>1, LeastNat
    <2>3. m \in 1 .. n /\ First(j, m)
      <3>1. m \in j .. n /\ Stops(m)
        OBVIOUS
      <3>2. \A h \in j .. m - 1 : h \in j .. n /\ ~(m <= h)
        BY <3>1
      <3>3. \A h \in j .. m - 1 : ~Stops(h)
        <4> HIDE DEF Stops
        <4> QED BY <2>2, <3>2
      <3> HIDE DEF Stops
      <3> QED BY <3>1, <3>3
    <2> HIDE DEF First
    <2> QED BY <2>3
  <1>2. ASSUME NEW j \in 1 .. n, NEW a, NEW b, First(j, a), First(j, b)
        PROVE  a = b
    <2> HIDE DEF Stops
    <2>1. a \in j .. n /\ b \in j .. n
      BY <1>2
    <2>2. ~(a < b) /\ ~(b < a)
      <3>1. CASE a < b
        BY <2>1, <3>1, <1>2, a \in j .. b - 1
      <3>2. CASE b < a
        BY <2>1, <3>2, <1>2, b \in j .. a - 1
      <3> QED BY <3>1, <3>2
    <2> QED BY <2>1, <2>2
  <1>3. ASSUME NEW j \in 1 .. n, Stops(j)
        PROVE  StopAt(j) = j
    <2>1. First(j, j)
      <3> HIDE DEF Stops
      <3> QED BY <1>3
    <2> HIDE DEF First, StopAt
    <2> QED BY <2>1, <1>1, <1>2
  <1>4. ASSUME NEW j \in 1 .. n, ~Stops(j)
        PROVE  j + 1 \in 1 .. n /\ StopAt(j) = StopAt(j + 1)
    <2>1. j + 1 \in 1 .. n
      BY <1>4
    <2>2. First(j + 1, StopAt(j + 1))
      BY <2>1, <1>1
    <2> DEFINE i == StopAt(j + 1)
    <2> HIDE DEF Stops, StopAt
    <2>3. i \in j + 1 .. n /\ Stops(i) /\ \A h \in j + 1 .. i - 1 : ~Stops(h)
      BY <2>2
    <2> HIDE DEF i
    <2>4. \A h \in j .. i - 1 : h = j \/ h \in j + 1 .. i - 1
      BY <2>3
    <2>5. First(j, i)
      BY <2>3, <2>4, <1>4
    <2>6. First(j, StopAt(j))
      BY <1>1
    <2>7. StopAt(j) = i
      <3> HIDE DEF First
      <3> QED BY <2>5, <2>6, <1>2
    <2> QED BY <2>1, <2>7 DEF i
  <1>5. ASSUME NEW j \in 1 .. n
        PROVE  pos(s[j]) = j
    <2>1. \A i \in 1 .. n : s[i] = s[j] => i = j
      BY DEF Chain
    <2> QED BY <2>1
  <1>6. /\ \A j \in 1 .. n : nx[s[j]] = IF j = n THEN NULL ELSE s[j + 1]
        /\ \A j \in 1 .. n : s[j] # NULL /\ s[j] \in Timers /\ s[j] \in Nodes(s, n)
    BY TimerAssumption DEF Chain, Nodes
  <1>7. ASSUME NEW j \in 1 .. n
        PROVE  at(s[j]) = IF nx[s[j]] = NULL THEN s[j]
                          ELSE IF e[t] < e[nx[s[j]]] THEN s[j] ELSE at(nx[s[j]])
    <2>1. CASE Stops(j)
      <3>1. at(s[j]) = s[j]
        <4> HIDE DEF Stops, StopAt, pos
        <4> QED BY <2>1, <1>3, <1>5
      <3>2. nx[s[j]] = NULL \/ e[t] < e[nx[s[j]]]
        BY <2>1, <1>6
      <3> HIDE DEF at, Stops
      <3> QED BY <3>1, <3>2
    <2>2. CASE ~Stops(j)
      <3>1. j + 1 \in 1 .. n /\ StopAt(j) = StopAt(j + 1)
        BY <2>2, <1>4
      <3>2. nx[s[j]] = s[j + 1] /\ s[j + 1] # NULL /\ ~(e[t] < e[s[j + 1]])
        BY <2>2, <3>1, <1>6
      <3>3. at(s[j]) = at(s[j + 1])
        <4> HIDE DEF StopAt, pos
        <4> QED BY <3>1, <1>5
      <3> HIDE DEF at, Stops
      <3> QED BY <3>2, <3>3
    <2> QED BY <2>1, <2>2
  <1>8. Walks(g, t, nx, e)
    <2> SUFFICES ASSUME NEW p \in Timers
                 PROVE  g[p] = IF nx[p] = NULL THEN p
                               ELSE IF e[t] < e[nx[p]] THEN p ELSE g[nx[p]]
      <3> HIDE DEF at
      <3> QED BY DEF Walks
    <2>1. CASE p \in Nodes(s, n)
      <3>1. PICK j \in 1 .. n : p = s[j]
        BY <2>1 DEF Nodes
      <3>2. nx[p] = NULL \/ nx[p] \in Nodes(s, n)
        BY <3>1, <1>6, j # n => j + 1 \in 1 .. n
      <3> HIDE DEF at
      <3> QED BY <2>1, <3>1, <3>2, <1>7
    <2>2. CASE p \notin Nodes(s, n)
      <3> HIDE DEF at
      <3> QED BY <2>2
    <2> QED BY <2>1, <2>2
  <1>9. PICK w : Place(t, s[k], nx, e) = w[s[k]] /\ Walks(w, t, nx, e)
    <2> HIDE DEF g
    <2> QED BY <1>8, WalkDef
  <1> DEFINE i == StopAt(k)
  <1>10. i \in k .. n /\ Stops(i) /\ \A h \in k .. i - 1 : ~Stops(h)
    <2> HIDE DEF Stops, StopAt
    <2> QED BY <1>1
  <1> HIDE DEF i
  <1>11. w[s[k]] = w[s[i]]
    <2> DEFINE D == {j \in k .. i : w[s[j]] = w[s[k]]}
    <2>1. D \in SUBSET (0 .. n) /\ k \in D
      BY <1>10
    <2>2. PICK m \in D : \A h \in D : h <= m
      <3> HIDE DEF D
      <3> QED BY <2>1, GreatestNat
    <2>3. m \in k .. i /\ w[s[m]] = w[s[k]]
      OBVIOUS
    <2>4. CASE m = i
      BY <2>3, <2>4
    <2>5. CASE m # i
      <3>1. m \in k .. i - 1 /\ m + 1 \in k .. i /\ m \in 1 .. n /\ m + 1 \in 1 .. n
        BY <2>3, <2>5, <1>10
      <3>2. ~Stops(m)
        BY <3>1, <1>10
      <3>3. nx[s[m]] = s[m + 1] /\ s[m + 1] # NULL /\ ~(e[t] < e[s[m + 1]])
        BY <3>1, <3>2, <1>6
      <3>4. w[s[m]] = w[s[m + 1]]
        BY <3>1, <3>3, <1>6, <1>9 DEF Walks
      <3>5. m + 1 \in D
        BY <2>3, <3>1, <3>4
      <3> HIDE DEF D
      <3> QED BY <2>2, <2>3, <3>5
    <2> QED BY <2>4, <2>5
  <1>12. w[s[i]] = s[i]
    <2>1. nx[s[i]] = NULL \/ e[t] < e[nx[s[i]]]
      BY <1>6, <1>10
    <2>2. s[i] \in Timers
      BY <1>6, <1>10
    <2> HIDE DEF g, Stops
    <2>3. w[s[i]] = IF nx[s[i]] = NULL THEN s[i]
                    ELSE IF e[t] < e[nx[s[i]]] THEN s[i] ELSE w[nx[s[i]]]
      BY <2>2, <1>9 DEF Walks
    <2> QED BY <2>1, <2>3
  <1>13. k < i => e[s[i]] <= e[t]
    <2>1. k < i => i - 1 \in k .. i - 1 /\ (i - 1) + 1 = i /\ i - 1 # n
      BY <1>10
    <2>2. k < i => ~(e[t] < e[s[i]])
      BY <2>1, <1>10
    <2> QED BY <2>2, <1>6, <1>10
  <1> QED BY <1>9, <1>10, <1>11, <1>12, <1>13

-----------------------------------------------------------------------------
(* The loop of tick() along a chain.                                       *)

\* The j-th node, and what comes after the last.
Node(s, n, j) == IF j = n + 1 THEN NULL ELSE s[j]

Alives(u) ==
  u = [t \in Timers \cup {NULL} |->
         IF t = NULL THEN NULL ELSE IF Expired(t) THEN u[next[t]] ELSE t]

Passes(b, first) ==
  b = [t \in Timers \cup {NULL} |->
         IF t \in {first, NULL} THEN {} ELSE {t} \cup b[next[t]]]

\* Where some function recurs as the one of FirstAlive does, that one does so too.
LEMMA AliveDef ==
  ASSUME NEW g, Alives(g)
  PROVE  \E u : FirstAlive = u[head] /\ Alives(u)
  <1> DEFINE u == CHOOSE f : Alives(f)
  <1>1. FirstAlive = u[head]
    BY DEF FirstAlive, Alives
  <1>2. Alives(u)
    OBVIOUS
  <1> HIDE DEF u
  <1> QED BY <1>1, <1>2

\* The same for Passed.
LEMMA PassedDef ==
  ASSUME NEW first, NEW g, Passes(g, first)
  PROVE  \E b : Passed(first) = b[head] /\ Passes(b, first)
  <1> DEFINE b == CHOOSE f : Passes(f, first)
  <1>1. Passed(first) = b[head]
    BY DEF Passed, Passes
  <1>2. Passes(b, first)
    OBVIOUS
  <1> HIDE DEF b
  <1> QED BY <1>1, <1>2

\* The loop stops at the first node of the chain that lives on.
LEMMA AliveChain ==
  ASSUME NEW n \in Nat \ {0}, NEW s \in [1 .. n -> Timers], Chain(s, n, next, prev),
         head = s[1], \A p \in Timers \ Nodes(s, n) : next[p] = NULL
  PROVE  \E m \in 0 .. n : /\ \A j \in 1 .. m : Expired(s[j])
                           /\ m < n => ~Expired(s[m + 1])
                           /\ FirstAlive = Node(s, n, m + 1)
  <1> DEFINE Stops(i) == i = n + 1 \/ ~Expired(s[i])
             First(j, i) == i \in j .. n + 1 /\ Stops(i) /\ \A h \in j .. i - 1 : ~Stops(h)
             StopAt(j) == CHOOSE i \in 1 .. n + 1 : First(j, i)
             pos(p) == CHOOSE i \in 1 .. n : s[i] = p
             at(p) == Node(s, n, StopAt(pos(p)))
             g == [t \in Timers \cup {NULL} |->
                     IF t = NULL THEN NULL
                     ELSE IF t \in Nodes(s, n) THEN at(t)
                     ELSE IF Expired(t) THEN NULL ELSE t]
  <1>1. ASSUME NEW j \in 1 .. n + 1
        PROVE  StopAt(j) \in 1 .. n + 1 /\ First(j, StopAt(j))
    <2> DEFINE S == {i \in j .. n + 1 : Stops(i)}
    <2>1. S \in SUBSET Nat /\ n + 1 \in S
      OBVIOUS
    <2>2. PICK m \in S : \A h \in S : m <= h
      <3> HIDE DEF S
      <3> QED BY <2>1, LeastNat
    <2>3. m \in 1 .. n + 1 /\ First(j, m)
      <3>1. m \in j .. n + 1 /\ Stops(m)
        OBVIOUS
      <3>2. \A h \in j .. m - 1 : h \in j .. n + 1 /\ ~(m <= h)
        BY <3>1
      <3>3. \A h \in j .. m - 1 : ~Stops(h)
        <4> HIDE DEF Stops
        <4> QED BY <2>2, <3>2
      <3> HIDE DEF Stops
      <3> QED BY <3>1, <3>3
    <2> HIDE DEF First
    <2> QED BY <2>3
  <1>2. ASSUME NEW j \in 1 .. n + 1, NEW a, NEW b, First(j, a), First(j, b)
        PROVE  a = b
    <2> HIDE DEF Stops
    <2>1. a \in j .. n + 1 /\ b \in j .. n + 1
      BY <1>2
    <2>2. ~(a < b) /\ ~(b < a)
      <3>1. CASE a < b
        BY <2>1, <3>1, <1>2, a \in j .. b - 1
      <3>2. CASE b < a
        BY <2>1, <3>2, <1>2, b \in j .. a - 1
      <3> QED BY <3>1, <3>2
    <2> QED BY <2>1, <2>2
  <1>3. ASSUME NEW j \in 1 .. n + 1, Stops(j)
        PROVE  StopAt(j) = j
    <2>1. First(j, j)
      <3> HIDE DEF Stops
      <3> QED BY <1>3
    <2> HIDE DEF First, StopAt
    <2> QED BY <2>1, <1>1, <1>2
  <1>4. ASSUME NEW j \in 1 .. n, ~Stops(j)
        PROVE  StopAt(j) = StopAt(j + 1)
    <2>2. j + 1 \in 1 .. n + 1 /\ First(j + 1, StopAt(j + 1))
      BY <1>1
    <2> DEFINE i == StopAt(j + 1)
    <2> HIDE DEF Stops, StopAt
    <2>3. i \in j + 1 .. n + 1 /\ Stops(i) /\ \A h \in j + 1 .. i - 1 : ~Stops(h)
      BY <2>2
    <2> HIDE DEF i
    <2>4. \A h \in j .. i - 1 : h = j \/ h \in j + 1 .. i - 1
      BY <2>3
    <2>5. First(j, i)
      BY <2>3, <2>4, <1>4
    <2>6. j \in 1 .. n + 1 /\ First(j, StopAt(j))
      BY <1>1
    <2>7. StopAt(j) = i
      <3> HIDE DEF First
      <3> QED BY <2>5, <2>6, <1>2
    <2> QED BY <2>7 DEF i
  <1>5. ASSUME NEW j \in 1 .. n
        PROVE  pos(s[j]) = j
    <2>1. \A i \in 1 .. n : s[i] = s[j] => i = j
      BY DEF Chain
    <2> QED BY <2>1
  <1>6. /\ \A j \in 1 .. n : next[s[j]] = IF j = n THEN NULL ELSE s[j + 1]
        /\ \A j \in 1 .. n : s[j] # NULL /\ s[j] \in Timers /\ s[j] \in Nodes(s, n)
        /\ NULL \notin Timers
    BY TimerAssumption DEF Chain, Nodes
  <1>7. ASSUME NEW j \in 1 .. n
        PROVE  at(s[j]) = IF Expired(s[j])
                          THEN IF j = n THEN NULL ELSE at(s[j + 1])
                          ELSE s[j]
    <2>1. CASE ~Expired(s[j])
      <3>1. StopAt(j) = j /\ j # n + 1
        <4> HIDE DEF StopAt
        <4> QED BY <2>1, <1>3
      <3> HIDE DEF StopAt, pos
      <3> QED BY <2>1, <3>1, <1>5 DEF Node
    <2>2. CASE Expired(s[j]) /\ j = n
      <3>1. StopAt(j) = n + 1
        <4>1. ~Stops(j) /\ Stops(n + 1) /\ n + 1 \in 1 .. n + 1
          BY <2>2
        <4> HIDE DEF StopAt, Stops
        <4> QED BY <2>2, <4>1, <1>3, <1>4
      <3> HIDE DEF StopAt, pos
      <3> QED BY <2>2, <3>1, <1>5 DEF Node
    <2>3. CASE Expired(s[j]) /\ j # n
      <3>1. ~Stops(j) /\ j + 1 \in 1 .. n
        BY <2>3
      <3>2. StopAt(j) = StopAt(j + 1)
        <4> HIDE DEF StopAt, Stops
        <4> QED BY <3>1, <1>4
      <3> HIDE DEF StopAt, pos
      <3> QED BY <2>3, <3>1, <3>2, <1>5
    <2> HIDE DEF at
    <2> QED BY <2>1, <2>2, <2>3
  <1>8. Alives(g)
    <2> SUFFICES ASSUME NEW t \in Timers \cup {NULL}
                 PROVE  g[t] = IF t = NULL THEN NULL
                               ELSE IF Expired(t) THEN g[next[t]] ELSE t
      <3> HIDE DEF at
      <3> QED BY DEF Alives
    <2> HIDE DEF at
    <2>1. CASE t = NULL
      BY <2>1
    <2>2. ASSUME NEW j \in 1 .. n, t = s[j]
          PROVE  g[t] = IF Expired(t) THEN g[next[t]] ELSE t
      <3>1. g[t] = at(s[j]) /\ g[NULL] = NULL
        BY <2>2, <1>6
      <3>2. CASE j = n
        BY <2>2, <3>1, <3>2, <1>6, <1>7
      <3>3. CASE j # n
        <4>1. j + 1 \in 1 .. n /\ next[t] = s[j + 1]
          BY <2>2, <3>3, <1>6
        <4>2. g[next[t]] = at(s[j + 1])
          BY <4>1, <1>6
        <4> QED BY <2>2, <3>1, <3>3, <4>2, <1>7
      <3> QED BY <3>2, <3>3
    <2>3. CASE t # NULL /\ t \notin Nodes(s, n)
      <3>1. next[t] = NULL
        BY <2>3
      <3> QED BY <2>3, <3>1
    <2>4. t = NULL \/ (t # NULL /\ t \notin Nodes(s, n)) \/ \E j \in 1 .. n : t = s[j]
      BY DEF Nodes
    <2> HIDE DEF g
    <2> QED BY <2>1, <2>2, <2>3, <2>4, <1>6
  <1>9. PICK u : FirstAlive = u[head] /\ Alives(u)
    <2> HIDE DEF g
    <2> QED BY <1>8, AliveDef
  <1> DEFINE i == StopAt(1)
  <1>10. i \in 1 .. n + 1 /\ Stops(i) /\ \A h \in 1 .. i - 1 : ~Stops(h)
    <2>1. 1 \in 1 .. n + 1
      OBVIOUS
    <2> HIDE DEF Stops, StopAt
    <2> QED BY <2>1, <1>1
  <1> HIDE DEF i
  <1>11. u[head] = u[Node(s, n, i)]
    <2> DEFINE D == {j \in 1 .. i : u[Node(s, n, j)] = u[head]}
    <2>1. D \in SUBSET (0 .. n + 1) /\ 1 \in D /\ n + 1 \in Nat
      BY <1>10 DEF Node
    <2>2. PICK m \in D : \A h \in D : h <= m
      <3> HIDE DEF D
      <3> QED BY <2>1, GreatestNat
    <2>3. m \in 1 .. i /\ u[Node(s, n, m)] = u[head]
      OBVIOUS
    <2>4. CASE m = i
      BY <2>3, <2>4
    <2>5. CASE m # i
      <3>1. m \in 1 .. i - 1 /\ m + 1 \in 1 .. i /\ m \in 1 .. n
        BY <2>3, <2>5, <1>10
      <3>2. Expired(s[m])
        BY <3>1, <1>10
      <3>3. /\ Node(s, n, m) = s[m] /\ s[m] # NULL /\ s[m] \in Timers
            /\ next[s[m]] = Node(s, n, m + 1)
        BY <3>1, <1>6 DEF Node
      <3>4. u[s[m]] = u[next[s[m]]]
        BY <3>2, <3>3, <1>9 DEF Alives
      <3>5. m + 1 \in D
        BY <2>3, <3>1, <3>3, <3>4
      <3> HIDE DEF D
      <3> QED BY <2>2, <2>3, <3>5
    <2> QED BY <2>4, <2>5
  <1>12. u[Node(s, n, i)] = Node(s, n, i)
    <2>1. CASE i = n + 1
      <3>1. u[NULL] = NULL
        <4> HIDE DEF g
        <4> QED BY <1>9 DEF Alives
      <3> QED BY <2>1, <3>1 DEF Node
    <2>2. CASE i # n + 1
      <3>1. i \in 1 .. n /\ ~Expired(s[i]) /\ Node(s, n, i) = s[i]
        BY <2>2, <1>10 DEF Node
      <3>2. s[i] \in Timers /\ s[i] # NULL
        BY <3>1, <1>6
      <3>3. u[s[i]] = s[i]
        <4> HIDE DEF g, Stops
        <4> QED BY <3>1, <3>2, <1>9 DEF Alives
      <3> QED BY <3>1, <3>3
    <2> QED BY <2>1, <2>2
  <1> DEFINE m == i - 1
  <1>13. /\ m \in 0 .. n /\ m + 1 = i
         /\ \A j \in 1 .. m : Expired(s[j])
         /\ m < n => ~Expired(s[m + 1])
    BY <1>10
  <1> HIDE DEF m
  <1> QED BY <1>9, <1>11, <1>12, <1>13

\* What it has passed are the nodes before that one.
LEMMA PassedChain ==
  ASSUME NEW n \in Nat \ {0}, NEW s \in [1 .. n -> Timers], Chain(s, n, next, prev),
         head = s[1], \A p \in Timers \ Nodes(s, n) : next[p] = NULL,
         NEW m \in 0 .. n
  PROVE  Passed(Node(s, n, m + 1)) = {s[j] : j \in 1 .. m}
  <1> DEFINE first == Node(s, n, m + 1)
             last(j) == IF j <= m THEN m ELSE n
             pos(p) == CHOOSE i \in 1 .. n : s[i] = p
             from(j) == {s[h] : h \in j .. last(j)}
             g == [t \in Timers \cup {NULL} |->
                     IF t \in {first, NULL} THEN {}
                     ELSE IF t \in Nodes(s, n) THEN from(pos(t)) ELSE {t}]
  <1>1. ASSUME NEW j \in 1 .. n
        PROVE  pos(s[j]) = j
    <2>1. \A i \in 1 .. n : s[i] = s[j] => i = j
      BY DEF Chain
    <2> QED BY <2>1
  <1>2. /\ \A j \in 1 .. n : next[s[j]] = Node(s, n, j + 1)
        /\ \A j \in 1 .. n : s[j] # NULL /\ s[j] \in Timers /\ s[j] \in Nodes(s, n)
        /\ NULL \notin Timers
        /\ \A j \in 1 .. n : s[j] = first <=> j = m + 1
    BY TimerAssumption DEF Chain, Nodes, Node
  <1>3. ASSUME NEW j \in 1 .. n, j # m + 1
        PROVE  from(j) = {s[j]} \cup IF j \in {m, n} THEN {} ELSE from(j + 1)
    <2>1. j \in {m, n} => j .. last(j) = {j}
      BY <1>3
    <2>2. j \notin {m, n} => j .. last(j) = {j} \cup (j + 1 .. last(j + 1))
      BY <1>3
    <2> QED BY <2>1, <2>2
  <1>4. Passes(g, first)
    <2> SUFFICES ASSUME NEW t \in Timers \cup {NULL}
                 PROVE  g[t] = IF t \in {first, NULL} THEN {} ELSE {t} \cup g[next[t]]
      <3> HIDE DEF from, first, pos
      <3>1. g = [t \in Timers \cup {NULL} |-> g[t]]
        OBVIOUS
      <3> HIDE DEF g
      <3> QED BY <3>1 DEF Passes
    <2> HIDE DEF from, first, pos
    <2>1. CASE t \in {first, NULL}
      BY <2>1
    <2>2. ASSUME NEW j \in 1 .. n, t = s[j], t # first
          PROVE  g[t] = {t} \cup g[next[t]]
      <3>1. g[t] = from(j) /\ g[NULL] = {} /\ j # m + 1 /\ next[t] = Node(s, n, j + 1)
        BY <2>2, <1>1, <1>2
      <3>2. CASE j = n
        <4>1. next[t] = NULL
          BY <3>1, <3>2 DEF Node
        <4> QED BY <2>2, <3>1, <3>2, <4>1, <1>3
      <3>3. CASE j # n /\ j = m
        <4>1. next[t] = first
          BY <3>1, <3>3 DEF first
        <4>2. first \in Timers \cup {NULL}
          BY <3>3, <1>2 DEF first, Node
        <4>3. g[first] = {}
          BY <4>2
        <4> QED BY <2>2, <3>1, <3>3, <4>1, <4>3, <1>3
      <3>4. CASE j # n /\ j # m
        <4>1. j + 1 \in 1 .. n /\ next[t] = s[j + 1] /\ j + 1 # m + 1
          BY <3>1, <3>4 DEF Node
        <4>2. g[next[t]] = from(j + 1)
          BY <4>1, <1>1, <1>2
        <4>3. from(j) = {s[j]} \cup from(j + 1)
          BY <3>1, <3>4, <1>3
        <4> QED BY <2>2, <3>1, <4>2, <4>3
      <3> QED BY <3>2, <3>3, <3>4
    <2>3. CASE t \notin {first, NULL} /\ t \notin Nodes(s, n)
      <3>1. next[t] = NULL
        BY <2>3
      <3> QED BY <2>3, <3>1
    <2>4. \/ t \in {first, NULL} \/ (t \notin {first, NULL} /\ t \notin Nodes(s, n))
          \/ t \notin {first, NULL} /\ \E j \in 1 .. n : t = s[j]
      BY DEF Nodes
    <2> HIDE DEF g
    <2> QED BY <2>1, <2>2, <2>3, <2>4, <1>2
  <1>5. PICK b : Passed(first) = b[head] /\ Passes(b, first)
    <2> HIDE DEF g, first
    <2> QED BY <1>4, PassedDef
  <1> DEFINE upto(j) == {s[h] : h \in 1 .. j - 1}
  <1> HIDE DEF g
  <1>6. b[head] = b[first] \cup {s[j] : j \in 1 .. m}
    <2> DEFINE D == {j \in 1 .. m + 1 : b[head] = b[Node(s, n, j)] \cup upto(j)}
    <2>1. D \in SUBSET (0 .. m + 1) /\ m + 1 \in Nat
      OBVIOUS
    <2>2. 1 \in D
      <3>1. upto(1) = {} /\ 1 \in 1 .. m + 1 /\ Node(s, n, 1) = head
        BY DEF Node
      <3> HIDE DEF upto
      <3> QED BY <3>1
    <2>3. PICK k \in D : \A h \in D : h <= k
      <3> HIDE DEF D
      <3> QED BY <2>1, <2>2, GreatestNat
    <2>4. k \in 1 .. m + 1 /\ b[head] = b[Node(s, n, k)] \cup upto(k)
      <3> HIDE DEF upto
      <3> QED OBVIOUS
    <2>5. CASE k = m + 1
      <3>1. (m + 1) - 1 = m
        OBVIOUS
      <3> QED BY <2>4, <2>5, <3>1
    <2>6. CASE k # m + 1
      <3>1. k \in 1 .. m /\ k \in 1 .. n /\ k + 1 \in 1 .. m + 1
        BY <2>4, <2>6
      <3>2. /\ Node(s, n, k) = s[k] /\ s[k] \notin {first, NULL} /\ s[k] \in Timers
            /\ next[s[k]] = Node(s, n, k + 1)
        <4>1. Node(s, n, k) = s[k]
          BY <3>1 DEF Node
        <4> HIDE DEF first
        <4> QED BY <4>1, <3>1, <1>2, <2>6
      <3>3. b[s[k]] = {s[k]} \cup b[Node(s, n, k + 1)]
        <4> DEFINE x == s[k]
        <4> HIDE DEF first, x, upto, D, from, pos, last
        <4>1. x \in Timers /\ x \notin {first, NULL}
          BY <3>2 DEF x
        <4>2. b[x] = IF x \in {first, NULL} THEN {} ELSE {x} \cup b[next[x]]
          BY <4>1, <1>5 DEF Passes
        <4>3. next[x] = Node(s, n, k + 1)
          BY <3>2 DEF x
        <4>4. b[x] = {x} \cup b[Node(s, n, k + 1)]
          BY <4>1, <4>2, <4>3
        <4> QED BY <4>4 DEF x
      <3>4. upto(k + 1) = {s[k]} \cup upto(k)
        <4>1. 1 .. (k + 1) - 1 = {k} \cup (1 .. k - 1)
          BY <3>1
        <4> QED BY <4>1
      <3>5. k + 1 \in D
        <4> HIDE DEF upto
        <4> QED BY <2>4, <3>1, <3>2, <3>3, <3>4
      <3> HIDE DEF D
      <3> QED BY <2>3, <2>4, <3>5
    <2> QED BY <2>5, <2>6
  <1>7. b[first] = {}
    <2>1. first \in Timers \cup {NULL}
      BY <1>2 DEF Node
    <2> HIDE DEF first
    <2> QED BY <2>1, <1>5 DEF Passes
  <1> QED BY <1>5, <1>6, <1>7

-----------------------------------------------------------------------------
(* The invariant.                                                          *)

\* The pointers are those of the sequence s of n timers.
IsList(s, n) ==
  /\ Chain(s, n, next, prev)
  /\ timers = Nodes(s, n)
  /\ head = IF n = 0 THEN NULL ELSE s[1]
  /\ n > 0 => tail = s[n]
  /\ steady => Sorted(s, n, expire)

Linked == \E n \in Nat : \E s \in [1 .. n -> Timers] : IsList(s, n)

FieldsFreed == \A t \in Timers \ timers : next[t] = NULL /\ prev[t] = NULL

\* No timer expires later than one that is set now, as long as time goes forward.
NoneLater == steady => \A t \in timers : expire[t] <= now + LIFETIME

Inv == TypeOK /\ Linked /\ FieldsFreed /\ NoneLater

-----------------------------------------------------------------------------
(* Each operation keeps it.                                                *)

\* Putting t after the i-th node keeps the order, where it belongs there.
LEMMA InsertSorted ==
  ASSUME NEW n \in Nat, NEW s \in [1 .. n -> Timers], NEW t \in Timers, NEW i \in 0 .. n,
         NEW e \in [Timers -> Int], Sorted(s, n, e),
         i > 0 => e[s[i]] <= e[t],
         i < n => e[t] <= e[s[i + 1]]
  PROVE  Sorted(Inserted(s, n, i, t), n + 1, e)
  <1> DEFINE r == Inserted(s, n, i, t)
  <1>1. /\ \A j \in 1 .. i : r[j] = s[j]
        /\ r[i + 1] = t
        /\ \A j \in i + 2 .. n + 1 : r[j] = s[j - 1] /\ j - 1 \in i + 1 .. n
    BY DEF Inserted
  <1>2. \A j \in 1 .. n : e[s[j]] \in Int
    OBVIOUS
  <1>3. /\ \A j \in 1 .. i : e[s[j]] <= e[t]
        /\ \A j \in i + 1 .. n : e[t] <= e[s[j]]
    <2>1. \A j \in 1 .. i : e[s[j]] <= e[s[i]] /\ i > 0
      BY DEF Sorted
    <2>2. \A j \in i + 1 .. n : e[s[i + 1]] <= e[s[j]] /\ i < n
      BY DEF Sorted
    <2>3. ASSUME NEW j \in 1 .. i PROVE e[s[j]] <= e[t]
      <3>1. i \in 1 .. n /\ j \in 1 .. n
        OBVIOUS
      <3> QED BY <2>1, <3>1, <1>2
    <2>4. ASSUME NEW j \in i + 1 .. n PROVE e[t] <= e[s[j]]
      <3>1. i + 1 \in 1 .. n /\ j \in 1 .. n
        OBVIOUS
      <3> QED BY <2>2, <3>1, <1>2
    <2> QED BY <2>3, <2>4
  <1> HIDE DEF r
  <1>4. ASSUME NEW j \in 1 .. n + 1, NEW k \in 1 .. n + 1, j <= k
        PROVE  e[r[j]] <= e[r[k]]
    <2>1. CASE k <= i
      BY <2>1, <1>1, <1>4 DEF Sorted
    <2>2. CASE j > i + 1
      <3>1. /\ r[j] = s[j - 1] /\ r[k] = s[k - 1]
            /\ j - 1 \in 1 .. n /\ k - 1 \in 1 .. n /\ j - 1 <= k - 1
        BY <2>2, <1>1, <1>4
      <3> QED BY <3>1 DEF Sorted
    <2>3. CASE j <= i /\ k > i + 1
      <3>1. /\ r[j] = s[j] /\ r[k] = s[k - 1] /\ j \in 1 .. i /\ j \in 1 .. n
            /\ k - 1 \in i + 1 .. n /\ k - 1 \in 1 .. n
        BY <2>3, <1>1
      <3> QED BY <3>1, <1>2, <1>3
    <2>4. CASE j = i + 1 /\ k = i + 1
      BY <2>4, <1>1
    <2>5. CASE j <= i /\ k = i + 1
      BY <2>5, <1>1, <1>3
    <2>6. CASE j = i + 1 /\ k > i + 1
      BY <2>6, <1>1, <1>3
    <2> QED BY <2>1, <2>2, <2>3, <2>4, <2>5, <2>6, <1>4
  <1> QED BY <1>4 DEF Sorted, r

\* t is put into the chain s of nx and pv, where its expiration belongs.
Spliced(t, s, n, nx, pv, e) ==
  /\ next' \in [Timers -> Timers \cup {NULL}]
  /\ prev' \in [Timers -> Timers \cup {NULL}]
  /\ \A x \in Timers \ (Nodes(s, n) \cup {t}) : next'[x] = nx[x] /\ prev'[x] = pv[x]
  /\ \E r \in [1 .. n + 1 -> Timers] :
       /\ Chain(r, n + 1, next', prev')
       /\ Nodes(r, n + 1) = Nodes(s, n) \cup {t}
       /\ r[1] = s[1]
       /\ tail' = r[n + 1]
       /\ Sorted(s, n, e) => Sorted(r, n + 1, e)

\* add_timer( timer, lst_head ) from the k-th node of a chain on.
LEMMA InsertAfterChain ==
  ASSUME NEW n \in Nat, NEW s \in [1 .. n -> Timers], NEW k \in 1 .. n,
         NEW t \in Timers \ Nodes(s, n),
         NEW nx \in [Timers -> Timers \cup {NULL}], NEW pv \in [Timers -> Timers \cup {NULL}],
         NEW e \in [Timers -> Int], Chain(s, n, nx, pv),
         \A p \in Timers \ Nodes(s, n) : nx[p] \in Nodes(s, n) \cup {NULL},
         e[s[k]] <= e[t], tail = s[n],
         InsertAfter(t, s[k], nx, pv, e)
  PROVE  Spliced(t, s, n, nx, pv, e)
  <1>1. PICK i \in k .. n : /\ Place(t, s[k], nx, e) = s[i]
                            /\ i < n => e[t] < e[s[i + 1]]
                            /\ k < i => e[s[i]] <= e[t]
    BY PlaceChain
  <1>2. i \in 1 .. n /\ e[s[i]] <= e[t]
    BY <1>1
  <1> DEFINE p == s[i]
             nx2 == [nx EXCEPT ![p] = t, ![t] = nx[p]]
             pv2 == Set([pv EXCEPT ![t] = p], nx[p], t)
             r == Inserted(s, n, i, t)
  <1>3. /\ Chain(r, n + 1, nx2, pv2)
        /\ r \in [1 .. n + 1 -> Timers]
        /\ Nodes(r, n + 1) = Nodes(s, n) \cup {t}
        /\ nx2 \in [Timers -> Timers \cup {NULL}]
        /\ pv2 \in [Timers -> Timers \cup {NULL}]
    BY <1>2, InsertChain
  <1>4. /\ next' = nx2 /\ prev' = pv2
        /\ tail' = IF nx[p] = NULL THEN t ELSE tail
    BY <1>1 DEF InsertAfter
  <1>5. nx[p] = IF i = n THEN NULL ELSE s[i + 1]
    BY <1>2 DEF Chain
  <1>6. /\ \A j \in 1 .. n : s[j] # NULL /\ s[j] # t /\ s[j] \in Nodes(s, n)
        /\ i < n => i + 1 \in 1 .. n
        /\ NULL \notin Timers
    BY <1>2, TimerAssumption DEF Nodes
  <1>7. \A x \in Timers \ (Nodes(s, n) \cup {t}) : nx2[x] = nx[x] /\ pv2[x] = pv[x]
    <2>1. \A x \in Timers \ (Nodes(s, n) \cup {t}) : x # p /\ x # t /\ x # nx[p]
      BY <1>2, <1>5, <1>6
    <2> QED BY <2>1 DEF Set
  <1>8. r[1] = s[1] /\ tail' = r[n + 1]
    <2>1. r[1] = s[1]
      BY <1>2 DEF Inserted
    <2>2. r[n + 1] = IF i = n THEN t ELSE s[n]
      BY <1>2, (n + 1) - 1 = n DEF Inserted
    <2> HIDE DEF r, nx2, pv2
    <2> QED BY <2>1, <2>2, <1>2, <1>4, <1>5, <1>6
  <1>9. Sorted(s, n, e) => Sorted(r, n + 1, e)
    <2> SUFFICES ASSUME Sorted(s, n, e) PROVE Sorted(r, n + 1, e)
      OBVIOUS
    <2>1. i \in 0 .. n /\ (i < n => e[t] <= e[s[i + 1]])
      <3>1. i < n => s[i + 1] \in Timers
        BY <1>6
      <3> QED BY <1>1, <1>2, <3>1
    <2> QED BY <2>1, <1>2, InsertSorted
  <1> HIDE DEF r, nx2, pv2
  <1> QED BY <1>3, <1>4, <1>7, <1>8, <1>9 DEF Spliced

\* The new expiration of a timer, as the operations use it.
LEMMA NewExpirations ==
  ASSUME TypeOK, NEW t \in Timers
  PROVE  /\ [expire EXCEPT ![t] = NewExpire(t)] \in [Timers -> 0 .. MaxNow + LIFETIME]
         /\ [expire EXCEPT ![t] = NewExpire(t)][t] = now + LIFETIME
         /\ \A x \in Timers \ {t} : [expire EXCEPT ![t] = NewExpire(t)][x] = expire[x]
  BY TimerAssumption DEF TypeOK, NewExpire

\* As long as time goes forward, no timer expires later than a new one.
LEMMA NoneLaterKept ==
  ASSUME TypeOK, NoneLater, NEW t \in Timers,
         expire' = [expire EXCEPT ![t] = NewExpire(t)],
         timers' \subseteq timers \cup {t}, UNCHANGED <<now, steady>>
  PROVE  NoneLater'
  <1> SUFFICES ASSUME steady, NEW x \in timers' PROVE expire'[x] <= now + LIFETIME
    BY DEF NoneLater
  <1>1. CASE x = t
    BY <1>1, NewExpirations, TimerAssumption DEF TypeOK
  <1>2. CASE x # t
    BY <1>2, NewExpirations DEF NoneLater, TypeOK
  <1> QED BY <1>1, <1>2

\* The first timer of a list makes a chain of one.
LEMMA AddToEmpty ==
  ASSUME Inv, NEW t \in Timers, add_timer(t), head = NULL
  PROVE  Linked'
  <1>1. PICK n \in Nat : \E s \in [1 .. n -> Timers] : IsList(s, n)
    BY DEF Inv, Linked
  <1>2. PICK s \in [1 .. n -> Timers] : IsList(s, n)
    BY <1>1
  <1>3. n = 0 /\ timers = {}
    BY <1>2, TimerAssumption DEF IsList, Nodes
  <1> DEFINE r == [j \in 1 .. 1 |-> t]
  <1>4. r \in [1 .. 1 -> Timers] /\ r[1] = t /\ Nodes(r, 1) = {t}
    BY DEF Nodes
  <1>5. /\ next' = next /\ prev' = prev /\ head' = t /\ tail' = t /\ timers' = {t}
        /\ next[t] = NULL /\ prev[t] = NULL
    BY <1>3 DEF add_timer, Inv, FieldsFreed
  <1>6. expire'[t] \in Int
    BY NewExpirations DEF add_timer, Inv
  <1> HIDE DEF r
  <1>7. \A j \in 1 .. 1 : j = 1
    OBVIOUS
  <1>8. Chain(r, 1, next', prev') /\ Sorted(r, 1, expire')
    BY <1>4, <1>5, <1>6, <1>7 DEF Chain, Sorted
  <1>9. IsList(r, 1)'
    BY <1>4, <1>5, <1>8 DEF IsList
  <1> QED BY <1>4, <1>9 DEF Linked

\* A timer that expires before the first becomes the first.
LEMMA AddFirst ==
  ASSUME Inv, NEW t \in Timers, add_timer(t), head # NULL,
         [expire EXCEPT ![t] = NewExpire(t)][t] < [expire EXCEPT ![t] = NewExpire(t)][head]
  PROVE  Linked'
  <1>1. PICK n \in Nat : \E s \in [1 .. n -> Timers] : IsList(s, n)
    BY DEF Inv, Linked
  <1>2. PICK s \in [1 .. n -> Timers] : IsList(s, n)
    BY <1>1
  <1>3. PICK e : e = [expire EXCEPT ![t] = NewExpire(t)]
    OBVIOUS
  <1>4. /\ n \in Nat \ {0} /\ head = s[1] /\ 1 \in 1 .. n /\ t \in Timers \ Nodes(s, n)
        /\ timers = Nodes(s, n) /\ s[1] \in Timers
    BY <1>2 DEF IsList, add_timer
  <1>5. /\ timers' = timers \cup {t} /\ expire' = e /\ head' = t /\ tail' = tail
        /\ next' = [next EXCEPT ![t] = s[1]] /\ prev' = [prev EXCEPT ![s[1]] = t]
        /\ e[t] < e[s[1]]
    BY <1>3, <1>4, NewExpirations DEF add_timer, Inv, TypeOK
  <1>6. e \in [Timers -> Int]
    BY <1>3, NewExpirations, TimerAssumption DEF Inv
  <1>7. prev[t] = NULL
    BY <1>4 DEF Inv, FieldsFreed
  <1> DEFINE r == Inserted(s, n, 0, t)
  <1>8. /\ Chain(r, n + 1, next', prev')
        /\ r \in [1 .. n + 1 -> Timers]
        /\ Nodes(r, n + 1) = Nodes(s, n) \cup {t}
    <2>1. PICK nx, pv : nx = next /\ pv = prev
      OBVIOUS
    <2>2. /\ nx \in [Timers -> Timers \cup {NULL}] /\ pv \in [Timers -> Timers \cup {NULL}]
          /\ Chain(s, n, nx, pv) /\ pv[t] = NULL
      BY <2>1, <1>2, <1>7 DEF Inv, TypeOK, IsList
    <2> HIDE DEF r
    <2> QED BY <2>1, <2>2, <1>4, <1>5, FirstChain DEF r
  <1>9. r[1] = t /\ r[n + 1] = s[n]
    BY <1>4, (n + 1) - 1 = n DEF Inserted
  <1>10. steady => Sorted(r, n + 1, e)
    <2> SUFFICES ASSUME steady PROVE Sorted(r, n + 1, e)
      OBVIOUS
    <2>1. Sorted(s, n, e)
      <3>1. \A j \in 1 .. n : s[j] \in Timers \ {t}
        BY <1>4 DEF Nodes
      <3>2. \A j \in 1 .. n : e[s[j]] = expire[s[j]]
        BY <3>1, <1>3, NewExpirations DEF Inv
      <3> QED BY <3>2, <1>2 DEF Sorted, IsList
    <2>2. 0 < n => e[t] <= e[s[0 + 1]]
      BY <1>4, <1>5, <1>6
    <2> QED BY <2>1, <2>2, <1>4, <1>6, InsertSorted, 0 \in 0 .. n
  <1>11. PICK q : q = r
    OBVIOUS
  <1>12. /\ n > 0 /\ n + 1 \in Nat /\ n + 1 # 0
         /\ tail = s[n] /\ steady' = steady
    BY <1>2, <1>4 DEF IsList, add_timer
  <1> HIDE DEF r
  <1>13. IsList(q, n + 1)'
    BY <1>4, <1>5, <1>8, <1>9, <1>10, <1>11, <1>12 DEF IsList
  <1> QED BY <1>8, <1>11, <1>12, <1>13 DEF Linked

\* Any other goes to its place behind the first.
LEMMA AddBehind ==
  ASSUME Inv, NEW t \in Timers, add_timer(t), head # NULL,
         [expire EXCEPT ![t] = NewExpire(t)][t] >= [expire EXCEPT ![t] = NewExpire(t)][head]
  PROVE  /\ Linked'
         /\ next' \in [Timers -> Timers \cup {NULL}] /\ prev' \in [Timers -> Timers \cup {NULL}]
         /\ \A x \in Timers \ timers' : next'[x] = next[x] /\ prev'[x] = prev[x]
         /\ tail' \in Timers
  <1>1. PICK n \in Nat : \E s \in [1 .. n -> Timers] : IsList(s, n)
    BY DEF Inv, Linked
  <1>2. PICK s \in [1 .. n -> Timers] : IsList(s, n)
    BY <1>1
  <1>3. PICK e : e = [expire EXCEPT ![t] = NewExpire(t)]
    OBVIOUS
  <1>4. PICK nx, pv : nx = next /\ pv = prev
    OBVIOUS
  <1>5. /\ n \in Nat \ {0} /\ head = s[1] /\ 1 \in 1 .. n /\ t \in Timers \ Nodes(s, n)
        /\ timers = Nodes(s, n) /\ tail = s[n]
        /\ Chain(s, n, nx, pv)
        /\ nx \in [Timers -> Timers \cup {NULL}] /\ pv \in [Timers -> Timers \cup {NULL}]
        /\ \A p \in Timers \ Nodes(s, n) : nx[p] \in Nodes(s, n) \cup {NULL}
    BY <1>2, <1>4 DEF IsList, add_timer, Inv, TypeOK, FieldsFreed
  <1>6. e \in [Timers -> Int]
    BY <1>3, NewExpirations, TimerAssumption DEF Inv
  <1>7. /\ timers' = timers \cup {t} /\ expire' = e /\ head' = head
        /\ e[s[1]] <= e[t]
        /\ InsertAfter(t, s[1], nx, pv, e)
    <2>1. e[t] \in Int /\ e[s[1]] \in Int
      BY <1>5, <1>6
    <2>2. e[t] >= e[s[1]]
      BY <1>3, <1>5
    <2> QED BY <2>1, <2>2, <1>3, <1>4, <1>5 DEF add_timer
  <1>8. Spliced(t, s, n, nx, pv, e)
    BY <1>5, <1>6, <1>7, InsertAfterChain
  <1>9. PICK r \in [1 .. n + 1 -> Timers] :
             /\ Chain(r, n + 1, next', prev')
             /\ Nodes(r, n + 1) = Nodes(s, n) \cup {t}
             /\ r[1] = s[1]
             /\ tail' = r[n + 1]
             /\ Sorted(s, n, e) => Sorted(r, n + 1, e)
    BY <1>8 DEF Spliced
  <1>10. steady => Sorted(s, n, e)
    <2>1. \A j \in 1 .. n : s[j] \in Timers \ {t}
      BY <1>5 DEF Nodes
    <2>2. \A j \in 1 .. n : e[s[j]] = expire[s[j]]
      BY <2>1, <1>3, NewExpirations DEF Inv
    <2> QED BY <2>2, <1>2 DEF Sorted, IsList
  <1>11. IsList(r, n + 1)'
    <2>1. n + 1 \in Nat /\ n + 1 # 0 /\ steady' = steady
      BY DEF add_timer
    <2> QED BY <2>1, <1>5, <1>7, <1>9, <1>10 DEF IsList
  <1>12. Linked'
    BY <1>11, n + 1 \in Nat DEF Linked
  <1>13. tail' \in Timers
    BY <1>9, n + 1 \in 1 .. n + 1
  <1> QED BY <1>4, <1>5, <1>7, <1>8, <1>12, <1>13 DEF Spliced

\* The neighbours of the k-th node.
LEMMA Neighbours ==
  ASSUME Inv, NEW n \in Nat, NEW s \in [1 .. n -> Timers], IsList(s, n), NEW k \in 1 .. n
  PROVE  /\ next[s[k]] = IF k = n THEN NULL ELSE s[k + 1]
         /\ prev[s[k]] = IF k = 1 THEN NULL ELSE s[k - 1]
         /\ s[k] = head <=> k = 1
         /\ s[k] = tail <=> k = n
         /\ s[k] # NULL /\ s[k] \in timers
         /\ \A j \in 1 .. n : s[j] = s[k] <=> j = k
         /\ n > 0 /\ head = s[1] /\ tail = s[n]
  BY TimerAssumption DEF IsList, Chain, Nodes

\* adjust_timer takes the timer out and puts it back behind its successor.
LEMMA AdjustTimer ==
  ASSUME Inv, NEW t \in Timers, adjust_timer(t)
  PROVE  /\ Linked'
         /\ next' \in [Timers -> Timers \cup {NULL}] /\ prev' \in [Timers -> Timers \cup {NULL}]
         /\ \A x \in Timers \ timers' : next'[x] = next[x] /\ prev'[x] = prev[x]
         /\ head' \in Timers /\ tail' \in Timers
  <1>1. PICK n \in Nat : \E s \in [1 .. n -> Timers] : IsList(s, n)
    BY DEF Inv, Linked
  <1>2. PICK s \in [1 .. n -> Timers] : IsList(s, n)
    BY <1>1
  <1>3. PICK e : e = [expire EXCEPT ![t] = NewExpire(t)]
    OBVIOUS
  <1>4. PICK k \in 1 .. n : t = s[k]
    BY <1>2 DEF adjust_timer, IsList, Nodes
  <1>5. /\ e \in [Timers -> Int] /\ e[t] = now + LIFETIME
        /\ \A x \in Timers \ {t} : e[x] = expire[x]
    BY <1>3, NewExpirations, TimerAssumption DEF Inv
  <1>6. /\ expire' = e /\ timers' = timers /\ steady' = steady
        /\ \A j \in 1 .. n : s[j] \in timers /\ s[j] \in Timers
    BY <1>2, <1>3 DEF adjust_timer, IsList, Nodes
  <1>7. /\ next \in [Timers -> Timers \cup {NULL}] /\ prev \in [Timers -> Timers \cup {NULL}]
        /\ Chain(s, n, next, prev) /\ timers = Nodes(s, n)
        /\ \A x \in Timers \ timers : next[x] = NULL
    BY <1>2 DEF Inv, TypeOK, IsList, FieldsFreed
  <1>8. /\ next[t] = IF k = n THEN NULL ELSE s[k + 1]
        /\ prev[t] = IF k = 1 THEN NULL ELSE s[k - 1]
        /\ t = head <=> k = 1
        /\ \A j \in 1 .. n : s[j] = t <=> j = k
        /\ n > 0 /\ head = s[1] /\ tail = s[n]
    <2>1. /\ next[s[k]] = IF k = n THEN NULL ELSE s[k + 1]
          /\ prev[s[k]] = IF k = 1 THEN NULL ELSE s[k - 1]
          /\ s[k] = head <=> k = 1
          /\ \A j \in 1 .. n : s[j] = s[k] <=> j = k
          /\ n > 0 /\ head = s[1] /\ tail = s[n]
      BY <1>2, Neighbours
    <2> QED BY <2>1, <1>4
  <1>9. steady => \A j \in 1 .. n : e[s[j]] <= e[t]
    <2> SUFFICES ASSUME steady, NEW j \in 1 .. n PROVE e[s[j]] <= e[t]
      OBVIOUS
    <2>1. CASE s[j] = t
      BY <2>1, <1>5, <1>6
    <2>2. CASE s[j] # t
      BY <2>2, <1>5, <1>6 DEF Inv, NoneLater
    <2> QED BY <2>1, <2>2
  <1>10. CASE next[t] # NULL => e[t] < e[next[t]]
    <2>1. UNCHANGED <<prev, next, head, tail>>
      BY <1>3, <1>10 DEF adjust_timer
    <2>2. steady => k = n
      <3> SUFFICES ASSUME steady, k # n PROVE FALSE
        OBVIOUS
      <3>1. k + 1 \in 1 .. n /\ next[t] = s[k + 1] /\ s[k + 1] \in Timers
        BY <1>6, <1>8
      <3>2. next[t] # NULL
        BY <3>1, TimerAssumption
      <3>3. e[s[k + 1]] <= e[t] /\ e[t] < e[s[k + 1]]
        BY <3>1, <3>2, <1>9, <1>10
      <3> QED BY <3>1, <3>3, <1>5
    <2>3. steady => Sorted(s, n, e)
      <3> SUFFICES ASSUME steady, NEW i \in 1 .. n, NEW j \in 1 .. n, i <= j
                   PROVE  e[s[i]] <= e[s[j]]
        BY DEF Sorted
      <3>1. CASE j = n
        BY <3>1, <2>2, <1>4, <1>9
      <3>2. CASE j # n
        <4>1. i # k /\ j # k
          BY <3>2, <2>2
        <4>2. e[s[i]] = expire[s[i]] /\ e[s[j]] = expire[s[j]]
          BY <4>1, <1>5, <1>6, <1>8
        <4> QED BY <4>2, <1>2 DEF IsList, Sorted
      <3> QED BY <3>1, <3>2
    <2>4. IsList(s, n)'
      BY <2>1, <2>3, <1>2, <1>6 DEF IsList
    <2>5. Linked'
      BY <2>4 DEF Linked
    <2>6. 1 \in 1 .. n /\ n \in 1 .. n
      OBVIOUS
    <2> QED BY <2>1, <2>5, <2>6, <1>6, <1>7, <1>8
  <1>11. CASE ~(next[t] # NULL => e[t] < e[next[t]])
    <2>1. k + 1 \in 1 .. n /\ next[t] = s[k + 1] /\ s[k + 1] # t
      BY <1>8, <1>11
    <2>2. e[s[k + 1]] <= e[t]
      BY <2>1, <1>5, <1>6, <1>11
    <2> DEFINE r == Removed(s, n, k)
    <2>3. /\ n - 1 \in Nat /\ k \in 1 .. n - 1 /\ n > 1
          /\ r[k] = s[k + 1] /\ r[n - 1] = s[n]
      BY <2>1, (n - 1) + 1 = n DEF Removed
    <2>4. PICK nx, pv :
            /\ nx = IF t = head THEN [next EXCEPT ![t] = NULL]
                                ELSE [next EXCEPT ![prev[t]] = next[t]]
            /\ pv = IF t = head THEN [prev EXCEPT ![next[t]] = NULL]
                                ELSE [prev EXCEPT ![next[t]] = prev[t]]
      OBVIOUS
    <2> DEFINE a == s[k - 1]
               b == s[k + 1]
    <2>20. t # head => k - 1 \in 1 .. n /\ a \in Timers /\ a # t /\ prev[t] = a /\ next[t] = b
      BY <2>1, <1>6, <1>8
    <2> HIDE DEF a, b
    <2>21. t # head => nx = [next EXCEPT ![a] = b] /\ pv = [prev EXCEPT ![b] = a]
      BY <2>4, <2>20
    <2>5. InsertAfter(t, s[k + 1], nx, pv, e)
      BY <2>1, <2>4, <1>3, <1>11 DEF adjust_timer
    <2>6. head' = IF t = head THEN s[k + 1] ELSE head
      BY <2>1, <1>3, <1>11 DEF adjust_timer
    <2>7. /\ nx \in [Timers -> Timers \cup {NULL}] /\ pv \in [Timers -> Timers \cup {NULL}]
          /\ \A x \in Timers \ timers : nx[x] = next[x] /\ pv[x] = prev[x]
          /\ nx[t] \in {NULL, s[k + 1]}
      <3>1. CASE t = head
        <4>1. k = 1 /\ nx = [next EXCEPT ![t] = NULL] /\ pv = [prev EXCEPT ![s[k + 1]] = NULL]
          BY <3>1, <2>1, <2>4, <1>8
        <4> QED BY <4>1, <2>1, <1>4, <1>6, <1>7
      <3>2. CASE t # head
        <4>1. /\ k - 1 \in 1 .. n /\ s[k - 1] # t
              /\ nx = [next EXCEPT ![s[k - 1]] = s[k + 1]]
              /\ pv = [prev EXCEPT ![s[k + 1]] = s[k - 1]]
          BY <3>2, <2>20, <2>21 DEF a, b
        <4> QED BY <4>1, <2>1, <1>4, <1>6, <1>7
      <3> QED BY <3>1, <3>2
    <2>8. ASSUME NEW j \in 1 .. n, j # k
          PROVE  /\ nx[s[j]] = IF j + 1 = k THEN next[s[k]] ELSE next[s[j]]
                 /\ pv[s[j]] = IF j = k + 1 THEN prev[s[k]] ELSE prev[s[j]]
      <3>1. /\ s[j] # t /\ s[j] \in Timers /\ s[k + 1] \in Timers
            /\ s[j] = s[k + 1] <=> j = k + 1
        BY <2>8, <2>1, <1>2, <1>6, <1>8, Neighbours
      <3>2. CASE t = head
        <4>1. k = 1 /\ nx = [next EXCEPT ![t] = NULL] /\ pv = [prev EXCEPT ![s[k + 1]] = NULL]
          BY <3>2, <2>1, <2>4, <1>8
        <4> QED BY <4>1, <3>1, <2>8, <1>4, <1>7, <1>8
      <3>3. CASE t # head
        <4>1. /\ k - 1 \in 1 .. n /\ s[k - 1] \in Timers
              /\ nx = [next EXCEPT ![s[k - 1]] = s[k + 1]]
              /\ pv = [prev EXCEPT ![s[k + 1]] = s[k - 1]]
          BY <3>3, <2>20, <2>21 DEF a, b
        <4>2. s[j] = s[k - 1] <=> j + 1 = k
          <5>1. s[j] = s[k - 1] => j = k - 1
            BY <4>1, <1>2 DEF IsList, Chain
          <5> QED BY <5>1
        <4> QED BY <4>1, <4>2, <3>1, <2>1, <1>4, <1>7, <1>8
      <3> QED BY <3>2, <3>3
    <2>9. /\ Chain(r, n - 1, nx, pv)
          /\ r \in [1 .. n - 1 -> Timers]
          /\ Nodes(r, n - 1) = timers \ {t}
      <3>1. PICK nx0, pv0 : nx0 = next /\ pv0 = prev
        OBVIOUS
      <3>2. /\ Chain(s, n, nx0, pv0)
            /\ nx0 \in [Timers -> Timers \cup {NULL}] /\ pv0 \in [Timers -> Timers \cup {NULL}]
            /\ Bypasses(s, n, k, nx0, pv0, nx, pv)
        BY <3>1, <2>8, <1>7 DEF Bypasses
      <3> HIDE DEF r
      <3> QED BY <3>2, <1>4, <1>7, RemoveChain DEF r
    <2>10. s[k + 1] \in Nodes(r, n - 1)
      BY <2>1, <2>9, <1>6
    <2>11. \A p \in Timers \ Nodes(r, n - 1) : nx[p] \in Nodes(r, n - 1) \cup {NULL}
      BY <2>7, <2>9, <2>10, <1>7
    <2>12. PICK q : q = r
      OBVIOUS
    <2>13. Spliced(t, q, n - 1, nx, pv, e)
      <3> DEFINE m == n - 1
      <3>1. /\ m \in Nat /\ q \in [1 .. m -> Timers] /\ k \in 1 .. m
            /\ t \in Timers \ Nodes(q, m)
            /\ nx \in [Timers -> Timers \cup {NULL}] /\ pv \in [Timers -> Timers \cup {NULL}]
            /\ Chain(q, m, nx, pv) /\ e \in [Timers -> Int]
            /\ \A p \in Timers \ Nodes(q, m) : nx[p] \in Nodes(q, m) \cup {NULL}
            /\ e[q[k]] <= e[t] /\ tail = q[m]
            /\ InsertAfter(t, q[k], nx, pv, e)
        <4> HIDE DEF r
        <4> QED BY <2>2, <2>3, <2>5, <2>7, <2>9, <2>11, <2>12, <1>5, <1>8
      <3> HIDE DEF m, r
      <3>2. Spliced(t, q, m, nx, pv, e)
        BY <3>1, InsertAfterChain
      <3> QED BY <3>2 DEF m
    <2>14. steady => Sorted(q, n - 1, e)
      <3> SUFFICES ASSUME steady, NEW i \in 1 .. n - 1, NEW j \in 1 .. n - 1, i <= j
                   PROVE  e[q[i]] <= e[q[j]]
        BY DEF Sorted
      <3> DEFINE old(x) == IF x < k THEN x ELSE x + 1
      <3>1. /\ q[i] = s[old(i)] /\ old(i) \in 1 .. n /\ old(i) # k
            /\ q[j] = s[old(j)] /\ old(j) \in 1 .. n /\ old(j) # k
            /\ old(i) <= old(j)
        BY <2>12 DEF Removed
      <3> HIDE DEF old
      <3>2. e[q[i]] = expire[s[old(i)]] /\ e[q[j]] = expire[s[old(j)]]
        BY <3>1, <1>5, <1>6, <1>8
      <3> QED BY <3>1, <3>2, <1>2 DEF IsList, Sorted
    <2> HIDE DEF r
    <2>15. PICK f \in [1 .. n -> Timers] :
             /\ Chain(f, n, next', prev')
             /\ Nodes(f, n) = Nodes(q, n - 1) \cup {t}
             /\ f[1] = q[1]
             /\ tail' = f[n]
             /\ Sorted(q, n - 1, e) => Sorted(f, n, e)
      <3>1. (n - 1) + 1 = n
        OBVIOUS
      <3> QED BY <2>13, <3>1 DEF Spliced
    <2>16. head' = f[1]
      <3>1. q[1] = IF k = 1 THEN s[2] ELSE s[1]
        BY <2>3, <2>12 DEF Removed, r
      <3> QED BY <3>1, <2>6, <2>15, <1>8
    <2>17. IsList(f, n)'
      <3>1. Nodes(q, n - 1) \cup {t} = timers
        BY <2>9, <2>12, <1>4, <1>6
      <3> QED BY <3>1, <2>3, <2>14, <2>15, <2>16, <1>6 DEF IsList
    <2>18. Linked'
      BY <2>17 DEF Linked
    <2>19. \A x \in Timers \ timers' : next'[x] = next[x] /\ prev'[x] = prev[x]
      BY <2>7, <2>9, <2>12, <2>13, <1>4, <1>6 DEF Spliced
    <2> QED BY <2>13, <2>15, <2>16, <2>18, <2>19, 1 \in 1 .. n, n \in 1 .. n DEF Spliced
  <1> QED BY <1>10, <1>11

\* A timer that is freed has no neighbours.
LEMMA FreedFields ==
  ASSUME NEW f \in [Timers -> Timers \cup {NULL}], NEW S
  PROVE  /\ Freed(f, S) \in [Timers -> Timers \cup {NULL}]
         /\ \A x \in Timers : Freed(f, S)[x] = IF x \in S THEN NULL ELSE f[x]
  BY DEF Freed

\* del_timer links the neighbours of the timer to each other.
LEMMA DelTimer ==
  ASSUME Inv, NEW t \in Timers, del_timer(t)
  PROVE  /\ Linked'
         /\ next' \in [Timers -> Timers \cup {NULL}] /\ prev' \in [Timers -> Timers \cup {NULL}]
         /\ FieldsFreed'
         /\ head' \in Timers \cup {NULL} /\ tail' \in Timers \cup {NULL}
  <1>1. PICK n \in Nat : \E s \in [1 .. n -> Timers] : IsList(s, n)
    BY DEF Inv, Linked
  <1>2. PICK s \in [1 .. n -> Timers] : IsList(s, n)
    BY <1>1
  <1>3. PICK k \in 1 .. n : t = s[k]
    BY <1>2 DEF del_timer, IsList, Nodes
  <1>4. PICK nx, pv : nx = next /\ pv = prev
    OBVIOUS
  <1>5. /\ nx \in [Timers -> Timers \cup {NULL}] /\ pv \in [Timers -> Timers \cup {NULL}]
        /\ Chain(s, n, nx, pv) /\ timers = Nodes(s, n)
        /\ \A x \in Timers \ timers : nx[x] = NULL /\ pv[x] = NULL
        /\ NULL \notin Timers
    BY <1>2, <1>4, TimerAssumption DEF Inv, TypeOK, IsList, FieldsFreed
  <1>6. /\ nx[s[k]] = IF k = n THEN NULL ELSE s[k + 1]
        /\ pv[s[k]] = IF k = 1 THEN NULL ELSE s[k - 1]
        /\ s[k] = head <=> k = 1
        /\ s[k] = tail <=> k = n
        /\ n > 0 /\ head = s[1] /\ tail = s[n]
    BY <1>2, <1>4, Neighbours
  <1>7. \A i, j \in 1 .. n : s[i] = s[j] <=> i = j
    BY <1>5 DEF Chain
  <1>8. /\ timers' = timers \ {t} /\ expire' = expire /\ steady' = steady
        /\ \A j \in 1 .. n : s[j] \in timers /\ s[j] \in Timers
    BY <1>2 DEF del_timer, IsList, Nodes
  <1> DEFINE a == s[k - 1]
             b == s[k + 1]
  <1>9. /\ k # 1 => k - 1 \in 1 .. n /\ a \in Timers /\ a \in timers /\ pv[t] = a
        /\ k # n => k + 1 \in 1 .. n /\ b \in Timers /\ b \in timers /\ nx[t] = b
    BY <1>3, <1>6, <1>8
  <1>10. /\ k # 1 => a # t /\ \A j \in 1 .. n : s[j] = a <=> j + 1 = k
         /\ k # n => b # t /\ \A j \in 1 .. n : s[j] = b <=> j = k + 1
         /\ \A j \in 1 .. n : s[j] = t <=> j = k
    <2>1. k # 1 => \A j \in 1 .. n : s[j] = a <=> j = k - 1
      BY <1>7, <1>9
    <2>2. k # n => \A j \in 1 .. n : s[j] = b <=> j = k + 1
      BY <1>7, <1>9
    <2>3. \A j \in 1 .. n : s[j] = t <=> j = k
      BY <1>3, <1>7
    <2> HIDE DEF a, b
    <2> QED BY <2>1, <2>2, <2>3, <1>3
  <1> HIDE DEF a, b
  <1> DEFINE nx1 == IF k = 1 THEN nx ELSE [nx EXCEPT ![a] = IF k = n THEN NULL ELSE b]
             pv1 == IF k = n THEN pv ELSE [pv EXCEPT ![b] = IF k = 1 THEN NULL ELSE a]
  <1>11. next' = Freed(nx1, {t}) /\ prev' = Freed(pv1, {t})
    <2>1. CASE k = 1 /\ k = n
      BY <2>1, <1>3, <1>4, <1>6 DEF del_timer
    <2>2. CASE k = 1 /\ k # n
      BY <2>2, <1>3, <1>4, <1>6, <1>9 DEF del_timer
    <2>3. CASE k # 1 /\ k = n
      BY <2>3, <1>3, <1>4, <1>6, <1>9 DEF del_timer
    <2>4. CASE k # 1 /\ k # n
      BY <2>4, <1>3, <1>4, <1>6, <1>9 DEF del_timer
    <2> QED BY <2>1, <2>2, <2>3, <2>4
  <1>12. /\ head' = IF k = 1 THEN IF k = n THEN NULL ELSE b ELSE head
         /\ tail' = IF k = n THEN IF k = 1 THEN NULL ELSE a ELSE tail
    BY <1>3, <1>4, <1>6, <1>9 DEF del_timer
  <1>13. /\ nx1 \in [Timers -> Timers \cup {NULL}] /\ pv1 \in [Timers -> Timers \cup {NULL}]
         /\ \A x \in Timers \ timers : nx1[x] = NULL /\ pv1[x] = NULL
         /\ \A x \in Timers : nx1[x] = IF k # 1 /\ x = a THEN IF k = n THEN NULL ELSE b
                                                         ELSE nx[x]
         /\ \A x \in Timers : pv1[x] = IF k # n /\ x = b THEN IF k = 1 THEN NULL ELSE a
                                                         ELSE pv[x]
    BY <1>5, <1>9
  <1> HIDE DEF nx1, pv1
  <1>14. /\ next' \in [Timers -> Timers \cup {NULL}] /\ prev' \in [Timers -> Timers \cup {NULL}]
         /\ \A x \in Timers : next'[x] = IF x = t THEN NULL ELSE nx1[x]
         /\ \A x \in Timers : prev'[x] = IF x = t THEN NULL ELSE pv1[x]
    BY <1>11, <1>13, FreedFields
  <1>15. FieldsFreed'
    BY <1>8, <1>13, <1>14 DEF FieldsFreed
  <1>16. ASSUME NEW j \in 1 .. n, j # k
         PROVE  /\ next'[s[j]] = IF j + 1 = k THEN nx[s[k]] ELSE nx[s[j]]
                /\ prev'[s[j]] = IF j = k + 1 THEN pv[s[k]] ELSE pv[s[j]]
    <2>1. s[j] \in Timers /\ s[j] # t /\ (j + 1 = k => k # 1) /\ (j = k + 1 => k # n)
      BY <1>8, <1>10, <1>16
    <2>2. next'[s[j]] = nx1[s[j]] /\ prev'[s[j]] = pv1[s[j]]
      BY <2>1, <1>14
    <2>3. nx1[s[j]] = IF j + 1 = k THEN nx[s[k]] ELSE nx[s[j]]
      BY <2>1, <1>3, <1>6, <1>9, <1>10, <1>13
    <2>4. pv1[s[j]] = IF j = k + 1 THEN pv[s[k]] ELSE pv[s[j]]
      BY <2>1, <1>3, <1>6, <1>9, <1>10, <1>13
    <2> QED BY <2>2, <2>3, <2>4
  <1>17. PICK r : r = Removed(s, n, k)
    OBVIOUS
  <1>18. /\ Chain(r, n - 1, next', prev')
         /\ r \in [1 .. n - 1 -> Timers]
         /\ Nodes(r, n - 1) = timers'
    <2>1. PICK nx2, pv2 : nx2 = next' /\ pv2 = prev'
      OBVIOUS
    <2>2. Bypasses(s, n, k, nx, pv, nx2, pv2)
      BY <2>1, <1>16 DEF Bypasses
    <2>3. /\ Chain(r, n - 1, nx2, pv2)
          /\ r \in [1 .. n - 1 -> Timers]
          /\ Nodes(r, n - 1) = Nodes(s, n) \ {s[k]}
      BY <2>2, <1>5, <1>17, RemoveChain
    <2> QED BY <2>1, <2>3, <1>3, <1>5, <1>8
  <1>19. head' = IF n - 1 = 0 THEN NULL ELSE r[1]
    <2>1. n - 1 # 0 => r[1] = IF k = 1 THEN s[1 + 1] ELSE s[1]
      BY <1>17 DEF Removed
    <2>2. k = 1 /\ k # n => b = s[1 + 1]
      BY DEF b
    <2> QED BY <2>1, <2>2, <1>6, <1>12
  <1>20. n - 1 > 0 => tail' = r[n - 1]
    <2>1. n - 1 > 0 => r[n - 1] = IF n - 1 < k THEN s[n - 1] ELSE s[(n - 1) + 1]
      BY <1>17 DEF Removed
    <2>2. n - 1 < k <=> k = n
      OBVIOUS
    <2>3. k = n => a = s[n - 1]
      BY DEF a
    <2>4. (n - 1) + 1 = n
      OBVIOUS
    <2> QED BY <2>1, <2>2, <2>3, <2>4, <1>6, <1>12
  <1>21. steady => Sorted(r, n - 1, expire)
    <2> SUFFICES ASSUME steady, NEW i \in 1 .. n - 1, NEW j \in 1 .. n - 1, i <= j
                 PROVE  expire[r[i]] <= expire[r[j]]
      BY DEF Sorted
    <2> DEFINE old(x) == IF x < k THEN x ELSE x + 1
    <2>1. /\ r[i] = s[old(i)] /\ old(i) \in 1 .. n
          /\ r[j] = s[old(j)] /\ old(j) \in 1 .. n
          /\ old(i) <= old(j)
      BY <1>17 DEF Removed
    <2> HIDE DEF old
    <2> QED BY <2>1, <1>2 DEF IsList, Sorted
  <1>22. IsList(r, n - 1)'
    BY <1>8, <1>18, <1>19, <1>20, <1>21 DEF IsList
  <1>23. Linked'
    BY <1>18, <1>22, n - 1 \in Nat DEF Linked
  <1>24. head' \in Timers \cup {NULL} /\ tail' \in Timers \cup {NULL}
    <2>1. 1 \in 1 .. n /\ n \in 1 .. n
      OBVIOUS
    <2> QED BY <2>1, <1>6, <1>8, <1>9, <1>12
  <1> QED BY <1>14, <1>15, <1>23, <1>24

\* tick() takes the first m timers, which have expired, and stops at one that has not.
Ticks(s, n, m) ==
  /\ \A j \in 1 .. m : Expired(s[j])
  /\ m < n => ~Expired(s[m + 1])
  /\ timers' = timers \ {s[j] : j \in 1 .. m}

\* What tick() leaves is the rest of the list.
LEMMA TickRest ==
  ASSUME Inv, tick, NEW n \in Nat, NEW s \in [1 .. n -> Timers], IsList(s, n)
  PROVE  /\ \E m \in 0 .. n : Ticks(s, n, m)
         /\ Linked'
         /\ next' \in [Timers -> Timers \cup {NULL}] /\ prev' \in [Timers -> Timers \cup {NULL}]
         /\ FieldsFreed'
         /\ head' \in Timers \cup {NULL}
  <1>1. PICK nx, pv : nx = next /\ pv = prev
    OBVIOUS
  <1>2. /\ nx \in [Timers -> Timers \cup {NULL}] /\ pv \in [Timers -> Timers \cup {NULL}]
        /\ Chain(s, n, nx, pv) /\ timers = Nodes(s, n)
        /\ \A x \in Timers \ timers : nx[x] = NULL /\ pv[x] = NULL
        /\ NULL \notin Timers
    BY <1>1, TimerAssumption DEF Inv, TypeOK, IsList, FieldsFreed
  <1>3. n \in Nat \ {0} /\ head = s[1] /\ tail = s[n]
    BY DEF tick, IsList
  <1>4. PICK m \in 0 .. n : /\ \A j \in 1 .. m : Expired(s[j])
                            /\ m < n => ~Expired(s[m + 1])
                            /\ FirstAlive = Node(s, n, m + 1)
    BY <1>1, <1>2, <1>3, AliveChain
  <1> DEFINE gone == {s[j] : j \in 1 .. m}
  <1>5. Passed(Node(s, n, m + 1)) = gone
    BY <1>1, <1>2, <1>3, PassedChain
  <1> HIDE DEF gone
  <1>6. PICK first : first = Node(s, n, m + 1)
    OBVIOUS
  <1>7. /\ head' = first /\ timers' = timers \ gone
        /\ next' = Freed(nx, gone) /\ prev' = Set(Freed(pv, gone), first, NULL)
        /\ tail' = tail /\ expire' = expire /\ steady' = steady
    BY <1>1, <1>4, <1>5, <1>6 DEF tick
  <1>8. /\ \A i, j \in 1 .. n : s[i] = s[j] <=> i = j
        /\ \A j \in 1 .. n : s[j] \in Timers /\ s[j] \in timers
        /\ \A j \in 1 .. n : s[j] \in gone <=> j <= m
    BY <1>2 DEF Chain, Nodes, gone
  <1>9. /\ m < n => m + 1 \in 1 .. n /\ first = s[m + 1] /\ first \in Timers /\ first # NULL
        /\ m = n => first = NULL
    BY <1>2, <1>6, <1>8 DEF Node
  <1>10. /\ next' \in [Timers -> Timers \cup {NULL}]
         /\ \A x \in Timers : next'[x] = IF x \in gone THEN NULL ELSE nx[x]
    BY <1>2, <1>7, FreedFields
  <1>11. /\ prev' \in [Timers -> Timers \cup {NULL}]
         /\ \A x \in Timers : prev'[x] = IF x \in gone \/ x = first THEN NULL ELSE pv[x]
    <2>1. PICK f : f = Freed(pv, gone)
      OBVIOUS
    <2>2. /\ f \in [Timers -> Timers \cup {NULL}]
          /\ \A x \in Timers : f[x] = IF x \in gone THEN NULL ELSE pv[x]
      BY <2>1, <1>2, FreedFields
    <2>3. prev' = Set(f, first, NULL)
      BY <2>1, <1>7
    <2>4. CASE first = NULL
      BY <2>2, <2>3, <2>4, <1>2 DEF Set
    <2>5. CASE first # NULL
      BY <2>2, <2>3, <2>5, <1>9 DEF Set
    <2> QED BY <2>4, <2>5
  <1>12. FieldsFreed'
    <2>1. \A x \in Timers \ timers' : x \in gone \/ x \in Timers \ timers
      BY <1>7
    <2> QED BY <2>1, <1>2, <1>10, <1>11 DEF FieldsFreed
  <1>13. PICK r : r = Dropped(s, n, m)
    OBVIOUS
  <1>14. /\ Chain(r, n - m, next', prev')
         /\ r \in [1 .. n - m -> Timers]
         /\ Nodes(r, n - m) = timers'
    <2>1. PICK nx2, pv2 : nx2 = next' /\ pv2 = prev'
      OBVIOUS
    <2>2. ASSUME NEW j \in m + 1 .. n
          PROVE  nx2[s[j]] = nx[s[j]] /\ pv2[s[j]] = IF j = m + 1 THEN NULL ELSE pv[s[j]]
      <3>1. j \in 1 .. n /\ ~(j <= m) /\ m < n /\ m + 1 \in 1 .. n
        OBVIOUS
      <3>2. s[j] \in Timers /\ s[j] \notin gone /\ (s[j] = first <=> j = m + 1)
        BY <3>1, <1>8, <1>9
      <3> QED BY <2>1, <3>2, <1>10, <1>11
    <2>3. /\ Chain(r, n - m, nx2, pv2)
          /\ r \in [1 .. n - m -> Timers]
          /\ Nodes(r, n - m) = Nodes(s, n) \ {s[j] : j \in 1 .. m}
      <3>1. Shortens(s, n, m, nx, pv, nx2, pv2)
        BY <2>2 DEF Shortens
      <3> QED BY <3>1, <1>2, <1>13, DropChain
    <2> QED BY <2>1, <2>3, <1>2, <1>7 DEF gone
  <1>15. head' = IF n - m = 0 THEN NULL ELSE r[1]
    <2>1. n - m # 0 => r[1] = s[1 + m] /\ m < n
      BY <1>13 DEF Dropped
    <2>2. 1 + m = m + 1 /\ (n - m = 0 <=> m = n)
      OBVIOUS
    <2> QED BY <2>1, <2>2, <1>7, <1>9
  <1>16. n - m > 0 => tail' = r[n - m]
    <2>1. n - m > 0 => r[n - m] = s[(n - m) + m]
      BY <1>13 DEF Dropped
    <2>2. (n - m) + m = n
      OBVIOUS
    <2> QED BY <2>1, <2>2, <1>3, <1>7
  <1>17. steady => Sorted(r, n - m, expire)
    <2> SUFFICES ASSUME steady, NEW i \in 1 .. n - m, NEW j \in 1 .. n - m, i <= j
                 PROVE  expire[r[i]] <= expire[r[j]]
      BY DEF Sorted
    <2>1. /\ r[i] = s[i + m] /\ i + m \in 1 .. n
          /\ r[j] = s[j + m] /\ j + m \in 1 .. n
          /\ i + m <= j + m
      BY <1>13 DEF Dropped
    <2> QED BY <2>1 DEF IsList, Sorted
  <1>18. IsList(r, n - m)'
    BY <1>7, <1>14, <1>15, <1>16, <1>17 DEF IsList
  <1>19. Linked'
    BY <1>14, <1>18, n - m \in Nat DEF Linked
  <1>20. Ticks(s, n, m)
    BY <1>4, <1>7 DEF Ticks, gone
  <1>21. head' \in Timers \cup {NULL}
    BY <1>7, <1>9
  <1> QED BY <1>10, <1>11, <1>12, <1>19, <1>20, <1>21

\* The invariant holds to begin with.
LEMMA InvInit == Init => Inv
  <1> SUFFICES ASSUME Init PROVE Inv
    OBVIOUS
  <1>1. TypeOK
    BY TimerAssumption DEF Init, TypeOK
  <1>2. Linked
    <2>1. \A i \in 1 .. 0 : FALSE
      OBVIOUS
    <2>2. PICK s : s = [i \in 1 .. 0 |-> NULL]
      OBVIOUS
    <2>3. 0 \in Nat /\ s \in [1 .. 0 -> Timers]
      BY <2>1, <2>2
    <2>4. timers = Nodes(s, 0) /\ head = NULL
      BY <2>1 DEF Init, Nodes
    <2>5. Chain(s, 0, next, prev) /\ Sorted(s, 0, expire)
      BY <2>1 DEF Chain, Sorted
    <2>6. IsList(s, 0)
      BY <2>4, <2>5 DEF IsList
    <2> QED BY <2>3, <2>6 DEF Linked
  <1>3. FieldsFreed /\ NoneLater
    BY DEF Init, FieldsFreed, NoneLater
  <1> QED BY <1>1, <1>2, <1>3 DEF Inv

\* Every step keeps it.
LEMMA InvNext == Inv /\ [Next]_tvars => Inv'
  <1> SUFFICES ASSUME Inv, [Next]_tvars PROVE Inv'
    OBVIOUS
  <1>1. TypeOK
    BY DEF Inv
  <1>2. CASE Clock
    <2> DEFINE On == now < MaxNow /\ now' = now + 1 /\ UNCHANGED steady
               Back == now > 0 /\ now' = now - 1 /\ steady' = FALSE
    <2>0. (On \/ Back) /\ UNCHANGED <<timers, expire, prev, next, head, tail>>
      BY <1>2 DEF Clock
    <2>1. TypeOK'
      <3>1. now' \in 0 .. MaxNow
        BY <2>0, <1>1, TimerAssumption DEF TypeOK
      <3>2. steady' \in BOOLEAN
        BY <2>0, <1>1 DEF TypeOK
      <3> HIDE DEF On, Back
      <3> QED BY <3>1, <3>2, <2>0, <1>1 DEF TypeOK
    <2>2. NoneLater'
      <3>1. CASE On
        <4>1. \A t \in timers : expire[t] \in Int
          BY <1>1, TimerAssumption DEF TypeOK
        <4>2. steady => \A t \in timers : expire[t] <= now' + LIFETIME
          BY <4>1, <3>1, <1>1, TimerAssumption DEF Inv, NoneLater, TypeOK
        <4> QED BY <4>2, <2>0, <3>1 DEF NoneLater
      <3>2. CASE Back
        BY <3>2 DEF NoneLater
      <3> HIDE DEF On, Back
      <3> QED BY <2>0, <3>1, <3>2
    <2>3. FieldsFreed'
      BY <1>2 DEF Inv, Clock, FieldsFreed
    <2>4. Linked'
      <3>1. PICK n \in Nat : \E s \in [1 .. n -> Timers] : IsList(s, n)
        BY DEF Inv, Linked
      <3>2. PICK s \in [1 .. n -> Timers] : IsList(s, n)
        BY <3>1
      <3>3. steady' => steady
        BY <1>2 DEF Clock
      <3>4. IsList(s, n)'
        BY <1>2, <3>2, <3>3 DEF Clock, IsList
      <3> QED BY <3>4 DEF Linked
    <2> QED BY <2>1, <2>2, <2>3, <2>4 DEF Inv
  <1>3. ASSUME NEW t \in Timers, add_timer(t)
        PROVE  Inv'
    <2>1. /\ expire' = [expire EXCEPT ![t] = NewExpire(t)] /\ timers' = timers \cup {t}
          /\ UNCHANGED <<now, steady>>
      BY <1>3 DEF add_timer
    <2>2. NoneLater'
      BY <2>1, NoneLaterKept DEF Inv
    <2>3. /\ expire' \in [Timers -> 0 .. MaxNow + LIFETIME] /\ timers' \subseteq Timers
          /\ now' \in 0 .. MaxNow /\ steady' \in BOOLEAN
      BY <1>1, <2>1, NewExpirations DEF TypeOK
    <2>4. /\ Linked'
          /\ next' \in [Timers -> Timers \cup {NULL}] /\ prev' \in [Timers -> Timers \cup {NULL}]
          /\ \A x \in Timers \ timers' : next'[x] = next[x] /\ prev'[x] = prev[x]
          /\ head' \in Timers \cup {NULL} /\ tail' \in Timers \cup {NULL}
      <3> DEFINE e == [expire EXCEPT ![t] = NewExpire(t)]
      <3>1. CASE head = NULL
        <4>1. UNCHANGED <<prev, next>> /\ head' = t /\ tail' = t
          BY <1>3, <3>1 DEF add_timer
        <4> QED BY <4>1, <1>1, <1>3, <3>1, AddToEmpty DEF TypeOK
      <3>2. CASE head # NULL /\ e[t] < e[head]
        <4>1. /\ next' = [next EXCEPT ![t] = head] /\ prev' = [prev EXCEPT ![head] = t]
              /\ head' = t /\ tail' = tail /\ head \in Timers
          <5>1. e[t] \in Int /\ e[head] \in Int /\ head \in Timers
            BY <1>1, <3>2, NewExpirations, TimerAssumption DEF TypeOK
          <5>2. ~(e[t] >= e[head])
            BY <5>1, <3>2
          <5> QED BY <5>1, <5>2, <1>3, <3>2 DEF add_timer
        <4>2. head \in timers
          <5>1. PICK n \in Nat : \E s \in [1 .. n -> Timers] : IsList(s, n)
            BY DEF Inv, Linked
          <5>2. PICK s \in [1 .. n -> Timers] : IsList(s, n)
            BY <5>1
          <5> QED BY <5>2, <3>2 DEF IsList, Nodes
        <4>3. Linked'
          BY <1>3, <3>2, AddFirst
        <4> QED BY <4>1, <4>2, <4>3, <1>1, <2>1 DEF TypeOK
      <3>3. CASE head # NULL /\ e[t] >= e[head]
        <4>1. head' = head
          <5>1. e[t] \in Int /\ e[head] \in Int
            BY <1>1, <3>3, NewExpirations, TimerAssumption DEF TypeOK
          <5>2. ~(e[t] < e[head])
            BY <5>1, <3>3
          <5> QED BY <5>2, <1>3, <3>3 DEF add_timer
        <4> QED BY <4>1, <1>1, <1>3, <3>3, AddBehind DEF TypeOK
      <3> QED BY <3>1, <3>2, <3>3, <1>3 DEF add_timer
    <2>5. FieldsFreed'
      BY <2>1, <2>4 DEF Inv, FieldsFreed
    <2> QED BY <2>2, <2>3, <2>4, <2>5 DEF Inv, TypeOK
  <1>4. ASSUME NEW t \in Timers, adjust_timer(t)
        PROVE  Inv'
    <2>1. /\ expire' = [expire EXCEPT ![t] = NewExpire(t)] /\ timers' = timers
          /\ UNCHANGED <<now, steady>>
      BY <1>4 DEF adjust_timer
    <2>2. NoneLater'
      BY <2>1, NoneLaterKept DEF Inv
    <2>3. /\ expire' \in [Timers -> 0 .. MaxNow + LIFETIME] /\ timers' \subseteq Timers
          /\ now' \in 0 .. MaxNow /\ steady' \in BOOLEAN
      BY <1>1, <2>1, NewExpirations DEF TypeOK
    <2>4. /\ Linked'
          /\ next' \in [Timers -> Timers \cup {NULL}] /\ prev' \in [Timers -> Timers \cup {NULL}]
          /\ \A x \in Timers \ timers' : next'[x] = next[x] /\ prev'[x] = prev[x]
          /\ head' \in Timers /\ tail' \in Timers
      BY <1>4, AdjustTimer
    <2>5. FieldsFreed'
      BY <2>1, <2>4 DEF Inv, FieldsFreed
    <2> QED BY <2>2, <2>3, <2>4, <2>5 DEF Inv, TypeOK
  <1>5. ASSUME NEW t \in Timers, del_timer(t)
        PROVE  Inv'
    <2>1. timers' = timers \ {t} /\ UNCHANGED <<now, expire, steady>>
      BY <1>5 DEF del_timer
    <2>2. NoneLater'
      BY <2>1 DEF Inv, NoneLater
    <2>3. /\ Linked'
          /\ next' \in [Timers -> Timers \cup {NULL}] /\ prev' \in [Timers -> Timers \cup {NULL}]
          /\ FieldsFreed'
          /\ head' \in Timers \cup {NULL} /\ tail' \in Timers \cup {NULL}
      BY <1>5, DelTimer
    <2> QED BY <2>1, <2>2, <2>3, <1>1 DEF Inv, TypeOK
  <1>6. CASE tick
    <2>1. timers' \subseteq timers /\ UNCHANGED <<now, expire, tail, steady>>
      BY <1>6 DEF tick
    <2>2. NoneLater'
      BY <2>1 DEF Inv, NoneLater
    <2>3. /\ Linked'
          /\ next' \in [Timers -> Timers \cup {NULL}] /\ prev' \in [Timers -> Timers \cup {NULL}]
          /\ FieldsFreed'
          /\ head' \in Timers \cup {NULL}
      <3>1. PICK n \in Nat : \E s \in [1 .. n -> Timers] : IsList(s, n)
        BY DEF Inv, Linked
      <3>2. PICK s \in [1 .. n -> Timers] : IsList(s, n)
        BY <3>1
      <3> QED BY <1>6, <3>2, TickRest
    <2> QED BY <2>1, <2>2, <2>3, <1>1 DEF Inv, TypeOK
  <1>7. CASE UNCHANGED tvars
    <2>1. TypeOK' /\ FieldsFreed' /\ NoneLater'
      BY <1>7 DEF Inv, tvars, TypeOK, FieldsFreed, NoneLater
    <2>2. Linked'
      BY <1>7 DEF Inv, tvars, Linked, IsList
    <2> QED BY <2>1, <2>2 DEF Inv
  <1> QED BY <1>2, <1>3, <1>4, <1>5, <1>6, <1>7 DEF Next

\* The invariant is one of the specification.
THEOREM InvHolds == Spec => []Inv
  BY InvInit, InvNext, PTL DEF Spec

\* The fields hold pointers: whatever operations main() makes on the list.
THEOREM FieldsArePointers == Spec => []TypeOK
  <1>1. Inv => TypeOK
    BY DEF Inv
  <1> QED BY <1>1, InvHolds, PTL

-----------------------------------------------------------------------------
(* What follows from it: the list is well linked.                          *)

Lists(l) ==
  l = [n \in 0 .. Cardinality(Timers) |->
         IF n = 0 THEN {head} \ {NULL}
         ELSE l[n - 1] \cup ({next[t] : t \in l[n - 1]} \ {NULL})]

\* Where some function recurs as the one of Listed does, that one does so too.
LEMMA ListedDef ==
  ASSUME NEW g, Lists(g)
  PROVE  \E l : Listed = l[Cardinality(Timers)] /\ Lists(l)
  <1> DEFINE l == CHOOSE f : Lists(f)
  <1>1. Listed = l[Cardinality(Timers)]
    BY DEF Listed, Lists
  <1>2. Lists(l)
    OBVIOUS
  <1> HIDE DEF l
  <1> QED BY <1>1, <1>2

\* A chain has no more nodes than there are timers.
LEMMA ChainIsShort ==
  ASSUME NEW n \in Nat, NEW s \in [1 .. n -> Timers], NEW nx, NEW pv, Chain(s, n, nx, pv)
  PROVE  Cardinality(Timers) \in Nat /\ n <= Cardinality(Timers)
  <1>1. IsFiniteSet(Timers) /\ Cardinality(Timers) \in Nat
    BY TimerAssumption, FS_CardinalityType
  <1>2. IsFiniteSet(1 .. n) /\ Cardinality(1 .. n) = n
    BY FS_Interval
  <1>3. ~(Cardinality(Timers) < Cardinality(1 .. n))
    <2> SUFFICES ASSUME Cardinality(Timers) < Cardinality(1 .. n) PROVE FALSE
      OBVIOUS
    <2>1. PICK i, j \in 1 .. n : i # j /\ s[i] = s[j]
      BY <1>1, <1>2, FS_PigeonHole
    <2> QED BY <2>1 DEF Chain
  <1> QED BY <1>1, <1>2, <1>3

\* next leads from head to each node of the list and to nothing else.
LEMMA ListedChain ==
  ASSUME NEW n \in Nat, NEW s \in [1 .. n -> Timers], IsList(s, n)
  PROVE  Listed = timers
  <1>1. PICK C : C = Cardinality(Timers)
    OBVIOUS
  <1>2. C \in Nat /\ n <= C
    BY <1>1, ChainIsShort DEF IsList
  <1> DEFINE upto(i) == IF i < n THEN 1 .. i + 1 ELSE 1 .. n
             first(i) == {s[j] : j \in upto(i)}
             g == [i \in 0 .. C |-> first(i)]
  <1>3. /\ \A j \in 1 .. n : s[j] # NULL
        /\ \A j \in 1 .. n : next[s[j]] = IF j = n THEN NULL ELSE s[j + 1]
    BY TimerAssumption DEF IsList, Chain
  <1>4. first(0) = {head} \ {NULL}
    <2>1. CASE n = 0
      <3>1. first(0) = {}
        BY <2>1
      <3> QED BY <2>1, <3>1 DEF IsList
    <2>2. CASE n # 0
      <3>1. upto(0) = {1} /\ 1 \in 1 .. n
        BY <2>2
      <3>2. first(0) = {s[1]}
        <4> HIDE DEF upto
        <4> QED BY <3>1
      <3> HIDE DEF first
      <3> QED BY <2>2, <3>1, <3>2, <1>3 DEF IsList
    <2> QED BY <2>1, <2>2
  <1>5. ASSUME NEW i \in 1 .. C
        PROVE  first(i) = first(i - 1) \cup ({next[t] : t \in first(i - 1)} \ {NULL})
    <2>1. \A j : j \in upto(i) => j \in upto(i - 1) \/ (j - 1 \in upto(i - 1) /\ (j - 1) + 1 = j /\ j - 1 # n)
      OBVIOUS
    <2>2. \A j : j \in upto(i - 1) => j \in upto(i) /\ j \in 1 .. n /\ (j = n \/ j + 1 \in upto(i))
      OBVIOUS
    <2> DEFINE nexts == {next[t] : t \in first(i - 1)} \ {NULL}
    <2>3. ASSUME NEW j \in upto(i)
          PROVE  s[j] \in first(i - 1) \cup nexts
      <3>1. CASE j \in upto(i - 1)
        BY <3>1
      <3>2. CASE j - 1 \in upto(i - 1) /\ (j - 1) + 1 = j /\ j - 1 # n
        <4>1. j - 1 \in 1 .. n /\ j \in 1 .. n
          BY <3>2
        <4>2. next[s[j - 1]] = s[j] /\ s[j] # NULL
          BY <3>2, <4>1, <1>3
        <4>3. s[j - 1] \in first(i - 1)
          BY <3>2
        <4> HIDE DEF first
        <4> QED BY <4>2, <4>3
      <3> QED BY <3>1, <3>2, <2>1
    <2>4. ASSUME NEW j \in upto(i - 1)
          PROVE  s[j] \in first(i) /\ next[s[j]] \in first(i) \cup {NULL}
      <3> HIDE DEF upto
      <3> QED BY <2>2, <1>3
    <2>5. first(i) \subseteq first(i - 1) \cup nexts
      <3> HIDE DEF upto, nexts
      <3>1. \A x \in first(i) : \E j \in upto(i) : x = s[j]
        OBVIOUS
      <3> HIDE DEF first
      <3> QED BY <3>1, <2>3
    <2>6. first(i - 1) \cup nexts \subseteq first(i)
      <3> HIDE DEF upto
      <3>1. \A x \in first(i - 1) : \E j \in upto(i - 1) : x = s[j]
        OBVIOUS
      <3> HIDE DEF first
      <3>2. \A x \in nexts : x # NULL /\ \E j \in upto(i - 1) : x = next[s[j]]
        BY <3>1
      <3> HIDE DEF nexts
      <3> QED BY <3>1, <3>2, <2>4
    <2> HIDE DEF first, nexts
    <2>7. first(i) = first(i - 1) \cup nexts
      BY <2>5, <2>6
    <2> QED BY <2>7 DEF nexts
  <1>6. Lists(g)
    <2> SUFFICES ASSUME NEW i \in 0 .. C
                 PROVE  g[i] = IF i = 0 THEN {head} \ {NULL}
                               ELSE g[i - 1] \cup ({next[t] : t \in g[i - 1]} \ {NULL})
      <3> HIDE DEF first
      <3>1. g = [i \in 0 .. C |-> g[i]]
        OBVIOUS
      <3> HIDE DEF g
      <3> QED BY <3>1, <1>1 DEF Lists
    <2> HIDE DEF first
    <2>1. CASE i = 0
      BY <2>1, <1>4
    <2>2. CASE i # 0
      <3>1. i - 1 \in 0 .. C /\ i \in 1 .. C
        BY <2>2, <1>2
      <3>2. g[i] = first(i) /\ g[i - 1] = first(i - 1)
        BY <3>1
      <3> HIDE DEF g
      <3> QED BY <2>2, <3>1, <3>2, <1>5
    <2> QED BY <2>1, <2>2
  <1>7. PICK l : Listed = l[Cardinality(Timers)] /\ Lists(l)
    <2> HIDE DEF g
    <2> QED BY <1>6, ListedDef
  <1>8. l[C] = first(C)
    <2> DEFINE D == {i \in 0 .. C : l[i] # first(i)}
    <2>1. D = {}
      <3> SUFFICES ASSUME D # {} PROVE FALSE
        OBVIOUS
      <3>1. D \in SUBSET Nat
        BY <1>2
      <3>2. PICK i \in D : \A k \in D : i <= k
        <4> HIDE DEF D
        <4> QED BY <3>1, LeastNat
      <3>3. i \in 0 .. C /\ l[i] # first(i)
        <4> HIDE DEF first
        <4> QED OBVIOUS
      <3>4. l[i] = IF i = 0 THEN {head} \ {NULL}
                   ELSE l[i - 1] \cup ({next[t] : t \in l[i - 1]} \ {NULL})
        <4> HIDE DEF first, g, D
        <4> QED BY <3>3, <1>1, <1>7 DEF Lists
      <3>5. i # 0
        <4> HIDE DEF first, g, D
        <4> QED BY <3>3, <3>4, <1>4
      <3>6. i - 1 \in 0 .. C /\ i \in 1 .. C /\ ~(i <= i - 1)
        BY <3>3, <3>5, <1>2
      <3>7. l[i - 1] = first(i - 1)
        <4> HIDE DEF first, g
        <4> QED BY <3>2, <3>6
      <3> HIDE DEF first, g, D
      <3> QED BY <3>3, <3>4, <3>5, <3>6, <3>7, <1>5
    <2> HIDE DEF first, g
    <2> QED BY <2>1, <1>2, C \in 0 .. C
  <1>9. upto(C) = 1 .. n
    BY <1>2
  <1>10. first(C) = timers
    <2> HIDE DEF upto
    <2> QED BY <1>9 DEF IsList, Nodes
  <1> HIDE DEF first, g
  <1> QED BY <1>1, <1>7, <1>8, <1>10

\* From head, next leads to every allocated timer and to no freed one, prev
\* undoes next, tail is the end, and the timers are sorted by expiration while
\* time goes forward: whatever operations main() makes on however many timers
\* (Timer_Linklist.h:48-174).
THEOREM ListWellLinked == Spec => []WellLinked
  <1>1. ASSUME Inv PROVE WellLinked
    <2>1. PICK n \in Nat : \E s \in [1 .. n -> Timers] : IsList(s, n)
      BY <1>1 DEF Inv, Linked
    <2>2. PICK s \in [1 .. n -> Timers] : IsList(s, n)
      BY <2>1
    <2>3. Listed = timers
      BY <2>2, ListedChain
    <2>4. ASSUME NEW t \in timers
          PROVE  /\ next[t] # NULL => prev[next[t]] = t
                 /\ prev[t] = NULL <=> t = head
                 /\ next[t] = NULL <=> t = tail
                 /\ steady /\ next[t] # NULL => expire[t] <= expire[next[t]]
      <3>1. PICK k \in 1 .. n : t = s[k]
        BY <2>2 DEF IsList, Nodes
      <3>2. /\ next[s[k]] = IF k = n THEN NULL ELSE s[k + 1]
            /\ prev[s[k]] = IF k = 1 THEN NULL ELSE s[k - 1]
            /\ s[k] = head <=> k = 1
            /\ s[k] = tail <=> k = n
            /\ \A j \in 1 .. n : s[j] \in Timers /\ s[j] # NULL
        BY <1>1, <2>2, Neighbours, TimerAssumption
      <3>3. k # n => k + 1 \in 1 .. n /\ (k + 1) - 1 = k /\ k + 1 # 1 /\ k <= k + 1
        OBVIOUS
      <3>4. k # n => prev[s[k + 1]] = s[k]
        BY <3>3, <2>2 DEF IsList, Chain
      <3>5. steady /\ k # n => expire[s[k]] <= expire[s[k + 1]]
        BY <3>3, <2>2 DEF IsList, Sorted
      <3>6. k # 1 => k - 1 \in 1 .. n
        OBVIOUS
      <3> QED BY <3>1, <3>2, <3>3, <3>4, <3>5, <3>6
    <2> QED BY <2>3, <2>4 DEF WellLinked
  <1> QED BY <1>1, InvHolds, PTL

-----------------------------------------------------------------------------
(* And it implements the set of timers that Reactor works with.            *)

\* tick() takes only timers that have expired, and all of them while sorted.
LEMMA TickIsTick ==
  ASSUME Inv, tick
  PROVE  Abstract!SetTick
  <1>1. PICK n \in Nat : \E s \in [1 .. n -> Timers] : IsList(s, n)
    BY DEF Inv, Linked
  <1>2. PICK s \in [1 .. n -> Timers] : IsList(s, n)
    BY <1>1
  <1>3. PICK m \in 0 .. n : Ticks(s, n, m)
    BY <1>2, TickRest
  <1> DEFINE taken == {s[j] : j \in 1 .. m}
  <1>4. \A j \in 1 .. n : s[j] \in timers /\ expire[s[j]] \in Int
    BY <1>2, TimerAssumption DEF IsList, Nodes, Inv, TypeOK
  <1>5. taken \in SUBSET {t \in timers : expire[t] <= now}
    BY <1>3, <1>4 DEF Ticks, Expired
  <1>6. ASSUME steady, NEW t \in timers, expire[t] <= now
        PROVE  t \in taken
    <2>1. PICK k \in 1 .. n : t = s[k]
      BY <1>2 DEF IsList, Nodes
    <2>2. CASE k <= m
      BY <2>1, <2>2
    <2>3. CASE k > m
      <3>1. m + 1 \in 1 .. n /\ m < n /\ m + 1 <= k
        BY <2>3
      <3>2. expire[s[m + 1]] <= expire[s[k]]
        BY <3>1, <1>2, <1>6 DEF IsList, Sorted
      <3>3. ~(expire[s[m + 1]] <= now)
        BY <3>1, <1>3 DEF Ticks, Expired
      <3>4. now \in Int
        BY TimerAssumption DEF Inv, TypeOK
      <3> QED BY <3>1, <3>2, <3>3, <3>4, <2>1, <1>4, <1>6
    <2> QED BY <2>2, <2>3
  <1>7. steady => taken = {t \in timers : expire[t] <= now}
    <2> HIDE DEF taken
    <2> QED BY <1>5, <1>6
  <1>8. timers' = timers \ taken /\ UNCHANGED <<now, expire, steady>>
    BY <1>3 DEF Ticks, tick
  <1> HIDE DEF taken
  <1> QED BY <1>5, <1>7, <1>8 DEF Abstract!SetTick

\* Whatever operations main() makes on the list, it is the set of timers that
\* Reactor works with: tick() takes no timer before its time and, while time goes
\* forward, every timer whose time has come (Timer_Linklist.h:132-141).
THEOREM ListIsSet == Spec => ImplementsTimerSet
  <1>1. Init => Abstract!SetInit
    BY DEF Init, Abstract!SetInit
  <1>2. ASSUME Inv, [Next]_tvars
        PROVE  [Abstract!SetNext]_<<now, timers, expire, steady>>
    <2>1. CASE Clock
      <3>1. Abstract!SetClock
        BY <2>1 DEF Clock, Abstract!SetClock
      <3> QED BY <3>1 DEF Abstract!SetNext
    <2>2. ASSUME NEW t \in Timers, add_timer(t) PROVE Abstract!SetNext
      <3>1. Abstract!SetAdd(t)
        BY <2>2 DEF add_timer, NewExpire, Abstract!SetAdd
      <3> QED BY <3>1 DEF Abstract!SetNext
    <2>3. ASSUME NEW t \in Timers, adjust_timer(t) PROVE Abstract!SetNext
      <3>1. Abstract!SetAdjust(t)
        BY <2>3 DEF adjust_timer, NewExpire, Abstract!SetAdjust
      <3> QED BY <3>1 DEF Abstract!SetNext
    <2>4. ASSUME NEW t \in Timers, del_timer(t) PROVE Abstract!SetNext
      <3>1. Abstract!SetDel(t)
        BY <2>4 DEF del_timer, Abstract!SetDel
      <3> QED BY <3>1 DEF Abstract!SetNext
    <2>5. CASE tick
      <3>1. Abstract!SetTick
        BY <1>2, <2>5, TickIsTick
      <3> QED BY <3>1 DEF Abstract!SetNext
    <2>6. CASE UNCHANGED tvars
      BY <2>6 DEF tvars
    <2> QED BY <1>2, <2>1, <2>2, <2>3, <2>4, <2>5, <2>6 DEF Next
  <1> QED BY <1>1, <1>2, InvHolds, PTL DEF Spec, ImplementsTimerSet, Abstract!SetSpec, Abstract!svars

=============================================================================
