--------------------------- MODULE AccountsProofs ---------------------------
(***************************************************************************)
(* Theorems of Accounts, for any number of workers, names and passwords.   *)
(*                                                                         *)
(* The worker that holds the mutex is the only one that writes the table   *)
(* and inserts into the map, so Pending can say what its query has done    *)
(* and what the map still lacks.                                           *)
(***************************************************************************)
EXTENDS Accounts, TLAPS

Name(w) == request[w].name
Password(w) == request[w].password

\* What mysql_query has done for a worker that has yet to insert or to answer.
Pending ==
  \A w \in Workers :
    /\ pc[w] \in {"insert", "turn", "unlock"} /\ res[w] =>
         /\ table[Name(w)] = Password(w)
         /\ \A p \in Passwords : <<Name(w), p>> \notin acked
    /\ pc[w] = "insert" /\ res[w] /\ Name(w) \notin refused => users[Name(w)] = None
    /\ pc[w] = "insert" /\ ~res[w] => table[Name(w)] # None \/ Name(w) \in refused

\* There are no requests before the map is loaded.
Quiet == main # "serve" => \A w \in Workers : pc[w] \in Pages

Inv == TypeOK /\ Quiet /\ Pending /\ OneAccount /\ MapFollowsTable

\* No label is a page.
LEMMA LabelsArePagesNot == Labels \cap Pages = {}
  BY DEF Labels, Pages

\* The program starts down, with nobody in the map and nobody acknowledged.
LEMMA InitInv == Init => Inv
<1> SUFFICES ASSUME Init PROVE Inv OBVIOUS
<1>1. TypeOK BY AccountsAssumption DEF Init, TypeOK, Labels, Pages, Section
<1>2. Quiet /\ Pending BY DEF Init, Quiet, Pending, Pages
<1>3. OneAccount /\ MapFollowsTable BY DEF Init, OneAccount, MapFollowsTable
<1> QED BY <1>1, <1>2, <1>3 DEF Inv

\* The start, the load and the end of the process keep the invariant.
LEMMA MainStep == ASSUME Inv, Start \/ initmysql_result \/ Exit PROVE Inv'
<1> USE DEF Inv
<1>1. CASE Start
  <2>1. TypeOK'
    BY <1>1, AccountsAssumption DEF Start, TypeOK, Section, dbVars, mapVars, workVars
  <2>2. Quiet' /\ Pending'
    BY <1>1 DEF Start, Quiet, Pending, Name, Password, dbVars, mapVars, workVars
  <2>3. OneAccount' /\ MapFollowsTable'
    BY <1>1 DEF Start, OneAccount, MapFollowsTable, dbVars
  <2> QED BY <2>1, <2>2, <2>3
<1>2. CASE initmysql_result
  <2>1. TypeOK'
    BY <1>2, AccountsAssumption DEF initmysql_result, TypeOK, Section, dbVars, workVars
  <2>2. Quiet' /\ Pending'
    BY <1>2 DEF initmysql_result, Quiet, Pending, Pages, workVars
  <2>3. OneAccount' /\ MapFollowsTable'
    BY <1>2 DEF initmysql_result, OneAccount, MapFollowsTable, dbVars
  <2> QED BY <2>1, <2>2, <2>3
<1>3. CASE Exit
  <2>1. TypeOK'
    BY <1>3, AccountsAssumption DEF Exit, TypeOK, Section, Pages, Labels, dbVars
  <2>2. Quiet' /\ Pending'
    BY <1>3 DEF Exit, Quiet, Pending, Pages
  <2>3. OneAccount' /\ MapFollowsTable'
    BY <1>3 DEF Exit, OneAccount, MapFollowsTable, dbVars
  <2> QED BY <2>1, <2>2, <2>3
<1> QED BY <1>1, <1>2, <1>3

\* A new request, and the steps of do_request that write neither the table nor
\* the map, keep the invariant.
LEMMA QuietStep ==
  ASSUME Inv, NEW w \in Workers,
         (\E r \in Requests : Request(w, r)) \/ FindFree(w) \/ Lock(w) \/ FindName(w)
  PROVE  Inv'
<1> USE DEF Inv
<1>1. /\ UNCHANGED <<dbVars, mapVars, runVars, res>>
      /\ \A v \in Workers \ {w} : pc'[v] = pc[v] /\ request'[v] = request[v]
      /\ main = "serve"
  BY DEF Request, FindFree, Lock, FindName, At, Goto, Answer, TypeOK, Section
<1>2. pc'[w] \in Pages \cup {"find", "lock", "query", "compare"}
  BY DEF Request, FindFree, Lock, FindName, Goto, Answer, TypeOK, Pages
<1>3. TypeOK'
  <2>1. CASE \E r \in Requests : Request(w, r)
    BY <2>1, AccountsAssumption
    DEF Request, TypeOK, Section, Labels, Pages, dbVars, mapVars, runVars
  <2>2. CASE FindFree(w)
    BY <2>2, AccountsAssumption
    DEF FindFree, At, Goto, Answer, TypeOK, Section, Labels, Pages, dbVars, mapVars, runVars
  <2>3. CASE Lock(w)
    BY <2>3, AccountsAssumption
    DEF Lock, At, Goto, TypeOK, Section, Labels, Pages, dbVars, mapVars, runVars
  <2>4. CASE FindName(w)
    BY <2>4, AccountsAssumption
    DEF FindName, At, Goto, Answer, TypeOK, Section, Labels, Pages, dbVars, mapVars, runVars
  <2> QED BY <2>1, <2>2, <2>3, <2>4
<1>4. Quiet' BY <1>1 DEF Quiet, runVars
<1>5. Pending'
  <2>1. pc'[w] \notin {"insert", "turn", "unlock"} BY <1>2 DEF Pages
  <2> QED BY <1>1, <2>1 DEF Pending, Name, Password, dbVars, mapVars
<1>6. OneAccount' BY <1>1 DEF OneAccount, dbVars
<1>7. MapFollowsTable'
  <2>1. pc[w] # "insert" \/ lock # w
    BY DEF Request, FindFree, Lock, FindName, At, Pages
  <2>2. pc[w] # "insert"
    BY <2>1 DEF TypeOK, Section
  <2>3. \A v \in Workers : pc[v] = "insert" /\ lock = v => lock' = v
    BY <2>2, AccountsAssumption DEF Request, FindFree, Lock, FindName
  <2> QED
    BY <1>1, <2>2, <2>3 DEF MapFollowsTable, dbVars, mapVars, runVars
<1> QED BY <1>3, <1>4, <1>5, <1>6, <1>7

\* A worker between lock.lock() and lock.unlock() is there alone.
LEMMA Alone ==
  ASSUME TypeOK, NEW w \in Workers, Section(w)
  PROVE  lock = w /\ \A v \in Workers \ {w} : ~Section(v)
BY DEF TypeOK

\* An INSERT that succeeds gives a name nobody has, one that fails leaves a name
\* that somebody has or that memory may be wrong about.
LEMMA QueryStep == ASSUME Inv, NEW w \in Workers, Query(w) PROVE Inv'
<1> USE DEF Inv
<1>1. request[w] \in Requests /\ Name(w) \in Names /\ Password(w) \in Passwords
  BY DEF Query, At, TypeOK, Labels, Requests, Name, Password
<1>2. lock = w /\ \A v \in Workers \ {w} : ~Section(v)
  BY Alone DEF Query, At, Section
<1>3. \A v \in Workers : pc[v] \notin {"insert", "turn", "unlock"}
  BY <1>2 DEF Query, At, Section
<1>4. /\ pc' = [pc EXCEPT ![w] = "insert"] /\ main = "serve"
      /\ UNCHANGED <<users, acked, main, runs, request, lock>>
  BY DEF Query, At, Goto, runVars
<1>5. \A n \in Names \ refused : users[n] = table[n]
  BY <1>3, <1>4 DEF MapFollowsTable
<1>6. \/ /\ table[Name(w)] = None /\ table' = [table EXCEPT ![Name(w)] = Password(w)]
         /\ res' = [res EXCEPT ![w] = TRUE] /\ refused' = refused
      \/ /\ table' = table /\ res' = [res EXCEPT ![w] = FALSE]
         /\ refused \subseteq refused' /\ refused' \subseteq Names
         /\ table[Name(w)] # None \/ Name(w) \in refused'
  BY <1>1 DEF Query, Name, Password, TypeOK
<1>7. TypeOK'
  <2>1. table' \in [Names -> Passwords \cup {None}] /\ res' \in [Workers -> BOOLEAN]
        /\ refused' \subseteq Names
    BY <1>1, <1>6 DEF TypeOK
  <2>2. \A v \in Workers : Section(v)' <=> lock' = v
    BY <1>2, <1>4 DEF TypeOK, Section
  <2>3. pc' \in [Workers -> Labels \cup Pages]
    BY <1>4 DEF TypeOK, Labels
  <2>4. \A v \in Workers : pc'[v] \in Labels => request'[v] \in Requests
    BY <1>1, <1>4 DEF TypeOK
  <2> QED BY <1>4, <2>1, <2>2, <2>3, <2>4 DEF TypeOK
<1>8. Quiet' BY <1>4 DEF Quiet
<1>9. \A p \in Passwords : table[Name(w)] = None => <<Name(w), p>> \notin acked
  BY AccountsAssumption DEF OneAccount
<1>10. Pending'
  <2>1. \A v \in Workers \ {w} : pc'[v] \notin {"insert", "turn", "unlock"}
    BY <1>3, <1>4 DEF TypeOK
  <2>2. pc'[w] = "insert" /\ Name(w)' = Name(w) /\ Password(w)' = Password(w)
    BY <1>4 DEF TypeOK, Name, Password
  <2>3. res'[w] =>
          /\ table'[Name(w)] = Password(w)
          /\ \A p \in Passwords : <<Name(w), p>> \notin acked'
          /\ Name(w) \notin refused' => users'[Name(w)] = None
    BY <1>1, <1>4, <1>5, <1>6, <1>9 DEF TypeOK
  <2>4. ~res'[w] => table'[Name(w)] # None \/ Name(w) \in refused'
    BY <1>6 DEF TypeOK
  <2> QED BY <2>1, <2>2, <2>3, <2>4 DEF Pending
<1>11. OneAccount'
  <2>1. \A a \in acked : a[2] # None /\ a[1] \in Names
    BY AccountsAssumption DEF TypeOK
  <2> QED BY <1>4, <1>6, <2>1 DEF OneAccount, TypeOK
<1>12. MapFollowsTable'
  <2> SUFFICES ASSUME NEW n \in Names \ refused', users[n] # table'[n]
               PROVE  pc'[w] = "insert" /\ lock' = w /\ res'[w] /\ request'[w].name = n
    BY <1>4 DEF MapFollowsTable
  <2> QED BY <1>2, <1>4, <1>5, <1>6 DEF TypeOK, Name
<1> QED BY <1>7, <1>8, <1>10, <1>11, <1>12

\* users.insert() brings the map up to the table.
LEMMA InsertStep == ASSUME Inv, NEW w \in Workers, Insert(w) PROVE Inv'
<1> USE DEF Inv
<1>1. request[w] \in Requests /\ Name(w) \in Names /\ Password(w) \in Passwords
  BY DEF Insert, At, TypeOK, Labels, Requests, Name, Password
<1>2. lock = w /\ \A v \in Workers \ {w} : ~Section(v)
  BY Alone DEF Insert, At, Section
<1>3. /\ pc[w] = "insert" /\ main = "serve"
      /\ pc' = [pc EXCEPT ![w] = pc'[w]] /\ pc'[w] \in {"turn", "unlock"}
      /\ UNCHANGED <<refused, table, acked, main, runs, request, res, lock>>
  BY DEF Insert, At, Goto, runVars, dbVars, TypeOK
<1>4. users' = IF users[Name(w)] = None THEN [users EXCEPT ![Name(w)] = Password(w)]
                                        ELSE users
  BY DEF Insert, Inserted, Name, Password
<1>5. TypeOK'
  <2>1. users' \in [Names -> Passwords \cup {None, Blank}]
    BY <1>1, <1>4 DEF TypeOK
  <2>2. \A v \in Workers : Section(v)' <=> lock' = v
    BY <1>2, <1>3 DEF TypeOK, Section
  <2>3. pc' \in [Workers -> Labels \cup Pages]
    BY <1>3 DEF TypeOK, Labels
  <2>4. \A v \in Workers : pc'[v] \in Labels => request'[v] \in Requests
    BY <1>1, <1>3 DEF TypeOK
  <2> QED BY <1>3, <2>1, <2>2, <2>3, <2>4 DEF TypeOK
<1>6. Quiet' BY <1>3 DEF Quiet
<1>7. Pending'
  <2>1. \A v \in Workers \ {w} : pc'[v] \notin {"insert", "turn", "unlock"}
    BY <1>2, <1>3 DEF TypeOK, Section
  <2> QED BY <1>3, <2>1 DEF Pending, Name, Password
<1>8. OneAccount' BY <1>3 DEF OneAccount
<1>9. MapFollowsTable'
  <2> SUFFICES ASSUME NEW n \in Names \ refused PROVE users'[n] = table[n]
    BY <1>3 DEF MapFollowsTable
  <2>1. users[n] = table[n] \/ (n = Name(w) /\ res[w])
    BY <1>2, <1>3 DEF MapFollowsTable, Name
  <2>2. CASE n # Name(w)
    <3>1. users'[n] = users[n]
      <4>1. users \in [Names -> Passwords \cup {None, Blank}] BY DEF TypeOK
      <4> QED BY <1>1, <1>4, <2>2, <4>1
    <3> QED BY <2>1, <2>2, <3>1
  <2>3. CASE n = Name(w) /\ res[w]
    BY <1>1, <1>3, <1>4, <2>3 DEF TypeOK, Pending
  <2>4. CASE n = Name(w) /\ ~res[w]
    BY <1>3, <1>4, <2>1, <2>4 DEF Pending
  <2> QED BY <2>2, <2>3, <2>4
<1> QED BY <1>5, <1>6, <1>7, <1>8, <1>9

\* The client that is told its name is its own is told what the table says.
LEMMA RegisteredStep == ASSUME Inv, NEW w \in Workers, Registered(w) PROVE Inv'
<1> USE DEF Inv
<1>1. request[w] \in Requests /\ Name(w) \in Names /\ Password(w) \in Passwords
  BY DEF Registered, At, TypeOK, Labels, Requests, Name, Password
<1>2. lock = w /\ \A v \in Workers \ {w} : ~Section(v)
  BY Alone DEF Registered, At, Section
<1>3. /\ pc[w] \in {"turn", "unlock"} /\ main = "serve"
      /\ pc' = [pc EXCEPT ![w] = pc'[w]] /\ pc'[w] \in Pages
      /\ request' = [request EXCEPT ![w] = NoRequest]
      /\ lock' = NoOne /\ res' = [res EXCEPT ![w] = FALSE]
      /\ UNCHANGED <<table, users, refused, main, runs>>
  BY DEF Registered, At, Answer, Unlock, runVars, mapVars, TypeOK, Pages
<1>4. \/ acked' = acked
      \/ res[w] /\ acked' = acked \cup {<<Name(w), Password(w)>>}
  BY DEF Registered, Succeeded, Name, Password
<1>5. \A v \in Workers : pc'[v] \notin {"insert", "turn", "unlock", "query"}
  BY <1>2, <1>3 DEF TypeOK, Section, Pages
<1>6. TypeOK'
  <2>1. acked' \subseteq Names \X Passwords
    BY <1>1, <1>4 DEF TypeOK
  <2>2. \A v \in Workers : Section(v)' <=> lock' = v
    BY <1>3, <1>5, AccountsAssumption DEF Section
  <2>3. pc' \in [Workers -> Labels \cup Pages]
    BY <1>3 DEF TypeOK
  <2>4. \A v \in Workers : pc'[v] \in Labels => request'[v] \in Requests
    BY <1>3, LabelsArePagesNot DEF TypeOK
  <2>5. request' \in [Workers -> Requests \cup {NoRequest}] /\ res' \in [Workers -> BOOLEAN]
    BY <1>3 DEF TypeOK
  <2> QED BY <1>3, <2>1, <2>2, <2>3, <2>4, <2>5 DEF TypeOK
<1>7. Quiet' BY <1>3 DEF Quiet
<1>8. Pending' BY <1>5 DEF Pending
<1>9. OneAccount'
  BY <1>3, <1>4 DEF OneAccount, Pending
<1>10. MapFollowsTable'
  <2>1. \A v \in Workers : ~(pc[v] = "insert" /\ lock = v)
    BY <1>2, <1>3
  <2> QED BY <1>3, <2>1 DEF MapFollowsTable
<1> QED BY <1>6, <1>7, <1>8, <1>9, <1>10

\* A login that adds a blank entry to the map leaves the account alone.
LEMMA CompareStep == ASSUME Inv, NEW w \in Workers, Compare(w) PROVE Inv'
<1> USE DEF Inv
<1>1. request[w] \in Requests /\ Name(w) \in Names
  BY DEF Compare, At, TypeOK, Labels, Requests, Name
<1>2. /\ pc[w] = "compare" /\ main = "serve"
      /\ pc' = [pc EXCEPT ![w] = pc'[w]] /\ pc'[w] \in Pages
      /\ request' = [request EXCEPT ![w] = NoRequest]
      /\ UNCHANGED <<table, acked, main, runs, res, lock>>
  BY DEF Compare, At, Answer, runVars, dbVars, TypeOK, Pages
<1>3. \/ users' = users /\ refused' = refused
      \/ /\ Turning
         /\ users' = [users EXCEPT ![Name(w)] = Blank]
         /\ refused' = refused \cup {Name(w)}
  BY DEF Compare, mapVars, Name
<1>4. TypeOK'
  <2>1. users' \in [Names -> Passwords \cup {None, Blank}] /\ refused' \subseteq Names
    BY <1>1, <1>3 DEF TypeOK
  <2>2. \A v \in Workers : Section(v)' <=> lock' = v
    BY <1>2 DEF TypeOK, Section, Pages
  <2>3. pc' \in [Workers -> Labels \cup Pages]
    BY <1>2 DEF TypeOK
  <2>4. \A v \in Workers : pc'[v] \in Labels => request'[v] \in Requests
    BY <1>2, LabelsArePagesNot DEF TypeOK
  <2>5. request' \in [Workers -> Requests \cup {NoRequest}]
    BY <1>2 DEF TypeOK
  <2> QED BY <1>2, <2>1, <2>2, <2>3, <2>4, <2>5 DEF TypeOK
<1>5. Quiet' BY <1>2 DEF Quiet
<1>6. \A v \in Workers : pc'[v] \in {"insert", "turn", "unlock"} => v # w /\ pc'[v] = pc[v]
  BY <1>2 DEF TypeOK, Pages
<1>7. Turning => \A v \in Workers : pc[v] # "insert"
  BY DEF Turning, TypeOK, Section
<1>8. Pending'
  BY <1>2, <1>3, <1>6, <1>7 DEF Pending, Name, Password
<1>9. OneAccount' BY <1>2 DEF OneAccount
<1>10. MapFollowsTable'
  <2>1. \A v \in Workers : pc[v] = "insert" => pc'[v] = "insert" /\ request'[v] = request[v]
    BY <1>2 DEF TypeOK
  <2>2. \A n \in Names \ refused' : n \notin refused /\ users'[n] = users[n]
    BY <1>1, <1>3 DEF TypeOK
  <2> QED BY <1>2, <2>1, <2>2 DEF MapFollowsTable
<1> QED BY <1>4, <1>5, <1>8, <1>9, <1>10

\* Every step keeps the invariant.
LEMMA StepInv == Inv /\ [Next]_avars => Inv'
<1> SUFFICES ASSUME Inv, [Next]_avars PROVE Inv' OBVIOUS
<1>1. CASE Start \/ initmysql_result \/ Exit BY <1>1, MainStep
<1>2. ASSUME NEW w \in Workers, do_request(w) \/ \E r \in Requests : Request(w, r)
      PROVE  Inv'
  BY <1>2, QuietStep, QueryStep, InsertStep, RegisteredStep, CompareStep DEF do_request
<1>3. CASE UNCHANGED avars
  BY <1>3 DEF avars, dbVars, mapVars, runVars, workVars, Inv, TypeOK, Section, Quiet,
              Pending, Name, Password, OneAccount, MapFollowsTable
<1> QED BY <1>1, <1>2, <1>3 DEF Next

\* The invariant holds always.
LEMMA AlwaysInv == Spec => []Inv
BY InitInv, StepInv, PTL DEF Spec

\* The variables keep their types, and the mutex is held by the worker that is
\* between lock.lock() and lock.unlock() and by no other (http_conn.cpp:409-412).
THEOREM AccountsTypeCorrect == Spec => []TypeOK
BY AlwaysInv, PTL DEF Inv

\* A name is given to one client at most and its password stays what that client
\* was told, whatever registrations race and whenever the process dies
\* (http_conn.cpp:408-424).
THEOREM NameGivenOnce == Spec => []OneAccount
BY AlwaysInv, PTL DEF Inv

\* The map says what the table says, but for the name being inserted and those the
\* database refused (http_conn.cpp:20-48, 409-412).
THEOREM MapAgrees == Spec => []MapFollowsTable
BY AlwaysInv, PTL DEF Inv

\* A login that sees the map between two inserts sees the table.
LEMMA SeesTable ==
  ASSUME Inv, main = "serve", NEW n \in Names \ refused, NEW p \in Passwords
  PROVE  /\ users[n] = p => table[n] = p
         /\ <<n, p>> \in acked => users[n] = p /\ users[n] # None
<1> USE AccountsAssumption DEF Inv
<1>1. CASE users[n] = table[n] BY <1>1 DEF OneAccount
<1>2. CASE users[n] # table[n]
  <2>1. PICK v \in Workers : pc[v] = "insert" /\ res[v] /\ request[v].name = n
    BY <1>2 DEF MapFollowsTable
  <2>2. users[n] = None /\ <<n, p>> \notin acked
    BY <2>1 DEF Pending, Name
  <2> QED BY <2>2
<1> QED BY <1>1, <1>2

\* Login lets in who knows the password in the table, and nobody with an account
\* is sent away but by a search of a tree that is being turned
\* (http_conn.cpp:426-435).
THEOREM LoginIsRight == Spec => LoginRight
<1>1. ASSUME Inv, [Next]_avars, NEW w \in Workers,
             pc[w] \in {"find", "compare"}, request[w].name \notin refused
      PROVE  LoginStep(w)
  <2> DEFINE n == request[w].name
             p == request[w].password
  <2> SUFFICES /\ pc'[w] = "welcome.html" => table[n] = p
               /\ pc'[w] = "logError.html" /\ <<n, p>> \in acked => Turning
    BY DEF LoginStep
  <2>1. n \in Names /\ p \in Passwords /\ pc \in [Workers -> Labels \cup Pages]
    BY <1>1 DEF Inv, TypeOK, Labels, Requests
  <2>2. main = "serve"
    BY <1>1 DEF Inv, Quiet, Pages
  <2>3. /\ users[n] = p => table[n] = p
        /\ <<n, p>> \in acked => users[n] = p /\ users[n] # None
    BY <1>1, <2>1, <2>2, SeesTable
  <2>4. CASE FindName(w)
    <3>1. pc'[w] = "logError.html" => FALSE \in Found(n)
      <4>1. PICK found \in Found(n) :
              IF found THEN Goto(w, "compare") ELSE Answer(w, "logError.html")
        BY <2>4 DEF FindName
      <4>2. found \in BOOLEAN BY DEF Found
      <4>3. CASE found = TRUE BY <2>1, <4>1, <4>3 DEF Goto
      <4> QED BY <4>2, <4>3
    <3> QED BY <2>1, <2>3, <2>4, <3>1 DEF FindName, Goto, Answer, Found
  <2>5. CASE Compare(w)
    BY <2>1, <2>3, <2>5 DEF Compare, Answer, Matches
  <2>6. CASE FindFree(w)
    BY <2>1, <2>6 DEF FindFree, Answer, Goto
  <2>7. CASE (Lock(w) \/ Query(w) \/ Insert(w) \/ Registered(w))
    BY <1>1, <2>7 DEF Lock, Query, Insert, Registered, At
  <2>8. CASE Exit
    BY <2>8 DEF Exit
  <2>9. CASE Start \/ initmysql_result \/ UNCHANGED avars
    BY <1>1, <2>9 DEF Start, initmysql_result, avars, workVars
  <2>10. ASSUME NEW v \in Workers, v # w,
                do_request(v) \/ \E r \in Requests : Request(v, r)
         PROVE  pc'[w] = pc[w]
    BY <2>1, <2>10 DEF do_request, FindFree, Lock, Query, Insert, Registered, FindName,
                       Compare, Request, Answer, Goto
  <2>11. ASSUME NEW r \in Requests, Request(w, r) PROVE FALSE
    BY <1>1, <2>11 DEF Request, Pages
  <2>12. CASE \E v \in Workers : do_request(v) \/ \E r \in Requests : Request(v, r)
    <3>1. CASE \E v \in Workers \ {w} : do_request(v) \/ \E r \in Requests : Request(v, r)
      BY <1>1, <2>10, <3>1
    <3>2. CASE do_request(w)
      BY <2>4, <2>5, <2>6, <2>7, <3>2 DEF do_request
    <3> QED BY <2>11, <2>12, <3>1, <3>2
  <2> QED BY <1>1, <2>8, <2>9, <2>12 DEF Next
<1>2. Inv /\ [Next]_avars => [\A w \in Workers : LoginStep(w)]_avars
  BY <1>1 DEF LoginStep
<1> QED BY <1>2, AlwaysInv, PTL DEF Spec, LoginRight
=============================================================================
