------------------------------ MODULE Accounts ------------------------------
(***************************************************************************)
(* Registration and login: the cgi branch of do_request, run by workers    *)
(* over the map users, which is searched without the mutex that guards its *)
(* inserts, and the table user of the database.  main() loads the map when *)
(* it starts; the process ends at any moment, by SIGTERM or killed, with   *)
(* workers on their way, and starts again with what the table holds.       *)
(*                                                                         *)
(* username is taken to be a key of the table.                             *)
(***************************************************************************)
EXTENDS Integers

CONSTANTS
  Names, Passwords,
  None,        \* no password: the name is not there
  Blank,       \* the empty password operator[] gives a name it does not find
  Workers,
  NoOne,       \* nobody holds the mutex
  NoRequest,
  MaxRuns      \* bound: starts of the program

ASSUME AccountsAssumption ==
  /\ None \notin Passwords /\ Blank \notin Passwords /\ Blank # None
  /\ NoOne \notin Workers
  /\ MaxRuns \in Nat

VARIABLES
  table,       \* the table user
  users,       \* the map users
  lock,        \* the worker that holds lock
  main,        \* "down", "load", "serve"
  runs,        \* number of starts
  pc,          \* label of a worker in do_request, or the page it answered last
  request,     \* what its client sent: register or login, name, password
  res,         \* did mysql_query return 0?
  acked,       \* history: accounts whose client was sent to log.html
  refused      \* history: names memory may be wrong about until the next start

dbVars == <<table, acked>>
mapVars == <<users, refused>>
runVars == <<main, runs>>
workVars == <<pc, request, res>>
avars == <<dbVars, mapVars, runVars, workVars, lock>>

Pages == {"none", "log.html", "registerError.html", "welcome.html", "logError.html"}
Labels == {"find", "lock", "query", "insert", "turn", "unlock", "compare"}
Requests == [kind : {"register", "login"}, name : Names, password : Passwords]

Init ==
  /\ table = [n \in Names |-> None]
  /\ users = [n \in Names |-> None]
  /\ lock = NoOne
  /\ main = "down" /\ runs = 0
  /\ pc = [w \in Workers |-> "none"]
  /\ request = [w \in Workers |-> NoRequest]
  /\ res = [w \in Workers |-> FALSE]
  /\ acked = {} /\ refused = {}

-----------------------------------------------------------------------------
(* main(): start, load, SIGTERM.                                           *)

Start ==
  /\ main = "down" /\ main' = "load"
  /\ runs < MaxRuns /\ runs' = runs + 1
  /\ UNCHANGED <<dbVars, mapVars, workVars, lock>>

\* initmysql_result, before there are workers.  (When the SELECT fails,
\* mysql_num_fields( NULL ) ends the process: Exit.)
initmysql_result ==
  /\ main = "load" /\ main' = "serve"
  /\ users' = table /\ refused' = {}
  /\ UNCHANGED <<runs, dbVars, workVars, lock>>

\* SIGTERM: delete[] users; delete pool; return 0.  Nobody waits for the detached
\* workers, and the first that touches its slot, or what the destructors of exit()
\* have destroyed, ends the process; what they do until then, nobody gets to see.
\* Or the process is killed.
Exit ==
  /\ main # "down" /\ main' = "down"
  /\ users' = [n \in Names |-> None] /\ refused' = {}
  /\ lock' = NoOne
  /\ pc' = [w \in Workers |-> "none"]
  /\ request' = [w \in Workers |-> NoRequest]
  /\ res' = [w \in Workers |-> FALSE]
  /\ UNCHANGED <<runs, dbVars>>

-----------------------------------------------------------------------------
(* Workers in do_request.                                                  *)

At(w, label) == pc[w] = label /\ main = "serve"
Goto(w, label) == pc' = [pc EXCEPT ![w] = label] /\ UNCHANGED request

\* strcpy( m_url, ... ): the request is answered.
Answer(w, page) ==
  /\ pc' = [pc EXCEPT ![w] = page]
  /\ request' = [request EXCEPT ![w] = NoRequest]

\* A POST whose path begins with /3 (register) or /2 (login).
Request(w, r) ==
  /\ pc[w] \in Pages /\ main = "serve"
  /\ pc' = [pc EXCEPT ![w] = "find"]
  /\ request' = [request EXCEPT ![w] = r]
  /\ UNCHANGED <<dbVars, mapVars, runVars, res, lock>>

\* users.insert() of another worker is turning the tree.
Turning == \E w \in Workers : pc[w] = "turn"

\* What a search of the map may say.
Found(n) == (IF Turning THEN {FALSE} ELSE {}) \cup {users[n] # None}

\* if( users.find( name ) == users.end() ), of a registration.
FindFree(w) ==
  /\ At(w, "find") /\ request[w].kind = "register"
  /\ \E found \in Found(request[w].name) :
       IF found THEN Answer(w, "registerError.html") ELSE Goto(w, "lock")
  /\ UNCHANGED <<dbVars, mapVars, runVars, res, lock>>

\* lock.lock()
Lock(w) ==
  /\ At(w, "lock") /\ Goto(w, "query")
  /\ lock = NoOne /\ lock' = w
  /\ UNCHANGED <<dbVars, mapVars, runVars, res>>

\* mysql_query( mysql, sql_insert ): refused for a name in the table, and for
\* reasons of the database.
Query(w) ==
  LET r == request[w] IN
  /\ At(w, "query") /\ Goto(w, "insert")
  /\ \/ table[r.name] = None
        /\ table' = [table EXCEPT ![r.name] = r.password]
        /\ res' = [res EXCEPT ![w] = TRUE]
        /\ UNCHANGED refused
     \/ table[r.name] = None
        /\ res' = [res EXCEPT ![w] = FALSE]
        /\ refused' = refused \cup {r.name}
        /\ UNCHANGED table
     \/ table[r.name] # None
        /\ res' = [res EXCEPT ![w] = FALSE]
        /\ UNCHANGED <<table, refused>>
  /\ UNCHANGED <<users, acked, runVars, request, lock>>

\* users.insert(): does nothing for a name that is there.
Inserted(r) == IF users[r.name] = None THEN [users EXCEPT ![r.name] = r.password]
                                       ELSE users

\* The new node is linked, the tree is turned until insert() returns.
Insert(w) ==
  /\ At(w, "insert") /\ Goto(w, IF users[request[w].name] = None THEN "turn" ELSE "unlock")
  /\ users' = Inserted(request[w])
  /\ UNCHANGED <<refused, dbVars, runVars, res, lock>>

\* Mutants: only a registration that succeeds unlocks; the test of res is the
\* wrong way round.
Unlock_Success(w) == lock' = IF res[w] THEN NoOne ELSE lock
Succeeded_Not(w) == ~res[w]

Unlock(w) == lock' = NoOne
Succeeded(w) == res[w]

\* lock.unlock(), and if( !res ).
Registered(w) ==
  /\ At(w, "turn") \/ At(w, "unlock")
  /\ Unlock(w) /\ res' = [res EXCEPT ![w] = FALSE]
  /\ IF Succeeded(w)
     THEN /\ Answer(w, "log.html")
          /\ acked' = acked \cup {<<request[w].name, request[w].password>>}
     ELSE Answer(w, "registerError.html") /\ UNCHANGED acked
  /\ UNCHANGED <<table, mapVars, runVars>>

\* users.find( name ) != users.end(), of a login.
FindName(w) ==
  /\ At(w, "find") /\ request[w].kind = "login"
  /\ \E found \in Found(request[w].name) :
       IF found THEN Goto(w, "compare") ELSE Answer(w, "logError.html")
  /\ UNCHANGED <<dbVars, mapVars, runVars, res, lock>>

\* Mutant: the name is enough.
Matches_Any(w) == TRUE

Matches(w) == users[request[w].name] = request[w].password

\* users[name] == password.  This second search may miss a name as well while
\* the tree is turned, and operator[] may then add the name once more.
Compare(w) ==
  LET n == request[w].name IN
  /\ At(w, "compare")
  /\ \/ Answer(w, IF Matches(w) THEN "welcome.html" ELSE "logError.html") /\ UNCHANGED mapVars
     \/ /\ Turning
        /\ Answer(w, "logError.html")
        /\ users' \in {users, [users EXCEPT ![n] = Blank]}
        /\ refused' = IF users' = users THEN refused ELSE refused \cup {n}
  /\ UNCHANGED <<dbVars, runVars, res, lock>>

do_request(w) ==
  FindFree(w) \/ Lock(w) \/ Query(w) \/ Insert(w) \/ Registered(w)
    \/ FindName(w) \/ Compare(w)

Next ==
  \/ Start \/ initmysql_result \/ Exit
  \/ \E w \in Workers : do_request(w) \/ \E r \in Requests : Request(w, r)

Spec == Init /\ [][Next]_avars

\* Workers run.  The mutex need not be fair: each name is only registered while
\* the map does not have it.
FairSpec == Spec /\ \A w \in Workers : WF_avars(do_request(w))

-----------------------------------------------------------------------------
\* Between lock.lock() and lock.unlock().
Section(w) == pc[w] \in {"query", "insert", "turn", "unlock"}

\* Every variable keeps its type, and the mutex has the holder the labels say.
TypeOK ==
  /\ table \in [Names -> Passwords \cup {None}]
  /\ users \in [Names -> Passwords \cup {None, Blank}]
  /\ lock \in Workers \cup {NoOne}
  /\ main \in {"down", "load", "serve"} /\ runs \in 0 .. MaxRuns
  /\ pc \in [Workers -> Labels \cup Pages]
  /\ request \in [Workers -> Requests \cup {NoRequest}]
  /\ \A w \in Workers : pc[w] \in Labels => request[w] \in Requests
  /\ res \in [Workers -> BOOLEAN]
  /\ \A w \in Workers : Section(w) <=> lock = w
  /\ acked \subseteq Names \X Passwords /\ refused \subseteq Names

\* Whatever registrations race for a name, with searches that miss it, failed
\* queries, kills and SIGTERM at any point (http_conn.cpp:408-424): a name is
\* given to one client at most, and the password that client was told of is the
\* one in the table, for ever.
OneAccount == \A a \in acked : table[a[1]] = a[2]

\* The map says what the table says but for the name being inserted and for
\* names whose INSERT the database refused, which users.insert() takes all the
\* same (http_conn.cpp:409-412).
MapFollowsTable ==
  main = "serve" =>
    \A n \in Names \ refused :
      \/ users[n] = table[n]
      \/ \E w \in Workers : /\ pc[w] = "insert" /\ lock = w /\ res[w]
                            /\ request[w].name = n

LoginStep(w) ==
  LET n == request[w].name
      p == request[w].password
  IN pc[w] \in {"find", "compare"} /\ n \notin refused =>
       /\ pc'[w] = "welcome.html" => table[n] = p
       /\ pc'[w] = "logError.html" /\ <<n, p>> \in acked => Turning

\* Login (http_conn.cpp:426-435) lets a client in only with the password in the
\* table, and sends away a client that has an account only if the tree was just
\* being turned; names the database has refused apart.
LoginRight == [][\A w \in Workers : LoginStep(w)]_avars

\* A request is answered unless the process ends.
Answered == \A w \in Workers : pc[w] = "find" ~> pc[w] \in Pages
=============================================================================
