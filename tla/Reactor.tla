------------------------------ MODULE Reactor -------------------------------
(***************************************************************************)
(* The main loop of web_server.cpp, the workers of threadpool.h and the    *)
(* http_conn slots they share: epoll with EPOLLONESHOT, the improv /       *)
(* timer_flag handshake, close_conn from either side, inactivity timers    *)
(* and the SIGALRM chain.  A step is a stretch of code in which the thread *)
(* touches the shared state in one place; close_conn, which main and       *)
(* workers run without a lock, is split at each of its stores.             *)
(*                                                                         *)
(* Data is abstract.  A request or a reply is the set of connections whose *)
(* bytes it is made of; what the parser makes of the bytes is a choice.    *)
(* timer_lst is a set: time never goes back, so the sorted list of         *)
(* Timer_Linklist.h always has the expired timers in front.                *)
(***************************************************************************)
EXTENDS Integers, Sequences, FiniteSets

CONSTANTS
  Conns,        \* client connections; each is made at most once
  NoConn,       \* "no connection", the NULL of m_timer
  Workers,      \* threads of the pool
  Main,         \* the thread that runs main()
  Fds,          \* descriptor numbers free for client sockets = slots of users[]
  MAX_FD,       \* size of users[] and limit of m_user_count
  MaxRequests,  \* m_max_requests of the pool
  TIMESLOT,     \* period of alarm(); a timer lives for 3 * TIMESLOT
  ReplySize,    \* units of a reply; writev sends any number of them
  MaxSends,     \* bound: how often one client sends
  ReuseBusy,    \* may main accept on a number while a worker is at its slot?
  EmptyFiles    \* may a client ask for a file of length 0?

NoFd == -1
Off == -1

ASSUME ConstantsAssumption ==
  /\ NoConn \notin Conns
  /\ Main \notin Workers
  /\ Fds \subseteq Nat
  /\ MAX_FD \in Nat \ {0}
  /\ MaxRequests \in Nat \ {0}
  /\ TIMESLOT \in Nat \ {0}
  /\ ReplySize \in Nat \ {0}
  /\ MaxSends \in Nat
  /\ ReuseBusy \in BOOLEAN
  /\ EmptyFiles \in BOOLEAN

Threads == Workers \cup {Main}
LIFETIME == 3 * TIMESLOT

VARIABLES
  peer,         \* the clients: state, unread bytes, hung up, sends, replies got
  sock,         \* kernel: the connection open on a descriptor
  armed,        \* kernel: what the one-shot registration of a descriptor waits for
  edge,         \* kernel: listenfd has an edge epoll_wait has not reported
  alarm,        \* seconds to SIGALRM, Off when no alarm is set
  pipe,         \* a SIGALRM byte is in pipefd
  pc, at,       \* per thread: label and the slot it works on
  after,        \* where main goes when close_conn returns
  batch,        \* main: events of epoll_wait not handled yet
  timeout,      \* main: the flag of that name
  timer_lst,    \* the allocated timers; a timer is named by its connection
  ttl,          \* expire - now of a timer, 0 once expired
  user_data,    \* slot a timer points to
  due,          \* main: timers the running tick() still has to fire
  dangling,     \* history: main has used a timer that was deleted
  workqueue,    \* m_workqueue
  m_sockfd, m_timer, m_state, improv, timer_flag,  \* fields of users[]
  req,          \* buffers and parser fields of users[]
  job,          \* worker: request it answers, event it will wait for
  m_user_count,
  tmp           \* per thread: register of its pending update of m_user_count

netVars   == <<peer, sock, armed, edge>>
clockVars == <<alarm, pipe, ttl>>
mainVars  == <<after, batch, timeout, due>>
timerVars == <<timer_lst, user_data, dangling, m_timer>>
slotVars  == <<m_sockfd, m_state, improv, timer_flag, req>>
countVars == <<m_user_count, tmp>>
vars == <<netVars, clockVars, mainVars, timerVars, slotVars, countVars,
          pc, at, workqueue, job>>

FreshRequest == [buf |-> {}, resp |-> {}, to_send |-> 0, m_linger |-> FALSE]
FreshJob == [src |-> {}, ev |-> "in"]

CloseLabels == {"test", "close", "clear", "count", "uncount"}
MainLabels == CloseLabels \cup {"epoll", "next", "init", "spin", "deltimer", "tick"}
WorkerLabels == CloseLabels \cup {"idle", "job", "flag", "process", "build", "rearm"}

Init ==
  /\ peer = [c \in Conns |-> [state |-> "new", unread |-> FALSE,
                              hungup |-> FALSE, sends |-> 0, got |-> {}]]
  /\ sock = [f \in Fds |-> NoConn]
  /\ armed = [f \in Fds |-> "off"]
  /\ edge = FALSE
  /\ alarm = TIMESLOT
  /\ pipe = FALSE
  /\ pc = [t \in Threads |-> IF t = Main THEN "epoll" ELSE "idle"]
  /\ at = [t \in Threads |-> NoFd]
  /\ after = "next"
  /\ batch = {}
  /\ timeout = FALSE
  /\ timer_lst = {}
  /\ ttl = [c \in Conns |-> 0]
  /\ user_data = [c \in Conns |-> NoFd]
  /\ due = {}
  /\ dangling = FALSE
  /\ workqueue = <<>>
  /\ m_sockfd = [f \in Fds |-> NoFd]
  /\ m_timer = [f \in Fds |-> NoConn]
  /\ m_state = [f \in Fds |-> 0]
  /\ improv = [f \in Fds |-> 0]
  /\ timer_flag = [f \in Fds |-> 0]
  /\ req = [f \in Fds |-> FreshRequest]
  /\ job = [w \in Workers |-> FreshJob]
  /\ m_user_count = 0
  /\ tmp = [t \in Threads |-> 0]

-----------------------------------------------------------------------------
(* Clients, the clock and the signal. *)

\* A connection whose socket the server closed; unread bytes are lost.
Closed(c) == [peer[c] EXCEPT !.state = "closed", !.unread = FALSE]

Connect(c) ==
  /\ peer[c].state = "new"
  /\ peer' = [peer EXCEPT ![c].state = "queued"]
  /\ edge' = TRUE
  /\ UNCHANGED <<sock, armed, clockVars, mainVars, timerVars, slotVars,
                 countVars, pc, at, workqueue, job>>

Send(c) ==
  /\ peer[c].state \in {"queued", "open"}
  /\ ~peer[c].hungup /\ ~peer[c].unread
  /\ peer[c].sends < MaxSends
  /\ peer' = [peer EXCEPT ![c].unread = TRUE, ![c].sends = @ + 1]
  /\ UNCHANGED <<sock, armed, edge, clockVars, mainVars, timerVars, slotVars,
                 countVars, pc, at, workqueue, job>>

HangUp(c) ==
  /\ peer[c].state \in {"queued", "open"}
  /\ ~peer[c].hungup
  /\ peer' = [peer EXCEPT ![c].hungup = TRUE]
  /\ UNCHANGED <<sock, armed, edge, clockVars, mainVars, timerVars, slotVars,
                 countVars, pc, at, workqueue, job>>

\* One time unit.  TIMESLOT counts these units.
Clock ==
  /\ alarm > 0 \/ \E c \in Conns : ttl[c] > 0
  /\ alarm' = IF alarm > 0 THEN alarm - 1 ELSE alarm
  /\ ttl' = [c \in Conns |-> IF ttl[c] > 0 THEN ttl[c] - 1 ELSE 0]
  /\ UNCHANGED <<netVars, pipe, mainVars, timerVars, slotVars, countVars,
                 pc, at, workqueue, job>>

\* SIGALRM: sig_handler sends one byte down the pipe.
sig_handler ==
  /\ alarm = 0
  /\ alarm' = Off
  /\ pipe' = TRUE
  /\ UNCHANGED <<netVars, ttl, mainVars, timerVars, slotVars, countVars,
                 pc, at, workqueue, job>>

-----------------------------------------------------------------------------
(* http_conn::close_conn, run by main (a hang-up, a failed job, a timer)   *)
(* and by workers (a reply that could not be built), never under a lock.   *)

Goto(t, label) == pc' = [pc EXCEPT ![t] = label]

\* Mutant: a worker returns to where main was to go on.
Return_Mixed(t) == after

Return(t) == IF t = Main THEN after ELSE "rearm"
Returned(t) == after' = IF t = Main THEN "next" ELSE after

\* Mutant: close_conn does not test m_sockfd.
CloseTest_Always(t) ==
  /\ pc[t] = "test"
  /\ Goto(t, "close")
  /\ UNCHANGED <<netVars, clockVars, mainVars, timerVars, slotVars, countVars,
                 at, workqueue, job>>

\* if( real_close && ( m_sockfd != -1 ) )
CloseTest(t) ==
  /\ pc[t] = "test"
  /\ \/ m_sockfd[at[t]] # NoFd /\ Goto(t, "close") /\ UNCHANGED after
     \/ m_sockfd[at[t]] = NoFd /\ Goto(t, Return(t)) /\ Returned(t)
  /\ UNCHANGED <<netVars, clockVars, batch, timeout, due, timerVars, slotVars,
                 countVars, at, workqueue, job>>

\* removefd: EPOLL_CTL_DEL and close() of whatever is open on that number now.
\* m_sockfd is the value CloseTest loaded or a second load of the plain field.
RemoveFd(t) ==
  /\ pc[t] = "close"
  /\ Goto(t, "clear")
  /\ \E fd \in {at[t], m_sockfd[at[t]]} :
       IF fd = NoFd THEN UNCHANGED <<sock, armed, peer>>
       ELSE /\ sock' = [sock EXCEPT ![fd] = NoConn]
            /\ armed' = [armed EXCEPT ![fd] = "off"]
            /\ peer' = [c \in Conns |-> IF c = sock[fd]
                                       THEN Closed(c)
                                       ELSE peer[c]]
  /\ UNCHANGED <<edge, clockVars, mainVars, timerVars, slotVars, countVars,
                 at, workqueue, job>>

ClearSockfd(t) ==
  /\ pc[t] = "clear"
  /\ Goto(t, "count")
  /\ m_sockfd' = [m_sockfd EXCEPT ![at[t]] = NoFd]
  /\ UNCHANGED <<netVars, clockVars, mainVars, timerVars, m_state, improv,
                 timer_flag, req, countVars, at, workqueue, job>>

\* m_user_count--, a load and a store.
LoadCount(t) ==
  /\ pc[t] = "count"
  /\ Goto(t, "uncount")
  /\ tmp' = [tmp EXCEPT ![t] = m_user_count]
  /\ UNCHANGED <<netVars, clockVars, mainVars, timerVars, slotVars,
                 m_user_count, at, workqueue, job>>

StoreCount(t) ==
  /\ pc[t] = "uncount"
  /\ Goto(t, Return(t)) /\ Returned(t)
  /\ m_user_count' = tmp[t] - 1
  /\ tmp' = [tmp EXCEPT ![t] = 0]
  /\ UNCHANGED <<netVars, clockVars, batch, timeout, due, timerVars, slotVars,
                 at, workqueue, job>>

close_conn(t) ==
  CloseTest(t) \/ RemoveFd(t) \/ ClearSockfd(t) \/ LoadCount(t) \/ StoreCount(t)

-----------------------------------------------------------------------------
(* main(): epoll_wait and the accept branch. *)

\* The event a registered descriptor reports.  RDHUP is always in the mask and
\* tested first; writable names the descriptors whose send buffer has room.
Reports(f, kind, writable) ==
  /\ armed[f] # "off" /\ sock[f] # NoConn
  /\ \/ kind = "hup" /\ peer[sock[f]].hungup
     \/ kind = "in"  /\ ~peer[sock[f]].hungup /\ armed[f] = "in" /\ peer[sock[f]].unread
     \/ kind = "out" /\ ~peer[sock[f]].hungup /\ armed[f] = "out" /\ f \in writable

ReadyEvents(writable) ==
  {e \in Fds \X {"hup", "in", "out"} : Reports(e[1], e[2], writable)}
    \cup (IF edge THEN {<<NoFd, "listen">>} ELSE {})
    \cup (IF pipe THEN {<<NoFd, "pipe">>} ELSE {})

\* Mutant: registered without EPOLLONESHOT; IN is reported while it lasts.
epoll_wait_Level(writable) ==
  /\ pc[Main] = "epoll"
  /\ batch' = ReadyEvents(writable)
  /\ batch' # {}
  /\ edge' = FALSE
  /\ Goto(Main, "next")
  /\ UNCHANGED <<peer, sock, armed, clockVars, after, timeout, due, timerVars,
                 slotVars, countVars, at, workqueue, job>>

\* A reported one-shot descriptor stays off until modfd; the edge of listenfd
\* is reported once.
epoll_wait(writable) ==
  /\ pc[Main] = "epoll"
  /\ batch' = ReadyEvents(writable)
  /\ batch' # {}
  /\ armed' = [f \in Fds |-> IF \E e \in batch' : e[1] = f
                             THEN "off" ELSE armed[f]]
  /\ edge' = FALSE
  /\ Goto(Main, "next")
  /\ UNCHANGED <<peer, sock, clockVars, after, timeout, due, timerVars,
                 slotVars, countVars, at, workqueue, job>>

Handle(f, kind) ==
  /\ pc[Main] = "next"
  /\ <<f, kind>> \in batch
  /\ batch' = batch \ {<<f, kind>>}

FreeFds == {f \in Fds : sock[f] = NoConn}

\* accept() fails: no descriptor left.
AcceptError ==
  /\ Handle(NoFd, "listen")
  /\ FreeFds = {}
  /\ UNCHANGED <<netVars, clockVars, after, timeout, due, timerVars, slotVars,
                 countVars, pc, at, workqueue, job>>

\* show_error(): the server is full, the new socket is closed at once.
AcceptBusy ==
  /\ Handle(NoFd, "listen")
  /\ FreeFds # {}
  /\ m_user_count >= MAX_FD
  /\ \E c \in Conns :
       /\ peer[c].state = "queued"
       /\ peer' = [peer EXCEPT ![c] = Closed(c)]
  /\ UNCHANGED <<sock, armed, edge, clockVars, after, timeout, due, timerVars,
                 slotVars, countVars, pc, at, workqueue, job>>

\* One accept(), which returns the lowest free number; a new timer; then
\* users[connfd].init() up to the load of m_user_count++.
Accept ==
  /\ Handle(NoFd, "listen")
  /\ m_user_count < MAX_FD
  /\ \E c \in Conns, f \in FreeFds :
       /\ peer[c].state = "queued"
       /\ \A g \in FreeFds : f <= g
       /\ ReuseBusy \/ \A w \in Workers : at[w] # f
       /\ peer' = [peer EXCEPT ![c].state = "open"]
       /\ sock' = [sock EXCEPT ![f] = c]
       /\ user_data' = [user_data EXCEPT ![c] = f]
       /\ ttl' = [ttl EXCEPT ![c] = LIFETIME]
       /\ m_timer' = [m_timer EXCEPT ![f] = c]
       /\ timer_lst' = timer_lst \cup {c}
       /\ m_sockfd' = [m_sockfd EXCEPT ![f] = f]
       /\ armed' = [armed EXCEPT ![f] = "in"]
       /\ at' = [at EXCEPT ![Main] = f]
  /\ tmp' = [tmp EXCEPT ![Main] = m_user_count]
  /\ Goto(Main, "init")
  /\ UNCHANGED <<edge, alarm, pipe, after, timeout, due, dangling, m_state,
                 improv, timer_flag, req, m_user_count, workqueue, job>>

\* Mutant: users[connfd].init() leaves the buffers of the last connection.
InitConn_Dirty ==
  /\ pc[Main] = "init"
  /\ m_user_count' = tmp[Main] + 1
  /\ tmp' = [tmp EXCEPT ![Main] = 0]
  /\ timer_flag' = [timer_flag EXCEPT ![at[Main]] = 0]
  /\ improv' = [improv EXCEPT ![at[Main]] = 0]
  /\ Goto(Main, "next")
  /\ UNCHANGED <<netVars, clockVars, mainVars, timerVars, m_sockfd, m_state,
                 req, at, workqueue, job>>

\* The rest of users[connfd].init(): the store of m_user_count++, then init().
InitConn ==
  /\ pc[Main] = "init"
  /\ m_user_count' = tmp[Main] + 1
  /\ tmp' = [tmp EXCEPT ![Main] = 0]
  /\ req' = [req EXCEPT ![at[Main]] = FreshRequest]
  /\ timer_flag' = [timer_flag EXCEPT ![at[Main]] = 0]
  /\ improv' = [improv EXCEPT ![at[Main]] = 0]
  /\ Goto(Main, "next")
  /\ UNCHANGED <<netVars, clockVars, mainVars, timerVars, m_sockfd, m_state,
                 at, workqueue, job>>

-----------------------------------------------------------------------------
(* main(): the other events, the wait for the worker, the timers. *)

\* The byte of sig_handler.
ReadSignal ==
  /\ Handle(NoFd, "pipe")
  /\ pipe' = FALSE
  /\ timeout' = TRUE
  /\ UNCHANGED <<netVars, alarm, ttl, after, due, timerVars, slotVars, countVars,
                 pc, at, workqueue, job>>

CallClose(f, return) ==
  /\ Goto(Main, "test")
  /\ at' = [at EXCEPT ![Main] = f]
  /\ after' = return

\* EPOLLRDHUP: close_conn, and the timer stays where it is.
PeerClosed(f) ==
  /\ Handle(f, "hup")
  /\ CallClose(f, "next")
  /\ UNCHANGED <<netVars, clockVars, timeout, due, timerVars, slotVars,
                 countVars, workqueue, job>>

\* timer->expire = cur + 3 * TIMESLOT; adjust_timer( timer )
Adjust(timer) ==
  /\ ttl' = IF timer \in timer_lst THEN [ttl EXCEPT ![timer] = LIFETIME] ELSE ttl
  /\ dangling' = (dangling \/ (timer # NoConn /\ timer \notin timer_lst))

\* pool->append( users + sockfd, state ), whose result main() ignores.
append(f, state) ==
  IF Len(workqueue) > MaxRequests
  THEN UNCHANGED <<workqueue, m_state>>
  ELSE /\ m_state' = [m_state EXCEPT ![f] = state]
       /\ workqueue' = Append(workqueue, f)

\* EPOLLIN (state 0) or EPOLLOUT (state 1), up to while( true ).
Dispatch(f, kind, state) ==
  /\ Handle(f, kind)
  /\ Adjust(m_timer[f])
  /\ append(f, state)
  /\ at' = [at EXCEPT ![Main] = f]
  /\ Goto(Main, "spin")
  /\ UNCHANGED <<netVars, alarm, pipe, after, timeout, due, timer_lst,
                 user_data, m_timer, m_sockfd, improv, timer_flag, req,
                 countVars, job>>

\* Mutant: a failed job deletes the timer and forgets close_conn.
JobDone_NoClose ==
  LET f == at[Main] IN
  /\ pc[Main] = "spin"
  /\ improv[f] = 1
  /\ \/ /\ timer_flag[f] = 1
        /\ Goto(Main, "deltimer")
        /\ UNCHANGED improv
     \/ /\ timer_flag[f] # 1
        /\ improv' = [improv EXCEPT ![f] = 0]
        /\ Goto(Main, "next")
  /\ UNCHANGED <<netVars, clockVars, mainVars, timerVars, m_sockfd, m_state,
                 timer_flag, req, countVars, at, workqueue, job>>

\* if( improv == 1 ): the job is done, or it failed and the slot is closed.
JobDone ==
  LET f == at[Main] IN
  /\ pc[Main] = "spin"
  /\ improv[f] = 1
  /\ \/ /\ timer_flag[f] = 1
        /\ CallClose(f, "deltimer")
        /\ UNCHANGED improv
     \/ /\ timer_flag[f] # 1
        /\ improv' = [improv EXCEPT ![f] = 0]
        /\ Goto(Main, "next")
        /\ UNCHANGED <<at, after>>
  /\ UNCHANGED <<netVars, clockVars, batch, timeout, due, timerVars, m_sockfd,
                 m_state, timer_flag, req, countVars, workqueue, job>>

\* Mutant: improv keeps its 1 when the job has failed.
DelTimer_KeepImprov ==
  LET f == at[Main] IN
  /\ pc[Main] = "deltimer"
  /\ timer_lst' = timer_lst \ {m_timer[f]}
  /\ ttl' = [c \in Conns |-> IF c = m_timer[f] THEN 0 ELSE ttl[c]]
  /\ dangling' = (dangling \/ m_timer[f] \notin timer_lst)
  /\ timer_flag' = [timer_flag EXCEPT ![f] = 0]
  /\ Goto(Main, "next")
  /\ UNCHANGED <<netVars, alarm, pipe, mainVars, user_data, m_timer, m_sockfd,
                 m_state, improv, req, countVars, at, workqueue, job>>

\* del_timer( timer ); timer_flag = 0; improv = 0
DelTimer ==
  LET f == at[Main] IN
  /\ pc[Main] = "deltimer"
  /\ timer_lst' = timer_lst \ {m_timer[f]}
  /\ ttl' = [c \in Conns |-> IF c = m_timer[f] THEN 0 ELSE ttl[c]]
  /\ dangling' = (dangling \/ m_timer[f] \notin timer_lst)
  /\ timer_flag' = [timer_flag EXCEPT ![f] = 0]
  /\ improv' = [improv EXCEPT ![f] = 0]
  /\ Goto(Main, "next")
  /\ UNCHANGED <<netVars, alarm, pipe, mainVars, user_data, m_timer, m_sockfd,
                 m_state, req, countVars, at, workqueue, job>>

\* The for loop is over; tick() compares every timer with one time( NULL ).
EndBatch ==
  /\ pc[Main] = "next"
  /\ batch = {}
  /\ due' = IF timeout THEN {c \in timer_lst : ttl[c] = 0} ELSE {}
  /\ Goto(Main, IF timeout THEN "tick" ELSE "epoll")
  /\ UNCHANGED <<netVars, clockVars, after, batch, timeout, timerVars, slotVars,
                 countVars, at, workqueue, job>>

\* Mutant: tick() takes the timer off the list without cb_func.
Tick_NoCallback ==
  /\ pc[Main] = "tick"
  /\ \E c \in due : due' = due \ {c} /\ timer_lst' = timer_lst \ {c}
  /\ UNCHANGED <<netVars, clockVars, after, batch, timeout, user_data, dangling,
                 m_timer, slotVars, countVars, pc, at, workqueue, job>>

\* cb_func( tmp->user_data ) of an expired timer.  It leaves the list once
\* cb_func returns; no one but main looks at the list.
Tick ==
  /\ pc[Main] = "tick"
  /\ \E c \in due :
       /\ due' = due \ {c}
       /\ timer_lst' = timer_lst \ {c}
       /\ CallClose(user_data[c], "tick")
  /\ UNCHANGED <<netVars, clockVars, batch, timeout, user_data, dangling,
                 m_timer, slotVars, countVars, workqueue, job>>

\* Mutant: timeout is not reset.
EndTick_KeepTimeout ==
  /\ pc[Main] = "tick"
  /\ due = {}
  /\ alarm' = TIMESLOT
  /\ Goto(Main, "epoll")
  /\ UNCHANGED <<netVars, pipe, ttl, mainVars, timerVars, slotVars, countVars,
                 at, workqueue, job>>

\* The end of timer_handler().
EndTick ==
  /\ pc[Main] = "tick"
  /\ due = {}
  /\ alarm' = TIMESLOT
  /\ timeout' = FALSE
  /\ Goto(Main, "epoll")
  /\ UNCHANGED <<netVars, pipe, ttl, after, batch, due, timerVars, slotVars,
                 countVars, at, workqueue, job>>

-----------------------------------------------------------------------------
(* threadpool::run, and the http_conn functions a worker calls.            *)

\* m_queuestat.wait() and the pop under m_queuelocker.
Take(w) ==
  /\ pc[w] = "idle"
  /\ workqueue # <<>>
  /\ workqueue' = Tail(workqueue)
  /\ at' = [at EXCEPT ![w] = Head(workqueue)]
  /\ Goto(w, "job")
  /\ UNCHANGED <<netVars, clockVars, mainVars, timerVars, slotVars, countVars, job>>

Finish(w) ==
  /\ Goto(w, "idle")
  /\ at' = [at EXCEPT ![w] = NoFd]
  /\ job' = [job EXCEPT ![w] = FreshJob]

\* May a call on m_sockfd of the slot succeed?
Usable(f) == m_sockfd[f] # NoFd /\ sock[f] # NoConn

\* Mutant: the one-shot registration is not renewed.
modfd_Missing(f, ev) == UNCHANGED armed

modfd(f, ev) == armed' = IF Usable(f) THEN [armed EXCEPT ![f] = ev] ELSE armed

\* m_state 0: read(), then improv = 1.  A full buffer or a closed peer fails.
Read(w) ==
  LET f == at[w]
      c == sock[f]
      arrived == Usable(f) /\ peer[c].unread
  IN
  /\ pc[w] = "job" /\ m_state[f] = 0
  /\ \/ Usable(f) /\ ~peer[c].hungup /\ Goto(w, "process")
     \/ (Usable(f) => peer[c].hungup \/ peer[c].unread) /\ Goto(w, "flag")
  /\ IF arrived
     THEN /\ peer' = [peer EXCEPT ![c].unread = FALSE]
          /\ req' = [req EXCEPT ![f].buf = @ \cup {c}]
     ELSE UNCHANGED <<peer, req>>
  /\ improv' = [improv EXCEPT ![f] = 1]
  /\ UNCHANGED <<sock, armed, edge, clockVars, mainVars, timerVars, m_sockfd,
                 m_state, timer_flag, countVars, at, workqueue, job>>

\* The second statement of a failed job: timer_flag = 1, after improv = 1.
SetTimerFlag(w) ==
  /\ pc[w] = "flag"
  /\ timer_flag' = [timer_flag EXCEPT ![at[w]] = 1]
  /\ Finish(w)
  /\ UNCHANGED <<netVars, clockVars, mainVars, timerVars, m_sockfd, m_state,
                 improv, req, countVars, workqueue>>

\* process_read() returns NO_REQUEST.
NeedMore(w) ==
  /\ pc[w] = "process"
  /\ job' = [job EXCEPT ![w].ev = "in"]
  /\ Goto(w, "rearm")
  /\ UNCHANGED <<netVars, clockVars, mainVars, timerVars, slotVars, countVars,
                 at, workqueue>>

\* process_read() has a verdict on the bytes of the buffer.
Parsed(w) ==
  /\ pc[w] = "process"
  /\ req[at[w]].buf # {}
  /\ \E linger \in BOOLEAN : req' = [req EXCEPT ![at[w]].m_linger = linger]
  /\ job' = [job EXCEPT ![w] = [src |-> req[at[w]].buf, ev |-> "out"]]
  /\ Goto(w, "build")
  /\ UNCHANGED <<netVars, clockVars, mainVars, timerVars, m_sockfd, m_state,
                 improv, timer_flag, countVars, at, workqueue>>

\* process_write() builds the reply.
BuildReply(w) ==
  /\ pc[w] = "build"
  /\ req' = [req EXCEPT ![at[w]] = [[@ EXCEPT !.resp = job[w].src]
                                   EXCEPT !.to_send = ReplySize]]
  /\ Goto(w, "rearm")
  /\ UNCHANGED <<netVars, clockVars, mainVars, timerVars, m_sockfd, m_state,
                 improv, timer_flag, countVars, at, workqueue, job>>

\* process_write() returns false for a file of length 0: close_conn.
RefuseReply(w) ==
  /\ pc[w] = "build"
  /\ EmptyFiles
  /\ Goto(w, "test")
  /\ UNCHANGED <<netVars, clockVars, mainVars, timerVars, slotVars, countVars,
                 at, workqueue, job>>

\* The modfd at the end of process().
RearmSocket(w) ==
  /\ pc[w] = "rearm"
  /\ modfd(at[w], job[w].ev)
  /\ Finish(w)
  /\ UNCHANGED <<peer, sock, edge, clockVars, mainVars, timerVars, slotVars,
                 countVars, workqueue>>

\* Mutant: improv = 1 is missing after write().
Write_Silent(w) ==
  /\ pc[w] = "job" /\ m_state[at[w]] = 1
  /\ UNCHANGED <<sock, edge, clockVars, mainVars, timerVars, m_sockfd, m_state,
                 improv, countVars, workqueue>>

\* m_state 1: what write() and the improv = 1 after it have in common.
Write(w) ==
  /\ pc[w] = "job" /\ m_state[at[w]] = 1
  /\ improv' = [improv EXCEPT ![at[w]] = 1]
  /\ UNCHANGED <<sock, edge, clockVars, mainVars, timerVars, m_sockfd, m_state,
                 countVars, workqueue>>

\* modfd( EPOLLIN ) and init(); the slot waits for its next request.
NextRequest(w) ==
  /\ modfd(at[w], "in")
  /\ req' = [req EXCEPT ![at[w]] = FreshRequest]
  /\ timer_flag' = [timer_flag EXCEPT ![at[w]] = 0]
  /\ Finish(w)

\* bytes_to_send == 0
WriteNothing(w) ==
  /\ Write(w)
  /\ req[at[w]].to_send = 0
  /\ NextRequest(w)
  /\ UNCHANGED peer

\* writev sends k units to the client on that number.
Deliver(f, k) ==
  /\ Usable(f)
  /\ k \in 1 .. req[f].to_send
  /\ peer' = [peer EXCEPT ![sock[f]].got = @ \cup req[f].resp]

\* EAGAIN after k units: wait for the next EPOLLOUT.
WritePart(w) ==
  LET f == at[w] IN
  /\ Write(w)
  /\ \E k \in 1 .. ReplySize - 1 :
       /\ Deliver(f, k)
       /\ k < req[f].to_send
       /\ req' = [req EXCEPT ![f].to_send = @ - k]
  /\ modfd(f, "out")
  /\ Finish(w)
  /\ UNCHANGED timer_flag

\* Everything is sent: keep-alive, or report failure so that main closes.
WriteAll(w) ==
  LET f == at[w] IN
  /\ Write(w)
  /\ Deliver(f, req[f].to_send)
  /\ IF req[f].m_linger
     THEN NextRequest(w)
     ELSE /\ modfd(f, "in")
          /\ req' = [req EXCEPT ![f].to_send = 0]
          /\ Goto(w, "flag")
          /\ UNCHANGED <<timer_flag, at, job>>

\* writev fails.
WriteError(w) ==
  LET f == at[w] IN
  /\ Write(w)
  /\ req[f].to_send > 0
  /\ Usable(f) => peer[sock[f]].hungup
  /\ Goto(w, "flag")
  /\ UNCHANGED <<peer, armed, req, timer_flag, at, job>>

-----------------------------------------------------------------------------
main(writable) ==
  \/ epoll_wait(writable)
  \/ AcceptError \/ AcceptBusy \/ Accept \/ InitConn
  \/ ReadSignal
  \/ \E f \in Fds : PeerClosed(f) \/ Dispatch(f, "in", 0) \/ Dispatch(f, "out", 1)
  \/ JobDone \/ DelTimer \/ EndBatch \/ Tick \/ EndTick
  \/ close_conn(Main)

run(w) ==
  \/ Take(w) \/ Read(w) \/ SetTimerFlag(w)
  \/ NeedMore(w) \/ Parsed(w) \/ BuildReply(w) \/ RefuseReply(w) \/ RearmSocket(w)
  \/ WriteNothing(w) \/ WritePart(w) \/ WriteAll(w) \/ WriteError(w)
  \/ close_conn(w)

Next ==
  \/ \E c \in Conns : Connect(c) \/ Send(c) \/ HangUp(c)
  \/ Clock \/ sig_handler
  \/ \E writable \in SUBSET Fds : main(writable)
  \/ \E w \in Workers : run(w)

Spec == Init /\ [][Next]_vars

\* The scheduler runs every thread and the clock goes on.  No client has to do
\* anything: main is fair without counting on a socket to become writable.
FairSpec ==
  /\ Spec
  /\ WF_vars(main({}))
  /\ \A w \in Workers : WF_vars(run(w))
  /\ WF_vars(Clock) /\ WF_vars(sig_handler)

-----------------------------------------------------------------------------
(* Properties. *)

Peers == [state : {"new", "queued", "open", "closed"}, unread : BOOLEAN,
          hungup : BOOLEAN, sends : 0 .. MaxSends, got : SUBSET Conns]
Requests == [buf : SUBSET Conns, resp : SUBSET Conns, to_send : 0 .. ReplySize,
             m_linger : BOOLEAN]
Jobs == [src : SUBSET Conns, ev : {"in", "out"}]
Events == (Fds \X {"hup", "in", "out"}) \cup {<<NoFd, "listen">>, <<NoFd, "pipe">>}
FdOrNone == Fds \cup {NoFd}

NetType ==
  /\ peer \in [Conns -> Peers]
  /\ sock \in [Fds -> Conns \cup {NoConn}]
  /\ armed \in [Fds -> {"off", "in", "out"}]
  /\ edge \in BOOLEAN

ClockType ==
  /\ alarm \in {Off} \cup 0 .. TIMESLOT
  /\ pipe \in BOOLEAN
  /\ ttl \in [Conns -> 0 .. LIFETIME]

ThreadType ==
  /\ pc \in [Threads -> MainLabels \cup WorkerLabels]
  /\ pc[Main] \in MainLabels
  /\ \A w \in Workers : pc[w] \in WorkerLabels
  /\ at \in [Threads -> FdOrNone]
  /\ after \in {"next", "deltimer", "tick"}
  /\ job \in [Workers -> Jobs]

QueueType ==
  /\ batch \subseteq Events
  /\ timeout \in BOOLEAN
  /\ due \subseteq Conns
  /\ workqueue \in Seq(Fds)

TimerType ==
  /\ timer_lst \subseteq Conns
  /\ user_data \in [Conns -> FdOrNone]
  /\ dangling \in BOOLEAN
  /\ m_timer \in [Fds -> Conns \cup {NoConn}]

SlotType ==
  /\ m_sockfd \in [Fds -> FdOrNone]
  /\ m_state \in [Fds -> {0, 1}]
  /\ improv \in [Fds -> {0, 1}]
  /\ timer_flag \in [Fds -> {0, 1}]
  /\ req \in [Fds -> Requests]

CountType == m_user_count \in Int /\ tmp \in [Threads -> Int]

\* Every variable keeps its type.
TypeOK ==
  /\ NetType /\ ClockType /\ ThreadType /\ QueueType
  /\ TimerType /\ SlotType /\ CountType

\* Main waits in while( true ) for the job it appended for slot f.
Spinning(f) == pc[Main] = "spin" /\ at[Main] = f

\* Main has seen improv = 1 and has not reset it yet.
Failing(f) ==
  /\ at[Main] = f
  /\ pc[Main] = "deltimer" \/ (pc[Main] \in CloseLabels /\ after = "deltimer")

Queued == workqueue # <<>>
OnJob(w) == pc[w] = "job"

\* The improv protocol of main and the pool (web_server.cpp:286-341 and
\* threadpool.h:76-134): a job is queued or under way only while main spins on
\* its slot, there is one at a time, and while main spins the job it waits for
\* exists or has been reported.  So append() never finds the queue full, the
\* descriptor is not closed under recv or writev, and no improv is left over
\* that would end a later wait early.
Handshake ==
  /\ Queued => workqueue = <<at[Main]>> /\ pc[Main] = "spin"
  /\ Queued => improv[at[Main]] = 0 /\ \A w \in Workers : ~OnJob(w)
  /\ \A w \in Workers : OnJob(w) => Spinning(at[w]) /\ improv[at[w]] = 0
  /\ \A v, w \in Workers : OnJob(v) /\ OnJob(w) => v = w
  /\ \A f \in Fds : improv[f] = 1 => Spinning(f) \/ Failing(f)
  /\ pc[Main] = "spin" =>
       Queued \/ improv[at[Main]] = 1 \/ \E w \in Workers : OnJob(w)

\* The SIGALRM chain (web_server.cpp:69-79, 254-281, 345-349) never breaks and
\* never doubles: the alarm is set, or its byte is in the pipe, or timeout is.
AlarmToken ==
  /\ alarm # Off \/ pipe \/ timeout
  /\ ~(alarm # Off /\ pipe) /\ ~(alarm # Off /\ timeout) /\ ~(pipe /\ timeout)

\* tick() closes what it takes off the list (Timer_Linklist.h:126-143,
\* README.md:76): an open connection still has its timer, or main is closing it
\* for tick(); and that timer points to the slot whose m_sockfd is its descriptor
\* (web_server.cpp:245-252), so that even a connection no event is ever reported
\* for is closed.
TimerCovers ==
  \A c \in Conns : peer[c].state = "open" =>
    /\ \/ c \in timer_lst
       \/ at[Main] = user_data[c] /\ after = "tick" /\ pc[Main] \in {"test", "close"}
    /\ \E f \in Fds : sock[f] = c /\ m_sockfd[f] = f /\ user_data[c] = f

\* adjust_timer and del_timer are never given a timer that was deleted
\* (Timer_Linklist.h deletes it; m_timer of the slot keeps the pointer).
NoDanglingTimer == ~dangling

\* m_user_count is the number of open connections whenever main is between two
\* events: what the check against MAX_FD (web_server.cpp:239) relies on.
UserCountExact ==
  pc[Main] \in {"epoll", "next", "spin"} =>
    m_user_count = Cardinality({c \in Conns : peer[c].state = "open"})

\* A one-shot registration is never lost (http_conn.cpp:84-89): a connection
\* epoll no longer watches has an event in main's hands, a job that ends in
\* modfd, or a failed job behind it.
NoLostWakeup ==
  \A f \in Fds : sock[f] # NoConn /\ armed[f] = "off" =>
    \/ \E e \in batch : e[1] = f
    \/ at[Main] = f /\ pc[Main] \notin {"epoll", "next", "tick"}
    \/ \E w \in Workers : at[w] = f
    \/ timer_flag[f] = 1

\* What EPOLLONESHOT is there for (http_conn.cpp:63-71): the descriptor is out
\* of epoll while a worker has the slot, so two threads never work on one.
Busy(w) == pc[w] \in {"job", "process", "build", "rearm"}
ConnExclusive ==
  \A v, w \in Workers : v # w /\ Busy(v) /\ Busy(w) => at[v] # at[w]

\* A client only gets replies to its own requests, through keep-alive, partial
\* writes, close and the reuse of its slot.
RepliesBelong == \A c \in Conns : peer[c].got \subseteq {c}

\* Main only waits in while( true ) for a worker, never for good.
SpinEnds == \A f \in Fds : Spinning(f) ~> ~Spinning(f)

\* A client that falls silent, or that the server cannot answer, is closed in
\* the end: no job, timer or one-shot registration leaks the connection.
EventuallyClosed ==
  \A c \in Conns : peer[c].state = "open" ~> peer[c].state = "closed"

\* A timer only closes a connection that has been idle for its whole life
\* (README.md:76): the connection tick() closes has itself expired.
OnlyIdleClosed ==
  [][\A c \in Conns : (peer[c].state = "open" /\ peer'[c].state = "closed"
                       /\ pc[Main] = "close" /\ after = "tick") => ttl[c] = 0]_vars
=============================================================================
