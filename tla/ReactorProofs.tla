--------------------------- MODULE ReactorProofs ----------------------------
(***************************************************************************)
(* Theorems of Reactor, for any number of connections, workers and slots:  *)
(* types, the alarm chain and the improv protocol; then timers, descriptors*)
(* and the user count; then replies and workers on slots.                  *)
(*                                                                         *)
(* TypeOK is a conjunction of groups, one per group of variables.  A step  *)
(* proves the groups its action writes; the Stay lemmas give the others.   *)
(***************************************************************************)
EXTENDS Reactor, FiniteSetTheorems, TLAPS

\* A worker that is not idle has the slot of the request it took.
WorkerSlot == \A w \in Workers : pc[w] # "idle" => at[w] \in Fds

\* The life of a timer (web_server.cpp:249) is a number.
LEMMA LifetimeNat == LIFETIME \in Nat
  BY ConstantsAssumption DEF LIFETIME

\* The server starts well typed, with no worker on a slot.
LEMMA InitTypes == Init => TypeOK /\ WorkerSlot
<1> SUFFICES ASSUME Init PROVE TypeOK /\ WorkerSlot OBVIOUS
<1>1. NetType
  <2>1. peer \in [Conns -> Peers] BY ConstantsAssumption DEF Init, Peers
  <2>2. sock \in [Fds -> Conns \cup {NoConn}] BY DEF Init
  <2>3. armed \in [Fds -> {"off", "in", "out"}] BY DEF Init
  <2>4. edge \in BOOLEAN BY DEF Init
  <2> QED BY <2>1, <2>2, <2>3, <2>4 DEF NetType
<1>2. ClockType
  <2>1. alarm \in {Off} \cup 0 .. TIMESLOT BY ConstantsAssumption DEF Init, Off
  <2>2. ttl \in [Conns -> 0 .. LIFETIME] BY LifetimeNat DEF Init
  <2>3. pipe \in BOOLEAN BY DEF Init
  <2> QED BY <2>1, <2>2, <2>3 DEF ClockType
<1>3. ThreadType
  <2>1. pc = [t \in Threads |-> IF t = Main THEN "epoll" ELSE "idle"] BY DEF Init
  <2>2. at = [t \in Threads |-> NoFd] BY DEF Init
  <2>3. at \in [Threads -> FdOrNone] BY <2>2 DEF FdOrNone
  <2>4. job \in [Workers -> Jobs] BY DEF Init, FreshJob, Jobs
  <2>5. after = "next" BY DEF Init
  <2> QED
    BY ConstantsAssumption, <2>1, <2>3, <2>4, <2>5
    DEF ThreadType, MainLabels, WorkerLabels, Threads
<1>4. QueueType
  <2>1. workqueue \in Seq(Fds) BY DEF Init
  <2> QED BY <2>1 DEF Init, QueueType
<1>5. TimerType BY DEF Init, TimerType, FdOrNone
<1>6. SlotType
  <2>1. m_sockfd = [f \in Fds |-> NoFd] BY DEF Init
  <2>2. m_state = [f \in Fds |-> 0] /\ improv = [f \in Fds |-> 0] BY DEF Init
  <2>3. timer_flag = [f \in Fds |-> 0] BY DEF Init
  <2>4. req = [f \in Fds |-> FreshRequest] BY DEF Init
  <2>5. FreshRequest \in Requests BY ConstantsAssumption DEF FreshRequest, Requests
  <2> QED BY <2>1, <2>2, <2>3, <2>4, <2>5 DEF SlotType, FdOrNone
<1>7. CountType BY DEF Init, CountType
<1>8. WorkerSlot BY ConstantsAssumption DEF Init, WorkerSlot, Threads
<1> QED BY <1>1, <1>2, <1>3, <1>4, <1>5, <1>6, <1>7, <1>8 DEF TypeOK

\* A step that leaves the variables of a group alone keeps the group.
LEMMA NetStay == ASSUME NetType, UNCHANGED netVars PROVE NetType'
  BY DEF NetType, netVars

\* A step that leaves the alarm, the pipe and the timers alone keeps their types.
LEMMA ClockStay == ASSUME ClockType, UNCHANGED clockVars PROVE ClockType'
  BY DEF ClockType, clockVars

\* A step that moves no thread keeps the types of the threads.
LEMMA ThreadStay ==
  ASSUME ThreadType, UNCHANGED <<pc, at, after, job>> PROVE ThreadType'
  BY DEF ThreadType

\* A step that leaves the events and the work queue alone keeps their types.
LEMMA QueueStay ==
  ASSUME QueueType, UNCHANGED <<batch, timeout, due, workqueue>> PROVE QueueType'
  BY DEF QueueType

\* A step that leaves timer_lst and m_timer alone keeps their types.
LEMMA TimerStay == ASSUME TimerType, UNCHANGED timerVars PROVE TimerType'
  BY DEF TimerType, timerVars

\* A step that leaves users[] alone keeps the types of its fields.
LEMMA SlotStay == ASSUME SlotType, UNCHANGED slotVars PROVE SlotType'
  BY DEF SlotType, slotVars

\* A step that leaves m_user_count alone keeps its type.
LEMMA CountStay == ASSUME CountType, UNCHANGED countVars PROVE CountType'
  BY DEF CountType, countVars

\* Records of the model under EXCEPT.
LEMMA ClosedType == ASSUME NetType, NEW c \in Conns PROVE Closed(c) \in Peers
<1>1. peer[c] \in Peers BY DEF NetType
<1> QED BY <1>1 DEF Peers, Closed

\* read() into the buffer of a slot (http_conn.cpp:183-204).
LEMMA BufType ==
  ASSUME NEW r \in Requests, NEW S \in SUBSET Conns
  PROVE  [r EXCEPT !.buf = r.buf \cup S] \in Requests
  BY DEF Requests

\* The Connection field (http_conn.cpp:272-278).
LEMMA LingerType ==
  ASSUME NEW r \in Requests, NEW b \in BOOLEAN
  PROVE  [r EXCEPT !.m_linger = b] \in Requests
  BY DEF Requests

\* Less is left to send after writev (http_conn.cpp:539).
LEMMA ToSendType ==
  ASSUME NEW r \in Requests, NEW n \in 0 .. ReplySize
  PROVE  [r EXCEPT !.to_send = n] \in Requests
  BY DEF Requests

\* A new reply (http_conn.cpp:652-664).
LEMMA ReplyType ==
  ASSUME NEW r \in Requests, NEW S \in SUBSET Conns
  PROVE  [[r EXCEPT !.resp = S] EXCEPT !.to_send = ReplySize] \in Requests
<1>1. [r EXCEPT !.resp = S] \in Requests BY DEF Requests
<1>2. ReplySize \in 0 .. ReplySize BY ConstantsAssumption
<1> QED BY <1>1, <1>2, ToSendType

\* One slot of users[] gets new buffers.
LEMMA ReqUpdate ==
  ASSUME SlotType, NEW f \in Fds, NEW r \in Requests
  PROVE  [req EXCEPT ![f] = r] \in [Fds -> Requests]
  BY DEF SlotType

\* What init() leaves in a slot (http_conn.cpp:129-152) is well typed.
LEMMA FreshType == FreshRequest \in Requests /\ FreshJob \in Jobs
  BY ConstantsAssumption DEF FreshRequest, Requests, FreshJob, Jobs

\* What a client gets, and whether it has more to read, is well typed.
LEMMA GotType ==
  ASSUME NetType, NEW c \in Conns, NEW S \in SUBSET Conns, NEW b \in BOOLEAN
  PROVE  /\ [peer EXCEPT ![c].got = @ \cup S] \in [Conns -> Peers]
         /\ [peer EXCEPT ![c].unread = b] \in [Conns -> Peers]
<1>1. peer[c] \in Peers BY DEF NetType
<1>2. [peer[c] EXCEPT !.got = peer[c].got \cup S] \in Peers BY <1>1 DEF Peers
<1>3. [peer[c] EXCEPT !.unread = b] \in Peers BY <1>1 DEF Peers
<1> QED BY <1>2, <1>3 DEF NetType

\* writev to a client (http_conn.cpp:525).
LEMMA DeliverType ==
  ASSUME NetType, SlotType, NEW f \in Fds, NEW k, Deliver(f, k)
  PROVE  peer' \in [Conns -> Peers]
<1>1. sock[f] \in Conns BY DEF Deliver, Usable, NetType
<1>2. req[f].resp \in SUBSET Conns BY DEF SlotType, Requests
<1> QED BY <1>1, <1>2, GotType DEF Deliver

\* Jumps within the labels of a thread.
LEMMA MainGoto ==
  ASSUME ThreadType, NEW l \in MainLabels, Goto(Main, l),
         at' \in [Threads -> FdOrNone], after' \in {"next", "deltimer", "tick"},
         UNCHANGED job
  PROVE  ThreadType'
  BY ConstantsAssumption DEF ThreadType, Goto, Threads

\* A worker goes to another label of its own.
LEMMA WorkerGoto ==
  ASSUME ThreadType, NEW w \in Workers, NEW l \in WorkerLabels, Goto(w, l),
         at' \in [Threads -> FdOrNone], job' \in [Workers -> Jobs],
         UNCHANGED after
  PROVE  ThreadType'
  BY ConstantsAssumption DEF ThreadType, Goto, Threads

\* Any thread goes on within close_conn (http_conn.cpp:102-109).
LEMMA CloseGoto ==
  ASSUME ThreadType, NEW t \in Threads, NEW l \in CloseLabels, Goto(t, l),
         UNCHANGED <<at, after, job>>
  PROVE  ThreadType'
  BY ConstantsAssumption DEF ThreadType, Goto, Threads, MainLabels, WorkerLabels

\* Any thread comes back from close_conn.
LEMMA CloseReturn ==
  ASSUME ThreadType, NEW t \in Threads, Goto(t, Return(t)), Returned(t),
         UNCHANGED <<at, job>>
  PROVE  ThreadType'
  BY ConstantsAssumption
  DEF ThreadType, Goto, Return, Returned, Threads, MainLabels, WorkerLabels

\* What clients do keeps every type.
LEMMA ClientStep ==
  ASSUME TypeOK, NEW c \in Conns, Connect(c) \/ Send(c) \/ HangUp(c)
  PROVE  TypeOK'
<1> USE DEF TypeOK
<1>1. NetType'
  <2>1. CASE Connect(c) BY <2>1 DEF Connect, NetType, Peers
  <2>2. CASE Send(c) BY <2>2, ConstantsAssumption DEF Send, NetType, Peers
  <2>3. CASE HangUp(c) BY <2>3 DEF HangUp, NetType, Peers
  <2> QED BY <2>1, <2>2, <2>3
<1> QED
  BY <1>1, ClockStay, ThreadStay, QueueStay, TimerStay, SlotStay, CountStay
  DEF Connect, Send, HangUp, mainVars

\* The clock and sig_handler (web_server.cpp:69-74) keep every type.
LEMMA TimeStep == ASSUME TypeOK, Clock \/ sig_handler PROVE TypeOK'
<1> USE DEF TypeOK
<1>1. ClockType'
  <2>1. CASE Clock BY <2>1, ConstantsAssumption, LifetimeNat DEF Clock, ClockType, Off
  <2>2. CASE sig_handler BY <2>2, ConstantsAssumption DEF sig_handler, ClockType
  <2> QED BY <2>1, <2>2
<1> QED
  BY <1>1, NetStay, ThreadStay, QueueStay, TimerStay, SlotStay, CountStay
  DEF Clock, sig_handler, mainVars

\* close_conn (http_conn.cpp:102-109) keeps every type, whoever runs it.
LEMMA CloseStep ==
  ASSUME TypeOK, WorkerSlot, NEW t \in Threads, close_conn(t)
  PROVE  TypeOK'
<1> USE DEF TypeOK
<1>1. CASE CloseTest(t)
  <2>1. ThreadType'
    BY <1>1, CloseReturn, CloseGoto DEF CloseTest, CloseLabels
  <2> QED
    BY <1>1, <2>1,
       NetStay, ClockStay, QueueStay, TimerStay, SlotStay, CountStay
    DEF CloseTest, mainVars
<1>2. CASE RemoveFd(t)
  <2>1. NetType'
    BY <1>2, ClosedType DEF RemoveFd, NetType
  <2>2. ThreadType'
    BY <1>2, CloseGoto DEF RemoveFd, CloseLabels, mainVars
  <2> QED
    BY <1>2, <2>1, <2>2,
       ClockStay, QueueStay, TimerStay, SlotStay, CountStay
    DEF RemoveFd, mainVars
<1>3. CASE ClearSockfd(t)
  <2>1. SlotType'
    BY <1>3 DEF ClearSockfd, SlotType, FdOrNone
  <2>2. ThreadType'
    BY <1>3, CloseGoto DEF ClearSockfd, CloseLabels, mainVars
  <2> QED
    BY <1>3, <2>1, <2>2,
       NetStay, ClockStay, QueueStay, TimerStay, CountStay
    DEF ClearSockfd, mainVars
<1>4. CASE LoadCount(t)
  <2>1. CountType'
    BY <1>4 DEF LoadCount, CountType
  <2>2. ThreadType'
    BY <1>4, CloseGoto DEF LoadCount, CloseLabels, mainVars
  <2> QED
    BY <1>4, <2>1, <2>2,
       NetStay, ClockStay, QueueStay, TimerStay, SlotStay
    DEF LoadCount, mainVars
<1>5. CASE StoreCount(t)
  <2>1. CountType'
    BY <1>5 DEF StoreCount, CountType
  <2>2. ThreadType'
    BY <1>5, CloseReturn DEF StoreCount
  <2> QED
    BY <1>5, <2>1, <2>2,
       NetStay, ClockStay, QueueStay, TimerStay, SlotStay
    DEF StoreCount, mainVars
<1> QED BY <1>1, <1>2, <1>3, <1>4, <1>5 DEF close_conn

\* The main loop (web_server.cpp:220-350) keeps every type.
LEMMA MainStep ==
  ASSUME TypeOK, WorkerSlot, NEW W \in SUBSET Fds, main(W)
  PROVE  TypeOK'
<1> USE DEF TypeOK
<1>1. CASE epoll_wait(W)
  <2>1. NetType'
    BY <1>1 DEF epoll_wait, NetType
  <2>2. ThreadType'
    BY <1>1, MainGoto DEF epoll_wait, MainLabels, ThreadType
  <2>3. QueueType'
    BY <1>1 DEF epoll_wait, ReadyEvents, QueueType, Events
  <2> QED
    BY <1>1, <2>1, <2>2, <2>3,
       ClockStay, TimerStay, SlotStay, CountStay
    DEF epoll_wait, mainVars
<1>2. CASE AcceptError
  <2>1. QueueType'
    BY <1>2 DEF AcceptError, Handle, QueueType
  <2> QED
    BY <1>2, <2>1,
       NetStay, ClockStay, ThreadStay, TimerStay, SlotStay, CountStay
    DEF AcceptError, mainVars
<1>3. CASE AcceptBusy
  <2>1. NetType'
    BY <1>3, ClosedType DEF AcceptBusy, NetType
  <2>2. QueueType'
    BY <1>3 DEF AcceptBusy, Handle, QueueType
  <2> QED
    BY <1>3, <2>1, <2>2,
       ClockStay, ThreadStay, TimerStay, SlotStay, CountStay
    DEF AcceptBusy, mainVars
<1>4. CASE Accept
  <2>1. NetType'
    BY <1>4 DEF Accept, NetType, Peers, FreeFds
  <2>2. ClockType'
    BY <1>4, LifetimeNat DEF Accept, ClockType
  <2>3. ThreadType'
    <3>1. at' \in [Threads -> FdOrNone]
      BY <1>4 DEF Accept, FreeFds, ThreadType, FdOrNone
    <3> QED BY <1>4, <3>1, MainGoto DEF Accept, MainLabels, ThreadType
  <2>4. QueueType'
    BY <1>4 DEF Accept, Handle, QueueType
  <2>5. TimerType'
    BY <1>4 DEF Accept, TimerType, FreeFds, FdOrNone
  <2>6. SlotType'
    BY <1>4 DEF Accept, SlotType, FreeFds, FdOrNone
  <2>7. CountType'
    BY <1>4 DEF Accept, CountType
  <2> QED
    BY <1>4, <2>1, <2>2, <2>3, <2>4, <2>5, <2>6, <2>7
    DEF Accept, mainVars
<1>5. CASE InitConn
  <2>1. ThreadType'
    BY <1>5, MainGoto DEF InitConn, MainLabels, ThreadType, mainVars
  <2>2. SlotType'
    BY <1>5, FreshType DEF InitConn, SlotType
  <2>3. CountType'
    BY <1>5 DEF InitConn, CountType, Threads
  <2> QED
    BY <1>5, <2>1, <2>2, <2>3,
       NetStay, ClockStay, QueueStay, TimerStay
    DEF InitConn, mainVars
<1>6. CASE ReadSignal
  <2>1. ClockType'
    BY <1>6 DEF ReadSignal, ClockType
  <2>2. QueueType'
    BY <1>6 DEF ReadSignal, Handle, QueueType
  <2> QED
    BY <1>6, <2>1, <2>2,
       NetStay, ThreadStay, TimerStay, SlotStay, CountStay
    DEF ReadSignal, mainVars
<1>7. CASE \E f \in Fds : PeerClosed(f)
  <2>1. ThreadType'
    BY <1>7, MainGoto DEF PeerClosed, CallClose, MainLabels, CloseLabels, ThreadType, FdOrNone
  <2>2. QueueType'
    BY <1>7 DEF PeerClosed, Handle, QueueType
  <2> QED
    BY <1>7, <2>1, <2>2,
       NetStay, ClockStay, TimerStay, SlotStay, CountStay
    DEF PeerClosed
<1>8. CASE \E f \in Fds : Dispatch(f, "in", 0) \/ Dispatch(f, "out", 1)
  <2>1. ClockType'
    BY <1>8, LifetimeNat DEF Dispatch, Adjust, ClockType
  <2>2. ThreadType'
    BY <1>8, MainGoto DEF Dispatch, MainLabels, ThreadType, FdOrNone
  <2>3. QueueType'
    <3>1. workqueue' \in Seq(Fds) BY <1>8 DEF Dispatch, append, QueueType
    <3>2. batch' \subseteq Events BY <1>8 DEF Dispatch, Handle, QueueType
    <3> QED BY <1>8, <3>1, <3>2 DEF Dispatch, QueueType
  <2>4. TimerType'
    BY <1>8 DEF Dispatch, Adjust, TimerType
  <2>5. SlotType'
    BY <1>8 DEF Dispatch, append, SlotType
  <2> QED
    BY <1>8, <2>1, <2>2, <2>3, <2>4, <2>5,
       NetStay, CountStay
    DEF Dispatch
<1>9. CASE JobDone
  <2>1. ThreadType'
    BY <1>9, MainGoto DEF JobDone, CallClose, MainLabels, CloseLabels, ThreadType
  <2>2. SlotType'
    BY <1>9 DEF JobDone, SlotType
  <2> QED
    BY <1>9, <2>1, <2>2,
       NetStay, ClockStay, QueueStay, TimerStay, CountStay
    DEF JobDone, mainVars
<1>10. CASE DelTimer
  <2>1. ClockType'
    BY <1>10, LifetimeNat DEF DelTimer, ClockType
  <2>2. ThreadType'
    BY <1>10, MainGoto DEF DelTimer, MainLabels, ThreadType, mainVars
  <2>3. TimerType'
    BY <1>10 DEF DelTimer, TimerType
  <2>4. SlotType'
    BY <1>10 DEF DelTimer, SlotType
  <2> QED
    BY <1>10, <2>1, <2>2, <2>3, <2>4,
       NetStay, QueueStay, CountStay
    DEF DelTimer, mainVars
<1>11. CASE EndBatch
  <2>1. ThreadType'
    BY <1>11, MainGoto DEF EndBatch, MainLabels, ThreadType
  <2>2. QueueType'
    BY <1>11 DEF EndBatch, QueueType, TimerType
  <2> QED
    BY <1>11, <2>1, <2>2,
       NetStay, ClockStay, TimerStay, SlotStay, CountStay
    DEF EndBatch, mainVars
<1>12. CASE Tick
  <2>1. ThreadType'
    BY <1>12, MainGoto DEF Tick, CallClose, MainLabels, CloseLabels, ThreadType, QueueType, TimerType
  <2>2. QueueType'
    BY <1>12 DEF Tick, QueueType
  <2>3. TimerType'
    BY <1>12 DEF Tick, TimerType
  <2> QED
    BY <1>12, <2>1, <2>2, <2>3,
       NetStay, ClockStay, SlotStay, CountStay
    DEF Tick, mainVars
<1>13. CASE EndTick
  <2>1. ClockType'
    BY <1>13, ConstantsAssumption DEF EndTick, ClockType
  <2>2. ThreadType'
    BY <1>13, MainGoto DEF EndTick, MainLabels, ThreadType
  <2>3. QueueType'
    BY <1>13 DEF EndTick, QueueType
  <2> QED
    BY <1>13, <2>1, <2>2, <2>3,
       NetStay, TimerStay, SlotStay, CountStay
    DEF EndTick, mainVars
<1>14. CASE close_conn(Main) BY <1>14, CloseStep DEF Threads
<1> QED BY <1>1, <1>2, <1>3, <1>4, <1>5, <1>6, <1>7, <1>8, <1>9, <1>10, <1>11, <1>12, <1>13, <1>14 DEF main

\* A worker (threadpool.h:99-134) keeps every type.
LEMMA WorkerStep ==
  ASSUME TypeOK, WorkerSlot, NEW w \in Workers, run(w)
  PROVE  TypeOK'
<1> USE DEF TypeOK
<1>a. ASSUME pc[w] # "idle" PROVE at[w] \in Fds BY <1>a DEF WorkerSlot
<1>1. CASE Take(w)
  <2>1. ThreadType'
    <3>1. Head(workqueue) \in Fds BY <1>1 DEF Take, QueueType
    <3>2. at' \in [Threads -> FdOrNone] BY <1>1, <3>1 DEF Take, ThreadType, FdOrNone
    <3> QED BY <1>1, <3>2, WorkerGoto DEF Take, WorkerLabels, ThreadType, mainVars
  <2>2. QueueType'
    BY <1>1 DEF Take, QueueType, mainVars
  <2> QED
    BY <1>1, <2>1, <2>2,
       NetStay, ClockStay, TimerStay, SlotStay, CountStay
    DEF Take, mainVars
<1>2. CASE Read(w)
  <2>1. NetType'
    <3>1. peer' \in [Conns -> Peers]
      BY <1>2, <1>a, GotType DEF Read, Usable, NetType
    <3> QED BY <1>2, <3>1 DEF Read, NetType
  <2>2. ThreadType'
    BY <1>2, WorkerGoto DEF Read, WorkerLabels, ThreadType, mainVars
  <2>3. SlotType'
    <3>1. req[at[w]] \in Requests BY <1>2, <1>a DEF Read, SlotType
    <3>2. req' \in [Fds -> Requests]
      <4>1. CASE Usable(at[w]) /\ peer[sock[at[w]]].unread
        <5>1. {sock[at[w]]} \in SUBSET Conns BY <1>2, <1>a, <4>1 DEF Read, Usable, NetType
        <5>2. req' = [req EXCEPT ![at[w]] =
                        [req[at[w]] EXCEPT !.buf = req[at[w]].buf \cup {sock[at[w]]}]]
          BY <1>2, <4>1 DEF Read
        <5>3. at[w] \in Fds BY <1>2, <1>a DEF Read
        <5>4. [req[at[w]] EXCEPT !.buf = req[at[w]].buf \cup {sock[at[w]]}] \in Requests
          BY <3>1, <5>1, BufType
        <5> QED BY <5>2, <5>3, <5>4, ReqUpdate
      <4>2. CASE ~(Usable(at[w]) /\ peer[sock[at[w]]].unread)
        BY <1>2, <4>2 DEF Read, SlotType
      <4> QED BY <4>1, <4>2
    <3> QED BY <1>2, <3>2 DEF Read, SlotType
  <2> QED
    BY <1>2, <2>1, <2>2, <2>3,
       ClockStay, QueueStay, TimerStay, CountStay
    DEF Read, mainVars
<1>3. CASE SetTimerFlag(w)
  <2>1. ThreadType'
    BY <1>3, WorkerGoto DEF SetTimerFlag, Finish, WorkerLabels, ThreadType, FdOrNone, FreshJob, Jobs, mainVars
  <2>2. SlotType'
    BY <1>3 DEF SetTimerFlag, SlotType
  <2> QED
    BY <1>3, <2>1, <2>2,
       NetStay, ClockStay, QueueStay, TimerStay, CountStay
    DEF SetTimerFlag, mainVars
<1>4. CASE NeedMore(w)
  <2>1. ThreadType'
    BY <1>4, WorkerGoto DEF NeedMore, WorkerLabels, ThreadType, Jobs, mainVars
  <2> QED
    BY <1>4, <2>1,
       NetStay, ClockStay, QueueStay, TimerStay, SlotStay, CountStay
    DEF NeedMore, mainVars
<1>5. CASE Parsed(w)
  <2>1. ThreadType'
    BY <1>5, WorkerGoto DEF Parsed, WorkerLabels, ThreadType, WorkerSlot, SlotType, Requests, Jobs, mainVars
  <2>2. SlotType'
    <3>1. req[at[w]] \in Requests BY <1>5, <1>a DEF Parsed, SlotType
    <3>2. req' \in [Fds -> Requests]
      BY <1>5, <1>a, <3>1, LingerType, ReqUpdate DEF Parsed
    <3> QED BY <1>5, <3>2 DEF Parsed, SlotType
  <2> QED
    BY <1>5, <2>1, <2>2,
       NetStay, ClockStay, QueueStay, TimerStay, CountStay
    DEF Parsed, mainVars
<1>6. CASE BuildReply(w)
  <2>1. ThreadType'
    BY <1>6, WorkerGoto DEF BuildReply, WorkerLabels, ThreadType, mainVars
  <2>2. SlotType'
    <3>1. req[at[w]] \in Requests BY <1>6, <1>a DEF BuildReply, SlotType
    <3>2. job[w].src \in SUBSET Conns BY DEF ThreadType, Jobs
    <3>3. [[req[at[w]] EXCEPT !.resp = job[w].src] EXCEPT !.to_send = ReplySize] \in Requests
      BY <3>1, <3>2, ReplyType
    <3>4. req' = [req EXCEPT ![at[w]] =
                    [[req[at[w]] EXCEPT !.resp = job[w].src] EXCEPT !.to_send = ReplySize]]
      BY <1>6 DEF BuildReply
    <3>5. at[w] \in Fds BY <1>6, <1>a DEF BuildReply
    <3>6. req' \in [Fds -> Requests] BY <3>3, <3>4, <3>5, ReqUpdate
    <3> QED BY <1>6, <3>6 DEF BuildReply, SlotType
  <2> QED
    BY <1>6, <2>1, <2>2,
       NetStay, ClockStay, QueueStay, TimerStay, CountStay
    DEF BuildReply, mainVars
<1>7. CASE RefuseReply(w)
  <2>1. ThreadType'
    BY <1>7, WorkerGoto DEF RefuseReply, WorkerLabels, CloseLabels, ThreadType, mainVars
  <2> QED
    BY <1>7, <2>1,
       NetStay, ClockStay, QueueStay, TimerStay, SlotStay, CountStay
    DEF RefuseReply, mainVars
<1>8. CASE RearmSocket(w)
  <2>1. NetType'
    BY <1>8 DEF RearmSocket, modfd, NetType, ThreadType, Jobs
  <2>2. ThreadType'
    BY <1>8, WorkerGoto DEF RearmSocket, Finish, WorkerLabels, ThreadType, FdOrNone, FreshJob, Jobs, mainVars
  <2> QED
    BY <1>8, <2>1, <2>2,
       ClockStay, QueueStay, TimerStay, SlotStay, CountStay
    DEF RearmSocket, mainVars
<1>9. CASE WriteNothing(w)
  <2>1. NetType'
    BY <1>9 DEF WriteNothing, Write, NextRequest, modfd, NetType
  <2>2. ThreadType'
    BY <1>9, WorkerGoto DEF WriteNothing, Write, NextRequest, Finish, WorkerLabels, ThreadType, FdOrNone, FreshJob, Jobs, mainVars
  <2>3. SlotType'
    BY <1>9, ConstantsAssumption DEF WriteNothing, Write, NextRequest, SlotType, FreshRequest, Requests
  <2> QED
    BY <1>9, <2>1, <2>2, <2>3,
       ClockStay, QueueStay, TimerStay, CountStay
    DEF WriteNothing, mainVars, Write, NextRequest, Finish
<1>10. CASE WritePart(w)
  <2>1. NetType'
    <3>1. PICK k \in Nat : Deliver(at[w], k) BY <1>10 DEF WritePart
    <3>2. peer' \in [Conns -> Peers] BY <1>10, <1>a, <3>1, DeliverType DEF WritePart, Write
    <3> QED BY <1>10, <3>2 DEF WritePart, Write, modfd, NetType
  <2>2. ThreadType'
    BY <1>10, WorkerGoto DEF WritePart, Write, Finish, WorkerLabels, ThreadType, FdOrNone, FreshJob, Jobs, mainVars
  <2>3. SlotType'
    <3>1. req[at[w]] \in Requests BY <1>10, <1>a DEF WritePart, Write, SlotType
    <3>2. PICK k \in 1 .. ReplySize - 1 :
            k < req[at[w]].to_send /\ req' = [req EXCEPT ![at[w]].to_send = @ - k]
      BY <1>10 DEF WritePart
    <3>3. req[at[w]].to_send - k \in 0 .. ReplySize
      BY <3>1, <3>2, ConstantsAssumption DEF Requests
    <3>4. req' \in [Fds -> Requests]
      BY <1>10, <1>a, <3>1, <3>2, <3>3, ToSendType, ReqUpdate DEF WritePart, Write
    <3> QED BY <1>10, <3>4 DEF WritePart, Write, SlotType
  <2> QED
    BY <1>10, <2>1, <2>2, <2>3,
       ClockStay, QueueStay, TimerStay, CountStay
    DEF WritePart, mainVars, Write, Finish
<1>11. CASE WriteAll(w)
  <2>1. NetType'
    <3>1. peer' \in [Conns -> Peers]
      BY <1>11, <1>a, DeliverType DEF WriteAll, Write
    <3> QED BY <1>11, <3>1 DEF WriteAll, Write, NextRequest, modfd, NetType
  <2>2. ThreadType'
    BY <1>11, WorkerGoto DEF WriteAll, Write, NextRequest, Finish, WorkerLabels, ThreadType, FdOrNone, FreshJob, Jobs, mainVars
  <2>3. SlotType'
    <3>1. req[at[w]] \in Requests BY <1>11, <1>a DEF WriteAll, Write, SlotType
    <3>2. req' = [req EXCEPT ![at[w]] = FreshRequest]
            \/ req' = [req EXCEPT ![at[w]].to_send = 0]
      BY <1>11 DEF WriteAll, NextRequest
    <3>3. 0 \in 0 .. ReplySize BY ConstantsAssumption
    <3>4. req' \in [Fds -> Requests]
      BY <1>11, <1>a, <3>1, <3>2, <3>3, ToSendType, FreshType, ReqUpdate
      DEF WriteAll, Write
    <3> QED BY <1>11, <3>4 DEF WriteAll, Write, NextRequest, SlotType
  <2> QED
    BY <1>11, <2>1, <2>2, <2>3,
       ClockStay, QueueStay, TimerStay, CountStay
    DEF WriteAll, mainVars, Write, NextRequest, Finish
<1>12. CASE WriteError(w)
  <2>1. NetType'
    BY <1>12 DEF WriteError, Write, NetType
  <2>2. ThreadType'
    BY <1>12, WorkerGoto DEF WriteError, Write, WorkerLabels, ThreadType, mainVars
  <2>3. SlotType'
    BY <1>12 DEF WriteError, Write, SlotType
  <2> QED
    BY <1>12, <2>1, <2>2, <2>3,
       ClockStay, QueueStay, TimerStay, CountStay
    DEF WriteError, mainVars, Write
<1>13. CASE close_conn(w) BY <1>13, CloseStep DEF Threads
<1> QED BY <1>1, <1>2, <1>3, <1>4, <1>5, <1>6, <1>7, <1>8, <1>9, <1>10, <1>11, <1>12, <1>13 DEF run

\* A worker that is not idle works on a slot.
LEMMA WorkerSlotStep == ASSUME TypeOK, WorkerSlot, [Next]_vars PROVE WorkerSlot'
<1> USE ConstantsAssumption DEF TypeOK, ThreadType, WorkerSlot, Threads
<1>1. ASSUME UNCHANGED <<pc, at>> PROVE WorkerSlot' BY <1>1
<1>2. ASSUME NEW c \in Conns, Connect(c) \/ Send(c) \/ HangUp(c) PROVE WorkerSlot'
  BY <1>1, <1>2 DEF Connect, Send, HangUp
<1>3. CASE Clock \/ sig_handler BY <1>1, <1>3 DEF Clock, sig_handler
<1>4. ASSUME NEW t \in Threads, close_conn(t) PROVE WorkerSlot'
  BY <1>4 DEF close_conn, CloseTest, RemoveFd, ClearSockfd, LoadCount, StoreCount, Goto
<1>5. ASSUME NEW W \in SUBSET Fds, main(W) PROVE WorkerSlot'
  BY <1>4, <1>5
  DEF main, epoll_wait, AcceptError, AcceptBusy, Accept, InitConn, ReadSignal,
      PeerClosed, Dispatch, JobDone, DelTimer, EndBatch, Tick, EndTick, CallClose, Goto
<1>6. ASSUME NEW w \in Workers, run(w) PROVE WorkerSlot'
  <2>1. CASE Take(w) BY <2>1 DEF Take, Goto, QueueType
  <2>2. CASE ~Take(w)
    BY <1>4, <1>6, <2>2
    DEF run, Read, SetTimerFlag, NeedMore, Parsed, BuildReply, RefuseReply, RearmSocket,
        WriteNothing, WritePart, WriteAll, WriteError, Write, NextRequest, Finish, Goto
  <2> QED BY <2>1, <2>2
<1>7. CASE UNCHANGED vars BY <1>1, <1>7 DEF vars
<1> QED BY <1>2, <1>3, <1>5, <1>6, <1>7 DEF Next

\* Every step of the server keeps every type.
LEMMA TypeStep == ASSUME TypeOK, WorkerSlot, [Next]_vars PROVE TypeOK'
<1>1. CASE UNCHANGED vars
  BY <1>1, NetStay, ClockStay, ThreadStay, QueueStay, TimerStay, SlotStay, CountStay
  DEF TypeOK, vars, mainVars
<1>2. CASE Next
  BY <1>2, ClientStep, TimeStep, MainStep, WorkerStep DEF Next
<1> QED BY <1>1, <1>2

\* Every variable keeps its type, whatever the number of connections, workers
\* and slots and however the threads of web_server.cpp interleave.
THEOREM TypeCorrect == Spec => [](TypeOK /\ WorkerSlot)
<1>1. TypeOK /\ WorkerSlot /\ [Next]_vars => (TypeOK /\ WorkerSlot)'
  BY TypeStep, WorkerSlotStep
<1> QED BY InitTypes, <1>1, PTL DEF Spec

-----------------------------------------------------------------------------
(* The SIGALRM chain.  The token of AlarmToken moves: sig_handler takes the *)
(* alarm, ReadSignal the byte, EndTick the flag.  Each finds its token only *)
(* because a reported byte is still in the pipe and tick() runs under       *)
(* timeout, which is what the strengthening says.                           *)

InTick == pc[Main] = "tick" \/ (pc[Main] \in CloseLabels /\ after = "tick")

AlarmInv ==
  /\ AlarmToken
  /\ <<NoFd, "pipe">> \in batch => pipe
  /\ pc[Main] = "epoll" => ~timeout
  /\ InTick => timeout

\* alarm( TIMESLOT ) is called before the loop (web_server.cpp:218).
LEMMA AlarmInit == Init => AlarmInv
  BY ConstantsAssumption
  DEF Init, AlarmInv, AlarmToken, InTick, CloseLabels, Threads, Off

\* Every step passes the token of the SIGALRM chain on (web_server.cpp:69-79).
LEMMA AlarmStep == ASSUME TypeOK, AlarmInv, [Next]_vars PROVE AlarmInv'
<1> USE ConstantsAssumption DEF AlarmInv, AlarmToken, InTick, CloseLabels, Threads
<1>0. pc \in [Threads -> MainLabels \cup WorkerLabels] /\ alarm \in {Off} \cup Nat
  BY DEF TypeOK, ThreadType, ClockType
<1>1. ASSUME UNCHANGED <<alarm, pipe, timeout, batch, after>>, pc'[Main] = pc[Main]
      PROVE  AlarmInv'
  BY <1>1
<1>2. ASSUME NEW c \in Conns, Connect(c) \/ Send(c) \/ HangUp(c) PROVE AlarmInv'
  BY <1>1, <1>2 DEF Connect, Send, HangUp, clockVars, mainVars
<1>3. CASE Clock BY <1>0, <1>3 DEF Clock, mainVars, Off
<1>4. CASE sig_handler BY <1>4 DEF sig_handler, mainVars, Off
<1>5. ASSUME close_conn(Main) PROVE AlarmInv'
  BY <1>0, <1>5
  DEF close_conn, CloseTest, RemoveFd, ClearSockfd, LoadCount, StoreCount, Goto,
      Return, Returned, clockVars, mainVars, TypeOK, ThreadType
<1>6. ASSUME NEW W \in SUBSET Fds, main(W) PROVE AlarmInv'
  <2>1. CASE epoll_wait(W)
    BY <1>0, <2>1 DEF epoll_wait, ReadyEvents, Goto, clockVars
  <2>2. CASE AcceptError \/ AcceptBusy
    BY <2>2 DEF AcceptError, AcceptBusy, Handle, clockVars
  <2>3. CASE Accept
    BY <1>0, <2>3 DEF Accept, Handle, Goto
  <2>4. CASE InitConn
    BY <1>0, <2>4 DEF InitConn, Goto, clockVars, mainVars
  <2>5. CASE ReadSignal
    BY <2>5 DEF ReadSignal, Handle
  <2>6. CASE \E f \in Fds : PeerClosed(f)
    BY <1>0, <2>6 DEF PeerClosed, CallClose, Handle, Goto, clockVars
  <2>7. CASE \E f \in Fds : Dispatch(f, "in", 0) \/ Dispatch(f, "out", 1)
    BY <1>0, <2>7 DEF Dispatch, Handle, Goto
  <2>8. CASE JobDone
    BY <1>0, <2>8 DEF JobDone, CallClose, Goto, clockVars
  <2>9. CASE DelTimer
    BY <1>0, <2>9 DEF DelTimer, Goto, mainVars
  <2>10. CASE EndBatch
    BY <1>0, <2>10 DEF EndBatch, Goto, clockVars
  <2>11. CASE Tick
    BY <1>0, <2>11 DEF Tick, CallClose, Goto, clockVars
  <2>12. CASE EndTick
    BY <1>0, <2>12 DEF EndTick, Goto, Off
  <2> QED
    BY <1>5, <1>6, <2>1, <2>2, <2>3, <2>4, <2>5, <2>6, <2>7, <2>8, <2>9, <2>10,
       <2>11, <2>12 DEF main
<1>7. ASSUME NEW w \in Workers, run(w) PROVE AlarmInv'
  <2>1. CASE close_conn(w)
    BY <1>0, <1>1, <2>1
    DEF close_conn, CloseTest, RemoveFd, ClearSockfd, LoadCount, StoreCount, Goto,
        Returned, clockVars, mainVars
  <2>2. CASE Take(w) \/ Read(w) \/ SetTimerFlag(w) \/ NeedMore(w) \/ Parsed(w)
    BY <1>0, <1>1, <2>2
    DEF Take, Read, SetTimerFlag, NeedMore, Parsed, Finish, Goto, clockVars, mainVars
  <2>3. CASE BuildReply(w) \/ RefuseReply(w) \/ RearmSocket(w)
    BY <1>0, <1>1, <2>3
    DEF BuildReply, RefuseReply, RearmSocket, Finish, Goto, clockVars, mainVars
  <2>4. CASE WriteNothing(w) \/ WritePart(w) \/ WriteAll(w) \/ WriteError(w)
    BY <1>0, <1>1, <2>4
    DEF WriteNothing, WritePart, WriteAll, WriteError, Write, NextRequest, Finish,
        Goto, clockVars, mainVars
  <2> QED BY <1>7, <2>1, <2>2, <2>3, <2>4 DEF run
<1>8. CASE UNCHANGED vars BY <1>1, <1>8 DEF vars, clockVars, mainVars
<1> QED BY <1>2, <1>3, <1>4, <1>6, <1>7, <1>8 DEF Next

\* The SIGALRM chain never breaks and never doubles, so tick() is always due.
THEOREM AlarmTokenKept == Spec => []AlarmToken
<1>1. Init => TypeOK /\ WorkerSlot /\ AlarmInv BY InitTypes, AlarmInit
<1>2. TypeOK /\ WorkerSlot /\ AlarmInv /\ [Next]_vars => (TypeOK /\ WorkerSlot /\ AlarmInv)'
  BY TypeStep, WorkerSlotStep, AlarmStep
<1>3. AlarmInv => AlarmToken BY DEF AlarmInv
<1> QED BY <1>1, <1>2, <1>3, PTL DEF Spec

-----------------------------------------------------------------------------
(* The improv protocol.  Handshake is inductive on top of the types: at    *)
(* "next" it says that nothing is queued, no worker is on a job and every  *)
(* improv is 0, so a new job starts from a clean slot.                     *)

\* The server starts with no job and no improv set.
LEMMA HandshakeInit == Init => Handshake
<1> SUFFICES ASSUME Init PROVE Handshake OBVIOUS
<1>1. workqueue = <<>> BY DEF Init
<1>2. pc = [t \in Threads |-> IF t = Main THEN "epoll" ELSE "idle"] BY DEF Init
<1>3. improv = [f \in Fds |-> 0] BY DEF Init
<1> QED
  BY <1>1, <1>2, <1>3, ConstantsAssumption
  DEF Handshake, Queued, OnJob, Threads

\* A step that moves no thread into or out of a label of the protocol.
LEMMA HandshakeStay ==
  ASSUME Handshake, UNCHANGED <<workqueue, improv>>,
         at'[Main] = at[Main], pc'[Main] = pc[Main], after' = after,
         \A w \in Workers : OnJob(w)' => OnJob(w) /\ at'[w] = at[w],
         \A w \in Workers : OnJob(w) => OnJob(w)'
  PROVE  Handshake'
  BY DEF Handshake, Queued, OnJob, Spinning, Failing

\* Between two events nothing of the protocol is under way.
LEMMA Rest ==
  ASSUME TypeOK, Handshake, pc[Main] \notin {"spin", "deltimer"},
         pc[Main] \in CloseLabels => after # "deltimer"
  PROVE  /\ workqueue = <<>>
         /\ \A w \in Workers : ~OnJob(w)
         /\ improv \in [Fds -> {0}]
  BY DEF TypeOK, SlotType, Handshake, Queued, Spinning, Failing

\* And a step of main that starts no job keeps it so.
LEMMA RestStep ==
  ASSUME TypeOK, pc'[Main] # "spin", workqueue' = <<>>,
         \A w \in Workers : ~OnJob(w), \A w \in Workers : pc'[w] = pc[w],
         \A f \in Fds : improv'[f] = 0
  PROVE  Handshake'
  BY DEF Handshake, Queued, OnJob

\* The main loop keeps its side of the protocol (web_server.cpp:286-341).
LEMMA HandshakeMain ==
  ASSUME TypeOK, Handshake, NEW W \in SUBSET Fds, main(W)
  PROVE  Handshake'
<1> USE ConstantsAssumption DEF Threads
<1>0. /\ pc \in [Threads -> MainLabels \cup WorkerLabels]
      /\ at \in [Threads -> FdOrNone]
      /\ improv \in [Fds -> {0, 1}]
  BY DEF TypeOK, ThreadType, SlotType
<1>1. CASE epoll_wait(W) \/ EndBatch \/ EndTick \/ AcceptError \/ AcceptBusy \/ ReadSignal
  <2>1. pc[Main] \notin {"spin", "deltimer"} \cup CloseLabels
        /\ pc'[Main] # "spin" /\ UNCHANGED <<workqueue, improv>>
        /\ \A w \in Workers : pc'[w] = pc[w]
    BY <1>0, <1>1
    DEF epoll_wait, EndBatch, EndTick, AcceptError, AcceptBusy, ReadSignal, Handle,
        Goto, slotVars, CloseLabels
  <2> QED BY <2>1, Rest, RestStep
<1>2. CASE Accept \/ Tick \/ \E f \in Fds : PeerClosed(f)
  <2>1. pc[Main] \notin {"spin", "deltimer"} \cup CloseLabels
        /\ pc'[Main] # "spin" /\ UNCHANGED <<workqueue, improv>>
        /\ \A w \in Workers : pc'[w] = pc[w]
    BY <1>0, <1>2
    DEF Accept, Tick, PeerClosed, CallClose, Handle, Goto, slotVars, CloseLabels
  <2> QED BY <2>1, Rest, RestStep
<1>3. CASE InitConn
  <2>1. pc[Main] \notin {"spin", "deltimer"} \cup CloseLabels
        /\ pc'[Main] # "spin" /\ UNCHANGED workqueue
        /\ improv' = [improv EXCEPT ![at[Main]] = 0]
        /\ \A w \in Workers : pc'[w] = pc[w]
    BY <1>0, <1>3 DEF InitConn, Goto, CloseLabels
  <2> QED BY <2>1, Rest, RestStep
<1>4. CASE \E f \in Fds : Dispatch(f, "in", 0) \/ Dispatch(f, "out", 1)
  <2>1. PICK f \in Fds, kind \in {"in", "out"}, state \in {0, 1} : Dispatch(f, kind, state)
    BY <1>4
  <2>2. workqueue = <<>> /\ improv[f] = 0 /\ \A w \in Workers : ~OnJob(w)
    BY <2>1, Rest DEF Dispatch, Handle, CloseLabels
  <2>3. \A g \in Fds : improv[g] = 0
    BY <2>1, Rest DEF Dispatch, Handle, CloseLabels
  <2>4. workqueue' = <<f>>
    BY <2>1, <2>2 DEF Dispatch, append
  <2>5. pc'[Main] = "spin" /\ at'[Main] = f /\ improv' = improv
        /\ \A w \in Workers : pc'[w] = pc[w]
    BY <1>0, <2>1 DEF Dispatch, Goto
  <2>6. \A w \in Workers : ~OnJob(w)' BY <2>2, <2>5 DEF OnJob
  <2>7. Queued' /\ workqueue' = <<at'[Main]>> BY <2>4, <2>5 DEF Queued
  <2>8. improv'[at'[Main]] = 0 /\ \A g \in Fds : improv'[g] = 0
    BY <2>2, <2>3, <2>5
  <2> QED BY <2>5, <2>6, <2>7, <2>8 DEF Handshake
<1>5. CASE JobDone
  <2>1. pc[Main] = "spin" /\ improv[at[Main]] = 1 /\ UNCHANGED workqueue
        /\ \A w \in Workers : pc'[w] = pc[w]
    BY <1>0, <1>5 DEF JobDone, CallClose, Goto
  <2>2. workqueue = <<>> /\ \A w \in Workers : ~OnJob(w)
    BY <2>1 DEF Handshake, Queued, Spinning
  <2>3. \A f \in Fds : improv[f] = 1 => f = at[Main]
    BY DEF Handshake, Spinning, Failing
  <2>4. CASE timer_flag[at[Main]] = 1
    <3>1. pc'[Main] = "test" /\ after' = "deltimer" /\ at'[Main] = at[Main] /\ improv' = improv
      BY <1>0, <1>5, <2>4 DEF JobDone, CallClose, Goto
    <3> QED BY <2>1, <2>2, <2>3, <3>1 DEF Handshake, Queued, OnJob, Failing, CloseLabels
  <2>5. CASE timer_flag[at[Main]] # 1
    <3>1. pc'[Main] = "next" /\ improv' = [improv EXCEPT ![at[Main]] = 0]
      BY <1>0, <1>5, <2>5 DEF JobDone, Goto
    <3>2. \A f \in Fds : improv'[f] = 0 BY <1>0, <2>3, <3>1
    <3> QED BY <2>1, <2>2, <3>1, <3>2, RestStep
  <2> QED BY <2>4, <2>5
<1>6. CASE DelTimer
  <2>1. pc[Main] = "deltimer" /\ pc'[Main] = "next" /\ UNCHANGED workqueue
        /\ improv' = [improv EXCEPT ![at[Main]] = 0]
        /\ \A w \in Workers : pc'[w] = pc[w]
    BY <1>0, <1>6 DEF DelTimer, Goto
  <2>2. workqueue = <<>> /\ \A w \in Workers : ~OnJob(w)
    BY <2>1 DEF Handshake, Queued, Spinning
  <2>3. \A f \in Fds : improv'[f] = 0
    BY <1>0, <2>1 DEF Handshake, Spinning, Failing
  <2> QED BY <2>1, <2>2, <2>3, RestStep
<1>7. CASE close_conn(Main)
  <2>1. pc[Main] \in CloseLabels /\ UNCHANGED <<workqueue, improv, at>>
        /\ \A w \in Workers : pc'[w] = pc[w]
    BY <1>0, <1>7
    DEF close_conn, CloseTest, RemoveFd, ClearSockfd, LoadCount, StoreCount, Goto,
        slotVars, CloseLabels
  <2>2. \/ pc'[Main] \in CloseLabels /\ after' = after
        \/ pc'[Main] = after
    BY <1>0, <1>7
    DEF close_conn, CloseTest, RemoveFd, ClearSockfd, LoadCount, StoreCount, Goto,
        Return, mainVars, CloseLabels
  <2>3. workqueue = <<>> /\ \A w \in Workers : ~OnJob(w)
    BY <2>1 DEF Handshake, Queued, Spinning, CloseLabels
  <2>4. pc'[Main] # "spin"
    BY <2>2 DEF TypeOK, ThreadType, CloseLabels
  <2> QED
    BY <2>1, <2>2, <2>3, <2>4
    DEF Handshake, Queued, OnJob, Spinning, Failing, CloseLabels
<1> QED BY <1>1, <1>2, <1>3, <1>4, <1>5, <1>6, <1>7 DEF main

\* A worker keeps its side of the protocol (threadpool.h:99-134).
LEMMA HandshakeWorker ==
  ASSUME TypeOK, WorkerSlot, Handshake, NEW w \in Workers, run(w)
  PROVE  Handshake'
<1> USE ConstantsAssumption DEF Threads
<1>0. /\ pc \in [Threads -> MainLabels \cup WorkerLabels]
      /\ at \in [Threads -> FdOrNone]
      /\ improv \in [Fds -> {0, 1}]
  BY DEF TypeOK, ThreadType, SlotType
<1>1. CASE Take(w)
  <2>1. Queued /\ pc[w] = "idle" BY <1>1 DEF Take, Queued
  <2>a. workqueue = <<at[Main]>> BY <2>1 DEF Handshake
  <2>b. Head(<<at[Main]>>) = at[Main] /\ Tail(<<at[Main]>>) = <<>> OBVIOUS
  <2>2. workqueue' = <<>> /\ at'[w] = at[Main]
    BY <1>0, <1>1, <2>a, <2>b DEF Take
  <2>3. pc' = [pc EXCEPT ![w] = "job"] /\ improv' = improv /\ at'[Main] = at[Main]
    BY <1>0, <1>1 DEF Take, Goto, slotVars
  <2>4. pc[Main] = "spin" /\ improv[at[Main]] = 0 /\ \A v \in Workers : ~OnJob(v)
    BY <2>1 DEF Handshake
  <2> QED
    BY <1>0, <2>2, <2>3, <2>4 DEF Handshake, Queued, OnJob, Spinning, Failing
<1>2. CASE Read(w) \/ WriteNothing(w) \/ WritePart(w) \/ WriteAll(w) \/ WriteError(w)
  <2>1. OnJob(w) /\ workqueue' = workqueue /\ after' = after
    BY <1>2
    DEF Read, WriteNothing, WritePart, WriteAll, WriteError, Write, OnJob, mainVars
  <2>2. improv' = [improv EXCEPT ![at[w]] = 1]
    BY <1>2 DEF Read, WriteNothing, WritePart, WriteAll, WriteError, Write
  <2>3. at'[Main] = at[Main] /\ pc'[Main] = pc[Main]
        /\ pc'[w] # "job" /\ \A v \in Workers : v # w => pc'[v] = pc[v]
    BY <1>0, <1>2
    DEF Read, WriteNothing, WritePart, WriteAll, WriteError, Write, NextRequest,
        Finish, Goto
  <2>4. at[w] = at[Main] /\ pc[Main] = "spin" /\ at[w] \in Fds
    BY <2>1 DEF Handshake, Spinning, WorkerSlot, OnJob
  <2>5. workqueue = <<>> /\ \A v \in Workers : v # w => ~OnJob(v)
    BY <2>1 DEF Handshake, Queued
  <2>6. \A v \in Workers : ~OnJob(v)' BY <2>3, <2>5 DEF OnJob
  <2> QED
    BY <1>0, <2>1, <2>2, <2>3, <2>4, <2>5, <2>6
    DEF Handshake, Queued, Spinning, Failing
<1>3. CASE SetTimerFlag(w) \/ NeedMore(w) \/ Parsed(w)
  BY <1>0, <1>3, HandshakeStay
  DEF SetTimerFlag, NeedMore, Parsed, Finish, Goto, OnJob, slotVars, mainVars
<1>4. CASE BuildReply(w) \/ RefuseReply(w) \/ RearmSocket(w)
  BY <1>0, <1>4, HandshakeStay
  DEF BuildReply, RefuseReply, RearmSocket, Finish, Goto, OnJob, slotVars, mainVars
<1>5. CASE close_conn(w)
  BY <1>0, <1>5, HandshakeStay
  DEF close_conn, CloseTest, RemoveFd, ClearSockfd, LoadCount, StoreCount, Goto,
      Return, Returned, OnJob, slotVars, mainVars
<1> QED
  BY <1>1, <1>2, <1>3, <1>4, <1>5 DEF run

\* Every step keeps the improv protocol.
LEMMA HandshakeStep ==
  ASSUME TypeOK, WorkerSlot, Handshake, [Next]_vars PROVE Handshake'
<1>1. CASE \E c \in Conns : Connect(c) \/ Send(c) \/ HangUp(c)
  BY <1>1, HandshakeStay DEF Connect, Send, HangUp, OnJob, slotVars, mainVars
<1>2. CASE Clock \/ sig_handler
  BY <1>2, HandshakeStay DEF Clock, sig_handler, OnJob, slotVars, mainVars
<1>3. CASE UNCHANGED vars
  BY <1>3, HandshakeStay DEF vars, OnJob, slotVars, mainVars
<1> QED BY <1>1, <1>2, <1>3, HandshakeMain, HandshakeWorker DEF Next

\* The improv protocol between main and the pool holds for any number of
\* workers and slots: one job at a time, under main's wait, never lost.
THEOREM HandshakeKept == Spec => []Handshake
<1>1. Init => TypeOK /\ WorkerSlot /\ Handshake BY InitTypes, HandshakeInit
<1>2. TypeOK /\ WorkerSlot /\ Handshake /\ [Next]_vars
        => (TypeOK /\ WorkerSlot /\ Handshake)'
  BY TypeStep, WorkerSlotStep, HandshakeStep
<1> QED BY <1>1, <1>2, PTL DEF Spec

\* main ignores the result of append() (web_server.cpp:297, 328); it is never
\* the refusal of a full queue.
THEOREM NeverFull == Spec => [](Len(workqueue) <= 1)
<1>1. Handshake => Len(workqueue) <= 1
  <2>1. CASE workqueue = <<>> BY <2>1
  <2>2. ASSUME Handshake, workqueue # <<>> PROVE Len(workqueue) <= 1
    <3>1. workqueue = <<at[Main]>> BY <2>2 DEF Handshake, Queued
    <3> QED BY <3>1
  <2> QED BY <2>1, <2>2
<1> QED BY <1>1, HandshakeKept, PTL

-----------------------------------------------------------------------------
(***************************************************************************)
(* Timers, descriptors and the user count, when every reply can be built   *)
(* (~EmptyFiles): then only main() closes connections.                     *)
(*                                                                         *)
(* Core ties together, slot by slot, what the kernel, users[] and the      *)
(* timers say of a connection, and says what main may find at each label.  *)
(***************************************************************************)

Kinds == {"hup", "in", "out"}

\* Labels at which main is busy with the slot at[Main].
Handling == CloseLabels \cup {"deltimer", "spin"}

\* tick() has taken the timer off the list and close_conn has not closed yet.
Firing == after = "tick" /\ pc[Main] \in {"test", "close"}

Failed == pc[Main] = "deltimer" \/ (pc[Main] \in CloseLabels /\ after = "deltimer")

\* A slot, its descriptor and its timer agree.
Slot(f) ==
  /\ m_sockfd[f] \in {NoFd, f}
  /\ sock[f] # NoConn =>
       /\ peer[sock[f]].state = "open" /\ user_data[sock[f]] = f
       /\ m_sockfd[f] = f /\ m_timer[f] = sock[f]
       /\ sock[f] \in timer_lst \/ (Firing /\ at[Main] = f)
  /\ m_sockfd[f] # NoFd => sock[f] # NoConn \/ (pc[Main] = "clear" /\ at[Main] = f)
  /\ m_timer[f] # NoConn =>
       user_data[m_timer[f]] = f /\ peer[m_timer[f]].state \in {"open", "closed"}
Slots == \A f \in Fds : Slot(f)

Owned == \A c \in Conns : peer[c].state = "open" =>
           user_data[c] \in Fds /\ sock[user_data[c]] = c

TimersPoint == \A c \in timer_lst \cup due : user_data[c] \in Fds

\* What main finds at the slot it works on.
MainOn ==
  /\ pc[Main] \in Handling \cup {"init"} => at[Main] \in Fds
  /\ pc[Main] \in {"close", "spin", "init"} => sock[at[Main]] # NoConn
  /\ pc[Main] \in {"clear", "count", "uncount", "deltimer"} => sock[at[Main]] = NoConn
  /\ Failed => m_timer[at[Main]] \in timer_lst

\* An event in main's hands is of an open connection main is not busy with,
\* the only one of its descriptor; none is left when tick() runs.
EventsLive ==
  /\ \A f \in Fds, k \in Kinds : <<f, k>> \in batch =>
       /\ sock[f] # NoConn
       /\ \A j \in Kinds : <<f, j>> \in batch => j = k
       /\ pc[Main] \in Handling => at[Main] # f
  /\ InTick => batch = {}

OnlyMainCloses == \A w \in Workers : pc[w] \notin CloseLabels

Core ==
  /\ Slots /\ Owned /\ TimersPoint /\ MainOn /\ EventsLive
  /\ ~dangling /\ OnlyMainCloses

\* The server starts with no connection, no timer and no event.
LEMMA CoreInit == Init => Core
<1> SUFFICES ASSUME Init PROVE Core OBVIOUS
<1> USE ConstantsAssumption DEF Init
<1>1. pc = [t \in Threads |-> IF t = Main THEN "epoll" ELSE "idle"] OBVIOUS
<1>2. Slots BY DEF Slots, Slot
<1>3. Owned BY DEF Owned
<1>4. TimersPoint BY DEF TimersPoint
<1>5. MainOn BY <1>1 DEF MainOn, Handling, CloseLabels, Failed, Threads
<1>6. EventsLive BY <1>1 DEF EventsLive, Threads
<1>7. OnlyMainCloses BY <1>1 DEF OnlyMainCloses, CloseLabels, Threads
<1> QED BY <1>2, <1>3, <1>4, <1>5, <1>6, <1>7 DEF Core

\* The states of the peers do not change but from "new" to "queued".
PeersStay ==
  \A c \in Conns : /\ peer[c].state \in {"open", "closed"} => peer'[c].state = peer[c].state
                   /\ peer'[c].state = "open" => peer[c].state = "open"

\* What a step leaves alone, when it neither opens nor closes a connection.
SlotsHold == UNCHANGED <<sock, user_data, m_sockfd, m_timer>> /\ PeersStay

\* A step that opens and closes nothing, and does not end a close half done,
\* keeps the slots as they are.
LEMMA SlotsStay ==
  ASSUME TypeOK, Slots, Owned, SlotsHold, UNCHANGED timer_lst,
         Firing => Firing' /\ at'[Main] = at[Main],
         pc[Main] = "clear" => pc'[Main] = "clear" /\ at'[Main] = at[Main]
  PROVE  Slots' /\ Owned'
<1> USE DEF SlotsHold, PeersStay, TypeOK, NetType, TimerType
<1>1. Owned' BY DEF Owned
<1>2. ASSUME NEW f \in Fds PROVE Slot(f)'
  <2>1. Slot(f) BY DEF Slots
  <2>2. sock[f] \in Conns \cup {NoConn} /\ m_timer[f] \in Conns \cup {NoConn} OBVIOUS
  <2> QED BY <2>1, <2>2 DEF Slot
<1> QED BY <1>1, <1>2 DEF Slots

\* A step of a client, the clock or a worker is nothing to Core.
LEMMA CoreStay ==
  ASSUME TypeOK, Core, SlotsHold, UNCHANGED <<timer_lst, due, dangling, after, batch>>,
         pc'[Main] = pc[Main], at'[Main] = at[Main], OnlyMainCloses'
  PROVE  Core'
<1>1. Slots' /\ Owned' BY SlotsStay DEF Core, Firing
<1>2. TimersPoint' BY DEF Core, TimersPoint, SlotsHold
<1>3. MainOn' BY DEF Core, MainOn, SlotsHold, Failed
<1>4. EventsLive' BY DEF Core, EventsLive, SlotsHold, InTick
<1> QED BY <1>1, <1>2, <1>3, <1>4 DEF Core

\* writev to a client opens and closes nothing (http_conn.cpp:525).
LEMMA DeliverStays ==
  ASSUME TypeOK, NEW f \in Fds, NEW k, Deliver(f, k) PROVE PeersStay
<1>1. peer \in [Conns -> Peers] /\ sock[f] \in Conns
  BY DEF TypeOK, NetType, Deliver, Usable
<1> QED BY <1>1 DEF Deliver, PeersStay, Peers

\* Only Accept opens a connection, and only removefd closes an open one.
LEMMA PeersStep ==
  ASSUME TypeOK, WorkerSlot, [Next]_vars, pc[Main] = "next" => pc'[Main] # "init",
         \A t \in Threads : pc[t] = "close" => pc'[t] # "clear"
  PROVE  PeersStay
<1>a. ~Accept /\ \A t \in Threads : ~RemoveFd(t)
  BY DEF TypeOK, ThreadType, Accept, Handle, RemoveFd, Goto, Threads
<1>0. /\ peer \in [Conns -> Peers]
      /\ \A w \in Workers : pc[w] # "idle" => at[w] \in Fds
  BY DEF TypeOK, NetType, WorkerSlot
<1>1. ASSUME UNCHANGED peer PROVE PeersStay BY <1>1 DEF PeersStay
<1>2. CASE UNCHANGED vars BY <1>1, <1>2 DEF vars, netVars
<1>3. CASE Clock \/ sig_handler BY <1>1, <1>3 DEF Clock, sig_handler, netVars
<1>4. ASSUME NEW c \in Conns, Connect(c) \/ Send(c) \/ HangUp(c) PROVE PeersStay
  BY <1>0, <1>4 DEF Connect, Send, HangUp, PeersStay, Peers
<1>5. ASSUME NEW t \in Threads, close_conn(t) PROVE PeersStay
  BY <1>1, <1>5, <1>a DEF close_conn, CloseTest, ClearSockfd, LoadCount, StoreCount, netVars
<1>6. ASSUME NEW W \in SUBSET Fds, main(W) PROVE PeersStay
  <2>1. CASE AcceptBusy
    <3>1. PICK c \in Conns : peer[c].state = "queued" /\ peer' = [peer EXCEPT ![c] = Closed(c)]
      BY <2>1 DEF AcceptBusy
    <3>2. Closed(c).state = "closed" BY <1>0 DEF Closed, Peers
    <3> QED BY <1>0, <3>1, <3>2 DEF PeersStay
  <2>2. CASE epoll_wait(W) \/ AcceptError \/ InitConn \/ ReadSignal
    BY <1>1, <2>2 DEF epoll_wait, AcceptError, InitConn, ReadSignal, netVars
  <2>3. CASE \E f \in Fds : PeerClosed(f) \/ Dispatch(f, "in", 0) \/ Dispatch(f, "out", 1)
    BY <1>1, <2>3 DEF PeerClosed, Dispatch, netVars
  <2>4. CASE JobDone \/ DelTimer \/ EndBatch \/ Tick \/ EndTick
    BY <1>1, <2>4 DEF JobDone, DelTimer, EndBatch, Tick, EndTick, netVars
  <2> QED BY <1>5, <1>6, <1>a, <2>1, <2>2, <2>3, <2>4 DEF main, Threads
<1>7. ASSUME NEW w \in Workers, run(w) PROVE PeersStay
  <2>1. CASE Take(w) \/ SetTimerFlag(w) \/ NeedMore(w) \/ Parsed(w)
    BY <1>1, <2>1 DEF Take, SetTimerFlag, NeedMore, Parsed, netVars
  <2>2. CASE BuildReply(w) \/ RefuseReply(w) \/ RearmSocket(w)
    BY <1>1, <2>2 DEF BuildReply, RefuseReply, RearmSocket, netVars
  <2>3. CASE Read(w)
    BY <1>0, <2>3 DEF Read, PeersStay, Peers
  <2>4. CASE WriteNothing(w) \/ WriteError(w)
    BY <1>1, <2>4 DEF WriteNothing, WriteError
  <2>5. CASE WritePart(w) \/ WriteAll(w)
    BY <1>0, <2>5, DeliverStays DEF WritePart, WriteAll, Write
  <2> QED BY <1>5, <1>7, <2>1, <2>2, <2>3, <2>4, <2>5 DEF run, Threads
<1> QED BY <1>2, <1>3, <1>4, <1>6, <1>7 DEF Next

\* What clients and the clock do leaves Core as it is.
LEMMA CoreOutside ==
  ASSUME TypeOK, WorkerSlot, Core,
         (\E c \in Conns : Connect(c) \/ Send(c) \/ HangUp(c)) \/ Clock \/ sig_handler
  PROVE  Core'
<1>1. UNCHANGED <<sock, user_data, m_sockfd, m_timer, timer_lst, due, dangling,
                  after, batch, pc, at>>
  BY DEF Connect, Send, HangUp, Clock, sig_handler, netVars, mainVars, timerVars,
         slotVars
<1>2. PeersStay
  BY <1>1, PeersStep DEF Next
<1>3. OnlyMainCloses' BY <1>1 DEF Core, OnlyMainCloses
<1> QED BY <1>1, <1>2, <1>3, CoreStay DEF SlotsHold

\* Nothing a worker does but close_conn is of concern to Core, and a worker
\* never gets there (http_conn.cpp:692-695) when every reply can be built.
LEMMA CoreWorker ==
  ASSUME ~EmptyFiles, TypeOK, WorkerSlot, Core, NEW w \in Workers, run(w)
  PROVE  Core'
<1> USE ConstantsAssumption DEF Threads
<1>0. /\ pc \in [Threads -> MainLabels \cup WorkerLabels]
      /\ at \in [Threads -> FdOrNone]
      /\ peer \in [Conns -> Peers]
      /\ pc[w] # "idle" => at[w] \in Fds
  BY DEF TypeOK, ThreadType, NetType, WorkerSlot
<1>1. ~close_conn(w) /\ ~RefuseReply(w)
  BY DEF Core, OnlyMainCloses, close_conn, CloseTest, RemoveFd, ClearSockfd, LoadCount,
         StoreCount, CloseLabels, RefuseReply
<1>2. /\ UNCHANGED <<sock, user_data, m_sockfd, m_timer>>
      /\ UNCHANGED <<timer_lst, due, dangling, after, batch>>
      /\ pc'[Main] = pc[Main] /\ at'[Main] = at[Main]
      /\ \A v \in Workers : v # w => pc'[v] = pc[v]
      /\ pc'[w] \notin CloseLabels
  <2>1. CASE Take(w) \/ SetTimerFlag(w) \/ NeedMore(w) \/ Parsed(w)
    BY <1>0, <2>1
    DEF Take, SetTimerFlag, NeedMore, Parsed, Finish, Goto, CloseLabels, netVars,
        timerVars, mainVars, slotVars
  <2>2. CASE BuildReply(w) \/ RearmSocket(w) \/ Read(w)
    BY <1>0, <2>2
    DEF BuildReply, RearmSocket, Read, Finish, Goto, CloseLabels, netVars, timerVars,
        mainVars, slotVars
  <2>3. CASE WriteNothing(w) \/ WritePart(w) \/ WriteAll(w) \/ WriteError(w)
    BY <1>0, <2>3
    DEF WriteNothing, WritePart, WriteAll, WriteError, Write, NextRequest, Finish, Goto,
        CloseLabels, timerVars, mainVars
  <2> QED BY <1>1, <2>1, <2>2, <2>3 DEF run
<1>3. \A t \in Threads : pc[t] = "close" => pc'[t] # "clear"
  BY <1>2 DEF Core, OnlyMainCloses, CloseLabels
<1>4. PeersStay BY <1>2, <1>3, PeersStep DEF Next
<1>5. OnlyMainCloses' BY <1>2 DEF Core, OnlyMainCloses
<1> QED BY <1>2, <1>4, <1>5, CoreStay DEF SlotsHold

\* A step of main leaves the workers where they are.
LEMMA MainAlone ==
  ASSUME TypeOK, Core, NEW W \in SUBSET Fds, main(W)
  PROVE  /\ OnlyMainCloses' /\ \A w \in Workers : pc'[w] = pc[w] /\ at'[w] = at[w]
<1> USE ConstantsAssumption DEF Threads
<1>0. pc \in [Threads -> MainLabels \cup WorkerLabels] /\ at \in [Threads -> FdOrNone]
  BY DEF TypeOK, ThreadType
<1>1. \A w \in Workers : pc'[w] = pc[w] /\ at'[w] = at[w]
  <2>1. CASE close_conn(Main)
    BY <1>0, <2>1
    DEF close_conn, CloseTest, RemoveFd, ClearSockfd, LoadCount, StoreCount, Goto
  <2>2. CASE epoll_wait(W) \/ AcceptError \/ AcceptBusy \/ Accept \/ InitConn \/ ReadSignal
    BY <1>0, <2>2
    DEF epoll_wait, AcceptError, AcceptBusy, Accept, InitConn, ReadSignal, Goto
  <2>3. CASE \E f \in Fds : PeerClosed(f) \/ Dispatch(f, "in", 0) \/ Dispatch(f, "out", 1)
    BY <1>0, <2>3 DEF PeerClosed, Dispatch, CallClose, Goto
  <2>4. CASE JobDone \/ DelTimer \/ EndBatch \/ Tick \/ EndTick
    BY <1>0, <2>4 DEF JobDone, DelTimer, EndBatch, Tick, EndTick, CallClose, Goto
  <2> QED BY <2>1, <2>2, <2>3, <2>4 DEF main
<1> QED BY <1>1 DEF Core, OnlyMainCloses

\* The steps of main that only move it or take an event, and the refusals of
\* the accept branch (web_server.cpp:220-243, 254-281).
LEMMA CoreMoves ==
  ASSUME TypeOK, WorkerSlot, Core, NEW W \in SUBSET Fds, main(W),
         \/ epoll_wait(W) \/ AcceptError \/ AcceptBusy \/ InitConn \/ ReadSignal
         \/ EndBatch \/ EndTick
  PROVE  Core'
<1> USE ConstantsAssumption DEF Threads
<1>0. /\ pc \in [Threads -> MainLabels \cup WorkerLabels]
      /\ at \in [Threads -> FdOrNone]
      /\ peer \in [Conns -> Peers]
      /\ sock \in [Fds -> Conns \cup {NoConn}]
  BY DEF TypeOK, ThreadType, NetType
<1>1. /\ UNCHANGED <<sock, user_data, m_sockfd, m_timer, timer_lst, dangling, at, after>>
      /\ pc[Main] \in {"epoll", "next", "init", "tick"}
      /\ pc'[Main] \in {"epoll", "next", "tick"}
  <2>1. CASE epoll_wait(W) \/ InitConn
    BY <1>0, <2>1 DEF epoll_wait, InitConn, Goto, netVars, timerVars, slotVars, mainVars
  <2>2. CASE AcceptError \/ AcceptBusy \/ ReadSignal
    BY <2>2 DEF AcceptError, AcceptBusy, ReadSignal, Handle, netVars, timerVars, slotVars
  <2>3. CASE EndBatch \/ EndTick
    BY <1>0, <2>3 DEF EndBatch, EndTick, Goto, netVars, timerVars, slotVars
  <2> QED BY <2>1, <2>2, <2>3
<1>2. PeersStay
  <2>1. pc'[Main] # "init" /\ pc'[Main] # "clear" BY <1>1
  <2>2. \A t \in Threads : pc[t] = "close" => pc'[t] # "clear"
    BY <2>1, MainAlone
  <2> QED BY <2>1, <2>2, PeersStep DEF Next
<1>3. Slots' /\ Owned'
  BY <1>1, <1>2, SlotsStay DEF Core, Firing, SlotsHold
<1>4. due' \subseteq due \cup timer_lst
  BY DEF epoll_wait, AcceptError, AcceptBusy, InitConn, ReadSignal, EndBatch, EndTick,
         mainVars
<1>5. TimersPoint' BY <1>1, <1>4 DEF Core, TimersPoint
<1>6. MainOn' BY <1>1 DEF MainOn, Handling, CloseLabels, Failed
<1>7. EventsLive'
  <2>1. CASE epoll_wait(W)
    <3>1. batch' = ReadyEvents(W) BY <2>1 DEF epoll_wait
    <3>2. \A f \in Fds, k \in Kinds : <<f, k>> \in batch' => Reports(f, k, W)
      BY <3>1, ConstantsAssumption DEF ReadyEvents, Kinds, NoFd
    <3>3. pc'[Main] = "next" BY <1>0, <2>1 DEF epoll_wait, Goto
    <3> QED
      BY <1>1, <3>2, <3>3 DEF EventsLive, Reports, InTick, Handling, CloseLabels, Kinds
  <2>2. CASE EndBatch
    BY <1>1, <2>2 DEF EndBatch, EventsLive
  <2>3. CASE AcceptError \/ AcceptBusy \/ InitConn \/ ReadSignal \/ EndTick
    <3>1. batch' \subseteq batch
      BY <2>3 DEF AcceptError, AcceptBusy, InitConn, ReadSignal, EndTick, Handle, mainVars
    <3>2. pc'[Main] \in {"next", "epoll"}
      BY <1>0, <2>3
      DEF AcceptError, AcceptBusy, InitConn, ReadSignal, EndTick, Handle, Goto
    <3> QED
      BY <1>1, <3>1, <3>2 DEF Core, EventsLive, InTick, Handling, CloseLabels
  <2> QED BY <2>1, <2>2, <2>3
<1> QED BY <1>1, <1>3, <1>5, <1>6, <1>7, MainAlone DEF Core

\* Calling close_conn for a hang-up, a failed job or a timer, starting a job and
\* finding it done (web_server.cpp:81-86, 282-316).
LEMMA CoreCalls ==
  ASSUME TypeOK, Core, NEW W \in SUBSET Fds, main(W),
         \/ \E f \in Fds : PeerClosed(f) \/ Dispatch(f, "in", 0) \/ Dispatch(f, "out", 1)
         \/ JobDone
  PROVE  Core'
<1> USE ConstantsAssumption DEF Threads
<1>0. /\ pc \in [Threads -> MainLabels \cup WorkerLabels]
      /\ at \in [Threads -> FdOrNone]
      /\ sock \in [Fds -> Conns \cup {NoConn}]
  BY DEF TypeOK, ThreadType, NetType
<1>1. /\ UNCHANGED <<sock, peer, user_data, m_sockfd, m_timer, timer_lst, due>>
      /\ pc[Main] \in {"next", "spin"}
      /\ batch' \subseteq batch
  <2>1. CASE JobDone
    BY <2>1 DEF JobDone, netVars, timerVars
  <2>2. CASE \E f \in Fds : PeerClosed(f) \/ Dispatch(f, "in", 0) \/ Dispatch(f, "out", 1)
    BY <2>2 DEF PeerClosed, Dispatch, Handle, netVars, timerVars, slotVars
  <2> QED BY <2>1, <2>2
<1>2. Slots' /\ Owned'
  BY <1>1, SlotsStay DEF Core, Firing, SlotsHold, PeersStay
<1>3. TimersPoint' BY <1>1 DEF Core, TimersPoint
<1>4. CASE \E f \in Fds : PeerClosed(f) \/ Dispatch(f, "in", 0) \/ Dispatch(f, "out", 1)
  <2>1. PICK f \in Fds : PeerClosed(f) \/ Dispatch(f, "in", 0) \/ Dispatch(f, "out", 1)
    BY <1>4
  <2>a. /\ at'[Main] = f
        /\ Handle(f, "hup") \/ Handle(f, "in") \/ Handle(f, "out")
        /\ \/ pc'[Main] = "test" /\ after' = "next" /\ UNCHANGED dangling
           \/ pc'[Main] = "spin" /\ Adjust(m_timer[f])
    BY <1>0, <2>1 DEF PeerClosed, Dispatch, CallClose, Goto, timerVars
  <2>2. PICK k \in Kinds : <<f, k>> \in batch /\ batch' = batch \ {<<f, k>>}
    BY <2>a DEF Handle, Kinds
  <2>3. sock[f] # NoConn /\ \A j \in Kinds : <<f, j>> \in batch => j = k
    BY <2>2 DEF Core, EventsLive
  <2>4. pc[Main] = "next" BY <2>a DEF Handle
  <2>5. m_timer[f] \in timer_lst
    BY <2>3, <2>4 DEF Core, Slots, Slot, Firing
  <2>6. ~dangling' BY <2>a, <2>5 DEF Core, Adjust
  <2>7. MainOn'
    BY <1>1, <2>a, <2>3 DEF MainOn, Handling, CloseLabels, Failed
  <2>8. EventsLive'
    <3>1. ASSUME NEW g \in Fds, NEW j \in Kinds, <<g, j>> \in batch' PROVE g # f
      BY <2>2, <2>3, <3>1
    <3>2. ~InTick' BY <2>a DEF InTick, CloseLabels
    <3> QED BY <1>1, <2>a, <2>2, <3>1, <3>2 DEF Core, EventsLive
  <2> QED BY <1>2, <1>3, <2>6, <2>7, <2>8, MainAlone DEF Core
<1>5. CASE JobDone
  <2>1. /\ pc[Main] = "spin" /\ at'[Main] = at[Main]
        /\ UNCHANGED <<batch, dangling>>
        /\ \/ pc'[Main] = "test" /\ after' = "deltimer"
           \/ pc'[Main] = "next"
    BY <1>0, <1>5 DEF JobDone, CallClose, Goto, timerVars
  <2>2. at[Main] \in Fds /\ sock[at[Main]] # NoConn
    BY <2>1 DEF Core, MainOn, Handling
  <2>3. m_timer[at[Main]] \in timer_lst
    BY <2>1, <2>2 DEF Core, Slots, Slot, Firing
  <2>4. MainOn'
    BY <1>1, <2>1, <2>2, <2>3 DEF MainOn, Handling, CloseLabels, Failed
  <2>5. EventsLive'
    BY <1>1, <2>1 DEF Core, EventsLive, InTick, Handling, CloseLabels
  <2> QED BY <1>2, <1>3, <2>1, <2>4, <2>5, MainAlone DEF Core
<1> QED BY <1>4, <1>5

\* accept() gives a free descriptor a connection, a timer and a slot that agree
\* (web_server.cpp:231-252).
LEMMA CoreAccept ==
  ASSUME TypeOK, Core, NEW W \in SUBSET Fds, main(W), Accept PROVE Core'
<1> USE ConstantsAssumption DEF Threads
<1>0. /\ pc \in [Threads -> MainLabels \cup WorkerLabels]
      /\ at \in [Threads -> FdOrNone]
      /\ peer \in [Conns -> Peers]
      /\ sock \in [Fds -> Conns \cup {NoConn}]
      /\ m_sockfd \in [Fds -> FdOrNone]
      /\ m_timer \in [Fds -> Conns \cup {NoConn}]
      /\ user_data \in [Conns -> FdOrNone]
      /\ timer_lst \subseteq Conns /\ due \subseteq Conns
  BY DEF TypeOK, ThreadType, NetType, SlotType, TimerType, QueueType
<1>1. PICK c \in Conns, f \in FreeFds :
        /\ peer[c].state = "queued"
        /\ peer' = [peer EXCEPT ![c].state = "open"]
        /\ sock' = [sock EXCEPT ![f] = c]
        /\ user_data' = [user_data EXCEPT ![c] = f]
        /\ m_timer' = [m_timer EXCEPT ![f] = c]
        /\ timer_lst' = timer_lst \cup {c}
        /\ m_sockfd' = [m_sockfd EXCEPT ![f] = f]
        /\ at' = [at EXCEPT ![Main] = f]
  BY DEF Accept
<1>2. f \in Fds /\ sock[f] = NoConn BY DEF FreeFds
<1>3. /\ pc[Main] = "next" /\ pc'[Main] = "init" /\ at'[Main] = f
      /\ UNCHANGED <<due, after, dangling>> /\ batch' \subseteq batch
  BY <1>0, <1>1 DEF Accept, Handle, Goto
<1>4. /\ peer'[c].state = "open"
      /\ \A d \in Conns : d # c => peer'[d] = peer[d]
  BY <1>0, <1>1 DEF Peers
<1>5. Slots'
  <2>1. Slot(f)'
    BY <1>0, <1>1, <1>2, <1>4 DEF Slot
  <2>2. ASSUME NEW g \in Fds, g # f PROVE Slot(g)'
    <3>1. Slot(g) BY DEF Core, Slots
    <3>2. sock'[g] = sock[g] /\ m_sockfd'[g] = m_sockfd[g] /\ m_timer'[g] = m_timer[g]
      BY <1>0, <1>1, <1>2, <2>2
    <3>3. sock[g] # c /\ m_timer[g] # c
      BY <1>0, <1>1, <3>1 DEF Slot
    <3>4. \A d \in Conns : d # c => user_data'[d] = user_data[d]
      BY <1>0, <1>1
    <3> QED
      BY <1>0, <1>1, <1>3, <1>4, <3>1, <3>2, <3>3, <3>4 DEF Slot, Firing
  <2> QED BY <2>1, <2>2 DEF Slots
<1>6. Owned'
  BY <1>0, <1>1, <1>2, <1>4 DEF Core, Owned
<1>7. TimersPoint' BY <1>0, <1>1, <1>2, <1>3 DEF Core, TimersPoint
<1>8. MainOn'
  BY <1>0, <1>1, <1>2, <1>3 DEF MainOn, Handling, CloseLabels, Failed
<1>9. EventsLive'
  BY <1>0, <1>1, <1>2, <1>3 DEF Core, EventsLive, Handling, CloseLabels, InTick
<1> QED BY <1>3, <1>5, <1>6, <1>7, <1>8, <1>9, MainAlone DEF Core

\* The timer of a slot whose connection is closed, or whose close_conn is next,
\* goes (web_server.cpp:308, Timer_Linklist.h:126-143).
LEMMA CoreTimers ==
  ASSUME TypeOK, Core, NEW W \in SUBSET Fds, main(W), DelTimer \/ Tick PROVE Core'
<1> USE ConstantsAssumption DEF Threads
<1>0. /\ pc \in [Threads -> MainLabels \cup WorkerLabels]
      /\ at \in [Threads -> FdOrNone]
      /\ sock \in [Fds -> Conns \cup {NoConn}]
      /\ due \subseteq Conns
  BY DEF TypeOK, ThreadType, NetType, QueueType
<1>1. /\ UNCHANGED <<sock, peer, user_data, m_sockfd, m_timer, batch>>
      /\ timer_lst' \subseteq timer_lst /\ due' \subseteq due
  BY DEF DelTimer, Tick, netVars, slotVars, timerVars, mainVars
<1>2. Owned' /\ TimersPoint' BY <1>1 DEF Core, Owned, TimersPoint
<1>3. CASE DelTimer
  <2>1. /\ pc[Main] = "deltimer" /\ pc'[Main] = "next" /\ at' = at
        /\ timer_lst' = timer_lst \ {m_timer[at[Main]]}
        /\ dangling' = (dangling \/ m_timer[at[Main]] \notin timer_lst)
    BY <1>0, <1>3 DEF DelTimer, Goto
  <2>2. at[Main] \in Fds /\ sock[at[Main]] = NoConn /\ m_timer[at[Main]] \in timer_lst
    BY <2>1 DEF Core, MainOn, Failed, Handling
  <2>3. ASSUME NEW f \in Fds PROVE Slot(f)'
    <3>1. Slot(f) /\ Slot(at[Main]) BY <2>2 DEF Core, Slots
    <3>2. m_timer[at[Main]] # NoConn BY <2>2 DEF TypeOK, TimerType
    <3>3. user_data[m_timer[at[Main]]] = at[Main] BY <3>1, <3>2 DEF Slot
    <3>4. sock[f] # NoConn => sock[f] # m_timer[at[Main]]
      BY <2>2, <3>1, <3>3 DEF Slot
    <3> QED BY <1>0, <1>1, <2>1, <3>1, <3>4 DEF Slot, Firing
  <2>4. MainOn' BY <2>1 DEF MainOn, Handling, CloseLabels, Failed
  <2>5. EventsLive' BY <1>1, <2>1 DEF Core, EventsLive, Handling, CloseLabels, InTick
  <2> QED BY <1>2, <2>1, <2>2, <2>3, <2>4, <2>5, MainAlone DEF Core, Slots
<1>4. CASE Tick
  <2>1. PICK c \in due : timer_lst' = timer_lst \ {c} /\ CallClose(user_data[c], "tick")
    BY <1>4 DEF Tick
  <2>2. /\ pc[Main] = "tick" /\ pc'[Main] = "test" /\ after' = "tick"
        /\ at'[Main] = user_data[c] /\ UNCHANGED dangling
    BY <1>0, <1>4, <2>1 DEF Tick, CallClose, Goto
  <2>3. user_data[c] \in Fds BY DEF Core, TimersPoint
  <2>4. ASSUME NEW f \in Fds PROVE Slot(f)'
    <3>1. Slot(f) BY DEF Core, Slots
    <3> QED BY <1>0, <1>1, <2>1, <2>2, <3>1 DEF Slot, Firing
  <2>5. batch = {} BY <2>2 DEF Core, EventsLive, InTick
  <2>6. MainOn' BY <2>2, <2>3 DEF MainOn, Handling, CloseLabels, Failed
  <2>7. EventsLive' BY <1>1, <2>5 DEF EventsLive
  <2> QED BY <1>2, <2>2, <2>4, <2>6, <2>7, MainAlone DEF Core, Slots
<1> QED BY <1>3, <1>4

\* close_conn, run by main alone, closes the connection of its slot and nothing
\* else (http_conn.cpp:102-109).
LEMMA CoreClose ==
  ASSUME TypeOK, Core, NEW W \in SUBSET Fds, main(W), close_conn(Main) PROVE Core'
<1> USE ConstantsAssumption DEF Threads
<1>0. /\ pc \in [Threads -> MainLabels \cup WorkerLabels]
      /\ at \in [Threads -> FdOrNone]
      /\ peer \in [Conns -> Peers]
      /\ sock \in [Fds -> Conns \cup {NoConn}]
      /\ m_sockfd \in [Fds -> FdOrNone]
      /\ m_timer \in [Fds -> Conns \cup {NoConn}]
      /\ after \in {"next", "deltimer", "tick"}
  BY DEF TypeOK, ThreadType, NetType, SlotType, TimerType
<1>1. /\ pc[Main] \in CloseLabels
      /\ UNCHANGED <<at, batch, due, timer_lst, user_data, m_timer, dangling>>
  BY DEF close_conn, CloseTest, RemoveFd, ClearSockfd, LoadCount, StoreCount, CloseLabels,
         timerVars, mainVars
<1> DEFINE f == at[Main]
<1>2. f \in Fds /\ Slot(f) BY <1>1 DEF Core, MainOn, Handling, Slots
<1>3. TimersPoint' BY <1>1 DEF Core, TimersPoint
<1>4. ASSUME \/ pc'[Main] \in CloseLabels /\ after' = after
             \/ pc'[Main] = after,
             UNCHANGED sock
      PROVE  EventsLive'
  BY <1>0, <1>1, <1>4 DEF Core, EventsLive, Handling, CloseLabels, InTick
<1>5. CASE CloseTest(Main)
  <2>1. UNCHANGED <<sock, peer, m_sockfd>> /\ pc[Main] = "test"
    BY <1>5 DEF CloseTest, netVars, slotVars
  <2>2. CASE m_sockfd[f] # NoFd
    <3>1. pc'[Main] = "close" /\ after' = after
      BY <1>0, <1>5, <2>2 DEF CloseTest, Goto
    <3>2. sock[f] # NoConn BY <1>2, <2>1, <2>2 DEF Slot
    <3>3. Slots' /\ Owned'
      BY <1>1, <2>1, <3>1, SlotsStay DEF Core, Firing, SlotsHold, PeersStay
    <3>4. MainOn' BY <1>1, <1>2, <2>1, <3>1, <3>2
      DEF Core, MainOn, Handling, CloseLabels, Failed
    <3>5. EventsLive' BY <1>4, <2>1, <3>1 DEF CloseLabels
    <3> QED BY <1>1, <1>3, <3>3, <3>4, <3>5, MainAlone DEF Core
  <2>3. CASE m_sockfd[f] = NoFd
    <3>1. pc'[Main] = after /\ after' = "next"
      BY <1>0, <1>5, <2>3 DEF CloseTest, Goto, Return, Returned
    <3>2. sock[f] = NoConn BY <1>2, <2>3 DEF Slot, NoFd
    <3>3. Owned' BY <1>1, <2>1 DEF Core, Owned
    <3>4. ASSUME NEW g \in Fds PROVE Slot(g)'
      <4>1. Slot(g) BY DEF Core, Slots
      <4>2. sock[g] # NoConn => sock[g] \in timer_lst BY <3>2, <4>1 DEF Slot
      <4> QED BY <1>0, <1>1, <2>1, <4>1, <4>2 DEF Slot
    <3>5. MainOn'
      BY <1>0, <1>1, <1>2, <2>1, <3>1, <3>2 DEF Core, MainOn, Handling, CloseLabels, Failed
    <3>6. EventsLive' BY <1>4, <2>1, <3>1
    <3> QED BY <1>1, <1>3, <3>3, <3>4, <3>5, <3>6, MainAlone DEF Core, Slots
  <2> QED BY <2>2, <2>3
<1>6. CASE RemoveFd(Main)
  <2>1. pc[Main] = "close" /\ pc'[Main] = "clear" /\ UNCHANGED <<after, m_sockfd>>
    BY <1>0, <1>6 DEF RemoveFd, Goto, mainVars, slotVars
  <2>2. sock[f] # NoConn /\ m_sockfd[f] = f
    BY <1>2, <2>1 DEF Core, MainOn, Slot
  <2>3. f # NoFd BY <1>2 DEF NoFd
  <2>4. /\ sock' = [sock EXCEPT ![f] = NoConn]
        /\ peer' = [c \in Conns |-> IF c = sock[f] THEN Closed(c) ELSE peer[c]]
    BY <1>6, <2>2, <2>3 DEF RemoveFd
  <2>5. Closed(sock[f]).state = "closed" BY <1>0, <1>2, <2>2 DEF Closed, Peers
  <2>6. Slot(f)'
    BY <1>0, <1>1, <1>2, <2>1, <2>2, <2>4, <2>5 DEF Slot
  <2>7. ASSUME NEW g \in Fds, g # f PROVE Slot(g)'
    <3>1. Slot(g) BY DEF Core, Slots
    <3>2. sock'[g] = sock[g] BY <1>0, <1>2, <2>4, <2>7
    <3>3. sock[g] # NoConn => sock[g] # sock[f] BY <1>2, <2>2, <2>7, <3>1 DEF Slot
    <3>4. \A c \in Conns : peer'[c].state = IF c = sock[f] THEN "closed" ELSE peer[c].state
      BY <2>4, <2>5
    <3>5. sock[g] # NoConn => sock[g] \in timer_lst BY <2>7, <3>1 DEF Slot
    <3> QED BY <1>0, <1>1, <2>1, <2>7, <3>1, <3>2, <3>3, <3>4, <3>5 DEF Slot
  <2>8. Owned'
    <3> SUFFICES ASSUME NEW c \in Conns, peer'[c].state = "open"
                 PROVE  user_data'[c] \in Fds /\ sock'[user_data'[c]] = c
      BY DEF Owned
    <3>1. c # sock[f] /\ peer[c].state = "open" BY <2>4, <2>5
    <3>2. user_data[c] \in Fds /\ sock[user_data[c]] = c BY <3>1 DEF Core, Owned
    <3> QED BY <1>0, <1>1, <2>4, <3>1, <3>2
  <2>9. MainOn'
    BY <1>0, <1>1, <1>2, <2>1, <2>4 DEF Core, MainOn, Handling, CloseLabels, Failed
  <2>10. EventsLive'
    BY <1>0, <1>1, <1>2, <2>1, <2>4 DEF Core, EventsLive, Handling, CloseLabels, InTick
  <2> QED BY <1>1, <1>3, <2>6, <2>7, <2>8, <2>9, <2>10, MainAlone DEF Core, Slots
<1>7. CASE ClearSockfd(Main)
  <2>1. /\ pc[Main] = "clear" /\ pc'[Main] = "count" /\ UNCHANGED <<after, sock, peer>>
        /\ m_sockfd' = [m_sockfd EXCEPT ![f] = NoFd]
    BY <1>0, <1>7 DEF ClearSockfd, Goto, mainVars, netVars
  <2>2. sock[f] = NoConn BY <2>1 DEF Core, MainOn
  <2>3. ASSUME NEW g \in Fds PROVE Slot(g)'
    <3>1. Slot(g) BY DEF Core, Slots
    <3> QED BY <1>0, <1>1, <1>2, <2>1, <2>2, <3>1 DEF Slot, Firing
  <2>4. Owned' BY <1>1, <2>1 DEF Core, Owned
  <2>5. MainOn'
    BY <1>1, <1>2, <2>1, <2>2 DEF Core, MainOn, Handling, CloseLabels, Failed
  <2>6. EventsLive' BY <1>4, <2>1 DEF CloseLabels
  <2> QED BY <1>1, <1>3, <2>3, <2>4, <2>5, <2>6, MainAlone DEF Core, Slots
<1>8. CASE LoadCount(Main) \/ StoreCount(Main)
  <2>1. UNCHANGED <<sock, peer, m_sockfd>> /\ pc[Main] \in {"count", "uncount"}
    BY <1>8 DEF LoadCount, StoreCount, netVars, slotVars
  <2>2. \/ pc'[Main] = "uncount" /\ after' = after
        \/ pc'[Main] = after /\ after' = "next"
    BY <1>0, <1>8 DEF LoadCount, StoreCount, Goto, Return, Returned, mainVars
  <2>3. sock[f] = NoConn BY <2>1 DEF Core, MainOn
  <2>4. Slots' /\ Owned'
    BY <1>1, <2>1, SlotsStay DEF Core, Firing, SlotsHold, PeersStay
  <2>5. MainOn'
    BY <1>0, <1>1, <1>2, <2>1, <2>2, <2>3 DEF Core, MainOn, Handling, CloseLabels, Failed
  <2>6. EventsLive' BY <1>4, <2>1, <2>2 DEF CloseLabels
  <2> QED BY <1>1, <1>3, <2>4, <2>5, <2>6, MainAlone DEF Core
<1> QED BY <1>5, <1>6, <1>7, <1>8 DEF close_conn

\* Every step keeps slots, timers and events in agreement.
LEMMA CoreStep ==
  ASSUME ~EmptyFiles, TypeOK, WorkerSlot, Core, [Next]_vars PROVE Core'
<1>1. CASE UNCHANGED vars
  <2>1. SlotsHold /\ UNCHANGED <<timer_lst, due, dangling, after, batch>>
    BY <1>1 DEF vars, netVars, timerVars, mainVars, slotVars, SlotsHold, PeersStay
  <2> QED BY <1>1, <2>1, CoreStay DEF vars, Core, OnlyMainCloses
<1>2. ASSUME NEW W \in SUBSET Fds, main(W) PROVE Core'
  BY <1>2, CoreMoves, CoreCalls, CoreAccept, CoreTimers, CoreClose DEF main
<1> QED BY <1>1, <1>2, CoreOutside, CoreWorker DEF Next

\* Slots, descriptors, timers and events agree in every state.
LEMMA CoreKept ==
  ASSUME ~EmptyFiles PROVE Spec => [](TypeOK /\ WorkerSlot /\ Core)
<1>1. Init => TypeOK /\ WorkerSlot /\ Core BY InitTypes, CoreInit
<1>2. TypeOK /\ WorkerSlot /\ Core /\ [Next]_vars => (TypeOK /\ WorkerSlot /\ Core)'
  BY TypeStep, WorkerSlotStep, CoreStep
<1> QED BY <1>1, <1>2, PTL DEF Spec

\* Every open connection has a live timer that leads to its slot, so tick()
\* closes it in the end, for any number of connections and slots.
THEOREM TimerCoversKept == ASSUME ~EmptyFiles PROVE Spec => []TimerCovers
<1>1. TypeOK /\ Core => TimerCovers
  <2> SUFFICES ASSUME TypeOK, Core, NEW c \in Conns, peer[c].state = "open"
               PROVE  /\ \/ c \in timer_lst
                         \/ /\ at[Main] = user_data[c] /\ after = "tick"
                            /\ pc[Main] \in {"test", "close"}
                      /\ \E f \in Fds : sock[f] = c /\ m_sockfd[f] = f /\ user_data[c] = f
    BY DEF TimerCovers
  <2>1. user_data[c] \in Fds /\ sock[user_data[c]] = c BY DEF Core, Owned
  <2>2. Slot(user_data[c]) /\ c # NoConn BY <2>1, ConstantsAssumption DEF Core, Slots
  <2> QED BY <2>1, <2>2 DEF Slot, Firing
<1> QED BY <1>1, CoreKept, PTL

\* adjust_timer and del_timer are only given timers that are on the list.
THEOREM NoDanglingKept == ASSUME ~EmptyFiles PROVE Spec => []NoDanglingTimer
<1>1. Core => NoDanglingTimer BY DEF Core, NoDanglingTimer
<1> QED BY <1>1, CoreKept, PTL

-----------------------------------------------------------------------------
(* m_user_count.  Between Accept and InitConn it is one short, from removefd *)
(* to the store of m_user_count-- one ahead; its register then holds it.     *)

OpenConns == {c \in Conns : peer[c].state = "open"}

Ahead == IF pc[Main] \in {"clear", "count", "uncount"} THEN 1
         ELSE IF pc[Main] = "init" THEN -1 ELSE 0

CountInv ==
  /\ IsFiniteSet(OpenConns)
  /\ m_user_count = Cardinality(OpenConns) + Ahead
  /\ pc[Main] \in {"init", "uncount"} => tmp[Main] = m_user_count

\* No connection is open when the server starts, and m_user_count is 0.
LEMMA CountInit == Init => CountInv
<1> SUFFICES ASSUME Init PROVE CountInv OBVIOUS
<1>1. OpenConns = {} BY DEF Init, OpenConns
<1>2. pc[Main] = "epoll" BY DEF Init, Threads
<1> QED BY <1>1, <1>2, FS_EmptySet DEF Init, CountInv, Ahead

\* A step that opens and closes nothing, does not count and stays in its phase.
LEMMA CountStays ==
  ASSUME CountInv, PeersStay, Ahead' = Ahead, UNCHANGED countVars,
         pc'[Main] \in {"init", "uncount"} => pc[Main] \in {"init", "uncount"}
  PROVE  CountInv'
<1>1. OpenConns' = OpenConns BY DEF PeersStay, OpenConns
<1> QED BY <1>1 DEF CountInv, countVars

\* Main's steps count each connection it opens and each it closes once.
LEMMA CountMain ==
  ASSUME TypeOK, WorkerSlot, Core, CountInv, NEW W \in SUBSET Fds, main(W)
  PROVE  CountInv'
<1> USE ConstantsAssumption DEF Threads
<1>0. /\ pc \in [Threads -> MainLabels \cup WorkerLabels]
      /\ at \in [Threads -> FdOrNone]
      /\ peer \in [Conns -> Peers]
      /\ sock \in [Fds -> Conns \cup {NoConn}]
      /\ tmp \in [Threads -> Int]
      /\ after \in {"next", "deltimer", "tick"}
      /\ Cardinality(OpenConns) \in Nat
  BY FS_CardinalityType DEF TypeOK, ThreadType, NetType, CountType, CountInv
<1>1. CASE Accept
  <2>1. PICK c \in Conns : peer[c].state = "queued" /\ peer' = [peer EXCEPT ![c].state = "open"]
    BY <1>1 DEF Accept
  <2>2. OpenConns' = OpenConns \cup {c} /\ c \notin OpenConns
    BY <1>0, <2>1 DEF OpenConns, Peers
  <2>3. IsFiniteSet(OpenConns') /\ Cardinality(OpenConns') = Cardinality(OpenConns) + 1
    BY <2>2, FS_AddElement DEF CountInv
  <2>4. /\ pc[Main] = "next" /\ pc'[Main] = "init"
        /\ m_user_count' = m_user_count /\ tmp'[Main] = m_user_count
    BY <1>0, <1>1 DEF Accept, Handle, Goto
  <2> QED BY <1>0, <2>3, <2>4 DEF CountInv, Ahead
<1>2. CASE RemoveFd(Main)
  <2>1. pc[Main] = "close" /\ pc'[Main] = "clear" /\ UNCHANGED countVars
    BY <1>0, <1>2 DEF RemoveFd, Goto
  <2>2. at[Main] \in Fds /\ sock[at[Main]] # NoConn
    BY <2>1 DEF Core, MainOn, Handling, CloseLabels
  <2>3. m_sockfd[at[Main]] = at[Main] /\ peer[sock[at[Main]]].state = "open"
        /\ at[Main] # NoFd
    BY <2>2 DEF Core, Slots, Slot, NoFd
  <2>4. peer' = [c \in Conns |-> IF c = sock[at[Main]] THEN Closed(c) ELSE peer[c]]
    BY <1>2, <2>3 DEF RemoveFd
  <2>5. Closed(sock[at[Main]]).state = "closed" BY <1>0, <2>2 DEF Closed, Peers
  <2>6. OpenConns' = OpenConns \ {sock[at[Main]]} /\ sock[at[Main]] \in OpenConns
    <3>1. \A c \in Conns : peer'[c].state = IF c = sock[at[Main]] THEN "closed" ELSE peer[c].state
      BY <2>4, <2>5
    <3>2. sock[at[Main]] \in Conns BY <1>0, <2>2
    <3> QED BY <2>3, <3>1, <3>2 DEF OpenConns
  <2>7. IsFiniteSet(OpenConns') /\ Cardinality(OpenConns') = Cardinality(OpenConns) - 1
    <3>1. IsFiniteSet(OpenConns) BY DEF CountInv
    <3> QED BY <2>6, <3>1, FS_RemoveElement
  <2> QED BY <1>0, <2>1, <2>7 DEF CountInv, Ahead, countVars
<1>3. CASE ~Accept /\ ~RemoveFd(Main)
  <2>1. pc[Main] = "next" => pc'[Main] # "init"
    BY <1>0, <1>3
    DEF main, epoll_wait, AcceptError, AcceptBusy, InitConn, ReadSignal, PeerClosed,
        Dispatch, JobDone, DelTimer, EndBatch, Tick, EndTick, CallClose, close_conn,
        CloseTest, ClearSockfd, LoadCount, StoreCount, Goto, Return
  <2>2. pc[Main] = "close" => pc'[Main] # "clear"
    BY <1>0, <1>3
    DEF main, epoll_wait, AcceptError, AcceptBusy, InitConn, ReadSignal, PeerClosed, Handle,
        Dispatch, JobDone, DelTimer, EndBatch, Tick, EndTick, CallClose, close_conn,
        CloseTest, ClearSockfd, LoadCount, StoreCount, Goto, Return
  <2>3. \A t \in Threads : pc[t] = "close" => pc'[t] # "clear"
    BY <2>2, MainAlone
  <2>4. PeersStay BY <2>1, <2>3, PeersStep DEF Next
  <2>5. CASE InitConn
    <3>1. /\ pc[Main] = "init" /\ pc'[Main] = "next" /\ m_user_count' = tmp[Main] + 1
      BY <1>0, <2>5 DEF InitConn, Goto
    <3>2. OpenConns' = OpenConns BY <2>4 DEF PeersStay, OpenConns
    <3> QED BY <1>0, <3>1, <3>2 DEF CountInv, Ahead
  <2>6. CASE LoadCount(Main)
    <3>1. /\ pc[Main] = "count" /\ pc'[Main] = "uncount"
          /\ m_user_count' = m_user_count /\ tmp'[Main] = m_user_count
      BY <1>0, <2>6 DEF LoadCount, Goto
    <3>2. OpenConns' = OpenConns BY <2>4 DEF PeersStay, OpenConns
    <3> QED BY <1>0, <3>1, <3>2 DEF CountInv, Ahead
  <2>7. CASE StoreCount(Main)
    <3>1. /\ pc[Main] = "uncount" /\ pc'[Main] \in {"next", "deltimer", "tick"}
          /\ m_user_count' = tmp[Main] - 1
      BY <1>0, <2>7 DEF StoreCount, Goto, Return
    <3>2. OpenConns' = OpenConns BY <2>4 DEF PeersStay, OpenConns
    <3> QED BY <1>0, <3>1, <3>2 DEF CountInv, Ahead
  <2>8. CASE CloseTest(Main) \/ ClearSockfd(Main)
    <3>1. /\ UNCHANGED countVars
          /\ \/ pc[Main] = "test" /\ pc'[Main] \in {"close", "next", "deltimer", "tick"}
             \/ pc[Main] = "clear" /\ pc'[Main] = "count"
      BY <1>0, <2>8 DEF CloseTest, ClearSockfd, Goto, Return
    <3> QED BY <2>4, <3>1, CountStays DEF Ahead
  <2>9. CASE ~InitConn /\ ~close_conn(Main)
    <3>1. /\ UNCHANGED countVars
          /\ pc[Main] \in {"epoll", "next", "spin", "deltimer", "tick"}
          /\ pc'[Main] \in {"epoll", "next", "test", "spin", "tick"}
      <4>1. CASE epoll_wait(W) \/ AcceptError \/ AcceptBusy \/ ReadSignal
        BY <1>0, <4>1 DEF epoll_wait, AcceptError, AcceptBusy, ReadSignal, Handle, Goto
      <4>2. CASE \E f \in Fds : PeerClosed(f) \/ Dispatch(f, "in", 0) \/ Dispatch(f, "out", 1)
        BY <1>0, <4>2 DEF PeerClosed, Dispatch, CallClose, Handle, Goto
      <4>3. CASE JobDone \/ DelTimer \/ EndBatch \/ Tick \/ EndTick
        BY <1>0, <4>3 DEF JobDone, DelTimer, EndBatch, Tick, EndTick, CallClose, Goto
      <4> QED BY <1>3, <2>9, <4>1, <4>2, <4>3 DEF main
    <3> QED BY <2>4, <3>1, CountStays DEF Ahead
  <2> QED BY <1>3, <2>5, <2>6, <2>7, <2>8, <2>9 DEF close_conn
<1> QED BY <1>1, <1>2, <1>3

\* Every step keeps the count.
LEMMA CountStep ==
  ASSUME ~EmptyFiles, TypeOK, WorkerSlot, Core, CountInv, [Next]_vars
  PROVE  CountInv'
<1> USE ConstantsAssumption DEF Threads
<1>0. /\ pc \in [Threads -> MainLabels \cup WorkerLabels]
      /\ OnlyMainCloses /\ OnlyMainCloses'
  BY CoreStep DEF TypeOK, ThreadType, Core
<1>1. ASSUME pc'[Main] = pc[Main], UNCHANGED countVars PROVE CountInv'
  <2>1. \A t \in Threads : pc[t] = "close" => pc'[t] # "clear"
    BY <1>0, <1>1 DEF OnlyMainCloses, CloseLabels
  <2>2. PeersStay BY <1>1, <2>1, PeersStep
  <2> QED BY <1>1, <2>2, CountStays DEF Ahead
<1>2. CASE UNCHANGED vars BY <1>1, <1>2 DEF vars
<1>3. CASE (\E c \in Conns : Connect(c) \/ Send(c) \/ HangUp(c)) \/ Clock \/ sig_handler
  BY <1>1, <1>3 DEF Connect, Send, HangUp, Clock, sig_handler
<1>4. ASSUME NEW w \in Workers, run(w) PROVE CountInv'
  <2>1. ~close_conn(w)
    BY <1>0 DEF OnlyMainCloses, close_conn, CloseTest, RemoveFd, ClearSockfd, LoadCount,
                StoreCount, CloseLabels
  <2>2. pc'[Main] = pc[Main] /\ UNCHANGED countVars
    <3>1. CASE Take(w) \/ SetTimerFlag(w) \/ NeedMore(w) \/ Parsed(w)
      BY <1>0, <3>1 DEF Take, SetTimerFlag, NeedMore, Parsed, Finish, Goto
    <3>2. CASE BuildReply(w) \/ RefuseReply(w) \/ RearmSocket(w) \/ Read(w)
      BY <1>0, <3>2 DEF BuildReply, RefuseReply, RearmSocket, Read, Finish, Goto
    <3>3. CASE WriteNothing(w) \/ WritePart(w) \/ WriteAll(w) \/ WriteError(w)
      BY <1>0, <3>3
      DEF WriteNothing, WritePart, WriteAll, WriteError, Write, NextRequest, Finish, Goto
    <3> QED BY <1>4, <2>1, <3>1, <3>2, <3>3 DEF run
  <2> QED BY <1>1, <2>2
<1> QED BY <1>2, <1>3, <1>4, CountMain DEF Next

\* m_user_count is the number of open connections whenever main() is between
\* two events, so the test against MAX_FD counts right.
THEOREM UserCountKept == ASSUME ~EmptyFiles PROVE Spec => []UserCountExact
<1>1. Init => TypeOK /\ WorkerSlot /\ Core /\ CountInv
  BY InitTypes, CoreInit, CountInit
<1>2. TypeOK /\ WorkerSlot /\ Core /\ CountInv /\ [Next]_vars
        => (TypeOK /\ WorkerSlot /\ Core /\ CountInv)'
  BY TypeStep, WorkerSlotStep, CoreStep, CountStep
<1>3. CountInv => UserCountExact
  <2> SUFFICES ASSUME CountInv, pc[Main] \in {"epoll", "next", "spin"}
               PROVE  m_user_count = Cardinality(OpenConns)
    BY DEF UserCountExact, OpenConns
  <2>1. Cardinality(OpenConns) \in Nat BY FS_CardinalityType DEF CountInv
  <2> QED BY <2>1 DEF CountInv, Ahead
<1> QED BY <1>1, <1>2, <1>3, PTL DEF Spec

-----------------------------------------------------------------------------
(* One-shot registrations.  Whoever switches one off or takes its event has *)
(* the slot in hand until it is on again, closed, or known to have failed.  *)

WakeInv ==
  /\ pc[Main] = "epoll" => batch = {}
  /\ pc[Main] = "init" => armed[at[Main]] # "off"
  /\ \A w \in Workers : pc[w] = "idle" => at[w] = NoFd
  /\ \A f \in Fds : sock[f] # NoConn /\ armed[f] = "off" =>
       \/ \E k \in Kinds : <<f, k>> \in batch
       \/ at[Main] = f /\ pc[Main] \in Handling /\ ~(pc[Main] = "spin" /\ improv[f] = 1)
       \/ \E w \in Workers : at[w] = f
       \/ timer_flag[f] = 1

\* The server starts with no registration to lose.
LEMMA WakeInit == Init => WakeInv
<1> SUFFICES ASSUME Init PROVE WakeInv OBVIOUS
<1>1. pc = [t \in Threads |-> IF t = Main THEN "epoll" ELSE "idle"] /\ batch = {}
  BY DEF Init
<1>2. \A w \in Workers : at[w] = NoFd BY DEF Init, Threads
<1>3. \A f \in Fds : sock[f] = NoConn BY DEF Init
<1> QED BY <1>1, <1>2, <1>3, ConstantsAssumption DEF WakeInv, Threads

\* A step that leaves threads, sockets, registrations and flags alone.
LEMMA WakeStay ==
  ASSUME WakeInv, UNCHANGED <<pc, at, batch, sock, armed, improv, timer_flag>>
  PROVE  WakeInv'
  BY DEF WakeInv

\* A worker either keeps its slot, or renews the registration, or notes that
\* the job has failed (threadpool.h:99-134, http_conn.cpp:84-89).
LEMMA WakeWorker ==
  ASSUME ~EmptyFiles, TypeOK, WorkerSlot, Core, Handshake, WakeInv, NEW w \in Workers, run(w)
  PROVE  WakeInv'
<1> USE ConstantsAssumption DEF Threads
<1>0. /\ pc \in [Threads -> MainLabels \cup WorkerLabels]
      /\ at \in [Threads -> FdOrNone]
      /\ sock \in [Fds -> Conns \cup {NoConn}]
      /\ armed \in [Fds -> {"off", "in", "out"}]
      /\ improv \in [Fds -> {0, 1}] /\ timer_flag \in [Fds -> {0, 1}]
      /\ job[w].ev \in {"in", "out"}
      /\ pc[w] # "idle" => at[w] \in Fds
  BY DEF TypeOK, ThreadType, NetType, SlotType, WorkerSlot, Jobs
<1>1. ~close_conn(w) /\ ~RefuseReply(w)
  BY DEF Core, OnlyMainCloses, close_conn, CloseTest, RemoveFd, ClearSockfd, LoadCount,
         StoreCount, CloseLabels, RefuseReply
<1>2. \A f \in Fds : sock[f] # NoConn => Usable(f)
  BY DEF Core, Slots, Slot, Usable, NoFd
<1> DEFINE f == at[w]
<1>3. /\ UNCHANGED <<sock, batch>>
      /\ pc'[Main] = pc[Main] /\ at'[Main] = at[Main]
      /\ \A v \in Workers : v # w => pc'[v] = pc[v] /\ at'[v] = at[v]
      /\ pc'[w] = "idle" <=> at'[w] = NoFd
  <2>1. CASE Take(w)
    <3>1. Head(workqueue) \in Fds BY <2>1 DEF Take, TypeOK, QueueType
    <3> QED BY <1>0, <2>1, <3>1 DEF Take, Goto, netVars, mainVars, NoFd
  <2>2. CASE SetTimerFlag(w) \/ NeedMore(w) \/ Parsed(w) \/ BuildReply(w)
    BY <1>0, <2>2
    DEF SetTimerFlag, NeedMore, Parsed, BuildReply, Finish, Goto, netVars, mainVars, NoFd
  <2>3. CASE RearmSocket(w) \/ Read(w)
    BY <1>0, <2>3 DEF RearmSocket, Read, Finish, Goto, mainVars, NoFd
  <2>4. CASE WriteNothing(w) \/ WritePart(w) \/ WriteAll(w) \/ WriteError(w)
    BY <1>0, <2>4
    DEF WriteNothing, WritePart, WriteAll, WriteError, Write, NextRequest, Finish, Goto,
        mainVars, NoFd
  <2> QED BY <1>1, <2>1, <2>2, <2>3, <2>4 DEF run
<1>4. \A g \in Fds : g # f => /\ armed'[g] = armed[g] /\ improv'[g] = improv[g]
                              /\ timer_flag'[g] = timer_flag[g]
  <2>1. CASE Take(w) \/ NeedMore(w) \/ Parsed(w) \/ BuildReply(w)
    BY <2>1 DEF Take, NeedMore, Parsed, BuildReply, netVars, slotVars
  <2>2. CASE SetTimerFlag(w) \/ RearmSocket(w) \/ Read(w)
    BY <1>0, <2>2 DEF SetTimerFlag, RearmSocket, Read, modfd, netVars, slotVars
  <2>3. CASE WriteNothing(w) \/ WritePart(w) \/ WriteAll(w) \/ WriteError(w)
    BY <1>0, <2>3
    DEF WriteNothing, WritePart, WriteAll, WriteError, Write, NextRequest, modfd, slotVars
  <2> QED BY <1>1, <2>1, <2>2, <2>3 DEF run
<1>5. armed'[f] = armed[f] \/ armed'[f] # "off"
  BY <1>0, <1>1
  DEF run, Take, SetTimerFlag, NeedMore, Parsed, BuildReply, RearmSocket, Read, Write,
      WriteNothing, WritePart, WriteAll, WriteError, NextRequest, modfd, netVars
<1>6. CASE Take(w)
  <2>1. UNCHANGED <<armed, improv, timer_flag>> /\ pc[w] = "idle" /\ f = NoFd
    BY <1>6 DEF Take, netVars, slotVars, WakeInv
  <2>2. NoFd \notin Fds BY DEF NoFd
  <2> QED BY <1>3, <2>1, <2>2 DEF WakeInv
<1>7. CASE ~Take(w)
  <2>1. f \in Fds
    BY <1>0, <1>1, <1>7
    DEF run, SetTimerFlag, NeedMore, Parsed, BuildReply, RearmSocket, Read, Write,
        WriteNothing, WritePart, WriteAll, WriteError
  <2>2. sock[f] # NoConn => armed'[f] # "off" \/ at'[w] = f \/ timer_flag'[f] = 1
    <3>1. CASE SetTimerFlag(w) BY <1>0, <2>1, <3>1 DEF SetTimerFlag
    <3>2. CASE NeedMore(w) \/ Parsed(w) \/ BuildReply(w) \/ Read(w) \/ WriteError(w)
      BY <3>2 DEF NeedMore, Parsed, BuildReply, Read, WriteError
    <3>3. CASE RearmSocket(w)
      BY <1>0, <1>2, <2>1, <3>3 DEF RearmSocket, modfd
    <3>4. CASE WriteNothing(w) \/ WritePart(w) \/ WriteAll(w)
      BY <1>0, <1>2, <2>1, <3>4 DEF WriteNothing, WritePart, WriteAll, NextRequest, modfd
    <3> QED BY <1>1, <1>7, <3>1, <3>2, <3>3, <3>4 DEF run
  <2>3. pc[Main] = "init" => armed'[at[Main]] # "off"
    BY <1>4, <1>5 DEF WakeInv, Core, MainOn
  <2>4. ASSUME NEW g \in Fds, sock'[g] # NoConn, armed'[g] = "off"
        PROVE  \/ \E k \in Kinds : <<g, k>> \in batch'
               \/ /\ at'[Main] = g /\ pc'[Main] \in Handling
                  /\ ~(pc'[Main] = "spin" /\ improv'[g] = 1)
               \/ \E v \in Workers : at'[v] = g
               \/ timer_flag'[g] = 1
    <3>1. CASE g = f BY <1>3, <2>2, <2>4, <3>1
    <3>2. CASE g # f BY <1>3, <1>4, <2>4, <3>2 DEF WakeInv
    <3> QED BY <3>1, <3>2
  <2> QED BY <1>3, <2>3, <2>4 DEF WakeInv
<1> QED BY <1>6, <1>7

\* Main takes an event only to work on its slot, and starts the job with improv
\* at 0 (web_server.cpp:282-316).
LEMMA WakeMain ==
  ASSUME TypeOK, Core, Handshake, WakeInv, NEW W \in SUBSET Fds, main(W)
  PROVE  WakeInv'
<1> USE ConstantsAssumption DEF Threads
<1>0. /\ pc \in [Threads -> MainLabels \cup WorkerLabels]
      /\ at \in [Threads -> FdOrNone]
      /\ sock \in [Fds -> Conns \cup {NoConn}]
      /\ armed \in [Fds -> {"off", "in", "out"}]
      /\ improv \in [Fds -> {0, 1}] /\ timer_flag \in [Fds -> {0, 1}]
      /\ after \in {"next", "deltimer", "tick"}
      /\ NoFd \notin Fds
  BY DEF TypeOK, ThreadType, NetType, SlotType, NoFd
<1>1. \A w \in Workers : pc'[w] = pc[w] /\ at'[w] = at[w] BY MainAlone
<1>2. CASE epoll_wait(W)
  <2>1. /\ pc[Main] = "epoll" /\ pc'[Main] = "next" /\ batch' = ReadyEvents(W)
        /\ armed' = [f \in Fds |-> IF \E e \in batch' : e[1] = f THEN "off" ELSE armed[f]]
        /\ UNCHANGED <<sock, at, timer_flag>>
    BY <1>0, <1>2 DEF epoll_wait, Goto, slotVars
  <2>2. ASSUME NEW f \in Fds, NEW e \in batch', e[1] = f
        PROVE  \E k \in Kinds : <<f, k>> \in batch'
    BY <1>0, <2>1, <2>2 DEF ReadyEvents, Kinds
  <2>3. ASSUME NEW f \in Fds, sock'[f] # NoConn, armed'[f] = "off"
        PROVE  \/ \E k \in Kinds : <<f, k>> \in batch'
               \/ \E w \in Workers : at'[w] = f
               \/ timer_flag'[f] = 1
    BY <1>1, <2>1, <2>2, <2>3 DEF WakeInv, Handling, CloseLabels
  <2> QED BY <1>1, <2>1, <2>3 DEF WakeInv
<1>3. CASE AcceptError \/ AcceptBusy \/ ReadSignal
  <2>1. /\ UNCHANGED <<pc, at, sock, armed, improv, timer_flag>> /\ pc[Main] = "next"
        /\ \A f \in Fds, k \in Kinds : <<f, k>> \in batch => <<f, k>> \in batch'
    BY <1>0, <1>3 DEF AcceptError, AcceptBusy, ReadSignal, Handle, netVars, slotVars
  <2> QED BY <2>1 DEF WakeInv
<1>4. CASE Accept
  <2>1. PICK c \in Conns, f \in Fds :
          /\ sock' = [sock EXCEPT ![f] = c] /\ armed' = [armed EXCEPT ![f] = "in"]
          /\ at' = [at EXCEPT ![Main] = f]
    BY <1>4 DEF Accept, FreeFds
  <2>2. /\ pc[Main] = "next" /\ pc'[Main] = "init" /\ at'[Main] = f
        /\ UNCHANGED timer_flag
        /\ \A g \in Fds, k \in Kinds : <<g, k>> \in batch => <<g, k>> \in batch'
    BY <1>0, <1>4, <2>1 DEF Accept, Handle, Goto
  <2> QED BY <1>0, <1>1, <2>1, <2>2 DEF WakeInv, Handling, CloseLabels
<1>5. CASE InitConn
  <2>1. /\ pc[Main] = "init" /\ pc'[Main] = "next" /\ at' = at
        /\ UNCHANGED <<sock, armed, batch>>
        /\ timer_flag' = [timer_flag EXCEPT ![at[Main]] = 0]
    BY <1>0, <1>5 DEF InitConn, Goto, netVars, mainVars
  <2> QED BY <1>0, <1>1, <2>1 DEF WakeInv, Handling, CloseLabels
<1>6. CASE \E f \in Fds : PeerClosed(f) \/ Dispatch(f, "in", 0) \/ Dispatch(f, "out", 1)
  <2>1. PICK f \in Fds : PeerClosed(f) \/ Dispatch(f, "in", 0) \/ Dispatch(f, "out", 1)
    BY <1>6
  <2>2. /\ pc[Main] = "next" /\ pc'[Main] \in {"test", "spin"} /\ at'[Main] = f
        /\ UNCHANGED <<sock, armed, improv, timer_flag>>
        /\ \A g \in Fds, k \in Kinds : g # f /\ <<g, k>> \in batch => <<g, k>> \in batch'
    BY <1>0, <2>1 DEF PeerClosed, Dispatch, CallClose, Handle, Goto, netVars, slotVars
  <2>3. improv'[f] = 0
    BY <2>2, Rest DEF CloseLabels
  <2> QED BY <1>0, <1>1, <2>2, <2>3 DEF WakeInv, Handling, CloseLabels
<1>7. CASE JobDone
  <2>1. /\ pc[Main] = "spin" /\ improv[at[Main]] = 1 /\ at'[Main] = at[Main]
        /\ UNCHANGED <<sock, armed, batch, timer_flag>>
        /\ pc'[Main] = "test" \/ pc'[Main] = "next"
    BY <1>0, <1>7 DEF JobDone, CallClose, Goto, netVars
  <2> QED BY <1>1, <2>1 DEF WakeInv, Handling, CloseLabels
<1>8. CASE DelTimer
  <2>1. /\ pc[Main] = "deltimer" /\ pc'[Main] = "next" /\ at' = at
        /\ UNCHANGED <<sock, armed, batch>>
        /\ timer_flag' = [timer_flag EXCEPT ![at[Main]] = 0]
    BY <1>0, <1>8 DEF DelTimer, Goto, netVars, mainVars
  <2>2. at[Main] \in Fds /\ sock[at[Main]] = NoConn BY <2>1 DEF Core, MainOn, Handling
  <2> QED BY <1>0, <1>1, <2>1, <2>2 DEF WakeInv, Handling, CloseLabels
<1>9. CASE EndBatch \/ Tick \/ EndTick
  <2>1. /\ pc[Main] \in {"next", "tick"} /\ pc'[Main] \in {"epoll", "tick", "test"}
        /\ UNCHANGED <<sock, armed, batch, timer_flag>>
        /\ pc'[Main] = "epoll" => batch = {} \/ pc[Main] = "tick"
    BY <1>0, <1>9
    DEF EndBatch, Tick, EndTick, CallClose, Goto, netVars, slotVars, mainVars
  <2>2. pc'[Main] = "epoll" => batch = {} BY <2>1 DEF Core, EventsLive, InTick
  <2> QED BY <1>1, <2>1, <2>2 DEF WakeInv, Handling, CloseLabels
<1>10. CASE close_conn(Main)
  <2>1. /\ pc[Main] \in CloseLabels /\ UNCHANGED <<at, batch, timer_flag>>
        /\ pc'[Main] \in CloseLabels \cup {"next", "deltimer", "tick"}
    BY <1>0, <1>10
    DEF close_conn, CloseTest, RemoveFd, ClearSockfd, LoadCount, StoreCount, Goto, Return,
        CloseLabels, slotVars, mainVars
  <2>2. at[Main] \in Fds /\ Slot(at[Main]) BY <2>1 DEF Core, MainOn, Handling, Slots
  <2>3. \A f \in Fds : f # at[Main] => sock'[f] = sock[f] /\ armed'[f] = armed[f]
    BY <1>0, <1>10, <2>2
    DEF close_conn, CloseTest, RemoveFd, ClearSockfd, LoadCount, StoreCount, Slot, netVars
  <2>4. pc'[Main] \in {"next", "deltimer", "tick"} => sock'[at[Main]] = NoConn
    <3>1. CASE CloseTest(Main)
      BY <1>0, <2>2, <3>1 DEF CloseTest, Goto, netVars, Slot, NoFd
    <3>2. CASE StoreCount(Main)
      BY <3>2 DEF StoreCount, netVars, Core, MainOn
    <3>3. CASE RemoveFd(Main) \/ ClearSockfd(Main) \/ LoadCount(Main)
      BY <1>0, <3>3 DEF RemoveFd, ClearSockfd, LoadCount, Goto
    <3> QED BY <1>10, <3>1, <3>2, <3>3 DEF close_conn
  <2>5. ASSUME NEW f \in Fds, sock'[f] # NoConn, armed'[f] = "off"
        PROVE  \/ \E k \in Kinds : <<f, k>> \in batch'
               \/ at'[Main] = f /\ pc'[Main] \in CloseLabels
               \/ \E w \in Workers : at'[w] = f
               \/ timer_flag'[f] = 1
    <3>1. CASE f = at[Main] BY <2>1, <2>4, <2>5, <3>1
    <3>2. CASE f # at[Main] BY <1>1, <2>1, <2>3, <2>5, <3>2 DEF WakeInv
    <3> QED BY <3>1, <3>2
  <2> QED BY <1>1, <2>1, <2>5 DEF WakeInv, Handling, CloseLabels
<1> QED BY <1>2, <1>3, <1>4, <1>5, <1>6, <1>7, <1>8, <1>9, <1>10 DEF main

\* Every step keeps track of the registrations that are off.
LEMMA WakeStep ==
  ASSUME ~EmptyFiles, TypeOK, WorkerSlot, Core, Handshake, WakeInv, [Next]_vars
  PROVE  WakeInv'
<1>1. CASE (\E c \in Conns : Connect(c) \/ Send(c) \/ HangUp(c)) \/ Clock \/ sig_handler
  BY <1>1, WakeStay DEF Connect, Send, HangUp, Clock, sig_handler, netVars, mainVars, slotVars
<1>2. CASE UNCHANGED vars
  BY <1>2, WakeStay DEF vars, netVars, mainVars, slotVars
<1> QED BY <1>1, <1>2, WakeMain, WakeWorker DEF Next

\* No one-shot registration is lost: a connection epoll does not watch has an
\* event, a job, or a failed job behind it.
THEOREM RegistrationsKept == ASSUME ~EmptyFiles PROVE Spec => []NoLostWakeup
<1>1. Init => TypeOK /\ WorkerSlot /\ Core /\ Handshake /\ WakeInv
  BY InitTypes, CoreInit, HandshakeInit, WakeInit
<1>2. TypeOK /\ WorkerSlot /\ Core /\ Handshake /\ WakeInv /\ [Next]_vars
        => (TypeOK /\ WorkerSlot /\ Core /\ Handshake /\ WakeInv)'
  BY TypeStep, WorkerSlotStep, CoreStep, HandshakeStep, WakeStep
<1>3. WakeInv => NoLostWakeup
  <2> SUFFICES ASSUME WakeInv, NEW f \in Fds, sock[f] # NoConn, armed[f] = "off"
               PROVE  \/ \E e \in batch : e[1] = f
                      \/ at[Main] = f /\ pc[Main] \notin {"epoll", "next", "tick"}
                      \/ \E w \in Workers : at[w] = f
                      \/ timer_flag[f] = 1
    BY DEF NoLostWakeup
  <2>1. (\E k \in Kinds : <<f, k>> \in batch) => \E e \in batch : e[1] = f OBVIOUS
  <2> QED BY <2>1 DEF WakeInv, Handling, CloseLabels
<1> QED BY <1>1, <1>2, <1>3, PTL DEF Spec

-----------------------------------------------------------------------------
(***************************************************************************)
(* One worker at a slot and replies to the right client, when no connection*)
(* is accepted on the number of a slot a worker is still at (~ReuseBusy).  *)
(* Replies need not be buildable: workers may close too.                   *)
(***************************************************************************)

(* Replies.  Whose bytes a slot or a job holds can only be the connection  *)
(* now open on its descriptor, because nothing is accepted there while a   *)
(* worker is at the slot and init() empties it before any other is.        *)

Own(f) == req[f].buf \cup req[f].resp \subseteq {sock[f]}

OwnInv ==
  /\ pc[Main] = "init" => at[Main] \in Fds /\ \A w \in Workers : at[w] # at[Main]
  /\ \A f \in Fds : sock[f] # NoConn => Own(f) \/ (pc[Main] = "init" /\ at[Main] = f)
  /\ \A w \in Workers : pc[w] = "build" /\ sock[at[w]] # NoConn =>
                          job[w].src \subseteq {sock[at[w]]}
  /\ RepliesBelong

\* The server starts with empty slots and no reply sent.
LEMMA OwnInit == Init => OwnInv
<1> SUFFICES ASSUME Init PROVE OwnInv OBVIOUS
<1>1. pc = [t \in Threads |-> IF t = Main THEN "epoll" ELSE "idle"] BY DEF Init
<1>2. \A c \in Conns : peer[c].got = {} BY DEF Init
<1>3. \A f \in Fds : sock[f] = NoConn BY DEF Init
<1> QED BY <1>1, <1>2, <1>3, ConstantsAssumption DEF OwnInv, RepliesBelong, Threads

\* Who is at a slot, what it holds and what was sent stay; descriptors may close.
LEMMA OwnStay ==
  ASSUME TypeOK, OwnInv, UNCHANGED <<req, job>>,
         \A f \in Fds : sock'[f] = sock[f] \/ sock'[f] = NoConn,
         \A c \in Conns : peer'[c].got = peer[c].got,
         pc[Main] = "init" <=> pc'[Main] = "init",
         pc[Main] = "init" => at'[Main] = at[Main],
         \A w \in Workers : at'[w] = at[w] \/ (at'[w] = NoFd /\ pc'[w] # "build"),
         \A w \in Workers : pc'[w] = "build" => pc[w] = "build" /\ at[w] \in Fds
  PROVE  OwnInv'
<1>1. NoFd \notin Fds BY ConstantsAssumption DEF NoFd
<1>2. RepliesBelong' BY DEF OwnInv, RepliesBelong
<1>3. ASSUME NEW w \in Workers, pc'[w] = "build", sock'[at'[w]] # NoConn
      PROVE  job'[w].src \subseteq {sock'[at'[w]]}
  BY <1>3 DEF OwnInv
<1>4. ASSUME NEW f \in Fds, sock'[f] # NoConn
      PROVE  Own(f)' \/ (pc'[Main] = "init" /\ at'[Main] = f)
  BY <1>4 DEF OwnInv, Own
<1> QED BY <1>1, <1>2, <1>3, <1>4 DEF OwnInv

\* removefd, by whichever thread, only closes; close_conn moves no request.
LEMMA OwnClose ==
  ASSUME TypeOK, WorkerSlot, OwnInv, NEW t \in Threads, close_conn(t) PROVE OwnInv'
<1> USE ConstantsAssumption DEF Threads
<1>0. /\ pc \in [Threads -> MainLabels \cup WorkerLabels]
      /\ peer \in [Conns -> Peers]
      /\ sock \in [Fds -> Conns \cup {NoConn}]
      /\ after \in {"next", "deltimer", "tick"}
      /\ \A w \in Workers : pc[w] # "idle" => at[w] \in Fds
  BY DEF TypeOK, ThreadType, NetType, WorkerSlot
<1>1. /\ UNCHANGED <<at, req, job>>
      /\ pc[t] \in CloseLabels
      /\ pc' = [pc EXCEPT ![t] = pc'[t]]
      /\ pc'[t] \in CloseLabels \cup {"next", "deltimer", "tick", "rearm"}
  BY <1>0
  DEF close_conn, CloseTest, RemoveFd, ClearSockfd, LoadCount, StoreCount, Goto, Return,
      CloseLabels, slotVars
<1>2. /\ \A f \in Fds : sock'[f] = sock[f] \/ sock'[f] = NoConn
      /\ \A c \in Conns : peer'[c].got = peer[c].got
  <2>1. CASE RemoveFd(t)
    <3>1. PICK fd \in {at[t], m_sockfd[at[t]]} :
            IF fd = NoFd THEN UNCHANGED <<sock, peer>>
            ELSE /\ sock' = [sock EXCEPT ![fd] = NoConn]
                 /\ peer' = [c \in Conns |-> IF c = sock[fd] THEN Closed(c) ELSE peer[c]]
      BY <2>1 DEF RemoveFd
    <3>2. \A c \in Conns : Closed(c).got = peer[c].got BY <1>0 DEF Closed, Peers
    <3> QED BY <1>0, <3>1, <3>2
  <2>2. CASE ~RemoveFd(t)
    BY <2>2 DEF close_conn, CloseTest, ClearSockfd, LoadCount, StoreCount, netVars
  <2> QED BY <2>1, <2>2
<1> QED BY <1>0, <1>1, <1>2, OwnStay DEF CloseLabels

\* Main moves, accepts on a slot nobody is at, or empties the slot it accepted on
\* (web_server.cpp:220-350, http_conn.cpp:111-152).
LEMMA OwnMain ==
  ASSUME ~ReuseBusy, TypeOK, WorkerSlot, OwnInv, NEW W \in SUBSET Fds, main(W)
  PROVE  OwnInv'
<1> USE ConstantsAssumption DEF Threads
<1>0. /\ pc \in [Threads -> MainLabels \cup WorkerLabels]
      /\ at \in [Threads -> FdOrNone]
      /\ peer \in [Conns -> Peers]
      /\ sock \in [Fds -> Conns \cup {NoConn}]
      /\ req \in [Fds -> Requests]
      /\ \A w \in Workers : pc[w] # "idle" => at[w] \in Fds
  BY DEF TypeOK, ThreadType, NetType, SlotType, WorkerSlot
<1>1. CASE Accept
  <2>1. PICK c \in Conns, f \in FreeFds :
          /\ \A w \in Workers : at[w] # f
          /\ peer' = [peer EXCEPT ![c].state = "open"]
          /\ sock' = [sock EXCEPT ![f] = c]
          /\ at' = [at EXCEPT ![Main] = f]
    BY <1>1 DEF Accept
  <2>2. /\ f \in Fds /\ pc[Main] = "next" /\ pc'[Main] = "init" /\ at'[Main] = f
        /\ \A w \in Workers : pc'[w] = pc[w] /\ at'[w] = at[w]
        /\ UNCHANGED <<req, job>>
    BY <1>0, <1>1, <2>1 DEF Accept, Handle, Goto, FreeFds
  <2>3. \A d \in Conns : peer'[d].got = peer[d].got BY <1>0, <2>1 DEF Peers
  <2>4. RepliesBelong' BY <2>3 DEF OwnInv, RepliesBelong
  <2>5. ASSUME NEW w \in Workers, pc'[w] = "build", sock'[at'[w]] # NoConn
        PROVE  job'[w].src \subseteq {sock'[at'[w]]}
    BY <1>0, <2>1, <2>2, <2>5 DEF OwnInv
  <2>6. ASSUME NEW g \in Fds, sock'[g] # NoConn
        PROVE  Own(g)' \/ (pc'[Main] = "init" /\ at'[Main] = g)
    BY <1>0, <2>1, <2>2, <2>6 DEF OwnInv, Own
  <2> QED BY <2>1, <2>2, <2>4, <2>5, <2>6 DEF OwnInv
<1>2. CASE InitConn
  <2>1. /\ pc[Main] = "init" /\ pc'[Main] = "next"
        /\ \A w \in Workers : pc'[w] = pc[w]
        /\ req' = [req EXCEPT ![at[Main]] = FreshRequest]
        /\ UNCHANGED <<at, job, sock, peer>>
    BY <1>0, <1>2 DEF InitConn, Goto, netVars
  <2>2. FreshRequest.buf = {} /\ FreshRequest.resp = {} BY DEF FreshRequest
  <2>3. ASSUME NEW g \in Fds, sock'[g] # NoConn PROVE Own(g)'
    BY <1>0, <2>1, <2>2, <2>3 DEF OwnInv, Own
  <2> QED BY <2>1, <2>3 DEF OwnInv, RepliesBelong
<1>3. CASE ~Accept /\ ~InitConn /\ ~close_conn(Main)
  <2>1. /\ UNCHANGED <<req, job, sock>>
        /\ pc[Main] # "init" /\ pc'[Main] # "init"
        /\ \A w \in Workers : pc'[w] = pc[w] /\ at'[w] = at[w]
        /\ ~AcceptBusy => UNCHANGED peer
    <3>1. CASE epoll_wait(W) \/ AcceptError \/ AcceptBusy \/ ReadSignal
      BY <1>0, <3>1
      DEF epoll_wait, AcceptError, AcceptBusy, ReadSignal, Handle, Goto, netVars, slotVars
    <3>2. CASE \E f \in Fds : PeerClosed(f) \/ Dispatch(f, "in", 0) \/ Dispatch(f, "out", 1)
      BY <1>0, <3>2 DEF PeerClosed, Dispatch, CallClose, Handle, Goto, netVars, slotVars
    <3>3. CASE JobDone \/ DelTimer \/ EndBatch \/ Tick \/ EndTick
      BY <1>0, <3>3
      DEF JobDone, DelTimer, EndBatch, Tick, EndTick, CallClose, Goto, netVars, slotVars
    <3> QED BY <1>3, <3>1, <3>2, <3>3 DEF main
  <2>2. \A c \in Conns : peer'[c].got = peer[c].got
    <3>1. CASE AcceptBusy
      <4>1. PICK c \in Conns : peer' = [peer EXCEPT ![c] = Closed(c)] BY <3>1 DEF AcceptBusy
      <4>2. Closed(c).got = peer[c].got BY <1>0 DEF Closed, Peers
      <4> QED BY <1>0, <4>1, <4>2
    <3> QED BY <2>1, <3>1
  <2> QED BY <1>0, <2>1, <2>2, OwnStay
<1> QED BY <1>1, <1>2, <1>3, OwnClose DEF main

\* A worker reads from, parses for and writes to the connection of its slot
\* (http_conn.cpp:182-204, 511-566, 685-697).
LEMMA OwnWorker ==
  ASSUME TypeOK, WorkerSlot, Handshake, OwnInv, NEW w \in Workers, run(w)
  PROVE  OwnInv'
<1> USE ConstantsAssumption DEF Threads
<1>0. /\ pc \in [Threads -> MainLabels \cup WorkerLabels]
      /\ at \in [Threads -> FdOrNone]
      /\ peer \in [Conns -> Peers]
      /\ sock \in [Fds -> Conns \cup {NoConn}]
      /\ req \in [Fds -> Requests]
      /\ job \in [Workers -> Jobs]
      /\ \A v \in Workers : pc[v] # "idle" => at[v] \in Fds
      /\ NoFd \notin Fds
  BY DEF TypeOK, ThreadType, NetType, SlotType, WorkerSlot, NoFd
<1>1. ASSUME pc[w] # "idle"
      PROVE  at[w] \in Fds /\ ~(pc[Main] = "init" /\ at[Main] = at[w])
  BY <1>0, <1>1 DEF OwnInv
<1>2. CASE Take(w)
  <2>1. pc[Main] # "init" BY <1>2 DEF Take, Handshake, Queued
  <2>2. /\ UNCHANGED <<req, job, sock, peer>>
        /\ pc' = [pc EXCEPT ![w] = "job"] /\ at' = [at EXCEPT ![w] = at'[w]]
    BY <1>0, <1>2 DEF Take, Goto, netVars, slotVars
  <2> QED BY <1>0, <2>1, <2>2 DEF OwnInv, Own, RepliesBelong
<1>3. CASE SetTimerFlag(w) \/ NeedMore(w) \/ RefuseReply(w) \/ RearmSocket(w)
  <2>1. /\ UNCHANGED <<req, sock, peer>>
        /\ pc' = [pc EXCEPT ![w] = pc'[w]] /\ pc'[w] # "build"
        /\ at' = [at EXCEPT ![w] = at'[w]] /\ at'[w] \in {at[w], NoFd}
        /\ \A v \in Workers : v # w => job'[v] = job[v]
    BY <1>0, <1>3
    DEF SetTimerFlag, NeedMore, RefuseReply, RearmSocket, Finish, Goto, netVars, slotVars
  <2> QED BY <1>0, <2>1 DEF OwnInv, Own, RepliesBelong
<1>4. ASSUME NEW r \in Requests, req' = [req EXCEPT ![at[w]] = r], at[w] \in Fds,
             sock[at[w]] # NoConn => r.buf \cup r.resp \subseteq {sock[at[w]]},
             UNCHANGED sock, \A c \in Conns : peer'[c].got \subseteq {c},
             pc' = [pc EXCEPT ![w] = pc'[w]],
             at' = [at EXCEPT ![w] = at'[w]], at'[w] \in {at[w], NoFd},
             pc'[w] = "build" /\ sock[at'[w]] # NoConn => job'[w].src \subseteq {sock[at'[w]]},
             \A v \in Workers : v # w => job'[v] = job[v]
      PROVE  OwnInv'
  <2>1. \A g \in Fds : g # at[w] => req'[g] = req[g] BY <1>0, <1>4
  <2>2. req'[at[w]] = r BY <1>0, <1>4
  <2>3. /\ pc'[Main] = pc[Main] /\ at'[Main] = at[Main]
        /\ \A v \in Workers : v # w => pc'[v] = pc[v] /\ at'[v] = at[v]
    BY <1>0, <1>4
  <2>4. ASSUME NEW g \in Fds, sock'[g] # NoConn
        PROVE  Own(g)' \/ (pc'[Main] = "init" /\ at'[Main] = g)
    BY <1>4, <2>1, <2>2, <2>3, <2>4 DEF OwnInv, Own
  <2>5. \A v \in Workers : pc'[v] = "build" /\ sock'[at'[v]] # NoConn =>
                             job'[v].src \subseteq {sock'[at'[v]]}
    BY <1>4, <2>3 DEF OwnInv
  <2>6. pc'[Main] = "init" => at'[Main] \in Fds /\ \A v \in Workers : at'[v] # at'[Main]
    BY <1>0, <1>4, <2>3 DEF OwnInv
  <2> QED BY <1>4, <2>4, <2>5, <2>6 DEF OwnInv, RepliesBelong
<1> DEFINE f == at[w]
           c == sock[f]
<1>5. ASSUME pc[w] # "idle" PROVE req[f] \in Requests /\ (c # NoConn => Own(f))
  BY <1>0, <1>1, <1>5 DEF OwnInv
<1>6. \A d \in Conns : peer[d].got \subseteq {d} BY DEF OwnInv, RepliesBelong
<1>7. CASE Read(w)
  <2>1. /\ pc[w] = "job" /\ UNCHANGED <<sock, job>>
        /\ pc' = [pc EXCEPT ![w] = pc'[w]] /\ pc'[w] \in {"process", "flag"}
        /\ at' = [at EXCEPT ![w] = at'[w]] /\ at'[w] = f
    BY <1>0, <1>7 DEF Read, Goto
  <2>a. f \in Fds /\ req[f] \in Requests BY <1>1, <1>5, <2>1
  <2>2. \A d \in Conns : peer'[d].got = peer[d].got
    BY <1>0, <1>7 DEF Read, Peers
  <2>b. \A d \in Conns : peer'[d].got \subseteq {d} BY <1>6, <2>2
  <2> DEFINE r == [req[f] EXCEPT !.buf = req[f].buf \cup {c}]
  <2>3. CASE Usable(f) /\ peer[c].unread
    <3>1. req' = [req EXCEPT ![f] = r] BY <1>7, <2>3 DEF Read
    <3>2. {c} \in SUBSET Conns BY <1>0, <2>a, <2>3 DEF Usable
    <3>3. r \in Requests BY <1>5, <2>1, <3>2, BufType
    <3>4. r.buf = req[f].buf \cup {c} /\ r.resp = req[f].resp BY <1>5, <2>1 DEF Requests
    <3>5. c # NoConn => r.buf \cup r.resp \subseteq {c} BY <1>5, <2>1, <3>4 DEF Own
    <3> HIDE DEF r
    <3> QED BY <1>4, <2>1, <2>a, <2>b, <3>1, <3>3, <3>5
  <2>4. CASE ~(Usable(f) /\ peer[c].unread)
    <3>1. req' = [req EXCEPT ![f] = req[f]] BY <1>0, <1>7, <2>4 DEF Read
    <3>2. c # NoConn => req[f].buf \cup req[f].resp \subseteq {c} BY <1>5, <2>1 DEF Own
    <3> QED BY <1>4, <2>1, <2>a, <2>b, <3>1, <3>2
  <2> QED BY <2>3, <2>4
<1>8. CASE Parsed(w)
  <2>1. /\ pc[w] = "process" /\ UNCHANGED <<sock, peer>>
        /\ pc' = [pc EXCEPT ![w] = pc'[w]]
        /\ at' = [at EXCEPT ![w] = at'[w]] /\ at'[w] = f
        /\ job'[w].src = req[f].buf /\ \A v \in Workers : v # w => job'[v] = job[v]
    BY <1>0, <1>8 DEF Parsed, Goto, netVars
  <2>a. f \in Fds BY <1>1, <2>1
  <2>2. PICK b \in BOOLEAN : req' = [req EXCEPT ![f] = [req[f] EXCEPT !.m_linger = b]]
    BY <1>8 DEF Parsed
  <2> DEFINE r == [req[f] EXCEPT !.m_linger = b]
  <2>3. r \in Requests /\ r.buf = req[f].buf /\ r.resp = req[f].resp
    BY <1>5, <2>1, LingerType DEF Requests
  <2>4. c # NoConn => r.buf \cup r.resp \subseteq {c} /\ job'[w].src \subseteq {c}
    BY <1>5, <2>1, <2>3 DEF Own
  <2> HIDE DEF r
  <2>5. req' = [req EXCEPT ![f] = r] BY <2>2 DEF r
  <2> QED BY <1>4, <1>6, <2>1, <2>a, <2>3, <2>4, <2>5
<1>9. CASE BuildReply(w)
  <2> DEFINE r == [[req[f] EXCEPT !.resp = job[w].src] EXCEPT !.to_send = ReplySize]
  <2>1. /\ pc[w] = "build" /\ UNCHANGED <<sock, peer, job>>
        /\ pc' = [pc EXCEPT ![w] = pc'[w]] /\ pc'[w] = "rearm"
        /\ at' = [at EXCEPT ![w] = at'[w]] /\ at'[w] = f
        /\ req' = [req EXCEPT ![f] = r]
    BY <1>0, <1>9 DEF BuildReply, Goto, netVars
  <2>a. f \in Fds BY <1>1, <2>1
  <2>2. job[w].src \in SUBSET Conns BY <1>0 DEF Jobs
  <2>3. r \in Requests BY <1>5, <2>1, <2>2, ReplyType
  <2>4. r.buf = req[f].buf /\ r.resp = job[w].src BY <1>5, <2>1 DEF Requests
  <2>5. c # NoConn => r.buf \cup r.resp \subseteq {c}
    BY <1>5, <2>1, <2>4 DEF Own, OwnInv
  <2> HIDE DEF r
  <2> QED BY <1>4, <1>6, <2>1, <2>a, <2>3, <2>5
<1>10. CASE WriteNothing(w) \/ WritePart(w) \/ WriteAll(w) \/ WriteError(w)
  <2>1. /\ pc[w] = "job" /\ UNCHANGED sock
        /\ pc' = [pc EXCEPT ![w] = pc'[w]] /\ pc'[w] \in {"idle", "flag"}
        /\ at' = [at EXCEPT ![w] = at'[w]] /\ at'[w] \in {f, NoFd}
        /\ \A v \in Workers : v # w => job'[v] = job[v]
    BY <1>0, <1>10
    DEF WriteNothing, WritePart, WriteAll, WriteError, Write, NextRequest, Finish, Goto
  <2>2. f \in Fds /\ req[f] \in Requests BY <1>1, <1>5, <2>1
  <2>3. ASSUME NEW k, Deliver(f, k) PROVE \A d \in Conns : peer'[d].got \subseteq {d}
    <3>1. c # NoConn /\ peer' = [peer EXCEPT ![c].got = @ \cup req[f].resp]
      BY <2>3 DEF Deliver, Usable
    <3>2. c \in Conns /\ req[f].resp \subseteq {c}
      BY <1>0, <1>5, <2>1, <2>2, <3>1 DEF Own
    <3>3. \A d \in Conns : peer'[d].got = IF d = c THEN peer[c].got \cup req[f].resp
                                          ELSE peer[d].got
      BY <1>0, <3>1, <3>2 DEF Peers
    <3> QED BY <1>6, <3>2, <3>3
  <2>4. \A d \in Conns : peer'[d].got \subseteq {d}
    BY <1>6, <1>10, <2>3 DEF WriteNothing, WritePart, WriteAll, WriteError
  <2>5. \E r \in Requests : /\ req' = [req EXCEPT ![f] = r]
                            /\ c # NoConn => r.buf \cup r.resp \subseteq {c}
    <3>1. \A n \in 0 .. ReplySize :
            /\ [req[f] EXCEPT !.to_send = n] \in Requests
            /\ [req[f] EXCEPT !.to_send = n].buf = req[f].buf
            /\ [req[f] EXCEPT !.to_send = n].resp = req[f].resp
      BY <2>2, ToSendType DEF Requests
    <3>2. CASE req' = [req EXCEPT ![f] = FreshRequest]
      BY <3>2, FreshType DEF FreshRequest
    <3>3. CASE WritePart(w)
      <4>1. PICK k \in 1 .. ReplySize - 1 :
              k < req[f].to_send /\ req' = [req EXCEPT ![f] = [req[f] EXCEPT !.to_send = req[f].to_send - k]]
        BY <3>3 DEF WritePart
      <4>2. req[f].to_send - k \in 0 .. ReplySize
        BY <2>2, <4>1, ConstantsAssumption DEF Requests
      <4> QED BY <1>5, <2>1, <3>1, <4>1, <4>2 DEF Own
    <3>4. CASE WriteAll(w) /\ req' = [req EXCEPT ![f].to_send = 0]
      <4>1. 0 \in 0 .. ReplySize BY ConstantsAssumption
      <4>2. req' = [req EXCEPT ![f] = [req[f] EXCEPT !.to_send = 0]] BY <3>4
      <4> QED BY <1>5, <2>1, <3>1, <4>1, <4>2 DEF Own
    <3>5. CASE WriteError(w)
      <4>1. req' = [req EXCEPT ![f] = req[f]] BY <1>0, <3>5 DEF WriteError
      <4> QED BY <1>5, <2>1, <2>2, <4>1 DEF Own
    <3> QED BY <1>10, <3>2, <3>3, <3>4, <3>5 DEF WriteNothing, WriteAll, NextRequest
  <2> QED BY <1>0, <1>4, <2>1, <2>2, <2>4, <2>5
<1>11. CASE close_conn(w) BY <1>11, OwnClose
<1> QED BY <1>2, <1>3, <1>7, <1>8, <1>9, <1>10, <1>11 DEF run

\* Every step keeps what slots, jobs and clients hold with its owner.
LEMMA OwnStep ==
  ASSUME ~ReuseBusy, TypeOK, WorkerSlot, Handshake, OwnInv, [Next]_vars
  PROVE  OwnInv'
<1>0. \A w \in Workers : pc[w] = "build" => at[w] \in Fds BY DEF WorkerSlot
<1>1. ASSUME NEW c \in Conns, Connect(c) \/ Send(c) \/ HangUp(c) PROVE OwnInv'
  <2>1. \A d \in Conns : peer'[d].got = peer[d].got
    BY <1>1 DEF TypeOK, NetType, Peers, Connect, Send, HangUp
  <2> QED BY <1>0, <1>1, <2>1, OwnStay DEF Connect, Send, HangUp, slotVars
<1>2. CASE Clock \/ sig_handler
  BY <1>0, <1>2, OwnStay DEF Clock, sig_handler, netVars, slotVars
<1>3. CASE UNCHANGED vars
  BY <1>0, <1>3, OwnStay DEF vars, netVars, slotVars
<1> QED BY <1>1, <1>2, <1>3, OwnMain, OwnWorker DEF Next

\* A client only gets replies to its own requests, through keep-alive, partial
\* writes, close and reuse of its slot, for any number of clients and workers.
THEOREM RepliesKept == ASSUME ~ReuseBusy PROVE Spec => []RepliesBelong
<1>1. Init => TypeOK /\ WorkerSlot /\ Handshake /\ OwnInv
  BY InitTypes, HandshakeInit, OwnInit
<1>2. TypeOK /\ WorkerSlot /\ Handshake /\ OwnInv /\ [Next]_vars
        => (TypeOK /\ WorkerSlot /\ Handshake /\ OwnInv)'
  BY TypeStep, WorkerSlotStep, HandshakeStep, OwnStep
<1>3. OwnInv => RepliesBelong BY DEF OwnInv
<1> QED BY <1>1, <1>2, <1>3, PTL DEF Spec

-----------------------------------------------------------------------------
(* One worker at a slot.  A worker that may still renew the registration    *)
(* has it off and no event of it in main's hands, so main cannot start a    *)
(* second job there.                                                        *)

Engaged(w) == pc[w] \in CloseLabels \cup {"job", "process", "build", "rearm"}

Held(f) == armed[f] = "off" /\ \A k \in Kinds : <<f, k>> \notin batch

Apart == \A v, w \in Workers : v # w /\ Engaged(v) /\ Engaged(w) => at[v] # at[w]

SlotInv ==
  /\ Apart
  /\ \A w \in Workers : Engaged(w) => Held(at[w])
  /\ Queued => Held(at[Main]) /\ \A w \in Workers : Engaged(w) => at[w] # at[Main]
  /\ \A f \in Fds, k \in Kinds : <<f, k>> \in batch => armed[f] = "off"
  /\ EventsLive /\ TimersPoint
  /\ pc[Main] \in Handling => at[Main] \in Fds
  /\ \A f \in Fds : m_sockfd[f] \in {f, NoFd}

\* The server starts with idle workers, no event and no timer.
LEMMA SlotInvInit == Init => SlotInv
<1> SUFFICES ASSUME Init PROVE SlotInv OBVIOUS
<1>1. pc = [t \in Threads |-> IF t = Main THEN "epoll" ELSE "idle"] BY DEF Init
<1>2. \A w \in Workers : ~Engaged(w)
  BY <1>1, ConstantsAssumption DEF Engaged, CloseLabels, Threads
<1>3. pc[Main] = "epoll" BY <1>1 DEF Threads
<1>4. batch = {} /\ workqueue = <<>> /\ timer_lst = {} /\ due = {} BY DEF Init
<1>5. \A f \in Fds : m_sockfd[f] = NoFd BY DEF Init
<1> QED
  BY <1>2, <1>3, <1>4, <1>5
  DEF SlotInv, Apart, Queued, EventsLive, TimersPoint, InTick, Handling, CloseLabels

\* A step that only moves threads within their phase, or takes an event away.
LEMMA SlotInvStay ==
  ASSUME SlotInv, UNCHANGED <<sock, armed, batch, m_sockfd, workqueue, timer_lst, due,
                              user_data, after>>,
         pc'[Main] = pc[Main], at'[Main] = at[Main],
         \A w \in Workers : Engaged(w)' => Engaged(w) /\ at'[w] = at[w]
  PROVE  SlotInv'
<1>1. Apart' BY DEF SlotInv, Apart
<1>2. EventsLive' /\ TimersPoint' BY DEF SlotInv, EventsLive, TimersPoint, InTick
<1>3. \A w \in Workers : Engaged(w)' => Held(at[w])' BY DEF SlotInv, Held
<1>4. Queued' => Held(at[Main])' BY DEF SlotInv, Queued, Held
<1> QED BY <1>1, <1>2, <1>3, <1>4 DEF SlotInv, Queued

\* What a thread in close_conn does to the slots; it never touches one where
\* another worker is engaged, but to close it.
LEMMA SlotInvClose ==
  ASSUME TypeOK, WorkerSlot, Handshake, SlotInv, NEW t \in Threads, close_conn(t)
  PROVE  SlotInv'
<1> USE ConstantsAssumption DEF Threads
<1>0. /\ pc \in [Threads -> MainLabels \cup WorkerLabels]
      /\ pc[Main] \in MainLabels
      /\ sock \in [Fds -> Conns \cup {NoConn}]
      /\ armed \in [Fds -> {"off", "in", "out"}]
      /\ m_sockfd \in [Fds -> FdOrNone]
      /\ after \in {"next", "deltimer", "tick"}
      /\ NoFd \notin Fds
      /\ \A w \in Workers : pc[w] # "idle" => at[w] \in Fds
  BY DEF TypeOK, ThreadType, NetType, SlotType, WorkerSlot, NoFd
<1>1. /\ UNCHANGED <<at, batch, workqueue, timer_lst, due, user_data>>
      /\ pc[t] \in CloseLabels
      /\ pc' = [pc EXCEPT ![t] = pc'[t]]
      /\ \/ pc'[t] \in CloseLabels /\ after' = after
         \/ pc'[t] = Return(t) /\ Returned(t)
  <2>1. CASE CloseTest(t) \/ StoreCount(t)
    BY <1>0, <2>1 DEF CloseTest, StoreCount, Goto, CloseLabels, timerVars
  <2>2. CASE RemoveFd(t) \/ ClearSockfd(t) \/ LoadCount(t)
    BY <1>0, <2>2 DEF RemoveFd, ClearSockfd, LoadCount, Goto, CloseLabels, timerVars, mainVars
  <2> QED BY <2>1, <2>2 DEF close_conn
<1>2. at[t] \in Fds
  BY <1>0, <1>1 DEF SlotInv, Handling, CloseLabels
<1>3. t = Main \/ Engaged(t) BY <1>1 DEF Engaged
<1>4. \A k \in Kinds : <<at[t], k>> \notin batch
  <2>1. CASE t = Main BY <1>1, <1>2, <2>1 DEF SlotInv, EventsLive, Handling
  <2>2. CASE t # Main BY <1>3, <2>2 DEF SlotInv, Held
  <2> QED BY <2>1, <2>2
<1>5. /\ \A f \in Fds : m_sockfd'[f] \in {f, NoFd}
      /\ \A f \in Fds : f # at[t] => sock'[f] = sock[f]
      /\ \A f \in Fds : armed[f] = "off" => armed'[f] = "off"
  <2>1. CASE RemoveFd(t)
    <3>1. m_sockfd[at[t]] \in {at[t], NoFd} /\ UNCHANGED m_sockfd
      BY <1>2, <2>1 DEF SlotInv, RemoveFd, slotVars
    <3>2. PICK fd \in {at[t], m_sockfd[at[t]]} :
            IF fd = NoFd THEN UNCHANGED <<sock, armed>>
            ELSE sock' = [sock EXCEPT ![fd] = NoConn] /\ armed' = [armed EXCEPT ![fd] = "off"]
      BY <2>1 DEF RemoveFd
    <3> QED BY <1>0, <1>2, <3>1, <3>2 DEF SlotInv
  <2>2. CASE ClearSockfd(t)
    BY <1>0, <1>2, <2>2 DEF ClearSockfd, netVars, SlotInv
  <2>3. CASE CloseTest(t) \/ LoadCount(t) \/ StoreCount(t)
    BY <2>3 DEF CloseTest, LoadCount, StoreCount, netVars, slotVars, SlotInv
  <2> QED BY <2>1, <2>2, <2>3 DEF close_conn
<1>6. \A w \in Workers : Engaged(w)' => Engaged(w)
  BY <1>0, <1>1 DEF Engaged
<1>7. Apart' BY <1>1, <1>6 DEF SlotInv, Apart
<1>8. \A w \in Workers : Engaged(w)' => Held(at[w])'
  BY <1>0, <1>1, <1>5, <1>6 DEF SlotInv, Held, Engaged, CloseLabels
<1>9. Queued' => Held(at[Main])' /\ \A w \in Workers : Engaged(w)' => at'[w] # at'[Main]
  <2> SUFFICES ASSUME Queued'
               PROVE  Held(at[Main])' /\ \A w \in Workers : Engaged(w)' => at[w] # at[Main]
    BY <1>1
  <2>1. Queued /\ pc[Main] = "spin" BY <1>1 DEF Queued, Handshake
  <2>2. at[Main] \in Fds BY <2>1 DEF SlotInv, Handling
  <2> QED BY <1>1, <1>5, <1>6, <2>1, <2>2 DEF SlotInv, Held
<1>10. EventsLive'
  <2>1. InTick' => InTick \/ (t # Main /\ InTick)
    BY <1>0, <1>1 DEF InTick, Return, Returned, CloseLabels
  <2>2. InTick' => batch' = {} BY <1>1, <2>1 DEF SlotInv, EventsLive
  <2>3. pc'[Main] \in Handling => pc[Main] \in Handling
    BY <1>0, <1>1 DEF Handling
  <2> QED BY <1>1, <1>4, <1>5, <2>2, <2>3 DEF SlotInv, EventsLive
<1>11. pc'[Main] \in Handling => at'[Main] \in Fds
  BY <1>0, <1>1 DEF SlotInv, Handling
<1>12. TimersPoint' BY <1>1 DEF SlotInv, TimersPoint
<1>13. \A f \in Fds, k \in Kinds : <<f, k>> \in batch' => armed'[f] = "off"
  BY <1>1, <1>5 DEF SlotInv
<1> QED BY <1>1, <1>5, <1>7, <1>8, <1>9, <1>10, <1>11, <1>12, <1>13 DEF SlotInv

\* A worker takes the one job there is, and lets go of the slot in the step
\* that renews its registration (threadpool.h:99-134, http_conn.cpp:84-89).
LEMMA SlotInvWorker ==
  ASSUME TypeOK, WorkerSlot, Handshake, SlotInv, NEW w \in Workers, run(w)
  PROVE  SlotInv'
<1> USE ConstantsAssumption DEF Threads
<1>0. /\ pc \in [Threads -> MainLabels \cup WorkerLabels]
      /\ at \in [Threads -> FdOrNone]
      /\ armed \in [Fds -> {"off", "in", "out"}]
      /\ \A v \in Workers : pc[v] # "idle" => at[v] \in Fds
  BY DEF TypeOK, ThreadType, NetType, WorkerSlot
<1>1. CASE Take(w)
  <2>1. Queued BY <1>1 DEF Take, Queued
  <2>2. workqueue = <<at[Main]>> BY <2>1 DEF Handshake
  <2>3. Head(<<at[Main]>>) = at[Main] /\ Tail(<<at[Main]>>) = <<>> OBVIOUS
  <2>4. workqueue' = <<>> /\ at' = [at EXCEPT ![w] = at[Main]]
    BY <1>1, <2>2, <2>3 DEF Take
  <2>5. /\ pc' = [pc EXCEPT ![w] = "job"]
        /\ UNCHANGED <<sock, armed, batch, m_sockfd, timer_lst, due, user_data, after>>
    BY <1>1 DEF Take, Goto, netVars, mainVars, timerVars, slotVars
  <2>6. /\ pc'[Main] = pc[Main] /\ at'[Main] = at[Main] /\ at'[w] = at[Main]
        /\ \A v \in Workers : v # w => pc'[v] = pc[v] /\ at'[v] = at[v]
    BY <1>0, <2>4, <2>5
  <2>7. /\ Held(at[Main]) /\ \A v \in Workers : Engaged(v) => at[v] # at[Main]
    BY <2>1 DEF SlotInv
  <2>8. Apart' BY <2>6, <2>7 DEF SlotInv, Apart, Engaged
  <2>9. \A v \in Workers : Engaged(v)' => Held(at[v])'
    BY <2>5, <2>6, <2>7 DEF SlotInv, Held, Engaged
  <2>10. EventsLive' /\ TimersPoint'
    BY <2>5, <2>6 DEF SlotInv, EventsLive, TimersPoint, InTick
  <2> QED BY <2>4, <2>5, <2>6, <2>8, <2>9, <2>10 DEF SlotInv, Queued
<1>2. CASE Read(w) \/ SetTimerFlag(w) \/ NeedMore(w) \/ Parsed(w)
  <2>1. /\ UNCHANGED <<sock, armed, batch, m_sockfd, workqueue, timer_lst, due, user_data,
                        after>>
        /\ pc'[Main] = pc[Main] /\ at'[Main] = at[Main]
        /\ \A v \in Workers : Engaged(v)' => Engaged(v) /\ at'[v] = at[v]
    BY <1>0, <1>2
    DEF Read, SetTimerFlag, NeedMore, Parsed, Finish, Goto, Engaged, CloseLabels, netVars,
        mainVars, timerVars, slotVars
  <2> QED BY <2>1, SlotInvStay
<1>3. CASE BuildReply(w) \/ RefuseReply(w) \/ WriteError(w)
  <2>1. /\ UNCHANGED <<sock, armed, batch, m_sockfd, workqueue, timer_lst, due, user_data,
                        after>>
        /\ pc'[Main] = pc[Main] /\ at'[Main] = at[Main]
        /\ \A v \in Workers : Engaged(v)' => Engaged(v) /\ at'[v] = at[v]
    BY <1>0, <1>3
    DEF BuildReply, RefuseReply, WriteError, Write, Goto, Engaged, CloseLabels, netVars,
        mainVars, timerVars, slotVars
  <2> QED BY <2>1, SlotInvStay
<1>4. CASE RearmSocket(w) \/ WriteNothing(w) \/ WritePart(w) \/ WriteAll(w)
  <2>1. /\ pc[w] \in {"rearm", "job"}
        /\ UNCHANGED <<sock, batch, m_sockfd, workqueue, timer_lst, due, user_data, after>>
    BY <1>4
    DEF RearmSocket, WriteNothing, WritePart, WriteAll, Write, mainVars, timerVars, slotVars
  <2>2. /\ pc'[Main] = pc[Main] /\ at'[Main] = at[Main] /\ pc'[w] \in {"idle", "flag"}
        /\ \A v \in Workers : v # w => pc'[v] = pc[v] /\ at'[v] = at[v]
    BY <1>0, <1>4
    DEF RearmSocket, WriteNothing, WritePart, WriteAll, NextRequest, Finish, Goto
  <2>3. \A g \in Fds : g # at[w] => armed'[g] = armed[g]
    BY <1>0, <1>4
    DEF RearmSocket, WriteNothing, WritePart, WriteAll, NextRequest, modfd
  <2>4. Engaged(w) /\ ~Engaged(w)' BY <2>1, <2>2 DEF Engaged, CloseLabels
  <2>5. \A v \in Workers : Engaged(v)' => v # w /\ Engaged(v) /\ at[v] \in Fds /\ at[v] # at[w]
    BY <1>0, <2>2, <2>4 DEF SlotInv, Apart, Engaged, CloseLabels
  <2>6. Apart' BY <2>2, <2>5 DEF SlotInv, Apart
  <2>7. \A v \in Workers : Engaged(v)' => Held(at[v])'
    BY <2>1, <2>2, <2>3, <2>5 DEF SlotInv, Held
  <2>8. Queued' => Held(at[Main])' /\ \A v \in Workers : Engaged(v)' => at'[v] # at'[Main]
    <3> SUFFICES ASSUME Queued'
                 PROVE  Held(at[Main])' /\ \A v \in Workers : Engaged(v)' => at'[v] # at'[Main]
      OBVIOUS
    <3>1. Queued /\ pc[Main] = "spin" BY <2>1 DEF Queued, Handshake
    <3>2. at[Main] \in Fds /\ at[Main] # at[w] BY <2>4, <3>1 DEF SlotInv, Handling
    <3> QED BY <2>1, <2>2, <2>3, <2>5, <3>1, <3>2 DEF SlotInv, Held
  <2>9. \A g \in Fds, k \in Kinds : <<g, k>> \in batch' => armed'[g] = "off"
    BY <2>1, <2>3, <2>4 DEF SlotInv, Held
  <2>10. EventsLive' /\ TimersPoint'
    BY <2>1, <2>2 DEF SlotInv, EventsLive, TimersPoint, InTick
  <2> QED BY <2>1, <2>2, <2>6, <2>7, <2>8, <2>9, <2>10 DEF SlotInv
<1>5. CASE close_conn(w) BY <1>5, SlotInvClose
<1> QED BY <1>1, <1>2, <1>3, <1>4, <1>5 DEF run

\* Main starts a job only for an event, and accepts only on a slot no worker is
\* at (web_server.cpp:220-350).
LEMMA SlotInvMain ==
  ASSUME ~ReuseBusy, TypeOK, WorkerSlot, Handshake, Handshake', SlotInv,
         NEW W \in SUBSET Fds, main(W)
  PROVE  SlotInv'
<1> USE ConstantsAssumption DEF Threads
<1>0. /\ pc \in [Threads -> MainLabels \cup WorkerLabels]
      /\ at \in [Threads -> FdOrNone]
      /\ sock \in [Fds -> Conns \cup {NoConn}]
      /\ armed \in [Fds -> {"off", "in", "out"}]
      /\ m_sockfd \in [Fds -> FdOrNone]
      /\ user_data \in [Conns -> FdOrNone]
      /\ timer_lst \subseteq Conns /\ due \subseteq Conns
      /\ NoFd \notin Fds
      /\ \A w \in Workers : pc[w] # "idle" => at[w] \in Fds
  BY DEF TypeOK, ThreadType, NetType, SlotType, TimerType, QueueType, WorkerSlot, NoFd
<1>1. ASSUME \A w \in Workers : pc'[w] = pc[w] /\ at'[w] = at[w],
             \A w \in Workers : Engaged(w) => armed'[at[w]] = "off",
             \A f \in Fds, k \in Kinds :
               <<f, k>> \in batch' => armed'[f] = "off" /\ \A w \in Workers : Engaged(w) => at[w] # f,
             \A f \in Fds : m_sockfd'[f] \in {f, NoFd},
             pc'[Main] \in Handling => at'[Main] \in Fds,
             pc'[Main] = "spin" => Held(at[Main])' /\ \A w \in Workers : Engaged(w) => at[w] # at'[Main],
             EventsLive', TimersPoint'
      PROVE  SlotInv'
  <2>1. Queued' => pc'[Main] = "spin" BY DEF Handshake
  <2>2. Apart' BY <1>1 DEF SlotInv, Apart, Engaged
  <2>3. \A w \in Workers : Engaged(w)' => Engaged(w) /\ at[w] \in Fds
    BY <1>0, <1>1 DEF Engaged, CloseLabels
  <2>4. \A w \in Workers : Engaged(w)' => Held(at[w])'
    BY <1>1, <2>3 DEF Held
  <2>5. Queued' => Held(at[Main])' /\ \A w \in Workers : Engaged(w)' => at'[w] # at'[Main]
    BY <1>1, <2>1, <2>3
  <2>6. \A f \in Fds, k \in Kinds : <<f, k>> \in batch' => armed'[f] = "off" BY <1>1
  <2> QED BY <1>1, <2>2, <2>4, <2>5, <2>6 DEF SlotInv
<1>2. \A w \in Workers : Engaged(w) => at[w] \in Fds /\ Held(at[w])
  BY <1>0 DEF Engaged, CloseLabels, SlotInv
<1>3. CASE epoll_wait(W)
  <2>1. /\ pc[Main] = "epoll" /\ pc'[Main] = "next" /\ batch' = ReadyEvents(W)
        /\ armed' = [f \in Fds |-> IF \E e \in batch' : e[1] = f THEN "off" ELSE armed[f]]
        /\ UNCHANGED <<sock, m_sockfd, timer_lst, due, user_data>>
        /\ \A w \in Workers : pc'[w] = pc[w] /\ at'[w] = at[w]
    BY <1>0, <1>3 DEF epoll_wait, Goto, timerVars, slotVars
  <2>2. \A f \in Fds, k \in Kinds : <<f, k>> \in batch' => Reports(f, k, W)
    BY <1>0, <2>1 DEF ReadyEvents, Kinds
  <2>3. EventsLive'
    BY <2>1, <2>2 DEF EventsLive, Reports, InTick, Handling, CloseLabels, Kinds
  <2>4. TimersPoint' BY <2>1 DEF SlotInv, TimersPoint
  <2>5. \A w \in Workers : Engaged(w) => armed'[at[w]] = "off"
    BY <1>2, <2>1 DEF Held
  <2>6. \A f \in Fds, k \in Kinds : <<f, k>> \in batch' =>
          armed'[f] = "off" /\ \A w \in Workers : Engaged(w) => at[w] # f
    BY <1>2, <2>1, <2>2 DEF Held, Reports
  <2> QED BY <1>1, <2>1, <2>3, <2>4, <2>5, <2>6 DEF SlotInv, Handling, CloseLabels
<1>4. CASE Accept
  <2>1. PICK c \in Conns, f \in FreeFds :
          /\ \A w \in Workers : at[w] # f
          /\ sock' = [sock EXCEPT ![f] = c]
          /\ user_data' = [user_data EXCEPT ![c] = f]
          /\ timer_lst' = timer_lst \cup {c}
          /\ m_sockfd' = [m_sockfd EXCEPT ![f] = f]
          /\ armed' = [armed EXCEPT ![f] = "in"]
          /\ at' = [at EXCEPT ![Main] = f]
    BY <1>4 DEF Accept
  <2>2. /\ f \in Fds /\ sock[f] = NoConn /\ pc[Main] = "next" /\ pc'[Main] = "init"
        /\ batch' \subseteq batch /\ UNCHANGED due
        /\ \A w \in Workers : pc'[w] = pc[w] /\ at'[w] = at[w]
    BY <1>0, <1>4, <2>1 DEF Accept, Handle, Goto, FreeFds
  <2>3. EventsLive'
    BY <1>0, <2>1, <2>2 DEF SlotInv, EventsLive, InTick, Handling, CloseLabels
  <2>4. TimersPoint' BY <1>0, <2>1, <2>2 DEF SlotInv, TimersPoint
  <2>5. \A w \in Workers : Engaged(w) => armed'[at[w]] = "off"
    BY <1>0, <1>2, <2>1 DEF Held
  <2>6. \A g \in Fds, k \in Kinds : <<g, k>> \in batch' =>
          armed'[g] = "off" /\ \A w \in Workers : Engaged(w) => at[w] # g
    BY <1>0, <1>2, <2>1, <2>2 DEF Held, SlotInv, EventsLive
  <2> QED
    BY <1>0, <1>1, <2>1, <2>2, <2>3, <2>4, <2>5, <2>6
    DEF SlotInv, Handling, CloseLabels
<1>5. ASSUME UNCHANGED <<sock, armed, m_sockfd, user_data>>, batch' \subseteq batch,
             \A w \in Workers : pc'[w] = pc[w] /\ at'[w] = at[w],
             timer_lst' \subseteq timer_lst, due' \subseteq due \cup timer_lst,
             pc'[Main] \in Handling => at'[Main] \in Fds,
             pc'[Main] = "spin" => Held(at[Main])' /\ \A w \in Workers : Engaged(w) => at[w] # at'[Main],
             EventsLive'
      PROVE  SlotInv'
  <2>1. TimersPoint' BY <1>5 DEF SlotInv, TimersPoint
  <2>2. \A w \in Workers : Engaged(w) => armed'[at[w]] = "off" BY <1>2, <1>5 DEF Held
  <2>3. \A g \in Fds, k \in Kinds : <<g, k>> \in batch' =>
          armed'[g] = "off" /\ \A w \in Workers : Engaged(w) => at[w] # g
    BY <1>2, <1>5 DEF Held, SlotInv
  <2> QED BY <1>1, <1>5, <2>1, <2>2, <2>3 DEF SlotInv
<1>6. CASE AcceptError \/ AcceptBusy \/ ReadSignal \/ InitConn \/ DelTimer \/ EndBatch \/ EndTick
  <2>1. /\ UNCHANGED <<sock, armed, m_sockfd, user_data, at>> /\ batch' \subseteq batch
        /\ \A w \in Workers : pc'[w] = pc[w]
        /\ timer_lst' \subseteq timer_lst /\ due' \subseteq due \cup timer_lst
        /\ \/ pc'[Main] \in {"next", "epoll"}
           \/ pc'[Main] = "tick" /\ batch = {}
    <3>1. CASE AcceptError \/ AcceptBusy \/ ReadSignal
      BY <3>1 DEF AcceptError, AcceptBusy, ReadSignal, Handle, netVars, timerVars, slotVars
    <3>2. CASE InitConn \/ DelTimer
      BY <1>0, <3>2 DEF InitConn, DelTimer, Goto, netVars, timerVars, slotVars, mainVars
    <3>3. CASE EndBatch \/ EndTick
      BY <1>0, <3>3 DEF EndBatch, EndTick, Goto, netVars, timerVars, slotVars
    <3> QED BY <1>6, <3>1, <3>2, <3>3
  <2>2. EventsLive' BY <2>1 DEF SlotInv, EventsLive, InTick, Handling, CloseLabels
  <2> QED BY <1>5, <2>1, <2>2 DEF Handling, CloseLabels
<1>7. CASE Tick
  <2>1. PICK c \in due : timer_lst' = timer_lst \ {c} /\ due' = due \ {c}
                         /\ CallClose(user_data[c], "tick")
    BY <1>7 DEF Tick
  <2>2. /\ UNCHANGED <<sock, armed, m_sockfd, user_data, batch>>
        /\ \A w \in Workers : pc'[w] = pc[w] /\ at'[w] = at[w]
        /\ pc[Main] = "tick" /\ pc'[Main] = "test" /\ at'[Main] = user_data[c]
    BY <1>0, <1>7, <2>1 DEF Tick, CallClose, Goto, netVars, slotVars
  <2>3. at'[Main] \in Fds BY <2>2 DEF SlotInv, TimersPoint
  <2>4. batch = {} BY <2>2 DEF SlotInv, EventsLive, InTick
  <2>5. EventsLive' BY <2>2, <2>4 DEF EventsLive
  <2> QED BY <1>5, <2>1, <2>2, <2>3, <2>5
<1>8. CASE \E f \in Fds : PeerClosed(f) \/ Dispatch(f, "in", 0) \/ Dispatch(f, "out", 1)
  <2>1. PICK f \in Fds : PeerClosed(f) \/ Dispatch(f, "in", 0) \/ Dispatch(f, "out", 1)
    BY <1>8
  <2>2. /\ UNCHANGED <<sock, armed, m_sockfd, user_data, timer_lst, due>>
        /\ \A w \in Workers : pc'[w] = pc[w] /\ at'[w] = at[w]
        /\ at'[Main] = f
        /\ Handle(f, "hup") \/ Handle(f, "in") \/ Handle(f, "out")
    BY <1>0, <2>1 DEF PeerClosed, Dispatch, CallClose, Goto, netVars, timerVars, slotVars
  <2>3. PICK k \in Kinds : <<f, k>> \in batch /\ batch' = batch \ {<<f, k>>}
    BY <2>2 DEF Handle, Kinds
  <2>4. f \in Fds /\ armed[f] = "off" /\ sock[f] # NoConn
        /\ \A j \in Kinds : <<f, j>> \in batch => j = k
    BY <2>3 DEF SlotInv, EventsLive
  <2>5. ~InTick'
    BY <1>0, <2>1 DEF PeerClosed, Dispatch, CallClose, Goto, InTick, CloseLabels
  <2>6. \A j \in Kinds : <<f, j>> \notin batch' BY <2>3, <2>4
  <2>7. EventsLive'
    BY <2>2, <2>3, <2>5, <2>6 DEF SlotInv, EventsLive
  <2>8. Held(f)' BY <2>2, <2>4, <2>6 DEF Held
  <2>9. \A w \in Workers : Engaged(w) => at[w] # f BY <1>2, <2>3 DEF Held
  <2>10. batch' \subseteq batch /\ timer_lst' \subseteq timer_lst /\ due' \subseteq due
    BY <2>2, <2>3
  <2> QED BY <1>5, <2>1, <2>2, <2>7, <2>8, <2>9, <2>10
<1>9. CASE JobDone
  <2>1. /\ UNCHANGED <<sock, armed, m_sockfd, user_data, timer_lst, due, batch>>
        /\ \A w \in Workers : pc'[w] = pc[w] /\ at'[w] = at[w]
        /\ at'[Main] = at[Main] /\ pc[Main] = "spin"
        /\ \/ pc'[Main] = "next"
           \/ pc'[Main] = "test" /\ after' = "deltimer"
    <3>1. /\ pc[Main] = "spin"
          /\ UNCHANGED <<netVars, batch, due, timerVars, m_sockfd>>
          /\ \/ CallClose(at[Main], "deltimer")
             \/ Goto(Main, "next") /\ UNCHANGED at
      BY <1>9 DEF JobDone
    <3>2. /\ at[Main] \in FdOrNone /\ DOMAIN pc = Threads /\ DOMAIN at = Threads
          /\ at = [u \in Threads |-> at[u]] /\ pc = [u \in Threads |-> pc[u]]
      BY <1>0
    <3>3. CASE CallClose(at[Main], "deltimer")
      BY <3>1, <3>2, <3>3 DEF CallClose, Goto, netVars, timerVars
    <3>4. CASE Goto(Main, "next") /\ UNCHANGED at
      BY <3>1, <3>2, <3>4 DEF Goto, netVars, timerVars
    <3> QED BY <3>1, <3>3, <3>4
  <2>2. pc[Main] \in Handling /\ ~InTick' BY <2>1 DEF Handling, InTick, CloseLabels
  <2>3. EventsLive' BY <2>1, <2>2 DEF SlotInv, EventsLive
  <2>4. at'[Main] \in Fds BY <2>1, <2>2 DEF SlotInv
  <2> QED BY <1>5, <2>1, <2>3, <2>4
<1>10. CASE close_conn(Main) BY <1>10, SlotInvClose
<1> QED BY <1>3, <1>4, <1>6, <1>7, <1>8, <1>9, <1>10 DEF main

\* Every step keeps workers apart.
LEMMA SlotInvStep ==
  ASSUME ~ReuseBusy, TypeOK, WorkerSlot, Handshake, SlotInv, [Next]_vars
  PROVE  SlotInv'
<1>1. CASE (\E c \in Conns : Connect(c) \/ Send(c) \/ HangUp(c)) \/ Clock \/ sig_handler
  BY <1>1, SlotInvStay
  DEF Connect, Send, HangUp, Clock, sig_handler, netVars, mainVars, timerVars, slotVars,
      Engaged
<1>2. CASE UNCHANGED vars
  BY <1>2, SlotInvStay DEF vars, netVars, mainVars, timerVars, slotVars, Engaged
<1>3. Handshake' BY HandshakeStep
<1> QED BY <1>1, <1>2, <1>3, SlotInvMain, SlotInvWorker DEF Next

\* Two workers never read, parse or write for one slot at a time, whatever
\* their number: what EPOLLONESHOT is there for.
THEOREM WorkersApart == ASSUME ~ReuseBusy PROVE Spec => []ConnExclusive
<1>1. Init => TypeOK /\ WorkerSlot /\ Handshake /\ SlotInv
  BY InitTypes, HandshakeInit, SlotInvInit
<1>2. TypeOK /\ WorkerSlot /\ Handshake /\ SlotInv /\ [Next]_vars
        => (TypeOK /\ WorkerSlot /\ Handshake /\ SlotInv)'
  BY TypeStep, WorkerSlotStep, HandshakeStep, SlotInvStep
<1>3. SlotInv => ConnExclusive BY DEF SlotInv, Apart, Engaged, Busy, ConnExclusive
<1> QED BY <1>1, <1>2, <1>3, PTL DEF Spec
=============================================================================
