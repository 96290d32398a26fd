# A TLA+ model of MYC_Web_Server

The program is a small HTTP server: one thread (`main()`, `src/web_server.cpp`)
runs an epoll loop and a chain of SIGALRMs, a pool of threads
(`src/threadpool.h`) reads, parses and answers requests in slots of an array
`users[]` (`src/http_conn.cpp`), a list of timers (`src/Timer_Linklist.h`)
closes idle connections, a pool of MySQL connections (`src/sql_pool.cpp`)
serves the workers, and a log (`src/log.cpp`) has a queue
(`src/block_queue.h`) and a thread of its own.

This directory holds TLA+ modules of these parts, TLC configurations that check
them on small instances, and TLAPS proofs of what matters most for instances of
any size. `PROJECT.json` lists, definition by definition, the source lines that
were modelled, and for each property a mutant of a mapped definition (a
plausible bug) that breaks it.

## 1. Inventory

### Main loop and connection slots (`web_server.cpp`, `http_conn.cpp`, `threadpool.h`)

*State.* Kernel: which connection is open on a descriptor number, what its
one-shot registration waits for, the edge of `listenfd`, the pipe, the alarm.
Program: the slots `users[fd]` (`m_sockfd`, `m_timer`, `m_state`, `improv`,
`timer_flag`, buffers and parser fields), `m_user_count`, `m_workqueue`,
`timer_lst`, the flag `timeout`.

*Operations.* `main()` waits in `epoll_wait` and handles a batch of events:
accept, hang-up, signal, readable, writable. For the last two it adjusts the
timer, appends a job and **spins on `users[sockfd].improv`** until the worker
has done the `recv` or the `writev`; then it resets `improv` and, if
`timer_flag` is set, closes the connection and deletes its timer. A worker goes
on with `process()` after it has set `improv`, at the same time as `main()`
handles other events, and may call `close_conn` itself.

*Hard.* Two plain ints are the only protocol between `main()` and a worker;
`close_conn` runs on either side without a lock; descriptor numbers, and slots
with them, are used again as soon as they are closed; a timer points to a slot,
not to a connection; EPOLLONESHOT registrations have to be renewed on each path.

*Correct means:* the wait is for the right job and ends; one worker has a slot;
a client gets replies to its own requests; each open connection has a timer
that leads to it; nothing uses a deleted timer; the alarm chain goes on; every
connection is closed in the end.

### Timers (`Timer_Linklist.h`)

*State.* A doubly linked list sorted by `expire` (wall-clock seconds).
*Operations.* `add_timer`, `adjust_timer`, `del_timer`, `tick`, by `main()` only.
*Hard.* Pointer surgery; `tick` leaves `tail` behind when it empties the list and
stops at the first timer that has not expired; the wall clock may be set back.
*Correct means:* the links are right and `tick` takes what has expired.

### Request parser and reply writer (`http_conn.cpp`)

*State.* Read buffer with `m_read_idx`, `m_checked_idx`, `m_start_line`, the
parser's state; write buffer, two iovecs, the counters of what was and is to be
sent, the mapped file.
*Operations.* `read`, `parse_line`, `parse_request_line`, `parse_headers`,
`parse_content`, `process_read`; `do_request`, `process_write`, `write`,
`unmap`, `init`.
*Hard.* TCP cuts requests anywhere, `writev` takes any part of a reply, and the
next request and the next client use the same fields.
*Correct means:* the result does not depend on the cuts nor on who was there
before.

### Database pool (`sql_pool.cpp`)

*State.* `connList`, two counters, the semaphore `reserve`.
*Operations.* `GetConnection`, `ReleaseConnection`, called by `connectionRAII`.
*Hard.* The test for an empty list is outside the mutex, the semaphore is taken
before the mutex and given after it.
*Correct means:* a connection has one owner, the list is never popped empty, and
the workers do not come to a standstill.

### Log and bounded queue (`log.cpp`, `log.h`, `block_queue.h`)

*State.* Day, line count and name of the open file; the stdio buffer; the ring
with `m_front`, `m_back`, `m_size` and a condition variable.
*Operations.* `write_log` and `flush` by `main()`, `async_write_log` by the flush
thread; `push`, `pop`, `clear`.
*Hard.* `write_log` leaves the lock between counting a line, testing `full()` and
`push()`, whose result it ignores; files change while lines are queued; crashes.
*Correct means:* every line is written once, nearly in order, into files of
bounded length, and a crash costs a bounded number of lines.

### Registration and login (`http_conn.cpp:18-48, 362-435`)

*State.* The map `users`, a mutex, the table `user` of the database; per worker
the account a client asked for and the result of the INSERT.
*Operations.* `initmysql_result` loads the map when the program starts; workers
in `do_request` search the map, insert into table and map, and choose a page.
*Hard.* The mutex guards the inserts and not the searches; the map takes a name
whose INSERT failed; the program is stopped or killed between the INSERT and
the answer, and the next one starts from the table; at SIGTERM `main()` does not
wait for workers (`web_server.cpp:351-357`).
*Correct means:* a name is given to one client, for ever; login lets in whoever
has the password in the table; requests are answered.

### Other parts

Static pages (`root_file`) are data.

## 2. Modules

| Module | Part | Notes |
|---|---|---|
| `Reactor` | main loop, pool, slots, alarms | the core; every thread is a process |
| `MCReactor` | | symmetry for TLC |
| `ReactorProofs` | | its proofs, in three parts |
| `TimerSet` | what `main()` may count on from its timers | abstract specification |
| `TimerList`, `MCTimerList`, `TimerListProofs` | `Timer_Linklist.h` pointer by pointer | implements `TimerSet`, proved |
| `BoundedQueue` | a first-in first-out queue | abstract specification |
| `BlockQueue`, `BlockQueueProofs` | `block_queue.h` | implements `BoundedQueue`, proved |
| `SqlPool`, `SqlPoolProofs` | `sql_pool.cpp` | |
| `Accounts`, `AccountsProofs` | the cgi branch of `do_request`, `initmysql_result`, start and end of `main()` | workers over a shared map and table |
| `Log`, `LogProofs` | `log.cpp`, `log.h` | uses the queue as a sequence, as `BlockQueue` shows it to be |
| `HttpParser`, `HttpParserProofs` | `read` and `process_read` | |
| `HttpReply`, `HttpReplyProofs` | `do_request`'s path and file, `add_response`, `process_write`, `write`, `unmap` | |

How they fit: `Reactor` uses a set of timers where the code has a list;
`TimerList` shows that the list does what the set `TimerSet` does.
`Reactor` treats a request or a reply as the set of clients whose bytes are in
it, and what the parser or `process_write` answers as a choice; `HttpParser` and
`HttpReply` look at the same functions unit by unit, with one slot at a time.
`Log` uses a sequence for its queue; `BlockQueue` shows that the ring is one.
`Accounts` takes a worker from the moment it has a request of the two kinds and
a connection to the database, which `SqlPool` shows it has in the program as
`main()` sets it up (`NobodyWaits`).

### Accounts in detail

A worker is at a label of `do_request`, or at the page it answered last. `find`,
`query`, `insert` and `compare` are the accesses to the map and the database;
`turn` is the stretch inside `users.insert()` after the node is linked, while the
tree is rebalanced. A search runs without the mutex, so while another worker is
at `turn` it may miss a name (`Found`), and the second search of `users[name]` may
then insert it again, with no password (`Compare`). These are the outcomes of
the data race that leave the program running; one that ends it is `Exit`, which
may happen at any moment in any case. `Exit` is also SIGTERM: `main()` deletes
`users` and `pool` under the detached workers, of whose last steps nothing is
seen outside but an INSERT, which `Query` before `Exit` covers. `refused` is a history
variable: the names the map may have wrong until the next start. `acked`, the
accounts whose client was told so, outlives the program.

### Reactor in detail

A step is a stretch of code in which a thread touches shared state in one
place. `pc[t]` is the label a thread is at and `at[t]` its slot:

* `main()`: `epoll_wait` takes the ready events (which sockets are writable is an
  input), `AcceptError`, `AcceptBusy` and `Accept` + `InitConn` the branch of
  `listenfd`, `PeerClosed` that of EPOLLRDHUP, `ReadSignal` the pipe, `Dispatch`
  the branches of EPOLLIN and EPOLLOUT (timer adjusted, job appended), `JobDone`
  and `DelTimer` the wait with its two endings, `EndBatch`, `Tick` and `EndTick`
  what follows the `for` loop.
* workers: `Take`, `Read`, `SetTimerFlag`, the four actions of `write()`, then
  `NeedMore`, `Parsed`, `BuildReply`, `RefuseReply` and `RearmSocket` of
  `process()`.
* `close_conn`, run by `main()` and by workers, is split at each load and store:
  `CloseTest`, `RemoveFd`, `ClearSockfd`, `LoadCount`, `StoreCount`.
* the environment: `Connect`, `Send`, `HangUp`, `Clock`, `sig_handler`.

A timer is named by the connection it was made for; `dangling` is a history
variable that records the use of a deleted one. `ReuseBusy` says whether
`main()` may come to accept a connection on the number of a slot while a worker
is still at it (if not, it accepts when the worker is done), and
`EmptyFiles` whether clients ask for files of length 0, the one case in which
`process_write` fails and a worker calls `close_conn`. They are constants
because some properties only hold without one or the other (sections 3 and 6).

`improv` is a plain int that `main()` reads in an empty loop. The model loads it
anew in each round, which is what the build of `src/README.md:3`, without
optimisation, does.

## 3. Runs

| Run | Instance | Shows |
|---|---|---|
| `ReactorReplies` | 2 clients that send twice, 1 slot, 2 workers, replies of 2 units, empty files, no reuse of a busy slot | `TypeOK`, `Handshake`, `AlarmToken`, `ConnExclusive`, `RepliesBelong` |
| `ReactorTimers` | 2 clients, 2 slots, 1 worker, busy slots reused, no empty files | `TimerCovers`, `NoDanglingTimer`, `UserCountExact`, `NoLostWakeup` |
| `ReactorEnds` | 2 clients, 1 slot, 1 worker, busy slots reused, no empty files, fair | `SpinEnds`, `EventuallyClosed` |
| `TimerListLinks` | 4 timers, lifetime 2, 6 instants, clock set back at will | `TypeOK`, `WellLinked`, `ImplementsTimerSet` |
| `BlockQueueRing` | 3 slots, 2 values, 2 consumers, fair | `TypeOK`, `NoSleeper`, `ImplementsQueue`, `Drains` |
| `SqlPoolShort` | 4 workers, 2 connections, fair | `TypeOK`, `OneOwner`, `Counted`, `GoesOn` |
| `LogFiles` | 6 lines, queue of 2, 2 lines a file, 2 days, 1 crash or failed `fopen`, fair | `TypeOK`, `EachOnce`, `InOrder`, `Overshoot`, `SmallLoss`, `GetsWritten` |
| `ReplyWrites` | 2 page names, header of 4 units in a buffer of 7, files of up to 2, 3 mappings, 1 stop within the header, fair | `TypeOK`, `ReplyIntact`, `FileMapped`, `Released`, `WriteEnds` |
| `ParserSplits` | 2 requests, bodies of up to 3 units, buffer of 14, fair | `TypeOK`, `Understood`, `GetsVerdict` |
| `AccountsRestart` | 2 workers, 2 names, 2 passwords, 2 starts, fair | `TypeOK`, `OneAccount`, `LoginRight`, `Answered` |
| `FindStaleTimer` | 2 clients, 1 slot, 1 worker | `OnlyIdleClosed` fails |
| `FindSplitBody` | 1 request, bodies cut anywhere | `GetsVerdict` fails |

*Why the bounds are enough.* Slots only meet through `main()`, so what goes wrong
on one takes two clients in turn and two threads; the second slot of
`ReactorTimers` adds batches with several events, stale events and ticks that
close more than one connection. A client sends twice so that keep-alive and a
leftover of its first request matter; two units of reply make a partial write.
`TIMESLOT` is 1, since only the order of expirations counts. `MaxRequests` is 1,
the hardest case for `append()`. Four timers give each case of `add_timer`,
`adjust_timer` and `del_timer` (head, tail, both, in between) with another timer
left over. A ring of three wraps at different places for its two indices. Two
connections and four workers make the last pop race with the unlocked test and
some workers wait while others leave with NULL. Six lines make three changes of
file, with the queue full on the way. A page name that is longer and one that is
shorter than the last show what `strncpy` leaves behind; three mappings are a file
that is cut short and two after it. Two workers race for a name in every way two
can; two names keep a failed INSERT of one apart from the other; the second start
sees what the first left. In the parser the buffer is shorter than
the longest request and longer than most.

`CHECK_DEADLOCK FALSE` is given where clients, lines or requests may be used up
and the system rests.

### Fairness

* `Reactor`: weak fairness of `main(...)`, of each worker, of the clock and of the
  signal: the scheduler runs every thread, and time passes. Nothing is asked of
  clients, and `main` is fair without any socket ever becoming writable, so
  `EventuallyClosed` rests on the timers alone.
* `BlockQueue`: consumers run; nobody has to push.
* `SqlPool`: a worker in the pool's code or in `process()` goes on.
* `Log`: `main()` finishes a LOG_INFO it has begun, the flush thread runs, and
  who touches a NULL `m_fp` brings the process down.
* `Accounts`: each worker runs. The mutex need not be fair, since a name the map
  has is not registered again, so that a worker cannot be passed by for ever.
* `HttpReply`: the client reads, so that EPOLLOUT comes again (`WriteEnds` is about
  such clients; for others `EventuallyClosed` holds).
* `HttpParser`: TCP delivers what was sent, and workers run.

### What the properties say

* `Handshake`: a job is queued or under way only while `main()` waits for it on its
  slot, there is one at a time, no `improv` is left over, and while `main()` waits
  the job exists or was reported. A lost job, a stale `improv` or a full queue
  whose refusal nobody looks at (`web_server.cpp:297`) would break it.
* `AlarmToken`: the token of the SIGALRM chain is in one place, the alarm, the pipe
  or `timeout`. If it were lost no timer would ever fire again.
* `TimerCovers`: an open connection has its timer, and the timer leads to it, through
  slot and `m_sockfd`, whatever stale timers are about.
* `NoLostWakeup`: a registration that is off has somebody behind it who renews it or
  closes the connection.
* `RepliesBelong`: buffers that were not reset would show here.
* `EventuallyClosed`: with all of the above, no connection leaks.
* `ImplementsTimerSet`: `tick()` never takes a timer that has not expired, and takes all
  that have if the wall clock never went back. After it did, `tick()` may stop
  before an expired one: `adjust_timer` does not move a timer forward.
* `EachOnce`, `InOrder`, `Overshoot`, `SmallLoss`: what logging guarantees although
  counting, testing and pushing are separate. A file has at most
  `m_split_lines + max_queue_size + 1` lines for each start of the program.
* `ReplyIntact`: the client has got a beginning of the reply, and the iovecs hold the
  rest, however `writev` cut it.
* `Released`: what is mapped after a reply is what `main()` cut short, and nothing else.
* `FileMapped`: the file a client gets is the one it asked for, although five branches
  of `do_request` copy a name without the zero that ends it, and `writev` reads it
  only where it is mapped.
* `Understood`, `GetsVerdict`: the parser's answer to a request is that of the whole
  request, and one that fits the buffer is not turned away for what came before.
* `Counted`: the semaphore and the two counters of the pool agree with the list and
  with who holds what, although test, semaphore and mutex are three steps.
* `OneAccount`: the client told of an account has it, over races, failed INSERTs and
  restarts. It rests on the table, whose key is the name: the map alone, searched
  without the mutex, would not do.
* `LoginRight`: the page of a login against the table, not the map. The two places where
  the code is wrong are named in it: while the tree is turned a client may be turned
  away, and for a name whose INSERT failed the map says anything until the next start.

## 4. Proofs

All for any values of the constants that satisfy the `ASSUME` of the module.

* `ReactorProofs`, the alarm chain and the protocol of the pool, under no condition:
  * `TypeCorrect`: `TypeOK` with `WorkerSlot` (a worker that is not idle works on a
    slot), without which `users[at[w]]` need not exist. The groups of `TypeOK`
    have a `...Stay` lemma each, so that a step only proves what it writes.
  * `AlarmTokenKept`: `AlarmToken` is not inductive, because `EndTick` sets the alarm
    whatever there was before. `AlarmInv` adds that `main()` is in `tick()` only
    while `timeout` is set.
  * `HandshakeKept`: `Handshake` is inductive given `TypeOK`. The proof separates the
    steps of `main()` (`HandshakeMain`) from those of workers (`HandshakeWorker`).
    It needs no assumption on `ReuseBusy` or `EmptyFiles`: the protocol stays in
    step even where two workers get on one slot, because they do so after
    `improv = 1`.
  * `NeverFull`: the queue never has more than one job, so the unchecked result of
    `append()` is never a refusal.
* `ReactorProofs`, timers, descriptors and users, all four under `~EmptyFiles`, so that only `main()` calls
  `close_conn`: with empty files a worker does too, and the four properties do not
  hold (section 6). Busy slots may be reused.
  * `TimerCoversKept`, `NoDanglingKept`: from `Core`. An open connection owns a slot
    (`Slots`, `Owned`), a timer points to the slot its connection was accepted on
    (`TimersPoint`), while `main()` handles a slot its socket is open (`MainOn`), and an
    event `main()` still holds is of an open socket, one for each slot (`EventsLive`).
    The last is what EPOLLONESHOT and the one descriptor per event give, and what
    makes `m_timer` of an event's slot a timer of the list.
  * `UserCountKept`: `CountInv` says what `m_user_count` is inside `close_conn` and `init()`
    too. It counts with `FS_AddElement` and `FS_RemoveElement`, and no finiteness of
    the set of clients is assumed: `CountInv` carries it.
  * `RegistrationsKept`: `WakeInv` with `Handshake`: who is behind a registration that is
    off, by phase of the job.
* `ReactorProofs`, replies and workers on slots, both under `~ReuseBusy`, with empty files or without:
  * `RepliesKept`: from `OwnInv`, which follows a client's bytes from its socket through
    the buffer of the slot, the job and the reply: all of it is the slot's client's,
    or the slot has none. `init()` of the next client comes before any job.
  * `WorkersApart`: `ConnExclusive` is strengthened to `SlotInv`: a worker that may still
    renew a registration has it off and no event of it in `main()`'s batch (`Held`),
    so `main()` cannot start a second job there, and `Handshake` makes the job it has
    started the only one.
* `BlockQueueProofs`
  * `QueueTypeCorrect`, `NoWakeupLost`: from `TypeOK /\ NoSleeper`, which is inductive.
  * `RingIsQueue`: the ring implements the queue. `Agree`, that `m_back` is `m_size`
    slots after `m_front` around the ring, is the invariant; the lemmas on `Slot`
    replace `%` by a case distinction, and `Shapes` reads the queue off the ring.
* `SqlPoolProofs`
  * `PoolTypeCorrect`, `EveryConnOwned`, `TokensAgree`, `PopFindsOne`, `NobodyWaits` from one
    inductive invariant: `TypeOK`, `OneOwner` and `Counted` with `Conserved` (connections
    in the list and with holders add up) and `Served`. Sets are counted with the
    theorems of `FiniteSetTheorems`; `Room` is the counting argument that with enough
    connections one is left for whoever asks.
  * `NobodyWaits` is about the program as `main()` sets it up, with as many
    connections as workers (`web_server.cpp:138`); `SqlPoolShort` checks the other case.
* `AccountsProofs`
  * `AccountsTypeCorrect`: types, and that the mutex is held by the worker whose label
    says so. `NameGivenOnce`, `MapAgrees` and `LoginIsRight` come from one invariant: for
    a worker whose INSERT succeeded and who has not answered yet, the table has its
    password and no client has been told of the name (`Pending`); and `MapFollowsTable`, which ties the map to the table but for the name
    being inserted and for refused ones. `LoginIsRight` is an action property; the
    case that needs the invariant is `Compare`.
* `HttpReplyProofs`, all four under `HeaderSplits <= 1`: the lengths `write()` computes
  are right only for the first stop within the header (`http_conn.cpp:546-550`, section
  6), and one stop is what the run checks too.
  * From one invariant. `Prefix`: the client has the units 1, ..., n of its reply, n being
    `bytes_have_send`. `Rest`: what the two iovecs look like before a stop, after one in
    the header and after the header, and that they add up. `Mapped` and `Left`: the file
    under way is mapped as a whole, and nothing else is. `Empty`: what `init()` leaves,
    without which the next reply would start in the middle.
  * `SomeInv` and `LastInv` are the two outcomes of a round of `write()`; `Sends` says
    what one `writev` gives the client in each of the three shapes of `Rest`.
* `LogProofs`, under no condition but `LogAssumption`:
  * `LogTypeCorrect`, `PushHasRoom`, `LossIsSmall` from `Inv`: every line is lost, in a file
    or on its way (`Somewhere`), few are on their way because `LOG_INFO` flushes
    (`FewOnTheWay`), and a queue that had room for `full()` has it for `push()`
    (`RoomKept`).
  * `OrderKept` from `OrderInv`: what is in the files is not after what is in the hands of
    the flush thread, in the queue or in `main()`'s hand, but for direct lines.
  * `LineKept` from `OnceInv` with both: what is stored is in one place and nowhere else.
    The lemmas on counting turn that into the numbers of `EachOnce`.
  * `FileIsShort` from `LengthInv`: a file not come to yet has no line of this start, and
    the open one has room for what is on its way, counted from the line that opened it.
    `NextCount` is what is needed of `%` and `\div`.

* `TimerListProofs`, under no condition but `TimerAssumption`, which says that there are
  finitely many addresses and that NULL is none of them:
  * `FieldsArePointers`, `ListWellLinked` and `ListIsSet` from `Inv`. Its core is `Linked`: there
    is a sequence of timers without repetition such that `next` and `prev` lead along it,
    `head` and, unless it is empty, `tail` are its ends, and `expire` grows along it while
    time goes forward. `FieldsFreed` says that freed timers point nowhere, `NoneLater` that
    no timer expires after one that is set now, so that appending keeps the order.
  * Every operation has a lemma of its own that gives the new sequence: with a timer put
    in, one taken out, or the first ones dropped.
  * `Place`, `FirstAlive`, `Passed` and `Listed` are recursive functions along `next`. Their
    values are found without an induction rule: of the positions of the list where a value
    were not the claimed one there would be a first or a last (`LeastNat`, `GreatestNat`,
    from the well-foundedness of the strict subset order on finite sets), and its neighbour
    contradicts that.
  * `ListIsSet` shows for each operation which step of `TimerSet` it is; for `tick()` that
    what it passes is exactly what has expired, if the list is sorted.
* `HttpParserProofs`
  * `ScannerInBounds`: `TypeOK`, with the buffer and what is under way typed as sequences.
    `FirstEnd` exists by `LeastNat`.
  * `NotTurnedAway`, an action property: from `Whole`, that the buffer and the network have
    the lengths of the request between them, which rests on `init()` emptying the buffer.
  * `RequestUnderstood`, whether a body is split or not, from `Inv`. `Shape` says which unit of
    a request is where (`BytesShape`). `Delivered` says that buffer and network hold the
    request, and one of seven `At...` predicates where `process_read` is in it and what it
    knows by then; `Fresh` what `init()` leaves for the next request. `LineFound` and `BodyLine`
    give what `parse_line` finds there, from how much has been read. `AtLost` is where a
    split body leads (`FindSplitBody`): the request is misunderstood in no way, because it
    is never answered.
  * `NoStall`, under `~BodySplit`, without which it is false: `OnePiece` says that `AtLost` is not
    reached then, and `LineFound` that LINE_OPEN is only returned while some of the request is
    missing. `NoStall` and `NotTurnedAway` are the safety part of `GetsVerdict`; what is left to
    fairness is that pieces arrive and that a worker parses them.

Every invariant and every action property that a run checks is proved. Only
model-checked: the liveness properties, for which the prover has no rule for
fairness; they are `SpinEnds`, `EventuallyClosed`, `Drains`, `GoesOn`, `GetsWritten`, `WriteEnds`,
`Answered` and `GetsVerdict`. The conditions named above are those the runs are under, and
what happens without them is in sections 5 and 6.

## 5. Disagreements the runs show

* `FindStaleTimer`: a client hangs up, `main()` calls `close_conn` and leaves the
  timer (`web_server.cpp:282-285`). The next client gets the number, and the old
  timer closes its connection, although `src/README.md:76` says that inactive ones are.
* `FindSplitBody`: when a body comes in two pieces `parse_content` sets
  `line_status = LINE_OPEN`, `process_read` goes on with `parse_line()` over the
  first piece, and `m_checked_idx`, which line 303 measures from, is then past it.
  The request is never answered.

## 6. What bounds the passing runs, and other observations

The passing runs state the conditions under which the program is right. What
happens outside them was seen while modelling:

* *Empty files with a reused slot.* `close_conn` by a worker stores `m_sockfd = -1` after
  it has closed the number (`http_conn.cpp:104-107`); `main()` may have accepted a
  new client in between, whose slot then has no `m_sockfd` and cannot be closed by
  its timer. Hence `TimerCovers` and `EventuallyClosed` are checked with
  `EmptyFiles = FALSE`. The same goes for `m_user_count`: the `--` of a worker and the
  `++` of `main()` are plain loads and stores, and an update may be lost.
* *Busy slots.* `ConnExclusive` and `RepliesBelong` are checked and proved with
  `ReuseBusy = FALSE`. After `close_conn` by a worker, or while a worker that has set
  `improv` is still in `process()`, `accept()` may return the same number; the new
  registration then brings a second worker to the slot, which the comment at
  `http_conn.cpp:63-71` says EPOLLONESHOT prevents. `ReactorReplies.cfg` with
  `ReuseBusy = TRUE` gives the behaviour.
* *A failed INSERT* leaves its name in the map (`http_conn.cpp:410-411`): until the next start
  the name cannot be registered, and its password logs in. `LoginRight` leaves such
  names out.
* *Searching `users` while it is turned* may turn a client away whose password is right;
  `users[name]` may then add the name a second time, with no password.
* *`Log::init`'s result* is ignored by `main()`: a log that cannot be opened ends the program
  at the first line the flush thread writes (`NullFile` of `Log`).
* *`add_response`* leaves out a line that does not fit, and nobody but `add_content`'s
  callers looks at its result.
* *`improv` before `timer_flag`* (`threadpool.h:118-121, 127-131`): `main()` may see the first
  alone and take a failed job for a success. The stale `timer_flag` then fails the
  next job, or the timer closes the connection: `EventuallyClosed` covers both.
* *One `accept()` per edge* (`web_server.cpp:231-252`, `listenfd` is edge-triggered): of two
  connections behind one edge the second stays in the backlog until another
  client connects.
* *`MAX_FD`*: `m_user_count` is limited, the index into `users[]` is not
  (`web_server.cpp:239-247`).
* *The header cut twice*: `write()` subtracts all that was sent from what was left of
  `m_iv[0]` (`http_conn.cpp:546-550`), which is right only the first time `writev` stops in
  the header. `HeaderSplits = 1` says so.
* *A mapping left by `close_conn`* is unmapped by the slot's next reply, with the size
  in `m_file_stat`, which may be another file's (`http_conn.cpp:503-509`).
* *`front()` and `back()` of `block_queue`*: `m_front` is the slot popped last, so `front()` is
  not the first item. Nobody calls it.
* *`GetConnection`* returns NULL instead of waiting when the unlocked test finds the
  list empty (`sql_pool.cpp:68`); with as many connections as workers it never does.
* *Log files* may exceed `m_split_lines`, and lines queued before midnight go into the
  file of the new day, because lines are counted when logged and written later.
* *LINE_BAD* ends `process_read` with NO_REQUEST: a malformed line gets no answer, and
  the timer closes the connection.

## 7. Not modelled

* Pipelined requests: `init()` drops what was read of the next request together with
  the last one (`http_conn.cpp:142-151`), so the code promises nothing about them;
  `HttpParser`'s client waits for its answer.
* The two parts of `do_request` together: `Accounts` chooses the page, `HttpReply` takes the
  page from there. How name and password are cut out of a body, and how they are put
  into the text of the INSERT, is left out; a table without the name as its key too.
* Failures of MySQL other than an INSERT that is refused, and `DestroyPool`, which runs
  when the process is at its end (`Exit`).
* Failures of writes by stdio.
* Formatting, content types, the spelling of methods, URLs and fields.
* `cond::timewait` and `cond::signal`, which nobody calls; failures of system calls at
  start-up, which end the program.
* `m_max_requests` above 1 makes no difference: `NeverFull` holds for every value.
* `users[]` is taken to start as zeros: `new http_conn[ MAX_FD ]` is large enough to be
  mapped fresh from the kernel.
* Static pages.

## 8. Plan

1. *Done.* `Reactor` with its properties; `TimerList`, `BlockQueue`, `SqlPool`, `Log`,
   `HttpReply`, `HttpParser`, `Accounts`; all their safety properties proved.
2. *Left.* Proofs: the safety part of the other liveness properties, as `NoStall` is for
   `GetsVerdict`: a measure that the steps of `write()`, of the flush thread and of a login
   bring down.

## 9. Running

    tlc -config ReactorReplies.cfg MCReactor.tla
    tlapm ReactorProofs.tla

`PROJECT.json` names the module of each configuration. The three Reactor runs
take one to three minutes each with two workers, `LogFiles` and `AccountsRestart`
about two, the others less than one. The proofs take some minutes each.
