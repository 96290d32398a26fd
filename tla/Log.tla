-------------------------------- MODULE Log ---------------------------------
(***************************************************************************)
(* Log of log.cpp and log.h: LOG_INFO and its like, which only main()      *)
(* calls, the queue of lines, the thread that writes them, the change of   *)
(* file after m_split_lines lines or at midnight, an fopen that fails,     *)
(* stdio's buffer, and a crash followed by a new start.  What is done      *)
(* under m_mutex, or under the mutex of the queue, is one step.  A line is *)
(* its number.                                                             *)
(***************************************************************************)
EXTENDS Integers, Sequences, FiniteSets

CONSTANTS
  m_split_lines,     \* lines per file
  max_queue_size,    \* size of the block_queue; 0 to write synchronously
  MaxLines,          \* bound: lines main() logs
  MaxDay,            \* bound: the last day
  MaxCrashes         \* bound: crashes

ASSUME LogAssumption ==
  /\ m_split_lines \in Nat \ {0} /\ max_queue_size \in Nat
  /\ MaxLines \in Nat /\ MaxDay \in Nat \ {0} /\ MaxCrashes \in Nat

VARIABLES
  today,             \* the day of gettimeofday
  m_today, m_count,
  m_fp,              \* name of the open file: day and suffix
  files,             \* what each file holds on disk
  buf,               \* lines in the stdio buffer of m_fp
  m_log_queue,
  lines,             \* number of lines main() has logged
  stamp,             \* day a line carries
  pc,                \* label of main() in LOG_INFO
  held,              \* the line the flush thread has popped, 0 for none
  direct,            \* history: lines main() wrote itself, the queue being full
  lost, crashes      \* history

fileVars == <<m_today, m_count, m_fp, files, buf>>
history == <<direct, lost, crashes>>
lvars == <<today, fileVars, m_log_queue, lines, stamp, pc, held, history>>

Lines == 1 .. MaxLines
Days == 1 .. MaxDay
Files == Days \X (0 .. MaxLines)
NoLine == 0
NoFile == <<0, 0>>   \* m_fp is NULL

Init ==
  /\ today = 1
  /\ m_today = 1 /\ m_count = 0
  /\ m_fp = <<1, 0>>
  /\ files = [f \in Files |-> <<>>]
  /\ buf = <<>>
  /\ m_log_queue = <<>>
  /\ lines = 0
  /\ stamp = [l \in Lines |-> 1]
  /\ pc = "idle"
  /\ held = NoLine
  /\ direct = {} /\ lost = {} /\ crashes = 0

Midnight ==
  /\ today < MaxDay
  /\ today' = today + 1
  /\ UNCHANGED <<fileVars, m_log_queue, lines, stamp, pc, held, history>>

Goto(from, to) == pc = from /\ pc' = to

\* write_log: gettimeofday, before the lock.
ReadClock ==
  /\ Goto("idle", "rotate")
  /\ lines < MaxLines
  /\ lines' = lines + 1
  /\ stamp' = [stamp EXCEPT ![lines + 1] = today]
  /\ UNCHANGED <<today, fileVars, m_log_queue, held, history>>

\* The files after the first k lines of the stdio buffer have been written.
Written(k) == IF m_fp = NoFile THEN files
              ELSE [files EXCEPT ![m_fp] = @ \o SubSeq(buf, 1, k)]

\* fflush( m_fp ), harmless if m_fp is NULL.
Flushed == Written(Len(buf))

\* What fopen returns.  (A failure leads to a crash: the bound covers both.)
fopen(name, dead) == {name} \cup (IF dead < MaxCrashes THEN {NoFile} ELSE {})

\* Mutants: day and suffix are swapped; the suffix is m_count % m_split_lines.
NewName_Swapped(day, count) == <<count \div m_split_lines, day>>

NewName_Remainder(day, count) == <<day, count % m_split_lines>>

NewName(day, count) == <<day, count \div m_split_lines>>

Due == m_today # stamp[lines] \/ (m_count + 1) % m_split_lines = 0

\* write_log, the first section under the lock: count the line, and go on to
\* a new file when the day has changed or the file is full.
Rotate ==
  LET day == stamp[lines]
      count == IF m_today = day THEN m_count + 1 ELSE 0
  IN
  /\ Goto("rotate", "full")
  /\ m_today' = day /\ m_count' = count
  /\ \/ ~Due /\ UNCHANGED <<m_fp, files, buf>>
     \/ /\ Due /\ m_fp # NoFile
        /\ m_fp' \in fopen(NewName(day, count), crashes)
        /\ files' = Flushed /\ buf' = <<>>
  /\ UNCHANGED <<today, m_log_queue, lines, stamp, held, history>>

\* Mutant: full() is true one line too late.
Full_OffByOne == Len(m_log_queue) > max_queue_size

Full == Len(m_log_queue) >= max_queue_size

\* The line is formatted into m_buf, which only main() uses; then the test of
\* m_log_queue->full().
TestFull ==
  /\ Goto("full", IF Full THEN "fputs" ELSE "push")
  /\ UNCHANGED <<today, fileVars, m_log_queue, lines, stamp, held, history>>

\* m_log_queue->push( log_str ), whose result is ignored.
Push ==
  /\ Goto("push", "flush")
  /\ m_log_queue' = IF Len(m_log_queue) >= max_queue_size
                    THEN m_log_queue ELSE Append(m_log_queue, lines)
  /\ UNCHANGED <<today, fileVars, lines, stamp, held, history>>

\* The queue is full: main() writes the line.
PutDirect ==
  /\ m_fp # NoFile
  /\ Goto("fputs", "flush")
  /\ buf' = Append(buf, lines)
  /\ direct' = direct \cup {lines}
  /\ UNCHANGED <<today, m_today, m_count, m_fp, files, m_log_queue, lines, stamp,
                 held, lost, crashes>>

\* Mutant: LOG_INFO does not flush.
flush_Not ==
  /\ Goto("flush", "idle")
  /\ UNCHANGED <<today, fileVars, m_log_queue, lines, stamp, held, history>>

\* Log::flush
flush ==
  /\ Goto("flush", "idle")
  /\ files' = Flushed /\ buf' = <<>>
  /\ UNCHANGED <<today, m_today, m_count, m_fp, m_log_queue, lines, stamp, held,
                 history>>

\* Mutants: pop() waits while there is one item; the newest line is popped.
Pop_KeepOne ==
  /\ held = NoLine
  /\ Len(m_log_queue) > 1
  /\ held' = Head(m_log_queue)
  /\ m_log_queue' = Tail(m_log_queue)
  /\ UNCHANGED <<today, fileVars, lines, stamp, pc, history>>

Pop_Newest ==
  /\ held = NoLine
  /\ m_log_queue # <<>>
  /\ held' = m_log_queue[Len(m_log_queue)]
  /\ m_log_queue' = SubSeq(m_log_queue, 1, Len(m_log_queue) - 1)
  /\ UNCHANGED <<today, fileVars, lines, stamp, pc, history>>

\* async_write_log: m_log_queue->pop( single_log )
Pop ==
  /\ held = NoLine
  /\ m_log_queue # <<>>
  /\ held' = Head(m_log_queue)
  /\ m_log_queue' = Tail(m_log_queue)
  /\ UNCHANGED <<today, fileVars, lines, stamp, pc, history>>

\* async_write_log: fputs, under the lock.
Put ==
  /\ held # NoLine /\ m_fp # NoFile
  /\ buf' = Append(buf, held)
  /\ held' = NoLine
  /\ UNCHANGED <<today, m_today, m_count, m_fp, files, m_log_queue, lines, stamp, pc,
                 history>>

OnDisk(l) == \E f \in Files : \E i \in DOMAIN files'[f] : files'[f][i] = l

\* The process ends; of the stdio buffer a part may have been written, all of it
\* if ~Log() has run.  The new process runs Log::init, whose result is ignored.
Restart ==
  /\ crashes' = crashes + 1
  /\ \E k \in 0 .. Len(buf) : files' = Written(k)
  /\ lost' = {l \in 1 .. lines : ~OnDisk(l)}
  /\ m_today' = today /\ m_count' = 0
  /\ m_fp' \in fopen(<<today, 0>>, crashes')
  /\ buf' = <<>>
  /\ m_log_queue' = <<>>
  /\ pc' = "idle"
  /\ held' = NoLine
  /\ UNCHANGED <<today, lines, stamp, direct>>

Crash == crashes < MaxCrashes /\ Restart

\* fputs or fclose of a NULL m_fp ends the process.
NullFile ==
  /\ m_fp = NoFile
  /\ held # NoLine \/ pc = "fputs" \/ (pc = "rotate" /\ Due)
  /\ Restart

write_log == Rotate \/ TestFull \/ Push \/ PutDirect
async_write_log == Pop \/ Put

Next ==
  Midnight \/ ReadClock \/ write_log \/ flush \/ async_write_log \/ NullFile \/ Crash

Spec == Init /\ [][Next]_lvars

\* main() goes on with a LOG_INFO it has begun, and the flush thread runs.
FairSpec ==
  Spec /\ WF_lvars(write_log \/ flush) /\ WF_lvars(async_write_log) /\ WF_lvars(NullFile)

-----------------------------------------------------------------------------
\* Every variable keeps its type.
TypeOK ==
  /\ today \in Days /\ m_today \in Days
  /\ m_count \in 0 .. MaxLines
  /\ m_fp \in Files \cup {NoFile}
  /\ files \in [Files -> Seq(Lines)]
  /\ buf \in Seq(Lines)
  /\ m_log_queue \in Seq(Lines) /\ Len(m_log_queue) <= max_queue_size
  /\ lines \in 0 .. MaxLines
  /\ stamp \in [Lines -> Days]
  /\ pc \in {"idle", "rotate", "full", "push", "fputs", "flush"}
  /\ held \in Lines \cup {NoLine}
  /\ direct \subseteq Lines /\ lost \subseteq Lines
  /\ crashes \in 0 .. MaxCrashes

Hits(s, l) == Cardinality({i \in DOMAIN s : s[i] = l})
InHand(l) == pc \in {"rotate", "full", "push", "fputs"} /\ l = lines

\* How often line l is there, on its way or in a file.
Copies(l) ==
  Cardinality({w \in Files \X Lines : w[2] \in DOMAIN files[w[1]] /\ files[w[1]][w[2]] = l})
    + Hits(buf, l) + Hits(m_log_queue, l)
    + (IF held = l THEN 1 ELSE 0) + (IF InHand(l) THEN 1 ELSE 0)

\* The ignored result of push() (log.cpp:147-154) costs no line, and no line
\* is written twice, whatever main() and the flush thread do between full(),
\* push() and the change of file: each is in one place, unless a crash took it.
EachOnce == \A l \in 1 .. lines : Copies(l) = IF l \in lost THEN 0 ELSE 1

\* What a file holds, the lines in the stdio buffer included.
Content(f) == IF f = m_fp THEN files[f] \o buf ELSE files[f]

\* A line only overtakes an earlier one when main() wrote it itself because
\* the queue was full (log.cpp:147-154).
InOrder ==
  \A f \in Files : \A i, j \in DOMAIN Content(f) :
    i < j /\ Content(f)[i] > Content(f)[j] => Content(f)[i] \in direct

\* A file is longer than m_split_lines at most by what was queued and in the
\* hands of the flush thread when it was opened (log.cpp:105-124), once for
\* each start, since a new process counts from 0 again (log.cpp:8-11).
Overshoot ==
  \A f \in Files :
    Len(Content(f)) <= (crashes + 1) * (m_split_lines + max_queue_size + 1)

\* A crash costs at most the queue, the line in the hand of the flush thread
\* and the one being logged: LOG_INFO flushes after every line (log.h:57-60).
\* So does a file that cannot be opened (log.cpp:63, 123), which nobody notices
\* until something is put into it.
NotOnDisk == {l \in 1 .. lines : l \notin lost /\
                \A f \in Files : \A i \in DOMAIN files[f] : files[f][i] # l}
SmallLoss == Cardinality(NotOnDisk) <= max_queue_size + 2

\* A line that is logged gets into a file, whatever main() does afterwards.
OnItsWay(l) == InHand(l) \/ held = l \/ Hits(m_log_queue, l) > 0
GetsWritten == \A l \in Lines : OnItsWay(l) ~> ~OnItsWay(l)
=============================================================================
