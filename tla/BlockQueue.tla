----------------------------- MODULE BlockQueue -----------------------------
(***************************************************************************)
(* block_queue of block_queue.h: a ring buffer under one mutex, with a     *)
(* condition variable for the threads that pop.  An action is a critical   *)
(* section; pop() is left in the middle when it waits on m_cond.           *)
(***************************************************************************)
EXTENDS Integers, Sequences

CONSTANTS
  Items,        \* values pushed
  Consumers,    \* threads that pop; any thread may push
  max_size,
  Garbage       \* what a slot holds that was never written

ASSUME QueueAssumption == max_size \in Nat \ {0} /\ Garbage \notin Items

VARIABLES
  m_array, m_size, m_front, m_back,
  pc,           \* consumer: "run", "wait" on m_cond, "woken"
  item          \* consumer: the last item popped

bvars == <<m_array, m_size, m_front, m_back, pc, item>>
ring == <<m_array, m_size, m_front, m_back>>

Init ==
  /\ m_array = [i \in 0 .. max_size - 1 |-> Garbage]
  /\ m_size = 0
  /\ m_front = -1
  /\ m_back = -1
  /\ pc = [c \in Consumers |-> "run"]
  /\ item = [c \in Consumers |-> Garbage]

\* Mutant: nobody is woken.
broadcast_None == UNCHANGED pc

\* Mutant: pthread_cond_signal wakes one of the waiting threads.
broadcast_One ==
  LET waiting == {c \in Consumers : pc[c] = "wait"} IN
  IF waiting = {} THEN UNCHANGED pc
  ELSE \E c \in waiting : pc' = [pc EXCEPT ![c] = "woken"]

\* m_cond.broadcast()
broadcast == pc' = [c \in Consumers |-> IF pc[c] = "wait" THEN "woken" ELSE pc[c]]

\* Mutant: >= has become >.
Full_OffByOne == m_size > max_size

Full == m_size >= max_size

\* push( item )
push(x) ==
  /\ \/ Full /\ UNCHANGED ring
     \/ ~Full
        /\ m_back' = (m_back + 1) % max_size
        /\ m_array' = [m_array EXCEPT ![m_back'] = x]
        /\ m_size' = m_size + 1
        /\ UNCHANGED m_front
  /\ broadcast
  /\ UNCHANGED item

\* pop( item ): the lock, or the return from m_cond.wait, and the while test.
pop_wait(c) ==
  /\ pc[c] \in {"run", "woken"}
  /\ m_size <= 0
  /\ pc' = [pc EXCEPT ![c] = "wait"]
  /\ UNCHANGED <<ring, item>>

pop(c) ==
  /\ pc[c] \in {"run", "woken"}
  /\ m_size > 0
  /\ m_front' = (m_front + 1) % max_size
  /\ item' = [item EXCEPT ![c] = m_array[m_front']]
  /\ m_size' = m_size - 1
  /\ pc' = [pc EXCEPT ![c] = "run"]
  /\ UNCHANGED <<m_array, m_back>>

\* pthread_cond_wait may return without a broadcast.
spurious(c) ==
  /\ pc[c] = "wait"
  /\ pc' = [pc EXCEPT ![c] = "woken"]
  /\ UNCHANGED <<ring, item>>

\* Mutant: clear() forgets m_back.
clear_Partly ==
  /\ m_size' = 0 /\ m_front' = -1
  /\ UNCHANGED <<m_back, m_array, pc, item>>

\* clear()
clear ==
  /\ m_size' = 0 /\ m_front' = -1 /\ m_back' = -1
  /\ UNCHANGED <<m_array, pc, item>>

Next ==
  \/ \E x \in Items : push(x)
  \/ \E c \in Consumers : pop(c) \/ pop_wait(c) \/ spurious(c)
  \/ clear

Spec == Init /\ [][Next]_bvars

\* Every thread that pops is scheduled; nobody has to push or to clear.
FairSpec == Spec /\ \A c \in Consumers : WF_bvars(pop(c) \/ pop_wait(c))

-----------------------------------------------------------------------------
\* The indices are slots, or -1 before the first push or pop.
TypeOK ==
  /\ m_array \in [0 .. max_size - 1 -> Items \cup {Garbage}]
  /\ m_size \in 0 .. max_size
  /\ m_front \in -1 .. max_size - 1
  /\ m_back \in -1 .. max_size - 1
  /\ pc \in [Consumers -> {"run", "wait", "woken"}]
  /\ item \in [Consumers -> Items \cup {Garbage}]

\* m_front is the slot popped last, so the items are the m_size slots after it.
Contents == [i \in 1 .. m_size |-> m_array[(m_front + i) % max_size]]

Abstract == INSTANCE BoundedQueue WITH queue <- Contents, taken <- item

\* The ring is a first-in first-out queue: pop hands out the oldest item, a
\* push on a full ring changes nothing, and the two indices agree wherever they
\* wrap and after clear() (block_queue.h:23-29, 90-118).
ImplementsQueue == Abstract!QueueSpec

\* No consumer sleeps on m_cond while there is an item: no wakeup is lost
\* between the while test, the wait and the broadcast (block_queue.h:100, 107).
NoSleeper == m_size > 0 => \A c \in Consumers : pc[c] # "wait"

\* Items do not stay for good while consumers run: the queue is emptied, or
\* items are popped, again and again (block_queue.h:90-118).
Drains == []<>(m_size = 0) \/ []<><<\E c \in Consumers : pop(c)>>_bvars
=============================================================================
