-------------------------- MODULE BlockQueueProofs --------------------------
(* Proofs about BlockQueue for every number of consumers and every size.   *)
EXTENDS BlockQueue, TLAPS

\* The next slot of the ring is a slot of the ring.
LEMMA NextSlot ==
  ASSUME NEW i \in -1 .. max_size - 1
  PROVE  (i + 1) % max_size \in 0 .. max_size - 1
BY QueueAssumption

IInv == TypeOK /\ NoSleeper

\* A new queue (block_queue.h:14-22) is well typed and nobody sleeps.
LEMMA InitIInv == Init => IInv
BY QueueAssumption DEF Init, IInv, TypeOK, NoSleeper

\* push() wakes whoever could take its item (block_queue.h:90-103).
LEMMA PushKeeps == ASSUME IInv, NEW x \in Items, push(x) PROVE IInv'
<1> USE QueueAssumption DEF IInv, TypeOK, push, broadcast, ring, Full
<1>1. m_size' \in 0 .. max_size
  OBVIOUS
<1>2. m_back' \in -1 .. max_size - 1 /\ m_front' \in -1 .. max_size - 1
  BY NextSlot
<1>3. m_array' \in [0 .. max_size - 1 -> Items \cup {Garbage}]
  OBVIOUS
<1>4. /\ pc' \in [Consumers -> {"run", "wait", "woken"}]
      /\ \A c \in Consumers : pc'[c] # "wait"
  OBVIOUS
<1> QED
  BY <1>1, <1>2, <1>3, <1>4 DEF NoSleeper

\* pop() leaves no one asleep over an item (block_queue.h:105-118).
LEMMA PopKeeps == ASSUME IInv, NEW c \in Consumers, pop(c) PROVE IInv'
<1> USE QueueAssumption DEF IInv, TypeOK, pop
<1>1. m_front' \in 0 .. max_size - 1
  BY NextSlot
<1>2. item' \in [Consumers -> Items \cup {Garbage}]
  BY <1>1
<1>3. m_size' \in 0 .. max_size /\ (m_size' > 0 => m_size > 0)
  OBVIOUS
<1>4. NoSleeper'
  BY <1>3 DEF NoSleeper
<1> QED
  BY <1>1, <1>2, <1>3, <1>4

\* Every critical section keeps the invariant.
LEMMA StepKeeps == IInv /\ [Next]_bvars => IInv'
<1> SUFFICES ASSUME IInv, [Next]_bvars PROVE IInv'
  OBVIOUS
<1>1. ASSUME NEW x \in Items, push(x) PROVE IInv'
  BY <1>1, PushKeeps
<1>2. ASSUME NEW c \in Consumers, pop(c) PROVE IInv'
  BY <1>2, PopKeeps
<1>3. ASSUME NEW c \in Consumers, pop_wait(c) PROVE IInv'
  BY <1>3 DEF IInv, TypeOK, NoSleeper, pop_wait, ring
<1>4. ASSUME NEW c \in Consumers, spurious(c) PROVE IInv'
  BY <1>4 DEF IInv, TypeOK, NoSleeper, spurious, ring
<1>5. CASE clear
  BY <1>5, QueueAssumption DEF IInv, TypeOK, NoSleeper, clear
<1>6. CASE UNCHANGED bvars
  BY <1>6 DEF IInv, TypeOK, NoSleeper, bvars
<1> QED
  BY <1>1, <1>2, <1>3, <1>4, <1>5, <1>6 DEF Next

\* Whatever the number of consumers and the size, the indices stay in the
\* array and m_size within its bounds.
THEOREM QueueTypeCorrect == Spec => []TypeOK
<1>1. Spec => []IInv
  BY InitIInv, StepKeeps, PTL DEF Spec
<1> QED
  BY <1>1, PTL DEF IInv

\* No wakeup is lost, whatever the number of consumers: none waits on m_cond
\* while there is an item (the mutex, the while test and the broadcast of
\* block_queue.h:90-118 together).
THEOREM NoWakeupLost == Spec => []NoSleeper
<1>1. Spec => []IInv
  BY InitIInv, StepKeeps, PTL DEF Spec
<1> QED
  BY <1>1, PTL DEF IInv

-----------------------------------------------------------------------------
(* The ring implements BoundedQueue.                                       *)

\* % max_size on the numbers the code applies it to.
LEMMA Wrap ==
  ASSUME NEW k \in 0 .. max_size + max_size - 1
  PROVE  k % max_size = IF k < max_size THEN k ELSE k - max_size
<1> DEFINE q == k \div max_size
           r == k % max_size
<1>1. /\ q \in Int /\ r \in 0 .. max_size - 1
      /\ k = max_size * q + r
      /\ max_size \in Nat \ {0}
  BY QueueAssumption
<1>2. SUFFICES r = IF k < max_size THEN k ELSE k - max_size
  OBVIOUS
<1> HIDE DEF q, r
<1>3. CASE q <= -1
  <2>1. max_size * q <= -max_size
    BY <1>1, <1>3
  <2> QED
    BY <2>1, <1>1
<1>4. CASE q >= 2
  <2>1. max_size * q >= max_size + max_size
    BY <1>1, <1>4
  <2> QED
    BY <2>1, <1>1
<1>5. CASE q = 0
  <2>1. max_size * q = 0
    BY <1>1, <1>5
  <2> QED
    BY <2>1, <1>1
<1>6. CASE q = 1
  <2>1. max_size * q = max_size
    BY <1>1, <1>6
  <2> QED
    BY <2>1, <1>1
<1> QED
  BY <1>1, <1>3, <1>4, <1>5, <1>6

\* The step from one slot to the next.
LEMMA WrapNext ==
  ASSUME NEW i \in -1 .. max_size - 1
  PROVE  (i + 1) % max_size = IF i + 1 < max_size THEN i + 1 ELSE 0
<1>1. i + 1 \in 0 .. max_size + max_size - 1
  BY QueueAssumption
<1>2. (i + 1) % max_size = IF i + 1 < max_size THEN i + 1 ELSE (i + 1) - max_size
  BY <1>1, Wrap
<1>3. ~(i + 1 < max_size) => (i + 1) - max_size = 0
  BY QueueAssumption
<1> QED
  BY <1>2, <1>3

Slot(k) == IF k < max_size THEN k ELSE k - max_size

\* The two indices agree with m_size, also after clear() and before any push.
Agree == m_back = Slot(m_front + m_size)

\* m_front and m_back of a new queue agree (block_queue.h:18-20).
LEMMA AgreeInit == Init => Agree
BY QueueAssumption DEF Init, Agree, Slot

\* m_back stays m_size slots after m_front (block_queue.h:23-29, 90-118).
LEMMA AgreeStep == TypeOK /\ Agree /\ [Next]_bvars => Agree'
<1> SUFFICES ASSUME TypeOK, Agree, [Next]_bvars PROVE Agree'
  OBVIOUS
<1> USE QueueAssumption DEF TypeOK, Agree, Slot
<1>1. ASSUME NEW x \in Items, push(x) PROVE Agree'
  <2>1. CASE Full
    BY <1>1, <2>1 DEF push, ring
  <2>2. CASE ~Full
    <3>1. (m_back + 1) % max_size = IF m_back + 1 < max_size THEN m_back + 1 ELSE 0
      BY WrapNext
    <3> QED
      BY <1>1, <2>2, <3>1 DEF push, Full
  <2> QED
    BY <2>1, <2>2
<1>2. ASSUME NEW c \in Consumers, pop(c) PROVE Agree'
  <2>1. (m_front + 1) % max_size = IF m_front + 1 < max_size THEN m_front + 1 ELSE 0
    BY WrapNext
  <2>2. m_size > 0 /\ m_size' = m_size - 1 /\ m_back' = m_back
    BY <1>2 DEF pop
  <2>3. m_front' = IF m_front + 1 < max_size THEN m_front + 1 ELSE 0
    BY <1>2, <2>1 DEF pop
  <2>4. CASE m_front + 1 < max_size
    BY <2>2, <2>3, <2>4
  <2>5. CASE m_front = max_size - 1
    BY <2>2, <2>3, <2>5
  <2> QED
    BY <2>4, <2>5
<1>3. ASSUME NEW c \in Consumers, pop_wait(c) \/ spurious(c) PROVE Agree'
  BY <1>3 DEF pop_wait, spurious, ring
<1>4. CASE clear
  BY <1>4 DEF clear
<1>5. CASE UNCHANGED bvars
  BY <1>5 DEF bvars
<1> QED
  BY <1>1, <1>2, <1>3, <1>4, <1>5 DEF Next

\* The contents of a ring, slot by slot.
ContentsOf(front, size, array) == [i \in 1 .. size |-> array[(front + i) % max_size]]

\* The contents of a ring, slot by slot.
LEMMA ContentsAre ==
  ASSUME NEW front \in -1 .. max_size - 1, NEW size \in 0 .. max_size,
         NEW array \in [0 .. max_size - 1 -> Items \cup {Garbage}]
  PROVE  /\ ContentsOf(front, size, array) \in Seq(Items \cup {Garbage})
         /\ Len(ContentsOf(front, size, array)) = size
         /\ \A i \in 1 .. size :
               /\ Slot(front + i) \in 0 .. max_size - 1
               /\ ContentsOf(front, size, array)[i] = array[Slot(front + i)]
<1> DEFINE s == [i \in 1 .. size |-> array[(front + i) % max_size]]
<1>1. ASSUME NEW i \in 1 .. size
      PROVE  /\ (front + i) % max_size = Slot(front + i)
             /\ Slot(front + i) \in 0 .. max_size - 1
  <2>1. front + i \in 0 .. max_size + max_size - 1
    BY QueueAssumption
  <2>2. (front + i) % max_size = Slot(front + i)
    BY <2>1, Wrap DEF Slot
  <2> QED
    BY <2>1, <2>2, QueueAssumption DEF Slot
<1>2. \A i \in 1 .. size : array[(front + i) % max_size] \in Items \cup {Garbage}
  BY <1>1
<1>3. size \in Nat
  BY QueueAssumption
<1>4. s \in Seq(Items \cup {Garbage}) /\ Len(s) = size
  BY <1>2, <1>3
<1> QED
  BY <1>1, <1>4 DEF ContentsOf

\* A step of the ring, in terms of its slots before and after.
Shape(s, front, size, array) ==
  /\ s \in Seq(Items \cup {Garbage})
  /\ Len(s) = size
  /\ \A i \in 1 .. size : /\ Slot(front + i) \in 0 .. max_size - 1
                          /\ s[i] = array[Slot(front + i)]

\* The contents are a sequence of m_size items, before a step and after.
LEMMA Shapes ==
  ASSUME TypeOK, TypeOK'
  PROVE  /\ Shape(Contents, m_front, m_size, m_array)
         /\ Shape(Contents', m_front', m_size', m_array')
<1>1. /\ m_front \in -1 .. max_size - 1 /\ m_size \in 0 .. max_size
      /\ m_array \in [0 .. max_size - 1 -> Items \cup {Garbage}]
  BY DEF TypeOK
<1>2. /\ m_front' \in -1 .. max_size - 1 /\ m_size' \in 0 .. max_size
      /\ m_array' \in [0 .. max_size - 1 -> Items \cup {Garbage}]
  BY DEF TypeOK
<1>3. Shape(ContentsOf(m_front, m_size, m_array), m_front, m_size, m_array)
  BY <1>1, ContentsAre DEF Shape
<1>4. Shape(ContentsOf(m_front', m_size', m_array'), m_front', m_size', m_array')
  BY <1>2, ContentsAre DEF Shape
<1>5. Contents = ContentsOf(m_front, m_size, m_array)
  BY DEF Contents, ContentsOf
<1>6. Contents' = ContentsOf(m_front', m_size', m_array')
  BY DEF Contents, ContentsOf
<1> QED
  BY <1>3, <1>4, <1>5, <1>6

\* push() appends its item, or changes nothing (block_queue.h:90-103).
LEMMA PushIsPush ==
  ASSUME TypeOK, Agree, TypeOK', NEW x \in Items, push(x)
  PROVE  [Abstract!QueuePush]_<<Contents, item>>
<1> USE QueueAssumption
<1>1. CASE Full
  BY <1>1 DEF push, ring, Contents
<1>2. CASE ~Full
  <2>1. m_size < max_size /\ m_size' = m_size + 1 /\ m_front' = m_front /\ item' = item
    BY <1>2 DEF push, Full, TypeOK
  <2>2. m_back' = Slot(m_front + m_size + 1)
    <3>1. (m_back + 1) % max_size = IF m_back + 1 < max_size THEN m_back + 1 ELSE 0
      BY WrapNext DEF TypeOK
    <3> QED
      BY <1>2, <3>1 DEF push, Full, TypeOK, Agree, Slot
  <2>3. m_array' = [m_array EXCEPT ![m_back'] = x]
    BY <1>2 DEF push
  <2>4. /\ Contents \in Seq(Items \cup {Garbage}) /\ Len(Contents) = m_size
        /\ \A i \in 1 .. m_size : /\ Slot(m_front + i) \in 0 .. max_size - 1
                                  /\ Contents[i] = m_array[Slot(m_front + i)]
    BY Shapes DEF Shape
  <2>5. /\ Contents' \in Seq(Items \cup {Garbage}) /\ Len(Contents') = m_size + 1
        /\ \A i \in 1 .. m_size + 1 : Contents'[i] = m_array'[Slot(m_front + i)]
    BY Shapes, <2>1 DEF Shape
  <2>6. \A i \in 1 .. m_size : Slot(m_front + i) # m_back'
    BY <2>1, <2>2 DEF Slot, TypeOK
  <2>7. \A i \in 1 .. m_size : Contents'[i] = Contents[i]
    BY <2>1, <2>3, <2>4, <2>5, <2>6 DEF TypeOK
  <2>8. Contents'[m_size + 1] = x
    <3>1. m_back' \in 0 .. max_size - 1
      BY <2>1, <2>2 DEF TypeOK, Slot
    <3>2. m_front + m_size + 1 = m_front + (m_size + 1) /\ m_size + 1 \in 1 .. m_size + 1
      BY DEF TypeOK
    <3> QED
      BY <2>2, <2>3, <2>5, <3>1, <3>2 DEF TypeOK
  <2>9. Contents' = Append(Contents, x)
    <3>1. m_size \in Nat
      BY DEF TypeOK
    <3> HIDE DEF Contents
    <3> QED
      BY <2>4, <2>5, <2>7, <2>8, <3>1
  <2> QED
    BY <2>1, <2>4, <2>9 DEF Abstract!QueuePush
<1> QED
  BY <1>1, <1>2

\* The first item of a sequence, and the sequence without it.
LEMMA HeadTail ==
  ASSUME NEW S, NEW s \in Seq(S), NEW t \in Seq(S), Len(s) > 0,
         Len(t) = Len(s) - 1, \A i \in 1 .. Len(s) - 1 : t[i] = s[i + 1]
  PROVE  s # <<>> /\ Head(s) = s[1] /\ t = Tail(s)
OBVIOUS

\* pop() takes the first item (block_queue.h:105-118).
LEMMA PopIsPop ==
  ASSUME TypeOK, TypeOK', NEW c \in Consumers, pop(c)
  PROVE  Abstract!QueuePop
<1> USE QueueAssumption
<1>1. m_size > 0 /\ m_size' = m_size - 1 /\ m_array' = m_array
  BY DEF pop
<1>2. m_front' = Slot(m_front + 1)
  <2>1. (m_front + 1) % max_size = IF m_front + 1 < max_size THEN m_front + 1 ELSE 0
    BY WrapNext DEF TypeOK
  <2> QED
    BY <2>1 DEF pop, Slot, TypeOK
<1>3. /\ Contents \in Seq(Items \cup {Garbage}) /\ Len(Contents) = m_size
      /\ \A i \in 1 .. m_size : Contents[i] = m_array[Slot(m_front + i)]
  BY Shapes DEF Shape
<1>4. /\ Contents' \in Seq(Items \cup {Garbage}) /\ Len(Contents') = m_size - 1
      /\ \A i \in 1 .. m_size - 1 : Contents'[i] = m_array[Slot(m_front' + i)]
  BY Shapes, <1>1 DEF Shape
<1>5. \A i \in 1 .. m_size - 1 : Slot(m_front' + i) = Slot(m_front + (i + 1))
  BY <1>1, <1>2 DEF Slot, TypeOK
<1>6. \A i \in 1 .. m_size - 1 : Contents'[i] = Contents[i + 1]
  <2> SUFFICES ASSUME NEW i \in 1 .. m_size - 1 PROVE Contents'[i] = Contents[i + 1]
    OBVIOUS
  <2>1. i + 1 \in 1 .. m_size
    BY DEF TypeOK
  <2> QED
    BY <1>3, <1>4, <1>5, <2>1
<1>7. m_size \in Nat /\ 1 \in 1 .. m_size
  BY <1>1 DEF TypeOK
<1>8. Contents # <<>> /\ Head(Contents) = Contents[1] /\ Contents' = Tail(Contents)
  <2> HIDE DEF Contents
  <2>1. Len(Contents) > 0 /\ Len(Contents') = Len(Contents) - 1
    BY <1>1, <1>3, <1>4
  <2>2. \A i \in 1 .. Len(Contents) - 1 : Contents'[i] = Contents[i + 1]
    BY <1>3, <1>6
  <2> QED
    BY <1>3, <1>4, <2>1, <2>2, HeadTail
<1>9. item' = [item EXCEPT ![c] = Head(Contents)]
  <2>1. Contents[1] = m_array[Slot(m_front + 1)]
    BY <1>3, <1>7
  <2> QED
    BY <1>2, <1>8, <2>1 DEF pop
<1> QED
  BY <1>8, <1>9 DEF Abstract!QueuePop

\* The ring is a first-in first-out queue for every size and any number of
\* consumers: each push appends or finds the queue full, each pop hands out
\* the oldest item, whatever the wraps of m_front and m_back in between
\* (block_queue.h:23-29, 90-118).
THEOREM RingIsQueue == Spec => ImplementsQueue
<1>1. Init => Abstract!QueueInit
  BY DEF Init, Abstract!QueueInit, Contents
<1>2. ASSUME TypeOK, Agree, TypeOK', [Next]_bvars
      PROVE  [Abstract!QueuePush \/ Abstract!QueuePop \/ Abstract!QueueClear]_<<Contents, item>>
  <2>1. ASSUME NEW x \in Items, push(x) PROVE [Abstract!QueuePush]_<<Contents, item>>
    BY <1>2, <2>1, PushIsPush
  <2>2. ASSUME NEW c \in Consumers, pop(c) PROVE Abstract!QueuePop
    BY <1>2, <2>2, PopIsPop
  <2>3. ASSUME NEW c \in Consumers, pop_wait(c) \/ spurious(c)
        PROVE  UNCHANGED <<Contents, item>>
    BY <2>3 DEF pop_wait, spurious, ring, Contents
  <2>4. CASE clear
    BY <2>4 DEF clear, Contents, Abstract!QueueClear
  <2>5. CASE UNCHANGED bvars
    BY <2>5 DEF bvars, Contents
  <2> QED
    BY <1>2, <2>1, <2>2, <2>3, <2>4, <2>5 DEF Next
<1>3. Spec => []TypeOK
  BY QueueTypeCorrect
<1>4. Spec => []Agree
  <2>1. TypeOK /\ Agree /\ [Next]_bvars => Agree'
    BY AgreeStep
  <2> QED
    BY AgreeInit, <2>1, <1>3, PTL DEF Spec
<1> QED
  BY <1>1, <1>2, <1>3, <1>4, PTL DEF Spec, ImplementsQueue, Abstract!QueueSpec
=============================================================================
