---------------------------- MODULE BoundedQueue ----------------------------
(* What block_queue promises: a first-in first-out queue of at most        *)
(* max_size items; push is refused only when it is full.                   *)
EXTENDS Integers, Sequences

CONSTANTS Items, Consumers, max_size, Garbage

VARIABLES
  queue,
  taken         \* the last item each consumer was handed

QueueInit == queue = <<>> /\ taken = [c \in Consumers |-> Garbage]

QueuePush ==
  /\ Len(queue) < max_size
  /\ \E x \in Items : queue' = Append(queue, x)
  /\ UNCHANGED taken

QueuePop ==
  /\ queue # <<>>
  /\ queue' = Tail(queue)
  /\ \E c \in Consumers : taken' = [taken EXCEPT ![c] = Head(queue)]

QueueClear == queue' = <<>> /\ UNCHANGED taken

QueueSpec ==
  QueueInit /\ [][QueuePush \/ QueuePop \/ QueueClear]_<<queue, taken>>
=============================================================================
