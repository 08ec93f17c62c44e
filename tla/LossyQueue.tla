------------------------------ MODULE LossyQueue ------------------------------
(***************************************************************************)
(* What the ring buffer of the lock-free monitor promises to those who push*)
(* and pop (include/hetkvcache/monitor/lockfree_monitor.h): a first-in     *)
(* first-out queue of at most Capacity items.  A push that does not get in *)
(* is dropped; an item that got in is taken once, by one consumer, as it   *)
(* was pushed.                                                             *)
(***************************************************************************)
EXTENDS Naturals, Sequences

CONSTANTS Items, Consumers, Capacity, NoItem

VARIABLES
  queue,   \* the items that got in and were not taken
  taken    \* the item each consumer has in hand

queueVars == <<queue, taken>>

QueueInit == queue = <<>> /\ taken = [c \in Consumers |-> NoItem]

Put(x) ==
  /\ Len(queue) < Capacity
  /\ queue' = Append(queue, x)
  /\ UNCHANGED taken

Take(c) ==
  /\ queue # <<>>
  /\ queue' = Tail(queue)
  /\ taken' = [taken EXCEPT ![c] = Head(queue)]

\* The consumer is done with what it took.
Discard(c) ==
  /\ taken' = [taken EXCEPT ![c] = NoItem]
  /\ UNCHANGED queue

QueueNext ==
  \/ \E x \in Items : Put(x)
  \/ \E c \in Consumers : Take(c) \/ Discard(c)

QueueSpec == QueueInit /\ [][QueueNext]_queueVars

=============================================================================
