------------------------- MODULE PriorityQueueOrder -------------------------
(***************************************************************************)
(* The order of the heap of PriorityQueueStore: a history variable says    *)
(* when something has happened that repairs need not make up for, which is *)
(* one of three things: a lock expired, a queue was moved below a larger   *)
(* parent, or a queue has several items.  As long as none has, the heap is *)
(* in order between calls, and lockNext chooses a most urgent queue.       *)
(***************************************************************************)
EXTENDS PriorityQueueProperties

VARIABLE disturbed  \* the heap may be out of order

ovars == <<vars, disturbed>>

-----------------------------------------------------------------------------
(* Order *)

\* getPriority, in any table of queues, for a queue with item r.
QueuePriority(q, r) ==
  IF q[r.discriminator].ttl > 0 THEN MaxSafeInteger ELSE r.priority

OneEach(its) == \A r, s \in its : r.discriminator = s.discriminator => r = s

\* The queue of r is the parent in the heap of the queue of s.
IsParent(q, r, s) ==
  /\ q[s.discriminator].index > 0
  /\ q[r.discriminator].index = (q[s.discriminator].index - 1) \div 2

InOrder(q, its) ==
  /\ OneEach(its)
  /\ \A r, s \in its : IsParent(q, r, s) => QueuePriority(q, r) <= QueuePriority(q, s)

-----------------------------------------------------------------------------
(* What disturbs it *)

\* A lock expires: its queue gets its priority back where it is.
LockExpires ==
  /\ Tick
  /\ \E d \in Discriminator : queues[d].ttl = 1 \/ committed.queues[d].ttl = 1

\* The queue that fills the hole a removed one leaves has come from below
\* another parent, and its new one is larger, that is, less urgent than it: it
\* is repaired downwards only.
MovedTooLow ==
  /\ Idle /\ ~ Idle'
  /\ \E r, s \in items' :
       /\ todo' # << >> /\ Head(todo') = Down(s.discriminator)
       /\ IsParent(queues', r, s)
       /\ QueuePriority(queues', r) > QueuePriority(queues', s)

\* A queue has several items: it is repaired by any of them, and not upwards
\* when it loses the first.
SeveralInQueue == ~ OneEach(items')

\* It lasts until the heap is found in order between two calls.
Disturb ==
  disturbed' = /\ disturbed \/ LockExpires \/ MovedTooLow \/ SeveralInQueue
               /\ ~ (Idle' /\ InOrder(queues', items'))

OrderSpec == Init /\ disturbed = FALSE /\ [][Next /\ Disturb]_ovars

-----------------------------------------------------------------------------
(* What has to hold of it *)

(***************************************************************************)
(* Between calls, and while not disturbed, the heap is in order: repairUp  *)
(* and repairDown restore it after each enqueue, lock, renewal,            *)
(* acknowledgement, deferral and removal, however many calls are rolled    *)
(* back, and however much time passes in the middle of a repair.  Nothing  *)
(* is said from the moment a lock expires (LockExpires), a queue is moved  *)
(* below a larger parent (MovedTooLow) or some queue has several items     *)
(* (SeveralInQueue), until the heap is found in order between two calls.   *)
(***************************************************************************)
Ordered == Idle /\ ~ disturbed => InOrder(queues, items)

(***************************************************************************)
(* While not disturbed, in the same sense, lockNext chooses a most urgent  *)
(* one of the queues that are not locked, although it takes the first it   *)
(* finds in the order of the heap, in which queues that are not below each *)
(* other may have any order.                                               *)
(***************************************************************************)
MostUrgentFirst == [][~ disturbed => ChoosesMostUrgent]_ovars

=============================================================================
