---------------------- MODULE PriorityQueueProperties ----------------------
(***************************************************************************)
(* What has to hold of PriorityQueueStore.                                 *)
(***************************************************************************)
EXTENDS PriorityQueueStore

(***************************************************************************)
(* Types.                                                                  *)
(***************************************************************************)
TypeOK ==
  /\ home \in [Item -> Discriminator]
  /\ queues \in [Discriminator -> QueueRow]
  /\ items \subseteq ItemRow
  /\ committed \in Tables
  /\ call \in Call \cup {NoCall}
  /\ todo \in Seq(Task)
  /\ status \in [Item -> {"new", "queued", "acknowledged", "removed"}]
  /\ holders \subseteq Holder

(***************************************************************************)
(* The queues fill the heap from the root on, each in a place of its own,  *)
(* whatever the repairs exchange, and also in the middle of a transaction: *)
(* else a repair stops at a hole, or finds two queues at a place.          *)
(***************************************************************************)
HeapIsDense ==
  /\ \A d, e \in Discriminator : Present(d) /\ queues[d].index = queues[e].index => d = e
  /\ \A d \in Discriminator : Present(d) =>
       \A n \in 0..queues[d].index : \E e \in Discriminator : queues[e].index = n

(***************************************************************************)
(* The items of a queue are numbered from 0 on, each once, and every queue *)
(* has one: lockNext, having chosen a queue, finds an item in it.          *)
(***************************************************************************)
QueueIsDense(d) ==
  /\ \A r, s \in ItemsOf(d) : r.indexInQueue = s.indexInQueue => r = s
  /\ \A r \in ItemsOf(d) : \A n \in 0..r.indexInQueue :
       \E s \in ItemsOf(d) : s.indexInQueue = n
  /\ Present(d) => ItemsOf(d) # {}

QueuesAreDense == \A d \in Discriminator : QueueIsDense(d)

(***************************************************************************)
(* Between calls, the items stored are those enqueued and neither          *)
(* acknowledged nor removed, and each belongs to a queue that lockNext can *)
(* choose: locks that expire, calls that are repeated or roll back, lose   *)
(* nothing and bring nothing back.                                         *)
(***************************************************************************)
NothingLost ==
  Idle => /\ {r.item : r \in items} = {i \in Item : status[i] = "queued"}
          /\ \A r \in items : Present(r.discriminator)

(***************************************************************************)
(* An acknowledgement, or a deferral, takes the item its token was given   *)
(* out with.                                                               *)
(***************************************************************************)
TakesOwnItem ==
  call.op \in {"acknowledge", "defer"} => call.item = call.holder.item

(***************************************************************************)
(* No removed item is handed out.                                          *)
(***************************************************************************)
RemovedForGood == call.op = "lockNext" => status[call.item] # "removed"

(***************************************************************************)
(* A call that is not rolled back is carried out: its repairs terminate,   *)
(* however the time that passes meanwhile changes the priorities they      *)
(* compare, and find a queue wherever they look for a parent.              *)
(***************************************************************************)
CallsEnd == (~ Idle) ~> Idle

(***************************************************************************)
(* Why they terminate: every step of a call before its COMMIT leaves fewer *)
(* to be made, by a bound that time does not change.  A queue that rises   *)
(* gets nearer to the root, and one that sinks to the last place, whatever *)
(* made it worth an exchange.                                              *)
(***************************************************************************)
StepsOf(task) ==
  CASE task.do = "enqueue"    -> NextIndexInPriorityQueue + 3
    [] task.do = "repairUp"   -> queues[task.discriminator].index + 1
    [] task.do = "repairDown" -> NextIndexInPriorityQueue - queues[task.discriminator].index

StepsLeft ==
  IF todo = << >> THEN 0
  ELSE StepsOf(Head(todo)) + (IF Tail(todo) = << >> THEN 0 ELSE NextIndexInPriorityQueue + 3)

FewerSteps == StepsLeft \in Nat /\ StepsLeft' \in Nat /\ StepsLeft' < StepsLeft

RepairsEnd ==
  [][ /\ EnqueueInternal \/ RepairUp \/ RepairDown => FewerSteps
      /\ Tick => StepsLeft' = StepsLeft ]_vars

(***************************************************************************)
(* A repair finds the queues it looks for: its own, with an item, and that *)
(* at the parent's place.  getPriority of a missing one would throw.       *)
(***************************************************************************)
RepairsFindQueues ==
  todo # << >> /\ Head(todo).do \in {"repairUp", "repairDown"} =>
    LET d == Head(todo).discriminator
    IN  /\ Present(d) /\ ItemsOf(d) # {}
        /\ Head(todo).do = "repairUp" /\ queues[d].index # 0 =>
             AtIndex((queues[d].index - 1) \div 2) # {}

(***************************************************************************)
(* lockNext chooses a most urgent one of the queues that are not locked,   *)
(* as long as no lock has expired.  It does not: a queue whose next item   *)
(* is more urgent than the one taken is not moved up.  What holds is       *)
(* MostUrgentFirst of PriorityQueueOrder.                                  *)
(***************************************************************************)
Lapsed == \E d \in Discriminator : queues[d].token # None /\ ~ Locked(d)

Urgency(d) == {r.priority : r \in {s \in ItemsOf(d) : s.indexInQueue = 0}}

ChoosesMostUrgent ==
  (Idle /\ call'.op = "lockNext") =>
    \A e \in Discriminator : Present(e) /\ ~ Locked(e) =>
      \A p \in Urgency(call'.holder.discriminator), q \in Urgency(e) : p <= q

MostUrgentOfMany == [][~ Lapsed => ChoosesMostUrgent]_vars

-----------------------------------------------------------------------------
(* The store implements leased queues: the tables as committed. *)

CommittedItems(d) == {r \in committed.items : r.discriminator = d}

ItemAt(d, n) == (CHOOSE r \in CommittedItems(d) : r.indexInQueue = n - 1).item

Fifo ==
  [d \in Discriminator |-> [n \in 1..Cardinality(CommittedItems(d)) |-> ItemAt(d, n)]]

Leases ==
  [d \in Discriminator |->
     [token |-> committed.queues[d].token, ttl |-> committed.queues[d].ttl]]

Leased == INSTANCE LeasedQueues WITH fifo <- Fifo, lease <- Leases

\* Transactions of several steps, the time that passes within them, rollbacks
\* and lost answers: as if each call happened at once, or not at all.
ImplementsLeasedQueues == Leased!Spec

=============================================================================
