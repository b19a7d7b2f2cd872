------------------------- MODULE PriorityQueueStore -------------------------
(***************************************************************************)
(* PriorityQueueStore of packages/storage: one queue of items for each     *)
(* discriminator, and a heap of these queues.  lockNext lends the first    *)
(* item of a queue to a client, who renews, acknowledges or defers it with *)
(* the token it was given; the lock expires by itself.                     *)
(*                                                                         *)
(* Every call is one database transaction, and functionCallQueue runs one  *)
(* call at a time.  An action is what a call does up to its next repair of *)
(* the heap, and each exchange of such a repair is an action of its own, so*)
(* that time can pass and the transaction fail in between.                 *)
(***************************************************************************)
EXTENDS Integers, Sequences, FiniteSets

CONSTANTS
  Discriminator,
  Item,
  DiscriminatorsOf,  \* the queues a client may put an item in
  Priority,
  PriorityOf,        \* the priority it does so with
  Removable,         \* the items a client may remove
  Token,             \* bound: uuids in use at a time
  None,              \* no token
  MaxSafeInteger,    \* the priority of a locked queue
  ExpirationTime     \* in ticks of the clock

ASSUME ItemsAssumption ==
  /\ DiscriminatorsOf \in [Item -> SUBSET Discriminator]
  /\ PriorityOf \in [Item -> Priority]
  /\ Removable \subseteq Item
ASSUME PriorityAssumption ==
  /\ Priority \subseteq Nat
  /\ MaxSafeInteger \in Nat
  /\ \A p \in Priority : p < MaxSafeInteger
ASSUME LockAssumption ==
  /\ None \notin Token
  /\ ExpirationTime \in Nat \ {0}

VARIABLES
  home,        \* the queue clients put an item in
  queues,      \* table of queues, inside the transaction
  items,       \* table of items, inside the transaction
  committed,   \* both tables as of the last commit
  call,        \* the call in progress
  todo,        \* what it has still to do
  status,      \* history: what became of an item
  holders      \* what clients have been lent

tables == <<queues, items>>
vars   == <<home, tables, committed, call, todo, status, holders>>

(***************************************************************************)
(* A queue's row.  Absent stands for none; ttl is lockUntil less the time, *)
(* 0 if that is past, so that the clock itself need not be kept.           *)
(***************************************************************************)
QueueRow == [index : Nat \cup {-1}, token : Token \cup {None}, ttl : 0..ExpirationTime]
Absent   == [index |-> -1, token |-> None, ttl |-> 0]
ItemRow  == [discriminator : Discriminator, indexInQueue : Nat, priority : Priority, item : Item]
Tables   == [queues : [Discriminator -> QueueRow], items : SUBSET ItemRow]

Holder == [discriminator : Discriminator, token : Token, item : Item]

Task    == [do : {"enqueue"}, item : Item, priority : Priority]
             \cup [do : {"repairUp", "repairDown"}, discriminator : Discriminator]
Up(d)   == [do |-> "repairUp", discriminator |-> d]
Down(d) == [do |-> "repairDown", discriminator |-> d]

Enqueueing(i, p) == [do |-> "enqueue", item |-> i, priority |-> p]

\* A call: its operation, the lock it is made with or makes, if any, and the
\* item it puts in, hands out or takes out.
NoCall == [op |-> "none"]
Call   == [op : {"enqueue", "remove"}, item : Item]
            \cup [op : {"lockNext", "renewLock", "acknowledge", "defer"},
                  holder : Holder, item : Item]

Idle == call = NoCall

-----------------------------------------------------------------------------
(* Queries *)

Present(d) == queues[d].index # -1
Locked(d)  == queues[d].ttl > 0

ItemsOf(d) == {r \in items : r.discriminator = d}

\* Bug variant: the item that came last.
LastItem(d) ==
  {r \in ItemsOf(d) : \A s \in ItemsOf(d) : s.indexInQueue <= r.indexInQueue}

\* getFirstItemInQueue
FirstItem(d) ==
  {r \in ItemsOf(d) : \A s \in ItemsOf(d) : r.indexInQueue <= s.indexInQueue}

\* Bug variant: a locked queue stays where it is.
OwnPriority(d, p) == p

\* getPriority, for a queue whose item has priority p.
GetPriority(d, p) == IF Locked(d) THEN MaxSafeInteger ELSE p

\* getQueueByIndexInPriorityQueue, as the first item of the queue.
AtIndex(n) == {r \in items : r.indexInQueue = 0 /\ queues[r.discriminator].index = n}

\* Bug variant: any token will do.
LockedAtAll(h) == Present(h.discriminator) /\ queues[h.discriminator].token # None

\* getQueueIfLocked: the token counts, not the time.
HoldsLock(h) == Present(h.discriminator) /\ queues[h.discriminator].token = h.token

FreshTokens ==
  Token \ ({queues[d].token : d \in Discriminator} \cup {h.token : h \in holders})

-----------------------------------------------------------------------------
(* Statements *)

\* Bug variant: the row itself not deleted.
Decremented(d, n) ==
  (items \ ItemsOf(d)) \cup
  {[r EXCEPT !.indexInQueue = IF @ >= n THEN @ - 1 ELSE @] : r \in ItemsOf(d)}

\* An item deleted, those behind it moved up.
WithoutItem(d, n) ==
  (items \ ItemsOf(d)) \cup
  {[r EXCEPT !.indexInQueue = IF @ > n THEN @ - 1 ELSE @] :
     r \in {s \in ItemsOf(d) : s.indexInQueue # n}}

\* Bug variant: the index of the last item.
MaxIndexInQueue(d) ==
  IF ItemsOf(d) = {}
    THEN 0
    ELSE (CHOOSE r \in ItemsOf(d) : \A s \in ItemsOf(d) : s.indexInQueue <= r.indexInQueue).indexInQueue

NextIndexInQueue(d) ==
  IF ItemsOf(d) = {}
    THEN 0
    ELSE (CHOOSE r \in ItemsOf(d) : \A s \in ItemsOf(d) : s.indexInQueue <= r.indexInQueue).indexInQueue + 1

NextIndexInPriorityQueue ==
  IF \A d \in Discriminator : ~ Present(d)
    THEN 0
    ELSE queues[CHOOSE d \in Discriminator :
                  \A e \in Discriminator : queues[e].index <= queues[d].index].index + 1

Count(d) == Cardinality({e \in Discriminator \ {d} : Present(e)})

\* Bug variant: the hole left open.
RemoveQueueOnly(d, after) ==
  /\ queues' = [queues EXCEPT ![d] = Absent]
  /\ todo' = after

\* Bug variant: the queue removed is repaired, not the one that was moved.
RepairRemoved(d, after) ==
  \E m \in Discriminator :
    /\ queues[m].index = Count(d)
    /\ queues' = [queues EXCEPT ![m].index = queues[d].index, ![d] = Absent]
    /\ todo' = <<Down(d)>> \o after

\* removeQueueInternal: the last queue of the heap moves into the hole.
RemoveQueue(d, after) ==
  \/ /\ queues[d].index >= Count(d)
     /\ queues' = [queues EXCEPT ![d] = Absent]
     /\ todo' = after
  \/ /\ queues[d].index < Count(d)
     /\ \E m \in Discriminator \ {d} :
          /\ queues[m].index = Count(d)
          /\ queues' = [queues EXCEPT ![d] = Absent, ![m].index = queues[d].index]
          /\ todo' = <<Down(m)>> \o after

\* Bug variant: one of the two not moved.
SwapHalf(d, e) == queues' = [queues EXCEPT ![d].index = queues[e].index]

\* Bug variant: the one that is repaired not moved.
SwapOther(d, e) == queues' = [queues EXCEPT ![e].index = queues[d].index]

\* swapPositionsInPriorityQueue
SwapPositions(d, e) ==
  queues' = [queues EXCEPT ![d].index = queues[e].index, ![e].index = queues[d].index]

-----------------------------------------------------------------------------
(* Calls: each begins a transaction *)

Enqueue(i) ==
  /\ Idle
  /\ status[i] = "new"
  /\ call' = [op |-> "enqueue", item |-> i]
  /\ todo' = <<Enqueueing(i, PriorityOf[i])>>
  /\ UNCHANGED <<tables, committed, status, holders>>

\* The first queue in the heap that is not locked, if there is one.
LockNext ==
  /\ Idle
  /\ \E d \in Discriminator, t \in FreshTokens, r \in items :
       /\ Present(d) /\ ~ Locked(d)
       /\ \A e \in Discriminator :
            Present(e) /\ ~ Locked(e) => queues[d].index <= queues[e].index
       /\ r \in FirstItem(d)
       /\ queues' = [queues EXCEPT ![d].token = t, ![d].ttl = ExpirationTime]
       /\ call' = [op |-> "lockNext", item |-> r.item,
                   holder |-> [discriminator |-> d, token |-> t, item |-> r.item]]
       /\ todo' = <<Down(d)>>
  /\ UNCHANGED <<items, committed, status, holders>>

RenewLock(h) ==
  /\ Idle
  /\ HoldsLock(h)
  /\ call' = [op |-> "renewLock", holder |-> h, item |-> h.item]
  /\ queues' = [queues EXCEPT ![h.discriminator].ttl = ExpirationTime]
  /\ todo' = <<Down(h.discriminator)>>
  /\ UNCHANGED <<items, committed, status, holders>>

\* acknowledgeInternal, whatever item is first by now.
TakeFirst(h, op, after) ==
  LET d == h.discriminator
  IN  /\ Idle
      /\ HoldsLock(h)
      /\ \E r \in FirstItem(d) : call' = [op |-> op, holder |-> h, item |-> r.item]
      /\ items' = WithoutItem(d, 0)
      /\ \/ /\ \E r \in items' : r.discriminator = d
            /\ queues' = [queues EXCEPT ![d].token = None, ![d].ttl = 0]
            /\ todo' = <<Down(d)>> \o after
         \/ /\ \A r \in items' : r.discriminator # d
            /\ RemoveQueue(d, after)
      /\ UNCHANGED <<committed, status, holders>>

Acknowledge(h) == TakeFirst(h, "acknowledge", << >>)

Defer(h, p) ==
  \E r \in FirstItem(h.discriminator) : TakeFirst(h, "defer", <<Enqueueing(r.item, p)>>)

\* The first item of a queue can be removed unless it is locked.  The row of a
\* queue's only item stays: removeQueueInternal deletes the queue alone.
Remove(i) ==
  /\ Idle
  /\ i \in Removable
  /\ call' = [op |-> "remove", item |-> i]
  /\ \E r \in items :
       LET d == r.discriminator
       IN  /\ r.item = i /\ Present(d)
           /\ \/ /\ r.indexInQueue = 0 /\ ~ Locked(d) /\ ItemsOf(d) = {r}
                 /\ RemoveQueue(d, << >>)
                 /\ UNCHANGED items
              \/ /\ r.indexInQueue = 0 /\ ~ Locked(d) /\ ItemsOf(d) # {r}
                 /\ items' = WithoutItem(d, 0)
                 /\ todo' = <<Down(d), Up(d)>>
                 /\ UNCHANGED queues
              \/ /\ r.indexInQueue # 0
                 /\ items' = WithoutItem(d, r.indexInQueue)
                 /\ todo' = << >>
                 /\ UNCHANGED queues
  /\ UNCHANGED <<committed, status, holders>>

-----------------------------------------------------------------------------
(* What a call does next *)

EnqueueInternal ==
  /\ todo # << >> /\ Head(todo).do = "enqueue"
  /\ LET i == Head(todo).item
         d == home[i]
     IN  /\ items' = items \cup {[discriminator |-> d, indexInQueue |-> NextIndexInQueue(d),
                                  priority |-> Head(todo).priority, item |-> i]}
         /\ \/ /\ Present(d)
               /\ todo' = Tail(todo)
               /\ UNCHANGED queues
            \/ /\ ~ Present(d)
               /\ queues' = [queues EXCEPT ![d] = [Absent EXCEPT !.index = NextIndexInPriorityQueue]]
               /\ todo' = <<Up(d)>> \o Tail(todo)
  /\ UNCHANGED <<committed, call, status, holders>>

\* getQueueByDiscriminator joins all items of the queue and takes the first row
\* of an unordered answer: the priority is that of any of them.
RepairUp ==
  /\ todo # << >> /\ Head(todo).do = "repairUp"
  /\ LET d == Head(todo).discriminator
     IN  \E r \in ItemsOf(d) :
           \/ /\ queues[d].index = 0
              /\ todo' = Tail(todo)
              /\ UNCHANGED queues
           \/ /\ queues[d].index # 0
              /\ \E parent \in AtIndex((queues[d].index - 1) \div 2) :
                   LET e == parent.discriminator
                   IN  \/ /\ GetPriority(e, parent.priority) <= GetPriority(d, r.priority)
                          /\ todo' = Tail(todo)
                          /\ UNCHANGED queues
                       \/ /\ GetPriority(e, parent.priority) > GetPriority(d, r.priority)
                          /\ SwapPositions(d, e)
                          /\ UNCHANGED todo
  /\ UNCHANGED <<items, committed, call, status, holders>>

\* Bug variant: the left child, even where the right one is smaller.
LeftChild(d) == AtIndex(2 * queues[d].index + 1)

\* The child repairDown compares with: the smaller one, the left one if equal.
\* It finds none below a queue without a left child.
SmallerChild(d) ==
  LET left  == AtIndex(2 * queues[d].index + 1)
      right == AtIndex(2 * queues[d].index + 2)
      P(q)  == GetPriority(q.discriminator, q.priority)
  IN  IF left = {} THEN {}
      ELSE {q \in left : \A s \in right : P(q) <= P(s)} \cup
           {s \in right : \A q \in left : P(s) < P(q)}

RepairDown ==
  /\ todo # << >> /\ Head(todo).do = "repairDown"
  /\ LET d == Head(todo).discriminator
     IN  \E r \in ItemsOf(d) :
           \/ /\ \A child \in SmallerChild(d) :
                   GetPriority(d, r.priority) <= GetPriority(child.discriminator, child.priority)
              /\ todo' = Tail(todo)
              /\ UNCHANGED queues
           \/ \E child \in SmallerChild(d) :
                /\ GetPriority(d, r.priority) > GetPriority(child.discriminator, child.priority)
                /\ SwapPositions(d, child.discriminator)
                /\ UNCHANGED todo
  /\ UNCHANGED <<items, committed, call, status, holders>>

-----------------------------------------------------------------------------
(* How a call ends *)

\* COMMIT.  The answer reaches the client, or is lost with the connection or
\* the process.
Commit ==
  /\ ~ Idle /\ todo = << >>
  /\ committed' = [queues |-> queues, items |-> items]
  /\ call' = NoCall
  /\ \/ /\ call.op = "enqueue"
        /\ status' = [status EXCEPT ![call.item] = "queued"]
        /\ UNCHANGED holders
     \/ /\ call.op = "remove"
        /\ status' = [status EXCEPT ![call.item] = "removed"]
        /\ UNCHANGED holders
     \/ /\ call.op = "lockNext"
        /\ holders' \in {holders, holders \cup {call.holder}}
        /\ UNCHANGED status
     \/ /\ call.op = "renewLock"
        /\ UNCHANGED <<status, holders>>
     \/ /\ call.op = "acknowledge"
        /\ status' = [status EXCEPT ![call.holder.item] = "acknowledged"]
        /\ holders' \in {holders, holders \ {call.holder}}
     \/ /\ call.op = "defer"
        /\ holders' \in {holders, holders \ {call.holder}}
        /\ UNCHANGED status
  /\ UNCHANGED <<tables, todo>>

\* Bug variant: no transaction around the statements.
LeaveItHalfDone ==
  /\ ~ Idle
  /\ call' = NoCall
  /\ todo' = << >>
  /\ committed' = [queues |-> queues, items |-> items]
  /\ UNCHANGED <<tables, status, holders>>

\* A statement fails, or the process dies: ROLLBACK.
Rollback ==
  /\ ~ Idle
  /\ queues' = committed.queues
  /\ items' = committed.items
  /\ call' = NoCall
  /\ todo' = << >>
  /\ UNCHANGED <<committed, status, holders>>

-----------------------------------------------------------------------------
(* Time and clients *)

Aged(table) == [d \in Discriminator |->
                  [table[d] EXCEPT !.ttl = IF @ > 0 THEN @ - 1 ELSE 0]]

Tick ==
  /\ queues' = Aged(queues)
  /\ committed' = [committed EXCEPT !.queues = Aged(@)]
  /\ UNCHANGED <<items, call, todo, status, holders>>

\* A client dies, or is told ItemNotFound, ItemNotLocked or TokenMismatch.
GiveUp(h) ==
  /\ Idle
  /\ holders' = holders \ {h}
  /\ UNCHANGED <<tables, committed, call, todo, status>>

-----------------------------------------------------------------------------

Init ==
  /\ home \in {h \in [Item -> Discriminator] : \A i \in Item : h[i] \in DiscriminatorsOf[i]}
  /\ queues = [d \in Discriminator |-> Absent]
  /\ items = {}
  /\ committed = [queues |-> queues, items |-> items]
  /\ call = NoCall
  /\ todo = << >>
  /\ status = [i \in Item |-> "new"]
  /\ holders = {}

Step == EnqueueInternal \/ RepairUp \/ RepairDown \/ Commit

Next ==
  /\ \/ \E i \in Item : Enqueue(i) \/ Remove(i)
     \/ LockNext
     \/ \E h \in holders :
          \/ RenewLock(h)
          \/ Acknowledge(h)
          \/ \E p \in Priority : Defer(h, p)
          \/ GiveUp(h)
     \/ Step
     \/ Rollback
     \/ Tick
  /\ UNCHANGED home

Spec == Init /\ [][Next]_vars

\* A call that was started is carried out.
FairSpec == Spec /\ WF_vars(Step /\ UNCHANGED home)

=============================================================================
