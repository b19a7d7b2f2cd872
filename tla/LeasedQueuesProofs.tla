-------------------------- MODULE LeasedQueuesProofs --------------------------
(***************************************************************************)
(* Proofs about PriorityQueueStore where clients remove nothing: a token   *)
(* takes the item it was given out with, no item is lost, and the store    *)
(* implements LeasedQueues: every call, of however many statements, happens*)
(* at once where it commits.                                               *)
(***************************************************************************)
EXTENDS PriorityQueueProofs

NoRemoval == Removable = {}

-----------------------------------------------------------------------------
(* The inductive invariant *)

\* A queue is in the heap while it has items, and only then is it locked.
PresentOK(q, its) ==
  /\ \A r \in its : q[r.discriminator].index # -1
  /\ \A d \in Discriminator : q[d].index = -1 => q[d].token = None

\* While a queue has the token of a holder, the holder's item is first in it.
Own(h, q, its) ==
  q[h.discriminator].token = h.token =>
    \A r \in RowsOf(its, h.discriminator) : r.indexInQueue = 0 => r.item = h.item

OwnOK ==
  /\ \A h \in holders : Own(h, queues, items) /\ Own(h, committed.queues, committed.items)
  /\ call.op = "lockNext" => Own(call.holder, queues, items)

\* Between calls nothing is uncommitted.
IdleOK == Idle => queues = committed.queues /\ items = committed.items /\ todo = << >>

JInv ==
  /\ IInv
  /\ PresentOK(queues, items)
  /\ PresentOK(committed.queues, committed.items)
  /\ OwnOK
  /\ IdleOK
  /\ TakesOwnItem

-----------------------------------------------------------------------------

LEMMA SamePresent ==
  ASSUME NEW q, NEW p, NEW its,
         \A d \in Discriminator : p[d].index = q[d].index /\ p[d].token = q[d].token,
         its \subseteq ItemRow, PresentOK(q, its)
  PROVE  PresentOK(p, its)
BY DEF PresentOK, ItemRow

LEMMA JInitInv == Init => JInv
<1> SUFFICES ASSUME Init PROVE JInv
  OBVIOUS
<1>1. /\ items = {} /\ holders = {} /\ call = NoCall /\ todo = << >>
      /\ committed.queues = queues /\ committed.items = items
      /\ \A d \in Discriminator : queues[d].token = None
  BY DEF Init, Absent
<1>2. PresentOK(queues, items)
  BY <1>1 DEF PresentOK
<1>3. OwnOK /\ IdleOK /\ TakesOwnItem
  BY <1>1 DEF OwnOK, IdleOK, TakesOwnItem, NoCall
<1> QED
  BY <1>1, <1>2, <1>3, InitInv DEF JInv

\* A call begins, and touches no table.
LEMMA JEnqueue ==
  ASSUME JInv, NEW i \in Item, Enqueue(i), UNCHANGED home
  PROVE  JInv'
<1>1. IInv'
  BY EnqueueInv DEF JInv
<1>2. /\ UNCHANGED <<queues, items, committed, holders>>
      /\ call' = [op |-> "enqueue", item |-> i]
  BY DEF Enqueue, tables
<1>3. OwnOK' /\ IdleOK' /\ TakesOwnItem'
  BY <1>2 DEF JInv, OwnOK, IdleOK, TakesOwnItem, Own, Idle, NoCall
<1> QED
  BY <1>1, <1>2, <1>3 DEF JInv

\* What the rows of one queue are after a lock is made or renewed.
LEMMA LockedRow ==
  ASSUME Rows(queues), NEW d \in Discriminator, NEW t, NEW n,
         queues' = [queues EXCEPT ![d].token = t, ![d].ttl = n]
  PROVE  /\ queues'[d].token = t
         /\ \A e \in Discriminator \ {d} : queues'[e].token = queues[e].token
<1>1. queues[d] \in QueueRow
  BY DEF Rows
<1>2. queues'[d] = [queues[d] EXCEPT !.token = t, !.ttl = n]
      /\ \A e \in Discriminator \ {d} : queues'[e] = queues[e]
  BY DEF Rows
<1> QED
  BY <1>1, <1>2 DEF QueueRow

LEMMA JLockNext ==
  ASSUME JInv, LockNext, UNCHANGED home
  PROVE  JInv'
<1>1. IInv' /\ IInv
  BY LockNextInv DEF JInv
<1>2. PICK d \in Discriminator, t \in FreshTokens, r \in items :
        /\ Present(d)
        /\ r \in FirstItem(d)
        /\ queues' = [queues EXCEPT ![d].token = t, ![d].ttl = ExpirationTime]
        /\ call' = [op |-> "lockNext", item |-> r.item,
                    holder |-> [discriminator |-> d, token |-> t, item |-> r.item]]
  BY DEF LockNext
<1>3. UNCHANGED <<items, committed, holders>>
  BY DEF LockNext
<1>4. /\ Rows(queues) /\ items \subseteq ItemRow
      /\ \A h \in holders : h.discriminator \in Discriminator /\ h.token # t
  BY DEF JInv, IInv, TypeOK, Rows, Holder, FreshTokens
<1>5. /\ queues'[d].token = t
      /\ \A e \in Discriminator \ {d} : queues'[e].token = queues[e].token
  BY <1>2, <1>4, LockedRow
<1>6. \A e \in Discriminator : queues'[e].index = queues[e].index
  <2>1. ExpirationTime \in 0..ExpirationTime /\ t \in Token \cup {None}
    BY LockAssumption DEF FreshTokens
  <2>2. Relocking
    BY <1>2, <2>1, Zenon DEF Relocking
  <2> QED
    BY <1>4, <2>2, Relocked
<1>7. PresentOK(queues', items')
  BY <1>2, <1>3, <1>4, <1>5, <1>6 DEF JInv, PresentOK, Present, ItemRow
<1>8. OwnOK'
  <2>1. \A h \in holders : Own(h, queues', items)
    BY <1>4, <1>5 DEF JInv, OwnOK, Own
  <2>2. \A s \in RowsOf(items, d) : s.indexInQueue = 0 => s.item = r.item
    <3>1. PICK n \in Nat : Numbered(RowsOf(items, d), n) /\ n # 0 /\ 0 \in 0..(n - 1)
      BY <1>1, <1>2, FirstIs
    <3>2. r \in RowsOf(items, d) /\ r.indexInQueue = 0
      BY <1>2, <1>4, <3>1 DEF FirstItem, ItemsOf, RowsOf, Numbered, ItemRow
    <3> QED
      BY <3>1, <3>2 DEF Numbered
  <2>3. Own(call'.holder, queues', items)
    BY <1>2, <2>2 DEF Own
  <2> QED
    BY <1>3, <2>1, <2>3 DEF JInv, OwnOK
<1>9. IdleOK' /\ TakesOwnItem'
  BY <1>2 DEF IdleOK, TakesOwnItem, Idle, NoCall
<1> QED
  BY <1>1, <1>3, <1>7, <1>8, <1>9 DEF JInv

LEMMA JRenewLock ==
  ASSUME JInv, NEW h \in holders, RenewLock(h), UNCHANGED home
  PROVE  JInv'
<1> DEFINE d == h.discriminator
<1>1. IInv'
  BY RenewLockInv DEF JInv
<1>2. /\ queues' = [queues EXCEPT ![d].ttl = ExpirationTime]
      /\ call' = [op |-> "renewLock", holder |-> h, item |-> h.item]
      /\ UNCHANGED <<items, committed, holders>>
  BY DEF RenewLock
<1>3. Rows(queues) /\ items \subseteq ItemRow /\ d \in Discriminator
      /\ \A g \in holders : g.discriminator \in Discriminator
  BY DEF JInv, IInv, TypeOK, Rows, Holder
<1>4. \A e \in Discriminator : queues'[e].index = queues[e].index /\ queues'[e].token = queues[e].token
  <2>1. queues[d] \in QueueRow
    BY <1>3 DEF Rows
  <2>2. queues'[d] = [queues[d] EXCEPT !.ttl = ExpirationTime]
        /\ \A e \in Discriminator \ {d} : queues'[e] = queues[e]
    BY <1>2, <1>3 DEF Rows
  <2>3. queues'[d].index = queues[d].index /\ queues'[d].token = queues[d].token
    BY <2>1, <2>2 DEF QueueRow
  <2> QED
    BY <2>2, <2>3
<1>5. PresentOK(queues', items')
  BY <1>2, <1>3, <1>4, SamePresent DEF JInv
<1>6. OwnOK'
  BY <1>2, <1>3, <1>4 DEF JInv, OwnOK, Own
<1>7. IdleOK' /\ TakesOwnItem'
  BY <1>2 DEF IdleOK, TakesOwnItem, Idle, NoCall
<1> QED
  BY <1>1, <1>2, <1>5, <1>6, <1>7 DEF JInv

\* What becomes of the locks where a queue loses its first item: its own is
\* given up, the others stay.
LEMMA TokensTaken ==
  ASSUME IInv, NEW h \in holders, NEW op, NEW after \in Seq(Task), TakeFirst(h, op, after)
  PROVE  /\ queues'[h.discriminator].token = None
         /\ \A e \in Discriminator \ {h.discriminator} :
              /\ queues'[e].token = queues[e].token
              /\ queues'[e].index # -1 <=> queues[e].index # -1
         /\ queues'[h.discriminator].index # -1 <=>
              \E r \in items' : r.discriminator = h.discriminator
<1> DEFINE d == h.discriminator
<1>1. Rows(queues) /\ d \in Discriminator /\ Present(d)
  BY DEF IInv, TypeOK, Rows, Holder, TakeFirst, HoldsLock
<1>2. \A e \in Discriminator : queues[e] \in QueueRow
  BY <1>1 DEF Rows
<1> HIDE DEF d
<1>3. CASE /\ \E r \in items' : r.discriminator = d
           /\ queues' = [queues EXCEPT ![d].token = None, ![d].ttl = 0]
  <2>1. 0 \in 0..ExpirationTime /\ None \in Token \cup {None}
    BY LockAssumption
  <2>2. Relocking
    BY <1>1, <1>3, <2>1, Zenon DEF Relocking
  <2>3. \A e \in Discriminator : queues'[e].index = queues[e].index
    BY <1>1, <2>2, Relocked
  <2>4. queues'[d].token = None
        /\ \A e \in Discriminator \ {d} : queues'[e].token = queues[e].token
    BY <1>1, <1>3, LockedRow
  <2> QED
    BY <1>1, <1>3, <2>3, <2>4 DEF Present, d
<1>4. CASE (\A r \in items' : r.discriminator # d) /\ RemoveQueue(d, after)
  <2>1. PICK m \in Nat : HeapOf(queues, m)
    BY DEF IInv, TablesOK
  <2>2. /\ queues'[d] = Absent
        /\ \A e \in Discriminator \ {d} :
             /\ queues'[e] = [queues[e] EXCEPT !.index = queues'[e].index]
             /\ queues'[e].index # -1 <=> queues[e].index # -1
    BY <1>1, <1>4, <2>1, Removed
  <2>3. \A e \in Discriminator \ {d} : queues'[e].token = queues[e].token
    <3> SUFFICES ASSUME NEW e \in Discriminator \ {d} PROVE queues'[e].token = queues[e].token
      OBVIOUS
    <3>1. queues[e] \in QueueRow /\ queues'[e] = [queues[e] EXCEPT !.index = queues'[e].index]
      BY <1>2, <2>2
    <3>2. [queues[e] EXCEPT !.index = queues'[e].index].token = queues[e].token
      BY <3>1 DEF QueueRow
    <3> QED
      BY <3>1, <3>2
  <2>4. queues'[d].token = None /\ queues'[d].index = -1
    BY <2>2 DEF Absent
  <2> QED
    BY <1>4, <2>2, <2>3, <2>4 DEF d
<1> QED
  BY <1>3, <1>4 DEF TakeFirst, d

LEMMA JTakeFirst ==
  ASSUME JInv, NEW h \in holders, NEW op \in {"acknowledge", "defer"},
         NEW after \in Seq(Task), TakeFirst(h, op, after), UNCHANGED home
  PROVE  JInv'
<1> DEFINE d == h.discriminator
<1>1. IInv' /\ IInv
  BY TakeFirstInv DEF JInv
<1>2. /\ Idle /\ HoldsLock(h)
      /\ items' = WithoutItem(d, 0)
      /\ UNCHANGED <<committed, status, holders>>
  BY DEF TakeFirst
<1>3. PICK r \in FirstItem(d) : call' = [op |-> op, holder |-> h, item |-> r.item]
  BY DEF TakeFirst
<1>4. /\ d \in Discriminator /\ items \subseteq ItemRow
      /\ \A g \in holders : g.discriminator \in Discriminator /\ g.token \in Token
  BY DEF JInv, IInv, TypeOK, Holder
<1>5. /\ queues'[d].token = None
      /\ \A e \in Discriminator \ {d} :
           /\ queues'[e].token = queues[e].token
           /\ queues'[e].index # -1 <=> queues[e].index # -1
      /\ queues'[d].index # -1 <=> \E s \in items' : s.discriminator = d
  BY <1>1, TokensTaken
<1>6. /\ items' \subseteq ItemRow
      /\ \A e \in Discriminator \ {d} : RowsOf(items', e) = RowsOf(items, e)
  BY <1>2, <1>4, WithoutItemIs
<1>7. PresentOK(queues', items')
  <2>1. \A s \in items' : queues'[s.discriminator].index # -1
    <3> SUFFICES ASSUME NEW s \in items' PROVE queues'[s.discriminator].index # -1
      OBVIOUS
    <3>1. CASE s.discriminator = d
      BY <1>5, <3>1
    <3>2. CASE s.discriminator # d
      <4>1. s.discriminator \in Discriminator \ {d}
        BY <1>6, <3>2 DEF ItemRow
      <4>2. s \in items
        BY <1>6, <4>1 DEF RowsOf
      <4> QED
        BY <1>5, <4>1, <4>2 DEF JInv, PresentOK
    <3> QED
      BY <3>1, <3>2
  <2>2. \A e \in Discriminator : queues'[e].index = -1 => queues'[e].token = None
    BY <1>5 DEF JInv, PresentOK
  <2> QED
    BY <2>1, <2>2 DEF PresentOK
<1>8. OwnOK'
  <2> SUFFICES ASSUME NEW g \in holders PROVE Own(g, queues', items')
    BY <1>2, <1>3 DEF JInv, OwnOK
  <2>1. CASE g.discriminator = d
    BY <1>4, <1>5, <2>1, LockAssumption DEF Own
  <2>2. CASE g.discriminator # d
    BY <1>4, <1>5, <1>6, <2>2 DEF JInv, OwnOK, Own
  <2> QED
    BY <2>1, <2>2
<1>9. TakesOwnItem'
  <2>1. Own(h, queues, items) /\ Present(d) /\ queues[d].token = h.token
    BY <1>2 DEF JInv, OwnOK, HoldsLock
  <2>2. PICK n \in Nat : Numbered(RowsOf(items, d), n) /\ n # 0 /\ 0 \in 0..(n - 1)
    BY <1>1, <1>4, <2>1, FirstIs
  <2>3. r \in RowsOf(items, d) /\ r.indexInQueue = 0
    BY <1>4, <2>2 DEF FirstItem, ItemsOf, RowsOf, Numbered, ItemRow
  <2>4. r.item = h.item
    BY <2>1, <2>3 DEF Own
  <2> QED
    BY <1>3, <2>4 DEF TakesOwnItem
<1>10. IdleOK'
  BY <1>3 DEF IdleOK, Idle, NoCall
<1> QED
  BY <1>1, <1>2, <1>7, <1>8, <1>9, <1>10 DEF JInv

\* An item put in is first only where there was no lock.
LEMMA JEnqueueInternal ==
  ASSUME JInv, EnqueueInternal, UNCHANGED home
  PROVE  JInv'
<1> DEFINE i == Head(todo).item
           d == home[i]
           new == [discriminator |-> d, indexInQueue |-> NextIndexInQueue(d),
                   priority |-> Head(todo).priority, item |-> i]
<1>1. IInv' /\ IInv
  BY EnqueueInternalInv DEF JInv
<1>2. /\ items' = items \cup {new}
      /\ UNCHANGED <<committed, call, holders>>
      /\ \/ Present(d) /\ UNCHANGED queues
         \/ /\ ~ Present(d)
            /\ queues' = [queues EXCEPT ![d] = [Absent EXCEPT !.index = NextIndexInPriorityQueue]]
  BY DEF EnqueueInternal
<1>3. d \in Discriminator /\ ~ Idle
  <2>1. todo \in Seq(Task) /\ todo # << >> /\ Head(todo).do = "enqueue"
    BY <1>1 DEF IInv, TypeOK, EnqueueInternal
  <2>2. i \in Item
    BY <2>1, TodoTypes, TaskTypes
  <2> QED
    BY <1>1, <2>1, <2>2 DEF IInv, TypeOK, JInv, IdleOK
<1>4. new.discriminator = d /\ new.indexInQueue = NextIndexInQueue(d)
  OBVIOUS
<1> HIDE DEF new, d, i
<1>5. Rows(queues) /\ items \subseteq ItemRow
  BY <1>1 DEF IInv, TypeOK, Rows
<1>6. PICK m \in Nat : HeapOf(queues, m)
  BY <1>1 DEF IInv, TablesOK
<1>7. NextIndexInPriorityQueue = m
  BY <1>5, <1>6, NextPlace
<1>8. /\ \A e \in Discriminator : queues'[e].token = queues[e].token
      /\ \A e \in Discriminator : queues'[e].index # -1 <=> (queues[e].index # -1 \/ e = d)
  <2>1. CASE Present(d) /\ UNCHANGED queues
    BY <2>1 DEF Present
  <2>2. CASE /\ ~ Present(d)
             /\ queues' = [queues EXCEPT ![d] = [Absent EXCEPT !.index = NextIndexInPriorityQueue]]
    <3>1. queues'[d] = [Absent EXCEPT !.index = m] /\ \A e \in Discriminator \ {d} : queues'[e] = queues[e]
      BY <1>3, <1>5, <1>7, <2>2 DEF Rows
    <3>2. queues'[d].token = None /\ queues'[d].index = m
      BY <3>1 DEF Absent
    <3>3. queues[d].token = None
      BY <1>3, <2>2 DEF JInv, PresentOK, Present
    <3>4. \A e \in Discriminator : queues'[e].token = queues[e].token
      BY <3>1, <3>2, <3>3
    <3>5. m # -1
      OBVIOUS
    <3>6. \A e \in Discriminator : queues'[e].index # -1 <=> (queues[e].index # -1 \/ e = d)
      BY <3>1, <3>2, <3>5
    <3> QED
      BY <3>4, <3>6
  <2> QED
    BY <1>2, <2>1, <2>2
<1>9. PresentOK(queues', items')
  BY <1>2, <1>3, <1>4, <1>5, <1>8 DEF JInv, PresentOK, ItemRow
<1>10. new.indexInQueue = 0 => queues[d].token = None
  <2>1. PICK n \in Nat : Numbered(RowsOf(items, d), n)
    BY <1>1, <1>3 DEF IInv, TablesOK
  <2>2. NextIndexInQueue(d) = n
    BY <1>3, <1>5, <2>1, NextNumber
  <2> SUFFICES ASSUME n = 0 PROVE queues[d].token = None
    BY <1>4, <2>2
  <2>3. RowsOf(items, d) = {}
    <3>1. \A r \in RowsOf(items, d) : r.indexInQueue \in Nat
      BY <1>5 DEF RowsOf, ItemRow
    <3> QED
      BY <2>1, <3>1 DEF Numbered
  <2>4. ~ Present(d)
    BY <1>1, <1>3, <2>3 DEF IInv, TablesOK, Present
  <2> QED
    BY <1>3, <2>4 DEF JInv, PresentOK, Present
<1>11. ASSUME NEW g \in Holder, Own(g, queues, items) PROVE Own(g, queues', items')
  <2>1. g.discriminator \in Discriminator /\ g.token # None
    BY LockAssumption DEF Holder
  <2>2. \A r \in RowsOf(items', g.discriminator) : r \in RowsOf(items, g.discriminator) \/ r = new
    BY <1>2 DEF RowsOf
  <2>3. \A r \in RowsOf(items', g.discriminator) : r = new => d = g.discriminator
    BY <1>4 DEF RowsOf
  <2> QED
    BY <1>8, <1>10, <1>11, <2>1, <2>2, <2>3 DEF Own
<1>12. OwnOK'
  <2>1. holders \subseteq Holder /\ (call.op = "lockNext" => call.holder \in Holder)
    BY <1>1, CallsAre DEF IInv, TypeOK
  <2> QED
    BY <1>2, <1>11, <2>1 DEF JInv, OwnOK
<1>13. IdleOK' /\ TakesOwnItem'
  BY <1>2, <1>3 DEF JInv, IdleOK, TakesOwnItem, Idle
<1> QED
  BY <1>1, <1>2, <1>9, <1>12, <1>13 DEF JInv

\* An exchange of two places touches no lock.
LEMMA Swapped ==
  ASSUME JInv, IInv', NEW d \in Discriminator, NEW e \in Discriminator, SwapPositions(d, e),
         queues[d].index # -1, queues[e].index # -1,
         todo # << >>, UNCHANGED <<items, committed, call, holders, todo>>
  PROVE  JInv'
<1>1. Rows(queues) /\ items \subseteq ItemRow /\ holders \subseteq Holder
      /\ (call.op = "lockNext" => call.holder \in Holder)
  BY CallsAre DEF JInv, IInv, TypeOK, Rows
<1>2. \A c \in Discriminator : queues'[c].token = queues[c].token
                             /\ (queues'[c].index # -1 <=> queues[c].index # -1)
  <2>1. queues' = [queues EXCEPT ![d].index = queues[e].index, ![e].index = queues[d].index]
    BY DEF SwapPositions
  <2>2. \A c \in Discriminator : queues[c] \in QueueRow
    BY <1>1 DEF Rows
  <2>3. CASE d = e
    <3>1. queues' = queues
      BY <1>1, <2>1, <2>2, <2>3 DEF Rows, QueueRow
    <3> QED
      BY <3>1
  <2>4. CASE d # e
    <3>1. /\ queues'[d] = [queues[d] EXCEPT !.index = queues[e].index]
          /\ queues'[e] = [queues[e] EXCEPT !.index = queues[d].index]
          /\ \A c \in Discriminator \ {d, e} : queues'[c] = queues[c]
      BY <1>1, <2>1, <2>4 DEF Rows
    <3>2. /\ queues'[d].token = queues[d].token /\ queues'[d].index = queues[e].index
          /\ queues'[e].token = queues[e].token /\ queues'[e].index = queues[d].index
      BY <2>2, <3>1 DEF QueueRow
    <3> QED
      BY <3>1, <3>2
  <2> QED
    BY <2>3, <2>4
<1>3. PresentOK(queues', items')
  BY <1>1, <1>2 DEF JInv, PresentOK, ItemRow
<1>4. OwnOK'
  <2>1. \A g \in Holder : Own(g, queues, items) => Own(g, queues', items)
    BY <1>2 DEF Own, Holder
  <2> QED
    BY <1>1, <2>1 DEF JInv, OwnOK
<1>5. IdleOK' /\ TakesOwnItem'
  BY DEF JInv, IdleOK, TakesOwnItem, Idle
<1> QED
  BY <1>3, <1>4, <1>5 DEF JInv

LEMMA JRepair ==
  ASSUME JInv, RepairUp \/ RepairDown, UNCHANGED home
  PROVE  JInv'
<1> DEFINE d == Head(todo).discriminator
<1>1. IInv' /\ IInv
  BY RepairUpInv, RepairDownInv DEF JInv
<1>2. /\ todo # << >> /\ d \in Discriminator
      /\ UNCHANGED <<items, committed, call, holders>>
  <2>1. todo \in Seq(Task) /\ todo # << >> /\ Head(todo).do \in {"repairUp", "repairDown"}
    BY <1>1 DEF IInv, TypeOK, RepairUp, RepairDown
  <2> QED
    BY <2>1, TodoTypes, TaskTypes DEF RepairUp, RepairDown
<1>3. \E r \in items : r.discriminator = d
  BY DEF RepairUp, RepairDown, ItemsOf
<1>4. \/ UNCHANGED queues
      \/ \E q \in items : SwapPositions(d, q.discriminator) /\ UNCHANGED todo
  <2>1. SmallerChild(d) \subseteq items /\ \A n : AtIndex(n) \subseteq items
    BY DEF SmallerChild, AtIndex
  <2>2. CASE RepairUp
    BY <2>1, <2>2 DEF RepairUp
  <2>3. CASE RepairDown
    BY <2>1, <2>3 DEF RepairDown
  <2> QED
    BY <2>2, <2>3
<1>5. CASE UNCHANGED queues
  <2>1. ~ Idle
    BY <1>2 DEF JInv, IdleOK
  <2> QED
    BY <1>1, <1>2, <1>5, <2>1 DEF JInv, OwnOK, Own, IdleOK, TakesOwnItem, Idle
<1>6. ASSUME NEW q \in items, SwapPositions(d, q.discriminator), UNCHANGED todo PROVE JInv'
  <2>1. /\ q.discriminator \in Discriminator
        /\ queues[q.discriminator].index # -1 /\ queues[d].index # -1
    BY <1>1, <1>3 DEF JInv, PresentOK, IInv, TypeOK, ItemRow
  <2> QED
    BY <1>1, <1>2, <1>6, <2>1, Swapped
<1> QED
  BY <1>4, <1>5, <1>6

LEMMA JCommit ==
  ASSUME JInv, Commit, UNCHANGED home
  PROVE  JInv'
<1>1. IInv'
  BY CommitInv DEF JInv
<1>2. /\ UNCHANGED <<queues, items, todo>> /\ todo = << >> /\ call' = NoCall
      /\ committed'.queues = queues /\ committed'.items = items
  BY DEF Commit, tables
<1>3. holders' \subseteq holders \/ (call.op = "lockNext" /\ holders' \subseteq holders \cup {call.holder})
  BY DEF Commit
<1>4. OwnOK'
  <2>1. \A h \in holders' : Own(h, queues, items)
    BY <1>3 DEF JInv, OwnOK
  <2> QED
    BY <1>2, <2>1 DEF OwnOK, NoCall
<1>5. IdleOK' /\ TakesOwnItem'
  BY <1>2 DEF IdleOK, TakesOwnItem, NoCall
<1> QED
  BY <1>1, <1>2, <1>4, <1>5 DEF JInv

LEMMA JRollback ==
  ASSUME JInv, Rollback, UNCHANGED home
  PROVE  JInv'
<1>1. IInv'
  BY RollbackInv DEF JInv
<1>2. /\ queues' = committed.queues /\ items' = committed.items /\ todo' = << >>
      /\ call' = NoCall /\ UNCHANGED <<committed, holders>>
  BY DEF Rollback
<1> QED
  BY <1>1, <1>2 DEF JInv, OwnOK, IdleOK, TakesOwnItem, NoCall

LEMMA AgingTokens ==
  ASSUME NEW q, Rows(q)
  PROVE  \A d \in Discriminator : Aged(q)[d].index = q[d].index /\ Aged(q)[d].token = q[d].token
<1>1. \A d \in Discriminator : q[d] \in QueueRow
  BY DEF Rows
<1>2. \A row \in QueueRow : [row EXCEPT !.ttl = IF @ > 0 THEN @ - 1 ELSE 0].token = row.token
  BY DEF QueueRow
<1> QED
  BY <1>1, <1>2, Aging DEF Aged

LEMMA JTick ==
  ASSUME JInv, Tick, UNCHANGED home
  PROVE  JInv'
<1>1. IInv'
  BY TickInv DEF JInv
<1>2. /\ queues' = Aged(queues) /\ UNCHANGED <<items, call, todo, holders>>
      /\ committed' = [committed EXCEPT !.queues = Aged(@)]
  BY DEF Tick
<1>3. /\ Rows(queues) /\ Rows(committed.queues) /\ committed \in Tables
      /\ items \subseteq ItemRow /\ committed.items \subseteq ItemRow /\ holders \subseteq Holder
      /\ (call.op = "lockNext" => call.holder \in Holder)
  BY CallsAre DEF JInv, IInv, TypeOK, Tables, Rows
<1>4. committed'.queues = Aged(committed.queues) /\ committed'.items = committed.items
  BY <1>2, <1>3 DEF Tables
<1>5. /\ \A d \in Discriminator : /\ queues'[d].index = queues[d].index
                                  /\ queues'[d].token = queues[d].token
      /\ \A d \in Discriminator : /\ committed'.queues[d].index = committed.queues[d].index
                                  /\ committed'.queues[d].token = committed.queues[d].token
  BY <1>2, <1>3, <1>4, AgingTokens
<1>6. PresentOK(queues', items') /\ PresentOK(committed'.queues, committed'.items)
  BY <1>2, <1>3, <1>4, <1>5, SamePresent DEF JInv
<1>7. OwnOK'
  <2>1. \A h \in Holder : h.discriminator \in Discriminator
    BY DEF Holder
  <2>2. ASSUME NEW h \in holders
        PROVE  Own(h, queues', items) /\ Own(h, committed'.queues, committed'.items)
    <3>1. Own(h, queues, items) /\ Own(h, committed.queues, committed.items)
      BY DEF JInv, OwnOK
    <3>2. h.discriminator \in Discriminator
      BY <1>3, <2>1
    <3>3. Own(h, queues', items)
      BY <1>5, <3>1, <3>2 DEF Own
    <3>4. Own(h, committed'.queues, committed'.items)
      BY <1>4, <1>5, <3>1, <3>2 DEF Own
    <3> QED
      BY <3>3, <3>4
  <2>3. call.op = "lockNext" => Own(call.holder, queues', items)
    <3> SUFFICES ASSUME call.op = "lockNext" PROVE Own(call.holder, queues', items)
      OBVIOUS
    <3>1. Own(call.holder, queues, items) /\ call.holder.discriminator \in Discriminator
      BY <1>3, <2>1 DEF JInv, OwnOK
    <3> QED
      BY <1>5, <3>1 DEF Own
  <2>4. UNCHANGED <<items, call, holders>>
    BY <1>2
  <2> QED
    BY <2>2, <2>3, <2>4 DEF OwnOK
<1>8. IdleOK' /\ TakesOwnItem'
  BY <1>2, <1>4 DEF JInv, IdleOK, TakesOwnItem, Idle
<1> QED
  BY <1>1, <1>6, <1>7, <1>8 DEF JInv

LEMMA JNext == NoRemoval => (JInv /\ [Next]_vars => JInv')
<1> SUFFICES ASSUME NoRemoval, JInv, [Next]_vars PROVE JInv'
  OBVIOUS
<1>1. CASE UNCHANGED vars
  <2>1. IInv'
    BY <1>1, NextInv DEF JInv
  <2> QED
    BY <1>1, <2>1 DEF vars, tables, JInv, OwnOK, IdleOK, TakesOwnItem, Idle, Own
<1>2. CASE Next
  <2>1. UNCHANGED home /\ IInv'
    BY <1>2, NextInv DEF Next, JInv
  <2>2. ASSUME NEW i \in Item, Enqueue(i) PROVE JInv'
    BY <2>1, <2>2, JEnqueue
  <2>3. ASSUME NEW i \in Item, Remove(i) PROVE JInv'
    BY <2>3 DEF NoRemoval, Remove
  <2>4. CASE LockNext
    BY <2>1, <2>4, JLockNext
  <2>5. ASSUME NEW h \in holders, RenewLock(h) PROVE JInv'
    BY <2>1, <2>5, JRenewLock
  <2>6. ASSUME NEW h \in holders, Acknowledge(h) PROVE JInv'
    <3>1. << >> \in Seq(Task)
      BY TodoTypes
    <3> QED
      BY <2>1, <2>6, <3>1, JTakeFirst DEF Acknowledge
  <2>7. ASSUME NEW h \in holders, NEW p \in Priority, Defer(h, p) PROVE JInv'
    <3>1. PICK r \in FirstItem(h.discriminator) :
            TakeFirst(h, "defer", <<Enqueueing(r.item, p)>>)
      BY <2>7 DEF Defer
    <3>2. <<Enqueueing(r.item, p)>> \in Seq(Task)
      BY TaskTypes, TodoTypes DEF FirstItem, ItemsOf, JInv, IInv, TypeOK, ItemRow
    <3> QED
      BY <2>1, <3>1, <3>2, JTakeFirst
  <2>8. ASSUME NEW h \in holders, GiveUp(h) PROVE JInv'
    BY <2>1, <2>8 DEF GiveUp, tables, JInv, OwnOK, IdleOK, TakesOwnItem, Idle, Own
  <2>9. CASE Step
    BY <2>1, <2>9, JEnqueueInternal, JRepair, JCommit DEF Step
  <2>10. CASE Rollback
    BY <2>1, <2>10, JRollback
  <2>11. CASE Tick
    BY <2>1, <2>11, JTick
  <2> QED
    BY <1>2, <2>2, <2>3, <2>4, <2>5, <2>6, <2>7, <2>8, <2>9, <2>10, <2>11 DEF Next
<1> QED
  BY <1>1, <1>2

\* The invariant holds of every behaviour without removals: see JInv.
THEOREM OwnCorrect == NoRemoval => (Spec => []JInv)
<1> SUFFICES ASSUME NoRemoval PROVE Spec => []JInv
  OBVIOUS
<1>1. JInv /\ [Next]_vars => JInv'
  BY JNext
<1> QED
  BY <1>1, JInitInv, PTL DEF Spec

\* Without removals, acknowledge and defer take out the item their token was
\* given out with, however late they come: getQueueIfLocked compares tokens and
\* not times, and a token matches only while its item is still first.
THEOREM TakesOwnItemCorrect == NoRemoval => (Spec => []TakesOwnItem)
<1> SUFFICES ASSUME NoRemoval PROVE Spec => []TakesOwnItem
  OBVIOUS
<1>1. Spec => []JInv
  BY OwnCorrect
<1>2. JInv => TakesOwnItem
  BY DEF JInv
<1> QED
  BY <1>1, <1>2, PTL

-----------------------------------------------------------------------------
(* Which items are stored *)

Queued == {i \in Item : status[i] = "queued"}

Stored(its) == {r.item : r \in its}

Unique(its) == \A r, s \in its : r.item = s.item => r = s

\* The call has an item still to put in: that is the last it does.
Pending ==
  \E p \in Priority :
    \/ todo = <<Enqueueing(call.item, p)>>
    \/ \E d \in Discriminator : todo = <<Down(d), Enqueueing(call.item, p)>>

NotPending == \A n \in 1..Len(todo) : todo[n].do # "enqueue"

\* The items stored at this point of a call, by what it is.
StoredOK ==
  /\ call.op # "remove"
  /\ call.op \in {"none", "lockNext", "renewLock"} => NotPending /\ Stored(items) = Queued
  /\ call.op = "acknowledge" => NotPending /\ Stored(items) = Queued \ {call.item}
  /\ call.op = "defer" =>
       /\ call.item \in Queued
       /\ \/ Pending /\ Stored(items) = Queued \ {call.item}
          \/ NotPending /\ Stored(items) = Queued
  /\ call.op = "enqueue" =>
       /\ call.item \notin Queued
       /\ \/ Pending /\ Stored(items) = Queued
          \/ NotPending /\ Stored(items) = Queued \cup {call.item}

KInv ==
  /\ Unique(items) /\ Unique(committed.items)
  /\ Stored(committed.items) = Queued
  /\ StoredOK

LEMMA KInitInv == Init => KInv
<1> SUFFICES ASSUME Init PROVE KInv
  OBVIOUS
<1>1. items = {} /\ committed.items = {} /\ call.op = "none" /\ todo = << >> /\ Queued = {}
  BY DEF Init, NoCall, Queued
<1> QED
  BY <1>1 DEF KInv, StoredOK, Unique, Stored, NotPending

LEMMA Joined ==
  ASSUME NEW t \in Task, NEW u \in Task
  PROVE  <<t>> \o <<u>> = <<t, u>>
<1> HIDE DEF Task
<1>1. <<t>> \in Seq(Task) /\ <<u>> \in Seq(Task) /\ <<t, u>> \in Seq(Task)
  OBVIOUS
<1>2. Len(<<t>> \o <<u>>) = 2 /\ <<t>> \o <<u>> \in Seq(Task)
  BY <1>1
<1>3. (<<t>> \o <<u>>)[1] = t /\ (<<t>> \o <<u>>)[2] = u
  BY <1>1
<1>4. \A n \in 1..Len(<<t>> \o <<u>>) : (<<t>> \o <<u>>)[n] = <<t, u>>[n]
  BY <1>2, <1>3
<1> QED
  BY <1>1, <1>2, <1>4, SeqEqual

\* The first item of a queue taken out.
LEMMA FirstTaken ==
  ASSUME items \subseteq ItemRow, Unique(items), NEW d \in Discriminator,
         NEW n \in Nat, Numbered(RowsOf(items, d), n),
         NEW r \in RowsOf(items, d), r.indexInQueue = 0
  PROVE  /\ Unique(WithoutItem(d, 0))
         /\ Stored(WithoutItem(d, 0)) = Stored(items) \ {r.item}
<1> DEFINE moved(s) == [s EXCEPT !.indexInQueue = IF @ > 0 THEN @ - 1 ELSE @]
           behind == {s \in ItemsOf(d) : s.indexInQueue # 0}
           others == items \ ItemsOf(d)
<1>1. WithoutItem(d, 0) = others \cup {moved(s) : s \in behind}
  BY DEF WithoutItem
<1>2. \A s \in behind : moved(s).item = s.item
  BY DEF ItemsOf, ItemRow
<1>3. behind \subseteq items /\ others \subseteq items /\ behind \cap others = {}
  BY DEF ItemsOf
<1>4. \A s \in items : s \in behind \/ s \in others \/ s = r
  BY DEF Numbered, ItemsOf, RowsOf
<1>5. r \notin behind /\ r \notin others /\ r \in items
  BY DEF ItemsOf, RowsOf
<1> HIDE DEF moved, behind, others
<1>6. Unique(WithoutItem(d, 0))
  BY <1>1, <1>2, <1>3 DEF Unique
<1>7. Stored(WithoutItem(d, 0)) = {s.item : s \in others} \cup {s.item : s \in behind}
  BY <1>1, <1>2 DEF Stored
<1>8. \A s \in behind \cup others : s.item # r.item
  BY <1>3, <1>5 DEF Unique
<1>9. Stored(items) \ {r.item} = {s.item : s \in others} \cup {s.item : s \in behind}
  <2>1. \A s \in items : s.item # r.item => s \in others \/ s \in behind
    BY <1>4
  <2>2. \A s \in behind \cup others : s \in items /\ s.item # r.item
    BY <1>3, <1>8
  <2> QED
    BY <2>1, <2>2 DEF Stored
<1> QED
  BY <1>6, <1>7, <1>9

LEMMA KTakeFirst ==
  ASSUME JInv, KInv, NEW h \in holders, NEW op \in {"acknowledge", "defer"},
         NEW after \in Seq(Task), TakeFirst(h, op, after), UNCHANGED home,
         NEW f \in FirstItem(h.discriminator),
         \/ op = "acknowledge" /\ after = << >>
         \/ op = "defer" /\ \E p \in Priority : after = <<Enqueueing(f.item, p)>>
  PROVE  KInv'
<1> DEFINE d == h.discriminator
<1>1. /\ Idle /\ Present(d) /\ IInv
      /\ items' = WithoutItem(d, 0)
      /\ UNCHANGED <<committed, status, holders>>
  BY DEF TakeFirst, HoldsLock, JInv
<1>2. d \in Discriminator /\ items \subseteq ItemRow
  BY <1>1 DEF IInv, TypeOK, Holder
<1>3. PICK n \in Nat : Numbered(RowsOf(items, d), n) /\ n # 0 /\ 0 \in 0..(n - 1)
  BY <1>1, <1>2, FirstIs
<1>4. \A r \in FirstItem(d) : r \in RowsOf(items, d) /\ r.indexInQueue = 0
  BY <1>2, <1>3 DEF FirstItem, ItemsOf, RowsOf, Numbered, ItemRow
<1>5. call' = [op |-> op, holder |-> h, item |-> f.item]
  <2>1. PICK r \in FirstItem(d) : call' = [op |-> op, holder |-> h, item |-> r.item]
    BY DEF TakeFirst
  <2>2. r = f
    BY <1>3, <1>4 DEF Numbered
  <2> QED
    BY <2>1, <2>2
<1>6. Unique(items') /\ Stored(items') = Stored(items) \ {f.item}
  BY <1>1, <1>2, <1>3, <1>4, FirstTaken DEF KInv
<1>7. Stored(items) = Queued /\ f.item \in Queued
  BY <1>1, <1>4 DEF KInv, StoredOK, Idle, NoCall, Stored, RowsOf
<1>8. \/ todo' = after
      \/ \E m \in Discriminator : todo' = <<Down(m)>> \o after
  BY <1>2 DEF TakeFirst, RemoveQueue
<1>9. CASE op = "acknowledge" /\ after = << >>
  <2>1. NotPending'
    BY <1>8, <1>9 DEF NotPending, Down
  <2> QED
    BY <1>1, <1>5, <1>6, <1>7, <1>9, <2>1 DEF KInv, StoredOK, Queued
<1>10. CASE op = "defer" /\ \E p \in Priority : after = <<Enqueueing(f.item, p)>>
  <2>1. PICK p \in Priority : after = <<Enqueueing(f.item, p)>>
    BY <1>10
  <2>2. call'.item = f.item /\ call'.op = "defer"
    BY <1>5, <1>10
  <2>3. ASSUME NEW m \in Discriminator, todo' = <<Down(m)>> \o after PROVE Pending'
    <3>1. todo' = <<Down(m), Enqueueing(f.item, p)>>
      <4>1. Down(m) \in Task /\ Enqueueing(f.item, p) \in Task
        BY <1>2, <1>4, TaskTypes DEF RowsOf, ItemRow
      <4> QED
        BY <2>1, <2>3, <4>1, Joined
    <3> QED
      BY <2>2, <3>1 DEF Pending
  <2>4. Pending'
    BY <1>8, <2>1, <2>2, <2>3 DEF Pending
  <2> QED
    BY <1>1, <1>6, <1>7, <2>2, <2>4 DEF KInv, StoredOK, Queued
<1> QED
  BY <1>9, <1>10

LEMMA KEnqueueInternal ==
  ASSUME JInv, KInv, EnqueueInternal, UNCHANGED home
  PROVE  KInv'
<1>1. todo \in Seq(Task) /\ todo # << >> /\ Head(todo).do = "enqueue"
  BY DEF EnqueueInternal, JInv, IInv, TypeOK
<1>2. ~ NotPending
  BY <1>1 DEF NotPending
<1>3. call.op \in {"enqueue", "defer"} /\ Pending
  <2>1. call.op \in {"none", "enqueue", "remove", "lockNext", "renewLock", "acknowledge", "defer"}
    BY DEF JInv, IInv, TypeOK, Call, NoCall
  <2> QED
    BY <1>2, <2>1 DEF KInv, StoredOK
<1>4. PICK p \in Priority : todo = <<Enqueueing(call.item, p)>>
  BY <1>1, <1>3 DEF Pending, Down
<1>5. Head(todo).item = call.item /\ Tail(todo) = << >>
  BY <1>4 DEF Enqueueing
<1>6. PICK new : items' = items \cup {new} /\ new.item = call.item
  <2> DEFINE d == home[Head(todo).item]
             row == [discriminator |-> d, indexInQueue |-> NextIndexInQueue(d),
                     priority |-> Head(todo).priority, item |-> Head(todo).item]
  <2>1. items' = items \cup {row}
    BY DEF EnqueueInternal
  <2>2. row.item = call.item
    BY <1>5
  <2> QED
    BY <2>1, <2>2
<1>7. /\ UNCHANGED <<committed, call, status>>
      /\ todo' = << >> \/ \E d : todo' = <<Up(d)>>
  BY <1>5 DEF EnqueueInternal
<1>8. NotPending'
  BY <1>7 DEF NotPending, Up
<1>9. call.item \notin Stored(items)
  BY <1>2, <1>3 DEF KInv, StoredOK
<1>10. Unique(items') /\ Stored(items') = Stored(items) \cup {call.item}
  BY <1>6, <1>9 DEF KInv, Unique, Stored
<1>11. Queued' = Queued
  BY <1>7 DEF Queued
<1> QED
  BY <1>2, <1>3, <1>7, <1>8, <1>10, <1>11 DEF KInv, StoredOK

LEMMA KRepair ==
  ASSUME JInv, KInv, RepairUp \/ RepairDown, UNCHANGED home
  PROVE  KInv'
<1>1. /\ todo \in Seq(Task) /\ todo # << >> /\ Head(todo).do # "enqueue"
      /\ todo' = todo \/ todo' = Tail(todo)
      /\ UNCHANGED <<items, committed, call, status>>
  BY DEF RepairUp, RepairDown, JInv, IInv, TypeOK
<1>2. NotPending => NotPending'
  BY <1>1 DEF NotPending
<1>3. Pending => Pending'
  <2> SUFFICES ASSUME Pending PROVE Pending'
    OBVIOUS
  <2>1. PICK p \in Priority : \/ todo = <<Enqueueing(call.item, p)>>
                              \/ \E d \in Discriminator : todo = <<Down(d), Enqueueing(call.item, p)>>
    BY DEF Pending
  <2>2. PICK d \in Discriminator : todo = <<Down(d), Enqueueing(call.item, p)>>
    BY <1>1, <2>1 DEF Enqueueing
  <2>3. Tail(todo) = <<Enqueueing(call.item, p)>>
    BY <2>2
  <2> QED
    BY <1>1, <2>2, <2>3 DEF Pending
<1>4. Queued' = Queued
  BY <1>1 DEF Queued
<1> QED
  BY <1>1, <1>2, <1>3, <1>4 DEF KInv, StoredOK

LEMMA KCommit ==
  ASSUME JInv, KInv, Commit, UNCHANGED home
  PROVE  KInv'
<1>1. /\ UNCHANGED <<queues, items, todo>> /\ todo = << >> /\ call' = NoCall
      /\ committed'.items = items /\ ~ Idle
  BY DEF Commit, tables
<1>2. NotPending /\ ~ Pending
  BY <1>1 DEF NotPending, Pending
<1>3. call.item \in Item
  BY <1>1, CallsAre DEF JInv, IInv, TypeOK
<1>4. DOMAIN status = Item
  BY DEF JInv, IInv, TypeOK
<1>5. Stored(items) = Queued'
  <2>1. CASE call.op = "enqueue" /\ status' = [status EXCEPT ![call.item] = "queued"]
    <3>1. Queued' = Queued \cup {call.item}
      BY <1>3, <1>4, <2>1 DEF Queued
    <3> QED
      BY <1>2, <2>1, <3>1 DEF KInv, StoredOK
  <2>2. CASE call.op \in {"lockNext", "renewLock", "defer"} /\ UNCHANGED status
    <3>1. Queued' = Queued
      BY <2>2 DEF Queued
    <3> QED
      BY <1>2, <2>2, <3>1 DEF KInv, StoredOK
  <2>3. CASE call.op = "acknowledge" /\ status' = [status EXCEPT ![call.holder.item] = "acknowledged"]
    <3>1. call.item = call.holder.item
      BY <2>3 DEF JInv, TakesOwnItem
    <3>2. Queued' = Queued \ {call.item}
      BY <1>3, <1>4, <2>3, <3>1 DEF Queued
    <3> QED
      BY <2>3, <3>2 DEF KInv, StoredOK
  <2> QED
    BY <2>1, <2>2, <2>3 DEF Commit, KInv, StoredOK
<1>6. NotPending'
  BY <1>1 DEF NotPending
<1> QED
  BY <1>1, <1>5, <1>6 DEF KInv, StoredOK, NoCall

LEMMA KNext == NoRemoval => (JInv /\ KInv /\ [Next]_vars => KInv')
<1> SUFFICES ASSUME NoRemoval, JInv, KInv, [Next]_vars PROVE KInv'
  OBVIOUS
<1>0. Idle => call.op = "none" /\ NotPending /\ Stored(items) = Queued
  BY DEF Idle, NoCall, KInv, StoredOK
<1>1. CASE UNCHANGED vars
  BY <1>1 DEF vars, tables, KInv, StoredOK, Pending, NotPending, Queued
<1>2. CASE Next
  <2>1. UNCHANGED home
    BY <1>2 DEF Next
  <2>2. ASSUME NEW i \in Item, Enqueue(i) PROVE KInv'
    <3>1. /\ call' = [op |-> "enqueue", item |-> i] /\ Stored(items) = Queued
          /\ todo' = <<Enqueueing(i, PriorityOf[i])>> /\ i \notin Queued
          /\ UNCHANGED <<items, committed, status>> /\ PriorityOf[i] \in Priority
      BY <1>0, <2>2, ItemsAssumption DEF Enqueue, tables, Queued
    <3>2. Pending'
      BY <3>1 DEF Pending
    <3> QED
      BY <3>1, <3>2 DEF KInv, StoredOK, Queued
  <2>3. ASSUME NEW i \in Item, Remove(i) PROVE KInv'
    BY <2>3 DEF NoRemoval, Remove
  <2>4. ASSUME call'.op \in {"lockNext", "renewLock"}, Idle, UNCHANGED <<items, committed, status>>,
               \E d : todo' = <<Down(d)>>
        PROVE  KInv'
    <3>1. NotPending'
      BY <2>4 DEF NotPending, Down
    <3> QED
      BY <1>0, <2>4, <3>1 DEF KInv, StoredOK, Queued
  <2>5. CASE LockNext
    BY <2>4, <2>5 DEF LockNext
  <2>6. ASSUME NEW h \in holders, RenewLock(h) PROVE KInv'
    BY <2>4, <2>6 DEF RenewLock
  <2>7. ASSUME NEW h \in holders, Acknowledge(h) PROVE KInv'
    <3>1. << >> \in Seq(Task) /\ TakeFirst(h, "acknowledge", << >>)
      BY <2>7, TodoTypes DEF Acknowledge
    <3>2. PICK f \in FirstItem(h.discriminator) : TRUE
      BY <3>1 DEF TakeFirst
    <3> QED
      BY <2>1, <3>1, <3>2, KTakeFirst
  <2>8. ASSUME NEW h \in holders, NEW p \in Priority, Defer(h, p) PROVE KInv'
    <3>1. PICK f \in FirstItem(h.discriminator) :
            TakeFirst(h, "defer", <<Enqueueing(f.item, p)>>)
      BY <2>8 DEF Defer
    <3>2. <<Enqueueing(f.item, p)>> \in Seq(Task)
      BY TaskTypes, TodoTypes DEF FirstItem, ItemsOf, JInv, IInv, TypeOK, ItemRow
    <3> QED
      BY <2>1, <3>1, <3>2, KTakeFirst
  <2>9. ASSUME NEW h \in holders, GiveUp(h) PROVE KInv'
    BY <2>9 DEF GiveUp, tables, KInv, StoredOK, Pending, NotPending, Queued
  <2>10. CASE Step
    BY <2>1, <2>10, KEnqueueInternal, KRepair, KCommit DEF Step
  <2>11. CASE Rollback
    <3>1. items' = committed.items /\ UNCHANGED <<committed, status>> /\ todo' = << >> /\ call'.op = "none"
      BY <2>11 DEF Rollback, NoCall
    <3>2. NotPending'
      BY <3>1 DEF NotPending
    <3> QED
      BY <3>1, <3>2 DEF KInv, StoredOK, Queued
  <2>12. CASE Tick
    <3>1. UNCHANGED <<items, call, todo, status>> /\ committed'.items = committed.items
      BY <2>12 DEF Tick, JInv, IInv, TypeOK, Tables
    <3> QED
      BY <3>1 DEF KInv, StoredOK, Pending, NotPending, Queued
  <2> QED
    BY <1>2, <2>2, <2>3, <2>5, <2>6, <2>7, <2>8, <2>9, <2>10, <2>11, <2>12 DEF Next
<1> QED
  BY <1>1, <1>2

\* Without removals, between calls exactly the items enqueued and not yet
\* acknowledged are stored, each in a queue of the heap: no expired lock, late
\* acknowledgement, rollback or lost answer loses one or brings one back.
THEOREM NothingLostCorrect == NoRemoval => (Spec => []NothingLost)
<1> SUFFICES ASSUME NoRemoval PROVE Spec => []NothingLost
  OBVIOUS
<1>1. Spec => []JInv
  BY OwnCorrect
<1>2. JInv /\ KInv /\ [Next]_vars => KInv'
  BY KNext
<1>3. JInv /\ KInv => NothingLost
  BY DEF JInv, KInv, StoredOK, PresentOK, NothingLost, Present, Idle, NoCall, Stored, Queued
<1> QED
  BY <1>1, <1>2, <1>3, KInitInv, PTL DEF Spec

-----------------------------------------------------------------------------
(* The queue that some numbered rows make *)

Place(rows, n) == CHOOSE r \in rows : r.indexInQueue = n - 1

QueueOf(rows) == [n \in 1..Cardinality(rows) |-> Place(rows, n).item]

FifoOf(its) == [d \in Discriminator |-> QueueOf(RowsOf(its, d))]

LEMMA FifoIsCommitted == Fifo = FifoOf(committed.items) /\ Fifo' = FifoOf(committed.items)'
BY DEF Fifo, FifoOf, QueueOf, Place, ItemAt, CommittedItems, RowsOf

LEMMA PlaceIs ==
  ASSUME NEW rows \in SUBSET ItemRow, NEW n \in Nat, Numbered(rows, n)
  PROVE  /\ \A k \in 1..n : Place(rows, k) \in rows /\ Place(rows, k).indexInQueue = k - 1
         /\ \A r \in rows : r.indexInQueue + 1 \in 1..n /\ Place(rows, r.indexInQueue + 1) = r
<1>1. \A r \in rows : r.indexInQueue \in Nat
  BY DEF ItemRow
<1>2. ASSUME NEW k \in 1..n
      PROVE  Place(rows, k) \in rows /\ Place(rows, k).indexInQueue = k - 1
  <2>1. k - 1 \in 0..(n - 1)
    OBVIOUS
  <2>2. \E r \in rows : r.indexInQueue = k - 1
    BY <2>1 DEF Numbered
  <2> QED
    BY <2>2 DEF Place
<1>3. ASSUME NEW r \in rows
      PROVE  r.indexInQueue + 1 \in 1..n /\ Place(rows, r.indexInQueue + 1) = r
  <2>1. r.indexInQueue + 1 \in 1..n
    BY <1>1 DEF Numbered
  <2>2. /\ Place(rows, r.indexInQueue + 1) \in rows
        /\ Place(rows, r.indexInQueue + 1).indexInQueue = (r.indexInQueue + 1) - 1
    BY <1>2, <2>1
  <2>3. Place(rows, r.indexInQueue + 1).indexInQueue = r.indexInQueue
    BY <1>1, <2>2
  <2> QED
    BY <2>1, <2>2, <2>3 DEF Numbered
<1> QED
  BY <1>2, <1>3

LEMMA RowsCounted ==
  ASSUME NEW rows \in SUBSET ItemRow, NEW n \in Nat, Numbered(rows, n)
  PROVE  Cardinality(rows) = n
<1> DEFINE f == [k \in 1..n |-> Place(rows, k)]
<1>1. f \in Injection(1..n, rows)
  <2>1. f \in [1..n -> rows]
    BY PlaceIs
  <2>2. \A j, k \in 1..n : f[j] = f[k] => j = k
    <3> SUFFICES ASSUME NEW j \in 1..n, NEW k \in 1..n, f[j] = f[k] PROVE j = k
      OBVIOUS
    <3>1. Place(rows, j).indexInQueue = j - 1 /\ Place(rows, k).indexInQueue = k - 1
      BY PlaceIs
    <3> QED
      BY <3>1
  <2> HIDE DEF f
  <2> QED
    BY <2>1, <2>2 DEF Injection, IsInjective
<1>2. f \in Surjection(1..n, rows)
  <2>1. \A r \in rows : \E k \in 1..n : f[k] = r
    BY PlaceIs
  <2> HIDE DEF f
  <2> QED
    BY <1>1, <2>1 DEF Surjection, Injection
<1> HIDE DEF f
<1>3. ExistsBijection(1..n, rows)
  BY <1>1, <1>2 DEF ExistsBijection, Bijection
<1> QED
  BY <1>3, FS_NatBijection, FS_CountingElements

LEMMA QueueIs ==
  ASSUME NEW rows \in SUBSET ItemRow, NEW n \in Nat, Numbered(rows, n)
  PROVE  /\ QueueOf(rows) \in Seq(Item) /\ Len(QueueOf(rows)) = n
         /\ \A k \in 1..n : QueueOf(rows)[k] = Place(rows, k).item
         /\ \A r \in rows : QueueOf(rows)[r.indexInQueue + 1] = r.item
<1>1. QueueOf(rows) = [k \in 1..n |-> Place(rows, k).item]
  BY RowsCounted DEF QueueOf
<1>2. \A k \in 1..n : Place(rows, k).item \in Item
  BY PlaceIs DEF ItemRow
<1>3. QueueOf(rows) \in [1..n -> Item]
  BY <1>1, <1>2
<1>4. QueueOf(rows) \in Seq(Item) /\ Len(QueueOf(rows)) = n
  BY <1>1, <1>3
<1>5. \A r \in rows : QueueOf(rows)[r.indexInQueue + 1] = r.item
  BY <1>1, PlaceIs
<1> QED
  BY <1>1, <1>4, <1>5

\* A row behind the others is an item appended.
LEMMA QueueAppended ==
  ASSUME NEW rows \in SUBSET ItemRow, NEW n \in Nat, Numbered(rows, n),
         NEW r \in ItemRow, r.indexInQueue = n
  PROVE  QueueOf(rows \cup {r}) = Append(QueueOf(rows), r.item)
<1> DEFINE more == rows \cup {r}
<1>1. Numbered(more, n + 1) /\ n + 1 \in Nat /\ more \in SUBSET ItemRow
  BY ItemAdded
<1> HIDE DEF more
<1>2. r \in more /\ rows \subseteq more /\ r.item \in Item
  BY DEF more, ItemRow
<1>3. /\ QueueOf(more) \in Seq(Item) /\ Len(QueueOf(more)) = n + 1
      /\ \A s \in more : QueueOf(more)[s.indexInQueue + 1] = s.item
  BY <1>1, QueueIs
<1>4. /\ QueueOf(rows) \in Seq(Item) /\ Len(QueueOf(rows)) = n
      /\ \A k \in 1..n : QueueOf(rows)[k] = Place(rows, k).item
  BY QueueIs
<1>5. PICK old \in Seq(Item) : old = QueueOf(rows)
  BY <1>4
<1>6. /\ Append(old, r.item) \in Seq(Item) /\ Len(Append(old, r.item)) = n + 1
      /\ \A k \in 1..n : Append(old, r.item)[k] = old[k]
      /\ Append(old, r.item)[n + 1] = r.item
  BY <1>2, <1>4, <1>5, AppendProperties
<1>7. ASSUME NEW k \in 1..(n + 1) PROVE QueueOf(more)[k] = Append(old, r.item)[k]
  <2>1. CASE k = n + 1
    BY <1>2, <1>3, <1>6, <2>1
  <2>2. CASE k # n + 1
    <3>1. k \in 1..n
      BY <2>2
    <3>2. Place(rows, k) \in more /\ Place(rows, k).indexInQueue = k - 1
      BY <1>2, <3>1, PlaceIs
    <3>3. QueueOf(more)[(k - 1) + 1] = Place(rows, k).item
      BY <1>3, <3>2
    <3>4. (k - 1) + 1 = k
      OBVIOUS
    <3> QED
      BY <1>4, <1>5, <1>6, <3>1, <3>3, <3>4
  <2> QED
    BY <2>1, <2>2
<1>8. QueueOf(more) = Append(old, r.item)
  BY <1>3, <1>6, <1>7, SeqEqual
<1> QED
  BY <1>5, <1>8 DEF more

\* The first row taken out is the tail.
LEMMA QueueTail ==
  ASSUME NEW rows \in SUBSET ItemRow, NEW n \in Nat, Numbered(rows, n), n # 0
  PROVE  QueueOf(Without(rows, 0)) = Tail(QueueOf(rows))
<1> DEFINE left == Without(rows, 0)
<1>1. left \in SUBSET ItemRow
  BY DEF Without, ItemRow
<1>2. Numbered(left, n - 1) /\ n - 1 \in Nat
  <2>1. 0 \in 0..(n - 1)
    OBVIOUS
  <2> QED
    BY <2>1, ItemTaken
<1>3. \A r \in rows : r.indexInQueue # 0 =>
        \E s \in left : s.indexInQueue = r.indexInQueue - 1 /\ s.item = r.item
  <2> SUFFICES ASSUME NEW r \in rows, r.indexInQueue # 0
               PROVE  \E s \in left : s.indexInQueue = r.indexInQueue - 1 /\ s.item = r.item
    OBVIOUS
  <2> DEFINE s == [r EXCEPT !.indexInQueue = IF @ > 0 THEN @ - 1 ELSE @]
  <2>1. s \in left
    BY DEF Without
  <2>2. s.indexInQueue = r.indexInQueue - 1 /\ s.item = r.item
    <3>1. r \in ItemRow
      OBVIOUS
    <3> QED
      BY <3>1 DEF ItemRow
  <2> QED
    BY <2>1, <2>2
<1> HIDE DEF left
<1>4. /\ QueueOf(left) \in Seq(Item) /\ Len(QueueOf(left)) = n - 1
      /\ \A s \in left : QueueOf(left)[s.indexInQueue + 1] = s.item
  BY <1>1, <1>2, QueueIs
<1>5. /\ QueueOf(rows) \in Seq(Item) /\ Len(QueueOf(rows)) = n
      /\ \A k \in 1..n : QueueOf(rows)[k] = Place(rows, k).item
  BY QueueIs
<1>6. PICK old \in Seq(Item) : old = QueueOf(rows)
  BY <1>5
<1>7. /\ Tail(old) \in Seq(Item) /\ Len(Tail(old)) = n - 1
      /\ \A k \in 1..(n - 1) : Tail(old)[k] = old[k + 1]
  <2>1. Len(old) = n /\ old # << >>
    BY <1>5, <1>6
  <2> QED
    BY <2>1, HeadTailProperties
<1>8. ASSUME NEW k \in 1..(n - 1) PROVE QueueOf(left)[k] = Tail(old)[k]
  <2>1. k + 1 \in 1..n
    OBVIOUS
  <2>2. Place(rows, k + 1) \in rows /\ Place(rows, k + 1).indexInQueue = (k + 1) - 1
    BY <2>1, PlaceIs
  <2>3. Place(rows, k + 1).indexInQueue = k
    BY <2>2
  <2>4. PICK s \in left : s.indexInQueue = k - 1 /\ s.item = Place(rows, k + 1).item
    BY <1>3, <2>2, <2>3
  <2>5. QueueOf(left)[k] = s.item
    BY <1>4, <2>4
  <2> QED
    BY <1>5, <1>6, <1>7, <2>1, <2>4, <2>5
<1>9. QueueOf(left) = Tail(old)
  BY <1>4, <1>7, <1>8, SeqEqual
<1> QED
  BY <1>6, <1>9 DEF left

-----------------------------------------------------------------------------
(* What a call has done so far *)

Lock(q, d) == [token |-> q[d].token, ttl |-> q[d].ttl]

Unlocked == [token |-> None, ttl |-> 0]

\* A queue without its first row.
Shorter(its, d) == (its \ RowsOf(its, d)) \cup Without(RowsOf(its, d), 0)

\* A row more, behind those of the item's queue.
Longer(its, jts, i) ==
  \E row \in ItemRow :
    /\ its = jts \cup {row} /\ row.item = i /\ row.discriminator = home[i]
    /\ \E n \in Nat : Numbered(RowsOf(jts, home[i]), n) /\ row.indexInQueue = n

HomeOK == \A r \in items \cup committed.items : r.discriminator = home[r.item]

AbsentOK ==
  \A d \in Discriminator :
    /\ queues[d].index = -1 => Lock(queues, d) = Unlocked
    /\ committed.queues[d].index = -1 => Lock(committed.queues, d) = Unlocked

\* A call changes the lock of the queue it is about, and no other.
LocksOK ==
  LET d == call.holder.discriminator
  IN  /\ \A e \in Discriminator :
           \/ Lock(queues, e) = Lock(committed.queues, e)
           \/ call.op \in {"lockNext", "renewLock", "acknowledge", "defer"} /\ e = d
      /\ call.op = "lockNext" =>
           /\ committed.queues[d].ttl = 0 /\ queues[d].token = call.holder.token
           /\ \A e \in Discriminator : committed.queues[e].token # call.holder.token
           /\ RowsOf(committed.items, d) # {}
      /\ call.op = "renewLock" =>
           queues[d].token = committed.queues[d].token /\ committed.queues[d].token # None
      /\ call.op \in {"acknowledge", "defer"} =>
           /\ committed.queues[d].token # None /\ Lock(queues, d) = Unlocked
           /\ \E r \in RowsOf(committed.items, d) : r.indexInQueue = 0 /\ r.item = call.item

\* The rows it has taken out or put in.
RowsOK ==
  LET shorter == Shorter(committed.items, call.holder.discriminator)
  IN  /\ call.op \in {"none", "lockNext", "renewLock"} => items = committed.items
      /\ call.op = "enqueue" =>
           \/ Pending /\ items = committed.items
           \/ NotPending /\ Longer(items, committed.items, call.item)
      /\ call.op = "acknowledge" => items = shorter
      /\ call.op = "defer" =>
           \/ Pending /\ items = shorter
           \/ NotPending /\ Longer(items, shorter, call.item)

MInv == HomeOK /\ AbsentOK /\ LocksOK /\ RowsOK

LEMMA MInitInv == Init => MInv
<1> SUFFICES ASSUME Init PROVE MInv
  OBVIOUS
<1>1. /\ items = {} /\ committed.items = {} /\ committed.queues = queues /\ call.op = "none"
      /\ \A d \in Discriminator : queues[d].token = None /\ queues[d].ttl = 0
  BY DEF Init, NoCall, Absent
<1> QED
  BY <1>1 DEF MInv, HomeOK, AbsentOK, LocksOK, RowsOK, Lock, Unlocked

\* Between calls both tables are those committed.
LEMMA WhenIdle ==
  ASSUME JInv, KInv, MInv, Idle
  PROVE  /\ queues = committed.queues /\ items = committed.items
         /\ call.op = "none" /\ Stored(items) = Queued
BY DEF JInv, IdleOK, KInv, StoredOK, Idle, NoCall

LEMMA MEnqueue ==
  ASSUME JInv, KInv, KInv', MInv, NEW i \in Item, Enqueue(i), UNCHANGED home
  PROVE  MInv'
<1>1. /\ UNCHANGED <<queues, items, committed>> /\ call' = [op |-> "enqueue", item |-> i]
      /\ todo' = <<Enqueueing(i, PriorityOf[i])>> /\ Idle /\ PriorityOf[i] \in Priority
  BY ItemsAssumption DEF Enqueue, tables
<1>2. queues = committed.queues /\ items = committed.items
  BY <1>1, WhenIdle
<1>3. Pending'
  BY <1>1 DEF Pending
<1>4. RowsOK'
  BY <1>1, <1>2, <1>3 DEF RowsOK
<1>5. LocksOK'
  BY <1>1, <1>2 DEF LocksOK
<1> QED
  BY <1>1, <1>4, <1>5 DEF MInv, HomeOK, AbsentOK

LEMMA MLockNext ==
  ASSUME JInv, KInv, MInv, LockNext, UNCHANGED home
  PROVE  MInv'
<1>1. PICK d \in Discriminator, t \in FreshTokens, r \in items :
        /\ Present(d) /\ ~ Locked(d)
        /\ r \in FirstItem(d)
        /\ queues' = [queues EXCEPT ![d].token = t, ![d].ttl = ExpirationTime]
        /\ call' = [op |-> "lockNext", item |-> r.item,
                    holder |-> [discriminator |-> d, token |-> t, item |-> r.item]]
  BY DEF LockNext
<1>2. UNCHANGED <<items, committed>> /\ Idle
  BY DEF LockNext
<1>3. queues = committed.queues /\ items = committed.items
  BY <1>2, WhenIdle
<1>4. Rows(queues)
  BY DEF JInv, IInv, TypeOK, Rows
<1>5. /\ queues'[d] = [queues[d] EXCEPT !.token = t, !.ttl = ExpirationTime]
      /\ \A e \in Discriminator \ {d} : queues'[e] = queues[e]
  BY <1>1, <1>4 DEF Rows
<1>6. queues[d] \in QueueRow
  BY <1>4 DEF Rows
<1>7. queues'[d].token = t /\ queues'[d].index = queues[d].index
  BY <1>5, <1>6 DEF QueueRow
<1>8. queues[d].ttl = 0 /\ queues[d].index # -1
  BY <1>1, <1>6, LockAssumption DEF QueueRow, Locked, Present
<1>9. \A e \in Discriminator : queues[e].token # t
  BY DEF FreshTokens
<1>10. RowsOf(items, d) # {}
  BY <1>1 DEF FirstItem, ItemsOf, RowsOf
<1>11. LocksOK'
  <2>1. call'.op = "lockNext" /\ call'.holder.discriminator = d /\ call'.holder.token = t
    BY <1>1
  <2>2. \A e \in Discriminator : e # d => Lock(queues', e) = Lock(queues, e)
    BY <1>5 DEF Lock
  <2> QED
    BY <1>2, <1>3, <1>7, <1>8, <1>9, <1>10, <2>1, <2>2 DEF LocksOK
<1>12. AbsentOK'
  BY <1>2, <1>5, <1>7, <1>8 DEF MInv, AbsentOK, Lock
<1> QED
  BY <1>1, <1>2, <1>3, <1>11, <1>12 DEF MInv, HomeOK, RowsOK

LEMMA MRenewLock ==
  ASSUME JInv, KInv, MInv, NEW h \in holders, RenewLock(h), UNCHANGED home
  PROVE  MInv'
<1> DEFINE d == h.discriminator
<1>1. /\ queues' = [queues EXCEPT ![d].ttl = ExpirationTime]
      /\ call' = [op |-> "renewLock", holder |-> h, item |-> h.item]
      /\ UNCHANGED <<items, committed>> /\ Idle /\ HoldsLock(h)
  BY DEF RenewLock
<1>2. Rows(queues) /\ d \in Discriminator /\ h.token \in Token
  BY DEF JInv, IInv, TypeOK, Rows, Holder
<1>3. queues = committed.queues /\ items = committed.items
  BY <1>1, WhenIdle
<1>4. /\ queues'[d] = [queues[d] EXCEPT !.ttl = ExpirationTime]
      /\ \A e \in Discriminator \ {d} : queues'[e] = queues[e]
      /\ queues[d] \in QueueRow
  BY <1>1, <1>2 DEF Rows
<1>5. queues'[d].token = queues[d].token /\ queues'[d].index = queues[d].index
  BY <1>4 DEF QueueRow
<1>6. queues[d].token # None /\ queues[d].index # -1
  BY <1>1, <1>2, LockAssumption DEF HoldsLock, Present
<1>7. LocksOK'
  <2>1. call'.op = "renewLock" /\ call'.holder.discriminator = d
    BY <1>1
  <2>2. \A e \in Discriminator : e # d => Lock(queues', e) = Lock(queues, e)
    BY <1>4 DEF Lock
  <2> QED
    BY <1>1, <1>3, <1>5, <1>6, <2>1, <2>2 DEF LocksOK
<1>8. AbsentOK'
  BY <1>1, <1>4, <1>5, <1>6 DEF MInv, AbsentOK, Lock
<1> QED
  BY <1>1, <1>3, <1>7, <1>8 DEF MInv, HomeOK, RowsOK

LEMMA LocksTaken ==
  ASSUME IInv, NEW h \in holders, NEW op, NEW after \in Seq(Task), TakeFirst(h, op, after)
  PROVE  /\ Lock(queues', h.discriminator) = Unlocked
         /\ \A e \in Discriminator \ {h.discriminator} :
              Lock(queues', e) = Lock(queues, e) /\ (queues'[e].index = -1 => queues[e].index = -1)
<1> DEFINE d == h.discriminator
<1>1. Rows(queues) /\ d \in Discriminator /\ Present(d)
  BY DEF IInv, TypeOK, Rows, Holder, TakeFirst, HoldsLock
<1>2. \A e \in Discriminator : queues[e] \in QueueRow
  BY <1>1 DEF Rows
<1>3. \A e \in Discriminator \ {d} : queues'[e].index = -1 => queues[e].index = -1
  BY TokensTaken
<1> HIDE DEF d
<1>4. CASE queues' = [queues EXCEPT ![d].token = None, ![d].ttl = 0]
  <2>1. /\ queues'[d] = [queues[d] EXCEPT !.token = None, !.ttl = 0]
        /\ \A e \in Discriminator \ {d} : queues'[e] = queues[e]
    BY <1>1, <1>4 DEF Rows
  <2>2. queues'[d].token = None /\ queues'[d].ttl = 0
    BY <1>1, <1>2, <2>1 DEF QueueRow
  <2> QED
    BY <1>3, <2>1, <2>2 DEF Lock, Unlocked, d
<1>5. CASE RemoveQueue(d, after)
  <2>1. PICK m \in Nat : HeapOf(queues, m)
    BY DEF IInv, TablesOK
  <2>2. /\ queues'[d] = Absent
        /\ \A e \in Discriminator \ {d} : queues'[e] = [queues[e] EXCEPT !.index = queues'[e].index]
    BY <1>1, <1>5, <2>1, Removed
  <2>3. ASSUME NEW e \in Discriminator \ {d} PROVE Lock(queues', e) = Lock(queues, e)
    <3>1. queues[e] \in QueueRow /\ queues'[e] = [queues[e] EXCEPT !.index = queues'[e].index]
      BY <1>2, <2>2
    <3>2. /\ [queues[e] EXCEPT !.index = queues'[e].index].token = queues[e].token
          /\ [queues[e] EXCEPT !.index = queues'[e].index].ttl = queues[e].ttl
      BY <3>1 DEF QueueRow
    <3>3. queues'[e].token = queues[e].token /\ queues'[e].ttl = queues[e].ttl
      BY <3>1, <3>2
    <3> QED
      BY <3>3 DEF Lock
  <2>4. Lock(queues', d) = Unlocked
    BY <2>2 DEF Lock, Unlocked, Absent
  <2> QED
    BY <1>3, <2>3, <2>4 DEF d
<1> QED
  BY <1>4, <1>5 DEF TakeFirst, d

LEMMA MTakeFirst ==
  ASSUME JInv, KInv, KInv', MInv, NEW h \in holders, NEW op \in {"acknowledge", "defer"},
         NEW after \in Seq(Task), TakeFirst(h, op, after), UNCHANGED home
  PROVE  MInv'
<1> DEFINE d == h.discriminator
<1>1. /\ Idle /\ HoldsLock(h) /\ Present(d) /\ IInv
      /\ items' = WithoutItem(d, 0)
      /\ UNCHANGED <<committed, status, holders>>
  BY DEF TakeFirst, HoldsLock, JInv
<1>2. PICK r \in FirstItem(d) : call' = [op |-> op, holder |-> h, item |-> r.item]
  BY DEF TakeFirst
<1>3. d \in Discriminator /\ h.token \in Token /\ items \subseteq ItemRow
  BY <1>1 DEF IInv, TypeOK, Holder
<1>4. queues = committed.queues /\ items = committed.items
  BY <1>1, WhenIdle
<1>5. /\ Lock(queues', d) = Unlocked
      /\ \A e \in Discriminator \ {d} :
           Lock(queues', e) = Lock(queues, e) /\ (queues'[e].index = -1 => queues[e].index = -1)
  BY <1>1, LocksTaken
<1>6. items' = Shorter(committed.items, d)
  BY <1>1, <1>4 DEF WithoutItem, Shorter, Without, ItemsOf, RowsOf
<1>7. r \in RowsOf(committed.items, d) /\ r.indexInQueue = 0
  <2>1. PICK n \in Nat : Numbered(RowsOf(items, d), n) /\ n # 0 /\ 0 \in 0..(n - 1)
    BY <1>1, <1>3, FirstIs
  <2> QED
    BY <1>3, <1>4, <2>1 DEF FirstItem, ItemsOf, RowsOf, Numbered, ItemRow
<1>8. /\ call'.op = op /\ call'.holder.discriminator = d /\ call'.item = r.item
      /\ committed.queues[d].token # None
  BY <1>1, <1>2, <1>3, <1>4, LockAssumption DEF HoldsLock
<1>9. LocksOK'
  BY <1>1, <1>4, <1>5, <1>7, <1>8 DEF LocksOK
<1>10. AbsentOK'
  BY <1>1, <1>5 DEF MInv, AbsentOK
<1>11. HomeOK'
  <2>1. \A s \in Without(RowsOf(items, d), 0) : \E q \in items :
          s.discriminator = q.discriminator /\ s.item = q.item
    <3>1. \A q \in RowsOf(items, d) :
            /\ [q EXCEPT !.indexInQueue = IF @ > 0 THEN @ - 1 ELSE @].discriminator = q.discriminator
            /\ [q EXCEPT !.indexInQueue = IF @ > 0 THEN @ - 1 ELSE @].item = q.item
      BY <1>3 DEF RowsOf, ItemRow
    <3>2. RowsOf(items, d) \subseteq items
      BY DEF RowsOf
    <3> QED
      BY <3>1, <3>2 DEF Without
  <2>2. \A s \in items' : s.discriminator = home[s.item]
    BY <1>4, <1>6, <2>1 DEF Shorter, MInv, HomeOK
  <2> QED
    BY <1>1, <2>2 DEF MInv, HomeOK
<1>12. RowsOK'
  <2>1. op = "defer" => Pending'
    <3>1. op = "defer" => Stored(items') # Queued'
      <4>1. Stored(items) = Queued /\ Queued' = Queued
        BY <1>1, WhenIdle DEF Queued
      <4>2. Stored(items') = Stored(items) \ {r.item}
        <5>1. PICK n \in Nat : Numbered(RowsOf(items, d), n)
          BY <1>1, <1>3 DEF IInv, TablesOK
        <5> QED
          BY <1>1, <1>3, <1>4, <1>7, <5>1, FirstTaken DEF KInv
      <4>3. r.item \in Stored(items)
        BY <1>4, <1>7 DEF Stored, RowsOf
      <4> QED
        BY <4>1, <4>2, <4>3
    <3> QED
      BY <1>8, <3>1 DEF KInv, StoredOK
  <2> QED
    BY <1>1, <1>6, <1>8, <2>1 DEF RowsOK
<1> QED
  BY <1>9, <1>10, <1>11, <1>12 DEF MInv

\* An item put in makes a row behind the others, and an unlocked queue if there
\* was none.
LEMMA PutIn ==
  ASSUME JInv, KInv, MInv, EnqueueInternal, UNCHANGED home
  PROVE  /\ Longer(items', items, call.item) /\ call.op \in {"enqueue", "defer"}
         /\ Pending /\ ~ NotPending /\ NotPending'
         /\ \A r \in items' : r \in items \/ r.discriminator = home[r.item]
         /\ \A e \in Discriminator : /\ Lock(queues', e) = Lock(queues, e)
                                     /\ queues'[e].index = -1 => queues[e].index = -1
<1> DEFINE i == Head(todo).item
           d == home[i]
           new == [discriminator |-> d, indexInQueue |-> NextIndexInQueue(d),
                   priority |-> Head(todo).priority, item |-> i]
<1>1. /\ todo \in Seq(Task) /\ todo # << >> /\ Head(todo).do = "enqueue" /\ IInv
      /\ UNCHANGED <<committed, call, status>>
  BY DEF EnqueueInternal, JInv, IInv, TypeOK
<1>2. ~ NotPending
  BY <1>1 DEF NotPending
<1>3. call.op \in {"enqueue", "defer"} /\ Pending
  <2>1. call.op \in {"none", "enqueue", "remove", "lockNext", "renewLock", "acknowledge", "defer"}
    BY <1>1 DEF IInv, TypeOK, Call, NoCall
  <2> QED
    BY <1>2, <2>1 DEF KInv, StoredOK
<1>4. PICK p \in Priority : todo = <<Enqueueing(call.item, p)>>
  BY <1>1, <1>3 DEF Pending, Down
<1>5. i = call.item /\ Tail(todo) = << >> /\ Head(todo).priority \in Priority
  BY <1>4 DEF Enqueueing
<1>6. i \in Item
  BY <1>1, TodoTypes, TaskTypes
<1>7. d \in Discriminator /\ Rows(queues) /\ items \subseteq ItemRow
  BY <1>1, <1>6 DEF IInv, TypeOK, Rows
<1>8. PICK n \in Nat : Numbered(RowsOf(items, d), n)
  BY <1>1, <1>7 DEF IInv, TablesOK
<1>9. NextIndexInQueue(d) = n
  BY <1>7, <1>8, NextNumber
<1>10. /\ items' = items \cup {new} /\ new \in ItemRow
       /\ new.item = i /\ new.discriminator = d /\ new.indexInQueue = n
  BY <1>5, <1>6, <1>7, <1>9 DEF EnqueueInternal, ItemRow
<1>11. \/ Present(d) /\ UNCHANGED queues
       \/ /\ ~ Present(d)
          /\ queues' = [queues EXCEPT ![d] = [Absent EXCEPT !.index = NextIndexInPriorityQueue]]
  BY DEF EnqueueInternal
<1>12. todo' = << >> \/ \E e : todo' = <<Up(e)>>
  <2>1. todo' = Tail(todo) \/ todo' = <<Up(d)>> \o Tail(todo)
    BY DEF EnqueueInternal
  <2>2. <<Up(d)>> \o << >> = <<Up(d)>>
    <3>1. <<Up(d)>> \in Seq(Task)
      BY <1>7, TaskTypes, TodoTypes
    <3> QED
      BY <3>1, ConcatEmptySeq
  <2> QED
    BY <1>5, <2>1, <2>2
<1>13. d = home[call.item]
  BY <1>5
<1> HIDE DEF new, d, i
<1>14. Longer(items', items, call.item)
  BY <1>5, <1>8, <1>10, <1>13 DEF Longer
<1>15. NotPending'
  BY <1>12 DEF NotPending, Up
<1>16. \A r \in items' : r \in items \/ r.discriminator = home[r.item]
  BY <1>5, <1>10, <1>13
<1>17. ASSUME NEW e \in Discriminator
       PROVE  Lock(queues', e) = Lock(queues, e) /\ (queues'[e].index = -1 => queues[e].index = -1)
  <2>1. CASE e = d /\ ~ Present(d)
    <3>1. queues'[d] = [Absent EXCEPT !.index = NextIndexInPriorityQueue]
      BY <1>7, <1>11, <2>1 DEF Rows
    <3>2. Lock(queues', d) = Unlocked
      BY <3>1 DEF Lock, Unlocked, Absent
    <3>3. Lock(queues, d) = Unlocked /\ queues[d].index = -1
      BY <1>7, <2>1 DEF MInv, AbsentOK, Present
    <3> QED
      BY <2>1, <3>2, <3>3
  <2>2. CASE ~ (e = d /\ ~ Present(d))
    <3>1. queues'[e] = queues[e]
      BY <1>7, <1>11, <2>2 DEF Rows
    <3> QED
      BY <3>1 DEF Lock
  <2> QED
    BY <2>1, <2>2
<1> QED
  BY <1>2, <1>3, <1>14, <1>15, <1>16, <1>17

LEMMA MEnqueueInternal ==
  ASSUME JInv, KInv, MInv, EnqueueInternal, UNCHANGED home
  PROVE  MInv'
<1>1. UNCHANGED <<committed, call>>
  BY DEF EnqueueInternal
<1>2. /\ Longer(items', items, call.item) /\ call.op \in {"enqueue", "defer"}
      /\ Pending /\ ~ NotPending /\ NotPending'
      /\ \A r \in items' : r \in items \/ r.discriminator = home[r.item]
      /\ \A e \in Discriminator : /\ Lock(queues', e) = Lock(queues, e)
                                  /\ queues'[e].index = -1 => queues[e].index = -1
  BY PutIn
<1>3. HomeOK' /\ AbsentOK'
  BY <1>1, <1>2 DEF MInv, HomeOK, AbsentOK
<1>4. LocksOK'
  <2>1. call.op = "defer" => call.holder.discriminator \in Discriminator
    BY CallsAre DEF JInv, IInv, TypeOK, Holder
  <2> QED
    BY <1>1, <1>2, <2>1 DEF MInv, LocksOK
<1>5. RowsOK'
  <2>1. CASE call.op = "enqueue"
    <3>1. items = committed.items
      BY <1>2, <2>1 DEF MInv, RowsOK
    <3>2. Longer(items, committed.items, call.item)'
      BY <1>1, <1>2, <3>1 DEF Longer
    <3> QED
      BY <1>1, <1>2, <2>1, <3>2 DEF RowsOK
  <2>2. CASE call.op = "defer"
    <3> DEFINE shorter == Shorter(committed.items, call.holder.discriminator)
    <3>1. items = shorter
      BY <1>2, <2>2 DEF MInv, RowsOK
    <3> HIDE DEF shorter
    <3>2. Longer(items', shorter, call.item)
      BY <1>2, <3>1
    <3>3. shorter' = shorter
      BY <1>1 DEF shorter, Shorter, RowsOf, Without
    <3>4. Longer(items, shorter, call.item)'
      BY <1>1, <3>2, <3>3 DEF Longer
    <3> QED
      BY <1>1, <1>2, <2>2, <3>4 DEF RowsOK, shorter
  <2> QED
    BY <1>2, <2>1, <2>2
<1> QED
  BY <1>3, <1>4, <1>5 DEF MInv

\* A step that changes neither rows nor locks, and leaves a pending item pending.
LEMMA MQuiet ==
  ASSUME MInv, UNCHANGED <<home, items, committed, call>>,
         \A e \in Discriminator : /\ Lock(queues', e) = Lock(queues, e)
                                  /\ queues'[e].index = -1 => queues[e].index = -1,
         call.op \in {"lockNext", "renewLock", "acknowledge", "defer"} => call.holder \in Holder,
         Pending => Pending', NotPending => NotPending'
  PROVE  MInv'
<1>1. HomeOK' /\ AbsentOK'
  BY DEF MInv, HomeOK, AbsentOK
<1>2. LocksOK'
  <2>1. \A e \in Discriminator : queues'[e].token = queues[e].token
    BY DEF Lock
  <2>2. call.op \in {"lockNext", "renewLock", "acknowledge", "defer"} =>
          call.holder.discriminator \in Discriminator
    BY DEF Holder
  <2> QED
    BY <2>1, <2>2 DEF MInv, LocksOK
<1>3. RowsOK'
  <2> DEFINE shorter == Shorter(committed.items, call.holder.discriminator)
  <2>1. shorter' = shorter
    BY DEF Shorter, RowsOf, Without
  <2>2. /\ Longer(items, committed.items, call.item) => Longer(items, committed.items, call.item)'
        /\ Longer(items, shorter, call.item) => Longer(items, shorter, call.item)'
    <3> HIDE DEF shorter
    <3> QED
      BY <2>1 DEF Longer
  <2> HIDE DEF shorter
  <2> QED
    BY <2>1, <2>2 DEF MInv, RowsOK, shorter
<1> QED
  BY <1>1, <1>2, <1>3 DEF MInv

LEMMA MRepair ==
  ASSUME JInv, JInv', KInv, MInv, RepairUp \/ RepairDown, UNCHANGED home
  PROVE  MInv'
<1> DEFINE d == Head(todo).discriminator
<1>1. /\ todo \in Seq(Task) /\ todo # << >> /\ Head(todo).do \in {"repairUp", "repairDown"}
      /\ todo' = todo \/ todo' = Tail(todo)
      /\ UNCHANGED <<items, committed, call>>
      /\ IInv
  BY DEF RepairUp, RepairDown, JInv, IInv, TypeOK
<1>2. NotPending => NotPending'
  BY <1>1 DEF NotPending
<1>3. Pending => Pending'
  <2> SUFFICES ASSUME Pending PROVE Pending'
    OBVIOUS
  <2>1. PICK p \in Priority : \/ todo = <<Enqueueing(call.item, p)>>
                              \/ \E e \in Discriminator : todo = <<Down(e), Enqueueing(call.item, p)>>
    BY DEF Pending
  <2>2. PICK e \in Discriminator : todo = <<Down(e), Enqueueing(call.item, p)>>
    BY <1>1, <2>1 DEF Enqueueing
  <2>3. Tail(todo) = <<Enqueueing(call.item, p)>>
    BY <2>2
  <2> QED
    BY <1>1, <2>2, <2>3 DEF Pending
<1>4. call.op \in {"lockNext", "renewLock", "acknowledge", "defer"} => call.holder \in Holder
  BY <1>1, CallsAre DEF IInv, TypeOK
<1>5. CASE UNCHANGED queues
  BY <1>1, <1>2, <1>3, <1>4, <1>5, MQuiet DEF Lock
<1>6. ASSUME NEW q \in items, SwapPositions(d, q.discriminator) PROVE MInv'
  <2>1. d \in Discriminator
    BY <1>1, TodoTypes, TaskTypes
  <2>2. PICK e \in Discriminator : e = q.discriminator
    BY <1>1 DEF IInv, TypeOK, ItemRow
  <2>3. \E r \in items : r.discriminator = d
    BY DEF RepairUp, RepairDown, ItemsOf
  <2>4. queues[d].index # -1 /\ queues[e].index # -1
    BY <2>2, <2>3 DEF JInv, PresentOK
  <2>5. \A c \in Discriminator : queues[c] \in QueueRow
    BY <1>1 DEF IInv, TypeOK
  <2>6. Rows(queues)
    BY <1>1 DEF IInv, TypeOK, Rows
  <2> HIDE DEF d
  <2>7. queues' = [queues EXCEPT ![d].index = queues[e].index, ![e].index = queues[d].index]
    BY <1>6, <2>2 DEF SwapPositions
  <2>8. \A c \in Discriminator : /\ Lock(queues', c) = Lock(queues, c)
                                 /\ queues'[c].index = -1 => queues[c].index = -1
    <3>1. CASE d = e
      <4>1. queues' = queues
        BY <2>1, <2>5, <2>6, <2>7, <3>1 DEF Rows, QueueRow
      <4> QED
        BY <4>1
    <3>2. CASE d # e
      <4>1. /\ queues'[d] = [queues[d] EXCEPT !.index = queues[e].index]
            /\ queues'[e] = [queues[e] EXCEPT !.index = queues[d].index]
            /\ \A c \in Discriminator \ {d, e} : queues'[c] = queues[c]
        BY <2>1, <2>2, <2>6, <2>7, <3>2 DEF Rows
      <4>2. /\ queues'[d].token = queues[d].token /\ queues'[d].ttl = queues[d].ttl
            /\ queues'[e].token = queues[e].token /\ queues'[e].ttl = queues[e].ttl
            /\ queues'[d].index = queues[e].index /\ queues'[e].index = queues[d].index
        BY <2>1, <2>2, <2>5, <4>1 DEF QueueRow
      <4> QED
        BY <2>4, <4>1, <4>2 DEF Lock
    <3> QED
      BY <3>1, <3>2
  <2> QED
    BY <1>1, <1>2, <1>3, <1>4, <2>8, MQuiet
<1>7. \/ UNCHANGED queues
      \/ \E q \in items : SwapPositions(d, q.discriminator)
  <2>1. SmallerChild(d) \subseteq items /\ \A n : AtIndex(n) \subseteq items
    BY DEF SmallerChild, AtIndex
  <2>2. CASE RepairUp
    BY <2>1, <2>2 DEF RepairUp
  <2>3. CASE RepairDown
    BY <2>1, <2>3 DEF RepairDown
  <2> QED
    BY <2>2, <2>3
<1> QED
  BY <1>5, <1>6, <1>7

\* A call ends: both tables are the same again.
LEMMA MEnd ==
  ASSUME MInv, UNCHANGED home, call' = NoCall,
         queues' = committed'.queues, items' = committed'.items,
         \/ queues' = queues /\ items' = items
         \/ UNCHANGED committed
  PROVE  MInv'
<1>1. HomeOK' /\ AbsentOK'
  BY DEF MInv, HomeOK, AbsentOK
<1> QED
  BY <1>1 DEF MInv, LocksOK, RowsOK, NoCall

LEMMA LockAged ==
  ASSUME NEW q, Rows(q), NEW d \in Discriminator
  PROVE  /\ Aged(q)[d].token = q[d].token /\ Aged(q)[d].index = q[d].index
         /\ Aged(q)[d].ttl = IF q[d].ttl > 0 THEN q[d].ttl - 1 ELSE 0
<1>1. q[d] \in QueueRow
  BY DEF Rows
<1>2. Aged(q)[d] = [q[d] EXCEPT !.ttl = IF @ > 0 THEN @ - 1 ELSE 0]
  BY DEF Aged
<1> QED
  BY <1>1, <1>2 DEF QueueRow

LEMMA MTick ==
  ASSUME JInv, MInv, Tick, UNCHANGED home
  PROVE  MInv'
<1>1. /\ queues' = Aged(queues) /\ UNCHANGED <<items, call, todo>>
      /\ committed' = [committed EXCEPT !.queues = Aged(@)]
  BY DEF Tick
<1>2. /\ Rows(queues) /\ Rows(committed.queues) /\ committed \in Tables
      /\ (call.op \in {"lockNext", "renewLock", "acknowledge", "defer"} => call.holder \in Holder)
  BY CallsAre DEF JInv, IInv, TypeOK, Tables, Rows
<1>3. committed'.queues = Aged(committed.queues) /\ committed'.items = committed.items
  BY <1>1, <1>2 DEF Tables
<1>4. \A d \in Discriminator :
        /\ queues'[d].token = queues[d].token /\ queues'[d].index = queues[d].index
        /\ queues'[d].ttl = IF queues[d].ttl > 0 THEN queues[d].ttl - 1 ELSE 0
        /\ committed'.queues[d].token = committed.queues[d].token
        /\ committed'.queues[d].index = committed.queues[d].index
        /\ committed'.queues[d].ttl = IF committed.queues[d].ttl > 0
                                       THEN committed.queues[d].ttl - 1 ELSE 0
  BY <1>1, <1>2, <1>3, LockAged
<1>5. \A d \in Discriminator :
        /\ Lock(queues, d) = Lock(committed.queues, d) => Lock(queues', d) = Lock(committed'.queues, d)
        /\ Lock(queues, d) = Unlocked => Lock(queues', d) = Unlocked
        /\ Lock(committed.queues, d) = Unlocked => Lock(committed'.queues, d) = Unlocked
  BY <1>4 DEF Lock, Unlocked
<1>6. HomeOK' /\ AbsentOK'
  BY <1>1, <1>3, <1>4, <1>5 DEF MInv, HomeOK, AbsentOK
<1>7. LocksOK'
  <2>1. call.op \in {"lockNext", "renewLock", "acknowledge", "defer"} =>
          call.holder.discriminator \in Discriminator
    BY <1>2 DEF Holder
  <2>2. LocksOK /\ UNCHANGED call
    BY <1>1 DEF MInv
  <2> HIDE DEF Rows
  <2> QED
    BY <1>3, <1>4, <1>5, <2>1, <2>2 DEF LocksOK
<1>8. RowsOK'
  <2>1. /\ Pending' = Pending /\ NotPending' = NotPending
        /\ Longer(items, committed.items, call.item)' = Longer(items, committed.items, call.item)
    BY <1>1, <1>3 DEF Pending, NotPending, Longer
  <2> QED
    BY <1>1, <1>3 DEF MInv, RowsOK, Longer, Pending, NotPending
<1> QED
  BY <1>6, <1>7, <1>8 DEF MInv

LEMMA MNext == NoRemoval => (JInv /\ JInv' /\ KInv /\ KInv' /\ MInv /\ [Next]_vars => MInv')
<1> SUFFICES ASSUME NoRemoval, JInv, JInv', KInv, KInv', MInv, [Next]_vars PROVE MInv'
  OBVIOUS
<1>1. call.op \in {"lockNext", "renewLock", "acknowledge", "defer"} => call.holder \in Holder
  BY CallsAre DEF JInv, IInv, TypeOK
<1>2. ASSUME UNCHANGED <<home, queues, items, committed, call, todo>> PROVE MInv'
  BY <1>1, <1>2, MQuiet DEF Pending, NotPending
<1>3. CASE UNCHANGED vars
  BY <1>2, <1>3 DEF vars, tables
<1>4. CASE Next
  <2>1. UNCHANGED home
    BY <1>4 DEF Next
  <2>2. ASSUME NEW i \in Item, Enqueue(i) PROVE MInv'
    BY <2>1, <2>2, MEnqueue
  <2>3. ASSUME NEW i \in Item, Remove(i) PROVE MInv'
    BY <2>3 DEF NoRemoval, Remove
  <2>4. CASE LockNext
    BY <2>1, <2>4, MLockNext
  <2>5. ASSUME NEW h \in holders, RenewLock(h) PROVE MInv'
    BY <2>1, <2>5, MRenewLock
  <2>6. ASSUME NEW h \in holders, Acknowledge(h) PROVE MInv'
    <3>1. << >> \in Seq(Task)
      BY TodoTypes
    <3> QED
      BY <2>1, <2>6, <3>1, MTakeFirst DEF Acknowledge
  <2>7. ASSUME NEW h \in holders, NEW p \in Priority, Defer(h, p) PROVE MInv'
    <3>1. PICK f \in FirstItem(h.discriminator) :
            TakeFirst(h, "defer", <<Enqueueing(f.item, p)>>)
      BY <2>7 DEF Defer
    <3>2. <<Enqueueing(f.item, p)>> \in Seq(Task)
      BY TaskTypes, TodoTypes DEF FirstItem, ItemsOf, JInv, IInv, TypeOK, ItemRow
    <3> QED
      BY <2>1, <3>1, <3>2, MTakeFirst
  <2>8. ASSUME NEW h \in holders, GiveUp(h) PROVE MInv'
    BY <1>2, <2>1, <2>8 DEF GiveUp, tables
  <2>9. CASE Commit
    <3>1. /\ UNCHANGED <<queues, items>> /\ call' = NoCall
          /\ committed'.queues = queues /\ committed'.items = items
      BY <2>9 DEF Commit, tables
    <3> QED
      BY <2>1, <3>1, MEnd
  <2>10. CASE Step
    BY <2>1, <2>9, <2>10, MEnqueueInternal, MRepair DEF Step
  <2>11. CASE Rollback
    BY <2>1, <2>11, MEnd DEF Rollback
  <2>12. CASE Tick
    BY <2>1, <2>12, MTick
  <2> QED
    BY <1>4, <2>2, <2>3, <2>4, <2>5, <2>6, <2>7, <2>8, <2>10, <2>11, <2>12 DEF Next
<1> QED
  BY <1>3, <1>4

-----------------------------------------------------------------------------
(* The refinement *)

LEMMA FifoLonger ==
  ASSUME home \in [Item -> Discriminator], NEW jts \in SUBSET ItemRow, NEW its,
         NEW i \in Item, Longer(its, jts, i)
  PROVE  FifoOf(its) = [FifoOf(jts) EXCEPT ![home[i]] = Append(@, i)]
<1> DEFINE d == home[i]
<1>1. PICK row \in ItemRow, n \in Nat :
        /\ its = jts \cup {row} /\ row.item = i /\ row.discriminator = d
        /\ Numbered(RowsOf(jts, d), n) /\ row.indexInQueue = n
  BY DEF Longer
<1>2. d \in Discriminator
  OBVIOUS
<1> HIDE DEF d
<1>3. RowsOf(its, d) = RowsOf(jts, d) \cup {row} /\ RowsOf(jts, d) \in SUBSET ItemRow
  BY <1>1 DEF RowsOf
<1>4. \A e \in Discriminator \ {d} : RowsOf(its, e) = RowsOf(jts, e)
  BY <1>1 DEF RowsOf
<1>5. QueueOf(RowsOf(its, d)) = Append(QueueOf(RowsOf(jts, d)), i)
  BY <1>1, <1>3, QueueAppended
<1> QED
  BY <1>2, <1>4, <1>5 DEF FifoOf, d

LEMMA FifoShorter ==
  ASSUME NEW jts \in SUBSET ItemRow, NEW d \in Discriminator,
         NEW n \in Nat, Numbered(RowsOf(jts, d), n), n # 0
  PROVE  /\ FifoOf(Shorter(jts, d)) = [FifoOf(jts) EXCEPT ![d] = Tail(@)]
         /\ Shorter(jts, d) \in SUBSET ItemRow
<1>1. RowsOf(jts, d) \in SUBSET ItemRow
  BY DEF RowsOf
<1>2. \A r \in Without(RowsOf(jts, d), 0) : r \in ItemRow /\ r.discriminator = d
  <2>1. \A r \in RowsOf(jts, d) :
          /\ [r EXCEPT !.indexInQueue = IF @ > 0 THEN @ - 1 ELSE @] \in ItemRow
          /\ [r EXCEPT !.indexInQueue = IF @ > 0 THEN @ - 1 ELSE @].discriminator = d
    BY <1>1 DEF RowsOf, ItemRow
  <2> QED
    BY <2>1 DEF Without
<1>3. RowsOf(Shorter(jts, d), d) = Without(RowsOf(jts, d), 0)
  BY <1>2 DEF Shorter, RowsOf
<1>4. \A e \in Discriminator \ {d} : RowsOf(Shorter(jts, d), e) = RowsOf(jts, e)
  BY <1>2 DEF Shorter, RowsOf
<1>5. QueueOf(RowsOf(Shorter(jts, d), d)) = Tail(QueueOf(RowsOf(jts, d)))
  BY <1>1, <1>3, QueueTail
<1>6. Shorter(jts, d) \in SUBSET ItemRow
  BY <1>2 DEF Shorter
<1> QED
  BY <1>4, <1>5, <1>6 DEF FifoOf

LEMMA InitIsLeased == Init => Leased!Init
<1> SUFFICES ASSUME Init PROVE Leased!Init
  OBVIOUS
<1>1. committed.items = {} /\ \A d \in Discriminator : Lock(committed.queues, d) = Unlocked
  BY DEF Init, Absent, Lock, Unlocked
<1>2. \A d \in Discriminator : RowsOf(committed.items, d) = {}
  BY <1>1 DEF RowsOf
<1>3. QueueOf({}) = << >>
  <2>1. Numbered({}, 0) /\ {} \in SUBSET ItemRow
    BY DEF Numbered
  <2>2. QueueOf({}) \in Seq(Item) /\ Len(QueueOf({})) = 0
    BY <2>1, QueueIs
  <2> QED
    BY <2>2, EmptySeq
<1>4. Fifo = [d \in Discriminator |-> << >>]
  BY <1>2, <1>3, FifoIsCommitted DEF FifoOf
<1>5. Leases = [d \in Discriminator |-> Leased!Free]
  BY <1>1 DEF Leases, Lock, Unlocked, Leased!Free
<1> QED
  BY <1>4, <1>5 DEF Leased!Init

\* What is known where a call commits.
LEMMA AtCommit ==
  ASSUME JInv, KInv, MInv, Commit, UNCHANGED home
  PROVE  /\ Fifo = FifoOf(committed.items) /\ Fifo' = FifoOf(items)
         /\ Leases = [d \in Discriminator |-> Lock(committed.queues, d)]
         /\ Leases' = [d \in Discriminator |-> Lock(queues, d)]
         /\ ~ Pending /\ call.item \in Item
         /\ home \in [Item -> Discriminator]
         /\ committed.items \in SUBSET ItemRow
         /\ \A d \in Discriminator : queues[d].ttl \in 0..ExpirationTime
         /\ \A d \in Discriminator : \E n \in Nat : Numbered(RowsOf(committed.items, d), n)
         /\ (call.op \in {"lockNext", "renewLock", "acknowledge", "defer"} => call.holder \in Holder)
<1>1. committed'.queues = queues /\ committed'.items = items /\ todo = << >> /\ ~ Idle
  BY DEF Commit
<1>2. Fifo = FifoOf(committed.items) /\ Fifo' = FifoOf(items)
  <2>1. Fifo' = FifoOf(committed.items)'
    BY FifoIsCommitted
  <2>2. FifoOf(committed.items)' = FifoOf(items)
    BY <1>1 DEF FifoOf, QueueOf, RowsOf, Place
  <2> QED
    BY <2>1, <2>2, FifoIsCommitted
<1>3. /\ Leases = [d \in Discriminator |-> Lock(committed.queues, d)]
      /\ Leases' = [d \in Discriminator |-> Lock(queues, d)]
  BY <1>1 DEF Leases, Lock
<1>4. ~ Pending
  BY <1>1 DEF Pending
<1>5. /\ call.item \in Item
      /\ (call.op \in {"lockNext", "renewLock", "acknowledge", "defer"} => call.holder \in Holder)
  BY <1>1, CallsAre DEF JInv, IInv, TypeOK
<1>6. /\ home \in [Item -> Discriminator] /\ committed.items \in SUBSET ItemRow
      /\ \A d \in Discriminator : queues[d].ttl \in 0..ExpirationTime
      /\ \A d \in Discriminator : \E n \in Nat : Numbered(RowsOf(committed.items, d), n)
  BY DEF JInv, IInv, TypeOK, Tables, TablesOK, QueueRow
<1> QED
  BY <1>2, <1>3, <1>4, <1>5, <1>6

LEMMA EnqueueCommits ==
  ASSUME JInv, KInv, MInv, Commit, UNCHANGED home, call.op = "enqueue"
  PROVE  Leased!Next
<1> DEFINE i == call.item
           d == home[i]
<1>1. i \in Item /\ d \in Discriminator
  BY AtCommit
<1>2. Longer(items, committed.items, i)
  BY AtCommit DEF MInv, RowsOK
<1>3. Fifo' = [Fifo EXCEPT ![d] = Append(@, i)]
  BY <1>1, <1>2, AtCommit, FifoLonger
<1>4. Leases' = Leases
  <2>1. \A e \in Discriminator : Lock(queues, e) = Lock(committed.queues, e)
    BY DEF MInv, LocksOK
  <2> QED
    BY <2>1, AtCommit
<1>5. \A e \in Discriminator : \A n \in DOMAIN Fifo[e] : Fifo[e][n] # i
  <2> SUFFICES ASSUME NEW e \in Discriminator, NEW n \in DOMAIN Fifo[e] PROVE Fifo[e][n] # i
    OBVIOUS
  <2>1. PICK m \in Nat : Numbered(RowsOf(committed.items, e), m)
    BY AtCommit
  <2>2. RowsOf(committed.items, e) \in SUBSET ItemRow
    BY AtCommit DEF RowsOf
  <2>3. Fifo[e] = QueueOf(RowsOf(committed.items, e))
    BY AtCommit DEF FifoOf
  <2>4. n \in 1..m /\ Fifo[e][n] = Place(RowsOf(committed.items, e), n).item
    BY <2>1, <2>2, <2>3, QueueIs
  <2>5. Place(RowsOf(committed.items, e), n) \in RowsOf(committed.items, e)
    BY <2>1, <2>2, <2>4, PlaceIs
  <2>6. Fifo[e][n] \in Stored(committed.items)
    BY <2>4, <2>5 DEF Stored, RowsOf
  <2> QED
    BY <2>6 DEF KInv, StoredOK
<1>6. Leased!Enqueue(d, i)
  BY <1>3, <1>4, <1>5 DEF Leased!Enqueue
<1> QED
  BY <1>1, <1>6 DEF Leased!Next

\* The other calls leave the locks of the other queues.
LEMMA OneLease ==
  ASSUME JInv, KInv, MInv, Commit, UNCHANGED home,
         call.op \in {"lockNext", "renewLock", "acknowledge", "defer"}
  PROVE  LET d == call.holder.discriminator
         IN  Leases' = [Leases EXCEPT ![d] = Lock(queues, d)] /\ d \in Discriminator
<1> DEFINE d == call.holder.discriminator
<1>1. d \in Discriminator
  BY AtCommit DEF Holder
<1>2. \A e \in Discriminator : e # d => Lock(queues, e) = Lock(committed.queues, e)
  BY DEF MInv, LocksOK
<1> QED
  BY <1>1, <1>2, AtCommit

LEMMA LockingCommits ==
  ASSUME JInv, KInv, MInv, Commit, UNCHANGED home, call.op \in {"lockNext", "renewLock"}
  PROVE  Leased!Next
<1> DEFINE d == call.holder.discriminator
<1>1. d \in Discriminator /\ Leases' = [Leases EXCEPT ![d] = Lock(queues, d)]
  BY OneLease
<1>2. Fifo' = Fifo
  <2>1. items = committed.items
    BY DEF MInv, RowsOK
  <2> QED
    BY <2>1, AtCommit
<1>3. queues[d].ttl \in 0..ExpirationTime /\ Leases[d] = Lock(committed.queues, d)
  BY <1>1, AtCommit
<1>4. CASE call.op = "lockNext"
  <2>1. /\ committed.queues[d].ttl = 0 /\ queues[d].token = call.holder.token
        /\ \A e \in Discriminator : committed.queues[e].token # call.holder.token
        /\ RowsOf(committed.items, d) # {}
    BY <1>4 DEF MInv, LocksOK
  <2>2. call.holder.token \in Token
    BY <1>4, AtCommit DEF Holder
  <2>3. Fifo[d] # << >>
    <3>1. PICK m \in Nat : Numbered(RowsOf(committed.items, d), m)
      BY <1>1, AtCommit
    <3>2. RowsOf(committed.items, d) \in SUBSET ItemRow
      BY AtCommit DEF RowsOf
    <3>3. m # 0
      <4>1. \A r \in RowsOf(committed.items, d) : r.indexInQueue \in Nat
        BY <3>2 DEF ItemRow
      <4> QED
        BY <2>1, <3>1, <4>1 DEF Numbered
    <3>4. Fifo[d] = QueueOf(RowsOf(committed.items, d))
      BY <1>1, AtCommit DEF FifoOf
    <3>5. Fifo[d] \in Seq(Item) /\ Len(Fifo[d]) = m
      BY <3>1, <3>2, <3>4, QueueIs
    <3> QED
      BY <3>3, <3>5, EmptySeq
  <2>4. \A e \in Discriminator : Leases[e].token # call.holder.token
    BY <2>1, AtCommit DEF Lock
  <2>5. Leases' = [Leases EXCEPT ![d] = [token |-> call.holder.token, ttl |-> queues[d].ttl]]
    BY <1>1, <2>1 DEF Lock
  <2>6. Leases[d].ttl = 0
    BY <1>3, <2>1 DEF Lock
  <2>7. Leased!LockNext(d, call.holder.token)
    BY <1>2, <1>3, <2>3, <2>4, <2>5, <2>6 DEF Leased!LockNext
  <2> QED
    BY <1>1, <2>2, <2>7 DEF Leased!Next
<1>5. CASE call.op = "renewLock"
  <2>1. queues[d].token = committed.queues[d].token /\ committed.queues[d].token # None
    BY <1>5 DEF MInv, LocksOK
  <2>2. Leases[d].token = committed.queues[d].token
    BY <1>3 DEF Lock
  <2>3. Leases' = [Leases EXCEPT ![d].ttl = queues[d].ttl]
    <3>1. Lock(queues, d) = [Leases[d] EXCEPT !.ttl = queues[d].ttl]
      BY <1>3, <2>1 DEF Lock
    <3> QED
      BY <1>1, <3>1
  <2>4. Leased!Renew(d)
    BY <1>2, <1>3, <2>1, <2>2, <2>3 DEF Leased!Renew
  <2> QED
    BY <1>1, <2>4 DEF Leased!Next
<1> QED
  BY <1>4, <1>5

LEMMA TakingCommits ==
  ASSUME JInv, KInv, MInv, Commit, UNCHANGED home, call.op \in {"acknowledge", "defer"}
  PROVE  Leased!Next
<1> DEFINE d == call.holder.discriminator
           shorter == Shorter(committed.items, d)
<1>1. d \in Discriminator /\ Leases' = [Leases EXCEPT ![d] = Lock(queues, d)]
  BY OneLease
<1>2. /\ committed.queues[d].token # None /\ Lock(queues, d) = Unlocked
      /\ \E r \in RowsOf(committed.items, d) : r.indexInQueue = 0 /\ r.item = call.item
  BY DEF MInv, LocksOK
<1>3. Leases[d].token # None /\ Leases' = [Leases EXCEPT ![d] = Leased!Free]
  <2>1. Leases[d] = Lock(committed.queues, d)
    BY <1>1, AtCommit
  <2>2. Leases[d].token # None
    BY <1>2, <2>1 DEF Lock
  <2>3. Lock(queues, d) = Leased!Free
    BY <1>2 DEF Unlocked, Leased!Free
  <2> QED
    BY <1>1, <2>2, <2>3
<1>4. PICK n \in Nat : Numbered(RowsOf(committed.items, d), n)
  BY <1>1, AtCommit
<1>5. PICK r \in RowsOf(committed.items, d) : r.indexInQueue = 0 /\ r.item = call.item
  BY <1>2
<1>6. n # 0 /\ committed.items \in SUBSET ItemRow
  BY <1>4, <1>5, AtCommit DEF Numbered
<1>7. /\ FifoOf(shorter) = [FifoOf(committed.items) EXCEPT ![d] = Tail(@)]
      /\ shorter \in SUBSET ItemRow
  BY <1>1, <1>4, <1>6, FifoShorter
<1>8. CASE call.op = "acknowledge"
  <2>1. items = shorter
    BY <1>8 DEF MInv, RowsOK
  <2>2. Fifo' = [Fifo EXCEPT ![d] = Tail(@)]
    BY <1>7, <2>1, AtCommit
  <2>3. Leased!Acknowledge(d)
    BY <1>3, <2>2 DEF Leased!Acknowledge
  <2> QED
    BY <1>1, <2>3 DEF Leased!Next
<1>9. CASE call.op = "defer"
  <2>1. Longer(items, shorter, call.item)
    BY <1>9, AtCommit DEF MInv, RowsOK
  <2>2. home[call.item] = d
    BY <1>5 DEF MInv, HomeOK, RowsOf
  <2>3. FifoOf(items) = [FifoOf(shorter) EXCEPT ![d] = Append(@, call.item)]
    <3> HIDE DEF shorter, d
    <3>1. call.item \in Item /\ home \in [Item -> Discriminator]
      BY AtCommit
    <3>2. FifoOf(items) = [FifoOf(shorter) EXCEPT ![home[call.item]] = Append(@, call.item)]
      BY <1>7, <2>1, <3>1, FifoLonger
    <3> QED
      BY <2>2, <3>2
  <2>4. Head(Fifo[d]) = call.item
    <3>1. RowsOf(committed.items, d) \in SUBSET ItemRow
      BY <1>6 DEF RowsOf
    <3>2. Fifo[d] = QueueOf(RowsOf(committed.items, d))
      BY <1>1, AtCommit DEF FifoOf
    <3>3. /\ Fifo[d] \in Seq(Item) /\ Len(Fifo[d]) = n
          /\ \A q \in RowsOf(committed.items, d) : Fifo[d][q.indexInQueue + 1] = q.item
      BY <1>4, <3>1, <3>2, QueueIs
    <3>4. Fifo[d][1] = call.item
      <4>1. Fifo[d][r.indexInQueue + 1] = r.item /\ r.indexInQueue + 1 = 1
        BY <1>5, <3>3
      <4> QED
        BY <1>5, <4>1
    <3> QED
      BY <1>6, <3>3, <3>4
  <2>5. Fifo' = [Fifo EXCEPT ![d] = Append(Tail(@), Head(@))]
    <3> HIDE DEF shorter, d
    <3>1. Fifo = FifoOf(committed.items) /\ Fifo' = FifoOf(items)
      BY AtCommit
    <3>2. FifoOf(shorter)[d] = Tail(Fifo[d])
      BY <1>1, <1>7, <3>1 DEF FifoOf
    <3>3. FifoOf(items) = [Fifo EXCEPT ![d] = Append(Tail(Fifo[d]), call.item)]
      BY <1>1, <1>7, <2>3, <3>1, <3>2 DEF FifoOf
    <3> QED
      BY <2>4, <3>1, <3>3
  <2>6. Leased!Defer(d)
    BY <1>3, <2>5 DEF Leased!Defer
  <2> QED
    BY <1>1, <2>6 DEF Leased!Next
<1> QED
  BY <1>8, <1>9

LEMMA TickIsLeased ==
  ASSUME JInv, Tick
  PROVE  Leased!Next
<1>1. Rows(committed.queues) /\ committed \in Tables
  BY DEF JInv, IInv, TypeOK, Tables, Rows
<1>2. committed'.queues = Aged(committed.queues) /\ committed'.items = committed.items
  BY <1>1 DEF Tick, Tables
<1>3. Fifo' = Fifo
  <2>1. Fifo' = FifoOf(committed.items)'
    BY FifoIsCommitted
  <2>2. FifoOf(committed.items)' = FifoOf(committed.items)
    BY <1>2 DEF FifoOf, QueueOf, RowsOf, Place
  <2> QED
    BY <2>1, <2>2, FifoIsCommitted
<1>4. \A d \in Discriminator :
        /\ committed'.queues[d].token = committed.queues[d].token
        /\ committed'.queues[d].ttl = IF committed.queues[d].ttl > 0
                                       THEN committed.queues[d].ttl - 1 ELSE 0
  BY <1>1, <1>2, LockAged
<1>5. Leases' = [d \in Discriminator |-> [Leases[d] EXCEPT !.ttl = IF @ > 0 THEN @ - 1 ELSE 0]]
  BY <1>4 DEF Leases
<1>6. Leased!Tick
  BY <1>3, <1>5 DEF Leased!Tick
<1> QED
  BY <1>6 DEF Leased!Next

LEMMA OthersStutter ==
  ASSUME UNCHANGED committed
  PROVE  UNCHANGED <<Fifo, Leases>>
BY DEF Fifo, Leases, CommittedItems, ItemAt

LEMMA StepsAreLeased ==
  NoRemoval => (JInv /\ KInv /\ MInv /\ [Next]_vars => [Leased!Next]_<<Fifo, Leases>>)
<1> SUFFICES ASSUME NoRemoval, JInv, KInv, MInv, [Next]_vars
             PROVE  Leased!Next \/ UNCHANGED <<Fifo, Leases>>
  OBVIOUS
<1>1. CASE Commit /\ UNCHANGED home
  <2>1. call.op \in {"enqueue", "lockNext", "renewLock", "acknowledge", "defer"}
    BY <1>1 DEF Commit, KInv, StoredOK
  <2> QED
    BY <1>1, <2>1, EnqueueCommits, LockingCommits, TakingCommits
<1>2. CASE Tick
  BY <1>2, TickIsLeased
<1>3. CASE ~ (Commit /\ UNCHANGED home) /\ ~ Tick
  <2>1. UNCHANGED committed
    BY <1>3 DEF Next, Step, Enqueue, Remove, LockNext, RenewLock, Acknowledge, Defer, TakeFirst,
       GiveUp, EnqueueInternal, RepairUp, RepairDown, Rollback, vars
  <2> QED
    BY <2>1, OthersStutter
<1> QED
  BY <1>1, <1>2, <1>3

\* Without removals the store is a set of first-in first-out queues, each leased
\* to one client at a time, on which every call happens at once or not at all:
\* the statements of its transaction, the time that passes between them, the
\* repairs of the heap, rollbacks and lost answers do not show.
THEOREM ImplementsLeasedQueuesCorrect == NoRemoval => (Spec => ImplementsLeasedQueues)
<1> SUFFICES ASSUME NoRemoval PROVE Spec => ImplementsLeasedQueues
  OBVIOUS
<1>1. Spec => []JInv
  BY OwnCorrect
<1>2. JInv /\ KInv /\ [Next]_vars => KInv'
  BY KNext
<1>3. JInv /\ JInv' /\ KInv /\ KInv' /\ MInv /\ [Next]_vars => MInv'
  BY MNext
<1>4. JInv /\ KInv /\ MInv /\ [Next]_vars => [Leased!Next]_<<Fifo, Leases>>
  BY StepsAreLeased
<1>5. Init => Leased!Init
  BY InitIsLeased
<1> QED
  BY <1>1, <1>2, <1>3, <1>4, <1>5, KInitInv, MInitInv, PTL
     DEF Spec, ImplementsLeasedQueues, Leased!Spec

===============================================================================
