------------------------- MODULE PriorityQueueProofs ------------------------
(***************************************************************************)
(* Proofs about PriorityQueueStore, for any number of queues, items and    *)
(* tokens: its types, and the numbering of the heap and of the queues.     *)
(***************************************************************************)
EXTENDS PriorityQueueProperties, SequenceTheorems, FiniteSetTheorems, TLAPS

-----------------------------------------------------------------------------
(* The inductive invariant *)

\* The rows of a queue, of any table of items.
RowsOf(its, d) == {r \in its : r.discriminator = d}

\* The queues have the places 0 to n - 1 of the heap, one each.
HeapOf(q, n) ==
  /\ \A d \in Discriminator : q[d].index < n
  /\ \A k \in 0..(n - 1) : \E d \in Discriminator : q[d].index = k
  /\ \A d, e \in Discriminator : q[d].index # -1 /\ q[d].index = q[e].index => d = e

\* Some rows of items are numbered from 0 to n - 1.
Numbered(rows, n) ==
  /\ \A r \in rows : r.indexInQueue < n
  /\ \A k \in 0..(n - 1) : \E r \in rows : r.indexInQueue = k
  /\ \A r, s \in rows : r.indexInQueue = s.indexInQueue => r = s

TablesOK(q, its) ==
  /\ \E n \in Nat : HeapOf(q, n)
  /\ \A d \in Discriminator : \E n \in Nat : Numbered(RowsOf(its, d), n)
  /\ \A d \in Discriminator : q[d].index # -1 => RowsOf(its, d) # {}

IInv ==
  /\ TypeOK
  /\ TablesOK(queues, items)
  /\ TablesOK(committed.queues, committed.items)

-----------------------------------------------------------------------------
(* The heap *)

Rows(q) == q \in [Discriminator -> QueueRow]

LEMMA AbsentIsRow == Absent \in QueueRow
BY LockAssumption DEF Absent, QueueRow

\* Locking, unlocking and the passing of time move no queue.
LEMMA SamePlaces ==
  ASSUME NEW q, NEW p, \A d \in Discriminator : p[d].index = q[d].index,
         NEW its, TablesOK(q, its)
  PROVE  TablesOK(p, its)
BY DEF TablesOK, HeapOf

LEMMA Exchanged ==
  ASSUME NEW q, NEW p, NEW n, HeapOf(q, n),
         NEW d \in Discriminator, NEW e \in Discriminator,
         p[d].index = q[e].index, p[e].index = q[d].index,
         \A c \in Discriminator \ {d, e} : p[c].index = q[c].index
  PROVE  HeapOf(p, n)
BY DEF HeapOf

LEMMA NextPlace ==
  ASSUME Rows(queues), NEW n \in Nat, HeapOf(queues, n)
  PROVE  NextIndexInPriorityQueue = n
<1>1. \A d \in Discriminator : queues[d].index \in Nat \cup {-1}
  BY DEF Rows, QueueRow
<1>2. CASE \A d \in Discriminator : ~ Present(d)
  <2>1. n = 0
    <3> SUFFICES ASSUME n # 0 PROVE FALSE
      OBVIOUS
    <3>1. 0 \in 0..(n - 1)
      OBVIOUS
    <3> QED
      BY <1>2, <3>1 DEF HeapOf, Present
  <2> QED
    BY <1>2, <2>1 DEF NextIndexInPriorityQueue
<1>3. CASE \E d \in Discriminator : Present(d)
  <2> DEFINE IsLast(d) == \A e \in Discriminator : queues[e].index <= queues[d].index
             last == CHOOSE d \in Discriminator : IsLast(d)
  <2>1. n - 1 \in 0..(n - 1)
    BY <1>1, <1>3 DEF HeapOf, Present
  <2>2. PICK d \in Discriminator : queues[d].index = n - 1
    BY <2>1 DEF HeapOf
  <2>3. IsLast(d)
    BY <1>1, <2>2 DEF HeapOf
  <2>4. last \in Discriminator /\ IsLast(last)
    <3> HIDE DEF IsLast
    <3> QED
      BY <2>2, <2>3
  <2>5. queues[last].index = n - 1
    <3> HIDE DEF last
    <3> QED
      BY <1>1, <2>2, <2>4 DEF HeapOf
  <2>6. NextIndexInPriorityQueue = queues[last].index + 1
    BY <1>3 DEF NextIndexInPriorityQueue
  <2> HIDE DEF last
  <2> QED
    BY <2>5, <2>6
<1> QED
  BY <1>2, <1>3

LEMMA CountIs ==
  ASSUME Rows(queues), NEW n \in Nat, HeapOf(queues, n),
         NEW d \in Discriminator, Present(d)
  PROVE  Count(d) = n - 1
<1> DEFINE S == {e \in Discriminator : Present(e)}
           f == [k \in 1..n |-> CHOOSE e \in Discriminator : queues[e].index = k - 1]
<1>1. \A e \in Discriminator : queues[e].index \in Nat \cup {-1}
  BY DEF Rows, QueueRow
<1>2. \A k \in 1..n : f[k] \in Discriminator /\ queues[f[k]].index = k - 1
  <2> SUFFICES ASSUME NEW k \in 1..n PROVE f[k] \in Discriminator /\ queues[f[k]].index = k - 1
    OBVIOUS
  <2>1. \E e \in Discriminator : queues[e].index = k - 1
    BY DEF HeapOf
  <2> QED
    BY <2>1
<1> HIDE DEF f
<1>3. f \in [1..n -> S]
  <2>1. \A k \in 1..n : f[k] \in S
    BY <1>2 DEF Present
  <2> QED
    BY <2>1 DEF f
<1>4. \A j, k \in 1..n : f[j] = f[k] => j = k
  BY <1>2
<1>5. \A e \in S : \E k \in 1..n : f[k] = e
  <2> SUFFICES ASSUME NEW e \in S PROVE f[queues[e].index + 1] = e /\ queues[e].index + 1 \in 1..n
    OBVIOUS
  <2>1. queues[e].index \in Nat /\ queues[e].index < n
    BY <1>1 DEF Present, HeapOf
  <2>2. queues[e].index + 1 \in 1..n
    BY <2>1
  <2> QED
    BY <1>2, <2>1, <2>2 DEF HeapOf
<1>6. ExistsBijection(1..n, S)
  <2> HIDE DEF S
  <2>1. f \in Injection(1..n, S)
    BY <1>3, <1>4 DEF Injection, IsInjective
  <2>2. f \in Surjection(1..n, S)
    BY <1>3, <1>5 DEF Surjection
  <2> QED
    BY <2>1, <2>2 DEF ExistsBijection, Bijection
<1>7. IsFiniteSet(S) /\ Cardinality(S) = n
  BY <1>6, FS_NatBijection, FS_CountingElements
<1>8. Cardinality(S \ {d}) = n - 1
  BY <1>7, FS_RemoveElement
<1>9. S \ {d} = {e \in Discriminator \ {d} : Present(e)}
  OBVIOUS
<1> QED
  BY <1>8, <1>9 DEF Count

\* The last queue moves into the place of the one removed.
LEMMA Removed ==
  ASSUME Rows(queues), NEW n \in Nat, HeapOf(queues, n),
         NEW d \in Discriminator, Present(d), NEW after, RemoveQueue(d, after)
  PROVE  /\ Rows(queues') /\ HeapOf(queues', n - 1) /\ n - 1 \in Nat
         /\ queues'[d] = Absent
         /\ \A e \in Discriminator \ {d} :
              queues'[e] = [queues[e] EXCEPT !.index = queues'[e].index]
              /\ (queues'[e].index # -1 <=> queues[e].index # -1)
<1>1. \A e \in Discriminator : queues[e].index \in Nat \cup {-1} /\ queues[e].index < n
  BY DEF Rows, QueueRow, HeapOf
<1>2. Count(d) = n - 1 /\ queues[d].index \in Nat
  BY <1>1, CountIs DEF Present
<1>3. n - 1 \in Nat
  BY <1>1, <1>2
<1>4. CASE queues[d].index >= Count(d) /\ queues' = [queues EXCEPT ![d] = Absent]
  <2>1. /\ queues'[d] = Absent /\ Absent.index = -1
        /\ \A e \in Discriminator \ {d} : queues'[e] = queues[e]
    BY <1>4 DEF Rows, Absent
  <2>2. Rows(queues')
    BY <1>4, AbsentIsRow DEF Rows
  <2>3. queues[d].index = n - 1
    BY <1>1, <1>2, <1>4
  <2>4. \A e \in Discriminator : queues'[e].index < n - 1
    BY <1>1, <1>3, <2>1, <2>3 DEF HeapOf
  <2>5. \A k \in 0..((n - 1) - 1) : \E e \in Discriminator : queues'[e].index = k
    BY <1>1, <2>1, <2>3 DEF HeapOf
  <2>6. \A c, e \in Discriminator : queues'[c].index # -1 /\ queues'[c].index = queues'[e].index
          => c = e
    BY <2>1 DEF HeapOf
  <2>7. \A e \in Discriminator \ {d} : queues'[e] = [queues[e] EXCEPT !.index = queues'[e].index]
    BY <2>1 DEF Rows, QueueRow
  <2> QED
    BY <1>3, <2>1, <2>2, <2>4, <2>5, <2>6, <2>7 DEF HeapOf
<1>5. ASSUME NEW m \in Discriminator \ {d}, queues[d].index < Count(d), queues[m].index = Count(d),
             queues' = [queues EXCEPT ![d] = Absent, ![m].index = queues[d].index]
      PROVE  /\ Rows(queues') /\ HeapOf(queues', n - 1)
             /\ queues'[d] = Absent
             /\ \A e \in Discriminator \ {d} :
                  queues'[e] = [queues[e] EXCEPT !.index = queues'[e].index]
                  /\ (queues'[e].index # -1 <=> queues[e].index # -1)
  <2>1. /\ queues'[d] = Absent /\ Absent.index = -1
        /\ queues'[m] = [queues[m] EXCEPT !.index = queues[d].index]
        /\ \A e \in Discriminator \ {d, m} : queues'[e] = queues[e]
    BY <1>5 DEF Rows, Absent
  <2>2. queues[m] \in QueueRow /\ queues'[m].index = queues[d].index /\ queues'[m] \in QueueRow
    BY <1>2, <2>1 DEF Rows, QueueRow
  <2>3. Rows(queues')
    BY <1>5, <2>1, <2>2, AbsentIsRow DEF Rows
  <2>4. queues[m].index = n - 1
    BY <1>2, <1>5
  <2>5. \A e \in Discriminator : queues'[e].index < n - 1
    <3>1. queues'[d].index < n - 1 /\ queues'[m].index < n - 1
      BY <1>2, <1>3, <1>5, <2>1, <2>2
    <3>2. \A e \in Discriminator \ {d, m} : queues[e].index # n - 1
      BY <1>3, <2>4 DEF HeapOf
    <3>3. \A e \in Discriminator \ {d, m} : queues[e].index < n - 1
      BY <1>1, <1>3, <3>2
    <3> QED
      BY <2>1, <3>1, <3>3
  <2>6. \A k \in 0..((n - 1) - 1) : \E e \in Discriminator : queues'[e].index = k
    <3> SUFFICES ASSUME NEW k \in 0..((n - 1) - 1)
                 PROVE  \E e \in Discriminator : queues'[e].index = k
      OBVIOUS
    <3>1. PICK e \in Discriminator : queues[e].index = k
      BY DEF HeapOf
    <3>2. e # m
      BY <2>4, <3>1
    <3> QED
      BY <2>1, <2>2, <3>1, <3>2
  <2>7. \A c, e \in Discriminator : queues'[c].index # -1 /\ queues'[c].index = queues'[e].index
          => c = e
    <3>1. \A e \in Discriminator \ {d, m} : queues'[e].index # queues'[m].index
      BY <1>2, <2>1, <2>2 DEF HeapOf
    <3>2. \A c, e \in Discriminator \ {d, m} :
            queues'[c].index # -1 /\ queues'[c].index = queues'[e].index => c = e
      BY <2>1 DEF HeapOf
    <3>3. queues'[d].index = -1
      BY <2>1
    <3> QED
      BY <3>1, <3>2, <3>3
  <2>8. \A e \in Discriminator \ {d} : queues'[e] = [queues[e] EXCEPT !.index = queues'[e].index]
    BY <2>1, <2>2 DEF Rows, QueueRow
  <2>9. \A e \in Discriminator \ {d} : queues'[e].index # -1 <=> queues[e].index # -1
    <3>1. queues'[m].index # -1 /\ queues[m].index # -1
      BY <1>2, <1>3, <2>2, <2>4
    <3> QED
      BY <2>1, <3>1
  <2> QED
    BY <2>1, <2>3, <2>5, <2>6, <2>7, <2>8, <2>9 DEF HeapOf
<1> QED
  BY <1>3, <1>4, <1>5 DEF RemoveQueue

-----------------------------------------------------------------------------
(* The queues *)

\* The number of the next item of a queue.
LEMMA NextNumber ==
  ASSUME items \subseteq ItemRow, NEW d \in Discriminator, NEW n \in Nat,
         Numbered(RowsOf(items, d), n)
  PROVE  NextIndexInQueue(d) = n
<1>1. ItemsOf(d) = RowsOf(items, d) /\ \A r \in ItemsOf(d) : r.indexInQueue \in Nat
  BY DEF ItemsOf, RowsOf, ItemRow
<1>2. CASE ItemsOf(d) = {}
  <2>1. n = 0
    <3> SUFFICES ASSUME n # 0 PROVE FALSE
      OBVIOUS
    <3>1. 0 \in 0..(n - 1)
      OBVIOUS
    <3> QED
      BY <1>1, <1>2, <3>1 DEF Numbered
  <2> QED
    BY <1>2, <2>1 DEF NextIndexInQueue
<1>3. CASE ItemsOf(d) # {}
  <2> DEFINE IsLast(r) == \A s \in ItemsOf(d) : s.indexInQueue <= r.indexInQueue
             last == CHOOSE r \in ItemsOf(d) : IsLast(r)
  <2>1. n - 1 \in 0..(n - 1)
    BY <1>1, <1>3 DEF Numbered
  <2>2. PICK r \in ItemsOf(d) : r.indexInQueue = n - 1
    BY <1>1, <2>1 DEF Numbered
  <2>3. IsLast(r)
    BY <1>1, <2>2 DEF Numbered
  <2>4. last \in ItemsOf(d) /\ IsLast(last)
    <3> HIDE DEF IsLast
    <3> QED
      BY <2>2, <2>3
  <2>5. last.indexInQueue = n - 1
    <3> HIDE DEF last
    <3> QED
      BY <1>1, <2>2, <2>4 DEF Numbered
  <2>6. NextIndexInQueue(d) = last.indexInQueue + 1
    BY <1>3 DEF NextIndexInQueue
  <2> HIDE DEF last
  <2> QED
    BY <2>5, <2>6
<1> QED
  BY <1>2, <1>3

\* An item is put in behind the others.
LEMMA ItemAdded ==
  ASSUME NEW rows \in SUBSET ItemRow, NEW n \in Nat, Numbered(rows, n),
         NEW r, r.indexInQueue = n
  PROVE  Numbered(rows \cup {r}, n + 1)
<1>1. \A s \in rows \cup {r} : s.indexInQueue < n + 1
  BY DEF Numbered, ItemRow
<1>2. \A k \in 0..((n + 1) - 1) : \E s \in rows \cup {r} : s.indexInQueue = k
  BY DEF Numbered
<1> QED
  BY <1>1, <1>2 DEF Numbered

\* An item is taken out, wherever it is, and those behind it move up.
Without(rows, k) ==
  {[r EXCEPT !.indexInQueue = IF @ > k THEN @ - 1 ELSE @] :
     r \in {s \in rows : s.indexInQueue # k}}

LEMMA ItemTaken ==
  ASSUME NEW rows \in SUBSET ItemRow, NEW n \in Nat, Numbered(rows, n),
         NEW k \in 0..(n - 1)
  PROVE  Numbered(Without(rows, k), n - 1)
<1> DEFINE moved(r) == [r EXCEPT !.indexInQueue = IF @ > k THEN @ - 1 ELSE @]
           left == {s \in rows : s.indexInQueue # k}
<1>1. \A r \in left : /\ moved(r).indexInQueue = IF r.indexInQueue > k THEN r.indexInQueue - 1
                                                ELSE r.indexInQueue
                      /\ r.indexInQueue \in 0..(n - 1) /\ r.indexInQueue # k
  BY DEF ItemRow, Numbered
<1>2. \A r \in left : moved(r).indexInQueue < n - 1
  BY <1>1
<1>3. \A j \in 0..((n - 1) - 1) : \E r \in left : moved(r).indexInQueue = j
  <2> SUFFICES ASSUME NEW j \in 0..((n - 1) - 1) PROVE \E r \in left : moved(r).indexInQueue = j
    OBVIOUS
  <2>1. CASE j < k
    <3>1. PICK r \in rows : r.indexInQueue = j
      BY DEF Numbered
    <3> QED
      BY <1>1, <2>1, <3>1
  <2>2. CASE j >= k
    <3>1. PICK r \in rows : r.indexInQueue = j + 1
      BY DEF Numbered
    <3> QED
      BY <1>1, <2>2, <3>1
  <2> QED
    BY <2>1, <2>2
<1>4. \A r, s \in left : moved(r).indexInQueue = moved(s).indexInQueue => r = s
  BY <1>1 DEF Numbered
<1>5. Without(rows, k) = {moved(r) : r \in left}
  BY DEF Without
<1> HIDE DEF moved, left
<1> QED
  BY <1>2, <1>3, <1>4, <1>5 DEF Numbered

LEMMA WithoutItemIs ==
  ASSUME items \subseteq ItemRow, NEW d \in Discriminator, NEW k \in Nat
  PROVE  /\ WithoutItem(d, k) \subseteq ItemRow
         /\ RowsOf(WithoutItem(d, k), d) = Without(RowsOf(items, d), k)
         /\ \A e \in Discriminator \ {d} : RowsOf(WithoutItem(d, k), e) = RowsOf(items, e)
<1>1. \A r \in ItemsOf(d) :
        /\ [r EXCEPT !.indexInQueue = IF @ > k THEN @ - 1 ELSE @] \in ItemRow
        /\ [r EXCEPT !.indexInQueue = IF @ > k THEN @ - 1 ELSE @].discriminator = d
  BY DEF ItemsOf, ItemRow
<1>2. /\ ItemsOf(d) = RowsOf(items, d)
      /\ WithoutItem(d, k) = (items \ RowsOf(items, d)) \cup Without(RowsOf(items, d), k)
      /\ \A r \in Without(RowsOf(items, d), k) : r \in ItemRow /\ r.discriminator = d
  BY <1>1 DEF WithoutItem, Without, ItemsOf, RowsOf
<1> QED
  BY <1>2 DEF RowsOf

-----------------------------------------------------------------------------
(* Types *)

LEMMA TaskTypes ==
  /\ \A d \in Discriminator : Up(d) \in Task /\ Down(d) \in Task
  /\ \A i \in Item, p \in Priority : Enqueueing(i, p) \in Task
  /\ \A t \in Task : t.do = "enqueue" => t.item \in Item /\ t.priority \in Priority
  /\ \A t \in Task : t.do \in {"repairUp", "repairDown"} => t.discriminator \in Discriminator
BY DEF Up, Down, Enqueueing, Task

LEMMA TodoTypes ==
  /\ << >> \in Seq(Task)
  /\ \A t \in Task : <<t>> \in Seq(Task)
  /\ \A t, u \in Task : <<t, u>> \in Seq(Task)
  /\ \A s \in Seq(Task) : s # << >> => Head(s) \in Task /\ Tail(s) \in Seq(Task)
  /\ \A s \in Seq(Task) : \A t \in Task : <<t>> \o s \in Seq(Task)
<1> HIDE DEF Task
<1>1. \A s \in Seq(Task) : s # << >> => Head(s) \in Task /\ Tail(s) \in Seq(Task)
  BY HeadTailProperties
<1>2. \A t \in Task : <<t>> \in Seq(Task)
  OBVIOUS
<1>3. \A s \in Seq(Task) : \A t \in Task : <<t>> \o s \in Seq(Task)
  BY <1>2, ConcatProperties
<1> QED
  BY <1>1, <1>2, <1>3

LEMMA CallTypes ==
  /\ \A op \in {"enqueue", "remove"}, i \in Item : [op |-> op, item |-> i] \in Call
  /\ \A op \in {"lockNext", "renewLock", "acknowledge", "defer"}, h \in Holder, i \in Item :
       [op |-> op, holder |-> h, item |-> i] \in Call
  /\ \A op \in {"lockNext", "renewLock", "acknowledge", "defer"}, h \in Holder, i \in Item :
       [op |-> op, item |-> i, holder |-> h] \in Call
BY DEF Call

\* What a call is for, by its operation.
LEMMA CallsAre ==
  ASSUME call \in Call \cup {NoCall}
  PROVE  /\ ~ Idle => call.item \in Item
         /\ call.op \in {"lockNext", "renewLock", "acknowledge", "defer"} => call.holder \in Holder
         /\ Idle <=> call.op = "none"
BY DEF Call, NoCall, Idle

LEMMA PlaceTypes ==
  ASSUME NEW q, Rows(q), NEW d \in Discriminator, NEW e \in Discriminator
  PROVE  /\ q[d] \in QueueRow
         /\ \A t \in Token \cup {None}, n \in 0..ExpirationTime :
              /\ Rows([q EXCEPT ![d].token = t, ![d].ttl = n])
              /\ Rows([q EXCEPT ![d].ttl = n])
         /\ Rows([q EXCEPT ![d].index = q[e].index, ![e].index = q[d].index])
<1>1. q[d] \in QueueRow /\ q[e] \in QueueRow
  BY DEF Rows
<1>2. ASSUME NEW t \in Token \cup {None}, NEW n \in 0..ExpirationTime
      PROVE  /\ [q[d] EXCEPT !.token = t, !.ttl = n] \in QueueRow
             /\ [q[d] EXCEPT !.ttl = n] \in QueueRow
  BY <1>1 DEF QueueRow
<1>3. /\ [q[d] EXCEPT !.index = q[e].index] \in QueueRow
      /\ [q[e] EXCEPT !.index = q[d].index] \in QueueRow
  BY <1>1 DEF QueueRow
<1>4. Rows([q EXCEPT ![d].index = q[e].index, ![e].index = q[d].index])
  <2>1. CASE d = e
    BY <1>1, <2>1 DEF Rows, QueueRow
  <2>2. CASE d # e
    BY <1>3, <2>2 DEF Rows
  <2> QED
    BY <2>1, <2>2
<1> QED
  BY <1>1, <1>2, <1>4 DEF Rows

\* One row is locked or unlocked, or its lock renewed.
Relocking ==
  \E d \in Discriminator, t \in Token \cup {None}, n \in 0..ExpirationTime :
    \/ queues' = [queues EXCEPT ![d].token = t, ![d].ttl = n]
    \/ queues' = [queues EXCEPT ![d].ttl = n]

LEMMA Relocked ==
  ASSUME Rows(queues), Relocking
  PROVE  Rows(queues') /\ \A e \in Discriminator : queues'[e].index = queues[e].index
<1>1. PICK d \in Discriminator, t \in Token \cup {None}, n \in 0..ExpirationTime :
        \/ queues' = [queues EXCEPT ![d].token = t, ![d].ttl = n]
        \/ queues' = [queues EXCEPT ![d].ttl = n]
  BY DEF Relocking
<1>2. queues[d] \in QueueRow
  BY DEF Rows
<1>3. PICK row \in QueueRow : row.index = queues[d].index /\ queues' = [queues EXCEPT ![d] = row]
  <2>1. CASE queues' = [queues EXCEPT ![d].token = t, ![d].ttl = n]
    <3>1. queues' = [queues EXCEPT ![d] = [queues[d] EXCEPT !.token = t, !.ttl = n]]
      BY <2>1 DEF Rows, QueueRow
    <3>2. [queues[d] EXCEPT !.token = t, !.ttl = n] \in QueueRow /\ [queues[d] EXCEPT !.token = t, !.ttl = n].index = queues[d].index
      BY <1>2 DEF QueueRow
    <3> QED
      BY <3>1, <3>2
  <2>2. CASE queues' = [queues EXCEPT ![d].ttl = n]
    <3>2. [queues[d] EXCEPT !.ttl = n] \in QueueRow /\ [queues[d] EXCEPT !.ttl = n].index = queues[d].index
      BY <1>2 DEF QueueRow
    <3> QED
      BY <2>2, <3>2
  <2> QED
    BY <1>1, <2>1, <2>2
<1>4. queues'[d] = row /\ \A e \in Discriminator \ {d} : queues'[e] = queues[e]
  BY <1>3 DEF Rows
<1>5. Rows(queues')
  BY <1>3 DEF Rows
<1> QED
  BY <1>3, <1>4, <1>5

-----------------------------------------------------------------------------
(* Calls *)

LEMMA InitInv == Init => IInv
<1> SUFFICES ASSUME Init PROVE IInv
  OBVIOUS
<1>1. Rows(queues) /\ \A d \in Discriminator : queues[d].index = -1
  BY AbsentIsRow DEF Init, Rows, Absent
<1>2. TypeOK
  BY <1>1, TodoTypes, ItemsAssumption DEF Init, TypeOK, Tables, Rows
<1>3. HeapOf(queues, 0)
  BY <1>1 DEF HeapOf
<1>4. \A d \in Discriminator : Numbered(RowsOf(items, d), 0)
  BY DEF Init, RowsOf, Numbered
<1>5. TablesOK(queues, items)
  BY <1>1, <1>3, <1>4 DEF TablesOK
<1> QED
  BY <1>2, <1>5 DEF Init, IInv

LEMMA EnqueueInv ==
  ASSUME IInv, NEW i \in Item, Enqueue(i), UNCHANGED home
  PROVE  IInv'
<1>1. call' \in Call /\ todo' \in Seq(Task)
  BY CallTypes, TaskTypes, TodoTypes, ItemsAssumption DEF Enqueue
<1> QED
  BY <1>1 DEF Enqueue, IInv, TypeOK, tables

LEMMA LockNextInv ==
  ASSUME IInv, LockNext, UNCHANGED home
  PROVE  IInv'
<1>1. PICK d \in Discriminator, t \in FreshTokens, r \in items :
        /\ queues' = [queues EXCEPT ![d].token = t, ![d].ttl = ExpirationTime]
        /\ call' = [op |-> "lockNext", item |-> r.item,
                    holder |-> [discriminator |-> d, token |-> t, item |-> r.item]]
        /\ todo' = <<Down(d)>>
  BY DEF LockNext
<1>2. UNCHANGED <<items, committed, status, holders>>
  BY DEF LockNext
<1>3. t \in Token /\ r.item \in Item /\ ExpirationTime \in 0..ExpirationTime
  BY LockAssumption DEF FreshTokens, IInv, TypeOK, ItemRow
<1>4. call' \in Call
  BY <1>1, <1>3, CallTypes DEF Holder
<1>5. todo' \in Seq(Task)
  BY <1>1, TaskTypes, TodoTypes
<1>6. Rows(queues') /\ \A e \in Discriminator : queues'[e].index = queues[e].index
  <2>1. Rows(queues)
    BY DEF IInv, TypeOK, Rows
  <2> QED
    <3>1. Relocking
      BY <1>1, <1>3, Zenon DEF Relocking
    <3> QED
      BY <2>1, <3>1, Relocked
<1>7. TablesOK(queues', items')
  BY <1>2, <1>6, SamePlaces DEF IInv
<1> QED
  BY <1>2, <1>4, <1>5, <1>6, <1>7 DEF IInv, TypeOK, Rows

LEMMA RenewLockInv ==
  ASSUME IInv, NEW h \in holders, RenewLock(h), UNCHANGED home
  PROVE  IInv'
<1>1. h \in Holder /\ h.discriminator \in Discriminator /\ h.item \in Item
  BY DEF IInv, TypeOK, Holder
<1>2. /\ queues' = [queues EXCEPT ![h.discriminator].ttl = ExpirationTime]
      /\ UNCHANGED <<items, committed, status, holders>>
  BY DEF RenewLock
<1>3. call' \in Call /\ todo' \in Seq(Task)
  BY <1>1, CallTypes, TaskTypes, TodoTypes DEF RenewLock
<1>4. ExpirationTime \in 0..ExpirationTime
  BY LockAssumption
<1>5. Rows(queues') /\ \A e \in Discriminator : queues'[e].index = queues[e].index
  <2>1. Rows(queues)
    BY DEF IInv, TypeOK, Rows
  <2> QED
    <3>1. None \in Token \cup {None}
      OBVIOUS
    <3>2. Relocking
      BY <1>1, <1>2, <1>4, <3>1, Zenon DEF Relocking
    <3> QED
      BY <2>1, <3>2, Relocked
<1>6. TablesOK(queues', items')
  BY <1>2, <1>5, SamePlaces DEF IInv
<1> QED
  BY <1>2, <1>3, <1>5, <1>6 DEF IInv, TypeOK, Rows

\* A present queue has a first item, and the rows behind it.
LEMMA FirstIs ==
  ASSUME IInv, NEW d \in Discriminator, Present(d)
  PROVE  \E n \in Nat : n # 0 /\ Numbered(RowsOf(items, d), n) /\ 0 \in 0..(n - 1)
<1>1. PICK n \in Nat : Numbered(RowsOf(items, d), n)
  BY DEF IInv, TablesOK
<1>2. PICK r \in RowsOf(items, d) : r.indexInQueue \in Nat
  BY DEF IInv, TablesOK, TypeOK, Present, RowsOf, ItemRow
<1>3. n # 0
  BY <1>1, <1>2 DEF Numbered
<1> QED
  BY <1>1, <1>3

\* A queue goes, whatever becomes of its items.
LEMMA QueueRemoved ==
  ASSUME IInv, NEW d \in Discriminator, Present(d),
         NEW after \in Seq(Task), RemoveQueue(d, after),
         \A e \in Discriminator : \E k \in Nat : Numbered(RowsOf(items', e), k),
         \A e \in Discriminator \ {d} : RowsOf(items', e) = RowsOf(items, e)
  PROVE  Rows(queues') /\ TablesOK(queues', items') /\ todo' \in Seq(Task)
<1>1. PICK m \in Nat : HeapOf(queues, m)
  BY DEF IInv, TablesOK
<1>2. Rows(queues) /\ Absent.index = -1
  BY DEF IInv, TypeOK, Rows, Absent
<1>3. /\ Rows(queues') /\ HeapOf(queues', m - 1) /\ m - 1 \in Nat /\ queues'[d] = Absent
      /\ \A e \in Discriminator \ {d} : queues'[e].index # -1 <=> queues[e].index # -1
  BY <1>1, <1>2, Removed
<1>4. \A e \in Discriminator : queues'[e].index # -1 => RowsOf(items', e) # {}
  BY <1>2, <1>3 DEF IInv, TablesOK
<1>5. todo' \in Seq(Task)
  BY TaskTypes, TodoTypes DEF RemoveQueue
<1> QED
  BY <1>3, <1>4, <1>5 DEF TablesOK

LEMMA TakeFirstInv ==
  ASSUME IInv, NEW h \in holders, NEW op \in {"acknowledge", "defer"},
         NEW after \in Seq(Task), TakeFirst(h, op, after), UNCHANGED home
  PROVE  IInv'
<1> DEFINE d == h.discriminator
<1>1. h \in Holder /\ d \in Discriminator
  BY DEF IInv, TypeOK, Holder
<1>2. /\ Present(d) /\ items' = WithoutItem(d, 0)
      /\ \E r \in FirstItem(d) : call' = [op |-> op, holder |-> h, item |-> r.item]
      /\ UNCHANGED <<committed, status, holders>>
  BY DEF TakeFirst, HoldsLock
<1>3. \/ /\ \E r \in items' : r.discriminator = d
         /\ queues' = [queues EXCEPT ![d].token = None, ![d].ttl = 0]
         /\ todo' = <<Down(d)>> \o after
      \/ /\ \A r \in items' : r.discriminator # d
         /\ RemoveQueue(d, after)
  BY DEF TakeFirst
<1>4. call' \in Call
  <2>1. \A r \in FirstItem(d) : r.item \in Item
    BY DEF FirstItem, ItemsOf, IInv, TypeOK, ItemRow
  <2> QED
    BY <1>1, <1>2, <2>1, CallTypes
<1> HIDE DEF d
<1>5. PICK n \in Nat : n # 0 /\ Numbered(RowsOf(items, d), n) /\ 0 \in 0..(n - 1)
  BY <1>1, <1>2, FirstIs
<1>6. items \subseteq ItemRow /\ Rows(queues)
  BY DEF IInv, TypeOK, Rows
<1>7. /\ items' \subseteq ItemRow
      /\ Numbered(RowsOf(items', d), n - 1) /\ n - 1 \in Nat
      /\ \A e \in Discriminator \ {d} : RowsOf(items', e) = RowsOf(items, e)
  <2>1. RowsOf(items, d) \subseteq ItemRow
    BY <1>6 DEF RowsOf
  <2> QED
    BY <1>1, <1>2, <1>5, <1>6, <2>1, WithoutItemIs, ItemTaken
<1>8. \A e \in Discriminator : \E k \in Nat : Numbered(RowsOf(items', e), k)
  BY <1>7 DEF IInv, TablesOK
<1>9. CASE /\ \E r \in items' : r.discriminator = d
           /\ queues' = [queues EXCEPT ![d].token = None, ![d].ttl = 0]
           /\ todo' = <<Down(d)>> \o after
  <2>1. todo' \in Seq(Task)
    BY <1>1, <1>9, TaskTypes, TodoTypes
  <2>2. Rows(queues') /\ \A e \in Discriminator : queues'[e].index = queues[e].index
    <3>1. 0 \in 0..ExpirationTime /\ None \in Token \cup {None}
      BY LockAssumption
    <3>2. Relocking
      BY <1>1, <1>9, <3>1, Zenon DEF Relocking
    <3> QED
      BY <1>6, <3>2, Relocked
  <2>3. \A e \in Discriminator : queues'[e].index = queues[e].index
    BY <2>2
  <2>4. \A e \in Discriminator : queues'[e].index # -1 => RowsOf(items', e) # {}
    BY <1>7, <1>9, <2>3 DEF IInv, TablesOK, RowsOf
  <2>5. TablesOK(queues', items')
    <3>1. PICK k \in Nat : HeapOf(queues, k)
      BY DEF IInv, TablesOK
    <3>2. HeapOf(queues', k)
      BY <2>3, <3>1 DEF HeapOf
    <3> QED
      BY <1>8, <2>4, <3>2 DEF TablesOK
  <2> QED
    BY <1>2, <1>4, <1>7, <2>1, <2>2, <2>5 DEF IInv, TypeOK, Rows
<1>10. CASE (\A r \in items' : r.discriminator # d) /\ RemoveQueue(d, after)
  <2>1. Rows(queues') /\ TablesOK(queues', items') /\ todo' \in Seq(Task)
    BY <1>1, <1>2, <1>7, <1>8, <1>10, QueueRemoved
  <2> QED
    BY <1>2, <1>4, <1>7, <2>1 DEF IInv, TypeOK, Rows
<1> QED
  BY <1>3, <1>9, <1>10 DEF d

LEMMA RemoveInv ==
  ASSUME IInv, NEW i \in Item, Remove(i), UNCHANGED home
  PROVE  IInv'
<1>1. PICK r \in items :
        LET d == r.discriminator
        IN  /\ r.item = i /\ Present(d)
            /\ \/ /\ r.indexInQueue = 0 /\ ~ Locked(d) /\ ItemsOf(d) = {r}
                  /\ RemoveQueue(d, << >>)
                  /\ UNCHANGED items
               \/ /\ r.indexInQueue = 0 /\ ~ Locked(d) /\ ItemsOf(d) # {r}
                  /\ items' = WithoutItem(d, 0)
                  /\ todo' = <<Down(d), Up(d)>>
                  /\ UNCHANGED queues
               \/ /\ r.indexInQueue # 0
                  /\ items' = WithoutItem(d, r.indexInQueue)
                  /\ todo' = << >>
                  /\ UNCHANGED queues
  BY DEF Remove
<1> DEFINE d == r.discriminator
<1>2. UNCHANGED <<committed, status, holders>> /\ call' \in Call
  BY CallTypes DEF Remove
<1>3. d \in Discriminator /\ r \in RowsOf(items, d) /\ r.indexInQueue \in Nat
  BY DEF IInv, TypeOK, ItemRow, RowsOf
<1>4. Present(d)
  BY <1>1
<1>5. PICK n \in Nat : n # 0 /\ Numbered(RowsOf(items, d), n) /\ 0 \in 0..(n - 1)
  BY <1>3, <1>4, FirstIs
<1>6. items \subseteq ItemRow /\ Rows(queues)
  BY DEF IInv, TypeOK, Rows
<1>7. RowsOf(items, d) \subseteq ItemRow
  BY <1>6 DEF RowsOf
<1>8. r.indexInQueue \in 0..(n - 1)
  BY <1>3, <1>5 DEF Numbered
<1>9. CASE RemoveQueue(d, << >>) /\ UNCHANGED items
  <2>1. /\ \A e \in Discriminator : \E k \in Nat : Numbered(RowsOf(items', e), k)
        /\ \A e \in Discriminator \ {d} : RowsOf(items', e) = RowsOf(items, e)
    BY <1>9 DEF IInv, TablesOK
  <2>2. << >> \in Seq(Task)
    BY TodoTypes
  <2>3. Rows(queues') /\ TablesOK(queues', items') /\ todo' \in Seq(Task)
    BY <1>3, <1>4, <1>9, <2>1, <2>2, QueueRemoved
  <2> QED
    BY <1>2, <1>9, <2>3 DEF IInv, TypeOK, Rows
<1>10. ASSUME NEW k \in 0..(n - 1), items' = WithoutItem(d, k), RowsOf(items', d) # {},
              UNCHANGED queues, todo' \in Seq(Task)
       PROVE  IInv'
  <2>1. /\ items' \subseteq ItemRow
        /\ Numbered(RowsOf(items', d), n - 1) /\ n - 1 \in Nat
        /\ \A e \in Discriminator \ {d} : RowsOf(items', e) = RowsOf(items, e)
    BY <1>3, <1>5, <1>6, <1>7, <1>10, WithoutItemIs, ItemTaken
  <2>2. \A e \in Discriminator : \E j \in Nat : Numbered(RowsOf(items', e), j)
    BY <2>1 DEF IInv, TablesOK
  <2>3. TablesOK(queues', items')
    BY <1>10, <2>1, <2>2 DEF IInv, TablesOK
  <2> QED
    BY <1>2, <1>10, <2>1, <2>3 DEF IInv, TypeOK
<1>11. ASSUME NEW k \in 0..(n - 1), NEW s \in RowsOf(items, d), s.indexInQueue # k,
              items' = WithoutItem(d, k)
       PROVE  RowsOf(items', d) # {}
  <2>1. RowsOf(items', d) = Without(RowsOf(items, d), k)
    BY <1>3, <1>6, <1>11, WithoutItemIs
  <2> QED
    BY <1>11, <2>1 DEF Without
<1>12. CASE /\ r.indexInQueue = 0 /\ ItemsOf(d) # {r}
            /\ items' = WithoutItem(d, 0)
            /\ todo' = <<Down(d), Up(d)>>
            /\ UNCHANGED queues
  <2>1. PICK s \in RowsOf(items, d) : s # r
    BY <1>3, <1>12 DEF ItemsOf, RowsOf
  <2>2. s.indexInQueue # 0
    BY <1>3, <1>5, <1>12, <2>1 DEF Numbered
  <2>3. todo' \in Seq(Task)
    BY <1>3, <1>12, TaskTypes, TodoTypes
  <2> QED
    BY <1>5, <1>10, <1>11, <1>12, <2>2, <2>3
<1>13. CASE /\ r.indexInQueue # 0
            /\ items' = WithoutItem(d, r.indexInQueue)
            /\ todo' = << >>
            /\ UNCHANGED queues
  <2>1. PICK s \in RowsOf(items, d) : s.indexInQueue = 0
    BY <1>5 DEF Numbered
  <2>2. todo' \in Seq(Task)
    BY <1>13, TodoTypes
  <2>3. RowsOf(items', d) # {}
    BY <1>8, <1>11, <1>13, <2>1
  <2> QED
    BY <1>8, <1>10, <1>13, <2>2, <2>3
<1> QED
  BY <1>1, <1>9, <1>12, <1>13

-----------------------------------------------------------------------------
(* What a call does next *)

LEMMA EnqueueInternalInv ==
  ASSUME IInv, EnqueueInternal, UNCHANGED home
  PROVE  IInv'
<1> DEFINE i == Head(todo).item
           d == home[i]
           new == [discriminator |-> d, indexInQueue |-> NextIndexInQueue(d),
                   priority |-> Head(todo).priority, item |-> i]
<1>1. /\ todo # << >> /\ Head(todo) \in Task /\ Tail(todo) \in Seq(Task)
      /\ Head(todo).do = "enqueue" /\ todo \in Seq(Task)
  BY TodoTypes DEF EnqueueInternal, IInv, TypeOK
<1>2. i \in Item /\ Head(todo).priority \in Priority
  BY <1>1, TaskTypes
<1>3. d \in Discriminator
  BY <1>2 DEF IInv, TypeOK
<1>4. /\ items' = items \cup {new}
      /\ UNCHANGED <<committed, call, status, holders>>
      /\ \/ /\ Present(d)
            /\ todo' = Tail(todo)
            /\ UNCHANGED queues
         \/ /\ ~ Present(d)
            /\ queues' = [queues EXCEPT ![d] = [Absent EXCEPT !.index = NextIndexInPriorityQueue]]
            /\ todo' = <<Up(d)>> \o Tail(todo)
  BY DEF EnqueueInternal
<1>5. items \subseteq ItemRow /\ Rows(queues)
  BY DEF IInv, TypeOK, Rows
<1>6. PICK n \in Nat : Numbered(RowsOf(items, d), n)
  BY <1>3 DEF IInv, TablesOK
<1>7. NextIndexInQueue(d) = n
  BY <1>3, <1>5, <1>6, NextNumber
<1>8. new \in ItemRow /\ new.indexInQueue = n /\ new.discriminator = d
  BY <1>2, <1>3, <1>7 DEF ItemRow
<1> HIDE DEF new, d, i
<1>9. /\ RowsOf(items', d) = RowsOf(items, d) \cup {new}
      /\ \A e \in Discriminator \ {d} : RowsOf(items', e) = RowsOf(items, e)
  BY <1>4, <1>8 DEF RowsOf
<1>10. Numbered(RowsOf(items', d), n + 1)
  <2>1. RowsOf(items, d) \in SUBSET ItemRow
    BY <1>5 DEF RowsOf
  <2> QED
    BY <1>6, <1>8, <1>9, <2>1, ItemAdded
<1>11. \A e \in Discriminator : \E k \in Nat : Numbered(RowsOf(items', e), k)
  <2>1. n + 1 \in Nat
    OBVIOUS
  <2> QED
    BY <1>9, <1>10, <2>1 DEF IInv, TablesOK
<1>12. items' \subseteq ItemRow
  BY <1>4, <1>5, <1>8
<1>13. \A e \in Discriminator : (e = d \/ queues[e].index # -1) => RowsOf(items', e) # {}
  BY <1>9 DEF IInv, TablesOK
<1>14. CASE todo' = Tail(todo) /\ UNCHANGED queues
  <2>1. TablesOK(queues', items')
    BY <1>11, <1>13, <1>14 DEF IInv, TablesOK
  <2> QED
    BY <1>1, <1>4, <1>12, <1>14, <2>1 DEF IInv, TypeOK
<1>15. CASE /\ ~ Present(d)
            /\ queues' = [queues EXCEPT ![d] = [Absent EXCEPT !.index = NextIndexInPriorityQueue]]
            /\ todo' = <<Up(d)>> \o Tail(todo)
  <2>1. PICK m \in Nat : HeapOf(queues, m)
    BY DEF IInv, TablesOK
  <2>2. NextIndexInPriorityQueue = m
    BY <1>5, <2>1, NextPlace
  <2> DEFINE row == [Absent EXCEPT !.index = NextIndexInPriorityQueue]
  <2>3. row \in QueueRow /\ row.index = m
    BY <2>2, LockAssumption DEF Absent, QueueRow
  <2>4. queues' = [queues EXCEPT ![d] = row]
    BY <1>15
  <2> HIDE DEF row
  <2>5. queues'[d].index = m /\ \A e \in Discriminator \ {d} : queues'[e] = queues[e]
    BY <1>3, <1>5, <2>3, <2>4 DEF Rows
  <2>6. Rows(queues')
    BY <1>3, <1>5, <2>3, <2>4 DEF Rows
  <2>7. HeapOf(queues', m + 1) /\ m + 1 \in Nat
    <3>1. \A e \in Discriminator : queues[e].index \in Nat \cup {-1} /\ queues[e].index < m
      BY <1>5, <2>1 DEF Rows, QueueRow, HeapOf
    <3>2. queues[d].index = -1
      BY <1>15 DEF Present
    <3>3. \A e \in Discriminator : queues'[e].index < m + 1
      BY <2>5, <3>1
    <3>4. \A k \in 0..((m + 1) - 1) : \E e \in Discriminator : queues'[e].index = k
      <4> SUFFICES ASSUME NEW k \in 0..((m + 1) - 1)
                   PROVE  \E e \in Discriminator : queues'[e].index = k
        OBVIOUS
      <4>1. CASE k = m
        BY <1>3, <2>5, <4>1
      <4>2. CASE k # m
        <5>1. PICK e \in Discriminator : queues[e].index = k
          BY <2>1, <4>2 DEF HeapOf
        <5> QED
          BY <2>5, <3>2, <5>1
      <4> QED
        BY <4>1, <4>2
    <3>5. \A c, e \in Discriminator :
            queues'[c].index # -1 /\ queues'[c].index = queues'[e].index => c = e
      <4>1. \A e \in Discriminator \ {d} : queues'[e].index # m
        BY <2>5, <3>1
      <4>2. \A c, e \in Discriminator \ {d} :
              queues'[c].index # -1 /\ queues'[c].index = queues'[e].index => c = e
        BY <2>1, <2>5 DEF HeapOf
      <4> QED
        BY <2>5, <4>1, <4>2
    <3> QED
      BY <3>3, <3>4, <3>5 DEF HeapOf
  <2>8. TablesOK(queues', items')
    BY <1>11, <1>13, <2>5, <2>7 DEF TablesOK
  <2>9. todo' \in Seq(Task)
    BY <1>1, <1>3, <1>15, TaskTypes, TodoTypes
  <2> QED
    BY <1>4, <1>12, <2>6, <2>8, <2>9 DEF IInv, TypeOK, Rows
<1> QED
  BY <1>4, <1>14, <1>15

\* Two queues change places.
LEMMA SwapInv ==
  ASSUME IInv, NEW d \in Discriminator, NEW e \in Discriminator, SwapPositions(d, e),
         RowsOf(items, d) # {}, RowsOf(items, e) # {}
  PROVE  Rows(queues') /\ TablesOK(queues', items)
<1>1. Rows(queues)
  BY DEF IInv, TypeOK, Rows
<1>2. PICK n \in Nat : HeapOf(queues, n)
  BY DEF IInv, TablesOK
<1>3. queues[d] \in QueueRow /\ queues[e] \in QueueRow
  BY <1>1 DEF Rows
<1>4. queues' = [queues EXCEPT ![d].index = queues[e].index, ![e].index = queues[d].index]
  BY DEF SwapPositions
<1>5. CASE d = e
  <2>1. queues' = queues
    BY <1>1, <1>3, <1>4, <1>5 DEF Rows, QueueRow
  <2> QED
    BY <1>1, <2>1 DEF IInv
<1>6. CASE d # e
  <2>1. /\ queues'[d] = [queues[d] EXCEPT !.index = queues[e].index]
        /\ queues'[e] = [queues[e] EXCEPT !.index = queues[d].index]
        /\ \A c \in Discriminator \ {d, e} : queues'[c] = queues[c]
        /\ DOMAIN queues' = Discriminator
        /\ queues' = [c \in DOMAIN queues' |-> queues'[c]]
    BY <1>1, <1>4, <1>6 DEF Rows
  <2>2. /\ queues'[d] \in QueueRow /\ queues'[d].index = queues[e].index
        /\ queues'[e] \in QueueRow /\ queues'[e].index = queues[d].index
    BY <1>3, <2>1 DEF QueueRow
  <2>3. Rows(queues')
    BY <1>1, <2>1, <2>2 DEF Rows
  <2>4. HeapOf(queues', n)
    <3>1. \A c \in Discriminator \ {d, e} : queues'[c].index = queues[c].index
      BY <2>1
    <3> QED
      BY <1>2, <2>2, <3>1, Exchanged
  <2>5. \A c \in Discriminator : queues'[c].index # -1 => RowsOf(items, c) # {}
    BY <2>1 DEF IInv, TablesOK
  <2> QED
    BY <2>3, <2>4, <2>5 DEF IInv, TablesOK
<1> QED
  BY <1>5, <1>6

LEMMA RepairUpInv ==
  ASSUME IInv, RepairUp, UNCHANGED home
  PROVE  IInv'
<1> DEFINE d == Head(todo).discriminator
<1>1. /\ todo \in Seq(Task) /\ todo # << >> /\ Head(todo).do = "repairUp"
      /\ Head(todo) \in Task /\ Tail(todo) \in Seq(Task)
  BY TodoTypes DEF RepairUp, IInv, TypeOK
<1>2. d \in Discriminator
  BY <1>1, TaskTypes
<1>3. UNCHANGED <<items, committed, call, status, holders>> /\ RowsOf(items, d) # {}
  BY DEF RepairUp, ItemsOf, RowsOf
<1>4. CASE todo' = Tail(todo) /\ UNCHANGED queues
  BY <1>1, <1>3, <1>4 DEF IInv, TypeOK
<1>5. ASSUME NEW parent \in items, SwapPositions(d, parent.discriminator), UNCHANGED todo
      PROVE  IInv'
  <2>1. parent.discriminator \in Discriminator /\ RowsOf(items, parent.discriminator) # {}
    BY DEF IInv, TypeOK, ItemRow, RowsOf
  <2>2. Rows(queues') /\ TablesOK(queues', items)
    BY <1>2, <1>3, <1>5, <2>1, SwapInv
  <2> QED
    BY <1>1, <1>3, <1>5, <2>2 DEF IInv, TypeOK, Rows
<1> QED
  BY <1>4, <1>5 DEF RepairUp, AtIndex

LEMMA RepairDownInv ==
  ASSUME IInv, RepairDown, UNCHANGED home
  PROVE  IInv'
<1> DEFINE d == Head(todo).discriminator
<1>1. /\ todo \in Seq(Task) /\ todo # << >> /\ Head(todo).do = "repairDown"
      /\ Head(todo) \in Task /\ Tail(todo) \in Seq(Task)
  BY TodoTypes DEF RepairDown, IInv, TypeOK
<1>2. d \in Discriminator
  BY <1>1, TaskTypes
<1>3. UNCHANGED <<items, committed, call, status, holders>> /\ RowsOf(items, d) # {}
  BY DEF RepairDown, ItemsOf, RowsOf
<1>4. CASE todo' = Tail(todo) /\ UNCHANGED queues
  BY <1>1, <1>3, <1>4 DEF IInv, TypeOK
<1>5. ASSUME NEW child \in items, SwapPositions(d, child.discriminator), UNCHANGED todo
      PROVE  IInv'
  <2>1. child.discriminator \in Discriminator /\ RowsOf(items, child.discriminator) # {}
    BY DEF IInv, TypeOK, ItemRow, RowsOf
  <2>2. Rows(queues') /\ TablesOK(queues', items)
    BY <1>2, <1>3, <1>5, <2>1, SwapInv
  <2> QED
    BY <1>1, <1>3, <1>5, <2>2 DEF IInv, TypeOK, Rows
<1>6. SmallerChild(d) \subseteq items
  BY DEF SmallerChild, AtIndex
<1> QED
  BY <1>4, <1>5, <1>6 DEF RepairDown

-----------------------------------------------------------------------------
(* How a call ends, and the rest of the world *)

LEMMA CommitInv ==
  ASSUME IInv, Commit, UNCHANGED home
  PROVE  IInv'
<1>1. /\ committed' = [queues |-> queues, items |-> items]
      /\ call' = NoCall /\ UNCHANGED <<queues, items, todo>>
  BY DEF Commit, tables
<1>2. committed' \in Tables
  BY <1>1 DEF IInv, TypeOK, Tables
<1>3. call.item \in Item /\ (call.op \in {"lockNext", "renewLock", "acknowledge", "defer"} => call.holder \in Holder)
  BY CallsAre DEF Commit, IInv, TypeOK
<1>4. status' \in [Item -> {"new", "queued", "acknowledged", "removed"}] /\ holders' \subseteq Holder
  <2>1. \A h \in Holder : h.item \in Item
    BY DEF Holder
  <2> QED
    BY <1>3, <2>1 DEF Commit, IInv, TypeOK
<1>5. TablesOK(queues', items') /\ TablesOK(committed'.queues, committed'.items)
  BY <1>1 DEF IInv
<1> QED
  BY <1>1, <1>2, <1>4, <1>5 DEF IInv, TypeOK

LEMMA RollbackInv ==
  ASSUME IInv, Rollback, UNCHANGED home
  PROVE  IInv'
BY TodoTypes DEF IInv, TypeOK, Tables, Rollback

LEMMA Aging ==
  ASSUME NEW q, Rows(q)
  PROVE  Rows(Aged(q)) /\ \A d \in Discriminator : Aged(q)[d].index = q[d].index
<1>1. \A d \in Discriminator : q[d] \in QueueRow
  BY DEF Rows
<1>2. \A row \in QueueRow : /\ [row EXCEPT !.ttl = IF @ > 0 THEN @ - 1 ELSE 0] \in QueueRow
                            /\ [row EXCEPT !.ttl = IF @ > 0 THEN @ - 1 ELSE 0].index = row.index
  BY LockAssumption DEF QueueRow
<1> QED
  BY <1>1, <1>2 DEF Aged, Rows

LEMMA TickInv ==
  ASSUME IInv, Tick, UNCHANGED home
  PROVE  IInv'
<1>1. /\ queues' = Aged(queues) /\ UNCHANGED <<items, call, todo, status, holders>>
      /\ committed' = [committed EXCEPT !.queues = Aged(@)]
  BY DEF Tick
<1>2. Rows(queues) /\ Rows(committed.queues) /\ committed \in Tables
  BY DEF IInv, TypeOK, Tables, Rows
<1>3. committed'.queues = Aged(committed.queues) /\ committed'.items = committed.items
  BY <1>1, <1>2 DEF Tables
<1>4. TablesOK(queues', items')
  <2>1. \A d \in Discriminator : queues'[d].index = queues[d].index
    BY <1>1, <1>2, Aging
  <2> QED
    BY <1>1, <2>1, SamePlaces DEF IInv
<1>5. TablesOK(committed'.queues, committed'.items)
  <2>1. \A d \in Discriminator : committed'.queues[d].index = committed.queues[d].index
    BY <1>2, <1>3, Aging
  <2> QED
    BY <1>3, <2>1, SamePlaces DEF IInv
<1>6. Rows(queues') /\ committed' \in Tables
  BY <1>1, <1>2, Aging DEF Tables, Rows
<1> QED
  BY <1>1, <1>4, <1>5, <1>6 DEF IInv, TypeOK, Rows

LEMMA NextInv == IInv /\ [Next]_vars => IInv'
<1> SUFFICES ASSUME IInv, [Next]_vars PROVE IInv'
  OBVIOUS
<1>1. CASE UNCHANGED vars
  BY <1>1 DEF vars, tables, IInv, TypeOK
<1>2. CASE Next
  <2>1. UNCHANGED home
    BY <1>2 DEF Next
  <2>2. ASSUME NEW i \in Item, Enqueue(i) PROVE IInv'
    BY <2>1, <2>2, EnqueueInv
  <2>3. ASSUME NEW i \in Item, Remove(i) PROVE IInv'
    BY <2>1, <2>3, RemoveInv
  <2>4. CASE LockNext
    BY <2>1, <2>4, LockNextInv
  <2>5. ASSUME NEW h \in holders, RenewLock(h) PROVE IInv'
    BY <2>1, <2>5, RenewLockInv
  <2>6. ASSUME NEW h \in holders, Acknowledge(h) PROVE IInv'
    <3>1. << >> \in Seq(Task)
      BY TodoTypes
    <3> QED
      BY <2>1, <2>6, <3>1, TakeFirstInv DEF Acknowledge
  <2>7. ASSUME NEW h \in holders, NEW p \in Priority, Defer(h, p) PROVE IInv'
    <3>1. PICK r \in FirstItem(h.discriminator) :
            TakeFirst(h, "defer", <<Enqueueing(r.item, p)>>)
      BY <2>7 DEF Defer
    <3>2. <<Enqueueing(r.item, p)>> \in Seq(Task)
      BY TaskTypes, TodoTypes DEF FirstItem, ItemsOf, IInv, TypeOK, ItemRow
    <3> QED
      BY <2>1, <3>1, <3>2, TakeFirstInv
  <2>8. ASSUME NEW h \in holders, GiveUp(h) PROVE IInv'
    BY <2>1, <2>8 DEF GiveUp, tables, IInv, TypeOK
  <2>9. CASE Step
    BY <2>1, <2>9, EnqueueInternalInv, RepairUpInv, RepairDownInv, CommitInv DEF Step
  <2>10. CASE Rollback
    BY <2>1, <2>10, RollbackInv
  <2>11. CASE Tick
    BY <2>1, <2>11, TickInv
  <2> QED
    BY <1>2, <2>2, <2>3, <2>4, <2>5, <2>6, <2>7, <2>8, <2>9, <2>10, <2>11 DEF Next
<1> QED
  BY <1>1, <1>2

\* The invariant holds of every behaviour: see IInv.
THEOREM InvCorrect == Spec => []IInv
BY InitInv, NextInv, PTL DEF Spec

\* Type correctness: every row, task, call and lock is one the code could make.
THEOREM TypeCorrect == Spec => []TypeOK
<1>1. IInv => TypeOK
  BY DEF IInv
<1> QED
  BY <1>1, InvCorrect, PTL

\* The queues fill the heap from its root, one at each place, after every
\* statement of every call: swapPositionsInPriorityQueue and removeQueueInternal
\* leave no hole and put no two queues in one place.
THEOREM HeapIsDenseCorrect == Spec => []HeapIsDense
<1>1. IInv => HeapIsDense
  <2> SUFFICES ASSUME IInv PROVE HeapIsDense
    OBVIOUS
  <2>1. PICK n \in Nat : HeapOf(queues, n)
    BY DEF IInv, TablesOK
  <2>2. \A d \in Discriminator : queues[d].index \in Nat \cup {-1} /\ queues[d].index < n
    BY <2>1 DEF IInv, TypeOK, QueueRow, HeapOf
  <2>3. \A d \in Discriminator : \A k \in 0..queues[d].index : k \in 0..(n - 1)
    BY <2>2
  <2> QED
    BY <2>1, <2>3 DEF HeapOf, HeapIsDense, Present
<1> QED
  BY <1>1, InvCorrect, PTL

\* The items of every queue are numbered from 0 without gaps, and a queue in the
\* heap has a first item for lockNext to hand out, whatever was acknowledged,
\* deferred or removed in whatever order.
THEOREM QueuesAreDenseCorrect == Spec => []QueuesAreDense
<1>1. IInv => QueuesAreDense
  <2> SUFFICES ASSUME IInv, NEW d \in Discriminator PROVE QueueIsDense(d)
    BY DEF QueuesAreDense
  <2>1. PICK n \in Nat : Numbered(RowsOf(items, d), n)
    BY DEF IInv, TablesOK
  <2>2. ItemsOf(d) = RowsOf(items, d) /\ \A r \in ItemsOf(d) : r.indexInQueue \in Nat
    BY DEF ItemsOf, RowsOf, IInv, TypeOK, ItemRow
  <2>3. \A r \in ItemsOf(d) : \A k \in 0..r.indexInQueue : k \in 0..(n - 1)
    BY <2>1, <2>2 DEF Numbered
  <2>4. Present(d) => ItemsOf(d) # {}
    BY <2>2 DEF IInv, TablesOK, Present
  <2> QED
    BY <2>1, <2>2, <2>3, <2>4 DEF Numbered, QueueIsDense
<1> QED
  BY <1>1, InvCorrect, PTL

-----------------------------------------------------------------------------
(* What a call has left to do *)

LEMMA Tasks ==
  ASSUME NEW t \in Task, NEW u \in Task
  PROVE  /\ <<t>> # << >> /\ Head(<<t>>) = t /\ Tail(<<t>>) = << >>
         /\ <<t, u>> # << >> /\ Head(<<t, u>>) = t /\ Tail(<<t, u>>) = <<u>>
         /\ <<t>> \o << >> = <<t>> /\ <<t>> \o <<u>> = <<t, u>>
<1> HIDE DEF Task
<1>1. <<t>> # << >> /\ Head(<<t>>) = t /\ <<t, u>> # << >> /\ Head(<<t, u>>) = t
  OBVIOUS
<1>2. Tail(<<t>>) = << >>
  OBVIOUS
<1>3. Tail(<<t, u>>) = <<u>>
  OBVIOUS
<1>4. <<t>> \o << >> = <<t>>
  OBVIOUS
<1>5. <<t>> \o <<u>> = <<t, u>>
  <2>1. <<t>> \in Seq(Task) /\ <<u>> \in Seq(Task) /\ <<t, u>> \in Seq(Task)
    OBVIOUS
  <2>2. /\ <<t>> \o <<u>> \in Seq(Task) /\ Len(<<t>> \o <<u>>) = 2
        /\ (<<t>> \o <<u>>)[1] = t /\ (<<t>> \o <<u>>)[2] = u
    BY <2>1, ConcatProperties
  <2>3. Len(<<t, u>>) = 2 /\ <<t, u>>[1] = t /\ <<t, u>>[2] = u
    OBVIOUS
  <2> DEFINE both == <<t>> \o <<u>>
             pair == <<t, u>>
  <2> HIDE DEF both, pair
  <2>4. \A i \in 1..Len(both) : both[i] = pair[i]
    BY <2>2, <2>3 DEF both, pair
  <2>5. both \in Seq(Task) /\ pair \in Seq(Task) /\ Len(both) = Len(pair)
    BY <2>1, <2>2, <2>3 DEF both, pair
  <2>6. both = pair
    BY <2>4, <2>5, SeqEqual
  <2> QED
    BY <2>6 DEF both, pair
<1> QED
  BY <1>1, <1>2, <1>3, <1>4, <1>5

LEMMA WhatTasksDo ==
  /\ \A d : Up(d).do = "repairUp" /\ Up(d).discriminator = d
  /\ \A d : Down(d).do = "repairDown" /\ Down(d).discriminator = d
  /\ \A i, p : /\ Enqueueing(i, p).do = "enqueue"
              /\ Enqueueing(i, p).item = i /\ Enqueueing(i, p).priority = p
BY DEF Up, Down, Enqueueing

LEMMA HalfIsLess == \A k \in Nat : k > 0 => (k - 1) \div 2 \in Nat /\ (k - 1) \div 2 < k
OBVIOUS

\* A repair of a queue that is there, then perhaps another of it, or an item.
RepairsOf(d) ==
  {<<Up(d)>>, <<Down(d)>>, <<Down(d), Up(d)>>}
    \cup {<<Down(d), Enqueueing(i, p)>> : i \in Item, p \in Priority}

TodoOK ==
  \/ todo = << >>
  \/ \E i \in Item, p \in Priority : todo = <<Enqueueing(i, p)>>
  \/ \E d \in Discriminator : Present(d) /\ todo \in RepairsOf(d)

TInv == IInv /\ TodoOK

LEMMA OneRepair ==
  ASSUME NEW d \in Discriminator, Present(d), todo \in RepairsOf(d)
  PROVE  TodoOK
BY DEF TodoOK

\* What follows the first task.
LEMMA AfterFirst ==
  ASSUME TodoOK
  PROVE  /\ todo # << >> => Tail(todo) = << >> \/
              \E d \in Discriminator : /\ Present(d) /\ Head(todo) = Down(d)
                                       /\ \/ Tail(todo) = <<Up(d)>>
                                          \/ \E i \in Item, p \in Priority :
                                               Tail(todo) = <<Enqueueing(i, p)>>
         /\ todo # << >> /\ Head(todo).do = "enqueue" => Tail(todo) = << >>
         /\ todo # << >> /\ Head(todo).do # "enqueue" =>
              \E d \in Discriminator :
                Present(d) /\ Head(todo) \in {Up(d), Down(d)} /\ todo \in RepairsOf(d)
         /\ todo # << >> /\ Head(todo).do = "repairUp" =>
              \E d \in Discriminator : Present(d) /\ todo = <<Up(d)>>
<1>1. CASE todo = << >>
  BY <1>1
<1>2. ASSUME NEW i \in Item, NEW p \in Priority, todo = <<Enqueueing(i, p)>>
      PROVE  Head(todo) = Enqueueing(i, p) /\ Tail(todo) = << >>
  BY <1>2, TaskTypes, Tasks
<1>3. ASSUME NEW d \in Discriminator, Present(d), todo \in RepairsOf(d)
      PROVE  \/ todo = <<Up(d)>> /\ Head(todo) = Up(d) /\ Tail(todo) = << >>
             \/ Head(todo) = Down(d) /\ Tail(todo) = << >>
             \/ Head(todo) = Down(d) /\ Tail(todo) = <<Up(d)>>
             \/ Head(todo) = Down(d) /\ \E i \in Item, p \in Priority :
                                          Tail(todo) = <<Enqueueing(i, p)>>
  <2>1. Up(d) \in Task /\ Down(d) \in Task
    BY TaskTypes
  <2>2. CASE todo \in {<<Up(d)>>, <<Down(d)>>, <<Down(d), Up(d)>>}
    <3>1. /\ Head(<<Up(d)>>) = Up(d) /\ Tail(<<Up(d)>>) = << >>
          /\ Head(<<Down(d)>>) = Down(d) /\ Tail(<<Down(d)>>) = << >>
          /\ Head(<<Down(d), Up(d)>>) = Down(d) /\ Tail(<<Down(d), Up(d)>>) = <<Up(d)>>
      BY <2>1, Tasks
    <3> QED
      BY <2>2, <3>1
  <2>3. ASSUME NEW i \in Item, NEW p \in Priority, todo = <<Down(d), Enqueueing(i, p)>>
        PROVE  Head(todo) = Down(d) /\ Tail(todo) = <<Enqueueing(i, p)>>
    BY <2>1, <2>3, TaskTypes, Tasks
  <2> QED
    BY <1>3, <2>2, <2>3 DEF RepairsOf
<1> QED
  BY <1>1, <1>2, <1>3, WhatTasksDo DEF TodoOK

\* The same queues are in the heap as before, and what is left to do as well,
\* or a repair of one of them.
LEMMA StillTodo ==
  ASSUME \A d \in Discriminator : queues'[d].index # -1 <=> queues[d].index # -1
  PROVE  /\ TodoOK /\ UNCHANGED todo => TodoOK'
         /\ \A d \in Discriminator : Present(d) /\ todo' \in RepairsOf(d) => TodoOK'
BY DEF TodoOK, Present

LEMMA Follows ==
  ASSUME NEW d \in Discriminator, NEW after,
         after = << >> \/ \E i \in Item, p \in Priority : after = <<Enqueueing(i, p)>>
  PROVE  <<Down(d)>> \o after \in RepairsOf(d)
<1>1. CASE after = << >>
  BY <1>1, TaskTypes, Tasks DEF RepairsOf
<1>2. ASSUME NEW i \in Item, NEW p \in Priority, after = <<Enqueueing(i, p)>>
      PROVE  <<Down(d)>> \o after = <<Down(d), Enqueueing(i, p)>>
  BY <1>2, TaskTypes, Tasks
<1> QED
  BY <1>1, <1>2 DEF RepairsOf

LEMMA RemoveQueueTodo ==
  ASSUME IInv, NEW d \in Discriminator, Present(d), NEW after, RemoveQueue(d, after),
         after = << >> \/ \E i \in Item, p \in Priority : after = <<Enqueueing(i, p)>>
  PROVE  TodoOK'
<1>1. CASE todo' = after
  BY <1>1 DEF TodoOK
<1>2. ASSUME NEW m \in Discriminator \ {d}, queues[m].index = Count(d),
             queues[d].index < Count(d), todo' = <<Down(m)>> \o after
      PROVE  TodoOK'
  <2>1. PICK n \in Nat : HeapOf(queues, n)
    BY DEF IInv, TablesOK
  <2>2. Rows(queues)
    BY DEF IInv, TypeOK, Rows
  <2>3. queues'[m].index # -1 <=> queues[m].index # -1
    BY <2>1, <2>2, Removed
  <2>4. queues[d].index \in Nat
    BY <2>2 DEF Rows, QueueRow, Present
  <2>5. n - 1 = Count(d)
    BY <2>1, <2>2, CountIs
  <2>6. queues'[m].index # -1
    BY <1>2, <2>3, <2>4, <2>5
  <2>7. todo' \in RepairsOf(m)
    BY <1>2, Follows
  <2> QED
    BY <2>6, <2>7 DEF TodoOK, Present
<1> QED
  BY <1>1, <1>2 DEF RemoveQueue

LEMMA TakeFirstTodo ==
  ASSUME TInv, NEW h \in holders, NEW op, NEW after, TakeFirst(h, op, after),
         after = << >> \/ \E i \in Item, p \in Priority : after = <<Enqueueing(i, p)>>
  PROVE  TodoOK'
<1> DEFINE d == h.discriminator
<1>1. d \in Discriminator /\ Present(d) /\ Rows(queues)
  BY DEF TInv, IInv, TypeOK, Holder, TakeFirst, HoldsLock, Rows
<1>2. CASE queues' = [queues EXCEPT ![d].token = None, ![d].ttl = 0] /\ todo' = <<Down(d)>> \o after
  <2>1. Relocking
    <3>1. 0 \in 0..ExpirationTime /\ None \in Token \cup {None}
      BY LockAssumption
    <3> QED
      BY <1>1, <1>2, <3>1, Zenon DEF Relocking
  <2>2. \A e \in Discriminator : queues'[e].index # -1 <=> queues[e].index # -1
    BY <1>1, <2>1, Relocked
  <2>3. todo' \in RepairsOf(d)
    BY <1>1, <1>2, Follows
  <2> QED
    BY <1>1, <2>2, <2>3, StillTodo
<1>3. CASE RemoveQueue(d, after)
  BY <1>1, <1>3, RemoveQueueTodo DEF TInv
<1> QED
  BY <1>2, <1>3 DEF TakeFirst

LEMMA RelockTodo ==
  ASSUME IInv, Relocking, NEW d \in Discriminator, Present(d), todo' = <<Down(d)>>
  PROVE  TodoOK'
<1>1. \A e \in Discriminator : queues'[e].index # -1 <=> queues[e].index # -1
  BY Relocked DEF IInv, TypeOK, Rows
<1> QED
  BY <1>1, StillTodo DEF RepairsOf

LEMMA LockNextTodo ==
  ASSUME TInv, LockNext
  PROVE  TodoOK'
<1>1. PICK d \in Discriminator, t \in FreshTokens, r \in items :
        /\ Present(d)
        /\ queues' = [queues EXCEPT ![d].token = t, ![d].ttl = ExpirationTime]
        /\ todo' = <<Down(d)>>
  BY DEF LockNext
<1>2. t \in Token \cup {None} /\ ExpirationTime \in 0..ExpirationTime
  BY LockAssumption DEF FreshTokens
<1>3. Relocking
  BY <1>1, <1>2, Zenon DEF Relocking
<1> QED
  BY <1>1, <1>3, RelockTodo DEF TInv

LEMMA RenewLockTodo ==
  ASSUME TInv, NEW h \in holders, RenewLock(h)
  PROVE  TodoOK'
<1> DEFINE d == h.discriminator
<1>1. /\ d \in Discriminator /\ Present(d) /\ todo' = <<Down(d)>>
      /\ queues' = [queues EXCEPT ![d].ttl = ExpirationTime]
  BY DEF TInv, IInv, TypeOK, Holder, RenewLock, HoldsLock
<1>2. None \in Token \cup {None} /\ ExpirationTime \in 0..ExpirationTime
  BY LockAssumption
<1> HIDE DEF d
<1>3. Relocking
  BY <1>1, <1>2, Zenon DEF Relocking
<1> QED
  BY <1>1, <1>3, RelockTodo DEF TInv

LEMMA RemoveTodo ==
  ASSUME TInv, NEW i \in Item, Remove(i)
  PROVE  TodoOK'
<1>1. PICK r \in items :
        /\ Present(r.discriminator)
        /\ \/ RemoveQueue(r.discriminator, << >>)
           \/ todo' = <<Down(r.discriminator), Up(r.discriminator)>> /\ UNCHANGED queues
           \/ todo' = << >>
  BY DEF Remove
<1>2. r.discriminator \in Discriminator
  BY DEF TInv, IInv, TypeOK, ItemRow
<1>3. CASE RemoveQueue(r.discriminator, << >>)
  BY <1>1, <1>2, <1>3, RemoveQueueTodo DEF TInv
<1>4. CASE todo' = <<Down(r.discriminator), Up(r.discriminator)>> /\ UNCHANGED queues
  BY <1>1, <1>2, <1>4, StillTodo DEF RepairsOf
<1>5. CASE todo' = << >>
  BY <1>5 DEF TodoOK
<1> QED
  BY <1>1, <1>3, <1>4, <1>5

LEMMA EnqueueInternalTodo ==
  ASSUME TInv, IInv', EnqueueInternal, UNCHANGED home
  PROVE  /\ TodoOK'
         /\ todo' = << >> \/ \E d \in Discriminator :
              /\ ~ Present(d) /\ todo' = <<Up(d)>>
              /\ queues' = [queues EXCEPT ![d] = [Absent EXCEPT !.index = NextIndexInPriorityQueue]]
<1> DEFINE d == home[Head(todo).item]
<1>1. todo # << >> /\ Head(todo).do = "enqueue" /\ Tail(todo) = << >> /\ d \in Discriminator
  BY AfterFirst, TodoTypes, TaskTypes DEF EnqueueInternal, TInv, IInv, TypeOK
<1>2. \/ todo' = Tail(todo)
      \/ /\ ~ Present(d)
         /\ queues' = [queues EXCEPT ![d] = [Absent EXCEPT !.index = NextIndexInPriorityQueue]]
         /\ todo' = <<Up(d)>> \o Tail(todo)
  BY DEF EnqueueInternal
<1> HIDE DEF d
<1>3. CASE todo' = Tail(todo)
  BY <1>1, <1>3 DEF TodoOK
<1>4. CASE /\ ~ Present(d)
           /\ queues' = [queues EXCEPT ![d] = [Absent EXCEPT !.index = NextIndexInPriorityQueue]]
           /\ todo' = <<Up(d)>> \o Tail(todo)
  <2>1. todo' = <<Up(d)>>
    BY <1>1, <1>4, TaskTypes, Tasks
  <2>2. PICK n \in Nat : HeapOf(queues, n)
    BY DEF TInv, IInv, TablesOK
  <2>3. NextIndexInPriorityQueue = n
    BY <2>2, NextPlace DEF TInv, IInv, TypeOK, Rows
  <2>4. queues'[d].index = n
    BY <1>1, <1>4, <2>3 DEF TInv, IInv, TypeOK, Absent
  <2>5. TodoOK'
    BY <1>1, <2>1, <2>4 DEF TodoOK, Present, RepairsOf
  <2> QED
    BY <1>1, <1>4, <2>1, <2>5
<1> QED
  BY <1>2, <1>3, <1>4

\* Two queues change places: the heap has as many places as before.
LEMMA SwapKeeps ==
  ASSUME Rows(queues), NEW n \in Nat, HeapOf(queues, n),
         NEW d \in Discriminator, NEW e \in Discriminator, Present(d), Present(e),
         SwapPositions(d, e)
  PROVE  /\ HeapOf(queues', n) /\ queues'[d].index = queues[e].index
         /\ \A c \in Discriminator : queues'[c].index # -1 <=> queues[c].index # -1
<1>1. queues[d] \in QueueRow /\ queues[e] \in QueueRow
  BY DEF Rows
<1>2. queues' = [queues EXCEPT ![d].index = queues[e].index, ![e].index = queues[d].index]
  BY DEF SwapPositions
<1>3. /\ queues'[d].index = queues[e].index /\ queues'[e].index = queues[d].index
      /\ \A c \in Discriminator \ {d, e} : queues'[c].index = queues[c].index
  <2>1. CASE d = e
    BY <1>1, <1>2, <2>1 DEF Rows, QueueRow
  <2>2. CASE d # e
    BY <1>1, <1>2, <2>2 DEF Rows, QueueRow
  <2> QED
    BY <2>1, <2>2
<1>4. HeapOf(queues', n)
  BY <1>3, Exchanged
<1> QED
  BY <1>3, <1>4 DEF Present

\* What a repair of a queue does: it ends, or takes the queue nearer to the root
\* or to the last place.
LEMMA RepairsMove ==
  ASSUME TInv
  PROVE  /\ RepairUp => \E d \in Discriminator :
              /\ Present(d) /\ todo = <<Up(d)>>
              /\ \/ todo' = << >> /\ UNCHANGED queues
                 \/ \E e \in Discriminator :
                      /\ Present(e) /\ SwapPositions(d, e) /\ UNCHANGED todo
                      /\ queues[e].index < queues[d].index
         /\ RepairDown => \E d \in Discriminator :
              /\ Present(d) /\ todo \in RepairsOf(d) /\ Head(todo) = Down(d)
              /\ \/ todo' = Tail(todo) /\ UNCHANGED queues
                 \/ \E e \in Discriminator :
                      /\ Present(e) /\ SwapPositions(d, e) /\ UNCHANGED todo
                      /\ queues[d].index < queues[e].index
<1>1. \A d \in Discriminator : queues[d].index \in Nat \cup {-1}
  BY DEF TInv, IInv, TypeOK, QueueRow
<1>2. \A r \in items : r.discriminator \in Discriminator
  BY DEF TInv, IInv, TypeOK, ItemRow
<1>3. ASSUME RepairUp
      PROVE  \E d \in Discriminator :
               /\ Present(d) /\ todo = <<Up(d)>>
               /\ \/ todo' = << >> /\ UNCHANGED queues
                  \/ \E e \in Discriminator :
                       /\ Present(e) /\ SwapPositions(d, e) /\ UNCHANGED todo
                       /\ queues[e].index < queues[d].index
  <2>1. todo # << >> /\ Head(todo).do = "repairUp"
    BY <1>3 DEF RepairUp
  <2>2. PICK d \in Discriminator : Present(d) /\ todo = <<Up(d)>>
    BY <2>1, AfterFirst DEF TInv
  <2>3. Head(todo).discriminator = d /\ Tail(todo) = << >>
    BY <2>2, Tasks, TaskTypes, WhatTasksDo
  <2>4. \/ todo' = Tail(todo) /\ UNCHANGED queues
        \/ \E parent \in AtIndex((queues[d].index - 1) \div 2) :
             /\ queues[d].index # 0
             /\ SwapPositions(d, parent.discriminator) /\ UNCHANGED todo
    BY <1>3, <2>3 DEF RepairUp
  <2>5. ASSUME NEW parent \in AtIndex((queues[d].index - 1) \div 2), queues[d].index # 0
        PROVE  /\ parent.discriminator \in Discriminator /\ Present(parent.discriminator)
               /\ queues[parent.discriminator].index < queues[d].index
    <3>1. queues[d].index \in Nat /\ queues[d].index > 0
      BY <1>1, <2>2, <2>5 DEF Present
    <3>2. parent \in items /\ queues[parent.discriminator].index = (queues[d].index - 1) \div 2
      BY DEF AtIndex
    <3> QED
      BY <1>2, <3>1, <3>2, HalfIsLess DEF Present
  <2> QED
    BY <2>2, <2>3, <2>4, <2>5
<1>4. ASSUME RepairDown
      PROVE  \E d \in Discriminator :
               /\ Present(d) /\ todo \in RepairsOf(d) /\ Head(todo) = Down(d)
               /\ \/ todo' = Tail(todo) /\ UNCHANGED queues
                  \/ \E e \in Discriminator :
                       /\ Present(e) /\ SwapPositions(d, e) /\ UNCHANGED todo
                       /\ queues[d].index < queues[e].index
  <2>1. todo # << >> /\ Head(todo).do = "repairDown"
    BY <1>4 DEF RepairDown
  <2>2. PICK d \in Discriminator :
          Present(d) /\ Head(todo) \in {Up(d), Down(d)} /\ todo \in RepairsOf(d)
    BY <2>1, AfterFirst DEF TInv
  <2>3. Head(todo) = Down(d) /\ Head(todo).discriminator = d
    BY <2>1, <2>2, WhatTasksDo
  <2>4. \/ todo' = Tail(todo) /\ UNCHANGED queues
        \/ \E child \in SmallerChild(d) :
             SwapPositions(d, child.discriminator) /\ UNCHANGED todo
    BY <1>4, <2>3 DEF RepairDown
  <2>5. ASSUME NEW child \in SmallerChild(d)
        PROVE  /\ child.discriminator \in Discriminator /\ Present(child.discriminator)
               /\ queues[d].index < queues[child.discriminator].index
    <3>1. queues[d].index \in Nat
      BY <1>1, <2>2 DEF Present
    <3>2. /\ child \in items
          /\ \/ queues[child.discriminator].index = 2 * queues[d].index + 1
             \/ queues[child.discriminator].index = 2 * queues[d].index + 2
      BY DEF SmallerChild, AtIndex
    <3> QED
      BY <1>2, <3>1, <3>2 DEF Present
  <2> QED
    BY <2>2, <2>3, <2>4, <2>5
<1> QED
  BY <1>3, <1>4

LEMMA RepairsTodo ==
  ASSUME TInv, RepairUp \/ RepairDown
  PROVE  TodoOK'
<1>1. Rows(queues)
  BY DEF TInv, IInv, TypeOK, Rows
<1>2. PICK n \in Nat : HeapOf(queues, n)
  BY DEF TInv, IInv, TablesOK
<1>3. PICK d \in Discriminator :
        /\ Present(d)
        /\ \/ (todo' = << >> \/ todo' = Tail(todo)) /\ todo # << >> /\ UNCHANGED queues
           \/ \E e \in Discriminator :
                Present(e) /\ SwapPositions(d, e) /\ UNCHANGED todo
  BY RepairsMove DEF RepairUp, RepairDown
<1>4. CASE todo' = << >>
  BY <1>4 DEF TodoOK
<1>5. CASE todo' = Tail(todo) /\ todo # << >> /\ UNCHANGED queues
  BY <1>5, AfterFirst DEF TInv, TodoOK, Present, RepairsOf
<1>6. ASSUME NEW e \in Discriminator, Present(e), SwapPositions(d, e), UNCHANGED todo
      PROVE  TodoOK'
  BY <1>1, <1>2, <1>3, <1>6, SwapKeeps, StillTodo DEF TInv
<1> QED
  BY <1>3, <1>4, <1>5, <1>6

LEMMA TickTodo ==
  ASSUME TInv, Tick
  PROVE  TodoOK' /\ \A d \in Discriminator : queues'[d].index = queues[d].index
<1>1. \A d \in Discriminator : queues'[d].index = queues[d].index
  BY Aging DEF TInv, IInv, TypeOK, Rows, Tick
<1> QED
  BY <1>1, StillTodo DEF TInv, Tick

LEMMA TodoNext == TInv /\ [Next]_vars => TInv'
<1> SUFFICES ASSUME TInv, [Next]_vars PROVE TInv'
  OBVIOUS
<1>1. IInv'
  BY NextInv DEF TInv
<1> SUFFICES TodoOK'
  BY <1>1 DEF TInv
<1>2. CASE UNCHANGED <<queues, todo>>
  BY <1>2, StillTodo DEF TInv
<1>3. CASE todo' = << >>
  BY <1>3 DEF TodoOK
<1>4. CASE Next
  <2>1. UNCHANGED home
    BY <1>4 DEF Next
  <2>2. ASSUME NEW i \in Item, Enqueue(i) PROVE TodoOK'
    BY <2>2, ItemsAssumption DEF Enqueue, TodoOK
  <2>3. ASSUME NEW i \in Item, Remove(i) PROVE TodoOK'
    BY <2>3, RemoveTodo
  <2>4. CASE LockNext
    BY <2>4, LockNextTodo
  <2>5. ASSUME NEW h \in holders, RenewLock(h) PROVE TodoOK'
    BY <2>5, RenewLockTodo
  <2>6. ASSUME NEW h \in holders, Acknowledge(h) PROVE TodoOK'
    BY <2>6, TakeFirstTodo DEF Acknowledge
  <2>7. ASSUME NEW h \in holders, NEW p \in Priority, Defer(h, p) PROVE TodoOK'
    <3>1. PICK r \in FirstItem(h.discriminator) :
            TakeFirst(h, "defer", <<Enqueueing(r.item, p)>>)
      BY <2>7 DEF Defer
    <3>2. r.item \in Item
      BY DEF FirstItem, ItemsOf, TInv, IInv, TypeOK, ItemRow
    <3> QED
      BY <3>1, <3>2, TakeFirstTodo
  <2>8. ASSUME NEW h \in holders, GiveUp(h) PROVE UNCHANGED <<queues, todo>>
    BY <2>8 DEF GiveUp, tables
  <2>9. CASE EnqueueInternal
    BY <1>1, <2>1, <2>9, EnqueueInternalTodo
  <2>10. CASE RepairUp \/ RepairDown
    BY <2>10, RepairsTodo
  <2>11. ASSUME Commit PROVE UNCHANGED <<queues, todo>>
    BY <2>11 DEF Commit, tables
  <2>12. ASSUME Rollback PROVE todo' = << >>
    BY <2>12 DEF Rollback
  <2>13. CASE Tick
    BY <2>13, TickTodo
  <2> QED
    BY <1>2, <1>3, <1>4, <2>2, <2>3, <2>4, <2>5, <2>6, <2>7, <2>8, <2>9, <2>10, <2>11,
       <2>12, <2>13 DEF Next, Step
<1> QED
  BY <1>2, <1>4 DEF vars, tables

\* The invariant, with what every call has left to do.
THEOREM TodoInvCorrect == Spec => []TInv
<1>1. Init => TInv
  BY InitInv DEF Init, TInv, TodoOK
<1> QED
  BY <1>1, TodoNext, PTL DEF Spec

\* No repair meets a queue without items or a place of the heap without a
\* queue: getPriority is never handed the null of a missing one.
THEOREM RepairsFindQueuesCorrect == Spec => []RepairsFindQueues
<1>1. TInv => RepairsFindQueues
  <2> SUFFICES ASSUME TInv, todo # << >>, Head(todo).do \in {"repairUp", "repairDown"}
               PROVE  LET d == Head(todo).discriminator
                      IN  /\ Present(d) /\ ItemsOf(d) # {}
                          /\ Head(todo).do = "repairUp" /\ queues[d].index # 0 =>
                               AtIndex((queues[d].index - 1) \div 2) # {}
    BY DEF RepairsFindQueues
  <2>1. PICK d \in Discriminator : Present(d) /\ Head(todo) \in {Up(d), Down(d)}
    BY AfterFirst DEF TInv
  <2>2. Head(todo).discriminator = d
    BY <2>1, WhatTasksDo
  <2>3. ItemsOf(d) # {}
    BY <2>1 DEF TInv, IInv, TablesOK, RowsOf, ItemsOf, Present
  <2>4. ASSUME queues[d].index # 0 PROVE AtIndex((queues[d].index - 1) \div 2) # {}
    <3> DEFINE k == (queues[d].index - 1) \div 2
    <3>1. queues[d].index \in Nat /\ queues[d].index > 0
      BY <2>1, <2>4 DEF TInv, IInv, TypeOK, QueueRow, Present
    <3>2. PICK n \in Nat : HeapOf(queues, n)
      BY DEF TInv, IInv, TablesOK
    <3>3. k \in Nat /\ k < queues[d].index /\ queues[d].index < n
      BY <3>1, <3>2, HalfIsLess DEF HeapOf
    <3> HIDE DEF k
    <3>4. PICK e \in Discriminator : queues[e].index = k
      BY <3>1, <3>2, <3>3 DEF HeapOf
    <3>5. PICK m \in Nat : m # 0 /\ Numbered(RowsOf(items, e), m) /\ 0 \in 0..(m - 1)
      BY <3>3, <3>4, FirstIs DEF Present, TInv
    <3>6. PICK r \in RowsOf(items, e) : r.indexInQueue = 0
      BY <3>5 DEF Numbered
    <3> QED
      BY <3>4, <3>6 DEF AtIndex, RowsOf, k
  <2> QED
    BY <2>1, <2>2, <2>3, <2>4
<1> QED
  BY <1>1, TodoInvCorrect, PTL

\* The bound, by what there is to do.
StepsLeftAre ==
  \A n \in Nat : HeapOf(queues, n) =>
    /\ todo = << >> => StepsLeft = 0
    /\ \A i \in Item, p \in Priority : todo = <<Enqueueing(i, p)>> => StepsLeft = n + 3
    /\ \A d \in Discriminator : Present(d) =>
         LET k == queues[d].index
         IN  /\ k \in 0..(n - 1)
             /\ todo = <<Up(d)>> => StepsLeft = k + 1
             /\ todo = <<Down(d)>> => StepsLeft = n - k
             /\ todo \in RepairsOf(d) /\ Tail(todo) # << >> => StepsLeft = (n - k) + (n + 3)

LEMMA Bounds == IInv => StepsLeftAre
<1> SUFFICES ASSUME IInv, NEW n \in Nat, HeapOf(queues, n)
             PROVE  /\ todo = << >> => StepsLeft = 0
                    /\ \A i \in Item, p \in Priority :
                         todo = <<Enqueueing(i, p)>> => StepsLeft = n + 3
                    /\ \A d \in Discriminator : Present(d) =>
                         LET k == queues[d].index
                         IN  /\ k \in 0..(n - 1)
                             /\ todo = <<Up(d)>> => StepsLeft = k + 1
                             /\ todo = <<Down(d)>> => StepsLeft = n - k
                             /\ todo \in RepairsOf(d) /\ Tail(todo) # << >> =>
                                  StepsLeft = (n - k) + (n + 3)
  BY DEF StepsLeftAre
<1>1. NextIndexInPriorityQueue = n
  BY NextPlace DEF IInv, TypeOK, Rows
<1>2. \A d \in Discriminator : Present(d) => queues[d].index \in 0..(n - 1)
  BY DEF IInv, TypeOK, QueueRow, HeapOf, Present
<1>3. ASSUME todo = << >> PROVE StepsLeft = 0
  BY <1>3 DEF StepsLeft
<1>4. ASSUME NEW i \in Item, NEW p \in Priority, todo = <<Enqueueing(i, p)>>
      PROVE  StepsLeft = n + 3
  <2>1. todo # << >> /\ Head(todo) = Enqueueing(i, p) /\ Tail(todo) = << >>
    BY <1>4, Tasks, TaskTypes
  <2>2. StepsOf(Head(todo)) = n + 3
    BY <1>1, <2>1, WhatTasksDo DEF StepsOf
  <2> QED
    BY <2>1, <2>2 DEF StepsLeft
<1>5. ASSUME NEW d \in Discriminator, Present(d), todo = <<Up(d)>>
      PROVE  StepsLeft = queues[d].index + 1
  <2>1. todo # << >> /\ Head(todo) = Up(d) /\ Tail(todo) = << >>
    BY <1>5, Tasks, TaskTypes
  <2>2. StepsOf(Head(todo)) = queues[d].index + 1
    BY <2>1, WhatTasksDo DEF StepsOf
  <2> QED
    BY <1>2, <1>5, <2>1, <2>2 DEF StepsLeft
<1>6. \A d \in Discriminator : StepsOf(Down(d)) = n - queues[d].index
  BY <1>1, WhatTasksDo DEF StepsOf
<1>7. ASSUME NEW d \in Discriminator, Present(d), todo = <<Down(d)>>
      PROVE  StepsLeft = n - queues[d].index
  <2>1. todo # << >> /\ Head(todo) = Down(d) /\ Tail(todo) = << >>
    BY <1>7, Tasks, TaskTypes
  <2> QED
    BY <1>2, <1>6, <1>7, <2>1 DEF StepsLeft
<1>8. ASSUME NEW d \in Discriminator, Present(d), todo \in RepairsOf(d), Tail(todo) # << >>
      PROVE  StepsLeft = (n - queues[d].index) + (n + 3)
  <2>1. todo # << >> /\ Head(todo) = Down(d)
    <3>1. todo # <<Up(d)>>
      BY <1>8, Tasks, TaskTypes
    <3>2. CASE todo = <<Down(d)>> \/ todo = <<Down(d), Up(d)>>
      <4>1. Up(d) \in Task /\ Down(d) \in Task
        BY TaskTypes
      <4>2. /\ <<Down(d)>> # << >> /\ Head(<<Down(d)>>) = Down(d)
            /\ <<Down(d), Up(d)>> # << >> /\ Head(<<Down(d), Up(d)>>) = Down(d)
        BY <4>1, Tasks
      <4> QED
        BY <3>2, <4>2
    <3>3. ASSUME NEW i \in Item, NEW p \in Priority, todo = <<Down(d), Enqueueing(i, p)>>
          PROVE  todo # << >> /\ Head(todo) = Down(d)
      BY <3>3, Tasks, TaskTypes
    <3> QED
      BY <1>8, <3>1, <3>2, <3>3 DEF RepairsOf
  <2>2. StepsLeft = StepsOf(Head(todo)) + (n + 3)
    BY <1>1, <1>8, <2>1 DEF StepsLeft
  <2> QED
    BY <1>6, <2>1, <2>2
<1> QED
  BY <1>2, <1>3, <1>4, <1>5, <1>7, <1>8

LEMMA BoundsNow == TInv => StepsLeftAre
BY Bounds DEF TInv

LEMMA BoundsNext == TInv' => StepsLeftAre'
BY BoundsNow, PTL

LEMMA EnqueueingEnds ==
  ASSUME TInv, TInv', EnqueueInternal, UNCHANGED home
  PROVE  FewerSteps
<1>1. PICK n \in Nat : HeapOf(queues, n)
  BY DEF TInv, IInv, TablesOK
<1>2. PICK n1 \in Nat : HeapOf(queues', n1)
  BY DEF TInv, IInv, TablesOK
<1>3. \E i \in Item, p \in Priority : todo = <<Enqueueing(i, p)>>
  <2>1. todo # << >> /\ Head(todo).do = "enqueue"
    BY DEF EnqueueInternal
  <2> QED
    BY <2>1, Tasks, TaskTypes, AfterFirst, WhatTasksDo DEF TInv, TodoOK, RepairsOf
<1>4. StepsLeft = n + 3
  BY <1>1, <1>3, BoundsNow DEF StepsLeftAre
<1>5. CASE todo' = << >>
  <2>1. StepsLeft' = 0
    BY <1>2, <1>5, BoundsNext DEF StepsLeftAre
  <2> QED
    BY <1>4, <2>1 DEF FewerSteps
<1>6. ASSUME NEW d \in Discriminator, ~ Present(d), todo' = <<Up(d)>>,
             queues' = [queues EXCEPT ![d] = [Absent EXCEPT !.index = NextIndexInPriorityQueue]]
      PROVE  FewerSteps
  <2>1. NextIndexInPriorityQueue = n
    BY <1>1, NextPlace DEF TInv, IInv, TypeOK, Rows
  <2>2. queues'[d].index = n
    BY <1>6, <2>1 DEF TInv, IInv, TypeOK, Absent
  <2>3. StepsLeft' = n + 1
    <3>1. Present(d)'
      BY <2>2 DEF Present
    <3> QED
      BY <1>2, <1>6, <2>2, <3>1, BoundsNext DEF StepsLeftAre
  <2> QED
    BY <1>4, <2>3 DEF FewerSteps
<1> QED
  BY <1>5, <1>6, EnqueueInternalTodo DEF TInv

LEMMA RisingEnds ==
  ASSUME TInv, TInv', RepairUp
  PROVE  FewerSteps
<1>1. PICK n \in Nat : HeapOf(queues, n)
  BY DEF TInv, IInv, TablesOK
<1>2. PICK d \in Discriminator :
        /\ Present(d) /\ todo = <<Up(d)>>
        /\ \/ todo' = << >> /\ UNCHANGED queues
           \/ \E e \in Discriminator :
                /\ Present(e) /\ SwapPositions(d, e) /\ UNCHANGED todo
                /\ queues[e].index < queues[d].index
  BY RepairsMove
<1>3. StepsLeft = queues[d].index + 1 /\ queues[d].index \in 0..(n - 1)
  BY <1>1, <1>2, BoundsNow DEF StepsLeftAre
<1>4. CASE todo' = << >> /\ UNCHANGED queues
  <2>1. StepsLeft' = 0
    BY <1>1, <1>4, BoundsNext DEF StepsLeftAre
  <2> QED
    BY <1>3, <2>1 DEF FewerSteps
<1>5. ASSUME NEW e \in Discriminator, Present(e), SwapPositions(d, e), UNCHANGED todo,
             queues[e].index < queues[d].index
      PROVE  FewerSteps
  <2>1. HeapOf(queues', n) /\ queues'[d].index = queues[e].index /\ Present(d)'
    BY <1>1, <1>2, <1>5, SwapKeeps DEF TInv, IInv, TypeOK, Rows, Present
  <2>2. queues[e].index \in 0..(n - 1)
    BY <1>1, <1>5, BoundsNow DEF StepsLeftAre
  <2>3. StepsLeft' = queues[e].index + 1
    BY <1>2, <1>5, <2>1, BoundsNext DEF StepsLeftAre
  <2> QED
    BY <1>3, <1>5, <2>2, <2>3 DEF FewerSteps
<1> QED
  BY <1>2, <1>4, <1>5

LEMMA SinkingEnds ==
  ASSUME TInv, TInv', RepairDown
  PROVE  FewerSteps
<1>1. PICK n \in Nat : HeapOf(queues, n)
  BY DEF TInv, IInv, TablesOK
<1>2. PICK d \in Discriminator :
        /\ Present(d) /\ todo \in RepairsOf(d) /\ Head(todo) = Down(d)
        /\ \/ todo' = Tail(todo) /\ UNCHANGED queues
           \/ \E e \in Discriminator :
                /\ Present(e) /\ SwapPositions(d, e) /\ UNCHANGED todo
                /\ queues[d].index < queues[e].index
  BY RepairsMove
<1>3. /\ queues[d].index \in 0..(n - 1)
      /\ Tail(todo) # << >> => StepsLeft = (n - queues[d].index) + (n + 3)
  BY <1>1, <1>2, BoundsNow DEF StepsLeftAre
<1>4. todo = <<Down(d)>> => StepsLeft = n - queues[d].index
  BY <1>1, <1>2, BoundsNow DEF StepsLeftAre
<1>5. \/ todo = <<Down(d)>> /\ Tail(todo) = << >>
      \/ Tail(todo) = <<Up(d)>>
      \/ \E i \in Item, p \in Priority : Tail(todo) = <<Enqueueing(i, p)>>
  <2>1. todo # <<Up(d)>>
    BY <1>2, Tasks, TaskTypes, WhatTasksDo
  <2>2. CASE todo = <<Down(d)>> \/ todo = <<Down(d), Up(d)>>
    <3>1. Up(d) \in Task /\ Down(d) \in Task
      BY TaskTypes
    <3>2. Tail(<<Down(d)>>) = << >> /\ Tail(<<Down(d), Up(d)>>) = <<Up(d)>>
      BY <3>1, Tasks
    <3> QED
      BY <2>2, <3>2
  <2>3. ASSUME NEW i \in Item, NEW p \in Priority, todo = <<Down(d), Enqueueing(i, p)>>
        PROVE  Tail(todo) = <<Enqueueing(i, p)>>
    BY <2>3, Tasks, TaskTypes
  <2> QED
    BY <1>2, <2>1, <2>2, <2>3 DEF RepairsOf
<1>6. Tail(todo) = << >> => StepsLeft = n - queues[d].index
  <2>1. /\ \A i \in Item, p \in Priority : <<Enqueueing(i, p)>> # << >>
        /\ <<Up(d)>> # << >>
    BY Tasks, TaskTypes
  <2> QED
    BY <1>4, <1>5, <2>1
<1>7. CASE todo' = Tail(todo) /\ UNCHANGED queues
  <2>1. HeapOf(queues', n) /\ Present(d)' /\ queues'[d].index = queues[d].index
    BY <1>1, <1>2, <1>7 DEF Present
  <2>2. CASE Tail(todo) = << >>
    <3>1. StepsLeft' = 0
      BY <1>7, <2>1, <2>2, BoundsNext DEF StepsLeftAre
    <3> QED
      BY <1>3, <1>6, <2>2, <3>1 DEF FewerSteps
  <2>3. CASE Tail(todo) # << >> /\ Tail(todo) = <<Up(d)>>
    <3>1. StepsLeft' = queues[d].index + 1
      BY <1>7, <2>1, <2>3, BoundsNext DEF StepsLeftAre
    <3>2. StepsLeft = (n - queues[d].index) + (n + 3)
      BY <1>3, <2>3
    <3> QED
      BY <1>3, <3>1, <3>2 DEF FewerSteps
  <2>4. ASSUME NEW i \in Item, NEW p \in Priority, Tail(todo) = <<Enqueueing(i, p)>>,
               Tail(todo) # << >>
        PROVE  FewerSteps
    <3>1. StepsLeft' = n + 3
      BY <1>7, <2>1, <2>4, BoundsNext DEF StepsLeftAre
    <3> QED
      BY <1>3, <2>4, <3>1 DEF FewerSteps
  <2> QED
    BY <1>5, <2>2, <2>3, <2>4
<1>8. ASSUME NEW e \in Discriminator, Present(e), SwapPositions(d, e), UNCHANGED todo,
             queues[d].index < queues[e].index
      PROVE  FewerSteps
  <2>1. HeapOf(queues', n) /\ queues'[d].index = queues[e].index /\ Present(d)'
    BY <1>1, <1>2, <1>8, SwapKeeps DEF TInv, IInv, TypeOK, Rows, Present
  <2>2. queues[e].index \in 0..(n - 1)
    BY <1>1, <1>8, BoundsNow DEF StepsLeftAre
  <2>3. /\ Tail(todo) # << >> => StepsLeft' = (n - queues[e].index) + (n + 3)
        /\ todo = <<Down(d)>> => StepsLeft' = n - queues[e].index
    BY <1>2, <1>8, <2>1, BoundsNext DEF StepsLeftAre
  <2>4. CASE Tail(todo) # << >>
    <3>1. /\ StepsLeft = (n - queues[d].index) + (n + 3)
          /\ StepsLeft' = (n - queues[e].index) + (n + 3)
      BY <1>3, <2>3, <2>4
    <3> QED
      BY <1>3, <1>8, <2>2, <3>1 DEF FewerSteps
  <2>5. CASE Tail(todo) = << >>
    <3>1. todo = <<Down(d)>>
      <4>1. /\ \A i \in Item, p \in Priority : <<Enqueueing(i, p)>> # << >>
            /\ <<Up(d)>> # << >>
        BY Tasks, TaskTypes
      <4> QED
        BY <1>5, <2>5, <4>1
    <3> QED
      BY <1>3, <1>4, <1>8, <2>2, <2>3, <3>1 DEF FewerSteps
  <2> QED
    BY <2>4, <2>5
<1> QED
  BY <1>2, <1>7, <1>8

PlacesCounted ==
  \A n \in Nat : Rows(queues) /\ HeapOf(queues, n) => NextIndexInPriorityQueue = n

LEMMA PlacesNow == PlacesCounted
BY NextPlace DEF PlacesCounted

LEMMA PlacesNext == PlacesCounted'
BY PlacesNow, PTL

\* The places in the heap and what there is to do are all the bound depends on.
LEMMA TimeCostsNothing ==
  ASSUME TInv, Tick
  PROVE  StepsLeft' = StepsLeft
<1>1. UNCHANGED todo /\ \A d \in Discriminator : queues'[d].index = queues[d].index
  BY TickTodo DEF Tick
<1>2. NextIndexInPriorityQueue' = NextIndexInPriorityQueue
  <2>1. PICK n \in Nat : HeapOf(queues, n)
    BY DEF TInv, IInv, TablesOK
  <2>2. HeapOf(queues', n)
    BY <1>1, <2>1 DEF HeapOf
  <2>3. Rows(queues) /\ Rows(queues')
    BY Aging DEF TInv, IInv, TypeOK, Rows, Tick
  <2> QED
    BY <2>1, <2>2, <2>3, PlacesNow, PlacesNext DEF PlacesCounted
<1> QED
  BY <1>1, <1>2 DEF StepsLeft, StepsOf

\* Every statement of a call leaves fewer to be made, by a bound that neither
\* the passing of time nor what the repairs compare can raise: no call loops.
THEOREM RepairsEndCorrect == Spec => RepairsEnd
<1>1. TInv /\ TInv' /\ [Next]_vars =>
        [ /\ EnqueueInternal \/ RepairUp \/ RepairDown => FewerSteps
          /\ Tick => StepsLeft' = StepsLeft ]_vars
  <2> SUFFICES ASSUME TInv, TInv', Next
               PROVE  /\ EnqueueInternal \/ RepairUp \/ RepairDown => FewerSteps
                      /\ Tick => StepsLeft' = StepsLeft
    OBVIOUS
  <2>1. UNCHANGED home
    BY DEF Next
  <2> QED
    BY <2>1, EnqueueingEnds, RisingEnds, SinkingEnds, TimeCostsNothing
<1>2. TInv /\ [Next]_vars => TInv'
  BY TodoNext
<1> QED
  BY <1>1, <1>2, TodoInvCorrect, PTL DEF Spec, RepairsEnd

=============================================================================
