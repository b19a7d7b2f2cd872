----------------------- MODULE PriorityQueueOrderProofs -----------------------
(***************************************************************************)
(* Proofs about PriorityQueueOrder, for any number of queues, items and    *)
(* tokens: the repairs keep the heap in order, and lockNext chooses a most *)
(* urgent queue of a heap in order.                                        *)
(***************************************************************************)
EXTENDS PriorityQueueOrder, PriorityQueueProofs, WellFoundedInduction

-----------------------------------------------------------------------------
(* The inductive invariant *)

\* Any queue with item m between two others does not separate their order.
Bridged(q, its, d) ==
  \A r, m, s \in its : m.discriminator = d /\ IsParent(q, r, m) /\ IsParent(q, m, s) =>
    QueuePriority(q, r) <= QueuePriority(q, s)

\* Only the queue of d may be more urgent than its parent.
Rising(q, its, d) ==
  /\ OneEach(its)
  /\ \A r, s \in its : IsParent(q, r, s) /\ s.discriminator # d =>
       QueuePriority(q, r) <= QueuePriority(q, s)
  /\ Bridged(q, its, d)

\* Only the queue of d may be less urgent than its children.
Sinking(q, its, d) ==
  /\ OneEach(its)
  /\ \A r, s \in its : IsParent(q, r, s) /\ r.discriminator # d =>
       QueuePriority(q, r) <= QueuePriority(q, s)
  /\ Bridged(q, its, d)

\* What is left to do puts the tables in order.
Settling ==
  \/ /\ todo = << >> \/ \E i \in Item, p \in Priority : todo = <<Enqueueing(i, p)>>
     /\ InOrder(queues, items)
  \/ \E d \in Discriminator :
       todo = <<Up(d)>> /\ Present(d) /\ Rising(queues, items, d)
  \/ \E d \in Discriminator :
       /\ \/ todo = <<Down(d)>>
          \/ \E i \in Item, p \in Priority : todo = <<Down(d), Enqueueing(i, p)>>
       /\ Present(d) /\ Sinking(queues, items, d)

Settled == InOrder(committed.queues, committed.items) /\ Settling

\* Between calls nothing is uncommitted, and nothing left to do.
IdleOK == Idle => queues = committed.queues /\ items = committed.items /\ todo = << >>

OInv == IInv /\ IdleOK /\ (~ disturbed => Settled)

-----------------------------------------------------------------------------
(* The heap as numbers *)

\* Tables of which the order can be told.
Sound(q, its) ==
  /\ \A r \in its : /\ r.discriminator \in Discriminator
                    /\ q[r.discriminator].index \in Nat \cup {-1}
                    /\ QueuePriority(q, r) \in Nat
  /\ \A d, e \in Discriminator : q[d].index # -1 /\ q[d].index = q[e].index => d = e

LEMMA SoundTables ==
  ASSUME NEW q, NEW its, Rows(q), its \subseteq ItemRow, NEW n, HeapOf(q, n)
  PROVE  Sound(q, its)
<1>1. \A r \in its : /\ r.discriminator \in Discriminator
                     /\ q[r.discriminator].index \in Nat \cup {-1}
                     /\ r.priority \in Nat
  BY PriorityAssumption DEF Rows, QueueRow, ItemRow
<1>2. \A r \in its : QueuePriority(q, r) \in Nat
  BY <1>1, PriorityAssumption DEF QueuePriority
<1> QED
  BY <1>1, <1>2 DEF Sound, HeapOf

LEMMA SoundNow == IInv => Sound(queues, items) /\ Sound(committed.queues, committed.items)
<1> SUFFICES ASSUME IInv PROVE Sound(queues, items) /\ Sound(committed.queues, committed.items)
  OBVIOUS
<1>1. /\ Rows(queues) /\ items \subseteq ItemRow
      /\ Rows(committed.queues) /\ committed.items \subseteq ItemRow
  BY DEF IInv, TypeOK, Tables, Rows
<1> QED
  BY <1>1, SoundTables DEF IInv, TablesOK

LEMMA SoundNext == IInv' => Sound(queues', items')
<1> SUFFICES ASSUME IInv' PROVE Sound(queues', items')
  OBVIOUS
<1>1. Rows(queues') /\ items' \subseteq ItemRow
  BY DEF IInv, TypeOK, Rows
<1> QED
  BY <1>1, SoundTables DEF IInv, TablesOK

\* No queue is its own parent, and only present queues are parents.
LEMMA ParentIsAbove ==
  ASSUME NEW q, NEW its, Sound(q, its), NEW r \in its, NEW s \in its, IsParent(q, r, s)
  PROVE  /\ q[r.discriminator].index \in Nat /\ q[s.discriminator].index \in Nat
         /\ q[r.discriminator].index < q[s.discriminator].index
BY HalfIsLess DEF IsParent, Sound

\* A queue changes places with its parent.
LEMMA SwappedUp ==
  ASSUME NEW q, NEW p, NEW its, Sound(q, its), Sound(p, its),
         NEW m \in its, NEW e \in its, IsParent(q, e, m),
         p[m.discriminator].index = q[e.discriminator].index,
         p[e.discriminator].index = q[m.discriminator].index,
         \A d \in Discriminator \ {m.discriminator, e.discriminator} : p[d].index = q[d].index,
         \A r \in its : QueuePriority(p, r) = QueuePriority(q, r),
         QueuePriority(q, e) > QueuePriority(q, m),
         Rising(q, its, m.discriminator)
  PROVE  Rising(p, its, m.discriminator)
<1> DEFINE U(r) == QueuePriority(q, r)
<1>1. \A r \in its : U(r) \in Nat /\ QueuePriority(p, r) = U(r)
  BY DEF Sound
<1>2. \A r, s \in its : r.discriminator = s.discriminator => r = s
  BY DEF Rising, OneEach
<1>3. \A r, s \in its : IsParent(q, r, s) /\ s # m => U(r) <= U(s)
  BY <1>2 DEF Rising
<1>4. \A r, s \in its : IsParent(q, r, m) /\ IsParent(q, m, s) => U(r) <= U(s)
  BY DEF Rising, Bridged
<1>5. U(e) > U(m) /\ e # m
  BY ParentIsAbove
<1>6. \A r \in its : r # m /\ r # e => p[r.discriminator].index = q[r.discriminator].index
  BY <1>2 DEF Sound
<1>7. \A s \in its : IsParent(p, s, m) => IsParent(q, s, e)
  <2> SUFFICES ASSUME NEW s \in its, IsParent(p, s, m) PROVE IsParent(q, s, e)
    OBVIOUS
  <2>1. s # m /\ s # e
    <3>1. p[s.discriminator].index < q[e.discriminator].index
      BY ParentIsAbove
    <3>2. q[e.discriminator].index < q[m.discriminator].index
      BY ParentIsAbove
    <3>3. q[e.discriminator].index \in Nat /\ q[m.discriminator].index \in Nat
      BY ParentIsAbove
    <3> QED
      BY <3>1, <3>2, <3>3
  <2> QED
    BY <1>6, <2>1 DEF IsParent
<1>8. \A s \in its : IsParent(p, s, e) => s = m
  <2> SUFFICES ASSUME NEW s \in its, IsParent(p, s, e) PROVE s = m
    OBVIOUS
  <2>1. p[s.discriminator].index = p[m.discriminator].index
    BY DEF IsParent
  <2>2. p[s.discriminator].index # -1
    BY ParentIsAbove
  <2> QED
    BY <1>2, <2>1, <2>2 DEF Sound
<1>9. \A s \in its : IsParent(p, m, s) /\ s # e => IsParent(q, e, s)
  BY <1>6, ParentIsAbove DEF IsParent
<1>10. \A s \in its : IsParent(p, e, s) /\ s # m => IsParent(q, m, s)
  BY <1>6, ParentIsAbove DEF IsParent
<1>11. \A r, s \in its : IsParent(p, r, s) /\ r \notin {m, e} /\ s \notin {m, e} => IsParent(q, r, s)
  BY <1>6 DEF IsParent
<1>12. \A r \in its : ~ IsParent(p, r, r)
  BY ParentIsAbove
<1> HIDE DEF U
<1>13. ASSUME NEW r \in its, NEW s \in its, IsParent(p, r, s), s # m
       PROVE  U(r) <= U(s)
  <2>1. CASE s = e
    BY <1>1, <1>5, <1>8, <1>13, <2>1
  <2>2. CASE s # e /\ r = m
    <3>1. U(e) <= U(s)
      BY <1>3, <1>9, <1>13, <2>2
    <3> QED
      BY <1>1, <1>5, <2>2, <3>1
  <2>3. CASE s # e /\ r = e
    BY <1>4, <1>10, <1>13, <2>3
  <2>4. CASE s # e /\ r # e /\ r # m
    BY <1>3, <1>11, <1>13, <2>4
  <2> QED
    BY <2>1, <2>2, <2>3, <2>4
<1>14. ASSUME NEW r \in its, NEW s \in its, IsParent(p, r, m), IsParent(p, m, s)
       PROVE  U(r) <= U(s)
  <2>1. U(r) <= U(e)
    BY <1>3, <1>5, <1>7, <1>14
  <2>2. s # e => U(e) <= U(s)
    BY <1>3, <1>9, <1>12, <1>14
  <2> QED
    BY <1>1, <2>1, <2>2
<1>15. \A r, s \in its : IsParent(p, r, s) /\ s.discriminator # m.discriminator =>
         QueuePriority(p, r) <= QueuePriority(p, s)
  BY <1>1, <1>13
<1>16. Bridged(p, its, m.discriminator)
  BY <1>1, <1>2, <1>14 DEF Bridged
<1> QED
  BY <1>2, <1>15, <1>16 DEF Rising, OneEach

\* A queue changes places with the more urgent of its children.
LEMMA SwappedDown ==
  ASSUME NEW q, NEW p, NEW its, Sound(q, its), Sound(p, its),
         NEW m \in its, NEW e \in its, IsParent(q, m, e),
         p[m.discriminator].index = q[e.discriminator].index,
         p[e.discriminator].index = q[m.discriminator].index,
         \A d \in Discriminator \ {m.discriminator, e.discriminator} : p[d].index = q[d].index,
         \A r \in its : QueuePriority(p, r) = QueuePriority(q, r),
         QueuePriority(q, m) > QueuePriority(q, e),
         \A s \in its : IsParent(q, m, s) => QueuePriority(q, e) <= QueuePriority(q, s),
         Sinking(q, its, m.discriminator)
  PROVE  Sinking(p, its, m.discriminator)
<1> DEFINE U(r) == QueuePriority(q, r)
<1>1. \A r \in its : U(r) \in Nat /\ QueuePriority(p, r) = U(r)
  BY DEF Sound
<1>2. \A r, s \in its : r.discriminator = s.discriminator => r = s
  BY DEF Sinking, OneEach
<1>3. \A r, s \in its : IsParent(q, r, s) /\ r # m => U(r) <= U(s)
  BY <1>2 DEF Sinking
<1>4. \A r, s \in its : IsParent(q, r, m) /\ IsParent(q, m, s) => U(r) <= U(s)
  BY DEF Sinking, Bridged
<1>5. U(m) > U(e) /\ e # m /\ \A s \in its : IsParent(q, m, s) => U(e) <= U(s)
  BY ParentIsAbove
<1>6. \A r \in its : r # m /\ r # e => p[r.discriminator].index = q[r.discriminator].index
  BY <1>2 DEF Sound
<1>7. \A s \in its : IsParent(p, s, m) => s = e
  <2> SUFFICES ASSUME NEW s \in its, IsParent(p, s, m) PROVE s = e
    OBVIOUS
  <2>1. p[s.discriminator].index = p[e.discriminator].index
    BY DEF IsParent
  <2>2. p[s.discriminator].index # -1
    BY ParentIsAbove
  <2> QED
    BY <1>2, <2>1, <2>2 DEF Sound
<1>8. \A s \in its : IsParent(p, s, e) => IsParent(q, s, m)
  <2> SUFFICES ASSUME NEW s \in its, IsParent(p, s, e) PROVE IsParent(q, s, m)
    OBVIOUS
  <2>1. s # m /\ s # e
    <3>1. p[s.discriminator].index < q[m.discriminator].index
      BY ParentIsAbove
    <3>2. q[m.discriminator].index < q[e.discriminator].index
      BY ParentIsAbove
    <3>3. q[e.discriminator].index \in Nat /\ q[m.discriminator].index \in Nat
      BY ParentIsAbove
    <3>4. p[s.discriminator].index \in Nat
      BY ParentIsAbove
    <3> QED
      BY <3>1, <3>2, <3>3, <3>4
  <2> QED
    BY <1>6, <2>1 DEF IsParent
<1>9. \A s \in its : IsParent(p, m, s) => s # e /\ s # m /\ IsParent(q, e, s)
  <2> SUFFICES ASSUME NEW s \in its, IsParent(p, m, s) PROVE s # e /\ s # m /\ IsParent(q, e, s)
    OBVIOUS
  <2>1. q[m.discriminator].index < q[e.discriminator].index
    BY ParentIsAbove
  <2>2. q[e.discriminator].index \in Nat /\ q[m.discriminator].index \in Nat
    BY ParentIsAbove
  <2>3. q[e.discriminator].index < p[s.discriminator].index
    BY ParentIsAbove
  <2>4. s # e /\ s # m
    BY <2>1, <2>2, <2>3
  <2> QED
    BY <1>6, <2>4 DEF IsParent
<1>10. \A s \in its : IsParent(p, e, s) /\ s # m => s # e /\ IsParent(q, m, s)
  BY <1>6, ParentIsAbove DEF IsParent
<1>11. \A r, s \in its : IsParent(p, r, s) /\ r \notin {m, e} /\ s \notin {m, e} => IsParent(q, r, s)
  BY <1>6 DEF IsParent
<1> HIDE DEF U
<1>12. ASSUME NEW r \in its, NEW s \in its, IsParent(p, r, s), r # m
       PROVE  U(r) <= U(s)
  <2>1. CASE r = e /\ s = m
    BY <1>1, <1>5, <2>1
  <2>2. CASE r = e /\ s # m
    BY <1>5, <1>10, <1>12, <2>2
  <2>3. CASE r # e /\ s = e
    <3>1. IsParent(q, r, m)
      BY <1>8, <1>12, <2>3
    <3> QED
      BY <1>4, <2>3, <3>1
  <2>4. CASE r # e /\ s # e /\ s # m
    BY <1>3, <1>11, <1>12, <2>4
  <2> QED
    BY <1>7, <1>12, <2>1, <2>2, <2>3, <2>4
<1>13. ASSUME NEW r \in its, NEW s \in its, IsParent(p, r, m), IsParent(p, m, s)
       PROVE  U(r) <= U(s)
  BY <1>3, <1>5, <1>7, <1>9, <1>13
<1>14. \A r, s \in its : IsParent(p, r, s) /\ r.discriminator # m.discriminator =>
         QueuePriority(p, r) <= QueuePriority(p, s)
  BY <1>1, <1>12
<1>15. Bridged(p, its, m.discriminator)
  BY <1>1, <1>2, <1>13 DEF Bridged
<1> QED
  BY <1>2, <1>14, <1>15 DEF Sinking, OneEach

\* A queue that is not more urgent than its parent has risen far enough.
LEMMA Risen ==
  ASSUME NEW q, NEW its, NEW d, Rising(q, its, d),
         \A r, m \in its : m.discriminator = d /\ IsParent(q, r, m) =>
           QueuePriority(q, r) <= QueuePriority(q, m)
  PROVE  InOrder(q, its)
BY DEF Rising, InOrder

\* A queue that is not less urgent than its children has sunk far enough.
LEMMA Sunk ==
  ASSUME NEW q, NEW its, NEW d, Sinking(q, its, d),
         \A m, s \in its : m.discriminator = d /\ IsParent(q, m, s) =>
           QueuePriority(q, m) <= QueuePriority(q, s)
  PROVE  InOrder(q, its)
BY DEF Sinking, InOrder

\* Where no queue moves and no priority changes, the order stays.
LEMMA Unmoved ==
  ASSUME NEW q, NEW p, NEW its,
         \A r \in its : /\ p[r.discriminator].index = q[r.discriminator].index
                        /\ QueuePriority(p, r) = QueuePriority(q, r)
  PROVE  /\ InOrder(q, its) => InOrder(p, its)
         /\ \A d : Rising(q, its, d) => Rising(p, its, d)
         /\ \A d : Sinking(q, its, d) => Sinking(p, its, d)
<1>1. \A r, s \in its : IsParent(p, r, s) <=> IsParent(q, r, s)
  BY DEF IsParent
<1> QED
  BY <1>1 DEF InOrder, Rising, Sinking, Bridged

\* A queue that is locked has to sink.
LEMMA Weighed ==
  ASSUME NEW q, NEW p, NEW its, Sound(q, its), Sound(p, its), NEW d,
         \A r \in its : p[r.discriminator].index = q[r.discriminator].index,
         \A r \in its : r.discriminator # d => QueuePriority(p, r) = QueuePriority(q, r),
         \A r \in its : r.discriminator = d => QueuePriority(p, r) >= QueuePriority(q, r),
         InOrder(q, its)
  PROVE  Sinking(p, its, d)
<1>1. \A r, s \in its : IsParent(p, r, s) <=> IsParent(q, r, s)
  BY DEF IsParent
<1>2. \A r \in its : QueuePriority(p, r) \in Nat /\ QueuePriority(q, r) \in Nat
  BY DEF Sound
<1>3. ASSUME NEW r \in its, NEW s \in its, IsParent(p, r, s), r.discriminator # d
      PROVE  QueuePriority(p, r) <= QueuePriority(p, s)
  <2>1. QueuePriority(q, r) <= QueuePriority(q, s)
    BY <1>1, <1>3 DEF InOrder
  <2>2. QueuePriority(q, s) <= QueuePriority(p, s)
    BY <1>2
  <2> QED
    BY <1>2, <1>3, <2>1, <2>2
<1>4. ASSUME NEW r \in its, NEW m \in its, NEW s \in its, m.discriminator = d,
             IsParent(p, r, m), IsParent(p, m, s)
      PROVE  QueuePriority(p, r) <= QueuePriority(p, s)
  <2>1. r.discriminator # d /\ s.discriminator # d
    BY <1>4, ParentIsAbove
  <2>2. QueuePriority(q, r) <= QueuePriority(q, m) /\ QueuePriority(q, m) <= QueuePriority(q, s)
    BY <1>1, <1>4 DEF InOrder
  <2> QED
    BY <1>2, <2>1, <2>2
<1>5. Bridged(p, its, d)
  BY <1>4 DEF Bridged
<1> QED
  BY <1>3, <1>5 DEF Sinking, InOrder

\* A new queue comes last, and has to rise.
LEMMA Appended ==
  ASSUME NEW q, NEW p, NEW its, NEW new, Sound(p, its \cup {new}), OneEach(its \cup {new}),
         NEW n \in Nat, p[new.discriminator].index = n,
         \A r \in its : q[r.discriminator].index < n,
         \A r \in its : r.discriminator # new.discriminator =>
           /\ p[r.discriminator].index = q[r.discriminator].index
           /\ QueuePriority(p, r) = QueuePriority(q, r),
         InOrder(q, its)
  PROVE  Rising(p, its \cup {new}, new.discriminator)
<1> DEFINE all == its \cup {new}
<1>1. \A r \in all : r.discriminator = new.discriminator => r = new
  BY DEF OneEach
<1>2. \A s \in all : ~ IsParent(p, new, s)
  <2> SUFFICES ASSUME NEW s \in all, IsParent(p, new, s) PROVE FALSE
    OBVIOUS
  <2>1. n < p[s.discriminator].index
    BY ParentIsAbove
  <2>2. s # new
    BY <2>1
  <2>3. p[s.discriminator].index < n
    BY <1>1, <2>2
  <2>4. p[s.discriminator].index \in Nat
    BY ParentIsAbove
  <2> QED
    BY <2>1, <2>3, <2>4
<1>3. ASSUME NEW r \in all, NEW s \in all, IsParent(p, r, s), s.discriminator # new.discriminator
      PROVE  QueuePriority(p, r) <= QueuePriority(p, s)
  <2>1. r # new /\ s # new
    BY <1>2, <1>3
  <2>2. IsParent(q, r, s)
    BY <1>1, <1>3, <2>1 DEF IsParent
  <2> QED
    BY <1>1, <2>1, <2>2 DEF InOrder
<1>4. Bridged(p, all, new.discriminator)
  BY <1>1, <1>2 DEF Bridged
<1> QED
  BY <1>3, <1>4 DEF Rising

\* A queue goes, and whatever queue m takes its place has to sink, unless it is
\* more urgent than its new parent.
LEMMA Filled ==
  ASSUME NEW q, NEW p, NEW its, Sound(q, its), Sound(p, its),
         NEW d \in Discriminator, NEW m \in Discriminator \ {d}, NEW x \in its, x.discriminator = d,
         q[d].index # -1, p[d].index = -1, p[m].index = q[d].index,
         \A e \in Discriminator \ {d, m} : p[e].index = q[e].index,
         \A r \in its : r.discriminator # d => QueuePriority(p, r) = QueuePriority(q, r),
         InOrder(q, its),
         \A r, s \in its : s.discriminator = m /\ IsParent(p, r, s) =>
           QueuePriority(p, r) <= QueuePriority(p, s)
  PROVE  Sinking(p, its, m)
<1>1. \A r \in its : QueuePriority(p, r) \in Nat /\ QueuePriority(q, r) \in Nat /\ r.discriminator \in Discriminator
  BY DEF Sound
<1>2. \A r, s \in its : IsParent(p, r, s) => r.discriminator # d /\ s.discriminator # d /\ r.discriminator # s.discriminator
  BY ParentIsAbove
<1>3. \A r, s \in its : IsParent(p, r, s) /\ r.discriminator # m /\ s.discriminator # m => IsParent(q, r, s)
  BY <1>1, <1>2 DEF IsParent
<1>4. ASSUME NEW r \in its, NEW s \in its, IsParent(p, r, s), r.discriminator # m
      PROVE  QueuePriority(p, r) <= QueuePriority(p, s)
  <2>1. CASE s.discriminator = m
    BY <1>4, <2>1
  <2>2. CASE s.discriminator # m
    BY <1>2, <1>3, <1>4, <2>2 DEF InOrder
  <2> QED
    BY <2>1, <2>2
<1>5. ASSUME NEW r \in its, NEW y \in its, NEW s \in its, y.discriminator = m,
             IsParent(p, r, y), IsParent(p, y, s)
      PROVE  QueuePriority(p, r) <= QueuePriority(p, s)
  <2>1. r.discriminator \notin {d, m} /\ s.discriminator \notin {d, m}
    BY <1>2, <1>5
  <2>2. IsParent(q, r, x) /\ IsParent(q, x, s)
    BY <1>1, <1>5, <2>1 DEF IsParent
  <2>3. QueuePriority(q, r) <= QueuePriority(q, x) /\ QueuePriority(q, x) <= QueuePriority(q, s)
    BY <2>2 DEF InOrder
  <2> QED
    BY <1>1, <2>1, <2>3
<1>6. Bridged(p, its, m)
  BY <1>5 DEF Bridged
<1> QED
  BY <1>4, <1>6 DEF Sinking, InOrder

\* The last queue goes.
LEMMA Shortened ==
  ASSUME NEW q, NEW p, NEW its, Sound(q, its), Sound(p, its), NEW d \in Discriminator,
         p[d].index = -1, \A e \in Discriminator \ {d} : p[e].index = q[e].index,
         \A r \in its : r.discriminator # d => QueuePriority(p, r) = QueuePriority(q, r),
         InOrder(q, its)
  PROVE  InOrder(p, its)
<1>1. \A r \in its : r.discriminator \in Discriminator
  BY DEF Sound
<1>2. \A r, s \in its : IsParent(p, r, s) => r.discriminator # d /\ s.discriminator # d
  BY ParentIsAbove
<1>3. \A r, s \in its : IsParent(p, r, s) => IsParent(q, r, s)
  BY <1>1, <1>2 DEF IsParent
<1> QED
  BY <1>2, <1>3 DEF InOrder

\* Fewer items, none moved, are in order as well.
LEMMA Fewer ==
  ASSUME NEW q, NEW its, NEW some \in SUBSET its
  PROVE  /\ InOrder(q, its) => InOrder(q, some)
         /\ \A d : Sinking(q, its, d) => Sinking(q, some, d)
BY DEF InOrder, OneEach, Sinking, Bridged

-----------------------------------------------------------------------------
(* One item in each queue *)

\* What is left to do, as a sequence.
\* The only item of a queue is its first, and a present queue has one.
LEMMA Single ==
  ASSUME IInv, OneEach(items)
  PROVE  /\ \A r \in items : r.indexInQueue = 0
         /\ \A d \in Discriminator : Present(d) => \E r \in items : r.discriminator = d
<1>1. \A r \in items : r.indexInQueue \in Nat /\ r.discriminator \in Discriminator
  BY DEF IInv, TypeOK, ItemRow
<1>2. ASSUME NEW r \in items PROVE r.indexInQueue = 0
  <2>1. PICK n \in Nat : Numbered(RowsOf(items, r.discriminator), n)
    BY <1>1 DEF IInv, TablesOK
  <2>2. r.indexInQueue < n
    BY <2>1 DEF Numbered, RowsOf
  <2>3. 0 \in 0..(n - 1)
    BY <1>1, <2>2
  <2>4. PICK s \in RowsOf(items, r.discriminator) : s.indexInQueue = 0
    BY <2>1, <2>3 DEF Numbered
  <2> QED
    BY <2>4 DEF RowsOf, OneEach
<1> QED
  BY <1>2 DEF IInv, TablesOK, Present, RowsOf

\* The queues below that of m, and the one repairDown compares it with.
LEMMA ChildIs ==
  ASSUME IInv, OneEach(items), NEW m \in items, NEW s \in items, IsParent(queues, m, s)
  PROVE  \/ s \in AtIndex(2 * queues[m.discriminator].index + 1)
         \/ /\ s \in AtIndex(2 * queues[m.discriminator].index + 2)
            /\ AtIndex(2 * queues[m.discriminator].index + 1) # {}
<1> DEFINE i == queues[m.discriminator].index
           k == queues[s.discriminator].index
<1>1. k \in Nat /\ k > 0 /\ i = (k - 1) \div 2 /\ i \in Nat
  BY SoundNow, ParentIsAbove DEF IsParent
<1> HIDE DEF i, k
<1>2. k = 2 * i + 1 \/ k = 2 * i + 2
  BY <1>1
<1> USE DEF i, k
<1>3. k = 2 * i + 1 => s \in AtIndex(2 * i + 1)
  BY Single DEF AtIndex
<1>4. k = 2 * i + 2 => s \in AtIndex(2 * i + 2)
  BY Single DEF AtIndex
<1>5. ASSUME k = 2 * i + 2 PROVE AtIndex(2 * i + 1) # {}
  <2>1. PICK n \in Nat : HeapOf(queues, n)
    BY DEF IInv, TablesOK
  <2>2. k < n
    BY <2>1, SoundNow DEF HeapOf, Sound
  <2>3. 2 * i + 1 \in 0..(n - 1)
    BY <1>1, <1>5, <2>2
  <2>4. PICK d \in Discriminator : queues[d].index = 2 * i + 1
    BY <2>1, <2>3 DEF HeapOf
  <2>5. Present(d)
    BY <1>1, <2>4 DEF Present
  <2> QED
    BY <2>4, <2>5, Single DEF AtIndex
<1> QED
  BY <1>2, <1>3, <1>4, <1>5

LEMMA AtMostOne ==
  ASSUME IInv, OneEach(items), NEW n \in Nat, NEW r \in AtIndex(n), NEW s \in AtIndex(n)
  PROVE  r = s
BY SoundNow DEF AtIndex, OneEach, Sound

LEMMA SmallerChildIs ==
  ASSUME IInv, OneEach(items), NEW m \in items, Present(m.discriminator)
  PROVE  /\ \A c \in SmallerChild(m.discriminator) :
              /\ c \in items /\ IsParent(queues, m, c)
              /\ \A s \in items : IsParent(queues, m, s) =>
                   QueuePriority(queues, c) <= QueuePriority(queues, s)
         /\ \A s \in items : IsParent(queues, m, s) => SmallerChild(m.discriminator) # {}
<1> DEFINE d == m.discriminator
           i == queues[d].index
           left == AtIndex(2 * i + 1)
           right == AtIndex(2 * i + 2)
           U(r) == QueuePriority(queues, r)
<1>1. i \in Nat
  BY SoundNow DEF Present, Sound
<1>2. /\ \A r \in left : r \in items /\ queues[r.discriminator].index = 2 * i + 1
      /\ \A r \in right : r \in items /\ queues[r.discriminator].index = 2 * i + 2
  BY DEF AtIndex
<1>3. \A r \in left \cup right : r \in items /\ IsParent(queues, m, r)
  BY <1>1, <1>2 DEF IsParent
<1>4. \A r \in items : U(r) \in Nat /\ U(r) = GetPriority(r.discriminator, r.priority)
  BY SoundNow DEF Sound, QueuePriority, GetPriority, Locked
<1>5. /\ \A r, s \in left : r = s
      /\ \A r, s \in right : r = s
  BY <1>1, AtMostOne
<1>6. \A s \in items : IsParent(queues, m, s) => left # {} /\ s \in left \cup right
  BY ChildIs
<1>7. SmallerChild(d) =
        IF left = {} THEN {}
        ELSE {q \in left : \A s \in right : U(q) <= U(s)} \cup
             {s \in right : \A q \in left : U(s) < U(q)}
  BY <1>2, <1>4 DEF SmallerChild
<1> HIDE DEF left, right, U, d
<1>8. ASSUME NEW c \in SmallerChild(d), NEW s \in left \cup right PROVE U(c) <= U(s)
  <2>1. c \in left \cup right /\ U(c) \in Nat /\ U(s) \in Nat
    BY <1>3, <1>4, <1>7, <1>8
  <2>2. CASE c \in left /\ \A r \in right : U(c) <= U(r)
    BY <1>5, <1>8, <2>1, <2>2
  <2>3. CASE c \in right /\ \A r \in left : U(c) < U(r)
    BY <1>5, <1>8, <2>1, <2>3
  <2> QED
    BY <1>7, <1>8, <2>2, <2>3
<1>9. ASSUME left # {} PROVE SmallerChild(d) # {}
  <2>1. PICK l \in left : TRUE
    BY <1>9
  <2>2. CASE \A r \in right : U(l) <= U(r)
    BY <1>7, <2>1, <2>2
  <2>3. CASE \E r \in right : ~ (U(l) <= U(r))
    <3>1. PICK r \in right : ~ (U(l) <= U(r))
      BY <2>3
    <3>2. U(r) < U(l)
      BY <1>3, <1>4, <2>1, <3>1
    <3> QED
      BY <1>5, <1>7, <2>1, <3>1, <3>2
  <2> QED
    BY <2>2, <2>3
<1>10. SmallerChild(d) \subseteq left \cup right
  BY <1>7
<1> QED
  BY <1>3, <1>6, <1>8, <1>9, <1>10 DEF d, U

-----------------------------------------------------------------------------
(* Calls *)

\* What is left to do tells how far the call is.
LEMMA WhatIsLeft ==
  ASSUME Settling
  PROVE  /\ todo = << >> => InOrder(queues, items)
         /\ todo # << >> /\ Head(todo).do = "enqueue" =>
              Tail(todo) = << >> /\ InOrder(queues, items)
         /\ todo # << >> /\ Head(todo).do = "repairUp" =>
              LET d == Head(todo).discriminator
              IN  /\ d \in Discriminator /\ Present(d) /\ Rising(queues, items, d)
                  /\ todo = <<Up(d)>> /\ Tail(todo) = << >>
         /\ todo # << >> /\ Head(todo).do = "repairDown" =>
              LET d == Head(todo).discriminator
              IN  /\ d \in Discriminator /\ Present(d) /\ Sinking(queues, items, d)
                  /\ \/ todo = <<Down(d)>> /\ Tail(todo) = << >>
                     \/ \E i \in Item, p \in Priority :
                          todo = <<Down(d), Enqueueing(i, p)>> /\ Tail(todo) = <<Enqueueing(i, p)>>
<1>1. /\ \A d \in Discriminator : Up(d) \in Task /\ Down(d) \in Task
      /\ \A i \in Item, p \in Priority : Enqueueing(i, p) \in Task
  BY TaskTypes
<1>2. CASE todo = << >> /\ InOrder(queues, items)
  BY <1>2
<1>3. ASSUME NEW i \in Item, NEW p \in Priority, todo = <<Enqueueing(i, p)>>, InOrder(queues, items)
      PROVE  /\ todo # << >> /\ Head(todo).do = "enqueue" /\ Tail(todo) = << >>
  BY <1>1, <1>3, Tasks, WhatTasksDo
<1>4. ASSUME NEW d \in Discriminator, todo = <<Up(d)>>, Present(d), Rising(queues, items, d)
      PROVE  /\ todo # << >> /\ Head(todo).do = "repairUp" /\ Tail(todo) = << >>
             /\ Head(todo).discriminator = d
  BY <1>1, <1>4, Tasks, WhatTasksDo
<1>5. ASSUME NEW d \in Discriminator, todo = <<Down(d)>>
      PROVE  /\ todo # << >> /\ Head(todo).do = "repairDown" /\ Tail(todo) = << >>
             /\ Head(todo).discriminator = d
  BY <1>1, <1>5, Tasks, WhatTasksDo
<1>6. ASSUME NEW d \in Discriminator, NEW i \in Item, NEW p \in Priority,
             todo = <<Down(d), Enqueueing(i, p)>>
      PROVE  /\ todo # << >> /\ Head(todo).do = "repairDown"
             /\ Tail(todo) = <<Enqueueing(i, p)>> /\ Head(todo).discriminator = d
  BY <1>1, <1>6, Tasks, WhatTasksDo
<1>7. CASE \E i \in Item, p \in Priority : todo = <<Enqueueing(i, p)>> /\ InOrder(queues, items)
  BY <1>3, <1>7
<1>8. CASE \E d \in Discriminator : todo = <<Up(d)>> /\ Present(d) /\ Rising(queues, items, d)
  BY <1>4, <1>8
<1>9. CASE \E d \in Discriminator :
             /\ \/ todo = <<Down(d)>>
                \/ \E i \in Item, p \in Priority : todo = <<Down(d), Enqueueing(i, p)>>
             /\ Present(d) /\ Sinking(queues, items, d)
  BY <1>5, <1>6, <1>9
<1> QED
  BY <1>2, <1>7, <1>8, <1>9 DEF Settling

\* Nothing happens that no repair makes up for.
Undisturbed == ~ disturbed /\ ~ LockExpires /\ ~ MovedTooLow /\ OneEach(items')

LEMMA NotIdle == todo # << >> /\ IdleOK => ~ Idle
BY DEF IdleOK

LEMMA IdleInOrder ==
  ASSUME OInv, Idle, ~ disturbed
  PROVE  InOrder(queues, items) /\ InOrder(committed.queues, committed.items)
BY WhatIsLeft DEF OInv, IdleOK, Settled

LEMMA EnqueueOrder ==
  ASSUME OInv, Undisturbed, NEW i \in Item, Enqueue(i)
  PROVE  Settled'
<1>1. InOrder(queues, items) /\ InOrder(committed.queues, committed.items)
  BY IdleInOrder DEF Enqueue, Undisturbed
<1>2. PriorityOf[i] \in Priority
  BY ItemsAssumption
<1> QED
  BY <1>1, <1>2 DEF Enqueue, tables, Settled, Settling

\* A queue is locked, or its lock renewed.
LEMMA LockedOrder ==
  ASSUME IInv, IInv', InOrder(queues, items), UNCHANGED items,
         NEW d \in Discriminator, Present(d), NEW t,
         \/ queues' = [queues EXCEPT ![d].token = t, ![d].ttl = ExpirationTime]
         \/ queues' = [queues EXCEPT ![d].ttl = ExpirationTime],
         todo' = <<Down(d)>>
  PROVE  Settling'
<1>1. Rows(queues)
  BY DEF IInv, TypeOK, Rows
<1>2. queues[d] \in QueueRow
  BY <1>1 DEF Rows
<1>3. /\ \A e \in Discriminator \ {d} : queues'[e] = queues[e]
      /\ queues'[d].index = queues[d].index /\ queues'[d].ttl = ExpirationTime
  BY <1>1, <1>2 DEF Rows, QueueRow
<1>4. Sound(queues, items) /\ Sound(queues', items)
  BY SoundNow, SoundNext
<1>5. \A r \in items : /\ r.discriminator \in Discriminator
                       /\ r.priority \in Nat /\ MaxSafeInteger \in Nat /\ r.priority < MaxSafeInteger
  BY PriorityAssumption DEF IInv, TypeOK, ItemRow
<1>6. ExpirationTime > 0
  BY LockAssumption
<1>7. \A r \in items : r.discriminator = d => QueuePriority(queues', r) >= QueuePriority(queues, r)
  BY <1>3, <1>5, <1>6 DEF QueuePriority
<1>8. \A r \in items : r.discriminator # d => QueuePriority(queues', r) = QueuePriority(queues, r)
  BY <1>3, <1>5 DEF QueuePriority
<1>9. \A r \in items : queues'[r.discriminator].index = queues[r.discriminator].index
  BY <1>3, <1>5
<1>10. Sinking(queues', items, d)
  BY <1>4, <1>7, <1>8, <1>9, Weighed
<1>11. Present(d)'
  BY <1>3 DEF Present
<1> QED
  BY <1>10, <1>11 DEF Settling

LEMMA LockNextOrder ==
  ASSUME OInv, IInv', Undisturbed, LockNext
  PROVE  Settled'
<1>1. InOrder(queues, items) /\ InOrder(committed.queues, committed.items)
  BY IdleInOrder DEF LockNext, Undisturbed
<1>2. PICK d \in Discriminator, t \in FreshTokens :
        /\ Present(d)
        /\ queues' = [queues EXCEPT ![d].token = t, ![d].ttl = ExpirationTime]
        /\ todo' = <<Down(d)>>
  BY DEF LockNext
<1>3. UNCHANGED <<items, committed>>
  BY DEF LockNext
<1>4. Settling'
  BY <1>1, <1>2, <1>3, LockedOrder DEF OInv
<1> QED
  BY <1>1, <1>3, <1>4 DEF Settled

LEMMA RenewLockOrder ==
  ASSUME OInv, IInv', Undisturbed, NEW h \in holders, RenewLock(h)
  PROVE  Settled'
<1>1. InOrder(queues, items) /\ InOrder(committed.queues, committed.items)
  BY IdleInOrder DEF RenewLock, Undisturbed
<1>2. /\ h.discriminator \in Discriminator /\ Present(h.discriminator)
      /\ queues' = [queues EXCEPT ![h.discriminator].ttl = ExpirationTime]
      /\ todo' = <<Down(h.discriminator)>>
      /\ UNCHANGED <<items, committed>>
  BY DEF RenewLock, HoldsLock, OInv, IInv, TypeOK, Holder
<1>3. Settling'
  BY <1>1, <1>2, LockedOrder DEF OInv
<1> QED
  BY <1>1, <1>2, <1>3 DEF Settled

\* A queue goes, with its item or without.
LEMMA QueueGone ==
  ASSUME IInv, IInv', InOrder(queues, items), Undisturbed, Idle, ~ Idle',
         NEW d \in Discriminator, Present(d),
         items' \subseteq items, \A r \in items : r.discriminator # d => r \in items',
         NEW after, RemoveQueue(d, after),
         after = << >> \/ \E i \in Item, p \in Priority : after = <<Enqueueing(i, p)>>
  PROVE  Settling'
<1>1. Rows(queues) /\ items \subseteq ItemRow
  BY DEF IInv, TypeOK, Rows
<1>2. PICK n \in Nat : HeapOf(queues, n)
  BY DEF IInv, TablesOK
<1>3. /\ Rows(queues') /\ HeapOf(queues', n - 1) /\ queues'[d] = Absent
      /\ \A e \in Discriminator \ {d} : queues'[e] = [queues[e] EXCEPT !.index = queues'[e].index]
  BY <1>1, <1>2, Removed
<1>4. Sound(queues, items) /\ Sound(queues', items)
  BY <1>1, <1>3, SoundNow, SoundTables
<1>5. \A e \in Discriminator \ {d} : queues'[e].ttl = queues[e].ttl
  <2>1. \A e \in Discriminator : queues[e] \in QueueRow
    BY <1>1 DEF Rows
  <2>2. \A row \in QueueRow : \A k : [row EXCEPT !.index = k].ttl = row.ttl
    BY DEF QueueRow
  <2> QED
    BY <1>3, <2>1, <2>2
<1>6. \A r \in items : r.discriminator # d => QueuePriority(queues', r) = QueuePriority(queues, r)
  BY <1>1, <1>5 DEF QueuePriority, ItemRow
<1>7. queues'[d].index = -1 /\ queues[d].index # -1
  BY <1>3 DEF Absent, Present
<1>8. CASE queues' = [queues EXCEPT ![d] = Absent] /\ todo' = after
  <2>1. \A e \in Discriminator \ {d} : queues'[e].index = queues[e].index
    BY <1>1, <1>8 DEF Rows
  <2>2. InOrder(queues', items)
    BY <1>4, <1>6, <1>7, <2>1, Shortened
  <2>3. InOrder(queues', items')
    BY <2>2, Fewer
  <2> QED
    BY <1>8, <2>3 DEF Settling
<1>9. ASSUME NEW m \in Discriminator \ {d},
             queues' = [queues EXCEPT ![d] = Absent, ![m].index = queues[d].index],
             todo' = <<Down(m)>> \o after
      PROVE  Settling'
  <2>1. \A e \in Discriminator \ {d, m} : queues'[e].index = queues[e].index
    BY <1>1, <1>9 DEF Rows
  <2>2. queues'[m].index = queues[d].index
    <3>1. queues[m] \in QueueRow
      BY <1>1 DEF Rows
    <3>2. queues'[m] = [queues[m] EXCEPT !.index = queues[d].index]
      BY <1>1, <1>9 DEF Rows
    <3> QED
      BY <3>1, <3>2 DEF QueueRow
  <2>3. /\ \/ todo' = <<Down(m)>>
           \/ \E i \in Item, p \in Priority : todo' = <<Down(m), Enqueueing(i, p)>>
        /\ todo' # << >> /\ Head(todo') = Down(m)
    <3>1. CASE after = << >>
      BY <1>9, <3>1, Tasks, TaskTypes
    <3>2. CASE \E i \in Item, p \in Priority : after = <<Enqueueing(i, p)>>
      <4>1. PICK i \in Item, p \in Priority : after = <<Enqueueing(i, p)>>
        BY <3>2
      <4>2. Down(m) \in Task /\ Enqueueing(i, p) \in Task
        BY TaskTypes
      <4> QED
        BY <1>9, <4>1, <4>2, Tasks
    <3> QED
      BY <3>1, <3>2
  <2>4. ASSUME NEW r \in items, NEW s \in items, s.discriminator = m, IsParent(queues', r, s)
        PROVE  QueuePriority(queues', r) <= QueuePriority(queues', s)
    <3>1. r.discriminator # d /\ s.discriminator # d
      BY <1>4, <1>7, <2>4, ParentIsAbove
    <3>2. r \in items' /\ s \in items'
      BY <3>1
    <3>3. ~ (QueuePriority(queues', r) > QueuePriority(queues', s))
      BY <2>3, <2>4, <3>2 DEF Undisturbed, MovedTooLow
    <3> QED
      BY <1>4, <3>3 DEF Sound
  <2>5. PICK x \in items : x.discriminator = d
    BY Single DEF InOrder
  <2>6. Sinking(queues', items, m)
    BY <1>4, <1>6, <1>7, <2>1, <2>2, <2>4, <2>5, Filled
  <2>7. Sinking(queues', items', m) /\ Present(m)'
    BY <1>7, <2>2, <2>6, Fewer DEF Present
  <2> QED
    BY <2>3, <2>7 DEF Settling
<1> QED
  BY <1>8, <1>9 DEF RemoveQueue

\* The queue of an item that is alone goes with it.
LEMMA TakeFirstOrder ==
  ASSUME OInv, IInv', Undisturbed, NEW h \in holders, NEW op \in {"acknowledge", "defer"},
         NEW after, TakeFirst(h, op, after),
         after = << >> \/ \E i \in Item, p \in Priority : after = <<Enqueueing(i, p)>>
  PROVE  Settled'
<1> DEFINE d == h.discriminator
<1>1. /\ Idle /\ Present(d) /\ d \in Discriminator /\ items' = WithoutItem(d, 0)
      /\ UNCHANGED committed /\ items \subseteq ItemRow
  BY DEF TakeFirst, HoldsLock, OInv, IInv, TypeOK, Holder
<1>2. ~ Idle'
  BY DEF TakeFirst, Idle, NoCall
<1>3. /\ \/ \E r \in items' : r.discriminator = d
         \/ RemoveQueue(d, after)
  BY DEF TakeFirst
<1> HIDE DEF d
<1>4. InOrder(queues, items) /\ InOrder(committed.queues, committed.items) /\ OneEach(items)
  BY <1>1, IdleInOrder DEF Undisturbed, InOrder
<1>5. \A r \in ItemsOf(d) : r.indexInQueue = 0
  BY <1>4, Single DEF ItemsOf, OInv
<1>6. items' = items \ ItemsOf(d)
  BY <1>1, <1>5 DEF WithoutItem
<1>7. /\ items' \subseteq items /\ \A r \in items : r.discriminator # d => r \in items'
      /\ \A r \in items' : r.discriminator # d
  BY <1>6 DEF ItemsOf
<1>8. Settling'
  BY <1>1, <1>2, <1>3, <1>4, <1>7, QueueGone DEF OInv
<1> QED
  BY <1>1, <1>4, <1>8 DEF Settled

LEMMA RemoveOrder ==
  ASSUME OInv, IInv', Undisturbed, NEW i \in Item, Remove(i)
  PROVE  Settled'
<1>1. Idle /\ UNCHANGED committed /\ ~ Idle'
  BY DEF Remove, Idle, NoCall
<1>2. InOrder(queues, items) /\ InOrder(committed.queues, committed.items) /\ OneEach(items)
  BY <1>1, IdleInOrder DEF Undisturbed, InOrder
<1>3. PICK r \in items :
        /\ Present(r.discriminator)
        /\ \/ RemoveQueue(r.discriminator, << >>) /\ UNCHANGED items
           \/ ItemsOf(r.discriminator) # {r}
           \/ r.indexInQueue # 0
  BY DEF Remove
<1>4. ItemsOf(r.discriminator) = {r} /\ r.indexInQueue = 0
  BY <1>2, Single DEF OInv, OneEach, ItemsOf
<1>5. r.discriminator \in Discriminator
  BY DEF OInv, IInv, TypeOK, ItemRow
<1>6. Settling'
  BY <1>1, <1>2, <1>3, <1>4, <1>5, QueueGone DEF OInv
<1> QED
  BY <1>1, <1>2, <1>6 DEF Settled

-----------------------------------------------------------------------------
(* What a call does next *)

LEMMA EnqueueInternalOrder ==
  ASSUME OInv, IInv', Undisturbed, EnqueueInternal, UNCHANGED home
  PROVE  Settled'
<1> DEFINE i == Head(todo).item
           d == home[i]
           new == [discriminator |-> d, indexInQueue |-> NextIndexInQueue(d),
                   priority |-> Head(todo).priority, item |-> i]
<1>1. /\ todo # << >> /\ Head(todo).do = "enqueue" /\ Tail(todo) = << >>
      /\ InOrder(queues, items) /\ InOrder(committed.queues, committed.items)
      /\ Head(todo) \in Task
  BY WhatIsLeft, TodoTypes DEF EnqueueInternal, OInv, Undisturbed, Settled, IInv, TypeOK
<1>2. d \in Discriminator
  BY <1>1, TaskTypes DEF OInv, IInv, TypeOK
<1>3. /\ items' = items \cup {new} /\ UNCHANGED committed
      /\ \/ Present(d)
         \/ /\ ~ Present(d)
            /\ queues' = [queues EXCEPT ![d] = [Absent EXCEPT !.index = NextIndexInPriorityQueue]]
            /\ todo' = <<Up(d)>> \o Tail(todo)
  BY DEF EnqueueInternal
<1>4. items \subseteq ItemRow /\ Rows(queues) /\ OneEach(items)
  BY <1>1 DEF OInv, IInv, TypeOK, Rows, InOrder
<1>5. new.discriminator = d /\ new.indexInQueue = NextIndexInQueue(d)
  OBVIOUS
<1> HIDE DEF new, d
<1>6. ~ Present(d)
  <2> SUFFICES ASSUME Present(d) PROVE FALSE
    OBVIOUS
  <2>1. PICK n \in Nat : Numbered(RowsOf(items, d), n)
    BY <1>2 DEF OInv, IInv, TablesOK
  <2>2. new.indexInQueue = n
    BY <1>2, <1>4, <1>5, <2>1, NextNumber
  <2>3. PICK r \in RowsOf(items, d) : TRUE
    BY <1>2 DEF OInv, IInv, TablesOK, Present
  <2>4. r.indexInQueue < n
    BY <2>1 DEF Numbered
  <2>5. r = new
    BY <1>3, <1>5, <2>3 DEF Undisturbed, OneEach, RowsOf
  <2> QED
    BY <2>2, <2>4, <2>5
<1>7. PICK n \in Nat : HeapOf(queues, n)
  BY DEF OInv, IInv, TablesOK
<1>8. queues' = [queues EXCEPT ![d] = [Absent EXCEPT !.index = n]]
  BY <1>3, <1>4, <1>6, <1>7, NextPlace
<1>9. /\ queues'[d].index = n
      /\ \A e \in Discriminator \ {d} : queues'[e] = queues[e]
  BY <1>2, <1>4, <1>8 DEF Rows, Absent
<1>10. \A r \in items : r.discriminator \in Discriminator /\ queues[r.discriminator].index < n
  BY <1>4, <1>7 DEF HeapOf, ItemRow
<1>11. Rising(queues', items', d)
  <2>1. Sound(queues', items \cup {new}) /\ OneEach(items \cup {new})
    BY <1>3, SoundNext DEF Undisturbed
  <2>2. \A r \in items : r.discriminator # d =>
          /\ queues'[r.discriminator].index = queues[r.discriminator].index
          /\ QueuePriority(queues', r) = QueuePriority(queues, r)
    BY <1>9, <1>10 DEF QueuePriority
  <2>3. Rising(queues', items \cup {new}, new.discriminator)
    BY <1>1, <1>5, <1>9, <1>10, <2>1, <2>2, Appended
  <2> QED
    BY <1>3, <1>5, <2>3
<1>12. todo' = <<Up(d)>>
  BY <1>1, <1>2, <1>3, <1>6, Tasks, TaskTypes
<1>13. queues'[d].index # -1
  BY <1>9
<1>14. Settling'
  BY <1>2, <1>11, <1>12, <1>13 DEF Settling, Present
<1> QED
  BY <1>1, <1>3, <1>14 DEF Settled

\* Two queues change places: what the repairs need to know of it.
LEMMA Swapping ==
  ASSUME IInv, NEW m \in items, NEW e \in items, m.discriminator # e.discriminator,
         SwapPositions(m.discriminator, e.discriminator)
  PROVE  /\ Sound(queues', items)
         /\ queues'[m.discriminator].index = queues[e.discriminator].index
         /\ queues'[e.discriminator].index = queues[m.discriminator].index
         /\ \A d \in Discriminator \ {m.discriminator, e.discriminator} :
              queues'[d].index = queues[d].index
         /\ \A r \in items : QueuePriority(queues', r) = QueuePriority(queues, r)
<1> DEFINE c == m.discriminator
           d == e.discriminator
<1>1. Rows(queues) /\ items \subseteq ItemRow /\ c \in Discriminator /\ d \in Discriminator /\ c # d
  BY DEF IInv, TypeOK, Rows, ItemRow
<1>2. RowsOf(items, c) # {} /\ RowsOf(items, d) # {}
  BY DEF RowsOf
<1>3. SwapPositions(c, d)
  OBVIOUS
<1> HIDE DEF c, d
<1>4. Rows(queues') /\ TablesOK(queues', items)
  BY <1>1, <1>2, <1>3, SwapInv
<1>5. Sound(queues', items)
  BY <1>1, <1>4, SoundTables DEF TablesOK
<1>6. queues[c] \in QueueRow /\ queues[d] \in QueueRow
  BY <1>1 DEF Rows
<1>7. /\ queues'[c] = [queues[c] EXCEPT !.index = queues[d].index]
      /\ queues'[d] = [queues[d] EXCEPT !.index = queues[c].index]
      /\ \A b \in Discriminator \ {c, d} : queues'[b] = queues[b]
  BY <1>1, <1>3 DEF SwapPositions, Rows
<1>8. /\ queues'[c].index = queues[d].index /\ queues'[c].ttl = queues[c].ttl
      /\ queues'[d].index = queues[c].index /\ queues'[d].ttl = queues[d].ttl
  BY <1>6, <1>7 DEF QueueRow
<1>9. \A r \in items : r.discriminator \in Discriminator
  BY <1>1 DEF ItemRow
<1>10. \A r \in items : queues'[r.discriminator].ttl = queues[r.discriminator].ttl
  BY <1>7, <1>8, <1>9
<1>11. \A r \in items : QueuePriority(queues', r) = QueuePriority(queues, r)
  BY <1>10 DEF QueuePriority
<1> QED
  BY <1>5, <1>7, <1>8, <1>11 DEF c, d

LEMMA RepairUpOrder ==
  ASSUME OInv, Undisturbed, RepairUp
  PROVE  Settled'
<1> DEFINE d == Head(todo).discriminator
<1>1. /\ d \in Discriminator /\ Present(d) /\ Rising(queues, items, d)
      /\ todo = <<Up(d)>> /\ Tail(todo) = << >>
  BY WhatIsLeft DEF RepairUp, OInv, Undisturbed, Settled
<1>2. UNCHANGED <<items, committed>> /\ InOrder(committed.queues, committed.items) /\ IInv
  BY DEF RepairUp, OInv, Undisturbed, Settled
<1>3. PICK m \in ItemsOf(d) :
        \/ queues[d].index = 0 /\ todo' = Tail(todo) /\ UNCHANGED queues
        \/ /\ queues[d].index # 0
           /\ \E parent \in AtIndex((queues[d].index - 1) \div 2) :
                LET e == parent.discriminator
                IN  \/ /\ GetPriority(e, parent.priority) <= GetPriority(d, m.priority)
                       /\ todo' = Tail(todo) /\ UNCHANGED queues
                    \/ /\ GetPriority(e, parent.priority) > GetPriority(d, m.priority)
                       /\ SwapPositions(d, e) /\ UNCHANGED todo
  BY DEF RepairUp
<1> HIDE DEF d
<1>4. m \in items /\ m.discriminator = d /\ \A s \in items : s.discriminator = d => s = m
  BY <1>1 DEF ItemsOf, Rising, OneEach
<1>5. queues[d].index \in Nat /\ Sound(queues, items)
  BY <1>2, <1>4, <1>1, SoundNow DEF Present, Sound
<1>6. \A r \in items : QueuePriority(queues, r) = GetPriority(r.discriminator, r.priority)
  BY DEF QueuePriority, GetPriority, Locked
<1>7. CASE queues[d].index = 0 /\ todo' = Tail(todo) /\ UNCHANGED queues
  <2>1. InOrder(queues, items)
    BY <1>1, <1>7, Risen DEF IsParent
  <2> QED
    BY <1>1, <1>2, <1>7, <2>1 DEF Settled, Settling
<1>8. ASSUME queues[d].index # 0, NEW e \in AtIndex((queues[d].index - 1) \div 2)
      PROVE  /\ e \in items /\ IsParent(queues, e, m)
             /\ \A r \in items : IsParent(queues, r, m) => r = e
  <2>1. e \in items /\ IsParent(queues, e, m)
    BY <1>4, <1>5, <1>8 DEF AtIndex, IsParent
  <2>2. ASSUME NEW r \in items, IsParent(queues, r, m) PROVE r = e
    <3>1. queues[r.discriminator].index = queues[e.discriminator].index
      BY <2>1, <2>2 DEF IsParent
    <3>2. queues[r.discriminator].index # -1
      BY <1>4, <1>5, <2>2, ParentIsAbove
    <3>3. r.discriminator = e.discriminator
      BY <1>5, <2>1, <3>1, <3>2 DEF Sound
    <3> QED
      BY <1>1, <2>1, <3>3 DEF Rising, OneEach
  <2> QED
    BY <2>1, <2>2
<1>9. ASSUME queues[d].index # 0, NEW e \in AtIndex((queues[d].index - 1) \div 2),
             GetPriority(e.discriminator, e.priority) <= GetPriority(d, m.priority),
             todo' = Tail(todo), UNCHANGED queues
      PROVE  Settled'
  <2>1. InOrder(queues, items)
    BY <1>1, <1>4, <1>6, <1>8, <1>9, Risen
  <2> QED
    BY <1>1, <1>2, <1>9, <2>1 DEF Settled, Settling
<1>10. ASSUME queues[d].index # 0, NEW e \in AtIndex((queues[d].index - 1) \div 2),
              GetPriority(e.discriminator, e.priority) > GetPriority(d, m.priority),
              SwapPositions(d, e.discriminator), UNCHANGED todo
       PROVE  Settled'
  <2>1. e \in items /\ IsParent(queues, e, m)
    BY <1>8, <1>10
  <2>2. m.discriminator # e.discriminator
    BY <1>4, <1>5, <2>1, ParentIsAbove
  <2>3. /\ Sound(queues', items)
        /\ queues'[d].index = queues[e.discriminator].index
        /\ queues'[e.discriminator].index = queues[d].index
        /\ \A b \in Discriminator \ {d, e.discriminator} : queues'[b].index = queues[b].index
        /\ \A r \in items : QueuePriority(queues', r) = QueuePriority(queues, r)
    BY <1>2, <1>4, <1>10, <2>1, <2>2, Swapping
  <2>4. QueuePriority(queues, e) > QueuePriority(queues, m)
    BY <1>4, <1>6, <1>10, <2>1
  <2>5. Rising(queues', items, d)
    BY <1>1, <1>4, <1>5, <2>1, <2>3, <2>4, SwappedUp
  <2>6. queues'[d].index # -1
    BY <1>4, <1>5, <2>1, <2>3, ParentIsAbove
  <2> QED
    BY <1>1, <1>2, <1>10, <2>5, <2>6 DEF Settled, Settling, Present
<1> QED
  BY <1>3, <1>7, <1>9, <1>10

LEMMA RepairDownOrder ==
  ASSUME OInv, Undisturbed, RepairDown
  PROVE  Settled'
<1> DEFINE d == Head(todo).discriminator
<1>1. /\ d \in Discriminator /\ Present(d) /\ Sinking(queues, items, d)
      /\ \/ todo = <<Down(d)>> /\ Tail(todo) = << >>
         \/ \E i \in Item, p \in Priority :
              todo = <<Down(d), Enqueueing(i, p)>> /\ Tail(todo) = <<Enqueueing(i, p)>>
  BY WhatIsLeft DEF RepairDown, OInv, Undisturbed, Settled
<1>2. UNCHANGED <<items, committed>> /\ InOrder(committed.queues, committed.items) /\ IInv
  BY DEF RepairDown, OInv, Undisturbed, Settled
<1>3. PICK m \in ItemsOf(d) :
        \/ /\ \A child \in SmallerChild(d) :
                GetPriority(d, m.priority) <= GetPriority(child.discriminator, child.priority)
           /\ todo' = Tail(todo) /\ UNCHANGED queues
        \/ \E child \in SmallerChild(d) :
             /\ GetPriority(d, m.priority) > GetPriority(child.discriminator, child.priority)
             /\ SwapPositions(d, child.discriminator) /\ UNCHANGED todo
  BY DEF RepairDown
<1> HIDE DEF d
<1>4. m \in items /\ m.discriminator = d /\ \A s \in items : s.discriminator = d => s = m
  BY <1>1 DEF ItemsOf, Sinking, OneEach
<1>5. Sound(queues, items) /\ OneEach(items)
  BY <1>1, <1>2, SoundNow DEF Sinking
<1>6. \A r \in items : /\ QueuePriority(queues, r) = GetPriority(r.discriminator, r.priority)
                       /\ QueuePriority(queues, r) \in Nat
  BY <1>5 DEF QueuePriority, GetPriority, Locked, Sound
<1>7. /\ \A c \in SmallerChild(d) :
            /\ c \in items /\ IsParent(queues, m, c)
            /\ \A s \in items : IsParent(queues, m, s) =>
                 QueuePriority(queues, c) <= QueuePriority(queues, s)
      /\ \A s \in items : IsParent(queues, m, s) => SmallerChild(d) # {}
  BY <1>1, <1>2, <1>4, <1>5, SmallerChildIs
<1>8. CASE /\ \A child \in SmallerChild(d) :
                GetPriority(d, m.priority) <= GetPriority(child.discriminator, child.priority)
           /\ todo' = Tail(todo) /\ UNCHANGED queues
  <2>1. ASSUME NEW s \in items, IsParent(queues, m, s)
        PROVE  QueuePriority(queues, m) <= QueuePriority(queues, s)
    <3>1. PICK c \in SmallerChild(d) : TRUE
      BY <1>7, <2>1
    <3>2. /\ QueuePriority(queues, m) <= QueuePriority(queues, c)
          /\ QueuePriority(queues, c) <= QueuePriority(queues, s) /\ c \in items
      BY <1>4, <1>6, <1>7, <1>8, <2>1
    <3> QED
      BY <1>4, <1>6, <2>1, <3>2
  <2>2. InOrder(queues, items)
    BY <1>1, <1>4, <2>1, Sunk
  <2>3. todo' = << >> \/ \E i \in Item, p \in Priority : todo' = <<Enqueueing(i, p)>>
    BY <1>1, <1>8
  <2> QED
    BY <1>2, <1>8, <2>2, <2>3 DEF Settled, Settling
<1>9. ASSUME NEW e \in SmallerChild(d),
             GetPriority(d, m.priority) > GetPriority(e.discriminator, e.priority),
             SwapPositions(d, e.discriminator), UNCHANGED todo
      PROVE  Settled'
  <2>1. e \in items /\ IsParent(queues, m, e)
    BY <1>7
  <2>2. m.discriminator # e.discriminator
    BY <1>4, <1>5, <2>1, ParentIsAbove
  <2>3. /\ Sound(queues', items)
        /\ queues'[d].index = queues[e.discriminator].index
        /\ queues'[e.discriminator].index = queues[d].index
        /\ \A b \in Discriminator \ {d, e.discriminator} : queues'[b].index = queues[b].index
        /\ \A r \in items : QueuePriority(queues', r) = QueuePriority(queues, r)
    BY <1>2, <1>4, <1>9, <2>1, <2>2, Swapping
  <2>4. QueuePriority(queues, m) > QueuePriority(queues, e)
    BY <1>4, <1>6, <1>9, <2>1
  <2>5. Sinking(queues', items, d)
    BY <1>1, <1>4, <1>5, <1>7, <2>1, <2>3, <2>4, SwappedDown
  <2>6. queues'[d].index # -1
    BY <1>4, <1>5, <2>1, <2>3, ParentIsAbove
  <2> QED
    BY <1>1, <1>2, <1>9, <2>5, <2>6 DEF Settled, Settling, Present
<1> QED
  BY <1>3, <1>8, <1>9

-----------------------------------------------------------------------------
(* How a call ends, and the rest of the world *)

LEMMA CommitOrder ==
  ASSUME OInv, Undisturbed, Commit
  PROVE  Settled'
<1>1. InOrder(queues, items) /\ todo = << >>
  BY WhatIsLeft DEF Commit, OInv, Undisturbed, Settled
<1>2. UNCHANGED <<queues, items, todo>> /\ committed' = [queues |-> queues, items |-> items]
  BY DEF Commit, tables
<1>3. committed'.queues = queues /\ committed'.items = items
  BY <1>2
<1> QED
  BY <1>1, <1>2, <1>3 DEF Settled, Settling

LEMMA RollbackOrder ==
  ASSUME OInv, Undisturbed, Rollback
  PROVE  Settled'
BY DEF Rollback, OInv, Undisturbed, Settled, Settling

\* Time that passes without a lock's expiring changes no priority.
LEMMA TickOrder ==
  ASSUME OInv, Undisturbed, Tick
  PROVE  Settled'
<1>1. Rows(queues) /\ Rows(committed.queues) /\ committed \in Tables /\ items \subseteq ItemRow
  BY DEF OInv, IInv, TypeOK, Tables, Rows
<1>2. /\ queues' = Aged(queues) /\ UNCHANGED <<items, todo>>
      /\ committed'.queues = Aged(committed.queues) /\ committed'.items = committed.items
  BY <1>1 DEF Tick, Tables
<1>3. \A e \in Discriminator : queues[e].ttl # 1 /\ committed.queues[e].ttl # 1
  BY DEF Undisturbed, LockExpires
<1>4. ASSUME NEW q, Rows(q), \A e \in Discriminator : q[e].ttl # 1, NEW e \in Discriminator
      PROVE  Aged(q)[e].index = q[e].index /\ (Aged(q)[e].ttl > 0 <=> q[e].ttl > 0)
  <2>1. q[e] \in QueueRow /\ q[e].ttl \in Nat /\ q[e].ttl # 1
    BY <1>4, LockAssumption DEF Rows, QueueRow
  <2>2. Aged(q)[e] = [q[e] EXCEPT !.ttl = IF @ > 0 THEN @ - 1 ELSE 0]
    BY DEF Aged
  <2>3. /\ Aged(q)[e].index = q[e].index
        /\ Aged(q)[e].ttl = IF q[e].ttl > 0 THEN q[e].ttl - 1 ELSE 0
    BY <2>1, <2>2 DEF QueueRow
  <2> QED
    BY <2>1, <2>3
<1>5. \A r \in items : /\ queues'[r.discriminator].index = queues[r.discriminator].index
                       /\ QueuePriority(queues', r) = QueuePriority(queues, r)
  BY <1>1, <1>2, <1>3, <1>4 DEF QueuePriority, ItemRow
<1>6. \A r \in committed.items :
        /\ committed'.queues[r.discriminator].index = committed.queues[r.discriminator].index
        /\ QueuePriority(committed'.queues, r) = QueuePriority(committed.queues, r)
  <2>1. committed.items \subseteq ItemRow
    BY <1>1 DEF Tables
  <2> QED
    BY <1>1, <1>2, <1>3, <1>4, <2>1 DEF QueuePriority, ItemRow
<1>7. /\ InOrder(queues, items) => InOrder(queues', items)
      /\ \A d : Rising(queues, items, d) => Rising(queues', items, d)
      /\ \A d : Sinking(queues, items, d) => Sinking(queues', items, d)
  BY <1>5, Unmoved
<1>8. InOrder(committed.queues, committed.items) => InOrder(committed'.queues, committed'.items)
  BY <1>2, <1>6, Unmoved
<1>9. \A e \in Discriminator : Present(e) => Present(e)'
  BY <1>1, <1>2, <1>3, <1>4 DEF Present
<1>10. Settling => Settling'
  BY <1>2, <1>7, <1>9 DEF Settling
<1> QED
  BY <1>8, <1>10 DEF OInv, Undisturbed, Settled

\* The calls a client makes with its token.
LEMMA CallsOfHolders ==
  ASSUME NEW h \in holders, RenewLock(h) \/ Acknowledge(h) \/ \E p \in Priority : Defer(h, p)
  PROVE  call'.op \in {"renewLock", "acknowledge", "defer"}
<1>1. CASE RenewLock(h)
  BY <1>1 DEF RenewLock
<1>2. ASSUME NEW op \in {"acknowledge", "defer"}, NEW after, TakeFirst(h, op, after)
      PROVE  call'.op = op
  <2>1. \E r \in FirstItem(h.discriminator) : call' = [op |-> op, holder |-> h, item |-> r.item]
    BY <1>2 DEF TakeFirst
  <2> QED
    BY <2>1
<1>3. CASE Acknowledge(h)
  BY <1>2, <1>3 DEF Acknowledge
<1>4. CASE \E p \in Priority : Defer(h, p)
  BY <1>2, <1>4 DEF Defer
<1> QED
  BY <1>1, <1>3, <1>4

LEMMA IdleNext ==
  ASSUME OInv, Next
  PROVE  IdleOK'
<1>1. CASE Step
  <2>1. CASE Commit
    BY <2>1 DEF Commit, tables, IdleOK
  <2>2. CASE ~ Commit
    <3>1. todo # << >> /\ UNCHANGED call
      BY <1>1, <2>2 DEF Step, EnqueueInternal, RepairUp, RepairDown
    <3> QED
      BY <3>1 DEF OInv, IdleOK, Idle
  <2> QED
    BY <2>1, <2>2
<1>2. CASE Rollback
  BY <1>2 DEF Rollback, IdleOK
<1>3. CASE Tick
  <2>1. committed \in Tables
    BY DEF OInv, IInv, TypeOK
  <2> QED
    BY <1>3, <2>1 DEF Tick, Tables, OInv, IdleOK, Idle
<1>4. ASSUME NEW h \in holders, GiveUp(h) PROVE IdleOK'
  BY <1>4 DEF GiveUp, tables, OInv, IdleOK, Idle
<1>5. CASE call' # NoCall
  BY <1>5 DEF IdleOK, Idle
<1>6. ASSUME NEW i \in Item, Enqueue(i) \/ Remove(i) PROVE call' # NoCall
  BY <1>6 DEF Enqueue, Remove, NoCall
<1>7. LockNext => call' # NoCall
  BY DEF LockNext, NoCall
<1>8. ASSUME NEW h \in holders, RenewLock(h) \/ Acknowledge(h) \/ \E p \in Priority : Defer(h, p)
      PROVE  call' # NoCall
  BY <1>8, CallsOfHolders DEF NoCall
<1> QED
  BY <1>1, <1>2, <1>3, <1>4, <1>5, <1>6, <1>7, <1>8 DEF Next

LEMMA SettledNext ==
  ASSUME OInv, IInv', Undisturbed, Next
  PROVE  Settled'
<1>1. UNCHANGED home
  BY DEF Next
<1>2. ASSUME NEW i \in Item, Enqueue(i) PROVE Settled'
  BY <1>2, EnqueueOrder
<1>3. ASSUME NEW i \in Item, Remove(i) PROVE Settled'
  BY <1>3, RemoveOrder
<1>4. CASE LockNext
  BY <1>4, LockNextOrder
<1>5. ASSUME NEW h \in holders, RenewLock(h) PROVE Settled'
  BY <1>5, RenewLockOrder
<1>6. ASSUME NEW h \in holders, Acknowledge(h) PROVE Settled'
  BY <1>6, TakeFirstOrder DEF Acknowledge
<1>7. ASSUME NEW h \in holders, NEW p \in Priority, Defer(h, p) PROVE Settled'
  <2>1. PICK r \in FirstItem(h.discriminator) : TakeFirst(h, "defer", <<Enqueueing(r.item, p)>>)
    BY <1>7 DEF Defer
  <2>2. r.item \in Item
    BY DEF FirstItem, ItemsOf, OInv, IInv, TypeOK, ItemRow
  <2> QED
    BY <2>1, <2>2, TakeFirstOrder
<1>8. ASSUME NEW h \in holders, GiveUp(h) PROVE Settled'
  BY <1>8 DEF GiveUp, tables, OInv, Undisturbed, Settled, Settling, Present
<1>9. CASE Step
  BY <1>1, <1>9, EnqueueInternalOrder, RepairUpOrder, RepairDownOrder, CommitOrder DEF Step
<1>10. CASE Rollback
  BY <1>10, RollbackOrder
<1>11. CASE Tick
  BY <1>11, TickOrder
<1> QED
  BY <1>2, <1>3, <1>4, <1>5, <1>6, <1>7, <1>8, <1>9, <1>10, <1>11 DEF Next

\* What is not disturbed afterwards was not disturbed, or is in order again.
LEMMA DisturbCases ==
  ASSUME Disturb, ~ disturbed'
  PROVE  Undisturbed \/ (Idle' /\ InOrder(queues', items'))
BY Zenon DEF Disturb, Undisturbed, SeveralInQueue

LEMMA OrderNext ==
  ASSUME OInv, [Next /\ Disturb]_ovars
  PROVE  OInv'
<1>1. CASE UNCHANGED ovars
  <2>1. IInv'
    BY <1>1, NextInv DEF OInv, ovars
  <2> QED
    BY <1>1, <2>1 DEF ovars, vars, tables, OInv, IdleOK, Idle, Settled, Settling, Present
<1>2. CASE Next /\ Disturb
  <2>1. IInv' /\ IdleOK'
    BY <1>2, NextInv, IdleNext DEF OInv
  <2>2. ASSUME ~ disturbed' PROVE Settled'
    <3>1. CASE Undisturbed
      BY <1>2, <2>1, <3>1, SettledNext
    <3>2. CASE Idle' /\ InOrder(queues', items')
      BY <2>1, <3>2 DEF IdleOK, Settled, Settling
    <3> QED
      BY <1>2, <2>2, <3>1, <3>2, DisturbCases
  <2> QED
    BY <2>1, <2>2 DEF OInv
<1> QED
  BY <1>1, <1>2

LEMMA OrderInit == Init /\ disturbed = FALSE => OInv
<1> SUFFICES ASSUME Init PROVE OInv
  OBVIOUS
<1>1. IInv
  BY InitInv
<1>2. items = {} /\ committed = [queues |-> queues, items |-> items] /\ todo = << >>
  BY DEF Init
<1>3. InOrder(queues, items)
  BY <1>2 DEF InOrder, OneEach
<1> QED
  BY <1>1, <1>2, <1>3 DEF OInv, IdleOK, Settled, Settling

\* The invariant, with the two tables and what is left to do of a call: while
\* it is carried out the heap is out of order at one queue only.
THEOREM OrderInvCorrect == OrderSpec => []OInv
BY OrderInit, OrderNext, PTL DEF OrderSpec

\* Between calls the heap is in order, for any number of queues and locks, until
\* a lock expires, a queue has several items or one is moved below a larger
\* parent; and again once it is found in order between two calls.
THEOREM OrderedCorrect == OrderSpec => []Ordered
<1>1. OInv => Ordered
  BY IdleInOrder DEF Ordered
<1> QED
  BY <1>1, OrderInvCorrect, PTL

-----------------------------------------------------------------------------
(* What lockNext chooses *)

LEMMA Least ==
  ASSUME NEW S \in SUBSET Nat, S # {}
  PROVE  \E n \in S : \A k \in S : n <= k
<1>1. PICK n \in S : \A k \in S : <<k, n>> \notin OpToRel(<, Nat)
  BY WFMin, NatLessThanWellFounded, Zenon
<1>2. \A k \in S : ~ (k < n)
  BY <1>1, Zenon DEF OpToRel
<1> QED
  BY <1>2

\* The first unlocked queue of a heap in order is a most urgent one: a queue
\* more urgent than it would have one above it that is.
LEMMA FirstIsMostUrgent ==
  ASSUME IInv, InOrder(queues, items),
         NEW x \in items, Present(x.discriminator), ~ Locked(x.discriminator),
         \A e \in Discriminator : Present(e) /\ ~ Locked(e) =>
           queues[x.discriminator].index <= queues[e].index,
         NEW y \in items, Present(y.discriminator), ~ Locked(y.discriminator)
  PROVE  x.priority <= y.priority
<1> DEFINE More == {r \in items : /\ Present(r.discriminator) /\ ~ Locked(r.discriminator)
                                 /\ r.priority < x.priority}
           At(r) == queues[r.discriminator].index
           Places == {At(r) : r \in More}
<1>1. \A r \in items : /\ r.discriminator \in Discriminator /\ At(r) \in Nat \cup {-1}
                       /\ r.priority \in Nat /\ r.priority < MaxSafeInteger /\ MaxSafeInteger \in Nat
  BY SoundNow, PriorityAssumption DEF Sound, IInv, TypeOK, ItemRow
<1>2. \A r \in items : QueuePriority(queues, r) = IF Locked(r.discriminator) THEN MaxSafeInteger
                                                 ELSE r.priority
  BY DEF QueuePriority, Locked
<1>3. ASSUME NEW r \in More PROVE \E s \in More : At(s) < At(r)
  <2>1. r \in items /\ Present(r.discriminator) /\ ~ Locked(r.discriminator) /\ r.priority < x.priority
    OBVIOUS
  <2>2. At(x) <= At(r) /\ At(x) \in Nat /\ At(r) \in Nat
    BY <1>1, <2>1 DEF Present
  <2>3. x.discriminator # r.discriminator
    BY <1>1, <2>1 DEF InOrder, OneEach
  <2>4. At(x) # At(r)
    BY <1>1, <2>1, <2>3, SoundNow DEF Sound, Present
  <2>5. At(r) > 0
    BY <2>2, <2>4
  <2>6. PICK n \in Nat : HeapOf(queues, n)
    BY DEF IInv, TablesOK
  <2>7. (At(r) - 1) \div 2 \in 0..(n - 1)
    <3>1. At(r) < n
      BY <1>1, <2>1, <2>6 DEF HeapOf
    <3>2. (At(r) - 1) \div 2 \in Nat /\ (At(r) - 1) \div 2 < At(r)
      BY <2>2, <2>5, HalfIsLess
    <3> HIDE DEF At
    <3> QED
      BY <2>2, <3>1, <3>2
  <2>8. PICK d \in Discriminator : queues[d].index = (At(r) - 1) \div 2
    BY <2>6, <2>7 DEF HeapOf
  <2>9. (At(r) - 1) \div 2 \in Nat
    BY <2>2, <2>5, HalfIsLess
  <2>10. Present(d)
    BY <2>8, <2>9 DEF Present
  <2>11. PICK s \in items : s.discriminator = d
    BY <2>10, Single DEF InOrder
  <2>12. IsParent(queues, s, r)
    BY <2>5, <2>8, <2>11 DEF IsParent
  <2>13. QueuePriority(queues, s) <= QueuePriority(queues, r)
    BY <2>1, <2>12 DEF InOrder
  <2>14. ~ Locked(d) /\ s.priority <= r.priority
    BY <1>1, <1>2, <2>1, <2>11, <2>13
  <2>15. s \in More
    BY <1>1, <2>1, <2>10, <2>11, <2>14
  <2>16. At(s) < At(r)
    BY <2>1, <2>12, SoundNow, ParentIsAbove
  <2> QED
    BY <2>15, <2>16
<1>4. Places \subseteq Nat
  BY <1>1 DEF Present
<1>5. More = {}
  <2> SUFFICES ASSUME More # {} PROVE FALSE
    OBVIOUS
  <2>1. Places # {}
    OBVIOUS
  <2> HIDE DEF More, At
  <2>2. PICK n \in Places : \A k \in Places : n <= k
    BY <1>4, <2>1, Least
  <2>3. PICK r \in More : At(r) = n
    OBVIOUS
  <2>4. PICK s \in More : At(s) < n
    BY <1>3, <2>3
  <2> QED
    BY <1>4, <2>2, <2>4
<1>6. ~ (y.priority < x.priority)
  BY <1>5
<1> QED
  BY <1>1, <1>6

\* While the heap is not disturbed, lockNext chooses a most urgent of the queues
\* that are not locked, for any number of queues, although it goes by their order
\* in the heap alone.
THEOREM MostUrgentFirstCorrect == OrderSpec => MostUrgentFirst
<1>1. OInv /\ [Next /\ Disturb]_ovars => [~ disturbed => ChoosesMostUrgent]_ovars
  <2> SUFFICES ASSUME OInv, Next, ~ disturbed, Idle, call'.op = "lockNext"
               PROVE  \A e \in Discriminator : Present(e) /\ ~ Locked(e) =>
                        \A p \in Urgency(call'.holder.discriminator), q \in Urgency(e) : p <= q
    BY DEF ChoosesMostUrgent
  <2>1. InOrder(queues, items) /\ IInv
    BY IdleInOrder DEF OInv
  <2>2. LockNext
    <3>1. ASSUME NEW i \in Item, Enqueue(i) \/ Remove(i) PROVE FALSE
      BY <3>1 DEF Enqueue, Remove
    <3>2. ASSUME NEW h \in holders, RenewLock(h) \/ Acknowledge(h) \/ \E p \in Priority : Defer(h, p)
          PROVE  FALSE
      BY <3>2, CallsOfHolders
    <3>3. ASSUME UNCHANGED call PROVE FALSE
      BY <3>3 DEF Idle, NoCall
    <3>4. ASSUME call' = NoCall PROVE FALSE
      BY <3>4 DEF NoCall
    <3>5. ASSUME NEW h \in holders, GiveUp(h) PROVE FALSE
      BY <3>3, <3>5 DEF GiveUp
    <3>6. Step \/ Rollback \/ Tick => FALSE
      BY <3>3, <3>4 DEF Step, EnqueueInternal, RepairUp, RepairDown, Commit, Rollback, Tick
    <3> QED
      BY <3>1, <3>2, <3>5, <3>6 DEF Next
  <2>3. PICK d \in Discriminator :
          /\ Present(d) /\ ~ Locked(d) /\ call'.holder.discriminator = d
          /\ \A e \in Discriminator : Present(e) /\ ~ Locked(e) => queues[d].index <= queues[e].index
    <3>1. PICK d \in Discriminator, t \in FreshTokens, r \in items :
            /\ Present(d) /\ ~ Locked(d)
            /\ \A e \in Discriminator : Present(e) /\ ~ Locked(e) => queues[d].index <= queues[e].index
            /\ call' = [op |-> "lockNext", item |-> r.item,
                        holder |-> [discriminator |-> d, token |-> t, item |-> r.item]]
      BY <2>2 DEF LockNext
    <3> QED
      BY <3>1
  <2>4. ASSUME NEW e \in Discriminator, Present(e), ~ Locked(e),
               NEW p \in Urgency(d), NEW q \in Urgency(e)
        PROVE  p <= q
    <3>1. PICK x \in items : x.discriminator = d /\ x.priority = p
      BY DEF Urgency, ItemsOf
    <3>2. PICK y \in items : y.discriminator = e /\ y.priority = q
      BY <2>4 DEF Urgency, ItemsOf
    <3> QED
      BY <2>1, <2>3, <2>4, <3>1, <3>2, FirstIsMostUrgent
  <2> QED
    BY <2>3, <2>4
<1> QED
  BY <1>1, OrderInvCorrect, PTL DEF OrderSpec, MostUrgentFirst

=============================================================================
