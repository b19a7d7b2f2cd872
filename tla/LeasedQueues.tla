---------------------------- MODULE LeasedQueues ----------------------------
(***************************************************************************)
(* What the priority queue store promises, priorities aside: a first-in    *)
(* first-out queue for each discriminator, each leased to one client at a  *)
(* time, and every call takes effect entirely or not at all.               *)
(***************************************************************************)
EXTENDS Integers, Sequences

CONSTANTS Discriminator, Item, Token, None, ExpirationTime

VARIABLES
  fifo,    \* the items of each queue
  lease    \* its lock

Lease == [token : Token \cup {None}, ttl : 0..ExpirationTime]
Free  == [token |-> None, ttl |-> 0]

Init ==
  /\ fifo = [d \in Discriminator |-> << >>]
  /\ lease = [d \in Discriminator |-> Free]

Enqueue(d, i) ==
  /\ \A e \in Discriminator : \A n \in DOMAIN fifo[e] : fifo[e][n] # i
  /\ fifo' = [fifo EXCEPT ![d] = Append(@, i)]
  /\ UNCHANGED lease

\* The time a call takes passes for the lock it makes or renews, too.
LockNext(d, t) ==
  /\ fifo[d] # << >> /\ lease[d].ttl = 0
  /\ \A e \in Discriminator : lease[e].token # t
  /\ \E n \in 0..ExpirationTime : lease' = [lease EXCEPT ![d] = [token |-> t, ttl |-> n]]
  /\ UNCHANGED fifo

Renew(d) ==
  /\ lease[d].token # None
  /\ \E n \in 0..ExpirationTime : lease' = [lease EXCEPT ![d].ttl = n]
  /\ UNCHANGED fifo

Acknowledge(d) ==
  /\ lease[d].token # None
  /\ fifo' = [fifo EXCEPT ![d] = Tail(@)]
  /\ lease' = [lease EXCEPT ![d] = Free]

Defer(d) ==
  /\ lease[d].token # None
  /\ fifo' = [fifo EXCEPT ![d] = Append(Tail(@), Head(@))]
  /\ lease' = [lease EXCEPT ![d] = Free]

Tick ==
  /\ lease' = [d \in Discriminator |->
                 [lease[d] EXCEPT !.ttl = IF @ > 0 THEN @ - 1 ELSE 0]]
  /\ UNCHANGED fifo

Next ==
  \/ \E d \in Discriminator :
       \/ \E i \in Item : Enqueue(d, i)
       \/ \E t \in Token : LockNext(d, t)
       \/ Renew(d) \/ Acknowledge(d) \/ Defer(d)
  \/ Tick

Spec == Init /\ [][Next]_<<fifo, lease>>

=============================================================================
