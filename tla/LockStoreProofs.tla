-------------------------- MODULE LockStoreProofs ---------------------------
(***************************************************************************)
(* Proofs about LockStore, for any number of clients and of values.        *)
(***************************************************************************)
EXTENDS LockStoreProperties, TLAPS

-----------------------------------------------------------------------------
(* The inductive invariant *)

\* A call says what it is for.
CallOK(c) ==
  /\ call[c].phase = "idle" <=> call[c].op = "none"
  /\ call[c].op # "none" => call[c].value \in Key
  /\ call[c].phase \in {"idle", "begin"} => call[c].expired = {}
  /\ call[c].op \in {"acquire", "renew"} => call[c].expiresAt \in Expiry

\* A row that a transaction wrote is one it deleted because it has expired, or
\* that of its second statement.
RowsOK(c) ==
  \A k \in Key : writer[k] = c =>
    /\ call[c].phase \in {"purging", "ending", "refused"}
    /\ (k # call[c].value \/ call[c].phase # "ending") =>
         draft[k] = NoRow /\ IsExpired(committed[k], clock)

\* The deletion visits the rows that were expired when it was issued.  A lock
\* that is in the way of acquireLock after that is one it met.
PurgeOK(c) ==
  call[c].phase = "purging" =>
    /\ \A r, s \in call[c].expired : r[2] = s[2]
    /\ \A r \in call[c].expired : r[2] <= clock
    /\ (call[c].op = "acquire" /\ ~ call[c].met) =>
         /\ \A r \in call[c].expired : r[1] = call[c].value =>
              committed[r[1]] = NoRow \/ IsExpired(committed[r[1]], r[2])
         /\ (\A r \in call[c].expired : r[1] # call[c].value) =>
              committed[call[c].value] = NoRow \/ writer[call[c].value] = c

RefusedOK(c) == call[c].phase = "refused" /\ call[c].op = "acquire" => call[c].met

\* Nobody but c counts on v.
OnlyHolder(c, v) == \A d \in Client : Holds(d, v) => d = c

\* The second statement leaves the row for COMMIT to put in place, and a call
\* that renews or releases a lock of its own holds it alone.
EndingOK(c) ==
  call[c].phase = "ending" =>
    /\ call[c].op = "acquire" =>
         /\ writer[call[c].value] = c /\ draft[call[c].value] = call[c].expiresAt
         /\ committed[call[c].value] = NoRow \/ IsExpired(committed[call[c].value], clock)
    /\ call[c].op = "renew" =>
         /\ writer[call[c].value] = c /\ draft[call[c].value] = call[c].expiresAt
         /\ committed[call[c].value] # NoRow
    /\ call[c].op = "release" /\ writer[call[c].value] = c => draft[call[c].value] = NoRow
    /\ (call[c].op \in {"renew", "release"} /\ writer[call[c].value] = c
        /\ ~ late[call[c].value]) => OnlyHolder(c, call[c].value)

\* While it renews a lock, a client counts on no more than it asks for.
RenewOK(c) ==
  call[c].op = "renew" =>
    lease[c][call[c].value] = NoRow \/ lease[c][call[c].value] <= call[c].expiresAt

ClientInv(c) ==
  CallOK(c) /\ RowsOK(c) /\ PurgeOK(c) /\ RefusedOK(c) /\ EndingOK(c) /\ RenewOK(c)

\* What clients count on is in the table, and each of them alone.
LeaseOK(v) ==
  ~ late[v] => \A c \in Client : Holds(c, v) =>
    committed[v] # NoRow /\ lease[c][v] <= committed[v] /\ OnlyHolder(c, v)

IInv ==
  /\ TypeOK
  /\ \A c \in Client : ClientInv(c)
  /\ \A v \in Key : LeaseOK(v)

-----------------------------------------------------------------------------
(* Types *)

LEMMA NoRowIsNoTime == \A e \in Expiry : e \in Nat /\ e # NoRow
BY ExpiryAssumption

LEMMA InitTypes == Init => TypeOK
BY DEF Init, SomeRows, TypeOK, NoCall, Call

\* The rows' types, whatever a statement or the end of a transaction does.
LEMMA RowTypes ==
  ASSUME TypeOK, NEW c \in Client
  PROVE  /\ \A k, row : row \in Expiry \cup {NoRow} /\ WriteRow(c, k, row) =>
              /\ committed' \in [Key -> Expiry \cup {NoRow}]
              /\ draft' \in [Key -> Expiry \cup {NoRow}]
              /\ writer' \in [Key -> Client \cup {NoClient}]
         /\ CommitRows(c) \/ RollbackRows(c) =>
              /\ committed' \in [Key -> Expiry \cup {NoRow}]
              /\ draft' \in [Key -> Expiry \cup {NoRow}]
              /\ writer' \in [Key -> Client \cup {NoClient}]
BY DEF TypeOK, WriteRow, CommitRows, RollbackRows, Unlock, Seen

\* The calls' types, as actions change them.
LEMMA CallTypes ==
  /\ NoCall \in Call
  /\ \A v \in Key, e \in Expiry, op \in {"acquire", "renew"} : NewCall(op, v, e) \in Call
  /\ \A v \in Key : NewCall("release", v, NoRow) \in Call
  /\ \A d \in Call, p \in {"purging", "ending", "refused"}, q \in BOOLEAN :
       /\ [d EXCEPT !.phase = p] \in Call
       /\ [d EXCEPT !.met = q] \in Call
       /\ [d EXCEPT !.phase = p, !.met = q] \in Call
       /\ \A x \in SUBSET (Key \X Nat) :
            /\ [d EXCEPT !.expired = x] \in Call
            /\ [d EXCEPT !.phase = p, !.expired = x, !.met = q] \in Call
<1>1. NoCall \in Call
  BY DEF NoCall, Call
<1>2. \A v \in Key, e \in Expiry, op \in {"acquire", "renew"} : NewCall(op, v, e) \in Call
  BY DEF NewCall, NoCall, Call
<1>3. \A v \in Key : NewCall("release", v, NoRow) \in Call
  BY DEF NewCall, NoCall, Call
<1>4. ASSUME NEW d \in Call, NEW p \in {"purging", "ending", "refused"}, NEW q \in BOOLEAN
      PROVE  /\ [d EXCEPT !.phase = p] \in Call
             /\ [d EXCEPT !.met = q] \in Call
             /\ [d EXCEPT !.phase = p, !.met = q] \in Call
             /\ \A x \in SUBSET (Key \X Nat) :
                  /\ [d EXCEPT !.expired = x] \in Call
                  /\ [d EXCEPT !.phase = p, !.expired = x, !.met = q] \in Call
  BY DEF Call
<1> QED
  BY <1>1, <1>2, <1>3, <1>4

LEMMA PutCall ==
  ASSUME TypeOK, NEW c \in Client, NEW d \in Call
  PROVE  [call EXCEPT ![c] = d] \in [Client -> Call]
BY DEF TypeOK

LEMMA TypesKept == TypeOK /\ [Next]_vars => TypeOK'
<1> SUFFICES ASSUME TypeOK, [Next]_vars PROVE TypeOK'
  OBVIOUS
<1>1. ASSUME NEW c \in Client, NEW v \in Wanted[c], NEW e \in Expiry,
             AcquireLock(c, v, e) \/ RenewLock(c, v, e)
      PROVE  TypeOK'
  <2>1. v \in Key
    BY WantedAssumption
  <2>2. call' \in [Client -> Call]
    <3>1. NewCall("acquire", v, e) \in Call /\ NewCall("renew", v, e) \in Call
      BY <2>1, CallTypes
    <3> QED
      BY <1>1, <3>1, PutCall DEF AcquireLock, RenewLock, Start
  <2>3. lease' \in [Client -> [Key -> Expiry \cup {NoRow}]]
    <3>1. CASE AcquireLock(c, v, e)
      BY <3>1 DEF TypeOK, AcquireLock
    <3>2. CASE RenewLock(c, v, e)
      <4> DEFINE until == IF lease[c][v] # NoRow /\ e < lease[c][v] THEN e ELSE lease[c][v]
      <4>1. lease' = [lease EXCEPT ![c][v] = until]
        BY <3>2 DEF RenewLock
      <4>2. until \in Expiry \cup {NoRow}
        BY <2>1 DEF TypeOK
      <4> HIDE DEF until
      <4> QED
        BY <4>1, <4>2 DEF TypeOK
    <3> QED
      BY <1>1, <3>1, <3>2
  <2> QED
    BY <1>1, <2>2, <2>3 DEF TypeOK, AcquireLock, RenewLock, Start, rowVars
<1>2. ASSUME NEW c \in Client, NEW v \in Wanted[c], ReleaseLock(c, v)
      PROVE  TypeOK'
  <2>1. call' \in [Client -> Call]
    BY <1>2, CallTypes, PutCall, WantedAssumption DEF ReleaseLock, Start
  <2> QED
    BY <1>2, <2>1 DEF TypeOK, ReleaseLock, Start, rowVars
<1>3. ASSUME NEW c \in Client, RemoveExpiredLocks(c)
      PROVE  TypeOK'
  <2>1. {v \in Key : IsExpired(committed[v], clock)} \X {clock} \in SUBSET (Key \X Nat)
    BY DEF TypeOK
  <2>2. call' \in [Client -> Call]
    BY <1>3, <2>1, CallTypes, PutCall DEF RemoveExpiredLocks, TypeOK
  <2> QED
    BY <1>3, <2>2 DEF TypeOK, RemoveExpiredLocks, rowVars
<1>4. ASSUME NEW c \in Client, NEW v, NEW now, DeleteExpired(c, v, now)
      PROVE  TypeOK'
  <2>1. call[c] \in Call /\ call[c].expired \ {<<v, now>>} \in SUBSET (Key \X Nat)
    BY DEF TypeOK, Call
  <2>2. call' \in [Client -> Call]
    BY <1>4, <2>1, CallTypes, PutCall DEF DeleteExpired
  <2> QED
    BY <1>4, <2>2, RowTypes DEF TypeOK, DeleteExpired, rowVars
<1>5. ASSUME NEW c \in Client, Insert(c) \/ Update(c) \/ Delete(c)
      PROVE  TypeOK'
  <2>1. call' \in [Client -> Call]
    <3>1. [call[c] EXCEPT !.phase = "ending", !.met = FALSE] \in Call
      BY CallTypes DEF TypeOK
    <3> QED
      BY <1>5, <3>1, PutCall DEF Insert, Update, Delete, Writes
  <2>2. call[c].expiresAt \in Expiry \cup {NoRow}
    BY DEF TypeOK, Call
  <2>3. /\ committed' \in [Key -> Expiry \cup {NoRow}]
        /\ draft' \in [Key -> Expiry \cup {NoRow}]
        /\ writer' \in [Key -> Client \cup {NoClient}]
    BY <1>5, <2>2, RowTypes DEF Insert, Update, Delete, Writes
  <2>4. clock' \in Nat
    BY <1>5 DEF TypeOK, Insert, Update, Delete, Writes
  <2>5. /\ lease' \in [Client -> [Key -> Expiry \cup {NoRow}]]
        /\ late' \in [Key -> BOOLEAN]
    <3>1. CASE UNCHANGED <<lease, late>>
      BY <3>1 DEF TypeOK
    <3>2. CASE NoteLate(c)
      <4>1. CASE Holds(c, call[c].value)
        BY <3>2, <4>1 DEF TypeOK, NoteLate
      <4>2. CASE ~ Holds(c, call[c].value)
        <5>1. late' \in [Key -> BOOLEAN]
          BY <3>2, <4>2 DEF TypeOK, NoteLate
        <5>2. lease' \in [Client -> [Key -> Expiry \cup {NoRow}]]
          BY <3>2, <4>2 DEF TypeOK, NoteLate
        <5> QED
          BY <5>1, <5>2
      <4> QED
        BY <4>1, <4>2
    <3> QED
      BY <1>5, <3>1, <3>2 DEF Insert, Update, Delete
  <2> QED
    BY <2>1, <2>3, <2>4, <2>5 DEF TypeOK
<1>6. ASSUME NEW c \in Client, InsertConflict(c) \/ UpdateMiss(c) \/ DeleteNothing(c)
      PROVE  TypeOK'
  <2>1. call' \in [Client -> Call]
    <3>1. /\ [call[c] EXCEPT !.phase = "refused"] \in Call
          /\ [call[c] EXCEPT !.phase = "ending"] \in Call
      BY CallTypes DEF TypeOK
    <3> QED
      BY <1>6, <3>1, PutCall DEF InsertConflict, UpdateMiss, DeleteNothing
  <2> QED
    BY <1>6, <2>1 DEF TypeOK, InsertConflict, UpdateMiss, DeleteNothing, rowVars
<1>7. ASSUME NEW c \in Client, Commit(c) \/ CommitUnheard(c)
      PROVE  TypeOK'
  <2>1. ASSUME NEW d \in Client
        PROVE  (IF d = c THEN NoCall ELSE [call[d] EXCEPT !.met = @ \/ Meets(c, d)]) \in Call
    <3>1. call[d] \in Call /\ (call[d].met \/ Meets(c, d)) \in BOOLEAN
      BY DEF TypeOK, Call
    <3> QED
      BY <3>1, CallTypes
  <2>2. call' \in [Client -> Call]
    BY <1>7, <2>1 DEF Commit, CommitUnheard, Ended
  <2>3. lease' \in [Client -> [Key -> Expiry \cup {NoRow}]]
    <3>1. call[c].expiresAt \in Expiry \cup {NoRow}
      BY DEF TypeOK, Call
    <3> QED
      BY <1>7, <3>1 DEF TypeOK, Commit, CommitUnheard, NewLease
  <2> QED
    BY <1>7, <2>2, <2>3, RowTypes DEF TypeOK, Commit, CommitUnheard
<1>8. ASSUME NEW c \in Client, Rollback(c) \/ Abort(c)
      PROVE  TypeOK'
  <2>1. call' \in [Client -> Call]
    <3>1. NoCall \in Call
      BY CallTypes
    <3> QED
      BY <1>8, <3>1, PutCall DEF Rollback, Abort, RollsBack
  <2> QED
    BY <1>8, <2>1, RowTypes DEF TypeOK, Rollback, Abort, RollsBack
<1>9. CASE Tick
  BY <1>9 DEF TypeOK, Tick, rowVars
<1>10. CASE UNCHANGED vars
  BY <1>10 DEF TypeOK, vars, rowVars
<1> QED
  BY <1>1, <1>2, <1>3, <1>4, <1>5, <1>6, <1>7, <1>8, <1>9, <1>10 DEF Next, Progress

\* Rows, row locks, calls and what clients have been told have their types.
THEOREM TypeCorrect == Spec => []TypeOK
BY InitTypes, TypesKept, PTL DEF Spec

-----------------------------------------------------------------------------
(* Steps of one client that leave the table and the time as they are *)

Lowered ==
  \A d \in Client, v \in Key : lease'[d][v] # NoRow =>
    lease[d][v] # NoRow /\ lease'[d][v] <= lease[d][v]

Beside(c) ==
  /\ UNCHANGED <<committed, clock>>
  /\ Lowered
  /\ \A v \in Key : late[v] => late'[v]
  /\ \A d \in Client \ {c} :
       /\ call'[d] = call[d]
       /\ \A k \in Key : writer'[k] = d <=> writer[k] = d
       /\ \A k \in Key : writer[k] = d => draft'[k] = draft[k]

\* A lease that is lowered is held at most as long.
LEMMA HoldsLess ==
  ASSUME TypeOK, TypeOK', Lowered, clock' = clock, NEW d \in Client, NEW v \in Key, Holds(d, v)'
  PROVE  Holds(d, v)
<1>1. lease'[d][v] \in Nat /\ lease[d][v] \in Nat /\ clock \in Nat
  BY NoRowIsNoTime DEF TypeOK, Lowered, Holds
<1> QED
  BY <1>1 DEF Lowered, Holds

LEMMA LeasesKept ==
  ASSUME IInv, TypeOK', NEW c \in Client, Beside(c), NEW v \in Key
  PROVE  LeaseOK(v)'
<1> SUFFICES ASSUME ~ late'[v], NEW d \in Client, Holds(d, v)'
             PROVE  committed'[v] # NoRow /\ lease'[d][v] <= committed'[v] /\ OnlyHolder(d, v)'
  BY DEF LeaseOK
<1>1. \A x \in Client : Holds(x, v)' => Holds(x, v)
  BY HoldsLess DEF IInv, Beside
<1>2. committed[v] # NoRow /\ lease[d][v] <= committed[v] /\ OnlyHolder(d, v)
  BY <1>1 DEF IInv, Beside, LeaseOK
<1>3. lease'[d][v] \in Nat /\ lease[d][v] \in Nat /\ committed[v] \in Nat
  BY <1>1, <1>2, NoRowIsNoTime DEF IInv, TypeOK, Holds
<1>4. lease'[d][v] <= lease[d][v]
  BY DEF Beside, Lowered, Holds
<1>5. OnlyHolder(d, v)'
  BY <1>1, <1>2 DEF OnlyHolder
<1> QED
  BY <1>2, <1>3, <1>4, <1>5 DEF Beside

LEMMA OthersKept ==
  ASSUME IInv, TypeOK', NEW c \in Client, Beside(c), NEW d \in Client, d # c
  PROVE  ClientInv(d)'
<1>1. call'[d] = call[d] /\ UNCHANGED <<committed, clock>>
  BY DEF Beside
<1>2. \A k \in Key : writer'[k] = d <=> writer[k] = d
  BY DEF Beside
<1>3. \A k \in Key : writer[k] = d => draft'[k] = draft[k]
  BY DEF Beside
<1>4. CallOK(d)'
  BY <1>1 DEF IInv, ClientInv, CallOK
<1>5. RowsOK(d)'
  BY <1>1, <1>2, <1>3 DEF IInv, ClientInv, RowsOK
<1>6. PurgeOK(d)'
  BY <1>1, <1>2 DEF IInv, ClientInv, CallOK, PurgeOK
<1>7. RefusedOK(d)'
  BY <1>1 DEF IInv, ClientInv, RefusedOK
<1>8. EndingOK(d)'
  <2> SUFFICES ASSUME call[d].phase = "ending" PROVE EndingOK(d)'
    BY <1>1 DEF EndingOK
  <2>1. call[d].value \in Key
    BY DEF IInv, ClientInv, CallOK
  <2>2. OnlyHolder(d, call[d].value) => OnlyHolder(d, call[d].value)'
    BY <1>1, <2>1, HoldsLess DEF IInv, Beside, OnlyHolder
  <2>3. late[call[d].value] => late'[call[d].value]
    BY <2>1 DEF Beside
  <2> QED
    BY <1>1, <1>2, <1>3, <2>1, <2>2, <2>3 DEF IInv, ClientInv, EndingOK, OnlyHolder
<1>9. RenewOK(d)'
  <2> SUFFICES ASSUME call[d].op = "renew", lease'[d][call[d].value] # NoRow
               PROVE  lease'[d][call[d].value] <= call[d].expiresAt
    BY <1>1 DEF RenewOK
  <2>1. call[d].value \in Key /\ call[d].expiresAt \in Nat
    BY NoRowIsNoTime DEF IInv, ClientInv, CallOK, TypeOK, Call
  <2> QED
    BY <2>1, NoRowIsNoTime DEF IInv, TypeOK, ClientInv, RenewOK, Beside, Lowered
<1> QED
  BY <1>4, <1>5, <1>6, <1>7, <1>8, <1>9 DEF ClientInv

\* So only the client itself remains to be looked at.
LEMMA BesideKeeps ==
  ASSUME IInv, TypeOK', NEW c \in Client, Beside(c), ClientInv(c)'
  PROVE  IInv'
BY LeasesKept, OthersKept DEF IInv

-----------------------------------------------------------------------------
(* The steps, one by one *)

\* What is not held by its writer's transaction is not held by it after it either.
LEMMA QuietIsBeside ==
  ASSUME TypeOK, NEW c \in Client, NEW x, UNCHANGED <<rowVars, clock, late>>,
         call' = [call EXCEPT ![c] = x], Lowered
  PROVE  Beside(c)
BY DEF Beside, TypeOK, rowVars

LEMMA SameLeases == TypeOK /\ UNCHANGED lease => Lowered
BY NoRowIsNoTime DEF TypeOK, Lowered

LEMMA StartKeeps ==
  ASSUME IInv, TypeOK', NEW c \in Client, NEW v \in Wanted[c], NEW e \in Expiry,
         AcquireLock(c, v, e) \/ RenewLock(c, v, e)
  PROVE  IInv'
<1>1. v \in Key
  BY WantedAssumption
<1>2. Lowered
  <2>1. CASE RenewLock(c, v, e)
    <3>1. \A d \in Client, w \in Key :
            lease'[d][w] = lease[d][w]
              \/ (lease[d][w] # NoRow /\ lease'[d][w] = e /\ e < lease[d][w])
      BY <1>1, <2>1 DEF RenewLock, IInv, TypeOK
    <3> QED
      BY <3>1, NoRowIsNoTime DEF IInv, TypeOK, Lowered
  <2> QED
    BY <2>1, SameLeases DEF IInv, AcquireLock
<1>3. Beside(c)
  BY <1>2, QuietIsBeside DEF IInv, AcquireLock, RenewLock, Start
<1>4. /\ call'[c].phase = "begin" /\ call'[c].value = v /\ call'[c].expired = {}
      /\ call'[c].op \in {"acquire", "renew"} /\ call'[c].expiresAt = e
      /\ call'[c].op = "renew" => RenewLock(c, v, e)
  <2>1. \A x : call' = [call EXCEPT ![c] = x] => call'[c] = x
    BY DEF IInv, TypeOK
  <2>2. CASE AcquireLock(c, v, e)
    <3>1. call'[c] = NewCall("acquire", v, e)
      BY <2>1, <2>2 DEF AcquireLock, Start
    <3> QED
      BY <3>1 DEF NewCall, NoCall
  <2>3. CASE RenewLock(c, v, e)
    <3>1. call'[c] = NewCall("renew", v, e)
      BY <2>1, <2>3 DEF RenewLock, Start
    <3> QED
      BY <2>3, <3>1 DEF NewCall, NoCall
  <2> QED
    BY <2>2, <2>3
<1>5. UNCHANGED rowVars /\ call[c].phase = "idle"
  BY DEF AcquireLock, RenewLock, Start
<1>6. RowsOK(c)'
  BY <1>5 DEF IInv, ClientInv, RowsOK, rowVars
<1>7. RenewOK(c)'
  <2> SUFFICES ASSUME RenewLock(c, v, e) PROVE lease'[c][v] = NoRow \/ lease'[c][v] <= e
    BY <1>4 DEF RenewOK
  <2>1. lease'[c][v] = IF lease[c][v] # NoRow /\ e < lease[c][v] THEN e ELSE lease[c][v]
    BY <1>1 DEF RenewLock, IInv, TypeOK
  <2> QED
    BY <1>1, <2>1, NoRowIsNoTime DEF IInv, TypeOK
<1>8. ClientInv(c)'
  BY <1>1, <1>4, <1>6, <1>7 DEF ClientInv, CallOK, PurgeOK, RefusedOK, EndingOK
<1> QED
  BY <1>3, <1>8, BesideKeeps

LEMMA ReleaseKeeps ==
  ASSUME IInv, TypeOK', NEW c \in Client, NEW v \in Wanted[c], ReleaseLock(c, v)
  PROVE  IInv'
<1>1. v \in Key
  BY WantedAssumption
<1>2. Beside(c)
  BY SameLeases, QuietIsBeside DEF IInv, ReleaseLock, Start
<1>3. /\ call'[c].phase = "begin" /\ call'[c].value = v /\ call'[c].expired = {}
      /\ call'[c].op = "release"
  <2>1. call'[c] = NewCall("release", v, NoRow)
    BY DEF ReleaseLock, Start, IInv, TypeOK
  <2> QED
    BY <2>1 DEF NewCall, NoCall
<1>4. RowsOK(c)'
  BY DEF IInv, ClientInv, RowsOK, ReleaseLock, Start, rowVars
<1>5. ClientInv(c)'
  BY <1>1, <1>3, <1>4 DEF ClientInv, CallOK, PurgeOK, RefusedOK, EndingOK, RenewOK
<1> QED
  BY <1>2, <1>5, BesideKeeps

LEMMA RemoveExpiredKeeps ==
  ASSUME IInv, TypeOK', NEW c \in Client, RemoveExpiredLocks(c)
  PROVE  IInv'
<1>1. Beside(c)
  BY SameLeases, QuietIsBeside DEF IInv, RemoveExpiredLocks
<1>2. /\ call'[c].phase = "purging"
      /\ call'[c].op = call[c].op /\ call'[c].value = call[c].value
      /\ call'[c].expiresAt = call[c].expiresAt
      /\ call'[c].expired = {v \in Key : IsExpired(committed[v], clock)} \X {clock}
      /\ call'[c].met = (call[c].op = "acquire" /\ IsLocked(call[c].value))
  <2> DEFINE rows == {v \in Key : IsExpired(committed[v], clock)} \X {clock}
             met  == call[c].op = "acquire" /\ IsLocked(call[c].value)
  <2>1. call'[c] = [call[c] EXCEPT !.phase = "purging", !.expired = rows, !.met = met]
    BY DEF RemoveExpiredLocks, IInv, TypeOK
  <2>2. call[c] \in Call
    BY DEF IInv, TypeOK
  <2> HIDE DEF rows, met
  <2>3. /\ call'[c].phase = "purging"
        /\ call'[c].op = call[c].op /\ call'[c].value = call[c].value
        /\ call'[c].expiresAt = call[c].expiresAt
        /\ call'[c].expired = rows /\ call'[c].met = met
    BY <2>1, <2>2 DEF Call
  <2> QED
    BY <2>3 DEF rows, met
<1>3. UNCHANGED <<rowVars, clock, lease>> /\ call[c].phase = "begin"
  BY DEF RemoveExpiredLocks
<1>4. call[c].value \in Key /\ call[c].op # "none" /\ clock \in Nat
  BY <1>3 DEF IInv, ClientInv, CallOK, TypeOK
<1>5. CallOK(c)'
  BY <1>2, <1>3, <1>4 DEF IInv, ClientInv, CallOK
<1>6. RowsOK(c)'
  BY <1>3 DEF IInv, ClientInv, RowsOK, rowVars
<1>7. PurgeOK(c)'
  <2>1. \A r \in call'[c].expired : r[2] = clock /\ IsExpired(committed[r[1]], clock)
    BY <1>2
  <2>2. IsExpired(committed[call[c].value], clock) => <<call[c].value, clock>> \in call'[c].expired
    BY <1>2, <1>4
  <2>3. (call[c].op = "acquire" /\ ~ call'[c].met) =>
          committed[call[c].value] = NoRow \/ IsExpired(committed[call[c].value], clock)
    <3>1. call[c].op = "acquire" /\ ~ call'[c].met => ~ IsLocked(call[c].value)
      BY <1>2
    <3>2. committed[call[c].value] # NoRow => committed[call[c].value] \in Nat
      BY <1>4, NoRowIsNoTime DEF IInv, TypeOK
    <3>3. ~ IsLocked(call[c].value) =>
            committed[call[c].value] = NoRow \/ IsExpired(committed[call[c].value], clock)
      BY <1>4, <3>2 DEF IsLocked, IsExpired
    <3> QED
      BY <3>1, <3>3
  <2> QED
    BY <1>2, <1>3, <1>4, <2>1, <2>2, <2>3 DEF PurgeOK, rowVars
<1>8. RenewOK(c)'
  BY <1>2, <1>3 DEF IInv, ClientInv, RenewOK
<1> QED
  BY <1>1, <1>2, <1>5, <1>6, <1>7, <1>8, BesideKeeps DEF ClientInv, RefusedOK, EndingOK

LEMMA DeleteExpiredKeeps ==
  ASSUME IInv, TypeOK', NEW c \in Client, NEW v, NEW now, DeleteExpired(c, v, now)
  PROVE  IInv'
<1>1. /\ call[c].phase = "purging" /\ <<v, now>> \in call[c].expired
      /\ Unlocked(c, v) /\ UNCHANGED <<clock, lease, late>>
  BY DEF DeleteExpired
<1>2. v \in Key /\ now \in Nat /\ clock \in Nat /\ now <= clock
  <2>1. call[c].expired \in SUBSET (Key \X Nat)
    BY DEF IInv, TypeOK, Call
  <2>2. \A r \in call[c].expired : r[2] <= clock
    BY <1>1 DEF IInv, ClientInv, PurgeOK
  <2> QED
    BY <1>1, <2>1, <2>2 DEF IInv, TypeOK
<1>3. /\ call' = [call EXCEPT ![c] = [call[c] EXCEPT !.expired = @ \ {<<v, now>>}]]
      /\ call'[c].phase = "purging" /\ call'[c].met = call[c].met
      /\ call'[c].op = call[c].op /\ call'[c].value = call[c].value
      /\ call'[c].expiresAt = call[c].expiresAt
      /\ call'[c].expired = call[c].expired \ {<<v, now>>}
  <2>1. call' = [call EXCEPT ![c] = [call[c] EXCEPT !.expired = @ \ {<<v, now>>}]]
    BY DEF DeleteExpired
  <2>2. call[c] \in Call /\ call'[c] = [call[c] EXCEPT !.expired = @ \ {<<v, now>>}]
    BY <2>1 DEF IInv, TypeOK
  <2> QED
    BY <1>1, <2>1, <2>2 DEF Call
<1>4. \/ /\ IsExpired(committed[v], now)
         /\ UNCHANGED committed
         /\ writer' = [writer EXCEPT ![v] = c] /\ draft' = [draft EXCEPT ![v] = NoRow]
      \/ ~ IsExpired(committed[v], now) /\ UNCHANGED rowVars
  BY DEF DeleteExpired, WriteRow
<1>5. Beside(c)
  <2>1. Lowered
    BY <1>1, SameLeases DEF IInv
  <2>2. \A d \in Client \ {c} : writer[v] # d
    BY <1>1, ClientAssumption DEF Unlocked
  <2> QED
    BY <1>1, <1>2, <1>3, <1>4, <2>1, <2>2 DEF Beside, IInv, TypeOK, rowVars
<1>6. UNCHANGED committed
  BY <1>4 DEF rowVars
<1>7. CallOK(c)'
  BY <1>1, <1>3 DEF IInv, ClientInv, CallOK
<1>8. RowsOK(c)'
  <2> SUFFICES ASSUME NEW k \in Key, writer'[k] = c
               PROVE  draft'[k] = NoRow /\ IsExpired(committed[k], clock)
    BY <1>1, <1>3, <1>6 DEF RowsOK
  <2>1. CASE writer[k] = c /\ draft'[k] = draft[k]
    BY <1>1, <2>1 DEF IInv, ClientInv, RowsOK
  <2>2. CASE k = v /\ IsExpired(committed[v], now) /\ draft'[v] = NoRow
    <3>1. committed[v] \in Nat
      BY <1>2, <2>2, NoRowIsNoTime DEF IsExpired, IInv, TypeOK
    <3> QED
      BY <1>2, <2>2, <3>1 DEF IsExpired
  <2> QED
    BY <1>2, <1>4, <2>1, <2>2 DEF IInv, TypeOK, rowVars
<1>9. PurgeOK(c)'
  <2>1. /\ \A r, s \in call[c].expired : r[2] = s[2]
        /\ \A r \in call[c].expired : r[2] <= clock
    BY <1>1 DEF IInv, ClientInv, PurgeOK
  <2> SUFFICES ASSUME call[c].op = "acquire", ~ call[c].met
               PROVE  /\ \A r \in call'[c].expired : r[1] = call[c].value =>
                           committed[r[1]] = NoRow \/ IsExpired(committed[r[1]], r[2])
                      /\ (\A r \in call'[c].expired : r[1] # call[c].value) =>
                           committed[call[c].value] = NoRow \/ writer'[call[c].value] = c
    BY <1>1, <1>3, <1>6, <2>1 DEF PurgeOK
  <2>2. /\ \A r \in call[c].expired : r[1] = call[c].value =>
             committed[r[1]] = NoRow \/ IsExpired(committed[r[1]], r[2])
        /\ (\A r \in call[c].expired : r[1] # call[c].value) =>
             committed[call[c].value] = NoRow \/ writer[call[c].value] = c
    BY <1>1 DEF IInv, ClientInv, PurgeOK
  <2>3. \A r \in call[c].expired : r = <<r[1], r[2]>>
    BY DEF IInv, TypeOK, Call
  <2>4. ASSUME \A r \in call'[c].expired : r[1] # call[c].value
        PROVE  committed[call[c].value] = NoRow \/ writer'[call[c].value] = c
    <3>1. CASE v = call[c].value
      BY <1>1, <1>2, <1>4, <2>2, <3>1 DEF IInv, TypeOK
    <3>2. CASE v # call[c].value
      <4>1. \A r \in call[c].expired : r[1] # call[c].value
        BY <1>3, <2>4, <3>2
      <4>2. writer'[call[c].value] = writer[call[c].value]
        <5>1. CASE UNCHANGED rowVars
          BY <5>1 DEF rowVars
        <5>2. CASE writer' = [writer EXCEPT ![v] = c]
          BY <3>2, <5>2 DEF IInv, TypeOK
        <5> QED
          BY <1>4, <5>1, <5>2
      <4> QED
        BY <2>2, <4>1, <4>2
    <3> QED
      BY <3>1, <3>2
  <2> QED
    BY <1>3, <2>2, <2>4
<1>10. RenewOK(c)'
  BY <1>1, <1>3 DEF IInv, ClientInv, RenewOK
<1> QED
  BY <1>3, <1>5, <1>7, <1>8, <1>9, <1>10, BesideKeeps DEF ClientInv, RefusedOK, EndingOK

\* What the second statement changes: a row, and the phase.
LEMMA WritesOneRow ==
  ASSUME IInv, NEW c \in Client, NEW row, call[c].phase = "purging", Writes(c, row)
  PROVE  /\ call[c].value \in Key
         /\ call'[c].phase = "ending" /\ call'[c].expired = call[c].expired
         /\ call'[c].op = call[c].op /\ call'[c].value = call[c].value
         /\ call'[c].expiresAt = call[c].expiresAt
         /\ \A d \in Client \ {c} : call'[d] = call[d] /\ writer[call[c].value] # d
         /\ writer' = [writer EXCEPT ![call[c].value] = c]
         /\ draft' = [draft EXCEPT ![call[c].value] = row]
         /\ UNCHANGED <<committed, clock>>
<1>1. call[c].value \in Key
  BY DEF IInv, ClientInv, CallOK
<1>2. call[c] \in Call /\ call'[c] = [call[c] EXCEPT !.phase = "ending", !.met = FALSE]
  BY DEF Writes, IInv, TypeOK
<1>3. /\ call'[c].phase = "ending" /\ call'[c].expired = call[c].expired
      /\ call'[c].op = call[c].op /\ call'[c].value = call[c].value
      /\ call'[c].expiresAt = call[c].expiresAt
  BY <1>2 DEF Call
<1>4. \A d \in Client \ {c} : call'[d] = call[d] /\ writer[call[c].value] # d
  BY ClientAssumption DEF Writes, Unlocked, IInv, TypeOK
<1> QED
  BY <1>1, <1>3, <1>4 DEF Writes, WriteRow

\* A client that counts on a lock changes nothing of what is promised; another
\* voids the promise, and nobody counts on the lock any more.
LEMMA NotedLate ==
  ASSUME IInv, NEW c \in Client, call[c].value \in Key, NoteLate(c)
  PROVE  /\ Lowered
         /\ \A v \in Key : late[v] => late'[v]
         /\ ~ late'[call[c].value] => Holds(c, call[c].value) /\ UNCHANGED <<lease, late>>
<1>1. CASE Holds(c, call[c].value)
  BY <1>1, SameLeases DEF NoteLate, IInv
<1>2. CASE ~ Holds(c, call[c].value)
  <2>1. \A d \in Client, v \in Key : lease'[d][v] = lease[d][v] \/ lease'[d][v] = NoRow
    BY <1>2 DEF NoteLate, IInv, TypeOK
  <2>2. Lowered
    BY <2>1, NoRowIsNoTime DEF Lowered, IInv, TypeOK
  <2>3. late' = [late EXCEPT ![call[c].value] = TRUE]
    BY <1>2 DEF NoteLate
  <2> QED
    BY <2>2, <2>3 DEF IInv, TypeOK
<1> QED
  BY <1>1, <1>2

\* A row the transaction's deletion took is not there for its second statement.
LEMMA SeenRow ==
  ASSUME IInv, NEW c \in Client, call[c].phase = "purging"
  PROVE  /\ call[c].value \in Key
         /\ Seen(c, call[c].value) = NoRow =>
              committed[call[c].value] = NoRow \/ IsExpired(committed[call[c].value], clock)
         /\ Seen(c, call[c].value) # NoRow =>
              writer[call[c].value] # c /\ committed[call[c].value] # NoRow
BY DEF IInv, ClientInv, CallOK, RowsOK, Seen

LEMMA WriteKeeps ==
  ASSUME IInv, TypeOK', NEW c \in Client, Insert(c) \/ Update(c) \/ Delete(c)
  PROVE  IInv'
<1>1. PICK row : /\ Writes(c, row)
                 /\ row = IF call[c].op = "release" THEN NoRow ELSE call[c].expiresAt
  BY DEF Insert, Update, Delete
<1>2. call[c].phase = "purging" /\ call[c].op \in {"acquire", "renew", "release"}
  BY DEF Insert, Update, Delete, Purged
<1>3. /\ call[c].value \in Key
      /\ call'[c].phase = "ending" /\ call'[c].expired = call[c].expired
      /\ call'[c].op = call[c].op /\ call'[c].value = call[c].value
      /\ call'[c].expiresAt = call[c].expiresAt
      /\ \A d \in Client \ {c} : call'[d] = call[d] /\ writer[call[c].value] # d
      /\ writer' = [writer EXCEPT ![call[c].value] = c]
      /\ draft' = [draft EXCEPT ![call[c].value] = row]
      /\ UNCHANGED <<committed, clock>>
  BY <1>1, <1>2, WritesOneRow
<1>4. UNCHANGED <<lease, late>> \/ NoteLate(c)
  BY DEF Insert, Update, Delete
<1>5. Lowered /\ \A v \in Key : late[v] => late'[v]
  BY <1>3, <1>4, NotedLate, SameLeases DEF IInv
<1>6. /\ \A k \in Key \ {call[c].value} : writer'[k] = writer[k] /\ draft'[k] = draft[k]
      /\ writer'[call[c].value] = c /\ draft'[call[c].value] = row
  BY <1>3 DEF IInv, TypeOK
<1>7. Beside(c)
  BY <1>3, <1>5, <1>6 DEF Beside
<1>8. CallOK(c)'
  BY <1>2, <1>3 DEF IInv, ClientInv, CallOK
<1>9. RowsOK(c)'
  BY <1>2, <1>3, <1>6 DEF IInv, ClientInv, RowsOK
<1>10. EndingOK(c)'
  <2>1. call[c].op = "acquire" =>
          committed[call[c].value] = NoRow \/ IsExpired(committed[call[c].value], clock)
    BY <1>2, SeenRow DEF Insert, Update, Delete
  <2>2. call[c].op = "renew" => committed[call[c].value] # NoRow
    BY <1>2, SeenRow DEF Insert, Update, Delete
  <2>3. call[c].op \in {"renew", "release"} /\ ~ late'[call[c].value] =>
          OnlyHolder(c, call[c].value)'
    <3> SUFFICES ASSUME call[c].op \in {"renew", "release"}, ~ late'[call[c].value]
                 PROVE  OnlyHolder(c, call[c].value)'
      OBVIOUS
    <3>1. Holds(c, call[c].value) /\ UNCHANGED <<lease, late>>
      BY <1>3, NotedLate DEF Insert, Update, Delete
    <3>2. OnlyHolder(c, call[c].value)
      BY <1>3, <3>1 DEF IInv, LeaseOK
    <3> QED
      BY <1>3, <3>1, <3>2 DEF OnlyHolder, Holds
  <2> QED
    BY <1>1, <1>3, <1>6, <2>1, <2>2, <2>3 DEF EndingOK, OnlyHolder
<1>11. RenewOK(c)'
  <2> SUFFICES ASSUME call[c].op = "renew", lease'[c][call[c].value] # NoRow
               PROVE  lease'[c][call[c].value] <= call[c].expiresAt
    BY <1>3 DEF RenewOK
  <2>1. call[c].expiresAt \in Nat
    BY NoRowIsNoTime DEF IInv, ClientInv, CallOK
  <2> QED
    BY <1>3, <1>5, <2>1, NoRowIsNoTime DEF IInv, TypeOK, ClientInv, RenewOK, Lowered
<1> QED
  BY <1>2, <1>3, <1>7, <1>8, <1>9, <1>10, <1>11, BesideKeeps
     DEF ClientInv, PurgeOK, RefusedOK

LEMMA MissKeeps ==
  ASSUME IInv, TypeOK', NEW c \in Client, InsertConflict(c) \/ UpdateMiss(c) \/ DeleteNothing(c)
  PROVE  IInv'
<1>1. /\ Purged(c) /\ call[c].phase = "purging" /\ call[c].op \in {"acquire", "renew", "release"}
      /\ UNCHANGED <<rowVars, clock, lease, late>>
  BY DEF InsertConflict, UpdateMiss, DeleteNothing, Purged
<1>2. PICK p \in {"refused", "ending"} :
        /\ call' = [call EXCEPT ![c] = [call[c] EXCEPT !.phase = p]]
        /\ p = "ending" <=> call[c].op = "release"
  BY DEF InsertConflict, UpdateMiss, DeleteNothing
<1>3. /\ call'[c].phase = p /\ call'[c].op = call[c].op /\ call'[c].value = call[c].value
      /\ call'[c].expired = call[c].expired /\ call'[c].expiresAt = call[c].expiresAt
      /\ call'[c].met = call[c].met
  <2>1. call[c] \in Call /\ call'[c] = [call[c] EXCEPT !.phase = p]
    BY <1>2 DEF IInv, TypeOK
  <2> QED
    BY <2>1 DEF Call
<1>4. Beside(c)
  BY <1>1, <1>2, SameLeases, QuietIsBeside DEF IInv
<1>5. CallOK(c)'
  BY <1>1, <1>2, <1>3 DEF IInv, ClientInv, CallOK
<1>6. RowsOK(c)'
  BY <1>1, <1>2, <1>3 DEF IInv, ClientInv, RowsOK, rowVars
<1>7. RefusedOK(c)'
  <2> SUFFICES ASSUME call[c].op = "acquire", ~ call[c].met PROVE FALSE
    BY <1>3 DEF RefusedOK
  <2>1. Seen(c, call[c].value) # NoRow
    BY DEF InsertConflict, UpdateMiss, DeleteNothing
  <2>2. committed[call[c].value] = NoRow \/ writer[call[c].value] = c
    BY <1>1 DEF Purged, IInv, ClientInv, PurgeOK
  <2> QED
    BY <1>1, <2>1, <2>2, SeenRow
<1>8. EndingOK(c)'
  <2> SUFFICES ASSUME call[c].op = "release", writer[call[c].value] = c
               PROVE  /\ draft[call[c].value] = NoRow
                      /\ ~ late[call[c].value] => OnlyHolder(c, call[c].value)
    BY <1>1, <1>2, <1>3 DEF EndingOK, rowVars, OnlyHolder, Holds
  <2>1. call[c].value \in Key
    BY <1>1, SeenRow
  <2>2. draft[call[c].value] = NoRow /\ IsExpired(committed[call[c].value], clock)
    BY <1>1, <2>1 DEF IInv, ClientInv, RowsOK
  <2>3. ASSUME ~ late[call[c].value], NEW d \in Client, Holds(d, call[c].value)
        PROVE  FALSE
    <3>1. lease[d][call[c].value] <= committed[call[c].value]
      BY <2>1, <2>3 DEF IInv, LeaseOK
    <3>2. /\ lease[d][call[c].value] \in Nat /\ committed[call[c].value] \in Nat
          /\ clock \in Nat
      BY <2>1, <2>2, <2>3, NoRowIsNoTime DEF IInv, TypeOK, Holds, IsExpired
    <3> QED
      BY <2>2, <2>3, <3>1, <3>2 DEF Holds, IsExpired
  <2> QED
    BY <2>2, <2>3 DEF OnlyHolder
<1>9. RenewOK(c)'
  BY <1>1, <1>3 DEF IInv, ClientInv, RenewOK
<1> QED
  BY <1>1, <1>2, <1>3, <1>4, <1>5, <1>6, <1>7, <1>8, <1>9, BesideKeeps DEF ClientInv, PurgeOK

\* A transaction that is rolled back leaves the rows as they were.
LEMMA RollbackKeeps ==
  ASSUME IInv, TypeOK', NEW c \in Client, Rollback(c) \/ Abort(c)
  PROVE  IInv'
<1>1. RollsBack(c)
  BY DEF Rollback, Abort
<1>2. /\ UNCHANGED <<committed, clock, lease, late>>
      /\ \A k \in Key : writer'[k] = IF writer[k] = c THEN NoClient ELSE writer[k]
      /\ \A k \in Key : writer[k] # c => draft'[k] = draft[k]
  BY <1>1 DEF RollsBack, RollbackRows, Unlock
<1>3. call'[c] = NoCall /\ \A d \in Client \ {c} : call'[d] = call[d]
  BY <1>1 DEF RollsBack, IInv, TypeOK
<1>4. Beside(c)
  BY <1>2, <1>3, SameLeases, ClientAssumption DEF Beside, IInv
<1>5. \A k \in Key : writer'[k] # c
  BY <1>2, ClientAssumption
<1>6. ClientInv(c)'
  BY <1>3, <1>5 DEF ClientInv, NoCall, CallOK, RowsOK, PurgeOK, RefusedOK, EndingOK, RenewOK
<1> QED
  BY <1>4, <1>6, BesideKeeps

-----------------------------------------------------------------------------
(* COMMIT *)

\* Rows of the transaction that its second statement did not write have expired.
LEMMA DeletedRows ==
  ASSUME IInv, NEW c \in Client, call[c].phase = "ending"
  PROVE  /\ call[c].value \in Key /\ call[c].op \in {"acquire", "renew", "release"}
         /\ \A k \in Key : writer[k] = c /\ k # call[c].value =>
              draft[k] = NoRow /\ IsExpired(committed[k], clock)
         /\ call[c].op # "release" =>
              writer[call[c].value] = c /\ draft[call[c].value] = call[c].expiresAt
         /\ call[c].op = "acquire" =>
              committed[call[c].value] = NoRow \/ IsExpired(committed[call[c].value], clock)
         /\ call[c].op = "renew" => committed[call[c].value] # NoRow
         /\ call[c].op = "release" /\ writer[call[c].value] = c => draft[call[c].value] = NoRow
         /\ (call[c].op # "acquire" /\ writer[call[c].value] = c /\ ~ late[call[c].value]) =>
              OnlyHolder(c, call[c].value)
<1>1. call[c].value \in Key /\ call[c].op \in {"acquire", "renew", "release"}
  BY DEF IInv, ClientInv, CallOK, TypeOK, Call
<1>2. RowsOK(c) /\ EndingOK(c)
  BY DEF IInv, ClientInv
<1> QED
  BY <1>1, <1>2 DEF RowsOK, EndingOK

\* What a commit does, whether its client hears of it or not.
Committed(c) ==
  /\ call[c].phase = "ending" /\ CommitRows(c) /\ call' = Ended(c)
  /\ UNCHANGED <<clock, late>>
  /\ lease' = NewLease(c) \/ (UNCHANGED lease /\ call[c].op # "release")

LEMMA CommitsAre ==
  ASSUME IInv, NEW c \in Client, Committed(c)
  PROVE  /\ \A k \in Key : writer[k] = c =>
              committed'[k] = draft[k] /\ writer'[k] = NoClient
         /\ \A k \in Key : writer[k] # c =>
              committed'[k] = committed[k] /\ writer'[k] = writer[k] /\ draft'[k] = draft[k]
         /\ call'[c] = NoCall
         /\ \A d \in Client \ {c} :
              /\ call'[d].op = call[d].op /\ call'[d].value = call[d].value
              /\ call'[d].expiresAt = call[d].expiresAt /\ call'[d].phase = call[d].phase
              /\ call'[d].expired = call[d].expired
              /\ call'[d].met = (call[d].met \/ Meets(c, d))
         /\ \A d \in Client, v \in Key : d # c \/ v # call[c].value => lease'[d][v] = lease[d][v]
<1>1. /\ \A k \in Key : writer[k] = c =>
           committed'[k] = draft[k] /\ writer'[k] = NoClient
      /\ \A k \in Key : writer[k] # c =>
           committed'[k] = committed[k] /\ writer'[k] = writer[k] /\ draft'[k] = draft[k]
  BY DEF Committed, CommitRows, Unlock, Seen
<1>2. call'[c] = NoCall
  BY DEF Committed, Ended
<1>3. ASSUME NEW d \in Client \ {c}
      PROVE  /\ call'[d].op = call[d].op /\ call'[d].value = call[d].value
             /\ call'[d].expiresAt = call[d].expiresAt /\ call'[d].phase = call[d].phase
             /\ call'[d].expired = call[d].expired
             /\ call'[d].met = (call[d].met \/ Meets(c, d))
  <2> DEFINE met == call[d].met \/ Meets(c, d)
  <2>1. call[d] \in Call /\ call'[d] = [call[d] EXCEPT !.met = met]
    BY DEF Committed, Ended, IInv, TypeOK
  <2> HIDE DEF met
  <2>2. /\ call'[d].op = call[d].op /\ call'[d].value = call[d].value
        /\ call'[d].expiresAt = call[d].expiresAt /\ call'[d].phase = call[d].phase
        /\ call'[d].expired = call[d].expired /\ call'[d].met = met
    BY <2>1 DEF Call
  <2> QED
    BY <2>2 DEF met
<1>4. \A d \in Client, v \in Key : d # c \/ v # call[c].value => lease'[d][v] = lease[d][v]
  BY DEF Committed, NewLease, IInv, TypeOK
<1> QED
  BY <1>1, <1>2, <1>3, <1>4

\* A client that counts on a lock it did not before has it committed.
LEMMA CommitLeases ==
  ASSUME IInv, NEW c \in Client, Committed(c), NEW d \in Client, NEW v \in Key,
         ~ late[v], Holds(d, v)'
  PROVE  \/ /\ d = c /\ v = call[c].value /\ call[c].op # "release"
            /\ lease'[d][v] = call[c].expiresAt
         \/ /\ lease'[d][v] = lease[d][v] /\ Holds(d, v)
            /\ d = c /\ v = call[c].value => call[c].op # "release"
<1>1. d # c \/ v # call[c].value => lease'[d][v] = lease[d][v]
  BY CommitsAre
<1>2. ASSUME lease' = NewLease(c), d = c, v = call[c].value
      PROVE  call[c].op # "release" /\ lease'[d][v] = call[c].expiresAt
  BY <1>2 DEF NewLease, Holds, IInv, TypeOK
<1>3. CASE lease' = NewLease(c) /\ d = c /\ v = call[c].value
  BY <1>2, <1>3
<1>4. CASE lease'[d][v] = lease[d][v] /\ (d = c /\ v = call[c].value => call[c].op # "release")
  BY <1>4 DEF Holds, Committed
<1> QED
  BY <1>1, <1>3, <1>4 DEF Committed

\* Nobody counts on a lock that expired.
LEMMA ExpiredIsNotHeld ==
  ASSUME IInv, NEW v \in Key, ~ late[v], NEW d \in Client, Holds(d, v)
  PROVE  /\ committed[v] # NoRow /\ ~ IsExpired(committed[v], clock)
         /\ lease[d][v] <= committed[v] /\ OnlyHolder(d, v)
<1>1. committed[v] # NoRow /\ lease[d][v] <= committed[v] /\ OnlyHolder(d, v)
  BY DEF IInv, LeaseOK
<1>2. lease[d][v] \in Nat /\ committed[v] \in Nat /\ clock \in Nat /\ lease[d][v] >= clock
  BY <1>1, NoRowIsNoTime DEF IInv, TypeOK, Holds
<1> QED
  BY <1>1, <1>2 DEF IsExpired

LEMMA CommitKeepsLeases ==
  ASSUME IInv, TypeOK', NEW c \in Client, Committed(c), NEW v \in Key
  PROVE  LeaseOK(v)'
<1> SUFFICES ASSUME ~ late[v], NEW d \in Client, Holds(d, v)'
             PROVE  committed'[v] # NoRow /\ lease'[d][v] <= committed'[v] /\ OnlyHolder(d, v)'
  BY DEF LeaseOK, Committed
<1>1. call[c].phase = "ending"
  BY DEF Committed
<1>2. \A x \in Client : Holds(x, v)' =>
        \/ x = c /\ v = call[c].value /\ call[c].op # "release"
        \/ Holds(x, v)
  BY CommitLeases
<1>3. CASE d = c /\ v = call[c].value /\ call[c].op # "release"
           /\ lease'[d][v] = call[c].expiresAt
  <2>1. call[c].expiresAt \in Expiry
    BY <1>1, <1>3, DeletedRows DEF IInv, ClientInv, CallOK
  <2>2. committed'[v] = call[c].expiresAt
    BY <1>1, <1>3, DeletedRows, CommitsAre
  <2>3. \A x \in Client : Holds(x, v) => x = c
    <3>1. CASE call[c].op = "acquire"
      BY <1>1, <1>3, <3>1, DeletedRows, ExpiredIsNotHeld
    <3>2. CASE call[c].op = "renew"
      BY <1>1, <1>3, <3>2, DeletedRows DEF OnlyHolder
    <3> QED
      BY <1>1, <1>3, <3>1, <3>2, DeletedRows
  <2> QED
    BY <1>2, <1>3, <2>1, <2>2, <2>3, NoRowIsNoTime DEF OnlyHolder
<1>4. CASE lease'[d][v] = lease[d][v] /\ Holds(d, v)
           /\ (d = c /\ v = call[c].value => call[c].op # "release")
  <2>1. /\ committed[v] # NoRow /\ ~ IsExpired(committed[v], clock)
        /\ lease[d][v] <= committed[v] /\ OnlyHolder(d, v)
    BY <1>4, ExpiredIsNotHeld
  <2>2. CASE writer[v] # c
    <3>1. v = call[c].value => call[c].op = "release"
      BY <1>1, <2>2, DeletedRows
    <3> QED
      BY <1>2, <1>4, <2>1, <2>2, <3>1, CommitsAre DEF OnlyHolder
  <2>3. CASE writer[v] = c
    <3>1. v = call[c].value /\ call[c].op # "acquire"
      BY <1>1, <2>1, <2>3, DeletedRows
    <3>2. OnlyHolder(c, v)
      BY <1>1, <2>3, <3>1, DeletedRows
    <3>3. d = c /\ call[c].op = "renew"
      BY <1>1, <1>4, <3>1, <3>2, DeletedRows DEF OnlyHolder
    <3>4. committed'[v] = call[c].expiresAt /\ call[c].expiresAt \in Expiry
      BY <1>1, <2>3, <3>1, <3>3, DeletedRows, CommitsAre DEF IInv, ClientInv, CallOK
    <3>5. lease[c][v] <= call[c].expiresAt
      BY <1>4, <3>1, <3>3 DEF IInv, ClientInv, RenewOK, Holds
    <3>6. OnlyHolder(d, v)'
      BY <1>2, <2>1, <3>3 DEF OnlyHolder
    <3> QED
      BY <1>4, <3>3, <3>4, <3>5, <3>6, NoRowIsNoTime
  <2> QED
    BY <2>2, <2>3
<1> QED
  BY <1>3, <1>4, CommitLeases

LEMMA CommitKeepsOthers ==
  ASSUME IInv, TypeOK', NEW c \in Client, Committed(c), NEW d \in Client, d # c
  PROVE  ClientInv(d)'
<1>1. /\ call'[d].op = call[d].op /\ call'[d].value = call[d].value
      /\ call'[d].expiresAt = call[d].expiresAt /\ call'[d].phase = call[d].phase
      /\ call'[d].expired = call[d].expired
      /\ call'[d].met = (call[d].met \/ Meets(c, d))
  BY CommitsAre
<1>2. \A k \in Key : writer'[k] = d <=> writer[k] = d
  BY CommitsAre, ClientAssumption
<1>3. \A k \in Key : writer[k] # c => committed'[k] = committed[k] /\ draft'[k] = draft[k]
  BY CommitsAre
<1>4. \A k \in Key : writer[k] = c => committed'[k] = draft[k]
  BY CommitsAre
<1>5. UNCHANGED <<clock, late>> /\ call[c].phase = "ending"
  BY DEF Committed
<1>6. CallOK(d)'
  BY <1>1 DEF IInv, ClientInv, CallOK
<1>7. RowsOK(d)'
  BY <1>1, <1>2, <1>3, <1>5 DEF IInv, ClientInv, RowsOK
<1>8. PurgeOK(d)'
  <2> SUFFICES ASSUME call[d].phase = "purging" PROVE PurgeOK(d)'
    BY <1>1 DEF PurgeOK
  <2>1. /\ \A r, s \in call[d].expired : r[2] = s[2]
        /\ \A r \in call[d].expired : r[2] <= clock
    BY DEF IInv, ClientInv, PurgeOK
  <2>2. ASSUME call[d].op = "acquire", ~ call'[d].met
        PROVE  /\ \A r \in call[d].expired : r[1] = call[d].value =>
                    committed'[r[1]] = NoRow \/ IsExpired(committed'[r[1]], r[2])
               /\ (\A r \in call[d].expired : r[1] # call[d].value) =>
                    committed'[call[d].value] = NoRow \/ writer'[call[d].value] = d
    <3>1. call[d].value \in Key
      BY DEF IInv, ClientInv, CallOK
    <3>2. ~ call[d].met /\ ~ Meets(c, d)
      BY <1>1, <2>2
    <3>3. /\ \A r \in call[d].expired : r[1] = call[d].value =>
               committed[r[1]] = NoRow \/ IsExpired(committed[r[1]], r[2])
          /\ (\A r \in call[d].expired : r[1] # call[d].value) =>
               committed[call[d].value] = NoRow \/ writer[call[d].value] = d
      BY <2>2, <3>2 DEF IInv, ClientInv, PurgeOK
    <3>4. CASE writer[call[d].value] = c
      <4>1. committed'[call[d].value] = NoRow
        BY <1>4, <2>2, <3>1, <3>2, <3>4 DEF Meets
      <4> QED
        BY <4>1
    <3>5. CASE writer[call[d].value] # c
      BY <1>2, <1>3, <3>1, <3>3, <3>5
    <3> QED
      BY <3>4, <3>5
  <2> QED
    BY <1>1, <1>5, <2>1, <2>2 DEF PurgeOK
<1>9. RefusedOK(d)'
  BY <1>1 DEF IInv, ClientInv, RefusedOK
<1>10. EndingOK(d)'
  <2> SUFFICES ASSUME call[d].phase = "ending" PROVE EndingOK(d)'
    BY <1>1 DEF EndingOK
  <2>1. call[d].value \in Key
    BY DeletedRows
  <2>2. writer[call[d].value] = d =>
          committed'[call[d].value] = committed[call[d].value]
          /\ draft'[call[d].value] = draft[call[d].value]
    BY <1>3, <2>1
  <2>3. ASSUME NEW v \in Key, writer[v] = d, ~ late[v], OnlyHolder(d, v)
        PROVE  OnlyHolder(d, v)'
    <3> SUFFICES ASSUME NEW x \in Client, Holds(x, v)' PROVE x = d
      BY DEF OnlyHolder
    <3>1. (v = call[c].value /\ call[c].op # "release") \/ Holds(x, v)
      BY <2>3, CommitLeases
    <3>2. ~ (v = call[c].value /\ call[c].op # "release")
      BY <1>5, <2>3, DeletedRows
    <3> QED
      BY <2>3, <3>1, <3>2 DEF OnlyHolder
  <2> QED
    BY <1>1, <1>2, <1>5, <2>1, <2>2, <2>3 DEF IInv, ClientInv, EndingOK, OnlyHolder
<1>11. RenewOK(d)'
  BY <1>1, CommitsAre DEF IInv, ClientInv, CallOK, RenewOK
<1> QED
  BY <1>6, <1>7, <1>8, <1>9, <1>10, <1>11 DEF ClientInv

LEMMA CommitKeeps ==
  ASSUME IInv, TypeOK', NEW c \in Client, Commit(c) \/ CommitUnheard(c)
  PROVE  IInv'
<1>1. Committed(c)
  BY DEF Commit, CommitUnheard, Committed
<1>2. \A k \in Key : writer'[k] # c
  BY <1>1, CommitsAre, ClientAssumption
<1>3. ClientInv(c)'
  <2>1. call'[c] = NoCall
    BY <1>1, CommitsAre
  <2> QED
    BY <1>2, <2>1
       DEF ClientInv, NoCall, CallOK, RowsOK, PurgeOK, RefusedOK, EndingOK, RenewOK
<1> QED
  BY <1>1, <1>3, CommitKeepsOthers, CommitKeepsLeases DEF IInv

-----------------------------------------------------------------------------
(* The passing of time *)

LEMMA TickKeeps == ASSUME IInv, TypeOK', Tick PROVE IInv'
<1>1. UNCHANGED <<committed, writer, draft, call, lease, late>> /\ clock' = clock + 1
  BY DEF Tick, rowVars
<1>2. clock \in Nat
  BY DEF IInv, TypeOK
<1>3. ASSUME NEW k \in Key, IsExpired(committed[k], clock)
      PROVE  IsExpired(committed[k], clock')
  <2>1. committed[k] \in Nat
    BY <1>3, NoRowIsNoTime DEF IInv, TypeOK, IsExpired
  <2> QED
    BY <1>1, <1>2, <1>3, <2>1 DEF IsExpired
<1>4. ASSUME NEW d \in Client, NEW v \in Key, Holds(d, v)'
      PROVE  Holds(d, v)
  <2>1. lease[d][v] \in Nat
    BY <1>1, <1>4, NoRowIsNoTime DEF IInv, TypeOK, Holds
  <2> QED
    BY <1>1, <1>2, <1>4, <2>1 DEF Holds
<1>5. \A d \in Client, v \in Key : OnlyHolder(d, v) => OnlyHolder(d, v)'
  BY <1>4 DEF OnlyHolder
<1>6. ASSUME NEW c \in Client PROVE ClientInv(c)'
  <2>1. CallOK(c)' /\ RefusedOK(c)' /\ RenewOK(c)'
    BY <1>1 DEF IInv, ClientInv, CallOK, RefusedOK, RenewOK
  <2>2. RowsOK(c)'
    BY <1>1, <1>3 DEF IInv, ClientInv, RowsOK
  <2>3. PurgeOK(c)'
    <3>1. \A r \in call[c].expired : r[2] \in Nat
      BY DEF IInv, TypeOK, Call
    <3>2. call[c].phase = "purging" => \A r \in call[c].expired : r[2] <= clock'
      BY <1>1, <1>2, <3>1 DEF IInv, ClientInv, PurgeOK
    <3> QED
      BY <1>1, <3>2 DEF IInv, ClientInv, PurgeOK
  <2>4. EndingOK(c)'
    <3> SUFFICES ASSUME call[c].phase = "ending" PROVE EndingOK(c)'
      BY <1>1 DEF EndingOK
    <3> QED
      BY <1>1, <1>3, <1>5, DeletedRows DEF EndingOK
  <2> QED
    BY <2>1, <2>2, <2>3, <2>4 DEF ClientInv
<1>7. ASSUME NEW v \in Key PROVE LeaseOK(v)'
  BY <1>1, <1>4, <1>5 DEF IInv, LeaseOK
<1> QED
  BY <1>6, <1>7 DEF IInv

-----------------------------------------------------------------------------
(* The invariant, and what follows from it *)

LEMMA InitInv == Init => IInv
<1> SUFFICES ASSUME Init PROVE IInv
  OBVIOUS
<1>1. \A k \in Key : writer[k] = NoClient
  BY DEF Init, SomeRows
<1>2. ASSUME NEW c \in Client PROVE ClientInv(c)
  <2>1. call[c] = NoCall
    BY DEF Init
  <2> QED
    BY <1>1, <2>1, ClientAssumption
       DEF ClientInv, NoCall, CallOK, RowsOK, PurgeOK, RefusedOK, EndingOK, RenewOK
<1>3. \A v \in Key : LeaseOK(v)
  BY DEF Init, LeaseOK, Holds
<1> QED
  BY <1>2, <1>3, InitTypes DEF IInv

LEMMA InvKept == IInv /\ [Next]_vars => IInv'
<1> SUFFICES ASSUME IInv, [Next]_vars PROVE IInv'
  OBVIOUS
<1>1. TypeOK'
  BY TypesKept DEF IInv
<1>2. ASSUME NEW c \in Client, NEW v \in Wanted[c], NEW e \in Expiry,
             AcquireLock(c, v, e) \/ RenewLock(c, v, e)
      PROVE  IInv'
  BY <1>1, <1>2, StartKeeps
<1>3. ASSUME NEW c \in Client, NEW v \in Wanted[c], ReleaseLock(c, v)
      PROVE  IInv'
  BY <1>1, <1>3, ReleaseKeeps
<1>4. ASSUME NEW c \in Client, Progress(c) \/ CommitUnheard(c) \/ Abort(c)
      PROVE  IInv'
  BY <1>1, <1>4, RemoveExpiredKeeps, DeleteExpiredKeeps, WriteKeeps, MissKeeps, CommitKeeps,
     RollbackKeeps DEF Progress
<1>5. CASE Tick
  BY <1>1, <1>5, TickKeeps
<1>6. CASE UNCHANGED vars
  BY <1>1, <1>6
     DEF IInv, vars, rowVars, ClientInv, CallOK, RowsOK, PurgeOK, RefusedOK, EndingOK, RenewOK,
         LeaseOK, OnlyHolder, Holds
<1> QED
  BY <1>2, <1>3, <1>4, <1>5, <1>6 DEF Next

\* The invariant holds.
THEOREM InvCorrect == Spec => []IInv
BY InitInv, InvKept, PTL DEF Spec

\* Two clients do not count on one lock at a time.
THEOREM OneHolderCorrect == Spec => []OneHolder
<1>1. IInv => OneHolder
  BY DEF IInv, LeaseOK, OnlyHolder, OneHolder
<1> QED
  BY <1>1, InvCorrect, PTL

\* acquireLock is refused only for a lock that is, or was meanwhile, in place.
THEOREM RefusedMetALockCorrect == Spec => []RefusedMetALock
<1>1. IInv => RefusedMetALock
  BY DEF IInv, ClientInv, RefusedOK, RefusedMetALock
<1> QED
  BY <1>1, InvCorrect, PTL

-----------------------------------------------------------------------------
(* The store implements leases *)

LEMMA InitGranted == Init => Granted!Init
BY DEF Init, SomeRows, Granted!Init

\* Statements that do not write to the table are of no concern, but that of a
\* client which renews or releases a lock it does not count on.
LEMMA NoteIsGranted ==
  ASSUME IInv, NEW c \in Client, call[c].value \in Key, UNCHANGED <<clock, committed>>,
         UNCHANGED <<lease, late>> \/ NoteLate(c)
  PROVE  [Granted!Next]_(Granted!vars)
<1>1. CASE UNCHANGED <<lease, late>>
  BY <1>1 DEF Granted!vars
<1>2. CASE NoteLate(c) /\ ~ Holds(c, call[c].value)
  <2>1. Granted!Contest(c, call[c].value)
    BY <1>2 DEF NoteLate, Holds, Granted!Contest, Granted!Holds
  <2> QED
    BY <2>1 DEF Granted!Next
<1> QED
  BY <1>1, <1>2 DEF NoteLate

\* What a client asks for when it renews is all it counts on from then on.
LEMMA RenewIsGranted ==
  ASSUME IInv, NEW c \in Client, NEW v \in Wanted[c], NEW e \in Expiry, RenewLock(c, v, e)
  PROVE  [Granted!Next]_(Granted!vars)
<1>1. v \in Key
  BY WantedAssumption
<1>2. UNCHANGED <<clock, committed, late>>
  BY DEF RenewLock, Start, rowVars
<1>3. CASE lease[c][v] # NoRow /\ e < lease[c][v]
  <2>1. lease' = [lease EXCEPT ![c][v] = e]
    BY <1>3 DEF RenewLock
  <2>2. e <= lease[c][v]
    BY <1>1, <1>3, NoRowIsNoTime DEF IInv, TypeOK
  <2>3. Granted!Shorten(c, v, e)
    BY <1>2, <1>3, <2>1, <2>2 DEF Granted!Shorten
  <2> QED
    BY <1>1, <2>3 DEF Granted!Next
<1>4. CASE ~ (lease[c][v] # NoRow /\ e < lease[c][v])
  <2>1. UNCHANGED lease
    BY <1>1, <1>4 DEF RenewLock, IInv, TypeOK
  <2> QED
    BY <1>2, <2>1 DEF Granted!vars
<1> QED
  BY <1>3, <1>4

\* A commit grants, extends or frees one lock, and forgets those that the call
\* deleted because they have expired.
LEMMA CommitIsGranted ==
  ASSUME IInv, NEW c \in Client, Committed(c)
  PROVE  Granted!Next
<1> DEFINE v         == call[c].value
           forgotten == {k \in Key : writer[k] = c /\ k # v}
<1>1. call[c].phase = "ending" /\ UNCHANGED <<clock, late>>
  BY DEF Committed
<1>2. v \in Key /\ call[c].op \in {"acquire", "renew", "release"}
  BY <1>1, DeletedRows
<1>3. \A k \in forgotten : draft[k] = NoRow /\ IsExpired(committed[k], clock)
  BY <1>1, DeletedRows
<1>4. forgotten \in SUBSET Granted!Expired
  BY <1>3 DEF IsExpired, Granted!Expired
<1>5. committed' = [k \in Key |-> Seen(c, k)]
  BY DEF Committed, CommitRows
<1>6. CASE writer[v] = c
  <2>1. committed' = [Granted!Forget(forgotten) EXCEPT ![v] = draft[v]]
    BY <1>2, <1>3, <1>5, <1>6 DEF Seen, Granted!Forget
  <2>2. ~ (call[c].op = "acquire") => Granted!Own(c, v)
    <3>1. call[c].op # "acquire" /\ ~ late[v] => OnlyHolder(c, v)
      BY <1>1, <1>6, DeletedRows
    <3> QED
      BY <3>1 DEF OnlyHolder, Holds, Granted!Own, Granted!Holds
  <2>3. CASE call[c].op # "release"
    <3>1. call[c].expiresAt \in Expiry /\ draft[v] = call[c].expiresAt
      BY <1>1, <1>2, <2>3, DeletedRows DEF IInv, ClientInv, CallOK
    <3>2. lease' \in {lease, [lease EXCEPT ![c][v] = IF late[v] THEN NoRow ELSE call[c].expiresAt]}
      BY <2>3 DEF Committed, NewLease
    <3>3. Granted!Locked(c, v, call[c].expiresAt, forgotten)
      BY <1>1, <2>1, <3>1, <3>2 DEF Granted!Locked
    <3>4. CASE call[c].op = "acquire"
      <4>1. committed[v] = NoRow \/ v \in Granted!Expired
        BY <1>1, <1>2, <3>4, DeletedRows DEF IsExpired, Granted!Expired
      <4>2. Granted!Grant(c, v, call[c].expiresAt, forgotten)
        BY <3>3, <4>1 DEF Granted!Grant
      <4> HIDE DEF forgotten, v
      <4> QED
        BY <1>2, <1>4, <3>1, <4>2 DEF Granted!Next
    <3>5. CASE call[c].op = "renew"
      <4>1. committed[v] # NoRow
        BY <1>1, <3>5, DeletedRows
      <4>2. Granted!Extend(c, v, call[c].expiresAt, forgotten)
        BY <2>2, <3>3, <3>5, <4>1 DEF Granted!Extend
      <4> HIDE DEF forgotten, v
      <4> QED
        BY <1>2, <1>4, <3>1, <4>2 DEF Granted!Next
    <3> QED
      BY <1>2, <2>3, <3>4, <3>5
  <2>4. CASE call[c].op = "release"
    <3>1. draft[v] = NoRow /\ lease' = [lease EXCEPT ![c][v] = NoRow]
      BY <1>1, <1>6, <2>4, DeletedRows DEF Committed, NewLease
    <3>2. Granted!Free(c, v, forgotten)
      BY <1>1, <2>1, <2>2, <2>4, <3>1 DEF Granted!Free
    <3> HIDE DEF forgotten, v
    <3> QED
      BY <1>2, <1>4, <3>2 DEF Granted!Next
  <2> QED
    BY <2>3, <2>4
<1>7. CASE writer[v] # c
  <2>1. call[c].op = "release"
    BY <1>1, <1>2, <1>7, DeletedRows
  <2>2. committed' = Granted!Forget(forgotten)
    BY <1>2, <1>3, <1>5, <1>7 DEF Seen, Granted!Forget
  <2>3. lease' = [lease EXCEPT ![c][v] = NoRow]
    BY <2>1 DEF Committed, NewLease
  <2>4. Granted!Free(c, v, forgotten)
    BY <1>1, <2>2, <2>3 DEF Granted!Free
  <2> HIDE DEF forgotten, v
  <2> QED
    BY <1>2, <1>4, <2>4 DEF Granted!Next
<1> QED
  BY <1>6, <1>7

LEMMA StepsAreGranted ==
  ASSUME IInv, [Next]_vars
  PROVE  [Granted!Next]_(Granted!vars)
<1>1. ASSUME NEW c \in Client, NEW v \in Wanted[c], NEW e \in Expiry,
             AcquireLock(c, v, e) \/ RenewLock(c, v, e)
      PROVE  [Granted!Next]_(Granted!vars)
  <2>1. CASE AcquireLock(c, v, e)
    BY <2>1 DEF AcquireLock, Start, rowVars, Granted!vars
  <2> QED
    BY <1>1, <2>1, RenewIsGranted
<1>2. ASSUME NEW c \in Client, NEW v \in Wanted[c], ReleaseLock(c, v)
      PROVE  [Granted!Next]_(Granted!vars)
  BY <1>2 DEF ReleaseLock, Start, rowVars, Granted!vars
<1>3. ASSUME NEW c \in Client, Insert(c) \/ Update(c) \/ Delete(c)
      PROVE  [Granted!Next]_(Granted!vars)
  <2>1. call[c].value \in Key
    BY <1>3, SeenRow DEF Insert, Update, Delete, Purged
  <2>2. UNCHANGED <<clock, committed>> /\ (UNCHANGED <<lease, late>> \/ NoteLate(c))
    BY <1>3 DEF Insert, Update, Delete, Writes, WriteRow
  <2> QED
    BY <2>1, <2>2, NoteIsGranted
<1>4. ASSUME NEW c \in Client, Commit(c) \/ CommitUnheard(c)
      PROVE  [Granted!Next]_(Granted!vars)
  BY <1>4, CommitIsGranted DEF Commit, CommitUnheard, Committed
<1>5. ASSUME NEW c \in Client,
             \/ RemoveExpiredLocks(c) \/ InsertConflict(c) \/ UpdateMiss(c) \/ DeleteNothing(c)
             \/ Rollback(c) \/ Abort(c)
             \/ \E row \in call[c].expired : DeleteExpired(c, row[1], row[2])
      PROVE  [Granted!Next]_(Granted!vars)
  <2>1. UNCHANGED <<clock, committed, lease, late>>
    BY <1>5 DEF RemoveExpiredLocks, InsertConflict, UpdateMiss, DeleteNothing, Rollback, Abort,
       RollsBack, RollbackRows, DeleteExpired, WriteRow, rowVars
  <2> QED
    BY <2>1 DEF Granted!vars
<1>6. CASE Tick
  <2>1. Granted!Tick
    BY <1>6 DEF Tick, rowVars, Granted!Tick
  <2> QED
    BY <2>1 DEF Granted!Next
<1>7. CASE UNCHANGED vars
  BY <1>7 DEF vars, rowVars, Granted!vars
<1> QED
  BY <1>1, <1>2, <1>3, <1>4, <1>5, <1>6, <1>7 DEF Next, Progress

\* The store implements leases.
THEOREM ImplementsLeasesCorrect == Spec => ImplementsLeases
<1>1. Init => Granted!Init
  BY InitGranted
<1>2. IInv /\ [Next]_vars => [Granted!Next]_(Granted!vars)
  BY StepsAreGranted
<1> QED
  BY <1>1, <1>2, InvCorrect, PTL DEF Spec, ImplementsLeases, Granted!Spec

=============================================================================
