----------------------- MODULE ConsumerProgressProofs -----------------------
(***************************************************************************)
(* Proofs about ConsumerProgressStore, for any number of clients, consumers*)
(* and aggregates.                                                         *)
(***************************************************************************)
EXTENDS ConsumerProgressProperties, TLAPS

-----------------------------------------------------------------------------
(* The inductive invariant *)

Setting == {"setProgress", "setIsReplaying"}

\* A call says what it is for.
CallOK(c) ==
  /\ call[c].op \in Setting => call[c].key \in Key
  /\ call[c].op = "setProgress" => call[c].revision \in Revision /\ call[c].replay = NoRange
  /\ call[c].op = "setIsReplaying" => call[c].revision = 0
  /\ call[c].phase \in {"updating", "inserting", "ending", "refused"} => call[c].op \in Setting
  /\ call[c].phase = "deleting" =>
       call[c].consumer \in Consumer /\ \A k \in call[c].rows : ConsumerOf[k] = call[c].consumer

\* A row that a transaction wrote is that of its second statement, or one that
\* it deleted.
RowsOK(c) ==
  \A k \in Key : writer[k] = c =>
    \/ call[c].phase = "ending" /\ k = call[c].key
    \/ call[c].phase = "deleting" /\ ConsumerOf[k] = call[c].consumer /\ draft[k] = NoRow

\* The row that COMMIT replaces is still the one the statement looked at.
EndingOK(c) ==
  call[c].phase = "ending" =>
    /\ writer[call[c].key] = c
    /\ \/ /\ committed[call[c].key] # NoRow
          /\ Criteria(call[c], committed[call[c].key])
          /\ draft[call[c].key] = Updated(call[c], committed[call[c].key])
       \/ /\ committed[call[c].key] = NoRow
          /\ draft[call[c].key] = Inserted(call[c])

\* An INSERT that nothing stands against has no row in its way.
InsertOK(c) ==
  call[c].phase = "inserting" /\ ~ call[c].met => committed[call[c].key] = NoRow

RefusedOK(c) == call[c].phase = "refused" => call[c].met

ClientInv(c) == CallOK(c) /\ RowsOK(c) /\ EndingOK(c) /\ InsertOK(c) /\ RefusedOK(c)

IInv == TypeOK /\ \A c \in Client : ClientInv(c)

-----------------------------------------------------------------------------
(* Types *)

LEMMA NoCallIsCall == NoCall \in Call
BY DEF NoCall, Call

\* What a call becomes in the course of it.
LEMMA CallTypes ==
  ASSUME NEW d \in Call, NEW p \in {"inserting", "ending", "refused"}, NEW met \in BOOLEAN,
         NEW rows \in SUBSET Key
  PROVE  /\ [d EXCEPT !.phase = p] \in Call /\ [d EXCEPT !.met = met] \in Call
         /\ [d EXCEPT !.phase = p, !.met = met] \in Call
         /\ [d EXCEPT !.rows = rows] \in Call
BY DEF Call

LEMMA PutCall ==
  ASSUME TypeOK, NEW c \in Client, NEW d \in Call
  PROVE  [call EXCEPT ![c] = d] \in [Client -> Call]
BY DEF TypeOK

LEMMA RowTypes ==
  ASSUME TypeOK, NEW c \in Client
  PROVE  /\ \A k, row : (k \in Key => row \in Row \cup {NoRow}) /\ WriteRow(c, k, row) =>
              /\ committed' \in [Key -> Row \cup {NoRow}]
              /\ draft' \in [Key -> Row \cup {NoRow}]
              /\ writer' \in [Key -> Client \cup {NoClient}]
         /\ CommitRows(c) \/ RollbackRows(c) =>
              /\ committed' \in [Key -> Row \cup {NoRow}]
              /\ draft' \in [Key -> Row \cup {NoRow}]
              /\ writer' \in [Key -> Client \cup {NoClient}]
BY DEF TypeOK, WriteRow, CommitRows, RollbackRows, Unlock, Seen

\* What a call writes is a row.
LEMMA WrittenRows ==
  ASSUME TypeOK, NEW c \in Client
  PROVE  /\ Inserted(call[c]) \in Row
         /\ \A row \in Row : Updated(call[c], row) \in Row
<1>1. call[c].revision \in Revision \cup {0} /\ call[c].replay \in Range \cup {NoRange}
  BY DEF TypeOK, Call
<1> QED
  BY <1>1 DEF Inserted, Updated, Row

LEMMA InitTypes == Init => TypeOK
BY NoCallIsCall, RowAssumption DEF Init, SomeRows, TypeOK

LEMMA StartTypes ==
  /\ \A k \in Key, r \in Revision :
       [NoCall EXCEPT !.op = "setProgress", !.phase = "updating", !.key = k, !.revision = r] \in Call
  /\ \A k \in Key, replay \in Range \cup {NoRange} :
       [NoCall EXCEPT !.op = "setIsReplaying", !.phase = "updating", !.key = k,
                      !.replay = replay] \in Call
  /\ \A consumer \in Consumer, rows \in SUBSET Key :
       [NoCall EXCEPT !.op = "resetProgress", !.phase = "deleting", !.consumer = consumer,
                      !.rows = rows] \in Call
<1>1. \A k \in Key, r \in Revision :
        [NoCall EXCEPT !.op = "setProgress", !.phase = "updating", !.key = k, !.revision = r] \in Call
  BY DEF NoCall, Call
<1>2. \A k \in Key, replay \in Range \cup {NoRange} :
        [NoCall EXCEPT !.op = "setIsReplaying", !.phase = "updating", !.key = k,
                       !.replay = replay] \in Call
  BY DEF NoCall, Call
<1>3. \A consumer \in Consumer, rows \in SUBSET Key :
        [NoCall EXCEPT !.op = "resetProgress", !.phase = "deleting", !.consumer = consumer,
                       !.rows = rows] \in Call
  BY DEF NoCall, Call
<1> QED
  BY <1>1, <1>2, <1>3

LEMMA RevisionIsNat == \A r \in Revision \cup {0} : r \in Nat
BY RevisionAssumption

\* What getProgress answers either stands against a call or does not.
LEMMA StandsIsBoolean ==
  ASSUME TypeOK, NEW c \in Client, call[c].key \in Key
  PROVE  StandsAgainst(GetProgress(call[c].key), call[c]) \in BOOLEAN
<1>1. GetProgress(call[c].key).revision \in Nat
  <2>1. CASE committed[call[c].key] = NoRow
    BY <2>1 DEF GetProgress
  <2>2. CASE committed[call[c].key] # NoRow
    <3>1. committed[call[c].key].revision \in Revision \cup {0}
      BY <2>2 DEF TypeOK, Row
    <3> QED
      BY <2>2, <3>1, RevisionIsNat DEF GetProgress
  <2> QED
    BY <2>1, <2>2
<1>2. call[c].revision \in Nat
  <2>1. call[c].revision \in Revision \cup {0}
    BY DEF TypeOK, Call
  <2> QED
    BY <2>1, RevisionIsNat
<1>3. (GetProgress(call[c].key).revision >= call[c].revision) \in BOOLEAN
  BY <1>1, <1>2
<1> QED
  BY <1>3 DEF StandsAgainst

LEMMA TypesKept == IInv /\ [Next]_vars => TypeOK'
<1> SUFFICES ASSUME IInv, [Next]_vars PROVE TypeOK'
  OBVIOUS
<1> USE DEF IInv
<1>1. ASSUME NEW c \in Client, NEW new \in Call, Start(c, new) PROVE TypeOK'
  BY <1>1, PutCall DEF TypeOK, Start, rowVars
<1>2. ASSUME NEW c \in Client, NEW k \in Wanted, NEW r \in Revision, SetProgress(c, k, r)
      PROVE  TypeOK'
  BY <1>1, <1>2, StartTypes, ConsumerAssumption DEF SetProgress
<1>3. ASSUME NEW c \in Client, NEW k \in Wanted, NEW replay \in Range \cup {NoRange},
             SetIsReplaying(c, k, replay)
      PROVE  TypeOK'
  BY <1>1, <1>3, StartTypes, ConsumerAssumption DEF SetIsReplaying
<1>4. ASSUME NEW c \in Client, NEW consumer \in Consumer, ResetProgress(c, consumer)
      PROVE  TypeOK'
  <2>1. PICK rows \in SUBSET Key :
          Start(c, [NoCall EXCEPT !.op = "resetProgress", !.phase = "deleting",
                                  !.consumer = consumer, !.rows = rows])
    BY <1>4 DEF ResetProgress
  <2> QED
    BY <1>1, <2>1, StartTypes
<1>5. ASSUME NEW c \in Client, Update(c) \/ UpdateMiss(c) \/ Insert(c) \/ InsertConflict(c)
      PROVE  TypeOK'
  <2>1. call' \in [Client -> Call]
    <3>1. PICK p \in {"inserting", "ending", "refused"}, met \in BOOLEAN :
            \/ call' = [call EXCEPT ![c] = [call[c] EXCEPT !.phase = p]]
            \/ call' = [call EXCEPT ![c] = [call[c] EXCEPT !.phase = p, !.met = met]]
      <4>1. CASE UpdateMiss(c)
        <5>1. call[c].key \in Key
          BY <4>1 DEF UpdateMiss, ClientInv, CallOK
        <5> QED
          BY <4>1, <5>1, StandsIsBoolean DEF UpdateMiss
      <4>2. CASE Insert(c)
        BY <4>2 DEF Insert
      <4> QED
        BY <1>5, <4>1, <4>2 DEF Update, InsertConflict
    <3>2. /\ [call[c] EXCEPT !.phase = p] \in Call
          /\ [call[c] EXCEPT !.phase = p, !.met = met] \in Call
      <4>1. call[c] \in Call
        BY DEF TypeOK
      <4> QED
        BY <4>1, CallTypes
    <3> QED
      BY <3>1, <3>2, PutCall
  <2>2. CASE Update(c) \/ Insert(c)
    <3>1. PICK row : /\ WriteRow(c, call[c].key, row)
                     /\ call[c].key \in Key => row \in Row
      BY <2>2, WrittenRows DEF Update, Insert, Meets, TypeOK
    <3> QED
      BY <2>1, <3>1, RowTypes DEF TypeOK
  <2>3. CASE UpdateMiss(c) \/ InsertConflict(c)
    BY <2>1, <2>3 DEF TypeOK, UpdateMiss, InsertConflict, rowVars
  <2> QED
    BY <1>5, <2>2, <2>3
<1>6. ASSUME NEW c \in Client, NEW k \in call[c].rows, DeleteRow(c, k)
      PROVE  TypeOK'
  <2>1. call[c] \in Call /\ call[c].rows \ {k} \in SUBSET Key
    BY DEF TypeOK, Call
  <2>2. call' \in [Client -> Call]
    BY <1>6, <2>1, CallTypes, PutCall DEF DeleteRow
  <2> QED
    BY <1>6, <2>2, RowTypes DEF TypeOK, DeleteRow, rowVars
<1>7. ASSUME NEW c \in Client, Commit(c)
      PROVE  TypeOK'
  <2>1. ASSUME NEW d \in Client
        PROVE  [call[d] EXCEPT !.met = @ \/ InTheWay(c, d)] \in Call
    <3>1. call[d] \in Call /\ (call[d].met \/ InTheWay(c, d)) \in BOOLEAN
      BY DEF TypeOK, Call
    <3> QED
      BY <3>1, CallTypes
  <2> QED
    BY <1>7, <2>1, NoCallIsCall, RowTypes DEF TypeOK, Commit
<1>8. ASSUME NEW c \in Client, Rollback(c) \/ Abort(c)
      PROVE  TypeOK'
  <2>1. RollsBack(c)
    BY <1>8 DEF Rollback, Abort
  <2> QED
    BY <2>1, NoCallIsCall, PutCall, RowTypes DEF TypeOK, RollsBack
<1>9. CASE UNCHANGED vars
  BY <1>9 DEF TypeOK, vars, rowVars
<1> QED
  BY <1>2, <1>3, <1>4, <1>5, <1>6, <1>7, <1>8, <1>9 DEF Next, Continue

-----------------------------------------------------------------------------
(* Steps of one client that leave the table as it is *)

Beside(c) ==
  /\ UNCHANGED committed
  /\ \A d \in Client \ {c} :
       /\ call'[d] = call[d]
       /\ \A k \in Key : writer'[k] = d <=> writer[k] = d
       /\ \A k \in Key : writer[k] = d => draft'[k] = draft[k]

\* Only the client itself is to be looked at then.
LEMMA BesideKeeps ==
  ASSUME IInv, TypeOK', NEW c \in Client, Beside(c), ClientInv(c)'
  PROVE  IInv'
<1> SUFFICES ASSUME NEW d \in Client, d # c PROVE ClientInv(d)'
  BY DEF IInv
<1>1. call'[d] = call[d] /\ UNCHANGED committed
  BY DEF Beside
<1>2. \A k \in Key : writer'[k] = d <=> writer[k] = d
  BY DEF Beside
<1>3. \A k \in Key : writer[k] = d => draft'[k] = draft[k]
  BY DEF Beside
<1>4. CallOK(d)' /\ InsertOK(d)' /\ RefusedOK(d)'
  BY <1>1 DEF IInv, ClientInv, CallOK, InsertOK, RefusedOK
<1>5. RowsOK(d)'
  BY <1>1, <1>2, <1>3 DEF IInv, ClientInv, RowsOK
<1>6. EndingOK(d)'
  <2> SUFFICES ASSUME call[d].phase = "ending" PROVE EndingOK(d)'
    BY <1>1 DEF EndingOK
  <2>1. call[d].key \in Key
    BY DEF IInv, ClientInv, CallOK
  <2> QED
    BY <1>1, <1>2, <1>3, <2>1 DEF IInv, ClientInv, EndingOK
<1> QED
  BY <1>4, <1>5, <1>6 DEF ClientInv

\* A client whose transaction wrote rows is in the phases that say so.
LEMMA WritesNothing ==
  ASSUME IInv, NEW c \in Client, call[c].phase \notin {"ending", "deleting"}, NEW k \in Key
  PROVE  writer[k] # c
BY DEF IInv, ClientInv, RowsOK

LEMMA StartKeeps ==
  ASSUME IInv, TypeOK', NEW c \in Client, NEW new \in Call, Start(c, new),
         \/ new.phase = "updating" /\ new.op = "setProgress" /\ new.key \in Key
              /\ new.revision \in Revision /\ new.replay = NoRange
         \/ new.phase = "updating" /\ new.op = "setIsReplaying" /\ new.key \in Key
              /\ new.revision = 0
         \/ new.phase = "deleting" /\ new.op = "resetProgress" /\ new.consumer \in Consumer
              /\ \A k \in new.rows : ConsumerOf[k] = new.consumer
  PROVE  IInv'
<1>1. call' = [call EXCEPT ![c] = new] /\ UNCHANGED rowVars /\ call[c].phase = "idle"
  BY DEF Start
<1>2. Beside(c) /\ call'[c] = new
  BY <1>1 DEF Beside, IInv, TypeOK, rowVars
<1>3. \A k \in Key : writer'[k] # c
  BY <1>1, WritesNothing DEF rowVars
<1>4. ClientInv(c)'
  BY <1>2, <1>3 DEF ClientInv, CallOK, Setting, RowsOK, EndingOK, InsertOK, RefusedOK
<1> QED
  BY <1>2, <1>4, BesideKeeps

LEMMA StartsKeep ==
  ASSUME IInv, TypeOK', NEW c \in Client,
         \/ \E k \in Wanted, r \in Revision : SetProgress(c, k, r)
         \/ \E k \in Wanted, replay \in Range \cup {NoRange} : SetIsReplaying(c, k, replay)
         \/ \E consumer \in Consumer : ResetProgress(c, consumer)
  PROVE  IInv'
<1>1. ASSUME NEW k \in Wanted, NEW r \in Revision, SetProgress(c, k, r) PROVE IInv'
  <2> DEFINE new == [NoCall EXCEPT !.op = "setProgress", !.phase = "updating", !.key = k,
                                   !.revision = r]
  <2>1. /\ new.phase = "updating" /\ new.op = "setProgress" /\ new.key = k
        /\ new.revision = r /\ new.replay = NoRange
    BY DEF NoCall
  <2>2. new \in Call /\ Start(c, new) /\ k \in Key
    BY <1>1, StartTypes, ConsumerAssumption DEF SetProgress
  <2> HIDE DEF new
  <2> QED
    BY <2>1, <2>2, StartKeeps
<1>2. ASSUME NEW k \in Wanted, NEW replay \in Range \cup {NoRange}, SetIsReplaying(c, k, replay)
      PROVE  IInv'
  <2> DEFINE new == [NoCall EXCEPT !.op = "setIsReplaying", !.phase = "updating", !.key = k,
                                   !.replay = replay]
  <2>1. /\ new.phase = "updating" /\ new.op = "setIsReplaying" /\ new.key = k
        /\ new.revision = 0
    BY DEF NoCall
  <2>2. new \in Call /\ Start(c, new) /\ k \in Key
    BY <1>2, StartTypes, ConsumerAssumption DEF SetIsReplaying
  <2> HIDE DEF new
  <2> QED
    BY <2>1, <2>2, StartKeeps
<1>3. ASSUME NEW consumer \in Consumer, ResetProgress(c, consumer) PROVE IInv'
  <2> DEFINE rows == {k \in Key : ConsumerOf[k] = consumer /\ committed[k] # NoRow}
             new  == [NoCall EXCEPT !.op = "resetProgress", !.phase = "deleting",
                                    !.consumer = consumer, !.rows = rows]
  <2>1. rows \in SUBSET Key /\ \A k \in rows : ConsumerOf[k] = consumer
    OBVIOUS
  <2>2. Start(c, new)
    BY <1>3 DEF ResetProgress
  <2> HIDE DEF rows
  <2>3. /\ new.phase = "deleting" /\ new.op = "resetProgress" /\ new.consumer = consumer
        /\ new.rows = rows
    BY DEF NoCall
  <2>4. new \in Call
    BY <2>1, StartTypes
  <2> HIDE DEF new
  <2> QED
    BY <2>1, <2>2, <2>3, <2>4, StartKeeps
<1> QED
  BY <1>1, <1>2, <1>3

\* A call goes on to its next phase.
Goes(c, p) ==
  /\ call'[c].phase = p
  /\ call'[c].op = call[c].op /\ call'[c].key = call[c].key
  /\ call'[c].revision = call[c].revision /\ call'[c].replay = call[c].replay
  /\ \A d \in Client \ {c} : call'[d] = call[d]

LEMMA GoesOn ==
  ASSUME TypeOK, NEW c \in Client, NEW p, NEW met,
         \/ call' = [call EXCEPT ![c] = [call[c] EXCEPT !.phase = p]] /\ met = call[c].met
         \/ call' = [call EXCEPT ![c] = [call[c] EXCEPT !.phase = p, !.met = met]]
  PROVE  Goes(c, p) /\ call'[c].met = met
<1>1. \A d \in Client \ {c} : call'[d] = call[d]
  BY DEF TypeOK
<1>2. call[c] \in Call
  BY DEF TypeOK
<1>3. \/ call'[c] = [call[c] EXCEPT !.phase = p] /\ met = call[c].met
      \/ call'[c] = [call[c] EXCEPT !.phase = p, !.met = met]
  BY DEF TypeOK
<1>4. /\ call'[c].phase = p
      /\ call'[c].op = call[c].op /\ call'[c].key = call[c].key
      /\ call'[c].revision = call[c].revision /\ call'[c].replay = call[c].replay
      /\ call'[c].met = met
  BY <1>2, <1>3 DEF Call
<1> QED
  BY <1>1, <1>4 DEF Goes

LEMMA WriteKeeps ==
  ASSUME IInv, TypeOK', NEW c \in Client, Update(c) \/ Insert(c)
  PROVE  IInv'
<1>1. call[c].phase \in {"updating", "inserting"} /\ call[c].key \in Key /\ call[c].op \in Setting
  BY DEF Update, Insert, IInv, ClientInv, CallOK
<1>2. PICK row : /\ WriteRow(c, call[c].key, row)
                 /\ \/ /\ committed[call[c].key] # NoRow
                       /\ Criteria(call[c], committed[call[c].key])
                       /\ row = Updated(call[c], committed[call[c].key])
                    \/ committed[call[c].key] = NoRow /\ row = Inserted(call[c])
  BY DEF Update, Insert, Meets
<1>3. Goes(c, "ending")
  BY GoesOn DEF Update, Insert, IInv
<1>4. /\ UNCHANGED committed
      /\ writer'[call[c].key] = c /\ draft'[call[c].key] = row
      /\ \A k \in Key \ {call[c].key} : writer'[k] = writer[k] /\ draft'[k] = draft[k]
      /\ writer[call[c].key] \in {NoClient, c}
  BY <1>1, <1>2 DEF WriteRow, IInv, TypeOK, Update, Insert, Unlocked
<1>5. Beside(c)
  BY <1>1, <1>3, <1>4, ClientAssumption DEF Beside, Goes
<1>6. CallOK(c)'
  BY <1>1, <1>3 DEF IInv, ClientInv, CallOK, Goes
<1>7. RowsOK(c)'
  BY <1>1, <1>3, <1>4, WritesNothing DEF RowsOK, Goes
<1>8. EndingOK(c)'
  <2>1. /\ \A x : Criteria(call'[c], x) = Criteria(call[c], x)
        /\ \A x : Updated(call'[c], x) = Updated(call[c], x)
        /\ Inserted(call'[c]) = Inserted(call[c])
    BY <1>3 DEF Goes, Criteria, Updated, Inserted
  <2> QED
    BY <1>2, <1>3, <1>4, <2>1 DEF Goes, EndingOK
<1> QED
  BY <1>3, <1>5, <1>6, <1>7, <1>8, BesideKeeps DEF ClientInv, InsertOK, RefusedOK, Goes

\* A row that stands against the UPDATE stands against the call for getProgress.
LEMMA MissKeeps ==
  ASSUME IInv, TypeOK', NEW c \in Client, UpdateMiss(c)
  PROVE  IInv'
<1>1. /\ call[c].phase = "updating" /\ call[c].key \in Key /\ call[c].op \in Setting
      /\ ~ Meets(c) /\ UNCHANGED rowVars
  BY DEF UpdateMiss, IInv, ClientInv, CallOK
<1>2. Goes(c, "inserting") /\ call'[c].met = StandsAgainst(GetProgress(call[c].key), call[c])
  BY GoesOn DEF UpdateMiss, IInv
<1>3. Beside(c)
  BY <1>1, <1>2 DEF Beside, Goes, rowVars
<1>4. CallOK(c)'
  BY <1>1, <1>2 DEF IInv, ClientInv, CallOK, Goes
<1>5. InsertOK(c)'
  <2> SUFFICES ASSUME committed[call[c].key] # NoRow
               PROVE  StandsAgainst(GetProgress(call[c].key), call[c])
    BY <1>1, <1>2 DEF InsertOK, Goes, rowVars
  <2> DEFINE row == committed[call[c].key]
  <2>1. row \in Row /\ ~ Criteria(call[c], row)
    BY <1>1 DEF Meets, IInv, TypeOK
  <2>2. row.revision \in Revision \cup {0} /\ row.replay \in Range \cup {NoRange}
    BY <2>1 DEF Row
  <2>3. CASE call[c].op = "setProgress"
    <3>1. row.revision \in Nat /\ call[c].revision \in Nat
      <4>1. call[c].revision \in Revision
        BY <2>3 DEF IInv, ClientInv, CallOK
      <4> QED
        BY <2>2, <4>1, RevisionIsNat
    <3>2. ~ (row.revision < call[c].revision)
      BY <2>1, <2>3 DEF Criteria
    <3> QED
      BY <2>3, <3>1, <3>2 DEF StandsAgainst, GetProgress
  <2>4. CASE call[c].op = "setIsReplaying"
    <3>1. row.replay # NoRange
      BY <2>1, <2>4 DEF Criteria
    <3>2. row.replay.from \in Revision /\ row.replay.to \in Revision
      BY <2>2, <3>1, RangeAssumption
    <3>3. GetProgress(call[c].key).replay = row.replay
      BY <3>1, <3>2, RevisionAssumption DEF GetProgress
    <3> QED
      BY <2>4, <3>1, <3>3 DEF StandsAgainst
  <2> QED
    BY <1>1, <2>3, <2>4 DEF Setting
<1>6. RowsOK(c)'
  BY <1>1, WritesNothing DEF RowsOK, rowVars
<1> QED
  BY <1>2, <1>3, <1>4, <1>5, <1>6, BesideKeeps DEF ClientInv, EndingOK, RefusedOK, Goes

LEMMA ConflictKeeps ==
  ASSUME IInv, TypeOK', NEW c \in Client, InsertConflict(c)
  PROVE  IInv'
<1>1. /\ call[c].phase = "inserting" /\ call[c].key \in Key /\ UNCHANGED rowVars
      /\ committed[call[c].key] # NoRow
  BY DEF InsertConflict, IInv, ClientInv, CallOK
<1>2. Goes(c, "refused") /\ call'[c].met = call[c].met
  BY GoesOn DEF InsertConflict, IInv
<1>3. Beside(c)
  BY <1>1, <1>2 DEF Beside, Goes, rowVars
<1>4. CallOK(c)'
  BY <1>1, <1>2 DEF IInv, ClientInv, CallOK, Goes
<1>5. RefusedOK(c)'
  BY <1>1, <1>2 DEF IInv, ClientInv, InsertOK, RefusedOK
<1>6. RowsOK(c)'
  BY <1>1, WritesNothing DEF RowsOK, rowVars
<1> QED
  BY <1>2, <1>3, <1>4, <1>5, <1>6, BesideKeeps DEF ClientInv, EndingOK, InsertOK, Goes

LEMMA DeleteKeeps ==
  ASSUME IInv, TypeOK', NEW c \in Client, NEW k \in call[c].rows, DeleteRow(c, k)
  PROVE  IInv'
<1>1. /\ call[c].phase = "deleting" /\ Unlocked(c, k) /\ k \in Key
      /\ ConsumerOf[k] = call[c].consumer
  BY DEF DeleteRow, IInv, ClientInv, CallOK, TypeOK, Call
<1>2. /\ call'[c].phase = "deleting" /\ call'[c].consumer = call[c].consumer
      /\ call'[c].op = call[c].op /\ call'[c].key = call[c].key
      /\ call'[c].revision = call[c].revision /\ call'[c].replay = call[c].replay
      /\ call'[c].rows = call[c].rows \ {k}
  <2>1. call[c] \in Call /\ call'[c] = [call[c] EXCEPT !.rows = @ \ {k}]
    BY DEF DeleteRow, IInv, TypeOK
  <2> QED
    BY <1>1, <2>1 DEF Call
<1>3. \A d \in Client \ {c} : call'[d] = call[d]
  BY DEF DeleteRow, IInv, TypeOK
<1>4. WriteRow(c, k, NoRow) \/ UNCHANGED rowVars
  BY DEF DeleteRow
<1>5. /\ UNCHANGED committed
      /\ \A j \in Key \ {k} : writer'[j] = writer[j] /\ draft'[j] = draft[j]
      /\ (writer'[k] = c /\ draft'[k] = NoRow) \/ (writer'[k] = writer[k] /\ draft'[k] = draft[k])
  BY <1>1, <1>4 DEF WriteRow, rowVars, IInv, TypeOK
<1>6. writer[k] \in {NoClient, c}
  BY <1>1 DEF Unlocked
<1>7. Beside(c)
  BY <1>3, <1>5, <1>6, ClientAssumption DEF Beside
<1>8. CallOK(c)'
  BY <1>1, <1>2 DEF IInv, ClientInv, CallOK
<1>9. RowsOK(c)'
  BY <1>1, <1>2, <1>5 DEF IInv, ClientInv, RowsOK
<1> QED
  BY <1>2, <1>7, <1>8, <1>9, BesideKeeps DEF ClientInv, EndingOK, InsertOK, RefusedOK

\* A transaction that is rolled back leaves the rows as they were.
LEMMA RollbackKeeps ==
  ASSUME IInv, TypeOK', NEW c \in Client, Rollback(c) \/ Abort(c)
  PROVE  IInv'
<1>1. RollsBack(c)
  BY DEF Rollback, Abort
<1>2. /\ UNCHANGED committed
      /\ \A k \in Key : writer'[k] = IF writer[k] = c THEN NoClient ELSE writer[k]
      /\ \A k \in Key : writer[k] # c => draft'[k] = draft[k]
  BY <1>1 DEF RollsBack, RollbackRows, Unlock
<1>3. call'[c] = NoCall /\ \A d \in Client \ {c} : call'[d] = call[d]
  BY <1>1 DEF RollsBack, IInv, TypeOK
<1>4. Beside(c)
  BY <1>2, <1>3, ClientAssumption DEF Beside
<1>5. \A k \in Key : writer'[k] # c
  BY <1>2, ClientAssumption
<1>6. ClientInv(c)'
  BY <1>3, <1>5
     DEF ClientInv, NoCall, CallOK, Setting, RowsOK, EndingOK, InsertOK, RefusedOK
<1> QED
  BY <1>4, <1>6, BesideKeeps

-----------------------------------------------------------------------------
(* COMMIT *)

\* It puts in place what the transaction wrote, and is in the way of the INSERT of
\* others where that is a row.
LEMMA CommitsAre ==
  ASSUME IInv, NEW c \in Client, Commit(c)
  PROVE  /\ \A k \in Key : writer[k] = c => committed'[k] = draft[k] /\ writer'[k] = NoClient
         /\ \A k \in Key : writer[k] # c =>
              committed'[k] = committed[k] /\ writer'[k] = writer[k] /\ draft'[k] = draft[k]
         /\ call'[c] = NoCall
         /\ \A d \in Client \ {c} :
              /\ call'[d].op = call[d].op /\ call'[d].key = call[d].key
              /\ call'[d].revision = call[d].revision /\ call'[d].replay = call[d].replay
              /\ call'[d].phase = call[d].phase /\ call'[d].rows = call[d].rows
              /\ call'[d].consumer = call[d].consumer
              /\ call'[d].met = (call[d].met \/ InTheWay(c, d))
<1>1. /\ \A k \in Key : writer[k] = c => committed'[k] = draft[k] /\ writer'[k] = NoClient
      /\ \A k \in Key : writer[k] # c =>
           committed'[k] = committed[k] /\ writer'[k] = writer[k] /\ draft'[k] = draft[k]
  BY DEF Commit, CommitRows, Unlock, Seen
<1>2. call'[c] = NoCall
  BY DEF Commit
<1>3. ASSUME NEW d \in Client \ {c}
      PROVE  /\ call'[d].op = call[d].op /\ call'[d].key = call[d].key
             /\ call'[d].revision = call[d].revision /\ call'[d].replay = call[d].replay
             /\ call'[d].phase = call[d].phase /\ call'[d].rows = call[d].rows
             /\ call'[d].consumer = call[d].consumer
             /\ call'[d].met = (call[d].met \/ InTheWay(c, d))
  <2> DEFINE met == call[d].met \/ InTheWay(c, d)
  <2>1. call[d] \in Call /\ call'[d] = [call[d] EXCEPT !.met = met]
    BY DEF Commit, IInv, TypeOK
  <2> HIDE DEF met
  <2>2. /\ call'[d].op = call[d].op /\ call'[d].key = call[d].key
        /\ call'[d].revision = call[d].revision /\ call'[d].replay = call[d].replay
        /\ call'[d].phase = call[d].phase /\ call'[d].rows = call[d].rows
        /\ call'[d].consumer = call[d].consumer /\ call'[d].met = met
    BY <2>1 DEF Call
  <2> QED
    BY <2>2 DEF met
<1> QED
  BY <1>1, <1>2, <1>3

LEMMA CommitKeeps ==
  ASSUME IInv, TypeOK', NEW c \in Client, Commit(c)
  PROVE  IInv'
<1>1. \A k \in Key : writer'[k] # c
  BY CommitsAre, ClientAssumption
<1>2. ClientInv(c)'
  <2>1. call'[c] = NoCall
    BY CommitsAre
  <2> QED
    BY <1>1, <2>1
       DEF ClientInv, NoCall, CallOK, Setting, RowsOK, EndingOK, InsertOK, RefusedOK
<1>3. ASSUME NEW d \in Client, d # c
      PROVE  ClientInv(d)'
  <2>1. /\ call'[d].op = call[d].op /\ call'[d].key = call[d].key
        /\ call'[d].revision = call[d].revision /\ call'[d].replay = call[d].replay
        /\ call'[d].phase = call[d].phase /\ call'[d].rows = call[d].rows
        /\ call'[d].consumer = call[d].consumer
        /\ call'[d].met = (call[d].met \/ InTheWay(c, d))
    BY <1>3, CommitsAre
  <2>2. \A k \in Key : writer'[k] = d <=> writer[k] = d
    BY <1>3, CommitsAre, ClientAssumption
  <2>3. \A k \in Key : writer[k] # c => committed'[k] = committed[k] /\ draft'[k] = draft[k]
    BY CommitsAre
  <2>4. CallOK(d)'
    BY <2>1 DEF IInv, ClientInv, CallOK
  <2>5. RowsOK(d)'
    BY <1>3, <2>1, <2>2, <2>3 DEF IInv, ClientInv, RowsOK
  <2>6. EndingOK(d)'
    <3> SUFFICES ASSUME call[d].phase = "ending" PROVE EndingOK(d)'
      BY <2>1 DEF EndingOK
    <3>1. call[d].key \in Key /\ EndingOK(d)
      BY DEF IInv, ClientInv, CallOK
    <3>2. /\ \A x : Criteria(call'[d], x) = Criteria(call[d], x)
          /\ \A x : Updated(call'[d], x) = Updated(call[d], x)
          /\ Inserted(call'[d]) = Inserted(call[d])
      BY <2>1 DEF Criteria, Updated, Inserted
    <3> QED
      BY <1>3, <2>1, <2>2, <2>3, <3>1, <3>2 DEF EndingOK
  <2>7. InsertOK(d)'
    <3> SUFFICES ASSUME call[d].phase = "inserting", ~ call[d].met, ~ InTheWay(c, d)
                 PROVE  committed'[call[d].key] = NoRow
      BY <2>1 DEF InsertOK
    <3>1. call[d].key \in Key /\ committed[call[d].key] = NoRow
      BY DEF IInv, ClientInv, CallOK, InsertOK
    <3> QED
      BY <2>3, <3>1, CommitsAre DEF InTheWay
  <2>8. RefusedOK(d)'
    BY <2>1 DEF IInv, ClientInv, RefusedOK
  <2> QED
    BY <2>4, <2>5, <2>6, <2>7, <2>8 DEF ClientInv
<1> QED
  BY <1>2, <1>3 DEF IInv

-----------------------------------------------------------------------------
(* The invariant, and what follows from it *)

LEMMA InitInv == Init => IInv
<1> SUFFICES ASSUME Init PROVE IInv
  OBVIOUS
<1>1. ASSUME NEW c \in Client PROVE ClientInv(c)
  <2>1. call[c] = NoCall /\ \A k \in Key : writer[k] # c
    BY ClientAssumption DEF Init, SomeRows
  <2> QED
    BY <2>1 DEF ClientInv, NoCall, CallOK, Setting, RowsOK, EndingOK, InsertOK, RefusedOK
<1> QED
  BY <1>1, InitTypes DEF IInv

LEMMA InvKept == IInv /\ [Next]_vars => IInv'
<1> SUFFICES ASSUME IInv, [Next]_vars PROVE IInv'
  OBVIOUS
<1>1. TypeOK'
  BY TypesKept
<1>2. ASSUME NEW c \in Client, Next,
             \/ \E k \in Wanted, r \in Revision : SetProgress(c, k, r)
             \/ \E k \in Wanted, replay \in Range \cup {NoRange} : SetIsReplaying(c, k, replay)
             \/ \E consumer \in Consumer : ResetProgress(c, consumer)
      PROVE  IInv'
  BY <1>1, <1>2, StartsKeep
<1>3. ASSUME NEW c \in Client, Continue(c) \/ Abort(c)
      PROVE  IInv'
  BY <1>1, <1>3, WriteKeeps, MissKeeps, ConflictKeeps, DeleteKeeps, CommitKeeps, RollbackKeeps
     DEF Continue
<1>4. CASE UNCHANGED vars
  BY <1>1, <1>4
     DEF IInv, vars, rowVars, ClientInv, CallOK, RowsOK, EndingOK, InsertOK, RefusedOK
<1> QED
  BY <1>2, <1>3, <1>4 DEF Next

\* The invariant holds.
THEOREM InvCorrect == Spec => []IInv
BY InitInv, InvKept, PTL DEF Spec

\* The types are right.
THEOREM TypeCorrect == Spec => []TypeOK
<1>1. IInv => TypeOK
  BY DEF IInv
<1> QED
  BY <1>1, InvCorrect, PTL

\* FlowIsAlreadyReplaying has one of its two reasons.
THEOREM RefusedForAReasonCorrect == Spec => []RefusedForAReason
<1>1. IInv => RefusedForAReason
  BY DEF IInv, ClientInv, RefusedOK, RefusedForAReason
<1> QED
  BY <1>1, InvCorrect, PTL

\* The table changes only when a transaction commits.
LEMMA OnlyCommits ==
  ASSUME [Next]_vars, \A c \in Client : ~ Commit(c)
  PROVE  UNCHANGED committed
BY DEF Next, Continue, SetProgress, SetIsReplaying, ResetProgress, Start, Update, UpdateMiss,
       Insert, InsertConflict, DeleteRow, Rollback, Abort, RollsBack, RollbackRows, WriteRow,
       vars, rowVars

\* A row that stays is as the UPDATE of some call makes it from the row there was.
LEMMA RowsThatStay ==
  ASSUME IInv, [Next]_vars, NEW k \in Key, Stays(k), committed'[k] # committed[k]
  PROVE  \E c \in Client : /\ call[c].op \in Setting
                           /\ Criteria(call[c], committed[k])
                           /\ committed'[k] = Updated(call[c], committed[k])
<1>1. PICK c \in Client : Commit(c)
  BY OnlyCommits
<1>2. writer[k] = c /\ committed'[k] = draft[k]
  BY <1>1, CommitsAre
<1>3. RowsOK(c) /\ EndingOK(c) /\ CallOK(c)
  BY DEF IInv, ClientInv
<1>4. call[c].phase = "ending" /\ k = call[c].key
  BY <1>2, <1>3 DEF RowsOK, Stays
<1> QED
  BY <1>2, <1>3, <1>4 DEF EndingOK, CallOK, Stays

\* Unless it is reset, a revision does not fall.
THEOREM RevisionNeverFallsCorrect == Spec => RevisionNeverFalls
<1>1. ASSUME IInv, [Next]_vars, NEW k \in Key, Stays(k)
      PROVE  committed[k].revision <= committed'[k].revision
  <2>1. committed[k] \in Row
    BY <1>1 DEF IInv, TypeOK, Stays
  <2>2. committed[k].revision \in Nat
    BY <2>1, RevisionIsNat DEF Row
  <2>3. CASE committed'[k] = committed[k]
    BY <2>2, <2>3
  <2>4. CASE committed'[k] # committed[k]
    <3>1. PICK c \in Client : /\ call[c].op \in Setting
                              /\ Criteria(call[c], committed[k])
                              /\ committed'[k] = Updated(call[c], committed[k])
      BY <1>1, <2>4, RowsThatStay
    <3>2. CASE call[c].op = "setProgress"
      <4>1. call[c].revision \in Nat
        BY <1>1, <3>2, RevisionIsNat DEF IInv, ClientInv, CallOK
      <4>2. committed[k].revision < call[c].revision
        BY <3>1, <3>2 DEF Criteria
      <4>3. committed'[k].revision = call[c].revision
        BY <2>1, <3>1, <3>2 DEF Updated, Row
      <4> QED
        BY <2>2, <4>1, <4>2, <4>3
    <3>3. CASE call[c].op = "setIsReplaying"
      <4>1. committed'[k].revision = committed[k].revision
        BY <2>1, <3>1, <3>3 DEF Updated, Row
      <4> QED
        BY <2>2, <4>1
    <3> QED
      BY <3>1, <3>2, <3>3 DEF Setting
  <2> QED
    BY <2>3, <2>4
<1>2. IInv /\ [Next]_vars =>
        [\A k \in Key : Stays(k) => committed[k].revision <= committed'[k].revision]_vars
  BY <1>1
<1> QED
  BY <1>2, InvCorrect, PTL DEF Spec, RevisionNeverFalls

\* A replay in progress is not replaced by another.
THEOREM ReplayNotReplacedCorrect == Spec => ReplayNotReplaced
<1>1. ASSUME IInv, [Next]_vars, NEW k \in Key, Stays(k)
      PROVE  committed[k].replay = NoRange \/ committed'[k].replay \in {NoRange, committed[k].replay}
  <2>1. committed[k] \in Row
    BY <1>1 DEF IInv, TypeOK, Stays
  <2>2. CASE committed'[k] # committed[k]
    <3>1. PICK c \in Client : /\ call[c].op \in Setting
                              /\ Criteria(call[c], committed[k])
                              /\ committed'[k] = Updated(call[c], committed[k])
      BY <1>1, <2>2, RowsThatStay
    <3>2. CASE call[c].op = "setProgress"
      BY <2>1, <3>1, <3>2 DEF Updated, Row
    <3>3. CASE call[c].op = "setIsReplaying"
      <4>1. call[c].replay # NoRange => committed[k].replay = NoRange
        BY <3>1, <3>3 DEF Criteria
      <4>2. committed'[k].replay = call[c].replay
        BY <2>1, <3>1, <3>3 DEF Updated, Row
      <4> QED
        BY <4>1, <4>2
    <3> QED
      BY <3>1, <3>2, <3>3 DEF Setting
  <2> QED
    BY <2>2
<1>2. IInv /\ [Next]_vars =>
        [\A k \in Key : Stays(k) =>
           committed[k].replay = NoRange \/ committed'[k].replay \in {NoRange, committed[k].replay}]_vars
  BY <1>1
<1> QED
  BY <1>2, InvCorrect, PTL DEF Spec, ReplayNotReplaced

-----------------------------------------------------------------------------
(* The store implements the abstract one *)

\* What the abstract store holds for a key.
Shown(row) == IF row = NoRow THEN [revision |-> 0, replay |-> NoRange] ELSE row

LEMMA InitKept == Init => Kept!Init
BY RowAssumption DEF Init, SomeRows, Row, Kept!Init

\* The commit of a reset forgets the rows that it deleted.
LEMMA ResetIsKept ==
  ASSUME IInv, NEW c \in Client, Commit(c), call[c].phase = "deleting"
  PROVE  Kept!Next
<1>1. PICK consumer \in Consumer : consumer = call[c].consumer
  BY DEF IInv, ClientInv, CallOK
<1>2. PICK others \in SUBSET Key : others = {k \in Key : writer[k] # c}
  OBVIOUS
<1>3. \A k \in Key : writer[k] = c => ConsumerOf[k] = consumer /\ committed'[k] = NoRow
  BY <1>1, CommitsAre DEF IInv, ClientInv, RowsOK
<1>4. \A k \in Key : writer[k] # c => committed'[k] = committed[k]
  BY CommitsAre
<1>5. Kept!Reset(consumer, others)
  BY <1>2, <1>3, <1>4 DEF Kept!Reset, Kept!Fresh
<1> QED
  BY <1>5 DEF Kept!Next

\* What an INSERT does to a key that has no row is what the UPDATE does to what
\* getProgress answers for it.
LEMMA InsertedIsUpdated ==
  ASSUME IInv, NEW c \in Client, call[c].op \in Setting
  PROVE  /\ Criteria(call[c], Shown(NoRow))
         /\ Inserted(call[c]) = Updated(call[c], Shown(NoRow))
<1>1. CallOK(c) /\ call[c].replay \in Range \cup {NoRange}
  BY DEF IInv, ClientInv, TypeOK, Call
<1>2. CASE call[c].op = "setProgress"
  <2>1. call[c].revision \in Nat \ {0} /\ call[c].replay = NoRange
    BY <1>1, <1>2, RevisionAssumption DEF CallOK
  <2> QED
    BY <1>2, <2>1 DEF Criteria, Inserted, Updated, Shown
<1>3. CASE call[c].op = "setIsReplaying"
  <2>1. call[c].revision = 0
    BY <1>1, <1>3 DEF CallOK
  <2> QED
    BY <1>3, <2>1 DEF Criteria, Inserted, Updated, Shown
<1> QED
  BY <1>2, <1>3 DEF Setting

\* The commit of another call changes what there is for its key.
LEMMA SettingIsKept ==
  ASSUME IInv, NEW c \in Client, Commit(c), call[c].phase = "ending"
  PROVE  Kept!Next
<1>1. PICK k \in Key : k = call[c].key
  BY DEF IInv, ClientInv, CallOK
<1>2. call[c].op \in Setting /\ writer[k] = c /\ EndingOK(c) /\ CallOK(c)
  BY <1>1 DEF IInv, ClientInv, CallOK, EndingOK
<1>3. PICK old : old = Shown(committed[k])
  OBVIOUS
<1>4. PICK new : new = Shown(committed'[k])
  OBVIOUS
<1>5. old \in Row
  <2>1. Shown(NoRow) \in Row
    BY DEF Shown, Row
  <2> QED
    BY <1>3, <2>1 DEF IInv, TypeOK, Shown
<1>6. Criteria(call[c], old) /\ new = Updated(call[c], old)
  <2>1. committed'[k] = draft[k]
    BY <1>2, CommitsAre
  <2>2. Updated(call[c], old) # NoRow
    BY <1>5, WrittenRows, RowAssumption DEF IInv
  <2>3. CASE committed[k] # NoRow
    BY <1>1, <1>2, <1>3, <1>4, <2>1, <2>2, <2>3 DEF EndingOK, Shown
  <2>4. CASE committed[k] = NoRow
    <3>1. Shown(Updated(call[c], old)) = Updated(call[c], old)
      BY <2>2 DEF Shown
    <3> QED
      BY <1>1, <1>2, <1>3, <1>4, <2>1, <2>4, <3>1, InsertedIsUpdated DEF EndingOK
  <2> QED
    BY <2>3, <2>4
<1>7. \A j \in Key \ {k} : committed'[j] = committed[j]
  BY <1>1, CommitsAre DEF IInv, ClientInv, RowsOK
<1>8. CASE call[c].op = "setProgress"
  <2>1. PICK r \in Revision : r = call[c].revision
    BY <1>2, <1>8 DEF CallOK
  <2>2. old.revision < r /\ new = [old EXCEPT !.revision = r]
    BY <1>6, <1>8, <2>1 DEF Criteria, Updated
  <2>3. r > old.revision
    BY <1>5, <2>2, RevisionIsNat DEF Row
  <2>4. Kept!Advance(k, r)
    BY <1>3, <1>4, <1>7, <2>2, <2>3 DEF Kept!Advance, Shown
  <2> QED
    BY <2>4 DEF Kept!Next
<1>9. CASE call[c].op = "setIsReplaying"
  <2>1. PICK replay \in Range \cup {NoRange} : replay = call[c].replay
    BY DEF IInv, TypeOK, Call
  <2>2. (replay # NoRange => old.replay = NoRange) /\ new = [old EXCEPT !.replay = replay]
    BY <1>6, <1>9, <2>1 DEF Criteria, Updated
  <2>3. CASE replay = NoRange
    <3>1. Kept!StopReplay(k)
      BY <1>3, <1>4, <1>7, <2>2, <2>3 DEF Kept!StopReplay, Shown
    <3> QED
      BY <3>1 DEF Kept!Next
  <2>4. CASE replay # NoRange
    <3>1. Kept!StartReplay(k, replay)
      BY <1>3, <1>4, <1>7, <2>2, <2>4 DEF Kept!StartReplay, Shown
    <3> QED
      BY <2>4, <3>1 DEF Kept!Next
  <2> QED
    BY <2>3, <2>4
<1> QED
  BY <1>2, <1>8, <1>9 DEF Setting

\* The store implements the abstract one.
THEOREM ImplementsProgressCorrect == Spec => ImplementsProgress
<1>1. Init => Kept!Init
  BY InitKept
<1>2. IInv /\ [Next]_vars =>
        [Kept!Next]_([k \in Key |-> IF committed[k] = NoRow
                                      THEN [revision |-> 0, replay |-> NoRange]
                                      ELSE committed[k]])
  <2> SUFFICES ASSUME IInv, [Next]_vars, committed' # committed PROVE Kept!Next
    OBVIOUS
  <2>1. PICK c \in Client : Commit(c)
    BY OnlyCommits
  <2> QED
    BY <2>1, SettingIsKept, ResetIsKept DEF Commit
<1> QED
  BY <1>1, <1>2, InvCorrect, PTL DEF Spec, ImplementsProgress, Kept!Spec

=============================================================================
