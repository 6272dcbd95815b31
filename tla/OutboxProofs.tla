---------------------------- MODULE OutboxProofs ----------------------------
(***************************************************************************)
(* Proofs about Outbox for every number of events, workers and attempts,    *)
(* any batch size and lease length, and any clock offsets.                   *)
(*                                                                          *)
(* The argument: the row's token and attempt counter determine everything   *)
(* else (RowDiscipline), a handler runs only under the row lock and the      *)
(* present token (HandlerOwnsEvent), so that whatever stale worker acts, the *)
(* row and the attempts table change together (LedgerMatchesEvent).          *)
(***************************************************************************)
EXTENDS Outbox, TLAPS

USE DEF CapReached

(* What holds of every event row by itself. *)
RowDiscipline(e) ==
    /\ attempts[e] <= MaxAttempts
    /\ leaseToken[e] \in {NoToken, attempts[e]}
    /\ leaseToken[e] # NoToken =>
          /\ e \in queued
          /\ e \notin Settled
          /\ lockedBy[e] = attemptWorker[e][attempts[e]]
    /\ leaseToken[e] = NoToken /\ e \notin Settled => attempts[e] < MaxAttempts
    /\ e \in dead => attempts[e] = MaxAttempts /\ e \notin processed

(* A lease object in memory was granted to some worker. *)
TasksHaveWorkers ==
    \A e \in Event, n \in Attempt : task[e][n] # "none" => attemptWorker[e][n] \in Worker

(* Attempt n of e holds the lease, if time is left aside. *)
PresentLease(e, n) ==
    /\ lockedBy[e] = attemptWorker[e][n]
    /\ leaseToken[e] = n
    /\ attempts[e] = n
    /\ e \notin Settled

IndInv ==
    /\ TypeOK
    /\ \A e \in Event : RowDiscipline(e)
    /\ LedgerMatchesEvent
    /\ EffectIffProcessed
    /\ HandlerOwnsEvent
    /\ TasksHaveWorkers

-----------------------------------------------------------------------------
(* Initially there are no rows. *)
LEMMA InitInd == Init => IndInv
  BY OutboxAssumption, SMTT(30)
     DEF Init, IndInv, TypeOK, RowDiscipline, LedgerMatchesEvent, LedgerStatus,
         EffectIffProcessed, HandlerOwnsEvent, TasksHaveWorkers, Settled, Attempt, AttemptStatus,
         TaskPhase, NoToken

(* A row that a producer inserts has been tried by nobody. *)
LEMMA EnqueueInd == ASSUME IndInv, NEW x \in Event, Enqueue(x) PROVE IndInv'
  <1>1. TypeOK'
    BY OutboxAssumption DEF IndInv, TypeOK, Enqueue, attemptVars
  <1>2. \A e \in Event : RowDiscipline(e)'
    BY DEF IndInv, TypeOK, RowDiscipline, Enqueue, attemptVars, Settled, NoToken
  <1>3. LedgerMatchesEvent'
    BY DEF IndInv, LedgerMatchesEvent, LedgerStatus, Enqueue, attemptVars
  <1>4. EffectIffProcessed'
    BY DEF IndInv, EffectIffProcessed, Enqueue
  <1>5. HandlerOwnsEvent'
    BY DEF IndInv, HandlerOwnsEvent, Enqueue, attemptVars, Settled
  <1>6. TasksHaveWorkers'
    BY DEF IndInv, TasksHaveWorkers, Enqueue, attemptVars
  <1> QED BY <1>1, <1>2, <1>3, <1>4, <1>5, <1>6 DEF IndInv

(* Steps that change no table keep the invariant as long as a handler starts  *)
(* only under the row lock and the present lease.                             *)
LEMMA TaskOnlyInd ==
  ASSUME IndInv, NEW x \in Event, NEW k \in Attempt, task[x][k] # "none", NEW phase \in TaskPhase,
         SetTask(x, k, phase), UNCHANGED <<queued, rowVars, attemptVars, effects>>,
         phase = "handling" => /\ ~RowLocked(x)
                               /\ PresentLease(x, k)
  PROVE  IndInv'
  <1>1. TypeOK'
    BY DEF IndInv, TypeOK, SetTask, rowVars, attemptVars
  <1>2. \A e \in Event : RowDiscipline(e)'
    BY DEF IndInv, RowDiscipline, rowVars, attemptVars, Settled
  <1>3. LedgerMatchesEvent'
    BY DEF IndInv, LedgerMatchesEvent, LedgerStatus, rowVars, attemptVars
  <1>4. EffectIffProcessed'
    BY DEF IndInv, EffectIffProcessed, rowVars
  <1>5. HandlerOwnsEvent'
    BY DEF IndInv, TypeOK, HandlerOwnsEvent, SetTask, rowVars, attemptVars, Settled,
           RowLocked, PresentLease
  <1>6. TasksHaveWorkers'
    BY DEF IndInv, TypeOK, TasksHaveWorkers, SetTask, attemptVars
  <1> QED BY <1>1, <1>2, <1>3, <1>4, <1>5, <1>6 DEF IndInv

(* Taking up a lease, losing it, throwing and forgetting touch no table. *)
LEMMA NoTableInd ==
  ASSUME IndInv, NEW x \in Event, NEW k \in Attempt,
         \/ BeginProcess(x, k)
         \/ ProcessThrows(x, k)
         \/ LoseLease(x, k)
         \/ FailTooLate(x, k)
         \/ Abandon(x, k)
  PROVE  IndInv'
  <1>1. CASE BeginProcess(x, k)
    <2>1. PICK offset : SetTask(x, k, IF HoldsLease(x, k, offset) THEN "handling" ELSE "none")
      BY <1>1 DEF BeginProcess
    <2>2. CASE HoldsLease(x, k, offset)
      BY <1>1, <2>1, <2>2, TaskOnlyInd DEF BeginProcess, HoldsLease, PresentLease, TaskPhase
    <2>3. CASE ~HoldsLease(x, k, offset)
      BY <1>1, <2>1, <2>3, TaskOnlyInd DEF BeginProcess, TaskPhase
    <2> QED BY <2>2, <2>3
  <1>2. CASE ProcessThrows(x, k)
    BY <1>2, TaskOnlyInd DEF ProcessThrows, TaskPhase
  <1>3. CASE LoseLease(x, k) \/ FailTooLate(x, k) \/ Abandon(x, k)
    BY <1>3, TaskOnlyInd DEF LoseLease, FailTooLate, Abandon, TaskPhase
  <1> QED BY <1>1, <1>2, <1>3

(* The acknowledgement commits under the present lease, so the attempt it     *)
(* closes is the open one.                                                    *)
LEMMA CommitInd ==
  ASSUME IndInv, NEW x \in Event, NEW k \in Attempt, CommitProcess(x, k)
  PROVE  IndInv'
  <1>1. PresentLease(x, k) /\ x \in queued /\ k > 0
    BY DEF CommitProcess, HoldsLease, PresentLease, IndInv, RowDiscipline, Attempt, NoToken
  <1>2. PICK seen \in {"none", "failing"} : SetTask(x, k, seen)
    BY DEF CommitProcess
  <1>3. TypeOK'
    BY <1>1, <1>2, OutboxAssumption
       DEF IndInv, TypeOK, CommitProcess, ReleaseLease, CloseAttempt, SetTask,
           AttemptStatus, TaskPhase, NoToken
  <1>4. \A e \in Event : RowDiscipline(e)'
    BY <1>1 DEF IndInv, TypeOK, RowDiscipline, CommitProcess, ReleaseLease, Settled,
                PresentLease, NoToken
  <1>5. LedgerMatchesEvent'
    <2>1. attemptStatus[x][k] = "leased"
      BY <1>1 DEF IndInv, TypeOK, LedgerMatchesEvent, LedgerStatus, PresentLease, Settled,
                  NoToken, Attempt
    <2> SUFFICES ASSUME NEW e \in Event, NEW n \in Attempt
                 PROVE  attemptStatus'[e][n] = LedgerStatus(e, n)'
      BY DEF LedgerMatchesEvent
    <2>2. attemptStatus[e][n] = LedgerStatus(e, n)
      BY DEF IndInv, LedgerMatchesEvent
    <2>3. CASE e = x /\ n = k
      <3>1. attemptStatus'[x][k] = "succeeded"
        BY <2>1 DEF IndInv, TypeOK, CommitProcess, CloseAttempt
      <3>2. attempts'[x] = k /\ x \in processed'
        BY <1>1 DEF CommitProcess, PresentLease
      <3> QED BY <2>3, <3>1, <3>2 DEF LedgerStatus, Attempt
    <2>4. CASE e = x /\ n # k
      BY <1>1, <2>2, <2>4 DEF IndInv, TypeOK, LedgerStatus, PresentLease, Attempt,
         CommitProcess, CloseAttempt, ReleaseLease
    <2>5. CASE e # x
      BY <2>2, <2>5 DEF IndInv, TypeOK, LedgerStatus, CommitProcess, CloseAttempt, ReleaseLease
    <2> QED BY <2>3, <2>4, <2>5
  <1>6. EffectIffProcessed'
    BY <1>1 DEF IndInv, TypeOK, EffectIffProcessed, CommitProcess, PresentLease, Settled
  <1>7. HandlerOwnsEvent'
    BY <1>1, <1>2 DEF IndInv, TypeOK, HandlerOwnsEvent, CommitProcess, ReleaseLease, SetTask,
                Settled
  <1>8. TasksHaveWorkers'
    BY <1>2 DEF IndInv, TypeOK, TasksHaveWorkers, CommitProcess, SetTask
  <1> QED BY <1>3, <1>4, <1>5, <1>6, <1>7, <1>8 DEF IndInv

(* A failure report that is accepted closes the open attempt and gives the    *)
(* event up exactly when the cap is reached.                                  *)
LEMMA FailInd ==
  ASSUME IndInv, NEW x \in Event, NEW k \in Attempt, FailLease(x, k)
  PROVE  IndInv'
  <1>1. PresentLease(x, k) /\ x \in queued /\ k > 0
    BY DEF FailLease, HoldsLease, PresentLease, IndInv, RowDiscipline, Attempt, NoToken
  <1>2. PICK offset \in Nat, delay \in Nat : availableIn' = [availableIn EXCEPT ![x] = offset + delay]
    BY OutboxAssumption DEF FailLease, IndInv, TasksHaveWorkers
  <1>3. TypeOK'
    BY <1>1, <1>2, OutboxAssumption
       DEF IndInv, TypeOK, FailLease, ReleaseLease, CloseAttempt, SetTask,
           AttemptStatus, TaskPhase, NoToken
  <1>4. \A e \in Event : RowDiscipline(e)'
    <2> SUFFICES ASSUME NEW e \in Event PROVE RowDiscipline(e)'
      OBVIOUS
    <2>1. RowDiscipline(e)
      BY DEF IndInv
    <2>2. CASE e = x
      <3>1. /\ leaseToken'[x] = NoToken
            /\ attempts'[x] = attempts[x]
            /\ x \notin processed'
            /\ attempts[x] >= MaxAttempts <=> x \in dead'
        BY <1>1 DEF IndInv, TypeOK, FailLease, ReleaseLease, Settled, PresentLease
      <3>2. attempts[x] \in Nat /\ attempts[x] <= MaxAttempts /\ MaxAttempts \in Nat
        BY <2>1, <2>2, OutboxAssumption DEF IndInv, TypeOK, RowDiscipline
      <3> QED BY <2>2, <3>1, <3>2 DEF RowDiscipline, Settled, NoToken
    <2>3. CASE e # x
      BY <2>1, <2>3 DEF IndInv, TypeOK, RowDiscipline, FailLease, ReleaseLease, Settled
    <2> QED BY <2>2, <2>3
  <1>5. LedgerMatchesEvent'
    <2>1. attemptStatus[x][k] = "leased"
      BY <1>1 DEF IndInv, TypeOK, LedgerMatchesEvent, LedgerStatus, PresentLease, Settled,
                  NoToken, Attempt
    <2> SUFFICES ASSUME NEW e \in Event, NEW n \in Attempt
                 PROVE  attemptStatus'[e][n] = LedgerStatus(e, n)'
      BY DEF LedgerMatchesEvent
    <2>2. attemptStatus[e][n] = LedgerStatus(e, n)
      BY DEF IndInv, LedgerMatchesEvent
    <2>3. CASE e = x /\ n = k
      <3>1. attempts'[x] = k /\ x \notin processed' /\ leaseToken'[x] = NoToken
        BY <1>1 DEF IndInv, TypeOK, FailLease, ReleaseLease, PresentLease, Settled
      <3>2. CASE attempts[x] >= MaxAttempts
        <4>1. attemptStatus'[x][k] = "dead_lettered" /\ x \in dead'
          BY <2>1, <3>2 DEF IndInv, TypeOK, FailLease, CloseAttempt
        <4> QED BY <2>3, <3>1, <4>1 DEF LedgerStatus, Attempt
      <3>3. CASE ~(attempts[x] >= MaxAttempts)
        <4>1. attemptStatus'[x][k] = "failed" /\ x \notin dead'
          BY <1>1, <2>1, <3>3 DEF IndInv, TypeOK, FailLease, CloseAttempt, PresentLease, Settled
        <4> QED BY <2>3, <3>1, <4>1 DEF LedgerStatus, Attempt
      <3> QED BY <3>2, <3>3
    <2>4. CASE e = x /\ n # k
      BY <1>1, <2>2, <2>4 DEF IndInv, TypeOK, LedgerStatus, PresentLease, Attempt,
         FailLease, CloseAttempt, ReleaseLease
    <2>5. CASE e # x
      BY <2>2, <2>5 DEF IndInv, TypeOK, LedgerStatus, FailLease, CloseAttempt, ReleaseLease
    <2> QED BY <2>3, <2>4, <2>5
  <1>6. EffectIffProcessed'
    BY DEF IndInv, EffectIffProcessed, FailLease
  <1>7. HandlerOwnsEvent'
    BY <1>1 DEF IndInv, TypeOK, HandlerOwnsEvent, FailLease, ReleaseLease, SetTask,
                Settled, RowLocked
  <1>8. TasksHaveWorkers'
    BY DEF IndInv, TypeOK, TasksHaveWorkers, FailLease, SetTask
  <1> QED BY <1>3, <1>4, <1>5, <1>6, <1>7, <1>8 DEF IndInv

(* Time moves no decision by itself. *)
LEMMA TickInd == ASSUME IndInv, Tick PROVE IndInv'
  <1>1. TypeOK'
    <2>1. \A left \in Nat : Elapse(left) \in Nat
      BY DEF Elapse
    <2>2. availableIn' \in [Event -> Nat] /\ leaseLeft' \in [Event -> Nat]
      BY <2>1 DEF IndInv, TypeOK, Tick
    <2> QED BY <2>2 DEF IndInv, TypeOK, Tick, attemptVars
  <1> QED
    BY <1>1 DEF IndInv, Tick, attemptVars, RowDiscipline, LedgerMatchesEvent, LedgerStatus,
                EffectIffProcessed, HandlerOwnsEvent, TasksHaveWorkers, Settled

(* A claim never meets a running handler, because the row lock keeps it away, *)
(* and it leaves no attempt open but the one it grants.                       *)
LEMMA LeaseInd ==
  ASSUME IndInv, NEW w \in Worker, Lease(w)
  PROVE  IndInv'
  <1>0. PICK offset \in Nat : \E S \in Batches(offset) : LeaseRows(w, offset, S)
    BY OutboxAssumption DEF Lease
  <1>1. PICK S \in Batches(offset) : LeaseRows(w, offset, S)
    BY <1>0
  <1> DEFINE exhausted == {e \in S : LeaseExpired(e) /\ CapReached(e)}
             granted == S \ exhausted
  <1>2. \A e \in S : e \in queued /\ e \in Event /\ e \notin Settled /\ ~RowLocked(e)
    BY OutboxAssumption DEF Batches, Claimable
  <1>3. \A e \in exhausted : /\ leaseToken[e] = attempts[e]
                             /\ attempts[e] = MaxAttempts
                             /\ attempts[e] \in Attempt
    BY <1>2, OutboxAssumption
       DEF IndInv, TypeOK, RowDiscipline, LeaseExpired, Attempt, NoToken
  <1>4. \A e \in granted : attempts[e] < MaxAttempts
    BY <1>2, OutboxAssumption
       DEF IndInv, TypeOK, RowDiscipline, LeaseExpired, NoToken
  <1>5. /\ dead' = dead \cup exhausted
        /\ \A e \in Event :
             /\ attempts'[e] = IF e \in granted THEN attempts[e] + 1 ELSE attempts[e]
             /\ leaseToken'[e] = IF e \in granted THEN attempts[e] + 1
                                 ELSE IF e \in exhausted THEN NoToken ELSE leaseToken[e]
             /\ lockedBy'[e] = IF e \in granted THEN w
                               ELSE IF e \in exhausted THEN NoWorker ELSE lockedBy[e]
        /\ UNCHANGED <<queued, processed, availableIn, effects>>
    BY <1>1 DEF LeaseRows
  <1>6. \A e \in Event, n \in Attempt :
          IF e \in granted /\ n = attempts[e] + 1
            THEN attemptWorker'[e][n] = w /\ task'[e][n] = "claimed"
            ELSE attemptWorker'[e][n] = attemptWorker[e][n] /\ task'[e][n] = task[e][n]
    BY <1>1 DEF LeaseRows
  <1>7. \A e \in Event, n \in Attempt :
          attemptStatus'[e][n] =
            IF e \in S /\ LeaseExpired(e) /\ n = attempts[e] /\ attemptStatus[e][n] = "leased"
              THEN IF e \in exhausted THEN "dead_lettered" ELSE "failed"
            ELSE IF e \in granted /\ n = attempts[e] + 1 THEN "leased"
            ELSE attemptStatus[e][n]
    BY <1>1 DEF LeaseRows
  <1> HIDE DEF exhausted, granted
  <1>8. TypeOK'
    <2>1. /\ queued' \subseteq Event
          /\ processed' \subseteq queued'
          /\ dead' \subseteq queued'
          /\ availableIn' \in [Event -> Nat]
          /\ effects' \in [Event -> Nat]
      BY <1>2, <1>5 DEF IndInv, TypeOK, exhausted
    <2>2. /\ attempts' \in [Event -> Nat]
          /\ leaseToken' \in [Event -> Nat]
      BY <1>1 DEF IndInv, TypeOK, LeaseRows, NoToken
    <2>3. /\ lockedBy' \in [Event -> Worker \cup {NoWorker}]
          /\ leaseLeft' \in [Event -> Nat]
      BY <1>1, OutboxAssumption DEF IndInv, TypeOK, LeaseRows
    <2>4. attemptStatus' \in [Event -> [Attempt -> AttemptStatus]]
      BY <1>1 DEF IndInv, TypeOK, LeaseRows, AttemptStatus
    <2>5. attemptWorker' \in [Event -> [Attempt -> Worker \cup {NoWorker}]]
      BY <1>1 DEF IndInv, TypeOK, LeaseRows
    <2>6. task' \in [Event -> [Attempt -> TaskPhase]]
      BY <1>1 DEF IndInv, TypeOK, LeaseRows, TaskPhase
    <2> QED BY <2>1, <2>2, <2>3, <2>4, <2>5, <2>6 DEF TypeOK
  <1>9. \A e \in Event : RowDiscipline(e)'
    <2> SUFFICES ASSUME NEW e \in Event PROVE RowDiscipline(e)'
      OBVIOUS
    <2>1. RowDiscipline(e) /\ attempts[e] \in Nat /\ MaxAttempts \in Nat
      BY OutboxAssumption DEF IndInv, TypeOK
    <2>2. CASE e \in granted
      <3>1. attempts'[e] = attempts[e] + 1 /\ attempts'[e] \in Attempt /\ attempts'[e] <= MaxAttempts
        BY <1>4, <1>5, <2>1, <2>2 DEF Attempt
      <3>2. /\ leaseToken'[e] = attempts'[e] /\ leaseToken'[e] # NoToken
            /\ lockedBy'[e] = w /\ attemptWorker'[e][attempts'[e]] = w
        BY <1>5, <1>6, <2>1, <2>2, <3>1 DEF Attempt, NoToken
      <3>3. e \in queued' /\ e \notin Settled'
        BY <1>2, <1>5, <2>2 DEF Settled, granted
      <3> QED BY <3>1, <3>2, <3>3 DEF RowDiscipline, Settled
    <2>3. CASE e \in exhausted
      BY <1>2, <1>3, <1>5, <2>1, <2>3 DEF RowDiscipline, Settled, granted, exhausted, NoToken
    <2>4. CASE e \notin granted /\ e \notin exhausted
      <3>1. \A n \in Attempt : attemptWorker'[e][n] = attemptWorker[e][n]
        BY <1>6, <2>4
      <3>2. leaseToken[e] # NoToken => attempts[e] \in Attempt
        BY <2>1 DEF RowDiscipline, Attempt, NoToken
      <3> QED BY <1>5, <2>1, <2>4, <3>1, <3>2 DEF RowDiscipline, Settled
    <2> QED BY <2>2, <2>3, <2>4
  <1>10. LedgerMatchesEvent'
    <2> SUFFICES ASSUME NEW e \in Event, NEW n \in Attempt
                 PROVE  attemptStatus'[e][n] = LedgerStatus(e, n)'
      BY DEF LedgerMatchesEvent
    <2>1. /\ attemptStatus[e][n] = LedgerStatus(e, n)
          /\ attempts[e] \in Nat
          /\ n \in Nat
          /\ RowDiscipline(e)
      BY DEF IndInv, LedgerMatchesEvent, TypeOK, Attempt
    <2>2. CASE e \in granted
      <3>1. e \in S /\ e \notin exhausted /\ e \notin Settled /\ e \notin Settled'
        BY <1>2, <1>5, <2>2 DEF granted, Settled
      <3>2. attempts'[e] = attempts[e] + 1 /\ leaseToken'[e] # NoToken
        BY <1>5, <2>1, <2>2 DEF NoToken
      <3>3. CASE n > attempts[e] + 1
        BY <1>7, <2>1, <3>2, <3>3 DEF LedgerStatus
      <3>4. CASE n = attempts[e] + 1
        BY <1>7, <2>1, <2>2, <3>1, <3>2, <3>4 DEF LedgerStatus, Settled
      <3>5. CASE n = attempts[e]
        <4>1. attemptStatus'[e][n] = "failed"
          BY <1>7, <2>1, <3>1, <3>5 DEF LedgerStatus, LeaseExpired, Settled, NoToken, Attempt
        <4> QED BY <2>1, <3>2, <3>5, <4>1 DEF LedgerStatus
      <3>6. CASE n < attempts[e]
        BY <1>7, <2>1, <3>2, <3>6 DEF LedgerStatus
      <3> QED BY <2>1, <3>3, <3>4, <3>5, <3>6
    <2>3. CASE e \in exhausted
      <3>1. /\ e \in S /\ e \notin granted /\ LeaseExpired(e)
            /\ e \notin Settled /\ e \notin processed' /\ e \in dead'
            /\ attempts'[e] = attempts[e]
        BY <1>2, <1>5, <2>3 DEF granted, exhausted, Settled
      <3>2. CASE n = attempts[e]
        BY <1>7, <2>1, <2>3, <3>1, <3>2 DEF LedgerStatus, LeaseExpired, Settled
      <3>3. CASE n # attempts[e]
        BY <1>7, <2>1, <2>3, <3>1, <3>3 DEF LedgerStatus
      <3> QED BY <3>2, <3>3
    <2>4. CASE e \notin granted /\ e \notin exhausted
      <3>1. e \notin S
        BY <2>4 DEF granted
      <3> QED BY <1>5, <1>7, <2>1, <2>4, <3>1 DEF LedgerStatus
    <2> QED BY <2>2, <2>3, <2>4
  <1>11. EffectIffProcessed'
    BY <1>5 DEF IndInv, EffectIffProcessed
  <1>12. HandlerOwnsEvent'
    <2>1. \A e \in Event, n \in Attempt :
            task'[e][n] = "handling" => e \notin S /\ task[e][n] = "handling"
      BY <1>2, <1>6 DEF RowLocked
    <2>2. \A e \in Event : e \notin S => e \notin granted /\ e \notin exhausted
      BY DEF granted, exhausted
    <2> QED BY <1>5, <1>6, <2>1, <2>2 DEF IndInv, HandlerOwnsEvent, Settled
  <1>13. TasksHaveWorkers'
    BY <1>6 DEF IndInv, TasksHaveWorkers
  <1> QED BY <1>8, <1>9, <1>10, <1>11, <1>12, <1>13 DEF IndInv

-----------------------------------------------------------------------------
(* Every step of the outbox keeps the invariant. *)
LEMMA NextInd == IndInv /\ [Next]_vars => IndInv'
  <1> SUFFICES ASSUME IndInv, [Next]_vars PROVE IndInv'
    OBVIOUS
  <1>1. CASE \E e \in Event : Enqueue(e)
    BY <1>1, EnqueueInd
  <1>2. CASE \E w \in Worker : Lease(w)
    BY <1>2, LeaseInd
  <1>3. CASE \E e \in Event, n \in Attempt : Work(e, n) \/ ProcessThrows(e, n) \/ Abandon(e, n)
    BY <1>3, NoTableInd, CommitInd, FailInd DEF Work
  <1>4. CASE Tick
    BY <1>4, TickInd
  <1>5. CASE UNCHANGED vars
    BY <1>5 DEF vars, rowVars, attemptVars, IndInv, TypeOK, RowDiscipline, LedgerMatchesEvent,
                LedgerStatus, EffectIffProcessed, HandlerOwnsEvent, TasksHaveWorkers, Settled
  <1> QED BY <1>1, <1>2, <1>3, <1>4, <1>5 DEF Next

(* The strengthened invariant holds in every state. *)
THEOREM Inductive == Spec => []IndInv
  BY InitInd, NextInd, PTL DEF Spec

(* Every variable keeps its type. *)
THEOREM TypeCorrect == Spec => []TypeOK
  <1>1. IndInv => TypeOK
    BY DEF IndInv
  <1> QED BY Inductive, <1>1, PTL

(* outbox_events and outbox_attempts never contradict each other. *)
THEOREM LedgerCorrect == Spec => []LedgerMatchesEvent
  <1>1. IndInv => LedgerMatchesEvent
    BY DEF IndInv
  <1> QED BY Inductive, <1>1, PTL

(* The effects of an event commit exactly with its acknowledgement. *)
THEOREM EffectOnce == Spec => []EffectIffProcessed
  <1>1. IndInv => EffectIffProcessed
    BY DEF IndInv
  <1> QED BY Inductive, <1>1, PTL

(* Handlers of one event exclude each other and run under the present lease. *)
THEOREM HandlerExclusive == Spec => []HandlerOwnsEvent
  <1>1. IndInv => HandlerOwnsEvent
    BY DEF IndInv
  <1> QED BY Inductive, <1>1, PTL

(* The attempt cap is exact. *)
THEOREM CapExact == Spec => []GivesUpExactlyAtCap
  <1>1. IndInv => GivesUpExactlyAtCap
    BY DEF IndInv, RowDiscipline, GivesUpExactlyAtCap
  <1> QED BY Inductive, <1>1, PTL

-----------------------------------------------------------------------------

(* What one step may do to a row: hand it out once more, close the open       *)
(* attempt, or leave its outcome alone.                                       *)
RowStep(e) ==
    \/ e \notin Settled /\ attempts'[e] = attempts[e] + 1
    \/ attempts'[e] = attempts[e] /\ leaseToken[e] # NoToken
    \/ /\ attempts'[e] = attempts[e]
       /\ leaseToken'[e] = leaseToken[e]
       /\ e \in processed' <=> e \in processed
       /\ e \in dead' <=> e \in dead

LEMMA RowEvolves == ASSUME IndInv, [Next]_vars, NEW e \in Event PROVE RowStep(e)
  <1>1. CASE \E x \in Event : Enqueue(x)
    BY <1>1 DEF Enqueue, RowStep
  <1>2. ASSUME NEW w \in Worker, Lease(w) PROVE RowStep(e)
    <2>0. PICK offset \in ClockOffset[w] : \E S \in Batches(offset) : LeaseRows(w, offset, S)
      BY <1>2 DEF Lease
    <2>1. PICK S \in Batches(offset) : LeaseRows(w, offset, S)
      BY <2>0
    <2>2. \A x \in S : x \notin Settled
      BY DEF Batches, Claimable
    <2>3. CASE e \in S /\ ~(LeaseExpired(e) /\ CapReached(e))
      BY <2>1, <2>2, <2>3 DEF LeaseRows, RowStep
    <2>4. CASE e \in S /\ LeaseExpired(e) /\ CapReached(e)
      BY <2>1, <2>4 DEF LeaseRows, RowStep, LeaseExpired
    <2>5. CASE e \notin S
      BY <2>1, <2>5 DEF LeaseRows, RowStep
    <2> QED BY <2>3, <2>4, <2>5
  <1>3. ASSUME NEW x \in Event, NEW k \in Attempt,
               Work(x, k) \/ ProcessThrows(x, k) \/ Abandon(x, k)
        PROVE  RowStep(e)
    <2>1. CASE CommitProcess(x, k) \/ FailLease(x, k)
      <3>1. leaseToken[x] = k /\ k # NoToken
        BY <2>1 DEF CommitProcess, FailLease, HoldsLease, Attempt, NoToken
      <3>2. CASE e = x
        BY <2>1, <3>1, <3>2 DEF CommitProcess, FailLease, RowStep
      <3>3. CASE e # x
        BY <2>1, <3>3 DEF CommitProcess, FailLease, ReleaseLease, RowStep, IndInv, TypeOK
      <3> QED BY <3>2, <3>3
    <2>2. CASE UNCHANGED rowVars
      BY <2>2 DEF rowVars, RowStep
    <2> QED
      BY <1>3, <2>1, <2>2 DEF Work, BeginProcess, LoseLease, FailTooLate, ProcessThrows, Abandon
  <1>4. CASE Tick \/ UNCHANGED vars
    BY <1>4 DEF Tick, vars, rowVars, RowStep
  <1> QED BY <1>1, <1>2, <1>3, <1>4 DEF Next

(* A recorded outcome stays as it is: the ledger of the next state says so,   *)
(* and no row goes back.                                                      *)
THEOREM HistoryFinal == Spec => HistoryIsFinal
  <1>1. ASSUME IndInv, IndInv', [Next]_vars, NEW e \in Event, NEW n \in Attempt,
               attemptStatus[e][n] \notin {"none", "leased"} \/ e \in Settled
        PROVE  attemptStatus'[e][n] = attemptStatus[e][n]
    <2>1. /\ attemptStatus[e][n] = LedgerStatus(e, n)
          /\ attemptStatus'[e][n] = LedgerStatus(e, n)'
      BY <1>1 DEF IndInv, LedgerMatchesEvent
    <2>2. /\ RowStep(e) /\ RowDiscipline(e) /\ RowDiscipline(e)'
          /\ attempts[e] \in Nat /\ attempts'[e] \in Nat /\ n \in Nat
      BY <1>1, RowEvolves DEF IndInv, TypeOK, Attempt
    <2>3. CASE n > attempts[e]
      BY <1>1, <2>1, <2>2, <2>3 DEF LedgerStatus, RowStep, RowDiscipline
    <2>4. CASE n < attempts[e]
      BY <2>1, <2>2, <2>4 DEF LedgerStatus, RowStep
    <2>5. CASE n = attempts[e]
      BY <1>1, <2>1, <2>2, <2>5 DEF LedgerStatus, RowStep, RowDiscipline, Settled
    <2> QED BY <2>2, <2>3, <2>4, <2>5
  <1>2. IndInv /\ IndInv' /\ [Next]_vars =>
          [\A e \in Event, n \in Attempt :
             /\ attemptStatus[e][n] \notin {"none", "leased"}
                   => attemptStatus'[e][n] = attemptStatus[e][n]
             /\ e \in Settled
                   => attemptStatus'[e][n] = attemptStatus[e][n]]_vars
    BY <1>1
  <1> QED BY Inductive, <1>2, PTL DEF Spec, HistoryIsFinal

-----------------------------------------------------------------------------
(* The refinement.  A claim hands over what it grants and gives up what it    *)
(* finds exhausted; an accepted report of a last failure gives up one event.  *)
LEMMA PromiseInit == Init => Promise!Init
  BY DEF Init, Promise!Init, EventPhase

LEMMA PromiseStep ==
  ASSUME IndInv, [Next]_vars
  PROVE  Promise!Next \/ UNCHANGED <<EventPhase, attempts, effects>>
  <1>1. ASSUME NEW x \in Event, Enqueue(x) PROVE Promise!Submit(x)
    BY <1>1, ZenonT(40) DEF Enqueue, Promise!Submit, EventPhase, IndInv, TypeOK
  <1>2. ASSUME NEW w \in Worker, Lease(w)
        PROVE  \E S, G \in SUBSET Event : Promise!Claim(S, G)
    <2>0. PICK offset \in ClockOffset[w] : \E S \in Batches(offset) : LeaseRows(w, offset, S)
      BY <1>2 DEF Lease
    <2>1. PICK S \in Batches(offset) : LeaseRows(w, offset, S)
      BY <2>0
    <2> DEFINE G == {e \in S : LeaseExpired(e) /\ CapReached(e)}
    <2>2. \A e \in S : e \in Event /\ e \in queued /\ e \notin Settled
      BY OutboxAssumption DEF Batches, Claimable
    <2>3. \A e \in S : EventPhase[e] = "waiting"
      BY <2>2 DEF EventPhase, Settled
    <2>4. \A e \in G : attempts[e] = MaxAttempts
      <3> SUFFICES ASSUME NEW e \in G PROVE attempts[e] = MaxAttempts
        OBVIOUS
      <3>1. attempts[e] >= MaxAttempts /\ attempts[e] \in Nat /\ MaxAttempts \in Nat
        BY <2>2, OutboxAssumption DEF IndInv, TypeOK
      <3>2. attempts[e] <= MaxAttempts
        BY <2>2 DEF IndInv, RowDiscipline
      <3> QED BY <3>1, <3>2
    <2>5. \A e \in S \ G : attempts[e] < MaxAttempts
      BY <2>2, OutboxAssumption
         DEF IndInv, TypeOK, RowDiscipline, LeaseExpired, NoToken
    <2>6. attempts' = [e \in Event |-> IF e \in S \ G THEN attempts[e] + 1 ELSE attempts[e]]
      BY <2>1 DEF LeaseRows
    <2>7. EventPhase' = [e \in Event |-> IF e \in G THEN "given up" ELSE EventPhase[e]]
      <3>1. dead' = dead \cup G /\ processed' = processed /\ queued' = queued
        BY <2>1 DEF LeaseRows
      <3>2. \A e \in G : e \notin processed
        BY <2>2 DEF Settled
      <3> HIDE DEF G
      <3> QED BY <3>1, <3>2 DEF EventPhase
    <2>8. effects' = effects
      BY <2>1 DEF LeaseRows
    <2>9. S \ G \in SUBSET Event /\ G \in SUBSET Event
      BY <2>2
    <2> HIDE DEF G
    <2>10. Promise!Claim(S \ G, G)
      <3>1. \A e \in G : e \in S
        BY DEF G
      <3> QED BY <2>3, <2>4, <2>5, <2>6, <2>7, <2>8, <3>1 DEF Promise!Claim
    <2> QED BY <2>9, <2>10
  <1>3. ASSUME NEW x \in Event, NEW k \in Attempt, CommitProcess(x, k)
        PROVE  Promise!Complete(x)
    <2>1. x \in queued /\ x \notin Settled /\ attempts[x] = k /\ k \in 1 .. MaxAttempts
      BY <1>3, OutboxAssumption
         DEF CommitProcess, HoldsLease, IndInv, TypeOK, RowDiscipline, Attempt, NoToken
    <2>2. EventPhase' = [EventPhase EXCEPT ![x] = "done"]
      BY <1>3, <2>1 DEF CommitProcess, EventPhase
    <2> QED BY <1>3, <2>1, <2>2 DEF Promise!Complete, CommitProcess, EventPhase, Settled
  <1>4. ASSUME NEW x \in Event, NEW k \in Attempt, FailLease(x, k)
        PROVE  Promise!Claim({}, {x}) \/ UNCHANGED <<EventPhase, attempts, effects>>
    <2>1. /\ x \in queued /\ x \notin Settled
          /\ attempts[x] <= MaxAttempts /\ attempts[x] \in Nat /\ MaxAttempts \in Nat
          /\ attempts \in [Event -> Nat]
      BY <1>4, OutboxAssumption
         DEF FailLease, HoldsLease, IndInv, TypeOK, RowDiscipline, Attempt, NoToken
    <2>2. CASE attempts[x] >= MaxAttempts
      <3>1. dead' = dead \cup {x} /\ UNCHANGED <<queued, processed, attempts, effects>>
        BY <1>4, <2>2 DEF FailLease
      <3>2. EventPhase' = [e \in Event |-> IF e \in {x} THEN "given up" ELSE EventPhase[e]]
        BY <2>1, <3>1 DEF EventPhase, Settled
      <3>3. EventPhase[x] = "waiting" /\ attempts[x] = MaxAttempts
        BY <2>1, <2>2 DEF EventPhase, Settled
      <3>4. attempts' = [e \in Event |-> IF e \in {} THEN attempts[e] + 1 ELSE attempts[e]]
        BY <2>1, <3>1
      <3>5. \A e \in {x} : EventPhase[e] = "waiting" /\ attempts[e] = MaxAttempts
        BY <3>3
      <3> QED BY <3>1, <3>2, <3>4, <3>5 DEF Promise!Claim
    <2>3. CASE ~(attempts[x] >= MaxAttempts)
      BY <1>4, <2>3 DEF FailLease, EventPhase
    <2> QED BY <2>2, <2>3
  <1>5. ASSUME NEW x \in Event, NEW k \in Attempt,
               \/ BeginProcess(x, k) \/ LoseLease(x, k) \/ FailTooLate(x, k)
               \/ ProcessThrows(x, k) \/ Abandon(x, k)
        PROVE  UNCHANGED <<EventPhase, attempts, effects>>
    BY <1>5 DEF BeginProcess, LoseLease, FailTooLate, ProcessThrows, Abandon, rowVars,
                EventPhase
  <1>6. CASE Tick \/ UNCHANGED vars
    BY <1>6 DEF Tick, vars, rowVars, EventPhase
  <1> QED
    BY <1>1, <1>2, <1>3, <1>4, <1>5, <1>6 DEF Next, Work, Promise!Next

(* The leased outbox implements the promise it makes to producers. *)
THEOREM Refinement == Spec => KeepsPromise
  <1>1. IndInv /\ [Next]_vars => [Promise!Next]_<<EventPhase, attempts, effects>>
    BY PromiseStep
  <1> QED BY PromiseInit, Inductive, <1>1, PTL DEF Spec, KeepsPromise, Promise!Spec

(* Event row, ledger, leases and effects stay consistent through every crash, *)
(* expiry and late report.                                                   *)
THEOREM Consistent == Spec => []OutboxConsistent
  <1>1. TypeOK /\ LedgerMatchesEvent /\ EffectIffProcessed /\ HandlerOwnsEvent /\ GivesUpExactlyAtCap => OutboxConsistent
    BY DEF OutboxConsistent
  <1> QED BY TypeCorrect, LedgerCorrect, EffectOnce, HandlerExclusive, CapExact, <1>1, PTL
=============================================================================
