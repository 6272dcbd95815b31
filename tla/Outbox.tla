------------------------------- MODULE Outbox -------------------------------
(***************************************************************************)
(* The leased transactional outbox of packages/db/src/worker-repositories  *)
(* (leaseOutbox, processLeasedEvent, failLeasedEvent), as PostgreSQL runs   *)
(* it for any number of worker processes.                                   *)
(*                                                                          *)
(* One atomic action is one committed transaction, or one part of a         *)
(* transaction between two points where the program waits.  A lease claim   *)
(* and a failure report are short transactions on rows they lock, so each   *)
(* is one action.  Processing is not: it locks the event row, runs the      *)
(* handler, reads the clock again and only then commits, so it is split     *)
(* into BeginProcess and CommitProcess with the row locked in between.      *)
(*                                                                          *)
(* The caller is left free: a worker may report a failure late, or never    *)
(* (a crash, a lost connection).  WorkerSweep restricts this module to the  *)
(* calls that the loop of apps/worker makes.                                *)
(*                                                                          *)
(* Time.  The columns hold timestamps; the model keeps the time that is     *)
(* left until each of them, so that time needs no bound.  Workers act on    *)
(* readings of their own clocks, taken before the call that uses them, so a  *)
(* reading is off the true time by an offset, which differs from worker to   *)
(* worker (skew) and from call to call (the reading's age).  Offsets are     *)
(* counted from the slowest reading: with offset o, a timestamp has passed   *)
(* when what is left until it is at most o.                                  *)
(***************************************************************************)
EXTENDS Integers, FiniteSets

CONSTANTS
    Event,          \* the rows that producers may insert into outbox_events
    Active,         \* those whose event type has a handler that is not paused
    Worker,         \* worker processes (WORKER_ID)
    NoWorker,       \* SQL NULL in locked_by and in worker_id
    MaxAttempts,    \* WORKER_MAX_ATTEMPTS
    BatchLimit,     \* rows one claim may take
    LeaseTicks,     \* WORKER_LEASE_MS
    EnqueueDelays,  \* how far ahead a producer may set available_at
    RetryDelays,    \* the back-off a failure report may ask for
    ClockOffset     \* the offsets of the clock readings each worker acts on

ASSUME OutboxAssumption ==
    /\ Active \subseteq Event
    /\ NoWorker \notin Worker
    /\ MaxAttempts \in Nat \ {0}
    /\ BatchLimit \in Nat \ {0}
    /\ LeaseTicks \in Nat \ {0}
    /\ EnqueueDelays \subseteq Nat
    /\ RetryDelays \subseteq Nat
    /\ ClockOffset \in [Worker -> SUBSET Nat]

NoToken == 0                    \* SQL NULL in lease_token

(* One more than the code may use: an attempt past the cap is representable, *)
(* and so is refutable.                                                      *)
Attempt == 1 .. (MaxAttempts + 1)

AttemptStatus == {"none", "leased", "succeeded", "failed", "dead_lettered"}

(* What the worker that was granted an attempt is doing with it.  "none":    *)
(* the lease is not in any process's memory (never granted, dealt with, or   *)
(* lost in a crash).                                                         *)
TaskPhase == {"none", "claimed", "handling", "failing"}

VARIABLES
    queued,         \* rows that exist
    processed,      \* processed_at IS NOT NULL
    dead,           \* dead_lettered_at IS NOT NULL
    attempts,       \* attempts
    leaseToken,     \* lease_token; the fresh UUID of attempt n is written n
    lockedBy,       \* locked_by
    availableIn,    \* time left until available_at
    leaseLeft,      \* time left until lease_expires_at; 0 when it is NULL
    attemptStatus,  \* outbox_attempts.status, "none" when there is no row
    attemptWorker,  \* outbox_attempts.worker_id
    task,           \* the lease objects in the workers' memories
    effects         \* how often the handler's writes were committed

rowVars     == <<processed, dead, attempts, leaseToken, lockedBy,
                 availableIn, leaseLeft>>
attemptVars == <<attemptStatus, attemptWorker>>
vars        == <<queued, rowVars, attemptVars, task, effects>>

-----------------------------------------------------------------------------
Past(left, offset) == left <= offset

Settled == processed \cup dead

(* FOR UPDATE: held from BeginProcess until that transaction ends. *)
RowLocked(e) == \E n \in Attempt : task[e][n] = "handling"

(* A wrong claim: of rows without a lease only, so that nothing takes over    *)
(* after a crash.                                                            *)
ClaimableOnlyUnleased(offset) ==
    {e \in (queued \cap Active) \ Settled :
        leaseToken[e] = NoToken /\ ~RowLocked(e) /\ Past(availableIn[e], offset)}

(* The WHERE clause of the claim, with SKIP LOCKED. *)
Claimable(offset) ==
    {e \in queued \cap Active :
        /\ e \notin Settled
        /\ Past(availableIn[e], offset)
        /\ Past(leaseLeft[e], offset)
        /\ ~RowLocked(e)}

(* ORDER BY available_at LIMIT.  Rows whose available_at has passed tie here: *)
(* which of them come first is left open.                                     *)
Batches(offset) ==
    LET rows == Claimable(offset)
        size == IF Cardinality(rows) < BatchLimit THEN Cardinality(rows)
                                                  ELSE BatchLimit
    IN {S \in SUBSET rows :
          /\ Cardinality(S) = size
          /\ \A e \in S, f \in rows \ S : availableIn[e] <= availableIn[f]}

(* A candidate that still carries a token was leased and never acknowledged. *)
LeaseExpired(e) == leaseToken[e] # NoToken /\ attempts[e] > 0

(* A wrong cap: one attempt too few. *)
CapNear(e) == attempts[e] + 1 >= MaxAttempts

CapReached(e) == attempts[e] >= MaxAttempts

(* The row lookup with which a worker proves that it still holds the lease   *)
(* that attempt n of e gave it.                                              *)
HoldsLease(e, n, offset) ==
    /\ lockedBy[e] = attemptWorker[e][n]
    /\ leaseToken[e] = n
    /\ attempts[e] = n
    /\ e \notin Settled
    /\ ~Past(leaseLeft[e], offset)

SetTask(e, n, phase) == task' = [task EXCEPT ![e][n] = phase]

ReleaseLease(e) ==
    /\ leaseToken' = [leaseToken EXCEPT ![e] = NoToken]
    /\ lockedBy' = [lockedBy EXCEPT ![e] = NoWorker]
    /\ leaseLeft' = [leaseLeft EXCEPT ![e] = 0]

(* UPDATE outbox_attempts ... WHERE attempt = n AND status = 'leased' *)
CloseAttempt(e, n, status) ==
    attemptStatus' = [attemptStatus EXCEPT ![e][n] =
                        IF @ = "leased" THEN status ELSE @]

-----------------------------------------------------------------------------
Init ==
    /\ queued = {}
    /\ processed = {}
    /\ dead = {}
    /\ attempts = [e \in Event |-> 0]
    /\ leaseToken = [e \in Event |-> NoToken]
    /\ lockedBy = [e \in Event |-> NoWorker]
    /\ availableIn = [e \in Event |-> 0]
    /\ leaseLeft = [e \in Event |-> 0]
    /\ attemptStatus = [e \in Event |-> [n \in Attempt |-> "none"]]
    /\ attemptWorker = [e \in Event |-> [n \in Attempt |-> NoWorker]]
    /\ task = [e \in Event |-> [n \in Attempt |-> "none"]]
    /\ effects = [e \in Event |-> 0]

(* A producer's transaction inserts the event next to the business rows. *)
Enqueue(e) ==
    /\ e \notin queued
    /\ queued' = queued \cup {e}
    /\ \E delay \in EnqueueDelays :
         availableIn' = [availableIn EXCEPT ![e] = delay]
    /\ UNCHANGED <<processed, dead, attempts, leaseToken, lockedBy, leaseLeft,
                   attemptVars, task, effects>>

(* leaseOutbox, for the rows S that it locked.  An expired lease closes its   *)
(* attempt; when that was the last one allowed the event is given up, else   *)
(* it is leased again.                                                       *)
LeaseRows(w, offset, S) ==
    LET exhausted == {e \in S : LeaseExpired(e) /\ CapReached(e)}
        granted   == S \ exhausted
        abandoned(e, n) == /\ e \in S
                           /\ LeaseExpired(e)
                           /\ n = attempts[e]
                           /\ attemptStatus[e][n] = "leased"
        fresh(e, n) == e \in granted /\ n = attempts[e] + 1
    IN
      /\ dead' = dead \cup exhausted
      /\ attempts' = [e \in Event |->
            IF e \in granted THEN attempts[e] + 1 ELSE attempts[e]]
      /\ leaseToken' = [e \in Event |->
            IF e \in granted THEN attempts[e] + 1
            ELSE IF e \in exhausted THEN NoToken ELSE leaseToken[e]]
      /\ lockedBy' = [e \in Event |->
            IF e \in granted THEN w
            ELSE IF e \in exhausted THEN NoWorker ELSE lockedBy[e]]
      /\ leaseLeft' = [e \in Event |->
            IF e \in granted THEN offset + LeaseTicks
            ELSE IF e \in exhausted THEN 0 ELSE leaseLeft[e]]
      /\ attemptStatus' = [e \in Event |-> [n \in Attempt |->
            IF abandoned(e, n)
              THEN IF e \in exhausted THEN "dead_lettered" ELSE "failed"
            ELSE IF fresh(e, n) THEN "leased" ELSE attemptStatus[e][n]]]
      /\ attemptWorker' = [e \in Event |-> [n \in Attempt |->
            IF fresh(e, n) THEN w ELSE attemptWorker[e][n]]]
      /\ task' = [e \in Event |-> [n \in Attempt |->
            IF fresh(e, n) THEN "claimed" ELSE task[e][n]]]
      /\ UNCHANGED <<queued, processed, availableIn, effects>>

Lease(w) ==
    \E offset \in ClockOffset[w] : \E S \in Batches(offset) :
        S # {} /\ LeaseRows(w, offset, S)

(* processLeasedEvent up to the handler: lock the row, check the lease.  A   *)
(* lease that is lost is dropped.                                            *)
BeginProcess(e, n) ==
    /\ task[e][n] = "claimed"
    /\ ~RowLocked(e)
    /\ \E offset \in ClockOffset[attemptWorker[e][n]] :
         SetTask(e, n, IF HoldsLease(e, n, offset) THEN "handling" ELSE "none")
    /\ UNCHANGED <<queued, rowVars, attemptVars, effects>>

(* The handler, or the database, throws: the transaction rolls back. *)
ProcessThrows(e, n) ==
    /\ task[e][n] \in {"claimed", "handling"}
    /\ SetTask(e, n, "failing")
    /\ UNCHANGED <<queued, rowVars, attemptVars, effects>>

(* The handler has returned and the lease has not run out: its writes, the   *)
(* acknowledgement and the attempt's success commit together.  When the      *)
(* reply to COMMIT is lost the worker believes that processing failed.       *)
CommitProcess(e, n) ==
    /\ task[e][n] = "handling"
    /\ \E offset \in ClockOffset[attemptWorker[e][n]] : HoldsLease(e, n, offset)
    /\ processed' = processed \cup {e}
    /\ effects' = [effects EXCEPT ![e] = @ + 1]
    /\ ReleaseLease(e)
    /\ CloseAttempt(e, n, "succeeded")
    /\ \E seen \in {"none", "failing"} : SetTask(e, n, seen)
    /\ UNCHANGED <<queued, dead, attempts, availableIn, attemptWorker>>

(* A wrong roll-back: the handler wrote outside the transaction. *)
LoseLeaseKeepingWrites(e, n) ==
    /\ task[e][n] = "handling"
    /\ \E offset \in ClockOffset[attemptWorker[e][n]] : ~HoldsLease(e, n, offset)
    /\ effects' = [effects EXCEPT ![e] = @ + 1]
    /\ SetTask(e, n, "none")
    /\ UNCHANGED <<queued, rowVars, attemptVars>>

(* The handler has returned but the lease ran out meanwhile: roll back. *)
LoseLease(e, n) ==
    /\ task[e][n] = "handling"
    /\ \E offset \in ClockOffset[attemptWorker[e][n]] : ~HoldsLease(e, n, offset)
    /\ SetTask(e, n, "none")
    /\ UNCHANGED <<queued, rowVars, attemptVars, effects>>

(* failLeasedEvent, by a worker that still holds the lease. *)
FailLease(e, n) ==
    /\ task[e][n] = "failing"
    /\ ~RowLocked(e)
    /\ \E offset \in ClockOffset[attemptWorker[e][n]], delay \in RetryDelays :
         /\ HoldsLease(e, n, offset)
         /\ availableIn' = [availableIn EXCEPT ![e] = offset + delay]
    /\ dead' = IF CapReached(e) THEN dead \cup {e} ELSE dead
    /\ CloseAttempt(e, n, IF CapReached(e) THEN "dead_lettered" ELSE "failed")
    /\ ReleaseLease(e)
    /\ SetTask(e, n, "none")
    /\ UNCHANGED <<queued, processed, attempts, attemptWorker, effects>>

(* failLeasedEvent, when it answers "lease_lost". *)
FailTooLate(e, n) ==
    /\ task[e][n] = "failing"
    /\ ~RowLocked(e)
    /\ \E offset \in ClockOffset[attemptWorker[e][n]] : ~HoldsLease(e, n, offset)
    /\ SetTask(e, n, "none")
    /\ UNCHANGED <<queued, rowVars, attemptVars, effects>>

(* The worker forgets a lease: its process dies, the reply to the claim is   *)
(* lost, or the failure report itself throws.  An open transaction rolls     *)
(* back with it.                                                             *)
Abandon(e, n) ==
    /\ task[e][n] # "none"
    /\ SetTask(e, n, "none")
    /\ UNCHANGED <<queued, rowVars, attemptVars, effects>>

Elapse(left) == IF left = 0 THEN 0 ELSE left - 1

Tick ==
    /\ \E e \in Event : availableIn[e] > 0 \/ leaseLeft[e] > 0
    /\ availableIn' = [e \in Event |-> Elapse(availableIn[e])]
    /\ leaseLeft' = [e \in Event |-> Elapse(leaseLeft[e])]
    /\ UNCHANGED <<queued, processed, dead, attempts, leaseToken, lockedBy,
                   attemptVars, task, effects>>

-----------------------------------------------------------------------------
Work(e, n) ==
    \/ BeginProcess(e, n)
    \/ CommitProcess(e, n)
    \/ LoseLease(e, n)
    \/ FailLease(e, n)
    \/ FailTooLate(e, n)

Next ==
    \/ \E e \in Event : Enqueue(e)
    \/ \E w \in Worker : Lease(w)
    \/ \E e \in Event, n \in Attempt :
         Work(e, n) \/ ProcessThrows(e, n) \/ Abandon(e, n)
    \/ Tick

Spec == Init /\ [][Next]_vars

(* Some worker keeps polling, a worker that runs finishes what it has in     *)
(* hand, and time passes.  Nothing is assumed about failures: handlers may   *)
(* throw, and workers may lose their leases, for ever.                       *)
Fairness ==
    /\ WF_vars(\E w \in Worker : Lease(w))
    /\ \A e \in Event, n \in Attempt : WF_vars(Work(e, n))
    /\ WF_vars(Tick)

FairSpec == Spec /\ Fairness

-----------------------------------------------------------------------------
(* Every variable has its type. *)
TypeOK ==
    /\ queued \subseteq Event
    /\ processed \subseteq queued
    /\ dead \subseteq queued
    /\ attempts \in [Event -> Nat]
    /\ leaseToken \in [Event -> Nat]
    /\ lockedBy \in [Event -> Worker \cup {NoWorker}]
    /\ availableIn \in [Event -> Nat]
    /\ leaseLeft \in [Event -> Nat]
    /\ attemptStatus \in [Event -> [Attempt -> AttemptStatus]]
    /\ attemptWorker \in [Event -> [Attempt -> Worker \cup {NoWorker}]]
    /\ task \in [Event -> [Attempt -> TaskPhase]]
    /\ effects \in [Event -> Nat]

(* The status that the attempts table must show for attempt n of event e,    *)
(* given the event row alone.                                                *)
LedgerStatus(e, n) ==
    IF n > attempts[e] THEN "none"
    ELSE IF n < attempts[e] THEN "failed"
    ELSE IF e \in processed THEN "succeeded"
    ELSE IF e \in dead THEN "dead_lettered"
    ELSE IF leaseToken[e] # NoToken THEN "leased"
    ELSE "failed"

(* The two tables never disagree: the event row determines the status of     *)
(* each of its attempt rows, whichever worker wrote them, in whichever       *)
(* order stale acknowledgements and failure reports arrived.                 *)
LedgerMatchesEvent ==
    \A e \in Event, n \in Attempt : attemptStatus[e][n] = LedgerStatus(e, n)

(* The handler's writes are committed once if the event is acknowledged and  *)
(* not at all otherwise, dead-lettered events included.                      *)
EffectIffProcessed ==
    \A e \in Event : effects[e] = IF e \in processed THEN 1 ELSE 0

(* A transaction that runs a handler is the only one for its event and runs  *)
(* under the event's present lease: nobody has claimed or settled the row    *)
(* behind its back.                                                          *)
HandlerOwnsEvent ==
    \A e \in Event, n \in Attempt :
        task[e][n] = "handling" =>
            /\ leaseToken[e] = n
            /\ attempts[e] = n
            /\ lockedBy[e] = attemptWorker[e][n]
            /\ e \notin Settled
            /\ \A m \in Attempt : task[e][m] = "handling" => m = n

(* Crashes, timeouts and stale reports never buy an attempt past the cap,    *)
(* and an event is given up only when the cap is used up.                    *)
GivesUpExactlyAtCap ==
    \A e \in Event :
        /\ attempts[e] <= MaxAttempts
        /\ e \in dead => attempts[e] = MaxAttempts /\ e \notin processed

(* The outcome of an attempt, once recorded, is never rewritten, and no      *)
(* attempt is recorded for an event that is settled.                         *)
HistoryIsFinal ==
    [][\A e \in Event, n \in Attempt :
         /\ attemptStatus[e][n] \notin {"none", "leased"}
               => attemptStatus'[e][n] = attemptStatus[e][n]
         /\ e \in Settled
               => attemptStatus'[e][n] = attemptStatus[e][n]]_vars

(* What an event looks like to its producer. *)
EventPhase ==
    [e \in Event |-> IF e \in processed THEN "done"
                     ELSE IF e \in dead THEN "given up"
                     ELSE IF e \in queued THEN "waiting" ELSE "absent"]

Promise == INSTANCE OutboxPromise WITH
    MaxTries <- MaxAttempts, tries <- attempts, phase <- EventPhase

(* Seen without leases, clocks and workers, the outbox does what             *)
(* OutboxPromise says: bounded tries, effects that go with completion, and   *)
(* outcomes that are final.                                                  *)
KeepsPromise == Promise!Spec

(* An event that some handler owns is acknowledged or dead-lettered in the   *)
(* end, although every worker may crash at any point of every attempt.       *)
EventuallySettled ==
    \A e \in Active : e \in queued ~> e \in Settled

(* Event row, attempts table, leases and effects tell one story, whatever     *)
(* crashes, expires and comes late: each event takes effect once if and only  *)
(* if it is acknowledged, one handling at a time, and never past the cap.     *)
OutboxConsistent ==
    /\ TypeOK
    /\ LedgerMatchesEvent
    /\ EffectIffProcessed
    /\ HandlerOwnsEvent
    /\ GivesUpExactlyAtCap
=============================================================================
