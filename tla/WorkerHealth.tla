---------------------------- MODULE WorkerHealth ----------------------------
(***************************************************************************)
(* What a worker answers on /readyz.  Its loop sweeps the outbox, counts the  *)
(* queue now and then, and passes the last count on after every sweep; the    *)
(* answer is computed from that count, aged by the time since, from the last  *)
(* sweep and from the dead letters.  Events are moved by the sweeps of this   *)
(* worker and of others, so that they change at any time.                    *)
(***************************************************************************)
EXTENDS Integers, FiniteSetsExt

CONSTANTS
    Event,
    Unsupported,        \* events whose type no handler of this worker owns
    PollInterval,
    TelemetryInterval,
    MaxStaleness,       \* readinessMaxStalenessMs
    MaxReadyAge,        \* readinessMaxReadyAgeMs
    MaxUnsupportedAge,  \* readinessMaxUnsupportedAgeMs
    MaxDeadLetters,     \* readinessMaxDeadLetters
    MaxSweep,           \* a sweep that takes longer hangs or fails
    MaxDelay,           \* bounds the time for which an event is scheduled
    Horizon             \* bounds the clock

(* The interval is at least a second (WORKER_TELEMETRY_INTERVAL_MS). *)
ASSUME WorkerHealthAssumption ==
    /\ IsFiniteSet(Event)
    /\ Unsupported \subseteq Event
    /\ {PollInterval, TelemetryInterval, MaxStaleness, MaxReadyAge, MaxUnsupportedAge,
        MaxDeadLetters, MaxSweep, MaxDelay, Horizon} \subseteq Nat
    /\ TelemetryInterval # 0

VARIABLES
    now,
    row,            \* the events of the outbox
    loop,           \* where runWorkerLoop stands
    health          \* the closure of createWorkerHealthState

healthVars == <<now, row, loop, health>>

Never == -1
NoAge == -1
NoQueue == [at |-> Never, ready |-> NoAge, unsupported |-> NoAge, dead |-> 0]

Time == 0..(Horizon + MaxDelay + PollInterval + TelemetryInterval)
Age == Time \cup {NoAge}
Row == [state : {"absent", "pending", "leased", "processed", "dead"},
        created : Time, available : Time, deadLetteredAt : Time]
Queue == [at : Time \cup {Never}, ready : Age, unsupported : Age, dead : 0..Cardinality(Event)]

HealthInit ==
    /\ now = 0
    /\ row = [e \in Event |-> [state |-> "absent", created |-> 0, available |-> 0, deadLetteredAt |-> 0]]
    /\ loop = [step |-> "waiting", due |-> 0, started |-> 0, counts |-> FALSE,
             nextTelemetryAt |-> 0, observedAt |-> 0]
    /\ health = [stopping |-> FALSE, succeededAt |-> Never, failedAt |-> Never, queue |-> NoQueue]

-----------------------------------------------------------------------------

(* The queue. *)
pending(e) == row[e].state \in {"pending", "leased"}

insert(e) ==
    /\ row[e].state = "absent"
    /\ \E delay \in 0..MaxDelay :
         row' = [row EXCEPT ![e] = [state |-> "pending", created |-> now,
                                    available |-> now + delay, deadLetteredAt |-> 0]]
    /\ UNCHANGED <<now, loop, health>>

(* Claimed by some worker; an unsupported one by a worker that is newer. *)
claim(e) ==
    /\ row[e].state = "pending"
    /\ row[e].available <= now
    /\ row' = [row EXCEPT ![e].state = "leased"]
    /\ UNCHANGED <<now, loop, health>>

settle(e) ==
    /\ row[e].state = "leased"
    /\ \/ row' = [row EXCEPT ![e].state = "processed"]
       \/ row' = [row EXCEPT ![e].state = "dead", ![e].deadLetteredAt = now]
    /\ UNCHANGED <<now, loop, health>>

(* The lease expires, or the failure is reported and tried again later. *)
release(e) ==
    /\ row[e].state = "leased"
    /\ \E delay \in 0..MaxDelay :
         row' = [row EXCEPT ![e].state = "pending", ![e].available = now + delay]
    /\ UNCHANGED <<now, loop, health>>

-----------------------------------------------------------------------------
(* The loop: one sweep at a time. *)
startSweep ==
    /\ loop.step = "waiting"
    /\ ~health.stopping
    /\ now >= loop.due
    /\ loop' = [loop EXCEPT !.step = "sweeping", !.started = now,
                            !.counts = now >= loop.nextTelemetryAt]
    /\ UNCHANGED <<now, row, health>>

(* The worker was stopped while it swept. *)
leave ==
    /\ loop.step = "sweeping"
    /\ health.stopping
    /\ loop' = [loop EXCEPT !.step = "returned"]
    /\ UNCHANGED <<now, row, health>>

(* A full batch is followed by the next at once. *)
wait(telemetryAt, delay) ==
    loop' = [step |-> IF health.stopping THEN "returned" ELSE "waiting",
             due |-> now + delay, started |-> 0, counts |-> FALSE,
             nextTelemetryAt |-> telemetryAt, observedAt |-> 0]

succeed(queue) ==
    /\ now - loop.started <= MaxSweep
    /\ health' = [health EXCEPT !.succeededAt = now, !.queue = queue]
    /\ UNCHANGED <<now, row>>

(* The events have been dealt with; the queue is not counted this time, and   *)
(* lastQueue is still the one that health was given last.                    *)
sweepSucceeds ==
    /\ loop.step = "sweeping"
    /\ ~loop.counts
    /\ \E delay \in {0, PollInterval} : wait(loop.nextTelemetryAt, delay)
    /\ succeed(health.queue)

observe ==
    /\ loop.step = "sweeping"
    /\ loop.counts
    /\ loop' = [loop EXCEPT !.step = "observing", !.observedAt = now]
    /\ UNCHANGED <<now, row, health>>

ready(e) ==
    /\ row[e].state = "pending"
    /\ e \notin Unsupported
    /\ row[e].available <= loop.observedAt

(* ageMs of the oldest, counted from the time that an event was written. *)
ageMs(events) ==
    IF events = {} THEN NoAge
    ELSE Max({0} \cup {loop.observedAt - row[e].created : e \in events})

deadLettered == Cardinality({e \in Event \ Unsupported : row[e].state = "dead"})

readOutboxTelemetry ==
    [at |-> loop.observedAt,
     ready |-> ageMs({e \in Event : ready(e)}),
     unsupported |-> ageMs({e \in Unsupported : pending(e)}),
     dead |-> deadLettered]

nextTelemetryAt == loop.started + TelemetryInterval

countSucceeds ==
    /\ loop.step = "observing"
    /\ \E delay \in {0, PollInterval} : wait(nextTelemetryAt, delay)
    /\ succeed(readOutboxTelemetry)

(* The outbox sweep, the attention sweep or the count rejects. *)
sweepFails ==
    /\ loop.step \in {"sweeping", "observing"}
    /\ wait(loop.nextTelemetryAt, PollInterval)
    /\ health' = [health EXCEPT !.failedAt = now]
    /\ UNCHANGED <<now, row>>

stop ==
    /\ ~health.stopping
    /\ health' = [health EXCEPT !.stopping = TRUE]
    /\ loop' = IF loop.step = "waiting" THEN [loop EXCEPT !.step = "returned"] ELSE loop
    /\ UNCHANGED <<now, row>>

tick ==
    /\ now < Horizon
    /\ now' = now + 1
    /\ UNCHANGED <<row, loop, health>>

-----------------------------------------------------------------------------
(* snapshot: what /readyz answers now. *)
observationAge == now - health.queue.at

(* A wrong test: the age is the one of the count. *)
withinWhenCounted(age, limit) == age = NoAge \/ age < limit

within(age, limit) == age = NoAge \/ age + observationAge < limit

fresh ==
    /\ health.succeededAt # Never
    /\ now - health.succeededAt <= MaxStaleness

latestSweepSucceeded ==
    \/ health.failedAt = Never
    \/ health.succeededAt # Never /\ health.succeededAt >= health.failedAt

readyBacklogWithinLimit ==
    health.queue # NoQueue /\ within(health.queue.ready, MaxReadyAge)

unsupportedBacklogWithinGrace ==
    health.queue # NoQueue /\ within(health.queue.unsupported, MaxUnsupportedAge)

deadLettersWithinLimit ==
    health.queue # NoQueue /\ health.queue.dead <= MaxDeadLetters

isReady ==
    /\ ~health.stopping
    /\ fresh
    /\ latestSweepSucceeded
    /\ readyBacklogWithinLimit
    /\ unsupportedBacklogWithinGrace
    /\ deadLettersWithinLimit

-----------------------------------------------------------------------------
HealthNext ==
    \/ startSweep \/ leave \/ sweepSucceeds \/ observe \/ countSucceeds \/ sweepFails
    \/ stop \/ tick
    \/ \E e \in Event : insert(e) \/ claim(e) \/ settle(e) \/ release(e)

HealthSpec == HealthInit /\ [][HealthNext]_healthVars

-----------------------------------------------------------------------------
HealthTypeOK ==
    /\ now \in 0..Horizon
    /\ row \in [Event -> Row]
    /\ loop \in [step : {"waiting", "sweeping", "observing", "returned"}, due : Time,
                 started : Time, counts : BOOLEAN, nextTelemetryAt : Time,
                 observedAt : Time]
    /\ health \in [stopping : BOOLEAN, succeededAt : Time \cup {Never},
                   failedAt : Time \cup {Never}, queue : Queue]

(* What a ready worker does not know is not older than this: the count it     *)
(* last took, the sweeps that were allowed to reuse it, and their freshness.  *)
MaxUnnoticed == TelemetryInterval + MaxSweep + MaxStaleness

(* An event that no handler owns turns the worker unready at the end of its   *)
(* grace period, or as soon as its next count is due: while the worker is     *)
(* ready, none is older (health-server.ts, snapshot).                        *)
UnknownIsNoticed ==
    isReady => \A e \in Unsupported :
                 pending(e) => now - row[e].created < Max({MaxUnsupportedAge, MaxUnnoticed})

(* No more dead letters than the operator allows are older than one count    *)
(* while the worker is ready, whatever its sweeps did since.                 *)
DeadLettersAreNoticed ==
    isReady =>
      Cardinality({e \in Event \ Unsupported : row[e].state = "dead"
                                               /\ now - row[e].deadLetteredAt >= MaxUnnoticed})
        <= MaxDeadLetters

(* Readiness fails for a backlog only if some event has been waiting, ready,  *)
(* for as long as the limit: "Ready work older than this threshold makes      *)
(* readiness fail" (.env.example).                                           *)
BacklogHasWaited ==
    health.queue # NoQueue /\ ~readyBacklogWithinLimit =>
      \E e \in Event \ Unsupported :
        row[e].state # "absent" /\ now - row[e].available >= MaxReadyAge

(* Readiness hides no backlog for longer than its thresholds and its cached   *)
(* count allow: neither an event that no handler owns nor a dead letter.      *)
ReadinessIsHonest == HealthTypeOK /\ UnknownIsNoticed /\ DeadLettersAreNoticed
=============================================================================
