# TREVV: specifications and proofs

TREVV is a work-management application: an HTTP API over PostgreSQL, a worker
that runs what commits leave behind, and web, mobile and desktop clients. This
directory holds TLA+ specifications of the parts where several processes,
pages, retries and failures meet, the TLC configurations that check them on
small instances, and proofs that hold for every instance.

Run a check with `tlc -config Outbox.cfg MCOutbox.tla`, a proof with
`tlapm OutboxProofs.tla`.

## 1. Inventory

The state of the server is in PostgreSQL; its processes keep none between
requests, save a pool of connections. API processes and workers are replicated,
so everything below runs concurrently with itself. A page of the web
application keeps copies of server state, drafts and journals of its own.

| Component | State | Operations | What is hard | Module |
|---|---|---|---|---|
| **Idempotent commands** (`packages/db/src/repositories.ts`: `withIdempotency`, `finalizeIdempotencyResponse`, `writeAuditAndOutbox`) | `idempotency_records`, `audit_logs`, `outbox_events` | every mutation of the API | same key sent concurrently or again after a lost reply, record expires, process dies at any point | `Commands` |
| **Outbox** (`worker-repositories.ts`: `leaseOutbox`, `processLeasedEvent`, `failLeasedEvent`) | `outbox_events`, `outbox_attempts` | claim, process, acknowledge, fail | leases that run out, crashes, late reports, clocks that differ | `Outbox` |
| **Worker loop** (`apps/worker/src/index.ts`) | leases in memory, groups, abort signal | sweep, coalesced acknowledgement, Attention sweep, shutdown | a promise that rejects while others run; a skipped recompute | `WorkerSweep` |
| **Worker health** (`health-server.ts`, `readOutboxTelemetry`) | last sweeps, cached count of the queue | `/readyz` | what the count does not know, what it knew too young | `WorkerHealth` |
| **Attention** (`recomputeOrganizationAttention`, `actOnAttention`) | signals, `attention_computed_at` | recompute, resolve, dismiss | verdicts and edits between reads and writes; the day of an old context | `Attention` |
| **Versions** (aggregates with a counter; with the time of the last change; report plans; policies) | rows with a version | read, compare, guarded update | lost updates, false conflicts, clocks that differ | `Commands`, `VersionTags`, `ReportPlans`, `Privacy` |
| **Portfolios and workspaces** | `portfolios`, `workspaces`, the revision row | create, default, archive | one default; locks taken in opposite orders | `Portfolios` |
| **Projects, cycles, planning of tasks** | `boards`, `work_items` | create, update | rows read without a lock before another is written | `Planning` |
| **Task reviews** (`packages/core/src/task-review.ts`) | the review in a task | request, answer, cancel, complete | an approval of work that has changed since | `TaskReviews` |
| **Dependencies**, **waiting** | `item_dependencies`, `waiting_records` | add, remove; start, resolve, nudge | cycles by concurrent inserts; deadlocks | `Dependencies`, `Waiting` |
| **Inbox** | captured records, pages | done, undo, convert, poll | answers and polls out of order | `Inbox` |
| **Memberships, teams, rooms** (`identity-repositories.ts`, `collaboration-repositories.ts`) | memberships, team members, participants, open questions | change role, revoke, seat, ask | a repair that misses what another transaction writes | `Rooms` |
| **Messages and retention** | messages, checkpoints, reactions, replay records | send, read, react, answer, expire, redact | cursors against commits; redaction against replays | `Messages` |
| **Event feed and its client** | event cursors, the browser's queries | batch, flush, poll, hide | an event that commits after a later one | `Feed` |
| **Invitations, acceptance, onboarding** | invitations, claims, accounts | create, resend, revoke, register, accept, found | mail in between; one account for one invitation | `Invitations` |
| **Change of the login address** (`packages/auth-server`) | pending change, tokens, advisory lock | start, cancel, open a link | steps outside a transaction; the pool | `EmailChange` |
| **Platform administrators** (`superadmin-*`) | roster, invitations | bootstrap, invite, change | an owner remains; nobody acts after losing office | `Superadmin` |
| **Rate limiter** (`rate-limit-repository.ts`) | counters per window | consume, clean up | a counter removed while it still counts | `RateLimiter` |
| **Composer**, **sharing**, **live copy** (`apps/web`) | drafts, journal, snapshot | send, recover; share, retry; poll, fetch | lost answers, reloads, several tabs, mixed revisions | `Composer`, `Sharing`, `Snapshot` |
| Permissions, pure rules, presentation, mock integrations, deployment | | | unit tests enumerate them, or nothing is concurrent | - |

Interactions: a command commits its aggregate, its journal rows, its outbox
event and its idempotency record in one transaction, which also counts up the
organization's revision. A worker leases the event, runs its handler (Attention,
collaboration, audit) and acknowledges it in one transaction. Users act on
signals by commands again. Pages poll the revision and the event feed. The
modules share these boundaries: `Commands` takes journal rows for part of a
commit, `Outbox` begins with the inserted row, `Messages` with a due retention
event, `Feed` with a drawn cursor, `Snapshot` with a counted revision; a module
that is about rows under a version guard takes the guarded write for one step.

### What makes each component correct

* Commands: one effect per record however often a key is sent; a client is
  given the result of its own command; `version_conflict` means no effect; no
  update is lost; nobody waits for ever.
* Outbox and loop: an event is processed exactly once or given up exactly at the
  cap; handlers exclude each other; outcomes are final; a skipped recompute is
  covered by one that committed; every event is settled.
* Attention: one active signal per subject; a closed signal stays closed; the
  signals converge to what the sources call for.
* Readiness: a worker that says ready knows of no old unknown event and no dead
  letter too many, and its ignorance is bounded.
* Versions: a change is made by somebody who saw the record as it was; a
  conflict is told only to somebody who did not.
* Rooms: whoever leaves, leaves everywhere; every place keeps somebody eligible
  in charge; nobody owes an answer who cannot give it.
* Messages, feed: no message is passed over unread; a redacted text is gone;
  every change comes on screen.
* Invitations, administrators, login address: one account per invitation, no way
  back with an old link; an owner who can act remains; a new address was proved
  by both inboxes.
* Items: reviews are of the work as it is; dependencies close no cycle; projects
  nest one level; a task is planned within its project, and not in a closed cycle.
* Pages: a text is posted once and where it was written; a stored draft or
  submission is not lost; a copy is of one revision; polls take nothing back.

## 2. Modules

| Module | Models | Relates to |
|---|---|---|
| `OutboxPromise` | what the outbox promises a producer | |
| `Outbox` | leases, attempts, handler transactions, crashes, clock readings | implements `OutboxPromise` |
| `WorkerSweep` | the loop over the outbox | extends `Outbox` |
| `VersionedPromise` | what a version promises the people who edit a record | |
| `ReportPlans`, `Privacy`, `VersionTags` | versions by counter, by counter with a default row, by time | implement `VersionedPromise` |
| the others of the inventory | one component each | |
| `MC...` | small instances, of one component or of several (below) | extend or instantiate the components |
| `...Proofs` | theorems: one module for each group of components (section 4) | extend the components |

A definition whose comment begins with "A wrong" is what the code would be with
a plausible mistake in it. No specification uses it; it is there to see that the
properties notice.

### Outbox

One row of `outbox_events` per event: `queued`, `processed`, `dead`,
`attempts`, `leaseToken` (the UUID of attempt n is written n), `lockedBy`,
`availableIn`, `leaseLeft`. One row of `outbox_attempts` per attempt:
`attemptStatus`, `attemptWorker`. `task` is the lease object in a worker's
memory, `effects` counts commits of the handler's writes.

`Lease` is `leaseOutbox`: one transaction, whose rows are locked with `SKIP
LOCKED`, closes expired attempts and grants new ones. `BeginProcess`,
`CommitProcess`, `LoseLease` and `ProcessThrows` split `processLeasedEvent`
where it waits; the row stays locked in between (`RowLocked`). `FailLease` and
`FailTooLate` are `failLeasedEvent`. `Abandon` is a process that dies or a call
whose reply is lost.

Timestamps are kept as the time left until them, so time is not bounded. A
worker compares timestamps with a reading of its own clock; `ClockOffset` gives
the offsets of its readings, so skew between machines and readings taken before
a wait are the same thing.

### WorkerSweep

Each action is an action of `Outbox` with what it does to the loop: `sweep` is
the set of leases that the running `runOutboxSweep` awaits, `mode` whether a
lease recomputes or is covered, `after` the lease it waits for. The projection
of an organization is abstracted to the version of its sources that it
reflects. `Return` is a `processLease` that returned, `Reject` one that threw:
the sweep then ends while the other leases run on, as `Promise.all` has it.

### Attention

A subject is an entity with a reason code; a signal is a subject with a version
of its source, because the identifier is a hash of the source without the date.
`ReadSources`, `ReadSignals` and `Write` are the statements of the recompute
that see different snapshots under READ COMMITTED; `Edit` and `Act` commit in
between. `context` is the date of the context which the loop took.

### Commands

`record` and `expired` are the row of each key, `made` the history of effects
under a key, `history` the history of updates of an aggregate, whose length is
its version. A request is `begun`, then holds its key (`executing`: the unique
index makes others wait for the uncommitted row) or has met it
(`conflicting`), then holds its row (`saved`), then commits. A deferred command
goes on: `delivering`, and `recording` with the row locked again. `expired` is
what a request's clock may see as expired: `Acquire` may still take an expired
record for a valid one, as a request with an older clock reading does.
`DeleteCompleted` is what a revocation or a change to guest does to the records
of its user; it marks them as expired too, since what follows is the same.

What a validation rejects is a `Rollback`, as is a crash or a lost connection:
nothing of the transaction remains.

### Rooms

`role`, `active`, `team`, `seat`, `seated`, `open` and `ask` are the rows of
memberships, team members, participants, conversations and one question per
room. A request is a transaction in two steps: what it reads under its locks
(`SetTeamMember`, `SendMessage`, ...), then its commit (`Commit...`).
`updateMembership` reads everything in one step because it holds the
organization's row, which every other mutation shares through the foreign key
of its idempotency record. The repairs of a membership (heirs of a team, of a
room, of a question) are one operator each; a former guest who becomes a viewer
has lost the owner's seat of an external room before `GivenUp` is read, as in the
code. Portfolio grants and organization
selections are left out.

### Messages

One conversation. `sequence` is drawn before the commit, under the row lock of
the conversation; `position` is what is committed. `copies` is what idempotency
records show of a text. The retention worker locks the message only, so it
meets replays that lock nothing. Threads, direct conversations and paging are
left out.

### Feed

`place` is the cursor that a change drew, `committed` whether it is visible; a
batch reads the events and then, in another statement, the highest cursor. The
browser's queries are one query that the flush invalidates and the timer polls.
Expiry of events and the access filter per event are not modelled.

### Invitations and Superadmin

Transactions that hold the rows of the account and of the invitation are one
step; the admission check, the mail and its record are steps of their own, with
processes that die in between. `born` and `replayed` are history. In
`Superadmin` a request takes the roster's advisory lock and its own row, reads,
and works; sessions are left out since every request looks at the row again.

### Versions: ReportPlans, Privacy, VersionTags

A request reads the row in one statement and writes it, guarded, in a later one;
pages show versions of any age, requests are lost, repeated and forgotten.
`ReportPlans` adds status, date of publication and roles; creation is its
initial state, with version 1 where the table begins at 0. `Privacy` is one
category and one request; the first change of a policy inserts its row.
`VersionTags` is one row whose version is a time: half milliseconds stand for
the table's microseconds, the clocks of the processes are arbitrary.

### Portfolios, Planning, TaskReviews, Dependencies, Waiting

`Portfolios`: a transaction takes the organization's row shared, then perhaps
for update, and holds the revision row from its first write, so that its writes
take effect when it commits. `Planning`: each statement that reads a parent, a
cycle or a milestone is a step; a guarded write of one row is a step; planned
and active boards are both "open"; the initial rows are any consistent ones.
`TaskReviews`: the update is guarded by the version, which makes a command one
step; title, description and planning are one number. `Dependencies`: the rows
of both items are locked in the order of their ids, and the search for a cycle
sees what is committed; the repository functions have no route yet.
`Waiting`: every statement that may wait for a row is a step; a deadlock of two
is ended by PostgreSQL.

### EmailChange

The steps of a request under the advisory lock: connect, lock, read, write,
mail, answer. Better Auth's own steps are external. A link expires by losing its
mark. The connection that holds the lock and the connections of the statements
come from one pool of `PoolSize`. Two accounts never want the same address: the
database's unique index refuses the second.

### Inbox, Snapshot, Composer, Sharing

Pages. `Inbox`: one record, several pages; a command of the server is one step
(row guard, or row lock of a conversion); a page has one reload at a time.
Snooze and the draft of the capture dialog are left out. `Snapshot`: an item is
a page of records, `log` the history of revisions, `fetch` the pages that are
read between two readings of the access. The summary reader, confirmations of
inbox records and changes of identity are left out. `Composer`: a draft and its
identifier, the storage, the request, the recovery from the message list.
`Sharing`: forms, a journal per tab, one storage for all tabs. What is shared is
told apart by the form, not by the record: a form that saves a record (a new plan,
an edit, a captured idea) has an identifier, `shareKey` derives the job's key from
it, and the form may share again (`share`); the dialog that includes people in a
record that is there draws a key of its own each time (`shareExisting`). So a
record may have many rooms, one for each form and dialog. A form's draft may be
open in several tabs and be recovered. A storage that refuses to be written is left
out.

### RateLimiter and WorkerHealth

`RateLimiter`: processes whose clocks are `Ahead` of the slowest by at most what
a row outlives its window (`ClocksAgree`: 45 minutes for the longest window);
counts stop at `Limit + 1`. `WorkerHealth`: the loop counts the queue when
telemetry is due and passes the last count on; `isReady` is the answer of
`/readyz`. Events are moved by all workers at any time (their leases are in
`Outbox`); a sweep may fail, and may hang for ever.

## 3. Runs

Components share no variable, so a run can hold several of them side by side.
Its MC module extends those that are also proved about (`MCProgress`
instantiates most of them once more, with constants of its own), and adds one
variable, `focus`, that names the component which moves in a behaviour; the
others stay as they began. Every reachable state of every component is reached,
their number is the sum and not the product, and a property of one component is
checked on all its behaviours. What depends on several components together is
modelled inside one module instead (`WorkerSweep` extends `Outbox`).

Some components move under several foci, each a smaller instance of its own:

* `MCSignals`: "team" (a team's room, no messages), "questions" (messages and
  hand-overs there; the team itself stays), "external" (a room with guests).
* `MCIdentity`: "claims" (an invitation to each of two organizations, each sent
  once), "returns" (two to the same organization, one account), "delivery" (one
  invitation that is sent again).
* `MCWork`: "planning" (both boards, one task and one milestone are there, and
  cycles change state), "tasks" (one task is there, and work is created while
  cycles change state).
* `MCAccess`: "unknown" and "dead" (one event that no handler owns; one that is
  given up); administrators without the role of an auditor, who may do what an
  operator may.
* `MCPages`: "sharing" (one form in two tabs), "twoForms" (two forms, or a form
  and a dialog, in two tabs) and "oneTab" (keys that the server forgets);
  "twoTabs", "oneRoom", "twoRooms" (the composer); "order" and "retention"
  (messages); a copy of two items of which this browser changes one.

A property named `...Kept`, `...Consistent` or so is the conjunction of the named
parts that its module defines, and its comment says them one by one.

| Run | Bounds | Properties and what they show |
|---|---|---|
| `outbox` | 2 events, 2 workers (one with offsets 0 and 1), 2 attempts, batch 2 | `OutboxConsistent`: ledger, effects, exclusion, cap; `KeepsPromise`: implements `OutboxPromise`; `EventuallySettled` |
| `sweep` | 2 workers, 2 coalesced events, 1 attempt | `SweepConsistent`: what is acknowledged is reflected, a sweep awaits live leases; `ProjectionNeverRegresses`; `EverySweepEnds` |
| `signals` | 2 workers, 2 subjects, 2 versions, 2 days; 3 people, 2 rooms, 2 requests | `AttentionConsistent`, `ClosedIsFinal`: one active signal, closed ones stay so; `RoomsConsistent`, `NothingIsOrphaned`: one eligible lead who owns the team's room, owners, guests, hand-overs |
| `identity` | 2 requests, 3 commands, 2 keys, one expiry; 2 accounts, 3 invitations, 2 tokens; 3 requests about one login address | `EffectsAreSingle`, `AnswersAreTrue`; `InvitationsConsistent`, `MembershipsAreEarned`; `EmailChangeKept` |
| `work` | 2 boards, 2 tasks, 2 commands; 3 items; 3 people, 3 changes; 2 portfolios, 1 workspace; 2 waiting records, 3 requests | `PlanningConsistent`, `NewWorkIsChecked`: only an overtaken command plans work for a completed cycle; `DependenciesKept`: no short cycle; `ReviewsConsistent`; `PortfoliosConsistent`; `WaitingKept` |
| `pages` | 2 clients, 2 requests; 2 items in 2 workspaces, 3 revisions; 2 pages or tabs; 2 forms; 3 texts, 4 identifiers; 2 people, 2 messages; 3 changes in batches of 2 | `TagsConsistent`, `KeepsPromise`; `SnapshotConsistent`, `ConfirmedStays`; `InboxKept`; `SharingKept`; `ComposerKept`; `MessagesKept`; `OnlyLateEventsArePassedOver` |
| `access` | 2 processes with clocks 2 apart, limit 2; 3 administrators, 2 requests; 2 events, count every 2, fresh for 1; 2 policies | `LimiterConsistent`; `SuperadminConsistent`, `OwnersStayInCharge`; `ReadinessIsHonest`; `PrivacyKept` |
| `progress` | report plans: 2 devices, 2 requests, 3 versions; the others: two of whatever meets | `PlansConsistent`, `PublishedStaysShared`, `KeepsPromise`; `RequestsEnd` and `CatchesUp`: the liveness of ten components |
| `sweep_shutdown`, `attention_clocks`, `commands_expiry`, `dependencies_four` | as small as the behaviour allows | end in a counterexample, see below |

Why the bounds are enough. Two actors and one more to see the result give every
way in which one's reads meet another's writes; a third request replaces what
the first two have done. Two attempts, two versions or two tokens make "the
old" and "the new". One event at a time is enough for readiness, because the
ages of the count are maxima and the dead letters a sum of independent rows.
Requests, pages and accounts are interchangeable and reduced by symmetry in
safety runs only.

Deadlock checking is off where a system stops when its bounded inputs are used
up. That nothing waits for ever is stated as liveness instead.

Bounds that are not in the code: `MaxVersion` (`MaxRowVersion`,
`MaxMessageVersion`), `MaxDay`, `MaxReclaims`,
`MaxToken`, `MaxIssue`, `MaxSequence`, `MaxRevision`, `MaxFailures` (requests of
the browser that fail), `MaxTime` and `Horizon` (clocks), `MaxLoads` (reloads of
a tab), `MaxExpired` (keys that the server forgets after 24 hours); `Attempt`
reaches one past the cap so that an attempt too many would be visible. A
producer inserts each event once, a client forms each command once, and each
request of `EmailChange` is sent once.

### Fairness

In `outbox` and `sweep` fairness is part of the specification. `progress` holds
ten components, so each part of `RequestsEnd` and `CatchesUp` assumes the
fairness of its own component and of no other: "if this component moves, and
fairly, then ...". A component's fairness is stated in its module:

* `Outbox`: some worker keeps claiming (the loop polls for ever), a lease in
  hand is worked on, time passes. Nothing says that a handler ever succeeds.
* `WorkerSweep`: a transaction under way goes on until it ends; the server
  ends what a dead client left (`Forget`).
* `Attention`: strong fairness for each step of a recompute, since PostgreSQL
  grants the advisory lock in the order of the requests and the loop tries
  again; it stands for "a recompute that is repeated commits at some time".
* `Commands`, `Dependencies`: strong fairness where a request waits for a row,
  since locks are granted in order of arrival; weak fairness elsewhere.
* `Waiting`, `Portfolios`, `EmailChange`: weak fairness for the steps of each
  request. There are finitely many, so a lock that is asked for stays free when
  the others have ended; commands that were aborted are not tried again.
* `Messages`: transactions end, and the worker tries again (strong fairness for
  a retention that begins and for one that commits).
* `Feed`, `Inbox`, `Snapshot`: a page that is open polls, and what is asked
  again and again is answered at some time.
* The other modules state no fairness and no liveness.

### Where the code and its documents differ

Four runs end in a counterexample that is a behaviour of the code; the lines
are quoted in PROJECT.json.

1. `sweep_shutdown`: a stop should let the bounded pass finish. When a failure
   report itself throws, the sweep is over for the loop, which may return while
   other leases of the batch are still being processed.
2. `attention_clocks`: a recompute whose context is of yesterday closes a signal
   that is due today, and because the closed row has the identifier that every
   later recompute computes, none brings it back until the item changes.
3. `commands_expiry`: documents say that the request path never reuses an
   expired record; it does, as a test of the repository expects.
4. `dependencies_four`: two dependencies without a common item close a cycle.

Sixteen more statements, each defined in its module, are not true of the code
either. No run keeps them; a reader who makes the definition named here an
INVARIANT or a PROPERTY of the component's specification is shown the behaviour.

| Module | Statement | What happens instead |
|---|---|---|
| `Rooms` | `OwnersAreEligible` | an owner whose membership was revoked, added again as a guest or viewer, owns the room |
| `Rooms` | `ViewersOweNothing` | a resolved question whose owner has become a viewer can be opened again |
| `Rooms` | `LeaversOweNothing` | a question is asked of a member while they leave the team, and stays open with somebody who is not there |
| `Rooms` | `GuestsInExternalRooms` | a workspace room may be created with a guest, who cannot open it |
| `Messages` | `NoCopyOutlivesItsText` | a replay under a new key keeps a text that was redacted |
| `Messages` | `ReactionsStayReadable` | a participant who returns brings a kind of reaction back above the limit, and the message can no longer be read |
| `Composer` | `DraftsAreKept` with two rooms | the answer of a send empties the draft of the conversation that is shown by then |
| `Invitations` | `ClaimStaysBound` | accepting one invitation takes the claim of another |
| `Invitations` | `ReplayFails` | replaying a token succeeds for its own account |
| `Snapshot` | `SnapshotIsOneRevision` | the second reading of the access joins an older poll, so that pages of two revisions are shown as one |
| `Inbox` | `NeverTakenBack` | a load after a conflict takes a page back to an older record |
| `EmailChange` | `Answered` with as many accounts as connections | each holds a connection with its lock and waits for one more, for ever |
| `Sharing` | `OneRoomPerForm` when keys are forgotten | a submission retried after a day is announced twice |
| `Sharing` | `CanBeRetried` with two forms | a submission whose place in the storage the job of another form took, shared in another tab, or in the same one before it has recovered, is forgotten |
| `Planning` | `NoNewWorkInClosed` | a cycle completed between the check and the insertion takes new work |
| `WorkerHealth` | `BacklogHasWaited` | the event that redacts a message counts its age from the message, so that a worker is unready when it becomes due |

## 4. Proofs

`tlapm` checks eight modules to the last leaf. The theorems hold for any number
of actors, rows and requests, from the named assumptions on the constants alone
(`...Assumption` in the component's module, which the runs evaluate on their
instances). The properties are those of the runs; each proof strengthens them to
an invariant that every step preserves.

**OutboxProofs.** None of the properties is inductive by itself. The invariant
adds `RowDiscipline` (a token is the present attempt's, a settled row has none)
and that a task belongs to a worker whose attempt was recorded. From it: the
attempts table is a function of the event row (`LedgerCorrect`), effects go
with acknowledgement (`EffectOnce`), handlers exclude each other
(`HandlerExclusive`), the cap is exact (`CapExact`), outcomes are final
(`HistoryFinal`, an action property: by the ledger of the next state), and each
step is a step of `OutboxPromise` or none (`Refinement`).

**WorkerSweepProofs.** Every step of the loop is a step of `Outbox`, so the
tables need no second proof. `SweepInv` adds the loop's own order: `Groups` (the
leases of an organization form a group in which only the first is on its turn),
`Reads` (an open recompute has read after everything that its group announces
was written, and no other is open for that organization), `Covers` (a lease is
covered only by a recompute that read it) and `Awaited`. So an acknowledged
event is reflected though its own recompute was skipped (`SweepIsConsistent`),
and the projection never goes back to an older version (`NeverRegresses`).

**SignalsProofs.** *Attention*: two facts make `OneActivePerSubject` inductive,
the advisory lock (`OneRecompute`: at most one recompute is past its reading),
and that the plan of a recompute closes every active signal that is not among
the desired ones, of which there is one for each subject (`DesiredIsOneEach`,
`PlanClosesTheRest`). What users do between the reads only closes signals, and
the write looks at the row again. *Rooms*: `RoomInv` is about one room at rest;
`CallStands` says, for each of the operations, which of the things a request has
found on its way in are still so when it writes; `LocksInv` says which requests
exclude each other, and is what makes `CallStands` stable. The repairs of a
membership (heirs of a team, a room, a question) then keep one eligible lead,
an owner, a guest (`RoomsAgree`); whoever leaves hands on what they own and
what they were asked (`NothingOrphaned`).

**IdentityProofs.** *Commands*: the invariant adds four disciplines.
`KeyDiscipline`: a key is held by one request, and what that request found of
the record still holds when it commits. `RowDiscipline`: a row is held by one
request, at the version it compared. `ClientDiscipline`: requests carry formed
commands, from versions that existed. `ConflictIsFinal`: a command that met a
conflict was formed from a version that has passed. A commit then adds the one
effect that its record stands for (`SingleEffects`), replays give that effect,
and a command that was refused never takes effect afterwards (`TrueAnswers`).
*Invitations*: `MailInv` (a mail under way is of the row as it is or of an
earlier version of it, so "sent" means the token that is open), `PeopleInv` (an
address has one account, an account one application user, an account not yet
made none) and `ClaimInv` (a claim is of the account that was born by it, and a
tombstone outlives both). `MembersHaveEarnedIt` is the action property. *Login
address*: one request at a time has an account's lock (`JobsInv`), the step it
has reached says what links and profile are (`StepsInOrder`), and a link is of a
start, a second one of an opened first one (`LinksAreStarted`). A change that
can still give the account its address is not among those whose end was answered
(`OngoingIsNotEnded`), so `EmailChangeIsKept`: no way back with an old link.

**WorkProofs.** *Planning*: what a command has read without a lock is `StillSo`
when it writes: parents, projects and kinds of boards never change, and rows are
never removed, so only a cycle's state can go stale, which is the divergence
above; `NewWorkIsCheckedAlways` proves that it is the only way: whoever plans new
work for a completed cycle found it open, in a version that another command has
changed since (`CyclesInv`: while the version is the one that was checked, the
cycle is open or was the task's before). *Reviews*: what a page shows at the row's version is the row
(`PagesKeepUp`), so the guard of the update makes an approval one of the work as
it is. *Portfolios*: `HeldLocks` derives a transaction's locks from the
statements it has made; `Apart` says that two which change the tree exclude
each other, so what one has read stands (`ReadStands`). *Waiting*: a request
that waits for no row any more holds the item's row in the version its page
showed, or its record as the page showed it (`RequestStands`); requests take
these two in opposite orders, which may end in a deadlock but never in a write
to something else (`WaitedForAsSeen`). *Dependencies*: no cycle of two or three
items is ever closed, whatever the number of items (`DependenciesAreKept`, with
`Acyclic` itself for three items). What a search has seen may change before the
insertion, but not the dependencies of the two items that are locked
(`LocksAreHeld`), and a path of two steps between them has no others
(`ChecksHold`). With four items a cycle has a step that touches neither, which is
the divergence above. The search is a recursive function; that it follows paths
is proved for each number of steps (`SearchIsDefined`, `PathIsFollowed`) from the
well-foundedness of the natural numbers.

**ReportPlansProofs**, and **PagesProofs** on *tags*. Pages and reads are of the
past (`PagesAreOlder`, `ReadsAreOlder`), and a request expects what its page
showed (`ExpectsWhatWasSeen`). So a guarded write that succeeds was made by
somebody who saw the row as it is, which is the step of `VersionedPromise`;
every other step is a stutter (`Refinement`). For times as versions this needs
that tags grow with every change, whatever the clocks show, because a write
takes the later of its clock and the next millisecond. **PagesProofs** on the
*snapshot*: the browser is not told the revision at which an access was resolved,
but it lies between what the browser held when it asked and what certifies the
answer (`AccessInv`); the pages of a fetch lie between its two readings
(`FetchInv`), so where the bounds meet the copy is exact
(`CurrentCopyIsExact`). `ConfirmedChangesStay`: a change whose answer the browser
has seen leaves the copy only when the item is withheld from it.

The rest of **PagesProofs**. *Feed*: no number is drawn twice (`PlacesAreDrawn`),
so a batch that is not full has all that its query could see, and a full one all
up to its highest (`BatchIsRead`, `NoneIsPassedOver`). *Inbox*: whatever is on
its way to a page is a state the record has had, and a poll is none before what
its page shows (`NothingIsNewer`, `InboxIsKept`). *Messages*: the conversation's
lock and the message's keep what a request has found true until it commits
(`OneAtATime`, `FoundIsTrue`): the number of a new message is then after every
other, and a message that is answered still has its text (`MessagesAreKept`).
*Sharing*: a form has one key in every tab, and no other form has it
(`KeysOfForms`: derived keys and random ones differ in the version digit), and an
answer that a tab still takes is of a job in its journal with the same people
(`CallsAreOfJobs`, `AnswersAreTrue`), so a notice is true; while one form is
shared, what any tab stores keeps its place (`OneFormIsStored`,
`SharingIsKept`). *Composer*: wherever a text is, on a screen, stored, on its way
or posted, it has one identifier and the room it was typed in (`OneIdPerText`,
`WhereWritten`); as the server keeps one message of an identifier in a room,
each text is posted once (`ComposerPostsOnce`).

**AccessProofs.** *Rate limiter*: `CutoffsArePast` (a cleanup's cutoff is not
later than its process's clock) and `CountedOrOver` (a window's row counts what
was admitted in it, or no clock can be in that window any more); with clocks
that agree up to `Keep - Window` the second case follows whenever a row is
removed. *Administrators*: `SuperadminInv`: one request changes the roster
(`OneChangesTheRoster`), it holds the row of whom it changes (`TargetsAreHeld`),
so a caller who was found in office is in office until the request ends
(`CallersStand`); an owner who can act remains (`OwnersRemain`). *Health*:
`HealthInv`: what the last count does not know is younger than it
(`UnknownIsCounted`, `DeadAreCounted`), and a worker that is ready has counted in
time (`SweptInTime`). *Privacy*: a page is of the past (`PagesAreBehind`) and a
command expects what its page showed (`CommandsWereFormed`), so a policy is
changed by somebody who saw the one in force, the first insertion included: the
component implements `VersionedPromise` (`PoliciesKeepTheirPromise`).

Proofs taught six things about the statements. The present form of
`ConfirmedStays` replaced one that held only because the bound on revisions was
reached before its exception; `WorkerHealth` assumes a finite queue and a
positive interval of telemetry, as the code has them; `OneDefault` needed a form
without cardinalities (`OneIsDefault`) to be true of any number of portfolios;
new work in a completed cycle needed a statement that is true while cycles
change (`NewWorkIsChecked`), where the first one assumed that none does;
dependencies keep out short cycles for any number of items, where the run had
only shown three items to be acyclic; and a submission can be lost by one tab
alone when it shares from two forms, so `SharingKept` says which case is safe
(`OneFormIsShared`), where the run had only one form to begin with.

Only model-checked:

* all liveness (`EventuallySettled`, `EverySweepEnds`, `RequestsEnd`,
  `CatchesUp`): the prover has no rule for fairness and ENABLED here;
* of `ComposerKept`, its last part (`keepsDrafts`): it is true of one tab and one
  room and of no more, which is a restriction of the run and not of the module.

## 5. Not modelled

Status and reason of every component are in PROJECT.json. In short: rendering,
translations, sessions and passwords (a library), permission tables and pure
rules over one item (enumerated by unit tests), mock integrations, reads, lists
and search, the in-memory demo adapter, migrations and deployment scripts (run
by one operator). The lines of the repository are for the greater part of these
kinds: schemas, route declarations, screens and styles, so the modules stand
for a small share of all lines and for most of those that more than one actor
runs through.

Within the modelled parts: notifications, snoozing and derived text of signals;
error codes and back-off arithmetic beyond "some delay"; portfolio grants and
organization selections; threads, direct conversations and archival; the draft
of the onboarding form; the default that is handed over between portfolios by a
repository function without a route, which writes another row's tag without its
guard; the version that `updateBoard` expects, optional in the repository, which
every route gives; the redaction of the expired
messages of a workspace at once (`redactExpiredMessages`), which no application
calls and which leaves replay records as they are.

External behaviour that is modelled from how the code relies on it: PostgreSQL's
row locks, foreign-key locks, unique indexes, advisory locks, deadlock detection
and READ COMMITTED snapshots; Better Auth's steps; the browser's storage and
timers; React Query's cancellation and sharing of requests; the passing of time.

## 6. What could come next

1. Portfolio grants and their repair beside `Rooms`.
2. Direct conversations: reuse of an archived pair.
3. The onboarding draft and the capture dialog's draft, beside `Composer`.
4. A statement of what becomes of drafts with several tabs and rooms that the
   code keeps, with its proof.
5. An abstract specification of `Commands` (atomic, at most once per record)
   with a refinement.
