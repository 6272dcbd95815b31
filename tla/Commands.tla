------------------------------- MODULE Commands -------------------------------
(***************************************************************************)
(* How a mutation of the API takes effect: the idempotency record of         *)
(* withIdempotency, the versioned UPDATE of an aggregate, and the audit and  *)
(* outbox rows that are committed with it, in one READ COMMITTED transaction *)
(* per HTTP request, of which several may run at once in several processes.  *)
(*                                                                          *)
(* A command is what a client wants done: a request body, the key it chose   *)
(* for it, and, when the command is versioned, the version the client saw    *)
(* (If-Match).  A client may send a command any number of times, also while  *)
(* an earlier request is under way, and may use a key for two commands.      *)
(*                                                                          *)
(* Deferred commands are those of invitations that send mail: their record   *)
(* stays pending until a second transaction has recorded the delivery.       *)
(***************************************************************************)
EXTENDS Naturals, Sequences, FiniteSets

CONSTANTS
    Command,        \* what clients ask for
    Key,            \* idempotency keys of one user in one organization
    KeyOf,          \* the key that the client sends with a command
    Versioned,      \* the commands that update an aggregate under If-Match
    Deferred,       \* those whose record is completed by a second transaction
    Aggregate,
    AggregateOf,    \* the aggregate of each command, when it is versioned
    Request,        \* the requests under way, in all the API processes
    NoCommand,
    MaxReclaims     \* bound: how often a key's record may expire

ASSUME CommandsAssumption ==
    /\ KeyOf \in [Command -> Key]
    /\ Deferred \subseteq Versioned
    /\ Versioned \subseteq Command
    /\ Command # {}
    /\ AggregateOf \in [Command -> Aggregate]
    /\ NoCommand \notin Command
    /\ MaxReclaims \in Nat

State == {"none", "pending", "completed"}

(* Where a request is.  "begun": nothing read yet.  "conflicting": its key is *)
(* taken.  "executing": it holds its key.  "saved": and its aggregate's row.  *)
(* "delivering": committed, the mail is on its way.  "recording": holds the   *)
(* row again.                                                                 *)
Phase == {"idle", "begun", "conflicting", "executing", "saved",
          "delivering", "recording"}

VARIABLES
    history,        \* the committed updates of each aggregate; version = length
    made,           \* the commands that took effect under each key
    record,         \* the idempotency_records row of each key
    expired,        \* keys whose record is past expires_at
    reclaimed,      \* how often a key's record was replaced
    seen,           \* the version each command was formed from
    formed,         \* the commands that clients have formed
    phase,
    command,        \* the command of each request
    reclaiming,     \* requests that deleted an expired record
    base,           \* the version a delivery record applies to
    answers         \* the answers that clients were given

keyVars == <<made, record, expired, reclaimed>>
clientVars == <<seen, formed>>
requestVars == <<phase, command, reclaiming, base>>
vars == <<history, keyVars, clientVars, requestVars, answers>>

NoRecord == [command |-> NoCommand, state |-> "none"]

Update == [by : Command, from : Nat]

Verdict == {"ok", "conflict", "reused", "unavailable"}

-----------------------------------------------------------------------------
Version(a) == Len(history[a])

KeyFor(r) == KeyOf[command[r]]
Target(r) == AggregateOf[command[r]]

(* A wrong unique index: none. *)
KeyNeverHeld(k) == k \notin Key

(* The unique index: the key's row is inserted or deleted and not committed. *)
KeyHeld(k) ==
    \E r \in Request : phase[r] \in {"executing", "saved"} /\ KeyFor(r) = k

(* The row lock of an UPDATE or a SELECT FOR UPDATE. *)
RowHeld(a) ==
    \E r \in Request :
        /\ phase[r] \in {"saved", "recording"}
        /\ command[r] \in Versioned
        /\ Target(r) = a

Answer(r, verdict, effect) ==
    answers' = answers \cup
        {[command |-> command[r], verdict |-> verdict, effect |-> effect]}

(* The transaction of r ends without effect. *)
Leave(r) ==
    /\ phase' = [phase EXCEPT ![r] = "idle"]
    /\ reclaiming' = reclaiming \ {r}
    /\ UNCHANGED <<history, keyVars, clientVars, command, base>>

Init ==
    /\ history = [a \in Aggregate |-> <<>>]
    /\ made = [k \in Key |-> <<>>]
    /\ record = [k \in Key |-> NoRecord]
    /\ expired = {}
    /\ reclaimed = [k \in Key |-> 0]
    /\ seen = [c \in Command |-> 0]
    /\ formed = {}
    /\ phase = [r \in Request |-> "idle"]
    /\ command = [r \in Request |-> CHOOSE c \in Command : TRUE]
    /\ reclaiming = {}
    /\ base = [r \in Request |-> 0]
    /\ answers = {}

(* A client reads the aggregate and decides what to ask for. *)
Form(c) ==
    /\ c \notin formed
    /\ formed' = formed \cup {c}
    /\ seen' = [seen EXCEPT ![c] = Version(AggregateOf[c])]
    /\ UNCHANGED <<history, keyVars, requestVars, answers>>

(* The request of a command arrives, for the first time or again. *)
Begin(r, c) ==
    /\ phase[r] = "idle"
    /\ c \in formed
    /\ phase' = [phase EXCEPT ![r] = "begun"]
    /\ command' = [command EXCEPT ![r] = c]
    /\ UNCHANGED <<history, keyVars, clientVars, reclaiming, base, answers>>

(* DELETE the expired record, INSERT ... ON CONFLICT DO NOTHING.  Both wait   *)
(* for a transaction that holds the key.  Whether an expired record is seen   *)
(* as such depends on the clock reading that the request carries.             *)
Acquire(r) ==
    /\ phase[r] = "begun"
    /\ ~KeyHeld(KeyFor(r))
    /\ \/ /\ record[KeyFor(r)].state = "none"
          /\ phase' = [phase EXCEPT ![r] = "executing"]
          /\ UNCHANGED reclaiming
       \/ /\ KeyFor(r) \in expired
          /\ phase' = [phase EXCEPT ![r] = "executing"]
          /\ reclaiming' = reclaiming \cup {r}
       \/ /\ record[KeyFor(r)].state # "none"
          /\ phase' = [phase EXCEPT ![r] = "conflicting"]
          /\ UNCHANGED reclaiming
    /\ UNCHANGED <<history, keyVars, clientVars, command, base, answers>>

(* The key was taken: SELECT the record, compare the request, and replay.     *)
(* The record may be gone by then.                                            *)
Replay(r) ==
    /\ phase[r] = "conflicting"
    /\ \/ KeyFor(r) \in expired /\ Answer(r, "unavailable", 0)
       \/ IF record[KeyFor(r)].command # command[r] THEN Answer(r, "reused", 0)
          ELSE IF record[KeyFor(r)].state # "completed"
            THEN Answer(r, "unavailable", 0)
            ELSE Answer(r, "ok", Len(made[KeyFor(r)]))
    /\ Leave(r)

(* A wrong order: the version is compared before the key is looked up. *)
ConflictAtOnce(r) ==
    /\ phase[r] \in {"begun", "executing"}
    /\ command[r] \in Versioned
    /\ Version(Target(r)) # seen[command[r]]
    /\ Answer(r, "conflict", 0)
    /\ Leave(r)

(* version_conflict, from the read or from the UPDATE that matched no row. *)
Conflict(r) ==
    /\ phase[r] = "executing"
    /\ command[r] \in Versioned
    /\ Version(Target(r)) # seen[command[r]]
    /\ Answer(r, "conflict", 0)
    /\ Leave(r)

(* UPDATE ... WHERE version = expectedVersion: lock the row, then compare.    *)
(* The audit and outbox rows follow in the same transaction.                  *)
Save(r) ==
    /\ phase[r] = "executing"
    /\ command[r] \in Versioned =>
         ~RowHeld(Target(r)) /\ Version(Target(r)) = seen[command[r]]
    /\ phase' = [phase EXCEPT ![r] = "saved"]
    /\ UNCHANGED <<history, keyVars, clientVars, command, reclaiming, base, answers>>

RenewExpiry(k) == expired' = expired \ {k}

(* COMMIT.  The record, the update and its journals appear together. *)
Commit(r) ==
    LET k == KeyFor(r)
        c == command[r]
        deferred == c \in Deferred
    IN
      /\ phase[r] = "saved"
      /\ history' = IF c \in Versioned
           THEN [history EXCEPT ![Target(r)] = Append(@, [by |-> c, from |-> seen[c]])]
           ELSE history
      /\ made' = [made EXCEPT ![k] = Append(@, c)]
      /\ record' = [record EXCEPT ![k] =
           [command |-> c, state |-> IF deferred THEN "pending" ELSE "completed"]]
      /\ reclaimed' = [reclaimed EXCEPT ![k] = IF r \in reclaiming THEN @ + 1 ELSE @]
      /\ RenewExpiry(k)
      /\ reclaiming' = reclaiming \ {r}
      /\ IF deferred
           THEN /\ phase' = [phase EXCEPT ![r] = "delivering"]
                /\ base' = [base EXCEPT ![r] = Len(history'[Target(r)])]
                /\ UNCHANGED answers
           ELSE /\ phase' = [phase EXCEPT ![r] = "idle"]
                /\ Answer(r, "ok", Len(made'[k]))
                /\ UNCHANGED base
      /\ UNCHANGED <<clientVars, command>>

(* recordInvitationDelivery, once the mail was sent or has failed: lock the   *)
(* invitation and compare its version.                                        *)
RecordDelivery(r) ==
    /\ phase[r] = "delivering"
    /\ ~RowHeld(Target(r))
    /\ Version(Target(r)) = base[r]
    /\ phase' = [phase EXCEPT ![r] = "recording"]
    /\ UNCHANGED <<history, keyVars, clientVars, command, reclaiming, base, answers>>

(* The invitation has changed while the mail was on its way.  The client is   *)
(* told so, although its command took effect.                                 *)
DeliverySuperseded(r) ==
    /\ phase[r] = "delivering"
    /\ Version(Target(r)) # base[r]
    /\ Answer(r, "conflict", 0)
    /\ Leave(r)

Finalizable(r) ==
    record[KeyFor(r)] = [command |-> command[r], state |-> "pending"]

(* finalizeIdempotencyResponse: complete the record of the command that was   *)
(* delivered, together with the delivery.                                     *)
Finalize(r) ==
    /\ phase[r] = "recording"
    /\ ~KeyHeld(KeyFor(r))
    /\ Finalizable(r)
    /\ history' = [history EXCEPT ![Target(r)] =
                     Append(@, [by |-> command[r], from |-> base[r]])]
    /\ record' = [record EXCEPT ![KeyFor(r)].state = "completed"]
    /\ Answer(r, "ok", Len(made[KeyFor(r)]))
    /\ phase' = [phase EXCEPT ![r] = "idle"]
    /\ UNCHANGED <<made, expired, reclaimed, clientVars, command, reclaiming, base>>

FinalizeRefused(r) ==
    /\ phase[r] = "recording"
    /\ ~KeyHeld(KeyFor(r))
    /\ ~Finalizable(r)
    /\ Answer(r, "unavailable", 0)
    /\ Leave(r)

(* The request fails: it is not valid, the database does not answer, or the   *)
(* process dies.  What it had not committed is rolled back.                   *)
Rollback(r) ==
    /\ phase[r] # "idle"
    /\ Leave(r)
    /\ UNCHANGED answers

(* A reclaimed key and a delivery record may wait for each other: PostgreSQL  *)
(* aborts one of the two.                                                     *)
Deadlocked(r) ==
    /\ phase[r] = "executing"
    /\ command[r] \in Versioned
    /\ \E q \in Request :
         phase[q] = "recording" /\ KeyFor(q) = KeyFor(r) /\ Target(q) = Target(r)

BreakDeadlock(r) == Deadlocked(r) /\ Rollback(r)

(* expires_at passes. *)
Expire(k) ==
    /\ record[k].state # "none"
    /\ k \notin expired
    /\ reclaimed[k] < MaxReclaims
    /\ expired' = expired \cup {k}
    /\ UNCHANGED <<history, made, record, reclaimed, clientVars, requestVars, answers>>

(* invalidateCollaborationGrants: when the user is revoked or becomes a       *)
(* guest, their completed records are deleted.  They are marked as expired:   *)
(* the next request may take the key, and (more than the code allows) may     *)
(* also find the record still.                                                *)
DeleteCompleted ==
    LET gone == {k \in Key \ expired : record[k].state = "completed"} IN
    /\ gone # {} /\ \A k \in gone : reclaimed[k] < MaxReclaims
    /\ expired' = expired \cup gone
    /\ UNCHANGED <<history, made, record, reclaimed, clientVars, requestVars, answers>>

-----------------------------------------------------------------------------
Progress(r) ==
    \/ Acquire(r) \/ Replay(r) \/ Conflict(r) \/ Save(r) \/ Commit(r)
    \/ RecordDelivery(r) \/ DeliverySuperseded(r) \/ Finalize(r) \/ FinalizeRefused(r)

Next ==
    \/ \E c \in Command : Form(c)
    \/ \E r \in Request : (\E c \in Command : Begin(r, c)) \/ Progress(r) \/ Rollback(r)
    \/ (\E k \in Key : Expire(k)) \/ DeleteCompleted

Spec == Init /\ [][Next]_vars

(* PostgreSQL serves those who wait for a lock in the order of their arrival, *)
(* and breaks deadlocks; a request that runs goes on.                         *)
Fairness ==
    \A r \in Request : SF_vars(Progress(r)) /\ WF_vars(BreakDeadlock(r))

FairSpec == Spec /\ Fairness

-----------------------------------------------------------------------------
TypeOK ==
    /\ history \in [Aggregate -> Seq(Update)]
    /\ made \in [Key -> Seq(Command)]
    /\ record \in [Key -> {NoRecord} \cup
                          [command : Command, state : {"pending", "completed"}]]
    /\ expired \subseteq Key
    /\ reclaimed \in [Key -> 0 .. MaxReclaims]
    /\ seen \in [Command -> Nat]
    /\ formed \subseteq Command
    /\ phase \in [Request -> Phase]
    /\ command \in [Request -> Command]
    /\ reclaiming \subseteq Request
    /\ base \in [Request -> Nat]
    /\ answers \subseteq [command : Command, verdict : Verdict, effect : Nat]

(* A key has a record exactly when a command has taken effect under it, and   *)
(* one command only, once, since the record last expired: however often and   *)
(* however concurrently the key is sent, and wherever a request dies.         *)
OneEffectPerRecord ==
    \A k \in Key :
        IF record[k] = NoRecord
          THEN made[k] = <<>>
          ELSE /\ Len(made[k]) = reclaimed[k] + 1
               /\ made[k][Len(made[k])] = record[k].command

(* A client that is told "ok" is given the result of its own command.         *)
AnswersAreOwn ==
    \A a \in answers : a.verdict = "ok" =>
        /\ a.effect \in 1 .. Len(made[KeyOf[a.command]])
        /\ made[KeyOf[a.command]][a.effect] = a.command

(* version_conflict is never told of a command that has taken effect, so a    *)
(* retry after a lost reply is not mistaken for an edit by somebody else; the *)
(* exceptions are a retry after the record has expired, and an invitation     *)
(* that changes while its mail is on its way.                                 *)
ConflictMeansNoEffect ==
    \A a \in answers : a.verdict = "conflict" /\ a.command \notin Deferred =>
        LET k == KeyOf[a.command] IN
        \A i \in DOMAIN made[k] :
            made[k][i] = a.command => i <= reclaimed[k] \/ k \in expired

(* No lost update: every update of an aggregate was made by a client that had *)
(* seen the one before it.                                                    *)
NoLostUpdate ==
    \A a \in Aggregate : \A i \in DOMAIN history[a] : history[a][i].from = i - 1

(* A request is never left waiting for a key or a row.                        *)
EveryRequestEnds == \A r \in Request : phase[r] # "idle" ~> phase[r] = "idle"

(* docs/persistent-data-plane.md: the request path never deletes or reuses an *)
(* expired record, so a key never makes a second effect.                      *)
KeyNeverReused == \A k \in Key : Len(made[k]) <= 1

(* Under any number of requests, retries and deaths a key has one effect for  *)
(* each of its records, and an aggregate a chain of updates.                  *)
EffectsAreSingle == TypeOK /\ OneEffectPerRecord /\ NoLostUpdate

(* The client can act on what it is told: "ok" is its own result, and a       *)
(* conflict somebody else's.                                                  *)
AnswersAreTrue == AnswersAreOwn /\ ConflictMeansNoEffect
=============================================================================
