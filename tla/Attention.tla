------------------------------ MODULE Attention ------------------------------
(***************************************************************************)
(* The Attention signals of one organization: the full recompute that the    *)
(* workers run (recomputeOrganizationAttention), the actions users take on   *)
(* signals (actOnAttention), edits of the work they are derived from, and    *)
(* the organization's calendar.                                              *)
(*                                                                          *)
(* A subject is an entity together with a reason code, the key under which   *)
(* at most one signal should be active.  A signal's identity is a hash of    *)
(* its source, so it is modelled by the subject and the version of the       *)
(* source; the organization's date is not part of the hash.  A subject calls *)
(* for a signal once its due date has passed; a reason that does not depend  *)
(* on the date is one that was due all along.                                *)
(*                                                                          *)
(* A recompute is a READ COMMITTED transaction under an advisory lock: it    *)
(* reads the sources, then the existing signals, then writes.  Edits and     *)
(* user actions do not take the lock and may commit in between.  The date it *)
(* works with comes from the context the worker's loop took earlier.         *)
(***************************************************************************)
EXTENDS Integers, FiniteSets

CONSTANTS
    Subject,
    Worker,
    MaxVersion,     \* bound: edits of one source
    MaxDay          \* bound: days that pass

ASSUME AttentionAssumption ==
    /\ MaxVersion \in Nat \ {0}
    /\ MaxDay \in Nat

Version == 1 .. MaxVersion
Day == 0 .. MaxDay
Always == -1                    \* due before the first day
Never == MaxDay                 \* due after the last day; also: work done

Signal == Subject \X Version

(* "none": no row.  The recompute closes as "changed" or "cleared", users as *)
(* "resolved" or "dismissed".                                                *)
Closed == {"changed", "cleared", "resolved", "dismissed"}
Status == {"none", "active"} \cup Closed

VARIABLES
    today,          \* the organization's local date
    version,        \* the version of each subject's source
    due,            \* the date after which it calls for a signal
    status,         \* the attention_signals rows
    phase,          \* where each worker's recompute is
    context,        \* the date of each worker's context.now
    desired,        \* the signals a recompute found its sources to call for
    plan            \* the signals it will close, by reason, and create

vars == <<today, version, due, status, phase, context, desired, plan>>
sourceVars == <<today, version, due>>
workerVars == <<phase, context, desired, plan>>

NoPlan == [changed |-> {}, cleared |-> {}, created |-> {}]

-----------------------------------------------------------------------------
SubjectOf(s) == s[1]

Calls(k, date) == due[k] < date

DesiredOn(date) == {<<k, version[k]>> : k \in {j \in Subject : Calls(j, date)}}

ActiveSignals == {s \in Signal : status[s] = "active"}

Idle(w) == phase[w] = "idle"

(* A wrong lock: none. *)
NeverLocked == Worker = {}

(* pg_advisory_xact_lock on the organization. *)
Locked == \E w \in Worker : phase[w] \in {"sources", "signals"}

Init ==
    /\ today = 0
    /\ version = [k \in Subject |-> 1]
    /\ due \in [Subject -> {Always} \cup Day]
    /\ status = [s \in Signal |-> "none"]
    /\ phase = [w \in Worker |-> "idle"]
    /\ context = [w \in Worker |-> 0]
    /\ desired = [w \in Worker |-> {}]
    /\ plan = [w \in Worker |-> NoPlan]

(* A user changes the entity: a new source version, which may no longer call *)
(* for a signal.                                                             *)
Edit(k) ==
    /\ version[k] < MaxVersion
    /\ version' = [version EXCEPT ![k] = @ + 1]
    /\ \E date \in {Always} \cup Day : due' = [due EXCEPT ![k] = date]
    /\ UNCHANGED <<today, status, workerVars>>

NextDay ==
    /\ today < MaxDay
    /\ today' = today + 1
    /\ UNCHANGED <<version, due, status, workerVars>>

(* actOnAttention: compare-and-swap on an active row. *)
Act(s, verdict) ==
    /\ status[s] = "active"
    /\ status' = [status EXCEPT ![s] = verdict]
    /\ UNCHANGED <<sourceVars, workerVars>>

(* The loop starts an iteration and takes its context. *)
TakeContext(w) ==
    /\ Idle(w)
    /\ context[w] # today
    /\ context' = [context EXCEPT ![w] = today]
    /\ UNCHANGED <<sourceVars, status, phase, desired, plan>>

ReadSources(w) ==
    /\ Idle(w)
    /\ ~Locked
    /\ desired' = [desired EXCEPT ![w] = DesiredOn(context[w])]
    /\ phase' = [phase EXCEPT ![w] = "sources"]
    /\ UNCHANGED <<sourceVars, status, context, plan>>

(* The plan: close what is active and not desired, create what is desired    *)
(* and has no row.  A row that was closed before suppresses its signal.  The *)
(* code looks at one active row of each subject, and there is no other.      *)
PlanFor(wanted) ==
    LET subjects == {SubjectOf(s) : s \in wanted} IN
    [changed |-> {s \in ActiveSignals \ wanted : SubjectOf(s) \in subjects},
     cleared |-> {s \in ActiveSignals \ wanted : SubjectOf(s) \notin subjects},
     created |-> {s \in wanted : status[s] = "none"}]

ReadSignals(w) ==
    /\ phase[w] = "sources"
    /\ plan' = [plan EXCEPT ![w] = PlanFor(desired[w])]
    /\ phase' = [phase EXCEPT ![w] = "signals"]
    /\ UNCHANGED <<sourceVars, status, context, desired>>

Finish(w) ==
    /\ phase' = [phase EXCEPT ![w] = "idle"]
    /\ desired' = [desired EXCEPT ![w] = {}]
    /\ plan' = [plan EXCEPT ![w] = NoPlan]

(* A wrong write, by id alone. *)
WriteUnguarded(w) ==
    /\ phase[w] = "signals"
    /\ status' = [s \in Signal |->
          IF s \in plan[w].changed THEN "changed"
          ELSE IF s \in plan[w].cleared THEN "cleared"
          ELSE IF s \in plan[w].created THEN "active" ELSE status[s]]
    /\ Finish(w)
    /\ UNCHANGED <<sourceVars, context>>

(* Rows that a user has closed meanwhile stay as the user left them. *)
Write(w) ==
    /\ phase[w] = "signals"
    /\ status' = [s \in Signal |->
          IF status[s] = "active" /\ s \in plan[w].changed THEN "changed"
          ELSE IF status[s] = "active" /\ s \in plan[w].cleared THEN "cleared"
          ELSE IF status[s] = "none" /\ s \in plan[w].created THEN "active"
          ELSE status[s]]
    /\ Finish(w)
    /\ UNCHANGED <<sourceVars, context>>

(* The transaction fails, or its worker dies. *)
Rollback(w) ==
    /\ ~Idle(w)
    /\ Finish(w)
    /\ UNCHANGED <<sourceVars, status, context>>

Recompute(w) == ReadSources(w) \/ ReadSignals(w) \/ Write(w)

Next ==
    \/ \E k \in Subject : Edit(k)
    \/ NextDay
    \/ \E s \in Signal, verdict \in {"resolved", "dismissed"} : Act(s, verdict)
    \/ \E w \in Worker : TakeContext(w) \/ Recompute(w) \/ Rollback(w)

Spec == Init /\ [][Next]_vars

(* Every iteration of a worker's loop takes a fresh context and asks for the *)
(* lock, which PostgreSQL grants in the order of the requests, and a         *)
(* recompute that is tried again and again commits in the end.               *)
Fairness ==
    \A w \in Worker :
        /\ SF_vars(TakeContext(w))
        /\ SF_vars(ReadSources(w))
        /\ SF_vars(ReadSignals(w))
        /\ SF_vars(Write(w))

FairSpec == Spec /\ Fairness

-----------------------------------------------------------------------------
(* Types, and: one recompute at a time, whose plan is about what it read.    *)
TypeOK ==
    /\ today \in Day
    /\ version \in [Subject -> Version]
    /\ due \in [Subject -> {Always} \cup Day]
    /\ status \in [Signal -> Status]
    /\ phase \in [Worker -> {"idle", "sources", "signals"}]
    /\ context \in [Worker -> Day]
    /\ desired \in [Worker -> SUBSET Signal]
    /\ plan \in [Worker -> [changed : SUBSET Signal, cleared : SUBSET Signal,
                            created : SUBSET Signal]]
    /\ \A w \in Worker : plan[w].created \subseteq desired[w]
    /\ Cardinality({w \in Worker : ~Idle(w)}) <= 1

(* At most one signal of a subject is active, whatever edits and user actions *)
(* committed between the reads and the write of a recompute.                  *)
OneActivePerSubject ==
    \A s, r \in ActiveSignals : SubjectOf(s) = SubjectOf(r) => s = r

(* A closed signal stays closed, for the reason it was closed: a recompute    *)
(* never overrides a verdict that a user gave while it was under way, nor     *)
(* brings the signal back.                                                    *)
ClosedIsFinal ==
    [][\A s \in Signal : status[s] \in Closed => status'[s] = status[s]]_vars

(* What is active is what the sources call for, less what was closed before.  *)
Converged == ActiveSignals = {s \in DesiredOn(today) : status[s] \notin Closed}

(* When edits and user actions come to an end the signals catch up and stay.  *)
EventuallyConverged == <>[]Converged

(* The workers do not suppress a signal themselves: one that the sources call *)
(* for today was not cleared by a recompute, only a user's verdict or a newer *)
(* source can close it.                                                       *)
OnlyVerdictsSuppress == \A s \in DesiredOn(today) : status[s] # "cleared"

(* What recomputes and users write between each other's steps leaves no more  *)
(* than one signal of a subject on the page.                                  *)
AttentionConsistent == TypeOK /\ OneActivePerSubject
=============================================================================
