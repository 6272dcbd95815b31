----------------------------- MODULE WorkerSweep -----------------------------
(***************************************************************************)
(* The loop of apps/worker/src/index.ts over the Outbox: one sweep claims a  *)
(* batch, groups it by organization, lets the first lease of a group run the *)
(* full recompute of that organization and only then acknowledges the rest,  *)
(* without recomputing again if the first one committed.                     *)
(*                                                                          *)
(* Every action is an action of Outbox, restricted to the calls that the     *)
(* loop makes, plus what it does to the loop's own state and to the          *)
(* organization's Attention projection.  The content of the projection is    *)
(* abstracted to the version of the source data it was computed from.        *)
(*                                                                          *)
(* A sweep awaits its leases with Promise.all: when one of them rejects,     *)
(* because the failure report itself failed, the sweep is over for the loop, *)
(* while the other promises keep running.                                    *)
(***************************************************************************)
EXTENDS Outbox

CONSTANTS
    Org,            \* organizations
    OrgOf,          \* the organization of each event
    Coalesced       \* events of handlers with coalesceByOrganization

ASSUME SweepAssumption ==
    /\ OrgOf \in [Event -> Org]
    /\ Coalesced \subseteq Event

NoRead == 0                     \* the recompute has not read its sources yet

(* What is left to do with a lease: "recompute" runs the handler, "covered"  *)
(* skips its recompute, "dropped" leases are touched by no code any more.    *)
Mode == {"none", "recompute", "covered", "dropped"}

LeaseObject == Event \X Attempt

VARIABLES
    mode,           \* what the loop will do with each lease
    after,          \* the lease whose outcome it waits for; itself when none
    sweep,          \* the leases that each worker's running sweep awaits
    running,        \* workers whose loop has not returned
    stopping,       \* workers that were sent SIGTERM
    source,         \* version of each organization's source data
    writtenAt,      \* the source version that an event's transaction wrote
    projected,      \* the source version the committed signals reflect
    readAt          \* the source version read by an open recompute

loopVars == <<mode, after, sweep>>
processVars == <<running, stopping>>
dataVars == <<source, writtenAt, projected, readAt>>
allVars == <<vars, loopVars, processVars, dataVars>>

-----------------------------------------------------------------------------
TaskOf(l) == task[l[1]][l[2]]
WorkerOf(l) == attemptWorker[l[1]][l[2]]

(* groups.set(key, ...): coalesced leases of one organization stay together. *)
SameGroup(k, l) ==
    \/ k = l
    \/ {k[1], l[1]} \subseteq Coalesced /\ OrgOf[k[1]] = OrgOf[l[1]]

(* It is the turn of l, in a process that still runs. *)
OnTurn(l) == mode[l] \in {"recompute", "covered"} /\ after[l] = l

Recomputes(l) == l[1] \in Coalesced /\ mode[l] = "recompute"

(* A wrong lock: none. *)
OrgNeverLocked(o) == o \notin Org

(* pg_advisory_xact_lock, held until the recompute's transaction ends. *)
OrgLocked(o) == \E l \in LeaseObject : OrgOf[l[1]] = o /\ readAt[l] # NoRead

EndRead(l) == readAt' = [readAt EXCEPT ![l] = NoRead]

(* A wrong continuation: the others of the group are taken to be covered     *)
(* whatever became of the first.                                             *)
ReturnCoveringAll(l, acknowledged) ==
    /\ sweep' = [w \in Worker |-> sweep[w] \ {l}]
    /\ mode' = [k \in LeaseObject |->
                  IF k = l THEN "none"
                  ELSE IF after[k] = l THEN "covered" ELSE mode[k]]
    /\ after' = [k \in LeaseObject |-> IF after[k] = l THEN k ELSE after[k]]

(* processLease has returned.  The leases that waited for l are next, and    *)
(* are covered when l was acknowledged.                                      *)
Return(l, acknowledged) ==
    /\ sweep' = [w \in Worker |-> sweep[w] \ {l}]
    /\ mode' = [k \in LeaseObject |->
                  IF k = l THEN "none"
                  ELSE IF after[k] = l /\ acknowledged THEN "covered" ELSE mode[k]]
    /\ after' = [k \in LeaseObject |-> IF after[k] = l THEN k ELSE after[k]]

(* A wrong rejection, which the sweep survives while the group does not. *)
RejectKeepingSweep(l) ==
    /\ sweep' = [w \in Worker |-> sweep[w] \ {l}]
    /\ mode' = [k \in LeaseObject |->
                  IF k = l \/ after[k] = l THEN "dropped" ELSE mode[k]]
    /\ UNCHANGED after

(* processLease has thrown.  Its group is given up, and so is the sweep if   *)
(* it still awaited l; the leases of other groups run on.                    *)
Reject(l) ==
    /\ sweep' = [w \in Worker |-> IF l \in sweep[w] THEN {} ELSE sweep[w]]
    /\ mode' = [k \in LeaseObject |->
                  IF k = l \/ after[k] = l THEN "dropped" ELSE mode[k]]
    /\ UNCHANGED after

-----------------------------------------------------------------------------
SweepInit ==
    /\ Init
    /\ mode = [l \in LeaseObject |-> "none"]
    /\ after = [l \in LeaseObject |-> l]
    /\ sweep = [w \in Worker |-> {}]
    /\ running = Worker
    /\ stopping = {}
    /\ source = [o \in Org |-> 1]
    /\ writtenAt = [e \in Event |-> 0]
    /\ projected = [o \in Org |-> 1]
    /\ readAt = [l \in LeaseObject |-> NoRead]

(* A business transaction changes its organization's data and inserts the    *)
(* event that announces it.                                                  *)
Produce(e) ==
    /\ Enqueue(e)
    /\ source' = [source EXCEPT ![OrgOf[e]] = @ + 1]
    /\ writtenAt' = [writtenAt EXCEPT ![e] = source[OrgOf[e]] + 1]
    /\ UNCHANGED <<loopVars, processVars, projected, readAt>>

(* The start of runOutboxSweep: claim a batch and group it. *)
StartSweep(w) ==
    /\ w \in running \ stopping
    /\ sweep[w] = {}
    /\ Lease(w)
    /\ LET granted == {l \in LeaseObject : task'[l[1]][l[2]] # TaskOf(l)} IN
       \E firsts \in SUBSET granted :
         /\ \A l \in granted : \E f \in firsts : SameGroup(f, l)
         /\ \A f, g \in firsts : SameGroup(f, g) => f = g
         /\ sweep' = [sweep EXCEPT ![w] = granted]
         /\ mode' = [l \in LeaseObject |-> IF l \in granted THEN "recompute" ELSE mode[l]]
         /\ after' = [l \in LeaseObject |->
                        IF l \in granted THEN CHOOSE f \in firsts : SameGroup(f, l)
                                         ELSE after[l]]
    /\ UNCHANGED <<processVars, dataVars>>

Begin(l) ==
    /\ OnTurn(l)
    /\ BeginProcess(l[1], l[2])
    /\ IF task'[l[1]][l[2]] = "none" THEN Return(l, FALSE) ELSE UNCHANGED loopVars
    /\ UNCHANGED <<processVars, dataVars>>

(* recomputeOrganizationAttention: wait for the lock, then read. *)
ReadSources(l) ==
    /\ OnTurn(l)
    /\ Recomputes(l)
    /\ TaskOf(l) = "handling"
    /\ readAt[l] = NoRead
    /\ ~OrgLocked(OrgOf[l[1]])
    /\ readAt' = [readAt EXCEPT ![l] = source[OrgOf[l[1]]]]
    /\ UNCHANGED <<vars, loopVars, processVars, source, writtenAt, projected>>

HandlerDone(l) == Recomputes(l) => readAt[l] # NoRead

Commit(l) ==
    /\ OnTurn(l)
    /\ HandlerDone(l)
    /\ CommitProcess(l[1], l[2])
    /\ projected' = [projected EXCEPT
                       ![OrgOf[l[1]]] = IF Recomputes(l) THEN readAt[l] ELSE @]
    /\ IF task'[l[1]][l[2]] = "none" THEN Return(l, TRUE) ELSE UNCHANGED loopVars
    /\ EndRead(l)
    /\ UNCHANGED <<processVars, source, writtenAt>>

Lose(l) ==
    /\ OnTurn(l)
    /\ HandlerDone(l)
    /\ LoseLease(l[1], l[2])
    /\ Return(l, FALSE)
    /\ EndRead(l)
    /\ UNCHANGED <<processVars, source, writtenAt, projected>>

Throw(l) ==
    /\ OnTurn(l)
    /\ ProcessThrows(l[1], l[2])
    /\ EndRead(l)
    /\ UNCHANGED <<loopVars, processVars, source, writtenAt, projected>>

(* The catch block of processLease, when the failure report gets through. *)
ReportFailure(l) ==
    /\ OnTurn(l)
    /\ FailLease(l[1], l[2]) \/ FailTooLate(l[1], l[2])
    /\ Return(l, FALSE)
    /\ UNCHANGED <<processVars, dataVars>>

(* The failure report throws: it did not reach the database, or its reply    *)
(* was lost.                                                                 *)
ReportThrows(l) ==
    /\ OnTurn(l)
    /\ TaskOf(l) = "failing"
    /\ Abandon(l[1], l[2]) \/ FailLease(l[1], l[2])
    /\ Reject(l)
    /\ UNCHANGED <<processVars, dataVars>>

(* runAttentionSweep, for one organization. *)
AttentionSweep(w, o) ==
    /\ w \in running \ stopping
    /\ sweep[w] = {}
    /\ ~OrgLocked(o)
    /\ projected' = [projected EXCEPT ![o] = source[o]]
    /\ UNCHANGED <<vars, loopVars, processVars, source, writtenAt, readAt>>

(* SIGTERM. *)
Stop(w) ==
    /\ w \in running \ stopping
    /\ stopping' = stopping \cup {w}
    /\ UNCHANGED <<vars, loopVars, running, dataVars>>

(* runWorkerLoop returns: it looks at the signal when no sweep runs. *)
Exit(w) ==
    /\ w \in running \cap stopping
    /\ sweep[w] = {}
    /\ running' = running \ {w}
    /\ UNCHANGED <<vars, loopVars, stopping, dataVars>>

(* The process dies and is started again. *)
Restart(w) ==
    /\ mode' = [l \in LeaseObject |->
                  IF WorkerOf(l) = w /\ mode[l] # "none" THEN "dropped" ELSE mode[l]]
    /\ sweep' = [sweep EXCEPT ![w] = {}]
    /\ running' = running \cup {w}
    /\ stopping' = stopping \ {w}
    /\ UNCHANGED <<vars, after, dataVars>>

(* What is left of a dropped lease goes away: the server notices that the    *)
(* connection is gone and rolls the transaction back.                        *)
Forget(l) ==
    /\ mode[l] = "dropped"
    /\ IF TaskOf(l) = "none" THEN UNCHANGED vars ELSE Abandon(l[1], l[2])
    /\ mode' = [mode EXCEPT ![l] = "none"]
    /\ after' = [after EXCEPT ![l] = l]
    /\ EndRead(l)
    /\ UNCHANGED <<sweep, processVars, source, writtenAt, projected>>

-----------------------------------------------------------------------------
Progress(l) ==
    Begin(l) \/ ReadSources(l) \/ Commit(l) \/ Lose(l) \/ ReportFailure(l) \/ Forget(l)

SweepNext ==
    \/ \E e \in Event : Produce(e)
    \/ \E w \in Worker : StartSweep(w) \/ Stop(w) \/ Exit(w) \/ Restart(w)
    \/ \E w \in Worker, o \in Org : AttentionSweep(w, o)
    \/ \E l \in LeaseObject : Progress(l) \/ Throw(l) \/ ReportThrows(l)
    \/ Tick /\ UNCHANGED <<loopVars, processVars, dataVars>>

SweepSpec == SweepInit /\ [][SweepNext]_allVars

(* A transaction that is under way goes on until it ends. *)
SweepFairness ==
    \A l \in LeaseObject : WF_allVars(Progress(l))

FairSweepSpec == SweepSpec /\ SweepFairness

-----------------------------------------------------------------------------
SweepTypeOK ==
    /\ TypeOK
    /\ mode \in [LeaseObject -> Mode]
    /\ after \in [LeaseObject -> LeaseObject]
    /\ sweep \in [Worker -> SUBSET LeaseObject]
    /\ running \subseteq Worker
    /\ stopping \subseteq Worker
    /\ source \in [Org -> Nat]
    /\ writtenAt \in [Event -> Nat]
    /\ projected \in [Org -> Nat]
    /\ readAt \in [LeaseObject -> Nat]

(* An acknowledged event is reflected in the projection, even when its own   *)
(* recompute was skipped because another lease of its batch did it.          *)
AcknowledgedIsReflected ==
    \A e \in Coalesced \cap processed : writtenAt[e] <= projected[OrgOf[e]]

(* The projection never goes back, although several workers recompute the    *)
(* same organization from sources that they read at different times.         *)
ProjectionNeverRegresses ==
    [][\A o \in Org : projected[o] <= projected'[o]]_projected

(* A lease that a sweep awaits is either under way or waits for one that is, *)
(* so no sweep waits for a lease that nobody will finish.                    *)
SweepAwaitsLiveLeases ==
    \A w \in Worker : \A l \in sweep[w] :
        /\ WorkerOf(l) = w
        /\ mode[l] \in {"recompute", "covered"}
        /\ TaskOf(l) # "none"
        /\ after[l] \in sweep[w]
        /\ after[after[l]] = after[l]

(* Every sweep comes to an end: the loop is never stuck behind a lost lease, *)
(* a row lock or the organization lock.                                      *)
EverySweepEnds == \A w \in Worker : sweep[w] # {} ~> sweep[w] = {}

(* docs/operations.md: SIGTERM lets the bounded pass finish.  When the loop  *)
(* has returned, none of the worker's leases is still in hand.               *)
PassFinishesBeforeExit ==
    \A l \in LeaseObject :
        WorkerOf(l) \in Worker \ running => mode[l] \in {"none", "dropped"}

(* What a sweep leaves out it leaves to somebody: an event acknowledged       *)
(* without a recompute of its own is reflected in the projection, and every   *)
(* lease that is awaited is in hand.                                          *)
SweepConsistent ==
    /\ SweepTypeOK
    /\ AcknowledgedIsReflected
    /\ SweepAwaitsLiveLeases
=============================================================================
