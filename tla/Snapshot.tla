------------------------------ MODULE Snapshot ------------------------------
(***************************************************************************)
(* The browser's copy of an organization's records, and the revision that    *)
(* says whether it is current.                                              *)
(*                                                                          *)
(* Every change of a record or of someone's access counts the organization's *)
(* revision up in its own transaction.  The browser polls the revision along *)
(* with the workspaces it may see; when its copy has another revision it     *)
(* reads the records again, page by page, between two readings of the        *)
(* access, and keeps them as a snapshot of that revision if both readings    *)
(* have the same.  A reading of the access joins the poll that is under way. *)
(* A confirmed change is put into the copy at once.                         *)
(*                                                                          *)
(* An item stands for a page of records: its version is a number, 0 where    *)
(* there is none.  Only one person's access is modelled, and records are     *)
(* never removed: no route of the program removes one.                      *)
(***************************************************************************)
EXTENDS Integers, Sequences

CONSTANTS
    Item, Workspace,
    home,           \* the workspace of each item
    MaxAttempts,    \* how often a fetch reads the records before it gives up
    MaxRevision,    \* bounds the changes of the data
    MaxFailures     \* bounds the requests that fail

ASSUME SnapshotAssumption ==
    /\ home \in [Item -> Workspace]
    /\ MaxAttempts \in Nat \ {0} /\ MaxRevision \in Nat \ {0} /\ MaxFailures \in Nat

VARIABLES
    log,            \* the data at each revision so far; the last is what is stored now
    poll,           \* the request for the access, and what the server has read for it
    access,         \* the access last received
    seen,           \* the workspaces the page last reacted to
    due,            \* whether the page has yet to react to the access received
    fetch,          \* the fetch of the records
    shown,          \* the copy of the records
    answers,        \* confirmations of this browser's own changes on their way
    told,           \* the newest version of each item confirmed to this browser
    failures

snapshotVars == <<log, poll, access, seen, due, fetch, shown, answers, told, failures>>

None == 0           \* no revision
Unread == -1

Versions == [Item -> 0..MaxRevision]
Access == [revision : 0..MaxRevision, scope : SUBSET Workspace]
Data == [version : Versions, scope : SUBSET Workspace]
PollState == [at : {"idle", "asked", "resolved", "counted", "answered"},
              answer : Access]
FetchState == [at : {"idle", "first", "reading", "second"}, before : Access,
               got : [Item -> Unread..MaxRevision], attempt : 0..MaxAttempts]
Copy == [at : {"nothing", "partial", "complete"}, revision : 0..MaxRevision,
         scope : SUBSET Workspace, items : Versions]

NoAccess == [revision |-> None, scope |-> {}]
IdlePoll == [at |-> "idle", answer |-> NoAccess]
AskedPoll == [at |-> "asked", answer |-> NoAccess]
IdleFetch == [at |-> "idle", before |-> NoAccess, got |-> [i \in Item |-> Unread], attempt |-> 0]
FirstFetch == [IdleFetch EXCEPT !.at = "first"]

-----------------------------------------------------------------------------
Revision == Len(log)
Now == log[Revision]

(* What may be shown of the items to someone with this scope. *)
restrict(items, scope) == [i \in Item |-> IF home[i] \in scope THEN items[i] ELSE 0]

(* A page reacts when the access goes away, comes, or names another revision. *)
retainsAccessScope == seen \subseteq access.scope

SnapshotInit ==
    /\ \E v \in [Item -> {0, 1}] : log = <<[version |-> v, scope |-> Workspace]>>
    /\ poll = IdlePoll
    /\ access = [revision |-> 1, scope |-> Workspace]
    /\ seen = Workspace
    /\ due = TRUE
    /\ fetch = IdleFetch
    /\ shown = [at |-> "nothing", revision |-> None, scope |-> {}, items |-> [i \in Item |-> 0]]
    /\ answers = {}
    /\ told = [i \in Item |-> 0]
    /\ failures = 0

-----------------------------------------------------------------------------
(* The data changes, and its revision with it.                              *)

Commit(data) ==
    /\ Revision < MaxRevision
    /\ log' = Append(log, data)

(* Someone else creates or changes an item. *)
Write(i) ==
    /\ Commit([Now EXCEPT !.version[i] = @ + 1])
    /\ UNCHANGED <<poll, access, seen, due, fetch, shown, answers, told, failures>>

(* This browser does; the response brings the item back. *)
WriteHere(i) ==
    /\ home[i] \in Now.scope \cap access.scope
    /\ Commit([Now EXCEPT !.version[i] = @ + 1])
    /\ answers' = answers \cup {[item |-> i, version |-> Now.version[i] + 1]}
    /\ UNCHANGED <<poll, access, seen, due, fetch, shown, told, failures>>

Grant(w) ==
    /\ w \notin Now.scope
    /\ Commit([Now EXCEPT !.scope = @ \cup {w}])
    /\ UNCHANGED <<poll, access, seen, due, fetch, shown, answers, told, failures>>

Revoke(w) ==
    /\ w \in Now.scope
    /\ Commit([Now EXCEPT !.scope = @ \ {w}])
    /\ UNCHANGED <<poll, access, seen, due, fetch, shown, answers, told, failures>>

-----------------------------------------------------------------------------
(* The access: authorized first, and its revision read before and after.    *)

Poll ==
    /\ poll.at = "idle"
    /\ poll' = AskedPoll
    /\ UNCHANGED <<log, access, seen, due, fetch, shown, answers, told, failures>>

resolve ==
    /\ poll.at = "asked"
    /\ poll' = [at |-> "resolved", answer |-> [NoAccess EXCEPT !.scope = Now.scope]]
    /\ UNCHANGED <<log, access, seen, due, fetch, shown, answers, told, failures>>

readBefore ==
    /\ poll.at = "resolved"
    /\ poll' = [poll EXCEPT !.at = "counted", !.answer.revision = Revision]
    /\ UNCHANGED <<log, access, seen, due, fetch, shown, answers, told, failures>>

readAfter ==
    /\ poll.at = "counted"
    /\ poll' = [poll EXCEPT !.at = "answered",
                            !.answer.revision = IF @ = Revision THEN @ ELSE None]
    /\ UNCHANGED <<log, access, seen, due, fetch, shown, answers, told, failures>>

-----------------------------------------------------------------------------
(* The fetch of the records.                                                *)

Publish(items, revision, a) ==
    shown' = [at |-> "complete", revision |-> revision, scope |-> a.scope,
              items |-> restrict(items, a.scope)]

Reading(a, attempt) ==
    [at |-> "reading", before |-> a, got |-> [i \in Item |-> Unread], attempt |-> attempt]

(* The copy is that of the revision received: nothing is read. *)
Reuse(a) ==
    /\ a.revision # None /\ shown.at = "complete" /\ shown.revision = a.revision
    /\ Publish(shown.items, shown.revision, a)
    /\ fetch' = IdleFetch

Read(a) ==
    /\ ~(a.revision # None /\ shown.at = "complete" /\ shown.revision = a.revision)
    /\ fetch' = Reading(a, 1)
    /\ UNCHANGED shown

(* A wrong check: the access read last is enough. *)
CertifyLatest(a) ==
    /\ Publish(fetch.got, a.revision, a)
    /\ fetch' = IdleFetch

Certify(a) ==
    /\ a.revision = fetch.before.revision
    /\ Publish(fetch.got, a.revision, a)
    /\ fetch' = IdleFetch

ReadAgain(a) ==
    /\ a.revision # fetch.before.revision
    /\ fetch' = IF fetch.attempt < MaxAttempts THEN Reading(a, fetch.attempt + 1) ELSE IdleFetch
    /\ UNCHANGED shown

(* The fetch goes on with the access it asked for. *)
Continue(a) ==
    \/ fetch.at = "first" /\ (Reuse(a) \/ Read(a))
    \/ fetch.at = "second" /\ (Certify(a) \/ ReadAgain(a))
    \/ fetch.at \in {"idle", "reading"} /\ UNCHANGED <<fetch, shown>>

deliver ==
    /\ poll.at = "answered"
    /\ access' = poll.answer
    /\ due' = TRUE
    /\ poll' = IdlePoll
    /\ Continue(poll.answer)
    /\ UNCHANGED <<log, seen, answers, told, failures>>

(* The poll times out or fails, and the fetch that waits for it with it. *)
pollFails ==
    /\ poll.at # "idle" /\ failures < MaxFailures
    /\ failures' = failures + 1
    /\ poll' = IdlePoll
    /\ fetch' = IF fetch.at \in {"first", "second"} THEN IdleFetch ELSE fetch
    /\ UNCHANGED <<log, access, seen, due, shown, answers, told>>

(* Reading the access joins the poll under way. *)
joinedPoll == IF poll.at = "idle" THEN AskedPoll ELSE poll

(* An access without a revision serves for a few seconds, unless it is older. *)
getAccess(waiting) ==
    /\ fetch' = waiting
    /\ poll' = joinedPoll
    /\ UNCHANGED shown

getCachedAccess ==
    /\ access.revision = None
    /\ UNCHANGED poll

(* A page asks for the records: on arrival, on a retry, on request. *)
refresh ==
    /\ fetch.at = "idle"
    /\ \/ getAccess(FirstFetch)
       \/ getCachedAccess /\ Read(access)
    /\ UNCHANGED <<log, access, seen, due, answers, told, failures>>

readPage(i) ==
    /\ fetch.at = "reading" /\ fetch.got[i] = Unread
    /\ fetch' = [fetch EXCEPT !.got[i] = restrict(Now.version, Now.scope)[i]]
    /\ UNCHANGED <<log, poll, access, seen, due, shown, answers, told, failures>>

readAllPages == fetch.at = "reading" /\ \A i \in Item : fetch.got[i] # Unread

finishUnverified ==
    /\ readAllPages /\ fetch.before.revision = None
    /\ Publish(restrict(fetch.got, fetch.before.scope), None, access)
    /\ fetch' = IdleFetch
    /\ UNCHANGED <<log, poll, access, seen, due, answers, told, failures>>

finishVerified ==
    /\ readAllPages /\ fetch.before.revision # None
    /\ \/ getAccess([fetch EXCEPT !.at = "second"])
       \/ getCachedAccess /\ ReadAgain(access)
    /\ UNCHANGED <<log, access, seen, due, answers, told, failures>>

(* The pages so far are shown while there is nothing complete. *)
onProgress ==
    /\ fetch.at = "reading" /\ shown.at # "complete" /\ ~readAllPages
    /\ \E i \in Item : fetch.got[i] # Unread
    /\ shown' = [at |-> "partial", revision |-> None, scope |-> access.scope,
                 items |-> restrict([i \in Item |-> IF fetch.got[i] = Unread THEN 0
                                                    ELSE fetch.got[i]], access.scope)]
    /\ UNCHANGED <<log, poll, access, seen, due, fetch, answers, told, failures>>

readFails ==
    /\ fetch.at = "reading" /\ failures < MaxFailures
    /\ failures' = failures + 1
    /\ fetch' = IdleFetch
    /\ UNCHANGED <<log, poll, access, seen, due, shown, answers, told>>

-----------------------------------------------------------------------------
(* The page reacts to the access received.                                  *)

(* Some of it is gone: the fetch is cancelled and the copy cut at once. *)
reduce ==
    /\ ~retainsAccessScope
    /\ shown' = IF shown.at = "nothing" THEN shown
                ELSE [shown EXCEPT !.scope = access.scope,
                                   !.items = restrict(@, access.scope)]
    /\ fetch' = FirstFetch
    /\ poll' = joinedPoll

(* There is more of it: the fetch starts over, unless it is the first. *)
expand ==
    /\ retainsAccessScope /\ seen # access.scope
    /\ IF fetch.at # "idle" /\ shown.at = "nothing"
       THEN UNCHANGED <<fetch, poll>>
       ELSE fetch' = FirstFetch /\ poll' = joinedPoll
    /\ UNCHANGED shown

(* A wrong reaction: a copy that is complete is not compared. *)
compareUntilComplete ==
    /\ seen = access.scope
    /\ IF shown.at # "complete" /\ fetch.at = "idle"
       THEN fetch' = FirstFetch /\ poll' = joinedPoll
       ELSE UNCHANGED <<fetch, poll>>
    /\ UNCHANGED shown

(* Only the revision may have changed. *)
compare ==
    /\ seen = access.scope
    /\ IF access.revision \notin {None, shown.revision} /\ fetch.at = "idle"
       THEN fetch' = FirstFetch /\ poll' = joinedPoll
       ELSE UNCHANGED <<fetch, poll>>
    /\ UNCHANGED shown

react ==
    /\ due
    /\ due' = FALSE
    /\ seen' = access.scope
    /\ reduce \/ expand \/ compare
    /\ UNCHANGED <<log, access, answers, told, failures>>

-----------------------------------------------------------------------------
(* A wrong confirmation: the fetch under way goes on. *)
applyConfirmedUncancelled(a) ==
    /\ a \in answers
    /\ answers' = answers \ {a}
    /\ IF home[a.item] \in access.scope \cap shown.scope
       THEN /\ told' = [told EXCEPT ![a.item] = IF @ > a.version THEN @ ELSE a.version]
            /\ shown' = [shown EXCEPT !.items[a.item] = IF @ > a.version THEN @ ELSE a.version]
       ELSE UNCHANGED <<told, shown>>
    /\ UNCHANGED <<log, poll, access, seen, due, fetch, failures>>

(* A confirmed change cancels the fetch under way and goes into the copy,   *)
(* unless the copy has a newer one.                                         *)
applyConfirmedWorkItem(a) ==
    /\ a \in answers
    /\ answers' = answers \ {a}
    /\ fetch' = IdleFetch
    /\ IF home[a.item] \in access.scope \cap shown.scope
       THEN /\ told' = [told EXCEPT ![a.item] = IF @ > a.version THEN @ ELSE a.version]
            /\ shown' = [shown EXCEPT !.items[a.item] = IF @ > a.version THEN @ ELSE a.version]
       ELSE UNCHANGED <<told, shown>>
    /\ UNCHANGED <<log, poll, access, seen, due, failures>>

SnapshotNext ==
    \/ \E i \in Item : Write(i) \/ WriteHere(i) \/ readPage(i)
    \/ \E w \in Workspace : Grant(w) \/ Revoke(w)
    \/ Poll \/ resolve \/ readBefore \/ readAfter \/ deliver \/ pollFails
    \/ refresh \/ finishUnverified \/ finishVerified \/ onProgress \/ readFails
    \/ react
    \/ \E a \in answers : applyConfirmedWorkItem(a)

(* The page polls while it is open, requests are answered or fail, and the   *)
(* page reacts to what it receives.  Nobody has to change anything.          *)
SnapshotFairness ==
    /\ WF_snapshotVars(Poll) /\ WF_snapshotVars(resolve \/ readBefore \/ readAfter \/ deliver)
    /\ WF_snapshotVars((\E i \in Item : readPage(i)) \/ finishUnverified \/ finishVerified)
    /\ WF_snapshotVars(react)
    /\ WF_snapshotVars(\E a \in answers : applyConfirmedWorkItem(a))

SnapshotSpec == SnapshotInit /\ [][SnapshotNext]_snapshotVars
FairSnapshotSpec == SnapshotSpec /\ SnapshotFairness

-----------------------------------------------------------------------------
SnapshotTypeOK ==
    /\ log \in Seq(Data) /\ Revision \in 1..MaxRevision
    /\ poll \in PollState /\ access \in Access
    /\ seen \in SUBSET Workspace /\ due \in BOOLEAN
    /\ fetch \in FetchState /\ shown \in Copy
    /\ answers \subseteq [item : Item, version : 1..MaxRevision]
    /\ told \in Versions /\ failures \in 0..MaxFailures
    /\ fetch.at \in {"first", "second"} => poll.at # "idle"

(* A copy that has the current revision is current: the page reads nothing   *)
(* again while the poll names the revision of its copy, so one that was      *)
(* wrong under the current revision would stay wrong.                       *)
CurrentIsExact ==
    shown.at = "complete" /\ shown.revision = Revision =>
        /\ shown.scope = Now.scope
        /\ shown.items = restrict(Now.version, Now.scope)

(* A complete copy never goes back behind what this browser was told of its  *)
(* own change: "an obsolete in-flight snapshot cannot undo a confirmed        *)
(* update".  All it may do is withhold the item, and only if the browser or   *)
(* the server had no access to it: when the fetch began, or when the page was *)
(* read, with the change already stored.                                     *)
WithheldSince(i) ==
    \E r \in 1..Revision : log[r].version[i] >= told[i] /\ home[i] \notin log[r].scope

ConfirmedStays ==
    [][shown'.at = "complete" => \A i \in Item :
          shown'.items[i] < shown.items[i] /\ shown'.items[i] < told[i] =>
              /\ shown'.items[i] = 0
              /\ home[i] \in shown'.scope \cap fetch.before.scope => WithheldSince(i)]_snapshotVars

(* "Publish a complete snapshot only if its authorization/data revision      *)
(* stayed stable": what a fetch publishes as certified was stored all at     *)
(* once.                                                                    *)
SnapshotIsOneRevision ==
    [][fetch.at = "second" /\ shown' # shown /\ answers' = answers =>
          \E r \in 1..Revision :
              \A i \in Item : home[i] \in shown'.scope =>
                  shown'.items[i] = restrict(log[r].version, log[r].scope)[i]]_snapshotVars

(* Once nothing changes any more, the copy is that of the server: the poll    *)
(* heals what was read too early, cancelled, failed or mixed.                *)
CopyCatchesUp ==
    <>[](/\ access.scope = Now.scope
         /\ shown.at = "complete" /\ shown.scope = Now.scope
         /\ shown.items = restrict(Now.version, Now.scope))

(* The certified copy is exact as long as its revision is the current one.    *)
SnapshotConsistent == SnapshotTypeOK /\ CurrentIsExact
=============================================================================
