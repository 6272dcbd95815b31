-------------------------------- MODULE Inbox --------------------------------
(***************************************************************************)
(* One captured record of a user's Inbox, and the pages that show it: a page *)
(* polls, acts on the version it shows, sends an action whose answer was lost *)
(* again under the same key, and after a conflict loads the Inbox itself.    *)
(*                                                                          *)
(* The row's guard, and the row lock of a conversion, make each command of    *)
(* the server one step.                                                      *)
(***************************************************************************)
EXTENDS Integers, FiniteSets

CONSTANTS
    Page,
    InboxRequest,   \* the actions of the user, each with its key
    MaxVersion      \* bounds the changes of the record

ASSUME InboxAssumption == MaxVersion \in Nat

VARIABLES
    inboxRecord,    \* the row: its version, whether it is done and converted
    workItems,      \* the work items created of it
    inboxShown,     \* the record in each page's cache
    inboxPoll,      \* the answer of each page's poll, on its way
    reload,         \* the answer of the load after a conflict, on its way
    conflict,       \* the operation that each page reports a conflict of
    undo,           \* the version whose "done" each page offers to undo
    inboxPending,   \* whether each page's buttons are disabled
    inboxRequest,   \* each action and what became of it
    receipt         \* the idempotency records: the answer to each committed action

inboxVars == <<inboxRecord, workItems, inboxShown, inboxPoll, reload, conflict, undo,
               inboxPending, inboxRequest, receipt>>
server == <<inboxRecord, workItems, receipt>>
notices == <<conflict, undo>>

Operation == {"done", "undo", "convert"}
InboxRow == [version : 0..MaxVersion, done : BOOLEAN, converted : BOOLEAN]
Nothing == [version |-> -1]
Unused == [step |-> "unused"]

(* "failed": the page has given it up, the server has perhaps not. *)
Action == [step : {"sent", "failed", "refused", "answered", "over"}, by : Page,
           operation : Operation, expected : 0..MaxVersion, arrives : BOOLEAN]

InboxInit ==
    /\ inboxRecord = [version |-> 0, done |-> FALSE, converted |-> FALSE] /\ workItems = 0
    /\ inboxShown = [p \in Page |-> inboxRecord]
    /\ inboxPoll = [p \in Page |-> Nothing] /\ reload = [p \in Page |-> Nothing]
    /\ conflict = [p \in Page |-> "none"] /\ undo = [p \in Page |-> Nothing.version]
    /\ inboxPending = [p \in Page |-> FALSE]
    /\ inboxRequest = [r \in InboxRequest |-> Unused] /\ receipt = [r \in InboxRequest |-> Nothing]

-----------------------------------------------------------------------------
attempted(p, r, operation, version) ==
    /\ inboxRequest[r] # Unused
    /\ inboxRequest[r].by = p /\ inboxRequest[r].operation = operation
    /\ inboxRequest[r].expected = version

(* The client sends the same operation on the same version under the key it  *)
(* sent it under before; a conversion into another board is another one.     *)
retainedKey(p, r, operation, version) ==
    \/ attempted(p, r, operation, version) /\ inboxRequest[r].step \in {"sent", "failed", "over"}
    \/ /\ inboxRequest[r] = Unused
       /\ operation = "convert" \/ \A s \in InboxRequest : ~attempted(p, s, operation, version)

act(p, r, operation, version) ==
    /\ version < MaxVersion
    /\ retainedKey(p, r, operation, version)
    /\ inboxRequest' = [inboxRequest EXCEPT ![r] = [step |-> "sent", by |-> p, operation |-> operation,
                                          expected |-> version, arrives |-> TRUE]]
    /\ inboxPending' = [inboxPending EXCEPT ![p] = TRUE]

press(p, r) ==
    /\ ~inboxPending[p]
    /\ \/ /\ ~inboxShown[p].done /\ ~inboxShown[p].converted
          /\ \E operation \in {"done", "convert"} : act(p, r, operation, inboxShown[p].version)
       \/ undo[p] # Nothing.version /\ act(p, r, "undo", undo[p])
    /\ conflict' = [conflict EXCEPT ![p] = "none"]
    /\ UNCHANGED <<server, inboxShown, inboxPoll, reload, undo>>

(* The answer does not come: the request is lost, or runs on without the page. *)
fail(r) ==
    /\ inboxRequest[r].step \in {"sent", "answered", "refused"}
    /\ \E arrives \in {FALSE, inboxRequest[r].arrives} :
          inboxRequest' = [inboxRequest EXCEPT ![r].step = "failed", ![r].arrives = arrives]
    /\ inboxPending' = [inboxPending EXCEPT ![inboxRequest[r].by] = FALSE]
    /\ UNCHANGED <<server, inboxShown, inboxPoll, reload, notices>>

-----------------------------------------------------------------------------
(* A wrong write, which keeps the version. *)
updateKeepingVersion(operation) == [inboxRecord EXCEPT !.done = operation # "undo"]

update(operation) ==
    [version |-> inboxRecord.version + 1, done |-> operation # "undo",
     converted |-> inboxRecord.converted \/ operation = "convert"]

accepts(r) ==
    /\ inboxRequest[r].expected = inboxRecord.version
    /\ inboxRequest[r].operation = "convert" => ~inboxRecord.converted

(* A page that gave the request up does not hear of it. *)
answered(r, step) ==
    inboxRequest' = [inboxRequest EXCEPT ![r].arrives = FALSE,
                               ![r].step = IF @ = "sent" THEN step ELSE @]

arrived(r) == inboxRequest[r] # Unused /\ inboxRequest[r].arrives

execute(r) ==
    /\ arrived(r) /\ receipt[r] = Nothing
    /\ IF accepts(r)
       THEN /\ inboxRecord' = update(inboxRequest[r].operation)
            /\ workItems' = IF inboxRequest[r].operation = "convert" THEN workItems + 1 ELSE workItems
            /\ receipt' = [receipt EXCEPT ![r] = inboxRecord']
            /\ answered(r, "answered")
       ELSE answered(r, "refused") /\ UNCHANGED server
    /\ UNCHANGED <<inboxShown, inboxPoll, reload, notices, inboxPending>>

replay(r) ==
    /\ arrived(r) /\ receipt[r] # Nothing
    /\ answered(r, "answered")
    /\ UNCHANGED <<server, inboxShown, inboxPoll, reload, notices, inboxPending>>

-----------------------------------------------------------------------------

(* The poll on its way is cancelled, and a newer record stays. *)
confirm(p, row) == IF inboxShown[p].version > row.version THEN inboxShown[p] ELSE row

over(r) ==
    /\ inboxRequest' = [inboxRequest EXCEPT ![r].step = "over"]
    /\ inboxPending' = [inboxPending EXCEPT ![inboxRequest[r].by] = FALSE]

applyConfirmedInboxItem(r) ==
    LET p == inboxRequest[r].by IN
    /\ inboxRequest[r].step = "answered"
    /\ inboxShown' = [inboxShown EXCEPT ![p] = confirm(p, receipt[r])]
    /\ inboxPoll' = [inboxPoll EXCEPT ![p] = Nothing]
    /\ undo' = [undo EXCEPT ![p] = IF inboxRequest[r].operation = "done"
                                   THEN receipt[r].version ELSE Nothing.version]
    /\ over(r)
    /\ UNCHANGED <<server, reload, conflict>>

reportConflict(r) ==
    /\ inboxRequest[r].step = "refused"
    /\ conflict' = [conflict EXCEPT ![inboxRequest[r].by] = inboxRequest[r].operation]
    /\ over(r)
    /\ UNCHANGED <<server, inboxShown, inboxPoll, reload, undo>>

startPoll(p) ==
    /\ inboxPoll[p] = Nothing
    /\ inboxPoll' = [inboxPoll EXCEPT ![p] = inboxRecord]
    /\ UNCHANGED <<server, inboxShown, reload, notices, inboxPending, inboxRequest>>

finishPoll(p) ==
    /\ inboxPoll[p] # Nothing
    /\ inboxShown' = [inboxShown EXCEPT ![p] = inboxPoll[p]]
    /\ inboxPoll' = [inboxPoll EXCEPT ![p] = Nothing]
    /\ UNCHANGED <<server, reload, notices, inboxPending, inboxRequest>>

(* "Load latest" and "reapply" both read the list again. *)
startReload(p) ==
    /\ conflict[p] # "none" /\ reload[p] = Nothing
    /\ reload' = [reload EXCEPT ![p] = [row |-> inboxRecord, operation |-> conflict[p]]]
    /\ UNCHANGED <<server, inboxShown, inboxPoll, notices, inboxPending, inboxRequest>>

(* "Load latest", whose notice takes the place of the one that offers an     *)
(* undo, or "reapply": again as a request, or nothing for a record that was  *)
(* converted meanwhile.                                                      *)
reapply(p) ==
    \/ /\ undo' = [undo EXCEPT ![p] = Nothing.version]
       /\ UNCHANGED <<inboxRequest, inboxPending>>
    \/ /\ reload[p].operation = "convert" => ~reload[p].row.converted
       /\ \E r \in InboxRequest : act(p, r, reload[p].operation, reload[p].row.version)
       /\ UNCHANGED undo
    \/ /\ reload[p].operation = "convert" /\ reload[p].row.converted
       /\ UNCHANGED <<undo, inboxRequest, inboxPending>>

(* The cache takes the list as it came, whatever the page shows by now. *)
reconcileInboxConflict(p) ==
    /\ reload[p] # Nothing
    /\ inboxShown' = [inboxShown EXCEPT ![p] = reload[p].row]
    /\ inboxPoll' = [inboxPoll EXCEPT ![p] = Nothing]
    /\ reload' = [reload EXCEPT ![p] = Nothing]
    /\ conflict' = [conflict EXCEPT ![p] = "none"]
    /\ reapply(p)
    /\ UNCHANGED server

failReading(p) ==
    /\ \/ inboxPoll' = [inboxPoll EXCEPT ![p] = Nothing] /\ UNCHANGED reload
       \/ reload' = [reload EXCEPT ![p] = Nothing] /\ UNCHANGED inboxPoll
    /\ UNCHANGED <<server, inboxShown, notices, inboxPending, inboxRequest>>

InboxNext ==
    \/ \E p \in Page : \/ startPoll(p) \/ finishPoll(p) \/ startReload(p)
                       \/ reconcileInboxConflict(p) \/ failReading(p)
    \/ \E p \in Page, r \in InboxRequest : press(p, r)
    \/ \E r \in InboxRequest : \/ fail(r) \/ execute(r) \/ replay(r)
                          \/ applyConfirmedInboxItem(r) \/ reportConflict(r)

InboxSpec == InboxInit /\ [][InboxNext]_inboxVars

(* A page that is open polls, and a poll is answered again and again. *)
InboxFairness ==
    /\ \A p \in Page : WF_inboxVars(startPoll(p)) /\ SF_inboxVars(finishPoll(p))
    /\ \A r \in InboxRequest : WF_inboxVars(execute(r)) /\ WF_inboxVars(replay(r))

FairInboxSpec == InboxSpec /\ InboxFairness

-----------------------------------------------------------------------------
InboxTypeOK ==
    /\ inboxRecord \in InboxRow /\ inboxShown \in [Page -> InboxRow]
    /\ workItems \in 0..1
    /\ inboxPoll \in [Page -> InboxRow \cup {Nothing}]
    /\ reload \in [Page -> [row : InboxRow, operation : Operation] \cup {Nothing}]
    /\ conflict \in [Page -> Operation \cup {"none"}]
    /\ undo \in [Page -> -1..MaxVersion] /\ inboxPending \in [Page -> BOOLEAN]
    /\ inboxRequest \in [InboxRequest -> Action \cup {Unused}]
    /\ receipt \in [InboxRequest -> InboxRow \cup {Nothing}]

(* A captured record becomes one work item, whoever asks for it how often,   *)
(* and is converted if and only if there is that item.                       *)
OneWorkItem == workItems = IF inboxRecord.converted THEN 1 ELSE 0

(* What the user is told of an action is what it did: the answer, replayed or *)
(* not, is the record one version after the one that the page showed.        *)
AnswersAreOwn ==
    \A r \in InboxRequest : receipt[r] # Nothing =>
        /\ receipt[r].version = inboxRequest[r].expected + 1
        /\ receipt[r].done = (inboxRequest[r].operation # "undo")
        /\ \A s \in InboxRequest \ {r} : receipt[s] # receipt[r]

(* A poll on its way, or an answer that comes late, never takes a page back   *)
(* to an older record; only a load after a conflict can.                     *)
PollsNeverTakeBack ==
    [][\A p \in Page : reload'[p] = reload[p] =>
          inboxShown[p].version <= inboxShown'[p].version]_inboxVars

(* A captured record becomes one work item, whoever asks for it how often;   *)
(* what the user is told of an action is what it did, the record one version *)
(* after the one that the page showed; and a poll that comes late never      *)
(* takes a page back to an older record, only a load after a conflict can.   *)
InboxKept == [](InboxTypeOK /\ OneWorkItem /\ AnswersAreOwn) /\ PollsNeverTakeBack

(* "Publish acknowledged server records into the existing cache immediately,  *)
(* cancel obsolete reads": no page goes back to an older record.             *)
NeverTakenBack ==
    [][\A p \in Page : inboxShown[p].version <= inboxShown'[p].version]_inboxVars

(* An open page comes to show the record as it is, again and again. *)
PagesCatchUp == \A p \in Page : []<>(inboxShown[p] = inboxRecord)
=============================================================================
