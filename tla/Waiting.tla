------------------------------ MODULE Waiting ------------------------------
(***************************************************************************)
(* Waiting records of one work item.  A request carries the versions its      *)
(* page showed and runs as a transaction of several statements, each of which *)
(* may have to wait for a row lock: starting to wait locks the item and then  *)
(* meets the unique index of active records; an action on a record may update *)
(* the item, updates the record, and appends to the item's history, whose    *)
(* foreign key needs the item's row once more.                               *)
(***************************************************************************)
EXTENDS Integers, FiniteSets

CONSTANTS
    Record,
    WaitingRequest,
    MaxItemVersion,     \* bounds the version of the item in the model
    Nobody              \* no transaction

ASSUME WaitingAssumption == MaxItemVersion \in Nat /\ Nobody \notin WaitingRequest

VARIABLES
    itemVersion,    \* the committed version of the item
    record,         \* the committed records
    tx,             \* each request and how far its transaction is
    itemLock,       \* who holds the item's row, and whether to update or delete it
    keyShare,       \* who holds the item's key for a row that refers to it
    recordLock      \* who has written which record and not committed

waitingVars == <<itemVersion, record, tx, itemLock, keyShare, recordLock>>

NotSent == [step |-> "unsent"]
Over == {"committed", "refused", "failed"}
Running == {"sent", "itemLocked", "itemWritten", "recordWritten", "historyWritten"}

WaitingInit ==
    /\ itemVersion = 0
    /\ record = [w \in Record |-> [state |-> "none", version |-> 0]]
    /\ tx = [t \in WaitingRequest |-> NotSent]
    /\ itemLock = [by |-> Nobody, mode |-> "none"]
    /\ keyShare = {}
    /\ recordLock = [w \in Record |-> Nobody]

Active(w) == record[w].state = "active"

-----------------------------------------------------------------------------
(* The page the request comes from shows the item and its record. *)
Start(t) ==
    /\ tx[t] = NotSent
    /\ \E w \in Record :
          /\ record[w].state = "none"
          /\ tx' = [tx EXCEPT ![t] =
                [step |-> "sent", action |-> "start", record |-> w,
                 withItem |-> TRUE, itemVersion |-> itemVersion, version |-> 0]]
    /\ UNCHANGED <<itemVersion, record, itemLock, keyShare, recordLock>>

Act(t) ==
    /\ tx[t] = NotSent
    /\ \E w \in Record, action \in {"resolve", "reschedule"}, withItem \in BOOLEAN :
          /\ Active(w)
          /\ tx' = [tx EXCEPT ![t] =
                [step |-> "sent", action |-> action, record |-> w,
                 withItem |-> withItem, itemVersion |-> itemVersion,
                 version |-> record[w].version]]
    /\ UNCHANGED <<itemVersion, record, itemLock, keyShare, recordLock>>

(* The end of a transaction gives back its locks. *)
releaseLocks(t, step) ==
    /\ tx' = [tx EXCEPT ![t].step = step]
    /\ itemLock' = IF itemLock.by = t THEN [by |-> Nobody, mode |-> "none"] ELSE itemLock
    /\ keyShare' = keyShare \ {t}
    /\ recordLock' = [w \in Record |-> IF recordLock[w] = t THEN Nobody ELSE recordLock[w]]

refuseRequest(t) ==
    /\ releaseLocks(t, "refused")
    /\ UNCHANGED <<itemVersion, record>>

-----------------------------------------------------------------------------
(* Starting to wait: the item is locked as if to be deleted, which shuts out  *)
(* the rows that refer to it as well, and has the version expected.          *)
lockScopedWorkItems(t) ==
    /\ tx[t].step = "sent" /\ tx[t].action = "start"
    /\ itemLock.by = Nobody /\ keyShare = {}
    /\ IF itemVersion # tx[t].itemVersion THEN refuseRequest(t)
       ELSE /\ itemLock' = [by |-> t, mode |-> "forUpdate"]
            /\ tx' = [tx EXCEPT ![t].step = "itemLocked"]
            /\ UNCHANGED <<itemVersion, record, keyShare, recordLock>>

(* A wrong insert: it goes on only when nothing is in its way. *)
insertWhenResolved(t) ==
    /\ tx[t].step = "itemLocked"
    /\ ~\E w \in Record : Active(w) \/ recordLock[w] # Nobody
    /\ recordLock' = [recordLock EXCEPT ![tx[t].record] = t]
    /\ tx' = [tx EXCEPT ![t].step = "historyWritten"]
    /\ UNCHANGED <<itemVersion, record, itemLock, keyShare>>

(* The insert waits for a transaction that writes an active record, and does  *)
(* nothing if there is one then; the request is refused.                    *)
createWaiting(t) ==
    /\ tx[t].step = "itemLocked"
    /\ \A w \in Record : recordLock[w] = Nobody
    /\ \/ /\ \E w \in Record : Active(w)
          /\ refuseRequest(t)
       \/ /\ ~\E w \in Record : Active(w)
          /\ record[tx[t].record].state = "none"
          /\ recordLock' = [recordLock EXCEPT ![tx[t].record] = t]
          /\ tx' = [tx EXCEPT ![t].step = "historyWritten"]
          /\ UNCHANGED <<itemVersion, record, itemLock, keyShare>>
       \/ /\ record[tx[t].record].state # "none"   \* an identifier is never used twice
          /\ refuseRequest(t)

(* Acting on a record: with a new status, the item is updated first. *)
actOnItem(t) ==
    /\ tx[t].step = "sent" /\ tx[t].action # "start" /\ tx[t].withItem
    /\ IF ~Active(tx[t].record) THEN refuseRequest(t)
       ELSE /\ itemLock.by = Nobody
            /\ IF itemVersion # tx[t].itemVersion THEN refuseRequest(t)
               ELSE /\ itemLock' = [by |-> t, mode |-> "update"]
                    /\ tx' = [tx EXCEPT ![t].step = "itemWritten"]
                    /\ UNCHANGED <<itemVersion, record, keyShare, recordLock>>

actsOnRecord(t) ==
    \/ tx[t].step = "itemWritten"
    \/ tx[t].step = "sent" /\ tx[t].action # "start" /\ ~tx[t].withItem

(* A wrong guard: the version that the page showed does not count. *)
actOnActive(t) ==
    /\ actsOnRecord(t)
    /\ recordLock[tx[t].record] = Nobody
    /\ IF ~Active(tx[t].record) THEN refuseRequest(t)
       ELSE /\ recordLock' = [recordLock EXCEPT ![tx[t].record] = t]
            /\ tx' = [tx EXCEPT ![t].step = "recordWritten"]
            /\ UNCHANGED <<itemVersion, record, itemLock, keyShare>>

actOnWaiting(t) ==
    /\ actsOnRecord(t)
    /\ recordLock[tx[t].record] = Nobody
    /\ IF ~Active(tx[t].record) \/ record[tx[t].record].version # tx[t].version
       THEN refuseRequest(t)
       ELSE /\ recordLock' = [recordLock EXCEPT ![tx[t].record] = t]
            /\ tx' = [tx EXCEPT ![t].step = "recordWritten"]
            /\ UNCHANGED <<itemVersion, record, itemLock, keyShare>>

(* The history's row refers to the item: it needs the item's key. *)
appendWorkItemHistory(t) ==
    /\ tx[t].step = "recordWritten"
    /\ itemLock.mode = "forUpdate" => itemLock.by = t
    /\ keyShare' = keyShare \cup {t}
    /\ tx' = [tx EXCEPT ![t].step = "historyWritten"]
    /\ UNCHANGED <<itemVersion, record, itemLock, recordLock>>

Commit(t) ==
    /\ tx[t].step = "historyWritten"
    /\ itemVersion' = IF tx[t].withItem THEN itemVersion + 1 ELSE itemVersion
    /\ record' = [record EXCEPT ![tx[t].record] =
          CASE tx[t].action = "start" -> [state |-> "active", version |-> 0]
            [] tx[t].action = "resolve" -> [state |-> "resolved", version |-> @.version + 1]
            [] OTHER -> [state |-> @.state, version |-> @.version + 1]]
    /\ releaseLocks(t, "committed")

-----------------------------------------------------------------------------
(* Anyone else changes the item. *)
updateWaitedItem ==
    /\ itemVersion < MaxItemVersion /\ itemLock.by = Nobody
    /\ itemVersion' = itemVersion + 1
    /\ UNCHANGED <<record, tx, itemLock, keyShare, recordLock>>

WaitsFor(t) ==
    IF tx[t].step = "sent" /\ tx[t].withItem
    THEN {itemLock.by} \cup (IF tx[t].action = "start" THEN keyShare ELSE {})
    ELSE IF tx[t].step = "itemLocked" THEN {recordLock[w] : w \in Record}
    ELSE IF tx[t].step # "unsent" /\ actsOnRecord(t) THEN {recordLock[tx[t].record]}
    ELSE IF tx[t].step = "recordWritten" /\ itemLock.mode = "forUpdate" THEN {itemLock.by}
    ELSE {}

(* The database finds two transactions that wait for each other and fails one. *)
Deadlock(t) ==
    /\ \E u \in WaitsFor(t) \ {t, Nobody} : t \in WaitsFor(u)
    /\ releaseLocks(t, "failed")
    /\ UNCHANGED <<itemVersion, record>>

(* The connection is lost. *)
Rollback(t) ==
    /\ tx[t].step \in Running
    /\ releaseLocks(t, "failed")
    /\ UNCHANGED <<itemVersion, record>>

Step(t) ==
    \/ lockScopedWorkItems(t) \/ createWaiting(t)
    \/ actOnItem(t) \/ actOnWaiting(t) \/ appendWorkItemHistory(t)
    \/ Commit(t) \/ Deadlock(t)

WaitingNext ==
    \/ \E t \in WaitingRequest : Start(t) \/ Act(t) \/ Step(t) \/ Rollback(t)
    \/ updateWaitedItem

WaitingSpec == WaitingInit /\ [][WaitingNext]_waitingVars

(* The server goes on with every transaction, and the database finds deadlocks. *)
WaitingFairness == \A t \in WaitingRequest : WF_waitingVars(Step(t))

FairWaitingSpec == WaitingSpec /\ WaitingFairness

-----------------------------------------------------------------------------
Sent ==
    [step : Running \cup Over, action : {"start", "resolve", "reschedule"},
     record : Record, withItem : BOOLEAN, itemVersion : Nat, version : Nat]

WaitingTypeOK ==
    /\ itemVersion \in Nat
    /\ record \in [Record -> [state : {"none", "active", "resolved"}, version : Nat]]
    /\ tx \in [WaitingRequest -> {NotSent} \cup Sent]
    /\ itemLock \in [by : WaitingRequest \cup {Nobody}, mode : {"none", "update", "forUpdate"}]
    /\ keyShare \subseteq WaitingRequest
    /\ recordLock \in [Record -> WaitingRequest \cup {Nobody}]
    /\ \A t \in {itemLock.by} \cup keyShare \cup {recordLock[w] : w \in Record} :
          t = Nobody \/ tx[t].step \in Running

(* One thing at a time is waited for: the page of an item shows one record. *)
OneActivePerItem == Cardinality({w \in Record : Active(w)}) <= 1

(* A request changes the record, and the item, as its page showed them. *)
ActsOnWhatWasSeen ==
    [][\A t \in WaitingRequest :
          tx[t].step = "historyWritten" /\ tx'[t].step = "committed" =>
              /\ tx[t].withItem => itemVersion = tx[t].itemVersion
              /\ tx[t].action # "start" =>
                    Active(tx[t].record) /\ record[tx[t].record].version = tx[t].version]_waitingVars

(* One thing at a time is waited for: the page of an item shows one record;  *)
(* and a request changes the record, and the item, as its page showed them.  *)
WaitingKept ==
    /\ [](WaitingTypeOK /\ OneActivePerItem)
    /\ ActsOnWhatWasSeen

(* Every request ends, although starting and acting take their rows in       *)
(* opposite orders.                                                         *)
RequestsEnd == \A t \in WaitingRequest : tx[t].step # "unsent" ~> tx[t].step \in Over
=============================================================================
