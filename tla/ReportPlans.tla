---------------------------- MODULE ReportPlans ----------------------------
(***************************************************************************)
(* One report, log or plan, edited by its author on several devices.  The    *)
(* editor of a device works on the record it opened.  Saving and archiving    *)
(* are transactions that read the record, check it, and write it in a later  *)
(* statement guarded by the version the editor had.  A transaction may fail,  *)
(* its answer may be lost, and the editor may be reloaded while a request it  *)
(* no longer waits for still runs.                                           *)
(***************************************************************************)
EXTENDS Integers

CONSTANTS
    Device,
    Text,
    Request,        \* the requests sent, each with an idempotency key of its own
    MaxVersion      \* bounds the version in the model

ASSUME ReportPlansAssumption == MaxVersion \in Nat \ {0}

VARIABLES
    plan,           \* the row
    page,           \* what the editor of each device opened
    job,            \* each request and its transaction
    mayWrite,       \* the author is an active member who may write
    workspaceOpen   \* the workspace and its portfolio are not archived

vars == <<plan, page, job, mayWrite, workspaceOpen>>

Unpublished == 0

(* publishedAt is the version that published it; archived rows are kept. *)
Content == [state : {"draft", "published"}, text : Text, archived : BOOLEAN]
Plan == [version : 1..MaxVersion, publishedAt : 0..MaxVersion, content : Content]

NoPage == [version |-> 0]
Unsent == [step |-> "unsent"]

Sent == [step : {"sent", "refused", "aborted", "written"}, by : Device,
         expected : 1..MaxVersion, action : {"update", "archive"},
         state : {"draft", "published"}, text : Text]
Checked == [step : {"checked"}, by : Device,
            expected : 1..MaxVersion, action : {"update", "archive"},
            state : {"draft", "published"}, text : Text, current : Plan]

Ended == {"refused", "written"}

(* The first version is 1 here and 0 in the table: 0 is an editor with nothing open. *)
Init ==
    /\ \E state \in {"draft", "published"}, text \in Text :
          plan = [version |-> 1,
                  publishedAt |-> IF state = "published" THEN 1 ELSE Unpublished,
                  content |-> [state |-> state, text |-> text, archived |-> FALSE]]
    /\ page = [d \in Device |-> NoPage]
    /\ job = [r \in Request |-> Unsent]
    /\ mayWrite = TRUE /\ workspaceOpen = TRUE

-----------------------------------------------------------------------------
(* The editor opens the latest record, and again when it is reloaded. *)
openEditor(d) ==
    /\ workspaceOpen /\ ~plan.content.archived
    /\ page' = [page EXCEPT ![d] = plan]
    /\ UNCHANGED <<plan, job, mayWrite, workspaceOpen>>

save(d, r, state, text) ==
    /\ page[d] # NoPage /\ job[r] = Unsent
    /\ job' = [job EXCEPT ![r] = [step |-> "sent", by |-> d, expected |-> page[d].version,
                                  action |-> "update", state |-> state, text |-> text]]
    /\ UNCHANGED <<plan, page, mayWrite, workspaceOpen>>

archive(d, r) ==
    /\ page[d] # NoPage /\ job[r] = Unsent
    /\ job' = [job EXCEPT ![r] = [step |-> "sent", by |-> d, expected |-> page[d].version,
                                  action |-> "archive", state |-> page[d].content.state,
                                  text |-> page[d].content.text]]
    /\ UNCHANGED <<plan, page, mayWrite, workspaceOpen>>

(* A request without what its transaction had read. *)
forget(r, step) ==
    [step |-> step, by |-> job[r].by, expected |-> job[r].expected, action |-> job[r].action,
     state |-> job[r].state, text |-> job[r].text]

(* The same attempt again, with its key: what was written is only reported. *)
retry(r) ==
    /\ job[r].step = "aborted"
    /\ job' = [job EXCEPT ![r] = forget(r, "sent")]
    /\ UNCHANGED <<plan, page, mayWrite, workspaceOpen>>

-----------------------------------------------------------------------------
accepts(r) ==
    /\ mayWrite /\ workspaceOpen /\ ~plan.content.archived
    /\ job[r].action = "update" /\ plan.content.state = "published" => job[r].state = "published"

Refuse(r) ==
    /\ job[r].step = "sent" /\ ~accepts(r)
    /\ job' = [job EXCEPT ![r] = forget(r, "refused")]
    /\ UNCHANGED <<plan, page, mayWrite, workspaceOpen>>

(* The transaction reads the row and checks it, but not its version. *)
check(r) ==
    /\ job[r].step = "sent" /\ accepts(r)
    /\ job' = [job EXCEPT ![r] =
          [step |-> "checked", by |-> @.by, expected |-> @.expected, action |-> @.action,
           state |-> @.state, text |-> @.text, current |-> plan]]
    /\ UNCHANGED <<plan, page, mayWrite, workspaceOpen>>

(* A wrong write: a plan is published without a date. *)
writtenUndated(r) ==
    IF job[r].action = "archive"
    THEN [plan EXCEPT !.version = job[r].expected + 1, !.content.archived = TRUE]
    ELSE [version |-> job[r].expected + 1, publishedAt |-> job[r].current.publishedAt,
          content |-> [state |-> job[r].state, text |-> job[r].text,
                       archived |-> plan.content.archived]]

written(r) ==
    IF job[r].action = "archive"
    THEN [plan EXCEPT !.version = job[r].expected + 1, !.content.archived = TRUE]
    ELSE [version |-> job[r].expected + 1,
          publishedAt |-> IF job[r].current.publishedAt # Unpublished
                          THEN job[r].current.publishedAt
                          ELSE IF job[r].state = "published" THEN job[r].expected + 1
                          ELSE Unpublished,
          content |-> [state |-> job[r].state, text |-> job[r].text,
                       archived |-> plan.content.archived]]

(* A wrong write, of a row that is there, whatever was checked. *)
writeWhateverIsThere(r) ==
    /\ job[r].step = "checked" /\ ~plan.content.archived
    /\ job[r].expected < MaxVersion
    /\ workspaceOpen
    /\ plan' = written(r)
    /\ job' = [job EXCEPT ![r] = forget(r, "written")]
    /\ UNCHANGED <<page, mayWrite, workspaceOpen>>

(* A wrong guard: the version that was checked, not the one that was seen. *)
writeAsChecked(r) ==
    /\ job[r].step = "checked"
    /\ plan.version = job[r].current.version /\ ~plan.content.archived
    /\ job[r].expected < MaxVersion
    /\ workspaceOpen
    /\ plan' = written(r)
    /\ job' = [job EXCEPT ![r] = forget(r, "written")]
    /\ UNCHANGED <<page, mayWrite, workspaceOpen>>

(* The guarded update, the read of what it wrote, the audit row, the commit. *)
write(r) ==
    /\ job[r].step = "checked"
    /\ plan.version = job[r].expected /\ ~plan.content.archived
    /\ job[r].expected < MaxVersion
    /\ workspaceOpen
    /\ plan' = written(r)
    /\ job' = [job EXCEPT ![r] = forget(r, "written")]
    /\ UNCHANGED <<page, mayWrite, workspaceOpen>>

reportConflict(r) ==
    /\ job[r].step = "checked"
    /\ plan.version # job[r].expected \/ plan.content.archived \/ ~workspaceOpen
    /\ job' = [job EXCEPT ![r] = forget(r, "refused")]
    /\ UNCHANGED <<plan, page, mayWrite, workspaceOpen>>

(* The connection or the process is lost before the commit. *)
Abort(r) ==
    /\ job[r].step \in {"sent", "checked"}
    /\ job' = [job EXCEPT ![r] = forget(r, "aborted")]
    /\ UNCHANGED <<plan, page, mayWrite, workspaceOpen>>

LoseRole ==
    /\ mayWrite' = FALSE
    /\ UNCHANGED <<plan, page, job, workspaceOpen>>

ArchiveWorkspace ==
    /\ workspaceOpen' = FALSE
    /\ UNCHANGED <<plan, page, job, mayWrite>>

Next ==
    \/ \E d \in Device : openEditor(d)
    \/ \E d \in Device, r \in Request :
          \/ archive(d, r)
          \/ \E state \in {"draft", "published"}, text \in Text : save(d, r, state, text)
    \/ \E r \in Request :
          retry(r) \/ Refuse(r) \/ check(r) \/ write(r) \/ reportConflict(r) \/ Abort(r)
    \/ LoseRole \/ ArchiveWorkspace

Spec == Init /\ [][Next]_vars

-----------------------------------------------------------------------------
TypeOK ==
    /\ plan \in Plan
    /\ page \in [Device -> Plan \cup {NoPage}]
    /\ job \in [Request -> {Unsent} \cup Sent \cup Checked]
    /\ mayWrite \in BOOLEAN /\ workspaceOpen \in BOOLEAN

(* The row never breaks the table's check on state and date of publication,  *)
(* although the date is taken from an earlier read: no save ends in an error *)
(* of the database, or shows an update as published at no time.              *)
PublishedHasItsDate ==
    (plan.content.state = "published") <=> (plan.publishedAt # Unpublished)

(* "Published updates stay shared": whatever draft another device still      *)
(* saves, and when it was first published is never restated.                 *)
PublishedStaysShared ==
    [][plan.content.state = "published" =>
          plan'.content.state = "published" /\ plan'.publishedAt = plan.publishedAt]_plan

Allowed == {change \in Content \X Content :
    /\ ~change[1].archived
    /\ change[1].state = "published" => change[2].state = "published"}

Promise == INSTANCE VersionedPromise WITH
    Client <- Device, Value <- Content,
    value <- plan.content, version <- plan.version,
    knows <- [d \in Device |-> page[d].version]

(* Reads, retries and lost requests aside, the author changes the record on  *)
(* a device that shows it as it is, and not once it is archived.             *)
KeepsPromise == Promise!Spec

(* The row keeps the table's check between state and date.                    *)
PlansConsistent == TypeOK /\ PublishedHasItsDate
=============================================================================
