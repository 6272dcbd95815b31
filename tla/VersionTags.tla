----------------------------- MODULE VersionTags -----------------------------
(***************************************************************************)
(* The settings of a workspace and the plan of a board have no counter for a  *)
(* version: the tag of a change is the time of the row's last one.  Times     *)
(* come from the clocks of several API processes, taken when a request        *)
(* begins; the table keeps them finer than the tag that clients are shown.    *)
(* A transaction may read the row in an earlier statement than it writes it.  *)
(***************************************************************************)
EXTENDS Integers

CONSTANTS
    Client,
    Value,
    Request,
    MaxTime         \* bounds the clocks and the tags, in milliseconds

ASSUME VersionTagsAssumption == MaxTime \in Nat

VARIABLES
    row,            \* the record; change counts its changes and is in no table
    page,           \* what each client has seen last
    job             \* each request and its transaction

vars == <<row, page, job>>

Time == 0..MaxTime

(* updatedAt is in halves of a millisecond here, in microseconds in the table. *)
Row == [updatedAt : 0..(2 * MaxTime + 1), value : Value, archived : BOOLEAN, change : Nat]
versionTag(record) == record.updatedAt \div 2

NoPage == [change |-> 0]
Unsent == [step |-> "unsent"]

(* now is the clock of the process that serves the request. *)
Sent == [step : {"sent", "checked", "refused", "aborted", "written"}, by : Client,
         expected : Time, now : Time, value : Value, archives : BOOLEAN, seen : Nat]

Init ==
    /\ row \in [updatedAt : 0..(2 * MaxTime + 1), value : Value, archived : {FALSE}, change : {1}]
    /\ page = [c \in Client |-> NoPage]
    /\ job = [r \in Request |-> Unsent]

-----------------------------------------------------------------------------
read(c) ==
    /\ ~row.archived
    /\ page' = [page EXCEPT ![c] = row]
    /\ UNCHANGED <<row, job>>

send(c, r, value, archives) ==
    /\ page[c] # NoPage /\ job[r] = Unsent
    /\ \E now \in Time :
          job' = [job EXCEPT ![r] = [step |-> "sent", by |-> c, expected |-> versionTag(page[c]),
                                     now |-> now, value |-> value, archives |-> archives,
                                     seen |-> page[c].change]]
    /\ UNCHANGED <<row, page>>

(* The same request again, perhaps by another process, and with its key. *)
retry(r) ==
    /\ job[r].step = "aborted"
    /\ \E now \in Time : job' = [job EXCEPT ![r].step = "sent", ![r].now = now]
    /\ UNCHANGED <<row, page>>

end(r, step) ==
    /\ job' = [job EXCEPT ![r].step = step]
    /\ UNCHANGED <<row, page>>

(* The first statement: the row is there.  A board compares tags here as well. *)
check(r) ==
    /\ job[r].step = "sent"
    /\ ~row.archived
    /\ end(r, "checked")

matchesVersionTimestamp(r) == versionTag(row) = job[r].expected

(* A wrong stamp: the time of the request. *)
requestedTimestamp(r) == job[r].now

monotonicTimestamp(r) ==
    IF job[r].now > job[r].expected THEN job[r].now ELSE job[r].expected + 1

(* The guarded update and the commit. *)
write(r) ==
    /\ job[r].step = "checked"
    /\ matchesVersionTimestamp(r) /\ ~row.archived
    /\ monotonicTimestamp(r) \in Time
    /\ row' = [updatedAt |-> 2 * monotonicTimestamp(r),
               value |-> IF job[r].archives THEN row.value ELSE job[r].value,
               archived |-> job[r].archives, change |-> row.change + 1]
    /\ job' = [job EXCEPT ![r].step = "written"]
    /\ UNCHANGED page

Refuse(r) ==
    /\ \/ job[r].step = "sent" /\ (row.archived \/ ~matchesVersionTimestamp(r))
       \/ job[r].step = "checked" /\ (row.archived \/ ~matchesVersionTimestamp(r))
    /\ end(r, "refused")

(* The connection or the process is lost before the commit. *)
Abort(r) ==
    /\ job[r].step \in {"sent", "checked"}
    /\ end(r, "aborted")

Next ==
    \/ \E c \in Client : read(c)
    \/ \E c \in Client, r \in Request, value \in Value, archives \in BOOLEAN :
          send(c, r, value, archives)
    \/ \E r \in Request : retry(r) \/ check(r) \/ write(r) \/ Refuse(r) \/ Abort(r)

Spec == Init /\ [][Next]_vars

-----------------------------------------------------------------------------
TypeOK ==
    /\ row \in Row
    /\ page \in [Client -> Row \cup {NoPage}]
    /\ job \in [Request -> {Unsent} \cup Sent]

(* Nobody is refused whose page shows the record as it is, whatever the finer *)
(* time in the table: a conflict always means that somebody changed it.       *)
ConflictsAreReal ==
    \A r \in Request : job[r].step = "refused" => job[r].seen < row.change

(* A tag that was shown to a client never comes back for another content,     *)
(* however far the clocks are apart.                                         *)
TagsNameContents ==
    \A c \in Client : page[c] # NoPage /\ versionTag(page[c]) = versionTag(row) => page[c] = row

Content == [value : Value, archived : BOOLEAN]
Allowed == {change \in Content \X Content : ~change[1].archived}

Promise == INSTANCE VersionedPromise WITH
    Value <- Content,
    value <- [value |-> row.value, archived |-> row.archived],
    version <- row.change,
    knows <- [c \in Client |-> page[c].change]

(* Whoever changes the record has it on the page as it is. *)
KeepsPromise == Promise!Spec

(* A tag stands for one content, and a conflict for somebody's change.        *)
TagsConsistent == TypeOK /\ ConflictsAreReal /\ TagsNameContents
=============================================================================
