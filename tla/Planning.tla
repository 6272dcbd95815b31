------------------------------ MODULE Planning -------------------------------
(***************************************************************************)
(* Projects, the cycles (sprints) that belong to them, and the tasks of a    *)
(* project with the cycle and the milestone each is planned for.  A command  *)
(* reads the rows it refers to in statements of their own, without a lock,   *)
(* and then writes one row, guarded by the version its sender saw.           *)
(***************************************************************************)
EXTENDS Integers, FiniteSets

CONSTANTS
    Board, Item, Request,
    Kinds,          \* the kinds of commands that are sent
    MaxVersion      \* bounds the versions of a row

ASSUME PlanningAssumption ==
    /\ Kinds \subseteq {"createBoard", "updateBoard", "createWorkItem", "updateWorkItem"}
    /\ MaxVersion \in Nat

VARIABLES board, item, job

vars == <<board, item, job>>

Nothing == "nothing"
Absent == [version |-> -1]
State == {"open", "completed"}      \* planned and active are treated alike
BoardRow(versions) ==
    [parent : Board \cup {Nothing}, state : State, version : versions]
WorkItem(versions) ==
    [project : Board, type : {"task", "milestone"}, cycle : Board \cup {Nothing},
     milestone : Item \cup {Nothing}, version : versions]

Job ==
    [step : {"unsent", "done"}] \cup
    [step : {"sent", "read", "inCycle", "valid"},
     kind : {"createBoard", "updateBoard", "createWorkItem", "updateWorkItem"},
     id : Board \cup Item \cup {Nothing},
     row : BoardRow(0..MaxVersion) \cup WorkItem(0..MaxVersion),
     previous : Board \cup {Nothing},
     checked : 0..MaxVersion]       \* history: the version of the cycle when it was checked

present(rows) == {id \in DOMAIN rows : rows[id] # Absent}

(* A board that belongs to another one has none of its own. *)
TwoLevels ==
    \A b \in present(board) : board[b].parent # Nothing =>
        /\ board[b].parent \in present(board)
        /\ board[board[b].parent].parent = Nothing

(* A task is planned for a cycle and a milestone of its own project. *)
PlanningStaysInProject ==
    \A i \in present(item) :
        /\ item[i].cycle # Nothing =>
              /\ item[i].cycle \in present(board)
              /\ board[item[i].cycle].parent = item[i].project
        /\ item[i].milestone # Nothing =>
              /\ item[i].milestone \in present(item) \ {i}
              /\ item[item[i].milestone].project = item[i].project
              /\ item[item[i].milestone].type = "milestone"

(* What earlier commands have left: any rows that agree with each other. *)
Init ==
    /\ board \in [Board -> BoardRow({0}) \cup {Absent}]
    /\ TwoLevels
    /\ item \in [Item -> WorkItem({0}) \cup {Absent}]
    /\ \A i \in present(item) : item[i].project \in present(board)
    /\ PlanningStaysInProject
    /\ job = [r \in Request |-> [step |-> "unsent"]]

-----------------------------------------------------------------------------
arrive(r, kind, id, row) ==
    /\ kind \in Kinds
    /\ job[r].step = "unsent"
    /\ job' = [job EXCEPT ![r] = [step |-> "sent", kind |-> kind, id |-> id, row |-> row,
                                  previous |-> Nothing, checked |-> 0]]
    /\ UNCHANGED <<board, item>>

(* A change carries the version that its sender saw; a row is made once. *)
sendBoard(r) ==
    \/ \E row \in BoardRow({0}) : arrive(r, "createBoard", Nothing, row)
    \/ \E b \in present(board) : \E row \in BoardRow({board[b].version}) :
          arrive(r, "updateBoard", b, row)

sendItem(r) ==
    \/ \E row \in WorkItem({0}) :
          row.project \in present(board) /\ arrive(r, "createWorkItem", Nothing, row)
    \/ \E i \in present(item) : \E row \in WorkItem({item[i].version}) :
          /\ row.project = item[i].project /\ row.type = item[i].type
          /\ arrive(r, "updateWorkItem", i, row)

go(r, step) == job' = [job EXCEPT ![r].step = step]
finish(r) == job' = [job EXCEPT ![r] = [step |-> "done"]]
unchanged == UNCHANGED <<board, item>>

at(r, kinds, step) == job[r].step = step /\ job[r].kind \in kinds

-----------------------------------------------------------------------------

sameParent(previous, row) == row.parent = previous.parent

readBoard(r) ==
    /\ unchanged
    /\ \/ at(r, {"createBoard"}, "sent") /\ go(r, "read")
       \/ /\ at(r, {"updateBoard"}, "sent")
          /\ LET previous == board[job[r].id] IN
             IF previous.version = job[r].row.version /\ sameParent(previous, job[r].row)
             THEN go(r, "read")
             ELSE finish(r)

validateBoardPlanning(r) ==
    LET parent == job[r].row.parent IN
    /\ at(r, {"createBoard", "updateBoard"}, "read")
    /\ unchanged
    /\ IF parent = Nothing \/ (/\ parent # job[r].id
                               /\ parent \in present(board)
                               /\ board[parent].parent = Nothing)
       THEN go(r, "valid")
       ELSE finish(r)

createBoard(r) ==
    /\ at(r, {"createBoard"}, "valid")
    /\ \E b \in Board \ present(board) : board' = [board EXCEPT ![b] = job[r].row]
    /\ finish(r)
    /\ UNCHANGED item

(* A wrong guard: the row is there. *)
unguarded(row, version) == row # Absent

(* The guard of the UPDATE: nobody has changed the row since the sender saw it. *)
guarded(row, version) == row.version = version

counted(row) == row.version + 1

updateBoard(r) ==
    LET b == job[r].id IN
    /\ at(r, {"updateBoard"}, "valid")
    /\ job[r].row.version < MaxVersion
    /\ board' = IF guarded(board[b], job[r].row.version)
                THEN [board EXCEPT ![b] = [job[r].row EXCEPT !.version = counted(board[b])]]
                ELSE board
    /\ finish(r)
    /\ UNCHANGED item

-----------------------------------------------------------------------------
readItem(r) ==
    /\ unchanged
    /\ \/ at(r, {"createWorkItem"}, "sent") /\ go(r, "read")
       \/ /\ at(r, {"updateWorkItem"}, "sent")
          /\ LET i == job[r].id IN
             IF item[i].version = job[r].row.version
             THEN job' = [job EXCEPT ![r].step = "read", ![r].previous = item[i].cycle]
             ELSE finish(r)

(* A wrong check: any cycle that is there. *)
anyCycle(row, previous) == row.cycle \in present(board) \cup {Nothing}

(* A completed cycle takes no task that was not in it. *)
validCycle(row, previous) ==
    \/ row.cycle = Nothing
    \/ /\ row.cycle \in present(board)
       /\ board[row.cycle].parent = row.project
       /\ board[row.cycle].state = "completed" => row.cycle = previous

validMilestone(row, id) ==
    \/ row.milestone = Nothing
    \/ /\ row.milestone \in present(item) \ {id}
       /\ item[row.milestone].project = row.project
       /\ item[row.milestone].type = "milestone"

versionOf(cycle) == IF cycle = Nothing THEN 0 ELSE board[cycle].version

validateCycle(r) ==
    /\ at(r, {"createWorkItem", "updateWorkItem"}, "read")
    /\ unchanged
    /\ IF validCycle(job[r].row, job[r].previous)
       THEN job' = [job EXCEPT ![r].step = "inCycle", ![r].checked = versionOf(job[r].row.cycle)]
       ELSE finish(r)

validateMilestone(r) ==
    /\ at(r, {"createWorkItem", "updateWorkItem"}, "inCycle")
    /\ unchanged
    /\ IF validMilestone(job[r].row, job[r].id) THEN go(r, "valid") ELSE finish(r)

createWorkItem(r) ==
    /\ at(r, {"createWorkItem"}, "valid")
    /\ \E i \in Item \ present(item) : item' = [item EXCEPT ![i] = job[r].row]
    /\ finish(r)
    /\ UNCHANGED board

updateWorkItem(r) ==
    LET i == job[r].id IN
    /\ at(r, {"updateWorkItem"}, "valid")
    /\ job[r].row.version < MaxVersion
    /\ item' = IF guarded(item[i], job[r].row.version)
               THEN [item EXCEPT ![i] = [job[r].row EXCEPT !.version = counted(item[i])]]
               ELSE item
    /\ finish(r)
    /\ UNCHANGED board

Next == \E r \in Request :
    \/ sendBoard(r) \/ readBoard(r) \/ validateBoardPlanning(r) \/ createBoard(r) \/ updateBoard(r)
    \/ sendItem(r) \/ readItem(r) \/ validateCycle(r) \/ validateMilestone(r)
    \/ createWorkItem(r) \/ updateWorkItem(r)

Spec == Init /\ [][Next]_vars

-----------------------------------------------------------------------------
TypeOK ==
    /\ board \in [Board -> BoardRow(0..MaxVersion) \cup {Absent}]
    /\ item \in [Item -> WorkItem(0..MaxVersion) \cup {Absent}]
    /\ job \in [Request -> Job]

(* What a step plans for a cycle that is completed, and was not in it.       *)
newInClosed ==
    {i \in present(item') :
        LET c == item'[i].cycle IN
        /\ c # Nothing /\ board[c].state = "completed"
        /\ i \in present(item) => item[i].cycle # c}

(* No step adds a task to a cycle that is completed. *)
NoNewWorkInClosed == [][newInClosed = {}]_vars

(* The command of r passed the check of its cycle, which was changed since.  *)
overtaken(r) ==
    /\ at(r, {"createWorkItem", "updateWorkItem"}, "valid") /\ job'[r].step = "done"
    /\ board[job[r].row.cycle].version > job[r].checked

comesIntoChecked ==
    \A i \in newInClosed : \E r \in Request :
        overtaken(r) /\ job[r].row.cycle = item'[i].cycle

(* A step adds a task to a completed cycle only when another command changed  *)
(* the cycle between the check and the write of the command that adds it.     *)
NewWorkIsChecked == [][comesIntoChecked]_vars

(* Boards and tasks form the two levels that every view relies on, inside one *)
(* project, whatever two commands move at once.                               *)
PlanningConsistent == TypeOK /\ TwoLevels /\ PlanningStaysInProject
=============================================================================
