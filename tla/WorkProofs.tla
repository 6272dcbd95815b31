----------------------------- MODULE WorkProofs ------------------------------
(***************************************************************************)
(* What a command about the work has read is still so when it writes, for    *)
(* three reasons: what planning relies on never changes (boards keep their   *)
(* parents, tasks their projects and types), a review is written by the      *)
(* version its page showed, and a portfolio or a waiting record by whoever   *)
(* holds the lock.  The search for a cycle of dependencies is not of this    *)
(* kind: what it found may have changed, but not within two steps of the     *)
(* items that are locked.                                                    *)
(***************************************************************************)
EXTENDS Planning, TaskReviews, Portfolios, Waiting, Dependencies, FiniteSetTheorems,
        WellFoundedInduction, TLAPS

(***************************************************************************)
(* Planning                                                                  *)
(***************************************************************************)
ActiveStep == {"sent", "read", "inCycle", "valid"}
BoardKinds == {"createBoard", "updateBoard"}
ItemKinds == {"createWorkItem", "updateWorkItem"}
ActiveJob ==
    [step : ActiveStep, kind : BoardKinds \cup ItemKinds, id : Board \cup Item \cup {Nothing},
     row : BoardRow(0..MaxVersion) \cup WorkItem(0..MaxVersion), previous : Board \cup {Nothing}, checked : 0..MaxVersion]

(* The rows a command is about, as long as it is under way. *)
Addressed(b, i, j) ==
    /\ j.kind \in BoardKinds => j.row \in BoardRow(0..MaxVersion)
    /\ j.kind \in ItemKinds => j.row \in WorkItem(0..MaxVersion)
    /\ j.kind = "updateBoard" => j.id \in present(b)
    /\ j.kind = "updateWorkItem" =>
          /\ j.id \in present(i)
          /\ j.row.project = i[j.id].project
          /\ j.row.type = i[j.id].type

ParentFound(b, j) ==
    /\ j.kind = "updateBoard" /\ j.step \in {"read", "valid"} =>
          j.row.parent = b[j.id].parent
    /\ j.kind = "createBoard" /\ j.step = "valid" /\ j.row.parent # Nothing =>
          j.row.parent \in present(b) /\ b[j.row.parent].parent = Nothing

CycleFound(b, j) ==
    j.kind \in ItemKinds /\ j.step \in {"inCycle", "valid"} /\ j.row.cycle # Nothing =>
        j.row.cycle \in present(b) /\ b[j.row.cycle].parent = j.row.project

MilestoneFound(i, j) ==
    j.kind \in ItemKinds /\ j.step = "valid" /\ j.row.milestone # Nothing =>
        /\ j.row.milestone \in present(i) \ {j.id}
        /\ i[j.row.milestone].project = j.row.project
        /\ i[j.row.milestone].type = "milestone"

StillSo(b, i, j) ==
    Addressed(b, i, j) /\ ParentFound(b, j) /\ CycleFound(b, j) /\ MilestoneFound(i, j)

PlanningInv ==
    /\ TypeOK /\ TwoLevels /\ PlanningStaysInProject
    /\ \A r \in Request : job[r].step \in ActiveStep => StillSo(board, item, job[r])

(* No row is taken away, or changed in what other rows rely on. *)
Kept(b, i, newB, newI) ==
    /\ \A x \in present(b) : x \in present(newB) /\ newB[x].parent = b[x].parent
    /\ \A x \in present(i) :
          /\ x \in present(newI)
          /\ newI[x].project = i[x].project
          /\ newI[x].type = i[x].type

-----------------------------------------------------------------------------
LEMMA RowsArePresent ==
    /\ \A row \in BoardRow(0..MaxVersion) : row # Absent
    /\ \A row \in WorkItem(0..MaxVersion) : row # Absent
BY PlanningAssumption DEF BoardRow, WorkItem, Absent

LEMMA JobIsUnderWay ==
    /\ ActiveJob \subseteq Job
    /\ \A j \in Job : j.step \in ActiveStep => j \in ActiveJob
    /\ [step |-> "done"] \in Job /\ [step |-> "unsent"] \in Job
BY DEF Job, ActiveJob, ActiveStep, BoardKinds, ItemKinds

(* A command finds again what it has read, whatever others wrote meanwhile. *)
LEMMA StillSoIsKept ==
    ASSUME NEW b, NEW i, NEW newB, NEW newI, NEW j,
           StillSo(b, i, j), Kept(b, i, newB, newI)
    PROVE  StillSo(newB, newI, j)
BY DEF StillSo, Addressed, ParentFound, CycleFound, MilestoneFound, Kept

-----------------------------------------------------------------------------
(* A step that only reads: what it read is so. *)
LEMMA Reads ==
    ASSUME PlanningInv, unchanged, NEW r \in Request, NEW k \in Job,
           job' = [job EXCEPT ![r] = k],
           k.step \in ActiveStep => StillSo(board, item, k)
    PROVE  PlanningInv'
<1>1. TypeOK' /\ TwoLevels' /\ PlanningStaysInProject'
  BY DEF PlanningInv, TypeOK, unchanged, TwoLevels, PlanningStaysInProject
<1>2. ASSUME NEW q \in Request, job'[q].step \in ActiveStep
      PROVE  StillSo(board', item', job'[q])
  <2>1. job'[q] = k \/ job'[q] = job[q]
    BY DEF PlanningInv, TypeOK
  <2>2. StillSo(board, item, job'[q])
    BY <1>2, <2>1 DEF PlanningInv
  <2> QED BY <2>2 DEF unchanged
<1> QED BY <1>1, <1>2 DEF PlanningInv

(* A step that writes and ends its command. *)
LEMMA Writes ==
    ASSUME PlanningInv, NEW r \in Request, finish(r), Kept(board, item, board', item'),
           board' \in [Board -> BoardRow(0..MaxVersion) \cup {Absent}],
           item' \in [Item -> WorkItem(0..MaxVersion) \cup {Absent}],
           TwoLevels', PlanningStaysInProject'
    PROVE  PlanningInv'
<1>1. job' \in [Request -> Job]
  BY JobIsUnderWay DEF PlanningInv, TypeOK, finish
<1>2. ASSUME NEW q \in Request, job'[q].step \in ActiveStep
      PROVE  StillSo(board', item', job'[q])
  <2>1. job'[q] = job[q]
    BY <1>2 DEF PlanningInv, TypeOK, finish, ActiveStep
  <2>2. StillSo(board, item, job[q])
    BY <1>2, <2>1 DEF PlanningInv
  <2>3. StillSo(board', item', job[q])
    BY <2>2, StillSoIsKept
  <2> QED BY <2>1, <2>3
<1> QED BY <1>1, <1>2 DEF PlanningInv, TypeOK

(* A command that is refused, or has read all it needs to, ends. *)
LEMMA Ends ==
    ASSUME PlanningInv, unchanged, NEW r \in Request, finish(r)
    PROVE  PlanningInv'
BY Reads, JobIsUnderWay DEF finish, ActiveStep

(* A command that is under way, and what the invariant says of it. *)
LEMMA InStep ==
    ASSUME PlanningInv, NEW r \in Request, NEW kinds \in SUBSET (BoardKinds \cup ItemKinds),
           NEW s \in ActiveStep, at(r, kinds, s)
    PROVE  /\ job[r] \in ActiveJob
           /\ job[r].step = s /\ job[r].kind \in kinds
           /\ StillSo(board, item, job[r])
<1>1. job[r] \in Job /\ job[r].step = s /\ job[r].kind \in kinds
  BY DEF PlanningInv, TypeOK, at
<1> QED BY <1>1, JobIsUnderWay DEF PlanningInv

(* The next step of a command that has read something: only the step changes. *)
LEMMA Advances ==
    ASSUME PlanningInv, unchanged, NEW r \in Request, job[r] \in ActiveJob,
           StillSo(board, item, job[r]), NEW s \in ActiveStep, go(r, s),
           ParentFound(board, [job[r] EXCEPT !.step = s]),
           CycleFound(board, [job[r] EXCEPT !.step = s]),
           MilestoneFound(item, [job[r] EXCEPT !.step = s])
    PROVE  PlanningInv'
<1> DEFINE k == [job[r] EXCEPT !.step = s]
<1>1. k \in ActiveJob
  BY DEF ActiveJob
<1>2. job' = [job EXCEPT ![r] = k]
  BY DEF go
<1>3. k.kind = job[r].kind /\ k.id = job[r].id /\ k.row = job[r].row
  BY DEF ActiveJob
<1>4. Addressed(board, item, k)
  BY <1>3 DEF StillSo, Addressed
<1>5. StillSo(board, item, k)
  BY <1>4 DEF StillSo
<1> QED BY <1>1, <1>2, <1>5, Reads, JobIsUnderWay

-----------------------------------------------------------------------------
LEMMA Arrives ==
    ASSUME PlanningInv, NEW r \in Request,
           NEW kind \in BoardKinds \cup ItemKinds, NEW id \in Board \cup Item \cup {Nothing},
           NEW row \in BoardRow(0..MaxVersion) \cup WorkItem(0..MaxVersion),
           arrive(r, kind, id, row),
           Addressed(board, item, [step |-> "sent", kind |-> kind, id |-> id, row |-> row,
                                   previous |-> Nothing, checked |-> 0])
    PROVE  PlanningInv'
<1> DEFINE k == [step |-> "sent", kind |-> kind, id |-> id, row |-> row, previous |-> Nothing, checked |-> 0]
<1>1. k \in ActiveJob
  BY PlanningAssumption DEF ActiveJob, ActiveStep
<1>2. StillSo(board, item, k)
  BY DEF StillSo, ParentFound, CycleFound, MilestoneFound
<1>3. job' = [job EXCEPT ![r] = k] /\ unchanged
  BY DEF arrive, unchanged
<1> QED BY <1>1, <1>2, <1>3, Reads, JobIsUnderWay

LEMMA SendBoard ==
    ASSUME PlanningInv, NEW r \in Request, sendBoard(r)
    PROVE  PlanningInv'
<1>1. CASE \E row \in BoardRow({0}) : arrive(r, "createBoard", Nothing, row)
  <2>1. PICK row \in BoardRow({0}) : arrive(r, "createBoard", Nothing, row)
    BY <1>1
  <2>2. row \in BoardRow(0..MaxVersion)
    BY PlanningAssumption DEF BoardRow
  <2>3. Addressed(board, item, [step |-> "sent", kind |-> "createBoard", id |-> Nothing,
                                row |-> row, previous |-> Nothing, checked |-> 0])
    BY <2>2 DEF Addressed, ItemKinds
  <2> QED BY <2>1, <2>2, <2>3, Arrives DEF BoardKinds
<1>2. CASE \E b \in present(board) : \E row \in BoardRow({board[b].version}) :
              arrive(r, "updateBoard", b, row)
  <2>0. PICK b \in present(board) : \E row \in BoardRow({board[b].version}) :
              arrive(r, "updateBoard", b, row)
    BY <1>2
  <2>1. PICK row \in BoardRow({board[b].version}) : arrive(r, "updateBoard", b, row)
    BY <2>0
  <2>2. b \in Board /\ board[b] \in BoardRow(0..MaxVersion)
    BY DEF PlanningInv, TypeOK, present
  <2>3. row \in BoardRow(0..MaxVersion)
    BY <2>2 DEF BoardRow
  <2>4. Addressed(board, item, [step |-> "sent", kind |-> "updateBoard", id |-> b,
                                row |-> row, previous |-> Nothing, checked |-> 0])
    BY <2>3 DEF Addressed, ItemKinds
  <2> QED BY <2>1, <2>2, <2>3, <2>4, Arrives DEF BoardKinds
<1> QED BY <1>1, <1>2 DEF sendBoard

LEMMA SendItem ==
    ASSUME PlanningInv, NEW r \in Request, sendItem(r)
    PROVE  PlanningInv'
<1>1. CASE \E row \in WorkItem({0}) :
              row.project \in present(board) /\ arrive(r, "createWorkItem", Nothing, row)
  <2>1. PICK row \in WorkItem({0}) : arrive(r, "createWorkItem", Nothing, row)
    BY <1>1
  <2>2. row \in WorkItem(0..MaxVersion)
    BY PlanningAssumption DEF WorkItem
  <2>3. Addressed(board, item, [step |-> "sent", kind |-> "createWorkItem", id |-> Nothing,
                                row |-> row, previous |-> Nothing, checked |-> 0])
    BY <2>2 DEF Addressed, BoardKinds
  <2> QED BY <2>1, <2>2, <2>3, Arrives DEF ItemKinds
<1>2. CASE \E i \in present(item) : \E row \in WorkItem({item[i].version}) :
              /\ row.project = item[i].project /\ row.type = item[i].type
              /\ arrive(r, "updateWorkItem", i, row)
  <2>0. PICK i \in present(item) : \E row \in WorkItem({item[i].version}) :
              /\ row.project = item[i].project /\ row.type = item[i].type
              /\ arrive(r, "updateWorkItem", i, row)
    BY <1>2
  <2>1. PICK row \in WorkItem({item[i].version}) :
              /\ row.project = item[i].project /\ row.type = item[i].type
              /\ arrive(r, "updateWorkItem", i, row)
    BY <2>0
  <2>2. i \in Item /\ item[i] \in WorkItem(0..MaxVersion)
    BY DEF PlanningInv, TypeOK, present
  <2>3. row \in WorkItem(0..MaxVersion)
    BY <2>2 DEF WorkItem
  <2>4. Addressed(board, item, [step |-> "sent", kind |-> "updateWorkItem", id |-> i,
                                row |-> row, previous |-> Nothing, checked |-> 0])
    BY <2>1, <2>3 DEF Addressed, BoardKinds
  <2> QED BY <2>1, <2>2, <2>3, <2>4, Arrives DEF ItemKinds
<1> QED BY <1>1, <1>2 DEF sendItem

-----------------------------------------------------------------------------
LEMMA ReadBoard ==
    ASSUME PlanningInv, NEW r \in Request, readBoard(r)
    PROVE  PlanningInv'
<1>0. unchanged
  BY DEF readBoard
<1>1. CASE at(r, {"createBoard"}, "sent") /\ go(r, "read")
  <2>1. /\ job[r] \in ActiveJob /\ job[r].kind = "createBoard"
        /\ StillSo(board, item, job[r])
    BY <1>1, InStep DEF BoardKinds, ActiveStep
  <2>2. /\ ParentFound(board, [job[r] EXCEPT !.step = "read"])
        /\ CycleFound(board, [job[r] EXCEPT !.step = "read"])
        /\ MilestoneFound(item, [job[r] EXCEPT !.step = "read"])
    BY <2>1 DEF ActiveJob, ParentFound, CycleFound, MilestoneFound, ItemKinds
  <2> QED BY <1>0, <1>1, <2>1, <2>2, Advances DEF ActiveStep
<1>2. CASE /\ at(r, {"updateBoard"}, "sent")
           /\ sameParent(board[job[r].id], job[r].row) /\ go(r, "read")
  <2>1. /\ job[r] \in ActiveJob /\ job[r].kind = "updateBoard"
        /\ StillSo(board, item, job[r])
    BY <1>2, InStep DEF BoardKinds, ActiveStep
  <2>2. /\ ParentFound(board, [job[r] EXCEPT !.step = "read"])
        /\ CycleFound(board, [job[r] EXCEPT !.step = "read"])
        /\ MilestoneFound(item, [job[r] EXCEPT !.step = "read"])
    BY <1>2, <2>1 DEF ActiveJob, ParentFound, CycleFound, MilestoneFound, ItemKinds, sameParent
  <2> QED BY <1>0, <1>2, <2>1, <2>2, Advances DEF ActiveStep
<1>3. CASE finish(r)
  BY <1>0, <1>3, Ends
<1> QED BY <1>1, <1>2, <1>3 DEF readBoard

LEMMA ValidateBoardPlanning ==
    ASSUME PlanningInv, NEW r \in Request, validateBoardPlanning(r)
    PROVE  PlanningInv'
<1>0. unchanged /\ at(r, BoardKinds, "read")
  BY DEF validateBoardPlanning, BoardKinds
<1>1. /\ job[r] \in ActiveJob /\ job[r].kind \in BoardKinds /\ job[r].step = "read"
      /\ StillSo(board, item, job[r])
  BY <1>0, InStep DEF ActiveStep
<1> DEFINE fits == job[r].row.parent = Nothing \/ (/\ job[r].row.parent # job[r].id
                                                  /\ job[r].row.parent \in present(board)
                                                  /\ board[job[r].row.parent].parent = Nothing)
<1>2. CASE fits /\ go(r, "valid")
  <2>1. /\ ParentFound(board, [job[r] EXCEPT !.step = "valid"])
        /\ CycleFound(board, [job[r] EXCEPT !.step = "valid"])
        /\ MilestoneFound(item, [job[r] EXCEPT !.step = "valid"])
    BY <1>1, <1>2
    DEF ActiveJob, StillSo, ParentFound, CycleFound, MilestoneFound, ItemKinds, BoardKinds
  <2> QED BY <1>0, <1>1, <1>2, <2>1, Advances DEF ActiveStep
<1>3. CASE finish(r)
  BY <1>0, <1>3, Ends
<1>4. IF fits THEN go(r, "valid") ELSE finish(r)
  BY DEF validateBoardPlanning
<1> HIDE DEF fits
<1> QED BY <1>2, <1>3, <1>4

LEMMA ReadItem ==
    ASSUME PlanningInv, NEW r \in Request, readItem(r)
    PROVE  PlanningInv'
<1>0. unchanged
  BY DEF readItem
<1>1. CASE at(r, {"createWorkItem"}, "sent") /\ go(r, "read")
  <2>1. /\ job[r] \in ActiveJob /\ job[r].kind = "createWorkItem"
        /\ StillSo(board, item, job[r])
    BY <1>1, InStep DEF ItemKinds, ActiveStep
  <2>2. /\ ParentFound(board, [job[r] EXCEPT !.step = "read"])
        /\ CycleFound(board, [job[r] EXCEPT !.step = "read"])
        /\ MilestoneFound(item, [job[r] EXCEPT !.step = "read"])
    BY <2>1 DEF ActiveJob, ParentFound, CycleFound, MilestoneFound
  <2> QED BY <1>0, <1>1, <2>1, <2>2, Advances DEF ActiveStep
<1>2. CASE /\ at(r, {"updateWorkItem"}, "sent")
           /\ job' = [job EXCEPT ![r].step = "read", ![r].previous = item[job[r].id].cycle]
  <2> DEFINE k == [job[r] EXCEPT !.step = "read", !.previous = item[job[r].id].cycle]
  <2>1. /\ job[r] \in ActiveJob /\ job[r].kind = "updateWorkItem"
        /\ StillSo(board, item, job[r])
    BY <1>2, InStep DEF ItemKinds, ActiveStep
  <2>2. item[job[r].id].cycle \in Board \cup {Nothing}
    BY <2>1 DEF StillSo, Addressed, present, PlanningInv, TypeOK, WorkItem
  <2>3. k \in ActiveJob
    BY <2>1, <2>2 DEF ActiveJob, ActiveStep
  <2>4. /\ k.step = "read" /\ k.kind = job[r].kind
        /\ k.id = job[r].id /\ k.row = job[r].row
    BY <2>1 DEF ActiveJob
  <2>5. StillSo(board, item, k)
    BY <2>1, <2>4 DEF StillSo, Addressed, ParentFound, CycleFound, MilestoneFound
  <2>6. job' = [job EXCEPT ![r] = k]
    BY <1>2
  <2> QED BY <1>0, <2>3, <2>5, <2>6, Reads, JobIsUnderWay
<1>3. CASE finish(r)
  BY <1>0, <1>3, Ends
<1> QED BY <1>1, <1>2, <1>3 DEF readItem

LEMMA ValidateCycle ==
    ASSUME PlanningInv, NEW r \in Request, validateCycle(r)
    PROVE  PlanningInv'
<1>0. unchanged /\ at(r, ItemKinds, "read")
  BY DEF validateCycle, ItemKinds
<1>1. /\ job[r] \in ActiveJob /\ job[r].kind \in ItemKinds
      /\ StillSo(board, item, job[r])
  BY <1>0, InStep DEF ActiveStep
<1> DEFINE seen == versionOf(job[r].row.cycle)
           k == [job[r] EXCEPT !.step = "inCycle", !.checked = seen]
<1>2. CASE validCycle(job[r].row, job[r].previous) /\ job' = [job EXCEPT ![r] = k]
  <2>1. seen \in 0..MaxVersion
    BY <1>2, PlanningAssumption
    DEF versionOf, validCycle, present, PlanningInv, TypeOK, BoardRow
  <2> HIDE DEF seen
  <2>2. k \in ActiveJob
    BY <1>1, <2>1 DEF ActiveStep, ActiveJob
  <2>3. /\ k.step = "inCycle" /\ k.kind = job[r].kind
        /\ k.id = job[r].id /\ k.row = job[r].row
    BY <1>1 DEF ActiveJob
  <2> HIDE DEF k
  <2>4. StillSo(board, item, k)
    BY <1>1, <1>2, <2>3
    DEF StillSo, Addressed, ParentFound, CycleFound, MilestoneFound, ItemKinds, validCycle
  <2> QED BY <1>0, <1>2, <2>2, <2>4, Reads, JobIsUnderWay
<1>3. CASE finish(r)
  BY <1>0, <1>3, Ends
<1> QED BY <1>2, <1>3 DEF validateCycle

LEMMA ValidateMilestone ==
    ASSUME PlanningInv, NEW r \in Request, validateMilestone(r)
    PROVE  PlanningInv'
<1>0. unchanged /\ at(r, ItemKinds, "inCycle")
  BY DEF validateMilestone, ItemKinds
<1>1. /\ job[r] \in ActiveJob /\ job[r].kind \in ItemKinds /\ job[r].step = "inCycle"
      /\ StillSo(board, item, job[r])
  BY <1>0, InStep DEF ActiveStep
<1>2. CASE validMilestone(job[r].row, job[r].id) /\ go(r, "valid")
  <2>1. /\ ParentFound(board, [job[r] EXCEPT !.step = "valid"])
        /\ CycleFound(board, [job[r] EXCEPT !.step = "valid"])
        /\ MilestoneFound(item, [job[r] EXCEPT !.step = "valid"])
    BY <1>1, <1>2
    DEF ActiveJob, StillSo, ParentFound, CycleFound, MilestoneFound, ItemKinds, validMilestone
  <2> QED BY <1>0, <1>1, <1>2, <2>1, Advances DEF ActiveStep
<1>3. CASE finish(r)
  BY <1>0, <1>3, Ends
<1> QED BY <1>2, <1>3 DEF validateMilestone

-----------------------------------------------------------------------------
LEMMA CreateBoard ==
    ASSUME PlanningInv, NEW r \in Request, createBoard(r)
    PROVE  PlanningInv'
<1>1. PICK x \in Board \ present(board) : board' = [board EXCEPT ![x] = job[r].row]
  BY DEF createBoard
<1>2. at(r, {"createBoard"}, "valid") /\ finish(r) /\ item' = item
  BY DEF createBoard
<1>3. /\ job[r].kind = "createBoard" /\ job[r].step = "valid"
      /\ StillSo(board, item, job[r])
  BY <1>2, InStep DEF BoardKinds, ActiveStep
<1> DEFINE row == job[r].row
<1>4. row \in BoardRow(0..MaxVersion)
  BY <1>3 DEF StillSo, Addressed, BoardKinds
<1>5. /\ board' \in [Board -> BoardRow(0..MaxVersion) \cup {Absent}]
      /\ item' \in [Item -> WorkItem(0..MaxVersion) \cup {Absent}]
  BY <1>1, <1>2, <1>4 DEF PlanningInv, TypeOK
<1>6. present(board') = present(board) \cup {x} /\ x \notin present(board)
  BY <1>1, <1>4, RowsArePresent DEF PlanningInv, TypeOK, present
<1>7. /\ board'[x] = row
      /\ \A b \in present(board) : board'[b] = board[b]
  BY <1>1, <1>6 DEF PlanningInv, TypeOK
<1>8. row.parent # Nothing => row.parent \in present(board) /\ board[row.parent].parent = Nothing
  BY <1>3 DEF StillSo, ParentFound
<1>9. Kept(board, item, board', item')
  BY <1>2, <1>6, <1>7 DEF Kept
<1>10. TwoLevels'
  BY <1>6, <1>7, <1>8 DEF PlanningInv, TwoLevels
<1>11. PlanningStaysInProject'
  BY <1>2, <1>6, <1>7 DEF PlanningInv, PlanningStaysInProject
<1> QED BY <1>2, <1>5, <1>9, <1>10, <1>11, Writes

LEMMA UpdateBoard ==
    ASSUME PlanningInv, NEW r \in Request, updateBoard(r)
    PROVE  PlanningInv'
<1> DEFINE b == job[r].id
           row == job[r].row
           new == [row EXCEPT !.version = counted(board[b])]
<1>1. /\ at(r, {"updateBoard"}, "valid") /\ finish(r) /\ item' = item
      /\ row.version < MaxVersion
      /\ board' = IF guarded(board[b], row.version) THEN [board EXCEPT ![b] = new] ELSE board
  BY DEF updateBoard
<1>2. /\ job[r].kind = "updateBoard" /\ job[r].step = "valid"
      /\ StillSo(board, item, job[r])
  BY <1>1, InStep DEF BoardKinds, ActiveStep
<1>3. row \in BoardRow(0..MaxVersion) /\ b \in present(board) /\ row.parent = board[b].parent
  BY <1>2 DEF StillSo, Addressed, ParentFound, BoardKinds
<1>4. CASE guarded(board[b], row.version)
  <2>1. counted(board[b]) \in 0..MaxVersion
    BY <1>1, <1>3, <1>4, PlanningAssumption DEF guarded, counted, BoardRow
  <2>2. new \in BoardRow(0..MaxVersion) /\ new.parent = board[b].parent
    BY <1>3, <2>1 DEF BoardRow
  <2>3. board' = [board EXCEPT ![b] = new] /\ b \in Board
    BY <1>1, <1>3, <1>4 DEF present, PlanningInv, TypeOK
  <2> HIDE DEF new, b
  <2>4. board' \in [Board -> BoardRow(0..MaxVersion) \cup {Absent}]
    BY <2>2, <2>3 DEF PlanningInv, TypeOK
  <2>5. present(board') = present(board)
    BY <1>3, <2>2, <2>3, RowsArePresent DEF PlanningInv, TypeOK, present
  <2>6. \A x \in present(board) : board'[x].parent = board[x].parent
    BY <2>2, <2>3 DEF PlanningInv, TypeOK, present
  <2>7. Kept(board, item, board', item')
    BY <1>1, <2>5, <2>6 DEF Kept
  <2>8. TwoLevels'
    BY <2>5, <2>6 DEF PlanningInv, TwoLevels
  <2>9. PlanningStaysInProject'
    BY <1>1, <2>5, <2>6 DEF PlanningInv, PlanningStaysInProject
  <2>10. item' \in [Item -> WorkItem(0..MaxVersion) \cup {Absent}]
    BY <1>1 DEF PlanningInv, TypeOK
  <2> QED BY <1>1, <2>4, <2>7, <2>8, <2>9, <2>10, Writes
<1>5. CASE ~guarded(board[b], row.version)
  BY <1>1, <1>5, Ends DEF unchanged
<1> QED BY <1>4, <1>5

-----------------------------------------------------------------------------
LEMMA CreateWorkItem ==
    ASSUME PlanningInv, NEW r \in Request, createWorkItem(r)
    PROVE  PlanningInv'
<1>1. PICK x \in Item \ present(item) : item' = [item EXCEPT ![x] = job[r].row]
  BY DEF createWorkItem
<1>2. at(r, {"createWorkItem"}, "valid") /\ finish(r) /\ board' = board
  BY DEF createWorkItem
<1>3. /\ job[r].kind = "createWorkItem" /\ job[r].step = "valid"
      /\ StillSo(board, item, job[r])
  BY <1>2, InStep DEF ItemKinds, ActiveStep
<1> DEFINE row == job[r].row
<1>4. row \in WorkItem(0..MaxVersion)
  BY <1>3 DEF StillSo, Addressed, ItemKinds
<1>5. /\ board' \in [Board -> BoardRow(0..MaxVersion) \cup {Absent}]
      /\ item' \in [Item -> WorkItem(0..MaxVersion) \cup {Absent}]
  BY <1>1, <1>2, <1>4 DEF PlanningInv, TypeOK
<1>6. present(item') = present(item) \cup {x} /\ x \notin present(item)
  BY <1>1, <1>4, RowsArePresent DEF PlanningInv, TypeOK, present
<1>7. /\ item'[x] = row
      /\ \A i \in present(item) : item'[i] = item[i]
  BY <1>1, <1>6 DEF PlanningInv, TypeOK
<1>8. /\ row.cycle # Nothing =>
            row.cycle \in present(board) /\ board[row.cycle].parent = row.project
      /\ row.milestone # Nothing =>
            /\ row.milestone \in present(item)
            /\ item[row.milestone].project = row.project
            /\ item[row.milestone].type = "milestone"
  BY <1>3 DEF StillSo, CycleFound, MilestoneFound, ItemKinds
<1>9. Kept(board, item, board', item')
  BY <1>2, <1>6, <1>7 DEF Kept
<1>10. TwoLevels'
  BY <1>2 DEF PlanningInv, TwoLevels
<1>11. PlanningStaysInProject'
  BY <1>2, <1>6, <1>7, <1>8 DEF PlanningInv, PlanningStaysInProject
<1> QED BY <1>2, <1>5, <1>9, <1>10, <1>11, Writes

LEMMA UpdateWorkItem ==
    ASSUME PlanningInv, NEW r \in Request, updateWorkItem(r)
    PROVE  PlanningInv'
<1> DEFINE i == job[r].id
           row == job[r].row
           new == [row EXCEPT !.version = counted(item[i])]
<1>1. /\ at(r, {"updateWorkItem"}, "valid") /\ finish(r) /\ board' = board
      /\ row.version < MaxVersion
      /\ item' = IF guarded(item[i], row.version) THEN [item EXCEPT ![i] = new] ELSE item
  BY DEF updateWorkItem
<1>2. /\ job[r].kind = "updateWorkItem" /\ job[r].step = "valid"
      /\ StillSo(board, item, job[r])
  BY <1>1, InStep DEF ItemKinds, ActiveStep
<1>3. /\ row \in WorkItem(0..MaxVersion) /\ i \in present(item)
      /\ row.project = item[i].project /\ row.type = item[i].type
  BY <1>2 DEF StillSo, Addressed, ItemKinds
<1>4. CASE guarded(item[i], row.version)
  <2>1. counted(item[i]) \in 0..MaxVersion
    BY <1>1, <1>3, <1>4, PlanningAssumption DEF guarded, counted, WorkItem
  <2>2. /\ new \in WorkItem(0..MaxVersion)
        /\ new.project = item[i].project /\ new.type = item[i].type
        /\ new.cycle = row.cycle /\ new.milestone = row.milestone
    BY <1>3, <2>1 DEF WorkItem
  <2>3. /\ new.cycle # Nothing =>
              new.cycle \in present(board) /\ board[new.cycle].parent = new.project
        /\ new.milestone # Nothing =>
              /\ new.milestone \in present(item) \ {i}
              /\ item[new.milestone].project = new.project
              /\ item[new.milestone].type = "milestone"
    <3>1. new.project = row.project
      BY <1>3, <2>2
    <3> HIDE DEF new
    <3> QED BY <1>2, <2>2, <3>1 DEF StillSo, CycleFound, MilestoneFound, ItemKinds
  <2>4. item' = [item EXCEPT ![i] = new] /\ i \in Item
    BY <1>1, <1>3, <1>4 DEF present, PlanningInv, TypeOK
  <2> HIDE DEF new, i
  <2>5. item' \in [Item -> WorkItem(0..MaxVersion) \cup {Absent}]
    BY <2>2, <2>4 DEF PlanningInv, TypeOK
  <2>6. present(item') = present(item)
    BY <1>3, <2>2, <2>4, RowsArePresent DEF PlanningInv, TypeOK, present
  <2>7. /\ item'[i] = new
        /\ \A x \in present(item) : x # i => item'[x] = item[x]
        /\ \A x \in present(item) :
              item'[x].project = item[x].project /\ item'[x].type = item[x].type
    BY <2>2, <2>4 DEF PlanningInv, TypeOK, present
  <2>8. Kept(board, item, board', item')
    BY <1>1, <2>6, <2>7 DEF Kept
  <2>9. TwoLevels'
    BY <1>1 DEF PlanningInv, TwoLevels
  <2>10. PlanningStaysInProject'
    BY <1>1, <2>3, <2>6, <2>7 DEF PlanningInv, PlanningStaysInProject
  <2>11. board' \in [Board -> BoardRow(0..MaxVersion) \cup {Absent}]
    BY <1>1 DEF PlanningInv, TypeOK
  <2> QED BY <1>1, <2>5, <2>8, <2>9, <2>10, <2>11, Writes
<1>5. CASE ~guarded(item[i], row.version)
  BY <1>1, <1>5, Ends DEF unchanged
<1> QED BY <1>4, <1>5

-----------------------------------------------------------------------------
LEMMA PlanningInvInit == Init => PlanningInv
<1> SUFFICES ASSUME Init PROVE PlanningInv
  OBVIOUS
<1>1. BoardRow({0}) \subseteq BoardRow(0..MaxVersion) /\ WorkItem({0}) \subseteq WorkItem(0..MaxVersion)
  BY PlanningAssumption DEF BoardRow, WorkItem
<1>2. TypeOK
  BY <1>1, JobIsUnderWay DEF Init, TypeOK
<1>3. \A r \in Request : job[r].step \notin ActiveStep
  BY DEF Init, ActiveStep
<1> QED BY <1>2, <1>3 DEF Init, PlanningInv

LEMMA PlanningNextKeeps == PlanningInv /\ [Next]_vars => PlanningInv'
<1> SUFFICES ASSUME PlanningInv, [Next]_vars PROVE PlanningInv'
  OBVIOUS
<1>1. CASE UNCHANGED vars
  BY <1>1 DEF vars, PlanningInv, TypeOK, TwoLevels, PlanningStaysInProject
<1>2. ASSUME NEW r \in Request,
             \/ sendBoard(r) \/ readBoard(r) \/ validateBoardPlanning(r)
             \/ createBoard(r) \/ updateBoard(r)
             \/ sendItem(r) \/ readItem(r) \/ validateCycle(r) \/ validateMilestone(r)
             \/ createWorkItem(r) \/ updateWorkItem(r)
      PROVE  PlanningInv'
  BY <1>2, SendBoard, ReadBoard, ValidateBoardPlanning, CreateBoard, UpdateBoard,
     SendItem, ReadItem, ValidateCycle, ValidateMilestone, CreateWorkItem, UpdateWorkItem
<1> QED BY <1>1, <1>2 DEF Next

(* Boards, tasks and commands keep their shape, with any number of each. *)
THEOREM TypeCorrect == Spec => []TypeOK
<1>1. PlanningInv => TypeOK
  BY DEF PlanningInv
<1> QED BY PlanningInvInit, PlanningNextKeeps, <1>1, PTL DEF Spec

(* A cycle never becomes a project of other cycles, nor a project a cycle: the *)
(* parent that createBoard and updateBoard read without a lock cannot change.  *)
THEOREM ParentsAreProjects == Spec => []TwoLevels
<1>1. PlanningInv => TwoLevels
  BY DEF PlanningInv
<1> QED BY PlanningInvInit, PlanningNextKeeps, <1>1, PTL DEF Spec

(* A task is only ever planned for a cycle and a milestone of its own project, *)
(* although validateItemPlanning reads them before the task is written.        *)
THEOREM PlannedInProject == Spec => []PlanningStaysInProject
<1>1. PlanningInv => PlanningStaysInProject
  BY DEF PlanningInv
<1> QED BY PlanningInvInit, PlanningNextKeeps, <1>1, PTL DEF Spec

(* Boards and tasks keep their two levels, in one project.                     *)
THEOREM Consistent == Spec => []PlanningConsistent
  <1>1. TypeOK /\ TwoLevels /\ PlanningStaysInProject => PlanningConsistent
    BY DEF PlanningConsistent
  <1> QED BY TypeCorrect, ParentsAreProjects, PlannedInProject, <1>1, PTL

-----------------------------------------------------------------------------
(* What a command knows of the cycle that its task is to be planned for: as   *)
(* long as nobody changes the cycle, it stays as the command has checked it. *)
CycleStands(b, i, j) ==
    /\ j.kind = "createWorkItem" => j.previous = Nothing
    /\ j.kind = "updateWorkItem" => i[j.id].version >= j.row.version
    /\ /\ j.kind = "updateWorkItem" /\ j.step # "sent"
       /\ i[j.id].version = j.row.version
       => i[j.id].cycle = j.previous
    /\ j.kind \in ItemKinds /\ j.step \in {"inCycle", "valid"} /\ j.row.cycle # Nothing =>
          \/ b[j.row.cycle].version > j.checked
          \/ /\ b[j.row.cycle].version = j.checked
             /\ b[j.row.cycle].state = "completed" => j.row.cycle = j.previous

CyclesInv ==
    /\ PlanningInv
    /\ \A r \in Request : job[r].step \in ActiveStep => CycleStands(board, item, job[r])

(* A board and a task that are written have a later version. *)
Later(b, i, newB, newI) ==
    /\ \A x \in present(b) :
          \/ newB[x] = b[x]
          \/ newB[x].version > b[x].version
    /\ \A x \in present(i) :
          \/ newI[x] = i[x]
          \/ newI[x].version > i[x].version

-----------------------------------------------------------------------------
LEMMA CycleStandsIsKept ==
    ASSUME PlanningInv, PlanningInv', NEW r \in Request, job[r].step \in ActiveStep,
           CycleStands(board, item, job[r]),
           Kept(board, item, board', item'), Later(board, item, board', item')
    PROVE  CycleStands(board', item', job[r])
<1> DEFINE j == job[r]
<1>1. j \in ActiveJob /\ StillSo(board, item, j)
  BY JobIsUnderWay DEF PlanningInv, TypeOK
<1>2. ASSUME j.kind = "updateWorkItem"
      PROVE  /\ item'[j.id].version >= j.row.version
             /\ item'[j.id].version = j.row.version => item'[j.id] = item[j.id]
  <2>1. /\ j.id \in present(item) /\ j.id \in present(item') /\ j.row \in WorkItem(0..MaxVersion)
    BY <1>1, <1>2 DEF StillSo, Addressed, ItemKinds, Kept
  <2>2. /\ item[j.id].version \in Nat /\ item'[j.id].version \in Nat /\ j.row.version \in Nat
    BY <2>1, PlanningAssumption DEF PlanningInv, TypeOK, present, WorkItem
  <2>3. item'[j.id] = item[j.id] \/ item'[j.id].version > item[j.id].version
    BY <2>1 DEF Later
  <2> QED BY <1>2, <2>2, <2>3 DEF CycleStands
<1>3. ASSUME j.kind \in ItemKinds, j.step \in {"inCycle", "valid"}, j.row.cycle # Nothing
      PROVE  \/ board'[j.row.cycle].version > j.checked
             \/ board'[j.row.cycle] = board[j.row.cycle]
  <2>1. j.row.cycle \in present(board) /\ j.row.cycle \in present(board')
    BY <1>1, <1>3 DEF StillSo, CycleFound, Kept
  <2>2. /\ board[j.row.cycle].version \in Nat /\ board'[j.row.cycle].version \in Nat
        /\ j.checked \in Nat
    BY <1>1, <2>1, PlanningAssumption DEF PlanningInv, TypeOK, present, BoardRow, ActiveJob
  <2>3. \/ board'[j.row.cycle] = board[j.row.cycle]
        \/ board'[j.row.cycle].version > board[j.row.cycle].version
    BY <2>1 DEF Later
  <2>4. board[j.row.cycle].version >= j.checked
    BY <1>3, <2>2 DEF CycleStands
  <2> QED BY <2>2, <2>3, <2>4
<1> QED BY <1>2, <1>3 DEF CycleStands

(* A step that only reads, and one that writes and ends its command. *)
LEMMA ReadsOfCycle ==
    ASSUME CyclesInv, PlanningInv', unchanged, NEW r \in Request, NEW k,
           job' = [job EXCEPT ![r] = k],
           k.step \in ActiveStep => CycleStands(board, item, k)
    PROVE  CyclesInv'
<1> SUFFICES ASSUME NEW q \in Request, job'[q].step \in ActiveStep
             PROVE  CycleStands(board', item', job'[q])
  BY DEF CyclesInv
<1>1. job'[q] = k \/ job'[q] = job[q]
  BY DEF CyclesInv, PlanningInv, TypeOK
<1>2. CycleStands(board, item, job'[q])
  BY <1>1 DEF CyclesInv
<1> QED BY <1>2 DEF unchanged

LEMMA WritesOfCycle ==
    ASSUME CyclesInv, PlanningInv', NEW r \in Request, finish(r),
           Kept(board, item, board', item'), Later(board, item, board', item')
    PROVE  CyclesInv'
<1> SUFFICES ASSUME NEW q \in Request, job'[q].step \in ActiveStep
             PROVE  CycleStands(board', item', job'[q])
  BY DEF CyclesInv
<1>1. job'[q] = job[q]
  BY DEF CyclesInv, PlanningInv, TypeOK, finish, ActiveStep
<1> QED BY <1>1, CycleStandsIsKept DEF CyclesInv

LEMMA FinishesOfCycle ==
    ASSUME CyclesInv, PlanningInv', unchanged, NEW r \in Request, finish(r)
    PROVE  CyclesInv'
BY ReadsOfCycle DEF finish, ActiveStep

(* Only the step of a command changes. *)
LEMMA GoesOnInCycle ==
    ASSUME CyclesInv, PlanningInv', unchanged, NEW r \in Request, NEW s \in ActiveStep,
           NEW t \in ActiveStep, NEW kinds \in SUBSET (BoardKinds \cup ItemKinds),
           at(r, kinds, t), go(r, s), t # "sent" \/ "updateWorkItem" \notin kinds,
           s \in {"inCycle", "valid"} /\ job[r].kind \in ItemKinds => t = "inCycle"
    PROVE  CyclesInv'
<1> DEFINE k == [job[r] EXCEPT !.step = s]
<1>1. job' = [job EXCEPT ![r] = k]
  BY DEF go
<1>2. job[r] \in ActiveJob /\ job[r].step = t /\ job[r].kind \in kinds
  BY InStep DEF CyclesInv
<1>3. /\ k.step = s /\ k.kind = job[r].kind /\ k.row = job[r].row /\ k.id = job[r].id
      /\ k.previous = job[r].previous /\ k.checked = job[r].checked
  BY <1>2 DEF ActiveJob
<1>4. CycleStands(board, item, job[r])
  BY <1>2 DEF CyclesInv
<1> HIDE DEF k
<1>5. CycleStands(board, item, k)
  BY <1>2, <1>3, <1>4 DEF CycleStands
<1> QED BY <1>1, <1>5, ReadsOfCycle

LEMMA ArrivesInCycle ==
    ASSUME CyclesInv, PlanningInv', NEW r \in Request, NEW kind, NEW id, NEW row,
           arrive(r, kind, id, row),
           kind = "updateWorkItem" => id \in present(item) /\ row.version = item[id].version
    PROVE  CyclesInv'
<1> DEFINE k == [step |-> "sent", kind |-> kind, id |-> id, row |-> row, previous |-> Nothing, checked |-> 0]
<1>1. job' = [job EXCEPT ![r] = k] /\ unchanged
  BY DEF arrive, unchanged
<1>2. kind = "updateWorkItem" => item[id].version \in Nat
  BY PlanningAssumption DEF CyclesInv, PlanningInv, TypeOK, present, WorkItem
<1>3. kind = "updateWorkItem" => item[id].version >= row.version
  BY <1>2
<1>4. CycleStands(board, item, k)
  BY <1>1, <1>3 DEF CycleStands
<1> QED BY <1>1, <1>4, ReadsOfCycle

-----------------------------------------------------------------------------
LEMMA SendsKeepCycles ==
    ASSUME CyclesInv, PlanningInv', NEW r \in Request, sendBoard(r) \/ sendItem(r)
    PROVE  CyclesInv'
<1>1. CASE sendBoard(r)
  <2>1. PICK kind \in BoardKinds, id \in Board \cup {Nothing}, row \in BoardRow(Int) :
           arrive(r, kind, id, row)
    <3>1. CASE \E row \in BoardRow({0}) : arrive(r, "createBoard", Nothing, row)
      BY <3>1 DEF BoardRow, BoardKinds
    <3>2. CASE \E b \in present(board) : \E row \in BoardRow({board[b].version}) :
                  arrive(r, "updateBoard", b, row)
      <4>1. PICK b \in present(board) : \E row \in BoardRow({board[b].version}) :
                  arrive(r, "updateBoard", b, row)
        BY <3>2
      <4>2. PICK row \in BoardRow({board[b].version}) : arrive(r, "updateBoard", b, row)
        BY <4>1
      <4>3. b \in Board /\ board[b].version \in Int
        BY PlanningAssumption DEF CyclesInv, PlanningInv, TypeOK, present, BoardRow
      <4>4. row \in BoardRow(Int)
        BY <4>3 DEF BoardRow
      <4> QED BY <4>2, <4>3, <4>4 DEF BoardKinds
    <3> QED BY <1>1, <3>1, <3>2 DEF sendBoard
  <2>2. kind # "updateWorkItem"
    BY DEF BoardKinds
  <2> QED BY <2>1, <2>2, ArrivesInCycle
<1>2. CASE sendItem(r)
  <2>1. CASE \E row \in WorkItem({0}) :
                row.project \in present(board) /\ arrive(r, "createWorkItem", Nothing, row)
    BY <2>1, ArrivesInCycle
  <2>2. CASE \E i \in present(item) : \E row \in WorkItem({item[i].version}) :
                /\ row.project = item[i].project /\ row.type = item[i].type
                /\ arrive(r, "updateWorkItem", i, row)
    <3>1. PICK i \in present(item) : \E row \in WorkItem({item[i].version}) :
                arrive(r, "updateWorkItem", i, row)
      BY <2>2
    <3>2. PICK row \in WorkItem({item[i].version}) : arrive(r, "updateWorkItem", i, row)
      BY <3>1
    <3>3. row.version = item[i].version
      BY DEF WorkItem
    <3> QED BY <3>2, <3>3, ArrivesInCycle
  <2> QED BY <1>2, <2>1, <2>2 DEF sendItem
<1> QED BY <1>1, <1>2

LEMMA BoardStepsKeepCycles ==
    ASSUME CyclesInv, PlanningInv', NEW r \in Request,
           readBoard(r) \/ validateBoardPlanning(r)
    PROVE  CyclesInv'
<1>1. unchanged
  BY DEF readBoard, validateBoardPlanning
<1>2. CASE finish(r)
  BY <1>1, <1>2, FinishesOfCycle
<1>3. CASE at(r, BoardKinds, "sent") /\ go(r, "read")
  <2>1. job[r].kind \notin ItemKinds
    BY <1>3 DEF at, BoardKinds, ItemKinds
  <2> QED BY <1>1, <1>3, <2>1, GoesOnInCycle DEF ActiveStep, BoardKinds
<1>4. CASE at(r, BoardKinds, "read") /\ go(r, "valid")
  <2>1. job[r].kind \notin ItemKinds
    BY <1>4 DEF at, BoardKinds, ItemKinds
  <2> QED BY <1>1, <1>4, <2>1, GoesOnInCycle DEF ActiveStep
<1> QED BY <1>2, <1>3, <1>4 DEF readBoard, validateBoardPlanning, at, BoardKinds

LEMMA ReadItemKeepsCycles ==
    ASSUME CyclesInv, PlanningInv', NEW r \in Request, readItem(r)
    PROVE  CyclesInv'
<1>1. unchanged
  BY DEF readItem
<1>2. CASE finish(r)
  BY <1>1, <1>2, FinishesOfCycle
<1>3. CASE at(r, {"createWorkItem"}, "sent") /\ go(r, "read")
  BY <1>1, <1>3, GoesOnInCycle DEF ActiveStep, ItemKinds
<1>4. CASE /\ at(r, {"updateWorkItem"}, "sent")
           /\ job' = [job EXCEPT ![r].step = "read", ![r].previous = item[job[r].id].cycle]
  <2> DEFINE k == [job[r] EXCEPT !.step = "read", !.previous = item[job[r].id].cycle]
  <2>1. job[r] \in ActiveJob /\ job[r].kind = "updateWorkItem" /\ job[r].step = "sent"
    BY <1>4, InStep DEF CyclesInv, ActiveStep, ItemKinds
  <2>2. /\ k.step = "read" /\ k.kind = "updateWorkItem" /\ k.row = job[r].row
        /\ k.id = job[r].id /\ k.previous = item[job[r].id].cycle
    BY <2>1 DEF ActiveJob
  <2>3. CycleStands(board, item, job[r])
    BY <2>1 DEF CyclesInv, ActiveStep
  <2>4. job' = [job EXCEPT ![r] = k]
    BY <1>4
  <2> HIDE DEF k
  <2>5. CycleStands(board, item, k)
    BY <2>1, <2>2, <2>3 DEF CycleStands
  <2> QED BY <1>1, <2>4, <2>5, ReadsOfCycle
<1> QED BY <1>2, <1>3, <1>4 DEF readItem

(* The version that was seen is that of a cycle that took the task then. *)
LEMMA ValidateCycleKeepsCycles ==
    ASSUME CyclesInv, PlanningInv', NEW r \in Request, validateCycle(r)
    PROVE  CyclesInv'
<1>1. unchanged /\ at(r, ItemKinds, "read")
  BY DEF validateCycle, ItemKinds
<1>2. CASE finish(r)
  BY <1>1, <1>2, FinishesOfCycle
<1> DEFINE seen == versionOf(job[r].row.cycle)
           k == [job[r] EXCEPT !.step = "inCycle", !.checked = seen]
<1>3. CASE validCycle(job[r].row, job[r].previous) /\ job' = [job EXCEPT ![r] = k]
  <2>1. job[r] \in ActiveJob /\ job[r].kind \in ItemKinds /\ job[r].step = "read"
    BY <1>1, InStep DEF CyclesInv, ActiveStep
  <2>2. /\ k.step = "inCycle" /\ k.kind = job[r].kind /\ k.id = job[r].id
        /\ k.row = job[r].row /\ k.previous = job[r].previous /\ k.checked = seen
    BY <2>1 DEF ActiveJob
  <2>3. job[r].row.cycle # Nothing =>
           /\ board[job[r].row.cycle].version = seen
           /\ board[job[r].row.cycle].state = "completed" =>
                 job[r].row.cycle = job[r].previous
    BY <1>3 DEF versionOf, validCycle
  <2>4. CycleStands(board, item, job[r])
    BY <2>1 DEF CyclesInv, ActiveStep
  <2> HIDE DEF k, seen
  <2>5. CycleStands(board, item, k)
    BY <2>1, <2>2, <2>3, <2>4 DEF CycleStands
  <2> QED BY <1>1, <1>3, <2>5, ReadsOfCycle
<1> QED BY <1>2, <1>3 DEF validateCycle

LEMMA ValidateMilestoneKeepsCycles ==
    ASSUME CyclesInv, PlanningInv', NEW r \in Request, validateMilestone(r)
    PROVE  CyclesInv'
<1>1. unchanged
  BY DEF validateMilestone
<1>2. CASE finish(r)
  BY <1>1, <1>2, FinishesOfCycle
<1>3. CASE at(r, ItemKinds, "inCycle") /\ go(r, "valid")
  BY <1>1, <1>3, GoesOnInCycle DEF ActiveStep
<1> QED BY <1>2, <1>3 DEF validateMilestone, ItemKinds

LEMMA CreateBoardKeepsCycles ==
    ASSUME CyclesInv, PlanningInv', NEW r \in Request, createBoard(r)
    PROVE  CyclesInv' /\ comesIntoChecked
<1>1. PICK x \in Board \ present(board) : board' = [board EXCEPT ![x] = job[r].row]
  BY DEF createBoard
<1>2. at(r, {"createBoard"}, "valid") /\ finish(r) /\ item' = item
  BY DEF createBoard
<1>3. \A b \in present(board) : board'[b] = board[b] /\ b \in present(board')
  BY <1>1 DEF CyclesInv, PlanningInv, TypeOK, present
<1>4. Kept(board, item, board', item') /\ Later(board, item, board', item')
  BY <1>2, <1>3 DEF Kept, Later
<1>5. comesIntoChecked
  BY <1>2 DEF comesIntoChecked, newInClosed
<1> QED BY <1>2, <1>4, <1>5, WritesOfCycle

LEMMA CreateWorkItemKeepsCycles ==
    ASSUME CyclesInv, PlanningInv', NEW r \in Request, createWorkItem(r)
    PROVE  CyclesInv' /\ comesIntoChecked
<1>1. PICK x \in Item \ present(item) : item' = [item EXCEPT ![x] = job[r].row]
  BY DEF createWorkItem
<1>2. at(r, {"createWorkItem"}, "valid") /\ finish(r) /\ board' = board
  BY DEF createWorkItem
<1>3. /\ \A i \in Item : i # x => item'[i] = item[i]
      /\ item'[x] = job[r].row /\ DOMAIN item = Item /\ DOMAIN item' = Item
  BY <1>1 DEF CyclesInv, PlanningInv, TypeOK
<1>4. \A i \in present(item) : item'[i] = item[i] /\ i \in present(item')
  BY <1>1, <1>3 DEF present
<1>5. Kept(board, item, board', item') /\ Later(board, item, board', item')
  BY <1>2, <1>4 DEF Kept, Later
<1>6. job[r].kind = "createWorkItem" /\ job[r].step = "valid"
        /\ CycleStands(board, item, job[r])
  BY <1>2 DEF at, CyclesInv, ActiveStep
<1>7. job'[r].step = "done"
  BY <1>2 DEF finish, CyclesInv, PlanningInv, TypeOK
<1>8. newInClosed \subseteq {x}
  BY <1>3 DEF newInClosed, present
<1>9. ASSUME x \in newInClosed PROVE overtaken(r)
  <2>1. /\ job[r].row.cycle # Nothing /\ board[job[r].row.cycle].state = "completed"
    BY <1>3, <1>9 DEF newInClosed
  <2>2. job[r].previous = Nothing
    BY <1>6 DEF CycleStands
  <2>3. board[job[r].row.cycle].version > job[r].checked
    BY <1>6, <2>1, <2>2 DEF CycleStands, ItemKinds
  <2> QED BY <1>2, <1>7, <2>3 DEF overtaken, at
<1>10. comesIntoChecked
  BY <1>3, <1>8, <1>9 DEF comesIntoChecked
<1> QED BY <1>2, <1>5, <1>10, WritesOfCycle

LEMMA UpdateWorkItemKeepsCycles ==
    ASSUME CyclesInv, PlanningInv', NEW r \in Request, updateWorkItem(r)
    PROVE  CyclesInv' /\ comesIntoChecked
<1> DEFINE i == job[r].id
           row == job[r].row
           new == [row EXCEPT !.version = counted(item[i])]
<1>1. /\ at(r, {"updateWorkItem"}, "valid") /\ finish(r) /\ board' = board
      /\ item' = IF guarded(item[i], row.version) THEN [item EXCEPT ![i] = new] ELSE item
  BY DEF updateWorkItem
<1>2. /\ job[r].kind = "updateWorkItem" /\ job[r].step = "valid"
      /\ StillSo(board, item, job[r]) /\ CycleStands(board, item, job[r])
  BY <1>1, InStep DEF CyclesInv, ItemKinds, ActiveStep
<1>3. /\ row \in WorkItem(0..MaxVersion) /\ i \in present(item)
      /\ row.project = item[i].project /\ row.type = item[i].type
  BY <1>2 DEF StillSo, Addressed, ItemKinds
<1>4. CASE guarded(item[i], row.version)
  <2>1. item[i].version \in Nat /\ item[i].version = row.version
    BY <1>3, <1>4, PlanningAssumption DEF guarded, WorkItem
  <2>2. /\ new.version = item[i].version + 1 /\ new.cycle = row.cycle
        /\ new.project = item[i].project /\ new.type = item[i].type
    BY <1>3 DEF WorkItem, counted
  <2>3. /\ \A j \in Item : j # i => item'[j] = item[j]
        /\ item'[i] = new /\ DOMAIN item = Item /\ DOMAIN item' = Item
    BY <1>1, <1>3, <1>4 DEF CyclesInv, PlanningInv, TypeOK, present
  <2> HIDE DEF new
  <2>4. new # Absent
    BY <2>1, <2>2 DEF Absent
  <2>5. present(item') = present(item)
    BY <1>3, <2>3, <2>4 DEF present
  <2>6. Later(board, item, board', item')
    BY <1>1, <2>1, <2>2, <2>3 DEF Later, present
  <2>7. Kept(board, item, board', item')
    BY <1>1, <2>2, <2>3, <2>5 DEF Kept, present
  <2>8. newInClosed \subseteq {i}
    BY <1>1, <2>3, <2>5 DEF newInClosed
  <2>9. ASSUME i \in newInClosed PROVE overtaken(r) /\ row.cycle = item'[i].cycle
    <3>1. /\ row.cycle # Nothing /\ board[row.cycle].state = "completed"
          /\ item[i].cycle # row.cycle
      BY <1>3, <2>2, <2>3, <2>9 DEF newInClosed
    <3>2. item[i].cycle = job[r].previous
      BY <1>2, <2>1 DEF CycleStands
    <3>3. board[row.cycle].version > job[r].checked
      BY <1>2, <3>1, <3>2 DEF CycleStands, ItemKinds
    <3>4. job'[r].step = "done"
      BY <1>1 DEF finish, CyclesInv, PlanningInv, TypeOK
    <3> QED BY <1>1, <2>2, <2>3, <3>3, <3>4 DEF overtaken, at
  <2>10. comesIntoChecked
    BY <2>8, <2>9 DEF comesIntoChecked
  <2> QED BY <1>1, <2>6, <2>7, <2>10, WritesOfCycle
<1>5. CASE ~guarded(item[i], row.version)
  <2>1. comesIntoChecked /\ unchanged
    BY <1>1, <1>5 DEF comesIntoChecked, newInClosed, unchanged
  <2> QED BY <1>1, <2>1, FinishesOfCycle
<1> QED BY <1>4, <1>5

(* A board that is written is a later one, and takes no task. *)
LEMMA UpdateBoardKeepsCycles ==
    ASSUME CyclesInv, PlanningInv', NEW r \in Request, updateBoard(r)
    PROVE  CyclesInv' /\ comesIntoChecked
<1> DEFINE b == job[r].id
           row == job[r].row
           new == [row EXCEPT !.version = counted(board[b])]
<1>1. /\ at(r, {"updateBoard"}, "valid") /\ finish(r) /\ item' = item
      /\ board' = IF guarded(board[b], row.version) THEN [board EXCEPT ![b] = new] ELSE board
  BY DEF updateBoard
<1>2. /\ job[r].kind = "updateBoard" /\ job[r].step = "valid" /\ StillSo(board, item, job[r])
  BY <1>1, InStep DEF CyclesInv, BoardKinds, ActiveStep
<1>3. /\ row \in BoardRow(0..MaxVersion) /\ b \in present(board)
      /\ row.parent = board[b].parent
  BY <1>2 DEF StillSo, Addressed, ParentFound, BoardKinds
<1>4. comesIntoChecked
  BY <1>1 DEF comesIntoChecked, newInClosed
<1>5. CASE guarded(board[b], row.version)
  <2>1. board[b].version \in Nat
    BY <1>3, PlanningAssumption DEF CyclesInv, PlanningInv, TypeOK, present, BoardRow
  <2>2. new.version = board[b].version + 1 /\ new.parent = board[b].parent
    BY <1>3 DEF BoardRow, counted
  <2>3. /\ \A x \in Board : x # b => board'[x] = board[x]
        /\ board'[b] = new /\ DOMAIN board = Board /\ DOMAIN board' = Board
    BY <1>1, <1>3, <1>5 DEF CyclesInv, PlanningInv, TypeOK, present
  <2> HIDE DEF new
  <2>4. new # Absent
    BY <2>1, <2>2 DEF Absent
  <2>5. Later(board, item, board', item')
    BY <1>1, <2>1, <2>2, <2>3 DEF Later, present
  <2>6. Kept(board, item, board', item')
    BY <1>1, <2>2, <2>3, <2>4 DEF Kept, present
  <2> QED BY <1>1, <1>4, <2>5, <2>6, WritesOfCycle
<1>6. CASE ~guarded(board[b], row.version)
  <2>1. unchanged
    BY <1>1, <1>6 DEF unchanged
  <2> QED BY <1>1, <1>4, <2>1, FinishesOfCycle
<1> QED BY <1>5, <1>6

LEMMA CyclesStep ==
    ASSUME CyclesInv, [Next]_vars
    PROVE  CyclesInv' /\ (comesIntoChecked \/ UNCHANGED vars)
<1>1. PlanningInv'
  BY PlanningNextKeeps DEF CyclesInv
<1>2. CASE UNCHANGED vars
  BY <1>1, <1>2 DEF vars, CyclesInv
<1>3. CASE Next
  <2> PICK r \in Request :
        \/ sendBoard(r) \/ readBoard(r) \/ validateBoardPlanning(r)
        \/ createBoard(r) \/ updateBoard(r)
        \/ sendItem(r) \/ readItem(r) \/ validateCycle(r) \/ validateMilestone(r)
        \/ createWorkItem(r) \/ updateWorkItem(r)
    BY <1>3 DEF Next
  <2>1. item' = item => comesIntoChecked
    BY DEF comesIntoChecked, newInClosed
  <2>2. CASE sendBoard(r) \/ sendItem(r)
    BY <1>1, <2>1, <2>2, SendsKeepCycles DEF sendBoard, sendItem, arrive
  <2>3. CASE readBoard(r) \/ validateBoardPlanning(r)
    BY <1>1, <2>1, <2>3, BoardStepsKeepCycles DEF readBoard, validateBoardPlanning, unchanged
  <2>4. CASE readItem(r)
    BY <1>1, <2>1, <2>4, ReadItemKeepsCycles DEF readItem, unchanged
  <2>5. CASE validateCycle(r)
    BY <1>1, <2>1, <2>5, ValidateCycleKeepsCycles DEF validateCycle, unchanged
  <2>6. CASE validateMilestone(r)
    BY <1>1, <2>1, <2>6, ValidateMilestoneKeepsCycles DEF validateMilestone, unchanged
  <2> QED BY <1>1, <2>2, <2>3, <2>4, <2>5, <2>6, CreateBoardKeepsCycles,
             UpdateBoardKeepsCycles, CreateWorkItemKeepsCycles, UpdateWorkItemKeepsCycles
<1> QED BY <1>2, <1>3

(* However many commands create, change and move boards and tasks at once: a  *)
(* task comes into a completed cycle only when the cycle was changed between  *)
(* the check and the write of its command (validateItemPlanning,              *)
(* createWorkItem, updateWorkItem).                                           *)
THEOREM NewWorkIsCheckedAlways == Spec => NewWorkIsChecked
<1>1. Init => CyclesInv
  BY PlanningInvInit DEF Init, CyclesInv, ActiveStep
<1>2. CyclesInv /\ [Next]_vars => CyclesInv' /\ [comesIntoChecked]_vars
  BY CyclesStep
<1> QED BY <1>1, <1>2, PTL DEF Spec, NewWorkIsChecked

-----------------------------------------------------------------------------
(***************************************************************************)
(* Reviews of a task                                                         *)
(***************************************************************************)
(* A page that shows the current version shows the current content, and no    *)
(* page is ahead of the row.                                                 *)
PagesKeepUp ==
    /\ task.content <= task.version
    /\ \A p \in Person :
          /\ page[p].version <= task.version
          /\ page[p].version = task.version => page[p].content = task.content

ReviewsInv == ReviewsConsistent /\ PagesKeepUp

-----------------------------------------------------------------------------
LEMMA TaskHasParts ==
    ASSUME NEW t \in Task
    PROVE  /\ t.status \in Status /\ t.version \in 0..MaxChanges
           /\ t.content \in 0..MaxChanges /\ t.review \in Review
           /\ t.version \in Nat /\ t.content \in Nat
           /\ t.review.state \in Open \cup Closed \cup {"none"}
           /\ t.review.requestedBy \in Person
           /\ t.review.decision \in
                 [Person -> {"none", "pending", "approved", "changes_requested"}]
BY TaskReviewsAssumption DEF Task, Review

(* Whatever a save writes, it writes to the row its page showed. *)
LEMMA SaveKeepsPages ==
    ASSUME ReviewsTypeOK, PagesKeepUp, NEW p \in Person, NEW change,
           change \in [status : Status, version : {task.version},
                       content : {task.content, task.content + 1}, review : Review],
           saveWorkItem(p, change)
    PROVE  /\ task' \in Task
           /\ task'.status = change.status /\ task'.content = change.content
           /\ task'.review = change.review
           /\ page' \in [Person -> [version : 0..MaxChanges, content : 0..MaxChanges]]
           /\ access' \subseteq Person
           /\ PagesKeepUp'
           /\ page[p].content = task.content
<1> /\ task.version \in Nat /\ task.content \in Nat /\ MaxChanges \in Nat
    /\ task.version \in 0..MaxChanges
  BY TaskHasParts, TaskReviewsAssumption DEF ReviewsTypeOK
<1>1. change.version = task.version /\ change.content \in Nat
        /\ change.content <= task.version + 1 /\ change.status \in Status
        /\ change.review \in Review
  BY DEF PagesKeepUp
<1>2. task' = [status |-> change.status, version |-> task.version + 1,
              content |-> change.content, review |-> change.review]
  BY DEF saveWorkItem
<1>3. task.version + 1 \in 0..MaxChanges /\ change.content \in 0..MaxChanges
  BY <1>1 DEF saveWorkItem
<1>4. task' \in Task
  BY <1>1, <1>2, <1>3 DEF Task
<1>5. page' = [page EXCEPT ![p] = [version |-> task.version + 1, content |-> change.content]]
  BY <1>2 DEF saveWorkItem, Shown
<1>6. page' \in [Person -> [version : 0..MaxChanges, content : 0..MaxChanges]]
  BY <1>3, <1>5 DEF ReviewsTypeOK
<1>7. \A q \in Person : page[q].version \in Nat /\ page[q].content \in Nat
  BY DEF ReviewsTypeOK
<1>8. PagesKeepUp'
  <2>1. task'.content <= task'.version
    BY <1>1, <1>2
  <2>2. ASSUME NEW q \in Person
        PROVE  /\ page'[q].version <= task'.version
               /\ page'[q].version = task'.version => page'[q].content = task'.content
    <3>1. CASE q = p
      BY <3>1, <1>2, <1>5 DEF ReviewsTypeOK
    <3>2. CASE q # p
      <4>1. page'[q] = page[q]
        BY <3>2, <1>5 DEF ReviewsTypeOK
      <4>2. page[q].version <= task.version
        BY DEF PagesKeepUp
      <4> QED BY <4>1, <4>2, <1>2, <1>7
    <3> QED BY <3>1, <3>2
  <2> QED BY <2>1, <2>2 DEF PagesKeepUp
<1>9. page[p].content = task.content
  BY DEF PagesKeepUp, saveWorkItem
<1> QED BY <1>2, <1>4, <1>6, <1>8, <1>9 DEF saveWorkItem, ReviewsTypeOK

-----------------------------------------------------------------------------
LEMMA ReviewsInvInit == ReviewsInit => ReviewsInv
<1> SUFFICES ASSUME ReviewsInit PROVE ReviewsInv
  OBVIOUS
<1>1. (CHOOSE p \in Steward : TRUE) \in Person
  BY TaskReviewsAssumption
<1>2. 0 \in 0..MaxChanges
  BY TaskReviewsAssumption
<1>3. task.review \in Review
  BY <1>1 DEF ReviewsInit, Review
<1>4. task \in Task
  BY <1>2, <1>3 DEF ReviewsInit, Task, Status
<1>5. ReviewsTypeOK
  BY <1>2, <1>4 DEF ReviewsInit, ReviewsTypeOK, Shown, Open
<1>6. ReviewIsOfTheWork /\ DoneWasApproved
  BY DEF ReviewsInit, ReviewIsOfTheWork, DoneWasApproved, Open
<1>7. PagesKeepUp
  BY DEF ReviewsInit, PagesKeepUp, Shown
<1> QED BY <1>5, <1>6, <1>7 DEF ReviewsInv, ReviewsConsistent

LEMMA LoadKeeps ==
    ASSUME ReviewsInv, NEW p \in Person, Load(p) PROVE ReviewsInv'
<1> USE DEF ReviewsInv, ReviewsConsistent
<1>1. task.version \in 0..MaxChanges /\ task.content \in 0..MaxChanges
        /\ task.version \in Nat /\ task.content \in Nat
  BY TaskHasParts DEF ReviewsTypeOK
<1>2. page' = [page EXCEPT ![p] = [version |-> task.version, content |-> task.content]]
        /\ UNCHANGED <<task, access, asked, approved>>
  BY DEF Load, Shown
<1>3. ReviewsTypeOK'
  BY <1>1, <1>2 DEF ReviewsTypeOK, outcome
<1>4. ReviewIsOfTheWork' /\ DoneWasApproved'
  BY <1>2 DEF ReviewIsOfTheWork, DoneWasApproved, Reviewers
<1>5. PagesKeepUp'
  BY <1>1, <1>2 DEF PagesKeepUp, ReviewsTypeOK
<1> QED BY <1>3, <1>4, <1>5

LEMMA RequestReviewKeeps ==
    ASSUME ReviewsInv, NEW p \in Person, NEW reviewers \in SUBSET Person,
           requestReview(p, reviewers)
    PROVE  ReviewsInv'
<1> USE DEF ReviewsInv, ReviewsConsistent
<1> DEFINE decision == [q \in Person |-> IF q \in reviewers THEN "pending" ELSE "none"]
           review == [state |-> "pending", requestedBy |-> p, decision |-> decision]
           change == [task EXCEPT !.status = "review", !.review = review]
<1>1. review \in Review
  BY DEF Review, Open
<1>2. change \in [status : Status, version : {task.version},
                  content : {task.content, task.content + 1}, review : Review]
  BY <1>1, TaskHasParts DEF ReviewsTypeOK, Status, Task
<1>3. saveWorkItem(p, change)
  BY DEF requestReview
<1> /\ change.status = "review" /\ change.content = task.content /\ change.review = review
  BY DEF ReviewsTypeOK, Task
<1> HIDE DEF change
<1>4. /\ task' \in Task /\ PagesKeepUp'
      /\ page' \in [Person -> [version : 0..MaxChanges, content : 0..MaxChanges]]
      /\ access' \subseteq Person
      /\ task'.status = "review" /\ task'.content = task.content /\ task'.review = review
  BY <1>2, <1>3, SaveKeepsPages
<1>5. asked' = task.content /\ approved' = approved
  BY DEF requestReview
<1>6. outcome(decision) = "pending"
  BY DEF outcome, requestReview
<1>7. ReviewsTypeOK'
  <2>1. task.content \in 0..MaxChanges
    BY TaskHasParts DEF ReviewsTypeOK
  <2>2. task'.review.state = outcome(task'.review.decision)
    BY <1>4, <1>6
  <2>3. outcome(task'.review.decision) = outcome(task.review.decision)'
    BY DEF outcome
  <2> QED BY <2>1, <2>2, <2>3, <1>4, <1>5 DEF ReviewsTypeOK
<1>8. ReviewIsOfTheWork'
  BY <1>4, <1>5 DEF ReviewIsOfTheWork
<1>9. DoneWasApproved'
  BY <1>4 DEF DoneWasApproved
<1> QED BY <1>4, <1>7, <1>8, <1>9

LEMMA RespondKeeps ==
    ASSUME ReviewsInv, NEW p \in Person, NEW answer \in {"approved", "changes_requested"},
           respond(p, answer)
    PROVE  ReviewsInv'
<1> USE DEF ReviewsInv, ReviewsConsistent
<1> DEFINE decision == [task.review.decision EXCEPT ![p] = answer]
           status == IF outcome(decision) = "changes_requested" THEN "working" ELSE "review"
           review == [task.review EXCEPT !.decision = decision, !.state = outcome(decision)]
           change == [task EXCEPT !.status = status, !.review.decision = decision,
                                  !.review.state = outcome(decision)]
<1>0. decision \in [Person -> {"none", "pending", "approved", "changes_requested"}]
  BY TaskHasParts DEF ReviewsTypeOK
<1>1. outcome(decision) \in {"changes_requested", "approved", "pending"}
  BY DEF outcome
<1>2. /\ review \in Review
      /\ review.state = outcome(decision) /\ review.decision = decision
  BY <1>0, <1>1 DEF ReviewsTypeOK, Task, Review, Open, Closed
<1>3. /\ change.status = status /\ change.content = task.content /\ change.review = review
      /\ change \in [status : Status, version : {task.version},
                     content : {task.content, task.content + 1}, review : Review]
  BY <1>2 DEF ReviewsTypeOK, Task, Review, Status
<1>4. saveWorkItem(p, change)
  BY DEF respond
<1> HIDE DEF change
<1>5. /\ task' \in Task /\ PagesKeepUp'
      /\ page' \in [Person -> [version : 0..MaxChanges, content : 0..MaxChanges]]
      /\ access' \subseteq Person /\ page[p].content = task.content
      /\ task'.status = status /\ task'.content = task.content /\ task'.review = review
  BY <1>3, <1>4, SaveKeepsPages
<1>6. /\ asked' = asked /\ approved' = [approved EXCEPT ![p] = task.content]
      /\ task.review.state \in Open
  BY <1>5 DEF respond
<1>7. ReviewsTypeOK'
  <2>1. task.content \in 0..MaxChanges
    BY TaskHasParts DEF ReviewsTypeOK
  <2>2. task'.review.state = outcome(task'.review.decision)
    BY <1>5, <1>2
  <2>3. outcome(task'.review.decision) = outcome(task.review.decision)'
    BY DEF outcome
  <2>4. approved' \in [Person -> 0..MaxChanges]
    BY <1>6, <2>1 DEF ReviewsTypeOK
  <2> QED BY <2>2, <2>3, <2>4, <1>5, <1>6 DEF ReviewsTypeOK
<1>8. ReviewIsOfTheWork'
  <2>1. asked' = task'.content
    BY <1>5, <1>6 DEF ReviewIsOfTheWork
  <2>2. ASSUME NEW q \in Person, task'.review.decision[q] = "approved"
        PROVE  approved'[q] = task'.content
    <3>1. CASE q = p
      BY <3>1, <1>5, <1>6 DEF ReviewsTypeOK
    <3>2. CASE q # p
      <4>1. task.review.decision[q] = "approved"
        BY <3>2, <2>2, <1>2, <1>5, TaskHasParts DEF ReviewsTypeOK
      <4> QED BY <4>1, <3>2, <1>5, <1>6 DEF ReviewIsOfTheWork, ReviewsTypeOK
    <3> QED BY <3>1, <3>2
  <2> QED BY <2>1, <2>2 DEF ReviewIsOfTheWork
<1>9. DoneWasApproved'
  BY <1>5 DEF DoneWasApproved
<1> QED BY <1>5, <1>7, <1>8, <1>9

LEMMA CancelReviewKeeps ==
    ASSUME ReviewsInv, NEW p \in Person, cancelReview(p) PROVE ReviewsInv'
<1> USE DEF ReviewsInv, ReviewsConsistent
<1> DEFINE change == [task EXCEPT !.status = "working", !.review.state = "cancelled"]
<1>1. change \in [status : Status, version : {task.version},
                  content : {task.content, task.content + 1}, review : Review]
  BY DEF ReviewsTypeOK, Task, Review, Status, Open, Closed
<1>2. change.status = "working" /\ change.review.state = "cancelled"
  BY DEF ReviewsTypeOK, Task, Review
<1>3. saveWorkItem(p, change)
  BY DEF cancelReview
<1> HIDE DEF change
<1>4. /\ task' \in Task /\ PagesKeepUp'
      /\ page' \in [Person -> [version : 0..MaxChanges, content : 0..MaxChanges]]
      /\ access' \subseteq Person
      /\ task'.status = "working" /\ task'.review.state = "cancelled"
  BY <1>1, <1>2, <1>3, SaveKeepsPages
<1>5. asked' = asked /\ approved' = approved
  BY DEF cancelReview
<1>6. ReviewsTypeOK'
  BY <1>4, <1>5 DEF ReviewsTypeOK, Open
<1>7. ReviewIsOfTheWork' /\ DoneWasApproved'
  BY <1>4 DEF ReviewIsOfTheWork, DoneWasApproved, Open
<1> QED BY <1>4, <1>6, <1>7

(* What a change of the task leaves of its review. *)
LEMMA ReviewAfterChange ==
    ASSUME ReviewsTypeOK, NEW status \in Status, NEW content
    PROVE  LET review == reviewForTaskChange(status, content) IN
           /\ review \in Review
           /\ review = task.review \/ review.state = "invalidated"
           /\ revised(status, content) =>
                 review.state \in {"none", "cancelled", "invalidated"}
           /\ task.review.state \in {"none", "cancelled"} => review = task.review
           /\ ~revised(status, content) => review = task.review
<1>1. task.review \in Review
  BY TaskHasParts DEF ReviewsTypeOK
<1>2. [task.review EXCEPT !.state = "invalidated"] \in Review
        /\ [task.review EXCEPT !.state = "invalidated"].state = "invalidated"
  BY <1>1 DEF Review, Closed
<1> QED BY <1>1, <1>2 DEF reviewForTaskChange

(* A review that is left as it was, of content that is left as it was, or one *)
(* that no longer counts, is one of the work as it is.                       *)
LEMMA CountsForTheWork ==
    ASSUME ReviewsTypeOK, ReviewIsOfTheWork, task' \in Task,
           page' \in [Person -> [version : 0..MaxChanges, content : 0..MaxChanges]],
           access' \subseteq Person, UNCHANGED <<asked, approved>>,
           \/ task'.review = task.review /\ task'.content = task.content
           \/ task'.review.state \in {"none", "cancelled", "invalidated"}
    PROVE  ReviewsTypeOK' /\ ReviewIsOfTheWork'
<1>1. CASE task'.review = task.review /\ task'.content = task.content
  <2>1. outcome(task'.review.decision) = outcome(task.review.decision)'
    BY DEF outcome
  <2> QED BY <1>1, <2>1 DEF ReviewsTypeOK, ReviewIsOfTheWork
<1>2. CASE task'.review.state \in {"none", "cancelled", "invalidated"}
  BY <1>2 DEF ReviewsTypeOK, ReviewIsOfTheWork, Open
<1> QED BY <1>1, <1>2

(* An approved review was approved by all its reviewers. *)
LEMMA ApprovedByAll ==
    ASSUME ReviewsTypeOK, task.review.state = "approved"
    PROVE  \A q \in Reviewers(task.review) : task.review.decision[q] = "approved"
BY DEF ReviewsTypeOK, outcome, Reviewers

LEMMA ChangeStatusKeeps ==
    ASSUME ReviewsInv, NEW p \in Person, NEW status \in Status,
           NEW content \in {task.content, task.content + 1},
           changeStatus(p, status, content)
    PROVE  ReviewsInv'
<1> USE DEF ReviewsInv, ReviewsConsistent
<1> DEFINE review == reviewForTaskChange(status, content)
           change == [task EXCEPT !.status = status, !.content = content, !.review = review]
<1>1. /\ review \in Review
      /\ review = task.review \/ review.state = "invalidated"
      /\ revised(status, content) => review.state \in {"none", "cancelled", "invalidated"}
      /\ task.review.state \in {"none", "cancelled"} => review = task.review
      /\ ~revised(status, content) => review = task.review
  BY ReviewAfterChange
<1>2. saveWorkItem(p, change)
  BY DEF changeStatus
<1>3. status = "done" => mayComplete(content)
  BY DEF changeStatus
<1> HIDE DEF review
<1>4. /\ change \in [status : Status, version : {task.version},
                     content : {task.content, task.content + 1}, review : Review]
      /\ change.status = status /\ change.content = content /\ change.review = review
  BY <1>1 DEF ReviewsTypeOK, Task
<1> HIDE DEF change
<1>5. /\ task' \in Task /\ PagesKeepUp'
      /\ page' \in [Person -> [version : 0..MaxChanges, content : 0..MaxChanges]]
      /\ access' \subseteq Person
      /\ task'.status = status /\ task'.content = content /\ task'.review = review
  BY <1>2, <1>4, SaveKeepsPages
<1>6. \/ task'.review = task.review /\ task'.content = task.content
      \/ task'.review.state \in {"none", "cancelled", "invalidated"}
  BY <1>1, <1>5 DEF revised
<1>7. UNCHANGED <<asked, approved>>
  BY DEF changeStatus
<1>8. ReviewsTypeOK' /\ ReviewIsOfTheWork'
  BY <1>5, <1>6, <1>7, CountsForTheWork
<1>9. ASSUME status = "done", review.state \notin {"none", "cancelled"}
      PROVE  /\ review = task.review /\ task.review.state = "approved"
             /\ \A q \in Reviewers(review) : review.decision[q] = "approved"
  BY <1>1, <1>3, <1>9, ApprovedByAll DEF mayComplete
<1>10. DoneWasApproved'
  <2>1. Reviewers(task'.review) = Reviewers(task.review)'
    BY DEF Reviewers
  <2> QED BY <2>1, <1>5, <1>9 DEF DoneWasApproved
<1> QED BY <1>5, <1>8, <1>10

LEMMA ChangeContentKeeps ==
    ASSUME ReviewsInv, NEW p \in Person,
           NEW content \in {task.content, task.content + 1}, changeContent(p, content)
    PROVE  ReviewsInv'
<1> USE DEF ReviewsInv, ReviewsConsistent
<1>0. task.status \in Status
  BY TaskHasParts DEF ReviewsTypeOK
<1> DEFINE review == reviewForTaskChange(task.status, content)
           falls == review.state = "invalidated" /\ task.review.state # "invalidated"
                      /\ task.status \in {"review", "done"}
           status == IF falls THEN "working" ELSE task.status
           change == [task EXCEPT !.content = content, !.review = review, !.status = status]
<1>1. /\ review \in Review
      /\ review = task.review \/ review.state = "invalidated"
      /\ revised(task.status, content) =>
            review.state \in {"none", "cancelled", "invalidated"}
  BY <1>0, ReviewAfterChange
<1>2. saveWorkItem(p, change) /\ UNCHANGED <<asked, approved>>
  BY DEF changeContent
<1> HIDE DEF review
<1>3. /\ change \in [status : Status, version : {task.version},
                     content : {task.content, task.content + 1}, review : Review]
      /\ change.status = status /\ change.content = content /\ change.review = review
  BY <1>0, <1>1 DEF ReviewsTypeOK, Task, Status
<1> HIDE DEF change
<1>4. /\ task' \in Task /\ PagesKeepUp'
      /\ page' \in [Person -> [version : 0..MaxChanges, content : 0..MaxChanges]]
      /\ access' \subseteq Person
      /\ task'.status = status /\ task'.content = content /\ task'.review = review
  BY <1>2, <1>3, SaveKeepsPages
<1>5. \/ task'.review = task.review /\ task'.content = task.content
      \/ task'.review.state \in {"none", "cancelled", "invalidated"}
  BY <1>1, <1>4 DEF revised
<1>6. ReviewsTypeOK' /\ ReviewIsOfTheWork'
  BY <1>2, <1>4, <1>5, CountsForTheWork
<1>7. ASSUME status = "done" PROVE task.status = "done" /\ review = task.review
  BY <1>1, <1>7 DEF DoneWasApproved
<1>8. DoneWasApproved'
  <2>1. Reviewers(task'.review) = Reviewers(task.review)'
    BY DEF Reviewers
  <2> QED BY <2>1, <1>4, <1>7 DEF DoneWasApproved
<1> QED BY <1>4, <1>6, <1>8

LEMMA BumpKeeps ==
    ASSUME ReviewsInv, NEW p \in Person, bumpLockedWorkItemVersion(p) PROVE ReviewsInv'
<1> USE DEF ReviewsInv, ReviewsConsistent
<1>1. task \in [status : Status, version : {task.version},
                content : {task.content, task.content + 1}, review : Review]
  BY DEF ReviewsTypeOK, Task
<1>2. saveWorkItem(p, task) /\ UNCHANGED <<asked, approved>>
  BY DEF bumpLockedWorkItemVersion
<1>3. /\ task' \in Task /\ PagesKeepUp'
      /\ page' \in [Person -> [version : 0..MaxChanges, content : 0..MaxChanges]]
      /\ access' \subseteq Person
      /\ task'.status = task.status /\ task'.content = task.content
      /\ task'.review = task.review
  BY <1>1, <1>2, SaveKeepsPages
<1>4. ReviewsTypeOK' /\ ReviewIsOfTheWork'
  BY <1>2, <1>3, CountsForTheWork
<1>5. DoneWasApproved'
  BY <1>3 DEF DoneWasApproved, Reviewers
<1> QED BY <1>3, <1>4, <1>5

LEMMA ReviewsNextKeeps == ReviewsInv /\ [ReviewsNext]_reviewsVars => ReviewsInv'
<1> SUFFICES ASSUME ReviewsInv, [ReviewsNext]_reviewsVars PROVE ReviewsInv'
  OBVIOUS
<1>1. CASE UNCHANGED reviewsVars
  BY <1>1 DEF reviewsVars, ReviewsInv, ReviewsConsistent, ReviewsTypeOK, ReviewIsOfTheWork,
     DoneWasApproved, PagesKeepUp, outcome, Reviewers
<1>2. CASE ReviewsNext
  <2> PICK p \in Person :
        \/ Load(p) \/ cancelReview(p) \/ bumpLockedWorkItemVersion(p) \/ Leave(p)
        \/ \E reviewers \in SUBSET Person : requestReview(p, reviewers)
        \/ \E answer \in {"approved", "changes_requested"} : respond(p, answer)
        \/ \E content \in {task.content, task.content + 1} :
              \/ changeContent(p, content)
              \/ \E status \in Status : changeStatus(p, status, content)
    BY <1>2 DEF ReviewsNext
  <2>1. CASE Leave(p)
    BY <2>1 DEF Leave, ReviewsInv, ReviewsConsistent, ReviewsTypeOK, ReviewIsOfTheWork,
       DoneWasApproved, PagesKeepUp, outcome, Reviewers
  <2> QED BY <2>1, LoadKeeps, CancelReviewKeeps, BumpKeeps, RequestReviewKeeps,
             RespondKeeps, ChangeContentKeeps, ChangeStatusKeeps
<1> QED BY <1>1, <1>2

(* Who acts on a page acts on what it shows, and what is complete was         *)
(* approved as it is (saveWorkItem, reviewForTaskChange).                    *)
THEOREM ReviewsInductive == ReviewsSpec => []ReviewsInv
<1>1. ReviewsInit => ReviewsInv
  BY ReviewsInvInit
<1>2. ReviewsInv /\ [ReviewsNext]_reviewsVars => ReviewsInv'
  BY ReviewsNextKeeps
<1> QED BY <1>1, <1>2, PTL DEF ReviewsSpec

(* "All reviewers must approve this task before it can be completed", however *)
(* many people answer, revise and complete it from pages of any age.         *)
THEOREM DoneIsApproved == ReviewsSpec => []ReviewsConsistent
<1>1. ReviewsInv => ReviewsConsistent
  BY DEF ReviewsInv
<1> QED BY <1>1, ReviewsInductive, PTL

-----------------------------------------------------------------------------
(***************************************************************************)
(* Portfolios                                                                *)
(***************************************************************************)
(* The locks that a transaction holds, from the statements it has made. *)
HeldLocks(c) ==
    LET t == txn[c] IN
    /\ t.step \notin UnderWay => t.locks = {}
    /\ t.step \in UnderWay /\ t.kind # "recompute" => "share" \in t.locks
    /\ t.step \in {"locked", "checked", "written"} /\ t.kind \in PortfolioKind =>
          "exclusive" \in t.locks
    /\ t.step = "written" => "revision" \in t.locks
    /\ t.step = "locked" => t.kind \in PortfolioKind
    /\ t.step = "checked" => t.kind # "recompute"

Apart ==
    \A c, d \in Command : c # d =>
        \A l \in txn[c].locks, m \in txn[d].locks : {l, m} \notin Conflicts

(* What a transaction has read is still so until it commits. *)
ReadStands(c) ==
    LET t == txn[c] IN
    t.step \in {"checked", "written"} =>
        /\ t.kind = "create" =>
              /\ t.portfolio \notin active \cup archived
              /\ t.replacement = None
              /\ ~t.default => active # {}
        /\ t.kind \in {"makeDefault", "giveUpDefault", "archive", "createWorkspace"} =>
              t.portfolio \in active
        /\ t.kind = "makeDefault" => t.default
        /\ t.kind \in {"giveUpDefault", "archive"} =>
              /\ ~t.default
              /\ IF t.portfolio \in default
                 THEN t.replacement \in active \ {t.portfolio}
                 ELSE t.replacement = None
        /\ t.kind = "archive" => \A w \in open : home[w] # t.portfolio

OneIsDefault == active # {} => \E q \in active : default = {q}

PortfoliosInv ==
    /\ PortfoliosTypeOK /\ HomesAreActive /\ OneIsDefault
    /\ Apart
    /\ \A c \in Command : HeldLocks(c) /\ ReadStands(c)

-----------------------------------------------------------------------------
LEMMA TransactionHasParts ==
    ASSUME PortfoliosTypeOK, NEW c \in Command
    PROVE  /\ txn[c].step \in {"unsent", "sent"} \cup UnderWay \cup Ended
           /\ txn[c].locks \subseteq Lock
           /\ txn[c] # Unsent <=> txn[c] \in Txn
           /\ txn[c].step # "unsent" <=> txn[c] \in Txn
<1>1. txn[c] \in {Unsent} \cup Txn
  BY DEF PortfoliosTypeOK
<1>2. Unsent.step = "unsent" /\ Unsent.locks = {}
  BY DEF Unsent
<1>3. \A t \in Txn : /\ t.step \in {"sent"} \cup UnderWay \cup Ended
                     /\ t.locks \subseteq Lock /\ t.step # "unsent"
  BY DEF Txn, UnderWay, Ended
<1> QED BY <1>1, <1>2, <1>3

LEMMA OneStep ==
    ASSUME PortfoliosTypeOK, NEW c \in Command, NEW t, txn' = [txn EXCEPT ![c] = t]
    PROVE  txn'[c] = t /\ \A d \in Command \ {c} : txn'[d] = txn[d]
BY DEF PortfoliosTypeOK

(* Nothing but one transaction has changed, and the locks it holds now        *)
(* exclude none that others hold.                                            *)
LEMMA RowsStay ==
    ASSUME PortfoliosInv, NEW c \in Command, NEW t \in Txn,
           txn' = [txn EXCEPT ![c] = t], UNCHANGED rows,
           \A d \in Command \ {c} : \A l \in t.locks, m \in txn[d].locks :
              {l, m} \notin Conflicts,
           HeldLocks(c)', ReadStands(c)'
    PROVE  PortfoliosInv'
<1>1. txn'[c] = t /\ \A d \in Command \ {c} : txn'[d] = txn[d]
  BY OneStep DEF PortfoliosInv
<1>2. PortfoliosTypeOK'
  BY <1>1 DEF PortfoliosInv, PortfoliosTypeOK, rows
<1>3. HomesAreActive' /\ OneIsDefault'
  BY DEF PortfoliosInv, HomesAreActive, OneIsDefault, rows
<1>4. Apart'
  <2> SUFFICES ASSUME NEW a \in Command, NEW b \in Command, a # b,
                      NEW l \in txn'[a].locks, NEW m \in txn'[b].locks
               PROVE  {l, m} \notin Conflicts
    BY DEF Apart
  <2>1. {l, m} = {m, l}
    OBVIOUS
  <2>2. CASE a = c
    BY <2>2, <1>1
  <2>3. CASE b = c
    BY <2>1, <2>3, <1>1
  <2>4. CASE a # c /\ b # c
    BY <2>4, <1>1 DEF PortfoliosInv, Apart
  <2> QED BY <2>2, <2>3, <2>4
<1>5. ASSUME NEW d \in Command PROVE HeldLocks(d)' /\ ReadStands(d)'
  <2>1. CASE d = c
    BY <2>1
  <2>2. CASE d # c
    <3>1. txn'[d] = txn[d] /\ HeldLocks(d) /\ ReadStands(d)
      BY <2>2, <1>1 DEF PortfoliosInv
    <3>2. HeldLocks(d)'
      BY <3>1 DEF HeldLocks
    <3>3. ReadStands(d)'
      BY <3>1 DEF ReadStands, rows
    <3> QED BY <3>2, <3>3
  <2> QED BY <2>1, <2>2
<1> QED BY <1>2, <1>3, <1>4, <1>5 DEF PortfoliosInv

LEMMA EndKeeps ==
    ASSUME PortfoliosInv, NEW c \in Command, NEW step \in Ended, txn[c] \in Txn,
           end(c, step), UNCHANGED rows
    PROVE  PortfoliosInv'
<1> DEFINE t == [txn[c] EXCEPT !.step = step, !.locks = {}]
<1>1. txn' = [txn EXCEPT ![c] = t]
  BY DEF end
<1>2. t \in Txn /\ t.step = step /\ t.locks = {}
  BY DEF Txn
<1>3. t.step \notin UnderWay
  BY <1>2 DEF UnderWay, Ended
<1> HIDE DEF t
<1>4. txn'[c] = t
  BY <1>1, OneStep DEF PortfoliosInv
<1>5. HeldLocks(c)' /\ ReadStands(c)'
  BY <1>2, <1>3, <1>4 DEF HeldLocks, ReadStands, UnderWay
<1> QED BY <1>1, <1>2, <1>5, RowsStay

LEMMA ProceedKeeps ==
    ASSUME PortfoliosInv, NEW c \in Command, NEW step \in UnderWay, txn[c] \in Txn,
           proceed(c, step),
           \A t \in Txn :
              /\ t = [txn[c] EXCEPT !.step = step, !.locks = txn[c].locks \cup ({wants(c)} \cap Lock)]
              /\ txn'[c] = t
              => HeldLocks(c)' /\ ReadStands(c)'
    PROVE  PortfoliosInv'
<1> DEFINE locks == txn[c].locks \cup ({wants(c)} \cap Lock)
           t == [txn[c] EXCEPT !.step = step, !.locks = locks]
<1>1. txn' = [txn EXCEPT ![c] = t]
  BY DEF proceed
<1>2. txn[c].locks \subseteq Lock
  BY DEF Txn
<1>3. t \in Txn /\ t.locks = locks
  BY <1>2 DEF Txn
<1>4. ASSUME NEW d \in Command \ {c}, NEW l \in locks, NEW m \in txn[d].locks
      PROVE  {l, m} \notin Conflicts
  <2>1. CASE l \in txn[c].locks
    BY <2>1 DEF PortfoliosInv, Apart
  <2>2. CASE l = wants(c)
    <3>1. {m, l} \notin Conflicts
      BY <2>2 DEF proceed, blockers
    <3>2. {l, m} = {m, l}
      OBVIOUS
    <3> QED BY <3>1, <3>2
  <2> QED BY <2>1, <2>2
<1>5. txn'[c] = t
  BY <1>1, OneStep DEF PortfoliosInv
<1>6. HeldLocks(c)' /\ ReadStands(c)'
  BY <1>3, <1>5
<1> QED BY <1>1, <1>3, <1>4, <1>6, RowsStay DEF proceed

-----------------------------------------------------------------------------
LEMMA PortfoliosInvInit == PortfoliosInit => PortfoliosInv
<1> SUFFICES ASSUME PortfoliosInit PROVE PortfoliosInv
  OBVIOUS
<1>0. PICK p \in active \cup {None} : (p = None <=> active = {}) /\ default = {p} \ {None}
  BY DEF PortfoliosInit
<1>1. PortfoliosTypeOK /\ HomesAreActive
  BY <1>0 DEF PortfoliosInit, PortfoliosTypeOK, HomesAreActive
<1>2. OneIsDefault
  BY <1>0 DEF OneIsDefault
<1>3. ASSUME NEW c \in Command
      PROVE  txn[c].step = "unsent" /\ txn[c].locks = {}
  BY DEF PortfoliosInit, Unsent
<1>4. Apart
  BY <1>3 DEF Apart
<1>5. ASSUME NEW c \in Command PROVE HeldLocks(c) /\ ReadStands(c)
  BY <1>3 DEF HeldLocks, ReadStands, UnderWay
<1> QED BY <1>1, <1>2, <1>4, <1>5 DEF PortfoliosInv

LEMMA SendKeeps ==
    ASSUME PortfoliosInv, NEW c \in Command, NEW kind \in CommandKinds,
           NEW p \in Portfolio, NEW w \in Workspace, NEW wish \in BOOLEAN,
           send(c, kind, p, w, wish)
    PROVE  PortfoliosInv'
<1> DEFINE t == [step |-> "sent", locks |-> {}, kind |-> kind, portfolio |-> p,
                 workspace |-> w, expected |-> version[p], default |-> wish,
                 replacement |-> None]
<1>1. txn' = [txn EXCEPT ![c] = t] /\ UNCHANGED rows
  BY DEF send
<1>2. version[p] \in Nat
  BY DEF PortfoliosInv, PortfoliosTypeOK
<1>3. t \in Txn
  BY <1>2 DEF Txn
<1>4. txn'[c] = t
  BY <1>1, OneStep DEF PortfoliosInv
<1>5. HeldLocks(c)' /\ ReadStands(c)'
  BY <1>4 DEF HeldLocks, ReadStands, UnderWay
<1> QED BY <1>1, <1>3, <1>5, RowsStay

LEMMA WithIdempotencyKeeps ==
    ASSUME PortfoliosInv, NEW c \in Command, withIdempotency(c) PROVE PortfoliosInv'
<1>1. txn[c] \in Txn /\ txn[c].step = "sent" /\ proceed(c, "begun")
  BY TransactionHasParts DEF withIdempotency, PortfoliosInv
<1>2. "begun" \in UnderWay
  BY DEF UnderWay
<1>3. wants(c) = IF txn[c].kind = "recompute" THEN "advisory" ELSE "share"
  BY <1>1 DEF wants, first
<1>4. ASSUME NEW t \in Txn, txn'[c] = t,
             t = [txn[c] EXCEPT !.step = "begun",
                                !.locks = txn[c].locks \cup ({wants(c)} \cap Lock)]
      PROVE  HeldLocks(c)' /\ ReadStands(c)'
  <2>1. t.step = "begun" /\ t.kind = txn[c].kind
          /\ t.locks = txn[c].locks \cup ({wants(c)} \cap Lock)
    BY <1>1, <1>4 DEF Txn
  <2> QED BY <2>1, <1>3, <1>4 DEF HeldLocks, ReadStands, UnderWay, Lock
<1> QED BY <1>1, <1>2, <1>4, ProceedKeeps

LEMMA LockKeeps ==
    ASSUME PortfoliosInv, NEW c \in Command, lock(c) PROVE PortfoliosInv'
<1>1. txn[c] \in Txn /\ txn[c].step = "begun" /\ txn[c].kind \in PortfolioKind
        /\ proceed(c, "locked")
  BY TransactionHasParts DEF lock, PortfoliosInv
<1>2. "locked" \in UnderWay /\ txn[c].kind # "recompute"
  BY <1>1 DEF UnderWay, PortfolioKind
<1>3. wants(c) = "exclusive"
  BY <1>1, <1>2 DEF wants, lockOrganization
<1>4. ASSUME NEW t \in Txn, txn'[c] = t,
             t = [txn[c] EXCEPT !.step = "locked",
                                !.locks = txn[c].locks \cup ({wants(c)} \cap Lock)]
      PROVE  HeldLocks(c)' /\ ReadStands(c)'
  <2>1. t.step = "locked" /\ t.kind = txn[c].kind
          /\ t.locks = txn[c].locks \cup ({wants(c)} \cap Lock)
    BY <1>1, <1>4 DEF Txn
  <2>2. "share" \in txn[c].locks
    BY <1>1, <1>2 DEF PortfoliosInv, HeldLocks, UnderWay
  <2> QED BY <2>1, <2>2, <1>1, <1>3, <1>4 DEF HeldLocks, ReadStands, UnderWay, Lock
<1> QED BY <1>1, <1>2, <1>4, ProceedKeeps

LEMMA WriteKeeps ==
    ASSUME PortfoliosInv, NEW c \in Command, write(c) PROVE PortfoliosInv'
<1>1. txn[c] \in Txn /\ txn[c].step = "checked" /\ proceed(c, "written")
  BY TransactionHasParts DEF write, PortfoliosInv
<1>2. "written" \in UnderWay
  BY DEF UnderWay
<1>3. wants(c) = "revision"
  BY <1>1 DEF wants
<1>4. ASSUME NEW t \in Txn, txn'[c] = t,
             t = [txn[c] EXCEPT !.step = "written",
                                !.locks = txn[c].locks \cup ({wants(c)} \cap Lock)]
      PROVE  HeldLocks(c)' /\ ReadStands(c)'
  <2>1. /\ t.step = "written" /\ t.kind = txn[c].kind /\ t.portfolio = txn[c].portfolio
        /\ t.default = txn[c].default /\ t.replacement = txn[c].replacement
        /\ t.locks = txn[c].locks \cup ({wants(c)} \cap Lock)
    BY <1>1, <1>4 DEF Txn
  <2>2. HeldLocks(c)'
    BY <2>1, <1>1, <1>3, <1>4 DEF PortfoliosInv, HeldLocks, UnderWay, Lock
  <2>3. ReadStands(c)'
    <3>1. ReadStands(c)
      BY DEF PortfoliosInv
    <3>2. UNCHANGED <<active, archived, default, home, open>>
      BY <1>1 DEF proceed, rows
    <3> QED BY <3>1, <3>2, <2>1, <1>1, <1>4 DEF ReadStands
  <2> QED BY <2>2, <2>3
<1> QED BY <1>1, <1>2, <1>4, ProceedKeeps

LEMMA RecomputeKeeps ==
    ASSUME PortfoliosInv, NEW c \in Command, recomputeOrganizationAttention(c)
    PROVE  PortfoliosInv'
<1> DEFINE step == IF txn[c].step = "begun" THEN "written" ELSE "stamped"
<1>1. txn[c] \in Txn /\ txn[c].step \in {"begun", "written"} /\ txn[c].kind = "recompute"
        /\ proceed(c, step)
  BY TransactionHasParts DEF recomputeOrganizationAttention, PortfoliosInv
<1>2. step \in UnderWay /\ txn[c].kind \notin PortfolioKind
  BY <1>1 DEF UnderWay, PortfolioKind
<1>3. wants(c) = IF txn[c].step = "begun" THEN "revision" ELSE "stamp"
  BY <1>1, <1>2 DEF wants
<1>4. ASSUME NEW t \in Txn, txn'[c] = t,
             t = [txn[c] EXCEPT !.step = step,
                                !.locks = txn[c].locks \cup ({wants(c)} \cap Lock)]
      PROVE  HeldLocks(c)' /\ ReadStands(c)'
  <2>1. t.step = step /\ t.kind = "recompute"
          /\ t.locks = txn[c].locks \cup ({wants(c)} \cap Lock)
    BY <1>1, <1>4 DEF Txn
  <2>2. HeldLocks(c)'
    BY <2>1, <1>1, <1>2, <1>3, <1>4 DEF HeldLocks, UnderWay, Lock
  <2>3. ReadStands(c)'
    BY <2>1, <1>4 DEF ReadStands
  <2> QED BY <2>2, <2>3
<1> QED BY <1>1, <1>2, <1>4, ProceedKeeps

LEMMA CheckKeeps ==
    ASSUME PortfoliosInv, NEW c \in Command, check(c) PROVE PortfoliosInv'
<1>1. PICK q \in replacements(c) :
         txn' = [txn EXCEPT ![c].step = "checked", ![c].replacement = q,
                            ![c].default = becomesDefault(c)]
  BY DEF check
<1> DEFINE t == [txn[c] EXCEPT !.step = "checked", !.replacement = q,
                               !.default = becomesDefault(c)]
<1>2. /\ txn[c] \in Txn /\ ready(c) /\ accepts(c) /\ UNCHANGED rows
      /\ txn[c].kind # "recompute" /\ txn[c].step \in UnderWay
      /\ txn[c].kind \in PortfolioKind => txn[c].step = "locked"
  <2>1. txn[c].step \in {"locked", "begun"}
    BY DEF check, ready
  <2>2. txn[c] \in Txn
    BY <2>1, TransactionHasParts DEF PortfoliosInv
  <2> QED BY <2>1, <2>2 DEF check, ready, PortfoliosInv, HeldLocks, UnderWay, PortfolioKind
<1>3. txn' = [txn EXCEPT ![c] = t]
  BY <1>1
<1>4. becomesDefault(c) \in BOOLEAN
  <2>1. txn[c].default \in BOOLEAN
    BY <1>2 DEF Txn
  <2> QED BY <2>1 DEF becomesDefault
<1>5. q \in Portfolio \cup {None}
  BY DEF replacements, others, PortfoliosInv, PortfoliosTypeOK
<1>6. /\ t \in Txn
      /\ t.step = "checked" /\ t.kind = txn[c].kind /\ t.portfolio = txn[c].portfolio
      /\ t.default = becomesDefault(c) /\ t.replacement = q /\ t.locks = txn[c].locks
  BY <1>2, <1>4, <1>5 DEF Txn, UnderWay
<1>7. txn'[c] = t
  BY <1>3, OneStep DEF PortfoliosInv
<1> HIDE DEF t
<1>8. HeldLocks(c)'
  <2>1. HeldLocks(c)
    BY DEF PortfoliosInv
  <2> QED BY <2>1, <1>2, <1>6, <1>7 DEF HeldLocks, UnderWay
<1>9. ReadStands(c)'
  <2>1. accepts(c) /\ UNCHANGED rows
    BY <1>2
  <2>2. CASE t.kind = "create"
    BY <2>1, <2>2, <1>6, <1>7 DEF ReadStands, rows, accepts, replacements, becomesDefault
  <2>3. CASE t.kind = "makeDefault"
    BY <2>1, <2>3, <1>6, <1>7 DEF ReadStands, rows, accepts, current, becomesDefault
  <2>4. CASE t.kind = "giveUpDefault"
    <3>1. current(c)
      BY <2>1, <2>4, <1>6 DEF accepts
    <3> QED BY <3>1, <2>1, <2>4, <1>6, <1>7
            DEF ReadStands, rows, current, becomesDefault, replacements, others
  <2>5. CASE t.kind = "archive"
    <3>1. current(c) /\ \A w \in open : home[w] # txn[c].portfolio
      BY <2>1, <2>5, <1>6 DEF accepts
    <3> QED BY <3>1, <2>1, <2>5, <1>6, <1>7
            DEF ReadStands, rows, current, becomesDefault, replacements, others
  <2>6. CASE t.kind = "createWorkspace"
    BY <2>1, <2>6, <1>6, <1>7 DEF ReadStands, rows, accepts
  <2>7. CASE t.kind \notin PortfolioKind \cup {"createWorkspace"}
    BY <2>7, <1>7 DEF ReadStands, PortfolioKind
  <2> QED BY <2>2, <2>3, <2>4, <2>5, <2>6, <2>7 DEF PortfolioKind
<1>10. \A d \in Command \ {c} : \A l \in t.locks, m \in txn[d].locks :
          {l, m} \notin Conflicts
  BY <1>6 DEF PortfoliosInv, Apart
<1> QED BY <1>2, <1>3, <1>6, <1>8, <1>9, <1>10, RowsStay

(* Nobody else has read, or has begun, while a portfolio command is written. *)
LEMMA AloneToWrite ==
    ASSUME PortfoliosInv, NEW c \in Command, NEW d \in Command \ {c},
           "exclusive" \in txn[c].locks
    PROVE  txn[d].step \notin UnderWay \/ txn[d].kind = "recompute"
<1>1. {"exclusive", "share"} \in Conflicts
  BY DEF Conflicts
<1>2. "share" \notin txn[d].locks
  BY <1>1 DEF PortfoliosInv, Apart
<1> QED BY <1>2 DEF PortfoliosInv, HeldLocks

(* A transaction that ends takes its locks with it. *)
LEMMA EndsApart ==
    ASSUME PortfoliosInv, NEW c \in Command, txn[c] \in Txn, end(c, "committed")
    PROVE  /\ txn' \in [Command -> {Unsent} \cup Txn]
           /\ \A d \in Command \ {c} : txn'[d] = txn[d]
           /\ txn'[c].step = "committed" /\ txn'[c].locks = {}
           /\ Apart'
           /\ \A d \in Command : HeldLocks(d)'
           /\ ReadStands(c)'
<1> DEFINE t == [txn[c] EXCEPT !.step = "committed", !.locks = {}]
<1>1. txn' = [txn EXCEPT ![c] = t]
  BY DEF end
<1>2. t \in Txn /\ t.step = "committed" /\ t.locks = {}
  BY DEF Txn, Ended
<1> HIDE DEF t
<1>3. txn'[c] = t /\ \A d \in Command \ {c} : txn'[d] = txn[d]
  BY <1>1, OneStep DEF PortfoliosInv
<1>4. Apart'
  <2> SUFFICES ASSUME NEW a \in Command, NEW b \in Command, a # b,
                      NEW l \in txn'[a].locks, NEW m \in txn'[b].locks
               PROVE  {l, m} \notin Conflicts
    BY DEF Apart
  <2>1. a # c /\ b # c
    BY <1>2, <1>3
  <2> QED BY <2>1, <1>3 DEF PortfoliosInv, Apart
<1>5. ASSUME NEW d \in Command PROVE HeldLocks(d)'
  <2>1. CASE d = c
    BY <2>1, <1>2, <1>3 DEF HeldLocks, UnderWay
  <2>2. CASE d # c
    BY <2>2, <1>3 DEF PortfoliosInv, HeldLocks
  <2> QED BY <2>1, <2>2
<1>6. ReadStands(c)'
  BY <1>2, <1>3 DEF ReadStands
<1>7. txn' \in [Command -> {Unsent} \cup Txn]
  BY <1>1, <1>2 DEF PortfoliosInv, PortfoliosTypeOK
<1> QED BY <1>2, <1>3, <1>4, <1>5, <1>6, <1>7

LEMMA CommitPortfolioKeeps ==
    ASSUME PortfoliosInv, NEW c \in Command, commitPortfolio(c) PROVE PortfoliosInv'
<1> DEFINE p == txn[c].portfolio
           touched == {txn[c].replacement} \cup (IF txn[c].default THEN default ELSE {})
                        \cup (IF txn[c].kind = "create" THEN {} ELSE {p})
<1>1. /\ txn[c].step = "written" /\ txn[c].kind \in PortfolioKind
      /\ end(c, "committed") /\ UNCHANGED <<home, open>>
      /\ default' = promote(c)
      /\ version' = [q \in Portfolio |-> version[q] + IF q \in touched THEN 1 ELSE 0]
      /\ active' = IF txn[c].kind = "create" THEN active \cup {p}
                   ELSE IF txn[c].kind = "archive" THEN active \ {p} ELSE active
      /\ archived' = IF txn[c].kind = "archive" THEN archived \cup {p} ELSE archived
  BY DEF commitPortfolio
<1>2. txn[c] \in Txn
  BY <1>1, TransactionHasParts DEF PortfoliosInv
<1>3. p \in Portfolio /\ txn[c].replacement \in Portfolio \cup {None}
        /\ txn[c].default \in BOOLEAN
  BY <1>2 DEF Txn
<1>4. "exclusive" \in txn[c].locks
  BY <1>1 DEF PortfoliosInv, HeldLocks
<1>5. /\ txn' \in [Command -> {Unsent} \cup Txn]
      /\ \A d \in Command \ {c} : txn'[d] = txn[d]
      /\ Apart' /\ \A d \in Command : HeldLocks(d)' /\ ReadStands(c)'
  BY <1>1, <1>2, EndsApart
<1>6. /\ active \subseteq Portfolio /\ archived \subseteq Portfolio \ active
      /\ default \subseteq active /\ HomesAreActive /\ OneIsDefault /\ ReadStands(c)
  BY DEF PortfoliosInv, PortfoliosTypeOK
<1>7. /\ active' \subseteq Portfolio /\ archived' \subseteq Portfolio \ active'
      /\ default' \subseteq active' /\ HomesAreActive' /\ OneIsDefault'
  <2>1. CASE txn[c].kind = "create"
    <3>1. /\ p \notin active \cup archived /\ txn[c].replacement = None
          /\ txn[c].default \/ active # {}
      BY <2>1, <1>1, <1>6 DEF ReadStands
    <3>2. /\ active' = active \cup {p} /\ archived' = archived
          /\ default' = IF txn[c].default THEN {p} ELSE default
      BY <2>1, <3>1, <1>1 DEF promote
    <3>3. OneIsDefault'
      BY <3>1, <3>2, <1>6 DEF OneIsDefault
    <3> QED BY <3>1, <3>2, <3>3, <1>1, <1>3, <1>6 DEF HomesAreActive
  <2>2. CASE txn[c].kind = "makeDefault"
    <3>1. p \in active /\ txn[c].default
      BY <2>2, <1>1, <1>6 DEF ReadStands
    <3>2. active' = active /\ archived' = archived /\ default' = {p}
      BY <2>2, <3>1, <1>1 DEF promote
    <3> QED BY <3>1, <3>2, <1>1, <1>6 DEF HomesAreActive, OneIsDefault
  <2>3. CASE txn[c].kind \in {"giveUpDefault", "archive"}
    <3>1. /\ p \in active /\ ~txn[c].default
          /\ IF p \in default THEN txn[c].replacement \in active \ {p}
             ELSE txn[c].replacement = None
          /\ txn[c].kind = "archive" => \A w \in open : home[w] # p
      BY <2>3, <1>1, <1>6 DEF ReadStands
    <3>2. PICK q \in active : default = {q}
      BY <3>1, <1>6 DEF OneIsDefault
    <3>3. default' = {IF p \in default THEN txn[c].replacement ELSE q}
      <4>1. CASE p \in default
        <5>1. p = q /\ txn[c].replacement \in active /\ txn[c].replacement # None
          BY <4>1, <3>1, <3>2, <1>6, PortfoliosAssumption
        <5> QED BY <4>1, <5>1, <3>1, <3>2, <1>1 DEF promote
      <4>2. CASE p \notin default
        BY <4>2, <3>1, <3>2, <1>1 DEF promote
      <4> QED BY <4>1, <4>2
    <3>4. default' \subseteq active \ {p}
      <4>1. CASE p \in default
        BY <4>1, <3>1, <3>3
      <4>2. CASE p \notin default
        BY <4>2, <3>2, <3>3
      <4> QED BY <4>1, <4>2
    <3>5. CASE txn[c].kind = "archive"
      <4>1. active' = active \ {p} /\ archived' = archived \cup {p}
        BY <3>5, <1>1
      <4>2. default' \subseteq active'
        BY <4>1, <3>4, <1>6
      <4>3. OneIsDefault'
        BY <4>2, <3>3 DEF OneIsDefault
      <4>4. HomesAreActive'
        BY <4>1, <3>1, <3>5, <1>1, <1>6 DEF HomesAreActive
      <4> QED BY <4>1, <4>2, <4>3, <4>4, <1>3, <1>6
    <3>6. CASE txn[c].kind = "giveUpDefault"
      <4>1. active' = active /\ archived' = archived
        BY <3>6, <1>1
      <4>2. default' \subseteq active'
        BY <4>1, <3>4, <1>6
      <4> QED BY <4>1, <4>2, <3>3, <1>1, <1>6 DEF HomesAreActive, OneIsDefault
    <3> QED BY <2>3, <3>5, <3>6
  <2> QED BY <2>1, <2>2, <2>3, <1>1 DEF PortfolioKind
<1>8. version' \in [Portfolio -> Nat]
  <2> ASSUME NEW q \in Portfolio PROVE version[q] + (IF q \in touched THEN 1 ELSE 0) \in Nat
    BY DEF PortfoliosInv, PortfoliosTypeOK
  <2> QED BY <1>1
<1>9. PortfoliosTypeOK'
  BY <1>1, <1>5, <1>7, <1>8 DEF PortfoliosInv, PortfoliosTypeOK
<1>10. ASSUME NEW d \in Command PROVE ReadStands(d)'
  <2>1. CASE d = c
    BY <2>1, <1>5
  <2>2. CASE d # c
    <3>1. txn[d].step \notin UnderWay \/ txn[d].kind = "recompute"
      BY <2>2, <1>4, AloneToWrite
    <3> QED BY <3>1, <2>2, <1>5 DEF ReadStands, UnderWay
  <2> QED BY <2>1, <2>2
<1> QED BY <1>5, <1>7, <1>9, <1>10 DEF PortfoliosInv

LEMMA CommitWorkspaceKeeps ==
    ASSUME PortfoliosInv, NEW c \in Command, commitWorkspace(c) PROVE PortfoliosInv'
<1> DEFINE w == txn[c].workspace
           p == txn[c].portfolio
<1>1. /\ txn[c].step = "written" /\ txn[c].kind \in {"createWorkspace", "archiveWorkspace"}
      /\ end(c, "committed") /\ UNCHANGED <<active, archived, default, version>>
      /\ IF txn[c].kind = "createWorkspace"
         THEN home' = [home EXCEPT ![w] = p] /\ open' = open \cup {w}
         ELSE home' = home /\ open' = open \ {w}
  BY DEF commitWorkspace
<1>2. txn[c] \in Txn
  BY <1>1, TransactionHasParts DEF PortfoliosInv
<1>3. w \in Workspace /\ p \in Portfolio
  BY <1>2 DEF Txn
<1>4. "share" \in txn[c].locks
  BY <1>1 DEF PortfoliosInv, HeldLocks, UnderWay
<1>5. /\ txn' \in [Command -> {Unsent} \cup Txn]
      /\ \A d \in Command \ {c} : txn'[d] = txn[d]
      /\ Apart' /\ \A d \in Command : HeldLocks(d)' /\ ReadStands(c)'
  BY <1>1, <1>2, EndsApart
<1>6. PortfoliosTypeOK'
  BY <1>1, <1>3, <1>5 DEF PortfoliosInv, PortfoliosTypeOK
<1>7. HomesAreActive'
  <2>1. CASE txn[c].kind = "createWorkspace"
    <3>1. p \in active
      BY <2>1, <1>1 DEF PortfoliosInv, ReadStands
    <3> QED BY <2>1, <3>1, <1>1, <1>3
            DEF PortfoliosInv, PortfoliosTypeOK, HomesAreActive
  <2>2. CASE txn[c].kind = "archiveWorkspace"
    BY <2>2, <1>1 DEF PortfoliosInv, HomesAreActive
  <2> QED BY <2>1, <2>2, <1>1
<1>8. OneIsDefault'
  BY <1>1 DEF PortfoliosInv, OneIsDefault
<1>9. ASSUME NEW d \in Command PROVE ReadStands(d)'
  <2>1. CASE d = c
    BY <2>1, <1>5
  <2>2. CASE d # c
    <3>1. "exclusive" \notin txn[d].locks
      <4>1. {"exclusive", "share"} \in Conflicts
        BY DEF Conflicts
      <4> QED BY <4>1, <2>2, <1>4 DEF PortfoliosInv, Apart
    <3>2. txn[d].step \in {"checked", "written"} => txn[d].kind \notin PortfolioKind
      BY <3>1 DEF PortfoliosInv, HeldLocks
    <3>3. ReadStands(d) /\ txn'[d] = txn[d]
      BY <2>2, <1>5 DEF PortfoliosInv
    <3> QED BY <3>2, <3>3, <1>1 DEF ReadStands, PortfolioKind
  <2> QED BY <2>1, <2>2
<1> QED BY <1>5, <1>6, <1>7, <1>8, <1>9 DEF PortfoliosInv

(* A transaction that others wait for holds a lock, so it is under way. *)
LEMMA DeadlockedIsUnderWay ==
    ASSUME PortfoliosInv, NEW c \in Command, deadlocked(c)
    PROVE  txn[c] \in Txn
<1>1. PICK e \in Command : c \in blockers(e)
  BY DEF deadlocked
<1>2. txn[c].locks # {}
  BY <1>1 DEF blockers
<1>3. txn[c].step \in UnderWay
  BY <1>2 DEF PortfoliosInv, HeldLocks
<1> QED BY <1>3, TransactionHasParts DEF PortfoliosInv, UnderWay

LEMMA PortfoliosNextKeeps == PortfoliosInv /\ [PortfoliosNext]_portfoliosVars => PortfoliosInv'
<1> SUFFICES ASSUME PortfoliosInv, [PortfoliosNext]_portfoliosVars PROVE PortfoliosInv'
  OBVIOUS
<1>1. CASE UNCHANGED portfoliosVars
  <2>1. /\ PortfoliosTypeOK' /\ HomesAreActive' /\ OneIsDefault' /\ Apart'
    BY <1>1 DEF portfoliosVars, PortfoliosInv, PortfoliosTypeOK, HomesAreActive,
       OneIsDefault, Apart
  <2>2. \A c \in Command : HeldLocks(c)' /\ ReadStands(c)'
    BY <1>1 DEF portfoliosVars, PortfoliosInv, HeldLocks, ReadStands
  <2> QED BY <2>1, <2>2 DEF PortfoliosInv
<1>2. CASE PortfoliosNext
  <2> PICK c \in Command :
        \/ \E kind \in CommandKinds, p \in Portfolio, w \in Workspace, wish \in BOOLEAN :
              send(c, kind, p, w, wish)
        \/ Progress(c) \/ Abort(c)
    BY <1>2 DEF PortfoliosNext
  <2>0. txn[c].step # "unsent" => txn[c] \in Txn
    BY TransactionHasParts DEF PortfoliosInv
  <2>1. CASE \E kind \in CommandKinds, p \in Portfolio, w \in Workspace, wish \in BOOLEAN :
                send(c, kind, p, w, wish)
    BY <2>1, SendKeeps
  <2>2. CASE refuse(c)
    BY <2>0, <2>2, EndKeeps DEF refuse, ready, Ended
  <2>3. CASE conflict(c)
    BY <2>0, <2>3, EndKeeps DEF conflict, Ended
  <2>4. CASE commitRecompute(c)
    BY <2>0, <2>4, EndKeeps DEF commitRecompute, Ended
  <2>5. CASE deadlock(c)
    BY <2>5, EndKeeps, DeadlockedIsUnderWay DEF deadlock, Ended
  <2>6. CASE Abort(c)
    BY <2>0, <2>6, EndKeeps DEF Abort, UnderWay, Ended
  <2> QED BY <2>1, <2>2, <2>3, <2>4, <2>5, <2>6, WithIdempotencyKeeps, LockKeeps, CheckKeeps,
             WriteKeeps, RecomputeKeeps, CommitPortfolioKeeps, CommitWorkspaceKeeps
          DEF Progress
<1> QED BY <1>1, <1>2

(* What a transaction has read under its lock of the organization, or holds   *)
(* shared, is so until it commits (lockOrganization, withIdempotency).       *)
THEOREM PortfoliosInductive == PortfoliosSpec => []PortfoliosInv
<1>1. PortfoliosInit => PortfoliosInv
  BY PortfoliosInvInit
<1>2. PortfoliosInv /\ [PortfoliosNext]_portfoliosVars => PortfoliosInv'
  BY PortfoliosNextKeeps
<1> QED BY <1>1, <1>2, PTL DEF PortfoliosSpec

(* No workspace in use is in an archived portfolio, and one portfolio is the  *)
(* default, whatever any number of transactions do at once.                  *)
THEOREM HomesAndDefaultStand == PortfoliosSpec => []PortfoliosConsistent
<1>1. PortfoliosInv => PortfoliosConsistent
  BY FS_Singleton DEF PortfoliosInv, PortfoliosConsistent, OneIsDefault, OneDefault
<1> QED BY <1>1, PortfoliosInductive, PTL

(***************************************************************************)
(* Waiting records                                                           *)
(***************************************************************************)
(* What a request that waits for no row any more can count on: it holds the  *)
(* item's row, if it is to write it, and has seen its present version; it    *)
(* has written its record, which is as its page showed it; and while it      *)
(* starts to wait nothing else is waited for.                               *)
HoldsToStart(t) ==
    \/ tx[t].step = "itemLocked"
    \/ tx[t].step = "historyWritten" /\ tx[t].action = "start"

HoldsToAct(t) ==
    \/ tx[t].step = "itemWritten"
    \/ /\ tx[t].step \in {"recordWritten", "historyWritten"}
       /\ tx[t].action # "start" /\ tx[t].withItem

HasWritten(t) == tx[t].step \in {"recordWritten", "historyWritten"}

ItemIsHeld(t) ==
    /\ HoldsToStart(t) =>
          itemLock = [by |-> t, mode |-> "forUpdate"] /\ itemVersion = tx[t].itemVersion
    /\ HoldsToAct(t) =>
          itemLock = [by |-> t, mode |-> "update"] /\ itemVersion = tx[t].itemVersion

RecordIsHeld(t) ==
    HasWritten(t) =>
        /\ recordLock[tx[t].record] = t
        /\ tx[t].action = "start" => \A w \in Record : ~Active(w)
        /\ tx[t].action # "start" =>
              Active(tx[t].record) /\ record[tx[t].record].version = tx[t].version

StepFits(t) ==
    /\ tx[t].step = "itemLocked" => tx[t].action = "start"
    /\ tx[t].step = "itemWritten" => tx[t].action # "start" /\ tx[t].withItem
    /\ tx[t].step = "recordWritten" => tx[t].action # "start"

RequestStands(t) == ItemIsHeld(t) /\ RecordIsHeld(t) /\ StepFits(t)

AtMostOne == \A v, w \in Record : Active(v) /\ Active(w) => v = w

WaitingInv ==
    /\ WaitingTypeOK
    /\ AtMostOne
    /\ \A t \in WaitingRequest : RequestStands(t)

-----------------------------------------------------------------------------
(* The state of a request that is neither new nor over. *)
LEMMA UnderWayIsSent ==
    ASSUME WaitingTypeOK, NEW t \in WaitingRequest, tx[t].step # "unsent"
    PROVE tx[t] \in Sent
<1>1. tx[t] \in {NotSent} \cup Sent
  BY DEF WaitingTypeOK
<1>2. tx[t] # NotSent
  BY DEF NotSent
<1> QED BY <1>1, <1>2

(* A step leaves a request alone, with its locks, the version of the item    *)
(* that it holds, and the records that it has written.                      *)
LeavesAlone(u) ==
    /\ tx'[u] = tx[u]
    /\ itemLock.by = u => itemLock' = itemLock /\ itemVersion' = itemVersion
    /\ \A w \in Record : recordLock[w] = u => recordLock'[w] = u /\ record'[w] = record[w]

(* No record becomes active while the request holds the item. *)
NoneBecomesActive(u) ==
    itemLock.by = u => \A w \in Record : record'[w].state = "active" => Active(w)

(* A request keeps its stand when a step leaves it alone. *)
LEMMA OthersKeepTheirStand ==
    ASSUME NEW u \in WaitingRequest, RequestStands(u), WaitingTypeOK,
           LeavesAlone(u), NoneBecomesActive(u)
    PROVE  RequestStands(u)'
<1> DEFINE r == tx[u]
<1>t. tx'[u] = r
  BY DEF LeavesAlone
<1>1. /\ HoldsToStart(u)' <=> HoldsToStart(u)
      /\ HoldsToAct(u)' <=> HoldsToAct(u)
      /\ HasWritten(u)' <=> HasWritten(u)
  BY <1>t DEF HoldsToStart, HoldsToAct, HasWritten
<1>2. StepFits(u)'
  BY <1>t DEF RequestStands, StepFits
<1>3. ItemIsHeld(u)'
  <2>1. CASE ~HoldsToStart(u) /\ ~HoldsToAct(u)
    BY <1>1, <2>1 DEF ItemIsHeld
  <2>2. CASE HoldsToStart(u) \/ HoldsToAct(u)
    <3>1. itemLock.by = u
      BY <2>2 DEF RequestStands, ItemIsHeld
    <3>2. itemLock' = itemLock /\ itemVersion' = itemVersion
      BY <3>1 DEF LeavesAlone
    <3> QED BY <1>1, <1>t, <3>2 DEF RequestStands, ItemIsHeld
  <2> QED BY <2>1, <2>2
<1>4. RecordIsHeld(u)'
  <2>1. CASE ~HasWritten(u)
    BY <1>1, <2>1 DEF RecordIsHeld
  <2>2. CASE HasWritten(u)
    <3>1. r.step # "unsent"
      BY <2>2 DEF HasWritten
    <3>2. r.record \in Record
      BY <3>1, UnderWayIsSent DEF Sent
    <3>3. /\ recordLock[r.record] = u
          /\ r.action = "start" => \A w \in Record : ~Active(w)
          /\ r.action # "start" => Active(r.record) /\ record[r.record].version = r.version
      BY <2>2 DEF RequestStands, RecordIsHeld
    <3>4. recordLock'[r.record] = u /\ record'[r.record] = record[r.record]
      BY <3>2, <3>3 DEF LeavesAlone
    <3>5. ASSUME r.action = "start" PROVE \A w \in Record : record'[w].state # "active"
      <4>1. HoldsToStart(u)
        BY <2>2, <3>5 DEF HasWritten, HoldsToStart, RequestStands, StepFits
      <4>2. itemLock.by = u
        BY <4>1 DEF RequestStands, ItemIsHeld
      <4> QED BY <3>3, <3>5, <4>2 DEF NoneBecomesActive
    <3> QED BY <1>t, <3>3, <3>4, <3>5 DEF RecordIsHeld, Active
  <2> QED BY <2>1, <2>2
<1> QED BY <1>2, <1>3, <1>4 DEF RequestStands

(* A transaction ends: its locks are given back, the others keep theirs, and *)
(* it needs nothing to stand on.                                            *)
LEMMA EndReleases ==
    ASSUME WaitingTypeOK, NEW t \in WaitingRequest, NEW step \in Over,
           tx[t].step \in Running, releaseLocks(t, step)
    PROVE  /\ tx' \in [WaitingRequest -> {NotSent} \cup Sent]
           /\ itemLock' \in [by : WaitingRequest \cup {Nobody}, mode : {"none", "update", "forUpdate"}]
           /\ keyShare' \subseteq WaitingRequest
           /\ recordLock' \in [Record -> WaitingRequest \cup {Nobody}]
           /\ \A u \in {itemLock'.by} \cup keyShare' \cup {recordLock'[w] : w \in Record} :
                 u = Nobody \/ tx'[u].step \in Running
           /\ RequestStands(t)'
           /\ \A u \in WaitingRequest \ {t} :
                 /\ tx'[u] = tx[u]
                 /\ itemLock.by = u => itemLock' = itemLock
                 /\ \A w \in Record : recordLock[w] = u => recordLock'[w] = u
<1>1. tx[t] \in Sent
  BY UnderWayIsSent DEF Running
<1>2. tx' = [tx EXCEPT ![t].step = step]
  BY DEF releaseLocks
<1>3. tx' \in [WaitingRequest -> {NotSent} \cup Sent] /\ tx'[t].step = step
  <2>1. [tx[t] EXCEPT !.step = step] \in Sent
    BY <1>1 DEF Sent
  <2> QED BY <1>2, <2>1 DEF WaitingTypeOK
<1>4. \A u \in WaitingRequest \ {t} : tx'[u] = tx[u]
  BY <1>2 DEF WaitingTypeOK
<1>5. /\ itemLock' \in [by : WaitingRequest \cup {Nobody}, mode : {"none", "update", "forUpdate"}]
      /\ itemLock'.by # t
      /\ itemLock' # itemLock => itemLock'.by = Nobody /\ itemLock.by = t
  BY WaitingAssumption DEF releaseLocks, WaitingTypeOK
<1>6. keyShare' \subseteq WaitingRequest /\ t \notin keyShare' /\ keyShare' \subseteq keyShare
  BY DEF releaseLocks, WaitingTypeOK
<1>7. recordLock' \in [Record -> WaitingRequest \cup {Nobody}]
  BY DEF releaseLocks, WaitingTypeOK
<1>8. ASSUME NEW w \in Record
      PROVE  recordLock'[w] = IF recordLock[w] = t THEN Nobody ELSE recordLock[w]
  BY DEF releaseLocks
<1>9. ASSUME NEW u \in {itemLock'.by} \cup keyShare' \cup {recordLock'[w] : w \in Record}, u # Nobody
      PROVE  tx'[u].step \in Running
  <2>1. u \in WaitingRequest \ {t}
    BY <1>5, <1>6, <1>7, <1>8, <1>9
  <2>2. u \in {itemLock.by} \cup keyShare \cup {recordLock[w] : w \in Record}
    BY <1>5, <1>6, <1>8, <1>9
  <2> QED BY <1>4, <1>9, <2>1, <2>2 DEF WaitingTypeOK
<1>10. RequestStands(t)'
  <2>1. tx'[t].step \notin {"itemLocked", "itemWritten", "recordWritten", "historyWritten"}
    BY <1>3 DEF Over
  <2> QED BY <2>1 DEF RequestStands, ItemIsHeld, RecordIsHeld, StepFits, HoldsToStart, HoldsToAct, HasWritten
<1> QED BY <1>3, <1>4, <1>5, <1>6, <1>7, <1>8, <1>9, <1>10, WaitingAssumption

(* A request that ends without effect: refused, failed or cut off. *)
LEMMA EndWithoutEffect ==
    ASSUME WaitingInv, NEW t \in WaitingRequest, NEW step \in Over,
           tx[t].step \in Running, releaseLocks(t, step), UNCHANGED <<itemVersion, record>>
    PROVE  WaitingInv'
<1>1. WaitingTypeOK'
  BY EndReleases DEF WaitingInv, WaitingTypeOK
<1>2. AtMostOne'
  BY DEF WaitingInv, AtMostOne, Active
<1>3. ASSUME NEW u \in WaitingRequest PROVE RequestStands(u)'
  <2>1. CASE u = t
    BY <2>1, EndReleases DEF WaitingInv
  <2>2. CASE u # t
    <3>1. LeavesAlone(u) /\ NoneBecomesActive(u)
      BY <2>2, EndReleases DEF WaitingInv, LeavesAlone, NoneBecomesActive, Active
    <3> QED BY <3>1, OthersKeepTheirStand DEF WaitingInv
  <2> QED BY <2>1, <2>2
<1> QED BY <1>1, <1>2, <1>3 DEF WaitingInv

LEMMA RefusedStands ==
    ASSUME WaitingInv, NEW t \in WaitingRequest, tx[t].step \in Running, refuseRequest(t)
    PROVE  WaitingInv'
BY EndWithoutEffect DEF refuseRequest, Over

-----------------------------------------------------------------------------
(* A request goes on to its next step and changes no committed row: it may   *)
(* have taken the item's row, a record or the item's key, which nobody had.  *)
LEMMA TransactionGoesOn ==
    ASSUME WaitingInv, NEW t \in WaitingRequest, NEW step \in Running,
           tx[t].step \in Running,
           tx' = [tx EXCEPT ![t].step = step], UNCHANGED <<itemVersion, record>>,
           \/ itemLock' = itemLock
           \/ itemLock.by = Nobody /\ itemLock' \in [by : {t}, mode : {"update", "forUpdate"}],
           \/ recordLock' = recordLock
           \/ \E w \in Record : recordLock[w] = Nobody /\ recordLock' = [recordLock EXCEPT ![w] = t],
           keyShare' \subseteq keyShare \cup {t},
           RequestStands(t)'
    PROVE  WaitingInv'
<1>1. tx[t] \in Sent
  BY UnderWayIsSent DEF WaitingInv, Running
<1>2. tx' \in [WaitingRequest -> {NotSent} \cup Sent] /\ tx'[t].step = step
  <2>1. [tx[t] EXCEPT !.step = step] \in Sent
    BY <1>1 DEF Sent
  <2> QED BY <2>1 DEF WaitingInv, WaitingTypeOK
<1>3. \A u \in WaitingRequest \ {t} : tx'[u] = tx[u]
  BY DEF WaitingInv, WaitingTypeOK
<1>4. /\ itemLock' \in [by : WaitingRequest \cup {Nobody}, mode : {"none", "update", "forUpdate"}]
      /\ itemLock'.by \in {itemLock.by, t}
      /\ itemLock.by \notin {t, Nobody} => itemLock' = itemLock
  BY DEF WaitingInv, WaitingTypeOK
<1>5. recordLock' \in [Record -> WaitingRequest \cup {Nobody}]
  BY DEF WaitingInv, WaitingTypeOK
<1>6. ASSUME NEW w \in Record
      PROVE  recordLock'[w] \in {recordLock[w], t} /\ (recordLock[w] # Nobody => recordLock'[w] = recordLock[w])
  BY DEF WaitingInv, WaitingTypeOK
<1>7. ASSUME NEW u \in {itemLock'.by} \cup keyShare' \cup {recordLock'[w] : w \in Record}, u # Nobody
      PROVE  tx'[u].step \in Running
  <2>1. u = t \/ u \in {itemLock.by} \cup keyShare \cup {recordLock[w] : w \in Record}
    BY <1>4, <1>6, <1>7
  <2>2. CASE u = t
    BY <1>2, <2>2
  <2>3. CASE u # t
    <3>1. u \in WaitingRequest /\ tx[u].step \in Running
      BY <1>7, <2>1, <2>3 DEF WaitingInv, WaitingTypeOK
    <3> QED BY <1>3, <2>3, <3>1
  <2> QED BY <2>2, <2>3
<1>8. WaitingTypeOK'
  BY <1>2, <1>4, <1>5, <1>7 DEF WaitingInv, WaitingTypeOK
<1>9. AtMostOne'
  BY DEF WaitingInv, AtMostOne, Active
<1>10. ASSUME NEW u \in WaitingRequest PROVE RequestStands(u)'
  <2>1. CASE u = t
    BY <2>1
  <2>2. CASE u # t
    <3>1. u # Nobody
      BY WaitingAssumption
    <3>2. LeavesAlone(u)
      BY <1>3, <1>4, <1>6, <2>2, <3>1 DEF LeavesAlone
    <3>3. NoneBecomesActive(u)
      BY DEF NoneBecomesActive, Active
    <3> QED BY <3>2, <3>3, OthersKeepTheirStand DEF WaitingInv
  <2> QED BY <2>1, <2>2
<1> QED BY <1>8, <1>9, <1>10 DEF WaitingInv

-----------------------------------------------------------------------------
(* A page's request is new. *)
LEMMA NewRequestStands ==
    ASSUME WaitingInv, NEW t \in WaitingRequest, Start(t) \/ Act(t)
    PROVE  WaitingInv'
<1>1. PICK q \in Sent : q.step = "sent" /\ tx' = [tx EXCEPT ![t] = q]
  <2>1. CASE Start(t)
    <3>1. PICK w \in Record :
             tx' = [tx EXCEPT ![t] =
                [step |-> "sent", action |-> "start", record |-> w,
                 withItem |-> TRUE, itemVersion |-> itemVersion, version |-> 0]]
      BY <2>1 DEF Start
    <3>2. [step |-> "sent", action |-> "start", record |-> w,
           withItem |-> TRUE, itemVersion |-> itemVersion, version |-> 0] \in Sent
      BY DEF Sent, Running, WaitingInv, WaitingTypeOK
    <3> QED BY <3>1, <3>2
  <2>2. CASE Act(t)
    <3>1. PICK w \in Record, action \in {"resolve", "reschedule"}, withItem \in BOOLEAN :
             tx' = [tx EXCEPT ![t] =
                [step |-> "sent", action |-> action, record |-> w,
                 withItem |-> withItem, itemVersion |-> itemVersion,
                 version |-> record[w].version]]
      BY <2>2 DEF Act
    <3>2. record[w].version \in Nat /\ itemVersion \in Nat
      BY DEF WaitingInv, WaitingTypeOK
    <3>3. [step |-> "sent", action |-> action, record |-> w,
           withItem |-> withItem, itemVersion |-> itemVersion,
           version |-> record[w].version] \in Sent
      BY <3>2 DEF Sent, Running
    <3> QED BY <3>1, <3>3
  <2> QED BY <2>1, <2>2
<1>2. tx[t] = NotSent /\ UNCHANGED <<itemVersion, record, itemLock, keyShare, recordLock>>
  BY DEF Start, Act
<1>3. tx' \in [WaitingRequest -> {NotSent} \cup Sent] /\ tx'[t] = q
      /\ \A u \in WaitingRequest \ {t} : tx'[u] = tx[u]
  BY <1>1 DEF WaitingInv, WaitingTypeOK
<1>4. ASSUME NEW u \in {itemLock.by} \cup keyShare \cup {recordLock[w] : w \in Record}, u # Nobody
      PROVE  tx'[u].step \in Running
  <2>1. u \in WaitingRequest /\ tx[u].step \in Running
    BY <1>4 DEF WaitingInv, WaitingTypeOK
  <2>2. u # t
    BY <1>2, <2>1 DEF NotSent, Running
  <2> QED BY <1>3, <2>1, <2>2
<1>5. WaitingTypeOK'
  BY <1>2, <1>3, <1>4 DEF WaitingInv, WaitingTypeOK
<1>6. AtMostOne'
  BY <1>2 DEF WaitingInv, AtMostOne, Active
<1>7. ASSUME NEW u \in WaitingRequest PROVE RequestStands(u)'
  <2>1. CASE u = t
    <3>1. tx'[u].step = "sent"
      BY <1>1, <1>3, <2>1
    <3> QED BY <3>1 DEF RequestStands, ItemIsHeld, RecordIsHeld, StepFits, HoldsToStart, HoldsToAct, HasWritten
  <2>2. CASE u # t
    <3>1. LeavesAlone(u) /\ NoneBecomesActive(u)
      BY <1>2, <1>3, <2>2 DEF LeavesAlone, NoneBecomesActive, Active
    <3> QED BY <3>1, OthersKeepTheirStand DEF WaitingInv
  <2> QED BY <2>1, <2>2
<1> QED BY <1>5, <1>6, <1>7 DEF WaitingInv

(* Taking the item's row: it has the version that the page showed. *)
LEMMA ItemIsTaken ==
    ASSUME WaitingInv, NEW t \in WaitingRequest, lockScopedWorkItems(t) \/ actOnItem(t)
    PROVE  WaitingInv'
<1>0. tx[t].step = "sent" /\ tx[t].step \in Running
  BY DEF lockScopedWorkItems, actOnItem, Running
<1>1. CASE refuseRequest(t)
  BY <1>0, <1>1, RefusedStands
<1>2. CASE ~refuseRequest(t)
  <2>t. tx[t] \in Sent
    BY <1>0, UnderWayIsSent DEF WaitingInv
  <2>1. CASE lockScopedWorkItems(t)
    <3>1. /\ tx[t].action = "start" /\ itemLock.by = Nobody /\ itemVersion = tx[t].itemVersion
          /\ itemLock' = [by |-> t, mode |-> "forUpdate"]
          /\ tx' = [tx EXCEPT ![t].step = "itemLocked"]
          /\ UNCHANGED <<itemVersion, record, keyShare, recordLock>>
      BY <1>2, <2>1 DEF lockScopedWorkItems
    <3>2. tx'[t] = [tx[t] EXCEPT !.step = "itemLocked"]
      BY <3>1 DEF WaitingInv, WaitingTypeOK
    <3>3. tx'[t].step = "itemLocked" /\ tx'[t].action = "start" /\ tx'[t].itemVersion = itemVersion
      BY <2>t, <3>1, <3>2 DEF Sent
    <3>4. RequestStands(t)'
      BY <3>1, <3>3 DEF RequestStands, ItemIsHeld, RecordIsHeld, StepFits, HoldsToStart, HoldsToAct, HasWritten
    <3> QED BY <1>0, <3>1, <3>4, TransactionGoesOn DEF Running
  <2>2. CASE actOnItem(t)
    <3>1. /\ tx[t].action # "start" /\ tx[t].withItem
          /\ itemLock.by = Nobody /\ itemVersion = tx[t].itemVersion
          /\ itemLock' = [by |-> t, mode |-> "update"]
          /\ tx' = [tx EXCEPT ![t].step = "itemWritten"]
          /\ UNCHANGED <<itemVersion, record, keyShare, recordLock>>
      BY <1>2, <2>2 DEF actOnItem
    <3>2. tx'[t] = [tx[t] EXCEPT !.step = "itemWritten"]
      BY <3>1 DEF WaitingInv, WaitingTypeOK
    <3>3. tx'[t].step = "itemWritten" /\ tx'[t].action # "start" /\ tx'[t].itemVersion = itemVersion
      BY <2>t, <3>1, <3>2 DEF Sent
    <3>4. tx'[t].withItem
      BY <2>t, <3>1, <3>2 DEF Sent
    <3>5. RequestStands(t)'
      BY <3>1, <3>3, <3>4 DEF RequestStands, ItemIsHeld, RecordIsHeld, StepFits, HoldsToStart, HoldsToAct, HasWritten
    <3> QED BY <1>0, <3>1, <3>5, TransactionGoesOn DEF Running
  <2> QED BY <2>1, <2>2
<1> QED BY <1>1, <1>2

(* A new record, while no other is active. *)
LEMMA RecordIsInserted ==
    ASSUME WaitingInv, NEW t \in WaitingRequest, createWaiting(t)
    PROVE  WaitingInv'
<1>0. tx[t].step = "itemLocked" /\ tx[t].step \in Running
  BY DEF createWaiting, Running
<1>1. CASE refuseRequest(t)
  BY <1>0, <1>1, RefusedStands
<1>2. CASE ~refuseRequest(t)
  <2>1. /\ \A w \in Record : recordLock[w] = Nobody
        /\ ~\E w \in Record : Active(w)
        /\ recordLock' = [recordLock EXCEPT ![tx[t].record] = t]
        /\ tx' = [tx EXCEPT ![t].step = "historyWritten"]
        /\ UNCHANGED <<itemVersion, record, itemLock, keyShare>>
    BY <1>2 DEF createWaiting
  <2>2. tx[t] \in Sent
    BY <1>0, UnderWayIsSent DEF WaitingInv
  <2>3. tx'[t] = [tx[t] EXCEPT !.step = "historyWritten"]
    BY <2>1 DEF WaitingInv, WaitingTypeOK
  <2>4. /\ tx[t].action = "start" /\ itemVersion = tx[t].itemVersion
        /\ itemLock = [by |-> t, mode |-> "forUpdate"]
    BY <1>0 DEF WaitingInv, RequestStands, StepFits, ItemIsHeld, HoldsToStart
  <2>5. /\ tx'[t].step = "historyWritten" /\ tx'[t].action = "start"
        /\ tx'[t].itemVersion = itemVersion /\ tx'[t].record = tx[t].record
        /\ tx[t].record \in Record
    BY <2>2, <2>3, <2>4 DEF Sent
  <2>6. recordLock'[tx[t].record] = t
    BY <2>1, <2>5 DEF WaitingInv, WaitingTypeOK
  <2>7. RequestStands(t)'
    BY <2>1, <2>4, <2>5, <2>6
       DEF RequestStands, ItemIsHeld, RecordIsHeld, StepFits, HoldsToStart, HoldsToAct, HasWritten, Active
  <2> QED BY <1>0, <2>1, <2>5, <2>7, TransactionGoesOn DEF Running
<1> QED BY <1>1, <1>2

(* An update of an active record that has the version of the page. *)
LEMMA RecordIsUpdated ==
    ASSUME WaitingInv, NEW t \in WaitingRequest, actOnWaiting(t)
    PROVE  WaitingInv'
<1>0. actsOnRecord(t) /\ tx[t].step \in Running
  BY DEF actOnWaiting, actsOnRecord, Running
<1>1. CASE refuseRequest(t)
  BY <1>0, <1>1, RefusedStands
<1>2. CASE ~refuseRequest(t)
  <2>1. /\ recordLock[tx[t].record] = Nobody
        /\ Active(tx[t].record) /\ record[tx[t].record].version = tx[t].version
        /\ recordLock' = [recordLock EXCEPT ![tx[t].record] = t]
        /\ tx' = [tx EXCEPT ![t].step = "recordWritten"]
        /\ UNCHANGED <<itemVersion, record, itemLock, keyShare>>
    BY <1>2 DEF actOnWaiting
  <2>2. tx[t] \in Sent
    BY <1>0, UnderWayIsSent DEF WaitingInv, Running
  <2>3. tx'[t] = [tx[t] EXCEPT !.step = "recordWritten"]
    BY <2>1 DEF WaitingInv, WaitingTypeOK
  <2>4. tx[t].action # "start"
    BY <1>0 DEF actsOnRecord, WaitingInv, RequestStands, StepFits
  <2>5. tx[t].withItem =>
           itemLock = [by |-> t, mode |-> "update"] /\ itemVersion = tx[t].itemVersion
    BY <1>0 DEF actsOnRecord, WaitingInv, RequestStands, ItemIsHeld, HoldsToAct
  <2>6. /\ tx'[t].step = "recordWritten" /\ tx'[t].action = tx[t].action
        /\ tx'[t].itemVersion = tx[t].itemVersion /\ tx'[t].record = tx[t].record
        /\ tx'[t].version = tx[t].version /\ tx[t].record \in Record
    BY <2>2, <2>3 DEF Sent
  <2>7. tx'[t].withItem = tx[t].withItem
    BY <2>2, <2>3 DEF Sent
  <2>8. recordLock'[tx[t].record] = t
    BY <2>1, <2>6 DEF WaitingInv, WaitingTypeOK
  <2>9. ItemIsHeld(t)' /\ StepFits(t)'
    BY <2>1, <2>4, <2>5, <2>6, <2>7 DEF ItemIsHeld, StepFits, HoldsToStart, HoldsToAct
  <2>10. RecordIsHeld(t)'
    BY <2>1, <2>4, <2>6, <2>8 DEF RecordIsHeld, HasWritten, Active
  <2>11. RequestStands(t)'
    BY <2>9, <2>10 DEF RequestStands
  <2> QED BY <1>0, <2>1, <2>6, <2>11, TransactionGoesOn DEF Running
<1> QED BY <1>1, <1>2

(* The row of the history. *)
LEMMA HistoryIsAppended ==
    ASSUME WaitingInv, NEW t \in WaitingRequest, appendWorkItemHistory(t)
    PROVE  WaitingInv'
<1>1. /\ tx[t].step = "recordWritten" /\ tx[t].step \in Running
      /\ keyShare' = keyShare \cup {t}
      /\ tx' = [tx EXCEPT ![t].step = "historyWritten"]
      /\ UNCHANGED <<itemVersion, record, itemLock, recordLock>>
  BY DEF appendWorkItemHistory, Running
<1>2. tx[t] \in Sent
  BY <1>1, UnderWayIsSent DEF WaitingInv
<1>3. tx'[t] = [tx[t] EXCEPT !.step = "historyWritten"]
  BY <1>1 DEF WaitingInv, WaitingTypeOK
<1>4. tx[t].action # "start"
  BY <1>1 DEF WaitingInv, RequestStands, StepFits
<1>5. /\ tx'[t].step = "historyWritten" /\ tx'[t].action = tx[t].action
      /\ tx'[t].itemVersion = tx[t].itemVersion /\ tx'[t].record = tx[t].record
      /\ tx'[t].version = tx[t].version
  BY <1>2, <1>3 DEF Sent
<1>6. tx'[t].withItem = tx[t].withItem
  BY <1>2, <1>3 DEF Sent
<1>7. ItemIsHeld(t)' /\ StepFits(t)'
  BY <1>1, <1>4, <1>5, <1>6 DEF WaitingInv, RequestStands, ItemIsHeld, StepFits, HoldsToStart, HoldsToAct
<1>8. RecordIsHeld(t)'
  BY <1>1, <1>4, <1>5 DEF WaitingInv, RequestStands, RecordIsHeld, HasWritten, Active
<1>9. RequestStands(t)'
  BY <1>7, <1>8 DEF RequestStands
<1> QED BY <1>1, <1>9, TransactionGoesOn DEF Running

(* What a commit leaves of the records. *)
LEMMA CommittedRecords ==
    ASSUME WaitingInv, NEW t \in WaitingRequest, Commit(t)
    PROVE  /\ tx[t] \in Sent /\ recordLock[tx[t].record] = t
           /\ record' \in [Record -> [state : {"none", "active", "resolved"}, version : Nat]]
           /\ \A w \in Record \ {tx[t].record} : record'[w] = record[w]
           /\ tx[t].action # "start" => \A w \in Record : Active(w)' => Active(w)
           /\ tx[t].action = "start" => /\ itemLock.by = t
                                        /\ \A w \in Record : ~Active(w)
<1> DEFINE r == tx[t].record
           old == record[r]
           new == CASE tx[t].action = "start" -> [state |-> "active", version |-> 0]
                    [] tx[t].action = "resolve" -> [state |-> "resolved", version |-> old.version + 1]
                    [] OTHER -> [state |-> old.state, version |-> old.version + 1]
<1>1. tx[t].step = "historyWritten"
  BY DEF Commit
<1>2. tx[t] \in Sent /\ r \in Record
  BY <1>1, UnderWayIsSent DEF WaitingInv, Sent
<1>3. /\ recordLock[r] = t
      /\ tx[t].action = "start" => \A w \in Record : ~Active(w)
      /\ tx[t].action # "start" => Active(r)
  BY <1>1 DEF WaitingInv, RequestStands, RecordIsHeld, HasWritten
<1>4. tx[t].action = "start" => itemLock.by = t
  BY <1>1 DEF WaitingInv, RequestStands, ItemIsHeld, HoldsToStart
<1>5. record' = [record EXCEPT ![r] = new]
  BY DEF Commit
<1>6. old \in [state : {"none", "active", "resolved"}, version : Nat]
  BY <1>2 DEF WaitingInv, WaitingTypeOK
<1>7. new \in [state : {"none", "active", "resolved"}, version : Nat]
  BY <1>6
<1> HIDE DEF new
<1>8. record' \in [Record -> [state : {"none", "active", "resolved"}, version : Nat]]
      /\ \A w \in Record \ {r} : record'[w] = record[w]
  BY <1>2, <1>5, <1>7 DEF WaitingInv, WaitingTypeOK
<1>9. tx[t].action # "start" => \A w \in Record : Active(w)' => Active(w)
  BY <1>3, <1>8 DEF Active
<1> QED BY <1>2, <1>3, <1>4, <1>8, <1>9

LEMMA CommitStands ==
    ASSUME WaitingInv, NEW t \in WaitingRequest, Commit(t)
    PROVE  WaitingInv'
<1>0. /\ tx[t].step = "historyWritten" /\ tx[t].step \in Running
      /\ releaseLocks(t, "committed") /\ "committed" \in Over
  BY DEF Commit, Running, Over
<1>1. /\ tx[t] \in Sent /\ recordLock[tx[t].record] = t
      /\ record' \in [Record -> [state : {"none", "active", "resolved"}, version : Nat]]
      /\ \A w \in Record \ {tx[t].record} : record'[w] = record[w]
      /\ tx[t].action # "start" => \A w \in Record : Active(w)' => Active(w)
      /\ tx[t].action = "start" => itemLock.by = t /\ \A w \in Record : ~Active(w)
  BY CommittedRecords
<1>2. itemVersion' \in Nat /\ (itemVersion' # itemVersion => tx[t].withItem)
  BY DEF Commit, WaitingInv, WaitingTypeOK
<1>3. tx[t].withItem => itemLock.by = t
  <2>1. CASE tx[t].action = "start"
    BY <1>1, <2>1
  <2>2. CASE tx[t].action # "start"
    BY <1>0, <2>2 DEF WaitingInv, RequestStands, ItemIsHeld, HoldsToAct
  <2> QED BY <2>1, <2>2
<1>4. WaitingTypeOK'
  BY <1>0, <1>1, <1>2, EndReleases DEF WaitingInv, WaitingTypeOK
<1>5. AtMostOne'
  <2>1. CASE tx[t].action = "start"
    <3>1. \A w \in Record : Active(w)' => w = tx[t].record
      BY <1>1, <2>1 DEF Active
    <3> QED BY <3>1 DEF AtMostOne, Active
  <2>2. CASE tx[t].action # "start"
    BY <1>1, <2>2 DEF WaitingInv, AtMostOne, Active
  <2> QED BY <2>1, <2>2
<1>6. ASSUME NEW u \in WaitingRequest PROVE RequestStands(u)'
  <2>1. CASE u = t
    BY <1>0, <2>1, EndReleases DEF WaitingInv
  <2>2. CASE u # t
    <3>1. /\ tx'[u] = tx[u]
          /\ itemLock.by = u => itemLock' = itemLock
          /\ \A w \in Record : recordLock[w] = u => recordLock'[w] = u
      BY <1>0, <2>2, EndReleases DEF WaitingInv
    <3>2. itemLock.by = u => itemVersion' = itemVersion
      BY <1>2, <1>3, <2>2
    <3>3. \A w \in Record : recordLock[w] = u => record'[w] = record[w]
      BY <1>1, <2>2
    <3>4. LeavesAlone(u)
      BY <3>1, <3>2, <3>3 DEF LeavesAlone
    <3>5. NoneBecomesActive(u)
      BY <1>1, <2>2 DEF NoneBecomesActive, Active
    <3> QED BY <3>4, <3>5, OthersKeepTheirStand DEF WaitingInv
  <2> QED BY <2>1, <2>2
<1> QED BY <1>4, <1>5, <1>6 DEF WaitingInv

(* Anyone else changes the item when nobody holds its row. *)
LEMMA OthersChangeTheItem ==
    ASSUME WaitingInv, updateWaitedItem
    PROVE  WaitingInv'
<1>1. WaitingTypeOK'
  BY DEF updateWaitedItem, WaitingInv, WaitingTypeOK
<1>2. AtMostOne'
  BY DEF updateWaitedItem, WaitingInv, AtMostOne, Active
<1>3. ASSUME NEW u \in WaitingRequest PROVE RequestStands(u)'
  <2>1. LeavesAlone(u) /\ NoneBecomesActive(u)
    BY WaitingAssumption DEF updateWaitedItem, LeavesAlone, NoneBecomesActive, Active
  <2> QED BY <2>1, OthersKeepTheirStand DEF WaitingInv
<1> QED BY <1>1, <1>2, <1>3 DEF WaitingInv

-----------------------------------------------------------------------------
(* The stand of every request is kept by all that the server and the         *)
(* database do.                                                             *)
THEOREM WaitingInductive == WaitingSpec => []WaitingInv
<1>1. WaitingInit => WaitingInv
  <2> SUFFICES ASSUME WaitingInit PROVE WaitingInv
    OBVIOUS
  <2>1. WaitingTypeOK
    BY DEF WaitingInit, WaitingTypeOK
  <2>2. AtMostOne
    BY DEF WaitingInit, AtMostOne, Active
  <2>3. ASSUME NEW t \in WaitingRequest PROVE RequestStands(t)
    <3>1. tx[t].step = "unsent"
      BY DEF WaitingInit, NotSent
    <3> QED BY <3>1 DEF RequestStands, ItemIsHeld, RecordIsHeld, StepFits, HoldsToStart, HoldsToAct, HasWritten
  <2> QED BY <2>1, <2>2, <2>3 DEF WaitingInv
<1>2. WaitingInv /\ [WaitingNext]_waitingVars => WaitingInv'
  <2> SUFFICES ASSUME WaitingInv, [WaitingNext]_waitingVars PROVE WaitingInv'
    OBVIOUS
  <2>1. CASE UNCHANGED waitingVars
    BY <2>1 DEF waitingVars, WaitingInv, WaitingTypeOK, AtMostOne, Active, RequestStands,
                ItemIsHeld, RecordIsHeld, StepFits, HoldsToStart, HoldsToAct, HasWritten
  <2>2. CASE updateWaitedItem
    BY <2>2, OthersChangeTheItem
  <2>3. ASSUME NEW t \in WaitingRequest, Start(t) \/ Act(t) \/ Step(t) \/ Rollback(t)
        PROVE  WaitingInv'
    <3>1. CASE Start(t) \/ Act(t)
      BY <3>1, NewRequestStands
    <3>2. CASE lockScopedWorkItems(t) \/ actOnItem(t)
      BY <3>2, ItemIsTaken
    <3>3. CASE createWaiting(t)
      BY <3>3, RecordIsInserted
    <3>4. CASE actOnWaiting(t)
      BY <3>4, RecordIsUpdated
    <3>5. CASE appendWorkItemHistory(t)
      BY <3>5, HistoryIsAppended
    <3>6. CASE Commit(t)
      BY <3>6, CommitStands
    <3>7. CASE Deadlock(t)
      <4>1. WaitsFor(t) # {}
        BY <3>7 DEF Deadlock
      <4>2. tx[t].step \in Running
        BY <4>1 DEF WaitsFor, actsOnRecord, Running
      <4> QED BY <3>7, <4>2, EndWithoutEffect DEF Deadlock, Over
    <3>8. CASE Rollback(t)
      BY <3>8, EndWithoutEffect DEF Rollback, Over
    <3> QED BY <2>3, <3>1, <3>2, <3>3, <3>4, <3>5, <3>6, <3>7, <3>8 DEF Step
  <2> QED BY <2>1, <2>2, <2>3 DEF WaitingNext
<1> QED BY <1>1, <1>2, PTL DEF WaitingSpec

(* One thing at a time is waited for, and no request changes an item or a    *)
(* record that is not as its page showed it.                                *)
THEOREM WaitedForAsSeen == WaitingSpec => WaitingKept
<1>1. WaitingInv => WaitingTypeOK /\ OneActivePerItem
  <2> SUFFICES ASSUME WaitingInv PROVE OneActivePerItem
    BY DEF WaitingInv
  <2> DEFINE S == {w \in Record : Active(w)}
  <2>1. CASE S = {}
    BY <2>1, FS_EmptySet DEF OneActivePerItem
  <2>2. CASE S # {}
    <3>1. PICK w \in S : TRUE
      BY <2>2
    <3>2. S = {w}
      BY <3>1 DEF WaitingInv, AtMostOne
    <3> HIDE DEF S
    <3>3. Cardinality({w}) = 1
      BY FS_Singleton
    <3>4. Cardinality(S) <= 1
      BY <3>2, <3>3
    <3> QED BY <3>4 DEF OneActivePerItem, S
  <2> QED BY <2>1, <2>2
<1>2. WaitingInv =>
         \A t \in WaitingRequest :
            tx[t].step = "historyWritten" /\ tx'[t].step = "committed" =>
               /\ tx[t].withItem => itemVersion = tx[t].itemVersion
               /\ tx[t].action # "start" =>
                     Active(tx[t].record) /\ record[tx[t].record].version = tx[t].version
  <2> SUFFICES ASSUME WaitingInv, NEW t \in WaitingRequest, tx[t].step = "historyWritten"
               PROVE  /\ tx[t].withItem => itemVersion = tx[t].itemVersion
                      /\ tx[t].action # "start" =>
                            Active(tx[t].record) /\ record[tx[t].record].version = tx[t].version
    OBVIOUS
  <2>1. tx[t].withItem => itemVersion = tx[t].itemVersion
    BY DEF WaitingInv, RequestStands, ItemIsHeld, HoldsToStart, HoldsToAct
  <2>2. tx[t].action # "start" =>
           Active(tx[t].record) /\ record[tx[t].record].version = tx[t].version
    BY DEF WaitingInv, RequestStands, RecordIsHeld, HasWritten
  <2> QED BY <2>1, <2>2
<1> QED BY <1>1, <1>2, WaitingInductive, PTL DEF WaitingKept, ActsOnWhatWasSeen

-----------------------------------------------------------------------------
(***************************************************************************)
(* Dependencies, for every number of items, requests and changes: a search   *)
(* sees every dependency that shares an item with the one to be added, as    *)
(* nobody else has the lock of either item until it is.                      *)
(***************************************************************************)

(* One step of the search: the items that those of S depend on.                *)
Followed(E, S) == {e[2] : e \in {x \in E : x[1] \in S}}

(* What is found after each number of steps, up to n.                          *)
Found(E, i, n, f) ==
    f = [m \in 0..n |-> IF m = 0 THEN {i} ELSE f[m - 1] \cup Followed(E, f[m - 1])]

LEMMA NatIsReached ==
  ASSUME NEW S, 0 \in S, \A n \in Nat : n \in S => n + 1 \in S
  PROVE  Nat \subseteq S
  <1> DEFINE R == OpToRel(<, Nat)
             N == Nat \ S
  <1>1. IsWellFoundedOn(R, Nat)
    BY NatLessThanWellFounded
  <1> SUFFICES ASSUME N # {}
               PROVE  FALSE
    OBVIOUS
  <1>2. N \subseteq Nat
    OBVIOUS
  <1>3. PICK n \in N : \A m \in N : ~(<<m, n>> \in R)
    <2> HIDE DEF R, N
    <2> QED BY <1>1, <1>2, WFMin
  <1>4. n \in Nat /\ n # 0 /\ n - 1 \in Nat
    OBVIOUS
  <1>5. <<n - 1, n>> \in R
    BY <1>4 DEF OpToRel
  <1>6. n - 1 \in S
    BY <1>3, <1>4, <1>5
  <1> QED BY <1>4, <1>6

LEMMA SearchIsDefined ==
  ASSUME NEW E, NEW i
  PROVE  \A n \in Nat : \E f : Found(E, i, n, f)
  <1> DEFINE S == {n \in Nat : \E f : Found(E, i, n, f)}
  <1>1. 0 \in S
    <2> DEFINE f == [m \in 0..0 |-> {i}]
    <2>1. Found(E, i, 0, f)
      BY DEF Found
    <2> QED BY <2>1
  <1>2. ASSUME NEW n \in Nat, n \in S
        PROVE  n + 1 \in S
    <2>1. PICK f : Found(E, i, n, f)
      BY <1>2
    <2> DEFINE g == [m \in 0..(n + 1) |->
                        IF m <= n THEN f[m] ELSE f[n] \cup Followed(E, f[n])]
    <2>2. ASSUME NEW m \in 0..(n + 1)
          PROVE  g[m] = IF m = 0 THEN {i} ELSE g[m - 1] \cup Followed(E, g[m - 1])
      <3>1. CASE m = 0
        BY <2>1, <3>1 DEF Found
      <3>2. CASE m # 0 /\ m <= n
        <4>1. m \in 0..n /\ m - 1 \in 0..(n + 1) /\ m - 1 <= n
          BY <3>2
        <4>2. f[m] = f[m - 1] \cup Followed(E, f[m - 1])
          BY <2>1, <3>2, <4>1 DEF Found
        <4>3. g[m] = f[m] /\ g[m - 1] = f[m - 1]
          BY <3>2, <4>1
        <4> QED BY <3>2, <4>2, <4>3
      <3>3. CASE m = n + 1
        <4>1. g[m] = f[n] \cup Followed(E, f[n]) /\ g[n] = f[n] /\ m - 1 = n /\ m # 0
          BY <3>3
        <4> QED BY <4>1
      <3> QED BY <3>1, <3>2, <3>3
    <2>3. Found(E, i, n + 1, g)
      BY <2>2 DEF Found
    <2> QED BY <2>3
  <1>3. Nat \subseteq S
    <2> HIDE DEF S
    <2> QED BY <1>1, <1>2, NatIsReached
  <1> QED BY <1>3

(* What a search finds is one step from what was found before.                 *)
LEMMA PathIsFollowed ==
  ASSUME NEW E, NEW i
  PROVE  \E f : Found(E, i, Items, f) /\ dependencyPath(E, i) = Followed(E, f[Items])
  <1> DEFINE P(h) == h = [n \in 0..Items |->
                IF n = 0 THEN {i} ELSE h[n - 1] \cup {e[2] : e \in {x \in E : x[1] \in h[n - 1]}}]
             g == CHOOSE h : P(h)
  <1>1. \E f : P(f)
    <2>1. PICK f : Found(E, i, Items, f)
      BY SearchIsDefined, DependenciesAssumption
    <2>2. P(f)
      BY <2>1 DEF Found, Followed
    <2> QED BY <2>2
  <1>2. P(g)
    <2> HIDE DEF P
    <2> QED BY <1>1
  <1>3. dependencyPath(E, i) = Followed(E, g[Items])
    BY DEF dependencyPath, Followed
  <1>4. Found(E, i, Items, g)
    BY <1>2 DEF Found, Followed
  <1> QED BY <1>3, <1>4

(* A search finds at least what is one or two steps away.                      *)
LEMMA SearchFindsNear ==
  ASSUME NEW E, NEW i
  PROVE  Followed(E, {i}) \subseteq dependencyPath(E, i)
         /\ Followed(E, Followed(E, {i})) \subseteq dependencyPath(E, i)
  <1>1. PICK f : Found(E, i, Items, f) /\ dependencyPath(E, i) = Followed(E, f[Items])
    BY PathIsFollowed
  <1> DEFINE S == {n \in Nat : n <= Items =>
                      i \in f[n] /\ (n # 0 => Followed(E, {i}) \subseteq f[n])}
  <1>2. 0 \in S
    BY <1>1, DependenciesAssumption DEF Found
  <1>3. ASSUME NEW n \in Nat, n \in S
        PROVE  n + 1 \in S
    <2> SUFFICES ASSUME n + 1 <= Items
                 PROVE  i \in f[n + 1] /\ Followed(E, {i}) \subseteq f[n + 1]
      OBVIOUS
    <2>1. n + 1 \in 0..Items /\ n <= Items /\ n + 1 # 0 /\ (n + 1) - 1 = n
      BY DependenciesAssumption
    <2>2. f[n + 1] = f[n] \cup Followed(E, f[n])
      BY <1>1, <2>1 DEF Found
    <2>3. i \in f[n]
      BY <1>3, <2>1
    <2> QED BY <2>2, <2>3 DEF Followed
  <1>4. Items \in S
    <2> HIDE DEF S
    <2> QED BY <1>2, <1>3, NatIsReached, DependenciesAssumption
  <1>5. i \in f[Items] /\ Followed(E, {i}) \subseteq f[Items]
    BY <1>4, DependenciesAssumption
  <1> QED BY <1>1, <1>5 DEF Followed

(* A search stays in what no step leaves.                                      *)
LEMMA SearchStaysIn ==
  ASSUME NEW E, NEW i, NEW R, i \in R, Followed(E, R) \subseteq R
  PROVE  dependencyPath(E, i) \subseteq Followed(E, R)
  <1>1. PICK f : Found(E, i, Items, f) /\ dependencyPath(E, i) = Followed(E, f[Items])
    BY PathIsFollowed
  <1> DEFINE S == {n \in Nat : n <= Items => f[n] \subseteq R}
  <1>2. 0 \in S
    BY <1>1, DependenciesAssumption DEF Found
  <1>3. ASSUME NEW n \in Nat, n \in S
        PROVE  n + 1 \in S
    <2> SUFFICES ASSUME n + 1 <= Items
                 PROVE  f[n + 1] \subseteq R
      OBVIOUS
    <2>1. n + 1 \in 0..Items /\ n <= Items /\ n + 1 # 0 /\ (n + 1) - 1 = n
      BY DependenciesAssumption
    <2>2. f[n + 1] = f[n] \cup Followed(E, f[n])
      BY <1>1, <2>1 DEF Found
    <2>3. f[n] \subseteq R
      BY <1>3, <2>1
    <2> QED BY <2>2, <2>3 DEF Followed
  <1>4. Items \in S
    <2> HIDE DEF S
    <2> QED BY <1>2, <1>3, NatIsReached, DependenciesAssumption
  <1>5. f[Items] \subseteq R
    BY <1>4, DependenciesAssumption
  <1> QED BY <1>1, <1>5 DEF Followed

(* Where there are three items, a cycle is a short one.                        *)
LEMMA ThreeItems ==
  ASSUME edges \subseteq DependencyItem \X DependencyItem, NoShortCycle, Items <= 3
  PROVE  Acyclic
  <1> SUFFICES ASSUME NEW i \in DependencyItem, i \in dependencyPath(edges, i)
               PROVE  FALSE
    BY DEF Acyclic
  <1> DEFINE near(x) == x = i \/ <<i, x>> \in edges
             R == {x \in DependencyItem :
                      near(x) \/ \E y \in DependencyItem : <<i, y>> \in edges /\ <<y, x>> \in edges}
  <1>1. i \in R
    OBVIOUS
  <1>2. \A y \in Followed(edges, R) : y \in DependencyItem /\ \E x \in R : <<x, y>> \in edges
    <2> HIDE DEF R
    <2> SUFFICES ASSUME NEW e \in edges, e[1] \in R
                 PROVE  e[2] \in DependencyItem /\ \E x \in R : <<x, e[2]>> \in edges
      BY DEF Followed
    <2>1. e = <<e[1], e[2]>> /\ e[2] \in DependencyItem
      OBVIOUS
    <2> QED BY <2>1
  <1>3. ASSUME NEW x \in R, NEW y \in DependencyItem, <<x, y>> \in edges
        PROVE  y \in R /\ y # i
    <2>1. CASE near(x)
      BY <1>3, <2>1 DEF NoShortCycle
    <2>2. CASE \E z \in DependencyItem : <<i, z>> \in edges /\ <<z, x>> \in edges
      <3>1. PICK z \in DependencyItem : <<i, z>> \in edges /\ <<z, x>> \in edges
        BY <2>2
      <3>2. i # z /\ z # x /\ x # i
        BY <3>1 DEF NoShortCycle
      <3>3. y # x /\ y # z /\ y # i
        BY <1>3, <3>1 DEF NoShortCycle
      <3>4. i \in 1..3 /\ x \in 1..3 /\ y \in 1..3 /\ z \in 1..3
        BY DependenciesAssumption DEF DependencyItem
      <3> QED BY <3>2, <3>3, <3>4
    <2> QED BY <1>3, <2>1, <2>2
  <1>4. Followed(edges, R) \subseteq R /\ i \notin Followed(edges, R)
    BY <1>2, <1>3
  <1> QED
    <2> HIDE DEF R
    <2> QED BY <1>1, <1>4, SearchStaysIn

-----------------------------------------------------------------------------
(* The rows a request has locked are its own, and are those it wants.          *)
LocksAreHeld ==
    /\ \A r, q \in DependencyRequest : r # q => held[r] \cap held[q] = {}
    /\ \A r \in DependencyRequest :
         /\ linking[r].at = "idle" => held[r] = {}
         /\ linking[r].at = "locking" => held[r] \subseteq Wanted(r) /\ held[r] # Wanted(r)
         /\ linking[r].at # "idle" =>
               linking[r].item # linking[r].dependsOn /\ linking[r].expected < MaxRowVersion

(* No dependency of j leads back to i, neither directly nor by way of another. *)
IsFarFrom(E, i, j) ==
    <<j, i>> \notin E /\ \A k \in DependencyItem : ~(<<j, k>> \in E /\ <<k, i>> \in E)

(* What a request has found is still so.                                       *)
ChecksHold ==
    \A r \in DependencyRequest : linking[r].at = "checked" =>
        /\ rowVersion[linking[r].item] = linking[r].expected
        /\ linking[r].op = "add" => IsFarFrom(edges, linking[r].item, linking[r].dependsOn)

DependenciesInv == DependenciesTypeOK /\ NoShortCycle /\ LocksAreHeld /\ ChecksHold

LEMMA DependenciesInitInv == DependenciesInit => DependenciesInv
  <1> SUFFICES ASSUME DependenciesInit
               PROVE  DependenciesInv
    OBVIOUS
  <1>1. IdleJob \in DependencyJob /\ IdleJob.at = "idle"
    BY DependenciesAssumption DEF IdleJob, DependencyJob, DependencyItem
  <1>2. \A r \in DependencyRequest : linking[r] = IdleJob /\ held[r] = {}
    BY DEF DependenciesInit
  <1>3. DependenciesTypeOK
    BY <1>1, <1>2, DependenciesAssumption DEF DependenciesInit, DependenciesTypeOK
  <1>4. NoShortCycle
    BY DEF DependenciesInit, NoShortCycle
  <1>5. LocksAreHeld /\ ChecksHold
    BY <1>1, <1>2 DEF LocksAreHeld, ChecksHold
  <1> QED BY <1>3, <1>4, <1>5 DEF DependenciesInv

LEMMA SendInd ==
  ASSUME DependenciesInv, NEW r \in DependencyRequest, NEW op \in {"add", "remove"},
         NEW i \in DependencyItem, NEW j \in DependencyItem,
         rowVersion[i] < MaxRowVersion, Send(r, op, i, j)
  PROVE  DependenciesInv'
  <1> DEFINE u == [at |-> "locking", op |-> op, item |-> i, dependsOn |-> j,
                   expected |-> rowVersion[i]]
  <1>1. DependenciesTypeOK /\ NoShortCycle /\ LocksAreHeld /\ ChecksHold
    BY DEF DependenciesInv
  <1>2. /\ linking[r].at = "idle" /\ i # j /\ linking' = [linking EXCEPT ![r] = u]
        /\ UNCHANGED <<edges, rowVersion, held>>
    BY DEF Send
  <1>3. /\ u \in DependencyJob /\ u.at = "locking" /\ u.item = i /\ u.dependsOn = j
        /\ u.expected < MaxRowVersion
    BY <1>1 DEF DependencyJob, DependenciesTypeOK
  <1> HIDE DEF u
  <1>4. /\ linking' \in [DependencyRequest -> DependencyJob] /\ linking'[r] = u
        /\ \A q \in DependencyRequest \ {r} : linking'[q] = linking[q]
    BY <1>1, <1>2, <1>3 DEF DependenciesTypeOK
  <1>5. DependenciesTypeOK'
    BY <1>1, <1>2, <1>3, <1>4 DEF DependenciesTypeOK, Wanted
  <1>6. LocksAreHeld'
    <2>1. held[r] = {}
      BY <1>1, <1>2 DEF LocksAreHeld
    <2> QED BY <1>1, <1>2, <1>3, <1>4, <2>1 DEF LocksAreHeld, Wanted
  <1>7. ChecksHold'
    BY <1>1, <1>2, <1>3, <1>4 DEF ChecksHold, IsFarFrom
  <1>8. NoShortCycle'
    BY <1>1, <1>2 DEF NoShortCycle
  <1> QED BY <1>5, <1>6, <1>7, <1>8 DEF DependenciesInv

LEMMA LockInd ==
  ASSUME DependenciesInv, NEW r \in DependencyRequest, lockDependencyItems(r)
  PROVE  DependenciesInv'
  <1>1. DependenciesTypeOK /\ NoShortCycle /\ LocksAreHeld /\ ChecksHold
    BY DEF DependenciesInv
  <1>2. PICK next : next = Min(Wanted(r) \ held[r])
    OBVIOUS
  <1>3. /\ linking[r].at = "locking" /\ \A s \in DependencyRequest : next \notin held[s]
        /\ held' = [held EXCEPT ![r] = held[r] \cup {next}]
        /\ UNCHANGED <<edges, rowVersion>>
    BY <1>1, <1>2 DEF lockDependencyItems, DependenciesTypeOK
  <1>4. next \in Wanted(r) \ held[r]
    <2>1. PICK i, j \in Int : i = linking[r].item /\ j = linking[r].dependsOn
      BY <1>1 DEF DependenciesTypeOK, DependencyJob, DependencyItem
    <2>2. Wanted(r) = {i, j}
      BY <2>1 DEF Wanted
    <2>3. \E x \in Wanted(r) \ held[r] : \A y \in Wanted(r) \ held[r] : x <= y
      <3>1. \E x \in {i, j} : x \notin held[r]
        BY <1>1, <1>3, <2>2 DEF LocksAreHeld
      <3> QED BY <2>2, <3>1
    <2> QED BY <1>2, <2>3 DEF Min
  <1>5. PICK step \in {"locking", "locked"} :
           /\ linking' = [linking EXCEPT ![r].at = step]
           /\ step = "locked" <=> held[r] \cup {next} = Wanted(r)
    BY <1>1, <1>2, <1>3 DEF lockDependencyItems, DependenciesTypeOK
  <1>6. /\ linking' \in [DependencyRequest -> DependencyJob]
        /\ linking'[r].at = step /\ linking'[r].op = linking[r].op
        /\ linking'[r].item = linking[r].item /\ linking'[r].dependsOn = linking[r].dependsOn
        /\ linking'[r].expected = linking[r].expected
        /\ \A q \in DependencyRequest \ {r} : linking'[q] = linking[q]
    BY <1>1, <1>5 DEF DependenciesTypeOK, DependencyJob
  <1>7. /\ held' \in [DependencyRequest -> SUBSET DependencyItem]
        /\ held'[r] = held[r] \cup {next}
        /\ \A q \in DependencyRequest \ {r} : held'[q] = held[q]
    BY <1>1, <1>3, <1>4 DEF DependenciesTypeOK, DependencyJob, Wanted
  <1>8. \A q \in DependencyRequest : Wanted(q)' = Wanted(q)
    BY <1>6 DEF Wanted
  <1>9. DependenciesTypeOK'
    BY <1>1, <1>3, <1>5, <1>6, <1>7, <1>8 DEF DependenciesTypeOK
  <1>10. LocksAreHeld'
    <2>1. \A s, q \in DependencyRequest : s # q => held'[s] \cap held'[q] = {}
      BY <1>1, <1>3, <1>7 DEF LocksAreHeld
    <2>2. ASSUME NEW q \in DependencyRequest
          PROVE  /\ linking'[q].at = "idle" => held'[q] = {}
                 /\ linking'[q].at = "locking" => held'[q] \subseteq Wanted(q) /\ held'[q] # Wanted(q)
                 /\ linking'[q].at # "idle" => /\ linking'[q].item # linking'[q].dependsOn
                                               /\ linking'[q].expected < MaxRowVersion
      <3>1. CASE q = r
        BY <1>1, <1>3, <1>4, <1>5, <1>6, <1>7, <3>1 DEF LocksAreHeld
      <3>2. CASE q # r
        BY <1>1, <1>6, <1>7, <3>2 DEF LocksAreHeld
      <3> QED BY <3>1, <3>2
    <2> QED BY <1>8, <2>1, <2>2 DEF LocksAreHeld
  <1>11. ChecksHold'
    BY <1>1, <1>3, <1>5, <1>6 DEF ChecksHold, IsFarFrom
  <1>12. NoShortCycle'
    BY <1>1, <1>3 DEF NoShortCycle
  <1> QED BY <1>9, <1>10, <1>11, <1>12 DEF DependenciesInv

LEMMA CheckInd ==
  ASSUME DependenciesInv, NEW r \in DependencyRequest, checkDependency(r)
  PROVE  DependenciesInv'
  <1>1. DependenciesTypeOK /\ NoShortCycle /\ LocksAreHeld /\ ChecksHold
    BY DEF DependenciesInv
  <1>2. /\ linking[r].at = "locked" /\ rowVersion[linking[r].item] = linking[r].expected
        /\ linking' = [linking EXCEPT ![r].at = "checked"]
        /\ UNCHANGED <<edges, rowVersion, held>>
        /\ linking[r].op = "add" => linking[r].item \notin dependencyPath(edges, linking[r].dependsOn)
    BY DEF checkDependency
  <1>3. /\ linking' \in [DependencyRequest -> DependencyJob]
        /\ linking'[r].at = "checked" /\ linking'[r].op = linking[r].op
        /\ linking'[r].item = linking[r].item /\ linking'[r].dependsOn = linking[r].dependsOn
        /\ linking'[r].expected = linking[r].expected
        /\ \A q \in DependencyRequest \ {r} : linking'[q] = linking[q]
    BY <1>1, <1>2 DEF DependenciesTypeOK, DependencyJob
  <1>4. \A q \in DependencyRequest : Wanted(q)' = Wanted(q)
    BY <1>3 DEF Wanted
  <1>5. DependenciesTypeOK'
    BY <1>1, <1>2, <1>3, <1>4 DEF DependenciesTypeOK
  <1>6. LocksAreHeld'
    BY <1>1, <1>2, <1>3, <1>4 DEF LocksAreHeld
  <1>7. linking[r].op = "add" => IsFarFrom(edges, linking[r].item, linking[r].dependsOn)
    <2> SUFFICES ASSUME NEW i \in DependencyItem, NEW j \in DependencyItem,
                        i \notin dependencyPath(edges, j)
                 PROVE  IsFarFrom(edges, i, j)
      BY <1>1, <1>2 DEF DependenciesTypeOK, DependencyJob
    <2>1. i \notin Followed(edges, {j}) /\ i \notin Followed(edges, Followed(edges, {j}))
      BY SearchFindsNear
    <2>2. \A x, y : <<x, y>> \in edges => <<x, y>>[1] = x /\ <<x, y>>[2] = y
      OBVIOUS
    <2>3. \A x, S : x \in S => \A y : <<x, y>> \in edges => y \in Followed(edges, S)
      BY <2>2 DEF Followed
    <2> QED BY <2>1, <2>3 DEF IsFarFrom
  <1>8. ChecksHold'
    BY <1>1, <1>2, <1>3, <1>7 DEF ChecksHold, IsFarFrom
  <1>9. NoShortCycle'
    BY <1>1, <1>2 DEF NoShortCycle
  <1> QED BY <1>5, <1>6, <1>8, <1>9 DEF DependenciesInv

(* A transaction ends: what it held is free.                                   *)
LEMMA ReleaseFacts ==
  ASSUME DependenciesInv, NEW r \in DependencyRequest, Release(r)
  PROVE  /\ linking' \in [DependencyRequest -> DependencyJob] /\ linking'[r].at = "idle"
         /\ \A q \in DependencyRequest \ {r} : linking'[q] = linking[q] /\ held'[q] = held[q]
         /\ LocksAreHeld' /\ held' \in [DependencyRequest -> SUBSET DependencyItem]
         /\ \A q \in DependencyRequest : linking'[q].at \in {"locked", "checked"} =>
               held'[q] = Wanted(q)' /\ q # r /\ Wanted(q)' = Wanted(q)
  <1>1. DependenciesTypeOK /\ LocksAreHeld
    BY DEF DependenciesInv
  <1>2. IdleJob \in DependencyJob /\ IdleJob.at = "idle"
    BY DependenciesAssumption DEF IdleJob, DependencyJob, DependencyItem
  <1>3. /\ linking' \in [DependencyRequest -> DependencyJob] /\ linking'[r].at = "idle"
        /\ held' \in [DependencyRequest -> SUBSET DependencyItem] /\ held'[r] = {}
        /\ \A q \in DependencyRequest \ {r} : linking'[q] = linking[q] /\ held'[q] = held[q]
    BY <1>1, <1>2 DEF Release, DependenciesTypeOK
  <1>4. \A q \in DependencyRequest \ {r} : Wanted(q)' = Wanted(q)
    BY <1>3 DEF Wanted
  <1>5. LocksAreHeld'
    BY <1>1, <1>3, <1>4 DEF LocksAreHeld
  <1>6. \A q \in DependencyRequest : linking'[q].at \in {"locked", "checked"} =>
               held'[q] = Wanted(q)' /\ q # r /\ Wanted(q)' = Wanted(q)
    BY <1>1, <1>3, <1>4 DEF DependenciesTypeOK
  <1> QED BY <1>3, <1>5, <1>6

LEMMA ReleaseInd ==
  ASSUME DependenciesInv, NEW r \in DependencyRequest, Release(r), UNCHANGED <<edges, rowVersion>>
  PROVE  DependenciesInv'
  <1>1. DependenciesTypeOK /\ NoShortCycle /\ ChecksHold
    BY DEF DependenciesInv
  <1>2. DependenciesTypeOK' /\ LocksAreHeld'
    BY <1>1, ReleaseFacts DEF DependenciesTypeOK
  <1>3. ChecksHold'
    BY <1>1, ReleaseFacts DEF ChecksHold, IsFarFrom
  <1>4. NoShortCycle'
    BY <1>1 DEF NoShortCycle
  <1> QED BY <1>2, <1>3, <1>4 DEF DependenciesInv

(* A dependency of two items far from each other closes no short cycle.        *)
LEMMA AddedIsShort ==
  ASSUME NoShortCycle, NEW i \in DependencyItem, NEW j \in DependencyItem, i # j,
         IsFarFrom(edges, i, j), edges' = edges \cup {<<i, j>>}
  PROVE  NoShortCycle'
  <1> SUFFICES ASSUME NEW x \in DependencyItem, NEW y \in DependencyItem, NEW z \in DependencyItem,
                      <<x, y>> \in edges', y = z \/ <<y, z>> \in edges',
                      z = x \/ <<z, x>> \in edges'
               PROVE  FALSE
    BY DEF NoShortCycle
  <1>1. \A a, b : <<a, b>> \in edges' => <<a, b>> \in edges \/ (a = i /\ b = j)
    OBVIOUS
  <1>2. \A a, b, c \in DependencyItem :
           <<a, b>> \in edges /\ (b = c \/ <<b, c>> \in edges) => c # a /\ <<c, a>> \notin edges
    BY DEF NoShortCycle
  <1>3. <<j, i>> \notin edges /\ \A k \in DependencyItem : ~(<<j, k>> \in edges /\ <<k, i>> \in edges)
    BY DEF IsFarFrom
  <1> QED BY <1>1, <1>2, <1>3

LEMMA CommitInd ==
  ASSUME DependenciesInv, NEW r \in DependencyRequest, commitDependency(r)
  PROVE  DependenciesInv'
  <1>1. DependenciesTypeOK /\ NoShortCycle /\ LocksAreHeld /\ ChecksHold
    BY DEF DependenciesInv
  <1>2. PICK i, j \in DependencyItem : i = linking[r].item /\ j = linking[r].dependsOn
    BY <1>1 DEF DependenciesTypeOK, DependencyJob
  <1>3. /\ linking[r].at = "checked" /\ Release(r)
        /\ edges' = IF linking[r].op = "add" THEN edges \cup {<<i, j>>} ELSE edges \ {<<i, j>>}
        /\ rowVersion' = [rowVersion EXCEPT ![i] = rowVersion[i] + 1]
    BY <1>1, <1>2 DEF commitDependency, edge, DependenciesTypeOK
  <1>4. /\ i # j /\ rowVersion[i] < MaxRowVersion /\ held[r] = {i, j}
        /\ linking[r].op = "add" => IsFarFrom(edges, i, j)
    BY <1>1, <1>2, <1>3 DEF LocksAreHeld, ChecksHold, DependenciesTypeOK, Wanted
  <1>5. /\ rowVersion' \in [DependencyItem -> 0..MaxRowVersion]
        /\ \A k \in DependencyItem : k # i => rowVersion'[k] = rowVersion[k]
    BY <1>1, <1>3, <1>4, DependenciesAssumption DEF DependenciesTypeOK
  <1>6. DependenciesTypeOK' /\ LocksAreHeld'
    BY <1>1, <1>3, <1>5, ReleaseFacts DEF DependenciesTypeOK
  <1>7. ASSUME NEW q \in DependencyRequest, linking'[q].at = "checked"
        PROVE  /\ rowVersion'[linking'[q].item] = linking'[q].expected
               /\ linking'[q].op = "add" =>
                     IsFarFrom(edges', linking'[q].item, linking'[q].dependsOn)
    <2>1. q # r /\ linking'[q] = linking[q] /\ held[q] = Wanted(q)
      BY <1>1, <1>3, <1>7, ReleaseFacts DEF DependenciesTypeOK
    <2>2. PICK k, l \in DependencyItem : k = linking[q].item /\ l = linking[q].dependsOn
      BY <1>1 DEF DependenciesTypeOK, DependencyJob
    <2>3. held[q] = {k, l} /\ held[q] \cap held[r] = {}
      BY <1>1, <2>1, <2>2 DEF LocksAreHeld, Wanted
    <2>4. k # i /\ k # j /\ l # i /\ l # j
      BY <1>4, <2>3
    <2>5. /\ rowVersion[k] = linking[q].expected
          /\ linking[q].op = "add" => IsFarFrom(edges, k, l)
      BY <1>1, <1>7, <2>1, <2>2 DEF ChecksHold
    <2>6. \A x : <<l, x>> \in edges' => <<l, x>> \in edges
      BY <1>3, <2>4
    <2>7. \A x : <<x, k>> \in edges' => <<x, k>> \in edges
      BY <1>3, <2>4
    <2>8. linking[q].op = "add" => IsFarFrom(edges', k, l)
      BY <2>5, <2>6, <2>7 DEF IsFarFrom
    <2> QED BY <1>5, <2>1, <2>2, <2>4, <2>5, <2>8
  <1>8. ChecksHold'
    BY <1>7 DEF ChecksHold, IsFarFrom
  <1>9. NoShortCycle'
    <2>1. CASE linking[r].op = "add"
      BY <1>1, <1>3, <1>4, <2>1, AddedIsShort
    <2>2. CASE linking[r].op # "add"
      BY <1>1, <1>3, <2>2 DEF NoShortCycle
    <2> QED BY <2>1, <2>2
  <1> QED BY <1>6, <1>8, <1>9 DEF DependenciesInv

LEMMA DependenciesInd == DependenciesInv /\ [DependenciesNext]_dependenciesVars => DependenciesInv'
  <1> SUFFICES ASSUME DependenciesInv, [DependenciesNext]_dependenciesVars
               PROVE  DependenciesInv'
    OBVIOUS
  <1>1. CASE UNCHANGED dependenciesVars
    BY <1>1 DEF dependenciesVars, DependenciesInv, DependenciesTypeOK, Wanted, NoShortCycle,
                LocksAreHeld, ChecksHold, IsFarFrom
  <1>2. ASSUME NEW r \in DependencyRequest, Refuse(r) \/ RollbackDependency(r)
        PROVE  DependenciesInv'
    BY <1>2, ReleaseInd DEF Refuse, RollbackDependency
  <1> QED BY <1>1, <1>2, SendInd, LockInd, CheckInd, CommitInd DEF DependenciesNext

(* No cycle of dependencies has less than four items, whatever is added at the *)
(* same time and however many items there are; so three items have none.       *)
THEOREM DependenciesAreKept == DependenciesSpec => []DependenciesKept
  <1>1. DependenciesInv => DependenciesKept
    BY ThreeItems DEF DependenciesInv, DependenciesKept, DependenciesTypeOK
  <1> QED BY <1>1, DependenciesInitInv, DependenciesInd, PTL DEF DependenciesSpec

=============================================================================
