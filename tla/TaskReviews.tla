---------------------------- MODULE TaskReviews ----------------------------
(***************************************************************************)
(* Reviews of a task: rounds that name their reviewers, the answers, and     *)
(* what a change of the task does to them.  People act on the task as their  *)
(* page last showed it; a command names that version, and the update of the  *)
(* row is guarded by it, so what a command reads is what it writes to.       *)
(*                                                                          *)
(* The title, the description and the planning are one number, content.      *)
(***************************************************************************)
EXTENDS Integers, FiniteSets

CONSTANTS
    Person,
    Steward,        \* its assignees and the workspace's managers: they may cancel a review
    MaxChanges      \* bounds the changes of the task

ASSUME TaskReviewsAssumption ==
    /\ Steward \subseteq Person /\ Steward # {}
    /\ MaxChanges \in Nat

VARIABLES
    task,           \* the row: status, version, content and the latest review
    page,           \* the version and the content each person's page last showed
    access,         \* who has access to the workspace
    asked,          \* the content when the latest round was sent
    approved        \* the content on the page of each reviewer who approved it

reviewsVars == <<task, page, access, asked, approved>>

Status == {"working", "review", "blocked", "done"}
Open == {"pending", "changes_requested"}
Closed == {"approved", "cancelled", "invalidated"}

Review == [state : Open \cup Closed \cup {"none"}, requestedBy : Person,
           decision : [Person -> {"none", "pending", "approved", "changes_requested"}]]

Task == [status : Status, version : 0..MaxChanges, content : 0..MaxChanges,
         review : Review]

Shown(row) == [version |-> row.version, content |-> row.content]

Reviewers(review) == {q \in Person : review.decision[q] # "none"}

ReviewsInit ==
    /\ task = [status |-> "working", version |-> 0, content |-> 0,
               review |-> [state |-> "none", requestedBy |-> CHOOSE p \in Steward : TRUE,
                           decision |-> [q \in Person |-> "none"]]]
    /\ page = [p \in Person |-> Shown(task)]
    /\ access = Person
    /\ asked = 0
    /\ approved = [p \in Person |-> 0]

-----------------------------------------------------------------------------
(* The page shows the task again. *)
Load(p) ==
    /\ p \in access /\ page[p] # Shown(task)
    /\ page' = [page EXCEPT ![p] = Shown(task)]
    /\ UNCHANGED <<task, access, asked, approved>>

(* A wrong write, by id alone. *)
updateUnguarded(p, change) ==
    /\ p \in access
    /\ task.version < MaxChanges
    /\ task' = [change EXCEPT !.version = task.version + 1]
    /\ page' = [page EXCEPT ![p] = Shown(task')]
    /\ UNCHANGED access

(* The row is updated if it still has the version on the page. *)
saveWorkItem(p, change) ==
    /\ p \in access
    /\ page[p].version = task.version
    /\ task.version < MaxChanges
    /\ task' = [change EXCEPT !.version = task.version + 1]
    /\ page' = [page EXCEPT ![p] = Shown(task')]
    /\ UNCHANGED access

(* Commands about a review are for tasks that are neither done nor blocked. *)
reviewable == task.status \notin {"done", "blocked"}

requestReview(p, reviewers) ==
    /\ reviewable
    /\ task.review.state # "pending"
    /\ reviewers # {} /\ reviewers \subseteq access
    /\ saveWorkItem(p, [task EXCEPT !.status = "review",
          !.review = [state |-> "pending", requestedBy |-> p, decision |->
                        [q \in Person |-> IF q \in reviewers THEN "pending" ELSE "none"]]])
    /\ asked' = task.content
    /\ UNCHANGED approved

outcome(decision) ==
    IF \E q \in Person : decision[q] = "changes_requested" THEN "changes_requested"
    ELSE IF \A q \in Person : decision[q] \in {"none", "approved"} THEN "approved"
    ELSE "pending"

respond(p, answer) ==
    LET decision == [task.review.decision EXCEPT ![p] = answer] IN
    /\ reviewable
    /\ task.review.state \in Open
    /\ task.review.decision[p] = "pending"
    /\ saveWorkItem(p, [task EXCEPT
          !.status = IF outcome(decision) = "changes_requested" THEN "working" ELSE "review",
          !.review.decision = decision, !.review.state = outcome(decision)])
    /\ approved' = [approved EXCEPT ![p] = page[p].content]
    /\ UNCHANGED asked

cancelReview(p) ==
    /\ reviewable
    /\ task.review.state \in Open \cup {"invalidated"}
    /\ p = task.review.requestedBy \/ p \in Steward
    /\ saveWorkItem(p, [task EXCEPT !.status = "working", !.review.state = "cancelled"])
    /\ UNCHANGED <<asked, approved>>

(* A change of the task itself: its content, its status, or both.  Revised    *)
(* or reopened work loses its review, and completion needs one that ended.   *)
revised(status, content) ==
    \/ content # task.content
    \/ task.status = "done" /\ status # "done"

reviewForTaskChange(status, content) ==
    IF revised(status, content) /\ task.review.state \notin {"none", "cancelled"}
    THEN [task.review EXCEPT !.state = "invalidated"] ELSE task.review

mayComplete(content) ==
    \/ task.review.state \in {"none", "cancelled"}
    \/ task.review.state = "approved" /\ ~revised("done", content)

(* The status is given with the change, as a page or a Waiting action does. *)
changeStatus(p, status, content) ==
    /\ status = "done" => mayComplete(content)
    /\ saveWorkItem(p, [task EXCEPT !.status = status, !.content = content,
                                      !.review = reviewForTaskChange(status, content)])
    /\ UNCHANGED <<asked, approved>>

(* It is not: a task whose review this invalidates goes back to work. *)
changeContent(p, content) ==
    LET review == reviewForTaskChange(task.status, content)
        falls == review.state = "invalidated" /\ task.review.state # "invalidated"
                   /\ task.status \in {"review", "done"}
    IN  /\ saveWorkItem(p, [task EXCEPT !.content = content, !.review = review,
                                          !.status = IF falls THEN "working" ELSE @])
        /\ UNCHANGED <<asked, approved>>

(* Comments, dependencies and Waiting count the version up, and nothing else. *)
bumpLockedWorkItemVersion(p) ==
    /\ saveWorkItem(p, task)
    /\ UNCHANGED <<asked, approved>>

Leave(p) ==
    /\ p \in access
    /\ access' = access \ {p}
    /\ UNCHANGED <<task, page, asked, approved>>

ReviewsNext == \E p \in Person :
    \/ Load(p) \/ cancelReview(p) \/ bumpLockedWorkItemVersion(p) \/ Leave(p)
    \/ \E reviewers \in SUBSET Person : requestReview(p, reviewers)
    \/ \E answer \in {"approved", "changes_requested"} : respond(p, answer)
    \/ \E content \in {task.content, task.content + 1} :
          \/ changeContent(p, content)
          \/ \E status \in Status : changeStatus(p, status, content)

ReviewsSpec == ReviewsInit /\ [][ReviewsNext]_reviewsVars

-----------------------------------------------------------------------------
ReviewsTypeOK ==
    /\ task \in Task
    /\ page \in [Person -> [version : 0..MaxChanges, content : 0..MaxChanges]]
    /\ access \subseteq Person /\ asked \in 0..MaxChanges
    /\ approved \in [Person -> 0..MaxChanges]
    /\ task.review.state \in Open \cup {"approved"} =>
          task.review.state = outcome(task.review.decision)

ReviewIsOfTheWork ==
    task.review.state \in Open \cup {"approved"} =>
        /\ asked = task.content
        /\ \A q \in Person :
              task.review.decision[q] = "approved" => approved[q] = task.content

DoneWasApproved ==
    task.status = "done" /\ task.review.state \notin {"none", "cancelled"} =>
        /\ task.review.state = "approved"
        /\ \A q \in Reviewers(task.review) : task.review.decision[q] = "approved"

(* "All reviewers must approve this task before it can be completed", and it  *)
(* stays so while it is completed, unless the review was cancelled; and a     *)
(* review that counts is one of the work as it is: nothing was revised since  *)
(* the round was sent, and every reviewer who approved had that on the page.  *)
ReviewsConsistent == ReviewsTypeOK /\ ReviewIsOfTheWork /\ DoneWasApproved
=============================================================================
