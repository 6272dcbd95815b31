------------------------------- MODULE MCWork -------------------------------
(* Planning beside the other components of the work: dependencies,         *)
(* reviews, portfolios and waiting records. They share no state, so each   *)
(* behaviour moves one of them, which focus names, and the others stay as  *)
(* they began: every reachable state of each is reached. In "tasks" it is  *)
(* Planning that moves, with commands that create work.                    *)
EXTENDS Planning, TaskReviews, Portfolios, Waiting, Dependencies, TLC

CONSTANTS x1, x2, y1, y2, r1, r2, r3, p1, w1, none

VARIABLES
    focus           \* the component that moves in this behaviour

Tasks == INSTANCE Planning WITH Kinds <- {"createBoard", "updateBoard", "createWorkItem", "updateWorkItem"}

-----------------------------------------------------------------------------
WorkInit ==
    /\ focus \in {"planning", "dependencies", "reviews",
                  "portfolios", "waiting", "tasks"}
    /\ Init
    /\ focus \notin {"planning", "tasks"} => present(board) = {}
    /\ focus = "planning" =>
          /\ present(board) = Board /\ present(item) = Item
          /\ item[y1].type # item[y2].type
    /\ focus = "tasks" => item[y2] = Absent
    /\ \A b, c \in present(board) : b = c \/ "open" \in {board[b].state, board[c].state}
    /\ DependenciesInit
    /\ ReviewsInit
    /\ PortfoliosInit
    /\ focus = "portfolios" \/ active = {}
    /\ WaitingInit

WorkNext ==
    \/ /\ focus = "planning" /\ Next
       /\ UNCHANGED <<focus, dependenciesVars, reviewsVars, portfoliosVars,
                   waitingVars>>
    \/ /\ focus = "tasks" /\ Tasks!Next
       /\ UNCHANGED <<focus, dependenciesVars, reviewsVars, portfoliosVars,
                   waitingVars>>
    \/ /\ focus = "dependencies" /\ DependenciesNext
       /\ UNCHANGED <<focus, vars, reviewsVars, portfoliosVars, waitingVars>>
    \/ /\ focus = "reviews" /\ ReviewsNext
       /\ UNCHANGED <<focus, vars, dependenciesVars, portfoliosVars,
                   waitingVars>>
    \/ /\ focus = "portfolios" /\ PortfoliosNext
       /\ UNCHANGED <<focus, vars, dependenciesVars, reviewsVars, waitingVars>>
    \/ /\ focus = "waiting" /\ WaitingNext
       /\ UNCHANGED <<focus, vars, dependenciesVars, reviewsVars,
                   portfoliosVars>>

WorkSpec == WorkInit /\ [][WorkNext]_<<focus, vars, dependenciesVars, reviewsVars, portfoliosVars,
              waitingVars>>

(* Values that are alike in every component. *)
Alike == Permutations({x1, x2}) \cup Permutations({y1, y2}) \cup Permutations({r1, r2})
=============================================================================
