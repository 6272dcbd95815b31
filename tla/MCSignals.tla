------------------------------ MODULE MCSignals ------------------------------
(* Attention beside the rooms of a team or with guests.  They share no state, *)
(* so each behaviour moves one of them, which focus names, and the other      *)
(* stays as it began: every reachable state of each is reached.  "team" and   *)
(* "questions" are about a team's room, "external" about one with guests.     *)
(* Only "questions" has messages; there nobody changes the team itself or     *)
(* becomes a guest or an owner.                                               *)
EXTENDS Attention, Rooms, TLC

CONSTANTS x1, x2, p1, p2, t, x

VARIABLE focus          \* what moves in this behaviour

MCKind == t :> "team" @@ x :> "external"
-----------------------------------------------------------------------------
SignalsInit ==
    /\ focus \in {"attention", "team", "questions", "external"}
    /\ Init
    /\ focus = "attention" \/ \A k \in Subject : due[k] = 0
    /\ RoomsInit
    /\ focus = "attention" => role = <<"owner", "member", "guest">>
    /\ focus = "questions" => \A u \in User : role[u] # "guest"

SignalsNext ==
    \/ /\ focus = "attention" /\ Next
       /\ UNCHANGED <<focus, roomsVars>>
    \/ /\ focus = "team" /\ RoomsNext
       /\ \A p \in Request : request'[p].room # x /\ request'[p].op # "sendMessage"
       /\ UNCHANGED <<focus, vars>>
    \/ /\ focus = "questions" /\ RoomsNext
       /\ \A p \in Request :
             /\ request'[p].room # x /\ request'[p].as \notin {"guest", "owner"}
             /\ request'[p].op \notin {"setTeamMember", "removeTeamMember"}
       /\ UNCHANGED <<focus, vars>>
    \/ /\ focus = "external" /\ RoomsNext
       /\ \A p \in Request : request'[p].room # t /\ request'[p].op # "sendMessage"
       /\ UNCHANGED <<focus, vars>>

SignalsSpec == SignalsInit /\ [][SignalsNext]_<<focus, vars, roomsVars>>

-----------------------------------------------------------------------------
(* Workers and requests are alike. *)
Alike == Permutations(Request)
=============================================================================
