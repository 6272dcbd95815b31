----------------------------- MODULE MCIdentity -----------------------------
(* Commands beside the invitations and the change of a login address. They *)
(* share no state, so each behaviour moves one of them, which focus names, *)
(* and the others stay as they began: every reachable state of each is     *)
(* reached. "claims" is about an invitation to each of two organizations,  *)
(* "returns" about two to the same, "delivery" about one that is sent      *)
(* again.                                                                  *)
EXTENDS Commands, Invitations, EmailChange, TLC

CONSTANTS c1, c2, c3, k1, k2, o1, o2, e, f, i, j, h, a1, a2, ann, home, work, club, r1, r2, r3, item, none

VARIABLES
    focus           \* the component that moves in this behaviour

(* c1 updates an aggregate, c2 creates something new, and c3 updates the       *)
(* aggregate of c1 as a resent invitation does, with the key of c2.           *)
MCKeyOf == c1 :> k1 @@ c2 :> k2 @@ c3 :> k2
MCAggregateOf == [c \in Command |-> item]

(* Three invitations for one address, two of them to one organization.        *)
MCOrg == i :> o1 @@ j :> o2 @@ h :> o1
MCAddress == [n \in Invitation |-> e]

sentOnce == unclaimed' = {} /\ \A n \in Invitation : row'[n].token <= 1
alone == \E a \in Account : \A b \in Account \ {a} : email'[b] = None /\ address'[b] = None

-----------------------------------------------------------------------------
IdentityInit ==
    /\ focus \in {"commands", "claims", "returns", "delivery", "emailChange"}
    /\ Init
    /\ InvitationsInit
    /\ EmailChangeInit
    /\ focus = "emailChange" \/ loginEmail[ann] = home

IdentityNext ==
    \/ /\ focus = "commands" /\ Next
       /\ UNCHANGED <<focus, invitationsVars, emailChangeVars>>
    \/ /\ focus = "claims" /\ InvitationsNext /\ row'[h] = row[h] /\ sentOnce
       /\ UNCHANGED <<focus, vars, emailChangeVars>>
    \/ /\ focus = "returns" /\ InvitationsNext /\ row'[j] = row[j] /\ sentOnce /\ alone
       /\ UNCHANGED <<focus, vars, emailChangeVars>>
    \/ /\ focus = "delivery" /\ InvitationsNext /\ row'[j] = row[j] /\ row'[h] = row[h]
       /\ UNCHANGED <<focus, vars, emailChangeVars>>
    \/ /\ focus = "emailChange" /\ EmailChangeNext
       /\ UNCHANGED <<focus, vars, invitationsVars>>

IdentitySpec == IdentityInit /\ [][IdentityNext]_<<focus, vars, invitationsVars, emailChangeVars>>

-----------------------------------------------------------------------------
(* Values that are alike in every component. *)
Alike == Permutations({r1, r2}) \cup Permutations({a1, a2})
=============================================================================
