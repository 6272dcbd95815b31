------------------------------ MODULE Superadmin ------------------------------
(***************************************************************************)
(* The administrators of the platform: who is one, by whose invitation, and  *)
(* what they may do while others change the roster.                          *)
(*                                                                          *)
(* Every request runs in a READ COMMITTED transaction.  It first takes the   *)
(* roster's advisory lock when it needs an owner, and then a shared lock on  *)
(* the administrator's own row, both to its end.  The triggers on the table  *)
(* take the advisory lock as well.  An administrator and the invitation for  *)
(* their address have one name.  Sessions are left out: an administrator may *)
(* have one at any time, since every request checks the administrator again. *)
(***************************************************************************)
EXTENDS Integers, FiniteSets

CONSTANTS
    Administrator,
    Initial,        \* initialSuperadminEmail
    Request,
    None,
    MaxIssue        \* bound: the invitations sent to one address

ASSUME SuperadminAssumption ==
    /\ Initial \in Administrator
    /\ None \notin Administrator
    /\ MaxIssue \in Nat \ {0}

VARIABLES
    user,           \* superadmin_user
    invitation,     \* superadmin_invitations, the latest for each address
    activating,     \* registrations past the admission check: <<address, issue>>
    request         \* what each transaction is about to do

superadminVars == <<user, invitation, activating, request>>
people == <<user, invitation, activating>>

Role == {"owner", "operator", "auditor"}
User == [role : Role \cup {"none"}, disabled : BOOLEAN, enrolled : BOOLEAN]
Letter == [status : {"none", "open", "accepted", "revoked"}, issue : 0..MaxIssue,
           role : Role, by : Administrator \cup {None}]
Need == [read |-> Role, operate |-> {"owner", "operator"}, owner |-> {"owner"}]

Op == {"none", "invite", "revoke", "update", "operate", "phone"}
NeedOf == [op \in Op \ {"none"} |->
    CASE op \in {"invite", "revoke", "update"} -> "owner"
      [] op = "operate" -> "operate"
      [] op = "phone" -> "read"]

NoRequest == [op |-> "none", by |-> None, target |-> None, role |-> "owner",
              disabled |-> FALSE, past |-> FALSE]

-----------------------------------------------------------------------------
Known(x) == user[x].role # "none"

ActiveOwner(x) == user[x].role = "owner" /\ ~user[x].disabled

AnotherActiveOwner(x) == \E y \in Administrator \ {x} : ActiveOwner(y)

RosterFree == \A p \in Request :
    request[p].op \in {"none", "operate", "phone"}

(* A wrong lock: the check of the actor is not kept. *)
NeverShared(x, p) == FALSE

(* Another transaction holds FOR SHARE on the row of x. *)
SharedByOther(x, p) == \E q \in Request \ {p} : request[q].op # "none" /\ request[q].by = x

(* Another transaction holds FOR UPDATE on it. *)
HeldForUpdate(x) == \E q \in Request : request[q].past /\ request[q].target = x

(* requireAdministrator.  Its session and the age of the verification are there *)
(* or are not. *)
Allowed(x, need) ==
    /\ user[x].role \in Need[need]
    /\ ~user[x].disabled
    /\ user[x].enrolled

SuperadminInit ==
    /\ user = [x \in Administrator |-> [role |-> "none", disabled |-> FALSE, enrolled |-> FALSE]]
    /\ invitation = [x \in Administrator |->
            [status |-> "none", issue |-> 0, role |-> "owner", by |-> None]]
    /\ activating = {}
    /\ request = [p \in Request |-> NoRequest]

-----------------------------------------------------------------------------
(* The way in. *)
Invited(x, role, by) ==
    /\ invitation[x].issue < MaxIssue
    /\ invitation' = [invitation EXCEPT ![x] =
            [status |-> "open", issue |-> @.issue + 1, role |-> role, by |-> by]]

BootstrapSuperadminOwner ==
    /\ RosterFree
    /\ \A x \in Administrator : ~Known(x)
    /\ Invited(Initial, "owner", None)
    /\ UNCHANGED <<user, activating, request>>

InviterStands(i) ==
    IF i.by = None THEN i.role = "owner" /\ \A x \in Administrator : ~Known(x)
                   ELSE ActiveOwner(i.by)

AdmissionCheck(x) ==
    /\ invitation[x].status = "open"
    /\ ~Known(x)
    /\ invitation[x].by # None => ActiveOwner(invitation[x].by)
    /\ activating' = activating \cup {<<x, invitation[x].issue>>}
    /\ UNCHANGED <<user, invitation, request>>

Expire(x) ==
    /\ invitation[x].status = "open"
    /\ invitation' = [invitation EXCEPT ![x].status = "revoked"]
    /\ UNCHANGED <<user, activating, request>>

(* trevv_admit_superadmin *)
Admit(x, issue) ==
    /\ RosterFree
    /\ activating' = activating \ {<<x, issue>>}
    /\ IF /\ ~Known(x)
          /\ invitation[x].status = "open" /\ invitation[x].issue = issue
          /\ InviterStands(invitation[x])
       THEN /\ invitation' = [invitation EXCEPT ![x].status = "accepted"]
            /\ user' = [user EXCEPT ![x] =
                    [role |-> invitation[x].role, disabled |-> FALSE, enrolled |-> FALSE]]
       ELSE UNCHANGED <<invitation, user>>
    /\ UNCHANGED request

(* The first verification of a second factor. *)
EnrolFactor(x) ==
    /\ Known(x) /\ ~user[x].enrolled
    /\ user' = [user EXCEPT ![x].enrolled = TRUE]
    /\ UNCHANGED <<invitation, activating, request>>

-----------------------------------------------------------------------------
(* A request: the locks and the check of the actor, then the work. *)
Begin(p, x, op, target, role, disabled) ==
    /\ request[p].op = "none"
    /\ NeedOf[op] = "owner" => RosterFree
    /\ ~HeldForUpdate(x)
    /\ Allowed(x, NeedOf[op])
    /\ request' = [request EXCEPT ![p] = [op |-> op, by |-> x, target |-> target,
                        role |-> role, disabled |-> disabled, past |-> FALSE]]
    /\ UNCHANGED people

End(p) == request' = [request EXCEPT ![p] = NoRequest]

Taken(x) == Known(x)

InviteAdministrator(p) ==
    LET r == request[p] IN
    /\ r.op = "invite"
    /\ IF Taken(r.target) \/ invitation[r.target].issue = MaxIssue
       THEN UNCHANGED invitation
       ELSE Invited(r.target, r.role, r.by)
    /\ End(p)
    /\ UNCHANGED <<user, activating>>

RevokeAdministratorInvitation(p) ==
    LET r == request[p] IN
    /\ r.op = "revoke"
    /\ invitation' = IF invitation[r.target].status = "open"
                     THEN [invitation EXCEPT ![r.target].status = "revoked"] ELSE invitation
    /\ End(p)
    /\ UNCHANGED <<user, activating>>

(* A wrong rule: owners lower themselves like others. *)
MayLowerSelf(r) == TRUE

KeepsSelf(r) == r.target = r.by => ~r.disabled /\ r.role = "owner"

Lowered(r) == ActiveOwner(r.target) /\ (r.disabled \/ r.role # "owner")

(* updateAdministrator up to its UPDATE: FOR UPDATE on the target, then the    *)
(* checks.                                                                    *)
CheckAdministrator(p) ==
    LET r == request[p] IN
    /\ r.op = "update" /\ ~r.past
    /\ ~SharedByOther(r.target, p)
    /\ IF /\ Known(r.target)
          /\ KeepsSelf(r)
          /\ Lowered(r) => AnotherActiveOwner(r.target)
       THEN request' = [request EXCEPT ![p].past = TRUE]
       ELSE End(p)
    /\ UNCHANGED people

(* The UPDATE and its trigger. *)
UpdateAdministrator(p) ==
    LET r == request[p] IN
    /\ r.op = "update" /\ r.past
    /\ IF Lowered(r) => AnotherActiveOwner(r.target)
       THEN user' = [user EXCEPT ![r.target].role = r.role, ![r.target].disabled = r.disabled]
       ELSE UNCHANGED user
    /\ End(p)
    /\ UNCHANGED <<invitation, activating>>

(* An operator's work on organizations, or an administrator's own telephone.  *)
Work(p) ==
    /\ request[p].op \in {"operate", "phone"}
    /\ request[p].op = "phone" => ~SharedByOther(request[p].by, p)
    /\ End(p)
    /\ UNCHANGED people

(* The telephone needs the row alone: two requests of one administrator wait   *)
(* for each other, or the process dies, and the database ends one.            *)
Abort(p) ==
    /\ request[p].op # "none"
    /\ End(p)
    /\ UNCHANGED people

SuperadminNext ==
    \/ BootstrapSuperadminOwner
    \/ \E x \in Administrator :
        \/ AdmissionCheck(x) \/ Expire(x)
        \/ EnrolFactor(x)
    \/ \E a \in activating : Admit(a[1], a[2])
    \/ \E p \in Request :
        \/ \E x, target \in Administrator, role \in Role :
            \/ Begin(p, x, "invite", target, role, FALSE)
            \/ \E disabled \in BOOLEAN : Begin(p, x, "update", target, role, disabled)
        \/ \E x, target \in Administrator : Begin(p, x, "revoke", target, "owner", FALSE)
        \/ \E x \in Administrator, op \in {"operate", "phone"} : Begin(p, x, op, None, "owner", FALSE)
        \/ InviteAdministrator(p) \/ RevokeAdministratorInvitation(p)
        \/ CheckAdministrator(p) \/ UpdateAdministrator(p)
        \/ Work(p) \/ Abort(p)

SuperadminSpec == SuperadminInit /\ [][SuperadminNext]_superadminVars

-----------------------------------------------------------------------------
(* The variables keep their shape, and the administrators are the addresses    *)
(* whose invitation was accepted.                                             *)
SuperadminTypeOK ==
    /\ user \in [Administrator -> User]
    /\ invitation \in [Administrator -> Letter]
    /\ activating \subseteq Administrator \X (1..MaxIssue)
    /\ request \in [Request -> [op : Op, by : Administrator \cup {None},
            target : Administrator \cup {None}, role : Role, disabled : BOOLEAN, past : BOOLEAN]]
    /\ \A x \in Administrator : Known(x) <=> invitation[x].status = "accepted"

OwnerCanAct == \E x \in Administrator : ActiveOwner(x) /\ user[x].enrolled

(* Once an owner has a second factor, and so can act, there always is one: an  *)
(* owner who has just been admitted does not stand in for the last who can,   *)
(* even when two owners lower each other at once.                             *)
OwnerWhoCanActRemains == [][OwnerCanAct => OwnerCanAct']_superadminVars

(* Whoever is admitted was invited by someone who is an owner at that moment,  *)
(* or is the first: an owner lowered between the admission check and the      *)
(* registration takes the invitation along.                                   *)
AdmittedByAnOwner ==
    [][\A x \in Administrator : ~Known(x) /\ Known(x)' =>
        IF invitation[x].by = None THEN \A y \in Administrator : ~Known(y)
                                   ELSE ActiveOwner(invitation[x].by)]_superadminVars

(* What a request writes, it writes while its administrator still has the role *)
(* it was checked for: nobody is disabled or lowered under a running request.  *)
ActsInOffice == \A p \in Request : request[p].op # "none" =>
    LET x == request[p].by
    IN ~user[x].disabled /\ user[x].role \in Need[NeedOf[request[p].op]]

(* Administrators and invitations agree, and nobody acts out of office.       *)
SuperadminConsistent == SuperadminTypeOK /\ ActsInOffice

(* The platform stays in the hands of its owners: one who can act remains,    *)
(* and only an owner's invitation admits.                                     *)
OwnersStayInCharge == OwnerWhoCanActRemains /\ AdmittedByAnOwner
=============================================================================
