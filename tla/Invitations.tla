----------------------------- MODULE Invitations -----------------------------
(***************************************************************************)
(* How people come in: an invitation with its token and its delivery, the    *)
(* account registered through it, the claim that binds the two, acceptance,  *)
(* and the other way in, founding an organization of one's own.              *)
(*                                                                          *)
(* Acceptance, registration and onboarding each run in one transaction that  *)
(* holds the row of the account (acceptance, onboarding) and of the          *)
(* invitation (acceptance, the registration trigger) to its end, so each is  *)
(* one step.  What happens outside a transaction is a step of its own: the   *)
(* admission check before a registration, the mail after an invitation was   *)
(* written, the record of what became of the mail.                           *)
(*                                                                          *)
(* The application user of an account has the name of the account it was     *)
(* first created for: an account registered later with the same address      *)
(* takes it over.  What an invitation grants beyond the membership is in     *)
(* Rooms, which also has the change and the return of a membership.          *)
(***************************************************************************)
EXTENDS Integers, FiniteSets

CONSTANTS
    Account,
    Invitation,
    Organization,
    Email,
    Org,            \* the organization of an invitation
    Address,        \* the address it is for
    None,
    Tombstone,      \* a claim whose account is not named any more
    MaxToken        \* bound: the tokens an invitation is given

ASSUME InvitationsAssumption ==
    /\ Org \in [Invitation -> Organization]
    /\ Address \in [Invitation -> Email]
    /\ None \notin Account \cup Email
    /\ Tombstone \notin Account \cup {None}
    /\ MaxToken \in Nat \ {0}

VARIABLES
    row,            \* invitations
    claim,          \* registration_invitation_claims, None where there is no row
    unclaimed,      \* the invitations a superadmin's resend saw without a claim
    sending,        \* the deliveries some API process is working on
    mailed,         \* the tokens that reached their address
    admitted,       \* registrations past the admission check
    email,          \* user.email, None before the account and after it
    verified,       \* user.emailVerified
    mapped,         \* auth_user_mappings
    address,        \* app_users.email
    member,         \* memberships
    founder,        \* the application users with an organization of their own
    founding,       \* onboarding_progress that is completed
    born,           \* history: the accounts registered through an invitation
    replayed        \* history: the invitations a second acceptance succeeded for

people == <<email, verified, mapped, address>>
places == <<member, founder, founding>>
delivery == <<sending, mailed>>
invitationsVars == <<row, claim, unclaimed, delivery, admitted, people, places, born, replayed>>

Status == {"absent", "open", "revoked", "accepted"}
Delivery == {"pending", "sent", "failed"}
Row == [status : Status, token : 0..MaxToken, version : Nat, expired : BOOLEAN,
        delivery : Delivery, by : Account \cup {None}]
Sending == [invitation : Invitation, token : 1..MaxToken, version : Nat,
            from : {"manager", "superadmin"}, outcome : {"due", "sent", "failed"}]

-----------------------------------------------------------------------------
Live(a) == email[a] # None

Open(i) == row[i].status = "open"

Acceptable(i) == Open(i) /\ ~row[i].expired

(* The application user ensureApplicationUser arrives at. *)
Person(a) ==
    IF mapped[a] # None THEN mapped[a]
    ELSE IF \E p \in Account : address[p] = email[a]
         THEN CHOOSE p \in Account : address[p] = email[a]
         ELSE a

IsMember(p) == p \in founder \/ \E o \in Organization : member[o][p] = "active"

(* hasPendingRegistrationInvitationClaim: revoked and expired ones count. *)
PendingClaim(a) == \E i \in Invitation : claim[i] = a /\ row[i].status # "accepted"

(* A wrong rule: no row is left behind. *)
ReleasedWithoutTrace(a) == [i \in Invitation |-> IF claim[i] = a THEN None ELSE claim[i]]

Released(a) == [i \in Invitation |-> IF claim[i] = a THEN Tombstone ELSE claim[i]]

Dispatch(i, from) ==
    sending' = sending \cup {[invitation |-> i, token |-> row'[i].token,
                              version |-> row'[i].version, from |-> from, outcome |-> "due"]}

InvitationsInit ==
    /\ row = [i \in Invitation |-> [status |-> "absent", token |-> 0, version |-> 0,
                expired |-> FALSE, delivery |-> "pending", by |-> None]]
    /\ claim = [i \in Invitation |-> None]
    /\ unclaimed = {} /\ sending = {} /\ mailed = {} /\ admitted = {}
    /\ email = [a \in Account |-> None]
    /\ verified = {}
    /\ mapped = [a \in Account |-> None]
    /\ address = [a \in Account |-> None]
    /\ member = [o \in Organization |-> [a \in Account |-> "none"]]
    /\ founder = {} /\ founding = {}
    /\ born = [i \in Invitation |-> {}]
    /\ replayed = {}

-----------------------------------------------------------------------------
(* The invitation and its mail.  One open invitation per address and          *)
(* organization, the expired ones included.                                   *)
Create(i) ==
    /\ row[i].status = "absent"
    /\ \A p \in Account : address[p] = Address[i] => member[Org[i]][p] # "active"
    /\ \A j \in Invitation : Open(j) => Org[j] # Org[i] \/ Address[j] # Address[i]
    /\ row' = [row EXCEPT ![i].status = "open", ![i].token = 1, ![i].version = 1]
    /\ Dispatch(i, "manager")
    /\ UNCHANGED <<unclaimed, claim, mailed, admitted, people, places, born, replayed>>

Renewed(i) ==
    row' = [row EXCEPT ![i].token = @ + 1, ![i].version = @ + 1,
                       ![i].expired = FALSE, ![i].delivery = "pending"]

ResendInvitation(i) ==
    /\ Open(i)
    /\ row[i].token < MaxToken
    /\ Renewed(i)
    /\ Dispatch(i, "manager")
    /\ UNCHANGED <<claim, unclaimed, mailed, admitted, people, places, born, replayed>>

(* The superadmin's resend looks for a claim before it waits for the row, and *)
(* a registration that holds the row leaves it as it was: it is not looked at *)
(* again.                                                                     *)
SeeUnclaimed(i) ==
    /\ Open(i) /\ claim[i] = None
    /\ i \notin unclaimed /\ row[i].token < MaxToken
    /\ unclaimed' = unclaimed \cup {i}
    /\ UNCHANGED <<row, claim, delivery, admitted, people, places, born, replayed>>

ResendOrganizationInvitation(i) ==
    /\ i \in unclaimed
    /\ unclaimed' = unclaimed \ {i}
    /\ IF Open(i) /\ row[i].token < MaxToken
       THEN /\ Renewed(i)
            /\ Dispatch(i, "superadmin")
       ELSE UNCHANGED <<row, sending>>
    /\ UNCHANGED <<claim, mailed, admitted, people, places, born, replayed>>

Revoke(i) ==
    /\ Open(i)
    /\ row' = [row EXCEPT ![i].status = "revoked", ![i].version = @ + 1]
    /\ UNCHANGED <<unclaimed, claim, delivery, admitted, people, places, born, replayed>>

LinkExpires(i) ==
    /\ row[i].status \in {"open", "accepted"} /\ ~row[i].expired
    /\ row' = [row EXCEPT ![i].expired = TRUE]
    /\ UNCHANGED <<unclaimed, claim, delivery, admitted, people, places, born, replayed>>

Deliver(s) ==
    /\ s.outcome = "due"
    /\ \E o \in {"sent", "failed"} :
        /\ sending' = (sending \ {s}) \cup {[s EXCEPT !.outcome = o]}
        /\ mailed' = IF o = "sent" THEN mailed \cup {<<s.invitation, s.token>>} ELSE mailed
    /\ UNCHANGED <<unclaimed, row, claim, admitted, people, places, born, replayed>>

(* The manager's record names the version it read, the superadmin's the token. *)
Recordable(s) ==
    /\ Open(s.invitation)
    /\ IF s.from = "manager" THEN row[s.invitation].version = s.version
                             ELSE row[s.invitation].token = s.token

RecordSending(s) ==
    /\ s.outcome # "due"
    /\ row' = IF Recordable(s)
              THEN [row EXCEPT ![s.invitation].delivery = s.outcome,
                               ![s.invitation].version = IF s.from = "manager" THEN @ + 1 ELSE @]
              ELSE row
    /\ sending' = sending \ {s}
    /\ UNCHANGED <<unclaimed, claim, mailed, admitted, people, places, born, replayed>>

(* The process dies, or the database is away when the outcome is known. *)
Crash(s) ==
    /\ sending' = sending \ {s}
    /\ UNCHANGED <<unclaimed, row, claim, mailed, admitted, people, places, born, replayed>>

-----------------------------------------------------------------------------
(* Accounts.                                                                  *)
Free(e) == \A b \in Account : email[b] # e

Fresh(a) == ~Live(a) /\ (\A i \in Invitation : a \notin born[i]) /\ address[a] = None

(* eligibleInvitationAdmission, with the token from the mail. *)
Admit(a, i) ==
    /\ Fresh(a)
    /\ \A r \in admitted : r.account # a
    /\ <<i, row[i].token>> \in mailed
    /\ Acceptable(i)
    /\ claim[i] = None
    /\ admitted' = admitted \cup {[account |-> a, invitation |-> i, token |-> row[i].token]}
    /\ UNCHANGED <<unclaimed, row, claim, delivery, people, places, born, replayed>>

(* The trigger's conditions, under the lock of the invitation. *)
Claimable(r) ==
    /\ row[r.invitation].token = r.token
    /\ Acceptable(r.invitation)
    /\ claim[r.invitation] = None

Register(r) ==
    /\ admitted' = admitted \ {r}
    /\ IF Claimable(r) /\ Free(Address[r.invitation])
       THEN /\ claim' = [claim EXCEPT ![r.invitation] = r.account]
            /\ email' = [email EXCEPT ![r.account] = Address[r.invitation]]
            /\ born' = [born EXCEPT ![r.invitation] = @ \cup {r.account}]
       ELSE UNCHANGED <<claim, email, born>>
    /\ UNCHANGED <<unclaimed, row, delivery, verified, mapped, address, places, replayed>>

(* Registration that is not by invitation: it leaves no claim. *)
RegisterOpenly(a, e) ==
    /\ Fresh(a)
    /\ \A r \in admitted : r.account # a
    /\ Free(e)
    /\ email' = [email EXCEPT ![a] = e]
    /\ UNCHANGED <<unclaimed, row, claim, delivery, admitted, verified, mapped, address, places, born, replayed>>

Verify(a) ==
    /\ Live(a) /\ a \notin verified
    /\ verified' = verified \cup {a}
    /\ UNCHANGED <<unclaimed, row, claim, delivery, admitted, email, mapped, address, places, born, replayed>>

(* The second link of an email change.  A trigger takes the application user  *)
(* along, and a taken address fails the change.                               *)
ChangeEmail(a, e) ==
    /\ a \in verified
    /\ Free(e)
    /\ mapped[a] # None => \A p \in Account : address[p] # e
    /\ email' = [email EXCEPT ![a] = e]
    /\ address' = IF mapped[a] = None THEN address ELSE [address EXCEPT ![mapped[a]] = e]
    /\ UNCHANGED <<unclaimed, row, claim, delivery, admitted, verified, mapped, places, born, replayed>>

NotVerified(a) == verified \ {a}

(* What the foreign keys do when an account's row is deleted: no code deletes  *)
(* one, an operator does.                                                     *)
DeleteAccount(a) ==
    /\ Live(a)
    /\ email' = [email EXCEPT ![a] = None]
    /\ verified' = NotVerified(a)
    /\ mapped' = [mapped EXCEPT ![a] = None]
    /\ founding' = founding \ {a}
    /\ claim' = Released(a)
    /\ UNCHANGED <<unclaimed, row, delivery, admitted, address, member, founder, born, replayed>>

-----------------------------------------------------------------------------
MapTo(a, p) ==
    /\ mapped' = [mapped EXCEPT ![a] = p]
    /\ address' = [address EXCEPT ![p] = email[a]]

(* A wrong rule: the address is enough. *)
ClaimAllowsAnyone(i, a) == TRUE

(* The claim of another account, or a tombstone, refuses. *)
ClaimAllows(i, a) == claim[i] \in {None, a}

AcceptUnaccepted(a, i) ==
    LET p == Person(a) IN
    /\ a \in verified
    /\ Acceptable(i)
    /\ email[a] = Address[i]
    /\ ClaimAllows(i, a)
    /\ member[Org[i]][p] # "active"
    /\ MapTo(a, p)
    /\ member' = [member EXCEPT ![Org[i]][p] = "active"]
    /\ row' = [row EXCEPT ![i].status = "accepted", ![i].by = p, ![i].version = @ + 1]
    /\ claim' = Released(a)
    /\ UNCHANGED <<unclaimed, delivery, admitted, email, verified, founder, founding, born, replayed>>

HoldsToken(i) == <<i, row[i].token>> \in mailed

AcceptInvitation(a, i) == HoldsToken(i) /\ AcceptUnaccepted(a, i)

AcceptClaimedInvitation(a, i) == claim[i] = a /\ AcceptUnaccepted(a, i)

(* replayAcceptedInvitation: only for the one who accepted, while a member. *)
ReplayEffect(a, i) ==
    /\ member[Org[i]][row[i].by] = "active"
    /\ UNCHANGED member

ReplayAcceptedInvitation(a, i) ==
    /\ HoldsToken(i)
    /\ a \in verified
    /\ row[i].status = "accepted" /\ ~row[i].expired
    /\ email[a] = Address[i]
    /\ mapped[a] = row[i].by
    /\ ReplayEffect(a, i)
    /\ replayed' = replayed \cup {i}
    /\ UNCHANGED <<unclaimed, row, claim, delivery, admitted, people, founder, founding, born>>

(* completeOnboarding; its replay changes nothing. *)
CompleteOnboarding(a) ==
    LET p == Person(a) IN
    /\ a \in verified
    /\ a \notin founding
    /\ mapped[a] = None
    /\ ~PendingClaim(a)
    /\ ~IsMember(p)
    /\ MapTo(a, p)
    /\ founder' = founder \cup {p}
    /\ founding' = founding \cup {a}
    /\ UNCHANGED <<unclaimed, row, claim, delivery, admitted, email, verified, member, born, replayed>>

(* updateMembership: a manager takes a member out. *)
RemoveMember(o, p) ==
    /\ member[o][p] = "active"
    /\ member' = [member EXCEPT ![o][p] = "removed"]
    /\ UNCHANGED <<unclaimed, row, claim, delivery, admitted, people, founder, founding, born, replayed>>

InvitationsNext ==
    \/ \E i \in Invitation :
        \/ Create(i) \/ ResendInvitation(i)
        \/ SeeUnclaimed(i) \/ ResendOrganizationInvitation(i)
        \/ Revoke(i) \/ LinkExpires(i)
    \/ \E s \in sending : Deliver(s) \/ RecordSending(s) \/ Crash(s)
    \/ \E r \in admitted : Register(r)
    \/ \E a \in Account :
        \/ Verify(a) \/ DeleteAccount(a) \/ CompleteOnboarding(a)
        \/ \E e \in Email : RegisterOpenly(a, e) \/ ChangeEmail(a, e)
        \/ \E i \in Invitation :
            \/ Admit(a, i) \/ AcceptInvitation(a, i) \/ AcceptClaimedInvitation(a, i)
            \/ ReplayAcceptedInvitation(a, i)
        \/ \E o \in Organization : RemoveMember(o, a)

InvitationsSpec == InvitationsInit /\ [][InvitationsNext]_invitationsVars

-----------------------------------------------------------------------------
(* The variables keep their shape. *)
InvitationsTypeOK ==
    /\ row \in [Invitation -> Row]
    /\ claim \in [Invitation -> Account \cup {None, Tombstone}]
    /\ unclaimed \subseteq Invitation
    /\ sending \subseteq Sending
    /\ mailed \subseteq Invitation \X (1..MaxToken)
    /\ admitted \subseteq [account : Account, invitation : Invitation, token : 1..MaxToken]
    /\ email \in [Account -> Email \cup {None}]
    /\ verified \subseteq {a \in Account : Live(a)}
    /\ mapped \in [Account -> Account \cup {None}]
    /\ address \in [Account -> Email \cup {None}]
    /\ member \in [Organization -> [Account -> {"none", "active", "removed"}]]
    /\ founder \subseteq Account
    /\ founding \subseteq Account
    /\ born \in [Invitation -> SUBSET Account]
    /\ replayed \subseteq Invitation

(* Whatever is resent, changed or deleted, one invitation makes one account:  *)
(* the unique claim that outlives its account, across the race of two         *)
(* registrations with the same link.                                          *)
OneAccountPerInvitation == \A i \in Invitation : Cardinality(born[i]) <= 1

(* An invitation an account was registered through is accepted by that        *)
(* account and no other, even one that has taken over the invited address.    *)
OnlyItsAccountAccepts ==
    [][\A i \in Invitation, a \in Account :
        (row[i].by = None /\ row'[i].by # None /\ mapped'[a] = row'[i].by) => born[i] \subseteq {a}]_invitationsVars

(* An invited account whose invitation waits for an answer has not founded an *)
(* organization of its own, revoked and expired invitations included.         *)
InvitedDoNotFound == \A i \in Invitation :
    claim[i] \in Account /\ row[i].status # "accepted" => claim[i] \notin founding

(* Nobody founds an organization who belongs to one: acceptance and           *)
(* onboarding of one account exclude each other, whichever is first.          *)
FoundersBelongNowhere ==
    [][\A p \in founder' \ founder : \A o \in Organization : member[o][p] # "active"]_invitationsVars

(* A member who was taken out comes back by an invitation nobody had          *)
(* accepted, never by the link of the one they came with.                     *)
RemovedStayOut ==
    [][\A o \in Organization, p \in Account :
        (member[o][p] # "active" /\ member'[o][p] = "active") =>
            \E i \in Invitation : Org[i] = o /\ row[i].by = None /\ row'[i].by = p]_invitationsVars

(* An invitation shown as sent was sent with the token that opens it: a late   *)
(* record of an earlier mail does not pass for the one after it.              *)
SentIsTheOpenToken == \A i \in Invitation :
    row[i].delivery = "sent" => <<i, row[i].token>> \in mailed

(* docs/identity-tenant-boundary.md:93 on the claim: "acceptance is bound to   *)
(* the claimed auth identity": while the account lives, its invitation stays   *)
(* claimed by it until it is accepted.                                        *)
ClaimStaysBound == \A i \in Invitation : \A a \in born[i] :
    Live(a) /\ Acceptable(i) => claim[i] = a

(* docs/identity-tenant-boundary.md:139 on acceptance: "Replaying the token    *)
(* fails."                                                                    *)
ReplayFails == replayed = {}

(* Invitation, account and mail agree across races of registrations, resends  *)
(* and deletions: one account for an invitation, none that waits has founded  *)
(* an organization, and what is shown as sent can be opened.                  *)
InvitationsConsistent ==
    /\ InvitationsTypeOK
    /\ OneAccountPerInvitation
    /\ InvitedDoNotFound
    /\ SentIsTheOpenToken

(* A membership, or an organization of one's own, comes about in one way: an  *)
(* open invitation accepted by the account that claimed it, or an onboarding  *)
(* of somebody who belongs nowhere.                                           *)
MembershipsAreEarned ==
    OnlyItsAccountAccepts /\ FoundersBelongNowhere /\ RemovedStayOut
=============================================================================
