------------------------------ MODULE Privacy ------------------------------
(***************************************************************************)
(* The retention policy of one category of data, and one privacy request.    *)
(* A policy nobody changed has no row: every organization begins with the     *)
(* default, as version 1.  A change reads the row, if there is one, and       *)
(* inserts or updates it in a later statement; cancelling a request reads it *)
(* and updates it in a later statement.                                      *)
(***************************************************************************)
EXTENDS Integers

CONSTANTS
    Person,         \* the organization's administrators; the request is the first one's
    Requester,
    Setting,        \* the days, disposition and legal hold of a policy
    Default,
    Command,        \* the commands sent to the server
    MaxVersion      \* bounds the version of the policy in the model

ASSUME PrivacyAssumption ==
    /\ Requester \in Person /\ Default \in Setting
    /\ MaxVersion \in Nat \ {0}

VARIABLES
    policy,         \* whether there is a row, its version and its setting
    privacyRequest, \* the privacy request, with the policy version it records
    page,           \* the versions each person's page shows
    job,            \* each command and its transaction
    active,         \* the people who are active members
    cancellations   \* the journal's entries of the request's cancellation

privacyVars == <<policy, privacyRequest, page, job, active, cancellations>>

NoPolicyRow == 0
Unsent == [step |-> "unsent"]

Policy == [row : BOOLEAN, version : 1..MaxVersion, setting : Setting]
FiledRequest == [status : {"none", "submitted", "cancelled"}, version : 0..1,
                   recorded : 0..MaxVersion]

(* What a command read: a version, or that the policy has no row. *)
Job == [step : {"sent", "checked", "refused", "written"}, by : Person,
        kind : {"change", "submit", "cancel"}, expected : 0..MaxVersion, setting : Setting,
        current : 0..MaxVersion]

PrivacyInit ==
    /\ policy = [row |-> FALSE, version |-> 1, setting |-> Default]
    /\ privacyRequest = [status |-> "none", version |-> 0, recorded |-> 0]
    /\ page = [p \in Person |-> [policy |-> 0, request |-> 0]]
    /\ job = [c \in Command |-> Unsent]
    /\ active = Person
    /\ cancellations = 0

-----------------------------------------------------------------------------
(* The page lists the policies, defaults included, and the requests. *)
listRetentionPolicies(p) ==
    /\ page' = [page EXCEPT ![p] = [policy |-> policy.version, request |-> privacyRequest.version]]
    /\ UNCHANGED <<policy, privacyRequest, job, active, cancellations>>

send(c, p, kind, setting) ==
    /\ job[c] = Unsent /\ page[p].policy # 0
    /\ job' = [job EXCEPT ![c] =
          [step |-> "sent", by |-> p, kind |-> kind, setting |-> setting, current |-> 0,
           expected |-> IF kind = "cancel" THEN page[p].request ELSE page[p].policy]]
    /\ UNCHANGED <<policy, privacyRequest, page, active, cancellations>>

mayChange(c) ==
    /\ job[c].kind = "change" /\ job[c].by \in active
    /\ job[c].expected = policy.version

maySubmit(c) ==
    /\ job[c].kind = "submit" /\ job[c].by = Requester /\ job[c].by \in active

mayCancel(c) ==
    /\ job[c].kind = "cancel" /\ job[c].by = Requester
    /\ privacyRequest.status = "submitted" /\ job[c].expected = privacyRequest.version

(* The transaction reads what it is about and checks it. *)
check(c) ==
    /\ job[c].step = "sent"
    /\ \/ mayChange(c) /\ job' = [job EXCEPT ![c].step = "checked",
                             ![c].current = IF policy.row THEN policy.version ELSE NoPolicyRow]
       \/ maySubmit(c) /\ job' = [job EXCEPT ![c].step = "checked", ![c].current = policy.version]
       \/ mayCancel(c) /\ job' = [job EXCEPT ![c].step = "checked", ![c].current = privacyRequest.version]
    /\ UNCHANGED <<policy, privacyRequest, page, active, cancellations>>

refuse(c) ==
    /\ job[c].step = "sent" /\ ~mayChange(c) /\ ~maySubmit(c) /\ ~mayCancel(c)
    /\ job' = [job EXCEPT ![c].step = "refused"]
    /\ UNCHANGED <<policy, privacyRequest, page, active, cancellations>>

(* A wrong conflict: without a row read there is nothing to compare.         *)
upsertsAnyRow(c) ==
    policy.row => \/ job[c].current = NoPolicyRow
                  \/ policy.version = job[c].expected

(* A conflict updates the row only if a row had been read, at its version.   *)
upserts(c) ==
    policy.row => job[c].current # NoPolicyRow /\ policy.version = job[c].expected

updateRetentionPolicy(c) ==
    /\ job[c].step = "checked" /\ job[c].kind = "change" /\ upserts(c)
    /\ job[c].expected < MaxVersion
    /\ policy' = [row |-> TRUE, version |-> job[c].expected + 1, setting |-> job[c].setting]
    /\ job' = [job EXCEPT ![c].step = "written"]
    /\ UNCHANGED <<privacyRequest, page, active, cancellations>>

(* One request is followed here; a second one is a row of its own. *)
createRequest(c) ==
    /\ job[c].step = "checked" /\ job[c].kind = "submit" /\ privacyRequest.status = "none"
    /\ privacyRequest' = [status |-> "submitted", version |-> 0, recorded |-> job[c].current]
    /\ job' = [job EXCEPT ![c].step = "written"]
    /\ UNCHANGED <<policy, page, active, cancellations>>

cancelRequest(c) ==
    /\ job[c].step = "checked" /\ job[c].kind = "cancel"
    /\ privacyRequest.version = job[c].expected
    /\ privacyRequest' = [privacyRequest EXCEPT !.status = "cancelled", !.version = privacyRequest.version + 1]
    /\ job' = [job EXCEPT ![c].step = "written"]
    /\ cancellations' = cancellations + 1
    /\ UNCHANGED <<policy, page, active>>

conflict(c) ==
    /\ job[c].step = "checked"
    /\ \/ job[c].kind = "change" /\ ~upserts(c)
       \/ job[c].kind = "cancel" /\ privacyRequest.version # job[c].expected
    /\ job' = [job EXCEPT ![c].step = "refused"]
    /\ UNCHANGED <<policy, privacyRequest, page, active, cancellations>>

(* The transaction is lost before it commits; the same command is sent again. *)
AbortPrivacy(c) ==
    /\ job[c].step = "checked"
    /\ job' = [job EXCEPT ![c].step = "sent", ![c].current = 0]
    /\ UNCHANGED <<policy, privacyRequest, page, active, cancellations>>

Leave(p) ==
    /\ active' = active \ {p}
    /\ UNCHANGED <<policy, privacyRequest, page, job, cancellations>>

PrivacyNext ==
    \/ \E p \in Person : listRetentionPolicies(p) \/ Leave(p)
    \/ \E c \in Command, p \in Person, kind \in {"change", "submit", "cancel"}, setting \in Setting :
          send(c, p, kind, setting)
    \/ \E c \in Command :
          \/ check(c) \/ refuse(c) \/ conflict(c) \/ AbortPrivacy(c)
          \/ updateRetentionPolicy(c) \/ createRequest(c) \/ cancelRequest(c)

PrivacySpec == PrivacyInit /\ [][PrivacyNext]_privacyVars

-----------------------------------------------------------------------------
PrivacyTypeOK ==
    /\ policy \in Policy /\ privacyRequest \in FiledRequest
    /\ page \in [Person -> [policy : 0..MaxVersion, request : 0..1]]
    /\ job \in [Command -> {Unsent} \cup Job]
    /\ active \subseteq Person /\ cancellations \in Nat
    /\ policy.row <=> policy.version > 1

(* A request is cancelled once, however often and wherever that is asked for, *)
(* and the journal has one entry of it.                                      *)
CancelledOnce ==
    cancellations = IF privacyRequest.status = "cancelled" THEN 1 ELSE 0

Promise == INSTANCE VersionedPromise WITH
    Client <- Person, Value <- Setting, Allowed <- Setting \X Setting,
    value <- policy.setting, version <- policy.version,
    knows <- [p \in Person |-> page[p].policy]

(* A policy is changed by someone who saw the policy in force: also the first *)
(* time, when there is no row yet to compare with or to lock.                *)
PrivacyKept == [](PrivacyTypeOK /\ CancelledOnce) /\ Promise!Spec
=============================================================================
