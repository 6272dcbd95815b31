----------------------------- MODULE EmailChange -----------------------------
(***************************************************************************)
(* The login address of an account changes after a link in its inbox and then *)
(* one in the new inbox were opened.  Starts, cancellations and opened links   *)
(* of one account exclude each other by an advisory lock of the database; the  *)
(* connection that holds it is one of the pool the steps under it draw from.   *)
(***************************************************************************)
EXTENDS Integers, FiniteSets

CONSTANTS
    EmailAccount,
    LoginAddress,
    EmailRequest,       \* each is sent once; a start names the change it starts
    PoolSize            \* connections of the pool, 10 in the code

ASSUME EmailChangeAssumption == PoolSize \in Nat \ {0} /\ IsFiniteSet(EmailRequest)

VARIABLES
    loginEmail, \* the address of each account: its credentials and its user's
    pending,    \* the change each account's profile shows
    markers,    \* the links that may still be used
    inbox,      \* the links that were delivered
    job,        \* the requests
    ended,      \* the changes that an answer said are cancelled or replaced
    applied     \* the change that gave each account its address

emailChangeVars == <<loginEmail, pending, markers, inbox, job, ended, applied>>

Stage == {"confirm-current", "verify-new"}
Link == [account : EmailAccount, stage : Stage, email : LoginAddress, change : EmailRequest]
Pending == [email : LoginAddress, stage : Stage, change : EmailRequest]
NoPending == [stage |-> "none"]
NoChange == "none"
NoLink == [stage |-> "none"]
Unsent == [step |-> "unsent", connected |-> FALSE, locked |-> FALSE]

Job == [kind : {"start", "cancel", "open"}, account : EmailAccount, link : Link \cup {NoLink},
        step : {"arrived", "identified", "connected", "locked", "vacant", "retired", "recorded",
                "remembered", "undelivered", "forgotten", "consumed", "applied", "finished",
                "answered", "lost"},
        result : {"none", "ok", "failed"},
        connected : BOOLEAN, locked : BOOLEAN, ends : SUBSET EmailRequest]

EmailChangeInit ==
    /\ loginEmail \in [EmailAccount -> LoginAddress]
    /\ \A a, b \in EmailAccount : a # b => loginEmail[a] # loginEmail[b]
    /\ pending = [a \in EmailAccount |-> NoPending]
    /\ markers = {} /\ inbox = {}
    /\ job = [r \in EmailRequest |-> Unsent]
    /\ ended = {}
    /\ applied = [a \in EmailAccount |-> NoChange]

-----------------------------------------------------------------------------
arrive(r, kind, a, link) ==
    /\ job[r] = Unsent
    /\ job' = [job EXCEPT ![r] = [kind |-> kind, account |-> a, link |-> link, step |-> "arrived",
                                  result |-> "none", connected |-> FALSE, locked |-> FALSE,
                                  ends |-> {}]]
    /\ UNCHANGED <<loginEmail, pending, markers, inbox, ended, applied>>

start(r, a, to) ==
    /\ to # loginEmail[a]
    /\ arrive(r, "start", a,
              [account |-> a, stage |-> "confirm-current", email |-> to, change |-> r])

cancel(r, a) == arrive(r, "cancel", a, NoLink)

open(r, link) == link \in inbox /\ arrive(r, "open", link.account, link)

-----------------------------------------------------------------------------
(* A statement outside of the lock's own connection takes one from the pool *)
(* for as long as it runs.                                                  *)
free == PoolSize > Cardinality({r \in EmailRequest : job[r].connected})

at(r, kind, step) == job[r].step = step /\ job[r].kind = kind
on(r, step) == job[r].step = step /\ free
go(r, step) == job' = [job EXCEPT ![r].step = step]
close(r, step) ==
    job' = [job EXCEPT ![r].step = step, ![r].result = "none", ![r].ends = {},
                       ![r].connected = FALSE, ![r].locked = FALSE]
finish(r, result) == job' = [job EXCEPT ![r].step = "finished", ![r].result = result]

(* Whose request it is: of the session, or of the mark of the opened link. *)
identify(r) ==
    /\ on(r, "arrived")
    /\ IF job[r].kind = "open" /\ job[r].link \notin markers
       THEN close(r, "answered")
       ELSE go(r, "identified")
    /\ UNCHANGED <<loginEmail, pending, markers, inbox, ended, applied>>

connect(r) ==
    /\ on(r, "identified")
    /\ job' = [job EXCEPT ![r].step = "connected", ![r].connected = TRUE]
    /\ UNCHANGED <<loginEmail, pending, markers, inbox, ended, applied>>

LockIsFree(a) == \A q \in EmailRequest : job[q].locked => job[q].account # a

tryLock(r) ==
    /\ job[r].step = "connected"
    /\ IF LockIsFree(job[r].account)
       THEN job' = [job EXCEPT ![r].step = "locked", ![r].locked = TRUE]
       ELSE close(r, "answered")
    /\ UNCHANGED <<loginEmail, pending, markers, inbox, ended, applied>>

-----------------------------------------------------------------------------
(* An address of somebody else is answered like any other, and nothing is done. *)
checkVacant(r) ==
    /\ at(r, "start", "locked") /\ free
    /\ IF \E a \in EmailAccount : loginEmail[a] = job[r].link.email
       THEN finish(r, "ok")
       ELSE go(r, "vacant")
    /\ UNCHANGED <<loginEmail, pending, markers, inbox, ended, applied>>

retired(a) == {link \in markers : link.account # a}

answeredStarts(a) ==
    {q \in EmailRequest : job[q].step = "answered" /\ job[q].kind = "start" /\ job[q].account = a}

(* Every link of the account is taken back: before a new one, and on demand. *)
cancelEmailChange(r) ==
    /\ at(r, "cancel", "locked") \/ at(r, "start", "vacant")
    /\ free
    /\ markers' = retired(job[r].account)
    /\ pending' = [pending EXCEPT ![job[r].account] = NoPending]
    /\ job' = [job EXCEPT ![r].ends = answeredStarts(job[r].account),
                          ![r].step = IF job[r].kind = "start" THEN "retired" ELSE "finished",
                          ![r].result = IF job[r].kind = "start" THEN "none" ELSE "ok"]
    /\ UNCHANGED <<loginEmail, inbox, ended, applied>>

recordPending(r) ==
    /\ on(r, "retired")
    /\ pending' = [pending EXCEPT ![job[r].account] =
                      [email |-> job[r].link.email, stage |-> "confirm-current", change |-> r]]
    /\ go(r, "recorded")
    /\ UNCHANGED <<loginEmail, markers, inbox, ended, applied>>

(* A wrong link: the present inbox is not asked. *)
outgoingToNew(r) == [job[r].link EXCEPT !.stage = "verify-new"]

(* The link a request sends: the first one of a start, the second one of a *)
(* first that was opened.                                                  *)
outgoing(r) ==
    IF job[r].kind = "start" THEN job[r].link ELSE [job[r].link EXCEPT !.stage = "verify-new"]

rememberEmailVerificationToken(r) ==
    /\ on(r, "recorded")
    /\ markers' = markers \cup {outgoing(r)}
    /\ go(r, "remembered")
    /\ UNCHANGED <<loginEmail, pending, inbox, ended, applied>>

(* A delivery that is reported as failed may have happened. *)
deliver(r) ==
    /\ job[r].step = "remembered"
    /\ \/ inbox' = inbox \cup {outgoing(r)} /\ finish(r, "ok")
       \/ inbox' \in {inbox, inbox \cup {outgoing(r)}} /\ go(r, "undelivered")
    /\ UNCHANGED <<loginEmail, pending, markers, ended, applied>>

forgetEmailVerificationToken(r) ==
    /\ on(r, "undelivered")
    /\ markers' = markers \ {outgoing(r)}
    /\ IF job[r].kind = "start" THEN go(r, "forgotten") ELSE finish(r, "failed")
    /\ UNCHANGED <<loginEmail, pending, inbox, ended, applied>>

dropPending(r) ==
    /\ on(r, "forgotten")
    /\ pending' = [pending EXCEPT ![job[r].account] =
                      IF @ # NoPending /\ @.change = r THEN NoPending ELSE @]
    /\ finish(r, "failed")
    /\ UNCHANGED <<loginEmail, markers, inbox, ended, applied>>

-----------------------------------------------------------------------------
used(r) == markers \ {job[r].link}

consumeEmailVerificationToken(r) ==
    /\ at(r, "open", "locked") /\ free
    /\ markers' = used(r)
    /\ IF job[r].link \in markers THEN go(r, "consumed") ELSE finish(r, "failed")
    /\ UNCHANGED <<loginEmail, pending, inbox, ended, applied>>

(* The first link: the change goes on to the new inbox if it is still pending. *)
advancePending(r) ==
    LET a == job[r].account IN
    /\ on(r, "consumed") /\ job[r].link.stage = "confirm-current"
    /\ IF pending[a] # NoPending /\ pending[a].email = job[r].link.email
       THEN /\ pending' = [pending EXCEPT ![a].stage = "verify-new"]
            /\ go(r, "recorded")
       ELSE /\ finish(r, "failed")
            /\ UNCHANGED pending
    /\ UNCHANGED <<loginEmail, markers, inbox, ended, applied>>

(* The second link: both tables have the address, or neither, and no address *)
(* belongs to two accounts.                                                  *)
updateEmail(r) ==
    LET a == job[r].account IN
    /\ on(r, "consumed") /\ job[r].link.stage = "verify-new"
    /\ IF \A b \in EmailAccount : b # a => loginEmail[b] # job[r].link.email
       THEN /\ loginEmail' = [loginEmail EXCEPT ![a] = job[r].link.email]
            /\ applied' = [applied EXCEPT ![a] = job[r].link.change]
            /\ go(r, "applied")
       ELSE finish(r, "failed") /\ UNCHANGED <<loginEmail, applied>>
    /\ UNCHANGED <<pending, markers, inbox, ended>>

afterEmailVerification(r) ==
    LET a == job[r].account
        is == pending[a] # NoPending /\ pending[a].email = job[r].link.email IN
    /\ on(r, "applied")
    /\ pending' = IF is THEN [pending EXCEPT ![a] = NoPending] ELSE pending
    /\ markers' = IF is THEN retired(a) ELSE markers
    /\ finish(r, "ok")
    /\ UNCHANGED <<loginEmail, inbox, ended, applied>>

(* The lock and its connection are given back, and the answer is sent. *)
answer(r) ==
    /\ job[r].step = "finished"
    /\ close(r, "answered")
    /\ ended' = IF job[r].result = "ok" THEN ended \cup job[r].ends ELSE ended
    /\ UNCHANGED <<loginEmail, pending, markers, inbox, applied>>

-----------------------------------------------------------------------------
(* Time passes: a link, or what the profile shows, is no longer valid. *)
ExpireLinks ==
    /\ \/ \E link \in markers : markers' = markers \ {link} /\ UNCHANGED pending
       \/ \E a \in EmailAccount : /\ pending[a] # NoPending
                             /\ pending' = [pending EXCEPT ![a] = NoPending]
                             /\ UNCHANGED markers
    /\ UNCHANGED <<loginEmail, inbox, job, ended, applied>>

(* The process that serves the request ends, and its connections with it. *)
(* A lock's connection is lost in no other way.                           *)
CrashRequest(r) ==
    /\ job[r].step \notin {"unsent", "answered", "lost"}
    /\ close(r, "lost")
    /\ UNCHANGED <<loginEmail, pending, markers, inbox, ended, applied>>

-----------------------------------------------------------------------------
Step(r) ==
    \/ identify(r) \/ connect(r) \/ tryLock(r)
    \/ checkVacant(r) \/ cancelEmailChange(r) \/ recordPending(r)
    \/ rememberEmailVerificationToken(r) \/ deliver(r)
    \/ forgetEmailVerificationToken(r) \/ dropPending(r)
    \/ consumeEmailVerificationToken(r) \/ advancePending(r)
    \/ updateEmail(r) \/ afterEmailVerification(r) \/ answer(r)

EmailChangeNext ==
    \/ \E r \in EmailRequest, a \in EmailAccount, to \in LoginAddress : start(r, a, to)
    \/ \E r \in EmailRequest, a \in EmailAccount : cancel(r, a)
    \/ \E r \in EmailRequest, link \in inbox : open(r, link)
    \/ \E r \in EmailRequest : Step(r) \/ CrashRequest(r)
    \/ ExpireLinks

EmailChangeSpec == EmailChangeInit /\ [][EmailChangeNext]_emailChangeVars

(* A request that can go on does; nothing has to be sent, expire or crash. *)
EmailChangeFairness == \A r \in EmailRequest : WF_emailChangeVars(Step(r))

FairEmailChangeSpec == EmailChangeSpec /\ EmailChangeFairness

-----------------------------------------------------------------------------
EmailChangeTypeOK ==
    /\ loginEmail \in [EmailAccount -> LoginAddress]
    /\ pending \in [EmailAccount -> Pending \cup {NoPending}]
    /\ markers \subseteq Link /\ inbox \subseteq Link
    /\ job \in [EmailRequest -> Job \cup {Unsent}]
    /\ ended \subseteq EmailRequest
    /\ applied \in [EmailAccount -> EmailRequest \cup {NoChange}]
    /\ Cardinality({r \in EmailRequest : job[r].connected}) <= PoolSize

(* An account has one usable link, and it leads on with the change, and from *)
(* the stage, that the profile shows.                                        *)
LinkIsOfThePending ==
    \A link \in markers :
        /\ \A other \in markers : other.account = link.account => other = link
        /\ pending[link.account] # NoPending =>
              pending[link.account] = [email |-> link.email, stage |-> link.stage,
                                       change |-> link.change]

(* A change whose end was answered, by its cancellation or by the start of *)
(* another one, never gives the account its address.                       *)
EndedStaysEnded ==
    [][\A a \in EmailAccount : applied'[a] # applied[a] => applied'[a] \notin ended]_emailChangeVars

(* The address changes to one whose owner has opened a link after the owner *)
(* of the present one has, both links of one change.                        *)
BothInboxesOpened ==
    [][\A a \in EmailAccount : loginEmail'[a] # loginEmail[a] =>
          \E first, second \in EmailRequest :
             /\ first # second
             /\ at(second, "open", "consumed") /\ job[first] # Unsent /\ job[first].kind = "open"
             /\ job[first].link = [account |-> a, stage |-> "confirm-current",
                                   email |-> loginEmail'[a], change |-> job[second].link.change]
             /\ job[second].link.stage = "verify-new"]_emailChangeVars

(* An account has one usable link, the one of the change that its profile  *)
(* shows; a change whose end was answered never gives the account its      *)
(* address; and the address changes to one whose owner has opened a link   *)
(* after the owner of the present one has, both links of one change.       *)
EmailChangeKept ==
    /\ [](EmailChangeTypeOK /\ LinkIsOfThePending)
    /\ EndedStaysEnded
    /\ BothInboxesOpened

(* Every request is answered, unless its process ends. *)
Answered == \A r \in EmailRequest :
    (job[r].step # "unsent") ~> (job[r].step \in {"answered", "lost"})
=============================================================================
