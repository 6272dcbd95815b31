----------------------------- MODULE MCProgress -----------------------------
(* What must happen in the end, in every component that waits for          *)
(* something, beside the report plans. The components share no state, so   *)
(* each behaviour moves one of them, which focus names; each property      *)
(* assumes the fairness of its own component and no other. Small           *)
(* instances: two of whatever meets.                                       *)
EXTENDS ReportPlans, TLC

CONSTANTS phone, laptop, t1, x1, x2, r1, r2, w1, w2, k1, u1, m1, e1, ann, home, work, c1, c3, ag, none

VARIABLES
    focus,          \* the component that moves in this behaviour
    place, committed, stream, cursor, pending, query, view, hidden,
    sequence, position, text, expired, answer, version, reactions, seated,
    checkpoint, copies, due, request,
    edges, dependencyVersion, dependencyJob, held,
    itemVersion, record, tx, itemLock, keyShare, recordLock,
    active, archived, default, portfolioVersion, portfolioHome, open,
    portfolioJob,
    inboxRecord, items, shown, poll, reload, conflict, undo, inboxPending,
    inboxRequest, receipt,
    log, snapshotPoll, access, seen, snapshotDue, fetch, snapshotShown,
    answers, told, failures,
    email, accountPending, markers, inbox, accountJob, ended, applied,
    history, made, commandRecord, commandExpired, reclaimed, commandSeen,
    formed, phase, command, reclaiming, base, commandAnswers,
    today, signalVersion, signalDue, status, signalPhase, context, desired,
    signalPlan

Feed == INSTANCE Feed WITH
    FeedChange <- {x1, x2}, Limit <- 1, feedPending <- pending
Messages == INSTANCE Messages WITH
    User <- {u1}, Message <- {m1}, Sender <- (m1 :> u1), Emoji <- {e1},
    Process <- {r1, r2}, MaxKinds <- 1, MaxMessageVersion <- 3,
    MaxSequence <- 2, NoValue <- none, messageDue <- due,
    messageRequest <- request
Dependencies == INSTANCE Dependencies WITH
    Items <- 3, DependencyRequest <- {r1, r2}, MaxRowVersion <- 1,
    rowVersion <- dependencyVersion, linking <- dependencyJob
Waiting == INSTANCE Waiting WITH
    Record <- {x1, x2}, WaitingRequest <- {r1, r2}, MaxItemVersion <- 1,
    Nobody <- none
Portfolios == INSTANCE Portfolios WITH
    Portfolio <- {x1, x2}, Workspace <- {w1}, Command <- {r1, r2},
    CommandKinds <- {"archive", "createWorkspace", "recompute"},
    version <- portfolioVersion, home <- portfolioHome, txn <- portfolioJob
Inbox == INSTANCE Inbox WITH
    Page <- {phone, laptop}, InboxRequest <- {r1, r2}, MaxVersion <- 1,
    workItems <- items, inboxShown <- shown, inboxPoll <- poll
Snapshot == INSTANCE Snapshot WITH
    Item <- {x1}, Workspace <- {w1, w2}, home <- (x1 :> w1),
    MaxAttempts <- 2, MaxRevision <- 2, MaxFailures <- 1,
    poll <- snapshotPoll, due <- snapshotDue, shown <- snapshotShown
EmailChange == INSTANCE EmailChange WITH
    EmailAccount <- {ann}, LoginAddress <- {home, work},
    EmailRequest <- {r1, r2}, PoolSize <- 2, loginEmail <- email,
    pending <- accountPending, job <- accountJob
Commands == INSTANCE Commands WITH
    Command <- {c1, c3}, Key <- {t1, k1}, KeyOf <- (c1 :> k1 @@ c3 :> t1),
    Versioned <- {c1, c3}, Deferred <- {c3}, Aggregate <- {ag},
    AggregateOf <- (c1 :> ag @@ c3 :> ag), Request <- {r1, r2},
    NoCommand <- none, MaxReclaims <- 0, record <- commandRecord,
    expired <- commandExpired, seen <- commandSeen, answers <- commandAnswers
Attention == INSTANCE Attention WITH
    Subject <- {x1}, Worker <- {w1, w2}, MaxVersion <- 2, MaxDay <- 1,
    version <- signalVersion, due <- signalDue, phase <- signalPhase,
    plan <- signalPlan

ASSUME InstancesAssumption ==
    /\ Feed!FeedAssumption
    /\ Messages!MessagesAssumption
    /\ Dependencies!DependenciesAssumption
    /\ Inbox!InboxAssumption
    /\ EmailChange!EmailChangeAssumption

feedVars == <<place, committed, stream, cursor, pending, query, view, hidden>>
messagesVars == <<sequence, position, text, expired, answer, version,
                  reactions, seated, checkpoint, copies, due, request>>
dependenciesVars == <<edges, dependencyVersion, dependencyJob, held>>
waitingVars == <<itemVersion, record, tx, itemLock, keyShare, recordLock>>
portfoliosVars == <<active, archived, default, portfolioVersion,
                    portfolioHome, open, portfolioJob>>
inboxVars == <<inboxRecord, items, shown, poll, reload, conflict, undo,
               inboxPending, inboxRequest, receipt>>
snapshotVars == <<log, snapshotPoll, access, seen, snapshotDue, fetch,
                  snapshotShown, answers, told, failures>>
emailChangeVars == <<email, accountPending, markers, inbox, accountJob,
                     ended, applied>>
commandsVars == <<history, made, commandRecord, commandExpired, reclaimed,
                  commandSeen, formed, phase, command, reclaiming, base,
                  commandAnswers>>
attentionVars == <<today, signalVersion, signalDue, status, signalPhase,
                   context, desired, signalPlan>>
-----------------------------------------------------------------------------
ProgressInit ==
    /\ focus \in {"plans", "feed", "messages", "dependencies", "waiting",
                  "portfolios", "inbox", "snapshot", "emailChange", "commands", "attention"}
    /\ Init
    /\ focus = "plans" \/ plan.content.state = "draft"
    /\ Feed!FeedInit
    /\ Messages!MessagesInit
    /\ Dependencies!DependenciesInit
    /\ Waiting!WaitingInit
    /\ Portfolios!PortfoliosInit
    /\ active = {x1, x2} /\ default = {x1}
    /\ Inbox!InboxInit
    /\ Snapshot!SnapshotInit
    /\ log[1].version[x1] = 0
    /\ EmailChange!EmailChangeInit
    /\ email[ann] = home
    /\ Commands!Init
    /\ Attention!Init
    /\ focus = "attention" \/ signalDue[x1] = 0

ProgressNext ==
    \/ /\ focus = "plans" /\ Next
       /\ UNCHANGED <<focus, feedVars, messagesVars, dependenciesVars,
                   waitingVars, portfoliosVars, inboxVars, snapshotVars,
                   emailChangeVars, commandsVars, attentionVars>>
    \/ /\ focus = "feed" /\ Feed!FeedNext
       /\ UNCHANGED <<focus, vars, messagesVars, dependenciesVars,
                   waitingVars, portfoliosVars, inboxVars, snapshotVars,
                   emailChangeVars, commandsVars, attentionVars>>
    \/ /\ focus = "messages" /\ Messages!MessagesNext
       /\ UNCHANGED <<focus, vars, feedVars, dependenciesVars, waitingVars,
                   portfoliosVars, inboxVars, snapshotVars,
                   emailChangeVars, commandsVars, attentionVars>>
    \/ /\ focus = "dependencies" /\ Dependencies!DependenciesNext
       /\ UNCHANGED <<focus, vars, feedVars, messagesVars, waitingVars,
                   portfoliosVars, inboxVars, snapshotVars,
                   emailChangeVars, commandsVars, attentionVars>>
    \/ /\ focus = "waiting" /\ Waiting!WaitingNext
       /\ UNCHANGED <<focus, vars, feedVars, messagesVars, dependenciesVars,
                   portfoliosVars, inboxVars, snapshotVars,
                   emailChangeVars, commandsVars, attentionVars>>
    \/ /\ focus = "portfolios" /\ Portfolios!PortfoliosNext
       /\ UNCHANGED <<focus, vars, feedVars, messagesVars, dependenciesVars,
                   waitingVars, inboxVars, snapshotVars, emailChangeVars,
                   commandsVars, attentionVars>>
    \/ /\ focus = "inbox" /\ Inbox!InboxNext
       /\ UNCHANGED <<focus, vars, feedVars, messagesVars, dependenciesVars,
                   waitingVars, portfoliosVars, snapshotVars,
                   emailChangeVars, commandsVars, attentionVars>>
    \/ /\ focus = "snapshot" /\ Snapshot!SnapshotNext
       /\ UNCHANGED <<focus, vars, feedVars, messagesVars, dependenciesVars,
                   waitingVars, portfoliosVars, inboxVars, emailChangeVars,
                   commandsVars, attentionVars>>
    \/ /\ focus = "emailChange" /\ EmailChange!EmailChangeNext
       /\ UNCHANGED <<focus, vars, feedVars, messagesVars, dependenciesVars,
                   waitingVars, portfoliosVars, inboxVars, snapshotVars,
                   commandsVars, attentionVars>>
    \/ /\ focus = "commands" /\ Commands!Next
       /\ UNCHANGED <<focus, vars, feedVars, messagesVars, dependenciesVars,
                   waitingVars, portfoliosVars, inboxVars, snapshotVars,
                   emailChangeVars, attentionVars>>
    \/ /\ focus = "attention" /\ Attention!Next
       /\ UNCHANGED <<focus, vars, feedVars, messagesVars, dependenciesVars,
                   waitingVars, portfoliosVars, inboxVars, snapshotVars,
                   emailChangeVars, commandsVars>>

ProgressSpec == ProgressInit /\ [][ProgressNext]_<<focus, vars, feedVars, messagesVars, dependenciesVars,
              waitingVars, portfoliosVars, inboxVars, snapshotVars,
              emailChangeVars, commandsVars, attentionVars>>

-----------------------------------------------------------------------------
(* Nobody waits for ever, each under the fairness of its own component: no *)
(* two dependency requests for each other's items; no request about a      *)
(* waiting record, although starting and acting take their rows in         *)
(* opposite orders; no transaction about portfolios, neither two that hold *)
(* the organization's row and want it for themselves, nor a recompute and  *)
(* a new portfolio that take the revision and that row in opposite orders; *)
(* no command for a key or a row; and every request about the login        *)
(* address is answered, unless its process ends.                           *)
RequestsEnd ==
    /\ focus = "dependencies" /\ Dependencies!DependenciesFairness => Dependencies!DependencyRequestsEnd
    /\ focus = "waiting" /\ Waiting!WaitingFairness => Waiting!RequestsEnd
    /\ focus = "portfolios" /\ Portfolios!PortfoliosFairness => Portfolios!CommandsEnd
    /\ focus = "commands" /\ Commands!Fairness => Commands!EveryRequestEnds
    /\ focus = "emailChange" /\ EmailChange!EmailChangeFairness => EmailChange!Answered

(* What is derived or shown catches up with what is stored: the signals    *)
(* once edits and verdicts come to an end; the copy of the data once       *)
(* nothing changes any more, for the poll heals what was read too early,   *)
(* cancelled, failed or mixed; an open inbox page again and again; a       *)
(* committed change on a page that keeps coming back to the front,         *)
(* whatever the feed has passed over (live-collaboration.tsx:342); and a   *)
(* message past its time is redacted.                                      *)
CatchesUp ==
    /\ focus = "attention" /\ Attention!Fairness => Attention!EventuallyConverged
    /\ focus = "snapshot" /\ Snapshot!SnapshotFairness => Snapshot!CopyCatchesUp
    /\ focus = "inbox" /\ Inbox!InboxFairness => Inbox!PagesCatchUp
    /\ focus = "feed" /\ Feed!FeedFairness => Feed!ChangesAreSeen
    /\ focus = "messages" /\ Messages!MessagesFairness => Messages!ExpiredIsRedacted
=============================================================================
