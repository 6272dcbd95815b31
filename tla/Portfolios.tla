------------------------------ MODULE Portfolios ------------------------------
(***************************************************************************)
(* The portfolios and the workspaces of one organization, and the locks that *)
(* its transactions take.  A command begins with its idempotency record,     *)
(* whose foreign key holds the organization's row FOR KEY SHARE; a command    *)
(* about a portfolio then wants the same row FOR UPDATE.  A first write      *)
(* counts up the organization's snapshot revision and holds that row until   *)
(* the transaction ends: one transaction at a time has written and not       *)
(* committed, so here its writes take effect when it commits.                *)
(***************************************************************************)
EXTENDS Integers, FiniteSets

CONSTANTS
    Portfolio,
    Workspace,
    Command,
    CommandKinds    \* what the commands are about

VARIABLES
    active,         \* the portfolios there are, without the archived ones
    archived,
    default,        \* the active ones marked as the organization's default
    version,        \* the updates of each portfolio's row: its timestamp
    home,           \* the portfolio of each workspace that was created
    open,           \* the workspaces that are not archived
    txn             \* each command and its transaction

portfoliosVars == <<active, archived, default, version, home, open, txn>>
rows == <<active, archived, default, version, home, open>>

None == "none"
PortfolioKind == {"create", "makeDefault", "giveUpDefault", "archive"}
Kind == PortfolioKind \cup {"createWorkspace", "archiveWorkspace", "recompute"}

ASSUME PortfoliosAssumption ==
    /\ CommandKinds \subseteq Kind
    /\ None \notin Portfolio

Ended == {"committed", "refused", "aborted"}
UnderWay == {"begun", "locked", "checked", "written", "stamped"}

(* On the organization's row: FOR KEY SHARE, FOR UPDATE, and the worker's    *)
(* update of a column that is no key; the revision's row; the advisory lock. *)
Lock == {"share", "exclusive", "stamp", "revision", "advisory"}
Conflicts == {{"exclusive", "share"}, {"exclusive", "stamp"}, {"exclusive"}, {"stamp"},
              {"revision"}, {"advisory"}}

(* What a command is about, the version its page showed, whether the row is   *)
(* to be the default, and the portfolio that is promoted in its place.       *)
Txn == [step : {"sent"} \cup UnderWay \cup Ended, locks : SUBSET Lock,
        kind : CommandKinds, portfolio : Portfolio, workspace : Workspace,
        expected : Nat, default : BOOLEAN, replacement : Portfolio \cup {None}]
Unsent == [step |-> "unsent", locks |-> {}]

PortfoliosInit ==
    /\ active \in SUBSET Portfolio /\ archived = {}
    /\ \E p \in active \cup {None} : (p = None <=> active = {}) /\ default = {p} \ {None}
    /\ version = [p \in Portfolio |-> 0]
    /\ home = [w \in Workspace |-> None] /\ open = {}
    /\ txn = [c \in Command |-> Unsent]

-----------------------------------------------------------------------------
(* The first statement of a transaction: the idempotency record, or the       *)
(* recompute's advisory lock.                                                *)
first(c) == IF txn[c].kind = "recompute" THEN "advisory" ELSE "share"

(* A wrong lock: none. *)
lockNothing(c) == None

(* select ... from organizations ... for update *)
lockOrganization(c) == "exclusive"

(* The lock that the next statement of a transaction takes. *)
wants(c) ==
    CASE txn[c].step = "sent" -> first(c)
      [] txn[c].step = "begun" /\ txn[c].kind \in PortfolioKind -> lockOrganization(c)
      [] txn[c].step = "begun" /\ txn[c].kind = "recompute" -> "revision"
      [] txn[c].step = "checked" -> "revision"
      [] txn[c].step = "written" /\ txn[c].kind = "recompute" -> "stamp"
      [] OTHER -> None

blockers(c) == {d \in Command \ {c} : \E l \in txn[d].locks : {l, wants(c)} \in Conflicts}

proceed(c, step) ==
    /\ blockers(c) = {}
    /\ txn' = [txn EXCEPT ![c].step = step, ![c].locks = @ \cup ({wants(c)} \cap Lock)]
    /\ UNCHANGED rows

end(c, step) == txn' = [txn EXCEPT ![c].step = step, ![c].locks = {}]

send(c, kind, p, w, wish) ==
    /\ txn[c] = Unsent /\ kind \in CommandKinds
    /\ txn' = [txn EXCEPT ![c] =
          [step |-> "sent", locks |-> {}, kind |-> kind, portfolio |-> p, workspace |-> w,
           expected |-> version[p], default |-> wish, replacement |-> None]]
    /\ UNCHANGED rows

withIdempotency(c) == txn[c].step = "sent" /\ proceed(c, "begun")

lock(c) == txn[c].step = "begun" /\ txn[c].kind \in PortfolioKind /\ proceed(c, "locked")

-----------------------------------------------------------------------------

others(c) == active \ {txn[c].portfolio}

(* The row is there and has the version that the page showed. *)
current(c) ==
    /\ txn[c].portfolio \in active
    /\ version[txn[c].portfolio] = txn[c].expected

(* What the transaction reads before it writes. *)
accepts(c) ==
    CASE txn[c].kind = "create" -> txn[c].portfolio \notin active \cup archived
      [] txn[c].kind = "makeDefault" -> current(c)
      [] txn[c].kind = "giveUpDefault" ->
            current(c) /\ (txn[c].portfolio \in default => others(c) # {})
      [] txn[c].kind = "archive" ->
            /\ current(c) /\ others(c) # {}
            /\ \A w \in open : home[w] # txn[c].portfolio
      [] txn[c].kind = "createWorkspace" -> txn[c].portfolio \in active
      [] OTHER -> txn[c].workspace \in open

ready(c) ==
    \/ txn[c].step = "locked"
    \/ txn[c].step = "begun" /\ txn[c].kind \in {"createWorkspace", "archiveWorkspace"}

(* Another portfolio takes the place of the default one. *)
replacements(c) ==
    IF txn[c].kind \in {"giveUpDefault", "archive"} /\ txn[c].portfolio \in default
    THEN others(c) ELSE {None}

becomesDefault(c) ==
    \/ txn[c].kind = "create" /\ (active = {} \/ txn[c].default)
    \/ txn[c].kind = "makeDefault"

check(c) ==
    /\ ready(c) /\ accepts(c)
    /\ \E q \in replacements(c) :
          txn' = [txn EXCEPT ![c].step = "checked", ![c].replacement = q,
                             ![c].default = becomesDefault(c)]
    /\ UNCHANGED rows

refuse(c) == ready(c) /\ ~accepts(c) /\ end(c, "refused") /\ UNCHANGED rows

(* The guard of the update, or the unique index of the insert. *)
stands(c) ==
    CASE txn[c].kind = "create" -> txn[c].portfolio \notin active \cup archived
      [] txn[c].kind = "createWorkspace" -> home[txn[c].workspace] = None
      [] txn[c].kind = "archiveWorkspace" -> txn[c].workspace \in open
      [] OTHER -> current(c)

write(c) == txn[c].step = "checked" /\ stands(c) /\ proceed(c, "written")

conflict(c) ==
    /\ txn[c].step = "checked" /\ blockers(c) = {} /\ ~stands(c)
    /\ end(c, "refused") /\ UNCHANGED rows

(* The worker's recompute closes signals, and stamps the organization last. *)
recomputeOrganizationAttention(c) ==
    /\ txn[c].step \in {"begun", "written"} /\ txn[c].kind = "recompute"
    /\ proceed(c, IF txn[c].step = "begun" THEN "written" ELSE "stamped")

(* The default is cleared and set, or handed on to the replacement if that is *)
(* still active.                                                             *)
promote(c) ==
    IF txn[c].default THEN {txn[c].portfolio}
    ELSE IF txn[c].replacement # None
         THEN (default \ {txn[c].portfolio}) \cup ({txn[c].replacement} \cap active)
         ELSE default

commitPortfolio(c) ==
    LET p == txn[c].portfolio
        touched == {txn[c].replacement} \cup (IF txn[c].default THEN default ELSE {})
                     \cup (IF txn[c].kind = "create" THEN {} ELSE {p})
    IN  /\ txn[c].step = "written" /\ txn[c].kind \in PortfolioKind
        /\ default' = promote(c)
        /\ version' = [q \in Portfolio |-> version[q] + IF q \in touched THEN 1 ELSE 0]
        /\ active' = IF txn[c].kind = "create" THEN active \cup {p}
                     ELSE IF txn[c].kind = "archive" THEN active \ {p} ELSE active
        /\ archived' = IF txn[c].kind = "archive" THEN archived \cup {p} ELSE archived
        /\ end(c, "committed")
        /\ UNCHANGED <<home, open>>

commitWorkspace(c) ==
    LET w == txn[c].workspace IN
    /\ txn[c].step = "written"
    /\ \/ /\ txn[c].kind = "createWorkspace"
          /\ home' = [home EXCEPT ![w] = txn[c].portfolio]
          /\ open' = open \cup {w}
       \/ /\ txn[c].kind = "archiveWorkspace"
          /\ open' = open \ {w}
          /\ UNCHANGED home
    /\ end(c, "committed")
    /\ UNCHANGED <<active, archived, default, version>>

commitRecompute(c) == txn[c].step = "stamped" /\ end(c, "committed") /\ UNCHANGED rows

(* Transactions that all wait for one of them: the server ends one. *)
deadlocked(c) ==
    \E S \in SUBSET Command : /\ c \in S
                              /\ \A d \in S : \E e \in S : e \in blockers(d)
                              /\ \A d \in S : \E e \in S : d \in blockers(e)

deadlock(c) == deadlocked(c) /\ end(c, "aborted") /\ UNCHANGED rows

(* The process or the connection is lost. *)
Abort(c) == txn[c].step \in UnderWay /\ end(c, "aborted") /\ UNCHANGED rows

Progress(c) ==
    \/ withIdempotency(c) \/ lock(c) \/ check(c) \/ refuse(c) \/ write(c) \/ conflict(c)
    \/ recomputeOrganizationAttention(c)
    \/ commitPortfolio(c) \/ commitWorkspace(c) \/ commitRecompute(c) \/ deadlock(c)

PortfoliosNext == \E c \in Command :
    \/ \E kind \in CommandKinds, p \in Portfolio, w \in Workspace, wish \in BOOLEAN :
          send(c, kind, p, w, wish)
    \/ Progress(c) \/ Abort(c)

PortfoliosSpec == PortfoliosInit /\ [][PortfoliosNext]_portfoliosVars

(* A command that can go on does. *)
PortfoliosFairness == \A c \in Command : WF_portfoliosVars(Progress(c))

FairPortfoliosSpec == PortfoliosSpec /\ PortfoliosFairness

-----------------------------------------------------------------------------
PortfoliosTypeOK ==
    /\ active \subseteq Portfolio /\ archived \subseteq Portfolio \ active
    /\ default \subseteq active /\ version \in [Portfolio -> Nat]
    /\ home \in [Workspace -> Portfolio \cup {None}] /\ open \subseteq Workspace
    /\ txn \in [Command -> {Unsent} \cup Txn]

HomesAreActive == \A w \in open : home[w] \in active

OneDefault == active # {} => Cardinality(default) = 1

(* "Archive the Portfolio's active Workspaces first": no workspace in use is  *)
(* left in an archived portfolio, where nobody would find it, and the         *)
(* organization has one default as long as it has a portfolio, whatever is    *)
(* created, promoted, given up and archived at once.                         *)
PortfoliosConsistent == PortfoliosTypeOK /\ HomesAreActive /\ OneDefault

(* No transaction waits for ever: neither two that hold the organization's    *)
(* row and want it for themselves, nor a recompute and a new portfolio that   *)
(* take the revision and that row in opposite orders.                        *)
CommandsEnd == \A c \in Command : txn[c].step = "sent" ~> txn[c].step \in Ended
=============================================================================
