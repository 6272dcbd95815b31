---------------------------- MODULE Dependencies ----------------------------
(***************************************************************************)
(* Dependencies between work items, added and removed by transactions that   *)
(* lock both items first, in the order of their ids, and look for a cycle in *)
(* what is committed.  A request names the version of the item that it has   *)
(* seen, and counts it up.  An item is its id, a number.                     *)
(***************************************************************************)
EXTENDS Integers, FiniteSets, FiniteSetsExt

CONSTANTS
    Items,          \* the ids of the items are 1..Items
    DependencyRequest,  \* requests served at the same time
    MaxRowVersion       \* bounds the changes of each item

ASSUME DependenciesAssumption == Items \in Nat \ {0} /\ MaxRowVersion \in Nat \ {0}

VARIABLES
    edges,          \* <<i, j>> when i depends on j
    rowVersion,
    linking,        \* what each request does, and how far it is
    held            \* the items whose rows each request has locked

dependenciesVars == <<edges, rowVersion, linking, held>>

DependencyItem == 1..Items

DependencyJob ==
    [at : {"idle", "locking", "locked", "checked"}, op : {"add", "remove"},
     item : DependencyItem, dependsOn : DependencyItem, expected : 0..MaxRowVersion]
IdleJob == [at |-> "idle", op |-> "add", item |-> 1, dependsOn |-> 1, expected |-> 0]

Wanted(r) == {linking[r].item, linking[r].dependsOn}
edge(r) == <<linking[r].item, linking[r].dependsOn>>

(* The items found by following E from i, one step at least. *)
dependencyPath(E, i) ==
    LET reach[n \in 0..Items] ==
          IF n = 0 THEN {i} ELSE reach[n - 1] \cup {e[2] : e \in {x \in E : x[1] \in reach[n - 1]}}
    IN  {e[2] : e \in {x \in E : x[1] \in reach[Items]}}

DependenciesInit ==
    /\ edges = {}
    /\ rowVersion = [i \in DependencyItem |-> 0]
    /\ linking = [r \in DependencyRequest |-> IdleJob]
    /\ held = [r \in DependencyRequest |-> {}]

-----------------------------------------------------------------------------
(* A request comes in; its sender has seen the item as it is now. *)
Send(r, op, i, j) ==
    /\ linking[r].at = "idle" /\ i # j
    /\ linking' = [linking EXCEPT ![r] = [at |-> "locking", op |-> op, item |-> i, dependsOn |-> j,
                                          expected |-> rowVersion[i]]]
    /\ UNCHANGED <<edges, rowVersion, held>>

(* The rows are locked one by one, in the order of their ids. *)
lockDependencyItems(r) ==
    LET next == Min(Wanted(r) \ held[r]) IN
    /\ linking[r].at = "locking"
    /\ \A s \in DependencyRequest : next \notin held[s]
    /\ held' = [held EXCEPT ![r] = @ \cup {next}]
    /\ linking' = [linking EXCEPT ![r].at = IF held[r] \cup {next} = Wanted(r) THEN "locked" ELSE @]
    /\ UNCHANGED <<edges, rowVersion>>

Release(r) ==
    /\ linking' = [linking EXCEPT ![r] = IdleJob]
    /\ held' = [held EXCEPT ![r] = {}]

(* The transaction ends as it found the version, or the dependency, changed. *)
Refuse(r) ==
    /\ linking[r].at = "locked"
    /\ \/ rowVersion[linking[r].item] # linking[r].expected
       \/ linking[r].op = "add" /\ edge(r) \in edges
       \/ linking[r].op = "add" /\ linking[r].item \in dependencyPath(edges, linking[r].dependsOn)
       \/ linking[r].op = "remove" /\ edge(r) \notin edges
    /\ Release(r)
    /\ UNCHANGED <<edges, rowVersion>>

(* A wrong check: only the opposite dependency is looked for. *)
checkDirect(r) ==
    /\ linking[r].at = "locked" /\ rowVersion[linking[r].item] = linking[r].expected
    /\ linking[r].op = "add" => /\ edge(r) \notin edges
                                /\ <<linking[r].dependsOn, linking[r].item>> \notin edges
    /\ linking[r].op = "remove" => edge(r) \in edges
    /\ linking' = [linking EXCEPT ![r].at = "checked"]
    /\ UNCHANGED <<edges, rowVersion, held>>

checkDependency(r) ==
    /\ linking[r].at = "locked" /\ rowVersion[linking[r].item] = linking[r].expected
    /\ linking[r].op = "add" => /\ edge(r) \notin edges
                                /\ linking[r].item \notin dependencyPath(edges, linking[r].dependsOn)
    /\ linking[r].op = "remove" => edge(r) \in edges
    /\ linking' = [linking EXCEPT ![r].at = "checked"]
    /\ UNCHANGED <<edges, rowVersion, held>>

commitDependency(r) ==
    /\ linking[r].at = "checked"
    /\ edges' = IF linking[r].op = "add" THEN edges \cup {edge(r)} ELSE edges \ {edge(r)}
    /\ rowVersion' = [rowVersion EXCEPT ![linking[r].item] = @ + 1]
    /\ Release(r)

(* The connection or the process is lost: the transaction is rolled back. *)
RollbackDependency(r) ==
    /\ linking[r].at # "idle"
    /\ Release(r)
    /\ UNCHANGED <<edges, rowVersion>>

DependenciesNext == \E r \in DependencyRequest :
    \/ \E op \in {"add", "remove"}, i, j \in DependencyItem :
          rowVersion[i] < MaxRowVersion /\ Send(r, op, i, j)
    \/ lockDependencyItems(r) \/ Refuse(r) \/ checkDependency(r) \/ commitDependency(r)
    \/ RollbackDependency(r)

(* The database serves a transaction that can go on.  A row may be taken by   *)
(* others again and again, but it is not kept from one request forever.      *)
DependenciesFairness == \A r \in DependencyRequest :
    /\ SF_dependenciesVars(lockDependencyItems(r))
    /\ WF_dependenciesVars(Refuse(r) \/ checkDependency(r) \/ commitDependency(r))

DependenciesSpec == DependenciesInit /\ [][DependenciesNext]_dependenciesVars
FairDependenciesSpec == DependenciesSpec /\ DependenciesFairness

-----------------------------------------------------------------------------
DependenciesTypeOK ==
    /\ edges \subseteq DependencyItem \X DependencyItem
    /\ rowVersion \in [DependencyItem -> 0..MaxRowVersion]
    /\ linking \in [DependencyRequest -> DependencyJob]
    /\ held \in [DependencyRequest -> SUBSET DependencyItem]
    /\ \A r \in DependencyRequest : linking[r].at \in {"locked", "checked"} => held[r] = Wanted(r)

(* "The dependency would create a cycle": no item depends on itself, not even *)
(* through the dependencies that others add at the same time.                *)
Acyclic == \A i \in DependencyItem : i \notin dependencyPath(edges, i)

(* Dependencies that are added at the same time have no item in common, and a  *)
(* cycle of three items or less has no two such: no search misses one.        *)
NoShortCycle ==
    \A i, j, k \in DependencyItem :
        <<i, j>> \in edges /\ (j = k \/ <<j, k>> \in edges) => k # i /\ <<k, i>> \notin edges

(* No cycle of dependencies has less than four items, whatever is added at the *)
(* same time; so three items have none.                                       *)
DependenciesKept ==
    /\ DependenciesTypeOK
    /\ NoShortCycle
    /\ Items <= 3 => Acyclic

(* No two requests wait for each other's items. *)
DependencyRequestsEnd == \A r \in DependencyRequest : linking[r].at # "idle" ~> linking[r].at = "idle"
=============================================================================
