-------------------------- MODULE VersionedPromise --------------------------
(***************************************************************************)
(* What a version promises the people who edit one record: a change is made *)
(* at once, by someone who has seen the record as it then is, and is one of  *)
(* the changes the record allows.  No request, transaction or retry in sight. *)
(***************************************************************************)
EXTENDS Naturals

CONSTANTS Client, Value, Allowed    \* Allowed \subseteq Value \X Value

VARIABLES
    value,
    version,
    knows       \* the version each client saw last; 0 before the first look

Init ==
    /\ value \in Value
    /\ version \in Nat
    /\ knows = [c \in Client |-> 0]

Look(c) ==
    /\ knows' = [knows EXCEPT ![c] = version]
    /\ UNCHANGED <<value, version>>

Change(c) ==
    /\ knows[c] = version
    /\ version' = version + 1
    /\ <<value, value'>> \in Allowed
    /\ UNCHANGED knows

Next == \E c \in Client : Look(c) \/ Change(c)

Spec == Init /\ [][Next]_<<value, version, knows>>
=============================================================================
