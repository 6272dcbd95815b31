---------------------------- MODULE OutboxPromise ----------------------------
(***************************************************************************)
(* What the outbox promises its producers, with no lease, clock or worker   *)
(* in sight.  An event that was submitted is tried a bounded number of      *)
(* times; the writes of its handler take effect with its completion or not  *)
(* at all; it is given up only when its tries are used up; and completed    *)
(* and given up are final.                                                  *)
(***************************************************************************)
EXTENDS Naturals

CONSTANTS Event, MaxTries

VARIABLES
    phase,      \* "absent", "waiting", "done" or "given up"
    tries,      \* how often the event was handed to a worker
    effects     \* how often its handler's writes took effect

Init ==
    /\ phase = [e \in Event |-> "absent"]
    /\ tries = [e \in Event |-> 0]
    /\ effects = [e \in Event |-> 0]

Submit(e) ==
    /\ phase[e] = "absent"
    /\ phase' = [phase EXCEPT ![e] = "waiting"]
    /\ UNCHANGED <<tries, effects>>

(* One claim hands over the events of S and gives up those of G. *)
Claim(S, G) ==
    /\ \A e \in S : phase[e] = "waiting" /\ tries[e] < MaxTries
    /\ \A e \in G : phase[e] = "waiting" /\ tries[e] = MaxTries
    /\ tries' = [e \in Event |-> IF e \in S THEN tries[e] + 1 ELSE tries[e]]
    /\ phase' = [e \in Event |-> IF e \in G THEN "given up" ELSE phase[e]]
    /\ UNCHANGED effects

Complete(e) ==
    /\ phase[e] = "waiting"
    /\ tries[e] \in 1 .. MaxTries
    /\ phase' = [phase EXCEPT ![e] = "done"]
    /\ effects' = [effects EXCEPT ![e] = @ + 1]
    /\ UNCHANGED tries

Next ==
    \/ \E e \in Event : Submit(e) \/ Complete(e)
    \/ \E S, G \in SUBSET Event : Claim(S, G)

Spec == Init /\ [][Next]_<<phase, tries, effects>>
=============================================================================
