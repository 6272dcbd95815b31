------------------------------ MODULE MCAccess ------------------------------
(* The rate limiter beside the platform's administrators, the privacy      *)
(* commands and the health checks of the worker. They share no state, so   *)
(* each behaviour moves one of them, which focus names, and the others     *)
(* stay as they began: every reachable state of each is reached. "unknown" *)
(* is about an event that no handler owns, "dead" about one that is given  *)
(* up.                                                                     *)
EXTENDS RateLimiter, Superadmin, WorkerHealth, Privacy, TLC

CONSTANTS slow, fast, v, y, z, p1, p2, known, unknown, usual, other, none

VARIABLES
    focus           \* the component that moves in this behaviour

(* The clocks differ by all that Keep - Window allows. *)
MCAhead == slow :> 0 @@ fast :> 2

(* An operator may do what an auditor may, and is lowered like one. *)
noAuditor == \A p \in {p1, p2} : request'[p].role # "auditor"
-----------------------------------------------------------------------------
AccessInit ==
    /\ focus \in {"limiter", "superadmin", "unknown", "dead", "privacy"}
    /\ Init
    /\ SuperadminInit
    /\ HealthInit
    /\ PrivacyInit

AccessNext ==
    \/ /\ focus = "limiter" /\ Next
       /\ UNCHANGED <<focus, superadminVars, healthVars, privacyVars>>
    \/ /\ focus = "superadmin" /\ SuperadminNext /\ noAuditor
       /\ UNCHANGED <<focus, vars, healthVars, privacyVars>>
    \/ /\ focus = "unknown" /\ HealthNext /\ row'[known] = row[known]
       /\ UNCHANGED <<focus, vars, superadminVars, privacyVars>>
    \/ /\ focus = "dead" /\ HealthNext /\ row'[unknown] = row[unknown]
       /\ UNCHANGED <<focus, vars, superadminVars, privacyVars>>
    \/ /\ focus = "privacy" /\ PrivacyNext
       /\ UNCHANGED <<focus, vars, superadminVars, healthVars>>

AccessSpec == AccessInit /\ [][AccessNext]_<<focus, vars, superadminVars, healthVars, privacyVars>>

-----------------------------------------------------------------------------
(* Values that are alike in every component. *)
Alike == Permutations({p1, p2}) \cup Permutations({y, z})
=============================================================================
