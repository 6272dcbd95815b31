---------------------------- MODULE AccessProofs -----------------------------
(*****************************************************************************)
(* Proofs about the rate limiter, the administrators of the platform, the     *)
(* health checks of the worker, privacy requests and retention policies, for *)
(* every value of their constants.                                           *)
(*                                                                           *)
(* The limiter: a row is the record of what was let through in its window,   *)
(* and where a row is gone, no clock shows that window any more.  The        *)
(* administrators: the roster's lock admits one change at a time, and who is *)
(* about to be changed runs no request, so that whoever a request found in   *)
(* office is in office until it ends.  The health checks: what a worker does *)
(* not know about its queue is younger than its last count.  Policies: what a *)
(* page shows is a policy that was in force, and is in force if its version  *)
(* is; a command is formed from what a page showed.                          *)
(*****************************************************************************)
EXTENDS RateLimiter, Superadmin, WorkerHealth, Privacy, FiniteSetTheorems, WellFoundedInduction, TLAPS

-----------------------------------------------------------------------------
(* The rate limiter. The limit holds for every number of processes, limit,    *)
(* window and interval of cleanup, if the clocks agree up to what a row       *)
(* outlives its window by.                                                    *)

(* No cleanup works with a cutoff beyond its process's clock. *)
CutoffsArePast == \A p \in Process : cleanup[p] <= clock(p)

(* What was let through is counted, or the window is over on every clock. *)
CountedOrOver ==
    \A s \in Start : \/ admitted[s] <= count[s] /\ admitted[s] <= Limit
                     \/ admitted[s] <= Limit /\ s + Window <= time

IndInv == TypeOK /\ CutoffsArePast /\ CountedOrOver

LEMMA Parameters ==
    /\ Limit \in Nat /\ Window \in Nat /\ Window > 0 /\ Keep \in Nat /\ MaxTime \in Nat
    /\ Interval \in Nat /\ Interval > 0 /\ RetryInterval \in Nat /\ RetryInterval > 0
    /\ BatchSize \in Nat /\ BatchSize > 0
    /\ \A p \in Process : Ahead[p] \in Nat /\ Ahead[p] <= Keep - Window
  BY RateLimiterAssumption, ClocksAgree

LEMMA RoundedDown ==
    ASSUME NEW t \in Nat
    PROVE  windowOf(t) \in Nat /\ windowOf(t) <= t /\ t < windowOf(t) + Window
  <1>1. t % Window \in 0..(Window - 1) /\ t % Window <= t
    BY Parameters
  <1> QED BY <1>1, Parameters DEF windowOf

LEMMA ClockOf ==
    ASSUME TypeOK, NEW p \in Process
    PROVE  /\ clock(p) \in Nat /\ clock(p) >= time /\ clock(p) <= time + Keep - Window
           /\ windowStartedAt(p) \in Start /\ windowStartedAt(p) + Window > time
  <1>1. time \in Nat /\ time <= MaxTime
    BY Parameters DEF TypeOK
  <1>2. clock(p) \in Nat /\ clock(p) >= time /\ clock(p) <= time + Keep - Window
    BY <1>1, Parameters DEF clock
  <1>3. clock(p) \in 0..(MaxTime + Keep)
    BY <1>1, <1>2, Parameters
  <1>4. windowStartedAt(p) \in Start
    BY <1>3 DEF windowStartedAt, Start
  <1>5. windowOf(clock(p)) \in Nat /\ clock(p) < windowOf(clock(p)) + Window
    BY <1>2, RoundedDown
  <1>6. windowStartedAt(p) + Window > time
    BY <1>1, <1>2, <1>5, Parameters DEF windowStartedAt
  <1> QED BY <1>2, <1>4, <1>6

LEMMA StartsAreTimes == \A s \in Start : s \in Nat
  BY RoundedDown, Parameters DEF Start

-----------------------------------------------------------------------------
LEMMA InitInv == Init => IndInv
  <1> SUFFICES ASSUME Init PROVE IndInv
    OBVIOUS
  <1>1. TypeOK
    BY Parameters DEF Init, TypeOK, NoRow, NoCleanup
  <1>2. CutoffsArePast
    <2>1. \A p \in Process : cleanup[p] = -1
      BY DEF Init, NoCleanup
    <2> QED BY <1>1, <2>1, ClockOf DEF CutoffsArePast
  <1>3. CountedOrOver
    BY Parameters DEF Init, CountedOrOver, NoRow
  <1> QED BY <1>1, <1>2, <1>3 DEF IndInv

(* A cleanup is over or fails: only the times of cleanups change. *)
LEMMA EndCleanup ==
    ASSUME IndInv, NEW p \in Process, NEW next \in Nat,
           cleanup' = [cleanup EXCEPT ![p] = NoCleanup],
           nextCleanup' = [nextCleanup EXCEPT ![p] = next],
           UNCHANGED time
    PROVE  /\ nextCleanup' \in [Process -> Nat]
           /\ cleanup' \in [Process -> Nat \cup {NoCleanup}]
           /\ \A q \in Process : cleanup'[q] # NoCleanup => cleanup'[q] < nextCleanup'[q]
           /\ CutoffsArePast'
  <1>1. /\ nextCleanup' \in [Process -> Nat] /\ cleanup' \in [Process -> Nat \cup {NoCleanup}]
        /\ \A q \in Process : q # p => cleanup'[q] = cleanup[q] /\ nextCleanup'[q] = nextCleanup[q]
        /\ cleanup'[p] = NoCleanup
    BY DEF IndInv, TypeOK
  <1>2. \A q \in Process : cleanup'[q] # NoCleanup => cleanup'[q] < nextCleanup'[q]
    BY <1>1 DEF IndInv, TypeOK
  <1>3. \A q \in Process : clock(q)' = clock(q) /\ clock(q) \in Nat
    BY ClockOf DEF IndInv, clock
  <1>4. CutoffsArePast'
    <2> SUFFICES ASSUME NEW q \in Process PROVE cleanup'[q] <= clock(q)
      BY <1>3 DEF CutoffsArePast
    <2>1. CASE q = p
      BY <1>1, <1>3, <2>1 DEF NoCleanup
    <2>2. CASE q # p
      BY <1>1, <2>2 DEF IndInv, CutoffsArePast
    <2> QED BY <2>1, <2>2
  <1> QED BY <1>1, <1>2, <1>4

LEMMA ConsumeStep ==
    ASSUME IndInv, NEW p \in Process, consume(p)
    PROVE  IndInv'
  <1> DEFINE start == windowStartedAt(p)
  <1>1. /\ count[start] <= Limit /\ time' = time
        /\ count' = [count EXCEPT ![start] = @ + 1]
        /\ admitted' = [admitted EXCEPT ![start] = IF count'[start] <= Limit THEN @ + 1 ELSE @]
    BY DEF consume
  <1>2. /\ start \in Start /\ start + Window > time
        /\ clock(p) \in Nat
    BY ClockOf DEF IndInv
  <1>3. /\ count \in [Start -> 0..(Limit + 1)] /\ admitted \in [Start -> Nat]
        /\ nextCleanup \in [Process -> Nat] /\ cleanup \in [Process -> Nat \cup {NoCleanup}]
        /\ time \in 0..MaxTime
    BY DEF IndInv, TypeOK
  <1> HIDE DEF start
  <1>4. count[start] + 1 \in 0..(Limit + 1)
    BY <1>1, <1>2, <1>3, Parameters
  <1>5. count' \in [Start -> 0..(Limit + 1)] /\ admitted' \in [Start -> Nat]
    BY <1>1, <1>2, <1>3, <1>4
  <1>6. start \in Nat
    BY <1>2, StartsAreTimes
  <1>7. CountedOrOver'
    <2> SUFFICES ASSUME NEW s \in Start
                 PROVE  \/ admitted'[s] <= count'[s] /\ admitted'[s] <= Limit
                        \/ admitted'[s] <= Limit /\ s + Window <= time
      BY <1>1 DEF CountedOrOver
    <2>1. CASE s = start
      <3>1. admitted[start] <= count[start] /\ admitted[start] <= Limit
        BY <1>2, <1>3, <1>6, Parameters DEF IndInv, CountedOrOver
      <3>2. count'[start] = count[start] + 1
        BY <1>1, <1>2, <1>3
      <3>3. admitted'[start] = IF count'[start] <= Limit THEN admitted[start] + 1 ELSE admitted[start]
        BY <1>1, <1>2, <1>3
      <3> QED BY <1>2, <1>3, <2>1, <3>1, <3>2, <3>3, Parameters
    <2>2. CASE s # start
      BY <1>1, <1>3, <2>2 DEF IndInv, CountedOrOver
    <2> QED BY <2>1, <2>2
  <1>8. CASE cleanup[p] = NoCleanup /\ clock(p) >= nextCleanup[p]
    <2>1. /\ cleanup' = [cleanup EXCEPT ![p] = clock(p)]
          /\ nextCleanup' = [nextCleanup EXCEPT ![p] = clock(p) + Interval]
      BY <1>8 DEF consume
    <2>2. /\ clock(p) + Interval \in Nat /\ clock(p) < clock(p) + Interval
      BY <1>2, Parameters
    <2>3. /\ nextCleanup' \in [Process -> Nat] /\ cleanup' \in [Process -> Nat \cup {NoCleanup}]
          /\ cleanup'[p] = clock(p) /\ nextCleanup'[p] = clock(p) + Interval
          /\ \A q \in Process : q # p => cleanup'[q] = cleanup[q] /\ nextCleanup'[q] = nextCleanup[q]
      BY <1>2, <1>3, <2>1, <2>2
    <2>4. \A q \in Process : cleanup'[q] # NoCleanup => cleanup'[q] < nextCleanup'[q]
      BY <2>2, <2>3 DEF IndInv, TypeOK
    <2>5. CutoffsArePast'
      BY <1>1, <1>2, <2>3 DEF IndInv, CutoffsArePast, clock
    <2> QED BY <1>1, <1>3, <1>5, <1>7, <2>3, <2>4, <2>5 DEF IndInv, TypeOK
  <1>9. CASE ~(cleanup[p] = NoCleanup /\ clock(p) >= nextCleanup[p])
    <2>1. UNCHANGED <<cleanup, nextCleanup>>
      BY <1>9 DEF consume
    <2>2. CutoffsArePast'
      BY <1>1, <2>1 DEF IndInv, CutoffsArePast, clock
    <2> QED BY <1>1, <1>5, <1>7, <2>1, <2>2 DEF IndInv, TypeOK
  <1> QED BY <1>8, <1>9

LEMMA PruneStep ==
    ASSUME IndInv, NEW p \in Process, pruneExpiredBatch(p)
    PROVE  IndInv'
  <1>1. PICK removed \in SUBSET Expired(cleanup[p]) :
          /\ count' = [s \in Start |-> IF s \in removed THEN NoRow ELSE count[s]]
          /\ nextCleanup' = [nextCleanup EXCEPT ![p] =
                IF Cardinality(removed) >= BatchSize THEN Smaller(@, cleanup[p] + 1) ELSE @]
    BY DEF pruneExpiredBatch
  <1>2. /\ cleanup[p] # NoCleanup /\ UNCHANGED <<time, admitted>>
        /\ cleanup' = [cleanup EXCEPT ![p] = NoCleanup]
    BY DEF pruneExpiredBatch
  <1>3. /\ count \in [Start -> 0..(Limit + 1)] /\ admitted \in [Start -> Nat]
        /\ nextCleanup \in [Process -> Nat] /\ cleanup[p] \in Nat
        /\ time \in 0..MaxTime
    BY <1>2 DEF IndInv, TypeOK
  <1> DEFINE next == IF Cardinality(removed) >= BatchSize
                     THEN Smaller(nextCleanup[p], cleanup[p] + 1) ELSE nextCleanup[p]
  <1>4. next \in Nat /\ nextCleanup' = [nextCleanup EXCEPT ![p] = next]
    BY <1>1, <1>3 DEF Smaller
  <1> HIDE DEF next
  <1>5. /\ nextCleanup' \in [Process -> Nat]
        /\ cleanup' \in [Process -> Nat \cup {NoCleanup}]
        /\ \A q \in Process : cleanup'[q] # NoCleanup => cleanup'[q] < nextCleanup'[q]
        /\ CutoffsArePast'
    BY <1>2, <1>4, EndCleanup
  <1>6. count' \in [Start -> 0..(Limit + 1)]
    BY <1>1, <1>3, Parameters DEF NoRow
  <1>7. CountedOrOver'
    <2> SUFFICES ASSUME NEW s \in Start
                 PROVE  \/ admitted[s] <= count'[s] /\ admitted[s] <= Limit
                        \/ admitted[s] <= Limit /\ s + Window <= time
      BY <1>2 DEF CountedOrOver
    <2>1. CASE s \in removed
      <3>1. s + Keep <= cleanup[p]
        BY <2>1 DEF Expired, expiresAt
      <3>2. cleanup[p] <= clock(p) /\ clock(p) \in Nat /\ clock(p) <= time + Keep - Window
        BY ClockOf DEF IndInv, CutoffsArePast
      <3>3. s + Window <= time
        BY <1>3, <3>1, <3>2, Parameters, StartsAreTimes
      <3>4. admitted[s] <= Limit
        BY DEF IndInv, CountedOrOver
      <3> QED BY <3>3, <3>4
    <2>2. CASE s \notin removed
      BY <1>1, <2>2 DEF IndInv, CountedOrOver
    <2> QED BY <2>1, <2>2
  <1> QED BY <1>2, <1>3, <1>5, <1>6, <1>7 DEF IndInv, TypeOK

LEMMA Inductive == IndInv /\ [Next]_vars => IndInv'
  <1> SUFFICES ASSUME IndInv, [Next]_vars PROVE IndInv'
    OBVIOUS
  <1>1. ASSUME NEW p \in Process, consume(p) PROVE IndInv'
    BY <1>1, ConsumeStep
  <1>2. ASSUME NEW p \in Process, pruneExpiredBatch(p) PROVE IndInv'
    BY <1>2, PruneStep
  <1>3. ASSUME NEW p \in Process, NEW next \in Nat,
               cleanup' = [cleanup EXCEPT ![p] = NoCleanup],
               nextCleanup' = [nextCleanup EXCEPT ![p] = next],
               UNCHANGED <<time, count, admitted>>
        PROVE  IndInv'
    <2>1. CountedOrOver'
      BY <1>3 DEF IndInv, CountedOrOver
    <2> QED BY <1>3, <2>1, EndCleanup DEF IndInv, TypeOK
  <1>4. ASSUME NEW p \in Process, CleanupFails(p) PROVE IndInv'
    <2>1. cleanup[p] + RetryInterval \in Nat
      BY <1>4, Parameters DEF CleanupFails, IndInv, TypeOK
    <2> QED BY <1>3, <1>4, <2>1 DEF CleanupFails
  <1>5. ASSUME NEW p \in Process, Restart(p) PROVE IndInv'
    BY <1>3, <1>5 DEF Restart
  <1>6. CASE Tick
    <2>1. time \in Nat /\ time' = time + 1 /\ time' \in 0..MaxTime
      BY <1>6, Parameters DEF Tick, IndInv, TypeOK
    <2>2. TypeOK'
      BY <1>6, <2>1 DEF Tick, IndInv, TypeOK
    <2>3. CutoffsArePast'
      <3> SUFFICES ASSUME NEW p \in Process PROVE cleanup[p] <= clock(p)'
        BY <1>6 DEF Tick, CutoffsArePast
      <3>1. clock(p) \in Nat /\ clock(p)' = clock(p) + 1
        BY <2>1, ClockOf, Parameters DEF IndInv, clock
      <3>2. cleanup[p] \in Int /\ cleanup[p] <= clock(p)
        BY DEF IndInv, TypeOK, CutoffsArePast, NoCleanup
      <3> QED BY <3>1, <3>2
    <2>4. CountedOrOver'
      BY <1>6, <2>1, Parameters, StartsAreTimes DEF Tick, IndInv, CountedOrOver
    <2> QED BY <2>2, <2>3, <2>4 DEF IndInv
  <1>7. CASE UNCHANGED vars
    BY <1>7 DEF vars, IndInv, TypeOK, CutoffsArePast, CountedOrOver, clock
  <1> QED BY <1>1, <1>2, <1>4, <1>5, <1>6, <1>7 DEF Next

(* Times, counts and cleanups are of their kinds. *)
THEOREM TypeCorrect == Spec => []TypeOK
  <1>1. IndInv => TypeOK
    BY DEF IndInv
  <1> QED BY InitInv, Inductive, <1>1, PTL DEF Spec

(* Cleaning up never lets a client through beyond the limit of a window. *)
THEOREM WithinLimit == Spec => []AdmittedWithinLimit
  <1>1. IndInv => AdmittedWithinLimit
    BY DEF IndInv, CountedOrOver, AdmittedWithinLimit
  <1> QED BY InitInv, Inductive, <1>1, PTL DEF Spec

(* Counts stay in their range and admissions within the limit.                 *)
THEOREM Consistent == Spec => []LimiterConsistent
  <1>1. TypeOK /\ AdmittedWithinLimit => LimiterConsistent
    BY DEF LimiterConsistent
  <1> QED BY TypeCorrect, WithinLimit, <1>1, PTL

-----------------------------------------------------------------------------
(* The administrators. A step changes the roster alone, an administrator who  *)
(* is about to be changed runs no request, and what runs was allowed.         *)
OwnerOp == {"invite", "revoke", "update"}

LettersAreSent ==
    \A x \in Administrator : invitation[x].status # "none" => invitation[x].issue > 0

CallersStand ==
    \A p \in Request : request[p].op # "none" =>
        /\ request[p].by \in Administrator
        /\ user[request[p].by].enrolled
        /\ request[p].op \in OwnerOp => request[p].target \in Administrator

OneChangesTheRoster ==
    \A p, q \in Request : request[p].op \in OwnerOp /\ request[q].op \in OwnerOp => p = q

TargetsAreHeld ==
    \A p \in Request : request[p].past =>
        /\ request[p].op = "update"
        /\ Known(request[p].target)
        /\ KeepsSelf(request[p])
        /\ \A q \in Request \ {p} : request[q].op # "none" => request[q].by # request[p].target

SuperadminInv ==
    /\ SuperadminConsistent
    /\ LettersAreSent
    /\ CallersStand
    /\ OneChangesTheRoster
    /\ TargetsAreHeld

LEMMA NeedOfOps ==
    /\ \A op \in OwnerOp : NeedOf[op] = "owner"
    /\ NeedOf["operate"] = "operate"
    /\ NeedOf["phone"] = "read"
    /\ \A op \in Op \ {"none"} : NeedOf[op] = "owner" <=> op \in OwnerOp
  BY DEF NeedOf, Op, OwnerOp

LEMMA NeedRoles ==
    /\ Need["owner"] = {"owner"}
    /\ Need["operate"] \subseteq Role
    /\ Need["read"] = Role
  BY DEF Need, Role

(* Whoever may act is known.                                                  *)
LEMMA AllowedIsKnown ==
  ASSUME NEW op \in Op \ {"none"}, NEW role \in Need[NeedOf[op]]
  PROVE  role \in Role
  BY NeedOfOps, NeedRoles DEF Op, OwnerOp, Role

LEMMA SuperadminInitInd ==
  ASSUME SuperadminInit
  PROVE  SuperadminInv
  BY SuperadminAssumption DEF SuperadminInit, SuperadminInv, SuperadminConsistent,
     SuperadminTypeOK, ActsInOffice, LettersAreSent, CallersStand, OneChangesTheRoster,
     TargetsAreHeld, NoRequest, User, Letter, Role, Op, OwnerOp, Known

(* A request that ends leaves the others as they were.                        *)
LEMMA EndKeeps ==
  ASSUME SuperadminInv, NEW p \in Request, End(p)
  PROVE  /\ request' \in [Request -> [op : Op, by : Administrator \cup {None},
                target : Administrator \cup {None}, role : Role, disabled : BOOLEAN,
                past : BOOLEAN]]
         /\ request'[p] = NoRequest
         /\ \A q \in Request \ {p} : request'[q] = request[q]
  BY SuperadminAssumption DEF SuperadminInv, SuperadminConsistent, SuperadminTypeOK, End,
     NoRequest, Op, Role

(* Who is known keeps the role, and nobody's request is touched.              *)
KeepsTheKnown ==
    \A x \in Administrator : Known(x) =>
        /\ user'[x].role = user[x].role
        /\ user'[x].disabled = user[x].disabled
        /\ user[x].enrolled => user'[x].enrolled

LEMMA CallersAreKnown ==
  ASSUME SuperadminInv, NEW p \in Request, request[p].op # "none"
  PROVE  request[p].by \in Administrator /\ Known(request[p].by)
  <1>1. request[p].op \in Op \ {"none"}
    BY DEF SuperadminInv, SuperadminConsistent, SuperadminTypeOK
  <1>2. user[request[p].by].role \in Need[NeedOf[request[p].op]]
    BY DEF SuperadminInv, SuperadminConsistent, ActsInOffice
  <1>3. user[request[p].by].role \in Role
    BY <1>1, <1>2, AllowedIsKnown
  <1> QED BY <1>3 DEF SuperadminInv, CallersStand, Known, Role

LEMMA RequestsStand ==
  ASSUME SuperadminInv, UNCHANGED request, KeepsTheKnown
  PROVE  ActsInOffice' /\ CallersStand' /\ OneChangesTheRoster' /\ TargetsAreHeld'
  <1>1. ASSUME NEW p \in Request, request[p].op # "none"
        PROVE  /\ ~user'[request[p].by].disabled
               /\ user'[request[p].by].role \in Need[NeedOf[request[p].op]]
               /\ user'[request[p].by].enrolled
    <2>1. request[p].by \in Administrator /\ Known(request[p].by)
      BY <1>1, CallersAreKnown
    <2> QED BY <1>1, <2>1 DEF KeepsTheKnown, SuperadminInv, SuperadminConsistent,
               ActsInOffice, CallersStand
  <1>2. ActsInOffice' /\ CallersStand'
    BY <1>1 DEF SuperadminInv, ActsInOffice, CallersStand
  <1>3. TargetsAreHeld'
    <2> SUFFICES ASSUME NEW p \in Request, request[p].past
                 PROVE  Known(request[p].target)'
      BY DEF SuperadminInv, TargetsAreHeld, KeepsSelf
    <2>1. request[p].target \in Administrator /\ Known(request[p].target)
      BY DEF SuperadminInv, TargetsAreHeld, CallersStand, OwnerOp
    <2> QED BY <2>1 DEF KeepsTheKnown, Known
  <1> QED BY <1>2, <1>3 DEF SuperadminInv, OneChangesTheRoster

(* The actions of no request.                                                 *)
LEMMA InvitedTypes ==
  ASSUME SuperadminInv, NEW x \in Administrator, NEW role \in Role,
         NEW by \in Administrator \cup {None}, Invited(x, role, by), ~Known(x), UNCHANGED user
  PROVE  /\ invitation' \in [Administrator -> Letter]
         /\ LettersAreSent'
         /\ \A y \in Administrator : Known(y)' <=> invitation'[y].status = "accepted"
  <1>1. invitation \in [Administrator -> Letter] /\ invitation[x].issue \in 0..MaxIssue
    BY DEF SuperadminInv, SuperadminConsistent, SuperadminTypeOK, Letter
  <1>2. invitation[x].issue + 1 \in 0..MaxIssue /\ invitation[x].issue + 1 > 0
    BY <1>1, SuperadminAssumption DEF Invited
  <1>3. invitation' \in [Administrator -> Letter] /\ LettersAreSent'
    BY <1>1, <1>2 DEF Invited, Letter, SuperadminInv, LettersAreSent
  <1>4. \A y \in Administrator : Known(y)' <=> invitation'[y].status = "accepted"
    BY <1>1 DEF Invited, Known, SuperadminInv, SuperadminConsistent, SuperadminTypeOK
  <1> QED BY <1>3, <1>4

LEMMA BootstrapInd ==
  ASSUME SuperadminInv, BootstrapSuperadminOwner
  PROVE  SuperadminInv'
  <1>1. KeepsTheKnown
    BY DEF BootstrapSuperadminOwner, KeepsTheKnown
  <1>2. /\ invitation' \in [Administrator -> Letter]
        /\ LettersAreSent'
        /\ \A y \in Administrator : Known(y)' <=> invitation'[y].status = "accepted"
    BY InvitedTypes, SuperadminAssumption DEF BootstrapSuperadminOwner, Role
  <1>3. ActsInOffice' /\ CallersStand' /\ OneChangesTheRoster' /\ TargetsAreHeld'
    BY <1>1, RequestsStand DEF BootstrapSuperadminOwner
  <1> QED BY <1>2, <1>3 DEF BootstrapSuperadminOwner, SuperadminInv, SuperadminConsistent,
             SuperadminTypeOK

LEMMA AdmissionInd ==
  ASSUME SuperadminInv, NEW x \in Administrator, AdmissionCheck(x)
  PROVE  SuperadminInv'
  <1>1. KeepsTheKnown
    BY DEF AdmissionCheck, KeepsTheKnown
  <1>2. invitation[x].issue \in 0..MaxIssue /\ invitation[x].issue > 0
    BY DEF AdmissionCheck, SuperadminInv, LettersAreSent, SuperadminConsistent,
       SuperadminTypeOK, Letter
  <1>3. activating' \subseteq Administrator \X (1..MaxIssue)
    BY <1>2, SuperadminAssumption DEF AdmissionCheck, SuperadminInv, SuperadminConsistent,
       SuperadminTypeOK
  <1>4. ActsInOffice' /\ CallersStand' /\ OneChangesTheRoster' /\ TargetsAreHeld'
    BY <1>1, RequestsStand DEF AdmissionCheck
  <1> QED BY <1>3, <1>4 DEF AdmissionCheck, SuperadminInv, SuperadminConsistent,
             SuperadminTypeOK, LettersAreSent, Known

LEMMA ExpireInd ==
  ASSUME SuperadminInv, NEW x \in Administrator, Expire(x)
  PROVE  SuperadminInv'
  <1>1. KeepsTheKnown
    BY DEF Expire, KeepsTheKnown
  <1>2. invitation' \in [Administrator -> Letter] /\ LettersAreSent'
    BY DEF Expire, SuperadminInv, LettersAreSent, SuperadminConsistent, SuperadminTypeOK, Letter
  <1>3. \A y \in Administrator : Known(y)' <=> invitation'[y].status = "accepted"
    BY DEF Expire, Known, SuperadminInv, SuperadminConsistent, SuperadminTypeOK
  <1>4. ActsInOffice' /\ CallersStand' /\ OneChangesTheRoster' /\ TargetsAreHeld'
    BY <1>1, RequestsStand DEF Expire
  <1> QED BY <1>2, <1>3, <1>4 DEF Expire, SuperadminInv, SuperadminConsistent, SuperadminTypeOK

LEMMA AdmitInd ==
  ASSUME SuperadminInv, NEW x \in Administrator, NEW issue \in 1..MaxIssue, Admit(x, issue)
  PROVE  SuperadminInv'
  <1>1. /\ KeepsTheKnown
        /\ user' \in [Administrator -> User]
        /\ invitation' \in [Administrator -> Letter]
        /\ LettersAreSent'
        /\ \A y \in Administrator : Known(y)' <=> invitation'[y].status = "accepted"
    <2>1. /\ user \in [Administrator -> User] /\ invitation \in [Administrator -> Letter]
          /\ \A y \in Administrator : Known(y) <=> invitation[y].status = "accepted"
          /\ LettersAreSent
      BY DEF SuperadminInv, SuperadminConsistent, SuperadminTypeOK
    <2>2. CASE UNCHANGED <<invitation, user>>
      BY <2>1, <2>2 DEF KeepsTheKnown, LettersAreSent, Known
    <2>3. CASE /\ ~Known(x) /\ invitation[x].status = "open"
               /\ invitation' = [invitation EXCEPT ![x].status = "accepted"]
               /\ user' = [user EXCEPT ![x] =
                      [role |-> invitation[x].role, disabled |-> FALSE, enrolled |-> FALSE]]
      <3>1. invitation[x].role \in Role
        BY <2>1 DEF Letter
      <3>2. user' \in [Administrator -> User] /\ KeepsTheKnown
        BY <2>1, <2>3, <3>1 DEF User, KeepsTheKnown
      <3>3. invitation' \in [Administrator -> Letter] /\ LettersAreSent'
        BY <2>1, <2>3 DEF Letter, LettersAreSent
      <3>4. \A y \in Administrator : Known(y)' <=> invitation'[y].status = "accepted"
        BY <2>1, <2>3, <3>1 DEF Known, Role
      <3> QED BY <3>2, <3>3, <3>4
    <2> QED BY <2>2, <2>3 DEF Admit
  <1>2. ActsInOffice' /\ CallersStand' /\ OneChangesTheRoster' /\ TargetsAreHeld'
    BY <1>1, RequestsStand DEF Admit
  <1> QED BY <1>1, <1>2 DEF Admit, SuperadminInv, SuperadminConsistent, SuperadminTypeOK

LEMMA EnrolInd ==
  ASSUME SuperadminInv, NEW x \in Administrator, EnrolFactor(x)
  PROVE  SuperadminInv'
  <1>1. KeepsTheKnown /\ user' \in [Administrator -> User]
    <2>1. user \in [Administrator -> User] /\ user' = [user EXCEPT ![x].enrolled = TRUE]
      BY DEF EnrolFactor, SuperadminInv, SuperadminConsistent, SuperadminTypeOK
    <2>2. [user[x] EXCEPT !.enrolled = TRUE] \in User
      BY <2>1 DEF User
    <2>3. user' \in [Administrator -> User]
      BY <2>1, <2>2
    <2>4. KeepsTheKnown
      BY <2>1 DEF KeepsTheKnown, User
    <2> QED BY <2>3, <2>4
  <1>2. \A y \in Administrator : Known(y)' <=> Known(y)
    BY DEF EnrolFactor, Known, SuperadminInv, SuperadminConsistent, SuperadminTypeOK, User
  <1>3. ActsInOffice' /\ CallersStand' /\ OneChangesTheRoster' /\ TargetsAreHeld'
    BY <1>1, RequestsStand DEF EnrolFactor
  <1> QED BY <1>1, <1>2, <1>3 DEF EnrolFactor, SuperadminInv, SuperadminConsistent,
             SuperadminTypeOK, LettersAreSent

-----------------------------------------------------------------------------
(* The actions of a request.                                                  *)
LEMMA BeginInd ==
  ASSUME SuperadminInv, NEW p \in Request, NEW x \in Administrator, NEW op \in Op \ {"none"},
         NEW target \in Administrator \cup {None}, NEW role \in Role, NEW disabled \in BOOLEAN,
         op \in OwnerOp => target \in Administrator,
         Begin(p, x, op, target, role, disabled)
  PROVE  SuperadminInv'
  <1> DEFINE r == [op |-> op, by |-> x, target |-> target, role |-> role,
                   disabled |-> disabled, past |-> FALSE]
  <1>1. /\ request'[p] = r
        /\ \A q \in Request \ {p} : request'[q] = request[q]
        /\ request' \in [Request -> [op : Op, by : Administrator \cup {None},
              target : Administrator \cup {None}, role : Role, disabled : BOOLEAN,
              past : BOOLEAN]]
        /\ UNCHANGED <<user, invitation, activating>>
    BY DEF Begin, people, SuperadminInv, SuperadminConsistent, SuperadminTypeOK
  <1>2. ActsInOffice'
    BY <1>1 DEF Begin, Allowed, SuperadminInv, SuperadminConsistent, ActsInOffice
  <1>3. CallersStand'
    BY <1>1 DEF Begin, Allowed, SuperadminInv, CallersStand
  <1>4. OneChangesTheRoster'
    <2>1. op \in OwnerOp => \A q \in Request : request[q].op \notin OwnerOp
      BY NeedOfOps DEF Begin, RosterFree, OwnerOp
    <2> QED BY <1>1, <2>1 DEF SuperadminInv, OneChangesTheRoster
  <1>5. TargetsAreHeld'
    BY <1>1 DEF Begin, HeldForUpdate, SuperadminInv, TargetsAreHeld, Known, KeepsSelf
  <1> QED BY <1>1, <1>2, <1>3, <1>4, <1>5 DEF SuperadminInv, SuperadminConsistent,
             SuperadminTypeOK, LettersAreSent, Known

(* The end of a request, whatever it wrote but the roles.                     *)
LEMMA EndStands ==
  ASSUME SuperadminInv, NEW p \in Request, End(p), UNCHANGED user
  PROVE  ActsInOffice' /\ CallersStand' /\ OneChangesTheRoster' /\ TargetsAreHeld'
  <1>1. /\ request'[p] = NoRequest
        /\ \A q \in Request \ {p} : request'[q] = request[q]
    BY EndKeeps
  <1>2. ActsInOffice'
    BY <1>1 DEF SuperadminInv, SuperadminConsistent, ActsInOffice, NoRequest
  <1>3. CallersStand' /\ OneChangesTheRoster'
    BY <1>1 DEF SuperadminInv, CallersStand, OneChangesTheRoster, NoRequest, OwnerOp
  <1>4. TargetsAreHeld'
    BY <1>1 DEF SuperadminInv, TargetsAreHeld, NoRequest, Known, KeepsSelf
  <1> QED BY <1>2, <1>3, <1>4

LEMMA InviteInd ==
  ASSUME SuperadminInv, NEW p \in Request, InviteAdministrator(p)
  PROVE  SuperadminInv'
  <1> DEFINE r == request[p]
  <1>1. r.op \in OwnerOp /\ r.target \in Administrator /\ r.by \in Administrator /\ r.role \in Role
    BY DEF InviteAdministrator, OwnerOp, SuperadminInv, CallersStand, SuperadminConsistent,
       SuperadminTypeOK
  <1>2. /\ invitation' \in [Administrator -> Letter]
        /\ LettersAreSent'
        /\ \A y \in Administrator : Known(y)' <=> invitation'[y].status = "accepted"
    <2>1. CASE UNCHANGED invitation
      BY <2>1 DEF InviteAdministrator, SuperadminInv, SuperadminConsistent, SuperadminTypeOK,
         LettersAreSent, Known
    <2>2. CASE ~Known(r.target) /\ Invited(r.target, r.role, r.by)
      BY <1>1, <2>2, InvitedTypes DEF InviteAdministrator
    <2> QED BY <2>1, <2>2 DEF InviteAdministrator, Taken
  <1>3. ActsInOffice' /\ CallersStand' /\ OneChangesTheRoster' /\ TargetsAreHeld'
    BY EndStands DEF InviteAdministrator
  <1> QED BY <1>2, <1>3, EndKeeps DEF InviteAdministrator, SuperadminInv,
             SuperadminConsistent, SuperadminTypeOK

LEMMA RevokeInd ==
  ASSUME SuperadminInv, NEW p \in Request, RevokeAdministratorInvitation(p)
  PROVE  SuperadminInv'
  <1> DEFINE x == request[p].target
  <1>1. x \in Administrator
    BY DEF RevokeAdministratorInvitation, OwnerOp, SuperadminInv, CallersStand
  <1>2. /\ invitation' \in [Administrator -> Letter]
        /\ LettersAreSent'
        /\ \A y \in Administrator : Known(y)' <=> invitation'[y].status = "accepted"
    <2>1. CASE UNCHANGED invitation
      BY <2>1 DEF RevokeAdministratorInvitation, SuperadminInv, SuperadminConsistent,
         SuperadminTypeOK, LettersAreSent, Known
    <2>2. CASE /\ invitation[x].status = "open"
               /\ invitation' = [invitation EXCEPT ![x].status = "revoked"]
      <3>1. invitation' \in [Administrator -> Letter] /\ LettersAreSent'
        BY <1>1, <2>2 DEF SuperadminInv, LettersAreSent, SuperadminConsistent,
           SuperadminTypeOK, Letter
      <3>2. \A y \in Administrator : Known(y)' <=> invitation'[y].status = "accepted"
        BY <1>1, <2>2 DEF RevokeAdministratorInvitation, Known, SuperadminInv,
           SuperadminConsistent, SuperadminTypeOK
      <3> QED BY <3>1, <3>2
    <2> QED BY <2>1, <2>2 DEF RevokeAdministratorInvitation
  <1>3. ActsInOffice' /\ CallersStand' /\ OneChangesTheRoster' /\ TargetsAreHeld'
    BY EndStands DEF RevokeAdministratorInvitation
  <1> QED BY <1>2, <1>3, EndKeeps DEF RevokeAdministratorInvitation, SuperadminInv,
             SuperadminConsistent, SuperadminTypeOK

(* A request that ends and changes nothing else.                              *)
LEMMA EndInd ==
  ASSUME SuperadminInv, NEW p \in Request, End(p), UNCHANGED people
  PROVE  SuperadminInv'
  <1>1. ActsInOffice' /\ CallersStand' /\ OneChangesTheRoster' /\ TargetsAreHeld'
    BY EndStands DEF people
  <1> QED BY <1>1, EndKeeps DEF people, SuperadminInv, SuperadminConsistent,
             SuperadminTypeOK, LettersAreSent, Known

LEMMA CheckInd ==
  ASSUME SuperadminInv, NEW p \in Request, CheckAdministrator(p)
  PROVE  SuperadminInv'
  <1> DEFINE r == request[p]
  <1>1. CASE End(p)
    BY <1>1, EndInd DEF CheckAdministrator
  <1>2. CASE /\ Known(r.target) /\ KeepsSelf(r)
             /\ request' = [request EXCEPT ![p].past = TRUE]
    <2>1. /\ request' \in [Request -> [op : Op, by : Administrator \cup {None},
                target : Administrator \cup {None}, role : Role, disabled : BOOLEAN,
                past : BOOLEAN]]
          /\ request'[p] = [r EXCEPT !.past = TRUE]
          /\ \A q \in Request \ {p} : request'[q] = request[q]
          /\ UNCHANGED <<user, invitation, activating>>
      BY <1>2 DEF CheckAdministrator, people, SuperadminInv, SuperadminConsistent,
         SuperadminTypeOK
    <2>2. \A q \in Request : /\ request'[q].op = request[q].op /\ request'[q].by = request[q].by
                             /\ request'[q].target = request[q].target
                             /\ request'[q].role = request[q].role
                             /\ request'[q].disabled = request[q].disabled
      BY <2>1
    <2>3. ActsInOffice' /\ CallersStand' /\ OneChangesTheRoster'
      BY <2>1, <2>2 DEF SuperadminInv, SuperadminConsistent, ActsInOffice, CallersStand,
         OneChangesTheRoster
    <2>4. TargetsAreHeld'
      BY <1>2, <2>1, <2>2 DEF CheckAdministrator, SharedByOther, SuperadminInv,
         TargetsAreHeld, Known, KeepsSelf
    <2> QED BY <2>1, <2>3, <2>4 DEF SuperadminInv, SuperadminConsistent, SuperadminTypeOK,
               LettersAreSent, Known
  <1> QED BY <1>1, <1>2 DEF CheckAdministrator

LEMMA UpdateInd ==
  ASSUME SuperadminInv, NEW p \in Request, UpdateAdministrator(p)
  PROVE  SuperadminInv'
  <1> DEFINE r == request[p]
  <1>1. /\ r.op \in OwnerOp /\ r.target \in Administrator /\ r.role \in Role
        /\ r.disabled \in BOOLEAN /\ Known(r.target)
        /\ \A q \in Request \ {p} : request[q].op # "none" => request[q].by # r.target
    BY DEF UpdateAdministrator, OwnerOp, SuperadminInv, CallersStand, SuperadminConsistent,
       SuperadminTypeOK, TargetsAreHeld
  <1>2. CASE UNCHANGED user
    BY <1>2, EndInd DEF UpdateAdministrator, people
  <1>3. CASE user' = [user EXCEPT ![r.target].role = r.role, ![r.target].disabled = r.disabled]
    <2>1. /\ user' \in [Administrator -> User]
          /\ user'[r.target].role = r.role
          /\ \A x \in Administrator : user'[x].enrolled = user[x].enrolled
          /\ \A x \in Administrator \ {r.target} : user'[x] = user[x]
      BY <1>1, <1>3 DEF SuperadminInv, SuperadminConsistent, SuperadminTypeOK, User
    <2>2. \A x \in Administrator : Known(x)' <=> Known(x)
      BY <1>1, <2>1 DEF Known, Role
    <2>3. /\ request'[p] = NoRequest
          /\ \A q \in Request \ {p} : request'[q] = request[q]
      BY EndKeeps DEF UpdateAdministrator
    <2>4. ASSUME NEW q \in Request, request'[q].op # "none"
          PROVE  /\ q # p /\ request[q].op # "none" /\ request[q].by \in Administrator \ {r.target}
                 /\ request'[q] = request[q]
      BY <1>1, <2>3, <2>4 DEF NoRequest, SuperadminInv, CallersStand
    <2>5. ActsInOffice' /\ CallersStand'
      BY <2>1, <2>4 DEF SuperadminInv, SuperadminConsistent, ActsInOffice, CallersStand
    <2>6. OneChangesTheRoster'
      BY <2>3 DEF SuperadminInv, OneChangesTheRoster, NoRequest, OwnerOp
    <2>7. TargetsAreHeld'
      <3> SUFFICES ASSUME NEW q \in Request, request'[q].past
                   PROVE  /\ request'[q].op = "update"
                          /\ user'[request'[q].target].role # "none"
                          /\ KeepsSelf(request'[q])
                          /\ \A s \in Request \ {q} : request'[s].op # "none" =>
                                request'[s].by # request'[q].target
        BY DEF TargetsAreHeld, KeepsSelf, Known
      <3>1. q # p /\ request'[q] = request[q]
        BY <2>3 DEF NoRequest
      <3>2. request[q].target \in Administrator
        BY <3>1 DEF SuperadminInv, TargetsAreHeld, CallersStand, OwnerOp
      <3> QED BY <2>2, <2>3, <3>1, <3>2 DEF SuperadminInv, TargetsAreHeld, NoRequest, KeepsSelf, Known
    <2> QED BY <2>1, <2>2, <2>5, <2>6, <2>7, EndKeeps DEF UpdateAdministrator, SuperadminInv,
               SuperadminConsistent, SuperadminTypeOK, LettersAreSent
  <1> QED BY <1>2, <1>3 DEF UpdateAdministrator

LEMMA SuperadminStepInd ==
  ASSUME SuperadminInv, [SuperadminNext]_superadminVars
  PROVE  SuperadminInv'
  <1>1. CASE BootstrapSuperadminOwner
    BY <1>1, BootstrapInd
  <1>2. CASE \E x \in Administrator : AdmissionCheck(x) \/ Expire(x) \/ EnrolFactor(x)
    BY <1>2, AdmissionInd, ExpireInd, EnrolInd
  <1>3. CASE \E a \in activating : Admit(a[1], a[2])
    <2>1. \A a \in activating : a[1] \in Administrator /\ a[2] \in 1..MaxIssue
      BY DEF SuperadminInv, SuperadminConsistent, SuperadminTypeOK
    <2> QED BY <1>3, <2>1, AdmitInd
  <1>4. ASSUME NEW p \in Request,
               \/ \E x, target \in Administrator, role \in Role :
                    \/ Begin(p, x, "invite", target, role, FALSE)
                    \/ \E disabled \in BOOLEAN : Begin(p, x, "update", target, role, disabled)
               \/ \E x, target \in Administrator : Begin(p, x, "revoke", target, "owner", FALSE)
               \/ \E x \in Administrator, op \in {"operate", "phone"} :
                    Begin(p, x, op, None, "owner", FALSE)
        PROVE  SuperadminInv'
    BY <1>4, BeginInd DEF Op, OwnerOp, Role
  <1>5. ASSUME NEW p \in Request, Work(p) \/ Abort(p)
        PROVE  SuperadminInv'
    BY <1>5, EndInd DEF Work, Abort
  <1>6. CASE UNCHANGED superadminVars
    BY <1>6, RequestsStand DEF superadminVars, SuperadminInv, SuperadminConsistent,
       SuperadminTypeOK, LettersAreSent, Known, KeepsTheKnown
  <1> QED BY <1>1, <1>2, <1>3, <1>4, <1>5, <1>6, InviteInd, RevokeInd, CheckInd, UpdateInd
          DEF SuperadminNext

(* The invariant of the administrators.                                       *)
THEOREM SuperadminInductive == SuperadminSpec => []SuperadminInv
  BY SuperadminInitInd, SuperadminStepInd, PTL DEF SuperadminSpec

(* Administrators and invitations agree, and nobody acts out of office: for   *)
(* any administrators, requests and invitations.                              *)
THEOREM NobodyActsOutOfOffice == SuperadminSpec => []SuperadminConsistent
  <1>1. SuperadminInv => SuperadminConsistent
    BY DEF SuperadminInv
  <1> QED BY SuperadminInductive, <1>1, PTL

-----------------------------------------------------------------------------
(* Whoever changes an owner is one, can act, and is not changed by it.        *)
LEMMA UpdaterRemains ==
  ASSUME SuperadminInv, NEW p \in Request, UpdateAdministrator(p)
  PROVE  OwnerCanAct'
  <1> DEFINE r == request[p]
             x == r.by
  <1>1. /\ x \in Administrator /\ user[x].enrolled /\ ~user[x].disabled /\ user[x].role = "owner"
        /\ r.target \in Administrator /\ KeepsSelf(r)
    BY NeedOfOps, NeedRoles DEF UpdateAdministrator, OwnerOp, SuperadminInv, CallersStand,
       SuperadminConsistent, ActsInOffice, TargetsAreHeld
  <1>2. user'[x].enrolled /\ ~user'[x].disabled /\ user'[x].role = "owner"
    <2>1. CASE UNCHANGED user
      BY <1>1, <2>1
    <2>2. CASE user' = [user EXCEPT ![r.target].role = r.role, ![r.target].disabled = r.disabled]
      <3>1. user \in [Administrator -> User]
        BY DEF SuperadminInv, SuperadminConsistent, SuperadminTypeOK
      <3>2. CASE x = r.target
        BY <1>1, <2>2, <3>1, <3>2 DEF KeepsSelf, User
      <3>3. CASE x # r.target
        BY <1>1, <2>2, <3>1, <3>3
      <3> QED BY <3>2, <3>3
    <2> QED BY <2>1, <2>2 DEF UpdateAdministrator
  <1> QED BY <1>1, <1>2 DEF OwnerCanAct, ActiveOwner

LEMMA KnownOwnerRemains ==
  ASSUME SuperadminInv, KeepsTheKnown
  PROVE  OwnerCanAct => OwnerCanAct'
  BY DEF KeepsTheKnown, OwnerCanAct, ActiveOwner, Known

LEMMA RemainsStep ==
  ASSUME SuperadminInv, [SuperadminNext]_superadminVars
  PROVE  OwnerCanAct => OwnerCanAct'
  <1>1. CASE \E p \in Request : UpdateAdministrator(p)
    BY <1>1, UpdaterRemains
  <1>2. CASE \E a \in activating : Admit(a[1], a[2])
    <2>1. KeepsTheKnown
      BY <1>2 DEF Admit, KeepsTheKnown, SuperadminInv, SuperadminConsistent, SuperadminTypeOK
    <2> QED BY <2>1, KnownOwnerRemains
  <1>3. CASE \E x \in Administrator : EnrolFactor(x)
    <2>1. KeepsTheKnown
      BY <1>3 DEF EnrolFactor, KeepsTheKnown, SuperadminInv, SuperadminConsistent,
         SuperadminTypeOK, User
    <2> QED BY <2>1, KnownOwnerRemains
  <1>4. CASE UNCHANGED user
    BY <1>4 DEF OwnerCanAct, ActiveOwner
  <1>5. CASE UNCHANGED superadminVars
    BY <1>4, <1>5 DEF superadminVars
  <1>6. CASE BootstrapSuperadminOwner \/ \E x \in Administrator : AdmissionCheck(x) \/ Expire(x)
    BY <1>4, <1>6 DEF BootstrapSuperadminOwner, AdmissionCheck, Expire
  <1>7. ASSUME NEW p \in Request,
               \E x, target \in Administrator \cup {None}, op \in Op, role \in Role,
                  disabled \in BOOLEAN : Begin(p, x, op, target, role, disabled)
        PROVE  OwnerCanAct => OwnerCanAct'
    <2>1. UNCHANGED user
      BY <1>7 DEF Begin, people
    <2> QED BY <1>4, <2>1
  <1>8. ASSUME NEW p \in Request,
               \/ InviteAdministrator(p) \/ RevokeAdministratorInvitation(p)
               \/ CheckAdministrator(p) \/ Work(p) \/ Abort(p)
        PROVE  OwnerCanAct => OwnerCanAct'
    <2>1. UNCHANGED user
      BY <1>8 DEF InviteAdministrator, RevokeAdministratorInvitation, CheckAdministrator, Work,
         Abort, people
    <2> QED BY <1>4, <2>1
  <1> QED BY <1>1, <1>2, <1>3, <1>5, <1>6, <1>7, <1>8 DEF SuperadminNext, Op, Role

LEMMA AdmittedStep ==
  ASSUME SuperadminInv, [SuperadminNext]_superadminVars,
         NEW x \in Administrator, ~Known(x), Known(x)'
  PROVE  IF invitation[x].by = None THEN \A y \in Administrator : ~Known(y)
                                    ELSE ActiveOwner(invitation[x].by)
  <1>1. user \in [Administrator -> User]
    BY DEF SuperadminInv, SuperadminConsistent, SuperadminTypeOK
  <1>2. CASE \E p \in Request : UpdateAdministrator(p)
    <2> PICK p \in Request : UpdateAdministrator(p)
      BY <1>2
    <2>1. Known(request[p].target)
      BY DEF UpdateAdministrator, SuperadminInv, TargetsAreHeld
    <2>2. user'[x] = user[x]
      BY <1>1, <2>1 DEF UpdateAdministrator
    <2> QED BY <2>2 DEF Known
  <1>3. CASE \E a \in activating : Admit(a[1], a[2])
    <2> PICK a \in activating : Admit(a[1], a[2])
      BY <1>3
    <2>1. x = a[1] /\ InviterStands(invitation[a[1]])
      BY <1>1 DEF Admit, Known
    <2> QED BY <2>1 DEF InviterStands
  <1>4. CASE \E y \in Administrator : EnrolFactor(y)
    BY <1>1, <1>4 DEF EnrolFactor, Known, User
  <1>5. CASE UNCHANGED user
    BY <1>5 DEF Known
  <1> QED BY <1>2, <1>3, <1>4, <1>5, ZenonT(40) DEF SuperadminNext, superadminVars, people,
             BootstrapSuperadminOwner, AdmissionCheck, Expire, Begin, InviteAdministrator,
             RevokeAdministratorInvitation, CheckAdministrator, Work, Abort

(* The platform stays in the hands of its owners: one who can act remains,    *)
(* and only an owner's invitation admits.                                     *)
THEOREM OwnersRemain == SuperadminSpec => OwnersStayInCharge
  <1>1. SuperadminInv /\ [SuperadminNext]_superadminVars
          => [OwnerCanAct => OwnerCanAct']_superadminVars
    BY RemainsStep
  <1>2. SuperadminInv /\ [SuperadminNext]_superadminVars
          => [\A x \in Administrator : ~Known(x) /\ Known(x)' =>
                IF invitation[x].by = None THEN \A y \in Administrator : ~Known(y)
                                           ELSE ActiveOwner(invitation[x].by)]_superadminVars
    BY AdmittedStep
  <1> QED BY SuperadminInductive, <1>1, <1>2, PTL
          DEF SuperadminSpec, OwnersStayInCharge, OwnerWhoCanActRemains, AdmittedByAnOwner

-----------------------------------------------------------------------------
(* The health checks. What the worker knows is as old as its last count, and  *)
(* the next count is due an interval after that one.                          *)

(* Since when the events may have changed without being counted.              *)
Counted == loop.nextTelemetryAt - TelemetryInterval

LoopInv ==
    /\ loop.started <= now
    /\ loop.observedAt <= now
    /\ loop.nextTelemetryAt <= now + TelemetryInterval
    /\ loop.step = "sweeping" /\ ~loop.counts => loop.started < loop.nextTelemetryAt
    /\ loop.step = "observing" => loop.started <= loop.observedAt

SweptInTime ==
    health.queue # NoQueue =>
        health.succeededAt # Never /\ health.succeededAt < loop.nextTelemetryAt + MaxSweep

(* An event that no handler owns was counted with its age, or came later.     *)
UnknownIsCounted ==
    health.queue # NoQueue =>
        \A e \in Unsupported : pending(e) =>
            \/ /\ health.queue.unsupported # NoAge
               /\ row[e].created + health.queue.unsupported >= health.queue.at
            \/ row[e].created >= Counted

DeadAsOf(t) == {e \in Event \ Unsupported : row[e].state = "dead" /\ row[e].deadLetteredAt < t}

DeadAreCounted ==
    health.queue # NoQueue => Cardinality(DeadAsOf(Counted)) <= health.queue.dead

HealthInv == HealthTypeOK /\ LoopInv /\ SweptInTime /\ UnknownIsCounted /\ DeadAreCounted

LEMMA HealthParameters ==
    /\ IsFiniteSet(Event) /\ Unsupported \subseteq Event /\ Cardinality(Event) \in Nat
    /\ PollInterval \in Nat /\ TelemetryInterval \in Nat /\ TelemetryInterval > 0
    /\ MaxStaleness \in Nat /\ MaxReadyAge \in Nat /\ MaxUnsupportedAge \in Nat
    /\ MaxDeadLetters \in Nat /\ MaxSweep \in Nat /\ MaxDelay \in Nat /\ Horizon \in Nat
  <1>1. Cardinality(Event) \in Nat
    BY WorkerHealthAssumption, FS_CardinalityType
  <1> QED BY <1>1, WorkerHealthAssumption

(* Numbers that have a bound and are there have a largest one.                *)
LEMMA MaxInd ==
  ASSUME NEW S \in SUBSET Nat, NEW b \in Nat, NEW s \in S, \A x \in S : x <= b
  PROVE  Max(S) \in S /\ \A x \in S : x <= Max(S)
  <1> DEFINE R == OpToRel(<, Nat)
             T == {b - x : x \in S}
  <1>1. ASSUME NEW u \in Nat, NEW v \in Nat, v < u
        PROVE  <<v, u>> \in R
    <2>1. <<v, u>> \in Nat \X Nat /\ <<v, u>>[1] = v /\ <<v, u>>[2] = u
      OBVIOUS
    <2>2. R = {ss \in Nat \X Nat : ss[1] < ss[2]}
      BY DEF OpToRel
    <2> QED BY <1>1, <2>1, <2>2
  <1>2. IsWellFoundedOn(R, Nat)
    BY NatLessThanWellFounded
  <1>3. T \subseteq Nat /\ b - s \in T
    OBVIOUS
  <1> HIDE DEF R
  <1>4. PICK u \in T : \A v \in T : ~(<<v, u>> \in R)
    <2> HIDE DEF T
    <2> QED BY <1>2, <1>3, WFMin
  <1>5. PICK m \in S : u = b - m
    OBVIOUS
  <1>6. ASSUME NEW x \in S
        PROVE  m >= x
    <2>1. b - x \in T /\ b - x \in Nat /\ u \in Nat
      BY <1>3
    <2>2. ~(b - x < u)
      BY <1>1, <1>4, <2>1
    <2> QED BY <1>5, <2>1, <2>2
  <1>7. \E y \in S : \A x \in S : y >= x
    BY <1>6
  <1>8. Max(S) \in S /\ \A x \in S : Max(S) >= x
    BY <1>7 DEF Max
  <1> QED BY <1>8

(* The age of the oldest: no event that is asked about is older, and the age  *)
(* is a time that has passed.                                                 *)
LEMMA AgeOfTheOldest ==
  ASSUME HealthTypeOK, LoopInv, NEW events \in SUBSET Event
  PROVE  /\ ageMs(events) \in Age
         /\ \A e \in events : /\ ageMs(events) # NoAge
                              /\ row[e].created + ageMs(events) >= loop.observedAt
  <1> DEFINE S == {0} \cup {loop.observedAt - row[e].created : e \in events}
             N == {x \in S : x >= 0}
  <1>1. /\ loop.observedAt \in Nat /\ loop.observedAt <= Horizon
        /\ \A e \in Event : row[e].created \in Nat
    BY HealthParameters DEF HealthTypeOK, LoopInv, Row, Time
  <1>2. N \subseteq Nat /\ 0 \in N /\ \A x \in N : x <= loop.observedAt
    BY <1>1
  <1>3. Max(N) \in N /\ \A x \in N : x <= Max(N)
    <2> HIDE DEF N
    <2> QED BY <1>1, <1>2, MaxInd
  <1>4. Max(N) \in S /\ \A x \in S : Max(N) >= x
    <2>1. ASSUME NEW x \in S
          PROVE  x \in Int /\ (x \in N \/ x < 0)
      BY <1>1
    <2>2. Max(N) \in S /\ Max(N) \in Nat
      BY <1>2, <1>3
    <2> HIDE DEF S, N
    <2>3. ASSUME NEW x \in S
          PROVE  Max(N) >= x
      BY <1>3, <2>1, <2>2
    <2> QED BY <2>2, <2>3
  <1>5. Max(S) \in S /\ \A x \in S : Max(S) >= x
    <2> HIDE DEF S, N
    <2> QED BY <1>4 DEF Max
  <1>6. Max(S) \in Nat /\ Max(S) <= loop.observedAt
    BY <1>1, <1>5
  <1>7. Max(S) \in Age
    BY <1>1, <1>6, HealthParameters DEF Age, Time
  <1>8. CASE events = {}
    BY <1>8 DEF ageMs, Age
  <1>9. CASE events # {}
    <2>1. ageMs(events) = Max(S)
      BY <1>9 DEF ageMs
    <2>2. \A e \in events : Max(S) >= loop.observedAt - row[e].created
      BY <1>5
    <2>3. ageMs(events) # NoAge
      BY <1>6, <2>1 DEF NoAge
    <2> HIDE DEF S
    <2>4. ASSUME NEW e \in events
          PROVE  row[e].created + ageMs(events) >= loop.observedAt
      <3>1. row[e].created \in Nat /\ Max(S) >= loop.observedAt - row[e].created
        BY <1>1, <2>2
      <3> QED BY <1>1, <1>6, <2>1, <3>1
    <2> QED BY <1>7, <2>1, <2>3, <2>4
  <1> QED BY <1>8, <1>9

LEMMA HealthInitInd == HealthInit => HealthInv
  <1> SUFFICES ASSUME HealthInit PROVE HealthInv
    OBVIOUS
  <1> USE HealthParameters DEF HealthInit
  <1>1. HealthTypeOK
    BY DEF HealthTypeOK, Row, Time, Queue, Age, NoQueue, Never, NoAge
  <1>2. LoopInv
    BY DEF LoopInv
  <1>3. SweptInTime /\ UnknownIsCounted /\ DeadAreCounted
    BY DEF SweptInTime, UnknownIsCounted, DeadAreCounted
  <1> QED BY <1>1, <1>2, <1>3 DEF HealthInv

LEMMA DeadIsFinite ==
  ASSUME NEW t
  PROVE  IsFiniteSet(DeadAsOf(t)) /\ Cardinality(DeadAsOf(t)) \in Nat
  <1>1. DeadAsOf(t) \in SUBSET Event
    BY DEF DeadAsOf
  <1> QED BY <1>1, HealthParameters, FS_Subset, FS_CardinalityType

(* A step of the queue writes one event: one that it counts as new is new.    *)
LEMMA QueueInd ==
  ASSUME HealthInv, NEW e \in Event, insert(e) \/ claim(e) \/ settle(e) \/ release(e)
  PROVE  HealthInv'
  <1> USE HealthParameters DEF HealthInv
  <1>1. /\ UNCHANGED <<now, loop, health>>
        /\ row' = [row EXCEPT ![e] = row'[e]] /\ row'[e] \in Row
        /\ (pending(e))' => \/ pending(e) /\ row'[e].created = row[e].created
                            \/ row'[e].created = now
        /\ row'[e].state = "dead" => row'[e].deadLetteredAt = now
    <2> USE DEF HealthTypeOK, Row, Time, pending
    <2>1. CASE insert(e)
      BY <2>1 DEF insert
    <2>2. CASE claim(e)
      BY <2>2 DEF claim
    <2>3. CASE settle(e)
      BY <2>3 DEF settle
    <2>4. CASE release(e)
      <3>1. PICK delay \in 0..MaxDelay :
              row' = [row EXCEPT ![e].state = "pending", ![e].available = now + delay]
        BY <2>4 DEF release
      <3>2. now + delay \in Time /\ row[e] \in Row
        OBVIOUS
      <3>3. row'[e] = [row[e] EXCEPT !.state = "pending", !.available = now + delay]
            /\ row' = [row EXCEPT ![e] = row'[e]]
        BY <3>1
      <3> QED BY <2>4, <3>2, <3>3 DEF release
    <2> QED BY <2>1, <2>2, <2>3, <2>4
  <1>2. HealthTypeOK'
    BY <1>1 DEF HealthTypeOK
  <1>3. LoopInv' /\ SweptInTime'
    BY <1>1 DEF LoopInv, SweptInTime
  <1>4. /\ \A f \in Event \ {e} : row'[f] = row[f]
        /\ Counted' = Counted /\ Counted <= now /\ Counted \in Int /\ now \in Nat
    BY <1>1 DEF HealthTypeOK, LoopInv, Counted, Time
  <1>5. UnknownIsCounted'
    <2> SUFFICES ASSUME health.queue # NoQueue, NEW f \in Unsupported, (pending(f))'
                 PROVE  \/ /\ health.queue.unsupported # NoAge
                           /\ row'[f].created + health.queue.unsupported >= health.queue.at
                        \/ row'[f].created >= Counted
      BY <1>1, <1>4 DEF UnknownIsCounted
    <2>1. CASE f = e
      BY <1>1, <1>4, <2>1 DEF UnknownIsCounted
    <2>2. CASE f # e
      BY <1>4, <2>2 DEF UnknownIsCounted, pending
    <2> QED BY <2>1, <2>2
  <1>6. DeadAreCounted'
    <2>1. DeadAsOf(Counted)' \subseteq DeadAsOf(Counted)
      BY <1>1, <1>4 DEF DeadAsOf
    <2>2. Cardinality(DeadAsOf(Counted)') <= Cardinality(DeadAsOf(Counted))
      BY <2>1, DeadIsFinite, FS_Subset
    <2>3. Cardinality(DeadAsOf(Counted)') \in Nat /\ Cardinality(DeadAsOf(Counted)) \in Nat
      <3>1. IsFiniteSet(DeadAsOf(Counted)')
        BY <2>1, DeadIsFinite, FS_Subset
      <3> QED BY <3>1, DeadIsFinite, FS_CardinalityType
    <2>4. health.queue # NoQueue => health.queue.dead \in Nat
      BY DEF HealthTypeOK, Queue
    <2> QED BY <1>1, <2>2, <2>3, <2>4 DEF DeadAreCounted
  <1> QED BY <1>2, <1>3, <1>5, <1>6

(* What the loop knows of the queue stays as it was.                          *)
LEMMA SameCount ==
  ASSUME HealthInv, UNCHANGED row, health'.queue = health.queue,
         loop'.nextTelemetryAt = loop.nextTelemetryAt
  PROVE  UnknownIsCounted' /\ DeadAreCounted'
  BY DEF HealthInv, UnknownIsCounted, DeadAreCounted, Counted, DeadAsOf, pending

(* A count finds all that happened before its sweep began.                    *)
LEMMA CountInd ==
  ASSUME HealthInv, countSucceeds
  PROVE  HealthInv'
  <1> USE HealthParameters DEF HealthInv
  <1> DEFINE q == readOutboxTelemetry
  <1>1. /\ loop.step = "observing" /\ now - loop.started <= MaxSweep
        /\ UNCHANGED <<now, row>>
        /\ health' = [health EXCEPT !.succeededAt = now, !.queue = q]
        /\ \E delay \in {0, PollInterval} :
             loop' = [step |-> IF health.stopping THEN "returned" ELSE "waiting",
                      due |-> now + delay, started |-> 0, counts |-> FALSE,
                      nextTelemetryAt |-> loop.started + TelemetryInterval, observedAt |-> 0]
    BY DEF countSucceeds, succeed, wait, nextTelemetryAt
  <1>2. /\ now \in Nat /\ now <= Horizon /\ loop.started \in Nat /\ loop.started <= now
        /\ loop.observedAt \in Nat /\ loop.started <= loop.observedAt
        /\ \A e \in Event : row[e].created \in Nat /\ row[e].deadLetteredAt \in Nat
    BY <1>1 DEF HealthTypeOK, LoopInv, Time, Row
  <1> DEFINE U == {e \in Unsupported : pending(e)}
             D == {e \in Event \ Unsupported : row[e].state = "dead"}
  <1>3. IsFiniteSet(D) /\ Cardinality(D) \in 0..Cardinality(Event)
    <2>1. D \in SUBSET Event
      OBVIOUS
    <2> HIDE DEF D
    <2>2. IsFiniteSet(D) /\ Cardinality(D) <= Cardinality(Event)
      BY <2>1, FS_Subset
    <2>3. Cardinality(D) \in Nat
      BY <2>2, FS_CardinalityType
    <2> QED BY <2>2, <2>3
  <1>4. /\ ageMs(U) \in Age /\ ageMs({e \in Event : ready(e)}) \in Age
        /\ \A e \in U : ageMs(U) # NoAge /\ row[e].created + ageMs(U) >= loop.observedAt
    <2>1. U \in SUBSET Event /\ {e \in Event : ready(e)} \in SUBSET Event
      OBVIOUS
    <2> HIDE DEF U
    <2> QED BY <2>1, AgeOfTheOldest
  <1>5. /\ q.at = loop.observedAt /\ q.unsupported = ageMs(U) /\ q.dead = Cardinality(D)
        /\ q = [at |-> q.at, ready |-> ageMs({e \in Event : ready(e)}),
                unsupported |-> q.unsupported, dead |-> q.dead]
    BY DEF readOutboxTelemetry, deadLettered
  <1> HIDE DEF U, D, q
  <1>6. q \in Queue
    <2>1. loop.observedAt \in Time
      BY DEF HealthTypeOK
    <2> QED BY <1>3, <1>4, <1>5, <2>1 DEF Queue
  <1>7. HealthTypeOK'
    <2>1. PICK delay \in {0, PollInterval} :
             loop' = [step |-> IF health.stopping THEN "returned" ELSE "waiting",
                      due |-> now + delay, started |-> 0, counts |-> FALSE,
                      nextTelemetryAt |-> loop.started + TelemetryInterval, observedAt |-> 0]
      BY <1>1
    <2>2. now + delay \in Time /\ loop.started + TelemetryInterval \in Time /\ now \in Time
          /\ 0 \in Time
      BY <1>2 DEF Time
    <2>3. loop' \in [step : {"waiting", "sweeping", "observing", "returned"}, due : Time,
                     started : Time, counts : BOOLEAN, nextTelemetryAt : Time,
                     observedAt : Time]
      BY <2>1, <2>2
    <2>4. health' \in [stopping : BOOLEAN, succeededAt : Time \cup {Never},
                       failedAt : Time \cup {Never}, queue : Queue]
      BY <1>1, <1>6, <2>2 DEF HealthTypeOK
    <2> QED BY <1>1, <2>3, <2>4 DEF HealthTypeOK
  <1>8. LoopInv'
    BY <1>1, <1>2 DEF LoopInv
  <1>9. /\ loop'.nextTelemetryAt = loop.started + TelemetryInterval /\ now' = now
        /\ row' = row /\ health'.succeededAt = now /\ health'.queue = q
    BY <1>1 DEF HealthTypeOK
  <1>10. SweptInTime'
    BY <1>1, <1>2, <1>9 DEF SweptInTime, Never
  <1>11. UnknownIsCounted'
    <2>1. ASSUME NEW e \in Unsupported, (pending(e))'
          PROVE  e \in U
      BY <1>9, <2>1 DEF U, pending
    <2> QED BY <1>4, <1>5, <1>9, <2>1 DEF UnknownIsCounted
  <1>12. DeadAreCounted'
    <2>1. DeadAsOf(Counted)' \subseteq D
      BY <1>9 DEF DeadAsOf, D
    <2>2. Cardinality(DeadAsOf(Counted)') <= Cardinality(D)
      BY <1>3, <2>1, FS_Subset
    <2> QED BY <1>5, <1>9, <2>2 DEF DeadAreCounted
  <1> QED BY <1>7, <1>8, <1>10, <1>11, <1>12

LEMMA LoopInd ==
  ASSUME HealthInv, startSweep \/ leave \/ sweepSucceeds \/ observe \/ sweepFails \/ stop
  PROVE  HealthInv'
  <1> USE HealthParameters DEF HealthInv
  <1>1. /\ now \in Nat /\ now <= Horizon /\ loop.started \in Nat /\ loop.started <= now
        /\ loop.observedAt \in Nat /\ loop.observedAt <= now
        /\ loop.nextTelemetryAt \in Nat /\ loop.nextTelemetryAt <= now + TelemetryInterval
    BY DEF HealthTypeOK, LoopInv, Time
  <1>2. /\ HealthTypeOK' /\ LoopInv' /\ SweptInTime'
        /\ UNCHANGED row /\ health'.queue = health.queue
        /\ loop'.nextTelemetryAt = loop.nextTelemetryAt
    <2>1. CASE startSweep
      <3> DEFINE counted == now >= loop.nextTelemetryAt
      <3>0. /\ loop' = [loop EXCEPT !.step = "sweeping", !.started = now, !.counts = counted]
            /\ counted \in BOOLEAN /\ (~counted => now < loop.nextTelemetryAt)
            /\ UNCHANGED <<now, row, health>> /\ now \in Time
        BY <1>1, <2>1 DEF startSweep, Time
      <3> HIDE DEF counted
      <3>1. HealthTypeOK'
        BY <3>0 DEF HealthTypeOK
      <3>2. LoopInv'
        BY <1>1, <3>0 DEF HealthTypeOK, LoopInv
      <3> QED BY <2>1, <3>1, <3>2 DEF startSweep, HealthTypeOK, SweptInTime
    <2>2. CASE leave
      <3>1. HealthTypeOK'
        BY <1>1, <2>2 DEF leave, HealthTypeOK
      <3>2. LoopInv'
        BY <1>1, <2>2 DEF leave, HealthTypeOK, LoopInv
      <3> QED BY <2>2, <3>1, <3>2 DEF leave, HealthTypeOK, SweptInTime
    <2>3. CASE sweepSucceeds
      <3>1. HealthTypeOK'
        <4>1. PICK delay \in {0, PollInterval} :
                 loop' = [step |-> IF health.stopping THEN "returned" ELSE "waiting",
                          due |-> now + delay, started |-> 0, counts |-> FALSE,
                          nextTelemetryAt |-> loop.nextTelemetryAt, observedAt |-> 0]
          BY <2>3 DEF sweepSucceeds, wait
        <4>2. now + delay \in Time /\ now \in Time /\ 0 \in Time
              /\ loop.nextTelemetryAt \in Time
          BY <1>1 DEF Time, HealthTypeOK
        <4>3. loop' \in [step : {"waiting", "sweeping", "observing", "returned"}, due : Time,
                         started : Time, counts : BOOLEAN, nextTelemetryAt : Time,
                         observedAt : Time]
          BY <4>1, <4>2
        <4> QED BY <2>3, <4>2, <4>3 DEF sweepSucceeds, succeed, HealthTypeOK
      <3>2. LoopInv'
        BY <1>1, <2>3 DEF sweepSucceeds, wait, LoopInv, succeed
      <3>3. SweptInTime'
        BY <1>1, <2>3 DEF sweepSucceeds, wait, succeed, HealthTypeOK, LoopInv, SweptInTime, Never
      <3> QED BY <2>3, <3>1, <3>2, <3>3 DEF sweepSucceeds, wait, succeed, HealthTypeOK
    <2>4. CASE observe
      <3>1. HealthTypeOK'
        <4>1. now \in Time
          BY <1>1 DEF Time
        <4> QED BY <2>4, <4>1 DEF observe, HealthTypeOK
      <3>2. LoopInv'
        BY <1>1, <2>4 DEF observe, HealthTypeOK, LoopInv
      <3> QED BY <2>4, <3>1, <3>2 DEF observe, HealthTypeOK, SweptInTime
    <2>5. CASE sweepFails
      <3>1. HealthTypeOK'
        BY <1>1, <2>5 DEF sweepFails, wait, HealthTypeOK, Time
      <3>2. LoopInv'
        BY <1>1, <2>5 DEF sweepFails, wait, LoopInv
      <3> QED BY <2>5, <3>1, <3>2 DEF sweepFails, wait, HealthTypeOK, SweptInTime
    <2>6. CASE stop
      <3>1. HealthTypeOK'
        BY <1>1, <2>6 DEF stop, HealthTypeOK
      <3>2. LoopInv'
        BY <1>1, <2>6 DEF stop, HealthTypeOK, LoopInv
      <3> QED BY <2>6, <3>1, <3>2 DEF stop, HealthTypeOK, SweptInTime
    <2> QED BY <2>1, <2>2, <2>3, <2>4, <2>5, <2>6
  <1> QED BY <1>2, SameCount

LEMMA HealthTickInd ==
  ASSUME HealthInv, tick
  PROVE  HealthInv'
  <1> USE HealthParameters DEF HealthInv, tick
  <1>1. HealthTypeOK'
    BY DEF HealthTypeOK
  <1>2. LoopInv'
    BY DEF HealthTypeOK, LoopInv, Time
  <1>3. SweptInTime'
    BY DEF SweptInTime
  <1> QED BY <1>1, <1>2, <1>3, SameCount

LEMMA HealthStepInd == HealthInv /\ [HealthNext]_healthVars => HealthInv'
  <1> SUFFICES ASSUME HealthInv, [HealthNext]_healthVars PROVE HealthInv'
    OBVIOUS
  <1>1. CASE startSweep \/ leave \/ sweepSucceeds \/ observe \/ sweepFails \/ stop
    BY <1>1, LoopInd
  <1>2. CASE countSucceeds
    BY <1>2, CountInd
  <1>3. CASE tick
    BY <1>3, HealthTickInd
  <1>4. CASE \E e \in Event : insert(e) \/ claim(e) \/ settle(e) \/ release(e)
    BY <1>4, QueueInd
  <1>5. CASE UNCHANGED healthVars
    <2>1. HealthTypeOK' /\ LoopInv' /\ SweptInTime'
      BY <1>5 DEF HealthInv, healthVars, HealthTypeOK, LoopInv, SweptInTime
    <2>2. UnknownIsCounted' /\ DeadAreCounted'
      BY <1>5, SameCount DEF healthVars
    <2> QED BY <2>1, <2>2 DEF HealthInv
  <1> QED BY <1>1, <1>2, <1>3, <1>4, <1>5 DEF HealthNext

(* A ready worker's last sweep is fresh, so that its next count is not long   *)
(* overdue.                                                                   *)
LEMMA ReadyIsRecent ==
  ASSUME HealthInv, isReady
  PROVE  /\ now \in Nat /\ Counted \in Int /\ now < Counted + MaxUnnoticed
         /\ MaxUnnoticed \in Nat /\ health.queue # NoQueue
  <1>1. health.queue # NoQueue /\ health.succeededAt # Never
        /\ now - health.succeededAt <= MaxStaleness
    BY DEF isReady, deadLettersWithinLimit, fresh
  <1>2. health.succeededAt \in Nat /\ now \in Nat /\ loop.nextTelemetryAt \in Nat
    BY <1>1, HealthParameters DEF HealthInv, HealthTypeOK, Time
  <1>3. health.succeededAt < loop.nextTelemetryAt + MaxSweep
    BY <1>1 DEF HealthInv, SweptInTime
  <1> QED BY <1>1, <1>2, <1>3, HealthParameters DEF Counted, MaxUnnoticed

LEMMA UnknownNoticedInd == HealthInv => UnknownIsNoticed
  <1> SUFFICES ASSUME HealthInv, isReady, NEW e \in Unsupported, pending(e)
               PROVE  now - row[e].created < Max({MaxUnsupportedAge, MaxUnnoticed})
    BY DEF UnknownIsNoticed
  <1>1. row[e].created \in Nat
    BY HealthParameters DEF HealthInv, HealthTypeOK, Row, Time
  <1>2. now - row[e].created < MaxUnsupportedAge \/ now - row[e].created < MaxUnnoticed
    <2>1. CASE row[e].created >= Counted
      BY <1>1, <2>1, ReadyIsRecent
    <2>2. CASE /\ health.queue.unsupported # NoAge
               /\ row[e].created + health.queue.unsupported >= health.queue.at
      <3>1. health.queue.unsupported + (now - health.queue.at) < MaxUnsupportedAge
        BY <2>2 DEF isReady, unsupportedBacklogWithinGrace, within, observationAge
      <3>2. health.queue.unsupported \in Nat /\ health.queue.at \in Int /\ now \in Nat
        BY <2>2, HealthParameters
        DEF HealthInv, HealthTypeOK, Queue, Age, Time, NoAge, Never
      <3> QED BY <1>1, <2>2, <3>1, <3>2, HealthParameters
    <2>3. health.queue # NoQueue
      BY ReadyIsRecent
    <2> QED BY <2>1, <2>2, <2>3 DEF HealthInv, UnknownIsCounted
  <1>3. /\ MaxUnsupportedAge <= Max({MaxUnsupportedAge, MaxUnnoticed})
        /\ MaxUnnoticed <= Max({MaxUnsupportedAge, MaxUnnoticed})
        /\ Max({MaxUnsupportedAge, MaxUnnoticed}) \in Nat
    <2> DEFINE S == {MaxUnsupportedAge, MaxUnnoticed}
    <2>1. MaxUnnoticed \in Nat /\ MaxUnsupportedAge \in Nat
      BY ReadyIsRecent, HealthParameters
    <2>2. S \in SUBSET Nat /\ MaxUnsupportedAge \in S /\ MaxUnnoticed \in S
          /\ \A x \in S : x <= MaxUnnoticed + MaxUnsupportedAge
          /\ MaxUnnoticed + MaxUnsupportedAge \in Nat
      BY <2>1
    <2> HIDE DEF S
    <2>3. Max(S) \in S /\ \A x \in S : x <= Max(S)
      BY <2>2, MaxInd
    <2> QED BY <2>2, <2>3 DEF S
  <1>4. now \in Nat /\ MaxUnnoticed \in Nat /\ MaxUnsupportedAge \in Nat
    BY ReadyIsRecent, HealthParameters
  <1> QED BY <1>1, <1>2, <1>3, <1>4

LEMMA DeadNoticedInd == HealthInv => DeadLettersAreNoticed
  <1> DEFINE D == {e \in Event \ Unsupported : row[e].state = "dead"
                                               /\ now - row[e].deadLetteredAt >= MaxUnnoticed}
  <1> SUFFICES ASSUME HealthInv, isReady
               PROVE  Cardinality(D) <= MaxDeadLetters
    BY DEF DeadLettersAreNoticed
  <1>1. D \subseteq DeadAsOf(Counted)
    <2>1. \A e \in Event : row[e].deadLetteredAt \in Nat
      BY HealthParameters DEF HealthInv, HealthTypeOK, Row, Time
    <2> QED BY <2>1, ReadyIsRecent DEF DeadAsOf
  <1> HIDE DEF D
  <1>2. IsFiniteSet(D) /\ Cardinality(D) <= Cardinality(DeadAsOf(Counted))
    BY <1>1, DeadIsFinite, FS_Subset
  <1>3. Cardinality(DeadAsOf(Counted)) <= health.queue.dead
    BY ReadyIsRecent DEF HealthInv, DeadAreCounted
  <1>4. health.queue.dead <= MaxDeadLetters
    BY DEF isReady, deadLettersWithinLimit
  <1>5. Cardinality(D) \in Nat /\ Cardinality(DeadAsOf(Counted)) \in Nat
        /\ health.queue.dead \in Nat
    <2>1. health.queue.dead \in 0..Cardinality(Event)
      BY DEF HealthInv, HealthTypeOK, Queue
    <2> QED BY <1>2, <2>1, DeadIsFinite, FS_CardinalityType, HealthParameters
  <1> QED BY <1>2, <1>3, <1>4, <1>5, HealthParameters

(* What a worker does not know of its queue is younger than its last count,   *)
(* in every state of the loop (runWorkerLoop, createWorkerHealthState).       *)
THEOREM HealthInductive == HealthSpec => []HealthInv
  <1> QED BY HealthInitInd, HealthStepInd, PTL DEF HealthSpec

(* A worker that answers ready hides neither an event that no handler owns    *)
(* nor a dead letter for longer than its thresholds and one count allow.      *)
THEOREM ReadyIsHonest == HealthSpec => []ReadinessIsHonest
  <1>1. HealthInv => ReadinessIsHonest
    BY UnknownNoticedInd, DeadNoticedInd DEF HealthInv, ReadinessIsHonest
  <1> QED BY HealthInductive, <1>1, PTL

-----------------------------------------------------------------------------
(* Retention policies and the cancellation of a request, for every number of  *)
(* people, commands, settings and versions: a page shows no version that is   *)
(* yet to come, and a command expects what its sender's page showed, so that  *)
(* an expectation that is still true was formed on what is in force.          *)

(* A page shows what is, or what was before. *)
PagesAreBehind ==
    \A p \in Person : page[p].policy <= policy.version

(* The request has a version for each of its states. *)
VersionOfRequest ==
    privacyRequest.version = IF privacyRequest.status = "cancelled" THEN 1 ELSE 0

(* A change expects a version that its sender's page has shown, and was        *)
(* checked at it; a cancellation was checked before there was any.            *)
CommandsWereFormed ==
    \A c \in Command : job[c] # Unsent =>
        /\ job[c].kind = "change" => job[c].expected \in 1..page[job[c].by].policy
        /\ job[c].kind = "cancel" /\ job[c].step = "checked" =>
              job[c].expected = 0 /\ privacyRequest.status # "none"

PrivacyInv ==
    PrivacyTypeOK /\ CancelledOnce /\ PagesAreBehind /\ VersionOfRequest /\ CommandsWereFormed

LEMMA PrivacyParameters ==
    Requester \in Person /\ Default \in Setting /\ MaxVersion \in Nat /\ MaxVersion > 0
  BY PrivacyAssumption

LEMMA PrivacyInitInv == PrivacyInit => PrivacyInv
  <1> SUFFICES ASSUME PrivacyInit
               PROVE  PrivacyInv
    OBVIOUS
  <1>1. PrivacyTypeOK
    BY PrivacyParameters DEF PrivacyInit, PrivacyTypeOK, Policy, FiledRequest
  <1>2. CancelledOnce /\ PagesAreBehind /\ VersionOfRequest
    BY DEF PrivacyInit, CancelledOnce, PagesAreBehind, VersionOfRequest
  <1>3. CommandsWereFormed
    BY DEF PrivacyInit, CommandsWereFormed
  <1> QED BY <1>1, <1>2, <1>3 DEF PrivacyInv

(* A command that was sent is one.                                            *)
LEMMA SentCommand ==
  ASSUME PrivacyTypeOK, NEW c \in Command, job[c] # Unsent \/ job[c].step # "unsent"
  PROVE  job[c] \in Job /\ job[c] # Unsent
  <1>1. job[c] \in {Unsent} \cup Job
    BY DEF PrivacyTypeOK
  <1>2. Unsent.step = "unsent"
    BY DEF Unsent
  <1> QED BY <1>1, <1>2

(* A step of one command that changes nothing else.                           *)
LEMMA CommandStep ==
  ASSUME PrivacyInv, NEW c \in Command, NEW u \in Job,
         UNCHANGED <<policy, privacyRequest, page, active, cancellations>>,
         job' = [job EXCEPT ![c] = u],
         u.kind = "change" => u.expected \in 1..page[u.by].policy,
         u.kind = "cancel" /\ u.step = "checked" =>
            u.expected = 0 /\ privacyRequest.status # "none"
  PROVE  PrivacyInv'
  <1>1. PrivacyTypeOK'
    BY DEF PrivacyInv, PrivacyTypeOK
  <1>2. CancelledOnce' /\ PagesAreBehind' /\ VersionOfRequest'
    BY DEF PrivacyInv, CancelledOnce, PagesAreBehind, VersionOfRequest
  <1>3. CommandsWereFormed'
    <2> SUFFICES ASSUME NEW d \in Command, job'[d] # Unsent
                 PROVE  /\ job'[d].kind = "change" => job'[d].expected \in 1..page'[job'[d].by].policy
                        /\ job'[d].kind = "cancel" /\ job'[d].step = "checked" =>
                              job'[d].expected = 0 /\ privacyRequest'.status # "none"
      BY DEF CommandsWereFormed
    <2>1. CASE d = c
      <3>1. job'[d] = u
        BY <2>1 DEF PrivacyInv, PrivacyTypeOK
      <3> QED BY <3>1
    <2>2. CASE d # c
      <3>1. job'[d] = job[d]
        BY <2>2 DEF PrivacyInv, PrivacyTypeOK
      <3> QED BY <3>1 DEF PrivacyInv, CommandsWereFormed
    <2> QED BY <2>1, <2>2
  <1> QED BY <1>1, <1>2, <1>3 DEF PrivacyInv

LEMMA ListPoliciesInd ==
  ASSUME PrivacyInv, NEW p \in Person, listRetentionPolicies(p)
  PROVE  PrivacyInv'
  <1>1. /\ PrivacyTypeOK /\ UNCHANGED <<policy, privacyRequest, job, active, cancellations>>
        /\ page' = [page EXCEPT ![p] = [policy |-> policy.version, request |-> privacyRequest.version]]
    BY DEF PrivacyInv, listRetentionPolicies
  <1>2. /\ page'[p] = [policy |-> policy.version, request |-> privacyRequest.version]
        /\ \A q \in Person \ {p} : page'[q] = page[q]
        /\ policy.version \in 1..MaxVersion /\ privacyRequest.version \in 0..1
    BY <1>1 DEF PrivacyTypeOK, Policy, FiledRequest
  <1>3. PrivacyTypeOK'
    <2>1. [policy |-> policy.version, request |-> privacyRequest.version]
             \in [policy : 0..MaxVersion, request : 0..1]
      BY <1>2, PrivacyParameters
    <2> QED BY <1>1, <2>1 DEF PrivacyTypeOK
  <1>4. \A q \in Person : page[q].policy \in 0..MaxVersion /\ page[q].policy <= page'[q].policy
                          /\ page'[q].policy \in 0..MaxVersion /\ page'[q].policy <= policy.version
    <2> TAKE q \in Person
    <2>1. page[q].policy \in 0..MaxVersion /\ page[q].policy <= policy.version
      BY <1>1 DEF PrivacyTypeOK, PrivacyInv, PagesAreBehind
    <2>2. CASE q = p
      BY <1>2, <2>1, <2>2, PrivacyParameters
    <2>3. CASE q # p
      BY <1>2, <2>1, <2>3, PrivacyParameters
    <2> QED BY <2>2, <2>3
  <1>5. CancelledOnce' /\ PagesAreBehind' /\ VersionOfRequest'
    BY <1>1, <1>4 DEF PrivacyInv, CancelledOnce, PagesAreBehind, VersionOfRequest
  <1>6. CommandsWereFormed'
    <2> SUFFICES ASSUME NEW d \in Command, job[d] # Unsent
                 PROVE  /\ job[d].kind = "change" => job[d].expected \in 1..page'[job[d].by].policy
                        /\ job[d].kind = "cancel" /\ job[d].step = "checked" =>
                              job[d].expected = 0 /\ privacyRequest.status # "none"
      BY <1>1 DEF CommandsWereFormed
    <2>1. job[d] \in Job
      BY <1>1, SentCommand
    <2>2. /\ job[d].kind = "change" => job[d].expected \in 1..page[job[d].by].policy
          /\ job[d].kind = "cancel" /\ job[d].step = "checked" =>
                job[d].expected = 0 /\ privacyRequest.status # "none"
      BY DEF PrivacyInv, CommandsWereFormed
    <2>3. job[d].by \in Person
      BY <2>1 DEF Job
    <2> QED BY <1>4, <2>2, <2>3
  <1> QED BY <1>3, <1>5, <1>6 DEF PrivacyInv

LEMMA LeaveInd ==
  ASSUME PrivacyInv, NEW p \in Person, Leave(p)
  PROVE  PrivacyInv'
  <1>1. UNCHANGED <<policy, privacyRequest, page, job, cancellations>> /\ active' \subseteq active
    BY DEF Leave
  <1> QED BY <1>1 DEF PrivacyInv, PrivacyTypeOK, CancelledOnce, PagesAreBehind, VersionOfRequest,
                  CommandsWereFormed

LEMMA SendCommandInd ==
  ASSUME PrivacyInv, NEW c \in Command, NEW p \in Person, NEW kind \in {"change", "submit", "cancel"},
         NEW setting \in Setting, send(c, p, kind, setting)
  PROVE  PrivacyInv'
  <1> DEFINE u == [step |-> "sent", by |-> p, kind |-> kind, setting |-> setting, current |-> 0,
                   expected |-> IF kind = "cancel" THEN page[p].request ELSE page[p].policy]
  <1>1. /\ page[p].policy # 0 /\ job' = [job EXCEPT ![c] = u]
        /\ UNCHANGED <<policy, privacyRequest, page, active, cancellations>>
    BY DEF send
  <1>2. page[p].policy \in 0..MaxVersion /\ page[p].request \in 0..1
    BY DEF PrivacyInv, PrivacyTypeOK
  <1>3. u \in Job
    BY <1>2, PrivacyParameters DEF Job
  <1>4. u.kind = "change" => u.expected \in 1..page[u.by].policy
    BY <1>1, <1>2, PrivacyParameters
  <1>5. u.step = "sent"
    OBVIOUS
  <1> HIDE DEF u
  <1> QED BY <1>1, <1>3, <1>4, <1>5, CommandStep

(* What a check, a refusal, a conflict or an abort makes of a command.        *)
LEMMA JobGoesOn ==
  ASSUME PrivacyInv, NEW c \in Command, job[c] # Unsent,
         NEW step \in {"sent", "checked", "refused", "written"}, NEW current \in 0..MaxVersion,
         UNCHANGED <<policy, privacyRequest, page, active, cancellations>>,
         job' = [job EXCEPT ![c] = [job[c] EXCEPT !.step = step, !.current = current]],
         job[c].kind = "cancel" /\ step = "checked" =>
            job[c].expected = 0 /\ privacyRequest.status # "none"
  PROVE  PrivacyInv'
  <1> DEFINE u == [job[c] EXCEPT !.step = step, !.current = current]
  <1>1. job[c] \in Job
    BY SentCommand DEF PrivacyInv
  <1>2. u \in Job /\ u.kind = job[c].kind /\ u.by = job[c].by /\ u.expected = job[c].expected /\ u.step = step
    BY <1>1 DEF Job
  <1>3. u.kind = "change" => u.expected \in 1..page[u.by].policy
    BY <1>2 DEF PrivacyInv, CommandsWereFormed
  <1>4. job' = [job EXCEPT ![c] = u]
    OBVIOUS
  <1>5. u \in Job /\ (u.kind = "cancel" /\ u.step = "checked" =>
                        u.expected = 0 /\ privacyRequest.status # "none")
    BY <1>2
  <1> HIDE DEF u
  <1> QED BY <1>3, <1>4, <1>5, CommandStep

LEMMA CheckCommandInd ==
  ASSUME PrivacyInv, NEW c \in Command, check(c)
  PROVE  PrivacyInv'
  <1>1. job[c] \in Job /\ job[c] # Unsent
    BY SentCommand DEF check, PrivacyInv
  <1>2. policy.version \in 0..MaxVersion /\ privacyRequest.version \in 0..1 /\ NoPolicyRow \in 0..MaxVersion
        /\ 1 \in 0..MaxVersion
    BY PrivacyParameters DEF PrivacyInv, PrivacyTypeOK, Policy, FiledRequest, NoPolicyRow
  <1>3. UNCHANGED <<policy, privacyRequest, page, active, cancellations>> /\ PrivacyTypeOK
    BY DEF check, PrivacyInv
  <1>4. PICK current \in 0..MaxVersion :
           job' = [job EXCEPT ![c].step = "checked", ![c].current = current]
    <2> DEFINE read == IF policy.row THEN policy.version ELSE NoPolicyRow
    <2>1. \/ job' = [job EXCEPT ![c].step = "checked", ![c].current = read]
          \/ job' = [job EXCEPT ![c].step = "checked", ![c].current = policy.version]
          \/ job' = [job EXCEPT ![c].step = "checked", ![c].current = privacyRequest.version]
      BY DEF check
    <2>2. read \in 0..MaxVersion /\ privacyRequest.version \in 0..MaxVersion
      BY <1>2, PrivacyParameters
    <2> HIDE DEF read
    <2> QED BY <1>2, <2>1, <2>2
  <1>5. job' = [job EXCEPT ![c] = [job[c] EXCEPT !.step = "checked", !.current = current]]
    BY <1>1, <1>3, <1>4 DEF PrivacyTypeOK
  <1>6. job[c].kind = "cancel" => job[c].expected = 0 /\ privacyRequest.status # "none"
    <2>1. job[c].kind = "cancel" => mayCancel(c)
      BY DEF check, mayChange, maySubmit
    <2> QED BY <2>1 DEF mayCancel, PrivacyInv, VersionOfRequest
  <1> QED BY <1>1, <1>3, <1>5, <1>6, JobGoesOn

LEMMA RefuseCommandInd ==
  ASSUME PrivacyInv, NEW c \in Command, refuse(c) \/ conflict(c) \/ AbortPrivacy(c)
  PROVE  PrivacyInv'
  <1>1. job[c] \in Job /\ job[c] # Unsent /\ PrivacyTypeOK
    BY SentCommand DEF refuse, conflict, AbortPrivacy, PrivacyInv
  <1>2. UNCHANGED <<policy, privacyRequest, page, active, cancellations>>
    BY DEF refuse, conflict, AbortPrivacy
  <1>3. job[c].current \in 0..MaxVersion /\ 0 \in 0..MaxVersion
    BY <1>1, PrivacyParameters DEF Job
  <1>4. \/ job' = [job EXCEPT ![c].step = "refused"]
        \/ job' = [job EXCEPT ![c].step = "sent", ![c].current = 0]
    BY DEF refuse, conflict, AbortPrivacy
  <1>5. CASE job' = [job EXCEPT ![c].step = "refused"]
    <2>1. job' = [job EXCEPT ![c] = [job[c] EXCEPT !.step = "refused", !.current = job[c].current]]
      BY <1>1, <1>5 DEF PrivacyTypeOK, Job
    <2> QED BY <1>1, <1>2, <1>3, <2>1, JobGoesOn
  <1>6. CASE job' = [job EXCEPT ![c].step = "sent", ![c].current = 0]
    <2>1. job' = [job EXCEPT ![c] = [job[c] EXCEPT !.step = "sent", !.current = 0]]
      BY <1>1, <1>6 DEF PrivacyTypeOK
    <2> QED BY <1>1, <1>2, <1>3, <2>1, JobGoesOn
  <1> QED BY <1>4, <1>5, <1>6

(* Whoever changes a policy has the one in force on the page.                 *)
LEMMA WrittenPolicy ==
  ASSUME PrivacyInv, NEW c \in Command, updateRetentionPolicy(c)
  PROVE  /\ job[c] \in Job /\ job[c] # Unsent /\ job[c].kind = "change"
         /\ page[job[c].by].policy = policy.version /\ job[c].expected = policy.version
         /\ policy' = [row |-> TRUE, version |-> policy.version + 1, setting |-> job[c].setting]
         /\ policy.version \in 1..MaxVersion /\ policy.version < MaxVersion
  <1>1. PrivacyTypeOK /\ job[c] \in Job /\ job[c] # Unsent
    BY SentCommand DEF updateRetentionPolicy, PrivacyInv
  <1>2. /\ job[c].kind = "change" /\ upserts(c) /\ job[c].expected < MaxVersion
        /\ policy' = [row |-> TRUE, version |-> job[c].expected + 1, setting |-> job[c].setting]
    BY DEF updateRetentionPolicy
  <1>3. job[c].expected \in 1..page[job[c].by].policy /\ job[c].by \in Person
    BY <1>1, <1>2 DEF PrivacyInv, CommandsWereFormed, Job
  <1>4. page[job[c].by].policy \in 0..MaxVersion /\ page[job[c].by].policy <= policy.version
    BY <1>1, <1>3 DEF PrivacyInv, PrivacyTypeOK, PagesAreBehind
  <1>5. policy.version \in 1..MaxVersion /\ (policy.row <=> policy.version > 1) /\ policy.row \in BOOLEAN
    BY <1>1 DEF PrivacyTypeOK, Policy
  <1>6. job[c].expected = policy.version
    <2>1. CASE policy.row
      BY <1>2, <2>1 DEF upserts
    <2>2. CASE ~policy.row
      <3>1. policy.version = 1
        BY <1>5, <2>2, PrivacyParameters
      <3> QED BY <1>3, <1>4, <3>1, PrivacyParameters
    <2> QED BY <2>1, <2>2
  <1>7. page[job[c].by].policy = policy.version
    BY <1>3, <1>4, <1>5, <1>6, PrivacyParameters
  <1> QED BY <1>1, <1>2, <1>5, <1>6, <1>7

(* A command that was written is one still, and no command was formed on      *)
(* anything that its step has taken back.                                     *)
LEMMA CommandWritten ==
  ASSUME PrivacyInv, NEW c \in Command, job[c] # Unsent, UNCHANGED page,
         job' = [job EXCEPT ![c].step = "written"],
         privacyRequest.status # "none" => privacyRequest'.status # "none"
  PROVE  CommandsWereFormed' /\ job' \in [Command -> {Unsent} \cup Job]
  <1>1. PrivacyTypeOK /\ job[c] \in Job
    BY SentCommand DEF PrivacyInv
  <1>2. /\ job'[c] \in Job /\ job'[c].kind = job[c].kind /\ job'[c].by = job[c].by
        /\ job'[c].expected = job[c].expected /\ job'[c].step = "written"
        /\ \A d \in Command \ {c} : job'[d] = job[d]
    BY <1>1 DEF PrivacyTypeOK, Job
  <1>3. job' \in [Command -> {Unsent} \cup Job]
    BY <1>1, <1>2 DEF PrivacyTypeOK
  <1>4. ASSUME NEW d \in Command, job'[d] # Unsent
        PROVE  /\ job'[d].kind = "change" => job'[d].expected \in 1..page'[job'[d].by].policy
               /\ job'[d].kind = "cancel" /\ job'[d].step = "checked" =>
                     job'[d].expected = 0 /\ privacyRequest'.status # "none"
    <2>1. CASE d = c
      BY <1>2, <2>1 DEF PrivacyInv, CommandsWereFormed
    <2>2. CASE d # c
      <3>1. job'[d] = job[d]
        BY <1>2, <2>2
      <3> QED BY <1>4, <3>1 DEF PrivacyInv, CommandsWereFormed
    <2> QED BY <2>1, <2>2
  <1> QED BY <1>3, <1>4 DEF CommandsWereFormed

LEMMA UpdatePolicyInd ==
  ASSUME PrivacyInv, NEW c \in Command, updateRetentionPolicy(c)
  PROVE  PrivacyInv'
  <1>1. /\ PrivacyTypeOK /\ UNCHANGED <<privacyRequest, page, active, cancellations>>
        /\ job' = [job EXCEPT ![c].step = "written"]
    BY DEF PrivacyInv, updateRetentionPolicy
  <1>2. /\ job[c] \in Job /\ job[c] # Unsent
        /\ policy' = [row |-> TRUE, version |-> policy.version + 1, setting |-> job[c].setting]
        /\ policy.version \in 1..MaxVersion /\ policy.version < MaxVersion
    BY WrittenPolicy
  <1>3. CommandsWereFormed' /\ job' \in [Command -> {Unsent} \cup Job]
    BY <1>1, <1>2, CommandWritten
  <1>4. policy' \in Policy /\ policy'.row /\ policy'.version > 1 /\ policy.version < policy'.version
    BY <1>2, PrivacyParameters DEF Job, Policy
  <1>5. PrivacyTypeOK'
    BY <1>1, <1>3, <1>4 DEF PrivacyTypeOK
  <1>6. PagesAreBehind'
    <2> SUFFICES ASSUME NEW p \in Person
                 PROVE  page[p].policy <= policy'.version
      BY <1>1 DEF PagesAreBehind
    <2>1. page[p].policy \in 0..MaxVersion /\ page[p].policy <= policy.version
      BY <1>1 DEF PrivacyTypeOK, PrivacyInv, PagesAreBehind
    <2> QED BY <1>2, <2>1, PrivacyParameters
  <1>7. CancelledOnce' /\ VersionOfRequest'
    BY <1>1 DEF PrivacyInv, CancelledOnce, VersionOfRequest
  <1> QED BY <1>3, <1>5, <1>6, <1>7 DEF PrivacyInv

LEMMA CreateRequestInd ==
  ASSUME PrivacyInv, NEW c \in Command, createRequest(c)
  PROVE  PrivacyInv'
  <1>1. /\ PrivacyTypeOK /\ UNCHANGED <<policy, page, active, cancellations>>
        /\ privacyRequest.status = "none"
        /\ privacyRequest' = [status |-> "submitted", version |-> 0, recorded |-> job[c].current]
        /\ job' = [job EXCEPT ![c].step = "written"]
    BY DEF PrivacyInv, createRequest
  <1>2. job[c] \in Job /\ job[c] # Unsent
    BY SentCommand DEF createRequest, PrivacyInv
  <1>3. CommandsWereFormed' /\ job' \in [Command -> {Unsent} \cup Job]
    BY <1>1, <1>2, CommandWritten
  <1>4. privacyRequest' \in FiledRequest
    BY <1>1, <1>2 DEF FiledRequest, Job
  <1>5. PrivacyTypeOK'
    BY <1>1, <1>3, <1>4 DEF PrivacyTypeOK
  <1>6. CancelledOnce' /\ VersionOfRequest' /\ PagesAreBehind'
    BY <1>1 DEF PrivacyInv, CancelledOnce, VersionOfRequest, PagesAreBehind
  <1> QED BY <1>3, <1>5, <1>6 DEF PrivacyInv

LEMMA CancelRequestInd ==
  ASSUME PrivacyInv, NEW c \in Command, cancelRequest(c)
  PROVE  PrivacyInv'
  <1>1. /\ PrivacyTypeOK /\ UNCHANGED <<policy, page, active>>
        /\ job[c].step = "checked" /\ job[c].kind = "cancel"
        /\ privacyRequest.version = job[c].expected
        /\ privacyRequest' = [privacyRequest EXCEPT !.status = "cancelled",
                                                    !.version = privacyRequest.version + 1]
        /\ job' = [job EXCEPT ![c].step = "written"] /\ cancellations' = cancellations + 1
    BY DEF PrivacyInv, cancelRequest
  <1>2. job[c] \in Job /\ job[c] # Unsent
    BY SentCommand DEF cancelRequest, PrivacyInv
  <1>3. job[c].expected = 0 /\ privacyRequest.status # "none"
    BY <1>1, <1>2 DEF PrivacyInv, CommandsWereFormed
  <1>4. privacyRequest.status # "cancelled" /\ cancellations = 0
    BY <1>1, <1>3 DEF PrivacyInv, VersionOfRequest, CancelledOnce
  <1>5. privacyRequest'.status = "cancelled" /\ privacyRequest'.version = 1 /\ privacyRequest' \in FiledRequest
    <2>1. privacyRequest \in FiledRequest /\ privacyRequest.version = 0
      BY <1>1, <1>3 DEF PrivacyTypeOK
    <2>2. privacyRequest' = [privacyRequest EXCEPT !.status = "cancelled", !.version = 1]
      BY <1>1, <2>1
    <2>3. privacyRequest' = [status |-> "cancelled", version |-> 1, recorded |-> privacyRequest.recorded]
      BY <2>1, <2>2 DEF FiledRequest
    <2>4. privacyRequest.recorded \in 0..MaxVersion
      BY <2>1 DEF FiledRequest
    <2> QED BY <2>3, <2>4 DEF FiledRequest
  <1>6. CommandsWereFormed' /\ job' \in [Command -> {Unsent} \cup Job]
    BY <1>1, <1>2, <1>5, CommandWritten
  <1>7. PrivacyTypeOK'
    BY <1>1, <1>4, <1>5, <1>6 DEF PrivacyTypeOK
  <1>8. CancelledOnce' /\ VersionOfRequest' /\ PagesAreBehind'
    BY <1>1, <1>4, <1>5 DEF PrivacyInv, CancelledOnce, VersionOfRequest, PagesAreBehind
  <1> QED BY <1>6, <1>7, <1>8 DEF PrivacyInv

LEMMA PrivacyInductive == PrivacyInv /\ [PrivacyNext]_privacyVars => PrivacyInv'
  <1> SUFFICES ASSUME PrivacyInv, [PrivacyNext]_privacyVars
               PROVE  PrivacyInv'
    OBVIOUS
  <1>1. ASSUME NEW p \in Person, listRetentionPolicies(p) \/ Leave(p)
        PROVE  PrivacyInv'
    BY <1>1, ListPoliciesInd, LeaveInd
  <1>2. ASSUME NEW c \in Command, NEW p \in Person, NEW kind \in {"change", "submit", "cancel"},
               NEW setting \in Setting, send(c, p, kind, setting)
        PROVE  PrivacyInv'
    BY <1>2, SendCommandInd
  <1>3. ASSUME NEW c \in Command, check(c) \/ refuse(c) \/ conflict(c) \/ AbortPrivacy(c)
        PROVE  PrivacyInv'
    BY <1>3, CheckCommandInd, RefuseCommandInd
  <1>4. ASSUME NEW c \in Command, updateRetentionPolicy(c) \/ createRequest(c) \/ cancelRequest(c)
        PROVE  PrivacyInv'
    BY <1>4, UpdatePolicyInd, CreateRequestInd, CancelRequestInd
  <1>5. CASE UNCHANGED privacyVars
    BY <1>5 DEF privacyVars, PrivacyInv, PrivacyTypeOK, CancelledOnce, PagesAreBehind,
                VersionOfRequest, CommandsWereFormed
  <1> QED BY <1>1, <1>2, <1>3, <1>4, <1>5 DEF PrivacyNext

LEMMA PolicyPromiseInit == PrivacyInit => Promise!Init
  <1> SUFFICES ASSUME PrivacyInit
               PROVE  Promise!Init
    OBVIOUS
  <1>1. policy.setting \in Setting /\ policy.version \in Nat
    BY PrivacyParameters DEF PrivacyInit
  <1>2. [p \in Person |-> page[p].policy] = [p \in Person |-> 0]
    BY DEF PrivacyInit
  <1> QED BY <1>1, <1>2 DEF Promise!Init

LEMMA PolicyPromiseStep ==
  ASSUME PrivacyInv, [PrivacyNext]_privacyVars
  PROVE  [Promise!Next]_<<policy.setting, policy.version, [p \in Person |-> page[p].policy]>>
  <1> DEFINE shows == [p \in Person |-> page[p].policy]
  <1>1. ASSUME NEW p \in Person, listRetentionPolicies(p)
        PROVE  Promise!Look(p)
    <2>1. page' = [page EXCEPT ![p] = [policy |-> policy.version, request |-> privacyRequest.version]]
          /\ policy' = policy
      BY <1>1 DEF listRetentionPolicies
    <2>2. shows' = [shows EXCEPT ![p] = policy.version]
      BY <2>1 DEF PrivacyInv, PrivacyTypeOK
    <2> QED BY <2>1, <2>2 DEF Promise!Look
  <1>2. ASSUME NEW c \in Command, updateRetentionPolicy(c)
        PROVE  \E p \in Person : Promise!Change(p)
    <2>1. /\ job[c] \in Job /\ page[job[c].by].policy = policy.version
          /\ policy' = [row |-> TRUE, version |-> policy.version + 1, setting |-> job[c].setting]
      BY <1>2, WrittenPolicy
    <2>2. page' = page /\ policy.setting \in Setting
      BY <1>2 DEF updateRetentionPolicy, PrivacyInv, PrivacyTypeOK, Policy
    <2>3. job[c].by \in Person /\ job[c].setting \in Setting
      BY <2>1 DEF Job
    <2>4. policy'.version = policy.version + 1 /\ policy'.setting \in Setting
      BY <2>1, <2>3
    <2>5. shows[job[c].by] = policy.version /\ shows' = shows
      BY <2>1, <2>2, <2>3
    <2>6. Promise!Change(job[c].by)
      BY <2>2, <2>4, <2>5 DEF Promise!Change
    <2> QED BY <2>3, <2>6
  <1>3. ASSUME \A p \in Person : ~listRetentionPolicies(p),
               \A c \in Command : ~updateRetentionPolicy(c)
        PROVE  UNCHANGED <<policy, page>>
    BY <1>3 DEF PrivacyNext, privacyVars, send, check, refuse, conflict, AbortPrivacy, Leave,
                createRequest, cancelRequest
  <1>4. UNCHANGED <<policy, page>> => UNCHANGED <<policy.setting, policy.version, shows>>
    OBVIOUS
  <1> QED BY <1>1, <1>2, <1>3, <1>4 DEF Promise!Next

(* A request is cancelled once; and a policy is changed by someone who has    *)
(* the one in force on the page, the first time too, when there is no row to  *)
(* compare with: the version implements the promise of a version.             *)
THEOREM PoliciesKeepTheirPromise == PrivacySpec => PrivacyKept
  <1>1. PrivacySpec => []PrivacyInv
    BY PrivacyInitInv, PrivacyInductive, PTL DEF PrivacySpec
  <1>2. PrivacyInv => PrivacyTypeOK /\ CancelledOnce
    BY DEF PrivacyInv
  <1>3. PrivacyInv /\ [PrivacyNext]_privacyVars =>
          [Promise!Next]_<<policy.setting, policy.version, [p \in Person |-> page[p].policy]>>
    BY PolicyPromiseStep
  <1> QED BY <1>1, <1>2, <1>3, PolicyPromiseInit, PTL DEF PrivacySpec, PrivacyKept, Promise!Spec
=============================================================================
