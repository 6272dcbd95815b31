---------------------------- MODULE RateLimiter ----------------------------
(***************************************************************************)
(* The shared rate limit of one client in one bucket.  Every API process      *)
(* counts its requests in the row of the window that its own clock shows, and *)
(* now and then removes, beside the requests, rows that have expired by that  *)
(* clock.  A row removed while another process still counts in its window     *)
(* would begin again at one.                                                 *)
(***************************************************************************)
EXTENDS Integers, FiniteSets

CONSTANTS
    Process,
    Limit,          \* the requests of one window
    Window,         \* the length of a window
    Keep,           \* how long a row is kept after its window began
    Ahead,          \* Ahead[p]: what p's clock is ahead of the slowest one
    Interval,       \* between two cleanups of a process
    RetryInterval,  \* after a cleanup that failed
    BatchSize,      \* the rows one cleanup removes
    MaxTime         \* bounds the time in the model

(* The code keeps a row for two windows and an hour at least. *)
ASSUME RateLimiterAssumption ==
    /\ {Limit, Window, Interval, RetryInterval, BatchSize} \subseteq Nat \ {0}
    /\ MaxTime \in Nat /\ Keep \in Nat /\ Keep >= 2 * Window
    /\ Ahead \in [Process -> Nat]

(* What the count rests on: no clock is ahead of another by more than a row   *)
(* outlives its window, 45 minutes for the longest window.                  *)
ASSUME ClocksAgree == \A p \in Process : Ahead[p] <= Keep - Window

VARIABLES
    time,           \* what the slowest clock shows
    count,          \* the rows: the requests counted in the window that began then
    admitted,       \* the requests that were let through, by window
    nextCleanup,    \* when a process may clean up next
    cleanup         \* the cutoff of each process's cleanup, while one runs

vars == <<time, count, admitted, nextCleanup, cleanup>>

NoRow == 0
NoCleanup == -1

clock(p) == time + Ahead[p]
windowOf(t) == t - (t % Window)
windowStartedAt(p) == windowOf(clock(p))
Start == {windowOf(t) : t \in 0..(MaxTime + Keep)}

(* A row is removed as soon as a cleanup's cutoff reaches this. *)
expiresWithWindow(start) == start + Window
expiresAt(start) == start + Keep

Init ==
    /\ time = 0
    /\ count = [s \in Start |-> NoRow]
    /\ admitted = [s \in Start |-> 0]
    /\ nextCleanup = [p \in Process |-> 0]
    /\ cleanup = [p \in Process |-> NoCleanup]

-----------------------------------------------------------------------------

(* One statement inserts the row or counts it up; then a cleanup may begin.   *)
(* Counts past Limit + 1 are alike, and the model stops there.               *)
consume(p) ==
    LET start == windowStartedAt(p) IN
    /\ count[start] <= Limit
    /\ count' = [count EXCEPT ![start] = @ + 1]
    /\ admitted' = [admitted EXCEPT ![start] = IF count'[start] <= Limit THEN @ + 1 ELSE @]
    /\ IF cleanup[p] = NoCleanup /\ clock(p) >= nextCleanup[p]
       THEN /\ cleanup' = [cleanup EXCEPT ![p] = clock(p)]
            /\ nextCleanup' = [nextCleanup EXCEPT ![p] = clock(p) + Interval]
       ELSE UNCHANGED <<cleanup, nextCleanup>>
    /\ UNCHANGED time

Expired(cutoff) == {s \in Start : count[s] # NoRow /\ expiresAt(s) <= cutoff}

Smaller(a, b) == IF a < b THEN a ELSE b

(* The oldest of the expired rows are removed, and sooner again after a full batch. *)
pruneExpiredBatch(p) ==
    /\ cleanup[p] # NoCleanup
    /\ \E removed \in SUBSET Expired(cleanup[p]) :
          /\ Cardinality(removed) = Smaller(BatchSize, Cardinality(Expired(cleanup[p])))
          /\ \A s \in removed, k \in Expired(cleanup[p]) \ removed : s < k
          /\ count' = [s \in Start |-> IF s \in removed THEN NoRow ELSE count[s]]
          /\ nextCleanup' = [nextCleanup EXCEPT ![p] =
                IF Cardinality(removed) >= BatchSize THEN Smaller(@, cleanup[p] + 1) ELSE @]
    /\ cleanup' = [cleanup EXCEPT ![p] = NoCleanup]
    /\ UNCHANGED <<time, admitted>>

CleanupFails(p) ==
    /\ cleanup[p] # NoCleanup
    /\ nextCleanup' = [nextCleanup EXCEPT ![p] = cleanup[p] + RetryInterval]
    /\ cleanup' = [cleanup EXCEPT ![p] = NoCleanup]
    /\ UNCHANGED <<time, count, admitted>>

(* A process that restarts cleans up with its first request. *)
Restart(p) ==
    /\ nextCleanup' = [nextCleanup EXCEPT ![p] = 0]
    /\ cleanup' = [cleanup EXCEPT ![p] = NoCleanup]
    /\ UNCHANGED <<time, count, admitted>>

Tick ==
    /\ time < MaxTime
    /\ time' = time + 1
    /\ UNCHANGED <<count, admitted, nextCleanup, cleanup>>

Next ==
    \/ \E p \in Process :
          consume(p) \/ pruneExpiredBatch(p) \/ CleanupFails(p) \/ Restart(p)
    \/ Tick

Spec == Init /\ [][Next]_vars

-----------------------------------------------------------------------------
TypeOK ==
    /\ time \in 0..MaxTime
    /\ count \in [Start -> 0..(Limit + 1)]
    /\ admitted \in [Start -> Nat]
    /\ nextCleanup \in [Process -> Nat]
    /\ cleanup \in [Process -> Nat \cup {NoCleanup}]
    /\ \A p \in Process : cleanup[p] # NoCleanup => cleanup[p] < nextCleanup[p]

(* Whatever the processes, their clocks and their cleanups, no more requests  *)
(* of a client are let through in a window than the limit says.              *)
AdmittedWithinLimit == \A s \in Start : admitted[s] <= Limit

(* The counts stay in their range, and within the limit what is let through.  *)
LimiterConsistent == TypeOK /\ AdmittedWithinLimit
=============================================================================
